---------------------------- MODULE EpisodeLedger ----------------------------
(***************************************************************************)
(* What the flight recorder promises, without queues, caches or hashes.    *)
(* Each episode has an append-only sequence of entries; an entry accounts  *)
(* for `weight' events, one it holds or several it declares lost.  `owed'  *)
(* counts the events accepted and not yet accounted for.  Owed events      *)
(* leave the ledger in two ways only: an append that accounts for them, or *)
(* the end of the process that held them in memory.                        *)
(***************************************************************************)
EXTENDS Integers, Sequences, FiniteSets, SequencesExt, Gathering

CONSTANTS Writer, Episode

VARIABLES
  up,       (* the writers that are running                                 *)
  entries,  (* the weights of the entries of each episode                   *)
  owed      (* events accepted and neither written nor declared             *)

vars == <<up, entries, owed>>

Init ==
  /\ up      = {}
  /\ entries = [ep \in Episode |-> <<>>]
  /\ owed    = [ep \in Episode |-> 0]

Suffix(s, t) == SubSeq(t, Len(s) + 1, Len(t))

Rise(w) == up' = up \cup {w} /\ UNCHANGED <<entries, owed>>

Accept(ep) ==
  /\ owed' = [owed EXCEPT ![ep] = @ + 1]
  /\ UNCHANGED <<up, entries>>

(* One append, in all episodes it touches at once.  It settles what it     *)
(* accounts for, or (when its outcome is not known to the writer) nothing. *)
Persist ==
  /\ \A ep \in Episode : IsPrefix(entries[ep], entries'[ep])
  /\ entries' # entries
  /\ DOMAIN owed' = Episode
  /\ \/ \A ep \in Episode :
          owed'[ep] = owed[ep] - Total(Suffix(entries[ep], entries'[ep]))
     \/ UNCHANGED owed
  /\ UNCHANGED up

(* A writer's process ends with whatever it held in memory.                *)
End(w) ==
  /\ w \in up
  /\ up' = up \ {w}
  /\ \A ep \in Episode : owed'[ep] \in 0 .. owed[ep]
  /\ UNCHANGED entries

Next == \/ \E w \in Writer : Rise(w) \/ End(w)
        \/ \E ep \in Episode : Accept(ep)
        \/ Persist

Spec == Init /\ [][Next]_vars
=============================================================================
