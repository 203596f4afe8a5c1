----------------------------- MODULE MemoryAudit -----------------------------
(***************************************************************************)
(* The hash-chained audit of memory writes (internal/memory Guard) and the *)
(* check that reads it (Service.VerifyChainOnce).  Every replica appends   *)
(* under its own lock with its own cached head; the unique number of a row *)
(* is all they share.  A check reads the rows and then the head, and holds *)
(* no lock.                                                                *)
(*                                                                         *)
(* Somebody may remove the newest rows behind the program's back, and the  *)
(* chain operations may shorten the front and declare it.                  *)
(***************************************************************************)
EXTENDS HashChain, SequencesExt

CONSTANTS
    Writers,        \* replicas that append
    MaxEntries,     \* bound on the appends
    MaxFaults       \* bound on failed queries, lost replies and crashes

ASSUME AuditBounds == MaxEntries \in Nat /\ MaxFaults \in Nat

VARIABLES
    chain,      \* the rows of memory_audit by number
    head,       \* memory_chain_head
    declared,   \* the declared start after a truncation, or NoHead
    cached,     \* the head each process remembers, or NoHead
    appender,   \* each process's append in progress
    check,      \* the check in progress and the last verdict
    entries, faults,
    removed,    \* numbers of rows removed behind the program's back
    excused     \* an append may have continued from a head that was not, or no
                \* longer, the chain's: another process's rows, an unreadable head

auditVars == <<chain, head, declared, cached, appender, check, entries, faults, removed, excused>>

NoAppend == [pc |-> "idle"]
NoCheck == [pc |-> "idle", rows |-> << >>, saw |-> FALSE, beside |-> FALSE, verdict |-> "never-checked"]

AuditInit ==
    /\ chain = << >> /\ head = NoHead /\ declared = NoHead
    /\ cached = [w \in Writers |-> NoHead]
    /\ appender = [w \in Writers |-> NoAppend]
    /\ check = NoCheck
    /\ entries = 0 /\ faults = 0 /\ removed = {} /\ excused = FALSE

Fault == faults < MaxFaults /\ faults' = faults + 1
-----------------------------------------------------------------------------
(* Guard.Audit: the head in hand comes from the cache, or from the newest  *)
(* row and then the persisted head.                                        *)

Begin(w) ==
    /\ appender[w].pc = "idle" /\ entries < MaxEntries
    /\ entries' = entries + 1
    /\ appender' = [appender EXCEPT ![w] =
            [pc |-> IF cached[w] = NoHead THEN "rows" ELSE "append", hand |-> cached[w], item |-> entries]]
    /\ UNCHANGED <<chain, head, declared, cached, check, faults, removed, excused>>
ReadLastRow(w) ==
    /\ appender[w].pc = "rows"
    /\ appender' = [appender EXCEPT ![w].pc = "head", ![w].hand = TailOf(chain)]
    /\ UNCHANGED <<chain, head, declared, cached, check, entries, faults, removed, excused>>
ReadHead(w) ==
    /\ appender[w].pc = "head"
    /\ LET h == PastAnchor(appender[w].hand, head)
       IN  /\ appender' = [appender EXCEPT ![w].pc = "append", ![w].hand = h]
           /\ cached' = [cached EXCEPT ![w] = h]
           /\ excused' = (excused \/ (h # appender[w].hand /\ appender[w].hand # TailOf(chain)))
    /\ UNCHANGED <<chain, head, declared, check, entries, faults, removed>>
(* A head that could not be read is taken for one that is not there.       *)
HeadUnread(w) ==
    /\ appender[w].pc = "head" /\ Fault
    /\ appender' = [appender EXCEPT ![w].pc = "append"]
    /\ cached' = [cached EXCEPT ![w] = appender[w].hand]
    /\ excused' = (excused \/ PastAnchor(appender[w].hand, head) # appender[w].hand)
    /\ UNCHANGED <<chain, head, declared, check, entries, removed>>

(* The rows are read in the order of their numbers.                        *)
PlaceOfNumber(n) ==
    CHOOSE i \in 1 .. Len(chain) + 1 :
        /\ \A j \in 1 .. i - 1 : chain[j].seq < n
        /\ \A j \in i .. Len(chain) : chain[j].seq > n
(* One transaction: the row, whose number nobody has, and the head it is.  *)
Committed(w) ==
    LET h == appender[w].hand
        row == [seq |-> h.seq, prev |-> h.hash, item |-> appender[w].item]
    IN  /\ appender[w].pc = "append" /\ h.seq \notin Seqs(chain)
        /\ chain' = InsertAt(chain, PlaceOfNumber(h.seq), row)
        /\ head' = [seq |-> h.seq, hash |-> HashOf(row)]
        /\ appender' = [appender EXCEPT ![w] = NoAppend]
        /\ check' = [check EXCEPT !.beside = TRUE]
        /\ UNCHANGED <<declared, entries, removed, excused>>
(* What the process remembers once the commit was answered.                *)
NextHead(h, newHead) == [seq |-> h.seq + 1, hash |-> newHead.hash]
Append_(w) ==
    /\ Committed(w)
    /\ cached' = [cached EXCEPT ![w] = NextHead(appender[w].hand, head')]
    /\ UNCHANGED faults
(* The commit was made and its answer lost, or nothing was written at all: *)
(* the caller is not told, and the next append reads the head again.       *)
CommitReplyLost(w) ==
    /\ Committed(w) /\ Fault
    /\ cached' = [cached EXCEPT ![w] = NoHead]
Refused(w) ==
    /\ appender[w].pc = "append" /\ appender[w].hand.seq \in Seqs(chain)
    /\ cached' = [cached EXCEPT ![w] = NoHead]
    /\ appender' = [appender EXCEPT ![w] = NoAppend]
    /\ UNCHANGED <<chain, head, declared, check, entries, faults, removed, excused>>
AppendFails(w) ==
    /\ appender[w].pc \in {"rows", "append"} /\ Fault
    /\ cached' = [cached EXCEPT ![w] = NoHead]
    /\ appender' = [appender EXCEPT ![w] = NoAppend]
    /\ UNCHANGED <<chain, head, declared, check, entries, removed, excused>>
Restart(w) ==
    /\ Fault
    /\ cached' = [cached EXCEPT ![w] = NoHead]
    /\ appender' = [appender EXCEPT ![w] = NoAppend]
    /\ UNCHANGED <<chain, head, declared, check, entries, removed, excused>>
-----------------------------------------------------------------------------
(* The rows removed are the newest; the front is shortened only when the   *)
(* chain verifies, and something is left.                                  *)

KnowsRemoved(w, gone) ==
    \/ cached[w] # NoHead /\ cached[w].seq \in gone
    \/ appender[w].pc = "append" /\ appender[w].hand.seq \in gone
RowsRemoved(n) ==
    /\ removed = {} /\ n \in 0 .. Len(chain) - 1
    /\ chain' = SubSeq(chain, 1, n)
    /\ removed' = Seqs(chain) \ Seqs(chain')
    /\ excused' = (excused \/ \E w \in Writers : KnowsRemoved(w, removed'))
    /\ UNCHANGED <<head, declared, cached, appender, check, entries, faults>>

Links(s, d) ==
    IF s = << >> \/ s[1].seq = 0 THEN VerifyChain(s, 0, Genesis)
    ELSE d # NoHead /\ d.seq = s[1].seq /\ d.hash = s[1].prev /\ VerifyChain(s, d.seq, d.hash)
Truncate ==
    /\ Len(chain) > 1 /\ declared = NoHead /\ Links(chain, declared)
    /\ chain' = Tail(chain)
    /\ declared' = [seq |-> chain[2].seq, hash |-> chain[2].prev]
    /\ excused' = (excused \/ \E w \in Writers : KnowsRemoved(w, {chain[1].seq}))
    /\ UNCHANGED <<head, cached, appender, check, entries, faults, removed>>
-----------------------------------------------------------------------------
(* Guard.Verify, its verdict recorded for the health surface: the rows,    *)
(* the declared start when the front is gone, then the head.               *)

Verdict(v) == check' = [check EXCEPT !.pc = "idle", !.rows = << >>, !.verdict = v]
Idle == UNCHANGED <<chain, head, declared, cached, appender, entries, removed, excused>>
CheckRows ==
    /\ check.pc = "idle"
    /\ check' = [check EXCEPT !.pc = "links", !.rows = chain, !.saw = removed # {}, !.beside = FALSE]
    /\ Idle /\ UNCHANGED faults
(* A cursor that breaks half way ends the loop like one that is done; the  *)
(* rows in hand are beside the head, as after an append in between.        *)
CheckRowsCut ==
    /\ check.pc = "idle" /\ chain # << >> /\ Fault
    /\ \E n \in 0 .. Len(chain) - 1 :
          check' = [check EXCEPT !.pc = "links", !.rows = SubSeq(chain, 1, n), !.saw = removed # {}, !.beside = TRUE]
    /\ Idle
CheckLinks ==
    /\ check.pc = "links"
    /\ IF Links(check.rows, declared) THEN check' = [check EXCEPT !.pc = "head"] ELSE Verdict("TAMPERED")
    /\ Idle /\ UNCHANGED faults
CheckHead ==
    /\ check.pc = "head"
    /\ Verdict(IF HeadValid(check.rows, head) THEN "intact" ELSE "TAMPERED")
    /\ Idle /\ UNCHANGED faults
(* What could not be read was not checked.                                 *)
CheckFails == Fault /\ Verdict("unverified") /\ Idle

AuditStep(w) ==
    \/ Begin(w) \/ ReadLastRow(w) \/ ReadHead(w) \/ HeadUnread(w)
    \/ Append_(w) \/ CommitReplyLost(w) \/ Refused(w) \/ AppendFails(w) \/ Restart(w)
AuditNext ==
    \/ \E w \in Writers : AuditStep(w)
    \/ \E n \in 0 .. MaxEntries : RowsRemoved(n)
    \/ Truncate \/ CheckRows \/ CheckRowsCut \/ CheckLinks \/ CheckHead \/ CheckFails
AuditSpec == AuditInit /\ [][AuditNext]_auditVars
-----------------------------------------------------------------------------
(* The verdict of a completed check can be trusted both ways: it says      *)
(* TAMPERED only when rows were removed, an append was committed between   *)
(* its two reads, or its read was cut; it says intact, after rows were     *)
(* removed, never.  The exception to both is an append that continued from *)
(* a head that was not the chain's, which takes a second process or a head *)
(* that could not be read.                                                 *)
VerdictsCanBeTrusted ==
    /\ check.pc = "idle" /\ check.verdict = "TAMPERED" => removed # {} \/ check.beside \/ excused
    /\ check.pc = "idle" /\ check.verdict = "intact" /\ check.saw => excused
=============================================================================
