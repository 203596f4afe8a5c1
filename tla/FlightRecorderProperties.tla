----------------------- MODULE FlightRecorderProperties -----------------------
(***************************************************************************)
(* What the flight recorder has to guarantee (internal/recorder).          *)
(***************************************************************************)
EXTENDS FlightRecorder, SequencesExt

(* Every variable has its type.                                            *)
TypeOK ==
  /\ state \in [Recorder -> {"starting", "unavailable", "ready"}]
  /\ queue \in [Recorder -> Seq(Event)]
  /\ chains \in [Recorder -> [Episode -> ChainHead \cup {NoHead}]]
  /\ pending \in [Recorder -> [Episode -> Nat]]
  /\ lost \in [Recorder -> Nat]
  /\ dropping \in [Recorder -> [Episode -> Nat]]
  /\ stop \in [Recorder -> {"no", "asked", "final"}]
  /\ pc \in [Recorder -> {"idle", "build", "anchor", "extend", "heads", "exited"}]
  /\ batch \in [Recorder -> Seq(Event)]
  /\ gaps \in [Recorder -> [Episode -> Nat]]
  /\ left \in [Recorder -> SUBSET Episode]
  /\ pos \in [Recorder -> Nat \ {0}]
  /\ cur \in [Recorder -> [item : Item, head : ChainHead] \cup {NoItem}]
  /\ rows \in [Recorder -> [Episode -> Seq(Row)]]
  /\ heads \in [Recorder -> SUBSET Episode]
  /\ log \in [Episode -> Seq(Row)]
  /\ anchor \in [Episode -> [seq : Nat, hash : Hash] \cup {NoHead}]
  /\ given \in [Episode -> Nat]
  /\ offered \in Nat
  /\ faults \in Nat

(* Between the first item of a flush and its commit.                       *)
Building(r) == pc[r] \in {"build", "anchor", "extend"}

(* The batch being flushed has an item of ep.                              *)
InBatch(r, ep) == gaps[r][ep] > 0 \/ \E i \in DOMAIN batch[r] : batch[r][i].ep = ep

(* How the drain goroutine's control state relates to its data: it holds   *)
(* an item while it builds it, rows only between a flush and its last      *)
(* anchor and only for episodes of the batch, and anchors to write only    *)
(* after a commit that inserted rows for them.                             *)
Control(r) ==
  /\ pc[r] # "idle" => HasQueue(r)
  /\ pc[r] \in {"anchor", "extend"} =>
       cur[r] # NoItem /\ InBatch(r, cur[r].item.ep)
  /\ pc[r] # "heads" => heads[r] = {}
  /\ pc[r] \in {"idle", "exited"} => rows[r] = NoRows
  /\ \A ep \in left[r] : gaps[r][ep] > 0
  /\ \A ep \in Episode :
       /\ ep \in heads[r] => rows[r][ep] # <<>>
       /\ Building(r) /\ rows[r][ep] # <<>> => InBatch(r, ep)

ControlOK == \A r \in Recorder : Control(r)

(* Whatever fails and whenever it fails, the rows of every episode verify  *)
(* from their origin: no lost batch, dropped cache or refused event leaves *)
(* a seq gap or a broken link that would read as tampering.                *)
ChainVerifies == \A ep \in Episode : VerifyChain(log[ep], 0, Genesis)

(* The anchor never accuses an intact chain of having lost its newest      *)
(* rows, and agrees with the row it names.                                 *)
AnchorTruthful == \A ep \in Episode : HeadValid(log[ep], anchor[ep])

(* What a reader of the database is told of an episode is true at every    *)
(* moment between the steps of a flush: the rows verify and the anchor     *)
(* does not accuse them (recorder.go, VerifyChain and headIntegrity).      *)
ChainIsTrue == ChainVerifies /\ AnchorTruthful

(* What all recorders together still owe the log for ep.                   *)
Owed(ep) == Total([r \in Recorder |-> Outstanding(r, ep)])

(* Every event taken or noted as lost is accounted for: by a row, by the   *)
(* count of a gap row, or by what a recorder still carries.                *)
NoSilentLoss ==
  \A ep \in Episode :
     given[ep] <= Weight(log[ep]) + Owed(ep)

(* No event of the rows s has a number above n and what the rows up to it  *)
(* account for.                                                            *)
InPlace(s, n) ==
  \A i \in DOMAIN s : ~s[i].item.gap => s[i].item.n <= n + Weight(SubSeq(s, 1, i))

(* A hole shows where it happened: when an event is in the chain, every    *)
(* event of its episode given before it is accounted for up to that row.   *)
GapInPlace == \A ep \in Episode : InPlace(log[ep], 0)

(* Losses are neither hidden nor misplaced, whichever of the queue, the    *)
(* batch and the database they befell (recorder.go, noteLoss, carryLoss,   *)
(* takeLosses).                                                            *)
LossesInPlace == NoSilentLoss /\ GapInPlace

(* The events of ep among the first n of s.                                *)
EventsUpTo(s, n, ep) == {i \in 1 .. n : s[i].ep = ep}
CountUpTo(s, n, ep)  == Cardinality(EventsUpTo(s, n, ep))

(* Why no loss is silent: the rows a flush has built account for its gap   *)
(* items and the events it has passed, the item at hand is one it has yet  *)
(* to build, and outside a flush nothing is left of one.                   *)
RowsAccount(r) ==
  Building(r) =>
    /\ pos[r] <= Len(batch[r]) + 1
    /\ left[r] # {} => pos[r] = 1
    /\ \A ep \in Episode :
         Weight(rows[r][ep]) = (IF ep \in left[r] THEN 0 ELSE gaps[r][ep])
                               + CountUpTo(batch[r], pos[r] - 1, ep)

ItemAtHand(r) == pc[r] \in {"anchor", "extend"} => cur[r].item \in NextItems(r)

NothingLeft(r) ==
  /\ ~Building(r) => gaps[r] = NoLoss /\ left[r] = {} /\ pos[r] = 1
  /\ ~HasQueue(r) => queue[r] = <<>>
  /\ ~HasQueue(r) \/ pc[r] \in {"heads", "exited"} => batch[r] = <<>>
  /\ stop[r] # "no" => state[r] # "starting"

AccountsOf(r) == RowsAccount(r) /\ ItemAtHand(r) /\ NothingLeft(r)

AccountInv == \A r \in Recorder : AccountsOf(r)

(* Why the holes of an episode are where they happened, for one recorder   *)
(* r: an event is given its number after all that r still owes before it.  *)
RowsInPlace(r, ep) == Building(r) => InPlace(rows[r][ep], Weight(log[ep]))

BatchInPlace(r, ep) ==
  \A i \in DOMAIN batch[r] :
     batch[r][i].ep = ep =>
        batch[r][i].n
          <= Weight(log[ep]) + (IF Building(r) THEN gaps ELSE pending)[r][ep]
             + CountUpTo(batch[r], i, ep)

QueueInPlace(r, ep) ==
  \A i \in DOMAIN queue[r] :
     queue[r][i].ep = ep =>
        queue[r][i].n
          <= Weight(log[ep]) + pending[r][ep] + gaps[r][ep]
             + CountOf(batch[r], ep) + CountUpTo(queue[r], i, ep)

PlaceInv(r) ==
  /\ LossesInPlace
  /\ \A ep \in Episode :
       RowsInPlace(r, ep) /\ BatchInPlace(r, ep) /\ QueueInPlace(r, ep)

(* The anchor of an episode never moves backwards: a regressed anchor      *)
(* would let the newest rows disappear unnoticed.  (One recorder: with two *)
(* the upsert of the slower one may overwrite the newer anchor.)           *)
AnchorNeverRegresses ==
  [][\A ep \in Episode :
       anchor[ep] # NoHead =>
         anchor'[ep] # NoHead /\ anchor'[ep].seq >= anchor[ep].seq]_anchor

(* Any number of recorders, with stale caches and unknown commits, number  *)
(* the rows of an episode 0, 1, 2, ... without a hole or a repetition: a   *)
(* hole would read as removed rows.                                        *)
SeqsConsecutive ==
  \A ep \in Episode : \A i \in 1 .. Len(log[ep]) : log[ep][i].seq = i - 1

(* Rows s cannot all be inserted into a log of n rows: one carries the     *)
(* number of a row the log has, or two carry the same number.              *)
Collide(s, n) == (\E i \in DOMAIN s : s[i].seq < n) \/ ~NoDuplicate(s)

(* Rows s number on from a log of n rows.                                  *)
Follow(s, n) == \A i \in 1 .. Len(s) : s[i].seq = n + i - 1

Doomed(r, ep) == Collide(rows[r][ep], Len(log[ep]))
InStep(r, ep) == Follow(rows[r][ep], Len(log[ep]))

HeadInStep(r, ep, h) ==
  \/ h.seq <= Len(log[ep])
  \/ /\ Building(r)
     /\ rows[r][ep] # <<>>
     /\ h.seq = rows[r][ep][Len(rows[r][ep])].seq + 1

(* Why SeqsConsecutive holds: a flush whose rows do not continue the log   *)
(* is one the unique constraint rejects.                                   *)
SeqAt(r, ep) ==
  /\ chains[r][ep] # NoHead => HeadInStep(r, ep, chains[r][ep])
  /\ pc[r] \in {"anchor", "extend"} /\ cur[r].item.ep = ep
       => HeadInStep(r, ep, cur[r].head)
  /\ Building(r) => Doomed(r, ep) \/ InStep(r, ep)
  /\ pc[r] = "heads" =>
       \A i \in DOMAIN rows[r][ep] : rows[r][ep][i].seq < Len(log[ep])

AnchorInLog ==
  \A ep \in Episode : anchor[ep] # NoHead => anchor[ep].seq < Len(log[ep])

SeqInv ==
  /\ SeqsConsecutive
  /\ AnchorInLog
  /\ \A r \in Recorder, ep \in Episode : SeqAt(r, ep)

(* Rows s link to each other and the first one to the head h.              *)
Linked(s, h) ==
  \A i \in 1 .. Len(s) : s[i].prev = IF i = 1 THEN h.hash ELSE HashOf(s[i - 1])

(* The same with links, for one recorder r: the head it continues from is  *)
(* the end of the log or, within a flush, the end of the rows built.       *)
Continues(r, ep) == InStep(r, ep) /\ Linked(rows[r][ep], TailOf(log[ep]))

LinkAt(r, ep) ==
  /\ Building(r) => Doomed(r, ep) \/ Continues(r, ep)
  /\ pc[r] = "anchor" /\ cur[r].item.ep = ep => cur[r].head = TailOf(log[ep])
  /\ pc[r] = "extend" /\ cur[r].item.ep = ep =>
       \/ cur[r].head = TailOf(log[ep])
       \/ Doomed(r, ep)
       \/ rows[r][ep] # <<>> /\ cur[r].head = TailOf(rows[r][ep])
  /\ chains[r][ep] # NoHead =>
       IF ~Building(r) \/ rows[r][ep] = <<>>
       THEN chains[r][ep] = TailOf(log[ep])
       ELSE \/ Doomed(r, ep)
            \/ chains[r][ep] = TailOf(rows[r][ep])
            \/ pc[r] = "extend" /\ cur[r].item.ep = ep

ChainInv(r) == ChainVerifies /\ \A ep \in Episode : LinkAt(r, ep)

(* Why AnchorTruthful holds, for any number of recorders: an anchor names  *)
(* a row of the log, because what a recorder takes anchors from after a    *)
(* commit are rows of the log.                                             *)
AnchorNamesRow(ep) ==
  anchor[ep] # NoHead => anchor[ep].hash = HashOf(log[ep][anchor[ep].seq + 1])

RowsInLog(r, ep) ==
  pc[r] = "heads" =>
    \A i \in DOMAIN rows[r][ep] : rows[r][ep][i] = log[ep][rows[r][ep][i].seq + 1]

AnchorInv ==
  /\ \A ep \in Episode : AnchorNamesRow(ep)
  /\ \A r \in Recorder, ep \in Episode : RowsInLog(r, ep)

(* Why the anchor does not regress, for one recorder r: the rows it takes  *)
(* anchors from are the newest of the log.                                 *)
NewestIsLast(r) ==
  pc[r] = "heads" =>
    \A ep \in Episode :
       rows[r][ep] # <<>> => NewestRow(r, ep).seq = Len(log[ep]) - 1

(* With a finite number of failures every event given is in the end        *)
(* written or declared lost, and nothing stays carried forever.            *)
LossIsDeclared ==
  \A ep \in Episode :
     (given[ep] > Weight(log[ep])) ~> (given[ep] <= Weight(log[ep]))

(* What the chain tells only ever grows: the anchor never moves back, and  *)
(* what was lost is said in the end.                                       *)
RecorderMovesOn == AnchorNeverRegresses /\ LossIsDeclared

(* Expected to fail, see README.                                           *)
(* "noteLoss carries an event that never reached the queue" and the cached *)
(* head is dropped only "if the insert then fails" (recorder.go, noteLoss  *)
(* and build): with a database that never fails, the events declared lost  *)
(* are those the queue refused.                                            *)
OnlyRefusedEventsAreLost ==
  faults = 0 =>
    Total([ep \in Episode |->
             Total([i \in DOMAIN log[ep] |-> IF log[ep][i].item.gap
                                             THEN log[ep][i].item.n ELSE 0])
             + Total([r \in Recorder |-> pending[r][ep] + gaps[r][ep]])])
    <= Total(lost)

(* The ledger this recorder implements.                                    *)
Ledger == INSTANCE EpisodeLedger WITH
  Writer  <- Recorder,
  up      <- {r \in Recorder : state[r] # "starting"},
  entries <- [ep \in Episode |-> Weights(log[ep])],
  owed    <- [ep \in Episode |-> Owed(ep)]

(* Every step of the recorder is a step of the ledger or a stutter.        *)
ImplementsLedger == Ledger!Spec
=============================================================================
