--------------------------- MODULE FlightRecorder ---------------------------
(***************************************************************************)
(* The flight recorder (internal/recorder): every typed event of an        *)
(* episode goes through a bounded in-memory queue to one background        *)
(* goroutine, which numbers the events, links each to its predecessor by a *)
(* hash and inserts them in batches into decision_log, one chain per       *)
(* episode.  What could not be written is carried and declared later by a  *)
(* recorder_gap row in the same chain.                                     *)
(*                                                                         *)
(* Each element of Recorder is the recorder of one server process; all of  *)
(* them write to one database.                                             *)
(***************************************************************************)
EXTENDS Integers, Sequences, FiniteSets, HashChain, Gathering

CONSTANTS
  Recorder,     (* the recorders: one per server process                    *)
  Episode,      (* the episodes (one chain each)                            *)
  QueueSize,    (* capacity of the queue (queueSize)                        *)
  BatchMax,     (* a batch this long is flushed at once (batchMax)          *)
  MaxTracked,   (* episodes a queue loss is tracked for (maxTrackedEps)     *)
  MaxEvents,    (* bound: events offered to the recorders in a behaviour    *)
  MaxFaults     (* bound: failures of the database and crashes              *)

ASSUME RecorderAssumption ==
  /\ QueueSize \in Nat \ {0}
  /\ BatchMax \in Nat \ {0}
  /\ MaxTracked \in Nat \ {0}
  /\ MaxEvents \in Nat
  /\ MaxFaults \in Nat

VARIABLES
  state,      (* r.state without "flag": a recorder switched off is inert   *)
  queue,      (* r.queue; there is one exactly while the state is "ready"   *)
  chains,     (* r.chains: the cached head of each episode                  *)
  pending,    (* r.pending: losses carried per episode, 0 for no entry      *)
  lost,       (* r.lost                                                     *)
  dropping,   (* callers whose send was refused and who have yet to run     *)
              (* noteLoss                                                   *)
  stop,       (* progress of Close: "no", "asked" (cancelled), "final"      *)
  pc,         (* the drain goroutine                                        *)
  batch,      (* drain's batch of events, in queue order                    *)
  gaps,       (* the gap items of the batch being flushed                   *)
  left,       (* episodes whose gap item build has yet to reach             *)
  pos,        (* the event of the batch build has reached                   *)
  cur,        (* the item being built with its seq and prev hash            *)
  rows,       (* rows built so far, grouped by episode                      *)
  heads,      (* episodes whose anchor insert has yet to write              *)
  log,        (* decision_log: the rows of each episode, in seq order       *)
  anchor,     (* decision_log_head                                          *)
  given,      (* history: events the log has to account for                 *)
  offered,    (* history: events offered so far                             *)
  faults      (* history: failures so far                                   *)

recorderVars == <<state, queue, chains, pending, lost, dropping, stop>>
drainVars    == <<pc, batch, gaps, left, pos, cur, rows, heads>>
dbVars       == <<log, anchor>>
historyVars  == <<given, offered, faults>>
vars == <<recorderVars, drainVars, dbVars, historyVars>>

NoItem   == [none |-> "item"]

Event == [ep : Episode, n : Nat]
Item  == [ep : Episode, gap : BOOLEAN, n : Nat]
Hash  == Seq(Nat \X Item)
ChainHead == [seq : Nat, hash : Hash]
Row   == [seq : Nat, prev : Hash, item : Item]

NoLoss == [ep \in Episode |-> 0]
NoRows == [ep \in Episode |-> <<>>]
NoHeads == [ep \in Episode |-> NoHead]

CountOf(s, ep) == Cardinality({i \in DOMAIN s : s[i].ep = ep})

HasQueue(r) == state[r] = "ready"

(* What r still owes the log for ep: carried, being flushed, or queued. *)
Outstanding(r, ep) ==
  pending[r][ep] + gaps[r][ep] + CountOf(batch[r], ep) + CountOf(queue[r], ep)

(* The losses and events the rows of a sequence account for, and all of    *)
(* them together.                                                          *)
Weights(s) == [i \in DOMAIN s |-> IF s[i].item.gap THEN s[i].item.n ELSE 1]
Weight(s)  == Total(Weights(s))

(***************************************************************************)
(* Initial state: New, before Start.                                       *)
(***************************************************************************)
Init ==
  /\ state    = [r \in Recorder |-> "starting"]
  /\ queue    = [r \in Recorder |-> <<>>]
  /\ chains   = [r \in Recorder |-> NoHeads]
  /\ pending  = [r \in Recorder |-> NoLoss]
  /\ lost     = [r \in Recorder |-> 0]
  /\ dropping = [r \in Recorder |-> NoLoss]
  /\ stop     = [r \in Recorder |-> "no"]
  /\ pc       = [r \in Recorder |-> "idle"]
  /\ batch    = [r \in Recorder |-> <<>>]
  /\ gaps     = [r \in Recorder |-> NoLoss]
  /\ left     = [r \in Recorder |-> {}]
  /\ pos      = [r \in Recorder |-> 1]
  /\ cur      = [r \in Recorder |-> NoItem]
  /\ rows     = [r \in Recorder |-> NoRows]
  /\ heads    = [r \in Recorder |-> {}]
  /\ log      = NoRows
  /\ anchor   = NoHeads
  /\ given    = NoLoss
  /\ offered  = 0
  /\ faults   = 0

Fault == faults < MaxFaults /\ faults' = faults + 1

(***************************************************************************)
(* Start and its retry loop.                                               *)
(***************************************************************************)
ConnectOK(r) ==
  /\ state[r] \in {"starting", "unavailable"}
  /\ stop[r] = "no"
  /\ state' = [state EXCEPT ![r] = "ready"]
  /\ UNCHANGED <<queue, chains, pending, lost, dropping, stop>>
  /\ UNCHANGED <<drainVars, dbVars, historyVars>>

ConnectFails(r) ==
  /\ state[r] = "starting"
  /\ stop[r] = "no"
  /\ Fault
  /\ state' = [state EXCEPT ![r] = "unavailable"]
  /\ UNCHANGED <<queue, chains, pending, lost, dropping, stop>>
  /\ UNCHANGED <<drainVars, dbVars, given, offered>>

(***************************************************************************)
(* Record.  An event offered while the recorder is "starting" leaves no    *)
(* trace, so it is no step.  The refused send and noteLoss are two steps:  *)
(* the mutex is not held in between.                                       *)
(***************************************************************************)
Offer == offered < MaxEvents /\ offered' = offered + 1

Enqueue(r, ep) ==
  /\ Offer
  /\ HasQueue(r)
  /\ Len(queue[r]) < QueueSize
  /\ given' = [given EXCEPT ![ep] = @ + 1]
  /\ queue' = [queue EXCEPT ![r] = Append(@, [ep |-> ep, n |-> given[ep] + 1])]
  /\ UNCHANGED <<state, chains, pending, lost, dropping, stop, faults>>
  /\ UNCHANGED <<drainVars, dbVars>>

Refuse(r, ep) ==
  /\ Offer
  /\ \/ state[r] = "unavailable"
     \/ HasQueue(r) /\ Len(queue[r]) >= QueueSize
  /\ dropping' = [dropping EXCEPT ![r][ep] = @ + 1]
  /\ UNCHANGED <<state, queue, chains, pending, lost, stop, given, faults>>
  /\ UNCHANGED <<drainVars, dbVars>>

Tracks(r, ep) ==
  \/ pending[r][ep] > 0
  \/ Cardinality({e \in Episode : pending[r][e] > 0}) < MaxTracked

NoteLoss(r, ep) ==
  /\ dropping[r][ep] > 0
  /\ dropping' = [dropping EXCEPT ![r][ep] = @ - 1]
  /\ lost' = [lost EXCEPT ![r] = @ + 1]
  /\ IF Tracks(r, ep)
     THEN /\ pending' = [pending EXCEPT ![r][ep] = @ + 1]
          /\ chains' = [chains EXCEPT ![r][ep] = NoHead]
          /\ given' = [given EXCEPT ![ep] = @ + 1]
     ELSE UNCHANGED <<pending, chains, given>>
  /\ UNCHANGED <<state, queue, stop, offered, faults>>
  /\ UNCHANGED <<drainVars, dbVars>>

(***************************************************************************)
(* drain: take events off the queue, flush on a full batch or a tick.      *)
(***************************************************************************)
Take(r) ==
  /\ pc[r] = "idle" /\ stop[r] # "final"
  /\ queue[r] # <<>>
  /\ Len(batch[r]) < BatchMax
  /\ batch' = [batch EXCEPT ![r] = Append(@, Head(queue[r]))]
  /\ queue' = [queue EXCEPT ![r] = Tail(@)]
  /\ UNCHANGED <<state, chains, pending, lost, dropping, stop>>
  /\ UNCHANGED <<pc, gaps, left, pos, cur, rows, heads, dbVars, historyVars>>

(* Variant of HasWork that never flushes a loss with nothing queued.       *)
HasEvents(r) == batch[r] # <<>>

(* A flush with no item and no carried loss returns at once.               *)
HasWork(r) == batch[r] # <<>> \/ \E ep \in Episode : pending[r][ep] > 0

(* Variant of TakenLosses that forgets the carried losses.                 *)
NoTakenLosses(r) == NoLoss

(* The carried losses a flush turns into gap items.                        *)
TakenLosses(r) == pending[r]

Flush(r) ==
  /\ pc[r] = "idle"
  /\ HasQueue(r)
  /\ HasWork(r)
  /\ pc' = [pc EXCEPT ![r] = "build"]
  /\ gaps' = [gaps EXCEPT ![r] = TakenLosses(r)]
  /\ left' = [left EXCEPT ![r] = {ep \in Episode : TakenLosses(r)[ep] > 0}]
  /\ pending' = [pending EXCEPT ![r] = NoLoss]
  /\ UNCHANGED <<state, queue, chains, lost, dropping, stop>>
  /\ UNCHANGED <<batch, pos, cur, rows, heads, dbVars, historyVars>>

(***************************************************************************)
(* build: gap items first, then the events in order.  chainState is a      *)
(* cache hit, or two reads of the database with other steps in between.    *)
(***************************************************************************)
GapItems(r) == {[ep |-> ep, gap |-> TRUE, n |-> gaps[r][ep]] : ep \in left[r]}

EventItems(r) ==
  IF pos[r] <= Len(batch[r])
  THEN {[ep |-> batch[r][pos[r]].ep, gap |-> FALSE, n |-> batch[r][pos[r]].n]}
  ELSE {}

(* Variant of NextItems that declares the losses after the events.         *)
EventsFirst(r) == IF EventItems(r) # {} THEN EventItems(r) ELSE GapItems(r)

(* The items build may take next: any gap item while one is left (they are *)
(* of different episodes, so their order does not matter), then the next   *)
(* event.                                                                  *)
NextItems(r) == IF left[r] # {} THEN GapItems(r) ELSE EventItems(r)

CacheHit(r) ==
  /\ pc[r] = "build"
  /\ \E it \in NextItems(r) :
        /\ chains[r][it.ep] # NoHead
        /\ cur' = [cur EXCEPT ![r] = [item |-> it, head |-> chains[r][it.ep]]]
  /\ pc' = [pc EXCEPT ![r] = "extend"]
  /\ UNCHANGED <<recorderVars, dbVars, historyVars>>
  /\ UNCHANGED <<batch, gaps, left, pos, rows, heads>>

ReadTail(r) ==
  /\ pc[r] = "build"
  /\ \E it \in NextItems(r) :
        /\ chains[r][it.ep] = NoHead
        /\ cur' = [cur EXCEPT ![r] = [item |-> it, head |-> TailOf(log[it.ep])]]
  /\ pc' = [pc EXCEPT ![r] = "anchor"]
  /\ UNCHANGED <<recorderVars, dbVars, historyVars>>
  /\ UNCHANGED <<batch, gaps, left, pos, rows, heads>>

CacheHead(r, h) ==
  /\ cur' = [cur EXCEPT ![r].head = h]
  /\ chains' = [chains EXCEPT ![r][cur[r].item.ep] = h]
  /\ pc' = [pc EXCEPT ![r] = "extend"]
  /\ UNCHANGED <<state, queue, pending, lost, dropping, stop>>
  /\ UNCHANGED <<batch, gaps, left, pos, rows, heads, dbVars, given, offered>>

ReadAnchor(r) ==
  /\ pc[r] = "anchor"
  /\ CacheHead(r, PastAnchor(cur[r].head, anchor[cur[r].item.ep]))
  /\ UNCHANGED faults

ReadAnchorFails(r) ==
  /\ pc[r] = "anchor"
  /\ Fault
  /\ CacheHead(r, cur[r].head)

Extend(r) ==
  /\ pc[r] = "extend"
  /\ LET it  == cur[r].item
         row == [seq |-> cur[r].head.seq, prev |-> cur[r].head.hash, item |-> it]
     IN /\ rows' = [rows EXCEPT ![r][it.ep] = Append(@, row)]
        /\ chains' = [chains EXCEPT ![r][it.ep] =
                        [seq |-> row.seq + 1, hash |-> HashOf(row)]]
        /\ left' = [left EXCEPT ![r] = IF it.gap THEN @ \ {it.ep} ELSE @]
        /\ pos' = [pos EXCEPT ![r] = IF it.gap THEN @ ELSE @ + 1]
  /\ cur' = [cur EXCEPT ![r] = NoItem]
  /\ pc' = [pc EXCEPT ![r] = "build"]
  /\ UNCHANGED <<state, queue, pending, lost, dropping, stop>>
  /\ UNCHANGED <<batch, gaps, heads, dbVars, historyVars>>

(***************************************************************************)
(* insert: all rows in one transaction, guarded by UNIQUE(episode_id, seq);*)
(* then one anchor after the other.                                        *)
(***************************************************************************)
NoDuplicate(s) == \A i, j \in DOMAIN s : s[i].seq = s[j].seq => i = j

(* Variant of Fresh without the unique constraint across transactions.     *)
FreshInBatch(r) == \A ep \in Episode : NoDuplicate(rows[r][ep])

Fresh(r) == \A ep \in Episode :
              /\ NoDuplicate(rows[r][ep])
              /\ Seqs(rows[r][ep]) \cap Seqs(log[ep]) = {}

Built(r) == pc[r] = "build" /\ NextItems(r) = {}

AppendRows(r) == log' = [ep \in Episode |-> log[ep] \o rows[r][ep]]

Commit(r) ==
  /\ Built(r) /\ Fresh(r)
  /\ AppendRows(r)
  /\ heads' = [heads EXCEPT ![r] = {ep \in Episode : rows[r][ep] # <<>>}]
  /\ batch' = [batch EXCEPT ![r] = <<>>]
  /\ gaps' = [gaps EXCEPT ![r] = NoLoss]
  /\ pos' = [pos EXCEPT ![r] = 1]
  /\ pc' = [pc EXCEPT ![r] = "heads"]
  /\ UNCHANGED <<recorderVars, historyVars, left, cur, rows, anchor>>

AfterFlush(r) == IF stop[r] = "final" THEN "exited" ELSE "idle"

(* Variant of Carried that counts a gap item as one event.                 *)
CarriedItems(r, ep) ==
  pending[r][ep] + (IF gaps[r][ep] > 0 THEN 1 ELSE 0) + CountOf(batch[r], ep)

(* What is carried for ep once the batch is lost: a gap item contributes   *)
(* the number of events it declared.                                       *)
Carried(r, ep) == pending[r][ep] + gaps[r][ep] + CountOf(batch[r], ep)

(* Variant of HeadAfterLoss that keeps the cached head.                    *)
HeadKept(r, ep) == chains[r][ep]

(* The head of every episode with an item in the lost batch is dropped.    *)
HeadAfterLoss(r, ep) ==
  IF gaps[r][ep] + CountOf(batch[r], ep) > 0 THEN NoHead ELSE chains[r][ep]

(* carryLoss on the whole batch.                                           *)
CarryLoss(r) ==
  /\ pending' = [pending EXCEPT ![r] = [ep \in Episode |-> Carried(r, ep)]]
  /\ chains' = [chains EXCEPT ![r] = [ep \in Episode |-> HeadAfterLoss(r, ep)]]
  /\ batch' = [batch EXCEPT ![r] = <<>>]
  /\ gaps' = [gaps EXCEPT ![r] = NoLoss]
  /\ left' = [left EXCEPT ![r] = {}]
  /\ pos' = [pos EXCEPT ![r] = 1]
  /\ rows' = [rows EXCEPT ![r] = NoRows]
  /\ pc' = [pc EXCEPT ![r] = AfterFlush(r)]
  /\ UNCHANGED <<state, queue, lost, dropping, stop, cur, heads>>
  /\ UNCHANGED <<anchor, given, offered>>

(* The unique constraint rejects the transaction. *)
CommitCollides(r) ==
  /\ Built(r) /\ ~Fresh(r)
  /\ CarryLoss(r)
  /\ UNCHANGED <<log, faults>>

(* A payload that is not JSON, a failed lookup, a failed transaction, a    *)
(* flush of carried losses that Close cancels.                             *)
FlushFails(r) ==
  /\ pc[r] = "build"
  /\ Fault
  /\ CarryLoss(r)
  /\ UNCHANGED log

(* Commit reports an error though the transaction is durable. *)
CommitUnknown(r) ==
  /\ Built(r) /\ Fresh(r)
  /\ Fault
  /\ CarryLoss(r)
  /\ AppendRows(r)

NewestRow(r, ep) == rows[r][ep][Len(rows[r][ep])]

(* Variants of AnchorFor: the number after the newest row; the index in    *)
(* the batch.                                                              *)
AnchorPastEnd(r, ep) ==
  [seq |-> NewestRow(r, ep).seq + 1, hash |-> HashOf(NewestRow(r, ep))]
AnchorByIndex(r, ep) ==
  [seq |-> Len(rows[r][ep]) - 1, hash |-> HashOf(NewestRow(r, ep))]

(* The anchor of an episode names the newest row of the batch.             *)
AnchorFor(r, ep) ==
  [seq |-> NewestRow(r, ep).seq, hash |-> HashOf(NewestRow(r, ep))]

HeadWritten(r, ep) ==
  /\ heads' = [heads EXCEPT ![r] = @ \ {ep}]
  /\ IF heads[r] = {ep}
     THEN /\ pc' = [pc EXCEPT ![r] = AfterFlush(r)]
          /\ rows' = [rows EXCEPT ![r] = NoRows]
     ELSE UNCHANGED <<pc, rows>>
  /\ UNCHANGED <<recorderVars, batch, gaps, left, pos, cur, log, given, offered>>

WriteHead(r, ep) ==
  /\ pc[r] = "heads" /\ ep \in heads[r]
  /\ anchor' = [anchor EXCEPT ![ep] = AnchorFor(r, ep)]
  /\ HeadWritten(r, ep)
  /\ UNCHANGED faults

WriteHeadFails(r, ep) ==
  /\ pc[r] = "heads" /\ ep \in heads[r]
  /\ Fault
  /\ HeadWritten(r, ep)
  /\ UNCHANGED anchor

(***************************************************************************)
(* Close: cancel, the drain goroutine's last flush, then the reset.        *)
(***************************************************************************)
Cancel(r) ==
  /\ state[r] # "starting" /\ stop[r] = "no"
  /\ stop' = [stop EXCEPT ![r] = "asked"]
  /\ UNCHANGED <<state, queue, chains, pending, lost, dropping>>
  /\ UNCHANGED <<drainVars, dbVars, historyVars>>

DrainRest(r) ==
  /\ stop[r] = "asked" /\ pc[r] = "idle" /\ HasQueue(r)
  /\ Len(batch[r]) < BatchMax
  /\ batch' = [batch EXCEPT ![r] = @ \o queue[r]]
  /\ queue' = [queue EXCEPT ![r] = <<>>]
  /\ stop' = [stop EXCEPT ![r] = "final"]
  /\ UNCHANGED <<state, chains, pending, lost, dropping>>
  /\ UNCHANGED <<pc, gaps, left, pos, cur, rows, heads, dbVars, historyVars>>

(* What is still in memory is gone; the log no longer has to account for it.*)
Forgive(r) ==
  given' = [ep \in Episode |-> IF given[ep] > Outstanding(r, ep)
                               THEN given[ep] - Outstanding(r, ep) ELSE 0]

Reset(r) ==
  /\ \/ stop[r] = "asked" /\ ~HasQueue(r)
     \/ stop[r] = "final" /\ pc[r] = "exited"
     \/ stop[r] = "final" /\ pc[r] = "idle" /\ ~HasWork(r)
  /\ Forgive(r)
  /\ state' = [state EXCEPT ![r] = "starting"]
  /\ queue' = [queue EXCEPT ![r] = <<>>]
  /\ chains' = [chains EXCEPT ![r] = NoHeads]
  /\ pending' = [pending EXCEPT ![r] = NoLoss]
  /\ stop' = [stop EXCEPT ![r] = "no"]
  /\ pc' = [pc EXCEPT ![r] = "idle"]
  /\ UNCHANGED <<lost, dropping, batch, gaps, left, pos, cur, rows, heads>>
  /\ UNCHANGED <<dbVars, offered, faults>>

(* The process dies at any point; its successor starts from New.           *)
Crash(r) ==
  /\ state[r] # "starting"
  /\ Fault
  /\ Forgive(r)
  /\ state' = [state EXCEPT ![r] = "starting"]
  /\ queue' = [queue EXCEPT ![r] = <<>>]
  /\ chains' = [chains EXCEPT ![r] = NoHeads]
  /\ pending' = [pending EXCEPT ![r] = NoLoss]
  /\ lost' = [lost EXCEPT ![r] = 0]
  /\ dropping' = [dropping EXCEPT ![r] = NoLoss]
  /\ stop' = [stop EXCEPT ![r] = "no"]
  /\ pc' = [pc EXCEPT ![r] = "idle"]
  /\ batch' = [batch EXCEPT ![r] = <<>>]
  /\ gaps' = [gaps EXCEPT ![r] = NoLoss]
  /\ left' = [left EXCEPT ![r] = {}]
  /\ pos' = [pos EXCEPT ![r] = 1]
  /\ cur' = [cur EXCEPT ![r] = NoItem]
  /\ rows' = [rows EXCEPT ![r] = NoRows]
  /\ heads' = [heads EXCEPT ![r] = {}]
  /\ UNCHANGED <<dbVars, offered>>

(***************************************************************************)
(* The specification.                                                      *)
(***************************************************************************)
Drain(r) ==
  \/ Take(r) \/ Flush(r) \/ CacheHit(r) \/ ReadTail(r) \/ ReadAnchor(r)
  \/ ReadAnchorFails(r) \/ Extend(r) \/ Commit(r) \/ CommitCollides(r)
  \/ FlushFails(r) \/ CommitUnknown(r)
  \/ \E ep \in Episode : WriteHead(r, ep) \/ WriteHeadFails(r, ep)
  \/ DrainRest(r)

Connect(r) == ConnectOK(r) \/ ConnectFails(r)

Caller(r) == \E ep \in Episode : Enqueue(r, ep) \/ Refuse(r, ep)

Next == \E r \in Recorder :
          \/ Connect(r) \/ Caller(r) \/ Drain(r)
          \/ \E ep \in Episode : NoteLoss(r, ep)
          \/ Cancel(r) \/ Reset(r) \/ Crash(r)

Spec == Init /\ [][Next]_vars

(* The goroutines keep running: the drain loop, the retry loop, a caller   *)
(* inside noteLoss, and Close once it has begun.  Nobody has to record,    *)
(* close or crash.                                                         *)
FairSpec ==
  /\ Spec
  /\ \A r \in Recorder :
       /\ WF_vars(Drain(r))
       /\ WF_vars(Connect(r))
       /\ WF_vars(Reset(r))
       /\ WF_vars(\E ep \in Episode : NoteLoss(r, ep))
=============================================================================
