------------------------- MODULE FlightRecorderProofs -------------------------
(***************************************************************************)
(* Theorems about the flight recorder, for any episodes, sizes and bounds: *)
(* its types and accounts first, then its rows.                            *)
(*                                                                         *)
(* The rows of an episode are numbered without a hole or a repetition,     *)
(* whatever the recorders that share the database cache, lose or retry.    *)
(* Each row names the hash of the one before it and each anchor the hash   *)
(* of the row it was taken at, by the inductive invariants ChainInv and    *)
(* AnchorInv; that a chain is never forked needs one recorder, as two may  *)
(* cache the same tail.                                                    *)
(*                                                                         *)
(* Then the losses.  The sum of what the recorders owe moves with one      *)
(* recorder at a time, by lemmas on finite sums; AccountInv says what the  *)
(* rows of a flush stand for, PlaceInv how far the number of an event can  *)
(* be from what the rows before it account for.  From them: no loss is     *)
(* silent, losses are in place, and the recorder implements the ledger.    *)
(***************************************************************************)
EXTENDS FlightRecorderProperties, FiniteSetTheorems, SequenceTheorems, TLAPS

LEMMA HashOfType ==
  ASSUME NEW row \in Row
  PROVE  HashOf(row) \in Hash
BY DEF Row, Hash, HashOf

LEMMA TailOfType ==
  ASSUME NEW s \in Seq(Row)
  PROVE  TailOf(s) \in ChainHead
<1>1. CASE s = <<>>
  BY <1>1 DEF TailOf, ChainHead, Hash, Genesis
<1>2. CASE s # <<>>
  <2>1. Len(s) \in 1 .. Len(s) /\ s[Len(s)] \in Row
    BY <1>2
  <2>2. HashOf(s[Len(s)]) \in Hash
    BY <2>1, HashOfType
  <2>3. s[Len(s)].seq + 1 \in Nat
    BY <2>1 DEF Row
  <2> QED BY <1>2, <2>2, <2>3 DEF TailOf, ChainHead
<1> QED BY <1>1, <1>2

LEMMA NextItemType ==
  ASSUME TypeOK, NEW r \in Recorder, NEW it \in NextItems(r)
  PROVE  it \in Item
<1>1. CASE it \in GapItems(r)
  <2>1. gaps[r] \in [Episode -> Nat] /\ left[r] \subseteq Episode
    BY DEF TypeOK
  <2>2. PICK ep \in left[r] : it = [ep |-> ep, gap |-> TRUE, n |-> gaps[r][ep]]
    BY <1>1 DEF GapItems
  <2>3. ep \in Episode /\ gaps[r][ep] \in Nat
    BY <2>1, <2>2
  <2> QED BY <2>2, <2>3 DEF Item
<1>2. CASE it \in EventItems(r)
  <2>1. pos[r] \in 1 .. Len(batch[r]) /\ batch[r] \in Seq(Event)
    BY <1>2 DEF EventItems, TypeOK
  <2>2. batch[r][pos[r]] \in Event
    BY <2>1
  <2>3. it = [ep |-> batch[r][pos[r]].ep, gap |-> FALSE, n |-> batch[r][pos[r]].n]
    BY <1>2, <2>1 DEF EventItems
  <2> QED BY <2>2, <2>3 DEF Item, Event
<1> QED BY <1>1, <1>2 DEF NextItems

(* A function or a function of functions stays in its type when one of its *)
(* values is replaced by a value of the right type.                        *)
LEMMA UpdateType ==
  ASSUME NEW S, NEW V, NEW f \in [S -> V], NEW x \in S, NEW v \in V
  PROVE  [f EXCEPT ![x] = v] \in [S -> V]
OBVIOUS

LEMMA UpdateType2 ==
  ASSUME NEW S, NEW U, NEW V, NEW f \in [S -> [U -> V]],
         NEW x \in S, NEW y \in U, NEW v \in V
  PROVE  [f EXCEPT ![x][y] = v] \in [S -> [U -> V]]
<1>1. [f EXCEPT ![x][y] = v] = [f EXCEPT ![x] = [f[x] EXCEPT ![y] = v]]
  OBVIOUS
<1>2. [f[x] EXCEPT ![y] = v] \in [U -> V]
  OBVIOUS
<1> QED BY <1>1, <1>2, UpdateType

LEMMA CountOfType ==
  ASSUME NEW s \in Seq(Event), NEW ep
  PROVE  CountOf(s, ep) \in Nat
<1>1. DOMAIN s = 1 .. Len(s) /\ Len(s) \in Nat
  OBVIOUS
<1>2. IsFiniteSet(DOMAIN s)
  BY <1>1, FS_Interval
<1>3. {i \in DOMAIN s : s[i].ep = ep} \in SUBSET DOMAIN s
  OBVIOUS
<1> QED BY <1>2, <1>3, FS_Subset, FS_CardinalityType DEF CountOf

LEMMA OutstandingType ==
  ASSUME TypeOK, NEW r \in Recorder, NEW ep \in Episode
  PROVE  Outstanding(r, ep) \in Nat
<1>1. batch[r] \in Seq(Event) /\ queue[r] \in Seq(Event)
  BY DEF TypeOK
<1>2. pending[r][ep] \in Nat /\ gaps[r][ep] \in Nat
  BY DEF TypeOK
<1>3. CountOf(batch[r], ep) \in Nat /\ CountOf(queue[r], ep) \in Nat
  BY <1>1, CountOfType
<1> QED BY <1>2, <1>3 DEF Outstanding

LEMMA ForgiveType ==
  ASSUME TypeOK, NEW r \in Recorder, Forgive(r)
  PROVE  given' \in [Episode -> Nat]
<1>1. \A ep \in Episode : given[ep] \in Nat /\ Outstanding(r, ep) \in Nat
  BY OutstandingType DEF TypeOK
<1>2. \A ep \in Episode : (IF given[ep] > Outstanding(r, ep)
                            THEN given[ep] - Outstanding(r, ep) ELSE 0) \in Nat
  BY <1>1
<1> QED BY <1>2 DEF Forgive

LEMMA CarryLossType ==
  ASSUME TypeOK, NEW r \in Recorder, CarryLoss(r)
  PROVE  /\ pending' \in [Recorder -> [Episode -> Nat]]
         /\ chains' \in [Recorder -> [Episode -> ChainHead \cup {NoHead}]]
         /\ pc' \in [Recorder -> {"idle", "build", "anchor", "extend", "heads", "exited"}]
<1>1. \A ep \in Episode : CountOf(batch[r], ep) \in Nat
  BY CountOfType DEF TypeOK
<1>2. [ep \in Episode |-> Carried(r, ep)] \in [Episode -> Nat]
  BY <1>1 DEF Carried, TypeOK
<1>3. \A ep \in Episode : chains[r][ep] \in ChainHead \cup {NoHead}
  BY DEF TypeOK
<1>4. [ep \in Episode |-> HeadAfterLoss(r, ep)] \in [Episode -> ChainHead \cup {NoHead}]
  BY <1>3 DEF HeadAfterLoss
<1>5. AfterFlush(r) \in {"idle", "build", "anchor", "extend", "heads", "exited"}
  BY DEF AfterFlush
<1> QED BY <1>2, <1>4, <1>5 DEF CarryLoss, TypeOK

LEMMA HeadWrittenType ==
  ASSUME TypeOK, NEW r \in Recorder, NEW ep \in Episode, HeadWritten(r, ep)
  PROVE  /\ pc' \in [Recorder -> {"idle", "build", "anchor", "extend", "heads", "exited"}]
         /\ rows' \in [Recorder -> [Episode -> Seq(Row)]]
<1>1. AfterFlush(r) \in {"idle", "build", "anchor", "extend", "heads", "exited"}
  BY DEF AfterFlush
<1>2. NoRows \in [Episode -> Seq(Row)]
  BY DEF NoRows
<1>3. CASE heads[r] = {ep}
  BY ZenonT(60), <1>1, <1>2, <1>3 DEF HeadWritten, TypeOK
<1>4. CASE heads[r] # {ep}
  BY <1>4 DEF HeadWritten, TypeOK
<1> QED BY <1>3, <1>4

LEMMA CacheHeadType ==
  ASSUME TypeOK, ControlOK, NEW r \in Recorder, pc[r] = "anchor",
         NEW h \in ChainHead, CacheHead(r, h)
  PROVE  /\ cur' \in [Recorder -> [item : Item, head : ChainHead] \cup {NoItem}]
         /\ chains' \in [Recorder -> [Episode -> ChainHead \cup {NoHead}]]
<1>1. cur[r] \in [item : Item, head : ChainHead]
  BY DEF TypeOK, ControlOK, Control
<1>2. [cur[r] EXCEPT !.head = h] \in [item : Item, head : ChainHead]
  BY <1>1
<1>3. cur' = [cur EXCEPT ![r] = [cur[r] EXCEPT !.head = h]]
  BY DEF CacheHead
<1>4. cur[r].item.ep \in Episode
  BY <1>1 DEF Item
<1>5. chains' = [chains EXCEPT ![r] = [chains[r] EXCEPT ![cur[r].item.ep] = h]]
  BY DEF CacheHead, TypeOK
<1>6. [chains[r] EXCEPT ![cur[r].item.ep] = h] \in [Episode -> ChainHead \cup {NoHead}]
  BY <1>4 DEF TypeOK
<1>7. cur' \in [Recorder -> [item : Item, head : ChainHead] \cup {NoItem}]
  BY <1>2, <1>3 DEF TypeOK
<1>8. chains' \in [Recorder -> [Episode -> ChainHead \cup {NoHead}]]
  BY <1>5, <1>6 DEF TypeOK
<1> QED BY <1>7, <1>8

LEMMA CurType ==
  ASSUME TypeOK, ControlOK, NEW r \in Recorder, pc[r] \in {"anchor", "extend"}
  PROVE  /\ cur[r].item \in Item
         /\ cur[r].head \in ChainHead
<1>1. cur[r] \in [item : Item, head : ChainHead]
  BY DEF TypeOK, ControlOK, Control
<1> QED BY <1>1

LEMMA PastAnchorType ==
  ASSUME NEW h \in ChainHead, NEW a \in [seq : Nat, hash : Hash] \cup {NoHead}
  PROVE  PastAnchor(h, a) \in ChainHead
BY DEF PastAnchor, ChainHead

(* The row Extend adds. *)
BuiltRow(r) == [seq |-> cur[r].head.seq, prev |-> cur[r].head.hash, item |-> cur[r].item]

LEMMA BuiltRowType ==
  ASSUME TypeOK, ControlOK, NEW r \in Recorder, pc[r] = "extend"
  PROVE  /\ BuiltRow(r) \in Row
         /\ BuiltRow(r).item.ep \in Episode
         /\ [seq |-> BuiltRow(r).seq + 1, hash |-> HashOf(BuiltRow(r))] \in ChainHead
<1>1. cur[r].item \in Item /\ cur[r].head \in ChainHead
  BY CurType
<1>2. BuiltRow(r) \in Row
  BY <1>1 DEF BuiltRow, Row, ChainHead
<1>3. HashOf(BuiltRow(r)) \in Hash
  BY <1>2, HashOfType
<1> QED BY <1>1, <1>2, <1>3 DEF ChainHead, Row, BuiltRow, Item

(***************************************************************************)
(* Type correctness.                                                       *)
(***************************************************************************)
LEMMA TypeStep == TypeOK /\ ControlOK /\ [Next]_vars => TypeOK'
<1> SUFFICES ASSUME TypeOK, ControlOK, [Next]_vars PROVE TypeOK'
  OBVIOUS
<1> USE DEF recorderVars, drainVars, dbVars, historyVars, NoLoss, NoHeads, NoRows, Offer, Fault
<1>1. ASSUME NEW r \in Recorder, ConnectOK(r)
      PROVE  TypeOK'
  <2>1. state' \in [Recorder -> {"starting", "unavailable", "ready"}]
    BY <1>1 DEF TypeOK, ConnectOK
  <2> QED BY <1>1, <2>1 DEF TypeOK, ConnectOK
<1>2. ASSUME NEW r \in Recorder, ConnectFails(r)
      PROVE  TypeOK'
  <2>1. state' \in [Recorder -> {"starting", "unavailable", "ready"}]
    BY <1>2 DEF TypeOK, ConnectFails
  <2>2. faults' \in Nat
    BY <1>2 DEF TypeOK, ConnectFails
  <2> QED BY <1>2, <2>1, <2>2 DEF TypeOK, ConnectFails
<1>3. ASSUME NEW r \in Recorder, NEW ep \in Episode, Enqueue(r, ep)
      PROVE  TypeOK'
  <2>1. queue' \in [Recorder -> Seq(Event)]
    BY <1>3 DEF TypeOK, Enqueue, Event
  <2>2. given' \in [Episode -> Nat]
    BY <1>3 DEF TypeOK, Enqueue, Event
  <2>3. offered' \in Nat
    BY <1>3 DEF TypeOK, Enqueue, Event
  <2> QED BY <1>3, <2>1, <2>2, <2>3 DEF TypeOK, Enqueue, Event
<1>4. ASSUME NEW r \in Recorder, NEW ep \in Episode, Refuse(r, ep)
      PROVE  TypeOK'
  <2>1. dropping' \in [Recorder -> [Episode -> Nat]]
    <3>1. dropping[r][ep] + 1 \in Nat /\ dropping \in [Recorder -> [Episode -> Nat]]
      BY DEF TypeOK
    <3>2. dropping' = [dropping EXCEPT ![r][ep] = dropping[r][ep] + 1]
      BY <1>4 DEF Refuse
    <3> QED BY <3>1, <3>2, UpdateType2
  <2>2. offered' \in Nat
    BY <1>4 DEF TypeOK, Refuse
  <2> QED BY <1>4, <2>1, <2>2 DEF TypeOK, Refuse
<1>5. ASSUME NEW r \in Recorder, NEW ep \in Episode, NoteLoss(r, ep)
      PROVE  TypeOK'
  <2>1. dropping' \in [Recorder -> [Episode -> Nat]]
    BY SMTT(30), <1>5 DEF TypeOK, NoteLoss
  <2>2. lost' \in [Recorder -> Nat]
    BY SMTT(30), <1>5 DEF TypeOK, NoteLoss
  <2>3. pending' \in [Recorder -> [Episode -> Nat]]
    <3>1. CASE Tracks(r, ep)
      <4>1. pending[r][ep] + 1 \in Nat /\ pending \in [Recorder -> [Episode -> Nat]]
        BY DEF TypeOK
      <4>2. pending' = [pending EXCEPT ![r][ep] = pending[r][ep] + 1]
        BY <1>5, <3>1 DEF NoteLoss
      <4> QED BY <4>1, <4>2, UpdateType2
    <3>2. CASE ~Tracks(r, ep)
      BY <1>5, <3>2 DEF TypeOK, NoteLoss
    <3> QED BY <3>1, <3>2
  <2>4. chains' \in [Recorder -> [Episode -> ChainHead \cup {NoHead}]]
    <3>1. CASE Tracks(r, ep)
      <4>1. NoHead \in ChainHead \cup {NoHead} /\ chains \in [Recorder -> [Episode -> ChainHead \cup {NoHead}]]
        BY DEF TypeOK
      <4>2. chains' = [chains EXCEPT ![r][ep] = NoHead]
        BY <1>5, <3>1 DEF NoteLoss
      <4> QED BY <4>1, <4>2, UpdateType2
    <3>2. CASE ~Tracks(r, ep)
      BY <1>5, <3>2 DEF TypeOK, NoteLoss
    <3> QED BY <3>1, <3>2
  <2>5. given' \in [Episode -> Nat]
    <3>1. CASE Tracks(r, ep)
      <4>1. given[ep] + 1 \in Nat /\ given \in [Episode -> Nat]
        BY DEF TypeOK
      <4>2. given' = [given EXCEPT ![ep] = given[ep] + 1]
        BY <1>5, <3>1 DEF NoteLoss
      <4> QED BY <4>1, <4>2, UpdateType
    <3>2. CASE ~Tracks(r, ep)
      BY <1>5, <3>2 DEF TypeOK, NoteLoss
    <3> QED BY <3>1, <3>2
  <2> QED BY <1>5, <2>1, <2>2, <2>3, <2>4, <2>5 DEF TypeOK, NoteLoss
<1>6. ASSUME NEW r \in Recorder, Take(r)
      PROVE  TypeOK'
  <2>1. batch' \in [Recorder -> Seq(Event)]
    BY <1>6 DEF TypeOK, Take
  <2>2. queue' \in [Recorder -> Seq(Event)]
    BY <1>6 DEF TypeOK, Take
  <2> QED BY <1>6, <2>1, <2>2 DEF TypeOK, Take
<1>7. ASSUME NEW r \in Recorder, Flush(r)
      PROVE  TypeOK'
  <2>1. pc' \in [Recorder -> {"idle", "build", "anchor", "extend", "heads", "exited"}]
    BY <1>7 DEF TypeOK, Flush, TakenLosses
  <2>2. gaps' \in [Recorder -> [Episode -> Nat]]
    BY <1>7 DEF TypeOK, Flush, TakenLosses
  <2>3. left' \in [Recorder -> SUBSET Episode]
    BY <1>7 DEF TypeOK, Flush, TakenLosses
  <2>4. pending' \in [Recorder -> [Episode -> Nat]]
    BY <1>7 DEF TypeOK, Flush, TakenLosses
  <2> QED BY <1>7, <2>1, <2>2, <2>3, <2>4 DEF TypeOK, Flush, TakenLosses
<1>8. ASSUME NEW r \in Recorder, CacheHit(r)
      PROVE  TypeOK'
  <2>1. cur' \in [Recorder -> [item : Item, head : ChainHead] \cup {NoItem}]
    <3>1. PICK it \in NextItems(r) : cur' = [cur EXCEPT ![r] = [item |-> it, head |-> chains[r][it.ep]]] /\ chains[r][it.ep] # NoHead
      BY <1>8 DEF CacheHit
    <3>2. it \in Item /\ it.ep \in Episode
      BY NextItemType DEF Item
    <3>3. chains[r][it.ep] \in ChainHead
      BY <3>1, <3>2 DEF TypeOK
    <3> QED BY <3>1, <3>2, <3>3 DEF TypeOK
  <2>2. pc' \in [Recorder -> {"idle", "build", "anchor", "extend", "heads", "exited"}]
    BY <1>8, NextItemType DEF TypeOK, CacheHit
  <2> QED BY <1>8, <2>1, <2>2 DEF TypeOK, CacheHit
<1>9. ASSUME NEW r \in Recorder, ReadTail(r)
      PROVE  TypeOK'
  <2>1. cur' \in [Recorder -> [item : Item, head : ChainHead] \cup {NoItem}]
    <3>1. PICK it \in NextItems(r) : cur' = [cur EXCEPT ![r] = [item |-> it, head |-> TailOf(log[it.ep])]] 
      BY <1>9 DEF ReadTail
    <3>2. it \in Item /\ it.ep \in Episode
      BY NextItemType DEF Item
    <3>3. TailOf(log[it.ep]) \in ChainHead
      BY <3>1, <3>2, TailOfType DEF TypeOK
    <3> QED BY <3>1, <3>2, <3>3 DEF TypeOK
  <2>2. pc' \in [Recorder -> {"idle", "build", "anchor", "extend", "heads", "exited"}]
    BY <1>9, NextItemType, TailOfType DEF TypeOK, ReadTail
  <2> QED BY <1>9, <2>1, <2>2 DEF TypeOK, ReadTail
<1>10. ASSUME NEW r \in Recorder, ReadAnchor(r)
      PROVE  TypeOK'
  <2>1. cur' \in [Recorder -> [item : Item, head : ChainHead] \cup {NoItem}]
    <3>1. PastAnchor(cur[r].head, anchor[cur[r].item.ep]) \in ChainHead
      BY <1>10, CurType, PastAnchorType DEF ReadAnchor, TypeOK, Item
    <3> QED BY <1>10, <3>1, CacheHeadType DEF ReadAnchor
  <2>2. chains' \in [Recorder -> [Episode -> ChainHead \cup {NoHead}]]
    <3>1. PastAnchor(cur[r].head, anchor[cur[r].item.ep]) \in ChainHead
      BY <1>10, CurType, PastAnchorType DEF ReadAnchor, TypeOK, Item
    <3> QED BY <1>10, <3>1, CacheHeadType DEF ReadAnchor
  <2>3. pc' \in [Recorder -> {"idle", "build", "anchor", "extend", "heads", "exited"}]
    BY <1>10 DEF TypeOK, ReadAnchor, CacheHead, PastAnchor, ChainHead
  <2> QED BY <1>10, <2>1, <2>2, <2>3 DEF TypeOK, ReadAnchor, CacheHead, PastAnchor, ChainHead
<1>11. ASSUME NEW r \in Recorder, ReadAnchorFails(r)
      PROVE  TypeOK'
  <2>1. cur' \in [Recorder -> [item : Item, head : ChainHead] \cup {NoItem}]
    BY <1>11, CurType, CacheHeadType DEF ReadAnchorFails
  <2>2. chains' \in [Recorder -> [Episode -> ChainHead \cup {NoHead}]]
    BY <1>11, CurType, CacheHeadType DEF ReadAnchorFails
  <2>3. pc' \in [Recorder -> {"idle", "build", "anchor", "extend", "heads", "exited"}]
    BY <1>11 DEF TypeOK, ReadAnchorFails, CacheHead
  <2>4. faults' \in Nat
    BY <1>11 DEF TypeOK, ReadAnchorFails, CacheHead
  <2> QED BY <1>11, <2>1, <2>2, <2>3, <2>4 DEF TypeOK, ReadAnchorFails, CacheHead
<1>12. ASSUME NEW r \in Recorder, Extend(r)
      PROVE  TypeOK'
  <2>1. rows' \in [Recorder -> [Episode -> Seq(Row)]]
    <3>1. rows' = [rows EXCEPT ![r][BuiltRow(r).item.ep] = Append(rows[r][BuiltRow(r).item.ep], BuiltRow(r))]
      BY <1>12 DEF Extend, BuiltRow, TypeOK
    <3>2. /\ BuiltRow(r) \in Row /\ BuiltRow(r).item.ep \in Episode
          /\ rows \in [Recorder -> [Episode -> Seq(Row)]]
      BY <1>12, BuiltRowType DEF Extend, TypeOK
    <3>3. Append(rows[r][BuiltRow(r).item.ep], BuiltRow(r)) \in Seq(Row)
      BY <3>2
    <3> HIDE DEF BuiltRow
    <3> QED BY <3>1, <3>2, <3>3, UpdateType2
  <2>2. chains' \in [Recorder -> [Episode -> ChainHead \cup {NoHead}]]
    <3>1. chains' = [chains EXCEPT ![r][BuiltRow(r).item.ep] =
                       [seq |-> BuiltRow(r).seq + 1, hash |-> HashOf(BuiltRow(r))]]
      BY <1>12 DEF Extend, BuiltRow
    <3>2. /\ BuiltRow(r).item.ep \in Episode
          /\ [seq |-> BuiltRow(r).seq + 1, hash |-> HashOf(BuiltRow(r))]
               \in ChainHead \cup {NoHead}
          /\ chains \in [Recorder -> [Episode -> ChainHead \cup {NoHead}]]
      BY <1>12, BuiltRowType DEF Extend, TypeOK
    <3> QED BY <3>1, <3>2, UpdateType2
  <2>3. left' \in [Recorder -> SUBSET Episode]
    BY <1>12 DEF TypeOK, Extend
  <2>4. pos' \in [Recorder -> Nat \ {0}]
    BY <1>12 DEF TypeOK, Extend
  <2>5. cur' \in [Recorder -> [item : Item, head : ChainHead] \cup {NoItem}]
    BY <1>12 DEF TypeOK, Extend
  <2>6. pc' \in [Recorder -> {"idle", "build", "anchor", "extend", "heads", "exited"}]
    BY <1>12 DEF TypeOK, Extend
  <2> QED BY <1>12, <2>1, <2>2, <2>3, <2>4, <2>5, <2>6 DEF TypeOK, Extend
<1>13. ASSUME NEW r \in Recorder, Commit(r)
      PROVE  TypeOK'
  <2>1. log' \in [Episode -> Seq(Row)]
    BY <1>13 DEF TypeOK, Commit, AppendRows
  <2>2. heads' \in [Recorder -> SUBSET Episode]
    BY <1>13 DEF TypeOK, Commit, AppendRows
  <2>3. batch' \in [Recorder -> Seq(Event)]
    BY <1>13 DEF TypeOK, Commit, AppendRows
  <2>4. gaps' \in [Recorder -> [Episode -> Nat]]
    BY <1>13 DEF TypeOK, Commit, AppendRows
  <2>5. pos' \in [Recorder -> Nat \ {0}]
    BY <1>13 DEF TypeOK, Commit, AppendRows
  <2>6. pc' \in [Recorder -> {"idle", "build", "anchor", "extend", "heads", "exited"}]
    BY <1>13 DEF TypeOK, Commit, AppendRows
  <2> QED BY <1>13, <2>1, <2>2, <2>3, <2>4, <2>5, <2>6 DEF TypeOK, Commit, AppendRows
<1>14. ASSUME NEW r \in Recorder, CommitCollides(r)
      PROVE  TypeOK'
  <2>1. pending' \in [Recorder -> [Episode -> Nat]]
    BY <1>14, CarryLossType DEF CommitCollides
  <2>2. chains' \in [Recorder -> [Episode -> ChainHead \cup {NoHead}]]
    BY <1>14, CarryLossType DEF CommitCollides
  <2>3. batch' \in [Recorder -> Seq(Event)]
    BY <1>14 DEF TypeOK, CommitCollides, CarryLoss
  <2>4. gaps' \in [Recorder -> [Episode -> Nat]]
    BY <1>14 DEF TypeOK, CommitCollides, CarryLoss
  <2>5. left' \in [Recorder -> SUBSET Episode]
    BY <1>14 DEF TypeOK, CommitCollides, CarryLoss
  <2>6. pos' \in [Recorder -> Nat \ {0}]
    BY <1>14 DEF TypeOK, CommitCollides, CarryLoss
  <2>7. rows' \in [Recorder -> [Episode -> Seq(Row)]]
    BY <1>14 DEF TypeOK, CommitCollides, CarryLoss
  <2>8. pc' \in [Recorder -> {"idle", "build", "anchor", "extend", "heads", "exited"}]
    BY <1>14, CarryLossType DEF CommitCollides
  <2> QED BY <1>14, <2>1, <2>2, <2>3, <2>4, <2>5, <2>6, <2>7, <2>8 DEF TypeOK, CommitCollides, CarryLoss
<1>15. ASSUME NEW r \in Recorder, FlushFails(r)
      PROVE  TypeOK'
  <2>1. pending' \in [Recorder -> [Episode -> Nat]]
    BY <1>15, CarryLossType DEF FlushFails
  <2>2. chains' \in [Recorder -> [Episode -> ChainHead \cup {NoHead}]]
    BY <1>15, CarryLossType DEF FlushFails
  <2>3. batch' \in [Recorder -> Seq(Event)]
    BY <1>15 DEF TypeOK, FlushFails, CarryLoss
  <2>4. gaps' \in [Recorder -> [Episode -> Nat]]
    BY <1>15 DEF TypeOK, FlushFails, CarryLoss
  <2>5. left' \in [Recorder -> SUBSET Episode]
    BY <1>15 DEF TypeOK, FlushFails, CarryLoss
  <2>6. pos' \in [Recorder -> Nat \ {0}]
    BY <1>15 DEF TypeOK, FlushFails, CarryLoss
  <2>7. rows' \in [Recorder -> [Episode -> Seq(Row)]]
    BY <1>15 DEF TypeOK, FlushFails, CarryLoss
  <2>8. pc' \in [Recorder -> {"idle", "build", "anchor", "extend", "heads", "exited"}]
    BY <1>15, CarryLossType DEF FlushFails
  <2>9. faults' \in Nat
    BY <1>15 DEF TypeOK, FlushFails, CarryLoss
  <2> QED BY <1>15, <2>1, <2>2, <2>3, <2>4, <2>5, <2>6, <2>7, <2>8, <2>9 DEF TypeOK, FlushFails, CarryLoss
<1>16. ASSUME NEW r \in Recorder, CommitUnknown(r)
      PROVE  TypeOK'
  <2>1. pending' \in [Recorder -> [Episode -> Nat]]
    BY <1>16, CarryLossType DEF CommitUnknown
  <2>2. chains' \in [Recorder -> [Episode -> ChainHead \cup {NoHead}]]
    BY <1>16, CarryLossType DEF CommitUnknown
  <2>3. batch' \in [Recorder -> Seq(Event)]
    BY <1>16 DEF TypeOK, CommitUnknown, CarryLoss, AppendRows
  <2>4. gaps' \in [Recorder -> [Episode -> Nat]]
    BY <1>16 DEF TypeOK, CommitUnknown, CarryLoss, AppendRows
  <2>5. left' \in [Recorder -> SUBSET Episode]
    BY <1>16 DEF TypeOK, CommitUnknown, CarryLoss, AppendRows
  <2>6. pos' \in [Recorder -> Nat \ {0}]
    BY <1>16 DEF TypeOK, CommitUnknown, CarryLoss, AppendRows
  <2>7. rows' \in [Recorder -> [Episode -> Seq(Row)]]
    BY <1>16 DEF TypeOK, CommitUnknown, CarryLoss, AppendRows
  <2>8. pc' \in [Recorder -> {"idle", "build", "anchor", "extend", "heads", "exited"}]
    BY <1>16, CarryLossType DEF CommitUnknown
  <2>9. log' \in [Episode -> Seq(Row)]
    BY <1>16 DEF TypeOK, CommitUnknown, CarryLoss, AppendRows
  <2>10. faults' \in Nat
    BY <1>16 DEF TypeOK, CommitUnknown, CarryLoss, AppendRows
  <2> QED BY <1>16, <2>1, <2>2, <2>3, <2>4, <2>5, <2>6, <2>7, <2>8, <2>9, <2>10 DEF TypeOK, CommitUnknown, CarryLoss, AppendRows
<1>17. ASSUME NEW r \in Recorder, NEW ep \in Episode, WriteHead(r, ep)
      PROVE  TypeOK'
  <2>1. anchor' \in [Episode -> [seq : Nat, hash : Hash] \cup {NoHead}]
    <3>1. rows[r][ep] \in Seq(Row) /\ rows[r][ep] # <<>>
      BY <1>17 DEF WriteHead, TypeOK, ControlOK, Control
    <3>2. NewestRow(r, ep) \in Row
      BY <3>1 DEF NewestRow
    <3>3. AnchorFor(r, ep) \in [seq : Nat, hash : Hash]
      BY <3>2, HashOfType DEF AnchorFor, Row
    <3> QED BY <1>17, <3>3 DEF WriteHead, TypeOK
  <2>2. heads' \in [Recorder -> SUBSET Episode]
    BY <1>17 DEF TypeOK, WriteHead, HeadWritten
  <2>3. pc' \in [Recorder -> {"idle", "build", "anchor", "extend", "heads", "exited"}]
    BY <1>17, HeadWrittenType DEF WriteHead
  <2>4. rows' \in [Recorder -> [Episode -> Seq(Row)]]
    BY <1>17, HeadWrittenType DEF WriteHead
  <2> QED BY <1>17, <2>1, <2>2, <2>3, <2>4 DEF TypeOK, WriteHead, HeadWritten
<1>18. ASSUME NEW r \in Recorder, NEW ep \in Episode, WriteHeadFails(r, ep)
      PROVE  TypeOK'
  <2>1. heads' \in [Recorder -> SUBSET Episode]
    BY <1>18 DEF TypeOK, WriteHeadFails, HeadWritten
  <2>2. pc' \in [Recorder -> {"idle", "build", "anchor", "extend", "heads", "exited"}]
    BY <1>18, HeadWrittenType DEF WriteHeadFails
  <2>3. rows' \in [Recorder -> [Episode -> Seq(Row)]]
    BY <1>18, HeadWrittenType DEF WriteHeadFails
  <2>4. faults' \in Nat
    BY <1>18 DEF TypeOK, WriteHeadFails, HeadWritten
  <2> QED BY <1>18, <2>1, <2>2, <2>3, <2>4 DEF TypeOK, WriteHeadFails, HeadWritten
<1>19. ASSUME NEW r \in Recorder, Cancel(r)
      PROVE  TypeOK'
  <2>1. stop' \in [Recorder -> {"no", "asked", "final"}]
    BY <1>19 DEF TypeOK, Cancel
  <2> QED BY <1>19, <2>1 DEF TypeOK, Cancel
<1>20. ASSUME NEW r \in Recorder, DrainRest(r)
      PROVE  TypeOK'
  <2>1. batch' \in [Recorder -> Seq(Event)]
    BY <1>20 DEF TypeOK, DrainRest
  <2>2. queue' \in [Recorder -> Seq(Event)]
    BY <1>20 DEF TypeOK, DrainRest
  <2>3. stop' \in [Recorder -> {"no", "asked", "final"}]
    BY <1>20 DEF TypeOK, DrainRest
  <2> QED BY <1>20, <2>1, <2>2, <2>3 DEF TypeOK, DrainRest
<1>21. ASSUME NEW r \in Recorder, Reset(r)
      PROVE  TypeOK'
  <2>1. given' \in [Episode -> Nat]
    BY <1>21, ForgiveType DEF Reset
  <2>2. state' \in [Recorder -> {"starting", "unavailable", "ready"}]
    BY <1>21 DEF TypeOK, Reset
  <2>3. queue' \in [Recorder -> Seq(Event)]
    BY <1>21 DEF TypeOK, Reset
  <2>4. chains' \in [Recorder -> [Episode -> ChainHead \cup {NoHead}]]
    BY <1>21 DEF TypeOK, Reset
  <2>5. pending' \in [Recorder -> [Episode -> Nat]]
    BY <1>21 DEF TypeOK, Reset
  <2>6. stop' \in [Recorder -> {"no", "asked", "final"}]
    BY <1>21 DEF TypeOK, Reset
  <2>7. pc' \in [Recorder -> {"idle", "build", "anchor", "extend", "heads", "exited"}]
    BY <1>21 DEF TypeOK, Reset
  <2> QED BY <1>21, <2>1, <2>2, <2>3, <2>4, <2>5, <2>6, <2>7 DEF TypeOK, Reset
<1>22. ASSUME NEW r \in Recorder, Crash(r)
      PROVE  TypeOK'
  <2>1. given' \in [Episode -> Nat]
    BY <1>22, ForgiveType DEF Crash
  <2>2. state' \in [Recorder -> {"starting", "unavailable", "ready"}]
    BY <1>22 DEF TypeOK, Crash
  <2>3. queue' \in [Recorder -> Seq(Event)]
    BY <1>22 DEF TypeOK, Crash
  <2>4. chains' \in [Recorder -> [Episode -> ChainHead \cup {NoHead}]]
    BY <1>22 DEF TypeOK, Crash
  <2>5. pending' \in [Recorder -> [Episode -> Nat]]
    BY <1>22 DEF TypeOK, Crash
  <2>6. lost' \in [Recorder -> Nat]
    BY <1>22 DEF TypeOK, Crash
  <2>7. dropping' \in [Recorder -> [Episode -> Nat]]
    BY <1>22 DEF TypeOK, Crash
  <2>8. stop' \in [Recorder -> {"no", "asked", "final"}]
    BY <1>22 DEF TypeOK, Crash
  <2>9. pc' \in [Recorder -> {"idle", "build", "anchor", "extend", "heads", "exited"}]
    BY <1>22 DEF TypeOK, Crash
  <2>10. batch' \in [Recorder -> Seq(Event)]
    BY <1>22 DEF TypeOK, Crash
  <2>11. gaps' \in [Recorder -> [Episode -> Nat]]
    BY <1>22 DEF TypeOK, Crash
  <2>12. left' \in [Recorder -> SUBSET Episode]
    BY <1>22 DEF TypeOK, Crash
  <2>13. pos' \in [Recorder -> Nat \ {0}]
    BY <1>22 DEF TypeOK, Crash
  <2>14. cur' \in [Recorder -> [item : Item, head : ChainHead] \cup {NoItem}]
    BY <1>22 DEF TypeOK, Crash
  <2>15. rows' \in [Recorder -> [Episode -> Seq(Row)]]
    BY <1>22 DEF TypeOK, Crash
  <2>16. heads' \in [Recorder -> SUBSET Episode]
    BY <1>22 DEF TypeOK, Crash
  <2>17. faults' \in Nat
    BY <1>22 DEF TypeOK, Crash
  <2> QED BY <1>22, <2>1, <2>2, <2>3, <2>4, <2>5, <2>6, <2>7, <2>8, <2>9, <2>10, <2>11, <2>12, <2>13, <2>14, <2>15, <2>16, <2>17 DEF TypeOK, Crash
<1>23. CASE UNCHANGED vars
  BY <1>23 DEF TypeOK, vars
<1> QED
  BY <1>1, <1>2, <1>3, <1>4, <1>5, <1>6, <1>7, <1>8, <1>9, <1>10, <1>11, <1>12, <1>13, <1>14, <1>15, <1>16, <1>17, <1>18, <1>19, <1>20, <1>21, <1>22, <1>23 DEF Next, Connect, Caller, Drain

(***************************************************************************)
(* Control state: no action of another recorder touches it, and each of    *)
(* the recorder's own keeps it.                                            *)
(***************************************************************************)
LEMMA ControlFrame ==
  ASSUME NEW q \in Recorder, Control(q),
         state'[q] = state[q], pc'[q] = pc[q], cur'[q] = cur[q],
         heads'[q] = heads[q], rows'[q] = rows[q], left'[q] = left[q],
         gaps'[q] = gaps[q], batch'[q] = batch[q]
  PROVE  Control(q)'
BY DEF Control, Building, InBatch, HasQueue

LEMMA ItemInBatch ==
  ASSUME TypeOK, NEW r \in Recorder, Control(r), NEW it \in NextItems(r)
  PROVE  InBatch(r, it.ep)
<1>1. CASE it \in GapItems(r)
  BY <1>1 DEF GapItems, Control, InBatch
<1>2. CASE it \in EventItems(r)
  <2>1. pos[r] \in 1 .. Len(batch[r]) /\ batch[r] \in Seq(Event)
    BY <1>2 DEF EventItems, TypeOK
  <2>2. pos[r] \in DOMAIN batch[r]
    BY <2>1
  <2>3. it.ep = batch[r][pos[r]].ep
    BY <1>2, <2>1 DEF EventItems
  <2> QED BY <2>2, <2>3 DEF InBatch
<1> QED BY <1>1, <1>2 DEF NextItems

LEMMA CarryLossControl ==
  ASSUME TypeOK, NEW r \in Recorder, Control(r), pc[r] = "build", CarryLoss(r)
  PROVE  Control(r)'
<1>1. /\ pc'[r] \in {"idle", "exited"} /\ rows'[r] = NoRows /\ left'[r] = {}
      /\ heads'[r] = {} /\ state'[r] = state[r]
  BY DEF CarryLoss, AfterFlush, TypeOK, Control
<1> QED BY <1>1 DEF Control, Building, HasQueue

(* What build has at hand is an item, never the marker of none. *)
LEMMA NotNoItem == \A a, b : [item |-> a, head |-> b] # NoItem
BY DEF NoItem

LEMMA ControlStep == TypeOK /\ ControlOK /\ [Next]_vars => ControlOK'
<1> SUFFICES ASSUME TypeOK, ControlOK, [Next]_vars, NEW q \in Recorder
             PROVE  Control(q)'
  BY DEF ControlOK
<1>c. Control(q)
  BY DEF ControlOK
<1> USE DEF recorderVars, drainVars, dbVars, historyVars
<1>1. ASSUME NEW r \in Recorder, ConnectOK(r)
      PROVE  Control(q)'
  <2>1. CASE q # r
    BY <1>1, <1>c, <2>1, ControlFrame DEF TypeOK, ConnectOK
  <2>2. CASE q = r
    BY <1>1, <1>c, <2>2 DEF TypeOK, Control, Building, InBatch, HasQueue, Fault, ConnectOK
  <2> QED BY <2>1, <2>2
<1>2. ASSUME NEW r \in Recorder, ConnectFails(r)
      PROVE  Control(q)'
  <2>1. CASE q # r
    BY <1>2, <1>c, <2>1, ControlFrame DEF TypeOK, ConnectFails
  <2>2. CASE q = r
    BY <1>2, <1>c, <2>2 DEF TypeOK, Control, Building, InBatch, HasQueue, Fault, ConnectFails
  <2> QED BY <2>1, <2>2
<1>3. ASSUME NEW r \in Recorder, NEW ep \in Episode, Enqueue(r, ep)
      PROVE  Control(q)'
  BY <1>3, <1>c, ControlFrame DEF Enqueue
<1>4. ASSUME NEW r \in Recorder, NEW ep \in Episode, Refuse(r, ep)
      PROVE  Control(q)'
  BY <1>4, <1>c, ControlFrame DEF Refuse
<1>5. ASSUME NEW r \in Recorder, NEW ep \in Episode, NoteLoss(r, ep)
      PROVE  Control(q)'
  BY <1>5, <1>c, ControlFrame DEF NoteLoss
<1>6. ASSUME NEW r \in Recorder, Take(r)
      PROVE  Control(q)'
  <2>1. CASE q # r
    BY <1>6, <1>c, <2>1, ControlFrame DEF TypeOK, Take
  <2>2. CASE q = r
    BY <1>6, <1>c, <2>2 DEF TypeOK, Control, Building, InBatch, HasQueue, Fault, Take
  <2> QED BY <2>1, <2>2
<1>7. ASSUME NEW r \in Recorder, Flush(r)
      PROVE  Control(q)'
  <2>1. CASE q # r
    BY <1>7, <1>c, <2>1, ControlFrame DEF TypeOK, Flush
  <2>2. CASE q = r
    <3>1. /\ pc'[r] = "build" /\ gaps'[r] = pending[r] /\ rows' = rows
          /\ left'[r] = {ep \in Episode : pending[r][ep] > 0}
          /\ heads' = heads /\ state' = state
      BY <1>7 DEF TypeOK, Flush, TakenLosses
    <3>2. HasQueue(r) /\ heads[r] = {} /\ rows[r] = NoRows
      BY <1>7, <1>c, <2>2 DEF Flush, Control
    <3> QED BY <3>1, <3>2, <2>2 DEF Control, Building, HasQueue, NoRows
  <2> QED BY <2>1, <2>2
<1>8. ASSUME NEW r \in Recorder, CacheHit(r)
      PROVE  Control(q)'
  <2>1. CASE q # r
    BY <1>8, <1>c, <2>1, ControlFrame DEF TypeOK, CacheHit
  <2>2. CASE q = r
    <3>1. PICK it \in NextItems(r) : cur' = [cur EXCEPT ![r] = [item |-> it, head |-> chains[r][it.ep]]]
      BY <1>8 DEF CacheHit
    <3>2. cur'[r] = [item |-> it, head |-> chains[r][it.ep]]
      BY <3>1 DEF TypeOK
    <3>3. cur'[r] # NoItem /\ cur'[r].item.ep = it.ep
      BY <3>2, NotNoItem
    <3>4. InBatch(r, it.ep)
      BY <1>c, <2>2, ItemInBatch
    <3>5. /\ state' = state /\ heads' = heads /\ rows' = rows /\ left' = left
          /\ gaps' = gaps /\ batch' = batch
          /\ pc[r] = "build" /\ pc'[r] \in {"anchor", "extend"}
      BY <1>8 DEF TypeOK, CacheHit
    <3> QED BY <3>3, <3>4, <3>5, <1>c, <2>2 DEF Control, Building, InBatch, HasQueue
  <2> QED BY <2>1, <2>2
<1>9. ASSUME NEW r \in Recorder, ReadTail(r)
      PROVE  Control(q)'
  <2>1. CASE q # r
    BY <1>9, <1>c, <2>1, ControlFrame DEF TypeOK, ReadTail
  <2>2. CASE q = r
    <3>1. PICK it \in NextItems(r) : cur' = [cur EXCEPT ![r] = [item |-> it, head |-> TailOf(log[it.ep])]]
      BY <1>9 DEF ReadTail
    <3>2. cur'[r] = [item |-> it, head |-> TailOf(log[it.ep])]
      BY <3>1 DEF TypeOK
    <3>3. cur'[r] # NoItem /\ cur'[r].item.ep = it.ep
      BY <3>2, NotNoItem
    <3>4. InBatch(r, it.ep)
      BY <1>c, <2>2, ItemInBatch
    <3>5. /\ state' = state /\ heads' = heads /\ rows' = rows /\ left' = left
          /\ gaps' = gaps /\ batch' = batch
          /\ pc[r] = "build" /\ pc'[r] \in {"anchor", "extend"}
      BY <1>9 DEF TypeOK, ReadTail
    <3> QED BY <3>3, <3>4, <3>5, <1>c, <2>2 DEF Control, Building, InBatch, HasQueue
  <2> QED BY <2>1, <2>2
<1>10. ASSUME NEW r \in Recorder, ReadAnchor(r)
      PROVE  Control(q)'
  <2>1. CASE q # r
    BY <1>10, <1>c, <2>1, ControlFrame DEF TypeOK, ReadAnchor, CacheHead
  <2>2. CASE q = r
    <3>1. cur[r] \in [item : Item, head : ChainHead]
      BY <1>10, <1>c, <2>2 DEF ReadAnchor, Control, TypeOK
    <3>2. PICK h : CacheHead(r, h)
      BY <1>10 DEF ReadAnchor
    <3>3. cur'[r] = [item |-> cur[r].item, head |-> h]
      BY <3>1, <3>2 DEF CacheHead, TypeOK
    <3>4. cur'[r] # NoItem /\ cur'[r].item = cur[r].item
      BY <3>3, NotNoItem
    <3>5. /\ state' = state /\ heads' = heads /\ rows' = rows /\ left' = left
          /\ gaps' = gaps /\ batch' = batch
          /\ pc[r] = "anchor" /\ pc'[r] = "extend"
      BY <1>10 DEF TypeOK, ReadAnchor, CacheHead
    <3> QED BY <3>4, <3>5, <1>c, <2>2 DEF Control, Building, InBatch, HasQueue
  <2> QED BY <2>1, <2>2
<1>11. ASSUME NEW r \in Recorder, ReadAnchorFails(r)
      PROVE  Control(q)'
  <2>1. CASE q # r
    BY <1>11, <1>c, <2>1, ControlFrame DEF TypeOK, ReadAnchorFails, CacheHead
  <2>2. CASE q = r
    BY <1>11, <1>c, <2>2 DEF TypeOK, Control, Building, InBatch, HasQueue, Fault, ReadAnchorFails, CacheHead
  <2> QED BY <2>1, <2>2
<1>12. ASSUME NEW r \in Recorder, Extend(r)
      PROVE  Control(q)'
  <2>1. CASE q # r
    BY <1>12, <1>c, <2>1, ControlFrame DEF TypeOK, Extend
  <2>2. CASE q = r
    <3>1. /\ state' = state /\ heads' = heads /\ gaps' = gaps /\ batch' = batch
          /\ pc[r] = "extend" /\ pc'[r] = "build" /\ left'[r] \subseteq left[r]
      BY <1>12 DEF TypeOK, Extend
    <3>2. \A ep \in Episode : ep # cur[r].item.ep => rows'[r][ep] = rows[r][ep]
      BY <1>12 DEF TypeOK, Extend
    <3>3. InBatch(r, cur[r].item.ep)
      BY <3>1, <1>c, <2>2 DEF Control
    <3> QED BY <3>1, <3>2, <3>3, <1>c, <2>2 DEF Control, Building, InBatch, HasQueue
  <2> QED BY <2>1, <2>2
<1>13. ASSUME NEW r \in Recorder, Commit(r)
      PROVE  Control(q)'
  <2>1. CASE q # r
    BY <1>13, <1>c, <2>1, ControlFrame DEF TypeOK, Commit, AppendRows
  <2>2. CASE q = r
    <3>1. /\ state' = state /\ rows' = rows /\ left' = left
          /\ pc[r] = "build" /\ pc'[r] = "heads"
          /\ heads'[r] = {ep \in Episode : rows[r][ep] # <<>>}
      BY <1>13 DEF TypeOK, Commit, Built
    <3>2. left[r] = {}
      BY <1>13 DEF Commit, Built, NextItems, GapItems
    <3> QED BY <3>1, <3>2, <1>c, <2>2 DEF Control, Building, HasQueue
  <2> QED BY <2>1, <2>2
<1>14. ASSUME NEW r \in Recorder, CommitCollides(r)
      PROVE  Control(q)'
  <2>1. CASE q # r
    BY <1>14, <1>c, <2>1, ControlFrame DEF TypeOK, CommitCollides, CarryLoss, AfterFlush
  <2>2. CASE q = r
    BY <1>14, <1>c, <2>2, CarryLossControl DEF CommitCollides, Built
  <2> QED BY <2>1, <2>2
<1>15. ASSUME NEW r \in Recorder, FlushFails(r)
      PROVE  Control(q)'
  <2>1. CASE q # r
    BY <1>15, <1>c, <2>1, ControlFrame DEF TypeOK, FlushFails, CarryLoss, AfterFlush
  <2>2. CASE q = r
    BY <1>15, <1>c, <2>2, CarryLossControl DEF FlushFails, Built
  <2> QED BY <2>1, <2>2
<1>16. ASSUME NEW r \in Recorder, CommitUnknown(r)
      PROVE  Control(q)'
  <2>1. CASE q # r
    BY <1>16, <1>c, <2>1, ControlFrame DEF TypeOK, CommitUnknown, CarryLoss, AppendRows, AfterFlush
  <2>2. CASE q = r
    BY <1>16, <1>c, <2>2, CarryLossControl DEF CommitUnknown, Built
  <2> QED BY <2>1, <2>2
<1>17. ASSUME NEW r \in Recorder, NEW ep \in Episode, WriteHead(r, ep)
      PROVE  Control(q)'
  <2>1. CASE q # r
    BY <1>17, <1>c, <2>1, ControlFrame DEF TypeOK, WriteHead, HeadWritten, AfterFlush
  <2>2. CASE q = r
    BY <1>17, <1>c, <2>2, SMTT(40) DEF TypeOK, Control, Building, InBatch, HasQueue, Fault, WriteHead, HeadWritten, AfterFlush
  <2> QED BY <2>1, <2>2
<1>18. ASSUME NEW r \in Recorder, NEW ep \in Episode, WriteHeadFails(r, ep)
      PROVE  Control(q)'
  <2>1. CASE q # r
    BY <1>18, <1>c, <2>1, ControlFrame DEF TypeOK, WriteHeadFails, HeadWritten, AfterFlush
  <2>2. CASE q = r
    BY <1>18, <1>c, <2>2, SMTT(40) DEF TypeOK, Control, Building, InBatch, HasQueue, Fault, WriteHeadFails, HeadWritten, AfterFlush
  <2> QED BY <2>1, <2>2
<1>19. ASSUME NEW r \in Recorder, Cancel(r)
      PROVE  Control(q)'
  BY <1>19, <1>c, ControlFrame DEF Cancel
<1>20. ASSUME NEW r \in Recorder, DrainRest(r)
      PROVE  Control(q)'
  <2>1. CASE q # r
    BY <1>20, <1>c, <2>1, ControlFrame DEF TypeOK, DrainRest
  <2>2. CASE q = r
    BY <1>20, <1>c, <2>2 DEF TypeOK, Control, Building, InBatch, HasQueue, Fault, DrainRest
  <2> QED BY <2>1, <2>2
<1>21. ASSUME NEW r \in Recorder, Reset(r)
      PROVE  Control(q)'
  <2>1. CASE q # r
    BY <1>21, <1>c, <2>1, ControlFrame DEF TypeOK, Reset
  <2>2. CASE q = r
    BY <1>21, <1>c, <2>2 DEF TypeOK, Control, Building, InBatch, HasQueue, Fault, Reset
  <2> QED BY <2>1, <2>2
<1>22. ASSUME NEW r \in Recorder, Crash(r)
      PROVE  Control(q)'
  <2>1. CASE q # r
    BY <1>22, <1>c, <2>1, ControlFrame DEF TypeOK, Crash
  <2>2. CASE q = r
    BY <1>22, <1>c, <2>2 DEF TypeOK, Control, Building, InBatch, HasQueue, Fault, Crash
  <2> QED BY <2>1, <2>2
<1>23. CASE UNCHANGED vars
  BY <1>23, <1>c, ControlFrame DEF vars
<1> QED
  BY <1>1, <1>2, <1>3, <1>4, <1>5, <1>6, <1>7, <1>8, <1>9, <1>10, <1>11, <1>12, <1>13, <1>14, <1>15, <1>16, <1>17, <1>18, <1>19, <1>20, <1>21, <1>22, <1>23 DEF Next, Connect, Caller, Drain

LEMMA InitType == Init => TypeOK /\ ControlOK
BY DEF Init, TypeOK, ControlOK, Control, Building, InBatch, NoLoss, NoHeads, NoRows

(* Every variable has its type in every reachable state, for any set of    *)
(* recorders and episodes: the recorder's queue, cache and batch never     *)
(* hold anything but events, heads and rows of the chain.                  *)
THEOREM TypeCorrect == Spec => [](TypeOK /\ ControlOK)
<1>1. Init => TypeOK /\ ControlOK
  BY InitType
<1>2. TypeOK /\ ControlOK /\ [Next]_vars => (TypeOK /\ ControlOK)'
  BY TypeStep, ControlStep
<1> QED BY <1>1, <1>2, PTL DEF Spec

-----------------------------------------------------------------------------
(* The number a recorder continues from after reading the newest row.      *)
LEMMA TailSeq ==
  ASSUME TypeOK, SeqsConsecutive, NEW ep \in Episode
  PROVE  TailOf(log[ep]).seq = Len(log[ep])
<1>1. log[ep] \in Seq(Row) /\ Len(log[ep]) \in Nat
  BY DEF TypeOK
<1>2. CASE log[ep] = <<>>
  BY <1>2 DEF TailOf
<1>3. CASE log[ep] # <<>>
  <2>1. Len(log[ep]) \in 1 .. Len(log[ep])
    BY <1>1, <1>3
  <2>2. log[ep][Len(log[ep])].seq = Len(log[ep]) - 1
    BY <2>1 DEF SeqsConsecutive
  <2> QED BY <1>1, <1>3, <2>2 DEF TailOf
<1> QED BY <1>2, <1>3

LEMMA LogLen ==
  ASSUME TypeOK, NEW ep \in Episode
  PROVE  log[ep] \in Seq(Row) /\ Len(log[ep]) \in Nat
<1>1. log[ep] \in Seq(Row)
  BY DEF TypeOK
<1> QED BY <1>1

LEMMA SumAtLeast == \A a, b \in Nat : a + b >= a
OBVIOUS

LEMMA Shift == \A a, b \in Nat : \A i \in 1 .. a + b : i > a => i - a \in 1 .. b
OBVIOUS

(* A flush the unique constraint accepts is one whose rows continue the    *)
(* log.                                                                    *)
LEMMA FreshInStep ==
  ASSUME TypeOK, SeqInv, NEW r \in Recorder, pc[r] = "build", Fresh(r),
         NEW ep \in Episode
  PROVE  InStep(r, ep)
<1>1. Doomed(r, ep) \/ InStep(r, ep)
  BY DEF SeqInv, SeqAt, Building
<1>2. NoDuplicate(rows[r][ep]) /\ Seqs(rows[r][ep]) \cap Seqs(log[ep]) = {}
  BY DEF Fresh
<1>3. ASSUME NEW i \in DOMAIN rows[r][ep], rows[r][ep][i].seq < Len(log[ep])
      PROVE  FALSE
  <2>1. rows[r][ep][i] \in Row
    BY <1>3 DEF TypeOK
  <2>2. rows[r][ep][i].seq + 1 \in 1 .. Len(log[ep])
    BY SMTT(30), <1>3, <2>1 DEF Row, TypeOK
  <2>3. log[ep][rows[r][ep][i].seq + 1].seq = rows[r][ep][i].seq
    BY <2>1, <2>2 DEF SeqInv, SeqsConsecutive, Row
  <2>4. rows[r][ep][i].seq + 1 \in DOMAIN log[ep]
    BY <2>2 DEF TypeOK
  <2>5. rows[r][ep][i].seq \in Seqs(log[ep]) /\ rows[r][ep][i].seq \in Seqs(rows[r][ep])
    BY <1>3, <2>3, <2>4 DEF Seqs
  <2> QED BY <2>5, <1>2
<1> QED BY <1>1, <1>2, <1>3 DEF Doomed, Collide

(* The log after the rows of a flush that continue it were appended.       *)
LEMMA AppendInStep ==
  ASSUME TypeOK, SeqInv, NEW r \in Recorder, pc[r] = "build", Fresh(r), AppendRows(r)
  PROVE  /\ SeqsConsecutive'
         /\ \A ep \in Episode : Len(log'[ep]) = Len(log[ep]) + Len(rows[r][ep])
<1>1. ASSUME NEW ep \in Episode
      PROVE  /\ Len(log'[ep]) = Len(log[ep]) + Len(rows[r][ep])
             /\ \A i \in 1 .. Len(log'[ep]) : log'[ep][i].seq = i - 1
  <2>1. log[ep] \in Seq(Row) /\ rows[r][ep] \in Seq(Row)
    BY DEF TypeOK
  <2>2. log'[ep] = log[ep] \o rows[r][ep]
    BY DEF AppendRows
  <2>3. InStep(r, ep)
    BY FreshInStep
  <2>4. Len(log'[ep]) = Len(log[ep]) + Len(rows[r][ep])
    BY <2>1, <2>2
  <2>5. ASSUME NEW i \in 1 .. Len(log'[ep])
        PROVE  log'[ep][i].seq = i - 1
    <3>1. CASE i <= Len(log[ep])
      BY <2>1, <2>2, <2>4, <3>1 DEF SeqInv, SeqsConsecutive
    <3>2. CASE i > Len(log[ep])
      <4>1. i - Len(log[ep]) \in 1 .. Len(rows[r][ep])
        <5>1. Len(log[ep]) \in Nat /\ Len(rows[r][ep]) \in Nat /\ i \in Nat
          BY <2>1
        <5>2. i \in 1 .. Len(log[ep]) + Len(rows[r][ep])
          BY <2>4
        <5> QED BY <5>1, <5>2, <3>2, Shift
      <4>2. log'[ep][i] = rows[r][ep][i - Len(log[ep])]
        BY <2>1, <2>2, <2>4, <3>2
      <4>3. rows[r][ep][i - Len(log[ep])].seq = Len(log[ep]) + (i - Len(log[ep])) - 1
        BY <2>3, <4>1 DEF InStep, Follow
      <4> QED BY <4>2, <4>3, <2>1
    <3> QED BY <2>1, <2>4, <3>1, <3>2
  <2> QED BY <2>4, <2>5
<1> QED BY <1>1 DEF SeqsConsecutive

(* No action removes a row.                                                *)
LEMMA LogGrows ==
  ASSUME TypeOK, [Next]_vars, NEW ep \in Episode
  PROVE  Len(log'[ep]) >= Len(log[ep])
<1>1. log[ep] \in Seq(Row) /\ Len(log[ep]) \in Nat
  BY DEF TypeOK
<1>2. ASSUME NEW r \in Recorder, AppendRows(r)
      PROVE  Len(log'[ep]) >= Len(log[ep])
  <2>1. rows[r][ep] \in Seq(Row) /\ log'[ep] = log[ep] \o rows[r][ep]
    BY <1>2 DEF TypeOK, AppendRows
  <2>2. Len(rows[r][ep]) \in Nat /\ Len(log'[ep]) = Len(log[ep]) + Len(rows[r][ep])
    BY <1>1, <2>1
  <2> QED BY <1>1, <2>2, SumAtLeast
<1>3. CASE log' = log
  BY <1>1, <1>3
<1>4. log' = log \/ \E r \in Recorder : AppendRows(r)
  <2> USE DEF dbVars
  <2>1. CASE UNCHANGED vars
    BY <2>1 DEF vars
  <2>2. ASSUME NEW r \in Recorder, Drain(r)
        PROVE  log' = log \/ AppendRows(r)
    BY <2>2 DEF Drain, Take, Flush, CacheHit, ReadTail, ReadAnchor, ReadAnchorFails,
       CacheHead, Extend, Commit, CommitCollides, FlushFails, CommitUnknown,
       WriteHead, WriteHeadFails, HeadWritten, DrainRest
  <2>3. ASSUME NEW r \in Recorder,
               \/ Connect(r) \/ Caller(r)
               \/ \E e \in Episode : NoteLoss(r, e)
               \/ Cancel(r) \/ Reset(r) \/ Crash(r)
        PROVE  log' = log
    BY <2>3 DEF Connect, ConnectOK, ConnectFails, Caller, Enqueue, Refuse, NoteLoss,
       Cancel, Reset, Crash
  <2> QED BY <2>1, <2>2, <2>3 DEF Next
<1> QED BY <1>2, <1>3, <1>4

(* What holds of a recorder and an episode keeps holding while the         *)
(* recorder builds nothing of it and the log does not shrink.              *)
LEMMA SeqFrame ==
  ASSUME TypeOK, ControlOK, TypeOK', NEW q \in Recorder, NEW ep \in Episode, SeqAt(q, ep),
         Len(log'[ep]) >= Len(log[ep]),
         chains'[q][ep] \in {chains[q][ep], NoHead},
         pc'[q] = pc[q], cur'[q] = cur[q], rows'[q] = rows[q]
  PROVE  SeqAt(q, ep)'
<1>1. Len(log[ep]) \in Nat /\ Len(log'[ep]) \in Nat
  <2>1. log[ep] \in Seq(Row) /\ log'[ep] \in Seq(Row)
    BY DEF TypeOK
  <2> QED BY <2>1
<1>2. rows[q][ep] \in Seq(Row)
  BY DEF TypeOK
<1>3. ASSUME NEW i \in DOMAIN rows[q][ep] PROVE rows[q][ep][i].seq \in Nat
  <2>1. rows[q][ep][i] \in Row
    BY <1>2
  <2> QED BY <2>1 DEF Row
<1>4. ASSUME NEW h \in ChainHead, HeadInStep(q, ep, h)
      PROVE  HeadInStep(q, ep, h)'
  <2>1. h.seq \in Nat
    BY DEF ChainHead
  <2> QED BY <1>1, <1>4, <2>1 DEF HeadInStep, Building
<1>5. chains'[q][ep] # NoHead => HeadInStep(q, ep, chains[q][ep])'
  BY <1>4 DEF SeqAt, TypeOK
<1>6. (pc[q] \in {"anchor", "extend"} /\ cur[q].item.ep = ep)'
        => HeadInStep(q, ep, cur[q].head)'
  <2>1. pc[q] \in {"anchor", "extend"} => cur[q].head \in ChainHead
    BY CurType
  <2> QED BY <2>1, <1>4 DEF SeqAt
<1>7. Doomed(q, ep) => Doomed(q, ep)'
  BY <1>1, <1>3 DEF Doomed, Collide
<1>8. InStep(q, ep) => Doomed(q, ep)' \/ InStep(q, ep)'
  <2>1. CASE Len(log'[ep]) = Len(log[ep])
    BY <2>1 DEF InStep, Follow
  <2>2. CASE rows[q][ep] = <<>>
    BY <2>2 DEF InStep, Follow
  <2>3. CASE Len(log'[ep]) > Len(log[ep]) /\ rows[q][ep] # <<>>
    <3>1. 1 \in DOMAIN rows[q][ep] /\ 1 \in 1 .. Len(rows[q][ep])
      BY <1>2, <2>3
    <3>2. InStep(q, ep) => rows[q][ep][1].seq = Len(log[ep])
      BY <3>1, <1>1 DEF InStep, Follow
    <3> QED BY <1>1, <2>3, <3>1, <3>2 DEF Doomed, Collide
  <2> QED BY <1>1, <2>1, <2>2, <2>3
<1>9. Building(q)' => Doomed(q, ep)' \/ InStep(q, ep)'
  BY <1>7, <1>8 DEF SeqAt, Building
<1>10. (pc[q] = "heads")' =>
         \A i \in DOMAIN rows'[q][ep] : rows'[q][ep][i].seq < Len(log'[ep])
  BY <1>1, <1>3 DEF SeqAt
<1> QED BY <1>5, <1>6, <1>9, <1>10 DEF SeqAt

(* While nothing is being built, the cached heads are within the log.      *)
LEMMA IdleHead ==
  ASSUME SeqInv, NEW r \in Recorder, NEW ep \in Episode,
         ~Building(r), chains[r][ep] # NoHead
  PROVE  chains[r][ep].seq <= Len(log[ep])
BY DEF SeqInv, SeqAt, HeadInStep

(* The end of a flush, successful or not: nothing is built and what is     *)
(* left in the cache is within the log.                                    *)
LEMMA SeqAfterFlush ==
  ASSUME NEW r \in Recorder, NEW ep \in Episode,
         ~Building(r)',
         chains'[r][ep] # NoHead => chains'[r][ep].seq <= Len(log'[ep]),
         pc'[r] # "heads"
  PROVE  SeqAt(r, ep)'
BY DEF SeqAt, Building, HeadInStep

LEMMA SeqFlush ==
  ASSUME TypeOK, ControlOK, SeqInv, NEW r \in Recorder, NEW ep \in Episode, Flush(r)
  PROVE  SeqAt(r, ep)'
<1>1. pc[r] = "idle" /\ pc'[r] = "build" /\ chains' = chains /\ rows' = rows /\ log' = log
  BY DEF Flush, TypeOK, dbVars
<1>2. rows[r][ep] = <<>>
  BY <1>1 DEF ControlOK, Control, NoRows
<1>3. chains[r][ep] # NoHead => chains[r][ep].seq <= Len(log[ep])
  BY <1>1, IdleHead DEF Building
<1> QED BY <1>1, <1>2, <1>3 DEF SeqAt, Building, HeadInStep, InStep, Follow

LEMMA SeqPickUp ==
  ASSUME TypeOK, SeqInv, NEW r \in Recorder, NEW ep \in Episode,
         CacheHit(r) \/ ReadTail(r)
  PROVE  SeqAt(r, ep)'
<1>1. /\ pc[r] = "build" /\ pc'[r] \in {"anchor", "extend"}
      /\ chains' = chains /\ rows' = rows /\ log' = log
  BY DEF CacheHit, ReadTail, TypeOK, recorderVars, dbVars
<1>a. \E i \in NextItems(r) : \E x :
        /\ cur' = [cur EXCEPT ![r] = [item |-> i, head |-> x]]
        /\ x = TailOf(log[i.ep]) \/ (x = chains[r][i.ep] /\ x # NoHead)
  BY DEF CacheHit, ReadTail
<1>b. PICK it \in NextItems(r) : \E x :
        /\ cur' = [cur EXCEPT ![r] = [item |-> it, head |-> x]]
        /\ x = TailOf(log[it.ep]) \/ (x = chains[r][it.ep] /\ x # NoHead)
  BY <1>a
<1>2. PICK h :
        /\ cur' = [cur EXCEPT ![r] = [item |-> it, head |-> h]]
        /\ h = TailOf(log[it.ep]) \/ (h = chains[r][it.ep] /\ h # NoHead)
  BY <1>b
<1>3. cur'[r] = [item |-> it, head |-> h]
  BY <1>2 DEF TypeOK
<1>4. it.ep \in Episode
  BY NextItemType DEF Item
<1>5. HeadInStep(r, it.ep, h)
  <2>1. CASE h = TailOf(log[it.ep])
    <3>1. h.seq = Len(log[it.ep]) /\ Len(log[it.ep]) \in Nat
      BY <2>1, <1>4, TailSeq, LogLen DEF SeqInv
    <3> QED BY <3>1 DEF HeadInStep
  <2>2. CASE h = chains[r][it.ep] /\ chains[r][it.ep] # NoHead
    BY <2>2, <1>4 DEF SeqInv, SeqAt
  <2> QED BY <2>1, <2>2, <1>2
<1>6. \A x : HeadInStep(r, ep, x) => HeadInStep(r, ep, x)'
  BY <1>1 DEF HeadInStep, Building
<1>7. SeqAt(r, ep)
  BY DEF SeqInv
<1>8. chains'[r][ep] # NoHead => HeadInStep(r, ep, chains[r][ep])'
  BY <1>1, <1>6, <1>7 DEF SeqAt
<1>9. cur'[r].item.ep = ep => HeadInStep(r, ep, cur[r].head)'
  BY <1>3, <1>5, <1>6
<1>10. Doomed(r, ep)' \/ InStep(r, ep)'
  BY <1>1, <1>7 DEF SeqAt, Building, Doomed, Collide, InStep, Follow
<1> QED BY <1>1, <1>8, <1>9, <1>10 DEF SeqAt

LEMMA SeqReadAnchor ==
  ASSUME TypeOK, ControlOK, SeqInv, NEW r \in Recorder, NEW ep \in Episode,
         ReadAnchor(r) \/ ReadAnchorFails(r)
  PROVE  SeqAt(r, ep)'
<1> DEFINE e == cur[r].item.ep
<1>1. /\ pc[r] = "anchor" /\ pc'[r] = "extend" /\ rows' = rows /\ log' = log
  BY DEF ReadAnchor, ReadAnchorFails, CacheHead, TypeOK, dbVars
<1>2. cur[r] \in [item : Item, head : ChainHead] /\ e \in Episode
  BY <1>1 DEF TypeOK, ControlOK, Control, Item
<1>3. PICK h : /\ CacheHead(r, h)
               /\ h = cur[r].head \/ h = PastAnchor(cur[r].head, anchor[e])
  BY DEF ReadAnchor, ReadAnchorFails
<1>4. cur'[r] = [item |-> cur[r].item, head |-> h]
  BY <1>2, <1>3 DEF CacheHead, TypeOK
<1>5. chains'[r] = [chains[r] EXCEPT ![e] = h]
  BY <1>3 DEF CacheHead, TypeOK
<1>6. chains'[r][e] = h /\ (ep # e => chains'[r][ep] = chains[r][ep])
  BY <1>2, <1>5 DEF TypeOK
<1>7. HeadInStep(r, e, h)
  <2>1. HeadInStep(r, e, cur[r].head)
    BY <1>1, <1>2 DEF SeqInv, SeqAt
  <2>2. CASE h = cur[r].head
    BY <2>1, <2>2
  <2>3. CASE h = PastAnchor(cur[r].head, anchor[e]) /\ h # cur[r].head
    <3>1. anchor[e] # NoHead /\ h = [cur[r].head EXCEPT !.seq = anchor[e].seq + 1]
      BY <2>3 DEF PastAnchor
    <3>2. h.seq = anchor[e].seq + 1
      BY <3>1, <1>2 DEF ChainHead
    <3>3. anchor[e].seq < Len(log[e])
      BY <3>1, <1>2 DEF SeqInv, AnchorInLog
    <3>4. anchor[e].seq \in Nat /\ Len(log[e]) \in Nat
      BY <3>1, <1>2, LogLen DEF TypeOK
    <3> QED BY <3>2, <3>3, <3>4 DEF HeadInStep
  <2> QED BY <1>3, <2>2, <2>3
<1>8. \A x : HeadInStep(r, ep, x) => HeadInStep(r, ep, x)'
  BY <1>1 DEF HeadInStep, Building
<1>9. SeqAt(r, ep)
  BY DEF SeqInv
<1>10. chains'[r][ep] # NoHead => HeadInStep(r, ep, chains[r][ep])'
  BY <1>1, <1>6, <1>7, <1>8, <1>9 DEF SeqAt
<1>11. cur'[r].item.ep = ep => HeadInStep(r, ep, cur[r].head)'
  BY <1>4, <1>7, <1>8
<1>12. Doomed(r, ep)' \/ InStep(r, ep)'
  BY <1>1, <1>9 DEF SeqAt, Building, Doomed, Collide, InStep, Follow
<1> QED BY <1>1, <1>10, <1>11, <1>12 DEF SeqAt

LEMMA LastOfAppend ==
  ASSUME NEW s \in Seq(Row), NEW row \in Row
  PROVE  Append(s, row) # <<>> /\ Append(s, row)[Len(Append(s, row))] = row
<1>1. Len(s) \in Nat /\ Len(Append(s, row)) = Len(s) + 1
  OBVIOUS
<1>2. Append(s, row)[Len(s) + 1] = row
  OBVIOUS
<1>3. Append(s, row) # <<>>
  <2>1. Len(Append(s, row)) # 0
    BY <1>1
  <2>2. Len(<<>>) = 0
    OBVIOUS
  <2> QED BY <2>1, <2>2
<1> QED BY <1>1, <1>2, <1>3

(* Extending rows that follow or collide, by a row that repeats a number   *)
(* of the log, comes next after the log or comes next after the rows.      *)
LEMMA ExtendRows ==
  ASSUME NEW s \in Seq(Row), NEW row \in Row, NEW n \in Nat,
         Collide(s, n) \/ Follow(s, n),
         row.seq <= n \/ (s # <<>> /\ row.seq = s[Len(s)].seq + 1)
  PROVE  Collide(Append(s, row), n) \/ Follow(Append(s, row), n)
<1> DEFINE t == Append(s, row)
<1> SUFFICES Collide(t, n) \/ Follow(t, n)
  OBVIOUS
<1>1. Len(s) \in Nat /\ row.seq \in Nat
  BY DEF Row
<1>2. /\ Len(t) = Len(s) + 1 /\ t[Len(s) + 1] = row
      /\ \A i \in 1 .. Len(s) : t[i] = s[i]
      /\ DOMAIN t = 1 .. Len(s) + 1 /\ DOMAIN s = 1 .. Len(s)
  OBVIOUS
<1> HIDE DEF t
<1>3. CASE Collide(s, n)
  <2>1. DOMAIN s \subseteq DOMAIN t /\ \A i \in DOMAIN s : t[i] = s[i]
    BY <1>1, <1>2
  <2> QED BY <1>3, <2>1 DEF Collide, NoDuplicate
<1>4. CASE row.seq < n
  <2>1. Len(s) + 1 \in DOMAIN t /\ t[Len(s) + 1].seq < n
    BY <1>1, <1>2, <1>4
  <2> QED BY <2>1 DEF Collide
<1>5. CASE s = <<>> /\ row.seq = n
  <2>1. Len(s) = 0
    BY <1>5
  <2>2. Len(t) = 1 /\ t[1] = row
    BY <1>2, <2>1
  <2> QED BY <1>5, <2>2 DEF Follow
<1>6. CASE s # <<>> /\ Follow(s, n) /\ row.seq = n
  <2>1. 1 \in 1 .. Len(s)
    BY <1>1, <1>6
  <2>2. t[1].seq = t[Len(s) + 1].seq /\ 1 # Len(s) + 1
    BY <1>1, <1>2, <1>6, <2>1 DEF Follow
  <2>3. 1 \in DOMAIN t /\ Len(s) + 1 \in DOMAIN t
    BY <1>1, <1>2
  <2> QED BY <2>2, <2>3 DEF Collide, NoDuplicate
<1>7. CASE s # <<>> /\ Follow(s, n) /\ row.seq = s[Len(s)].seq + 1
  <2>1. Len(s) \in 1 .. Len(s)
    BY <1>1, <1>7
  <2>2. row.seq = n + (Len(s) + 1) - 1
    BY <1>1, <1>7, <2>1 DEF Follow
  <2>3. ASSUME NEW i \in 1 .. Len(s) + 1
        PROVE  t[i].seq = n + i - 1
    <3>1. CASE i = Len(s) + 1
      BY <1>2, <2>2, <3>1
    <3>2. CASE i \in 1 .. Len(s)
      BY <1>2, <1>7, <3>2 DEF Follow
    <3> QED BY <1>1, <3>1, <3>2
  <2> QED BY <1>2, <2>3 DEF Follow
<1> QED BY <1>1, <1>3, <1>4, <1>5, <1>6, <1>7

(* Extend: the row continues what was built, or repeats a number.          *)
LEMMA SeqExtend ==
  ASSUME TypeOK, ControlOK, SeqInv, NEW r \in Recorder, NEW ep \in Episode, Extend(r)
  PROVE  SeqAt(r, ep)'
<1>1. pc[r] = "extend" /\ pc'[r] = "build" /\ log' = log
  BY DEF Extend, TypeOK, dbVars
<1>a. PICK e \in Episode : e = cur[r].item.ep
  BY <1>1, BuiltRowType DEF BuiltRow
<1> DEFINE s == rows[r][e]
<1>2. BuiltRow(r) \in Row
  BY <1>1, BuiltRowType
<1>3. /\ rows'[r][e] = Append(s, BuiltRow(r))
      /\ chains'[r][e] = [seq |-> BuiltRow(r).seq + 1, hash |-> HashOf(BuiltRow(r))]
      /\ ep # e => rows'[r][ep] = rows[r][ep] /\ chains'[r][ep] = chains[r][ep]
  BY <1>a, <1>2 DEF Extend, BuiltRow, TypeOK
<1>4. SeqAt(r, ep) /\ SeqAt(r, e)
  BY <1>2 DEF SeqInv
<1>5. CASE ep # e
  BY <1>1, <1>3, <1>4, <1>5 DEF SeqAt, Building, Doomed, InStep, HeadInStep
<1>6. CASE ep = e
  <2>1. s \in Seq(Row)
    BY <1>2 DEF TypeOK
  <2>2. HeadInStep(r, e, cur[r].head) /\ BuiltRow(r).seq = cur[r].head.seq
    BY <1>1, <1>4, <1>a DEF SeqAt, BuiltRow
  <2>3. Collide(s, Len(log[e])) \/ Follow(s, Len(log[e]))
    BY <1>1, <1>4 DEF SeqAt, Building, Doomed, InStep
  <2>4. \/ Collide(Append(s, BuiltRow(r)), Len(log[e]))
        \/ Follow(Append(s, BuiltRow(r)), Len(log[e]))
    BY <1>2, <2>1, <2>2, <2>3, LogLen, ExtendRows DEF HeadInStep
  <2>5. Doomed(r, e)' \/ InStep(r, e)'
    BY <1>1, <1>3, <2>4 DEF Doomed, InStep
  <2>6. /\ Append(s, BuiltRow(r)) # <<>>
        /\ Append(s, BuiltRow(r))[Len(Append(s, BuiltRow(r)))] = BuiltRow(r)
    BY <1>2, <2>1, LastOfAppend
  <2>7. HeadInStep(r, e, chains[r][e])'
    BY <1>1, <1>3, <2>6 DEF HeadInStep, Building
  <2> QED BY <1>1, <1>6, <2>5, <2>7 DEF SeqAt
<1> QED BY <1>5, <1>6

(* Commit: the rows are in the log, and the cached heads with them.        *)
LEMMA SeqCommit ==
  ASSUME TypeOK, SeqInv, NEW r \in Recorder, NEW ep \in Episode, Commit(r)
  PROVE  SeqAt(r, ep)'
<1>1. /\ pc[r] = "build" /\ pc'[r] = "heads" /\ rows' = rows /\ chains' = chains
      /\ Fresh(r) /\ AppendRows(r)
  BY DEF Commit, Built, TypeOK, recorderVars
<1>2. InStep(r, ep) /\ Len(log'[ep]) = Len(log[ep]) + Len(rows[r][ep])
  BY <1>1, FreshInStep, AppendInStep
<1>3. rows[r][ep] \in Seq(Row) /\ Len(rows[r][ep]) \in Nat /\ Len(log[ep]) \in Nat
  <2>1. rows[r][ep] \in Seq(Row)
    BY DEF TypeOK
  <2> QED BY <2>1, LogLen
<1>4. \A i \in 1 .. Len(rows[r][ep]) : rows[r][ep][i].seq < Len(log'[ep])
  <2>1. \A a, b \in Nat : \A i \in 1 .. b : a + i - 1 < a + b
    OBVIOUS
  <2> QED BY <1>2, <1>3, <2>1 DEF InStep, Follow
<1>5. ASSUME chains[r][ep] # NoHead
      PROVE  chains[r][ep].seq <= Len(log'[ep])
  <2>1. HeadInStep(r, ep, chains[r][ep])
    BY <1>5 DEF SeqInv, SeqAt
  <2>2. chains[r][ep].seq \in Nat
    BY <1>5 DEF TypeOK, ChainHead
  <2>3. CASE chains[r][ep].seq <= Len(log[ep])
    <3>1. \A a, b, c \in Nat : c <= a => c <= a + b
      OBVIOUS
    <3> QED BY <1>2, <1>3, <2>2, <2>3, <3>1
  <2>4. CASE /\ rows[r][ep] # <<>>
             /\ chains[r][ep].seq = rows[r][ep][Len(rows[r][ep])].seq + 1
    <3>1. Len(rows[r][ep]) \in 1 .. Len(rows[r][ep])
      BY <1>3, <2>4
    <3>2. rows[r][ep][Len(rows[r][ep])].seq = Len(log[ep]) + Len(rows[r][ep]) - 1
      BY <1>2, <3>1 DEF InStep, Follow
    <3> QED BY <1>2, <1>3, <2>4, <3>2
  <2> QED BY <2>1, <2>3, <2>4 DEF HeadInStep
<1>6. DOMAIN rows[r][ep] = 1 .. Len(rows[r][ep])
  BY <1>3
<1> QED BY <1>1, <1>4, <1>5, <1>6 DEF SeqAt, Building, HeadInStep

(* The rows are appended by a commit, with or without its acknowledgement. *)
LEMMA OnlyCommitAppends ==
  ASSUME [Next]_vars
  PROVE  log' = log \/ \E r \in Recorder : Commit(r) \/ CommitUnknown(r)
<1> USE DEF dbVars
<1>1. CASE UNCHANGED vars
  BY <1>1 DEF vars
<1>2. ASSUME NEW r \in Recorder, Drain(r)
      PROVE  log' = log \/ Commit(r) \/ CommitUnknown(r)
  BY <1>2 DEF Drain, Take, Flush, CacheHit, ReadTail, ReadAnchor, ReadAnchorFails,
     CacheHead, Extend, CommitCollides, FlushFails,
     WriteHead, WriteHeadFails, HeadWritten, DrainRest
<1>3. ASSUME NEW r \in Recorder,
             \/ Connect(r) \/ Caller(r)
             \/ \E e \in Episode : NoteLoss(r, e)
             \/ Cancel(r) \/ Reset(r) \/ Crash(r)
      PROVE  log' = log
  BY <1>3 DEF Connect, ConnectOK, ConnectFails, Caller, Enqueue, Refuse, NoteLoss,
     Cancel, Reset, Crash
<1> QED BY <1>1, <1>2, <1>3 DEF Next

LEMMA OnlyWriteHeadAnchors ==
  ASSUME [Next]_vars
  PROVE  \/ anchor' = anchor
         \/ \E r \in Recorder, ep \in Episode : WriteHead(r, ep)
<1> USE DEF dbVars
<1>1. CASE UNCHANGED vars
  BY <1>1 DEF vars
<1>2. ASSUME NEW r \in Recorder, Drain(r)
      PROVE  anchor' = anchor \/ \E ep \in Episode : WriteHead(r, ep)
  BY <1>2 DEF Drain, Take, Flush, CacheHit, ReadTail, ReadAnchor, ReadAnchorFails,
     CacheHead, Extend, Commit, CommitCollides, FlushFails, CommitUnknown, CarryLoss,
     WriteHeadFails, HeadWritten, DrainRest
<1>3. ASSUME NEW r \in Recorder,
             \/ Connect(r) \/ Caller(r)
             \/ \E e \in Episode : NoteLoss(r, e)
             \/ Cancel(r) \/ Reset(r) \/ Crash(r)
      PROVE  anchor' = anchor
  BY <1>3 DEF Connect, ConnectOK, ConnectFails, Caller, Enqueue, Refuse, NoteLoss,
     Cancel, Reset, Crash
<1> QED BY <1>1, <1>2, <1>3 DEF Next

(* A drain goroutine touches the cache and the batch of its own recorder.  *)
LEMMA DrainTouchesOwn ==
  ASSUME TypeOK, NEW r \in Recorder, Drain(r), NEW q \in Recorder, q # r
  PROVE  chains'[q] = chains[q] /\ pc'[q] = pc[q] /\ cur'[q] = cur[q] /\ rows'[q] = rows[q]
<1> USE DEF recorderVars, TypeOK
<1>1. CASE Take(r) \/ Flush(r) \/ DrainRest(r)
  BY <1>1 DEF Take, Flush, DrainRest
<1>2. CASE CacheHit(r)
  BY <1>2 DEF CacheHit
<1>3. CASE ReadTail(r)
  BY <1>3 DEF ReadTail
<1>4. CASE ReadAnchor(r) \/ ReadAnchorFails(r)
  BY <1>4 DEF ReadAnchor, ReadAnchorFails, CacheHead
<1>5. CASE Extend(r)
  BY <1>5 DEF Extend
<1>6. CASE Commit(r)
  BY <1>6 DEF Commit
<1>7. CASE CommitCollides(r) \/ FlushFails(r) \/ CommitUnknown(r)
  BY <1>7 DEF CommitCollides, FlushFails, CommitUnknown, CarryLoss
<1>8. CASE \E e \in Episode : WriteHead(r, e) \/ WriteHeadFails(r, e)
  BY SMTT(30), <1>8 DEF WriteHead, WriteHeadFails, HeadWritten
<1> QED BY <1>1, <1>2, <1>3, <1>4, <1>5, <1>6, <1>7, <1>8 DEF Drain

(* An episode with an item in the batch has a loss to carry.               *)
LEMMA InBatchCounts ==
  ASSUME TypeOK, NEW r \in Recorder, NEW ep \in Episode, InBatch(r, ep)
  PROVE  gaps[r][ep] + CountOf(batch[r], ep) > 0
<1>1. batch[r] \in Seq(Event) /\ gaps[r][ep] \in Nat
  BY DEF TypeOK
<1>2. CountOf(batch[r], ep) \in Nat
  BY <1>1, CountOfType
<1>3. CASE gaps[r][ep] > 0
  BY <1>1, <1>2, <1>3
<1>4. CASE \E i \in DOMAIN batch[r] : batch[r][i].ep = ep
  <2>1. DOMAIN batch[r] = 1 .. Len(batch[r]) /\ Len(batch[r]) \in Nat
    BY <1>1
  <2>2. IsFiniteSet(DOMAIN batch[r])
    BY <2>1, FS_Interval
  <2>3. {i \in DOMAIN batch[r] : batch[r][i].ep = ep} \in SUBSET DOMAIN batch[r]
    OBVIOUS
  <2>4. IsFiniteSet({i \in DOMAIN batch[r] : batch[r][i].ep = ep})
    BY <2>2, <2>3, FS_Subset
  <2>5. CountOf(batch[r], ep) # 0
    BY <1>4, <2>4, FS_EmptySet DEF CountOf
  <2> QED BY <1>1, <1>2, <2>5
<1> QED BY <1>3, <1>4 DEF InBatch

(* CarryLoss: the rows are gone, and so is the head of every episode that  *)
(* had any.                                                                *)
LEMMA SeqCarryLoss ==
  ASSUME TypeOK, ControlOK, SeqInv, NEW r \in Recorder, NEW ep \in Episode,
         pc[r] = "build", CarryLoss(r), Len(log'[ep]) >= Len(log[ep]),
         Len(log'[ep]) \in Nat
  PROVE  SeqAt(r, ep)'
<1>1. pc'[r] \in {"idle", "exited"} /\ chains'[r][ep] = HeadAfterLoss(r, ep)
  BY DEF CarryLoss, AfterFlush, TypeOK
<1>2. ASSUME chains'[r][ep] # NoHead
      PROVE  chains'[r][ep].seq <= Len(log'[ep])
  <2>1. chains'[r][ep] = chains[r][ep] /\ ~(gaps[r][ep] + CountOf(batch[r], ep) > 0)
    BY <1>1, <1>2 DEF HeadAfterLoss
  <2>2. ~InBatch(r, ep)
    BY <2>1, InBatchCounts
  <2>3. rows[r][ep] = <<>>
    BY <2>2 DEF ControlOK, Control, Building
  <2>4. HeadInStep(r, ep, chains[r][ep])
    BY <1>2, <2>1 DEF SeqInv, SeqAt
  <2>5. chains[r][ep].seq <= Len(log[ep])
    BY <2>3, <2>4 DEF HeadInStep
  <2>6. chains[r][ep].seq \in Nat /\ Len(log[ep]) \in Nat
    <3>1. chains[r][ep] \in ChainHead
      BY <1>2, <2>1 DEF TypeOK
    <3> QED BY <3>1, LogLen DEF ChainHead
  <2> QED BY <2>1, <2>5, <2>6
<1> QED BY <1>1, <1>2, SeqAfterFlush DEF Building

(* WriteHead and its failure.                                              *)
LEMMA SeqHead ==
  ASSUME TypeOK, SeqInv, NEW r \in Recorder, NEW e \in Episode, NEW ep \in Episode,
         WriteHead(r, e) \/ WriteHeadFails(r, e)
  PROVE  SeqAt(r, ep)'
<1>1. /\ pc[r] = "heads" /\ chains' = chains /\ log' = log
      /\ (pc'[r] = "heads" /\ rows' = rows) \/ pc'[r] \in {"idle", "exited"}
  BY DEF WriteHead, WriteHeadFails, HeadWritten, AfterFlush, TypeOK, recorderVars
<1>2. chains[r][ep] # NoHead => chains[r][ep].seq <= Len(log[ep])
  BY <1>1, IdleHead DEF Building
<1> QED BY <1>1, <1>2 DEF SeqInv, SeqAt, Building, HeadInStep

LEMMA SeqStep == TypeOK /\ ControlOK /\ SeqInv /\ [Next]_vars /\ TypeOK' => SeqInv'
<1> SUFFICES ASSUME TypeOK, ControlOK, SeqInv, [Next]_vars, TypeOK'
             PROVE  SeqInv'
  OBVIOUS
<1> USE DEF recorderVars, drainVars, dbVars, historyVars
<1>g. \A ep \in Episode : /\ Len(log'[ep]) >= Len(log[ep])
                         /\ Len(log'[ep]) \in Nat /\ Len(log[ep]) \in Nat
  <2>1. \A ep \in Episode : log'[ep] \in Seq(Row)
    BY DEF TypeOK
  <2> QED BY <2>1, LogGrows, LogLen
(* The log.                                                                *)
<1>1. SeqsConsecutive'
  <2>1. CASE log' = log
    BY <2>1 DEF SeqInv, SeqsConsecutive
  <2>2. ASSUME NEW r \in Recorder, Commit(r) \/ CommitUnknown(r)
        PROVE  SeqsConsecutive'
    BY <2>2, AppendInStep DEF Commit, CommitUnknown, Built
  <2> QED BY <2>1, <2>2, OnlyCommitAppends
(* The anchors.                                                            *)
<1>2. AnchorInLog'
  <2>1. CASE anchor' = anchor
    BY <2>1, <1>g DEF SeqInv, AnchorInLog, TypeOK
  <2>2. ASSUME NEW r \in Recorder, NEW e \in Episode, WriteHead(r, e)
        PROVE  AnchorInLog'
    <3>1. /\ pc[r] = "heads" /\ e \in heads[r] /\ log' = log
          /\ anchor' = [anchor EXCEPT ![e] = AnchorFor(r, e)]
      BY <2>2 DEF WriteHead, HeadWritten
    <3>2. rows[r][e] # <<>> /\ rows[r][e] \in Seq(Row)
      BY <3>1 DEF ControlOK, Control, TypeOK
    <3>3. Len(rows[r][e]) \in DOMAIN rows[r][e]
      BY <3>2
    <3>4. NewestRow(r, e).seq < Len(log[e])
      BY <3>1, <3>3 DEF SeqInv, SeqAt, NewestRow
    <3> QED BY <3>1, <3>4 DEF SeqInv, AnchorInLog, AnchorFor, TypeOK
  <2> QED BY <2>1, <2>2, OnlyWriteHeadAnchors
(* The recorders.                                                          *)
<1>3. ASSUME NEW q \in Recorder, NEW ep \in Episode
      PROVE  SeqAt(q, ep)'
  <2>0. SeqAt(q, ep)
    BY DEF SeqInv
  <2>1. CASE UNCHANGED vars
    BY <2>0, <2>1, <1>g, SeqFrame DEF vars
  <2>2. ASSUME NEW r \in Recorder, Connect(r) \/ Caller(r) \/ Cancel(r)
        PROVE  SeqAt(q, ep)'
    BY <2>0, <2>2, <1>g, SeqFrame DEF Connect, ConnectOK, ConnectFails, Caller,
       Enqueue, Refuse, Cancel
  <2>3. ASSUME NEW r \in Recorder, NEW e \in Episode, NoteLoss(r, e)
        PROVE  SeqAt(q, ep)'
    <3>1. chains'[q][ep] \in {chains[q][ep], NoHead}
      <4>1. \/ chains' = chains
            \/ chains' = [chains EXCEPT ![r] = [chains[r] EXCEPT ![e] = NoHead]]
        BY <2>3 DEF NoteLoss
      <4>2. chains \in [Recorder -> [Episode -> ChainHead \cup {NoHead}]]
        BY DEF TypeOK
      <4> QED BY <4>1, <4>2
    <3> QED BY <2>0, <2>3, <3>1, <1>g, SeqFrame DEF NoteLoss
  <2>4. ASSUME NEW r \in Recorder, Reset(r)
        PROVE  SeqAt(q, ep)'
    <3>1. CASE q # r
      <4>1. chains'[q] = chains[q] /\ pc'[q] = pc[q]
        BY <2>4, <3>1 DEF Reset, TypeOK
      <4>2. cur'[q] = cur[q] /\ rows'[q] = rows[q]
        BY <2>4, <3>1 DEF Reset, TypeOK
      <4> QED BY <2>0, <4>1, <4>2, <1>g, SeqFrame
    <3>2. CASE q = r
      <4>1. pc'[q] = "idle" /\ chains'[q][ep] = NoHead
        BY <2>4, <3>2 DEF Reset, TypeOK, NoHeads
      <4> QED BY <4>1, SeqAfterFlush DEF Building
    <3> QED BY <3>1, <3>2
  <2>5. ASSUME NEW r \in Recorder, Crash(r)
        PROVE  SeqAt(q, ep)'
    <3>1. CASE q # r
      <4>1. chains'[q] = chains[q] /\ pc'[q] = pc[q]
        BY <2>5, <3>1 DEF Crash, TypeOK
      <4>2. cur'[q] = cur[q] /\ rows'[q] = rows[q]
        BY <2>5, <3>1 DEF Crash, TypeOK
      <4> QED BY <2>0, <4>1, <4>2, <1>g, SeqFrame
    <3>2. CASE q = r
      <4>1. pc'[q] = "idle" /\ chains'[q][ep] = NoHead
        BY <2>5, <3>2 DEF Crash, TypeOK, NoHeads
      <4> QED BY <4>1, SeqAfterFlush DEF Building
    <3> QED BY <3>1, <3>2
  <2>6. ASSUME NEW r \in Recorder, Drain(r), q # r
        PROVE  SeqAt(q, ep)'
    BY <2>0, <2>6, <1>g, SeqFrame, DrainTouchesOwn
  <2>7. ASSUME Drain(q)
        PROVE  SeqAt(q, ep)'
    <3>1. CASE Take(q) \/ DrainRest(q)
      BY <2>0, <3>1, <1>g, SeqFrame DEF Take, DrainRest
    <3>2. CASE CommitCollides(q) \/ FlushFails(q) \/ CommitUnknown(q)
      BY <3>2, <1>g, SeqCarryLoss DEF CommitCollides, FlushFails, CommitUnknown, Built
    <3>3. CASE \E e \in Episode : WriteHead(q, e) \/ WriteHeadFails(q, e)
      BY <3>3, SeqHead
    <3> QED BY <2>7, <3>1, <3>2, <3>3, SeqFlush, SeqPickUp, SeqReadAnchor, SeqExtend,
            SeqCommit DEF Drain
  <2> QED BY <2>1, <2>2, <2>3, <2>4, <2>5, <2>6, <2>7 DEF Next
<1> QED BY <1>1, <1>2, <1>3 DEF SeqInv

LEMMA InitSeq == Init => SeqInv
BY DEF Init, SeqInv, SeqsConsecutive, AnchorInLog, SeqAt, Building, NoRows, NoHeads

(* Any number of recorders sharing one database number the rows of every   *)
(* episode 0, 1, 2, ..., whatever they cache, lose, retry or forget in a   *)
(* crash: the unique constraint is enough, because a flush that would      *)
(* leave a hole always also repeats a number (build, chainState, insert).  *)
THEOREM SeqsAlwaysConsecutive == Spec => []SeqsConsecutive
<1>1. Init => TypeOK /\ ControlOK /\ SeqInv
  BY InitType, InitSeq
<1>2. TypeOK /\ ControlOK /\ SeqInv /\ [Next]_vars => (TypeOK /\ ControlOK /\ SeqInv)'
  BY TypeStep, ControlStep, SeqStep
<1>3. SeqInv => SeqsConsecutive
  BY DEF SeqInv
<1> QED BY <1>1, <1>2, <1>3, PTL DEF Spec

(***************************************************************************)
(* The anchors of the episodes, for any number of recorders.               *)
(***************************************************************************)

LEMMA SumRange == \A a, b \in Nat : \A i \in 1 .. b : a + i \in 1 .. a + b /\ (a + i) - a = i
OBVIOUS

LEMMA RangeGrows == \A a, b \in Nat : \A i \in 1 .. a : i \in 1 .. a + b
OBVIOUS

(* The elements of a concatenation.                                        *)
LEMMA Concatenation ==
  ASSUME NEW s \in Seq(Row), NEW t \in Seq(Row)
  PROVE  /\ s \o t \in Seq(Row)
         /\ Len(s \o t) = Len(s) + Len(t)
         /\ \A k \in 1 .. Len(s) : (s \o t)[k] = s[k]
         /\ \A i \in 1 .. Len(t) : (s \o t)[Len(s) + i] = t[i]
<1>1. Len(s) \in Nat /\ Len(t) \in Nat
  OBVIOUS
<1>2. s \o t \in Seq(Row) /\ Len(s \o t) = Len(s) + Len(t)
  OBVIOUS
<1>3. ASSUME NEW k \in 1 .. Len(s)
      PROVE  (s \o t)[k] = s[k]
  <2>1. k \in 1 .. Len(s) + Len(t) /\ k <= Len(s)
    BY <1>1, RangeGrows
  <2> QED BY <1>1, <2>1
<1>4. ASSUME NEW i \in 1 .. Len(t)
      PROVE  (s \o t)[Len(s) + i] = t[i]
  <2>1. Len(s) + i \in 1 .. Len(s) + Len(t) /\ (Len(s) + i) - Len(s) = i
    BY <1>1, SumRange
  <2>2. ~(Len(s) + i <= Len(s))
    BY <1>1
  <2> QED BY <1>1, <2>1, <2>2
<1> QED BY <1>2, <1>3, <1>4

(* A row keeps its place in the log.                                       *)
LEMMA LogKeepsRows ==
  ASSUME TypeOK, [Next]_vars, NEW ep \in Episode, NEW k \in 1 .. Len(log[ep])
  PROVE  log'[ep][k] = log[ep][k]
<1>1. CASE log' = log
  BY <1>1
<1>2. ASSUME NEW r \in Recorder, Commit(r) \/ CommitUnknown(r)
      PROVE  log'[ep][k] = log[ep][k]
  <2>1. log'[ep] = log[ep] \o rows[r][ep]
    BY <1>2 DEF Commit, CommitUnknown, AppendRows
  <2>2. log[ep] \in Seq(Row) /\ rows[r][ep] \in Seq(Row)
    BY DEF TypeOK
  <2>3. (log[ep] \o rows[r][ep])[k] = log[ep][k]
    BY <2>2, Concatenation
  <2> QED BY <2>1, <2>3
<1> QED BY <1>1, <1>2, OnlyCommitAppends

(* A row that a flush appended stands in the log where its number says.    *)
LEMMA AppendedRow ==
  ASSUME TypeOK, SeqInv, NEW r \in Recorder, pc[r] = "build", Fresh(r), AppendRows(r),
         NEW ep \in Episode, NEW i \in 1 .. Len(rows[r][ep])
  PROVE  /\ rows[r][ep][i].seq = Len(log[ep]) + i - 1
         /\ log'[ep][Len(log[ep]) + i] = rows[r][ep][i]
<1>1. log[ep] \in Seq(Row) /\ rows[r][ep] \in Seq(Row)
  BY DEF TypeOK
<1>2. log'[ep] = log[ep] \o rows[r][ep]
  BY DEF AppendRows
<1>3. InStep(r, ep)
  BY FreshInStep
<1>4. (log[ep] \o rows[r][ep])[Len(log[ep]) + i] = rows[r][ep][i]
  BY <1>1, Concatenation
<1>5. rows[r][ep][i].seq = Len(log[ep]) + i - 1
  BY <1>3 DEF InStep, Follow
<1> QED BY <1>2, <1>4, <1>5

(* Only a commit brings a recorder to write anchors.                       *)
LEMMA HeadsOnlyAfterCommit ==
  ASSUME TypeOK, [Next]_vars, NEW q \in Recorder, pc'[q] = "heads"
  PROVE  (pc[q] = "heads" /\ rows'[q] = rows[q]) \/ Commit(q)
<1> USE DEF recorderVars, drainVars, dbVars, historyVars
<1>1. CASE UNCHANGED vars
  BY <1>1 DEF vars
<1>2. ASSUME NEW r \in Recorder,
             \/ Connect(r) \/ Caller(r) \/ Cancel(r)
             \/ \E e \in Episode : NoteLoss(r, e)
      PROVE  pc' = pc /\ rows' = rows
  BY <1>2 DEF Connect, ConnectOK, ConnectFails, Caller, Enqueue, Refuse, NoteLoss, Cancel
<1>3. ASSUME NEW r \in Recorder, Reset(r) \/ Crash(r)
      PROVE  pc[q] = "heads" /\ rows'[q] = rows[q]
  <2>1. q # r
    BY <1>3 DEF Reset, Crash, TypeOK
  <2> QED BY <1>3, <2>1 DEF Reset, Crash, TypeOK
<1>4. ASSUME NEW r \in Recorder, Drain(r), q # r
      PROVE  pc[q] = "heads" /\ rows'[q] = rows[q]
  BY <1>4, DrainTouchesOwn
<1>5. ASSUME Drain(q)
      PROVE  (pc[q] = "heads" /\ rows'[q] = rows[q]) \/ Commit(q)
  <2>1. CASE Take(q) \/ DrainRest(q)
    BY <2>1 DEF Take, DrainRest
  <2>2. CASE Flush(q)
    BY <2>2 DEF Flush, TypeOK
  <2>3. CASE CacheHit(q)
    BY <2>3 DEF CacheHit, TypeOK
  <2>4. CASE ReadTail(q)
    BY <2>4 DEF ReadTail, TypeOK
  <2>5. CASE ReadAnchor(q) \/ ReadAnchorFails(q)
    BY <2>5 DEF ReadAnchor, ReadAnchorFails, CacheHead, TypeOK
  <2>6. CASE Extend(q)
    BY <2>6 DEF Extend, TypeOK
  <2>7. CASE CommitCollides(q) \/ FlushFails(q) \/ CommitUnknown(q)
    BY <2>7 DEF CommitCollides, FlushFails, CommitUnknown, CarryLoss, AfterFlush, TypeOK
  <2>8. CASE \E e \in Episode : WriteHead(q, e) \/ WriteHeadFails(q, e)
    BY <2>8 DEF WriteHead, WriteHeadFails, HeadWritten, AfterFlush, TypeOK
  <2> QED BY <1>5, <2>1, <2>2, <2>3, <2>4, <2>5, <2>6, <2>7, <2>8 DEF Drain
<1> QED BY <1>1, <1>2, <1>3, <1>4, <1>5 DEF Next

LEMMA AnchorStep ==
  TypeOK /\ ControlOK /\ SeqInv /\ AnchorInv /\ [Next]_vars => AnchorInv'
<1> SUFFICES ASSUME TypeOK, ControlOK, SeqInv, AnchorInv, [Next]_vars
             PROVE  AnchorInv'
  OBVIOUS
<1>1. ASSUME NEW ep \in Episode
      PROVE  AnchorNamesRow(ep)'
  <2>1. ASSUME anchor'[ep] = anchor[ep], anchor[ep] # NoHead
        PROVE  anchor'[ep].hash = HashOf(log'[ep][anchor'[ep].seq + 1])
    <3>1. anchor[ep].seq \in Nat /\ anchor[ep].seq < Len(log[ep])
      BY <2>1 DEF SeqInv, AnchorInLog, TypeOK
    <3>2. anchor[ep].seq + 1 \in 1 .. Len(log[ep])
      BY <3>1, LogLen
    <3>3. log'[ep][anchor[ep].seq + 1] = log[ep][anchor[ep].seq + 1]
      BY <3>2, LogKeepsRows
    <3> QED BY <2>1, <3>3 DEF AnchorInv, AnchorNamesRow
  <2>2. ASSUME NEW r \in Recorder, WriteHead(r, ep)
        PROVE  anchor'[ep].hash = HashOf(log'[ep][anchor'[ep].seq + 1])
    <3>1. /\ pc[r] = "heads" /\ ep \in heads[r] /\ log' = log
          /\ anchor' = [anchor EXCEPT ![ep] = AnchorFor(r, ep)]
      BY <2>2 DEF WriteHead, HeadWritten
    <3>2. rows[r][ep] # <<>> /\ rows[r][ep] \in Seq(Row)
      BY <3>1 DEF ControlOK, Control, TypeOK
    <3>3. Len(rows[r][ep]) \in DOMAIN rows[r][ep]
      BY <3>2
    <3>4. NewestRow(r, ep) = log[ep][NewestRow(r, ep).seq + 1]
      BY <3>1, <3>3 DEF AnchorInv, RowsInLog, NewestRow
    <3>5. anchor'[ep] = AnchorFor(r, ep)
      BY <3>1 DEF TypeOK
    <3>6. anchor'[ep].seq = NewestRow(r, ep).seq /\ anchor'[ep].hash = HashOf(NewestRow(r, ep))
      BY <3>5 DEF AnchorFor
    <3> QED BY <3>1, <3>4, <3>6
  <2>3. anchor'[ep] = anchor[ep] \/ \E r \in Recorder : WriteHead(r, ep)
    BY OnlyWriteHeadAnchors DEF WriteHead, TypeOK
  <2> QED BY <2>1, <2>2, <2>3 DEF AnchorNamesRow
<1>2. ASSUME NEW q \in Recorder, NEW ep \in Episode, pc'[q] = "heads",
             NEW i \in DOMAIN rows'[q][ep]
      PROVE  rows'[q][ep][i] = log'[ep][rows'[q][ep][i].seq + 1]
  <2>1. CASE pc[q] = "heads" /\ rows'[q] = rows[q]
    <3>1. rows[q][ep][i] \in Row /\ rows[q][ep][i].seq < Len(log[ep])
      BY <2>1, <1>2 DEF SeqInv, SeqAt, TypeOK
    <3>2. rows[q][ep][i].seq + 1 \in 1 .. Len(log[ep])
      BY <3>1, LogLen DEF Row
    <3>3. log'[ep][rows[q][ep][i].seq + 1] = log[ep][rows[q][ep][i].seq + 1]
      BY <3>2, LogKeepsRows
    <3> QED BY <2>1, <1>2, <3>3 DEF AnchorInv, RowsInLog
  <2>2. CASE Commit(q)
    <3>1. pc[q] = "build" /\ Fresh(q) /\ AppendRows(q) /\ rows' = rows
      BY <2>2 DEF Commit, Built
    <3>2. rows[q][ep] \in Seq(Row)
      BY DEF TypeOK
    <3>3. i \in 1 .. Len(rows[q][ep])
      BY <1>2, <3>1, <3>2
    <3>4. rows[q][ep][i].seq + 1 = Len(log[ep]) + i
      BY <3>1, <3>3, AppendedRow, LogLen
    <3> QED BY <3>1, <3>3, <3>4, AppendedRow
  <2> QED BY <1>2, <2>1, <2>2, HeadsOnlyAfterCommit
<1> QED BY <1>1, <1>2 DEF AnchorInv, RowsInLog

LEMMA InitAnchor == Init => AnchorInv
BY DEF Init, AnchorInv, AnchorNamesRow, RowsInLog, NoHeads

(* An anchor that names a row of the log does not accuse the log.          *)
LEMMA NamedRowIsTruthful ==
  ASSUME TypeOK, SeqInv, AnchorInv
  PROVE  AnchorTruthful
<1> SUFFICES ASSUME NEW ep \in Episode, anchor[ep] # NoHead
             PROVE  HeadValid(log[ep], anchor[ep])
  BY DEF AnchorTruthful, HeadValid
<1>1. anchor[ep].seq \in Nat /\ anchor[ep].seq < Len(log[ep])
  BY DEF SeqInv, AnchorInLog, TypeOK
<1>2. log[ep] \in Seq(Row) /\ Len(log[ep]) \in Nat
  BY LogLen
<1>3. log[ep] # <<>> /\ Len(log[ep]) \in 1 .. Len(log[ep])
  BY <1>1, <1>2
<1>4. log[ep][Len(log[ep])].seq = Len(log[ep]) - 1
  BY <1>3 DEF SeqInv, SeqsConsecutive
<1>5. CASE anchor[ep].seq = Len(log[ep]) - 1
  <2>1. anchor[ep].seq + 1 = Len(log[ep])
    BY <1>2, <1>5
  <2>2. anchor[ep].hash = HashOf(log[ep][Len(log[ep])])
    BY <2>1 DEF AnchorInv, AnchorNamesRow
  <2> QED BY <1>3, <1>4, <1>5, <2>2 DEF HeadValid
<1>6. CASE anchor[ep].seq < Len(log[ep]) - 1
  BY <1>3, <1>4, <1>6 DEF HeadValid
<1> QED BY <1>1, <1>2, <1>5, <1>6

(* Any number of recorders: between no two steps of their flushes does the *)
(* anchor of an episode accuse its chain of having lost its newest rows,   *)
(* and it agrees with the row it names (insert, headIntegrity).            *)
THEOREM AnchorAlwaysTruthful == Spec => []AnchorTruthful
<1>1. Init => TypeOK /\ ControlOK /\ SeqInv /\ AnchorInv
  BY InitType, InitSeq, InitAnchor
<1>2. TypeOK /\ ControlOK /\ SeqInv /\ AnchorInv /\ [Next]_vars
        => (TypeOK /\ ControlOK /\ SeqInv /\ AnchorInv)'
  BY TypeStep, ControlStep, SeqStep, AnchorStep
<1>3. TypeOK /\ SeqInv /\ AnchorInv => AnchorTruthful
  BY NamedRowIsTruthful
<1> QED BY <1>1, <1>2, <1>3, PTL DEF Spec

(***************************************************************************)
(* The links of an episode's chain, for the one recorder r of a database.  *)
(***************************************************************************)

(* With one recorder, the anchor never makes it skip a number.             *)
LEMMA AnchorIsBehind ==
  ASSUME TypeOK, SeqInv, NEW ep \in Episode
  PROVE  PastAnchor(TailOf(log[ep]), anchor[ep]) = TailOf(log[ep])
<1>1. TailOf(log[ep]).seq = Len(log[ep]) /\ Len(log[ep]) \in Nat
  BY TailSeq, LogLen DEF SeqInv
<1>2. anchor[ep] # NoHead => anchor[ep].seq \in Nat /\ anchor[ep].seq < Len(log[ep])
  BY DEF SeqInv, AnchorInLog, TypeOK
<1>3. ~(anchor[ep] # NoHead /\ anchor[ep].seq + 1 > TailOf(log[ep]).seq)
  BY <1>1, <1>2
<1> QED BY <1>3 DEF PastAnchor

(* The head after the last row, and the end of a concatenation.            *)
LEMMA TailOfAppend ==
  ASSUME NEW s \in Seq(Row), NEW row \in Row
  PROVE  TailOf(Append(s, row)) = [seq |-> row.seq + 1, hash |-> HashOf(row)]
BY LastOfAppend DEF TailOf

LEMMA TailOfConcatenation ==
  ASSUME NEW s \in Seq(Row), NEW t \in Seq(Row), t # <<>>
  PROVE  TailOf(s \o t) = TailOf(t)
<1>1. Len(t) \in 1 .. Len(t) /\ Len(s) \in Nat
  OBVIOUS
<1>2. (s \o t)[Len(s) + Len(t)] = t[Len(t)] /\ Len(s \o t) = Len(s) + Len(t)
  BY <1>1, Concatenation
<1>3. s \o t # <<>>
  <2>1. Len(s \o t) # 0
    BY <1>1, <1>2
  <2>2. Len(<<>>) = 0
    OBVIOUS
  <2> QED BY <2>1, <2>2
<1> QED BY <1>2, <1>3 DEF TailOf

(* Adding a row to linked rows, and appending linked rows to a linked log. *)
LEMMA ExtendLinks ==
  ASSUME NEW s \in Seq(Row), NEW row \in Row, NEW h, Linked(s, h),
         row.prev = (IF s = <<>> THEN h ELSE TailOf(s)).hash
  PROVE  Linked(Append(s, row), h)
<1> DEFINE t == Append(s, row)
<1>1. /\ Len(t) = Len(s) + 1 /\ t[Len(s) + 1] = row
      /\ \A i \in 1 .. Len(s) : t[i] = s[i]
      /\ Len(s) \in Nat
  OBVIOUS
<1> HIDE DEF t
<1>2. ASSUME NEW i \in 1 .. Len(s) + 1
      PROVE  t[i].prev = IF i = 1 THEN h.hash ELSE HashOf(t[i - 1])
  <2>1. CASE i \in 1 .. Len(s)
    <3>1. i # 1 => i - 1 \in 1 .. Len(s)
      BY <1>1, <2>1
    <3> QED BY <1>1, <2>1, <3>1 DEF Linked
  <2>2. CASE i = Len(s) + 1 /\ s = <<>>
    <3>1. Len(s) = 0
      BY <2>2
    <3> QED BY <1>1, <2>2, <3>1
  <2>3. CASE i = Len(s) + 1 /\ s # <<>>
    <3>1. Len(s) \in 1 .. Len(s) /\ i # 1 /\ i - 1 = Len(s)
      BY <1>1, <2>3
    <3>2. t[i - 1] = s[Len(s)]
      BY <1>1, <3>1
    <3>3. row.prev = HashOf(s[Len(s)])
      BY <2>3 DEF TailOf
    <3> QED BY <1>1, <2>3, <3>1, <3>2, <3>3
  <2> QED BY <1>1, <2>1, <2>2, <2>3
<1> QED BY <1>1, <1>2 DEF Linked, t

LEMMA JoinLinks ==
  ASSUME NEW s \in Seq(Row), NEW t \in Seq(Row), NEW h,
         Linked(s, h), Linked(t, IF s = <<>> THEN h ELSE TailOf(s))
  PROVE  Linked(s \o t, h)
<1> DEFINE u == s \o t
<1>1. Len(s) \in Nat /\ Len(t) \in Nat
  OBVIOUS
<1>2. /\ Len(u) = Len(s) + Len(t)
      /\ \A k \in 1 .. Len(s) : u[k] = s[k]
      /\ \A i \in 1 .. Len(t) : u[Len(s) + i] = t[i]
  BY Concatenation
<1> HIDE DEF u
<1>3. ASSUME NEW i \in 1 .. Len(s) + Len(t)
      PROVE  u[i].prev = IF i = 1 THEN h.hash ELSE HashOf(u[i - 1])
  <2>1. CASE i \in 1 .. Len(s)
    <3>1. i # 1 => i - 1 \in 1 .. Len(s)
      BY <1>1, <2>1
    <3> QED BY <1>2, <2>1, <3>1 DEF Linked
  <2>2. CASE i > Len(s)
    <3> DEFINE j == i - Len(s)
    <3>1. j \in 1 .. Len(t) /\ i = Len(s) + j
      BY <1>1, <2>2
    <3> HIDE DEF j
    <3>2. u[i] = t[j]
      BY <1>2, <3>1
    <3>3. t[j].prev = IF j = 1 THEN (IF s = <<>> THEN h ELSE TailOf(s)).hash
                      ELSE HashOf(t[j - 1])
      BY <3>1 DEF Linked
    <3>4. CASE j = 1 /\ s = <<>>
      <4>1. Len(s) = 0
        BY <3>4
      <4> QED BY <3>1, <3>2, <3>3, <3>4, <4>1
    <3>5. CASE j = 1 /\ s # <<>>
      <4>1. Len(s) \in 1 .. Len(s) /\ i # 1 /\ i - 1 = Len(s)
        BY <1>1, <3>1, <3>5
      <4>2. u[i - 1] = s[Len(s)]
        BY <1>2, <4>1
      <4>3. t[j].prev = HashOf(s[Len(s)])
        BY <3>3, <3>5 DEF TailOf
      <4> QED BY <3>2, <4>1, <4>2, <4>3
    <3>6. CASE j # 1
      <4>1. j - 1 \in 1 .. Len(t) /\ i # 1 /\ i - 1 = Len(s) + (j - 1)
        BY <1>1, <3>1, <3>6
      <4>2. u[i - 1] = t[j - 1]
        BY <1>2, <4>1
      <4> QED BY <3>2, <3>3, <3>6, <4>1, <4>2
    <3> QED BY <3>4, <3>5, <3>6
  <2> QED BY <1>1, <2>1, <2>2
<1> QED BY <1>2, <1>3 DEF Linked, u

LEMMA ChainIsLinked ==
  ASSUME NEW s \in Seq(Row)
  PROVE  VerifyChain(s, 0, Genesis)
           <=> (\A i \in 1 .. Len(s) : s[i].seq = i - 1) /\ Linked(s, TailOf(<<>>))
<1>1. TailOf(<<>>) = [seq |-> 0, hash |-> Genesis]
  BY DEF TailOf
<1>2. TailOf(<<>>).hash = Genesis
  BY <1>1
<1>3. \A i \in 1 .. Len(s) : 0 + i - 1 = i - 1
  OBVIOUS
<1> QED BY <1>2, <1>3 DEF VerifyChain, Linked

(* A flush the unique constraint accepts continues the log in its links.   *)
LEMMA FreshContinues ==
  ASSUME TypeOK, SeqInv, NEW r \in Recorder, ChainInv(r), pc[r] = "build", Fresh(r),
         NEW ep \in Episode
  PROVE  Continues(r, ep) /\ ~Doomed(r, ep)
<1>1. InStep(r, ep)
  BY FreshInStep
<1>2. NoDuplicate(rows[r][ep])
  BY DEF Fresh
<1>3. rows[r][ep] \in Seq(Row) /\ Len(log[ep]) \in Nat
  BY LogLen DEF TypeOK
<1>4. \A i \in DOMAIN rows[r][ep] : ~(rows[r][ep][i].seq < Len(log[ep]))
  BY SMTT(30), <1>1, <1>3 DEF InStep, Follow
<1>5. ~Doomed(r, ep)
  BY <1>2, <1>4 DEF Doomed, Collide
<1> QED BY <1>5 DEF ChainInv, LinkAt, Building

LEMMA AppendVerifies ==
  ASSUME TypeOK, SeqInv, NEW r \in Recorder, ChainInv(r), pc[r] = "build", Fresh(r),
         AppendRows(r), TypeOK'
  PROVE  ChainVerifies'
<1> SUFFICES ASSUME NEW ep \in Episode
             PROVE  VerifyChain(log'[ep], 0, Genesis)
  BY DEF ChainVerifies
<1>1. PICK s \in Seq(Row), t \in Seq(Row), u \in Seq(Row) :
        s = log[ep] /\ t = rows[r][ep] /\ u = log'[ep]
  BY DEF TypeOK
<1>2. u = s \o t
  BY <1>1 DEF AppendRows
<1>3. Linked(t, TailOf(s))
  BY <1>1, FreshContinues DEF Continues
<1>4. VerifyChain(s, 0, Genesis)
  BY <1>1 DEF ChainInv, ChainVerifies
<1>5. Linked(s, TailOf(<<>>))
  BY <1>4, ChainIsLinked
<1>6. Linked(t, IF s = <<>> THEN TailOf(<<>>) ELSE TailOf(s))
  BY <1>3
<1>7. Linked(u, TailOf(<<>>))
  BY <1>2, <1>5, <1>6, JoinLinks
<1>8. \A i \in 1 .. Len(u) : u[i].seq = i - 1
  BY <1>1, AppendInStep DEF SeqsConsecutive
<1>9. VerifyChain(u, 0, Genesis)
  BY <1>7, <1>8, ChainIsLinked
<1> QED BY <1>1, <1>9

(* What holds of an episode keeps holding while nothing of it is built,    *)
(* read or written.                                                        *)
LEMMA LinkFrame ==
  ASSUME NEW r \in Recorder, NEW ep \in Episode, LinkAt(r, ep),
         chains'[r][ep] \in {chains[r][ep], NoHead},
         pc'[r] = pc[r], cur'[r] = cur[r], rows'[r] = rows[r], log'[ep] = log[ep]
  PROVE  LinkAt(r, ep)'
BY DEF LinkAt, Building, Doomed, InStep, Continues

LEMMA LinkAfterFlush ==
  ASSUME NEW r \in Recorder, NEW ep \in Episode, ~Building(r)',
         chains'[r][ep] # NoHead => chains'[r][ep] = TailOf(log'[ep])
  PROVE  LinkAt(r, ep)'
BY DEF LinkAt, Building

LEMMA LinkFlush ==
  ASSUME TypeOK, ControlOK, NEW r \in Recorder, NEW ep \in Episode,
         LinkAt(r, ep), Flush(r)
  PROVE  LinkAt(r, ep)'
<1>1. pc[r] = "idle" /\ pc'[r] = "build" /\ chains' = chains /\ rows' = rows /\ log' = log
  BY DEF Flush, TypeOK, dbVars
<1>2. rows[r][ep] = <<>>
  BY <1>1 DEF ControlOK, Control, NoRows
<1>3. chains[r][ep] # NoHead => chains[r][ep] = TailOf(log[ep])
  BY <1>1 DEF LinkAt, Building
<1> QED BY <1>1, <1>2, <1>3 DEF LinkAt, Building, InStep, Follow, Continues, Linked

LEMMA LinkCacheHit ==
  ASSUME TypeOK, NEW r \in Recorder, NEW ep \in Episode, ChainInv(r), CacheHit(r)
  PROVE  LinkAt(r, ep)'
<1>1. /\ pc[r] = "build" /\ pc'[r] = "extend"
      /\ chains' = chains /\ rows' = rows /\ log' = log
  BY DEF CacheHit, TypeOK, recorderVars, dbVars
<1>2. PICK it \in NextItems(r) :
        /\ chains[r][it.ep] # NoHead
        /\ cur' = [cur EXCEPT ![r] = [item |-> it, head |-> chains[r][it.ep]]]
  BY DEF CacheHit
<1>3. cur'[r].item.ep = it.ep /\ cur'[r].head = chains[r][it.ep]
  <2>1. cur'[r] = [item |-> it, head |-> chains[r][it.ep]]
    BY <1>2 DEF TypeOK
  <2> QED BY <2>1
<1>4. LinkAt(r, ep)
  BY DEF ChainInv
<1>5. it.ep = ep => \/ chains[r][ep] = TailOf(log[ep])
                    \/ Doomed(r, ep)
                    \/ rows[r][ep] # <<>> /\ chains[r][ep] = TailOf(rows[r][ep])
  BY <1>1, <1>2, <1>4 DEF LinkAt, Building
<1>6. (Doomed(r, ep) <=> Doomed(r, ep)') /\ (Continues(r, ep) <=> Continues(r, ep)')
  BY <1>1 DEF Doomed, InStep, Continues
<1> QED BY <1>1, <1>3, <1>4, <1>5, <1>6 DEF LinkAt, Building

LEMMA LinkReadTail ==
  ASSUME TypeOK, NEW r \in Recorder, NEW ep \in Episode, ChainInv(r), ReadTail(r)
  PROVE  LinkAt(r, ep)'
<1>1. /\ pc[r] = "build" /\ pc'[r] = "anchor"
      /\ chains' = chains /\ rows' = rows /\ log' = log
  BY DEF ReadTail, TypeOK, recorderVars, dbVars
<1>2. PICK it \in NextItems(r) :
        cur' = [cur EXCEPT ![r] = [item |-> it, head |-> TailOf(log[it.ep])]]
  BY DEF ReadTail
<1>3. cur'[r].item.ep = it.ep /\ cur'[r].head = TailOf(log[it.ep])
  <2>1. cur'[r] = [item |-> it, head |-> TailOf(log[it.ep])]
    BY <1>2 DEF TypeOK
  <2> QED BY <2>1
<1>4. LinkAt(r, ep)
  BY DEF ChainInv
<1>6. (Doomed(r, ep) <=> Doomed(r, ep)') /\ (Continues(r, ep) <=> Continues(r, ep)')
  BY <1>1 DEF Doomed, InStep, Continues
<1> QED BY <1>1, <1>3, <1>4, <1>6 DEF LinkAt, Building

LEMMA LinkReadAnchor ==
  ASSUME TypeOK, ControlOK, SeqInv, NEW r \in Recorder, NEW ep \in Episode, ChainInv(r),
         ReadAnchor(r) \/ ReadAnchorFails(r)
  PROVE  LinkAt(r, ep)'
<1>1. /\ pc[r] = "anchor" /\ pc'[r] = "extend" /\ rows' = rows /\ log' = log
  BY DEF ReadAnchor, ReadAnchorFails, CacheHead, TypeOK, dbVars
<1>2. cur[r] \in [item : Item, head : ChainHead] /\ cur[r].item.ep \in Episode
  BY <1>1 DEF TypeOK, ControlOK, Control, Item
<1>a. PICK e \in Episode : e = cur[r].item.ep
  BY <1>2
<1>3. cur[r].head = TailOf(log[e])
  BY <1>1, <1>a DEF ChainInv, LinkAt
<1>4. CacheHead(r, TailOf(log[e]))
  BY <1>3, <1>a, AnchorIsBehind DEF ReadAnchor, ReadAnchorFails
<1>5. cur'[r] = [item |-> cur[r].item, head |-> TailOf(log[e])]
  BY <1>2, <1>4 DEF CacheHead, TypeOK
<1>6. cur'[r].item.ep = e /\ cur'[r].head = TailOf(log[e])
  BY <1>5, <1>a
<1>7. chains'[r] = [chains[r] EXCEPT ![e] = TailOf(log[e])]
  BY <1>4, <1>a DEF CacheHead, TypeOK
<1>8. chains'[r][e] = TailOf(log[e]) /\ (ep # e => chains'[r][ep] = chains[r][ep])
  BY <1>7 DEF TypeOK
<1>9. LinkAt(r, ep)
  BY DEF ChainInv
<1>10. (Doomed(r, ep) <=> Doomed(r, ep)') /\ (Continues(r, ep) <=> Continues(r, ep)')
  BY <1>1 DEF Doomed, InStep, Continues
<1> QED BY <1>1, <1>6, <1>8, <1>9, <1>10 DEF LinkAt, Building

LEMMA CollideStays ==
  ASSUME NEW s \in Seq(Row), NEW row \in Row, NEW n \in Nat, Collide(s, n)
  PROVE  Collide(Append(s, row), n)
<1> DEFINE t == Append(s, row)
<1>1. DOMAIN s \subseteq DOMAIN t /\ \A i \in DOMAIN s : t[i] = s[i]
  OBVIOUS
<1> HIDE DEF t
<1>2. Collide(t, n)
  BY <1>1 DEF Collide, NoDuplicate
<1> QED BY <1>2 DEF t

(* A row that continues the log or the rows built keeps them linked.       *)
LEMMA ExtendChain ==
  ASSUME NEW s \in Seq(Row), NEW row \in Row, NEW g \in Seq(Row),
         TailOf(g).seq = Len(g),
         Collide(s, Len(g)) \/ (Follow(s, Len(g)) /\ Linked(s, TailOf(g))),
         NEW h, h.seq = row.seq, h.hash = row.prev,
         h = TailOf(g) \/ Collide(s, Len(g)) \/ (s # <<>> /\ h = TailOf(s))
  PROVE  \/ Collide(Append(s, row), Len(g))
         \/ Follow(Append(s, row), Len(g)) /\ Linked(Append(s, row), TailOf(g))
<1>1. Len(g) \in Nat /\ Len(s) \in Nat /\ row.seq \in Nat
  BY DEF Row
<1>2. CASE Collide(s, Len(g))
  BY <1>1, <1>2, CollideStays
<1>3. CASE Follow(s, Len(g)) /\ Linked(s, TailOf(g)) /\ h = TailOf(g)
  <2>1. Collide(Append(s, row), Len(g)) \/ Follow(Append(s, row), Len(g))
    BY <1>1, <1>3, ExtendRows
  <2>2. CASE s = <<>>
    <3>1. Linked(Append(s, row), TailOf(g))
      BY <1>3, <2>2, ExtendLinks
    <3> QED BY <2>1, <3>1
  <2>3. CASE s # <<>> /\ Follow(Append(s, row), Len(g))
    <3>1. Len(s) + 1 \in 1 .. Len(Append(s, row)) /\ Append(s, row)[Len(s) + 1] = row
      BY <1>1
    <3>2. row.seq = Len(g) + (Len(s) + 1) - 1
      BY <2>3, <3>1 DEF Follow
    <3>3. Len(s) # 0
      BY <2>3
    <3> QED BY <1>1, <1>3, <3>2, <3>3
  <2> QED BY <2>1, <2>2, <2>3
<1>4. CASE Follow(s, Len(g)) /\ Linked(s, TailOf(g)) /\ s # <<>> /\ h = TailOf(s)
  <2>1. row.seq = s[Len(s)].seq + 1
    BY <1>4 DEF TailOf
  <2>2. Collide(Append(s, row), Len(g)) \/ Follow(Append(s, row), Len(g))
    BY <1>1, <1>4, <2>1, ExtendRows
  <2>3. Linked(Append(s, row), TailOf(g))
    BY <1>4, ExtendLinks
  <2> QED BY <2>2, <2>3
<1> QED BY <1>2, <1>3, <1>4

LEMMA LinkExtend ==
  ASSUME TypeOK, ControlOK, SeqInv, NEW r \in Recorder, NEW ep \in Episode, ChainInv(r),
         Extend(r)
  PROVE  LinkAt(r, ep)'
<1>1. pc[r] = "extend" /\ pc'[r] = "build" /\ log' = log
  BY DEF Extend, TypeOK, dbVars
<1>a. PICK e \in Episode : e = cur[r].item.ep
  BY <1>1, BuiltRowType DEF BuiltRow
<1>b. PICK row \in Row : row = BuiltRow(r)
  BY <1>1, BuiltRowType
<1>c. PICK s \in Seq(Row), g \in Seq(Row) : s = rows[r][e] /\ g = log[e]
  BY DEF TypeOK
<1>2. rows'[r] = [rows[r] EXCEPT ![e] = Append(s, row)]
  BY <1>a, <1>b, <1>c DEF Extend, BuiltRow, TypeOK
<1>3. chains'[r] = [chains[r] EXCEPT ![e] = [seq |-> row.seq + 1, hash |-> HashOf(row)]]
  BY <1>a, <1>b DEF Extend, BuiltRow, TypeOK
<1>4. /\ rows'[r][e] = Append(s, row)
      /\ chains'[r][e] = [seq |-> row.seq + 1, hash |-> HashOf(row)]
      /\ ep # e => rows'[r][ep] = rows[r][ep] /\ chains'[r][ep] = chains[r][ep]
  BY <1>2, <1>3 DEF TypeOK
<1>5. LinkAt(r, ep) /\ LinkAt(r, e)
  BY DEF ChainInv
<1>6. CASE ep # e
  BY <1>1, <1>4, <1>5, <1>6, <1>a DEF LinkAt, Building, Doomed, InStep, Continues
<1>7. CASE ep = e
  <2>1. cur[r].head.seq = row.seq /\ cur[r].head.hash = row.prev
    BY <1>b DEF BuiltRow
  <2>2. TailOf(g).seq = Len(g)
    BY <1>c, TailSeq DEF SeqInv
  <2>3. Collide(s, Len(g)) \/ (Follow(s, Len(g)) /\ Linked(s, TailOf(g)))
    BY <1>1, <1>5, <1>c DEF LinkAt, Building, Doomed, InStep, Continues
  <2>4. \/ cur[r].head = TailOf(g) \/ Collide(s, Len(g))
        \/ s # <<>> /\ cur[r].head = TailOf(s)
    BY <1>1, <1>5, <1>a, <1>c DEF LinkAt, Doomed
  <2>5. \/ Collide(Append(s, row), Len(g))
        \/ Follow(Append(s, row), Len(g)) /\ Linked(Append(s, row), TailOf(g))
    BY <2>1, <2>2, <2>3, <2>4, ExtendChain
  <2>6. Doomed(r, e)' \/ Continues(r, e)'
    BY <1>1, <1>4, <1>c, <2>5 DEF Doomed, InStep, Continues
  <2>7. chains'[r][e] = TailOf(rows'[r][e])
    BY <1>4, TailOfAppend
  <2>8. rows'[r][e] # <<>>
    BY <1>4, LastOfAppend
  <2> QED BY <1>1, <1>7, <2>6, <2>7, <2>8 DEF LinkAt, Building
<1> QED BY <1>6, <1>7

LEMMA LinkCommit ==
  ASSUME TypeOK, SeqInv, NEW r \in Recorder, NEW ep \in Episode, ChainInv(r), Commit(r)
  PROVE  LinkAt(r, ep)'
<1>1. /\ pc[r] = "build" /\ pc'[r] = "heads" /\ chains' = chains
      /\ Fresh(r) /\ AppendRows(r)
  BY DEF Commit, Built, TypeOK, recorderVars
<1>2. PICK s \in Seq(Row), t \in Seq(Row) : s = log[ep] /\ t = rows[r][ep]
  BY DEF TypeOK
<1>3. log'[ep] = s \o t
  BY <1>1, <1>2 DEF AppendRows
<1>4. LinkAt(r, ep) /\ ~Doomed(r, ep)
  BY <1>1, FreshContinues DEF ChainInv
<1>5. chains[r][ep] # NoHead => chains[r][ep] = TailOf(s \o t)
  <2>1. CASE t = <<>>
    <3>1. s \o t = s
      BY <2>1
    <3> QED BY <1>1, <1>2, <1>4, <2>1, <3>1 DEF LinkAt, Building
  <2>2. CASE t # <<>>
    BY <1>1, <1>2, <1>4, <2>2, TailOfConcatenation DEF LinkAt, Building
  <2> QED BY <2>1, <2>2
<1> QED BY <1>1, <1>3, <1>5, LinkAfterFlush DEF Building

LEMMA LinkCarryLoss ==
  ASSUME TypeOK, ControlOK, NEW r \in Recorder, NEW ep \in Episode, ChainInv(r),
         pc[r] = "build", CarryLoss(r), log' = log \/ AppendRows(r)
  PROVE  LinkAt(r, ep)'
<1>1. pc'[r] \in {"idle", "exited"} /\ chains'[r][ep] = HeadAfterLoss(r, ep)
  BY DEF CarryLoss, AfterFlush, TypeOK
<1>2. ASSUME chains'[r][ep] # NoHead
      PROVE  chains'[r][ep] = TailOf(log'[ep])
  <2>1. chains'[r][ep] = chains[r][ep] /\ ~(gaps[r][ep] + CountOf(batch[r], ep) > 0)
    BY <1>1, <1>2 DEF HeadAfterLoss
  <2>2. ~InBatch(r, ep)
    BY <2>1, InBatchCounts
  <2>3. rows[r][ep] = <<>>
    BY <2>2 DEF ControlOK, Control, Building
  <2>4. chains[r][ep] = TailOf(log[ep])
    BY <1>2, <2>1, <2>3 DEF ChainInv, LinkAt
  <2>5. log'[ep] = log[ep]
    <3>1. log[ep] \in Seq(Row)
      BY DEF TypeOK
    <3>2. log[ep] \o <<>> = log[ep]
      BY <3>1
    <3> QED BY <2>3, <3>2 DEF AppendRows
  <2> QED BY <2>1, <2>4, <2>5
<1> QED BY <1>1, <1>2, LinkAfterFlush DEF Building

LEMMA LinkHead ==
  ASSUME TypeOK, NEW r \in Recorder, NEW e \in Episode, NEW ep \in Episode, ChainInv(r),
         WriteHead(r, e) \/ WriteHeadFails(r, e)
  PROVE  LinkAt(r, ep)'
<1>1. /\ pc[r] = "heads" /\ chains' = chains /\ log' = log
      /\ pc'[r] \in {"heads", "idle", "exited"}
  BY DEF WriteHead, WriteHeadFails, HeadWritten, AfterFlush, TypeOK, recorderVars
<1>2. chains[r][ep] # NoHead => chains[r][ep] = TailOf(log[ep])
  BY <1>1 DEF ChainInv, LinkAt, Building
<1> QED BY <1>1, <1>2, LinkAfterFlush DEF Building

LEMMA ChainStep ==
  ASSUME NEW r, Recorder = {r},
         TypeOK, ControlOK, SeqInv, ChainInv(r), [Next]_vars, TypeOK'
  PROVE  ChainInv(r)'
<1> USE DEF recorderVars, drainVars, dbVars, historyVars
<1>0. r \in Recorder
  OBVIOUS
<1>1. ChainVerifies'
  <2>1. CASE log' = log
    BY <2>1 DEF ChainInv, ChainVerifies
  <2>2. CASE Commit(r) \/ CommitUnknown(r)
    BY <1>0, <2>2, AppendVerifies DEF Commit, CommitUnknown, Built
  <2> QED BY <2>1, <2>2, OnlyCommitAppends
<1>2. ASSUME NEW ep \in Episode
      PROVE  LinkAt(r, ep)'
  <2>0. LinkAt(r, ep)
    BY DEF ChainInv
  <2>1. CASE UNCHANGED vars
    BY <1>0, <2>0, <2>1, LinkFrame DEF vars
  <2>2. CASE Connect(r) \/ Caller(r) \/ Cancel(r) \/ Take(r) \/ DrainRest(r)
    BY <1>0, <2>0, <2>2, LinkFrame DEF Connect, ConnectOK, ConnectFails, Caller,
       Enqueue, Refuse, Cancel, Take, DrainRest
  <2>3. ASSUME NEW e \in Episode, NoteLoss(r, e)
        PROVE  LinkAt(r, ep)'
    <3>1. chains'[r][ep] \in {chains[r][ep], NoHead}
      <4>1. \/ chains' = chains
            \/ chains' = [chains EXCEPT ![r] = [chains[r] EXCEPT ![e] = NoHead]]
        BY <2>3 DEF NoteLoss
      <4>2. chains \in [Recorder -> [Episode -> ChainHead \cup {NoHead}]]
        BY DEF TypeOK
      <4> QED BY <1>0, <4>1, <4>2
    <3> QED BY <1>0, <2>0, <2>3, <3>1, LinkFrame DEF NoteLoss
  <2>4. CASE Reset(r) \/ Crash(r)
    <3>1. pc'[r] = "idle" /\ chains'[r][ep] = NoHead
      BY <1>0, <2>4 DEF Reset, Crash, TypeOK, NoHeads
    <3> QED BY <1>0, <3>1, LinkAfterFlush DEF Building
  <2>5. CASE CommitCollides(r) \/ FlushFails(r) \/ CommitUnknown(r)
    BY <1>0, <2>5, LinkCarryLoss DEF CommitCollides, FlushFails, CommitUnknown, Built
  <2>6. CASE \E e \in Episode : WriteHead(r, e) \/ WriteHeadFails(r, e)
    BY <1>0, <2>6, LinkHead
  <2>7. CASE \/ Flush(r) \/ CacheHit(r) \/ ReadTail(r) \/ ReadAnchor(r)
             \/ ReadAnchorFails(r) \/ Extend(r) \/ Commit(r)
    BY <1>0, <2>0, <2>7, LinkFlush, LinkCacheHit, LinkReadTail, LinkReadAnchor,
       LinkExtend, LinkCommit
  <2> QED BY <2>1, <2>2, <2>3, <2>4, <2>5, <2>6, <2>7 DEF Next, Drain
<1> QED BY <1>1, <1>2 DEF ChainInv

LEMMA InitChain == ASSUME NEW r \in Recorder PROVE Init => ChainInv(r)
BY DEF Init, ChainInv, ChainVerifies, VerifyChain, LinkAt, Building, NoRows, NoHeads

(* One recorder on a database: whatever is refused, lost, retried or cut   *)
(* off by a crash, between any two steps of a flush the rows of every      *)
(* episode verify from their origin and the anchor does not accuse them    *)
(* (build, chainState, insert, carryLoss; VerifyChain, headIntegrity).     *)
THEOREM ChainAlwaysTrue ==
  ASSUME NEW r, Recorder = {r}
  PROVE  Spec => []ChainIsTrue
<1> DEFINE I == TypeOK /\ ControlOK /\ SeqInv /\ AnchorInv /\ ChainInv(r)
<1>1. Init => I
  BY InitType, InitSeq, InitAnchor, InitChain
<1>2. I /\ [Next]_vars => I'
  <2> SUFFICES ASSUME I, [Next]_vars
               PROVE  I'
    OBVIOUS
  <2>1. TypeOK' /\ ControlOK'
    BY TypeStep, ControlStep
  <2>2. SeqInv' /\ AnchorInv'
    BY <2>1, SeqStep, AnchorStep
  <2>3. ChainInv(r)'
    BY <2>1, ChainStep
  <2> QED BY <2>1, <2>2, <2>3
<1>3. I => ChainIsTrue
  BY NamedRowIsTruthful DEF ChainInv, ChainIsTrue
<1> QED BY <1>1, <1>2, <1>3, PTL DEF Spec

(***************************************************************************)
(* The anchor of an episode, for one recorder.                             *)
(***************************************************************************)
LEMMA NewestStep ==
  ASSUME NEW r, Recorder = {r},
         TypeOK, SeqInv, NewestIsLast(r), [Next]_vars
  PROVE  NewestIsLast(r)'
<1> SUFFICES ASSUME pc'[r] = "heads", NEW ep \in Episode, rows'[r][ep] # <<>>
             PROVE  NewestRow(r, ep)'.seq = Len(log'[ep]) - 1
  BY DEF NewestIsLast
<1>0. r \in Recorder
  OBVIOUS
<1>1. CASE pc[r] = "heads" /\ rows'[r] = rows[r]
  <2>1. log' = log
    BY <1>1, OnlyCommitAppends DEF Commit, CommitUnknown, Built
  <2> QED BY <1>1, <2>1 DEF NewestIsLast, NewestRow
<1>2. CASE Commit(r)
  <2>1. pc[r] = "build" /\ Fresh(r) /\ AppendRows(r) /\ rows' = rows
    BY <1>2 DEF Commit, Built
  <2>2. rows[r][ep] \in Seq(Row)
    BY <1>0 DEF TypeOK
  <2>3. Len(rows[r][ep]) \in 1 .. Len(rows[r][ep])
    BY <2>1, <2>2
  <2>4. rows[r][ep][Len(rows[r][ep])].seq = Len(log[ep]) + Len(rows[r][ep]) - 1
    BY <1>0, <2>1, <2>3, AppendedRow
  <2>5. Len(log'[ep]) = Len(log[ep]) + Len(rows[r][ep])
    BY <1>0, <2>1, AppendInStep
  <2> QED BY <2>1, <2>4, <2>5 DEF NewestRow
<1> QED BY <1>0, <1>1, <1>2, HeadsOnlyAfterCommit

(* One recorder on a database: the anchor of an episode is only ever       *)
(* replaced by one of a later or the same row, so that rows it has covered *)
(* cannot disappear unnoticed (insert).                                    *)
THEOREM AnchorNeverMovesBack ==
  ASSUME NEW r, Recorder = {r}
  PROVE  Spec => AnchorNeverRegresses
<1> DEFINE I == TypeOK /\ ControlOK /\ SeqInv /\ NewestIsLast(r)
<1>1. Init => I
  BY InitType, InitSeq DEF Init, NewestIsLast
<1>2. I /\ [Next]_vars => I'
  <2> SUFFICES ASSUME I, [Next]_vars
               PROVE  I'
    OBVIOUS
  <2>1. TypeOK' /\ ControlOK'
    BY TypeStep, ControlStep
  <2> QED BY <2>1, SeqStep, NewestStep
<1>3. I /\ [Next]_vars =>
        [\A ep \in Episode :
           anchor[ep] # NoHead =>
             anchor'[ep] # NoHead /\ anchor'[ep].seq >= anchor[ep].seq]_anchor
  <2> SUFFICES ASSUME I, [Next]_vars, NEW ep \in Episode, anchor[ep] # NoHead
               PROVE  anchor'[ep] # NoHead /\ anchor'[ep].seq >= anchor[ep].seq
    OBVIOUS
  <2>1. anchor[ep].seq \in Nat /\ anchor[ep].seq < Len(log[ep]) /\ Len(log[ep]) \in Nat
    BY LogLen DEF SeqInv, AnchorInLog, TypeOK
  <2>2. CASE anchor'[ep] = anchor[ep]
    BY <2>1, <2>2
  <2>3. CASE WriteHead(r, ep)
    <3>1. /\ pc[r] = "heads" /\ ep \in heads[r]
          /\ anchor' = [anchor EXCEPT ![ep] = AnchorFor(r, ep)]
      BY <2>3 DEF WriteHead, HeadWritten
    <3>2. rows[r][ep] # <<>>
      BY <3>1 DEF ControlOK, Control
    <3>3. NewestRow(r, ep).seq = Len(log[ep]) - 1
      BY <3>1, <3>2 DEF NewestIsLast
    <3>4. anchor'[ep] = AnchorFor(r, ep)
      BY <3>1 DEF TypeOK
    <3>5. anchor'[ep].seq = Len(log[ep]) - 1 /\ anchor'[ep] # NoHead
      BY <3>3, <3>4 DEF AnchorFor, NoHead
    <3> QED BY <2>1, <3>5
  <2> QED BY <2>2, <2>3, OnlyWriteHeadAnchors DEF WriteHead, TypeOK
<1> QED BY <1>1, <1>2, <1>3, PTL DEF Spec, AnchorNeverRegresses

(* Sums.  The pairs counted for f are finite in number; a sum splits with  *)
(* its domain and does not depend on how the domain is named.              *)
LEMMA UnitsOfOne ==
  ASSUME NEW x, NEW n \in Nat
  PROVE  IsFiniteSet({x} \X (1 .. n)) /\ Cardinality({x} \X (1 .. n)) = n
<1>1. PICK A : A = {x}
  OBVIOUS
<1>2. PICK B : B = 1 .. n
  OBVIOUS
<1>3. IsFiniteSet(A) /\ Cardinality(A) = 1
  BY <1>1, FS_Singleton
<1>4. IsFiniteSet(B) /\ Cardinality(B) = n
  BY <1>2, FS_Interval
<1>5. IsFiniteSet(A \X B) /\ Cardinality(A \X B) = Cardinality(A) * Cardinality(B)
  BY <1>3, <1>4, FS_Product
<1>6. 1 * n = n
  OBVIOUS
<1> QED BY <1>1, <1>2, <1>3, <1>4, <1>5, <1>6

LEMMA TotalType ==
  ASSUME NEW D, IsFiniteSet(D), NEW f \in [D -> Nat]
  PROVE  IsFiniteSet(Units(f)) /\ Total(f) \in Nat
<1> DEFINE T == {{x} \X (1 .. f[x]) : x \in D}
           g == [x \in D |-> {x} \X (1 .. f[x])]
<1>1. g \in Surjection(D, T)
  BY DEF Surjection
<1>2. IsFiniteSet(T)
  BY <1>1, FS_Surjection
<1>3. \A t \in T : IsFiniteSet(t)
  <2>1. \A x \in D : f[x] \in Nat
    OBVIOUS
  <2>2. \A x \in D : IsFiniteSet({x} \X (1 .. f[x]))
    BY <2>1, UnitsOfOne
  <2> QED BY <2>2, Zenon
<1>4. Units(f) = UNION T
  BY DEF Units
<1>5. IsFiniteSet(Units(f))
  BY <1>2, <1>3, <1>4, FS_UNION
<1> QED BY <1>5, FS_CardinalityType DEF Total

(* f on D is g on A and h on B.                                            *)
Parts(D, f, A, g, B, h) ==
  /\ f \in [D -> Nat] /\ g \in [A -> Nat] /\ h \in [B -> Nat]
  /\ A \cup B = D /\ A \cap B = {}
  /\ (\A x \in A : g[x] = f[x]) /\ (\A x \in B : h[x] = f[x])

LEMMA TotalSplit ==
  ASSUME NEW D, IsFiniteSet(D), NEW f, NEW A, NEW g, NEW B, NEW h, Parts(D, f, A, g, B, h)
  PROVE  Total(f) = Total(g) + Total(h) /\ Total(g) \in Nat /\ Total(h) \in Nat
<1>0. A \in SUBSET D /\ B \in SUBSET D /\ g \in [A -> Nat] /\ h \in [B -> Nat]
  BY DEF Parts
<1>1. IsFiniteSet(A) /\ IsFiniteSet(B)
  BY <1>0, FS_Subset
<1>2. /\ IsFiniteSet(Units(g)) /\ Total(g) \in Nat
      /\ IsFiniteSet(Units(h)) /\ Total(h) \in Nat
  BY <1>0, <1>1, TotalType
<1>3. Units(f) = Units(g) \cup Units(h)
  BY DEF Units, Parts
<1>4. Units(g) \cap Units(h) = {}
  BY DEF Units, Parts
<1>5. Cardinality(Units(f)) = Cardinality(Units(g)) + Cardinality(Units(h)) - Cardinality({})
  BY <1>2, <1>3, <1>4, FS_Union
<1> QED BY <1>2, <1>5, FS_EmptySet DEF Total

LEMMA TotalSingle ==
  ASSUME NEW x, NEW f, DOMAIN f = {x}, f[x] \in Nat
  PROVE  Total(f) = f[x]
<1>1. Units(f) = {x} \X (1 .. f[x])
  BY DEF Units
<1> QED BY <1>1, UnitsOfOne DEF Total

(* m renames the domain D of f into the domain E of g.                     *)
Renames(m, D, f, E, g) ==
  /\ f \in [D -> Nat] /\ g \in [E -> Nat] /\ m \in [D -> E]
  /\ \A x, y \in D : m[x] = m[y] => x = y
  /\ \A e \in E : \E x \in D : m[x] = e
  /\ \A x \in D : g[m[x]] = f[x]

LEMMA TotalMoved ==
  ASSUME NEW D, IsFiniteSet(D), NEW f, NEW E, NEW g, NEW m, Renames(m, D, f, E, g)
  PROVE  Total(g) = Total(f)
<1> DEFINE h == [u \in Units(f) |-> <<m[u[1]], u[2]>>]
<1>0. /\ m \in [D -> E] /\ (\A x, y \in D : m[x] = m[y] => x = y) /\ (\A e \in E : \E x \in D : m[x] = e)
      /\ f \in [D -> Nat] /\ g \in [E -> Nat] /\ (\A x \in D : g[m[x]] = f[x])
  BY DEF Renames
<1>1. \A u : u \in Units(f) <=> \E x \in D : \E k \in 1 .. f[x] : u = <<x, k>>
  BY <1>0 DEF Units
<1>2. \A u : u \in Units(g) <=> \E e \in E : \E k \in 1 .. g[e] : u = <<e, k>>
  BY <1>0 DEF Units
<1>3. h \in [Units(f) -> Units(g)]
  BY <1>0, <1>1, <1>2
<1>4. \A u, v \in Units(f) : h[u] = h[v] => u = v
  BY <1>0, <1>1
<1>5. \A w \in Units(g) : \E u \in Units(f) : h[u] = w
  <2>1. SUFFICES ASSUME NEW w \in Units(g) PROVE \E u \in Units(f) : h[u] = w
    OBVIOUS
  <2>2. PICK e \in E : \E k \in 1 .. g[e] : w = <<e, k>>
    BY <1>2
  <2>5. PICK k \in 1 .. g[e] : w = <<e, k>>
    BY <2>2
  <2>3. PICK x \in D : m[x] = e
    BY <1>0
  <2>4. <<x, k>> \in Units(f)
    BY <1>0, <1>1, <2>5, <2>3
  <2> QED BY <2>5, <2>3, <2>4
<1>6. h \in Bijection(Units(f), Units(g))
  BY <1>3, <1>4, <1>5 DEF Bijection, Injection, IsInjective, Surjection
<1>7. IsFiniteSet(Units(f))
  BY <1>0, TotalType
<1> QED BY <1>6, <1>7, FS_Bijection DEF ExistsBijection, Total

LEMMA TotalZero ==
  ASSUME NEW f, \A x \in DOMAIN f : f[x] = 0
  PROVE  Total(f) = 0
<1>1. Units(f) = {}
  BY DEF Units
<1> QED BY <1>1, FS_EmptySet DEF Total

LEMMA TotalUpdate ==
  ASSUME NEW D, IsFiniteSet(D), NEW f \in [D -> Nat], NEW d \in D,
         NEW g \in [D -> Nat], \A x \in D \ {d} : g[x] = f[x]
  PROVE  /\ Total(g) = Total(f) - f[d] + g[d]
         /\ Total(f) >= f[d]
<1>1. PICK A \in SUBSET D : A = {d}
  OBVIOUS
<1>2. PICK B \in SUBSET D : B = D \ {d}
  OBVIOUS
<1>3. A \cup B = D /\ A \cap B = {}
  BY <1>1, <1>2
<1>4. PICK fa \in [A -> Nat] : fa = [x \in A |-> f[x]]
  OBVIOUS
<1>5. PICK ga \in [A -> Nat] : ga = [x \in A |-> g[x]]
  OBVIOUS
<1>6. PICK b \in [B -> Nat] : b = [x \in B |-> f[x]]
  OBVIOUS
<1>7. Total(f) = Total(fa) + Total(b) /\ Total(b) \in Nat
  <2>1. Parts(D, f, A, fa, B, b)
    BY <1>3, <1>4, <1>6 DEF Parts
  <2> QED BY <2>1, TotalSplit
<1>8. Total(g) = Total(ga) + Total(b)
  <2>1. Parts(D, g, A, ga, B, b)
    BY <1>2, <1>3, <1>5, <1>6 DEF Parts
  <2> QED BY <2>1, TotalSplit
<1>9. Total(fa) = f[d] /\ Total(ga) = g[d] /\ f[d] \in Nat /\ g[d] \in Nat
  BY <1>1, <1>4, <1>5, TotalSingle
<1> QED BY <1>7, <1>8, <1>9

(* The total of two sequences one after the other.                         *)
LEMMA TotalJoin ==
  ASSUME NEW n \in Nat, NEW k \in Nat,
         NEW s \in [1 .. n -> Nat], NEW t \in [1 .. k -> Nat],
         NEW u \in [1 .. n + k -> Nat],
         \A i \in 1 .. n : u[i] = s[i], \A i \in 1 .. k : u[n + i] = t[i]
  PROVE  /\ Total(u) = Total(s) + Total(t)
         /\ Total(s) \in Nat /\ Total(t) \in Nat
<1>1. PICK D : D = 1 .. n + k
  OBVIOUS
<1>2. PICK A \in SUBSET D : A = 1 .. n
  BY <1>1
<1>3. PICK B \in SUBSET D : B = (n + 1) .. (n + k)
  BY <1>1
<1>4. A \cup B = D /\ A \cap B = {}
  BY <1>1, <1>2, <1>3
<1>5. IsFiniteSet(D)
  <2>1. n + k \in Int
    OBVIOUS
  <2> QED BY <2>1, <1>1, FS_Interval
<1>6. u \in [D -> Nat] /\ s \in [A -> Nat]
  BY <1>1, <1>2
<1>9. PICK E : E = 1 .. k
  OBVIOUS
<1>10. PICK g \in [B -> Nat] : g = [x \in B |-> u[x]]
  BY <1>6
<1>7. \A x \in A : s[x] = u[x]
  BY <1>2
<1>8. Total(u) = Total(s) + Total(g) /\ Total(s) \in Nat /\ Total(g) \in Nat
  <2>1. Parts(D, u, A, s, B, g)
    BY <1>4, <1>6, <1>7, <1>10 DEF Parts
  <2> QED BY <2>1, <1>5, TotalSplit
<1>11. PICK m : m = [x \in E |-> n + x]
  OBVIOUS
<1>12. m \in [E -> B] /\ (\A x \in E : m[x] = n + x)
  BY <1>3, <1>9, <1>11
<1>13. (\A x, y \in E : m[x] = m[y] => x = y) /\ (\A b \in B : \E x \in E : m[x] = b)
  <2>1. \A b \in B : b - n \in E /\ n + (b - n) = b
    BY <1>3, <1>9
  <2> QED BY <2>1, <1>9, <1>12
<1>15. IsFiniteSet(E) /\ t \in [E -> Nat]
  <2>1. IsFiniteSet(E)
    BY <1>9, FS_Interval
  <2> QED BY <2>1, <1>9
<1>16. \A x \in E : g[m[x]] = t[x]
  BY <1>9, <1>3, <1>10, <1>12
<1>17. Total(g) = Total(t)
  <2>1. Renames(m, E, t, B, g)
    BY <1>12, <1>13, <1>15, <1>16 DEF Renames
  <2> QED BY <2>1, <1>15, TotalMoved
<1> QED BY <1>8, <1>17

LEMMA ConcatOf ==
  ASSUME NEW S, NEW s \in Seq(S), NEW t \in Seq(S), NEW u, u = s \o t
  PROVE  /\ u \in Seq(S)
         /\ Len(s) \in Nat /\ Len(t) \in Nat /\ Len(u) = Len(s) + Len(t)
         /\ \A i \in 1 .. Len(s) : u[i] = s[i]
         /\ \A i \in 1 .. Len(t) : u[Len(s) + i] = t[i]
OBVIOUS

LEMMA TotalConcat ==
  ASSUME NEW s \in Seq(Nat), NEW t \in Seq(Nat), NEW u, u = s \o t
  PROVE  /\ Total(u) = Total(s) + Total(t)
         /\ Total(s) \in Nat /\ Total(t) \in Nat
<1>1. PICK n \in Nat : n = Len(s)
  OBVIOUS
<1>2. PICK k \in Nat : k = Len(t)
  OBVIOUS
<1>3. /\ s \in [1 .. n -> Nat] /\ t \in [1 .. k -> Nat]
  BY <1>1, <1>2
<1>4. u \in [1 .. n + k -> Nat]
  <2>1. u \in Seq(Nat) /\ Len(u) = n + k
    BY <1>1, <1>2, ConcatOf
  <2>2. u \in [1 .. Len(u) -> Nat]
    BY <2>1, LenProperties
  <2> QED BY <2>1, <2>2
<1>5. (\A i \in 1 .. n : u[i] = s[i]) /\ (\A i \in 1 .. k : u[n + i] = t[i])
  BY <1>1, <1>2
<1> QED BY <1>3, <1>4, <1>5, TotalJoin, ZenonT(60)

(* What rows account for is the sum of what each accounts for.             *)
LEMMA WeightsType ==
  ASSUME NEW s \in Seq(Row)
  PROVE  Weights(s) \in Seq(Nat) /\ Len(Weights(s)) = Len(s)
<1>1. \A row \in Row : row.item.n \in Nat
  BY DEF Row, Item
<1>2. \A i \in 1 .. Len(s) : s[i] \in Row
  OBVIOUS
<1>3. \A i \in 1 .. Len(s) : (IF s[i].item.gap THEN s[i].item.n ELSE 1) \in Nat
  BY <1>1, <1>2
<1> QED BY <1>3 DEF Weights

LEMMA SameConcat ==
  ASSUME NEW a \in Seq(Nat), NEW b \in Seq(Nat), NEW w \in Seq(Nat),
         Len(w) = Len(a) + Len(b),
         \A i \in 1 .. Len(a) : w[i] = a[i],
         \A i \in 1 .. Len(b) : w[Len(a) + i] = b[i]
  PROVE  w = a \o b
<1>1. PICK v \in Seq(Nat) : v = a \o b
  BY ConcatProperties
<1>2. \A i \in 1 .. Len(a) + Len(b) : i > Len(a) => i - Len(a) \in 1 .. Len(b) /\ i = Len(a) + (i - Len(a))
  OBVIOUS
<1>3. /\ Len(v) = Len(a) + Len(b)
      /\ \A i \in 1 .. Len(a) : v[i] = a[i]
      /\ \A i \in 1 .. Len(b) : v[Len(a) + i] = b[i]
  BY <1>1, SMTT(30)
<1>4. \A i \in 1 .. Len(a) + Len(b) : w[i] = v[i]
  <2>1. SUFFICES ASSUME NEW i \in 1 .. Len(a) + Len(b) PROVE w[i] = v[i]
    OBVIOUS
  <2>2. CASE i <= Len(a)
    BY <2>2, <1>3
  <2>3. CASE i > Len(a)
    BY <2>3, <1>2, <1>3, ZenonT(60)
  <2> QED BY <2>2, <2>3
<1>5. Len(w) = Len(v) /\ \A i \in 1 .. Len(w) : w[i] = v[i]
  BY <1>3, <1>4
<1> QED BY <1>1, <1>5, SeqEqual

LEMMA WeightsConcat ==
  ASSUME NEW s \in Seq(Row), NEW t \in Seq(Row), NEW u, u = s \o t
  PROVE  Weights(u) = Weights(s) \o Weights(t)
<1>1. /\ u \in Seq(Row) /\ Len(s) \in Nat /\ Len(t) \in Nat /\ Len(u) = Len(s) + Len(t)
      /\ \A i \in 1 .. Len(s) : u[i] = s[i]
      /\ \A i \in 1 .. Len(t) : u[Len(s) + i] = t[i]
  BY ConcatOf
<1>2. PICK n \in Nat : n = Len(s)
  BY <1>1
<1>3. PICK k \in Nat : k = Len(t)
  BY <1>1
<1>4. PICK a : a = Weights(s)
  OBVIOUS
<1>5. PICK b : b = Weights(t)
  OBVIOUS
<1>6. PICK w : w = Weights(u)
  OBVIOUS
<1>7. /\ a \in Seq(Nat) /\ Len(a) = n
      /\ b \in Seq(Nat) /\ Len(b) = k
      /\ w \in Seq(Nat) /\ Len(w) = n + k
  BY <1>1, <1>2, <1>3, <1>4, <1>5, <1>6, WeightsType, Zenon
<1>8. \A i \in 1 .. n : w[i] = a[i]
  BY <1>1, <1>2, <1>4, <1>6 DEF Weights
<1>9. \A i \in 1 .. k : w[n + i] = b[i]
  <2>1. \A i \in 1 .. k : n + i \in 1 .. n + k
    OBVIOUS
  <2> QED BY <2>1, <1>1, <1>2, <1>3, <1>5, <1>6 DEF Weights
<1>10. w = a \o b
  BY <1>7, <1>8, <1>9, SameConcat, Zenon
<1> QED BY <1>4, <1>5, <1>6, <1>10

LEMMA WeightType ==
  ASSUME NEW s \in Seq(Row)
  PROVE  Weight(s) \in Nat
<1>1. Weights(s) \in [1 .. Len(Weights(s)) -> Nat] /\ Len(Weights(s)) \in Nat
  BY WeightsType
<1>2. IsFiniteSet(1 .. Len(Weights(s)))
  BY <1>1, FS_Interval
<1> QED BY <1>1, <1>2, TotalType DEF Weight

LEMMA WeightConcat ==
  ASSUME NEW s \in Seq(Row), NEW t \in Seq(Row), NEW u, u = s \o t
  PROVE  Weight(u) = Weight(s) + Weight(t)
<1>1. Weights(s) \in Seq(Nat) /\ Weights(t) \in Seq(Nat)
  BY WeightsType
<1>2. Weights(u) = Weights(s) \o Weights(t)
  BY WeightsConcat
<1> QED BY <1>1, <1>2, TotalConcat DEF Weight

LEMMA WeightEmpty == \A s : s = <<>> => Weight(s) = 0
<1>1. \A s : s = <<>> => \A x \in DOMAIN Weights(s) : Weights(s)[x] = 0
  BY DEF Weights
<1> QED BY <1>1, TotalZero DEF Weight

LEMMA WeightAppend ==
  ASSUME NEW s \in Seq(Row), NEW row \in Row
  PROVE  Weight(Append(s, row)) = Weight(s) + (IF row.item.gap THEN row.item.n ELSE 1)
<1>1. PICK t : t = <<row>>
  OBVIOUS
<1>7. t \in Seq(Row)
  BY <1>1
<1>2. Append(s, row) = s \o t
  BY <1>1
<1>3. Len(t) = 1 /\ t[1] = row
  BY <1>1
<1>4. Weights(t)[1] = (IF row.item.gap THEN row.item.n ELSE 1) /\ Weights(t)[1] \in Nat
  BY <1>3 DEF Weights, Row, Item
<1>5. DOMAIN Weights(t) = {1}
  BY <1>3 DEF Weights
<1>6. Weight(t) = Weights(t)[1]
  BY <1>4, <1>5, TotalSingle DEF Weight
<1> QED BY <1>2, <1>4, <1>6, <1>7, WeightConcat, ZenonT(60)

(* Events counted in a prefix of a sequence: one by one, and across a      *)
(* concatenation.                                                          *)
LEMMA CountUpToType ==
  ASSUME NEW s, NEW n \in Nat, NEW ep
  PROVE  IsFiniteSet(EventsUpTo(s, n, ep)) /\ CountUpTo(s, n, ep) \in Nat
<1>1. IsFiniteSet(1 .. n)
  BY FS_Interval
<1>2. EventsUpTo(s, n, ep) \in SUBSET (1 .. n)
  BY DEF EventsUpTo
<1>3. IsFiniteSet(EventsUpTo(s, n, ep))
  BY <1>1, <1>2, FS_Subset
<1> QED BY <1>3, FS_CardinalityType DEF CountUpTo

LEMMA CountNone ==
  ASSUME NEW s, NEW ep
  PROVE  CountUpTo(s, 0, ep) = 0
<1>1. EventsUpTo(s, 0, ep) = {}
  BY DEF EventsUpTo
<1> QED BY <1>1, FS_EmptySet DEF CountUpTo

LEMMA CountNext ==
  ASSUME NEW s, NEW n \in Nat, NEW ep
  PROVE  CountUpTo(s, n + 1, ep) = CountUpTo(s, n, ep) + (IF s[n + 1].ep = ep THEN 1 ELSE 0)
<1>1. PICK A : A = EventsUpTo(s, n, ep)
  OBVIOUS
<1>2. IsFiniteSet(A) /\ CountUpTo(s, n, ep) = Cardinality(A) /\ Cardinality(A) \in Nat
  BY <1>1, CountUpToType DEF CountUpTo
<1>3. n + 1 \notin A
  BY <1>1 DEF EventsUpTo
<1>4. CASE s[n + 1].ep = ep
  <2>1. EventsUpTo(s, n + 1, ep) = A \cup {n + 1}
    BY <1>1, <1>4 DEF EventsUpTo
  <2>2. Cardinality(A \cup {n + 1}) = Cardinality(A) + 1
    BY <1>2, <1>3, FS_AddElement
  <2> QED BY <1>2, <1>4, <2>1, <2>2 DEF CountUpTo
<1>5. CASE s[n + 1].ep # ep
  <2>1. EventsUpTo(s, n + 1, ep) = A
    BY <1>1, <1>5 DEF EventsUpTo
  <2> QED BY <1>2, <1>5, <2>1 DEF CountUpTo
<1> QED BY <1>4, <1>5

LEMMA CountSame ==
  ASSUME NEW s, NEW t, NEW n \in Nat, NEW ep, \A i \in 1 .. n : s[i] = t[i]
  PROVE  CountUpTo(s, n, ep) = CountUpTo(t, n, ep)
<1>1. EventsUpTo(s, n, ep) = EventsUpTo(t, n, ep)
  BY DEF EventsUpTo
<1> QED BY <1>1 DEF CountUpTo

(* t continues s after its first n elements.                               *)
GoesOn(s, n, t, k) == \A i \in 1 .. k : s[n + i] = t[i]

LEMMA CountShift ==
  ASSUME NEW s, NEW n \in Nat, NEW k \in Nat, NEW t, NEW ep, GoesOn(s, n, t, k)
  PROVE  CountUpTo(s, n + k, ep) = CountUpTo(s, n, ep) + CountUpTo(t, k, ep)
<1>1. PICK A : A = EventsUpTo(s, n, ep)
  OBVIOUS
<1>2. PICK B : B = EventsUpTo(t, k, ep)
  OBVIOUS
<1>3. PICK C : C = {i \in (n + 1) .. (n + k) : s[i].ep = ep}
  OBVIOUS
<1>4. IsFiniteSet(A) /\ CountUpTo(s, n, ep) = Cardinality(A) /\ Cardinality(A) \in Nat
  BY <1>1, CountUpToType DEF CountUpTo
<1>5. IsFiniteSet(B) /\ CountUpTo(t, k, ep) = Cardinality(B) /\ Cardinality(B) \in Nat
  BY <1>2, CountUpToType DEF CountUpTo
<1>6. PICK m : m = [i \in B |-> n + i]
  OBVIOUS
<1>7. m \in [B -> C] /\ \A i \in B : m[i] = n + i
  <2>1. \A i \in B : n + i \in C
    BY <1>2, <1>3 DEF EventsUpTo, GoesOn
  <2> QED BY <1>6, <2>1
<1>8. \A i, j \in B : m[i] = m[j] => i = j
  BY <1>2, <1>7 DEF EventsUpTo
<1>9. \A c \in C : \E i \in B : m[i] = c
  <2>1. \A c \in C : c - n \in 1 .. k /\ n + (c - n) = c
    BY <1>3
  <2>2. \A c \in C : c - n \in B
    BY <1>2, <1>3, <2>1 DEF EventsUpTo, GoesOn
  <2> QED BY <1>7, <2>1, <2>2
<1>10. m \in Bijection(B, C)
  BY <1>7, <1>8, <1>9 DEF Bijection, Injection, IsInjective, Surjection
<1>11. IsFiniteSet(C) /\ Cardinality(C) = Cardinality(B)
  BY <1>5, <1>10, FS_Bijection DEF ExistsBijection
<1>12. A \cap C = {}
  BY <1>1, <1>3 DEF EventsUpTo
<1>13. EventsUpTo(s, n + k, ep) = A \cup C
  BY <1>1, <1>3 DEF EventsUpTo
<1>14. Cardinality(A \cup C) = Cardinality(A) + Cardinality(C) - Cardinality({})
  BY <1>4, <1>11, <1>12, FS_Union
<1> QED BY <1>4, <1>5, <1>11, <1>13, <1>14, FS_EmptySet DEF CountUpTo

LEMMA CountAll ==
  ASSUME NEW s \in Seq(Event), NEW ep
  PROVE  CountOf(s, ep) = CountUpTo(s, Len(s), ep)
<1>1. PICK n \in Nat : n = Len(s)
  OBVIOUS
<1>2. DOMAIN s = 1 .. n
  BY <1>1
<1>3. {i \in DOMAIN s : s[i].ep = ep} = EventsUpTo(s, n, ep)
  BY <1>2 DEF EventsUpTo
<1> QED BY <1>1, <1>3 DEF CountOf, CountUpTo

LEMMA CountEmpty == \A s, ep : s = <<>> => CountOf(s, ep) = 0
<1>1. \A s, ep : s = <<>> => {i \in DOMAIN s : s[i].ep = ep} = {}
  OBVIOUS
<1> QED BY <1>1, FS_EmptySet DEF CountOf

(* u is s with t behind it.                                                *)
Joins(u, s, t) == s \in Seq(Event) /\ t \in Seq(Event) /\ u = s \o t

LEMMA CountJoin ==
  ASSUME NEW u, NEW s, NEW t, Joins(u, s, t), NEW ep
  PROVE  /\ \A i \in 0 .. Len(s) : CountUpTo(u, i, ep) = CountUpTo(s, i, ep)
         /\ \A i \in 0 .. Len(t) : CountUpTo(u, Len(s) + i, ep) = CountOf(s, ep) + CountUpTo(t, i, ep)
         /\ CountOf(u, ep) = CountOf(s, ep) + CountOf(t, ep)
<1>0. s \in Seq(Event) /\ t \in Seq(Event)
  BY DEF Joins
<1>1. /\ u \in Seq(Event) /\ Len(s) \in Nat /\ Len(t) \in Nat /\ Len(u) = Len(s) + Len(t)
      /\ \A i \in 1 .. Len(s) : u[i] = s[i]
      /\ \A i \in 1 .. Len(t) : u[Len(s) + i] = t[i]
  BY DEF Joins
<1>2. \A i \in 0 .. Len(s) : CountUpTo(u, i, ep) = CountUpTo(s, i, ep)
  <2>1. SUFFICES ASSUME NEW i \in 0 .. Len(s)
                 PROVE  CountUpTo(u, i, ep) = CountUpTo(s, i, ep)
    OBVIOUS
  <2>2. i \in Nat /\ \A j \in 1 .. i : u[j] = s[j]
    BY <1>1
  <2> QED BY <2>2, CountSame
<1>3. CountUpTo(u, Len(s), ep) = CountOf(s, ep)
  BY <1>0, <1>1, <1>2, CountAll
<1>4. \A i \in 0 .. Len(t) : CountUpTo(u, Len(s) + i, ep) = CountOf(s, ep) + CountUpTo(t, i, ep)
  <2>1. SUFFICES ASSUME NEW i \in 0 .. Len(t)
                 PROVE  CountUpTo(u, Len(s) + i, ep) = CountOf(s, ep) + CountUpTo(t, i, ep)
    OBVIOUS
  <2>2. i \in Nat /\ \A j \in 1 .. i : u[Len(s) + j] = t[j]
    BY <1>1
  <2>3. CountUpTo(u, Len(s) + i, ep) = CountUpTo(u, Len(s), ep) + CountUpTo(t, i, ep)
    <3>1. PICK n \in Nat : n = Len(s)
      BY <1>1
    <3>2. GoesOn(u, n, t, i)
      BY <2>2, <3>1 DEF GoesOn
    <3>3. CountUpTo(u, n + i, ep) = CountUpTo(u, n, ep) + CountUpTo(t, i, ep)
      BY <2>2, <3>2, CountShift
    <3> QED BY <3>1, <3>3
  <2> QED BY <1>3, <2>3
<1>5. CountOf(u, ep) = CountUpTo(u, Len(s) + Len(t), ep)
  BY <1>1, CountAll
<1>6. CountUpTo(u, Len(s) + Len(t), ep) = CountOf(s, ep) + CountOf(t, ep)
  BY <1>0, <1>1, <1>4, CountAll
<1> QED BY <1>2, <1>4, <1>5, <1>6

(***************************************************************************)
(* The losses, for any number of recorders: a step of one recorder leaves  *)
(* the others alone.                                                       *)
(***************************************************************************)
StepOf(r) ==
  \/ Connect(r) \/ Caller(r) \/ Drain(r)
  \/ \E ep \in Episode : NoteLoss(r, ep)
  \/ Cancel(r) \/ Reset(r) \/ Crash(r)

Untouched(q) ==
  /\ state'[q] = state[q] /\ queue'[q] = queue[q] /\ pending'[q] = pending[q]
  /\ stop'[q] = stop[q] /\ pc'[q] = pc[q] /\ batch'[q] = batch[q]
  /\ gaps'[q] = gaps[q] /\ left'[q] = left[q] /\ pos'[q] = pos[q]
  /\ cur'[q] = cur[q] /\ rows'[q] = rows[q]

LEMMA OthersUntouched ==
  ASSUME TypeOK, NEW r \in Recorder, StepOf(r), NEW q \in Recorder, q # r
  PROVE  Untouched(q)
<1> USE DEF recorderVars, drainVars, TypeOK, Untouched
<1>1. CASE Connect(r)
  BY <1>1 DEF Connect, ConnectOK, ConnectFails
<1>2. CASE Caller(r)
  BY <1>2 DEF Caller, Enqueue, Refuse
<1>3. CASE \E ep \in Episode : NoteLoss(r, ep)
  <2>1. PICK ep \in Episode : NoteLoss(r, ep)
    BY <1>3
  <2>2. pending'[q] = pending[q]
    BY <2>1 DEF NoteLoss
  <2> QED BY <2>1, <2>2 DEF NoteLoss
<1>4. CASE Take(r)
  BY <1>4 DEF Take
<1>5. CASE Flush(r)
  BY <1>5 DEF Flush
<1>6. CASE CacheHit(r)
  BY <1>6 DEF CacheHit
<1>7. CASE ReadTail(r)
  BY <1>7 DEF ReadTail
<1>8. CASE ReadAnchor(r) \/ ReadAnchorFails(r)
  BY <1>8 DEF ReadAnchor, ReadAnchorFails, CacheHead
<1>9. CASE Extend(r)
  BY <1>9 DEF Extend
<1>10. CASE Commit(r)
  BY <1>10 DEF Commit
<1>11. CASE CommitCollides(r) \/ FlushFails(r) \/ CommitUnknown(r)
  <2>1. CarryLoss(r)
    BY <1>11 DEF CommitCollides, FlushFails, CommitUnknown
  <2> QED BY <2>1 DEF CarryLoss
<1>12. CASE \E e \in Episode : WriteHead(r, e) \/ WriteHeadFails(r, e)
  <2>1. PICK e \in Episode : HeadWritten(r, e)
    BY <1>12 DEF WriteHead, WriteHeadFails
  <2>2. pc'[q] = pc[q] /\ rows'[q] = rows[q]
    BY <2>1 DEF HeadWritten
  <2> QED BY <2>1, <2>2 DEF HeadWritten
<1>13. CASE DrainRest(r)
  BY <1>13 DEF DrainRest
<1>14. CASE Cancel(r)
  BY <1>14 DEF Cancel
<1>15. CASE Reset(r)
  BY <1>15 DEF Reset
<1>16. CASE Crash(r)
  BY <1>16 DEF Crash
<1> QED BY <1>1, <1>2, <1>3, <1>4, <1>5, <1>6, <1>7, <1>8, <1>9, <1>10, <1>11, <1>12,
           <1>13, <1>14, <1>15, <1>16 DEF StepOf, Drain

(* The invariant of the accounts: what leaves the batch, the queue and the *)
(* rows alone keeps it, then step by step.                                 *)
LEMMA AccountsFrame ==
  ASSUME NEW q \in Recorder, AccountsOf(q), Untouched(q)
  PROVE  AccountsOf(q)'
BY DEF AccountsOf, RowsAccount, ItemAtHand, NothingLeft, Untouched, Building, HasQueue, NextItems,
       GapItems, EventItems

LEMMA NoRowsWeight == \A ep \in Episode : Weight(NoRows[ep]) = 0
BY WeightEmpty DEF NoRows

LEMMA AccountsOutside ==
  ASSUME TypeOK, NEW r \in Recorder, AccountsOf(r),
         \/ Connect(r) \/ Caller(r)
         \/ \E ep \in Episode : NoteLoss(r, ep)
         \/ Cancel(r)
  PROVE  AccountsOf(r)'
<1>0. /\ pc' = pc /\ batch' = batch /\ gaps' = gaps /\ left' = left /\ pos' = pos
      /\ cur' = cur /\ rows' = rows
  BY DEF Connect, ConnectOK, ConnectFails, Caller, Enqueue, Refuse, NoteLoss, Cancel, drainVars
<1>1. RowsAccount(r)'
  BY <1>0 DEF AccountsOf, RowsAccount, Building
<1>2. ItemAtHand(r)'
  BY <1>0 DEF AccountsOf, ItemAtHand, NextItems, GapItems, EventItems
<1>3. NothingLeft(r)'
  <2>1. CASE Connect(r)
    BY <1>0, <2>1 DEF AccountsOf, NothingLeft, Building, HasQueue, Connect, ConnectOK, ConnectFails, TypeOK
  <2>2. CASE \E ep \in Episode : Enqueue(r, ep)
    BY <1>0, <2>2 DEF AccountsOf, NothingLeft, Building, HasQueue, Enqueue
  <2>3. CASE (\E ep \in Episode : Refuse(r, ep)) \/ \E ep \in Episode : NoteLoss(r, ep)
    BY <1>0, <2>3 DEF AccountsOf, NothingLeft, Building, HasQueue, Refuse, NoteLoss
  <2>4. CASE Cancel(r)
    BY <1>0, <2>4 DEF AccountsOf, NothingLeft, Building, HasQueue, Cancel, TypeOK
  <2> QED BY <2>1, <2>2, <2>3, <2>4 DEF Caller
<1> QED BY <1>1, <1>2, <1>3 DEF AccountsOf

LEMMA AccountsIdle ==
  ASSUME TypeOK, NEW r \in Recorder, Control(r), AccountsOf(r), Take(r) \/ DrainRest(r)
  PROVE  AccountsOf(r)'
<1>1. /\ pc[r] = "idle" /\ pc' = pc /\ gaps' = gaps /\ left' = left /\ pos' = pos
      /\ cur' = cur /\ rows' = rows /\ state' = state
  BY DEF Take, DrainRest
<1>2. HasQueue(r)
  BY DEF Take, DrainRest, AccountsOf, NothingLeft
<1>3. stop'[r] # "no" => state'[r] # "starting"
  BY <1>1, <1>2 DEF HasQueue
<1> QED BY <1>1, <1>2, <1>3 DEF AccountsOf, RowsAccount, ItemAtHand, NothingLeft, Building, HasQueue

LEMMA AccountsFlush ==
  ASSUME TypeOK, NEW r \in Recorder, Control(r), AccountsOf(r), Flush(r)
  PROVE  AccountsOf(r)'
<1>1. /\ pc[r] = "idle" /\ pc'[r] = "build" /\ gaps'[r] = pending[r] /\ pos' = pos /\ batch' = batch
      /\ left'[r] = {ep \in Episode : pending[r][ep] > 0}
      /\ rows' = rows /\ cur' = cur /\ state' = state /\ stop' = stop /\ queue' = queue
      /\ HasQueue(r)
  BY DEF Flush, TakenLosses, TypeOK
<1>2. rows[r] = NoRows /\ pos[r] = 1
  BY <1>1 DEF Control, AccountsOf, NothingLeft, Building
<1>3. Len(batch[r]) \in Nat /\ \A ep \in Episode : pending[r][ep] \in Nat
  BY DEF TypeOK
<1>4. \A ep \in Episode :
        Weight(rows'[r][ep]) = (IF ep \in left'[r] THEN 0 ELSE gaps'[r][ep])
                               + CountUpTo(batch'[r], pos'[r] - 1, ep)
  <2>1. \A ep \in Episode : CountUpTo(batch'[r], pos'[r] - 1, ep) = 0
    BY <1>1, <1>2, CountNone
  <2>2. \A ep \in Episode : Weight(rows'[r][ep]) = 0
    BY <1>1, <1>2, NoRowsWeight
  <2>3. \A ep \in Episode : (IF ep \in left'[r] THEN 0 ELSE gaps'[r][ep]) = 0
    BY <1>1, <1>3
  <2> QED BY <2>1, <2>2, <2>3
<1>5. pos'[r] <= Len(batch'[r]) + 1
  BY <1>1, <1>2, <1>3
<1>6. RowsAccount(r)'
  BY <1>1, <1>2, <1>4, <1>5 DEF RowsAccount
<1>7. ItemAtHand(r)' /\ NothingLeft(r)'
  BY <1>1 DEF ItemAtHand, NothingLeft, AccountsOf, Building, HasQueue
<1> QED BY <1>6, <1>7 DEF AccountsOf

LEMMA AccountsPickUp ==
  ASSUME TypeOK, NEW r \in Recorder, Control(r), AccountsOf(r),
         CacheHit(r) \/ ReadTail(r) \/ ReadAnchor(r) \/ ReadAnchorFails(r)
  PROVE  AccountsOf(r)' /\ cur'[r].item \in NextItems(r)
<1>1. /\ batch' = batch /\ gaps' = gaps /\ left' = left /\ pos' = pos /\ rows' = rows
      /\ queue' = queue /\ state' = state /\ stop' = stop
  BY DEF CacheHit, ReadTail, ReadAnchor, ReadAnchorFails, CacheHead, recorderVars
<1>2. pc'[r] \in {"anchor", "extend"} /\ Building(r)
  BY DEF CacheHit, ReadTail, ReadAnchor, ReadAnchorFails, CacheHead, Building, TypeOK
<1>3. cur'[r].item \in NextItems(r)
  <2>1. CASE CacheHit(r)
    <3>1. PICK it \in NextItems(r) : cur' = [cur EXCEPT ![r] = [item |-> it, head |-> chains[r][it.ep]]]
      BY <2>1 DEF CacheHit
    <3>2. cur'[r] = [item |-> it, head |-> chains[r][it.ep]]
      BY <3>1 DEF TypeOK
    <3> QED BY <3>2
  <2>2. CASE ReadTail(r)
    <3>1. PICK it \in NextItems(r) : cur' = [cur EXCEPT ![r] = [item |-> it, head |-> TailOf(log[it.ep])]]
      BY <2>2 DEF ReadTail
    <3>2. cur'[r] = [item |-> it, head |-> TailOf(log[it.ep])]
      BY <3>1 DEF TypeOK
    <3> QED BY <3>2
  <2>3. CASE ReadAnchor(r) \/ ReadAnchorFails(r)
    <3>1. PICK h : CacheHead(r, h)
      BY <2>3 DEF ReadAnchor, ReadAnchorFails
    <3>2. pc[r] = "anchor"
      BY <2>3 DEF ReadAnchor, ReadAnchorFails
    <3>3. cur[r] \in [item : Item, head : ChainHead]
      BY <3>2 DEF Control, TypeOK
    <3>4. cur'[r] = [item |-> cur[r].item, head |-> h]
      BY <3>1, <3>3 DEF CacheHead, TypeOK
    <3>5. cur[r].item \in NextItems(r)
      BY <3>2 DEF AccountsOf, ItemAtHand
    <3> QED BY <3>4, <3>5
  <2> QED BY <2>1, <2>2, <2>3
<1>4. RowsAccount(r)'
  BY <1>1, <1>2 DEF AccountsOf, RowsAccount, Building
<1>5. NextItems(r)' = NextItems(r)
  BY <1>1 DEF NextItems, GapItems, EventItems
<1>6. ItemAtHand(r)'
  BY <1>3, <1>5 DEF ItemAtHand
<1>7. NothingLeft(r)'
  BY <1>1, <1>2 DEF AccountsOf, NothingLeft, Building, HasQueue
<1> QED BY <1>3, <1>4, <1>6, <1>7 DEF AccountsOf

LEMMA ExtendAt ==
  ASSUME TypeOK, ControlOK, NEW r \in Recorder, Extend(r)
  PROVE  /\ pc[r] = "extend" /\ pc'[r] = "build" /\ batch' = batch /\ gaps' = gaps
         /\ queue' = queue /\ pending' = pending /\ state' = state /\ stop' = stop
         /\ given' = given /\ log' = log
         /\ BuiltRow(r) \in Row /\ BuiltRow(r).item = cur[r].item
         /\ cur[r].item \in Item
         /\ \A ep \in Episode :
              rows'[r][ep] = IF ep = cur[r].item.ep THEN Append(rows[r][ep], BuiltRow(r))
                             ELSE rows[r][ep]
         /\ left'[r] = (IF cur[r].item.gap THEN left[r] \ {cur[r].item.ep} ELSE left[r])
         /\ pos'[r] = (IF cur[r].item.gap THEN pos[r] ELSE pos[r] + 1)
<1>1. /\ pc[r] = "extend" /\ pc'[r] = "build" /\ batch' = batch /\ gaps' = gaps
      /\ queue' = queue /\ pending' = pending /\ state' = state /\ stop' = stop
      /\ given' = given /\ log' = log
  BY DEF Extend, TypeOK, dbVars, historyVars
<1>2. BuiltRow(r) \in Row /\ BuiltRow(r).item = cur[r].item
  BY <1>1, BuiltRowType DEF BuiltRow
<1>3. cur[r].item \in Item
  BY <1>1, CurType
<1>4. rows' = [rows EXCEPT ![r][cur[r].item.ep] = Append(@, BuiltRow(r))]
  BY DEF Extend, BuiltRow
<1>5. \A ep \in Episode :
        rows'[r][ep] = IF ep = cur[r].item.ep THEN Append(rows[r][ep], BuiltRow(r))
                       ELSE rows[r][ep]
  BY <1>3, <1>4 DEF TypeOK, Item
<1>6. /\ left'[r] = (IF cur[r].item.gap THEN left[r] \ {cur[r].item.ep} ELSE left[r])
      /\ pos'[r] = (IF cur[r].item.gap THEN pos[r] ELSE pos[r] + 1)
  BY DEF Extend, TypeOK
<1> QED BY <1>1, <1>2, <1>3, <1>5, <1>6

(* What NextItems offers, spelled out.                                     *)
LEMMA NextItemIs ==
  ASSUME TypeOK, NEW r \in Recorder, NEW it \in NextItems(r)
  PROVE  \/ /\ left[r] # {} /\ it.gap /\ it.ep \in left[r] /\ it.ep \in Episode
            /\ it.n = gaps[r][it.ep]
         \/ /\ left[r] = {} /\ ~it.gap /\ pos[r] \in 1 .. Len(batch[r])
            /\ it.ep = batch[r][pos[r]].ep /\ it.n = batch[r][pos[r]].n
<1>1. CASE left[r] # {}
  <2>1. PICK ep \in left[r] : it = [ep |-> ep, gap |-> TRUE, n |-> gaps[r][ep]]
    BY <1>1 DEF NextItems, GapItems
  <2>2. ep \in Episode
    BY DEF TypeOK
  <2> QED BY <1>1, <2>1, <2>2
<1>2. CASE left[r] = {}
  <2>1. pos[r] <= Len(batch[r]) /\ it = [ep |-> batch[r][pos[r]].ep, gap |-> FALSE, n |-> batch[r][pos[r]].n]
    BY <1>2 DEF NextItems, EventItems
  <2>2. pos[r] \in Nat \ {0} /\ Len(batch[r]) \in Nat
    BY DEF TypeOK
  <2>3. pos[r] \in 1 .. Len(batch[r])
    BY <2>1, <2>2
  <2>4. ~it.gap /\ it.ep = batch[r][pos[r]].ep /\ it.n = batch[r][pos[r]].n
    BY <2>1
  <2> QED BY <1>2, <2>3, <2>4
<1> QED BY <1>1, <1>2

LEMMA AccountsExtend ==
  ASSUME TypeOK, ControlOK, NEW r \in Recorder, AccountsOf(r), Extend(r)
  PROVE  AccountsOf(r)'
<1> DEFINE it == cur[r].item
<1>1. /\ pc[r] = "extend" /\ pc'[r] = "build" /\ batch' = batch /\ gaps' = gaps
      /\ queue' = queue /\ state' = state /\ stop' = stop
      /\ BuiltRow(r) \in Row /\ BuiltRow(r).item = it /\ it \in Item
      /\ \A ep \in Episode :
           rows'[r][ep] = IF ep = it.ep THEN Append(rows[r][ep], BuiltRow(r))
                          ELSE rows[r][ep]
      /\ left'[r] = (IF it.gap THEN left[r] \ {it.ep} ELSE left[r])
      /\ pos'[r] = (IF it.gap THEN pos[r] ELSE pos[r] + 1)
  BY ExtendAt
<1>2. /\ pos[r] <= Len(batch[r]) + 1 /\ (left[r] # {} => pos[r] = 1)
      /\ \A ep \in Episode :
           Weight(rows[r][ep]) = (IF ep \in left[r] THEN 0 ELSE gaps[r][ep])
                                 + CountUpTo(batch[r], pos[r] - 1, ep)
  BY <1>1 DEF AccountsOf, RowsAccount, Building
<1>3. it \in NextItems(r)
  BY <1>1 DEF AccountsOf, ItemAtHand
<1>4. /\ Len(batch[r]) \in Nat /\ pos[r] \in Nat \ {0} /\ left[r] \subseteq Episode
      /\ \A ep \in Episode : gaps[r][ep] \in Nat /\ rows[r][ep] \in Seq(Row)
  BY DEF TypeOK
<1>5. \A ep \in Episode : Weight(rows[r][ep]) \in Nat
  BY <1>4, WeightType
<1>6. \A ep \in Episode :
        Weight(rows'[r][ep]) = Weight(rows[r][ep])
                               + (IF ep = it.ep THEN (IF it.gap THEN it.n ELSE 1) ELSE 0)
  <2>1. SUFFICES ASSUME NEW ep \in Episode
                 PROVE  Weight(rows'[r][ep]) = Weight(rows[r][ep])
                               + (IF ep = it.ep THEN (IF it.gap THEN it.n ELSE 1) ELSE 0)
    OBVIOUS
  <2>2. CASE ep = it.ep
    <3>1. Weight(Append(rows[r][ep], BuiltRow(r)))
            = Weight(rows[r][ep]) + (IF BuiltRow(r).item.gap THEN BuiltRow(r).item.n ELSE 1)
      BY <1>1, <1>4, WeightAppend
    <3> QED BY <1>1, <2>2, <3>1
  <2>3. CASE ep # it.ep
    BY <1>1, <1>5, <2>3
  <2> QED BY <2>2, <2>3
<1>7. ASSUME left[r] # {}, it.gap, it.ep \in left[r], it.n = gaps[r][it.ep]
      PROVE  RowsAccount(r)'
  <2>1. pos'[r] = pos[r] /\ left'[r] = left[r] \ {it.ep} /\ pos[r] = 1
    BY <1>1, <1>2, <1>7
  <2>2. \A ep \in Episode :
          Weight(rows'[r][ep]) = (IF ep \in left'[r] THEN 0 ELSE gaps'[r][ep])
                                 + CountUpTo(batch'[r], pos'[r] - 1, ep)
    <3>1. SUFFICES ASSUME NEW ep \in Episode
                   PROVE  Weight(rows'[r][ep]) = (IF ep \in left'[r] THEN 0 ELSE gaps'[r][ep])
                                 + CountUpTo(batch'[r], pos'[r] - 1, ep)
      OBVIOUS
    <3>2. CountUpTo(batch[r], 0, ep) = 0
      BY CountNone
    <3>3. pos[r] - 1 = 0 /\ pos'[r] - 1 = 0
      BY <2>1
    <3>4. Weight(rows[r][ep]) = (IF ep \in left[r] THEN 0 ELSE gaps[r][ep])
      BY <1>2, <1>4, <3>2, <3>3
    <3>5. Weight(rows'[r][ep]) = (IF ep \in left'[r] THEN 0 ELSE gaps[r][ep])
      <4>1. CASE ep = it.ep
        BY <1>4, <1>6, <1>7, <2>1, <3>4, <4>1
      <4>2. CASE ep # it.ep
        BY <1>4, <1>5, <1>6, <2>1, <3>4, <4>2
      <4> QED BY <4>1, <4>2
    <3> QED BY <1>1, <1>4, <3>2, <3>3, <3>5
  <2> QED BY <1>1, <1>2, <2>1, <2>2 DEF RowsAccount
<1>8. ASSUME left[r] = {}, ~it.gap, pos[r] \in 1 .. Len(batch[r]), it.ep = batch[r][pos[r]].ep
      PROVE  RowsAccount(r)'
  <2>1. pos'[r] = pos[r] + 1 /\ left'[r] = {}
    BY <1>1, <1>8
  <2>2. \A ep \in Episode :
          Weight(rows'[r][ep]) = (IF ep \in left'[r] THEN 0 ELSE gaps'[r][ep])
                                 + CountUpTo(batch'[r], pos'[r] - 1, ep)
    <3>1. SUFFICES ASSUME NEW ep \in Episode
                   PROVE  Weight(rows'[r][ep]) = (IF ep \in left'[r] THEN 0 ELSE gaps'[r][ep])
                                 + CountUpTo(batch'[r], pos'[r] - 1, ep)
      OBVIOUS
    <3>2. PICK k \in Nat : k = pos[r] - 1
      BY <1>4
    <3>3. /\ CountUpTo(batch[r], k + 1, ep) = CountUpTo(batch[r], k, ep)
                                              + (IF batch[r][k + 1].ep = ep THEN 1 ELSE 0)
          /\ CountUpTo(batch[r], k, ep) \in Nat
      BY CountNext, CountUpToType
    <3>4. pos[r] = k + 1 /\ pos'[r] - 1 = k + 1
      BY <1>4, <2>1, <3>2
    <3>5. batch[r][k + 1].ep = it.ep
      BY <1>8, <3>4
    <3>6. Weight(rows[r][ep]) = gaps[r][ep] + CountUpTo(batch[r], k, ep)
      BY <1>2, <1>8, <3>2
    <3>7. Weight(rows'[r][ep]) = Weight(rows[r][ep]) + (IF ep = it.ep THEN 1 ELSE 0)
      BY <1>6, <1>8
    <3>8. Weight(rows'[r][ep]) = gaps[r][ep] + CountUpTo(batch[r], k + 1, ep)
      BY <1>4, <3>3, <3>5, <3>6, <3>7
    <3> QED BY <1>1, <2>1, <3>4, <3>8
  <2> QED BY <1>1, <1>2, <1>4, <1>8, <2>1, <2>2 DEF RowsAccount
<1>9. RowsAccount(r)'
  BY <1>3, <1>7, <1>8, NextItemIs
<1>10. ItemAtHand(r)' /\ NothingLeft(r)'
  BY <1>1 DEF ItemAtHand, NothingLeft, AccountsOf, Building, HasQueue
<1> QED BY <1>9, <1>10 DEF AccountsOf

LEMMA AccountsAfter ==
  ASSUME TypeOK, NEW r \in Recorder, Control(r), AccountsOf(r),
         \/ Commit(r) \/ CommitCollides(r) \/ FlushFails(r) \/ CommitUnknown(r)
         \/ \E ep \in Episode : WriteHead(r, ep) \/ WriteHeadFails(r, ep)
         \/ Reset(r) \/ Crash(r)
  PROVE  AccountsOf(r)'
<1> SUFFICES /\ ~Building(r)' /\ gaps'[r] = NoLoss /\ left'[r] = {} /\ pos'[r] = 1
             /\ (state'[r] # "ready" => queue'[r] = <<>>)
             /\ (state'[r] # "ready" \/ pc'[r] \in {"heads", "exited"} => batch'[r] = <<>>)
             /\ (stop'[r] # "no" => state'[r] # "starting")
  BY DEF AccountsOf, RowsAccount, ItemAtHand, NothingLeft, Building, HasQueue
<1>1. CASE Commit(r)
  <2>1. /\ pc[r] = "build" /\ pc'[r] = "heads" /\ gaps'[r] = NoLoss /\ left' = left /\ pos'[r] = 1
        /\ batch'[r] = <<>> /\ state' = state /\ queue' = queue /\ stop' = stop
    BY <1>1 DEF Commit, Built, recorderVars, TypeOK
  <2>2. left[r] = {}
    BY <1>1 DEF Commit, Built, NextItems, GapItems
  <2> QED BY <2>1, <2>2 DEF AccountsOf, NothingLeft, Building, HasQueue
<1>2. CASE CommitCollides(r) \/ FlushFails(r) \/ CommitUnknown(r)
  <2>1. CarryLoss(r)
    BY <1>2 DEF CommitCollides, FlushFails, CommitUnknown
  <2>2. /\ pc'[r] \in {"idle", "exited"} /\ gaps'[r] = NoLoss /\ left'[r] = {} /\ pos'[r] = 1
        /\ batch'[r] = <<>> /\ state' = state /\ queue' = queue /\ stop' = stop
    BY <2>1 DEF CarryLoss, AfterFlush, TypeOK
  <2> QED BY <2>2 DEF AccountsOf, NothingLeft, Building, HasQueue
<1>3. CASE \E ep \in Episode : WriteHead(r, ep) \/ WriteHeadFails(r, ep)
  <2>1. PICK ep \in Episode : pc[r] = "heads" /\ HeadWritten(r, ep)
    BY <1>3 DEF WriteHead, WriteHeadFails
  <2>2. pc'[r] \in {"heads", "idle", "exited"}
    BY <2>1 DEF HeadWritten, AfterFlush, TypeOK
  <2>3. /\ gaps' = gaps /\ left' = left /\ pos' = pos /\ batch' = batch
        /\ state' = state /\ queue' = queue /\ stop' = stop
    BY <2>1 DEF HeadWritten, recorderVars
  <2> QED BY <2>1, <2>2, <2>3 DEF AccountsOf, NothingLeft, Building, HasQueue
<1>4. CASE Reset(r)
  <2>1. /\ pc'[r] = "idle" /\ gaps' = gaps /\ left' = left /\ pos' = pos /\ batch' = batch
        /\ queue'[r] = <<>> /\ stop'[r] = "no"
    BY <1>4 DEF Reset, TypeOK
  <2>2. ~Building(r) /\ batch[r] = <<>>
    <3>1. CASE stop[r] = "asked" /\ ~HasQueue(r)
      BY <3>1 DEF Control, AccountsOf, NothingLeft, Building
    <3>2. CASE stop[r] = "final" /\ pc[r] = "exited"
      BY <3>2 DEF AccountsOf, NothingLeft, Building
    <3>3. CASE stop[r] = "final" /\ pc[r] = "idle" /\ ~HasWork(r)
      BY <3>3 DEF HasWork, Building
    <3> QED BY <1>4, <3>1, <3>2, <3>3 DEF Reset
  <2> QED BY <2>1, <2>2 DEF AccountsOf, NothingLeft, Building, HasQueue
<1>5. CASE Crash(r)
  BY <1>5 DEF Crash, Building, TypeOK
<1> QED BY <1>1, <1>2, <1>3, <1>4, <1>5

LEMMA AccountStep ==
  ASSUME TypeOK, ControlOK, AccountInv, [Next]_vars
  PROVE  AccountInv'
<1>1. CASE UNCHANGED vars
  <2>1. \A q \in Recorder : Untouched(q)
    BY <1>1 DEF vars, recorderVars, drainVars, Untouched
  <2> QED BY <2>1, AccountsFrame DEF AccountInv
<1>2. ASSUME NEW r \in Recorder, StepOf(r), NEW q \in Recorder
      PROVE  AccountsOf(q)'
  <2>1. CASE q # r
    BY <1>2, <2>1, OthersUntouched, AccountsFrame DEF AccountInv
  <2>2. AccountsOf(r) /\ Control(r)
    BY <1>2 DEF AccountInv, ControlOK
  <2>3. AccountsOf(r)'
    BY <1>2, <2>2, AccountsOutside, AccountsIdle, AccountsFlush, AccountsPickUp, AccountsExtend,
       AccountsAfter DEF StepOf, Drain
  <2> QED BY <2>1, <2>3
<1>3. Next => \E r \in Recorder : StepOf(r)
  BY DEF Next, StepOf
<1> QED BY <1>1, <1>2, <1>3 DEF AccountInv

LEMMA InitAccounts == Init => AccountInv
BY DEF Init, AccountInv, AccountsOf, RowsAccount, ItemAtHand, NothingLeft, Building, HasQueue

(***************************************************************************)
(* What a step of a recorder does to what it owes: nothing, one event more *)
(* given, a batch settled by its commit, or one settled and kept.          *)
(***************************************************************************)

LEMMA CountOne ==
  ASSUME NEW e \in Event, NEW u, u = <<e>>, NEW ep
  PROVE  u \in Seq(Event) /\ Len(u) = 1 /\ u[1] = e /\ CountOf(u, ep) = IF e.ep = ep THEN 1 ELSE 0
<1>1. u \in Seq(Event) /\ Len(u) = 1 /\ u[1] = e
  OBVIOUS
<1>2. CountUpTo(u, 0 + 1, ep) = CountUpTo(u, 0, ep) + (IF u[0 + 1].ep = ep THEN 1 ELSE 0)
  BY CountNext
<1>3. CountUpTo(u, 1, ep) = IF e.ep = ep THEN 1 ELSE 0
  BY <1>1, <1>2, CountNone
<1> QED BY <1>1, <1>3, CountAll

(* u is s with the event e behind it.                                      *)
Gains(u, s, e) == s \in Seq(Event) /\ e \in Event /\ u = Append(s, e)

LEMMA CountAppend ==
  ASSUME NEW t, NEW s, NEW e, Gains(t, s, e), NEW ep
  PROVE  /\ \A i \in 0 .. Len(s) : CountUpTo(t, i, ep) = CountUpTo(s, i, ep)
         /\ CountUpTo(t, Len(s) + 1, ep) = CountOf(s, ep) + (IF e.ep = ep THEN 1 ELSE 0)
         /\ CountOf(t, ep) = CountOf(s, ep) + (IF e.ep = ep THEN 1 ELSE 0)
<1>1. PICK u : u = <<e>>
  OBVIOUS
<1>2. u \in Seq(Event) /\ Len(u) = 1 /\ CountOf(u, ep) = IF e.ep = ep THEN 1 ELSE 0
  BY <1>1, CountOne DEF Gains
<1>3. Joins(t, s, u)
  <2>1. PICK a \in Seq(Event) : a = s
    BY DEF Gains
  <2>2. PICK b \in Event : b = e
    BY DEF Gains
  <2>3. Append(a, b) = a \o <<b>>
    OBVIOUS
  <2>4. t = Append(s, e)
    BY DEF Gains
  <2> QED BY <1>1, <1>2, <2>1, <2>2, <2>3, <2>4 DEF Joins
<1>4. CountOf(t, ep) = CountOf(s, ep) + CountOf(u, ep)
  BY <1>3, CountJoin
<1>5. \A i \in 0 .. Len(s) : CountUpTo(t, i, ep) = CountUpTo(s, i, ep)
  <2>1. SUFFICES ASSUME NEW i \in 0 .. Len(s) PROVE CountUpTo(t, i, ep) = CountUpTo(s, i, ep)
    OBVIOUS
  <2>2. Len(s) \in Nat
    BY DEF Gains
  <2>3. i \in Nat
    BY <2>2
  <2>4. \A j \in 1 .. i : t[j] = s[j]
    BY <2>2 DEF Gains
  <2> QED BY <2>3, <2>4, CountSame
<1>6. t \in Seq(Event) /\ Len(t) = Len(s) + 1
  BY DEF Gains
<1>7. CountUpTo(t, Len(s) + 1, ep) = CountOf(t, ep)
  BY <1>6, CountAll
<1> QED BY <1>2, <1>4, <1>5, <1>7

LEMMA CountTail ==
  ASSUME NEW s \in Seq(Event), s # <<>>, NEW ep
  PROVE  /\ Head(s) \in Event /\ Tail(s) \in Seq(Event) /\ Len(s) = Len(Tail(s)) + 1
         /\ s[1] = Head(s) /\ \A i \in 1 .. Len(Tail(s)) : Tail(s)[i] = s[i + 1]
         /\ \A i \in 0 .. Len(Tail(s)) :
              CountUpTo(s, i + 1, ep) = (IF Head(s).ep = ep THEN 1 ELSE 0) + CountUpTo(Tail(s), i, ep)
         /\ CountOf(s, ep) = (IF Head(s).ep = ep THEN 1 ELSE 0) + CountOf(Tail(s), ep)
<1>1. PICK e \in Event : e = Head(s)
  BY HeadTailProperties
<1>2. PICK t \in Seq(Event) : t = Tail(s)
  BY HeadTailProperties
<1>3. PICK u : u = <<e>>
  OBVIOUS
<1>4. u \in Seq(Event) /\ Len(u) = 1 /\ u[1] = e /\ CountOf(u, ep) = IF e.ep = ep THEN 1 ELSE 0
  BY <1>3, CountOne
<1>5. Joins(s, u, t)
  BY <1>1, <1>2, <1>3, <1>4 DEF Joins
<1>6. Len(s) = Len(t) + 1 /\ s[1] = e /\ \A i \in 1 .. Len(t) : t[i] = s[i + 1]
  BY <1>1, <1>2
<1>7. /\ \A i \in 0 .. Len(t) : CountUpTo(s, Len(u) + i, ep) = CountOf(u, ep) + CountUpTo(t, i, ep)
      /\ CountOf(s, ep) = CountOf(u, ep) + CountOf(t, ep)
  BY <1>5, CountJoin
<1>8. \A i \in 0 .. Len(t) : CountUpTo(s, i + 1, ep) = (IF e.ep = ep THEN 1 ELSE 0) + CountUpTo(t, i, ep)
  <2>1. \A i \in 0 .. Len(t) : Len(u) + i = i + 1
    BY <1>4
  <2> QED BY <1>4, <1>7, <2>1
<1> QED BY <1>1, <1>2, <1>4, <1>6, <1>7, <1>8

(* What a flush has built when nothing is left to build.                   *)
LEMMA BuiltWeight ==
  ASSUME TypeOK, NEW r \in Recorder, AccountsOf(r), Built(r), NEW ep \in Episode
  PROVE  Weight(rows[r][ep]) = gaps[r][ep] + CountOf(batch[r], ep)
<1>1. left[r] = {}
  BY DEF Built, NextItems, GapItems
<1>2. ~(pos[r] <= Len(batch[r]))
  BY <1>1 DEF Built, NextItems, EventItems
<1>3. /\ pos[r] <= Len(batch[r]) + 1
      /\ Weight(rows[r][ep]) = gaps[r][ep] + CountUpTo(batch[r], pos[r] - 1, ep)
  BY <1>1 DEF AccountsOf, RowsAccount, Built, Building
<1>4. pos[r] \in Nat /\ batch[r] \in Seq(Event) /\ Len(batch[r]) \in Nat
  BY DEF TypeOK
<1>5. pos[r] - 1 = Len(batch[r])
  BY <1>2, <1>3, <1>4
<1>6. CountUpTo(batch[r], Len(batch[r]), ep) = CountOf(batch[r], ep)
  BY <1>4, CountAll
<1> QED BY <1>3, <1>5, <1>6

(***************************************************************************)
(* What each step does to what a recorder owes: it keeps it, adds an event *)
(* that was given, settles it by rows, or forgets it.                      *)
(***************************************************************************)
Kept(r) == \A ep \in Episode : Outstanding(r, ep)' = Outstanding(r, ep)

Quiet(r) == Kept(r) /\ log' = log /\ given' = given

Given(r, ep) ==
  /\ log' = log
  /\ given' = [given EXCEPT ![ep] = @ + 1]
  /\ \A e \in Episode : Outstanding(r, e)' = Outstanding(r, e) + (IF e = ep THEN 1 ELSE 0)

Settled(r) ==
  /\ Built(r) /\ AppendRows(r) /\ given' = given
  /\ \A ep \in Episode : Outstanding(r, ep)' = Outstanding(r, ep) - Weight(rows[r][ep])

Doubled(r) == Built(r) /\ AppendRows(r) /\ given' = given /\ Kept(r)

Forgotten(r) ==
  /\ log' = log /\ Forgive(r)
  /\ \A ep \in Episode : Outstanding(r, ep)' \in 0 .. Outstanding(r, ep)

LEMMA SameOutstanding ==
  ASSUME NEW r \in Recorder,
         queue'[r] = queue[r], pending'[r] = pending[r], gaps'[r] = gaps[r], batch'[r] = batch[r]
  PROVE  Kept(r)
BY DEF Kept, Outstanding

LEMMA TakeKeeps ==
  ASSUME TypeOK, NEW r \in Recorder, Take(r)
  PROVE  Kept(r)
<1>1. /\ queue[r] # <<>> /\ queue'[r] = Tail(queue[r]) /\ batch'[r] = Append(batch[r], Head(queue[r]))
      /\ pending' = pending /\ gaps' = gaps
  BY DEF Take, TypeOK
<1>2. queue[r] \in Seq(Event) /\ batch[r] \in Seq(Event)
  BY DEF TypeOK
<1>3. \A ep \in Episode : /\ Head(queue[r]) \in Event /\ Tail(queue[r]) \in Seq(Event)
                          /\ CountOf(queue[r], ep) = (IF Head(queue[r]).ep = ep THEN 1 ELSE 0)
                                                     + CountOf(Tail(queue[r]), ep)
  BY <1>1, <1>2, CountTail
<1>4. \A ep \in Episode : CountOf(batch'[r], ep)
                            = CountOf(batch[r], ep) + (IF Head(queue[r]).ep = ep THEN 1 ELSE 0)
  <2>1. \A ep \in Episode : Gains(batch'[r], batch[r], Head(queue[r]))
    BY <1>1, <1>2, <1>3 DEF Gains
  <2> QED BY <2>1, CountAppend
<1>5. \A ep \in Episode : /\ CountOf(batch[r], ep) \in Nat /\ CountOf(Tail(queue[r]), ep) \in Nat
                          /\ pending[r][ep] \in Nat /\ gaps[r][ep] \in Nat
  BY <1>2, <1>3, CountOfType, ZenonT(60) DEF TypeOK
<1>6. \A ep \in Episode : CountOf(batch'[r], ep) + CountOf(queue'[r], ep)
                            = CountOf(batch[r], ep) + CountOf(queue[r], ep)
  BY <1>1, <1>3, <1>4, <1>5
<1> QED BY <1>1, <1>3, <1>4, <1>5, <1>6, SMTT(30) DEF Kept, Outstanding

LEMMA DrainRestKeeps ==
  ASSUME TypeOK, NEW r \in Recorder, DrainRest(r)
  PROVE  Kept(r)
<1>1. /\ queue'[r] = <<>> /\ batch'[r] = batch[r] \o queue[r]
      /\ pending' = pending /\ gaps' = gaps
  BY DEF DrainRest, TypeOK
<1>2. queue[r] \in Seq(Event) /\ batch[r] \in Seq(Event)
  BY DEF TypeOK
<1>3. \A ep \in Episode : CountOf(batch'[r], ep) = CountOf(batch[r], ep) + CountOf(queue[r], ep)
  <2>1. Joins(batch'[r], batch[r], queue[r])
    BY <1>1, <1>2 DEF Joins
  <2> QED BY <2>1, CountJoin
<1>4. \A ep \in Episode : CountOf(queue'[r], ep) = 0
  BY <1>1, CountEmpty
<1>5. \A ep \in Episode : /\ CountOf(batch[r], ep) \in Nat /\ CountOf(queue[r], ep) \in Nat
                          /\ pending[r][ep] \in Nat /\ gaps[r][ep] \in Nat
  BY <1>2, CountOfType DEF TypeOK
<1> QED BY <1>1, <1>3, <1>4, <1>5 DEF Kept, Outstanding

LEMMA FlushKeeps ==
  ASSUME TypeOK, NEW r \in Recorder, AccountsOf(r), Flush(r)
  PROVE  Kept(r)
<1>1. /\ queue' = queue /\ batch' = batch /\ pending'[r] = NoLoss /\ gaps'[r] = pending[r]
  BY DEF Flush, TakenLosses, TypeOK
<1>2. gaps[r] = NoLoss
  BY DEF Flush, AccountsOf, NothingLeft, Building
<1>3. \A ep \in Episode : pending[r][ep] \in Nat /\ NoLoss[ep] = 0
  BY DEF TypeOK, NoLoss
<1>4. \A ep \in Episode : CountOf(batch[r], ep) \in Nat /\ CountOf(queue[r], ep) \in Nat
  BY CountOfType DEF TypeOK
<1>5. \A ep \in Episode : pending'[r][ep] = 0 /\ gaps'[r][ep] = pending[r][ep] /\ gaps[r][ep] = 0
  BY <1>1, <1>2, <1>3
<1> QED BY <1>1, <1>3, <1>4, <1>5 DEF Kept, Outstanding

LEMMA CarryLossKeeps ==
  ASSUME TypeOK, NEW r \in Recorder, CarryLoss(r)
  PROVE  Kept(r) /\ given' = given
<1>1. /\ queue' = queue /\ batch'[r] = <<>> /\ gaps'[r] = NoLoss /\ given' = given
      /\ pending'[r] = [ep \in Episode |-> Carried(r, ep)]
  BY DEF CarryLoss, TypeOK
<1>2. \A ep \in Episode : /\ pending'[r][ep] = pending[r][ep] + gaps[r][ep] + CountOf(batch[r], ep)
                          /\ gaps'[r][ep] = 0 /\ CountOf(batch'[r], ep) = 0
  BY <1>1, CountEmpty DEF Carried, NoLoss
<1>3. \A ep \in Episode : /\ pending[r][ep] \in Nat /\ gaps[r][ep] \in Nat
                          /\ CountOf(batch[r], ep) \in Nat /\ CountOf(queue[r], ep) \in Nat
  BY CountOfType DEF TypeOK
<1> QED BY <1>1, <1>2, <1>3 DEF Kept, Outstanding

LEMMA CommitSettles ==
  ASSUME TypeOK, NEW r \in Recorder, AccountsOf(r), Commit(r)
  PROVE  Settled(r)
<1>1. /\ queue' = queue /\ pending' = pending /\ batch'[r] = <<>> /\ gaps'[r] = NoLoss
      /\ given' = given /\ Built(r) /\ AppendRows(r)
  BY DEF Commit, TypeOK, recorderVars, historyVars
<1>2. \A ep \in Episode : Weight(rows[r][ep]) = gaps[r][ep] + CountOf(batch[r], ep)
  BY <1>1, BuiltWeight
<1>3. \A ep \in Episode : gaps'[r][ep] = 0 /\ CountOf(batch'[r], ep) = 0
  BY <1>1, CountEmpty DEF NoLoss
<1>4. \A ep \in Episode : /\ pending[r][ep] \in Nat /\ gaps[r][ep] \in Nat
                          /\ CountOf(batch[r], ep) \in Nat /\ CountOf(queue[r], ep) \in Nat
  BY CountOfType DEF TypeOK
<1>5. \A ep \in Episode : Outstanding(r, ep)' = Outstanding(r, ep) - Weight(rows[r][ep])
  BY <1>1, <1>2, <1>3, <1>4 DEF Outstanding
<1> QED BY <1>1, <1>5 DEF Settled

LEMMA EnqueueGives ==
  ASSUME TypeOK, NEW r \in Recorder, NEW ep \in Episode, Enqueue(r, ep)
  PROVE  Given(r, ep)
<1>1. PICK e : e = [ep |-> ep, n |-> given[ep] + 1]
  OBVIOUS
<1>2. e \in Event /\ e.ep = ep
  BY <1>1 DEF Event, TypeOK
<1>3. /\ queue'[r] = Append(queue[r], e) /\ batch' = batch /\ gaps' = gaps /\ pending' = pending
      /\ log' = log /\ given' = [given EXCEPT ![ep] = @ + 1]
  BY <1>1 DEF Enqueue, TypeOK, drainVars, dbVars
<1>4. \A x \in Episode : CountOf(queue'[r], x) = CountOf(queue[r], x) + (IF ep = x THEN 1 ELSE 0)
  <2>1. Gains(queue'[r], queue[r], e)
    BY <1>2, <1>3 DEF Gains, TypeOK
  <2> QED BY <1>2, <2>1, CountAppend
<1>5. \A x \in Episode : /\ pending[r][x] \in Nat /\ gaps[r][x] \in Nat
                         /\ CountOf(batch[r], x) \in Nat /\ CountOf(queue[r], x) \in Nat
  BY CountOfType DEF TypeOK
<1>6. \A x \in Episode : Outstanding(r, x)' = Outstanding(r, x) + (IF x = ep THEN 1 ELSE 0)
  BY <1>3, <1>4, <1>5 DEF Outstanding
<1> QED BY <1>3, <1>6 DEF Given

LEMMA NoteLossGives ==
  ASSUME TypeOK, NEW r \in Recorder, NEW ep \in Episode, NoteLoss(r, ep)
  PROVE  Given(r, ep) \/ Quiet(r)
<1>1. queue' = queue /\ batch' = batch /\ gaps' = gaps /\ log' = log
  BY DEF NoteLoss, drainVars, dbVars
<1>2. CASE Tracks(r, ep)
  <2>1. given' = [given EXCEPT ![ep] = @ + 1] /\ pending' = [pending EXCEPT ![r][ep] = @ + 1]
    BY <1>2 DEF NoteLoss
  <2>2. \A x \in Episode : pending'[r][x] = pending[r][x] + (IF x = ep THEN 1 ELSE 0)
    BY <2>1, SMTT(30) DEF TypeOK
  <2>3. \A x \in Episode : /\ pending[r][x] \in Nat /\ gaps[r][x] \in Nat
                           /\ CountOf(batch[r], x) \in Nat /\ CountOf(queue[r], x) \in Nat
    BY CountOfType DEF TypeOK
  <2>4. \A x \in Episode : Outstanding(r, x)' = Outstanding(r, x) + (IF x = ep THEN 1 ELSE 0)
    BY <1>1, <2>2, <2>3 DEF Outstanding
  <2> QED BY <1>1, <2>1, <2>4 DEF Given
<1>3. CASE ~Tracks(r, ep)
  <2>1. given' = given /\ pending' = pending
    BY <1>3 DEF NoteLoss
  <2> QED BY <1>1, <2>1, SameOutstanding DEF Quiet
<1> QED BY <1>2, <1>3

LEMMA ResetForgets ==
  ASSUME TypeOK, NEW r \in Recorder, Reset(r) \/ Crash(r)
  PROVE  Forgotten(r)
<1>1. /\ log' = log /\ Forgive(r) /\ queue'[r] = <<>> /\ pending'[r] = NoLoss
  BY DEF Reset, Crash, TypeOK, dbVars
<1>2. \/ gaps'[r] = gaps[r] /\ batch'[r] = batch[r]
      \/ gaps'[r] = NoLoss /\ batch'[r] = <<>>
  BY DEF Reset, Crash, TypeOK
<1>3. \A x \in Episode : /\ pending[r][x] \in Nat /\ gaps[r][x] \in Nat /\ NoLoss[x] = 0
                         /\ CountOf(batch[r], x) \in Nat /\ CountOf(queue[r], x) \in Nat
  BY CountOfType DEF TypeOK, NoLoss
<1>4. \A x \in Episode : pending'[r][x] = 0 /\ CountOf(queue'[r], x) = 0
  BY <1>1, <1>3, CountEmpty
<1>5. \A x \in Episode : \/ gaps'[r][x] = gaps[r][x] /\ CountOf(batch'[r], x) = CountOf(batch[r], x)
                         \/ gaps'[r][x] = 0 /\ CountOf(batch'[r], x) = 0
  BY <1>2, <1>3, CountEmpty
<1>6. \A x \in Episode : Outstanding(r, x)' \in 0 .. Outstanding(r, x)
  BY <1>3, <1>4, <1>5 DEF Outstanding
<1> QED BY <1>1, <1>6 DEF Forgotten

Effect(r) ==
  \/ Quiet(r)
  \/ \E ep \in Episode : Given(r, ep)
  \/ Settled(r) \/ Doubled(r)

LEMMA StepEffect ==
  ASSUME TypeOK, NEW r \in Recorder, AccountsOf(r), StepOf(r), ~(Reset(r) \/ Crash(r))
  PROVE  Effect(r)
<1>1. CASE Connect(r) \/ Cancel(r)
  <2>1. queue' = queue /\ pending' = pending /\ gaps' = gaps /\ batch' = batch /\ log' = log /\ given' = given
    BY <1>1 DEF Connect, ConnectOK, ConnectFails, Cancel, drainVars, dbVars, historyVars
  <2> QED BY <2>1, SameOutstanding DEF Effect, Quiet
<1>2. CASE Caller(r)
  <2>1. CASE \E ep \in Episode : Enqueue(r, ep)
    BY <2>1, EnqueueGives DEF Effect
  <2>2. CASE \E ep \in Episode : Refuse(r, ep)
    <3>1. queue' = queue /\ pending' = pending /\ gaps' = gaps /\ batch' = batch /\ log' = log /\ given' = given
      BY <2>2 DEF Refuse, drainVars, dbVars
    <3> QED BY <3>1, SameOutstanding DEF Effect, Quiet
  <2> QED BY <1>2, <2>1, <2>2 DEF Caller
<1>3. CASE \E ep \in Episode : NoteLoss(r, ep)
  BY <1>3, NoteLossGives DEF Effect
<1>4. CASE Take(r)
  <2>1. log' = log /\ given' = given
    BY <1>4 DEF Take, dbVars, historyVars
  <2> QED BY <1>4, <2>1, TakeKeeps DEF Effect, Quiet
<1>5. CASE Flush(r)
  <2>1. log' = log /\ given' = given
    BY <1>5 DEF Flush, dbVars, historyVars
  <2> QED BY <1>5, <2>1, FlushKeeps DEF Effect, Quiet
<1>6. CASE CacheHit(r) \/ ReadTail(r)
  <2>1. queue' = queue /\ pending' = pending /\ gaps' = gaps /\ batch' = batch /\ log' = log /\ given' = given
    BY <1>6 DEF CacheHit, ReadTail, recorderVars, dbVars, historyVars
  <2> QED BY <2>1, SameOutstanding DEF Effect, Quiet
<1>7. CASE ReadAnchor(r) \/ ReadAnchorFails(r)
  <2>1. queue' = queue /\ pending' = pending /\ gaps' = gaps /\ batch' = batch /\ log' = log /\ given' = given
    BY <1>7 DEF ReadAnchor, ReadAnchorFails, CacheHead, dbVars
  <2> QED BY <2>1, SameOutstanding DEF Effect, Quiet
<1>8. CASE Extend(r)
  <2>1. queue' = queue /\ pending' = pending /\ gaps' = gaps /\ batch' = batch /\ log' = log /\ given' = given
    BY <1>8 DEF Extend, dbVars, historyVars
  <2> QED BY <2>1, SameOutstanding DEF Effect, Quiet
<1>9. CASE Commit(r)
  BY <1>9, CommitSettles DEF Effect
<1>10. CASE CommitCollides(r) \/ FlushFails(r)
  <2>1. CarryLoss(r) /\ log' = log
    BY <1>10 DEF CommitCollides, FlushFails
  <2> QED BY <2>1, CarryLossKeeps DEF Effect, Quiet
<1>11. CASE CommitUnknown(r)
  <2>1. CarryLoss(r) /\ AppendRows(r) /\ Built(r)
    BY <1>11 DEF CommitUnknown
  <2> QED BY <2>1, CarryLossKeeps DEF Effect, Doubled
<1>12. CASE \E ep \in Episode : WriteHead(r, ep) \/ WriteHeadFails(r, ep)
  <2>1. queue' = queue /\ pending' = pending /\ gaps' = gaps /\ batch' = batch /\ log' = log /\ given' = given
    BY <1>12 DEF WriteHead, WriteHeadFails, HeadWritten, recorderVars
  <2> QED BY <2>1, SameOutstanding DEF Effect, Quiet
<1>13. CASE DrainRest(r)
  <2>1. log' = log /\ given' = given
    BY <1>13 DEF DrainRest, dbVars, historyVars
  <2> QED BY <1>13, <2>1, DrainRestKeeps DEF Effect, Quiet
<1> QED BY <1>1, <1>2, <1>3, <1>4, <1>5, <1>6, <1>7, <1>8, <1>9, <1>10, <1>11, <1>12, <1>13
        DEF StepOf, Drain

(* What all recorders owe moves by what the one that steps owes.           *)
LEMMA OwedType ==
  ASSUME IsFiniteSet(Recorder), TypeOK, NEW ep \in Episode
  PROVE  Owed(ep) \in Nat
<1>1. [q \in Recorder |-> Outstanding(q, ep)] \in [Recorder -> Nat]
  BY OutstandingType
<1> QED BY <1>1, TotalType DEF Owed

LEMMA OwedMoves ==
  ASSUME IsFiniteSet(Recorder), TypeOK, TypeOK', NEW r \in Recorder, StepOf(r), NEW ep \in Episode
  PROVE  /\ Outstanding(r, ep) \in Nat /\ Outstanding(r, ep)' \in Nat
         /\ Owed(ep) \in Nat /\ Owed(ep)' \in Nat
         /\ Owed(ep) >= Outstanding(r, ep)
         /\ Owed(ep)' = Owed(ep) - Outstanding(r, ep) + Outstanding(r, ep)'
<1>1. \A q \in Recorder : Outstanding(q, ep) \in Nat
  BY OutstandingType
<1>2. \A q \in Recorder : Outstanding(q, ep)' \in Nat
  <2>1. \A q \in Recorder : /\ pending'[q][ep] \in Nat /\ gaps'[q][ep] \in Nat
                             /\ batch'[q] \in Seq(Event) /\ queue'[q] \in Seq(Event)
    BY DEF TypeOK
  <2>2. \A q \in Recorder : CountOf(batch'[q], ep) \in Nat /\ CountOf(queue'[q], ep) \in Nat
    BY <2>1, CountOfType
  <2> QED BY <2>1, <2>2 DEF Outstanding
<1>3. PICK f \in [Recorder -> Nat] : f = [q \in Recorder |-> Outstanding(q, ep)]
  BY <1>1
<1>4. PICK g \in [Recorder -> Nat] : g = [q \in Recorder |-> Outstanding(q, ep)']
  BY <1>2
<1>5. \A q \in Recorder \ {r} : g[q] = f[q]
  <2>1. \A q \in Recorder \ {r} : Outstanding(q, ep)' = Outstanding(q, ep)
    BY OthersUntouched, SameOutstanding DEF Untouched, Kept
  <2> QED BY <2>1, <1>3, <1>4
<1>6. Total(g) = Total(f) - f[r] + g[r] /\ Total(f) >= f[r]
  BY <1>5, TotalUpdate
<1>7. Owed(ep) = Total(f)
  BY <1>3 DEF Owed
<1>8. Owed(ep)' = Total(g)
  BY <1>4 DEF Owed, Total, Units
<1>9. Total(f) \in Nat /\ Total(g) \in Nat
  BY TotalType
<1>10. f[r] = Outstanding(r, ep) /\ g[r] = Outstanding(r, ep)'
  BY <1>3, <1>4
<1> QED BY <1>1, <1>2, <1>6, <1>7, <1>8, <1>9, <1>10

LEMMA AppendWeighs ==
  ASSUME TypeOK, NEW r \in Recorder, AppendRows(r), NEW ep \in Episode
  PROVE  /\ log'[ep] = log[ep] \o rows[r][ep]
         /\ Weight(log'[ep]) = Weight(log[ep]) + Weight(rows[r][ep])
         /\ Weight(log[ep]) \in Nat /\ Weight(rows[r][ep]) \in Nat
<1>1. PICK s \in Seq(Row) : s = log[ep]
  BY DEF TypeOK
<1>2. PICK t \in Seq(Row) : t = rows[r][ep]
  BY DEF TypeOK
<1>3. log'[ep] = s \o t
  BY <1>1, <1>2 DEF AppendRows
<1>4. PICK u : u = s \o t
  OBVIOUS
<1>5. Weight(u) = Weight(s) + Weight(t)
  BY <1>4, WeightConcat
<1>6. Weight(s) \in Nat /\ Weight(t) \in Nat
  BY WeightType
<1> QED BY <1>1, <1>2, <1>3, <1>4, <1>5, <1>6

LEMMA SilentStep ==
  ASSUME IsFiniteSet(Recorder), TypeOK, ControlOK, AccountInv, NoSilentLoss, [Next]_vars, TypeOK'
  PROVE  NoSilentLoss'
<1>1. CASE UNCHANGED vars
  BY <1>1 DEF vars, recorderVars, drainVars, dbVars, historyVars, NoSilentLoss, Owed, Outstanding
<1>2. ASSUME NEW r \in Recorder, StepOf(r), NEW ep \in Episode
      PROVE  given'[ep] <= Weight(log'[ep]) + Owed(ep)'
  <2>1. Effect(r) \/ Forgotten(r)
    BY <1>2, StepEffect, ResetForgets DEF AccountInv
  <2>2. /\ Outstanding(r, ep) \in Nat /\ Outstanding(r, ep)' \in Nat
        /\ Owed(ep) \in Nat /\ Owed(ep)' \in Nat
        /\ Owed(ep) >= Outstanding(r, ep)
        /\ Owed(ep)' = Owed(ep) - Outstanding(r, ep) + Outstanding(r, ep)'
    BY <1>2, OwedMoves
  <2>3. given[ep] <= Weight(log[ep]) + Owed(ep) /\ given[ep] \in Nat /\ Weight(log[ep]) \in Nat
    BY WeightType DEF NoSilentLoss, TypeOK
  <2>4. CASE Quiet(r)
    BY <2>2, <2>3, <2>4 DEF Quiet, Kept
  <2>5. CASE \E e \in Episode : Given(r, e)
    <3>1. PICK e \in Episode : Given(r, e)
      BY <2>5
    <3>2. given'[ep] = given[ep] + (IF ep = e THEN 1 ELSE 0)
      <4>1. given' = [given EXCEPT ![e] = @ + 1] /\ given \in [Episode -> Nat]
        BY <3>1 DEF Given, TypeOK
      <4> QED BY <4>1
    <3>3. Outstanding(r, ep)' = Outstanding(r, ep) + (IF ep = e THEN 1 ELSE 0) /\ log' = log
      BY <3>1 DEF Given
    <3> QED BY <2>2, <2>3, <3>2, <3>3
  <2>6. CASE Settled(r)
    <3>1. /\ Weight(log'[ep]) = Weight(log[ep]) + Weight(rows[r][ep])
          /\ Weight(rows[r][ep]) \in Nat
      BY <2>6, AppendWeighs DEF Settled
    <3>2. given' = given /\ Outstanding(r, ep)' = Outstanding(r, ep) - Weight(rows[r][ep])
      BY <2>6 DEF Settled
    <3> QED BY <2>2, <2>3, <3>1, <3>2
  <2>7. CASE Doubled(r)
    <3>1. /\ Weight(log'[ep]) = Weight(log[ep]) + Weight(rows[r][ep])
          /\ Weight(rows[r][ep]) \in Nat
      BY <2>7, AppendWeighs DEF Doubled
    <3>2. given' = given /\ Outstanding(r, ep)' = Outstanding(r, ep)
      BY <2>7 DEF Doubled, Kept
    <3> QED BY <2>2, <2>3, <3>1, <3>2
  <2>8. CASE Forgotten(r)
    <3>1. log' = log /\ Outstanding(r, ep)' \in 0 .. Outstanding(r, ep)
      BY <2>8 DEF Forgotten
    <3>2. given'[ep] = IF given[ep] > Outstanding(r, ep) THEN given[ep] - Outstanding(r, ep) ELSE 0
      BY <2>8 DEF Forgotten, Forgive
    <3> QED BY <2>2, <2>3, <3>1, <3>2
  <2> QED BY <2>1, <2>4, <2>5, <2>6, <2>7, <2>8 DEF Effect
<1>3. Next => \E r \in Recorder : StepOf(r)
  BY DEF Next, StepOf
<1> QED BY <1>1, <1>2, <1>3 DEF NoSilentLoss

(* Prefixes of a concatenation.                                            *)
LEMMA PrefixOf ==
  ASSUME NEW S, NEW s \in Seq(S), NEW k \in 1 .. Len(s)
  PROVE  SubSeq(s, 1, k) \in Seq(S)
OBVIOUS

LEMMA PrefixWhole ==
  ASSUME NEW S, NEW s \in Seq(S), NEW k, k = Len(s)
  PROVE  SubSeq(s, 1, k) = s
BY SubSeqFull

LEMMA PrefixWithin ==
  ASSUME NEW S, NEW s \in Seq(S), NEW t \in Seq(S), NEW u, u = s \o t, NEW j \in 1 .. Len(s)
  PROVE  SubSeq(u, 1, j) = SubSeq(s, 1, j)
<1>1. 1 \in 1 .. Len(s)
  OBVIOUS
<1> QED BY <1>1, SubSeqOfConcat1

LEMMA PrefixAcross ==
  ASSUME NEW S, NEW s \in Seq(S), NEW t \in Seq(S), NEW u, u = s \o t, NEW j \in 1 .. Len(t),
         NEW n, n = Len(s) + j
  PROVE  SubSeq(u, 1, n) = s \o SubSeq(t, 1, j)
<1>1. PICK k \in Nat : k = Len(s)
  OBVIOUS
<1>2. PICK m \in Nat : m = Len(t)
  OBVIOUS
<1>3. u \in Seq(S) /\ Len(u) = k + m
  BY <1>1, <1>2
<1>4. CASE k = 0
  <2>1. s = <<>>
    BY <1>1, <1>4, EmptySeq
  <2>2. u = t
    BY <2>1
  <2>3. n = j
    BY <1>1, <1>4
  <2>4. SubSeq(t, 1, j) \in Seq(S)
    BY PrefixOf
  <2> QED BY <2>1, <2>2, <2>3, <2>4
<1>5. CASE k > 0
  <2>1. SubSeq(u, 1, k) = s
    <3>1. k \in 1 .. Len(s)
      BY <1>1, <1>5
    <3>2. SubSeq(u, 1, k) = SubSeq(s, 1, k)
      BY <3>1, PrefixWithin
    <3> QED BY <1>1, <3>2, PrefixWhole
  <2>2. SubSeq(u, k + 1, k + j) = SubSeq(t, 1, j)
    <3>1. k + 1 \in Len(s)+1 .. Len(s)+Len(t) /\ k + j \in Len(s)+1 .. Len(s)+Len(t)
      BY <1>1, <1>2
    <3>2. (k + 1) - Len(s) = 1 /\ (k + j) - Len(s) = j
      BY <1>1
    <3>3. SubSeq(s \o t, k + 1, k + j) = SubSeq(t, (k + 1) - Len(s), (k + j) - Len(s))
      BY <3>1, SubSeqOfConcat2
    <3> QED BY <3>2, <3>3
  <2>3. SubSeq(u, 1, k) \o SubSeq(u, k + 1, k + j) = SubSeq(u, 1, k + j)
    <3>1. 1 \in 1 .. Len(u) + 1 /\ k \in 1 - 1 .. Len(u) /\ k + j \in k .. Len(u)
      BY <1>2, <1>3
    <3> QED BY <1>3, <3>1, ConcatAdjacentSubSeq
  <2> QED BY <1>1, <2>1, <2>2, <2>3
<1> QED BY <1>4, <1>5

(* Rows in place, across a concatenation.                                  *)
LEMMA PlaceConcat ==
  ASSUME NEW s \in Seq(Row), NEW t \in Seq(Row), NEW u, u = s \o t, NEW n \in Nat,
         InPlace(s, n), InPlace(t, n + Weight(s))
  PROVE  InPlace(u, n)
<1>1. PICK k \in Nat : k = Len(s)
  OBVIOUS
<1>2. PICK m \in Nat : m = Len(t)
  OBVIOUS
<1>3. u \in Seq(Row) /\ Len(u) = k + m /\ DOMAIN u = 1 .. k + m
      /\ (\A i \in 1 .. k : u[i] = s[i]) /\ (\A i \in 1 .. m : u[k + i] = t[i])
  BY <1>1, <1>2
<1>4. SUFFICES ASSUME NEW i \in 1 .. k + m, ~u[i].item.gap
               PROVE  u[i].item.n <= n + Weight(SubSeq(u, 1, i))
  BY <1>3 DEF InPlace
<1>5. CASE i <= k
  <2>1. SubSeq(u, 1, i) = SubSeq(s, 1, i)
    <3>1. i \in 1 .. Len(s)
      BY <1>1, <1>5
    <3> QED BY <3>1, PrefixWithin
  <2>2. i \in DOMAIN s /\ u[i] = s[i]
    BY <1>1, <1>3, <1>5
  <2> QED BY <1>4, <2>1, <2>2 DEF InPlace
<1>6. CASE i > k
  <2>1. PICK j \in 1 .. m : i = k + j
    <3>1. i - k \in 1 .. m /\ i = k + (i - k)
      BY <1>6
    <3> QED BY <3>1
  <2>2. SubSeq(u, 1, k + j) = s \o SubSeq(t, 1, j)
    <3>1. j \in 1 .. Len(t) /\ k + j = Len(s) + j
      BY <1>1, <1>2
    <3> QED BY <3>1, PrefixAcross
  <2>3. PICK p \in Seq(Row) : p = SubSeq(t, 1, j)
    BY <1>2, PrefixOf
  <2>4. PICK q : q = s \o p
    OBVIOUS
  <2>5. Weight(q) = Weight(s) + Weight(p)
    BY <2>4, WeightConcat
  <2>6. j \in DOMAIN t /\ u[i] = t[j]
    BY <1>2, <1>3, <2>1, SMTT(30)
  <2>7. t[j].item.n <= (n + Weight(s)) + Weight(p)
    BY <1>4, <2>3, <2>6 DEF InPlace
  <2>8. Weight(s) \in Nat /\ Weight(p) \in Nat
    BY WeightType
  <2>9. t[j].item.n \in Nat
    <3>1. t[j] \in Row
      BY <2>6
    <3> QED BY <3>1 DEF Row, Item
  <2>10. t[j].item.n <= n + Weight(q)
    BY <2>5, <2>7, <2>8, <2>9
  <2>11. SubSeq(u, 1, i) = q
    BY <2>1, <2>2, <2>3, <2>4, Zenon
  <2> QED BY <2>6, <2>10, <2>11
<1>7. i <= k \/ i > k
  OBVIOUS
<1> QED BY <1>5, <1>6, <1>7, Zenon

LEMMA PlaceOne ==
  ASSUME NEW row \in Row, NEW t, t = <<row>>, NEW n \in Nat,
         ~row.item.gap => row.item.n <= n + 1
  PROVE  t \in Seq(Row) /\ InPlace(t, n)
<1>1. t \in Seq(Row) /\ Len(t) = 1 /\ DOMAIN t = 1 .. 1 /\ t[1] = row
  OBVIOUS
<1>2. SubSeq(t, 1, 1) = t
  BY <1>1, PrefixWhole
<1>3. row.item.n \in Nat
  BY DEF Row, Item
<1>4. Weight(t) = IF row.item.gap THEN row.item.n ELSE 1
  <2>1. Weights(t)[1] = (IF row.item.gap THEN row.item.n ELSE 1) /\ Weights(t)[1] \in Nat
    BY <1>1, <1>3 DEF Weights
  <2>2. DOMAIN Weights(t) = {1}
    BY <1>1 DEF Weights
  <2> QED BY <2>1, <2>2, TotalSingle DEF Weight
<1>5. ~row.item.gap => row.item.n <= n + Weight(t)
  BY <1>3, <1>4
<1>6. \A i \in 1 .. 1 : i = 1
  OBVIOUS
<1> QED BY <1>1, <1>2, <1>5, <1>6 DEF InPlace

LEMMA PlaceAppend ==
  ASSUME NEW s \in Seq(Row), NEW row \in Row, NEW n \in Nat, InPlace(s, n),
         ~row.item.gap => row.item.n <= n + Weight(s) + 1
  PROVE  InPlace(Append(s, row), n)
<1>1. PICK t : t = <<row>>
  OBVIOUS
<1>2. Append(s, row) = s \o t
  BY <1>1, AppendIsConcat
<1>3. PICK k \in Nat : k = n + Weight(s)
  BY WeightType
<1>4. ~row.item.gap => row.item.n <= k + 1
  BY <1>3
<1>5. t \in Seq(Row) /\ InPlace(t, k)
  BY <1>1, <1>4, PlaceOne
<1> QED BY <1>2, <1>3, <1>5, PlaceConcat

(***************************************************************************)
(* The place of an event: a step of a single recorder leaves the rows, the *)
(* batch and the queue in place.                                           *)
(***************************************************************************)

Place(r, ep) == RowsInPlace(r, ep) /\ BatchInPlace(r, ep) /\ QueueInPlace(r, ep)

LEMMA PlaceTypes ==
  ASSUME TypeOK, NEW r \in Recorder, NEW ep \in Episode
  PROVE  /\ Weight(log[ep]) \in Nat /\ Weight(rows[r][ep]) \in Nat
         /\ pending[r][ep] \in Nat /\ gaps[r][ep] \in Nat
         /\ CountOf(batch[r], ep) \in Nat /\ CountOf(queue[r], ep) \in Nat
         /\ Len(batch[r]) \in Nat /\ DOMAIN batch[r] = 1 .. Len(batch[r])
         /\ Len(queue[r]) \in Nat /\ DOMAIN queue[r] = 1 .. Len(queue[r])
         /\ \A i \in Nat : CountUpTo(batch[r], i, ep) \in Nat /\ CountUpTo(queue[r], i, ep) \in Nat
         /\ \A i \in DOMAIN batch[r] : i \in Nat /\ batch[r][i] \in Event /\ batch[r][i].n \in Nat
                                       /\ CountUpTo(batch[r], i, ep) \in Nat
         /\ \A i \in DOMAIN queue[r] : i \in Nat /\ queue[r][i] \in Event /\ queue[r][i].n \in Nat
                                       /\ CountUpTo(queue[r], i, ep) \in Nat
<1>1. log[ep] \in Seq(Row) /\ rows[r][ep] \in Seq(Row) /\ pending[r][ep] \in Nat /\ gaps[r][ep] \in Nat
  BY DEF TypeOK
<1>2. batch[r] \in Seq(Event) /\ queue[r] \in Seq(Event)
  BY DEF TypeOK
<1>3. Weight(log[ep]) \in Nat /\ Weight(rows[r][ep]) \in Nat
  BY <1>1, WeightType
<1>4. CountOf(batch[r], ep) \in Nat /\ CountOf(queue[r], ep) \in Nat
  BY <1>2, CountOfType
<1>5. /\ Len(batch[r]) \in Nat /\ DOMAIN batch[r] = 1 .. Len(batch[r])
      /\ Len(queue[r]) \in Nat /\ DOMAIN queue[r] = 1 .. Len(queue[r])
      /\ \A i \in DOMAIN batch[r] : batch[r][i] \in Event
      /\ \A i \in DOMAIN queue[r] : queue[r][i] \in Event
  BY <1>2
<1>6. \A i \in Nat : CountUpTo(batch[r], i, ep) \in Nat /\ CountUpTo(queue[r], i, ep) \in Nat
  BY CountUpToType
<1>7. \A e \in Event : e.n \in Nat
  BY DEF Event
<1>8. /\ \A i \in DOMAIN batch[r] : i \in Nat
      /\ \A i \in DOMAIN queue[r] : i \in Nat
  BY <1>5
<1> QED BY <1>1, <1>3, <1>4, <1>5, <1>6, <1>7, <1>8

LEMMA Raised ==
  \A a, w, p, q, g, b, c \in Nat : a <= w + p + g + b + c /\ q >= p => a <= w + q + g + b + c
OBVIOUS

(* What leaves the rows, the batch and the queue alone and at most adds to *)
(* what is carried.                                                        *)
LEMMA PlaceFrame ==
  ASSUME TypeOK, NEW r \in Recorder, NEW ep \in Episode, Place(r, ep),
         log' = log, batch'[r] = batch[r], queue'[r] = queue[r], gaps'[r] = gaps[r],
         pending'[r][ep] \in Nat, pending'[r][ep] >= pending[r][ep],
         Building(r)' => Building(r) /\ rows'[r] = rows[r],
         Building(r) => Building(r)' \/ batch[r] = <<>>
  PROVE  Place(r, ep)'
<1>0. pending'[r][ep] \in Nat /\ pending'[r][ep] >= pending[r][ep]
  OBVIOUS
<1>1. RowsInPlace(r, ep)'
  BY DEF Place, RowsInPlace
<1>2. BatchInPlace(r, ep)'
  <2>1. CASE batch[r] = <<>>
    BY <2>1 DEF BatchInPlace
  <2>2. CASE Building(r) /\ Building(r)'
    BY <2>2 DEF Place, BatchInPlace
  <2>3. CASE ~Building(r)
    <3>1. ~Building(r)'
      BY <2>3
    <3>2. SUFFICES ASSUME NEW i \in DOMAIN batch[r], batch[r][i].ep = ep
                   PROVE  batch[r][i].n <= Weight(log[ep]) + pending'[r][ep] + CountUpTo(batch[r], i, ep)
      BY <3>1 DEF BatchInPlace
    <3>3. batch[r][i].n <= Weight(log[ep]) + pending[r][ep] + CountUpTo(batch[r], i, ep)
      BY <2>3, <3>2 DEF Place, BatchInPlace
    <3>4. batch[r][i].n \in Nat /\ CountUpTo(batch[r], i, ep) \in Nat
      BY <3>2, PlaceTypes
    <3>5. pending[r][ep] \in Nat /\ Weight(log[ep]) \in Nat
      BY PlaceTypes
    <3> QED BY <3>3, <3>4, <3>5
  <2> QED BY <2>1, <2>2, <2>3
<1>3. QueueInPlace(r, ep)'
  <2>1. SUFFICES ASSUME NEW i \in DOMAIN queue[r], queue[r][i].ep = ep
                 PROVE  queue[r][i].n <= Weight(log[ep]) + pending'[r][ep] + gaps[r][ep]
                                         + CountOf(batch[r], ep) + CountUpTo(queue[r], i, ep)
    BY DEF QueueInPlace
  <2>2. queue[r][i].n <= Weight(log[ep]) + pending[r][ep] + gaps[r][ep]
                         + CountOf(batch[r], ep) + CountUpTo(queue[r], i, ep)
    BY <2>1 DEF Place, QueueInPlace
  <2>3. /\ pending[r][ep] \in Nat /\ Weight(log[ep]) \in Nat
        /\ gaps[r][ep] \in Nat /\ CountOf(batch[r], ep) \in Nat
    BY PlaceTypes
  <2>4. queue[r][i].n \in Nat /\ CountUpTo(queue[r], i, ep) \in Nat
    BY <2>1, PlaceTypes
  <2> QED BY <1>0, <2>2, <2>3, <2>4, Raised, Zenon
<1> QED BY <1>1, <1>2, <1>3 DEF Place

LEMMA PlaceEnqueue ==
  ASSUME TypeOK, NEW r \in Recorder, NEW x \in Episode, Enqueue(r, x), NEW ep \in Episode, Place(r, ep),
         given[ep] <= Weight(log[ep]) + Outstanding(r, ep)
  PROVE  Place(r, ep)'
<1>1. PICK e : e = [ep |-> x, n |-> given[x] + 1]
  OBVIOUS
<1>2. e \in Event /\ e.ep = x /\ e.n = given[x] + 1 /\ given[x] \in Nat
  BY <1>1, SMTT(30) DEF Event, TypeOK
<1>3. /\ queue'[r] = Append(queue[r], e) /\ batch' = batch /\ gaps' = gaps /\ pending' = pending
      /\ log' = log /\ pc' = pc /\ rows' = rows
  BY <1>1 DEF Enqueue, TypeOK, drainVars, dbVars
<1>4. RowsInPlace(r, ep)' /\ BatchInPlace(r, ep)'
  BY <1>3 DEF Place, RowsInPlace, BatchInPlace, Building
<1>5. PICK n \in Nat : n = Len(queue[r])
  BY PlaceTypes
<1>6. /\ DOMAIN queue'[r] = 1 .. n + 1 /\ queue'[r][n + 1] = e
      /\ \A i \in 1 .. n : queue'[r][i] = queue[r][i]
  <2>1. queue[r] \in Seq(Event)
    BY DEF TypeOK
  <2> QED BY <1>2, <1>3, <1>5, <2>1
<1>7. /\ \A i \in 0 .. n : CountUpTo(queue'[r], i, ep) = CountUpTo(queue[r], i, ep)
      /\ CountUpTo(queue'[r], n + 1, ep) = CountOf(queue[r], ep) + (IF e.ep = ep THEN 1 ELSE 0)
  <2>1. Gains(queue'[r], queue[r], e)
    BY <1>2, <1>3 DEF Gains, TypeOK
  <2> QED BY <1>5, <2>1, CountAppend
<1>8. SUFFICES ASSUME NEW i \in 1 .. n + 1, queue'[r][i].ep = ep
               PROVE  queue'[r][i].n <= Weight(log[ep]) + pending[r][ep] + gaps[r][ep]
                                        + CountOf(batch[r], ep) + CountUpTo(queue'[r], i, ep)
  BY <1>3, <1>4, <1>6 DEF Place, QueueInPlace
<1>9. CASE i \in 1 .. n
  <2>1. queue'[r][i] = queue[r][i] /\ CountUpTo(queue'[r], i, ep) = CountUpTo(queue[r], i, ep)
    BY <1>6, <1>7, <1>9
  <2>2. i \in DOMAIN queue[r]
    BY <1>5, <1>9, PlaceTypes
  <2> QED BY <1>8, <2>1, <2>2 DEF Place, QueueInPlace
<1>10. CASE i = n + 1
  <2>1. x = ep /\ queue'[r][i].n = given[ep] + 1
    BY <1>2, <1>6, <1>8, <1>10
  <2>2. CountUpTo(queue'[r], i, ep) = CountOf(queue[r], ep) + 1
    BY <1>2, <1>7, <1>10, <2>1
  <2>3. given[ep] <= Weight(log[ep]) + (pending[r][ep] + gaps[r][ep] + CountOf(batch[r], ep) + CountOf(queue[r], ep))
    BY DEF Outstanding
  <2>4. /\ given[ep] \in Nat /\ pending[r][ep] \in Nat /\ Weight(log[ep]) \in Nat
        /\ gaps[r][ep] \in Nat /\ CountOf(batch[r], ep) \in Nat /\ CountOf(queue[r], ep) \in Nat
    BY <1>2, <2>1, PlaceTypes
  <2> QED BY <2>1, <2>2, <2>3, <2>4
<1> QED BY <1>9, <1>10

LEMMA PlaceTake ==
  ASSUME TypeOK, NEW r \in Recorder, AccountsOf(r), Take(r), NEW ep \in Episode, Place(r, ep)
  PROVE  Place(r, ep)'
<1>1. /\ pc[r] = "idle" /\ pc' = pc /\ queue[r] # <<>>
      /\ queue'[r] = Tail(queue[r]) /\ batch'[r] = Append(batch[r], Head(queue[r]))
      /\ pending' = pending /\ gaps' = gaps /\ log' = log /\ rows' = rows
  BY DEF Take, TypeOK, dbVars
<1>2. queue[r] \in Seq(Event) /\ batch[r] \in Seq(Event)
  BY DEF TypeOK
<1>3. gaps[r][ep] = 0
  BY <1>1 DEF AccountsOf, NothingLeft, Building, NoLoss
<1>4. PICK h \in Event : h = Head(queue[r])
  BY <1>1, <1>2, HeadTailProperties
<1>5. PICK n \in Nat : n = Len(batch[r])
  BY PlaceTypes
<1>6. PICK m \in Nat : m = Len(queue'[r])
  <2>1. Tail(queue[r]) \in Seq(Event)
    BY <1>1, <1>2, HeadTailProperties
  <2>2. queue'[r] \in Seq(Event)
    BY <1>1, <2>1
  <2> QED BY <2>2, LenProperties
<1>7. /\ DOMAIN queue[r] = 1 .. m + 1 /\ queue[r][1] = h /\ DOMAIN queue'[r] = 1 .. m
      /\ \A i \in 1 .. m : queue'[r][i] = queue[r][i + 1]
      /\ \A i \in 0 .. m : CountUpTo(queue[r], i + 1, ep) = (IF h.ep = ep THEN 1 ELSE 0)
                                                            + CountUpTo(queue'[r], i, ep)
  <2>1. Len(queue[r]) = m + 1 /\ queue'[r] \in Seq(Event) /\ queue[r][1] = h
        /\ \A i \in 1 .. m : queue'[r][i] = queue[r][i + 1]
    BY <1>1, <1>2, <1>4, <1>6, HeadTailProperties
  <2>2. DOMAIN queue[r] = 1 .. m + 1 /\ DOMAIN queue'[r] = 1 .. m
    BY <1>2, <1>6, <2>1
  <2>3. \A i \in 0 .. m : CountUpTo(queue[r], i + 1, ep) = (IF h.ep = ep THEN 1 ELSE 0)
                                                            + CountUpTo(queue'[r], i, ep)
    <3>1. PICK s \in Seq(Event) : s = queue[r]
      BY <1>2
    <3>2. \A i \in 0 .. Len(Tail(s)) :
              CountUpTo(s, i + 1, ep) = (IF Head(s).ep = ep THEN 1 ELSE 0) + CountUpTo(Tail(s), i, ep)
      BY <1>1, <3>1, CountTail
    <3> QED BY <1>1, <1>4, <1>6, <3>1, <3>2
  <2> QED BY <2>1, <2>2, <2>3
<1>8. /\ DOMAIN batch'[r] = 1 .. n + 1 /\ batch'[r][n + 1] = h
      /\ \A i \in 1 .. n : batch'[r][i] = batch[r][i]
  BY <1>1, <1>2, <1>4, <1>5
<1>9. /\ \A i \in 0 .. n : CountUpTo(batch'[r], i, ep) = CountUpTo(batch[r], i, ep)
      /\ CountUpTo(batch'[r], n + 1, ep) = CountOf(batch[r], ep) + (IF h.ep = ep THEN 1 ELSE 0)
      /\ CountOf(batch'[r], ep) = CountOf(batch[r], ep) + (IF h.ep = ep THEN 1 ELSE 0)
  <2>1. Gains(batch'[r], batch[r], h)
    BY <1>1, <1>2, <1>4 DEF Gains
  <2> QED BY <1>5, <2>1, CountAppend
<1>10. ~Building(r) /\ ~Building(r)'
  BY <1>1 DEF Building
<1>11. BatchInPlace(r, ep)'
  <2>1. SUFFICES ASSUME NEW i \in 1 .. n + 1, batch'[r][i].ep = ep
                 PROVE  batch'[r][i].n <= Weight(log[ep]) + pending[r][ep] + CountUpTo(batch'[r], i, ep)
    BY <1>1, <1>8, <1>10 DEF BatchInPlace
  <2>2. CASE i \in 1 .. n
    <3>1. batch'[r][i] = batch[r][i] /\ CountUpTo(batch'[r], i, ep) = CountUpTo(batch[r], i, ep)
      BY <1>8, <1>9, <2>2
    <3>2. i \in DOMAIN batch[r]
      BY <1>5, <2>2, PlaceTypes
    <3> QED BY <1>10, <2>1, <3>1, <3>2 DEF Place, BatchInPlace
  <2>3. CASE i = n + 1
    <3>1. h.ep = ep /\ batch'[r][i].n = h.n /\ CountUpTo(batch'[r], i, ep) = CountOf(batch[r], ep) + 1
      BY <1>8, <1>9, <2>1, <2>3
    <3>2. 1 \in DOMAIN queue[r]
      BY <1>7
    <3>3. h.n <= Weight(log[ep]) + pending[r][ep] + gaps[r][ep]
                 + CountOf(batch[r], ep) + CountUpTo(queue[r], 1, ep)
      BY <1>7, <3>1, <3>2 DEF Place, QueueInPlace
    <3>4. CountUpTo(queue[r], 1, ep) = 1
      <4>1. CountUpTo(queue[r], 0 + 1, ep) = CountUpTo(queue[r], 0, ep) + (IF queue[r][0 + 1].ep = ep THEN 1 ELSE 0)
        BY CountNext
      <4>2. CountUpTo(queue[r], 0, ep) = 0
        BY CountNone
      <4> QED BY <1>7, <3>1, <4>1, <4>2
    <3>5. /\ pending[r][ep] \in Nat /\ Weight(log[ep]) \in Nat /\ CountOf(batch[r], ep) \in Nat
          /\ h.n \in Nat
      BY <1>4, PlaceTypes DEF Event
    <3> QED BY <1>3, <3>1, <3>3, <3>4, <3>5
  <2> QED BY <2>2, <2>3
<1>12. QueueInPlace(r, ep)'
  <2>1. SUFFICES ASSUME NEW i \in 1 .. m, queue'[r][i].ep = ep
                 PROVE  queue'[r][i].n <= Weight(log[ep]) + pending[r][ep] + gaps[r][ep]
                                          + CountOf(batch'[r], ep) + CountUpTo(queue'[r], i, ep)
    BY <1>1, <1>7 DEF QueueInPlace
  <2>2. i + 1 \in DOMAIN queue[r] /\ queue'[r][i] = queue[r][i + 1]
        /\ CountUpTo(queue[r], i + 1, ep) = (IF h.ep = ep THEN 1 ELSE 0) + CountUpTo(queue'[r], i, ep)
    BY <1>7
  <2>3. queue[r][i + 1].n <= Weight(log[ep]) + pending[r][ep] + gaps[r][ep]
                             + CountOf(batch[r], ep) + CountUpTo(queue[r], i + 1, ep)
    BY <2>1, <2>2 DEF Place, QueueInPlace
  <2>4. /\ pending[r][ep] \in Nat /\ Weight(log[ep]) \in Nat /\ CountOf(batch[r], ep) \in Nat
        /\ gaps[r][ep] \in Nat /\ queue[r][i + 1].n \in Nat
    BY <2>2, PlaceTypes
  <2>5. CountUpTo(queue'[r], i, ep) \in Nat
    BY CountUpToType
  <2> QED BY <1>9, <2>2, <2>3, <2>4, <2>5
<1>13. RowsInPlace(r, ep)'
  BY <1>10 DEF RowsInPlace
<1> QED BY <1>11, <1>12, <1>13 DEF Place

LEMMA SumOfFour == \A a, b, c, d \in Nat : a + b + c + d \in Nat
OBVIOUS

LEMMA Shift2 ==
  \A a, b \in Nat : \A i \in 1 .. a + b : i \in 1 .. a \/ \E j \in 1 .. b : i = a + j
<1>1. SUFFICES ASSUME NEW a \in Nat, NEW b \in Nat, NEW i \in 1 .. a + b, i \notin 1 .. a
               PROVE  \E j \in 1 .. b : i = a + j
  OBVIOUS
<1>2. i - a \in 1 .. b /\ i = a + (i - a)
  BY <1>1
<1> QED BY <1>2

LEMMA PlaceDrainRest ==
  ASSUME TypeOK, NEW r \in Recorder, AccountsOf(r), DrainRest(r), NEW ep \in Episode, Place(r, ep)
  PROVE  Place(r, ep)'
<1>1. /\ pc[r] = "idle" /\ pc' = pc /\ queue'[r] = <<>> /\ batch'[r] = batch[r] \o queue[r]
      /\ pending' = pending /\ gaps' = gaps /\ log' = log /\ rows' = rows
  BY DEF DrainRest, TypeOK, dbVars
<1>2. gaps[r][ep] = 0
  BY <1>1 DEF AccountsOf, NothingLeft, Building, NoLoss
<1>3. PICK n \in Nat : n = Len(batch[r])
  BY PlaceTypes
<1>4. PICK m \in Nat : m = Len(queue[r])
  BY PlaceTypes
<1>5. /\ DOMAIN batch'[r] = 1 .. n + m /\ DOMAIN batch[r] = 1 .. n /\ DOMAIN queue[r] = 1 .. m
      /\ \A i \in 1 .. n : batch'[r][i] = batch[r][i]
      /\ \A i \in 1 .. m : batch'[r][n + i] = queue[r][i]
  <2>1. PICK s \in Seq(Event) : s = batch[r]
    BY DEF TypeOK
  <2>2. PICK t \in Seq(Event) : t = queue[r]
    BY DEF TypeOK
  <2>3. PICK u : u = s \o t
    OBVIOUS
  <2>4. /\ DOMAIN u = 1 .. n + m /\ DOMAIN s = 1 .. n /\ DOMAIN t = 1 .. m
        /\ \A i \in 1 .. n : u[i] = s[i]
        /\ \A i \in 1 .. m : u[n + i] = t[i]
    <3>1. u \in Seq(Event) /\ Len(u) = Len(s) + Len(t)
          /\ (\A i \in 1 .. Len(s) : u[i] = s[i])
          /\ (\A i \in 1 .. Len(t) : u[Len(s) + i] = t[i])
      BY <2>3, ConcatOf
    <3>2. Len(s) = n /\ Len(t) = m
      BY <1>3, <1>4, <2>1, <2>2
    <3>3. DOMAIN u = 1 .. Len(u) /\ DOMAIN s = 1 .. Len(s) /\ DOMAIN t = 1 .. Len(t)
      BY <3>1
    <3> QED BY <3>1, <3>2, <3>3
  <2>5. u = batch'[r]
    BY <1>1, <2>1, <2>2, <2>3
  <2> QED BY <2>1, <2>2, <2>4, <2>5
<1>6. /\ \A i \in 0 .. n : CountUpTo(batch'[r], i, ep) = CountUpTo(batch[r], i, ep)
      /\ \A i \in 0 .. m : CountUpTo(batch'[r], n + i, ep) = CountOf(batch[r], ep) + CountUpTo(queue[r], i, ep)
  <2>1. Joins(batch'[r], batch[r], queue[r])
    BY <1>1 DEF Joins, TypeOK
  <2>2. \A i \in 0 .. m : CountUpTo(batch'[r], n + i, ep) = CountOf(batch[r], ep) + CountUpTo(queue[r], i, ep)
    <3>1. PICK s : s = batch[r]
      OBVIOUS
    <3>2. PICK t : t = queue[r]
      OBVIOUS
    <3>3. PICK u : u = batch'[r]
      OBVIOUS
    <3>4. Joins(u, s, t)
      BY <2>1, <3>1, <3>2, <3>3
    <3>5. \A i \in 0 .. Len(t) : CountUpTo(u, Len(s) + i, ep) = CountOf(s, ep) + CountUpTo(t, i, ep)
      BY <3>4, CountJoin
    <3>6. Len(s) = n /\ Len(t) = m
      BY <1>3, <1>4, <3>1, <3>2
    <3> QED BY <3>1, <3>2, <3>3, <3>5, <3>6
  <2>3. \A i \in 0 .. n : i \in Nat /\ \A j \in 1 .. i : batch'[r][j] = batch[r][j]
    BY <1>5
  <2>4. \A i \in 0 .. n : CountUpTo(batch'[r], i, ep) = CountUpTo(batch[r], i, ep)
    BY <2>3, CountSame
  <2> QED BY <2>2, <2>4
<1>7. ~Building(r) /\ ~Building(r)'
  BY <1>1 DEF Building
<1>8. SUFFICES ASSUME NEW i \in 1 .. n + m, batch'[r][i].ep = ep
               PROVE  batch'[r][i].n <= Weight(log[ep]) + pending[r][ep] + CountUpTo(batch'[r], i, ep)
  <2>1. QueueInPlace(r, ep)'
    BY <1>1 DEF QueueInPlace
  <2> QED BY <1>1, <1>5, <1>7, <2>1 DEF Place, RowsInPlace, BatchInPlace
<1>9. CASE i \in 1 .. n
  <2>1. batch'[r][i] = batch[r][i] /\ CountUpTo(batch'[r], i, ep) = CountUpTo(batch[r], i, ep)
    BY <1>5, <1>6, <1>9
  <2>2. i \in DOMAIN batch[r]
    BY <1>5, <1>9
  <2> QED BY <1>7, <1>8, <2>1, <2>2 DEF Place, BatchInPlace
<1>10. ASSUME NEW j \in 1 .. m, i = n + j
       PROVE  batch'[r][i].n <= Weight(log[ep]) + pending[r][ep] + CountUpTo(batch'[r], i, ep)
  <2>1. batch'[r][i] = queue[r][j] /\ j \in DOMAIN queue[r]
        /\ CountUpTo(batch'[r], i, ep) = CountOf(batch[r], ep) + CountUpTo(queue[r], j, ep)
    BY <1>5, <1>6, <1>10
  <2>2. queue[r][j].n <= Weight(log[ep]) + pending[r][ep] + gaps[r][ep]
                         + CountOf(batch[r], ep) + CountUpTo(queue[r], j, ep)
    BY <1>8, <2>1 DEF Place, QueueInPlace
  <2>3. /\ pending[r][ep] \in Nat /\ Weight(log[ep]) \in Nat /\ CountOf(batch[r], ep) \in Nat
    BY PlaceTypes
  <2>4. queue[r][j].n \in Nat /\ CountUpTo(queue[r], j, ep) \in Nat
    BY <2>1, PlaceTypes
  <2> QED BY <1>2, <2>1, <2>2, <2>3, <2>4
<1>11. i \in 1 .. n \/ \E j \in 1 .. m : i = n + j
  BY Shift2
<1> QED BY <1>9, <1>10, <1>11

LEMMA EmptyInPlace == \A s, n : s = <<>> => InPlace(s, n)
BY DEF InPlace

LEMMA PlaceFlush ==
  ASSUME TypeOK, NEW r \in Recorder, Control(r), AccountsOf(r), Flush(r), NEW ep \in Episode, Place(r, ep)
  PROVE  Place(r, ep)'
<1>1. /\ pc[r] = "idle" /\ pc'[r] = "build" /\ queue' = queue /\ batch' = batch /\ log' = log /\ rows' = rows
      /\ pending'[r] = NoLoss /\ gaps'[r] = pending[r]
  BY DEF Flush, TakenLosses, TypeOK, dbVars
<1>2. gaps[r][ep] = 0 /\ pending'[r][ep] = 0 /\ gaps'[r][ep] = pending[r][ep]
  BY <1>1 DEF AccountsOf, NothingLeft, Building, NoLoss
<1>3. ~Building(r) /\ Building(r)'
  BY <1>1 DEF Building
<1>4. RowsInPlace(r, ep)'
  <2>1. rows[r][ep] = <<>>
    BY <1>1 DEF Control, NoRows
  <2>2. InPlace(rows'[r][ep], Weight(log'[ep]))
    BY <1>1, <2>1, EmptyInPlace
  <2> QED BY <2>2 DEF RowsInPlace
<1>5. BatchInPlace(r, ep)'
  <2>1. \A i \in DOMAIN batch[r] : batch[r][i].ep = ep =>
           batch[r][i].n <= Weight(log[ep]) + pending[r][ep] + CountUpTo(batch[r], i, ep)
    BY <1>3 DEF Place, BatchInPlace
  <2> QED BY <1>1, <1>2, <1>3, <2>1 DEF BatchInPlace
<1>6. QueueInPlace(r, ep)'
  <2>1. \A i \in DOMAIN queue[r] : queue[r][i].ep = ep =>
           queue[r][i].n <= Weight(log[ep]) + pending[r][ep] + gaps[r][ep]
                            + CountOf(batch[r], ep) + CountUpTo(queue[r], i, ep)
    BY DEF Place, QueueInPlace
  <2>2. /\ pending[r][ep] \in Nat /\ Weight(log[ep]) \in Nat
    BY PlaceTypes
  <2>3. Weight(log[ep]) + pending'[r][ep] + gaps'[r][ep] = Weight(log[ep]) + pending[r][ep] + gaps[r][ep]
    BY <1>2, <2>2
  <2> QED BY <1>1, <2>1, <2>3 DEF QueueInPlace
<1> QED BY <1>4, <1>5, <1>6 DEF Place

(* After a flush, whatever became of its rows.                             *)
LEMMA PlaceEmptied ==
  ASSUME TypeOK, NEW r \in Recorder, NEW ep \in Episode, Place(r, ep),
         ~Building(r)', batch'[r] = <<>>, queue'[r] = queue[r], gaps'[r][ep] = 0,
         Weight(log'[ep]) \in Nat, pending'[r][ep] \in Nat,
         Weight(log'[ep]) + pending'[r][ep]
           >= Weight(log[ep]) + pending[r][ep] + gaps[r][ep] + CountOf(batch[r], ep)
  PROVE  Place(r, ep)'
<1>1. RowsInPlace(r, ep)' /\ BatchInPlace(r, ep)'
  BY DEF RowsInPlace, BatchInPlace
<1>2. PICK x \in Nat : x = Weight(log'[ep]) + pending'[r][ep]
  OBVIOUS
<1>3. PICK y \in Nat : y = Weight(log[ep]) + pending[r][ep] + gaps[r][ep] + CountOf(batch[r], ep)
  <2>1. /\ Weight(log[ep]) \in Nat /\ pending[r][ep] \in Nat /\ gaps[r][ep] \in Nat
        /\ CountOf(batch[r], ep) \in Nat
    BY PlaceTypes
  <2>2. Weight(log[ep]) + pending[r][ep] + gaps[r][ep] + CountOf(batch[r], ep) \in Nat
    BY <2>1, SumOfFour, Zenon
  <2> QED BY <2>2
<1>4. x >= y
  BY <1>2, <1>3
<1>5. CountOf(batch'[r], ep) = 0
  BY CountEmpty
<1>6. SUFFICES ASSUME NEW i \in DOMAIN queue[r], queue[r][i].ep = ep
               PROVE  queue[r][i].n <= x + CountUpTo(queue[r], i, ep)
  <2>1. Weight(log'[ep]) + pending'[r][ep] + gaps'[r][ep] + CountOf(batch'[r], ep) = x
    BY <1>2, <1>5
  <2>2. QueueInPlace(r, ep)'
    BY <1>6, <2>1 DEF QueueInPlace
  <2> QED BY <1>1, <2>2 DEF Place
<1>7. queue[r][i].n <= y + CountUpTo(queue[r], i, ep)
  BY <1>3, <1>6 DEF Place, QueueInPlace
<1>8. queue[r][i].n \in Nat /\ CountUpTo(queue[r], i, ep) \in Nat
  BY <1>6, PlaceTypes
<1> QED BY <1>4, <1>7, <1>8

LEMMA PlaceReset ==
  ASSUME TypeOK, NEW r \in Recorder, AccountsOf(r)', Reset(r) \/ Crash(r), NEW ep \in Episode
  PROVE  Place(r, ep)'
<1>1. pc'[r] = "idle" /\ state'[r] = "starting" /\ queue'[r] = <<>>
  BY DEF Reset, Crash, TypeOK
<1>2. batch'[r] = <<>>
  BY <1>1 DEF AccountsOf, NothingLeft, HasQueue
<1> QED BY <1>1, <1>2 DEF Place, RowsInPlace, BatchInPlace, QueueInPlace, Building

LEMMA PlaceExtend ==
  ASSUME TypeOK, ControlOK, NEW r \in Recorder, AccountsOf(r), Extend(r), NEW ep \in Episode, Place(r, ep)
  PROVE  Place(r, ep)'
<1> DEFINE it == cur[r].item
<1>1. /\ pc[r] = "extend" /\ pc'[r] = "build" /\ batch' = batch /\ gaps' = gaps
      /\ queue' = queue /\ pending' = pending /\ log' = log
      /\ BuiltRow(r) \in Row /\ BuiltRow(r).item = it
      /\ \A x \in Episode :
           rows'[r][x] = IF x = it.ep THEN Append(rows[r][x], BuiltRow(r)) ELSE rows[r][x]
  BY ExtendAt
<1>2. Building(r) /\ Building(r)'
  BY <1>1 DEF Building
<1>3. BatchInPlace(r, ep)' /\ QueueInPlace(r, ep)'
  BY <1>1, <1>2 DEF Place, BatchInPlace, QueueInPlace
<1>4. rows[r][ep] \in Seq(Row)
  BY DEF TypeOK
<1>5. InPlace(rows[r][ep], Weight(log[ep]))
  BY <1>2 DEF Place, RowsInPlace
<1>6. CASE ep # it.ep
  <2>1. InPlace(rows'[r][ep], Weight(log'[ep]))
    BY <1>1, <1>5, <1>6
  <2> QED BY <1>3, <2>1 DEF Place, RowsInPlace
<1>7. CASE ep = it.ep
  <2>1. it \in NextItems(r)
    BY <1>1 DEF AccountsOf, ItemAtHand
  <2>2. ~it.gap => it.n <= Weight(log[ep]) + Weight(rows[r][ep]) + 1
    <3>1. SUFFICES ASSUME ~it.gap PROVE it.n <= Weight(log[ep]) + Weight(rows[r][ep]) + 1
      OBVIOUS
    <3>2. /\ left[r] = {} /\ pos[r] \in 1 .. Len(batch[r])
          /\ it.ep = batch[r][pos[r]].ep /\ it.n = batch[r][pos[r]].n
      BY <2>1, <3>1, NextItemIs
    <3>3. PICK k \in Nat : k = pos[r] - 1
      <4>1. pos[r] \in Nat \ {0}
        BY DEF TypeOK
      <4> QED BY <4>1
    <3>4. pos[r] = k + 1 /\ k + 1 \in DOMAIN batch[r]
      <4>1. pos[r] \in Nat \ {0} /\ DOMAIN batch[r] = 1 .. Len(batch[r])
        BY PlaceTypes DEF TypeOK
      <4> QED BY <3>2, <3>3, <4>1
    <3>5. batch[r][k + 1].n <= Weight(log[ep]) + gaps[r][ep] + CountUpTo(batch[r], k + 1, ep)
      BY <1>2, <1>7, <3>2, <3>4 DEF Place, BatchInPlace
    <3>6. Weight(rows[r][ep]) = gaps[r][ep] + CountUpTo(batch[r], k, ep)
      BY <1>2, <3>2, <3>3 DEF AccountsOf, RowsAccount
    <3>7. CountUpTo(batch[r], k + 1, ep) = CountUpTo(batch[r], k, ep) + 1
      <4>1. CountUpTo(batch[r], k + 1, ep) = CountUpTo(batch[r], k, ep) + (IF batch[r][k + 1].ep = ep THEN 1 ELSE 0)
        BY CountNext
      <4> QED BY <1>7, <3>2, <3>4, <4>1
    <3>8. /\ Weight(log[ep]) \in Nat /\ gaps[r][ep] \in Nat /\ batch[r][k + 1].n \in Nat
      BY <3>4, PlaceTypes
    <3>9. CountUpTo(batch[r], k, ep) \in Nat
      BY CountUpToType
    <3> QED BY <3>2, <3>4, <3>5, <3>6, <3>7, <3>8, <3>9
  <2>3. Weight(log[ep]) \in Nat
    BY PlaceTypes
  <2>4. InPlace(Append(rows[r][ep], BuiltRow(r)), Weight(log[ep]))
    BY <1>1, <1>4, <1>5, <2>2, <2>3, PlaceAppend
  <2>5. InPlace(rows'[r][ep], Weight(log'[ep]))
    BY <1>1, <1>7, <2>4
  <2> QED BY <1>3, <2>5 DEF Place, RowsInPlace
<1> QED BY <1>6, <1>7

LEMMA PlaceCommit ==
  ASSUME TypeOK, NEW r \in Recorder, AccountsOf(r), Commit(r), NEW ep \in Episode, Place(r, ep)
  PROVE  Place(r, ep)'
<1>1. /\ pc'[r] = "heads" /\ batch'[r] = <<>> /\ queue' = queue /\ pending' = pending /\ gaps'[r] = NoLoss
      /\ Built(r) /\ AppendRows(r)
  BY DEF Commit, TypeOK, recorderVars
<1>2. Weight(rows[r][ep]) = gaps[r][ep] + CountOf(batch[r], ep)
  BY <1>1, BuiltWeight
<1>3. /\ Weight(log'[ep]) = Weight(log[ep]) + Weight(rows[r][ep])
      /\ Weight(log[ep]) \in Nat /\ Weight(rows[r][ep]) \in Nat
  BY <1>1, AppendWeighs
<1>4. pending[r][ep] \in Nat /\ gaps[r][ep] \in Nat /\ CountOf(batch[r], ep) \in Nat
  BY PlaceTypes
<1>5. gaps'[r][ep] = 0 /\ ~Building(r)'
  BY <1>1 DEF NoLoss, Building
<1>6. pending'[r][ep] = pending[r][ep]
  BY <1>1
<1>7. Weight(log'[ep]) + pending'[r][ep]
        >= Weight(log[ep]) + pending[r][ep] + gaps[r][ep] + CountOf(batch[r], ep)
  BY <1>2, <1>3, <1>4, <1>6
<1>8. Weight(log'[ep]) \in Nat /\ pending'[r][ep] \in Nat
  BY <1>3, <1>4, <1>6
<1> QED BY <1>1, <1>5, <1>7, <1>8, PlaceEmptied

LEMMA PlaceCarryLoss ==
  ASSUME TypeOK, NEW r \in Recorder, AccountsOf(r), CarryLoss(r), log' = log \/ AppendRows(r),
         NEW ep \in Episode, Place(r, ep)
  PROVE  Place(r, ep)'
<1>1. /\ pc'[r] \in {"idle", "exited"} /\ batch'[r] = <<>> /\ queue' = queue /\ gaps'[r] = NoLoss
      /\ pending'[r][ep] = pending[r][ep] + gaps[r][ep] + CountOf(batch[r], ep)
  BY DEF CarryLoss, Carried, AfterFlush, TypeOK
<1>2. /\ Weight(log[ep]) \in Nat /\ Weight(log'[ep]) \in Nat /\ Weight(log'[ep]) >= Weight(log[ep])
  <2>1. CASE log' = log
    BY <2>1, PlaceTypes
  <2>2. CASE AppendRows(r)
    <3>1. /\ Weight(log'[ep]) = Weight(log[ep]) + Weight(rows[r][ep])
          /\ Weight(log[ep]) \in Nat /\ Weight(rows[r][ep]) \in Nat
      BY <2>2, AppendWeighs
    <3>2. \A a, b \in Nat : a + b \in Nat /\ a + b >= a
      OBVIOUS
    <3> QED BY <3>1, <3>2
  <2> QED BY <2>1, <2>2
<1>3. pending[r][ep] \in Nat /\ gaps[r][ep] \in Nat /\ CountOf(batch[r], ep) \in Nat
  BY PlaceTypes
<1>4. gaps'[r][ep] = 0 /\ ~Building(r)' /\ queue'[r] = queue[r]
  BY <1>1 DEF NoLoss, Building
<1>5. Weight(log'[ep]) + pending'[r][ep]
        >= Weight(log[ep]) + pending[r][ep] + gaps[r][ep] + CountOf(batch[r], ep)
  BY <1>1, <1>2, <1>3
<1>6. pending'[r][ep] \in Nat
  BY <1>1, <1>3
<1> QED BY <1>1, <1>2, <1>4, <1>5, <1>6, PlaceEmptied

LEMMA PlaceOfLog ==
  ASSUME TypeOK, NEW r \in Recorder, AppendRows(r), Built(r), NEW ep \in Episode, Place(r, ep),
         InPlace(log[ep], 0)
  PROVE  InPlace(log'[ep], 0)
<1>1. PICK s \in Seq(Row) : s = log[ep]
  BY DEF TypeOK
<1>2. PICK t \in Seq(Row) : t = rows[r][ep]
  BY DEF TypeOK
<1>3. PICK u : u = s \o t
  OBVIOUS
<1>4. log'[ep] = u
  BY <1>1, <1>2, <1>3 DEF AppendRows
<1>5. InPlace(t, Weight(s))
  BY <1>1, <1>2 DEF Place, RowsInPlace, Built, Building
<1>6. 0 + Weight(s) = Weight(s)
  BY WeightType
<1>7. InPlace(t, 0 + Weight(s))
  BY <1>5, <1>6
<1>8. InPlace(s, 0)
  BY <1>1
<1>9. InPlace(u, 0)
  BY <1>3, <1>7, <1>8, PlaceConcat
<1> QED BY <1>4, <1>9

(* The rest of the steps leave the rows, the batch and the queue alone.    *)
LEMMA PlaceQuiet ==
  ASSUME TypeOK, NEW r \in Recorder, AccountsOf(r), NEW ep \in Episode, Place(r, ep),
         \/ Connect(r) \/ Cancel(r)
         \/ \E x \in Episode : Refuse(r, x) \/ NoteLoss(r, x)
         \/ CacheHit(r) \/ ReadTail(r) \/ ReadAnchor(r) \/ ReadAnchorFails(r)
         \/ \E x \in Episode : WriteHead(r, x) \/ WriteHeadFails(r, x)
  PROVE  Place(r, ep)' /\ log' = log
<1>0. pending[r][ep] \in Nat
  BY PlaceTypes
<1>1. log' = log /\ batch' = batch /\ queue' = queue /\ gaps' = gaps
  BY DEF Connect, ConnectOK, ConnectFails, Cancel, Refuse, NoteLoss, CacheHit, ReadTail, ReadAnchor,
         ReadAnchorFails, CacheHead, WriteHead, WriteHeadFails, HeadWritten, recorderVars, drainVars,
         dbVars
<1>2. pending'[r][ep] \in Nat /\ pending'[r][ep] >= pending[r][ep]
  <2>1. CASE \E x \in Episode : NoteLoss(r, x)
    <3>1. PICK x \in Episode : pending' = [pending EXCEPT ![r][x] = @ + 1] \/ pending' = pending
      BY <2>1 DEF NoteLoss
    <3>2. pending'[r][ep] = pending[r][ep] \/ pending'[r][ep] = pending[r][ep] + 1
      BY <3>1, SMTT(30) DEF TypeOK
    <3> QED BY <1>0, <3>2
  <2>2. CASE pending' = pending
    BY <1>0, <2>2
  <2>3. pending' = pending \/ \E x \in Episode : NoteLoss(r, x)
    BY DEF Connect, ConnectOK, ConnectFails, Cancel, Refuse, CacheHit, ReadTail, ReadAnchor,
           ReadAnchorFails, CacheHead, WriteHead, WriteHeadFails, HeadWritten, recorderVars
  <2> QED BY <2>1, <2>2, <2>3
<1>3. CASE \E x \in Episode : WriteHead(r, x) \/ WriteHeadFails(r, x)
  <2>1. PICK x \in Episode : pc[r] = "heads" /\ HeadWritten(r, x)
    BY <1>3 DEF WriteHead, WriteHeadFails
  <2>2. pc'[r] \in {"heads", "idle", "exited"}
    BY <2>1 DEF HeadWritten, AfterFlush, TypeOK
  <2>3. ~Building(r) /\ ~Building(r)'
    BY <2>1, <2>2 DEF Building
  <2> QED BY <1>1, <1>2, <2>3, PlaceFrame
<1>4. CASE ~\E x \in Episode : WriteHead(r, x) \/ WriteHeadFails(r, x)
  <2>1. rows' = rows
    BY <1>4 DEF Connect, ConnectOK, ConnectFails, Cancel, Refuse, NoteLoss, CacheHit, ReadTail, ReadAnchor,
         ReadAnchorFails, CacheHead, drainVars
  <2>2. pc' = pc \/ (Building(r) /\ Building(r)')
    BY <1>4 DEF Connect, ConnectOK, ConnectFails, Cancel, Refuse, NoteLoss, CacheHit, ReadTail, ReadAnchor,
         ReadAnchorFails, CacheHead, drainVars, Building, TypeOK
  <2>3. (Building(r)' => Building(r)) /\ (Building(r) => Building(r)')
    BY <2>2 DEF Building
  <2> QED BY <1>1, <1>2, <2>1, <2>3, PlaceFrame
<1> QED BY <1>1, <1>3, <1>4

LEMMA OwedAlone ==
  ASSUME NEW r \in Recorder, Recorder = {r}, TypeOK, NEW ep \in Episode
  PROVE  Owed(ep) = Outstanding(r, ep)
<1>1. PICK f : f = [q \in Recorder |-> Outstanding(q, ep)]
  OBVIOUS
<1>2. DOMAIN f = {r} /\ f[r] = Outstanding(r, ep) /\ f[r] \in Nat
  BY <1>1, OutstandingType
<1>3. Total(f) = f[r]
  BY <1>2, TotalSingle
<1> QED BY <1>1, <1>2, <1>3 DEF Owed

LEMMA PlaceStep ==
  ASSUME NEW r \in Recorder, Recorder = {r}, TypeOK, ControlOK, AccountInv, PlaceInv(r), [Next]_vars,
         TypeOK', AccountInv'
  PROVE  PlaceInv(r)'
<1>0. AccountsOf(r) /\ AccountsOf(r)' /\ Control(r)
  BY DEF AccountInv, ControlOK
<1>1. \A ep \in Episode : Place(r, ep) /\ InPlace(log[ep], 0) /\ given[ep] <= Weight(log[ep]) + Outstanding(r, ep)
  BY OwedAlone DEF PlaceInv, Place, LossesInPlace, NoSilentLoss, GapInPlace
<1>2. NoSilentLoss'
  <2>1. IsFiniteSet(Recorder)
    BY FS_Singleton
  <2> QED BY <2>1, SilentStep DEF PlaceInv, LossesInPlace
<1>3. SUFFICES ASSUME NEW ep \in Episode
               PROVE  Place(r, ep)' /\ InPlace(log'[ep], 0)
  BY <1>2 DEF PlaceInv, Place, LossesInPlace, GapInPlace
<1>4. CASE UNCHANGED vars
  <2>1. Place(r, ep)'
    BY <1>1, <1>4 DEF vars, recorderVars, drainVars, dbVars, Place, RowsInPlace, BatchInPlace, QueueInPlace,
                Building
  <2> QED BY <1>1, <1>4, <2>1 DEF vars, dbVars
<1>5. CASE StepOf(r)
  <2>1. CASE \/ Connect(r) \/ Cancel(r)
             \/ \E x \in Episode : Refuse(r, x) \/ NoteLoss(r, x)
             \/ CacheHit(r) \/ ReadTail(r) \/ ReadAnchor(r) \/ ReadAnchorFails(r)
             \/ \E x \in Episode : WriteHead(r, x) \/ WriteHeadFails(r, x)
    BY <1>0, <1>1, <2>1, PlaceQuiet
  <2>2. CASE \E x \in Episode : Enqueue(r, x)
    <3>1. log' = log
      BY <2>2 DEF Enqueue, dbVars
    <3> QED BY <1>1, <2>2, <3>1, PlaceEnqueue
  <2>3. CASE Take(r) \/ DrainRest(r) \/ Flush(r) \/ Extend(r)
    <3>1. log' = log
      BY <2>3 DEF Take, DrainRest, Flush, Extend, dbVars
    <3> QED BY <1>0, <1>1, <2>3, <3>1, PlaceTake, PlaceDrainRest, PlaceFlush, PlaceExtend
  <2>4. CASE Commit(r)
    <3>1. Built(r) /\ AppendRows(r)
      BY <2>4 DEF Commit
    <3> QED BY <1>0, <1>1, <2>4, <3>1, PlaceCommit, PlaceOfLog
  <2>5. CASE CommitCollides(r) \/ FlushFails(r)
    <3>1. CarryLoss(r) /\ log' = log
      BY <2>5 DEF CommitCollides, FlushFails
    <3> QED BY <1>0, <1>1, <3>1, PlaceCarryLoss
  <2>6. CASE CommitUnknown(r)
    <3>1. CarryLoss(r) /\ AppendRows(r) /\ Built(r)
      BY <2>6 DEF CommitUnknown
    <3> QED BY <1>0, <1>1, <3>1, PlaceCarryLoss, PlaceOfLog
  <2>7. CASE Reset(r) \/ Crash(r)
    <3>1. log' = log
      BY <2>7 DEF Reset, Crash, dbVars
    <3> QED BY <1>0, <1>1, <2>7, <3>1, PlaceReset
  <2> QED BY <1>5, <2>1, <2>2, <2>3, <2>4, <2>5, <2>6, <2>7 DEF StepOf, Drain, Caller
<1>6. Next => StepOf(r)
  BY DEF Next, StepOf
<1> QED BY <1>4, <1>5, <1>6

LEMMA InitSilent ==
  ASSUME IsFiniteSet(Recorder)
  PROVE  Init => NoSilentLoss
<1> SUFFICES ASSUME Init, NEW ep \in Episode PROVE given[ep] <= Weight(log[ep]) + Owed(ep)
  BY DEF NoSilentLoss
<1>1. given[ep] = 0
  BY DEF Init, NoLoss
<1>2. TypeOK
  BY InitType
<1>3. log[ep] \in Seq(Row)
  BY <1>2 DEF TypeOK
<1>4. Weight(log[ep]) \in Nat /\ Owed(ep) \in Nat
  BY <1>2, <1>3, OwedType, WeightType
<1> QED BY <1>1, <1>4

LEMMA InitPlace ==
  ASSUME NEW r \in Recorder, Recorder = {r}
  PROVE  Init => PlaceInv(r)
<1> SUFFICES ASSUME Init PROVE PlaceInv(r)
  OBVIOUS
<1>1. \A ep \in Episode : log[ep] = <<>>
  BY DEF Init, NoRows
<1>2. \A ep \in Episode : InPlace(log[ep], 0)
  BY <1>1, EmptyInPlace
<1>3. NoSilentLoss
  <2>1. IsFiniteSet(Recorder)
    BY FS_Singleton
  <2> QED BY <2>1, InitSilent
<1>4. pc[r] = "idle" /\ batch[r] = <<>> /\ queue[r] = <<>>
  BY DEF Init
<1>5. \A ep \in Episode : RowsInPlace(r, ep) /\ BatchInPlace(r, ep) /\ QueueInPlace(r, ep)
  BY <1>4 DEF RowsInPlace, BatchInPlace, QueueInPlace, Building
<1> QED BY <1>2, <1>3, <1>5 DEF PlaceInv, LossesInPlace, GapInPlace

(* However many recorders share the database and whatever of their queues, *)
(* batches, inserts and sessions fails, every event given is accounted for *)
(* by a row, by the count of a gap row, or by what some recorder still     *)
(* carries (recorder.go, noteLoss, carryLoss, takeLosses, flush).          *)
THEOREM NoLossIsEverSilent ==
  ASSUME IsFiniteSet(Recorder)
  PROVE  Spec => []NoSilentLoss
<1>1. Init => TypeOK /\ ControlOK /\ AccountInv /\ NoSilentLoss
  BY InitType, InitAccounts, InitSilent
<1>2. TypeOK /\ ControlOK /\ [Next]_vars => TypeOK' /\ ControlOK'
  BY TypeStep, ControlStep
<1>3. TypeOK /\ ControlOK /\ AccountInv /\ [Next]_vars => AccountInv'
  BY AccountStep
<1>4. TypeOK /\ ControlOK /\ AccountInv /\ NoSilentLoss /\ [Next]_vars /\ TypeOK' => NoSilentLoss'
  BY SilentStep
<1> QED BY <1>1, <1>2, <1>3, <1>4, PTL DEF Spec

(* With one recorder the losses are in place too: an event in the chain    *)
(* has every earlier event of its episode accounted for up to its row, so  *)
(* the gap row stands where the hole is (recorder.go, takeLosses before    *)
(* the events of the batch).                                               *)
THEOREM LossesAlwaysInPlace ==
  ASSUME NEW r, Recorder = {r}
  PROVE  Spec => []LossesInPlace
<1>1. r \in Recorder
  OBVIOUS
<1>2. Init => TypeOK /\ ControlOK /\ AccountInv /\ PlaceInv(r)
  BY <1>1, InitType, InitAccounts, InitPlace
<1>3. TypeOK /\ ControlOK /\ [Next]_vars => TypeOK' /\ ControlOK'
  BY TypeStep, ControlStep
<1>4. TypeOK /\ ControlOK /\ AccountInv /\ [Next]_vars => AccountInv'
  BY AccountStep
<1>5. TypeOK /\ ControlOK /\ AccountInv /\ PlaceInv(r) /\ [Next]_vars /\ TypeOK' /\ AccountInv' => PlaceInv(r)'
  BY <1>1, PlaceStep
<1>6. PlaceInv(r) => LossesInPlace
  BY DEF PlaceInv
<1> QED BY <1>2, <1>3, <1>4, <1>5, <1>6, PTL DEF Spec

(***************************************************************************)
(* The recorder implements the ledger.                                     *)
(***************************************************************************)
UpOf == {r \in Recorder : state[r] # "starting"}
EntriesOf == [ep \in Episode |-> Weights(log[ep])]
OwedOf == [ep \in Episode |-> Owed(ep)]

LEMMA LedgerTotal == \A f : Ledger!Total(f) = Total(f)
<1>1. \A S : Ledger!Cardinality(S) = Cardinality(S)
  BY DEF Cardinality, Ledger!Cardinality
<1> QED BY <1>1 DEF Total, Units, Ledger!Total, Ledger!Units

LEMMA LedgerRise ==
  ASSUME NEW r \in Recorder, UpOf' = UpOf \cup {r}, EntriesOf' = EntriesOf, OwedOf' = OwedOf
  PROVE  Ledger!Next
BY DEF Ledger!Next, Ledger!Rise, UpOf, EntriesOf, OwedOf

LEMMA LedgerStutter ==
  ASSUME UpOf' = UpOf, EntriesOf' = EntriesOf, OwedOf' = OwedOf
  PROVE  UNCHANGED Ledger!vars
BY DEF Ledger!vars, UpOf, EntriesOf, OwedOf

LEMMA LedgerAccept ==
  ASSUME NEW ep \in Episode, UpOf' = UpOf, EntriesOf' = EntriesOf,
         OwedOf' = [OwedOf EXCEPT ![ep] = @ + 1]
  PROVE  Ledger!Next
BY DEF Ledger!Next, Ledger!Accept, UpOf, EntriesOf, OwedOf

LEMMA LedgerEnd ==
  ASSUME NEW r \in Recorder, r \in UpOf, UpOf' = UpOf \ {r}, EntriesOf' = EntriesOf,
         \A ep \in Episode : OwedOf'[ep] \in 0 .. OwedOf[ep]
  PROVE  Ledger!Next
BY DEF Ledger!Next, Ledger!End, UpOf, EntriesOf, OwedOf

LEMMA LedgerPersist ==
  ASSUME UpOf' = UpOf, EntriesOf' # EntriesOf,
         \A ep \in Episode : Ledger!IsPrefix(EntriesOf[ep], EntriesOf'[ep]),
         \/ \A ep \in Episode :
              OwedOf'[ep] = OwedOf[ep] - Total(SubSeq(EntriesOf'[ep], Len(EntriesOf[ep]) + 1, Len(EntriesOf'[ep])))
         \/ OwedOf' = OwedOf
  PROVE  Ledger!Next
BY LedgerTotal DEF Ledger!Next, Ledger!Persist, Ledger!Suffix, UpOf, EntriesOf, OwedOf

LEMMA SuffixOf ==
  ASSUME NEW s \in Seq(Nat), NEW t \in Seq(Nat), NEW u, u = s \o t
  PROVE  SubSeq(u, Len(s) + 1, Len(u)) = t /\ Ledger!IsPrefix(s, u)
<1>1. PICK n \in Nat : n = Len(s)
  OBVIOUS
<1>2. PICK k \in Nat : k = Len(t)
  OBVIOUS
<1>3. u \in Seq(Nat) /\ Len(u) = n + k
  BY <1>1, <1>2
<1>4. SubSeq(u, n + 1, n + k) = t
  <2>1. CASE k = 0
    <3>1. t = <<>>
      BY <1>2, <2>1, EmptySeq
    <3>2. n + 1 \in Int /\ n + k \in Int /\ n + k < n + 1
      BY <2>1
    <3>3. SubSeq(u, n + 1, n + k) = <<>>
      BY <3>2, SubSeqEmpty
    <3> QED BY <3>1, <3>3
  <2>2. CASE k > 0
    <3>1. n + 1 \in Len(s)+1 .. Len(s)+Len(t) /\ n + k \in Len(s)+1 .. Len(s)+Len(t)
      BY <1>1, <1>2, <2>2
    <3>2. (n + 1) - Len(s) = 1 /\ (n + k) - Len(s) = k
      BY <1>1
    <3>3. SubSeq(s \o t, n + 1, n + k) = SubSeq(t, (n + 1) - Len(s), (n + k) - Len(s))
      BY <3>1, SubSeqOfConcat2
    <3>4. SubSeq(t, 1, k) = t
      BY <1>2, PrefixWhole
    <3>5. SubSeq(t, (n + 1) - Len(s), (n + k) - Len(s)) = t
      BY <3>2, <3>4, Zenon
    <3> QED BY <3>3, <3>5, Zenon
  <2>3. k = 0 \/ k > 0
    OBVIOUS
  <2> QED BY <2>1, <2>2, <2>3, Zenon
<1>5. SubSeq(u, 1, n) = SubSeq(s, 1, n)
  <2>1. CASE n = 0
    <3>1. SubSeq(u, 1, n) = <<>> /\ SubSeq(s, 1, n) = <<>>
      BY <2>1, SubSeqEmpty
    <3> QED BY <3>1
  <2>2. CASE n > 0
    <3>1. n \in 1 .. Len(s)
      BY <1>1, <2>2
    <3>2. \A j \in 1 .. Len(s) : SubSeq(u, 1, j) = SubSeq(s, 1, j)
      BY PrefixWithin, Zenon
    <3> QED BY <3>1, <3>2, Zenon
  <2>3. n = 0 \/ n > 0
    OBVIOUS
  <2> QED BY <2>1, <2>2, <2>3, Zenon
<1> QED BY <1>1, <1>3, <1>4, <1>5 DEF Ledger!IsPrefix

(* Rows appended to the log are entries appended to the ledger.            *)
LEMMA EntriesAppended ==
  ASSUME TypeOK, NEW r \in Recorder, AppendRows(r), NEW ep \in Episode
  PROVE  /\ Ledger!IsPrefix(EntriesOf[ep], EntriesOf'[ep])
         /\ Total(SubSeq(EntriesOf'[ep], Len(EntriesOf[ep]) + 1, Len(EntriesOf'[ep]))) = Weight(rows[r][ep])
         /\ EntriesOf'[ep] = EntriesOf[ep] => Weight(rows[r][ep]) = 0
<1>1. PICK s \in Seq(Row) : s = log[ep]
  BY DEF TypeOK
<1>2. PICK t \in Seq(Row) : t = rows[r][ep]
  BY DEF TypeOK
<1>3. PICK u : u = s \o t
  OBVIOUS
<1>4. log'[ep] = u
  BY <1>1, <1>2, <1>3 DEF AppendRows
<1>5. PICK a \in Seq(Nat) : a = Weights(s)
  BY WeightsType
<1>6. PICK b \in Seq(Nat) : b = Weights(t)
  BY WeightsType
<1>7. PICK c : c = a \o b
  OBVIOUS
<1>8. Weights(u) = c
  BY <1>3, <1>5, <1>6, <1>7, WeightsConcat
<1>9. EntriesOf[ep] = a /\ EntriesOf'[ep] = c
  BY <1>1, <1>4, <1>5, <1>8 DEF EntriesOf
<1>10. SubSeq(c, Len(a) + 1, Len(c)) = b /\ Ledger!IsPrefix(a, c)
  BY <1>7, SuffixOf
<1>11. Total(b) = Weight(rows[r][ep])
  BY <1>2, <1>6 DEF Weight
<1>12. c = a => Total(b) = 0
  <2>1. SUFFICES ASSUME c = a PROVE Total(b) = 0
    OBVIOUS
  <2>2. Total(c) = Total(a) + Total(b) /\ Total(a) \in Nat /\ Total(b) \in Nat
    BY <1>7, TotalConcat
  <2> QED BY <2>1, <2>2
<1> QED BY <1>9, <1>10, <1>11, <1>12

LEMMA StateSteps ==
  ASSUME TypeOK, NEW r \in Recorder, StepOf(r)
  PROVE  \/ Connect(r) /\ UpOf' = UpOf \cup {r}
         \/ (Reset(r) \/ Crash(r)) /\ UpOf' = UpOf \ {r}
         \/ ~(Reset(r) \/ Crash(r)) /\ UpOf' = UpOf
<1>1. CASE Connect(r)
  <2>1. state' = [state EXCEPT ![r] = "ready"] \/ state' = [state EXCEPT ![r] = "unavailable"]
    BY <1>1 DEF Connect, ConnectOK, ConnectFails
  <2>2. UpOf' = UpOf \cup {r}
    BY <2>1 DEF TypeOK, UpOf
  <2> QED BY <1>1, <2>2
<1>2. CASE Reset(r) \/ Crash(r)
  <2>1. state' = [state EXCEPT ![r] = "starting"]
    BY <1>2 DEF Reset, Crash
  <2>2. UpOf' = UpOf \ {r}
    BY <2>1 DEF TypeOK, UpOf
  <2> QED BY <1>2, <2>2
<1>3. CASE Caller(r) \/ Cancel(r) \/ \E ep \in Episode : NoteLoss(r, ep)
  <2>1. state' = state
    BY <1>3 DEF Caller, Enqueue, Refuse, Cancel, NoteLoss
  <2> QED BY <1>2, <2>1 DEF UpOf
<1>4. CASE Drain(r)
  <2>1. state' = state
    BY <1>4 DEF Drain, Take, Flush, CacheHit, ReadTail, ReadAnchor, ReadAnchorFails, CacheHead, Extend,
           Commit, CommitCollides, FlushFails, CommitUnknown, CarryLoss, WriteHead, WriteHeadFails,
           HeadWritten, DrainRest, recorderVars
  <2> QED BY <1>2, <2>1 DEF UpOf
<1> QED BY <1>1, <1>2, <1>3, <1>4 DEF StepOf

LEMMA LedgerStep ==
  ASSUME IsFiniteSet(Recorder), TypeOK, AccountInv, [Next]_vars, TypeOK'
  PROVE  [Ledger!Next]_(Ledger!vars)
<1>1. CASE UNCHANGED vars
  BY <1>1, LedgerStutter DEF vars, recorderVars, drainVars, dbVars, UpOf, EntriesOf, OwedOf, Owed, Outstanding
<1>2. ASSUME NEW r \in Recorder, StepOf(r)
      PROVE  [Ledger!Next]_(Ledger!vars)
  <2>1. \A ep \in Episode :
          /\ Outstanding(r, ep) \in Nat /\ Outstanding(r, ep)' \in Nat
          /\ Owed(ep) \in Nat /\ Owed(ep)' \in Nat /\ Owed(ep) >= Outstanding(r, ep)
          /\ Owed(ep)' = Owed(ep) - Outstanding(r, ep) + Outstanding(r, ep)'
    BY <1>2, OwedMoves
  <2>2. \A ep \in Episode : OwedOf[ep] = Owed(ep) /\ OwedOf'[ep] = Owed(ep)'
    BY DEF OwedOf
  <2>3. ASSUME Kept(r) PROVE OwedOf' = OwedOf
    <3>1. \A ep \in Episode : Owed(ep)' = Owed(ep)
      BY <2>1, <2>3 DEF Kept
    <3> QED BY <3>1 DEF OwedOf
  <2>4. log' = log => EntriesOf' = EntriesOf
    BY DEF EntriesOf
  <2>5. CASE Connect(r) /\ UpOf' = UpOf \cup {r}
    <3>1. queue' = queue /\ pending' = pending /\ gaps' = gaps /\ batch' = batch /\ log' = log
      BY <2>5 DEF Connect, ConnectOK, ConnectFails, drainVars, dbVars
    <3>2. Kept(r)
      BY <3>1, SameOutstanding
    <3> QED BY <2>3, <2>4, <2>5, <3>1, <3>2, LedgerRise
  <2>6. CASE (Reset(r) \/ Crash(r)) /\ UpOf' = UpOf \ {r}
    <3>1. Forgotten(r)
      BY <2>6, ResetForgets
    <3>2. r \in UpOf
      BY <2>6 DEF Reset, Crash, AccountInv, AccountsOf, NothingLeft, UpOf
    <3>3. \A ep \in Episode : Owed(ep)' \in 0 .. Owed(ep)
      BY <2>1, <3>1 DEF Forgotten
    <3>4. \A ep \in Episode : OwedOf'[ep] \in 0 .. OwedOf[ep]
      BY <2>2, <3>3
    <3>5. EntriesOf' = EntriesOf
      BY <2>4, <3>1 DEF Forgotten
    <3> QED BY <2>6, <3>2, <3>4, <3>5, LedgerEnd
  <2>7. CASE ~(Reset(r) \/ Crash(r)) /\ UpOf' = UpOf
    <3>1. Effect(r)
      BY <1>2, <2>7, StepEffect DEF AccountInv
    <3>2. CASE Quiet(r)
      BY <2>3, <2>4, <2>7, <3>2, LedgerStutter DEF Quiet
    <3>3. CASE \E ep \in Episode : Given(r, ep)
      <4>1. PICK ep \in Episode : Given(r, ep)
        BY <3>3
      <4>2. \A e \in Episode : Owed(e)' = Owed(e) + (IF e = ep THEN 1 ELSE 0)
        BY <2>1, <4>1 DEF Given
      <4>3. \A e \in Episode : OwedOf'[e] = OwedOf[e] + (IF e = ep THEN 1 ELSE 0) /\ OwedOf[e] \in Nat
        BY <2>1, <2>2, <4>2
      <4>4. PICK f : f = OwedOf
        OBVIOUS
      <4>5. PICK g : g = OwedOf'
        OBVIOUS
      <4>6. f = [e \in Episode |-> f[e]] /\ g = [e \in Episode |-> g[e]]
        <5>1. f = [e \in Episode |-> Owed(e)]
          BY <4>4 DEF OwedOf
        <5>2. g = [e \in Episode |-> Owed(e)']
          BY <4>5 DEF OwedOf
        <5> QED BY <5>1, <5>2, Zenon
      <4>7. \A e \in Episode : g[e] = f[e] + (IF e = ep THEN 1 ELSE 0)
        BY <4>3, <4>4, <4>5
      <4>8. g = [f EXCEPT ![ep] = @ + 1]
        <5>1. f \in [Episode -> Nat]
          BY <4>3, <4>4, <4>6
        <5>2. g \in [Episode -> Nat]
          BY <4>6, <4>7, <5>1
        <5>3. PICK h : h = [f EXCEPT ![ep] = @ + 1]
          OBVIOUS
        <5>4. PICK v \in Nat : v = f[ep] + 1
          BY <5>1
        <5>5. h = [f EXCEPT ![ep] = v]
          BY <5>3, <5>4, Zenon
        <5>6. h \in [Episode -> Nat]
          BY <5>1, <5>5
        <5>7. \A e \in Episode : g[e] = h[e]
          BY <4>7, <5>1, <5>4, <5>5
        <5>8. g = h
          BY <5>2, <5>7, <5>6
        <5> QED BY <5>3, <5>8, Zenon
      <4>9. OwedOf' = [OwedOf EXCEPT ![ep] = @ + 1]
        BY <4>4, <4>5, <4>8, Zenon
      <4>10. EntriesOf' = EntriesOf
        BY <2>4, <4>1 DEF Given
      <4> QED BY <2>7, <4>9, <4>10, LedgerAccept
    <3>4. CASE Settled(r)
      <4>1. AppendRows(r)
        BY <3>4 DEF Settled
      <4>2. \A ep \in Episode : Weight(rows[r][ep]) \in Nat
        BY <4>1, AppendWeighs
      <4>3. \A ep \in Episode : Owed(ep)' = Owed(ep) - Weight(rows[r][ep])
        BY <2>1, <3>4, <4>2 DEF Settled
      <4>4. CASE EntriesOf' = EntriesOf
        <5>1. \A ep \in Episode : EntriesOf'[ep] = EntriesOf[ep]
          BY <4>4
        <5>2. \A ep \in Episode : Weight(rows[r][ep]) = 0
          BY <4>1, <5>1, EntriesAppended
        <5>3. \A ep \in Episode : Owed(ep)' = Owed(ep)
          BY <2>1, <4>3, <5>2
        <5>4. OwedOf' = OwedOf
          BY <5>3 DEF OwedOf
        <5> QED BY <2>7, <4>4, <5>4, LedgerStutter
      <4>5. CASE EntriesOf' # EntriesOf
        <5>1. \A ep \in Episode : OwedOf'[ep] = OwedOf[ep] -
                Total(SubSeq(EntriesOf'[ep], Len(EntriesOf[ep]) + 1, Len(EntriesOf'[ep])))
          BY <2>2, <4>1, <4>3, EntriesAppended
        <5>2. \A ep \in Episode : Ledger!IsPrefix(EntriesOf[ep], EntriesOf'[ep])
          BY <4>1, EntriesAppended
        <5> QED BY <2>7, <4>5, <5>1, <5>2, LedgerPersist
      <4> QED BY <4>4, <4>5
    <3>5. CASE Doubled(r)
      <4>1. AppendRows(r) /\ OwedOf' = OwedOf
        BY <2>3, <3>5 DEF Doubled
      <4>2. CASE EntriesOf' = EntriesOf
        BY <2>7, <4>1, <4>2, LedgerStutter
      <4>3. CASE EntriesOf' # EntriesOf
        <5>2. \A ep \in Episode : Ledger!IsPrefix(EntriesOf[ep], EntriesOf'[ep])
          BY <4>1, EntriesAppended
        <5> QED BY <2>7, <4>1, <4>3, <5>2, LedgerPersist
      <4> QED BY <4>2, <4>3
    <3> QED BY <3>1, <3>2, <3>3, <3>4, <3>5 DEF Effect
  <2> QED BY <1>2, <2>5, <2>6, <2>7, StateSteps
<1>3. Next => \E r \in Recorder : StepOf(r)
  BY DEF Next, StepOf
<1> QED BY <1>1, <1>2, <1>3

LEMMA LedgerInit == Init => Ledger!Init
<1> SUFFICES ASSUME Init PROVE Ledger!Init
  OBVIOUS
<1>1. UpOf = {}
  BY DEF Init, UpOf
<1>2. EntriesOf = [ep \in Episode |-> <<>>]
  <2>1. \A ep \in Episode : Weights(log[ep]) = <<>>
    BY DEF Init, NoRows, Weights
  <2> QED BY <2>1 DEF EntriesOf
<1>3. OwedOf = [ep \in Episode |-> 0]
  <2>1. ASSUME NEW ep \in Episode PROVE Owed(ep) = 0
    <3>1. PICK f : f = [q \in Recorder |-> Outstanding(q, ep)]
      OBVIOUS
    <3>2. \A q \in Recorder : Outstanding(q, ep) = 0
      <4>1. \A q \in Recorder : /\ batch[q] = <<>> /\ queue[q] = <<>>
                                /\ pending[q][ep] = 0 /\ gaps[q][ep] = 0
        BY DEF Init, NoLoss
      <4>2. \A q \in Recorder : CountOf(batch[q], ep) = 0 /\ CountOf(queue[q], ep) = 0
        BY <4>1, CountEmpty
      <4> QED BY <4>1, <4>2 DEF Outstanding
    <3>3. \A x \in DOMAIN f : f[x] = 0
      BY <3>1, <3>2
    <3>4. Total(f) = 0
      BY <3>3, TotalZero
    <3> QED BY <3>1, <3>4 DEF Owed
  <2> QED BY <2>1 DEF OwedOf
<1> QED BY <1>1, <1>2, <1>3 DEF Ledger!Init, UpOf, EntriesOf, OwedOf

(* Any finite number of recorders together implement the ledger: entries   *)
(* are only ever appended, each appended entry is one that was owed, and   *)
(* what is owed disappears without an entry only with the process that     *)
(* owed it (recorder.go, Enqueue to flush).                                *)
THEOREM RecorderImplementsLedger ==
  ASSUME IsFiniteSet(Recorder)
  PROVE  Spec => ImplementsLedger
<1>1. Init => TypeOK /\ ControlOK /\ AccountInv /\ Ledger!Init
  BY InitType, InitAccounts, LedgerInit
<1>2. TypeOK /\ ControlOK /\ [Next]_vars => TypeOK' /\ ControlOK'
  BY TypeStep, ControlStep
<1>3. TypeOK /\ ControlOK /\ AccountInv /\ [Next]_vars => AccountInv'
  BY AccountStep
<1>4. TypeOK /\ AccountInv /\ [Next]_vars /\ TypeOK' => [Ledger!Next]_(Ledger!vars)
  BY LedgerStep
<1> QED BY <1>1, <1>2, <1>3, <1>4, PTL DEF Spec, ImplementsLedger, Ledger!Spec
=============================================================================
