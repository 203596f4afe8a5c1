--------------------------- MODULE ChainOpsProofs ---------------------------
(***************************************************************************)
(* Theorems about the maintenance of a hash chain: for any number of rows, *)
(* archives, failed queries and losses, what was removed is archived, what *)
(* was not lost verifies, and what was lost is noticed.                    *)
(*                                                                         *)
(* The rows, what the recorder continues from, the archives and the        *)
(* truncations are all in one order, that of the items (StateOK); the      *)
(* chain without losses is one piece (Whole); a loss leaves a place where  *)
(* the chain is torn, with everything before it covered by the anchor, and *)
(* no step but the two excused ones mends it (LossStays).                  *)
(***************************************************************************)
EXTENDS ChainOps, SequenceTheorems, FiniteSetTheorems, WellFoundedInduction, TLAPS

Hashes == Seq(Nat \X Nat)
Rows == [seq : Nat, prev : Hashes, item : Nat \ {0}]
Heads == [seq : Nat, hash : Hashes]
Exports == [bound : Int, rows : Seq(Rows), short : BOOLEAN]
Archives == [bound : Int, rows : Seq(Rows), anchor : Heads \cup {NoHead}, short : BOOLEAN]
Records == [through : Nat, resume : Nat, prev : Hashes, archive : Archives]

TypeOK ==
  /\ rows \in Seq(Rows) /\ view \in Seq(Rows)
  /\ anchor \in Heads \cup {NoHead} /\ cache \in Heads \cup {NoHead} /\ due \in Heads \cup {NoHead}
  /\ truncs \subseteq Records /\ export \in Exports \cup {NoExport} /\ archives \subseteq Archives
  /\ stage \in {"idle", "declared", "head"} /\ verdict \in Verdicts
  /\ written \in Nat /\ losses \in Nat /\ short \in BOOLEAN /\ viewShort \in BOOLEAN

(* The item of the row a hash is of.                                       *)
NewestItem(h) == IF h = Genesis THEN 0 ELSE h[Len(h)][2]

Ascend(s) ==
  \A i \in 1 .. Len(s) : \A j \in 1 .. i - 1 : s[j].seq < s[i].seq /\ s[j].item < s[i].item

(* The rows ascend in number and item, and each links to an older item.    *)
InOrder ==
  /\ Ascend(rows)
  /\ \A i \in 1 .. Len(rows) :
        rows[i].item <= written /\ NewestItem(rows[i].prev) < rows[i].item

(* What the recorder continues from is newer than every row.               *)
CacheInOrder ==
  /\ cache # NoHead => /\ NewestItem(cache.hash) <= written
                       /\ \A i \in 1 .. Len(rows) : /\ rows[i].seq < cache.seq
                                                    /\ rows[i].item <= NewestItem(cache.hash)
  /\ due # NoHead => cache # NoHead /\ due.seq + 1 = cache.seq

(* A truncation is of items older than every row, and than what the        *)
(* recorder continues from.                                                *)
TruncsInOrder ==
  \A t \in truncs :
     /\ 0 < NewestItem(t.prev) /\ NewestItem(t.prev) <= written
     /\ \A i \in 1 .. Len(rows) : NewestItem(t.prev) < rows[i].item
     /\ cache # NoHead => NewestItem(t.prev) # NewestItem(cache.hash)

(* The rows no newer than an archive are a stretch of it.                  *)
Holds(s) ==
  s # << >> =>
     /\ Last1(s).item <= written
     /\ \E f \in Nat : \A j \in 1 .. Len(rows) :
           rows[j].item <= Last1(s).item => j + f \in 1 .. Len(s) /\ s[j + f] = rows[j]
ArchivesHold ==
  /\ export # NoExport => Holds(export.rows)
  /\ \A a \in archives : Holds(a.rows)

(* While nothing was lost, the rows are one chain from its declared start  *)
(* to what the recorder continues from, and the anchor is one of them.     *)
Whole ==
  losses = 0 =>
     /\ rows # << >> => VerifyChain(rows, rows[1].seq, rows[1].prev)
     /\ cache # NoHead => cache = TailOf(rows)
     /\ due # NoHead => rows # << >> /\ due = [seq |-> Last1(rows).seq, hash |-> HashOf(Last1(rows))]
     /\ anchor # NoHead => HeadValid(rows, anchor)
     /\ truncs = {} => rows = << >> \/ (rows[1].seq = 0 /\ rows[1].prev = Genesis)
     /\ truncs # {} => rows # << >> /\ \E t \in truncs :
           /\ t.resume = rows[1].seq /\ t.prev = rows[1].prev
           /\ \A u \in truncs : u.through < rows[1].seq /\ (u # t => u.through < t.through)

(* Nothing lowers the anchor but a recorder that could not read it.        *)
AnchorBehind ==
  excuses = {} /\ anchor # NoHead =>
     (cache # NoHead => anchor.seq < cache.seq) /\ (due # NoHead => anchor.seq < due.seq)

Hole(s) == \E i \in 1 .. Len(s) - 1 : s[i + 1].seq # s[i].seq + 1
Undeclared(s) == s # << >> /\ s[1].seq # 0 /\ \A t \in truncs : t.resume # s[1].seq \/ t.prev # s[1].prev

(* Rows k + 1 and on, if any, are not what follows the first k, and the    *)
(* anchor covers more than these.                                          *)
TornAt(k) ==
  /\ anchor # NoHead /\ \A i \in 1 .. k : rows[i].seq < anchor.seq
  /\ \/ k = Len(rows)
     \/ k > 0 /\ rows[k + 1].seq # rows[k].seq + 1
     \/ k = 0 /\ Undeclared(rows)
LossStays == short /\ excuses = {} => \E k \in 0 .. Len(rows) : TornAt(k)

(* The anchor covers more than s, and will whatever the recorder writes.   *)
Beyond(s) ==
  /\ anchor # NoHead
  /\ s # << >> => /\ Last1(s).seq < anchor.seq
                  /\ cache # NoHead => Last1(s).seq < cache.seq
                  /\ due # NoHead => Last1(s).seq < due.seq
ReaderKnows ==
  /\ view # << >> => /\ view[1].item <= written /\ NewestItem(view[1].prev) < view[1].item
                     /\ \A i \in 1 .. Len(rows) : view[1].item <= rows[i].item
  /\ stage = "declared" => view # << >>
  /\ viewShort /\ stage = "declared" => Hole(view) \/ Undeclared(view) \/ Beyond(view)
  /\ viewShort /\ stage = "head" => Beyond(view)
ExportKnows ==
  export # NoExport /\ export.short /\ export.bound = NoBound /\ export.rows # << >> /\ export.rows[1].seq = 0
     => Hole(export.rows) \/ Beyond(export.rows)

(* Some truncation is the last one.                                        *)
TruncsEnd == truncs # {} => \E t \in truncs : \A u \in truncs : t.through >= u.through

StateOK == TypeOK /\ InOrder /\ CacheInOrder /\ TruncsInOrder /\ ArchivesHold
Inv ==
  /\ StateOK /\ TruncsEnd /\ Whole /\ AnchorBehind /\ LossStays /\ ReaderKnows /\ ExportKnows
  /\ RemovedRowsArchived /\ LossCaughtByReader /\ ArchiveShowsLoss

(***************************************************************************)
(* Rows, hashes and sequences of rows.                                     *)
(***************************************************************************)
LEMMA LeastNumber ==
  ASSUME NEW S \in SUBSET Nat, S # {}
  PROVE  \E n \in S : \A m \in S : n <= m
<1>1. PICK n \in S : \A m \in S : ~ (<<m, n>> \in OpToRel(<, Nat))
  BY NatLessThanWellFounded, WFMin
<1>2. \A m \in S : ~(m < n)
  BY <1>1 DEF OpToRel
<1>3. QED
  BY <1>2

LEMMA RowTyped ==
  ASSUME NEW row \in Rows
  PROVE  row.seq \in Nat /\ row.prev \in Hashes /\ row.item \in Nat /\ row.item > 0 /\ HashOf(row) \in Hashes
BY DEF Rows, Hashes, HashOf

LEMMA HashItem ==
  ASSUME NEW row \in Rows
  PROVE  NewestItem(HashOf(row)) = row.item
<1>1. PICK h \in Hashes : h = HashOf(row)
  BY RowTyped
<1>2. row.prev \in Seq(Nat \X Nat) /\ <<row.seq, row.item>> \in Nat \X Nat
  BY RowTyped DEF Hashes
<1>3. PICK e \in Nat \X Nat : e = <<row.seq, row.item>>
  BY <1>2
<1>4. h = Append(row.prev, e)
  BY <1>1, <1>3 DEF HashOf
<1>5. Len(h) = Len(row.prev) + 1 /\ h[Len(row.prev) + 1] = e /\ h # << >>
  BY <1>2, <1>3, <1>4, AppendProperties
<1>6. e[2] = row.item
  BY <1>3
<1>7. QED
  BY <1>1, <1>5, <1>6 DEF NewestItem, Genesis

LEMMA ItemTyped ==
  ASSUME NEW h \in Hashes
  PROVE  NewestItem(h) \in Nat
<1>1. CASE h = Genesis
  BY <1>1 DEF NewestItem
<1>2. CASE h # Genesis
  <2>1. h \in Seq(Nat \X Nat) /\ h # << >>
    BY <1>2 DEF Hashes, Genesis
  <2>2. Len(h) \in 1 .. Len(h)
    BY <2>1
  <2>3. h[Len(h)] \in Nat \X Nat
    BY <2>1, <2>2
  <2>4. h[Len(h)][2] \in Nat
    BY <2>3
  <2>5. QED
    BY <1>2, <2>4 DEF NewestItem
<1>3. QED
  BY <1>1, <1>2

LEMMA GenesisItem == Genesis \in Hashes /\ NewestItem(Genesis) = 0
BY DEF Genesis, Hashes, NewestItem

LEMMA HeadTyped ==
  ASSUME NEW h \in Heads \cup {NoHead}, h # NoHead
  PROVE  h \in Heads /\ h.seq \in Nat /\ h.hash \in Hashes /\ h = [seq |-> h.seq, hash |-> h.hash]
BY DEF Heads

LEMMA HeadIsSome == \A a, b : [seq |-> a, hash |-> b] # NoHead
BY DEF NoHead

LEMMA RowsOf ==
  ASSUME NEW s \in Seq(Rows)
  PROVE  /\ Len(s) \in Nat /\ (s = << >> <=> Len(s) = 0)
         /\ \A i \in 1 .. Len(s) : /\ s[i] \in Rows /\ s[i].seq \in Nat /\ s[i].prev \in Hashes
                                   /\ s[i].item \in Nat /\ s[i].item > 0
BY RowTyped

LEMMA TailTyped ==
  ASSUME NEW s \in Seq(Rows)
  PROVE  /\ TailOf(s) \in Heads
         /\ s = << >> => TailOf(s).seq = 0 /\ TailOf(s).hash = Genesis
         /\ s # << >> => TailOf(s).seq = s[Len(s)].seq + 1 /\ TailOf(s).hash = HashOf(s[Len(s)])
<1>1. CASE s = << >>
  BY <1>1 DEF TailOf, Heads, Hashes, Genesis
<1>2. CASE s # << >>
  <2>1. s[Len(s)] \in Rows
    BY <1>2
  <2>2. QED
    BY <1>2, <2>1, RowTyped DEF TailOf, Heads
<1>3. QED
  BY <1>1, <1>2

LEMMA Appended ==
  ASSUME NEW s \in Seq(Rows), NEW row \in Rows
  PROVE  /\ Append(s, row) \in Seq(Rows) /\ Append(s, row) # << >>
         /\ Len(Append(s, row)) = Len(s) + 1 /\ Append(s, row)[Len(s) + 1] = row
         /\ \A i \in 1 .. Len(s) : Append(s, row)[i] = s[i]
BY AppendProperties

LEMMA FirstRows ==
  ASSUME NEW s \in Seq(Rows), NEW n \in 0 .. Len(s)
  PROVE  /\ SubSeq(s, 1, n) \in Seq(Rows) /\ Len(SubSeq(s, 1, n)) = n
         /\ \A i \in 1 .. n : SubSeq(s, 1, n)[i] = s[i]
BY SubSeqProperties

LEMMA LaterRows ==
  ASSUME NEW s \in Seq(Rows), NEW n \in 0 .. Len(s)
  PROVE  /\ SubSeq(s, n + 1, Len(s)) \in Seq(Rows) /\ Len(SubSeq(s, n + 1, Len(s))) = Len(s) - n
         /\ \A i \in 1 .. Len(s) - n : SubSeq(s, n + 1, Len(s))[i] = s[i + n]
<1>1. CASE n = Len(s)
  <2>1. SubSeq(s, n + 1, Len(s)) = << >>
    BY <1>1, SubSeqEmpty
  <2>2. QED
    BY <1>1, <2>1
<1>2. CASE n < Len(s)
  <2>1. n + 1 \in 1 .. Len(s) + 1 /\ Len(s) \in Nat
    BY <1>2
  <2>2. \A i \in n + 1 .. Len(s) : s[i] \in Rows
    BY RowsOf, <2>1
  <2>3. /\ SubSeq(s, n + 1, Len(s)) \in Seq(Rows) /\ Len(SubSeq(s, n + 1, Len(s))) = Len(s) - (n + 1) + 1
        /\ \A i \in 1 .. Len(s) - (n + 1) + 1 : SubSeq(s, n + 1, Len(s))[i] = s[(n + 1) + i - 1]
    BY <1>2, <2>1, <2>2, SubSeqProperties
  <2>4. QED
    BY <1>2, <2>1, <2>3
<1>3. QED
  BY <1>1, <1>2, RowsOf

(* In rows in order, those numbered at most n come first.                  *)
LEMMA ThroughCounts ==
  ASSUME NEW s \in Seq(Rows), Ascend(s), NEW n \in Int
  PROVE  /\ Through(s, n) \in 0 .. Len(s)
         /\ \A i \in 1 .. Len(s) : i <= Through(s, n) <=> s[i].seq <= n
<1> DEFINE More == {i \in 1 .. Len(s) : s[i].seq > n}
           Counts(k) == \A i \in 1 .. Len(s) : i <= k <=> s[i].seq <= n
<1>1. Len(s) \in Nat /\ \A i \in 1 .. Len(s) : s[i].seq \in Nat
  BY RowsOf
<1>2. \E k \in 0 .. Len(s) : Counts(k)
  <2>1. CASE More = {}
    <3>1. Counts(Len(s))
      BY <1>1, <2>1
    <3>2. Len(s) \in 0 .. Len(s)
      BY <1>1
    <3> HIDE DEF Counts
    <3>3. QED
      BY <3>1, <3>2
  <2>2. CASE More # {}
    <3>1. More \in SUBSET Nat
      BY <1>1
    <3>2. PICK k \in More : \A m \in More : k <= m
      BY <2>2, <3>1, LeastNumber
    <3>3. ASSUME NEW i \in 1 .. Len(s)
          PROVE  i <= k - 1 <=> s[i].seq <= n
      <4>1. CASE i < k
        BY <1>1, <3>2, <4>1
      <4>2. CASE i = k
        BY <1>1, <3>2, <4>2
      <4>3. CASE i > k
        <5>1. k \in 1 .. i - 1 /\ k \in 1 .. Len(s) /\ s[k].seq > n
          BY <1>1, <3>2, <4>3
        <5>2. s[k].seq < s[i].seq
          BY <5>1 DEF Ascend
        <5>3. QED
          BY <1>1, <4>3, <5>1, <5>2
      <4>4. QED
        BY <1>1, <3>2, <4>1, <4>2, <4>3
    <3>4. k - 1 \in 0 .. Len(s)
      BY <1>1, <3>2
    <3>5. QED
      BY <3>3, <3>4
  <2>3. QED
    BY <2>1, <2>2
<1>3. Through(s, n) = CHOOSE k \in 0 .. Len(s) : Counts(k)
  BY DEF Through
<1>4. QED
  BY <1>2, <1>3

(***************************************************************************)
(* The order of rows, hashes, archives and truncations.                    *)
(***************************************************************************)
LEMMA PastTheAnchor ==
  ASSUME NEW h \in Heads, NEW a \in Heads \cup {NoHead}
  PROVE  /\ PastAnchor(h, a) \in Heads /\ PastAnchor(h, a).hash = h.hash /\ PastAnchor(h, a).seq >= h.seq
         /\ a # NoHead => PastAnchor(h, a).seq > a.seq
         /\ ~(a # NoHead /\ a.seq + 1 > h.seq) => PastAnchor(h, a) = h
<1>1. h.seq \in Nat
  BY DEF Heads
<1>2. CASE a # NoHead /\ a.seq + 1 > h.seq
  <2>1. a.seq + 1 \in Nat
    BY <1>2, HeadTyped
  <2>2. PICK g : g = [h EXCEPT !.seq = a.seq + 1]
    OBVIOUS
  <2>3. g \in Heads /\ g.seq = a.seq + 1 /\ g.hash = h.hash
    BY <2>1, <2>2 DEF Heads
  <2>4. PastAnchor(h, a) = g
    BY <1>2, <2>2 DEF PastAnchor
  <2>5. QED
    BY <1>1, <1>2, <2>1, <2>3, <2>4, HeadTyped
<1>3. CASE ~(a # NoHead /\ a.seq + 1 > h.seq)
  <2>1. PastAnchor(h, a) = h
    BY <1>3 DEF PastAnchor
  <2>2. QED
    BY <1>1, <1>3, <2>1, HeadTyped
<1>4. QED
  BY <1>2, <1>3

LEMMA LastIsNewest ==
  ASSUME TypeOK, InOrder, rows # << >>
  PROVE  /\ Len(rows) \in 1 .. Len(rows)
         /\ \A i \in 1 .. Len(rows) : rows[i].seq <= rows[Len(rows)].seq /\ rows[i].item <= rows[Len(rows)].item
<1>1. rows \in Seq(Rows) /\ Len(rows) \in 1 .. Len(rows)
  BY DEF TypeOK
<1>2. SUFFICES ASSUME NEW i \in 1 .. Len(rows)
               PROVE  rows[i].seq <= rows[Len(rows)].seq /\ rows[i].item <= rows[Len(rows)].item
  BY <1>1
<1>3. i = Len(rows) \/ i \in 1 .. Len(rows) - 1
  BY <1>1
<1>4. QED
  BY <1>1, <1>3, RowsOf DEF InOrder, Ascend

(* What the recorder may load continues the rows.                          *)
LEMMA TailInOrder ==
  ASSUME StateOK, NEW h \in Heads, h.hash = TailOf(rows).hash, h.seq >= TailOf(rows).seq
  PROVE  /\ NewestItem(h.hash) <= written
         /\ \A i \in 1 .. Len(rows) : rows[i].seq < h.seq /\ rows[i].item <= NewestItem(h.hash)
         /\ \A t \in truncs : NewestItem(t.prev) # NewestItem(h.hash)
<1>1. rows \in Seq(Rows) /\ written \in Nat /\ truncs \subseteq Records /\ TypeOK /\ InOrder /\ TruncsInOrder
  BY DEF StateOK, TypeOK
<1>2. \A t \in truncs : NewestItem(t.prev) \in Nat
  BY <1>1, ItemTyped DEF Records
<1>3. h.seq \in Nat
  BY DEF Heads
<1>4. CASE rows = << >>
  <2>1. NewestItem(h.hash) = 0 /\ Len(rows) = 0
    BY <1>1, <1>4, GenesisItem, TailTyped
  <2>2. QED
    BY <1>1, <1>2, <2>1 DEF TruncsInOrder
<1>5. CASE rows # << >>
  <2>1. /\ Len(rows) \in 1 .. Len(rows)
        /\ \A i \in 1 .. Len(rows) : rows[i].seq <= rows[Len(rows)].seq /\ rows[i].item <= rows[Len(rows)].item
    BY <1>1, <1>5, LastIsNewest
  <2>2. rows[Len(rows)] \in Rows /\ \A i \in 1 .. Len(rows) : rows[i].seq \in Nat /\ rows[i].item \in Nat
    BY <1>1, <2>1, RowsOf
  <2>3. NewestItem(h.hash) = rows[Len(rows)].item /\ h.seq >= rows[Len(rows)].seq + 1
    BY <1>1, <1>5, <2>2, HashItem, TailTyped
  <2>4. rows[Len(rows)].item <= written
    BY <1>1, <2>1 DEF InOrder
  <2>5. \A t \in truncs : NewestItem(t.prev) < rows[Len(rows)].item
    BY <1>1, <2>1 DEF TruncsInOrder
  <2>6. QED
    BY <1>2, <1>3, <2>1, <2>2, <2>3, <2>4, <2>5
<1>6. QED
  BY <1>4, <1>5

LEMMA LoadOrder ==
  ASSUME StateOK, Load \/ LoadWithoutAnchor
  PROVE  StateOK'
<1>1. /\ TypeOK /\ InOrder /\ CacheInOrder /\ TruncsInOrder /\ ArchivesHold
      /\ UNCHANGED <<rows, anchor, truncs, due, archives, view, stage, verdict, written, removed, short, losses>>
      /\ cache = NoHead
  BY DEF StateOK, Load, LoadWithoutAnchor, dbVars, exportVars, readerVars, historyVars
<1>2. PICK h \in Heads : cache' = h /\ h.hash = TailOf(rows).hash /\ h.seq >= TailOf(rows).seq
  <2>1. TailOf(rows) \in Heads /\ TailOf(rows).seq \in Nat /\ anchor \in Heads \cup {NoHead}
    BY <1>1, TailTyped DEF TypeOK, Heads
  <2>2. CASE Load
    BY <2>1, <2>2, PastTheAnchor DEF Load
  <2>3. CASE LoadWithoutAnchor
    BY <2>1, <2>3 DEF LoadWithoutAnchor
  <2>4. QED
    BY <2>2, <2>3
<1>3. /\ NewestItem(h.hash) <= written
      /\ \A i \in 1 .. Len(rows) : rows[i].seq < h.seq /\ rows[i].item <= NewestItem(h.hash)
      /\ \A t \in truncs : NewestItem(t.prev) # NewestItem(h.hash)
  BY <1>2, TailInOrder
<1>4. /\ export' \in Exports \cup {NoExport} /\ viewShort' \in BOOLEAN
      /\ export' # NoExport => export # NoExport /\ export'.rows = export.rows
  <2>1. CASE Load
    BY <1>1, <2>1 DEF Load, TypeOK, exportVars, readerVars
  <2>2. CASE LoadWithoutAnchor
    <3>1. export = NoExport => export' = NoExport
      BY <2>2 DEF LoadWithoutAnchor
    <3>2. ASSUME export # NoExport
          PROVE  export' \in Exports /\ export'.rows = export.rows
      <4>1. export' = [export EXCEPT !.short = @ /\ GoesAsFarAs(export.rows)]
        BY <2>2, <3>2 DEF LoadWithoutAnchor
      <4>2. export \in Exports /\ (export.short /\ GoesAsFarAs(export.rows)) \in BOOLEAN
        BY <1>1, <3>2 DEF TypeOK
      <4>3. QED
        BY <4>1, <4>2 DEF Exports
    <3>3. QED
      BY <2>2, <3>1, <3>2 DEF LoadWithoutAnchor
  <2>3. QED
    BY <2>1, <2>2
<1>5. TypeOK'
  BY <1>1, <1>2, <1>4 DEF TypeOK
<1>6. InOrder' /\ ArchivesHold'
  BY <1>1, <1>4, ZenonT(60) DEF InOrder, Ascend, ArchivesHold, Holds, Last1
<1>7. CacheInOrder'
  BY <1>1, <1>2, <1>3 DEF CacheInOrder
<1>8. TruncsInOrder'
  BY <1>1, <1>2, <1>3 DEF TruncsInOrder
<1>9. QED
  BY <1>5, <1>6, <1>7, <1>8 DEF StateOK

LEMMA InsertOrder ==
  ASSUME StateOK, Insert
  PROVE  /\ StateOK'
         /\ \E row \in Rows : /\ rows' = Append(rows, row) /\ row.seq = cache.seq /\ row.prev = cache.hash
                              /\ cache' = TailOf(rows') /\ due' = [seq |-> row.seq, hash |-> HashOf(row)]
                              /\ row.item = written + 1
<1>1. /\ TypeOK /\ InOrder /\ CacheInOrder /\ TruncsInOrder /\ ArchivesHold
      /\ UNCHANGED <<anchor, truncs, export, archives, view, stage, verdict, viewShort, removed, short, losses>>
      /\ cache # NoHead /\ due = NoHead /\ written' = written + 1
      /\ rows \in Seq(Rows) /\ written \in Nat
  BY DEF StateOK, TypeOK, Insert, exportVars, readerVars
<1>2. cache \in Heads /\ cache.seq \in Nat /\ cache.hash \in Hashes
  BY <1>1, HeadTyped DEF TypeOK
<1>3. PICK row \in Rows : row = [seq |-> cache.seq, prev |-> cache.hash, item |-> written + 1]
  <2>1. written + 1 \in Nat \ {0}
    BY <1>1
  <2>2. QED
    BY <1>2, <2>1 DEF Rows
<1>4. row.seq = cache.seq /\ row.prev = cache.hash /\ row.item = written + 1
  BY <1>3
<1>5. PICK c \in Heads : c = [seq |-> row.seq + 1, hash |-> HashOf(row)]
  <2>1. row.seq + 1 \in Nat /\ HashOf(row) \in Hashes
    BY RowTyped
  <2>2. QED
    BY <2>1 DEF Heads
<1>6. PICK d \in Heads : d = [seq |-> row.seq, hash |-> HashOf(row)]
  BY <1>2, <1>4, RowTyped DEF Heads
<1>7. rows' = Append(rows, row) /\ cache' = c /\ due' = d
  BY <1>3, <1>5, <1>6 DEF Insert
<1>8. c.seq = row.seq + 1 /\ c.hash = HashOf(row) /\ d.seq = row.seq /\ NewestItem(c.hash) = written + 1 /\ c # NoHead
  BY <1>4, <1>5, <1>6, HashItem, HeadIsSome
<1>9. PICK t : t = Append(rows, row)
  OBVIOUS
<1>10. /\ t \in Seq(Rows) /\ t # << >> /\ Len(t) = Len(rows) + 1 /\ t[Len(rows) + 1] = row
       /\ \A i \in 1 .. Len(rows) : t[i] = rows[i]
       /\ Len(rows) \in Nat
       /\ \A i \in 1 .. Len(rows) : rows[i].seq \in Nat /\ rows[i].item \in Nat /\ rows[i].item > 0
  BY <1>1, <1>9, Appended, RowsOf
<1>11. \A i \in 1 .. Len(t) : i = Len(rows) + 1 \/ i \in 1 .. Len(rows)
  BY <1>10
<1>12. TypeOK'
  BY <1>1, <1>7, <1>9, <1>10 DEF TypeOK
<1>13. \A i \in 1 .. Len(rows) : rows[i].seq < row.seq /\ rows[i].item < row.item /\ rows[i].item <= written
  BY <1>1, <1>4, <1>10 DEF CacheInOrder, InOrder
<1>14. InOrder'
  <2>1. Ascend(t)
    <3>1. SUFFICES ASSUME NEW i \in 1 .. Len(t), NEW j \in 1 .. i - 1
                   PROVE  t[j].seq < t[i].seq /\ t[j].item < t[i].item
      BY DEF Ascend
    <3>2. j \in 1 .. Len(rows)
      BY <1>10
    <3>3. CASE i = Len(rows) + 1
      BY <1>10, <1>13, <3>2, <3>3
    <3>4. CASE i \in 1 .. Len(rows)
      BY <1>1, <1>10, <3>2, <3>4 DEF InOrder, Ascend
    <3>5. QED
      BY <1>11, <3>3, <3>4
  <2>2. ASSUME NEW i \in 1 .. Len(t)
        PROVE  t[i].item <= written + 1 /\ NewestItem(t[i].prev) < t[i].item
    <3>1. CASE i = Len(rows) + 1
      <4>1. NewestItem(cache.hash) \in Nat /\ NewestItem(cache.hash) <= written
        BY <1>1, <1>2, ItemTyped DEF CacheInOrder
      <4>2. QED
        BY <1>1, <1>4, <1>10, <3>1, <4>1
    <3>2. CASE i \in 1 .. Len(rows)
      BY <1>1, <1>10, <1>13, <3>2 DEF InOrder
    <3>3. QED
      BY <1>11, <3>1, <3>2
  <2>3. QED
    BY <1>1, <1>7, <1>9, <2>1, <2>2 DEF InOrder
<1>15. CacheInOrder'
  <2>1. \A i \in 1 .. Len(t) : t[i].seq < c.seq /\ t[i].item <= written + 1
    BY <1>1, <1>2, <1>4, <1>8, <1>10, <1>11, <1>13, SMTT(30)
  <2>2. QED
    BY <1>1, <1>7, <1>8, <1>9, <2>1 DEF CacheInOrder
<1>16. TruncsInOrder'
  <2>1. SUFFICES ASSUME NEW u \in truncs
                 PROVE  /\ 0 < NewestItem(u.prev) /\ NewestItem(u.prev) <= written + 1
                        /\ \A i \in 1 .. Len(t) : NewestItem(u.prev) < t[i].item
                        /\ NewestItem(u.prev) # written + 1
    BY <1>1, <1>7, <1>8, <1>9 DEF TruncsInOrder
  <2>2. NewestItem(u.prev) \in Nat
    BY <1>1, ItemTyped DEF TypeOK, Records
  <2>3. QED
    BY <1>1, <1>4, <1>10, <1>11, <2>2, SMTT(30) DEF TruncsInOrder
<1>17. \A s \in Seq(Rows) : Holds(s) => Holds(s)'
  <2>1. SUFFICES ASSUME NEW s \in Seq(Rows), s # << >>, Holds(s)
                 PROVE  /\ Last1(s).item <= written + 1
                        /\ \E f \in Nat : \A j \in 1 .. Len(t) :
                              t[j].item <= Last1(s).item => j + f \in 1 .. Len(s) /\ s[j + f] = t[j]
    BY <1>1, <1>7, <1>9 DEF Holds, Last1
  <2>2. Last1(s).item \in Nat /\ Last1(s).item <= written
    BY <2>1, RowsOf DEF Holds, Last1
  <2>3. PICK f \in Nat : \A j \in 1 .. Len(rows) :
                            rows[j].item <= Last1(s).item => j + f \in 1 .. Len(s) /\ s[j + f] = rows[j]
    BY <2>1 DEF Holds
  <2>4. ASSUME NEW j \in 1 .. Len(t), t[j].item <= Last1(s).item
        PROVE  j + f \in 1 .. Len(s) /\ s[j + f] = t[j]
    <3>1. j \in 1 .. Len(rows)
      <4>1. written + 1 > Last1(s).item
        BY <1>1, <2>2
      <4>2. t[Len(rows) + 1].item = written + 1
        BY <1>4, <1>10
      <4>3. ~(t[Len(rows) + 1].item <= Last1(s).item)
        BY <1>1, <2>2, <4>1, <4>2
      <4>4. QED
        BY <1>11, <2>4, <4>3
    <3>2. QED
      BY <1>10, <2>3, <2>4, <3>1
  <2>5. Last1(s).item <= written + 1
    BY <1>1, <2>2
  <2>6. QED
    BY <2>4, <2>5
<1>18. ArchivesHold'
  BY <1>1, <1>17 DEF ArchivesHold, TypeOK, Exports, Archives
<1>19. cache' = TailOf(rows')
  BY <1>5, <1>7, <1>9, <1>10 DEF TailOf
<1>20. QED
  BY <1>4, <1>6, <1>7, <1>12, <1>14, <1>15, <1>16, <1>18, <1>19 DEF StateOK

LEMMA AnchorOrder ==
  ASSUME StateOK, WriteAnchor \/ AnchorFails \/ Restart
  PROVE  StateOK'
<1>1. /\ TypeOK /\ InOrder /\ CacheInOrder /\ TruncsInOrder /\ ArchivesHold
      /\ UNCHANGED <<rows, truncs, export, archives, view, stage, verdict, viewShort, written, removed, short, losses>>
      /\ due' = NoHead /\ cache' \in {cache, NoHead} /\ anchor' \in {anchor, due}
  BY DEF StateOK, WriteAnchor, AnchorFails, Restart, dbVars, exportVars, readerVars, historyVars
<1>2. TypeOK'
  BY <1>1 DEF TypeOK
<1>3. InOrder' /\ CacheInOrder' /\ TruncsInOrder' /\ ArchivesHold'
  BY <1>1 DEF InOrder, Ascend, CacheInOrder, TruncsInOrder, ArchivesHold, Holds, Last1
<1>4. QED
  BY <1>2, <1>3 DEF StateOK

LEMMA LoseRows ==
  ASSUME TypeOK, Lose
  PROVE  \E n \in 0 .. Len(rows) - 1 :
            /\ rows' \in Seq(Rows) /\ Len(rows') = n /\ \A i \in 1 .. n : rows'[i] = rows[i]
            /\ short' = (short \/ Behind(rows', anchor))
<1>1. PICK n \in 0 .. Len(rows) - 1 : rows' = SubSeq(rows, 1, n) /\ short' = (short \/ Behind(rows', anchor))
  BY DEF Lose
<1>2. n \in 0 .. Len(rows) /\ rows \in Seq(Rows)
  BY RowsOf DEF TypeOK
<1>3. QED
  BY <1>1, <1>2, FirstRows

LEMMA LoseOrder ==
  ASSUME StateOK, Lose
  PROVE  StateOK'
<1>1. /\ TypeOK /\ InOrder /\ CacheInOrder /\ TruncsInOrder /\ ArchivesHold
      /\ UNCHANGED <<anchor, truncs, cache, due, export, archives, view, stage, verdict, viewShort, written, removed>>
      /\ losses' = losses + 1
      /\ rows \in Seq(Rows)
  BY DEF StateOK, TypeOK, Lose, recorderVars, exportVars, readerVars
<1>2. PICK n \in 0 .. Len(rows) - 1 :
        /\ rows' \in Seq(Rows) /\ Len(rows') = n /\ \A i \in 1 .. n : rows'[i] = rows[i]
        /\ short' = (short \/ Behind(rows', anchor))
  BY <1>1, LoseRows
<1>3. PICK t \in Seq(Rows) : rows' = t /\ Len(t) = n /\ \A i \in 1 .. n : t[i] = rows[i] /\ i \in 1 .. Len(rows)
  <2>1. Len(rows) \in Nat
    BY <1>1
  <2>2. \A i \in 1 .. n : i \in 1 .. Len(rows)
    BY <2>1
  <2>3. QED
    BY <1>2, <2>2
<1>4. TypeOK'
  BY <1>1, <1>2 DEF TypeOK
<1>5. InOrder'
  <2>1. \A i \in 1 .. n : \A j \in 1 .. i - 1 : j \in 1 .. n
    BY RowsOf, <1>1
  <2>2. QED
    BY <1>1, <1>3, <2>1 DEF InOrder, Ascend
<1>6. CacheInOrder' /\ TruncsInOrder'
  BY <1>1, <1>3 DEF CacheInOrder, TruncsInOrder
<1>7. ASSUME NEW s, Holds(s)
      PROVE  Holds(s)'
  <2>1. CASE s = << >>
    BY <2>1 DEF Holds
  <2>2. CASE s # << >>
    <3>1. PICK f \in Nat : \A j \in 1 .. Len(rows) :
                             rows[j].item <= Last1(s).item => j + f \in 1 .. Len(s) /\ s[j + f] = rows[j]
      BY <1>7, <2>2 DEF Holds
    <3>2. \A j \in 1 .. n : t[j].item <= Last1(s).item => j + f \in 1 .. Len(s) /\ s[j + f] = t[j]
      BY <1>3, <3>1
    <3>3. QED
      BY <1>1, <1>3, <1>7, <2>2, <3>2 DEF Holds, Last1
  <2>3. QED
    BY <2>1, <2>2
<1>8. ArchivesHold'
  BY <1>1, <1>7 DEF ArchivesHold
<1>9. QED
  BY <1>4, <1>5, <1>6, <1>8 DEF StateOK

(* The rows of an export, whatever its bound, are the first of the rows.   *)
LEMMA ExportedRows ==
  ASSUME StateOK, NEW bound \in Int
  PROVE  /\ UpTo(rows, bound) \in Seq(Rows) /\ Holds(UpTo(rows, bound))
         /\ bound = NoBound => UpTo(rows, bound) = rows
<1>1. rows \in Seq(Rows) /\ Ascend(rows) /\ InOrder /\ written \in Nat
  BY DEF StateOK, TypeOK, InOrder
<1>2. Len(rows) \in Nat /\ Len(rows) \in 0 .. Len(rows) /\ \A i \in 1 .. Len(rows) : rows[i].item \in Nat
  BY <1>1, RowsOf
<1>3. PICK n \in 0 .. Len(rows) : UpTo(rows, bound) = SubSeq(rows, 1, n)
  <2>1. SubSeq(rows, 1, Len(rows)) = rows
    BY <1>1, SubSeqFull
  <2>2. Through(rows, bound) \in 0 .. Len(rows)
    BY <1>1, ThroughCounts
  <2>3. QED
    BY <1>2, <2>1, <2>2 DEF UpTo
<1>4. PICK s : s = UpTo(rows, bound)
  OBVIOUS
<1>5. s \in Seq(Rows) /\ Len(s) = n /\ \A i \in 1 .. n : s[i] = rows[i]
  BY <1>1, <1>3, <1>4, FirstRows
<1>6. ASSUME s # << >>
      PROVE  /\ Last1(s).item <= written
             /\ \A j \in 1 .. Len(rows) : rows[j].item <= Last1(s).item => j + 0 \in 1 .. Len(s) /\ s[j + 0] = rows[j]
  <2>1. n \in 1 .. n /\ n \in 1 .. Len(rows)
    BY <1>2, <1>5, <1>6, RowsOf
  <2>2. Last1(s) = rows[n]
    BY <1>5, <2>1 DEF Last1
  <2>3. ASSUME NEW j \in 1 .. Len(rows), rows[j].item <= rows[n].item
        PROVE  j \in 1 .. n
    <3>1. CASE j > n
      <4>1. n \in 1 .. j - 1
        BY <1>2, <2>1, <3>1
      <4>2. rows[n].item < rows[j].item
        BY <1>1, <4>1 DEF Ascend
      <4>3. QED
        BY <1>2, <2>1, <2>3, <4>2
    <3>2. QED
      BY <1>2, <2>1, <3>1
  <2>4. ASSUME NEW j \in 1 .. Len(rows), rows[j].item <= Last1(s).item
        PROVE  j + 0 \in 1 .. Len(s) /\ s[j + 0] = rows[j]
    <3>1. j \in 1 .. n
      BY <2>2, <2>3, <2>4
    <3>2. j + 0 = j
      BY <1>2
    <3>3. QED
      BY <1>5, <3>1, <3>2
  <2>5. QED
    BY <1>1, <2>1, <2>2, <2>4 DEF InOrder
<1>7. Holds(s)
  BY <1>6 DEF Holds
<1>8. QED
  BY <1>4, <1>5, <1>7 DEF UpTo

LEMMA ExportOrder ==
  ASSUME StateOK, (\E bound \in NoBound .. MaxRows - 1 : ExportRows(bound)) \/ ExportAnchor
  PROVE  StateOK'
<1>1. /\ TypeOK /\ InOrder /\ CacheInOrder /\ TruncsInOrder /\ ArchivesHold
      /\ UNCHANGED <<rows, anchor, truncs, cache, due, view, stage, verdict, viewShort, written, removed, short, losses>>
  BY DEF StateOK, ExportRows, ExportAnchor, dbVars, recorderVars, readerVars, historyVars
<1>2. export' \in Exports \cup {NoExport} /\ (export' # NoExport => Holds(export'.rows))
  <2>1. CASE \E bound \in NoBound .. MaxRows - 1 : ExportRows(bound)
    <3>1. PICK bound \in Int : ExportRows(bound)
      BY <2>1
    <3>2. PICK s \in Seq(Rows) : s = UpTo(rows, bound) /\ Holds(s)
      BY ExportedRows
    <3>3. (short /\ excuses = {}) \in BOOLEAN
      OBVIOUS
    <3>4. PICK e \in Exports : e = [bound |-> bound, rows |-> s, short |-> short /\ excuses = {}]
      BY <3>3 DEF Exports
    <3>5. e.rows = s
      BY <3>4
    <3>6. export' = e
      BY <3>1, <3>2, <3>4 DEF ExportRows
    <3>7. QED
      BY <3>2, <3>5, <3>6
  <2>2. CASE ExportAnchor
    BY <2>2 DEF ExportAnchor
  <2>3. QED
    BY <2>1, <2>2
<1>3. archives' \subseteq Archives /\ \A a \in archives' : Holds(a.rows)
  <2>1. CASE \E bound \in NoBound .. MaxRows - 1 : ExportRows(bound)
    BY <1>1, <2>1 DEF ExportRows, TypeOK, ArchivesHold
  <2>2. CASE ExportAnchor
    <3>1. export \in Exports /\ Holds(export.rows) /\ anchor \in Heads \cup {NoHead}
      BY <1>1, <2>2 DEF ExportAnchor, TypeOK, ArchivesHold
    <3>2. PICK a \in Archives : a = [bound |-> export.bound, rows |-> export.rows, anchor |-> anchor, short |-> export.short]
      BY <3>1 DEF Exports, Archives
    <3>3. a.rows = export.rows
      BY <3>2
    <3>4. archives' = archives \cup {a}
      BY <2>2, <3>2 DEF ExportAnchor
    <3>5. QED
      BY <1>1, <3>1, <3>3, <3>4 DEF TypeOK, ArchivesHold
  <2>3. QED
    BY <2>1, <2>2
<1>4. TypeOK'
  BY <1>1, <1>2, <1>3 DEF TypeOK
<1>5. \A s : Holds(s) => Holds(s)'
  BY <1>1 DEF Holds, Last1
<1>6. ArchivesHold'
  BY <1>2, <1>3, <1>5 DEF ArchivesHold
<1>7. InOrder' /\ CacheInOrder' /\ TruncsInOrder'
  BY <1>1 DEF InOrder, Ascend, CacheInOrder, TruncsInOrder
<1>8. QED
  BY <1>4, <1>6, <1>7 DEF StateOK

(* What a truncation removes: the first i of the rows, the last of which   *)
(* is the last of the archive and what the next row links to.              *)
Cuts(a, i, t) ==
  /\ rows' \in Seq(Rows) /\ Len(rows') = Len(rows) - i /\ \A j \in 1 .. Len(rows) - i : rows'[j] = rows[j + i]
  /\ a.rows # << >> /\ rows[i].seq = Last1(a.rows).seq /\ HashOf(rows[i]) = HashOf(Last1(a.rows))
  /\ rows[i].item = Last1(a.rows).item /\ NewestItem(t.prev) = rows[i].item
  /\ t = [through |-> rows[i].seq, resume |-> rows[i + 1].seq, prev |-> rows[i + 1].prev, archive |-> a]
  /\ truncs' = truncs \cup {t} /\ \A u \in truncs : u.through # rows[i].seq
  /\ VerifyExport(a)
  /\ \A row \in removed' : row \in removed \/ \E j \in 1 .. i : row = rows[j]
  /\ excuses' = {} => excuses = {} /\ StartsAsDeclared /\ rows[i + 1].seq = rows[i].seq + 1

LEMMA TruncateCuts ==
  ASSUME StateOK, NEW a \in archives, Truncate(a)
  PROVE  \E i \in 1 .. Len(rows) - 1 : \E t \in Records : Cuts(a, i, t)
<1>1. rows \in Seq(Rows) /\ Len(rows) \in Nat /\ Ascend(rows) /\ a \in Archives /\ a.rows \in Seq(Rows)
  BY RowsOf DEF StateOK, TypeOK, InOrder, Archives
<1>2. VerifyExport(a) /\ a.rows # << >>
  BY DEF Truncate, Justified
<1>3. PICK last \in Rows : last = Last1(a.rows)
  <2>1. Len(a.rows) \in 1 .. Len(a.rows)
    BY <1>1, <1>2
  <2>2. QED
    BY <1>1, <2>1, RowsOf DEF Last1
<1>4. last.seq \in Int /\ last.seq \in Nat
  BY RowTyped
<1>5. PICK i : i = Through(rows, last.seq)
  OBVIOUS
<1>6. i \in 0 .. Len(rows) /\ \A j \in 1 .. Len(rows) : j <= i <=> rows[j].seq <= last.seq
  BY <1>1, <1>4, <1>5, ThroughCounts
<1>7. PICK s : s = SubSeq(rows, i + 1, Len(rows))
  OBVIOUS
<1>8. s \in Seq(Rows) /\ Len(s) = Len(rows) - i /\ \A j \in 1 .. Len(rows) - i : s[j] = rows[j + i]
  BY <1>1, <1>6, <1>7, LaterRows
<1>9. /\ \E j \in DOMAIN rows : rows[j].seq = last.seq /\ HashOf(rows[j]) = HashOf(last)
      /\ s # << >> /\ s[1].prev = HashOf(last)
  BY <1>3, <1>5, <1>7 DEF Truncate, Justified, Survivors
<1>10. i \in 1 .. Len(rows) - 1 /\ i \in 1 .. Len(rows) /\ i + 1 \in 1 .. Len(rows) /\ s[1] = rows[i + 1]
  <2>1. PICK j \in 1 .. Len(rows) : rows[j].seq = last.seq
    BY <1>1, <1>9
  <2>2. j <= i
    BY <1>4, <1>6, <2>1
  <2>3. Len(s) > 0
    BY <1>8, <1>9, RowsOf
  <2>4. s[1] = rows[1 + i]
    BY <1>1, <1>6, <1>8, <2>3
  <2>5. QED
    BY <1>1, <1>6, <1>8, <2>2, <2>3, <2>4
<1>11. rows[i] \in Rows /\ rows[i].seq \in Nat /\ rows[i + 1] \in Rows /\ rows[i + 1].seq \in Nat /\ rows[i + 1].prev \in Hashes
  BY <1>1, <1>10, RowsOf
<1>12. rows[i].seq = last.seq /\ HashOf(rows[i]) = HashOf(last)
  <2>1. PICK j \in 1 .. Len(rows) : rows[j].seq = last.seq /\ HashOf(rows[j]) = HashOf(last)
    BY <1>1, <1>9
  <2>2. j = i
    <3>1. j <= i
      BY <1>4, <1>6, <2>1
    <3>2. CASE j < i
      <4>1. j \in 1 .. i - 1
        BY <1>10, <3>2
      <4>2. rows[j].seq < rows[i].seq
        BY <1>1, <1>10, <4>1 DEF Ascend
      <4>3. rows[i].seq <= last.seq
        BY <1>6, <1>10
      <4>4. QED
        BY <1>4, <1>11, <2>1, <4>2, <4>3
    <3>3. QED
      BY <1>10, <3>1, <3>2
  <2>3. QED
    BY <2>1, <2>2
<1>13. rows[i].item = last.item
  BY <1>11, <1>12, HashItem
<1>14. NewestItem(rows[i + 1].prev) = rows[i].item
  BY <1>9, <1>10, <1>11, <1>12, HashItem
<1>15. PICK t : t = [through |-> rows[i].seq, resume |-> rows[i + 1].seq, prev |-> rows[i + 1].prev, archive |-> a]
  OBVIOUS
<1>16. t \in Records /\ t.prev = rows[i + 1].prev
  BY <1>1, <1>11, <1>15 DEF Records
<1>17. /\ truncs' = truncs \cup {t} /\ \A u \in truncs : u.through # rows[i].seq
       /\ rows' = s
       /\ removed' = removed \cup (ToSet(rows) \ ToSet(s))
       /\ excuses' = IF s[1].seq = last.seq + 1 /\ StartsAsDeclared THEN excuses ELSE excuses \cup {"seam"}
  BY <1>3, <1>5, <1>7, <1>10, <1>12, <1>15 DEF Truncate, Survivors, Kept
<1>18. ASSUME NEW row \in removed', row \notin removed
       PROVE  \E j \in 1 .. i : row = rows[j]
  <2>1. row \in ToSet(rows) /\ row \notin ToSet(s)
    BY <1>17, <1>18
  <2>2. PICK j \in 1 .. Len(rows) : row = rows[j]
    BY <1>1, <2>1 DEF ToSet
  <2>3. CASE j > i
    <3>1. j - i \in 1 .. Len(rows) - i /\ (j - i) + i = j
      BY <1>1, <1>10, <2>3
    <3>2. s[j - i] = row /\ j - i \in DOMAIN s
      BY <1>8, <2>2, <3>1
    <3>3. QED
      BY <2>1, <3>2 DEF ToSet
  <2>4. QED
    BY <1>10, <2>2, <2>3
<1>19. excuses' = {} => excuses = {} /\ StartsAsDeclared /\ rows[i + 1].seq = rows[i].seq + 1
  BY <1>10, <1>12, <1>17
<1>20. Cuts(a, i, t)
  BY <1>2, <1>3, <1>8, <1>12, <1>13, <1>14, <1>15, <1>16, <1>17, <1>18, <1>19 DEF Cuts
<1>21. QED
  BY <1>10, <1>16, <1>20

LEMMA TruncateOrder ==
  ASSUME StateOK, NEW a \in archives, Truncate(a)
  PROVE  StateOK'
<1>1. /\ TypeOK /\ InOrder /\ CacheInOrder /\ TruncsInOrder /\ ArchivesHold
      /\ UNCHANGED <<anchor, cache, due, export, archives, view, stage, verdict, viewShort, written, short, losses>>
      /\ rows \in Seq(Rows) /\ Len(rows) \in Nat
  BY RowsOf DEF StateOK, TypeOK, Truncate, recorderVars, exportVars, readerVars
<1>2. PICK i \in 1 .. Len(rows) - 1 : \E t \in Records : Cuts(a, i, t)
  BY TruncateCuts
<1>3. PICK t \in Records : Cuts(a, i, t)
  BY <1>2
<1>4. PICK s \in Seq(Rows) : rows' = s /\ Len(s) = Len(rows) - i /\ \A j \in 1 .. Len(rows) - i : s[j] = rows[j + i]
  BY <1>3 DEF Cuts
<1>5. /\ \A j \in 1 .. Len(s) : j + i \in 1 .. Len(rows) /\ i \in 1 .. (j + i) - 1 /\ s[j] = rows[j + i]
      /\ \A j \in 1 .. Len(s) : \A k \in 1 .. j - 1 : k \in 1 .. Len(s) /\ k + i \in 1 .. (j + i) - 1
      /\ i \in 1 .. Len(rows)
  BY <1>1, <1>4
<1>6. TypeOK'
  BY <1>1, <1>3, <1>4 DEF TypeOK, Cuts
<1>7. InOrder'
  <2>1. Ascend(s)
    BY <1>1, <1>5 DEF InOrder, Ascend
  <2>2. \A j \in 1 .. Len(s) : s[j].item <= written /\ NewestItem(s[j].prev) < s[j].item
    BY <1>1, <1>5 DEF InOrder
  <2>3. QED
    BY <1>1, <1>4, <2>1, <2>2 DEF InOrder
<1>8. CacheInOrder'
  BY <1>1, <1>4, <1>5 DEF CacheInOrder
<1>9. TruncsInOrder'
  <2>1. \A u \in truncs' : u \in truncs \/ u = t
    BY <1>3 DEF Cuts
  <2>2. ASSUME NEW u \in truncs
        PROVE  /\ 0 < NewestItem(u.prev) /\ NewestItem(u.prev) <= written
               /\ \A j \in 1 .. Len(s) : NewestItem(u.prev) < s[j].item
               /\ cache # NoHead => NewestItem(u.prev) # NewestItem(cache.hash)
    BY <1>1, <1>5, <2>2 DEF TruncsInOrder
  <2>3. /\ 0 < NewestItem(t.prev) /\ NewestItem(t.prev) <= written
        /\ \A j \in 1 .. Len(s) : NewestItem(t.prev) < s[j].item
        /\ cache # NoHead => NewestItem(t.prev) # NewestItem(cache.hash)
    <3>1. NewestItem(t.prev) = rows[i].item /\ rows[i].item \in Nat /\ rows[i].item > 0 /\ rows[i].item <= written
      BY <1>1, <1>3, <1>5, RowsOf DEF Cuts, InOrder
    <3>2. \A j \in 1 .. Len(s) : rows[i].item < s[j].item
      BY <1>1, <1>5 DEF InOrder, Ascend
    <3>3. cache # NoHead => rows[i].item # NewestItem(cache.hash)
      <4>1. 1 \in 1 .. Len(s) /\ 1 + i \in 1 .. Len(rows)
        BY <1>1, <1>4
      <4>2. rows[1 + i].item \in Nat /\ rows[i].item < rows[1 + i].item
        BY <1>1, <1>5, <3>2, <4>1, RowsOf
      <4>3. SUFFICES ASSUME cache # NoHead
                     PROVE  rows[i].item # NewestItem(cache.hash)
        OBVIOUS
      <4>4. rows[1 + i].item <= NewestItem(cache.hash) /\ NewestItem(cache.hash) \in Nat
        BY <1>1, <4>1, <4>3, ItemTyped, HeadTyped DEF CacheInOrder, TypeOK
      <4>5. QED
        BY <3>1, <4>2, <4>4
    <3>4. QED
      BY <3>1, <3>2, <3>3
  <2>4. QED
    BY <1>1, <1>4, <2>1, <2>2, <2>3 DEF TruncsInOrder
<1>10. ASSUME NEW q, Holds(q)
       PROVE  Holds(q)'
  <2>1. CASE q = << >>
    BY <2>1 DEF Holds
  <2>2. CASE q # << >>
    <3>1. PICK f \in Nat : \A j \in 1 .. Len(rows) :
                             rows[j].item <= Last1(q).item => j + f \in 1 .. Len(q) /\ q[j + f] = rows[j]
      BY <1>10, <2>2 DEF Holds
    <3>2. PICK g \in Nat : g = f + i
      BY <1>5
    <3>3. ASSUME NEW j \in 1 .. Len(s), s[j].item <= Last1(q).item
          PROVE  j + g \in 1 .. Len(q) /\ q[j + g] = s[j]
      <4>1. (j + i) + f \in 1 .. Len(q) /\ q[(j + i) + f] = rows[j + i]
        BY <1>5, <3>1, <3>3
      <4>2. (j + i) + f = j + g
        BY <1>5, <3>2
      <4>3. QED
        BY <1>5, <4>1, <4>2
    <3>4. Last1(q).item <= written'
      BY <1>1, <1>10, <2>2 DEF Holds
    <3>5. QED
      BY <1>4, <2>2, <3>3, <3>4 DEF Holds, Last1
  <2>3. QED
    BY <2>1, <2>2
<1>11. ArchivesHold'
  BY <1>1, <1>10 DEF ArchivesHold
<1>12. QED
  BY <1>6, <1>7, <1>8, <1>9, <1>11 DEF StateOK

LEMMA ReaderOrder ==
  ASSUME StateOK, Fetch \/ ReadDeclared \/ ReadHead \/ ReadFails
  PROVE  StateOK'
<1>1. /\ TypeOK /\ InOrder /\ CacheInOrder /\ TruncsInOrder /\ ArchivesHold
      /\ UNCHANGED <<rows, anchor, truncs, cache, due, export, archives, written, removed, short, excuses, losses>>
      /\ view' \in {view, rows}
      /\ viewShort' \in {viewShort, (short /\ excuses = {})}
  BY DEF StateOK, Fetch, ReadDeclared, ReadHead, ReadFails, ReaderGoes, dbVars, recorderVars, exportVars, historyVars
<1>2. stage' \in {"idle", "declared", "head"} /\ verdict' \in Verdicts
  BY <1>1 DEF TypeOK, Fetch, ReadDeclared, ReadHead, ReadFails, ReaderGoes, AfterFetch, AfterDeclared, AfterHead, Verdicts
<1>3. TypeOK'
  BY <1>1, <1>2 DEF TypeOK
<1>4. InOrder' /\ CacheInOrder'
  BY <1>1 DEF InOrder, Ascend, CacheInOrder
<1>5. TruncsInOrder'
  BY <1>1 DEF TruncsInOrder
<1>6. ArchivesHold'
  BY <1>1 DEF ArchivesHold, Holds, Last1
<1>7. QED
  BY <1>1, <1>3, <1>4, <1>5, <1>6 DEF StateOK

LEMMA StateStart ==
  ASSUME Init
  PROVE  StateOK
<1>1. TypeOK
  <2>1. \A s : s = << >> => s \in Seq(Rows)
    OBVIOUS
  <2>2. rows \in Seq(Rows) /\ view \in Seq(Rows)
    BY <2>1 DEF Init
  <2>3. /\ anchor = NoHead /\ cache = NoHead /\ due = NoHead /\ truncs = {} /\ export = NoExport /\ archives = {}
        /\ stage \in {"idle", "declared", "head"} /\ verdict \in Verdicts
        /\ written \in Nat /\ losses \in Nat /\ short \in BOOLEAN /\ viewShort \in BOOLEAN
    BY DEF Init, Verdicts
  <2>4. QED
    BY <2>2, <2>3 DEF TypeOK
<1>2. Len(rows) = 0 /\ truncs = {} /\ cache = NoHead /\ due = NoHead /\ export = NoExport /\ archives = {}
  BY DEF Init
<1>3. InOrder /\ CacheInOrder /\ TruncsInOrder /\ ArchivesHold
  BY <1>2 DEF InOrder, Ascend, CacheInOrder, TruncsInOrder, ArchivesHold
<1>4. QED
  BY <1>1, <1>3 DEF StateOK

LEMMA StateStep ==
  ASSUME StateOK, [Next]_vars
  PROVE  StateOK'
<1>1. CASE UNCHANGED vars
  <2>1. UNCHANGED <<rows, anchor, truncs, cache, due, export, archives, view, stage, verdict, viewShort, written, short, losses>>
    BY <1>1 DEF vars, dbVars, recorderVars, exportVars, readerVars, historyVars
  <2>2. TypeOK' /\ InOrder'
    BY <2>1 DEF StateOK, TypeOK, InOrder, Ascend
  <2>3. CacheInOrder' /\ TruncsInOrder' /\ ArchivesHold'
    BY <2>1 DEF StateOK, CacheInOrder, TruncsInOrder, ArchivesHold, Holds, Last1
  <2>4. QED
    BY <2>2, <2>3 DEF StateOK
<1>2. CASE Next
  BY <1>2, LoadOrder, InsertOrder, AnchorOrder, LoseOrder, ExportOrder, TruncateOrder, ReaderOrder DEF Next
<1>3. QED
  BY <1>1, <1>2

(***************************************************************************)
(* What is removed is archived.                                            *)
(***************************************************************************)
(* Each row follows the one before it.                                     *)
Linked(s) == \A i \in 1 .. Len(s) - 1 : s[i + 1].seq = s[i].seq + 1 /\ s[i + 1].prev = HashOf(s[i])

(* A chain verifies when it starts where it should and its rows follow     *)
(* each other.                                                             *)
LEMMA ChainLinks ==
  ASSUME NEW s \in Seq(Rows), s # << >>, NEW start \in Nat, NEW prev
  PROVE  VerifyChain(s, start, prev) <=> s[1].seq = start /\ s[1].prev = prev /\ Linked(s)
<1>1. Len(s) \in Nat /\ 1 \in 1 .. Len(s) /\ \A i \in 1 .. Len(s) : s[i].seq \in Nat
  BY RowsOf
<1>2. ASSUME VerifyChain(s, start, prev)
      PROVE  s[1].seq = start /\ s[1].prev = prev /\ Linked(s)
  <2>1. s[1].seq = start + 1 - 1 /\ s[1].prev = prev
    BY <1>1, <1>2 DEF VerifyChain
  <2>2. ASSUME NEW i \in 1 .. Len(s) - 1
        PROVE  s[i + 1].seq = s[i].seq + 1 /\ s[i + 1].prev = HashOf(s[i])
    <3>1. i \in 1 .. Len(s) /\ i + 1 \in 1 .. Len(s) /\ i + 1 # 1 /\ (i + 1) - 1 = i
      BY <1>1
    <3>2. s[i].seq = start + i - 1 /\ s[i + 1].seq = start + (i + 1) - 1 /\ s[i + 1].prev = HashOf(s[(i + 1) - 1])
      BY <1>2, <3>1 DEF VerifyChain
    <3>3. QED
      BY <3>1, <3>2
  <2>3. QED
    BY <2>1, <2>2 DEF Linked
<1>3. ASSUME s[1].seq = start, s[1].prev = prev, Linked(s)
      PROVE  VerifyChain(s, start, prev)
  <2> DEFINE Off == {i \in 1 .. Len(s) : s[i].seq # start + i - 1}
  <2>1. Off = {}
    <3>1. SUFFICES ASSUME Off # {}
                   PROVE  FALSE
      OBVIOUS
    <3>2. Off \in SUBSET Nat
      BY <1>1
    <3>3. PICK n \in Off : \A m \in Off : n <= m
      BY <3>1, <3>2, LeastNumber
    <3>4. n # 1
      BY <1>3, <3>3
    <3>5. n - 1 \in 1 .. Len(s) - 1 /\ n - 1 \in 1 .. Len(s) /\ (n - 1) + 1 = n /\ n \in 1 .. Len(s)
      BY <1>1, <3>3, <3>4
    <3>6. s[n - 1].seq = start + (n - 1) - 1
      BY <3>3, <3>5
    <3>7. s[(n - 1) + 1].seq = s[n - 1].seq + 1
      BY <1>3, <3>5 DEF Linked
    <3>8. s[n].seq = start + n - 1
      BY <3>5, <3>6, <3>7
    <3>9. QED
      BY <3>3, <3>8
  <2>2. ASSUME NEW i \in 1 .. Len(s), i # 1
        PROVE  s[i].prev = HashOf(s[i - 1])
    <3>1. i - 1 \in 1 .. Len(s) - 1 /\ (i - 1) + 1 = i
      BY <1>1, <2>2
    <3>2. s[(i - 1) + 1].prev = HashOf(s[i - 1])
      BY <1>3, <3>1 DEF Linked
    <3>3. QED
      BY <3>1, <3>2
  <2>3. QED
    BY <1>3, <2>1, <2>2 DEF VerifyChain
<1>4. QED
  BY <1>2, <1>3

(* What an archive that verifies holds of the rows.                        *)
LEMMA ArchiveHolds ==
  ASSUME StateOK, NEW a \in archives, NEW i \in 1 .. Len(rows), a.rows # << >>, rows[i].item = Last1(a.rows).item,
         VerifyExport(a)
  PROVE  /\ \A j \in 1 .. i : rows[j] \in ToSet(a.rows)
         /\ \A j \in 1 .. i - 1 : rows[j + 1].seq = rows[j].seq + 1
<1>1. /\ rows \in Seq(Rows) /\ Ascend(rows) /\ Holds(a.rows) /\ a.rows \in Seq(Rows)
      /\ Len(rows) \in Nat /\ Len(a.rows) \in Nat /\ \A j \in 1 .. Len(rows) : rows[j].item \in Nat
  BY RowsOf DEF StateOK, TypeOK, InOrder, ArchivesHold, Archives
<1>2. PICK f \in Nat : \A j \in 1 .. Len(rows) :
                         rows[j].item <= Last1(a.rows).item => j + f \in 1 .. Len(a.rows) /\ a.rows[j + f] = rows[j]
  BY <1>1 DEF Holds
<1>3. \A j \in 1 .. i : j \in 1 .. Len(rows) /\ j + f \in 1 .. Len(a.rows) /\ a.rows[j + f] = rows[j]
  <2>1. SUFFICES ASSUME NEW j \in 1 .. i
                 PROVE  j \in 1 .. Len(rows) /\ rows[j].item <= rows[i].item
    BY <1>2
  <2>2. j \in 1 .. Len(rows) /\ (j = i \/ j \in 1 .. i - 1)
    BY <1>1
  <2>3. QED
    BY <1>1, <2>2 DEF Ascend
<1>4. ASSUME NEW j \in 1 .. i
      PROVE  rows[j] \in ToSet(a.rows)
  <2>1. PICK m \in 1 .. Len(a.rows) : a.rows[m] = rows[j]
    BY <1>3
  <2>2. PICK q \in Seq(Rows) : q = a.rows
    BY <1>1
  <2>3. DOMAIN q = 1 .. Len(q)
    OBVIOUS
  <2>4. m \in DOMAIN q /\ q[m] = rows[j]
    BY <2>1, <2>2, <2>3
  <2>5. rows[j] \in ToSet(q)
    BY <2>4 DEF ToSet
  <2>6. QED
    BY <2>2, <2>5
<1>5. Linked(a.rows)
  <2>1. a.rows[1].seq \in Nat
    BY <1>1, RowsOf
  <2>2. QED
    BY <1>1, <2>1, ChainLinks DEF VerifyExport, VerifySegment
<1>6. ASSUME NEW j \in 1 .. i - 1
      PROVE  rows[j + 1].seq = rows[j].seq + 1
  <2>1. j \in 1 .. i /\ j + 1 \in 1 .. i
    BY <1>1
  <2>2. j + f \in 1 .. Len(a.rows) - 1 /\ (j + f) + 1 = (j + 1) + f
    BY <1>1, <1>3, <2>1
  <2>3. a.rows[(j + f) + 1].seq = a.rows[j + f].seq + 1
    BY <1>5, <2>2 DEF Linked
  <2>4. QED
    BY <1>3, <2>1, <2>2, <2>3
<1>7. QED
  BY <1>4, <1>6

LEMMA RemovedStep ==
  ASSUME StateOK, RemovedRowsArchived, [Next]_vars
  PROVE  RemovedRowsArchived'
<1>1. CASE UNCHANGED <<removed, truncs>>
  BY <1>1 DEF RemovedRowsArchived
<1>2. CASE \E a \in archives : Truncate(a)
  <2>1. PICK a \in archives : Truncate(a)
    BY <1>2
  <2>2. PICK i \in 1 .. Len(rows) - 1 : \E t \in Records : Cuts(a, i, t)
    BY <2>1, TruncateCuts
  <2>3. PICK t \in Records : Cuts(a, i, t)
    BY <2>2
  <2>4. i \in 1 .. Len(rows) /\ a.rows # << >> /\ rows[i].item = Last1(a.rows).item /\ VerifyExport(a)
    BY <2>3, RowsOf DEF Cuts, StateOK, TypeOK
  <2>5. \A j \in 1 .. i : rows[j] \in ToSet(a.rows)
    BY <2>4, ArchiveHolds
  <2>6. t \in truncs' /\ t.archive = a /\ truncs \subseteq truncs'
    BY <2>3 DEF Cuts
  <2>7. \A row \in removed' : row \in removed \/ \E j \in 1 .. i : row = rows[j]
    BY <2>3 DEF Cuts
  <2>8. QED
    BY <2>4, <2>5, <2>6, <2>7 DEF RemovedRowsArchived
<1>3. QED
  BY <1>1, <1>2 DEF Next, vars, dbVars, historyVars, Load, LoadWithoutAnchor, Insert, WriteAnchor, AnchorFails, Restart,
     Lose, ExportRows, ExportAnchor, Fetch, ReadDeclared, ReadHead, ReadFails, ReaderGoes

(***************************************************************************)
(* What was not lost verifies.                                             *)
(***************************************************************************)
(* The parts of Whole.                                                     *)
WholeRows == rows # << >> => Linked(rows)
WholeRecorder ==
  /\ cache # NoHead => cache = TailOf(rows)
  /\ due # NoHead => rows # << >> /\ due = [seq |-> Last1(rows).seq, hash |-> HashOf(Last1(rows))]
  /\ anchor # NoHead => HeadValid(rows, anchor)
WholeFront ==
  /\ truncs = {} => rows = << >> \/ (rows[1].seq = 0 /\ rows[1].prev = Genesis)
  /\ truncs # {} => rows # << >> /\ \E t \in truncs :
        /\ t.resume = rows[1].seq /\ t.prev = rows[1].prev
        /\ \A u \in truncs : u.through < rows[1].seq /\ (u # t => u.through < t.through)

LEMMA WholeParts ==
  ASSUME StateOK
  PROVE  Whole <=> (losses = 0 => WholeRows /\ WholeRecorder /\ WholeFront)
<1>1. rows # << >> => (VerifyChain(rows, rows[1].seq, rows[1].prev) <=> Linked(rows))
  <2>1. rows \in Seq(Rows) /\ (rows # << >> => rows[1].seq \in Nat)
    BY RowsOf DEF StateOK, TypeOK
  <2>2. QED
    BY <2>1, ChainLinks
<1>2. QED
  BY <1>1 DEF Whole, WholeRows, WholeRecorder, WholeFront

(* Steps that leave the rows and the truncations.                          *)
LEMMA WholeLoad ==
  ASSUME StateOK, WholeRecorder, Load \/ LoadWithoutAnchor
  PROVE  WholeRecorder'
<1>1. UNCHANGED <<rows, anchor, due>> /\ cache = NoHead
  BY DEF Load, LoadWithoutAnchor, dbVars
<1>2. cache' = TailOf(rows)
  <2>1. CASE Load
    <3>1. cache' = PastAnchor(TailOf(rows), anchor)
      BY <2>1 DEF Load
    <3>2. rows \in Seq(Rows) /\ anchor \in Heads \cup {NoHead} /\ TailOf(rows) \in Heads
      BY TailTyped DEF StateOK, TypeOK
    <3>3. SUFFICES ASSUME anchor # NoHead
                   PROVE  ~(anchor.seq + 1 > TailOf(rows).seq)
      BY <3>1, <3>2, PastTheAnchor
    <3>4. HeadValid(rows, anchor) /\ anchor.seq \in Nat
      BY <3>2, <3>3, HeadTyped DEF WholeRecorder
    <3>5. rows # << >>
      BY <3>3, <3>4 DEF HeadValid
    <3>6. TailOf(rows).seq = rows[Len(rows)].seq + 1 /\ Len(rows) \in 1 .. Len(rows)
      BY <3>2, <3>5, TailTyped
    <3>7. rows[Len(rows)].seq \in Nat
      BY <3>2, <3>6, RowsOf
    <3>8. rows[Len(rows)].seq >= anchor.seq
      BY <3>3, <3>4, <3>7 DEF HeadValid
    <3>9. QED
      BY <3>4, <3>6, <3>7, <3>8
  <2>2. CASE LoadWithoutAnchor
    BY <2>2 DEF LoadWithoutAnchor
  <2>3. QED
    BY <2>1, <2>2
<1>3. QED
  BY <1>1, <1>2 DEF WholeRecorder

LEMMA WholeAnchor ==
  ASSUME StateOK, WholeRecorder, WriteAnchor \/ AnchorFails \/ Restart
  PROVE  WholeRecorder'
<1>1. rows' = rows /\ due' = NoHead /\ cache' \in {cache, NoHead}
  BY DEF WriteAnchor, AnchorFails, Restart, dbVars
<1>2. anchor' # NoHead => HeadValid(rows, anchor')
  <2>1. CASE anchor' = anchor
    BY <2>1 DEF WholeRecorder
  <2>2. CASE anchor' = due /\ due # NoHead
    <3>1. PICK d : d = due
      OBVIOUS
    <3>2. rows # << >> /\ d = [seq |-> Last1(rows).seq, hash |-> HashOf(Last1(rows))]
      BY <2>2, <3>1 DEF WholeRecorder
    <3>3. d.seq = Last1(rows).seq /\ d.hash = HashOf(Last1(rows))
      BY <3>2
    <3>4. HeadValid(rows, d)
      BY <3>2, <3>3 DEF HeadValid, Last1
    <3>5. QED
      BY <2>2, <3>1, <3>4
  <2>3. QED
    BY <2>1, <2>2 DEF WriteAnchor, AnchorFails, Restart, dbVars
<1>3. QED
  BY <1>1, <1>2 DEF WholeRecorder

LEMMA WholeInsert ==
  ASSUME StateOK, WholeRows, WholeRecorder, WholeFront, Insert
  PROVE  WholeRows' /\ WholeRecorder' /\ WholeFront'
<1>1. PICK row \in Rows : /\ rows' = Append(rows, row) /\ row.seq = cache.seq /\ row.prev = cache.hash
                          /\ cache' = TailOf(rows') /\ due' = [seq |-> row.seq, hash |-> HashOf(row)]
  BY InsertOrder
<1>2. rows \in Seq(Rows) /\ cache = TailOf(rows) /\ UNCHANGED <<anchor, truncs>> /\ Len(rows) \in Nat
  BY RowsOf DEF StateOK, TypeOK, WholeRecorder, Insert
<1>3. PICK t : t = Append(rows, row)
  OBVIOUS
<1>4. /\ t \in Seq(Rows) /\ t # << >> /\ Len(t) = Len(rows) + 1 /\ t[Len(rows) + 1] = row
      /\ \A i \in 1 .. Len(rows) : t[i] = rows[i]
  BY <1>2, <1>3, Appended
<1>5. rows = << >> => row.seq = 0 /\ row.prev = Genesis /\ Len(rows) = 0
  BY <1>1, <1>2, TailTyped
<1>6. rows # << >> => /\ row.seq = rows[Len(rows)].seq + 1 /\ row.prev = HashOf(rows[Len(rows)])
                      /\ Len(rows) \in 1 .. Len(rows) /\ 1 \in 1 .. Len(rows) /\ rows[Len(rows)].seq \in Nat
  BY <1>1, <1>2, TailTyped, RowsOf
<1>7. Linked(t)
  <2>1. SUFFICES ASSUME NEW i \in 1 .. Len(t) - 1
                 PROVE  t[i + 1].seq = t[i].seq + 1 /\ t[i + 1].prev = HashOf(t[i])
    BY DEF Linked
  <2>2. rows # << >> /\ (i = Len(rows) \/ i \in 1 .. Len(rows) - 1) /\ i \in 1 .. Len(rows)
    BY <1>2, <1>4, RowsOf
  <2>3. CASE i = Len(rows)
    BY <1>4, <1>6, <2>2, <2>3
  <2>4. CASE i \in 1 .. Len(rows) - 1
    <3>1. i + 1 \in 1 .. Len(rows)
      BY <1>2, <2>4
    <3>2. QED
      BY <1>4, <2>2, <2>4, <3>1 DEF WholeRows, Linked
  <2>5. QED
    BY <2>2, <2>3, <2>4
<1>8. WholeRecorder'
  <2>1. t[Len(t)] = row
    BY <1>4
  <2>2. HeadValid(rows, anchor) => HeadValid(t, anchor)
    <3>1. ASSUME anchor # NoHead, HeadValid(rows, anchor)
          PROVE  HeadValid(t, anchor)
      <4>1. rows # << >> /\ rows[Len(rows)].seq >= anchor.seq /\ anchor.seq \in Nat
        BY <3>1, <1>6, HeadTyped DEF HeadValid, StateOK, TypeOK
      <4>2. row.seq > anchor.seq
        BY <1>6, <4>1
      <4>3. QED
        BY <1>4, <2>1, <4>2 DEF HeadValid
    <3>2. QED
      BY <3>1 DEF HeadValid
  <2>3. QED
    BY <1>1, <1>2, <1>3, <1>4, <2>1, <2>2 DEF WholeRecorder, Last1
<1>9. WholeFront'
  <2>1. rows # << >> => t[1] = rows[1]
    BY <1>4, <1>6
  <2>2. rows = << >> => t[1] = row /\ truncs = {}
    BY <1>4, <1>5 DEF WholeFront
  <2>3. QED
    BY <1>1, <1>2, <1>3, <1>4, <1>5, <2>1, <2>2 DEF WholeFront
<1>10. QED
  BY <1>1, <1>3, <1>7, <1>8, <1>9 DEF WholeRows

LEMMA WholeTruncate ==
  ASSUME StateOK, WholeRows, WholeRecorder, WholeFront, NEW a \in archives, Truncate(a)
  PROVE  WholeRows' /\ WholeRecorder' /\ WholeFront'
<1>1. PICK i \in 1 .. Len(rows) - 1 : \E t \in Records : Cuts(a, i, t)
  BY TruncateCuts
<1>2. PICK t \in Records : Cuts(a, i, t)
  BY <1>1
<1>3. PICK s \in Seq(Rows) : rows' = s /\ Len(s) = Len(rows) - i /\ \A j \in 1 .. Len(rows) - i : s[j] = rows[j + i]
  BY <1>2 DEF Cuts
<1>4. /\ rows \in Seq(Rows) /\ Len(rows) \in Nat /\ Ascend(rows) /\ UNCHANGED <<anchor, cache, due>>
      /\ \A j \in 1 .. Len(rows) : rows[j] \in Rows /\ rows[j].seq \in Nat
      /\ \A u \in truncs : u.through \in Nat
  BY RowsOf DEF StateOK, TypeOK, InOrder, Truncate, recorderVars, Records
<1>5. /\ i \in 1 .. Len(rows) /\ i + 1 \in 1 .. Len(rows) /\ 1 \in 1 .. Len(s) /\ rows # << >> /\ s # << >>
      /\ s[1] = rows[i + 1] /\ s[Len(s)] = rows[Len(rows)] /\ 1 \in 1 .. Len(rows)
      /\ \A j \in 1 .. Len(s) : j + i \in 1 .. Len(rows) /\ s[j] = rows[j + i]
  <2>1. i \in 1 .. Len(rows) /\ i + 1 \in 1 .. Len(rows) /\ 1 \in 1 .. Len(s) /\ 1 \in 1 .. Len(rows) /\ Len(s) \in 1 .. Len(s)
    BY <1>3, <1>4
  <2>2. \A j \in 1 .. Len(s) : j + i \in 1 .. Len(rows) /\ s[j] = rows[j + i]
    BY <1>3, <1>4
  <2>3. Len(s) + i = Len(rows) /\ 1 + i = i + 1
    BY <1>3, <1>4
  <2>4. s[1] = rows[i + 1]
    BY <2>1, <2>2, <2>3
  <2>5. s[Len(s)] = rows[Len(rows)]
    BY <2>1, <2>2, <2>3
  <2>6. rows # << >> /\ s # << >>
    BY <1>4, <2>1, RowsOf
  <2>7. QED
    BY <2>1, <2>2, <2>4, <2>5, <2>6
<1>6. WholeRows'
  <2>1. Linked(s)
    <3>1. SUFFICES ASSUME NEW j \in 1 .. Len(s) - 1
                   PROVE  s[j + 1].seq = s[j].seq + 1 /\ s[j + 1].prev = HashOf(s[j])
      BY DEF Linked
    <3>2. j \in 1 .. Len(s) /\ j + 1 \in 1 .. Len(s) /\ j + i \in 1 .. Len(rows) - 1 /\ (j + i) + 1 = (j + 1) + i
      BY <1>3, <1>4
    <3>3. rows[(j + i) + 1].seq = rows[j + i].seq + 1 /\ rows[(j + i) + 1].prev = HashOf(rows[j + i])
      BY <1>5, <3>2 DEF WholeRows, Linked
    <3>4. QED
      BY <1>5, <3>2, <3>3
  <2>2. QED
    BY <1>3, <2>1 DEF WholeRows
<1>7. WholeRecorder'
  <2>1. TailOf(s) = TailOf(rows) /\ (HeadValid(rows, anchor) => HeadValid(s, anchor))
    BY <1>5 DEF TailOf, HeadValid
  <2>2. QED
    BY <1>3, <1>4, <1>5, <2>1 DEF WholeRecorder, Last1
<1>8. WholeFront'
  <2>1. t.resume = s[1].seq /\ t.prev = s[1].prev /\ t.through = rows[i].seq /\ t \in truncs'
    BY <1>2, <1>5 DEF Cuts
  <2>2. rows[i].seq < s[1].seq
    <3>1. i \in 1 .. (i + 1) - 1
      BY <1>4
    <3>2. QED
      BY <1>4, <1>5, <3>1 DEF Ascend
  <2>3. \A u \in truncs : u.through < rows[i].seq
    <3>1. \A u \in truncs : u.through < rows[1].seq
      BY DEF WholeFront
    <3>2. rows[1].seq <= rows[i].seq
      <4>1. i = 1 \/ 1 \in 1 .. i - 1
        BY <1>4
      <4>2. QED
        BY <1>4, <1>5, <4>1 DEF Ascend
    <3>3. QED
      BY <1>4, <1>5, <3>1, <3>2
  <2>4. \A u \in truncs' : u = t \/ u \in truncs
    BY <1>2 DEF Cuts
  <2>5. \A u \in truncs' : u.through < s[1].seq /\ (u # t => u.through < t.through)
    BY <1>4, <1>5, <2>1, <2>2, <2>3, <2>4
  <2>6. QED
    BY <1>3, <1>5, <2>1, <2>5 DEF WholeFront
<1>9. QED
  BY <1>6, <1>7, <1>8

LEMMA WholeStep ==
  ASSUME StateOK, Whole, [Next]_vars
  PROVE  Whole'
<1>1. StateOK'
  BY StateStep
<1>2. SUFFICES ASSUME losses' = 0
               PROVE  WholeRows' /\ WholeRecorder' /\ WholeFront'
  <2>1. Whole' <=> (losses = 0 => WholeRows /\ WholeRecorder /\ WholeFront)'
    BY <1>1, WholeParts, PTL
  <2>2. QED
    BY <1>2, <2>1
<1>3. losses \in Nat
  BY DEF StateOK, TypeOK
<1>4. CASE Lose
  BY <1>2, <1>3, <1>4 DEF Lose
<1>5. CASE losses' = losses
  <2>1. WholeRows /\ WholeRecorder /\ WholeFront
    BY <1>2, <1>5, WholeParts
  <2>2. CASE UNCHANGED <<rows, truncs, cache, due, anchor>>
    BY <2>1, <2>2 DEF WholeRows, WholeRecorder, WholeFront, Linked, Last1
  <2>3. CASE UNCHANGED <<rows, truncs>> /\ WholeRecorder'
    BY <2>1, <2>3 DEF WholeRows, WholeFront, Linked
  <2>4. CASE Load \/ LoadWithoutAnchor
    BY <2>1, <2>3, <2>4, WholeLoad DEF Load, LoadWithoutAnchor, dbVars
  <2>5. CASE WriteAnchor \/ AnchorFails \/ Restart
    BY <2>1, <2>3, <2>5, WholeAnchor DEF WriteAnchor, AnchorFails, Restart, dbVars
  <2>6. CASE Insert
    BY <2>1, <2>6, WholeInsert
  <2>7. CASE \E a \in archives : Truncate(a)
    BY <2>1, <2>7, WholeTruncate
  <2>8. CASE (\E bound \in NoBound .. MaxRows - 1 : ExportRows(bound)) \/ ExportAnchor
    BY <2>2, <2>8 DEF ExportRows, ExportAnchor, dbVars, recorderVars
  <2>9. CASE Fetch \/ ReadDeclared \/ ReadHead \/ ReadFails
    BY <2>2, <2>9 DEF Fetch, ReadDeclared, ReadHead, ReadFails, ReaderGoes, dbVars, recorderVars
  <2>10. CASE UNCHANGED vars
    BY <2>2, <2>10 DEF vars, dbVars, recorderVars
  <2>11. CASE Lose
    BY <1>4, <2>11
  <2>12. QED
    BY <2>4, <2>5, <2>6, <2>7, <2>8, <2>9, <2>10, <2>11 DEF Next
<1>6. losses' = losses \/ Lose
  BY DEF Next, vars, historyVars, Load, LoadWithoutAnchor, Insert, WriteAnchor, AnchorFails, Restart,
     ExportRows, ExportAnchor, Truncate, Fetch, ReadDeclared, ReadHead, ReadFails, ReaderGoes
<1>7. QED
  BY <1>4, <1>5, <1>6

LEMMA WholeVerifies ==
  ASSUME StateOK, Whole
  PROVE  NoFalseAlarm
<1>1. SUFFICES ASSUME losses = 0
               PROVE  VerdictNow = "valid"
  BY DEF NoFalseAlarm
<1>2. WholeRows /\ WholeRecorder /\ WholeFront /\ rows \in Seq(Rows) /\ truncs \subseteq Records
  BY <1>1, WholeParts DEF StateOK, TypeOK
<1>3. AfterHead(rows, anchor) = "valid"
  BY <1>2 DEF AfterHead, WholeRecorder, HeadValid
<1>4. SUFFICES AfterFetch(rows) = "head"
               \/ (AfterFetch(rows) = "declared" /\ AfterDeclared(rows, DeclaredStart(truncs)) = "head")
  BY <1>3 DEF VerdictNow
<1>5. CASE rows = << >>
  <2>1. VerifyChain(rows, 0, Genesis)
    BY <1>5 DEF VerifyChain
  <2>2. QED
    BY <2>1 DEF AfterFetch
<1>6. CASE rows # << >> /\ truncs = {}
  <2>1. VerifyChain(rows, 0, Genesis)
    BY <1>2, <1>6, ChainLinks DEF WholeRows, WholeFront
  <2>2. QED
    BY <2>1 DEF AfterFetch
<1>7. CASE rows # << >> /\ truncs # {}
  <2>1. PICK t \in truncs : /\ t.resume = rows[1].seq /\ t.prev = rows[1].prev
                            /\ \A u \in truncs : u.through < rows[1].seq /\ (u # t => u.through < t.through)
    BY <1>2, <1>7 DEF WholeFront
  <2>2. \A u \in truncs : u.through \in Nat
    BY <1>2 DEF Records
  <2>3. rows[1].seq \in Nat /\ rows[1].seq # 0
    <3>1. rows[1].seq \in Nat
      BY <1>2, <1>7, RowsOf
    <3>2. QED
      BY <2>1, <2>2, <3>1
  <2>4. DeclaredStart(truncs) = t
    <3>1. \A u \in truncs : t.through >= u.through
      BY <2>1, <2>2
    <3>2. \A v \in truncs : (\A u \in truncs : v.through >= u.through) => v = t
      BY <2>1, <2>2
    <3>3. QED
      BY <1>7, <3>1, <3>2 DEF DeclaredStart
  <2>5. t # NoRecord
    BY <1>2 DEF Records, NoRecord
  <2>6. VerifyChain(rows, t.resume, t.prev)
    BY <1>2, <1>7, <2>1, <2>3, ChainLinks DEF WholeRows
  <2>7. AfterDeclared(rows, DeclaredStart(truncs)) = "head"
    BY <2>1, <2>4, <2>5, <2>6 DEF AfterDeclared
  <2>8. QED
    BY <1>7, <2>3, <2>7 DEF AfterFetch
<1>8. QED
  BY <1>5, <1>6, <1>7

(***************************************************************************)
(* What was lost is noticed.                                               *)
(***************************************************************************)
LEMMA TruncsEndStep ==
  ASSUME StateOK, TruncsEnd, [Next]_vars
  PROVE  TruncsEnd'
<1>1. CASE truncs' = truncs
  BY <1>1 DEF TruncsEnd
<1>2. CASE \E a \in archives : Truncate(a)
  <2>1. PICK a \in archives : Truncate(a)
    BY <1>2
  <2>2. PICK i \in 1 .. Len(rows) - 1 : \E t \in Records : Cuts(a, i, t)
    BY <2>1, TruncateCuts
  <2>3. PICK t \in Records : Cuts(a, i, t)
    BY <2>2
  <2>4. truncs' = truncs \cup {t} /\ \A u \in truncs' : u.through \in Nat
    BY <2>3 DEF Cuts, StateOK, TypeOK, Records
  <2>5. CASE truncs = {}
    BY <2>4, <2>5 DEF TruncsEnd
  <2>6. CASE truncs # {}
    <3>1. PICK v \in truncs : \A u \in truncs : v.through >= u.through
      BY <2>6 DEF TruncsEnd
    <3>2. CASE v.through >= t.through
      BY <2>4, <3>1, <3>2 DEF TruncsEnd
    <3>3. CASE t.through >= v.through
      BY <2>4, <3>1, <3>3 DEF TruncsEnd
    <3>4. QED
      BY <2>4, <3>1, <3>2, <3>3
  <2>7. QED
    BY <2>5, <2>6
<1>3. QED
  BY <1>1, <1>2 DEF Next, vars, dbVars, historyVars, Load, LoadWithoutAnchor, Insert, WriteAnchor, AnchorFails, Restart,
     Lose, ExportRows, ExportAnchor, Fetch, ReadDeclared, ReadHead, ReadFails, ReaderGoes

LEMMA DeclaredIsTruncation ==
  ASSUME TruncsEnd, DeclaredStart(truncs) # NoRecord
  PROVE  DeclaredStart(truncs) \in truncs
BY DEF TruncsEnd, DeclaredStart

(* The anchor is behind the recorder.                                      *)
LEMMA AnchorBehindStep ==
  ASSUME StateOK, AnchorBehind, [Next]_vars
  PROVE  AnchorBehind'
<1>1. /\ rows \in Seq(Rows) /\ anchor \in Heads \cup {NoHead} /\ cache \in Heads \cup {NoHead} /\ due \in Heads \cup {NoHead}
      /\ TailOf(rows) \in Heads /\ CacheInOrder
      /\ anchor # NoHead => anchor.seq \in Nat
      /\ cache # NoHead => cache.seq \in Nat
      /\ due # NoHead => due.seq \in Nat
  BY TailTyped, HeadTyped DEF StateOK, TypeOK
<1>2. SUFFICES ASSUME excuses' = {}, anchor' # NoHead
               PROVE  (cache' # NoHead => anchor'.seq < cache'.seq) /\ (due' # NoHead => anchor'.seq < due'.seq)
  BY DEF AnchorBehind
<1>3. excuses = {}
  BY <1>2 DEF Next, vars, historyVars, Load, LoadWithoutAnchor, Insert, WriteAnchor, AnchorFails, Restart,
     Lose, ExportRows, ExportAnchor, Truncate, Fetch, ReadDeclared, ReadHead, ReadFails, ReaderGoes
<1>4. CASE UNCHANGED <<anchor, cache, due>>
  BY <1>2, <1>3, <1>4 DEF AnchorBehind
<1>5. CASE Load
  <2>1. cache' = PastAnchor(TailOf(rows), anchor) /\ UNCHANGED <<anchor, due>> /\ due = NoHead
    BY <1>1, <1>5 DEF Load, dbVars, CacheInOrder
  <2>2. PICK c \in Heads : c = PastAnchor(TailOf(rows), anchor) /\ c.seq > anchor.seq
    BY <1>1, <1>2, <2>1, PastTheAnchor
  <2>3. c.seq \in Nat
    BY DEF Heads
  <2>4. QED
    BY <1>1, <1>2, <2>1, <2>2, <2>3
<1>6. CASE LoadWithoutAnchor
  <2>1. cache' = TailOf(rows) /\ UNCHANGED <<anchor, due>> /\ due = NoHead /\ ~Behind(rows, anchor)
    BY <1>1, <1>2, <1>3, <1>6 DEF LoadWithoutAnchor, dbVars, CacheInOrder
  <2>2. PICK i \in 1 .. Len(rows) : ~(rows[i].seq < anchor.seq)
    BY <1>1, <1>2, <2>1 DEF Behind
  <2>3. rows # << >>
    BY <1>1, <2>2, RowsOf
  <2>4. rows[i].seq <= rows[Len(rows)].seq /\ Len(rows) \in 1 .. Len(rows)
    BY <2>2, <2>3, LastIsNewest DEF StateOK
  <2>5. TailOf(rows).seq = rows[Len(rows)].seq + 1 /\ rows[Len(rows)].seq \in Nat /\ rows[i].seq \in Nat
    BY <1>1, <2>2, <2>3, <2>4, TailTyped, RowsOf
  <2>6. anchor.seq < TailOf(rows).seq
    BY <1>1, <1>2, <2>1, <2>2, <2>4, <2>5
  <2>7. QED
    BY <2>1, <2>6
<1>7. CASE Insert
  <2>1. PICK row \in Rows : /\ rows' = Append(rows, row) /\ row.seq = cache.seq /\ row.prev = cache.hash
                            /\ cache' = TailOf(rows') /\ due' = [seq |-> row.seq, hash |-> HashOf(row)]
    BY <1>7, InsertOrder
  <2>2. PICK t : t = Append(rows, row)
    OBVIOUS
  <2>3. /\ t \in Seq(Rows) /\ t # << >> /\ Len(t) = Len(rows) + 1 /\ t[Len(rows) + 1] = row
    BY <1>1, <2>2, Appended
  <2>4. TailOf(t).seq = row.seq + 1
    BY <2>3, TailTyped
  <2>5. anchor' = anchor /\ cache # NoHead /\ anchor.seq < cache.seq
    BY <1>2, <1>3, <1>7 DEF Insert, AnchorBehind
  <2>6. due'.seq = row.seq
    BY <2>1
  <2>7. anchor.seq < row.seq /\ anchor.seq < TailOf(t).seq
    BY <1>1, <1>2, <2>1, <2>4, <2>5
  <2>8. QED
    BY <2>1, <2>2, <2>5, <2>6, <2>7
<1>8. CASE WriteAnchor
  <2>1. due # NoHead /\ anchor' = due /\ due' = NoHead /\ cache' = cache /\ due.seq + 1 = cache.seq
    BY <1>1, <1>8 DEF WriteAnchor, CacheInOrder
  <2>2. due.seq < cache.seq
    BY <1>1, <2>1
  <2>3. QED
    BY <2>1, <2>2
<1>9. CASE AnchorFails \/ Restart
  <2>1. anchor' = anchor /\ due' = NoHead /\ cache' \in {cache, NoHead}
    BY <1>9 DEF AnchorFails, Restart, dbVars
  <2>2. QED
    BY <1>2, <1>3, <2>1 DEF AnchorBehind
<1>10. QED
  BY <1>4, <1>5, <1>6, <1>7, <1>8, <1>9 DEF Next, vars, dbVars, recorderVars, Lose, ExportRows, ExportAnchor, Truncate,
     Fetch, ReadDeclared, ReadHead, ReadFails, ReaderGoes

(* Where the chain is torn stays torn when a row is appended ...           *)
LEMMA TornInsert ==
  ASSUME StateOK, AnchorBehind, excuses = {}, Insert, NEW k \in 0 .. Len(rows), TornAt(k)
  PROVE  TornAt(k)' /\ k \in 0 .. Len(rows')
<1>1. PICK row \in Rows : /\ rows' = Append(rows, row) /\ row.seq = cache.seq /\ row.prev = cache.hash
                          /\ cache' = TailOf(rows') /\ due' = [seq |-> row.seq, hash |-> HashOf(row)]
  BY InsertOrder
<1>2. /\ rows \in Seq(Rows) /\ Len(rows) \in Nat /\ UNCHANGED <<anchor, truncs>> /\ CacheInOrder /\ TruncsInOrder
      /\ anchor # NoHead /\ cache # NoHead /\ anchor.seq < cache.seq /\ anchor.seq \in Nat /\ cache.seq \in Nat
      /\ \A i \in 1 .. Len(rows) : rows[i].seq \in Nat
  BY RowsOf, HeadTyped DEF StateOK, TypeOK, Insert, TornAt, AnchorBehind
<1>3. PICK t : t = Append(rows, row)
  OBVIOUS
<1>4. /\ t \in Seq(Rows) /\ t # << >> /\ Len(t) = Len(rows) + 1 /\ t[Len(rows) + 1] = row
      /\ \A i \in 1 .. Len(rows) : t[i] = rows[i]
  BY <1>2, <1>3, Appended
<1>5. k \in 0 .. Len(t) /\ \A i \in 1 .. k : i \in 1 .. Len(rows) /\ t[i].seq < anchor.seq
  <2>1. k \in 0 .. Len(t)
    BY <1>2, <1>4
  <2>2. \A i \in 1 .. k : i \in 1 .. Len(rows)
    BY <1>2
  <2>3. ASSUME NEW i \in 1 .. k
        PROVE  t[i].seq < anchor.seq
    <3>1. t[i] = rows[i]
      BY <1>4, <2>2
    <3>2. rows[i].seq < anchor.seq
      BY DEF TornAt
    <3> QED
      BY <3>1, <3>2
  <2> QED
    BY <2>1, <2>2, <2>3
<1>6. \/ k = Len(t)
      \/ k > 0 /\ t[k + 1].seq # t[k].seq + 1
      \/ k = 0 /\ Undeclared(t)
  <2>1. CASE k = Len(rows) /\ k > 0
    <3>1. k \in 1 .. k /\ k \in 1 .. Len(rows) /\ t[k + 1] = row /\ t[k] = rows[k]
      BY <1>2, <1>4, <2>1
    <3>2. rows[k].seq < anchor.seq
      BY <1>4, <1>5, <3>1
    <3>3. row.seq # rows[k].seq + 1
      BY <1>1, <1>2, <3>1, <3>2
    <3>4. QED
      BY <2>1, <3>1, <3>3
  <2>2. CASE k = Len(rows) /\ k = 0
    <3>1. t[1] = row
      BY <1>4, <2>2
    <3>2. row.seq # 0
      BY <1>1, <1>2
    <3>3. ASSUME NEW u \in truncs
          PROVE  u.prev # row.prev
      BY <1>1, <1>2, <3>3 DEF TruncsInOrder
    <3>4. QED
      BY <1>4, <2>2, <3>1, <3>2, <3>3 DEF Undeclared
  <2>3. CASE k # Len(rows)
    <3>1. k + 1 \in 1 .. Len(rows) /\ (k > 0 => k \in 1 .. Len(rows)) /\ 1 \in 1 .. Len(rows)
      BY <1>2, <2>3
    <3>2. t[k + 1] = rows[k + 1] /\ (k > 0 => t[k] = rows[k]) /\ t[1] = rows[1] /\ rows # << >>
      BY <1>2, <1>4, <3>1, RowsOf
    <3>3. Undeclared(rows) => Undeclared(t)
      BY <1>4, <3>2 DEF Undeclared
    <3>4. QED
      BY <2>3, <3>2, <3>3 DEF TornAt
  <2>4. QED
    BY <1>2, <2>1, <2>2, <2>3
<1>7. rows' = t
  BY <1>1, <1>3
<1>8. QED
  BY <1>2, <1>5, <1>6, <1>7 DEF TornAt, Undeclared

(* ... when the newest rows are lost, the tear moves to the end at most ... *)
LEMMA TornLose ==
  ASSUME StateOK, Lose, short => \E k \in 0 .. Len(rows) : TornAt(k), short'
  PROVE  \E k \in 0 .. Len(rows') : TornAt(k)'
<1>1. PICK n \in 0 .. Len(rows) - 1 :
        /\ rows' \in Seq(Rows) /\ Len(rows') = n /\ \A i \in 1 .. n : rows'[i] = rows[i]
        /\ short' = (short \/ Behind(rows', anchor))
  BY LoseRows DEF StateOK
<1>2. PICK t \in Seq(Rows) : rows' = t /\ Len(t) = n /\ \A i \in 1 .. n : t[i] = rows[i]
  BY <1>1
<1>3. rows \in Seq(Rows) /\ Len(rows) \in Nat /\ UNCHANGED <<anchor, truncs>> /\ n \in Nat /\ n < Len(rows)
  BY RowsOf DEF StateOK, TypeOK, Lose
<1>4. SUFFICES \E k \in 0 .. n : /\ anchor # NoHead /\ \A i \in 1 .. k : t[i].seq < anchor.seq
                                 /\ \/ k = n
                                    \/ k > 0 /\ t[k + 1].seq # t[k].seq + 1
                                    \/ k = 0 /\ Undeclared(t)
  BY <1>2, <1>3 DEF TornAt, Undeclared
<1>5. n \in 0 .. n
  BY <1>3
<1>6. CASE Behind(t, anchor)
  <2>1. DOMAIN t = 1 .. n
    BY <1>2
  <2>2. anchor # NoHead /\ \A i \in 1 .. n : t[i].seq < anchor.seq
    BY <1>6, <2>1 DEF Behind
  <2>3. QED
    BY <1>5, <2>2
<1>7. CASE short
  <2>1. PICK k \in 0 .. Len(rows) : TornAt(k)
    BY <1>7
  <2>2. CASE n <= k
    <3>1. \A i \in 1 .. n : i \in 1 .. k
      BY <1>3, <2>2
    <3>2. \A i \in 1 .. n : t[i].seq < anchor.seq
      BY <1>2, <2>1, <3>1 DEF TornAt
    <3>3. QED
      BY <1>5, <2>1, <3>2 DEF TornAt
  <2>3. CASE k < n
    <3>1. k \in 0 .. n /\ k # Len(rows) /\ k + 1 \in 1 .. n /\ (k > 0 => k \in 1 .. n) /\ 1 \in 1 .. n /\ \A i \in 1 .. k : i \in 1 .. n
      BY <1>3, <2>3
    <3>2. \A i \in 1 .. k : t[i].seq < anchor.seq
      BY <1>2, <2>1, <3>1 DEF TornAt
    <3>3. t # << >> /\ t[1] = rows[1]
      BY <1>2, <3>1, RowsOf
    <3>4. Undeclared(rows) => Undeclared(t)
      BY <3>3 DEF Undeclared
    <3>5. \/ k > 0 /\ t[k + 1].seq # t[k].seq + 1
          \/ k = 0 /\ Undeclared(t)
      BY <1>2, <2>1, <3>1, <3>4 DEF TornAt
    <3>6. QED
      BY <2>1, <3>1, <3>2, <3>5 DEF TornAt
  <2>4. n <= k \/ k < n
    BY <1>3
  <2>5. QED
    BY <2>2, <2>3, <2>4
<1>8. QED
  BY <1>1, <1>2, <1>6, <1>7

(* ... and when rows are removed, for what an archive that verifies holds  *)
(* of them is in one piece, and they start where they are declared to.     *)
LEMMA TornTruncate ==
  ASSUME StateOK, TruncsEnd, NEW a \in archives, Truncate(a), excuses' = {}, NEW k \in 0 .. Len(rows), TornAt(k)
  PROVE  \E m \in 0 .. Len(rows') : TornAt(m)'
<1>1. PICK i \in 1 .. Len(rows) - 1 : \E t \in Records : Cuts(a, i, t)
  BY TruncateCuts
<1>2. PICK u \in Records : Cuts(a, i, u)
  BY <1>1
<1>3. PICK t \in Seq(Rows) : rows' = t /\ Len(t) = Len(rows) - i /\ \A j \in 1 .. Len(rows) - i : t[j] = rows[j + i]
  BY <1>2 DEF Cuts
<1>4. rows \in Seq(Rows) /\ Len(rows) \in Nat /\ anchor' = anchor /\ i \in 1 .. Len(rows)
  BY RowsOf DEF StateOK, TypeOK, Truncate
<1>5. \A j \in 1 .. i - 1 : rows[j + 1].seq = rows[j].seq + 1
  BY <1>2, <1>4, ArchiveHolds DEF Cuts
<1>6. rows[i + 1].seq = rows[i].seq + 1 /\ StartsAsDeclared
  BY <1>2 DEF Cuts
<1>7. CASE k = 0
  <2>1. Undeclared(rows)
    BY <1>4, <1>7 DEF TornAt
  <2>2. QED
    BY <1>6, <2>1, DeclaredIsTruncation DEF Undeclared, StartsAsDeclared
<1>8. CASE k > 0 /\ k <= i
  <2>1. k # Len(rows) /\ (k = i \/ k \in 1 .. i - 1)
    BY <1>4, <1>8
  <2>2. rows[k + 1].seq = rows[k].seq + 1
    BY <1>5, <1>6, <2>1
  <2>3. QED
    BY <1>8, <2>1, <2>2 DEF TornAt
<1>9. CASE k > i
  <2>1. PICK m \in 0 .. Len(t) : m = k - i
    BY <1>3, <1>4, <1>9
  <2>2. m > 0 /\ (m = Len(t) <=> k = Len(rows)) /\ m + i = k /\ (m + 1) + i = k + 1
    BY <1>3, <1>4, <1>9, <2>1
  <2>3. ASSUME NEW j \in 1 .. m
        PROVE  t[j].seq < anchor.seq
    <3>1. j \in 1 .. Len(rows) - i /\ j + i \in 1 .. k
      BY <1>3, <1>4, <2>1, <2>2
    <3>2. QED
      BY <1>3, <3>1 DEF TornAt
  <2>4. m # Len(t) => t[m + 1].seq # t[m].seq + 1
    <3>1. SUFFICES ASSUME m # Len(t)
                   PROVE  t[m + 1].seq # t[m].seq + 1
      OBVIOUS
    <3>2. m \in 1 .. Len(rows) - i /\ m + 1 \in 1 .. Len(rows) - i
      <4>1. Len(rows) - i \in Nat /\ m \in 0 .. Len(rows) - i /\ m # Len(rows) - i /\ m > 0
        BY <1>3, <1>4, <2>1, <2>2, <3>1
      <4>2. QED
        BY <4>1
    <3>3. t[m] = rows[k] /\ t[m + 1] = rows[k + 1]
      BY <1>3, <2>2, <3>2
    <3>4. rows[k + 1].seq # rows[k].seq + 1
      BY <1>4, <1>9, <2>2, <3>1 DEF TornAt
    <3>5. QED
      BY <3>3, <3>4
  <2>5. anchor # NoHead
    BY DEF TornAt
  <2>6. TornAt(m)'
    BY <1>3, <1>4, <2>2, <2>3, <2>4, <2>5 DEF TornAt
  <2>7. QED
    BY <1>3, <2>6
<1>10. QED
  BY <1>4, <1>7, <1>8, <1>9

LEMMA TornAnchor ==
  ASSUME StateOK, AnchorBehind, excuses = {}, WriteAnchor, NEW k \in 0 .. Len(rows), TornAt(k)
  PROVE  TornAt(k)' /\ k \in 0 .. Len(rows')
<1>1. due # NoHead /\ anchor' = due /\ UNCHANGED <<rows, truncs>> /\ anchor # NoHead /\ anchor.seq < due.seq
  BY DEF WriteAnchor, TornAt, AnchorBehind
<1>2. anchor.seq \in Nat /\ due.seq \in Nat /\ Len(rows) \in Nat /\ \A i \in 1 .. Len(rows) : rows[i].seq \in Nat
  BY <1>1, HeadTyped, RowsOf DEF StateOK, TypeOK
<1>3. \A i \in 1 .. k : rows[i].seq < due.seq
  <2>1. \A i \in 1 .. k : i \in 1 .. Len(rows) /\ rows[i].seq < anchor.seq
    BY <1>2 DEF TornAt
  <2>2. QED
    BY <1>1, <1>2, <2>1
<1>4. QED
  BY <1>1, <1>3 DEF TornAt, Undeclared

LEMMA LossStaysStep ==
  ASSUME StateOK, TruncsEnd, AnchorBehind, LossStays, [Next]_vars
  PROVE  LossStays'
<1>1. SUFFICES ASSUME short', excuses' = {}
               PROVE  \E k \in 0 .. Len(rows') : TornAt(k)'
  BY DEF LossStays
<1>2. excuses = {}
  BY <1>1 DEF Next, vars, historyVars, Load, LoadWithoutAnchor, Insert, WriteAnchor, AnchorFails, Restart,
     Lose, ExportRows, ExportAnchor, Truncate, Fetch, ReadDeclared, ReadHead, ReadFails, ReaderGoes
<1>3. CASE Lose
  <2>1. short => \E k \in 0 .. Len(rows) : TornAt(k)
    BY <1>2 DEF LossStays
  <2>2. QED
    BY <1>1, <1>3, <2>1, TornLose
<1>4. CASE short' = short
  <2>1. PICK k \in 0 .. Len(rows) : TornAt(k)
    BY <1>1, <1>2, <1>4 DEF LossStays
  <2>2. CASE UNCHANGED <<rows, anchor, truncs>>
    BY <2>1, <2>2 DEF TornAt, Undeclared
  <2>3. CASE Insert
    BY <1>2, <2>1, <2>3, TornInsert
  <2>4. CASE WriteAnchor
    BY <1>2, <2>1, <2>4, TornAnchor
  <2>5. CASE \E a \in archives : Truncate(a)
    BY <1>1, <2>1, <2>5, TornTruncate
  <2>6. QED
    BY <1>3, <2>2, <2>3, <2>4, <2>5 DEF Next, vars, dbVars, Load, LoadWithoutAnchor, AnchorFails, Restart,
       ExportRows, ExportAnchor, Fetch, ReadDeclared, ReadHead, ReadFails, ReaderGoes
<1>5. short' = short \/ Lose
  BY DEF Next, vars, historyVars, Load, LoadWithoutAnchor, Insert, WriteAnchor, AnchorFails, Restart,
     ExportRows, ExportAnchor, Truncate, Fetch, ReadDeclared, ReadHead, ReadFails, ReaderGoes
<1>6. QED
  BY <1>3, <1>4, <1>5

(* A torn chain never reads as valid.                                      *)
LEMMA LossShown ==
  ASSUME StateOK, TruncsEnd, LossStays
  PROVE  LossShows
<1>1. SUFFICES ASSUME short, excuses = {}
               PROVE  VerdictNow = "tampered"
  BY DEF LossShows
<1>2. PICK k \in 0 .. Len(rows) : TornAt(k)
  BY <1>1 DEF LossStays
<1>3. rows \in Seq(Rows) /\ Len(rows) \in Nat /\ anchor # NoHead /\ anchor.seq \in Nat /\ truncs \subseteq Records
  BY <1>2, HeadTyped, RowsOf DEF StateOK, TypeOK, TornAt
<1>4. CASE k = Len(rows)
  <2>1. ~HeadValid(rows, anchor)
    <3>1. CASE rows = << >>
      BY <1>3, <3>1 DEF HeadValid
    <3>2. CASE rows # << >>
      <4>1. Len(rows) \in 1 .. k /\ Len(rows) \in 1 .. Len(rows)
        BY <1>3, <1>4, <3>2, RowsOf
      <4>2. rows[Len(rows)].seq < anchor.seq /\ rows[Len(rows)].seq \in Nat
        BY <1>2, <1>3, <4>1, RowsOf DEF TornAt
      <4>3. QED
        BY <1>3, <4>2 DEF HeadValid
    <3>3. QED
      BY <3>1, <3>2
  <2>2. AfterHead(rows, anchor) = "tampered"
    BY <2>1 DEF AfterHead
  <2>3. QED
    BY <2>2 DEF VerdictNow, AfterFetch, AfterDeclared
<1>5. CASE k # Len(rows) /\ k > 0
  <2>1. k \in 1 .. Len(rows) - 1 /\ rows[k + 1].seq # rows[k].seq + 1
    BY <1>2, <1>3, <1>5 DEF TornAt
  <2>2. ~Linked(rows) /\ rows # << >>
    BY <1>3, <2>1, RowsOf DEF Linked
  <2>3. ~VerifyChain(rows, 0, Genesis)
    BY <1>3, <2>2, ChainLinks
  <2>4. \A t \in truncs : ~VerifyChain(rows, t.resume, t.prev)
    BY <1>3, <2>2, ChainLinks DEF Records
  <2>5. AfterDeclared(rows, DeclaredStart(truncs)) = "tampered"
    BY <2>4, DeclaredIsTruncation DEF AfterDeclared
  <2>6. AfterFetch(rows) \in {"tampered", "declared"}
    BY <2>3 DEF AfterFetch
  <2>7. QED
    BY <2>5, <2>6 DEF VerdictNow
<1>6. CASE k = 0 /\ k # Len(rows)
  <2>1. Undeclared(rows)
    BY <1>2, <1>6 DEF TornAt
  <2>2. rows # << >> /\ rows[1].seq # 0 /\ ~VerifyChain(rows, 0, Genesis)
    BY <1>3, <2>1, ChainLinks DEF Undeclared
  <2>3. AfterFetch(rows) = "declared"
    BY <2>2 DEF AfterFetch
  <2>4. AfterDeclared(rows, DeclaredStart(truncs)) = "tampered"
    BY <2>1, DeclaredIsTruncation DEF AfterDeclared, Undeclared
  <2>5. QED
    BY <2>3, <2>4 DEF VerdictNow
<1>7. QED
  BY <1>3, <1>4, <1>5, <1>6

(* What fetched rows, or exported ones, show of the loss.                  *)
LEMMA TornSeen ==
  ASSUME StateOK, AnchorBehind, LossStays, short, excuses = {}
  PROVE  Hole(rows) \/ Undeclared(rows) \/ Beyond(rows)
<1>1. PICK k \in 0 .. Len(rows) : TornAt(k)
  BY DEF LossStays
<1>2. rows \in Seq(Rows) /\ Len(rows) \in Nat /\ anchor # NoHead /\ anchor.seq \in Nat
      /\ (cache # NoHead => cache.seq \in Nat) /\ (due # NoHead => due.seq \in Nat)
  BY <1>1, HeadTyped, RowsOf DEF StateOK, TypeOK, TornAt
<1>3. CASE k = Len(rows)
  <2>1. SUFFICES ASSUME rows # << >>
                 PROVE  /\ Last1(rows).seq < anchor.seq
                        /\ cache # NoHead => Last1(rows).seq < cache.seq
                        /\ due # NoHead => Last1(rows).seq < due.seq
    BY <1>2 DEF Beyond
  <2>2. Len(rows) \in 1 .. k /\ Len(rows) \in 1 .. Len(rows)
    BY <1>2, <1>3, <2>1, RowsOf
  <2>3. Last1(rows).seq < anchor.seq /\ Last1(rows).seq \in Nat
    BY <1>1, <1>2, <2>2, RowsOf DEF TornAt, Last1
  <2>4. /\ cache # NoHead => anchor.seq < cache.seq
        /\ due # NoHead => anchor.seq < due.seq
    BY <1>2 DEF AnchorBehind
  <2>5. QED
    BY <1>2, <2>3, <2>4
<1>4. CASE k # Len(rows) /\ k > 0
  BY <1>1, <1>2, <1>4 DEF TornAt, Hole
<1>5. CASE k = 0 /\ k # Len(rows)
  BY <1>1, <1>5 DEF TornAt
<1>6. QED
  BY <1>2, <1>3, <1>4, <1>5

(* Rows that the anchor is beyond stay so: only a recorder that could not  *)
(* read it continues below it, and then perhaps not below these.           *)
LEMMA BeyondStays ==
  ASSUME StateOK, NEW s \in Seq(Rows), Beyond(s), [Next]_vars, LoadWithoutAnchor => GoesAsFarAs(s)
  PROVE  Beyond(s)'
<1>1. /\ rows \in Seq(Rows) /\ TailOf(rows) \in Heads /\ TailOf(rows).seq \in Nat /\ anchor \in Heads \cup {NoHead}
      /\ anchor # NoHead /\ anchor.seq \in Nat
      /\ (cache # NoHead => cache.seq \in Nat) /\ (due # NoHead => due.seq \in Nat)
  BY TailTyped, HeadTyped DEF StateOK, TypeOK, Heads, Beyond
<1>2. CASE s = << >>
  <2>1. anchor' # NoHead
    BY <1>1 DEF Next, vars, dbVars, Load, LoadWithoutAnchor, Insert, WriteAnchor, AnchorFails, Restart, Lose,
       ExportRows, ExportAnchor, Truncate, Fetch, ReadDeclared, ReadHead, ReadFails, ReaderGoes
  <2>2. QED
    BY <1>2, <2>1 DEF Beyond
<1>3. CASE s # << >>
  <2>1. PICK n \in Nat : n = Last1(s).seq
    BY <1>3, RowsOf DEF Last1
  <2>2. n < anchor.seq /\ (cache # NoHead => n < cache.seq) /\ (due # NoHead => n < due.seq)
    BY <1>3, <2>1 DEF Beyond
  <2>3. SUFFICES anchor' # NoHead /\ n < anchor'.seq /\ (cache' # NoHead => n < cache'.seq) /\ (due' # NoHead => n < due'.seq)
    BY <2>1 DEF Beyond, Last1
  <2>4. CASE UNCHANGED <<anchor, cache, due>>
    BY <1>1, <2>2, <2>4
  <2>5. CASE Load
    <3>1. cache' = PastAnchor(TailOf(rows), anchor) /\ UNCHANGED <<anchor, due>>
      BY <2>5 DEF Load, dbVars
    <3>2. PICK c \in Heads : c = PastAnchor(TailOf(rows), anchor) /\ c.seq > anchor.seq
      BY <1>1, PastTheAnchor
    <3>3. c.seq \in Nat
      BY DEF Heads
    <3>4. n < c.seq
      BY <1>1, <2>2, <3>2, <3>3
    <3>5. QED
      BY <1>1, <2>2, <3>1, <3>2, <3>4
  <2>6. CASE LoadWithoutAnchor
    <3>1. cache' = TailOf(rows) /\ UNCHANGED <<anchor, due>> /\ TailOf(s).seq <= TailOf(rows).seq
      BY <2>6 DEF LoadWithoutAnchor, dbVars, GoesAsFarAs
    <3>2. TailOf(s).seq = n + 1
      BY <1>3, <2>1, TailTyped DEF Last1
    <3>3. n < TailOf(rows).seq
      BY <1>1, <3>1, <3>2
    <3>4. QED
      BY <1>1, <2>2, <3>1, <3>3
  <2>7. CASE Insert
    <3>1. PICK row \in Rows : /\ rows' = Append(rows, row) /\ row.seq = cache.seq /\ row.prev = cache.hash
                              /\ cache' = TailOf(rows') /\ due' = [seq |-> row.seq, hash |-> HashOf(row)]
      BY <2>7, InsertOrder
    <3>2. PICK t : t = Append(rows, row)
      OBVIOUS
    <3>3. t \in Seq(Rows) /\ t # << >> /\ Len(t) = Len(rows) + 1 /\ t[Len(rows) + 1] = row
      BY <1>1, <3>2, Appended
    <3>4. TailOf(t).seq = row.seq + 1 /\ due'.seq = row.seq
      BY <3>1, <3>3, TailTyped
    <3>5. anchor' = anchor /\ cache # NoHead
      BY <2>7 DEF Insert
    <3>6. n < row.seq /\ n < TailOf(t).seq
      BY <1>1, <2>2, <3>1, <3>4, <3>5
    <3>7. QED
      BY <1>1, <2>2, <3>1, <3>2, <3>4, <3>5, <3>6
  <2>8. CASE WriteAnchor \/ AnchorFails \/ Restart
    <3>1. due' = NoHead /\ cache' \in {cache, NoHead} /\ (anchor' = anchor \/ (anchor' = due /\ due # NoHead))
      BY <2>8 DEF WriteAnchor, AnchorFails, Restart, dbVars
    <3>2. QED
      BY <1>1, <2>2, <3>1
  <2>9. QED
    BY <2>4, <2>5, <2>6, <2>7, <2>8 DEF Next, vars, dbVars, recorderVars, Lose, ExportRows, ExportAnchor, Truncate,
       Fetch, ReadDeclared, ReadHead, ReadFails, ReaderGoes
<1>4. QED
  BY <1>2, <1>3

(* What cannot be said of rows that verify.                                *)
LEMMA VerifiedRows ==
  ASSUME NEW s \in Seq(Rows), NEW start \in Nat, NEW prev, VerifyChain(s, start, prev)
  PROVE  ~Hole(s) /\ (s # << >> => s[1].seq = start /\ s[1].prev = prev)
<1>1. CASE s = << >>
  BY <1>1, RowsOf DEF Hole
<1>2. CASE s # << >>
  BY <1>2, ChainLinks DEF Hole, Linked
<1>3. QED
  BY <1>1, <1>2
LEMMA BeyondTampered ==
  ASSUME StateOK, NEW s \in Seq(Rows), Beyond(s)
  PROVE  ~HeadValid(s, anchor)
<1>1. CASE s = << >>
  BY <1>1 DEF Beyond, HeadValid
<1>2. CASE s # << >>
  <2>1. s[Len(s)].seq \in Nat /\ anchor.seq \in Nat /\ s[Len(s)].seq < anchor.seq /\ anchor # NoHead
    BY <1>2, RowsOf, HeadTyped DEF Beyond, Last1, StateOK, TypeOK
  <2>2. QED
    BY <1>2, <2>1 DEF HeadValid
<1>3. QED
  BY <1>1, <1>2

(***************************************************************************)
(* The reader.                                                             *)
(***************************************************************************)
(* The rows it fetched are no newer than the ones in the table.            *)
ViewOlder ==
  view # << >> => /\ view[1].item <= written /\ NewestItem(view[1].prev) < view[1].item
                  /\ \A i \in 1 .. Len(rows) : view[1].item <= rows[i].item
ViewTorn == viewShort /\ stage = "declared" => Hole(view) \/ Undeclared(view) \/ Beyond(view)
ViewBeyond == viewShort /\ stage = "head" => Beyond(view)

(* Every action but the reader's.                                          *)
Others ==
  \/ Load \/ LoadWithoutAnchor \/ Insert \/ WriteAnchor \/ AnchorFails \/ Restart \/ Lose
  \/ (\E bound \in NoBound .. MaxRows - 1 : ExportRows(bound)) \/ ExportAnchor
  \/ (\E a \in archives : Truncate(a))
  \/ UNCHANGED vars

LEMMA OthersLeaveReader ==
  ASSUME StateOK, Others
  PROVE  /\ UNCHANGED <<view, stage, verdict>> /\ (viewShort' => viewShort)
         /\ LoadWithoutAnchor /\ viewShort' => GoesAsFarAs(view)
         /\ [Next]_vars
<1>1. UNCHANGED <<view, stage, verdict>> /\ (viewShort' => viewShort)
  <2>1. CASE LoadWithoutAnchor
    BY <2>1 DEF LoadWithoutAnchor
  <2>2. CASE Load \/ Insert \/ WriteAnchor \/ AnchorFails \/ Restart
    BY <2>2 DEF readerVars, Load, Insert, WriteAnchor, AnchorFails, Restart
  <2>3. CASE Lose \/ (\E bound \in NoBound .. MaxRows - 1 : ExportRows(bound)) \/ ExportAnchor
    BY <2>3 DEF readerVars, Lose, ExportRows, ExportAnchor
  <2>4. CASE (\E a \in archives : Truncate(a)) \/ UNCHANGED vars
    BY <2>4 DEF vars, readerVars, Truncate
  <2>5. QED
    BY <2>1, <2>2, <2>3, <2>4 DEF Others
<1>2. LoadWithoutAnchor /\ viewShort' => GoesAsFarAs(view)
  BY DEF LoadWithoutAnchor
<1>3. [Next]_vars
  BY DEF Others, Next
<1>4. QED
  BY <1>1, <1>2, <1>3

LEMMA ViewOlderStep ==
  ASSUME StateOK, ViewOlder, [Next]_vars
  PROVE  ViewOlder'
<1>1. /\ rows \in Seq(Rows) /\ view \in Seq(Rows) /\ written \in Nat /\ InOrder /\ Ascend(rows) /\ Len(rows) \in Nat
      /\ \A i \in 1 .. Len(rows) : rows[i].item \in Nat
      /\ view # << >> => view[1].item \in Nat
  BY RowsOf, SMTT(30) DEF StateOK, TypeOK, InOrder
<1>2. CASE UNCHANGED <<view, rows, written>>
  BY <1>2 DEF ViewOlder
<1>3. CASE Fetch
  <2>1. view' = rows /\ UNCHANGED <<rows, written>>
    BY <1>3 DEF Fetch, ReaderGoes, dbVars, historyVars
  <2>2. ASSUME rows # << >>
        PROVE  /\ rows[1].item <= written /\ NewestItem(rows[1].prev) < rows[1].item
               /\ \A i \in 1 .. Len(rows) : rows[1].item <= rows[i].item
    <3>1. 1 \in 1 .. Len(rows) /\ \A i \in 1 .. Len(rows) : i = 1 \/ 1 \in 1 .. i - 1
      BY <1>1, <2>2, RowsOf
    <3>2. QED
      BY <1>1, <3>1 DEF InOrder, Ascend
  <2>3. QED
    BY <2>1, <2>2 DEF ViewOlder
<1>4. CASE Insert
  <2>1. PICK row \in Rows : rows' = Append(rows, row) /\ row.item = written + 1
    BY <1>4, InsertOrder
  <2>2. PICK t : t = Append(rows, row)
    OBVIOUS
  <2>3. /\ Len(t) = Len(rows) + 1 /\ t[Len(rows) + 1] = row
        /\ \A i \in 1 .. Len(rows) : t[i] = rows[i]
    BY <1>1, <2>2, Appended
  <2>4. view' = view /\ written' = written + 1
    BY <1>4 DEF Insert, readerVars
  <2>5. SUFFICES ASSUME view # << >>
                 PROVE  /\ view[1].item <= written + 1 /\ NewestItem(view[1].prev) < view[1].item
                        /\ \A i \in 1 .. Len(t) : view[1].item <= t[i].item
    BY <2>1, <2>2, <2>4 DEF ViewOlder
  <2>6. /\ view[1].item <= written /\ NewestItem(view[1].prev) < view[1].item
        /\ \A i \in 1 .. Len(rows) : view[1].item <= rows[i].item
    BY <2>5 DEF ViewOlder
  <2>7. \A i \in 1 .. Len(t) : i = Len(rows) + 1 \/ i \in 1 .. Len(rows)
    BY <1>1, <2>3
  <2>8. view[1].item <= row.item
    BY <1>1, <2>1, <2>5, <2>6
  <2>9. \A i \in 1 .. Len(t) : view[1].item <= t[i].item
    BY <2>3, <2>6, <2>7, <2>8
  <2>10. QED
    BY <1>1, <2>5, <2>6, <2>9
<1>5. CASE Lose
  <2>1. PICK n \in 0 .. Len(rows) - 1 :
          /\ rows' \in Seq(Rows) /\ Len(rows') = n /\ \A i \in 1 .. n : rows'[i] = rows[i]
          /\ short' = (short \/ Behind(rows', anchor))
    BY <1>5, LoseRows DEF StateOK
  <2>2. UNCHANGED <<view, written>> /\ \A i \in 1 .. n : i \in 1 .. Len(rows)
    BY <1>1, <1>5 DEF Lose, readerVars
  <2>3. QED
    BY <2>1, <2>2 DEF ViewOlder
<1>6. CASE \E a \in archives : Truncate(a)
  <2>1. PICK a \in archives : Truncate(a)
    BY <1>6
  <2>2. PICK i \in 1 .. Len(rows) - 1 : \E t \in Records : Cuts(a, i, t)
    BY <2>1, TruncateCuts
  <2>3. Len(rows') = Len(rows) - i /\ \A j \in 1 .. Len(rows) - i : rows'[j] = rows[j + i] /\ j + i \in 1 .. Len(rows)
    BY <1>1, <2>2 DEF Cuts
  <2>4. UNCHANGED <<view, written>>
    BY <2>1 DEF Truncate, readerVars
  <2>5. QED
    BY <2>3, <2>4 DEF ViewOlder
<1>7. QED
  BY <1>2, <1>3, <1>4, <1>5, <1>6 DEF Next, vars, dbVars, readerVars, historyVars, Load, LoadWithoutAnchor, WriteAnchor,
     AnchorFails, Restart, ExportRows, ExportAnchor, ReadDeclared, ReadHead, ReadFails, ReaderGoes

(* No truncation declares a start that a reader found undeclared: it would *)
(* be of items the reader's rows do not go back to.                        *)
LEMMA UndeclaredStays ==
  ASSUME StateOK, ViewOlder, Undeclared(view), Others
  PROVE  Undeclared(view)'
<1>1. view' = view /\ view # << >>
  BY OthersLeaveReader DEF Undeclared
<1>2. CASE truncs' = truncs
  BY <1>1, <1>2 DEF Undeclared
<1>3. CASE \E a \in archives : Truncate(a)
  <2>1. PICK a \in archives : Truncate(a)
    BY <1>3
  <2>2. PICK i \in 1 .. Len(rows) - 1 : \E t \in Records : Cuts(a, i, t)
    BY <2>1, TruncateCuts
  <2>3. PICK t \in Records : Cuts(a, i, t)
    BY <2>2
  <2>4. truncs' = truncs \cup {t} /\ NewestItem(t.prev) = rows[i].item
    BY <2>3 DEF Cuts
  <2>5. /\ i \in 1 .. Len(rows) /\ rows[i].item \in Nat /\ view[1].item \in Nat /\ NewestItem(view[1].prev) \in Nat
    <3>1. rows \in Seq(Rows) /\ view \in Seq(Rows) /\ Len(rows) \in Nat /\ 1 \in 1 .. Len(view)
      BY <1>1, RowsOf DEF StateOK, TypeOK
    <3>2. i \in 1 .. Len(rows)
      BY <3>1
    <3>3. QED
      BY <3>1, <3>2, RowsOf, ItemTyped
  <2>6. view[1].item <= rows[i].item /\ NewestItem(view[1].prev) < view[1].item
    BY <1>1, <2>5 DEF ViewOlder
  <2>7. t.prev # view[1].prev
    BY <2>4, <2>5, <2>6
  <2>8. QED
    BY <1>1, <2>4, <2>7 DEF Undeclared
<1>4. QED
  BY <1>2, <1>3 DEF Others, vars, dbVars, historyVars, Load, LoadWithoutAnchor, Insert, WriteAnchor,
     AnchorFails, Restart, Lose, ExportRows, ExportAnchor

LEMMA ViewStep ==
  ASSUME StateOK, AnchorBehind, LossStays, ViewOlder, ViewTorn, ViewBeyond, stage = "declared" => view # << >>,
         [Next]_vars
  PROVE  ViewTorn' /\ ViewBeyond' /\ (stage' = "declared" => view' # << >>)
<1>1. rows \in Seq(Rows) /\ view \in Seq(Rows) /\ truncs \subseteq Records
  BY DEF StateOK, TypeOK
<1>2. CASE Others
  <2>1. /\ UNCHANGED <<view, stage, verdict>> /\ (viewShort' => viewShort)
        /\ LoadWithoutAnchor /\ viewShort' => GoesAsFarAs(view)
    BY <1>2, OthersLeaveReader
  <2>2. viewShort' /\ Beyond(view) => Beyond(view)'
    <3>1. PICK s \in Seq(Rows) : s = view
      BY <1>1
    <3>2. viewShort' /\ Beyond(s) => Beyond(s)'
      BY <2>1, <3>1, BeyondStays
    <3>3. QED
      BY <2>1, <3>1, <3>2 DEF Beyond, Last1
  <2>3. Undeclared(view) => Undeclared(view)'
    BY <1>2, UndeclaredStays
  <2>4. Hole(view) => Hole(view)'
    BY <2>1 DEF Hole
  <2>5. ViewTorn'
    BY <2>1, <2>2, <2>3, <2>4 DEF ViewTorn
  <2>6. ViewBeyond'
    BY <2>1, <2>2 DEF ViewBeyond
  <2>7. QED
    BY <2>1, <2>5, <2>6
<1>3. CASE Fetch
  <2>1. /\ view' = rows /\ UNCHANGED <<rows, truncs, anchor, cache, due>>
        /\ viewShort' => short /\ excuses = {}
        /\ stage' \in {"idle", AfterFetch(rows)}
    BY <1>3 DEF Fetch, ReaderGoes, dbVars, recorderVars
  <2>2. viewShort' => Hole(rows) \/ Undeclared(rows) \/ Beyond(rows)
    BY <2>1, TornSeen
  <2>3. stage' = "head" => ~Hole(rows) /\ ~Undeclared(rows)
    <3>1. SUFFICES ASSUME stage' = "head"
                   PROVE  ~Hole(rows) /\ ~Undeclared(rows)
      OBVIOUS
    <3>2. VerifyChain(rows, 0, Genesis)
      BY <2>1, <3>1 DEF AfterFetch
    <3>3. QED
      BY <1>1, <3>2, VerifiedRows DEF Undeclared
  <2>4. stage' = "declared" => rows # << >>
    BY <2>1 DEF AfterFetch
  <2>5. /\ Hole(view)' <=> Hole(rows)
        /\ Undeclared(view)' <=> Undeclared(rows)
        /\ Beyond(view)' <=> Beyond(rows)
    BY <2>1 DEF Hole, Undeclared, Beyond, Last1
  <2>6. ViewTorn' /\ ViewBeyond'
    BY <2>1, <2>2, <2>3, <2>5 DEF ViewTorn, ViewBeyond
  <2>7. QED
    BY <2>1, <2>4, <2>6
<1>4. CASE ReadDeclared
  <2>1. /\ stage = "declared" /\ UNCHANGED <<view, viewShort, rows, truncs, anchor, cache, due>>
        /\ stage' \in {"idle", AfterDeclared(view, DeclaredStart(truncs))} /\ stage' # "declared"
    BY <1>4 DEF ReadDeclared, ReaderGoes, dbVars, recorderVars, AfterDeclared, Verdicts
  <2>2. SUFFICES ASSUME viewShort, stage' = "head"
                 PROVE  Beyond(view)'
    BY <2>1 DEF ViewTorn, ViewBeyond
  <2>3. PICK t : t = DeclaredStart(truncs)
    OBVIOUS
  <2>4. t # NoRecord /\ view[1].seq = t.resume /\ view[1].prev = t.prev /\ VerifyChain(view, t.resume, t.prev)
    BY <2>1, <2>2, <2>3 DEF AfterDeclared
  <2>5. t \in truncs
    BY <2>3, <2>4 DEF DeclaredStart
  <2>6. ~Hole(view)
    BY <1>1, <2>4, <2>5, VerifiedRows DEF Records
  <2>7. ~Undeclared(view)
    BY <2>4, <2>5 DEF Undeclared
  <2>8. Beyond(view)
    BY <2>1, <2>2, <2>6, <2>7 DEF ViewTorn
  <2>9. QED
    BY <2>1, <2>8 DEF Beyond, Last1
<1>5. CASE ReadHead \/ ReadFails
  <2>1. stage' = "idle"
    BY <1>5 DEF ReadHead, ReadFails, ReaderGoes, AfterHead, Verdicts
  <2>2. QED
    BY <2>1 DEF ViewTorn, ViewBeyond
<1>6. QED
  BY <1>2, <1>3, <1>4, <1>5 DEF Next, Others

LEMMA ReaderStep ==
  ASSUME StateOK, AnchorBehind, LossStays, ReaderKnows, [Next]_vars
  PROVE  ReaderKnows'
<1>1. ViewOlder /\ ViewTorn /\ ViewBeyond /\ (stage = "declared" => view # << >>)
  BY DEF ReaderKnows, ViewOlder, ViewTorn, ViewBeyond
<1>2. ViewOlder' /\ ViewTorn' /\ ViewBeyond' /\ (stage' = "declared" => view' # << >>)
  BY <1>1, ViewOlderStep, ViewStep
<1>3. QED
  BY <1>2 DEF ReaderKnows, ViewOlder, ViewTorn, ViewBeyond

LEMMA CaughtStep ==
  ASSUME StateOK, ReaderKnows, LossCaughtByReader, [Next]_vars
  PROVE  LossCaughtByReader'
<1>1. CASE Others
  BY <1>1, OthersLeaveReader DEF LossCaughtByReader
<1>2. CASE Fetch
  <2>1. stage' = "idle" => verdict' = "tampered"
    BY <1>2 DEF Fetch, ReaderGoes, AfterFetch, Verdicts
  <2>2. QED
    BY <2>1 DEF LossCaughtByReader
<1>3. CASE ReadDeclared
  <2>1. stage' = "idle" => verdict' = "tampered"
    BY <1>3 DEF ReadDeclared, ReaderGoes, AfterDeclared, Verdicts
  <2>2. QED
    BY <2>1 DEF LossCaughtByReader
<1>4. CASE ReadFails
  <2>1. verdict' = "unverified"
    BY <1>4 DEF ReadFails, ReaderGoes, Verdicts
  <2>2. QED
    BY <2>1 DEF LossCaughtByReader
<1>5. CASE ReadHead
  <2>1. viewShort' = viewShort /\ stage = "head" /\ verdict' = AfterHead(view, anchor)
    BY <1>5 DEF ReadHead, ReaderGoes, AfterHead, Verdicts
  <2>2. viewShort => ~HeadValid(view, anchor)
    <3>1. view \in Seq(Rows)
      BY DEF StateOK, TypeOK
    <3>2. QED
      BY <2>1, <3>1, BeyondTampered DEF ReaderKnows
  <2>3. QED
    BY <2>1, <2>2 DEF LossCaughtByReader, AfterHead
<1>6. QED
  BY <1>1, <1>2, <1>3, <1>4, <1>5 DEF Next, Others

(***************************************************************************)
(* The exports.                                                            *)
(***************************************************************************)
LEMMA ExportStep ==
  ASSUME StateOK, AnchorBehind, LossStays, ExportKnows, [Next]_vars
  PROVE  ExportKnows'
<1>1. rows \in Seq(Rows) /\ export \in Exports \cup {NoExport}
  BY DEF StateOK, TypeOK
<1>2. SUFFICES ASSUME export' # NoExport, export'.short, export'.bound = NoBound, export'.rows # << >>, export'.rows[1].seq = 0
               PROVE  Hole(export'.rows) \/ Beyond(export.rows)'
  BY DEF ExportKnows, Hole
<1>3. CASE \E bound \in NoBound .. MaxRows - 1 : ExportRows(bound)
  <2>1. PICK bound \in Int : ExportRows(bound)
    BY <1>3
  <2>2. PICK s : s = UpTo(rows, bound)
    OBVIOUS
  <2>3. export' = [bound |-> bound, rows |-> s, short |-> short /\ excuses = {}]
    BY <2>1, <2>2 DEF ExportRows
  <2>4. export'.bound = bound /\ export'.rows = s /\ export'.short = (short /\ excuses = {})
    BY <2>3
  <2>5. s = rows /\ short /\ excuses = {}
    BY <1>2, <2>2, <2>4 DEF UpTo
  <2>6. Hole(rows) \/ Beyond(rows)
    BY <1>2, <2>4, <2>5, TornSeen DEF Undeclared
  <2>7. UNCHANGED <<anchor, cache, due>>
    BY <2>1 DEF ExportRows, dbVars, recorderVars
  <2>8. QED
    BY <2>4, <2>5, <2>6, <2>7 DEF Beyond, Last1
<1>4. CASE ExportAnchor
  BY <1>2, <1>4 DEF ExportAnchor
<1>5. CASE export # NoExport /\ export'.rows = export.rows /\ export'.bound = export.bound
           /\ (export'.short => export.short /\ (LoadWithoutAnchor => GoesAsFarAs(export.rows)))
  <2>1. PICK s \in Seq(Rows) : s = export.rows
    BY <1>1, <1>5 DEF Exports
  <2>2. Hole(s) \/ Beyond(s)
    BY <1>2, <1>5, <2>1 DEF ExportKnows
  <2>3. Beyond(s) => Beyond(s)'
    BY <1>2, <1>5, <2>1, BeyondStays
  <2>4. export'.rows = s
    BY <1>5, <2>1
  <2>5. Beyond(s)' => Beyond(export.rows)'
    BY <2>4 DEF Beyond, Last1
  <2>6. QED
    BY <2>2, <2>3, <2>4, <2>5
<1>6. CASE LoadWithoutAnchor
  <2>1. export # NoExport
    BY <1>2, <1>6 DEF LoadWithoutAnchor
  <2>2. export' = [export EXCEPT !.short = @ /\ GoesAsFarAs(export.rows)]
    BY <1>6, <2>1 DEF LoadWithoutAnchor
  <2>3. export \in Exports
    BY <1>1, <2>1
  <2>4. export'.rows = export.rows /\ export'.bound = export.bound /\ export'.short = (export.short /\ GoesAsFarAs(export.rows))
    BY <2>2, <2>3 DEF Exports
  <2>5. QED
    BY <1>5, <2>1, <2>4
<1>7. CASE export' = export /\ ~LoadWithoutAnchor
  BY <1>2, <1>5, <1>7
<1>8. export' = export \/ LoadWithoutAnchor \/ ExportAnchor \/ \E bound \in NoBound .. MaxRows - 1 : ExportRows(bound)
  BY DEF Next, vars, exportVars, Load, Insert, WriteAnchor, AnchorFails, Restart, Lose,
     Truncate, Fetch, ReadDeclared, ReadHead, ReadFails, ReaderGoes
<1>9. QED
  BY <1>3, <1>4, <1>6, <1>7, <1>8

LEMMA ArchiveStep ==
  ASSUME StateOK, ExportKnows, ArchiveShowsLoss, [Next]_vars
  PROVE  ArchiveShowsLoss'
<1>1. CASE archives' = archives
  BY <1>1 DEF ArchiveShowsLoss
<1>2. CASE ExportAnchor
  <2>1. export # NoExport /\ export \in Exports
    BY <1>2 DEF ExportAnchor, StateOK, TypeOK
  <2>2. PICK s \in Seq(Rows) : s = export.rows
    BY <2>1 DEF Exports
  <2>3. PICK a : a = [bound |-> export.bound, rows |-> s, anchor |-> anchor, short |-> export.short]
    OBVIOUS
  <2>4. a.bound = export.bound /\ a.rows = s /\ a.anchor = anchor /\ a.short = export.short
    BY <2>3
  <2>5. archives' = archives \cup {a}
    BY <1>2, <2>2, <2>3 DEF ExportAnchor
  <2>6. ASSUME a.short, a.bound = NoBound, s # << >>, s[1].seq = 0
        PROVE  ~VerifyExport(a)
    <3>1. CASE Hole(s)
      <4>1. s[1].seq \in Nat /\ ~Linked(s)
        BY <2>6, <3>1, RowsOf DEF Hole, Linked
      <4>2. ~VerifySegment(s)
        BY <2>6, <4>1, ChainLinks DEF VerifySegment
      <4>3. QED
        BY <2>4, <4>2 DEF VerifyExport
    <3>2. CASE Beyond(s)
      <4>1. Last1(s).seq \in Nat /\ anchor.seq \in Nat /\ anchor # NoHead /\ Last1(s).seq < anchor.seq
        BY <2>6, <3>2, RowsOf, HeadTyped, SMTT(30) DEF Beyond, Last1, StateOK, TypeOK
      <4>2. ReportsMissing(a)
        BY <2>4, <2>6, <4>1 DEF ReportsMissing
      <4>3. QED
        BY <4>2 DEF VerifyExport
    <3>3. QED
      BY <2>1, <2>2, <2>4, <2>6, <3>1, <3>2 DEF ExportKnows
  <2>7. QED
    BY <2>4, <2>5, <2>6 DEF ArchiveShowsLoss
<1>3. QED
  BY <1>1, <1>2 DEF Next, vars, exportVars, Load, LoadWithoutAnchor, Insert, WriteAnchor, AnchorFails, Restart, Lose,
     ExportRows, Truncate, Fetch, ReadDeclared, ReadHead, ReadFails, ReaderGoes

(***************************************************************************)
(* The theorems.                                                           *)
(***************************************************************************)
LEMMA InvStart ==
  ASSUME Init
  PROVE  Inv
<1>1. StateOK
  BY StateStart
<1>2. /\ rows = << >> /\ anchor = NoHead /\ truncs = {} /\ cache = NoHead /\ due = NoHead /\ export = NoExport
      /\ archives = {} /\ view = << >> /\ stage = "idle" /\ verdict = "none" /\ viewShort = FALSE /\ short = FALSE
      /\ removed = {}
  BY DEF Init
<1>3. Whole
  BY <1>2 DEF Whole
<1>4. TruncsEnd /\ AnchorBehind /\ LossStays /\ ReaderKnows /\ ExportKnows
  BY <1>2 DEF TruncsEnd, AnchorBehind, LossStays, ReaderKnows, ExportKnows
<1>5. RemovedRowsArchived /\ LossCaughtByReader /\ ArchiveShowsLoss
  BY <1>2 DEF RemovedRowsArchived, LossCaughtByReader, ArchiveShowsLoss
<1>6. QED
  BY <1>1, <1>3, <1>4, <1>5 DEF Inv

LEMMA InvStep ==
  ASSUME Inv, [Next]_vars
  PROVE  Inv'
<1>1. /\ StateOK /\ TruncsEnd /\ Whole /\ AnchorBehind /\ LossStays /\ ReaderKnows /\ ExportKnows
      /\ RemovedRowsArchived /\ LossCaughtByReader /\ ArchiveShowsLoss
  BY DEF Inv
<1>2. StateOK' /\ TruncsEnd' /\ Whole' /\ AnchorBehind' /\ LossStays'
  BY <1>1, StateStep, TruncsEndStep, WholeStep, AnchorBehindStep, LossStaysStep
<1>3. ReaderKnows' /\ ExportKnows' /\ RemovedRowsArchived' /\ LossCaughtByReader' /\ ArchiveShowsLoss'
  BY <1>1, ReaderStep, ExportStep, RemovedStep, CaughtStep, ArchiveStep
<1>4. QED
  BY <1>2, <1>3 DEF Inv

LEMMA InvAlways == Spec => []Inv
<1>1. Init => Inv
  BY InvStart
<1>2. Inv /\ [Next]_vars => Inv'
  BY InvStep
<1>3. QED
  BY <1>1, <1>2, PTL DEF Spec

(* Removing rows loses nothing: every row that a truncation ever removed   *)
(* (chainops.TruncateChain) is in the archive its record names, which      *)
(* verifies, whatever was exported, lost, appended or restarted before.    *)
THEOREM RemovedAlwaysArchived == Spec => []RemovedRowsArchived
<1>1. Inv => RemovedRowsArchived
  BY DEF Inv
<1>2. QED
  BY <1>1, InvAlways, PTL

(* Housekeeping never reads as tampering: as long as no row was lost,      *)
(* recorder.VerifyEpisode finds the episode valid after any number of      *)
(* exports and truncations, with restarts and anchors that failed.         *)
THEOREM NeverFalseAlarm == Spec => []NoFalseAlarm
<1>1. Inv => NoFalseAlarm
  BY WholeVerifies DEF Inv
<1>2. QED
  BY <1>1, InvAlways, PTL

(* Rows that the anchor covers and that are gone are noticed by            *)
(* VerifyEpisode, by a reader under way and by an archive of the whole     *)
(* chain, whatever is appended, anchored or truncated meanwhile, but for   *)
(* the excuses the property names.                                         *)
THEOREM LossAlwaysDetected == Spec => []LossDetected
<1>1. Inv => LossDetected
  BY LossShown DEF Inv, LossDetected
<1>2. QED
  BY <1>1, InvAlways, PTL
=============================================================================
