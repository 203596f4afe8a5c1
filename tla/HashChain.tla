------------------------------ MODULE HashChain ------------------------------
(***************************************************************************)
(* The hash chain of one episode as the packages that write, verify and    *)
(* shorten it see it (internal/recorder, internal/chainops).               *)
(*                                                                         *)
(* A row has a number, the hash of the row before it and an item; its own  *)
(* hash is computed from these.  A hash is represented by what it is       *)
(* computed from: the sequence of <<seq, item>> pairs from the start of    *)
(* the chain.  Two hashes are equal exactly when their preimages are,      *)
(* which is what a collision-free hash gives; the empty sequence is the    *)
(* genesis hash "".                                                        *)
(***************************************************************************)
EXTENDS Integers, Sequences

NoHead  == [none |-> "head"]
Genesis == <<>>

HashOf(row) == Append(row.prev, <<row.seq, row.item>>)

(* Variant of TailOf that continues with the number of the last row.       *)
LastNumberOf(s) == IF s = <<>> THEN [seq |-> -1, hash |-> Genesis]
                   ELSE [seq |-> s[Len(s)].seq, hash |-> HashOf(s[Len(s)])]

(* The newest row of an episode as the head a writer continues from.       *)
TailOf(s) == IF s = <<>> THEN [seq |-> 0, hash |-> Genesis]
             ELSE [seq |-> s[Len(s)].seq + 1, hash |-> HashOf(s[Len(s)])]

(* Variant of PastAnchor that reuses the numbers of removed rows.          *)
AtTail(h, a) == h

(* An anchor beyond the rows is continued past; the prev hash stays that   *)
(* of the last row that was read.                                          *)
PastAnchor(h, a) == IF a # NoHead /\ a.seq + 1 > h.seq
                    THEN [h EXCEPT !.seq = a.seq + 1] ELSE h

Seqs(s) == {s[i].seq : i \in DOMAIN s}

(* The links of a whole chain that starts at number `start' after `prev'.  *)
VerifyChain(s, start, prev) ==
  \A i \in 1 .. Len(s) :
     /\ s[i].seq = start + i - 1
     /\ s[i].prev = IF i = 1 THEN prev ELSE HashOf(s[i - 1])

(* Variant of HeadValid that compares the hashes only.                     *)
HashValid(s, a) ==
  a = NoHead \/ (s # <<>> /\ (s[Len(s)].seq = a.seq => HashOf(s[Len(s)]) = a.hash))

(* HeadVerdict on a readable anchor: does it not contradict the rows?      *)
HeadValid(s, a) ==
  \/ a = NoHead
  \/ /\ s # <<>>
     /\ LET last == s[Len(s)]
        IN \/ last.seq > a.seq
           \/ last.seq = a.seq /\ HashOf(last) = a.hash
=============================================================================
