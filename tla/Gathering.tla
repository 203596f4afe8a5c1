----------------------------- MODULE Gathering -----------------------------
(* Positions and totals: what the loops of the code gather.                *)
EXTENDS Naturals, FiniteSets

(* The elements of a sequence at a set of positions, in their order: what  *)
(* a filtering loop appends to its result.                                 *)
Nth(at, k) == CHOOSE i \in at : Cardinality({j \in at : j <= i}) = k
Picked(s, at) == [k \in 1 .. Cardinality(at) |-> s[Nth(at, k)]]

(* The sum of the values of f: as many pairs <<x, k>> as f counts in all.  *)
Units(f) == UNION {{x} \X (1 .. f[x]) : x \in DOMAIN f}
Total(f) == Cardinality(Units(f))
=============================================================================
