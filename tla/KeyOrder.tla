------------------------------ MODULE KeyOrder ------------------------------
(***************************************************************************)
(* The order in which RocksDB keeps the row keys that encode_key makes.    *)
(***************************************************************************)
EXTENDS Integers, Sequences

\* Sequences of one length: the first number that differs decides
Less(k, l) ==
  \E i \in DOMAIN k : k[i] < l[i] /\ \A j \in 1 .. i - 1 : k[j] = l[j]

\* The length of a part is in front of its bytes: shorter parts come first
PartLess(p, q) == Len(p) < Len(q) \/ (Len(p) = Len(q) /\ Less(p, q))

\* Keys of one table, with as many parts: the first part that differs decides
KeyLess(k, l) ==
  \E i \in DOMAIN k : PartLess(k[i], l[i]) /\ \A j \in 1 .. i - 1 : k[j] = l[j]
=============================================================================
