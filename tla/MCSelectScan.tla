---------------------------- MODULE MCSelectScan ----------------------------
(***************************************************************************)
(* Instances of SelectScan: a table with key ((a, b), c, d) and a column   *)
(* v, partitions with the same a on the same engine.  Column b is a text,  *)
(* the second clustering column d too; the others are numbers.  The WHERE  *)
(* clauses have at most one restriction per column, or two restrictions of *)
(* column a, or an IN list that repeats a value.                           *)
(***************************************************************************)
EXTENDS SelectScan

MCPartitionKeys == <<"a", "b">>
MCClusteringKeys == <<"c", "d">>
N(n) == <<"int", n>>
T(s) == <<"text", s>>
MCValues == {N(1), N(2), N(-1), T(<<2>>), T(<<3>>), T(<<1, 1>>)}
MCRow(a, b, c, d) ==
  [a |-> N(a), b |-> T(b), c |-> N(c), d |-> T(d), v |-> N(1 + ((Len(b) + c) % 2))]
MCAll == {MCRow(1, <<2>>, 1, <<2>>), MCRow(1, <<2>>, 2, <<2>>), MCRow(1, <<2>>, -1, <<2>>),
          MCRow(1, <<1, 1>>, 1, <<2>>), MCRow(1, <<1, 1>>, 1, <<1, 1>>),
          MCRow(2, <<2>>, 1, <<2>>), MCRow(2, <<2>>, 1, <<3>>)}
MCTables == SUBSET MCAll
MCEngine == [p \in {RawBytes(v) : v \in MCValues} |-> IF p = <<1>> THEN 1 ELSE 0]
Eq(c, x) == [col |-> c, op |-> "eq", vals |-> <<x>>]
In(c, s) == [col |-> c, op |-> "in", vals |-> s]
\* No restriction of the column, Eq or In
MCOne(c, x, y) == {<<>>, <<Eq(c, x)>>, <<In(c, <<y, x>>)>>}
MCA == MCOne("a", N(1), N(2))
MCB == MCOne("b", T(<<2>>), T(<<1, 1>>))
MCC == MCOne("c", N(1), N(-1))
MCD == {<<>>, <<Eq("d", T(<<2>>))>>}
MCV == {<<>>, <<Eq("v", N(1))>>}
MCTwo == {<<Eq("a", N(1)), Eq("a", N(2))>>, <<In("a", <<N(2), N(1)>>), Eq("a", N(1))>>,
          <<In("a", <<N(1), N(1)>>)>>}
MCWheres ==
  {p \o q \o r \o s \o t : p \in MCA, q \in MCB, r \in MCC, s \in MCD, t \in MCV}
    \cup {p \o q \o r \o s : p \in MCTwo, q \in MCB, r \in MCC, s \in MCD}
MCFullTable == {MCAll}
=============================================================================
