---------------------------- MODULE MCStatement ----------------------------
(* A small instance of Statement *)
EXTENDS Statement

Col(n, t) == [name |-> n, type |-> t, isKey |-> FALSE]
Key(n, t) == [name |-> n, type |-> t, isKey |-> TRUE]

\* Three regular tables, of which the second has the columns of the first in
\* another order and the third another key and another type; and one whose
\* names differ in case only
MCDefs ==
  {[columns |-> <<Key("k", <<"int">>), Col("v", <<"text">>), Col("w", <<"list", "text">>)>>,
    key |-> <<"k">>],
   [columns |-> <<Col("w", <<"list", "text">>), Col("v", <<"text">>), Key("k", <<"int">>)>>,
    key |-> <<"k">>],
   [columns |-> <<Key("k", <<"int">>), Key("c", <<"text">>), Col("v", <<"tiny">>)>>,
    key |-> <<"k", "c">>],
   [columns |-> <<Key("k", <<"int">>), Col("V", <<"text">>), Col("v", <<"text">>)>>,
    key |-> <<"k">>]}

MCLower == [n \in {"k", "c", "v", "w", "V"} |-> IF n = "V" THEN "v" ELSE n]

\* The literals 1 and 'a'
MCParse ==
  [one |-> [int |-> <<"int", 1>>, tiny |-> <<"tiny", 1>>, text |-> <<"text", <<49>> >>],
   a |-> [int |-> Bad, tiny |-> Bad, text |-> <<"text", <<97>> >>]]

MCBindValues ==
  (<<"int">> :> {<<"int", 1>>, <<"int", 2>>, Null})
  @@ (<<"tiny">> :> {<<"tiny", 1>>, Null})
  @@ (<<"text">> :> {<<"text", <<0, 1>> >>, Null})
  @@ (<<"list", "text">> :> {<<"list", <<>> >>, <<"list", << <<"text", <<97>> >>, <<"text", <<>> >> >> >>})

P == Param
One == <<"const", "one">>
A == <<"const", "a">>
Id(n) == [quoted |-> FALSE, name |-> n]
Slot(n, r, v) == [id |-> Id(n), role |-> r, val |-> v]
Set(n, v) == Slot(n, "set", v)
Eq(n, v) == Slot(n, "eq", v)
Stmt(kind, slots, cols) == [kind |-> kind, slots |-> slots, cols |-> cols]
As(n, m) == [id |-> Id(n), as |-> Id(m)]

HasMarker(s) == Markers(s, Len(s.slots)) > 0

MCStatements ==
  {Stmt("insert", <<Set("k", P), Set("v", P), Set("w", P)>>, <<>>),
   Stmt("insert", <<Set("V", A), Set("k", One)>>, <<>>),
   Stmt("insert", <<Set("k", One), Set("v", P)>>, <<>>),
   Stmt("insert", <<Set("w", <<"list", <<"a", "one">> >>), Set("k", One)>>, <<>>),
   Stmt("insert", <<Set("c", P), Set("k", P), Set("v", One)>>, <<>>),
   Stmt("insert", <<Set("c", A), Set("k", One), Set("v", One)>>, <<>>),
   Stmt("update", <<Set("v", P), Eq("k", P)>>, <<>>),
   Stmt("update", <<Set("w", P), Set("v", P), Eq("k", P)>>, <<>>),
   Stmt("update", <<Set("v", A), Set("v", <<"null">>), Eq("k", One)>>, <<>>),
   Stmt("update", <<Set("k", One), Set("v", A), Eq("k", One)>>, <<>>),
   Stmt("update", <<Set("v", P), Eq("k", P), Eq("c", P)>>, <<>>),
   [Stmt("update", <<Set("v", A), Eq("k", One)>>, <<>>) EXCEPT !.slots[1].id = [quoted |-> TRUE, name |-> "V"]],
   Stmt("delete", <<Eq("k", P)>>, <<>>),
   Stmt("delete", <<Eq("k", One), Eq("v", A)>>, <<>>),
   Stmt("delete", <<Slot("k", "in", One)>>, <<>>),
   Stmt("select", <<Eq("k", One)>>, <<>>),
   Stmt("select", <<Eq("k", One), Eq("v", A)>>, <<As("w", "w"), As("k", "k")>>),
   Stmt("select", <<Eq("k", One), Slot("v", "in", One)>>, <<As("v", "v")>>),
   Stmt("select", <<Eq("c", A), Eq("k", One)>>, <<As("v", "v"), As("c", "c")>>),
   Stmt("select", <<Eq("k", One)>>, <<As("v", "w")>>)}

\* A QUERY without the bind values its statement needs is refused
MCQueries == {s \in MCStatements : HasMarker(s) => s.kind = "delete"}
MCPrepares == {s \in MCStatements : HasMarker(s)}
=============================================================================
