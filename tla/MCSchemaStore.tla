--------------------------- MODULE MCSchemaStore ----------------------------
(***************************************************************************)
(* Two tasks that run DDL, one of them also USE and INSERT, on two tables  *)
(* with two columns.                                                       *)
(***************************************************************************)
EXTENDS SchemaStore, TLC

\* Neither the tables nor the columns are told apart
Symmetry == Permutations(Tables) \cup Permutations(Cols)

\* Bound of the model: a behaviour ends once two statements have changed the
\* schema at once.  Of what follows only the types are promised
NoClash == ~clash
=============================================================================
