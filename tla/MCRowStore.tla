----------------------------- MODULE MCRowStore -----------------------------
(***************************************************************************)
(* Instances of RowStore: keys 1, 2, ... alternate between the engines.    *)
(***************************************************************************)
EXTENDS RowStore, TLC

CONSTANT N   \* number of engines

MCEngines == 0 .. N - 1
MCEngineOf == [k \in Keys |-> k % N]

Symmetry == Permutations(Tasks) \cup Permutations(Columns)

\* Past an overlap the properties say nothing of a server with a row cache
Telling == ~(caching /\ overlap)
=============================================================================
