----------------------------- MODULE MCRecovery -----------------------------
(***************************************************************************)
(* Instances of Recovery: of two engines, r1, the mirror rows and the row  *)
(* of system.local are on the second and r2 on the first.  A run that has  *)
(* met two independent kinds of damage (of the seed, of the marker, of the *)
(* removal nobody awaits, of a statement and memtables) is not continued:  *)
(* every property but TypeOK is then without content, or depends on one of *)
(* them only.                                                              *)
(***************************************************************************)
EXTENDS Recovery, FiniteSets

MCHash == [r \in UserRows \cup {"local", "tables", "columns"} |-> IF r = "r2" THEN 2 ELSE 1]
MCDamage == Cardinality(hurt) <= 1 \/ hurt = {"statement", "memtable"}
=============================================================================
