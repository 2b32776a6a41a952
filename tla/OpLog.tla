------------------------------- MODULE OpLog -------------------------------
(***************************************************************************)
(* What a write pipeline promises its callers, without queues, batches or  *)
(* threads.  Each engine is a log of accepted operations.  A block of the  *)
(* oldest operations not yet written is written at once, or lost at once,  *)
(* and a ticket completes only after its operation's block was handled.    *)
(* So the engine always shows exactly a prefix of its log.                 *)
(***************************************************************************)
EXTENDS Naturals, Sequences

CONSTANTS Engines, Keys, Vals, Absent, MaxOps, MayFail

VARIABLES log, applied, lost, store, completed

vars == <<log, applied, lost, store, completed>>

\* What the operations of s at the places I leave at key k
Shown(s, I, k) ==
  LET W == {i \in I : k \in s[i].keys}
  IN  IF W = {} THEN Absent ELSE s[CHOOSE i \in W : \A j \in W : j <= i].val

Accept(e, keys, val) ==
  /\ Len(log[e]) < MaxOps
  /\ log' = [log EXCEPT ![e] =
               Append(@, [n |-> Len(@) + 1, keys |-> keys, val |-> val])]
  /\ UNCHANGED <<applied, lost, store, completed>>

\* The operations up to m take effect
Apply(e) ==
  \E m \in applied[e] + 1 .. Len(log[e]) :
    /\ applied' = [applied EXCEPT ![e] = m]
    /\ store' = [store EXCEPT ![e] =
                   [k \in Keys |-> Shown(log[e], (1 .. m) \ lost[e], k)]]
    /\ UNCHANGED <<log, lost, completed>>

\* Those up to m are lost
Lose(e) ==
  \E m \in applied[e] + 1 .. Len(log[e]) :
    /\ MayFail
    /\ applied' = [applied EXCEPT ![e] = m]
    /\ lost' = [lost EXCEPT ![e] = @ \cup (applied[e] + 1 .. m)]
    /\ UNCHANGED <<log, store, completed>>

Complete(e) ==
  \E n \in (1 .. applied[e]) \ completed[e] :
    /\ completed' = [completed EXCEPT ![e] = @ \cup {n}]
    /\ UNCHANGED <<log, applied, lost, store>>

Init ==
  /\ log = [e \in Engines |-> <<>>]
  /\ applied = [e \in Engines |-> 0]
  /\ lost = [e \in Engines |-> {}]
  /\ store = [e \in Engines |-> [k \in Keys |-> Absent]]
  /\ completed = [e \in Engines |-> {}]

Next ==
  \E e \in Engines :
    \/ \E keys \in SUBSET Keys, val \in Vals \cup {Absent} : Accept(e, keys, val)
    \/ Apply(e)
    \/ Lose(e)
    \/ Complete(e)

Spec == Init /\ [][Next]_vars
=============================================================================
