--------------------------- MODULE RowStoreProofs ---------------------------
(***************************************************************************)
(* Proofs about RowStore, for any engines, keys, columns and tasks, with   *)
(* and without a row cache.                                                *)
(***************************************************************************)
EXTENDS RowStore, TLAPS

-----------------------------------------------------------------------------
\* The operations of the first m places of s leave v at k
Leaves(s, m, k, v) ==
  \/ v = Absent /\ \A i \in 1 .. m : k \notin s[i].keys
  \/ \E i \in 1 .. m : /\ k \in s[i].keys /\ v = s[i].val
                       /\ \A j \in 1 .. m : k \in s[j].keys => j <= i

\* Every prefix of s shows what its operations leave
Lasting(s) == \A m \in 0 .. Len(s), k \in Keys : Leaves(s, m, k, Log!Shown(s, 1 .. m, k))

\* Shown is known by what the operations leave
LEMMA ShownIs ==
  ASSUME NEW s, NEW m \in Nat, NEW k, NEW v, Leaves(s, m, k, v)
  PROVE  Log!Shown(s, 1 .. m, k) = v
<1>. DEFINE W == {i \in 1 .. m : k \in s[i].keys}
            last == CHOOSE i \in W : \A j \in W : j <= i
<1>1. Log!Shown(s, 1 .. m, k) = IF W = {} THEN Absent ELSE s[last].val
  BY Zenon DEF Log!Shown
<1>2. CASE W = {}
  BY <1>1, <1>2 DEF Leaves
<1>3. CASE W # {}
  <2>1. PICK i \in W : v = s[i].val /\ \A j \in W : j <= i
    BY <1>3 DEF Leaves
  <2>2. last \in W /\ \A j \in W : j <= last
    <3>. HIDE DEF W
    <3>. QED  BY Zenon, <2>1
  <2>3. W \subseteq Int
    OBVIOUS
  <2>4. last = i
    <3>. HIDE DEF W, last
    <3>. QED  BY <2>1, <2>2, <2>3
  <2>. HIDE DEF W, last
  <2>. QED  BY Zenon, <1>1, <1>3, <2>1, <2>4
<1>. QED  BY <1>2, <1>3

\* An operation more in the log changes nothing of what earlier ones left ...
LEMMA ShownBefore ==
  ASSUME NEW s \in Seq(Ops), Lasting(s), NEW o \in Ops, NEW m \in 0 .. Len(s), NEW k \in Keys
  PROVE  Log!Shown(Append(s, o), 1 .. m, k) = Log!Shown(s, 1 .. m, k)
<1>. DEFINE p == Append(s, o)
            v == Log!Shown(s, 1 .. m, k)
<1>1. m \in Nat /\ \A i \in 1 .. m : p[i] = s[i]
  OBVIOUS
<1>2. Leaves(s, m, k, v)
  BY Zenon DEF Lasting
<1>. HIDE DEF p, v
<1>3. Leaves(p, m, k, v)
  BY Zenon, <1>1, <1>2 DEF Leaves
<1>. QED  BY Zenon, <1>1, <1>3, ShownIs DEF p, v

\* ... and decides about its own keys
LEMMA ShownAfter ==
  ASSUME NEW s \in Seq(Ops), Lasting(s), NEW o \in Ops, NEW k \in Keys
  PROVE  LET v == IF k \in o.keys THEN o.val ELSE Log!Shown(s, 1 .. Len(s), k) IN
         /\ Leaves(Append(s, o), Len(s) + 1, k, v)
         /\ Log!Shown(Append(s, o), 1 .. Len(s) + 1, k) = v
<1>. DEFINE p == Append(s, o)
            m == Len(s)
            v == Log!Shown(s, 1 .. m, k)
<1>1. m \in Nat /\ m \in 0 .. m /\ m + 1 \in Nat /\ p[m + 1] = o /\ \A i \in 1 .. m : p[i] = s[i]
  OBVIOUS
<1>2. Leaves(s, m, k, v)
  BY Zenon, <1>1 DEF Lasting
<1>. HIDE DEF p, v, m
<1>3. CASE k \in o.keys
  <2>1. Leaves(p, m + 1, k, o.val)
    BY <1>1, <1>3 DEF Leaves
  <2>. QED  BY Zenon, <1>1, <1>3, <2>1, ShownIs DEF p, m
<1>4. CASE k \notin o.keys
  <2>1. Leaves(p, m + 1, k, v)
    <3>1. \A i \in 1 .. m + 1 : k \in p[i].keys => i \in 1 .. m /\ k \in s[i].keys
      BY <1>1, <1>4
    <3>2. \A i \in 1 .. m : i \in 1 .. m + 1
      BY <1>1
    <3>. QED  BY Zenon, <1>1, <1>2, <3>1, <3>2 DEF Leaves
  <2>. QED  BY Zenon, <1>1, <1>4, <2>1, ShownIs DEF p, m, v
<1>. QED  BY Zenon, <1>3, <1>4

\* A log that grows stays one whose prefixes show what their operations leave
LEMMA LastingAppend ==
  ASSUME NEW s \in Seq(Ops), Lasting(s), NEW o \in Ops
  PROVE  Lasting(Append(s, o))
<1>. DEFINE p == Append(s, o)
<1>. SUFFICES ASSUME NEW m \in 0 .. Len(p), NEW k \in Keys
              PROVE  Leaves(p, m, k, Log!Shown(p, 1 .. m, k))
  BY Zenon DEF Lasting
<1>1. Len(p) = Len(s) + 1 /\ Len(s) \in Nat /\ \A i \in 1 .. Len(s) : p[i] = s[i]
  OBVIOUS
<1>2. CASE m = Len(s) + 1
  <2>. HIDE DEF p
  <2>. QED  BY Zenon, <1>2, ShownAfter DEF p
<1>3. CASE m # Len(s) + 1
  <2>1. m \in 0 .. Len(s) /\ \A i \in 1 .. m : p[i] = s[i]
    BY <1>1, <1>3
  <2>2. Leaves(s, m, k, Log!Shown(s, 1 .. m, k)) /\ Log!Shown(p, 1 .. m, k) = Log!Shown(s, 1 .. m, k)
    BY Zenon, <2>1, ShownBefore DEF Lasting
  <2>. HIDE DEF p
  <2>. QED  BY Zenon, <2>1, <2>2 DEF Leaves
<1>. QED  BY Zenon, <1>2, <1>3

-----------------------------------------------------------------------------
\* The engines show a prefix of their logs; tickets complete within it
Stored ==
  /\ DOMAIN log = Engines
  /\ \A e \in Engines : log[e] \in Seq(Ops) /\ Lasting(log[e]) /\ Len(log[e]) <= MaxOps
  /\ applied \in [Engines -> Nat]
  /\ DOMAIN completed = Engines
  /\ \A e \in Engines : applied[e] <= Len(log[e]) /\ completed[e] \subseteq 1 .. applied[e]
  /\ db = [e \in Engines |-> [k \in Keys |-> Log!Shown(log[e], 1 .. applied[e], k)]]

\* What was acknowledged for a key is a completed operation on it
Acked ==
  /\ acked \in [Keys -> Nat]
  /\ \A k \in Keys : acked[k] # 0 =>
       acked[k] \in completed[EngineOf[k]] /\ k \in log[EngineOf[k]][acked[k]].keys

\* Fresh in the log l, without what is about to be sent
Known(l, k, f, v) ==
  \/ f = 0 /\ v = Absent
  \/ \E n \in 1 .. Len(l) : n >= f /\ k \in l[n].keys /\ l[n].val = v

\* What a task has behind it
Behind(t) ==
  /\ Rec(task[t])
  /\ task[t].pc \in Owing =>
       \A w \in task[t].tickets : w \in Engines \X Nat /\ w[2] \in 1 .. Len(log[w[1]])
  /\ "floor" \in DOMAIN task[t] => \A k \in Keys : task[t].floor[k] <= acked[k]
  /\ task[t].pc = "fill" => caching
  /\ task[t].pc = "fill" /\ "floor" \in DOMAIN task[t] =>
       Known(log[EngineOf[task[t].key]], task[t].key, task[t].floor[task[t].key], task[t].read)
  /\ task[t].pc \in Answering /\ ~(caching /\ overlap) =>
       \A k \in DOMAIN task[t].rows :
         Known(log[EngineOf[k]], k, task[t].floor[k], task[t].rows[k])

\* A task holds the ticket of every operation that is not applied yet
Awaited ==
  \A e \in Engines : \A n \in applied[e] + 1 .. Len(log[e]) :
    \E t \in Tasks : task[t].pc \in Owing /\ <<e, n>> \in task[t].tickets

\* The cache, and what else has a type
Cached ==
  /\ cache \in [Keys -> Cells]
  /\ caching \in BOOLEAN /\ overlap \in BOOLEAN
  /\ ~caching => \A k \in Keys : cache[k] = Absent
  /\ DOMAIN task = Tasks
  /\ issued \in 0 .. MaxRequests

\* All that holds whether or not requests overlap
Steady == Stored /\ Acked /\ Cached /\ Awaited /\ \A t \in Tasks : Behind(t)

-----------------------------------------------------------------------------
\* Requests overlap only if that is recorded
Solo == ~overlap => \A t, u \in Tasks : t # u => Idle \in {task[t], task[u]}

\* What the whole log leaves at k
Latest(k) == Log!Shown(log[EngineOf[k]], 1 .. Len(log[EngineOf[k]]), k)

\* row is the row old with new values in the columns C
Merges(row, C, old) ==
  row # Absent => \A c \in Columns \ C : row[c] = IF old = Absent THEN Null ELSE old[c]

\* The task t is between the cache and the log with the row k
Between(t, k) ==
  \/ task[t].pc = "send" /\ task[t].key = k
  \/ task[t].pc \in {"send_range", "cache_clear"}

\* A request that is alone works on the latest row
Works(t) ==
  /\ task[t].pc = "fill" => task[t].read = Latest(task[t].key)
  /\ task[t].pc = "send" => cache[task[t].key] = IF caching THEN task[t].val ELSE Absent
  /\ task[t].pc \in Writing => Merges(task[t].val, task[t].cols, Latest(task[t].key))
  /\ task[t].pc = "settle" /\ "key" \in DOMAIN task[t] => \A w \in task[t].tickets :
       Merges(log[w[1]][w[2]].val, task[t].cols,
              Log!Shown(log[w[1]], 1 .. w[2] - 1, task[t].key))

\* Without overlap the cache is behind the log only within a request
Serial ==
  /\ \A k \in Keys : cache[k] \in {Absent, Latest(k)} \/ \E t \in Tasks : Between(t, k)
  /\ \A t \in Tasks : Works(t)

Quiet == Solo /\ (~overlap => Serial)

-----------------------------------------------------------------------------
\* What no step undoes
Grows ==
  \A e \in Engines :
    /\ Len(log[e]) <= Len(log'[e])
    /\ \A i \in 1 .. Len(log[e]) : log'[e][i] = log[e][i]
    /\ applied[e] <= applied'[e]
    /\ completed[e] \subseteq completed'[e]

\* The types of an engine
LEMMA StoredTypes ==
  ASSUME Stored, NEW e \in Engines
  PROVE  /\ log[e] \in Seq(Ops) /\ Lasting(log[e]) /\ Len(log[e]) \in Nat /\ Len(log[e]) <= MaxOps
         /\ applied[e] \in Nat /\ applied[e] <= Len(log[e])
         /\ completed[e] \subseteq 1 .. applied[e]
         /\ \A k \in Keys : db[e][k] = Log!Shown(log[e], 1 .. applied[e], k)
<1>1. log[e] \in Seq(Ops) /\ Lasting(log[e]) /\ Len(log[e]) <= MaxOps /\ applied[e] <= Len(log[e])
      /\ completed[e] \subseteq 1 .. applied[e] /\ applied \in [Engines -> Nat]
  BY Zenon DEF Stored
<1>2. \A k \in Keys : db[e][k] = Log!Shown(log[e], 1 .. applied[e], k)
  BY DEF Stored
<1>. QED  BY <1>1, <1>2

\* A step that leaves the engines alone
LEMMA EnginesKept ==
  ASSUME Stored, UNCHANGED engines
  PROVE  Stored' /\ Grows
<1>1. log' = log /\ applied' = applied /\ db' = db /\ completed' = completed
  BY DEF engines
<1>2. Stored'
  BY Zenon, <1>1 DEF Stored
<1>3. \A e \in Engines : Len(log[e]) \in Nat /\ applied[e] \in Nat
  BY Zenon, StoredTypes
<1>. QED  BY <1>1, <1>2, <1>3 DEF Grows

\* The operation that follows the log s
Op(s, keys, val) == [n |-> Len(s) + 1, keys |-> keys, val |-> val]

\* An operation is accepted
LEMMA AcceptIs ==
  ASSUME Stored, NEW e \in Engines, NEW keys \in SUBSET Keys, NEW val \in Cells,
         Log!Accept(e, keys, val)
  PROVE  /\ Stored' /\ Grows /\ UNCHANGED <<applied, db, completed>>
         /\ \A f \in Engines : f # e => log'[f] = log[f]
         /\ log'[e] = Append(log[e], Op(log[e], keys, val)) /\ Op(log[e], keys, val) \in Ops
         /\ Len(log'[e]) = Len(log[e]) + 1
<1>. DEFINE o == Op(log[e], keys, val)
<1>1. /\ Len(log[e]) < MaxOps /\ log' = [log EXCEPT ![e] = Append(log[e], o)]
      /\ UNCHANGED <<applied, db, completed>>
  BY DEF Log!Accept, Op
<1>2. \A f \in Engines : /\ log[f] \in Seq(Ops) /\ Lasting(log[f]) /\ Len(log[f]) \in Nat /\ Len(log[f]) <= MaxOps
                         /\ applied[f] \in Nat /\ applied[f] <= Len(log[f])
                         /\ completed[f] \subseteq 1 .. applied[f]
  BY Zenon, StoredTypes
<1>3. o \in Ops /\ o.keys = keys /\ o.val = val
  BY <1>2 DEF Ops, Op
<1>. HIDE DEF o
<1>4. DOMAIN log' = Engines /\ log'[e] = Append(log[e], o) /\ \A f \in Engines : f # e => log'[f] = log[f]
  BY <1>1 DEF Stored
<1>5. /\ Append(log[e], o) \in Seq(Ops) /\ Len(Append(log[e], o)) = Len(log[e]) + 1
      /\ \A i \in 1 .. Len(log[e]) : Append(log[e], o)[i] = log[e][i]
  BY <1>2, <1>3
<1>6. Len(log[e]) + 1 <= MaxOps
  BY <1>1, <1>2, RowConstants
<1>7. \A f \in Engines : log'[f] \in Seq(Ops) /\ Lasting(log'[f]) /\ Len(log'[f]) <= MaxOps /\ applied[f] <= Len(log'[f])
  <2>. SUFFICES ASSUME NEW f \in Engines
                PROVE  log'[f] \in Seq(Ops) /\ Lasting(log'[f]) /\ Len(log'[f]) <= MaxOps /\ applied[f] <= Len(log'[f])
    OBVIOUS
  <2>1. CASE f = e
    <3>1. applied[e] <= Len(log[e]) + 1
      BY <1>2
    <3>2. Lasting(Append(log[e], o))
      BY Zenon, <1>2, <1>3, LastingAppend
    <3>. QED  BY Zenon, <1>4, <1>5, <1>6, <2>1, <3>1, <3>2
  <2>2. CASE f # e
    BY Zenon, <1>2, <1>4, <2>2
  <2>. QED  BY Zenon, <2>1, <2>2
<1>8. \A f \in Engines, k \in Keys :
        Log!Shown(log'[f], 1 .. applied[f], k) = Log!Shown(log[f], 1 .. applied[f], k)
  <2>. SUFFICES ASSUME NEW f \in Engines, NEW k \in Keys
                PROVE  Log!Shown(log'[f], 1 .. applied[f], k) = Log!Shown(log[f], 1 .. applied[f], k)
    BY Zenon
  <2>1. CASE f = e
    <3>1. applied[e] \in 0 .. Len(log[e]) /\ log[e] \in Seq(Ops)
      BY <1>2
    <3>2. Log!Shown(Append(log[e], o), 1 .. applied[e], k) = Log!Shown(log[e], 1 .. applied[e], k)
      BY Zenon, <1>2, <1>3, <3>1, ShownBefore
    <3>. QED  BY Zenon, <1>4, <2>1, <3>2
  <2>2. CASE f # e
    BY Zenon, <1>4, <2>2
  <2>. QED  BY Zenon, <2>1, <2>2
<1>9. db = [f \in Engines |-> [k \in Keys |-> Log!Shown(log'[f], 1 .. applied[f], k)]]
  <2>1. db = [f \in Engines |-> [k \in Keys |-> Log!Shown(log[f], 1 .. applied[f], k)]]
    BY DEF Stored
  <2>. QED  BY <1>8, <2>1
<1>10. Stored'
  <2>1. applied' = applied /\ db' = db /\ completed' = completed
    BY <1>1
  <2>. QED  BY Zenon, <1>4, <1>7, <1>9, <2>1 DEF Stored
<1>11. Grows
  <2>. SUFFICES ASSUME NEW f \in Engines
                PROVE  /\ Len(log[f]) <= Len(log'[f])
                       /\ \A i \in 1 .. Len(log[f]) : log'[f][i] = log[f][i]
                       /\ applied[f] <= applied'[f] /\ completed[f] \subseteq completed'[f]
    BY Zenon DEF Grows
  <2>1. CASE f = e
    BY <1>1, <1>2, <1>4, <1>5, <2>1
  <2>2. CASE f # e
    BY <1>1, <1>2, <1>4, <2>2
  <2>. QED  BY <2>1, <2>2
<1>. QED  BY <1>1, <1>3, <1>4, <1>5, <1>10, <1>11 DEF o

\* A pipeline applies a block of its log or completes a ticket
LEMMA PipelinesIs ==
  ASSUME Stored, NEW e \in Engines, Log!Apply(e) \/ Log!Complete(e)
  PROVE  Stored' /\ Grows /\ log' = log
<1>0. \A f \in Engines : /\ log[f] \in Seq(Ops) /\ Lasting(log[f]) /\ Len(log[f]) \in Nat /\ Len(log[f]) <= MaxOps
                         /\ applied[f] \in Nat /\ applied[f] <= Len(log[f])
                         /\ completed[f] \subseteq 1 .. applied[f]
  BY Zenon, StoredTypes
<1>1. CASE Log!Apply(e)
  <2>1. PICK m \in applied[e] + 1 .. Len(log[e]) :
          /\ applied' = [applied EXCEPT ![e] = m]
          /\ db' = [db EXCEPT ![e] = [k \in Keys |->
                      Log!Shown(log[e], (1 .. m) \ [f \in Engines |-> {}][e], k)]]
          /\ log' = log /\ completed' = completed
    BY <1>1 DEF Log!Apply
  <2>2. (1 .. m) \ [f \in Engines |-> {}][e] = 1 .. m
    OBVIOUS
  <2>3. db' = [db EXCEPT ![e] = [k \in Keys |-> Log!Shown(log[e], 1 .. m, k)]]
    BY Zenon, <2>1, <2>2
  <2>4. m \in Nat /\ applied[e] <= m /\ m <= Len(log[e])
    BY <1>0
  <2>5. /\ applied' \in [Engines -> Nat] /\ applied'[e] = m
        /\ \A f \in Engines : f # e => applied'[f] = applied[f]
    BY <2>1, <2>4 DEF Stored
  <2>6. db' = [f \in Engines |-> [k \in Keys |-> Log!Shown(log[f], 1 .. applied'[f], k)]]
    <3>1. db = [f \in Engines |-> [k \in Keys |-> Log!Shown(log[f], 1 .. applied[f], k)]]
      BY DEF Stored
    <3>2. \A f \in Engines : db'[f] = [k \in Keys |-> Log!Shown(log[f], 1 .. applied'[f], k)]
      BY <2>3, <2>5, <3>1
    <3>3. DOMAIN db' = Engines /\ db' = [f \in DOMAIN db' |-> db'[f]]
      BY <2>3, <3>1
    <3>. QED  BY Zenon, <3>2, <3>3
  <2>7. \A f \in Engines : applied'[f] <= Len(log[f]) /\ completed[f] \subseteq 1 .. applied'[f]
                           /\ applied[f] <= applied'[f]
    <3>. SUFFICES ASSUME NEW f \in Engines
                  PROVE  applied'[f] <= Len(log[f]) /\ completed[f] \subseteq 1 .. applied'[f]
                           /\ applied[f] <= applied'[f]
      OBVIOUS
    <3>1. applied[f] \in Nat /\ applied'[f] \in Nat /\ applied[f] <= applied'[f] /\ applied'[f] <= Len(log[f])
      BY <1>0, <2>4, <2>5
    <3>2. 1 .. applied[f] \subseteq 1 .. applied'[f]
      BY <3>1
    <3>. QED  BY <1>0, <3>1, <3>2
  <2>8. Stored'
    <3>1. DOMAIN log = Engines /\ DOMAIN completed = Engines
      BY DEF Stored
    <3>2. \A f \in Engines : log[f] \in Seq(Ops) /\ Lasting(log[f]) /\ Len(log[f]) <= MaxOps
      BY Zenon, <1>0
    <3>3. \A f \in Engines : applied'[f] <= Len(log[f]) /\ completed[f] \subseteq 1 .. applied'[f]
      BY Zenon, <2>7
    <3>4. log' = log /\ completed' = completed /\ applied' \in [Engines -> Nat]
      BY Zenon, <2>1, <2>5
    <3>. QED  BY Zenon, <2>6, <3>1, <3>2, <3>3, <3>4 DEF Stored
  <2>9. Grows
    BY <1>0, <2>1, <2>7 DEF Grows
  <2>. QED  BY <2>1, <2>8, <2>9
<1>2. CASE Log!Complete(e)
  <2>1. PICK n \in (1 .. applied[e]) \ completed[e] :
          /\ completed' = [completed EXCEPT ![e] = completed[e] \cup {n}]
          /\ log' = log /\ applied' = applied /\ db' = db
    BY <1>2 DEF Log!Complete
  <2>2. DOMAIN completed' = Engines /\ \A f \in Engines : /\ completed[f] \subseteq completed'[f]
                                                           /\ completed'[f] \subseteq 1 .. applied[f]
    BY <1>0, <2>1 DEF Stored
  <2>3. Stored'
    BY Zenon, <2>1, <2>2 DEF Stored
  <2>4. Grows
    BY <1>0, <2>1, <2>2 DEF Grows
  <2>. QED  BY <2>1, <2>3, <2>4
<1>. QED  BY <1>1, <1>2

-----------------------------------------------------------------------------
\* A longer log knows what the shorter one did
LEMMA KnownLonger ==
  ASSUME NEW l, NEW m, Len(l) \in Nat, Len(m) \in Nat, Len(l) <= Len(m),
         \A i \in 1 .. Len(l) : m[i] = l[i],
         NEW k, NEW f, NEW v, Known(l, k, f, v)
  PROVE  Known(m, k, f, v)
<1>1. \A i \in 1 .. Len(l) : i \in 1 .. Len(m)
  OBVIOUS
<1>. QED  BY Zenon, <1>1 DEF Known

\* What a client was told stays true
LEMMA AckedKept ==
  ASSUME Stored, Grows, Acked, acked' = acked
  PROVE  Acked'
<1>. SUFFICES ASSUME NEW k \in Keys, acked[k] # 0
              PROVE  acked[k] \in completed'[EngineOf[k]] /\ k \in log'[EngineOf[k]][acked[k]].keys
  BY Zenon DEF Acked
<1>1. EngineOf[k] \in Engines
  BY RowConstants
<1>2. acked[k] \in completed[EngineOf[k]] /\ k \in log[EngineOf[k]][acked[k]].keys
  BY Zenon DEF Acked
<1>3. /\ completed[EngineOf[k]] \subseteq 1 .. applied[EngineOf[k]]
      /\ applied[EngineOf[k]] <= Len(log[EngineOf[k]]) /\ applied[EngineOf[k]] \in Nat
      /\ Len(log[EngineOf[k]]) \in Nat
  BY Zenon, <1>1, StoredTypes
<1>4. acked[k] \in 1 .. Len(log[EngineOf[k]])
  BY <1>2, <1>3
<1>5. /\ completed[EngineOf[k]] \subseteq completed'[EngineOf[k]]
      /\ log'[EngineOf[k]][acked[k]] = log[EngineOf[k]][acked[k]]
  BY Zenon, <1>1, <1>4 DEF Grows
<1>. QED  BY Zenon, <1>2, <1>5

\* A task that does not move has the same behind it
LEMMA BehindKept ==
  ASSUME Stored, Stored', Grows, Acked, Acked', \A k \in Keys : acked[k] <= acked'[k],
         caching' = caching, overlap => overlap',
         NEW t \in Tasks, Behind(t), task'[t] = task[t]
  PROVE  Behind(t)'
<1>. DEFINE r == task[t]
<1>0. \A e \in Engines : /\ Len(log[e]) \in Nat /\ Len(log'[e]) \in Nat /\ Len(log[e]) <= Len(log'[e])
                         /\ \A i \in 1 .. Len(log[e]) : log'[e][i] = log[e][i]
  <2>1. \A e \in Engines : Len(log[e]) \in Nat
    BY Zenon, StoredTypes
  <2>2. \A e \in Engines : Len(log'[e]) \in Nat
    BY DEF Stored
  <2>. QED  BY Zenon, <2>1, <2>2 DEF Grows
<1>1. Rec(r) /\ (r.pc = "fill" => caching) /\ \A k \in Table : EngineOf[k] \in Engines /\ k \in Keys
  BY RowConstants DEF Behind
<1>2. r.pc \in Owing => \A w \in r.tickets : w \in Engines \X Nat /\ w[2] \in 1 .. Len(log'[w[1]])
  <2>. SUFFICES ASSUME r.pc \in Owing, NEW w \in r.tickets
                PROVE  w \in Engines \X Nat /\ w[2] \in 1 .. Len(log'[w[1]])
    OBVIOUS
  <2>1. w \in Engines \X Nat /\ w[2] \in 1 .. Len(log[w[1]])
    BY Zenon DEF Behind
  <2>2. w[1] \in Engines
    BY <2>1
  <2>. QED  BY <1>0, <2>1, <2>2
<1>3. "floor" \in DOMAIN r => \A k \in Keys : r.floor[k] <= acked'[k]
  <2>. SUFFICES ASSUME "floor" \in DOMAIN r, NEW k \in Keys PROVE r.floor[k] <= acked'[k]
    OBVIOUS
  <2>1. r.floor[k] \in Nat /\ acked[k] \in Nat /\ acked'[k] \in Nat
    BY <1>1 DEF Acked, Rec
  <2>2. r.floor[k] <= acked[k]
    BY Zenon DEF Behind
  <2>. QED  BY <2>1, <2>2
<1>4. r.pc = "fill" /\ "floor" \in DOMAIN r =>
        Known(log'[EngineOf[r.key]], r.key, r.floor[r.key], r.read)
  <2>1. r.pc = "fill" => EngineOf[r.key] \in Engines
    <3>1. r.pc = "fill" => r.key \in Table
      BY <1>1 DEF Rec, Reading
    <3>. QED  BY Zenon, <1>1, <3>1
  <2>2. r.pc = "fill" /\ "floor" \in DOMAIN r =>
          Known(log[EngineOf[r.key]], r.key, r.floor[r.key], r.read)
    BY Zenon DEF Behind
  <2>. HIDE DEF r
  <2>3. ASSUME NEW e \in Engines, NEW k, NEW f, NEW v, Known(log[e], k, f, v)
        PROVE  Known(log'[e], k, f, v)
    BY Zenon, <1>0, <2>3, KnownLonger
  <2>. QED  BY Zenon, <2>1, <2>2, <2>3
<1>5. r.pc \in Answering /\ ~(caching' /\ overlap') =>
        \A k \in DOMAIN r.rows : Known(log'[EngineOf[k]], k, r.floor[k], r.rows[k])
  <2>. SUFFICES ASSUME r.pc \in Answering, ~(caching' /\ overlap'), NEW k \in DOMAIN r.rows
                PROVE  Known(log'[EngineOf[k]], k, r.floor[k], r.rows[k])
    OBVIOUS
  <2>1. EngineOf[k] \in Engines
    BY <1>1 DEF Rec
  <2>2. Known(log[EngineOf[k]], k, r.floor[k], r.rows[k])
    BY Zenon DEF Behind
  <2>. QED  BY Zenon, <1>0, <2>1, <2>2, KnownLonger
<1>6. task'[t] = r
  OBVIOUS
<1>. HIDE DEF r
<1>. QED  BY Zenon, <1>1, <1>2, <1>3, <1>4, <1>5, <1>6 DEF Behind

\* What Shown gives is a cell ...
LEMMA ShownCell ==
  ASSUME NEW s \in Seq(Ops), Lasting(s), NEW m \in 0 .. Len(s), NEW k \in Keys
  PROVE  Log!Shown(s, 1 .. m, k) \in Cells
<1>0. m \in Nat /\ \A i \in 1 .. m : s[i] \in Ops
  OBVIOUS
<1>1. m \in Nat /\ \A i \in 1 .. m : s[i].val \in Cells
  BY <1>0 DEF Ops
<1>2. Leaves(s, m, k, Log!Shown(s, 1 .. m, k))
  BY Zenon DEF Lasting
<1>. QED  BY Zenon, <1>1, <1>2 DEF Leaves, Cells

\* ... and knows every operation it is shown
LEMMA ShownKnown ==
  ASSUME NEW s \in Seq(Ops), Lasting(s), NEW m \in 0 .. Len(s), NEW k \in Keys, NEW f \in Nat,
         f # 0 => f \in 1 .. m /\ k \in s[f].keys
  PROVE  Known(s, k, f, Log!Shown(s, 1 .. m, k))
<1>. DEFINE v == Log!Shown(s, 1 .. m, k)
<1>1. m \in Nat /\ \A i \in 1 .. m : i \in 1 .. Len(s) /\ i >= 0
  OBVIOUS
<1>2. Leaves(s, m, k, v)
  BY Zenon DEF Lasting
<1>. HIDE DEF v
<1>3. CASE v = Absent /\ \A i \in 1 .. m : k \notin s[i].keys
  BY Zenon, <1>3 DEF Known, v
<1>4. CASE \E i \in 1 .. m : /\ k \in s[i].keys /\ v = s[i].val
                             /\ \A j \in 1 .. m : k \in s[j].keys => j <= i
  <2>1. PICK i \in 1 .. m : /\ k \in s[i].keys /\ v = s[i].val
                            /\ \A j \in 1 .. m : k \in s[j].keys => j <= i
    BY Zenon, <1>4
  <2>2. i >= f /\ i \in 1 .. Len(s)
    BY <2>1
  <2>. QED  BY Zenon, <2>1, <2>2 DEF Known, v
<1>. QED  BY Zenon, <1>2, <1>3, <1>4 DEF Leaves

\* What an engine holds is known to everybody who was told of it
LEMMA HeldKnown ==
  ASSUME Stored, Acked, NEW k \in Keys, NEW f \in Nat, f = 0 \/ f <= acked[k]
  PROVE  LET l == log[EngineOf[k]] IN
         /\ db[EngineOf[k]][k] \in Cells /\ Latest(k) \in Cells
         /\ Known(l, k, f, db[EngineOf[k]][k]) /\ Known(l, k, f, Latest(k))
<1>. DEFINE e == EngineOf[k]
            l == log[e]
            a == acked[k]
<1>1. e \in Engines /\ a \in Nat
  BY RowConstants DEF Acked
<1>2. /\ l \in Seq(Ops) /\ Lasting(l) /\ Len(l) \in Nat /\ applied[e] \in Nat /\ applied[e] <= Len(l)
      /\ completed[e] \subseteq 1 .. applied[e]
      /\ db[e][k] = Log!Shown(l, 1 .. applied[e], k)
  BY Zenon, <1>1, StoredTypes
<1>3. a # 0 => a \in completed[e] /\ k \in l[a].keys
  BY Zenon DEF Acked
<1>4. Latest(k) = Log!Shown(l, 1 .. Len(l), k)
  BY Zenon DEF Latest
<1>. HIDE DEF l, e, a
<1>5. applied[e] \in 0 .. Len(l) /\ Len(l) \in 0 .. Len(l)
  BY <1>2
<1>6. a # 0 => a \in 1 .. applied[e] /\ a \in 1 .. Len(l)
  BY <1>1, <1>2, <1>3
<1>7. db[e][k] \in Cells /\ Latest(k) \in Cells
  BY Zenon, <1>2, <1>4, <1>5, ShownCell
<1>8. Known(l, k, a, db[e][k]) /\ Known(l, k, a, Latest(k))
  BY Zenon, <1>1, <1>2, <1>3, <1>4, <1>5, <1>6, ShownKnown
<1>9. \A v : Known(l, k, a, v) => Known(l, k, f, v)
  <2>. SUFFICES ASSUME NEW v, Known(l, k, a, v) PROVE Known(l, k, f, v)
    OBVIOUS
  <2>1. f = 0 \/ f <= a
    BY DEF a
  <2>2. a = 0 => f = 0
    BY <1>1, <2>1
  <2>3. \A n \in 1 .. Len(l) : n >= a => n >= f
    BY <1>1, <1>2, <2>1
  <2>. QED  BY Zenon, <2>2, <2>3 DEF Known
<1>. QED  BY Zenon, <1>7, <1>8, <1>9 DEF l, e

-----------------------------------------------------------------------------
\* What Next says of the variables that no request writes
Context ==
  /\ overlap' = (overlap \/ \E t, u \in Tasks : t # u /\ Idle \notin {task'[t], task'[u]})
  /\ UNCHANGED caching

\* The task t moves, and no other
Moves(t) == DOMAIN task' = Tasks /\ \A u \in Tasks : u # t => task'[u] = task[u]

\* The task t is the only one with a request
Alone(t) == \A u \in Tasks : u # t => task[u] = Idle

\* The record of t is replaced
LEMMA BecomesIs ==
  ASSUME DOMAIN task = Tasks, NEW t \in Tasks, NEW r, task' = [task EXCEPT ![t] = r]
  PROVE  Moves(t) /\ task'[t] = r
  BY DEF Moves

\* The pc of t is replaced
LEMMA GotoIs ==
  ASSUME DOMAIN task = Tasks, NEW t \in Tasks, "pc" \in DOMAIN task[t], NEW pc, Goto(t, pc)
  PROVE  /\ Moves(t) /\ DOMAIN task'[t] = DOMAIN task[t] /\ task'[t].pc = pc
         /\ \A x \in DOMAIN task[t] : x # "pc" => task'[t][x] = task[t][x]
  BY DEF Moves, Goto

\* overlap is true once two requests are in execution
LEMMA ContextIs ==
  ASSUME Steady, Context
  PROVE  caching' = caching /\ overlap' \in BOOLEAN /\ (overlap => overlap') /\ Solo'
<1>1. caching' = caching
  BY DEF Context
<1>2. overlap \in BOOLEAN
  BY DEF Steady, Cached
<1>3. overlap' \in BOOLEAN /\ (overlap => overlap')
  BY Zenon, <1>2 DEF Context
<1>4. Solo'
  BY Zenon DEF Context, Solo
<1>. QED  BY Zenon, <1>1, <1>3, <1>4

\* What every step shows
LEMMA SteadyStep ==
  ASSUME Steady, Context, NEW t \in Tasks, Moves(t), Stored', Grows, Acked',
         \A k \in Keys : acked[k] <= acked'[k],
         cache' \in [Keys -> Cells], ~caching => \A k \in Keys : cache'[k] = Absent,
         issued' \in 0 .. MaxRequests, Behind(t)', Awaited'
  PROVE  Steady'
<1>1. caching' = caching /\ overlap' \in BOOLEAN /\ (overlap => overlap')
  BY Zenon, ContextIs
<1>2. \A u \in Tasks : Behind(u)'
  <2>. SUFFICES ASSUME NEW u \in Tasks, u # t PROVE Behind(u)'
    BY Zenon
  <2>1. Stored /\ Acked /\ Behind(u) /\ task'[u] = task[u]
    BY Zenon DEF Steady, Moves
  <2>. QED  BY Zenon, <1>1, <2>1, BehindKept
<1>3. Cached'
  <2>1. caching \in BOOLEAN /\ DOMAIN task' = Tasks
    BY Zenon DEF Steady, Cached, Moves
  <2>. QED  BY Zenon, <1>1, <2>1 DEF Cached
<1>. QED  BY Zenon, <1>2, <1>3 DEF Steady

\* The steps that leave the engines and what was acknowledged alone
LEMMA LocalStep ==
  ASSUME Steady, Context, NEW t \in Tasks, Moves(t), UNCHANGED <<engines, acked>>,
         cache' \in [Keys -> Cells], ~caching => \A k \in Keys : cache'[k] = Absent,
         issued' \in 0 .. MaxRequests, Behind(t)',
         task[t].pc \in Owing => task'[t].pc \in Owing /\ task'[t].tickets = task[t].tickets
  PROVE  Steady'
<1>1. UNCHANGED engines /\ acked' = acked /\ log' = log /\ applied' = applied
  BY DEF engines
<1>2. Stored /\ Acked /\ Awaited
  BY Zenon DEF Steady
<1>3. Stored' /\ Grows
  BY Zenon, <1>1, <1>2, EnginesKept
<1>4. Acked'
  BY Zenon, <1>1, <1>2, <1>3, AckedKept
<1>5. \A k \in Keys : acked[k] <= acked'[k]
  BY <1>1, <1>2 DEF Acked
<1>6. Awaited'
  <2>1. \A u \in Tasks : task[u].pc \in Owing => task'[u].pc \in Owing /\ task'[u].tickets = task[u].tickets
    BY Zenon DEF Moves
  <2>. QED  BY Zenon, <1>1, <1>2, <2>1 DEF Awaited
<1>. QED  BY Zenon, <1>3, <1>4, <1>5, <1>6, SteadyStep

\* Without overlap the other tasks are idle
LEMMA AloneIs ==
  ASSUME Quiet, ~overlap, NEW t \in Tasks, task[t] # Idle
  PROVE  Alone(t) /\ Serial
  BY Zenon DEF Quiet, Solo, Alone

\* ... and if t awaits no ticket either, the engines hold the latest rows
LEMMA AllApplied ==
  ASSUME Steady, NEW t \in Tasks, Alone(t), task[t].pc \notin Owing, NEW k \in Keys
  PROVE  db[EngineOf[k]][k] = Latest(k)
<1>. DEFINE e == EngineOf[k]
<1>1. e \in Engines
  BY RowConstants
<1>2. \A u \in Tasks : task[u].pc \notin Owing
  <2>1. Idle.pc \notin Owing
    BY DEF Idle, Owing
  <2>. QED  BY Zenon, <2>1 DEF Alone
<1>3. \A n \in applied[e] + 1 .. Len(log[e]) : FALSE
  BY Zenon, <1>1, <1>2 DEF Steady, Awaited
<1>4. /\ applied[e] \in Nat /\ Len(log[e]) \in Nat /\ applied[e] <= Len(log[e])
      /\ db[e][k] = Log!Shown(log[e], 1 .. applied[e], k)
  BY Zenon, <1>1, StoredTypes DEF Steady
<1>5. applied[e] = Len(log[e])
  <2>. HIDE DEF e
  <2>. QED  BY <1>3, <1>4
<1>. QED  BY Zenon, <1>4, <1>5 DEF Latest

\* What a step that leaves one task with a request shows without overlap
LEMMA QuietStep ==
  ASSUME Steady, Context, NEW t \in Tasks, Moves(t), ~overlap => Alone(t) \/ task'[t] # Idle,
         ~overlap' /\ Alone(t) =>
           /\ \A k \in Keys : cache'[k] \in {Absent, Latest(k)'} \/ Between(t, k)'
           /\ Works(t)'
  PROVE  Quiet'
<1>1. (overlap => overlap') /\ Solo'
  BY Zenon, ContextIs
<1>. SUFFICES ASSUME ~overlap' PROVE Serial'
  BY Zenon, <1>1 DEF Quiet
<1>2. Alone(t)
  BY Zenon, <1>1 DEF Solo, Moves, Alone
<1>3. \A u \in Tasks : u # t => task'[u] = Idle
  BY Zenon, <1>2 DEF Moves, Alone
<1>4. \A u \in Tasks : u # t => Works(u)'
  BY <1>3 DEF Works, Idle, Writing
<1>. QED  BY Zenon, <1>2, <1>4 DEF Serial

-----------------------------------------------------------------------------
\* Between requests, and before a request changes anything, the cache holds
\* nothing but latest rows
LEMMA CacheBefore ==
  ASSUME Serial, NEW t \in Tasks, Alone(t),
         task[t].pc \notin {"send", "send_range", "cache_clear"}, NEW k \in Keys
  PROVE  cache[k] \in {Absent, Latest(k)}
<1>1. \A u \in Tasks : task[u].pc \notin {"send", "send_range", "cache_clear"}
  <2>1. Idle.pc \notin {"send", "send_range", "cache_clear"}
    BY DEF Idle
  <2>. QED  BY Zenon, <2>1 DEF Alone
<1>2. \A u \in Tasks : ~Between(u, k)
  BY <1>1 DEF Between
<1>. QED  BY Zenon, <1>2 DEF Serial

\* A request begins
LEMMA BeginStep ==
  ASSUME Steady, Quiet, Context, NEW t \in Tasks, Moves(t), task[t] = Idle, task'[t] # Idle,
         UNCHANGED <<engines, cache, acked>>, issued' \in 0 .. MaxRequests, Behind(t)',
         Works(t)'
  PROVE  Steady' /\ Quiet'
<1>1. task[t].pc = "idle"
  BY DEF Idle
<1>2. task[t].pc \notin Owing /\ task[t].pc \notin {"send", "send_range", "cache_clear"}
  BY <1>1 DEF Owing
<1>3. UNCHANGED <<engines, acked>> /\ cache' = cache /\ log' = log
  BY DEF engines
<1>4. cache' \in [Keys -> Cells] /\ (~caching => \A k \in Keys : cache'[k] = Absent)
  BY Zenon, <1>3 DEF Steady, Cached
<1>5. Steady'
  BY Zenon, <1>2, <1>3, <1>4, LocalStep
<1>6. overlap => overlap'
  BY Zenon, ContextIs
<1>7. ~overlap' /\ Alone(t) => \A k \in Keys : cache'[k] \in {Absent, Latest(k)'}
  <2>. SUFFICES ASSUME ~overlap', Alone(t), NEW k \in Keys
                PROVE  cache'[k] \in {Absent, Latest(k)'}
    OBVIOUS
  <2>1. Serial
    BY Zenon, <1>6 DEF Quiet
  <2>2. cache[k] \in {Absent, Latest(k)}
    BY Zenon, <1>2, <2>1, CacheBefore
  <2>. QED  BY Zenon, <1>3, <2>2 DEF Latest
<1>8. Quiet'
  BY Zenon, <1>7, QuietStep
<1>. QED  BY Zenon, <1>5, <1>8

\* The row that INSERT or UPDATE writes
LEMMA MergeIs ==
  ASSUME NEW old \in Cells, NEW C, NEW id \in 0 .. MaxRequests
  PROVE  Merge(old, C, id) \in Rows /\ Merges(Merge(old, C, id), C, old)
<1>1. Merge(old, C, id) \in Rows
  BY RowConstants DEF Merge, Rows, Cells, Null
<1>. QED  BY <1>1 DEF Merges, Merge

\* A request that writes what it can write without reading
LEMMA BeginWriteStep ==
  ASSUME Steady, Quiet, Context, NEW t \in Tasks, task[t] = Idle,
         NEW pc \in {"cache_put", "cache_remove"}, NEW k \in Table, NEW v \in Cells,
         task' = [task EXCEPT ![t] = [pc |-> pc, key |-> k, cols |-> Columns, val |-> v]],
         UNCHANGED <<engines, cache, acked>>, issued' \in 0 .. MaxRequests
  PROVE  Steady' /\ Quiet'
<1>. DEFINE r == [pc |-> pc, key |-> k, cols |-> Columns, val |-> v]
<1>0. DOMAIN task = Tasks
  BY Zenon DEF Steady, Cached
<1>1. Moves(t) /\ task'[t] = r
  BY Zenon, <1>0, BecomesIs
<1>2. /\ r.pc \in {"cache_put", "cache_remove"} /\ r # Idle
      /\ r.cols = Columns /\ "floor" \notin DOMAIN r /\ Rec(r)
  BY DEF Rec, Idle, Reading, Writing, Owing, Answering
<1>. HIDE DEF r
<1>3. Behind(t)'
  <2>1. r.pc \notin Owing /\ r.pc # "fill" /\ r.pc \notin Answering
    BY <1>2 DEF Owing, Answering
  <2>. QED  BY Zenon, <1>1, <1>2, <2>1 DEF Behind
<1>4. Works(t)'
  <2>1. r.pc \notin {"fill", "send", "settle"}
    BY <1>2
  <2>2. \A old : Merges(r.val, r.cols, old)
    BY <1>2 DEF Merges
  <2>. QED  BY <1>1, <2>1, <2>2 DEF Works
<1>. QED  BY Zenon, <1>1, <1>2, <1>3, <1>4, BeginStep

\* A request that has written and read nothing yet
LEMMA BeginOtherStep ==
  ASSUME Steady, Quiet, Context, NEW t \in Tasks, task[t] = Idle, NEW r, Rec(r),
         r.pc \in {"get", "send_range", "scan"},
         "floor" \in DOMAIN r => r.floor = acked,
         r.pc = "scan" => DOMAIN r.rows = {},
         r.pc = "send_range" => r.tickets = {},
         task' = [task EXCEPT ![t] = r],
         UNCHANGED <<engines, cache, acked>>, issued' \in 0 .. MaxRequests
  PROVE  Steady' /\ Quiet'
<1>0. DOMAIN task = Tasks /\ Acked
  BY Zenon DEF Steady, Cached
<1>1. Moves(t) /\ task'[t] = r
  BY Zenon, <1>0, BecomesIs
<1>2. r # Idle
  BY DEF Idle
<1>3. Behind(t)'
  <2>1. r.pc \in Owing => \A w \in r.tickets : w \in Engines \X Nat /\ w[2] \in 1 .. Len(log'[w[1]])
    BY DEF Owing
  <2>2. "floor" \in DOMAIN r => \A k \in Keys : r.floor[k] <= acked'[k]
    BY <1>0 DEF Acked
  <2>3. r.pc # "fill"
    BY DEF Answering
  <2>4. r.pc \in Answering => \A k \in DOMAIN r.rows :
          Known(log'[EngineOf[k]], k, r.floor[k], r.rows[k])
    BY DEF Answering
  <2>. QED  BY Zenon, <1>1, <2>1, <2>2, <2>3, <2>4 DEF Behind
<1>4. Works(t)'
  <2>1. r.pc \notin {"fill", "send", "settle"} /\ r.pc \notin Writing
    BY DEF Writing
  <2>. QED  BY <1>1, <2>1 DEF Works
<1>. QED  BY Zenon, <1>1, <1>2, <1>3, <1>4, BeginStep

\* Every request begins with the invariants kept
LEMMA BeginKeeps ==
  ASSUME Steady, Quiet, Context, NEW t \in Tasks, Begin(t)
  PROVE  Steady' /\ Quiet'
<1>0. issued \in 0 .. MaxRequests /\ DOMAIN task = Tasks /\ acked \in [Keys -> Nat]
  BY Zenon DEF Steady, Cached, Acked
<1>a. issued < MaxRequests => issued + 1 \in 1 .. MaxRequests /\ issued + 1 \in 0 .. MaxRequests
  BY <1>0, RowConstants
<1>b. Absent \in Cells /\ Rows \subseteq Cells
  BY DEF Cells
<1>c. /\ UNCHANGED <<engines, cache, acked>> => engines' = engines /\ cache' = cache /\ acked' = acked
      /\ UNCHANGED <<engines, cache, issued, acked>> =>
           UNCHANGED <<engines, cache, acked>> /\ issued' = issued
  OBVIOUS
<1>1. CASE BeginInsert(t)
  <2>1. PICK k \in Table, C \in SUBSET Columns :
          /\ task[t] = Idle /\ issued < MaxRequests /\ issued' = issued + 1
          /\ task' = [task EXCEPT ![t] = [pc |-> "cache_put", key |-> k, cols |-> Columns,
                                          val |-> Merge(Absent, C, issued + 1)]]
          /\ UNCHANGED <<engines, cache, acked>>
    BY Zenon, <1>1 DEF BeginInsert
  <2>2. Merge(Absent, C, issued + 1) \in Cells
    BY Zenon, <1>a, <1>b, <2>1, MergeIs
  <2>3. "cache_put" \in {"cache_put", "cache_remove"} /\ issued' \in 0 .. MaxRequests
    BY Zenon, <1>a, <2>1
  <2>. QED  BY Zenon, <2>1, <2>2, <2>3, BeginWriteStep
<1>2. CASE BeginUpdate(t)
  <2>1. PICK k \in Table, C \in (SUBSET Columns) \ {{}} :
          /\ task[t] = Idle /\ issued < MaxRequests /\ issued' = issued + 1
          /\ task' = [task EXCEPT ![t] =
                        IF C = Columns
                        THEN [pc |-> "cache_put", key |-> k, cols |-> C,
                              val |-> Merge(Absent, C, issued + 1)]
                        ELSE [pc |-> "get", key |-> k, cols |-> C, id |-> issued + 1,
                              read |-> Absent]]
          /\ UNCHANGED <<engines, cache, acked>>
    BY Zenon, <1>2 DEF BeginUpdate
  <2>2. Merge(Absent, C, issued + 1) \in Cells
    BY Zenon, <1>a, <1>b, <2>1, MergeIs
  <2>3. "cache_put" \in {"cache_put", "cache_remove"} /\ issued' \in 0 .. MaxRequests
    BY Zenon, <1>a, <2>1
  <2>4. CASE C = Columns
    <3>1. task' = [task EXCEPT ![t] = [pc |-> "cache_put", key |-> k, cols |-> Columns,
                                       val |-> Merge(Absent, C, issued + 1)]]
      BY Zenon, <2>1, <2>4
    <3>. QED  BY Zenon, <2>1, <2>2, <2>3, <3>1, BeginWriteStep
  <2>5. CASE C # Columns
    <3>. DEFINE r == [pc |-> "get", key |-> k, cols |-> C, id |-> issued + 1, read |-> Absent]
    <3>1. task' = [task EXCEPT ![t] = r]
      BY Zenon, <2>1, <2>5
    <3>2. Rec(r) /\ r.pc = "get" /\ "floor" \notin DOMAIN r
      BY <1>a, <2>1 DEF Rec, Reading, Writing, Owing, Answering
    <3>3. r.pc \in {"get", "send_range", "scan"} /\ r.pc # "scan" /\ r.pc # "send_range"
      BY <3>2
    <3>. HIDE DEF r
    <3>. QED  BY Zenon, <2>1, <2>3, <3>1, <3>2, <3>3, BeginOtherStep
  <2>. QED  BY Zenon, <2>4, <2>5
<1>3. CASE BeginDelete(t)
  <2>1. PICK k \in Table :
          /\ task[t] = Idle /\ issued < MaxRequests /\ issued' = issued + 1
          /\ task' = [task EXCEPT ![t] = [pc |-> "cache_remove", key |-> k, cols |-> Columns,
                                          val |-> Absent]]
          /\ UNCHANGED <<engines, cache, acked>>
    BY Zenon, <1>3 DEF BeginDelete
  <2>2. "cache_remove" \in {"cache_put", "cache_remove"} /\ issued' \in 0 .. MaxRequests
    BY Zenon, <1>a, <2>1
  <2>. QED  BY Zenon, <1>b, <2>1, <2>2, BeginWriteStep
<1>4. CASE BeginTruncate(t)
  <2>. DEFINE r == [pc |-> "send_range", todo |-> Engines, tickets |-> {}]
  <2>1. /\ task[t] = Idle /\ issued < MaxRequests /\ issued' = issued + 1
        /\ task' = [task EXCEPT ![t] = r] /\ UNCHANGED <<engines, cache, acked>>
    BY Zenon, <1>4 DEF BeginTruncate
  <2>2. Rec(r) /\ r.pc = "send_range" /\ "floor" \notin DOMAIN r /\ r.tickets = {}
    BY RowConstants DEF Rec, Reading, Writing, Owing, Answering
  <2>3. r.pc \in {"get", "send_range", "scan"} /\ r.pc # "scan" /\ issued' \in 0 .. MaxRequests
    BY <1>a, <2>1, <2>2
  <2>. HIDE DEF r
  <2>. QED  BY Zenon, <2>1, <2>2, <2>3, BeginOtherStep
<1>5. CASE BeginSelect(t)
  <2>1. PICK k \in Table :
          /\ task[t] = Idle
          /\ task' = [task EXCEPT ![t] = [pc |-> "get", key |-> k, cols |-> {},
                                          floor |-> acked, read |-> Absent]]
          /\ UNCHANGED <<engines, cache, issued, acked>>
    BY Zenon, <1>5 DEF BeginSelect
  <2>. DEFINE r == [pc |-> "get", key |-> k, cols |-> {}, floor |-> acked, read |-> Absent]
  <2>2. Rec(r) /\ r.pc = "get" /\ r.floor = acked
    BY <1>0 DEF Rec, Reading, Writing, Owing, Answering
  <2>3. r.pc \in {"get", "send_range", "scan"} /\ r.pc # "scan" /\ r.pc # "send_range"
    BY <2>2
  <2>4. task' = [task EXCEPT ![t] = r] /\ UNCHANGED <<engines, cache, acked>>
        /\ issued' \in 0 .. MaxRequests
    BY Zenon, <1>0, <1>c, <2>1
  <2>. HIDE DEF r
  <2>. QED  BY Zenon, <2>1, <2>2, <2>3, <2>4, BeginOtherStep
<1>6. CASE BeginScan(t)
  <2>. DEFINE r == [pc |-> "scan", todo |-> Engines, floor |-> acked,
                    rows |-> [k \in {} |-> Absent]]
  <2>1. /\ task[t] = Idle /\ task' = [task EXCEPT ![t] = r]
        /\ UNCHANGED <<engines, cache, issued, acked>>
    BY Zenon, <1>6 DEF BeginScan
  <2>2. Rec(r) /\ r.pc = "scan" /\ r.floor = acked /\ DOMAIN r.rows = {}
    BY <1>0, RowConstants DEF Rec, Reading, Writing, Owing, Answering
  <2>3. r.pc \in {"get", "send_range", "scan"} /\ r.pc # "send_range"
    BY <2>2
  <2>4. UNCHANGED <<engines, cache, acked>> /\ issued' \in 0 .. MaxRequests
    BY Zenon, <1>0, <1>c, <2>1
  <2>. HIDE DEF r
  <2>. QED  BY Zenon, <2>1, <2>2, <2>3, <2>4, BeginOtherStep
<1>. QED  BY Zenon, <1>1, <1>2, <1>3, <1>4, <1>5, <1>6 DEF Begin

-----------------------------------------------------------------------------
\* A row was read: it goes to the client, or an UPDATE merges into it
LEMMA WithRowStep ==
  ASSUME Steady, Quiet, Context, NEW t \in Tasks, task[t].pc \in Reading,
         NEW v \in Cells, WithRow(t, v),
         "floor" \in DOMAIN task[t] /\ ~(caching /\ overlap) =>
           Known(log[EngineOf[task[t].key]], task[t].key, task[t].floor[task[t].key], v),
         ~overlap => v = Latest(task[t].key),
         cache' \in [Keys -> Cells], ~caching => \A k \in Keys : cache'[k] = Absent,
         ~overlap => \A k \in Keys : cache'[k] \in {Absent, Latest(k)},
         UNCHANGED <<engines, issued, acked>>
  PROVE  Steady' /\ Quiet'
<1>0. /\ DOMAIN task = Tasks /\ Acked /\ issued \in 0 .. MaxRequests /\ Rec(task[t])
      /\ "floor" \in DOMAIN task[t] => \A k \in Keys : task[t].floor[k] <= acked[k]
  BY Zenon DEF Steady, Cached, Behind
<1>a. UNCHANGED <<engines, acked>> /\ log' = log /\ acked' = acked /\ issued' = issued
  BY DEF engines
<1>b. caching' = caching /\ (overlap => overlap')
  BY Zenon, ContextIs
<1>c. task[t].pc \notin Owing /\ task[t] # Idle /\ issued' \in 0 .. MaxRequests
  BY <1>0, <1>a DEF Reading, Owing, Idle
<1>d. ~overlap => Alone(t)
  BY Zenon, <1>c, AloneIs
<1>e. \A k : Latest(k)' = Latest(k)
  BY Zenon, <1>a DEF Latest
<1>1. CASE "floor" \in DOMAIN task[t]
  <2>. DEFINE k == task[t].key
              f == task[t].floor
              r == [pc |-> "reply", floor |-> f, rows |-> [x \in {k} |-> v]]
  <2>1. task' = [task EXCEPT ![t] = r]
    BY <1>1 DEF WithRow
  <2>2. Moves(t) /\ task'[t] = r
    BY Zenon, <1>0, <2>1, BecomesIs
  <2>3. k \in Table /\ f \in [Keys -> Nat]
    BY <1>0, <1>1 DEF Rec
  <2>. HIDE DEF k, f
  <2>4. Rec(r) /\ r.pc = "reply" /\ r.floor = f /\ DOMAIN r.rows = {k} /\ r.rows[k] = v
    BY <2>3 DEF Rec, Reading, Writing, Owing, Answering
  <2>. HIDE DEF r
  <2>5. Behind(t)'
    <3>1. r.pc \notin Owing /\ r.pc # "fill"
      BY <2>4 DEF Owing
    <3>2. \A x \in Keys : f[x] <= acked'[x]
      BY Zenon, <1>0, <1>1, <1>a DEF f
    <3>3. ~(caching' /\ overlap') => \A x \in DOMAIN r.rows : Known(log'[EngineOf[x]], x, r.floor[x], r.rows[x])
      <4>1. ~(caching /\ overlap) => Known(log[EngineOf[k]], k, f[k], v)
        BY Zenon, <1>1 DEF k, f
      <4>2. \A x \in DOMAIN r.rows : x = k
        BY <2>4
      <4>. QED  BY Zenon, <1>a, <1>b, <2>4, <4>1, <4>2
    <3>. QED  BY Zenon, <2>2, <2>4, <3>1, <3>2, <3>3 DEF Behind
  <2>6. Steady'
    BY Zenon, <1>a, <1>c, <2>2, <2>5, LocalStep
  <2>7. Works(t)'
    <3>1. r.pc \notin {"fill", "send", "settle"} /\ r.pc \notin Writing
      BY <2>4 DEF Writing
    <3>. QED  BY <2>2, <3>1 DEF Works
  <2>8. Quiet'
    BY Zenon, <1>b, <1>d, <1>e, <2>2, <2>7, QuietStep
  <2>. QED  BY Zenon, <2>6, <2>8
<1>2. CASE "floor" \notin DOMAIN task[t]
  <2>. DEFINE k == task[t].key
              C == task[t].cols
              m == Merge(v, C, task[t].id)
              r == [pc |-> "cache_put", key |-> k, cols |-> C, val |-> m]
  <2>1. task' = [task EXCEPT ![t] = r]
    BY <1>2 DEF WithRow
  <2>2. Moves(t) /\ task'[t] = r
    BY Zenon, <1>0, <2>1, BecomesIs
  <2>3. k \in Table /\ task[t].id \in 0 .. MaxRequests
    <3>1. k \in Table /\ task[t].id \in 1 .. MaxRequests
      BY Zenon, <1>0, <1>2 DEF Rec
    <3>. QED  BY <3>1
  <2>4. m \in Rows /\ Merges(m, C, v)
    BY Zenon, <2>3, MergeIs
  <2>. HIDE DEF k, C, m
  <2>5. /\ Rec(r) /\ r.pc = "cache_put" /\ r.key = k /\ r.cols = C /\ r.val = m
        /\ "floor" \notin DOMAIN r /\ r # Idle
    BY <2>3, <2>4 DEF Rec, Reading, Writing, Owing, Answering, Cells, Idle
  <2>. HIDE DEF r
  <2>6. Behind(t)'
    <3>1. r.pc \notin Owing /\ r.pc # "fill" /\ r.pc \notin Answering
      BY <2>5 DEF Owing, Answering
    <3>. QED  BY Zenon, <2>2, <2>5, <3>1 DEF Behind
  <2>7. Steady'
    BY Zenon, <1>a, <1>c, <2>2, <2>6, LocalStep
  <2>8. ~overlap => Works(t)'
    <3>1. r.pc \notin {"fill", "send", "settle"}
      BY <2>5
    <3>2. ~overlap => Merges(r.val, r.cols, Log!Shown(log'[EngineOf[r.key]], 1 .. Len(log'[EngineOf[r.key]]), r.key))
      BY Zenon, <1>a, <2>4, <2>5 DEF k, Latest
    <3>. QED  BY Zenon, <2>2, <3>1, <3>2 DEF Works, Latest
  <2>9. Quiet'
    BY Zenon, <1>b, <1>d, <1>e, <2>2, <2>8, QuietStep
  <2>. QED  BY Zenon, <2>7, <2>9
<1>. QED  BY Zenon, <1>1, <1>2

\* What get_row relies on: its row is one of the table, and if the request is
\* alone, the engine and the cache have nothing but the latest row of it
LEMMA ReadingIs ==
  ASSUME Steady, Quiet, NEW t \in Tasks, task[t].pc \in Reading
  PROVE  LET k == task[t].key IN
         /\ k \in Keys /\ EngineOf[k] \in Engines /\ task[t] # Idle
         /\ cache[k] \in Cells /\ db[EngineOf[k]][k] \in Cells /\ Latest(k) \in Cells
         /\ "floor" \in DOMAIN task[t] =>
              /\ Known(log[EngineOf[k]], k, task[t].floor[k], db[EngineOf[k]][k])
              /\ Known(log[EngineOf[k]], k, task[t].floor[k], Latest(k))
         /\ ~overlap => /\ Alone(t) /\ db[EngineOf[k]][k] = Latest(k)
                        /\ \A x \in Keys : cache[x] \in {Absent, Latest(x)}
<1>. DEFINE k == task[t].key
<1>0. /\ Rec(task[t]) /\ Stored /\ Acked /\ cache \in [Keys -> Cells]
      /\ "floor" \in DOMAIN task[t] => \A x \in Keys : task[t].floor[x] <= acked[x]
  BY Zenon DEF Steady, Behind, Cached
<1>1. task[t].pc \notin Owing /\ task[t].pc \notin {"send", "send_range", "cache_clear"} /\ task[t] # Idle
  BY DEF Reading, Owing, Idle
<1>2. k \in Keys /\ ("floor" \in DOMAIN task[t] => task[t].floor[k] \in Nat)
  BY <1>0, RowConstants DEF Rec
<1>3. EngineOf[k] \in Engines /\ cache[k] \in Cells
  BY <1>0, <1>2, RowConstants
<1>4. db[EngineOf[k]][k] \in Cells /\ Latest(k) \in Cells
  <2>1. 0 \in Nat
    OBVIOUS
  <2>. HIDE DEF k
  <2>. QED  BY Zenon, <1>0, <1>2, <2>1, HeldKnown
<1>5. "floor" \in DOMAIN task[t] =>
        /\ Known(log[EngineOf[k]], k, task[t].floor[k], db[EngineOf[k]][k])
        /\ Known(log[EngineOf[k]], k, task[t].floor[k], Latest(k))
  <2>1. "floor" \in DOMAIN task[t] => task[t].floor[k] \in Nat /\ task[t].floor[k] <= acked[k]
    BY Zenon, <1>0, <1>2
  <2>. HIDE DEF k
  <2>. QED  BY Zenon, <1>0, <1>2, <2>1, HeldKnown
<1>6. ~overlap => /\ Alone(t) /\ db[EngineOf[k]][k] = Latest(k)
                  /\ \A x \in Keys : cache[x] \in {Absent, Latest(x)}
  <2>. SUFFICES ASSUME ~overlap
                PROVE  /\ Alone(t) /\ db[EngineOf[k]][k] = Latest(k)
                       /\ \A x \in Keys : cache[x] \in {Absent, Latest(x)}
    OBVIOUS
  <2>1. Alone(t) /\ Serial
    BY Zenon, <1>1, AloneIs
  <2>2. db[EngineOf[k]][k] = Latest(k)
    <3>. HIDE DEF k
    <3>. QED  BY Zenon, <1>1, <1>2, <2>1, AllApplied
  <2>3. \A x \in Keys : cache[x] \in {Absent, Latest(x)}
    BY Zenon, <1>1, <2>1, CacheBefore
  <2>. QED  BY Zenon, <2>1, <2>2, <2>3
<1>. QED  BY Zenon, <1>1, <1>2, <1>3, <1>4, <1>5, <1>6

\* cache.get finds the row
LEMMA GetHitStep ==
  ASSUME Steady, Quiet, Context, NEW t \in Tasks, GetHit(t)
  PROVE  Steady' /\ Quiet'
<1>. DEFINE k == task[t].key
<1>1. /\ task[t].pc = "get" /\ cache[k] # Absent /\ WithRow(t, cache[k])
      /\ UNCHANGED <<engines, issued, acked>> /\ cache' = cache
  BY DEF GetHit
<1>2. task[t].pc \in Reading
  BY <1>1 DEF Reading
<1>3. /\ k \in Keys /\ cache[k] \in Cells
      /\ "floor" \in DOMAIN task[t] => Known(log[EngineOf[k]], k, task[t].floor[k], Latest(k))
      /\ ~overlap => \A x \in Keys : cache[x] \in {Absent, Latest(x)}
  BY Zenon, <1>2, ReadingIs
<1>4. cache' \in [Keys -> Cells] /\ (~caching => \A x \in Keys : cache'[x] = Absent)
  BY Zenon, <1>1 DEF Steady, Cached
<1>5. ~overlap => cache[k] = Latest(k)
  BY Zenon, <1>1, <1>3
<1>6. caching
  BY Zenon, <1>1, <1>3, <1>4
<1>7. "floor" \in DOMAIN task[t] /\ ~(caching /\ overlap) =>
        Known(log[EngineOf[k]], k, task[t].floor[k], cache[k])
  BY Zenon, <1>3, <1>5, <1>6
<1>8. ~overlap => \A x \in Keys : cache'[x] \in {Absent, Latest(x)}
  BY Zenon, <1>1, <1>3
<1>. QED  BY Zenon, <1>1, <1>2, <1>3, <1>4, <1>5, <1>7, <1>8, WithRowStep

\* A request moves on within get_row
LEMMA GetStep ==
  ASSUME Steady, Quiet, Context, NEW t \in Tasks, Moves(t), task[t].pc \in Reading,
         task'[t].pc \in Reading, Behind(t)', UNCHANGED <<engines, cache, issued, acked>>,
         ~overlap /\ Alone(t) /\ task'[t].pc = "fill" => Works(t)'
  PROVE  Steady' /\ Quiet'
<1>1. UNCHANGED <<engines, acked>> /\ cache' = cache /\ issued' = issued /\ log' = log
  BY DEF engines
<1>2. task[t].pc \notin Owing /\ task[t] # Idle
  BY DEF Reading, Owing, Idle
<1>3. /\ cache' \in [Keys -> Cells] /\ (~caching => \A x \in Keys : cache'[x] = Absent)
      /\ issued' \in 0 .. MaxRequests
  BY Zenon, <1>1 DEF Steady, Cached
<1>4. Steady'
  BY Zenon, <1>1, <1>2, <1>3, LocalStep
<1>5. ~overlap => Alone(t) /\ \A x \in Keys : cache[x] \in {Absent, Latest(x)}
  BY Zenon, ReadingIs
<1>6. ~overlap => \A x \in Keys : cache'[x] \in {Absent, Latest(x)'}
  BY Zenon, <1>1, <1>5 DEF Latest
<1>7. ~overlap => Works(t)'
  <2>1. task'[t].pc # "fill" => Works(t)'
    BY DEF Works, Reading, Writing
  <2>. QED  BY Zenon, <1>5, <2>1
<1>8. overlap => overlap'
  BY Zenon, ContextIs
<1>9. Quiet'
  BY Zenon, <1>5, <1>6, <1>7, <1>8, QuietStep
<1>. QED  BY Zenon, <1>4, <1>9

\* cache.get finds nothing
LEMMA GetMissStep ==
  ASSUME Steady, Quiet, Context, NEW t \in Tasks, GetMiss(t)
  PROVE  Steady' /\ Quiet'
<1>0. DOMAIN task = Tasks /\ Rec(task[t]) /\ "pc" \in DOMAIN task[t]
      /\ ("floor" \in DOMAIN task[t] => \A x \in Keys : task[t].floor[x] <= acked[x])
  BY Zenon DEF Steady, Cached, Behind, Rec
<1>1. task[t].pc = "get" /\ Goto(t, "read") /\ UNCHANGED <<engines, cache, issued, acked>>
  BY Zenon DEF GetMiss
<1>2. /\ Moves(t) /\ DOMAIN task'[t] = DOMAIN task[t] /\ task'[t].pc = "read"
      /\ \A x \in DOMAIN task[t] : x # "pc" => task'[t][x] = task[t][x]
  BY Zenon, <1>0, <1>1, GotoIs
<1>3. Rec(task'[t])
  BY <1>0, <1>1, <1>2 DEF Rec, Reading, Writing, Owing, Answering
<1>4. Behind(t)'
  <2>1. task'[t].pc \notin Owing /\ task'[t].pc # "fill" /\ task'[t].pc \notin Answering
    BY <1>2 DEF Owing, Answering
  <2>2. "floor" \in DOMAIN task'[t] => \A x \in Keys : task'[t].floor[x] <= acked'[x]
    BY <1>0, <1>1, <1>2
  <2>. QED  BY Zenon, <1>3, <2>1, <2>2 DEF Behind
<1>5. task[t].pc \in Reading /\ task'[t].pc \in Reading /\ task'[t].pc # "fill"
  BY <1>1, <1>2 DEF Reading
<1>. QED  BY Zenon, <1>1, <1>2, <1>4, <1>5, GetStep

\* dbs[engine].get
LEMMA ReadEngineStep ==
  ASSUME Steady, Quiet, Context, NEW t \in Tasks, ReadEngine(t)
  PROVE  Steady' /\ Quiet'
<1>. DEFINE k == task[t].key
            v == db[EngineOf[k]][k]
<1>1. /\ task[t].pc = "read" /\ UNCHANGED <<engines, cache, issued, acked>>
      /\ IF caching /\ v # Absent
         THEN task' = [task EXCEPT ![t].pc = "fill", ![t].read = v]
         ELSE WithRow(t, v)
  BY Zenon DEF ReadEngine
<1>2. task[t].pc \in Reading
  BY <1>1 DEF Reading
<1>3. /\ k \in Keys /\ EngineOf[k] \in Engines /\ v \in Cells
      /\ "floor" \in DOMAIN task[t] => Known(log[EngineOf[k]], k, task[t].floor[k], v)
      /\ ~overlap => v = Latest(k) /\ \A x \in Keys : cache[x] \in {Absent, Latest(x)}
  BY Zenon, <1>2, ReadingIs
<1>4. /\ cache' = cache /\ UNCHANGED <<engines, issued, acked>> /\ log' = log /\ acked' = acked
  BY <1>1 DEF engines
<1>5. CASE caching /\ v # Absent
  <2>0. /\ DOMAIN task = Tasks /\ Rec(task[t]) /\ {"pc", "read", "key"} \subseteq DOMAIN task[t]
        /\ "floor" \in DOMAIN task[t] => \A x \in Keys : task[t].floor[x] <= acked[x]
    <3>1. DOMAIN task = Tasks /\ Rec(task[t])
      BY Zenon DEF Steady, Cached, Behind
    <3>2. {"pc", "read", "key"} \subseteq DOMAIN task[t]
      BY <1>2, <3>1 DEF Rec
    <3>. QED  BY Zenon, <3>1, <3>2 DEF Steady, Behind
  <2>1. task' = [task EXCEPT ![t].pc = "fill", ![t].read = v]
    BY Zenon, <1>1, <1>5
  <2>. HIDE DEF v
  <2>2. /\ Moves(t) /\ DOMAIN task'[t] = DOMAIN task[t] /\ task'[t].pc = "fill" /\ task'[t].read = v
        /\ \A x \in DOMAIN task[t] : x \notin {"pc", "read"} => task'[t][x] = task[t][x]
    BY <2>0, <2>1 DEF Moves
  <2>3. task'[t].key = k /\ ("floor" \in DOMAIN task'[t] => task'[t].floor = task[t].floor)
    BY <2>0, <2>2
  <2>4. v \in Rows
    BY Zenon, <1>3, <1>5 DEF Cells
  <2>5. Rec(task'[t])
    BY <1>1, <2>0, <2>2, <2>4 DEF Rec, Reading, Writing, Owing, Answering
  <2>6. Behind(t)'
    <3>1. task'[t].pc \notin Owing /\ task'[t].pc \notin Answering
      BY <2>2 DEF Owing, Answering
    <3>2. "floor" \in DOMAIN task'[t] => \A x \in Keys : task'[t].floor[x] <= acked'[x]
      BY Zenon, <1>4, <2>0, <2>2, <2>3
    <3>3. caching'
      BY Zenon, <1>5, ContextIs
    <3>4. "floor" \in DOMAIN task'[t] =>
            Known(log'[EngineOf[task'[t].key]], task'[t].key, task'[t].floor[task'[t].key], task'[t].read)
      <4>1. "floor" \in DOMAIN task'[t] => Known(log'[EngineOf[k]], k, task'[t].floor[k], task'[t].read)
        BY Zenon, <1>3, <1>4, <2>2, <2>3
      <4>. QED  BY Zenon, <2>3, <4>1
    <3>. QED  BY Zenon, <2>5, <3>1, <3>2, <3>3, <3>4 DEF Behind
  <2>7. ~overlap => Works(t)'
    <3>1. task'[t].pc \notin {"send", "settle"} /\ task'[t].pc \notin Writing
      BY <2>2 DEF Writing
    <3>2. ~overlap => task'[t].read = Log!Shown(log'[EngineOf[k]], 1 .. Len(log'[EngineOf[k]]), k)
      BY Zenon, <1>3, <1>4, <2>2 DEF Latest
    <3>3. ~overlap => task'[t].read = Log!Shown(log'[EngineOf[task'[t].key]],
                                                1 .. Len(log'[EngineOf[task'[t].key]]), task'[t].key)
      BY Zenon, <2>3, <3>2
    <3>. QED  BY <3>1, <3>3 DEF Works, Latest
  <2>8. task'[t].pc \in Reading
    BY <2>2 DEF Reading
  <2>. QED  BY Zenon, <1>1, <1>2, <2>2, <2>6, <2>7, <2>8, GetStep
<1>6. CASE ~(caching /\ v # Absent)
  <2>1. cache' \in [Keys -> Cells] /\ (~caching => \A x \in Keys : cache'[x] = Absent)
    BY Zenon, <1>4 DEF Steady, Cached
  <2>2. WithRow(t, v)
    BY Zenon, <1>1, <1>6
  <2>3. ~overlap => \A x \in Keys : cache'[x] \in {Absent, Latest(x)}
    BY Zenon, <1>3, <1>4
  <2>. HIDE DEF v
  <2>. QED  BY Zenon, <1>2, <1>3, <1>4, <2>1, <2>2, <2>3, WithRowStep
<1>. QED  BY Zenon, <1>5, <1>6

\* cache.insert of the row that was read
LEMMA FillCacheStep ==
  ASSUME Steady, Quiet, Context, NEW t \in Tasks, FillCache(t)
  PROVE  Steady' /\ Quiet'
<1>. DEFINE k == task[t].key
            v == task[t].read
<1>1. /\ task[t].pc = "fill" /\ cache' = [cache EXCEPT ![k] = v] /\ WithRow(t, v)
      /\ UNCHANGED <<engines, issued, acked>>
  BY Zenon DEF FillCache
<1>2. task[t].pc \in Reading
  BY <1>1 DEF Reading
<1>3. /\ k \in Keys
      /\ ~overlap => Alone(t) /\ \A x \in Keys : cache[x] \in {Absent, Latest(x)}
  BY Zenon, <1>2, ReadingIs
<1>4. /\ Rec(task[t]) /\ caching /\ cache \in [Keys -> Cells]
      /\ "floor" \in DOMAIN task[t] => Known(log[EngineOf[k]], k, task[t].floor[k], v)
  BY Zenon, <1>1 DEF Steady, Behind, Cached
<1>5. v \in Cells
  BY <1>1, <1>4 DEF Rec, Cells
<1>6. ~overlap => v = Latest(k)
  BY Zenon, <1>1 DEF Quiet, Serial, Works
<1>. HIDE DEF v, k
<1>7. cache' \in [Keys -> Cells] /\ cache'[k] = v /\ \A x \in Keys : x # k => cache'[x] = cache[x]
  BY <1>1, <1>3, <1>4, <1>5
<1>8. ~overlap => \A x \in Keys : cache'[x] \in {Absent, Latest(x)}
  BY Zenon, <1>3, <1>6, <1>7
<1>. QED  BY Zenon, <1>1, <1>2, <1>4, <1>5, <1>6, <1>7, <1>8, WithRowStep DEF k

-----------------------------------------------------------------------------
\* put_row and delete_row change the cache
LEMMA ChangeCacheStep ==
  ASSUME Steady, Quiet, Context, NEW t \in Tasks, ChangeCache(t)
  PROVE  Steady' /\ Quiet'
<1>. DEFINE k == task[t].key
            v == task[t].val
<1>0. /\ DOMAIN task = Tasks /\ Rec(task[t]) /\ "pc" \in DOMAIN task[t]
      /\ cache \in [Keys -> Cells] /\ issued \in 0 .. MaxRequests /\ caching \in BOOLEAN
      /\ ~caching => \A x \in Keys : cache[x] = Absent
  BY Zenon DEF Steady, Cached, Behind, Rec
<1>1. /\ task[t].pc \in {"cache_put", "cache_remove"} /\ Goto(t, "send")
      /\ cache' = IF caching THEN [cache EXCEPT ![k] = v] ELSE cache
      /\ UNCHANGED <<engines, issued, acked>>
  BY Zenon DEF ChangeCache
<1>2. /\ Moves(t) /\ DOMAIN task'[t] = DOMAIN task[t] /\ task'[t].pc = "send"
      /\ \A x \in DOMAIN task[t] : x # "pc" => task'[t][x] = task[t][x]
  BY Zenon, <1>0, <1>1, GotoIs
<1>3. /\ k \in Table /\ v \in Cells /\ {"key", "cols", "val"} \subseteq DOMAIN task[t]
      /\ "floor" \notin DOMAIN task[t] /\ task[t].pc \in Writing
  BY <1>0, <1>1 DEF Rec, Reading, Writing, Answering
<1>4. task'[t].key = k /\ task'[t].cols = task[t].cols /\ task'[t].val = v
  BY <1>2, <1>3
<1>5. Rec(task'[t])
  BY <1>0, <1>1, <1>2, <1>3, <1>4 DEF Rec, Reading, Writing, Owing, Answering
<1>6. Behind(t)'
  <2>1. task'[t].pc \notin Owing /\ task'[t].pc # "fill" /\ task'[t].pc \notin Answering
    BY <1>2 DEF Owing, Answering
  <2>. QED  BY Zenon, <1>2, <1>3, <1>5, <2>1 DEF Behind
<1>7. /\ task[t].pc \notin Owing /\ task[t] # Idle
      /\ task[t].pc \notin {"send", "send_range", "cache_clear"}
  BY <1>1 DEF Owing, Idle
<1>8. UNCHANGED <<engines, acked>> /\ log' = log /\ issued' \in 0 .. MaxRequests /\ k \in Keys
  BY <1>0, <1>1, <1>3, RowConstants DEF engines
<1>. HIDE DEF k, v
<1>9. /\ cache' \in [Keys -> Cells] /\ (~caching => \A x \in Keys : cache'[x] = Absent)
      /\ cache'[k] = (IF caching THEN v ELSE Absent)
      /\ \A x \in Keys : x # k => cache'[x] = cache[x]
  BY <1>0, <1>1, <1>3, <1>8
<1>10. Steady'
  BY Zenon, <1>2, <1>6, <1>7, <1>8, <1>9, LocalStep
<1>11. caching' = caching /\ (overlap => overlap')
  BY Zenon, ContextIs
<1>12. ~overlap => /\ \A x \in Keys : cache'[x] \in {Absent, Latest(x)'} \/ Between(t, x)'
                   /\ Works(t)'
  <2>. SUFFICES ASSUME ~overlap
                PROVE  /\ \A x \in Keys : cache'[x] \in {Absent, Latest(x)'} \/ Between(t, x)'
                       /\ Works(t)'
    OBVIOUS
  <2>1. Alone(t) /\ Serial
    BY Zenon, <1>7, AloneIs
  <2>2. \A x \in Keys : cache[x] \in {Absent, Latest(x)}
    BY Zenon, <1>7, <2>1, CacheBefore
  <2>3. \A x \in Keys : Latest(x)' = Latest(x)
    BY Zenon, <1>8 DEF Latest
  <2>5. \A x \in Keys : cache'[x] \in {Absent, Latest(x)'} \/ Between(t, x)'
    <3>1. \A x \in Keys : x = k => Between(t, x)'
      BY Zenon, <1>2, <1>4 DEF Between
    <3>. QED  BY Zenon, <1>9, <2>2, <2>3, <3>1
  <2>6. Merges(task'[t].val, task'[t].cols, Log!Shown(log'[EngineOf[k]], 1 .. Len(log'[EngineOf[k]]), k))
    <3>1. Merges(task[t].val, task[t].cols, Latest(task[t].key))
      BY Zenon, <1>3, <2>1 DEF Serial, Works
    <3>. QED  BY Zenon, <1>4, <1>8, <3>1 DEF Latest, k, v
  <2>7. Works(t)'
    <3>1. task'[t].pc \notin {"fill", "settle"}
      BY <1>2
    <3>2. cache'[task'[t].key] = IF caching' THEN task'[t].val ELSE Absent
      BY Zenon, <1>4, <1>9, <1>11
    <3>3. Merges(task'[t].val, task'[t].cols,
                 Log!Shown(log'[EngineOf[task'[t].key]], 1 .. Len(log'[EngineOf[task'[t].key]]), task'[t].key))
      BY Zenon, <1>4, <2>6
    <3>. QED  BY Zenon, <3>1, <3>2, <3>3 DEF Works, Latest
  <2>. QED  BY Zenon, <2>5, <2>7
<1>13. ~overlap => Alone(t)
  BY Zenon, <1>7, AloneIs
<1>14. Quiet'
  BY Zenon, <1>2, <1>11, <1>12, <1>13, QuietStep
<1>. QED  BY Zenon, <1>10, <1>14

\* cache.clear
LEMMA ClearCacheStep ==
  ASSUME Steady, Quiet, Context, NEW t \in Tasks, ClearCache(t)
  PROVE  Steady' /\ Quiet'
<1>0. /\ DOMAIN task = Tasks /\ Rec(task[t]) /\ "pc" \in DOMAIN task[t] /\ issued \in 0 .. MaxRequests
      /\ task[t].pc \in Owing =>
           \A w \in task[t].tickets : w \in Engines \X Nat /\ w[2] \in 1 .. Len(log[w[1]])
  BY Zenon DEF Steady, Cached, Behind, Rec
<1>1. /\ task[t].pc = "cache_clear" /\ Goto(t, "settle") /\ cache' = [k \in Keys |-> Absent]
      /\ UNCHANGED <<engines, issued, acked>>
  BY Zenon DEF ClearCache
<1>2. /\ Moves(t) /\ DOMAIN task'[t] = DOMAIN task[t] /\ task'[t].pc = "settle"
      /\ \A x \in DOMAIN task[t] : x # "pc" => task'[t][x] = task[t][x]
  BY Zenon, <1>0, <1>1, GotoIs
<1>3. /\ "tickets" \in DOMAIN task[t] /\ "key" \notin DOMAIN task[t] /\ task[t].pc \in Owing
      /\ "floor" \notin DOMAIN task[t] /\ task[t] # Idle
  BY <1>0, <1>1 DEF Rec, Reading, Owing, Answering, Idle
<1>4. task'[t].tickets = task[t].tickets /\ task'[t].pc \in Owing
  BY <1>2, <1>3 DEF Owing
<1>5. Rec(task'[t])
  BY <1>0, <1>1, <1>2, <1>3 DEF Rec, Reading, Writing, Owing, Answering
<1>6. UNCHANGED <<engines, acked>> /\ log' = log /\ issued' \in 0 .. MaxRequests
  BY <1>0, <1>1 DEF engines
<1>7. Behind(t)'
  <2>1. task'[t].pc # "fill" /\ task'[t].pc \notin Answering
    BY <1>2 DEF Answering
  <2>2. \A w \in task'[t].tickets : w \in Engines \X Nat /\ w[2] \in 1 .. Len(log'[w[1]])
    BY Zenon, <1>0, <1>3, <1>4, <1>6
  <2>. QED  BY Zenon, <1>2, <1>3, <1>5, <2>1, <2>2 DEF Behind
<1>8. cache' \in [Keys -> Cells] /\ \A x \in Keys : cache'[x] = Absent
  BY <1>1 DEF Cells
<1>9. Steady'
  BY Zenon, <1>2, <1>4, <1>6, <1>7, <1>8, LocalStep
<1>10. Works(t)'
  BY <1>2, <1>3 DEF Works, Writing
<1>11. ~overlap => Alone(t)
  BY Zenon, <1>3, AloneIs
<1>12. Quiet'
  BY Zenon, <1>2, <1>8, <1>10, <1>11, QuietStep
<1>. QED  BY Zenon, <1>9, <1>12

-----------------------------------------------------------------------------
\* Without overlap, a step of a request outside the cache and the log
LEMMA RestStep ==
  ASSUME Steady, Quiet, Context, NEW t \in Tasks, Moves(t), task[t] # Idle,
         task[t].pc \notin {"send", "send_range", "cache_clear"},
         cache' = cache, log' = log, task'[t].pc \in {"idle"} \cup Answering
  PROVE  Quiet'
<1>1. ~overlap => Alone(t) /\ Serial
  BY Zenon, AloneIs
<1>2. ~overlap => \A k \in Keys : cache'[k] \in {Absent, Latest(k)'}
  <2>1. ~overlap => \A k \in Keys : cache[k] \in {Absent, Latest(k)}
    BY Zenon, <1>1, CacheBefore
  <2>. QED  BY Zenon, <2>1 DEF Latest
<1>3. Works(t)'
  <2>1. task'[t].pc \notin {"fill", "send", "settle"} /\ task'[t].pc \notin Writing
    BY DEF Answering, Writing
  <2>. QED  BY Zenon, <2>1 DEF Works
<1>4. overlap => overlap'
  BY Zenon, ContextIs
<1>. QED  BY Zenon, <1>1, <1>2, <1>3, <1>4, QuietStep

\* An idle task has nothing behind it
LEMMA IdleBehind ==
  ASSUME NEW t \in Tasks, task'[t] = Idle
  PROVE  Behind(t)'
<1>1. Rec(Idle)
  BY DEF Rec, Idle, Reading, Writing, Owing, Answering
<1>2. Idle.pc \notin Owing /\ Idle.pc # "fill" /\ Idle.pc \notin Answering /\ "floor" \notin DOMAIN Idle
  BY DEF Idle, Owing, Answering
<1>. QED  BY Zenon, <1>1, <1>2 DEF Behind

\* The client gets its rows
LEMMA ReplyStep ==
  ASSUME Steady, Quiet, Context, NEW t \in Tasks, Reply(t)
  PROVE  Steady' /\ Quiet'
<1>1. /\ task[t].pc = "reply" /\ task' = [task EXCEPT ![t] = Idle]
      /\ UNCHANGED <<engines, cache, issued, acked>>
  BY Zenon DEF Reply
<1>2. DOMAIN task = Tasks
  BY Zenon DEF Steady, Cached
<1>3. Moves(t) /\ task'[t] = Idle
  BY Zenon, <1>1, <1>2, BecomesIs
<1>4. UNCHANGED <<engines, acked>> /\ cache' = cache /\ issued' = issued /\ log' = log
  BY <1>1 DEF engines
<1>5. /\ task[t].pc \notin Owing /\ task[t].pc \notin {"send", "send_range", "cache_clear"}
      /\ task[t] # Idle /\ task'[t].pc \in {"idle"} \cup Answering
  BY <1>1, <1>3 DEF Owing, Idle
<1>6. /\ cache' \in [Keys -> Cells] /\ (~caching => \A x \in Keys : cache'[x] = Absent)
      /\ issued' \in 0 .. MaxRequests
  BY Zenon, <1>4 DEF Steady, Cached
<1>7. Behind(t)'
  BY Zenon, <1>3, IdleBehind
<1>8. Steady'
  BY Zenon, <1>3, <1>4, <1>5, <1>6, <1>7, LocalStep
<1>9. Quiet'
  BY Zenon, <1>3, <1>4, <1>5, RestStep
<1>. QED  BY Zenon, <1>8, <1>9

\* A scan reads an engine
LEMMA ScanEngineStep ==
  ASSUME Steady, Quiet, Context, NEW t \in Tasks, ScanEngine(t)
  PROVE  Steady' /\ Quiet'
<1>. DEFINE old == task[t].rows
            f == task[t].floor
<1>a. PICK e \in First(task[t].todo) :
        task' = [task EXCEPT ![t] =
                   [pc |-> IF @.todo = {e} THEN "reply" ELSE "scan",
                    todo |-> @.todo \ {e}, floor |-> @.floor,
                    rows |-> [k \in {x \in Table : x \in DOMAIN old \/ EngineOf[x] = e} |->
                                IF EngineOf[k] = e THEN db[e][k] ELSE old[k]]]]
  BY Zenon DEF ScanEngine
<1>. DEFINE R == [k \in {x \in Table : x \in DOMAIN old \/ EngineOf[x] = e} |->
                    IF EngineOf[k] = e THEN db[e][k] ELSE old[k]]
            r == [pc |-> IF task[t].todo = {e} THEN "reply" ELSE "scan",
                  todo |-> task[t].todo \ {e}, floor |-> f, rows |-> R]
<1>0. /\ DOMAIN task = Tasks /\ Rec(task[t]) /\ Stored /\ Acked
      /\ "floor" \in DOMAIN task[t] => \A k \in Keys : f[k] <= acked[k]
      /\ task[t].pc \in Answering /\ ~(caching /\ overlap) =>
           \A k \in DOMAIN old : Known(log[EngineOf[k]], k, f[k], old[k])
  BY Zenon DEF Steady, Cached, Behind
<1>1. /\ task[t].pc = "scan" /\ task' = [task EXCEPT ![t] = r]
      /\ UNCHANGED <<engines, cache, issued, acked>>
  BY <1>a DEF ScanEngine
<1>2. Moves(t) /\ task'[t] = r
  BY Zenon, <1>0, <1>1, BecomesIs
<1>3. /\ task[t].todo \in (SUBSET Engines) \ {{}} /\ f \in [Keys -> Nat] /\ "floor" \in DOMAIN task[t]
      /\ task[t].pc \in Answering /\ DOMAIN old \subseteq Table
  BY <1>0, <1>1 DEF Rec, Answering
<1>4. e \in task[t].todo
  BY DEF First
<1>. HIDE DEF old, f
<1>5. DOMAIN R \subseteq Table
  OBVIOUS
<1>6. \A k \in DOMAIN R : /\ EngineOf[k] = e => R[k] = db[EngineOf[k]][k]
                          /\ EngineOf[k] # e => R[k] = old[k] /\ k \in DOMAIN old
  OBVIOUS
<1>. HIDE DEF R
<1>7. /\ Rec(r) /\ r.pc \in Answering /\ r.floor = f /\ r.rows = R
      /\ r.pc \notin Owing /\ r.pc # "fill"
  <2>1. task[t].todo # {e} => task[t].todo \ {e} \in (SUBSET Engines) \ {{}}
    BY <1>3, <1>4
  <2>. QED  BY <1>3, <1>5, <2>1 DEF Rec, Reading, Writing, Owing, Answering
<1>. HIDE DEF r
<1>8. UNCHANGED <<engines, acked>> /\ cache' = cache /\ issued' = issued /\ log' = log /\ acked' = acked
  BY <1>1 DEF engines
<1>9. caching' = caching /\ (overlap => overlap')
  BY Zenon, ContextIs
<1>10. Behind(t)'
  <2>1. \A k \in Keys : f[k] <= acked'[k]
    BY Zenon, <1>0, <1>3, <1>8
  <2>2. ~(caching /\ overlap) => \A k \in DOMAIN R : Known(log[EngineOf[k]], k, f[k], R[k])
    <3>. SUFFICES ASSUME ~(caching /\ overlap), NEW k \in DOMAIN R
                  PROVE  Known(log[EngineOf[k]], k, f[k], R[k])
      OBVIOUS
    <3>1. k \in Keys /\ f[k] \in Nat
      BY <1>3, <1>5, RowConstants
    <3>2. f[k] <= acked[k]
      BY Zenon, <1>0, <1>3, <3>1
    <3>3. Known(log[EngineOf[k]], k, f[k], db[EngineOf[k]][k])
      BY Zenon, <1>0, <3>1, <3>2, HeldKnown
    <3>. QED  BY Zenon, <1>0, <1>3, <1>6, <3>3
  <2>3. ~(caching' /\ overlap') => \A k \in DOMAIN R : Known(log'[EngineOf[k]], k, f[k], R[k])
    BY Zenon, <1>8, <1>9, <2>2
  <2>. QED  BY Zenon, <1>2, <1>7, <2>1, <2>3 DEF Behind
<1>11. /\ task[t].pc \notin Owing /\ task[t].pc \notin {"send", "send_range", "cache_clear"}
       /\ task[t] # Idle /\ task'[t].pc \in {"idle"} \cup Answering
  BY <1>1, <1>2, <1>7 DEF Owing, Idle
<1>12. /\ cache' \in [Keys -> Cells] /\ (~caching => \A x \in Keys : cache'[x] = Absent)
       /\ issued' \in 0 .. MaxRequests
  BY Zenon, <1>8 DEF Steady, Cached
<1>13. Steady'
  BY Zenon, <1>2, <1>8, <1>10, <1>11, <1>12, LocalStep
<1>14. Quiet'
  BY Zenon, <1>2, <1>8, <1>11, RestStep
<1>. QED  BY Zenon, <1>13, <1>14

\* Every ticket has completed, and the request is acknowledged
LEMMA SettleStep ==
  ASSUME Steady, Quiet, Context, NEW t \in Tasks, Settle(t)
  PROVE  Steady' /\ Quiet'
<1>. DEFINE T == task[t].tickets
            N(k) == {n \in acked[k] + 1 .. MaxOps :
                       <<EngineOf[k], n>> \in T /\ k \in log[EngineOf[k]][n].keys}
<1>0. /\ DOMAIN task = Tasks /\ Stored /\ Acked /\ Awaited
      /\ task[t].pc \in Owing => \A w \in T : w \in Engines \X Nat /\ w[2] \in 1 .. Len(log[w[1]])
  BY Zenon DEF Steady, Cached, Behind
<1>1. /\ task[t].pc = "settle" /\ \A w \in T : w[2] \in completed[w[1]]
      /\ acked' = [k \in Keys |-> IF N(k) = {} THEN acked[k] ELSE CHOOSE n \in N(k) : TRUE]
      /\ task' = [task EXCEPT ![t] = Idle]
      /\ UNCHANGED <<engines, cache, issued>>
  BY Zenon DEF Settle, Told
<1>2. Moves(t) /\ task'[t] = Idle
  BY Zenon, <1>0, <1>1, BecomesIs
<1>3. UNCHANGED engines /\ cache' = cache /\ issued' = issued /\ log' = log /\ applied' = applied
      /\ completed' = completed
  BY <1>1 DEF engines
<1>4. /\ task[t].pc \in Owing /\ task[t].pc \notin {"send", "send_range", "cache_clear"}
      /\ task[t] # Idle /\ task'[t].pc \in {"idle"} \cup Answering
  BY <1>1, <1>2 DEF Owing, Idle
<1>5. \A k \in Keys : /\ EngineOf[k] \in Engines /\ acked[k] \in Nat
                      /\ acked[k] # 0 => acked[k] \in completed[EngineOf[k]] /\ k \in log[EngineOf[k]][acked[k]].keys
  BY RowConstants, <1>0 DEF Acked
<1>6. \A e \in Engines : /\ completed[e] \subseteq 1 .. applied[e] /\ applied[e] \in Nat
                         /\ applied[e] <= Len(log[e]) /\ Len(log[e]) \in Nat
  BY Zenon, <1>0, StoredTypes
<1>7. ASSUME NEW k \in Keys
      PROVE  /\ acked'[k] \in Nat /\ acked[k] <= acked'[k]
             /\ acked'[k] # 0 => acked'[k] \in completed[EngineOf[k]] /\ k \in log[EngineOf[k]][acked'[k]].keys
  <2>. DEFINE e == EngineOf[k]
  <2>1. acked[k] \in Nat /\ MaxOps \in Nat
    BY Zenon, <1>5, RowConstants
  <2>2. \A n \in N(k) : n \in Nat /\ acked[k] <= n
    BY <2>1
  <2>3. \A n \in N(k) : n \in completed[e] /\ k \in log[e][n].keys
    <3>. SUFFICES ASSUME NEW n \in N(k) PROVE n \in completed[e] /\ k \in log[e][n].keys
      OBVIOUS
    <3>1. <<e, n>>[1] = e /\ <<e, n>>[2] = n
      OBVIOUS
    <3>. QED  BY Zenon, <1>1, <3>1
  <2>4. acked'[k] = IF N(k) = {} THEN acked[k] ELSE CHOOSE n \in N(k) : TRUE
    BY Zenon, <1>1
  <2>. HIDE DEF N
  <2>5. acked'[k] = acked[k] \/ acked'[k] \in N(k)
    BY Zenon, <2>4
  <2>6. acked[k] <= acked[k]
    BY <2>1
  <2>. QED  BY Zenon, <1>5, <2>1, <2>2, <2>3, <2>5, <2>6
<1>8. Stored' /\ Grows
  BY Zenon, <1>0, <1>3, EnginesKept
<1>9. Acked'
  <2>1. acked' \in [Keys -> Nat]
    <3>1. DOMAIN acked' = Keys /\ acked' = [k \in DOMAIN acked' |-> acked'[k]]
      BY <1>1
    <3>. QED  BY <1>7, <3>1
  <2>. QED  BY Zenon, <1>3, <1>7, <2>1 DEF Acked
<1>10. Awaited'
  <2>1. \A u \in Tasks : u # t => task'[u] = task[u]
    BY Zenon, <1>2 DEF Moves
  <2>2. \A e \in Engines : \A n \in applied[e] + 1 .. Len(log[e]) : <<e, n>> \notin T
    <3>. SUFFICES ASSUME NEW e \in Engines, NEW n \in applied[e] + 1 .. Len(log[e]), <<e, n>> \in T
                  PROVE  FALSE
      BY Zenon
    <3>1. <<e, n>>[1] = e /\ <<e, n>>[2] = n
      OBVIOUS
    <3>2. n \in completed[e]
      BY Zenon, <1>1, <3>1
    <3>3. applied[e] \in Nat /\ n \in 1 .. applied[e]
      BY Zenon, <1>6, <3>2
    <3>. QED  BY <3>3
  <2>. QED  BY Zenon, <1>0, <1>3, <2>1, <2>2 DEF Awaited
<1>11. Behind(t)'
  BY Zenon, <1>2, IdleBehind
<1>12. /\ cache' \in [Keys -> Cells] /\ (~caching => \A x \in Keys : cache'[x] = Absent)
       /\ issued' \in 0 .. MaxRequests
  BY Zenon, <1>3 DEF Steady, Cached
<1>13. \A k \in Keys : acked[k] <= acked'[k]
  BY Zenon, <1>7
<1>14. Steady'
  BY Zenon, <1>2, <1>8, <1>9, <1>10, <1>11, <1>12, <1>13, SteadyStep
<1>15. Quiet'
  BY Zenon, <1>2, <1>3, <1>4, RestStep
<1>. QED  BY Zenon, <1>14, <1>15

-----------------------------------------------------------------------------
\* An operation is accepted for t, which keeps its ticket
LEMMA AcceptStep ==
  ASSUME Steady, Context, NEW t \in Tasks, Moves(t), NEW e \in Engines,
         NEW keys \in SUBSET Keys, NEW val \in Cells, Log!Accept(e, keys, val),
         UNCHANGED <<cache, issued, acked>>, Behind(t)',
         task'[t].pc \in Owing, <<e, Len(log[e]) + 1>> \in task'[t].tickets,
         task[t].pc \in Owing => task[t].tickets \subseteq task'[t].tickets
  PROVE  Steady'
<1>0. Stored /\ Acked /\ Awaited
  BY Zenon DEF Steady
<1>1. /\ Stored' /\ Grows /\ UNCHANGED <<applied, db, completed>>
      /\ \A g \in Engines : g # e => log'[g] = log[g]
      /\ Len(log'[e]) = Len(log[e]) + 1
  BY Zenon, <1>0, AcceptIs
<1>2. applied' = applied /\ cache' = cache /\ issued' = issued /\ acked' = acked
  BY <1>1
<1>3. Acked'
  BY Zenon, <1>0, <1>1, <1>2, AckedKept
<1>4. \A k \in Keys : acked[k] <= acked'[k]
  BY <1>0, <1>2 DEF Acked
<1>5. /\ cache' \in [Keys -> Cells] /\ (~caching => \A x \in Keys : cache'[x] = Absent)
      /\ issued' \in 0 .. MaxRequests
  BY Zenon, <1>2 DEF Steady, Cached
<1>6. \A u \in Tasks : task[u].pc \in Owing => task'[u].pc \in Owing /\ task[u].tickets \subseteq task'[u].tickets
  BY Zenon DEF Moves
<1>7. \A g \in Engines : \A n \in applied[g] + 1 .. Len(log'[g]) :
        n \in applied[g] + 1 .. Len(log[g]) \/ <<g, n>> = <<e, Len(log[e]) + 1>>
  <2>. SUFFICES ASSUME NEW g \in Engines, NEW n \in applied[g] + 1 .. Len(log'[g])
                PROVE  n \in applied[g] + 1 .. Len(log[g]) \/ (g = e /\ n = Len(log[e]) + 1)
    BY Zenon
  <2>1. applied[g] \in Nat /\ Len(log[g]) \in Nat
    BY Zenon, <1>0, StoredTypes
  <2>2. CASE g = e
    BY <1>1, <2>1, <2>2
  <2>3. CASE g # e
    BY Zenon, <1>1, <2>3
  <2>. QED  BY Zenon, <2>2, <2>3
<1>8. Awaited'
  BY Zenon, <1>0, <1>2, <1>6, <1>7 DEF Awaited
<1>. QED  BY Zenon, <1>1, <1>3, <1>4, <1>5, <1>8, SteadyStep

\* write_data_op
LEMMA SendRowStep ==
  ASSUME Steady, Quiet, Context, NEW t \in Tasks, SendRow(t)
  PROVE  Steady' /\ Quiet'
<1>. DEFINE k == task[t].key
            e == EngineOf[k]
            v == task[t].val
            C == task[t].cols
            n == Len(log[e]) + 1
            r == [pc |-> "settle", key |-> k, cols |-> C, tickets |-> {<<e, n>>}]
<1>0. DOMAIN task = Tasks /\ Rec(task[t]) /\ Stored /\ cache \in [Keys -> Cells]
  BY Zenon DEF Steady, Cached, Behind
<1>1. /\ task[t].pc = "send" /\ Log!Accept(e, {k}, v) /\ task' = [task EXCEPT ![t] = r]
      /\ UNCHANGED <<cache, issued, acked>>
  BY DEF SendRow
<1>2. Moves(t) /\ task'[t] = r
  BY Zenon, <1>0, <1>1, BecomesIs
<1>3. k \in Table /\ v \in Cells /\ task[t].pc \in Writing
  BY <1>0, <1>1 DEF Rec, Writing
<1>4. k \in Keys /\ e \in Engines /\ {k} \in SUBSET Keys
  BY <1>3, RowConstants
<1>5. task[t].pc \notin Owing /\ task[t] # Idle /\ cache' = cache
  BY <1>1 DEF Owing, Idle
<1>6. log[e] \in Seq(Ops) /\ Lasting(log[e]) /\ Len(log[e]) \in Nat
  BY Zenon, <1>0, <1>4, StoredTypes
<1>. HIDE DEF k, v, C, e
<1>7. n \in Nat /\ n \in 1 .. n /\ <<e, n>> \in Engines \X Nat /\ <<e, n>>[1] = e /\ <<e, n>>[2] = n
      /\ n - 1 = Len(log[e])
  BY <1>4, <1>6
<1>8. /\ \A g \in Engines : g # e => log'[g] = log[g]
      /\ log'[e] = Append(log[e], Op(log[e], {k}, v)) /\ Op(log[e], {k}, v) \in Ops
      /\ Len(log'[e]) = n
  BY Zenon, <1>0, <1>1, <1>3, <1>4, AcceptIs
<1>. HIDE DEF n
<1>9. /\ Rec(r) /\ r.pc = "settle" /\ r.key = k /\ r.cols = C /\ r.tickets = {<<e, n>>}
      /\ "floor" \notin DOMAIN r
  BY <1>3 DEF Rec, Reading, Writing, Owing, Answering
<1>. HIDE DEF r
<1>10. Behind(t)'
  <2>1. r.pc # "fill" /\ r.pc \notin Answering
    BY <1>9 DEF Answering
  <2>2. \A w \in r.tickets : w \in Engines \X Nat /\ w[2] \in 1 .. Len(log'[w[1]])
    <3>1. \A w \in r.tickets : w = <<e, n>>
      BY Zenon, <1>9
    <3>2. n \in 1 .. Len(log'[e])
      BY Zenon, <1>7, <1>8
    <3>. QED  BY Zenon, <1>7, <3>1, <3>2
  <2>. QED  BY Zenon, <1>2, <1>9, <2>1, <2>2 DEF Behind
<1>11. Steady'
  <2>1. task'[t].pc \in Owing /\ <<e, Len(log[e]) + 1>> \in task'[t].tickets
    BY <1>2, <1>9 DEF Owing, n
  <2>. QED  BY Zenon, <1>1, <1>2, <1>3, <1>4, <1>5, <1>10, <2>1, AcceptStep
<1>12. ~overlap => Alone(t) /\ Serial
  BY Zenon, <1>5, AloneIs
<1>. DEFINE o == Op(log[e], {k}, v)
<1>13. o \in Ops /\ log'[e] = Append(log[e], o) /\ o.keys = {k} /\ o.val = v
  BY <1>8 DEF Op
<1>. HIDE DEF o
<1>14. \A x \in Keys : Latest(x)' = IF x = k THEN v ELSE Latest(x)
  <2>. SUFFICES ASSUME NEW x \in Keys PROVE Latest(x)' = IF x = k THEN v ELSE Latest(x)
    OBVIOUS
  <2>1. CASE EngineOf[x] = e
    <3>1. Log!Shown(Append(log[e], o), 1 .. Len(log[e]) + 1, x)
            = IF x \in o.keys THEN o.val ELSE Log!Shown(log[e], 1 .. Len(log[e]), x)
      BY Zenon, <1>6, <1>13, ShownAfter
    <3>2. Latest(x)' = Log!Shown(log'[e], 1 .. Len(log'[e]), x) /\ Latest(x) = Log!Shown(log[e], 1 .. Len(log[e]), x)
      BY Zenon, <2>1 DEF Latest
    <3>3. x \in o.keys <=> x = k
      BY <1>13
    <3>. QED  BY Zenon, <1>8, <1>13, <3>1, <3>2, <3>3 DEF n
  <2>2. CASE EngineOf[x] # e
    <3>1. EngineOf[x] \in Engines /\ x # k
      BY <2>2, RowConstants DEF e
    <3>. QED  BY Zenon, <1>8, <2>2, <3>1 DEF Latest
  <2>. QED  BY Zenon, <2>1, <2>2
<1>15. ~overlap => \A x \in Keys : cache'[x] \in {Absent, Latest(x)'}
  <2>. SUFFICES ASSUME ~overlap, NEW x \in Keys PROVE cache'[x] \in {Absent, Latest(x)'}
    OBVIOUS
  <2>1. CASE x = k
    <3>1. cache[k] = IF caching THEN v ELSE Absent
      BY Zenon, <1>1, <1>12 DEF Serial, Works, k, v
    <3>. QED  BY Zenon, <1>5, <1>14, <2>1, <3>1
  <2>2. CASE x # k
    <3>1. \A u \in Tasks : ~Between(u, x)
      BY <1>1, <1>12, <2>2 DEF Alone, Between, Idle, k
    <3>2. cache[x] \in {Absent, Latest(x)}
      BY Zenon, <1>12, <3>1 DEF Serial
    <3>. QED  BY Zenon, <1>5, <1>14, <2>2, <3>2
  <2>. QED  BY Zenon, <2>1, <2>2
<1>16. ~overlap => Works(t)'
  <2>. SUFFICES ASSUME ~overlap PROVE Works(t)'
    OBVIOUS
  <2>1. Merges(v, C, Latest(k))
    BY Zenon, <1>3, <1>12 DEF Serial, Works, k, v, C
  <2>2. log'[e][n] = o
    BY <1>6, <1>13 DEF n
  <2>3. Log!Shown(log'[e], 1 .. n - 1, k) = Latest(k)
    <3>1. Len(log[e]) \in 0 .. Len(log[e])
      BY <1>6
    <3>2. Log!Shown(Append(log[e], o), 1 .. Len(log[e]), k) = Log!Shown(log[e], 1 .. Len(log[e]), k)
      <4>1. log[e] \in Seq(Ops) /\ Lasting(log[e]) /\ o \in Ops
        BY Zenon, <1>6, <1>13
      <4>. QED  BY Zenon, <1>4, <3>1, <4>1, ShownBefore
    <3>. QED  BY Zenon, <1>7, <1>13, <3>2 DEF Latest, e
  <2>4. Merges(log'[e][n].val, C, Log!Shown(log'[e], 1 .. n - 1, k))
    BY Zenon, <1>13, <2>1, <2>2, <2>3
  <2>5. \A w \in r.tickets : Merges(log'[w[1]][w[2]].val, r.cols, Log!Shown(log'[w[1]], 1 .. w[2] - 1, r.key))
    BY Zenon, <1>7, <1>9, <2>4
  <2>6. r.pc \notin {"fill", "send"} /\ r.pc \notin Writing
    BY <1>9 DEF Writing
  <2>. QED  BY Zenon, <1>2, <2>5, <2>6 DEF Works
<1>17. overlap => overlap'
  BY Zenon, ContextIs
<1>18. Quiet'
  BY Zenon, <1>2, <1>12, <1>15, <1>16, <1>17, QuietStep
<1>. QED  BY Zenon, <1>11, <1>18

\* delete_data_prefix, an engine
LEMMA SendRangeStep ==
  ASSUME Steady, Quiet, Context, NEW t \in Tasks, SendRange(t)
  PROVE  Steady' /\ Quiet'
<1>a. PICK e \in First(task[t].todo) :
        /\ Log!Accept(e, Table, Absent)
        /\ task' = [task EXCEPT ![t] =
                      [pc |-> IF @.todo = {e} THEN "cache_clear" ELSE "send_range",
                       todo |-> @.todo \ {e},
                       tickets |-> @.tickets \cup {<<e, Len(log[e]) + 1>>}]]
  BY Zenon DEF SendRange
<1>. DEFINE T == task[t].tickets
            n == Len(log[e]) + 1
            r == [pc |-> IF task[t].todo = {e} THEN "cache_clear" ELSE "send_range",
                  todo |-> task[t].todo \ {e}, tickets |-> T \cup {<<e, n>>}]
<1>0. /\ DOMAIN task = Tasks /\ Rec(task[t]) /\ Stored
      /\ task[t].pc \in Owing => \A w \in T : w \in Engines \X Nat /\ w[2] \in 1 .. Len(log[w[1]])
  BY Zenon DEF Steady, Cached, Behind
<1>1. /\ task[t].pc = "send_range" /\ Log!Accept(e, Table, Absent) /\ task' = [task EXCEPT ![t] = r]
      /\ UNCHANGED <<cache, issued, acked>>
  BY <1>a DEF SendRange
<1>2. Moves(t) /\ task'[t] = r
  BY Zenon, <1>0, <1>1, BecomesIs
<1>3. task[t].todo \in (SUBSET Engines) \ {{}} /\ task[t].pc \in Owing /\ task[t] # Idle
  BY <1>0, <1>1 DEF Rec, Owing, Idle
<1>4. e \in task[t].todo
  BY DEF First
<1>5. e \in Engines /\ Table \in SUBSET Keys /\ Absent \in Cells
  BY <1>3, <1>4, RowConstants DEF Cells
<1>6. log[e] \in Seq(Ops) /\ Lasting(log[e]) /\ Len(log[e]) \in Nat
  BY Zenon, <1>0, <1>5, StoredTypes
<1>. HIDE DEF T
<1>7. n \in Nat /\ n \in 1 .. n /\ <<e, n>> \in Engines \X Nat /\ <<e, n>>[1] = e /\ <<e, n>>[2] = n
  BY <1>5, <1>6
<1>8. Stored' /\ Grows /\ Len(log'[e]) = n
  BY Zenon, <1>0, <1>1, <1>5, AcceptIs
<1>. HIDE DEF n
<1>9. /\ Rec(r) /\ r.pc \in {"cache_clear", "send_range"} /\ r.tickets = T \cup {<<e, n>>}
      /\ "floor" \notin DOMAIN r
  <2>1. task[t].todo # {e} => task[t].todo \ {e} \in (SUBSET Engines) \ {{}}
    BY <1>3, <1>4
  <2>. QED  BY <2>1 DEF Rec, Reading, Writing, Owing, Answering
<1>. HIDE DEF r
<1>10. Behind(t)'
  <2>1. r.pc # "fill" /\ r.pc \notin Answering
    BY <1>9 DEF Answering
  <2>2. \A w \in T : w \in Engines \X Nat /\ w[2] \in 1 .. Len(log'[w[1]])
    <3>. SUFFICES ASSUME NEW w \in T PROVE w \in Engines \X Nat /\ w[2] \in 1 .. Len(log'[w[1]])
      OBVIOUS
    <3>1. w \in Engines \X Nat /\ w[2] \in 1 .. Len(log[w[1]])
      BY Zenon, <1>0, <1>3
    <3>2. w[1] \in Engines
      BY <3>1
    <3>3. Len(log[w[1]]) <= Len(log'[w[1]]) /\ Len(log[w[1]]) \in Nat
      BY Zenon, <1>0, <1>8, <3>2, StoredTypes DEF Grows
    <3>4. Len(log'[w[1]]) \in Nat
      BY <1>8, <3>2 DEF Stored
    <3>. QED  BY <3>1, <3>3, <3>4
  <2>3. n \in 1 .. Len(log'[e])
    BY Zenon, <1>7, <1>8
  <2>4. \A w \in r.tickets : w \in T \/ w = <<e, n>>
    BY Zenon, <1>9
  <2>5. \A w \in r.tickets : w \in Engines \X Nat /\ w[2] \in 1 .. Len(log'[w[1]])
    BY Zenon, <1>7, <2>2, <2>3, <2>4
  <2>. QED  BY Zenon, <1>2, <1>9, <2>1, <2>5 DEF Behind
<1>11. Steady'
  <2>1. /\ task'[t].pc \in Owing /\ <<e, Len(log[e]) + 1>> \in task'[t].tickets
        /\ task[t].tickets \subseteq task'[t].tickets
    BY <1>2, <1>9 DEF Owing, n, T
  <2>. QED  BY Zenon, <1>1, <1>2, <1>5, <1>10, <2>1, AcceptStep
<1>12. ~overlap => Alone(t)
  BY Zenon, <1>3, AloneIs
<1>13. \A x \in Keys : Between(t, x)'
  <2>1. task'[t].pc \in {"send_range", "cache_clear"}
    BY <1>2, <1>9
  <2>. QED  BY Zenon, <2>1 DEF Between
<1>14. Works(t)'
  <2>1. r.pc \notin {"fill", "send", "settle"} /\ r.pc \notin Writing
    BY <1>9 DEF Writing
  <2>. QED  BY Zenon, <1>2, <2>1 DEF Works
<1>15. Quiet'
  BY Zenon, <1>2, <1>12, <1>13, <1>14, QuietStep
<1>. QED  BY Zenon, <1>11, <1>15

\* The pipelines apply operations and complete tickets
LEMMA PipelinesStep ==
  ASSUME Steady, Quiet, Context, Pipelines
  PROVE  Steady' /\ Quiet'
<1>0. Stored /\ Acked /\ Awaited
  BY Zenon DEF Steady
<1>1. PICK e \in Engines : Log!Apply(e) \/ Log!Complete(e)
  BY Zenon DEF Pipelines
<1>2. cache' = cache /\ task' = task /\ issued' = issued /\ acked' = acked
  BY DEF Pipelines
<1>3. Stored' /\ Grows /\ log' = log
  BY Zenon, <1>0, <1>1, PipelinesIs
<1>4. caching' = caching /\ overlap' \in BOOLEAN /\ (overlap => overlap') /\ Solo'
  BY Zenon, ContextIs
<1>5. Acked'
  BY Zenon, <1>0, <1>2, <1>3, AckedKept
<1>6. Awaited'
  <2>1. \A g \in Engines : \A n \in applied'[g] + 1 .. Len(log[g]) : n \in applied[g] + 1 .. Len(log[g])
    <3>. SUFFICES ASSUME NEW g \in Engines, NEW n \in applied'[g] + 1 .. Len(log[g])
                  PROVE  n \in applied[g] + 1 .. Len(log[g])
      OBVIOUS
    <3>1. applied[g] \in Nat /\ Len(log[g]) \in Nat /\ applied[g] <= applied'[g]
      BY Zenon, <1>0, <1>3, StoredTypes DEF Grows
    <3>2. applied'[g] \in Nat
      BY <1>3 DEF Stored
    <3>. QED  BY <3>1, <3>2
  <2>. QED  BY Zenon, <1>0, <1>2, <1>3, <2>1 DEF Awaited
<1>7. \A t \in Tasks : Behind(t)'
  <2>. SUFFICES ASSUME NEW t \in Tasks PROVE Behind(t)'
    OBVIOUS
  <2>1. Behind(t) /\ task'[t] = task[t]
    BY Zenon, <1>2 DEF Steady
  <2>2. \A k \in Keys : acked[k] <= acked'[k]
    BY <1>0, <1>2 DEF Acked
  <2>. QED  BY Zenon, <1>0, <1>3, <1>4, <1>5, <2>1, <2>2, BehindKept
<1>8. Cached'
  BY Zenon, <1>2, <1>4 DEF Steady, Cached
<1>9. Quiet'
  <2>1. Serial => Serial'
    BY Zenon, <1>2, <1>3, <1>4 DEF Serial, Works, Between, Latest
  <2>. QED  BY Zenon, <1>4, <2>1 DEF Quiet
<1>. QED  BY Zenon, <1>3, <1>5, <1>6, <1>7, <1>8, <1>9 DEF Steady

-----------------------------------------------------------------------------
\* No request and no operation
LEMMA InitSteady ==
  ASSUME Init
  PROVE  Steady /\ Quiet
<1>1. /\ log = [e \in Engines |-> <<>>] /\ applied = [e \in Engines |-> 0]
      /\ db = [e \in Engines |-> [k \in Keys |-> Absent]] /\ completed = [e \in Engines |-> {}]
  BY DEF Init, Log!Init
<1>2. /\ cache = [k \in Keys |-> Absent] /\ task = [t \in Tasks |-> Idle] /\ issued = 0
      /\ acked = [k \in Keys |-> 0] /\ caching \in Caching /\ overlap = FALSE
  BY Zenon DEF Init
<1>3. \A e \in Engines : log[e] = <<>> /\ log[e] \in Seq(Ops) /\ Len(log[e]) = 0 /\ applied[e] = 0
  <2>1. <<>> \in Seq(Ops) /\ Len(<<>>) = 0
    OBVIOUS
  <2>. QED  BY Zenon, <1>1, <2>1
<1>4. \A k : Log!Shown(<<>>, 1 .. 0, k) = Absent
  <2>. SUFFICES ASSUME NEW k PROVE Log!Shown(<<>>, 1 .. 0, k) = Absent
    OBVIOUS
  <2>1. 0 \in Nat /\ Leaves(<<>>, 0, k, Absent)
    BY DEF Leaves
  <2>. QED  BY Zenon, <2>1, ShownIs
<1>a. \A e \in Engines : Lasting(log[e])
  BY <1>3, <1>4 DEF Lasting, Leaves
<1>5. Stored
  <2>1. db = [e \in Engines |-> [k \in Keys |-> Log!Shown(log[e], 1 .. applied[e], k)]]
    <3>1. \A e \in Engines, k \in Keys : Log!Shown(log[e], 1 .. applied[e], k) = Absent
      BY Zenon, <1>3, <1>4
    <3>. QED  BY <1>1, <3>1
  <2>2. /\ DOMAIN log = Engines /\ DOMAIN completed = Engines /\ applied \in [Engines -> Nat]
        /\ \A e \in Engines : completed[e] = {}
    BY <1>1
  <2>3. \A e \in Engines : Len(log[e]) <= MaxOps /\ applied[e] <= Len(log[e])
    <3>1. 0 <= MaxOps /\ 0 <= 0
      BY RowConstants
    <3>. QED  BY Zenon, <1>3, <3>1
  <2>. QED  BY Zenon, <1>3, <1>a, <2>1, <2>2, <2>3 DEF Stored
<1>6. Acked
  BY <1>2 DEF Acked
<1>7. Cached
  <2>1. cache \in [Keys -> Cells] /\ DOMAIN task = Tasks /\ \A k \in Keys : cache[k] = Absent
    BY <1>2 DEF Cells
  <2>2. issued \in 0 .. MaxRequests
    BY <1>2, RowConstants
  <2>3. caching \in BOOLEAN /\ overlap \in BOOLEAN
    BY Zenon, <1>2, RowConstants
  <2>. QED  BY Zenon, <2>1, <2>2, <2>3 DEF Cached
<1>8. Awaited
  BY <1>3 DEF Awaited
<1>9. \A t \in Tasks : task[t] = Idle /\ Rec(task[t])
  BY <1>2 DEF Rec, Idle, Reading, Writing, Owing, Answering
<1>10. \A t \in Tasks : Behind(t)
  <2>1. /\ Idle.pc \notin Owing /\ Idle.pc \notin Answering /\ Idle.pc # "fill"
        /\ "floor" \notin DOMAIN Idle
    BY DEF Idle, Owing, Answering
  <2>. QED  BY Zenon, <1>9, <2>1 DEF Behind
<1>11. Solo
  BY Zenon, <1>9 DEF Solo
<1>12. Serial
  <2>1. \A k \in Keys : cache[k] = Absent
    BY <1>2
  <2>2. Idle.pc \notin {"fill", "send", "settle"} \cup Writing
    BY DEF Idle, Writing
  <2>3. \A t \in Tasks : Works(t)
    BY Zenon, <1>9, <2>2 DEF Works
  <2>. QED  BY Zenon, <2>1, <2>3 DEF Serial
<1>. QED  BY Zenon, <1>5, <1>6, <1>7, <1>8, <1>10, <1>11, <1>12 DEF Steady, Quiet

\* Every step keeps both invariants
LEMMA NextSteady ==
  ASSUME Steady, Quiet, [Next]_vars
  PROVE  Steady' /\ Quiet'
<1>1. CASE Next
  <2>1. Context
    BY Zenon, <1>1 DEF Next, Context
  <2>2. CASE Pipelines
    BY Zenon, <2>1, <2>2, PipelinesStep
  <2>3. ASSUME NEW t \in Tasks, Begin(t) PROVE Steady' /\ Quiet'
    BY Zenon, <2>1, <2>3, BeginKeeps
  <2>4. ASSUME NEW t \in Tasks, Step(t) PROVE Steady' /\ Quiet'
    BY Zenon, <2>1, <2>4, GetHitStep, GetMissStep, ReadEngineStep, FillCacheStep,
       ChangeCacheStep, SendRowStep, SendRangeStep, ClearCacheStep, SettleStep,
       ScanEngineStep, ReplyStep DEF Step
  <2>. QED  BY Zenon, <1>1, <2>2, <2>3, <2>4 DEF Next
<1>2. CASE UNCHANGED vars
  <2>1. /\ log' = log /\ applied' = applied /\ db' = db /\ completed' = completed
        /\ cache' = cache /\ caching' = caching /\ task' = task /\ issued' = issued
        /\ acked' = acked /\ overlap' = overlap
    BY <1>2 DEF vars, engines
  <2>2. Steady'
    BY Zenon, <2>1 DEF Steady, Stored, Acked, Cached, Awaited, Behind
  <2>3. Quiet'
    BY Zenon, <2>1 DEF Quiet, Solo, Serial, Works, Between, Latest
  <2>. QED  BY Zenon, <2>2, <2>3
<1>. QED  BY Zenon, <1>1, <1>2

\* Both hold in every reachable state
LEMMA Reachable == Spec => [](Steady /\ Quiet)
<1>1. Init => Steady /\ Quiet
  BY Zenon, InitSteady
<1>2. (Steady /\ Quiet) /\ [Next]_vars => (Steady /\ Quiet)'
  BY Zenon, NextSteady
<1>. QED  BY <1>1, <1>2, PTL DEF Spec

\* Every variable keeps its type, the record of every request and the logs of
\* the engines included: nothing but rows is in the engines and in the cache,
\* without a row cache nothing is in it, and a request awaits only tickets of
\* operations that its engine has accepted
THEOREM TypeCorrect == Spec => []TypeOK
<1>1. ASSUME Steady PROVE TypeOK
  <2>1. Stored /\ Acked /\ Cached
    BY Zenon, <1>1 DEF Steady
  <2>2. db \in [Engines -> [Keys -> Cells]]
    <3>1. \A e \in Engines, k \in Keys : Log!Shown(log[e], 1 .. applied[e], k) \in Cells
      <4>. SUFFICES ASSUME NEW e \in Engines, NEW k \in Keys
                    PROVE  Log!Shown(log[e], 1 .. applied[e], k) \in Cells
        OBVIOUS
      <4>1. log[e] \in Seq(Ops) /\ Lasting(log[e]) /\ Len(log[e]) \in Nat /\ applied[e] \in Nat /\ applied[e] <= Len(log[e])
        BY Zenon, <2>1, StoredTypes
      <4>2. applied[e] \in 0 .. Len(log[e])
        BY <4>1
      <4>. QED  BY Zenon, <4>1, <4>2, ShownCell
    <3>. QED  BY <2>1, <3>1 DEF Stored
  <2>3. acked \in [Keys -> 0 .. MaxOps]
    <3>1. \A k \in Keys : acked[k] \in 0 .. MaxOps
      <4>. SUFFICES ASSUME NEW k \in Keys PROVE acked[k] \in 0 .. MaxOps
        OBVIOUS
      <4>1. EngineOf[k] \in Engines
        BY RowConstants
      <4>2. LET e == EngineOf[k] IN
              /\ completed[e] \subseteq 1 .. applied[e] /\ applied[e] \in Nat
              /\ applied[e] <= Len(log[e]) /\ Len(log[e]) \in Nat /\ Len(log[e]) <= MaxOps
        BY Zenon, <2>1, <4>1, StoredTypes
      <4>3. acked[k] \in Nat /\ (acked[k] # 0 => acked[k] \in completed[EngineOf[k]])
        BY <2>1 DEF Acked
      <4>. QED  BY <4>2, <4>3, RowConstants
    <3>. QED  BY <2>1, <3>1 DEF Acked
  <2>4. ASSUME NEW e \in Engines
        PROVE  /\ log[e] \in Seq(Ops) /\ Len(log[e]) <= MaxOps
               /\ applied[e] \in 0 .. Len(log[e]) /\ completed[e] \subseteq 1 .. applied[e]
    <3>1. /\ log[e] \in Seq(Ops) /\ Len(log[e]) \in Nat /\ Len(log[e]) <= MaxOps
          /\ applied[e] \in Nat /\ applied[e] <= Len(log[e]) /\ completed[e] \subseteq 1 .. applied[e]
      BY Zenon, <2>1, StoredTypes
    <3>2. applied[e] \in 0 .. Len(log[e])
      BY <3>1
    <3>. QED  BY Zenon, <3>1, <3>2
  <2>5. ASSUME NEW t \in Tasks
        PROVE  /\ Rec(task[t])
               /\ task[t].pc \in Owing =>
                    \A w \in task[t].tickets : w \in Engines \X Nat /\ w[2] \in 1 .. Len(log[w[1]])
    BY Zenon, <1>1 DEF Steady, Behind
  <2>. QED  BY Zenon, <2>1, <2>2, <2>3, <2>4, <2>5 DEF TypeOK, Stored, Cached
<1>. QED  BY <1>1, Reachable, PTL

\* A SELECT or a scan returns, for every row, what the writes acknowledged
\* before it began or later ones left, however requests overlap without a row
\* cache, and with one as long as they do not
THEOREM ReadsOwnWrites == Spec => []ReadYourWrites
<1>1. ASSUME Steady PROVE ReadYourWrites
  <2>. SUFFICES ASSUME ~(caching /\ overlap), NEW t \in Tasks, task[t].pc = "reply",
                       NEW k \in DOMAIN task[t].rows
                PROVE  Fresh(k, task[t].floor[k], task[t].rows[k])
    BY Zenon DEF ReadYourWrites, StrictReadYourWrites
  <2>1. task[t].pc \in Answering
    BY DEF Answering
  <2>2. Known(log[EngineOf[k]], k, task[t].floor[k], task[t].rows[k])
    BY Zenon, <1>1, <2>1 DEF Steady, Behind
  <2>. QED  BY Zenon, <2>2 DEF Known, Fresh
<1>. QED  BY <1>1, Reachable, PTL

\* An UPDATE that no request overlaps keeps the columns it does not assign
THEOREM UpdatesMerge == Spec => []UpdateMerges
<1>1. ASSUME Quiet PROVE UpdateMerges
  BY Zenon, <1>1 DEF Quiet, Serial, Works, Merges, UpdateMerges
<1>. QED  BY <1>1, Reachable, PTL

\* After requests that did not overlap, once every pipeline is at rest, an
\* entry of the row cache is the row its engine holds
THEOREM CacheIsCoherent == Spec => []CacheCoherent
<1>1. ASSUME Steady, Quiet PROVE CacheCoherent
  <2>. SUFFICES ASSUME ~overlap, \A t \in Tasks : task[t] = Idle,
                       \A e \in Engines : applied[e] = Len(log[e]),
                       NEW k \in Keys, cache[k] # Absent
                PROVE  cache[k] = db[EngineOf[k]][k]
    BY Zenon DEF CacheCoherent
  <2>1. \A t \in Tasks : ~Between(t, k)
    BY DEF Between, Idle
  <2>2. cache[k] = Latest(k)
    BY Zenon, <1>1, <2>1 DEF Quiet, Serial
  <2>3. EngineOf[k] \in Engines
    BY RowConstants
  <2>4. db[EngineOf[k]][k] = Log!Shown(log[EngineOf[k]], 1 .. applied[EngineOf[k]], k)
    BY Zenon, <1>1, <2>3, StoredTypes DEF Steady
  <2>. QED  BY Zenon, <2>2, <2>3, <2>4 DEF Latest
<1>. QED  BY <1>1, Reachable, PTL
=============================================================================
