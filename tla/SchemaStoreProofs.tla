------------------------- MODULE SchemaStoreProofs --------------------------
(***************************************************************************)
(* What each step of SchemaStore does, and that every step keeps the types *)
(* of its state, for any tables, columns, engines and tasks.  A task's     *)
(* record is known by its pc.                                              *)
(***************************************************************************)
EXTENDS SchemaStore, TLAPS

\* The steps of get_table
Looking == {"get_table", "read_table", "cache_table"}

\* The fields of a task's record that its pc goes on to use
Rec(r) ==
  /\ "pc" \in DOMAIN r
  /\ r.pc = "idle" => r = Idle
  /\ r.pc \in Looking =>
       /\ "read" \in DOMAIN r
       /\ "stmt" \in DOMAIN r /\ r.stmt \in {"create_table", "drop_table", "insert"}
       /\ r.stmt = "create_table" => "def" \in DOMAIN r /\ r.def \in TableDef
  /\ r.pc \in Looking \cup {"put_table", "put_table_cache", "mirror_table", "delete_table",
                            "table_range", "uncache_table", "unmirror_table",
                            "scan_columns", "mirror_columns", "put_row"} =>
       "table" \in DOMAIN r /\ r.table \in Tables
  /\ r.pc \in {"put_table", "put_table_cache", "mirror_table"} =>
       "def" \in DOMAIN r /\ r.def \in TableDef
  /\ r.pc = "cache_table" => r.read \in TableDef
  /\ r.pc = "put_row" => r.id \in 0 .. MaxDefs
  /\ r.pc = "mirror_columns" => "todo" \in DOMAIN r /\ r.todo \subseteq Cols
  /\ r.pc \in {"unmirror_columns", "unmirror_tables"} => "todo" \in DOMAIN r

\* A request at one of these may have operations in the pipelines
Owing == {"uncache_table", "unmirror_table", "scan_columns", "unmirror_columns",
          "uncache_keyspace", "uncache_tables", "unmirror_keyspace", "scan_tables",
          "unmirror_tables", "settle"}

Ops == [op : {"put"}, table : Tables, id : 0 .. MaxDefs, by : Tasks]
         \cup [op : {"range"}, tables : SUBSET Tables, by : Tasks]
         \cup [op : {"unmirror"}, table : Tables, by : {None}]

\* The operations in a queue
Held(q) == {q[i] : i \in DOMAIN q}

\* TypeOK with the types it leaves open; settle awaits every operation but
\* the removal of a mirror row
Types ==
  /\ TypeOK
  /\ \A t \in Tasks : Rec(task[t])
  /\ \A e \in Engines : queue[e] \in Seq(Ops)
  /\ \A e \in Engines : \A o \in Held(queue[e]) :
       o.op # "unmirror" => o.by \in Tasks /\ task[o.by].pc \in Owing

-----------------------------------------------------------------------------
\* What a queue holds after an operation was sent ...
LEMMA Added ==
  ASSUME NEW S, NEW q \in Seq(S), NEW o \in S
  PROVE  Append(q, o) \in Seq(S) /\ Held(Append(q, o)) = Held(q) \cup {o}
<1>. DEFINE p == Append(q, o)
<1>1. /\ p \in Seq(S) /\ Len(q) \in Nat /\ DOMAIN q = 1 .. Len(q) /\ DOMAIN p = 1 .. Len(q) + 1
      /\ p[Len(q) + 1] = o /\ \A i \in 1 .. Len(q) : p[i] = q[i]
  OBVIOUS
<1>. HIDE DEF p
<1>2. \A i : i \in DOMAIN p <=> i \in DOMAIN q \/ i = Len(q) + 1
  BY <1>1
<1>3. \A x : x \in Held(p) <=> x \in Held(q) \/ x = o
  BY Zenon, <1>1, <1>2 DEF Held
<1>. QED  BY <1>1, <1>3 DEF p

\* ... and after the committer took the first one
LEMMA Taken ==
  ASSUME NEW S, NEW q \in Seq(S), q # <<>>
  PROVE  /\ Head(q) \in S /\ Tail(q) \in Seq(S)
         /\ Held(q) = {Head(q)} \cup Held(Tail(q))
<1>. DEFINE p == Tail(q)
<1>1. /\ Head(q) \in S /\ p \in Seq(S) /\ Len(q) \in Nat \ {0} /\ Head(q) = q[1]
      /\ DOMAIN q = 1 .. Len(q) /\ DOMAIN p = 1 .. Len(q) - 1
      /\ \A i \in 1 .. Len(q) - 1 : p[i] = q[i + 1]
  OBVIOUS
<1>. HIDE DEF p
<1>2. \A x \in Held(q) : x = Head(q) \/ x \in Held(p)
  <2>. SUFFICES ASSUME NEW i \in 1 .. Len(q), i # 1 PROVE q[i] \in Held(p)
    BY <1>1 DEF Held
  <2>1. i - 1 \in 1 .. Len(q) - 1 /\ p[i - 1] = q[i]
    BY <1>1
  <2>. QED  BY Zenon, <1>1, <2>1 DEF Held
<1>3. Head(q) \in Held(q) /\ Held(p) \subseteq Held(q)
  <2>1. 1 \in DOMAIN q /\ \A i \in DOMAIN p : i + 1 \in DOMAIN q /\ p[i] = q[i + 1]
    BY <1>1
  <2>. QED  BY Zenon, <1>1, <2>1 DEF Held
<1>4. \A x : x \in Held(q) <=> x = Head(q) \/ x \in Held(p)
  BY Zenon, <1>2, <1>3
<1>. QED  BY <1>1, <1>4 DEF p

\* Nothing is in an empty queue
LEMMA EmptyHolds == Held(<<>>) = {}
  BY DEF Held

-----------------------------------------------------------------------------
\* What a step of task t does to the tasks
Others(t) == DOMAIN task' = Tasks /\ \A u \in Tasks : u # t => task'[u] = task[u]
Goes(t, q) ==
  /\ task'[t].pc = q /\ DOMAIN task'[t] = DOMAIN task[t]
  /\ "stmt" \in DOMAIN task[t] => task'[t].stmt = task[t].stmt
  /\ "table" \in DOMAIN task[t] => task'[t].table = task[t].table
  /\ "def" \in DOMAIN task[t] => task'[t].def = task[t].def

\* t goes on as get_table returned d
Resolved(t, d) ==
  \/ task'[t] = Idle
  \/ task[t].stmt = "create_table" /\ d = None /\ Goes(t, "put_table")
  \/ task[t].stmt = "drop_table" /\ d # None /\ Goes(t, "delete_table")
  \/ d # None /\ task'[t] = [pc |-> "put_row", table |-> task[t].table, id |-> d.id]

\* The pc of an idle task
LEMMA IdlePc == Idle.pc = "idle" /\ "pc" \in DOMAIN Idle
  BY DEF Idle

\* The pc of a task that awaits its tickets
LEMMA SettlePc == [pc |-> "settle"].pc = "settle"
  OBVIOUS

\* The pc of an INSERT that has found its table
LEMMA PutRowPc == \A T, n : [pc |-> "put_row", table |-> T, id |-> n].pc = "put_row"
  OBVIOUS

\* A task gets a new record
LEMMA BecomesIs ==
  ASSUME Types, NEW t \in Tasks, NEW r, task' = [task EXCEPT ![t] = r]
  PROVE  Others(t) /\ task'[t] = r
  BY DEF Types, TypeOK, Others

\* A record with another pc
LEMMA MovedIs ==
  ASSUME NEW r, "pc" \in DOMAIN r, NEW q, NEW s, s = [r EXCEPT !.pc = q]
  PROVE  /\ s.pc = q /\ DOMAIN s = DOMAIN r
         /\ "stmt" \in DOMAIN r => s.stmt = r.stmt
         /\ "table" \in DOMAIN r => s.table = r.table
         /\ "def" \in DOMAIN r => s.def = r.def
  OBVIOUS

\* The task goes on at q
LEMMA GotoIs ==
  ASSUME Types, NEW t \in Tasks, NEW q, Goto(t, q)
  PROVE  Others(t) /\ Goes(t, q)
<1>1. task' = [task EXCEPT ![t] = [task[t] EXCEPT !.pc = q]]
  BY Zenon DEF Goto
<1>2. Others(t) /\ task'[t] = [task[t] EXCEPT !.pc = q]
  BY Zenon, <1>1, BecomesIs
<1>3. "pc" \in DOMAIN task[t]
  BY DEF Types, Rec
<1>. QED  BY <1>2, <1>3, MovedIs DEF Goes

\* The response leaves
LEMMA FinishIs ==
  ASSUME Types, NEW t \in Tasks, Finish(t)
  PROVE  Others(t) /\ task'[t] = Idle
  BY Zenon, BecomesIs DEF Finish

\* What the three statements on a table do with its definition
LEMMA WithTableIs ==
  ASSUME Types, NEW t \in Tasks, NEW d, WithTable(t, d), task[t].pc \in Looking
  PROVE  Others(t) /\ Resolved(t, d)
<1>. DEFINE r == task[t]
            s == CASE r.stmt = "create_table" /\ d = None -> [r EXCEPT !.pc = "put_table"]
                   [] r.stmt = "drop_table" /\ d # None   -> [r EXCEPT !.pc = "delete_table"]
                   [] r.stmt = "insert" /\ d # None       ->
                        [pc |-> "put_row", table |-> r.table, id |-> d.id]
                   [] OTHER -> Idle
<1>1. task' = [task EXCEPT ![t] = s]
  BY Zenon DEF WithTable
<1>. HIDE DEF s
<1>2. Others(t) /\ task'[t] = s
  BY Zenon, <1>1, BecomesIs
<1>3. "pc" \in DOMAIN r
  BY DEF Types, Rec
<1>4. CASE r.stmt = "create_table" /\ d = None
  <2>1. s = [r EXCEPT !.pc = "put_table"]
    BY <1>4 DEF s
  <2>2. Goes(t, "put_table")
    BY <1>2, <1>3, <2>1, MovedIs DEF Goes
  <2>. QED  BY <1>2, <1>4, <2>2 DEF Resolved
<1>5. CASE r.stmt = "drop_table" /\ d # None
  <2>1. s = [r EXCEPT !.pc = "delete_table"]
    BY <1>5 DEF s
  <2>2. Goes(t, "delete_table")
    BY <1>2, <1>3, <2>1, MovedIs DEF Goes
  <2>. QED  BY <1>2, <1>5, <2>2 DEF Resolved
<1>6. CASE r.stmt = "insert" /\ d # None
  <2>1. s = [pc |-> "put_row", table |-> r.table, id |-> d.id]
    BY <1>6 DEF s
  <2>. QED  BY <1>2, <1>6, <2>1 DEF Resolved
<1>7. CASE /\ ~(r.stmt = "create_table" /\ d = None) /\ ~(r.stmt = "drop_table" /\ d # None)
           /\ ~(r.stmt = "insert" /\ d # None)
  <2>1. s = Idle
    BY Zenon, <1>7 DEF s
  <2>. QED  BY <1>2, <2>1 DEF Resolved
<1>. QED  BY <1>4, <1>5, <1>6, <1>7

\* A statement begins
LEMMA BeginIs ==
  ASSUME Types, NEW t \in Tasks, NEW s \in {"drop_table", "insert"}, NEW k,
         BeginCreateTable(t) \/ BeginOnTable(t, s) \/ BeginOnKeyspace(t, k)
  PROVE  /\ Others(t) /\ task[t] = Idle
         /\ task'[t].pc \in {"get_table", "get_keyspace"} /\ Rec(task'[t])
         /\ UNCHANGED <<ksMeta, ksCache, ksMirror, tbMeta, tbCache, tbMirror, colMirror, rows, queue>>
         /\ made' \in 0 .. MaxDefs
<1>0. made \in 0 .. MaxDefs /\ MaxDefs \in Nat
  BY SchemaConstants DEF Types, TypeOK
<1>1. CASE BeginCreateTable(t)
  <2>1. PICK T \in Tables, C \in (SUBSET Cols) \ {{}} :
          /\ task[t] = Idle /\ made < MaxDefs /\ made' = made + 1
          /\ task' = [task EXCEPT ![t] = [pc |-> "get_table", stmt |-> "create_table", table |-> T,
                                          def |-> [id |-> made + 1, cols |-> C], read |-> None]]
          /\ UNCHANGED <<ks, tb, rows, queue>>
    BY Zenon, <1>1 DEF BeginCreateTable
  <2>2. Others(t) /\ task'[t] = [pc |-> "get_table", stmt |-> "create_table", table |-> T,
                                 def |-> [id |-> made + 1, cols |-> C], read |-> None]
    BY Zenon, <2>1, BecomesIs
  <2>3. [id |-> made + 1, cols |-> C] \in TableDef
    BY <1>0, <2>1 DEF TableDef
  <2>4. Rec(task'[t])
    BY <2>2, <2>3 DEF Rec, Looking
  <2>. QED  BY <1>0, <2>1, <2>2, <2>4 DEF ks, tb
<1>2. CASE BeginOnTable(t, s)
  <2>1. PICK T \in Tables :
          /\ task[t] = Idle
          /\ task' = [task EXCEPT ![t] = [pc |-> "get_table", stmt |-> s, table |-> T, read |-> None]]
          /\ UNCHANGED <<ks, tb, rows, queue, made>>
    BY Zenon, <1>2 DEF BeginOnTable
  <2>2. Others(t) /\ task'[t] = [pc |-> "get_table", stmt |-> s, table |-> T, read |-> None]
    BY Zenon, <2>1, BecomesIs
  <2>3. Rec(task'[t])
    BY <2>2 DEF Rec, Looking
  <2>. QED  BY <1>0, <2>1, <2>2, <2>3 DEF ks, tb
<1>3. CASE BeginOnKeyspace(t, k)
  <2>1. Others(t) /\ task'[t] = [pc |-> "get_keyspace", stmt |-> k]
    BY Zenon, <1>3, BecomesIs DEF BeginOnKeyspace
  <2>2. task'[t].pc = "get_keyspace" /\ "pc" \in DOMAIN task'[t]
    BY <2>1
  <2>3. Rec(task'[t])
    BY Zenon, <2>2 DEF Rec, Looking
  <2>. QED  BY <1>0, <1>3, <2>1, <2>2, <2>3 DEF BeginOnKeyspace, ks, tb
<1>. QED  BY <1>1, <1>2, <1>3

\* get_table, step by step
LEMMA LookupTableIs ==
  ASSUME Types, NEW t \in Tasks, TableHit(t) \/ TableMiss(t) \/ ReadTable(t) \/ CacheTable(t)
  PROVE  /\ Others(t) /\ task[t].pc \in Looking
         /\ UNCHANGED <<ksMeta, ksCache, ksMirror, tbMeta, tbMirror, colMirror, rows, queue, made>>
         /\ \/ task[t].pc = "get_table" /\ Goes(t, "read_table") /\ UNCHANGED tbCache
            \/ /\ task[t].pc = "get_table" /\ tbCache[task[t].table] # None
               /\ Resolved(t, tbCache[task[t].table]) /\ UNCHANGED tbCache
            \/ /\ task[t].pc = "read_table" /\ tbMeta[task[t].table] = None
               /\ Resolved(t, None) /\ UNCHANGED tbCache
            \/ /\ task[t].pc = "read_table" /\ tbMeta[task[t].table] # None
               /\ Goes(t, "cache_table") /\ task'[t].read = tbMeta[task[t].table]
               /\ UNCHANGED tbCache
            \/ /\ task[t].pc = "cache_table" /\ Resolved(t, task[t].read)
               /\ tbCache' = [tbCache EXCEPT ![task[t].table] = task[t].read]
<1>1. CASE TableHit(t)
  <2>1. task[t].pc \in Looking
    BY <1>1 DEF TableHit, Looking
  <2>2. Others(t) /\ Resolved(t, tbCache[task[t].table])
    BY Zenon, <1>1, <2>1, WithTableIs DEF TableHit
  <2>. QED  BY <1>1, <2>1, <2>2 DEF TableHit, ks, tb
<1>2. CASE TableMiss(t)
  BY <1>2, GotoIs DEF TableMiss, ks, tb, Looking
<1>3. CASE ReadTable(t) /\ tbMeta[task[t].table] = None
  <2>1. task[t].pc \in Looking /\ WithTable(t, None)
    BY <1>3 DEF ReadTable, Looking
  <2>2. Others(t) /\ Resolved(t, None)
    BY Zenon, <2>1, WithTableIs
  <2>. QED  BY <1>3, <2>1, <2>2 DEF ReadTable, ks, tb
<1>4. CASE ReadTable(t) /\ tbMeta[task[t].table] # None
  <2>. DEFINE d == tbMeta[task[t].table]
              r == task[t]
  <2>1. task' = [task EXCEPT ![t] = [[r EXCEPT !.pc = "cache_table"] EXCEPT !.read = d]]
    BY Zenon, <1>4 DEF ReadTable, Types, TypeOK
  <2>. DEFINE s == [[r EXCEPT !.pc = "cache_table"] EXCEPT !.read = d]
  <2>. HIDE DEF s
  <2>2. Others(t) /\ task'[t] = s
    BY Zenon, <2>1, BecomesIs DEF s
  <2>3. task[t].pc \in Looking /\ task[t].pc = "read_table"
    BY <1>4 DEF ReadTable, Looking
  <2>4. "pc" \in DOMAIN r /\ "read" \in DOMAIN r
    BY <2>3 DEF Types, Rec
  <2>5. /\ s.pc = "cache_table" /\ DOMAIN s = DOMAIN r /\ s.read = d
        /\ "stmt" \in DOMAIN r => s.stmt = r.stmt
        /\ "table" \in DOMAIN r => s.table = r.table
        /\ "def" \in DOMAIN r => s.def = r.def
    BY <2>4 DEF s
  <2>6. Goes(t, "cache_table") /\ task'[t].read = d
    BY <2>2, <2>5 DEF Goes
  <2>. QED  BY <1>4, <2>2, <2>3, <2>6 DEF ReadTable, ks, tb
<1>5. CASE CacheTable(t)
  <2>1. task[t].pc \in Looking
    BY <1>5 DEF CacheTable, Looking
  <2>2. Others(t) /\ Resolved(t, task[t].read)
    BY Zenon, <1>5, <2>1, WithTableIs DEF CacheTable
  <2>. QED  BY Zenon, <1>5, <2>1, <2>2 DEF CacheTable, ks
<1>. QED  BY Zenon, <1>1, <1>2, <1>3, <1>4, <1>5

\* get_keyspace, step by step
LEMMA LookupKeyspaceIs ==
  ASSUME Types, NEW t \in Tasks,
         KeyspaceHit(t) \/ KeyspaceMiss(t) \/ ReadKeyspace(t) \/ CacheKeyspace(t)
  PROVE  /\ Others(t) /\ task[t].pc \in {"get_keyspace", "read_keyspace", "cache_keyspace"}
         /\ UNCHANGED <<ksMeta, ksMirror, tbMeta, tbCache, tbMirror, colMirror, rows, queue, made>>
         /\ \/ task'[t] = Idle
            \/ /\ "pc" \in DOMAIN task'[t]
               /\ task'[t].pc \in {"read_keyspace", "cache_keyspace", "put_keyspace", "delete_keyspace"}
         /\ task'[t].pc = "cache_keyspace" => ksMeta
         /\ ksCache' = ksCache \/ (task[t].pc = "cache_keyspace" /\ ksCache' = TRUE)
<1>0. "pc" \in DOMAIN task[t]
  BY DEF Types, Rec
<1>1. ASSUME NEW found, WithKeyspace(t, found)
      PROVE  /\ Others(t)
             /\ \/ task'[t] = Idle
                \/ "pc" \in DOMAIN task'[t] /\ task'[t].pc \in {"put_keyspace", "delete_keyspace"}
             /\ task'[t].pc # "cache_keyspace"
  <2>. DEFINE s == CASE task[t].stmt = "create_keyspace" /\ ~found -> [pc |-> "put_keyspace"]
                     [] task[t].stmt = "drop_keyspace" /\ found    -> [pc |-> "delete_keyspace"]
                     [] OTHER -> Idle
  <2>1. Others(t) /\ task'[t] = s
    BY Zenon, <1>1, BecomesIs DEF WithKeyspace
  <2>2. s \in {[pc |-> "put_keyspace"], [pc |-> "delete_keyspace"], Idle}
    OBVIOUS
  <2>. HIDE DEF s
  <2>3. Idle.pc # "cache_keyspace"
    BY DEF Idle
  <2>. QED  BY <2>1, <2>2, <2>3
<1>2. CASE KeyspaceHit(t)
  BY Zenon, <1>1, <1>2 DEF KeyspaceHit, ks, tb
<1>3. CASE KeyspaceMiss(t)
  BY <1>0, <1>3, GotoIs DEF KeyspaceMiss, Goes, ks, tb
<1>4. CASE ReadKeyspace(t)
  BY Zenon, <1>0, <1>1, <1>4, GotoIs DEF ReadKeyspace, Goes, ks, tb
<1>5. CASE CacheKeyspace(t)
  BY Zenon, <1>1, <1>5 DEF CacheKeyspace, tb
<1>. QED  BY Zenon, <1>2, <1>3, <1>4, <1>5

\* CREATE KEYSPACE
LEMMA PutKeyspaceIs ==
  ASSUME Types, NEW t \in Tasks, PutKeyspace(t)
  PROVE  /\ Others(t) /\ UNCHANGED <<tbMeta, tbCache, tbMirror, colMirror, rows, queue, made>>
         /\ \/ /\ task[t].pc = "put_keyspace" /\ Goes(t, "put_keyspace_cache")
               /\ ksMeta' = TRUE /\ UNCHANGED <<ksCache, ksMirror>>
            \/ /\ task[t].pc = "put_keyspace_cache" /\ Goes(t, "mirror_keyspace")
               /\ ksCache' = TRUE /\ UNCHANGED <<ksMeta, ksMirror>>
            \/ /\ task[t].pc = "mirror_keyspace" /\ task'[t] = Idle
               /\ ksMirror' = TRUE /\ UNCHANGED <<ksMeta, ksCache>>
  BY GotoIs, FinishIs DEF PutKeyspace, tb

\* CREATE TABLE up to the mirror of its columns
LEMMA PutTableIs ==
  ASSUME Types, NEW t \in Tasks, PutTable(t)
  PROVE  /\ Others(t) /\ UNCHANGED <<ksMeta, ksCache, ksMirror, colMirror, rows, queue, made>>
         /\ task[t].table \in Tables /\ task[t].def \in TableDef
         /\ "table" \in DOMAIN task[t] /\ "def" \in DOMAIN task[t]
         /\ \/ /\ task[t].pc = "put_table" /\ Goes(t, "put_table_cache")
               /\ tbMeta' = [tbMeta EXCEPT ![task[t].table] = task[t].def]
               /\ UNCHANGED <<tbCache, tbMirror>>
            \/ /\ task[t].pc = "put_table_cache" /\ Goes(t, "mirror_table")
               /\ tbCache' = [tbCache EXCEPT ![task[t].table] = task[t].def]
               /\ UNCHANGED <<tbMeta, tbMirror>>
            \/ /\ task[t].pc = "mirror_table"
               /\ task'[t] = [pc |-> "mirror_columns", table |-> task[t].table,
                              todo |-> task[t].def.cols]
               /\ tbMirror' = tbMirror \cup {task[t].table} /\ UNCHANGED <<tbMeta, tbCache>>
<1>1. task[t].pc \in {"put_table", "put_table_cache", "mirror_table"}
  BY DEF PutTable
<1>2. /\ task[t].table \in Tables /\ task[t].def \in TableDef
      /\ "table" \in DOMAIN task[t] /\ "def" \in DOMAIN task[t]
  BY <1>1 DEF Types, Rec
<1>3. ASSUME task[t].pc = "mirror_table"
      PROVE  /\ Others(t) /\ task'[t] = [pc |-> "mirror_columns", table |-> task[t].table,
                                         todo |-> task[t].def.cols]
             /\ tbMirror' = tbMirror \cup {task[t].table} /\ UNCHANGED <<tbMeta, tbCache, colMirror>>
  BY Zenon, <1>3, BecomesIs DEF PutTable
<1>. QED  BY <1>1, <1>2, <1>3, GotoIs DEF PutTable, ks

\* The loop over its columns
LEMMA MirrorColumnIs ==
  ASSUME Types, NEW t \in Tasks, MirrorColumn(t)
  PROVE  /\ Others(t) /\ UNCHANGED <<ksMeta, ksCache, ksMirror, tbMeta, tbCache, tbMirror, rows, queue, made>>
         /\ task[t].pc = "mirror_columns" /\ task[t].table \in Tables /\ task[t].todo \subseteq Cols
         /\ \E c \in task[t].todo :
              /\ colMirror' = colMirror \cup {<<task[t].table, c>>}
              /\ \/ task[t].todo = {c} /\ task'[t] = Idle
                 \/ /\ task'[t].pc = "mirror_columns" /\ task'[t].table = task[t].table
                    /\ task'[t].todo = task[t].todo \ {c} /\ DOMAIN task'[t] = DOMAIN task[t]
<1>1. /\ task[t].pc = "mirror_columns" /\ task[t].table \in Tables /\ task[t].todo \subseteq Cols
      /\ "pc" \in DOMAIN task[t] /\ "table" \in DOMAIN task[t] /\ "todo" \in DOMAIN task[t]
  BY DEF MirrorColumn, Types, Rec
<1>2. PICK c \in task[t].todo :
        /\ colMirror' = colMirror \cup {<<task[t].table, c>>}
        /\ task' = [task EXCEPT ![t] = IF task[t].todo = {c} THEN Idle
                                       ELSE [task[t] EXCEPT !.todo = task[t].todo \ {c}]]
  BY Zenon DEF MirrorColumn
<1>3. Others(t) /\ task'[t] = IF task[t].todo = {c} THEN Idle
                              ELSE [task[t] EXCEPT !.todo = task[t].todo \ {c}]
  BY Zenon, <1>2, BecomesIs
<1>. QED  BY <1>1, <1>2, <1>3 DEF MirrorColumn, ks

\* The operation o is sent to the pipelines of E
SentTo(E, o) ==
  /\ DOMAIN queue' = Engines
  /\ \A e \in Engines : /\ queue'[e] \in Seq(Ops)
                        /\ Held(queue'[e]) = IF e \in E THEN Held(queue[e]) \cup {o} ELSE Held(queue[e])

\* One operation to one pipeline, or to each
LEMMA Sends ==
  ASSUME Types, NEW o \in Ops
  PROVE  /\ \A e \in Engines : Enqueue(e, o) => SentTo({e}, o)
         /\ EnqueueAll(o) => SentTo(Engines, o)
<1>1. \A e \in Engines : /\ Append(queue[e], o) \in Seq(Ops)
                         /\ Held(Append(queue[e], o)) = Held(queue[e]) \cup {o}
  <2>1. \A e \in Engines : queue[e] \in Seq(Ops)
    BY Zenon DEF Types
  <2>2. \A q \in Seq(Ops) : Append(q, o) \in Seq(Ops) /\ Held(Append(q, o)) = Held(q) \cup {o}
    BY Added
  <2>. QED  BY Zenon, <2>1, <2>2
<1>2. DOMAIN queue = Engines /\ \A e \in Engines : queue[e] \in Seq(Ops)
  BY DEF Types, TypeOK
<1>3. ASSUME NEW e \in Engines, Enqueue(e, o) PROVE SentTo({e}, o)
  <2>1. /\ DOMAIN queue' = Engines /\ queue'[e] = Append(queue[e], o)
        /\ \A f \in Engines : f # e => queue'[f] = queue[f]
    BY <1>2, <1>3 DEF Enqueue
  <2>. QED  BY Zenon, <1>1, <1>2, <2>1 DEF SentTo
<1>4. ASSUME EnqueueAll(o) PROVE SentTo(Engines, o)
  BY Zenon, <1>1, <1>4 DEF EnqueueAll, SentTo
<1>. QED  BY <1>3, <1>4

\* DROP TABLE up to the removal of its columns rows
LEMMA DropTableIs ==
  ASSUME Types, NEW t \in Tasks, DropTable(t)
  PROVE  /\ Others(t) /\ UNCHANGED <<ksMeta, ksCache, ksMirror, tbMirror, colMirror, rows, made>>
         /\ "table" \in DOMAIN task[t] /\ task[t].table \in Tables
         /\ \/ /\ task[t].pc = "delete_table" /\ Goes(t, "table_range")
               /\ tbMeta' = [tbMeta EXCEPT ![task[t].table] = None] /\ UNCHANGED <<tbCache, queue>>
            \/ /\ task[t].pc = "table_range" /\ Goes(t, "uncache_table")
               /\ SentTo(Engines, RangeDelete(t, {task[t].table})) /\ UNCHANGED <<tbMeta, tbCache>>
            \/ /\ task[t].pc = "uncache_table" /\ Goes(t, "unmirror_table")
               /\ Uncache({task[t].table}) /\ UNCHANGED <<tbMeta, queue>>
            \/ /\ task[t].pc = "unmirror_table" /\ Goes(t, "scan_columns")
               /\ SentTo({MirrorEngine}, [op |-> "unmirror", table |-> task[t].table, by |-> None])
               /\ UNCHANGED <<tbMeta, tbCache>>
            \/ /\ task[t].pc = "scan_columns"
               /\ task'[t] = [pc |-> "unmirror_columns", todo |-> {x \in colMirror : x[1] = task[t].table}]
               /\ UNCHANGED <<tbMeta, tbCache, queue>>
<1>1. task[t].pc \in {"delete_table", "table_range", "uncache_table", "unmirror_table", "scan_columns"}
  BY DEF DropTable
<1>2. "table" \in DOMAIN task[t] /\ task[t].table \in Tables
  BY <1>1 DEF Types, Rec
<1>3. UNCHANGED <<ksMeta, ksCache, ksMirror, tbMirror, colMirror, rows, made>>
  BY DEF DropTable, ks
<1>4. RangeDelete(t, {task[t].table}) \in Ops /\ [op |-> "unmirror", table |-> task[t].table, by |-> None] \in Ops
  BY <1>2 DEF RangeDelete, Ops
<1>5. MirrorEngine \in Engines
  BY SchemaConstants
<1>6. CASE task[t].pc = "delete_table"
  BY <1>2, <1>3, <1>6, GotoIs DEF DropTable
<1>7. CASE task[t].pc = "table_range"
  <2>1. /\ EnqueueAll(RangeDelete(t, {task[t].table})) /\ UNCHANGED <<tbMeta, tbCache>>
        /\ Goto(t, "uncache_table")
    BY Zenon, <1>7 DEF DropTable
  <2>. QED  BY Zenon, <1>2, <1>3, <1>4, <1>7, <2>1, GotoIs, Sends
<1>8. CASE task[t].pc = "uncache_table"
  BY <1>2, <1>3, <1>8, GotoIs DEF DropTable
<1>9. CASE task[t].pc = "unmirror_table"
  <2>1. /\ Enqueue(MirrorEngine, [op |-> "unmirror", table |-> task[t].table, by |-> None])
        /\ UNCHANGED <<tbMeta, tbCache>> /\ Goto(t, "scan_columns")
    BY <1>9 DEF DropTable
  <2>. QED  BY Zenon, <1>2, <1>3, <1>4, <1>5, <1>9, <2>1, GotoIs, Sends
<1>10. CASE task[t].pc = "scan_columns"
  <2>1. /\ task' = [task EXCEPT ![t] = [pc |-> "unmirror_columns",
                                        todo |-> {x \in colMirror : x[1] = task[t].table}]]
        /\ UNCHANGED <<tbMeta, tbCache, queue>>
    BY Zenon, <1>10 DEF DropTable
  <2>. QED  BY Zenon, <1>2, <1>3, <1>10, <2>1, BecomesIs
<1>. QED  BY Zenon, <1>1, <1>6, <1>7, <1>8, <1>9, <1>10

\* A loop over the rows of a scan
LEMMA TodoIs ==
  ASSUME Types, NEW t \in Tasks, NEW x, task' = [task EXCEPT ![t].todo = @ \ {x}],
         "todo" \in DOMAIN task[t]
  PROVE  /\ Others(t) /\ task'[t].pc = task[t].pc /\ task'[t].todo = task[t].todo \ {x}
         /\ DOMAIN task'[t] = DOMAIN task[t]
<1>1. task' = [task EXCEPT ![t] = [task[t] EXCEPT !.todo = task[t].todo \ {x}]]
  OBVIOUS
<1>2. Others(t) /\ task'[t] = [task[t] EXCEPT !.todo = task[t].todo \ {x}]
  BY Zenon, <1>1, BecomesIs
<1>3. "pc" \in DOMAIN task[t]
  BY DEF Types, Rec
<1>. QED  BY <1>2, <1>3

\* delete_system_schema_partition on the columns rows
LEMMA UnmirrorColumnIs ==
  ASSUME Types, NEW t \in Tasks, UnmirrorColumn(t)
  PROVE  /\ Others(t) /\ UNCHANGED <<ksMeta, ksCache, ksMirror, tbMeta, tbCache, tbMirror, rows, queue, made>>
         /\ task[t].pc = "unmirror_columns"
         /\ \/ \E x \in task[t].todo :
                 /\ colMirror' = colMirror \ {x} /\ task'[t].todo = task[t].todo \ {x}
                 /\ task'[t].pc = "unmirror_columns" /\ DOMAIN task'[t] = DOMAIN task[t]
            \/ task[t].todo = {} /\ colMirror' = colMirror /\ task'[t] = [pc |-> "settle"]
<1>1. /\ task[t].pc = "unmirror_columns" /\ "todo" \in DOMAIN task[t]
      /\ UNCHANGED <<ksMeta, ksCache, ksMirror, tbMeta, tbCache, tbMirror, rows, queue, made>>
  BY DEF UnmirrorColumn, ks, Types, Rec
<1>2. CASE \E x \in task[t].todo : colMirror' = colMirror \ {x} /\ task' = [task EXCEPT ![t].todo = @ \ {x}]
  BY Zenon, <1>1, <1>2, TodoIs
<1>3. CASE /\ task[t].todo = {} /\ UNCHANGED colMirror
           /\ task' = [task EXCEPT ![t] = [pc |-> "settle"]]
  BY Zenon, <1>1, <1>3, BecomesIs
<1>. QED  BY Zenon, <1>2, <1>3 DEF UnmirrorColumn

\* DROP KEYSPACE up to the removal of its mirrors
LEMMA DropKeyspaceIs ==
  ASSUME Types, NEW t \in Tasks, DropKeyspace(t)
  PROVE  /\ Others(t) /\ UNCHANGED <<ksMirror, tbMirror, colMirror, rows, made>>
         /\ \/ /\ task[t].pc = "delete_keyspace" /\ Goes(t, "delete_tables")
               /\ ksMeta' = FALSE /\ UNCHANGED <<ksCache, tbMeta, tbCache, queue>>
            \/ /\ task[t].pc = "delete_tables" /\ Goes(t, "keyspace_range")
               /\ tbMeta' = [T \in Tables |-> None] /\ UNCHANGED <<ksMeta, ksCache, tbCache, queue>>
            \/ /\ task[t].pc = "keyspace_range" /\ Goes(t, "uncache_keyspace")
               /\ SentTo(Engines, RangeDelete(t, Tables))
               /\ UNCHANGED <<ksMeta, ksCache, tbMeta, tbCache>>
            \/ /\ task[t].pc = "uncache_keyspace" /\ Goes(t, "uncache_tables")
               /\ ksCache' = FALSE /\ UNCHANGED <<ksMeta, tbMeta, tbCache, queue>>
            \/ /\ task[t].pc = "uncache_tables" /\ Goes(t, "unmirror_keyspace")
               /\ Uncache(Tables) /\ UNCHANGED <<ksMeta, ksCache, tbMeta, queue>>
<1>1. task[t].pc \in {"delete_keyspace", "delete_tables", "keyspace_range", "uncache_keyspace", "uncache_tables"}
  BY Zenon DEF DropKeyspace
<1>2. UNCHANGED <<ksMirror, tbMirror, colMirror, rows, made>>
  BY DEF DropKeyspace, tb
<1>3. RangeDelete(t, Tables) \in Ops
  BY DEF RangeDelete, Ops
<1>4. CASE task[t].pc = "keyspace_range"
  <2>1. /\ EnqueueAll(RangeDelete(t, Tables)) /\ UNCHANGED <<ksMeta, ksCache, tbMeta, tbCache>>
        /\ Goto(t, "uncache_keyspace")
    BY Zenon, <1>4 DEF DropKeyspace, tb
  <2>. QED  BY Zenon, <1>2, <1>3, <1>4, <2>1, GotoIs, Sends
<1>5. CASE task[t].pc # "keyspace_range"
  BY <1>1, <1>2, <1>5, GotoIs DEF DropKeyspace, tb
<1>. QED  BY Zenon, <1>4, <1>5

\* The removal of its mirrors
LEMMA UnmirrorKeyspaceIs ==
  ASSUME Types, NEW t \in Tasks, UnmirrorKeyspace(t)
  PROVE  /\ Others(t) /\ UNCHANGED <<ksMeta, ksCache, tbMeta, tbCache, colMirror, rows, queue, made>>
         /\ tbMirror' \subseteq tbMirror
         /\ \/ /\ task[t].pc = "unmirror_keyspace" /\ Goes(t, "scan_tables") /\ ksMirror' = FALSE
            \/ /\ task[t].pc \in {"scan_tables", "unmirror_tables"} /\ task'[t].pc = "unmirror_tables"
               /\ {"pc", "todo"} \subseteq DOMAIN task'[t] /\ UNCHANGED ksMirror
            \/ /\ task[t].pc = "unmirror_tables"
               /\ task'[t] = [pc |-> "unmirror_columns", todo |-> colMirror] /\ UNCHANGED ksMirror
<1>0. UNCHANGED <<ksMeta, ksCache, tbMeta, tbCache, colMirror, rows, queue, made>>
  BY DEF UnmirrorKeyspace
<1>1. CASE task[t].pc = "unmirror_keyspace"
  BY Zenon, <1>0, <1>1, GotoIs DEF UnmirrorKeyspace
<1>2. CASE task[t].pc = "scan_tables"
  <2>1. /\ UNCHANGED <<ksMirror, tbMirror>>
        /\ task' = [task EXCEPT ![t] = [pc |-> "unmirror_tables", todo |-> tbMirror]]
    BY Zenon, <1>2 DEF UnmirrorKeyspace
  <2>2. Others(t) /\ task'[t] = [pc |-> "unmirror_tables", todo |-> tbMirror]
    BY Zenon, <2>1, BecomesIs
  <2>. QED  BY <1>0, <1>2, <2>1, <2>2
<1>3. CASE /\ task[t].pc = "unmirror_tables" /\ UNCHANGED ksMirror
           /\ \E T \in task[t].todo : /\ tbMirror' = tbMirror \ {T}
                                      /\ task' = [task EXCEPT ![t].todo = @ \ {T}]
  <2>1. {"pc", "todo"} \subseteq DOMAIN task[t]
    BY <1>3 DEF Types, Rec
  <2>2. PICK T : tbMirror' = tbMirror \ {T} /\ task' = [task EXCEPT ![t].todo = @ \ {T}]
    BY Zenon, <1>3
  <2>3. Others(t) /\ task'[t].pc = "unmirror_tables" /\ DOMAIN task'[t] = DOMAIN task[t]
    BY Zenon, <1>3, <2>1, <2>2, TodoIs
  <2>. QED  BY <1>0, <1>3, <2>1, <2>2, <2>3
<1>4. CASE /\ task[t].pc = "unmirror_tables" /\ UNCHANGED <<ksMirror, tbMirror>>
           /\ task' = [task EXCEPT ![t] = [pc |-> "unmirror_columns", todo |-> colMirror]]
  BY Zenon, <1>0, <1>4, BecomesIs
<1>. QED  BY Zenon, <1>1, <1>2, <1>3, <1>4 DEF UnmirrorKeyspace

\* INSERT sends its row
LEMMA PutRowIs ==
  ASSUME Types, NEW t \in Tasks, PutRow(t)
  PROVE  /\ Others(t) /\ task[t].pc = "put_row" /\ task'[t] = [pc |-> "settle"]
         /\ task[t].table \in Tables /\ task[t].id \in 0 .. MaxDefs
         /\ SentTo({RowEngine}, [op |-> "put", table |-> task[t].table, id |-> task[t].id, by |-> t])
         /\ UNCHANGED <<ksMeta, ksCache, ksMirror, tbMeta, tbCache, tbMirror, colMirror, rows, made>>
<1>1. task[t].pc = "put_row" /\ task[t].table \in Tables /\ task[t].id \in 0 .. MaxDefs
  BY DEF PutRow, Types, Rec
<1>2. [op |-> "put", table |-> task[t].table, id |-> task[t].id, by |-> t] \in Ops
  BY <1>1 DEF Ops
<1>3. UNCHANGED <<ksMeta, ksCache, ksMirror, tbMeta, tbCache, tbMirror, colMirror, rows, made>>
  BY Zenon DEF PutRow, ks, tb
<1>. QED  BY Zenon, <1>1, <1>2, <1>3, SchemaConstants, BecomesIs, Sends DEF PutRow

\* The response leaves
LEMMA SettleIs ==
  ASSUME Types, NEW t \in Tasks, Settle(t)
  PROVE  /\ Others(t) /\ task[t].pc = "settle" /\ task'[t] = Idle
         /\ \A e \in Engines : \A o \in Held(queue[e]) : o.by # t
         /\ UNCHANGED <<ksMeta, ksCache, ksMirror, tbMeta, tbCache, tbMirror, colMirror, rows, queue, made>>
<1>1. \A e \in Engines : \A o \in Held(queue[e]) : o.by # t
  BY Zenon DEF Settle, Held
<1>. QED  BY <1>1, FinishIs DEF Settle, ks, tb

-----------------------------------------------------------------------------
\* The types of what is stored and cached
Data ==
  /\ {ksMeta, ksCache, ksMirror} \subseteq BOOLEAN
  /\ {tbMeta, tbCache} \subseteq [Tables -> TableDef \cup {None}]
  /\ tbMirror \subseteq Tables
  /\ colMirror \subseteq Tables \X Cols
  /\ rows \in [Tables -> 0 .. MaxDefs \cup {None}]
  /\ made \in 0 .. MaxDefs

\* No task is idle while an operation that it awaits is queued
LEMMA TypesNext ==
  ASSUME Data', DOMAIN queue' = Engines, DOMAIN task' = Tasks, \A t \in Tasks : Rec(task'[t]),
         \A e \in Engines : queue'[e] \in Seq(Ops),
         \A e \in Engines : \A o \in Held(queue'[e]) :
           o.op # "unmirror" => o.by \in Tasks /\ task'[o.by].pc \in Owing
  PROVE  Types'
<1>1. ASSUME NEW e \in Engines, NEW i \in DOMAIN queue'[e]
      PROVE  queue'[e][i].by = None \/ task'[queue'[e][i].by] # Idle
  <2>1. queue'[e][i] \in Ops
    OBVIOUS
  <2>2. queue'[e][i].op = "unmirror" => queue'[e][i].by = None
    BY <2>1 DEF Ops
  <2>3. queue'[e][i] \in Held(queue'[e])
    BY Zenon DEF Held
  <2>4. Idle.pc \notin Owing
    BY DEF Idle, Owing
  <2>. QED  BY Zenon, <2>2, <2>3, <2>4
<1>2. TypeOK'
  BY Zenon, <1>1 DEF TypeOK, Data
<1>. QED  BY Zenon, <1>2 DEF Types

\* A step of a task keeps the types if its new operations are its own
LEMMA TypesSent ==
  ASSUME Types, NEW t \in Tasks, Others(t), Rec(task'[t]), Data', DOMAIN queue' = Engines,
         \A e \in Engines : queue'[e] \in Seq(Ops),
         \A e \in Engines : \A o \in Held(queue'[e]) : o.op # "unmirror" =>
            \/ o \in Held(queue[e]) /\ (o.by = t => task'[t].pc \in Owing)
            \/ o.by = t /\ task'[t].pc \in Owing
  PROVE  Types'
<1>1. \A u \in Tasks : Rec(task'[u])
  BY Zenon DEF Types, Others
<1>2. \A e \in Engines : \A o \in Held(queue'[e]) :
           o.op # "unmirror" => o.by \in Tasks /\ task'[o.by].pc \in Owing
  BY Zenon DEF Types, Others
<1>3. DOMAIN task' = Tasks
  BY DEF Others
<1>. QED  BY Zenon, <1>1, <1>2, <1>3, TypesNext

\* A step that sends nothing
LEMMA TypesQuiet ==
  ASSUME Types, NEW t \in Tasks, Others(t), Rec(task'[t]), Data', queue' = queue,
         \/ task[t].pc \notin Owing \/ task'[t].pc \in Owing
         \/ \A e \in Engines : \A o \in Held(queue[e]) : o.by # t
  PROVE  Types'
<1>1. DOMAIN queue' = Engines /\ \A e \in Engines : queue'[e] \in Seq(Ops)
  BY DEF Types, TypeOK
<1>2. \A e \in Engines : \A o \in Held(queue[e]) :
        o.op # "unmirror" /\ o.by = t => task'[t].pc \in Owing
  BY Zenon DEF Types
<1>. QED  BY Zenon, <1>1, <1>2, TypesSent

\* A step that sends an operation
LEMMA TypesSends ==
  ASSUME Types, NEW t \in Tasks, Others(t), Rec(task'[t]), Data', task'[t].pc \in Owing,
         NEW E, NEW o, SentTo(E, o), o.op = "unmirror" \/ o.by = t
  PROVE  Types'
<1>1. DOMAIN queue' = Engines /\ \A e \in Engines : queue'[e] \in Seq(Ops)
  BY DEF SentTo
<1>2. \A e \in Engines : \A p \in Held(queue'[e]) : p \in Held(queue[e]) \/ p = o
  BY Zenon DEF SentTo
<1>. QED  BY Zenon, <1>1, <1>2, TypesSent

\* The stored and cached, whose types are known before the step
LEMMA DataNow ==
  ASSUME Types
  PROVE  /\ Data /\ tbMeta \in [Tables -> TableDef \cup {None}]
         /\ tbCache \in [Tables -> TableDef \cup {None}]
         /\ \A T \in Tables : tbMeta[T] # None => tbMeta[T].id \in 0 .. MaxDefs
         /\ \A T \in Tables : tbCache[T] # None => tbCache[T].id \in 0 .. MaxDefs
  BY DEF Types, TypeOK, Data, TableDef

\* A record whose pc uses no field
LEMMA PlainRec ==
  ASSUME NEW r, "pc" \in DOMAIN r, r.pc \in {"get_keyspace", "read_keyspace", "cache_keyspace",
           "put_keyspace", "put_keyspace_cache", "mirror_keyspace", "delete_keyspace",
           "delete_tables", "keyspace_range", "uncache_keyspace", "uncache_tables",
           "unmirror_keyspace", "scan_tables", "settle"} \/ r = Idle
  PROVE  Rec(r)
  BY DEF Rec, Looking, Idle

\* get_table keeps the types
LEMMA LookupTableTypes ==
  ASSUME Types, NEW t \in Tasks, TableHit(t) \/ TableMiss(t) \/ ReadTable(t) \/ CacheTable(t)
  PROVE  Types'
<1>. DEFINE r == task[t]
<1>1. /\ Others(t) /\ r.pc \in Looking
      /\ UNCHANGED <<ksMeta, ksCache, ksMirror, tbMeta, tbMirror, colMirror, rows, queue, made>>
  BY Zenon, LookupTableIs
<1>2. /\ {"pc", "read", "stmt", "table"} \subseteq DOMAIN r /\ r.table \in Tables
      /\ r.stmt \in {"create_table", "drop_table", "insert"}
      /\ r.stmt = "create_table" => "def" \in DOMAIN r /\ r.def \in TableDef
      /\ r.pc = "cache_table" => r.read \in TableDef
      /\ r.pc \notin Owing
  BY Zenon, <1>1 DEF Types, Rec, Looking, Owing
<1>3. Data'
  <2>1. tbCache' = tbCache \/ (r.pc = "cache_table" /\ tbCache' = [tbCache EXCEPT ![r.table] = r.read])
    BY Zenon, LookupTableIs
  <2>. QED  BY <1>1, <1>2, <2>1, DataNow DEF Data
<1>4. ASSUME NEW d, Resolved(t, d), d # None => d.id \in 0 .. MaxDefs
      PROVE  Rec(task'[t])
  <2>1. CASE task'[t] = Idle
    BY Zenon, <2>1, PlainRec, IdlePc
  <2>2. CASE r.stmt = "create_table" /\ Goes(t, "put_table")
    BY Zenon, <1>2, <2>2 DEF Rec, Goes, Looking
  <2>3. CASE Goes(t, "delete_table")
    BY Zenon, <1>2, <2>3 DEF Rec, Goes, Looking
  <2>4. CASE d # None /\ task'[t] = [pc |-> "put_row", table |-> r.table, id |-> d.id]
    BY <1>2, <1>4, <2>4 DEF Rec, Looking
  <2>. QED  BY Zenon, <1>4, <2>1, <2>2, <2>3, <2>4 DEF Resolved
<1>5. Rec(task'[t])
  <2>1. CASE Goes(t, "read_table")
    BY Zenon, <1>2, <2>1 DEF Rec, Goes, Looking
  <2>2. CASE Goes(t, "cache_table") /\ task'[t].read = tbMeta[r.table] /\ tbMeta[r.table] # None
    <3>1. task'[t].read \in TableDef
      BY <1>2, <2>2, DataNow
    <3>. QED  BY Zenon, <1>2, <2>2, <3>1 DEF Rec, Goes, Looking
  <2>3. CASE tbCache[r.table] # None /\ Resolved(t, tbCache[r.table])
    BY Zenon, <1>2, <1>4, <2>3, DataNow
  <2>4. CASE Resolved(t, None)
    BY Zenon, <1>4, <2>4
  <2>5. CASE r.pc = "cache_table" /\ Resolved(t, r.read)
    <3>1. r.read.id \in 0 .. MaxDefs
      BY <1>2, <2>5 DEF TableDef
    <3>. QED  BY Zenon, <1>4, <2>5, <3>1
  <2>. QED  BY Zenon, <2>1, <2>2, <2>3, <2>4, <2>5, LookupTableIs
<1>. QED  BY Zenon, <1>1, <1>2, <1>3, <1>5, TypesQuiet

\* get_keyspace, CREATE KEYSPACE and CREATE TABLE keep the types
LEMMA CreateTypes ==
  ASSUME Types, NEW t \in Tasks,
         \/ KeyspaceHit(t) \/ KeyspaceMiss(t) \/ ReadKeyspace(t) \/ CacheKeyspace(t)
         \/ PutKeyspace(t) \/ PutTable(t) \/ MirrorColumn(t)
  PROVE  Types'
<1>0. "pc" \in DOMAIN task[t] /\ "pc" \in DOMAIN Idle
  BY DEF Types, Rec, Idle
<1>1. CASE KeyspaceHit(t) \/ KeyspaceMiss(t) \/ ReadKeyspace(t) \/ CacheKeyspace(t)
  <2>1. /\ Others(t) /\ task[t].pc \in {"get_keyspace", "read_keyspace", "cache_keyspace"} /\ queue' = queue
        /\ task'[t] = Idle \/ ("pc" \in DOMAIN task'[t]
              /\ task'[t].pc \in {"read_keyspace", "cache_keyspace", "put_keyspace", "delete_keyspace"})
    BY Zenon, <1>1, LookupKeyspaceIs
  <2>2. Data'
    BY Zenon, <1>1, LookupKeyspaceIs, DataNow DEF Data
  <2>3. Rec(task'[t]) /\ task[t].pc \notin Owing
    BY <1>0, <2>1, PlainRec DEF Owing
  <2>. QED  BY Zenon, <2>1, <2>2, <2>3, TypesQuiet
<1>2. CASE PutKeyspace(t)
  <2>1. Others(t) /\ queue' = queue /\ task[t].pc \notin Owing
    BY Zenon, <1>2, PutKeyspaceIs DEF Owing
  <2>2. Data'
    BY Zenon, <1>2, PutKeyspaceIs, DataNow DEF Data
  <2>3. Rec(task'[t])
    BY Zenon, <1>0, <1>2, PutKeyspaceIs, PlainRec DEF Goes
  <2>. QED  BY Zenon, <2>1, <2>2, <2>3, TypesQuiet
<1>3. CASE PutTable(t)
  <2>1. Others(t) /\ queue' = queue /\ task[t].pc \notin Owing
    BY Zenon, <1>3, PutTableIs DEF Owing
  <2>2. /\ task[t].table \in Tables /\ task[t].def \in TableDef
        /\ "table" \in DOMAIN task[t] /\ "def" \in DOMAIN task[t]
    BY Zenon, <1>3, PutTableIs
  <2>3. Data'
    <3>1. /\ tbMeta' \in {tbMeta, [tbMeta EXCEPT ![task[t].table] = task[t].def]}
          /\ tbCache' \in {tbCache, [tbCache EXCEPT ![task[t].table] = task[t].def]}
          /\ tbMirror' \in {tbMirror, tbMirror \cup {task[t].table}}
          /\ UNCHANGED <<ksMeta, ksCache, ksMirror, colMirror, rows, made>>
      BY Zenon, <1>3, PutTableIs
    <3>. QED  BY <2>2, <3>1, DataNow DEF Data
  <2>4. Rec(task'[t])
    <3>1. CASE Goes(t, "put_table_cache") \/ Goes(t, "mirror_table")
      BY Zenon, <1>0, <2>2, <3>1 DEF Goes, Rec, Looking
    <3>2. CASE task'[t] = [pc |-> "mirror_columns", table |-> task[t].table, todo |-> task[t].def.cols]
      <4>1. task[t].def.cols \subseteq Cols
        BY <2>2 DEF TableDef
      <4>. QED  BY <2>2, <3>2, <4>1 DEF Rec, Looking
    <3>. QED  BY Zenon, <1>3, <3>1, <3>2, PutTableIs
  <2>. QED  BY Zenon, <2>1, <2>3, <2>4, TypesQuiet
<1>4. CASE MirrorColumn(t)
  <2>1. PICK c \in task[t].todo :
          /\ colMirror' = colMirror \cup {<<task[t].table, c>>}
          /\ \/ task[t].todo = {c} /\ task'[t] = Idle
             \/ /\ task'[t].pc = "mirror_columns" /\ task'[t].table = task[t].table
                /\ task'[t].todo = task[t].todo \ {c} /\ DOMAIN task'[t] = DOMAIN task[t]
    BY Zenon, <1>4, MirrorColumnIs
  <2>2. /\ Others(t) /\ queue' = queue /\ task[t].pc \notin Owing
        /\ task[t].pc = "mirror_columns" /\ task[t].table \in Tables /\ task[t].todo \subseteq Cols
    BY <1>4, MirrorColumnIs DEF Owing
  <2>3. Data'
    <3>1. <<task[t].table, c>> \in Tables \X Cols
      BY <2>1, <2>2
    <3>2. colMirror' \subseteq Tables \X Cols
      BY Zenon, <2>1, <3>1, DataNow DEF Data
    <3>. QED  BY Zenon, <1>4, <3>2, MirrorColumnIs, DataNow DEF Data
  <2>4. Rec(task'[t])
    <3>1. {"pc", "table", "todo"} \subseteq DOMAIN task[t]
      BY <2>2 DEF Types, Rec
    <3>2. CASE task'[t] = Idle
      BY Zenon, <1>0, <3>2, PlainRec
    <3>3. CASE /\ task'[t].pc = "mirror_columns" /\ task'[t].table = task[t].table
               /\ task'[t].todo = task[t].todo \ {c} /\ DOMAIN task'[t] = DOMAIN task[t]
      BY <2>2, <3>1, <3>3 DEF Rec, Looking
    <3>. QED  BY Zenon, <2>1, <3>2, <3>3
  <2>. QED  BY Zenon, <2>2, <2>3, <2>4, TypesQuiet
<1>. QED  BY Zenon, <1>1, <1>2, <1>3, <1>4

\* DROP TABLE and DROP KEYSPACE keep the types
LEMMA DropTypes ==
  ASSUME Types, NEW t \in Tasks,
         DropTable(t) \/ DropKeyspace(t) \/ UnmirrorKeyspace(t) \/ UnmirrorColumn(t)
  PROVE  Types'
<1>0. "pc" \in DOMAIN task[t]
  BY DEF Types, Rec
<1>1. CASE DropTable(t)
  <2>1. Others(t) /\ "table" \in DOMAIN task[t] /\ task[t].table \in Tables
    BY Zenon, <1>1, DropTableIs
  <2>2. Data'
    <3>1. /\ tbMeta' \in {tbMeta, [tbMeta EXCEPT ![task[t].table] = None]}
          /\ tbCache' = tbCache \/ Uncache({task[t].table})
          /\ UNCHANGED <<ksMeta, ksCache, ksMirror, tbMirror, colMirror, rows, made>>
      BY Zenon, <1>1, DropTableIs
    <3>. QED  BY <2>1, <3>1, DataNow DEF Data, Uncache
  <2>3. Rec(task'[t])
    <3>1. CASE \E q \in {"table_range", "uncache_table", "unmirror_table", "scan_columns"} : Goes(t, q)
      BY Zenon, <1>0, <2>1, <3>1 DEF Goes, Rec, Looking
    <3>2. CASE task'[t] = [pc |-> "unmirror_columns", todo |-> {x \in colMirror : x[1] = task[t].table}]
      BY <3>2 DEF Rec, Looking
    <3>. QED  BY Zenon, <1>1, <3>1, <3>2, DropTableIs
  <2>4. CASE queue' = queue
    <3>1. \/ task[t].pc = "delete_table"
          \/ task'[t].pc \in {"uncache_table", "unmirror_table", "scan_columns"}
          \/ task'[t] = [pc |-> "unmirror_columns", todo |-> {x \in colMirror : x[1] = task[t].table}]
      BY Zenon, <1>1, DropTableIs DEF Goes
    <3>2. task[t].pc \notin Owing \/ task'[t].pc \in Owing
      BY <3>1 DEF Owing
    <3>. QED  BY Zenon, <2>1, <2>2, <2>3, <2>4, <3>2, TypesQuiet
  <2>5. CASE task[t].pc = "table_range"
    <3>1. task'[t].pc \in Owing /\ SentTo(Engines, RangeDelete(t, {task[t].table}))
      BY Zenon, <1>1, <2>5, DropTableIs DEF Goes, Owing
    <3>2. RangeDelete(t, {task[t].table}).by = t
      BY DEF RangeDelete
    <3>. QED  BY Zenon, <2>1, <2>2, <2>3, <3>1, <3>2, TypesSends
  <2>6. CASE task[t].pc = "unmirror_table"
    <3>. DEFINE o == [op |-> "unmirror", table |-> task[t].table, by |-> None]
    <3>1. task'[t].pc \in Owing /\ SentTo({MirrorEngine}, o)
      BY Zenon, <1>1, <2>6, DropTableIs DEF Goes, Owing
    <3>2. o.op = "unmirror"
      OBVIOUS
    <3>. QED  BY Zenon, <2>1, <2>2, <2>3, <3>1, <3>2, TypesSends
  <2>. QED  BY Zenon, <1>1, <2>4, <2>5, <2>6, DropTableIs
<1>2. CASE DropKeyspace(t)
  <2>1. Others(t)
    BY Zenon, <1>2, DropKeyspaceIs
  <2>2. Data'
    <3>1. /\ tbMeta' \in {tbMeta, [T \in Tables |-> None]} /\ (tbCache' = tbCache \/ Uncache(Tables))
          /\ ksMeta' \in {ksMeta, FALSE} /\ ksCache' \in {ksCache, FALSE}
          /\ UNCHANGED <<ksMirror, tbMirror, colMirror, rows, made>>
      BY Zenon, <1>2, DropKeyspaceIs
    <3>2. tbMeta' \in [Tables -> TableDef \cup {None}] /\ tbCache' \in [Tables -> TableDef \cup {None}]
      BY <3>1, DataNow DEF Uncache
    <3>. QED  BY Zenon, <3>1, <3>2, DataNow DEF Data
  <2>3. Rec(task'[t])
    BY Zenon, <1>0, <1>2, DropKeyspaceIs, PlainRec DEF Goes
  <2>4. CASE queue' = queue
    <3>1. task[t].pc \notin Owing \/ task'[t].pc \in Owing
      BY Zenon, <1>2, <2>4, DropKeyspaceIs DEF Goes, Owing
    <3>. QED  BY Zenon, <2>1, <2>2, <2>3, <2>4, <3>1, TypesQuiet
  <2>5. CASE task[t].pc = "keyspace_range"
    <3>1. task'[t].pc \in Owing /\ SentTo(Engines, RangeDelete(t, Tables))
      BY Zenon, <1>2, <2>5, DropKeyspaceIs DEF Goes, Owing
    <3>2. RangeDelete(t, Tables).by = t
      BY DEF RangeDelete
    <3>. QED  BY Zenon, <2>1, <2>2, <2>3, <3>1, <3>2, TypesSends
  <2>. QED  BY Zenon, <1>2, <2>4, <2>5, DropKeyspaceIs
<1>3. CASE UnmirrorKeyspace(t)
  <2>0. \/ task'[t].pc = "scan_tables" /\ DOMAIN task'[t] = DOMAIN task[t]
        \/ task'[t].pc = "unmirror_tables" /\ {"pc", "todo"} \subseteq DOMAIN task'[t]
        \/ task'[t] = [pc |-> "unmirror_columns", todo |-> colMirror]
    BY Zenon, <1>3, UnmirrorKeyspaceIs DEF Goes
  <2>1. Others(t) /\ queue' = queue /\ task'[t].pc \in Owing
    <3>1. task'[t].pc \in Owing
      BY <2>0 DEF Owing
    <3>. QED  BY Zenon, <1>3, <3>1, UnmirrorKeyspaceIs
  <2>2. Data'
    BY Zenon, <1>3, UnmirrorKeyspaceIs, DataNow DEF Data
  <2>3. Rec(task'[t])
    BY <1>0, <2>0 DEF Rec, Looking
  <2>. QED  BY Zenon, <2>1, <2>2, <2>3, TypesQuiet
<1>4. CASE UnmirrorColumn(t)
  <2>1. Others(t) /\ queue' = queue /\ task'[t].pc \in Owing
    BY <1>4, UnmirrorColumnIs DEF Owing
  <2>2. Data'
    BY <1>4, UnmirrorColumnIs, DataNow DEF Data
  <2>3. Rec(task'[t])
    <3>1. \/ task'[t].pc = "unmirror_columns" /\ DOMAIN task'[t] = DOMAIN task[t]
          \/ task'[t] = [pc |-> "settle"]
      BY Zenon, <1>4, UnmirrorColumnIs
    <3>2. "todo" \in DOMAIN task[t]
      BY Zenon, <1>4 DEF UnmirrorColumn, Types, Rec
    <3>3. CASE task'[t].pc = "unmirror_columns" /\ DOMAIN task'[t] = DOMAIN task[t]
      BY Zenon, <1>0, <3>2, <3>3 DEF Rec, Looking
    <3>4. CASE task'[t] = [pc |-> "settle"]
      <4>1. task'[t].pc = "settle" /\ "pc" \in DOMAIN task'[t]
        BY <3>4
      <4>. QED  BY Zenon, <4>1, PlainRec
    <3>. QED  BY Zenon, <3>1, <3>3, <3>4
  <2>. QED  BY Zenon, <2>1, <2>2, <2>3, TypesQuiet
<1>. QED  BY Zenon, <1>1, <1>2, <1>3, <1>4

\* Every other step keeps the types
LEMMA OtherTypes ==
  ASSUME Types, NEW t \in Tasks, NEW s \in {"drop_table", "insert"}, NEW k,
         \/ BeginCreateTable(t) \/ BeginOnTable(t, s) \/ BeginOnKeyspace(t, k)
         \/ PutRow(t) \/ Settle(t)
  PROVE  Types'
<1>1. CASE BeginCreateTable(t) \/ BeginOnTable(t, s) \/ BeginOnKeyspace(t, k)
  <2>1. /\ Others(t) /\ task[t] = Idle /\ Rec(task'[t]) /\ queue' = queue /\ made' \in 0 .. MaxDefs
        /\ UNCHANGED <<ksMeta, ksCache, ksMirror, tbMeta, tbCache, tbMirror, colMirror, rows>>
    BY Zenon, <1>1, BeginIs
  <2>2. Data'
    BY Zenon, <2>1, DataNow DEF Data
  <2>3. task[t].pc \notin Owing
    BY Zenon, <2>1, IdlePc DEF Owing
  <2>. QED  BY Zenon, <2>1, <2>2, <2>3, TypesQuiet
<1>2. CASE PutRow(t)
  <2>. DEFINE o == [op |-> "put", table |-> task[t].table, id |-> task[t].id, by |-> t]
  <2>1. Others(t) /\ task'[t] = [pc |-> "settle"] /\ SentTo({RowEngine}, o)
    BY Zenon, <1>2, PutRowIs
  <2>2. Data'
    BY Zenon, <1>2, PutRowIs, DataNow DEF Data
  <2>3. Rec(task'[t]) /\ task'[t].pc \in Owing /\ o.by = t
    BY <2>1, PlainRec DEF Owing
  <2>. HIDE DEF o
  <2>. QED  BY Zenon, <2>1, <2>2, <2>3, TypesSends
<1>3. CASE Settle(t)
  <2>1. Others(t) /\ task'[t] = Idle /\ queue' = queue
    BY Zenon, <1>3, SettleIs
  <2>2. Data'
    BY Zenon, <1>3, SettleIs, DataNow DEF Data
  <2>3. Rec(task'[t])
    BY <2>1, PlainRec DEF Idle
  <2>4. \A e \in Engines : \A o \in Held(queue[e]) : o.by # t
    BY Zenon, <1>3, SettleIs
  <2>. QED  BY Zenon, <2>1, <2>2, <2>3, <2>4, TypesQuiet
<1>. QED  BY Zenon, <1>1, <1>2, <1>3

\* What the committer of engine e does
LEMMA ApplyIs ==
  ASSUME Types, NEW e \in Engines, Apply(e)
  PROVE  /\ UNCHANGED <<ksMeta, ksCache, ksMirror, tbMeta, tbCache, colMirror, task, made>>
         /\ tbMirror' \subseteq tbMirror
         /\ DOMAIN queue' = Engines /\ \A f \in Engines : queue'[f] \in Seq(Ops)
         /\ \A f \in Engines : f # e => Held(queue'[f]) = Held(queue[f])
         /\ \E o \in Ops :
              /\ Held(queue[e]) = {o} \cup Held(queue'[e])
              /\ rows' = [T \in Tables |->
                            CASE o.op = "put" /\ o.table = T -> o.id
                              [] o.op = "range" /\ T \in o.tables /\ e = RowEngine -> None
                              [] OTHER -> rows[T]]
<1>0. DOMAIN queue = Engines /\ \A f \in Engines : queue[f] \in Seq(Ops)
  BY DEF Types, TypeOK
<1>1. queue[e] # <<>> /\ queue' = [queue EXCEPT ![e] = Tail(queue[e])]
  BY Zenon DEF Apply
<1>2. /\ DOMAIN queue' = Engines /\ queue'[e] = Tail(queue[e])
      /\ \A f \in Engines : f # e => queue'[f] = queue[f]
  BY <1>0, <1>1
<1>3. /\ Head(queue[e]) \in Ops /\ Tail(queue[e]) \in Seq(Ops)
      /\ Held(queue[e]) = {Head(queue[e])} \cup Held(Tail(queue[e]))
  BY Zenon, <1>0, <1>1, Taken
<1>4. \A f \in Engines : queue'[f] \in Seq(Ops)
  BY Zenon, <1>0, <1>2, <1>3
<1>5. UNCHANGED <<ksMeta, ksCache, ksMirror, tbMeta, tbCache, colMirror, task, made>>
  BY DEF Apply, ks
<1>6. tbMirror' \subseteq tbMirror
  BY DEF Apply
<1>7. rows' = [T \in Tables |->
                 CASE Head(queue[e]).op = "put" /\ Head(queue[e]).table = T -> Head(queue[e]).id
                   [] Head(queue[e]).op = "range" /\ T \in Head(queue[e]).tables /\ e = RowEngine -> None
                   [] OTHER -> rows[T]]
  BY Zenon DEF Apply
<1>. QED  BY Zenon, <1>2, <1>3, <1>4, <1>5, <1>6, <1>7

\* A committer keeps the types
LEMMA ApplyTypes ==
  ASSUME Types, NEW e \in Engines, Apply(e)
  PROVE  Types'
<1>1. PICK o \in Ops :
        /\ Held(queue[e]) = {o} \cup Held(queue'[e])
        /\ rows' = [T \in Tables |->
                      CASE o.op = "put" /\ o.table = T -> o.id
                        [] o.op = "range" /\ T \in o.tables /\ e = RowEngine -> None
                        [] OTHER -> rows[T]]
  BY Zenon, ApplyIs
<1>2. /\ UNCHANGED <<ksMeta, ksCache, ksMirror, tbMeta, tbCache, colMirror, task, made>>
      /\ tbMirror' \subseteq tbMirror
      /\ DOMAIN queue' = Engines /\ \A f \in Engines : queue'[f] \in Seq(Ops)
      /\ \A f \in Engines : f # e => Held(queue'[f]) = Held(queue[f])
  BY Zenon, ApplyIs
<1>3. rows' \in [Tables -> 0 .. MaxDefs \cup {None}]
  <2>1. o.op = "put" => o.id \in 0 .. MaxDefs
    BY Zenon DEF Ops
  <2>. QED  BY Zenon, <1>1, <2>1, DataNow DEF Data
<1>4. Data'
  BY <1>2, <1>3, DataNow DEF Data
<1>5. \A f \in Engines : Held(queue'[f]) \subseteq Held(queue[f])
  BY <1>1, <1>2
<1>6. DOMAIN task' = Tasks /\ \A t \in Tasks : Rec(task'[t])
  BY Zenon, <1>2 DEF Types, TypeOK
<1>7. \A f \in Engines : \A p \in Held(queue'[f]) :
        p.op # "unmirror" => p.by \in Tasks /\ task'[p.by].pc \in Owing
  BY Zenon, <1>2, <1>5 DEF Types
<1>. QED  BY Zenon, <1>2, <1>4, <1>6, <1>7, TypesNext

-----------------------------------------------------------------------------
\* The server starts with idle tasks and empty pipelines
LEMMA TypesInit == Init => Types
<1>. SUFFICES ASSUME Init PROVE Types
  OBVIOUS
<1>1. PICK D \in [Tables -> {None, [id |-> 0, cols |-> Cols]}] :
        /\ tbMeta = D
        /\ tbMirror = {T \in Tables : D[T] # None}
        /\ colMirror = tbMirror \X Cols
        /\ rows = [T \in Tables |-> IF D[T] = None THEN None ELSE 0]
        /\ ksMeta \in {x \in BOOLEAN : tbMirror # {} => x}
        /\ ksMirror = ksMeta
  BY Zenon DEF Init
<1>2. [id |-> 0, cols |-> Cols] \in TableDef /\ 0 \in 0 .. MaxDefs
  <2>1. 0 \in 0 .. MaxDefs
    BY SchemaConstants
  <2>2. Cols \in SUBSET Cols /\ Cols \notin {{}}
    BY Zenon, SchemaConstants
  <2>3. Cols \in (SUBSET Cols) \ {{}}
    BY Zenon, <2>2
  <2>. QED  BY <2>1, <2>3 DEF TableDef
<1>3. tbMeta \in [Tables -> TableDef \cup {None}]
  BY Zenon, <1>1, <1>2
<1>4. Data
  <2>1. tbCache \in [Tables -> TableDef \cup {None}] /\ ksCache = FALSE /\ made = 0
    BY DEF Init
  <2>2. {ksMeta, ksCache, ksMirror} \subseteq BOOLEAN
    BY Zenon, <1>1, <2>1
  <2>3. tbMirror \subseteq Tables /\ colMirror \subseteq Tables \X Cols
    BY <1>1
  <2>4. rows \in [Tables -> 0 .. MaxDefs \cup {None}]
    BY Zenon, <1>1, <1>2
  <2>. QED  BY Zenon, <1>2, <1>3, <2>1, <2>2, <2>3, <2>4 DEF Data
<1>5. /\ DOMAIN task = Tasks /\ DOMAIN queue = Engines
      /\ \A t \in Tasks : task[t] = Idle
      /\ \A e \in Engines : queue[e] = <<>>
  BY DEF Init
<1>6. Rec(Idle)
  BY PlainRec DEF Idle
<1>7. TypeOK
  <2>1. \A e \in Engines : \A i \in DOMAIN queue[e] : FALSE
    BY <1>5
  <2>. QED  BY Zenon, <1>4, <1>5, <2>1 DEF TypeOK, Data
<1>8. \A e \in Engines : queue[e] \in Seq(Ops)
  <2>1. <<>> \in Seq(Ops)
    OBVIOUS
  <2>. QED  BY Zenon, <1>5, <2>1
<1>9. \A e \in Engines : Held(queue[e]) = {}
  BY Zenon, <1>5, EmptyHolds
<1>10. \A e \in Engines : \A o \in Held(queue[e]) :
         o.op # "unmirror" => o.by \in Tasks /\ task[o.by].pc \in Owing
  BY <1>9
<1>. QED  BY Zenon, <1>5, <1>6, <1>7, <1>8, <1>10 DEF Types

\* A step of a task, whatever its statement
Step(t) ==
  \/ BeginCreateTable(t) \/ BeginOnTable(t, "drop_table") \/ BeginOnTable(t, "insert")
  \/ BeginOnKeyspace(t, "create_keyspace") \/ BeginOnKeyspace(t, "drop_keyspace")
  \/ BeginOnKeyspace(t, "use")
  \/ TableHit(t) \/ TableMiss(t) \/ ReadTable(t) \/ CacheTable(t)
  \/ KeyspaceHit(t) \/ KeyspaceMiss(t) \/ ReadKeyspace(t) \/ CacheKeyspace(t)
  \/ PutKeyspace(t) \/ PutTable(t) \/ MirrorColumn(t)
  \/ DropTable(t) \/ UnmirrorColumn(t) \/ DropKeyspace(t) \/ UnmirrorKeyspace(t)
  \/ PutRow(t) \/ Settle(t)

\* A step is that of a task or of a committer
LEMMA StepIs ==
  ASSUME Next
  PROVE  (\E t \in Tasks : Step(t)) \/ \E e \in Engines : Apply(e)
  BY Zenon DEF Next, Ddl, Dml, Lookup, Tasks, Step

\* Every step keeps the types
LEMMA TypesStep ==
  ASSUME Types, Next
  PROVE  Types'
<1>1. ASSUME NEW t \in Tasks,
             \/ BeginCreateTable(t) \/ BeginOnTable(t, "drop_table") \/ BeginOnTable(t, "insert")
             \/ BeginOnKeyspace(t, "create_keyspace") \/ BeginOnKeyspace(t, "drop_keyspace")
             \/ BeginOnKeyspace(t, "use") \/ PutRow(t) \/ Settle(t)
      PROVE  Types'
  <2>1. "drop_table" \in {"drop_table", "insert"} /\ "insert" \in {"drop_table", "insert"}
    BY Zenon
  <2>. QED  BY Zenon, <1>1, <2>1, OtherTypes
<1>. QED  BY Zenon, <1>1, StepIs, LookupTableTypes, CreateTypes, DropTypes, ApplyTypes DEF Step

\* A stuttering step keeps them too
LEMMA TypesStutter ==
  ASSUME Types, UNCHANGED vars
  PROVE  Types'
<1>1. UNCHANGED <<ksMeta, ksCache, ksMirror, tbMeta, tbCache, tbMirror, colMirror, rows, queue, task, made>>
  BY DEF vars, ks, tb
<1>2. TypeOK'
  BY Zenon, <1>1 DEF Types, TypeOK
<1>3. /\ \A t \in Tasks : Rec(task'[t])
      /\ \A e \in Engines : queue'[e] \in Seq(Ops)
      /\ \A e \in Engines : \A o \in Held(queue'[e]) :
           o.op # "unmirror" => o.by \in Tasks /\ task'[o.by].pc \in Owing
  BY Zenon, <1>1 DEF Types
<1>4. (\A t \in Tasks : Rec(task[t]))'
  BY Zenon, <1>1, <1>3 DEF Rec
<1>. QED  BY Zenon, <1>1, <1>2, <1>3, <1>4 DEF Types, Held

\* The types are an invariant
LEMMA TypesAlways == Spec => []Types
<1>1. Types /\ [Next]_vars => Types'
  BY Zenon, TypesStep, TypesStutter
<1>. QED  BY TypesInit, <1>1, PTL DEF Spec

\* The definitions in engine 0 and in the cache, the mirrors, the rows and the
\* tasks have their types however statements interleave, and no response leaves
\* while an operation whose ticket its statement holds is still in a pipeline:
\* settle awaits each of them
THEOREM TypeCorrect == Spec => []TypeOK
<1>1. Types => TypeOK
  BY DEF Types
<1>. QED  BY TypesAlways, <1>1, PTL
=============================================================================
