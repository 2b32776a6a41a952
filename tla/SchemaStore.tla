---------------------------- MODULE SchemaStore ----------------------------
(***************************************************************************)
(* DDL: the keyspace and table definitions kept in engine 0 (ks!, tb!),    *)
(* their in-memory caches, their mirrors in system_schema, and the rows of *)
(* the tables.  A statement is a sequence of steps, one per access to an   *)
(* engine, to a cache or to a write pipeline; there is no schema lock.     *)
(***************************************************************************)
EXTENDS Integers, Sequences

CONSTANTS
  Tables,        \* tables of one keyspace
  Cols,          \* column names
  Engines,
  MirrorEngine,  \* the engine of the keyspace's system_schema.tables rows
  RowEngine,     \* the engine of the row that INSERT writes
  DdlTasks,      \* tasks that run DDL, one statement at a time
  DmlTasks,      \* tasks that run USE and INSERT
  None,
  MaxDefs        \* bound of the model: CREATE TABLEs

\* A TableDef: which CREATE TABLE made it and its columns
TableDef == [id : 0 .. MaxDefs, cols : (SUBSET Cols) \ {{}}]

ASSUME SchemaConstants ==
  /\ MirrorEngine \in Engines
  /\ RowEngine \in Engines
  /\ DdlTasks # {}
  /\ Cols # {}
  /\ MaxDefs \in Nat
  /\ None \notin TableDef

Tasks == DdlTasks \cup DmlTasks

VARIABLES
  ksMeta, ksCache, ksMirror,  \* is the keyspace in engine 0, Storage::keyspaces,
                              \* system_schema.keyspaces
  tbMeta, tbCache,            \* definitions in engine 0 and in Storage::tables
  tbMirror,                   \* rows of system_schema.tables
  colMirror,                  \* rows of system_schema.columns
  rows,      \* per table: the definition its row was written under
  queue,     \* per engine: operations sent to its pipeline
  task,      \* what each task is doing
  made,      \* number of CREATE TABLEs begun
  overlap,   \* history: whether two statements were ever in execution at once
  clash      \* history: whether two were ever changing the schema at once

ks == <<ksMeta, ksCache, ksMirror>>
tb == <<tbMeta, tbCache, tbMirror, colMirror>>
vars == <<ks, tb, rows, queue, task, made, overlap, clash>>

Idle == [pc |-> "idle"]

\* Every variable has its type, and no task is idle while a pipeline holds an
\* operation whose ticket it has to await
TypeOK ==
  /\ {ksMeta, ksCache, ksMirror} \subseteq BOOLEAN
  /\ {tbMeta, tbCache} \subseteq [Tables -> TableDef \cup {None}]
  /\ tbMirror \subseteq Tables
  /\ colMirror \subseteq Tables \X Cols
  /\ rows \in [Tables -> 0 .. MaxDefs \cup {None}]
  /\ DOMAIN queue = Engines
  /\ DOMAIN task = Tasks
  /\ made \in 0 .. MaxDefs
  /\ \A e \in Engines : \A i \in DOMAIN queue[e] :
       queue[e][i].by = None \/ task[queue[e][i].by] # Idle

-----------------------------------------------------------------------------
Goto(t, pc) == task' = [task EXCEPT ![t].pc = pc]
Finish(t) == task' = [task EXCEPT ![t] = Idle]

\* A statement begins by looking up its table or its keyspace; read is the
\* definition that get_table has found in engine 0
BeginCreateTable(t) ==
  \E T \in Tables, C \in (SUBSET Cols) \ {{}} :
    /\ task[t] = Idle
    /\ made < MaxDefs
    /\ made' = made + 1
    /\ task' = [task EXCEPT ![t] = [pc |-> "get_table", stmt |-> "create_table", table |-> T,
                                    def |-> [id |-> made + 1, cols |-> C], read |-> None]]
    /\ UNCHANGED <<ks, tb, rows, queue>>

BeginOnTable(t, stmt) ==
  \E T \in Tables :
    /\ task[t] = Idle
    /\ task' = [task EXCEPT ![t] = [pc |-> "get_table", stmt |-> stmt, table |-> T,
                                    read |-> None]]
    /\ UNCHANGED <<ks, tb, rows, queue, made>>

BeginOnKeyspace(t, stmt) ==
  /\ task[t] = Idle
  /\ task' = [task EXCEPT ![t] = [pc |-> "get_keyspace", stmt |-> stmt]]
  /\ UNCHANGED <<ks, tb, rows, queue, made>>

-----------------------------------------------------------------------------
\* What a statement does once get_table returned d
WithTable(t, d) ==
  task' = [task EXCEPT ![t] =
             CASE @.stmt = "create_table" /\ d = None -> [@ EXCEPT !.pc = "put_table"]
               [] @.stmt = "drop_table" /\ d # None   -> [@ EXCEPT !.pc = "delete_table"]
               [] @.stmt = "insert" /\ d # None       ->
                    [pc |-> "put_row", table |-> @.table, id |-> d.id]
               [] OTHER -> Idle]

\* get_table: a hit in the cache under its read lock
TableHit(t) ==
  /\ task[t].pc = "get_table"
  /\ tbCache[task[t].table] # None
  /\ WithTable(t, tbCache[task[t].table])
  /\ UNCHANGED <<ks, tb, rows, queue, made>>

TableMiss(t) ==
  /\ task[t].pc = "get_table"
  /\ tbCache[task[t].table] = None
  /\ Goto(t, "read_table")
  /\ UNCHANGED <<ks, tb, rows, queue, made>>

\* get_table: the definition is read from engine 0 ...
ReadTable(t) ==
  LET d == tbMeta[task[t].table] IN
  /\ task[t].pc = "read_table"
  /\ IF d = None THEN WithTable(t, d)
     ELSE task' = [task EXCEPT ![t].pc = "cache_table", ![t].read = d]
  /\ UNCHANGED <<ks, tb, rows, queue, made>>

\* ... and put into the cache
CacheTable(t) ==
  /\ task[t].pc = "cache_table"
  /\ tbCache' = [tbCache EXCEPT ![task[t].table] = task[t].read]
  /\ WithTable(t, task[t].read)
  /\ UNCHANGED <<ks, tbMeta, tbMirror, colMirror, rows, queue, made>>

\* What a statement does once get_keyspace returned
WithKeyspace(t, found) ==
  task' = [task EXCEPT ![t] =
             CASE @.stmt = "create_keyspace" /\ ~found -> [pc |-> "put_keyspace"]
               [] @.stmt = "drop_keyspace" /\ found    -> [pc |-> "delete_keyspace"]
               [] OTHER -> Idle]

\* get_keyspace, with the same three steps
KeyspaceHit(t) ==
  /\ task[t].pc = "get_keyspace"
  /\ ksCache
  /\ WithKeyspace(t, TRUE)
  /\ UNCHANGED <<ks, tb, rows, queue, made>>

KeyspaceMiss(t) ==
  /\ task[t].pc = "get_keyspace"
  /\ ~ksCache
  /\ Goto(t, "read_keyspace")
  /\ UNCHANGED <<ks, tb, rows, queue, made>>

ReadKeyspace(t) ==
  /\ task[t].pc = "read_keyspace"
  /\ IF ksMeta THEN Goto(t, "cache_keyspace") ELSE WithKeyspace(t, FALSE)
  /\ UNCHANGED <<ks, tb, rows, queue, made>>

CacheKeyspace(t) ==
  /\ task[t].pc = "cache_keyspace"
  /\ ksCache' = TRUE
  /\ WithKeyspace(t, TRUE)
  /\ UNCHANGED <<ksMeta, ksMirror, tb, rows, queue, made>>

-----------------------------------------------------------------------------
\* exec_create_keyspace: put_keyspace (engine, then cache), then the mirror
PutKeyspace(t) ==
  /\ \/ /\ task[t].pc = "put_keyspace"
        /\ ksMeta' = TRUE /\ UNCHANGED <<ksCache, ksMirror>>
        /\ Goto(t, "put_keyspace_cache")
     \/ /\ task[t].pc = "put_keyspace_cache"
        /\ ksCache' = TRUE /\ UNCHANGED <<ksMeta, ksMirror>>
        /\ Goto(t, "mirror_keyspace")
     \/ /\ task[t].pc = "mirror_keyspace"
        /\ ksMirror' = TRUE /\ UNCHANGED <<ksMeta, ksCache>>
        /\ Finish(t)
  /\ UNCHANGED <<tb, rows, queue, made>>

\* exec_create_table: put_table (engine, then cache), then the mirror rows
PutTable(t) ==
  LET T == task[t].table
      d == task[t].def
  IN
  /\ \/ /\ task[t].pc = "put_table"
        /\ tbMeta' = [tbMeta EXCEPT ![T] = d] /\ UNCHANGED <<tbCache, tbMirror, colMirror>>
        /\ Goto(t, "put_table_cache")
     \/ /\ task[t].pc = "put_table_cache"
        /\ tbCache' = [tbCache EXCEPT ![T] = d] /\ UNCHANGED <<tbMeta, tbMirror, colMirror>>
        /\ Goto(t, "mirror_table")
     \/ /\ task[t].pc = "mirror_table"
        /\ tbMirror' = tbMirror \cup {T} /\ UNCHANGED <<tbMeta, tbCache, colMirror>>
        /\ task' = [task EXCEPT ![t] = [pc |-> "mirror_columns", table |-> T, todo |-> d.cols]]
  /\ UNCHANGED <<ks, rows, queue, made>>

\* Variant: only one column is mirrored
MirrorOneColumn(t) ==
  /\ task[t].pc = "mirror_columns"
  /\ \E c \in task[t].todo : colMirror' = colMirror \cup {<<task[t].table, c>>}
  /\ Finish(t)
  /\ UNCHANGED <<ks, tbMeta, tbCache, tbMirror, rows, queue, made>>

\* mirror_table_metadata, the loop over the columns
MirrorColumn(t) ==
  /\ task[t].pc = "mirror_columns"
  /\ \E c \in task[t].todo :
       /\ colMirror' = colMirror \cup {<<task[t].table, c>>}
       /\ task' = [task EXCEPT ![t] = IF @.todo = {c} THEN Idle
                                      ELSE [task[t] EXCEPT !.todo = @ \ {c}]]
  /\ UNCHANGED <<ks, tbMeta, tbCache, tbMirror, rows, queue, made>>

-----------------------------------------------------------------------------
\* An operation sent to a pipeline: what it removes or puts, and the task
\* that holds its ticket
Enqueue(e, op) == queue' = [queue EXCEPT ![e] = Append(@, op)]
\* Variant: the range tombstone goes to the engine of the metadata only
EnqueueOne(op) == Enqueue(MirrorEngine, op)
\* The loop of delete_data_prefix over the engines, in one step: on an engine
\* without rows of the table a tombstone changes nothing but its own ticket
EnqueueAll(op) == queue' = [e \in Engines |-> Append(queue[e], op)]

\* Variant: the entries stay
KeepCached(Ts) == UNCHANGED tbCache
\* tables.remove, or retain: the definitions of Ts leave the cache
Uncache(Ts) == tbCache' = [T \in Tables |-> IF T \in Ts THEN None ELSE tbCache[T]]

RangeDelete(t, Ts) == [op |-> "range", tables |-> Ts, by |-> t]

\* exec_drop_table: delete_table removes the definition from engine 0, sends
\* the range tombstones and only then drops the cache entry; the deletion of
\* the system_schema.tables row is sent to its pipeline and its ticket is
\* dropped; the columns rows are scanned, then deleted one by one
DropTable(t) ==
  LET T == task[t].table IN
  /\ \/ /\ task[t].pc = "delete_table"
        /\ tbMeta' = [tbMeta EXCEPT ![T] = None] /\ UNCHANGED <<tbCache, queue>>
        /\ Goto(t, "table_range")
     \/ /\ task[t].pc = "table_range"
        /\ EnqueueAll(RangeDelete(t, {T})) /\ UNCHANGED <<tbMeta, tbCache>>
        /\ Goto(t, "uncache_table")
     \/ /\ task[t].pc = "uncache_table"
        /\ Uncache({T}) /\ UNCHANGED <<tbMeta, queue>>
        /\ Goto(t, "unmirror_table")
     \/ /\ task[t].pc = "unmirror_table"
        /\ Enqueue(MirrorEngine, [op |-> "unmirror", table |-> T, by |-> None])
        /\ UNCHANGED <<tbMeta, tbCache>>
        /\ Goto(t, "scan_columns")
     \/ /\ task[t].pc = "scan_columns"
        /\ UNCHANGED <<tbMeta, tbCache, queue>>
        /\ task' = [task EXCEPT ![t] = [pc |-> "unmirror_columns",
                                        todo |-> {x \in colMirror : x[1] = T}]]
  /\ UNCHANGED <<ks, tbMirror, colMirror, rows, made>>

\* delete_system_schema_partition: delete_row_sync for each row of the scan
UnmirrorColumn(t) ==
  /\ task[t].pc = "unmirror_columns"
  /\ \/ \E x \in task[t].todo :
          /\ colMirror' = colMirror \ {x}
          /\ task' = [task EXCEPT ![t].todo = @ \ {x}]
     \/ /\ task[t].todo = {}
        /\ UNCHANGED colMirror
        /\ task' = [task EXCEPT ![t] = [pc |-> "settle"]]
  /\ UNCHANGED <<ks, tbMeta, tbCache, tbMirror, rows, queue, made>>

\* exec_drop_keyspace: delete_keyspace, then the three mirror partitions
DropKeyspace(t) ==
  /\ \/ /\ task[t].pc = "delete_keyspace"
        /\ ksMeta' = FALSE /\ UNCHANGED <<ksCache, tb, queue>>
        /\ Goto(t, "delete_tables")
     \/ /\ task[t].pc = "delete_tables"
        /\ tbMeta' = [T \in Tables |-> None]
        /\ UNCHANGED <<ksMeta, ksCache, tbCache, tbMirror, colMirror, queue>>
        /\ Goto(t, "keyspace_range")
     \/ /\ task[t].pc = "keyspace_range"
        /\ EnqueueAll(RangeDelete(t, Tables)) /\ UNCHANGED <<ksMeta, ksCache, tb>>
        /\ Goto(t, "uncache_keyspace")
     \/ /\ task[t].pc = "uncache_keyspace"
        /\ ksCache' = FALSE /\ UNCHANGED <<ksMeta, tb, queue>>
        /\ Goto(t, "uncache_tables")
     \/ /\ task[t].pc = "uncache_tables"
        /\ Uncache(Tables)
        /\ UNCHANGED <<ksMeta, ksCache, tbMeta, tbMirror, colMirror, queue>>
        /\ Goto(t, "unmirror_keyspace")
  /\ UNCHANGED <<ksMirror, rows, made>>

UnmirrorKeyspace(t) ==
  /\ \/ /\ task[t].pc = "unmirror_keyspace"
        /\ ksMirror' = FALSE /\ UNCHANGED tbMirror
        /\ Goto(t, "scan_tables")
     \/ /\ task[t].pc = "scan_tables"
        /\ UNCHANGED <<ksMirror, tbMirror>>
        /\ task' = [task EXCEPT ![t] = [pc |-> "unmirror_tables", todo |-> tbMirror]]
     \/ /\ task[t].pc = "unmirror_tables"
        /\ \E T \in task[t].todo : /\ tbMirror' = tbMirror \ {T}
                                   /\ task' = [task EXCEPT ![t].todo = @ \ {T}]
        /\ UNCHANGED ksMirror
     \/ /\ task[t].pc = "unmirror_tables" /\ task[t].todo = {}
        /\ UNCHANGED <<ksMirror, tbMirror>>
        /\ task' = [task EXCEPT ![t] = [pc |-> "unmirror_columns", todo |-> colMirror]]
  /\ UNCHANGED <<ksMeta, ksCache, tbMeta, tbCache, colMirror, rows, queue, made>>

-----------------------------------------------------------------------------
\* exec_insert, once its table is resolved
PutRow(t) ==
  /\ task[t].pc = "put_row"
  /\ Enqueue(RowEngine, [op |-> "put", table |-> task[t].table, id |-> task[t].id, by |-> t])
  /\ task' = [task EXCEPT ![t] = [pc |-> "settle"]]
  /\ UNCHANGED <<ks, tb, rows, made>>

\* Variant: the tickets are not awaited
SettleAtOnce(t) ==
  /\ task[t].pc = "settle"
  /\ Finish(t)
  /\ UNCHANGED <<ks, tb, rows, queue, made>>

\* settle: the response leaves once none of the request's operations is queued
Settle(t) ==
  /\ task[t].pc = "settle"
  /\ \A e \in Engines : \A i \in DOMAIN queue[e] : queue[e][i].by # t
  /\ Finish(t)
  /\ UNCHANGED <<ks, tb, rows, queue, made>>

\* The pipeline of engine e applies its next operation
Apply(e) ==
  /\ queue[e] # <<>>
  /\ LET o == Head(queue[e]) IN
     /\ rows' = [T \in Tables |->
                   CASE o.op = "put" /\ o.table = T -> o.id
                     [] o.op = "range" /\ T \in o.tables /\ e = RowEngine -> None
                     [] OTHER -> rows[T]]
     /\ tbMirror' = IF o.op = "unmirror" THEN tbMirror \ {o.table} ELSE tbMirror
  /\ queue' = [queue EXCEPT ![e] = Tail(@)]
  /\ UNCHANGED <<ks, tbMeta, tbCache, colMirror, task, made>>

-----------------------------------------------------------------------------
\* The server starts on what an earlier run left: nothing, or the keyspace
\* and a table with a row.  The caches are empty
Init ==
  /\ \E D \in [Tables -> {None, [id |-> 0, cols |-> Cols]}] :
       /\ tbMeta = D
       /\ tbMirror = {T \in Tables : D[T] # None}
       /\ colMirror = tbMirror \X Cols
       /\ rows = [T \in Tables |-> IF D[T] = None THEN None ELSE 0]
       /\ ksMeta \in {x \in BOOLEAN : tbMirror # {} => x}
       /\ ksMirror = ksMeta
  /\ ksCache = FALSE
  /\ tbCache = [T \in Tables |-> None]
  /\ queue = [e \in Engines |-> <<>>]
  /\ task = [t \in Tasks |-> Idle]
  /\ made = 0
  /\ overlap = FALSE
  /\ clash = FALSE

Ddl(t) ==
  \/ BeginCreateTable(t) \/ BeginOnTable(t, "drop_table")
  \/ BeginOnKeyspace(t, "create_keyspace") \/ BeginOnKeyspace(t, "drop_keyspace")
  \/ PutKeyspace(t) \/ PutTable(t) \/ MirrorColumn(t)
  \/ DropTable(t) \/ UnmirrorColumn(t) \/ DropKeyspace(t) \/ UnmirrorKeyspace(t)

Dml(t) == BeginOnTable(t, "insert") \/ BeginOnKeyspace(t, "use") \/ PutRow(t)

Lookup(t) ==
  \/ TableHit(t) \/ TableMiss(t) \/ ReadTable(t) \/ CacheTable(t)
  \/ KeyspaceHit(t) \/ KeyspaceMiss(t) \/ ReadKeyspace(t) \/ CacheKeyspace(t)

\* A statement that passed its existence check and has not yet done its last
\* change of a definition or a mirror
Changing(r) ==
  r.pc \in {"put_keyspace", "put_keyspace_cache", "mirror_keyspace",
            "put_table", "put_table_cache", "mirror_table", "mirror_columns",
            "delete_table", "table_range", "uncache_table", "unmirror_table", "scan_columns",
            "unmirror_columns",
            "delete_keyspace", "delete_tables", "keyspace_range", "uncache_keyspace",
            "uncache_tables", "unmirror_keyspace", "scan_tables", "unmirror_tables"}

Next ==
  /\ \/ \E t \in DdlTasks : Ddl(t)
     \/ \E t \in DmlTasks : Dml(t)
     \/ \E t \in Tasks : Lookup(t) \/ Settle(t)
     \/ \E e \in Engines : Apply(e)
  /\ overlap' = (overlap \/ \E t, u \in Tasks : t # u /\ Idle \notin {task'[t], task'[u]})
  /\ clash' = (clash \/ \E t, u \in Tasks : t # u /\ Changing(task'[t]) /\ Changing(task'[u]))

Spec == Init /\ [][Next]_vars

-----------------------------------------------------------------------------
AtRest == (\A t \in Tasks : task[t] = Idle) /\ (\A e \in Engines : queue[e] = <<>>)

\* DDL leaves the caches with the definitions engine 0 holds: after statements
\* that did not overlap no lookup finds a table or keyspace that was dropped,
\* or an old definition
SchemaCacheCoherent ==
  AtRest /\ ~overlap =>
            /\ ksCache => ksMeta
            /\ \A T \in Tables : tbCache[T] # None => tbCache[T] = tbMeta[T]

\* system_schema.keyspaces and columns describe exactly what engine 0 holds,
\* whatever ran next to each other, DDL included, as long as no two statements
\* were changing the schema at once: a stale lookup makes a statement drop
\* what is gone, or leave out its change, and the mirrors still follow
ColumnsMirrored ==
  AtRest /\ ~clash =>
            /\ ksMirror = ksMeta
            /\ colMirror = UNION {{T} \X tbMeta[T].cols : T \in {S \in Tables : tbMeta[S] # None}}

\* system_schema.tables lists exactly the tables engine 0 holds
TablesMirrored == AtRest => tbMirror = {T \in Tables : tbMeta[T] # None}

\* A dropped table leaves no row behind: after statements that did not overlap
\* every row was written under the definition its table has now
RowsHaveTheirTable ==
  AtRest /\ ~overlap => \A T \in Tables : rows[T] # None => tbMeta[T] # None /\ rows[T] = tbMeta[T].id
=============================================================================
