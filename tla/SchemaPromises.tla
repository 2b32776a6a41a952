--------------------------- MODULE SchemaPromises ---------------------------
(***************************************************************************)
(* What SchemaStore promises, proved for any tables, columns, engines and  *)
(* tasks: the schema caches and the rows agree with engine 0 after         *)
(* statements that did not overlap, and the mirrors of system_schema after *)
(* statements that did not change the schema at once.  The invariants say  *)
(* what a task that is at a given pc has behind it.                        *)
(***************************************************************************)
EXTENDS SchemaStoreProofs

\* No other request is in execution
Alone(t) == \A u \in Tasks : u # t => task[u] = Idle

\* Requests overlap only if that is recorded
Solo == ~overlap => \A t, u \in Tasks : t # u => task[t] = Idle \/ task[u] = Idle

\* The cached definition of table T may be that of a table being dropped
Dropping(r, T) ==
  \/ r.pc \in {"keyspace_range", "uncache_keyspace", "uncache_tables"}
  \/ r.pc \in {"table_range", "uncache_table"} /\ r.table = T

\* T's definition is that of the CREATE TABLE numbered id
Fits(T, id) == tbMeta[T] # None /\ id = tbMeta[T].id

\* The caches are coherent but for what t is dropping, and what t has read
\* is what engine 0 holds
Caches(t) ==
  LET r == task[t] IN
  /\ ksCache /\ ~ksMeta => r.pc \in {"delete_tables", "keyspace_range", "uncache_keyspace"}
  /\ \A T \in Tables : tbCache[T] \in {None, tbMeta[T]} \/ Dropping(r, T)
  /\ r.pc \in {"cache_keyspace", "put_keyspace_cache"} => ksMeta
  /\ r.pc = "cache_table" => r.read = tbMeta[r.table]
  /\ r.pc = "put_table" => tbMeta[r.table] = None
  /\ r.pc = "put_table_cache" => tbMeta[r.table] = r.def
  /\ r.pc = "put_row" => Fits(r.table, r.id)

\* A range tombstone for the rows of T is in the pipeline, or t will send one
Doomed(t, T) ==
  \/ task[t].pc = "keyspace_range"
  \/ task[t].pc = "table_range" /\ task[t].table = T
  \/ \E o \in Held(queue[RowEngine]) : o.op = "range" /\ T \in o.tables

\* A row, written or queued, is of the table's definition, or doomed
Rows(t) ==
  /\ \A e \in Engines : \A o \in Held(queue[e]) : o.op = "put" => Fits(o.table, o.id)
  /\ \A T \in Tables : rows[T] = None \/ Fits(T, rows[T]) \/ Doomed(t, T)

\* Without overlap, the task that is not idle knows what is in disorder
Ordered == ~overlap => \A t \in Tasks : Alone(t) => Caches(t) /\ Rows(t)

Filling == {"put_keyspace_cache", "mirror_keyspace"}
Emptying == {"delete_tables", "keyspace_range", "uncache_keyspace", "uncache_tables",
             "unmirror_keyspace"}
DroppingOne == {"table_range", "uncache_table", "unmirror_table", "scan_columns"}
DroppingAll == {"keyspace_range", "uncache_keyspace", "uncache_tables", "unmirror_keyspace",
                "scan_tables", "unmirror_tables"}

\* Column c of table T is mirrored, and t is not about to remove it
Shown(t, T, c) ==
  <<T, c>> \in colMirror /\ ~(task[t].pc = "unmirror_columns" /\ <<T, c>> \in task[t].todo)

\* T has the column c, and t is not still to mirror it
Told(t, T, c) ==
  /\ tbMeta[T] # None /\ c \in tbMeta[T].cols
  /\ ~(task[t].pc \in {"put_table_cache", "mirror_table"} /\ task[t].table = T)
  /\ ~(task[t].pc = "mirror_columns" /\ task[t].table = T /\ c \in task[t].todo)

\* The mirrors are right but for what the DDL of t is changing
Mirrors(t) ==
  LET r == task[t] IN
  /\ ksMirror = ksMeta \/ r.pc \in Filling \cup Emptying
  /\ (r.pc \in Filling => ksMeta) /\ (r.pc \in Emptying => ~ksMeta)
  /\ r.pc = "put_table" => tbMeta[r.table] = None
  /\ r.pc \in {"put_table_cache", "mirror_table"} => tbMeta[r.table] = r.def
  /\ r.pc = "mirror_columns" => tbMeta[r.table] # None /\ r.todo \subseteq tbMeta[r.table].cols
  /\ r.pc \in DroppingOne => tbMeta[r.table] = None
  /\ r.pc \in DroppingAll => \A T \in Tables : tbMeta[T] = None
  /\ \A T \in Tables, c \in Cols :
       \/ Shown(t, T, c) <=> Told(t, T, c)
       \/ r.pc \in DroppingAll \/ (r.pc \in DroppingOne /\ r.table = T)

-----------------------------------------------------------------------------
\* The pcs at which Caches says something of the task or of a disorder
Marked == {"delete_tables", "keyspace_range", "uncache_keyspace", "uncache_tables", "table_range",
           "uncache_table", "cache_keyspace", "put_keyspace_cache", "cache_table", "put_table",
           "put_table_cache", "put_row"}

\* A step that touches neither definitions nor caches
LEMMA CachesQuiet ==
  ASSUME NEW t \in Tasks, Caches(t), UNCHANGED <<ksMeta, ksCache, tbMeta, tbCache>>,
         task[t].pc \notin Marked, task'[t].pc \notin Marked
  PROVE  Caches(t)'
  BY DEF Caches, Dropping, Marked

\* A step that touches neither definitions nor rows
LEMMA RowsQuiet ==
  ASSUME NEW t \in Tasks, Rows(t), UNCHANGED <<tbMeta, rows, queue>>,
         task[t].pc \notin {"keyspace_range", "table_range"}
  PROVE  Rows(t)'
  BY DEF Rows, Fits, Doomed, Held

\* A statement begins
LEMMA BeginKeeps ==
  ASSUME Types, NEW t \in Tasks, Caches(t), Rows(t), NEW s \in {"drop_table", "insert"}, NEW k,
         BeginCreateTable(t) \/ BeginOnTable(t, s) \/ BeginOnKeyspace(t, k)
  PROVE  Caches(t)' /\ Rows(t)'
<1>1. /\ task[t] = Idle /\ task'[t].pc \in {"get_table", "get_keyspace"}
      /\ UNCHANGED <<ksMeta, ksCache, tbMeta, tbCache, rows, queue>>
  BY Zenon, BeginIs
<1>2. task[t].pc \notin Marked /\ task'[t].pc \notin Marked
  BY <1>1, IdlePc DEF Marked
<1>3. task[t].pc \notin {"keyspace_range", "table_range"}
  BY <1>1, IdlePc
<1>. QED  BY Zenon, <1>1, <1>2, <1>3, CachesQuiet, RowsQuiet

\* get_table finds what engine 0 holds
LEMMA LookupTableKeeps ==
  ASSUME Types, NEW t \in Tasks, Caches(t), Rows(t),
         TableHit(t) \/ TableMiss(t) \/ ReadTable(t) \/ CacheTable(t)
  PROVE  Caches(t)' /\ Rows(t)'
<1>. DEFINE r == task[t]
            s == task'[t]
            Keeps(x) ==
              /\ x.pc \in {"read_table", "cache_table", "put_table", "delete_table", "put_row", "idle"}
              /\ x.pc = "cache_table" => x.read = tbMeta[x.table]
              /\ x.pc = "put_table" => tbMeta[x.table] = None
              /\ x.pc = "put_row" => Fits(x.table, x.id)
<1>1. r.pc \in Looking /\ UNCHANGED <<ksMeta, ksCache, tbMeta, rows, queue>>
  BY Zenon, LookupTableIs
<1>2. Rows(t)'
  <2>1. r.pc \notin {"keyspace_range", "table_range"}
    BY <1>1 DEF Looking
  <2>. QED  BY Zenon, <1>1, <2>1, RowsQuiet
<1>3. /\ {"pc", "read", "stmt", "table"} \subseteq DOMAIN r /\ r.table \in Tables
      /\ r.pc = "cache_table" => r.read \in TableDef /\ r.read = tbMeta[r.table]
      /\ None \notin TableDef
  BY <1>1, SchemaConstants DEF Types, Rec, Looking, Caches
<1>4. /\ ksCache => ksMeta
      /\ \A T \in Tables : tbCache[T] \in {None, tbMeta[T]}
  BY <1>1 DEF Caches, Dropping, Looking
<1>5. \A T \in Tables : tbCache'[T] \in {None, tbMeta[T]}
  <2>1. tbCache' = tbCache \/ (r.pc = "cache_table" /\ tbCache' = [tbCache EXCEPT ![r.table] = r.read])
    BY Zenon, LookupTableIs
  <2>. QED  BY <1>3, <1>4, <2>1, DataNow
<1>6. Keeps(s)
  <2>1. ASSUME NEW d, Resolved(t, d), d # None => d = tbMeta[r.table], d = None => tbMeta[r.table] = None
        PROVE  Keeps(s)
    <3>1. CASE s = Idle
      BY <3>1, IdlePc
    <3>2. CASE Goes(t, "put_table") /\ d = None
      BY <1>3, <2>1, <3>2 DEF Goes
    <3>3. CASE Goes(t, "delete_table")
      BY <3>3 DEF Goes
    <3>4. CASE d # None /\ s = [pc |-> "put_row", table |-> r.table, id |-> d.id]
      BY <1>3, <2>1, <3>4 DEF Fits
    <3>. QED  BY Zenon, <2>1, <3>1, <3>2, <3>3, <3>4 DEF Resolved
  <2>2. CASE Goes(t, "read_table")
    BY <2>2 DEF Goes
  <2>3. CASE Goes(t, "cache_table") /\ s.read = tbMeta[r.table]
    BY <1>3, <2>3 DEF Goes
  <2>4. CASE tbCache[r.table] # None /\ Resolved(t, tbCache[r.table])
    <3>1. tbCache[r.table] = tbMeta[r.table]
      BY <1>3, <1>4, <2>4
    <3>. QED  BY Zenon, <2>1, <2>4, <3>1
  <2>5. CASE tbMeta[r.table] = None /\ Resolved(t, None)
    BY Zenon, <2>1, <2>5
  <2>6. CASE r.pc = "cache_table" /\ Resolved(t, r.read)
    BY Zenon, <1>3, <2>1, <2>6
  <2>. QED  BY Zenon, <2>2, <2>3, <2>4, <2>5, <2>6, LookupTableIs
<1>7. Caches(t)'
  BY <1>1, <1>4, <1>5, <1>6 DEF Caches, Fits
<1>. QED  BY <1>2, <1>7

\* get_keyspace and CREATE KEYSPACE cache a keyspace that engine 0 holds
LEMMA KeyspaceKeeps ==
  ASSUME Types, NEW t \in Tasks, Caches(t), Rows(t),
         \/ KeyspaceHit(t) \/ KeyspaceMiss(t) \/ ReadKeyspace(t) \/ CacheKeyspace(t)
         \/ PutKeyspace(t)
  PROVE  Caches(t)' /\ Rows(t)'
<1>. DEFINE r == task[t]
            s == task'[t]
<1>1. /\ r.pc \in {"get_keyspace", "read_keyspace", "cache_keyspace", "put_keyspace",
                   "put_keyspace_cache", "mirror_keyspace"}
      /\ s.pc \in {"idle", "read_keyspace", "cache_keyspace", "put_keyspace", "delete_keyspace",
                   "put_keyspace_cache", "mirror_keyspace"}
      /\ UNCHANGED <<tbMeta, tbCache, rows, queue>>
      /\ s.pc \in {"cache_keyspace", "put_keyspace_cache"} => ksMeta'
      /\ ksMeta => ksMeta'
      /\ ksCache' => ksCache \/ r.pc \in {"cache_keyspace", "put_keyspace_cache"}
  <2>1. CASE KeyspaceHit(t) \/ KeyspaceMiss(t) \/ ReadKeyspace(t) \/ CacheKeyspace(t)
    BY Zenon, <2>1, LookupKeyspaceIs, IdlePc
  <2>2. CASE PutKeyspace(t)
    BY Zenon, <2>2, PutKeyspaceIs, IdlePc DEF Goes
  <2>. QED  BY Zenon, <2>1, <2>2
<1>2. Rows(t)'
  <2>1. r.pc \notin {"keyspace_range", "table_range"}
    BY <1>1
  <2>. QED  BY Zenon, <1>1, <2>1, RowsQuiet
<1>3. /\ ksCache => ksMeta
      /\ \A T \in Tables : tbCache[T] \in {None, tbMeta[T]}
      /\ r.pc \in {"cache_keyspace", "put_keyspace_cache"} => ksMeta
  BY Zenon, <1>1 DEF Caches, Dropping
<1>4. Caches(t)'
  BY <1>1, <1>3 DEF Caches
<1>. QED  BY <1>2, <1>4

\* CREATE TABLE puts the definition in engine 0, then in the cache
LEMMA PutTableKeeps ==
  ASSUME Types, NEW t \in Tasks, Caches(t), Rows(t), PutTable(t)
  PROVE  Caches(t)' /\ Rows(t)'
<1>. DEFINE r == task[t]
            s == task'[t]
<1>1. /\ UNCHANGED <<ksMeta, ksCache, rows, queue>> /\ r.table \in Tables /\ r.def \in TableDef
      /\ "table" \in DOMAIN r /\ "def" \in DOMAIN r
      /\ \/ /\ r.pc = "put_table" /\ Goes(t, "put_table_cache")
            /\ tbMeta' = [tbMeta EXCEPT ![r.table] = r.def] /\ tbCache' = tbCache
         \/ /\ r.pc = "put_table_cache" /\ Goes(t, "mirror_table")
            /\ tbCache' = [tbCache EXCEPT ![r.table] = r.def] /\ tbMeta' = tbMeta
         \/ /\ r.pc = "mirror_table" /\ UNCHANGED <<tbMeta, tbCache>>
            /\ s = [pc |-> "mirror_columns", table |-> r.table, todo |-> r.def.cols]
  BY Zenon, PutTableIs
<1>2. r.pc \in {"put_table", "put_table_cache", "mirror_table"}
  BY <1>1
<1>3. /\ ksCache => ksMeta
      /\ \A T \in Tables : tbCache[T] \in {None, tbMeta[T]}
  BY <1>2 DEF Caches, Dropping
<1>4. CASE r.pc = "put_table"
  <2>1. /\ Goes(t, "put_table_cache") /\ tbMeta[r.table] = None
        /\ tbMeta' = [tbMeta EXCEPT ![r.table] = r.def] /\ tbCache' = tbCache
    BY <1>1, <1>4 DEF Caches
  <2>2. \A T \in Tables : T # r.table => tbMeta'[T] = tbMeta[T]
    BY Zenon, <2>1, DataNow
  <2>3. tbMeta'[r.table] = r.def /\ s.pc = "put_table_cache" /\ s.table = r.table /\ s.def = r.def
    BY <1>1, <2>1, DataNow DEF Goes
  <2>4. \A T \in Tables : tbCache'[T] \in {None, tbMeta'[T]}
    BY Zenon, <1>3, <2>1, <2>2
  <2>5. Caches(t)'
    BY <1>1, <1>3, <2>3, <2>4 DEF Caches
  <2>6. \A T \in Tables : \A id : Fits(T, id) => tbMeta'[T] # None /\ id = tbMeta'[T].id
    BY <2>1, <2>2 DEF Fits
  <2>7. \A e \in Engines : \A o \in Held(queue[e]) : o.op = "put" => o.table \in Tables
    <3>1. \A e \in Engines : Held(queue[e]) \subseteq Ops
      BY DEF Types, Held
    <3>. QED  BY <3>1 DEF Ops
  <2>8. Rows(t)'
    BY <1>1, <1>4, <2>6, <2>7 DEF Rows, Fits, Doomed, Held
  <2>. QED  BY Zenon, <2>5, <2>8
<1>5. CASE r.pc = "put_table_cache"
  <2>1. /\ s.pc = "mirror_table" /\ tbMeta[r.table] = r.def
        /\ tbCache' = [tbCache EXCEPT ![r.table] = r.def] /\ tbMeta' = tbMeta
    BY Zenon, <1>1, <1>5 DEF Caches, Goes
  <2>2. \A T \in Tables : tbCache'[T] \in {None, tbMeta[T]}
    BY Zenon, <1>1, <1>3, <2>1, DataNow
  <2>3. Caches(t)'
    BY <1>1, <1>3, <2>1, <2>2 DEF Caches
  <2>4. r.pc \notin {"keyspace_range", "table_range"}
    BY <1>5
  <2>. QED  BY Zenon, <1>1, <2>1, <2>3, <2>4, RowsQuiet
<1>6. CASE r.pc = "mirror_table"
  <2>1. UNCHANGED <<tbMeta, tbCache>> /\ s.pc = "mirror_columns"
    BY <1>1, <1>6
  <2>2. r.pc \notin Marked /\ s.pc \notin Marked /\ r.pc \notin {"keyspace_range", "table_range"}
    BY <1>6, <2>1 DEF Marked
  <2>. QED  BY Zenon, <1>1, <2>1, <2>2, CachesQuiet, RowsQuiet
<1>. QED  BY Zenon, <1>2, <1>4, <1>5, <1>6

\* A task that runs alone and awaits nothing has no operation in a pipeline
LEMMA NoneQueued ==
  ASSUME Types, NEW t \in Tasks, Alone(t), task[t].pc \notin Owing
  PROVE  \A e \in Engines : \A o \in Held(queue[e]) : o.op = "unmirror"
<1>1. "idle" \notin Owing
  BY Zenon DEF Owing
<1>. QED  BY Zenon, <1>1, IdlePc DEF Types, Alone

\* What is doomed stays doomed when the tombstone is sent
LEMMA RowsSent ==
  ASSUME NEW t \in Tasks, Rows(t), UNCHANGED <<tbMeta, rows>>, NEW E, NEW o, SentTo(E, o),
         o.op = "put" => Fits(o.table, o.id),
         \A T \in Tables : (\/ task[t].pc = "keyspace_range"
                            \/ task[t].pc = "table_range" /\ task[t].table = T)
                           => RowEngine \in E /\ o.op = "range" /\ T \in o.tables
  PROVE  Rows(t)'
<1>1. /\ \A e \in Engines : \A p \in Held(queue'[e]) : p \in Held(queue[e]) \/ p = o
      /\ Held(queue[RowEngine]) \subseteq Held(queue'[RowEngine])
      /\ RowEngine \in E => o \in Held(queue'[RowEngine])
  BY SchemaConstants DEF SentTo
<1>2. \A T, id : Fits(T, id) <=> tbMeta'[T] # None /\ id = tbMeta'[T].id
  BY DEF Fits
<1>3. \A e \in Engines : \A p \in Held(queue'[e]) : p.op = "put" => Fits(p.table, p.id)
  BY Zenon, <1>1 DEF Rows
<1>4. \A T \in Tables : \/ rows'[T] = None \/ Fits(T, rows'[T])
                        \/ \E p \in Held(queue'[RowEngine]) : p.op = "range" /\ T \in p.tables
  BY Zenon, <1>1 DEF Rows, Doomed
<1>. QED  BY Zenon, <1>2, <1>3, <1>4 DEF Rows, Fits, Doomed, Held

\* DROP TABLE: the definition goes first, and with it what its rows and its
\* cache entry rest on; the task still has the tombstone to send and the
\* entry to remove
LEMMA DropTableKeeps ==
  ASSUME Types, NEW t \in Tasks, Alone(t), Caches(t), Rows(t), DropTable(t)
  PROVE  Caches(t)' /\ Rows(t)'
<1>. DEFINE r == task[t]
            s == task'[t]
            T0 == task[t].table
<1>1. /\ UNCHANGED <<ksMeta, ksCache, rows>> /\ "table" \in DOMAIN r /\ T0 \in Tables
      /\ \/ /\ r.pc = "delete_table" /\ Goes(t, "table_range")
            /\ tbMeta' = [tbMeta EXCEPT ![T0] = None] /\ UNCHANGED <<tbCache, queue>>
         \/ /\ r.pc = "table_range" /\ Goes(t, "uncache_table")
            /\ SentTo(Engines, RangeDelete(t, {T0})) /\ UNCHANGED <<tbMeta, tbCache>>
         \/ /\ r.pc = "uncache_table" /\ Goes(t, "unmirror_table")
            /\ Uncache({T0}) /\ UNCHANGED <<tbMeta, queue>>
         \/ /\ r.pc = "unmirror_table" /\ Goes(t, "scan_columns")
            /\ SentTo({MirrorEngine}, [op |-> "unmirror", table |-> T0, by |-> None])
            /\ UNCHANGED <<tbMeta, tbCache>>
         \/ /\ r.pc = "scan_columns" /\ UNCHANGED <<tbMeta, tbCache, queue>>
            /\ s = [pc |-> "unmirror_columns", todo |-> {x \in colMirror : x[1] = T0}]
  BY Zenon, DropTableIs
<1>2. r.pc \in {"delete_table", "table_range", "uncache_table", "unmirror_table", "scan_columns"}
  BY Zenon, <1>1
<1>3. (ksCache => ksMeta) /\ \A T \in Tables : Dropping(r, T) => T = T0
  BY <1>2 DEF Caches, Dropping
<1>4. CASE r.pc = "delete_table"
  <2>1. /\ s.pc = "table_range" /\ s.table = T0 /\ tbMeta' = [tbMeta EXCEPT ![T0] = None]
        /\ UNCHANGED <<tbCache, queue>>
    BY Zenon, <1>1, <1>4 DEF Goes
  <2>2. tbMeta'[T0] = None /\ \A T \in Tables : T # T0 => tbMeta'[T] = tbMeta[T]
    BY Zenon, <1>1, <2>1, DataNow
  <2>3. \A T \in Tables : T # T0 => tbCache[T] \in {None, tbMeta[T]}
    BY Zenon, <1>3 DEF Caches
  <2>4. Caches(t)'
    BY <1>1, <1>3, <2>1, <2>2, <2>3 DEF Caches, Dropping
  <2>5. \A e \in Engines : \A o \in Held(queue[e]) : o.op # "put"
    <3>1. r.pc \notin Owing
      BY Zenon, <1>4 DEF Owing
    <3>. QED  BY Zenon, <3>1, NoneQueued
  <2>6. \A T \in Tables : T # T0 => \/ rows[T] = None \/ Fits(T, rows[T])
                                    \/ \E o \in Held(queue[RowEngine]) : o.op = "range" /\ T \in o.tables
    BY Zenon, <1>4 DEF Rows, Doomed
  <2>7. Rows(t)'
    <3>1. \A e \in Engines : \A o \in Held(queue[e])' : o.op # "put"
      BY Zenon, <2>1, <2>5 DEF Held
    <3>2. ASSUME NEW T \in Tables PROVE rows'[T] = None \/ Fits(T, rows[T])' \/ Doomed(t, T)'
      <4>1. CASE T = T0
        BY Zenon, <2>1, <4>1 DEF Doomed
      <4>2. CASE T # T0
        <5>1. CASE rows[T] = None
          BY Zenon, <1>1, <2>1, <5>1
        <5>2. CASE Fits(T, rows[T])
          BY Zenon, <1>1, <2>1, <2>2, <4>2, <5>2 DEF Fits
        <5>3. CASE \E o \in Held(queue[RowEngine]) : o.op = "range" /\ T \in o.tables
          BY Zenon, <1>1, <2>1, <5>3 DEF Doomed, Held
        <5>. QED  BY Zenon, <2>6, <4>2, <5>1, <5>2, <5>3
      <4>. QED  BY Zenon, <4>1, <4>2
    <3>. QED  BY Zenon, <3>1, <3>2 DEF Rows
  <2>. QED  BY Zenon, <2>4, <2>7
<1>5. CASE r.pc = "table_range"
  <2>. DEFINE o == RangeDelete(t, {T0})
  <2>1. /\ s.pc = "uncache_table" /\ s.table = T0 /\ SentTo(Engines, o)
        /\ UNCHANGED <<tbMeta, tbCache>>
    BY Zenon, <1>1, <1>5 DEF Goes
  <2>2. Caches(t)'
    BY <1>1, <1>3, <1>5, <2>1 DEF Caches, Dropping
  <2>3. o.op = "range" /\ o.tables = {T0} /\ RowEngine \in Engines
    BY Zenon, SchemaConstants DEF RangeDelete
  <2>. HIDE DEF o
  <2>4. r.pc # "keyspace_range" /\ o.op # "put"
    BY <1>5, <2>3
  <2>5. \A T \in Tables : r.table = T => T \in o.tables
    BY <2>3
  <2>. QED  BY Zenon, <1>1, <2>1, <2>2, <2>3, <2>4, <2>5, RowsSent
<1>6. CASE r.pc = "uncache_table"
  <2>1. s.pc = "unmirror_table" /\ Uncache({T0}) /\ UNCHANGED <<tbMeta, queue>>
    BY Zenon, <1>1, <1>6 DEF Goes
  <2>2. \A T \in Tables : tbCache'[T] \in {None, tbMeta[T]}
    BY Zenon, <1>1, <1>3, <2>1 DEF Caches, Uncache
  <2>3. Caches(t)'
    BY Zenon, <1>1, <1>3, <2>1, <2>2 DEF Caches
  <2>4. r.pc \notin {"keyspace_range", "table_range"}
    BY <1>6
  <2>. QED  BY Zenon, <1>1, <2>1, <2>3, <2>4, RowsQuiet
<1>7. CASE r.pc = "unmirror_table"
  <2>. DEFINE o == [op |-> "unmirror", table |-> T0, by |-> None]
  <2>1. s.pc = "scan_columns" /\ SentTo({MirrorEngine}, o) /\ UNCHANGED <<tbMeta, tbCache>>
    BY Zenon, <1>1, <1>7 DEF Goes
  <2>2. r.pc \notin Marked /\ s.pc \notin Marked
    BY <1>7, <2>1 DEF Marked
  <2>3. r.pc # "keyspace_range" /\ r.pc # "table_range" /\ o.op # "put"
    BY <1>7
  <2>. HIDE DEF o
  <2>. QED  BY Zenon, <1>1, <2>1, <2>2, <2>3, CachesQuiet, RowsSent
<1>8. CASE r.pc = "scan_columns"
  <2>1. UNCHANGED <<tbMeta, tbCache, queue>> /\ s.pc = "unmirror_columns"
    BY <1>1, <1>8
  <2>2. r.pc \notin Marked /\ s.pc \notin Marked /\ r.pc \notin {"keyspace_range", "table_range"}
    BY <1>8, <2>1 DEF Marked
  <2>. QED  BY Zenon, <1>1, <2>1, <2>2, CachesQuiet, RowsQuiet
<1>. QED  BY Zenon, <1>2, <1>4, <1>5, <1>6, <1>7, <1>8

\* DROP KEYSPACE, in the same order for all its tables
LEMMA DropKeyspaceKeeps ==
  ASSUME Types, NEW t \in Tasks, Alone(t), Caches(t), Rows(t), DropKeyspace(t)
  PROVE  Caches(t)' /\ Rows(t)'
<1>. DEFINE r == task[t]
            s == task'[t]
<1>1. /\ rows' = rows
      /\ \/ /\ r.pc = "delete_keyspace" /\ s.pc = "delete_tables"
            /\ ksMeta' = FALSE /\ UNCHANGED <<ksCache, tbMeta, tbCache, queue>>
         \/ /\ r.pc = "delete_tables" /\ s.pc = "keyspace_range"
            /\ tbMeta' = [T \in Tables |-> None] /\ UNCHANGED <<ksMeta, ksCache, tbCache, queue>>
         \/ /\ r.pc = "keyspace_range" /\ s.pc = "uncache_keyspace"
            /\ SentTo(Engines, RangeDelete(t, Tables))
            /\ UNCHANGED <<ksMeta, ksCache, tbMeta, tbCache>>
         \/ /\ r.pc = "uncache_keyspace" /\ s.pc = "uncache_tables"
            /\ ksCache' = FALSE /\ UNCHANGED <<ksMeta, tbMeta, tbCache, queue>>
         \/ /\ r.pc = "uncache_tables" /\ s.pc = "unmirror_keyspace"
            /\ Uncache(Tables) /\ UNCHANGED <<ksMeta, ksCache, tbMeta, queue>>
  BY Zenon, DropKeyspaceIs DEF Goes
<1>2. r.pc \in {"delete_keyspace", "delete_tables", "keyspace_range", "uncache_keyspace", "uncache_tables"}
  BY Zenon, <1>1
<1>3. Caches(t)'
  BY <1>1 DEF Caches, Dropping, Uncache
<1>4. CASE r.pc = "delete_tables"
  <2>1. \A e \in Engines : \A o \in Held(queue[e]) : o.op # "put"
    <3>1. r.pc \notin Owing
      BY <1>4 DEF Owing
    <3>. QED  BY <3>1, NoneQueued
  <2>2. queue' = queue /\ s.pc = "keyspace_range"
    BY Zenon, <1>1, <1>4
  <2>3. Rows(t)'
    BY <2>1, <2>2 DEF Rows, Doomed, Held
  <2>. QED  BY <1>3, <2>3
<1>5. CASE r.pc = "keyspace_range"
  <2>. DEFINE o == RangeDelete(t, Tables)
  <2>1. SentTo(Engines, o) /\ tbMeta' = tbMeta
    BY <1>1, <1>5
  <2>2. o.op = "range" /\ o.tables = Tables /\ RowEngine \in Engines /\ o.op # "put"
    BY SchemaConstants DEF RangeDelete
  <2>. HIDE DEF o
  <2>. QED  BY Zenon, <1>1, <1>3, <2>1, <2>2, RowsSent
<1>6. CASE r.pc \in {"delete_keyspace", "uncache_keyspace", "uncache_tables"}
  <2>1. UNCHANGED <<tbMeta, queue>> /\ r.pc \notin {"keyspace_range", "table_range"}
    BY <1>1, <1>6
  <2>. QED  BY Zenon, <1>1, <1>3, <2>1, RowsQuiet
<1>. QED  BY Zenon, <1>2, <1>4, <1>5, <1>6

\* The other steps of a task
LEMMA RestKeeps ==
  ASSUME Types, NEW t \in Tasks, Caches(t), Rows(t),
         MirrorColumn(t) \/ UnmirrorColumn(t) \/ UnmirrorKeyspace(t) \/ PutRow(t) \/ Settle(t)
  PROVE  Caches(t)' /\ Rows(t)'
<1>. DEFINE r == task[t]
            s == task'[t]
<1>1. CASE MirrorColumn(t) \/ UnmirrorColumn(t) \/ UnmirrorKeyspace(t) \/ Settle(t)
  <2>1. /\ r.pc \in {"mirror_columns", "unmirror_columns", "unmirror_keyspace", "scan_tables",
                     "unmirror_tables", "settle"}
        /\ s.pc \in {"idle", "mirror_columns", "unmirror_columns", "settle", "scan_tables", "unmirror_tables"}
        /\ UNCHANGED <<ksMeta, ksCache, tbMeta, tbCache, rows, queue>>
    <3>1. CASE MirrorColumn(t)
      BY Zenon, <3>1, MirrorColumnIs, IdlePc
    <3>2. CASE UnmirrorColumn(t)
      BY <3>2, UnmirrorColumnIs
    <3>3. CASE UnmirrorKeyspace(t)
      <4>1. /\ r.pc \in {"unmirror_keyspace", "scan_tables", "unmirror_tables"}
            /\ \/ s.pc \in {"scan_tables", "unmirror_tables"}
               \/ s = [pc |-> "unmirror_columns", todo |-> colMirror]
            /\ UNCHANGED <<ksMeta, ksCache, tbMeta, tbCache, rows, queue>>
        BY Zenon, <3>3, UnmirrorKeyspaceIs DEF Goes
      <4>. QED  BY <4>1
    <3>4. CASE Settle(t)
      BY Zenon, <3>4, SettleIs, IdlePc
    <3>. QED  BY Zenon, <1>1, <3>1, <3>2, <3>3, <3>4
  <2>2. r.pc \notin Marked /\ s.pc \notin Marked /\ r.pc \notin {"keyspace_range", "table_range"}
    BY <2>1 DEF Marked
  <2>. QED  BY Zenon, <2>1, <2>2, CachesQuiet, RowsQuiet
<1>2. CASE PutRow(t)
  <2>. DEFINE o == [op |-> "put", table |-> r.table, id |-> r.id, by |-> t]
  <2>1. /\ r.pc = "put_row" /\ s = [pc |-> "settle"] /\ SentTo({RowEngine}, o)
        /\ UNCHANGED <<ksMeta, ksCache, tbMeta, tbCache, rows>>
    BY Zenon, <1>2, PutRowIs
  <2>2. Caches(t)'
    <3>1. s.pc = "settle"
      BY Zenon, <2>1, SettlePc
    <3>2. (ksCache => ksMeta) /\ \A T \in Tables : tbCache[T] \in {None, tbMeta[T]}
      BY Zenon, <2>1 DEF Caches, Dropping
    <3>. QED  BY Zenon, <2>1, <3>1, <3>2 DEF Caches
  <2>3. o.table = r.table /\ o.id = r.id /\ Fits(r.table, r.id)
    BY Zenon, <2>1 DEF Caches
  <2>. HIDE DEF o
  <2>4. r.pc # "keyspace_range" /\ r.pc # "table_range"
    BY <2>1
  <2>. QED  BY Zenon, <2>1, <2>2, <2>3, <2>4, RowsSent
<1>. QED  BY Zenon, <1>1, <1>2

\* A committer applies a put of the table's definition, or a tombstone
LEMMA ApplyKeeps ==
  ASSUME Types, NEW t \in Tasks, Caches(t), Rows(t), NEW e \in Engines, Apply(e)
  PROVE  Caches(t)' /\ Rows(t)'
<1>1. PICK o \in Ops :
        /\ Held(queue[e]) = {o} \cup Held(queue'[e])
        /\ rows' = [T \in Tables |->
                      CASE o.op = "put" /\ o.table = T -> o.id
                        [] o.op = "range" /\ T \in o.tables /\ e = RowEngine -> None
                        [] OTHER -> rows[T]]
  BY Zenon, ApplyIs
<1>2. /\ UNCHANGED <<ksMeta, ksCache, tbMeta, tbCache, task>>
      /\ \A f \in Engines : f # e => Held(queue'[f]) = Held(queue[f])
  BY Zenon, ApplyIs
<1>3. Caches(t)'
  BY <1>2 DEF Caches, Dropping, Fits
<1>4. \A f \in Engines : \A p \in Held(queue'[f]) : p.op = "put" => Fits(p.table, p.id)
  <2>1. \A f \in Engines : Held(queue'[f]) \subseteq Held(queue[f])
    BY <1>1, <1>2
  <2>. QED  BY Zenon, <2>1 DEF Rows
<1>5. ASSUME NEW T \in Tables
      PROVE  \/ rows'[T] = None \/ Fits(T, rows'[T])
             \/ task[t].pc = "keyspace_range" \/ (task[t].pc = "table_range" /\ task[t].table = T)
             \/ \E p \in Held(queue'[RowEngine]) : p.op = "range" /\ T \in p.tables
  <2>1. CASE o.op = "put" /\ o.table = T
    <3>1. rows'[T] = o.id
      BY <1>1, <2>1
    <3>2. o \in Held(queue[e])
      BY <1>1
    <3>. QED  BY Zenon, <2>1, <3>1, <3>2 DEF Rows
  <2>2. CASE o.op = "range" /\ T \in o.tables /\ e = RowEngine
    <3>1. rows'[T] = None
      BY <1>1, <2>2
    <3>. QED  BY <3>1
  <2>3. CASE ~(o.op = "put" /\ o.table = T) /\ ~(o.op = "range" /\ T \in o.tables /\ e = RowEngine)
    <3>1. rows'[T] = rows[T]
      BY <1>1, <2>3
    <3>2. \A p \in Held(queue[RowEngine]) : p.op = "range" /\ T \in p.tables => p \in Held(queue'[RowEngine])
      BY Zenon, <1>1, <1>2, <2>3, SchemaConstants
    <3>. QED  BY Zenon, <3>1, <3>2 DEF Rows, Doomed
  <2>. QED  BY Zenon, <2>1, <2>2, <2>3
<1>6. Rows(t)'
  BY <1>2, <1>4, <1>5 DEF Rows, Fits, Doomed, Held
<1>. QED  BY <1>3, <1>6

-----------------------------------------------------------------------------
\* A task that is alone leaves nothing in a disorder it does not know of
LEMMA TaskKeeps ==
  ASSUME Types, NEW t \in Tasks, Alone(t), Caches(t), Rows(t), Step(t)
  PROVE  Caches(t)' /\ Rows(t)'
<1>1. ASSUME \/ BeginCreateTable(t) \/ BeginOnTable(t, "drop_table") \/ BeginOnTable(t, "insert")
             \/ BeginOnKeyspace(t, "create_keyspace") \/ BeginOnKeyspace(t, "drop_keyspace")
             \/ BeginOnKeyspace(t, "use")
      PROVE  Caches(t)' /\ Rows(t)'
  <2>1. "drop_table" \in {"drop_table", "insert"} /\ "insert" \in {"drop_table", "insert"}
    OBVIOUS
  <2>. QED  BY Zenon, <1>1, <2>1, BeginKeeps
<1>. QED  BY Zenon, <1>1, LookupTableKeeps, KeyspaceKeeps, PutTableKeeps, DropTableKeeps,
             DropKeyspaceKeeps, RestKeeps DEF Step

\* A step changes its own task only, and that task is not idle before and after
LEMMA StepMoves ==
  ASSUME Types, NEW t \in Tasks, Step(t)
  PROVE  Others(t) /\ ~(task[t] = Idle /\ task'[t] = Idle)
<1>1. ASSUME \/ BeginCreateTable(t) \/ BeginOnTable(t, "drop_table") \/ BeginOnTable(t, "insert")
             \/ BeginOnKeyspace(t, "create_keyspace") \/ BeginOnKeyspace(t, "drop_keyspace")
             \/ BeginOnKeyspace(t, "use")
      PROVE  Others(t) /\ task'[t] # Idle
  <2>1. "drop_table" \in {"drop_table", "insert"} /\ "insert" \in {"drop_table", "insert"}
    OBVIOUS
  <2>2. Others(t) /\ task'[t].pc \in {"get_table", "get_keyspace"}
    BY Zenon, <1>1, <2>1, BeginIs
  <2>. QED  BY <2>2, IdlePc
<1>2. ASSUME TableHit(t) \/ TableMiss(t) \/ ReadTable(t) \/ CacheTable(t)
      PROVE  Others(t) /\ task[t] # Idle
  <2>1. Others(t) /\ task[t].pc \in Looking
    BY Zenon, <1>2, LookupTableIs
  <2>. QED  BY <2>1, IdlePc DEF Looking
<1>3. ASSUME KeyspaceHit(t) \/ KeyspaceMiss(t) \/ ReadKeyspace(t) \/ CacheKeyspace(t)
      PROVE  Others(t) /\ task[t] # Idle
  <2>1. Others(t) /\ task[t].pc \in {"get_keyspace", "read_keyspace", "cache_keyspace"}
    BY Zenon, <1>3, LookupKeyspaceIs
  <2>. QED  BY <2>1, IdlePc
<1>4. ASSUME PutKeyspace(t) \/ PutTable(t) \/ MirrorColumn(t)
      PROVE  Others(t) /\ task[t] # Idle
  <2>1. Others(t)
    BY Zenon, <1>4, PutKeyspaceIs, PutTableIs, MirrorColumnIs
  <2>. QED  BY Zenon, <1>4, <2>1, IdlePc DEF PutKeyspace, PutTable, MirrorColumn
<1>5. ASSUME DropTable(t) \/ DropKeyspace(t) \/ UnmirrorKeyspace(t)
      PROVE  Others(t) /\ task[t] # Idle
  <2>1. Others(t)
    BY Zenon, <1>5, DropTableIs, DropKeyspaceIs, UnmirrorKeyspaceIs
  <2>2. task[t].pc # "idle"
    BY <1>5 DEF DropTable, DropKeyspace, UnmirrorKeyspace
  <2>. QED  BY Zenon, <2>1, <2>2, IdlePc
<1>6. ASSUME UnmirrorColumn(t) \/ PutRow(t) \/ Settle(t)
      PROVE  Others(t) /\ task[t] # Idle
  <2>1. Others(t)
    BY Zenon, <1>6, UnmirrorColumnIs, PutRowIs, SettleIs
  <2>. QED  BY <1>6, <2>1, IdlePc DEF UnmirrorColumn, PutRow, Settle
<1>. QED  BY Zenon, <1>1, <1>2, <1>3, <1>4, <1>5, <1>6 DEF Step

\* Overlapping statements are recorded, whatever the step
LEMMA SoloStep == Next => Solo'
  BY Zenon DEF Next, Solo

\* Every step keeps the order of statements that do not overlap
LEMMA OrderedStep ==
  ASSUME Types, Solo, Ordered, Next
  PROVE  Ordered'
<1>. SUFFICES ASSUME ~overlap', NEW v \in Tasks, Alone(v)'
              PROVE  Caches(v)' /\ Rows(v)'
  BY DEF Ordered
<1>1. ~overlap /\ \A t, u \in Tasks : t # u => task'[t] = Idle \/ task'[u] = Idle
  BY Zenon DEF Next
<1>2. \A u \in Tasks : u # v => task'[u] = Idle
  BY DEF Alone
<1>3. CASE \E e \in Engines : Apply(e)
  <2>1. PICK e \in Engines : Apply(e)
    BY <1>3
  <2>2. task' = task
    BY Zenon, <2>1, ApplyIs
  <2>3. Caches(v) /\ Rows(v)
    BY Zenon, <1>1, <1>2, <2>2 DEF Ordered, Alone
  <2>. QED  BY Zenon, <2>1, <2>3, ApplyKeeps
<1>4. ASSUME NEW t \in Tasks, Step(t)
      PROVE  Caches(v)' /\ Rows(v)'
  <2>1. Others(t) /\ ~(task[t] = Idle /\ task'[t] = Idle)
    BY Zenon, <1>4, StepMoves
  <2>2. Alone(t)
    BY Zenon, <1>1, <2>1 DEF Alone, Others, Solo
  <2>3. Caches(t)' /\ Rows(t)'
    BY Zenon, <1>1, <1>4, <2>2, TaskKeeps DEF Ordered
  <2>4. task'[v] = task'[t]
    BY Zenon, <1>2, <2>1, <2>2 DEF Alone, Others
  <2>. QED  BY <2>3, <2>4 DEF Caches, Rows, Doomed
<1>. QED  BY Zenon, <1>3, <1>4, StepIs

\* The caches start empty and every row has its table
LEMMA OrderedInit == Init => Solo /\ Ordered
<1>. SUFFICES ASSUME Init PROVE Solo /\ Ordered
  BY Zenon
<1>1. /\ \A t \in Tasks : task[t] = Idle
      /\ \A e \in Engines : queue[e] = <<>>
      /\ \A T \in Tables : tbCache[T] = None
      /\ ksCache = FALSE
  BY DEF Init
<1>2. PICK D \in [Tables -> {None, [id |-> 0, cols |-> Cols]}] :
        tbMeta = D /\ rows = [T \in Tables |-> IF D[T] = None THEN None ELSE 0]
  BY Zenon DEF Init
<1>3. \A T \in Tables : rows[T] = None \/ Fits(T, rows[T])
  <2>. DEFINE d == [id |-> 0, cols |-> Cols]
  <2>1. d.id = 0
    OBVIOUS
  <2>. HIDE DEF d
  <2>2. \A T \in Tables : tbMeta[T] \in {None, d} /\ rows[T] = IF tbMeta[T] = None THEN None ELSE 0
    BY Zenon, <1>2 DEF d
  <2>. QED  BY Zenon, <2>1, <2>2 DEF Fits
<1>4. \A e \in Engines : Held(queue[e]) = {}
  BY <1>1, EmptyHolds
<1>5. ASSUME NEW t \in Tasks PROVE Caches(t) /\ Rows(t)
  <2>1. task[t].pc = "idle"
    BY Zenon, <1>1, IdlePc
  <2>2. Caches(t)
    BY Zenon, <1>1, <2>1 DEF Caches
  <2>3. Rows(t)
    BY <1>3, <1>4 DEF Rows
  <2>. QED  BY <2>2, <2>3
<1>. QED  BY Zenon, <1>1, <1>5 DEF Solo, Ordered

\* Both are invariants
LEMMA OrderedAlways == Spec => [](Types /\ Solo /\ Ordered)
<1>1. Solo /\ Ordered /\ UNCHANGED vars => Solo' /\ Ordered'
  <2>. SUFFICES ASSUME Solo, Ordered, UNCHANGED vars PROVE Solo' /\ Ordered'
    OBVIOUS
  <2>1. UNCHANGED <<ksMeta, ksCache, tbMeta, tbCache, rows, queue, task, overlap>>
    BY DEF vars, ks, tb
  <2>2. Solo'
    BY Zenon, <2>1 DEF Solo
  <2>3. Ordered'
    <3>1. ASSUME NEW t \in Tasks PROVE Caches(t) => Caches(t)'
      BY Zenon, <2>1 DEF Caches, Dropping, Fits
    <3>2. ASSUME NEW t \in Tasks PROVE Rows(t) => Rows(t)'
      <4>1. \A T \in Tables : Doomed(t, T)' <=> Doomed(t, T)
        BY <2>1 DEF Doomed, Held
      <4>2. \A T, id : Fits(T, id)' <=> Fits(T, id)
        BY <2>1 DEF Fits
      <4>3. \A e \in Engines : Held(queue[e])' = Held(queue[e])
        BY <2>1 DEF Held
      <4>. QED  BY Zenon, <2>1, <4>1, <4>2, <4>3 DEF Rows
    <3>. QED  BY Zenon, <2>1, <3>1, <3>2 DEF Ordered, Alone
  <2>. QED  BY <2>2, <2>3
<1>2. Types /\ Solo /\ Ordered /\ [Next]_vars => Solo' /\ Ordered'
  BY Zenon, <1>1, SoloStep, OrderedStep
<1>. QED  BY OrderedInit, TypesAlways, <1>2, PTL DEF Spec

\* After statements that did not overlap, no lookup is answered from the cache
\* with a keyspace or table that was dropped, or with an old definition: put_table
\* and delete_table change engine 0 first, and every statement brings the cache
\* to it before its response leaves
THEOREM CacheAgreesWithEngine == Spec => []SchemaCacheCoherent
<1>1. Types /\ Ordered => SchemaCacheCoherent
  <2>. SUFFICES ASSUME Types, Ordered, AtRest, ~overlap
                PROVE  /\ ksCache => ksMeta
                       /\ \A T \in Tables : tbCache[T] # None => tbCache[T] = tbMeta[T]
    BY DEF SchemaCacheCoherent
  <2>1. PICK t \in Tasks : TRUE
    BY SchemaConstants DEF Tasks
  <2>2. task[t].pc = "idle" /\ Caches(t)
    BY Zenon, IdlePc DEF AtRest, Ordered, Alone
  <2>. QED  BY <2>2 DEF Caches, Dropping
<1>. QED  BY OrderedAlways, <1>1, PTL

\* After statements that did not overlap, every row was written under the
\* definition its table has now: DROP TABLE and DROP KEYSPACE send the range
\* tombstones for the rows whose definition they removed, and settle awaits them
THEOREM NoRowOutlivesItsTable == Spec => []RowsHaveTheirTable
<1>1. Types /\ Ordered => RowsHaveTheirTable
  <2>. SUFFICES ASSUME Types, Ordered, AtRest, ~overlap, NEW T \in Tables, rows[T] # None
                PROVE  Fits(T, rows[T])
    BY DEF RowsHaveTheirTable, Fits
  <2>1. PICK t \in Tasks : TRUE
    BY SchemaConstants DEF Tasks
  <2>2. task[t].pc = "idle" /\ Rows(t)
    BY Zenon, IdlePc DEF AtRest, Ordered, Alone
  <2>3. Held(queue[RowEngine]) = {}
    BY Zenon, EmptyHolds, SchemaConstants DEF AtRest
  <2>. QED  BY Zenon, <2>2, <2>3 DEF Rows, Doomed
<1>. QED  BY OrderedAlways, <1>1, PTL

-----------------------------------------------------------------------------
\* The pcs at which Mirrors says something of the task or of a disorder
Mirroring == Filling \cup Emptying \cup DroppingOne \cup DroppingAll
               \cup {"put_table", "put_table_cache", "mirror_table", "mirror_columns", "unmirror_columns"}

\* A step that touches neither definitions nor mirrors
LEMMA MirrorsQuiet ==
  ASSUME NEW t \in Tasks, Mirrors(t), UNCHANGED <<ksMeta, ksMirror, tbMeta, colMirror>>,
         \/ task'[t] = task[t]
         \/ /\ task[t].pc \notin Mirroring
            /\ task'[t].pc \notin Mirroring \/ (task'[t].pc = "put_table" /\ tbMeta[task'[t].table] = None)
  PROVE  Mirrors(t)'
<1>1. CASE task'[t] = task[t]
  <2>1. \A T \in Tables, c \in Cols : (Shown(t, T, c)' <=> Shown(t, T, c)) /\ (Told(t, T, c)' <=> Told(t, T, c))
    BY Zenon, <1>1 DEF Shown, Told
  <2>. QED  BY Zenon, <1>1, <2>1 DEF Mirrors
<1>2. CASE /\ task[t].pc \notin Mirroring
           /\ task'[t].pc \notin Mirroring \/ (task'[t].pc = "put_table" /\ tbMeta[task'[t].table] = None)
  <2>. DEFINE r == task[t]
              s == task'[t]
  <2>1. /\ r.pc \notin Filling \cup Emptying /\ r.pc \notin DroppingOne /\ r.pc \notin DroppingAll
        /\ r.pc \notin {"put_table_cache", "mirror_table"} /\ r.pc # "mirror_columns"
        /\ r.pc # "unmirror_columns"
    BY Zenon, <1>2 DEF Mirroring
  <2>2. /\ s.pc \notin Filling /\ s.pc \notin Emptying /\ s.pc \notin DroppingOne /\ s.pc \notin DroppingAll
        /\ s.pc \notin {"put_table_cache", "mirror_table"} /\ s.pc # "mirror_columns"
        /\ s.pc # "unmirror_columns" /\ (s.pc = "put_table" => tbMeta[s.table] = None)
    BY <1>2 DEF Mirroring, Filling, Emptying, DroppingOne, DroppingAll
  <2>3. ksMirror = ksMeta /\ \A T \in Tables, c \in Cols : Shown(t, T, c) <=> Told(t, T, c)
    BY Zenon, <2>1 DEF Mirrors
  <2>4. \A T \in Tables, c \in Cols : <<T, c>> \in colMirror <=> tbMeta[T] # None /\ c \in tbMeta[T].cols
    BY Zenon, <2>1, <2>3 DEF Shown, Told
  <2>5. \A T \in Tables, c \in Cols : Shown(t, T, c)' <=> Told(t, T, c)'
    BY Zenon, <2>2, <2>4 DEF Shown, Told
  <2>. QED  BY Zenon, <2>2, <2>3, <2>5 DEF Mirrors
<1>. QED  BY Zenon, <1>1, <1>2

\* A statement begins
Begins(t) ==
  \/ BeginCreateTable(t) \/ BeginOnTable(t, "drop_table") \/ BeginOnTable(t, "insert")
  \/ BeginOnKeyspace(t, "create_keyspace") \/ BeginOnKeyspace(t, "drop_keyspace")
  \/ BeginOnKeyspace(t, "use")

\* The steps of a statement that changes the schema
Changes(t) ==
  \/ PutKeyspace(t) \/ PutTable(t) \/ MirrorColumn(t)
  \/ DropTable(t) \/ UnmirrorColumn(t) \/ DropKeyspace(t) \/ UnmirrorKeyspace(t)

\* Statements begin, look up, insert and answer without touching a mirror
LEMMA OthersMirror ==
  ASSUME Types, NEW t \in Tasks, Mirrors(t), NEW u \in Tasks, Begins(u) \/ Lookup(u) \/ PutRow(u) \/ Settle(u)
  PROVE  Mirrors(t)'
<1>1. CASE Begins(u)
  <2>1. "drop_table" \in {"drop_table", "insert"} /\ "insert" \in {"drop_table", "insert"}
    OBVIOUS
  <2>2. /\ Others(u) /\ task[u] = Idle /\ task'[u].pc \in {"get_table", "get_keyspace"}
        /\ UNCHANGED <<ksMeta, ksMirror, tbMeta, colMirror>>
    BY Zenon, <1>1, <2>1, BeginIs DEF Begins
  <2>3. task[u].pc \notin Mirroring /\ task'[u].pc \notin Mirroring
    BY <2>2, IdlePc DEF Mirroring, Filling, Emptying, DroppingOne, DroppingAll
  <2>. QED  BY Zenon, <2>2, <2>3, MirrorsQuiet DEF Others
<1>2. CASE TableHit(u) \/ TableMiss(u) \/ ReadTable(u) \/ CacheTable(u)
  <2>. DEFINE r == task[u]
              s == task'[u]
              Gone(x) == \/ x.pc \in {"read_table", "cache_table", "delete_table", "put_row"} \/ x = Idle
                         \/ x.pc = "put_table" /\ x.table = r.table /\ tbMeta[r.table] = None
  <2>1. Others(u) /\ r.pc \in Looking /\ UNCHANGED <<ksMeta, ksMirror, tbMeta, colMirror>>
    BY Zenon, <1>2, LookupTableIs
  <2>2. r.pc \notin Mirroring
    BY Zenon, <2>1 DEF Looking, Mirroring, Filling, Emptying, DroppingOne, DroppingAll
  <2>3. "table" \in DOMAIN r /\ (r.pc = "cache_table" => r.read # None)
    BY <2>1, SchemaConstants DEF Types, Rec
  <2>4. Gone(s)
    <3>1. ASSUME NEW d, Resolved(u, d), d = None => tbMeta[r.table] = None
          PROVE  Gone(s)
      <4>1. CASE d # None /\ s = [pc |-> "put_row", table |-> r.table, id |-> d.id]
        <5>1. s.pc = "put_row"
          BY Zenon, <4>1, PutRowPc
        <5>. QED  BY Zenon, <5>1
      <4>2. CASE s = Idle \/ Goes(u, "delete_table") \/ (d = None /\ Goes(u, "put_table"))
        BY Zenon, <2>3, <3>1, <4>2 DEF Goes
      <4>. QED  BY Zenon, <3>1, <4>1, <4>2 DEF Resolved
    <3>2. CASE Goes(u, "read_table") \/ Goes(u, "cache_table")
      BY Zenon, <3>2 DEF Goes
    <3>. QED  BY Zenon, <1>2, <2>3, <3>1, <3>2, LookupTableIs
  <2>5. s.pc \notin Mirroring \/ (s.pc = "put_table" /\ tbMeta[s.table] = None)
    BY <2>4, IdlePc DEF Mirroring, Filling, Emptying, DroppingOne, DroppingAll
  <2>. QED  BY Zenon, <2>1, <2>2, <2>5, MirrorsQuiet DEF Others
<1>3. CASE KeyspaceHit(u) \/ KeyspaceMiss(u) \/ ReadKeyspace(u) \/ CacheKeyspace(u)
  <2>1. /\ Others(u) /\ task[u].pc \in {"get_keyspace", "read_keyspace", "cache_keyspace"}
        /\ UNCHANGED <<ksMeta, ksMirror, tbMeta, colMirror>>
        /\ \/ task'[u] = Idle
           \/ task'[u].pc \in {"read_keyspace", "cache_keyspace", "put_keyspace", "delete_keyspace"}
    BY Zenon, <1>3, LookupKeyspaceIs
  <2>2. task[u].pc \notin Mirroring /\ task'[u].pc \notin Mirroring
    BY <2>1, IdlePc DEF Mirroring, Filling, Emptying, DroppingOne, DroppingAll
  <2>. QED  BY Zenon, <2>1, <2>2, MirrorsQuiet DEF Others
<1>4. CASE PutRow(u) \/ Settle(u)
  <2>1. /\ Others(u) /\ task[u].pc \in {"put_row", "settle"} /\ task'[u] \in {Idle, [pc |-> "settle"]}
        /\ UNCHANGED <<ksMeta, ksMirror, tbMeta, colMirror>>
    BY Zenon, <1>4, PutRowIs, SettleIs
  <2>2. task'[u].pc \in {"idle", "settle"}
    BY Zenon, <2>1, IdlePc, SettlePc
  <2>3. task[u].pc \notin Mirroring /\ task'[u].pc \notin Mirroring
    BY Zenon, <2>1, <2>2 DEF Mirroring, Filling, Emptying, DroppingOne, DroppingAll
  <2>. QED  BY Zenon, <2>1, <2>3, MirrorsQuiet DEF Others
<1>. QED  BY Zenon, <1>1, <1>2, <1>3, <1>4 DEF Lookup

\* CREATE KEYSPACE mirrors the keyspace
LEMMA PutKeyspaceMirrors ==
  ASSUME Types, NEW t \in Tasks, Mirrors(t), PutKeyspace(t)
  PROVE  Mirrors(t)'
<1>. DEFINE r == task[t]
            s == task'[t]
<1>1. /\ UNCHANGED <<tbMeta, colMirror>>
      /\ \/ r.pc = "put_keyspace" /\ s.pc = "put_keyspace_cache" /\ ksMeta' = TRUE
         \/ r.pc = "put_keyspace_cache" /\ s.pc = "mirror_keyspace" /\ UNCHANGED <<ksMeta, ksMirror>>
         \/ r.pc = "mirror_keyspace" /\ s.pc = "idle" /\ ksMirror' = TRUE /\ ksMeta' = ksMeta
  <2>1. \/ r.pc = "put_keyspace" /\ Goes(t, "put_keyspace_cache") /\ ksMeta' = TRUE
        \/ r.pc = "put_keyspace_cache" /\ Goes(t, "mirror_keyspace") /\ UNCHANGED <<ksMeta, ksMirror>>
        \/ r.pc = "mirror_keyspace" /\ s = Idle /\ ksMirror' = TRUE /\ ksMeta' = ksMeta
    BY Zenon, PutKeyspaceIs
  <2>2. UNCHANGED <<tbMeta, colMirror>>
    BY Zenon, PutKeyspaceIs
  <2>. QED  BY <2>1, <2>2, IdlePc DEF Goes
<1>2. /\ r.pc \in {"put_keyspace", "put_keyspace_cache", "mirror_keyspace"}
      /\ s.pc \in {"put_keyspace_cache", "mirror_keyspace", "idle"}
  BY Zenon, <1>1
<1>3. \A T \in Tables, c \in Cols : Shown(t, T, c)' <=> Told(t, T, c)'
  <2>1. \A T \in Tables, c \in Cols : Shown(t, T, c) <=> Told(t, T, c)
    BY Zenon, <1>2 DEF Mirrors, DroppingAll, DroppingOne
  <2>. QED  BY Zenon, <1>1, <1>2, <2>1 DEF Shown, Told
<1>4. ksMeta \in BOOLEAN /\ (r.pc \in Filling => ksMeta)
  BY Zenon DEF Types, TypeOK, Mirrors
<1>. QED  BY Zenon, <1>1, <1>2, <1>3, <1>4 DEF Mirrors, Filling, Emptying, DroppingAll, DroppingOne

\* CREATE TABLE has the columns of the new table still to mirror
LEMMA PutTableMirrors ==
  ASSUME Types, NEW t \in Tasks, Mirrors(t), PutTable(t)
  PROVE  Mirrors(t)'
<1>. DEFINE r == task[t]
            s == task'[t]
            T0 == task[t].table
<1>1. /\ UNCHANGED <<ksMeta, ksMirror, colMirror>> /\ T0 \in Tables /\ r.def \in TableDef
      /\ "table" \in DOMAIN r /\ "def" \in DOMAIN r
      /\ \/ r.pc = "put_table" /\ Goes(t, "put_table_cache") /\ tbMeta' = [tbMeta EXCEPT ![T0] = r.def]
         \/ r.pc = "put_table_cache" /\ Goes(t, "mirror_table") /\ tbMeta' = tbMeta
         \/ /\ r.pc = "mirror_table" /\ tbMeta' = tbMeta
            /\ s = [pc |-> "mirror_columns", table |-> T0, todo |-> r.def.cols]
  BY Zenon, PutTableIs
<1>2. /\ r.pc \in {"put_table", "put_table_cache", "mirror_table"}
      /\ s.pc \in {"put_table_cache", "mirror_table", "mirror_columns"} /\ s.table = T0
      /\ s.pc \in {"put_table_cache", "mirror_table"} => s.def = r.def
      /\ s.pc = "mirror_columns" => s.todo = r.def.cols
  <2>1. CASE Goes(t, "put_table_cache") \/ Goes(t, "mirror_table")
    BY Zenon, <1>1, <2>1 DEF Goes
  <2>2. CASE r.pc = "mirror_table" /\ s = [pc |-> "mirror_columns", table |-> T0, todo |-> r.def.cols]
    <3>1. s.pc = "mirror_columns" /\ s.table = T0 /\ s.todo = r.def.cols
      BY <2>2
    <3>. QED  BY Zenon, <2>2, <3>1
  <2>. QED  BY Zenon, <1>1, <2>1, <2>2
<1>3. /\ tbMeta'[T0] = r.def
      /\ \A T \in Tables : T # T0 => tbMeta'[T] = tbMeta[T]
      /\ r.pc = "put_table" => tbMeta[T0] = None
  BY Zenon, <1>1, <1>2, DataNow DEF Mirrors
<1>4. /\ ksMirror = ksMeta
      /\ \A T \in Tables, c \in Cols : Shown(t, T, c) <=> Told(t, T, c)
  BY <1>2 DEF Mirrors, Filling, Emptying, DroppingAll, DroppingOne
<1>5. ASSUME NEW T \in Tables, NEW c \in Cols PROVE Shown(t, T, c)' <=> Told(t, T, c)'
  <2>1. Shown(t, T, c)' <=> Shown(t, T, c)
    BY Zenon, <1>1, <1>2 DEF Shown
  <2>2. CASE T = T0
    <3>1. ~Told(t, T, c)
      BY Zenon, <1>2, <1>3, <2>2 DEF Told
    <3>2. ~Told(t, T, c)'
      BY <1>2, <1>3, <2>2 DEF Told
    <3>. QED  BY Zenon, <1>4, <2>1, <3>1, <3>2
  <2>3. CASE T # T0
    <3>1. Told(t, T, c)' <=> Told(t, T, c)
      BY Zenon, <1>2, <1>3, <2>3 DEF Told
    <3>. QED  BY Zenon, <1>4, <2>1, <3>1
  <2>. QED  BY Zenon, <2>2, <2>3
<1>6. r.def # None
  BY Zenon, <1>1, SchemaConstants
<1>7. /\ s.pc \notin Filling /\ s.pc \notin Emptying /\ s.pc \notin DroppingAll /\ s.pc \notin DroppingOne
      /\ s.pc # "put_table"
  BY Zenon, <1>2 DEF Filling, Emptying, DroppingAll, DroppingOne
<1>8. s.pc = "mirror_columns" => s.todo \subseteq tbMeta'[T0].cols
  BY Zenon, <1>2, <1>3
<1>. QED  BY Zenon, <1>1, <1>2, <1>3, <1>4, <1>5, <1>6, <1>7, <1>8 DEF Mirrors

\* One more column is mirrored
LEMMA MirrorColumnMirrors ==
  ASSUME Types, NEW t \in Tasks, Mirrors(t), MirrorColumn(t)
  PROVE  Mirrors(t)'
<1>. DEFINE r == task[t]
            s == task'[t]
            T0 == task[t].table
<1>1. UNCHANGED <<ksMeta, ksMirror, tbMeta>> /\ r.pc = "mirror_columns"
  BY Zenon, MirrorColumnIs
<1>2. PICK c0 \in r.todo :
        /\ colMirror' = colMirror \cup {<<T0, c0>>}
        /\ \/ r.todo = {c0} /\ s = Idle
           \/ s.pc = "mirror_columns" /\ s.table = T0 /\ s.todo = r.todo \ {c0}
  BY Zenon, MirrorColumnIs
<1>3. /\ ksMirror = ksMeta /\ tbMeta[T0] # None /\ r.todo \subseteq tbMeta[T0].cols
      /\ \A T \in Tables, c \in Cols : Shown(t, T, c) <=> Told(t, T, c)
  BY <1>1 DEF Mirrors, Filling, Emptying, DroppingAll, DroppingOne
<1>4. s.pc = "idle" \/ s.pc = "mirror_columns"
  BY Zenon, <1>2, IdlePc
<1>5. ASSUME NEW T \in Tables, NEW c \in Cols PROVE Shown(t, T, c)' <=> Told(t, T, c)'
  <2>1. Shown(t, T, c)' <=> Shown(t, T, c) \/ (T = T0 /\ c = c0)
    BY <1>1, <1>2, <1>4 DEF Shown
  <2>2. Told(t, T, c)' <=> Told(t, T, c) \/ (T = T0 /\ c = c0)
    <3>1. CASE r.todo = {c0} /\ s.pc = "idle"
      BY Zenon, <1>1, <1>2, <1>3, <3>1 DEF Told
    <3>2. CASE s.pc = "mirror_columns" /\ s.table = T0 /\ s.todo = r.todo \ {c0}
      BY Zenon, <1>1, <1>2, <1>3, <3>2 DEF Told
    <3>. QED  BY Zenon, <1>2, <3>1, <3>2, IdlePc
  <2>. QED  BY Zenon, <1>3, <2>1, <2>2
<1>6. s.pc = "mirror_columns" => s.table = T0 /\ s.todo \subseteq r.todo
  BY <1>2, IdlePc
<1>. QED  BY Zenon, <1>1, <1>3, <1>4, <1>5, <1>6 DEF Mirrors, Filling, Emptying, DroppingAll, DroppingOne

\* DROP TABLE: the columns rows go once the definition is gone
LEMMA DropTableMirrors ==
  ASSUME Types, NEW t \in Tasks, Mirrors(t), DropTable(t)
  PROVE  Mirrors(t)'
<1>. DEFINE r == task[t]
            s == task'[t]
            T0 == task[t].table
            S0 == {x \in colMirror : x[1] = T0}
<1>1. /\ UNCHANGED <<ksMeta, ksMirror, colMirror>> /\ T0 \in Tables
      /\ \/ r.pc = "delete_table" /\ s.pc = "table_range" /\ s.table = T0 /\ tbMeta' = [tbMeta EXCEPT ![T0] = None]
         \/ r.pc = "table_range" /\ s.pc = "uncache_table" /\ s.table = T0 /\ tbMeta' = tbMeta
         \/ r.pc = "uncache_table" /\ s.pc = "unmirror_table" /\ s.table = T0 /\ tbMeta' = tbMeta
         \/ r.pc = "unmirror_table" /\ s.pc = "scan_columns" /\ s.table = T0 /\ tbMeta' = tbMeta
         \/ r.pc = "scan_columns" /\ s = [pc |-> "unmirror_columns", todo |-> S0] /\ tbMeta' = tbMeta
  BY Zenon, DropTableIs DEF Goes
<1>2. /\ r.pc \in {"delete_table", "table_range", "uncache_table", "unmirror_table", "scan_columns"}
      /\ \/ s.pc \in DroppingOne /\ s.table = T0
         \/ r.pc = "scan_columns" /\ s.pc = "unmirror_columns" /\ s.todo = S0
  <2>1. CASE r.pc = "scan_columns" /\ s = [pc |-> "unmirror_columns", todo |-> S0]
    <3>. HIDE DEF S0
    <3>1. s.pc = "unmirror_columns" /\ s.todo = S0
      BY <2>1
    <3>. QED  BY Zenon, <2>1, <3>1
  <2>2. CASE /\ r.pc \in {"delete_table", "table_range", "uncache_table", "unmirror_table"} /\ s.table = T0
             /\ s.pc \in {"table_range", "uncache_table", "unmirror_table", "scan_columns"}
    BY Zenon, <2>2 DEF DroppingOne
  <2>. HIDE DEF S0
  <2>. QED  BY Zenon, <1>1, <2>1, <2>2
<1>3. /\ tbMeta'[T0] = None
      /\ \A T \in Tables : T # T0 => tbMeta'[T] = tbMeta[T]
  BY Zenon, <1>1, <1>2, DataNow DEF Mirrors, DroppingOne
<1>4. /\ ksMirror = ksMeta
      /\ \A T \in Tables, c \in Cols : T # T0 => (Shown(t, T, c) <=> Told(t, T, c))
  BY Zenon, <1>2 DEF Mirrors, Filling, Emptying, DroppingAll
<1>5. ASSUME NEW T \in Tables, NEW c \in Cols, T # T0 PROVE Shown(t, T, c)' <=> Told(t, T, c)'
  <2>1. Told(t, T, c)' <=> Told(t, T, c)
    BY <1>2, <1>3, <1>5 DEF Told, DroppingOne
  <2>2. <<T, c>> \notin S0
    BY Zenon, <1>5
  <2>. HIDE DEF S0
  <2>3. Shown(t, T, c)' <=> Shown(t, T, c)
    BY <1>1, <1>2, <2>2 DEF Shown, DroppingOne
  <2>. QED  BY Zenon, <1>4, <1>5, <2>1, <2>3
<1>6. ASSUME NEW T \in Tables, NEW c \in Cols, T = T0, s.pc \notin DroppingOne
      PROVE  Shown(t, T, c)' <=> Told(t, T, c)'
  <2>1. ~Told(t, T, c)'
    BY Zenon, <1>3, <1>6 DEF Told
  <2>2. <<T, c>> \in colMirror => <<T, c>> \in S0
    BY Zenon, <1>6
  <2>. HIDE DEF S0
  <2>3. ~Shown(t, T, c)'
    BY Zenon, <1>1, <1>2, <1>6, <2>2 DEF Shown
  <2>. QED  BY Zenon, <2>1, <2>3
<1>. HIDE DEF S0
<1>7. /\ s.pc \in {"table_range", "uncache_table", "unmirror_table", "scan_columns", "unmirror_columns"}
      /\ s.pc \in DroppingOne => s.table = T0
  BY <1>2 DEF DroppingOne
<1>8. ASSUME NEW T \in Tables, NEW c \in Cols
      PROVE  (Shown(t, T, c)' <=> Told(t, T, c)') \/ (s.pc \in DroppingOne /\ s.table = T)
  <2>1. CASE T # T0
    BY Zenon, <1>5, <2>1
  <2>2. CASE T = T0 /\ s.pc \notin DroppingOne
    BY Zenon, <1>6, <2>2
  <2>. QED  BY Zenon, <1>7, <2>1, <2>2
<1>9. /\ s.pc \notin Filling /\ s.pc \notin Emptying /\ s.pc \notin DroppingAll
      /\ s.pc # "put_table" /\ s.pc \notin {"put_table_cache", "mirror_table"} /\ s.pc # "mirror_columns"
  BY Zenon, <1>7 DEF Filling, Emptying, DroppingAll
<1>10. ksMirror' = ksMeta' /\ (s.pc \in DroppingOne => tbMeta'[s.table] = None)
  BY Zenon, <1>1, <1>3, <1>4, <1>7
<1>. QED  BY Zenon, <1>8, <1>9, <1>10 DEF Mirrors

\* What the columns loop has removed it had to remove
LEMMA UnmirrorColumnMirrors ==
  ASSUME Types, NEW t \in Tasks, Mirrors(t), UnmirrorColumn(t)
  PROVE  Mirrors(t)'
<1>. DEFINE r == task[t]
            s == task'[t]
<1>1. /\ UNCHANGED <<ksMeta, ksMirror, tbMeta>> /\ r.pc = "unmirror_columns"
      /\ \/ \E x \in r.todo : /\ colMirror' = colMirror \ {x} /\ s.todo = r.todo \ {x}
                              /\ s.pc = "unmirror_columns"
         \/ r.todo = {} /\ colMirror' = colMirror /\ s = [pc |-> "settle"]
  BY Zenon, UnmirrorColumnIs
<1>2. s.pc \in {"unmirror_columns", "settle"}
  BY Zenon, <1>1, SettlePc
<1>3. /\ ksMirror = ksMeta
      /\ \A T \in Tables, c \in Cols : Shown(t, T, c) <=> Told(t, T, c)
  BY Zenon, <1>1 DEF Mirrors, Filling, Emptying, DroppingAll, DroppingOne
<1>4. \A T \in Tables, c \in Cols : Shown(t, T, c)' <=> Shown(t, T, c)
  <2>1. CASE \E x \in r.todo : /\ colMirror' = colMirror \ {x} /\ s.todo = r.todo \ {x}
                               /\ s.pc = "unmirror_columns"
    <3>1. PICK x \in r.todo : colMirror' = colMirror \ {x} /\ s.todo = r.todo \ {x} /\ s.pc = "unmirror_columns"
      BY <2>1
    <3>2. \A y : y \in colMirror' /\ y \notin s.todo <=> y \in colMirror /\ y \notin r.todo
      BY Zenon, <3>1
    <3>. QED  BY Zenon, <1>1, <3>1, <3>2 DEF Shown
  <2>2. CASE r.todo = {} /\ colMirror' = colMirror /\ s = [pc |-> "settle"]
    <3>1. s.pc = "settle"
      BY Zenon, <2>2, SettlePc
    <3>. QED  BY Zenon, <1>1, <2>2, <3>1 DEF Shown
  <2>. QED  BY Zenon, <1>1, <2>1, <2>2
<1>5. \A T \in Tables, c \in Cols : Told(t, T, c)' <=> Told(t, T, c)
  BY <1>1, <1>2 DEF Told
<1>6. \A T \in Tables, c \in Cols : Shown(t, T, c)' <=> Told(t, T, c)'
  BY Zenon, <1>3, <1>4, <1>5
<1>. QED  BY Zenon, <1>1, <1>2, <1>3, <1>6 DEF Mirrors, Filling, Emptying, DroppingAll, DroppingOne

\* DROP KEYSPACE: the mirrors go once the definitions are gone
LEMMA DropKeyspaceMirrors ==
  ASSUME Types, NEW t \in Tasks, Mirrors(t), DropKeyspace(t) \/ UnmirrorKeyspace(t)
  PROVE  Mirrors(t)'
<1>. DEFINE r == task[t]
            s == task'[t]
<1>0. ksMeta \in BOOLEAN
  BY DEF Types, TypeOK
<1>1. CASE DropKeyspace(t)
  <2>1. /\ UNCHANGED <<ksMirror, colMirror>>
        /\ \/ r.pc = "delete_keyspace" /\ s.pc = "delete_tables" /\ ksMeta' = FALSE /\ tbMeta' = tbMeta
           \/ r.pc = "delete_tables" /\ s.pc = "keyspace_range" /\ ksMeta' = ksMeta /\ tbMeta' = [T \in Tables |-> None]
           \/ r.pc = "keyspace_range" /\ s.pc = "uncache_keyspace" /\ UNCHANGED <<ksMeta, tbMeta>>
           \/ r.pc = "uncache_keyspace" /\ s.pc = "uncache_tables" /\ UNCHANGED <<ksMeta, tbMeta>>
           \/ r.pc = "uncache_tables" /\ s.pc = "unmirror_keyspace" /\ UNCHANGED <<ksMeta, tbMeta>>
    BY Zenon, <1>1, DropKeyspaceIs DEF Goes
  <2>2. s.pc \in {"delete_tables", "keyspace_range", "uncache_keyspace", "uncache_tables", "unmirror_keyspace"}
    BY Zenon, <2>1
  <2>3. s.pc \in Emptying /\ ~ksMeta'
    <3>1. s.pc \in Emptying /\ (r.pc \in Emptying => ~ksMeta)
      BY Zenon, <2>2 DEF Mirrors, Emptying
    <3>2. CASE r.pc \in Emptying
      <4>1. r.pc # "delete_keyspace"
        BY Zenon, <3>2 DEF Emptying
      <4>2. ksMeta' = ksMeta
        BY Zenon, <2>1, <4>1
      <4>. QED  BY Zenon, <3>1, <3>2, <4>2
    <3>3. CASE r.pc = "delete_keyspace"
      BY <2>1, <3>1, <3>3
    <3>. QED  BY Zenon, <2>1, <3>2, <3>3 DEF Emptying
  <2>4. s.pc \in DroppingAll => \A T \in Tables : tbMeta'[T] = None
    <3>1. r.pc \in DroppingAll => \A T \in Tables : tbMeta[T] = None
      BY Zenon DEF Mirrors
    <3>2. s.pc = "delete_tables" \/ tbMeta' = [T \in Tables |-> None] \/ (tbMeta' = tbMeta /\ r.pc \in DroppingAll)
      BY Zenon, <2>1 DEF DroppingAll
    <3>3. "delete_tables" \notin DroppingAll
      BY Zenon DEF DroppingAll
    <3>. QED  BY Zenon, <3>1, <3>2, <3>3
  <2>5. CASE r.pc = "delete_keyspace"
    <3>1. /\ \A T \in Tables, c \in Cols : Shown(t, T, c) <=> Told(t, T, c)
          /\ UNCHANGED <<colMirror, tbMeta>> /\ s.pc = "delete_tables"
      BY Zenon, <2>1, <2>5 DEF Mirrors, DroppingAll, DroppingOne
    <3>2. \A T \in Tables, c \in Cols : Shown(t, T, c)' <=> Told(t, T, c)'
      BY Zenon, <2>5, <3>1 DEF Shown, Told
    <3>. QED  BY Zenon, <2>3, <2>4, <3>1, <3>2 DEF Mirrors, Filling, DroppingOne
  <2>6. CASE r.pc # "delete_keyspace"
    <3>1. s.pc \in DroppingAll
      BY Zenon, <2>1, <2>6 DEF DroppingAll
    <3>. QED  BY Zenon, <2>2, <2>3, <2>4, <3>1 DEF Mirrors, Filling, DroppingOne
  <2>. QED  BY <2>5, <2>6
<1>2. CASE UnmirrorKeyspace(t)
  <2>1. /\ UNCHANGED <<ksMeta, tbMeta, colMirror>>
        /\ \/ r.pc = "unmirror_keyspace" /\ s.pc = "scan_tables" /\ ksMirror' = FALSE
           \/ r.pc \in {"scan_tables", "unmirror_tables"} /\ s.pc = "unmirror_tables" /\ ksMirror' = ksMirror
           \/ r.pc = "unmirror_tables" /\ s = [pc |-> "unmirror_columns", todo |-> colMirror] /\ ksMirror' = ksMirror
    BY Zenon, <1>2, UnmirrorKeyspaceIs DEF Goes
  <2>2. /\ r.pc \in {"unmirror_keyspace", "scan_tables", "unmirror_tables"}
        /\ s.pc \in {"scan_tables", "unmirror_tables", "unmirror_columns"}
        /\ s.pc = "unmirror_columns" => s.todo = colMirror
    <3>1. s = [pc |-> "unmirror_columns", todo |-> colMirror] => s.pc = "unmirror_columns" /\ s.todo = colMirror
      OBVIOUS
    <3>. QED  BY Zenon, <2>1, <3>1
  <2>3. /\ \A T \in Tables : tbMeta[T] = None
        /\ r.pc = "unmirror_keyspace" => ~ksMeta
        /\ r.pc # "unmirror_keyspace" => ksMirror = ksMeta
    BY Zenon, <2>2 DEF Mirrors, DroppingAll, Filling, Emptying
  <2>4. ksMirror' = ksMeta'
    BY Zenon, <1>0, <2>1, <2>3
  <2>5. s.pc \in DroppingAll \/ \A T \in Tables, c \in Cols : ~Shown(t, T, c)' /\ ~Told(t, T, c)'
    BY Zenon, <2>1, <2>2, <2>3 DEF Shown, Told, DroppingAll
  <2>. QED  BY Zenon, <2>1, <2>2, <2>3, <2>4, <2>5 DEF Mirrors, Filling, Emptying, DroppingOne
<1>. QED  BY Zenon, <1>1, <1>2

\* No other statement is changing the schema
Unrivalled(t) == \A u \in Tasks : u # t => ~Changing(task[u])

\* Statements change the schema at once only if that is recorded
Apart == ~clash => \A t, u \in Tasks : t # u => ~Changing(task[t]) \/ ~Changing(task[u])

\* Until then, the one that does knows where the mirrors lag behind
Followed == ~clash => \A t \in Tasks : Unrivalled(t) => Mirrors(t)

\* The mirrors describe what engine 0 holds when the server starts
LEMMA MirrorsInit == Init => \A t \in Tasks : Mirrors(t)
<1>. SUFFICES ASSUME Init, NEW t \in Tasks PROVE Mirrors(t)
  OBVIOUS
<1>1. PICK D \in [Tables -> {None, [id |-> 0, cols |-> Cols]}] :
        /\ tbMeta = D /\ colMirror = tbMirror \X Cols
        /\ tbMirror = {T \in Tables : D[T] # None} /\ ksMirror = ksMeta
  BY Zenon DEF Init
<1>2. task[t].pc = "idle"
  <2>1. task[t] = Idle
    BY Zenon DEF Init
  <2>. QED  BY Zenon, <2>1, IdlePc
<1>3. \A T \in Tables, c \in Cols : <<T, c>> \in colMirror <=> tbMeta[T] # None /\ c \in tbMeta[T].cols
  <2>. DEFINE d == [id |-> 0, cols |-> Cols]
  <2>1. d.cols = Cols
    OBVIOUS
  <2>. HIDE DEF d
  <2>2. \A T \in Tables : tbMeta[T] \in {None, d} /\ (T \in tbMirror <=> tbMeta[T] # None)
    BY <1>1 DEF d
  <2>3. \A T, c : <<T, c>> \in colMirror <=> T \in tbMirror /\ c \in Cols
    BY Zenon, <1>1
  <2>. QED  BY Zenon, <2>1, <2>2, <2>3
<1>4. \A T \in Tables, c \in Cols : Shown(t, T, c) <=> Told(t, T, c)
  BY Zenon, <1>2, <1>3 DEF Shown, Told
<1>. QED  BY <1>1, <1>2, <1>4 DEF Mirrors, Filling, Emptying, DroppingAll, DroppingOne

\* What a task does while it changes the schema, it knows of
LEMMA ChangesMirror ==
  ASSUME Types, NEW t \in Tasks, Mirrors(t), Changes(t)
  PROVE  Mirrors(t)'
  BY Zenon, PutKeyspaceMirrors, PutTableMirrors, MirrorColumnMirrors, DropTableMirrors,
     UnmirrorColumnMirrors, DropKeyspaceMirrors DEF Changes

\* A task that takes such a step is changing the schema
LEMMA ChangesIs ==
  ASSUME Types, NEW t \in Tasks, Changes(t)
  PROVE  Others(t) /\ Changing(task[t])
<1>1. Others(t)
  BY Zenon, PutKeyspaceIs, PutTableIs, MirrorColumnIs, DropTableIs, UnmirrorColumnIs, DropKeyspaceIs,
     UnmirrorKeyspaceIs DEF Changes
<1>2. Changing(task[t])
  BY Zenon DEF Changes, Changing, PutKeyspace, PutTable, MirrorColumn, DropTable, UnmirrorColumn,
     DropKeyspace, UnmirrorKeyspace
<1>. QED  BY <1>1, <1>2

\* A task that takes another one is not
LEMMA OthersAre ==
  ASSUME Types, NEW t \in Tasks, Begins(t) \/ Lookup(t) \/ PutRow(t) \/ Settle(t)
  PROVE  Others(t) /\ ~Changing(task[t])
<1>1. CASE Begins(t)
  <2>1. "drop_table" \in {"drop_table", "insert"} /\ "insert" \in {"drop_table", "insert"}
    OBVIOUS
  <2>2. Others(t) /\ task[t].pc = "idle"
    BY Zenon, <1>1, <2>1, BeginIs, IdlePc DEF Begins
  <2>. QED  BY Zenon, <2>2 DEF Changing
<1>2. CASE Lookup(t)
  <2>1. Others(t)
    BY Zenon, <1>2, LookupTableIs, LookupKeyspaceIs DEF Lookup
  <2>2. task[t].pc \in {"get_table", "read_table", "cache_table", "get_keyspace", "read_keyspace",
                        "cache_keyspace"}
    BY Zenon, <1>2 DEF Lookup, TableHit, TableMiss, ReadTable, CacheTable, KeyspaceHit, KeyspaceMiss,
       ReadKeyspace, CacheKeyspace
  <2>. QED  BY Zenon, <2>1, <2>2 DEF Changing
<1>3. CASE PutRow(t) \/ Settle(t)
  <2>1. Others(t)
    BY Zenon, <1>3, PutRowIs, SettleIs
  <2>2. task[t].pc \in {"put_row", "settle"}
    BY Zenon, <1>3 DEF PutRow, Settle
  <2>. QED  BY Zenon, <2>1, <2>2 DEF Changing
<1>. QED  BY Zenon, <1>1, <1>2, <1>3

\* Where a step leaves no task changing the schema, every task knows as much
LEMMA MirrorsAlike ==
  ASSUME NEW t \in Tasks, NEW u \in Tasks, ~Changing(task'[t]), ~Changing(task'[u]), Mirrors(t)'
  PROVE  Mirrors(u)'
<1>1. task'[t].pc \notin Mirroring /\ task'[u].pc \notin Mirroring
  BY Zenon DEF Changing, Mirroring, Filling, Emptying, DroppingOne, DroppingAll
<1>2. ASSUME NEW x \in {t, u}
      PROVE  /\ task'[x].pc \notin Filling /\ task'[x].pc \notin Emptying
             /\ task'[x].pc \notin DroppingOne /\ task'[x].pc \notin DroppingAll
             /\ task'[x].pc # "put_table" /\ task'[x].pc # "mirror_columns"
             /\ task'[x].pc \notin {"put_table_cache", "mirror_table"}
             /\ task'[x].pc # "unmirror_columns"
  BY Zenon, <1>1 DEF Mirroring
<1>3. ksMirror' = ksMeta' /\ \A T \in Tables, c \in Cols : Shown(t, T, c)' <=> Told(t, T, c)'
  BY Zenon, <1>2 DEF Mirrors
<1>4. \A T \in Tables, c \in Cols : Shown(u, T, c)' <=> Told(u, T, c)'
  BY Zenon, <1>2, <1>3 DEF Shown, Told
<1>. QED  BY Zenon, <1>2, <1>3, <1>4 DEF Mirrors

\* Every step keeps the mirrors followed while no two statements change the
\* schema at once
LEMMA FollowedStep ==
  ASSUME Types, Apart, Followed, Next
  PROVE  Apart' /\ Followed'
<1>1. Apart'
  BY Zenon DEF Next, Apart
<1>. SUFFICES ASSUME ~clash', NEW v \in Tasks, Unrivalled(v)'
              PROVE  Mirrors(v)'
  BY Zenon, <1>1 DEF Followed
<1>2. ~clash /\ \A u \in Tasks : u # v => ~Changing(task'[u])
  BY Zenon DEF Next, Unrivalled
<1>3. CASE \E e \in Engines : Apply(e)
  <2>1. UNCHANGED <<ksMeta, ksMirror, tbMeta, colMirror, task>>
    BY Zenon, <1>3, ApplyIs
  <2>2. Mirrors(v)
    BY Zenon, <1>2, <2>1 DEF Followed, Unrivalled
  <2>. QED  BY Zenon, <2>1, <2>2, MirrorsQuiet
<1>4. ASSUME NEW u \in Tasks, Changes(u)
      PROVE  Mirrors(v)'
  <2>1. Others(u) /\ Changing(task[u])
    BY Zenon, <1>4, ChangesIs
  <2>2. Mirrors(u)
    BY Zenon, <1>2, <2>1 DEF Apart, Followed, Unrivalled
  <2>3. Mirrors(u)'
    BY Zenon, <1>4, <2>2, ChangesMirror
  <2>4. CASE v # u
    <3>1. ~Changing(task'[u]) /\ ~Changing(task'[v])
      BY Zenon, <1>2, <2>1, <2>4 DEF Apart, Others
    <3>. QED  BY Zenon, <2>3, <3>1, MirrorsAlike
  <2>. QED  BY Zenon, <2>3, <2>4
<1>5. ASSUME NEW u \in Tasks, Begins(u) \/ Lookup(u) \/ PutRow(u) \/ Settle(u)
      PROVE  Mirrors(v)'
  <2>1. Others(u) /\ ~Changing(task[u])
    BY Zenon, <1>5, OthersAre
  <2>2. Mirrors(v)
    BY Zenon, <1>2, <2>1 DEF Followed, Unrivalled, Others
  <2>. QED  BY Zenon, <1>5, <2>2, OthersMirror
<1>6. \/ \E e \in Engines : Apply(e)
      \/ \E u \in Tasks : Changes(u) \/ Begins(u) \/ Lookup(u) \/ PutRow(u) \/ Settle(u)
  BY Zenon, StepIs DEF Step, Changes, Begins, Lookup
<1>. QED  BY Zenon, <1>3, <1>4, <1>5, <1>6

\* Whenever the server is at rest, system_schema.keyspaces and
\* system_schema.columns describe exactly what engine 0 holds, for any number
\* of tasks that run DDL next to each other, as long as no two were changing
\* the schema at once: CREATE TABLE mirrors every column of the definition it
\* put, the scans of DROP TABLE and DROP KEYSPACE find every row to remove,
\* and a statement that acts on a stale lookup drops or leaves out only what
\* the mirrors do not show
THEOREM MirrorsFollowEngine == Spec => []ColumnsMirrored
<1>. DEFINE Inv == Apart /\ Followed
<1>1. Init => Inv
  <2>. SUFFICES ASSUME Init PROVE Inv
    OBVIOUS
  <2>1. \A t \in Tasks : task[t].pc = "idle"
    BY Zenon, IdlePc DEF Init
  <2>2. \A t \in Tasks : ~Changing(task[t])
    BY Zenon, <2>1 DEF Changing
  <2>. QED  BY Zenon, <2>2, MirrorsInit DEF Apart, Followed
<1>2. Inv /\ UNCHANGED vars => Inv'
  <2>. SUFFICES ASSUME Inv, UNCHANGED vars PROVE Inv'
    OBVIOUS
  <2>1. UNCHANGED <<ksMeta, ksMirror, tbMeta, colMirror, task, clash>>
    BY DEF vars, ks, tb
  <2>2. Apart'
    BY Zenon, <2>1 DEF Apart
  <2>3. ASSUME NEW t \in Tasks, Mirrors(t) PROVE Mirrors(t)'
    BY Zenon, <2>1, <2>3, MirrorsQuiet
  <2>4. Followed'
    BY Zenon, <2>1, <2>3 DEF Followed, Unrivalled
  <2>. QED  BY <2>2, <2>4
<1>3. Types /\ Inv /\ [Next]_vars => Inv'
  BY Zenon, <1>2, FollowedStep
<1>4. Types /\ Inv => ColumnsMirrored
  <2>. SUFFICES ASSUME Types, Inv, AtRest, ~clash
                PROVE  /\ ksMirror = ksMeta
                       /\ colMirror = UNION {{T} \X tbMeta[T].cols : T \in {S \in Tables : tbMeta[S] # None}}
    BY DEF ColumnsMirrored
  <2>1. PICK t \in Tasks : TRUE
    BY SchemaConstants DEF Tasks
  <2>2. \A u \in Tasks : task[u].pc = "idle"
    BY Zenon, IdlePc DEF AtRest
  <2>3. Mirrors(t)
    BY Zenon, <2>2 DEF Followed, Unrivalled, Changing
  <2>4. ksMirror = ksMeta
    BY Zenon, <2>2, <2>3 DEF Mirrors, Filling, Emptying
  <2>5. \A T \in Tables, c \in Cols : <<T, c>> \in colMirror <=> tbMeta[T] # None /\ c \in tbMeta[T].cols
    BY Zenon, <2>2, <2>3 DEF Mirrors, DroppingAll, DroppingOne, Shown, Told
  <2>6. colMirror \subseteq Tables \X Cols /\ \A T \in Tables : tbMeta[T] # None => tbMeta[T].cols \subseteq Cols
    BY DataNow DEF Data, TableDef
  <2>7. \A x : x \in colMirror <=> \E T \in Tables : tbMeta[T] # None /\ x \in {T} \X tbMeta[T].cols
    BY <2>5, <2>6
  <2>8. \A x : x \in colMirror <=> x \in UNION {{T} \X tbMeta[T].cols : T \in {S \in Tables : tbMeta[S] # None}}
    BY Zenon, <2>7
  <2>. QED  BY <2>4, <2>8
<1>. QED  BY TypesAlways, <1>1, <1>3, <1>4, PTL DEF Spec
=============================================================================
