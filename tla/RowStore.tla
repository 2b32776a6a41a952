------------------------------ MODULE RowStore ------------------------------
(***************************************************************************)
(* Row requests over the row cache and the engines.  A connection's task   *)
(* runs one INSERT, UPDATE, DELETE, TRUNCATE, point SELECT or table scan   *)
(* at a time; every access to the cache (a DashMap) or to an engine is a   *)
(* step of its own, since nothing locks a row across two of them.  The     *)
(* engines are those of OpLog, which WritePipeline implements.             *)
(***************************************************************************)
EXTENDS Integers, Sequences

CONSTANTS
  Engines, Keys, Absent, EngineOf, MaxOps,  \* as in WritePipeline
  Table,        \* the keys of the table the requests are on
  Columns,      \* its regular columns
  Caching,      \* whether there may be a row cache: a set of Booleans
  Tasks,        \* requests in execution at the same time
  MaxRequests   \* bound of the model: writing requests issued in all

ASSUME RowConstants ==
  /\ Engines \in (SUBSET Nat) \ {{}}
  /\ EngineOf \in [Keys -> Engines]
  /\ Table \subseteq Keys
  /\ Caching \subseteq BOOLEAN
  /\ MaxOps \in Nat /\ MaxRequests \in Nat
  /\ Absent \notin [Columns -> 0 .. MaxRequests]

Null == 0

\* A stored row: for each column, the request that assigned it
Rows == [Columns -> 0 .. MaxRequests]

VARIABLES
  log, applied, db, completed,  \* the engines
  cache,    \* row_cache: Absent where there is no entry
  caching,  \* whether this server has a row cache, RHYDADB_ROW_CACHE_ENTRIES
  task,     \* what each task is doing
  issued,   \* history: number of writing requests begun
  acked,    \* history: per key, the last operation on it that was
            \* acknowledged to a client (its place in the engine's log)
  overlap   \* history: whether two requests were ever in execution at once

engines == <<log, applied, db, completed>>
vars == <<engines, cache, caching, task, issued, acked, overlap>>

\* No write fails in this module
Log == INSTANCE OpLog WITH Vals <- Rows, store <- db, MayFail <- FALSE,
                           lost <- [e \in Engines |-> {}]

Cells == Rows \cup {Absent}

Idle == [pc |-> "idle"]

\* An operation in the log of an engine
Ops == [n : Nat, keys : SUBSET Keys, val : Cells]

Reading == {"get", "read", "fill"}
Writing == {"cache_put", "cache_remove", "send"}
Owing == {"send_range", "cache_clear", "settle"}
Answering == {"scan", "reply"}

\* The fields of a task's record that its pc goes on to use
Rec(r) ==
  /\ "pc" \in DOMAIN r
  /\ r.pc = "idle" => r = Idle
  /\ r.pc \in {"idle"} \cup Reading \cup Writing \cup Owing \cup Answering
  /\ r.pc \in Reading \cup Writing =>
       {"key", "cols"} \subseteq DOMAIN r /\ r.key \in Table
  /\ r.pc \in Reading =>
       /\ "read" \in DOMAIN r
       /\ "floor" \notin DOMAIN r => "id" \in DOMAIN r /\ r.id \in 1 .. MaxRequests
  /\ r.pc = "fill" => r.read \in Rows
  /\ r.pc \in Writing => "val" \in DOMAIN r /\ r.val \in Cells
  /\ r.pc \in {"scan", "send_range"} => r.todo \in (SUBSET Engines) \ {{}}
  /\ r.pc \in Owing => "tickets" \in DOMAIN r
  /\ r.pc \in {"send_range", "cache_clear"} => "key" \notin DOMAIN r
  /\ r.pc = "settle" /\ "key" \in DOMAIN r => r.key \in Table
  /\ r.pc \in Answering => {"floor", "rows"} \subseteq DOMAIN r /\ DOMAIN r.rows \subseteq Table
  /\ "floor" \in DOMAIN r => r.floor \in [Keys -> Nat] /\ r.pc \in Reading \cup Answering

\* Every variable has its type; a task awaits tickets of operations that are in
\* a log, and what is complete was applied
TypeOK ==
  /\ DOMAIN log = Engines
  /\ \A e \in Engines : /\ log[e] \in Seq(Ops) /\ Len(log[e]) <= MaxOps
                        /\ applied[e] \in 0 .. Len(log[e]) /\ completed[e] \subseteq 1 .. applied[e]
  /\ db \in [Engines -> [Keys -> Cells]]
  /\ cache \in [Keys -> Cells]
  /\ ~caching => \A k \in Keys : cache[k] = Absent
  /\ DOMAIN task = Tasks
  /\ \A t \in Tasks :
       /\ Rec(task[t])
       /\ task[t].pc \in Owing =>
            \A w \in task[t].tickets : w \in Engines \X Nat /\ w[2] \in 1 .. Len(log[w[1]])
  /\ issued \in 0 .. MaxRequests
  /\ acked \in [Keys -> 0 .. MaxOps]

-----------------------------------------------------------------------------
\* The engine a loop over the engines E comes to next
First(E) == {e \in E : \A f \in E : e <= f}

Goto(t, pc) == task' = [task EXCEPT ![t].pc = pc]

\* The row a statement that assigns the columns C writes over the row old
Merge(old, C, id) ==
  [c \in Columns |-> IF c \in C THEN id ELSE IF old = Absent THEN Null ELSE old[c]]

\* exec_insert: columns the statement does not name are stored as null
BeginInsert(t) ==
  \E k \in Table, C \in SUBSET Columns :
    /\ task[t] = Idle
    /\ issued < MaxRequests
    /\ issued' = issued + 1
    /\ task' = [task EXCEPT ![t] = [pc |-> "cache_put", key |-> k, cols |-> Columns,
                                    val |-> Merge(Absent, C, issued + 1)]]
    /\ UNCHANGED <<engines, cache, acked>>

\* Variant: every UPDATE overwrites the row without reading it
BeginUpdateBlind(t) ==
  \E k \in Table, C \in (SUBSET Columns) \ {{}} :
    /\ task[t] = Idle
    /\ issued < MaxRequests
    /\ issued' = issued + 1
    /\ task' = [task EXCEPT ![t] = [pc |-> "cache_put", key |-> k, cols |-> C,
                                    val |-> Merge(Absent, C, issued + 1)]]
    /\ UNCHANGED <<engines, cache, acked>>

\* exec_update: reads the row first unless it assigns every regular column
BeginUpdate(t) ==
  \E k \in Table, C \in (SUBSET Columns) \ {{}} :
    /\ task[t] = Idle
    /\ issued < MaxRequests
    /\ issued' = issued + 1
    /\ task' = [task EXCEPT ![t] =
                  IF C = Columns
                  THEN [pc |-> "cache_put", key |-> k, cols |-> C,
                        val |-> Merge(Absent, C, issued + 1)]
                  ELSE [pc |-> "get", key |-> k, cols |-> C, id |-> issued + 1,
                        read |-> Absent]]
    /\ UNCHANGED <<engines, cache, acked>>

BeginDelete(t) ==
  \E k \in Table :
    /\ task[t] = Idle
    /\ issued < MaxRequests
    /\ issued' = issued + 1
    /\ task' = [task EXCEPT ![t] = [pc |-> "cache_remove", key |-> k, cols |-> Columns,
                                    val |-> Absent]]
    /\ UNCHANGED <<engines, cache, acked>>

\* truncate_table: one DeleteRange per engine, then the cache is cleared
BeginTruncate(t) ==
  /\ task[t] = Idle
  /\ issued < MaxRequests
  /\ issued' = issued + 1
  /\ task' = [task EXCEPT ![t] = [pc |-> "send_range", todo |-> Engines, tickets |-> {}]]
  /\ UNCHANGED <<engines, cache, acked>>

\* A point SELECT; floor is what this client has been told of, read the row
\* that get_row has found in the engine
BeginSelect(t) ==
  \E k \in Table :
    /\ task[t] = Idle
    /\ task' = [task EXCEPT ![t] = [pc |-> "get", key |-> k, cols |-> {},
                                    floor |-> acked, read |-> Absent]]
    /\ UNCHANGED <<engines, cache, issued, acked>>

\* A table scan goes through the engines one by one and not to the cache
BeginScan(t) ==
  /\ task[t] = Idle
  /\ task' = [task EXCEPT ![t] = [pc |-> "scan", todo |-> Engines, floor |-> acked,
                                  rows |-> [k \in {} |-> Absent]]]
  /\ UNCHANGED <<engines, cache, issued, acked>>

-----------------------------------------------------------------------------
\* What a task does with the row v it read: a SELECT replies, an UPDATE merges
WithRow(t, v) ==
  task' = [task EXCEPT ![t] =
             IF "floor" \in DOMAIN @
             THEN [pc |-> "reply", floor |-> @.floor, rows |-> [k \in {@.key} |-> v]]
             ELSE [pc |-> "cache_put", key |-> @.key, cols |-> @.cols,
                   val |-> Merge(v, @.cols, @.id)]]

\* get_row, cache.get: a hit is the result
GetHit(t) ==
  /\ task[t].pc = "get"
  /\ cache[task[t].key] # Absent
  /\ WithRow(t, cache[task[t].key])
  /\ UNCHANGED <<engines, cache, issued, acked>>

GetMiss(t) ==
  /\ task[t].pc = "get"
  /\ cache[task[t].key] = Absent
  /\ Goto(t, "read")
  /\ UNCHANGED <<engines, cache, issued, acked>>

\* get_row, dbs[engine].get
ReadEngine(t) ==
  LET k == task[t].key
      v == db[EngineOf[k]][k]
  IN
  /\ task[t].pc = "read"
  /\ IF caching /\ v # Absent
     THEN task' = [task EXCEPT ![t].pc = "fill", ![t].read = v]
     ELSE WithRow(t, v)
  /\ UNCHANGED <<engines, cache, issued, acked>>

\* get_row, cache.insert of the row that was read
FillCache(t) ==
  /\ task[t].pc = "fill"
  /\ cache' = [cache EXCEPT ![task[t].key] = task[t].read]
  /\ WithRow(t, task[t].read)
  /\ UNCHANGED <<engines, issued, acked>>

\* Variant: the cache is filled although there is to be none
ChangeCacheAlways(t) ==
  /\ task[t].pc \in {"cache_put", "cache_remove"}
  /\ cache' = [cache EXCEPT ![task[t].key] = task[t].val]
  /\ Goto(t, "send")
  /\ UNCHANGED <<engines, issued, acked>>

\* Variant: delete_row leaves the cached row
ChangeCachePutOnly(t) ==
  /\ task[t].pc \in {"cache_put", "cache_remove"}
  /\ cache' = IF caching /\ task[t].val # Absent
              THEN [cache EXCEPT ![task[t].key] = task[t].val] ELSE cache
  /\ Goto(t, "send")
  /\ UNCHANGED <<engines, issued, acked>>

\* put_row and delete_row change the cache before they send the operation
ChangeCache(t) ==
  /\ task[t].pc \in {"cache_put", "cache_remove"}
  /\ cache' = IF caching
              THEN [cache EXCEPT ![task[t].key] = task[t].val] ELSE cache
  /\ Goto(t, "send")
  /\ UNCHANGED <<engines, issued, acked>>

\* write_data_op
SendRow(t) ==
  LET k == task[t].key
      e == EngineOf[k]
  IN
  /\ task[t].pc = "send"
  /\ Log!Accept(e, {k}, task[t].val)
  /\ task' = [task EXCEPT ![t] = [pc |-> "settle", key |-> k, cols |-> @.cols,
                                  tickets |-> {<<e, Len(log[e]) + 1>>}]]
  /\ UNCHANGED <<cache, issued, acked>>

\* delete_data_prefix, the loop over the engines
SendRange(t) ==
  /\ task[t].pc = "send_range"
  /\ \E e \in First(task[t].todo) :
       /\ Log!Accept(e, Table, Absent)
       /\ task' = [task EXCEPT ![t] =
                     [pc |-> IF @.todo = {e} THEN "cache_clear" ELSE "send_range",
                      todo |-> @.todo \ {e},
                      tickets |-> @.tickets \cup {<<e, Len(log[e]) + 1>>}]]
  /\ UNCHANGED <<cache, issued, acked>>

\* delete_data_prefix, cache.clear
ClearCache(t) ==
  /\ task[t].pc = "cache_clear"
  /\ cache' = [k \in Keys |-> Absent]
  /\ Goto(t, "settle")
  /\ UNCHANGED <<engines, issued, acked>>

\* What clients know of once the tickets T are answered; T has at most one
\* ticket of an engine
Told(T) ==
  [k \in Keys |->
     LET later == {n \in acked[k] + 1 .. MaxOps :
                     <<EngineOf[k], n>> \in T /\ k \in log[EngineOf[k]][n].keys}
     IN  IF later = {} THEN acked[k] ELSE CHOOSE n \in later : TRUE]

\* Variant: the request is acknowledged without awaiting its tickets
SettleAtOnce(t) ==
  /\ task[t].pc = "settle"
  /\ acked' = Told(task[t].tickets)
  /\ task' = [task EXCEPT ![t] = Idle]
  /\ UNCHANGED <<engines, cache, issued>>

\* settle: every ticket is awaited, then the request is acknowledged
Settle(t) ==
  /\ task[t].pc = "settle"
  /\ \A w \in task[t].tickets : w[2] \in completed[w[1]]
  /\ acked' = Told(task[t].tickets)
  /\ task' = [task EXCEPT ![t] = Idle]
  /\ UNCHANGED <<engines, cache, issued>>

\* for_each_in_table, one engine: its iterator is a snapshot
ScanEngine(t) ==
  LET rows == task[t].rows IN
  /\ task[t].pc = "scan"
  /\ \E e \in First(task[t].todo) :
       task' = [task EXCEPT ![t] =
                  [pc |-> IF @.todo = {e} THEN "reply" ELSE "scan",
                   todo |-> @.todo \ {e}, floor |-> @.floor,
                   rows |-> [k \in {x \in Table : x \in DOMAIN rows \/ EngineOf[x] = e} |->
                               IF EngineOf[k] = e THEN db[e][k] ELSE rows[k]]]]
  /\ UNCHANGED <<engines, cache, issued, acked>>

Reply(t) ==
  /\ task[t].pc = "reply"
  /\ task' = [task EXCEPT ![t] = Idle]
  /\ UNCHANGED <<engines, cache, issued, acked>>

-----------------------------------------------------------------------------
Init ==
  /\ Log!Init
  /\ cache = [k \in Keys |-> Absent]
  /\ task = [t \in Tasks |-> Idle]
  /\ issued = 0
  /\ acked = [k \in Keys |-> 0]
  /\ caching \in Caching
  /\ overlap = FALSE

Begin(t) ==
  \/ BeginInsert(t) \/ BeginUpdate(t) \/ BeginDelete(t) \/ BeginTruncate(t)
  \/ BeginSelect(t) \/ BeginScan(t)

Step(t) ==
  \/ GetHit(t) \/ GetMiss(t) \/ ReadEngine(t) \/ FillCache(t)
  \/ ChangeCache(t) \/ SendRow(t) \/ SendRange(t) \/ ClearCache(t)
  \/ Settle(t) \/ ScanEngine(t) \/ Reply(t)

\* The write pipelines of the engines, as OpLog promises them
Pipelines ==
  /\ \E e \in Engines : Log!Apply(e) \/ Log!Complete(e)
  /\ UNCHANGED <<cache, task, issued, acked>>

Next ==
  /\ Pipelines \/ \E t \in Tasks : Begin(t) \/ Step(t)
  /\ overlap' = (overlap \/ \E t, u \in Tasks : t # u /\ Idle \notin {task'[t], task'[u]})
  /\ UNCHANGED caching

Spec == Init /\ [][Next]_vars

-----------------------------------------------------------------------------
\* v is what some operation on k left there, none older than the one at f
Fresh(k, f, v) ==
  LET l == log[EngineOf[k]] IN
  \/ f = 0 /\ v = Absent
  \/ \E n \in 1 .. Len(l) : n >= f /\ k \in l[n].keys /\ l[n].val = v
  \/ \E t \in Tasks : task[t].pc = "send" /\ task[t].key = k /\ task[t].val = v

\* Strict read-your-writes: a SELECT or scan that begins after a write was
\* acknowledged returns, for every row, what that write or a later one left;
\* a deleted or truncated row never comes back
StrictReadYourWrites ==
  \A t \in Tasks : task[t].pc = "reply" =>
    \A k \in DOMAIN task[t].rows : Fresh(k, task[t].floor[k], task[t].rows[k])

\* ... which holds as long as requests that use the row cache do not overlap,
\* and whatever overlaps where there is no row cache
ReadYourWrites == (caching /\ overlap) \/ StrictReadYourWrites

\* An UPDATE that no request overlaps merges: the columns it does not assign
\* keep the value they have in the row it replaces
UpdateMerges ==
  ~overlap => \A t \in Tasks : task[t].pc = "settle" /\ "key" \in DOMAIN task[t] =>
    \A w \in task[t].tickets :
      LET old == Log!Shown(log[w[1]], 1 .. w[2] - 1, task[t].key)
          row == log[w[1]][w[2]].val
      IN  row # Absent =>
            \A c \in Columns \ task[t].cols :
              row[c] = IF old = Absent THEN Null ELSE old[c]

\* The row cache is coherent: after requests that did not overlap, once every
\* pipeline is at rest, an entry is the row its engine holds
CacheCoherent ==
  ~overlap /\ (\A t \in Tasks : task[t] = Idle) /\ (\A e \in Engines : applied[e] = Len(log[e])) =>
    \A k \in Keys : cache[k] # Absent => cache[k] = db[EngineOf[k]][k]
=============================================================================
