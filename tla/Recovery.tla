------------------------------ MODULE Recovery ------------------------------
(***************************************************************************)
(* Storage::open, what survives a crash, and what the next open finds.     *)
(* The number of engines is kept in the marker file ENGINE-SHARDS; the     *)
(* system keyspaces and tables are seeded one write at a time; each engine *)
(* persists on its own, at once in durable mode (RHYDADB_SYNC) and         *)
(* otherwise when RocksDB flushes the memtable, since WAL is disabled.     *)
(* CREATE TABLE, DROP TABLE and TRUNCATE are several writes each, on       *)
(* several engines, and a crash may come between any two.  Statements run  *)
(* one at a time here: their interleavings are SchemaStore's.              *)
(***************************************************************************)
EXTENDS Integers, Sequences, Functions

CONSTANTS
  Syncs,          \* whether RHYDADB_SYNC may be set at a start: a set of Booleans
  EnvShards,      \* values RHYDADB_ENGINE_SHARDS may have at a start
  Unset,          \* ... one of which is none at all
  DefaultShards,  \* cpus.clamp(4, 16)
  MaxShards,      \* 64
  UserRows,       \* keys of rows of the user's table
  Hash,           \* fnv1a of the partition of a row
  Crashes,        \* "process": memory is lost; "power": so is the page cache
  MaxStarts,      \* bound of the model: calls of Storage::open; the last is never ended
  MaxTables       \* bound of the model: CREATE TABLEs

ASSUME RecoveryConstants ==
  /\ Syncs \subseteq BOOLEAN
  /\ EnvShards \subseteq Nat \cup {Unset}
  /\ MaxShards \in Nat \ {0}
  /\ DefaultShards \in 1 .. MaxShards
  /\ UserRows \cap {"local", "tables", "columns"} = {}
  /\ Hash \in [UserRows \cup {"local", "tables", "columns"} -> Nat]
  /\ Crashes \subseteq {"process", "power"}
  /\ MaxTables \in Nat

\* What is written: keyspace and table definitions and rows
Keyspace(k) == <<"ks", k>>
Table(t) == <<"tb", t>>
Row(r) == <<"row", r>>
\* The user's table, its mirror in system_schema (its row of tables, and its
\* rows of columns, which one stands for), its rows
UserTable == Table("user")
TablesRow == Row("tables")
Mirror == Row("columns")
DataRows == {Row(r) : r \in UserRows}

\* seed_system, keyspace by keyspace (one table stands for
\* those of a keyspace that no row follows)
SeedOfSystem == <<Keyspace("system"), Table("local"), Row("local")>>
SeedOfSchema == <<Keyspace("schema"), Table("tables")>>
SeedOfVirtual == <<Keyspace("virtual"), Table("vkeyspaces")>>
Seeds == <<SeedOfSystem, SeedOfSchema, SeedOfVirtual>>
SeedItems == UNION {Range(Seeds[i]) : i \in DOMAIN Seeds}
Items == SeedItems \cup {UserTable, TablesRow, Mirror} \cup DataRows

\* The value of an item: None, or the number of the CREATE TABLE it belongs
\* to (0 for what is seeded)
None == -1
Vals == {None} \cup 0 .. MaxTables

Absent == 0       \* no marker file
Unreadable == -1  \* a marker file whose text is no number

VARIABLES
  pc,        \* "down", "create", "fill" (the marker), "seed" or "serving"
  durable,   \* write_sync
  shards,    \* number of engines opened
  marker,    \* the marker file
  markerSafe,\* whether its content has left the page cache
  seeding,   \* what the current keyspace's seed still has to write
  seed,      \* number of the current keyspace of Seeds
  live,      \* per engine directory: what reads of it find
  disk,      \* per engine directory: what of that a crash leaves
  todo,      \* the statement in progress: the writes it has still to make
  queued,    \* whether a removal of TablesRow that nobody awaits is in its pipeline
  tables,    \* number of CREATE TABLEs so far
  allowed,   \* history: per item, the values the acknowledgements allow it
  hurt,      \* history: what crashes interrupted or destroyed, and whether a
             \* removal of TablesRow came too late
  starts

files == <<marker, markerSafe>>
engines == <<live, disk>>
statement == <<todo, queued, tables>>
history == <<allowed, hurt>>
vars == <<pc, durable, shards, files, seeding, seed, engines, statement, history, starts>>

Dirs == 0 .. MaxShards - 1

\* A write: these items get this value on this engine
Writes == [engine : Dirs, items : SUBSET Items, val : Vals]

\* Every variable has its type, and of the engines at least one is open
TypeOK ==
  /\ pc \in {"down", "create", "fill", "seed", "serving"}
  /\ shards \in 1 .. MaxShards
  /\ marker \in {Absent, Unreadable} \cup 1 .. MaxShards
  /\ seed \in 1 .. Len(Seeds) + 1
  /\ \A e \in Dirs : live[e] \in [Items -> Vals] /\ disk[e] \in [Items -> Vals]
  /\ \A i \in DOMAIN todo : todo[i] \subseteq Writes
  /\ queued \in BOOLEAN
  /\ tables \in 0 .. MaxTables

-----------------------------------------------------------------------------
\* Variant: the value is taken as it is
EnvNumAsIs(v, default, lo, hi) == IF v = Unset THEN default ELSE v
\* env_num
EnvNum(v, default, lo, hi) ==
  LET n == IF v = Unset THEN default ELSE v
  IN  IF n < lo THEN lo ELSE IF n > hi THEN hi ELSE n

\* engine_of: metadata is on engine 0, a row on the engine of its partition
EngineOf(w, n) ==
  IF w[1] # "row" \/ n <= 1 THEN 0 ELSE Hash[w[2]] % n

\* What a read finds
Value(i) == live[EngineOf(i, shards)][i]
Found(i) == Value(i) # None

Put(i, v) == [engine |-> EngineOf(i, shards), items |-> {i}, val |-> v]

\* Variant: a write in durable mode is not synced
ApplyUnsynced(w) ==
  /\ live' = [live EXCEPT ![w.engine] = [i \in Items |-> IF i \in w.items THEN w.val ELSE @[i]]]
  /\ UNCHANGED disk
\* put_opt or write_opt with sync in durable mode, with disable_wal otherwise
Apply(w) ==
  /\ live' = [live EXCEPT ![w.engine] = [i \in Items |-> IF i \in w.items THEN w.val ELSE @[i]]]
  /\ disk' = IF durable THEN live' ELSE disk

-----------------------------------------------------------------------------
\* Variant: the environment decides, whatever the marker says
OpenByEnvironment(v) ==
  /\ pc = "down"
  /\ durable' \in Syncs
  /\ starts' = starts + 1
  /\ shards' = EnvNum(v, DefaultShards, 1, MaxShards)
  /\ pc' = IF marker = Absent THEN "create" ELSE "seed"
  /\ seed' = 1
  /\ UNCHANGED <<files, seeding, engines, statement, history>>
\* open: a marker that can be read decides, or stands for 1 if it is no
\* number; else the environment does, and the marker is written
Open(v) ==
  /\ pc = "down"
  /\ durable' \in Syncs
  /\ starts' = starts + 1
  /\ seed' = 1
  /\ \/ /\ marker = Absent
        /\ shards' = EnvNum(v, DefaultShards, 1, MaxShards)
        /\ pc' = "create"
     \/ /\ marker # Absent
        /\ shards' = IF marker = Unreadable THEN 1 ELSE marker
        /\ pc' = "seed"
  /\ UNCHANGED <<files, seeding, engines, statement, history>>

\* fs::write: the file is created empty, then its content is written; it is
\* not synced
CreateMarker ==
  /\ pc = "create"
  /\ marker' = Unreadable
  /\ markerSafe' = FALSE
  /\ pc' = "fill"
  /\ UNCHANGED <<durable, shards, seeding, seed, engines, statement, history, starts>>

FillMarker ==
  /\ pc = "fill"
  /\ marker' = shards
  /\ pc' = "seed"
  /\ UNCHANGED <<durable, shards, markerSafe, seeding, seed, engines, statement, history, starts>>

\* Variant: the last keyspace is forgotten
SeedKeyspaceShort ==
  /\ pc = "seed" /\ seeding = <<>>
  /\ \/ /\ seed >= Len(Seeds)
        /\ pc' = "serving"
        /\ UNCHANGED <<seeding, seed>>
     \/ /\ seed < Len(Seeds)
        /\ seeding' = IF Found(Head(Seeds[seed])) THEN <<>> ELSE Seeds[seed]
        /\ seed' = seed + 1
        /\ UNCHANGED pc
  /\ UNCHANGED <<durable, shards, files, engines, statement, history, starts>>
\* seed_system: a keyspace that is there is not seeded again ...
SeedKeyspace ==
  /\ pc = "seed" /\ seeding = <<>>
  /\ \/ /\ seed > Len(Seeds)
        /\ pc' = "serving"
        /\ UNCHANGED <<seeding, seed>>
     \/ /\ seed <= Len(Seeds)
        /\ seeding' = IF Found(Head(Seeds[seed])) THEN <<>> ELSE Seeds[seed]
        /\ seed' = seed + 1
        /\ UNCHANGED pc
  /\ UNCHANGED <<durable, shards, files, engines, statement, history, starts>>

\* ... and one that is not is written record by record
SeedNext ==
  /\ pc = "seed" /\ seeding # <<>>
  /\ Apply(Put(Head(seeding), 0))
  /\ seeding' = Tail(seeding)
  /\ UNCHANGED <<pc, durable, shards, files, seed, statement, history, starts>>

-----------------------------------------------------------------------------
serverSide == <<pc, durable, shards, files, seeding, seed>>
Idle == pc = "serving" /\ todo = <<>>

\* A statement starts: from now on either value of what it writes may be
\* found after a crash.  The writes of a stage are made in any order, since
\* every engine has its own pipeline
Begin(stages) ==
  LET writes == UNION Range(stages)
      News(i) == {w.val : w \in {x \in writes : i \in x.items}} IN
  /\ todo' = stages
  /\ allowed' = [i \in Items |-> allowed[i] \cup News(i)]
  /\ UNCHANGED <<serverSide, queued, engines, hurt, starts>>

\* A range tombstone over the table's rows on every engine, through the
\* pipelines: delete_data_prefix
Tombstones == {[engine |-> e, items |-> DataRows, val |-> None] : e \in 0 .. shards - 1}

\* unmirror_table_metadata queues this, and drops the ticket
Removal == Put(TablesRow, None)

\* CREATE TABLE: the definition is written, then its mirror
CreateTable ==
  /\ Idle /\ tables < MaxTables
  /\ ~Found(UserTable)
  /\ tables' = tables + 1
  /\ Begin(<<{Put(UserTable, tables')}, {Put(TablesRow, tables')}, {Put(Mirror, tables')}>>)

\* INSERT (put_row) and DELETE (delete_row): one operation
WriteRow(r) ==
  /\ Idle
  /\ Found(UserTable)
  /\ \E v \in {Value(UserTable), None} \ {Value(Row(r))} : Begin(<<{Put(Row(r), v)}>>)
  /\ UNCHANGED tables

\* TRUNCATE
TruncateTable ==
  /\ Idle
  /\ Found(UserTable)
  /\ Begin(<<Tombstones>>)
  /\ UNCHANGED tables

\* Variant: no tombstones are sent
DropTableKeepsRows ==
  /\ Idle
  /\ Found(UserTable)
  /\ Begin(<<{Put(UserTable, None)}, {Removal, Put(Mirror, None)}>>)
  /\ UNCHANGED tables
\* Variant: the row of system_schema.tables is left to the next CREATE TABLE
DropTableListed ==
  /\ Idle
  /\ Found(UserTable)
  /\ Begin(<<{Put(UserTable, None)}, Tombstones \cup {Put(Mirror, None)}>>)
  /\ UNCHANGED tables
\* DROP TABLE: the definition goes first; then the tombstones and the removal
\* of TablesRow are queued, and committed while the columns rows are removed
DropTable ==
  /\ Idle
  /\ Found(UserTable)
  /\ Begin(<<{Put(UserTable, None)}, Tombstones \cup {Removal, Put(Mirror, None)}>>)
  /\ UNCHANGED tables

\* The pipeline of an engine is a queue: what was sent to it before w comes
\* first
InTurn(w) ==
  /\ w.items \subseteq DataRows /\ w.engine = EngineOf(TablesRow, shards) => ~queued
  /\ w = Removal => \A x \in Head(todo) : x.items = DataRows => x.engine # w.engine

\* The writes that are left once w is made
Without(w) ==
  IF Head(todo) = {w} THEN Tail(todo) ELSE <<Head(todo) \ {w}>> \o Tail(todo)

\* The next write of the statement in progress.  The last one is followed by
\* the acknowledgement (settle), which does not await the removal of
\* TablesRow: in durable mode all else is on disk then, and no other values
\* are allowed any more
StatementWrites ==
  /\ pc = "serving" /\ todo # <<>>
  /\ \E w \in Head(todo) :
       /\ InTurn(w) /\ Apply(w)
       /\ \/ Without(w) # <<{Removal}>> /\ todo' = Without(w) /\ queued' = queued
          \/ Without(w) = <<{Removal}>> /\ todo' = <<>> /\ queued' = TRUE
       /\ hurt' = IF queued /\ TablesRow \in w.items /\ w.val # None
                  THEN hurt \cup {"removal"} ELSE hurt
  /\ allowed' = IF durable /\ todo' = <<>>
                THEN [i \in Items |->
                        IF i \in SeedItems THEN allowed[i]
                        ELSE {live'[EngineOf(i, shards)][i]}
                               \cup (IF i = TablesRow /\ queued' THEN {None} ELSE {})]
                ELSE allowed
  /\ UNCHANGED <<serverSide, tables, starts>>

\* The committer gets to the removal that nobody awaits
CommitRemoval ==
  /\ pc = "serving" /\ queued
  /\ Apply(Removal)
  /\ queued' = FALSE
  /\ UNCHANGED <<serverSide, todo, tables, history, starts>>

\* RocksDB writes an engine's memtable to disk
FlushMemtable(e) ==
  /\ pc # "down" /\ disk[e] # live[e]
  /\ disk' = [disk EXCEPT ![e] = live[e]]
  /\ UNCHANGED <<serverSide, live, statement, history, starts>>

\* The operating system writes the page cache back
WriteBack ==
  /\ ~markerSafe /\ pc \notin {"create", "fill"}
  /\ markerSafe' = TRUE
  /\ UNCHANGED <<pc, durable, shards, marker, seeding, seed, engines, statement, history, starts>>

\* Drop for Storage: the pipelines are drained and then RocksDB, on closing,
\* flushes memtables that have no WAL
Close ==
  /\ Idle /\ ~queued /\ starts < MaxStarts
  /\ disk' = live
  /\ pc' = "down"
  /\ allowed' = [i \in Items |-> {Value(i)}]
  /\ UNCHANGED <<durable, shards, files, seeding, seed, live, statement, hurt, starts>>

\* Memory is lost, and by a power failure perhaps the marker's content
Crash(kind) ==
  /\ pc # "down" /\ starts < MaxStarts
  /\ pc' = "down"
  /\ live' = disk
  /\ marker' \in IF kind = "power" /\ ~markerSafe
                 THEN {marker, Unreadable, Absent} ELSE {marker}
  /\ markerSafe' = (markerSafe \/ kind = "power")
  /\ seeding' = <<>>
  /\ todo' = <<>> /\ queued' = FALSE
  /\ hurt' = hurt \cup (IF pc = "seed" THEN {"seed"} ELSE {})
                  \cup (IF todo # <<>> THEN {"statement"} ELSE {})
                  \cup (IF queued THEN {"removal"} ELSE {})
                  \cup (IF live # disk THEN {"memtable"} ELSE {})
                  \cup (IF marker' # marker THEN {"marker"} ELSE {})
  /\ UNCHANGED <<durable, shards, seed, disk, tables, allowed, starts>>

-----------------------------------------------------------------------------
Init ==
  /\ pc = "down"
  /\ durable \in Syncs
  /\ shards = 1
  /\ marker = Absent
  /\ markerSafe = TRUE
  /\ seeding = <<>>
  /\ seed = 1
  /\ live = [e \in Dirs |-> [i \in Items |-> None]]
  /\ disk = live
  /\ todo = <<>>
  /\ queued = FALSE
  /\ tables = 0
  /\ allowed = [i \in Items |-> IF i \in SeedItems THEN {None, 0} ELSE {None}]
  /\ hurt = {}
  /\ starts = 0

Next ==
  \/ \E v \in EnvShards : Open(v)
  \/ CreateMarker
  \/ FillMarker
  \/ SeedKeyspace
  \/ SeedNext
  \/ CreateTable
  \/ \E r \in UserRows : WriteRow(r)
  \/ TruncateTable
  \/ DropTable
  \/ StatementWrites
  \/ CommitRemoval
  \/ \E e \in Dirs : FlushMemtable(e)
  \/ WriteBack
  \/ Close
  \/ \E kind \in Crashes : Crash(kind)

Spec == Init /\ [][Next]_vars

-----------------------------------------------------------------------------
\* Restarts never misroute rows: whatever the environment says at a later
\* start, and wherever an earlier one crashed, every row on disk is on the
\* engine that lookups of it go to, unless the marker itself was lost
NeverMisrouted ==
  pc = "serving" /\ "marker" \notin hurt =>
    \A e \in Dirs : \A i \in Items : live[e][i] # None => EngineOf(i, shards) = e

\* What durable mode, or a clean close, has acknowledged is what every later
\* incarnation of the server finds: a row, a definition, a DELETE, a TRUNCATE
\* or a DROP is neither lost nor undone, and where a later statement was not
\* acknowledged durably, one of the values written since is found; so it is
\* where the acknowledgement does not await the write (TablesRow)
AckedSurvives ==
  Idle /\ "marker" \notin hurt => \A i \in Items : Value(i) \in allowed[i]

\* A table shows rows inserted into it only: none that was inserted under an
\* earlier definition of the same name, although DROP removes the definition
\* before the rows and the engines persist on their own; unless a crash
\* interrupted a statement or destroyed a memtable
RowsOfThisTable ==
  Idle /\ hurt \cap {"memtable", "statement", "marker"} = {} =>
    \A i \in DataRows : Found(i) => Value(i) = Value(UserTable)

\* A table is mirrored in system_schema, with the columns it was last created
\* with, exactly when it exists; with the same exceptions.  Of its row of
\* system_schema.tables this holds once the removal that DROP TABLE does not
\* await is committed, unless a crash lost that removal or the next CREATE
\* TABLE overtook it
MirrorMatches ==
  Idle /\ hurt \cap {"memtable", "statement", "marker"} = {} =>
    /\ Value(Mirror) = Value(UserTable)
    /\ ~queued /\ "removal" \notin hurt => Value(TablesRow) = Value(UserTable)

\* When the server serves, every system table and the row of system.local
\* that drivers probe are there, unless a crash interrupted their seeding or
\* destroyed a memtable
SystemSeeded ==
  pc = "serving" /\ hurt \cap {"seed", "memtable", "marker"} = {} =>
    \A i \in SeedItems : Found(i)
=============================================================================
