# A TLA+ model of RhydaDB

RhydaDB is a single-node CQL server over RocksDB. This directory holds a
specification of its storage and server layers in TLA+, configurations that
model-check it with TLC, and proofs that TLAPS checks.

## The system and its parts

- **Connections** (`server.rs`, `server_monoio.rs`). A reader per connection
  takes frames in order. Control-plane requests and `USE` run on the reader;
  every other `QUERY` or `EXECUTE` gets a permit and a task. Responses go
  through a bounded channel to a writer that coalesces them.
- **Statements** (`query.rs`). Each is a sequence of accesses to the storage,
  with no lock held from one to the next. Those that write return tickets,
  which the connection awaits before it responds. Column names, literals and
  bind values are resolved against the table as it is when the statement runs;
  a prepared statement keeps its text and what was announced for it.
- **Storage** (`storage.rs`). N RocksDB engines; a row is on the engine its
  partition hashes to, metadata on engine 0. Row writes go through a pipeline
  per engine (channel, collector thread, channel, committer thread); metadata
  is written synchronously. There are caches of rows, keyspaces, tables and
  parsed statements.
- **Opening and closing**. The number of engines is kept in a marker file, the
  system keyspaces are seeded, and `Drop` drains the pipelines.

How they interact: a connection's task (`Connection`) executes a statement,
seen as accesses to shared state in `RowStore` and `SchemaStore`, as a search
in `SelectScan`, and as names, values and bytes in `Statement`. It sends
operations to the pipelines (`WritePipeline`) and reads engines whose keys are laid out by
`KeyCodec`; the tickets come back to the connection. `Recovery` is about what
one incarnation of the storage leaves to the next.

## Modules

| Module | Models | State | Actions |
|---|---|---|---|
| `WritePipeline` | `spawn_writer`, `write_data_op`, `settle`, `Drop for Storage` | the two channels, the open batch, senders still to drop, the memtable, completed tickets, running threads | `Send*` (callers), `Collect`, `HandOver`, `CollectorExit` (collector), `Commit`, `CommitFail`, `Complete`, `CommitterExit` (committer), `DropSenders`, `Join` (`Drop`) |
| `OpLog` | what a pipeline promises | a log per engine, how much of it is applied, which operations were lost, completed tickets | `Accept`, `Apply`, `Lose`, `Complete` |
| `RowStore` | row statements over the row cache and the engines | row cache, engines (as `OpLog`), one program counter per request | one per access: `GetHit`, `ReadEngine`, `FillCache`, `ChangeCache`, `SendRow`, `SendRange`, `ClearCache`, `Settle`, ... |
| `SchemaStore` | DDL | definitions on engine 0, their caches, the `system_schema` mirrors, rows, pipeline queues | one per access, by statement |
| `Connection` | `handle_connection`, `handle_request`; extends `ResponseWriter` and runs its writer | frames, reader, session keyspace, prepared statements, tasks | reader, task and writer steps; a task may panic; the client sends and goes away |
| `ResponseWriter` | the response channel and the writer of both servers, byte by byte | runtime, channel, batch, bytes on the wire | `Respond`, `Collect`, `Flush`, `WriteVectored` (tokio), `WriteAll` (monoio), `WriteToNobody`, `WriterEnds` |
| `Recovery` | `Storage::open`, `seed_system`, CREATE, INSERT, DELETE, TRUNCATE and DROP as writes to engines, crashes | marker file, per engine what reads find and what a crash leaves, the rest of the statement in progress, a removal that no statement awaits | opening, seeding, a statement's beginning and each of its writes, `CommitRemoval`, flushes, `Close`, `Crash` |
| `SelectScan` | `exec_select`, `for_each_in_partition`, `for_each_in_table` | the partitions or engines still to be scanned, the rows ahead of the open iterator, rows found, paging state | `Lookup`; `StartScan`, `NextPartition` and `NextEngine` (the loops), `Skip`, `Full` and `HandleEntry` (the callback), `EndOfIterator`, `EndOfScan`; `Reply` |
| `KeyOrder` | the order of the keys `encode_key` makes; `SelectScan` and `KeyCodec` extend it | none: operators on key parts | |
| `RowCodec` | `cql_value.rs`, `encode_row_columns`, `decode_row_columns`, `project_fast_point` | none: operators on byte sequences | |
| `Statement` | names, operands and bind values of `exec_insert`, `exec_update`, `exec_delete` and the point SELECT; `prepared_info`; extends `RowCodec` | the table's definition, the stored bytes, the prepared statement, and what clients mean the table to hold | `Query`, `Prepare`, `Execute`, `Redefine` (DROP and CREATE) |
| `KeyCodec` | `encode_key`, `decode_key_data`, `data_prefix`, `prefix_upper_bound` | the key parts of two rows, of one table or of two, and the bytes they have become | `AddA`, `AddB`: a turn of the loop of `encode_key` |

`MC*` modules give constants their values. Proofs about a module are in the
`*Proofs` module of its name, those about `SchemaStore` in `SchemaStoreProofs`
(types and steps) and `SchemaPromises` (the rest). Definitions whose comment
begins with *Variant* are wrong versions of the definition after them; no
specification uses them. They show that a property would notice the mistake.

Abstractions. A row is, per column, the request that assigned it, so that a
merge can be told from an overwrite. A `TableDef` is its columns and the
statement that made it. A write operation is the set of keys it overwrites and
what it leaves there, so that `Put`, `Delete` and `DeleteRange` have one
semantics. `RowStore` runs over `OpLog` and not over the pipelines themselves:
`WritePipeline` is shown to implement `OpLog`.

`Recovery` takes an engine to persist each write at once in durable mode, and
all it has at a flush otherwise, which may come at any time. A process crash
keeps the page cache, a power failure loses the part of it not written back.
An item's value is the number of the `CREATE TABLE` it belongs to, so that a row
can be told from one of an earlier table of the same name. The mirror of a table
is its row of `system_schema.tables` and its rows of `columns`, which one item
stands for: CREATE writes them after the definition, in this order; DROP removes
the rows of `columns` itself, and queues the removal of the other behind the
tombstones and drops its ticket.

`SelectScan` takes key parts as bytes (`raw_bytes`): a number is one digit in
two's complement, a text its bytes. Keys are in the order of `KeyOrder`, which
`KeyCodec` shows to be that of the encoded bytes: shorter parts first.

`RowCodec` has one type for each way of coding: an integer of fixed width, a
tinyint (whose first byte is taken), text, and a list of scalars, which stands
for sets and maps. `parse_literal` is a constant table. `Statement` states what
a statement means without indexes and bytes (`Meaning`): column names, values,
INSERT replaces, UPDATE merges; `StoredAsMeant` compares this with the decoded
bytes.

## What is checked

Runs that pass:

| Run | Shows |
|---|---|
| `WritePipeline` | `PipelineOrder`, `EngineReflectsLog`, `NeverBackwards`, `ImplementsOpLog`: nothing is reordered, repeated or lost between caller and memtable. `CompletedIsVisible`: tickets complete after the write. `ClosedIsDrained`, `DropReturns`: `Drop` drains and ends. `TicketsComplete`: no caller waits for ever |
| `RowStore` | `ReadYourWrites` with two requests that may overlap if there is no row cache, and one after another if there is; `UpdateMerges` and `CacheCoherent` for requests that do not overlap |
| `SchemaStore` | `ColumnsMirrored` with DDL, `USE` and `INSERT` next to DDL, as long as no two statements change the schema at once; `SchemaCacheCoherent` and `RowsHaveTheirTable` for statements that do not overlap |
| `Connection` | `OneResponseEach`, `UseBeforeLater`, `ExecutesPrepared`; `WholeFrames`: responses reach the client byte by byte in whole frames, over a socket that takes any number of bytes; `EveryRequestAnswered`, to the last byte, and `ConnectionEnds`, with panicking tasks and a client that may go away |
| `Recovery` | `NeverMisrouted`, `AckedSurvives` (a DROP, DELETE or TRUNCATE included: it is not undone), `RowsOfThisTable`, `MirrorMatches` (the row of `tables` and those of `columns`), `SystemSeeded` over starts with and without `RHYDADB_SYNC`, clean closes and crashes between any two writes |
| `SelectScan` | `AnswersQuery`, also with several restrictions of a column; `ClusteringOrder`, for keys of numbers and texts |
| `Statement` | `StoredAsMeant`: rows hold what the statements said by name, direct or prepared, also after the table was created anew with its columns in another order. `AnswersAsMeant`: so does a point SELECT on either of its two decoding paths. `FastIsDecoded`: these agree on every stored row |
| `KeyCodec` | `RoundTrip`; `PrefixIsPartition`, `RangeIsTable`: scans and tombstones meet the rows they are for; `KeysSort`: RocksDB's order of the bytes is the order of the parts |

Runs that show the code doing other than its documents or comments say
(`PROJECT.json`, `findings`, has the lines):

| Run | Property | What happens |
|---|---|---|
| `WritePipeline_commit_fail` | `CompletedIsCommitted` | a batch that fails to be written completes its tickets |
| `RowStore_cache_race` | `StrictReadYourWrites` | two overlapping INSERTs of a row change the row cache in one order and are queued in the other; from then on reads return the row that the engine has overwritten |
| `SchemaStore_mirror_lost` | `TablesMirrored` | DROP's queued removal of a mirror row removes the row of a later CREATE |
| `SelectScan_page_size` | `FullResult` | a page size cuts the result and no paging state is returned; without one, the hard cap does the same |

### Conditions of the properties

Several properties hold only under a condition, which they state. Without it
TLC finds a behaviour of the model that breaks them; the condition marks where
the code departs from what one would expect of it.

| Property | Condition | Without it |
|---|---|---|
| `UpdateMerges` | no overlapping requests | of two UPDATEs of different columns of a row one is undone |
| `SchemaCacheCoherent` | no overlapping statements | a lookup puts a dropped definition back into the cache |
| `ReadYourWrites` | no row cache, or no overlapping requests | see `RowStore_cache_race`; a read that overlaps a DELETE or a TRUNCATE also puts a removed row back into the cache |
| `ColumnsMirrored` | no two statements were changing the schema at once (`clash`) | of two CREATEs of a table that both find it absent the second replaces the definition, the columns of the first stay mirrored |
| `RowsHaveTheirTable` | no overlapping statements | an INSERT queued after a DROP leaves its row to the next table of that name |
| `UseBeforeLater` | no `USE` that `is_session_use` fails to recognise | a `USE` with leading white space is not applied in order |
| `AckedSurvives` | durable mode or a clean close, and the marker not lost | in default mode a crash loses an acknowledged `CREATE TABLE` |
| `RowsOfThisTable`, `MirrorMatches` | no crash interrupted a statement, or destroyed a memtable or the marker | rows of a half-made DROP show in the next table of that name; a half-made CREATE is not mirrored |
| `MirrorMatches` (row of `tables`) | the removal queued by DROP is committed, and was neither lost by a crash nor overtaken by a CREATE | a dropped table stays listed; an existing one is not, see `SchemaStore_mirror_lost` |
| `OneResponseEach`, `WholeFrames`, `EveryRequestAnswered` | no vectored write of the tokio server was short | the rest of the batch is never written, later responses follow in the middle of a frame |
| `OneResponseEach`, `EveryRequestAnswered` | not a frame whose task panics or whose body does not decompress | such a frame gets no response |
| `StoredAsMeant` | names that `norm_id` and `ident_eq` resolve alike | an unquoted name reaches a quoted upper-case column in INSERT and WHERE, not in UPDATE's assignments |
| `StoredAsMeant` | UPDATE assigns no key column, UPDATE and DELETE restrict key columns only | the assignment or restriction is ignored, or the task panics |
| `StoredAsMeant` | a prepared INSERT or UPDATE has a marker for every column | a variable is announced for each literal too, and values land in other columns |
| `StoredAsMeant` | announced types are still the columns' | bytes are read as another type, or refused |
| `AnswersAsMeant` | no alias in the SELECT | the alias is looked up as a column; without one of that name `unwrap` panics |
| `SystemSeeded` | no crash at all that interrupted seeding or destroyed something | a keyspace seeded by half is never completed |
| `NeverMisrouted` | the marker not lost | after a power failure another number of engines is opened |
| `AnswersQuery` (all rows) | no page size, and a result that the hard cap did not cut | see `SelectScan_page_size` |
| `ClusteringOrder` (order of values) | numbers of one sign, texts of one length; others come in the order of their bytes | a negative number comes after the positive ones, a shorter text before a longer one |
| `AnswersQuery` (each row once), `ClusteringOrder` | the clause names no partition twice | its rows are returned once per mention |

Overlap and damage are history variables (`overlap` of `RowStore` and
`SchemaStore`, `clash` of the latter; `hurt` and `allowed` of `Recovery`; `short` of
`ResponseWriter`; `doubt` and `meant` of `Statement`) that no action's guard
reads. What varies between deployments (row cache, runtime,
`RHYDADB_SYNC`) is a variable too, chosen from a constant set.

### Bounds

- `WritePipeline`: four operations on one engine, batches of two: a batch in
  each of the channel, the collector and the committer, and one operation
  queued behind. Engines share no state but `Drop`.
- `RowStore`: two requests in flight, three writing requests in all, two keys
  on two engines, two columns. A race needs two requests and a reader after
  them; `TRUNCATE` needs both engines. Requests, and columns, are alike, hence
  the symmetry. The constraint `Telling` cuts states with a row cache after an
  overlap, of which the checked properties say nothing.
- `SchemaStore`: two tables of two columns, each there or not at first, one
  `CREATE TABLE`, which may follow a `DROP` of the same name; two tasks that run
  DDL, one of them also `USE` and `INSERT`. Tables, and columns, are alike, hence
  the symmetry. The constraint `NoClash` ends a behaviour once two statements
  have changed the schema at once, after which only the types are promised.
  `SchemaStore_mirror_lost` needs one DDL task.
- `Connection`: three frames of nine kinds, two permits, a channel of one: both
  limits are reached. Responses of two bytes and a threshold of three, so that a
  batch has one response or two and each may be cut in the middle.
- `Recovery`: three starts, so that what the second does after a crash of the
  first meets a third; two `CREATE TABLE`s of the same name; two engines, the
  definitions and a row on one, a row, the mirror and `system.local` on the other. The
  constraint `MCDamage` does not continue a run that has met two independent
  kinds of damage, after which the properties say nothing new.
- `Statement`: four tables, one with the columns of another in another order,
  one with another key and a changed type, one whose names differ in case only;
  twenty statements, of which seven have bind markers; two to three bind values
  of a type, the empty list and Null among them. Every definition replaces every
  other between PREPARE and EXECUTE, and the run is finite without a bound.
- `SelectScan`: all tables of up to seven rows over a key `((a, b), c, d)`, of
  which `b` and `d` are texts of one or two bytes and `c` may be negative; each
  column free, bound by `=` or by `IN`, column `a` also by two restrictions or a
  list that repeats a value; the hard cap of 5000 is 5, and numbers are kept
  modulo 8 (`Radix`) instead of 2^32.
- `KeyCodec`: up to two parts of up to two bytes out of four that include 0,
  the separator and the greatest. Lengths are one digit instead of two bytes,
  with parts always shorter than the length space.

Deadlock is not checked where the bounded supply of requests, frames or starts
ends and the system rightly comes to rest.

### Fairness

- Collector, committer and `Join`: weak fairness. They are operating system
  threads that block only on their channels.
- Reader, each task and the writer of a connection: weak fairness. The runtime
  polls what is ready; tickets complete by `TicketsComplete`; the client reads
  its socket as long as it is there. The client itself is under no fairness.

## What is proved

Each theorem holds for every value of the constants that satisfies the named
assumption of its module: any number of engines, keys, permits, frames, starts
and crashes. The bounds of the runs (`MaxOps`, `MaxRequests`, `MaxFrames`,
`MaxStarts`, `MaxTables`, `MaxDefs`, `MaxParts`) are arbitrary numbers there.

### Write pipelines: `WritePipelineProofs`

From `ConstantsAssumption` (rows are routed to engines, ranges are sets of keys,
a batch holds at least one operation):

- `TypeCorrect`: `Spec => []TypeOK`, batches bounded by `MAX_BATCH_OPS`
  included. `TypeOK` is inductive.
- `PipelineOrdered`: `Spec => []PipelineOrder`.
- `EngineIsItsLog`: `Spec => []EngineReflectsLog`.
- `CompletedAreVisible`: `Spec => []CompletedIsVisible`.
- `DropDrains`: `Spec => []ClosedIsDrained`.
- `NeverGoesBackwards`: `Spec => NeverBackwards`, an action property.
- `PipelineImplementsOpLog`: `Spec => ImplementsOpLog`, the refinement that lets
  `RowStore` run over `OpLog`.

`EngineReflectsLog` is not inductive: that a commit shows the next operations
of the log needs the batch at the head of the channel to be those operations.
`PipelineOrder` says so for everything between callers and tickets. The log is
cut by the places the collector has taken, has handed over, the committer has
written and has completed, and every queue is the block between two of them.
It is inductive with `TypeOK`. One lemma per action shows which of the cuts
moves; for `Commit`, the last operation of a block that touches a key decides,
whether the blocks are applied one by one or the log as a whole.

The promises follow from these two. Tickets complete only up to the place that
is applied, hence visibility. `DropDrains` adds in which order threads end
(`Draining`): a collector returns with nothing in its hands, its committer after
it, `Drop` after both; with empty queues the cuts of `PipelineOrder` coincide.
For the refinement, one lemma per action gives the step of `OpLog` it is
(`Commit` is `Apply` of the block, `CommitFail` is `Lose`), or shows that it
leaves the log alone.

### Connections: `ConnectionProofs`

From `ConnectionConstants` and `WriterConstants` (limits and sizes are positive):

- `TypeCorrect`: `Spec => []TypeOK`; no more tasks run than there are permits,
  and channel and batch keep their limits.
- `UsesComeFirst`: `Spec => []UseBeforeLater`.
- `ExecutesWhatWasPrepared`: `Spec => [](prepares <= IdSpace => ExecutesPrepared)`.
  Prepared ids are 16-bit and wrap; the condition says they have not. The run
  has more ids than frames, so that it always holds there.
- `AnsweredOnce`: `Spec => []OneResponseEach`.
- `FramesAreWhole`: `Spec => []WholeFrames`.

The invariants: `Shape`, what each state of reader, tasks and writer has behind
it (no recognised `USE` ever gets a task, a task is of a frame that was read);
`UsesSeen`, the session keyspace is at least as late as every `USE` read;
`IdsKept`, the id of a PREPARE still names it; `Single`, a response is in one
place only (held by the reader, a task, the channel, the batch, the wire), there
once; `Owed`, a frame that was read has its response somewhere; `Whole` and
`Continues`, every byte on the wire continues the one before it, and what the
writer is about to write continues the last. `AnsweredOnce` counts copies by
cardinality, which `Single` and `Owed` turn into zero or one.

### Recovery: `RecoveryProofs`

From `RecoveryConstants` (engine counts are at least one, the hash is defined on
all rows, no user row is one of the system's):

- `TypeCorrect`: `Spec => []TypeOK`.
- `RestartsNeverMisroute`: `Spec => []NeverMisrouted`.
- `AcknowledgedSurvives`: `Spec => []AckedSurvives`.
- `RowsAreOfThisTable`: `Spec => []RowsOfThisTable`.
- `MirrorIsTheTable`: `Spec => []MirrorMatches`.
- `SystemIsSeeded`: `Spec => []SystemSeeded`.

All rest on `Placed`: types, what each phase of `Storage::open` has behind it
(`Phases`: among others, the number of open engines is the marker's), and
`Routed`: unless the marker was lost, nothing is written before the marker is,
and both what reads find and what a crash leaves is on the engine that the
marker gives. `NeverMisrouted` speaks of open engines and of what reads find
only, so it is not inductive by itself: a crash puts back what is on disk.
`AckedSurvives` needs `Allowed`, which says the same of the writes still to be
made and of what a crash would leave, and `HeadsThere`, that a keyspace
`seed_system` found or wrote is there: otherwise seeding could undo a later
statement. `RowsOfThisTable` and `MirrorMatches` need what the items will have
once the statement in progress has made the rest of its writes (`Will`); the
definition, its mirror and the rows agree about that in every state (`Agree`),
although they disagree in the middle of a statement. For the row of
`system_schema.tables` this counts the removal in the pipeline as made
(`WillList`, `Listed`), which it is before any later tombstone of that engine, and
before a CREATE unless `hurt` says otherwise. `SeedsWhole` follows each
system keyspace from *to be seeded* through *being seeded* to *seeded*.

### DDL: `SchemaStoreProofs`, `SchemaPromises`

From `SchemaConstants` (the engines of mirror and row are among the engines,
there is a column and a task that runs DDL, `None` is no definition):

- `TypeCorrect`: `Spec => []TypeOK`, which includes that no response leaves
  before the operations whose tickets its statement holds are applied.
- `CacheAgreesWithEngine`: `Spec => []SchemaCacheCoherent`.
- `NoRowOutlivesItsTable`: `Spec => []RowsHaveTheirTable`.
- `MirrorsFollowEngine`: `Spec => []ColumnsMirrored`, for any number of tasks that
  run DDL, look up, `USE` and `INSERT`.

The properties speak of states at rest only; the invariants say what is in
disorder at each step of a statement. `Types` gives the fields that a task's
record has at each pc and at which pcs it may have operations in a pipeline.
`Ordered` is for statements that do not overlap: the one task that is not idle
knows which cache entries are stale (`Caches`) and which rows still await a
tombstone, queued or to be sent (`Rows`). A task that is alone and awaits nothing
has nothing queued, so a definition is never removed from under a queued row.
`Mirrors` says, from where a task stands, that a column is mirrored and not about
to be unmirrored exactly when the table has it and it is not still to be mirrored.
`Followed` says this of every task next to which no other is changing the schema,
and `Apart` that at most one task is changing it as long as `~clash`. No absence
of overlap is needed: a task that looks up, or waits, or inserts changes neither
definitions nor mirrors, and for all such tasks `Mirrors` says the same
(`MirrorsAlike`), so that the one that starts to change the schema may be any.
One lemma per action (`PutTableIs`, `DropTableIs`, ...) says what the step does;
the invariants are shown from these.

### Row statements: `RowStoreProofs`

From `RowConstants` (keys are routed to engines, the table is a set of keys,
"no row" is not a row):

- `TypeCorrect`: `Spec => []TypeOK`: logs are sequences of operations of which a
  prefix is applied and only applied ones are complete, each request has the
  fields its next step uses, and awaits tickets of logged operations only.
- `ReadsOwnWrites`: `Spec => []ReadYourWrites`. Without a row cache it holds
  for any number of requests that overlap in any way; with one, for requests
  that do not overlap, which is what `RowStore_cache_race` shows to be needed.
- `UpdatesMerge`: `Spec => []UpdateMerges`.
- `CacheIsCoherent`: `Spec => []CacheCoherent`.

The invariant has two parts. `Steady` holds whatever overlaps. An engine shows a
prefix of its log (`Stored`) and an acknowledged operation is a completed one of
the key (`Acked`), so that what a reader finds is the acknowledged operation or a
later one; a reader that has read carries this with it until it replies
(`Behind`). A task holds the ticket of every operation not yet applied
(`Awaited`): when all tasks are idle, the engine shows its whole log. `Quiet` is
for requests that do not overlap: an entry of the cache is the row that the whole
log leaves, except between the change of the cache and the operation of the one
request in progress (`Serial`), and that request works on the latest row
(`Works`). `Shown`, what operations leave at a key, is a `CHOOSE` of the last of
them; `ShownIs` to `LastingAppend` say what it gives for a log that grows, and
`Lasting` keeps this as part of the invariant instead of an induction.

### SELECT: `SelectScanProofs`

From `SelectConstants` (a table has one row for a key, its key has a partition
key, each `=` has one value, the bytes of each value are hashed to an engine,
numbers fit their width):

- `SelectAnswers`: `Spec => []AnswersQuery`.
- `OrderKept`: `Spec => []ClusteringOrder`.

for any number of key columns, restrictions and rows. The inductive invariant
`Steady`: what was returned passed the check of all restrictions (`Checked`); a
row that matches was returned, is ahead of the open iterator, or is in a partition
or on an engine still to be scanned (`Complete`); what is returned of a
partition sorts before what is still ahead of it, and no later round gives more of
it (`InOrder`). The last two rest on lemmas about the plans: the rounds of a
plan cover every matching row (`RoundsCover`) and, unless the clause names a
partition twice, share no partition (`RoundsApart`). `InOrder` speaks of the bytes
of the keys; `BytesSort` shows for which values these sort as the values do.
`Pages` shows what the finding of `SelectScan_page_size` looks like from inside: a
paging state is recorded only when a page has room for no row at all, so that
every statement that returns rows returns them in one page.

### Keys: `KeyCodecProofs`

From `KeyConstants` (names have no `!`, parts are shorter than 2^16):

- `KeysRoundTrip`: `KeySpec => []RoundTrip`.
- `PrefixesArePartitions`: `KeySpec => []PrefixIsPartition`.
- `KeysAreSorted`: `KeySpec => []KeysSort`.
- `RangesAreTables`: `KeySpec => []RangeIsTable`.

for any names, any number of parts and any bytes in them. Induction over the
parts of a key is replaced by an invariant of the loop that encodes them:
`Coded` says that there are places in the bytes (`Places`), one for each part,
where its length stands, followed by the part and then by the next place. That
the decoder, a recursive function, stops at the same places follows from the least
place at which it would not (`StopsAre`), and likewise that two keys of which one
begins with the other have the same places (`PrefixOfCode`). For the order,
`CodeLess` finds the first byte in which two keys differ: it is the length of the
first parts that differ, or in these parts (`CommonParts`). For ranges,
`RangeIsPrefix` shows that the keys between a table's prefix and its
`prefix_upper_bound` are those that have the prefix, and `NamesApart` that no key
has the prefixes of two tables: the first `!` ends the keyspace's name, the second
the table's.

### Only model-checked

- Liveness (`TicketsComplete`, `DropReturns`, `EveryRequestAnswered`,
  `ConnectionEnds`), which is outside the reach of the prover.
- `Statement` (`TypeOK`, `FastIsDecoded`, `StoredAsMeant`, `AnswersAsMeant`): it
  is built on `RowCodec`, whose encoders and decoders of values, lists and rows are
  recursive operators over byte sequences. The provers have no induction over
  data to unfold them, and no SMT in a module that reaches them.

## What is not modelled

- Frame and result serialisation (`protocol.rs`) and the CQL parser: conversions
  without state, taken as correct. Their hazards are those of byte layouts, which
  unit tests reach. The AST cache is a memo of the parser.
- Literals: `parse_literal` is a table of two. The other scalar types are coded
  like one of those in `RowCodec`.
- Listeners, start-up, the health endpoint, the benchmarks and the deployment
  files: they share no state with requests but the `Storage` itself.
- The virtual schema tables of SELECT, rows that cannot be decoded, errors of
  single RocksDB calls outside the pipelines, and memory use.
- A panic under monoio, which ends the thread of all of its connections.
- The WAL flush thread of `RHYDADB_MANUAL_WAL`: it flushes a WAL that every write
  outside durable mode disables.
- Concurrency and crashes together: `Recovery` runs one statement at a time,
  `SchemaStore` and `RowStore` do not crash.

`PROJECT.json` gives the reason for each part, and lists the hazards of the code
with the properties that cover them.
