--------------------------- MODULE RecoveryProofs ---------------------------
(***************************************************************************)
(* Proofs about Recovery, for any rows, hash, number of engines, settings  *)
(* of the environment and number of crashes and starts: types and routing; *)
(* then what restarts keep.  Acknowledged rows survive, the mirror in      *)
(* system_schema agrees with the table, a row is never of another table,   *)
(* and the system tables are there.                                        *)
(***************************************************************************)
EXTENDS Recovery, TLAPS

-----------------------------------------------------------------------------
\* The system keyspaces, written out
LEMMA SeedFacts ==
  /\ Len(Seeds) = 3 /\ DOMAIN Seeds = 1 .. 3
  /\ Seeds[1] = SeedOfSystem /\ Seeds[2] = SeedOfSchema /\ Seeds[3] = SeedOfVirtual
  /\ Range(SeedOfSystem) = {Keyspace("system"), Table("local"), Row("local")}
  /\ Range(SeedOfSchema) = {Keyspace("schema"), Table("tables")}
  /\ Range(SeedOfVirtual) = {Keyspace("virtual"), Table("vkeyspaces")}
<1>1. Len(Seeds) = 3 /\ DOMAIN Seeds = 1 .. 3
  BY DEF Seeds
<1>2. Seeds[1] = SeedOfSystem /\ Seeds[2] = SeedOfSchema /\ Seeds[3] = SeedOfVirtual
  BY DEF Seeds
<1>3. ASSUME NEW x, NEW y PROVE Range(<<x, y>>) = {x, y}
  BY DEF Range
<1>4. ASSUME NEW x, NEW y, NEW z PROVE Range(<<x, y, z>>) = {x, y, z}
  BY DEF Range
<1>. QED  BY Zenon, <1>1, <1>2, <1>3, <1>4 DEF SeedOfSystem, SeedOfSchema, SeedOfVirtual

\* What Storage::open seeds is what the three keyspaces need
LEMMA SeedItemsAre ==
  SeedItems = Range(SeedOfSystem) \cup Range(SeedOfSchema) \cup Range(SeedOfVirtual)
<1>1. SeedItems = UNION {Range(Seeds[i]) : i \in 1 .. 3}
  BY SeedFacts DEF SeedItems
<1>2. 1 .. 3 = {1, 2, 3}
  OBVIOUS
<1>. QED  BY <1>1, <1>2, SeedFacts

\* engine_of finds a directory of an open engine
LEMMA EngineOfIsOpen ==
  ASSUME NEW i \in Items, NEW n \in Int, n <= MaxShards
  PROVE  /\ EngineOf(i, n) \in Dirs
         /\ n >= 1 => EngineOf(i, n) \in 0 .. n - 1
<1>1. CASE i[1] # "row" \/ n <= 1
  BY <1>1, RecoveryConstants DEF EngineOf, Dirs
<1>2. CASE i[1] = "row" /\ n > 1
  <2>1. i[2] \in UserRows \cup {"local", "tables", "columns"}
    <3>1. i \in SeedItems \cup {UserTable, TablesRow, Mirror} \/ \E r \in UserRows : i = Row(r)
      BY DEF Items, DataRows
    <3>2. \/ i = Row("local") \/ i = Row("tables") \/ i = Row("columns")
          \/ \E r \in UserRows : i = Row(r)
      BY <1>2, <3>1, SeedItemsAre, SeedFacts DEF UserTable, TablesRow, Mirror, Keyspace, Table, Row
    <3>3. PICK r \in UserRows \cup {"local", "tables", "columns"} : i = Row(r)
      BY Zenon, <3>2
    <3>4. i[2] = r
      BY <3>3 DEF Row
    <3>. QED  BY Zenon, <3>4
  <2>2. Hash[i[2]] \in Nat
    BY <2>1, RecoveryConstants
  <2>3. Hash[i[2]] % n \in 0 .. n - 1
    BY <1>2, <2>2
  <2>4. EngineOf(i, n) = Hash[i[2]] % n
    BY <1>2 DEF EngineOf
  <2>. QED  BY <2>3, <2>4, RecoveryConstants DEF Dirs
<1>. QED  BY <1>1, <1>2

\* What a sequence holds
LEMMA RangeCons ==
  ASSUME NEW S, NEW s \in Seq(S), NEW g \in S
  PROVE  Range(<<g>> \o s) = {g} \cup Range(s) /\ <<g>> \o s \in Seq(S)
<1>. DEFINE t == <<g>> \o s
<1>1. DOMAIN s = 1 .. Len(s) /\ DOMAIN t = 1 .. Len(s) + 1 /\ t \in Seq(S) /\ Len(s) \in Nat
  OBVIOUS
<1>2. t[1] = g /\ \A i \in 1 .. Len(s) : t[i + 1] = s[i]
  OBVIOUS
<1>. HIDE DEF t
<1>3. \A i \in 1 .. Len(s) + 1 : t[i] = g \/ \E j \in 1 .. Len(s) : t[i] = s[j]
  <2>1. ASSUME NEW i \in 1 .. Len(s) + 1, i # 1 PROVE \E j \in 1 .. Len(s) : t[i] = s[j]
    <3>1. i - 1 \in 1 .. Len(s) /\ t[(i - 1) + 1] = s[i - 1] /\ (i - 1) + 1 = i
      BY <1>1, <1>2, <2>1
    <3>. QED  BY <3>1
  <2>. QED  BY <1>2, <2>1
<1>4. 1 \in 1 .. Len(s) + 1 /\ \A i \in 1 .. Len(s) : i + 1 \in 1 .. Len(s) + 1
  BY <1>1
<1>5. ASSUME NEW x PROVE x \in Range(t) <=> x = g \/ x \in Range(s)
  <2>1. x \in Range(t) <=> \E i \in 1 .. Len(s) + 1 : x = t[i]
    BY <1>1 DEF Range
  <2>2. x \in Range(s) <=> \E i \in 1 .. Len(s) : x = s[i]
    BY <1>1 DEF Range
  <2>. QED  BY Zenon, <1>2, <1>3, <1>4, <2>1, <2>2
<1>. QED  BY <1>1, <1>5 DEF t

\* The items still to be seeded are the next one and the rest
LEMMA HeadTail ==
  ASSUME NEW S, NEW s \in Seq(S), s # <<>>
  PROVE  /\ Head(s) \in S /\ Tail(s) \in Seq(S)
         /\ Range(s) = {Head(s)} \cup Range(Tail(s))
<1>. DEFINE t == Tail(s)
<1>1. /\ Head(s) \in S /\ t \in Seq(S) /\ Len(s) \in Nat \ {0} /\ Head(s) = s[1]
      /\ DOMAIN s = 1 .. Len(s) /\ DOMAIN t = 1 .. Len(s) - 1
  OBVIOUS
<1>2. \A i \in 1 .. Len(s) - 1 : t[i] = s[i + 1]
  OBVIOUS
<1>. HIDE DEF t
<1>3. \A i \in 1 .. Len(s) : s[i] = Head(s) \/ \E j \in 1 .. Len(s) - 1 : s[i] = t[j]
  <2>1. ASSUME NEW i \in 1 .. Len(s), i # 1 PROVE \E j \in 1 .. Len(s) - 1 : s[i] = t[j]
    <3>1. i - 1 \in 1 .. Len(s) - 1 /\ t[i - 1] = s[(i - 1) + 1] /\ (i - 1) + 1 = i
      BY <1>1, <1>2, <2>1
    <3>. QED  BY <3>1
  <2>. QED  BY <1>1, <2>1
<1>4. 1 \in 1 .. Len(s) /\ \A i \in 1 .. Len(s) - 1 : i + 1 \in 1 .. Len(s)
  BY <1>1
<1>5. ASSUME NEW x PROVE x \in Range(s) <=> x = Head(s) \/ x \in Range(t)
  <2>1. x \in Range(s) <=> \E i \in 1 .. Len(s) : x = s[i]
    BY <1>1 DEF Range
  <2>2. x \in Range(t) <=> \E i \in 1 .. Len(s) - 1 : x = t[i]
    BY <1>1 DEF Range
  <2>. QED  BY Zenon, <1>1, <1>2, <1>3, <1>4, <2>1, <2>2
<1>. QED  BY <1>1, <1>5 DEF t

-----------------------------------------------------------------------------
\* TypeOK with the types it leaves open
Types ==
  /\ TypeOK
  /\ durable \in BOOLEAN /\ markerSafe \in BOOLEAN
  /\ live \in [Dirs -> [Items -> Vals]] /\ disk \in [Dirs -> [Items -> Vals]]
  /\ seeding \in Seq(SeedItems)
  /\ todo \in Seq(SUBSET Writes)
  /\ DOMAIN allowed = Items

\* The writes the statement in progress has still to make
Pending(stages) == UNION Range(stages)

\* A row put to the engine that engine_of names is a write
LEMMA PutIsWrite ==
  ASSUME Types, NEW i \in Items, NEW v \in Vals
  PROVE  Put(i, v) \in Writes
<1>1. EngineOf(i, shards) \in Dirs
  BY RecoveryConstants, EngineOfIsOpen DEF Types, TypeOK
<1>. QED  BY <1>1 DEF Put, Writes

\* put_opt or write_opt changes the items of the write on its engine only
LEMMA ApplyIs ==
  ASSUME Types, NEW w \in Writes, Apply(w)
  PROVE  /\ live' \in [Dirs -> [Items -> Vals]] /\ disk' \in [Dirs -> [Items -> Vals]]
         /\ \A e \in Dirs, i \in Items :
              live'[e][i] = IF e = w.engine /\ i \in w.items THEN w.val ELSE live[e][i]
         /\ disk' = live' \/ (~durable /\ disk' = disk)
<1>1. w.engine \in Dirs /\ w.items \in SUBSET Items /\ w.val \in Vals
  BY DEF Writes
<1>. DEFINE new == [i \in Items |-> IF i \in w.items THEN w.val ELSE live[w.engine][i]]
<1>2. live' = [live EXCEPT ![w.engine] = new]
  BY DEF Apply
<1>3. live \in [Dirs -> [Items -> Vals]] /\ disk \in [Dirs -> [Items -> Vals]]
  BY DEF Types
<1>4. new \in [Items -> Vals]
  BY <1>1, <1>3
<1>5. \A i \in Items : new[i] = IF i \in w.items THEN w.val ELSE live[w.engine][i]
  OBVIOUS
<1>. HIDE DEF new
<1>6. live' \in [Dirs -> [Items -> Vals]]
  BY <1>1, <1>2, <1>3, <1>4
<1>7. \A e \in Dirs : live'[e] = IF e = w.engine THEN new ELSE live[e]
  BY <1>2, <1>3
<1>8. disk' = live' \/ (~durable /\ disk' = disk)
  BY DEF Apply
<1>. QED  BY Zenon, <1>3, <1>5, <1>6, <1>7, <1>8

\* What is pending of a statement of one or two stages ...
LEMMA PendingOfStages ==
  ASSUME NEW U, NEW S \in U, NEW T \in U
  PROVE  /\ <<S>> \in Seq(U) /\ Pending(<<S>>) = S
         /\ <<S, T>> \in Seq(U) /\ Pending(<<S, T>>) = S \cup T
<1>1. Range(<<S>>) = {S}
  BY DEF Range
<1>2. Range(<<S, T>>) = {S, T}
  BY DEF Range
<1>3. <<S>> \in Seq(U) /\ <<S, T>> \in Seq(U)
  OBVIOUS
<1>4. UNION {S} = S /\ UNION {S, T} = S \cup T
  OBVIOUS
<1>. QED  BY Zenon, <1>1, <1>2, <1>3, <1>4 DEF Pending

\* ... and of three
LEMMA PendingOfThree ==
  ASSUME NEW S, NEW R, NEW T
  PROVE  Pending(<<S, R, T>>) = S \cup R \cup T
<1>1. Range(<<S, R, T>>) = {S, R, T}
  BY DEF Range
<1>2. UNION {S, R, T} = S \cup R \cup T
  OBVIOUS
<1>. QED  BY Zenon, <1>1, <1>2 DEF Pending

\* A statement's step makes one of its writes and leaves the others, but
\* for a removal that only the pipeline has to make
LEMMA StatementStep ==
  ASSUME Types, StatementWrites
  PROVE  \E w \in Pending(todo) :
           /\ w \in Writes /\ Apply(w)
           /\ Pending(todo') \subseteq Pending(todo)
           /\ \/ queued' = queued /\ Pending(todo) \subseteq Pending(todo') \cup {w}
              \/ /\ queued' = TRUE /\ todo' = <<>> /\ Removal \in Pending(todo)
                 /\ Pending(todo) \subseteq {w, Removal}
           /\ todo' \in Seq(SUBSET Writes)
           /\ hurt' = IF queued /\ TablesRow \in w.items /\ w.val # None
                      THEN hurt \cup {"removal"} ELSE hurt
<1>1. PICK w \in Head(todo) :
        /\ Apply(w)
        /\ \/ todo' = Without(w) /\ queued' = queued
           \/ Without(w) = <<{Removal}>> /\ todo' = <<>> /\ queued' = TRUE
        /\ hurt' = IF queued /\ TablesRow \in w.items /\ w.val # None
                   THEN hurt \cup {"removal"} ELSE hurt
  BY Zenon DEF StatementWrites
<1>2. todo \in Seq(SUBSET Writes) /\ todo # <<>>
  BY DEF Types, StatementWrites
<1>3. PICK h \in SUBSET Writes, r \in Seq(SUBSET Writes) : h = Head(todo) /\ r = Tail(todo)
  BY Zenon, <1>2, HeadTail
<1>4. ASSUME NEW s \in Seq(SUBSET Writes), NEW g \in SUBSET Writes
      PROVE  Pending(<<g>> \o s) = g \cup Pending(s)
  <2>1. Range(<<g>> \o s) = {g} \cup Range(s)
    BY RangeCons
  <2>. QED  BY <2>1 DEF Pending
<1>5. w \in Writes /\ h \ {w} \in SUBSET Writes /\ w \in h
  BY <1>1, <1>3
<1>6. Pending(todo) = h \cup Pending(r)
  <2>1. Range(todo) = {h} \cup Range(r)
    BY <1>2, <1>3, HeadTail
  <2>. QED  BY <2>1 DEF Pending
<1>7. (Without(w) = r /\ h = {w}) \/ Without(w) = <<h \ {w}>> \o r
  BY Zenon, <1>3 DEF Without
<1>8. Without(w) \in Seq(SUBSET Writes) /\ <<>> \in Seq(SUBSET Writes)
  <2>1. <<h \ {w}>> \o r \in Seq(SUBSET Writes)
    BY <1>5, RangeCons
  <2>2. <<>> \in Seq(SUBSET Writes)
    OBVIOUS
  <2>. QED  BY Zenon, <1>7, <2>1, <2>2
<1>9. \/ Pending(Without(w)) = Pending(r) /\ h = {w}
      \/ Pending(Without(w)) = (h \ {w}) \cup Pending(r)
  BY Zenon, <1>4, <1>5, <1>7
<1>10. /\ Pending(Without(w)) \subseteq Pending(todo)
       /\ Pending(todo) \subseteq Pending(Without(w)) \cup {w} /\ w \in Pending(todo)
  BY Zenon, <1>5, <1>6, <1>9
<1>11. CASE todo' = Without(w) /\ queued' = queued
  BY Zenon, <1>1, <1>5, <1>8, <1>10, <1>11
<1>12. CASE Without(w) = <<{Removal}>> /\ todo' = <<>> /\ queued' = TRUE
  <2>1. Pending(<<{Removal}>>) = {Removal} /\ Pending(<<>>) = {}
    <3>1. Range(<<>>) = {}
      BY DEF Range
    <3>2. Pending(<<>>) = {}
      BY <3>1 DEF Pending
    <3>3. {Removal} \in {{Removal}}
      OBVIOUS
    <3>. QED  BY Zenon, <3>2, <3>3, PendingOfStages
  <2>2. Pending(Without(w)) = {Removal} /\ Pending(todo') = {}
    BY Zenon, <1>12, <2>1
  <2>3. Removal \in Pending(todo) /\ Pending(todo) \subseteq {w, Removal}
    BY Zenon, <1>10, <2>2
  <2>. QED  BY Zenon, <1>1, <1>5, <1>8, <1>10, <1>12, <2>2, <2>3
<1>. QED  BY Zenon, <1>1, <1>11, <1>12

-----------------------------------------------------------------------------
\* What statements write is not what seed_system writes, and the definition,
\* its mirror and the rows are not one another
LEMMA ItemsApart ==
  /\ UserTable \in Items \ SeedItems /\ Mirror \in Items \ SeedItems
  /\ TablesRow \in Items \ SeedItems
  /\ DataRows \subseteq Items \ SeedItems /\ SeedItems \subseteq Items
  /\ UserTable # Mirror /\ UserTable # TablesRow /\ Mirror # TablesRow
  /\ UserTable \notin DataRows /\ Mirror \notin DataRows /\ TablesRow \notin DataRows
<1>1. /\ UserTable \notin SeedItems /\ Mirror \notin SeedItems /\ TablesRow \notin SeedItems
      /\ UserTable # Mirror /\ UserTable # TablesRow /\ Mirror # TablesRow
  BY SeedItemsAre, SeedFacts DEF UserTable, TablesRow, Mirror, Keyspace, Table, Row
<1>2. ASSUME NEW r \in UserRows
      PROVE  Row(r) \notin SeedItems /\ Row(r) # UserTable /\ Row(r) # Mirror /\ Row(r) # TablesRow
  <2>1. r # "local" /\ r # "columns" /\ r # "tables"
    BY RecoveryConstants
  <2>2. Row(r) # Row("local") /\ Row(r) # Row("columns") /\ Row(r) # Row("tables")
    BY <2>1 DEF Row
  <2>. QED  BY <2>2, SeedItemsAre, SeedFacts DEF UserTable, TablesRow, Mirror, Keyspace, Table, Row
<1>. QED  BY <1>1, <1>2 DEF Items, DataRows

\* The writes of a statement go to what it is a statement on, a value to the
\* engine where reads look for it; no two of them contradict each other
UserWrites(W) ==
  /\ \A w \in W : /\ w.items \cap SeedItems = {}
                  /\ w.val = None \/ \A i \in w.items : EngineOf(i, shards) = w.engine
  /\ \A v, w \in W : \A i \in Items :
       v.engine = w.engine /\ i \in v.items /\ i \in w.items => v.val = w.val

\* A put goes where engine_of sends its row
LEMMA PutIs ==
  ASSUME NEW i, NEW v
  PROVE  /\ Put(i, v).engine = EngineOf(i, shards) /\ Put(i, v).items = {i}
         /\ Put(i, v).val = v
  BY DEF Put

\* A range tombstone removes the rows of the user table, on one engine
LEMMA TombstoneIs ==
  ASSUME Types, NEW w \in Tombstones
  PROVE  w \in Writes /\ w.items = DataRows /\ w.val = None
<1>1. PICK e \in 0 .. shards - 1 : w = [engine |-> e, items |-> DataRows, val |-> None]
  BY DEF Tombstones
<1>2. e \in Dirs
  BY RecoveryConstants DEF Types, TypeOK, Dirs
<1>. QED  BY <1>1, <1>2, ItemsApart DEF Writes, Vals

\* The removal of the table's row of system_schema.tables
LEMMA RemovalIs ==
  ASSUME Types
  PROVE  /\ Removal \in Writes /\ Removal.engine = EngineOf(TablesRow, shards)
         /\ Removal.items = {TablesRow} /\ Removal.val = None
  BY ItemsApart, PutIsWrite, PutIs DEF Removal, Vals

\* Every statement begins with such writes
LEMMA StatementBegins ==
  ASSUME Types, CreateTable \/ (\E r \in UserRows : WriteRow(r)) \/ TruncateTable \/ DropTable
  PROVE  \E stages \in Seq(SUBSET Writes) :
           Idle /\ Begin(stages) /\ UserWrites(Pending(stages)) /\ tables' \in 0 .. MaxTables
<1>. DEFINE Goal == \E stages \in Seq(SUBSET Writes) :
                      /\ Idle /\ Begin(stages) /\ UserWrites(Pending(stages))
                      /\ tables' \in 0 .. MaxTables
<1>. USE ItemsApart
<1>0. tables \in 0 .. MaxTables /\ None \in Vals /\ MaxTables \in Nat
  BY RecoveryConstants DEF Types, TypeOK, Vals
<1>1. ASSUME CreateTable PROVE Goal
  <2>. DEFINE n == tables + 1
              S == {Put(UserTable, n)}
              R == {Put(TablesRow, n)}
              T == {Put(Mirror, n)}
  <2>1. n \in Vals /\ tables' = n /\ n \in 0 .. MaxTables
    BY <1>0, <1>1 DEF CreateTable, Vals
  <2>2. Idle /\ Begin(<<S, R, T>>)
    BY Zenon, <1>1, <2>1 DEF CreateTable
  <2>3. S \in SUBSET Writes /\ R \in SUBSET Writes /\ T \in SUBSET Writes
    BY <2>1, PutIsWrite
  <2>4. UserWrites(S \cup R \cup T)
    <3>1. \A w \in S \cup R \cup T : /\ w.items \cap SeedItems = {} /\ w.val = n
                                  /\ \A i \in w.items : EngineOf(i, shards) = w.engine
      BY PutIs
    <3>. HIDE DEF S, R, T, n
    <3>. QED  BY Zenon, <3>1 DEF UserWrites
  <2>. HIDE DEF S, R, T
  <2>5. <<S, R, T>> \in Seq(SUBSET Writes) /\ Pending(<<S, R, T>>) = S \cup R \cup T
    <3>1. <<S, R, T>> \in Seq(SUBSET Writes)
      BY <2>3
    <3>2. Pending(<<S, R, T>>) = S \cup R \cup T
      BY PendingOfThree
    <3>. QED  BY <3>1, <3>2
  <2>6. UserWrites(Pending(<<S, R, T>>))
    BY Zenon, <2>4, <2>5
  <2>. QED  BY Zenon, <2>1, <2>2, <2>5, <2>6
<1>2. ASSUME NEW r \in UserRows, WriteRow(r) PROVE Goal
  <2>1. PICK v : /\ v = Value(UserTable) \/ v = None
                 /\ Begin(<<{Put(Row(r), v)}>>)
    BY Zenon, <1>2 DEF WriteRow
  <2>. DEFINE S == {Put(Row(r), v)}
  <2>2. Row(r) \in DataRows /\ EngineOf(UserTable, shards) \in Dirs
    BY EngineOfIsOpen, RecoveryConstants DEF DataRows, Types, TypeOK
  <2>3. v \in Vals
    BY <1>0, <2>1, <2>2 DEF Value, Types
  <2>4. S \in SUBSET Writes
    BY <2>2, <2>3, PutIsWrite
  <2>5. UserWrites(S)
    BY <2>2, PutIs DEF UserWrites
  <2>6. Idle /\ Begin(<<S>>) /\ tables' = tables
    BY <1>2, <2>1 DEF WriteRow
  <2>. HIDE DEF S
  <2>7. <<S>> \in Seq(SUBSET Writes) /\ UserWrites(Pending(<<S>>))
    BY Zenon, <2>4, <2>5, PendingOfStages
  <2>. QED  BY Zenon, <1>0, <2>6, <2>7
<1>3. ASSUME TruncateTable PROVE Goal
  <2>1. Idle /\ Begin(<<Tombstones>>) /\ tables' = tables
    BY <1>3 DEF TruncateTable
  <2>2. Tombstones \in SUBSET Writes
    BY TombstoneIs
  <2>3. UserWrites(Tombstones)
    BY TombstoneIs DEF UserWrites
  <2>4. <<Tombstones>> \in Seq(SUBSET Writes) /\ UserWrites(Pending(<<Tombstones>>))
    BY Zenon, <2>2, <2>3, PendingOfStages
  <2>. QED  BY Zenon, <1>0, <2>1, <2>4
<1>4. ASSUME DropTable PROVE Goal
  <2>. DEFINE S == {Put(UserTable, None)}
              T == Tombstones \cup {Removal, Put(Mirror, None)}
  <2>1. Idle /\ Begin(<<S, T>>) /\ tables' = tables
    BY <1>4 DEF DropTable
  <2>2. S \in SUBSET Writes /\ T \in SUBSET Writes
    BY <1>0, PutIsWrite, TombstoneIs DEF Removal
  <2>3. \A w \in S \cup T : w.val = None /\ w.items \cap SeedItems = {}
    BY PutIs, TombstoneIs DEF Removal
  <2>4. UserWrites(S \cup T)
    BY Zenon, <2>3 DEF UserWrites
  <2>. HIDE DEF S, T
  <2>5. <<S, T>> \in Seq(SUBSET Writes) /\ Pending(<<S, T>>) = S \cup T
    BY ZenonT(30), <2>2, PendingOfStages
  <2>6. UserWrites(Pending(<<S, T>>))
    BY Zenon, <2>4, <2>5
  <2>. QED  BY Zenon, <1>0, <2>1, <2>5, <2>6
<1>. QED  BY Zenon, <1>1, <1>2, <1>3, <1>4

-----------------------------------------------------------------------------
\* RHYDADB_ENGINE_SHARDS is clamped
LEMMA EnvNumIsClamped ==
  ASSUME NEW v \in EnvShards
  PROVE  EnvNum(v, DefaultShards, 1, MaxShards) \in 1 .. MaxShards
<1>. DEFINE x == IF v = Unset THEN DefaultShards ELSE v
<1>1. x \in Nat /\ MaxShards \in Nat \ {0}
  BY RecoveryConstants
<1>. HIDE DEF x
<1>2. EnvNum(v, DefaultShards, 1, MaxShards) = IF x < 1 THEN 1 ELSE IF x > MaxShards THEN MaxShards ELSE x
  BY DEF EnvNum, x
<1>. QED  BY <1>1, <1>2

\* The first start finds an empty data directory
LEMMA TypesInit == Init => Types
<1>. SUFFICES ASSUME Init PROVE Types
  OBVIOUS
<1>1. [e \in Dirs |-> [i \in Items |-> None]] \in [Dirs -> [Items -> Vals]]
  BY DEF Vals
<1>2. live \in [Dirs -> [Items -> Vals]] /\ disk \in [Dirs -> [Items -> Vals]]
  BY Zenon, <1>1 DEF Init
<1>3. /\ pc = "down" /\ durable \in BOOLEAN /\ shards \in 1 .. MaxShards /\ marker = Absent
      /\ markerSafe = TRUE /\ seed \in 1 .. Len(Seeds) + 1 /\ tables \in 0 .. MaxTables
  BY RecoveryConstants, SeedFacts DEF Init
<1>4. seeding \in Seq(SeedItems) /\ todo \in Seq(SUBSET Writes) /\ todo = <<>>
  BY DEF Init
<1>5. DOMAIN allowed = Items
  BY DEF Init
<1>6. queued \in BOOLEAN
  BY Zenon DEF Init
<1>7. TypeOK
  BY <1>2, <1>3, <1>4, <1>6 DEF TypeOK
<1>. QED  BY <1>2, <1>3, <1>4, <1>5, <1>7 DEF Types

\* What a stage holds is a set of writes
LEMMA StagesOfWrites ==
  ASSUME NEW s \in Seq(SUBSET Writes)
  PROVE  (\A i \in DOMAIN s : s[i] \subseteq Writes) /\ Pending(s) \subseteq Writes
<1>1. \A i \in DOMAIN s : s[i] \in SUBSET Writes
  OBVIOUS
<1>. QED  BY <1>1 DEF Pending, Range

\* The items of a seed are items of the system, and a seed is not empty
LEMMA SeedOfKeyspace ==
  ASSUME NEW s \in 1 .. Len(Seeds)
  PROVE  /\ Seeds[s] \in Seq(SeedItems) /\ Seeds[s] # <<>>
         /\ Head(Seeds[s]) \in Range(Seeds[s]) /\ Range(Seeds[s]) \subseteq SeedItems
<1>1. s \in {1, 2, 3}
  BY SeedFacts
<1>2. /\ SeedOfSystem \in Seq(SeedItems) /\ SeedOfSchema \in Seq(SeedItems)
      /\ SeedOfVirtual \in Seq(SeedItems)
  BY SeedItemsAre, SeedFacts DEF SeedOfSystem, SeedOfSchema, SeedOfVirtual
<1>3. SeedOfSystem # <<>> /\ SeedOfSchema # <<>> /\ SeedOfVirtual # <<>>
  BY DEF SeedOfSystem, SeedOfSchema, SeedOfVirtual
<1>4. Seeds[s] \in Seq(SeedItems) /\ Seeds[s] # <<>>
  BY <1>1, <1>2, <1>3, SeedFacts
<1>5. Range(Seeds[s]) \subseteq SeedItems
  BY <1>4 DEF Range
<1>. QED  BY <1>4, <1>5, HeadTail

\* seed_system passes over a keyspace that is there, and serving starts after
\* the last one
LEMMA SeedKeyspaceIs ==
  ASSUME Types, SeedKeyspace
  PROVE  /\ pc = "seed" /\ seeding = <<>>
         /\ \/ seed = 4 /\ pc' = "serving" /\ seed' = 4 /\ seeding' = <<>>
            \/ /\ seed \in 1 .. 3 /\ pc' = "seed" /\ seed' = seed + 1
               /\ \/ Found(Head(Seeds[seed])) /\ seeding' = <<>>
                  \/ ~Found(Head(Seeds[seed])) /\ seeding' = Seeds[seed]
         /\ UNCHANGED <<durable, shards, marker, markerSafe, live, disk, todo, queued, tables,
                        allowed, hurt>>
<1>1. seed \in 1 .. 4
  BY SeedFacts DEF Types, TypeOK
<1>2. UNCHANGED <<durable, shards, marker, markerSafe, live, disk, todo, queued, tables, allowed, hurt>>
  BY DEF SeedKeyspace, files, engines, statement, history
<1>3. Len(Seeds) = 3
  BY SeedFacts
<1>4. \/ seed = 4 /\ ~(seed <= Len(Seeds))
      \/ seed \in 1 .. 3 /\ ~(seed > Len(Seeds))
  BY <1>1, <1>3
<1>. QED  BY Zenon, <1>2, <1>4 DEF SeedKeyspace

-----------------------------------------------------------------------------
\* The types a step of Storage::open, of a statement or of a crash leaves
LEMMA TypesStep == Types /\ [Next]_vars => Types'
<1>. SUFFICES ASSUME Types, [Next]_vars PROVE Types'
  OBVIOUS
<1>. DEFINE Files == /\ live' \in [Dirs -> [Items -> Vals]]
                     /\ disk' \in [Dirs -> [Items -> Vals]]
<1>0. ASSUME Files,
             pc' \in {"down", "create", "fill", "seed", "serving"},
             shards' \in 1 .. MaxShards, marker' \in {Absent, Unreadable} \cup 1 .. MaxShards,
             seed' \in 1 .. Len(Seeds) + 1, tables' \in 0 .. MaxTables,
             durable' \in BOOLEAN, markerSafe' \in BOOLEAN,
             seeding' \in Seq(SeedItems), todo' \in Seq(SUBSET Writes), queued' \in BOOLEAN,
             DOMAIN allowed' = Items
      PROVE  Types'
  BY Zenon, <1>0, StagesOfWrites DEF Types, TypeOK
<1>1. ASSUME NEW v \in EnvShards, Open(v) PROVE Types'
  <2>1. shards' \in 1 .. MaxShards
    <3>1. marker = Absent => shards' \in 1 .. MaxShards
      BY <1>1, EnvNumIsClamped DEF Open
    <3>2. marker # Absent => shards' \in 1 .. MaxShards
      BY <1>1, RecoveryConstants DEF Open, Types, TypeOK, Absent, Unreadable
    <3>. QED  BY <3>1, <3>2
  <2>2. seed' \in 1 .. Len(Seeds) + 1 /\ durable' \in BOOLEAN
    BY <1>1, SeedFacts, RecoveryConstants DEF Open
  <2>3. /\ pc' \in {"create", "seed"}
        /\ UNCHANGED <<marker, markerSafe, seeding, live, disk, todo, queued, tables, allowed>>
    BY <1>1 DEF Open, files, engines, statement, history
  <2>. QED  BY <1>0, <2>1, <2>2, <2>3 DEF Types, TypeOK
<1>2. CASE CreateMarker \/ FillMarker
  <2>1. /\ pc' \in {"fill", "seed"} /\ markerSafe' \in BOOLEAN
        /\ marker' \in {Unreadable, shards}
        /\ UNCHANGED <<shards, durable, seeding, seed, live, disk, todo, queued, tables, allowed>>
    BY Zenon, <1>2 DEF CreateMarker, FillMarker, engines, statement, history, Types
  <2>. QED  BY <1>0, <2>1 DEF Types, TypeOK
<1>3. CASE SeedKeyspace
  <2>1. UNCHANGED <<durable, shards, marker, markerSafe, live, disk, todo, queued, tables, allowed>>
    BY <1>3, SeedKeyspaceIs
  <2>2. pc' \in {"seed", "serving"} /\ seed' \in 1 .. Len(Seeds) + 1
    BY <1>3, SeedKeyspaceIs, SeedFacts
  <2>3. seeding' \in Seq(SeedItems)
    <3>1. <<>> \in Seq(SeedItems)
      OBVIOUS
    <3>2. seeding' = <<>> \/ (seed \in 1 .. Len(Seeds) /\ seeding' = Seeds[seed])
      BY Zenon, <1>3, SeedKeyspaceIs, SeedFacts
    <3>. QED  BY Zenon, <3>1, <3>2, SeedOfKeyspace
  <2>. QED  BY <1>0, <2>1, <2>2, <2>3 DEF Types, TypeOK
<1>4. CASE SeedNext
  <2>1. /\ UNCHANGED <<pc, durable, shards, marker, markerSafe, seed, todo, queued, tables, allowed>>
        /\ seeding # <<>> /\ seeding' = Tail(seeding)
    BY <1>4 DEF SeedNext, files, statement, history
  <2>2. Head(seeding) \in SeedItems /\ seeding' \in Seq(SeedItems)
    BY <2>1, HeadTail DEF Types
  <2>3. Put(Head(seeding), 0) \in Writes
    <3>1. 0 \in Vals
      BY RecoveryConstants DEF Vals
    <3>. QED  BY <2>2, <3>1, ItemsApart, PutIsWrite
  <2>4. Files
    BY <1>4, <2>3, ApplyIs DEF SeedNext
  <2>. QED  BY <1>0, <2>1, <2>2, <2>4 DEF Types, TypeOK
<1>5. CASE CreateTable \/ (\E r \in UserRows : WriteRow(r)) \/ TruncateTable \/ DropTable
  <2>1. PICK stages \in Seq(SUBSET Writes) : Begin(stages) /\ tables' \in 0 .. MaxTables
    BY <1>5, StatementBegins
  <2>2. /\ UNCHANGED <<pc, durable, shards, marker, markerSafe, seeding, seed, live, disk, queued>>
        /\ todo' = stages /\ DOMAIN allowed' = Items
    BY <2>1 DEF Begin, serverSide, files, engines
  <2>. QED  BY <1>0, <2>1, <2>2 DEF Types, TypeOK
<1>6. CASE StatementWrites
  <2>1. Files /\ todo' \in Seq(SUBSET Writes) /\ queued' \in {queued, TRUE}
    BY <1>6, StatementStep, ApplyIs
  <2>2. UNCHANGED <<pc, durable, shards, marker, markerSafe, seeding, seed, tables>>
    BY <1>6 DEF StatementWrites, serverSide, files
  <2>3. DOMAIN allowed' = Items
    BY <1>6 DEF StatementWrites, Types
  <2>. QED  BY <1>0, <2>1, <2>2, <2>3 DEF Types, TypeOK
<1>7. ASSUME NEW e \in Dirs, FlushMemtable(e) PROVE Types'
  <2>1. Files
    BY <1>7 DEF FlushMemtable, Types
  <2>2. UNCHANGED <<pc, durable, shards, marker, markerSafe, seeding, seed, todo, queued, tables, allowed>>
    BY <1>7 DEF FlushMemtable, serverSide, files, statement, history
  <2>. QED  BY <1>0, <2>1, <2>2 DEF Types, TypeOK
<1>8. CASE WriteBack \/ Close
  <2>1. /\ UNCHANGED <<durable, shards, marker, seeding, seed, live, todo, queued, tables>>
        /\ pc' \in {pc, "down"} /\ markerSafe' \in {markerSafe, TRUE} /\ disk' \in {disk, live}
        /\ DOMAIN allowed' = Items
    BY Zenon, <1>8 DEF WriteBack, Close, files, engines, statement, history, Types
  <2>. QED  BY Zenon, <1>0, <2>1 DEF Types, TypeOK
<1>9. ASSUME NEW kind \in Crashes, Crash(kind) PROVE Types'
  <2>1. /\ UNCHANGED <<durable, shards, seed, disk, tables, allowed>>
        /\ pc' = "down" /\ live' = disk /\ seeding' = <<>> /\ todo' = <<>> /\ queued' = FALSE
        /\ marker' \in {marker, Unreadable, Absent} /\ markerSafe' \in BOOLEAN
    BY <1>9 DEF Crash, Types
  <2>2. seeding' \in Seq(SeedItems) /\ todo' \in Seq(SUBSET Writes)
    BY <2>1
  <2>. QED  BY <1>0, <2>1, <2>2 DEF Types, TypeOK
<1>10. CASE UNCHANGED vars
  BY <1>0, <1>10 DEF vars, files, engines, statement, history, Types, TypeOK
<1>11. CASE CommitRemoval
  <2>1. /\ Apply(Removal) /\ queued' = FALSE
        /\ UNCHANGED <<pc, durable, shards, marker, markerSafe, seeding, seed, todo, tables, allowed>>
    BY Zenon, <1>11 DEF CommitRemoval, serverSide, files, history
  <2>2. Files
    BY Zenon, <2>1, RemovalIs, ApplyIs
  <2>. QED  BY <1>0, <2>1, <2>2 DEF Types, TypeOK
<1>. QED
  BY Zenon, <1>1, <1>2, <1>3, <1>4, <1>5, <1>6, <1>7, <1>8, <1>9, <1>10, <1>11 DEF Next

\* Whatever the environment asks for and whatever a crash leaves of the marker,
\* Storage::open opens between 1 and 64 engines and every write goes to one
THEOREM TypeCorrect == Spec => []TypeOK
<1>1. Types => TypeOK
  BY DEF Types
<1>. QED  BY <1>1, TypesInit, TypesStep, PTL DEF Spec

-----------------------------------------------------------------------------
\* The engine where an item belongs.  A marker that is missing or no number
\* stands for one engine
Home(i) == EngineOf(i, marker)

\* What each phase of Storage::open has behind it, and the shape of the work
\* in progress
Phases ==
  /\ pc = "create" => marker = Absent /\ seed = 1
  /\ pc = "fill" => marker = Unreadable /\ seed = 1
  /\ pc \in {"seed", "serving"} =>
       marker # Absent /\ shards = IF marker = Unreadable THEN 1 ELSE marker
  /\ pc = "serving" => seed = 4
  /\ pc # "seed" => seeding = <<>>
  /\ pc # "serving" => todo = <<>> /\ ~queued
  /\ seeding # <<>> => seed \in 2 .. 4 /\ Range(seeding) \subseteq Range(Seeds[seed - 1])
  /\ UserWrites(Pending(todo))

\* While the marker is right, nothing is written before it is, and what is
\* written is where it belongs, in memory and on disk
Routed ==
  "marker" \notin hurt =>
    /\ marker = Absent \/ pc = "fill" =>
         \A e \in Dirs, i \in Items : live[e][i] = None /\ disk[e][i] = None
    /\ \A e \in Dirs, i \in Items : live[e][i] # None \/ disk[e][i] # None => Home(i) = e

\* A statement that has made all its writes has none
LEMMA NonePending == Pending(<<>>) = {} /\ Range(<<>>) = {}
<1>1. Range(<<>>) = {}
  BY DEF Range
<1>. QED  BY <1>1 DEF Pending

\* The engine of an item is a directory; with one engine it is engine 0, and
\* the engine that reads and writes go to is the one where the item belongs
LEMMA HomeIs ==
  ASSUME Types, NEW i \in Items
  PROVE  /\ Home(i) \in Dirs
         /\ EngineOf(i, 1) = 0 /\ EngineOf(i, Absent) = 0 /\ EngineOf(i, Unreadable) = 0
         /\ Phases /\ pc \in {"seed", "serving"} => EngineOf(i, shards) = Home(i)
<1>1. EngineOf(i, 1) = 0 /\ EngineOf(i, Absent) = 0 /\ EngineOf(i, Unreadable) = 0
  BY DEF EngineOf, Absent, Unreadable
<1>2. marker \in Int /\ marker <= MaxShards
  BY RecoveryConstants DEF Types, TypeOK, Absent, Unreadable
<1>3. Home(i) \in Dirs
  BY <1>2, EngineOfIsOpen DEF Home
<1>4. Phases /\ pc \in {"seed", "serving"} => EngineOf(i, shards) = Home(i)
  BY Zenon, <1>1 DEF Phases, Home
<1>. QED  BY <1>1, <1>3, <1>4

\* The phases of Storage::open follow one another as the marker says
LEMMA PhasesStep == Types /\ Phases /\ [Next]_vars => Phases'
<1>. SUFFICES ASSUME Types, Phases, [Next]_vars PROVE Phases'
  BY Zenon
<1>. USE NonePending
<1>1. ASSUME NEW v \in EnvShards, Open(v) PROVE Phases'
  <2>1. /\ pc = "down" /\ seed' = 1
        /\ \/ marker = Absent /\ pc' = "create"
           \/ marker # Absent /\ pc' = "seed" /\ shards' = IF marker = Unreadable THEN 1 ELSE marker
        /\ UNCHANGED <<marker, seeding, todo, queued>>
    BY Zenon, <1>1 DEF Open, files, statement
  <2>. QED  BY <2>1 DEF Phases, UserWrites
<1>2. CASE CreateMarker
  <2>1. /\ pc = "create" /\ pc' = "fill" /\ marker' = Unreadable
        /\ UNCHANGED <<seed, seeding, todo, queued>>
    BY <1>2 DEF CreateMarker, statement
  <2>. QED  BY <2>1 DEF Phases, UserWrites
<1>3. CASE FillMarker
  <2>1. pc = "fill" /\ pc' = "seed" /\ marker' = shards /\ UNCHANGED <<shards, seed, seeding, todo, queued>>
    BY <1>3 DEF FillMarker, statement
  <2>2. shards # Absent /\ shards # Unreadable
    <3>1. shards \in 1 .. MaxShards
      BY Zenon DEF Types, TypeOK
    <3>. QED  BY <3>1 DEF Absent, Unreadable
  <2>. QED  BY <2>1, <2>2 DEF Phases, UserWrites
<1>4. CASE SeedKeyspace
  <2>1. /\ pc = "seed" /\ seeding = <<>> /\ UNCHANGED <<shards, marker, todo, queued>>
        /\ \/ seed = 4 /\ pc' = "serving" /\ seed' = 4 /\ seeding' = <<>>
           \/ /\ seed \in 1 .. 3 /\ pc' = "seed" /\ seed' = seed + 1
              /\ seeding' \in {<<>>, Seeds[seed]}
    BY <1>4, SeedKeyspaceIs
  <2>2. seeding' # <<>> => seed' \in 2 .. 4 /\ Range(seeding') \subseteq Range(Seeds[seed' - 1])
    BY <2>1
  <2>3. (UserWrites(Pending(todo)))'
    BY Zenon, <2>1 DEF Phases, UserWrites
  <2>. QED  BY <2>1, <2>2, <2>3 DEF Phases
<1>5. CASE SeedNext
  <2>1. /\ pc = "seed" /\ seeding # <<>> /\ seeding' = Tail(seeding)
        /\ UNCHANGED <<pc, shards, marker, seed, todo, queued>>
    BY <1>5 DEF SeedNext, files, statement
  <2>2. Range(seeding') \subseteq Range(seeding)
    BY <2>1, HeadTail DEF Types
  <2>3. (UserWrites(Pending(todo)))'
    BY <2>1 DEF Phases, UserWrites
  <2>. QED  BY <2>1, <2>2, <2>3 DEF Phases
<1>6. CASE CreateTable \/ (\E r \in UserRows : WriteRow(r)) \/ TruncateTable \/ DropTable
  <2>1. PICK stages \in Seq(SUBSET Writes) :
          Idle /\ Begin(stages) /\ UserWrites(Pending(stages))
    BY <1>6, StatementBegins
  <2>2. /\ pc = "serving" /\ todo' = stages
        /\ UNCHANGED <<pc, shards, marker, seed, seeding>>
    BY <2>1 DEF Begin, Idle, serverSide, files
  <2>3. (UserWrites(Pending(todo)))'
    BY <2>1, <2>2 DEF UserWrites
  <2>. QED  BY <2>2, <2>3 DEF Phases
<1>7. CASE StatementWrites
  <2>1. pc = "serving" /\ UNCHANGED <<pc, shards, marker, seed, seeding>>
    BY <1>7 DEF StatementWrites, serverSide, files
  <2>2. Pending(todo') \subseteq Pending(todo)
    BY Zenon, <1>7, StatementStep
  <2>3. (UserWrites(Pending(todo)))'
    BY <2>1, <2>2 DEF Phases, UserWrites
  <2>. QED  BY <2>1, <2>3 DEF Phases
<1>8. CASE (\E e \in Dirs : FlushMemtable(e)) \/ WriteBack \/ UNCHANGED vars
  <2>1. UNCHANGED <<pc, shards, marker, seed, seeding, todo, queued>>
    BY ZenonT(30), <1>8 DEF FlushMemtable, WriteBack, serverSide, files, statement, vars
  <2>. QED  BY <2>1 DEF Phases, UserWrites
<1>9. CASE Close
  <2>1. pc = "serving" /\ pc' = "down" /\ todo' = <<>> /\ ~queued' /\ UNCHANGED seeding
    BY <1>9 DEF Close, Idle, statement
  <2>. QED  BY Zenon, <2>1 DEF Phases, UserWrites
<1>10. ASSUME NEW kind \in Crashes, Crash(kind) PROVE Phases'
  <2>1. pc' = "down" /\ todo' = <<>> /\ ~queued' /\ seeding' = <<>>
    BY <1>10 DEF Crash
  <2>. QED  BY <2>1 DEF Phases, UserWrites
<1>11. CASE CommitRemoval
  <2>1. pc = "serving" /\ UNCHANGED <<pc, shards, marker, seed, seeding, todo>>
    BY Zenon, <1>11 DEF CommitRemoval, serverSide, files
  <2>2. (UserWrites(Pending(todo)))'
    BY Zenon, <2>1 DEF Phases, UserWrites
  <2>. QED  BY <2>1, <2>2 DEF Phases
<1>. QED
  BY Zenon, <1>1, <1>2, <1>3, <1>4, <1>5, <1>6, <1>7, <1>8, <1>9, <1>10, <1>11 DEF Next

\* What a statement writes, or the removal that nobody awaits, is no seed,
\* and goes where it belongs
LEMMA UserStep ==
  ASSUME Types, Phases, StatementWrites \/ CommitRemoval
  PROVE  /\ pc = "serving" /\ UNCHANGED <<pc, durable, shards, marker, seeding, seed>>
         /\ \E w \in Writes : /\ Apply(w) /\ w.items \cap SeedItems = {}
                              /\ w.val = None \/ \A i \in w.items : Home(i) = w.engine
         /\ hurt' \in {hurt, hurt \cup {"removal"}}
<1>1. CASE StatementWrites
  <2>1. pc = "serving" /\ UNCHANGED <<pc, durable, shards, marker, seeding, seed>>
    BY Zenon, <1>1 DEF StatementWrites, serverSide, files
  <2>2. PICK w \in Pending(todo) :
          w \in Writes /\ Apply(w) /\ hurt' \in {hurt, hurt \cup {"removal"}}
    BY <1>1, StatementStep
  <2>3. w.items \subseteq Items
    BY <2>2 DEF Writes
  <2>4. /\ w.items \cap SeedItems = {}
        /\ w.val = None \/ \A i \in w.items : EngineOf(i, shards) = w.engine
    BY DEF Phases, UserWrites
  <2>5. w.val = None \/ \A i \in w.items : Home(i) = w.engine
    BY Zenon, <2>1, <2>3, <2>4, HomeIs
  <2>. QED  BY Zenon, <2>1, <2>2, <2>4, <2>5
<1>2. CASE CommitRemoval
  <2>1. /\ pc = "serving" /\ UNCHANGED <<pc, durable, shards, marker, seeding, seed, hurt>>
        /\ Apply(Removal)
    BY Zenon, <1>2 DEF CommitRemoval, serverSide, files, history
  <2>2. Removal \in Writes /\ Removal.val = None /\ Removal.items \cap SeedItems = {}
    BY RemovalIs, ItemsApart
  <2>. QED  BY Zenon, <2>1, <2>2
<1>. QED  BY Zenon, <1>1, <1>2


\* A write that goes where its items belong leaves everything in its place
LEMMA AppliedInPlace ==
  ASSUME Types, Phases, Routed, pc \in {"seed", "serving"}, UNCHANGED <<pc, marker>>,
         "marker" \in hurt => "marker" \in hurt',
         NEW w \in Writes, Apply(w),
         w.val = None \/ \A i \in w.items : Home(i) = w.engine
  PROVE  Routed'
<1>1. /\ \A e \in Dirs, i \in Items :
           live'[e][i] = IF e = w.engine /\ i \in w.items THEN w.val ELSE live[e][i]
      /\ disk' = live' \/ disk' = disk
  BY Zenon, ApplyIs
<1>. SUFFICES ASSUME "marker" \notin hurt', NEW e \in Dirs, NEW i \in Items,
                     live'[e][i] # None \/ disk'[e][i] # None
              PROVE  Home(i) = e
  BY DEF Routed, Phases, Home
<1>2. (live[e][i] # None \/ disk[e][i] # None) => Home(i) = e
  BY DEF Routed
<1>3. live'[e][i] # None => Home(i) = e
  BY <1>1, <1>2
<1>. QED  BY Zenon, <1>1, <1>2, <1>3

\* Everything stays in its place
LEMMA RoutedStep == Types /\ Phases /\ Routed /\ [Next]_vars => Routed'
<1>. SUFFICES ASSUME Types, Phases, Routed, [Next]_vars PROVE Routed'
  OBVIOUS
<1>1. ASSUME NEW v \in EnvShards, Open(v) PROVE Routed'
  <2>1. pc' # "fill" /\ UNCHANGED <<marker, live, disk, hurt>>
    BY <1>1 DEF Open, files, engines, history
  <2>. QED  BY <2>1 DEF Routed, Home
<1>2. CASE CreateMarker
  <2>1. marker = Absent /\ marker' = Unreadable /\ UNCHANGED <<live, disk, hurt>>
    BY <1>2 DEF CreateMarker, Phases, engines, history
  <2>. QED  BY <2>1 DEF Routed, Home
<1>3. CASE FillMarker
  <2>1. pc = "fill" /\ pc' = "seed" /\ marker' # Absent /\ UNCHANGED <<live, disk, hurt>>
    BY <1>3 DEF FillMarker, Types, TypeOK, Absent, engines, history
  <2>. QED  BY <2>1 DEF Routed, Home
<1>4. CASE SeedKeyspace
  <2>1. pc' # "fill" /\ UNCHANGED <<marker, live, disk, hurt>>
    BY <1>4, SeedKeyspaceIs
  <2>. QED  BY <2>1 DEF Routed, Home
<1>5. CASE SeedNext
  <2>. DEFINE i == Head(seeding)
  <2>1. pc = "seed" /\ seeding # <<>> /\ Apply(Put(i, 0)) /\ UNCHANGED <<pc, marker, hurt>>
    BY <1>5 DEF SeedNext, files, history
  <2>2. i \in Items /\ 0 \in Vals
    BY <2>1, HeadTail, ItemsApart, RecoveryConstants DEF Types, Vals
  <2>. HIDE DEF i
  <2>3. Put(i, 0) \in Writes /\ \A j \in Put(i, 0).items : Home(j) = Put(i, 0).engine
    BY <2>1, <2>2, PutIsWrite, PutIs, HomeIs
  <2>. QED  BY <2>1, <2>3, AppliedInPlace
<1>6. CASE CreateTable \/ (\E r \in UserRows : WriteRow(r)) \/ TruncateTable \/ DropTable
  <2>1. PICK stages : Begin(stages)
    BY <1>6, StatementBegins
  <2>2. UNCHANGED <<pc, marker, live, disk, hurt>>
    BY <2>1 DEF Begin, serverSide, files, engines
  <2>. QED  BY <2>2 DEF Routed, Home
<1>7. CASE StatementWrites \/ CommitRemoval
  <2>1. pc = "serving" /\ UNCHANGED <<pc, marker>> /\ ("marker" \in hurt => "marker" \in hurt')
    BY <1>7, UserStep
  <2>2. PICK w \in Writes : Apply(w) /\ (w.val = None \/ \A i \in w.items : Home(i) = w.engine)
    BY Zenon, <1>7, UserStep
  <2>. QED  BY <2>1, <2>2, AppliedInPlace
<1>8. ASSUME NEW e \in Dirs, FlushMemtable(e) PROVE Routed'
  <2>1. disk' = [disk EXCEPT ![e] = live[e]] /\ UNCHANGED <<pc, marker, live, hurt>>
    BY <1>8 DEF FlushMemtable, serverSide, files, history
  <2>2. \A d \in Dirs : disk'[d] = live[d] \/ disk'[d] = disk[d]
    BY <2>1 DEF Types
  <2>. QED  BY <2>1, <2>2 DEF Routed, Home
<1>9. CASE WriteBack \/ UNCHANGED vars
  <2>1. UNCHANGED <<pc, marker, live, disk, hurt>>
    BY <1>9 DEF WriteBack, vars, files, engines, history
  <2>. QED  BY <2>1 DEF Routed, Home
<1>10. CASE Close
  <2>1. pc' # "fill" /\ disk' = live /\ UNCHANGED <<marker, live, hurt>>
    BY <1>10 DEF Close, files
  <2>. QED  BY <2>1 DEF Routed, Home
<1>11. ASSUME NEW kind \in Crashes, Crash(kind) PROVE Routed'
  <2>1. /\ pc' # "fill" /\ live' = disk /\ UNCHANGED disk
        /\ "marker" \notin hurt' => "marker" \notin hurt /\ marker' = marker
    BY <1>11 DEF Crash
  <2>. QED  BY <2>1 DEF Routed, Home
<1>. QED
  BY Zenon, <1>1, <1>2, <1>3, <1>4, <1>5, <1>6, <1>7, <1>8, <1>9, <1>10, <1>11 DEF Next

\* The invariant that the others rest on
Placed == Types /\ Phases /\ Routed

\* Storage::open starts from nothing
LEMMA PlacedInit == Init => Placed
<1>. SUFFICES ASSUME Init PROVE Placed
  OBVIOUS
<1>1. pc = "down" /\ seeding = <<>> /\ todo = <<>> /\ ~queued /\ live = disk
  BY DEF Init
<1>2. \A e \in Dirs, i \in Items : live[e][i] = None
  BY DEF Init
<1>3. Phases
  BY <1>1, NonePending DEF Phases, UserWrites
<1>4. Routed
  BY <1>1, <1>2 DEF Routed
<1>. QED  BY <1>3, <1>4, TypesInit DEF Placed

\* Every step keeps this invariant
LEMMA PlacedStep == Placed /\ [Next]_vars => Placed'
  BY TypesStep, PhasesStep, RoutedStep DEF Placed

\* Whatever number of engines the environment asks for at a later start, and
\* wherever an earlier start crashed, every row is on the engine that
\* engine_of sends its lookups to, unless the marker itself was lost
THEOREM RestartsNeverMisroute == Spec => []NeverMisrouted
<1>1. Placed => NeverMisrouted
  BY HomeIs DEF Placed, Routed, NeverMisrouted
<1>. QED  BY <1>1, PlacedInit, PlacedStep, PTL DEF Spec


-----------------------------------------------------------------------------
\* The record at the head of every seed that seed_system is through with is
\* there, or about to be written
HeadsThere ==
  pc \in {"seed", "serving"} =>
    \A s \in 1 .. seed - 1 :
      \/ live[0][Head(Seeds[s])] # None
      \/ seeding # <<>> /\ Head(seeding) = Head(Seeds[s])

\* What the statement in progress and the seeding may still write is allowed;
\* so is what is found, now or after a crash
Allowed ==
  /\ \A w \in Pending(todo) : \A i \in w.items : w.val \in allowed[i]
  /\ queued => None \in allowed[TablesRow]
  /\ \A i \in Range(seeding) : 0 \in allowed[i]
  /\ \A s \in 1 .. 3 :
       \/ \A i \in Range(Seeds[s]) : 0 \in allowed[i]
       \/ live[0][Head(Seeds[s])] # None /\ disk[0][Head(Seeds[s])] # None
  /\ "marker" \notin hurt =>
       \A i \in Items : live[Home(i)][i] \in allowed[i] /\ disk[Home(i)][i] \in allowed[i]

\* The record that seed_system looks for is a keyspace, on engine 0
LEMMA SeedHeads ==
  ASSUME NEW s \in 1 .. 3
  PROVE  /\ Head(Seeds[s]) \in SeedItems /\ Head(Seeds[s]) \in Range(Seeds[s])
         /\ \A n : EngineOf(Head(Seeds[s]), n) = 0
         /\ 0 \in Dirs
<1>1. Head(Seeds[s]) \in Range(Seeds[s]) /\ Head(Seeds[s]) \in SeedItems
  BY SeedFacts, SeedOfKeyspace
<1>2. s \in {1, 2, 3}
  OBVIOUS
<1>3. Head(Seeds[s])[1] = "ks"
  BY <1>2, SeedFacts DEF SeedOfSystem, SeedOfSchema, SeedOfVirtual, Keyspace
<1>4. \A n : EngineOf(Head(Seeds[s]), n) = 0
  BY Zenon, <1>3 DEF EngineOf
<1>. QED  BY <1>1, <1>4, RecoveryConstants DEF Dirs

\* Statements leave what is seeded alone
LEMMA SeedsUntouched ==
  ASSUME Types, Phases, StatementWrites \/ CommitRemoval, NEW e \in Dirs, NEW i \in SeedItems
  PROVE  /\ live'[e][i] = live[e][i]
         /\ disk'[e][i] = live[e][i] \/ disk'[e][i] = disk[e][i]
<1>1. PICK w \in Writes : Apply(w) /\ w.items \cap SeedItems = {}
  BY Zenon, UserStep
<1>2. i \notin w.items /\ i \in Items
  BY <1>1, ItemsApart
<1>. QED  BY <1>1, <1>2, ApplyIs

\* seed_system writes the next record where it belongs, and no other
LEMMA SeedNextIs ==
  ASSUME Types, Phases, SeedNext
  PROVE  \E h \in SeedItems :
           /\ h = Head(seeding) /\ Range(seeding) = {h} \cup Range(seeding')
           /\ live'[Home(h)][h] = 0
           /\ \A e \in Dirs, i \in Items : e # Home(h) \/ i # h => live'[e][i] = live[e][i]
           /\ disk' = live' \/ disk' = disk
           /\ pc = "seed" /\ seeding # <<>>
           /\ UNCHANGED <<pc, shards, marker, seed, todo, queued, allowed, hurt>>
<1>. DEFINE h == Head(seeding)
<1>1. /\ pc = "seed" /\ seeding # <<>> /\ Apply(Put(h, 0)) /\ seeding' = Tail(seeding)
      /\ UNCHANGED <<pc, shards, marker, seed, todo, queued, allowed, hurt>>
  BY DEF SeedNext, files, statement, history
<1>2. h \in SeedItems /\ Range(seeding) = {h} \cup Range(seeding')
  BY <1>1, HeadTail DEF Types
<1>. HIDE DEF h
<1>3. h \in Items /\ 0 \in Vals
  BY <1>2, ItemsApart, RecoveryConstants DEF Vals
<1>4. /\ Put(h, 0) \in Writes /\ Home(h) \in Dirs
      /\ Put(h, 0).engine = Home(h) /\ Put(h, 0).items = {h} /\ Put(h, 0).val = 0
  BY <1>1, <1>3, PutIsWrite, PutIs, HomeIs
<1>5. \A e \in Dirs, i \in Items :
        live'[e][i] = IF e = Home(h) /\ i = h THEN 0 ELSE live[e][i]
  BY <1>1, <1>4, ApplyIs
<1>6. disk' = live' \/ disk' = disk
  BY <1>1, <1>4, ApplyIs
<1>. QED  BY ZenonT(30), <1>1, <1>2, <1>3, <1>4, <1>5, <1>6 DEF h

\* A keyspace of the system, once found or written, stays
LEMMA HeadsThereStep == Types /\ Phases /\ HeadsThere /\ [Next]_vars => HeadsThere'
<1>. SUFFICES ASSUME Types, Phases, HeadsThere, [Next]_vars,
                     (pc \in {"seed", "serving"})', NEW s \in (1 .. seed - 1)'
              PROVE  \/ live'[0][Head(Seeds[s])] # None
                     \/ seeding' # <<>> /\ Head(seeding') = Head(Seeds[s])
  BY DEF HeadsThere
<1>. DEFINE h == Head(Seeds[s])
            Goal == live'[0][h] # None \/ (seeding' # <<>> /\ Head(seeding') = h)
<1>0. seed \in 1 .. 4 /\ seed' \in 1 .. 4 /\ s \in 1 .. 3 /\ s <= seed' - 1
  <2>1. Len(Seeds) = 3
    BY Zenon, SeedFacts
  <2>2. TypeOK /\ TypeOK'
    BY Zenon, TypesStep DEF Types
  <2>3. seed \in 1 .. 4 /\ seed' \in 1 .. 4
    <3>1. seed \in 1 .. Len(Seeds) + 1 /\ (seed \in 1 .. Len(Seeds) + 1)'
      BY Zenon, <2>2 DEF TypeOK
    <3>. QED  BY <2>1, <3>1
  <2>4. s \in 1 .. seed' - 1
    OBVIOUS
  <2>5. \A z \in 1 .. 4 : \A x \in 1 .. z - 1 : x \in 1 .. 3 /\ x <= z - 1
    OBVIOUS
  <2>. QED  BY Zenon, <2>3, <2>4, <2>5
<1>1. ASSUME NEW v \in EnvShards, Open(v) PROVE Goal
  BY <1>1 DEF Open
<1>2. CASE CreateMarker \/ FillMarker
  <2>1. CASE CreateMarker
    <3>1. pc' = "fill"
      BY Zenon, <2>1 DEF CreateMarker
    <3>. QED  BY <3>1
  <2>2. CASE FillMarker
    <3>1. seed' = 1
      BY Zenon, <2>2 DEF FillMarker, Phases
    <3>. QED  BY <1>0, <3>1
  <2>. QED  BY Zenon, <1>2, <2>1, <2>2
<1>3. CASE SeedKeyspace
  <2>1. /\ pc = "seed" /\ seeding = <<>> /\ UNCHANGED live
        /\ \/ seed' = seed
           \/ /\ seed' = seed + 1 /\ seed \in 1 .. 3
              /\ Found(Head(Seeds[seed])) \/ seeding' = Seeds[seed]
    BY <1>3, SeedKeyspaceIs
  <2>2. CASE s <= seed - 1
    BY <1>0, <2>1, <2>2 DEF HeadsThere
  <2>3. CASE ~(s <= seed - 1)
    <3>0. seed' = seed \/ seed' = seed + 1
      BY Zenon, <2>1
    <3>4. s = seed /\ seed' # seed
      <4>1. ASSUME NEW a \in 1 .. 4, NEW b \in 1 .. 4, NEW c \in 1 .. 3, c <= b - 1, ~(c <= a - 1),
                   b = a \/ b = a + 1
            PROVE  c = a /\ b # a
        BY <4>1
      <4>. QED  BY Zenon, <1>0, <2>3, <3>0, <4>1
    <3>1. Found(h) \/ seeding' = Seeds[s]
      BY Zenon, <2>1, <3>4
    <3>2. Found(h) => live[0][h] # None
      BY <1>0, SeedHeads DEF Found, Value
    <3>3. Seeds[s] # <<>>
      BY <1>0, SeedFacts, SeedOfKeyspace
    <3>. QED  BY Zenon, <2>1, <3>1, <3>2, <3>3
  <2>. QED  BY <2>2, <2>3
<1>4. CASE SeedNext
  <2>1. PICK g \in SeedItems :
          /\ g = Head(seeding) /\ live'[Home(g)][g] = 0
          /\ \A e \in Dirs, i \in Items : e # Home(g) \/ i # g => live'[e][i] = live[e][i]
          /\ pc = "seed" /\ UNCHANGED seed
    BY <1>4, SeedNextIs
  <2>2. live[0][h] # None \/ g = h
    BY <2>1 DEF HeadsThere
  <2>3. h \in Items /\ 0 \in Dirs /\ Home(h) = 0 /\ 0 # None
    BY <1>0, SeedHeads, ItemsApart DEF Home, None
  <2>. QED  BY <2>1, <2>2, <2>3
<1>5. CASE StatementWrites \/ CommitRemoval
  <2>1. pc = "serving" /\ UNCHANGED <<pc, seed, seeding>>
    BY Zenon, <1>5, UserStep
  <2>2. live'[0][h] = live[0][h]
    BY <1>0, <1>5, SeedHeads, SeedsUntouched
  <2>. QED  BY <2>1, <2>2 DEF HeadsThere
<1>6. CASE CreateTable \/ (\E r \in UserRows : WriteRow(r)) \/ TruncateTable \/ DropTable
  <2>1. PICK stages : Begin(stages)
    BY <1>6, StatementBegins
  <2>2. UNCHANGED <<pc, seed, seeding, live>>
    BY <2>1 DEF Begin, serverSide, engines
  <2>. QED  BY <2>2 DEF HeadsThere
<1>7. CASE (\E e \in Dirs : FlushMemtable(e)) \/ WriteBack \/ UNCHANGED vars
  <2>1. UNCHANGED <<pc, seed, seeding, live>>
    BY <1>7 DEF FlushMemtable, WriteBack, serverSide, engines, vars
  <2>. QED  BY <2>1 DEF HeadsThere
<1>8. CASE Close \/ (\E kind \in Crashes : Crash(kind))
  BY <1>8 DEF Close, Crash
<1>. QED
  BY ZenonT(30), <1>1, <1>2, <1>3, <1>4, <1>5, <1>6, <1>7, <1>8 DEF Next

\* A statement that begins allows what it is about to write
LEMMA BeginIs ==
  ASSUME Types, NEW stages \in Seq(SUBSET Writes), Begin(stages)
  PROVE  /\ \A i \in Items : allowed[i] \subseteq allowed'[i]
         /\ \A w \in Pending(stages) : \A i \in w.items : w.val \in allowed'[i]
         /\ todo' = stages
         /\ UNCHANGED <<pc, durable, shards, marker, seeding, seed, live, disk, queued, hurt>>
<1>. DEFINE News(i) == {w.val : w \in {x \in Pending(stages) : i \in x.items}}
<1>1. allowed' = [i \in Items |-> allowed[i] \cup News(i)]
  BY DEF Begin, Pending
<1>2. \A i \in Items : allowed'[i] = allowed[i] \cup News(i)
  BY Zenon, <1>1
<1>3. ASSUME NEW w \in Pending(stages), NEW i \in w.items PROVE w.val \in allowed'[i]
  <2>1. i \in Items
    BY StagesOfWrites DEF Writes
  <2>. QED  BY <1>2, <2>1
<1>4. /\ todo' = stages
      /\ UNCHANGED <<pc, durable, shards, marker, seeding, seed, live, disk, queued, hurt>>
  BY DEF Begin, serverSide, files, engines
<1>. QED  BY Zenon, <1>2, <1>3, <1>4

\* A write that only puts allowed values where items belong, on disk or not
LEMMA AppliedAllowed ==
  ASSUME Types, Allowed, "marker" \notin hurt, NEW i \in Items,
         live'[Home(i)][i] \in allowed[i],
         disk' = live' \/ disk' = disk
  PROVE  disk'[Home(i)][i] \in allowed[i]
  BY Zenon DEF Allowed

\* A restart may find only what the acknowledgements allow
LEMMA AllowedStep == Placed /\ HeadsThere /\ Allowed /\ [Next]_vars => Allowed'
<1>. SUFFICES ASSUME Types, Phases, Routed, HeadsThere, Allowed, [Next]_vars PROVE Allowed'
  BY DEF Placed
<1>. USE NonePending
<1>0. \A s \in 1 .. 3 : /\ Head(Seeds[s]) \in SeedItems /\ Head(Seeds[s]) \in Items /\ 0 \in Dirs
                        /\ EngineOf(Head(Seeds[s]), shards) = 0 /\ Home(Head(Seeds[s])) = 0
                        /\ Range(Seeds[s]) \subseteq Items
  BY Zenon, SeedHeads, ItemsApart, SeedFacts, SeedOfKeyspace DEF Home
<1>1. ASSUME NEW v \in EnvShards, Open(v) PROVE Allowed'
  <2>1. UNCHANGED <<marker, seeding, todo, queued, live, disk, allowed, hurt>>
    BY Zenon, <1>1 DEF Open, files, engines, statement, history
  <2>. QED  BY <2>1 DEF Allowed, Home
<1>2. CASE CreateMarker
  <2>1. marker = Absent /\ marker' = Unreadable /\ UNCHANGED <<seeding, todo, queued, live, disk, allowed, hurt>>
    BY <1>2 DEF CreateMarker, Phases, engines, statement, history
  <2>2. \A i \in Items : EngineOf(i, marker') = Home(i)
    BY Zenon, <2>1, HomeIs DEF Home
  <2>. QED  BY <2>1, <2>2 DEF Allowed, Home
<1>3. CASE FillMarker
  <2>1. pc = "fill" /\ UNCHANGED <<seeding, todo, queued, live, disk, allowed, hurt>> /\ marker' = shards
    BY <1>3 DEF FillMarker, engines, statement, history
  <2>2. ASSUME "marker" \notin hurt, NEW i \in Items
        PROVE  /\ live[EngineOf(i, shards)][i] = live[Home(i)][i]
               /\ disk[EngineOf(i, shards)][i] = disk[Home(i)][i]
    <3>1. EngineOf(i, shards) \in Dirs /\ Home(i) \in Dirs
      <4>1. shards \in 1 .. MaxShards /\ MaxShards \in Nat \ {0}
        BY Zenon, RecoveryConstants DEF Types, TypeOK
      <4>2. shards \in Int /\ shards <= MaxShards
        BY <4>1
      <4>. QED  BY Zenon, <4>2, HomeIs, EngineOfIsOpen
    <3>. QED  BY Zenon, <2>1, <2>2, <3>1 DEF Routed
  <2>3. ("marker" \notin hurt =>
          \A i \in Items : live[Home(i)][i] \in allowed[i] /\ disk[Home(i)][i] \in allowed[i])'
    BY <2>1, <2>2 DEF Allowed, Home
  <2>. QED  BY <2>1, <2>3 DEF Allowed
<1>4. CASE SeedKeyspace
  <2>1. /\ seeding = <<>> /\ UNCHANGED <<marker, todo, queued, live, disk, allowed, hurt>>
        /\ \/ seeding' = <<>>
           \/ seed \in 1 .. 3 /\ ~Found(Head(Seeds[seed])) /\ seeding' = Seeds[seed]
    BY <1>4, SeedKeyspaceIs
  <2>2. \A i \in Range(seeding') : 0 \in allowed[i]
    <3>1. CASE seed \in 1 .. 3 /\ ~Found(Head(Seeds[seed])) /\ seeding' = Seeds[seed]
      <4>1. live[0][Head(Seeds[seed])] = None
        BY <1>0, <3>1 DEF Found, Value
      <4>. QED  BY <3>1, <4>1 DEF Allowed
    <3>. QED  BY Zenon, <2>1, <3>1
  <2>. QED  BY Zenon, <2>1, <2>2 DEF Allowed, Home
<1>5. CASE SeedNext
  <2>1. PICK g \in SeedItems :
          /\ g = Head(seeding) /\ Range(seeding) = {g} \cup Range(seeding')
          /\ live'[Home(g)][g] = 0
          /\ \A e \in Dirs, i \in Items : e # Home(g) \/ i # g => live'[e][i] = live[e][i]
          /\ disk' = live' \/ disk' = disk
          /\ UNCHANGED <<marker, todo, queued, allowed, hurt>>
    BY <1>5, SeedNextIs
  <2>2. (\A i \in Range(seeding) : 0 \in allowed[i])' /\ 0 \in allowed[g]
    BY <2>1 DEF Allowed
  <2>3. ASSUME NEW s \in 1 .. 3
        PROVE  live[0][Head(Seeds[s])] # None => live'[0][Head(Seeds[s])] # None
    BY <1>0, <2>1 DEF None
  <2>4. (\A s \in 1 .. 3 :
          \/ \A i \in Range(Seeds[s]) : 0 \in allowed[i]
          \/ live[0][Head(Seeds[s])] # None /\ disk[0][Head(Seeds[s])] # None)'
    <3>1. ASSUME NEW s \in 1 .. 3
          PROVE  \/ \A i \in Range(Seeds[s]) : 0 \in allowed[i]
                 \/ live'[0][Head(Seeds[s])] # None /\ disk'[0][Head(Seeds[s])] # None
      BY Zenon, <2>1, <2>3 DEF Allowed
    <3>. QED  BY Zenon, <2>1, <3>1
  <2>5. ASSUME "marker" \notin hurt, NEW i \in Items
        PROVE  live'[Home(i)][i] \in allowed[i] /\ disk'[Home(i)][i] \in allowed[i]
    <3>1. Home(i) \in Dirs
      BY Zenon, HomeIs
    <3>2. live'[Home(i)][i] \in allowed[i]
      BY Zenon, <2>1, <2>2, <2>5, <3>1 DEF Allowed
    <3>. QED  BY <2>1, <2>5, <3>2, AppliedAllowed
  <2>. QED  BY Zenon, <2>1, <2>2, <2>4, <2>5 DEF Allowed, Home
<1>6. CASE CreateTable \/ (\E r \in UserRows : WriteRow(r)) \/ TruncateTable \/ DropTable
  <2>1. PICK stages \in Seq(SUBSET Writes) : Idle /\ Begin(stages)
    BY <1>6, StatementBegins
  <2>2. /\ \A i \in Items : allowed[i] \subseteq allowed'[i]
        /\ \A w \in Pending(todo') : \A i \in w.items : w.val \in allowed'[i]
        /\ UNCHANGED <<marker, seeding, live, disk, queued, hurt>>
    BY <2>1, BeginIs
  <2>3. seeding = <<>>
    BY <2>1 DEF Phases, Idle
  <2>. QED  BY Zenon, <1>0, <2>2, <2>3, ItemsApart DEF Allowed, Home
<1>7. CASE (\E e \in Dirs : FlushMemtable(e))
  <2>1. PICK e \in Dirs : disk' = [disk EXCEPT ![e] = live[e]]
    BY Zenon, <1>7 DEF FlushMemtable
  <2>2. UNCHANGED <<marker, seeding, todo, queued, live, allowed, hurt>>
    BY <1>7 DEF FlushMemtable, serverSide, files, statement, history
  <2>3. \A d \in Dirs : disk'[d] = live[d] \/ disk'[d] = disk[d]
    BY <2>1 DEF Types
  <2>4. \A i \in Items : Home(i) \in Dirs
    BY HomeIs
  <2>. QED  BY Zenon, <1>0, <2>2, <2>3, <2>4 DEF Allowed, Home
<1>8. CASE WriteBack \/ UNCHANGED vars
  <2>1. UNCHANGED <<marker, seeding, todo, queued, live, disk, allowed, hurt>>
    BY Zenon, <1>8 DEF WriteBack, vars, files, engines, statement, history
  <2>. QED  BY Zenon, <2>1 DEF Allowed, Home
<1>9. ASSUME NEW kind \in Crashes, Crash(kind) PROVE Allowed'
  <2>1. /\ live' = disk /\ seeding' = <<>> /\ todo' = <<>> /\ ~queued' /\ UNCHANGED <<disk, allowed>>
        /\ "marker" \notin hurt' => "marker" \notin hurt /\ marker' = marker
    BY <1>9 DEF Crash
  <2>. QED  BY <2>1 DEF Allowed, Home
<1>10. CASE Close
  <2>1. /\ pc = "serving" /\ disk' = live /\ todo' = <<>> /\ ~queued'
        /\ UNCHANGED <<marker, seeding, live, hurt>>
        /\ allowed' = [i \in Items |-> {Value(i)}]
    BY <1>10 DEF Close, Idle, files, statement
  <2>2. \A i \in Items : allowed'[i] = {live[Home(i)][i]}
    BY <2>1, HomeIs DEF Value
  <2>3. seeding = <<>> /\ seed = 4
    BY <2>1 DEF Phases
  <2>4. \A s \in 1 .. 3 : live[0][Head(Seeds[s])] # None
    BY <2>1, <2>3 DEF HeadsThere
  <2>. QED  BY Zenon, <2>1, <2>2, <2>3, <2>4 DEF Allowed, Home
<1>11. ASSUME StatementWrites \/ CommitRemoval, \A i \in SeedItems : allowed'[i] = allowed[i]
       PROVE  (\A s \in 1 .. 3 :
                 \/ \A i \in Range(Seeds[s]) : 0 \in allowed[i]
                 \/ live[0][Head(Seeds[s])] # None /\ disk[0][Head(Seeds[s])] # None)'
  <2>1. ASSUME NEW s \in 1 .. 3, live[0][Head(Seeds[s])] # None, disk[0][Head(Seeds[s])] # None
        PROVE  live'[0][Head(Seeds[s])] # None /\ disk'[0][Head(Seeds[s])] # None
    BY <1>0, <1>11, <2>1, SeedsUntouched
  <2>2. \A s \in 1 .. 3 : Range(Seeds[s]) \subseteq SeedItems
    BY SeedFacts, SeedOfKeyspace
  <2>. QED  BY Zenon, <1>11, <2>1, <2>2 DEF Allowed
<1>12. ASSUME "marker" \notin hurt, NEW w \in Writes, Apply(w),
              \A i \in w.items : w.val \in allowed[i], NEW i \in Items
       PROVE  live'[Home(i)][i] \in allowed[i] /\ disk'[Home(i)][i] \in allowed[i]
  <2>1. /\ \A e \in Dirs, x \in Items :
             live'[e][x] = IF e = w.engine /\ x \in w.items THEN w.val ELSE live[e][x]
        /\ disk' = live' \/ disk' = disk
    BY Zenon, <1>12, ApplyIs
  <2>2. Home(i) \in Dirs
    BY Zenon, HomeIs
  <2>3. live'[Home(i)][i] \in allowed[i]
    BY ZenonT(30), <1>12, <2>1, <2>2 DEF Allowed
  <2>. QED  BY Zenon, <1>12, <2>1, <2>3, AppliedAllowed
<1>13. CASE StatementWrites
  <2>1. pc = "serving" /\ UNCHANGED <<pc, shards, marker, seeding>>
    BY <1>13 DEF StatementWrites, serverSide, files
  <2>2. PICK w \in Pending(todo) :
          /\ w \in Writes /\ Apply(w) /\ Pending(todo') \subseteq Pending(todo)
          /\ queued' = queued \/ Removal \in Pending(todo)
          /\ hurt' \in {hurt, hurt \cup {"removal"}}
    BY <1>13, StatementStep
  <2>3. disk' = live' \/ (~durable /\ disk' = disk)
    BY <2>2, ApplyIs
  <2>4. seeding' = <<>> /\ ("marker" \notin hurt' => "marker" \notin hurt)
    BY <2>1, <2>2 DEF Phases
  <2>5. \A i \in Items : EngineOf(i, shards) = Home(i) /\ Home(i) \in Dirs
    BY <2>1, HomeIs
  <2>6. \A i \in SeedItems : allowed'[i] = allowed[i]
    BY <1>13, ItemsApart DEF StatementWrites
  <2>7. (\A s \in 1 .. 3 :
          \/ \A i \in Range(Seeds[s]) : 0 \in allowed[i]
          \/ live[0][Head(Seeds[s])] # None /\ disk[0][Head(Seeds[s])] # None)'
    BY Zenon, <1>11, <1>13, <2>6
  <2>8. ASSUME "marker" \notin hurt, NEW i \in Items
        PROVE  live'[Home(i)][i] \in allowed[i] /\ disk'[Home(i)][i] \in allowed[i]
    <3>1. \A x \in w.items : w.val \in allowed[x]
      BY Zenon, <2>2 DEF Allowed
    <3>. QED  BY Zenon, <1>12, <2>2, <2>8, <3>1
  <2>9. CASE allowed' = allowed
    <3>1. queued' => None \in allowed'[TablesRow]
      <4>1. Removal \in Pending(todo) => None \in allowed[TablesRow]
        BY Zenon, RemovalIs DEF Allowed
      <4>. QED  BY Zenon, <2>2, <2>9, <4>1 DEF Allowed
    <3>. QED  BY ZenonT(30), <2>1, <2>2, <2>4, <2>7, <2>8, <2>9, <3>1 DEF Allowed, Home
  <2>10. CASE /\ durable /\ todo' = <<>>
              /\ allowed' = [i \in Items |->
                               IF i \in SeedItems THEN allowed[i]
                               ELSE {live'[EngineOf(i, shards)][i]}
                                      \cup (IF i = TablesRow /\ queued' THEN {None} ELSE {})]
    <3>1. disk' = live'
      BY <2>3, <2>10
    <3>2. \A i \in Items : allowed'[i] = allowed[i] \/ live'[Home(i)][i] \in allowed'[i]
      BY <2>5, <2>10
    <3>3. ("marker" \notin hurt =>
            \A i \in Items : live[Home(i)][i] \in allowed[i] /\ disk[Home(i)][i] \in allowed[i])'
      BY <2>1, <2>4, <2>8, <3>1, <3>2 DEF Home
    <3>4. queued' => None \in allowed'[TablesRow]
      BY <2>10, ItemsApart
    <3>. QED  BY ZenonT(30), <2>1, <2>4, <2>7, <2>10, <3>3, <3>4 DEF Allowed
  <2>. QED  BY Zenon, <1>13, <2>9, <2>10 DEF StatementWrites
<1>14. CASE CommitRemoval
  <2>1. /\ pc = "serving" /\ queued /\ ~queued' /\ Apply(Removal)
        /\ UNCHANGED <<pc, shards, marker, seeding, todo, allowed, hurt>>
    BY <1>14 DEF CommitRemoval, serverSide, files, history
  <2>2. Removal \in Writes /\ \A i \in Removal.items : Removal.val \in allowed[i]
    BY <2>1, RemovalIs DEF Allowed
  <2>3. ASSUME "marker" \notin hurt, NEW i \in Items
        PROVE  live'[Home(i)][i] \in allowed[i] /\ disk'[Home(i)][i] \in allowed[i]
    BY Zenon, <1>12, <2>1, <2>2, <2>3
  <2>4. (\A s \in 1 .. 3 :
          \/ \A i \in Range(Seeds[s]) : 0 \in allowed[i]
          \/ live[0][Head(Seeds[s])] # None /\ disk[0][Head(Seeds[s])] # None)'
    BY Zenon, <1>11, <1>14, <2>1
  <2>. QED  BY ZenonT(30), <2>1, <2>3, <2>4 DEF Allowed, Home
<1>. QED
  BY Zenon, <1>1, <1>2, <1>3, <1>4, <1>5, <1>6, <1>7, <1>8, <1>9, <1>10, <1>13, <1>14 DEF Next

\* What durable mode, or a clean close, has acknowledged is what every later
\* start finds, whatever crashes come in between, unless the marker was lost
THEOREM AcknowledgedSurvives == Spec => []AckedSurvives
<1>. DEFINE Inv == Placed /\ HeadsThere /\ Allowed
<1>1. Init => Inv
  <2>. SUFFICES ASSUME Init PROVE HeadsThere /\ Allowed
    BY PlacedInit
  <2>1. pc = "down" /\ seeding = <<>> /\ todo = <<>> /\ ~queued /\ live = disk
    BY DEF Init
  <2>2. \A i \in Items : None \in allowed[i] /\ (i \in SeedItems => 0 \in allowed[i])
    BY DEF Init
  <2>3. \A i \in Items : live[Home(i)][i] = None
    <3>1. \A i \in Items : Home(i) \in Dirs
      BY PlacedInit, HomeIs DEF Placed
    <3>. QED  BY <3>1 DEF Init
  <2>4. \A s \in 1 .. 3 : \A i \in Range(Seeds[s]) : 0 \in allowed[i]
    BY <2>2, SeedFacts, SeedOfKeyspace, ItemsApart
  <2>. QED  BY <2>1, <2>2, <2>3, <2>4, NonePending DEF HeadsThere, Allowed
<1>2. Inv /\ [Next]_vars => Inv'
  BY PlacedStep, HeadsThereStep, AllowedStep DEF Placed
<1>3. Inv => AckedSurvives
  <2>. SUFFICES ASSUME Inv, Idle, "marker" \notin hurt, NEW i \in Items PROVE Value(i) \in allowed[i]
    BY DEF AckedSurvives
  <2>1. EngineOf(i, shards) = Home(i)
    BY HomeIs DEF Placed, Idle
  <2>. QED  BY <2>1 DEF Allowed, Value
<1>. QED  BY <1>1, <1>2, <1>3, PTL DEF Spec

-----------------------------------------------------------------------------
\* v is what item i has once the statement in progress has made its writes
Hits(w, i) == w.engine = Home(i) /\ i \in w.items
Will(i, v) ==
  \/ \E w \in Pending(todo) : Hits(w, i) /\ w.val = v
  \/ live[Home(i)][i] = v /\ \A w \in Pending(todo) : ~Hits(w, i)

\* The definition, its mirror and the rows will agree
Agree ==
  hurt \cap {"memtable", "statement", "marker"} = {} =>
    \A v \in Vals :
      /\ Will(Mirror, v) <=> Will(UserTable, v)
      /\ \A i \in DataRows : Will(i, v) /\ v # None => Will(UserTable, v)

\* v is what the row of system_schema.tables has once the removal in the
\* pipeline is made too, before the write of a statement in progress
WillList(v) ==
  \/ \E w \in Pending(todo) : Hits(w, TablesRow) /\ w.val = v
  \/ /\ \A w \in Pending(todo) : ~Hits(w, TablesRow)
     /\ v = IF queued THEN None ELSE live[Home(TablesRow)][TablesRow]

\* The definition and that row will agree
Listed ==
  hurt \cap {"memtable", "statement", "marker", "removal"} = {} =>
    \A v \in Vals : WillList(v) <=> Will(UserTable, v)

\* With no statement in progress an item will have what it has
LEMMA WillBeIdle ==
  ASSUME todo = <<>>, NEW i, NEW v
  PROVE  Will(i, v) <=> live[Home(i)][i] = v
  BY NonePending DEF Will

\* The writes of the statement in progress change nothing of what items will
\* have in the end: each is made once, and none contradicts another
LEMMA WillStays ==
  ASSUME Types, Phases, StatementWrites, NEW i \in Items, i # TablesRow, NEW v
  PROVE  Will(i, v)' <=> Will(i, v)
<1>1. UNCHANGED marker
  BY DEF StatementWrites, serverSide, files
<1>2. PICK w \in Pending(todo) :
        /\ w \in Writes /\ Apply(w)
        /\ Pending(todo') \subseteq Pending(todo)
        /\ Pending(todo) \subseteq Pending(todo') \cup {w, Removal}
  BY StatementStep
<1>r. ~Hits(Removal, i)
  BY Zenon, RemovalIs DEF Hits
<1>3. live'[Home(i)][i] = IF Hits(w, i) THEN w.val ELSE live[Home(i)][i]
  <2>1. Home(i) \in Dirs
    BY Zenon, HomeIs
  <2>2. \A e \in Dirs, j \in Items :
          live'[e][j] = IF e = w.engine /\ j \in w.items THEN w.val ELSE live[e][j]
    BY <1>2, ApplyIs
  <2>. QED  BY <2>1, <2>2 DEF Hits
<1>4. \A x, y \in Pending(todo) : Hits(x, i) /\ Hits(y, i) => x.val = y.val
  BY DEF Phases, UserWrites, Hits
<1>5. \A x : Hits(x, i)' <=> Hits(x, i)
  BY Zenon, <1>1 DEF Hits, Home
<1>6. Will(i, v)' <=> \/ \E x \in Pending(todo') : Hits(x, i) /\ x.val = v
                      \/ live'[Home(i)][i] = v /\ \A x \in Pending(todo') : ~Hits(x, i)
  BY <1>1, <1>5 DEF Will, Home
<1>7. CASE Hits(w, i)
  <2>1. Will(i, v) <=> v = w.val
    BY <1>4, <1>7 DEF Will
  <2>2. Will(i, v)' <=> v = w.val
    BY <1>r, <1>2, <1>3, <1>4, <1>6, <1>7
  <2>. QED  BY <2>1, <2>2
<1>8. CASE ~Hits(w, i)
  BY Zenon, <1>r, <1>2, <1>3, <1>6, <1>8 DEF Will
<1>. QED  BY <1>7, <1>8

\* What each statement has to write when it begins
LEMMA PendingThen ==
  /\ CreateTable =>
       Pending(todo') = {Put(UserTable, tables'), Put(TablesRow, tables'), Put(Mirror, tables')}
  /\ \A r \in UserRows : WriteRow(r) =>
       \E v \in {Value(UserTable), None} : Pending(todo') = {Put(Row(r), v)}
  /\ TruncateTable => Pending(todo') = Tombstones
  /\ DropTable => Pending(todo') = {Put(UserTable, None), Removal, Put(Mirror, None)} \cup Tombstones
<1>1. ASSUME NEW S, NEW T PROVE Pending(<<S>>) = S /\ Pending(<<S, T>>) = S \cup T
  <2>1. S \in {S, T} /\ T \in {S, T}
    OBVIOUS
  <2>. QED  BY Zenon, <2>1, PendingOfStages
<1>2. ASSUME CreateTable
      PROVE  Pending(todo') = {Put(UserTable, tables'), Put(TablesRow, tables'), Put(Mirror, tables')}
  <2>1. todo' = <<{Put(UserTable, tables')}, {Put(TablesRow, tables')}, {Put(Mirror, tables')}>>
    BY <1>2 DEF CreateTable, Begin
  <2>2. Pending(<<{Put(UserTable, tables')}, {Put(TablesRow, tables')}, {Put(Mirror, tables')}>>)
          = {Put(UserTable, tables')} \cup {Put(TablesRow, tables')} \cup {Put(Mirror, tables')}
    BY PendingOfThree
  <2>. QED  BY <2>1, <2>2
<1>3. ASSUME NEW r \in UserRows, WriteRow(r)
      PROVE  \E v \in {Value(UserTable), None} : Pending(todo') = {Put(Row(r), v)}
  <2>1. PICK v \in {Value(UserTable), None} : todo' = <<{Put(Row(r), v)}>>
    BY <1>3 DEF WriteRow, Begin
  <2>. QED  BY Zenon, <1>1, <2>1
<1>4. ASSUME TruncateTable PROVE Pending(todo') = Tombstones
  BY ZenonT(30), <1>1, <1>4 DEF TruncateTable, Begin
<1>5. ASSUME DropTable
      PROVE  Pending(todo') = {Put(UserTable, None), Removal, Put(Mirror, None)} \cup Tombstones
  <2>1. todo' = <<{Put(UserTable, None)}, Tombstones \cup {Removal, Put(Mirror, None)}>>
    BY <1>5 DEF DropTable, Begin
  <2>2. Pending(todo') = {Put(UserTable, None)} \cup (Tombstones \cup {Removal, Put(Mirror, None)})
    BY Zenon, <1>1, <2>1
  <2>. QED  BY <2>2
<1>. QED  BY <1>2, <1>3, <1>4, <1>5

\* A put hits its item only; of the tombstones one hits each row, and none
\* hits the definition or the mirror
LEMMA HitsAre ==
  ASSUME Types, Phases, pc = "serving"
  PROVE  /\ \A i, j \in Items : \A v : Hits(Put(i, v), j) <=> i = j
         /\ \A w \in Tombstones :
              ~Hits(w, UserTable) /\ ~Hits(w, Mirror) /\ ~Hits(w, TablesRow) /\ w.val = None
         /\ \A i \in DataRows : \E w \in Tombstones : Hits(w, i)
<1>1. ASSUME NEW i \in Items, NEW j \in Items, NEW v PROVE Hits(Put(i, v), j) <=> i = j
  BY PutIs, HomeIs DEF Hits
<1>2. \A w \in Tombstones :
        ~Hits(w, UserTable) /\ ~Hits(w, Mirror) /\ ~Hits(w, TablesRow) /\ w.val = None
  BY TombstoneIs, ItemsApart DEF Hits
<1>3. ASSUME NEW i \in DataRows PROVE \E w \in Tombstones : Hits(w, i)
  <2>1. i \in Items /\ shards \in Int /\ shards <= MaxShards /\ shards >= 1
    <3>1. shards \in 1 .. MaxShards /\ MaxShards \in Nat \ {0}
      BY Zenon, RecoveryConstants DEF Types, TypeOK
    <3>2. i \in Items
      BY Zenon, ItemsApart
    <3>. QED  BY <3>1, <3>2
  <2>2. Home(i) \in 0 .. shards - 1
    BY <2>1, EngineOfIsOpen, HomeIs
  <2>. DEFINE w == [engine |-> Home(i), items |-> DataRows, val |-> None]
  <2>3. w \in Tombstones
    BY <2>2 DEF Tombstones
  <2>4. Hits(w, i)
    BY DEF Hits
  <2>. QED  BY <2>3, <2>4
<1>. QED  BY <1>1, <1>2, <1>3

\* Every statement leaves the definition, the mirror and the rows in
\* agreement, once it is through
LEMMA StatementsAgree ==
  ASSUME Types, Phases, Agree,
         CreateTable \/ (\E r \in UserRows : WriteRow(r)) \/ TruncateTable \/ DropTable
  PROVE  Agree'
<1>0. PICK stages \in Seq(SUBSET Writes) : Idle /\ Begin(stages)
  BY StatementBegins
<1>1. pc = "serving" /\ todo = <<>> /\ UNCHANGED <<marker, live, hurt>>
  BY <1>0, BeginIs DEF Idle
<1>. DEFINE Now(i) == live[Home(i)][i]
<1>2. \A i, v : Will(i, v)' <=> \/ \E w \in Pending(todo') : Hits(w, i) /\ w.val = v
                                \/ Now(i) = v /\ \A w \in Pending(todo') : ~Hits(w, i)
  BY <1>1 DEF Will, Hits, Home
<1>. SUFFICES ASSUME hurt \cap {"memtable", "statement", "marker"} = {}, NEW v \in Vals
              PROVE  /\ Will(Mirror, v)' <=> Will(UserTable, v)'
                     /\ \A i \in DataRows : Will(i, v)' /\ v # None => Will(UserTable, v)'
  BY <1>1 DEF Agree
<1>3. /\ Now(Mirror) = v <=> Now(UserTable) = v
      /\ \A i \in DataRows : Now(i) = v /\ v # None => Now(UserTable) = v
  BY <1>1, WillBeIdle DEF Agree
<1>4. Value(UserTable) = Now(UserTable)
  BY <1>1, ItemsApart, HomeIs DEF Value
<1>put. ASSUME NEW x
      PROVE  /\ Hits(Put(UserTable, x), UserTable) /\ ~Hits(Put(UserTable, x), Mirror)
             /\ Hits(Put(Mirror, x), Mirror) /\ ~Hits(Put(Mirror, x), UserTable)
             /\ ~Hits(Put(TablesRow, x), UserTable) /\ ~Hits(Put(TablesRow, x), Mirror)
             /\ Put(UserTable, x).val = x /\ Put(Mirror, x).val = x
  BY <1>1, ItemsApart, HitsAre, PutIs
<1>row. ASSUME NEW x, NEW i \in DataRows
      PROVE  ~Hits(Put(UserTable, x), i) /\ ~Hits(Put(Mirror, x), i) /\ ~Hits(Put(TablesRow, x), i)
  BY <1>1, ItemsApart, HitsAre
<1>hit. /\ \A w \in Tombstones : ~Hits(w, UserTable) /\ ~Hits(w, Mirror) /\ w.val = None
       /\ \A i \in DataRows : \E w \in Tombstones : Hits(w, i)
  BY Zenon, <1>1, HitsAre
<1>. HIDE DEF Now
<1>5. CASE CreateTable
  <2>1. /\ Pending(todo') = {Put(UserTable, tables'), Put(TablesRow, tables'), Put(Mirror, tables')}
        /\ Now(UserTable) = None
    BY ZenonT(30), <1>4, <1>5, PendingThen DEF CreateTable, Found
  <2>2. /\ Will(UserTable, v)' <=> v = tables'
        /\ Will(Mirror, v)' <=> v = tables'
    BY <1>2, <1>put, <2>1
  <2>3. ASSUME NEW i \in DataRows, Will(i, v)' PROVE v # None => Now(UserTable) = v
    <3>1. \A w \in Pending(todo') : ~Hits(w, i)
      BY Zenon, <1>row, <2>1
    <3>. QED  BY Zenon, <1>2, <1>3, <2>3, <3>1
  <2>4. \A i \in DataRows : Will(i, v)' => v = None
    BY Zenon, <2>1, <2>3
  <2>. QED  BY ZenonT(30), <2>2, <2>3, <2>4
<1>6. ASSUME NEW r \in UserRows, WriteRow(r)
      PROVE  /\ Will(Mirror, v)' <=> Will(UserTable, v)'
             /\ \A i \in DataRows : Will(i, v)' /\ v # None => Will(UserTable, v)'
  <2>1. PICK x \in {Now(UserTable), None} : Pending(todo') = {Put(Row(r), x)}
    BY Zenon, <1>4, <1>6, PendingThen
  <2>2. Row(r) \in DataRows
    BY Zenon, <1>6 DEF DataRows
  <2>3. /\ ~Hits(Put(Row(r), x), UserTable) /\ ~Hits(Put(Row(r), x), Mirror)
        /\ Put(Row(r), x).val = x
    BY <1>1, <2>2, ItemsApart, HitsAre, PutIs
  <2>4. (Will(UserTable, v)' <=> Now(UserTable) = v) /\ (Will(Mirror, v)' <=> Now(Mirror) = v)
    BY Zenon, <1>2, <2>1, <2>3
  <2>5. \A i \in DataRows : Will(i, v)' => v = x \/ v = Now(i)
    BY Zenon, <1>2, <2>1, <2>3
  <2>6. x = None \/ x = Now(UserTable)
    BY Zenon, <2>1
  <2>7. ASSUME NEW i \in DataRows, Will(i, v)', v # None PROVE Will(UserTable, v)'
    BY <1>3, <2>4, <2>5, <2>6, <2>7
  <2>8. Will(Mirror, v)' <=> Will(UserTable, v)'
    BY Zenon, <1>3, <2>4
  <2>. QED  BY Zenon, <2>7, <2>8
<1>7. CASE TruncateTable
  <2>1. Pending(todo') = Tombstones
    BY ZenonT(30), <1>7, PendingThen
  <2>2. (Will(UserTable, v)' <=> Now(UserTable) = v) /\ (Will(Mirror, v)' <=> Now(Mirror) = v)
    BY ZenonT(30), <1>2, <1>hit, <2>1
  <2>3. \A i \in DataRows : Will(i, v)' => v = None
    BY <1>2, <1>hit, <2>1
  <2>. QED  BY ZenonT(30), <1>3, <2>2, <2>3
<1>8. CASE DropTable
  <2>1. Pending(todo') = {Put(UserTable, None), Put(TablesRow, None), Put(Mirror, None)} \cup Tombstones
    BY ZenonT(30), <1>8, PendingThen DEF Removal
  <2>2. (Will(UserTable, v)' <=> v = None) /\ (Will(Mirror, v)' <=> v = None)
    BY <1>2, <1>hit, <1>put, <2>1
  <2>3. \A i \in DataRows : Will(i, v)' => v = None
    BY <1>2, <1>hit, <1>row, <2>1
  <2>. QED  BY Zenon, <2>2, <2>3
<1>. QED  BY Zenon, <1>5, <1>6, <1>7, <1>8

\* Every statement leaves the definition and its row of system_schema.tables
\* in agreement, once it and the removal are through
LEMMA StatementsList ==
  ASSUME Types, Phases, Listed,
         CreateTable \/ (\E r \in UserRows : WriteRow(r)) \/ TruncateTable \/ DropTable
  PROVE  Listed'
<1>0. PICK stages \in Seq(SUBSET Writes) : Idle /\ Begin(stages)
  BY StatementBegins
<1>1. pc = "serving" /\ todo = <<>> /\ UNCHANGED <<marker, live, queued, hurt>>
  BY <1>0, BeginIs DEF Idle
<1>2. \A i : \A w : Hits(w, i)' <=> Hits(w, i)
  BY Zenon, <1>1 DEF Hits, Home
<1>put. ASSUME NEW x
        PROVE  /\ Hits(Put(UserTable, x), UserTable) /\ ~Hits(Put(UserTable, x), TablesRow)
               /\ Hits(Put(TablesRow, x), TablesRow) /\ ~Hits(Put(TablesRow, x), UserTable)
               /\ ~Hits(Put(Mirror, x), TablesRow) /\ ~Hits(Put(Mirror, x), UserTable)
               /\ Put(UserTable, x).val = x /\ Put(TablesRow, x).val = x
  BY <1>1, ItemsApart, HitsAre, PutIs
<1>hit. \A w \in Tombstones : ~Hits(w, UserTable) /\ ~Hits(w, TablesRow) /\ w.val = None
  BY Zenon, <1>1, HitsAre
<1>3. ASSUME NEW n, Put(UserTable, n) \in Pending(todo'), Put(TablesRow, n) \in Pending(todo'),
             \A w \in Pending(todo') :
               \/ w = Put(UserTable, n) \/ w = Put(TablesRow, n) \/ w = Put(Mirror, n)
               \/ w \in Tombstones
      PROVE  Listed'
  <2>1. \A v : Will(UserTable, v)' <=> v = n
    <3>1. \A w \in Pending(todo') : Hits(w, UserTable) => w.val = n
      BY Zenon, <1>3, <1>put, <1>hit
    <3>2. \E w \in Pending(todo') : Hits(w, UserTable) /\ w.val = n
      BY Zenon, <1>3, <1>put
    <3>. QED  BY Zenon, <1>2, <3>1, <3>2 DEF Will
  <2>2. \A v : WillList(v)' <=> v = n
    BY <1>2, <1>3, <1>put, <1>hit DEF WillList
  <2>. QED  BY Zenon, <2>1, <2>2 DEF Listed
<1>4. ASSUME \A w \in Pending(todo') : ~Hits(w, UserTable) /\ ~Hits(w, TablesRow)
      PROVE  Listed'
  <2>1. \A v : Will(UserTable, v)' <=> Will(UserTable, v)
    BY <1>1, <1>2, <1>4, NonePending DEF Will, Home
  <2>2. \A v : WillList(v)' <=> WillList(v)
    BY <1>1, <1>2, <1>4, NonePending DEF WillList, Home
  <2>. QED  BY Zenon, <1>1, <2>1, <2>2 DEF Listed
<1>5. CASE CreateTable
  <2>1. Pending(todo') = {Put(UserTable, tables'), Put(TablesRow, tables'), Put(Mirror, tables')}
    BY Zenon, <1>5, PendingThen
  <2>. QED  BY Zenon, <1>3, <2>1
<1>6. ASSUME NEW r \in UserRows, WriteRow(r) PROVE Listed'
  <2>1. PICK x : Pending(todo') = {Put(Row(r), x)}
    BY Zenon, <1>6, PendingThen
  <2>2. Row(r) \in DataRows
    BY Zenon, <1>6 DEF DataRows
  <2>3. ~Hits(Put(Row(r), x), UserTable) /\ ~Hits(Put(Row(r), x), TablesRow)
    BY <1>1, <2>2, ItemsApart, HitsAre
  <2>. QED  BY Zenon, <1>4, <2>1, <2>3
<1>7. CASE TruncateTable
  <2>1. Pending(todo') = Tombstones
    BY ZenonT(30), <1>7, PendingThen
  <2>. QED  BY Zenon, <1>4, <1>hit, <2>1
<1>8. CASE DropTable
  <2>1. Pending(todo') = {Put(UserTable, None), Put(TablesRow, None), Put(Mirror, None)} \cup Tombstones
    BY ZenonT(30), <1>8, PendingThen DEF Removal
  <2>. QED  BY Zenon, <1>3, <2>1
<1>. QED  BY Zenon, <1>5, <1>6, <1>7, <1>8

\* While no removal is queued, the row will have what it has
LEMMA WillListIs ==
  ASSUME ~queued, NEW v
  PROVE  WillList(v) <=> Will(TablesRow, v)
  BY DEF WillList, Will

\* A statement writes the row, or leaves its removal to the pipeline
LEMMA WillListStays ==
  ASSUME Types, Phases, StatementWrites, "removal" \notin hurt', NEW v
  PROVE  WillList(v)' <=> WillList(v)
<1>. DEFINE i == TablesRow
<1>1. UNCHANGED marker
  BY DEF StatementWrites, serverSide, files
<1>2. PICK w \in Pending(todo) :
        /\ w \in Writes /\ Apply(w)
        /\ Pending(todo') \subseteq Pending(todo)
        /\ \/ queued' = queued /\ Pending(todo) \subseteq Pending(todo') \cup {w}
           \/ /\ queued' = TRUE /\ todo' = <<>> /\ Removal \in Pending(todo)
              /\ Pending(todo) \subseteq {w, Removal}
        /\ hurt' = IF queued /\ TablesRow \in w.items /\ w.val # None
                   THEN hurt \cup {"removal"} ELSE hurt
  BY Zenon, StatementStep
<1>3. live'[Home(i)][i] = IF Hits(w, i) THEN w.val ELSE live[Home(i)][i]
  <2>1. Home(i) \in Dirs /\ i \in Items
    BY Zenon, HomeIs, ItemsApart
  <2>2. \A e \in Dirs, j \in Items :
          live'[e][j] = IF e = w.engine /\ j \in w.items THEN w.val ELSE live[e][j]
    BY <1>2, ApplyIs
  <2>. QED  BY <2>1, <2>2 DEF Hits
<1>4. \A x, y \in Pending(todo) : Hits(x, i) /\ Hits(y, i) => x.val = y.val
  BY ItemsApart DEF Phases, UserWrites, Hits
<1>5. \A x : Hits(x, i)' <=> Hits(x, i)
  BY Zenon, <1>1 DEF Hits, Home
<1>6. WillList(v)' <=> \/ \E x \in Pending(todo') : Hits(x, i) /\ x.val = v
                       \/ /\ \A x \in Pending(todo') : ~Hits(x, i)
                          /\ v = IF queued' THEN None ELSE live'[Home(i)][i]
  BY <1>1, <1>5 DEF WillList, Home
<1>7. Hits(w, i) /\ queued => w.val = None
  BY <1>2 DEF Hits
<1>8. CASE queued' = queued /\ Pending(todo) \subseteq Pending(todo') \cup {w}
  <2>1. CASE Hits(w, i)
    <3>1. WillList(v) <=> v = w.val
      BY <1>4, <2>1 DEF WillList
    <3>2. WillList(v)' <=> v = w.val
      BY <1>2, <1>3, <1>4, <1>6, <1>7, <1>8, <2>1
    <3>. QED  BY <3>1, <3>2
  <2>2. CASE ~Hits(w, i)
    BY Zenon, <1>2, <1>3, <1>6, <1>8, <2>2 DEF WillList
  <2>. QED  BY <2>1, <2>2
<1>9. CASE queued' = TRUE /\ todo' = <<>> /\ Removal \in Pending(todo)
  <2>1. Hits(Removal, i) /\ Removal.val = None
    <3>1. pc = "serving" /\ i \in Items
      BY ItemsApart DEF StatementWrites
    <3>. QED  BY <3>1, RemovalIs, HomeIs DEF Hits
  <2>2. WillList(v) <=> v = None
    BY <1>4, <1>9, <2>1 DEF WillList
  <2>3. WillList(v)' <=> v = None
    BY <1>6, <1>9, NonePending
  <2>. QED  BY <2>2, <2>3
<1>. QED  BY Zenon, <1>2, <1>8, <1>9

\* The agreement survives every step
LEMMA AgreeStep == Placed /\ Agree /\ Listed /\ [Next]_vars => Agree' /\ Listed'
<1>. SUFFICES ASSUME Types, Phases, Routed, Agree, Listed, [Next]_vars PROVE Agree' /\ Listed'
  BY DEF Placed
<1>0. UserTable \in Items /\ Mirror \in Items /\ DataRows \subseteq Items
  BY ItemsApart
<1>1. ASSUME UNCHANGED hurt, hurt \cap {"memtable", "statement", "marker"} = {} =>
               \A i \in Items \ SeedItems : \A v \in Vals : Will(i, v)' <=> Will(i, v),
             ~queued, ~queued'
      PROVE  Agree' /\ Listed'
  <2>1. Agree'
    BY Zenon, <1>1, ItemsApart DEF Agree
  <2>2. \A v \in Vals : (WillList(v) <=> Will(TablesRow, v)) /\ (WillList(v)' <=> Will(TablesRow, v)')
    BY <1>1 DEF WillList, Will
  <2>3. hurt \cap {"memtable", "statement", "marker", "removal"} = {} =>
          hurt \cap {"memtable", "statement", "marker"} = {}
    OBVIOUS
  <2>4. Listed'
    BY Zenon, <1>1, <2>2, <2>3, ItemsApart DEF Listed
  <2>. QED  BY <2>1, <2>4
<1>2. ASSUME UNCHANGED <<marker, live, todo, queued, hurt>> PROVE Agree' /\ Listed'
  <2>1. \A i, v : Will(i, v)' <=> Will(i, v)
    BY Zenon, <1>2 DEF Will, Hits, Home
  <2>2. \A v : WillList(v)' <=> WillList(v)
    BY Zenon, <1>2 DEF WillList, Hits, Home
  <2>. QED  BY Zenon, <1>2, <2>1, <2>2 DEF Agree, Listed
<1>3. CASE (\E v \in EnvShards : Open(v)) \/ (\E e \in Dirs : FlushMemtable(e)) \/ WriteBack
           \/ Close \/ UNCHANGED vars
  <2>1. UNCHANGED <<marker, live, todo, queued, hurt>>
    BY <1>3 DEF Open, FlushMemtable, WriteBack, Close, vars, serverSide, files, engines,
                statement, history
  <2>. QED  BY Zenon, <1>2, <2>1
<1>4. CASE SeedKeyspace
  BY Zenon, <1>2, <1>4, SeedKeyspaceIs
<1>5. CASE CreateMarker
  <2>1. /\ marker = Absent /\ marker' = Unreadable /\ UNCHANGED <<live, todo, hurt>>
        /\ ~queued /\ ~queued'
    BY Zenon, <1>5 DEF CreateMarker, Phases, engines, statement, history
  <2>2. \A i \in Items : EngineOf(i, marker') = EngineOf(i, marker)
    BY Zenon, <2>1, HomeIs
  <2>3. \A i \in Items : \A v : Will(i, v)' <=> Will(i, v)
    BY Zenon, <2>1, <2>2 DEF Will, Hits, Home
  <2>. QED  BY Zenon, <1>1, <2>1, <2>3
<1>6. CASE FillMarker
  <2>1. /\ pc = "fill" /\ todo = <<>> /\ marker' = shards /\ UNCHANGED <<live, todo, hurt>>
        /\ ~queued /\ ~queued'
    BY <1>6 DEF FillMarker, Phases, engines, statement, history
  <2>2. ASSUME "marker" \notin hurt, NEW i \in Items, NEW v PROVE Will(i, v)' <=> Will(i, v)
    <3>1. EngineOf(i, shards) \in Dirs /\ Home(i) \in Dirs
      <4>1. shards \in 1 .. MaxShards
        BY Zenon DEF Types, TypeOK
      <4>2. shards \in Int /\ shards <= MaxShards
        BY <4>1, RecoveryConstants
      <4>. QED  BY Zenon, <4>2, HomeIs, EngineOfIsOpen
    <3>2. live[EngineOf(i, shards)][i] = live[Home(i)][i]
      BY <2>1, <2>2, <3>1 DEF Routed
    <3>3. Will(i, v) <=> live[Home(i)][i] = v
      BY <2>1, WillBeIdle
    <3>4. Will(i, v)' <=> live[EngineOf(i, shards)][i] = v
      BY <2>1, NonePending DEF Will, Home
    <3>. QED  BY Zenon, <3>2, <3>3, <3>4
  <2>. QED  BY <1>1, <2>1, <2>2
<1>7. CASE SeedNext
  <2>1. PICK h \in SeedItems :
          /\ \A e \in Dirs, i \in Items : e # Home(h) \/ i # h => live'[e][i] = live[e][i]
          /\ UNCHANGED <<marker, todo, hurt>> /\ ~queued /\ ~queued'
    <3>1. PICK h \in SeedItems :
            /\ \A e \in Dirs, i \in Items : e # Home(h) \/ i # h => live'[e][i] = live[e][i]
            /\ UNCHANGED <<marker, todo, queued, hurt>> /\ pc = "seed"
      BY Zenon, <1>7, SeedNextIs
    <3>2. ~queued
      <4>1. pc # "serving"
        BY <3>1
      <4>. QED  BY Zenon, <4>1 DEF Phases
    <3>. QED  BY Zenon, <3>1, <3>2
  <2>2. \A i \in Items \ SeedItems : live'[Home(i)][i] = live[Home(i)][i]
    BY Zenon, <2>1, HomeIs
  <2>3. \A i \in Items \ SeedItems : \A v : Will(i, v)' <=> Will(i, v)
    BY Zenon, <2>1, <2>2 DEF Will, Hits, Home
  <2>. QED  BY Zenon, <1>1, <2>1, <2>3
<1>8. CASE CreateTable \/ (\E r \in UserRows : WriteRow(r)) \/ TruncateTable \/ DropTable
  BY Zenon, <1>8, StatementsAgree, StatementsList
<1>9. CASE StatementWrites
  <2>1. hurt' \in {hurt, hurt \cup {"removal"}}
    BY Zenon, <1>9, UserStep
  <2>2. (hurt \cap {"memtable", "statement", "marker"} = {})' =>
          hurt \cap {"memtable", "statement", "marker"} = {}
    BY <2>1
  <2>3. \A i \in Items : i # TablesRow => \A v \in Vals : Will(i, v)' <=> Will(i, v)
    BY Zenon, <1>9, WillStays
  <2>4. Agree'
    BY Zenon, <2>2, <2>3, ItemsApart DEF Agree
  <2>5. ASSUME (hurt \cap {"memtable", "statement", "marker", "removal"} = {})'
        PROVE  hurt \cap {"memtable", "statement", "marker", "removal"} = {} /\ "removal" \notin hurt'
    BY <2>1, <2>5
  <2>6. Listed'
    BY Zenon, <1>9, <2>3, <2>5, WillListStays, ItemsApart DEF Listed
  <2>. QED  BY <2>4, <2>6
<1>11. CASE CommitRemoval
  <2>1. /\ pc = "serving" /\ queued /\ ~queued' /\ Apply(Removal) /\ UNCHANGED <<marker, todo, hurt>>
    BY Zenon, <1>11 DEF CommitRemoval, serverSide, files, history
  <2>2. \A e \in Dirs, j \in Items :
          live'[e][j] = IF e = Home(TablesRow) /\ j = TablesRow THEN None ELSE live[e][j]
    <3>1. Removal \in Writes /\ Removal.engine = Home(TablesRow) /\ Removal.items = {TablesRow} /\ Removal.val = None
      BY <2>1, RemovalIs, HomeIs, ItemsApart
    <3>2. \A e \in Dirs, j \in Items :
            live'[e][j] = IF e = Removal.engine /\ j \in Removal.items THEN Removal.val ELSE live[e][j]
      BY Zenon, <2>1, <3>1, ApplyIs
    <3>. QED  BY Zenon, <3>1, <3>2
  <2>3. \A i \in Items : Home(i) \in Dirs
    BY Zenon, HomeIs
  <2>4. \A i \in Items : i # TablesRow => live'[Home(i)][i] = live[Home(i)][i]
    BY Zenon, <2>2, <2>3
  <2>5. \A i \in Items : i # TablesRow => \A v \in Vals : Will(i, v)' <=> Will(i, v)
    BY Zenon, <2>1, <2>4 DEF Will, Hits, Home
  <2>6. Agree'
    BY Zenon, <2>1, <2>5, ItemsApart DEF Agree
  <2>7. live'[Home(TablesRow)][TablesRow] = None
    BY <2>2, <2>3, ItemsApart
  <2>8. \A v : WillList(v)' <=> WillList(v)
    BY <2>1, <2>7 DEF WillList, Hits, Home
  <2>9. Listed'
    BY Zenon, <2>1, <2>5, <2>8, ItemsApart DEF Listed
  <2>. QED  BY <2>6, <2>9
<1>10. ASSUME NEW kind \in Crashes, Crash(kind) PROVE Agree' /\ Listed'
  <2>1. hurt' = hurt \cup (IF pc = "seed" THEN {"seed"} ELSE {})
                     \cup (IF todo # <<>> THEN {"statement"} ELSE {})
                     \cup (IF queued THEN {"removal"} ELSE {})
                     \cup (IF live # disk THEN {"memtable"} ELSE {})
                     \cup (IF marker' # marker THEN {"marker"} ELSE {})
    BY <1>10 DEF Crash
  <2>2. todo' = <<>> /\ live' = disk /\ ~queued'
    BY <1>10 DEF Crash
  <2>3. ASSUME hurt' \cap {"memtable", "statement", "marker"} = {}
        PROVE  /\ hurt \cap {"memtable", "statement", "marker"} = {}
               /\ UNCHANGED <<marker, live, todo>>
    <3>1. todo = <<>> /\ live = disk /\ marker' = marker
      BY <2>1, <2>3
    <3>2. hurt \cap {"memtable", "statement", "marker"} = {}
      BY <2>1, <2>3
    <3>. QED  BY <2>2, <3>1, <3>2
  <2>4. Agree'
    BY ZenonT(30), <2>3 DEF Agree, Will, Hits, Home
  <2>5. ASSUME hurt' \cap {"memtable", "statement", "marker", "removal"} = {}
        PROVE  hurt \cap {"memtable", "statement", "marker", "removal"} = {} /\ UNCHANGED queued
    <3>1. ~queued
      BY <2>1, <2>5
    <3>2. queued \in BOOLEAN /\ queued' \in BOOLEAN
      BY Zenon, TypesStep DEF Types, TypeOK
    <3>3. hurt \cap {"memtable", "statement", "marker", "removal"} = {}
      BY <2>1, <2>5
    <3>. QED  BY Zenon, <2>2, <3>1, <3>2, <3>3
  <2>6. ASSUME hurt' \cap {"memtable", "statement", "marker", "removal"} = {}
        PROVE  \A v \in Vals : WillList(v)' <=> Will(UserTable, v)'
    <3>1. /\ hurt \cap {"memtable", "statement", "marker", "removal"} = {}
          /\ UNCHANGED <<marker, live, todo, queued>>
      <4>1. hurt' \cap {"memtable", "statement", "marker"} = {}
        BY <2>6
      <4>. QED  BY Zenon, <2>3, <2>5, <2>6, <4>1
    <3>2. \A v : (WillList(v)' <=> WillList(v)) /\ (Will(UserTable, v)' <=> Will(UserTable, v))
      BY Zenon, <3>1 DEF WillList, Will, Hits, Home
    <3>. QED  BY Zenon, <3>1, <3>2 DEF Listed
  <2>. QED  BY Zenon, <2>4, <2>6 DEF Listed
<1>. QED
  BY Zenon, <1>3, <1>4, <1>5, <1>6, <1>7, <1>8, <1>9, <1>10, <1>11 DEF Next

\* At first there is no definition, no mirror and no row
LEMMA AgreeInit == Init => Agree /\ Listed
<1>. SUFFICES ASSUME Init PROVE Agree /\ Listed
  OBVIOUS
<1>1. \A i \in Items : Home(i) \in Dirs
  BY PlacedInit, HomeIs DEF Placed
<1>2. todo = <<>> /\ ~queued /\ \A i \in Items : live[Home(i)][i] = None
  BY <1>1 DEF Init
<1>3. \A v : \A i \in Items : Will(i, v) <=> v = None
  BY <1>2, WillBeIdle
<1>4. \A v : WillList(v) <=> v = None
  BY Zenon, <1>2, <1>3, WillListIs, ItemsApart
<1>. QED  BY Zenon, <1>3, <1>4, ItemsApart DEF Agree, Listed

\* While the server is idle, reads find what the agreement says
LEMMA ReadsAgree ==
  ASSUME Placed, Agree, Listed, Idle, hurt \cap {"memtable", "statement", "marker"} = {}
  PROVE  /\ Value(Mirror) = Value(UserTable)
         /\ ~queued /\ "removal" \notin hurt => Value(TablesRow) = Value(UserTable)
         /\ \A i \in DataRows : Found(i) => Value(i) = Value(UserTable)
<1>1. pc = "serving" /\ todo = <<>> /\ Types /\ Phases
  BY DEF Idle, Placed
<1>2. \A i \in Items : EngineOf(i, shards) = Home(i) /\ Home(i) \in Dirs
  BY <1>1, HomeIs
<1>3. \A i \in Items : Value(i) \in Vals /\ \A v : Will(i, v) <=> Value(i) = v
  BY <1>1, <1>2, WillBeIdle DEF Value, Types
<1>4. ASSUME ~queued, "removal" \notin hurt PROVE Value(TablesRow) = Value(UserTable)
  <2>1. hurt \cap {"memtable", "statement", "marker", "removal"} = {}
    BY <1>4
  <2>2. \A v \in Vals : Will(TablesRow, v) <=> Will(UserTable, v)
    BY Zenon, <1>4, <2>1, WillListIs DEF Listed
  <2>. QED  BY Zenon, <1>3, <2>2, ItemsApart
<1>. QED  BY <1>3, <1>4, ItemsApart DEF Agree, Found

\* A table shows only rows inserted into it, none of an earlier table of its
\* name: DROP TABLE has removed them on every engine, or a crash is to blame
THEOREM RowsAreOfThisTable == Spec => []RowsOfThisTable
<1>1. Placed /\ Agree /\ Listed => RowsOfThisTable
  BY ReadsAgree DEF RowsOfThisTable
<1>. QED  BY <1>1, PlacedInit, PlacedStep, AgreeInit, AgreeStep, PTL DEF Spec

\* A table is mirrored in system_schema exactly when it exists, with the
\* columns of its last CREATE TABLE, but for crashes; of its row of
\* system_schema.tables this holds once no removal of it is queued, but for
\* crashes that lose the removal and for a CREATE TABLE that overtakes it
THEOREM MirrorIsTheTable == Spec => []MirrorMatches
<1>1. Placed /\ Agree /\ Listed => MirrorMatches
  BY ReadsAgree DEF MirrorMatches
<1>. QED  BY <1>1, PlacedInit, PlacedStep, AgreeInit, AgreeStep, PTL DEF Spec

-----------------------------------------------------------------------------
\* A keyspace of the system is seeded, with its tables and rows, or being
\* seeded, or still to be seeded
SeedsWhole ==
  hurt \cap {"seed", "memtable", "marker"} = {} =>
    \A s \in 1 .. 3 :
      \/ \A i \in Range(Seeds[s]) : live[Home(i)][i] # None \/ i \in Range(seeding)
      \/ /\ live[0][Head(Seeds[s])] = None
         /\ pc # "serving" /\ (pc = "seed" => seed <= s)

\* No record belongs to the seeds of two keyspaces
LEMMA SeedsApart ==
  ASSUME NEW s \in 1 .. 3, NEW t \in 1 .. 3, s # t
  PROVE  Range(Seeds[s]) \cap Range(Seeds[t]) = {}
<1>1. /\ Range(SeedOfSystem) \cap Range(SeedOfSchema) = {}
      /\ Range(SeedOfSystem) \cap Range(SeedOfVirtual) = {}
      /\ Range(SeedOfSchema) \cap Range(SeedOfVirtual) = {}
  BY SeedFacts DEF Keyspace, Table, Row
<1>2. /\ Range(Seeds[1]) \cap Range(Seeds[2]) = {} /\ Range(Seeds[2]) \cap Range(Seeds[1]) = {}
      /\ Range(Seeds[1]) \cap Range(Seeds[3]) = {} /\ Range(Seeds[3]) \cap Range(Seeds[1]) = {}
      /\ Range(Seeds[2]) \cap Range(Seeds[3]) = {} /\ Range(Seeds[3]) \cap Range(Seeds[2]) = {}
  <2>1. \A S, T : S \cap T = T \cap S
    OBVIOUS
  <2>. QED  BY Zenon, <1>1, <2>1, SeedFacts
<1>3. (s = 1 \/ s = 2 \/ s = 3) /\ (t = 1 \/ t = 2 \/ t = 3)
  OBVIOUS
<1>. QED  BY Zenon, <1>2, <1>3

\* Until a crash interrupts it, the seeding of a keyspace is all or nothing
LEMMA SeedsWholeStep == Placed /\ SeedsWhole /\ [Next]_vars => SeedsWhole'
<1>. SUFFICES ASSUME Types, Phases, Routed, SeedsWhole, [Next]_vars,
                     (hurt \cap {"seed", "memtable", "marker"} = {})', NEW s \in 1 .. 3
              PROVE  \/ \A i \in Range(Seeds[s]) : live'[Home(i)'][i] # None \/ i \in Range(seeding')
                     \/ /\ live'[0][Head(Seeds[s])] = None
                        /\ pc' # "serving" /\ (pc' = "seed" => seed' <= s)
  BY Zenon DEF Placed, SeedsWhole
<1>. DEFINE h == Head(Seeds[s])
            Whole == \A i \in Range(Seeds[s]) : live[Home(i)][i] # None \/ i \in Range(seeding)
            Whole1 == \A i \in Range(Seeds[s]) : live'[Home(i)'][i] # None \/ i \in Range(seeding')
            ToCome == live[0][h] = None /\ pc # "serving" /\ (pc = "seed" => seed <= s)
            ToCome1 == live'[0][h] = None /\ pc' # "serving" /\ (pc' = "seed" => seed' <= s)
<1>0. /\ h \in Range(Seeds[s]) /\ h \in SeedItems /\ h \in Items /\ 0 \in Dirs
      /\ (\A n : EngineOf(h, n) = 0) /\ Range(Seeds[s]) \subseteq SeedItems
      /\ SeedItems \subseteq Items
  BY SeedHeads, ItemsApart, SeedFacts, SeedOfKeyspace
<1>1. hurt \subseteq hurt'
  <2>1. (\E kind \in Crashes : Crash(kind)) => hurt \subseteq hurt'
    BY Zenon DEF Crash
  <2>2. CreateTable \/ (\E r \in UserRows : WriteRow(r)) \/ TruncateTable \/ DropTable
          => hurt' = hurt
    BY StatementBegins, BeginIs
  <2>3. SeedKeyspace => hurt' = hurt
    BY SeedKeyspaceIs
  <2>4. StatementWrites \/ CommitRemoval => hurt \subseteq hurt'
    BY UserStep
  <2>. QED  BY Zenon, <2>1, <2>2, <2>3, <2>4
            DEF Next, Open, CreateMarker, FillMarker, SeedNext, FlushMemtable,
                WriteBack, Close, history, vars
<1>2. "marker" \notin hurt /\ (Whole \/ ToCome)
  BY <1>1 DEF SeedsWhole
<1>3. ASSUME UNCHANGED <<marker, live, seeding>>, (pc' = pc /\ seed' = seed) \/ pc' # "seed",
             pc' = "serving" => pc = "serving"
      PROVE  Whole1 \/ ToCome1
  BY <1>2, <1>3 DEF Home
<1>. SUFFICES Whole1 \/ ToCome1
  OBVIOUS
<1>. HIDE DEF h
<1>4. ASSUME NEW v \in EnvShards, Open(v) PROVE Whole1 \/ ToCome1
  <2>1. /\ pc = "down" /\ pc' # "serving" /\ seed' = 1 /\ 1 <= s
        /\ UNCHANGED <<marker, live, seeding>>
    BY <1>4 DEF Open, files, engines
  <2>. QED  BY <1>2, <2>1 DEF Home
<1>5. CASE CreateMarker
  <2>1. /\ marker = Absent /\ marker' = Unreadable /\ UNCHANGED <<live, seeding>>
        /\ pc' = "fill"
    BY <1>5 DEF CreateMarker, Phases, engines
  <2>2. \A i \in Items : Home(i)' = Home(i)
    BY <2>1, HomeIs DEF Home
  <2>. QED  BY Zenon, <1>0, <1>2, <2>1, <2>2
<1>6. CASE FillMarker
  <2>1. pc = "fill" /\ pc' = "seed" /\ seed' = 1 /\ UNCHANGED live
    BY Zenon, <1>6 DEF FillMarker, Phases, engines
  <2>2. live[0][h] = None /\ 1 <= s
    <3>1. live[0][h] = None
      BY Zenon, <1>0, <1>2, <2>1 DEF Routed
    <3>. QED  BY <3>1
  <2>. QED  BY <2>1, <2>2
<1>7. CASE SeedKeyspace
  <2>1. pc = "seed" /\ seeding = <<>> /\ UNCHANGED <<marker, live>>
    BY Zenon, <1>7, SeedKeyspaceIs
  <2>2. Whole => Whole1
    BY <2>1, NonePending DEF Home
  <2>3. CASE ToCome
    <3>1. /\ seed \in 1 .. 3 /\ pc' = "seed" /\ seed' = seed + 1 /\ seed <= s
          /\ Found(Head(Seeds[seed])) \/ seeding' = Seeds[seed]
      <4>1. seed <= s
        BY <2>1, <2>3
      <4>. QED  BY <1>7, <4>1, SeedKeyspaceIs
    <3>2. ~Found(h)
      BY <1>0, <2>3 DEF Found, Value
    <3>3. CASE s = seed
      BY <3>1, <3>2, <3>3 DEF h
    <3>4. CASE s # seed
      BY <2>1, <2>3, <3>1, <3>4
    <3>. QED  BY <3>3, <3>4
  <2>. QED  BY <1>2, <2>2, <2>3
<1>8. CASE SeedNext
  <2>1. PICK g \in SeedItems :
          /\ Range(seeding) = {g} \cup Range(seeding') /\ seeding # <<>>
          /\ live'[Home(g)][g] = 0
          /\ \A e \in Dirs, i \in Items : e # Home(g) \/ i # g => live'[e][i] = live[e][i]
          /\ pc = "seed" /\ UNCHANGED <<pc, marker, seed>>
    BY Zenon, <1>8, SeedNextIs
  <2>2. \A i \in Items : Home(i)' = Home(i) /\ Home(i) \in Dirs
    BY Zenon, <2>1, HomeIs DEF Home
  <2>3. Whole => Whole1
    <3>1. SUFFICES ASSUME Whole, NEW i \in Range(Seeds[s]) PROVE live'[Home(i)'][i] # None \/ i \in Range(seeding')
      OBVIOUS
    <3>2. i \in Items /\ Home(i)' = Home(i) /\ Home(i) \in Dirs
      BY Zenon, <1>0, <2>2
    <3>3. CASE i = g
      <4>1. live'[Home(i)][i] = 0
        BY Zenon, <2>1, <3>3
      <4>. QED  BY <3>2, <4>1 DEF None
    <3>4. CASE i # g
      BY Zenon, <2>1, <3>1, <3>2, <3>4
    <3>. QED  BY Zenon, <3>3, <3>4
  <2>4. CASE ToCome
    <3>1. seed \in 2 .. 4 /\ g \in Range(Seeds[seed - 1]) /\ seed <= s
      BY <2>1, <2>4 DEF Phases
    <3>2. g # h
      <4>1. seed - 1 \in 1 .. 3 /\ seed - 1 # s
        BY <3>1
      <4>. QED  BY <1>0, <3>1, <4>1, SeedsApart
    <3>. QED  BY Zenon, <1>0, <2>1, <2>4, <3>2
  <2>. QED  BY Zenon, <1>2, <2>3, <2>4
<1>9. CASE CreateTable \/ (\E r \in UserRows : WriteRow(r)) \/ TruncateTable \/ DropTable
  <2>1. UNCHANGED <<pc, marker, seed, live, seeding>>
    BY ZenonT(30), <1>9, StatementBegins, BeginIs
  <2>. QED  BY <1>3, <2>1
<1>10. CASE StatementWrites \/ CommitRemoval
  <2>1. pc = "serving" /\ UNCHANGED <<pc, marker, seeding>>
    BY Zenon, <1>10, UserStep
  <2>2. \A i \in SeedItems : Home(i)' = Home(i) /\ Home(i) \in Dirs
    BY Zenon, <1>0, <2>1, HomeIs DEF Home
  <2>3. \A i \in SeedItems : live'[Home(i)][i] = live[Home(i)][i]
    BY Zenon, <1>10, <2>2, SeedsUntouched
  <2>. QED  BY <1>0, <1>2, <2>1, <2>2, <2>3
<1>11. CASE (\E e \in Dirs : FlushMemtable(e)) \/ WriteBack \/ UNCHANGED vars
  <2>1. UNCHANGED <<pc, marker, seed, live, seeding>>
    BY <1>11 DEF FlushMemtable, WriteBack, vars, serverSide, files, engines
  <2>. QED  BY <1>3, <2>1
<1>12. CASE Close
  <2>1. pc' = "down" /\ UNCHANGED <<marker, live, seeding>>
    BY Zenon, <1>12 DEF Close, files
  <2>. QED  BY <1>3, <2>1
<1>13. ASSUME NEW kind \in Crashes, Crash(kind) PROVE Whole1 \/ ToCome1
  <2>1. hurt' = hurt \cup (IF pc = "seed" THEN {"seed"} ELSE {})
                     \cup (IF todo # <<>> THEN {"statement"} ELSE {})
                     \cup (IF queued THEN {"removal"} ELSE {})
                     \cup (IF live # disk THEN {"memtable"} ELSE {})
                     \cup (IF marker' # marker THEN {"marker"} ELSE {})
    BY <1>13 DEF Crash
  <2>2. pc # "seed" /\ live = disk /\ marker' = marker
    BY Zenon, <2>1
  <2>3. pc' = "down" /\ live' = disk /\ seeding' = <<>> /\ seeding = <<>>
    BY <1>13, <2>2 DEF Crash, Phases
  <2>. QED  BY Zenon, <1>3, <2>2, <2>3
<1>. QED
  BY ZenonT(30), <1>4, <1>5, <1>6, <1>7, <1>8, <1>9, <1>10, <1>11, <1>12, <1>13 DEF Next

\* When the server serves, seed_system has written every system table and the
\* row of system.local that drivers probe, but for crashes that interrupt it
THEOREM SystemIsSeeded == Spec => []SystemSeeded
<1>1. Init => SeedsWhole
  <2>. SUFFICES ASSUME Init, NEW s \in 1 .. 3
                PROVE  pc = "down" /\ live[0][Head(Seeds[s])] = None
    BY DEF SeedsWhole
  <2>1. Head(Seeds[s]) \in Items /\ 0 \in Dirs
    BY SeedHeads, ItemsApart
  <2>. QED  BY <2>1 DEF Init
<1>2. Placed /\ SeedsWhole => SystemSeeded
  <2>. SUFFICES ASSUME Placed, SeedsWhole, pc = "serving",
                       hurt \cap {"seed", "memtable", "marker"} = {}, NEW i \in SeedItems
                PROVE  Found(i)
    BY DEF SystemSeeded
  <2>1. i \in Items /\ EngineOf(i, shards) = Home(i) /\ seeding = <<>>
    BY Zenon, ItemsApart, HomeIs DEF Placed, Phases
  <2>2. PICK s \in 1 .. 3 : i \in Range(Seeds[s])
    BY SeedFacts DEF SeedItems
  <2>3. live[Home(i)][i] # None
    BY <2>1, <2>2, NonePending DEF SeedsWhole
  <2>. QED  BY <2>1, <2>3 DEF Found, Value
<1>. QED  BY <1>1, <1>2, PlacedInit, PlacedStep, SeedsWholeStep, PTL DEF Spec
=============================================================================
