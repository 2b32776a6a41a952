-------------------------- MODULE SelectScanProofs --------------------------
(***************************************************************************)
(* Proofs about SelectScan, for any key columns, tables, engines, WHERE    *)
(* clauses, limits and page sizes: what a SELECT returns and in which      *)
(* order.                                                                  *)
(***************************************************************************)
EXTENDS SelectScan, TLAPS

-----------------------------------------------------------------------------
\* What the loops go through, and what the iterator of one round gives
Rounds == IF IsPartitions THEN Partitions ELSE 0 .. Engines - 1
Slice(u) == IF IsPartitions THEN InPartition(u) ELSE OnEngine(u)

\* Two rows of one partition
Together(r, s) == \A n \in DOMAIN PartitionKeys : KeyOf(r)[n] = KeyOf(s)[n]

\* The statement and the table stay what they are; what was returned is of the
\* table, and what an open iterator has ahead too
Types ==
  /\ rows \in Tables /\ query \in [where : Wheres, limit : Limits, pageSize : PageSizes]
  /\ pc \in {"plan", "next", "scan", "reply", "done"}
  /\ out \in Seq(rows) /\ got \in Seq(rows) /\ ahead \subseteq rows
  /\ pc \in {"next", "scan"} => todo \subseteq Rounds /\ ~IsPoint
  /\ pc \in {"plan", "next"} => ahead = {}

\* A scan goes on while its page has room.  So the callback records a key only
\* when no row fits on a page at all, and only then are there further pages
Pages ==
  /\ pc # "done" => got = <<>>
  /\ pc \in {"plan", "done"} => out = <<>>
  /\ pc # "reply" => last = None
  /\ pc \in {"next", "scan"} => Len(out) < PageLimit \/ (PageLimit = 0 /\ out = <<>>)
  /\ pc = "reply" /\ ~IsPoint => Len(out) <= PageLimit
  /\ resume # None => query.pageSize # None /\ PageLimit = 0
  /\ last # None => out = <<>> /\ PageLimit = 0

\* What is returned was checked
Checked ==
  /\ \A i \in DOMAIN out : Matches(out[i])
  /\ \A i \in DOMAIN got : Matches(got[i])

\* The rows of a partition are returned in order
Ordered(s) == \A i, j \in DOMAIN s : i < j /\ Together(s[i], s[j]) => KeyLess(KeyOf(s[i]), KeyOf(s[j]))

\* They are of one round, and the iterator has those ahead that come later
InOrder ==
  NamesTwice \/
    /\ Ordered(out) /\ Ordered(got)
    /\ \A i \in DOMAIN out, r \in ahead :
         pc = "scan" /\ Together(out[i], r) => KeyLess(KeyOf(out[i]), KeyOf(r))
    /\ pc \in {"next", "scan"} => \A u \in todo : \A s \in Slice(u) :
         /\ \A i \in DOMAIN out : ~Together(out[i], s)
         /\ \A r \in ahead : ~Together(r, s)

\* All rows that match, or as many as LIMIT or else the hard cap allows
Allowed == IF query.limit = None THEN HardCap ELSE query.limit
Answer(s) == Range(s) = Matching \/ (~IsPoint /\ Len(s) = Allowed)

\* A row that matches was returned or is still to come
Complete ==
  query.pageSize = None =>
    /\ pc \in {"next", "scan"} => \A r \in rows : Matches(r) =>
         r \in Range(out) \/ r \in ahead \/ \E u \in todo : r \in Slice(u)
    /\ pc = "reply" => Answer(out)
    /\ pc = "done" => Answer(got)

Steady == Types /\ Pages /\ Checked /\ InOrder /\ Complete

-----------------------------------------------------------------------------
\* The first part of a row's key is the first part of its partition key
LEMMA KeyParts ==
  /\ Len(PartitionKeys) \in Nat \ {0} /\ DOMAIN PartitionKeys = 1 .. Len(PartitionKeys)
  /\ DOMAIN PartitionKeys \subseteq DOMAIN KeyColumns
  /\ \A n \in DOMAIN PartitionKeys : KeyColumns[n] = PartitionKeys[n]
  /\ \A r : \A n \in DOMAIN PartitionKeys : KeyOf(r)[n] = RawBytes(r[PartitionKeys[n]])
<1>1. PartitionKeys \in Seq(Range(KeyColumns)) /\ ClusteringKeys \in Seq(Range(KeyColumns))
      /\ PartitionKeys # <<>>
  BY SelectConstants
<1>2. Len(PartitionKeys) \in Nat \ {0} /\ DOMAIN PartitionKeys = 1 .. Len(PartitionKeys)
  BY <1>1
<1>3. Len(ClusteringKeys) \in Nat /\ DOMAIN KeyColumns = 1 .. Len(PartitionKeys) + Len(ClusteringKeys)
  BY <1>1 DEF KeyColumns
<1>4. DOMAIN PartitionKeys \subseteq DOMAIN KeyColumns
  BY <1>2, <1>3
<1>5. \A n \in DOMAIN PartitionKeys : KeyColumns[n] = PartitionKeys[n]
  BY <1>1, <1>2 DEF KeyColumns
<1>. QED  BY <1>2, <1>4, <1>5 DEF KeyOf

\* The bytes of a value, of a number as one digit
LEMMA BytesAre ==
  ASSUME NEW v \in Values
  PROVE  /\ RawBytes(v) \in Seq(Nat)
         /\ v[1] = "text" => RawBytes(v) = v[2] /\ v[2] \in Seq(Nat)
         /\ v[1] # "text" => /\ v[1] = "int" /\ v[2] \in Int
                             /\ RawBytes(v) = <<IF v[2] < 0 THEN v[2] + Radix ELSE v[2]>>
<1>1. v \in ({"int"} \X Int) \cup ({"text"} \X Seq(Nat))
  BY SelectConstants
<1>2. CASE v \in {"text"} \X Seq(Nat)
  <2>1. v[1] = "text" /\ v[2] \in Seq(Nat)
    BY <1>2
  <2>. QED  BY Zenon, <2>1 DEF RawBytes
<1>3. CASE v \in {"int"} \X Int
  <2>1. v[1] = "int" /\ v[1] # "text" /\ v[2] \in Int
    BY <1>3
  <2>2. Radix \in Nat /\ -Radix <= 2 * v[2]
    BY <2>1, SelectConstants
  <2>. DEFINE d == IF v[2] < 0 THEN v[2] + Radix ELSE v[2]
  <2>3. d \in Nat
    BY <2>1, <2>2
  <2>4. RawBytes(v) = <<d>>
    BY <2>1 DEF RawBytes
  <2>. HIDE DEF d
  <2>5. RawBytes(v) \in Seq(Nat)
    BY <2>3, <2>4
  <2>. QED  BY Zenon, <2>1, <2>4, <2>5 DEF d
<1>. QED  BY <1>1, <1>2, <1>3

\* Of numbers of one sign the digits, and of texts of one length the bytes,
\* sort as the values do
LEMMA BytesSort ==
  ASSUME NEW v \in Values, NEW w \in Values, SortAlike(v, w), PartLess(RawBytes(v), RawBytes(w))
  PROVE  Precedes(v, w)
<1>1. CASE v[1] = "text" /\ w[1] = "text" /\ Len(v[2]) = Len(w[2])
  <2>1. RawBytes(v) = v[2] /\ RawBytes(w) = w[2] /\ Len(v[2]) \in Nat
    BY <1>1, BytesAre
  <2>2. Less(v[2], w[2])
    <3>1. PartLess(v[2], w[2]) /\ ~(Len(v[2]) < Len(w[2]))
      BY <1>1, <2>1
    <3>. QED  BY Zenon, <3>1 DEF PartLess
  <2>. QED  BY <1>1, <2>2 DEF Precedes
<1>2. CASE v[1] = "int" /\ w[1] = "int" /\ (v[2] < 0 <=> w[2] < 0)
  <2>. DEFINE d == IF v[2] < 0 THEN v[2] + Radix ELSE v[2]
              e == IF w[2] < 0 THEN w[2] + Radix ELSE w[2]
  <2>1. /\ RawBytes(v) = <<d>> /\ RawBytes(w) = <<e>> /\ v[2] \in Int /\ w[2] \in Int
        /\ Radix \in Nat
    BY <1>2, BytesAre, SelectConstants
  <2>2. d < e => v[2] < w[2]
    BY <1>2, <2>1
  <2>. HIDE DEF d, e
  <2>3. d < e
    <3>1. PartLess(<<d>>, <<e>>)
      BY Zenon, <2>1
    <3>2. Len(<<d>>) = 1 /\ Len(<<e>>) = 1 /\ ~(1 < 1) /\ DOMAIN <<d>> = {1}
      OBVIOUS
    <3>3. Less(<<d>>, <<e>>)
      BY Zenon, <3>1, <3>2 DEF PartLess
    <3>4. \E i \in {1} : <<d>>[i] < <<e>>[i]
      BY Zenon, <3>2, <3>3 DEF Less
    <3>. QED  BY <3>4
  <2>. QED  BY <1>2, <2>2, <2>3 DEF Precedes
<1>. QED  BY <1>1, <1>2 DEF SortAlike

\* The parts of a row's key are the bytes of its key columns
LEMMA PartsOfKey ==
  ASSUME NEW r \in [Columns -> Values]
  PROVE  /\ DOMAIN KeyOf(r) = DOMAIN KeyColumns
         /\ \A i \in DOMAIN KeyColumns :
              r[KeyColumns[i]] \in Values /\ KeyOf(r)[i] = RawBytes(r[KeyColumns[i]])
<1>1. \A i \in DOMAIN KeyColumns : KeyColumns[i] \in Columns
  BY DEF Columns, Range
<1>. QED  BY <1>1 DEF KeyOf

\* No key sorts before itself
LEMMA NotLess == ASSUME NEW r \in [Columns -> Values] PROVE ~KeyLess(KeyOf(r), KeyOf(r))
<1>1. ASSUME NEW p \in Seq(Nat) PROVE ~PartLess(p, p)
  <2>1. Len(p) \in Nat /\ \A i \in DOMAIN p : p[i] \in Nat
    OBVIOUS
  <2>. QED  BY <2>1 DEF PartLess, Less
<1>2. ASSUME NEW i \in DOMAIN KeyOf(r) PROVE KeyOf(r)[i] \in Seq(Nat)
  <2>1. i \in DOMAIN KeyColumns
    BY Zenon, PartsOfKey
  <2>2. r[KeyColumns[i]] \in Values /\ KeyOf(r)[i] = RawBytes(r[KeyColumns[i]])
    BY Zenon, <2>1, PartsOfKey
  <2>. QED  BY Zenon, <2>2, BytesAre
<1>. QED  BY Zenon, <1>1, <1>2 DEF KeyLess

\* What the client asked for
LEMMA Asked ==
  ASSUME Types
  PROVE  /\ rows \subseteq [Columns -> Values]
         /\ \A r, s \in rows : KeyOf(r) = KeyOf(s) => r = s
         /\ \A i \in DOMAIN query.where :
              query.where[i] \in Filters
              /\ (query.where[i].op = "eq" => Len(query.where[i].vals) = 1)
         /\ query.limit = None \/ query.limit \in Nat
         /\ query.pageSize = None \/ query.pageSize \in Nat
<1>1. rows \in Tables /\ query.where \in Wheres /\ query.limit \in Limits /\ query.pageSize \in PageSizes
  BY DEF Types
<1>. QED  BY <1>1, SelectConstants

\* page_limit is a number; without a page size it is LIMIT, or the hard cap
LEMMA PageLimitIs ==
  ASSUME Types
  PROVE  /\ PageLimit \in Nat
         /\ query.pageSize = None => PageLimit = Allowed
         /\ query.pageSize = None /\ query.limit = None => PageLimit # 0
<1>. DEFINE given == {query.limit, query.pageSize} \ {None}
<1>0. HardCap \in Nat \ {0} /\ None \notin Nat /\ (query.limit = None \/ query.limit \in Nat)
      /\ (query.pageSize = None \/ query.pageSize \in Nat)
  BY SelectConstants, Asked
<1>1. CASE given = {}
  BY <1>0, <1>1 DEF PageLimit, Allowed
<1>2. CASE given # {}
  <2>1. PageLimit = CHOOSE n \in given : \A m \in given : n <= m
    BY <1>2 DEF PageLimit
  <2>2. \E n \in given : \A m \in given : n <= m
    BY <1>0, <1>2
  <2>3. PageLimit \in given /\ \A m \in given : PageLimit <= m
    BY Zenon, <2>1, <2>2
  <2>. QED  BY <1>0, <2>3 DEF Allowed
<1>. QED  BY <1>1, <1>2

\* The rows described are those that pass the check
LEMMA MatchingIs == Matching = {r \in rows : Matches(r)}
  BY DEF Matching, Matches

\* What depends on the table and the statement only
LEMMA Fixed ==
  ASSUME UNCHANGED <<rows, query>>
  PROVE  /\ PageLimit' = PageLimit /\ Allowed' = Allowed /\ Matching' = Matching
         /\ IsPoint' = IsPoint /\ IsPartitions' = IsPartitions /\ NamesTwice' = NamesTwice
         /\ Rounds' = Rounds /\ \A u : Slice(u)' = Slice(u)
         /\ \A r : Matches(r)' = Matches(r)
         /\ \A s : Answer(s)' = Answer(s)
<1>1. PageLimit' = PageLimit /\ Allowed' = Allowed /\ Matching' = Matching
  BY DEF PageLimit, Allowed, Matching
<1>2. IsPoint' = IsPoint /\ IsPartitions' = IsPartitions
  BY DEF IsPoint, IsPartitions, EqsOf, FiltersOf
<1>3. \A c : ValuesOf(c)' = ValuesOf(c)
  BY DEF ValuesOf, FiltersOf
<1>4. \A x : ValueAt(x)' = ValueAt(x)
  BY DEF ValueAt
<1>5. Partitions' = Partitions
  BY Zenon, <1>3 DEF Partitions
<1>6. NamesTwice' = NamesTwice
  BY Zenon, <1>2, <1>3, <1>4 DEF NamesTwice
<1>7. \A u : Slice(u)' = Slice(u)
  BY <1>2, <1>4 DEF Slice, InPartition, OnEngine
<1>8. \A r : Matches(r)' = Matches(r)
  BY DEF Matches
<1>. QED  BY <1>1, <1>2, <1>5, <1>6, <1>7, <1>8 DEF Rounds, Answer

\* The rounds of a scan take every row that matches
LEMMA RoundsCover ==
  ASSUME Types, ~IsPoint, NEW r \in rows, Matches(r)
  PROVE  \E u \in Rounds : r \in Slice(u)
<1>1. CASE IsPartitions
  <2>1. ASSUME NEW n \in DOMAIN PartitionKeys
        PROVE  \E x \in ValuesOf(PartitionKeys[n]) : RawBytes(ValueAt(x)) = KeyOf(r)[n]
    <3>1. PICK i \in FiltersOf(PartitionKeys[n]) : TRUE
      BY <1>1 DEF IsPartitions
    <3>2. i \in DOMAIN query.where /\ query.where[i].col = PartitionKeys[n]
      BY DEF FiltersOf
    <3>3. PICK j \in DOMAIN query.where[i].vals : r[PartitionKeys[n]] = query.where[i].vals[j]
      BY <3>2 DEF Matches, Range
    <3>4. <<i, j>> \in ValuesOf(PartitionKeys[n]) /\ ValueAt(<<i, j>>) = query.where[i].vals[j]
      BY <3>1 DEF ValuesOf, ValueAt
    <3>. QED  BY <3>3, <3>4, KeyParts
  <2>. DEFINE p == [n \in DOMAIN PartitionKeys |->
                     CHOOSE x \in ValuesOf(PartitionKeys[n]) : RawBytes(ValueAt(x)) = KeyOf(r)[n]]
  <2>2. \A n \in DOMAIN PartitionKeys :
          p[n] \in ValuesOf(PartitionKeys[n]) /\ RawBytes(ValueAt(p[n])) = KeyOf(r)[n]
    BY <2>1
  <2>3. p \in Partitions
    <3>1. \A n \in DOMAIN PartitionKeys :
            p[n] \in UNION {ValuesOf(c) : c \in Range(PartitionKeys)}
      BY <2>2 DEF Range
    <3>. QED  BY <2>2, <3>1 DEF Partitions
  <2>4. r \in InPartition(p)
    <3>. HIDE DEF p
    <3>1. RawBytes(ValueAt(p[1])) = KeyOf(r)[1]
      BY <2>2, KeyParts
    <3>. QED  BY <2>2, <3>1 DEF InPartition
  <2>. QED  BY <1>1, <2>3, <2>4 DEF Rounds, Slice
<1>2. CASE ~IsPartitions
  <2>1. 1 \in DOMAIN KeyColumns
    BY KeyParts
  <2>2. Engine[KeyOf(r)[1]] \in 0 .. Engines - 1
    <3>1. r \in [Columns -> Values]
      BY Asked
    <3>2. KeyOf(r)[1] \in {RawBytes(v) : v \in Values}
      BY Zenon, <2>1, <3>1, PartsOfKey
    <3>3. Engine \in [{RawBytes(v) : v \in Values} -> 0 .. Engines - 1]
      BY Zenon, SelectConstants
    <3>. QED  BY Zenon, <3>2, <3>3
  <2>. QED  BY <1>2, <2>2 DEF Rounds, Slice, OnEngine
<1>. QED  BY <1>1, <1>2

\* Unless the clause names it twice, a partition is in one round only
LEMMA RoundsApart ==
  ASSUME Types, ~IsPoint, ~NamesTwice, NEW u \in Rounds, NEW v \in Rounds, u # v,
         NEW r \in Slice(u), NEW s \in Slice(v)
  PROVE  ~Together(r, s)
<1>1. CASE IsPartitions
  <2>1. u \in Partitions /\ v \in Partitions /\ r \in InPartition(u) /\ s \in InPartition(v)
    BY <1>1 DEF Rounds, Slice
  <2>2. PICK n \in DOMAIN PartitionKeys : u[n] # v[n]
    BY <2>1 DEF Partitions
  <2>3. u[n] \in ValuesOf(PartitionKeys[n]) /\ v[n] \in ValuesOf(PartitionKeys[n])
        /\ PartitionKeys[n] \in Range(PartitionKeys)
    BY <2>1 DEF Partitions, Range
  <2>4. RawBytes(ValueAt(u[n])) # RawBytes(ValueAt(v[n]))
    BY Zenon, <1>1, <2>2, <2>3 DEF NamesTwice
  <2>5. KeyOf(r)[n] = RawBytes(ValueAt(u[n])) /\ KeyOf(s)[n] = RawBytes(ValueAt(v[n]))
    BY <2>1 DEF InPartition
  <2>. QED  BY <2>4, <2>5 DEF Together
<1>2. CASE ~IsPartitions
  <2>1. Engine[KeyOf(r)[1]] = u /\ Engine[KeyOf(s)[1]] = v
    BY <1>2 DEF Slice, OnEngine
  <2>2. 1 \in DOMAIN PartitionKeys
    BY KeyParts
  <2>. QED  BY <2>1, <2>2 DEF Together
<1>. QED  BY <1>1, <1>2

\* The rows that match a fully known address have one key
LEMMA OneMatches ==
  ASSUME Types, IsPoint, NEW r \in rows, Matches(r)
  PROVE  IsPointKey(KeyOf(r)) /\ \A s \in rows : Matches(s) => s = r
<1>1. ASSUME NEW i \in DOMAIN KeyColumns, NEW n \in EqsOf(KeyColumns[i]), NEW s \in rows, Matches(s)
      PROVE  KeyOf(s)[i] = RawBytes(query.where[n].vals[1])
  <2>1. n \in DOMAIN query.where /\ query.where[n].col = KeyColumns[i] /\ query.where[n].op = "eq"
    BY DEF EqsOf, FiltersOf
  <2>2. query.where[n].vals \in Seq(Values) /\ Len(query.where[n].vals) = 1
    BY <2>1, Asked DEF Filters
  <2>3. s[KeyColumns[i]] \in Range(query.where[n].vals)
    BY <1>1, <2>1 DEF Matches
  <2>4. Range(query.where[n].vals) = {query.where[n].vals[1]}
    BY <2>2 DEF Range
  <2>. QED  BY <2>3, <2>4 DEF KeyOf
<1>2. IsPointKey(KeyOf(r))
  BY <1>1 DEF IsPointKey
<1>3. ASSUME NEW s \in rows, Matches(s) PROVE s = r
  <2>1. ASSUME NEW i \in DOMAIN KeyColumns PROVE KeyOf(s)[i] = KeyOf(r)[i]
    <3>1. PICK n \in EqsOf(KeyColumns[i]) : TRUE
      BY DEF IsPoint
    <3>. QED  BY <1>1, <1>3, <3>1
  <2>2. KeyOf(s) = KeyOf(r)
    BY <2>1 DEF KeyOf
  <2>. QED  BY <2>2, Asked
<1>. QED  BY <1>2, <1>3

-----------------------------------------------------------------------------
\* A point lookup returns the row that matches, or nothing
LEMMA LookupSteady == ASSUME Steady, Lookup PROVE Steady'
<1>1. /\ pc = "plan" /\ IsPoint /\ pc' = "reply" /\ out = <<>> /\ last = None /\ got = <<>>
      /\ ahead = {} /\ UNCHANGED <<rows, query, resume, todo, ahead, last, got>>
  BY DEF Lookup, Steady, Types, Pages
<1>2. \/ out' = <<>> /\ \A r \in rows : ~(IsPointKey(KeyOf(r)) /\ Matches(r))
      \/ \E r \in rows : Matches(r) /\ out' = <<r>>
  BY DEF Lookup
<1>. USE <1>1, Fixed
<1>3. Types'
  <2>1. out' \in Seq(rows)
    <3>1. <<>> \in Seq(rows) /\ \A r \in rows : <<r>> \in Seq(rows)
      OBVIOUS
    <3>. QED  BY Zenon, <1>2, <3>1
  <2>. QED  BY <2>1 DEF Steady, Types
<1>4. Pages'
  BY DEF Steady, Pages
<1>5. Checked'
  BY <1>2 DEF Steady, Checked
<1>6. InOrder'
  <2>1. \A i, j \in DOMAIN out' : i = 1 /\ j = 1
    BY <1>2
  <2>2. Ordered(out') /\ Ordered(got')
    BY <2>1 DEF Ordered
  <2>. QED  BY <2>2 DEF InOrder
<1>7. Range(out') = Matching
  <2>1. CASE out' = <<>> /\ \A r \in rows : ~(IsPointKey(KeyOf(r)) /\ Matches(r))
    <3>1. Matching = {}
      BY <2>1, MatchingIs, OneMatches DEF Steady
    <3>. QED  BY <2>1, <3>1 DEF Range
  <2>2. ASSUME NEW r \in rows, Matches(r), out' = <<r>> PROVE Range(out') = Matching
    <3>1. Matching = {r}
      BY <2>2, MatchingIs, OneMatches DEF Steady
    <3>. QED  BY <2>2, <3>1 DEF Range
  <2>. QED  BY <1>2, <2>1, <2>2
<1>8. Complete'
  BY <1>7 DEF Complete, Answer
<1>. QED  BY <1>3, <1>4, <1>5, <1>6, <1>8 DEF Steady

\* A scan has all its rounds ahead
LEMMA StartScanSteady == ASSUME Steady, StartScan PROVE Steady'
<1>1. /\ pc = "plan" /\ ~IsPoint /\ pc' = "next" /\ out = <<>> /\ last = None /\ got = <<>>
      /\ ahead = {} /\ todo' = Rounds /\ UNCHANGED <<rows, query, resume, ahead, out, last, got>>
  BY DEF StartScan, Steady, Types, Pages, Rounds
<1>. USE <1>1, Fixed
<1>2. Types'
  BY DEF Steady, Types
<1>3. Pages'
  BY PageLimitIs DEF Steady, Pages
<1>4. Checked'
  BY DEF Steady, Checked
<1>5. InOrder'
  BY DEF InOrder, Ordered
<1>6. Complete'
  BY RoundsCover DEF Steady, Complete
<1>. QED  BY <1>2, <1>3, <1>4, <1>5, <1>6 DEF Steady

\* A round is opened: no row of another round is of a partition it holds
LEMMA NextRoundSteady ==
  ASSUME Steady, NEW u \in todo, NextPartition(u) \/ NextEngine(u)
  PROVE  Steady'
<1>1. /\ pc = "next" /\ pc' = "scan" /\ todo' = todo \ {u} /\ ahead' = Slice(u)
      /\ ahead = {} /\ ~IsPoint /\ todo \subseteq Rounds
      /\ UNCHANGED <<rows, query, resume, out, last, got>>
  BY DEF NextPartition, NextEngine, Steady, Types, Slice
<1>. USE <1>1, Fixed
<1>2. Types'
  BY DEF Steady, Types, Slice, InPartition, OnEngine
<1>3. Pages'
  BY DEF Steady, Pages
<1>4. Checked'
  BY DEF Steady, Checked
<1>5. InOrder'
  <2>. SUFFICES ASSUME ~NamesTwice PROVE InOrder'
    BY DEF InOrder
  <2>1. /\ Ordered(out) /\ Ordered(got)
        /\ \A v \in todo : \A s \in Slice(v) : \A i \in DOMAIN out : ~Together(out[i], s)
    BY DEF Steady, InOrder
  <2>2. ASSUME NEW v \in todo', NEW s \in Slice(v), NEW r \in ahead' PROVE ~Together(r, s)
    BY RoundsApart DEF Steady
  <2>. QED  BY <2>1, <2>2 DEF InOrder
<1>6. Complete'
  BY DEF Steady, Complete
<1>. QED  BY <1>2, <1>3, <1>4, <1>5, <1>6 DEF Steady

\* An entry at or before the paging state is passed over; without a page size
\* there is none
LEMMA SkipSteady == ASSUME Steady, NEW r \in ahead, Skip(r) PROVE Steady'
<1>1. /\ pc = "scan" /\ resume # None /\ ahead' = ahead \ {r}
      /\ UNCHANGED <<rows, query, resume, todo, out, last, pc, got>>
  BY DEF Skip, Skipped
<1>. USE <1>1, Fixed
<1>2. Types'
  BY DEF Steady, Types
<1>3. Pages'
  BY DEF Steady, Pages
<1>4. Checked'
  BY DEF Steady, Checked
<1>5. InOrder'
  BY DEF Steady, InOrder
<1>6. Complete'
  BY DEF Steady, Pages, Complete
<1>. QED  BY <1>2, <1>3, <1>4, <1>5, <1>6 DEF Steady

\* The page is full at an entry only if it has room for no row
LEMMA FullSteady == ASSUME Steady, NEW r \in ahead, Full(r) PROVE Steady'
<1>1. /\ pc = "scan" /\ pc' = "reply" /\ last' = KeyOf(r) /\ ~Skipped(KeyOf(r))
      /\ Len(out) >= PageLimit /\ UNCHANGED <<rows, query, resume, todo, ahead, out, got>>
  BY DEF Full
<1>2. PageLimit = 0 /\ out = <<>> /\ ~IsPoint /\ Len(out) = PageLimit
  <2>1. PageLimit \in Nat /\ Len(out) \in Nat
    BY PageLimitIs DEF Steady, Types
  <2>. QED  BY <1>1, <2>1 DEF Steady, Pages, Types
<1>. USE <1>1, <1>2, Fixed
<1>3. Types'
  BY DEF Steady, Types
<1>4. Pages'
  BY DEF Steady, Pages, Skipped
<1>5. Checked'
  BY DEF Steady, Checked
<1>6. InOrder'
  BY DEF Steady, InOrder
<1>7. Complete'
  BY PageLimitIs DEF Steady, Complete, Answer
<1>. QED  BY <1>3, <1>4, <1>5, <1>6, <1>7 DEF Steady

\* A round ends, and the loop with it when the page is full
LEMMA EndOfIteratorSteady == ASSUME Steady, EndOfIterator PROVE Steady'
<1>1. /\ pc = "scan" /\ pc' \in {"next", "reply"} /\ ahead = {} /\ ~IsPoint
      /\ pc' = "reply" => Len(out) >= PageLimit
      /\ UNCHANGED <<rows, query, resume, todo, ahead, out, last, got>>
  BY DEF EndOfIterator, Steady, Types
<1>2. PageLimit \in Nat /\ Len(out) \in Nat /\ Len(out) <= PageLimit
  <2>1. PageLimit \in Nat /\ Len(out) \in Nat
    BY PageLimitIs DEF Steady, Types
  <2>. QED  BY <1>1, <2>1 DEF Steady, Pages
<1>. USE <1>1, <1>2, Fixed
<1>3. Types'
  BY DEF Steady, Types
<1>4. Pages'
  BY DEF Steady, Pages
<1>5. Checked'
  BY DEF Steady, Checked
<1>6. InOrder'
  BY DEF Steady, InOrder
<1>7. Complete'
  BY PageLimitIs DEF Steady, Complete, Answer
<1>. QED  BY <1>3, <1>4, <1>5, <1>6, <1>7 DEF Steady

\* When no round is left, all that matches was returned
LEMMA EndOfScanSteady == ASSUME Steady, EndOfScan PROVE Steady'
<1>1. /\ pc = "next" /\ pc' = "reply" /\ ahead = {} /\ todo = {} /\ ~IsPoint
      /\ UNCHANGED <<rows, query, resume, todo, ahead, out, last, got>>
  BY DEF EndOfScan, Steady, Types
<1>2. PageLimit \in Nat /\ Len(out) \in Nat /\ Len(out) <= PageLimit
  <2>1. PageLimit \in Nat /\ Len(out) \in Nat
    BY PageLimitIs DEF Steady, Types
  <2>. QED  BY <1>1, <2>1 DEF Steady, Pages
<1>. USE <1>1, <1>2, Fixed
<1>3. Types'
  BY DEF Steady, Types
<1>4. Pages'
  BY DEF Steady, Pages
<1>5. Checked'
  BY DEF Steady, Checked
<1>6. InOrder'
  BY DEF Steady, InOrder
<1>7. Complete'
  <2>1. Range(out) \subseteq Matching
    BY MatchingIs DEF Steady, Types, Checked, Range
  <2>2. query.pageSize = None => Matching \subseteq Range(out)
    BY MatchingIs DEF Steady, Complete
  <2>. QED  BY <2>1, <2>2 DEF Complete, Answer
<1>. QED  BY <1>3, <1>4, <1>5, <1>6, <1>7 DEF Steady

\* A row that is appended comes after those of its partition
LEMMA AppendOrdered ==
  ASSUME NEW S, NEW s \in Seq(S), NEW r, Ordered(s),
         \A i \in DOMAIN s : Together(s[i], r) => KeyLess(KeyOf(s[i]), KeyOf(r))
  PROVE  Ordered(Append(s, r))
<1>1. Len(s) \in Nat /\ DOMAIN s = 1 .. Len(s) /\ DOMAIN Append(s, r) = 1 .. Len(s) + 1
      /\ Append(s, r)[Len(s) + 1] = r /\ \A i \in 1 .. Len(s) : Append(s, r)[i] = s[i]
  OBVIOUS
<1>. SUFFICES ASSUME NEW i \in 1 .. Len(s) + 1, NEW j \in 1 .. Len(s) + 1, i < j,
                     Together(Append(s, r)[i], Append(s, r)[j])
              PROVE  KeyLess(KeyOf(Append(s, r)[i]), KeyOf(Append(s, r)[j]))
  BY <1>1 DEF Ordered
<1>2. i \in 1 .. Len(s)
  BY <1>1
<1>3. CASE j \in 1 .. Len(s)
  <2>1. Append(s, r)[i] = s[i] /\ Append(s, r)[j] = s[j]
    BY Zenon, <1>1, <1>2, <1>3
  <2>2. i \in DOMAIN s /\ j \in DOMAIN s
    BY Zenon, <1>1, <1>2, <1>3
  <2>. QED  BY Zenon, <2>1, <2>2 DEF Ordered
<1>4. CASE j = Len(s) + 1
  BY Zenon, <1>1, <1>2, <1>4
<1>5. j \in 1 .. Len(s) \/ j = Len(s) + 1
  BY <1>1
<1>. QED  BY Zenon, <1>3, <1>4, <1>5

\* A row that passes the check is returned; the page may then be full
LEMMA HandleEntrySteady == ASSUME Steady, NEW r \in ahead, HandleEntry(r) PROVE Steady'
<1>1. /\ pc = "scan" /\ pc' \in {"scan", "reply"} /\ ~IsPoint /\ ahead' = ahead \ {r}
      /\ out' = IF Matches(r) THEN Append(out, r) ELSE out
      /\ r \in rows /\ out \in Seq(rows) /\ last = None
      /\ UNCHANGED <<rows, query, resume, todo, last, got>>
  BY DEF HandleEntry, Steady, Types, Pages
<1>2. \A s \in ahead' : KeyLess(KeyOf(r), KeyOf(s))
  BY DEF HandleEntry, Leading
<1>3. /\ PageLimit \in Nat /\ Len(out) \in Nat /\ Len(out) < PageLimit
      /\ Len(out') \in Nat /\ Len(out') <= PageLimit
      /\ pc' = IF Len(out') >= PageLimit THEN "reply" ELSE "scan"
  <2>1. PageLimit \in Nat /\ Len(out) \in Nat /\ Len(out) < PageLimit
    BY PageLimitIs DEF Steady, Types, HandleEntry
  <2>2. Len(out') = Len(out) \/ Len(out') = Len(out) + 1
    BY <1>1
  <2>. QED  BY <2>1, <2>2 DEF HandleEntry
<1>4. /\ out' \in Seq(rows) /\ Range(out) \subseteq Range(out')
      /\ Matches(r) => Range(out') = Range(out) \cup {r}
  <2>1. Append(out, r) \in Seq(rows) /\ Range(Append(out, r)) = Range(out) \cup {r}
    BY <1>1 DEF Range
  <2>. QED  BY <1>1, <2>1
<1>. USE <1>1, <1>3, <1>4, Fixed
<1>5. Types'
  BY DEF Steady, Types
<1>6. Pages'
  BY DEF Steady, Pages
<1>7. Checked'
  <2>1. \A i \in DOMAIN out' : (out'[i] = r /\ Matches(r)) \/ Matches(out'[i])
    BY DEF Steady, Checked
  <2>. QED  BY <2>1 DEF Steady, Checked
<1>8. InOrder'
  <2>. SUFFICES ASSUME ~NamesTwice PROVE InOrder'
    BY DEF InOrder
  <2>1. /\ Ordered(out) /\ Ordered(got)
        /\ \A i \in DOMAIN out, s \in ahead : Together(out[i], s) => KeyLess(KeyOf(out[i]), KeyOf(s))
        /\ \A u \in todo : \A s \in Slice(u) :
             /\ \A i \in DOMAIN out : ~Together(out[i], s)
             /\ \A q \in ahead : ~Together(q, s)
    BY DEF Steady, InOrder
  <2>2. CASE ~Matches(r)
    BY <2>1, <2>2 DEF InOrder
  <2>3. CASE Matches(r)
    <3>1. Ordered(out')
      BY <2>1, <2>3, AppendOrdered
    <3>2. ASSUME NEW i \in DOMAIN out' PROVE out'[i] = r \/ \E j \in DOMAIN out : out'[i] = out[j]
      BY <2>3
    <3>3. \A i \in DOMAIN out', s \in ahead' : Together(out'[i], s) => KeyLess(KeyOf(out'[i]), KeyOf(s))
      BY Zenon, <1>2, <2>1, <3>2
    <3>4. \A u \in todo : \A s \in Slice(u) : \A i \in DOMAIN out' : ~Together(out'[i], s)
      BY Zenon, <2>1, <3>2
    <3>. QED  BY <2>1, <3>1, <3>3, <3>4 DEF InOrder
  <2>. QED  BY <2>2, <2>3
<1>9. Complete'
  <2>1. CASE pc' = "scan"
    BY <2>1 DEF Steady, Complete
  <2>2. CASE pc' = "reply"
    <3>1. Len(out') = PageLimit
      BY <2>2
    <3>2. query.pageSize = None => Len(out') = Allowed
      BY Zenon, <3>1, PageLimitIs DEF Steady
    <3>. QED  BY <2>2, <3>2 DEF Complete, Answer
  <2>. QED  BY <2>1, <2>2
<1>. QED  BY <1>5, <1>6, <1>7, <1>8, <1>9 DEF Steady

\* What was collected is sent.  There is a next page only after an empty one
LEMMA ReplySteady == ASSUME Steady, Reply PROVE Steady'
<1>1. /\ pc = "reply" /\ out' = <<>> /\ last' = None /\ todo' = {} /\ ahead' = {}
      /\ got = <<>> /\ got' = out /\ out \in Seq(rows) /\ UNCHANGED <<rows, query>>
  <2>1. got = <<>> /\ out \in Seq(rows) /\ got' = got \o out
    BY DEF Reply, Steady, Types, Pages
  <2>2. <<>> \o out = out
    BY <2>1
  <2>. QED  BY <2>1, <2>2 DEF Reply
<1>2. \/ pc' = "done" /\ resume' = None
      \/ pc' = "plan" /\ last # None /\ out = <<>> /\ PageLimit = 0 /\ query.pageSize # None
  BY <1>1, PageLimitIs DEF Reply, HasMore, Steady, Pages, Types
<1>. USE <1>1, <1>2, Fixed
<1>3. Types'
  BY DEF Steady, Types
<1>4. Pages'
  BY DEF Steady, Pages
<1>5. Checked'
  BY DEF Steady, Checked
<1>6. InOrder'
  BY DEF Steady, InOrder, Ordered
<1>7. Complete'
  BY DEF Steady, Complete
<1>. QED  BY <1>3, <1>4, <1>5, <1>6, <1>7 DEF Steady

-----------------------------------------------------------------------------
\* A request starts with nothing collected
LEMMA InitSteady == Init => Steady
<1>. SUFFICES ASSUME Init PROVE Steady
  OBVIOUS
<1>1. Types
  BY DEF Init, Types
<1>2. Pages /\ Checked /\ InOrder /\ Complete
  BY DEF Init, Pages, Checked, InOrder, Ordered, Complete
<1>. QED  BY <1>1, <1>2 DEF Steady

\* Every step of a SELECT keeps the invariant
LEMMA NextSteady == Steady /\ [Next]_vars => Steady'
<1>. SUFFICES ASSUME Steady, [Next]_vars PROVE Steady'
  OBVIOUS
<1>1. CASE UNCHANGED vars
  <2>1. UNCHANGED <<rows, query, resume, todo, ahead, out, last, pc, got>>
    BY <1>1 DEF vars
  <2>2. Types' /\ Pages' /\ Checked'
    BY <2>1, Fixed DEF Steady, Types, Pages, Checked
  <2>3. InOrder' /\ Complete'
    BY <2>1, Fixed DEF Steady, InOrder, Complete
  <2>. QED  BY <2>2, <2>3 DEF Steady
<1>. QED  BY Zenon, <1>1, LookupSteady, StartScanSteady, NextRoundSteady, SkipSteady, FullSteady,
             HandleEntrySteady, EndOfIteratorSteady, EndOfScanSteady, ReplySteady DEF Next

LEMMA Reachable == Spec => []Steady
  BY InitSteady, NextSteady, PTL DEF Spec

\* A SELECT answers what it asks: rows of the table that meet every
\* restriction, each once unless a partition is named twice, and without a page
\* size all of them or as many as LIMIT says, unless the hard cap cut them
THEOREM SelectAnswers == Spec => []AnswersQuery
<1>1. Steady => AnswersQuery
  <2>. SUFFICES ASSUME Steady, pc = "done"
                PROVE  /\ Range(got) \subseteq Matching
                       /\ NamesTwice \/ \A i, j \in DOMAIN got : got[i] = got[j] => i = j
                       /\ query.pageSize = None => Answer(got)
    <3>1. query.limit = None => Allowed = HardCap /\ HardCap \in Nat
      BY SelectConstants DEF Allowed
    <3>2. Answer(got) /\ ~CutAtHardCap => Range(got) = Matching \/ (~IsPoint /\ Len(got) = query.limit)
      BY <3>1 DEF Answer, CutAtHardCap, Allowed
    <3>. QED  BY <3>2 DEF AnswersQuery
  <2>1. Range(got) \subseteq Matching
    BY MatchingIs DEF Steady, Types, Checked, Range
  <2>2. ASSUME ~NamesTwice, NEW i \in DOMAIN got, NEW j \in DOMAIN got, got[i] = got[j]
        PROVE  i = j
    <3>1. got[i] \in [Columns -> Values] /\ i \in Int /\ j \in Int
      BY Asked DEF Steady, Types
    <3>2. ~KeyLess(KeyOf(got[i]), KeyOf(got[i])) /\ Together(got[i], got[i])
      BY <3>1, NotLess DEF Together
    <3>3. ~(i < j) /\ ~(j < i)
      BY Zenon, <2>2, <3>2 DEF Steady, InOrder, Ordered
    <3>. QED  BY <3>1, <3>3
  <2>. QED  BY <2>1, <2>2 DEF Steady, Complete
<1>. QED  BY <1>1, Reachable, PTL

\* The rows of a partition are collected in clustering order, by every plan and
\* from every engine, unless the clause names the partition twice: as far as
\* the bytes of the values sort as the values, and in the order of the bytes
\* where numbers of both signs or texts of several lengths meet
THEOREM OrderKept == Spec => []ClusteringOrder
<1>1. Steady => ClusteringOrder
  <2>. SUFFICES ASSUME Steady, ~NamesTwice, NEW i \in DOMAIN out, NEW j \in DOMAIN out, i < j,
                       Together(out[i], out[j])
                PROVE  \E c \in DOMAIN KeyColumns :
                         LET v == out[i][KeyColumns[c]]
                             w == out[j][KeyColumns[c]]
                         IN  /\ \A b \in 1 .. c - 1 : KeyOf(out[i])[b] = KeyOf(out[j])[b]
                             /\ IF SortAlike(v, w) THEN Precedes(v, w)
                                ELSE PartLess(RawBytes(v), RawBytes(w))
    BY DEF ClusteringOrder, Together
  <2>1. out[i] \in [Columns -> Values] /\ out[j] \in [Columns -> Values]
    BY Asked DEF Steady, Types
  <2>2. KeyLess(KeyOf(out[i]), KeyOf(out[j]))
    BY Zenon DEF Steady, InOrder, Ordered
  <2>3. PICK c \in DOMAIN KeyOf(out[i]) :
          /\ PartLess(KeyOf(out[i])[c], KeyOf(out[j])[c])
          /\ \A b \in 1 .. c - 1 : KeyOf(out[i])[b] = KeyOf(out[j])[b]
    BY Zenon, <2>2 DEF KeyLess
  <2>. DEFINE v == out[i][KeyColumns[c]]
              w == out[j][KeyColumns[c]]
  <2>4. /\ c \in DOMAIN KeyColumns /\ v \in Values /\ w \in Values
        /\ KeyOf(out[i])[c] = RawBytes(v) /\ KeyOf(out[j])[c] = RawBytes(w)
    BY Zenon, <2>1, PartsOfKey
  <2>5. PartLess(RawBytes(v), RawBytes(w))
    BY Zenon, <2>3, <2>4
  <2>6. SortAlike(v, w) => Precedes(v, w)
    BY Zenon, <2>4, <2>5, BytesSort
  <2>. QED  BY Zenon, <2>3, <2>4, <2>5, <2>6
<1>. QED  BY <1>1, Reachable, PTL
=============================================================================
