----------------------------- MODULE SelectScan -----------------------------
(***************************************************************************)
(* exec_select: the plan a SELECT is given (point lookup, scan of some     *)
(* partitions, scan of the table), the loops over partitions or engines,   *)
(* the callback that is run on each entry, LIMIT and paging.  A client     *)
(* that is given a paging state asks for the next page with it.  The table *)
(* does not change meanwhile.                                              *)
(***************************************************************************)
EXTENDS KeyOrder, Functions

CONSTANTS
  PartitionKeys, ClusteringKeys,  \* names of the key columns, in order
  Regular,       \* the other columns
  Values,        \* <<"int", number>> and <<"text", bytes>>
  Radix,         \* 2^32: an int is kept modulo Radix
  Tables,        \* contents of the table: sets of rows
  Engine,        \* the engine of the first part of a key
  Engines,       \* number of engines
  Wheres,        \* WHERE clauses: sequences of Filters
  Limits,        \* LIMITs, and None
  PageSizes,     \* page sizes a client may ask for, and None
  HardCap,       \* hard_cap
  None

KeyColumns == PartitionKeys \o ClusteringKeys
Columns == Range(KeyColumns) \cup Regular

\* raw_bytes: two's complement, its bytes in to_be_bytes order being one digit
\* here; a text is its bytes
RawBytes(v) ==
  IF v[1] = "text" THEN v[2] ELSE <<IF v[2] < 0 THEN v[2] + Radix ELSE v[2]>>

\* The parts of a row's key
KeyOf(r) == [i \in DOMAIN KeyColumns |-> RawBytes(r[KeyColumns[i]])]

\* A Filter restricts a column: Eq has one value, In a list of them
Filters == [col : Columns, op : {"eq", "in"}, vals : Seq(Values)]

\* A table holds one row for a key; its primary key has a partition key
ASSUME SelectConstants ==
  /\ {PartitionKeys, ClusteringKeys} \subseteq Seq(Range(KeyColumns)) /\ PartitionKeys # <<>>
  /\ Values \subseteq ({"int"} \X Int) \cup ({"text"} \X Seq(Nat))
  /\ Radix \in Nat /\ \A v \in Values : v[1] = "int" => -Radix <= 2 * v[2] /\ 2 * v[2] < Radix
  /\ \A T \in Tables : /\ T \subseteq [Columns -> Values]
                       /\ \A r, s \in T : KeyOf(r) = KeyOf(s) => r = s
  /\ Engines \in Nat /\ Engine \in [{RawBytes(v) : v \in Values} -> 0 .. Engines - 1]
  /\ \A w \in Wheres : \A i \in DOMAIN w :
       w[i] \in Filters /\ (w[i].op = "eq" => Len(w[i].vals) = 1)
  /\ None \notin Nat /\ (Limits \cup PageSizes) \ {None} \subseteq Nat
  /\ HardCap \in Nat \ {0}

VARIABLES
  rows,    \* the table
  query,   \* WHERE clause, LIMIT and page size
  resume,  \* paging_state of the request: the key it resumes after, or None
  todo,    \* the partitions, or the engines, that are still to be scanned
  ahead,   \* the rows that the open iterator has still to give
  out,     \* out_rows
  last,    \* paging_last_key
  pc,      \* "plan", "next" (partition or engine), "scan", "reply" or "done"
  got      \* what the client has received, all pages

vars == <<rows, query, resume, todo, ahead, out, last, pc, got>>

-----------------------------------------------------------------------------
\* Variant: the iterator runs backward
Trailing(R) == {r \in R : \A s \in R \ {r} : KeyLess(KeyOf(s), KeyOf(r))}
\* for_each_on_engine: a forward iterator
Leading(R) == {r \in R : \A s \in R \ {r} : KeyLess(KeyOf(r), KeyOf(s))}

\* The places in the WHERE clause of a column's filters, and of those with "="
FiltersOf(c) == {i \in DOMAIN query.where : query.where[i].col = c}
EqsOf(c) == {i \in FiltersOf(c) : query.where[i].op = "eq"}

\* Variant: of several filters of a column the first is checked
MatchesFirst(r) ==
  \A i \in DOMAIN query.where :
    (\A j \in FiltersOf(query.where[i].col) : i <= j)
      => r[query.where[i].col] \in Range(query.where[i].vals)
\* project_decoded: every filter is checked on the decoded row
Matches(r) ==
  \A i \in DOMAIN query.where : r[query.where[i].col] \in Range(query.where[i].vals)

\* point_key: the row address is fully known, from the first Eq of each part
IsPoint == \A i \in DOMAIN KeyColumns : EqsOf(KeyColumns[i]) # {}
IsPointKey(k) ==
  \A i \in DOMAIN KeyColumns : \A n \in EqsOf(KeyColumns[i]) :
    (\A m \in EqsOf(KeyColumns[i]) : n <= m) => k[i] = RawBytes(query.where[n].vals[1])

\* pk_restricted
IsPartitions == \A i \in DOMAIN PartitionKeys : FiltersOf(PartitionKeys[i]) # {}

\* The values of all filters of a column: which filter, and which of its values
ValuesOf(c) == UNION {{<<i, j>> : j \in DOMAIN query.where[i].vals} : i \in FiltersOf(c)}
ValueAt(x) == query.where[x[1]].vals[x[2]]

\* partitions: every combination of the values of the partition key's parts,
\* the last part varying fastest
Partitions ==
  {p \in [DOMAIN PartitionKeys -> UNION {ValuesOf(c) : c \in Range(PartitionKeys)}] :
     \A i \in DOMAIN PartitionKeys : p[i] \in ValuesOf(PartitionKeys[i])}
Earlier(p, q) ==
  \E i \in DOMAIN PartitionKeys : Less(p[i], q[i]) /\ \A j \in 1 .. i - 1 : p[j] = q[j]

\* for_each_in_partition: the entries that begin with the partition's key, on
\* the engine its first part belongs to
InPartition(p) ==
  {r \in rows : /\ Engine[KeyOf(r)[1]] = Engine[RawBytes(ValueAt(p[1]))]
                /\ \A i \in DOMAIN PartitionKeys : KeyOf(r)[i] = RawBytes(ValueAt(p[i]))}

\* for_each_in_table, on one engine
OnEngine(e) == {r \in rows : Engine[KeyOf(r)[1]] = e}

\* page_limit: the smaller of page size and LIMIT, or the hard cap
PageLimit ==
  LET given == {query.limit, query.pageSize} \ {None}
  IN  IF given = {} THEN HardCap ELSE CHOOSE n \in given : \A m \in given : n <= m

-----------------------------------------------------------------------------
\* An entry at or before the paging state is passed over
Skipped(k) == resume # None /\ ~KeyLess(resume, k)

\* The point lookup: its row is checked, LIMIT and paging are not looked at
Lookup ==
  /\ pc = "plan" /\ IsPoint
  /\ LET found == {r \in rows : IsPointKey(KeyOf(r)) /\ Matches(r)}
     IN  \/ \E r \in found : out' = <<r>>
         \/ found = {} /\ out' = <<>>
  /\ pc' = "reply"
  /\ UNCHANGED <<rows, query, resume, todo, ahead, last, got>>

\* A scan, of the partitions or of the table
StartScan ==
  /\ pc = "plan" /\ ~IsPoint
  /\ todo' = IF IsPartitions THEN Partitions ELSE 0 .. Engines - 1
  /\ pc' = "next"
  /\ UNCHANGED <<rows, query, resume, ahead, out, last, got>>

\* The iterator of the next partition is opened
NextPartition(p) ==
  /\ pc = "next" /\ IsPartitions
  /\ p \in todo /\ \A q \in todo \ {p} : Earlier(p, q)
  /\ todo' = todo \ {p}
  /\ ahead' = InPartition(p)
  /\ pc' = "scan"
  /\ UNCHANGED <<rows, query, resume, out, last, got>>

\* The iterator of the next engine is opened
NextEngine(e) ==
  /\ pc = "next" /\ ~IsPartitions
  /\ e \in todo /\ \A d \in todo : e <= d
  /\ todo' = todo \ {e}
  /\ ahead' = OnEngine(e)
  /\ pc' = "scan"
  /\ UNCHANGED <<rows, query, resume, out, last, got>>

Skip(r) ==
  /\ pc = "scan" /\ r \in Leading(ahead)
  /\ Skipped(KeyOf(r))
  /\ ahead' = ahead \ {r}
  /\ UNCHANGED <<rows, query, resume, todo, out, last, pc, got>>

\* The page is full before the entry: the scan stops there
Full(r) ==
  /\ pc = "scan" /\ r \in Leading(ahead)
  /\ ~Skipped(KeyOf(r))
  /\ Len(out) >= PageLimit
  /\ last' = KeyOf(r)
  /\ pc' = "reply"
  /\ UNCHANGED <<rows, query, resume, todo, ahead, out, got>>

\* handle_entry: a row that fills the page ends the scan, and then the
\* callback does not record its key
HandleEntry(r) ==
  /\ pc = "scan" /\ r \in Leading(ahead)
  /\ ~Skipped(KeyOf(r))
  /\ Len(out) < PageLimit
  /\ out' = IF Matches(r) THEN Append(out, r) ELSE out
  /\ ahead' = ahead \ {r}
  /\ pc' = IF Len(out') >= PageLimit THEN "reply" ELSE "scan"
  /\ UNCHANGED <<rows, query, resume, todo, last, got>>

\* The iterator is at its end.  The loop over the partitions, not the one over
\* the engines, also ends when the page is full
EndOfIterator ==
  /\ pc = "scan" /\ ahead = {}
  /\ pc' = IF IsPartitions /\ Len(out) >= PageLimit THEN "reply" ELSE "next"
  /\ UNCHANGED <<rows, query, resume, todo, ahead, out, last, got>>

EndOfScan ==
  /\ pc = "next" /\ todo = {}
  /\ pc' = "reply"
  /\ UNCHANGED <<rows, query, resume, todo, ahead, out, last, got>>

\* has_more
HasMore ==
  /\ last # None
  /\ ~IsPoint
  /\ \/ query.pageSize # None /\ Len(out) >= query.pageSize
     \/ query.pageSize = None /\ query.limit = None /\ Len(out) >= HardCap

\* finish_select; the client asks for the next page if there is one
Reply ==
  /\ pc = "reply"
  /\ got' = got \o out
  /\ out' = <<>> /\ last' = None
  /\ todo' = {} /\ ahead' = {}
  /\ IF HasMore THEN resume' = last /\ pc' = "plan"
                ELSE resume' = None /\ pc' = "done"
  /\ UNCHANGED <<rows, query>>

-----------------------------------------------------------------------------
Init ==
  /\ rows \in Tables
  /\ query \in [where : Wheres, limit : Limits, pageSize : PageSizes]
  /\ resume = None
  /\ todo = {} /\ ahead = {}
  /\ out = <<>>
  /\ last = None
  /\ pc = "plan"
  /\ got = <<>>

Next ==
  \/ Lookup \/ StartScan
  \/ \E u \in todo : NextPartition(u) \/ NextEngine(u)
  \/ \E r \in ahead : Skip(r) \/ Full(r) \/ HandleEntry(r)
  \/ EndOfIterator \/ EndOfScan \/ Reply

Spec == Init /\ [][Next]_vars

-----------------------------------------------------------------------------
\* The rows the WHERE clause describes
Matching == {r \in rows : \A i \in DOMAIN query.where :
               \E v \in Range(query.where[i].vals) : r[query.where[i].col] = v}

\* The partitions are scanned, and the clause names a value of a part of the
\* partition key twice, in an IN list or in two restrictions
NamesTwice ==
  /\ ~IsPoint /\ IsPartitions
  /\ \E c \in Range(PartitionKeys) :
       \E x, y \in ValuesOf(c) : x # y /\ RawBytes(ValueAt(x)) = RawBytes(ValueAt(y))

\* The statement has no LIMIT, and its result was cut at the hard cap
CutAtHardCap == query.limit = None /\ Len(got) >= HardCap

\* Every plan gives the answer the statement asks for: rows of the table that
\* meet all restrictions, each once unless the clause names a partition twice;
\* and without a page size all of them, or as many as LIMIT says.  A result
\* that was cut at the hard cap is not claimed to be complete
AnswersQuery ==
  pc = "done" =>
    /\ Range(got) \subseteq Matching
    /\ NamesTwice \/ \A i, j \in DOMAIN got : got[i] = got[j] => i = j
    /\ query.pageSize = None /\ ~CutAtHardCap =>
         \/ Range(got) = Matching
         \/ ~IsPoint /\ Len(got) = query.limit

\* The order of values of a type in CQL
Precedes(v, w) ==
  \/ v[1] = "int" /\ v[2] < w[2]
  \/ v[1] = "text" /\ \/ Less(v[2], w[2])
                      \/ Len(v[2]) < Len(w[2]) /\ \A i \in DOMAIN v[2] : v[2][i] = w[2][i]

\* Values whose bytes are sure to sort as they do: numbers of one sign, texts
\* of one length
SortAlike(v, w) ==
  \/ v[1] = "int" /\ w[1] = "int" /\ (v[2] < 0 <=> w[2] < 0)
  \/ v[1] = "text" /\ w[1] = "text" /\ Len(v[2]) = Len(w[2])

\* The rows of a partition come in clustering order, whichever plan and
\* whichever engines they come from: the first clustering column in which two
\* of them differ has the lower value in the row that comes first.  Unless the
\* clause names the partition twice, and as far as the bytes of the values
\* sort as the values: a negative number comes after the others, and a shorter
\* text before a longer one
ClusteringOrder ==
  \/ NamesTwice
  \/ \A i, j \in DOMAIN out :
       i < j /\ (\A n \in DOMAIN PartitionKeys : KeyOf(out[i])[n] = KeyOf(out[j])[n]) =>
         \E c \in DOMAIN KeyColumns :
           LET v == out[i][KeyColumns[c]]
               w == out[j][KeyColumns[c]]
           IN  /\ \A b \in 1 .. c - 1 : KeyOf(out[i])[b] = KeyOf(out[j])[b]
               /\ IF SortAlike(v, w) THEN Precedes(v, w) ELSE PartLess(RawBytes(v), RawBytes(w))

\* A statement without LIMIT returns its full result, whatever page size the
\* client asks for and in however many pages
FullResult == pc = "done" /\ query.limit = None => Range(got) = Matching
=============================================================================
