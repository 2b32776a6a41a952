----------------------------- MODULE Statement -----------------------------
(***************************************************************************)
(* What INSERT, UPDATE, DELETE and a point SELECT do with their columns    *)
(* and values: names resolved against the table, literals parsed and bind  *)
(* values decoded by the column's type, rows encoded, merged and projected,*)
(* and the bind variables a PREPARE announces for a later EXECUTE, between *)
(* which the table may be dropped and created with other columns.          *)
(*                                                                         *)
(* A statement is its kind, its slots (a column, the role it plays there   *)
(* and an operand) in the order in which bind values are taken, and the    *)
(* columns it selects.  An operand is <<"null">>, <<"param">>, <<"const",  *)
(* literal>> or <<"list", literals>>; an IN has one value, longer ones     *)
(* are in SelectScan.  Statements run one at a time and find the table:    *)
(* what happens otherwise is in RowStore and SchemaStore.                  *)
(***************************************************************************)
EXTENDS RowCodec, FiniteSetsExt

CONSTANTS Defs,        \* the table definitions: columns, and the names of the key's
          Queries,     \* the statements clients send in a QUERY
          Prepares,    \* and in a PREPARE
          Lower,       \* names -> names: to_lowercase
          Parse,       \* literal -> scalar type -> parse_literal's value or Bad
          BindValues   \* type -> the values clients bind

VARIABLES table,     \* the table's definition now
          store,     \* raw key parts of each stored row -> its bytes
          prepared,  \* the prepared statement and what was announced for it
          meant,     \* what clients take the table to hold, by names and values
          doubt      \* why the client may be wrong about this table, see Doubts

vars == <<table, store, prepared, meant, doubt>>

NoStatement == [stmt |-> [kind |-> "none"], specs |-> <<>>]
Param == <<"param">>

Columns == table.columns
KeyCols == {c \in DOMAIN Columns : Columns[c].isKey}
\* The regular columns, in their order
Regular == SelectSeq([c \in DOMAIN Columns |-> c], LAMBDA c : c \notin KeyCols)

-----------------------------------------------------------------------------
(* Names *)

\* norm_id
NormId(id) == IF id.quoted THEN id.name ELSE Lower[id.name]
\* ident_eq
IdentEq(id, name) == IF id.quoted THEN id.name = name ELSE Lower[id.name] = Lower[name]

First(S) == IF S = {} THEN 0 ELSE Min(S)
\* table.column_index(&name), 0 for none
ColumnIndex(name) == First({c \in DOMAIN Columns : Columns[c].name = name})
\* The position of the first column an identifier is equal to, 0 for none
IdentIndex(id) == First({c \in DOMAIN Columns : IdentEq(id, Columns[c].name)})

\* An assignment of UPDATE goes by the normalized name, the rest by ident_eq
SlotColumn(s, i) ==
  IF s.kind = "update" /\ s.slots[i].role = "set"
  THEN ColumnIndex(NormId(s.slots[i].id))
  ELSE IdentIndex(s.slots[i].id)

-----------------------------------------------------------------------------
(* Values *)

\* Binds.take: the bytes of the n-th bind value, decoded by the type of the column
\* they are for
Take(n, type, binds) ==
  IF n > Len(binds) THEN Bad
  ELSE IF binds[n] = Null THEN Null ELSE FromRaw(Raw(binds[n]), type)

\* Value::parse_literal
ParseLiteral(lit, type) == IF type[1] = "list" THEN Bad ELSE Parse[lit][type[1]]

\* operand_to_value, and the operands parse_filters accepts; n is the number of
\* the operand among the statement's bind markers
OperandValue(slot, type, n, binds) ==
  LET o == slot.val
      items == [i \in DOMAIN o[2] |-> Parse[o[2][i]][type[2]]]
  IN  CASE o[1] = "null" -> IF slot.role = "in" THEN Bad ELSE Null
        [] o[1] = "param" -> Take(n, type, binds)
        [] o[1] = "const" -> ParseLiteral(o[2], type)
        [] o[1] = "list" -> IF slot.role # "set" \/ type[1] # "list" \/ Bad \in Range(items)
                            THEN Bad ELSE <<"list", items>>

\* How many of the first i operands are bind markers
Markers(s, i) == Cardinality({j \in 1 .. i : s.slots[j].val = Param})

SlotValue(s, i, binds) ==
  LET c == SlotColumn(s, i)
  IN  IF c = 0 THEN Bad ELSE OperandValue(s.slots[i], Columns[c].type, Markers(s, i), binds)

SlotsOf(s, role) == {i \in DOMAIN s.slots : s.slots[i].role = role}

-----------------------------------------------------------------------------
(* Statements: what they put or delete *)

Refused == [op |-> "refused"]
Panicked == [op |-> "panicked"]

\* Variant: a Null is a key part like any other
KeyPartsNull(value) ==
  LET vals == [i \in DOMAIN table.key |-> value[ColumnIndex(table.key[i])]]
  IN  IF \E i \in DOMAIN vals : vals[i] = Bad THEN <<>>
      ELSE [i \in DOMAIN vals |-> Raw(vals[i])]
\* The raw key parts from one value for each key column, <<>> when one is missing or Null
KeyParts(value) ==
  LET vals == [i \in DOMAIN table.key |-> value[ColumnIndex(table.key[i])]]
  IN  IF \E i \in DOMAIN vals : vals[i] \in {Null, Bad} THEN <<>>
      ELSE [i \in DOMAIN vals |-> Raw(vals[i])]

\* The values of the regular columns, as they are stored
RowOf(value) == EncodeRow([i \in DOMAIN Regular |-> [idx |-> Regular[i], val |-> value[Regular[i]]]])

\* exec_insert: the last value given for a column counts, a regular column
\* without one becomes Null
ExecInsert(s, binds) ==
  LET given(c) == {i \in DOMAIN s.slots : SlotColumn(s, i) = c}
      resolved == [c \in DOMAIN Columns |->
                     IF given(c) # {} THEN SlotValue(s, Max(given(c)), binds) ELSE Null]
      key == KeyParts(resolved)
  IN  IF key = <<>> THEN Refused ELSE [op |-> "put", key |-> key, row |-> RowOf(resolved)]

\* key_parts_from_filters: the first = on each key column
KeyPartsFromFilters(s, binds) ==
  LET eqs(c) == {i \in SlotsOf(s, "eq") : SlotColumn(s, i) = c}
  IN  KeyParts([c \in DOMAIN Columns |->
                  IF eqs(c) # {} THEN SlotValue(s, Min(eqs(c)), binds) ELSE Bad])

\* exec_delete
ExecDelete(s, binds) ==
  LET key == KeyPartsFromFilters(s, binds)
  IN  IF key = <<>> THEN Refused ELSE [op |-> "delete", key |-> key]

\* covers_all_regular
CoversAllRegular(s) ==
  /\ Cardinality(SlotsOf(s, "set")) = Len(Regular)
  /\ Cardinality({SlotColumn(s, i) : i \in SlotsOf(s, "set")}) = Len(Regular)

\* exec_update: without a read when every regular column is assigned, where the
\* lookup of one that is not panics; otherwise merged into the stored row
ExecUpdate(s, binds) ==
  LET key == KeyPartsFromFilters(s, binds)
      set(c) == {i \in SlotsOf(s, "set") : SlotColumn(s, i) = c}
      existing == IF key \in DOMAIN store /\ ~CoversAllRegular(s)
                  THEN DecodeRow(store[key], Columns)
                  ELSE [out |-> [c \in DOMAIN Columns |-> Null], ok |-> TRUE]
      merged == [c \in DOMAIN Columns |->
                   IF set(c) # {} THEN SlotValue(s, Max(set(c)), binds) ELSE existing.out[c]]
  IN  IF key = <<>> \/ ~existing.ok THEN Refused
      ELSE IF CoversAllRegular(s) /\ \E i \in DOMAIN Regular : set(Regular[i]) = {} THEN Panicked
      ELSE [op |-> "put", key |-> key, row |-> RowOf(merged)]

\* execute_statement, of the statements that write rows
Outcome(s, binds) ==
  IF \E i \in DOMAIN s.slots : SlotValue(s, i, binds) = Bad THEN Refused
  ELSE CASE s.kind = "insert" -> ExecInsert(s, binds)
         [] s.kind = "update" -> ExecUpdate(s, binds)
         [] s.kind = "delete" -> ExecDelete(s, binds)
         [] OTHER -> Refused

-----------------------------------------------------------------------------
(* A point SELECT *)

\* selected_idxs: the columns of the table that have the names the result's
\* columns are given, a 0 being an unwrap of None
SelectedIdxs(s) ==
  IF s.cols = <<>> THEN [c \in DOMAIN Columns |-> c]
  ELSE [i \in DOMAIN s.cols |-> ColumnIndex(NormId(s.cols[i].as))]

\* Variant: the restrictions on other columns do not matter
IsFastAnyway(s) == Len(table.key) = 1
\* fast in exec_select
IsFast(s) ==
  /\ Len(table.key) = 1
  /\ SlotsOf(s, "in") = {}
  /\ Len(s.slots) = 1
  /\ SlotColumn(s, 1) \in KeyCols

\* The values of a key column, from the row's address
KeyColumn(key, c) ==
  LET pos == CHOOSE i \in DOMAIN table.key : table.key[i] = Columns[c].name
  IN  FromRaw(key[pos], Columns[c].type)

\* project_fast_point and project_decoded: the projected row, if it is one
Projected(s, key) ==
  LET decoded == DecodeRow(store[key], Columns).out
      row == [c \in DOMAIN Columns |-> IF c \in KeyCols THEN KeyColumn(key, c) ELSE decoded[c]]
      fast(c) == IF c \in KeyCols THEN KeyColumn(key, c) ELSE FastColumn(store[key], Columns, c)
      idxs == SelectedIdxs(s)
  IN  IF IsFast(s) THEN {[i \in DOMAIN idxs |-> fast(idxs[i])]}
      ELSE IF \E i \in DOMAIN s.slots : row[SlotColumn(s, i)] # SlotValue(s, i, <<>>) THEN {}
      ELSE {[i \in DOMAIN idxs |-> row[idxs[i]]]}

\* exec_select's point lookup
Answer(s) ==
  LET key == KeyPartsFromFilters(s, <<>>)
  IN  IF key \in DOMAIN store THEN Projected(s, key) ELSE {}

-----------------------------------------------------------------------------
(* What clients mean by a statement, whose i-th slot has the value vals[i] *)

Names == {Columns[c].name : c \in DOMAIN Columns}
KeyNames == {table.key[i] : i \in DOMAIN table.key}

\* The value given to a name in some role, Null when there is none
Given(s, role, vals, name) ==
  LET is == {i \in SlotsOf(s, role) : NormId(s.slots[i].id) = name}
  IN  IF is = {} THEN Null ELSE vals[Max(is)]

KeyRole(s) == IF s.kind = "insert" THEN "set" ELSE "eq"

\* The statement names columns of the table, has values of their types, and says
\* which row it is about and nothing else of it
MakesSense(s, vals) ==
  /\ s.kind \in {"insert", "update", "delete"}
  /\ \A i \in DOMAIN s.slots : NormId(s.slots[i].id) \in Names /\ vals[i] # Bad
  /\ \A n \in KeyNames : Given(s, KeyRole(s), vals, n) # Null
  /\ \A i \in SlotsOf(s, "eq") : NormId(s.slots[i].id) \in KeyNames

\* The table's rows after the statement: INSERT replaces, UPDATE merges
Meaning(s, vals) ==
  LET key == [n \in KeyNames |-> Given(s, KeyRole(s), vals, n)]
      assigned == {NormId(s.slots[i].id) : i \in SlotsOf(s, "set")}
      old(n) == IF s.kind = "update" /\ key \in DOMAIN meant THEN meant[key][n] ELSE Null
      row == [n \in Names \ KeyNames |-> IF n \in assigned THEN Given(s, "set", vals, n) ELSE old(n)]
  IN  IF ~MakesSense(s, vals) THEN meant
      ELSE IF s.kind = "delete" THEN [k \in DOMAIN meant \ {key} |-> meant[k]]
      ELSE [k \in DOMAIN meant \cup {key} |-> IF k = key THEN row ELSE meant[k]]

\* Where the code and the client go by different rules:
\*   "case"   an unquoted name is another column's, up to its case
\*   "key"    UPDATE assigns a key column, which is ignored or panics
\*   "extra"  UPDATE or DELETE restricts a regular column, which is ignored
\*   "mixed"  PREPARE announced a bind variable for a column given by a literal
\*   "type"   a bind variable was announced with a type the column no longer has
Doubts(s, specs) ==
  LET norm(i) == NormId(s.slots[i].id)
  IN  UNION {
        {"case" : i \in {j \in DOMAIN s.slots : IdentIndex(s.slots[j].id) # ColumnIndex(norm(j))}},
        {"key" : i \in {j \in SlotsOf(s, "set") : s.kind = "update" /\ norm(j) \in KeyNames}},
        {"extra" : i \in {j \in SlotsOf(s, "eq") : s.kind # "select" /\ norm(j) \notin KeyNames}},
        {"mixed" : i \in {j \in DOMAIN specs : Len(specs) # Markers(s, Len(s.slots))}},
        {"type" : i \in {j \in DOMAIN specs : \E c \in DOMAIN Columns :
                            Columns[c].name = specs[j].name /\ Columns[c].type # specs[j].type}}}

-----------------------------------------------------------------------------
(* Requests *)

\* A statement with its bind values, and the value its client gives in each slot
Run(s, binds, vals, specs) ==
  \E out \in {Outcome(s, binds)} :
      /\ store' = CASE out.op = "put" -> [k \in DOMAIN store \cup {out.key} |->
                                            IF k = out.key THEN out.row ELSE store[k]]
                    [] out.op = "delete" -> [k \in DOMAIN store \ {out.key} |-> store[k]]
                    [] OTHER -> store
      /\ doubt' = doubt \cup Doubts(s, specs)
      /\ meant' = IF doubt' = {} THEN Meaning(s, vals) ELSE <<>>
      /\ UNCHANGED <<table, prepared>>

\* QUERY without bind values
Query(s) == Run(s, <<>>, [i \in DOMAIN s.slots |-> SlotValue(s, i, <<>>)], <<>>)

\* Variant: the bind variables of the WHERE clause are announced first
BindSpecsReversed(s) ==
  LET bound == Reverse(SelectSeq(s.slots, LAMBDA slot : slot.role = "set" \/ slot.val = Param))
      name(i) == NormId(bound[i].id)
  IN  [i \in DOMAIN bound |-> [name |-> name(i), type |-> Columns[ColumnIndex(name(i))].type]]
\* bind_specs in prepared_info: every column of INSERT and every assignment of
\* UPDATE, whatever its value, then the bind markers of the WHERE clause
BindSpecs(s) ==
  LET bound == SelectSeq(s.slots, LAMBDA slot : slot.role = "set" \/ slot.val = Param)
      name(i) == NormId(bound[i].id)
  IN  [i \in DOMAIN bound |-> [name |-> name(i), type |-> Columns[ColumnIndex(name(i))].type]]

\* PREPARE, refused when a column is not the table's
Prepare(s) ==
  /\ \A i \in DOMAIN s.slots : ColumnIndex(NormId(s.slots[i].id)) # 0
  /\ prepared' = [stmt |-> s, specs |-> BindSpecs(s)]
  /\ UNCHANGED <<table, store, meant, doubt>>

\* EXECUTE with a value for every announced bind variable, of its announced type,
\* which the client gives for the column of the announced name
Execute ==
  LET s == prepared.stmt
      specs == prepared.specs
      named(i) == CHOOSE j \in DOMAIN specs : specs[j].name = NormId(s.slots[i].id)
  IN  /\ s.kind # "none"
      /\ \E binds \in [DOMAIN specs -> UNION Range(BindValues)] :
           /\ \A j \in DOMAIN specs : binds[j] \in BindValues[specs[j].type]
           /\ Run(s, binds, [i \in DOMAIN s.slots |->
                               IF s.slots[i].val = Param THEN binds[named(i)]
                               ELSE SlotValue(s, i, <<>>)], specs)

\* DROP TABLE and CREATE TABLE: the rows are gone, what was prepared stays
Redefine(d) ==
  /\ table' = d
  /\ store' = <<>>
  /\ meant' = <<>>
  /\ doubt' = {}
  /\ UNCHANGED prepared

Init ==
  /\ table \in Defs
  /\ store = <<>>
  /\ prepared = NoStatement
  /\ meant = <<>>
  /\ doubt = {}

Next ==
  \/ \E s \in Queries : Query(s)
  \/ \E s \in Prepares : Prepare(s)
  \/ Execute
  \/ \E d \in Defs : Redefine(d)

Spec == Init /\ [][Next]_vars

-----------------------------------------------------------------------------
(* Properties *)

\* The rows as clients see them, from the stored bytes
Stored ==
  {[key |-> [n \in KeyNames |-> KeyColumn(k, ColumnIndex(n))],
    row |-> [n \in Names \ KeyNames |-> DecodeRow(store[k], Columns).out[ColumnIndex(n)]]] :
      k \in DOMAIN store}

\* Type invariant: the variables of the statement engine are what they are
\* declared to be, and a stored row is addressed by all its key parts
TypeOK ==
  /\ table \in Defs
  /\ \A k \in DOMAIN store : Len(k) = Len(table.key) /\ \A c \in KeyCols : KeyColumn(k, c) # Bad
  /\ prepared = NoStatement \/ prepared.stmt \in Prepares
  /\ doubt \subseteq {"case", "key", "extra", "mixed", "type"}

\* Whatever was inserted and merged, by literals or by bytes a client bound, a
\* stored row can be decoded, and the column that project_fast_point picks from
\* its bytes is the one decode_row_columns finds
FastIsDecoded ==
  \A k \in DOMAIN store : LET row == DecodeRow(store[k], Columns) IN
    /\ row.ok
    /\ \A i \in DOMAIN Regular : FastColumn(store[k], Columns, Regular[i]) = row.out[Regular[i]]

\* A statement changes the table as its client means it, by the names of columns
\* and the values given for them, literally or for the bind variables that
\* PREPARE announced, and also when the table was created anew with its columns
\* in another order.  It is refused only when it makes no sense
StoredAsMeant ==
  doubt = {} => Stored = {[key |-> k, row |-> meant[k]] : k \in DOMAIN meant}

\* A SELECT of a row by its key, by either path of exec_select, returns the
\* selected columns of the row meant, if it satisfies the other restrictions
AnswersAsMeant ==
  \A s \in {q \in Queries : q.kind = "select"} :
    LET vals == [i \in DOMAIN s.slots |-> SlotValue(s, i, <<>>)]
        cols == IF s.cols = <<>> THEN [c \in DOMAIN Columns |-> Columns[c].name]
                ELSE [i \in DOMAIN s.cols |-> NormId(s.cols[i].id)]
        value(k, n) == IF n \in KeyNames THEN k[n] ELSE meant[k][n]
    IN  /\ doubt = {} /\ Doubts(s, <<>>) = {}
        /\ KeyPartsFromFilters(s, <<>>) # <<>>
        /\ \A i \in DOMAIN vals : vals[i] # Bad
        /\ \A i \in DOMAIN cols : cols[i] \in Names
        /\ \A i \in DOMAIN s.cols : s.cols[i].as = s.cols[i].id
        => Answer(s) = {[i \in DOMAIN cols |-> value(k, cols[i])] :
                          k \in {m \in DOMAIN meant : \A i \in DOMAIN vals :
                                    value(m, NormId(s.slots[i].id)) = vals[i]}}
=============================================================================
