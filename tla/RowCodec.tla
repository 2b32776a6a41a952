------------------------------ MODULE RowCodec ------------------------------
(***************************************************************************)
(* CQL values as bytes, and a row of them as the value stored under its    *)
(* key.  A value is <<"int", n>>, <<"tiny", n>>, <<"text", bytes>> or      *)
(* <<"list", values>>, which stands for sets and maps as well; its type is *)
(* <<"int">>, ..., <<"list", element>>.  Elements are scalars, as in every *)
(* type from_data_type builds.  A length, a count or a column index takes  *)
(* one place of a byte sequence here.                                      *)
(***************************************************************************)
EXTENDS Integers, SequencesExt

Null == <<"null">>
\* Err (or a panic, of raw[0] of no byte): what is read is no value of the type
Bad == <<"error">>

\* raw_bytes of a scalar: of fixed width, or as long as it is
ScalarRaw(v) ==
  CASE v[1] = "int" -> <<v[2] \div 256, v[2] % 256>>
    [] v[1] = "tiny" -> <<v[2]>>
    [] v[1] = "text" -> v[2]
    [] v[1] = "null" -> <<>>

\* write_wire of a scalar: its length and its bytes, or -1 for Null
ScalarWire(v) == IF v = Null THEN <<-1>> ELSE <<Len(ScalarRaw(v))>> \o ScalarRaw(v)

\* raw_bytes
Raw(v) ==
  IF v[1] = "list"
  THEN <<Len(v[2])>> \o FlattenSeq([i \in DOMAIN v[2] |-> ScalarWire(v[2][i])])
  ELSE ScalarRaw(v)

\* write_wire
Wire(v) == IF v = Null THEN <<-1>> ELSE <<Len(Raw(v))>> \o Raw(v)

\* from_wire of a scalar.  An int must have its width; of a tinyint or boolean
\* the first byte is taken
FromScalar(raw, type) ==
  CASE type = "int" -> IF Len(raw) = 2 THEN <<"int", raw[1] * 256 + raw[2]>> ELSE Bad
    [] type = "tiny" -> IF raw = <<>> THEN Bad ELSE <<"tiny", raw[1]>>
    [] type = "text" -> <<"text", raw>>

RECURSIVE Elements(_, _, _, _)
\* from_wire of a collection's elements, from raw[off] on and after vals, as many
\* as raw[1] says and none of them Null
Elements(raw, elem, off, vals) ==
  LET len == raw[off]
      v == FromScalar(SubSeq(raw, off + 1, off + len), elem)
  IN  IF Len(vals) = raw[1] THEN <<"list", vals>>
      ELSE IF off > Len(raw) \/ len < 0 \/ off + len > Len(raw) \/ v = Bad THEN Bad
      ELSE Elements(raw, elem, off + 1 + len, Append(vals, v))

\* from_raw_bytes and from_wire: a collection is a count and its elements
FromRaw(raw, type) ==
  IF type[1] # "list" THEN FromScalar(raw, type[1])
  ELSE IF raw = <<>> \/ raw[1] < 0 THEN Bad
  ELSE Elements(raw, type[2], 2, <<>>)

-----------------------------------------------------------------------------
\* encode_row_columns, of pairs of a column's index and a value
EncodeRow(cols) == FlattenSeq([i \in DOMAIN cols |-> <<cols[i].idx>> \o Wire(cols[i].val)])

RECURSIVE DecodeFrom(_, _, _, _)
\* decode_row_columns' loop at data[off], with the columns decoded before
DecodeFrom(data, columns, off, out) ==
  LET idx == data[off]
      len == data[off + 1]
      v == IF len = -1 THEN Null
           ELSE FromRaw(SubSeq(data, off + 2, off + 1 + len), columns[idx].type)
  IN  IF off > Len(data) THEN [ok |-> TRUE, out |-> out]
      ELSE IF \/ idx \notin DOMAIN columns
              \/ off + 1 > Len(data)
              \/ len < -1
              \/ off + 1 + len > Len(data)
              \/ v = Bad
           THEN [ok |-> FALSE, out |-> out]
      ELSE DecodeFrom(data, columns, off + 2 + (IF len = -1 THEN 0 ELSE len), [out EXCEPT ![idx] = v])

\* decode_row_columns: out is the value of every column, Null where data has none
DecodeRow(data, columns) == DecodeFrom(data, columns, 1, [c \in DOMAIN columns |-> Null])

\* Variant: a Null is passed over as if its length were one of bytes
SkipLength(len) == len
\* How many bytes follow the length of a value that is passed over
Skip(len) == IF len = -1 THEN 0 ELSE len

RECURSIVE FastFrom(_, _, _, _)
\* project_fast_point's loop at data[off]: the column is found by passing over
\* those before it
FastFrom(data, columns, idx, off) ==
  LET len == data[off + 1]
  IN  IF off > Len(data) THEN Null
      ELSE IF off + 1 > Len(data) THEN Bad
      ELSE IF data[off] # idx THEN FastFrom(data, columns, idx, off + 2 + Skip(len))
      ELSE IF len = -1 THEN Null
      ELSE IF off + 1 + len > Len(data) THEN Bad
      ELSE FromRaw(SubSeq(data, off + 2, off + 1 + len), columns[idx].type)

\* project_fast_point, of one column
FastColumn(data, columns, idx) == FastFrom(data, columns, idx, 1)
=============================================================================
