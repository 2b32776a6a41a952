------------------------------ MODULE KeyCodec ------------------------------
(***************************************************************************)
(* Row keys: dt!<keyspace>!<table>! followed by the key parts, each with   *)
(* its length in front; the ranges that partition scans and range          *)
(* tombstones cover.  The state is a row a of Table and a row b of that    *)
(* table or another one, and the loop of encode_key over their key parts.  *)
(***************************************************************************)
EXTENDS KeyOrder

CONSTANTS
  MaxByte,     \* 255: bytes are 0 .. MaxByte
  Bang,        \* the byte '!'
  Table,       \* <<keyspace, table>>, two names as sequences of bytes
  Others,      \* tables the second row may be of
  Parts,       \* key parts, sequences of bytes
  LengthSpace, \* 2^16: lengths are u16
  MaxParts     \* bound of the model: parts of a key

Bytes == 0 .. MaxByte
Names == Seq(Bytes \ {Bang})

\* Identifiers without quotes have no '!'
ASSUME KeyConstants ==
  /\ MaxByte \in Nat /\ Bang \in 0 .. MaxByte - 1
  /\ \A t \in Others \cup {Table} : t \in Names \X Names
  /\ LengthSpace \in Nat /\ \A p \in Parts : p \in Seq(Bytes) /\ Len(p) < LengthSpace

VARIABLES
  a, codeA,        \* the parts of the key of a and the bytes they have become
  b, codeB, other  \* those of b, and its table

keyVars == <<a, codeA, b, codeB, other>>

-----------------------------------------------------------------------------
\* data_prefix, without the constant dt!
DataPrefix(t) == t[1] \o <<Bang>> \o t[2] \o <<Bang>>

\* Variant: the parts are only separated
SeparatedPart(p) == p \o <<Bang>>
\* encode_key, what it does with a part.  The length is written modulo 2^16;
\* its two bytes are one digit here, which only makes keys shorter
EncodedPart(p) == <<Len(p) % LengthSpace>> \o p

KeyA == DataPrefix(Table) \o codeA
KeyB == DataPrefix(other) \o codeB

StartsWith(key, prefix) ==
  Len(prefix) <= Len(key) /\ \A i \in DOMAIN prefix : key[i] = prefix[i]

Corrupt == << <<"corrupt">> >>

\* The places where decode_key_data finds the length of a part: from the
\* first one, each says where the next is
Stops(rest) ==
  LET stop[n \in 0 .. Len(rest)] ==
        IF n = 0 THEN 1
        ELSE IF stop[n - 1] <= Len(rest) THEN stop[n - 1] + 1 + rest[stop[n - 1]]
        ELSE stop[n - 1]
  IN  stop

\* The number of parts: that of the first place beyond the end
Count(rest) ==
  CHOOSE n \in 0 .. Len(rest) : /\ Stops(rest)[n] > Len(rest)
                                /\ \A m \in 0 .. n - 1 : Stops(rest)[m] <= Len(rest)

\* Variant: the end of a part is one byte early
DecodeShort(prefix, key) ==
  LET rest == SubSeq(key, Len(prefix) + 1, Len(key))
      stop == Stops(rest)
  IN  IF ~StartsWith(key, prefix) \/ stop[Count(rest)] # Len(rest) + 1 THEN Corrupt
      ELSE [i \in 1 .. Count(rest) |-> SubSeq(rest, stop[i - 1] + 1, stop[i] - 2)]
\* decode_key_data
DecodeKeyData(prefix, key) ==
  LET rest == SubSeq(key, Len(prefix) + 1, Len(key))
      stop == Stops(rest)
  IN  IF ~StartsWith(key, prefix) \/ stop[Count(rest)] # Len(rest) + 1 THEN Corrupt
      ELSE [i \in 1 .. Count(rest) |-> SubSeq(rest, stop[i - 1] + 1, stop[i] - 1)]

\* The order of RocksDB's default comparator
Before(k, l) ==
  \/ Len(k) < Len(l) /\ StartsWith(l, k)
  \/ \E i \in DOMAIN k \cap DOMAIN l :
       k[i] < l[i] /\ \A j \in 1 .. i - 1 : k[j] = l[j]

\* The last byte that can be incremented
Last(I) == CHOOSE i \in I : \A j \in I : j <= i

\* Variant: it is incremented twice
UpperBoundWide(prefix) ==
  LET I == {i \in DOMAIN prefix : prefix[i] < MaxByte}
  IN  IF I = {} THEN Corrupt ELSE [prefix EXCEPT ![Last(I)] = @ + 2]
\* prefix_upper_bound
PrefixUpperBound(prefix) ==
  LET I == {i \in DOMAIN prefix : prefix[i] < MaxByte}
  IN  IF I = {} THEN Corrupt ELSE [prefix EXCEPT ![Last(I)] = @ + 1]

\* The keys a DeleteRange of the table t removes
InRange(t, key) ==
  /\ ~Before(key, DataPrefix(t))
  /\ Before(key, PrefixUpperBound(DataPrefix(t)))

-----------------------------------------------------------------------------
KeyInit ==
  /\ a = <<>> /\ codeA = <<>>
  /\ b = <<>> /\ codeB = <<>> /\ other \in Others

AddA(p) ==
  /\ Len(a) < MaxParts
  /\ a' = Append(a, p) /\ codeA' = codeA \o EncodedPart(p)
  /\ UNCHANGED <<b, codeB, other>>

AddB(p) ==
  /\ Len(b) < MaxParts
  /\ b' = Append(b, p) /\ codeB' = codeB \o EncodedPart(p)
  /\ UNCHANGED <<a, codeA, other>>

KeyNext == \E p \in Parts : AddA(p) \/ AddB(p)

KeySpec == KeyInit /\ [][KeyNext]_keyVars

-----------------------------------------------------------------------------
\* decode_key reverses encode_key, whatever bytes the parts are made of
RoundTrip == DecodeKeyData(DataPrefix(Table), KeyA) = a

\* The entries for_each_in_partition finds by their prefix are exactly those
\* whose first parts are the partition's
PrefixIsPartition ==
  Table = other => (StartsWith(KeyB, KeyA) <=> StartsWith(b, a))

\* RocksDB keeps the rows of a table, and with them those of a partition, in
\* the order of their parts: of the first parts that differ the shorter one
\* comes first, and of two with one length the one that is less bytewise
KeysSort ==
  Table = other /\ Len(a) = Len(b) => (Before(KeyA, KeyB) <=> KeyLess(a, b))

\* The range tombstone of a table covers its own rows and no row of the other
RangeIsTable == InRange(Table, KeyA) /\ (InRange(Table, KeyB) <=> Table = other)
=============================================================================
