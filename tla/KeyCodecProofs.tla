--------------------------- MODULE KeyCodecProofs ---------------------------
(***************************************************************************)
(* Proofs about KeyCodec, for any names without '!', any bytes and any     *)
(* number of key parts.                                                    *)
(***************************************************************************)
EXTENDS KeyCodec, WellFoundedInduction, TLAPS

-----------------------------------------------------------------------------
\* The natural numbers are well-founded, as a relation the provers can use
Smaller == {p \in Nat \X Nat : p[1] < p[2]}

\* A nonempty set of numbers has a least one
LEMMA Least ==
  ASSUME NEW S \in SUBSET Nat, S # {}
  PROVE  \E m \in S : \A n \in S : m <= n
<1>1. OpToRel(<, Nat) = Smaller
  BY DEF OpToRel, Smaller
<1>2. IsWellFoundedOn(Smaller, Nat)
  BY ZenonT(30), <1>1, NatLessThanWellFounded
<1>3. PICK m \in S : \A n \in S : ~(<<n, m>> \in Smaller)
  BY Zenon, <1>2, WFMin
<1>4. m \in Nat /\ \A n \in S : n \in Nat
  OBVIOUS
<1>5. \A n \in S : ~(n < m)
  BY <1>3, <1>4 DEF Smaller
<1>6. \A n \in S : m <= n
  BY <1>4, <1>5
<1>. QED  BY <1>6

-----------------------------------------------------------------------------
\* The places of the lengths in the bytes that encode_key made of some parts
Places(parts, code, st) ==
  /\ st \in [1 .. Len(parts) + 1 -> Nat]
  /\ st[1] = 1 /\ st[Len(parts) + 1] = Len(code) + 1
  /\ \A n \in 1 .. Len(parts) :
       /\ n <= st[n] /\ st[n + 1] = st[n] + 1 + Len(parts[n])
       /\ st[n] + Len(parts[n]) <= Len(code) /\ code[st[n]] = Len(parts[n])
       /\ \A i \in 1 .. Len(parts[n]) : code[st[n] + i] = parts[n][i]
  /\ \A x \in 1 .. Len(code) : \E n \in 1 .. Len(parts) : \E i \in 0 .. Len(parts[n]) : x = st[n] + i

\* One part after the other, each with its length in front
Encoded(parts, code) ==
  /\ parts \in Seq(Seq(Bytes)) /\ code \in Seq(Nat) /\ Len(parts) <= Len(code)
  /\ \E st : Places(parts, code, st)

\* The loop of encode_key adds a part at the end
LEMMA AddEncoded ==
  ASSUME NEW parts, NEW code, Encoded(parts, code), NEW p \in Parts
  PROVE  Encoded(Append(parts, p), code \o EncodedPart(p))
<1>. DEFINE qs == Append(parts, p)
            d == code \o EncodedPart(p)
<1>1. PICK st : Places(parts, code, st)
  BY DEF Encoded
<1>2. /\ parts \in Seq(Seq(Bytes)) /\ code \in Seq(Nat) /\ Len(parts) \in Nat /\ Len(code) \in Nat
      /\ Len(parts) <= Len(code)
  BY DEF Encoded
<1>3. p \in Seq(Bytes) /\ Len(p) \in Nat /\ Len(p) % LengthSpace = Len(p) /\ p \in Seq(Nat)
  BY KeyConstants DEF Bytes
<1>4. EncodedPart(p) = <<Len(p)>> \o p /\ EncodedPart(p) \in Seq(Nat)
  BY <1>3 DEF EncodedPart
<1>5. /\ Len(EncodedPart(p)) = 1 + Len(p) /\ EncodedPart(p)[1] = Len(p)
      /\ \A i \in 1 .. Len(p) : EncodedPart(p)[1 + i] = p[i]
  BY <1>3, <1>4
<1>6. /\ d \in Seq(Nat) /\ Len(d) = Len(code) + 1 + Len(p)
      /\ \A i \in 1 .. Len(code) : d[i] = code[i]
      /\ d[Len(code) + 1] = Len(p)
      /\ \A i \in 1 .. Len(p) : d[Len(code) + 1 + i] = p[i]
  BY <1>2, <1>3, <1>4, <1>5
<1>7. /\ qs \in Seq(Seq(Bytes)) /\ Len(qs) = Len(parts) + 1 /\ qs[Len(parts) + 1] = p
      /\ \A n \in 1 .. Len(parts) : qs[n] = parts[n]
  BY <1>2, <1>3
<1>8. \A n \in 1 .. Len(parts) : parts[n] \in Seq(Bytes) /\ Len(parts[n]) \in Nat
  BY <1>2
<1>. HIDE DEF d, qs
<1>. DEFINE tt == [n \in 1 .. Len(parts) + 2 |->
                    IF n <= Len(parts) + 1 THEN st[n] ELSE Len(d) + 1]
<1>9. /\ tt \in [1 .. Len(qs) + 1 -> Nat] /\ tt[1] = 1 /\ tt[Len(qs) + 1] = Len(d) + 1
      /\ \A n \in 1 .. Len(parts) + 1 : tt[n] = st[n]
      /\ tt[Len(parts) + 1] = Len(code) + 1
  <2>1. st \in [1 .. Len(parts) + 1 -> Nat] /\ st[1] = 1 /\ st[Len(parts) + 1] = Len(code) + 1
    BY Zenon, <1>1 DEF Places
  <2>2. Len(parts) \in Nat /\ Len(d) \in Nat /\ Len(qs) = Len(parts) + 1
    BY <1>2, <1>3, <1>6, <1>7
  <2>3. \A n \in 1 .. Len(parts) + 1 : tt[n] = st[n]
    BY <2>2
  <2>4. tt[Len(parts) + 2] = Len(d) + 1
    BY <2>2
  <2>5. tt \in [1 .. Len(parts) + 2 -> Nat]
    BY <2>1, <2>2
  <2>. HIDE DEF tt
  <2>6. tt[1] = 1 /\ tt[Len(parts) + 1] = Len(code) + 1 /\ Len(qs) + 1 = Len(parts) + 2
    BY <2>1, <2>2, <2>3
  <2>. QED  BY Zenon, <2>3, <2>4, <2>5, <2>6
<1>. HIDE DEF tt
<1>10. ASSUME NEW n \in 1 .. Len(qs)
       PROVE  /\ n <= tt[n] /\ tt[n + 1] = tt[n] + 1 + Len(qs[n])
              /\ tt[n] + Len(qs[n]) <= Len(d) /\ d[tt[n]] = Len(qs[n])
              /\ \A i \in 1 .. Len(qs[n]) : d[tt[n] + i] = qs[n][i]
  <2>1. CASE n \in 1 .. Len(parts)
    <3>0. n \in Nat /\ n \in 1 .. Len(parts) + 1 /\ n + 1 \in 1 .. Len(parts) + 1
      BY <1>2, <2>1
    <3>1. /\ tt[n] = st[n] /\ tt[n + 1] = st[n + 1] /\ qs[n] = parts[n]
          /\ n <= st[n] /\ st[n + 1] = st[n] + 1 + Len(parts[n])
          /\ st[n] + Len(parts[n]) <= Len(code) /\ code[st[n]] = Len(parts[n]) /\ st[n] \in Nat
      BY Zenon, <1>1, <1>7, <1>9, <2>1, <3>0 DEF Places
    <3>2. d[st[n]] = code[st[n]]
      <4>1. st[n] \in 1 .. Len(code)
        <5>1. st[n] \in Nat /\ n <= st[n] /\ st[n] + Len(parts[n]) <= Len(code)
          BY <3>1
        <5>2. Len(parts[n]) \in Nat
          BY Zenon, <1>8, <2>1
        <5>3. Len(code) \in Nat /\ n \in Nat /\ 1 <= n
          BY <1>2, <2>1
        <5>. QED  BY <5>1, <5>2, <5>3
      <4>. QED  BY <1>6, <4>1
    <3>3. ASSUME NEW i \in 1 .. Len(parts[n]) PROVE d[st[n] + i] = parts[n][i]
      <4>1. code[st[n] + i] = parts[n][i]
        BY Zenon, <1>1, <2>1 DEF Places
      <4>2. st[n] + i \in 1 .. Len(code)
        <5>1. i \in Nat /\ i >= 1 /\ i <= Len(parts[n]) /\ Len(parts[n]) \in Nat
          BY <1>8, <2>1
        <5>2. st[n] \in Nat /\ st[n] + Len(parts[n]) <= Len(code)
          BY <3>1
        <5>3. st[n] + i \in Nat /\ 1 <= st[n] + i /\ st[n] + i <= st[n] + Len(parts[n])
          BY <5>1, <5>2
        <5>4. st[n] + i <= Len(code) /\ Len(code) \in Int
          BY <1>2, <5>1, <5>2, <5>3
        <5>. QED  BY <5>3, <5>4
      <4>. QED  BY <1>6, <4>1, <4>2
    <3>4. st[n] + Len(parts[n]) <= Len(d)
      <4>1. st[n] + Len(parts[n]) \in Nat /\ st[n] + Len(parts[n]) <= Len(code)
        BY <1>8, <2>1, <3>1
      <4>2. Len(code) <= Len(d)
        BY <1>2, <1>3, <1>6
      <4>. QED  BY <1>2, <1>6, <4>1, <4>2
    <3>. QED  BY <3>1, <3>2, <3>3, <3>4
  <2>2. CASE n = Len(parts) + 1
    <3>1. tt[n] = Len(code) + 1 /\ tt[n + 1] = Len(d) + 1 /\ qs[n] = p
      BY <1>7, <1>9, <2>2
    <3>. QED  BY <1>2, <1>3, <1>6, <2>2, <3>1
  <2>. QED  BY <1>2, <1>7, <2>1, <2>2
<1>11. ASSUME NEW x \in 1 .. Len(d)
       PROVE  \E n \in 1 .. Len(qs) : \E i \in 0 .. Len(qs[n]) : x = tt[n] + i
  <2>1. CASE x \in 1 .. Len(code)
    <3>1. PICK n \in 1 .. Len(parts) : \E i \in 0 .. Len(parts[n]) : x = st[n] + i
      BY Zenon, <1>1, <2>1 DEF Places
    <3>2. n \in 1 .. Len(parts) + 1
      BY <1>2
    <3>. QED  BY Zenon, <1>7, <1>9, <3>1, <3>2
  <2>2. CASE x \notin 1 .. Len(code)
    <3>. DEFINE i == x - (Len(code) + 1)
    <3>1. i \in 0 .. Len(p) /\ x = (Len(code) + 1) + i /\ Len(qs) \in 1 .. Len(qs)
      BY <1>2, <1>3, <1>6, <1>7, <2>2
    <3>. HIDE DEF i
    <3>. QED  BY Zenon, <1>7, <1>9, <3>1
  <2>. QED  BY <2>1, <2>2
<1>12. Places(qs, d, tt)
  BY <1>9, <1>10, <1>11 DEF Places
<1>13. Len(qs) <= Len(d)
  BY <1>2, <1>3, <1>6, <1>7
<1>. QED  BY <1>6, <1>7, <1>12, <1>13 DEF Encoded, d, qs

-----------------------------------------------------------------------------
\* decode_key_data looks at the places where encode_key wrote the lengths
LEMMA StopsAre ==
  ASSUME NEW rest \in Seq(Nat), NEW f \in [0 .. Len(rest) -> Nat], f[0] = 1,
         \A n \in 1 .. Len(rest) :
           f[n] = IF f[n - 1] <= Len(rest) THEN f[n - 1] + 1 + rest[f[n - 1]] ELSE f[n - 1]
  PROVE  Stops(rest) = f
<1>. DEFINE R(g) == [n \in 0 .. Len(rest) |->
              IF n = 0 THEN 1
              ELSE IF g[n - 1] <= Len(rest) THEN g[n - 1] + 1 + rest[g[n - 1]]
              ELSE g[n - 1]]
            g == Stops(rest)
<1>1. Len(rest) \in Nat
  OBVIOUS
<1>2. f = R(f)
  <2>1. \A n \in 0 .. Len(rest) : n = 0 \/ n \in 1 .. Len(rest)
    BY <1>1
  <2>. QED  BY <2>1
<1>3. Stops(rest) = CHOOSE h : h = R(h)
  BY DEF Stops
<1>4. g = R(g)
  BY Zenon, <1>2, <1>3
<1>. HIDE DEF g
<1>5. /\ g[0] = 1 /\ DOMAIN g = 0 .. Len(rest)
      /\ \A n \in 1 .. Len(rest) :
           g[n] = IF g[n - 1] <= Len(rest) THEN g[n - 1] + 1 + rest[g[n - 1]] ELSE g[n - 1]
  <2>1. \A n \in 1 .. Len(rest) : n # 0 /\ n \in 0 .. Len(rest)
    BY <1>1
  <2>2. DOMAIN g = 0 .. Len(rest) /\ 0 \in 0 .. Len(rest)
    BY <1>1, <1>4
  <2>. QED  BY <1>4, <2>1, <2>2
<1>. DEFINE D == {n \in 0 .. Len(rest) : g[n] # f[n]}
<1>. HIDE DEF R
<1>6. ASSUME D # {} PROVE FALSE
  <2>1. D \in SUBSET Nat
    BY <1>1
  <2>2. PICK m \in D : \A n \in D : m <= n
    BY Zenon, <1>6, <2>1, Least
  <2>3. m # 0 /\ m \in 0 .. Len(rest)
    BY <1>5, <2>2
  <2>4. m \in 1 .. Len(rest) /\ m - 1 \in 0 .. Len(rest) /\ ~(m <= m - 1)
    BY <1>1, <2>3
  <2>5. g[m - 1] = f[m - 1]
    BY <2>2, <2>4
  <2>6. g[m] = f[m]
    BY <1>5, <2>4, <2>5
  <2>. QED  BY <2>2, <2>6
<1>7. \A n \in 0 .. Len(rest) : g[n] = f[n]
  BY <1>6
<1>8. g = [n \in 0 .. Len(rest) |-> g[n]]
  BY <1>4, <1>5 DEF R
<1>. QED  BY <1>7, <1>8 DEF g

\* Two sequences of one length with the same elements are equal
LEMMA SameSequence ==
  ASSUME NEW S, NEW T, NEW s \in Seq(S), NEW t \in Seq(T), Len(s) = Len(t),
         \A i \in 1 .. Len(s) : s[i] = t[i]
  PROVE  s = t
<1>1. s = [i \in 1 .. Len(s) |-> s[i]] /\ t = [i \in 1 .. Len(t) |-> t[i]]
  OBVIOUS
<1>. QED  BY <1>1

\* The l elements after the k-th
LEMMA CutIs ==
  ASSUME NEW s \in Seq(Nat), NEW k \in Nat, NEW l \in Nat, k + l <= Len(s)
  PROVE  /\ SubSeq(s, k + 1, k + l) \in Seq(Nat) /\ Len(SubSeq(s, k + 1, k + l)) = l
         /\ \A i \in 1 .. l : SubSeq(s, k + 1, k + l)[i] = s[k + i]
<1>1. SubSeq(s, k + 1, k + l) = [i \in 1 .. l |-> s[k + i]]
  OBVIOUS
<1>2. \A i \in 1 .. l : s[k + i] \in Nat
  OBVIOUS
<1>3. [i \in 1 .. l |-> s[k + i]] \in [1 .. l -> Nat]
  BY <1>2
<1>. QED  BY <1>1, <1>3

\* The places of the lengths are the stops of the decoder
LEMMA StopsOfEncoded ==
  ASSUME NEW parts, NEW code, Encoded(parts, code), NEW st, Places(parts, code, st)
  PROVE  /\ \A n \in 0 .. Len(parts) : Stops(code)[n] = st[n + 1]
         /\ Count(code) = Len(parts)
<1>1. /\ parts \in Seq(Seq(Bytes)) /\ code \in Seq(Nat) /\ Len(parts) \in Nat /\ Len(code) \in Nat
      /\ Len(parts) <= Len(code)
  BY DEF Encoded
<1>n. Len(parts) \in Nat /\ Len(code) \in Nat /\ Len(parts) <= Len(code)
  BY <1>1
<1>2. /\ st[1] = 1 /\ st[Len(parts) + 1] = Len(code) + 1
      /\ \A n \in 1 .. Len(parts) + 1 : st[n] \in Nat
  BY DEF Places
<1>. DEFINE f == [n \in 0 .. Len(code) |-> IF n <= Len(parts) THEN st[n + 1] ELSE Len(code) + 1]
<1>3. /\ f \in [0 .. Len(code) -> Nat] /\ f[0] = 1 /\ f[Len(parts)] = Len(code) + 1
      /\ \A n \in 0 .. Len(parts) : f[n] = st[n + 1]
      /\ \A n \in 0 .. Len(code) : n > Len(parts) => f[n] = Len(code) + 1
  BY <1>1, <1>2
<1>. HIDE DEF f
<1>4. ASSUME NEW n \in 1 .. Len(parts)
      PROVE  f[n - 1] <= Len(code) /\ f[n] = f[n - 1] + 1 + code[f[n - 1]]
  <2>1. n - 1 \in 0 .. Len(parts) /\ n \in 0 .. Len(parts) /\ (n - 1) + 1 = n
    BY <1>1
  <2>2. f[n - 1] = st[n] /\ f[n] = st[n + 1]
    BY <1>3, <2>1
  <2>3. /\ st[n + 1] = st[n] + 1 + Len(parts[n]) /\ code[st[n]] = Len(parts[n])
        /\ st[n] + Len(parts[n]) <= Len(code)
    BY Zenon DEF Places
  <2>4. Len(parts[n]) \in Nat /\ st[n] \in Nat
    BY <1>1, <1>2
  <2>5. st[n] <= Len(code)
    BY <1>n, <2>3, <2>4
  <2>. QED  BY <2>2, <2>3, <2>5
<1>5. ASSUME NEW n \in 1 .. Len(code)
      PROVE  f[n] = IF f[n - 1] <= Len(code) THEN f[n - 1] + 1 + code[f[n - 1]] ELSE f[n - 1]
  <2>1. CASE n \in 1 .. Len(parts)
    BY <1>4, <2>1
  <2>2. CASE n > Len(parts)
    <3>1. n - 1 \in 0 .. Len(code) /\ n \in 0 .. Len(code) /\ (n - 1 > Len(parts) \/ n - 1 = Len(parts))
      BY <1>n, <2>2
    <3>2. f[n - 1] = Len(code) + 1 /\ f[n] = Len(code) + 1
      BY <1>3, <2>2, <3>1
    <3>. QED  BY <1>1, <3>2
  <2>. QED  BY <1>1, <2>1, <2>2
<1>6. Stops(code) = f
  BY Zenon, <1>1, <1>3, <1>5, StopsAre
<1>. DEFINE First(n) == f[n] > Len(code) /\ \A m \in 0 .. n - 1 : f[m] <= Len(code)
<1>7. ASSUME NEW m \in 0 .. Len(parts) - 1 PROVE f[m] <= Len(code)
  <2>1. m + 1 \in 1 .. Len(parts) /\ (m + 1) - 1 = m
    BY <1>1
  <2>. QED  BY <1>4, <2>1
<1>8. First(Len(parts)) /\ Len(parts) \in 0 .. Len(code)
  BY <1>1, <1>3, <1>7
<1>9. ASSUME NEW n \in 0 .. Len(code), First(n) PROVE n = Len(parts)
  <2>1. ASSUME n < Len(parts) PROVE FALSE
    <3>1. n \in 0 .. Len(parts) - 1 /\ n \in 0 .. Len(code)
      BY <1>n, <2>1
    <3>2. f[n] <= Len(code) /\ f[n] \in Nat
      BY <1>3, <1>7, <3>1
    <3>. QED  BY <1>n, <1>9, <3>2
  <2>2. ASSUME Len(parts) < n PROVE FALSE
    <3>1. Len(parts) \in 0 .. n - 1
      BY <1>n, <2>2
    <3>2. f[Len(parts)] <= Len(code)
      BY <1>9, <3>1
    <3>. QED  BY <1>n, <1>3, <3>2
  <2>. QED  BY <1>n, <2>1, <2>2
<1>10. Count(code) = CHOOSE n \in 0 .. Len(code) : First(n)
  BY <1>6 DEF Count
<1>11. Count(code) = Len(parts)
  <2>. HIDE DEF First
  <2>. QED  BY Zenon, <1>8, <1>9, <1>10
<1>. QED  BY <1>3, <1>6, <1>11

\* decode_key_data gives the parts that encode_key was given
LEMMA DecodesEncoded ==
  ASSUME NEW prefix \in Seq(Nat), NEW parts, NEW code, Encoded(parts, code)
  PROVE  DecodeKeyData(prefix, prefix \o code) = parts
<1>. DEFINE key == prefix \o code
            rest == SubSeq(key, Len(prefix) + 1, Len(key))
<1>1. /\ parts \in Seq(Seq(Bytes)) /\ code \in Seq(Nat) /\ Len(parts) \in Nat /\ Len(code) \in Nat
      /\ Len(parts) <= Len(code)
  BY DEF Encoded
<1>2. /\ key \in Seq(Nat) /\ Len(key) = Len(prefix) + Len(code) /\ StartsWith(key, prefix)
      /\ \A i \in 1 .. Len(code) : key[Len(prefix) + i] = code[i]
  BY <1>1 DEF StartsWith
<1>3. rest = code
  <2>. HIDE DEF key
  <2>a. Len(prefix) \in Nat /\ Len(prefix) + Len(code) <= Len(key)
    BY <1>1, <1>2
  <2>b. rest = SubSeq(key, Len(prefix) + 1, Len(prefix) + Len(code))
    BY Zenon, <1>2
  <2>. HIDE DEF rest
  <2>c. key \in Seq(Nat) /\ Len(code) \in Nat
    BY <1>1, <1>2
  <2>. DEFINE k == Len(prefix)
              l == Len(code)
  <2>d. k \in Nat /\ l \in Nat /\ k + l <= Len(key) /\ rest = SubSeq(key, k + 1, k + l)
    BY Zenon, <2>a, <2>b, <2>c
  <2>. HIDE DEF k, l
  <2>e. rest \in Seq(Nat) /\ Len(rest) = l /\ \A i \in 1 .. l : rest[i] = key[k + i]
    BY Zenon, <2>c, <2>d, CutIs
  <2>1. /\ rest \in Seq(Nat) /\ Len(rest) = Len(code)
        /\ \A i \in 1 .. Len(code) : rest[i] = key[Len(prefix) + i]
    BY Zenon, <2>e DEF k, l
  <2>2. \A i \in 1 .. Len(code) : rest[i] = code[i]
    BY Zenon, <1>2, <2>1
  <2>. QED  BY <1>1, <2>1, <2>2, SameSequence
<1>. HIDE DEF key, rest
<1>4. PICK st : Places(parts, code, st)
  BY DEF Encoded
<1>5. /\ \A n \in 0 .. Len(parts) : Stops(code)[n] = st[n + 1]
      /\ Count(code) = Len(parts)
  BY <1>4, StopsOfEncoded
<1>6. Stops(code)[Len(parts)] = Len(code) + 1
  <2>1. Len(parts) \in 0 .. Len(parts)
    BY <1>1
  <2>. QED  BY Zenon, <2>1, <1>4, <1>5 DEF Places
<1>7. DecodeKeyData(prefix, key) =
        [i \in 1 .. Len(parts) |-> SubSeq(code, Stops(code)[i - 1] + 1, Stops(code)[i] - 1)]
  BY <1>2, <1>3, <1>5, <1>6 DEF DecodeKeyData, rest
<1>8. ASSUME NEW n \in 1 .. Len(parts)
      PROVE  SubSeq(code, Stops(code)[n - 1] + 1, Stops(code)[n] - 1) = parts[n]
  <2>1. n - 1 \in 0 .. Len(parts) /\ n \in 0 .. Len(parts) /\ (n - 1) + 1 = n
        /\ n \in 1 .. Len(parts) + 1
    BY <1>1
  <2>2. Stops(code)[n - 1] = st[n] /\ Stops(code)[n] = st[n + 1] /\ st[n] \in Nat
    BY <1>4, <1>5, <2>1 DEF Places
  <2>3. /\ st[n + 1] = st[n] + 1 + Len(parts[n]) /\ st[n] + Len(parts[n]) <= Len(code)
        /\ \A i \in 1 .. Len(parts[n]) : code[st[n] + i] = parts[n][i]
    BY Zenon, <1>4 DEF Places
  <2>4. parts[n] \in Seq(Bytes) /\ Len(parts[n]) \in Nat
    BY <1>1
  <2>. DEFINE k == st[n]
              l == Len(parts[n])
              u == SubSeq(code, k + 1, k + l)
  <2>5. k \in Nat /\ l \in Nat /\ k + l <= Len(code)
    BY <2>2, <2>3, <2>4
  <2>6. st[n + 1] - 1 = k + l
    BY <2>3, <2>5
  <2>7. \A i \in 1 .. l : code[k + i] = parts[n][i]
    BY <2>3
  <2>8. Len(parts[n]) = l
    OBVIOUS
  <2>. HIDE DEF k, l
  <2>9. u \in Seq(Nat) /\ Len(u) = l /\ \A i \in 1 .. l : u[i] = code[k + i]
    BY <1>1, <2>5, CutIs
  <2>10. \A i \in 1 .. l : u[i] = parts[n][i]
    BY <2>7, <2>9
  <2>. HIDE DEF u
  <2>11. u = parts[n]
    BY <2>4, <2>8, <2>9, <2>10, SameSequence
  <2>. QED  BY <2>2, <2>6, <2>11 DEF k, u
<1>9. parts = [n \in 1 .. Len(parts) |-> parts[n]]
  BY <1>1
<1>. QED  BY <1>7, <1>8, <1>9 DEF key

-----------------------------------------------------------------------------
\* Where the lengths of a code are: each in it, the last place just behind it
LEMMA PlacesIn ==
  ASSUME NEW parts, NEW code, Encoded(parts, code), NEW st, Places(parts, code, st),
         NEW n \in 1 .. Len(parts)
  PROVE  /\ Len(parts) \in Nat /\ Len(code) \in Nat /\ n \in 1 .. Len(parts) + 1
         /\ parts[n] \in Seq(Bytes) /\ Len(parts[n]) \in Nat /\ st[n] \in Nat
         /\ st[n] \in 1 .. Len(code) /\ st[n] # Len(code) + 1
         /\ \A i \in 0 .. Len(parts[n]) : st[n] + i \in 1 .. Len(code)
<1>1. parts \in Seq(Seq(Bytes)) /\ Len(parts) \in Nat /\ Len(code) \in Nat
  BY DEF Encoded
<1>2. parts[n] \in Seq(Bytes) /\ Len(parts[n]) \in Nat /\ n \in 1 .. Len(parts) + 1
  BY <1>1
<1>3. st[n] \in Nat /\ n <= st[n] /\ st[n] + Len(parts[n]) <= Len(code)
  BY <1>2 DEF Places
<1>. DEFINE k == st[n]
            l == Len(parts[n])
            m == Len(code)
<1>4. k \in Nat /\ l \in Nat /\ m \in Nat /\ 1 <= k /\ k + l <= m
  BY <1>1, <1>2, <1>3
<1>. HIDE DEF k, l, m
<1>5. k \in 1 .. m /\ k # m + 1 /\ \A i \in 0 .. l : k + i \in 1 .. m
  BY <1>4
<1>. QED  BY <1>1, <1>2, <1>4, <1>5 DEF k, l, m

\* Codes of which one begins with the other are codes of such parts: the first
\* length tells the first part, and with it where the next length is
LEMMA PrefixOfCode ==
  ASSUME NEW p, NEW c, Encoded(p, c), NEW q, NEW d, Encoded(q, d), StartsWith(d, c)
  PROVE  StartsWith(q, p)
<1>1. PICK st : Places(p, c, st)
  BY DEF Encoded
<1>2. PICK tt : Places(q, d, tt)
  BY DEF Encoded
<1>3. /\ Len(p) \in Nat /\ Len(q) \in Nat /\ Len(c) \in Nat /\ Len(d) \in Nat /\ Len(c) <= Len(d)
      /\ c \in Seq(Nat) /\ p \in Seq(Seq(Bytes)) /\ q \in Seq(Seq(Bytes))
      /\ \A i \in 1 .. Len(c) : d[i] = c[i]
  BY DEF Encoded, StartsWith
<1>. DEFINE Good(n) == n <= Len(q) + 1 /\ st[n] = tt[n] /\ (n = 1 \/ p[n - 1] = q[n - 1])
            D == {n \in 1 .. Len(p) + 1 : ~Good(n)}
<1>4. Good(1)
  BY <1>1, <1>2, <1>3 DEF Places
<1>5. ASSUME NEW n \in 1 .. Len(p), Good(n) PROVE Good(n + 1)
  <2>1. /\ st[n] \in 1 .. Len(c) /\ p[n] \in Seq(Bytes)
        /\ \A i \in 0 .. Len(p[n]) : st[n] + i \in 1 .. Len(c)
    BY <1>1, PlacesIn
  <2>2. n \in 1 .. Len(q)
    <3>1. st[n] # Len(d) + 1
      BY <1>3, <2>1
    <3>2. tt[Len(q) + 1] = Len(d) + 1
      BY <1>2 DEF Places
    <3>3. n # Len(q) + 1 /\ n <= Len(q) + 1
      BY <1>5, <3>1, <3>2
    <3>4. Len(q) \in Nat /\ n \in Nat /\ 1 <= n
      BY <1>3
    <3>. QED  BY <3>3, <3>4
  <2>3. q[n] \in Seq(Bytes)
    BY <1>3, <2>2
  <2>4. c[st[n]] = Len(p[n]) /\ d[tt[n]] = Len(q[n]) /\ Len(p[n]) = Len(q[n])
    <3>1. c[st[n]] = Len(p[n]) /\ d[tt[n]] = Len(q[n])
      BY Zenon, <1>1, <1>2, <2>2 DEF Places
    <3>. QED  BY <1>3, <1>5, <2>1, <3>1
  <2>5. ASSUME NEW i \in 1 .. Len(p[n]) PROVE p[n][i] = q[n][i]
    <3>1. c[st[n] + i] = p[n][i]
      BY Zenon, <1>1 DEF Places
    <3>2. d[tt[n] + i] = q[n][i]
      BY Zenon, <1>2, <2>2, <2>4 DEF Places
    <3>3. i \in 0 .. Len(p[n])
      BY <2>1
    <3>. QED  BY <1>3, <1>5, <2>1, <3>1, <3>2, <3>3
  <2>6. p[n] = q[n]
    BY <2>1, <2>3, <2>4, <2>5, SameSequence
  <2>7. st[n + 1] = tt[n + 1]
    <3>1. st[n + 1] = st[n] + 1 + Len(p[n]) /\ tt[n + 1] = tt[n] + 1 + Len(q[n])
      BY Zenon, <1>1, <1>2, <2>2 DEF Places
    <3>. QED  BY <1>5, <2>4, <3>1
  <2>8. n + 1 <= Len(q) + 1 /\ (n + 1) - 1 = n
    BY <1>3, <2>2
  <2>. QED  BY <2>6, <2>7, <2>8
<1>. HIDE DEF Good
<1>6. ASSUME D # {} PROVE FALSE
  <2>1. D \in SUBSET Nat
    BY <1>3
  <2>2. PICK m \in D : \A n \in D : m <= n
    BY Zenon, <1>6, <2>1, Least
  <2>3. m # 1 /\ m \in 1 .. Len(p) + 1 /\ ~Good(m)
    BY <1>4, <2>2
  <2>4. m - 1 \in 1 .. Len(p) /\ m - 1 \in 1 .. Len(p) + 1 /\ ~(m <= m - 1) /\ (m - 1) + 1 = m
    BY <1>3, <2>3
  <2>5. Good(m - 1)
    BY <2>2, <2>4
  <2>. QED  BY <1>5, <2>3, <2>4, <2>5
<1>7. \A n \in 1 .. Len(p) + 1 : Good(n)
  BY <1>6
<1>8. Len(p) <= Len(q)
  <2>1. Len(p) + 1 \in 1 .. Len(p) + 1
    BY <1>3
  <2>2. Len(p) + 1 <= Len(q) + 1
    BY <1>7, <2>1 DEF Good
  <2>. QED  BY <1>3, <2>2
<1>9. ASSUME NEW n \in 1 .. Len(p) PROVE q[n] = p[n]
  <2>1. n + 1 \in 1 .. Len(p) + 1 /\ n + 1 # 1 /\ (n + 1) - 1 = n
    BY <1>3
  <2>. QED  BY <1>7, <2>1 DEF Good
<1>10. DOMAIN p = 1 .. Len(p)
  BY <1>3
<1>. QED  BY <1>8, <1>9, <1>10 DEF StartsWith

\* ... and codes of parts of which one begins with the other are such codes
LEMMA CodeOfPrefix ==
  ASSUME NEW p, NEW c, Encoded(p, c), NEW q, NEW d, Encoded(q, d), StartsWith(q, p)
  PROVE  StartsWith(d, c)
<1>1. PICK st : Places(p, c, st)
  BY DEF Encoded
<1>2. PICK tt : Places(q, d, tt)
  BY DEF Encoded
<1>3. /\ Len(p) \in Nat /\ Len(q) \in Nat /\ Len(c) \in Nat /\ Len(d) \in Nat /\ Len(p) <= Len(q)
      /\ c \in Seq(Nat) /\ p \in Seq(Seq(Bytes)) /\ q \in Seq(Seq(Bytes))
      /\ \A n \in 1 .. Len(p) : q[n] = p[n] /\ n \in 1 .. Len(q)
  <2>1. /\ p \in Seq(Seq(Bytes)) /\ q \in Seq(Seq(Bytes)) /\ c \in Seq(Nat) /\ d \in Seq(Nat)
        /\ Len(p) <= Len(q) /\ \A n \in DOMAIN p : q[n] = p[n]
    BY DEF Encoded, StartsWith
  <2>2. Len(p) \in Nat /\ Len(q) \in Nat /\ Len(c) \in Nat /\ Len(d) \in Nat /\ DOMAIN p = 1 .. Len(p)
    BY <2>1
  <2>3. \A n \in 1 .. Len(p) : n \in 1 .. Len(q)
    BY <2>1, <2>2
  <2>. QED  BY Zenon, <2>1, <2>2, <2>3
<1>. DEFINE D == {n \in 1 .. Len(p) + 1 : st[n] # tt[n]}
<1>4. ASSUME D # {} PROVE FALSE
  <2>1. D \in SUBSET Nat
    BY <1>3
  <2>2. PICK m \in D : \A n \in D : m <= n
    BY Zenon, <1>4, <2>1, Least
  <2>3. m # 1 /\ m \in 1 .. Len(p) + 1 /\ st[m] # tt[m]
    BY <1>1, <1>2, <2>2 DEF Places
  <2>4. m - 1 \in 1 .. Len(p) /\ m - 1 \in 1 .. Len(p) + 1 /\ ~(m <= m - 1) /\ (m - 1) + 1 = m
    BY <1>3, <2>3
  <2>5. st[m - 1] = tt[m - 1]
    BY <2>2, <2>4
  <2>6. /\ st[(m - 1) + 1] = st[m - 1] + 1 + Len(p[m - 1])
        /\ tt[(m - 1) + 1] = tt[m - 1] + 1 + Len(q[m - 1])
    BY Zenon, <1>1, <1>2, <1>3, <2>4 DEF Places
  <2>. QED  BY <1>3, <2>3, <2>4, <2>5, <2>6
<1>5. \A n \in 1 .. Len(p) + 1 : st[n] = tt[n]
  BY <1>4
<1>6. Len(c) <= Len(d)
  <2>1. Len(p) + 1 \in 1 .. Len(p) + 1 /\ (Len(p) + 1 \in 1 .. Len(q) \/ Len(p) + 1 = Len(q) + 1)
    BY <1>3
  <2>2. tt[Len(p) + 1] = Len(c) + 1 /\ tt[Len(q) + 1] = Len(d) + 1
    BY <1>1, <1>2, <1>5, <2>1 DEF Places
  <2>3. Len(p) + 1 \in 1 .. Len(q) => tt[Len(p) + 1] \in 1 .. Len(d)
    BY <1>2, PlacesIn
  <2>4. CASE Len(p) + 1 \in 1 .. Len(q)
    BY <1>3, <2>2, <2>3, <2>4
  <2>5. CASE Len(p) + 1 = Len(q) + 1
    BY <1>3, <2>2, <2>5
  <2>. QED  BY <2>1, <2>4, <2>5
<1>7. ASSUME NEW x \in 1 .. Len(c) PROVE d[x] = c[x]
  <2>1. PICK n \in 1 .. Len(p) : \E i \in 0 .. Len(p[n]) : x = st[n] + i
    BY Zenon, <1>1 DEF Places
  <2>2. PICK i \in 0 .. Len(p[n]) : x = st[n] + i
    BY <2>1
  <2>3. q[n] = p[n] /\ n \in 1 .. Len(q) /\ tt[n] = st[n] /\ Len(p[n]) \in Nat /\ st[n] \in Nat
    BY <1>1, <1>3, <1>5, PlacesIn
  <2>4. CASE i = 0
    <3>1. c[st[n]] = Len(p[n]) /\ d[tt[n]] = Len(q[n])
      BY Zenon, <1>1, <1>2, <2>3 DEF Places
    <3>. QED  BY <2>2, <2>3, <2>4, <3>1
  <2>5. CASE i # 0
    <3>1. i \in 1 .. Len(p[n])
      BY <2>3, <2>5
    <3>2. c[st[n] + i] = p[n][i]
      BY Zenon, <1>1, <3>1 DEF Places
    <3>3. d[tt[n] + i] = q[n][i]
      BY Zenon, <1>2, <2>3, <3>1 DEF Places
    <3>. QED  BY <2>2, <2>3, <3>2, <3>3
  <2>. QED  BY <2>4, <2>5
<1>8. DOMAIN c = 1 .. Len(c)
  BY <1>3
<1>. QED  BY <1>6, <1>7, <1>8 DEF StartsWith

-----------------------------------------------------------------------------
\* A function on 1 .. n is a sequence of that length
LEMMA LengthIs ==
  ASSUME NEW n \in Nat, NEW f \in [1 .. n -> Nat]
  PROVE  f \in Seq(Nat) /\ Len(f) = n
  OBVIOUS

\* Bytes of two sequences put together
LEMMA JoinIs ==
  ASSUME NEW s \in Seq(Nat), NEW t \in Seq(Nat)
  PROVE  /\ s \o t \in Seq(Nat) /\ Len(s \o t) = Len(s) + Len(t)
         /\ \A i \in 1 .. Len(s) : (s \o t)[i] = s[i]
         /\ \A i \in 1 .. Len(t) : (s \o t)[Len(s) + i] = t[i]
  OBVIOUS

\* The bytes of data_prefix
LEMMA DataPrefixIs ==
  ASSUME NEW t \in Names \X Names
  PROVE  /\ DataPrefix(t) \in Seq(Nat) /\ Len(t[1]) \in Nat /\ Len(t[2]) \in Nat
         /\ t[1] \in Names /\ t[2] \in Names /\ t = <<t[1], t[2]>>
         /\ Len(DataPrefix(t)) = Len(t[1]) + Len(t[2]) + 2
         /\ \A i \in 1 .. Len(t[1]) : DataPrefix(t)[i] = t[1][i] /\ t[1][i] # Bang
         /\ DataPrefix(t)[Len(t[1]) + 1] = Bang
         /\ \A i \in 1 .. Len(t[2]) : DataPrefix(t)[Len(t[1]) + 1 + i] = t[2][i] /\ t[2][i] # Bang
         /\ DataPrefix(t)[Len(t[1]) + Len(t[2]) + 2] = Bang
<1>. DEFINE u == t[1]
            v == t[2]
<1>1. u \in Names /\ v \in Names /\ t = <<u, v>> /\ Bang \in Nat
  BY KeyConstants
<1>. HIDE DEF u, v
<1>2. /\ u \in Seq(Nat) /\ v \in Seq(Nat)
      /\ \A i \in 1 .. Len(u) : u[i] # Bang
      /\ \A i \in 1 .. Len(v) : v[i] # Bang
  <2>1. \A s \in Names : s \in Seq(Nat) /\ \A i \in 1 .. Len(s) : s[i] # Bang
    BY DEF Names, Bytes
  <2>. QED  BY <1>1, <2>1
<1>3. DataPrefix(t) = ((u \o <<Bang>>) \o v) \o <<Bang>>
  BY DEF DataPrefix, u, v
<1>. DEFINE w == u \o <<Bang>>
            x == w \o v
            y == x \o <<Bang>>
<1>4. <<Bang>> \in Seq(Nat) /\ Len(<<Bang>>) = 1 /\ <<Bang>>[1] = Bang
  BY <1>1
<1>5. Len(u) \in Nat /\ Len(v) \in Nat
  BY <1>2
<1>6. /\ w \in Seq(Nat) /\ Len(w) = Len(u) + 1 /\ w[Len(u) + 1] = Bang
      /\ \A i \in 1 .. Len(u) : w[i] = u[i]
  <2>1. /\ w \in Seq(Nat) /\ Len(w) = Len(u) + Len(<<Bang>>)
        /\ \A i \in 1 .. Len(u) : w[i] = u[i]
        /\ \A i \in 1 .. Len(<<Bang>>) : w[Len(u) + i] = <<Bang>>[i]
    BY Zenon, <1>2, <1>4, JoinIs
  <2>. HIDE DEF w
  <2>. QED  BY <2>1, <1>4
<1>. HIDE DEF w
<1>7. /\ x \in Seq(Nat) /\ Len(x) = Len(w) + Len(v)
      /\ \A i \in 1 .. Len(w) : x[i] = w[i]
      /\ \A i \in 1 .. Len(v) : x[Len(w) + i] = v[i]
  BY Zenon, <1>2, <1>6, JoinIs
<1>. HIDE DEF x
<1>8. /\ y \in Seq(Nat) /\ Len(y) = Len(x) + 1 /\ y[Len(x) + 1] = Bang
      /\ \A i \in 1 .. Len(x) : y[i] = x[i]
  <2>1. /\ y \in Seq(Nat) /\ Len(y) = Len(x) + Len(<<Bang>>)
        /\ \A i \in 1 .. Len(x) : y[i] = x[i]
        /\ \A i \in 1 .. Len(<<Bang>>) : y[Len(x) + i] = <<Bang>>[i]
    BY Zenon, <1>7, <1>4, JoinIs
  <2>. HIDE DEF y
  <2>. QED  BY <2>1, <1>4
<1>. HIDE DEF y
<1>. DEFINE k == Len(u)
            l == Len(v)
<1>9. /\ k \in Nat /\ l \in Nat /\ Len(w) = k + 1 /\ Len(x) = k + 1 + l /\ Len(y) = k + l + 2
      /\ 1 .. k \subseteq 1 .. k + 1 + l /\ 1 .. k \subseteq 1 .. k + 1
      /\ k + 1 \in 1 .. k + 1 + l /\ k + 1 \in 1 .. k + 1
      /\ k + 1 + l + 1 = k + l + 2
      /\ \A i \in 1 .. l : k + 1 + i \in 1 .. k + 1 + l
  <2>1. Len(w) = k + 1 /\ Len(x) = Len(w) + l /\ Len(y) = Len(x) + 1 /\ k \in Nat /\ l \in Nat
    BY <1>5, <1>6, <1>7, <1>8
  <2>. HIDE DEF k, l
  <2>. QED  BY <2>1
<1>10. \A i \in 1 .. k : y[i] = u[i]
  BY Zenon, <1>6, <1>7, <1>8, <1>9
<1>11. y[k + 1] = Bang
  BY Zenon, <1>6, <1>7, <1>8, <1>9
<1>12. ASSUME NEW i \in 1 .. l PROVE y[k + 1 + i] = v[i]
  <2>1. k + 1 + i \in 1 .. Len(x) /\ Len(w) = k + 1
    BY Zenon, <1>9
  <2>2. y[k + 1 + i] = x[k + 1 + i]
    BY Zenon, <1>8, <2>1
  <2>3. x[Len(w) + i] = v[i]
    BY Zenon, <1>7
  <2>. QED  BY Zenon, <2>1, <2>2, <2>3
<1>13. y[k + l + 2] = Bang
  BY Zenon, <1>8, <1>9
<1>14. DataPrefix(t) = y
  BY <1>3 DEF w, x, y
<1>. QED  BY Zenon, <1>1, <1>2, <1>8, <1>9, <1>10, <1>11, <1>12, <1>13, <1>14 DEF u, v

\* prefix_upper_bound of such a prefix increments the '!' at its end
LEMMA UpperBoundIs ==
  ASSUME NEW t \in Names \X Names
  PROVE  LET P == DataPrefix(t)  U == PrefixUpperBound(P)
         IN  /\ Len(U) = Len(P) /\ DOMAIN U = 1 .. Len(P) /\ U[Len(P)] = Bang + 1
             /\ \A i \in 1 .. Len(P) : i # Len(P) => U[i] = P[i]
<1>. DEFINE P == DataPrefix(t)
            U == PrefixUpperBound(P)
            I == {i \in DOMAIN P : P[i] < MaxByte}
            l == Len(P)
<1>1. P \in Seq(Nat) /\ l \in Nat /\ 1 <= l /\ P[l] = Bang /\ DOMAIN P = 1 .. l
  <2>1. P \in Seq(Nat) /\ Len(t[1]) \in Nat /\ Len(t[2]) \in Nat
        /\ Len(P) = Len(t[1]) + Len(t[2]) + 2 /\ P[Len(t[1]) + Len(t[2]) + 2] = Bang
    BY Zenon, DataPrefixIs
  <2>. HIDE DEF P
  <2>2. Len(P) \in Nat /\ 1 <= Len(P) /\ P[Len(P)] = Bang
    BY <2>1
  <2>. QED  BY <2>1, <2>2
<1>2. Bang \in Nat /\ Bang < MaxByte /\ MaxByte \in Nat
  BY KeyConstants
<1>. HIDE DEF P
<1>3. l \in I /\ \A i \in I : i \in Nat /\ i <= l
  BY <1>1, <1>2
<1>4. Last(I) = l
  <2>. HIDE DEF I, l
  <2>1. Last(I) \in I /\ l <= Last(I)
    BY Zenon, <1>3 DEF Last
  <2>2. Last(I) \in Nat /\ Last(I) <= l /\ l \in Nat
    BY Zenon, <1>1, <1>3, <2>1
  <2>. QED  BY <2>1, <2>2
<1>5. U = [P EXCEPT ![l] = @ + 1]
  BY Zenon, <1>3, <1>4 DEF PrefixUpperBound
<1>6. DOMAIN U = 1 .. l /\ U[l] = Bang + 1 /\ \A i \in 1 .. l : i # l => U[i] = P[i]
  <2>1. l \in DOMAIN P
    BY <1>1
  <2>. HIDE DEF l, U
  <2>2. DOMAIN U = DOMAIN P /\ U[l] = P[l] + 1 /\ \A i \in DOMAIN P : i # l => U[i] = P[i]
    BY Zenon, <1>5, <2>1
  <2>. QED  BY Zenon, <2>2, <1>1
<1>7. Len(U) = l
  <2>1. P \in [1 .. l -> Nat] /\ Bang + 1 \in Nat
    BY <1>1, <1>2
  <2>. HIDE DEF U, l
  <2>2. U \in [1 .. l -> Nat]
    BY <1>1, <1>5, <2>1
  <2>. QED  BY <1>1, <2>2, LengthIs
<1>. QED  BY Zenon, <1>1, <1>6, <1>7 DEF P

\* The range from a table's prefix to its upper bound is what has the prefix
LEMMA RangeIsPrefix ==
  ASSUME NEW t \in Names \X Names, NEW key \in Seq(Nat)
  PROVE  InRange(t, key) <=> StartsWith(key, DataPrefix(t))
<1>. DEFINE P == DataPrefix(t)
            U == PrefixUpperBound(P)
            l == Len(P)
            m == Len(key)
<1>1. /\ P \in Seq(Nat) /\ l \in Nat /\ 1 <= l /\ P[l] = Bang
      /\ DOMAIN P = 1 .. l /\ \A i \in 1 .. l : P[i] \in Nat
  <2>1. P \in Seq(Nat) /\ Len(t[1]) \in Nat /\ Len(t[2]) \in Nat
        /\ Len(P) = Len(t[1]) + Len(t[2]) + 2 /\ P[Len(t[1]) + Len(t[2]) + 2] = Bang
    BY Zenon, DataPrefixIs
  <2>. HIDE DEF P
  <2>2. Len(P) \in Nat /\ 1 <= Len(P) /\ P[Len(P)] = Bang
    BY <2>1
  <2>3. DOMAIN P = 1 .. Len(P) /\ \A i \in 1 .. Len(P) : P[i] \in Nat
    <3>1. P \in Seq(Nat)
      BY <2>1
    <3>. QED  BY <3>1
  <2>. QED  BY Zenon, <2>1, <2>2, <2>3
<1>2. /\ Len(U) = l /\ DOMAIN U = 1 .. l /\ U[l] = Bang + 1
      /\ \A i \in 1 .. l : i # l => U[i] = P[i]
  BY Zenon, UpperBoundIs
<1>3. Bang \in Nat
  BY KeyConstants
<1>4. m \in Nat /\ DOMAIN key = 1 .. m /\ \A i \in 1 .. m : key[i] \in Nat
  OBVIOUS
<1>5. InRange(t, key) <=> ~Before(key, P) /\ Before(key, U)
  BY Zenon DEF InRange
<1>6. StartsWith(key, P) <=> l <= m /\ \A i \in 1 .. l : key[i] = P[i]
  BY Zenon, <1>1 DEF StartsWith
<1>7. Before(key, P) <=> \/ m < l /\ m <= l /\ \A i \in 1 .. m : P[i] = key[i]
                         \/ \E i \in (1 .. m) \cap (1 .. l) :
                              key[i] < P[i] /\ \A j \in 1 .. i - 1 : key[j] = P[j]
  BY Zenon, <1>1, <1>4 DEF Before, StartsWith
<1>8. Before(key, U) <=> \/ m < l /\ m <= l /\ \A i \in 1 .. m : U[i] = key[i]
                         \/ \E i \in (1 .. m) \cap (1 .. l) :
                              key[i] < U[i] /\ \A j \in 1 .. i - 1 : key[j] = U[j]
  BY Zenon, <1>2, <1>4 DEF Before, StartsWith
<1>. HIDE DEF P, U, l, m
<1>9. ASSUME ~Before(key, P), Before(key, U)  PROVE StartsWith(key, P)
  <2>1. ~(m < l /\ \A i \in 1 .. m : U[i] = key[i])
    <3>1. SUFFICES ASSUME m < l, \A i \in 1 .. m : U[i] = key[i]  PROVE FALSE
      OBVIOUS
    <3>2. \A i \in 1 .. m : P[i] = key[i]
      BY <3>1, <1>1, <1>2, <1>4
    <3>3. m <= l
      BY <3>1, <1>1, <1>4
    <3>. QED  BY Zenon, <3>1, <3>2, <3>3, <1>7, <1>9
  <2>2. PICK i \in (1 .. m) \cap (1 .. l) : key[i] < U[i] /\ \A j \in 1 .. i - 1 : key[j] = U[j]
    BY Zenon, <2>1, <1>8, <1>9
  <2>3. \A j \in 1 .. i - 1 : key[j] = P[j]
    BY <2>2, <1>1, <1>2
  <2>4. ~(key[i] < P[i])
    BY Zenon, <2>3, <1>7, <1>9
  <2>5. i = l
    BY Zenon, <2>2, <2>4, <1>2
  <2>6. key[l] = Bang
    BY <2>2, <2>4, <2>5, <1>1, <1>2, <1>3, <1>4
  <2>7. l <= m /\ \A j \in 1 .. l : key[j] = P[j]
    BY <2>3, <2>5, <2>6, <1>1, <1>4
  <2>. QED  BY Zenon, <2>7, <1>6
<1>10. ASSUME StartsWith(key, P)  PROVE ~Before(key, P) /\ Before(key, U)
  <2>1. l <= m /\ \A i \in 1 .. l : key[i] = P[i]
    BY Zenon, <1>6, <1>10
  <2>2. ~(m < l) /\ \A i \in (1 .. m) \cap (1 .. l) : ~(key[i] < P[i])
    BY <2>1, <1>1, <1>4
  <2>3. l \in (1 .. m) \cap (1 .. l) /\ key[l] < U[l]
    BY <2>1, <1>1, <1>2, <1>3, <1>4
  <2>4. \A j \in 1 .. l - 1 : key[j] = U[j]
    BY <2>1, <1>1, <1>2
  <2>. QED  BY Zenon, <2>2, <2>3, <2>4, <1>7, <1>8
<1>. QED  BY Zenon, <1>5, <1>9, <1>10 DEF P

\* A key with the prefix of one table and of another: the names have no '!',
\* so both prefixes end their names at the same places
LEMMA NamesApart ==
  ASSUME NEW t \in Names \X Names, NEW v \in Names \X Names, NEW key,
         \A i \in 1 .. Len(DataPrefix(t)) : key[i] = DataPrefix(t)[i],
         \A i \in 1 .. Len(DataPrefix(v)) : key[i] = DataPrefix(v)[i]
  PROVE  t = v
<1>. DEFINE P == DataPrefix(t)
            k == Len(t[1])
            l == Len(t[2])
            Q == DataPrefix(v)
            m == Len(v[1])
            n == Len(v[2])
<1>1. /\ k \in Nat /\ l \in Nat /\ Len(P) = k + l + 2
      /\ \A i \in 1 .. k : P[i] = t[1][i] /\ t[1][i] # Bang
      /\ P[k + 1] = Bang
      /\ \A i \in 1 .. l : P[k + 1 + i] = t[2][i] /\ t[2][i] # Bang
      /\ P[k + l + 2] = Bang
  BY Zenon, DataPrefixIs
<1>2. /\ m \in Nat /\ n \in Nat /\ Len(Q) = m + n + 2
      /\ \A i \in 1 .. m : Q[i] = v[1][i] /\ v[1][i] # Bang
      /\ Q[m + 1] = Bang
      /\ \A i \in 1 .. n : Q[m + 1 + i] = v[2][i] /\ v[2][i] # Bang
      /\ Q[m + n + 2] = Bang
  BY Zenon, DataPrefixIs
<1>3. /\ \A i \in 1 .. k + l + 2 : key[i] = P[i]
      /\ \A i \in 1 .. m + n + 2 : key[i] = Q[i]
  BY Zenon, <1>1, <1>2
<1>4. /\ t[1] \in Names /\ t[2] \in Names /\ t = <<t[1], t[2]>>
      /\ v[1] \in Names /\ v[2] \in Names /\ v = <<v[1], v[2]>>
  BY Zenon, DataPrefixIs
<1>5. \A e, f \in Names : Len(e) = Len(f) /\ (\A i \in 1 .. Len(e) : e[i] = f[i]) => e = f
  BY Zenon, SameSequence DEF Names
<1>n. k \in Nat /\ l \in Nat /\ m \in Nat /\ n \in Nat
  BY Zenon, <1>1, <1>2
<1>. HIDE DEF P, Q, k, l, m, n
<1>6. k = m
  <2>1. CASE k < m
    <3>1. k + 1 \in 1 .. m /\ k + 1 \in 1 .. k + l + 2 /\ k + 1 \in 1 .. m + n + 2
      BY <2>1, <1>n
    <3>2. key[k + 1] = P[k + 1] /\ key[k + 1] = Q[k + 1] /\ Q[k + 1] # Bang
      BY Zenon, <3>1, <1>2, <1>3
    <3>. QED  BY Zenon, <3>2, <1>1
  <2>2. CASE m < k
    <3>1. m + 1 \in 1 .. k /\ m + 1 \in 1 .. k + l + 2 /\ m + 1 \in 1 .. m + n + 2
      BY <2>2, <1>n
    <3>2. key[m + 1] = P[m + 1] /\ key[m + 1] = Q[m + 1] /\ P[m + 1] # Bang
      BY Zenon, <3>1, <1>1, <1>3
    <3>. QED  BY Zenon, <3>2, <1>2
  <2>. QED  BY <2>1, <2>2, <1>n
<1>7. t[1] = v[1]
  <2>1. \A i \in 1 .. k : i \in 1 .. m /\ i \in 1 .. k + l + 2 /\ i \in 1 .. m + n + 2
    BY <1>n, <1>6
  <2>2. \A i \in 1 .. k : t[1][i] = v[1][i]
    <3>1. TAKE i \in 1 .. k
    <3>2. key[i] = P[i] /\ key[i] = Q[i]
      BY Zenon, <2>1, <1>3
    <3>3. P[i] = t[1][i] /\ Q[i] = v[1][i]
      BY Zenon, <2>1, <1>1, <1>2
    <3>. QED  BY Zenon, <3>2, <3>3
  <2>. QED  BY Zenon, <2>2, <1>4, <1>5, <1>6 DEF k, m
<1>8. l = n
  <2>1. CASE l < n
    <3>1. /\ l + 1 \in 1 .. n /\ k + l + 2 = m + 1 + (l + 1)
          /\ k + l + 2 \in 1 .. k + l + 2 /\ k + l + 2 \in 1 .. m + n + 2
      BY <2>1, <1>n, <1>6
    <3>2. key[k + l + 2] = P[k + l + 2] /\ key[k + l + 2] = Q[k + l + 2]
      BY Zenon, <3>1, <1>3
    <3>3. Q[m + 1 + (l + 1)] # Bang
      BY Zenon, <3>1, <1>2
    <3>. QED  BY Zenon, <3>1, <3>2, <3>3, <1>1
  <2>2. CASE n < l
    <3>1. /\ n + 1 \in 1 .. l /\ m + n + 2 = k + 1 + (n + 1)
          /\ m + n + 2 \in 1 .. k + l + 2 /\ m + n + 2 \in 1 .. m + n + 2
      BY <2>2, <1>n, <1>6
    <3>2. key[m + n + 2] = P[m + n + 2] /\ key[m + n + 2] = Q[m + n + 2]
      BY Zenon, <3>1, <1>3
    <3>3. P[k + 1 + (n + 1)] # Bang
      BY Zenon, <3>1, <1>1
    <3>. QED  BY Zenon, <3>1, <3>2, <3>3, <1>2
  <2>. QED  BY <2>1, <2>2, <1>n
<1>9. t[2] = v[2]
  <2>1. \A i \in 1 .. l : i \in 1 .. n /\ k + 1 + i \in 1 .. k + l + 2
                          /\ k + 1 + i \in 1 .. m + n + 2 /\ k + 1 + i = m + 1 + i
    BY <1>n, <1>6, <1>8
  <2>2. \A i \in 1 .. l : t[2][i] = v[2][i]
    <3>1. TAKE i \in 1 .. l
    <3>2. key[k + 1 + i] = P[k + 1 + i] /\ key[k + 1 + i] = Q[k + 1 + i]
      BY Zenon, <2>1, <1>3
    <3>3. P[k + 1 + i] = t[2][i] /\ Q[m + 1 + i] = v[2][i]
      BY Zenon, <2>1, <1>1, <1>2
    <3>. QED  BY Zenon, <2>1, <3>2, <3>3
  <2>. QED  BY Zenon, <2>2, <1>4, <1>5, <1>8 DEF l, n
<1>. QED  BY Zenon, <1>4, <1>7, <1>9

-----------------------------------------------------------------------------
\* The order of keys is decided at the first place where they differ
DiffersUp(c, d) ==
  \E i \in DOMAIN c \cap DOMAIN d : c[i] < d[i] /\ \A j \in 1 .. i - 1 : c[j] = d[j]

\* After parts in common the next length is at the same place, and the bytes
\* before it are the same
LEMMA CommonParts ==
  ASSUME NEW p, NEW c, Encoded(p, c), NEW st, Places(p, c, st),
         NEW q, NEW d, Encoded(q, d), NEW tt, Places(q, d, tt),
         NEW n \in 1 .. Len(p), n \in 1 .. Len(q), \A m \in 1 .. n - 1 : p[m] = q[m]
  PROVE  st[n] = tt[n] /\ \A x \in 1 .. st[n] - 1 : c[x] = d[x]
<1>1. /\ Len(p) \in Nat /\ Len(q) \in Nat /\ n \in Nat /\ p \in Seq(Seq(Bytes))
      /\ \A m \in 1 .. n - 1 : m \in 1 .. Len(p) /\ m \in 1 .. Len(q) /\ p[m] = q[m]
  <2>1. p \in Seq(Seq(Bytes)) /\ q \in Seq(Seq(Bytes))
    BY Zenon DEF Encoded
  <2>2. Len(p) \in Nat /\ Len(q) \in Nat
    BY <2>1
  <2>. QED  BY <2>1, <2>2
<1>2. \A m \in 1 .. Len(p) + 1 : st[m] \in Nat
  BY DEF Places
<1>. DEFINE D == {m \in 1 .. n : st[m] # tt[m]}
<1>3. ASSUME D # {} PROVE FALSE
  <2>1. D \in SUBSET Nat
    BY <1>1
  <2>2. PICK m \in D : \A k \in D : m <= k
    BY Zenon, <1>3, <2>1, Least
  <2>3. m # 1 /\ m \in 1 .. n /\ st[m] # tt[m]
    BY <2>2 DEF Places
  <2>4. m - 1 \in 1 .. n - 1 /\ m - 1 \in 1 .. n /\ ~(m <= m - 1) /\ (m - 1) + 1 = m
    BY <1>1, <2>3
  <2>5. st[m - 1] = tt[m - 1]
    BY <2>2, <2>4
  <2>6. /\ st[(m - 1) + 1] = st[m - 1] + 1 + Len(p[m - 1])
        /\ tt[(m - 1) + 1] = tt[m - 1] + 1 + Len(q[m - 1])
    BY Zenon, <1>1, <2>4 DEF Places
  <2>. QED  BY <1>1, <2>3, <2>4, <2>5, <2>6
<1>4. \A m \in 1 .. n : st[m] = tt[m]
  BY <1>3
<1>. DEFINE E == {m \in n .. Len(p) : st[m] < st[n]}
<1>5. ASSUME E # {} PROVE FALSE
  <2>1. E \in SUBSET Nat
    BY <1>1
  <2>2. PICK m \in E : \A k \in E : m <= k
    BY Zenon, <1>5, <2>1, Least
  <2>3. m \in n .. Len(p) /\ st[m] < st[n] /\ n \in 1 .. Len(p) + 1
    BY <1>1, <2>2
  <2>4. m # n
    BY <1>2, <2>3
  <2>5. /\ m - 1 \in n .. Len(p) /\ m - 1 \in 1 .. Len(p) /\ ~(m <= m - 1) /\ (m - 1) + 1 = m
        /\ m - 1 \in 1 .. Len(p) + 1 /\ m \in 1 .. Len(p) + 1
    BY <1>1, <2>3, <2>4
  <2>6. ~(st[m - 1] < st[n])
    BY <2>2, <2>5
  <2>7. st[(m - 1) + 1] = st[m - 1] + 1 + Len(p[m - 1]) /\ Len(p[m - 1]) \in Nat
    <3>1. st[(m - 1) + 1] = st[m - 1] + 1 + Len(p[m - 1])
      BY Zenon, <2>5 DEF Places
    <3>2. Len(p[m - 1]) \in Nat
      BY Zenon, <2>5, PlacesIn
    <3>. QED  BY <3>1, <3>2
  <2>8. st[m - 1] \in Nat /\ st[n] \in Nat /\ st[m] = st[m - 1] + 1 + Len(p[m - 1])
    BY <1>2, <2>3, <2>5, <2>7
  <2>. QED  BY <2>3, <2>6, <2>7, <2>8
<1>6. \A m \in n .. Len(p) : ~(st[m] < st[n])
  BY <1>5
<1>7. ASSUME NEW x \in 1 .. st[n] - 1 PROVE c[x] = d[x]
  <2>1. st[n] \in 1 .. Len(c) /\ Len(c) \in Nat
    BY PlacesIn
  <2>2. x \in 1 .. Len(c) /\ x < st[n]
    BY <2>1
  <2>m. PICK m \in 1 .. Len(p) : \E i \in 0 .. Len(p[m]) : x = st[m] + i
    BY Zenon, <2>2 DEF Places
  <2>3. PICK i \in 0 .. Len(p[m]) : x = st[m] + i
    BY <2>m
  <2>4. /\ Len(p[m]) \in Nat /\ st[m] \in Nat
    BY PlacesIn
  <2>5. m \in 1 .. n - 1 /\ m \in 1 .. n
    <3>1. st[m] < st[n]
      BY <2>1, <2>2, <2>3, <2>4
    <3>2. m \notin n .. Len(p)
      BY <1>6, <3>1
    <3>. QED  BY <1>1, <3>2
  <2>6. q[m] = p[m] /\ m \in 1 .. Len(q) /\ tt[m] = st[m]
    BY Zenon, <1>1, <1>4, <2>5
  <2>7. CASE i = 0
    <3>1. c[st[m]] = Len(p[m]) /\ d[tt[m]] = Len(q[m])
      BY Zenon, <2>6 DEF Places
    <3>. QED  BY <2>3, <2>4, <2>6, <2>7, <3>1
  <2>8. CASE i # 0
    <3>1. i \in 1 .. Len(p[m])
      BY <2>4, <2>8
    <3>2. c[st[m] + i] = p[m][i]
      BY Zenon, <3>1 DEF Places
    <3>3. d[tt[m] + i] = q[m][i]
      BY Zenon, <2>6, <3>1 DEF Places
    <3>. QED  BY <2>3, <2>6, <3>2, <3>3
  <2>. QED  BY <2>7, <2>8
<1>8. n \in 1 .. n
  BY <1>1
<1>. QED  BY <1>4, <1>7, <1>8

\* The code of the lesser key is less: at the length of the first part that
\* differs, or at the first byte in which such parts of one length differ
LEMMA CodeLess ==
  ASSUME NEW p, NEW c, Encoded(p, c), NEW q, NEW d, Encoded(q, d), Len(p) = Len(q), KeyLess(p, q)
  PROVE  DiffersUp(c, d)
<1>1. PICK st : Places(p, c, st)
  BY DEF Encoded
<1>2. PICK tt : Places(q, d, tt)
  BY DEF Encoded
<1>3. p \in Seq(Seq(Bytes)) /\ q \in Seq(Seq(Bytes)) /\ c \in Seq(Nat) /\ d \in Seq(Nat)
  BY DEF Encoded
<1>4. PICK n \in DOMAIN p : PartLess(p[n], q[n]) /\ \A m \in 1 .. n - 1 : p[m] = q[m]
  BY DEF KeyLess
<1>5. n \in 1 .. Len(p) /\ n \in 1 .. Len(q)
  BY <1>3
<1>. DEFINE s == st[n]
            k == Len(p[n])
            l == Len(q[n])
<1>6. tt[n] = s /\ \A x \in 1 .. s - 1 : c[x] = d[x]
  BY <1>1, <1>2, <1>4, <1>5, CommonParts
<1>7. /\ s \in 1 .. Len(c) /\ k \in Nat /\ s \in Nat /\ Len(c) \in Nat
      /\ \A i \in 0 .. k : s + i \in 1 .. Len(c)
  BY Zenon, <1>1, <1>5, PlacesIn
<1>8. /\ s \in 1 .. Len(d) /\ l \in Nat /\ Len(d) \in Nat
      /\ \A i \in 0 .. l : s + i \in 1 .. Len(d)
  BY Zenon, <1>2, <1>5, <1>6, PlacesIn
<1>9. c[s] = k /\ \A i \in 1 .. k : c[s + i] = p[n][i]
  BY Zenon, <1>1, <1>5 DEF Places
<1>10. d[s] = l /\ \A i \in 1 .. l : d[s + i] = q[n][i]
  BY Zenon, <1>2, <1>5, <1>6 DEF Places
<1>11. DOMAIN c = 1 .. Len(c) /\ DOMAIN d = 1 .. Len(d) /\ p[n] \in Seq(Bytes)
  BY <1>3, <1>5
<1>12. CASE k < l
  BY Zenon, <1>6, <1>7, <1>8, <1>9, <1>10, <1>11, <1>12 DEF DiffersUp
<1>13. CASE k = l /\ Less(p[n], q[n])
  <2>1. PICK i \in DOMAIN p[n] : p[n][i] < q[n][i] /\ \A j \in 1 .. i - 1 : p[n][j] = q[n][j]
    BY <1>13 DEF Less
  <2>2. i \in 1 .. k
    BY <1>11
  <2>. HIDE DEF s, k, l
  <2>3. i \in 1 .. l /\ i \in 0 .. k /\ i \in 0 .. l
    BY <1>13, <1>7, <2>2
  <2>4. s + i \in DOMAIN c \cap DOMAIN d /\ c[s + i] < d[s + i]
    BY <1>7, <1>8, <1>9, <1>10, <1>11, <2>1, <2>2, <2>3
  <2>5. ASSUME NEW x \in 1 .. (s + i) - 1 PROVE c[x] = d[x]
    <3>1. CASE x < s
      <4>1. x \in 1 .. s - 1
        BY <1>7, <2>2, <3>1
      <4>. QED  BY <1>6, <4>1
    <3>2. CASE x = s
      BY <1>9, <1>10, <1>13, <3>2
    <3>3. CASE x > s
      <4>1. x - s \in 1 .. i - 1 /\ x - s \in 1 .. k /\ x - s \in 1 .. l /\ s + (x - s) = x
        BY <1>7, <1>13, <2>2, <3>3
      <4>2. c[s + (x - s)] = p[n][x - s] /\ d[s + (x - s)] = q[n][x - s] /\ p[n][x - s] = q[n][x - s]
        BY Zenon, <1>9, <1>10, <2>1, <4>1
      <4>. QED  BY Zenon, <4>1, <4>2
    <3>. QED  BY <1>7, <2>2, <3>1, <3>2, <3>3
  <2>. QED  BY Zenon, <2>4, <2>5 DEF DiffersUp
<1>. QED  BY Zenon, <1>4, <1>12, <1>13 DEF PartLess

\* A prefix in common does not change the order
LEMMA PrefixKeepsOrder ==
  ASSUME NEW P \in Seq(Nat), NEW c \in Seq(Nat), NEW d \in Seq(Nat), DiffersUp(c, d)
  PROVE  DiffersUp(P \o c, P \o d)
<1>. DEFINE u == P \o c
            v == P \o d
            k == Len(P)
<1>1. /\ u \in Seq(Nat) /\ Len(u) = k + Len(c)
      /\ \A i \in 1 .. k : u[i] = P[i]
      /\ \A i \in 1 .. Len(c) : u[k + i] = c[i]
  BY Zenon, JoinIs
<1>2. /\ v \in Seq(Nat) /\ Len(v) = k + Len(d)
      /\ \A i \in 1 .. k : v[i] = P[i]
      /\ \A i \in 1 .. Len(d) : v[k + i] = d[i]
  BY Zenon, JoinIs
<1>. HIDE DEF u, v
<1>3. PICK i \in DOMAIN c \cap DOMAIN d : c[i] < d[i] /\ \A j \in 1 .. i - 1 : c[j] = d[j]
  BY DEF DiffersUp
<1>4. k \in Nat /\ Len(c) \in Nat /\ Len(d) \in Nat /\ i \in 1 .. Len(c) /\ i \in 1 .. Len(d)
  OBVIOUS
<1>5. DOMAIN u = 1 .. k + Len(c) /\ DOMAIN v = 1 .. k + Len(d)
  BY <1>1, <1>2
<1>. HIDE DEF k
<1>6. k + i \in DOMAIN u \cap DOMAIN v /\ u[k + i] < v[k + i]
  <2>0. \A x, y \in Nat : \A z \in 1 .. y : x + z \in 1 .. x + y
    OBVIOUS
  <2>1. k + i \in 1 .. k + Len(c) /\ k + i \in 1 .. k + Len(d)
    BY Zenon, <1>4, <2>0
  <2>2. u[k + i] = c[i] /\ v[k + i] = d[i]
    BY Zenon, <1>1, <1>2, <1>4
  <2>. QED  BY Zenon, <1>3, <1>5, <2>1, <2>2
<1>7. ASSUME NEW x \in 1 .. (k + i) - 1 PROVE u[x] = v[x]
  <2>1. CASE x \in 1 .. k
    BY Zenon, <1>1, <1>2, <2>1
  <2>2. CASE x \notin 1 .. k
    <3>. DEFINE l == Len(c)
                m == Len(d)
    <3>0. i \in 1 .. l /\ i \in 1 .. m /\ l \in Nat /\ m \in Nat
      BY <1>4
    <3>. HIDE DEF l, m
    <3>n. x - k \in 1 .. i - 1 /\ x - k \in 1 .. l /\ x - k \in 1 .. m /\ k + (x - k) = x
      BY <1>4, <2>2, <3>0
    <3>1. /\ x - k \in 1 .. i - 1 /\ x - k \in 1 .. Len(c) /\ x - k \in 1 .. Len(d)
          /\ k + (x - k) = x
      BY Zenon, <3>n DEF l, m
    <3>2. u[k + (x - k)] = c[x - k] /\ v[k + (x - k)] = d[x - k] /\ c[x - k] = d[x - k]
      BY Zenon, <1>1, <1>2, <1>3, <3>1
    <3>. QED  BY Zenon, <3>1, <3>2
  <2>. QED  BY Zenon, <2>1, <2>2
<1>. QED  BY Zenon, <1>6, <1>7 DEF DiffersUp, u, v

\* What differs upward is before, and not behind
LEMMA BeforeIs ==
  ASSUME NEW c \in Seq(Nat), NEW d \in Seq(Nat), DiffersUp(c, d)
  PROVE  Before(c, d) /\ ~Before(d, c)
<1>1. PICK i \in DOMAIN c \cap DOMAIN d : c[i] < d[i] /\ \A j \in 1 .. i - 1 : c[j] = d[j]
  BY DEF DiffersUp
<1>2. i \in Nat /\ 1 <= i /\ c[i] \in Nat /\ d[i] \in Nat
  OBVIOUS
<1>3. Before(c, d)
  BY Zenon, <1>1 DEF Before
<1>4. ~StartsWith(c, d)
  BY <1>1, <1>2 DEF StartsWith
<1>5. ASSUME NEW h \in DOMAIN d \cap DOMAIN c, d[h] < c[h], \A j \in 1 .. h - 1 : d[j] = c[j]
      PROVE  FALSE
  <2>1. h \in Nat /\ 1 <= h /\ c[h] \in Nat /\ d[h] \in Nat
    OBVIOUS
  <2>2. h < i => c[h] = d[h]
    BY <1>1, <1>2, <2>1
  <2>3. i < h => c[i] = d[i]
    BY <1>2, <1>5, <2>1
  <2>n. \A x, y \in Nat : (x < y => x # y /\ ~(y < x)) /\ (x < y \/ y < x \/ x = y)
    OBVIOUS
  <2>4. c[h] # d[h] /\ c[i] # d[i]
    BY Zenon, <1>1, <1>2, <1>5, <2>1, <2>n
  <2>5. h = i
    BY Zenon, <1>2, <2>1, <2>2, <2>3, <2>4, <2>n
  <2>. QED  BY Zenon, <1>1, <1>2, <1>5, <2>5, <2>n
<1>. QED  BY Zenon, <1>3, <1>4, <1>5 DEF Before

\* Of two parts one is less, or they are the same
LEMMA PartsTotal ==
  ASSUME NEW u \in Seq(Bytes), NEW v \in Seq(Bytes), u # v
  PROVE  PartLess(u, v) \/ PartLess(v, u)
<1>0. Bytes \subseteq Nat
  BY DEF Bytes
<1>1. Len(u) \in Nat /\ Len(v) \in Nat /\ DOMAIN u = 1 .. Len(u) /\ DOMAIN v = 1 .. Len(v)
  OBVIOUS
<1>b. (\A i \in 1 .. Len(u) : u[i] \in Bytes) /\ (\A i \in 1 .. Len(v) : v[i] \in Bytes)
  OBVIOUS
<1>2. \A i \in 1 .. Len(u) : u[i] \in Nat
  BY Zenon, <1>0, <1>b
<1>3. \A i \in 1 .. Len(v) : v[i] \in Nat
  BY Zenon, <1>0, <1>b
<1>n. \A x, y \in Nat : x = y \/ x < y \/ y < x
  OBVIOUS
<1>4. CASE Len(u) # Len(v)
  BY Zenon, <1>1, <1>4, <1>n DEF PartLess
<1>5. CASE Len(u) = Len(v)
  <2>. DEFINE D == {i \in 1 .. Len(u) : u[i] # v[i]}
  <2>1. D # {}
    BY <1>5, SameSequence
  <2>2. D \in SUBSET Nat
    OBVIOUS
  <2>3. PICK i \in D : \A j \in D : i <= j
    BY Zenon, <2>1, <2>2, Least
  <2>4. i \in 1 .. Len(u) /\ u[i] # v[i] /\ i \in Nat
    BY <2>3
  <2>5. \A j \in 1 .. i - 1 : j \in 1 .. Len(u) /\ ~(i <= j)
    BY <1>1, <2>4
  <2>6. \A j \in 1 .. i - 1 : u[j] = v[j]
    BY Zenon, <2>3, <2>5
  <2>7. u[i] < v[i] \/ v[i] < u[i]
    BY Zenon, <1>2, <1>3, <1>5, <1>n, <2>4
  <2>. QED  BY Zenon, <1>1, <1>5, <2>4, <2>6, <2>7 DEF PartLess, Less
<1>. QED  BY <1>4, <1>5

\* Of two keys with as many parts one is less, or they are the same
LEMMA KeysTotal ==
  ASSUME NEW p \in Seq(Seq(Bytes)), NEW q \in Seq(Seq(Bytes)), Len(p) = Len(q)
  PROVE  KeyLess(p, q) \/ KeyLess(q, p) \/ p = q
<1>2. /\ Len(p) \in Nat /\ DOMAIN p = 1 .. Len(p) /\ DOMAIN q = 1 .. Len(p)
      /\ \A n \in 1 .. Len(p) : p[n] \in Seq(Bytes) /\ q[n] \in Seq(Bytes)
  OBVIOUS
<1>. DEFINE D == {n \in 1 .. Len(p) : p[n] # q[n]}
<1>3. CASE D = {}
  <2>1. \A n \in 1 .. Len(p) : p[n] = q[n]
    BY <1>3
  <2>. QED  BY <2>1, SameSequence
<1>4. CASE D # {}
  <2>1. D \in SUBSET Nat
    OBVIOUS
  <2>2. PICK n \in D : \A m \in D : n <= m
    BY Zenon, <1>4, <2>1, Least
  <2>3. n \in 1 .. Len(p) /\ p[n] # q[n] /\ n \in Nat
    BY <2>2
  <2>4. \A m \in 1 .. n - 1 : m \in 1 .. Len(p) /\ ~(n <= m)
    BY <1>2, <2>3
  <2>5. \A m \in 1 .. n - 1 : p[m] = q[m]
    BY Zenon, <2>2, <2>4
  <2>6. PartLess(p[n], q[n]) \/ PartLess(q[n], p[n])
    BY Zenon, <1>2, <2>3, PartsTotal
  <2>. QED  BY Zenon, <1>2, <2>3, <2>5, <2>6 DEF KeyLess
<1>. QED  BY <1>3, <1>4

-----------------------------------------------------------------------------
\* The invariant of the loop of encode_key, for both rows
Coded == Encoded(a, codeA) /\ Encoded(b, codeB) /\ other \in Others

LEMMA AlwaysCoded == KeySpec => []Coded
<1>1. KeyInit => Coded
  <2>1. Encoded(<<>>, <<>>)
    <3>1. Places(<<>>, <<>>, [n \in 1 .. 1 |-> 1])
      BY DEF Places
    <3>. QED  BY <3>1 DEF Encoded
  <2>. QED  BY Zenon, <2>1 DEF KeyInit, Coded
<1>2. Coded /\ [KeyNext]_keyVars => Coded'
  <2>1. SUFFICES ASSUME Coded, [KeyNext]_keyVars  PROVE Coded'
    OBVIOUS
  <2>2. ASSUME NEW p \in Parts, AddA(p)  PROVE Coded'
    BY Zenon, <2>1, <2>2, AddEncoded DEF Coded, AddA
  <2>3. ASSUME NEW p \in Parts, AddB(p)  PROVE Coded'
    BY Zenon, <2>1, <2>3, AddEncoded DEF Coded, AddB
  <2>4. CASE UNCHANGED keyVars
    BY Zenon, <2>1, <2>4 DEF Coded, keyVars
  <2>. QED  BY Zenon, <2>1, <2>2, <2>3, <2>4 DEF KeyNext
<1>. QED  BY <1>1, <1>2, PTL DEF KeySpec

\* A prefix in common says nothing about what follows it
LEMMA SamePrefix ==
  ASSUME NEW P \in Seq(Nat), NEW c \in Seq(Nat), NEW d \in Seq(Nat)
  PROVE  StartsWith(P \o d, P \o c) <=> StartsWith(d, c)
<1>. DEFINE u == P \o c
            v == P \o d
            k == Len(P)
            l == Len(c)
            m == Len(d)
<1>1. /\ u \in Seq(Nat) /\ Len(u) = k + l
      /\ \A i \in 1 .. k : u[i] = P[i]
      /\ \A i \in 1 .. l : u[k + i] = c[i]
  BY Zenon, JoinIs
<1>2. /\ v \in Seq(Nat) /\ Len(v) = k + m
      /\ \A i \in 1 .. k : v[i] = P[i]
      /\ \A i \in 1 .. m : v[k + i] = d[i]
  BY Zenon, JoinIs
<1>3. k \in Nat /\ l \in Nat /\ m \in Nat /\ DOMAIN c = 1 .. l
  OBVIOUS
<1>. HIDE DEF u, v
<1>4. DOMAIN u = 1 .. k + l
  BY <1>1
<1>5. StartsWith(v, u) <=> k + l <= k + m /\ \A i \in 1 .. k + l : v[i] = u[i]
  BY Zenon, <1>1, <1>2, <1>4 DEF StartsWith
<1>6. StartsWith(d, c) <=> l <= m /\ \A i \in 1 .. l : d[i] = c[i]
  BY Zenon, <1>3 DEF StartsWith
<1>. HIDE DEF k, l, m
<1>7. ASSUME StartsWith(v, u)  PROVE StartsWith(d, c)
  <2>1. l <= m
    BY <1>3, <1>5, <1>7
  <2>2. \A i \in 1 .. l : i \in 1 .. m /\ k + i \in 1 .. k + l
    BY <1>3, <2>1
  <2>3. \A i \in 1 .. l : v[k + i] = u[k + i] /\ v[k + i] = d[i] /\ u[k + i] = c[i]
    BY Zenon, <2>2, <1>1, <1>2, <1>5, <1>7
  <2>. QED  BY Zenon, <2>1, <2>3, <1>6
<1>8. ASSUME StartsWith(d, c)  PROVE StartsWith(v, u)
  <2>1. l <= m /\ \A i \in 1 .. l : d[i] = c[i]
    BY Zenon, <1>6, <1>8
  <2>2. ASSUME NEW i \in 1 .. k + l  PROVE v[i] = u[i]
    <3>1. CASE i \in 1 .. k
      BY Zenon, <3>1, <1>1, <1>2
    <3>2. CASE i \notin 1 .. k
      <4>1. i - k \in 1 .. l /\ i - k \in 1 .. m /\ k + (i - k) = i
        BY <2>1, <3>2, <1>3
      <4>2. v[k + (i - k)] = d[i - k] /\ u[k + (i - k)] = c[i - k] /\ d[i - k] = c[i - k]
        BY Zenon, <4>1, <2>1, <1>1, <1>2
      <4>. QED  BY Zenon, <4>1, <4>2
    <3>. QED  BY Zenon, <3>1, <3>2
  <2>3. k + l <= k + m
    BY <2>1, <1>3
  <2>. QED  BY Zenon, <2>2, <2>3, <1>5
<1>. QED  BY Zenon, <1>7, <1>8 DEF u, v

\* What decode_key makes of the key of a row is the parts it was made of
THEOREM KeysRoundTrip == KeySpec => []RoundTrip
<1>1. Coded => RoundTrip
  <2>1. DataPrefix(Table) \in Seq(Nat)
    BY Zenon, DataPrefixIs, KeyConstants
  <2>. QED  BY Zenon, <2>1, DecodesEncoded DEF Coded, RoundTrip, KeyA
<1>. QED  BY <1>1, AlwaysCoded, PTL

\* The entries with the prefix that for_each_in_partition builds are those of
\* the partition: no row of another one, and every row of this one
THEOREM PrefixesArePartitions == KeySpec => []PrefixIsPartition
<1>1. Coded => PrefixIsPartition
  <2>1. SUFFICES ASSUME Coded, Table = other  PROVE StartsWith(KeyB, KeyA) <=> StartsWith(b, a)
    BY Zenon DEF PrefixIsPartition
  <2>2. DataPrefix(Table) \in Seq(Nat)
    BY Zenon, DataPrefixIs, KeyConstants
  <2>3. codeA \in Seq(Nat) /\ codeB \in Seq(Nat)
    BY Zenon, <2>1 DEF Coded, Encoded
  <2>4. StartsWith(KeyB, KeyA) <=> StartsWith(codeB, codeA)
    BY Zenon, <2>1, <2>2, <2>3, SamePrefix DEF KeyA, KeyB
  <2>. QED  BY Zenon, <2>1, <2>4, PrefixOfCode, CodeOfPrefix DEF Coded
<1>. QED  BY <1>1, AlwaysCoded, PTL

\* The rows of a table are kept in the order of their key parts, shorter parts
\* first: what a forward iterator of RocksDB goes through is in this order
THEOREM KeysAreSorted == KeySpec => []KeysSort
<1>1. Coded => KeysSort
  <2>. SUFFICES ASSUME Coded, Table = other, Len(a) = Len(b)
                PROVE  Before(KeyA, KeyB) <=> KeyLess(a, b)
    BY DEF KeysSort
  <2>1. DataPrefix(Table) \in Seq(Nat)
    BY Zenon, DataPrefixIs, KeyConstants
  <2>2. /\ codeA \in Seq(Nat) /\ codeB \in Seq(Nat) /\ Encoded(a, codeA) /\ Encoded(b, codeB)
        /\ a \in Seq(Seq(Bytes)) /\ b \in Seq(Seq(Bytes))
    BY Zenon DEF Coded, Encoded
  <2>3. KeyA \in Seq(Nat) /\ KeyB \in Seq(Nat)
    BY Zenon, <2>1, <2>2, JoinIs DEF KeyA, KeyB
  <2>4. ASSUME KeyLess(a, b) PROVE Before(KeyA, KeyB)
    <3>1. DiffersUp(KeyA, KeyB)
      BY Zenon, <2>1, <2>2, <2>4, CodeLess, PrefixKeepsOrder DEF KeyA, KeyB
    <3>. QED  BY Zenon, <2>3, <3>1, BeforeIs
  <2>5. ASSUME KeyLess(b, a) PROVE ~Before(KeyA, KeyB)
    <3>1. DiffersUp(KeyB, KeyA)
      BY Zenon, <2>1, <2>2, <2>5, CodeLess, PrefixKeepsOrder DEF KeyA, KeyB
    <3>. QED  BY Zenon, <2>3, <3>1, BeforeIs
  <2>6. ASSUME a = b PROVE ~Before(KeyA, KeyB)
    <3>1. DOMAIN a = 1 .. Len(a) /\ Len(a) \in Nat
      BY <2>2
    <3>2. StartsWith(a, b) /\ StartsWith(b, a)
      BY <2>6, <3>1 DEF StartsWith
    <3>3. StartsWith(KeyA, KeyB) /\ StartsWith(KeyB, KeyA)
      BY Zenon, <2>1, <2>2, <3>2, CodeOfPrefix, SamePrefix DEF KeyA, KeyB
    <3>. HIDE DEF KeyA, KeyB
    <3>4. /\ Len(KeyA) \in Nat /\ Len(KeyB) \in Nat /\ Len(KeyB) <= Len(KeyA)
          /\ \A i \in DOMAIN KeyA : KeyB[i] = KeyA[i] /\ KeyA[i] \in Nat
      BY <2>3, <3>3 DEF StartsWith
    <3>. QED  BY <3>4 DEF Before
  <2>. QED  BY Zenon, <2>2, <2>4, <2>5, <2>6, KeysTotal
<1>. QED  BY <1>1, AlwaysCoded, PTL

\* The range tombstone of a table covers every row of it and none of another
THEOREM RangesAreTables == KeySpec => []RangeIsTable
<1>1. Coded => RangeIsTable
  <2>1. SUFFICES ASSUME Coded  PROVE RangeIsTable
    OBVIOUS
  <2>2. Table \in Names \X Names /\ other \in Names \X Names
    BY Zenon, <2>1, KeyConstants DEF Coded
  <2>3. codeA \in Seq(Nat) /\ codeB \in Seq(Nat)
    BY Zenon, <2>1 DEF Coded, Encoded
  <2>4. ASSUME NEW t \in Names \X Names, NEW c \in Seq(Nat)
        PROVE  /\ DataPrefix(t) \o c \in Seq(Nat)
               /\ \A i \in 1 .. Len(DataPrefix(t)) : (DataPrefix(t) \o c)[i] = DataPrefix(t)[i]
               /\ InRange(t, DataPrefix(t) \o c)
    <3>. DEFINE P == DataPrefix(t)
    <3>1. P \in Seq(Nat)
      BY Zenon, DataPrefixIs
    <3>. HIDE DEF P
    <3>2. DOMAIN P = 1 .. Len(P) /\ Len(P) \in Nat /\ Len(c) \in Nat
      BY <3>1
    <3>3. /\ P \o c \in Seq(Nat) /\ Len(P \o c) = Len(P) + Len(c)
          /\ \A i \in 1 .. Len(P) : (P \o c)[i] = P[i]
      BY Zenon, <3>1, JoinIs
    <3>4. Len(P) <= Len(P \o c)
      BY <3>2, <3>3
    <3>5. StartsWith(P \o c, P)
      BY Zenon, <3>2, <3>3, <3>4 DEF StartsWith
    <3>. QED  BY Zenon, <3>3, <3>5, RangeIsPrefix DEF P
  <2>5. InRange(Table, KeyA)
    BY Zenon, <2>2, <2>3, <2>4 DEF KeyA
  <2>6. ASSUME Table = other  PROVE InRange(Table, KeyB)
    BY Zenon, <2>2, <2>3, <2>4, <2>6 DEF KeyB
  <2>7. ASSUME InRange(Table, KeyB)  PROVE Table = other
    <3>1. /\ KeyB \in Seq(Nat)
          /\ \A i \in 1 .. Len(DataPrefix(other)) : KeyB[i] = DataPrefix(other)[i]
      BY Zenon, <2>2, <2>3, <2>4 DEF KeyB
    <3>2. StartsWith(KeyB, DataPrefix(Table))
      BY Zenon, <2>2, <2>7, <3>1, RangeIsPrefix
    <3>3. DataPrefix(Table) \in Seq(Nat)
      BY Zenon, <2>2, DataPrefixIs
    <3>4. DOMAIN DataPrefix(Table) = 1 .. Len(DataPrefix(Table))
      BY <3>3
    <3>5. \A i \in 1 .. Len(DataPrefix(Table)) : KeyB[i] = DataPrefix(Table)[i]
      BY Zenon, <3>2, <3>4 DEF StartsWith
    <3>. QED  BY <2>2, <3>1, <3>5, NamesApart
  <2>8. InRange(Table, KeyB) <=> Table = other
    BY Zenon, <2>6, <2>7
  <2>. QED  BY Zenon, <2>5, <2>8 DEF RangeIsTable
<1>. QED  BY <1>1, AlwaysCoded, PTL
=============================================================================
