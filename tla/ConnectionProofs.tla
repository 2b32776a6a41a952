-------------------------- MODULE ConnectionProofs --------------------------
(***************************************************************************)
(* Proofs about Connection and its ResponseWriter, for any kinds of frame, *)
(* number of permits, capacity of the channel, size of responses and       *)
(* number of frames: the types, the session keyspace and the permits, and  *)
(* then that a request gets one response, that an EXECUTE runs what was    *)
(* prepared, and that the client receives whole frames.                    *)
(***************************************************************************)
EXTENDS Connection, FiniteSetTheorems, TLAPS

\* TypeOK with the types it leaves open
Types ==
  /\ TypeOK
  /\ frames \in Seq([kind : Kinds, of : 0 .. MaxFrames]) /\ Len(frames) <= MaxFrames
  /\ chan \in Seq(Places) /\ pending \in Seq(Places)
  /\ wire \in Seq(Places \X (1 .. FrameSize))
  /\ prepares \in Nat /\ idOf \in [Places -> 0 .. IdSpace - 1]

\* What the reader, the tasks and the writer have behind them in each state
Shape ==
  /\ reader \in {"send", "permit"} => taken >= 1
  /\ reader = "permit" => ~IsSessionUse(frames[taken])
  /\ \A i \in Places : task[i] # "none" => i <= taken /\ ~IsSessionUse(frames[i])
  /\ \A i \in Places : task[i] = "set_keyspace" => frames[i].kind = "padded_use"
  /\ writer = "write" => pending # <<>>
  /\ writer = "done" => ~open \/ SendersGone
  /\ offset # 0 => writer = "write" /\ runtime = "monoio"

\* The last byte of a response is on the wire once
LastOnce(s) == \A x, y \in DOMAIN s : s[x] = s[y] /\ s[x][2] = FrameSize => x = y

\* The session keyspace is that of the last USE read, or of a later one
UsesSeen ==
  \A n \in 1 .. taken :
    (\A u \in 1 .. n : frames[u].kind # "padded_use") =>
      \A u \in 1 .. n : frames[u].kind = "use" => session >= u

-----------------------------------------------------------------------------
\* What a queue holds after an element is added at its end ...
LEMMA Added ==
  ASSUME NEW S, NEW s \in Seq(S), NEW x \in S
  PROVE  /\ Append(s, x) \in Seq(S) /\ Range(Append(s, x)) = Range(s) \cup {x}
         /\ IsInjective(s) /\ x \notin Range(s) => IsInjective(Append(s, x))
<1>. DEFINE t == Append(s, x)
<1>1. /\ t \in Seq(S) /\ Len(s) \in Nat /\ DOMAIN s = 1 .. Len(s) /\ DOMAIN t = 1 .. Len(s) + 1
      /\ t[Len(s) + 1] = x /\ \A i \in 1 .. Len(s) : t[i] = s[i]
  OBVIOUS
<1>. HIDE DEF t
<1>2. \A i \in 1 .. Len(s) + 1 : i \in 1 .. Len(s) \/ i = Len(s) + 1
  BY <1>1
<1>3. Len(s) + 1 \in 1 .. Len(s) + 1 /\ \A i \in 1 .. Len(s) : i \in 1 .. Len(s) + 1
  BY <1>1
<1>4. \A y : /\ y \in Range(t) <=> \E i \in 1 .. Len(s) + 1 : y = t[i]
             /\ y \in Range(s) <=> \E i \in 1 .. Len(s) : y = s[i]
  BY <1>1 DEF Range
<1>5. \A y : y \in Range(t) <=> y \in Range(s) \/ y = x
  BY Zenon, <1>1, <1>2, <1>3, <1>4
<1>6. IsInjective(s) /\ x \notin Range(s) => IsInjective(t)
  BY ZenonT(30), <1>1, <1>2, <1>4 DEF IsInjective
<1>. QED  BY <1>1, <1>5, <1>6 DEF t

\* ... and after the first one is taken
LEMMA Taken ==
  ASSUME NEW S, NEW s \in Seq(S), s # <<>>
  PROVE  /\ Head(s) \in S /\ Tail(s) \in Seq(S) /\ Len(Tail(s)) = Len(s) - 1
         /\ Range(s) = Range(Tail(s)) \cup {Head(s)}
         /\ IsInjective(s) => IsInjective(Tail(s)) /\ Head(s) \notin Range(Tail(s))
<1>. DEFINE t == Tail(s)
<1>1. /\ t \in Seq(S) /\ Head(s) \in S /\ Len(s) \in Nat \ {0} /\ DOMAIN s = 1 .. Len(s)
      /\ DOMAIN t = 1 .. Len(s) - 1 /\ Head(s) = s[1] /\ \A i \in 1 .. Len(s) - 1 : t[i] = s[i + 1]
      /\ Len(t) = Len(s) - 1
  OBVIOUS
<1>. HIDE DEF t
<1>2. \A i \in 1 .. Len(s) : s[i] = Head(s) \/ \E j \in 1 .. Len(s) - 1 : s[i] = t[j]
  <2>1. ASSUME NEW i \in 1 .. Len(s), i # 1 PROVE \E j \in 1 .. Len(s) - 1 : s[i] = t[j]
    <3>1. i - 1 \in 1 .. Len(s) - 1 /\ i = (i - 1) + 1 /\ t[i - 1] = s[(i - 1) + 1]
      BY <1>1, <2>1
    <3>. QED  BY <3>1
  <2>. QED  BY <1>1, <2>1
<1>3. 1 \in 1 .. Len(s) /\ \A i \in 1 .. Len(s) - 1 : i + 1 \in 1 .. Len(s) /\ i + 1 # 1
  BY <1>1
<1>4. \A y : /\ y \in Range(t) <=> \E i \in 1 .. Len(s) - 1 : y = t[i]
             /\ y \in Range(s) <=> \E i \in 1 .. Len(s) : y = s[i]
  BY Zenon, <1>1 DEF Range
<1>5. \A y : y \in Range(s) <=> y \in Range(t) \/ y = Head(s)
  BY Zenon, <1>1, <1>2, <1>3, <1>4
<1>6. ASSUME IsInjective(s) PROVE IsInjective(t) /\ Head(s) \notin Range(t)
  <2>1. \A x, y \in 1 .. Len(s) : s[x] = s[y] => x = y
    BY Zenon, <1>1, <1>6 DEF IsInjective
  <2>2. \A i, j \in 1 .. Len(s) - 1 : t[i] = t[j] => i = j
    BY <1>1, <1>3, <2>1
  <2>3. \A i \in 1 .. Len(s) - 1 : t[i] # Head(s)
    BY <1>1, <1>3, <2>1
  <2>. QED  BY <1>1, <1>4, <2>2, <2>3 DEF IsInjective
<1>. QED  BY <1>1, <1>5, <1>6 DEF t

\* An empty queue
LEMMA EmptyQueue == Range(<<>>) = {} /\ IsInjective(<<>>) /\ \A S : <<>> \in Seq(S)
<1>1. Range(<<>>) = {}
  BY DEF Range
<1>2. IsInjective(<<>>)
  BY DEF IsInjective
<1>. QED  BY <1>1, <1>2

\* Bytes written after others
LEMMA Joined ==
  ASSUME NEW S, NEW s \in Seq(S), NEW t \in Seq(S)
  PROVE  /\ s \o t \in Seq(S) /\ Range(s \o t) = Range(s) \cup Range(t)
         /\ LastOnce(s) /\ LastOnce(t) /\ (\A b \in Range(t) : b[2] = FrameSize => b \notin Range(s))
              => LastOnce(s \o t)
<1>. DEFINE u == s \o t
<1>1. /\ u \in Seq(S) /\ Len(s) \in Nat /\ Len(t) \in Nat /\ DOMAIN u = 1 .. Len(s) + Len(t)
      /\ DOMAIN s = 1 .. Len(s) /\ DOMAIN t = 1 .. Len(t)
      /\ (\A i \in 1 .. Len(s) : u[i] = s[i]) /\ (\A i \in 1 .. Len(t) : u[Len(s) + i] = t[i])
  OBVIOUS
<1>. HIDE DEF u
<1>2. \A i \in 1 .. Len(s) + Len(t) : i \notin 1 .. Len(s) =>
        i - Len(s) \in 1 .. Len(t) /\ u[i] = t[i - Len(s)]
  <2>1. ASSUME NEW i \in 1 .. Len(s) + Len(t), i \notin 1 .. Len(s)
        PROVE  i - Len(s) \in 1 .. Len(t) /\ i = Len(s) + (i - Len(s))
    BY <1>1, <2>1
  <2>. QED  BY <1>1, <2>1
<1>3. /\ \A i \in 1 .. Len(s) : i \in 1 .. Len(s) + Len(t)
      /\ \A i \in 1 .. Len(t) : Len(s) + i \in 1 .. Len(s) + Len(t)
  BY <1>1
<1>4. \A y : /\ y \in Range(u) <=> \E i \in 1 .. Len(s) + Len(t) : y = u[i]
             /\ y \in Range(s) <=> \E i \in 1 .. Len(s) : y = s[i]
             /\ y \in Range(t) <=> \E i \in 1 .. Len(t) : y = t[i]
  BY Zenon, <1>1 DEF Range
<1>5. \A y : y \in Range(u) <=> y \in Range(s) \/ y \in Range(t)
  BY ZenonT(30), <1>1, <1>2, <1>3, <1>4
<1>6. ASSUME LastOnce(s), LastOnce(t), \A b \in Range(t) : b[2] = FrameSize => b \notin Range(s)
      PROVE  LastOnce(u)
  <2>. SUFFICES ASSUME NEW x \in 1 .. Len(s) + Len(t), NEW y \in 1 .. Len(s) + Len(t),
                       u[x] = u[y], u[x][2] = FrameSize
                PROVE  x = y
    BY <1>1 DEF LastOnce
  <2>1. CASE x \in 1 .. Len(s) /\ y \in 1 .. Len(s)
    BY Zenon, <1>1, <1>6, <2>1 DEF LastOnce
  <2>2. CASE x \notin 1 .. Len(s) /\ y \notin 1 .. Len(s)
    <3>1. PICK i \in 1 .. Len(t), j \in 1 .. Len(t) :
            i = x - Len(s) /\ j = y - Len(s) /\ t[i] = u[x] /\ t[j] = u[y]
      BY Zenon, <1>2, <2>2
    <3>2. i = j
      BY ZenonT(30), <1>1, <1>6, <3>1 DEF LastOnce
    <3>. QED  BY <1>1, <3>1, <3>2
  <2>3. ASSUME NEW i \in 1 .. Len(s) + Len(t), NEW j \in 1 .. Len(s) + Len(t), i \in 1 .. Len(s),
               j \notin 1 .. Len(s), u[i] = u[j], u[i][2] = FrameSize
        PROVE  FALSE
    <3>1. u[i] \in Range(s)
      BY <1>1, <1>4, <2>3
    <3>2. u[j] \in Range(t)
      BY <1>2, <1>4, <2>3
    <3>. QED  BY <1>6, <2>3, <3>1, <3>2
  <2>. QED  BY <2>1, <2>2, <2>3
<1>. QED  BY <1>1, <1>5, <1>6 DEF u

-----------------------------------------------------------------------------
\* A byte of a batch is a byte of one of its responses
LEMMA Quotient ==
  ASSUME NEW m \in Nat
  PROVE  /\ m \div FrameSize \in Nat /\ m % FrameSize \in 0 .. FrameSize - 1
         /\ m = FrameSize * (m \div FrameSize) + (m % FrameSize)
<1>. DEFINE F == FrameSize
<1>1. F \in Nat \ {0}
  BY WriterConstants
<1>. HIDE DEF F
<1>2. m % F \in 0 .. F - 1
  BY <1>1
<1>3. m = F * (m \div F) + (m % F)
  BY <1>1
<1>4. m \div F \in Nat
  BY <1>1
<1>. QED  BY <1>2, <1>3, <1>4 DEF F

\* Quotient and remainder are unique: byte m of a batch written as whole
\* frames is byte r of frame q
LEMMA QuotientIs ==
  ASSUME NEW q \in Nat, NEW r \in 0 .. FrameSize - 1, NEW m \in Nat, m = FrameSize * q + r
  PROVE  m \div FrameSize = q /\ m % FrameSize = r
<1>1. ASSUME NEW F \in Nat \ {0}, NEW a \in Nat, NEW b \in Nat, a < b PROVE F * a + F <= F * b
  <2>1. PICK c \in Nat : b = a + 1 + c
    <3>1. b - a - 1 \in Nat /\ b = a + 1 + (b - a - 1)
      BY <1>1
    <3>. QED  BY <3>1
  <2>2. F * b = F * a + F + F * c /\ F * c \in Nat /\ F * a \in Nat
    BY <2>1
  <2>. QED  BY <2>2
<1>2. FrameSize \in Nat \ {0}
  BY WriterConstants
<1>. DEFINE p == m \div FrameSize
            t == m % FrameSize
<1>3. p \in Nat /\ t \in 0 .. FrameSize - 1 /\ m = FrameSize * p + t
  BY Quotient
<1>. HIDE DEF p, t
<1>4. PICK x \in Nat, y \in Nat : x = FrameSize * p /\ y = FrameSize * q
  <2>1. \A a \in Nat : FrameSize * a \in Nat
    BY <1>2
  <2>. QED  BY <1>3, <2>1
<1>5. ~(p < q)
  <2>1. SUFFICES ASSUME p < q PROVE FALSE
    OBVIOUS
  <2>2. x + FrameSize <= y
    BY <1>1, <1>2, <1>3, <1>4, <2>1
  <2>. QED  BY <1>2, <1>3, <1>4, <2>2
<1>6. ~(q < p)
  <2>1. SUFFICES ASSUME q < p PROVE FALSE
    OBVIOUS
  <2>2. y + FrameSize <= x
    BY <1>1, <1>2, <1>3, <1>4, <2>1
  <2>. QED  BY <1>2, <1>3, <1>4, <2>2
<1>7. p = q
  BY <1>3, <1>5, <1>6
<1>8. t = r
  BY <1>2, <1>3, <1>4, <1>7
<1>. QED  BY <1>7, <1>8 DEF p, t

\* The bytes write_vectored is given: whole responses, one after the other,
\* the last byte of each once
LEMMA AllBytesAre ==
  ASSUME NEW s \in Seq(Places), NEW out, out = AllBytes(s)
  PROVE  /\ out \in Seq(Places \X (1 .. FrameSize)) /\ Len(out) = Len(s) * FrameSize
         /\ \A k \in 1 .. Len(out) :
              IF out[k][2] = 1 THEN k = 1 \/ out[k - 1][2] = FrameSize
              ELSE k > 1 /\ out[k - 1] = <<out[k][1], out[k][2] - 1>>
         /\ \A k \in 1 .. Len(out) : out[k][1] \in Range(s)
         /\ s # <<>> => Len(out) >= 1 /\ out[Len(out)][2] = FrameSize
         /\ \A i \in Range(s) : <<i, FrameSize>> \in Range(out)
         /\ IsInjective(s) => LastOnce(out)
<1>. DEFINE F == FrameSize
            q(k) == (k - 1) \div F
            r(k) == (k - 1) % F
            L == Len(s) * F
<1>1. F \in Nat \ {0} /\ Len(s) \in Nat /\ s \in [1 .. Len(s) -> Places]
  BY WriterConstants
<1>2. L \in Nat
  BY <1>1
<1>3. ASSUME NEW k \in 1 .. L
      PROVE  /\ q(k) \in 0 .. Len(s) - 1 /\ r(k) \in 0 .. F - 1 /\ k - 1 \in Nat
             /\ k - 1 = F * q(k) + r(k)
  <2>1. q(k) \in Nat /\ r(k) \in 0 .. F - 1 /\ k - 1 \in Nat /\ k - 1 = F * q(k) + r(k)
    <3>1. k - 1 \in Nat
      BY <1>2
    <3>. QED  BY Zenon, <3>1, Quotient
  <2>2. q(k) < Len(s)
    <3>. HIDE DEF q, r
    <3>1. SUFFICES ASSUME Len(s) <= q(k) PROVE FALSE
      BY <1>1, <2>1
    <3>2. PICK c \in Nat : q(k) = Len(s) + c
      <4>1. q(k) - Len(s) \in Nat /\ q(k) = Len(s) + (q(k) - Len(s))
        BY <1>1, <2>1, <3>1
      <4>. QED  BY Zenon, <4>1
    <3>3. F * q(k) = L + F * c /\ F * c \in Nat
      BY <1>1, <3>2
    <3>. QED  BY <1>1, <1>2, <2>1, <3>3
  <2>. QED  BY <1>1, <2>1, <2>2
<1>4. /\ out = [k \in 1 .. L |-> Bytes(s[q(k) + 1])[r(k) + 1]]
  BY DEF AllBytes
<1>. HIDE DEF q, r, L
<1>5. ASSUME NEW k \in 1 .. L
      PROVE  /\ out[k] = <<s[q(k) + 1], r(k) + 1>> /\ q(k) + 1 \in 1 .. Len(s)
             /\ r(k) + 1 \in 1 .. FrameSize
  <2>1. q(k) + 1 \in 1 .. Len(s) /\ r(k) + 1 \in 1 .. FrameSize
    BY <1>1, <1>3
  <2>2. out[k] = Bytes(s[q(k) + 1])[r(k) + 1]
    BY <1>4
  <2>. QED  BY <2>1, <2>2 DEF Bytes
<1>6. out \in [1 .. L -> Places \X (1 .. FrameSize)]
  <2>1. ASSUME NEW k \in 1 .. L PROVE out[k] \in Places \X (1 .. FrameSize)
    <3>1. s[q(k) + 1] \in Places
      BY <1>1, <1>5
    <3>2. PICK i \in Places, j \in 1 .. FrameSize : out[k] = <<i, j>>
      BY Zenon, <1>5, <3>1
    <3>. QED  BY <3>2
  <2>2. DOMAIN out = 1 .. L /\ out = [k \in 1 .. L |-> out[k]]
    BY Zenon, <1>4
  <2>. QED  BY <2>1, <2>2
<1>7. out \in Seq(Places \X (1 .. FrameSize)) /\ Len(out) = L
  BY <1>2, <1>6
<1>8. ASSUME NEW k \in 1 .. L, r(k) = 0 PROVE k = 1 \/ (k - 1 \in 1 .. L /\ r(k - 1) = F - 1)
  <2>1. SUFFICES ASSUME k # 1 PROVE k - 1 \in 1 .. L /\ r(k - 1) = F - 1
    OBVIOUS
  <2>0. PICK x \in Nat : x = F * q(k)
    BY <1>1, <1>3
  <2>2. k - 1 \in 1 .. L /\ (k - 1) - 1 \in Nat /\ k - 1 = F * q(k)
    BY <1>2, <1>3, <1>8, <2>0, <2>1
  <2>3. q(k) # 0
    BY <1>1, <2>2
  <2>4. q(k) - 1 \in Nat /\ F * (q(k) - 1) = F * q(k) - F
    BY <1>1, <1>3, <2>3
  <2>5. (k - 1) - 1 = F * (q(k) - 1) + (F - 1) /\ F - 1 \in 0 .. F - 1
    BY <1>1, <2>2, <2>4
  <2>6. ((k - 1) - 1) % F = F - 1
    BY <2>2, <2>4, <2>5, QuotientIs
  <2>. QED  BY <2>2, <2>6 DEF r
<1>9. ASSUME NEW k \in 1 .. L, r(k) # 0
      PROVE  k - 1 \in 1 .. L /\ q(k - 1) = q(k) /\ r(k - 1) = r(k) - 1
  <2>1. r(k) - 1 \in 0 .. F - 1 /\ F * q(k) \in Nat /\ q(k) \in Nat
    BY <1>1, <1>3, <1>9
  <2>2. k - 1 \in 1 .. L /\ (k - 1) - 1 \in Nat /\ (k - 1) - 1 = F * q(k) + (r(k) - 1)
    BY <1>2, <1>3, <2>1
  <2>3. ((k - 1) - 1) \div F = q(k) /\ ((k - 1) - 1) % F = r(k) - 1
    BY <2>1, <2>2, QuotientIs
  <2>. QED  BY <2>2, <2>3 DEF q, r
<1>10. ASSUME NEW k \in 1 .. L
       PROVE  IF out[k][2] = 1 THEN k = 1 \/ out[k - 1][2] = FrameSize
              ELSE k > 1 /\ out[k - 1] = <<out[k][1], out[k][2] - 1>>
  <2>1. out[k][1] = s[q(k) + 1] /\ out[k][2] = r(k) + 1 /\ r(k) \in 0 .. F - 1
    BY <1>3, <1>5
  <2>2. CASE r(k) = 0
    <3>1. out[k][2] = 1
      BY <2>1, <2>2
    <3>2. k = 1 \/ (out[k - 1][2] = r(k - 1) + 1 /\ r(k - 1) = F - 1)
      BY <1>5, <1>8, <2>2
    <3>3. k = 1 \/ out[k - 1][2] = FrameSize
      BY <1>1, <3>2
    <3>. QED  BY <3>1, <3>3
  <2>3. CASE r(k) # 0
    <3>1. out[k][2] # 1 /\ k > 1
      BY <1>1, <1>2, <1>9, <2>1, <2>3
    <3>2. out[k - 1] = <<s[q(k) + 1], (r(k) - 1) + 1>>
      BY <1>5, <1>9, <2>3
    <3>3. (r(k) - 1) + 1 = out[k][2] - 1
      BY <1>1, <2>1
    <3>. QED  BY <2>1, <3>1, <3>2, <3>3
  <2>. QED  BY <2>2, <2>3
<1>11. \A k \in 1 .. L : out[k][1] \in Range(s)
  BY <1>1, <1>5 DEF Range
<1>12. ASSUME NEW j \in 1 .. Len(s) PROVE j * F \in 1 .. L /\ out[j * F] = <<s[j], FrameSize>>
  <2>1. PICK c \in Nat, d \in Nat : j = c + 1 /\ Len(s) = j + d
    <3>1. j - 1 \in Nat /\ Len(s) - j \in Nat /\ j = (j - 1) + 1 /\ Len(s) = j + (Len(s) - j)
      BY <1>1
    <3>. QED  BY Zenon, <3>1
  <2>2. j * F = F * c + F /\ F * c \in Nat /\ L = j * F + d * F /\ d * F \in Nat
    BY <1>1, <2>1 DEF L
  <2>3. j * F \in 1 .. L /\ (j * F) - 1 \in Nat /\ (j * F) - 1 = F * c + (F - 1) /\ F - 1 \in 0 .. F - 1
    BY <1>1, <1>2, <2>2
  <2>4. ((j * F) - 1) \div F = c /\ ((j * F) - 1) % F = F - 1
    BY <2>1, <2>3, QuotientIs
  <2>5. out[j * F] = <<s[c + 1], (F - 1) + 1>>
    BY Zenon, <1>5, <2>3, <2>4 DEF q, r
  <2>. QED  BY <1>1, <2>1, <2>3, <2>5
<1>13. \A i \in Range(s) : <<i, FrameSize>> \in Range(out)
  <2>1. ASSUME NEW i \in Range(s) PROVE \E j \in 1 .. Len(s) : i = s[j]
    BY <1>1 DEF Range
  <2>2. \A k \in 1 .. L : out[k] \in Range(out)
    BY <1>6 DEF Range
  <2>. QED  BY Zenon, <1>12, <2>1, <2>2
<1>14. s # <<>> => L >= 1 /\ out[L][2] = FrameSize
  <2>1. s # <<>> => Len(s) \in 1 .. Len(s)
    BY <1>1
  <2>. QED  BY <1>2, <1>12, <2>1 DEF L
<1>15. ASSUME IsInjective(s) PROVE LastOnce(out)
  <2>. SUFFICES ASSUME NEW x \in 1 .. L, NEW y \in 1 .. L, out[x] = out[y] PROVE x = y
    BY <1>6 DEF LastOnce
  <2>1. s[q(x) + 1] = s[q(y) + 1] /\ r(x) + 1 = r(y) + 1
    BY <1>5
  <2>2. q(x) + 1 = q(y) + 1
    BY <1>1, <1>5, <1>15, <2>1 DEF IsInjective
  <2>3. q(x) = q(y) /\ r(x) = r(y)
    BY <1>3, <2>1, <2>2
  <2>4. x - 1 = y - 1
    BY <1>3, <2>3
  <2>. QED  BY <1>2, <2>4
<1>. QED  BY Zenon, <1>7, <1>10, <1>11, <1>13, <1>14, <1>15 DEF L

\* A part of some bytes
LEMMA PartOf ==
  ASSUME NEW S, NEW t \in Seq(S), NEW m \in 1 .. Len(t), NEW n \in m .. Len(t)
  PROVE  /\ SubSeq(t, m, n) \in Seq(S) /\ Len(SubSeq(t, m, n)) = n - m + 1
         /\ \A k \in 1 .. n - m + 1 : SubSeq(t, m, n)[k] = t[m + k - 1] /\ m + k - 1 \in 1 .. Len(t)
<1>1. Len(t) \in Nat /\ m \in Nat /\ n \in Nat /\ m <= n /\ n <= Len(t)
  OBVIOUS
<1>2. SubSeq(t, m, n) \in Seq(S) /\ Len(SubSeq(t, m, n)) = n - m + 1
  BY <1>1
<1>3. ASSUME NEW k \in 1 .. n - m + 1
      PROVE  SubSeq(t, m, n)[k] = t[m + k - 1] /\ m + k - 1 \in 1 .. Len(t)
  BY <1>1
<1>. QED  BY Zenon, <1>2, <1>3

\* write_all puts the next bytes of the first pending response on the wire
LEMMA WriteAllAdds ==
  ASSUME Types, Shape, WriteAll
  PROVE  \E n \in offset + 1 .. FrameSize : \E out \in Seq(Places \X (1 .. FrameSize)) :
           /\ wire' = wire \o out /\ Len(out) = n - offset
           /\ \A k \in 1 .. n - offset : out[k] = <<Head(pending), offset + k>>
           /\ pending # <<>> /\ Head(pending) \in Places
           /\ n = FrameSize => pending' = Tail(pending) /\ offset' = 0
           /\ n # FrameSize => pending' = pending /\ offset' = n
           /\ writer' = (IF pending' = <<>> THEN "collect" ELSE "write")
           /\ runtime = "monoio" /\ open /\ writer = "write" /\ UNCHANGED <<chan, short>>
<1>. DEFINE h == Head(pending)
            B == Bytes(h)
<1>0. FrameSize \in Nat \ {0} /\ offset \in 0 .. FrameSize - 1
  BY WriterConstants DEF Types, TypeOK, WriterTypeOK
<1>1. PICK n \in offset + 1 .. FrameSize :
        /\ wire' = wire \o SubSeq(B, offset + 1, n)
        /\ offset' = n % FrameSize
        /\ pending' = IF n = FrameSize THEN Tail(pending) ELSE pending
  BY Zenon DEF WriteAll
<1>2. pending # <<>> /\ h \in Places
  BY DEF WriteAll, Shape, Types
<1>3. /\ writer' = (IF pending' = <<>> THEN "collect" ELSE "write")
      /\ runtime = "monoio" /\ open /\ writer = "write" /\ UNCHANGED <<chan, short>>
  BY DEF WriteAll
<1>. HIDE DEF h
<1>4. B \in Seq(Places \X (1 .. FrameSize)) /\ Len(B) = FrameSize
      /\ \A k \in 1 .. FrameSize : B[k] = <<h, k>>
  <2>1. B = [j \in 1 .. FrameSize |-> <<h, j>>]
    BY DEF Bytes
  <2>. HIDE DEF B
  <2>2. B \in [1 .. FrameSize -> Places \X (1 .. FrameSize)]
    BY <1>2, <2>1
  <2>. QED  BY <1>0, <2>1, <2>2
<1>. HIDE DEF B
<1>. DEFINE out == SubSeq(B, offset + 1, n)
<1>. DEFINE m == offset + 1
<1>5. m \in 1 .. FrameSize /\ n \in m .. FrameSize /\ n - m + 1 = n - offset
  BY <1>0
<1>6. /\ out \in Seq(Places \X (1 .. FrameSize)) /\ Len(out) = n - m + 1
      /\ \A k \in 1 .. n - m + 1 : out[k] = B[m + k - 1] /\ m + k - 1 \in 1 .. Len(B)
  <2>. DEFINE S == Places \X (1 .. FrameSize)
  <2>0. B \in Seq(S)
    BY <1>4
  <2>. HIDE DEF m, S
  <2>1. m \in 1 .. Len(B) /\ n \in m .. Len(B)
    BY Zenon, <1>4, <1>5
  <2>2. /\ SubSeq(B, m, n) \in Seq(S) /\ Len(SubSeq(B, m, n)) = n - m + 1
        /\ \A k \in 1 .. n - m + 1 : SubSeq(B, m, n)[k] = B[m + k - 1] /\ m + k - 1 \in 1 .. Len(B)
    BY Zenon, <2>0, <2>1, PartOf
  <2>. QED  BY <2>2 DEF m, S
<1>7. Len(out) = n - offset /\ \A k \in 1 .. n - offset : out[k] = <<h, offset + k>>
  <2>. HIDE DEF out
  <2>1. ASSUME NEW k \in 1 .. n - offset PROVE k \in 1 .. n - m + 1 /\ m + k - 1 = offset + k
    BY <1>0, <1>5
  <2>. QED  BY Zenon, <1>4, <1>5, <1>6, <2>1
<1>8. n = FrameSize => n % FrameSize = 0
  <2>1. FrameSize = FrameSize * 1 + 0 /\ 0 \in 0 .. FrameSize - 1
    BY <1>0
  <2>. QED  BY <1>0, <2>1, QuotientIs
<1>9. n # FrameSize => n % FrameSize = n
  <2>1. n # FrameSize => n = FrameSize * 0 + n /\ n \in 0 .. FrameSize - 1
    BY <1>0
  <2>. QED  BY <1>0, <2>1, QuotientIs
<1>. HIDE DEF out
<1>10. n = FrameSize => pending' = Tail(pending) /\ offset' = 0
  BY Zenon, <1>1, <1>8
<1>11. n # FrameSize => pending' = pending /\ offset' = n
  BY Zenon, <1>1, <1>9
<1>12. wire' = wire \o out
  BY <1>1 DEF out
<1>. QED  BY Zenon, <1>2, <1>3, <1>6, <1>7, <1>10, <1>11, <1>12 DEF h

\* write_vectored puts some bytes of the batch on the wire, or all of them
LEMMA WriteVectoredAdds ==
  ASSUME Types, Shape, WriteVectored
  PROVE  \E n \in 1 .. Len(AllBytes(pending)) : \E out \in Seq(Places \X (1 .. FrameSize)) :
           /\ wire' = wire \o out /\ Len(out) = n
           /\ \A k \in 1 .. n : out[k] = AllBytes(pending)[k]
           /\ short' = (short \/ n < Len(AllBytes(pending)))
           /\ pending # <<>> /\ pending' = <<>> /\ writer' = "collect" /\ offset = 0 /\ offset' = 0
           /\ runtime = "tokio" /\ open /\ writer = "write" /\ UNCHANGED chan
<1>. DEFINE B == AllBytes(pending)
<1>1. PICK n \in 1 .. Len(B) : wire' = wire \o SubSeq(B, 1, n) /\ short' = (short \/ n < Len(B))
  BY Zenon DEF WriteVectored
<1>2. /\ pending # <<>> /\ pending' = <<>> /\ writer' = "collect" /\ offset = 0 /\ offset' = 0
      /\ runtime = "tokio" /\ open /\ writer = "write" /\ UNCHANGED chan
  BY DEF WriteVectored, Shape
<1>3. B \in Seq(Places \X (1 .. FrameSize))
  BY AllBytesAre DEF Types
<1>. HIDE DEF B
<1>. DEFINE out == SubSeq(B, 1, n)
<1>4. 1 \in 1 .. Len(B) /\ n \in 1 .. Len(B) /\ n - 1 + 1 = n
  BY <1>3
<1>5. out \in Seq(Places \X (1 .. FrameSize)) /\ Len(out) = n
  BY <1>3, <1>4, PartOf
<1>6. ASSUME NEW k \in 1 .. n PROVE out[k] = B[k]
  <2>1. out[k] = B[1 + k - 1] /\ 1 + k - 1 = k
    BY <1>3, <1>4, PartOf
  <2>. QED  BY <2>1
<1>. HIDE DEF out
<1>7. wire' = wire \o out
  BY <1>1 DEF out
<1>. QED  BY Zenon, <1>1, <1>2, <1>5, <1>6, <1>7 DEF B

-----------------------------------------------------------------------------
\* The tasks that run, each with a permit
Running == {i \in Places : task[i] # "none"}

\* A connection starts with nothing sent, read or running
LEMMA TypesInit == Init => Types /\ Shape
<1>. SUFFICES ASSUME Init PROVE Types /\ Shape
  OBVIOUS
<1>1. Cardinality({i \in Places : task[i] # "none"}) <= Permits
  <2>1. {i \in Places : task[i] # "none"} = {}
    BY DEF Init
  <2>2. Cardinality({}) = 0
    BY FS_EmptySet
  <2>. QED  BY <2>1, <2>2, ConnectionConstants
<1>2. WriterTypeOK
  <2>1. Len(chan) <= Capacity /\ offset \in 0 .. FrameSize - 1
    BY WriterConstants DEF Init, WriterInit
  <2>2. (Len(pending) - 1) * FrameSize < Threshold
    <3>1. Len(pending) = 0 /\ FrameSize \in Nat \ {0} /\ Threshold \in Nat \ {0}
      BY WriterConstants DEF Init, WriterInit
    <3>2. (0 - 1) * FrameSize = 0 - FrameSize
      BY <3>1
    <3>. QED  BY <3>1, <3>2
  <2>. QED  BY Zenon, <2>1, <2>2 DEF Init, WriterInit, WriterTypeOK
<1>3. /\ frames \in Seq([kind : Kinds, of : 0 .. MaxFrames]) /\ Len(frames) = 0
      /\ \A i \in DOMAIN frames : frames[i].kind \in Kinds
      /\ taken \in 0 .. Len(frames) /\ prepares \in Nat
  BY DEF Init
<1>4. /\ {closing, compression} \subseteq BOOLEAN /\ reader \in {"read", "send", "permit", "closed"}
      /\ task \in [Places -> {"none", "start", "set_keyspace", "reply"}]
  BY Zenon DEF Init
<1>5. /\ session \in 0 .. MaxFrames /\ prepared \in [0 .. IdSpace - 1 -> 0 .. MaxFrames]
      /\ idOf \in [Places -> 0 .. IdSpace - 1] /\ 0 <= MaxFrames
  BY ConnectionConstants DEF Init
<1>6. TypeOK
  BY Zenon, <1>1, <1>2, <1>3, <1>4, <1>5 DEF TypeOK
<1>7. Types
  BY <1>3, <1>5, <1>6 DEF Init, WriterInit, Types
<1>. QED  BY <1>7 DEF Init, WriterInit, Shape, Places

\* Spawn takes a permit for its task; every other step of a task keeps or
\* drops the one it has
LEMMA PermitsStep ==
  ASSUME Types, [Next]_vars
  PROVE  Cardinality(Running') <= Permits
<1>1. Permits \in Nat /\ IsFiniteSet(Running) /\ Cardinality(Running) \in Nat
      /\ Cardinality(Running) <= Permits
  <2>1. IsFiniteSet(Places)
    BY FS_Interval, ConnectionConstants DEF Places
  <2>2. IsFiniteSet(Running)
    BY <2>1, FS_Subset DEF Running
  <2>. QED  BY <2>2, FS_CardinalityType, ConnectionConstants DEF Types, TypeOK, Running
<1>2. ASSUME Running' \subseteq Running PROVE Cardinality(Running') <= Permits
  <2>1. Cardinality(Running') \in Nat /\ Cardinality(Running') <= Cardinality(Running)
    BY <1>1, <1>2, FS_Subset, FS_CardinalityType
  <2>. QED  BY <1>1, <2>1
<1>3. CASE Spawn
  <2>1. Cardinality(Running) < Permits /\ Running' \subseteq Running \cup {taken}
    BY <1>3 DEF Spawn, Running, Types, TypeOK
  <2>2. IsFiniteSet(Running \cup {taken})
    BY <1>1, FS_AddElement
  <2>3. Cardinality(Running \cup {taken}) \in Nat
        /\ Cardinality(Running \cup {taken}) <= Cardinality(Running) + 1
    BY <1>1, <2>2, FS_AddElement, FS_CardinalityType
  <2>4. Cardinality(Running') \in Nat /\ Cardinality(Running') <= Cardinality(Running \cup {taken})
    BY <2>1, <2>2, FS_Subset, FS_CardinalityType
  <2>. QED  BY <1>1, <2>1, <2>3, <2>4
<1>4. CASE UNCHANGED task
  BY Zenon, <1>2, <1>4 DEF Running
<1>5. ASSUME NEW i \in Places, TaskStep(i) PROVE Running' \subseteq Running
  BY <1>5 DEF TaskStep, Execute, Panic, SetKeyspace, Reply, Running, Types, TypeOK
<1>. QED
  <2>1. CASE Next
    BY Zenon, <1>2, <1>3, <1>4, <1>5, <2>1
       DEF Next, ClientSend, ClientGone, ReaderStep, ReadInline, SendInline, ReadGarbled, ReadQuery,
           ReadEnd, WriterStep
  <2>2. CASE UNCHANGED vars
    BY <1>4, <2>2 DEF vars
  <2>. QED  BY <2>1, <2>2

\* A response that is sent enters the channel, within its capacity
LEMMA Responded ==
  ASSUME Types, NEW i \in Places, Respond(i)
  PROVE  chan' \in Seq(Places) /\ Len(chan') <= Capacity
<1>1. Capacity \in Nat /\ chan \in Seq(Places) /\ Len(chan) <= Capacity
  BY WriterConstants DEF Types, TypeOK, WriterTypeOK
<1>2. CASE Len(chan) < Capacity /\ chan' = Append(chan, i)
  BY <1>1, <1>2
<1>3. CASE UNCHANGED chan
  BY <1>1, <1>3
<1>. QED  BY <1>2, <1>3 DEF Respond

\* The frame the reader has at hand
LEMMA AtHand ==
  ASSUME Types, Shape
  PROVE  /\ MaxFrames \in Nat /\ taken \in Nat /\ Len(frames) \in Nat /\ taken <= Len(frames)
         /\ Len(frames) <= MaxFrames /\ DOMAIN frames = 1 .. Len(frames)
         /\ reader \in {"send", "permit"} => taken \in Places
<1>1. /\ MaxFrames \in Nat /\ taken \in Nat /\ Len(frames) \in Nat /\ taken <= Len(frames)
      /\ Len(frames) <= MaxFrames /\ DOMAIN frames = 1 .. Len(frames)
  BY ConnectionConstants DEF Types, TypeOK
<1>2. reader \in {"send", "permit"} => taken >= 1
  BY DEF Shape
<1>. QED  BY <1>1, <1>2 DEF Places

\* The writer's part of the types
WriterTypes ==
  WriterTypeOK /\ chan \in Seq(Places) /\ pending \in Seq(Places) /\ wire \in Seq(Places \X (1 .. FrameSize))

\* ... which every step keeps: a batch passes the threshold by one response at
\* most, and the channel holds no more than its capacity
LEMMA WriterTypesStep ==
  ASSUME Types, Shape, [Next]_vars
  PROVE  WriterTypes'
<1>0. /\ FrameSize \in Nat \ {0} /\ Threshold \in Nat \ {0} /\ Capacity \in Nat \ {0} /\ WriterTypes
      /\ Len(pending) \in Nat
  BY WriterConstants DEF Types, TypeOK, WriterTypes
<1>1. CASE UNCHANGED <<runtime, chan, pending, writer, offset, wire, short>> /\ open' \in BOOLEAN
  BY <1>0, <1>1 DEF WriterTypes, WriterTypeOK
<1>2. ASSUME NEW i \in Places, Respond(i),
             UNCHANGED <<runtime, open, pending, writer, offset, wire, short>>
      PROVE  WriterTypes'
  BY <1>0, <1>2, Responded DEF WriterTypes, WriterTypeOK
<1>3. CASE Collect /\ UNCHANGED <<runtime, open>>
  <2>1. chan # <<>> /\ chan' = Tail(chan) /\ pending' = Append(pending, Head(chan))
        /\ Len(pending) * FrameSize < Threshold /\ UNCHANGED <<writer, offset, wire, short>>
    BY <1>3 DEF Collect
  <2>2. chan' \in Seq(Places) /\ Len(chan') <= Capacity
    BY <1>0, <2>1 DEF WriterTypes, WriterTypeOK
  <2>3. pending' \in Seq(Places) /\ Len(pending') - 1 = Len(pending)
    BY <1>0, <2>1 DEF WriterTypes
  <2>. QED  BY <1>0, <1>3, <2>1, <2>2, <2>3 DEF WriterTypes, WriterTypeOK
<1>4. CASE Flush /\ UNCHANGED <<runtime, open>>
  BY <1>0, <1>4 DEF Flush, WriterTypes, WriterTypeOK
<1>5. ASSUME pending' = <<>> PROVE pending' \in Seq(Places) /\ (Len(pending') - 1) * FrameSize < Threshold
  <2>1. (0 - 1) * FrameSize = 0 - FrameSize
    BY <1>0
  <2>. QED  BY <1>0, <1>5, <2>1
<1>6. CASE WriteVectored /\ UNCHANGED <<runtime, open>>
  <2>1. PICK n \in 1 .. Len(AllBytes(pending)), out \in Seq(Places \X (1 .. FrameSize)) :
          wire' = wire \o out /\ pending' = <<>> /\ writer' = "collect" /\ offset' = 0 /\ UNCHANGED chan
    BY Zenon, <1>6, WriteVectoredAdds
  <2>2. wire' \in Seq(Places \X (1 .. FrameSize))
    BY <1>0, <2>1 DEF WriterTypes
  <2>3. short' \in BOOLEAN
    BY <1>6 DEF WriteVectored
  <2>4. 0 \in 0 .. FrameSize - 1
    BY <1>0
  <2>. QED  BY <1>0, <1>5, <1>6, <2>1, <2>2, <2>3, <2>4 DEF WriterTypes, WriterTypeOK
<1>7. CASE WriteAll /\ UNCHANGED <<runtime, open>>
  <2>1. PICK n \in offset + 1 .. FrameSize, out \in Seq(Places \X (1 .. FrameSize)) :
          /\ wire' = wire \o out /\ pending # <<>>
          /\ n = FrameSize => pending' = Tail(pending) /\ offset' = 0
          /\ n # FrameSize => pending' = pending /\ offset' = n
          /\ writer' = (IF pending' = <<>> THEN "collect" ELSE "write") /\ UNCHANGED <<chan, short>>
    BY Zenon, <1>7, WriteAllAdds
  <2>2. wire' \in Seq(Places \X (1 .. FrameSize))
    BY <1>0, <2>1 DEF WriterTypes
  <2>3. offset' \in 0 .. FrameSize - 1
    <3>1. 0 \in 0 .. FrameSize - 1 /\ (n # FrameSize => n \in 0 .. FrameSize - 1)
      BY <1>0 DEF WriterTypes, WriterTypeOK
    <3>. QED  BY <2>1, <3>1
  <2>4. pending' \in Seq(Places) /\ (Len(pending') - 1) * FrameSize < Threshold
    <3>1. pending \in Seq(Places) /\ (Len(pending) - 1) * FrameSize < Threshold
      BY <1>0 DEF WriterTypes, WriterTypeOK
    <3>2. Tail(pending) \in Seq(Places) /\ Len(Tail(pending)) = Len(pending) - 1
      BY <2>1, <3>1, Taken
    <3>3. ((Len(pending) - 1) - 1) * FrameSize = (Len(pending) - 1) * FrameSize - FrameSize
          /\ (Len(pending) - 1) * FrameSize \in Int
      BY <1>0
    <3>4. (Len(Tail(pending)) - 1) * FrameSize < Threshold
      BY <1>0, <3>1, <3>2, <3>3
    <3>. QED  BY Zenon, <2>1, <3>1, <3>2, <3>4
  <2>. QED  BY <1>0, <1>7, <2>1, <2>2, <2>3, <2>4 DEF WriterTypes, WriterTypeOK
<1>8. CASE WriteToNobody /\ UNCHANGED <<runtime, open>>
  <2>1. chan' \in Seq(Places) /\ Len(chan') <= Capacity
    <3>1. chan' = chan \/ chan' = <<>>
      BY <1>8 DEF WriteToNobody
    <3>2. <<>> \in Seq(Places) /\ Len(<<>>) <= Capacity
      BY <1>0
    <3>. QED  BY Zenon, <1>0, <3>1, <3>2 DEF WriterTypes, WriterTypeOK
  <2>2. pending' = <<>> /\ offset' = 0 /\ writer' \in {"collect", "done"} /\ UNCHANGED <<wire, short>>
    BY <1>8 DEF WriteToNobody
  <2>3. 0 \in 0 .. FrameSize - 1
    BY <1>0
  <2>. QED  BY <1>0, <1>5, <1>8, <2>1, <2>2, <2>3 DEF WriterTypes, WriterTypeOK
<1>9. CASE WriterEnds(SendersGone) /\ UNCHANGED <<runtime, open>>
  BY <1>0, <1>9 DEF WriterEnds, WriterTypes, WriterTypeOK
<1>10. CASE ClientSend \/ ClientGone \/ UNCHANGED vars
  BY Zenon, <1>0, <1>1, <1>10 DEF ClientSend, ClientGone, vars, writerVars, WriterTypes, WriterTypeOK
<1>11. CASE ReadInline \/ ReadGarbled \/ ReadQuery \/ Spawn \/ ReadEnd
  BY <1>0, <1>1, <1>11 DEF ReadInline, ReadGarbled, ReadQuery, Spawn, ReadEnd, readerFrame, WriterTypes,
     WriterTypeOK
<1>12. CASE SendInline
  BY <1>2, <1>12, AtHand DEF SendInline, readerFrame
<1>13. ASSUME NEW i \in Places, TaskStep(i) PROVE WriterTypes'
  <2>1. CASE Reply(i)
    BY Zenon, <1>2, <2>1 DEF Reply, readerFrame
  <2>2. CASE Execute(i) \/ Panic(i) \/ SetKeyspace(i)
    BY <1>0, <1>1, <2>2 DEF Execute, Panic, SetKeyspace, readerFrame, WriterTypes, WriterTypeOK
  <2>. QED  BY <1>13, <2>1, <2>2 DEF TaskStep
<1>14. CASE WriterStep
  BY <1>3, <1>4, <1>6, <1>7, <1>8, <1>9, <1>14 DEF WriterStep
<1>. QED  BY Zenon, <1>10, <1>11, <1>12, <1>13, <1>14 DEF Next, ReaderStep

\* The ids of prepared statements stay in their space
LEMMA IdInSpace ==
  ASSUME Types
  PROVE  PreparedId(prepares) \in 0 .. IdSpace - 1
<1>1. IdSpace \in Nat \ {0} /\ prepares \in Nat
  BY ConnectionConstants DEF Types
<1>. QED  BY <1>1 DEF PreparedId

\* The types of the reader's and the tasks' state
ReaderTypes ==
  /\ frames \in Seq([kind : Kinds, of : 0 .. MaxFrames]) /\ Len(frames) <= MaxFrames
  /\ {closing, compression} \subseteq BOOLEAN
  /\ taken \in 0 .. Len(frames)
  /\ reader \in {"read", "send", "permit", "closed"}
  /\ session \in 0 .. MaxFrames
  /\ prepared \in [0 .. IdSpace - 1 -> 0 .. MaxFrames]
  /\ task \in [Places -> {"none", "start", "set_keyspace", "reply"}]
  /\ prepares \in Nat /\ idOf \in [Places -> 0 .. IdSpace - 1]

\* Every step keeps them: a task, a USE and a PREPARE are known by a frame of
\* the stream, an id of a prepared statement is one of the id space
LEMMA ReaderTypesStep ==
  ASSUME Types, Shape, [Next]_vars
  PROVE  ReaderTypes'
<1>0. ReaderTypes
  BY DEF Types, TypeOK, ReaderTypes
<1>1. /\ MaxFrames \in Nat /\ taken \in Nat /\ Len(frames) \in Nat /\ taken <= Len(frames)
      /\ Len(frames) <= MaxFrames
  BY AtHand
<1>2. taken < Len(frames) => taken + 1 \in 0 .. Len(frames) /\ taken + 1 \in Places
                             /\ taken + 1 \in 0 .. MaxFrames
  BY <1>1 DEF Places
<1>3. CASE ClientSend
  <2>1. PICK k \in Kinds, p \in Places \cup {0} :
          frames' = Append(frames, [kind |-> k, of |-> p]) /\ Len(frames) < MaxFrames
    BY Zenon, <1>3 DEF ClientSend
  <2>2. [kind |-> k, of |-> p] \in [kind : Kinds, of : 0 .. MaxFrames]
    BY <1>1 DEF Places
  <2>3. frames' \in Seq([kind : Kinds, of : 0 .. MaxFrames]) /\ Len(frames') = Len(frames) + 1
    BY <1>0, <2>1, <2>2 DEF ReaderTypes
  <2>4. taken \in 0 .. Len(frames') /\ Len(frames') <= MaxFrames
    BY <1>1, <2>1, <2>3
  <2>. QED  BY <1>0, <1>3, <2>3, <2>4 DEF ClientSend, conn, ReaderTypes
<1>4. CASE ReadInline
  <2>1. taken < Len(frames) /\ taken' = taken + 1 /\ reader' = "send" /\ UNCHANGED <<frames, task>>
    BY <1>4 DEF ReadInline, readerFrame
  <2>2. closing' \in BOOLEAN /\ compression' \in BOOLEAN
    BY Zenon, <1>0, <1>4 DEF ReadInline, conn, ReaderTypes
  <2>3. session' \in 0 .. MaxFrames
    BY Zenon, <1>0, <1>2, <1>4 DEF ReadInline, conn, ReaderTypes
  <2>4. /\ prepared' \in [0 .. IdSpace - 1 -> 0 .. MaxFrames] /\ prepares' \in Nat
        /\ idOf' \in [Places -> 0 .. IdSpace - 1]
    <3>1. CASE UNCHANGED <<prepared, prepares, idOf>>
      BY <1>0, <3>1 DEF ReaderTypes
    <3>2. CASE /\ prepared' = [prepared EXCEPT ![PreparedId(prepares)] = taken + 1]
               /\ idOf' = [idOf EXCEPT ![taken + 1] = PreparedId(prepares)]
               /\ prepares' = prepares + 1
      BY <1>0, <1>2, <2>1, <3>2, IdInSpace DEF ReaderTypes
    <3>. QED  BY <1>4, <3>1, <3>2 DEF ReadInline, conn
  <2>. QED  BY Zenon, <1>0, <1>2, <2>1, <2>2, <2>3, <2>4 DEF ReaderTypes
<1>5. CASE ReadGarbled \/ ReadQuery
  BY Zenon, <1>0, <1>2, <1>5 DEF ReadGarbled, ReadQuery, readerFrame, conn, ReaderTypes
<1>6. CASE SendInline \/ Spawn \/ ReadEnd
  BY <1>0, <1>6 DEF SendInline, Spawn, ReadEnd, readerFrame, conn, ReaderTypes
<1>7. ASSUME NEW i \in Places, TaskStep(i) PROVE ReaderTypes'
  <2>1. i \in 0 .. MaxFrames
    BY <1>1 DEF Places
  <2>2. task' \in [Places -> {"none", "start", "set_keyspace", "reply"}]
    BY Zenon, <1>0, <1>7 DEF TaskStep, Execute, Panic, SetKeyspace, Reply, ReaderTypes
  <2>3. /\ session' \in 0 .. MaxFrames
        /\ UNCHANGED <<frames, taken, reader, closing, compression, prepared, prepares, idOf>>
    BY Zenon, <1>0, <1>7, <2>1 DEF TaskStep, Execute, Panic, SetKeyspace, Reply, readerFrame, conn, ReaderTypes
  <2>. QED  BY <1>0, <2>2, <2>3 DEF ReaderTypes
<1>8. CASE ClientGone \/ WriterStep \/ UNCHANGED vars
  BY <1>0, <1>8 DEF ClientGone, WriterStep, vars, conn, ReaderTypes
<1>. QED  BY Zenon, <1>3, <1>4, <1>5, <1>6, <1>7, <1>8 DEF Next, ReaderStep

\* Every step keeps the types
LEMMA TypesStep ==
  ASSUME Types, Shape, [Next]_vars
  PROVE  Types'
<1>1. WriterTypes' /\ ReaderTypes' /\ Cardinality(Running') <= Permits
  BY WriterTypesStep, ReaderTypesStep, PermitsStep
<1>2. \A i \in DOMAIN frames' : frames'[i].kind \in Kinds
  <2>1. frames' \in Seq([kind : Kinds, of : 0 .. MaxFrames])
    BY <1>1 DEF ReaderTypes
  <2>2. ASSUME NEW S, NEW s \in Seq(S), NEW i \in DOMAIN s PROVE s[i] \in S
    OBVIOUS
  <2>3. \A i \in DOMAIN frames' : frames'[i] \in [kind : Kinds, of : 0 .. MaxFrames]
    BY Zenon, <2>1, <2>2
  <2>. QED  BY <2>3
<1>3. TypeOK'
  BY Zenon, <1>1, <1>2 DEF TypeOK, WriterTypes, ReaderTypes, Running
<1>. QED  BY <1>1, <1>3 DEF Types, WriterTypes, ReaderTypes

\* Frames that were sent stay as they are
LEMMA FramesStay ==
  ASSUME Types, [Next]_vars
  PROVE  Len(frames) <= Len(frames') /\ \A i \in 1 .. Len(frames) : frames'[i] = frames[i]
<1>1. CASE ClientSend
  <2>1. PICK f : f \in [kind : Kinds, of : 0 .. MaxFrames] /\ frames' = Append(frames, f)
    <3>1. PICK k \in Kinds, p \in Places \cup {0} : frames' = Append(frames, [kind |-> k, of |-> p])
      BY Zenon, <1>1 DEF ClientSend
    <3>2. [kind |-> k, of |-> p] \in [kind : Kinds, of : 0 .. MaxFrames]
      BY ConnectionConstants DEF Places
    <3>. QED  BY <3>1, <3>2
  <2>2. frames \in Seq([kind : Kinds, of : 0 .. MaxFrames])
    BY DEF Types
  <2>. QED  BY <2>1, <2>2
<1>2. CASE UNCHANGED frames
  BY <1>2 DEF Types
<1>3. ASSUME NEW i \in Places, TaskStep(i) PROVE UNCHANGED frames
  BY <1>3 DEF TaskStep, Execute, Panic, SetKeyspace, Reply, readerFrame
<1>4. CASE ReaderStep
  BY Zenon, <1>2, <1>4 DEF ReaderStep, ReadInline, SendInline, ReadGarbled, ReadQuery, Spawn, ReadEnd, readerFrame
<1>5. CASE ClientGone \/ WriterStep \/ UNCHANGED vars
  BY Zenon, <1>2, <1>5 DEF ClientGone, WriterStep, vars
<1>. QED  BY Zenon, <1>1, <1>2, <1>3, <1>4, <1>5 DEF Next

\* Every step keeps the shape: a USE the reader recognises never gets a task
LEMMA ShapeStep ==
  ASSUME Types, Shape, [Next]_vars
  PROVE  Shape'
<1>0. /\ MaxFrames \in Nat /\ taken \in Nat /\ Len(frames) \in Nat /\ taken <= Len(frames)
      /\ Len(frames) <= MaxFrames /\ task \in [Places -> {"none", "start", "set_keyspace", "reply"}]
  BY AtHand DEF Types, TypeOK
<1>1. \A i \in 1 .. Len(frames) : frames'[i] = frames[i]
  BY FramesStay
<1>2. \A i \in Places : i <= taken => i \in 1 .. Len(frames)
  BY <1>0 DEF Places
<1>3. taken >= 1 => taken \in 1 .. Len(frames)
  BY <1>0
<1>4. taken < Len(frames) => taken + 1 >= 1 /\ taken + 1 \in 1 .. Len(frames) /\ taken <= taken + 1
  BY <1>0
<1>5. taken <= taken
  BY <1>0
<1>. DEFINE ReaderShape == /\ reader \in {"send", "permit"} => taken >= 1
                           /\ reader = "permit" => ~IsSessionUse(frames[taken])
            TaskShape == \A i \in Places :
                           /\ task[i] # "none" => i <= taken /\ ~IsSessionUse(frames[i])
                           /\ task[i] = "set_keyspace" => frames[i].kind = "padded_use"
            WriterShape == /\ writer = "write" => pending # <<>>
                           /\ offset # 0 => writer = "write" /\ runtime = "monoio"
            EndShape == writer = "done" => ~open \/ SendersGone
<1>6. ReaderShape /\ TaskShape /\ WriterShape /\ EndShape
  BY Zenon DEF Shape
<1>7. ReaderShape' /\ TaskShape'
  <2>1. CASE ClientSend \/ ClientGone \/ WriterStep \/ UNCHANGED vars
    <3>1. UNCHANGED <<reader, taken, task>>
      BY Zenon, <2>1 DEF ClientSend, ClientGone, WriterStep, vars
    <3>. QED  BY Zenon, <1>1, <1>2, <1>3, <1>6, <3>1 DEF IsSessionUse
  <2>2. CASE ReadInline \/ ReadGarbled \/ ReadQuery
    <3>1. /\ taken < Len(frames) /\ taken' = taken + 1 /\ UNCHANGED <<task, frames>>
          /\ reader' = "permit" => ~IsSessionUse(frames[taken + 1])
      BY <2>2 DEF ReadInline, ReadGarbled, ReadQuery, readerFrame, IsSessionUse
    <3>2. \A i \in Places : i <= taken => i <= taken'
      BY <1>0, <3>1 DEF Places
    <3>. QED  BY Zenon, <1>4, <1>6, <3>1, <3>2
  <2>3. CASE SendInline \/ ReadEnd
    BY Zenon, <1>6, <2>3 DEF SendInline, ReadEnd, readerFrame
  <2>4. CASE Spawn
    <3>1. /\ reader = "permit" /\ reader' = "read" /\ task' = [task EXCEPT ![taken] = "start"]
          /\ UNCHANGED <<taken, frames>>
      BY Zenon, <2>4 DEF Spawn, readerFrame
    <3>. QED  BY Zenon, <1>0, <1>5, <1>6, <3>1
  <2>5. ASSUME NEW j \in Places, TaskStep(j) PROVE ReaderShape' /\ TaskShape'
    <3>1. UNCHANGED <<reader, taken, frames>>
      BY Zenon, <2>5 DEF TaskStep, Execute, Panic, SetKeyspace, Reply, readerFrame
    <3>2. /\ task[j] # "none" /\ \A i \in Places : i # j => task'[i] = task[i]
          /\ task'[j] = "set_keyspace" => frames[j].kind \in {"use", "padded_use"}
      BY <1>0, <2>5 DEF TaskStep, Execute, Panic, SetKeyspace, Reply
    <3>. QED  BY Zenon, <1>6, <3>1, <3>2 DEF IsSessionUse
  <2>. QED  BY Zenon, <2>1, <2>2, <2>3, <2>4, <2>5 DEF Next, ReaderStep
<1>8. WriterShape'
  <2>1. CASE UNCHANGED <<runtime, pending, writer, offset>>
    BY <1>6, <2>1
  <2>2. CASE WriterStep
    <3>0. UNCHANGED runtime
      BY Zenon, <2>2 DEF WriterStep
    <3>1. CASE Collect \/ Flush \/ WriterEnds(SendersGone)
      BY <1>6, <3>0, <3>1 DEF Collect, Flush, WriterEnds
    <3>2. CASE WriteVectored
      <4>1. writer' = "collect" /\ offset' = 0
        BY Zenon, <3>2, WriteVectoredAdds
      <4>. QED  BY <4>1
    <3>3. CASE WriteAll
      <4>1. PICK n \in offset + 1 .. FrameSize :
              /\ n = FrameSize => offset' = 0
              /\ n # FrameSize => pending' = pending
              /\ pending # <<>> /\ runtime = "monoio"
              /\ writer' = (IF pending' = <<>> THEN "collect" ELSE "write")
        BY <3>3, WriteAllAdds
      <4>. QED  BY <3>0, <4>1
    <3>4. CASE WriteToNobody
      BY Zenon, <3>4 DEF WriteToNobody
    <3>. QED  BY <2>2, <3>1, <3>2, <3>3, <3>4 DEF WriterStep
  <2>3. ASSUME NEW j \in Places, TaskStep(j) PROVE UNCHANGED <<runtime, pending, writer, offset>>
    BY Zenon, <2>3 DEF TaskStep, Execute, Panic, SetKeyspace, Reply, readerFrame
  <2>4. CASE ReaderStep
    BY <2>1, <2>4 DEF ReaderStep, ReadInline, SendInline, ReadGarbled, ReadQuery, Spawn, ReadEnd, readerFrame
  <2>5. CASE ClientSend \/ ClientGone \/ UNCHANGED vars
    BY Zenon, <2>1, <2>5 DEF ClientSend, ClientGone, vars, writerVars
  <2>. QED  BY Zenon, <2>1, <2>2, <2>3, <2>4, <2>5 DEF Next
<1>9. EndShape'
  <2>1. CASE WriterStep
    <3>1. UNCHANGED <<open, reader, task>>
      BY <2>1 DEF WriterStep
    <3>2. writer' = "done" => ~open \/ SendersGone \/ writer = "done"
      <4>1. CASE WriteVectored
        BY <4>1 DEF WriteVectored
      <4>2. CASE WriteAll
        BY <4>2 DEF WriteAll
      <4>3. CASE Collect \/ Flush \/ WriteToNobody \/ WriterEnds(SendersGone)
        BY Zenon, <4>3 DEF Collect, Flush, WriteToNobody, WriterEnds
      <4>. QED  BY <2>1, <4>1, <4>2, <4>3 DEF WriterStep
    <3>. QED  BY <1>6, <3>1, <3>2 DEF SendersGone
  <2>2. CASE ClientSend \/ ClientGone \/ UNCHANGED vars
    BY Zenon, <1>6, <2>2 DEF ClientSend, ClientGone, vars, writerVars, SendersGone
  <2>3. CASE ReaderStep
    <3>1. reader # "closed" /\ UNCHANGED <<writer, open>>
      BY Zenon, <2>3 DEF ReaderStep, ReadInline, SendInline, ReadGarbled, ReadQuery, Spawn, ReadEnd, readerFrame
    <3>. QED  BY Zenon, <1>6, <3>1 DEF SendersGone
  <2>4. ASSUME NEW j \in Places, TaskStep(j) PROVE EndShape'
    <3>1. task[j] # "none" /\ UNCHANGED <<writer, open>>
      BY Zenon, <2>4 DEF TaskStep, Execute, Panic, SetKeyspace, Reply, readerFrame
    <3>. QED  BY <1>6, <3>1 DEF SendersGone
  <2>. QED  BY Zenon, <2>1, <2>2, <2>3, <2>4 DEF Next
<1>. QED  BY Zenon, <1>7, <1>8, <1>9 DEF Shape

\* Every variable has its type, no more requests of a connection run than it
\* has permits, the response channel never holds more than its capacity and a
\* batch passes WRITE_FLUSH_THRESHOLD by at most one response
THEOREM TypeCorrect == Spec => []TypeOK
<1>1. Init => Types /\ Shape
  BY TypesInit
<1>2. Types /\ Shape /\ [Next]_vars => Types' /\ Shape'
  BY TypesStep, ShapeStep
<1>3. Types => TypeOK
  BY DEF Types
<1>. QED  BY <1>1, <1>2, <1>3, PTL DEF Spec

-----------------------------------------------------------------------------
\* A USE on the reader sets the session keyspace before a later frame is read;
\* one that became a task sets it to itself only
LEMMA UsesStep ==
  ASSUME Types, Shape, UsesSeen, [Next]_vars
  PROVE  UsesSeen'
<1>0. /\ MaxFrames \in Nat /\ taken \in Nat /\ Len(frames) \in Nat /\ taken <= Len(frames)
      /\ session \in Nat
  BY AtHand DEF Types, TypeOK
<1>1. \A i \in 1 .. Len(frames) : frames'[i] = frames[i]
  BY Zenon, FramesStay
<1>2. \A n \in 1 .. taken : \A u \in 1 .. n : frames'[u] = frames[u]
  BY <1>0, <1>1
<1>3. CASE UNCHANGED <<taken, session>>
  BY <1>2, <1>3 DEF UsesSeen
<1>4. ASSUME taken < Len(frames), taken' = taken + 1,
             IF frames[taken + 1].kind = "use" THEN session' = taken + 1 ELSE session' = session
      PROVE  UsesSeen'
  <2>. SUFFICES ASSUME NEW n \in 1 .. taken + 1, \A u \in 1 .. n : frames'[u].kind # "padded_use",
                       NEW u \in 1 .. n, frames'[u].kind = "use"
                PROVE  session' >= u
    BY <1>4 DEF UsesSeen
  <2>1. taken + 1 \in 1 .. Len(frames) /\ u \in 1 .. taken + 1 /\ u \in 1 .. Len(frames)
    BY <1>0, <1>4
  <2>2. CASE frames[taken + 1].kind = "use"
    BY <1>0, <1>4, <2>1, <2>2
  <2>3. CASE frames[taken + 1].kind # "use"
    <3>1. u # taken + 1
      BY <1>1, <2>1, <2>3
    <3>2. u \in 1 .. taken
      BY <1>0, <2>1, <3>1
    <3>3. PICK m \in 1 .. taken : u \in 1 .. m /\ \A v \in 1 .. m : v \in 1 .. n
      <4>1. CASE n = taken + 1
        <5>1. taken \in 1 .. taken /\ \A v \in 1 .. taken : v \in 1 .. n
          BY <1>0, <3>2, <4>1
        <5>. QED  BY <3>2, <5>1
      <4>2. CASE n # taken + 1
        <5>1. n \in 1 .. taken
          BY <1>0, <4>2
        <5>. QED  BY <5>1
      <4>. QED  BY <4>1, <4>2
    <3>4. session >= u
      BY Zenon, <1>2, <3>3 DEF UsesSeen
    <3>. QED  BY Zenon, <1>4, <2>3, <3>4
  <2>. QED  BY <2>2, <2>3
<1>5. ASSUME NEW i \in Places, SetKeyspace(i) PROVE UsesSeen'
  <2>1. frames[i].kind = "padded_use" /\ session' = i /\ UNCHANGED <<taken, frames>>
    BY <1>5 DEF SetKeyspace, Shape, readerFrame
  <2>2. ASSUME NEW n \in 1 .. taken, \A u \in 1 .. n : frames[u].kind # "padded_use", NEW u \in 1 .. n
        PROVE  i >= u
    <3>1. ~(i \in 1 .. n)
      BY <2>1, <2>2
    <3>. QED  BY <1>0, <3>1 DEF Places
  <2>. QED  BY Zenon, <2>1, <2>2 DEF UsesSeen
<1>6. CASE ReadInline
  <2>1. taken < Len(frames) /\ taken' = taken + 1
    BY Zenon, <1>6 DEF ReadInline
  <2>2. IF frames[taken + 1].kind = "use" THEN session' = taken + 1 ELSE session' = session
    BY <1>6 DEF ReadInline, IsSessionUse, conn
  <2>. QED  BY Zenon, <1>4, <2>1, <2>2
<1>7. CASE ReadGarbled \/ ReadQuery
  <2>1. taken < Len(frames) /\ taken' = taken + 1 /\ session' = session /\ frames[taken + 1].kind # "use"
    BY <1>7 DEF ReadGarbled, ReadQuery, IsSessionUse, conn
  <2>. QED  BY Zenon, <1>4, <2>1
<1>8. CASE SendInline \/ Spawn \/ ReadEnd
  BY Zenon, <1>3, <1>8 DEF SendInline, Spawn, ReadEnd, conn
<1>9. ASSUME NEW i \in Places, Execute(i) \/ Panic(i) \/ Reply(i) PROVE UNCHANGED <<taken, session>>
  BY <1>9 DEF Execute, Panic, Reply, conn
<1>10. CASE ClientSend \/ ClientGone \/ WriterStep \/ UNCHANGED vars
  BY Zenon, <1>3, <1>10 DEF ClientSend, ClientGone, WriterStep, vars, conn
<1>. QED  BY Zenon, <1>3, <1>5, <1>6, <1>7, <1>8, <1>9, <1>10 DEF Next, ReaderStep, TaskStep

\* A statement never runs under a keyspace older than the last USE before it in
\* the stream, whatever order the tasks run in: is_session_use keeps those USE
\* statements on the reader
THEOREM UsesComeFirst == Spec => []UseBeforeLater
<1>1. Init => Types /\ Shape /\ UsesSeen
  <2>1. Init => UsesSeen
    BY DEF Init, UsesSeen
  <2>. QED  BY <2>1, TypesInit
<1>2. Types /\ Shape /\ UsesSeen /\ [Next]_vars => Types' /\ Shape' /\ UsesSeen'
  BY TypesStep, ShapeStep, UsesStep
<1>3. Types /\ Shape /\ UsesSeen => UseBeforeLater
  <2>. SUFFICES ASSUME Types, Shape, UsesSeen, NEW i \in Places, task[i] = "start",
                       \A u \in 1 .. i : frames[u].kind # "padded_use",
                       NEW u \in 1 .. i - 1, frames[u].kind = "use"
                PROVE  session >= u
    BY Zenon DEF UseBeforeLater, KeyspaceOf
  <2>1. i <= taken
    BY DEF Shape
  <2>2. i \in 1 .. taken /\ u \in 1 .. i
    BY <2>1, AtHand DEF Places
  <2>. QED  BY <2>2 DEF UsesSeen
<1>. QED  BY <1>1, <1>2, <1>3, PTL DEF Spec

-----------------------------------------------------------------------------
\* The reader has the response to frame i to send, or the frame to give a task
Held(i) == reader \in {"send", "permit"} /\ taken = i

\* The response to frame i is on its way, or made
Somewhere(i) ==
  \/ i \in Range(chan) \/ i \in Range(pending) \/ Delivered(i)
  \/ task[i] # "none" \/ Held(i)

\* A response is in one place only, once, and only of a frame that was read
Single ==
  /\ IsInjective(chan) /\ IsInjective(pending) /\ LastOnce(wire)
  /\ \A i \in Places :
       /\ Somewhere(i) => i <= taken
       /\ i \in Range(chan) =>
            i \notin Range(pending) /\ ~Delivered(i) /\ task[i] = "none" /\ ~Held(i)
       /\ i \in Range(pending) => ~Delivered(i) /\ task[i] = "none" /\ ~Held(i)
       /\ Delivered(i) => task[i] = "none" /\ ~Held(i)
       /\ task[i] # "none" => ~Held(i)

\* A frame that was read has its response on its way, or made
Owed ==
  \A i \in Places : i <= taken /\ open /\ ~short /\ ~Unanswered(i) => Somewhere(i)

\* As long as ids do not wrap, every id belongs to the PREPARE that was
\* answered with it; and an EXECUTE is of a PREPARE that was read
IdsKept ==
  /\ prepares <= IdSpace =>
       \A p \in 1 .. taken :
         frames[p].kind = "prepare" => idOf[p] < prepares /\ prepared[idOf[p]] = p
  /\ \A i \in DOMAIN frames : frames[i].kind = "execute" =>
       frames[i].of \in 1 .. taken /\ frames[frames[i].of].kind = "prepare"

\* While the client is there, the next byte continues what is on the wire
Continues ==
  ~short /\ open =>
    IF offset = 0 THEN wire = <<>> \/ wire[Len(wire)][2] = FrameSize
    ELSE wire # <<>> /\ wire[Len(wire)] = <<Head(pending), offset>>

-----------------------------------------------------------------------------
\* A response that is sent moves into the channel, or is dropped because the
\* writer is gone: then the client is gone too
LEMMA RespondMoves ==
  ASSUME Types, Shape, NEW i \in Places, Respond(i), i \notin Range(chan),
         reader # "closed" \/ task[i] # "none"
  PROVE  /\ IsInjective(chan) => IsInjective(chan')
         /\ \A j \in Places : j # i => (j \in Range(chan') <=> j \in Range(chan))
         /\ open => i \in Range(chan')
<1>1. chan \in Seq(Places)
  BY DEF Types
<1>2. CASE chan' = Append(chan, i)
  BY <1>1, <1>2, Added
<1>3. CASE writer = "done" /\ UNCHANGED chan
  <2>1. ~open
    BY <1>3 DEF Shape, SendersGone
  <2>. QED  BY <1>3, <2>1
<1>. QED  BY <1>2, <1>3 DEF Respond

\* What a write does to the responses: bytes of pending responses go to the
\* wire, and a response whose last byte goes there is no longer pending; with
\* no write cut short, one that is no longer pending has its last byte there
LEMMA WriteMoves ==
  ASSUME Types, Shape, WriteVectored \/ WriteAll, IsInjective(pending), LastOnce(wire),
         \A i \in Range(pending) : ~Delivered(i)
  PROVE  /\ IsInjective(pending') /\ LastOnce(wire')
         /\ \A i \in Places :
              /\ i \in Range(pending') => i \in Range(pending)
              /\ Delivered(i)' => Delivered(i) \/ (i \in Range(pending) /\ i \notin Range(pending'))
              /\ Delivered(i) => Delivered(i)'
              /\ ~short' /\ i \in Range(pending) => i \in Range(pending') \/ Delivered(i)'
         /\ UNCHANGED chan /\ (short => short')
<1>0. /\ FrameSize \in Nat \ {0} /\ wire \in Seq(Places \X (1 .. FrameSize)) /\ pending \in Seq(Places)
      /\ offset \in 0 .. FrameSize - 1
  BY WriterConstants DEF Types, TypeOK, WriterTypeOK
<1>1. ASSUME NEW out \in Seq(Places \X (1 .. FrameSize)), wire' = wire \o out, LastOnce(out),
             \A b \in Range(out) : b[2] = FrameSize => b[1] \in Range(pending)
      PROVE  /\ LastOnce(wire')
             /\ \A i \in Places : Delivered(i)' <=> Delivered(i) \/ <<i, FrameSize>> \in Range(out)
  <2>1. ASSUME NEW b \in Range(out), b[2] = FrameSize PROVE b \notin Range(wire)
    <3>1. b \in Places \X (1 .. FrameSize)
      BY DEF Range
    <3>2. b = <<b[1], FrameSize>> /\ b[1] \in Range(pending)
      BY <1>1, <2>1, <3>1
    <3>3. ~Delivered(b[1])
      BY <3>2
    <3>. QED  BY ZenonT(30), <3>2, <3>3 DEF Delivered
  <2>2. Range(wire') = Range(wire) \cup Range(out)
    BY <1>0, <1>1, Joined
  <2>3. LastOnce(wire \o out)
    BY Zenon, <1>0, <1>1, <2>1, Joined
  <2>. QED  BY <1>1, <2>2, <2>3 DEF Delivered
<1>2. CASE WriteVectored
  <2>. DEFINE B == AllBytes(pending)
  <2>1. PICK n \in 1 .. Len(B), out \in Seq(Places \X (1 .. FrameSize)) :
          /\ wire' = wire \o out /\ Len(out) = n
          /\ \A k \in 1 .. n : out[k] = B[k]
          /\ short' = (short \/ n < Len(B))
          /\ pending' = <<>> /\ UNCHANGED chan
    BY <1>2, WriteVectoredAdds
  <2>2. /\ B \in Seq(Places \X (1 .. FrameSize)) /\ LastOnce(B)
        /\ \A k \in 1 .. Len(B) : B[k][1] \in Range(pending)
        /\ \A i \in Range(pending) : <<i, FrameSize>> \in Range(B)
    BY Zenon, <1>0, AllBytesAre
  <2>. HIDE DEF B
  <2>3. /\ Len(B) \in Nat /\ DOMAIN B = 1 .. Len(B) /\ DOMAIN out = 1 .. n
        /\ \A k \in 1 .. n : k \in 1 .. Len(B)
    BY <2>1, <2>2
  <2>4. LastOnce(out)
    BY <2>1, <2>2, <2>3 DEF LastOnce
  <2>5. \A b \in Range(out) : b[1] \in Range(pending)
    BY <2>1, <2>2, <2>3 DEF Range
  <2>6. /\ LastOnce(wire')
        /\ \A i \in Places : Delivered(i)' <=> Delivered(i) \/ <<i, FrameSize>> \in Range(out)
    BY Zenon, <1>1, <2>1, <2>4, <2>5
  <2>7. ~short' => Range(out) = Range(B)
    <3>1. SUFFICES ASSUME ~short' PROVE Range(out) = Range(B)
      OBVIOUS
    <3>2. ~(n < Len(B))
      BY Zenon, <2>1, <3>1
    <3>3. n = Len(B)
      <4>1. ASSUME NEW L \in Nat, NEW m \in 1 .. L, ~(m < L) PROVE m = L
        BY <4>1
      <4>. QED  BY Zenon, <2>3, <3>2, <4>1
    <3>4. DOMAIN out = DOMAIN B /\ \A k \in DOMAIN B : out[k] = B[k]
      BY Zenon, <2>1, <2>3, <3>3
    <3>. QED  BY <3>4 DEF Range
  <2>8. \A i \in Places : <<i, FrameSize>> \in Range(out) => i \in Range(pending)
    <3>1. ASSUME NEW i \in Places, <<i, FrameSize>> \in Range(out) PROVE i \in Range(pending)
      <4>1. <<i, FrameSize>>[1] \in Range(pending)
        BY Zenon, <2>5, <3>1
      <4>. QED  BY <4>1
    <3>. QED  BY <3>1
  <2>9. Range(pending') = {} /\ IsInjective(pending')
    BY <2>1, EmptyQueue
  <2>. QED  BY Zenon, <2>1, <2>2, <2>6, <2>7, <2>8, <2>9
<1>3. CASE WriteAll
  <2>. DEFINE h == Head(pending)
  <2>1. PICK n \in offset + 1 .. FrameSize, out \in Seq(Places \X (1 .. FrameSize)) :
          /\ wire' = wire \o out /\ Len(out) = n - offset
          /\ \A k \in 1 .. n - offset : out[k] = <<h, offset + k>>
          /\ pending # <<>> /\ h \in Places
          /\ n = FrameSize => pending' = Tail(pending)
          /\ n # FrameSize => pending' = pending
          /\ UNCHANGED <<chan, short>>
    BY Zenon, <1>3, WriteAllAdds
  <2>2. /\ Range(pending) = Range(Tail(pending)) \cup {h} /\ IsInjective(Tail(pending))
        /\ h \notin Range(Tail(pending))
    BY <1>0, <2>1, Taken
  <2>. HIDE DEF h
  <2>3. n - offset \in Nat \ {0} /\ DOMAIN out = 1 .. n - offset
    <3>1. offset \in Nat /\ FrameSize \in Nat
      BY <1>0
    <3>2. n - offset \in Nat \ {0}
      BY <3>1
    <3>3. DOMAIN out = 1 .. Len(out)
      OBVIOUS
    <3>. QED  BY Zenon, <2>1, <3>2, <3>3
  <2>4. LastOnce(out)
    <3>1. ASSUME NEW x \in 1 .. n - offset, NEW y \in 1 .. n - offset, out[x] = out[y] PROVE x = y
      <4>1. out[x] = <<h, offset + x>> /\ out[y] = <<h, offset + y>>
        BY Zenon, <2>1
      <4>2. <<h, offset + x>> = <<h, offset + y>>
        BY Zenon, <3>1, <4>1
      <4>3. offset + x = offset + y
        BY <4>2
      <4>4. offset \in Nat /\ x \in Nat /\ y \in Nat
        BY <1>0, <2>3
      <4>. QED  BY <4>3, <4>4
    <3>. QED  BY <2>3, <3>1 DEF LastOnce
  <2>5. \A b \in Range(out) : \E k \in 1 .. n - offset : b = <<h, offset + k>>
    BY <2>1, <2>3 DEF Range
  <2>6. /\ LastOnce(wire')
        /\ \A i \in Places : Delivered(i)' <=> Delivered(i) \/ <<i, FrameSize>> \in Range(out)
    <3>1. \A b \in Range(out) : b[1] = h
      BY <2>5
    <3>2. \A b \in Range(out) : b[1] \in Range(pending)
      BY <2>2, <3>1
    <3>. QED  BY Zenon, <1>1, <2>1, <2>4, <3>2
  <2>7. ASSUME NEW i \in Places, <<i, FrameSize>> \in Range(out) PROVE i = h /\ n = FrameSize
    <3>1. PICK k \in 1 .. n - offset : <<i, FrameSize>> = <<h, offset + k>>
      BY <2>5, <2>7
    <3>2. i = h /\ FrameSize = offset + k
      BY <3>1
    <3>. QED  BY <1>0, <2>3, <3>2
  <2>8. n = FrameSize => <<h, FrameSize>> \in Range(out)
    <3>1. SUFFICES ASSUME n = FrameSize PROVE <<h, FrameSize>> \in Range(out)
      OBVIOUS
    <3>2. n - offset \in 1 .. n - offset /\ offset + (n - offset) = FrameSize
      BY <1>0, <2>3, <3>1
    <3>3. out[n - offset] = <<h, FrameSize>>
      BY <2>1, <3>2
    <3>. QED  BY <2>3, <3>2, <3>3 DEF Range
  <2>9. CASE n = FrameSize
    BY Zenon, <2>1, <2>2, <2>6, <2>7, <2>8, <2>9
  <2>10. CASE n # FrameSize
    BY ZenonT(30), <2>1, <2>6, <2>7, <2>10
  <2>. QED  BY <2>9, <2>10
<1>. QED  BY <1>2, <1>3

\* Responses only move: from the reader or a task to the channel, to the batch,
\* to the wire
LEMMA SingleStep ==
  ASSUME Types, Shape, Single, [Next]_vars
  PROVE  Single'
<1>0. /\ MaxFrames \in Nat /\ taken \in Nat /\ Len(frames) \in Nat /\ Len(frames) <= MaxFrames
      /\ reader \in {"send", "permit"} => taken \in Places
      /\ task \in [Places -> {"none", "start", "set_keyspace", "reply"}] /\ Places \subseteq Nat
  BY AtHand DEF Types, TypeOK, Places
<1>. DEFINE Queues == IsInjective(chan) /\ IsInjective(pending) /\ LastOnce(wire)
            Apart(i) == /\ Somewhere(i) => i <= taken
                        /\ i \in Range(chan) =>
                             i \notin Range(pending) /\ ~Delivered(i) /\ task[i] = "none" /\ ~Held(i)
                        /\ i \in Range(pending) => ~Delivered(i) /\ task[i] = "none" /\ ~Held(i)
                        /\ Delivered(i) => task[i] = "none" /\ ~Held(i)
                        /\ task[i] # "none" => ~Held(i)
<1>1. Queues /\ \A i \in Places : Apart(i)
  BY DEF Single
<1>2. SUFFICES Queues' /\ \A i \in Places : Apart(i)'
  BY DEF Single
<1>3. ASSUME UNCHANGED <<chan, pending, wire>>
      PROVE  Queues' /\ \A i \in Places : (Delivered(i)' <=> Delivered(i))
  BY <1>1, <1>3 DEF Delivered, LastOnce
<1>4. CASE ClientSend \/ ClientGone \/ UNCHANGED vars
  <2>1. UNCHANGED <<chan, pending, wire, reader, taken, task>>
    BY <1>4 DEF ClientSend, ClientGone, vars, writerVars
  <2>. QED  BY <1>1, <1>3, <2>1 DEF Somewhere, Held
<1>5. CASE ReadInline \/ ReadGarbled \/ ReadQuery
  <2>1. UNCHANGED <<chan, pending, wire, task>> /\ reader = "read" /\ taken' = taken + 1
    BY <1>5 DEF ReadInline, ReadGarbled, ReadQuery, readerFrame
  <2>2. ASSUME NEW i \in Places PROVE Apart(i)'
    <3>1. i <= taken => i <= taken' /\ taken' # i
      BY <1>0, <2>1
    <3>2. i = taken' => ~(i <= taken) /\ i <= taken'
      BY <1>0, <2>1
    <3>. QED  BY <1>1, <1>3, <2>1, <3>1, <3>2 DEF Somewhere, Held
  <2>. QED  BY Zenon, <1>3, <2>1, <2>2
<1>6. CASE Spawn \/ ReadEnd
  <2>1. /\ UNCHANGED <<chan, pending, wire, taken>> /\ reader' \in {"read", "closed"}
        /\ \A i \in Places : task'[i] # "none" => task[i] # "none" \/ Held(i)
    BY <1>0, <1>6 DEF Spawn, ReadEnd, readerFrame, Held
  <2>. QED  BY <1>1, <1>3, <2>1 DEF Somewhere, Held
<1>7. ASSUME NEW j \in Places, Execute(j) \/ Panic(j) \/ SetKeyspace(j)
      PROVE  Queues' /\ \A i \in Places : Apart(i)'
  <2>1. /\ UNCHANGED <<chan, pending, wire, taken, reader>>
        /\ \A i \in Places : task'[i] # "none" => task[i] # "none"
    BY <1>0, <1>7 DEF Execute, Panic, SetKeyspace, readerFrame
  <2>. QED  BY Zenon, <1>1, <1>3, <2>1 DEF Somewhere, Held
<1>8. ASSUME NEW j \in Places, Respond(j), task[j] # "none" \/ Held(j), task'[j] = "none", ~Held(j)',
             \A i \in Places : i # j => task'[i] = task[i] /\ (Held(i)' <=> Held(i)),
             UNCHANGED <<taken, pending, wire>>
      PROVE  Queues' /\ \A i \in Places : Apart(i)'
  <2>1. j \notin Range(chan) /\ j \notin Range(pending) /\ ~Delivered(j) /\ j <= taken
    BY <1>1, <1>8 DEF Somewhere
  <2>2. reader # "closed" \/ task[j] # "none"
    BY <1>8 DEF Held
  <2>3. /\ IsInjective(chan')
        /\ \A i \in Places : i # j => (i \in Range(chan') <=> i \in Range(chan))
    BY Zenon, <1>1, <1>8, <2>1, <2>2, RespondMoves
  <2>4. Queues' /\ \A i \in Places : (Delivered(i)' <=> Delivered(i))
    BY <1>1, <1>8, <2>3 DEF Delivered, LastOnce
  <2>5. ASSUME NEW i \in Places PROVE Apart(i)'
    <3>1. CASE i = j
      BY Zenon, <1>8, <2>1, <2>4, <3>1 DEF Somewhere
    <3>2. CASE i # j
      BY Zenon, <1>1, <1>8, <2>3, <2>4, <3>2 DEF Somewhere
    <3>. QED  BY <3>1, <3>2
  <2>. QED  BY <2>4, <2>5
<1>9. CASE SendInline
  <2>1. /\ Respond(taken) /\ taken \in Places /\ Held(taken) /\ reader' \in {"read", "closed"}
        /\ UNCHANGED <<taken, pending, wire, task>>
    BY <1>0, <1>9 DEF SendInline, readerFrame, Held
  <2>2. task[taken] = "none"
    BY <1>1, <2>1
  <2>3. \A i \in Places : ~Held(i)' /\ (i # taken => ~Held(i))
    BY <2>1 DEF Held
  <2>. QED  BY Zenon, <1>8, <2>1, <2>2, <2>3
<1>10. ASSUME NEW j \in Places, Reply(j) PROVE Queues' /\ \A i \in Places : Apart(i)'
  <2>1. /\ Respond(j) /\ task[j] # "none" /\ task' = [task EXCEPT ![j] = "none"]
        /\ UNCHANGED <<taken, reader, pending, wire>>
    BY <1>10 DEF Reply, readerFrame
  <2>2. task'[j] = "none" /\ \A i \in Places : i # j => task'[i] = task[i]
    BY <1>0, <2>1
  <2>3. ~Held(j) /\ \A i \in Places : Held(i)' <=> Held(i)
    BY <1>1, <2>1 DEF Held
  <2>. QED  BY Zenon, <1>8, <2>1, <2>2, <2>3
<1>11. CASE WriterStep
  <2>0. UNCHANGED <<taken, reader, task>> /\ \A i \in Places : (Held(i)' <=> Held(i))
    BY <1>11 DEF WriterStep, Held
  <2>1. CASE Collect
    <3>1. chan # <<>> /\ chan' = Tail(chan) /\ pending' = Append(pending, Head(chan)) /\ wire' = wire
      BY <2>1 DEF Collect
    <3>2. chan \in Seq(Places) /\ pending \in Seq(Places)
      BY DEF Types
    <3>3. /\ Head(chan) \in Places /\ Range(chan) = Range(chan') \cup {Head(chan)}
          /\ IsInjective(chan') /\ Head(chan) \notin Range(chan')
      BY Zenon, <1>1, <3>1, <3>2, Taken
    <3>4. Range(pending') = Range(pending) \cup {Head(chan)} /\ Head(chan) \notin Range(pending)
      BY <1>1, <3>1, <3>2, <3>3, Added
    <3>5. IsInjective(pending')
      BY Zenon, <1>1, <3>1, <3>2, <3>3, <3>4, Added
    <3>6. LastOnce(wire') /\ \A i \in Places : (Delivered(i)' <=> Delivered(i))
      BY <1>1, <3>1 DEF Delivered
    <3>7. \A i \in Places : Apart(i)'
      BY ZenonT(30), <1>1, <2>0, <3>3, <3>4, <3>6 DEF Somewhere
    <3>. QED  BY <3>3, <3>5, <3>6, <3>7
  <2>2. CASE Flush \/ WriterEnds(SendersGone)
    <3>1. UNCHANGED <<chan, pending, wire>>
      BY <2>2 DEF Flush, WriterEnds
    <3>. QED  BY <1>1, <1>3, <2>0, <3>1 DEF Somewhere
  <2>3. CASE WriteVectored \/ WriteAll
    <3>1. /\ IsInjective(pending') /\ LastOnce(wire') /\ UNCHANGED chan
          /\ \A i \in Places :
               /\ i \in Range(pending') => i \in Range(pending)
               /\ Delivered(i)' => Delivered(i) \/ (i \in Range(pending) /\ i \notin Range(pending'))
      <4>1. \A i \in Range(pending) : i \in Places
        BY DEF Types, Range
      <4>. QED  BY Zenon, <1>1, <2>3, <4>1, WriteMoves
    <3>2. \A i \in Places : Apart(i)'
      BY <1>1, <2>0, <3>1 DEF Somewhere
    <3>. QED  BY Zenon, <1>1, <3>1, <3>2
  <2>4. CASE WriteToNobody
    <3>1. pending' = <<>> /\ wire' = wire /\ (chan' = chan \/ chan' = <<>>)
      BY <2>4 DEF WriteToNobody
    <3>2. Range(pending') = {} /\ IsInjective(pending') /\ IsInjective(chan')
          /\ (Range(chan') = Range(chan) \/ Range(chan') = {})
      BY <1>1, <3>1, EmptyQueue
    <3>3. LastOnce(wire') /\ \A i \in Places : (Delivered(i)' <=> Delivered(i))
      BY <1>1, <3>1 DEF Delivered
    <3>4. \A i \in Places : Apart(i)'
      BY <1>1, <2>0, <3>2, <3>3 DEF Somewhere
    <3>. QED  BY <3>2, <3>3, <3>4
  <2>. QED  BY Zenon, <1>11, <2>1, <2>2, <2>3, <2>4 DEF WriterStep
<1>. QED  BY Zenon, <1>4, <1>5, <1>6, <1>7, <1>9, <1>10, <1>11 DEF Next, ReaderStep, TaskStep

-----------------------------------------------------------------------------
\* A PREPARE takes an id no other one has, until the counter wraps; a client
\* knows the id of a PREPARE only once it has the response
LEMMA IdsStep ==
  ASSUME Types, Shape, Single, IdsKept, [Next]_vars
  PROVE  IdsKept'
<1>. DEFINE Ids == prepares <= IdSpace =>
              \A p \in 1 .. taken :
                frames[p].kind = "prepare" => idOf[p] < prepares /\ prepared[idOf[p]] = p
            Known == \A i \in DOMAIN frames : frames[i].kind = "execute" =>
                       frames[i].of \in 1 .. taken /\ frames[frames[i].of].kind = "prepare"
<1>0. /\ MaxFrames \in Nat /\ taken \in Nat /\ Len(frames) \in Nat /\ taken <= Len(frames)
      /\ Len(frames) <= MaxFrames /\ DOMAIN frames = 1 .. Len(frames)
      /\ IdSpace \in Nat \ {0} /\ prepares \in Nat /\ idOf \in [Places -> 0 .. IdSpace - 1]
      /\ prepared \in [0 .. IdSpace - 1 -> 0 .. MaxFrames]
  BY AtHand, ConnectionConstants DEF Types, TypeOK
<1>1. Ids /\ Known
  BY DEF IdsKept
<1>2. \A i \in 1 .. Len(frames) : frames'[i] = frames[i]
  BY FramesStay
<1>3. \A p \in 1 .. taken : p \in 1 .. Len(frames) /\ frames'[p] = frames[p] /\ p \in Places /\ p # taken + 1
  BY <1>0, <1>2 DEF Places
<1>4. CASE ClientSend
  <2>1. PICK k \in Kinds, p \in {q \in Places : Delivered(q)} \cup {0} :
          /\ k = "execute" => p # 0 /\ frames[p].kind = "prepare"
          /\ frames' = Append(frames, [kind |-> k, of |-> p])
    BY <1>4 DEF ClientSend
  <2>2. UNCHANGED <<taken, prepares, idOf, prepared>>
    BY <1>4 DEF ClientSend, conn
  <2>3. Ids'
    BY <1>1, <1>3, <2>2
  <2>4. k = "execute" => p \in 1 .. taken
    <3>1. p # 0 => p \in Places /\ p <= taken
      BY DEF Single, Somewhere
    <3>. QED  BY <1>0, <2>1, <3>1 DEF Places
  <2>5. /\ Len(frames') = Len(frames) + 1 /\ DOMAIN frames' = 1 .. Len(frames) + 1
        /\ frames'[Len(frames) + 1] = [kind |-> k, of |-> p]
    <3>1. frames \in Seq([kind : Kinds, of : 0 .. MaxFrames])
      BY DEF Types
    <3>. QED  BY <2>1, <3>1
  <2>6. ASSUME NEW i \in DOMAIN frames', frames'[i].kind = "execute"
        PROVE  frames'[i].of \in 1 .. taken /\ frames'[frames'[i].of].kind = "prepare"
    <3>1. CASE i \in 1 .. Len(frames)
      <4>1. i \in DOMAIN frames /\ frames'[i] = frames[i]
        BY Zenon, <1>0, <1>2, <3>1
      <4>2. frames[i].of \in 1 .. taken /\ frames[frames[i].of].kind = "prepare"
        BY Zenon, <1>1, <2>6, <4>1
      <4>. QED  BY Zenon, <1>3, <4>1, <4>2
    <3>2. CASE i = Len(frames) + 1
      <4>1. frames'[i].kind = k /\ frames'[i].of = p
        BY <2>5, <3>2
      <4>. QED  BY ZenonT(30), <1>3, <2>1, <2>4, <2>6, <4>1
    <3>. QED  BY <1>0, <2>5, <3>1, <3>2
  <2>. QED  BY <2>2, <2>3, <2>6 DEF IdsKept
<1>5. ASSUME UNCHANGED frames, taken' \in {taken, taken + 1} PROVE Known'
  <2>1. 1 .. taken \subseteq 1 .. taken'
    BY <1>0, <1>5
  <2>. QED  BY <1>1, <1>5, <2>1
<1>6. ASSUME taken' = taken \/ frames[taken + 1].kind # "prepare",
             taken' \in {taken, taken + 1}, UNCHANGED <<frames, prepares, idOf, prepared>>
      PROVE  IdsKept'
  <2>1. \A p \in 1 .. taken' : p \in 1 .. taken \/ (p = taken + 1 /\ taken' # taken)
    BY <1>0, <1>6
  <2>2. Ids'
    BY Zenon, <1>1, <1>6, <2>1
  <2>. QED  BY <1>5, <1>6, <2>2 DEF IdsKept
<1>7. CASE ReadInline
  <2>1. taken' = taken + 1 /\ UNCHANGED frames /\ taken < Len(frames)
    BY <1>7 DEF ReadInline, readerFrame
  <2>2. CASE UNCHANGED <<prepares, idOf, prepared>> /\ frames[taken + 1].kind # "prepare"
    BY Zenon, <1>6, <2>1, <2>2
  <2>3. CASE /\ prepared' = [prepared EXCEPT ![PreparedId(prepares)] = taken + 1]
             /\ idOf' = [idOf EXCEPT ![taken + 1] = PreparedId(prepares)]
             /\ prepares' = prepares + 1
    <3>1. SUFFICES ASSUME prepares + 1 <= IdSpace, NEW p \in 1 .. taken + 1,
                          frames[p].kind = "prepare"
                   PROVE  idOf'[p] < prepares + 1 /\ prepared'[idOf'[p]] = p
      BY <1>5, <2>1, <2>3 DEF IdsKept
    <3>2. PreparedId(prepares) = prepares /\ prepares \in 0 .. IdSpace - 1
      <4>1. ASSUME NEW n \in Nat, NEW S \in Nat, n + 1 <= S PROVE n % S = n /\ n \in 0 .. S - 1
        BY <4>1
      <4>. QED  BY Zenon, <1>0, <3>1, <4>1 DEF PreparedId
    <3>3. taken + 1 \in Places
      BY <1>0, <2>1 DEF Places
    <3>4. CASE p = taken + 1
      <4>1. idOf'[p] = prepares /\ prepared'[prepares] = taken + 1
        BY Zenon, <1>0, <2>3, <3>2, <3>3, <3>4
      <4>. QED  BY <1>0, <3>4, <4>1
    <3>5. CASE p \in 1 .. taken
      <4>0. prepares <= IdSpace /\ p \in Places
        BY <1>0, <1>3, <3>1, <3>5
      <4>1. idOf[p] < prepares /\ prepared[idOf[p]] = p /\ idOf[p] \in 0 .. IdSpace - 1
        BY ZenonT(30), <1>0, <1>1, <3>1, <3>5, <4>0
      <4>2. idOf'[p] = idOf[p]
        BY <1>0, <1>3, <2>3, <3>5
      <4>3. idOf[p] # prepares /\ idOf[p] < prepares + 1
        BY <1>0, <4>1
      <4>. QED  BY Zenon, <1>0, <2>3, <3>2, <4>1, <4>2, <4>3
    <3>. QED  BY <1>0, <3>4, <3>5
  <2>. QED  BY Zenon, <1>7, <2>2, <2>3 DEF ReadInline, IsSessionUse, conn
<1>8. CASE ReadGarbled \/ ReadQuery
  <2>1. /\ taken' = taken + 1 /\ frames[taken + 1].kind # "prepare"
        /\ UNCHANGED <<frames, prepares, idOf, prepared>>
    BY Zenon, <1>8 DEF ReadGarbled, ReadQuery, readerFrame, conn
  <2>. QED  BY Zenon, <1>6, <2>1
<1>9. CASE SendInline \/ Spawn \/ ReadEnd
  BY <1>6, <1>9 DEF SendInline, Spawn, ReadEnd, readerFrame, conn
<1>10. ASSUME NEW i \in Places, TaskStep(i) PROVE IdsKept'
  <2>1. UNCHANGED <<taken, frames, prepares, idOf, prepared>>
    BY ZenonT(30), <1>10 DEF TaskStep, Execute, Panic, SetKeyspace, Reply, readerFrame, conn
  <2>. QED  BY <1>6, <2>1
<1>11. CASE ClientGone \/ WriterStep \/ UNCHANGED vars
  BY Zenon, <1>6, <1>11 DEF ClientGone, WriterStep, vars, conn
<1>. QED  BY Zenon, <1>4, <1>7, <1>8, <1>9, <1>10, <1>11 DEF Next, ReaderStep

\* An empty connection has no response anywhere
LEMMA SingleInit == Init => Single /\ IdsKept /\ Owed
<1>. SUFFICES ASSUME Init PROVE Single /\ IdsKept /\ Owed
  OBVIOUS
<1>1. /\ chan = <<>> /\ pending = <<>> /\ wire = <<>> /\ taken = 0 /\ reader = "read" /\ frames = <<>>
      /\ \A i \in Places : task[i] = "none" /\ ~(i <= taken)
  <2>1. \A i \in Places : ~(i <= 0)
    BY ConnectionConstants DEF Places
  <2>. QED  BY <2>1 DEF Init, WriterInit
<1>2. Range(chan) = {} /\ Range(pending) = {} /\ Range(wire) = {} /\ IsInjective(chan) /\ IsInjective(pending)
  BY <1>1, EmptyQueue
<1>3. LastOnce(wire)
  BY <1>1 DEF LastOnce
<1>4. \A i \in Places : ~Somewhere(i)
  BY <1>1, <1>2 DEF Somewhere, Delivered, Held
<1>5. Single
  BY <1>2, <1>3, <1>4 DEF Single, Somewhere
<1>6. IdsKept
  BY <1>1 DEF IdsKept
<1>. QED  BY <1>1, <1>5, <1>6 DEF Owed

\* As long as the u16 counter of prepared ids has not wrapped, an EXECUTE runs
\* the statement its client prepared under that id, however many PREPAREs and
\* tasks run between the two; once it wraps, an id belongs to the last PREPARE
\* that took it
THEOREM ExecutesWhatWasPrepared == Spec => [](prepares <= IdSpace => ExecutesPrepared)
<1>1. Init => Types /\ Shape /\ Single /\ IdsKept
  BY TypesInit, SingleInit
<1>2. Types /\ Shape /\ Single /\ IdsKept /\ [Next]_vars => Types' /\ Shape' /\ Single' /\ IdsKept'
  BY Zenon, TypesStep, ShapeStep, SingleStep, IdsStep
<1>3. Types /\ Shape /\ IdsKept => (prepares <= IdSpace => ExecutesPrepared)
  <2>. SUFFICES ASSUME Types, Shape, IdsKept, prepares <= IdSpace,
                       NEW i \in Places, task[i] = "start", frames[i].kind = "execute"
                PROVE  prepared[idOf[frames[i].of]] = frames[i].of
    BY DEF ExecutesPrepared, StatementOf
  <2>1. i \in DOMAIN frames
    <3>1. i <= taken
      BY DEF Shape
    <3>. QED  BY <3>1, AtHand DEF Places
  <2>. QED  BY <2>1 DEF IdsKept
<1>. QED  BY <1>1, <1>2, <1>3, PTL DEF Spec

-----------------------------------------------------------------------------
\* No step loses a response that is owed: a response leaves the reader, a task,
\* the channel or the batch only for the next place on its way
LEMMA OwedStep ==
  ASSUME Types, Shape, Single, Owed, [Next]_vars
  PROVE  Owed'
<1>0. /\ MaxFrames \in Nat /\ taken \in Nat /\ Len(frames) \in Nat /\ taken <= Len(frames)
      /\ reader \in {"send", "permit"} => taken \in Places
      /\ task \in [Places -> {"none", "start", "set_keyspace", "reply"}] /\ Places \subseteq Nat
  BY AtHand DEF Types, TypeOK, Places
<1>1. \A i \in Places : i <= taken => frames'[i] = frames[i]
  <2>1. \A i \in Places : i <= taken => i \in 1 .. Len(frames)
    BY <1>0 DEF Places
  <2>. QED  BY <2>1, FramesStay
<1>2. ASSUME NEW i \in Places PROVE i \in Range(chan) => task[i] = "none" /\ ~Held(i)
  BY DEF Single
<1>3. ASSUME UNCHANGED <<chan, pending, wire, reader, taken, compression>>, open' => open, short' = short,
             \A i \in Places : task[i] # "none" /\ task'[i] = "none" => frames[i].kind = "panicking"
      PROVE  Owed'
  BY ZenonT(30), <1>1, <1>3 DEF Owed, Unanswered, Somewhere, Delivered, Held
<1>4. CASE ClientSend \/ ClientGone \/ UNCHANGED vars
  <2>1. CASE ClientSend
    BY Zenon, <2>1, <1>3 DEF ClientSend, writerVars, conn
  <2>2. CASE ClientGone
    BY Zenon, <2>2, <1>3 DEF ClientGone, writerVars, conn
  <2>3. CASE UNCHANGED vars
    BY Zenon, <2>3, <1>3 DEF vars, writerVars, conn
  <2>. QED  BY Zenon, <1>4, <2>1, <2>2, <2>3
<1>5. CASE ReadInline \/ ReadGarbled \/ ReadQuery
  <2>1. /\ UNCHANGED <<chan, pending, wire, task, open, short, frames>> /\ reader = "read"
        /\ taken' = taken + 1
        /\ \/ reader' \in {"send", "permit"}
           \/ /\ frames[taken + 1].kind = "compressed" /\ compression' /\ reader' = "closed"
    <3>1. CASE ReadInline
      BY Zenon, <3>1 DEF ReadInline, readerFrame
    <3>2. CASE ReadGarbled
      BY Zenon, <3>2 DEF ReadGarbled, readerFrame, conn
    <3>3. CASE ReadQuery
      BY Zenon, <3>3 DEF ReadQuery, readerFrame
    <3>. QED  BY Zenon, <1>5, <3>1, <3>2, <3>3
  <2>2. \A i \in Places : i <= taken' => i <= taken \/ i = taken'
    BY <1>0, <2>1
  <2>3. \A i \in Places : i <= taken' /\ ~Unanswered(i)' => (i <= taken /\ ~Unanswered(i)) \/ Held(i)'
    BY Zenon, <2>1, <2>2 DEF Unanswered, Held
  <2>4. \A i \in Places : Somewhere(i) => Somewhere(i)'
    BY <2>1 DEF Somewhere, Delivered, Held
  <2>. QED  BY ZenonT(30), <2>1, <2>3, <2>4 DEF Owed, Somewhere
<1>6. CASE Spawn \/ ReadEnd
  <2>1. /\ UNCHANGED <<chan, pending, wire, taken, open, short, frames, compression>>
        /\ reader \in {"read", "permit"} /\ (reader = "permit" => Spawn)
    BY <1>6 DEF Spawn, ReadEnd, readerFrame, conn
  <2>2. \A i \in Places : /\ task[i] # "none" => task'[i] # "none"
                          /\ Held(i) => task'[i] # "none"
    BY <1>0, <1>6 DEF Spawn, ReadEnd, Held
  <2>3. \A i \in Places : Somewhere(i) => Somewhere(i)'
    BY Zenon, <2>1, <2>2 DEF Somewhere, Delivered
  <2>4. \A i \in Places : ~Unanswered(i)' => ~Unanswered(i)
    BY Zenon, <2>1 DEF Unanswered
  <2>. QED  BY Zenon, <2>1, <2>3, <2>4 DEF Owed
<1>7. ASSUME NEW j \in Places, Execute(j) \/ Panic(j) \/ SetKeyspace(j) PROVE Owed'
  <2>1. \A i \in Places : task[i] # "none" /\ task'[i] = "none" => frames[i].kind = "panicking"
    BY <1>0, <1>7 DEF Execute, Panic, SetKeyspace
  <2>2. UNCHANGED <<chan, pending, wire, reader, taken, compression, open, short>>
    BY Zenon, <1>7 DEF Execute, Panic, SetKeyspace, readerFrame, conn
  <2>. QED  BY Zenon, <1>3, <2>1, <2>2
<1>8. ASSUME NEW j \in Places, Respond(j), task[j] # "none" \/ Held(j),
             \A i \in Places : i # j => task'[i] = task[i] /\ (Held(i)' <=> Held(i)),
             reader = "closed" => reader' = "closed",
             UNCHANGED <<taken, pending, wire, open, short, frames, compression>>
      PROVE  Owed'
  <2>1. j \notin Range(chan)
    BY Zenon, <1>2, <1>8
  <2>2. reader # "closed" \/ task[j] # "none"
    BY <1>8 DEF Held
  <2>3. /\ \A i \in Places : i # j => (i \in Range(chan') <=> i \in Range(chan))
        /\ open => j \in Range(chan')
    BY Zenon, <1>8, <2>1, <2>2, RespondMoves
  <2>4. \A i \in Places : open /\ Somewhere(i) => Somewhere(i)'
    BY Zenon, <1>8, <2>3 DEF Somewhere, Delivered
  <2>5. \A i \in Places : ~Unanswered(i)' => ~Unanswered(i)
    BY <1>8 DEF Unanswered
  <2>. QED  BY <1>8, <2>4, <2>5 DEF Owed
<1>9. CASE SendInline
  <2>1. /\ Respond(taken) /\ taken \in Places /\ Held(taken) /\ reader' \in {"read", "closed"}
        /\ reader # "closed" /\ UNCHANGED <<taken, pending, wire, task, open, short, frames, compression>>
    BY <1>0, <1>9 DEF SendInline, readerFrame, conn, Held
  <2>2. \A i \in Places : i # taken => ~Held(i)' /\ ~Held(i)
    BY <2>1 DEF Held
  <2>. QED  BY <1>8, <2>1, <2>2
<1>10. ASSUME NEW j \in Places, Reply(j) PROVE Owed'
  <2>1. /\ Respond(j) /\ task[j] # "none" /\ task' = [task EXCEPT ![j] = "none"]
        /\ UNCHANGED <<taken, reader, pending, wire, open, short, frames, compression>>
    BY <1>10 DEF Reply, readerFrame, conn
  <2>2. \A i \in Places : i # j => task'[i] = task[i] /\ (Held(i)' <=> Held(i))
    BY <1>0, <2>1 DEF Held
  <2>. QED  BY Zenon, <1>8, <2>1, <2>2
<1>11. CASE WriterStep
  <2>0. /\ UNCHANGED <<taken, reader, task, open, frames, compression>>
        /\ \A i \in Places : (Held(i)' <=> Held(i)) /\ (Unanswered(i)' <=> Unanswered(i))
    BY <1>11 DEF WriterStep, conn, Held, Unanswered
  <2>1. ASSUME \A i \in Places : open /\ ~short' /\ Somewhere(i) => Somewhere(i)', short => short'
        PROVE  Owed'
    BY <2>0, <2>1 DEF Owed
  <2>2. CASE Collect
    <3>1. /\ chan # <<>> /\ chan' = Tail(chan) /\ pending' = Append(pending, Head(chan))
          /\ UNCHANGED <<wire, short>>
      BY <2>2 DEF Collect
    <3>2. chan \in Seq(Places) /\ pending \in Seq(Places)
      BY DEF Types
    <3>3. Head(chan) \in Places /\ Range(chan) = Range(chan') \cup {Head(chan)}
      BY <3>1, <3>2, Taken
    <3>4. Range(pending') = Range(pending) \cup {Head(chan)}
      BY <3>1, <3>2, <3>3, Added
    <3>5. \A i \in Places : Somewhere(i) => Somewhere(i)'
      BY Zenon, <2>0, <3>1, <3>3, <3>4 DEF Somewhere, Delivered
    <3>. QED  BY <2>1, <3>1, <3>5
  <2>3. CASE Flush \/ WriterEnds(SendersGone)
    <3>1. UNCHANGED <<chan, pending, wire, short>>
      BY <2>3 DEF Flush, WriterEnds
    <3>2. \A i \in Places : Somewhere(i) => Somewhere(i)'
      BY <2>0, <3>1 DEF Somewhere, Delivered
    <3>. QED  BY <2>1, <3>1, <3>2
  <2>4. CASE WriteVectored \/ WriteAll
    <3>1. /\ UNCHANGED chan /\ (short => short')
          /\ \A i \in Places :
               /\ Delivered(i) => Delivered(i)'
               /\ ~short' /\ i \in Range(pending) => i \in Range(pending') \/ Delivered(i)'
      <4>1. \A i \in Range(pending) : i \in Places
        BY DEF Types, Range
      <4>2. IsInjective(pending) /\ LastOnce(wire) /\ \A i \in Range(pending) : ~Delivered(i)
        BY <4>1 DEF Single
      <4>. QED  BY <2>4, <4>2, WriteMoves
    <3>2. \A i \in Places : ~short' /\ Somewhere(i) => Somewhere(i)'
      BY <2>0, <3>1 DEF Somewhere
    <3>. QED  BY Zenon, <2>1, <3>1, <3>2
  <2>5. CASE WriteToNobody
    BY <2>0, <2>5 DEF WriteToNobody, Owed
  <2>. QED  BY Zenon, <1>11, <2>2, <2>3, <2>4, <2>5 DEF WriterStep
<1>. QED  BY Zenon, <1>4, <1>5, <1>6, <1>7, <1>9, <1>10, <1>11 DEF Next, ReaderStep, TaskStep

\* What occurs at most once in a sequence is in it once or not at all
LEMMA CopiesAre ==
  ASSUME NEW s, NEW x, \A a, b \in DOMAIN s : s[a] = x /\ s[b] = x => a = b
  PROVE  Copies(x, s) = (IF x \in Range(s) THEN 1 ELSE 0)
<1>1. CASE x \in Range(s)
  <2>1. PICK a \in DOMAIN s : s[a] = x
    BY <1>1 DEF Range
  <2>2. {y \in DOMAIN s : s[y] = x} = {a}
    BY <2>1
  <2>. QED  BY Zenon, <1>1, <2>2, FS_Singleton DEF Copies
<1>2. CASE x \notin Range(s)
  <2>1. {y \in DOMAIN s : s[y] = x} = {}
    BY <1>2 DEF Range
  <2>. QED  BY Zenon, <1>2, <2>1, FS_EmptySet DEF Copies
<1>. QED  BY <1>1, <1>2

\* Every request is answered once: while the client is there and no vectored
\* write was cut short, a frame that was read has exactly one response, to be
\* made, on its way or delivered, unless its task panicked or its body did not
\* decompress; and no frame ever has two
THEOREM AnsweredOnce == Spec => []OneResponseEach
<1>1. Init => Types /\ Shape /\ Single /\ Owed
  BY Zenon, TypesInit, SingleInit
<1>2. Types /\ Shape /\ Single /\ Owed /\ [Next]_vars => Types' /\ Shape' /\ Single' /\ Owed'
  BY TypesStep, ShapeStep, SingleStep, OwedStep
<1>3. Types /\ Single /\ Owed => OneResponseEach
  <2>. SUFFICES ASSUME Types, Single, Owed, NEW i \in Places
                PROVE  IF i <= taken /\ open /\ ~short /\ ~Unanswered(i)
                       THEN Responses(i) = 1 ELSE Responses(i) <= 1
    BY DEF OneResponseEach
  <2>. DEFINE b == <<i, FrameSize>>
  <2>1. Copies(i, chan) = (IF i \in Range(chan) THEN 1 ELSE 0)
    <3>1. \A x, y \in DOMAIN chan : chan[x] = i /\ chan[y] = i => x = y
      BY DEF Single, IsInjective
    <3>. QED  BY <3>1, CopiesAre
  <2>2. Copies(i, pending) = (IF i \in Range(pending) THEN 1 ELSE 0)
    <3>1. \A x, y \in DOMAIN pending : pending[x] = i /\ pending[y] = i => x = y
      BY DEF Single, IsInjective
    <3>. QED  BY <3>1, CopiesAre
  <2>3. Copies(b, wire) = (IF Delivered(i) THEN 1 ELSE 0)
    <3>1. b[2] = FrameSize
      OBVIOUS
    <3>2. Delivered(i) <=> b \in Range(wire)
      BY Zenon DEF Delivered
    <3>. HIDE DEF b
    <3>3. \A x, y \in DOMAIN wire : wire[x] = b /\ wire[y] = b => x = y
      BY <3>1 DEF Single, LastOnce
    <3>4. Copies(b, wire) = (IF b \in Range(wire) THEN 1 ELSE 0)
      BY Zenon, <3>3, CopiesAre
    <3>. QED  BY <3>2, <3>4
  <2>4. Responses(i) = (IF i \in Range(chan) THEN 1 ELSE 0) + (IF i \in Range(pending) THEN 1 ELSE 0)
                       + (IF Delivered(i) THEN 1 ELSE 0) + (IF task[i] # "none" THEN 1 ELSE 0)
                       + (IF Held(i) THEN 1 ELSE 0)
    BY Zenon, <2>1, <2>2, <2>3 DEF Responses, Held
  <2>5. /\ i \in Range(chan) => i \notin Range(pending) /\ ~Delivered(i) /\ task[i] = "none" /\ ~Held(i)
        /\ i \in Range(pending) => ~Delivered(i) /\ task[i] = "none" /\ ~Held(i)
        /\ Delivered(i) => task[i] = "none" /\ ~Held(i)
        /\ task[i] # "none" => ~Held(i)
    BY DEF Single
  <2>6. IF Somewhere(i) THEN Responses(i) = 1 ELSE Responses(i) = 0
    BY <2>4, <2>5 DEF Somewhere
  <2>. QED  BY <2>6 DEF Owed
<1>. QED  BY <1>1, <1>2, <1>3, PTL DEF Spec

-----------------------------------------------------------------------------
\* Byte c may come after byte b
Follows(b, c) == IF c[2] = 1 THEN b[2] = FrameSize ELSE b = <<c[1], c[2] - 1>>

\* In the bytes s every byte comes after the one before it
Linked(s) == \A k \in DOMAIN s : k > 1 => Follows(s[k - 1], s[k])

\* The bytes s are whole frames, up to the last one
Whole(s) == Linked(s) /\ (s # <<>> => s[1][2] = 1)

\* Bytes t that continue the frames s leave whole frames
LEMMA FramesJoined ==
  ASSUME NEW S, NEW s \in Seq(S), NEW t \in Seq(S), Whole(s), Linked(t), t # <<>>,
         IF s = <<>> THEN t[1][2] = 1 ELSE Follows(s[Len(s)], t[1])
  PROVE  Whole(s \o t) /\ s \o t # <<>> /\ (s \o t)[Len(s \o t)] = t[Len(t)]
<1>. DEFINE u == s \o t
<1>1. /\ Len(u) = Len(s) + Len(t) /\ Len(s) \in Nat /\ Len(t) \in Nat \ {0}
      /\ DOMAIN u = 1 .. Len(s) + Len(t) /\ DOMAIN s = 1 .. Len(s) /\ DOMAIN t = 1 .. Len(t)
      /\ (s = <<>> <=> Len(s) = 0) /\ (u = <<>> <=> Len(u) = 0)
  OBVIOUS
<1>2. (\A k \in 1 .. Len(s) : u[k] = s[k]) /\ (\A k \in 1 .. Len(t) : u[Len(s) + k] = t[k])
  OBVIOUS
<1>. HIDE DEF u
<1>3. ASSUME NEW k \in 1 .. Len(s) + Len(t), k > 1 PROVE Follows(u[k - 1], u[k])
  <2>1. CASE k \in 1 .. Len(s)
    <3>1. k - 1 \in 1 .. Len(s)
      BY <1>1, <1>3, <2>1
    <3>2. u[k] = s[k] /\ u[k - 1] = s[k - 1]
      BY ZenonT(30), <1>2, <2>1, <3>1
    <3>3. Follows(s[k - 1], s[k])
      BY Zenon, <1>1, <1>3, <2>1 DEF Whole, Linked
    <3>. QED  BY Zenon, <3>2, <3>3
  <2>2. CASE k = Len(s) + 1
    <3>1. 1 \in 1 .. Len(t) /\ k - 1 = Len(s) /\ Len(s) \in 1 .. Len(s) /\ Len(s) # 0
      BY <1>1, <1>3, <2>2
    <3>2. u[k] = t[1] /\ u[k - 1] = s[Len(s)]
      BY ZenonT(30), <1>2, <2>2, <3>1
    <3>3. s # <<>>
      BY <1>1, <3>1
    <3>. QED  BY Zenon, <3>2, <3>3
  <2>3. CASE k > Len(s) + 1
    <3>1. PICK j \in 1 .. Len(t) : j > 1 /\ k = Len(s) + j
      <4>1. k - Len(s) \in 1 .. Len(t) /\ k - Len(s) > 1 /\ k = Len(s) + (k - Len(s))
        BY <1>1, <2>3
      <4>. QED  BY <4>1
    <3>2. j - 1 \in 1 .. Len(t) /\ k - 1 = Len(s) + (j - 1)
      BY <1>1, <3>1
    <3>3. u[k] = t[j] /\ u[k - 1] = t[j - 1]
      BY Zenon, <1>2, <3>1, <3>2
    <3>4. Follows(t[j - 1], t[j])
      BY <1>1, <3>1 DEF Linked
    <3>. QED  BY Zenon, <3>3, <3>4
  <2>. QED  BY <1>1, <2>1, <2>2, <2>3
<1>4. u # <<>> /\ u[Len(u)] = t[Len(t)]
  <2>1. Len(t) \in 1 .. Len(t) /\ Len(u) # 0
    BY <1>1
  <2>2. u[Len(s) + Len(t)] = t[Len(t)]
    BY Zenon, <1>2, <2>1
  <2>. QED  BY ZenonT(30), <1>1, <2>1, <2>2
<1>5. u[1][2] = 1
  <2>1. CASE s = <<>>
    <3>1. 1 \in 1 .. Len(t) /\ Len(s) + 1 = 1
      BY <1>1, <2>1
    <3>2. u[Len(s) + 1] = t[1]
      BY Zenon, <1>2, <3>1
    <3>. QED  BY ZenonT(30), <2>1, <3>1, <3>2
  <2>2. CASE s # <<>>
    <3>1. 1 \in 1 .. Len(s)
      BY <1>1, <2>2
    <3>2. u[1] = s[1] /\ s[1][2] = 1
      BY Zenon, <1>2, <2>2, <3>1 DEF Whole
    <3>. QED  BY Zenon, <3>2
  <2>. QED  BY <2>1, <2>2
<1>6. Whole(u)
  BY ZenonT(30), <1>1, <1>3, <1>5 DEF Whole, Linked
<1>. QED  BY Zenon, <1>4, <1>6 DEF u

\* A write continues what is on the wire: write_vectored starts a response and
\* write_all goes on where it stopped
LEMMA FramesStep ==
  ASSUME Types, Shape, ~short => Whole(wire), Continues, [Next]_vars
  PROVE  (~short' => Whole(wire')) /\ Continues'
<1>0. /\ FrameSize \in Nat \ {0} /\ wire \in Seq(Places \X (1 .. FrameSize)) /\ pending \in Seq(Places)
      /\ offset \in 0 .. FrameSize - 1
  BY Zenon, WriterConstants DEF Types, TypeOK, WriterTypeOK
<1>1. CASE /\ UNCHANGED <<wire, short, offset>> /\ (open' => open)
           /\ offset # 0 => pending' = pending
  BY <1>1 DEF Continues
<1>2. CASE WriteVectored /\ UNCHANGED open
  <2>. DEFINE B == AllBytes(pending)
  <2>1. PICK n \in 1 .. Len(B), out \in Seq(Places \X (1 .. FrameSize)) :
          /\ wire' = wire \o out /\ Len(out) = n
          /\ \A k \in 1 .. n : out[k] = B[k]
          /\ short' = (short \/ n < Len(B))
          /\ pending # <<>> /\ offset = 0 /\ offset' = 0 /\ open
    BY Zenon, <1>2, WriteVectoredAdds
  <2>2. /\ Len(B) \in Nat /\ Len(B) >= 1 /\ B[Len(B)][2] = FrameSize
        /\ \A k \in 1 .. Len(B) :
             IF B[k][2] = 1 THEN k = 1 \/ B[k - 1][2] = FrameSize
             ELSE k > 1 /\ B[k - 1] = <<B[k][1], B[k][2] - 1>>
    <3>1. B \in Seq(Places \X (1 .. FrameSize))
      BY Zenon, <1>0, AllBytesAre
    <3>2. Len(B) >= 1 /\ B[Len(B)][2] = FrameSize
      BY Zenon, <1>0, <2>1, AllBytesAre
    <3>3. \A k \in 1 .. Len(B) :
            IF B[k][2] = 1 THEN k = 1 \/ B[k - 1][2] = FrameSize
            ELSE k > 1 /\ B[k - 1] = <<B[k][1], B[k][2] - 1>>
      BY Zenon, <1>0, AllBytesAre
    <3>4. Len(B) \in Nat
      BY <3>1
    <3>. QED  BY Zenon, <3>2, <3>3, <3>4
  <2>. HIDE DEF B
  <2>3. SUFFICES ASSUME ~short' PROVE Whole(wire') /\ Continues'
    BY DEF Continues
  <2>4. ~short /\ n = Len(B)
    <3>1. ~short /\ ~(n < Len(B))
      BY Zenon, <2>1, <2>3
    <3>2. ASSUME NEW L \in Nat, NEW m \in 1 .. L, ~(m < L) PROVE m = L
      BY <3>2
    <3>. QED  BY Zenon, <2>2, <3>1, <3>2
  <2>5. n \in 1 .. n /\ 1 \in 1 .. n /\ out # <<>> /\ DOMAIN out = 1 .. n
    BY <2>1, <2>2, <2>4
  <2>6. Linked(out)
    <3>1. ASSUME NEW k \in 1 .. n, k > 1 PROVE k - 1 \in 1 .. n /\ k # 1
      BY <2>2, <3>1
    <3>2. ASSUME NEW k \in 1 .. n, k > 1 PROVE Follows(B[k - 1], B[k])
      BY ZenonT(30), <2>2, <2>4, <3>1, <3>2 DEF Follows
    <3>. QED  BY ZenonT(30), <2>1, <2>5, <3>1, <3>2 DEF Linked
  <2>7. out[1][2] = 1
    <3>1. B[1][2] = 1
      BY <2>2, <2>4, <2>5
    <3>. QED  BY Zenon, <2>1, <2>5, <3>1
  <2>8. wire # <<>> => Follows(wire[Len(wire)], out[1])
    BY Zenon, <2>1, <2>4, <2>7 DEF Continues, Follows
  <2>9. Whole(wire') /\ wire'[Len(wire')] = out[Len(out)]
    BY ZenonT(30), <1>0, <2>1, <2>4, <2>5, <2>6, <2>7, <2>8, FramesJoined
  <2>10. wire'[Len(wire')][2] = FrameSize
    BY Zenon, <2>1, <2>2, <2>4, <2>5, <2>9
  <2>. QED  BY <2>1, <2>9, <2>10 DEF Continues
<1>3. CASE WriteAll /\ UNCHANGED open
  <2>. DEFINE h == Head(pending)
  <2>1. PICK n \in offset + 1 .. FrameSize, out \in Seq(Places \X (1 .. FrameSize)) :
          /\ wire' = wire \o out /\ Len(out) = n - offset
          /\ \A k \in 1 .. n - offset : out[k] = <<h, offset + k>>
          /\ n = FrameSize => offset' = 0
          /\ n # FrameSize => pending' = pending /\ offset' = n
          /\ open /\ UNCHANGED short
    BY Zenon, <1>3, WriteAllAdds
  <2>. HIDE DEF h
  <2>2. SUFFICES ASSUME ~short PROVE Whole(wire') /\ Continues'
    BY <2>1 DEF Continues
  <2>3. /\ n - offset \in 1 .. n - offset /\ 1 \in 1 .. n - offset /\ offset + (n - offset) = n
        /\ DOMAIN out = 1 .. n - offset /\ out # <<>> /\ n # 0
    BY <1>0, <2>1
  <2>4. Linked(out)
    <3>1. ASSUME NEW k \in 1 .. n - offset, k > 1
          PROVE  k - 1 \in 1 .. n - offset /\ offset + k # 1 /\ offset + (k - 1) = (offset + k) - 1
      BY <1>0, <2>3, <3>1
    <3>2. ASSUME NEW a, NEW b, NEW c, c # 1, b = c - 1 PROVE Follows(<<a, b>>, <<a, c>>)
      BY <3>2 DEF Follows
    <3>3. ASSUME NEW k \in 1 .. n - offset, k > 1 PROVE Follows(out[k - 1], out[k])
      <4>1. out[k - 1] = <<h, offset + (k - 1)>> /\ out[k] = <<h, offset + k>>
        BY Zenon, <2>1, <3>1, <3>3
      <4>2. Follows(<<h, offset + (k - 1)>>, <<h, offset + k>>)
        BY Zenon, <3>1, <3>2, <3>3
      <4>. QED  BY Zenon, <4>1, <4>2
    <3>. QED  BY Zenon, <2>3, <3>3 DEF Linked
  <2>5. out[1] = <<h, offset + 1>>
    BY Zenon, <2>1, <2>3
  <2>6. IF wire = <<>> THEN out[1][2] = 1 ELSE Follows(wire[Len(wire)], out[1])
    <3>1. CASE offset = 0
      <4>1. out[1][2] = 1
        BY <2>5, <3>1
      <4>2. wire = <<>> \/ wire[Len(wire)][2] = FrameSize
        BY <2>1, <2>2, <3>1 DEF Continues
      <4>. QED  BY <4>1, <4>2 DEF Follows
    <3>2. CASE offset # 0
      <4>1. wire # <<>> /\ wire[Len(wire)] = <<h, offset>>
        BY Zenon, <2>1, <2>2, <3>2 DEF Continues, h
      <4>2. out[1][1] = h /\ out[1][2] # 1 /\ out[1][2] - 1 = offset
        BY <1>0, <2>5, <3>2
      <4>. QED  BY ZenonT(30), <4>1, <4>2 DEF Follows
    <3>. QED  BY Zenon, <3>1, <3>2
  <2>7. Whole(wire') /\ wire' # <<>> /\ wire'[Len(wire')] = out[Len(out)]
    BY ZenonT(30), <1>0, <2>1, <2>2, <2>3, <2>4, <2>6, FramesJoined
  <2>8. wire'[Len(wire')] = <<h, n>>
    BY Zenon, <2>1, <2>3, <2>7
  <2>9. CASE n = FrameSize
    <3>1. wire'[Len(wire')][2] = FrameSize
      BY <2>8, <2>9
    <3>. QED  BY Zenon, <2>1, <2>7, <2>9, <3>1 DEF Continues
  <2>10. CASE n # FrameSize
    BY Zenon, <2>1, <2>3, <2>7, <2>8, <2>10 DEF Continues, h
  <2>. QED  BY <2>9, <2>10
<1>4. CASE WriteToNobody /\ UNCHANGED open
  BY Zenon, <1>4 DEF WriteToNobody, Continues
<1>5. CASE (Collect \/ Flush \/ WriterEnds(SendersGone)) /\ UNCHANGED open
  BY Zenon, <1>1, <1>5 DEF Collect, Flush, WriterEnds, Shape
<1>6. CASE ClientSend \/ ClientGone \/ UNCHANGED vars
  <2>1. CASE ClientSend
    BY Zenon, <2>1, <1>1 DEF ClientSend, writerVars
  <2>2. CASE ClientGone
    BY Zenon, <2>2, <1>1 DEF ClientGone, writerVars
  <2>3. CASE UNCHANGED vars
    BY Zenon, <2>3, <1>1 DEF vars, writerVars
  <2>. QED  BY Zenon, <1>6, <2>1, <2>2, <2>3
<1>7. CASE ReaderStep
  BY ZenonT(30), <1>1, <1>7 DEF ReaderStep, ReadInline, SendInline, ReadGarbled, ReadQuery, Spawn, ReadEnd, readerFrame
<1>8. ASSUME NEW i \in Places, TaskStep(i) PROVE UNCHANGED <<wire, short, offset, open, pending>>
  BY Zenon, <1>8 DEF TaskStep, Execute, Panic, SetKeyspace, Reply, readerFrame
<1>. QED  BY Zenon, <1>1, <1>2, <1>3, <1>4, <1>5, <1>6, <1>7, <1>8 DEF Next, WriterStep

\* The client of either server receives whole frames, one after the other, as
\* long as no write_vectored was cut short: no byte of another response comes
\* between two bytes of one, and none is repeated or left out
THEOREM FramesAreWhole == Spec => []WholeFrames
<1>1. Init => Types /\ Shape /\ (~short => Whole(wire)) /\ Continues
  <2>1. Init => (~short => Whole(wire)) /\ Continues
    BY DEF Init, WriterInit, Whole, Linked, Continues
  <2>. QED  BY <2>1, TypesInit
<1>2. Types /\ Shape /\ (~short => Whole(wire)) /\ Continues /\ [Next]_vars =>
        Types' /\ Shape' /\ (~short => Whole(wire))' /\ Continues'
  BY TypesStep, ShapeStep, FramesStep
<1>3. Types /\ (~short => Whole(wire)) => WholeFrames
  <2>. SUFFICES ASSUME Types, Whole(wire), NEW k \in DOMAIN wire
                PROVE  IF wire[k][2] = 1 THEN k = 1 \/ wire[k - 1][2] = FrameSize
                       ELSE k > 1 /\ wire[k - 1] = <<wire[k][1], wire[k][2] - 1>>
    BY DEF WholeFrames
  <2>1. wire # <<>> /\ k \in Nat /\ (k = 1 \/ k > 1)
    BY DEF Types
  <2>. QED  BY Zenon, <2>1 DEF Whole, Linked, Follows
<1>. QED  BY <1>1, <1>2, <1>3, PTL DEF Spec
=============================================================================
