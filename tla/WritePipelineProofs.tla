------------------------ MODULE WritePipelineProofs ------------------------
(***************************************************************************)
(* Proofs about WritePipeline, for any engines, keys, routing and bounds:  *)
(* types and the order that the channels and batches of spawn_writer keep; *)
(* then what follows from them: what a caller finds once its ticket        *)
(* completed, what Drop for Storage leaves, and that the channels, batches *)
(* and threads implement OpLog.                                            *)
(***************************************************************************)
EXTENDS WritePipeline, WellFoundedInduction, TLAPS

\* Every operation Send builds is a WriteOp, whatever its kind
LEMMA SendsAreOps ==
  ASSUME TypeOK, Sends
  PROVE  \E e \in Engines, keys \in SUBSET Keys, val \in Cells : Send(e, keys, val)
<1>1. ASSUME NEW k \in Keys, NEW v \in Vals, SendPut(k, v)
      PROVE  \E e \in Engines, keys \in SUBSET Keys, val \in Cells : Send(e, keys, val)
  <2>1. EngineOf[k] \in Engines /\ {k} \in SUBSET Keys /\ v \in Cells
    BY ConstantsAssumption DEF Cells
  <2>. QED  BY <1>1, <2>1 DEF SendPut
<1>2. ASSUME NEW k \in Keys, SendDelete(k)
      PROVE  \E e \in Engines, keys \in SUBSET Keys, val \in Cells : Send(e, keys, val)
  <2>1. EngineOf[k] \in Engines /\ {k} \in SUBSET Keys /\ Absent \in Cells
    BY ConstantsAssumption DEF Cells
  <2>. QED  BY <1>2, <2>1 DEF SendDelete
<1>3. ASSUME NEW e \in Engines, NEW r \in Ranges, SendDeleteRange(e, r)
      PROVE  \E f \in Engines, keys \in SUBSET Keys, val \in Cells : Send(f, keys, val)
  <2>1. r \in SUBSET Keys /\ Absent \in Cells
    BY ConstantsAssumption DEF Cells
  <2>. QED  BY <1>3, <2>1 DEF SendDeleteRange
<1>. QED  BY <1>1, <1>2, <1>3 DEF Sends

\* The natural numbers are well-founded, as a relation the provers can use
Smaller == {p \in Nat \X Nat : p[1] < p[2]}

\* That relation is well-founded
LEMMA SmallerWellFounded == IsWellFoundedOn(Smaller, Nat)
<1>1. OpToRel(<, Nat) = Smaller
  BY DEF OpToRel, Smaller
<1>. QED  BY ZenonT(30), <1>1, NatLessThanWellFounded

\* A nonempty set of places has a last one, and Latest is it
LEMMA LatestIsLast ==
  ASSUME NEW n \in Nat, NEW W \in SUBSET (1 .. n), W # {}
  PROVE  Latest(W) \in W /\ \A j \in W : j <= Latest(W)
<1>. DEFINE T == {n - i : i \in W}
<1>1. T \subseteq Nat
  OBVIOUS
<1>2. T # {}
  <2>1. PICK i \in W : TRUE
    BY ZenonT(30)
  <2>2. n - i \in T
    OBVIOUS
  <2>. QED  BY <2>2
<1>3. PICK x \in T : \A y \in T : ~ (<<y, x>> \in Smaller)
  <2>. HIDE DEF T
  <2>. QED  BY ZenonT(30), <1>1, <1>2, SmallerWellFounded, WFMin
<1>4. PICK i \in W : x = n - i
  OBVIOUS
<1>5. ASSUME NEW j \in W PROVE j <= i
  <2>1. n - j \in T
    OBVIOUS
  <2>2. ~ (<<n - j, n - i>> \in Smaller)
    BY <2>1, <1>3, <1>4
  <2>. QED  BY <2>2 DEF Smaller
<1>. QED  BY ZenonT(30), <1>5 DEF Latest

\* write_opt leaves a cell at every key
LEMMA WrittenType ==
  ASSUME NEW d \in [Keys -> Cells], NEW b \in Seq(WriteOp)
  PROVE  Written(d, b) \in [Keys -> Cells]
<1>. SUFFICES ASSUME NEW k \in Keys, Touching(b, DOMAIN b, k) # {}
              PROVE  b[Latest(Touching(b, DOMAIN b, k))].val \in Cells
  BY DEF Written
<1>1. Touching(b, DOMAIN b, k) \in SUBSET (1 .. Len(b)) /\ Len(b) \in Nat
  BY DEF Touching
<1>2. Latest(Touching(b, DOMAIN b, k)) \in 1 .. Len(b)
  BY ZenonT(30), <1>1, LatestIsLast
<1>3. b[Latest(Touching(b, DOMAIN b, k))] \in WriteOp
  BY <1>2
<1>. QED  BY <1>3 DEF WriteOp

\* The channels, batches, engines and tickets of spawn_writer always have their
\* types, and the collector never builds a batch above MAX_BATCH_OPS
THEOREM TypeCorrect == Spec => []TypeOK
<1>1. Init => TypeOK
  BY ConstantsAssumption DEF Init, TypeOK, Cells
<1>2. TypeOK /\ [Next]_vars => TypeOK'
  <2>. SUFFICES ASSUME TypeOK, [Next]_vars PROVE TypeOK'
    OBVIOUS
  <2>1. ASSUME NEW e \in Engines, NEW keys \in SUBSET Keys, NEW val \in Cells,
               Send(e, keys, val)
        PROVE  TypeOK'
    <3>. DEFINE op == [n |-> Len(log[e]) + 1, keys |-> keys, val |-> val]
    <3>1. op \in WriteOp
      BY DEF TypeOK, WriteOp
    <3>2. Append(opsQ[e], op) \in Seq(WriteOp) /\ Append(log[e], op) \in Seq(WriteOp)
      <4>. HIDE DEF op
      <4>. QED  BY <3>1 DEF TypeOK
    <3>. QED  BY <2>1, <3>2 DEF TypeOK, Send
  <2>2. ASSUME NEW e \in Engines, Collect(e) PROVE TypeOK'
    <3>1. /\ Append(batch[e], Head(opsQ[e])) \in Seq(WriteOp)
          /\ Tail(opsQ[e]) \in Seq(WriteOp)
          /\ Len(Append(batch[e], Head(opsQ[e]))) <= MaxBatchOps
      BY <2>2, ConstantsAssumption DEF TypeOK, Collect
    <3>. QED  BY SMTT(30), <2>2, <3>1 DEF TypeOK, Collect, history
  <2>3. ASSUME NEW e \in Engines, HandOver(e) PROVE TypeOK'
    BY SMTT(30), <2>3, ConstantsAssumption DEF TypeOK, HandOver, history
  <2>4. ASSUME NEW e \in Engines, Commit(e) PROVE TypeOK'
    <3>1. /\ Head(commitQ[e]) \in Seq(WriteOp)
          /\ Tail(commitQ[e]) \in Seq(Seq(WriteOp))
      BY <2>4 DEF TypeOK, Commit, Receive
    <3>2. Written(db[e], Head(commitQ[e])) \in [Keys -> Cells]
      BY ZenonT(30), <3>1, WrittenType DEF TypeOK
    <3>3. applied[e] + Len(Head(commitQ[e])) \in Nat
      BY SMTT(30), <3>1 DEF TypeOK
    <3>. QED  BY ZenonT(30), <2>4, <3>1, <3>2, <3>3 DEF TypeOK, Commit, Receive
  <2>5. ASSUME NEW e \in Engines, CommitFail(e) PROVE TypeOK'
    <3>. DEFINE b == Head(commitQ[e])
                F == {b[i].n : i \in DOMAIN b}
    <3>1. commitQ[e] \in Seq(Seq(WriteOp)) /\ commitQ[e] # <<>> /\ lost[e] \in SUBSET Nat
      BY SMTT(30), <2>5 DEF TypeOK, CommitFail, Receive
    <3>2. b \in Seq(WriteOp)
      BY <3>1
    <3>3. \A i \in DOMAIN b : b[i].n \in Nat
      <4>1. \A i \in DOMAIN b : b[i] \in WriteOp
        BY <3>2
      <4>. QED  BY <4>1 DEF WriteOp
    <3>4. lost[e] \cup F \in SUBSET Nat /\ Tail(commitQ[e]) \in Seq(Seq(WriteOp))
      BY <3>1, <3>3
    <3>5. lost' = [lost EXCEPT ![e] = @ \cup F]
      BY <2>5 DEF CommitFail
    <3>6. applied[e] + Len(b) \in Nat
      BY <3>2 DEF TypeOK
    <3>. HIDE DEF F
    <3>. QED  BY ZenonT(30), <2>5, <3>2, <3>4, <3>5, <3>6 DEF TypeOK, CommitFail, Receive
  <2>6. ASSUME NEW e \in Engines, Complete(e) PROVE TypeOK'
    <3>1. Head(signal[e]) \in WriteOp /\ Tail(signal[e]) \in Seq(WriteOp)
      BY SMTT(30), <2>6 DEF TypeOK, Complete
    <3>2. completed[e] \cup {Head(signal[e]).n} \in SUBSET Nat
      BY <3>1 DEF TypeOK, WriteOp
    <3>. QED  BY ZenonT(30), <2>6, <3>1, <3>2 DEF TypeOK, Complete, history
  <2>7. ASSUME NEW e \in Engines, CollectorExit(e) \/ CommitterExit(e) PROVE TypeOK'
    BY ZenonT(30), <2>7 DEF TypeOK, CollectorExit, CommitterExit, queues, history
  <2>8. CASE DropSenders \/ Join
    BY <2>8 DEF TypeOK, DropSenders, Join, queues, history
  <2>9. CASE UNCHANGED vars
    BY <2>9 DEF TypeOK, vars, queues, history
  <2>. QED
    BY <2>1, <2>2, <2>3, <2>4, <2>5, <2>6, <2>7, <2>8, <2>9, SendsAreOps
    DEF Next, CollectorStep, CommitterStep
<1>. QED  BY <1>1, <1>2, PTL DEF Spec

-----------------------------------------------------------------------------
\* What the block l[a+1], ..., l[a + Len(s)] does when the log or the block
\* grows or loses its head
LEMMA BlockOfLongerLog ==
  ASSUME NEW s \in Seq(WriteOp), NEW l \in Seq(WriteOp), NEW a \in Nat,
         NEW x \in WriteOp, IsBlock(s, l, a)
  PROVE  IsBlock(s, Append(l, x), a)
  BY DEF IsBlock

\* The head of a queue that holds a block of the log is the next entry of the
\* log, and the rest is the block after it
LEMMA BlockTail ==
  ASSUME NEW s \in Seq(WriteOp), NEW l \in Seq(WriteOp), NEW a \in Nat, s # <<>>,
         IsBlock(s, l, a)
  PROVE  /\ Head(s) = l[a + 1] /\ Head(s) \in WriteOp
         /\ Tail(s) \in Seq(WriteOp) /\ Len(Tail(s)) = Len(s) - 1 /\ Len(s) > 0
         /\ IsBlock(Tail(s), l, a + 1)
  BY SMTT(30) DEF IsBlock

\* A block of the log extended by the next entry of the log is a block
LEMMA BlockAppend ==
  ASSUME NEW s \in Seq(WriteOp), NEW l \in Seq(WriteOp), NEW a \in Nat,
         NEW x \in WriteOp, IsBlock(s, l, a), a + Len(s) < Len(l),
         x = l[a + Len(s) + 1]
  PROVE  Len(Append(s, x)) = Len(s) + 1 /\ IsBlock(Append(s, x), l, a)
  BY SMTT(30) DEF IsBlock

\* The last operation of a block is the entry of the log at its end
LEMMA BlockLast ==
  ASSUME NEW s \in Seq(WriteOp), NEW l \in Seq(WriteOp), NEW a \in Nat, s # <<>>,
         IsBlock(s, l, a)
  PROVE  /\ Len(s) \in Nat \ {0} /\ a + Len(s) \in 1 .. Len(l)
         /\ s[Len(s)] = l[a + Len(s)]
  BY DEF IsBlock

\* How far a batch reaches depends on the batch only
LEMMA ReachOfBatch ==
  ASSUME NEW c, NEW d, NEW a, NEW b, NEW i \in Nat \ {0}, NEW j \in Nat \ {0}, c[i] = d[j]
  PROVE  Reach(c, a, i) = Reach(d, b, j)
<1>1. i # 0 /\ j # 0
  OBVIOUS
<1>. QED  BY <1>1, Zenon DEF Reach

\* Each batch in the channel ends where its block of the log does
LEMMA ReachIs ==
  ASSUME NEW l \in Seq(WriteOp), NEW c \in Seq(Seq(WriteOp)), NEW a \in Nat,
         Numbered(l),
         \A j \in 1 .. Len(c) : c[j] # <<>> /\ IsBlock(c[j], l, Reach(c, a, j - 1))
  PROVE  /\ \A j \in 0 .. Len(c) : Reach(c, a, j) \in Nat
         /\ \A j \in 1 .. Len(c) : Reach(c, a, j) = Reach(c, a, j - 1) + Len(c[j])
<1>1. ASSUME NEW j \in 1 .. Len(c)
      PROVE  c[j] \in Seq(WriteOp) /\ Len(c[j]) \in Nat \ {0}
  BY SMTT(30)
<1>2. ASSUME NEW j \in 1 .. Len(c)
      PROVE  Reach(c, a, j) \in Nat
  <2>1. c[j][Len(c[j])] \in WriteOp
    BY <1>1
  <2>. QED  BY <2>1 DEF Reach, WriteOp
<1>3. \A j \in 0 .. Len(c) : Reach(c, a, j) \in Nat
  BY <1>2 DEF Reach
<1>4. ASSUME NEW j \in 1 .. Len(c)
      PROVE  Reach(c, a, j) = Reach(c, a, j - 1) + Len(c[j])
  <2>0. j - 1 \in 0 .. Len(c)
    OBVIOUS
  <2>1. PICK m \in Nat : m = Reach(c, a, j - 1)
    BY ZenonT(30), <1>3, <2>0
  <2>2. PICK b \in Seq(WriteOp) : b = c[j] /\ Len(b) \in Nat \ {0}
    BY <1>1
  <2>3. IsBlock(b, l, m)
    BY <2>1, <2>2
  <2>4. m + Len(b) \in 1 .. Len(l) /\ b[Len(b)] = l[m + Len(b)]
    BY SMTT(30), <2>2, <2>3, BlockLast
  <2>5. Reach(c, a, j) = b[Len(b)].n
    BY <2>2 DEF Reach
  <2>6. b[Len(b)].n = m + Len(b)
    BY SMTT(30), <2>4 DEF Numbered
  <2>. QED  BY <2>1, <2>2, <2>5, <2>6
<1>. QED  BY SMTT(30), <1>3, <1>4

-----------------------------------------------------------------------------
\* tx.send adds the operation at the end of the log and of the channel
LEMMA SendOrder ==
  ASSUME NEW l \in Seq(WriteOp), NEW q \in Seq(WriteOp), NEW b \in Seq(WriteOp),
         NEW c \in Seq(Seq(WriteOp)), NEW a \in Nat, NEW m \in Nat, NEW h \in Nat,
         QueuesInOrder(l, q, b, c, a, m, h),
         NEW op \in WriteOp, Numbered(Append(l, op))
  PROVE  QueuesInOrder(Append(l, op), Append(q, op), b, c, a, m, h)
<1>0. Append(l, op) \in Seq(WriteOp)
  OBVIOUS
<1>1. PICK L \in Seq(WriteOp) : L = Append(l, op)
  BY ZenonT(30), <1>0
<1>2. /\ Len(L) = Len(l) + 1 /\ L[Len(l) + 1] = op
      /\ \A i \in 1 .. Len(l) : L[i] = l[i]
  BY <1>1
<1>3. Len(l) = m + Len(q) /\ Len(Append(q, op)) = Len(q) + 1
  BY DEF QueuesInOrder
<1>4. Numbered(L)
  BY <1>1
<1>5. IsBlock(q, L, m) /\ IsBlock(b, L, h)
  BY SMTT(30), <1>1, BlockOfLongerLog DEF QueuesInOrder
<1>6. IsBlock(Append(q, op), L, m)
  <2>1. m + Len(q) < Len(L) /\ op = L[m + Len(q) + 1]
    BY <1>2, <1>3
  <2>. QED  BY <1>5, <2>1, BlockAppend
<1>7. ASSUME NEW j \in 1 .. Len(c)
      PROVE  c[j] # <<>> /\ IsBlock(c[j], L, Reach(c, a, j - 1))
  <2>1. c[j] \in Seq(WriteOp) /\ c[j] # <<>> /\ IsBlock(c[j], l, Reach(c, a, j - 1))
    BY SMTT(30) DEF QueuesInOrder
  <2>2. Reach(c, a, j - 1) \in Nat
    <3>1. j - 1 \in 0 .. Len(c)
      OBVIOUS
    <3>. QED  BY ZenonT(30), <3>1, ReachIs DEF QueuesInOrder
  <2>. QED  BY SMTT(30), <1>1, <2>1, <2>2, BlockOfLongerLog
<1>. QED
  <2>1. QueuesInOrder(L, Append(q, op), b, c, a, m, h)
    BY <1>2, <1>3, <1>4, <1>5, <1>6, <1>7 DEF QueuesInOrder
  <2>. QED  BY <1>1, <2>1

\* A send to the channel leaves the tickets in order
LEMMA SendTickets ==
  ASSUME NEW l \in Seq(WriteOp), NEW s \in Seq(WriteOp), NEW a \in Nat, NEW done, NEW x,
         NEW p \in Nat, TicketsInOrder(l, s, a, done, x, p), NEW op \in WriteOp
  PROVE  TicketsInOrder(Append(l, op), s, a, done, x, p)
  BY BlockOfLongerLog DEF TicketsInOrder

\* The collector moves the head of the channel to the end of its batch
LEMMA CollectOrder ==
  ASSUME NEW l \in Seq(WriteOp), NEW q \in Seq(WriteOp), NEW b \in Seq(WriteOp),
         NEW c \in Seq(Seq(WriteOp)), NEW a \in Nat, NEW m \in Nat, NEW h \in Nat,
         QueuesInOrder(l, q, b, c, a, m, h), q # <<>>
  PROVE  /\ QueuesInOrder(l, Tail(q), Append(b, Head(q)), c, a, m + 1, h)
         /\ m + 1 <= Len(l)
<1>1. IsBlock(q, l, m) /\ IsBlock(b, l, h) /\ Len(l) = m + Len(q) /\ m = h + Len(b)
  BY DEF QueuesInOrder
<1>2. /\ Head(q) = l[m + 1] /\ Head(q) \in WriteOp
      /\ Len(Tail(q)) = Len(q) - 1 /\ Len(q) > 0 /\ IsBlock(Tail(q), l, m + 1)
  BY <1>1, BlockTail
<1>3. h + Len(b) < Len(l) /\ Head(q) = l[h + Len(b) + 1]
  BY <1>1, <1>2
<1>4. Len(Append(b, Head(q))) = Len(b) + 1 /\ IsBlock(Append(b, Head(q)), l, h)
  BY ZenonT(30), <1>1, <1>2, <1>3, BlockAppend
<1>5. Len(l) = (m + 1) + Len(Tail(q)) /\ m + 1 = h + Len(Append(b, Head(q)))
  BY <1>1, <1>2, <1>4
<1>. QED  BY <1>1, <1>2, <1>3, <1>4, <1>5 DEF QueuesInOrder

\* The batch becomes the last of the batch channel
LEMMA HandOverOrder ==
  ASSUME NEW l \in Seq(WriteOp), NEW q \in Seq(WriteOp), NEW b \in Seq(WriteOp),
         NEW c \in Seq(Seq(WriteOp)), NEW a \in Nat, NEW m \in Nat, NEW h \in Nat,
         QueuesInOrder(l, q, b, c, a, m, h), b # <<>>
  PROVE  QueuesInOrder(l, q, <<>>, Append(c, b), a, m, m)
<1>0. Append(c, b) \in Seq(Seq(WriteOp))
  OBVIOUS
<1>1. PICK C \in Seq(Seq(WriteOp)) : C = Append(c, b)
  BY ZenonT(30), <1>0
<1>2. /\ Len(C) = Len(c) + 1 /\ C[Len(c) + 1] = b
      /\ \A j \in 1 .. Len(c) : C[j] = c[j]
  BY <1>1
<1>3. \A j \in 0 .. Len(c) : Reach(C, a, j) = Reach(c, a, j)
  <2>1. ASSUME NEW j \in 1 .. Len(c) PROVE Reach(C, a, j) = Reach(c, a, j)
    BY SMTT(30), <1>2, ReachOfBatch
  <2>2. Reach(C, a, 0) = Reach(c, a, 0)
    BY DEF Reach
  <2>. QED  BY <2>1, <2>2
<1>4. IsBlock(b, l, h) /\ m = h + Len(b) /\ Numbered(l) /\ Reach(c, a, Len(c)) = h
  BY DEF QueuesInOrder
<1>5. Reach(C, a, Len(C)) = m
  <2>1. h + Len(b) \in 1 .. Len(l) /\ b[Len(b)] = l[h + Len(b)]
    BY SMTT(30), <1>4, BlockLast
  <2>2. b[Len(b)].n = m
    BY SMTT(30), <2>1, <1>4 DEF Numbered
  <2>. QED  BY <1>2, <2>2 DEF Reach
<1>6. ASSUME NEW j \in 1 .. Len(C)
      PROVE  C[j] # <<>> /\ IsBlock(C[j], l, Reach(C, a, j - 1))
  <2>0. j - 1 \in 0 .. Len(c)
    BY <1>2
  <2>1. CASE j \in 1 .. Len(c)
    BY ZenonT(30), <2>0, <2>1, <1>2, <1>3 DEF QueuesInOrder
  <2>2. CASE j = Len(c) + 1
    <3>1. j - 1 = Len(c) /\ Reach(C, a, Len(c)) = h
      BY <2>2, <1>3, <1>4
    <3>. QED  BY <3>1, <2>2, <1>2, <1>4
  <2>. QED  BY <2>1, <2>2, <1>2
<1>7. IsBlock(<<>>, l, m) /\ m = m + Len(<<>>)
  <2>1. m <= Len(l)
    BY DEF QueuesInOrder
  <2>. QED  BY <2>1 DEF IsBlock
<1>. QED
  <2>1. QueuesInOrder(l, q, <<>>, C, a, m, m)
    BY <1>5, <1>6, <1>7 DEF QueuesInOrder
  <2>. QED  BY <1>1, <2>1

\* The committer takes the first batch: it is the block after the first a
LEMMA ReceiveOrder ==
  ASSUME NEW l \in Seq(WriteOp), NEW q \in Seq(WriteOp), NEW b \in Seq(WriteOp),
         NEW c \in Seq(Seq(WriteOp)), NEW a \in Nat, NEW m \in Nat, NEW h \in Nat,
         QueuesInOrder(l, q, b, c, a, m, h), c # <<>>
  PROVE  /\ Head(c) # <<>> /\ IsBlock(Head(c), l, a)
         /\ QueuesInOrder(l, q, b, Tail(c), a + Len(Head(c)), m, h)
<1>0. /\ Head(c) = c[1] /\ c[1] \in Seq(WriteOp) /\ Tail(c) \in Seq(Seq(WriteOp))
      /\ Len(c) \in Nat \ {0}
  OBVIOUS
<1>1. PICK C \in Seq(Seq(WriteOp)) : C = Tail(c)
  BY ZenonT(30), <1>0
<1>2. Len(C) = Len(c) - 1 /\ \A j \in 1 .. Len(C) : C[j] = c[j + 1]
  BY <1>1
<1>3. /\ \A j \in 1 .. Len(c) : c[j] # <<>> /\ IsBlock(c[j], l, Reach(c, a, j - 1))
      /\ Numbered(l)
  BY SMTT(30) DEF QueuesInOrder
<1>4. c[1] # <<>> /\ IsBlock(c[1], l, a)
  <2>1. Reach(c, a, 1 - 1) = a /\ 1 \in 1 .. Len(c)
    BY <1>0 DEF Reach
  <2>. QED  BY SMTT(30), <2>1, <1>3
<1>5. PICK A \in Nat : A = a + Len(c[1])
  BY SMTT(30), <1>0
<1>6. Reach(c, a, 1) = A
  <2>1. Reach(c, a, 1 - 1) = a /\ 1 \in 1 .. Len(c)
    BY SMTT(30), <1>0 DEF Reach
  <2>2. Reach(c, a, 1) = Reach(c, a, 1 - 1) + Len(c[1])
    BY ZenonT(30), <2>1, <1>3, ReachIs
  <2>. QED  BY <2>1, <2>2, <1>5
<1>7. \A j \in 0 .. Len(C) : Reach(C, A, j) = Reach(c, a, j + 1)
  <2>1. ASSUME NEW j \in 1 .. Len(C) PROVE Reach(C, A, j) = Reach(c, a, j + 1)
    <3>1. C[j] = c[j + 1]
      BY <1>2
    <3>2. j \in Nat \ {0} /\ j + 1 \in Nat \ {0}
      BY SMTT(30)
    <3>. QED  BY <3>1, <3>2, ReachOfBatch
  <2>2. Reach(C, A, 0) = Reach(c, a, 0 + 1)
    BY SMTT(30), <1>6 DEF Reach
  <2>. QED  BY <2>1, <2>2
<1>8. ASSUME NEW j \in 1 .. Len(C)
      PROVE  C[j] # <<>> /\ IsBlock(C[j], l, Reach(C, A, j - 1))
  <2>1. j - 1 \in 0 .. Len(C) /\ j + 1 \in 1 .. Len(c) /\ (j - 1) + 1 = (j + 1) - 1
    BY <1>2
  <2>2. Reach(C, A, j - 1) = Reach(c, a, (j + 1) - 1)
    BY <2>1, <1>7
  <2>. QED  BY ZenonT(30), <2>1, <2>2, <1>2, <1>3
<1>9. Reach(C, A, Len(C)) = h
  <2>1. Len(C) \in 0 .. Len(C) /\ Len(C) + 1 = Len(c)
    BY <1>0, <1>2
  <2>. QED  BY ZenonT(30), <2>1, <1>7 DEF QueuesInOrder
<1>. QED
  <2>1. QueuesInOrder(l, q, b, C, A, m, h)
    BY <1>8, <1>9 DEF QueuesInOrder
  <2>. QED  BY <2>1, <1>0, <1>1, <1>4, <1>5

\* The operations of a block of the log bear the places of the block
LEMMA BlockPlaces ==
  ASSUME NEW s \in Seq(WriteOp), NEW l \in Seq(WriteOp), NEW a \in Nat,
         IsBlock(s, l, a), Numbered(l)
  PROVE  {s[i].n : i \in DOMAIN s} = a + 1 .. a + Len(s)
<1>1. \A i \in 1 .. Len(s) : a + i \in 1 .. Len(l) /\ s[i] = l[a + i]
  <2>. HIDE DEF Numbered
  <2>. QED  BY DEF IsBlock
<1>2. \A i \in 1 .. Len(s) : s[i].n = a + i
  BY ZenonT(30), <1>1 DEF Numbered
<1>3. DOMAIN s = 1 .. Len(s) /\ Len(s) \in Nat
  OBVIOUS
<1>4. ASSUME NEW k \in a + 1 .. a + Len(s) PROVE \E i \in DOMAIN s : s[i].n = k
  <2>1. k - a \in 1 .. Len(s) /\ a + (k - a) = k
    BY <1>3
  <2>. QED  BY ZenonT(30), <2>1, <1>2, <1>3
<1>. QED  BY SMTT(30), <1>2, <1>3, <1>4

\* write_opt: the batch's tickets are the next ones to complete
LEMMA ReceiveTickets ==
  ASSUME NEW l \in Seq(WriteOp), NEW b \in Seq(WriteOp), NEW a \in Nat, NEW done, NEW x,
         NEW p \in Nat, TicketsInOrder(l, <<>>, a, done, x, p), IsBlock(b, l, a),
         NEW y, y \subseteq 1 .. a + Len(b)
  PROVE  TicketsInOrder(l, b, a + Len(b), done, x \cup y, a)
<1>1. a = p /\ done = 1 .. a /\ x \subseteq 1 .. a
  BY DEF TicketsInOrder
<1>2. x \cup y \subseteq 1 .. a + Len(b)
  BY <1>1
<1>. QED  BY <1>1, <1>2 DEF TicketsInOrder

\* drop(done) completes the tickets in the order of the log
LEMMA CompleteTickets ==
  ASSUME NEW l \in Seq(WriteOp), NEW s \in Seq(WriteOp), NEW a \in Nat, NEW done, NEW x,
         NEW p \in Nat, TicketsInOrder(l, s, a, done, x, p), s # <<>>, Numbered(l)
  PROVE  /\ TicketsInOrder(l, Tail(s), a, done \cup {Head(s).n}, x, p + 1)
         /\ p + 1 <= a
<1>1. a = p + Len(s) /\ IsBlock(s, l, p) /\ done = 1 .. p /\ x \subseteq 1 .. a
  BY DEF TicketsInOrder
<1>2. /\ Head(s) = l[p + 1] /\ Len(Tail(s)) = Len(s) - 1 /\ Len(s) > 0
      /\ IsBlock(Tail(s), l, p + 1)
  BY SMTT(30), <1>1, BlockTail
<1>3. p + 1 \in 1 .. Len(l)
  BY <1>1, <1>2 DEF IsBlock
<1>4. Head(s).n = p + 1
  BY <1>2, <1>3 DEF Numbered
<1>5. done \cup {Head(s).n} = 1 .. p + 1
  BY <1>1, <1>4
<1>6. a = (p + 1) + Len(Tail(s)) /\ p + 1 <= a
  BY <1>1, <1>2
<1>. QED  BY <1>1, <1>2, <1>5, <1>6 DEF TicketsInOrder

-----------------------------------------------------------------------------
\* The values of an engine's variables, and the operations of a step on them
LEMMA EngineTypes ==
  ASSUME TypeOK, NEW e \in Engines
  PROVE  /\ log[e] \in Seq(WriteOp) /\ opsQ[e] \in Seq(WriteOp)
         /\ batch[e] \in Seq(WriteOp) /\ signal[e] \in Seq(WriteOp)
         /\ commitQ[e] \in Seq(Seq(WriteOp)) /\ applied[e] \in Nat
  BY SMTT(30) DEF TypeOK

\* A step that changes nothing of an engine keeps its order
LEMMA OrderFrame ==
  ASSUME NEW f \in Engines, InOrder(f),
         log'[f] = log[f], opsQ'[f] = opsQ[f], batch'[f] = batch[f],
         commitQ'[f] = commitQ[f], signal'[f] = signal[f],
         completed'[f] = completed[f], applied'[f] = applied[f], lost'[f] = lost[f]
  PROVE  InOrder(f)'
  BY SMTT(30) DEF InOrder

\* Every step preserves the order of every engine
LEMMA OrderStep == TypeOK /\ PipelineOrder /\ [Next]_vars => PipelineOrder'
<1>. SUFFICES ASSUME TypeOK, PipelineOrder, [Next]_vars, NEW f \in Engines
              PROVE  InOrder(f)'
  BY DEF PipelineOrder
<1>. InOrder(f)
  BY DEF PipelineOrder
<1>. /\ log[f] \in Seq(WriteOp) /\ opsQ[f] \in Seq(WriteOp)
     /\ batch[f] \in Seq(WriteOp) /\ signal[f] \in Seq(WriteOp)
     /\ commitQ[f] \in Seq(Seq(WriteOp)) /\ applied[f] \in Nat
  BY EngineTypes
<1>1. PICK m \in 0 .. Len(log[f]), h \in 0 .. Len(log[f]) :
        QueuesInOrder(log[f], opsQ[f], batch[f], commitQ[f], applied[f], m, h)
  BY SMTT(30) DEF InOrder
<1>2. PICK p \in 0 .. applied[f] :
        TicketsInOrder(log[f], signal[f], applied[f], completed[f], lost[f], p)
  BY DEF InOrder
<1>3. m \in Nat /\ h \in Nat /\ p \in Nat
  BY SMTT(30)
<1>4. Numbered(log[f])
  BY SMTT(30), <1>1 DEF QueuesInOrder
<1>5. ASSUME NEW keys \in SUBSET Keys, NEW val \in Cells, Send(f, keys, val)
      PROVE  InOrder(f)'
  <2>. DEFINE op == [n |-> Len(log[f]) + 1, keys |-> keys, val |-> val]
  <2>1. op \in WriteOp /\ op.n = Len(log[f]) + 1
    BY SMTT(30) DEF WriteOp
  <2>2. /\ log'[f] = Append(log[f], op) /\ opsQ'[f] = Append(opsQ[f], op)
        /\ UNCHANGED <<batch, commitQ, signal, completed, applied, lost>>
    BY SMTT(30), <1>5 DEF Send, TypeOK
  <2>. HIDE DEF op
  <2>3. Numbered(log'[f]) /\ Len(log'[f]) = Len(log[f]) + 1
    <3>. DEFINE s == log[f]
    <3>a. s \in Seq(WriteOp)
      OBVIOUS
    <3>b. Numbered(s) /\ op.n = Len(s) + 1 /\ log'[f] = Append(s, op)
      BY Zenon, <1>4, <2>1, <2>2
    <3>. HIDE DEF s
    <3>1. /\ Len(Append(s, op)) = Len(s) + 1 /\ Append(s, op)[Len(s) + 1] = op
          /\ \A i \in 1 .. Len(s) : Append(s, op)[i] = s[i]
      BY <2>1, <3>a
    <3>2. Numbered(Append(s, op))
      BY <3>a, <3>b, <3>1 DEF Numbered
    <3>. QED  BY Zenon, <3>b, <3>1, <3>2 DEF s
  <2>4. QueuesInOrder(log'[f], opsQ'[f], batch'[f], commitQ'[f], applied'[f], m, h)
    <3>1. op \in WriteOp /\ Numbered(Append(log[f], op))
      BY SMTT(30), <2>1, <2>2, <2>3
    <3>2. QueuesInOrder(Append(log[f], op), Append(opsQ[f], op), batch[f], commitQ[f],
                        applied[f], m, h)
      BY ZenonT(30), <1>1, <1>3, <3>1, SendOrder
    <3>. QED  BY SMTT(30), <2>2, <3>2
  <2>5. TicketsInOrder(log'[f], signal'[f], applied'[f], completed'[f], lost'[f], p)
    BY SMTT(30), <1>2, <1>3, <2>1, <2>2, SendTickets
  <2>6. m \in 0 .. Len(log'[f]) /\ h \in 0 .. Len(log'[f]) /\ p \in 0 .. applied'[f]
    BY SMTT(30), <2>2, <2>3
  <2>. QED  BY Zenon, <2>4, <2>5, <2>6 DEF InOrder
<1>6. CASE Collect(f)
  <2>1. /\ batch'[f] = Append(batch[f], Head(opsQ[f])) /\ opsQ'[f] = Tail(opsQ[f])
        /\ opsQ[f] # <<>> /\ UNCHANGED <<log, commitQ, signal, completed, applied, lost>>
    BY SMTT(30), <1>6 DEF Collect, TypeOK, history
  <2>0. opsQ[f] # <<>>
    BY <2>1
  <2>2. /\ QueuesInOrder(log[f], Tail(opsQ[f]), Append(batch[f], Head(opsQ[f])),
                         commitQ[f], applied[f], m + 1, h)
        /\ m + 1 <= Len(log[f])
    BY ZenonT(30), <1>1, <1>3, <2>0, CollectOrder
  <2>3. m + 1 \in 0 .. Len(log'[f])
    BY SMTT(30), <1>3, <2>1, <2>2
  <2>4. QueuesInOrder(log'[f], opsQ'[f], batch'[f], commitQ'[f], applied'[f], m + 1, h)
    BY SMTT(30), <2>1, <2>2
  <2>. QED  BY ZenonT(30), <1>2, <2>1, <2>3, <2>4 DEF InOrder
<1>7. CASE HandOver(f)
  <2>1. /\ batch'[f] = <<>> /\ commitQ'[f] = Append(commitQ[f], batch[f])
        /\ batch[f] # <<>> /\ UNCHANGED <<log, opsQ, signal, completed, applied, lost>>
    BY SMTT(30), <1>7 DEF HandOver, TypeOK, history
  <2>2. QueuesInOrder(log'[f], opsQ'[f], batch'[f], commitQ'[f], applied'[f], m, m)
    BY ZenonT(30), <1>1, <1>3, <2>1, HandOverOrder
  <2>. QED  BY SMTT(30), <1>2, <2>1, <2>2 DEF InOrder
<1>8. ASSUME Receive(f), NEW y, lost'[f] = lost[f] \cup y,
             y \subseteq 1 .. applied[f] + Len(Head(commitQ[f]))
      PROVE  InOrder(f)'
  <2>. DEFINE b == Head(commitQ[f])
  <2>1. /\ commitQ'[f] = Tail(commitQ[f]) /\ signal'[f] = b /\ signal[f] = <<>>
        /\ applied'[f] = applied[f] + Len(b) /\ commitQ[f] # <<>>
        /\ UNCHANGED <<log, opsQ, batch, completed>>
    BY SMTT(30), <1>8 DEF Receive, TypeOK
  <2>2. b \in Seq(WriteOp)
    BY SMTT(30), <2>1
  <2>0. commitQ[f] # <<>> /\ signal[f] = <<>>
    BY SMTT(30), <2>1
  <2>3. /\ IsBlock(Head(commitQ[f]), log[f], applied[f])
        /\ QueuesInOrder(log[f], opsQ[f], batch[f], Tail(commitQ[f]),
                         applied[f] + Len(Head(commitQ[f])), m, h)
    BY ZenonT(30), <1>1, <1>3, <2>0, ReceiveOrder
  <2>4. TicketsInOrder(log'[f], signal'[f], applied'[f], completed'[f], lost'[f], applied[f])
    <3>1. TicketsInOrder(log[f], <<>>, applied[f], completed[f], lost[f], p)
      BY SMTT(30), <1>2, <2>0
    <3>2. y \subseteq 1 .. applied[f] + Len(b) /\ IsBlock(b, log[f], applied[f])
      BY <1>8, <2>3
    <3>3. TicketsInOrder(log[f], b, applied[f] + Len(b), completed[f], lost[f] \cup y,
                         applied[f])
      <4>. HIDE DEF b
      <4>. QED  BY ZenonT(30), <1>3, <2>2, <3>1, <3>2, ReceiveTickets
    <3>. QED  BY SMTT(30), <1>8, <2>1, <3>3
  <2>6. QueuesInOrder(log'[f], opsQ'[f], batch'[f], commitQ'[f], applied'[f], m, h)
    BY SMTT(30), <2>1, <2>3
  <2>5. applied[f] \in 0 .. applied'[f]
    BY SMTT(30), <2>1, <2>2
  <2>. QED  BY SMTT(30), <2>1, <2>4, <2>5, <2>6 DEF InOrder
<1>9. CASE Commit(f)
  <2>1. lost'[f] = lost[f] \cup {}
    BY <1>9 DEF Commit
  <2>. QED  BY ZenonT(30), <1>8, <1>9, <2>1 DEF Commit
<1>10. CASE CommitFail(f)
  <2>. DEFINE b == Head(commitQ[f])
              y == {b[i].n : i \in DOMAIN b}
  <2>1. commitQ[f] # <<>> /\ Receive(f) /\ lost'[f] = lost[f] \cup y
    BY SMTT(30), <1>10 DEF CommitFail, Receive, TypeOK
  <2>0. commitQ[f] # <<>>
    BY SMTT(30), <2>1
  <2>2. b \in Seq(WriteOp) /\ IsBlock(b, log[f], applied[f])
    <3>1. Head(commitQ[f]) \in Seq(WriteOp)
      BY SMTT(30), <2>0
    <3>2. IsBlock(Head(commitQ[f]), log[f], applied[f])
      BY ZenonT(30), <1>1, <1>3, <2>0, ReceiveOrder
    <3>. QED  BY SMTT(30), <3>1, <3>2
  <2>3. y = applied[f] + 1 .. applied[f] + Len(b)
    BY ZenonT(30), <1>4, <2>2, BlockPlaces
  <2>4. y \subseteq 1 .. applied[f] + Len(b)
    <3>. HIDE DEF y
    <3>. QED  BY SMTT(30), <2>2, <2>3
  <2>. QED  BY ZenonT(30), <1>8, <2>1, <2>4
<1>11. CASE Complete(f)
  <2>1. /\ completed'[f] = completed[f] \cup {Head(signal[f]).n}
        /\ signal'[f] = Tail(signal[f]) /\ signal[f] # <<>>
        /\ UNCHANGED <<log, opsQ, batch, commitQ, applied, lost>>
    BY SMTT(30), <1>11 DEF Complete, TypeOK, history
  <2>0. signal[f] # <<>>
    BY <2>1
  <2>2. /\ TicketsInOrder(log[f], Tail(signal[f]), applied[f],
                          completed[f] \cup {Head(signal[f]).n}, lost[f], p + 1)
        /\ p + 1 <= applied[f]
    BY ZenonT(30), <1>2, <1>3, <1>4, <2>0, CompleteTickets
  <2>3. p + 1 \in 0 .. applied'[f]
    BY SMTT(30), <1>3, <2>1, <2>2
  <2>4. TicketsInOrder(log'[f], signal'[f], applied'[f], completed'[f], lost'[f], p + 1)
    BY SMTT(30), <2>1, <2>2
  <2>5. /\ m \in 0 .. Len(log'[f]) /\ h \in 0 .. Len(log'[f])
        /\ QueuesInOrder(log'[f], opsQ'[f], batch'[f], commitQ'[f], applied'[f], m, h)
    BY Zenon, <1>1, <2>1
  <2>. QED  BY Zenon, <2>3, <2>4, <2>5 DEF InOrder
<1>12. ASSUME NEW e \in Engines, e # f,
              \/ \E keys \in SUBSET Keys, val \in Cells : Send(e, keys, val)
              \/ Collect(e) \/ HandOver(e) \/ Commit(e) \/ CommitFail(e) \/ Complete(e)
       PROVE  InOrder(f)'
  <2>1. /\ log'[f] = log[f] /\ opsQ'[f] = opsQ[f] /\ batch'[f] = batch[f]
        /\ commitQ'[f] = commitQ[f] /\ signal'[f] = signal[f]
        /\ completed'[f] = completed[f] /\ applied'[f] = applied[f] /\ lost'[f] = lost[f]
    BY ZenonT(30), <1>12
    DEF TypeOK, Send, Collect, HandOver, Receive, Commit, CommitFail, Complete, history
  <2>. QED  BY <2>1, OrderFrame
<1>13. ASSUME \/ \E e \in Engines : CollectorExit(e) \/ CommitterExit(e)
              \/ DropSenders \/ Join \/ UNCHANGED vars
       PROVE  InOrder(f)'
  <2>1. UNCHANGED <<queues, completed, history>>
    BY SMTT(30), <1>13 DEF CollectorExit, CommitterExit, DropSenders, Join, vars
  <2>. QED  BY ZenonT(30), <2>1, OrderFrame DEF queues, history
<1>. QED
  BY SMTT(30), <1>5, <1>6, <1>7, <1>9, <1>10, <1>11, <1>12, <1>13, SendsAreOps
  DEF Next, CollectorStep, CommitterStep

\* Nothing was sent yet
LEMMA OrderInit == Init => PipelineOrder
<1>. SUFFICES ASSUME Init, NEW e \in Engines PROVE InOrder(e)
  BY ZenonT(30) DEF PipelineOrder
<1>1. /\ log[e] = <<>> /\ opsQ[e] = <<>> /\ batch[e] = <<>> /\ commitQ[e] = <<>>
      /\ signal[e] = <<>> /\ completed[e] = {} /\ applied[e] = 0 /\ lost[e] = {}
  BY DEF Init
<1>2. QueuesInOrder(<<>>, <<>>, <<>>, <<>>, 0, 0, 0)
  BY DEF QueuesInOrder, Numbered, IsBlock, Reach
<1>3. TicketsInOrder(<<>>, <<>>, 0, {}, {}, 0)
  BY DEF TicketsInOrder, IsBlock
<1>4. 0 \in 0 .. Len(<<>>) /\ 0 \in 0 .. 0
  OBVIOUS
<1>. QED  BY SMTT(30), <1>1, <1>2, <1>3, <1>4 DEF InOrder

\* spawn_writer never reorders, duplicates or drops an operation between its
\* channels, and completes tickets in the order the engine was sent them
THEOREM PipelineOrdered == Spec => []PipelineOrder
<1>1. Spec => []TypeOK
  BY TypeCorrect
<1>. QED  BY <1>1, OrderInit, OrderStep, PTL DEF Spec

-----------------------------------------------------------------------------
\* Latest is the place that no other exceeds
LEMMA LatestIs ==
  ASSUME NEW W \in SUBSET Nat, NEW i \in W, \A j \in W : j <= i
  PROVE  Latest(W) = i
<1>1. Latest(W) \in W /\ \A j \in W : j <= Latest(W)
  BY ZenonT(30) DEF Latest
<1>2. Latest(W) \in Nat
  BY ZenonT(30), <1>1
<1>3. PICK t \in Nat : t = Latest(W)
  BY <1>2
<1>4. i \in Nat /\ t <= i /\ i <= t
  BY <1>1, <1>3
<1>. QED  BY <1>3, <1>4

\* What OpLog shows of a key, in terms of the places that touch it
LEMMA ShownIs ==
  ASSUME NEW s, NEW I, NEW k
  PROVE  Promise!Shown(s, I, k) = IF Touching(s, I, k) = {} THEN Absent
                                  ELSE s[Latest(Touching(s, I, k))].val
  BY DEF Promise!Shown, Touching, Latest

\* A longer log shows the same at its first places
LEMMA ShownOfLongerLog ==
  ASSUME NEW l \in Seq(WriteOp), NEW op \in WriteOp, NEW I \in SUBSET (1 .. Len(l)), NEW k
  PROVE  Promise!Shown(Append(l, op), I, k) = Promise!Shown(l, I, k)
<1>. DEFINE L == Append(l, op)
<1>1. \A i \in 1 .. Len(l) : L[i] = l[i]
  OBVIOUS
<1>. HIDE DEF L
<1>2. Touching(L, I, k) = Touching(l, I, k) /\ Touching(l, I, k) \subseteq 1 .. Len(l)
  BY ZenonT(30), <1>1 DEF Touching
<1>3. CASE Touching(l, I, k) = {}
  BY <1>2, <1>3, ShownIs DEF L
<1>4. CASE Touching(l, I, k) # {}
  <2>1. Latest(Touching(l, I, k)) \in 1 .. Len(l)
    <3>1. Touching(l, I, k) \in SUBSET (1 .. Len(l)) /\ Len(l) \in Nat
      BY <1>2
    <3>2. Latest(Touching(l, I, k)) \in Touching(l, I, k)
      BY ZenonT(30), <3>1, <1>4, LatestIsLast
    <3>. QED  BY <1>2, <3>2
  <2>. QED  BY ZenonT(30), <1>1, <1>2, <1>4, <2>1, ShownIs DEF L
<1>. QED  BY <1>3, <1>4

\* Of the first a places those that did not fail (x)
Effective(a, x) == (1 .. a) \ x

\* The contents d show at k what the operations at I do
Reflects(d, l, I, k) == d[k] = Promise!Shown(l, I, k)

\* write_opt of the next block of the log leaves what the longer prefix shows
LEMMA WrittenShown ==
  ASSUME NEW l \in Seq(WriteOp), NEW a \in Nat, NEW x \in SUBSET (1 .. a),
         NEW b \in Seq(WriteOp), IsBlock(b, l, a), NEW k \in Keys,
         NEW d \in [Keys -> Cells], Reflects(d, l, Effective(a, x), k)
  PROVE  Reflects(Written(d, b), l, Effective(a + Len(b), x), k)
<1>. DEFINE I == Effective(a, x)
            J == Effective(a + Len(b), x)
            B == Touching(b, DOMAIN b, k)
<1>1. Written(d, b)[k] = IF B = {} THEN d[k] ELSE b[Latest(B)].val
  BY DEF Written
<1>2. DOMAIN b = 1 .. Len(b) /\ Len(b) \in Nat
  BY SMTT(30)
<1>3. \A i \in 1 .. Len(b) : a + i \in J /\ b[i] = l[a + i]
  BY <1>2 DEF IsBlock, Effective
<1>4. \A j \in J : j \in I \/ (j - a \in 1 .. Len(b) /\ j = a + (j - a) /\ j - a \in Int)
  BY <1>2 DEF Effective
<1>5. I \subseteq J /\ J \subseteq Nat /\ \A i \in I : i <= a
  BY SMTT(30), <1>2 DEF Effective
<1>. HIDE DEF I, J
<1>6. B \subseteq 1 .. Len(b) /\ \A i \in 1 .. Len(b) : i \in B <=> k \in b[i].keys
  BY SMTT(30), <1>2 DEF Touching
<1>7. CASE B = {}
  <2>1. Touching(l, J, k) = Touching(l, I, k)
    BY ZenonT(30), <1>3, <1>4, <1>5, <1>6, <1>7 DEF Touching
  <2>2. d[k] = Promise!Shown(l, I, k)
    BY DEF I, Reflects
  <2>3. Promise!Shown(l, J, k) = Promise!Shown(l, I, k)
    BY SMTT(30), <2>1, ShownIs
  <2>. QED  BY SMTT(30), <1>1, <1>7, <2>2, <2>3 DEF J, Reflects
<1>8. CASE B # {}
  <2>. HIDE DEF B
  <2>1. Latest(B) \in B /\ \A j \in B : j <= Latest(B)
    BY <1>2, <1>6, <1>8, LatestIsLast
  <2>2. PICK t \in 1 .. Len(b) : t = Latest(B) /\ t \in B /\ \A j \in B : j <= t
    BY ZenonT(30), <1>6, <2>1
  <2>3. a + t \in Touching(l, J, k)
    BY SMTT(30), <1>3, <1>6, <2>2 DEF Touching
  <2>4. ASSUME NEW j \in Touching(l, J, k) PROVE j <= a + t
    <3>1. j \in J /\ k \in l[j].keys
      BY DEF Touching
    <3>2. CASE j \in I
      BY <1>5, <3>2, <1>2
    <3>3. CASE j - a \in 1 .. Len(b) /\ j = a + (j - a) /\ j - a \in Int
      <4>1. PICK i \in 1 .. Len(b) : j = a + i
        BY SMTT(30), <3>3
      <4>2. i \in B
        BY <1>3, <1>6, <3>1, <4>1
      <4>3. i <= t
        BY SMTT(30), <4>2, <2>2
      <4>. QED  BY <4>1, <4>3
    <3>. QED  BY SMTT(30), <1>4, <3>1, <3>2, <3>3
  <2>5. Touching(l, J, k) \subseteq Nat
    BY ZenonT(30), <1>5 DEF Touching
  <2>6. Latest(Touching(l, J, k)) = a + t
    BY SMTT(30), <2>3, <2>4, <2>5, LatestIs
  <2>7. Promise!Shown(l, J, k) = l[a + t].val
    BY <2>3, <2>6, ShownIs
  <2>. QED  BY SMTT(30), <1>1, <1>3, <1>8, <2>2, <2>7 DEF J, Reflects
<1>. QED  BY <1>7, <1>8

\* Only operations the committer went past can be lost
LEMMA LostArePast ==
  ASSUME TypeOK, PipelineOrder, NEW e \in Engines
  PROVE  applied[e] <= Len(log[e]) /\ lost[e] \subseteq 1 .. applied[e]
<1>1. PICK p \in 0 .. applied[e] :
        TicketsInOrder(log[e], signal[e], applied[e], completed[e], lost[e], p)
  BY SMTT(30) DEF PipelineOrder, InOrder
<1>2. log[e] \in Seq(WriteOp) /\ signal[e] \in Seq(WriteOp) /\ applied[e] \in Nat
  BY EngineTypes
<1>. QED  BY SMTT(30), <1>1, <1>2 DEF TicketsInOrder, IsBlock

\* Every step keeps each engine the reflection of its log
LEMMA ReflectStep ==
  TypeOK /\ PipelineOrder /\ EngineReflectsLog /\ [Next]_vars => EngineReflectsLog'
<1>. SUFFICES ASSUME TypeOK, PipelineOrder, EngineReflectsLog, [Next]_vars,
                     NEW f \in Engines, NEW k \in Keys
              PROVE  (db[f][k] = Promise!Shown(log[f], Effective(applied[f], lost[f]), k))'
  BY ZenonT(30) DEF EngineReflectsLog, Effective
<1>. db[f][k] = Promise!Shown(log[f], Effective(applied[f], lost[f]), k)
  BY ZenonT(30) DEF EngineReflectsLog, Effective
<1>. /\ log[f] \in Seq(WriteOp) /\ db[f] \in [Keys -> Cells]
     /\ commitQ[f] \in Seq(Seq(WriteOp)) /\ applied[f] \in Nat
  BY SMTT(30) DEF TypeOK
<1>1. applied[f] <= Len(log[f]) /\ lost[f] \subseteq 1 .. applied[f]
  BY ZenonT(30), LostArePast
<1>2. ASSUME log'[f] = log[f], db'[f] = db[f], applied'[f] = applied[f], lost'[f] = lost[f]
      PROVE  (db[f][k] = Promise!Shown(log[f], Effective(applied[f], lost[f]), k))'
  <2>1. Effective(applied[f], lost[f])' = Effective(applied[f], lost[f])
    BY ZenonT(30), <1>2 DEF Effective
  <2>2. db[f][k] = Promise!Shown(log[f], Effective(applied[f], lost[f]), k)
    OBVIOUS
  <2>. QED  BY ZenonT(30), <1>2, <2>1, <2>2 DEF Promise!Shown
<1>3. ASSUME NEW keys \in SUBSET Keys, NEW val \in Cells, Send(f, keys, val)
      PROVE  (db[f][k] = Promise!Shown(log[f], Effective(applied[f], lost[f]), k))'
  <2>. DEFINE op == [n |-> Len(log[f]) + 1, keys |-> keys, val |-> val]
  <2>1. op \in WriteOp
    BY SMTT(30) DEF WriteOp
  <2>2. log'[f] = Append(log[f], op) /\ UNCHANGED <<db, applied, lost>>
    BY SMTT(30), <1>3 DEF Send, TypeOK
  <2>. HIDE DEF op
  <2>3. Effective(applied[f], lost[f]) \in SUBSET (1 .. Len(log[f]))
    BY SMTT(30), <1>1 DEF Effective
  <2>4. Promise!Shown(Append(log[f], op), Effective(applied[f], lost[f]), k)
          = Promise!Shown(log[f], Effective(applied[f], lost[f]), k)
    BY SMTT(30), <2>1, <2>3, ShownOfLongerLog
  <2>5. Effective(applied[f], lost[f])' = Effective(applied[f], lost[f])
    BY SMTT(30), <2>2 DEF Effective
  <2>6. db'[f][k] = Promise!Shown(log'[f], Effective(applied[f], lost[f])', k)
    BY <2>2, <2>4, <2>5
  <2>. QED  BY ZenonT(30), <2>6 DEF Promise!Shown
<1>4. ASSUME Receive(f)
      PROVE  /\ Head(commitQ[f]) \in Seq(WriteOp)
             /\ IsBlock(Head(commitQ[f]), log[f], applied[f])
             /\ log'[f] = log[f] /\ applied'[f] = applied[f] + Len(Head(commitQ[f]))
  <2>1. /\ commitQ[f] # <<>> /\ log'[f] = log[f]
        /\ applied'[f] = applied[f] + Len(Head(commitQ[f]))
    BY <1>4 DEF Receive, TypeOK
  <2>2. PICK m \in 0 .. Len(log[f]), h \in 0 .. Len(log[f]) :
          QueuesInOrder(log[f], opsQ[f], batch[f], commitQ[f], applied[f], m, h)
    BY ZenonT(30) DEF PipelineOrder, InOrder
  <2>3. m \in Nat /\ h \in Nat /\ opsQ[f] \in Seq(WriteOp) /\ batch[f] \in Seq(WriteOp)
    BY SMTT(30) DEF TypeOK
  <2>4. commitQ[f] # <<>>
    BY SMTT(30), <2>1
  <2>5. IsBlock(Head(commitQ[f]), log[f], applied[f])
    BY ZenonT(30), <2>2, <2>3, <2>4, ReceiveOrder
  <2>6. Head(commitQ[f]) \in Seq(WriteOp)
    BY SMTT(30), <2>4
  <2>. QED  BY ZenonT(30), <2>1, <2>5, <2>6
<1>5. CASE Commit(f)
  <2>0. Receive(f)
    BY ZenonT(30), <1>5 DEF Commit
  <2>. DEFINE b == Head(commitQ[f])
  <2>1. b \in Seq(WriteOp) /\ IsBlock(b, log[f], applied[f])
    BY ZenonT(30), <2>0, <1>4
  <2>2. db'[f] = Written(db[f], b) /\ lost'[f] = lost[f]
    BY SMTT(30), <1>5 DEF Commit, TypeOK
  <2>3. log'[f] = log[f] /\ applied'[f] = applied[f] + Len(b)
    BY ZenonT(30), <2>0, <1>4
  <2>. HIDE DEF b
  <2>4. lost[f] \in SUBSET (1 .. applied[f])
    BY SMTT(30), <1>1
  <2>5. db[f][k] = Promise!Shown(log[f], (1 .. applied[f]) \ lost[f], k)
    BY SMTT(30) DEF Effective
  <2>6. Written(db[f], b)[k] = Promise!Shown(log[f], (1 .. applied[f] + Len(b)) \ lost[f], k)
    <3>1. Reflects(db[f], log[f], Effective(applied[f], lost[f]), k)
      BY SMTT(30), <2>5 DEF Reflects, Effective
    <3>2. Reflects(Written(db[f], b), log[f], Effective(applied[f] + Len(b), lost[f]), k)
      BY <2>1, <2>4, <3>1, WrittenShown
    <3>. QED  BY SMTT(30), <3>2 DEF Reflects, Effective
  <2>. QED  BY ZenonT(30), <2>2, <2>3, <2>6 DEF Effective, Promise!Shown
<1>6. CASE CommitFail(f)
  <2>0. Receive(f)
    BY ZenonT(30), <1>6 DEF CommitFail
  <2>. DEFINE b == Head(commitQ[f])
              y == {b[i].n : i \in DOMAIN b}
  <2>1. b \in Seq(WriteOp) /\ IsBlock(b, log[f], applied[f])
    BY ZenonT(30), <2>0, <1>4
  <2>2. db'[f] = db[f] /\ lost'[f] = lost[f] \cup y
    BY <1>6 DEF CommitFail, TypeOK
  <2>3. log'[f] = log[f] /\ applied'[f] = applied[f] + Len(b)
    BY ZenonT(30), <2>0, <1>4
  <2>4. Numbered(log[f])
    BY ZenonT(30) DEF PipelineOrder, InOrder, QueuesInOrder
  <2>5. y = applied[f] + 1 .. applied[f] + Len(b)
    BY ZenonT(30), <2>1, <2>4, BlockPlaces
  <2>. HIDE DEF b, y
  <2>6. (1 .. applied[f] + Len(b)) \ (lost[f] \cup y) = (1 .. applied[f]) \ lost[f]
    BY SMTT(30), <1>1, <2>1, <2>5
  <2>7. Effective(applied[f], lost[f])' = Effective(applied[f], lost[f])
    BY SMTT(30), <2>2, <2>3, <2>6 DEF Effective
  <2>. QED  BY ZenonT(30), <2>2, <2>3, <2>7 DEF Promise!Shown
<1>7. ASSUME NEW e \in Engines, e # f,
             \/ \E keys \in SUBSET Keys, val \in Cells : Send(e, keys, val)
             \/ Commit(e) \/ CommitFail(e)
      PROVE  (db[f][k] = Promise!Shown(log[f], Effective(applied[f], lost[f]), k))'
  <2>1. log'[f] = log[f] /\ db'[f] = db[f] /\ applied'[f] = applied[f] /\ lost'[f] = lost[f]
    BY ZenonT(30), <1>7 DEF TypeOK, Send, Receive, Commit, CommitFail
  <2>. QED  BY <2>1, <1>2
<1>8. ASSUME \/ \E e \in Engines : Collect(e) \/ HandOver(e) \/ Complete(e)
                                     \/ CollectorExit(e) \/ CommitterExit(e)
             \/ DropSenders \/ Join \/ UNCHANGED vars
      PROVE  (db[f][k] = Promise!Shown(log[f], Effective(applied[f], lost[f]), k))'
  <2>1. UNCHANGED <<db, history>>
    BY ZenonT(30), <1>8
       DEF Collect, HandOver, Complete, CollectorExit, CommitterExit, DropSenders, Join, vars
  <2>. QED  BY ZenonT(30), <2>1, <1>2 DEF history
<1>. QED
  BY ZenonT(30), <1>3, <1>5, <1>6, <1>7, <1>8, SendsAreOps DEF Next, CollectorStep, CommitterStep

\* At any moment a read of an engine sees exactly the operations that went
\* through write_opt, in the order it was sent them
THEOREM EngineIsItsLog == Spec => []EngineReflectsLog
<1>1. Init => EngineReflectsLog
  <2>. SUFFICES ASSUME Init, NEW e \in Engines, NEW k \in Keys
                PROVE  db[e][k] = Promise!Shown(log[e], (1 .. applied[e]) \ lost[e], k)
    BY ZenonT(30) DEF EngineReflectsLog
  <2>1. db[e][k] = Absent /\ applied[e] = 0
    BY DEF Init
  <2>2. Touching(log[e], (1 .. applied[e]) \ lost[e], k) = {}
    BY <2>1 DEF Touching
  <2>. QED  BY <2>1, <2>2, ShownIs
<1>2. Spec => [](TypeOK /\ PipelineOrder)
  BY TypeCorrect, PipelineOrdered, PTL
<1>. QED  BY <1>1, <1>2, ReflectStep, PTL DEF Spec

-----------------------------------------------------------------------------

\* The batch the committer receives is the block of the log that follows what
\* it has written so far, and it is not empty
LEMMA ReceivedBlock ==
  ASSUME TypeOK, PipelineOrder, NEW e \in Engines, Receive(e)
  PROVE  /\ Head(commitQ[e]) \in Seq(WriteOp) /\ Head(commitQ[e]) # <<>>
         /\ IsBlock(Head(commitQ[e]), log[e], applied[e]) /\ Numbered(log[e])
<1>1. /\ log[e] \in Seq(WriteOp) /\ opsQ[e] \in Seq(WriteOp) /\ batch[e] \in Seq(WriteOp)
      /\ commitQ[e] \in Seq(Seq(WriteOp)) /\ applied[e] \in Nat
  BY EngineTypes
<1>2. commitQ[e] # <<>>
  BY DEF Receive
<1>3. PICK m \in 0 .. Len(log[e]), h \in 0 .. Len(log[e]) :
        QueuesInOrder(log[e], opsQ[e], batch[e], commitQ[e], applied[e], m, h)
  BY ZenonT(30) DEF PipelineOrder, InOrder
<1>4. m \in Nat /\ h \in Nat /\ Head(commitQ[e]) \in Seq(WriteOp)
  BY <1>1, <1>2
<1>5. Numbered(log[e])
  BY ZenonT(30), <1>3 DEF QueuesInOrder
<1>6. Head(commitQ[e]) # <<>> /\ IsBlock(Head(commitQ[e]), log[e], applied[e])
  BY ZenonT(30), <1>1, <1>2, <1>3, <1>4, ReceiveOrder
<1>. QED  BY <1>4, <1>5, <1>6

\* ... so it reaches a place of the log after the last one written
LEMMA ReceivedPlaces ==
  ASSUME TypeOK, PipelineOrder, NEW e \in Engines, Receive(e)
  PROVE  applied[e] + Len(Head(commitQ[e])) \in applied[e] + 1 .. Len(log[e])
<1>1. PICK b \in Seq(WriteOp) : b = Head(commitQ[e])
  BY ZenonT(30), ReceivedBlock
<1>2. b # <<>> /\ IsBlock(b, log[e], applied[e])
  BY ZenonT(30), <1>1, ReceivedBlock
<1>3. log[e] \in Seq(WriteOp) /\ applied[e] \in Nat
  BY EngineTypes
<1>4. applied[e] + Len(b) \in applied[e] + 1 .. Len(log[e])
  BY <1>2, <1>3 DEF IsBlock
<1>. QED  BY <1>1, <1>4

-----------------------------------------------------------------------------
\* The tickets completed are those of a prefix of what went through write_opt
LEMMA CompletedAreApplied ==
  ASSUME TypeOK, PipelineOrder, NEW e \in Engines
  PROVE  completed[e] \subseteq 1 .. applied[e]
<1>1. PICK p \in 0 .. applied[e] :
        TicketsInOrder(log[e], signal[e], applied[e], completed[e], lost[e], p)
  BY SMTT(30) DEF PipelineOrder, InOrder
<1>2. applied[e] \in Nat
  BY EngineTypes
<1>. QED  BY <1>1, <1>2 DEF TicketsInOrder

\* A completed write is at a place its engine has applied, so a read sees it
\* or a later one
LEMMA VisibleOnceCompleted ==
  TypeOK /\ PipelineOrder /\ EngineReflectsLog => CompletedIsVisible
<1>. SUFFICES ASSUME TypeOK, PipelineOrder, EngineReflectsLog, NEW e \in Engines,
                     NEW n \in completed[e] \ lost[e], NEW k \in log[e][n].keys
              PROVE  \E m \in n .. Len(log[e]) :
                       k \in log[e][m].keys /\ m \notin lost[e] /\ db[e][k] = log[e][m].val
  BY ZenonT(30) DEF CompletedIsVisible
<1>. DEFINE I == (1 .. applied[e]) \ lost[e]
            W == Touching(log[e], I, k)
<1>1. applied[e] \in Nat /\ log[e] \in Seq(WriteOp) /\ applied[e] <= Len(log[e])
  BY EngineTypes, LostArePast
<1>2. n \in 1 .. applied[e]
  BY ZenonT(30), CompletedAreApplied
<1>3. n \in I /\ W \in SUBSET (1 .. applied[e])
  BY ZenonT(30), <1>2 DEF Touching
<1>4. n \in W
  BY ZenonT(30), <1>3 DEF Touching
<1>5. k \in Keys
  <2>1. log[e][n] \in WriteOp
    BY <1>1, <1>2
  <2>. QED  BY <2>1 DEF WriteOp
<1>6. db[e][k] = Promise!Shown(log[e], I, k)
  BY ZenonT(30), <1>5 DEF EngineReflectsLog
<1>7. Latest(W) \in W /\ \A j \in W : j <= Latest(W)
  BY ZenonT(30), <1>1, <1>3, <1>4, LatestIsLast
<1>8. PICK m \in 1 .. applied[e] : m = Latest(W) /\ m \in W /\ n <= m
  BY ZenonT(30), <1>3, <1>4, <1>7
<1>9. k \in log[e][m].keys /\ m \notin lost[e]
  BY ZenonT(30), <1>8 DEF Touching
<1>10. db[e][k] = log[e][m].val
  BY ZenonT(30), <1>4, <1>6, <1>8, ShownIs
<1>11. m \in n .. Len(log[e])
  BY <1>1, <1>2, <1>8
<1>. QED  BY <1>9, <1>10, <1>11

\* A caller that awaited its ticket reads its own write, or a later one on the
\* same key: settle returns only after write_opt
THEOREM CompletedAreVisible == Spec => []CompletedIsVisible
  BY TypeCorrect, PipelineOrdered, EngineIsItsLog, VisibleOnceCompleted, PTL

-----------------------------------------------------------------------------
\* How the pipelines come to an end: a collector returns only when the senders
\* are dropped and it holds nothing, its committer after it with nothing left
\* to write or to complete, and Drop for Storage waits for all of them
Draining ==
  /\ \A e \in Engines : threads[e] # "both" =>
       phase # "open" /\ opsQ[e] = <<>> /\ batch[e] = <<>>
  /\ \A e \in Engines : threads[e] = "none" => commitQ[e] = <<>> /\ signal[e] = <<>>
  /\ phase = "closed" => \A e \in Engines : threads[e] = "none"

\* Every step of the threads and of Drop keeps this order of ending
LEMMA DrainingStep == TypeOK /\ Draining /\ [Next]_vars => Draining'
<1>. SUFFICES ASSUME TypeOK, Draining, [Next]_vars PROVE Draining'
  OBVIOUS
<1>1. ASSUME NEW e \in Engines, NEW keys \in SUBSET Keys, NEW val \in Cells, Send(e, keys, val)
      PROVE  Draining'
  <2>1. phase = "open" /\ UNCHANGED <<phase, threads, batch, commitQ, signal>>
    BY <1>1 DEF Send
  <2>2. \A f \in Engines : threads[f] = "both"
    BY <2>1 DEF Draining
  <2>. QED  BY <2>1, <2>2 DEF Draining
<1>2. ASSUME NEW e \in Engines, Collect(e) \/ HandOver(e) PROVE Draining'
  <2>1. /\ threads[e] = "both" /\ UNCHANGED <<phase, threads, signal>>
        /\ \A f \in Engines \ {e} : opsQ'[f] = opsQ[f] /\ batch'[f] = batch[f]
                                    /\ commitQ'[f] = commitQ[f]
    BY <1>2 DEF Collect, HandOver, TypeOK
  <2>. QED  BY <2>1 DEF Draining
<1>3. ASSUME NEW e \in Engines, Commit(e) \/ CommitFail(e) PROVE Draining'
  <2>1. /\ threads[e] # "none" /\ UNCHANGED <<phase, threads, opsQ, batch>>
        /\ \A f \in Engines \ {e} : commitQ'[f] = commitQ[f] /\ signal'[f] = signal[f]
    BY <1>3 DEF Commit, CommitFail, Receive, TypeOK
  <2>. QED  BY <2>1 DEF Draining
<1>4. ASSUME NEW e \in Engines, Complete(e) PROVE Draining'
  <2>1. /\ signal[e] # <<>> /\ UNCHANGED <<phase, threads, opsQ, batch, commitQ>>
        /\ \A f \in Engines \ {e} : signal'[f] = signal[f]
    BY <1>4 DEF Complete, TypeOK
  <2>. QED  BY <2>1 DEF Draining
<1>5. ASSUME NEW e \in Engines, CollectorExit(e) PROVE Draining'
  BY <1>5 DEF CollectorExit, Draining, TypeOK, queues
<1>6. ASSUME NEW e \in Engines, CommitterExit(e) PROVE Draining'
  BY <1>6 DEF CommitterExit, Draining, TypeOK, queues
<1>7. CASE DropSenders \/ Join
  BY <1>7 DEF DropSenders, Join, Draining, queues
<1>8. CASE UNCHANGED vars
  BY <1>8 DEF Draining, vars, queues
<1>. QED
  BY <1>1, <1>2, <1>3, <1>4, <1>5, <1>6, <1>7, <1>8, SendsAreOps
  DEF Next, CollectorStep, CommitterStep

\* Empty channels leave no place of the log between its end and what is done
LEMMA DrainedIsDone == TypeOK /\ PipelineOrder /\ Draining => ClosedIsDrained
<1>. SUFFICES ASSUME TypeOK, PipelineOrder, Draining, phase = "closed", NEW e \in Engines
              PROVE  applied[e] = Len(log[e]) /\ completed[e] = 1 .. Len(log[e])
  BY DEF ClosedIsDrained
<1>1. opsQ[e] = <<>> /\ batch[e] = <<>> /\ commitQ[e] = <<>> /\ signal[e] = <<>>
  BY DEF Draining
<1>2. log[e] \in Seq(WriteOp) /\ applied[e] \in Nat
  BY EngineTypes
<1>3. PICK m \in 0 .. Len(log[e]), h \in 0 .. Len(log[e]) :
        QueuesInOrder(log[e], <<>>, <<>>, <<>>, applied[e], m, h)
  BY ZenonT(30), <1>1 DEF PipelineOrder, InOrder
<1>4. PICK p \in 0 .. applied[e] :
        TicketsInOrder(log[e], <<>>, applied[e], completed[e], lost[e], p)
  BY ZenonT(30), <1>1 DEF PipelineOrder, InOrder
<1>5. applied[e] = Len(log[e])
  BY <1>2, <1>3 DEF QueuesInOrder, Reach
<1>6. completed[e] = 1 .. applied[e]
  BY <1>2, <1>4 DEF TicketsInOrder
<1>. QED  BY <1>5, <1>6

\* Drop for Storage returns only once every operation ever sent has been
\* through write_opt and its caller was told
THEOREM DropDrains == Spec => []ClosedIsDrained
<1>1. Init => Draining
  BY DEF Init, Draining
<1>2. Spec => [](TypeOK /\ PipelineOrder)
  BY TypeCorrect, PipelineOrdered, PTL
<1>. QED  BY <1>1, <1>2, DrainingStep, DrainedIsDone, PTL DEF Spec

-----------------------------------------------------------------------------
\* What a step does to an engine's contents, if it is not a write_opt
LEMMA OnlyCommitWrites ==
  ASSUME TypeOK, [Next]_vars, NEW f \in Engines, db'[f] # db[f]
  PROVE  Commit(f)
<1>1. ASSUME NEW e \in Engines, NEW keys \in SUBSET Keys, NEW val \in Cells, Send(e, keys, val)
      PROVE  UNCHANGED db
  BY <1>1 DEF Send
<1>2. ASSUME NEW e \in Engines, e # f, Commit(e) PROVE db'[f] = db[f]
  BY <1>2 DEF Commit, TypeOK
<1>3. ASSUME \/ \E e \in Engines : \/ Collect(e) \/ HandOver(e) \/ CommitFail(e) \/ Complete(e)
                                   \/ CollectorExit(e) \/ CommitterExit(e)
             \/ DropSenders \/ Join \/ UNCHANGED vars
      PROVE  UNCHANGED db
  BY ZenonT(30), <1>3
     DEF Collect, HandOver, CommitFail, Complete, CollectorExit, CommitterExit, DropSenders,
         Join, vars
<1>. QED
  BY ZenonT(30), <1>1, <1>2, <1>3, SendsAreOps DEF Next, CollectorStep, CommitterStep

\* A batch changes a key only to what its last operation on the key leaves
LEMMA WrittenChange ==
  ASSUME NEW d \in [Keys -> Cells], NEW b \in Seq(WriteOp), NEW k \in Keys,
         Written(d, b)[k] # d[k]
  PROVE  \E t \in 1 .. Len(b) : k \in b[t].keys /\ Written(d, b)[k] = b[t].val
<1>. DEFINE B == Touching(b, DOMAIN b, k)
<1>1. Written(d, b)[k] = IF B = {} THEN d[k] ELSE b[Latest(B)].val
  BY DEF Written
<1>2. B \in SUBSET (1 .. Len(b)) /\ Len(b) \in Nat
  BY DEF Touching
<1>3. Latest(B) \in B
  BY ZenonT(30), <1>1, <1>2, LatestIsLast
<1>4. k \in b[Latest(B)].keys
  BY ZenonT(30), <1>3 DEF Touching
<1>5. Written(d, b)[k] = b[Latest(B)].val /\ Latest(B) \in 1 .. Len(b)
  BY ZenonT(30), <1>1, <1>2, <1>3
<1>. QED  BY ZenonT(30), <1>4, <1>5

\* No step of an engine's threads undoes a later operation with an earlier one
THEOREM NeverGoesBackwards == Spec => NeverBackwards
<1>. DEFINE Forward(e, k) ==
              db'[e][k] # db[e][k] =>
                \E n \in applied[e] + 1 .. applied'[e] :
                  k \in log[e][n].keys /\ db'[e][k] = log[e][n].val
<1>1. ASSUME TypeOK, PipelineOrder, [Next]_vars, NEW e \in Engines, NEW k \in Keys
      PROVE  Forward(e, k)
  <2>. SUFFICES ASSUME db'[e][k] # db[e][k]
                PROVE  \E n \in applied[e] + 1 .. applied'[e] :
                         k \in log[e][n].keys /\ db'[e][k] = log[e][n].val
    OBVIOUS
  <2>1. Commit(e)
    BY ZenonT(30), <1>1, OnlyCommitWrites
  <2>2. Receive(e)
    BY ZenonT(30), <2>1 DEF Commit
  <2>3. PICK b \in Seq(WriteOp) : b = Head(commitQ[e]) /\ IsBlock(b, log[e], applied[e])
    BY ZenonT(30), <1>1, <2>2, ReceivedBlock
  <2>4. /\ db'[e] = Written(db[e], b) /\ applied'[e] = applied[e] + Len(b)
        /\ db[e] \in [Keys -> Cells] /\ applied[e] \in Nat
    BY <1>1, <2>1, <2>2, <2>3 DEF Commit, Receive, TypeOK
  <2>5. PICK t \in 1 .. Len(b) : k \in b[t].keys /\ Written(db[e], b)[k] = b[t].val
    BY ZenonT(30), <2>4, WrittenChange
  <2>6. b[t] = log[e][applied[e] + t]
    BY ZenonT(30), <2>3 DEF IsBlock
  <2>7. applied[e] + t \in applied[e] + 1 .. applied'[e]
    BY <2>4
  <2>. QED  BY ZenonT(30), <2>4, <2>5, <2>6, <2>7
<1>2. TypeOK /\ PipelineOrder /\ [Next]_vars => [\A e \in Engines, k \in Keys : Forward(e, k)]_vars
  BY <1>1
<1>. QED  BY <1>2, TypeCorrect, PipelineOrdered, PTL DEF Spec, NeverBackwards

-----------------------------------------------------------------------------
\* write_opt of a batch leaves what the prefix of the log that now ends with
\* the batch shows, at every key: it is a step of OpLog's Apply
LEMMA CommitApplies ==
  ASSUME TypeOK, PipelineOrder, EngineReflectsLog, NEW e \in Engines, Commit(e)
  PROVE  Promise!Apply(e)
<1>0. Receive(e)
  BY ZenonT(30) DEF Commit
<1>1. PICK b \in Seq(WriteOp) : b = Head(commitQ[e]) /\ IsBlock(b, log[e], applied[e])
  BY ZenonT(30), <1>0, ReceivedBlock
<1>. DEFINE m == applied[e] + Len(b)
<1>2. m \in applied[e] + 1 .. Len(log[e])
  BY ZenonT(30), <1>0, <1>1, ReceivedPlaces
<1>3. /\ applied' = [applied EXCEPT ![e] = m]
      /\ db' = [db EXCEPT ![e] = Written(db[e], b)]
      /\ UNCHANGED <<log, lost, completed>>
  BY <1>1 DEF Commit, Receive
<1>4. /\ log[e] \in Seq(WriteOp) /\ applied[e] \in Nat /\ db[e] \in [Keys -> Cells]
      /\ lost[e] \in SUBSET (1 .. applied[e])
  BY EngineTypes, LostArePast DEF TypeOK
<1>5. ASSUME NEW k \in Keys
      PROVE  Written(db[e], b)[k] = Promise!Shown(log[e], (1 .. m) \ lost[e], k)
  <2>1. Reflects(db[e], log[e], Effective(applied[e], lost[e]), k)
    BY ZenonT(30) DEF EngineReflectsLog, Reflects, Effective
  <2>2. Reflects(Written(db[e], b), log[e], Effective(applied[e] + Len(b), lost[e]), k)
    BY <1>1, <1>4, <2>1, WrittenShown
  <2>. QED  BY ZenonT(30), <2>2 DEF Reflects, Effective
<1>6. Written(db[e], b) = [k \in Keys |-> Promise!Shown(log[e], (1 .. m) \ lost[e], k)]
  <2>1. Written(db[e], b) \in [Keys -> Cells]
    BY ZenonT(30), <1>1, <1>4, WrittenType
  <2>. QED  BY ZenonT(30), <1>5, <2>1
<1>. HIDE DEF m
<1>. QED  BY ZenonT(30), <1>2, <1>3, <1>6 DEF Promise!Apply

\* A failed write_opt loses the block it was to write: a step of OpLog's Lose
LEMMA FailureLoses ==
  ASSUME TypeOK, PipelineOrder, NEW e \in Engines, CommitFail(e)
  PROVE  Promise!Lose(e)
<1>0. Receive(e) /\ MayFail
  BY ZenonT(30) DEF CommitFail
<1>1. PICK b \in Seq(WriteOp) :
        b = Head(commitQ[e]) /\ IsBlock(b, log[e], applied[e]) /\ Numbered(log[e])
  BY ZenonT(30), <1>0, ReceivedBlock
<1>. DEFINE m == applied[e] + Len(b)
<1>2. m \in applied[e] + 1 .. Len(log[e])
  BY ZenonT(30), <1>0, <1>1, ReceivedPlaces
<1>3. log[e] \in Seq(WriteOp) /\ applied[e] \in Nat
  BY EngineTypes
<1>4. {b[i].n : i \in DOMAIN b} = applied[e] + 1 .. m
  BY ZenonT(30), <1>1, <1>3, BlockPlaces
<1>5. /\ applied' = [applied EXCEPT ![e] = m]
      /\ lost' = [lost EXCEPT ![e] = @ \cup {b[i].n : i \in DOMAIN b}]
      /\ UNCHANGED <<log, db, completed>>
  BY <1>1 DEF CommitFail, Receive
<1>. HIDE DEF m
<1>. QED  BY ZenonT(30), <1>0, <1>2, <1>4, <1>5 DEF Promise!Lose

\* drop(done) completes a ticket whose operation was handled and which is not
\* complete yet: a step of OpLog's Complete
LEMMA DropCompletes ==
  ASSUME TypeOK, PipelineOrder, NEW e \in Engines, Complete(e)
  PROVE  Promise!Complete(e)
<1>1. /\ log[e] \in Seq(WriteOp) /\ signal[e] \in Seq(WriteOp) /\ applied[e] \in Nat
      /\ signal[e] # <<>>
  BY EngineTypes DEF Complete
<1>2. PICK p \in 0 .. applied[e] :
        TicketsInOrder(log[e], signal[e], applied[e], completed[e], lost[e], p)
  BY ZenonT(30) DEF PipelineOrder, InOrder
<1>3. Numbered(log[e])
  BY ZenonT(30) DEF PipelineOrder, InOrder, QueuesInOrder
<1>4. IsBlock(signal[e], log[e], p) /\ applied[e] = p + Len(signal[e]) /\ completed[e] = 1 .. p
  BY <1>2 DEF TicketsInOrder
<1>5. Head(signal[e]) = log[e][p + 1] /\ Len(signal[e]) > 0
  BY <1>1, <1>4, BlockTail
<1>6. p + 1 \in 1 .. Len(log[e]) /\ p + 1 \in (1 .. applied[e]) \ completed[e]
  BY <1>1, <1>4, <1>5 DEF IsBlock
<1>7. Head(signal[e]).n = p + 1
  BY ZenonT(30), <1>3, <1>5, <1>6 DEF Numbered
<1>8. completed' = [completed EXCEPT ![e] = @ \cup {p + 1}] /\ UNCHANGED <<log, applied, lost, db>>
  BY ZenonT(30), <1>7 DEF Complete, history
<1>. QED  BY ZenonT(30), <1>6, <1>8 DEF Promise!Complete

\* Every step of the pipelines is a step of OpLog, or one it does not see
LEMMA StepsImplement ==
  TypeOK /\ PipelineOrder /\ EngineReflectsLog /\ [Next]_vars => [Promise!Next]_(Promise!vars)
<1>. SUFFICES ASSUME TypeOK, PipelineOrder, EngineReflectsLog, [Next]_vars
              PROVE  Promise!Next \/ UNCHANGED Promise!vars
  OBVIOUS
<1>1. ASSUME NEW e \in Engines, NEW keys \in SUBSET Keys, NEW val \in Cells, Send(e, keys, val)
      PROVE  Promise!Next
  <2>1. Promise!Accept(e, keys, val)
    BY <1>1 DEF Send, Promise!Accept
  <2>. QED  BY ZenonT(30), <2>1 DEF Promise!Next, Cells
<1>2. ASSUME NEW e \in Engines, Commit(e) PROVE Promise!Next
  BY ZenonT(30), <1>2, CommitApplies DEF Promise!Next
<1>3. ASSUME NEW e \in Engines, CommitFail(e) PROVE Promise!Next
  BY ZenonT(30), <1>3, FailureLoses DEF Promise!Next
<1>4. ASSUME NEW e \in Engines, Complete(e) PROVE Promise!Next
  BY ZenonT(30), <1>4, DropCompletes DEF Promise!Next
<1>5. ASSUME \/ \E e \in Engines : \/ Collect(e) \/ HandOver(e)
                                   \/ CollectorExit(e) \/ CommitterExit(e)
             \/ DropSenders \/ Join \/ UNCHANGED vars
      PROVE  UNCHANGED Promise!vars
  <2>1. UNCHANGED <<db, completed, history>>
    BY ZenonT(30), <1>5
       DEF Collect, HandOver, CollectorExit, CommitterExit, DropSenders, Join, vars
  <2>. QED  BY <2>1 DEF history, Promise!vars
<1>. QED
  BY ZenonT(30), <1>1, <1>2, <1>3, <1>4, <1>5, SendsAreOps DEF Next, CollectorStep, CommitterStep

\* The channels, batches and threads of spawn_writer keep OpLog's promise to
\* every caller of storage.rs: each engine is a log, applied in blocks from its
\* front, whose tickets complete only after their block
THEOREM PipelineImplementsOpLog == Spec => ImplementsOpLog
<1>1. Init => Promise!Init
  BY DEF Init, Promise!Init
<1>2. Spec => [](TypeOK /\ PipelineOrder /\ EngineReflectsLog)
  BY TypeCorrect, PipelineOrdered, EngineIsItsLog, PTL
<1>. QED  BY <1>1, <1>2, StepsImplement, PTL DEF Spec, ImplementsOpLog, Promise!Spec
=============================================================================
