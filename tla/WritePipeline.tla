--------------------------- MODULE WritePipeline ---------------------------
(***************************************************************************)
(* The write pipelines of storage.rs.  Every RocksDB engine has a channel  *)
(* of write operations, a collector thread that merges them into batches,  *)
(* a channel of batches and a committer thread that writes each batch and  *)
(* then completes the ticket of every operation in it.  Dropping the       *)
(* Storage closes the operation channels and joins the threads.            *)
(*                                                                         *)
(* An operation is the set of keys it overwrites and what it leaves there: *)
(* a Put or Delete overwrites one key, a DeleteRange every key of a table. *)
(***************************************************************************)
EXTENDS Integers, Sequences

CONSTANTS
  Engines,      \* the RocksDB instances (Storage::dbs)
  Keys,         \* row keys, with their dt!<keyspace>!<table>! prefix
  Vals,         \* stored row values
  Absent,       \* no row: never written, or deleted
  EngineOf,     \* data_engine: the engine of a key's partition
  Ranges,       \* what a DeleteRange covers: the set of keys of a table
  MaxBatchOps,  \* MAX_BATCH_OPS
  WriteSync,    \* write_sync: the collector holds a batch open for a window
  MayFail,      \* whether write_opt may return an error
  MaxOps        \* bound of the model: operations an engine is sent

ASSUME ConstantsAssumption ==
  /\ EngineOf \in [Keys -> Engines]
  /\ Ranges \subseteq SUBSET Keys
  /\ Absent \notin Vals
  /\ MaxBatchOps \in Nat \ {0}
  /\ WriteSync \in BOOLEAN
  /\ MayFail \in BOOLEAN
  /\ MaxOps \in Nat

VARIABLES
  phase,      \* "open", "closing" (senders dropped) or "closed" (joined)
  threads,    \* per engine: which of its two threads are still running
  opsQ,       \* per engine: the operation channel
  batch,      \* per engine: the collector's open batch, <<>> when idle
  commitQ,    \* per engine: the batch channel
  signal,     \* per engine: operations written whose sender is not dropped
  db,         \* per engine: the memtable contents
  completed,  \* per engine: operations whose ticket is complete
  log,        \* history: operations each engine was sent, in order
  applied,    \* history: how many of them have been through write_opt
  lost        \* history: those whose write_opt failed

queues == <<opsQ, batch, commitQ, signal>>
history == <<log, applied, lost>>
vars == <<phase, threads, queues, db, completed, history>>

Cells == Vals \cup {Absent}

\* WriteOp; n is its place in the engine's history
WriteOp == [n : Nat, keys : SUBSET Keys, val : Cells]

\* Every variable has its type, and no WriteBatch grows past MAX_BATCH_OPS
TypeOK ==
  /\ phase \in {"open", "closing", "closed"}
  /\ threads \in [Engines -> {"both", "committer", "none"}]
  /\ opsQ \in [Engines -> Seq(WriteOp)]
  /\ batch \in [Engines -> Seq(WriteOp)]
  /\ commitQ \in [Engines -> Seq(Seq(WriteOp))]
  /\ signal \in [Engines -> Seq(WriteOp)]
  /\ db \in [Engines -> [Keys -> Cells]]
  /\ completed \in [Engines -> SUBSET Nat]
  /\ log \in [Engines -> Seq(WriteOp)]
  /\ applied \in [Engines -> Nat]
  /\ lost \in [Engines -> SUBSET Nat]
  /\ \A e \in Engines : Len(batch[e]) <= MaxBatchOps

-----------------------------------------------------------------------------
\* The last of the places W of a sequence of operations
Latest(W) == CHOOSE i \in W : \A j \in W : j <= i

\* The places among I where an operation of s overwrites k
Touching(s, I, k) == {i \in I : k \in s[i].keys}

\* Variant: a WriteBatch that keeps the first operation on a key
WrittenFirstWins(d, b) ==
  [k \in Keys |-> LET W == Touching(b, DOMAIN b, k)
                  IN  IF W = {} THEN d[k]
                      ELSE b[CHOOSE i \in W : \A j \in W : i <= j].val]

\* The contents d after write_opt of the batch b: RocksDB applies the
\* operations of a WriteBatch in order, so the last one on a key decides
Written(d, b) ==
  [k \in Keys |-> LET W == Touching(b, DOMAIN b, k)
                  IN  IF W = {} THEN d[k] ELSE b[Latest(W)].val]

-----------------------------------------------------------------------------
\* tx.send: the operation enters the engine's channel and gets a ticket
Send(e, keys, val) ==
  LET op == [n |-> Len(log[e]) + 1, keys |-> keys, val |-> val] IN
  /\ phase = "open"
  /\ Len(log[e]) < MaxOps
  /\ opsQ' = [opsQ EXCEPT ![e] = Append(@, op)]
  /\ log' = [log EXCEPT ![e] = Append(@, op)]
  /\ UNCHANGED <<phase, threads, batch, commitQ, signal, db, completed,
                 applied, lost>>

SendPut(k, v) == Send(EngineOf[k], {k}, v)
SendDelete(k) == Send(EngineOf[k], {k}, Absent)
SendDeleteRange(e, r) == Send(e, r, Absent)

\* Variant: the size test is off by one
CollectPastFull(e) ==
  /\ threads[e] = "both"
  /\ opsQ[e] # <<>>
  /\ Len(batch[e]) <= MaxBatchOps
  /\ batch' = [batch EXCEPT ![e] = Append(@, Head(opsQ[e]))]
  /\ opsQ' = [opsQ EXCEPT ![e] = Tail(@)]
  /\ UNCHANGED <<phase, threads, commitQ, signal, db, completed, history>>

\* Variant: the ticket's sender is dropped when the operation is collected
CollectDropsTicket(e) ==
  /\ threads[e] = "both"
  /\ opsQ[e] # <<>>
  /\ Len(batch[e]) < MaxBatchOps
  /\ batch' = [batch EXCEPT ![e] = Append(@, Head(opsQ[e]))]
  /\ opsQ' = [opsQ EXCEPT ![e] = Tail(@)]
  /\ completed' = [completed EXCEPT ![e] = @ \cup {Head(opsQ[e]).n}]
  /\ UNCHANGED <<phase, threads, commitQ, signal, db, history>>

\* The collector takes one more operation into its batch
Collect(e) ==
  /\ threads[e] = "both"
  /\ opsQ[e] # <<>>
  /\ Len(batch[e]) < MaxBatchOps
  /\ batch' = [batch EXCEPT ![e] = Append(@, Head(opsQ[e]))]
  /\ opsQ' = [opsQ EXCEPT ![e] = Tail(@)]
  /\ UNCHANGED <<phase, threads, commitQ, signal, db, completed, history>>

\* Variant: the batch is not taken, so its operations are handed over again
HandOverCopy(e) ==
  /\ threads[e] = "both"
  /\ batch[e] # <<>>
  /\ Len(commitQ[e]) < MaxOps
  /\ commitQ' = [commitQ EXCEPT ![e] = Append(@, batch[e])]
  /\ UNCHANGED <<phase, threads, opsQ, batch, signal, db, completed, history>>

\* Variant: a batch is handed over only when it is full
HandOverFull(e) ==
  /\ threads[e] = "both"
  /\ Len(batch[e]) >= MaxBatchOps
  /\ commitQ' = [commitQ EXCEPT ![e] = Append(@, batch[e])]
  /\ batch' = [batch EXCEPT ![e] = <<>>]
  /\ UNCHANGED <<phase, threads, opsQ, signal, db, completed, history>>

\* The collector hands its batch over: it is full, nothing more is queued,
\* or (durable mode) the window has elapsed
HandOver(e) ==
  /\ threads[e] = "both"
  /\ batch[e] # <<>>
  /\ \/ Len(batch[e]) >= MaxBatchOps
     \/ opsQ[e] = <<>>
     \/ WriteSync
  /\ commitQ' = [commitQ EXCEPT ![e] = Append(@, batch[e])]
  /\ batch' = [batch EXCEPT ![e] = <<>>]
  /\ UNCHANGED <<phase, threads, opsQ, signal, db, completed, history>>

\* The committer receives the next batch once it has dropped every sender
\* of the one before
Receive(e) ==
  /\ threads[e] # "none"
  /\ commitQ[e] # <<>>
  /\ signal[e] = <<>>
  /\ commitQ' = [commitQ EXCEPT ![e] = Tail(@)]
  /\ signal' = [signal EXCEPT ![e] = Head(commitQ[e])]
  /\ applied' = [applied EXCEPT ![e] = @ + Len(Head(commitQ[e]))]
  /\ UNCHANGED <<phase, threads, opsQ, batch, completed, log>>

\* Variant: the newest batch is written first
CommitNewest(e) ==
  LET c == commitQ[e] IN
  /\ threads[e] # "none"
  /\ c # <<>>
  /\ signal[e] = <<>>
  /\ commitQ' = [commitQ EXCEPT ![e] = SubSeq(c, 1, Len(c) - 1)]
  /\ signal' = [signal EXCEPT ![e] = c[Len(c)]]
  /\ applied' = [applied EXCEPT ![e] = @ + Len(c[Len(c)])]
  /\ db' = [db EXCEPT ![e] = Written(@, c[Len(c)])]
  /\ UNCHANGED <<phase, threads, opsQ, batch, completed, log, lost>>

\* write_opt succeeds: the whole batch becomes visible at once
Commit(e) ==
  /\ Receive(e)
  /\ db' = [db EXCEPT ![e] = Written(@, Head(commitQ[e]))]
  /\ UNCHANGED lost

\* write_opt fails: the error is only printed
CommitFail(e) ==
  /\ MayFail
  /\ Receive(e)
  /\ lost' = [lost EXCEPT ![e] = @ \cup {Head(commitQ[e])[i].n :
                                          i \in DOMAIN Head(commitQ[e])}]
  /\ UNCHANGED db

\* drop(done), one sender at a time: the ticket's receiver wakes
Complete(e) ==
  /\ signal[e] # <<>>
  /\ completed' = [completed EXCEPT ![e] = @ \cup {Head(signal[e]).n}]
  /\ signal' = [signal EXCEPT ![e] = Tail(@)]
  /\ UNCHANGED <<phase, threads, opsQ, batch, commitQ, db, history>>

-----------------------------------------------------------------------------
\* Drop for Storage: every Sender<WriteOp> is dropped
DropSenders ==
  /\ phase = "open"
  /\ phase' = "closing"
  /\ UNCHANGED <<threads, queues, db, completed, history>>

\* Variant: the collector stops on a flag, with operations still queued
CollectorExitAtOnce(e) ==
  /\ phase = "closing"
  /\ threads[e] = "both"
  /\ threads' = [threads EXCEPT ![e] = "committer"]
  /\ UNCHANGED <<phase, queues, db, completed, history>>

\* Variant: Drop joins the threads before it drops the senders
CollectorExitAfterJoin(e) ==
  /\ phase = "closed"
  /\ threads[e] = "both"
  /\ opsQ[e] = <<>>
  /\ batch[e] = <<>>
  /\ threads' = [threads EXCEPT ![e] = "committer"]
  /\ UNCHANGED <<phase, queues, db, completed, history>>

\* recv fails on a closed, drained channel: the collector returns, which
\* drops the sender of the batch channel
CollectorExit(e) ==
  /\ phase = "closing"
  /\ threads[e] = "both"
  /\ opsQ[e] = <<>>
  /\ batch[e] = <<>>
  /\ threads' = [threads EXCEPT ![e] = "committer"]
  /\ UNCHANGED <<phase, queues, db, completed, history>>

CommitterExit(e) ==
  /\ threads[e] = "committer"
  /\ commitQ[e] = <<>>
  /\ signal[e] = <<>>
  /\ threads' = [threads EXCEPT ![e] = "none"]
  /\ UNCHANGED <<phase, queues, db, completed, history>>

\* h.join() of every thread, then dbs.clear() releases the directory
Join ==
  /\ phase = "closing"
  /\ \A e \in Engines : threads[e] = "none"
  /\ phase' = "closed"
  /\ UNCHANGED <<threads, queues, db, completed, history>>

-----------------------------------------------------------------------------
Init ==
  /\ phase = "open"
  /\ threads = [e \in Engines |-> "both"]
  /\ opsQ = [e \in Engines |-> <<>>]
  /\ batch = [e \in Engines |-> <<>>]
  /\ commitQ = [e \in Engines |-> <<>>]
  /\ signal = [e \in Engines |-> <<>>]
  /\ db = [e \in Engines |-> [k \in Keys |-> Absent]]
  /\ completed = [e \in Engines |-> {}]
  /\ log = [e \in Engines |-> <<>>]
  /\ applied = [e \in Engines |-> 0]
  /\ lost = [e \in Engines |-> {}]

CollectorStep(e) == Collect(e) \/ HandOver(e) \/ CollectorExit(e)
CommitterStep(e) == Commit(e) \/ CommitFail(e) \/ Complete(e) \/ CommitterExit(e)

Sends ==
  \/ \E k \in Keys, v \in Vals : SendPut(k, v)
  \/ \E k \in Keys : SendDelete(k)
  \/ \E e \in Engines, r \in Ranges : SendDeleteRange(e, r)

Next ==
  \/ Sends
  \/ \E e \in Engines : CollectorStep(e) \/ CommitterStep(e)
  \/ DropSenders
  \/ Join

Spec == Init /\ [][Next]_vars

\* The two threads of an engine are OS threads that only block on their
\* channels; Drop runs to its end once it has begun
Fairness ==
  /\ \A e \in Engines : WF_vars(CollectorStep(e)) /\ WF_vars(CommitterStep(e))
  /\ WF_vars(Join)

FairSpec == Spec /\ Fairness

-----------------------------------------------------------------------------
\* The promise of OpLog, kept by the threads and channels above
Promise == INSTANCE OpLog WITH store <- db

\* Every step of the pipelines is a step of OpLog or invisible to it: the
\* channels, batches and threads of spawn_writer neither reorder, duplicate
\* nor drop an operation, and no ticket completes before its write_opt
ImplementsOpLog == Promise!Spec

\* The memtable shows the operations that went through write_opt and did not
\* fail, in the order the engine was sent them: batching never reorders, so
\* a DeleteRange never overtakes a row operation queued before it
EngineReflectsLog ==
  \A e \in Engines, k \in Keys :
    db[e][k] = Promise!Shown(log[e], (1 .. applied[e]) \ lost[e], k)

\* s holds the operations of l that follow its first a
IsBlock(s, l, a) ==
  /\ a + Len(s) <= Len(l)
  /\ \A i \in 1 .. Len(s) : s[i] = l[a + i]

\* Every operation of l bears its place in l
Numbered(l) == \A i \in 1 .. Len(l) : l[i].n = i

\* The place in the log that the first j batches of the channel c reach,
\* when the first a operations are through write_opt
Reach(c, a, j) == IF j = 0 THEN a ELSE c[j][Len(c[j])].n

\* The log l of an engine against what its channels q and c and the open
\* batch b hold: the collector has taken m operations and handed over h
QueuesInOrder(l, q, b, c, a, m, h) ==
  /\ Numbered(l)
  /\ Len(l) = m + Len(q) /\ IsBlock(q, l, m)
  /\ m = h + Len(b) /\ IsBlock(b, l, h)
  /\ \A j \in 1 .. Len(c) : c[j] # <<>> /\ IsBlock(c[j], l, Reach(c, a, j - 1))
  /\ Reach(c, a, Len(c)) = h

\* What the committer has done with the first a operations: those after the
\* first p are being completed (s), the others are complete, x failed
TicketsInOrder(l, s, a, done, x, p) ==
  /\ a = p + Len(s) /\ IsBlock(s, l, p)
  /\ done = 1 .. p
  /\ x \subseteq 1 .. a

InOrder(e) ==
  /\ \E m, h \in 0 .. Len(log[e]) :
       QueuesInOrder(log[e], opsQ[e], batch[e], commitQ[e], applied[e], m, h)
  /\ \E p \in 0 .. applied[e] :
       TicketsInOrder(log[e], signal[e], applied[e], completed[e], lost[e], p)

\* Between an engine's callers and its memtable no operation is reordered,
\* duplicated or dropped: the two channels and the open batch hold, end to
\* end, exactly the operations not yet through write_opt, and the tickets
\* completed are those of the operations before the ones in drop(done)
PipelineOrder == \A e \in Engines : InOrder(e)

\* A caller whose ticket completed finds its write in the engine, or a later
\* one on the same key, unless write_opt failed
CompletedIsVisible ==
  \A e \in Engines : \A n \in completed[e] \ lost[e] : \A k \in log[e][n].keys :
    \E m \in n .. Len(log[e]) :
      k \in log[e][m].keys /\ m \notin lost[e] /\ db[e][k] = log[e][m].val

\* When Drop for Storage returns, every operation an engine was ever sent
\* has been through write_opt and its ticket is complete
ClosedIsDrained ==
  phase = "closed" =>
    \A e \in Engines : applied[e] = Len(log[e]) /\ completed[e] = 1 .. Len(log[e])

\* A row's visible value only ever changes to what a later operation on it
\* wrote: a write or a range tombstone is never undone by one sent before it
NeverBackwards ==
  [][\A e \in Engines, k \in Keys :
       db'[e][k] # db[e][k] =>
         \E n \in applied[e] + 1 .. applied'[e] :
           k \in log[e][n].keys /\ db'[e][k] = log[e][n].val]_vars

\* Every ticket completes, whatever else is queued and even if the Storage
\* is dropped meanwhile: no request waits in settle for ever
TicketsComplete ==
  \A e \in Engines : \A n \in 1 .. MaxOps :
    (n <= Len(log[e])) ~> (n \in completed[e])

\* Drop for Storage returns
DropReturns == (phase = "closing") ~> (phase = "closed")

\* What the comment on settle says: when a ticket completes, its write is
\* committed to the engine's memtable
CompletedIsCommitted == \A e \in Engines : completed[e] \cap lost[e] = {}
=============================================================================
