--------------------------- MODULE ResponseWriter ---------------------------
(***************************************************************************)
(* The writer of a connection, from the response channel to the bytes of   *)
(* the socket.  It takes every response that is ready, up to a threshold   *)
(* of bytes, and writes them.  The tokio server calls write_vectored once  *)
(* for all of them; the monoio server calls write_all for each.  A socket  *)
(* accepts as many bytes as its buffer has room for.  Connection runs this *)
(* writer next to the reader and the tasks that send responses.            *)
(***************************************************************************)
EXTENDS Integers, Sequences, FiniteSets, Functions

CONSTANTS
  Runtimes,   \* "tokio" (server.rs), "monoio" (server_monoio.rs)
  FrameSize,  \* bytes of a response
  Threshold,  \* WRITE_FLUSH_THRESHOLD
  Capacity    \* capacity of the response channel

ASSUME WriterConstants ==
  /\ Runtimes \subseteq {"tokio", "monoio"}
  /\ {FrameSize, Threshold, Capacity} \subseteq Nat \ {0}

VARIABLES
  runtime,  \* which server this is
  open,     \* whether the client is still there
  chan,     \* resp_rx
  pending,  \* the batch being collected or written
  writer,   \* "collect", "write" or "done"
  offset,   \* bytes of the first pending response already written
  wire,     \* bytes the client receives: <<response, index>>
  short     \* history: a vectored write took only some of the bytes

writerVars == <<chan, pending, writer, offset, wire, short>>

Bytes(i) == [j \in 1 .. FrameSize |-> <<i, j>>]
\* The bytes of the responses s, one after the other
AllBytes(s) ==
  [k \in 1 .. Len(s) * FrameSize |->
     Bytes(s[((k - 1) \div FrameSize) + 1])[((k - 1) % FrameSize) + 1]]

\* A batch passes the threshold by at most one response
WriterTypeOK ==
  /\ runtime \in Runtimes
  /\ Len(chan) <= Capacity
  /\ (Len(pending) - 1) * FrameSize < Threshold
  /\ writer \in {"collect", "write", "done"}
  /\ offset \in 0 .. FrameSize - 1
  /\ {open, short} \subseteq BOOLEAN

\* The client has the response i to its last byte
Delivered(i) == <<i, FrameSize>> \in Range(wire)

WriterInit ==
  /\ runtime \in Runtimes
  /\ open = TRUE
  /\ chan = <<>>
  /\ pending = <<>>
  /\ writer = "collect"
  /\ offset = 0
  /\ wire = <<>>
  /\ short = FALSE

-----------------------------------------------------------------------------
\* Variant: try_send, which drops the response when the channel is full
RespondOrDrop(i) ==
  chan' = IF writer # "done" /\ Len(chan) < Capacity THEN Append(chan, i) ELSE chan
\* Variant: the error of a closed channel is not looked at
RespondForEver(i) == writer # "done" /\ Len(chan) < Capacity /\ chan' = Append(chan, i)
\* resp_tx.send: waits for room; once the writer is gone it fails at once and
\* the error is ignored
Respond(i) ==
  \/ writer # "done" /\ Len(chan) < Capacity /\ chan' = Append(chan, i)
  \/ writer = "done" /\ UNCHANGED chan

\* recv, or try_recv while the batch is below the threshold
Collect ==
  /\ writer = "collect"
  /\ chan # <<>>
  /\ Len(pending) * FrameSize < Threshold
  /\ pending' = Append(pending, Head(chan))
  /\ chan' = Tail(chan)
  /\ UNCHANGED <<writer, offset, wire, short>>

\* Variant: a batch below the threshold waits for more
FlushFull ==
  /\ writer = "collect"
  /\ Len(pending) * FrameSize >= Threshold
  /\ writer' = "write"
  /\ UNCHANGED <<chan, pending, offset, wire, short>>
\* try_recv finds nothing, or the threshold is reached
Flush ==
  /\ writer = "collect"
  /\ pending # <<>>
  /\ chan = <<>> \/ Len(pending) * FrameSize >= Threshold
  /\ writer' = "write"
  /\ UNCHANGED <<chan, pending, offset, wire, short>>

\* write_vectored: one call; its count is not looked at, the batch is cleared
WriteVectored ==
  LET out == AllBytes(pending) IN
  /\ runtime = "tokio" /\ writer = "write" /\ open
  /\ \E n \in 1 .. Len(out) :
       /\ wire' = wire \o SubSeq(out, 1, n)
       /\ short' = (short \/ n < Len(out))
  /\ pending' = <<>>
  /\ writer' = "collect"
  /\ UNCHANGED <<chan, offset>>

\* Variant: a write that was cut short starts again with the whole response
WriteAgain ==
  LET out == Bytes(Head(pending)) IN
  /\ runtime = "monoio" /\ writer = "write" /\ open
  /\ \E n \in 1 .. FrameSize :
       /\ wire' = wire \o SubSeq(out, 1, n)
       /\ pending' = IF n = FrameSize THEN Tail(pending) ELSE pending
  /\ writer' = IF pending' = <<>> THEN "collect" ELSE "write"
  /\ UNCHANGED <<chan, offset, short>>
\* write_all of the first pending response: some more of its bytes go out
WriteAll ==
  LET out == Bytes(Head(pending)) IN
  /\ runtime = "monoio" /\ writer = "write" /\ open
  /\ \E n \in offset + 1 .. FrameSize :
       /\ wire' = wire \o SubSeq(out, offset + 1, n)
       /\ offset' = n % FrameSize
       /\ pending' = IF n = FrameSize THEN Tail(pending) ELSE pending
  /\ writer' = IF pending' = <<>> THEN "collect" ELSE "write"
  /\ UNCHANGED <<chan, short>>

\* The client is gone: what is written is lost, or the write fails and the
\* writer returns, which closes the channel with what it holds
WriteToNobody ==
  /\ writer = "write" /\ ~open
  /\ pending' = <<>> /\ offset' = 0
  /\ \/ writer' = "collect" /\ UNCHANGED chan
     \/ writer' = "done" /\ chan' = <<>>
  /\ UNCHANGED <<wire, short>>

\* recv returns None once every sender is gone and the channel is empty
WriterEnds(sendersGone) ==
  /\ writer = "collect" /\ pending = <<>> /\ chan = <<>>
  /\ sendersGone
  /\ writer' = "done"
  /\ UNCHANGED <<chan, pending, offset, wire, short>>

-----------------------------------------------------------------------------
\* The client receives whole frames: a response starts at the beginning or
\* after the last byte of another one, and its bytes follow one another, as
\* long as no vectored write was cut short
WholeFrames ==
  ~short => \A k \in DOMAIN wire :
    IF wire[k][2] = 1 THEN k = 1 \/ wire[k - 1][2] = FrameSize
    ELSE k > 1 /\ wire[k - 1] = <<wire[k][1], wire[k][2] - 1>>
=============================================================================
