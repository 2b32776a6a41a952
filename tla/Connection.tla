----------------------------- MODULE Connection -----------------------------
(***************************************************************************)
(* One client connection (handle_connection).  The reader takes frames one *)
(* by one: control-plane requests and USE run on the reader itself, every  *)
(* other QUERY or EXECUTE gets a permit and a task of its own.  Responses  *)
(* go through a bounded channel to the writer (ResponseWriter).  A frame   *)
(* is known by its place in the client's stream, which stands for its      *)
(* stream id.                                                              *)
(***************************************************************************)
EXTENDS ResponseWriter

CONSTANTS
  Kinds,      \* kinds of frame the client sends, of those in FrameKind
  Permits,    \* PER_CONN_INFLIGHT
  IdSpace,    \* how many prepared ids there are (u16)
  MaxFrames   \* bound of the model: frames the client sends

\* "padded_use" is a USE whose text does not begin with "use "; "compressed"
\* a QUERY with a compressed body, which may not decompress; "fatal" a frame of
\* another protocol version or above MAX_FRAME_LENGTH; "panicking" a statement
\* whose execution panics (an UPDATE of a key column), which tokio catches and
\* monoio does not
FrameKind == {"startup", "use", "padded_use", "query", "compressed", "prepare",
              "execute", "fatal", "panicking"}

ASSUME ConnectionConstants ==
  /\ Kinds \subseteq FrameKind
  /\ {Permits, IdSpace} \subseteq Nat \ {0}
  /\ MaxFrames \in Nat

Places == 1 .. MaxFrames

VARIABLES
  frames,      \* what the client has sent: kind, and the PREPARE an EXECUTE is of
  taken,       \* number of frames the reader has read
  reader,      \* "read", "send" (a response), "permit" or "closed"
  closing,     \* the reader closes the connection once its response is sent
  compression, \* whether STARTUP negotiated one
  session,     \* session keyspace: the USE that set it, 0 for none
  prepared,    \* prepared: the PREPARE each id belongs to, 0 for none
  prepares,    \* next_prepared_id, counted from 0
  idOf,        \* the id a PREPARE was answered with
  task         \* per frame: the state of its task, "none" if it has none

conn == <<compression, session, prepared, prepares, idOf>>
vars == <<runtime, open, frames, taken, reader, closing, conn, task, writerVars>>

\* Every variable has its type, and no more requests run than there are permits
TypeOK ==
  /\ \A i \in DOMAIN frames : frames[i].kind \in Kinds
  /\ {closing, compression} \subseteq BOOLEAN
  /\ taken \in 0 .. Len(frames)
  /\ reader \in {"read", "send", "permit", "closed"}
  /\ session \in 0 .. MaxFrames
  /\ prepared \in [0 .. IdSpace - 1 -> 0 .. MaxFrames]
  /\ task \in [Places -> {"none", "start", "set_keyspace", "reply"}]
  /\ Cardinality({i \in Places : task[i] # "none"}) <= Permits
  /\ WriterTypeOK

\* What a step of the reader, or of a task, leaves alone of the writer's
readerFrame == <<runtime, open, frames, pending, writer, offset, wire, short>>

-----------------------------------------------------------------------------
\* The client sends a frame; it knows a prepared id once it has the response.
\* A frame it sends earlier waits in the socket until the reader is ready
ClientSend ==
  /\ open /\ Len(frames) < MaxFrames
  /\ reader = "read" /\ taken = Len(frames)
  /\ \E k \in Kinds, p \in {q \in Places : Delivered(q)} \cup {0} :
       /\ k = "panicking" => runtime = "tokio"
       /\ IF k = "execute" THEN p # 0 /\ frames[p].kind = "prepare" ELSE p = 0
       /\ frames' = Append(frames, [kind |-> k, of |-> p])
  /\ UNCHANGED <<runtime, open, taken, reader, closing, conn, task, writerVars>>

\* The client goes away; the server notices when it reads or writes
ClientGone ==
  /\ open
  /\ open' = FALSE
  /\ UNCHANGED <<runtime, frames, taken, reader, closing, conn, task, writerVars>>

\* Variant: USE is run like any other QUERY
NeverSessionUse(f) == FALSE
\* is_session_use: a QUERY whose text begins with "use "
IsSessionUse(f) == f.kind = "use"

\* Variant: the counter is not advanced
SamePreparedId(n) == 0
\* next_prepared_id.fetch_add: the n-th id, which wraps
PreparedId(n) == n % IdSpace

\* The reader reads a frame that it answers itself
ReadInline ==
  LET i == taken + 1
      f == frames[i]
  IN
  /\ reader = "read" /\ taken < Len(frames)
  /\ taken' = i
  /\ reader' = "send"
  /\ \/ /\ f.kind = "fatal"
        /\ closing' = TRUE
        /\ UNCHANGED conn
     \/ /\ f.kind = "compressed" /\ ~compression
        /\ UNCHANGED <<closing, conn>>
     \/ /\ f.kind = "startup"
        /\ compression' = TRUE
        /\ UNCHANGED <<closing, session, prepared, prepares, idOf>>
     \/ /\ IsSessionUse(f)
        /\ session' = i
        /\ UNCHANGED <<closing, compression, prepared, prepares, idOf>>
     \/ /\ f.kind = "prepare"
        /\ prepared' = [prepared EXCEPT ![PreparedId(prepares)] = i]
        /\ idOf' = [idOf EXCEPT ![i] = PreparedId(prepares)]
        /\ prepares' = prepares + 1
        /\ UNCHANGED <<closing, compression, session>>
  /\ UNCHANGED <<readerFrame, task, chan>>

\* ... and waits until the channel takes the response
SendInline ==
  /\ reader = "send"
  /\ Respond(taken)
  /\ reader' = IF closing THEN "closed" ELSE "read"
  /\ UNCHANGED <<readerFrame, taken, closing, conn, task>>

\* A body that does not decompress ends the connection without a response
ReadGarbled ==
  /\ reader = "read" /\ taken < Len(frames)
  /\ frames[taken + 1].kind = "compressed" /\ compression
  /\ taken' = taken + 1
  /\ reader' = "closed"
  /\ UNCHANGED <<readerFrame, closing, conn, task, chan>>

\* Any other frame waits for a permit ...
ReadQuery ==
  LET f == frames[taken + 1] IN
  /\ reader = "read" /\ taken < Len(frames)
  /\ \/ f.kind \in {"query", "execute", "use", "padded_use", "panicking"} /\ ~IsSessionUse(f)
     \/ f.kind = "compressed" /\ compression
  /\ taken' = taken + 1
  /\ reader' = "permit"
  /\ UNCHANGED <<readerFrame, closing, conn, task, chan>>

\* Variant: the task starts without a permit
SpawnAtOnce ==
  /\ reader = "permit"
  /\ task' = [task EXCEPT ![taken] = "start"]
  /\ reader' = "read"
  /\ UNCHANGED <<readerFrame, taken, closing, conn, chan>>

\* ... and gets a task
Spawn ==
  /\ reader = "permit"
  /\ Cardinality({i \in Places : task[i] # "none"}) < Permits
  /\ task' = [task EXCEPT ![taken] = "start"]
  /\ reader' = "read"
  /\ UNCHANGED <<readerFrame, taken, closing, conn, chan>>

\* read_exact fails or finds the end of the stream
ReadEnd ==
  /\ reader = "read" /\ ~open
  /\ reader' = "closed"
  /\ UNCHANGED <<readerFrame, taken, closing, conn, task, chan>>

-----------------------------------------------------------------------------
\* What handle_request takes from the connection when it runs frame i: the
\* session keyspace and, for EXECUTE, the prepared statement
KeyspaceOf(i) == session
StatementOf(i) == prepared[idOf[frames[i].of]]

\* handle_request executes the statement.  settle_then awaits its tickets,
\* which all complete (WritePipeline), before the response
Execute(i) ==
  LET f == frames[i] IN
  /\ task[i] = "start" /\ f.kind # "panicking"
  /\ task' = [task EXCEPT ![i] = IF f.kind \in {"use", "padded_use"} THEN "set_keyspace" ELSE "reply"]
  /\ UNCHANGED <<readerFrame, taken, reader, closing, conn, chan>>

\* The response of a USE sets the session keyspace
SetKeyspace(i) ==
  /\ task[i] = "set_keyspace"
  /\ session' = i
  /\ task' = [task EXCEPT ![i] = "reply"]
  /\ UNCHANGED <<readerFrame, taken, reader, closing, compression, prepared, prepares,
                 idOf, chan>>

\* The task sends its response and drops its permit
Reply(i) ==
  /\ task[i] = "reply"
  /\ Respond(i)
  /\ task' = [task EXCEPT ![i] = "none"]
  /\ UNCHANGED <<readerFrame, taken, reader, closing, conn>>

\* The runtime catches the panic of a task; its permit is dropped with it,
\* and its frame gets no response
Panic(i) ==
  /\ task[i] = "start" /\ frames[i].kind = "panicking"
  /\ task' = [task EXCEPT ![i] = "none"]
  /\ UNCHANGED <<readerFrame, taken, reader, closing, conn, chan>>

\* The reader and every task hold a sender of the channel
SendersGone == reader = "closed" /\ \A i \in Places : task[i] = "none"

WriterStep ==
  /\ \/ Collect \/ Flush \/ WriteVectored \/ WriteAll \/ WriteToNobody
     \/ WriterEnds(SendersGone)
  /\ UNCHANGED <<runtime, open, frames, taken, reader, closing, conn, task>>

-----------------------------------------------------------------------------
Init ==
  /\ WriterInit
  /\ frames = <<>>
  /\ taken = 0
  /\ reader = "read"
  /\ closing = FALSE
  /\ compression = FALSE
  /\ session = 0
  /\ prepared = [d \in 0 .. IdSpace - 1 |-> 0]
  /\ prepares = 0
  /\ idOf = [i \in Places |-> 0]
  /\ task = [i \in Places |-> "none"]

ReaderStep == ReadInline \/ SendInline \/ ReadGarbled \/ ReadQuery \/ Spawn \/ ReadEnd
TaskStep(i) == Execute(i) \/ Panic(i) \/ SetKeyspace(i) \/ Reply(i)

Next ==
  \/ ClientSend
  \/ ClientGone
  \/ ReaderStep
  \/ \E i \in Places : TaskStep(i)
  \/ WriterStep

Spec == Init /\ [][Next]_vars

\* The runtime polls every ready task; tickets complete (WritePipeline); the
\* client reads its socket as long as it is there
Fairness ==
  /\ WF_vars(ReaderStep)
  /\ \A i \in Places : WF_vars(TaskStep(i))
  /\ WF_vars(WriterStep)

FairSpec == Spec /\ Fairness

-----------------------------------------------------------------------------
Copies(i, s) == Cardinality({x \in DOMAIN s : s[x] = i})

\* How many responses to frame i exist or are still to be made
Responses(i) ==
  Copies(i, chan) + Copies(i, pending) + Copies(<<i, FrameSize>>, wire)
    + (IF task[i] # "none" THEN 1 ELSE 0)
    + (IF reader \in {"send", "permit"} /\ taken = i THEN 1 ELSE 0)

\* The code leaves a frame without a response if its task panics, or if its
\* body does not decompress: the reader has closed after it then
Unanswered(i) ==
  \/ frames[i].kind = "panicking"
  \/ frames[i].kind = "compressed" /\ compression /\ taken = i /\ reader = "closed"

\* A frame gets exactly one response, whatever runs next to it; none is
\* dropped by the channel or by the writer while the client is there, unless
\* a vectored write was cut short
OneResponseEach ==
  \A i \in Places :
    IF i <= taken /\ open /\ ~short /\ ~Unanswered(i)
    THEN Responses(i) = 1 ELSE Responses(i) <= 1

\* A statement runs under the keyspace of the last USE before it in the
\* stream, or of a later one: it never misses a USE that precedes it, as long
\* as is_session_use recognises them all
UseBeforeLater ==
  \A i \in Places :
    task[i] = "start" /\ (\A u \in 1 .. i : frames[u].kind # "padded_use") =>
      \A u \in 1 .. i - 1 : frames[u].kind = "use" => KeyspaceOf(i) >= u

\* An EXECUTE, whenever its task comes to run, runs the statement its client
\* prepared under that id
ExecutesPrepared ==
  \A i \in Places :
    task[i] = "start" /\ frames[i].kind = "execute" => StatementOf(i) = frames[i].of

\* Every request read is answered, to the last byte of the response, whatever
\* happens to other requests and also when the reader has closed; unless it is
\* one the code leaves without a response, the client goes away or a vectored
\* write is cut short.  (An answered request stays answered, so it is enough
\* that again and again none is open)
EveryRequestAnswered ==
  []<>(\A i \in Places : i <= taken /\ ~Unanswered(i) => Delivered(i) \/ ~open \/ short)

\* When the client goes away or the reader closes the connection, the reader,
\* every task with its permit and the writer come to an end: none waits for
\* room in the channel, or for a sender that is gone, for ever
ConnectionEnds ==
  (~open \/ reader = "closed") ~> (SendersGone /\ writer = "done")
=============================================================================
