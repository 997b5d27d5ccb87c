---------------------------- MODULE QmuxSession ----------------------------
(***************************************************************************)
(* The life of a QMux session (rs/qmux/src/session.rs): the exchange of    *)
(* transport parameters, the writer and reader tasks, and the teardown.    *)
(*                                                                         *)
(* Two endpoints run the same code over one byte stream.  Each has a       *)
(* writer task, a reader task, a timer and an application that holds the   *)
(* Session: it connects, opens a stream and writes to it, accepts, closes, *)
(* drops.  Every await is a point where another task may run; what a task  *)
(* does between two awaits is split where it takes a lock or publishes a   *)
(* value another task reads.                                               *)
(*                                                                         *)
(* Causes of a close: "own" and "peerApp" are ConnectionClosed with our    *)
(* code and the peer's, "peerConn" ConnectionReset, "violation" an error   *)
(* we detected, "io" whatever the transport says of its end (an I/O error; *)
(* a bare Error::Closed over a WebSocket, whose Session nobody waits for), *)
(* "idle", "handshake", and "closed" where no reason was found.            *)
(***************************************************************************)
EXTENDS Integers, Sequences, SequencesExt, FiniteSets

CONSTANTS
  Scripts,    \* what the two applications and their environment may do
  WireCap,    \* frames the transport buffers in one direction
  AcceptCap   \* capacity of the accept channel

Ends == {"client", "server"}
Other(e) == CHOOSE p \in Ends : p # e

\* "handshake": the entry point waits for the peer's parameters (connect() and
\* accept() over a byte stream); without it the Session is handed out at once
\* (the WebSocket entry points).  "open" and "again" are a stream each; "bad" is
\* a peer that breaks the protocol.
CallNames == {"handshake", "open", "again", "close", "drop", "idle", "timeout", "bad"}
ASSUME ScriptsAreKnown == Scripts \subseteq [Ends -> SUBSET CallNames]
ASSUME CapsArePositive == WireCap \in Nat \ {0} /\ AcceptCap \in Nat \ {0}

Causes == {"own", "peerApp", "peerConn", "violation", "io", "idle", "handshake", "closed"}
FrameKinds == {"params", "stream", "app", "conn", "bad"}

VARIABLES
  calls,      \* the script of this behaviour
  closed,     \* the watch channel with the close reason, or "none"
  control,    \* the control lane
  queued,     \* STREAM frames in the outbound queue
  outClosed,  \* outbound.close() was called
  writer,     \* where the writer task is
  frame,      \* the frame the writer is sending (while it is)
  reader,     \* where the reader task is
  err,        \* the error run() returned
  heard,      \* params_received
  limits,     \* Streams.peer_initial_max_stream_data_*: are they published?
  established,\* the established watch channel
  openCredit, \* open_uni_credit: "zero", "some", "closed"
  inbox,      \* streams in the accept channel
  handle,     \* the application's Session: "connecting", "held", "dropped"
  outcome,    \* what connect()/accept() returned: "none", "ok" or a cause
  opens,      \* streams the application has opened
  opening,    \* its open_uni() and the SendStream
  credit,     \* that stream's credit: "zero", "some", "closed"
  writing,    \* its write() call
  wire        \* what an endpoint sent and the other has not read

session == <<closed, established, outcome, handle>>
lanes == <<control, queued, outClosed>>
writerVars == <<writer, frame>>
readerVars == <<reader, err, heard>>
streamVars == <<limits, openCredit, opens, opening, credit, writing>>
vars == <<calls, session, lanes, writerVars, readerVars, streamVars, inbox, wire>>

May(e, call) == call \in calls[e]
Set(f, e, v) == [f EXCEPT ![e] = v]
Push(f, e, v) == [f EXCEPT ![e] = Append(@, v)]

----------------------------------------------------------------------------
(* Recording the close reason                                               *)

\* note_closed(): the first reason wins.
NoteClosed(e, cause) ==
  closed' = IF closed[e] = "none" THEN Set(closed, e, cause) ELSE closed

\* closed.send() and closed.send_replace(): the last one wins.
ReplaceClosed(e, cause) == closed' = Set(closed, e, cause)

----------------------------------------------------------------------------
(* The writer task                                                          *)

HasRoom(e) == Len(wire[e]) < WireCap

\* Mutant: stream data is picked ahead of the control lane.
NextStreamFirst(e) ==
  IF queued[e] > 0
  THEN /\ frame' = Set(frame, e, "stream")
       /\ queued' = [queued EXCEPT ![e] = @ - 1] /\ UNCHANGED control
  ELSE /\ control[e] # <<>> /\ frame' = Set(frame, e, Head(control[e]))
       /\ control' = Set(control, e, Tail(control[e])) /\ UNCHANGED queued

\* next_outbound(): control, then stream data.
NextOutbound(e) ==
  IF control[e] # <<>>
  THEN /\ frame' = Set(frame, e, Head(control[e]))
       /\ control' = Set(control, e, Tail(control[e])) /\ UNCHANGED queued
  ELSE /\ queued[e] > 0 /\ frame' = Set(frame, e, "stream")
       /\ queued' = [queued EXCEPT ![e] = @ - 1] /\ UNCHANGED control

PickFrame(e) ==
  /\ writer[e] = "run" /\ NextOutbound(e)
  /\ writer' = Set(writer, e, "send")
  /\ UNCHANGED <<calls, session, outClosed, readerVars, streamVars, inbox, wire>>

\* Nothing to send: the loop ends if the queue is closed, and otherwise goes on
\* to poll the close reason.
FindNothing(e) ==
  /\ writer[e] = "run" /\ control[e] = <<>> /\ queued[e] = 0
  /\ writer' = Set(writer, e, IF outClosed[e] THEN "shut" ELSE "polled")
  /\ UNCHANGED <<calls, session, lanes, frame, readerVars, streamVars, inbox, wire>>

\* A teardown seen by that poll moves on to the flush.  Otherwise the task parks,
\* and the poll that follows the wake looks at the lanes first (biased).
PollClosed(e) ==
  /\ writer[e] = "polled"
  /\ \/ closed[e] # "none" /\ writer' = Set(writer, e, "flush")
     \/ /\ control[e] # <<>> \/ queued[e] > 0 \/ outClosed[e]
        /\ writer' = Set(writer, e, "run")
  /\ UNCHANGED <<calls, session, lanes, frame, readerVars, streamVars, inbox, wire>>

\* transmit_or_teardown(): the write goes out, or finds the transport full, and
\* a write that is pending is abandoned once the session is closed.
Transmit(e) ==
  /\ writer[e] \in {"send", "pending"} /\ HasRoom(e)
  /\ wire' = Push(wire, e, frame[e])
  /\ writer' = Set(writer, e, "run") /\ frame' = Set(frame, e, "params")
  /\ UNCHANGED <<calls, session, lanes, readerVars, streamVars, inbox>>

WriteBlocks(e) ==
  /\ writer[e] = "send" /\ ~HasRoom(e)
  /\ writer' = Set(writer, e, "pending")
  /\ UNCHANGED <<calls, session, lanes, frame, readerVars, streamVars, inbox, wire>>

Interrupt(e) ==
  /\ writer[e] = "pending" /\ closed[e] # "none"
  /\ writer' = Set(writer, e, "dropped")
  /\ UNCHANGED <<calls, session, lanes, frame, readerVars, streamVars, inbox, wire>>

\* The peer's transport is gone: the write fails.
WriteFails(e) ==
  /\ writer[e] \in {"send", "pending"}
  /\ reader[Other(e)] = "done" /\ writer[Other(e)] \in {"done", "dropped"}
  /\ NoteClosed(e, "io")
  /\ writer' = Set(writer, e, "shut")
  /\ UNCHANGED <<calls, established, outcome, handle, lanes, frame, readerVars,
                 streamVars, inbox, wire>>

\* The flush of the control lane on teardown, one frame at a time.
Flush(e) ==
  /\ writer[e] = "flush"
  /\ IF control[e] = <<>>
     THEN writer' = Set(writer, e, "shut") /\ UNCHANGED <<control, wire>>
     ELSE /\ HasRoom(e) /\ wire' = Push(wire, e, Head(control[e]))
          /\ control' = Set(control, e, Tail(control[e])) /\ UNCHANGED writer
  /\ UNCHANGED <<calls, session, queued, outClosed, frame, readerVars, streamVars,
                 inbox>>

FlushFails(e) ==
  /\ writer[e] = "flush" /\ control[e] # <<>>
  /\ reader[Other(e)] = "done" /\ writer[Other(e)] \in {"done", "dropped"}
  /\ writer' = Set(writer, e, "shut")
  /\ UNCHANGED <<calls, session, lanes, frame, readerVars, streamVars, inbox, wire>>

\* Mutant: the writer stops without closing the transport.
StopSilently(e) ==
  /\ writer[e] = "shut" /\ writer' = Set(writer, e, "done")
  /\ UNCHANGED <<calls, session, lanes, frame, readerVars, streamVars, inbox, wire>>

\* writer.close(): the peer reads the end of the stream after what was sent.
Shutdown(e) ==
  /\ writer[e] = "shut"
  /\ wire' = Push(wire, e, "eof")
  /\ writer' = Set(writer, e, "done")
  /\ UNCHANGED <<calls, session, lanes, frame, readerVars, streamVars, inbox>>

Writer(e) ==
  \/ PickFrame(e) \/ FindNothing(e) \/ PollClosed(e) \/ Transmit(e)
  \/ WriteBlocks(e) \/ Interrupt(e) \/ WriteFails(e) \/ Flush(e) \/ FlushFails(e) \/ Shutdown(e)

----------------------------------------------------------------------------
(* The reader task                                                          *)

Incoming(e) == Head(wire[Other(e)])
Consumed(e) == wire' = [wire EXCEPT ![Other(e)] = Tail(@)]
CanRecv(e) == reader[e] = "run" /\ wire[Other(e)] # <<>>

\* run() returns: the teardown starts with this error.
Fail(e, cause) ==
  reader' = Set(reader, e, "notify") /\ err' = Set(err, e, cause)

\* Draft-02: the parameters come first, and once.
RecvViolation(e) ==
  /\ CanRecv(e)
  /\ \/ Incoming(e) = "bad"
     \/ Incoming(e) # "eof" /\ (Incoming(e) = "params" <=> heard[e])
  /\ Consumed(e) /\ Fail(e, "violation")
  /\ UNCHANGED <<calls, session, lanes, writerVars, heard, streamVars, inbox>>

\* recv_transport_parameters() raises the stream limit ...
RecvParams(e) ==
  /\ CanRecv(e) /\ Incoming(e) = "params" /\ ~heard[e]
  /\ Consumed(e)
  /\ heard' = Set(heard, e, TRUE)
  /\ openCredit' = IF openCredit[e] = "zero" THEN Set(openCredit, e, "some") ELSE openCredit
  /\ reader' = Set(reader, e, "seed")
  /\ UNCHANGED <<calls, session, lanes, writerVars, err, limits, opens, opening,
                 credit, writing, inbox>>

\* ... publishes the limits of the streams and credits those already open, under
\* one lock ...
SeedStreams(e) ==
  /\ reader[e] = "seed" /\ reader' = Set(reader, e, "establish")
  /\ limits' = Set(limits, e, TRUE)
  /\ credit' = IF opening[e] = "live" /\ credit[e] = "zero"
               THEN Set(credit, e, "some") ELSE credit
  /\ UNCHANGED <<calls, session, lanes, writerVars, err, heard, openCredit, opens,
                 opening, writing, inbox, wire>>

\* ... and signals that the session is established.
Establish(e) ==
  /\ reader[e] = "establish" /\ reader' = Set(reader, e, "run")
  /\ established' = Set(established, e, TRUE)
  /\ UNCHANGED <<calls, closed, outcome, handle, lanes, writerVars, err, heard,
                 streamVars, inbox, wire>>

\* A STREAM frame opens a stream; accept_uni.send() parks on a full channel.
RecvStream(e) ==
  /\ CanRecv(e) /\ Incoming(e) = "stream" /\ heard[e]
  /\ Consumed(e)
  /\ reader' = Set(reader, e, "offer")
  /\ UNCHANGED <<calls, session, lanes, writerVars, err, heard, streamVars, inbox>>

Offer(e) ==
  /\ reader[e] = "offer"
  /\ \/ /\ handle[e] # "dropped" /\ inbox[e] < AcceptCap
        /\ inbox' = [inbox EXCEPT ![e] = @ + 1]
        /\ reader' = Set(reader, e, "run") /\ UNCHANGED err
     \/ handle[e] = "dropped" /\ Fail(e, "closed") /\ UNCHANGED inbox
  /\ UNCHANGED <<calls, session, lanes, writerVars, heard, streamVars, wire>>

\* APPLICATION_CLOSE and CONNECTION_CLOSE are stored; the loop goes on.
RecvClose(e) ==
  /\ CanRecv(e) /\ Incoming(e) \in {"app", "conn"} /\ heard[e]
  /\ Consumed(e)
  /\ ReplaceClosed(e, IF Incoming(e) = "app" THEN "peerApp" ELSE "peerConn")
  /\ UNCHANGED <<calls, established, outcome, handle, lanes, writerVars, readerVars,
                 streamVars, inbox>>

\* The end of the stream, or a transport that is gone.
RecvEnd(e) ==
  /\ reader[e] = "run"
  /\ \/ CanRecv(e) /\ Incoming(e) = "eof" /\ Consumed(e)
     \/ /\ wire[Other(e)] = <<>> /\ UNCHANGED wire
        /\ writer[Other(e)] = "dropped" /\ reader[Other(e)] = "done"
  /\ Fail(e, "io")
  /\ UNCHANGED <<calls, session, lanes, writerVars, heard, streamVars, inbox>>

\* The closed branch of the select.
SeeClosed(e) ==
  /\ reader[e] = "run" /\ closed[e] # "none"
  /\ Fail(e, closed[e])
  /\ UNCHANGED <<calls, session, lanes, writerVars, heard, streamVars, inbox, wire>>

Reader(e) ==
  \/ RecvViolation(e) \/ RecvParams(e) \/ SeedStreams(e) \/ Establish(e) \/ RecvStream(e)
  \/ Offer(e) \/ RecvClose(e) \/ RecvEnd(e) \/ SeeClosed(e)

----------------------------------------------------------------------------
(* The teardown that follows run()                                          *)

\* Mutant: the stream-count credits stay open.
KeepCredits(e) ==
  /\ reader[e] = "notify" /\ reader' = Set(reader, e, "queue")
  /\ control' = IF err[e] = "violation" THEN Push(control, e, "conn") ELSE control
  /\ UNCHANGED <<calls, session, queued, outClosed, writerVars, err, heard, streamVars,
                 inbox, wire>>

\* transport_close(): a violation we detected is told to the peer.  Then the
\* stream-count credits are closed.
CloseCredits(e) ==
  /\ reader[e] = "notify" /\ reader' = Set(reader, e, "queue")
  /\ control' = IF err[e] = "violation" THEN Push(control, e, "conn") ELSE control
  /\ openCredit' = Set(openCredit, e, "closed")
  /\ UNCHANGED <<calls, session, queued, outClosed, writerVars, err, heard, limits,
                 opens, opening, credit, writing, inbox, wire>>

CloseQueue(e) ==
  /\ reader[e] = "queue" /\ reader' = Set(reader, e, "streams")
  /\ outClosed' = Set(outClosed, e, TRUE)
  /\ UNCHANGED <<calls, session, control, queued, writerVars, err, heard, streamVars,
                 inbox, wire>>

CloseStreams(e) ==
  /\ reader[e] = "streams" /\ reader' = Set(reader, e, "store")
  /\ credit' = IF opening[e] = "live" THEN Set(credit, e, "closed") ELSE credit
  /\ UNCHANGED <<calls, session, lanes, writerVars, err, heard, limits, openCredit,
                 opens, opening, writing, inbox, wire>>

\* Mutant: the task ends without storing its reason.
ForgetReason(e) ==
  /\ reader[e] = "store" /\ reader' = Set(reader, e, "drop")
  /\ UNCHANGED <<calls, session, lanes, writerVars, err, heard, streamVars, inbox,
                 wire>>

StoreReason(e) ==
  /\ reader[e] = "store" /\ reader' = Set(reader, e, "drop")
  /\ ReplaceClosed(e, err[e])
  /\ UNCHANGED <<calls, established, outcome, handle, lanes, writerVars, err, heard,
                 streamVars, inbox, wire>>

\* The task drops its half of the transport, the accept channel and the sender
\* of established.
DropBackend(e) ==
  /\ reader[e] = "drop" /\ reader' = Set(reader, e, "done")
  /\ UNCHANGED <<calls, session, lanes, writerVars, err, heard, streamVars, inbox,
                 wire>>

Teardown(e) ==
  \/ CloseCredits(e) \/ CloseQueue(e) \/ CloseStreams(e)
  \/ StoreReason(e) \/ DropBackend(e)

----------------------------------------------------------------------------
(* The application and the timer                                            *)

\* established(): the wait ends with the signal, or with the backend.
ConnectReturns(e) ==
  /\ handle[e] = "connecting" /\ (established[e] \/ reader[e] = "done")
  /\ IF established[e]
     THEN /\ outcome' = Set(outcome, e, "ok") /\ handle' = Set(handle, e, "held")
          /\ UNCHANGED closed
     ELSE /\ outcome' = Set(outcome, e, IF closed[e] = "none" THEN "closed" ELSE closed[e])
          /\ handle' = Set(handle, e, "dropped") /\ NoteClosed(e, "closed")
  /\ UNCHANGED <<calls, established, lanes, writerVars, readerVars, streamVars, inbox,
                 wire>>

\* The handshake timeout: tell the peer, store the reason, drop the Session.
ConnectTimesOut(e) ==
  /\ May(e, "timeout") /\ handle[e] = "connecting" /\ ~established[e]
  /\ control' = Push(control, e, "conn")
  /\ ReplaceClosed(e, "handshake")
  /\ outcome' = Set(outcome, e, "handshake") /\ handle' = Set(handle, e, "dropped")
  /\ UNCHANGED <<calls, established, queued, outClosed, writerVars, readerVars,
                 streamVars, inbox, wire>>

\* close(): enqueue the frame, then flip closed.  send() stores the reason only
\* if someone listens: the timer does until there is one.
\* Bound: the application closes a session that it has not seen closed.
Close(e) ==
  /\ May(e, "close") /\ handle[e] = "held" /\ closed[e] = "none"
  /\ control' = Push(control, e, "app")
  /\ ReplaceClosed(e, "own")
  /\ UNCHANGED <<calls, established, outcome, handle, queued, outClosed, writerVars,
                 readerVars, streamVars, inbox, wire>>

\* The last handle is dropped: SessionGuard notes the reason.
DropSession(e) ==
  /\ May(e, "drop") /\ handle[e] = "held" /\ opening[e] # "waiting"
  /\ handle' = Set(handle, e, "dropped") /\ inbox' = Set(inbox, e, 0)
  /\ NoteClosed(e, "closed")
  /\ UNCHANGED <<calls, established, outcome, lanes, writerVars, readerVars,
                 streamVars, wire>>

Accept(e) ==
  /\ handle[e] = "held" /\ inbox[e] > 0
  /\ inbox' = [inbox EXCEPT ![e] = @ - 1]
  /\ UNCHANGED <<calls, session, lanes, writerVars, readerVars, streamVars, wire>>

\* The idle timer fires (see IdleTimer for when).
IdleFires(e) ==
  /\ May(e, "idle") /\ established[e] /\ closed[e] = "none"
  /\ NoteClosed(e, "idle")
  /\ UNCHANGED <<calls, established, outcome, handle, lanes, writerVars, readerVars,
                 streamVars, inbox, wire>>

\* A peer that breaks the protocol.
Misbehave(e) ==
  /\ May(e, "bad") /\ writer[e] = "run" /\ wire[e] = <<>> /\ err[Other(e)] = "none"
  /\ wire' = Push(wire, e, "bad")
  /\ UNCHANGED <<calls, session, lanes, writerVars, readerVars, streamVars, inbox>>

\* Bound: the streams an application opens.
OpensMax(e) == Cardinality(calls[e] \cap {"open", "again"})

\* open_uni(): wait for the stream limit, then register under the lock.  A
\* stream whose write returned is not followed any further.
OpenUni(e) ==
  /\ opens[e] < OpensMax(e) /\ handle[e] = "held"
  /\ opening[e] = "none" \/ writing[e] = "done"
  /\ opens' = [opens EXCEPT ![e] = @ + 1] /\ opening' = Set(opening, e, "waiting")
  /\ credit' = Set(credit, e, "zero") /\ writing' = Set(writing, e, "none")
  /\ UNCHANGED <<calls, session, lanes, writerVars, readerVars, limits, openCredit,
                 inbox, wire>>

ClaimIndex(e) ==
  /\ opening[e] = "waiting" /\ openCredit[e] # "zero"
  /\ opening' = Set(opening, e, IF openCredit[e] = "some" THEN "claimed" ELSE "failed")
  /\ UNCHANGED <<calls, session, lanes, writerVars, readerVars, limits, openCredit,
                 opens, credit, writing, inbox, wire>>

Register(e) ==
  /\ opening[e] = "claimed" /\ opening' = Set(opening, e, "live")
  /\ credit' = IF limits[e] THEN Set(credit, e, "some") ELSE credit
  /\ UNCHANGED <<calls, session, lanes, writerVars, readerVars, limits, openCredit,
                 opens, writing, inbox, wire>>

\* write(): reserve a slot, wait for credit, send.
Reserve(e) ==
  /\ opening[e] = "live" /\ writing[e] = "none"
  /\ writing' = Set(writing, e, IF outClosed[e] THEN "failed" ELSE "credit")
  /\ UNCHANGED <<calls, session, lanes, writerVars, readerVars, limits, openCredit,
                 opens, opening, credit, inbox, wire>>

ClaimCredit(e) ==
  /\ writing[e] = "credit" /\ credit[e] # "zero"
  /\ IF credit[e] = "some" /\ ~outClosed[e]
     THEN writing' = Set(writing, e, "done") /\ queued' = [queued EXCEPT ![e] = @ + 1]
     ELSE writing' = Set(writing, e, "failed") /\ UNCHANGED queued
  /\ UNCHANGED <<calls, session, control, outClosed, writerVars, readerVars, limits,
                 openCredit, opens, opening, credit, inbox, wire>>

Application(e) ==
  \/ ConnectReturns(e) \/ Accept(e) \/ ClaimIndex(e) \/ Register(e) \/ Reserve(e)
  \/ ClaimCredit(e)

Environment(e) ==
  \/ ConnectTimesOut(e) \/ Close(e) \/ DropSession(e) \/ IdleFires(e) \/ Misbehave(e)
  \/ OpenUni(e)

----------------------------------------------------------------------------

\* Session::new(): the parameters lead the control lane.
Init ==
  /\ closed = [e \in Ends |-> "none"] /\ established = [e \in Ends |-> FALSE]
  /\ outcome = [e \in Ends |-> "none"] /\ calls \in Scripts
  /\ handle = [e \in Ends |-> IF May(e, "handshake") THEN "connecting" ELSE "held"]
  /\ control = [e \in Ends |-> <<"params">>]
  /\ queued = [e \in Ends |-> 0] /\ outClosed = [e \in Ends |-> FALSE]
  /\ writer = [e \in Ends |-> "run"] /\ frame = [e \in Ends |-> "params"]
  /\ reader = [e \in Ends |-> "run"] /\ err = [e \in Ends |-> "none"]
  /\ heard = [e \in Ends |-> FALSE] /\ limits = [e \in Ends |-> FALSE]
  /\ openCredit = [e \in Ends |-> "zero"] /\ inbox = [e \in Ends |-> 0]
  /\ opens = [e \in Ends |-> 0] /\ opening = [e \in Ends |-> "none"] /\ credit = [e \in Ends |-> "zero"]
  /\ writing = [e \in Ends |-> "none"] /\ wire = [e \in Ends |-> <<>>]

System(e) == Writer(e) \/ Reader(e) \/ Teardown(e) \/ Application(e)

Next ==
  \E e \in Ends : System(e) \/ Environment(e)

Spec == Init /\ [][Next]_vars

\* The executor polls a task that can run and a call that is under way, and the
\* application takes the streams it is offered.  No behaviour is infinite (every
\* step uses up a frame, a call or a stage of a task), so that the program does
\* not stop while one of them can go on is all the fairness it takes.
FairSpec == Spec /\ WF_vars(\E e \in Ends : System(e))

----------------------------------------------------------------------------
(* Properties                                                               *)

TypeOK ==
  /\ calls \in Scripts
  /\ closed \in [Ends -> Causes \cup {"none"}] /\ err \in [Ends -> Causes \cup {"none"}]
  /\ established \in [Ends -> BOOLEAN] /\ heard \in [Ends -> BOOLEAN]
  /\ limits \in [Ends -> BOOLEAN] /\ outClosed \in [Ends -> BOOLEAN]
  /\ outcome \in [Ends -> Causes \cup {"none", "ok"}]
  /\ handle \in [Ends -> {"connecting", "held", "dropped"}]
  /\ control \in [Ends -> Seq(FrameKinds)] /\ wire \in [Ends -> Seq(FrameKinds \cup {"eof"})]
  /\ queued \in [Ends -> Nat] /\ inbox \in [Ends -> 0..AcceptCap]
  /\ writer \in [Ends -> {"run", "polled", "send", "pending", "flush", "shut",
                          "done", "dropped"}]
  /\ frame \in [Ends -> FrameKinds]
  /\ reader \in [Ends -> {"run", "seed", "establish", "offer", "notify", "queue",
                          "streams", "store", "drop", "done"}]
  /\ openCredit \in [Ends -> {"zero", "some", "closed"}]
  /\ credit \in [Ends -> {"zero", "some", "closed"}]
  /\ opens \in [Ends -> 0..2]
  /\ opening \in [Ends -> {"none", "waiting", "claimed", "live", "failed"}]
  /\ writing \in [Ends -> {"none", "credit", "done", "failed"}]

\* Two endpoints that follow the protocol never accuse each other: whatever the
\* applications do while the parameters are on their way, each sends its own
\* first and once.
HonestNotAccused ==
  \A e \in Ends : err[e] = "violation" => May(Other(e), "bad")

\* A stream opened around the arrival of the parameters is credited: either the
\* handler finds it in the map or open_uni finds the published limits.
StreamsSeeded ==
  \A e \in Ends : limits[e] /\ opening[e] = "live" => credit[e] # "zero"

\* The exchange of parameters is safe against streams opened and frames sent
\* around it.
HandshakeSafe == TypeOK /\ HonestNotAccused /\ StreamsSeeded

\* A connect() or accept() that fails says why: the reason is stored before the
\* waiter can notice that the backend is gone.
ConnectExplains == \A e \in Ends : outcome[e] # "closed"

Pending(e) ==
  \/ handle[e] = "connecting" \/ opening[e] \in {"waiting", "claimed"}
  \/ writing[e] = "credit"

\* Once a session is closed every call on it returns: connect(), open_uni() and
\* write(), wherever the teardown found them.
CallsReturn == \A e \in Ends : closed[e] # "none" /\ Pending(e) ~> ~Pending(e)

\* A close at one end closes the other.
ClosePropagates == \A e \in Ends : closed[e] # "none" ~> closed[Other(e)] # "none"

\* note_closed says that teardown reports a single, stable cause and that the
\* first reason wins: a reason that was stored is never replaced.
\* It does not hold: the reader and close() overwrite it.
StableCause == [][\A e \in Ends : closed[e] # "none" => closed'[e] = closed[e]]_vars
============================================================================
