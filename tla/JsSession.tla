----------------------------- MODULE JsSession -----------------------------
(***************************************************************************)
(* Two ends of a QMux session in TypeScript (src/js/qmux/src): streams,    *)
(* flow control, the send scheduler and the end of the session.  The code  *)
(* runs on one event loop per end, so a step is what runs between two      *)
(* awaits: a frame handled, an application call, one turn of the writer    *)
(* loop.  What an await gives up is kept as the phase of a writer, and a   *)
(* closure's hold on a flow-control record as the record itself, which     *)
(* outlives its entry in the map streamFlow.                               *)
(*                                                                         *)
(* Bytes are counted.  The socket is FIFO and loses nothing until it is    *)
(* cut.  The version is a QMux draft; both ends have the same Config.      *)
(***************************************************************************)
EXTENDS Integers, Sequences, FiniteSets, Functions

CONSTANTS
  Plans,         \* what a behaviour is about: [streams : the ids it may use,
                 \* bytes : bytes written per stream by each end, ops : calls,
                 \* limit : config.maxStreams*]
  ConnWindow,    \* config.maxData
  StreamWindow,  \* config.maxStreamData*
  MaxFrame       \* bytes in one STREAM frame

Ends == {"client", "server"}
Dirs == {"bi", "uni"}
Peer(e) == IF e = "client" THEN "server" ELSE "client"
AtMost(a, b) == IF a < b THEN a ELSE b
AtLeast(a, b) == IF a < b THEN b ELSE a

\* Stream.Id: who opened the stream, its direction, its index.
StreamIds == UNION {p.streams : p \in Plans}

ASSUME JsAssumption ==
  /\ ConnWindow \in Nat \ {0} /\ StreamWindow \in Nat \ {0} /\ MaxFrame \in Nat \ {0}
  /\ IsFiniteSet(StreamIds) /\ StreamIds \subseteq [by : Ends, dir : Dirs, index : Nat]
  /\ \A p \in Plans : p.limit \in Nat \ {0} /\ p.bytes \in [Ends -> Nat]

CanRecv(e, s) == s.dir = "bi" \/ s.by # e
CanSend(e, s) == s.dir = "bi" \/ s.by = e

VARIABLES
  plan,    \* the plan of this behaviour, chosen at the start
  sess,    \* the Session object of each end
  wire,    \* frames each end has written and the other has not read
  cut,     \* whether the socket is gone
  hist     \* [End -> what the end did]: see NoHistory

vars == <<plan, sess, wire, cut, hist>>

(***************************** one session object **************************)

NoFlow == [max |-> 0, used |-> 0, shut |-> FALSE, sendOffset |-> 0,
           recvMax |-> 0, recvOffset |-> 0, recvConsumed |-> 0]
NoRecv == [queue |-> <<>>, fin |-> FALSE, error |-> FALSE, terminal |-> FALSE,
           accepted |-> FALSE, replenished |-> FALSE, cancelled |-> FALSE]
\* at: none, idle, stream and conn (parked on a credit), hold (claimed one unit
\* to test the connection), queued, closing, closed, failed.
NoWriter == [at |-> "none", left |-> 0, held |-> 0, woken |-> FALSE,
             errored |-> FALSE, abort |-> FALSE, wrote |-> 0]
\* What the properties compare the state with: bytes of STREAM frames on the
\* wire and how many were claimed, what was read, streams reset on the wire,
\* streams the acceptor handed out, close() called.
NoHistory == [put |-> [s \in StreamIds |-> 0], paid |-> 0, got |-> [s \in StreamIds |-> 0],
              reset |-> {}, trailed |-> {}, handed |-> <<>>, asked |-> FALSE]

NewSession(e) ==
  [me |-> e, closed |-> "open", params |-> FALSE,
   conn |-> [used |-> 0, max |-> 0],
   opens |-> [d \in Dirs |-> [used |-> 0, max |-> 0]], next |-> [d \in Dirs |-> 0],
   quota |-> [d \in Dirs |-> [used |-> 0, max |-> plan.limit, released |-> 0]],
   data |-> [offset |-> 0, max |-> ConnWindow, consumed |-> 0],
   recorded |-> {}, flow |-> [s \in StreamIds |-> NoFlow], streamFlow |-> {},
   sendStreams |-> {}, recvStreams |-> {},
   recv |-> [s \in StreamIds |-> NoRecv], writer |-> [s \in StreamIds |-> NoWriter],
   pending |-> [d \in Dirs |-> <<>>], cancelled |-> {}, order |-> [s \in StreamIds |-> 0],
   control |-> <<[type |-> "params"]>>, ready |-> <<>>, inflight |-> <<>>]

\* sendPriorityFrame: control frames queue ahead of stream data; nothing is
\* queued once the session is closed.
SendPriorityFrame(x, f) ==
  IF x.closed # "open" THEN x ELSE [x EXCEPT !.control = Append(@, f)]

TryClaim(credit, limit) ==
  IF credit.max > credit.used THEN AtMost(limit, credit.max - credit.used) ELSE 0

\* Credit.#wake for the writers parked on the connection's credit, on a stream's.
WakeConn(x) ==
  [x EXCEPT !.writer = [s \in StreamIds |->
     IF @[s].at = "conn" THEN [@[s] EXCEPT !.woken = TRUE] ELSE @[s]]]
WakeStream(x, s) ==
  IF x.writer[s].at = "stream" THEN [x EXCEPT !.writer[s].woken = TRUE] ELSE x

\* Mutant: credit is given back without waking those who wait for it.
ReleaseConnSilent(x, n) == [x EXCEPT !.conn.used = IF @ > n THEN @ - n ELSE 0]

\* release is floored at zero.
ReleaseConn(x, n) ==
  IF n = 0 THEN x
  ELSE WakeConn([x EXCEPT !.conn.used = IF @ > n THEN @ - n ELSE 0])
ReleaseStream(x, s, n) ==
  IF n = 0 \/ s \notin x.streamFlow THEN x
  ELSE WakeStream([x EXCEPT !.flow[s].used = IF @ > n THEN @ - n ELSE 0], s)

IncreaseConn(x, max) ==
  IF max <= x.conn.max THEN x ELSE WakeConn([x EXCEPT !.conn.max = max])
IncreaseStream(x, s, max) ==
  IF s \notin x.streamFlow \/ max <= x.flow[s].max THEN x
  ELSE WakeStream([x EXCEPT !.flow[s].max = max], s)
IncreaseOpens(x, d, max) == [x EXCEPT !.opens[d].max = AtLeast(@, max)]

(******************************** receive side *****************************)

\* replenishWindow: a new limit once half of the window is used up, measured
\* from what the application consumed.  0 when there is nothing to announce.
ReplenishWindow(consumed, max, window) ==
  IF max <= consumed + window \div 2 THEN consumed + window ELSE 0

MaybeSendMaxData(x) ==
  LET new == ReplenishWindow(x.data.consumed, x.data.max, ConnWindow)
  IN IF new = 0 THEN x
     ELSE SendPriorityFrame([x EXCEPT !.data.max = new], [type |-> "max_data", max |-> new])

AccountConnConsumed(x, n) ==
  IF n = 0 THEN x ELSE MaybeSendMaxData([x EXCEPT !.data.consumed = @ + n])

MaybeSendMaxStreamData(x, s) ==
  LET new == ReplenishWindow(x.flow[s].recvConsumed, x.flow[s].recvMax, StreamWindow)
  IN IF new = 0 THEN x
     ELSE SendPriorityFrame([x EXCEPT !.flow[s].recvMax = new],
                            [type |-> "max_stream_data", id |-> s, max |-> new])

AccountStreamConsumed(x, s, n) ==
  IF n = 0 \/ s \notin x.streamFlow THEN x
  ELSE MaybeSendMaxStreamData([x EXCEPT !.flow[s].recvConsumed = @ + n], s)

\* Credit.consume(1) on the quota of the direction, announced when it moved.
ReplenishStreamCredit(x, d) ==
  LET q == [x.quota[d] EXCEPT !.released = @ + 1]
      new == q.max + q.released
  IN IF q.used + 2 * q.released > q.max
     THEN SendPriorityFrame([x EXCEPT !.quota[d] = [q EXCEPT !.max = new, !.released = 0]],
                            [type |-> "max_streams", dir |-> d, max |-> new])
     ELSE [x EXCEPT !.quota[d] = q]

\* maybeReplenishStreamCredit: once, when the stream is accepted and terminal.
MaybeReplenish(x, s) ==
  LET r == x.recv[s]
  IN IF s.by = x.me \/ ~r.accepted \/ ~r.terminal \/ r.replenished THEN x
     ELSE ReplenishStreamCredit([x EXCEPT !.recv[s].replenished = TRUE], s.dir)
OnAccept(x, s) == MaybeReplenish([x EXCEPT !.recv[s].accepted = TRUE], s)
NotifyTerminal(x, s) == MaybeReplenish([x EXCEPT !.recv[s].terminal = TRUE], s)

Buffered(r) == SumFunction(r.queue)

\* RecvStream.error and the bytes it says it discarded.
Errored(x, s) ==
  IF x.recv[s].error THEN x ELSE [x EXCEPT !.recv[s].error = TRUE, !.recv[s].queue = <<>>]
Discarded(x, s) == IF x.recv[s].error THEN 0 ELSE Buffered(x.recv[s])

\* A receive side fails and its caller accounts for what was discarded.
ErrorRecv(x, s) == AccountConnConsumed(Errored(x, s), Discarded(x, s))

\* #dropPending: the streams that wait for the acceptor fail, one by one.
DropAll(x, q) ==
  LET f[i \in 0..Len(q)] == IF i = 0 THEN x ELSE ErrorRecv(f[i - 1], q[i])
  IN f[Len(q)]

\* Both halves are gone: the record leaves the map and its credit closes.
DropFlow(x, s) ==
  IF s \in x.sendStreams \cup x.recvStreams THEN x
  ELSE [x EXCEPT !.streamFlow = @ \ {s}, !.flow[s].shut = @ \/ s \in x.streamFlow]

SendFinalSize(x, s) == IF s \in x.streamFlow THEN x.flow[s].sendOffset ELSE 0

\* The abort algorithm of a writer.  The WritableStream runs it when no
\* operation is in progress, so no frame of the stream is in the scheduler.
AbortAlgorithm(x, s) ==
  LET y == SendPriorityFrame(x, [type |-> "reset", id |-> s, size |-> SendFinalSize(x, s)])
  IN DropFlow([y EXCEPT !.sendStreams = @ \ {s},
                        !.order[s] = 0,
                        !.writer[s] = [@ EXCEPT !.at = "failed", !.held = 0, !.abort = FALSE]], s)

\* A writer's operation rejects: the WritableStream is errored, and an abort that
\* waited for the operation runs.
FailWriter(x, s) ==
  IF x.writer[s].abort THEN AbortAlgorithm(x, s)
  ELSE [x EXCEPT !.writer[s] = [@ EXCEPT !.at = "failed", !.held = 0, !.woken = FALSE]]

\* A claim parked on the credit of a deleted record rejects.
MaybeDeleteStreamFlow(x, s) ==
  LET y == DropFlow(x, s)
  IN IF y.flow[s].shut /\ x.writer[s].at = "stream" THEN FailWriter(y, s) ELSE y

(********************************* send side *******************************)

\* Connection credit in the hands of a writer.
Claimed(w) == IF w.at = "hold" THEN 1 ELSE w.held

\* One round of claimSendCredit: the stream's credit, then the connection's, and
\* the frame is queued; or the writer parks on the credit that was missing.  A
\* write whose flow record left the map is sent without claiming anything.
ClaimSendCredit(x, s) ==
  LET w == x.writer[s]
      want == AtMost(w.left, MaxFrame)
      a == TryClaim(x.flow[s], want)
      n == TryClaim(x.conn, a)
      Queued(y, held) ==
        [y EXCEPT !.writer[s] = [@ EXCEPT !.at = "queued", !.held = held, !.woken = FALSE],
                  !.ready = Append(@, [type |-> "stream", id |-> s, fin |-> FALSE,
                                       n |-> IF held = 0 THEN want ELSE held])]
  IN IF w.at = "queued" /\ s \notin x.streamFlow THEN Queued(x, 0)
     ELSE IF a = 0 THEN IF x.flow[s].shut THEN FailWriter(x, s)
                        ELSE [x EXCEPT !.writer[s].at = "stream", !.writer[s].woken = FALSE]
     ELSE IF n = 0 THEN [x EXCEPT !.writer[s].at = "conn", !.writer[s].woken = FALSE]
     ELSE Queued([x EXCEPT !.conn.used = @ + n, !.flow[s].used = @ + n], n)

\* Mutant: only the stream's credit goes back.
RejectQueuedHalf(x, s) == FailWriter(ReleaseStream(x, s, x.writer[s].held), s)

\* The frame of a write was rejected: its credit goes back.
RejectQueued(x, s) ==
  LET n == x.writer[s].held
  IN FailWriter(ReleaseConn(ReleaseStream(x, s, n), n), s)

Without(q, i) == [j \in 1..Len(q) - 1 |-> IF j < i THEN q[j] ELSE q[j + 1]]

\* dropStream: the stream's frame, if it is still in #ready, is removed and its
\* promise rejects.  The frame the loop has already taken is not there any more.
DropStream(x, s) ==
  LET y == [x EXCEPT !.order[s] = 0]
      waiting == {i \in DOMAIN x.ready : x.ready[i].id = s}
  IN IF waiting = {} THEN y
     ELSE RejectQueued([y EXCEPT !.ready = Without(@, CHOOSE i \in waiting : TRUE)], s)

\* The operation in progress has ended well: an abort waiting for it runs, an
\* errored stream is failed for good.
Settled(x, s) ==
  IF x.writer[s].abort THEN AbortAlgorithm(x, s)
  ELSE IF x.writer[s].errored THEN FailWriter(x, s)
  ELSE [x EXCEPT !.writer[s].at = "idle"]

(****************************** end of a session ***************************)

\* #teardown, then the microtasks of everything it rejected.  The session is
\* marked closed already.  Bytes of the streams that wait for the acceptor are
\* accounted as consumed; what the other receive sides discard is not.  Frames of
\* control that are queued still leave; stream frames do not, except the one being
\* written.
Teardown(x, how) ==
  LET z == DropAll(DropAll([x EXCEPT !.closed = how], x.pending["bi"]), x.pending["uni"])
  IN [z EXCEPT
        !.pending = [d \in Dirs |-> <<>>],
        !.recv = [s \in StreamIds |->
           IF s \in z.recvStreams THEN [z.recv[s] EXCEPT !.error = TRUE, !.queue = <<>>] ELSE z.recv[s]],
        !.writer = [s \in StreamIds |-> LET w == z.writer[s] IN
           IF w.at = "none" THEN w
           ELSE IF z.inflight # <<>> /\ z.inflight[1].id = s THEN [w EXCEPT !.errored = TRUE]
           ELSE IF w.at = "closed" THEN w
           ELSE [w EXCEPT !.at = "failed", !.held = 0, !.woken = FALSE]],
        !.conn = [z.conn EXCEPT !.used = @ - SumFunction(
           [s \in StreamIds |-> IF z.inflight # <<>> /\ z.inflight[1].id = s THEN 0
                                ELSE Claimed(z.writer[s])])],
        !.flow = [s \in StreamIds |-> [z.flow[s] EXCEPT !.shut = TRUE]],
        !.sendStreams = {}, !.recvStreams = {}, !.streamFlow = {}, !.ready = <<>>]

\* #close fulfils `closed`, #abort rejects it; only the first has an effect.
EndSession(x, how) == IF x.closed # "open" THEN x ELSE Teardown(x, how)
Accuse(x) == EndSession(SendPriorityFrame(x, [type |-> "connection_close"]), "rejected")

(******************************* frames received ***************************)

\* #accountRecv: the connection's window is checked and charged before the
\* stream's is checked.
ConnHolds(x, n) == n = 0 \/ x.data.offset + n <= x.data.max
StreamHolds(x, s, n) ==
  n = 0 \/ s \notin x.streamFlow \/ x.flow[s].recvOffset + n <= x.flow[s].recvMax
ChargeConn(x, n) == [x EXCEPT !.data.offset = @ + n]
AccountRecv(x, s, n) == [x EXCEPT !.data.offset = @ + n, !.flow[s].recvOffset = @ + n]

\* A stream of the peer is created: its flow record, its receive side and, when
\* it is bidirectional, a writer.  It waits for the acceptor, or is refused (but
\* kept until its end) when the acceptor was cancelled.
CreateIncoming(x, s) ==
  LET y == [x EXCEPT
        !.quota[s.dir].used = AtLeast(@, s.index + 1),
        !.recorded = @ \cup {s}, !.streamFlow = @ \cup {s}, !.recvStreams = @ \cup {s},
        !.flow[s] = [NoFlow EXCEPT !.recvMax = StreamWindow,
                                   !.max = IF s.dir = "bi" /\ x.params THEN StreamWindow ELSE 0],
        !.sendStreams = IF s.dir = "bi" THEN @ \cup {s} ELSE @,
        !.writer[s].at = IF s.dir = "bi" THEN "idle" ELSE @]
  IN IF s.dir \in x.cancelled THEN ErrorRecv(y, s)
     ELSE [y EXCEPT !.pending[s.dir] = Append(@, s)]

\* Data for a receive side that already ended is discarded, hence consumed.
Push(x, s, n) ==
  IF n = 0 THEN x
  ELSE IF x.recv[s].fin \/ x.recv[s].error THEN AccountConnConsumed(x, n)
  ELSE [x EXCEPT !.recv[s].queue = Append(@, n)]

Finish(x, s) ==
  LET y == NotifyTerminal([x EXCEPT !.recv[s].fin = TRUE], s)
  IN MaybeDeleteStreamFlow([y EXCEPT !.recvStreams = @ \ {s}], s)

\* Mutant: the highest id seen counts as never seen.
IsClosedBelow(x, s) == \E t \in x.recorded : t.dir = s.dir /\ t.by = s.by /\ t.index > s.index

\* An id at or below the highest one seen that is no hole: RecvOpen.isClosed for
\* a stream that is not in recvStreams.
IsClosed(x, s) == s \in x.recorded

HandleStreamFrame(x, f) ==
  LET s == f.id
      known == s \in x.recvStreams
      y == IF known THEN x ELSE CreateIncoming(x, s)
      z == Push(AccountRecv(y, s, f.n), s, f.n)
  IN IF x.closed # "open" THEN x
     ELSE IF ~CanRecv(x.me, s) THEN Accuse(x)
     ELSE IF ~known /\ (s.by = x.me \/ IsClosed(x, s)) THEN x
     ELSE IF ~known /\ s.index + 1 > x.quota[s.dir].max THEN Accuse(x)
     ELSE IF ~ConnHolds(y, f.n) THEN Accuse(y)
     ELSE IF ~StreamHolds(y, s, f.n) THEN Accuse(ChargeConn(y, f.n))
     ELSE IF f.fin THEN Finish(z, s) ELSE z

\* RESET_STREAM: the tail it declares takes connection credit and frees it at
\* once.  A final size below what has arrived counts as what has arrived.
HandleResetStream(x, f) ==
  LET s == f.id
      known == s \in x.recvStreams
      received == IF s \in x.streamFlow THEN x.flow[s].recvOffset ELSE 0
      limit == IF s \in x.streamFlow THEN x.flow[s].recvMax ELSE StreamWindow
      final == AtLeast(f.size, received)
      gap == final - received
      seen == [x EXCEPT !.data.offset = @ + gap, !.flow[s].recvOffset = final]
      unseen == ReplenishStreamCredit(
                  [AccountConnConsumed(ChargeConn(x, gap), gap) EXCEPT
                     !.quota[s.dir].used = AtLeast(@, s.index + 1), !.recorded = @ \cup {s}], s.dir)
      ended == AccountConnConsumed(NotifyTerminal(Errored(seen, s), s), gap + Discarded(x, s))
  IN IF ~CanRecv(x.me, s) THEN Accuse(x)
     ELSE IF ~known /\ (s.by = x.me \/ IsClosed(x, s)) THEN x
     ELSE IF ~known /\ s.index + 1 > x.quota[s.dir].max THEN Accuse(x)
     ELSE IF final > limit \/ x.data.offset + gap > x.data.max THEN Accuse(x)
     ELSE IF known THEN MaybeDeleteStreamFlow([ended EXCEPT !.recvStreams = @ \ {s}], s)
     ELSE unseen

\* STOP_SENDING: the writable is errored, which an operation in progress
\* survives; a queued frame is dropped; RESET_STREAM answers.
HandleStopSending(x, f) ==
  LET s == f.id
      y == DropStream([x EXCEPT !.sendStreams = @ \ {s}, !.writer[s].errored = TRUE], s)
      z == IF y.writer[s].at = "idle" THEN FailWriter(y, s) ELSE y
  IN IF s \notin x.sendStreams THEN x
     ELSE MaybeDeleteStreamFlow(
            SendPriorityFrame(z, [type |-> "reset", id |-> s, size |-> SendFinalSize(y, s)]), s)

\* TRANSPORT_PARAMETERS: the first one seeds the credits, those of the streams
\* that exist included, and wakes who waits for them.
HandleTransportParameters(x) ==
  LET y == IncreaseConn([x EXCEPT !.params = TRUE], ConnWindow)
      raised == {s \in x.streamFlow : x.flow[s].max < StreamWindow}
  IN IF x.params THEN x
     ELSE [IncreaseOpens(IncreaseOpens(y, "bi", plan.limit), "uni", plan.limit) EXCEPT
             !.flow = [s \in StreamIds |->
                IF s \in raised THEN [@[s] EXCEPT !.max = StreamWindow] ELSE @[s]],
             !.writer = [s \in StreamIds |->
                IF s \in raised /\ @[s].at = "stream" THEN [@[s] EXCEPT !.woken = TRUE] ELSE @[s]]]

RecvFrame(x, f) ==
  CASE f.type = "params"           -> HandleTransportParameters(x)
    [] f.type = "stream"           -> HandleStreamFrame(x, f)
    [] f.type = "reset"            -> HandleResetStream(x, f)
    [] f.type = "stop"             -> HandleStopSending(x, f)
    [] f.type = "max_data"         -> IncreaseConn(x, f.max)
    [] f.type = "max_stream_data"  -> IncreaseStream(x, f.id, f.max)
    [] f.type = "max_streams"      -> IncreaseOpens(x, f.dir, f.max)
    [] f.type = "app_close"        -> EndSession(x, "fulfilled")
    [] f.type = "connection_close" -> EndSession(x, "rejected")

(********************************* the steps *******************************)

Becomes(e, x) == sess' = [sess EXCEPT ![e] = x]
Op(name) == name \in plan.ops
Local == UNCHANGED <<plan, wire, cut, hist>>

\* createBidirectionalStream, createUnidirectionalStream: a permit, the next id,
\* a flow record, a writer and, when bidirectional, a receive side.
CreateStream(e, s) ==
  LET x == sess[e]
      bi == s.dir = "bi"
  IN /\ s.by = e /\ s.index = x.next[s.dir]
     /\ x.closed = "open" /\ TryClaim(x.opens[s.dir], 1) = 1
     /\ Becomes(e, [x EXCEPT
          !.opens[s.dir].used = @ + 1, !.next[s.dir] = @ + 1,
          !.streamFlow = @ \cup {s},
          !.flow[s] = [NoFlow EXCEPT !.max = IF x.params THEN StreamWindow ELSE 0,
                                     !.recvMax = IF bi THEN StreamWindow ELSE 0],
          !.sendStreams = @ \cup {s}, !.writer[s].at = "idle",
          !.recvStreams = IF bi THEN @ \cup {s} ELSE @,
          !.recv[s].accepted = bi])
     /\ Local

Usable(w) == w.at = "idle" /\ ~w.errored /\ ~w.abort

\* write(n bytes) on a stream's writable.
Write(e, s, n) ==
  /\ Usable(sess[e].writer[s]) /\ sess[e].writer[s].wrote + n <= plan.bytes[e]
  /\ Becomes(e, ClaimSendCredit([sess[e] EXCEPT !.writer[s].left = n, !.writer[s].wrote = @ + n], s))
  /\ Local

\* close() on a stream's writable: the FIN goes through the stream's own slot.
CloseWriter(e, s) ==
  /\ Op("close") /\ Usable(sess[e].writer[s])
  /\ Becomes(e, [sess[e] EXCEPT
        !.writer[s].at = "closing",
        !.ready = Append(@, [type |-> "stream", id |-> s, fin |-> TRUE, n |-> 0])])
  /\ Local

\* abort() on a stream's writable waits for the operation in progress.
AbortWriter(e, s) ==
  LET x == sess[e]
  IN /\ Op("abort") /\ x.writer[s].at \notin {"none", "closed", "failed"} /\ ~x.writer[s].abort
     /\ ~x.writer[s].errored /\ x.closed = "open"
     /\ Becomes(e, IF x.writer[s].at = "idle" THEN AbortAlgorithm(x, s)
                   ELSE [x EXCEPT !.writer[s].abort = TRUE])
     /\ Local

\* The sendOrder of a writable is set; it is read when a frame is picked.
SetSendOrder(e, s) ==
  /\ Op("order") /\ s \in sess[e].sendStreams /\ sess[e].order[s] = 0
  /\ Becomes(e, [sess[e] EXCEPT !.order[s] = 1])
  /\ Local

\* A claim that was woken looks again: it parks once more, or goes on.  On the
\* connection it first takes one unit and gives it back.
Resume(e, s) ==
  LET x == sess[e]
      w == x.writer[s]
  IN /\ w.at = "hold" \/ (w.at \in {"stream", "conn"} /\ w.woken)
     /\ Becomes(e, CASE w.at = "stream" -> ClaimSendCredit(x, s)
                     [] w.at = "conn" /\ TryClaim(x.conn, 1) = 0 -> [x EXCEPT !.writer[s].woken = FALSE]
                     [] w.at = "conn" /\ TryClaim(x.conn, 1) = 1 ->
                          [x EXCEPT !.conn.used = @ + 1, !.writer[s].at = "hold", !.writer[s].woken = FALSE]
                     [] w.at = "hold" -> ClaimSendCredit(ReleaseConn(x, 1), s))
     /\ Local

\* The scheduler's loop takes a control frame and writes it.
WriteControl(e) ==
  LET f == Head(sess[e].control)
  IN /\ sess[e].control # <<>> /\ sess[e].inflight = <<>> /\ ~cut
     /\ Becomes(e, [sess[e] EXCEPT !.control = Tail(@)])
     /\ wire' = [wire EXCEPT ![e] = Append(@, f)]
     /\ hist' = IF f.type = "reset" THEN [hist EXCEPT ![e].reset = @ \cup {f.id}] ELSE hist
     /\ UNCHANGED <<plan, cut>>

\* #pickStream: the highest sendOrder, and the oldest frame among equals.
PickStream(x) ==
  LET order(i) == x.order[x.ready[i].id]
  IN CHOOSE i \in DOMAIN x.ready :
       \A j \in DOMAIN x.ready : order(i) > order(j) \/ (order(i) = order(j) /\ i <= j)

\* With no control frame waiting the loop takes a stream's frame out of #ready
\* and awaits the socket.
TakeStream(e) ==
  LET x == sess[e]
      i == PickStream(x)
      f == x.ready[i]
      s == f.id
  IN /\ x.control = <<>> /\ x.ready # <<>> /\ x.inflight = <<>> /\ x.closed = "open" /\ ~cut
     /\ Becomes(e, [x EXCEPT !.ready = Without(@, i), !.inflight = <<f>>])
     /\ wire' = [wire EXCEPT ![e] = Append(@, f)]
     /\ hist' = [hist EXCEPT ![e].put[s] = @ + f.n,
                             ![e].trailed = IF s \in hist[e].reset THEN @ \cup {s} ELSE @]
     /\ UNCHANGED <<plan, cut>>

\* Mutant: the write advances by the chunk it wanted to send.
FrameWrittenAll(x) ==
  LET f == x.inflight[1]
      s == f.id
      y == [x EXCEPT !.inflight = <<>>, !.flow[s].sendOffset = @ + f.n,
                     !.writer[s] = [@ EXCEPT !.left = @ - AtMost(@, MaxFrame), !.held = 0]]
  IN IF f.fin THEN MaybeDeleteStreamFlow(
                     [x EXCEPT !.inflight = <<>>, !.sendStreams = @ \ {s}, !.order[s] = 0,
                               !.writer[s].at = "closed"], s)
     ELSE IF y.writer[s].left = 0 THEN Settled(y, s)
     ELSE IF y.closed # "open" THEN FailWriter(y, s)
     ELSE ClaimSendCredit(y, s)

\* The socket took the frame: its promise resolves and the writer goes on, with
\* the next chunk of its write, or to its end.
FrameWritten(x) ==
  LET f == x.inflight[1]
      s == f.id
      w == x.writer[s]
      y == [x EXCEPT !.inflight = <<>>, !.flow[s].sendOffset = @ + f.n,
                     !.writer[s] = [w EXCEPT !.left = w.left - f.n, !.held = 0]]
  IN IF f.fin THEN MaybeDeleteStreamFlow(
                     [x EXCEPT !.inflight = <<>>, !.sendStreams = @ \ {s}, !.order[s] = 0,
                               !.writer[s].at = "closed"], s)
     ELSE IF y.writer[s].left = 0 THEN Settled(y, s)
     ELSE IF y.closed # "open" THEN FailWriter(y, s)
     ELSE ClaimSendCredit(y, s)

WriteDone(e) ==
  /\ sess[e].inflight # <<>>
  /\ Becomes(e, FrameWritten(sess[e]))
  /\ hist' = [hist EXCEPT ![e].paid = @ + sess[e].writer[sess[e].inflight[1].id].held]
  /\ UNCHANGED <<plan, wire, cut>>

\* A frame arrives.  A close of the peer is followed by the close of the socket.
Receive(e) ==
  LET f == Head(wire[Peer(e)])
  IN /\ wire[Peer(e)] # <<>>
     /\ Becomes(e, RecvFrame(sess[e], f))
     /\ wire' = [wire EXCEPT ![Peer(e)] = Tail(@)]
     /\ cut' = (cut \/ f.type \in {"app_close", "connection_close"})
     /\ UNCHANGED <<plan, hist>>

\* The acceptor is read: it hands out the oldest stream that waits.
Accept(e, d) ==
  LET x == sess[e]
      s == Head(x.pending[d])
  IN /\ x.pending[d] # <<>>
     /\ Becomes(e, OnAccept([x EXCEPT !.pending[d] = Tail(@)], s))
     /\ hist' = [hist EXCEPT ![e].handed = Append(@, s)]
     /\ UNCHANGED <<plan, wire, cut>>

\* The acceptor is cancelled: every stream that waits is dropped.
CancelAcceptor(e, d) ==
  LET x == sess[e]
  IN /\ Op("refuse") /\ d \notin x.cancelled /\ x.closed = "open"
     /\ Becomes(e, [DropAll([x EXCEPT !.cancelled = @ \cup {d}], x.pending[d]) EXCEPT !.pending[d] = <<>>])
     /\ Local

\* A readable is read: delivery, not receipt, moves the two windows.
Read(e, s) ==
  LET x == sess[e]
      r == x.recv[s]
      n == Head(r.queue)
  IN /\ r.accepted /\ r.queue # <<>>
     /\ Becomes(e, AccountConnConsumed(
           AccountStreamConsumed([x EXCEPT !.recv[s].queue = Tail(@)], s, n), n))
     /\ hist' = [hist EXCEPT ![e].got[s] = @ + n]
     /\ UNCHANGED <<plan, wire, cut>>

\* A readable is cancelled: STOP_SENDING, and the receive side is forgotten.  The
\* readable learns of a FIN or an error when it is read, so until then it can be
\* cancelled after either.
CancelRecv(x, s) ==
  LET y == SendPriorityFrame([ErrorRecv(x, s) EXCEPT !.recv[s].cancelled = TRUE],
                             [type |-> "stop", id |-> s])
  IN NotifyTerminal(MaybeDeleteStreamFlow([y EXCEPT !.recvStreams = @ \ {s}], s), s)
Cancel(e, s) ==
  LET r == sess[e].recv[s]
  IN /\ Op("cancel") /\ r.accepted /\ ~r.cancelled
     /\ Becomes(e, CancelRecv(sess[e], s))
     /\ Local

\* Mutant: the session is torn down first.
CloseTooSoon(x) == SendPriorityFrame(EndSession(x, "fulfilled"), [type |-> "app_close"])

\* close(): APPLICATION_CLOSE is queued before the session is torn down.
Close(x) == EndSession(SendPriorityFrame(x, [type |-> "app_close"]), "fulfilled")
CloseSession(e) ==
  /\ Op("end") /\ sess[e].closed = "open"
  /\ Becomes(e, Close(sess[e]))
  /\ hist' = [hist EXCEPT ![e].asked = TRUE]
  /\ UNCHANGED <<plan, wire, cut>>

\* 100 ms after a close frame was queued the socket is closed, flushed or not.
TransportClose(e) ==
  /\ sess[e].closed # "open" /\ ~cut
  /\ cut' = TRUE
  /\ UNCHANGED <<plan, sess, wire, hist>>

\* The socket fails: what was in it is lost.
SocketFails ==
  /\ Op("fail") /\ ~cut
  /\ cut' = TRUE /\ wire' = [e \in Ends |-> <<>>]
  /\ UNCHANGED <<plan, sess, hist>>

\* The end of the socket is seen after the frames before it.
SocketClosed(e) ==
  /\ cut /\ wire[Peer(e)] = <<>> /\ sess[e].closed = "open"
  /\ Becomes(e, EndSession(sess[e], "rejected"))
  /\ Local

Init ==
  /\ plan \in Plans
  /\ sess = [e \in Ends |-> NewSession(e)]
  /\ wire = [e \in Ends |-> <<>>]
  /\ cut = FALSE
  /\ hist = [e \in Ends |-> NoHistory]

Next ==
  \/ \E e \in Ends, s \in plan.streams :
       \/ CreateStream(e, s)
       \/ \E n \in 1..plan.bytes[e] : Write(e, s, n)
       \/ CloseWriter(e, s)
       \/ AbortWriter(e, s)
       \/ SetSendOrder(e, s)
       \/ Resume(e, s)
       \/ Read(e, s)
       \/ Cancel(e, s)
  \/ \E e \in Ends, d \in Dirs : Accept(e, d) \/ CancelAcceptor(e, d)
  \/ \E e \in Ends : WriteControl(e) \/ TakeStream(e) \/ WriteDone(e) \/ Receive(e)
                     \/ CloseSession(e) \/ TransportClose(e) \/ SocketClosed(e)
  \/ SocketFails

Spec == Init /\ [][Next]_vars

(******************************** properties *******************************)

Frames(e) == {wire[e][i] : i \in DOMAIN wire[e]}

\* Connection credit a writer claimed is on the wire or still in its hands: a
\* frame that was dropped or rejected gave its credit back, once.
CreditConserved ==
  \A e \in Ends : LET x == sess[e] IN x.closed = "open" =>
    x.conn.used = hist[e].paid + SumFunction([s \in StreamIds |-> Claimed(x.writer[s])])

\* While the session is open a byte received is in exactly one receive queue or
\* counted as consumed, whichever of FIN, reset, cancel and refusal ended its
\* stream.  Once it has ended bytes may be thrown away uncounted, but none is ever
\* counted twice.  No more than a window of bytes is unconsumed.
ConsumedOnce ==
  \A e \in Ends :
    LET x == sess[e]
        counted == x.data.consumed + SumFunction([s \in StreamIds |-> Buffered(x.recv[s])])
    IN /\ counted <= x.data.offset
       /\ x.closed = "open" => counted = x.data.offset
       /\ x.data.max <= x.data.consumed + ConnWindow

\* Neither end accuses the other: a session between two of these ends is
\* rejected only when the socket went away.
HonestNotAccused == \A e \in Ends : sess[e].closed = "rejected" => cut

\* The books of an end are right: credit spent is on the wire or held, bytes
\* received are queued or consumed; and by its books no honest peer is accused.
Accounts == CreditConserved /\ ConsumedOnce /\ HonestNotAccused

\* The streams of the peer that wait for the acceptor or have not ended are at
\* most as many as were announced.
PendingBounded ==
  \A e \in Ends, d \in Dirs :
    Cardinality({s \in sess[e].recorded :
      s.dir = d /\ ~(sess[e].recv[s].accepted /\ sess[e].recv[s].terminal)
        /\ (s \in sess[e].recvStreams \/ \E i \in DOMAIN sess[e].pending[d] : sess[e].pending[d][i] = s)})
    <= plan.limit

\* A writer that sleeps has no credit to go on with.
NoSleeper ==
  \A e \in Ends, s \in StreamIds : LET x == sess[e] IN
    x.closed = "open" /\ ~x.writer[s].woken =>
      /\ x.writer[s].at = "conn" => TryClaim(x.conn, 1) = 0
      /\ x.writer[s].at = "stream" => TryClaim(x.flow[s], 1) = 0

\* A stream is handed to the application once: frames that trail its end do not
\* open it again.
AcceptedOnce == \A e \in Ends : IsInjective(hist[e].handed)

\* A stream of the peer enters within the limit it was given, and once.
Admitted == AcceptedOnce /\ PendingBounded

\* A reader that sees the end of a stream has, or will find in its queue, every
\* byte that was written to it.
FinMeansAll ==
  \A e \in Ends, s \in StreamIds : LET r == sess[e].recv[s] IN
    r.fin /\ ~r.error => hist[e].got[s] + Buffered(r) = sess[Peer(e)].writer[s].wrote

\* close() is seen as a graceful close by the peer unless the socket was closed
\* before APPLICATION_CLOSE left, or failed.
GracefulSeenGraceful ==
  \A e \in Ends : hist[e].asked /\ ~Op("fail") /\ sess[Peer(e)].closed = "rejected" =>
    \E i \in DOMAIN sess[e].control : sess[e].control[i].type = "app_close"

\* What the comment in #handleStreamFrame says of bytes that arrive for a stream
\* the application cancelled: they count as consumed, so no connection credit is
\* lost.  With nothing under way the two ends agree on what was used.
\* It does not hold: a cancelled stream is no longer found.
InFlightDataCounted ==
  \A e \in Ends : LET x == sess[e] IN
    /\ x.closed = "open" /\ sess[Peer(e)].closed = "open"
    /\ wire[e] = <<>> /\ \A s \in StreamIds : x.writer[s].at # "hold" /\ x.writer[s].held = 0
    => x.conn.used = sess[Peer(e)].data.offset

\* What dropStream promises: the pending data of a stream that was reset is
\* dropped, so no STREAM frame follows the RESET_STREAM.
\* It does not hold: a write parked on credit goes on.
NothingAfterReset == \A e \in Ends : hist[e].trailed = {}
=============================================================================
