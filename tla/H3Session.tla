------------------------------ MODULE H3Session ------------------------------
(***************************************************************************)
(* A WebTransport session over an HTTP/3 connection, as the four QUIC      *)
(* crates implement it: web-transport-quinn, -noq, -iroh and -quiche.      *)
(*                                                                         *)
(* Two ends run over one QUIC connection (external): SETTINGS, CONNECT and *)
(* its response, then the session, its CONNECT stream and its end.  Each   *)
(* end is one of the crates, so the module also covers one crate talking   *)
(* to another.  The server's half also accepts the peer's streams, whose   *)
(* header it has to read first, for several callers at once.               *)
(*                                                                         *)
(* `plan` says which crates meet and what their applications will do; it   *)
(* never changes.  A CONNECT stream is a sequence of frames.               *)
(***************************************************************************)
EXTENDS Integers, Sequences, FiniteSets, SequencesExt

CONSTANTS Plans,        \* the scenarios Init chooses from
          Callers       \* the tasks of the server that call accept

Client == "client"
Server == "server"
Ends == {Client, Server}
Other(e) == IF e = Client THEN Server ELSE Client

CrateNames == {"quinn", "noq", "iroh", "quiche", "other"}
StreamKinds == {"wt", "foreign", "h3", "reset", "stalled"}

\* What a plan may be.  That an application never rejects with a status of
\* success is left to it: reject() takes any.
ASSUME PlansAssumption ==
  \A p \in Plans :
    /\ p.crate \in [Ends -> CrateNames] /\ p.streams \in Seq(StreamKinds)
    /\ p.answer.reject => p.answer.status # 200

None == [kind |-> "none"]
Local == [kind |-> "local"]           \* ConnectionError::LocallyClosed
TimedOut == [kind |-> "timeout"]      \* ConnectionError::TimedOut
Refused == [kind |-> "conn"]          \* ApplicationClosed, not an HTTP/3 code
Closed(code, reason) == [kind |-> "closed", code |-> code, reason |-> reason]

VARIABLES
  plan,
  hs,        \* per end, the step of the handshake
  settings,  \* per end, the peer's SETTINGS have arrived
  out,       \* per end, the CONNECT stream frames on their way to the peer
  inbox,     \* per end, the CONNECT stream frames received and not read
  conn,      \* per end, why the QUIC connection ended, or None
  cc,        \* per end, the CONNECTION_CLOSE it sends, or None
  dead,      \* the network no longer carries anything
  error,     \* per end, Session::error, the OnceLock (quinn and noq)
  task,      \* per end, the task that reads the CONNECT stream
  closer,    \* per end, the task close_with_capsule
  timer,     \* per end, the timer of that task
  called,    \* per end, the application called close()
  dropped,   \* per end, the application dropped its handles
  report     \* per end, what closed() returned

life == <<hs, settings, out, inbox, conn, cc, dead, error, task, closer, timer,
          called, dropped, report>>

VARIABLES
  opened,    \* how many of plan.streams the client has opened
  arrived,   \* streams the QUIC connection has for accept, in order
  pending,   \* pending_uni/pending_bi: streams whose header is being read
  header,    \* streams whose header has arrived, complete or reset
  acceptWaker,   \* the one waker the unfold future holds
  pendingWaker,  \* the one waker FuturesUnordered holds
  wakers,    \* uni_wakers/bi_wakers
  caller,    \* per caller: "idle", "run", "parked", "done", "failed"
  cancelled, \* the callers that gave up a call
  handed     \* the streams handed to callers, in order

accepting == <<opened, arrived, pending, header, acceptWaker, pendingWaker,
               wakers, caller, cancelled, handed>>

vars == <<plan, life, accepting>>

Crate(e) == plan.crate[e]

\* The crates that end a session with a capsule on the CONNECT stream.  "other"
\* is a peer outside this repository that does as quinn does, except that its
\* capsules come bare, without a DATA frame around them.
WithCapsule(e) == Crate(e) \in {"quinn", "noq", "other"}

Init ==
  /\ plan \in Plans
  /\ hs = [e \in Ends |-> "settings"]
  /\ settings = [e \in Ends |-> FALSE]
  /\ out = [e \in Ends |-> <<>>] /\ inbox = [e \in Ends |-> <<>>]
  /\ conn = [e \in Ends |-> None] /\ cc = [e \in Ends |-> None]
  /\ dead = FALSE
  /\ error = [e \in Ends |-> None]
  /\ task = [e \in Ends |-> "off"]
  /\ closer = [e \in Ends |-> "off"] /\ timer = [e \in Ends |-> "off"]
  /\ called = [e \in Ends |-> FALSE] /\ dropped = [e \in Ends |-> FALSE]
  /\ report = [e \in Ends |-> None]
  /\ opened = 0 /\ arrived = <<>> /\ pending = {} /\ header = {}
  /\ acceptWaker = "none" /\ pendingWaker = "none" /\ wakers = {}
  /\ caller = [c \in Callers |-> "idle"]
  /\ cancelled = {} /\ handed = <<>>

-----------------------------------------------------------------------------
(* The QUIC connection (external).                                         *)

Open(e) == conn[e] = None

\* Only a task that sleeps on accept is moved by a wake-up.
Woken(set, calls) ==
  [c \in Callers |-> IF c \in set /\ calls[c] = "parked" THEN "run" ELSE calls[c]]

\* Wakes what the accept side of the server parked in the connection.
ConnWakes ==
  /\ caller' = Woken({acceptWaker, pendingWaker}, caller)
  /\ acceptWaker' = "none" /\ pendingWaker' = "none"

\* The connection of e ends for this reason: accept() of the server is woken.
ConnEnds(e, why) ==
  /\ conn' = [conn EXCEPT ![e] = why]
  /\ IF e = Server THEN ConnWakes ELSE UNCHANGED <<caller, acceptWaker, pendingWaker>>
  /\ UNCHANGED <<opened, arrived, pending, header, wakers, cancelled, handed>>

\* Connection::close: the first reason stays.
QuicClose(e, why) ==
  IF Open(e)
  THEN /\ ConnEnds(e, Local)
       /\ cc' = [cc EXCEPT ![e] = why]
  ELSE UNCHANGED <<conn, cc, accepting>>

\* A frame of the CONNECT stream arrives, in order.
FrameArrives(e) ==
  /\ ~dead /\ Open(e) /\ out[Other(e)] # <<>>
  /\ inbox' = [inbox EXCEPT ![e] = Append(@, Head(out[Other(e)]))]
  /\ out' = [out EXCEPT ![Other(e)] = Tail(@)]
  /\ UNCHANGED <<plan, hs, settings, conn, cc, dead, error, task, closer, timer,
                 called, dropped, report, accepting>>

\* CONNECTION_CLOSE arrives, perhaps before the frames sent earlier.
CloseArrives(e) ==
  /\ ~dead /\ Open(e) /\ cc[Other(e)] # None
  /\ ConnEnds(e, cc[Other(e)])
  /\ UNCHANGED <<plan, hs, settings, out, inbox, cc, dead, error, task, closer,
                 timer, called, dropped, report>>

\* The network fails, and the idle timeout ends what is left of it.
NetworkDies ==
  /\ plan.lose /\ ~dead
  /\ dead' = TRUE
  /\ UNCHANGED <<plan, hs, settings, out, inbox, conn, cc, error, task, closer,
                 timer, called, dropped, report, accepting>>

IdleTimeout(e) ==
  /\ Open(e) /\ (dead \/ conn[Other(e)] = TimedOut)
  /\ ConnEnds(e, TimedOut)
  /\ UNCHANGED <<plan, hs, settings, out, inbox, cc, dead, error, task, closer,
                 timer, called, dropped, report>>

\* The last handle on the connection of e is gone before a session exists.
ConnDropped(e) == QuicClose(e, Refused)

-----------------------------------------------------------------------------
(* The handshake: SETTINGS both ways, then CONNECT and its response.        *)

\* Settings::open of the peer: its SETTINGS arrive on a stream of their own.
SettingsArrive(e) ==
  /\ ~dead /\ Open(e) /\ Open(Other(e)) /\ ~settings[e]
  /\ settings' = [settings EXCEPT ![e] = TRUE]
  /\ UNCHANGED <<plan, hs, out, inbox, conn, cc, dead, error, task, closer, timer,
                 called, dropped, report, accepting>>

\* Settings::accept: without WebTransport support the handshake ends here, and
\* the connection with it.
ReadSettings(e) ==
  /\ hs[e] = "settings" /\ settings[e]
  /\ IF plan.supports[Other(e)]
     THEN /\ hs' = [hs EXCEPT ![e] = IF e = Client THEN "connect" ELSE "request"]
          /\ UNCHANGED <<conn, cc, accepting>>
     ELSE /\ hs' = [hs EXCEPT ![e] = "failed"]
          /\ ConnDropped(e)
  /\ UNCHANGED <<plan, settings, out, inbox, dead, error, task, closer, timer,
                 called, dropped, report>>

\* Connected::open, up to its first await on the response.
SendConnect ==
  /\ hs[Client] = "connect" /\ Open(Client)
  /\ hs' = [hs EXCEPT ![Client] = "response"]
  /\ out' = [out EXCEPT ![Client] = Append(@, [kind |-> "request"])]
  /\ UNCHANGED <<plan, settings, inbox, conn, cc, dead, error, task, closer, timer,
                 called, dropped, report, accepting>>

\* Connecting::accept: the request waits for the application's decision.
AcceptConnect ==
  /\ hs[Server] = "request" /\ inbox[Server] # <<>>
  /\ hs' = [hs EXCEPT ![Server] = "decide"]
  /\ inbox' = [inbox EXCEPT ![Server] = Tail(@)]
  /\ UNCHANGED <<plan, settings, out, conn, cc, dead, error, task, closer, timer,
                 called, dropped, report, accepting>>

\* Whether respond() lets an answer with this protocol out.
QuinnMayRespond(protocol) == protocol = "none" \/ protocol \in plan.offer
IrohMayRespond(protocol) == protocol = "none" \/ protocol \in plan.offer
QuicheMayRespond(protocol) == TRUE

MayRespond(protocol) ==
  CASE Crate(Server) = "iroh" -> IrohMayRespond(protocol)
    [] Crate(Server) = "quiche" -> QuicheMayRespond(protocol)
    [] OTHER -> QuinnMayRespond(protocol)

\* Session::new, H3SessionState::connect: the task that reads the CONNECT
\* stream starts with the session.
NewSession(e) ==
  /\ hs' = [hs EXCEPT ![e] = "up"]
  /\ task' = [task EXCEPT ![e] = "reading"]

\* Request::respond: a session of the server, whatever the status it sent.
Respond ==
  LET answer == plan.answer IN
  /\ hs[Server] = "decide" /\ ~answer.reject /\ Open(Server)
  /\ IF MayRespond(answer.protocol)
     THEN /\ NewSession(Server)
          /\ out' = [out EXCEPT ![Server] =
                       Append(@, [kind |-> "response", status |-> answer.status,
                                  protocol |-> answer.protocol])]
          /\ UNCHANGED <<conn, cc, accepting>>
     ELSE /\ hs' = [hs EXCEPT ![Server] = "failed"]
          /\ ConnDropped(Server)
          /\ UNCHANGED <<task, out>>
  /\ UNCHANGED <<plan, settings, inbox, dead, error, closer, timer, called, dropped,
                 report>>

\* Request::reject: the answer and the FIN, and then the request is dropped and
\* the connection with it.
Reject ==
  /\ hs[Server] = "decide" /\ plan.answer.reject /\ Open(Server)
  /\ hs' = [hs EXCEPT ![Server] = "failed"]
  /\ out' = [out EXCEPT ![Server] =
               @ \o << [kind |-> "response", status |-> plan.answer.status,
                        protocol |-> "none"], [kind |-> "fin"] >>]
  /\ ConnDropped(Server)
  /\ UNCHANGED <<plan, settings, inbox, dead, error, task, closer, timer, called,
                 dropped, report>>

\* Mutant: the status of the response is not looked at.
QuinnTakes_AnyStatus(r) == r.protocol = "none" \/ r.protocol \in plan.offer

\* What the client requires of the response.
QuinnTakes(r) == r.status = 200 /\ (r.protocol = "none" \/ r.protocol \in plan.offer)
IrohTakes(r) == r.status = 200 /\ (r.protocol = "none" \/ r.protocol \in plan.offer)
QuicheTakes(r) == r.status = 200

Takes(r) ==
  CASE Crate(Client) = "iroh" -> IrohTakes(r)
    [] Crate(Client) = "quiche" -> QuicheTakes(r)
    [] OTHER -> QuinnTakes(r)

\* Connected::open after the response: a session or an error that drops the
\* connection.
ReadResponse ==
  /\ hs[Client] = "response" /\ inbox[Client] # <<>>
  /\ inbox' = [inbox EXCEPT ![Client] = Tail(@)]
  /\ IF Takes(Head(inbox[Client]))
     THEN NewSession(Client) /\ UNCHANGED <<conn, cc, accepting>>
     ELSE /\ hs' = [hs EXCEPT ![Client] = "failed"]
          /\ ConnDropped(Client)
          /\ UNCHANGED task
  /\ UNCHANGED <<plan, settings, out, dead, error, closer, timer, called, dropped,
                 report>>

\* A handshake that waits for a connection that is gone fails.
HandshakeFails(e) ==
  /\ hs[e] \notin {"up", "failed"} /\ ~Open(e)
  /\ hs[e] = "settings" => ~settings[e]
  /\ hs[e] \in {"request", "response"} => inbox[e] = <<>>
  /\ hs' = [hs EXCEPT ![e] = "failed"]
  /\ UNCHANGED <<plan, settings, out, inbox, conn, cc, dead, error, task, closer,
                 timer, called, dropped, report, accepting>>

-----------------------------------------------------------------------------
(* The end of a session.                                                   *)

Up(e) == hs[e] = "up"
Reason == "bye"
DropCode == 99

\* Session::close of quinn and noq: the error is recorded first; the first
\* writer wins, and it takes the send half of the CONNECT stream.  The timeout
\* of quinn starts with the task, the one of noq behind its write.
CloseOnce(e, timed) ==
  /\ IF error[e] # None
     THEN UNCHANGED <<error, closer, timer>>
     ELSE /\ error' = [error EXCEPT ![e] = Local]
          /\ closer' = [closer EXCEPT ![e] = "write"]
          /\ timer' = [timer EXCEPT ![e] = IF timed THEN "armed" ELSE "off"]
  /\ UNCHANGED <<conn, cc, accepting>>

QuinnClose(e) == CloseOnce(e, TRUE)
NoqClose(e) == CloseOnce(e, FALSE)

\* close() of iroh and quiche closes the connection with the mapped code.
IrohClose(e, code, reason) == QuicClose(e, Closed(code, reason))
QuicheClose(e, code, reason) == QuicClose(e, Closed(code, reason))

Close(e) ==
  /\ Up(e) /\ plan.close[e] >= 0 /\ ~called[e] /\ ~dropped[e]
  /\ called' = [called EXCEPT ![e] = TRUE]
  /\ \/ Crate(e) \in {"quinn", "other"} /\ QuinnClose(e)
     \/ Crate(e) = "noq" /\ NoqClose(e)
     \/ /\ ~WithCapsule(e)
        /\ IF Crate(e) = "iroh" THEN IrohClose(e, plan.close[e], Reason)
                                ELSE QuicheClose(e, plan.close[e], Reason)
        /\ UNCHANGED <<error, closer, timer>>
  /\ UNCHANGED <<plan, hs, settings, out, inbox, dead, task, dropped, report>>

\* close_with_capsule: the write and the FIN.  The write waits while the peer
\* grants no credit (plan.stall).
WriteCapsule(e) ==
  /\ closer[e] = "write" /\ Open(e) /\ ~plan.stall[e]
  /\ out' = [out EXCEPT ![e] =
               @ \o (IF Crate(e) = "other" THEN << [kind |-> "grease"] >> ELSE <<>>)
                 \o << [kind |-> IF Crate(e) = "other" THEN "bare" ELSE "capsule",
                        code |-> plan.close[e], reason |-> Reason],
                       [kind |-> "fin"] >>]
  /\ closer' = [closer EXCEPT ![e] = "wait"]
  /\ timer' = [timer EXCEPT ![e] = IF @ = "off" THEN "armed" ELSE @]
  /\ UNCHANGED <<plan, hs, settings, inbox, conn, cc, dead, error, task, called,
                 dropped, report, accepting>>

\* The write fails, or conn.closed() resolves: the connection is already gone.
CloserEnds(e) ==
  /\ closer[e] \in {"write", "wait"} /\ ~Open(e)
  /\ closer' = [closer EXCEPT ![e] = "done"]
  /\ timer' = [timer EXCEPT ![e] = "off"]
  /\ UNCHANGED <<plan, hs, settings, out, inbox, conn, cc, dead, error, task,
                 called, dropped, report, accepting>>

\* Mutant: the write is not under the timeout.
QuinnTimed_NotWrite(e) == closer[e] = "wait"

\* What the timeout of close_with_capsule covers: quinn the whole sequence, noq
\* only the wait for the peer.
QuinnTimed(e) == closer[e] \in {"write", "wait"}
NoqTimed(e) == closer[e] = "wait"

ForceClose(e) ==
  /\ IF Crate(e) = "noq" THEN NoqTimed(e) ELSE QuinnTimed(e)
  /\ timer[e] = "armed"
  /\ closer' = [closer EXCEPT ![e] = "done"]
  /\ timer' = [timer EXCEPT ![e] = "fired"]
  /\ QuicClose(e, Closed(plan.close[e], ""))
  /\ UNCHANGED <<plan, hs, settings, out, inbox, dead, error, task, called, dropped,
                 report>>

-----------------------------------------------------------------------------
(* The task that reads the CONNECT stream.                                  *)

Reading(e) == Up(e) /\ task[e] = "reading"

\* How the reader of a crate sees a frame.  quinn and noq read the capsule out
\* of DATA frames; iroh and quiche read capsules off the stream itself, where a
\* DATA frame is a capsule of unknown type, and the other way round.
SeenBy(e, f) ==
  CASE f.kind = "capsule" -> IF WithCapsule(e) THEN "close" ELSE "skip"
    [] f.kind = "bare" -> IF WithCapsule(e) THEN "skip" ELSE "close"
    [] f.kind = "grease" -> "skip"
    [] f.kind = "fin" -> "end"
    [] OTHER -> "fail"

\* read_capsules, run_closed: GREASE and unknown capsules are passed over.
SkipCapsule(e) ==
  /\ Reading(e) /\ inbox[e] # <<>> /\ SeenBy(e, Head(inbox[e])) = "skip"
  /\ inbox' = [inbox EXCEPT ![e] = Tail(@)]
  /\ UNCHANGED <<plan, hs, settings, out, conn, cc, dead, error, task, closer,
                 timer, called, dropped, report, accepting>>

\* Mutant: the error of the connection hides what the stream still holds.
Outcome_ConnectionFirst(e) ==
  CASE ~Open(e) -> "fail"
    [] Open(e) /\ inbox[e] # <<>> -> SeenBy(e, Head(inbox[e]))
    [] OTHER -> "wait"

\* What the reader gets next, if anything: "close", "end", "fail".
Outcome(e) ==
  CASE inbox[e] # <<>> -> SeenBy(e, Head(inbox[e]))
    [] inbox[e] = <<>> /\ ~Open(e) -> "fail"
    [] OTHER -> "wait"

\* run_recv of quinn and noq: record the error; who comes second leaves the
\* teardown to the first.
QuinnRunRecv(e) ==
  /\ Reading(e) /\ WithCapsule(e) /\ Outcome(e) \in {"close", "end", "fail"}
  /\ IF error[e] # None
     THEN task' = [task EXCEPT ![e] = "done"] /\ UNCHANGED error
     ELSE /\ error' = [error EXCEPT ![e] =
                         IF Outcome(e) = "close"
                         THEN Closed(Head(inbox[e]).code, Head(inbox[e]).reason)
                         ELSE Local]
          /\ task' = [task EXCEPT ![e] = "closing"]
  /\ UNCHANGED <<plan, hs, settings, out, inbox, conn, cc, dead, closer, timer,
                 called, dropped, report, accepting>>

\* run_recv, its conn.close: the connection ends with what was recorded.
QuinnRunRecvClose(e) ==
  /\ task[e] = "closing"
  /\ task' = [task EXCEPT ![e] = "done"]
  /\ QuicClose(e, IF error[e].kind = "closed" THEN error[e] ELSE Closed(0, ""))
  /\ UNCHANGED <<plan, hs, settings, out, inbox, dead, error, closer, timer, called,
                 dropped, report>>

\* run_closed of iroh, and the close that follows it in new_h3.
IrohRunClosed(e) ==
  LET got == CASE Outcome(e) = "close" -> Closed(Head(inbox[e]).code, Head(inbox[e]).reason)
               [] Outcome(e) = "end" -> Closed(0, "stream closed")
               [] OTHER -> Closed(1, "capsule error")
  IN  /\ Reading(e) /\ Crate(e) = "iroh" /\ Outcome(e) \in {"close", "end", "fail"}
      /\ task' = [task EXCEPT ![e] = "done"]
      /\ IrohClose(e, got.code, got.reason)
      /\ UNCHANGED <<plan, hs, settings, out, inbox, dead, error, closer, timer,
                     called, dropped, report>>

\* run_closed of quiche: the end of the stream ends the task and drops the
\* CONNECT stream (a reset) and the task's handle on the session.
QuicheRunClosed(e) ==
  /\ Reading(e) /\ Crate(e) = "quiche" /\ Outcome(e) \in {"close", "end", "fail"}
  /\ task' = [task EXCEPT ![e] = "done"]
  /\ CASE Outcome(e) = "close" ->
            QuicheClose(e, Head(inbox[e]).code, Head(inbox[e]).reason)
       [] Outcome(e) = "fail" -> QuicheClose(e, 500, "capsule error")
       [] OTHER -> IF dropped[e] THEN QuicheClose(e, DropCode, "connection dropped")
                                 ELSE UNCHANGED <<conn, cc, accepting>>
  /\ out' = [out EXCEPT ![e] = IF Outcome(e) = "end" THEN Append(@, [kind |-> "reset"]) ELSE @]
  /\ UNCHANGED <<plan, hs, settings, inbox, dead, error, closer, timer, called,
                 dropped, report>>

\* The application drops its handles.  quinn and noq drop the send half of the
\* CONNECT stream with them (a FIN), unless close() took it; the task keeps the
\* connection.  iroh and quiche keep everything in the task.  The streams quinn
\* and noq have not handed out go with SessionAccept; the peer sees each stopped
\* with code 0, as if it had been dropped by its owner (DropRecv of H3Streams).
Drop(e) ==
  /\ Up(e) /\ plan.drop[e] /\ ~dropped[e]
  /\ dropped' = [dropped EXCEPT ![e] = TRUE]
  /\ out' = [out EXCEPT ![e] = IF WithCapsule(e) /\ closer[e] = "off" /\ Open(e)
                              THEN Append(@, [kind |-> "fin"]) ELSE @]
  /\ IF Crate(e) = "quiche" /\ task[e] = "done"
     THEN QuicheClose(e, DropCode, "connection dropped")
     ELSE UNCHANGED <<conn, cc, accepting>>
  /\ UNCHANGED <<plan, hs, settings, inbox, dead, error, task, closer, timer, called,
                 report>>

\* Mutant: the peer's close wins over the recorded error.
QuinnMapError_KeepsClosed(e) ==
  IF error[e] # None /\ conn[e].kind # "closed" THEN error[e] ELSE conn[e]

\* map_error: a connection error gives way to the recorded one.
QuinnMapError(e) == IF error[e] # None THEN error[e] ELSE conn[e]
NoqMapError(e) == IF error[e] # None /\ conn[e].kind # "closed" THEN error[e] ELSE conn[e]

\* iroh never turns the code of the connection into one of WebTransport; quiche
\* does, and knows no other source of it.
IrohMapError(e) == IF conn[e].kind = "closed" THEN Refused ELSE conn[e]
QuicheMapError(e) == conn[e]

MapError(e) == CASE Crate(e) \in {"quinn", "other"} -> QuinnMapError(e)
                 [] Crate(e) = "noq" -> NoqMapError(e)
                 [] Crate(e) = "iroh" -> IrohMapError(e)
                 [] OTHER -> QuicheMapError(e)

\* closed() returns, and so does every other call that waits on the connection.
Report(e) ==
  /\ Up(e) /\ ~Open(e) /\ report[e] = None /\ ~dropped[e]
  /\ report' = [report EXCEPT ![e] = MapError(e)]
  /\ UNCHANGED <<plan, hs, settings, out, inbox, conn, cc, dead, error, task, closer,
                 timer, called, dropped, accepting>>

-----------------------------------------------------------------------------
(* SessionAccept of the server.  The peer's streams come in order; a header  *)
(* may take longer than the stream.  plan.streams gives their kinds:         *)
(*   "wt"       a stream of this session                                     *)
(*   "foreign"  a WebTransport stream with another session id                *)
(*   "h3"       a stream of HTTP/3 itself (QPACK, unknown types)             *)
(*   "reset"    reset before its header was complete                         *)
(*   "stalled"  its header never comes                                       *)

Kind(s) == plan.streams[s]

\* open_uni, open_bi of the client: the header goes out first, at the highest
\* priority; the other kinds come from the HTTP/3 stack of a foreign client.
OpenStream ==
  /\ Up(Client) /\ Open(Client) /\ Open(Server) /\ ~dead
  /\ opened < Len(plan.streams)
  /\ opened' = opened + 1
  /\ arrived' = Append(arrived, opened + 1)
  /\ caller' = Woken({acceptWaker}, caller)
  /\ acceptWaker' = "none"
  /\ UNCHANGED <<plan, life, pending, header, pendingWaker, wakers, cancelled, handed>>

HeaderArrives(s) ==
  /\ s <= opened /\ s \notin header /\ Kind(s) # "stalled"
  /\ Open(Server) /\ ~dead
  /\ header' = header \union {s}
  /\ IF s \in pending
     THEN caller' = Woken({pendingWaker}, caller) /\ pendingWaker' = "none"
     ELSE UNCHANGED <<caller, pendingWaker>>
  /\ UNCHANGED <<plan, life, opened, arrived, pending, acceptWaker, wakers, cancelled,
                 handed>>

\* Mutant: the session id in the header is not compared.
DecodeUni_AnySession(s) == CASE Kind(s) \in {"wt", "foreign"} -> "stream"
                             [] Kind(s) = "h3" -> "kept"
                             [] OTHER -> "error"

\* decode_uni, decode_bi: what a stream whose header is there turns out to be.
DecodeUni(s) == CASE Kind(s) = "wt" -> "stream"
                  [] Kind(s) = "h3" -> "kept"
                  [] OTHER -> "error"
DecodeBi(s) == CASE Kind(s) = "wt" -> "stream"
                 [] Kind(s) = "h3" -> "ignored"
                 [] OTHER -> "error"

\* The streams whose header is being read, the new ones included, and those of
\* them whose header is there.
Started == pending \union Range(arrived)
Ready == Started \intersect header

\* One poll of poll_accept_uni or poll_accept_bi, under the mutex.  Every
\* stream the connection has starts its decoder; an error of the connection
\* comes before the decoders are looked at; what is not a stream of this
\* session is dropped on the way.  The two futures inside keep only the waker
\* of the latest poll.  `wakeAll`: the crate keeps a list of wakers and wakes
\* it when it returns something.
PollAccept(c, streams, wakeAll) ==
  LET others == IF wakeAll THEN Woken(wakers \ {c}, caller) ELSE caller
  IN  /\ arrived' = <<>>
      /\ \/ /\ ~Open(Server)
            /\ caller' = [others EXCEPT ![c] = "failed"]
            /\ wakers' = {}
            /\ pending' = Started
            /\ UNCHANGED <<acceptWaker, pendingWaker, handed>>
         \/ /\ Open(Server) /\ streams # {}
            /\ \E s \in streams :
                 /\ handed' = Append(handed, s)
                 /\ pending' = (Started \ Ready) \union (streams \ {s})
            /\ caller' = [others EXCEPT ![c] = "done"]
            /\ wakers' = {}
            /\ acceptWaker' = c /\ pendingWaker' = c
         \/ /\ Open(Server) /\ streams = {}
            /\ pending' = Started \ Ready
            /\ caller' = [caller EXCEPT ![c] = "parked"]
            /\ wakers' = wakers \union {c}
            /\ acceptWaker' = c /\ pendingWaker' = c
            /\ UNCHANGED handed
      /\ UNCHANGED <<plan, life, opened, header, cancelled>>

\* Mutant: the other callers are not woken.
QuinnAcceptUni_WakesNobody(c) == PollAccept(c, {s \in Ready : DecodeUni(s) = "stream"}, FALSE)

QuinnAcceptUni(c) == PollAccept(c, {s \in Ready : DecodeUni(s) = "stream"}, TRUE)
QuinnAcceptBi(c) == PollAccept(c, {s \in Ready : DecodeBi(s) = "stream"}, TRUE)
NoqAcceptUni(c) == PollAccept(c, {s \in Ready : DecodeUni(s) = "stream"}, TRUE)
NoqAcceptBi(c) == PollAccept(c, {s \in Ready : DecodeBi(s) = "stream"}, TRUE)
IrohAcceptUni(c) == PollAccept(c, {s \in Ready : DecodeUni(s) = "stream"}, FALSE)
IrohAcceptBi(c) == PollAccept(c, {s \in Ready : DecodeBi(s) = "stream"}, FALSE)
QuicheAcceptUni(c) == PollAccept(c, {s \in Ready : DecodeUni(s) = "stream"}, FALSE)
QuicheAcceptBi(c) == PollAccept(c, {s \in Ready : DecodeBi(s) = "stream"}, FALSE)

Poll(c) ==
  /\ caller[c] = "run"
  /\ \/ Crate(Server) = "quinn" /\ plan.dir = "uni" /\ QuinnAcceptUni(c)
     \/ Crate(Server) = "quinn" /\ plan.dir = "bi" /\ QuinnAcceptBi(c)
     \/ Crate(Server) = "noq" /\ plan.dir = "uni" /\ NoqAcceptUni(c)
     \/ Crate(Server) = "noq" /\ plan.dir = "bi" /\ NoqAcceptBi(c)
     \/ Crate(Server) = "iroh" /\ plan.dir = "uni" /\ IrohAcceptUni(c)
     \/ Crate(Server) = "iroh" /\ plan.dir = "bi" /\ IrohAcceptBi(c)
     \/ Crate(Server) = "quiche" /\ plan.dir = "uni" /\ QuicheAcceptUni(c)
     \/ Crate(Server) = "quiche" /\ plan.dir = "bi" /\ QuicheAcceptBi(c)

\* accept_uni(), accept_bi(): each caller wants one stream.
Call(c) ==
  /\ c \in plan.callers /\ Up(Server) /\ caller[c] = "idle"
  /\ caller' = [caller EXCEPT ![c] = "run"]
  /\ UNCHANGED <<plan, life, opened, arrived, pending, header, acceptWaker,
                 pendingWaker, wakers, cancelled, handed>>

\* The future is dropped (another branch of a select! was ready); the caller
\* may ask again.  Its wakers stay where they are.
Cancel(c) ==
  /\ c \in plan.cancels \ cancelled /\ caller[c] \in {"run", "parked"}
  /\ caller' = [caller EXCEPT ![c] = "idle"]
  /\ cancelled' = cancelled \union {c}
  /\ UNCHANGED <<plan, life, opened, arrived, pending, header, acceptWaker,
                 pendingWaker, wakers, handed>>

-----------------------------------------------------------------------------
Network(e) == FrameArrives(e) \/ CloseArrives(e) \/ SettingsArrive(e) \/ IdleTimeout(e)

Handshake(e) == ReadSettings(e) \/ HandshakeFails(e)
Connect == SendConnect \/ AcceptConnect \/ Respond \/ Reject \/ ReadResponse

Tasks(e) == \/ SkipCapsule(e) \/ QuinnRunRecv(e) \/ QuinnRunRecvClose(e)
            \/ IrohRunClosed(e) \/ QuicheRunClosed(e)
            \/ WriteCapsule(e) \/ CloserEnds(e)

Streams == \E s \in 1 .. Len(plan.streams) : HeaderArrives(s)

Next ==
  \/ NetworkDies \/ Connect
  \/ \E e \in Ends : \/ Network(e) \/ Handshake(e) \/ Tasks(e) \/ ForceClose(e)
                     \/ Close(e) \/ Drop(e) \/ Report(e)
  \/ OpenStream \/ Streams
  \/ \E c \in Callers : Call(c) \/ Poll(c) \/ Cancel(c)

\* The network delivers while it lives, the runtime polls what is ready and
\* fires timers, and the applications come to the calls they plan.  Nobody has
\* to cancel, and the network need not die.
Fairness ==
  /\ WF_vars(Connect) /\ WF_vars(OpenStream) /\ WF_vars(Streams)
  /\ \A e \in Ends : /\ WF_vars(FrameArrives(e)) /\ WF_vars(CloseArrives(e))
                     /\ WF_vars(SettingsArrive(e)) /\ WF_vars(IdleTimeout(e))
                     /\ WF_vars(Handshake(e)) /\ WF_vars(Tasks(e))
                     /\ WF_vars(ForceClose(e)) /\ WF_vars(Report(e)) /\ WF_vars(Close(e))
  /\ \A c \in Callers : WF_vars(Call(c)) /\ WF_vars(Poll(c))

Spec == Init /\ [][Next]_vars /\ Fairness

-----------------------------------------------------------------------------
(* Properties.                                                              *)

\* Connected::open and Request::respond: a client has a session only where the
\* server made one with status 200, and both were promised the same protocol:
\* one the client offered, unless both ends are quiche, which looks at neither
\* side of the choice.
SessionsAgree ==
  Up(Client) =>
    /\ Up(Server) /\ plan.answer.status = 200
    /\ \/ plan.answer.protocol \in plan.offer \union {"none"}
       \/ Crate(Client) = "quiche" /\ Crate(Server) = "quiche"

\* map_error of quinn: who closed the session is told so by every later call,
\* although the peer answers the capsule with a close of its own.
CloserSeesLocal ==
  [][\A e \in Ends : Crate(e) = "quinn" /\ closer[e] # "off" /\ report'[e] # report[e]
                       => report'[e] = Local]_vars

\* close(): the session ends, whatever the peer does and however little credit
\* it grants.  The write of noq is not under the timeout: without credit it
\* waits as long as the connection lives.
CloseCompletes ==
  \A e \in Ends :
    called[e] /\ (Crate(e) = "noq" => ~plan.stall[e]) ~> ~Open(e)

\* run_recv: a capsule that arrived reaches the application of quinn and noq as
\* the code the peer gave, whichever of the capsule's own close, the peer's
\* forced close and closed() comes first; unless the application closed or
\* dropped the session itself, or the connection timed out.
CodeReachesPeer ==
  \A e \in Ends :
    ( /\ WithCapsule(e) /\ Up(e) /\ Open(e) /\ error[e] = None
      /\ \E i \in DOMAIN inbox[e] : inbox[e][i].kind = "capsule" )
    ~> \/ called[e] \/ dropped[e] \/ report[e] = TimedOut
       \/ report[e].kind = "closed" /\ report[e].code = plan.close[Other(e)]

\* SessionAccept: the streams of this session are never lost between the three
\* places that hold them, never handed out twice, and nothing else is ever
\* handed out.
HandedOnce ==
  /\ IsInjective(handed)
  /\ \A i \in DOMAIN handed : Kind(handed[i]) = "wt"
  /\ \A s \in 1 .. opened :
       Kind(s) = "wt" =>
         Cardinality({k \in {"arrived", "pending", "handed"} :
                        s \in CASE k = "arrived" -> Range(arrived)
                               [] k = "pending" -> pending
                               [] k = "handed" -> Range(handed)}) = 1

\* poll_accept_uni, poll_accept_bi: every caller of accept gets one of the
\* streams there are for all of them, or the error of the connection, although
\* the futures inside wake only the latest one and other streams never send
\* their header.
AcceptServed ==
  \A c \in Callers : caller[c] = "run" ~> caller[c] \notin {"run", "parked"}

\* web_transport_trait::Session: "The session will be closed on drop."
\* It does not hold: the task of a quiche session keeps a handle.
DropCloses == \A e \in Ends : dropped[e] ~> ~Open(e)

=============================================================================
