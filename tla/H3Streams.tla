------------------------------ MODULE H3Streams ------------------------------
(***************************************************************************)
(* What a WebTransport session over HTTP/3 carries: the stream wrappers    *)
(* (send.rs, recv.rs), their errors (error.rs) and the datagrams, of the   *)
(* same four crates, on top of H3Session.                                  *)
(*                                                                         *)
(* Stream 1 of the plan is written by the client and read by the server;   *)
(* plan.io says which calls the two applications make on it.  A code of    *)
(* the application crosses the wire as one of HTTP/3 (ErrorCodes), next to *)
(* those QUIC itself puts there.  The buffer the client writes holds the   *)
(* bytes 1 .. plan.io.bytes.  QUIC's streams and datagrams are external.   *)
(***************************************************************************)
EXTENDS H3Session, ErrorCodes

CONSTANTS
  Window,       \* how many bytes QUIC accepts ahead of the reader
  SEND_DROP,    \* DROP_CODE of quiche's send.rs
  RECV_DROP,    \* DROP_CODE of quiche's recv.rs
  HeaderLen,    \* the length of header_datagram, the session id
  Mtu           \* the largest QUIC datagram

ASSUME StreamsAssumption ==
  /\ Window \in Nat \ {0} /\ SEND_DROP \in Codes /\ RECV_DROP \in Codes
  /\ HeaderLen \in Nat /\ Mtu \in Nat

\* The applications' codes are u32, their buffers and payloads have lengths.
ASSUME CallsAssumption ==
  \A p \in Plans :
    /\ p.io.code \in [Ends -> Codes] /\ p.io.sizes \subseteq Nat
    /\ p.io.bytes \in Nat /\ p.io.chunk \in Nat \ {0}

VARIABLES
  taken,        \* how far write_buf has advanced the caller's buffer
  offered,      \* the bytes of the write_buf in progress, <<>> without one
  accepted,     \* the bytes QUIC accepted for sending, in order
  sendHalf,     \* the sending half: "open", "fin" or "reset"
  resetCode,    \* the HTTP/3 code of its RESET_STREAM
  resetSeen,    \* RESET_STREAM has reached the server
  got,          \* the bytes the server's application has read
  stopCode,     \* the HTTP/3 code of the server's STOP_SENDING
  stopSent,     \* STOP_SENDING is on its way (quiche: the driver has sent it)
  stopSeen,     \* STOP_SENDING has reached the client
  asked,        \* per end, the code its application gave to reset() or stop()
  gone,         \* the ends whose application dropped its half
  gaveUp,       \* a write was cancelled
  told          \* per end, how the stream ended for its application, or None

sending == <<taken, offered, accepted, sendHalf, resetCode, gaveUp>>
receiving == <<got, stopCode, stopSent>>
signals == <<resetSeen, stopSeen>>

VARIABLES
  datagrams,    \* the datagrams on their way to the server
  sentData,     \* the payloads the client sent
  gotData,      \* what read_datagram of the server returned
  refused       \* the payloads send_datagram did not take

dgrams == <<datagrams, sentData, gotData, refused>>

session == <<plan, life, accepting>>
stream == <<sending, receiving, signals, asked, gone, told>>
allVars == <<session, stream, dgrams>>

IoInit ==
  /\ Init
  /\ taken = 0 /\ offered = <<>> /\ accepted = <<>> /\ sendHalf = "open"
  /\ resetCode = NoCode /\ resetSeen = FALSE /\ got = <<>>
  /\ stopCode = NoCode /\ stopSent = FALSE /\ stopSeen = FALSE
  /\ asked = [e \in Ends |-> NoCode] /\ gone = {} /\ gaveUp = FALSE
  /\ told = [e \in Ends |-> None]
  /\ datagrams = {} /\ sentData = {} /\ gotData = {} /\ refused = {}

Does(call) == call \in plan.io.calls
Smaller(a, b) == IF a < b THEN a ELSE b

\* An application calls on a half it holds until a call has told it the end.
SendHeld == opened > 0 /\ Client \notin gone /\ told[Client] = None /\ offered = <<>>
RecvHeld == 1 \in Range(handed) /\ Server \notin gone /\ told[Server] = None

-----------------------------------------------------------------------------
(* Errors of a stream: what QUIC says, and what the application is told.    *)

Ok == [kind |-> "ok"]
Fin == [kind |-> "fin"]
ClosedStream == [kind |-> "closed stream"]
Session(err) == [kind |-> "session", err |-> err]
Stopped(code) == [kind |-> "stopped", code |-> code]
Reset(code) == [kind |-> "reset", code |-> code]
Invalid(code) == [kind |-> "invalid", code |-> code]

Lost == [kind |-> "lost"]

\* From<WriteError>: a code outside the range of WebTransport is kept apart.
QuinnWriteError(e, q) ==
  CASE q.kind = "stopped" -> IF error_from_http3(q.code) # NoCode
                             THEN Stopped(error_from_http3(q.code)) ELSE Invalid(q.code)
    [] q.kind = "lost" -> Session(conn[e])
    [] OTHER -> ClosedStream
NoqWriteError(e, q) == QuinnWriteError(e, q)
IrohWriteError(e, q) ==
  CASE q.kind = "stopped" -> IF error_from_http3(q.code) # NoCode
                             THEN Stopped(error_from_http3(q.code)) ELSE Invalid(q.code)
    [] q.kind = "lost" -> Session(IrohMapError(e))
    [] OTHER -> ClosedStream

\* From<ReadError>.
QuinnReadError(e, q) ==
  CASE q.kind = "reset" -> IF error_from_http3(q.code) # NoCode
                           THEN Reset(error_from_http3(q.code)) ELSE Invalid(q.code)
    [] q.kind = "lost" -> Session(conn[e])
    [] OTHER -> ClosedStream
NoqReadError(e, q) == QuinnReadError(e, q)
IrohReadError(e, q) ==
  CASE q.kind = "reset" -> IF error_from_http3(q.code) # NoCode
                           THEN Reset(error_from_http3(q.code)) ELSE Invalid(q.code)
    [] q.kind = "lost" -> Session(IrohMapError(e))
    [] OTHER -> ClosedStream

\* quiche has one error for both halves.
QuicheStreamError(e, q) ==
  CASE q.kind = "reset" -> IF error_from_http3(q.code) # NoCode
                           THEN Reset(error_from_http3(q.code)) ELSE Invalid(q.code)
    [] q.kind = "stopped" -> IF error_from_http3(q.code) # NoCode
                             THEN Stopped(error_from_http3(q.code)) ELSE Invalid(q.code)
    [] q.kind = "lost" -> Session(QuicheMapError(e))
    [] OTHER -> ClosedStream

\* map_error of the streams: once the end of the session is recorded it takes
\* the place of a connection error; of quinn also that of a foreign code, which
\* is what the peer's streams send when they are dropped with its session.
QuinnSendMapError(e, w) ==
  IF error[e] # None /\ w.kind \in {"session", "invalid"} THEN Session(error[e]) ELSE w
QuinnRecvMapError(e, w) ==
  IF error[e] # None /\ w.kind \in {"session", "invalid"} THEN Session(error[e]) ELSE w
NoqSendMapError(e, w) ==
  IF error[e] # None /\ w.kind = "session" THEN Session(error[e]) ELSE w
NoqRecvMapError(e, w) ==
  IF error[e] # None /\ w.kind = "session" THEN Session(error[e]) ELSE w

WriteTold(q) ==
  CASE Crate(Client) = "noq" -> NoqSendMapError(Client, NoqWriteError(Client, q))
    [] Crate(Client) = "iroh" -> IrohWriteError(Client, q)
    [] Crate(Client) = "quiche" -> QuicheStreamError(Client, q)
    [] OTHER -> QuinnSendMapError(Client, QuinnWriteError(Client, q))

ReadTold(q) ==
  CASE Crate(Server) = "noq" -> NoqRecvMapError(Server, NoqReadError(Server, q))
    [] Crate(Server) = "iroh" -> IrohReadError(Server, q)
    [] Crate(Server) = "quiche" -> QuicheStreamError(Server, q)
    [] OTHER -> QuinnRecvMapError(Server, QuinnReadError(Server, q))

-----------------------------------------------------------------------------
(* The sending half.                                                        *)

Room == Window - (Len(accepted) - Len(got))

\* What QUIC has against a write (external): quinn, noq and iroh look at the
\* connection first, quiche at the stream, and at the connection only when the
\* write would wait.
QuicWriteError ==
  CASE ~Open(Client) -> Lost
    [] Open(Client) /\ sendHalf # "open" -> ClosedStream
    [] Open(Client) /\ sendHalf = "open" /\ stopSeen -> Stopped(stopCode)
    [] OTHER -> Ok
EzWriteError ==
  CASE sendHalf = "reset" -> Reset(resetCode)
    [] sendHalf # "reset" /\ stopSeen -> Stopped(stopCode)
    [] sendHalf = "fin" /\ ~stopSeen -> ClosedStream
    [] sendHalf = "open" /\ ~stopSeen /\ ~Open(Client) /\ Room <= 0 -> Lost
    [] OTHER -> Ok
WriteError == IF Crate(Client) = "quiche" THEN EzWriteError ELSE QuicWriteError

\* A call of write_buf with the next bytes of the buffer.  `first`: they are
\* taken out of the buffer before the call waits for room.
BeginWrite(first) ==
  LET size == Smaller(plan.io.chunk, plan.io.bytes - taken)
  IN  /\ offered' = [i \in 1 .. size |-> taken + i]
      /\ taken' = IF first THEN taken + size ELSE taken

\* Mutant: the chunk is taken out of the buffer before the call waits.
QuinnWriteBuf_TakesFirst == BeginWrite(TRUE)

\* write_buf of quinn and quiche is the trait's: write, then advance by what was
\* written.  noq and iroh copy the chunk out of the buffer and hand it over.
QuinnWriteBuf == BeginWrite(FALSE)
NoqWriteBuf == BeginWrite(TRUE)
IrohWriteBuf == BeginWrite(TRUE)
QuicheWriteBuf == BeginWrite(FALSE)

WriteBuf ==
  /\ Does("write") /\ SendHeld /\ taken < plan.io.bytes
  /\ \/ Crate(Client) = "quinn" /\ QuinnWriteBuf
     \/ Crate(Client) = "noq" /\ NoqWriteBuf
     \/ Crate(Client) = "iroh" /\ IrohWriteBuf
     \/ Crate(Client) = "quiche" /\ QuicheWriteBuf
  /\ UNCHANGED <<accepted, sendHalf, resetCode, gaveUp, receiving, signals, asked,
                 gone, told>>

\* QUIC accepts what there is room for.  write returns with that and the buffer
\* is advanced by it; write_chunk goes on until it has handed over the chunk.
AcceptBytes ==
  LET n == Smaller(Room, Len(offered))
  IN  /\ offered # <<>> /\ WriteError = Ok /\ Room > 0
      /\ accepted' = accepted \o SubSeq(offered, 1, n)
      /\ IF offered[Len(offered)] <= taken
         THEN offered' = SubSeq(offered, n + 1, Len(offered)) /\ UNCHANGED taken
         ELSE offered' = <<>> /\ taken' = taken + n
      /\ UNCHANGED <<sendHalf, resetCode, gaveUp, receiving, signals, asked, gone, told>>

WriteFails ==
  /\ offered # <<>> /\ WriteError # Ok
  /\ offered' = <<>>
  /\ told' = [told EXCEPT ![Client] = WriteTold(WriteError)]
  /\ UNCHANGED <<taken, accepted, sendHalf, resetCode, gaveUp, receiving, signals,
                 asked, gone>>

\* The future of write_buf is dropped; the application goes on with its buffer.
CancelWrite ==
  /\ Does("cancel") /\ offered # <<>>
  /\ offered' = <<>> /\ gaveUp' = TRUE
  /\ UNCHANGED <<taken, accepted, sendHalf, resetCode, receiving, signals, asked, gone,
                 told>>

\* finish(): of quinn, noq and iroh a stop is no error, and the stop stays.
QuinnFinish ==
  /\ sendHalf' = IF stopSeen THEN sendHalf ELSE "fin"
  /\ UNCHANGED told
NoqFinish == QuinnFinish
IrohFinish == QuinnFinish
QuicheFinish ==
  IF stopSeen
  THEN /\ told' = [told EXCEPT ![Client] = QuicheStreamError(Client, Stopped(stopCode))]
       /\ UNCHANGED sendHalf
  ELSE sendHalf' = "fin" /\ UNCHANGED told

Finish ==
  /\ Does("finish") /\ SendHeld /\ sendHalf = "open" /\ Open(Client)
  /\ \/ Crate(Client) = "quinn" /\ QuinnFinish
     \/ Crate(Client) = "noq" /\ NoqFinish
     \/ Crate(Client) = "iroh" /\ IrohFinish
     \/ Crate(Client) = "quiche" /\ QuicheFinish
  /\ UNCHANGED <<taken, offered, accepted, resetCode, gaveUp, receiving, signals, asked,
                 gone>>

\* Mutant: the code goes out as it is.
QuinnReset_Raw(code) == code

\* reset(): the code the wire carries.
QuinnReset(code) == error_to_http3(code)
NoqReset(code) == error_to_http3(code)
IrohReset(code) == error_to_http3(code)
QuicheReset(code) == error_to_http3(code)

ResetCall ==
  LET code == plan.io.code[Client]
  IN  /\ Does("reset") /\ SendHeld /\ sendHalf # "reset" /\ Open(Client)
      /\ sendHalf' = "reset"
      /\ resetCode' = CASE Crate(Client) = "noq" -> NoqReset(code)
                        [] Crate(Client) = "iroh" -> IrohReset(code)
                        [] Crate(Client) = "quiche" -> QuicheReset(code)
                        [] OTHER -> QuinnReset(code)
      /\ asked' = [asked EXCEPT ![Client] = code]
      /\ UNCHANGED <<taken, offered, accepted, gaveUp, receiving, signals, gone, told>>

\* A SendStream is dropped.  The QUIC library of quinn, noq and iroh finishes
\* it, or answers the peer's stop with its code (external); quiche resets it.
QuicDropSend ==
  /\ sendHalf' = IF sendHalf # "open" THEN sendHalf ELSE IF stopSeen THEN "reset" ELSE "fin"
  /\ resetCode' = IF sendHalf = "open" /\ stopSeen THEN stopCode ELSE resetCode
QuicheDropSend ==
  IF sendHalf = "open" /\ ~stopSeen
  THEN sendHalf' = "reset" /\ resetCode' = error_to_http3(SEND_DROP)
  ELSE UNCHANGED <<sendHalf, resetCode>>

DropSend ==
  /\ Does("drop send") /\ opened > 0 /\ Client \notin gone /\ offered = <<>>
  /\ IF ~Open(Client) THEN UNCHANGED <<sendHalf, resetCode>>
     ELSE IF Crate(Client) = "quiche" THEN QuicheDropSend ELSE QuicDropSend
  /\ gone' = gone \union {Client}
  /\ UNCHANGED <<taken, offered, accepted, gaveUp, receiving, signals, asked, told>>

\* stopped() and closed(): a foreign code counts as none, except with quiche.
QuinnClosed ==
  CASE ~Open(Client) -> Session(IF error[Client] # None THEN error[Client] ELSE conn[Client])
    [] Open(Client) /\ stopSeen /\ error_from_http3(stopCode) # NoCode ->
         Stopped(error_from_http3(stopCode))
    [] OTHER -> Ok
NoqClosed == QuinnClosed
IrohClosed ==
  CASE ~Open(Client) -> Session(IrohMapError(Client))
    [] Open(Client) /\ stopSeen /\ error_from_http3(stopCode) # NoCode ->
         Stopped(error_from_http3(stopCode))
    [] OTHER -> Ok
QuicheClosed(flushed) ==
  CASE sendHalf = "reset" -> QuicheStreamError(Client, Reset(resetCode))
    [] sendHalf # "reset" /\ stopSeen -> QuicheStreamError(Client, Stopped(stopCode))
    [] ~stopSeen /\ (sendHalf = "open" \/ (sendHalf = "fin" /\ ~flushed)) ->
         QuicheStreamError(Client, Lost)
    [] OTHER -> Ok

\* It returns once the stream is over: stopped, reset, finished (and delivered,
\* but for quiche, whose driver has only to flush the FIN) or lost with the
\* connection, which a FIN not yet flushed may be.
ClosedSend ==
  /\ Does("closed") /\ SendHeld
  /\ \/ ~Open(Client) \/ stopSeen \/ sendHalf = "reset"
     \/ sendHalf = "fin" /\ (Crate(Client) = "quiche" \/ got = accepted)
  /\ \E flushed \in {TRUE, Open(Client)} :
       told' = [told EXCEPT ![Client] = CASE Crate(Client) = "noq" -> NoqClosed
                                          [] Crate(Client) = "iroh" -> IrohClosed
                                          [] Crate(Client) = "quiche" -> QuicheClosed(flushed)
                                          [] OTHER -> QuinnClosed]
  /\ UNCHANGED <<sending, receiving, signals, asked, gone>>

-----------------------------------------------------------------------------
(* The receiving half.                                                      *)

\* What QUIC has against a read (external); bytes that are there come first.
QuicReadError ==
  CASE stopCode # NoCode -> ClosedStream
    [] stopCode = NoCode /\ resetSeen -> Reset(resetCode)
    [] stopCode = NoCode /\ ~resetSeen /\ ~Open(Server) -> Lost
    [] OTHER -> Ok
EzReadError ==
  CASE resetSeen -> Reset(resetCode)
    [] ~resetSeen /\ stopCode # NoCode -> Stopped(stopCode)
    [] ~resetSeen /\ stopCode = NoCode /\ ~Open(Server) -> Lost
    [] OTHER -> Ok
ReadError == IF Crate(Server) = "quiche" THEN EzReadError ELSE QuicReadError

\* read: a byte, the end, or an error.  What had arrived when the connection
\* ended may still be read.
Read ==
  /\ Does("read") /\ RecvHeld
  /\ \/ /\ ReadError \in {Ok, Lost} /\ Len(got) < Len(accepted)
        /\ got' = Append(got, accepted[Len(got) + 1])
        /\ UNCHANGED told
     \/ /\ ReadError \in {Ok, Lost} /\ sendHalf = "fin" /\ got = accepted
        /\ told' = [told EXCEPT ![Server] = Fin]
        /\ UNCHANGED got
     \/ /\ ReadError # Ok
        /\ told' = [told EXCEPT ![Server] = ReadTold(ReadError)]
        /\ UNCHANGED got
  /\ UNCHANGED <<sending, stopCode, stopSent, signals, asked, gone>>

\* stop(): QUIC takes the first one.  quiche keeps the last one until its driver
\* comes to the stream.
QuicStop(code) ==
  IF stopCode = NoCode THEN stopCode' = code /\ stopSent' = TRUE
                       ELSE UNCHANGED <<stopCode, stopSent>>
QuinnStop(code) == QuicStop(error_to_http3(code))
NoqStop(code) == QuicStop(error_to_http3(code))
IrohStop(code) == QuicStop(error_to_http3(code))
QuicheStop(code) == stopCode' = error_to_http3(code) /\ UNCHANGED stopSent

StopCall ==
  LET code == plan.io.code[Server]
  IN  /\ Does("stop") /\ RecvHeld /\ asked[Server] = NoCode /\ Open(Server)
      /\ \/ Crate(Server) = "quinn" /\ QuinnStop(code)
         \/ Crate(Server) = "noq" /\ NoqStop(code)
         \/ Crate(Server) = "iroh" /\ IrohStop(code)
         \/ Crate(Server) = "quiche" /\ QuicheStop(code)
      /\ asked' = [asked EXCEPT ![Server] = code]
      /\ UNCHANGED <<sending, got, signals, gone, told>>

\* The driver of quiche sends the STOP_SENDING that is recorded by then.
DriverStops ==
  /\ Crate(Server) = "quiche" /\ stopCode # NoCode /\ ~stopSent /\ Open(Server)
  /\ ~resetSeen /\ told[Server] # Fin
  /\ stopSent' = TRUE
  /\ UNCHANGED <<sending, got, stopCode, signals, asked, gone, told>>

\* A RecvStream is dropped before its end was read.  The QUIC library of quinn,
\* noq and iroh stops it with a code 0 of its own (external); quiche with the
\* drop code, unless its driver has seen the end: a stop() the driver has not
\* sent yet is overwritten.
QuicDropRecv ==
  IF told[Server].kind \in {"fin", "reset", "invalid"}
  THEN UNCHANGED <<stopCode, stopSent>> ELSE QuicStop(0)
QuicheDropRecv ==
  \/ /\ stopSent \/ resetSeen \/ (sendHalf = "fin" /\ stopCode = NoCode)
     /\ UNCHANGED <<stopCode, stopSent>>
  \/ /\ ~stopSent /\ ~resetSeen /\ told[Server] # Fin
     /\ stopCode' = error_to_http3(RECV_DROP) /\ UNCHANGED stopSent

DropRecv ==
  /\ Does("drop recv") /\ 1 \in Range(handed) /\ Server \notin gone /\ Open(Server)
  /\ IF Crate(Server) = "quiche" THEN QuicheDropRecv ELSE QuicDropRecv
  /\ gone' = gone \union {Server}
  /\ UNCHANGED <<sending, got, signals, asked, told>>

\* received_reset() and closed(): the code is not passed on, except by quiche.
QuinnRecvClosed ==
  IF resetSeen \/ stopCode # NoCode \/ Open(Server) THEN Ok
  ELSE Session(IF error[Server] # None THEN error[Server] ELSE conn[Server])
NoqRecvClosed == QuinnRecvClosed
IrohRecvClosed ==
  IF resetSeen \/ stopCode # NoCode \/ Open(Server) THEN Ok ELSE Session(IrohMapError(Server))
QuicheRecvClosed ==
  CASE sendHalf = "fin" /\ got = accepted /\ Open(Server) -> Ok
    [] ~(sendHalf = "fin" /\ got = accepted /\ Open(Server)) /\ EzReadError # Ok ->
         QuicheStreamError(Server, EzReadError)
    [] OTHER -> Ok

ClosedRecv ==
  /\ Does("closed") /\ RecvHeld
  /\ resetSeen \/ stopCode # NoCode \/ ~Open(Server) \/ (sendHalf = "fin" /\ got = accepted)
  /\ told' = [told EXCEPT ![Server] = CASE Crate(Server) = "noq" -> NoqRecvClosed
                                        [] Crate(Server) = "iroh" -> IrohRecvClosed
                                        [] Crate(Server) = "quiche" -> QuicheRecvClosed
                                        [] OTHER -> QuinnRecvClosed]
  /\ UNCHANGED <<sending, receiving, signals, asked, gone>>

-----------------------------------------------------------------------------
(* Frames of the stream on their way (external).                            *)

\* The driver of quiche does not look for a reset behind a stop.
ResetArrives ==
  /\ sendHalf = "reset" /\ ~resetSeen /\ Open(Server) /\ ~dead
  /\ Crate(Server) = "quiche" => stopCode = NoCode
  /\ resetSeen' = TRUE
  /\ UNCHANGED <<sending, receiving, stopSeen, asked, gone, told>>

StopArrives ==
  /\ stopSent /\ ~stopSeen /\ Open(Client) /\ ~dead
  /\ stopSeen' = TRUE
  /\ UNCHANGED <<sending, receiving, resetSeen, asked, gone, told>>

-----------------------------------------------------------------------------
(* Datagrams of the client: a session id and a payload.  A payload stands   *)
(* for its length.                                                          *)

Ours == "this session"
Foreign == "another session"

\* send_datagram: the header goes in front of the payload.
QuinnDatagram(n) == [id |-> Ours, len |-> HeaderLen + n]
NoqDatagram(n) == [id |-> Ours, len |-> HeaderLen + n]
IrohDatagram(n) == [id |-> Ours, len |-> HeaderLen + n]
QuicheDatagram(n) == [id |-> Ours, len |-> HeaderLen + n]

Datagram(n) ==
  CASE Crate(Client) = "noq" -> NoqDatagram(n)
    [] Crate(Client) = "iroh" -> IrohDatagram(n)
    [] Crate(Client) = "quiche" -> QuicheDatagram(n)
    [] OTHER -> QuinnDatagram(n)

\* max_datagram_size: saturating_sub.
QuinnMaxDatagram == IF Mtu > HeaderLen THEN Mtu - HeaderLen ELSE 0
NoqMaxDatagram == IF Mtu > HeaderLen THEN Mtu - HeaderLen ELSE 0
IrohMaxDatagram == IF Mtu > HeaderLen THEN Mtu - HeaderLen ELSE 0
QuicheMaxDatagram == IF Mtu > HeaderLen THEN Mtu - HeaderLen ELSE 0

MaxDatagram ==
  CASE Crate(Client) = "noq" -> NoqMaxDatagram
    [] Crate(Client) = "iroh" -> IrohMaxDatagram
    [] Crate(Client) = "quiche" -> QuicheMaxDatagram
    [] OTHER -> QuinnMaxDatagram

\* What does not fit is an error, or dropped by the driver of quiche.
SendDatagram(n) ==
  /\ Does("datagram") /\ Up(Client) /\ Open(Client) /\ n \notin sentData \union refused
  /\ IF Datagram(n).len <= Mtu
     THEN /\ datagrams' = datagrams \union {Datagram(n)}
          /\ sentData' = sentData \union {n}
          /\ UNCHANGED refused
     ELSE refused' = refused \union {n} /\ UNCHANGED <<datagrams, sentData>>
  /\ UNCHANGED gotData

\* Another session of the client on the same connection.
ForeignDatagram(n) ==
  /\ Does("foreign datagram") /\ Up(Client) /\ Open(Client)
  /\ [id |-> Foreign, len |-> HeaderLen + n] \notin datagrams
  /\ datagrams' = datagrams \union {[id |-> Foreign, len |-> HeaderLen + n]}
  /\ UNCHANGED <<sentData, gotData, refused>>

LoseDatagram(d) ==
  /\ datagrams' = datagrams \ {d}
  /\ UNCHANGED <<sentData, gotData, refused>>

\* Mutant: the session id is stripped and not compared.
QuinnReadDatagram_AnySession(d) == {d.len - HeaderLen}

\* read_datagram: the payload, if the session id is ours; else an error, which
\* the session survives.
QuinnReadDatagram(d) == IF d.id = Ours THEN {d.len - HeaderLen} ELSE {}
NoqReadDatagram(d) == IF d.id = Ours THEN {d.len - HeaderLen} ELSE {}
IrohReadDatagram(d) == IF d.id = Ours THEN {d.len - HeaderLen} ELSE {}
QuicheReadDatagram(d) == IF d.id = Ours THEN {d.len - HeaderLen} ELSE {}

ReadDatagram(d) ==
  /\ Does("datagram") /\ Up(Server) /\ Open(Server)
  /\ datagrams' = datagrams \ {d}
  /\ gotData' = gotData \union
       (CASE Crate(Server) = "noq" -> NoqReadDatagram(d)
          [] Crate(Server) = "iroh" -> IrohReadDatagram(d)
          [] Crate(Server) = "quiche" -> QuicheReadDatagram(d)
          [] OTHER -> QuinnReadDatagram(d))
  /\ UNCHANGED <<sentData, refused>>

-----------------------------------------------------------------------------
StreamNext ==
  /\ \/ WriteBuf \/ AcceptBytes \/ WriteFails \/ CancelWrite \/ Finish \/ ResetCall
     \/ DropSend \/ ClosedSend
     \/ Read \/ StopCall \/ DriverStops \/ DropRecv \/ ClosedRecv
     \/ ResetArrives \/ StopArrives
  /\ UNCHANGED <<session, dgrams>>

DatagramNext ==
  /\ \/ \E n \in plan.io.sizes : SendDatagram(n) \/ ForeignDatagram(n)
     \/ \E d \in datagrams : LoseDatagram(d) \/ ReadDatagram(d)
  /\ UNCHANGED <<session, stream>>

IoNext ==
  \/ Next /\ UNCHANGED <<stream, dgrams>>
  \/ StreamNext
  \/ DatagramNext

IoSpec == IoInit /\ [][IoNext]_allVars /\ Fairness

-----------------------------------------------------------------------------
(* Properties.                                                              *)

\* reset(), stop() and their errors: a code an application is told is the one
\* the peer's application gave, or quiche's for a stream that was dropped; and
\* only a stream that was dropped ends with a code outside WebTransport.  (A
\* stop() of quiche that its driver has not sent is lost to the drop code.)
StreamCodesExact ==
  /\ told[Server].kind = "reset" =>
       \/ told[Server].code = asked[Client]
       \/ /\ Crate(Client) = "quiche" /\ Client \in gone /\ asked[Client] = NoCode
          /\ told[Server].code = SEND_DROP
  /\ told[Client].kind = "stopped" =>
       \/ told[Client].code = asked[Server]
       \/ Crate(Server) = "quiche" /\ Server \in gone /\ told[Client].code = RECV_DROP
  /\ told[Client].kind = "invalid" =>
       Crate(Server) # "quiche" /\ Server \in gone /\ asked[Server] = NoCode
  /\ told[Server].kind # "invalid"

\* write_buf and read: the bytes read are the caller's bytes from the first on,
\* without a hole, and a FIN is told behind all that was accepted.  The buffer
\* is never ahead of what was accepted when no call is in progress.  Of noq and
\* iroh this is so only while no write is cancelled.
BytesExact ==
  /\ IsPrefix(got, accepted)
  /\ told[Server] = Fin => got = accepted
  /\ Crate(Client) \in {"quinn", "quiche"} \/ ~gaveUp =>
       /\ accepted = [i \in 1 .. Len(accepted) |-> i]
       /\ offered = <<>> /\ told[Client] = None => taken = Len(accepted)

\* send_datagram, read_datagram: only payloads of this session come out, whole;
\* and a payload of max_datagram_size or less is never too large.
DatagramsExact ==
  /\ gotData \subseteq sentData
  /\ \A n \in refused : n > MaxDatagram \/ Mtu < HeaderLen

\* web_transport_trait::SendStream::write_buf: "if the returned future is
\* dropped before it resolves, `buf` must not have been advanced past the bytes
\* the implementation accepted for sending."
\* It does not hold of noq and iroh.
CancelSafe == offered = <<>> /\ told[Client] = None => taken <= Len(accepted)

\* RecvStream::stop of quiche: "Tell the other end to stop sending data with the
\* given error code."  It does not hold when the stream is dropped at once.
StopCodeKept ==
  told[Client].kind = "stopped" /\ asked[Server] # NoCode => told[Client].code = asked[Server]

=============================================================================
