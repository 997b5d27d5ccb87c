------------------------------ MODULE H3Proofs ------------------------------
(***************************************************************************)
(* WebTransport over HTTP/3, for every pair of crates, every plan of the   *)
(* applications and any number of callers: the two sessions agree, streams *)
(* are handed out once, bytes, datagrams and error codes cross as they     *)
(* were given.                                                             *)
(***************************************************************************)
EXTENDS H3Streams, FiniteSetTheorems, SequenceTheorems, TLAPS

----------------------------------------------------------------------------
(* Error codes of the application among those of HTTP/3                     *)

\* The codes of HTTP/3 that carry the application's, and the way back: every
\* u32 has one code point inside the range, and gets itself back from it.
LEMMA CodesRoundTrip ==
  ASSUME NEW c \in Codes
  PROVE  /\ error_to_http3(c) \in ERROR_FIRST .. ERROR_LAST /\ error_to_http3(c) # NoCode
         /\ error_from_http3(error_to_http3(c)) = c
<1> DEFINE q == c \div 30
           r == c % 30
<1>1. /\ c \in Nat /\ c <= MaxCode /\ MaxCode \in Nat
      /\ ERROR_FIRST \in Nat /\ ERROR_FIRST >= 1 BY CodesAssumption DEF Codes
<1>2. q \in Nat /\ r \in 0 .. 29 /\ c = 30 * q + r BY <1>1
<1>3. MaxCode \div 30 \in Nat /\ q <= MaxCode \div 30 BY <1>1
<1>4. c + q <= MaxCode + MaxCode \div 30 BY <1>1, <1>2, <1>3
<1> HIDE DEF r, q
<1>5. (c + q) \div 31 = q BY <1>1, <1>2
<1>6. error_to_http3(c) = ERROR_FIRST + c + q BY DEF error_to_http3, q
<1>7. error_to_http3(c) \in Nat /\ error_to_http3(c) - ERROR_FIRST = c + q
      /\ error_to_http3(c) >= ERROR_FIRST /\ error_to_http3(c) <= ERROR_LAST
  BY <1>1, <1>2, <1>3, <1>4, <1>6, CodesAssumption
<1>8. ERROR_LAST \in Nat BY <1>1, <1>3, CodesAssumption
<1>9. error_from_http3(error_to_http3(c)) = c
  <2>1. ~ (error_to_http3(c) < ERROR_FIRST \/ error_to_http3(c) > ERROR_LAST) BY <1>1, <1>7, <1>8
  <2>2. error_from_http3(error_to_http3(c)) = (c + q) - (c + q) \div 31 BY <1>7, <2>1 DEF error_from_http3
  <2> QED BY <1>1, <1>2, <1>5, <2>2
<1>10. error_to_http3(c) # NoCode BY <1>7 DEF NoCode
<1> QED BY <1>1, <1>7, <1>8, <1>9, <1>10

\* Nothing else comes back: what is decoded fits in the u32 it is cast to.
LEMMA CodesFit ==
  ASSUME NEW h \in Nat, error_from_http3(h) # NoCode
  PROVE  error_from_http3(h) \in Codes
<1> DEFINE o == h - ERROR_FIRST
           m == MaxCode \div 30
<1>1. /\ MaxCode \in Nat /\ ERROR_FIRST \in Nat /\ m \in Nat /\ ERROR_LAST = ERROR_FIRST + MaxCode + m
      /\ m * 30 <= MaxCode /\ MaxCode < 30 * m + 30 BY CodesAssumption
<1> HIDE DEF m
<1>2. o \in Nat /\ o <= MaxCode + m /\ error_from_http3(h) = o - o \div 31 BY <1>1 DEF error_from_http3
<1> HIDE DEF o
<1>3. o \div 31 \in Nat /\ o \div 31 <= o /\ 31 * (o \div 31) <= o
      /\ o < 31 * (o \div 31) + 31 BY <1>2
<1>4. o - o \div 31 <= MaxCode BY <1>1, <1>2, <1>3
<1> QED BY <1>1, <1>2, <1>3, <1>4 DEF Codes

\* QUIC's own 0 is outside the range.
LEMMA ZeroIsForeign == error_from_http3(0) = NoCode
  BY CodesAssumption DEF error_from_http3

----------------------------------------------------------------------------
(* The codes of a stream                                                    *)

\* Where the code of a RESET_STREAM comes from: the client's reset(), quiche's
\* drop, or the peer's STOP_SENDING that QUIC answers.
ResetByCall == asked[Client] \in Codes /\ resetCode = error_to_http3(asked[Client])
ResetByDrop ==
  /\ Crate(Client) = "quiche" /\ Client \in gone /\ asked[Client] = NoCode /\ resetCode = error_to_http3(SEND_DROP)
ResetByStop ==
  /\ Crate(Client) # "quiche" /\ Client \in gone /\ asked[Client] = NoCode /\ stopSeen /\ resetCode = stopCode

\* Where the code of a STOP_SENDING comes from: the server's stop(), quiche's
\* drop, or the library's.
StopByCall == asked[Server] \in Codes /\ stopCode = error_to_http3(asked[Server])
StopByDrop ==
  Crate(Server) = "quiche" /\ Server \in gone /\ stopCode = error_to_http3(RECV_DROP)
StopByLibrary ==
  /\ Crate(Server) # "quiche" /\ Server \in gone /\ asked[Server] = NoCode /\ stopCode = 0

\* What an end may be told of the stream: StreamCodesExact for a single error,
\* and that the frame with the code exists.
ClientTold(w) ==
  /\ w.kind \in {"stopped", "invalid"} => stopCode # NoCode
  /\ w.kind = "stopped" =>
       \/ w.code = asked[Server]
       \/ Crate(Server) = "quiche" /\ Server \in gone /\ w.code = RECV_DROP
  /\ w.kind = "invalid" =>
       Crate(Server) # "quiche" /\ Server \in gone /\ asked[Server] = NoCode
ServerTold(w) ==
  /\ w.kind # "invalid"
  /\ w.kind = "reset" =>
       /\ sendHalf = "reset"
       /\ \/ w.code = asked[Client]
          \/ /\ Crate(Client) = "quiche" /\ Client \in gone /\ asked[Client] = NoCode /\ w.code = SEND_DROP

\* The inductive invariant behind StreamCodesExact: which code is on the wire,
\* and that it no longer changes once the peer may have seen it.
CodesInv ==
  /\ plan \in Plans /\ asked \in [Ends -> Codes \cup {NoCode}] /\ DOMAIN told = Ends
  /\ resetSeen \in BOOLEAN /\ stopSeen \in BOOLEAN /\ stopSent \in BOOLEAN
  /\ asked[Client] # NoCode => sendHalf = "reset"
  /\ asked[Server] # NoCode => stopCode # NoCode
  /\ sendHalf = "reset" => ResetByCall \/ ResetByDrop \/ ResetByStop
  /\ stopSeen => stopSent
  /\ stopSent => stopCode # NoCode
  /\ stopCode # NoCode => StopByCall \/ StopByDrop \/ StopByLibrary
  /\ resetSeen => sendHalf = "reset"
  /\ Crate(Server) = "quiche" /\ resetSeen => ResetByCall \/ ResetByDrop
  /\ ClientTold(told[Client]) /\ ServerTold(told[Server])

\* The fields of the errors.
LEMMA SessionKind == \A err : Session(err).kind = "session"
  BY DEF Session

\* The same for the others.
LEMMA ErrorKinds ==
  /\ ClosedStream.kind = "closed stream" /\ Ok.kind = "ok" /\ Fin.kind = "fin"
  /\ Lost.kind = "lost" /\ None.kind = "none"
  /\ \A c : /\ Stopped(c).kind = "stopped" /\ Stopped(c).code = c /\ Reset(c).kind = "reset" /\ Reset(c).code = c
            /\ Invalid(c).kind = "invalid" /\ Invalid(c).code = c
  BY DEF ClosedStream, Ok, Fin, Lost, None, Stopped, Reset, Invalid

\* The error of a write, before the session's end is looked at.
LEMMA WriteErrorForm ==
  ASSUME NEW e, NEW q
  PROVE  \A w \in {QuinnWriteError(e, q), NoqWriteError(e, q), IrohWriteError(e, q)} :
           \/ /\ q.kind = "stopped" /\ error_from_http3(q.code) # NoCode /\ w = Stopped(error_from_http3(q.code))
           \/ /\ q.kind = "stopped" /\ error_from_http3(q.code) = NoCode /\ w = Invalid(q.code)
           \/ w.kind \in {"session", "closed stream"}
<1>1. QuinnWriteError(e, q) = NoqWriteError(e, q) BY DEF NoqWriteError
<1>2. CASE q.kind = "stopped" BY <1>1, <1>2 DEF QuinnWriteError, IrohWriteError
<1>3. CASE q.kind = "lost"
  <2>1. /\ QuinnWriteError(e, q) = Session(conn[e])
        /\ IrohWriteError(e, q) = Session(IrohMapError(e)) BY <1>3 DEF QuinnWriteError, IrohWriteError
  <2> QED BY <1>1, <2>1, SessionKind
<1>4. CASE q.kind \notin {"stopped", "lost"}
  <2>1. QuinnWriteError(e, q) = ClosedStream /\ IrohWriteError(e, q) = ClosedStream
    BY <1>4 DEF QuinnWriteError, IrohWriteError
  <2> QED BY <1>1, <2>1, ErrorKinds, ZenonT(60)
<1> QED BY <1>2, <1>3, <1>4

\* The same for a read.
LEMMA ReadErrorForm ==
  ASSUME NEW e, NEW q
  PROVE  \A w \in {QuinnReadError(e, q), NoqReadError(e, q), IrohReadError(e, q)} :
           \/ /\ q.kind = "reset" /\ error_from_http3(q.code) # NoCode /\ w = Reset(error_from_http3(q.code))
           \/ /\ q.kind = "reset" /\ error_from_http3(q.code) = NoCode /\ w = Invalid(q.code)
           \/ w.kind \in {"session", "closed stream"}
<1>1. QuinnReadError(e, q) = NoqReadError(e, q) BY DEF NoqReadError
<1>2. CASE q.kind = "reset" BY <1>1, <1>2 DEF QuinnReadError, IrohReadError
<1>3. CASE q.kind = "lost"
  <2>1. /\ QuinnReadError(e, q) = Session(conn[e])
        /\ IrohReadError(e, q) = Session(IrohMapError(e)) BY <1>3 DEF QuinnReadError, IrohReadError
  <2> QED BY <1>1, <2>1, SessionKind
<1>4. CASE q.kind \notin {"reset", "lost"}
  <2>1. QuinnReadError(e, q) = ClosedStream /\ IrohReadError(e, q) = ClosedStream
    BY <1>4 DEF QuinnReadError, IrohReadError
  <2> QED BY <1>1, <2>1, ErrorKinds, ZenonT(60)
<1> QED BY <1>2, <1>3, <1>4

\* And for the one error of quiche.
LEMMA QuicheErrorForm ==
  ASSUME NEW e, NEW q
  PROVE  \/ /\ q.kind = "stopped" /\ error_from_http3(q.code) # NoCode
            /\ QuicheStreamError(e, q) = Stopped(error_from_http3(q.code))
         \/ /\ q.kind = "reset" /\ error_from_http3(q.code) # NoCode
            /\ QuicheStreamError(e, q) = Reset(error_from_http3(q.code))
         \/ /\ q.kind \in {"stopped", "reset"} /\ error_from_http3(q.code) = NoCode
            /\ QuicheStreamError(e, q) = Invalid(q.code)
         \/ QuicheStreamError(e, q).kind \in {"session", "closed stream"}
<1>1. CASE q.kind = "stopped" BY <1>1 DEF QuicheStreamError
<1>2. CASE q.kind = "reset" BY <1>2 DEF QuicheStreamError
<1>3. CASE q.kind = "lost" BY <1>3, SessionKind DEF QuicheStreamError
<1>4. CASE q.kind \notin {"stopped", "reset", "lost"} BY <1>4, ErrorKinds DEF QuicheStreamError
<1> QED BY <1>1, <1>2, <1>3, <1>4

\* The kinds apart: which error of QUIC is behind an error of a stream.
LEMMA ErrorKindsApart ==
  ASSUME NEW q, NEW w,
         \/ /\ q.kind = "stopped" /\ error_from_http3(q.code) # NoCode /\ w = Stopped(error_from_http3(q.code))
         \/ /\ q.kind = "reset" /\ error_from_http3(q.code) # NoCode /\ w = Reset(error_from_http3(q.code))
         \/ /\ q.kind \in {"stopped", "reset"} /\ error_from_http3(q.code) = NoCode /\ w = Invalid(q.code)
         \/ w.kind \in {"session", "closed stream"}
  PROVE  /\ w.kind = "stopped" =>
              /\ q.kind = "stopped" /\ error_from_http3(q.code) # NoCode /\ w.code = error_from_http3(q.code)
         /\ w.kind = "reset" =>
              /\ q.kind = "reset" /\ error_from_http3(q.code) # NoCode /\ w.code = error_from_http3(q.code)
         /\ w.kind = "invalid" =>
              q.kind \in {"stopped", "reset"} /\ error_from_http3(q.code) = NoCode BY ErrorKinds

\* What a write of the client can make of an error of QUIC.
LEMMA WriteToldForm ==
  ASSUME NEW q
  PROVE  /\ WriteTold(q).kind = "stopped" =>
              /\ q.kind = "stopped" /\ error_from_http3(q.code) # NoCode /\ WriteTold(q).code = error_from_http3(q.code)
         /\ WriteTold(q).kind = "invalid" =>
              /\ q.kind = "stopped" \/ (q.kind = "reset" /\ Crate(Client) = "quiche")
              /\ error_from_http3(q.code) = NoCode
<1>1. CASE Crate(Client) = "quiche"
  <2>1. WriteTold(q) = QuicheStreamError(Client, q) BY <1>1 DEF WriteTold
  <2>2. PICK w : w = QuicheStreamError(Client, q) OBVIOUS
  <2>3. \/ /\ q.kind = "stopped" /\ error_from_http3(q.code) # NoCode /\ w = Stopped(error_from_http3(q.code))
        \/ /\ q.kind = "reset" /\ error_from_http3(q.code) # NoCode /\ w = Reset(error_from_http3(q.code))
        \/ /\ q.kind \in {"stopped", "reset"} /\ error_from_http3(q.code) = NoCode /\ w = Invalid(q.code)
        \/ w.kind \in {"session", "closed stream"} BY <2>2, QuicheErrorForm
  <2>4. /\ w.kind = "stopped" =>
            /\ q.kind = "stopped" /\ error_from_http3(q.code) # NoCode /\ w.code = error_from_http3(q.code)
        /\ w.kind = "invalid" =>
            q.kind \in {"stopped", "reset"} /\ error_from_http3(q.code) = NoCode BY <2>3, ErrorKindsApart
  <2> QED BY <1>1, <2>1, <2>2, <2>4
<1>2. CASE Crate(Client) # "quiche"
  <2>1. \E w \in {QuinnWriteError(Client, q), NoqWriteError(Client, q),
                  IrohWriteError(Client, q)} :
          WriteTold(q) = w \/ WriteTold(q).kind = "session"
    <3>1. CASE Crate(Client) = "noq"
      <4>1. WriteTold(q) = NoqSendMapError(Client, NoqWriteError(Client, q)) BY <3>1 DEF WriteTold
      <4> QED BY <4>1, SessionKind DEF NoqSendMapError
    <3>2. CASE Crate(Client) = "iroh" BY <3>2 DEF WriteTold
    <3>3. CASE Crate(Client) \notin {"noq", "iroh", "quiche"}
      <4>1. WriteTold(q) = QuinnSendMapError(Client, QuinnWriteError(Client, q)) BY <3>3 DEF WriteTold
      <4> QED BY <4>1, SessionKind DEF QuinnSendMapError
    <3> QED BY <1>2, <3>1, <3>2, <3>3
  <2>2. PICK w \in {QuinnWriteError(Client, q), NoqWriteError(Client, q),
                  IrohWriteError(Client, q)} :
          WriteTold(q) = w \/ WriteTold(q).kind = "session" BY <2>1
  <2>3. CASE WriteTold(q).kind = "session" BY <2>3
  <2>4. CASE WriteTold(q) = w
    <3>1. \/ /\ q.kind = "stopped" /\ error_from_http3(q.code) # NoCode /\ w = Stopped(error_from_http3(q.code))
          \/ /\ q.kind = "stopped" /\ error_from_http3(q.code) = NoCode /\ w = Invalid(q.code)
          \/ w.kind \in {"session", "closed stream"} BY <2>2, WriteErrorForm
    <3>2. /\ w.kind = "stopped" =>
              /\ q.kind = "stopped" /\ error_from_http3(q.code) # NoCode /\ w.code = error_from_http3(q.code)
          /\ w.kind = "invalid" =>
              q.kind = "stopped" /\ error_from_http3(q.code) = NoCode BY <3>1, ErrorKinds
    <3> QED BY <2>4, <3>2
  <2> QED BY <2>2, <2>3, <2>4
<1> QED BY <1>1, <1>2

\* What a read of the server can make of an error of QUIC.
LEMMA ReadToldForm ==
  ASSUME NEW q
  PROVE  /\ ReadTold(q).kind = "reset" =>
              /\ q.kind = "reset" /\ error_from_http3(q.code) # NoCode /\ ReadTold(q).code = error_from_http3(q.code)
         /\ ReadTold(q).kind = "invalid" =>
              /\ q.kind = "reset" \/ (q.kind = "stopped" /\ Crate(Server) = "quiche")
              /\ error_from_http3(q.code) = NoCode
<1>1. CASE Crate(Server) = "quiche"
  <2>1. ReadTold(q) = QuicheStreamError(Server, q) BY <1>1 DEF ReadTold
  <2>2. PICK w : w = QuicheStreamError(Server, q) OBVIOUS
  <2>3. \/ /\ q.kind = "stopped" /\ error_from_http3(q.code) # NoCode /\ w = Stopped(error_from_http3(q.code))
        \/ /\ q.kind = "reset" /\ error_from_http3(q.code) # NoCode /\ w = Reset(error_from_http3(q.code))
        \/ /\ q.kind \in {"stopped", "reset"} /\ error_from_http3(q.code) = NoCode /\ w = Invalid(q.code)
        \/ w.kind \in {"session", "closed stream"} BY <2>2, QuicheErrorForm
  <2>4. /\ w.kind = "reset" =>
            /\ q.kind = "reset" /\ error_from_http3(q.code) # NoCode /\ w.code = error_from_http3(q.code)
        /\ w.kind = "invalid" =>
            q.kind \in {"stopped", "reset"} /\ error_from_http3(q.code) = NoCode BY <2>3, ErrorKindsApart
  <2> QED BY <1>1, <2>1, <2>2, <2>4
<1>2. CASE Crate(Server) # "quiche"
  <2>1. \E w \in {QuinnReadError(Server, q), NoqReadError(Server, q),
                  IrohReadError(Server, q)} :
          ReadTold(q) = w \/ ReadTold(q).kind = "session"
    <3>1. CASE Crate(Server) = "noq"
      <4>1. ReadTold(q) = NoqRecvMapError(Server, NoqReadError(Server, q)) BY <3>1 DEF ReadTold
      <4> QED BY <4>1, SessionKind DEF NoqRecvMapError
    <3>2. CASE Crate(Server) = "iroh" BY <3>2 DEF ReadTold
    <3>3. CASE Crate(Server) \notin {"noq", "iroh", "quiche"}
      <4>1. ReadTold(q) = QuinnRecvMapError(Server, QuinnReadError(Server, q)) BY <3>3 DEF ReadTold
      <4> QED BY <4>1, SessionKind DEF QuinnRecvMapError
    <3> QED BY <1>2, <3>1, <3>2, <3>3
  <2>2. PICK w \in {QuinnReadError(Server, q), NoqReadError(Server, q),
                  IrohReadError(Server, q)} :
          ReadTold(q) = w \/ ReadTold(q).kind = "session" BY <2>1
  <2>3. CASE ReadTold(q).kind = "session" BY <2>3
  <2>4. CASE ReadTold(q) = w
    <3>1. \/ /\ q.kind = "reset" /\ error_from_http3(q.code) # NoCode /\ w = Reset(error_from_http3(q.code))
          \/ /\ q.kind = "reset" /\ error_from_http3(q.code) = NoCode /\ w = Invalid(q.code)
          \/ w.kind \in {"session", "closed stream"} BY <2>2, ReadErrorForm
    <3>2. /\ w.kind = "reset" =>
              /\ q.kind = "reset" /\ error_from_http3(q.code) # NoCode /\ w.code = error_from_http3(q.code)
          /\ w.kind = "invalid" =>
              q.kind = "reset" /\ error_from_http3(q.code) = NoCode BY <3>1, ErrorKinds
    <3> QED BY <2>4, <3>2
  <2> QED BY <2>2, <2>3, <2>4
<1> QED BY <1>1, <1>2

\* What the client makes of the code of a STOP_SENDING.
LEMMA StopDecodes ==
  ASSUME CodesInv, stopCode # NoCode
  PROVE  /\ error_from_http3(stopCode) # NoCode =>
              \/ error_from_http3(stopCode) = asked[Server]
              \/ /\ Crate(Server) = "quiche" /\ Server \in gone /\ error_from_http3(stopCode) = RECV_DROP
         /\ error_from_http3(stopCode) = NoCode =>
              Crate(Server) # "quiche" /\ Server \in gone /\ asked[Server] = NoCode
<1>1. StopByCall \/ StopByDrop \/ StopByLibrary BY DEF CodesInv
<1>2. CASE StopByCall
  <2>1. error_from_http3(stopCode) = asked[Server] /\ asked[Server] \in Codes BY <1>2, CodesRoundTrip DEF StopByCall
  <2>2. asked[Server] # NoCode BY <2>1, CodesAssumption DEF Codes, NoCode
  <2> QED BY <2>1, <2>2
<1>3. CASE StopByDrop
  <2>1. error_from_http3(stopCode) = RECV_DROP BY <1>3, CodesRoundTrip, StreamsAssumption DEF StopByDrop
  <2>2. RECV_DROP # NoCode BY StreamsAssumption, CodesAssumption DEF Codes, NoCode
  <2> QED BY <1>3, <2>1, <2>2 DEF StopByDrop
<1>4. CASE StopByLibrary BY <1>4, ZeroIsForeign DEF StopByLibrary
<1> QED BY <1>1, <1>2, <1>3, <1>4

\* What the server makes of the code of a RESET_STREAM, unless QUIC sent it for
\* a stop.
LEMMA ResetDecodes ==
  ASSUME CodesInv, ResetByCall \/ ResetByDrop
  PROVE  /\ error_from_http3(resetCode) # NoCode
         /\ \/ error_from_http3(resetCode) = asked[Client]
            \/ /\ Crate(Client) = "quiche" /\ Client \in gone /\ asked[Client] = NoCode
               /\ error_from_http3(resetCode) = SEND_DROP
<1>1. CASE ResetByCall
  <2>1. error_from_http3(resetCode) = asked[Client] /\ asked[Client] \in Codes BY <1>1, CodesRoundTrip DEF ResetByCall
  <2>2. asked[Client] # NoCode BY <2>1, CodesAssumption DEF Codes, NoCode
  <2> QED BY <2>1, <2>2
<1>2. CASE ResetByDrop
  <2>1. error_from_http3(resetCode) = SEND_DROP BY <1>2, CodesRoundTrip, StreamsAssumption DEF ResetByDrop
  <2>2. SEND_DROP # NoCode BY StreamsAssumption, CodesAssumption DEF Codes, NoCode
  <2> QED BY <1>2, <2>1, <2>2 DEF ResetByDrop
<1> QED BY <1>1, <1>2

\* An error of QUIC that a write meets is told rightly.
LEMMA WriteToldRight ==
  ASSUME CodesInv, NEW q,
         q.kind = "stopped" => q.code = stopCode /\ stopCode # NoCode,
         q.kind = "reset" => /\ q.code = resetCode /\ sendHalf = "reset" /\ Crate(Client) = "quiche"
  PROVE  ClientTold(WriteTold(q))
<1> DEFINE w == WriteTold(q)
<1>1. /\ w.kind = "stopped" =>
            /\ q.kind = "stopped" /\ error_from_http3(q.code) # NoCode /\ w.code = error_from_http3(q.code)
      /\ w.kind = "invalid" =>
            /\ q.kind = "stopped" \/ (q.kind = "reset" /\ Crate(Client) = "quiche")
            /\ error_from_http3(q.code) = NoCode BY WriteToldForm
<1>2. q.kind = "reset" => error_from_http3(q.code) # NoCode
  <2> HAVE q.kind = "reset"
  <2>1. ResetByCall \/ ResetByDrop BY DEF CodesInv, ResetByStop
  <2> QED BY <2>1, ResetDecodes
<1> HIDE DEF w
<1>3. ClientTold(w)
  <2>1. w.kind = "stopped" => /\ stopCode # NoCode /\ error_from_http3(stopCode) # NoCode
                              /\ w.code = error_from_http3(stopCode) BY <1>1
  <2>2. w.kind = "invalid" => stopCode # NoCode /\ error_from_http3(stopCode) = NoCode BY <1>1, <1>2
  <2> QED BY <2>1, <2>2, StopDecodes DEF ClientTold
<1> QED BY <1>3 DEF w

\* An error of QUIC that a read meets is told rightly.
LEMMA ReadToldRight ==
  ASSUME CodesInv, NEW q,
         q.kind = "stopped" => /\ q.code = stopCode /\ stopCode # NoCode /\ Crate(Server) = "quiche",
         q.kind = "reset" => /\ q.code = resetCode /\ resetSeen
                             /\ (Crate(Server) # "quiche" => stopCode = NoCode)
  PROVE  ServerTold(ReadTold(q))
<1> DEFINE w == ReadTold(q)
<1>1. /\ w.kind = "reset" =>
            /\ q.kind = "reset" /\ error_from_http3(q.code) # NoCode /\ w.code = error_from_http3(q.code)
      /\ w.kind = "invalid" =>
            /\ q.kind = "reset" \/ (q.kind = "stopped" /\ Crate(Server) = "quiche")
            /\ error_from_http3(q.code) = NoCode BY ReadToldForm
<1>2. q.kind = "stopped" => error_from_http3(q.code) # NoCode BY StopDecodes
<1>3. q.kind = "reset" => ResetByCall \/ ResetByDrop BY DEF CodesInv, ResetByStop
<1>4. q.kind = "reset" => sendHalf = "reset" BY DEF CodesInv
<1> HIDE DEF w
<1>5. ServerTold(w)
  <2>1. w.kind # "invalid" BY <1>1, <1>2, <1>3, ResetDecodes
  <2>2. w.kind = "reset" =>
          /\ sendHalf = "reset" /\ (ResetByCall \/ ResetByDrop)
          /\ w.code = error_from_http3(resetCode) BY <1>1, <1>3, <1>4
  <2> QED BY <2>1, <2>2, ResetDecodes DEF ServerTold
<1> QED BY <1>5 DEF w

\* No step changes the plan.
LEMMA PlanKept == ASSUME Next PROVE plan' = plan
<1>1. ASSUME NEW e, Network(e) \/ Handshake(e) PROVE plan' = plan
  BY <1>1 DEF Network, Handshake, FrameArrives, CloseArrives, SettingsArrive, IdleTimeout, ReadSettings, HandshakeFails
<1>2. ASSUME NEW e, Tasks(e) PROVE plan' = plan
  BY <1>2 DEF Tasks, SkipCapsule, QuinnRunRecv, QuinnRunRecvClose, IrohRunClosed, QuicheRunClosed, WriteCapsule,
    CloserEnds
<1>3. ASSUME NEW e, ForceClose(e) \/ Close(e) \/ Drop(e) \/ Report(e) PROVE plan' = plan
  BY <1>3 DEF ForceClose, Close, Drop, Report
<1>4. Connect => plan' = plan BY DEF Connect, SendConnect, AcceptConnect, Respond, Reject, ReadResponse
<1>5. NetworkDies \/ OpenStream \/ Streams => plan' = plan BY DEF NetworkDies, OpenStream, Streams, HeaderArrives
<1>6. ASSUME NEW c, Call(c) \/ Poll(c) \/ Cancel(c) PROVE plan' = plan
  <2>1. CASE Call(c) \/ Cancel(c) BY <2>1 DEF Call, Cancel
  <2>2. CASE Poll(c)
    <3>1. ASSUME NEW streams, NEW wakeAll, PollAccept(c, streams, wakeAll)
          PROVE  plan' = plan BY <3>1 DEF PollAccept
    <3> QED
      BY <2>2, <3>1 DEF Poll, QuinnAcceptUni, QuinnAcceptBi, NoqAcceptUni, NoqAcceptBi, IrohAcceptUni, IrohAcceptBi,
        QuicheAcceptUni, QuicheAcceptBi
  <2> QED BY <1>6, <2>1, <2>2
<1> QED BY <1>1, <1>2, <1>3, <1>4, <1>5, <1>6 DEF Next

\* The crates by name.
LEMMA CrateNamed ==
  ASSUME plan \in Plans, NEW e \in Ends
  PROVE  Crate(e) \in CrateNames BY PlansAssumption DEF Crate

\* A step that leaves the stream alone.
LEMMA CodesKept ==
  ASSUME CodesInv, plan' = plan, UNCHANGED stream
  PROVE  CodesInv'
  BY DEF CodesInv, ResetByCall, ResetByDrop, ResetByStop, StopByCall, StopByDrop, StopByLibrary, ClientTold, ServerTold,
    Crate, stream, sending, receiving, signals

\* A step that only moves bytes.
LEMMA CodesBytes ==
  ASSUME CodesInv, plan' = plan,
         UNCHANGED <<sendHalf, resetCode, stopCode, stopSent, signals, asked, gone, told>>
  PROVE  CodesInv'
  BY DEF CodesInv, ResetByCall, ResetByDrop, ResetByStop, StopByCall, StopByDrop, StopByLibrary, ClientTold, ServerTold,
    Crate, signals

\* A step that tells the client.
LEMMA CodesTellClient ==
  ASSUME CodesInv, plan' = plan, NEW w, ClientTold(w),
         told' = [told EXCEPT ![Client] = w],
         UNCHANGED <<sendHalf, resetCode, stopCode, stopSent, signals, asked, gone>>
  PROVE  CodesInv'
<1>1. told'[Client] = w /\ told'[Server] = told[Server] /\ DOMAIN told' = Ends BY DEF CodesInv, Ends, Client, Server
<1>2. ClientTold(told[Client])' /\ ServerTold(told[Server])'
  BY <1>1 DEF CodesInv, ClientTold, ServerTold, Crate, signals
<1> QED
  BY <1>1, <1>2 DEF CodesInv, ResetByCall, ResetByDrop, ResetByStop, StopByCall, StopByDrop, StopByLibrary, Crate,
    signals

\* A step that tells the server.
LEMMA CodesTellServer ==
  ASSUME CodesInv, plan' = plan, NEW w, ServerTold(w),
         told' = [told EXCEPT ![Server] = w],
         UNCHANGED <<sendHalf, resetCode, stopCode, stopSent, signals, asked, gone>>
  PROVE  CodesInv'
<1>1. told'[Server] = w /\ told'[Client] = told[Client] /\ DOMAIN told' = Ends BY DEF CodesInv, Ends, Client, Server
<1>2. ClientTold(told[Client])' /\ ServerTold(told[Server])'
  BY <1>1 DEF CodesInv, ClientTold, ServerTold, Crate, signals
<1> QED
  BY <1>1, <1>2 DEF CodesInv, ResetByCall, ResetByDrop, ResetByStop, StopByCall, StopByDrop, StopByLibrary, Crate,
    signals

\* The errors of QUIC that carry a code, at a write and at a read.
LEMMA WriteErrorCause ==
  ASSUME CodesInv
  PROVE  /\ WriteError.kind = "stopped" => WriteError.code = stopCode /\ stopCode # NoCode
         /\ WriteError.kind = "reset" => /\ WriteError.code = resetCode
                                         /\ sendHalf = "reset" /\ Crate(Client) = "quiche"
<1>1. stopSeen \in BOOLEAN /\ (stopSeen => stopCode # NoCode) BY DEF CodesInv
<1>2. \/ EzWriteError = Reset(resetCode) /\ sendHalf = "reset"
      \/ EzWriteError = Stopped(stopCode) /\ stopSeen
      \/ EzWriteError \in {ClosedStream, Lost, Ok} BY <1>1 DEF EzWriteError
<1>3. \/ QuicWriteError = Stopped(stopCode) /\ stopSeen
      \/ QuicWriteError \in {ClosedStream, Lost, Ok} BY <1>1 DEF QuicWriteError
<1>4. CASE Crate(Client) = "quiche" BY <1>1, <1>2, <1>4, ErrorKinds, ZenonT(60) DEF WriteError
<1>5. CASE Crate(Client) # "quiche" BY <1>1, <1>3, <1>5, ErrorKinds DEF WriteError
<1> QED BY <1>4, <1>5

\* The same at a read; a reset behind a stop is not read.
LEMMA ReadErrorCause ==
  ASSUME CodesInv
  PROVE  /\ ReadError.kind = "stopped" => /\ ReadError.code = stopCode /\ stopCode # NoCode /\ Crate(Server) = "quiche"
         /\ ReadError.kind = "reset" => /\ ReadError.code = resetCode /\ resetSeen
                                        /\ (Crate(Server) # "quiche" => stopCode = NoCode)
<1>1. resetSeen \in BOOLEAN BY DEF CodesInv
<1>2. \/ EzReadError = Reset(resetCode) /\ resetSeen
      \/ EzReadError = Stopped(stopCode) /\ stopCode # NoCode
      \/ EzReadError \in {Lost, Ok} BY <1>1 DEF EzReadError
<1>3. \/ QuicReadError = Reset(resetCode) /\ resetSeen /\ stopCode = NoCode
      \/ QuicReadError \in {ClosedStream, Lost, Ok} BY <1>1 DEF QuicReadError
<1>4. CASE Crate(Server) = "quiche" BY <1>2, <1>4, ErrorKinds, ZenonT(60) DEF ReadError
<1>5. CASE Crate(Server) # "quiche" BY <1>3, <1>5, ErrorKinds DEF ReadError
<1> QED BY <1>4, <1>5

\* finish() and closed() of the sending half tell rightly.
LEMMA ClosedToldRight ==
  ASSUME CodesInv
  PROVE  /\ ClientTold(QuinnClosed) /\ ClientTold(IrohClosed)
         /\ Crate(Client) = "quiche" => \A flushed : ClientTold(QuicheClosed(flushed))
         /\ Crate(Client) = "quiche" /\ stopSeen =>
              ClientTold(QuicheStreamError(Client, Stopped(stopCode)))
<1>1. stopSeen \in BOOLEAN /\ (stopSeen => stopCode # NoCode) BY DEF CodesInv
<1>2. ClientTold(Ok) /\ \A err : ClientTold(Session(err)) BY ErrorKinds, SessionKind DEF ClientTold
<1>3. stopSeen /\ error_from_http3(stopCode) # NoCode =>
        ClientTold(Stopped(error_from_http3(stopCode)))
  <2> HAVE stopSeen /\ error_from_http3(stopCode) # NoCode
  <2> DEFINE w == Stopped(error_from_http3(stopCode))
  <2>1. w.kind = "stopped" /\ w.code = error_from_http3(stopCode) BY ErrorKinds
  <2> HIDE DEF w
  <2>2. ClientTold(w) BY <1>1, <2>1, StopDecodes DEF ClientTold
  <2> QED BY <2>2 DEF w
<1>4. ClientTold(QuinnClosed) BY <1>1, <1>2, <1>3 DEF QuinnClosed
<1>5. ClientTold(IrohClosed) BY <1>1, <1>2, <1>3 DEF IrohClosed
<1>6. ASSUME Crate(Client) = "quiche", NEW q,
             \/ q = Reset(resetCode) /\ sendHalf = "reset"
             \/ q = Stopped(stopCode) /\ stopSeen
             \/ q = Lost
      PROVE  ClientTold(QuicheStreamError(Client, q))
  <2>1. WriteTold(q) = QuicheStreamError(Client, q) BY <1>6 DEF WriteTold
  <2>2. /\ q.kind = "stopped" => q.code = stopCode /\ stopCode # NoCode
        /\ q.kind = "reset" => /\ q.code = resetCode /\ sendHalf = "reset"
                               /\ Crate(Client) = "quiche" BY <1>1, <1>6, ErrorKinds
  <2>3. ClientTold(WriteTold(q)) BY <2>2, WriteToldRight
  <2> QED BY <2>1, <2>3
<1>7. ASSUME Crate(Client) = "quiche", NEW flushed PROVE ClientTold(QuicheClosed(flushed))
  <2> DEFINE w == QuicheClosed(flushed)
  <2>1. \/ w = QuicheStreamError(Client, Reset(resetCode)) /\ sendHalf = "reset"
        \/ w = QuicheStreamError(Client, Stopped(stopCode)) /\ stopSeen
        \/ w = QuicheStreamError(Client, Lost)
        \/ w = Ok BY <1>1 DEF QuicheClosed
  <2> HIDE DEF w
  <2>2. ClientTold(w) BY <1>2, <1>6, <1>7, <2>1
  <2> QED BY <2>2 DEF w
<1> QED BY <1>4, <1>5, <1>6, <1>7

\* closed() of the receiving half tells rightly.
LEMMA RecvClosedToldRight ==
  ASSUME CodesInv
  PROVE  /\ ServerTold(QuinnRecvClosed) /\ ServerTold(IrohRecvClosed)
         /\ Crate(Server) = "quiche" => ServerTold(QuicheRecvClosed)
<1>1. ServerTold(Ok) /\ \A err : ServerTold(Session(err)) BY ErrorKinds, SessionKind DEF ServerTold
<1>2. ServerTold(QuinnRecvClosed) /\ ServerTold(IrohRecvClosed) BY <1>1 DEF QuinnRecvClosed, IrohRecvClosed
<1>3. Crate(Server) = "quiche" => ServerTold(QuicheRecvClosed)
  <2> HAVE Crate(Server) = "quiche"
  <2>1. ReadError = EzReadError BY DEF ReadError
  <2>2. ReadTold(EzReadError) = QuicheStreamError(Server, EzReadError) BY DEF ReadTold
  <2>3. ServerTold(ReadTold(ReadError))
    <3>1. PICK q : q = ReadError OBVIOUS
    <3>2. ServerTold(ReadTold(q)) BY <3>1, ReadErrorCause, ReadToldRight
    <3> QED BY <3>1, <3>2
  <2>4. QuicheRecvClosed \in {Ok, QuicheStreamError(Server, EzReadError)} BY DEF QuicheRecvClosed
  <2> QED BY <1>1, <2>1, <2>2, <2>3, <2>4
<1> QED BY <1>2, <1>3

\* The step of every call on the stream.
LEMMA CodesStep ==
  ASSUME CodesInv, StreamNext
  PROVE  CodesInv'
<1>0. plan' = plan BY DEF StreamNext, session
<1>a. /\ Crate(Client) \in CrateNames /\ Crate(Server) \in CrateNames
      /\ Client \in Ends /\ Server \in Ends /\ Client # Server BY CrateNamed DEF CodesInv, Ends, Client, Server
<1>1. CASE WriteBuf BY <1>0, <1>1, CodesBytes DEF WriteBuf, receiving
<1>2. CASE AcceptBytes BY <1>0, <1>2, CodesBytes DEF AcceptBytes, receiving
<1>3. CASE WriteFails
  <2>1. PICK q : q = WriteError OBVIOUS
  <2>2. ClientTold(WriteTold(q)) BY <2>1, WriteErrorCause, WriteToldRight
  <2>3. PICK w : w = WriteTold(q) OBVIOUS
  <2>4. told' = [told EXCEPT ![Client] = w] BY <1>3, <2>1, <2>3 DEF WriteFails
  <2>5. UNCHANGED <<sendHalf, resetCode, stopCode, stopSent, signals, asked, gone>> BY <1>3 DEF WriteFails, receiving
  <2> QED BY <1>0, <2>2, <2>3, <2>4, <2>5, CodesTellClient
<1>4. CASE CancelWrite BY <1>0, <1>4, CodesBytes DEF CancelWrite, receiving
<1>5. CASE Finish
  <2>0. UNCHANGED <<resetCode, stopCode, stopSent, signals, asked, gone>> /\ sendHalf = "open"
    BY <1>5 DEF Finish, receiving
  <2>1. CASE UNCHANGED told
    <3>1. sendHalf' \in {"open", "fin"} BY <1>5, <2>0 DEF Finish, QuinnFinish, NoqFinish, IrohFinish, QuicheFinish
    <3>2. ClientTold(told[Client])' /\ ServerTold(told[Server])'
      BY <1>0, <2>0, <2>1, <3>1 DEF CodesInv, ClientTold, ServerTold, Crate, signals
    <3> QED
      BY <1>0, <2>0, <2>1, <3>1, <3>2 DEF CodesInv, ResetByCall, ResetByDrop, ResetByStop, StopByCall, StopByDrop,
        StopByLibrary, Crate, signals
  <2>2. CASE told' # told
    <3>1. /\ Crate(Client) = "quiche" /\ stopSeen /\ sendHalf' = sendHalf
          /\ told' = [told EXCEPT ![Client] = QuicheStreamError(Client, Stopped(stopCode))]
      BY <1>5, <2>2 DEF Finish, QuinnFinish, NoqFinish, IrohFinish, QuicheFinish
    <3>2. PICK w : w = QuicheStreamError(Client, Stopped(stopCode)) OBVIOUS
    <3>3. ClientTold(w) BY <3>1, <3>2, ClosedToldRight
    <3> QED BY <1>0, <2>0, <3>1, <3>2, <3>3, CodesTellClient
  <2> QED BY <2>1, <2>2
<1>6. CASE ResetCall
  <2>1. PICK code : code = plan.io.code[Client] OBVIOUS
  <2>2. code \in Codes BY <1>a, <2>1, CallsAssumption DEF CodesInv
  <2>3. /\ sendHalf # "reset" /\ sendHalf' = "reset" /\ Client \notin gone /\ asked' = [asked EXCEPT ![Client] = code]
        /\ UNCHANGED <<stopCode, stopSent, signals, gone, told>> BY <1>6, <2>1 DEF ResetCall, SendHeld, receiving
  <2>4. resetCode' = error_to_http3(code) BY <1>6, <2>1 DEF ResetCall, QuinnReset, NoqReset, IrohReset, QuicheReset
  <2>5. /\ asked'[Client] = code /\ asked'[Server] = asked[Server]
        /\ asked' \in [Ends -> Codes \cup {NoCode}] BY <1>a, <2>2, <2>3 DEF CodesInv
  <2>6. ResetByCall' BY <2>2, <2>4, <2>5 DEF ResetByCall
  <2>7. ClientTold(told[Client])' BY <1>0, <2>3, <2>5 DEF CodesInv, ClientTold, Crate
  <2>8. ServerTold(told[Server])' BY <1>0, <2>3 DEF CodesInv, ServerTold
  <2>9. ~resetSeen' BY <2>3 DEF CodesInv, signals
  <2> QED
    BY <1>0, <2>3, <2>5, <2>6, <2>7, <2>8, <2>9 DEF CodesInv, StopByCall, StopByDrop, StopByLibrary, Crate, signals
<1>7. CASE DropSend
  <2>1. /\ Client \notin gone /\ gone' = gone \union {Client}
        /\ UNCHANGED <<stopCode, stopSent, signals, asked, told>> BY <1>7 DEF DropSend, receiving
  <2>2. Server \in gone' <=> Server \in gone BY <1>a, <2>1
  <2>3. \/ UNCHANGED <<sendHalf, resetCode>>
        \/ sendHalf = "open" /\ sendHalf' = "fin" /\ resetCode' = resetCode
        \/ /\ sendHalf = "open" /\ sendHalf' = "reset" /\ Crate(Client) = "quiche"
           /\ resetCode' = error_to_http3(SEND_DROP)
        \/ /\ sendHalf = "open" /\ sendHalf' = "reset" /\ Crate(Client) # "quiche"
           /\ stopSeen /\ resetCode' = stopCode BY <1>7 DEF DropSend, QuicheDropSend, QuicDropSend
  <2>4. sendHalf = "open" => asked[Client] = NoCode /\ ~resetSeen BY DEF CodesInv
  <2>5. sendHalf = "reset" => sendHalf' = "reset" /\ resetCode' = resetCode BY <2>3
  <2>6. ResetByCall /\ sendHalf = "reset" => ResetByCall' BY <2>1, <2>5 DEF ResetByCall
  <2>7. ~ ResetByDrop /\ ~ ResetByStop BY <2>1 DEF ResetByDrop, ResetByStop
  <2>8. sendHalf' = "reset" => ResetByCall' \/ ResetByDrop' \/ ResetByStop'
    <3>1. CASE UNCHANGED <<sendHalf, resetCode>> BY <2>6, <2>7, <3>1 DEF CodesInv
    <3>2. CASE sendHalf = "open" /\ sendHalf' = "reset"
      BY <1>0, <2>1, <2>3, <2>4, <3>2 DEF ResetByDrop, ResetByStop, Crate, signals
    <3> QED BY <2>3, <3>1, <3>2
  <2>9. ClientTold(told[Client])' /\ ServerTold(told[Server])'
    BY <1>0, <2>1, <2>2, <2>5 DEF CodesInv, ClientTold, ServerTold, Crate
  <2>10. Crate(Server)' = "quiche" /\ resetSeen' => ResetByCall' \/ ResetByDrop'
    BY <1>0, <2>1, <2>6, <2>7 DEF CodesInv, Crate, signals
  <2>11. asked'[Client] # NoCode => sendHalf' = "reset" BY <2>1, <2>5 DEF CodesInv
  <2>12. resetSeen' => sendHalf' = "reset" BY <2>1, <2>5 DEF CodesInv, signals
  <2>13. stopCode' # NoCode => StopByCall' \/ StopByDrop' \/ StopByLibrary'
    BY <1>0, <2>1, <2>2 DEF CodesInv, StopByCall, StopByDrop, StopByLibrary, Crate
  <2> QED BY <1>0, <2>1, <2>8, <2>9, <2>10, <2>11, <2>12, <2>13 DEF CodesInv, signals
<1>8. CASE ClosedSend
  <2>1. \E w : ClientTold(w) /\ told' = [told EXCEPT ![Client] = w]
    <3>1. CASE Crate(Client) = "quiche" BY <1>8, <3>1, ClosedToldRight DEF ClosedSend
    <3>2. CASE Crate(Client) = "iroh" BY <1>8, <3>2, ClosedToldRight DEF ClosedSend
    <3>3. CASE Crate(Client) \notin {"iroh", "quiche"} BY <1>8, <3>3, ClosedToldRight DEF ClosedSend, NoqClosed
    <3> QED BY <3>1, <3>2, <3>3
  <2>2. PICK w : ClientTold(w) /\ told' = [told EXCEPT ![Client] = w] BY <2>1
  <2>3. UNCHANGED <<sendHalf, resetCode, stopCode, stopSent, signals, asked, gone>>
    BY <1>8 DEF ClosedSend, sending, receiving
  <2> QED BY <1>0, <2>2, <2>3, CodesTellClient
<1>9. CASE Read
  <2>1. UNCHANGED <<sendHalf, resetCode, stopCode, stopSent, signals, asked, gone>> BY <1>9 DEF Read, sending
  <2>2. CASE UNCHANGED told BY <1>0, <2>1, <2>2, CodesBytes
  <2>3. CASE told' = [told EXCEPT ![Server] = Fin]
    <3>1. ServerTold(Fin) BY ErrorKinds DEF ServerTold
    <3> QED BY <1>0, <2>1, <2>3, <3>1, CodesTellServer
  <2>4. CASE told' = [told EXCEPT ![Server] = ReadTold(ReadError)]
    <3>1. PICK q : q = ReadError OBVIOUS
    <3>2. PICK w : w = ReadTold(q) OBVIOUS
    <3>3. ServerTold(w) BY <3>1, <3>2, ReadErrorCause, ReadToldRight
    <3> QED BY <1>0, <2>1, <2>4, <3>1, <3>2, <3>3, CodesTellServer
  <2> QED BY <1>9, <2>2, <2>3, <2>4 DEF Read
<1>10. CASE StopCall
  <2>1. PICK code : code = plan.io.code[Server] OBVIOUS
  <2>2. code \in Codes BY <1>a, <2>1, CallsAssumption DEF CodesInv
  <2>3. /\ asked[Server] = NoCode /\ Server \notin gone /\ asked' = [asked EXCEPT ![Server] = code]
        /\ UNCHANGED <<sendHalf, resetCode, signals, gone, told>> BY <1>10, <2>1 DEF StopCall, RecvHeld, sending
  <2>4. stopCode = NoCode
    <3>1. asked[Server] \notin Codes BY <2>3, CodesAssumption DEF Codes, NoCode
    <3> QED BY <2>3, <3>1 DEF CodesInv, StopByCall, StopByDrop, StopByLibrary
  <2>5. stopCode' = error_to_http3(code) /\ stopSent' \in BOOLEAN
    BY <1>10, <2>1, <2>4 DEF StopCall, QuinnStop, NoqStop, IrohStop, QuicheStop, QuicStop, CodesInv
  <2>6. stopCode' # NoCode BY <2>2, <2>5, CodesRoundTrip
  <2>7. /\ asked'[Server] = code /\ asked'[Client] = asked[Client]
        /\ asked' \in [Ends -> Codes \cup {NoCode}] BY <1>a, <2>2, <2>3 DEF CodesInv
  <2>8. StopByCall' BY <2>2, <2>5, <2>7 DEF StopByCall
  <2>9. ~stopSeen /\ ~stopSeen' BY <2>3, <2>4 DEF CodesInv, signals
  <2>10. ClientTold(told[Client])' BY <2>3, <2>4 DEF CodesInv, ClientTold
  <2>11. ServerTold(told[Server])' BY <1>0, <2>3, <2>7 DEF CodesInv, ServerTold, Crate
  <2>12. /\ ResetByCall => ResetByCall'
         /\ ResetByDrop => ResetByDrop'
         /\ ~ ResetByStop BY <1>0, <2>3, <2>7, <2>9 DEF ResetByCall, ResetByDrop, ResetByStop, Crate
  <2> QED BY <1>0, <2>3, <2>5, <2>6, <2>7, <2>8, <2>9, <2>10, <2>11, <2>12 DEF CodesInv, Crate, signals
<1>11. CASE DriverStops
  <2>1. /\ stopSent' = TRUE /\ stopCode # NoCode
        /\ UNCHANGED <<sendHalf, resetCode, stopCode, signals, asked, gone, told>> BY <1>11 DEF DriverStops, sending
  <2> QED
    BY <1>0, <2>1 DEF CodesInv, ResetByCall, ResetByDrop, ResetByStop, StopByCall, StopByDrop, StopByLibrary,
      ClientTold, ServerTold, Crate, signals
<1>12. CASE DropRecv
  <2>1. /\ Server \notin gone /\ gone' = gone \union {Server}
        /\ UNCHANGED <<sendHalf, resetCode, signals, asked, told>> BY <1>12 DEF DropRecv, sending
  <2>2. /\ Client \in gone' <=> Client \in gone
        /\ Server \in gone' BY <1>a, <2>1
  <2>3. \/ UNCHANGED <<stopCode, stopSent>>
        \/ /\ Crate(Server) # "quiche" /\ stopCode = NoCode /\ stopCode' = 0 /\ stopSent' = TRUE
        \/ /\ Crate(Server) = "quiche" /\ ~stopSent
           /\ stopCode' = error_to_http3(RECV_DROP) /\ stopSent' = stopSent
    BY <1>12 DEF DropRecv, QuicheDropRecv, QuicDropRecv, QuicStop
  <2>4. ~ StopByDrop /\ ~ StopByLibrary BY <2>1 DEF StopByDrop, StopByLibrary
  <2>5. stopCode' # NoCode => StopByCall' \/ StopByDrop' \/ StopByLibrary'
    <3>1. CASE UNCHANGED <<stopCode, stopSent>> BY <2>1, <2>4, <3>1 DEF CodesInv, StopByCall
    <3>2. CASE Crate(Server) # "quiche" /\ stopCode = NoCode /\ stopCode' = 0
      BY <1>0, <2>1, <2>2, <3>2 DEF CodesInv, StopByLibrary, Crate
    <3>3. CASE Crate(Server) = "quiche" /\ stopCode' = error_to_http3(RECV_DROP)
      BY <1>0, <2>2, <3>3 DEF StopByDrop, Crate
    <3> QED BY <2>3, <3>1, <3>2, <3>3
  <2>6. stopCode # NoCode => stopCode' # NoCode BY <2>3, CodesRoundTrip, StreamsAssumption
  <2>7. stopSent => UNCHANGED <<stopCode, stopSent>> BY <2>3 DEF CodesInv
  <2>8. ClientTold(told[Client])' BY <1>0, <2>1, <2>2, <2>6 DEF CodesInv, ClientTold, Crate
  <2>9. ServerTold(told[Server])' BY <1>0, <2>1, <2>2 DEF CodesInv, ServerTold, Crate
  <2>10. /\ ResetByCall => ResetByCall'
         /\ ResetByDrop => ResetByDrop'
         /\ ResetByStop => ResetByStop'
    BY <1>0, <2>1, <2>2, <2>7 DEF CodesInv, ResetByCall, ResetByDrop, ResetByStop, Crate, signals
  <2>11. stopSent' \in BOOLEAN /\ (stopSent' => stopCode' # NoCode)
    <3>1. 0 # NoCode BY DEF NoCode
    <3>2. stopSent' \in BOOLEAN BY <2>3 DEF CodesInv
    <3>3. stopSent' => stopCode' # NoCode BY <2>3, <2>6, <3>1 DEF CodesInv
    <3> QED BY <3>2, <3>3
  <2>12. stopSeen' => stopSent' BY <2>1, <2>7 DEF CodesInv, signals
  <2> QED BY <1>0, <2>1, <2>5, <2>6, <2>8, <2>9, <2>10, <2>11, <2>12 DEF CodesInv, Crate, signals
<1>13. CASE ClosedRecv
  <2>1. \E w : ServerTold(w) /\ told' = [told EXCEPT ![Server] = w]
    <3>1. CASE Crate(Server) = "quiche" BY <1>13, <3>1, RecvClosedToldRight DEF ClosedRecv
    <3>2. CASE Crate(Server) = "iroh" BY <1>13, <3>2, RecvClosedToldRight DEF ClosedRecv
    <3>3. CASE Crate(Server) \notin {"iroh", "quiche"} BY <1>13, <3>3, RecvClosedToldRight DEF ClosedRecv, NoqRecvClosed
    <3> QED BY <3>1, <3>2, <3>3
  <2>2. PICK w : ServerTold(w) /\ told' = [told EXCEPT ![Server] = w] BY <2>1
  <2>3. UNCHANGED <<sendHalf, resetCode, stopCode, stopSent, signals, asked, gone>>
    BY <1>13 DEF ClosedRecv, sending, receiving
  <2> QED BY <1>0, <2>2, <2>3, CodesTellServer
<1>14. CASE ResetArrives
  <2>1. /\ sendHalf = "reset" /\ resetSeen' = TRUE /\ stopSeen' = stopSeen
        /\ (Crate(Server) = "quiche" => stopCode = NoCode)
        /\ UNCHANGED <<sendHalf, resetCode, stopCode, stopSent, asked, gone, told>>
    BY <1>14 DEF ResetArrives, sending, receiving
  <2>2. Crate(Server) = "quiche" => ResetByCall \/ ResetByDrop BY <2>1 DEF CodesInv, ResetByStop
  <2> QED
    BY <1>0, <2>1, <2>2 DEF CodesInv, ResetByCall, ResetByDrop, ResetByStop, StopByCall, StopByDrop, StopByLibrary,
      ClientTold, ServerTold, Crate
<1>15. CASE StopArrives
  <2>1. /\ stopSent /\ stopSeen' = TRUE /\ resetSeen' = resetSeen
        /\ UNCHANGED <<sendHalf, resetCode, stopCode, stopSent, asked, gone, told>>
    BY <1>15 DEF StopArrives, sending, receiving
  <2>2. ~ stopSeen => ~ ResetByStop BY DEF ResetByStop
  <2> QED
    BY <1>0, <2>1, <2>2 DEF CodesInv, ResetByCall, ResetByDrop, ResetByStop, StopByCall, StopByDrop, StopByLibrary,
      ClientTold, ServerTold, Crate
<1> QED BY <1>1, <1>2, <1>3, <1>4, <1>5, <1>6, <1>7, <1>8, <1>9, <1>10, <1>11, <1>12,
     <1>13, <1>14, <1>15 DEF StreamNext

\* No step of an execution leaves it.
LEMMA CodesNext ==
  ASSUME CodesInv, [IoNext]_allVars
  PROVE  CodesInv'
<1>1. CASE Next /\ UNCHANGED <<stream, dgrams>> BY <1>1, PlanKept, CodesKept
<1>2. CASE StreamNext BY <1>2, CodesStep
<1>3. CASE DatagramNext BY <1>3, CodesKept DEF DatagramNext, session
<1>4. CASE UNCHANGED allVars BY <1>4, CodesKept DEF allVars, session
<1> QED BY <1>1, <1>2, <1>3, <1>4 DEF IoNext

\* reset(), stop() and the drops, of every pair of crates: a code an application
\* is told is the one the peer's application gave, or quiche's for a stream that
\* was dropped, and only a dropped stream ends with a foreign code.
THEOREM CodesCross == IoSpec => []StreamCodesExact
<1>1. IoInit => CodesInv
  <2> SUFFICES ASSUME IoInit PROVE CodesInv OBVIOUS
  <2>1. told = [e \in Ends |-> None] /\ Client \in Ends /\ Server \in Ends BY DEF IoInit, Ends
  <2>2. told[Client].kind = "none" /\ told[Server].kind = "none" /\ DOMAIN told = Ends BY <2>1, ErrorKinds
  <2>3. plan \in Plans BY DEF IoInit, Init
  <2>4. asked[Client] = NoCode /\ asked[Server] = NoCode /\ asked \in [Ends -> Codes \cup {NoCode}] BY <2>1 DEF IoInit
  <2> QED BY <2>2, <2>3, <2>4 DEF IoInit, CodesInv, ClientTold, ServerTold
<1>2. CodesInv /\ [IoNext]_allVars => CodesInv' BY CodesNext
<1>3. CodesInv => StreamCodesExact BY DEF CodesInv, StreamCodesExact, ClientTold, ServerTold
<1> QED BY <1>1, <1>2, <1>3, PTL DEF IoSpec

----------------------------------------------------------------------------
(* Datagrams                                                                *)

\* The inductive invariant of the datagrams: those of this session that are on
\* their way carry a payload that was sent.
DatagramsInv ==
  /\ plan \in Plans
  /\ \A d \in datagrams : d.id = Ours => d.len - HeaderLen \in sentData
  /\ DatagramsExact

\* The four crates put the same header in front, and leave as much room.
LEMMA DatagramForm ==
  /\ \A n : Datagram(n) = [id |-> Ours, len |-> HeaderLen + n]
  /\ MaxDatagram = IF Mtu > HeaderLen THEN Mtu - HeaderLen ELSE 0
<1>1. \A n : Datagram(n) = [id |-> Ours, len |-> HeaderLen + n]
  BY DEF Datagram, QuinnDatagram, NoqDatagram, IrohDatagram, QuicheDatagram
<1>2. MaxDatagram = IF Mtu > HeaderLen THEN Mtu - HeaderLen ELSE 0
  BY DEF MaxDatagram, QuinnMaxDatagram, NoqMaxDatagram, IrohMaxDatagram, QuicheMaxDatagram
<1> QED BY <1>1, <1>2

\* A step that leaves the datagrams alone.
LEMMA DatagramsKept ==
  ASSUME DatagramsInv, plan' = plan, UNCHANGED dgrams
  PROVE  DatagramsInv'
<1>1. MaxDatagram' = MaxDatagram
  BY DEF MaxDatagram, QuinnMaxDatagram, NoqMaxDatagram, IrohMaxDatagram, QuicheMaxDatagram, Crate
<1> QED BY <1>1 DEF DatagramsInv, DatagramsExact, dgrams

\* The four steps of a datagram.
LEMMA DatagramsStep ==
  ASSUME DatagramsInv, DatagramNext
  PROVE  DatagramsInv'
<1>0. plan' = plan BY DEF DatagramNext, session
<1>1. MaxDatagram' = MaxDatagram
  BY <1>0 DEF MaxDatagram, QuinnMaxDatagram, NoqMaxDatagram, IrohMaxDatagram, QuicheMaxDatagram, Crate
<1>2. ASSUME NEW n \in plan.io.sizes, SendDatagram(n)
      PROVE  DatagramsInv'
  <2>1. n \in Nat /\ HeaderLen \in Nat /\ Mtu \in Nat BY <1>2, CallsAssumption, StreamsAssumption DEF DatagramsInv
  <2>2. PICK d : d = Datagram(n) OBVIOUS
  <2>3. d.id = Ours /\ d.len = HeaderLen + n BY <2>2, DatagramForm
  <2>4. CASE d.len <= Mtu
    <3>1. /\ datagrams' = datagrams \union {d} /\ sentData' = sentData \union {n}
          /\ refused' = refused /\ gotData' = gotData BY <1>2, <2>2, <2>4 DEF SendDatagram
    <3>2. d.len - HeaderLen = n BY <2>1, <2>3
    <3> QED BY <1>0, <1>1, <3>1, <3>2 DEF DatagramsInv, DatagramsExact
  <2>5. CASE ~ (d.len <= Mtu)
    <3>1. /\ refused' = refused \union {n} /\ gotData' = gotData
          /\ datagrams' = datagrams /\ sentData' = sentData BY <1>2, <2>2, <2>5 DEF SendDatagram
    <3>2. n > MaxDatagram \/ Mtu < HeaderLen BY <2>1, <2>3, <2>5, DatagramForm
    <3> QED BY <1>0, <1>1, <3>1, <3>2 DEF DatagramsInv, DatagramsExact
  <2> QED BY <2>4, <2>5
<1>3. ASSUME NEW n, ForeignDatagram(n)
      PROVE  DatagramsInv'
  <2>1. PICK d : d = [id |-> Foreign, len |-> HeaderLen + n] OBVIOUS
  <2>2. d.id # Ours BY <2>1 DEF Foreign, Ours
  <2>3. datagrams' = datagrams \union {d} /\ UNCHANGED <<sentData, gotData, refused>> BY <1>3, <2>1 DEF ForeignDatagram
  <2> QED BY <1>0, <1>1, <2>2, <2>3 DEF DatagramsInv, DatagramsExact
<1>4. ASSUME NEW d \in datagrams, LoseDatagram(d)
      PROVE  DatagramsInv' BY <1>0, <1>1, <1>4 DEF LoseDatagram, DatagramsInv, DatagramsExact
<1>5. ASSUME NEW d \in datagrams, ReadDatagram(d)
      PROVE  DatagramsInv'
  <2>1. /\ datagrams' = datagrams \ {d}
        /\ gotData' = gotData \union (IF d.id = Ours THEN {d.len - HeaderLen} ELSE {})
        /\ UNCHANGED <<sentData, refused>>
    BY <1>5 DEF ReadDatagram, QuinnReadDatagram, NoqReadDatagram, IrohReadDatagram, QuicheReadDatagram
  <2> QED BY <1>0, <1>1, <2>1 DEF DatagramsInv, DatagramsExact
<1> QED BY <1>2, <1>3, <1>4, <1>5 DEF DatagramNext

\* send_datagram and read_datagram of every pair of crates: what comes out was
\* sent in this session, whole, and what max_datagram_size allows is not refused.
THEOREM DatagramsCross == IoSpec => []DatagramsExact
<1>1. IoInit => DatagramsInv BY DEF IoInit, Init, DatagramsInv, DatagramsExact
<1>2. DatagramsInv /\ [IoNext]_allVars => DatagramsInv'
  <2> SUFFICES ASSUME DatagramsInv, [IoNext]_allVars PROVE DatagramsInv' OBVIOUS
  <2>1. CASE Next /\ UNCHANGED <<stream, dgrams>> BY <2>1, PlanKept, DatagramsKept
  <2>2. CASE StreamNext BY <2>2, DatagramsKept DEF StreamNext, session
  <2>3. CASE DatagramNext BY <2>3, DatagramsStep
  <2>4. CASE UNCHANGED allVars BY <2>4, DatagramsKept DEF allVars, session
  <2> QED BY <2>1, <2>2, <2>3, <2>4 DEF IoNext
<1>3. DatagramsInv => DatagramsExact BY DEF DatagramsInv
<1> QED BY <1>1, <1>2, <1>3, PTL DEF IoSpec

----------------------------------------------------------------------------
(* Bytes                                                                    *)

\* The crates that take bytes out of the buffer only once QUIC has them, and
\* the others as long as no write is cancelled.
CleanWrites == Crate(Client) \in {"quinn", "quiche"} \/ ~gaveUp

BytesTyped ==
  /\ plan \in Plans /\ taken \in Nat /\ offered \in Seq(Nat) /\ accepted \in Seq(Nat) /\ got \in Seq(Nat)
  /\ sendHalf \in {"open", "fin", "reset"} /\ DOMAIN told = Ends /\ gaveUp \in BOOLEAN

\* The bytes accepted are those before the ones offered, and the buffer stands
\* in front of the ones offered or, with noq and iroh, behind them.
BytesInOrder ==
  /\ \A i \in 1 .. Len(accepted) : accepted[i] = i
  /\ \A i \in 1 .. Len(offered) : offered[i] = Len(accepted) + i
  /\ offered # <<>> =>
       \/ taken = Len(accepted)
       \/ Crate(Client) \notin {"quinn", "quiche"} /\ taken = Len(accepted) + Len(offered)
  /\ offered = <<>> /\ told[Client] = None => taken = Len(accepted)

\* What has been read comes first in what was accepted.
BytesRead ==
  /\ Len(got) <= Len(accepted)
  /\ \A i \in 1 .. Len(got) : got[i] = accepted[i]
  /\ told[Server] = Fin => sendHalf # "open" /\ got = accepted

\* The inductive invariant behind BytesExact.
BytesInv == BytesTyped /\ BytesRead /\ (CleanWrites => BytesInOrder)

\* It says what BytesExact says.
LEMMA BytesInvExact == BytesInv => BytesExact
<1> SUFFICES ASSUME BytesInv PROVE BytesExact OBVIOUS
<1> USE DEF BytesInv
<1>1. IsPrefix(got, accepted)
  <2>1. got \in Seq(Nat) /\ accepted \in Seq(Nat) /\ Len(got) \in Nat /\ Len(accepted) \in Nat
    BY LenProperties DEF BytesTyped
  <2> DEFINE a == SubSeq(got, 1, Len(got))
             b == SubSeq(accepted, 1, Len(got))
  <2>2. \A i \in 1 .. Len(got) : got[i] \in Nat /\ accepted[i] \in Nat BY <2>1, ElementOfSeq DEF BytesRead
  <2>3. /\ a \in Seq(Nat) /\ b \in Seq(Nat) /\ Len(a) = Len(b)
        /\ \A i \in 1 .. Len(got) : a[i] = got[i] /\ b[i] = accepted[i]
    <3>1. /\ a \in Seq(Nat) /\ Len(a) = IF 1 <= Len(got) THEN Len(got) - 1 + 1 ELSE 0
          /\ \A i \in 1 .. Len(got) - 1 + 1 : a[i] = got[1 + i - 1] BY <2>1, <2>2, SubSeqProperties
    <3>2. /\ b \in Seq(Nat) /\ Len(b) = IF 1 <= Len(got) THEN Len(got) - 1 + 1 ELSE 0
          /\ \A i \in 1 .. Len(got) - 1 + 1 : b[i] = accepted[1 + i - 1] BY <2>1, <2>2, SubSeqProperties
    <3> HIDE DEF a, b
    <3> QED BY <2>1, <3>1, <3>2
  <2>4. Len(a) = Len(got) BY <2>1, SubSeqFull
  <2> HIDE DEF a, b
  <2>5. a = b BY <2>3, <2>4, SeqEqual DEF BytesRead
  <2> QED BY <2>5 DEF IsPrefix, BytesRead, a, b
<1>2. told[Server] = Fin => got = accepted BY DEF BytesRead
<1>3. CleanWrites => accepted = [i \in 1 .. Len(accepted) |-> i]
  <2> HAVE CleanWrites
  <2>1. accepted \in [1 .. Len(accepted) -> Nat] BY LenProperties DEF BytesTyped
  <2> QED BY <2>1 DEF BytesInOrder
<1>4. CleanWrites => (offered = <<>> /\ told[Client] = None => taken = Len(accepted)) BY DEF BytesInOrder
<1> QED BY <1>1, <1>2, <1>3, <1>4 DEF BytesExact, CleanWrites

\* A step that leaves the stream alone, and one that tells the client or ends
\* the sending half.
LEMMA BytesKept ==
  ASSUME BytesInv, plan' = plan,
         UNCHANGED <<taken, offered, accepted, got, gaveUp>>,
         told'[Server] = told[Server] \/ told'[Server] # Fin,
         told'[Client] = told[Client] \/ told[Client] = None,
         sendHalf' \in {"open", "fin", "reset"}, sendHalf' = "open" => sendHalf = "open",
         DOMAIN told' = Ends
  PROVE  BytesInv'
<1>1. BytesTyped' BY DEF BytesInv, BytesTyped
<1>2. BytesRead' BY DEF BytesInv, BytesTyped, BytesRead
<1>3. CleanWrites' = CleanWrites BY DEF CleanWrites, Crate
<1>4. BytesInOrder => BytesInOrder' BY DEF BytesInOrder, Crate
<1> QED BY <1>1, <1>2, <1>3, <1>4 DEF BytesInv

\* The first n of a sequence and the rest.
LEMMA SplitAt ==
  ASSUME NEW s \in Seq(Nat), NEW n \in 1 .. Len(s)
  PROVE  /\ SubSeq(s, 1, n) \in Seq(Nat) /\ Len(SubSeq(s, 1, n)) = n
         /\ \A i \in 1 .. n : SubSeq(s, 1, n)[i] = s[i]
         /\ SubSeq(s, n + 1, Len(s)) \in Seq(Nat) /\ Len(SubSeq(s, n + 1, Len(s))) = Len(s) - n
         /\ \A i \in 1 .. Len(s) - n : SubSeq(s, n + 1, Len(s))[i] = s[n + i]
<1>1. Len(s) \in Nat /\ n \in Nat /\ 1 <= n /\ n <= Len(s) BY LenProperties
<1>2. \A i \in 1 .. Len(s) : s[i] \in Nat BY ElementOfSeq
<1>3. PICK m \in Nat : m = Len(s) BY <1>1
<1>4. PICK a : a = SubSeq(s, 1, n) OBVIOUS
<1>5. PICK b : b = SubSeq(s, n + 1, m) OBVIOUS
<1>6. a \in Seq(Nat) /\ Len(a) = n /\ \A i \in 1 .. n : a[i] = s[i]
  <2>1. \A i \in 1 .. n : s[i] \in Nat BY <1>1, <1>2
  <2>2. /\ a \in Seq(Nat) /\ Len(a) = IF 1 <= n THEN n - 1 + 1 ELSE 0
        /\ \A i \in 1 .. n - 1 + 1 : a[i] = s[1 + i - 1] BY <1>1, <1>4, <2>1, SubSeqProperties
  <2>3. n - 1 + 1 = n BY <1>1
  <2>4. \A i \in 1 .. n : 1 + i - 1 = i OBVIOUS
  <2> QED BY <1>1, <2>2, <2>3, <2>4
<1>7. b \in Seq(Nat) /\ Len(b) = m - n /\ \A i \in 1 .. m - n : b[i] = s[n + i]
  <2>1. \A i \in n + 1 .. m : s[i] \in Nat BY <1>1, <1>2, <1>3
  <2>2. /\ b \in Seq(Nat)
        /\ Len(b) = IF n + 1 <= m THEN m - (n + 1) + 1 ELSE 0
        /\ \A i \in 1 .. m - (n + 1) + 1 : b[i] = s[n + 1 + i - 1] BY <1>1, <1>3, <1>5, <2>1, SubSeqProperties
  <2>3. m - (n + 1) + 1 = m - n BY <1>1, <1>3
  <2>4. \A i \in 1 .. m - n : n + 1 + i - 1 = n + i BY <1>1, <1>3
  <2>5. Len(b) = m - n BY <1>1, <1>3, <2>2
  <2> QED BY <2>2, <2>3, <2>4, <2>5
<1> QED BY <1>3, <1>4, <1>5, <1>6, <1>7

\* A sequence put behind another.
LEMMA PutBehind ==
  ASSUME NEW s \in Seq(Nat), NEW t \in Seq(Nat)
  PROVE  /\ s \o t \in Seq(Nat) /\ Len(s \o t) = Len(s) + Len(t)
         /\ \A i \in 1 .. Len(s) : (s \o t)[i] = s[i]
         /\ \A i \in 1 .. Len(t) : (s \o t)[Len(s) + i] = t[i]
<1>1. PICK m \in Nat : m = Len(s) BY LenProperties
<1>2. PICK n \in Nat : n = Len(t) BY LenProperties
<1>3. PICK u : u = s \o t OBVIOUS
<1>4. /\ u \in Seq(Nat) /\ Len(u) = m + n
      /\ \A i \in 1 .. m + n : u[i] = IF i <= m THEN s[i] ELSE t[i - m] BY <1>1, <1>2, <1>3, ConcatProperties
<1>5. ASSUME NEW i \in 1 .. m PROVE u[i] = s[i] BY <1>4
<1>6. ASSUME NEW i \in 1 .. n PROVE u[m + i] = t[i]
  <2>1. m + i \in 1 .. m + n /\ ~ (m + i <= m) /\ (m + i) - m = i OBVIOUS
  <2> QED BY <1>4, <2>1
<1> QED BY <1>1, <1>2, <1>3, <1>4, <1>5, <1>6

\* An error of a stream is neither nothing nor the end of the bytes.
LEMMA ToldIsError ==
  ASSUME NEW q
  PROVE  /\ WriteTold(q).kind \notin {"none", "fin"} /\ ReadTold(q).kind \notin {"none", "fin"}
         /\ \A e \in Ends : QuicheStreamError(e, q).kind \notin {"none", "fin"}
<1>1. ASSUME NEW e \in Ends
      PROVE  /\ QuicheStreamError(e, q).kind \notin {"none", "fin"} /\ QuinnWriteError(e, q).kind \notin {"none", "fin"}
             /\ IrohWriteError(e, q).kind \notin {"none", "fin"} /\ QuinnReadError(e, q).kind \notin {"none", "fin"}
             /\ IrohReadError(e, q).kind \notin {"none", "fin"}
  <2>1. QuicheStreamError(e, q).kind \notin {"none", "fin"} BY QuicheErrorForm, ErrorKinds
  <2>2. \A w \in {QuinnWriteError(e, q), NoqWriteError(e, q), IrohWriteError(e, q)} :
          w.kind \notin {"none", "fin"}
    <3> TAKE w \in {QuinnWriteError(e, q), NoqWriteError(e, q), IrohWriteError(e, q)}
    <3>1. \/ \E c : w = Stopped(c) \/ w = Invalid(c)
          \/ w.kind \in {"session", "closed stream"} BY WriteErrorForm
    <3> QED BY <3>1, ErrorKinds
  <2>3. \A w \in {QuinnReadError(e, q), NoqReadError(e, q), IrohReadError(e, q)} :
          w.kind \notin {"none", "fin"}
    <3> TAKE w \in {QuinnReadError(e, q), NoqReadError(e, q), IrohReadError(e, q)}
    <3>1. \/ \E c : w = Reset(c) \/ w = Invalid(c)
          \/ w.kind \in {"session", "closed stream"} BY ReadErrorForm
    <3> QED BY <3>1, ErrorKinds
  <2> QED BY <2>1, <2>2, <2>3
<1>2. Client \in Ends /\ Server \in Ends BY DEF Ends
<1>3. WriteTold(q).kind \notin {"none", "fin"}
  <2>1. WriteTold(q) \in {NoqSendMapError(Client, NoqWriteError(Client, q)),
           IrohWriteError(Client, q), QuicheStreamError(Client, q),
           QuinnSendMapError(Client, QuinnWriteError(Client, q))} BY DEF WriteTold
  <2>2. /\ NoqSendMapError(Client, NoqWriteError(Client, q)).kind \notin {"none", "fin"}
        /\ QuinnSendMapError(Client, QuinnWriteError(Client, q)).kind \notin {"none", "fin"}
    BY <1>1, <1>2, SessionKind DEF NoqSendMapError, QuinnSendMapError, NoqWriteError
  <2> QED BY <1>1, <1>2, <2>1, <2>2
<1>4. ReadTold(q).kind \notin {"none", "fin"}
  <2>1. ReadTold(q) \in {NoqRecvMapError(Server, NoqReadError(Server, q)),
           IrohReadError(Server, q), QuicheStreamError(Server, q),
           QuinnRecvMapError(Server, QuinnReadError(Server, q))} BY DEF ReadTold
  <2>2. /\ NoqRecvMapError(Server, NoqReadError(Server, q)).kind \notin {"none", "fin"}
        /\ QuinnRecvMapError(Server, QuinnReadError(Server, q)).kind \notin {"none", "fin"}
    BY <1>1, <1>2, SessionKind DEF NoqRecvMapError, QuinnRecvMapError, NoqReadError
  <2> QED BY <1>1, <1>2, <2>1, <2>2
<1> QED BY <1>1, <1>3, <1>4

\* Only an open half takes bytes.
LEMMA AcceptsWhileOpen ==
  ASSUME BytesInv, WriteError = Ok
  PROVE  sendHalf = "open"
<1>1. Ok.kind = "ok" /\ Lost.kind # "ok" /\ ClosedStream.kind # "ok"
      /\ Stopped(stopCode).kind # "ok" /\ Reset(resetCode).kind # "ok" BY ErrorKinds
<1>2. Ok \notin {Lost, ClosedStream, Stopped(stopCode), Reset(resetCode)} BY <1>1
<1>3. sendHalf \in {"open", "fin", "reset"} BY DEF BytesInv, BytesTyped
<1>4. sendHalf # "open" => EzWriteError \in {Reset(resetCode), Stopped(stopCode), ClosedStream} BY <1>3 DEF EzWriteError
<1>5. sendHalf # "open" => QuicWriteError \in {Lost, ClosedStream} BY <1>3 DEF QuicWriteError
<1> QED BY <1>2, <1>4, <1>5 DEF WriteError

\* write_buf: the next bytes of the buffer are offered.
LEMMA BytesWriteBuf ==
  ASSUME BytesInv, plan' = plan, WriteBuf
  PROVE  BytesInv'
<1>1. /\ plan.io.bytes \in Nat /\ plan.io.chunk \in Nat \ {0} /\ taken \in Nat
      /\ taken < plan.io.bytes BY CallsAssumption DEF BytesInv, BytesTyped, WriteBuf
<1>2. PICK size : size = Smaller(plan.io.chunk, plan.io.bytes - taken) OBVIOUS
<1>3. size \in Nat \ {0} BY <1>1, <1>2 DEF Smaller
<1>4. offered' = [i \in 1 .. size |-> taken + i]
  BY <1>2 DEF WriteBuf, QuinnWriteBuf, NoqWriteBuf, IrohWriteBuf, QuicheWriteBuf, BeginWrite
<1>5. \/ taken' = taken
      \/ Crate(Client) \notin {"quinn", "quiche"} /\ taken' = taken + size
  BY <1>2 DEF WriteBuf, QuinnWriteBuf, NoqWriteBuf, IrohWriteBuf, QuicheWriteBuf, BeginWrite
<1>6. offered' \in Seq(Nat) /\ Len(offered') = size BY <1>1, <1>3, <1>4
<1>7. \A i \in 1 .. size : offered'[i] = taken + i BY <1>4
<1>8. /\ UNCHANGED <<accepted, sendHalf, got, gaveUp, told>>
      /\ offered = <<>> /\ told[Client] = None BY DEF WriteBuf, SendHeld, receiving
<1>9. BytesTyped' BY <1>1, <1>3, <1>5, <1>6, <1>8 DEF BytesInv, BytesTyped
<1>10. BytesRead' BY <1>8 DEF BytesInv, BytesRead
<1>11. CleanWrites' = CleanWrites BY <1>8 DEF CleanWrites, Crate
<1>12. CleanWrites => BytesInOrder'
  <2> HAVE CleanWrites
  <2>1. taken = Len(accepted) /\ \A i \in 1 .. Len(accepted) : accepted[i] = i BY <1>8 DEF BytesInv, BytesInOrder
  <2>2. offered' # <<>> BY <1>3, <1>6, EmptySeq
  <2>3. Crate(Client)' = Crate(Client) BY DEF Crate
  <2> QED BY <1>5, <1>6, <1>7, <1>8, <2>1, <2>2, <2>3 DEF BytesInOrder
<1> QED BY <1>9, <1>10, <1>11, <1>12 DEF BytesInv

\* QUIC takes the first of the bytes offered.
LEMMA BytesAccept ==
  ASSUME BytesInv, plan' = plan, AcceptBytes
  PROVE  BytesInv'
<1>1. /\ taken \in Nat /\ offered \in Seq(Nat) /\ accepted \in Seq(Nat) /\ got \in Seq(Nat)
      /\ Len(offered) \in Nat \ {0} /\ Len(accepted) \in Nat /\ Len(got) \in Nat
  BY EmptySeq, LenProperties DEF BytesInv, BytesTyped, AcceptBytes
<1>m. PICK m \in Nat : m = Len(accepted) BY <1>1
<1>k. PICK k \in Nat \ {0} : k = Len(offered) BY <1>1
<1>2. PICK n : n = Smaller(Room, Len(offered)) OBVIOUS
<1>3. n \in 1 .. k BY <1>1, <1>2, <1>k, StreamsAssumption DEF Smaller, Room, AcceptBytes
<1>4. PICK a : a = SubSeq(offered, 1, n) OBVIOUS
<1>5. PICK b : b = SubSeq(offered, n + 1, Len(offered)) OBVIOUS
<1>6. /\ a \in Seq(Nat) /\ Len(a) = n /\ \A i \in 1 .. n : a[i] = offered[i]
      /\ b \in Seq(Nat) /\ Len(b) = k - n /\ \A i \in 1 .. k - n : b[i] = offered[n + i]
  BY <1>1, <1>3, <1>4, <1>5, <1>k, SplitAt
<1>7. /\ accepted' = accepted \o a /\ UNCHANGED <<sendHalf, gaveUp, got, told>>
      /\ offered[k] <= taken => offered' = b /\ taken' = taken
      /\ ~ (offered[k] <= taken) => offered' = <<>> /\ taken' = taken + n
  BY <1>2, <1>4, <1>5, <1>k DEF AcceptBytes, receiving
<1>8. sendHalf = "open" BY AcceptsWhileOpen DEF AcceptBytes
<1>9. /\ accepted' \in Seq(Nat) /\ Len(accepted') = m + n
      /\ \A i \in 1 .. m : accepted'[i] = accepted[i]
      /\ \A i \in 1 .. n : accepted'[m + i] = offered[i]
  <2>1. PICK u : u = accepted \o a OBVIOUS
  <2>2. /\ u \in Seq(Nat) /\ Len(u) = m + n
        /\ \A i \in 1 .. m : u[i] = accepted[i]
        /\ \A i \in 1 .. n : u[m + i] = a[i] BY <1>1, <1>6, <1>m, <2>1, PutBehind, ZenonT(60)
  <2> QED BY <1>6, <1>7, <2>1, <2>2
<1>10. BytesTyped'
  <2>1. offered' \in Seq(Nat) BY <1>6, <1>7, EmptySeq
  <2>2. taken' \in Nat BY <1>1, <1>3, <1>7
  <2> QED BY <1>7, <1>9, <2>1, <2>2 DEF BytesInv, BytesTyped
<1>11. BytesRead'
  <2>1. Len(got) <= m /\ \A i \in 1 .. Len(got) : got[i] = accepted[i] BY <1>m DEF BytesInv, BytesRead
  <2>2. told[Server] # Fin BY <1>8 DEF BytesInv, BytesRead
  <2>3. Len(got) <= m + n BY <1>1, <1>3, <2>1
  <2>4. \A i \in 1 .. Len(got) : got[i] = accepted'[i] BY <1>1, <1>9, <2>1
  <2> QED BY <1>7, <1>9, <2>2, <2>3, <2>4 DEF BytesRead
<1>12. CleanWrites' = CleanWrites BY <1>7 DEF CleanWrites, Crate
<1>13. CleanWrites => BytesInOrder'
  <2> HAVE CleanWrites
  <2>0. /\ \A i \in 1 .. m : accepted[i] = i
        /\ \A i \in 1 .. k : offered[i] = m + i
        /\ \/ taken = m
           \/ Crate(Client) \notin {"quinn", "quiche"} /\ taken = m + k
    BY <1>m, <1>k DEF BytesInv, BytesInOrder, AcceptBytes
  <2>1. \A i \in 1 .. Len(accepted') : accepted'[i] = i
    <3> SUFFICES ASSUME NEW i \in 1 .. m + n PROVE accepted'[i] = i BY <1>9
    <3>1. CASE i <= m BY <1>9, <2>0, <3>1
    <3>2. CASE i > m
      <4>1. PICK j \in 1 .. n : i = m + j
        <5>1. i - m \in 1 .. n /\ i = m + (i - m) BY <1>3, <3>2
        <5> QED BY <5>1
      <4>2. accepted'[i] = offered[j] BY <1>9, <4>1
      <4>3. offered[j] = m + j BY <1>3, <2>0
      <4> QED BY <4>1, <4>2, <4>3
    <3> QED BY <1>3, <3>1, <3>2
  <2>2. offered[k] = m + k BY <2>0
  <2>3. CASE taken = m
    <3>1. offered' = <<>> /\ taken' = m + n BY <1>7, <2>2, <2>3
    <3>2. \A i \in 1 .. Len(<<>>) : FALSE BY EmptySeq
    <3> QED BY <1>9, <2>1, <3>1, <3>2 DEF BytesInOrder
  <2>4. CASE Crate(Client) \notin {"quinn", "quiche"} /\ taken = m + k
    <3>1. offered' = b /\ taken' = m + k BY <1>7, <2>2, <2>4
    <3>2. Len(offered') = k - n /\ taken' = Len(accepted') + Len(offered')
      <4>1. Len(offered') = k - n BY <1>6, <3>1
      <4>2. m + k = (m + n) + (k - n) BY <1>3
      <4> QED BY <1>9, <3>1, <4>1, <4>2
    <3>3. \A i \in 1 .. Len(offered') : offered'[i] = Len(accepted') + i
      <4> SUFFICES ASSUME NEW i \in 1 .. k - n PROVE b[i] = m + n + i BY <1>9, <3>1, <3>2
      <4>1. n + i \in 1 .. k /\ m + n + i = m + (n + i) BY <1>3
      <4> QED BY <1>6, <2>0, <4>1
    <3>4. offered' = <<>> => taken' = Len(accepted') BY <1>9, <3>2, EmptySeq, <1>3
    <3>5. Crate(Client)' = Crate(Client) BY DEF Crate
    <3> QED BY <2>1, <2>4, <3>2, <3>3, <3>4, <3>5 DEF BytesInOrder
  <2> QED BY <2>0, <2>3, <2>4
<1> QED BY <1>10, <1>11, <1>12, <1>13 DEF BytesInv

\* The other calls on the stream.
LEMMA BytesStep ==
  ASSUME BytesInv, StreamNext
  PROVE  BytesInv'
<1>0. plan' = plan BY DEF StreamNext, session
<1>a. /\ Client \in Ends /\ Server \in Ends /\ Client # Server
      /\ DOMAIN told = Ends /\ sendHalf \in {"open", "fin", "reset"} BY DEF BytesInv, BytesTyped, Ends, Client, Server
<1>b. \A w : /\ [told EXCEPT ![Client] = w][Client] = w
            /\ [told EXCEPT ![Client] = w][Server] = told[Server] /\ [told EXCEPT ![Server] = w][Server] = w
            /\ [told EXCEPT ![Server] = w][Client] = told[Client] /\ DOMAIN [told EXCEPT ![Client] = w] = Ends
            /\ DOMAIN [told EXCEPT ![Server] = w] = Ends BY <1>a
<1>1. CASE WriteBuf BY <1>0, <1>1, BytesWriteBuf
<1>2. CASE AcceptBytes BY <1>0, <1>2, BytesAccept
<1>3. CASE WriteFails
  <2>1. PICK q : q = WriteError OBVIOUS
  <2>2. PICK w : w = WriteTold(q) OBVIOUS
  <2>3. w # None BY <2>2, ToldIsError, ErrorKinds, ZenonT(60)
  <2>4. /\ offered' = <<>> /\ told' = [told EXCEPT ![Client] = w]
        /\ UNCHANGED <<taken, accepted, sendHalf, gaveUp, got>> BY <1>3, <2>1, <2>2 DEF WriteFails, receiving
  <2>5. told'[Client] # None /\ told'[Server] = told[Server] /\ DOMAIN told' = Ends BY <1>b, <2>3, <2>4
  <2>6. BytesTyped' BY <1>0, <2>4, <2>5, EmptySeq DEF BytesInv, BytesTyped
  <2>7. BytesRead' BY <2>4, <2>5 DEF BytesInv, BytesRead
  <2>8. CleanWrites' = CleanWrites BY <1>0, <2>4 DEF CleanWrites, Crate
  <2>9. BytesInOrder => BytesInOrder'
    <3>1. \A i \in 1 .. Len(<<>>) : FALSE BY EmptySeq
    <3> QED BY <2>4, <2>5, <3>1 DEF BytesInOrder
  <2> QED BY <2>6, <2>7, <2>8, <2>9 DEF BytesInv
<1>4. CASE CancelWrite
  <2>1. /\ offered # <<>> /\ offered' = <<>> /\ gaveUp' = TRUE
        /\ UNCHANGED <<taken, accepted, sendHalf, got, told>> BY <1>4 DEF CancelWrite, receiving
  <2>2. BytesTyped' BY <1>0, <2>1, EmptySeq DEF BytesInv, BytesTyped
  <2>3. BytesRead' BY <2>1 DEF BytesInv, BytesRead
  <2>4. CleanWrites' => CleanWrites /\ Crate(Client) \in {"quinn", "quiche"} BY <1>0, <2>1 DEF CleanWrites, Crate
  <2>5. BytesInOrder /\ Crate(Client) \in {"quinn", "quiche"} => BytesInOrder'
    <3>1. \A i \in 1 .. Len(<<>>) : FALSE BY EmptySeq
    <3> QED BY <2>1, <3>1 DEF BytesInOrder
  <2> QED BY <2>2, <2>3, <2>4, <2>5 DEF BytesInv
<1>5. CASE Finish
  <2>1. /\ UNCHANGED <<taken, offered, accepted, gaveUp, got>> /\ told[Client] = None
        /\ sendHalf = "open" BY <1>5 DEF Finish, SendHeld, receiving
  <2>2. /\ sendHalf' \in {"open", "fin"}
        /\ UNCHANGED told \/ \E w : told' = [told EXCEPT ![Client] = w]
    BY <1>5, <2>1 DEF Finish, QuinnFinish, NoqFinish, IrohFinish, QuicheFinish
  <2>3. told'[Server] = told[Server] /\ DOMAIN told' = Ends BY <1>a, <1>b, <2>2
  <2> QED BY <1>0, <2>1, <2>2, <2>3, BytesKept
<1>6. CASE ResetCall \/ DropSend
  <2>1. UNCHANGED <<taken, offered, accepted, gaveUp, got, told>> BY <1>6 DEF ResetCall, DropSend, receiving
  <2>2. sendHalf' \in {"open", "fin", "reset"} /\ (sendHalf' = "open" => sendHalf = "open")
    BY <1>6, <1>a DEF ResetCall, DropSend, QuicheDropSend, QuicDropSend
  <2> QED BY <1>0, <1>a, <2>1, <2>2, BytesKept
<1>7. CASE ClosedSend
  <2>1. /\ UNCHANGED <<taken, offered, accepted, gaveUp, got, sendHalf>>
        /\ told[Client] = None /\ \E w : told' = [told EXCEPT ![Client] = w]
    BY <1>7 DEF ClosedSend, SendHeld, sending, receiving
  <2>2. told'[Server] = told[Server] /\ DOMAIN told' = Ends BY <1>b, <2>1
  <2> QED BY <1>0, <1>a, <2>1, <2>2, BytesKept
<1>8. CASE Read
  <2>0. UNCHANGED <<taken, offered, accepted, gaveUp, sendHalf>> /\ told[Server] = None
    BY <1>8 DEF Read, RecvHeld, sending
  <2>1. CASE Len(got) < Len(accepted) /\ got' = Append(got, accepted[Len(got) + 1])
              /\ UNCHANGED told
    <3>1. /\ got \in Seq(Nat) /\ accepted \in Seq(Nat) /\ Len(got) \in Nat
          /\ Len(accepted) \in Nat BY LenProperties DEF BytesInv, BytesTyped
    <3>2. PICK x : x = accepted[Len(got) + 1] OBVIOUS
    <3>3. x \in Nat BY <2>1, <3>1, <3>2, ElementOfSeq
    <3>4. /\ got' \in Seq(Nat) /\ Len(got') = Len(got) + 1
          /\ \A i \in 1 .. Len(got) : got'[i] = got[i]
          /\ got'[Len(got) + 1] = x BY <2>1, <3>1, <3>2, <3>3, AppendProperties
    <3>5. BytesTyped' BY <1>0, <2>0, <2>1, <3>4 DEF BytesInv, BytesTyped
    <3>6. \A i \in 1 .. Len(got) + 1 : got'[i] = accepted[i]
      <4>1. \A i \in 1 .. Len(got) : got[i] = accepted[i] BY DEF BytesInv, BytesRead
      <4>2. \A i \in 1 .. Len(got) + 1 : i \in 1 .. Len(got) \/ i = Len(got) + 1 BY <3>1
      <4> QED BY <3>2, <3>4, <4>1, <4>2
    <3>7. told'[Server] # Fin BY <2>0, <2>1, ErrorKinds
    <3>8. BytesRead' BY <2>0, <2>1, <3>1, <3>4, <3>6, <3>7 DEF BytesRead
    <3>9. CleanWrites' = CleanWrites BY <1>0, <2>0 DEF CleanWrites, Crate
    <3>10. BytesInOrder => BytesInOrder' BY <1>0, <2>0, <2>1 DEF BytesInOrder, Crate
    <3> QED BY <3>5, <3>8, <3>9, <3>10 DEF BytesInv
  <2>2. CASE /\ sendHalf = "fin" /\ got = accepted /\ UNCHANGED got /\ told' = [told EXCEPT ![Server] = Fin]
    <3>1. told'[Client] = told[Client] /\ DOMAIN told' = Ends BY <1>b, <2>2
    <3>2. BytesTyped' BY <1>0, <2>0, <2>2, <3>1 DEF BytesInv, BytesTyped
    <3>3. BytesRead' BY <2>0, <2>2 DEF BytesInv, BytesRead
    <3>4. CleanWrites' = CleanWrites BY <1>0, <2>0 DEF CleanWrites, Crate
    <3>5. BytesInOrder => BytesInOrder' BY <1>0, <2>0, <3>1 DEF BytesInOrder, Crate
    <3> QED BY <3>2, <3>3, <3>4, <3>5 DEF BytesInv
  <2>3. CASE told' = [told EXCEPT ![Server] = ReadTold(ReadError)] /\ UNCHANGED got
    <3>1. PICK q : q = ReadError OBVIOUS
    <3>2. PICK w : w = ReadTold(q) OBVIOUS
    <3>3. w # Fin BY <3>2, ToldIsError, ErrorKinds, ZenonT(60)
    <3>4. told'[Server] = w /\ told'[Client] = told[Client] /\ DOMAIN told' = Ends BY <1>b, <2>3, <3>1, <3>2
    <3> QED BY <1>0, <1>a, <2>0, <2>3, <3>3, <3>4, BytesKept
  <2> QED BY <1>8, <2>1, <2>2, <2>3 DEF Read
<1>9. CASE StopCall \/ DriverStops \/ DropRecv
  <2>1. UNCHANGED <<taken, offered, accepted, gaveUp, got, sendHalf, told>>
    BY <1>9 DEF StopCall, DriverStops, DropRecv, sending
  <2> QED BY <1>0, <1>a, <2>1, BytesKept
<1>10. CASE ClosedRecv
  <2>1. UNCHANGED <<taken, offered, accepted, gaveUp, got, sendHalf>> BY <1>10 DEF ClosedRecv, sending, receiving
  <2>2. PICK w \in {NoqRecvClosed, IrohRecvClosed, QuicheRecvClosed, QuinnRecvClosed} :
          told' = [told EXCEPT ![Server] = w] BY <1>10 DEF ClosedRecv
  <2>3. w # Fin
    <3>1. QuinnRecvClosed # Fin /\ IrohRecvClosed # Fin BY ErrorKinds, SessionKind DEF QuinnRecvClosed, IrohRecvClosed
    <3>2. QuicheRecvClosed # Fin
      <4>1. PICK q : q = EzReadError OBVIOUS
      <4>2. QuicheRecvClosed \in {Ok, QuicheStreamError(Server, q)} BY <4>1 DEF QuicheRecvClosed
      <4> QED
        <5>1. QuicheStreamError(Server, q).kind # "fin" BY <1>a, ToldIsError
        <5> QED BY <4>2, <5>1, ErrorKinds
    <3> QED BY <3>1, <3>2 DEF NoqRecvClosed
  <2>4. told'[Server] = w /\ told'[Client] = told[Client] /\ DOMAIN told' = Ends BY <1>b, <2>2
  <2> QED BY <1>0, <1>a, <2>1, <2>3, <2>4, BytesKept
<1>11. CASE ResetArrives \/ StopArrives
  <2>1. UNCHANGED <<taken, offered, accepted, gaveUp, got, sendHalf, told>>
    BY <1>11 DEF ResetArrives, StopArrives, sending, receiving
  <2> QED BY <1>0, <1>a, <2>1, BytesKept
<1> QED BY <1>1, <1>2, <1>3, <1>4, <1>5, <1>6, <1>7, <1>8, <1>9, <1>10, <1>11 DEF StreamNext

\* write_buf and read of every pair of crates: the bytes read are the caller's
\* from the first on, a FIN comes behind all of them, and, unless a write of noq
\* or iroh is cancelled, the buffer stands where QUIC stopped accepting.
THEOREM BytesCross == IoSpec => []BytesExact
<1>1. IoInit => BytesInv
  <2> SUFFICES ASSUME IoInit PROVE BytesInv OBVIOUS
  <2>1. <<>> \in Seq(Nat) /\ Len(<<>>) = 0 /\ \A i \in 1 .. Len(<<>>) : FALSE BY EmptySeq
  <2>2. DOMAIN told = Ends /\ told[Server] # Fin
    <3>1. told = [e \in Ends |-> None] /\ Server \in Ends BY DEF IoInit, Ends
    <3> QED BY <3>1, ErrorKinds
  <2>3. BytesTyped BY <2>1, <2>2 DEF BytesTyped, IoInit, Init
  <2>4. BytesRead BY <2>1, <2>2 DEF BytesRead, IoInit
  <2>5. BytesInOrder BY <2>1 DEF BytesInOrder, IoInit
  <2> QED BY <2>3, <2>4, <2>5 DEF BytesInv
<1>2. BytesInv /\ [IoNext]_allVars => BytesInv'
  <2> SUFFICES ASSUME BytesInv, [IoNext]_allVars PROVE BytesInv' OBVIOUS
  <2>1. CASE StreamNext BY <2>1, BytesStep
  <2>2. CASE plan' = plan /\ UNCHANGED stream
    <3>1. sendHalf \in {"open", "fin", "reset"} /\ DOMAIN told = Ends BY DEF BytesInv, BytesTyped
    <3> QED BY <2>2, <3>1, BytesKept DEF stream, sending, receiving
  <2> QED BY <2>1, <2>2, PlanKept DEF IoNext, DatagramNext, allVars, session
<1> QED BY <1>1, <1>2, BytesInvExact, PTL DEF IoSpec

----------------------------------------------------------------------------
(* The streams the server accepts                                           *)

\* The inductive invariant behind HandedOnce: the three places are disjoint, and
\* between them hold every stream of this session that was opened.
AcceptInv ==
  /\ plan \in Plans /\ opened \in Nat /\ arrived \in Seq(1 .. opened) /\ handed \in Seq(1 .. opened)
  /\ pending \subseteq 1 .. opened /\ Range(arrived) \cap pending = {} /\ Range(arrived) \cap Range(handed) = {}
  /\ pending \cap Range(handed) = {} /\ IsInjective(handed)
  /\ \A i \in DOMAIN handed : Kind(handed[i]) = "wt"
  /\ \A s \in 1 .. opened :
       Kind(s) = "wt" => s \in Range(arrived) \cup pending \cup Range(handed)

\* An element more: Append and the set of the elements.
LEMMA AppendRange ==
  ASSUME NEW S, NEW q \in Seq(S), NEW x \in S
  PROVE  /\ Append(q, x) \in Seq(S) /\ Range(Append(q, x)) = Range(q) \cup {x}
         /\ x \notin Range(q) /\ IsInjective(q) => IsInjective(Append(q, x))
<1>1. PICK n \in Nat : n = Len(q) BY LenProperties
<1>2. PICK t : t = Append(q, x) OBVIOUS
<1>3. /\ t \in Seq(S) /\ Len(t) = n + 1 /\ t[n + 1] = x
      /\ \A i \in 1 .. n : t[i] = q[i] BY <1>1, <1>2, AppendProperties
<1>4. DOMAIN q = 1 .. n /\ DOMAIN t = 1 .. n + 1 BY <1>1, <1>3, LenProperties
<1>5. \A i \in 1 .. n + 1 : i \in 1 .. n \/ i = n + 1 OBVIOUS
<1>6. Range(t) \subseteq Range(q) \cup {x} BY <1>3, <1>4, <1>5 DEF Range
<1>7. Range(q) \cup {x} \subseteq Range(t)
  <2>1. n + 1 \in 1 .. n + 1 /\ \A i \in 1 .. n : i \in 1 .. n + 1 OBVIOUS
  <2> QED BY <1>3, <1>4, <2>1 DEF Range
<1>8. x \notin Range(q) /\ IsInjective(q) => IsInjective(t)
  <2> SUFFICES ASSUME x \notin Range(q), IsInjective(q),
                      NEW a \in 1 .. n + 1, NEW b \in 1 .. n + 1, t[a] = t[b]
               PROVE  a = b BY <1>4 DEF IsInjective
  <2>1. CASE a \in 1 .. n /\ b \in 1 .. n BY <1>3, <1>4, <2>1 DEF IsInjective
  <2>2. \A i \in 1 .. n : q[i] # x BY <1>4 DEF Range
  <2> QED BY <1>3, <1>5, <2>1, <2>2
<1>9. Range(t) = Range(q) \cup {x} BY <1>6, <1>7
<1> QED BY <1>2, <1>3, <1>8, <1>9

\* It says what HandedOnce says.
LEMMA AcceptInvExact == AcceptInv => HandedOnce
<1> SUFFICES ASSUME AcceptInv PROVE HandedOnce OBVIOUS
<1>1. ASSUME NEW s \in 1 .. opened, Kind(s) = "wt"
      PROVE  Cardinality({k \in {"arrived", "pending", "handed"} :
                            s \in CASE k = "arrived" -> Range(arrived)
                                    [] k = "pending" -> pending
                                    [] k = "handed" -> Range(handed)}) = 1
  <2> DEFINE places == {k \in {"arrived", "pending", "handed"} :
                            s \in CASE k = "arrived" -> Range(arrived)
                                    [] k = "pending" -> pending
                                    [] k = "handed" -> Range(handed)}
  <2>0. /\ "arrived" \in places <=> s \in Range(arrived)
        /\ "pending" \in places <=> s \in pending
        /\ "handed" \in places <=> s \in Range(handed)
        /\ \A k \in places : k \in {"arrived", "pending", "handed"} OBVIOUS
  <2> HIDE DEF places
  <2>1. s \in Range(arrived) \cup pending \cup Range(handed) BY <1>1 DEF AcceptInv
  <2>2. CASE s \in Range(arrived)
    <3>1. s \notin pending /\ s \notin Range(handed) BY <2>2 DEF AcceptInv
    <3>2. places = {"arrived"} BY <2>0, <2>2, <3>1
    <3> QED BY <3>2, FS_Singleton DEF places
  <2>3. CASE s \in pending
    <3>1. s \notin Range(arrived) /\ s \notin Range(handed) BY <2>3 DEF AcceptInv
    <3>2. places = {"pending"} BY <2>0, <2>3, <3>1
    <3> QED BY <3>2, FS_Singleton DEF places
  <2>4. CASE s \in Range(handed)
    <3>1. s \notin Range(arrived) /\ s \notin pending BY <2>4 DEF AcceptInv
    <3>2. places = {"handed"} BY <2>0, <2>4, <3>1
    <3> QED BY <3>2, FS_Singleton DEF places
  <2> QED BY <2>1, <2>2, <2>3, <2>4
<1> QED BY <1>1 DEF HandedOnce, AcceptInv

\* A step that leaves the streams alone.
LEMMA AcceptKept ==
  ASSUME AcceptInv, UNCHANGED <<plan, opened, arrived, pending, handed>>
  PROVE  AcceptInv' BY DEF AcceptInv, Kind

\* The end of a connection wakes callers and moves no stream.
LEMMA AcceptQuicClose ==
  ASSUME NEW e, NEW why, QuicClose(e, why) \/ ConnEnds(e, why)
  PROVE  UNCHANGED <<opened, arrived, pending, handed>> BY DEF QuicClose, ConnEnds, accepting

\* One poll of accept.
LEMMA AcceptPoll ==
  ASSUME AcceptInv, NEW c, NEW streams, NEW wakeAll, PollAccept(c, streams, wakeAll),
         streams \subseteq Ready,
         \A s \in Ready : s \in streams <=> Kind(s) = "wt"
  PROVE  AcceptInv'
<1>1. /\ plan' = plan /\ opened' = opened /\ arrived' = <<>>
      /\ \A s : Kind(s)' = Kind(s) BY DEF PollAccept, Kind
<1>2. arrived' \in Seq(1 .. opened) /\ Range(arrived') = {}
  <2>1. <<>> \in Seq(1 .. opened) /\ DOMAIN <<>> = {} BY EmptySeq
  <2> QED BY <1>1, <2>1 DEF Range
<1>3. /\ Started \subseteq 1 .. opened /\ Started \cap Range(handed) = {} /\ Ready \subseteq Started
      /\ \A s \in 1 .. opened : Kind(s) = "wt" => s \in Started \cup Range(handed)
  <2>1. Range(arrived) \subseteq 1 .. opened BY LenProperties DEF AcceptInv, Range
  <2> QED BY <2>1 DEF AcceptInv, Started, Ready
<1>4. CASE handed' = handed /\ pending' = Started BY <1>1, <1>2, <1>3, <1>4 DEF AcceptInv
<1>5. CASE handed' = handed /\ pending' = Started \ Ready /\ streams = {} BY <1>1, <1>2, <1>3, <1>5 DEF AcceptInv
<1>6. ASSUME NEW s \in streams, handed' = Append(handed, s),
             pending' = (Started \ Ready) \union (streams \ {s})
      PROVE  AcceptInv'
  <2>1. s \in 1 .. opened /\ s \notin Range(handed) /\ Kind(s) = "wt" /\ s \in Ready BY <1>3, <1>6
  <2>2. /\ handed' \in Seq(1 .. opened) /\ Range(handed') = Range(handed) \cup {s}
        /\ IsInjective(handed') BY <1>6, <2>1, AppendRange DEF AcceptInv
  <2>3. (\A i \in DOMAIN handed : Kind(handed[i]) = "wt")'
    <3> SUFFICES ASSUME NEW i \in DOMAIN handed'
                 PROVE  plan.streams[handed'[i]] = "wt" BY <1>1 DEF Kind
    <3>1. handed'[i] \in Range(handed) \cup {s} BY <2>2 DEF Range
    <3>2. \A x \in Range(handed) : plan.streams[x] = "wt" BY DEF AcceptInv, Range, Kind
    <3> QED BY <2>1, <3>1, <3>2 DEF Kind
  <2>4. /\ pending' \subseteq 1 .. opened /\ pending' \cap Range(handed') = {} BY <1>3, <1>6, <2>1, <2>2
  <2>5. (\A x \in 1 .. opened :
           Kind(x) = "wt" => x \in Range(arrived) \cup pending \cup Range(handed))' BY <1>1, <1>3, <1>6, <2>2
  <2> QED BY <1>1, <1>2, <2>2, <2>3, <2>4, <2>5 DEF AcceptInv
<1> QED BY <1>4, <1>5, <1>6 DEF PollAccept

\* Every step of a session.
LEMMA AcceptStep ==
  ASSUME AcceptInv, Next
  PROVE  AcceptInv'
<1>0. plan' = plan BY PlanKept
<1>1. ASSUME NEW e, Network(e) \/ Handshake(e)
      PROVE  UNCHANGED <<opened, arrived, pending, handed>>
  BY <1>1, AcceptQuicClose DEF Network, Handshake, FrameArrives, CloseArrives, SettingsArrive, IdleTimeout,
    ReadSettings, HandshakeFails, ConnDropped, accepting
<1>2. ASSUME NEW e, Tasks(e)
      PROVE  UNCHANGED <<opened, arrived, pending, handed>>
  <2>1. CASE SkipCapsule(e) \/ QuinnRunRecv(e) \/ WriteCapsule(e) \/ CloserEnds(e)
    BY <2>1 DEF SkipCapsule, QuinnRunRecv, WriteCapsule, CloserEnds, accepting
  <2>2. CASE QuinnRunRecvClose(e) BY <2>2, AcceptQuicClose DEF QuinnRunRecvClose
  <2>3. CASE IrohRunClosed(e) BY <2>3, AcceptQuicClose DEF IrohRunClosed, IrohClose
  <2>4. CASE QuicheRunClosed(e)
    <3>1. UNCHANGED accepting \/ \E why : QuicClose(e, why) BY <2>4 DEF QuicheRunClosed, QuicheClose
    <3> QED BY <3>1, AcceptQuicClose DEF accepting
  <2> QED BY <1>2, <2>1, <2>2, <2>3, <2>4 DEF Tasks
<1>3. ASSUME NEW e, ForceClose(e) \/ Close(e) \/ Drop(e) \/ Report(e)
      PROVE  UNCHANGED <<opened, arrived, pending, handed>>
  BY <1>3, AcceptQuicClose DEF ForceClose, Close, Drop, Report, QuinnClose, NoqClose, CloseOnce, IrohClose, QuicheClose,
    accepting
<1>4. Connect => UNCHANGED <<opened, arrived, pending, handed>>
  BY AcceptQuicClose DEF Connect, SendConnect, AcceptConnect, Respond, Reject, ReadResponse, ConnDropped, accepting
<1>5. NetworkDies \/ Streams => UNCHANGED <<opened, arrived, pending, handed>>
  BY DEF NetworkDies, Streams, HeaderArrives, accepting
<1>6. CASE OpenStream
  <2>1. PICK n \in Nat : n = opened BY DEF AcceptInv
  <2>2. /\ opened' = n + 1 /\ arrived' = Append(arrived, n + 1)
        /\ UNCHANGED <<plan, pending, handed>> BY <1>6, <2>1 DEF OpenStream
  <2>3. 1 .. n \subseteq 1 .. n + 1 /\ n + 1 \in 1 .. n + 1 /\ n + 1 \notin 1 .. n OBVIOUS
  <2>4. arrived \in Seq(1 .. n + 1) /\ handed \in Seq(1 .. n + 1) BY <2>1, <2>3, SeqMonotonic DEF AcceptInv
  <2>5. arrived' \in Seq(1 .. n + 1) /\ Range(arrived') = Range(arrived) \cup {n + 1}
    BY <2>2, <2>3, <2>4, AppendRange, SMTT(30)
  <2>6. Range(handed) \subseteq 1 .. n BY <2>1, LenProperties DEF AcceptInv, Range
  <2>7. \A s \in 1 .. n + 1 : s \in 1 .. n \/ s = n + 1 OBVIOUS
  <2>8. pending \subseteq 1 .. n BY <2>1 DEF AcceptInv
  <2>9. (\A s \in 1 .. opened :
           Kind(s) = "wt" => s \in Range(arrived) \cup pending \cup Range(handed))'
    BY <2>1, <2>2, <2>5, <2>7 DEF AcceptInv, Kind
  <2>10. /\ Range(arrived') \cap pending = {} /\ Range(arrived') \cap Range(handed) = {}
    BY <2>3, <2>5, <2>6, <2>8 DEF AcceptInv
  <2> QED BY <2>1, <2>2, <2>3, <2>4, <2>5, <2>8, <2>9, <2>10 DEF AcceptInv, Kind
<1>7. ASSUME NEW c, Call(c) \/ Cancel(c)
      PROVE  UNCHANGED <<opened, arrived, pending, handed>> BY <1>7 DEF Call, Cancel
<1>8. ASSUME NEW c, Poll(c)
      PROVE  AcceptInv'
  <2>1. \A s : (DecodeUni(s) = "stream" <=> Kind(s) = "wt")
             /\ (DecodeBi(s) = "stream" <=> Kind(s) = "wt") BY DEF DecodeUni, DecodeBi
  <2>2. PICK streams \in {{s \in Ready : DecodeUni(s) = "stream"},
                          {s \in Ready : DecodeBi(s) = "stream"}}, wakeAll \in BOOLEAN :
          PollAccept(c, streams, wakeAll)
    BY <1>8 DEF Poll, QuinnAcceptUni, QuinnAcceptBi, NoqAcceptUni, NoqAcceptBi, IrohAcceptUni, IrohAcceptBi,
      QuicheAcceptUni, QuicheAcceptBi
  <2>3. streams \subseteq Ready /\ \A s \in Ready : s \in streams <=> Kind(s) = "wt" BY <2>1
  <2> QED BY <2>2, <2>3, AcceptPoll
<1> QED BY <1>0, <1>1, <1>2, <1>3, <1>4, <1>5, <1>6, <1>7, <1>8, AcceptKept DEF Next

\* accept_uni and accept_bi of every crate, for any number of callers that come,
\* cancel and come again: no stream of the session is lost or handed out twice,
\* and no other stream is handed out.
THEOREM AcceptedOnce == IoSpec => []HandedOnce
<1>1. IoInit => AcceptInv
  <2> SUFFICES ASSUME IoInit PROVE AcceptInv OBVIOUS
  <2>1. <<>> \in Seq(1 .. 0) /\ Range(<<>>) = {} /\ DOMAIN <<>> = {} BY EmptySeq DEF Range
  <2>2. \A s \in 1 .. 0 : FALSE OBVIOUS
  <2>3. IsInjective(<<>>) BY <2>1 DEF IsInjective
  <2> QED BY <2>1, <2>2, <2>3 DEF AcceptInv, IoInit, Init
<1>2. AcceptInv /\ [IoNext]_allVars => AcceptInv'
  <2> SUFFICES ASSUME AcceptInv, [IoNext]_allVars PROVE AcceptInv' OBVIOUS
  <2>1. CASE Next BY <2>1, AcceptStep
  <2>2. CASE UNCHANGED session BY <2>2, AcceptKept DEF session, accepting
  <2> QED BY <2>1, <2>2 DEF IoNext, StreamNext, DatagramNext, allVars
<1> QED BY <1>1, <1>2, AcceptInvExact, PTL DEF IoSpec

----------------------------------------------------------------------------
(* The handshake                                                            *)

\* The frames of a CONNECT stream.
PlainFrames == {[kind |-> k] : k \in {"request", "fin", "grease", "reset"}}
AnswerFrames == {[kind |-> "response", status |-> p.answer.status,
                  protocol |-> p.answer.protocol] : p \in Plans}
RejectFrames == {[kind |-> "response", status |-> p.answer.status,
                  protocol |-> "none"] : p \in Plans}
CloseFrames == {[kind |-> t[1], code |-> t[3].close[t[2]], reason |-> Reason] :
                  t \in {"bare", "capsule"} \X Ends \X Plans}
ConnectFrames == PlainFrames \cup AnswerFrames \cup RejectFrames \cup CloseFrames

Connecting == hs[Client] \in {"settings", "connect", "response"}
Undecided == hs[Server] \in {"settings", "request", "decide"}

\* What a client that waits for the response will find first.
Answer(f) ==
  /\ f.status = plan.answer.status
  /\ \/ plan.answer.reject
     \/ Up(Server) /\ f.protocol = plan.answer.protocol /\ MayRespond(plan.answer.protocol)

\* The inductive invariant behind SessionsAgree: until the client has read it,
\* the response is the first frame on the way to it, and there is none before
\* the server decided.
AnswerInv ==
  /\ plan \in Plans /\ DOMAIN hs = Ends /\ DOMAIN closer = Ends
  /\ out \in [Ends -> Seq(ConnectFrames)] /\ inbox \in [Ends -> Seq(ConnectFrames)]
  /\ \A e \in Ends : closer[e] # "off" => Up(e)
  /\ Undecided => out[Server] = <<>> /\ inbox[Client] = <<>>
  /\ Connecting /\ Up(Server) => out[Server] # <<>> \/ inbox[Client] # <<>>
  /\ Connecting /\ inbox[Client] # <<>> => Answer(inbox[Client][1])
  /\ Connecting /\ inbox[Client] = <<>> /\ out[Server] # <<>> => Answer(out[Server][1])
  /\ SessionsAgree

\* MayRespond and Answer look at nothing but the plan and the server's step.
LEMMA AnswerKept ==
  ASSUME plan' = plan, NEW f, Answer(f), Up(Server) => Up(Server)'
  PROVE  Answer(f)'
<1>1. MayRespond(plan.answer.protocol)' = MayRespond(plan.answer.protocol)
  BY DEF MayRespond, IrohMayRespond, QuicheMayRespond, QuinnMayRespond, Crate
<1> QED BY <1>1 DEF Answer

\* A step that leaves the handshake alone.
LEMMA AnswerIdle ==
  ASSUME AnswerInv, plan' = plan, UNCHANGED <<hs, out, inbox>>,
         DOMAIN closer' = Ends, \A e \in Ends : closer'[e] # "off" => closer[e] # "off" \/ Up(e)
  PROVE  AnswerInv'
<1>1. \A f : Answer(f) => Answer(f)' BY AnswerKept DEF Up
<1>2. (Undecided' <=> Undecided) /\ (Connecting' <=> Connecting) BY DEF Undecided, Connecting
<1>3. SessionsAgree' BY DEF AnswerInv, SessionsAgree, Up, Crate
<1> QED BY <1>1, <1>2, <1>3 DEF AnswerInv, Up

\* A session of end e sends more frames.
LEMMA AnswerSends ==
  ASSUME AnswerInv, plan' = plan, UNCHANGED <<hs, inbox>>, NEW e \in Ends, Up(e),
         NEW s \in Seq(ConnectFrames), out' = [out EXCEPT ![e] = s],
         out[e] # <<>> => s # <<>> /\ s[1] = out[e][1],
         DOMAIN closer' = Ends, \A x \in Ends : closer'[x] # "off" => closer[x] # "off" \/ Up(x)
  PROVE  AnswerInv'
<1>1. \A f : Answer(f) => Answer(f)' BY AnswerKept DEF Up
<1>2. (Undecided' <=> Undecided) /\ (Connecting' <=> Connecting) BY DEF Undecided, Connecting
<1>3. SessionsAgree' BY DEF AnswerInv, SessionsAgree, Up, Crate
<1>4. out' \in [Ends -> Seq(ConnectFrames)] BY DEF AnswerInv
<1>5. CASE e = Client
  <2>1. out'[Server] = out[Server] BY <1>5 DEF AnswerInv, Client, Server, Ends
  <2> QED BY <1>1, <1>2, <1>3, <1>4, <2>1 DEF AnswerInv, Up
<1>6. CASE e = Server
  <2>1. out'[Server] = s /\ ~Undecided BY <1>6 DEF AnswerInv, Up, Undecided
  <2>2. Connecting /\ inbox[Client] = <<>> => out[Server] # <<>> BY <1>6 DEF AnswerInv
  <2> QED BY <1>1, <1>2, <1>3, <1>4, <1>6, <2>1, <2>2 DEF AnswerInv, Up
<1> QED BY <1>5, <1>6 DEF Ends

\* A step of the handshake of one end that moves no frame towards the client.
LEMMA AnswerMoves ==
  ASSUME AnswerInv, plan' = plan, NEW e \in Ends, NEW step,
         hs' = [hs EXCEPT ![e] = step], hs[e] # "up", step # "up",
         e = Client => (step \in {"settings", "connect", "response"} => Connecting),
         e = Server => (step \in {"settings", "request", "decide"} => Undecided),
         out' \in [Ends -> Seq(ConnectFrames)], inbox' \in [Ends -> Seq(ConnectFrames)],
         out'[Server] = out[Server], inbox'[Client] = inbox[Client],
         closer' = closer
  PROVE  AnswerInv'
<1>0. Client # Server /\ Client \in Ends /\ Server \in Ends /\ DOMAIN hs = Ends BY DEF AnswerInv, Ends, Client, Server
<1>1. \A x \in Ends : Up(x)' <=> Up(x) BY <1>0 DEF Up
<1>2. (Undecided' => Undecided) /\ (Connecting' => Connecting) BY <1>0 DEF Undecided, Connecting
<1>3. \A f : Answer(f) => Answer(f)' BY <1>0, <1>1, AnswerKept
<1>4. SessionsAgree' BY <1>0, <1>1 DEF AnswerInv, SessionsAgree, Crate
<1>5. DOMAIN hs' = Ends BY <1>0
<1> QED BY <1>0, <1>1, <1>2, <1>3, <1>4, <1>5 DEF AnswerInv

\* The first frame of a stream that is written to.
LEMMA FirstOfConcat ==
  ASSUME NEW S, NEW q \in Seq(S), NEW t \in Seq(S)
  PROVE  /\ q \o t \in Seq(S)
         /\ q # <<>> => q \o t # <<>> /\ (q \o t)[1] = q[1]
         /\ q = <<>> => q \o t = t
<1>1. PICK m \in Nat : m = Len(q) BY LenProperties
<1>2. PICK n \in Nat : n = Len(t) BY LenProperties
<1>3. PICK u : u = q \o t OBVIOUS
<1>4. /\ u \in Seq(S) /\ Len(u) = m + n
      /\ \A i \in 1 .. m + n : u[i] = IF i <= m THEN q[i] ELSE t[i - m] BY <1>1, <1>2, <1>3, ConcatProperties
<1>5. q # <<>> => m \in Nat \ {0} BY <1>1, EmptySeq
<1>6. q # <<>> => u # <<>> /\ u[1] = q[1]
  <2> HAVE q # <<>>
  <2>1. Len(u) # 0 /\ 1 \in 1 .. m + n /\ 1 <= m BY <1>4, <1>5
  <2> QED BY <1>4, <2>1, EmptySeq
<1>7. q = <<>> => u = t BY <1>3, ConcatEmptySeq
<1> QED BY <1>3, <1>4, <1>6, <1>7

\* The same for one frame more.
LEMMA FirstOfAppend ==
  ASSUME NEW S, NEW q \in Seq(S), NEW x \in S
  PROVE  /\ Append(q, x) \in Seq(S) /\ Append(q, x) # <<>>
         /\ q # <<>> => Append(q, x)[1] = q[1]
         /\ q = <<>> => Append(q, x)[1] = x
<1>1. PICK m \in Nat : m = Len(q) BY LenProperties
<1>2. PICK u : u = Append(q, x) OBVIOUS
<1>3. /\ u \in Seq(S) /\ Len(u) = m + 1 /\ u[m + 1] = x
      /\ \A i \in 1 .. m : u[i] = q[i] BY <1>1, <1>2, AppendProperties
<1>4. u # <<>> BY <1>3, EmptySeq
<1>5. q # <<>> => u[1] = q[1]
  <2> HAVE q # <<>>
  <2>1. 1 \in 1 .. m BY <1>1, EmptySeq
  <2> QED BY <1>3, <2>1
<1>6. q = <<>> => u[1] = x
  <2> HAVE q = <<>>
  <2>1. m = 0 BY <1>1, EmptySeq
  <2> QED BY <1>3, <2>1
<1> QED BY <1>2, <1>3, <1>4, <1>5, <1>6

\* The frames that are sent.
LEMMA FramesSent ==
  ASSUME plan \in Plans
  PROVE  /\ \A k \in {"request", "fin", "grease", "reset"} : [kind |-> k] \in ConnectFrames
         /\ [kind |-> "response", status |-> plan.answer.status,
             protocol |-> plan.answer.protocol] \in ConnectFrames
         /\ [kind |-> "response", status |-> plan.answer.status,
             protocol |-> "none"] \in ConnectFrames
         /\ \A k \in {"bare", "capsule"}, e \in Ends :
              [kind |-> k, code |-> plan.close[e], reason |-> Reason] \in ConnectFrames
<1>1. \A k \in {"request", "fin", "grease", "reset"} : [kind |-> k] \in ConnectFrames
  <2>1. \A k \in {"request", "fin", "grease", "reset"} : [kind |-> k] \in PlainFrames BY Zenon DEF PlainFrames
  <2> QED BY <2>1 DEF ConnectFrames
<1>2. [kind |-> "response", status |-> plan.answer.status,
       protocol |-> plan.answer.protocol] \in ConnectFrames
  <2>1. [kind |-> "response", status |-> plan.answer.status,
         protocol |-> plan.answer.protocol] \in AnswerFrames BY Zenon DEF AnswerFrames
  <2> QED BY <2>1, Zenon DEF ConnectFrames
<1>3. [kind |-> "response", status |-> plan.answer.status,
       protocol |-> "none"] \in ConnectFrames
  <2>1. [kind |-> "response", status |-> plan.answer.status,
         protocol |-> "none"] \in RejectFrames BY Zenon DEF RejectFrames
  <2> QED BY <2>1, Zenon DEF ConnectFrames
<1>4. ASSUME NEW k \in {"bare", "capsule"}, NEW e \in Ends
      PROVE  [kind |-> k, code |-> plan.close[e], reason |-> Reason] \in ConnectFrames
  <2>1. PICK t \in {"bare", "capsule"} \X Ends \X Plans : t[1] = k /\ t[2] = e /\ t[3] = plan
    <3>1. /\ <<k, e, plan>> \in {"bare", "capsule"} \X Ends \X Plans
          /\ <<k, e, plan>>[1] = k /\ <<k, e, plan>>[2] = e /\ <<k, e, plan>>[3] = plan OBVIOUS
    <3> QED BY <3>1
  <2>2. [kind |-> t[1], code |-> t[3].close[t[2]], reason |-> Reason] \in CloseFrames BY Zenon DEF CloseFrames
  <2> QED BY <2>1, <2>2, Zenon DEF ConnectFrames
<1> QED BY <1>1, <1>2, <1>3, <1>4

\* Two frames at once, and a third in front.
LEMMA FramesTogether ==
  ASSUME NEW S, NEW x \in S, NEW y \in S
  PROVE  <<x, y>> \in Seq(S) /\ <<x>> \in Seq(S) /\ <<x, y>> # <<>> /\ <<x, y>>[1] = x OBVIOUS

\* What the client requires of the response makes the two sessions agree.
LEMMA TakesAgrees ==
  ASSUME plan \in Plans, NEW f, Answer(f), Takes(f)
  PROVE  /\ Up(Server) /\ plan.answer.status = 200
         /\ \/ plan.answer.protocol \in plan.offer \union {"none"}
            \/ Crate(Client) = "quiche" /\ Crate(Server) = "quiche"
<1>1. f.status = 200 BY DEF Takes, QuinnTakes, IrohTakes, QuicheTakes
<1>2. /\ Up(Server) /\ f.protocol = plan.answer.protocol
      /\ MayRespond(plan.answer.protocol) /\ plan.answer.status = 200 BY <1>1, PlansAssumption DEF Answer
<1>3. CASE Crate(Client) # "quiche"
  <2>1. f.protocol = "none" \/ f.protocol \in plan.offer BY <1>3 DEF Takes, QuinnTakes, IrohTakes, QuicheTakes
  <2> QED BY <1>2, <2>1
<1>4. CASE Crate(Server) # "quiche"
  <2>1. plan.answer.protocol = "none" \/ plan.answer.protocol \in plan.offer
    BY <1>2, <1>4 DEF MayRespond, QuinnMayRespond, IrohMayRespond, QuicheMayRespond
  <2> QED BY <1>2, <2>1
<1> QED BY <1>2, <1>3, <1>4

\* A frame moves from the wire to the inbox.
LEMMA AnswerArrives ==
  ASSUME AnswerInv, plan' = plan, NEW e \in Ends, FrameArrives(e)
  PROVE  AnswerInv'
<1>0. /\ Client # Server /\ Client \in Ends /\ Server \in Ends
      /\ Other(Client) = Server /\ Other(Server) = Client BY DEF Ends, Client, Server, Other
<1>1. PICK o \in Ends : o = Other(e) BY <1>0 DEF Ends
<1>2. /\ out[o] \in Seq(ConnectFrames) /\ inbox[e] \in Seq(ConnectFrames) /\ out[o] # <<>>
  BY <1>1 DEF AnswerInv, FrameArrives
<1>3. /\ out[o][1] \in ConnectFrames /\ Head(out[o]) = out[o][1] /\ Tail(out[o]) \in Seq(ConnectFrames)
  <2>1. Head(out[o]) = out[o][1] BY <1>2
  <2> QED BY <1>2, <2>1, HeadTailProperties
<1>4. PICK q : q = Append(inbox[e], out[o][1]) OBVIOUS
<1>5. /\ q \in Seq(ConnectFrames) /\ q # <<>>
      /\ inbox[e] # <<>> => q[1] = inbox[e][1]
      /\ inbox[e] = <<>> => q[1] = out[o][1] BY <1>2, <1>3, <1>4, FirstOfAppend
<1>6. PICK t : t = Tail(out[o]) OBVIOUS
<1>7. /\ inbox' = [inbox EXCEPT ![e] = q] /\ out' = [out EXCEPT ![o] = t]
      /\ UNCHANGED <<hs, closer>> BY <1>1, <1>3, <1>4, <1>6 DEF FrameArrives
<1>8. out' \in [Ends -> Seq(ConnectFrames)] /\ inbox' \in [Ends -> Seq(ConnectFrames)]
  BY <1>3, <1>5, <1>6, <1>7 DEF AnswerInv
<1>9. (Undecided' <=> Undecided) /\ (Connecting' <=> Connecting) BY <1>7 DEF Undecided, Connecting
<1>10. \A f : Answer(f) => Answer(f)' BY <1>7, AnswerKept DEF Up
<1>11. SessionsAgree' BY <1>7 DEF AnswerInv, SessionsAgree, Up, Crate
<1>12. CASE e = Server
  <2>1. out'[Server] = out[Server] /\ inbox'[Client] = inbox[Client] BY <1>0, <1>1, <1>7, <1>12 DEF AnswerInv
  <2> QED BY <1>7, <1>8, <1>9, <1>10, <1>11, <2>1 DEF AnswerInv, Up
<1>13. CASE e = Client
  <2>1. out'[Server] = t /\ inbox'[Client] = q /\ o = Server BY <1>0, <1>1, <1>7, <1>13 DEF AnswerInv
  <2>2. ~Undecided BY <1>2, <2>1 DEF AnswerInv
  <2>3. Connecting => Answer(q[1]) BY <1>2, <1>5, <1>13, <2>1 DEF AnswerInv
  <2> QED BY <1>5, <1>7, <1>8, <1>9, <1>10, <1>11, <2>1, <2>2, <2>3 DEF AnswerInv, Up
<1> QED BY <1>12, <1>13 DEF Ends

\* The client reads the response.
LEMMA AnswerRead ==
  ASSUME AnswerInv, plan' = plan, ReadResponse
  PROVE  AnswerInv'
<1>0. Client # Server /\ Client \in Ends /\ Server \in Ends /\ DOMAIN hs = Ends BY DEF AnswerInv, Ends, Client, Server
<1>1. PICK f : f = inbox[Client][1] OBVIOUS
<1>2. /\ hs[Client] = "response" /\ inbox[Client] # <<>> /\ closer' = closer /\ out' = out
      /\ inbox' = [inbox EXCEPT ![Client] = Tail(inbox[Client])]
      /\ \/ hs' = [hs EXCEPT ![Client] = "failed"]
         \/ hs' = [hs EXCEPT ![Client] = "up"] /\ Takes(f)
  <2>1. inbox[Client] \in Seq(ConnectFrames) BY <1>0 DEF AnswerInv
  <2>2. inbox[Client] # <<>> => Head(inbox[Client]) = f BY <1>1, <2>1
  <2> QED BY <2>2 DEF ReadResponse, NewSession
<1>3. Connecting /\ ~Undecided /\ ~Up(Client) /\ Answer(f) BY <1>1, <1>2 DEF AnswerInv, Connecting, Up
<1>4. ~Connecting' /\ (Undecided' <=> Undecided) /\ (Up(Server)' <=> Up(Server))
  BY <1>0, <1>2 DEF Connecting, Undecided, Up
<1>5. inbox' \in [Ends -> Seq(ConnectFrames)]
  <2>1. Tail(inbox[Client]) \in Seq(ConnectFrames) BY <1>0, <1>2, HeadTailProperties DEF AnswerInv
  <2> QED BY <1>2, <2>1 DEF AnswerInv
<1>6. SessionsAgree'
  <2>1. CASE hs' = [hs EXCEPT ![Client] = "failed"] BY <1>0, <2>1 DEF SessionsAgree, Up
  <2>2. CASE Takes(f)
    <3>1. /\ Up(Server) /\ plan.answer.status = 200
          /\ \/ plan.answer.protocol \in plan.offer \union {"none"}
             \/ Crate(Client) = "quiche" /\ Crate(Server) = "quiche" BY <1>3, <2>2, TakesAgrees DEF AnswerInv
    <3> QED BY <1>4, <3>1 DEF SessionsAgree, Crate
  <2> QED BY <1>2, <2>1, <2>2
<1>7. \A e \in Ends : closer'[e] # "off" => Up(e)'
  <2>1. closer[Client] = "off" BY <1>0, <1>3 DEF AnswerInv
  <2> QED BY <1>0, <1>2, <1>4, <2>1 DEF AnswerInv, Ends
<1>8. DOMAIN hs' = Ends BY <1>0, <1>2
<1> QED BY <1>2, <1>3, <1>4, <1>5, <1>6, <1>7, <1>8 DEF AnswerInv

\* The server answers.
LEMMA AnswerSent ==
  ASSUME AnswerInv, plan' = plan, Respond \/ Reject
  PROVE  AnswerInv'
<1>0. /\ Client # Server /\ Client \in Ends /\ Server \in Ends /\ DOMAIN hs = Ends
      /\ plan \in Plans BY DEF AnswerInv, Ends, Client, Server
<1>1. /\ hs[Server] = "decide" /\ closer' = closer /\ inbox' = inbox BY DEF Respond, Reject
<1>2. Undecided /\ out[Server] = <<>> /\ inbox[Client] = <<>> /\ ~Up(Server) /\ ~Up(Client)
  BY <1>1 DEF AnswerInv, Undecided, Up, SessionsAgree
<1>3. PICK f : f = [kind |-> "response", status |-> plan.answer.status,
                    protocol |-> plan.answer.protocol] OBVIOUS
<1>4. PICK g : g = [kind |-> "response", status |-> plan.answer.status,
                    protocol |-> "none"] OBVIOUS
<1>5. PICK h : h = [kind |-> "fin"] OBVIOUS
<1>6. /\ f \in ConnectFrames /\ g \in ConnectFrames /\ h \in ConnectFrames
      /\ f.status = plan.answer.status /\ f.protocol = plan.answer.protocol /\ g.status = plan.answer.status
  <2>1. f \in ConnectFrames /\ g \in ConnectFrames BY <1>0, <1>3, <1>4, FramesSent
  <2>2. h \in ConnectFrames BY <1>0, <1>5, FramesSent
  <2> QED BY <1>3, <1>4, <2>1, <2>2
<1>7. /\ Append(<<>>, f) \in Seq(ConnectFrames) /\ Append(<<>>, f)[1] = f /\ Append(<<>>, f) # <<>>
  <2>1. <<>> \in Seq(ConnectFrames) BY EmptySeq
  <2> QED BY <1>6, <2>1, FirstOfAppend
<1>8. /\ <<>> \o <<g, h>> \in Seq(ConnectFrames) /\ (<<>> \o <<g, h>>)[1] = g /\ <<>> \o <<g, h>> # <<>>
  <2>1. <<>> \in Seq(ConnectFrames) /\ <<g, h>> \in Seq(ConnectFrames)
        /\ <<g, h>> # <<>> /\ <<g, h>>[1] = g BY <1>6, EmptySeq, FramesTogether
  <2> QED BY <2>1, FirstOfConcat
<1>9. \/ hs' = [hs EXCEPT ![Server] = "failed"] /\ out' = out
      \/ /\ hs' = [hs EXCEPT ![Server] = "up"] /\ MayRespond(plan.answer.protocol)
         /\ out' = [out EXCEPT ![Server] = Append(<<>>, f)]
      \/ /\ hs' = [hs EXCEPT ![Server] = "failed"] /\ plan.answer.reject
         /\ out' = [out EXCEPT ![Server] = <<>> \o <<g, h>>]
  <2>1. CASE Respond BY <1>2, <1>3, <2>1 DEF Respond, NewSession
  <2>2. CASE Reject BY <1>2, <1>4, <1>5, <2>2 DEF Reject
  <2> QED BY <2>1, <2>2
<1>10. CASE hs' = [hs EXCEPT ![Server] = "failed"] /\ out' = out
  <2>1. out' \in [Ends -> Seq(ConnectFrames)] /\ inbox' \in [Ends -> Seq(ConnectFrames)] BY <1>1, <1>10 DEF AnswerInv
  <2> QED BY <1>0, <1>1, <1>10, <2>1, AnswerMoves
<1>11. ASSUME NEW s \in Seq(ConnectFrames), s # <<>>, out' = [out EXCEPT ![Server] = s],
              NEW step \in {"up", "failed"}, hs' = [hs EXCEPT ![Server] = step],
              step = "up" => MayRespond(plan.answer.protocol) /\ s[1] = f,
              step = "failed" => plan.answer.reject /\ s[1] = g
       PROVE  AnswerInv'
  <2>1. /\ out' \in [Ends -> Seq(ConnectFrames)] /\ out'[Server] = s BY <1>0, <1>11 DEF AnswerInv
  <2>2. /\ ~Undecided' /\ (Connecting' <=> Connecting) /\ (Up(Client)' <=> Up(Client))
        /\ DOMAIN hs' = Ends /\ (Up(Server)' <=> step = "up") BY <1>0, <1>11 DEF Undecided, Connecting, Up
  <2>3. Answer(s[1])'
    <3>1. MayRespond(plan.answer.protocol)' = MayRespond(plan.answer.protocol)
      BY DEF MayRespond, IrohMayRespond, QuicheMayRespond, QuinnMayRespond, Crate
    <3>2. s[1].status = plan.answer.status BY <1>6, <1>11
    <3>3. \/ plan.answer.reject
          \/ /\ step = "up" /\ s[1].protocol = plan.answer.protocol
             /\ MayRespond(plan.answer.protocol) BY <1>6, <1>11
    <3> QED BY <2>2, <3>1, <3>2, <3>3 DEF Answer
  <2>4. SessionsAgree' BY <1>2, <2>2 DEF SessionsAgree
  <2>5. \A e \in Ends : closer'[e] # "off" => Up(e)'
    <3>1. closer[Server] = "off" /\ closer[Client] = "off" BY <1>0, <1>2 DEF AnswerInv
    <3> QED BY <1>1, <3>1 DEF Ends
  <2> QED BY <1>0, <1>1, <1>2, <1>11, <2>1, <2>2, <2>3, <2>4, <2>5 DEF AnswerInv
<1> QED BY <1>7, <1>8, <1>9, <1>10, <1>11

\* Every step of a session.
LEMMA AnswerStep ==
  ASSUME AnswerInv, Next
  PROVE  AnswerInv'
<1>0. /\ plan' = plan /\ DOMAIN closer = Ends /\ DOMAIN hs = Ends /\ plan \in Plans
      /\ Client # Server /\ Client \in Ends /\ Server \in Ends
      /\ out \in [Ends -> Seq(ConnectFrames)] /\ inbox \in [Ends -> Seq(ConnectFrames)]
  BY PlanKept DEF AnswerInv, Ends, Client, Server
<1>1. ASSUME UNCHANGED <<hs, out, inbox, closer>> PROVE AnswerInv' BY <1>0, <1>1, AnswerIdle
<1>2. ASSUME NEW e \in Ends, Network(e)
      PROVE  AnswerInv'
  <2>1. CASE FrameArrives(e) BY <1>0, <2>1, AnswerArrives
  <2>2. CASE CloseArrives(e) \/ SettingsArrive(e) \/ IdleTimeout(e)
    BY <1>1, <2>2 DEF CloseArrives, SettingsArrive, IdleTimeout
  <2> QED BY <1>2, <2>1, <2>2 DEF Network
<1>3. ASSUME NEW e \in Ends, Handshake(e)
      PROVE  AnswerInv'
  <2>1. UNCHANGED <<out, inbox, closer>> BY <1>3 DEF Handshake, ReadSettings, HandshakeFails
  <2>2. PICK step \in {"connect", "request", "failed"} :
          /\ hs' = [hs EXCEPT ![e] = step] /\ hs[e] # "up"
          /\ step = "connect" => e = Client /\ hs[e] = "settings"
          /\ step = "request" => e # Client /\ hs[e] = "settings" BY <1>3 DEF Handshake, ReadSettings, HandshakeFails
  <2>3. /\ e = Client => (step \in {"settings", "connect", "response"} => Connecting)
        /\ e = Server => (step \in {"settings", "request", "decide"} => Undecided)
    BY <1>0, <2>2 DEF Connecting, Undecided
  <2> QED BY <1>0, <2>1, <2>2, <2>3, AnswerMoves
<1>4. CASE SendConnect
  <2>1. PICK q : q = Append(out[Client], [kind |-> "request"]) OBVIOUS
  <2>2. q \in Seq(ConnectFrames)
    <3>1. [kind |-> "request"] \in ConnectFrames BY <1>0, FramesSent
    <3> QED BY <1>0, <2>1, <3>1, FirstOfAppend
  <2>3. /\ hs' = [hs EXCEPT ![Client] = "response"] /\ hs[Client] = "connect"
        /\ out' = [out EXCEPT ![Client] = q] /\ UNCHANGED <<inbox, closer>> BY <1>4, <2>1 DEF SendConnect
  <2>4. out' \in [Ends -> Seq(ConnectFrames)] /\ out'[Server] = out[Server] BY <1>0, <2>2, <2>3
  <2>5. hs[Client] # "up" /\ Connecting BY <2>3 DEF Connecting
  <2> QED BY <1>0, <2>3, <2>4, <2>5, AnswerMoves
<1>5. CASE AcceptConnect
  <2>1. PICK q : q = Tail(inbox[Server]) OBVIOUS
  <2>2. q \in Seq(ConnectFrames) BY <1>0, <1>5, <2>1, HeadTailProperties DEF AcceptConnect
  <2>3. /\ hs' = [hs EXCEPT ![Server] = "decide"] /\ hs[Server] = "request"
        /\ inbox' = [inbox EXCEPT ![Server] = q] /\ UNCHANGED <<out, closer>> BY <1>5, <2>1 DEF AcceptConnect
  <2>4. inbox' \in [Ends -> Seq(ConnectFrames)] /\ inbox'[Client] = inbox[Client] BY <1>0, <2>2, <2>3
  <2>5. hs[Server] # "up" /\ Undecided BY <2>3 DEF Undecided
  <2> QED BY <1>0, <2>3, <2>4, <2>5, AnswerMoves
<1>6. CASE Respond \/ Reject BY <1>0, <1>6, AnswerSent
<1>7. CASE ReadResponse BY <1>0, <1>7, AnswerRead
<1>8. ASSUME NEW e \in Ends, Tasks(e)
      PROVE  AnswerInv'
  <2>1. CASE SkipCapsule(e)
    <3>1. /\ Up(e) /\ inbox[e] # <<>> /\ inbox' = [inbox EXCEPT ![e] = Tail(inbox[e])]
          /\ UNCHANGED <<hs, out, closer>> BY <2>1 DEF SkipCapsule, Reading
    <3>2. Tail(inbox[e]) \in Seq(ConnectFrames) BY <1>0, <3>1, HeadTailProperties
    <3>3. inbox' \in [Ends -> Seq(ConnectFrames)] BY <1>0, <3>1, <3>2
    <3>4. (Undecided' <=> Undecided) /\ (Connecting' <=> Connecting) BY <3>1 DEF Undecided, Connecting
    <3>5. \A f : Answer(f) => Answer(f)' BY <1>0, <3>1, AnswerKept DEF Up
    <3>6. SessionsAgree' BY <1>0, <3>1 DEF AnswerInv, SessionsAgree, Up, Crate
    <3>7. CASE e = Server
      <4>1. inbox'[Client] = inbox[Client] BY <1>0, <3>1, <3>7
      <4> QED BY <1>0, <3>1, <3>3, <3>4, <3>5, <3>6, <4>1 DEF AnswerInv, Up
    <3>8. CASE e = Client
      <4>1. ~Connecting /\ ~Undecided BY <3>1, <3>8 DEF AnswerInv, SessionsAgree, Connecting, Undecided, Up
      <4> QED BY <1>0, <3>1, <3>3, <3>4, <3>6, <4>1 DEF AnswerInv, Up
    <3> QED BY <3>7, <3>8 DEF Ends
  <2>2. CASE QuinnRunRecv(e) \/ QuinnRunRecvClose(e) \/ IrohRunClosed(e)
    BY <1>1, <2>2 DEF QuinnRunRecv, QuinnRunRecvClose, IrohRunClosed
  <2>3. CASE QuicheRunClosed(e)
    <3>1. PICK s : s = IF Outcome(e) = "end" THEN Append(out[e], [kind |-> "reset"])
                                             ELSE out[e] OBVIOUS
    <3>2. /\ Up(e) /\ out' = [out EXCEPT ![e] = s] /\ UNCHANGED <<hs, inbox, closer>>
      BY <2>3, <3>1 DEF QuicheRunClosed, Reading
    <3>3. s \in Seq(ConnectFrames) /\ (out[e] # <<>> => s # <<>> /\ s[1] = out[e][1])
      <4>1. PICK h \in ConnectFrames : h = [kind |-> "reset"] BY <1>0, FramesSent
      <4>2. PICK a : a = Append(out[e], h) OBVIOUS
      <4>3. a \in Seq(ConnectFrames) /\ a # <<>> /\ (out[e] # <<>> => a[1] = out[e][1])
        <5>1. out[e] \in Seq(ConnectFrames) BY <1>0
        <5> QED BY <5>1, <4>2, FirstOfAppend
      <4>4. s \in {a, out[e]} BY <3>1, <4>1, <4>2
      <4> QED BY <1>0, <4>3, <4>4
    <3> QED BY <1>0, <3>2, <3>3, AnswerSends
  <2>4. CASE WriteCapsule(e)
    <3>1. PICK k \in {"bare", "capsule"} : k = IF Crate(e) = "other" THEN "bare" ELSE "capsule" OBVIOUS
    <3>2. PICK f : f = [kind |-> k, code |-> plan.close[e], reason |-> Reason] OBVIOUS
    <3>3. PICK h : h = [kind |-> "fin"] OBVIOUS
    <3>4. PICK g : g = IF Crate(e) = "other" THEN << [kind |-> "grease"] >> ELSE <<>> OBVIOUS
    <3>5. PICK s : s = out[e] \o g \o <<f, h>> OBVIOUS
    <3>6. /\ closer[e] # "off" /\ out' = [out EXCEPT ![e] = s]
          /\ closer' = [closer EXCEPT ![e] = "wait"] /\ UNCHANGED <<hs, inbox>>
      BY <2>4, <3>1, <3>2, <3>3, <3>4, <3>5 DEF WriteCapsule
    <3>7. f \in ConnectFrames /\ h \in ConnectFrames BY <1>0, <3>2, <3>3, FramesSent
    <3>8. g \in Seq(ConnectFrames)
      <4>1. [kind |-> "grease"] \in ConnectFrames BY <1>0, FramesSent
      <4> QED BY <3>4, <4>1, FramesTogether, EmptySeq
    <3>9. <<f, h>> \in Seq(ConnectFrames) BY <3>7, FramesTogether
    <3>10. PICK t : t = out[e] \o g OBVIOUS
    <3>11. t \in Seq(ConnectFrames) /\ (out[e] # <<>> => t # <<>> /\ t[1] = out[e][1])
      BY <1>0, <3>8, <3>10, FirstOfConcat
    <3>12. s \in Seq(ConnectFrames) /\ (out[e] # <<>> => s # <<>> /\ s[1] = out[e][1])
      BY <3>5, <3>9, <3>10, <3>11, FirstOfConcat
    <3>13. Up(e) BY <3>6 DEF AnswerInv
    <3>14. DOMAIN closer' = Ends /\ \A x \in Ends : closer'[x] # "off" => closer[x] # "off" \/ Up(x)
      BY <1>0, <3>6, <3>13
    <3> QED BY <1>0, <3>6, <3>12, <3>13, <3>14, AnswerSends
  <2>5. CASE CloserEnds(e)
    <3>1. /\ closer[e] # "off" /\ closer' = [closer EXCEPT ![e] = "done"]
          /\ UNCHANGED <<hs, out, inbox>> BY <2>5 DEF CloserEnds
    <3> QED BY <1>0, <3>1, AnswerIdle
  <2> QED BY <1>8, <2>1, <2>2, <2>3, <2>4, <2>5 DEF Tasks
<1>9. ASSUME NEW e \in Ends, ForceClose(e)
      PROVE  AnswerInv'
  <2>1. /\ closer[e] # "off" /\ closer' = [closer EXCEPT ![e] = "done"]
        /\ UNCHANGED <<hs, out, inbox>> BY <1>9 DEF ForceClose, NoqTimed, QuinnTimed
  <2> QED BY <1>0, <2>1, AnswerIdle
<1>10. ASSUME NEW e \in Ends, Close(e)
       PROVE  AnswerInv'
  <2>1. Up(e) /\ UNCHANGED <<hs, out, inbox>> BY <1>10 DEF Close
  <2>2. closer' = closer \/ \E v : closer' = [closer EXCEPT ![e] = v]
    BY <1>10 DEF Close, QuinnClose, NoqClose, CloseOnce
  <2>3. DOMAIN closer' = Ends /\ \A x \in Ends : closer'[x] # "off" => closer[x] # "off" \/ Up(x) BY <1>0, <2>1, <2>2
  <2> QED BY <1>0, <2>1, <2>3, AnswerIdle
<1>11. ASSUME NEW e \in Ends, Drop(e)
       PROVE  AnswerInv'
  <2>1. PICK s : s = IF WithCapsule(e) /\ closer[e] = "off" /\ Open(e)
                     THEN Append(out[e], [kind |-> "fin"]) ELSE out[e] OBVIOUS
  <2>2. /\ Up(e) /\ out' = [out EXCEPT ![e] = s] /\ UNCHANGED <<hs, inbox, closer>> BY <1>11, <2>1 DEF Drop
  <2>3. s \in Seq(ConnectFrames) /\ (out[e] # <<>> => s # <<>> /\ s[1] = out[e][1])
    <3>1. PICK h \in ConnectFrames : h = [kind |-> "fin"] BY <1>0, FramesSent
    <3>2. PICK a : a = Append(out[e], h) OBVIOUS
    <3>3. a \in Seq(ConnectFrames) /\ a # <<>> /\ (out[e] # <<>> => a[1] = out[e][1])
      <4>1. out[e] \in Seq(ConnectFrames) BY <1>0
      <4> QED BY <4>1, <3>2, FirstOfAppend
    <3>4. s \in {a, out[e]} BY <2>1, <3>1, <3>2
    <3> QED BY <1>0, <3>3, <3>4
  <2> QED BY <1>0, <2>2, <2>3, AnswerSends
<1>12. ASSUME NEW e \in Ends, Report(e)
       PROVE  AnswerInv' BY <1>1, <1>12 DEF Report
<1>13. NetworkDies \/ OpenStream \/ Streams => AnswerInv'
  BY <1>1 DEF NetworkDies, OpenStream, Streams, HeaderArrives, life
<1>14. ASSUME NEW c, Call(c) \/ Poll(c) \/ Cancel(c)
       PROVE  AnswerInv'
  <2>1. ASSUME NEW streams, NEW wakeAll, PollAccept(c, streams, wakeAll)
        PROVE  UNCHANGED life BY <2>1 DEF PollAccept
  <2>2. UNCHANGED life
    BY <1>14, <2>1 DEF Call, Cancel, Poll, QuinnAcceptUni, QuinnAcceptBi, NoqAcceptUni, NoqAcceptBi, IrohAcceptUni,
      IrohAcceptBi, QuicheAcceptUni, QuicheAcceptBi
  <2> QED BY <1>1, <2>2 DEF life
<1> QED BY <1>2, <1>3, <1>4, <1>5, <1>6, <1>7, <1>8, <1>9, <1>10, <1>11, <1>12, <1>13, <1>14 DEF Next, Connect

\* connect() and respond() or reject() of every pair of crates: a client's
\* session means a session of the server, status 200 and a protocol that was
\* offered, whatever frames follow the response and however early it arrives.
THEOREM HandshakeAgrees == IoSpec => []SessionsAgree
<1>1. IoInit => AnswerInv
  <2> SUFFICES ASSUME IoInit PROVE AnswerInv OBVIOUS
  <2>1. /\ Client \in Ends /\ Server \in Ends /\ <<>> \in Seq(ConnectFrames) BY EmptySeq DEF Ends
  <2> QED BY <2>1 DEF IoInit, Init, AnswerInv, SessionsAgree, Up, Connecting
<1>2. AnswerInv /\ [IoNext]_allVars => AnswerInv'
  <2> SUFFICES ASSUME AnswerInv, [IoNext]_allVars PROVE AnswerInv' OBVIOUS
  <2>1. CASE Next BY <2>1, AnswerStep
  <2>2. CASE UNCHANGED session
    <3>1. plan' = plan /\ UNCHANGED <<hs, out, inbox, closer>> BY <2>2 DEF session, life
    <3>2. DOMAIN closer' = Ends BY <3>1 DEF AnswerInv
    <3> QED BY <3>1, <3>2, AnswerIdle
  <2> QED BY <2>1, <2>2 DEF IoNext, StreamNext, DatagramNext, allVars
<1>3. AnswerInv => SessionsAgree BY DEF AnswerInv
<1> QED BY <1>1, <1>2, <1>3, PTL DEF IoSpec
----------------------------------------------------------------------------
(* Who closed                                                               *)

\* The task that sends the capsule of quinn belongs to a session that recorded
\* that it was closed from this side; nothing is recorded over it.
CloserInv ==
  /\ DOMAIN closer = Ends /\ DOMAIN error = Ends
  /\ \A e \in Ends : Crate(e) = "quinn" /\ closer[e] # "off" => error[e] = Local

\* Every step of a session.
LEMMA CloserStep ==
  ASSUME CloserInv, Next
  PROVE  CloserInv'
<1>0. plan' = plan /\ \A e : Crate(e)' = Crate(e) BY PlanKept DEF Crate
<1>a. Local # None BY DEF Local, None
<1>1. ASSUME UNCHANGED <<closer, error>> PROVE CloserInv' BY <1>0, <1>1 DEF CloserInv
<1>2. ASSUME NEW e \in Ends, Network(e) \/ Handshake(e) \/ Report(e) \/ Drop(e)
      PROVE  CloserInv'
  BY <1>1, <1>2 DEF Network, Handshake, FrameArrives, CloseArrives, SettingsArrive, IdleTimeout, ReadSettings,
    HandshakeFails, Report, Drop
<1>3. NetworkDies \/ Connect \/ OpenStream \/ Streams => CloserInv'
  BY <1>1 DEF NetworkDies, Connect, SendConnect, AcceptConnect, Respond, Reject, ReadResponse, OpenStream, Streams,
    HeaderArrives, life
<1>4. ASSUME NEW c, Call(c) \/ Poll(c) \/ Cancel(c)
      PROVE  CloserInv'
  <2>1. ASSUME NEW streams, NEW wakeAll, PollAccept(c, streams, wakeAll)
        PROVE  UNCHANGED life BY <2>1 DEF PollAccept
  <2>2. UNCHANGED life
    BY <1>4, <2>1 DEF Call, Cancel, Poll, QuinnAcceptUni, QuinnAcceptBi, NoqAcceptUni, NoqAcceptBi, IrohAcceptUni,
      IrohAcceptBi, QuicheAcceptUni, QuicheAcceptBi
  <2> QED BY <1>1, <2>2 DEF life
<1>5. ASSUME NEW e \in Ends, NEW v, closer[e] # "off", closer' = [closer EXCEPT ![e] = v],
             error' = error
      PROVE  CloserInv' BY <1>0, <1>5 DEF CloserInv
<1>6. ASSUME NEW e \in Ends, Close(e)
      PROVE  CloserInv'
  <2>1. \/ UNCHANGED <<error, closer>>
        \/ /\ error' = [error EXCEPT ![e] = Local]
           /\ closer' = [closer EXCEPT ![e] = "write"] BY <1>6 DEF Close, QuinnClose, NoqClose, CloseOnce
  <2> QED BY <1>0, <1>1, <2>1 DEF CloserInv
<1>7. ASSUME NEW e \in Ends, Tasks(e)
      PROVE  CloserInv'
  <2>1. CASE QuinnRunRecv(e)
    <3>1. CASE error[e] # None BY <1>1, <2>1, <3>1 DEF QuinnRunRecv
    <3>2. CASE error[e] = None
      <4>1. closer' = closer /\ \E v : error' = [error EXCEPT ![e] = v] BY <2>1, <3>2 DEF QuinnRunRecv
      <4>2. Crate(e) = "quinn" => closer[e] = "off" BY <1>a, <3>2 DEF CloserInv
      <4> QED BY <1>0, <4>1, <4>2 DEF CloserInv
    <3> QED BY <3>1, <3>2
  <2>2. CASE SkipCapsule(e) \/ QuinnRunRecvClose(e) \/ IrohRunClosed(e) \/ QuicheRunClosed(e)
    BY <1>1, <2>2 DEF SkipCapsule, QuinnRunRecvClose, IrohRunClosed, QuicheRunClosed
  <2>3. CASE WriteCapsule(e) \/ CloserEnds(e) BY <1>5, <2>3 DEF WriteCapsule, CloserEnds
  <2> QED BY <1>7, <2>1, <2>2, <2>3 DEF Tasks
<1>8. ASSUME NEW e \in Ends, ForceClose(e)
      PROVE  CloserInv' BY <1>5, <1>8 DEF ForceClose, NoqTimed, QuinnTimed
<1> QED BY <1>2, <1>3, <1>4, <1>6, <1>7, <1>8 DEF Next

\* Only closed() reports, and of quinn it reports what was recorded.
LEMMA ReportStep ==
  ASSUME CloserInv, Next, NEW e \in Ends, Crate(e) = "quinn", closer[e] # "off",
         report'[e] # report[e]
  PROVE  report'[e] = Local
<1>1. ASSUME NEW x \in Ends, Network(x) \/ Handshake(x) \/ Drop(x)
      PROVE  report' = report
  BY <1>1 DEF Network, Handshake, FrameArrives, CloseArrives, SettingsArrive, IdleTimeout, ReadSettings, HandshakeFails,
    Drop
<1>2. NetworkDies \/ Connect \/ OpenStream \/ Streams => report' = report
  BY DEF NetworkDies, Connect, SendConnect, AcceptConnect, Respond, Reject, ReadResponse, OpenStream, Streams,
    HeaderArrives, life
<1>3. ASSUME NEW c, Call(c) \/ Poll(c) \/ Cancel(c)
      PROVE  report' = report
  <2>1. ASSUME NEW streams, NEW wakeAll, PollAccept(c, streams, wakeAll)
        PROVE  UNCHANGED life BY <2>1 DEF PollAccept
  <2>2. UNCHANGED life
    BY <1>3, <2>1 DEF Call, Cancel, Poll, QuinnAcceptUni, QuinnAcceptBi, NoqAcceptUni, NoqAcceptBi, IrohAcceptUni,
      IrohAcceptBi, QuicheAcceptUni, QuicheAcceptBi
  <2> QED BY <2>2 DEF life
<1>4. ASSUME NEW x \in Ends, Tasks(x) \/ ForceClose(x) \/ Close(x)
      PROVE  report' = report
  BY <1>4 DEF Tasks, SkipCapsule, QuinnRunRecv, QuinnRunRecvClose, IrohRunClosed, QuicheRunClosed, WriteCapsule,
    CloserEnds, ForceClose, Close
<1>5. PICK x \in Ends : Report(x) BY <1>1, <1>2, <1>3, <1>4 DEF Next
<1>6. report' = [report EXCEPT ![x] = MapError(x)] BY <1>5 DEF Report
<1>7. x = e /\ report'[e] = MapError(e) BY <1>6
<1>8. error[e] = Local /\ Local # None BY DEF CloserInv, Local, None
<1>9. MapError(e) = QuinnMapError(e) BY DEF MapError
<1> QED BY <1>7, <1>8, <1>9 DEF QuinnMapError

\* close() and closed() of quinn: who closed is told so, although the peer's
\* answer is a close of its own.
THEOREM CloserToldLocal == IoSpec => CloserSeesLocal
<1>1. IoInit => CloserInv BY DEF IoInit, Init, CloserInv
<1>2. CloserInv /\ [IoNext]_allVars => CloserInv'
  <2> SUFFICES ASSUME CloserInv, [IoNext]_allVars PROVE CloserInv' OBVIOUS
  <2>1. CASE Next BY <2>1, CloserStep
  <2>2. CASE UNCHANGED session BY <2>2 DEF session, life, CloserInv, Crate
  <2> QED BY <2>1, <2>2 DEF IoNext, StreamNext, DatagramNext, allVars
<1>3. CloserInv /\ [IoNext]_allVars =>
        [\A e \in Ends : Crate(e) = "quinn" /\ closer[e] # "off" /\ report'[e] # report[e]
                           => report'[e] = Local]_vars
  <2> SUFFICES ASSUME CloserInv, [IoNext]_allVars, ~ UNCHANGED vars
               PROVE  \A e \in Ends :
                        Crate(e) = "quinn" /\ closer[e] # "off" /\ report'[e] # report[e]
                          => report'[e] = Local OBVIOUS
  <2>1. Next BY DEF IoNext, StreamNext, DatagramNext, allVars, session, vars
  <2> QED BY <2>1, ReportStep
<1> QED BY <1>1, <1>2, <1>3, PTL DEF IoSpec, CloserSeesLocal
=============================================================================
