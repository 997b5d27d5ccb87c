-------------------------------- MODULE Wire --------------------------------
(* From a sender's encoder to a receiver's decoder: the byte streams and the  *)
(* WebSockets that QMux runs on (transport.rs and the JavaScript session),    *)
(* and the HTTP/3 streams that WebTransport reads its own bytes from.         *)
(*                                                                            *)
(* A behaviour follows one plan, what one end sends to the other:             *)
(*   via      "tcp" a byte stream, "ws" a WebSocket, "h3" a QUIC stream       *)
(*   version  of QMux, or what an HTTP/3 stream carries                       *)
(*   dec      who receives, "rust" or "js"                                    *)
(*   items    what is sent: [by |-> who encodes, f |-> the value,             *)
(*            raw |-> the bytes when by is "peer", means |-> what they mean,  *)
(*            bad |-> whether they must end the session instead]              *)
(*   keep     whether the WebSocket has a keep-alive                          *)
(* The network cuts a byte stream anywhere: it hands over a byte at a time and *)
(* the reader looks whenever it likes.                                        *)
EXTENDS Frames

CONSTANTS Plans,        \* the plans, a sequence
          Capacity,     \* RECV_CHANNEL_CAPACITY, WS_RECV_CHANNEL_CAPACITY
          Timeout,      \* ticks of silence a keep-alive tolerates
          MaxPings,     \* bound: the pings a sender's keep-alive sends
          MaxRecord     \* our max_record_size

ASSUME WireAssumption ==
    /\ Capacity \in Nat \ {0}
    /\ Timeout \in Nat \ {0}
    /\ MaxPings \in Nat
    /\ MaxRecord \in Nat

H == INSTANCE H3Wire

VARIABLES
    plan,       \* the plan of this behaviour
    sent,       \* items the sender has handed to the transport
    shut,       \* whether it has closed the transport
    pings,      \* pings its keep-alive has sent
    pipe,       \* in flight: bytes, or the messages of a WebSocket
    arrived,    \* bytes the receiver has and has not parsed
    held,       \* Http3CapsuleReader.buf
    reader,     \* the reader task: "reading", "sending" or "done"
    parcel,     \* what it is about to send to the session
    chan,       \* the channel between them
    got,        \* what the session has made of it
    ended,      \* whether the session has seen the end
    since,      \* ticks since the deadline was set
    silent,     \* ticks the reader has waited with nothing to read
    timedOut    \* the deadline fired

vars == <<plan, sent, shut, pings, pipe, arrived, held, reader, parcel, chan, got, ended, since, silent, timedOut>>
timing == <<since, silent, timedOut>>
task   == <<arrived, held, reader, parcel>>

MAX_FRAME_SIZE    == 16384
MAX_FRAME_PAYLOAD == MAX_FRAME_SIZE - 32

-----------------------------------------------------------------------------
(* The sender.                                                                *)

\* A capsule travels inside a DATA frame.
DataFrame(capsule) == H!H3Frame(H!DATA, capsule)

\* The encoder of what a plan sends.
H3Encode(what, x) ==
    CASE what = "settings" -> H!SettingsEncode(H!enable_webtransport(x))
      [] what = "request"  -> H!RequestEncode(x)
      [] what = "response" -> H!ResponseEncode(x)
      [] what = "capsules" -> DataFrame(H!CapsuleEncode(x))
      [] what = "bare"     -> H!CapsuleEncode(x)
      [] what = "codes"    -> VarInt(H!error_to_http3(x))

Bytes(item) ==
    CASE item.by = "peer" -> item.raw
      [] item.by = "h3"   -> H3Encode(plan.version, item.f)
      [] item.by = "js"   -> JsEncode(item.f, plan.version)
      [] item.by = "rust" -> Encode(item.f, plan.version)

\* StreamWriter::send: records carry their size on a byte stream.
StreamBytes(data) == IF uses_records(plan.version) THEN VarInt(Len(data)) \o data ELSE data

Message(k, d) == [k |-> k, d |-> d]

Arrival == silent' = 0 /\ UNCHANGED <<since, timedOut>>

\* What the version cannot express is an error to the caller and no bytes.
Send ==
    LET item == plan.items[sent + 1]
        ok   == item.by = "rust" => Encodable(item.f, plan.version)
    IN  /\ ~shut /\ sent < Len(plan.items)
        /\ sent' = sent + 1
        /\ pipe' = CASE ~ok -> pipe
                     [] ok /\ plan.via = "ws" -> Append(pipe, Message(IF item.by = "text" THEN "text" ELSE "binary",
                                                                     IF item.by = "text" THEN <<>> ELSE Bytes(item)))
                     [] ok /\ plan.via = "tcp" -> pipe \o StreamBytes(Bytes(item))
                     [] ok /\ plan.via = "h3"  -> pipe \o Bytes(item)
        /\ Arrival
        /\ UNCHANGED <<plan, shut, pings, task, chan, got, ended>>

\* WsWriter::maintain.
Maintain ==
    /\ plan.via = "ws" /\ plan.keep /\ ~shut /\ pings < MaxPings
    /\ pings' = pings + 1
    /\ pipe' = Append(pipe, Message("ping", <<>>))
    /\ Arrival
    /\ UNCHANGED <<plan, sent, shut, task, chan, got, ended>>

\* StreamWriter::close, WsWriter::close, or the end of the QUIC stream.
Shutdown ==
    /\ ~shut /\ sent = Len(plan.items)
    /\ shut' = TRUE
    /\ pipe' = IF plan.via = "ws" THEN Append(pipe, Message("close", <<>>)) ELSE pipe
    /\ Arrival
    /\ UNCHANGED <<plan, sent, pings, task, chan, got, ended>>

\* Or the connection goes away without a word.
Break ==
    /\ plan.via = "ws" /\ ~shut /\ sent = Len(plan.items)
    /\ shut' = TRUE
    /\ Arrival
    /\ UNCHANGED <<plan, sent, pings, pipe, task, chan, got, ended>>

\* The network.
ByteArrives ==
    /\ plan.via # "ws" /\ pipe # <<>>
    /\ arrived' = Append(arrived, pipe[1])
    /\ pipe' = Tail(pipe)
    /\ UNCHANGED <<plan, sent, shut, pings, held, reader, parcel, chan, got, ended, timing>>

AtEof == shut /\ pipe = <<>>

-----------------------------------------------------------------------------
(* The reader of a byte stream.                                               *)

recv_record(b) ==
    Then(VarIntDecode(b), LAMBDA n : IF n.v > MaxRecord THEN Bad ELSE Take(n.rest, n.v))

Limit(t) == IF t \in StreamTypes THEN MAX_FRAME_PAYLOAD ELSE MAX_FRAME_SIZE

\* The end of a frame of type t whose integers have been read.
Delimited(t, b) ==
    CASE Payload(t) = "none" -> Ok(<<>>, b)
      [] Payload(t) = "rest" -> Bad
      [] Payload(t) = "len"  -> Then(VarIntDecode(b), LAMBDA n : IF n.v > Limit(t) THEN Bad ELSE Take(n.rest, n.v))

\* Mutant: the field that only CONNECTION_CLOSE has is not read.
recv_qmux00_frame_SkipsFrameType(b) ==
    Then(VarIntDecode(b), LAMBDA t :
        IF ~Known(t.v) \/ t.v \in {36, 48} THEN Bad
        ELSE Then(VarInts(t.rest, IF t.v = 28 THEN 1 ELSE Arity(t.v)), LAMBDA v :
             Then(Delimited(t.v, v.rest), LAMBDA d : Ok(First(b, Len(b) - Len(d.rest)), d.rest))))

\* The frame is delimited field by field and handed on as it came.
recv_qmux00_frame(b) ==
    Then(VarIntDecode(b), LAMBDA t :
        IF ~Known(t.v) \/ t.v \in {36, 48} THEN Bad
        ELSE Then(VarInts(t.rest, Arity(t.v)), LAMBDA v :
             Then(Delimited(t.v, v.rest), LAMBDA d : Ok(First(b, Len(b) - Len(d.rest)), d.rest))))

Failure == [s |-> "bad"]

\* reader_loop, up to the send.
Cut    == IF uses_records(plan.version) THEN recv_record(arrived) ELSE recv_qmux00_frame(arrived)
CanCut == plan.via = "tcp" /\ reader = "reading" /\ (AtEof \/ Cut.s # "end")
ReaderLoop ==
    /\ plan.via = "tcp" /\ reader = "reading"
    /\ \E r \in {Cut} :
          \/ /\ r.s = "ok"
             /\ arrived' = r.rest
             /\ parcel' = Ok(r.v, <<>>)
          \/ /\ r.s = "bad" \/ (r.s = "end" /\ AtEof)
             /\ arrived' = arrived
             /\ parcel' = Failure
    /\ reader' = "sending"
    /\ UNCHANGED <<plan, sent, shut, pings, pipe, held, chan, got, ended, timing>>

\* Mutant: an error is skipped and the task goes on reading.
Deliver_Skips ==
    /\ reader = "sending" /\ Len(chan) < Capacity
    /\ chan' = IF parcel.s = "ok" THEN Append(chan, parcel) ELSE chan
    /\ reader' = "reading"
    /\ since' = 0
    /\ silent' = 0
    /\ UNCHANGED <<plan, sent, shut, pings, pipe, arrived, held, parcel, got, ended, timedOut>>

\* Mutant: the wait for room is charged to the peer.
Deliver_NoReset ==
    /\ reader = "sending" /\ Len(chan) < Capacity
    /\ chan' = Append(chan, parcel)
    /\ reader' = IF parcel.s = "ok" THEN "reading" ELSE "done"
    /\ silent' = 0
    /\ UNCHANGED <<plan, sent, shut, pings, pipe, arrived, held, parcel, got, ended, since, timedOut>>

\* The send waits for room; after an error the task is over.  Only the pump of
\* a WebSocket has a deadline to set again.
Deliver ==
    /\ reader = "sending" /\ Len(chan) < Capacity
    /\ chan' = Append(chan, parcel)
    /\ reader' = IF parcel.s = "ok" THEN "reading" ELSE "done"
    /\ since' = 0
    /\ silent' = 0
    /\ UNCHANGED <<plan, sent, shut, pings, pipe, arrived, held, parcel, got, ended, timedOut>>

\* The session takes what the reader sent and decodes it; the end of the channel
\* is that of the transport.
Decoded(r) == IF r.s = "ok" THEN got' = got \o r.v /\ ended' = ended ELSE got' = got /\ ended' = TRUE
SessionRecv ==
    /\ ~ended /\ (chan # <<>> \/ reader = "done")
    /\ chan' = IF chan # <<>> THEN Tail(chan) ELSE chan
    /\ \E r \in {IF chan = <<>> THEN Failure
                 ELSE Then(chan[1], LAMBDA c : SessionDecode(c.v, plan.version))} : Decoded(r)
    /\ UNCHANGED <<plan, sent, shut, pings, pipe, task, timing>>

-----------------------------------------------------------------------------
(* The pump of a WebSocket.                                                   *)

record_limit(d) == uses_records(plan.version) /\ Len(d) > MaxRecord

\* A message comes before the deadline and sets it again.
WsPump ==
    LET m == pipe[1]
    IN  /\ plan.via = "ws" /\ plan.dec = "rust" /\ reader = "reading" /\ pipe # <<>>
        /\ pipe' = Tail(pipe)
        /\ since' = 0
        /\ CASE m.k = "binary" -> /\ reader' = "sending"
                                  /\ parcel' = IF record_limit(m.d) THEN Failure ELSE Ok(m.d, <<>>)
             [] m.k = "close"  -> reader' = "sending" /\ parcel' = Failure
             [] OTHER          -> UNCHANGED <<reader, parcel>>
        /\ UNCHANGED <<plan, sent, shut, pings, arrived, held, chan, got, ended, silent, timedOut>>

WsTimeout ==
    /\ plan.via = "ws" /\ plan.dec = "rust" /\ plan.keep /\ reader = "reading"
    /\ pipe = <<>> /\ ~shut
    /\ since >= Timeout
    /\ reader' = "sending" /\ parcel' = Failure
    /\ timedOut' = TRUE
    /\ UNCHANGED <<plan, sent, shut, pings, pipe, arrived, held, chan, got, ended, since, silent>>

\* The socket ended.
WsEnds ==
    /\ plan.via = "ws" /\ plan.dec = "rust" /\ reader = "reading" /\ AtEof
    /\ reader' = "sending" /\ parcel' = Failure
    /\ UNCHANGED <<plan, sent, shut, pings, pipe, arrived, held, chan, got, ended, timing>>

Tick ==
    /\ plan.via = "ws" /\ plan.dec = "rust" /\ plan.keep /\ reader # "done"
    /\ since' = IF since > Timeout THEN since ELSE since + 1
    /\ silent' = IF reader = "reading" /\ pipe = <<>> /\ silent <= Timeout THEN silent + 1
                 ELSE IF reader = "reading" /\ pipe = <<>> THEN silent ELSE 0
    /\ UNCHANGED <<plan, sent, shut, pings, pipe, task, chan, got, ended, timedOut>>

-----------------------------------------------------------------------------
(* The JavaScript session hears of a message with no task in between.  A text *)
(* ends it, where the pump above takes no notice of one.                      *)

JsMessage(m) ==
    IF m.k = "ping" THEN Ok(<<>>, <<>>)
    ELSE IF m.k # "binary" \/ record_limit(m.d) THEN Failure
    ELSE JsSessionDecode(m.d, plan.version)

JsOnData ==
    /\ plan.via = "ws" /\ plan.dec = "js" /\ ~ended /\ pipe # <<>>
    /\ pipe' = Tail(pipe)
    /\ \E r \in {JsMessage(pipe[1])} : Decoded(r)
    /\ UNCHANGED <<plan, sent, shut, pings, task, chan, timing>>

JsOnClose ==
    /\ plan.via = "ws" /\ plan.dec = "js" /\ ~ended /\ AtEof
    /\ ended' = TRUE
    /\ UNCHANGED <<plan, sent, shut, pings, pipe, task, chan, got, timing>>

-----------------------------------------------------------------------------
(* The streams of HTTP/3 are read in place.                                   *)

H3Read(b) ==
    CASE plan.version = "settings" -> Then(H!SettingsRead(b), LAMBDA r : Ok(H!supports_webtransport(r.v), r.rest))
      [] plan.version = "request"  -> H!RequestRead(b)
      [] plan.version = "response" -> H!ResponseRead(b)
      [] plan.version = "bare"     -> H!CapsuleRead(b)
      [] plan.version = "codes"    ->
             Then(VarIntDecode(b), LAMBDA x : Then(H!error_from_http3(x.v), LAMBDA c : Ok(c.v, x.rest)))

CanRead == plan.via = "h3" /\ plan.version # "capsules" /\ ~ended /\ (AtEof \/ H3Read(arrived).s # "end")
H3Reads ==
    /\ plan.via = "h3" /\ plan.version # "capsules" /\ ~ended
    /\ \E r \in {H3Read(arrived)} :
          \/ /\ r.s = "ok"
             /\ got' = Append(got, r.v) /\ arrived' = r.rest /\ ended' = ended
          \/ /\ r.s = "bad" \/ (r.s = "end" /\ AtEof)
             /\ ended' = TRUE /\ UNCHANGED <<got, arrived>>
    /\ UNCHANGED <<plan, sent, shut, pings, pipe, held, reader, parcel, chan, timing>>

\* Http3CapsuleReader::read: a capsule of what is held, or else one more frame.
NextCapsule == IF held = <<>> THEN End ELSE H!CapsuleDecode(held)
CanReadCapsule ==
    /\ plan.via = "h3" /\ plan.version = "capsules" /\ ~ended
    /\ AtEof \/ NextCapsule.s # "end" \/ H!ReadDataFrame(arrived).s # "end"
CapsuleReads ==
    /\ plan.via = "h3" /\ plan.version = "capsules" /\ ~ended
    /\ \E c \in {NextCapsule}, d \in {H!ReadDataFrame(arrived)} :
          \/ /\ c.s = "ok"
             /\ got' = Append(got, c.v) /\ held' = c.rest /\ UNCHANGED <<arrived, ended>>
          \/ /\ c.s = "end" /\ d.s = "ok"
             /\ held' = held \o d.v /\ arrived' = d.rest /\ UNCHANGED <<got, ended>>
          \/ /\ \/ c.s = "bad"
                \/ c.s = "end" /\ d.s = "bad"
                \/ c.s = "end" /\ d.s = "end" /\ AtEof
             /\ ended' = TRUE /\ UNCHANGED <<got, held, arrived>>
    /\ UNCHANGED <<plan, sent, shut, pings, pipe, reader, parcel, chan, timing>>

-----------------------------------------------------------------------------

Init ==
    /\ \E i \in DOMAIN Plans : plan = Plans[i]
    /\ sent = 0 /\ shut = FALSE /\ pings = 0
    /\ pipe = <<>> /\ arrived = <<>> /\ held = <<>>
    /\ reader = "reading" /\ parcel = Failure
    /\ chan = <<>> /\ got = <<>> /\ ended = FALSE
    /\ since = 0 /\ silent = 0 /\ timedOut = FALSE

Sender  == Send \/ Maintain \/ Shutdown \/ Break
Network == ByteArrives
Reader  == ReaderLoop \/ Deliver \/ WsPump \/ WsTimeout \/ WsEnds
Session == SessionRecv \/ JsOnData \/ JsOnClose \/ H3Reads \/ CapsuleReads

Next == Sender \/ Network \/ Reader \/ Session \/ Tick

\* Something other than the clock and the keep-alive can happen.
Progress == Send \/ Shutdown \/ Break \/ Network \/ Reader \/ Session
Ready ==
    \/ ~shut
    \/ plan.via # "ws" /\ pipe # <<>>
    \/ CanCut
    \/ reader = "sending" /\ Len(chan) < Capacity
    \/ ~ended /\ (chan # <<>> \/ reader = "done")
    \/ plan.via = "ws" /\ (IF plan.dec = "js" THEN ~ended ELSE reader = "reading") /\ (pipe # <<>> \/ AtEof)
    \/ CanRead \/ CanReadCapsule

\* The sender gets to the end of its plan, the network delivers, the tasks run
\* and the session keeps receiving: while one of them can move, one does.  This
\* is WF_vars(Progress), with Ready for ENABLED Progress.
Fairness == []<>~Ready \/ []<><<Progress>>_vars

Spec == Init /\ [][Next]_vars /\ Fairness

-----------------------------------------------------------------------------
(* Properties.                                                                *)

\* The items up to the first that must end the session.
Good == LET bad == {i \in DOMAIN plan.items : plan.items[i].bad}
        IN  IF bad = {} THEN plan.items ELSE First(plan.items, (CHOOSE i \in bad : \A j \in bad : i <= j) - 1)
Expected == FlattenSeq([i \in DOMAIN Good |-> Good[i].means])

(* However the bytes are cut, whichever of the two implementations encodes and *)
(* whichever decodes, the session is handed exactly what was sent, in order    *)
(* (StreamWriter::send, reader_loop, Frame::decode, decodeQMuxOne,             *)
(* Http3CapsuleReader::read), and ends where the first thing outside the       *)
(* limits begins and no earlier.                                               *)
SameMeaning ==
    /\ IsPrefix(got, Expected)
    /\ ended /\ ~timedOut => got = Expected

(* The session hears of the end of the transport, after a full channel, a     *)
(* frame cut short, an oversized record or a silent WebSocket alike: the      *)
(* reader task always leaves a last word (reader_loop, ws_pump).              *)
EndHeard == <>ended

(* The pump of a WebSocket gives a peer up only after a whole timeout in      *)
(* which it was reading and nothing came: neither the wait for a slow session *)
(* nor a message that lies in the socket is charged to the peer (ws_pump).    *)
OnlySilenceKills == [][timedOut' /\ ~timedOut => silent >= Timeout]_vars
=============================================================================
