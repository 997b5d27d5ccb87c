------------------------------- MODULE Frames -------------------------------
(* The frames of QMux as bytes: the encoders and decoders of proto/frame.rs   *)
(* and proto/params.rs, and those of the JavaScript package, frame.ts.        *)
(*                                                                            *)
(* A frame is [k |-> kind, v |-> its integers in order, d |-> its payload].   *)
(* v is <<id, offset>> for a stream frame, <<id, code, final size>> for a     *)
(* reset, <<code>> for a close.  The d of "params" is a set of parameters, the*)
(* d of the other frames is bytes.                                            *)
EXTENDS WireBytes, TLC

Versions == {"webtransport", "qmux00", "qmux01", "qmux02"}

uses_records(version) == version \in {"qmux01", "qmux02"}

\* Identifiers above 32 bits, by their rank among the eight-byte integers.
QX_TRANSPORT_PARAMETERS == 2^30 + 10
QX_PING_REQUEST         == 2^30 + 20
QX_PING_RESPONSE        == 2^30 + 21
MAX_RECORD_SIZE_ID      == 2^30 + 30
APPLICATION_PROTOCOLS_ID == 2^30 + 40
DEFAULT_MAX_RECORD_SIZE == 16382

-----------------------------------------------------------------------------
(* Transport parameters: [n |-> the integers by identifier, at |-> whether    *)
(* reset_stream_at is there, p |-> the names of the application protocols].   *)

IntegerParams == <<1, 4, 5, 6, 7, 8, 9, 32, MAX_RECORD_SIZE_ID>>
Recognized    == Range(IntegerParams) \cup {29, APPLICATION_PROTOCOLS_ID}
is_forbidden_quic_v1(id) == id \in {0, 2, 3} \cup 10..16

NoParams == [n |-> [i \in Range(IntegerParams) |-> 0], at |-> FALSE, p |-> <<>>]

WriteParam(id, x) == IF x = 0 THEN <<>> ELSE VarInt(id) \o VarInt(Size(x)) \o VarInt(x)

EncodeIntegers(p) == FlattenSeq([i \in DOMAIN IntegerParams |-> WriteParam(IntegerParams[i], p.n[IntegerParams[i]])])
EncodeAt(p)       == IF p.at THEN VarInt(29) \o VarInt(0) ELSE <<>>
EncodeNames(p) ==
    LET value == FlattenSeq([i \in DOMAIN p.p |-> VarInt(Len(p.p[i])) \o p.p[i]])
    IN  IF p.p = <<>> THEN <<>> ELSE VarInt(APPLICATION_PROTOCOLS_ID) \o VarInt(Len(value)) \o value

EncodeParams(p)   == EncodeIntegers(p) \o EncodeAt(p) \o EncodeNames(p)
JsEncodeParams(p) == EncodeIntegers(p) \o EncodeAt(p)

DefaultParams == [NoParams EXCEPT !.n[MAX_RECORD_SIZE_ID] = DEFAULT_MAX_RECORD_SIZE]

\* The names, which must fill the value and be at least one.
RECURSIVE decode_protocols(_, _)
decode_protocols(b, names) ==
    IF b = <<>> THEN IF names = <<>> THEN Bad ELSE Ok(names, <<>>)
    ELSE Strict(Then(Prefixed(b), LAMBDA r : decode_protocols(r.rest, Append(names, r.v))))

\* One parameter applied to those read so far; Bad refuses the whole frame.
Exact(r) == IF r.s = "ok" /\ r.rest = <<>> THEN r ELSE Bad

TakeParam(id, value, p, seen) ==
    CASE id \in seen -> Bad
      [] id \notin seen /\ id = APPLICATION_PROTOCOLS_ID ->
           Then(decode_protocols(value, <<>>), LAMBDA r : Ok([p EXCEPT !.p = r.v], <<>>))
      [] id \notin seen /\ id = 29 -> IF value = <<>> THEN Ok([p EXCEPT !.at = TRUE], <<>>) ELSE Bad
      [] id \notin seen /\ id \in Range(IntegerParams) ->
           Then(Exact(VarIntDecode(value)), LAMBDA x : Ok([p EXCEPT !.n[id] = x.v], <<>>))
      [] is_forbidden_quic_v1(id) -> Bad
      [] OTHER -> Ok(p, <<>>)

\* The same in JavaScript, which runs over WebSocket only and refuses the
\* names of protocols there.
JsTakeParam(id, value, p, seen) ==
    IF id = APPLICATION_PROTOCOLS_ID THEN Bad ELSE TakeParam(id, value, p, seen)

RECURSIVE DecodeParamsFrom(_, _, _, _)
DecodeParamsFrom(b, p, seen, js) ==
    IF b = <<>> THEN Ok(p, <<>>)
    ELSE Then(VarIntDecode(b), LAMBDA id :
         Then(Prefixed(id.rest), LAMBDA body :
         Then(IF js THEN JsTakeParam(id.v, body.v, p, seen) ELSE TakeParam(id.v, body.v, p, seen), LAMBDA q :
              DecodeParamsFrom(body.rest, q.v, seen \cup ({id.v} \cap Recognized), js))))

DecodeParams(b)   == DecodeParamsFrom(b, DefaultParams, {}, FALSE)
JsDecodeParams(b) == DecodeParamsFrom(b, DefaultParams, {}, TRUE)

-----------------------------------------------------------------------------
(* The frame types, with the integers each carries and how its payload ends.  *)

StreamTypes == 8..15
has_off(t)  == (t \div 4) % 2 = 1
has_len(t)  == (t \div 2) % 2 = 1
has_fin(t)  == t % 2 = 1

\* kind |-> <<type, number of integers, payload>>
Layout ==
    ("padding" :> <<0, 0, "none">>) @@ ("reset" :> <<4, 3, "none">>) @@ ("stop" :> <<5, 2, "none">>) @@
    ("max_data" :> <<16, 1, "none">>) @@ ("max_stream_data" :> <<17, 2, "none">>) @@
    ("max_streams_bidi" :> <<18, 1, "none">>) @@ ("max_streams_uni" :> <<19, 1, "none">>) @@
    ("data_blocked" :> <<20, 1, "none">>) @@ ("stream_data_blocked" :> <<21, 2, "none">>) @@
    ("streams_blocked_bidi" :> <<22, 1, "none">>) @@ ("streams_blocked_uni" :> <<23, 1, "none">>) @@
    ("connection_close" :> <<28, 2, "len">>) @@ ("application_close" :> <<29, 1, "len">>) @@
    ("reset_at" :> <<36, 4, "none">>) @@
    ("datagram_rest" :> <<48, 0, "rest">>) @@ ("datagram" :> <<49, 0, "len">>) @@
    ("params" :> <<QX_TRANSPORT_PARAMETERS, 0, "len">>) @@
    ("ping" :> <<QX_PING_REQUEST, 1, "none">>) @@ ("pong" :> <<QX_PING_RESPONSE, 1, "none">>)

KindOf(t)  == {k \in DOMAIN Layout : Layout[k][1] = t}
Known(t)   == t \in StreamTypes \/ KindOf(t) # {}
Kind(t)    == IF t \in StreamTypes THEN (IF has_fin(t) THEN "fin" ELSE "stream") ELSE CHOOSE k \in KindOf(t) : TRUE
Arity(t)   == IF t \in StreamTypes THEN (IF has_off(t) THEN 2 ELSE 1) ELSE Layout[Kind(t)][2]
Payload(t) == IF t \in StreamTypes THEN (IF has_len(t) THEN "len" ELSE "rest") ELSE Layout[Kind(t)][3]

Frame(k, v, d) == [k |-> k, v |-> v, d |-> d]

-----------------------------------------------------------------------------
(* Encoding.                                                                  *)

Integers(s) == FlattenSeq([i \in DOMAIN s |-> VarInt(s[i])])
Lengthed(d) == VarInt(Len(d)) \o d

\* Always with an offset and a length.
encode_qmux(f) ==
    CASE f.k = "stream" -> VarInt(14) \o Integers(f.v) \o Lengthed(f.d)
      [] f.k = "fin"    -> VarInt(15) \o Integers(f.v) \o Lengthed(f.d)
      [] f.k = "connection_close" -> VarInt(28) \o Integers(f.v) \o VarInt(0) \o Lengthed(f.d)
      [] f.k = "params" -> VarInt(QX_TRANSPORT_PARAMETERS) \o Lengthed(EncodeParams(f.d))
      [] OTHER -> VarInt(Layout[f.k][1]) \o Integers(f.v) \o
                  (IF Layout[f.k][3] = "len" THEN Lengthed(f.d) ELSE <<>>)

\* The legacy format: no offset, no length, no final size.
WtKinds == {"stream", "fin", "reset", "stop", "connection_close", "application_close"}
WtType(k) == CASE k = "stream" -> 8 [] k = "fin" -> 9 [] k = "reset" -> 4 [] k = "stop" -> 5
               [] k = "connection_close" -> 28 [] k = "application_close" -> 29
WtArity(k) == IF k \in {"reset", "stop"} THEN 2 ELSE 1

encode_wt(f) == <<WtType(f.k)>> \o Integers(First(f.v, WtArity(f.k))) \o f.d

\* Frame::encode.  Refused: what the version has no bytes for.
Encodable(f, version) ==
    /\ f.k \in {"ping", "pong", "datagram"} => uses_records(version)
    /\ version = "webtransport" => f.k \in WtKinds
Encode(f, version) == IF version = "webtransport" THEN encode_wt(f) ELSE encode_qmux(f)

JsEncodeWebTransport(f) == <<WtType(f.k)>> \o Integers(First(f.v, WtArity(f.k))) \o f.d
JsEncodeQMux(f) ==
    CASE f.k \in {"stream", "fin"} -> JsVarInt(14 + (IF f.k = "fin" THEN 1 ELSE 0)) \o Integers(f.v) \o Lengthed(f.d)
      [] f.k = "connection_close" -> JsVarInt(28) \o Integers(f.v) \o JsVarInt(0) \o Lengthed(f.d)
      [] f.k = "params" -> JsVarInt(QX_TRANSPORT_PARAMETERS) \o Lengthed(JsEncodeParams(f.d))
      [] OTHER -> JsVarInt(Layout[f.k][1]) \o Integers(f.v) \o
                  (IF Layout[f.k][3] = "len" THEN Lengthed(f.d) ELSE <<>>)
JsEncode(f, version) == IF version = "webtransport" THEN JsEncodeWebTransport(f) ELSE JsEncodeQMux(f)

-----------------------------------------------------------------------------
(* Decoding a frame from a buffer that holds all of it.                       *)

\* The integers of a frame as the decoder keeps them.
Kept(t, v) ==
    CASE t \in StreamTypes /\ ~has_off(t) -> <<v[1], 0>>
      [] t = 28 -> <<v[1]>>
      [] OTHER  -> v

Meaning(t, v, d, js) ==
    CASE t = 36 /\ v[4] > v[3] -> Bad
      [] t = 36 /\ v[4] <= v[3] -> Ok(Frame("reset_at", v, d), <<>>)
      [] Kind(t) = "params" -> 
           Then(IF js THEN JsDecodeParams(d) ELSE DecodeParams(d), LAMBDA p : Ok(Frame("params", v, p.v), <<>>))
      [] Kind(t) = "datagram_rest" -> Ok(Frame("datagram", v, d), <<>>)
      [] OTHER -> Ok(Frame(Kind(t), Kept(t, v), d), <<>>)

PayloadAt(t, b) ==
    CASE Payload(t) = "none" -> Ok(<<>>, b)
      [] Payload(t) = "len"  -> Prefixed(b)
      [] Payload(t) = "rest" -> Ok(b, <<>>)

DecodeOne(b, js) ==
    Strict(Then(IF js THEN JsVarIntDecode(b) ELSE VarIntDecode(b), LAMBDA t :
        IF ~Known(t.v) THEN Bad
        ELSE Then(VarInts(t.rest, Arity(t.v)), LAMBDA v :
             Then(PayloadAt(t.v, v.rest), LAMBDA d :
             Then(Meaning(t.v, v.v, d.v, js), LAMBDA m : Ok(m.v, d.rest))))))

decode_qmux_one(b) == DecodeOne(b, FALSE)
JsDecodeQMuxOne(b) == DecodeOne(b, TRUE)

NoPadding(f) == IF f.k = "padding" THEN <<>> ELSE <<f>>

\* All the frames of a record, padding dropped; nothing if one is malformed.
RECURSIVE DecodeAll(_, _)
DecodeAll(b, js) ==
    IF b = <<>> THEN Ok(<<>>, <<>>)
    ELSE Then(IF js THEN JsDecodeQMuxOne(b) ELSE decode_qmux_one(b), LAMBDA r :
         Then(DecodeAll(r.rest, js), LAMBDA more : Ok(NoPadding(r.v) \o more.v, <<>>)))

\* What follows the frame in the message is not looked at.
DecodeFirst(b, js) == Then(DecodeOne(b, js), LAMBDA r : Ok(NoPadding(r.v), <<>>))

decode_record(b)   == DecodeAll(b, FALSE)
decode_qmux(b)     == DecodeFirst(b, FALSE)

WtKept(k, v) == CASE k \in {"stream", "fin"} -> <<v[1], 0>> [] k = "reset" -> Append(v, 0) [] OTHER -> v
WtFrame(k, b) ==
    Then(VarInts(b, WtArity(k)), LAMBDA v :
        Ok(<<Frame(k, WtKept(k, v.v), IF k \in {"reset", "stop"} THEN <<>> ELSE v.rest)>>, <<>>))

decode_wt(b) ==
    IF \A k \in WtKinds : WtType(k) # b[1] THEN Bad
    ELSE Strict(WtFrame(CHOOSE k \in WtKinds : WtType(k) = b[1], After(b, 1)))

Decode(b, version) ==
    IF b = <<>> THEN Bad ELSE IF version = "webtransport" THEN decode_wt(b) ELSE decode_qmux(b)

JsDecodeRecord(b)  == DecodeAll(b, TRUE)
JsDecodeQMux(b)    == DecodeFirst(b, TRUE)
JsDecodeWebTransport(b) == decode_wt(b)
JsDecode(b, version) ==
    IF b = <<>> THEN Bad ELSE IF version = "webtransport" THEN JsDecodeWebTransport(b) ELSE JsDecodeQMux(b)

\* What the session makes of a message: the frames of it, or the end.
SessionDecode(b, version)   == IF uses_records(version) THEN decode_record(b) ELSE Decode(b, version)
JsSessionDecode(b, version) == IF uses_records(version) THEN JsDecodeRecord(b) ELSE JsDecode(b, version)
=============================================================================
