------------------------------- MODULE H3Wire -------------------------------
(* What WebTransport says over HTTP/3, as bytes (the web-transport-proto      *)
(* crate): the SETTINGS of the control streams, the CONNECT request and its   *)
(* answer in QPACK, the capsules of the CONNECT stream and the error codes.   *)
(*                                                                            *)
(* A decoder returns End while the bytes of what it reads are not all there:  *)
(* the read functions wait then for more.  Texts are short byte strings.      *)
EXTENDS WireBytes, TLC

\* Bounds every frame and every capsule.
MAX_FRAME_SIZE == 65536

\* A map is written in an order of its own, which no reader depends on.
RECURSIVE Listed(_)
Listed(S) == IF S = {} THEN <<>> ELSE LET x == CHOOSE y \in S : TRUE IN <<x>> \o Listed(S \ {x})

is_grease(x) == x >= 33 /\ (x - 33) % 31 = 0

DATA == 0
HEADERS == 1
SETTINGS == 4
CONTROL == 0

H3Frame(t, payload) == VarInt(t) \o VarInt(Len(payload)) \o payload

\* The next frame of type want, reserved ones skipped; any other is an error.
RECURSIVE ReadFrame(_, _)
ReadFrame(b, want) ==
    Then(VarInts(b, 2), LAMBDA h :
        IF h.v[2] > MAX_FRAME_SIZE THEN Bad
        ELSE Then(Take(h.rest, h.v[2]), LAMBDA f :
             IF is_grease(h.v[1]) THEN ReadFrame(f.rest, want) ELSE IF h.v[1] = want THEN f ELSE Bad))

-----------------------------------------------------------------------------
(* SETTINGS, a function of identifiers.                                       *)

ENABLE_CONNECT_PROTOCOL              == 8
ENABLE_DATAGRAM                      == 51
ENABLE_DATAGRAM_DEPRECATED           == 16765559
WEBTRANSPORT_ENABLE_DEPRECATED       == 727725890
WEBTRANSPORT_MAX_SESSIONS_DEPRECATED == 727725891
WEBTRANSPORT_MAX_SESSIONS            == 2^30 + 50       \* 0xc671706a

enable_webtransport(max) ==
    (ENABLE_CONNECT_PROTOCOL :> 1) @@ (ENABLE_DATAGRAM :> 1) @@ (ENABLE_DATAGRAM_DEPRECATED :> 1) @@
    (WEBTRANSPORT_MAX_SESSIONS :> max) @@ (WEBTRANSPORT_MAX_SESSIONS_DEPRECATED :> max) @@
    (WEBTRANSPORT_ENABLE_DEPRECATED :> 1)

SettingsEncode(s) ==
    LET ids == Listed(DOMAIN s)
    IN  VarInt(CONTROL) \o H3Frame(SETTINGS, FlattenSeq([i \in DOMAIN ids |-> VarInt(ids[i]) \o VarInt(s[ids[i]])]))

RECURSIVE SettingsMap(_, _)
SettingsMap(b, s) ==
    IF b = <<>> THEN Ok(s, <<>>)
    ELSE Strict(Then(VarInts(b, 2), LAMBDA kv :
             SettingsMap(kv.rest, IF is_grease(kv.v[1]) THEN s ELSE (kv.v[1] :> kv.v[2]) @@ s)))

SettingsRead(b) ==
    Then(VarIntDecode(b), LAMBDA t :
        IF t.v # CONTROL THEN Bad
        ELSE Then(ReadFrame(t.rest, SETTINGS), LAMBDA f :
             Then(SettingsMap(f.v, <<>>), LAMBDA m : Ok(m.v, f.rest))))

\* The sessions the peer takes; 0 when it has no WebTransport.
supports_webtransport(s) ==
    LET has(id)  == id \in DOMAIN s
        datagram == IF has(ENABLE_DATAGRAM) THEN s[ENABLE_DATAGRAM]
                    ELSE IF has(ENABLE_DATAGRAM_DEPRECATED) THEN s[ENABLE_DATAGRAM_DEPRECATED] ELSE 0
    IN  IF datagram # 1 THEN 0
        ELSE IF has(WEBTRANSPORT_MAX_SESSIONS) THEN s[WEBTRANSPORT_MAX_SESSIONS]
        ELSE IF ~has(WEBTRANSPORT_ENABLE_DEPRECATED) \/ s[WEBTRANSPORT_ENABLE_DEPRECATED] # 1 THEN 0
        ELSE IF has(WEBTRANSPORT_MAX_SESSIONS_DEPRECATED) THEN s[WEBTRANSPORT_MAX_SESSIONS_DEPRECATED] ELSE 1

-----------------------------------------------------------------------------
(* QPACK without the dynamic table: a set of headers is a function of names.  *)

Method    == <<58, 109>>
Scheme    == <<58, 115>>
Authority == <<58, 97>>
Path      == <<58, 112>>
Protocol  == <<58, 114>>
Status    == <<58, 116>>
AvailableName == <<119, 97>>
SelectedName  == <<119, 112>>
DraftName     == <<119, 100>>
Connect      == <<67>>
Https        == <<104>>
WebTransport == <<119>>
Root         == <<47>>
Draft02      == <<48, 50>>
Pseudo(name) == name[1] = 58

\* The lines of the static table that these headers can meet.
StaticTable ==
    (0 :> <<Authority, <<>>>>) @@ (1 :> <<Path, Root>>) @@ (15 :> <<Method, Connect>>) @@
    (22 :> <<Scheme, <<112>>>>) @@ (23 :> <<Scheme, Https>>) @@ (24 :> <<Status, <<49, 48, 51>>>>) @@
    (25 :> <<Status, <<50, 48, 48>>>>) @@ (27 :> <<Status, <<52, 48, 52>>>>) @@
    (64 :> <<Status, <<50, 48, 52>>>>)

Find(name, value) == {i \in DOMAIN StaticTable : StaticTable[i] = <<name, value>>}
FindName(name)    == {i \in DOMAIN StaticTable : StaticTable[i][1] = name}
Least(S)          == CHOOSE i \in S : \A j \in S : i <= j

EncodeHeader(name, value) ==
    IF Find(name, value) # {} THEN EncodePrefix(6, 3, Least(Find(name, value)))
    ELSE IF FindName(name) # {} THEN EncodePrefix(4, 5, Least(FindName(name))) \o EncodePrefix(7, 0, Len(value)) \o value
    ELSE EncodePrefix(3, 4, Len(name)) \o name \o EncodePrefix(7, 0, Len(value)) \o value

HeadersEncode(h) ==
    LET names == Listed({n \in DOMAIN h : Pseudo(n)}) \o Listed({n \in DOMAIN h : ~Pseudo(n)})
    IN  EncodePrefix(8, 0, 0) \o EncodePrefix(7, 0, 0) \o
        FlattenSeq([i \in DOMAIN names |-> EncodeHeader(names[i], h[names[i]])])

\* One line: <<name, value>>.
DecodeIndex(b) ==
    Then(DecodePrefix(b, 6), LAMBDA i :
        IF i.v[2] \in DOMAIN StaticTable THEN Ok(StaticTable[i.v[2]], i.rest) ELSE Bad)

DecodeLiteralValue(b) ==
    Then(DecodePrefix(b, 4), LAMBDA i :
        IF i.v[2] \notin DOMAIN StaticTable THEN Bad
        ELSE Then(DecodeString(i.rest, 8), LAMBDA v : Ok(<<StaticTable[i.v[2]][1], v.v>>, v.rest)))

DecodeLiteral(b) ==
    Then(DecodeString(b, 4), LAMBDA n :
        Then(DecodeString(n.rest, 8), LAMBDA v : Ok(<<n.v, v.v>>, v.rest)))

\* The first bits tell the forms apart; the dynamic table is refused.
DecodeLine(b) ==
    CASE b[1] \div 64 = 3 -> DecodeIndex(b)
      [] b[1] \div 64 = 2 -> Bad
      [] b[1] \div 64 = 1 -> IF (b[1] \div 16) % 2 = 1 THEN DecodeLiteralValue(b) ELSE Bad
      [] OTHER -> IF b[1] \div 32 = 1 THEN DecodeLiteral(b) ELSE Bad

RECURSIVE HeaderLines(_, _)
HeaderLines(b, h) ==
    IF b = <<>> THEN Ok(h, <<>>)
    ELSE Then(DecodeLine(b), LAMBDA line : HeaderLines(line.rest, (line.v[1] :> line.v[2]) @@ h))

HeadersDecode(b) ==
    Strict(Then(DecodePrefix(b, 8), LAMBDA count :
           Then(DecodePrefix(count.rest, 7), LAMBDA base : HeaderLines(base.rest, <<>>))))

-----------------------------------------------------------------------------
(* The CONNECT request and its answer.                                        *)

\* Structured fields (the sfv crate): strings in quotes.
SfvList(names) == FlattenSeq([i \in DOMAIN names |-> <<34>> \o names[i] \o <<34>>])
RECURSIVE SfvParse(_)
SfvParse(b) ==
    IF b = <<>> THEN <<>>
    ELSE LET q == Least({i \in 2..Len(b) : b[i] = 34}) IN <<SubSeq(b, 2, q - 1)>> \o SfvParse(After(b, q))

Request(authority, path, protocols, headers) ==
    [a |-> authority, p |-> path, protocols |-> protocols, h |-> headers]

RequestHeaders(r) ==
    (IF r.protocols = <<>> THEN <<>> ELSE AvailableName :> SfvList(r.protocols)) @@
    (Method :> Connect) @@ (Scheme :> Https) @@ (Authority :> r.a) @@ (Path :> r.p) @@ (Protocol :> WebTransport) @@
    [n \in DOMAIN r.h \ {AvailableName} |-> r.h[n]]
RequestEncode(r) == H3Frame(HEADERS, HeadersEncode(RequestHeaders(r)))

\* The checks, in the order the code makes them.
RequestOf(h) ==
    LET is(n, v) == n \in DOMAIN h /\ h[n] = v
    IN  IF /\ is(Scheme, Https)
           /\ Authority \in DOMAIN h
           /\ Path \in DOMAIN h
           /\ is(Method, Connect)
           /\ is(Protocol, WebTransport)
        THEN Ok(Request(h[Authority], h[Path],
                        IF AvailableName \in DOMAIN h THEN SfvParse(h[AvailableName]) ELSE <<>>,
                        [n \in {x \in DOMAIN h : ~Pseudo(x) /\ x # AvailableName} |-> h[n]]), <<>>)
        ELSE Bad

RequestRead(b) ==
    Then(ReadFrame(b, HEADERS), LAMBDA f :
    Then(HeadersDecode(f.v), LAMBDA h :
    Then(RequestOf(h.v), LAMBDA r : Ok(r.v, f.rest))))

Response(status, protocol) == [status |-> status, protocol |-> protocol]   \* protocol: <<>> or <<name>>

ResponseEncode(r) ==
    H3Frame(HEADERS, HeadersEncode(
        (Status :> r.status) @@ (DraftName :> Draft02) @@
        (IF r.protocol = <<>> THEN <<>> ELSE SelectedName :> SfvList(r.protocol))))

ResponseOf(h) ==
    IF Status \in DOMAIN h /\ h[Status][1] = 50
    THEN Ok(Response(h[Status], IF SelectedName \in DOMAIN h THEN SfvParse(h[SelectedName]) ELSE <<>>), <<>>)
    ELSE Bad

ResponseRead(b) ==
    Then(ReadFrame(b, HEADERS), LAMBDA f :
    Then(HeadersDecode(f.v), LAMBDA h :
    Then(ResponseOf(h.v), LAMBDA r : Ok(r.v, f.rest))))

-----------------------------------------------------------------------------
(* Capsules: [k |-> "close" | "grease" | "unknown", n |-> number, d |-> bytes]. *)

CLOSE_WEBTRANSPORT_SESSION_TYPE == 10307
Capsule(k, n, d) == [k |-> k, n |-> n, d |-> d]
is_grease_capsule(x) == x >= 23 /\ (x - 23) % 41 = 0

CapsuleEncode(c) ==
    CASE c.k = "close"   -> VarInt(CLOSE_WEBTRANSPORT_SESSION_TYPE) \o VarInt(4 + Len(c.d)) \o BigEndian(c.n, 4) \o c.d
      [] c.k = "grease"  -> VarInt(41 * c.n + 23) \o VarInt(0)
      [] c.k = "unknown" -> VarInt(c.n) \o VarInt(Len(c.d)) \o c.d

CapsuleOf(t, d) ==
    IF is_grease_capsule(t) THEN Capsule("grease", (t - 23) \div 41, <<>>)
    ELSE IF t = CLOSE_WEBTRANSPORT_SESSION_TYPE THEN Capsule("close", Number(First(d, 4)), After(d, 4))
    ELSE Capsule("unknown", t, d)

\* short: what a close that cannot hold its code is taken for.
CapsuleAt(b, short) ==
    Then(VarInts(b, 2), LAMBDA h :
        IF h.v[2] > MAX_FRAME_SIZE THEN Bad
        ELSE Then(Take(h.rest, h.v[2]), LAMBDA d :
             IF h.v[1] = CLOSE_WEBTRANSPORT_SESSION_TYPE /\ h.v[2] < 4 THEN short
             ELSE Ok(CapsuleOf(h.v[1], d.v), d.rest)))

\* From a buffer, it looks cut short; straight from the stream, it is an error.
CapsuleDecode(b) == CapsuleAt(b, End)
CapsuleRead(b)   == CapsuleAt(b, Bad)

\* The payload of the next DATA frame; the others are skipped.
RECURSIVE ReadDataFrame(_)
ReadDataFrame(b) ==
    Then(VarInts(b, 2), LAMBDA h :
        IF h.v[2] > MAX_FRAME_SIZE THEN Bad
        ELSE Then(Take(h.rest, h.v[2]), LAMBDA d : IF h.v[1] = DATA THEN d ELSE ReadDataFrame(d.rest)))

-----------------------------------------------------------------------------
(* Application error codes among those of HTTP/3.                             *)

\* The code points of ErrorCodes within TLC's integers.
Codes == INSTANCE ErrorCodes WITH
    ERROR_FIRST <- 2^30 + 1000, ERROR_LAST <- 2^30 + 1000 + 1999500, MaxCode <- 1935000

error_to_http3(code) == Codes!error_to_http3(code)
error_from_http3(code) ==
    IF Codes!error_from_http3(code) = Codes!NoCode THEN Bad
    ELSE Ok(Codes!error_from_http3(code), <<>>)
=============================================================================
