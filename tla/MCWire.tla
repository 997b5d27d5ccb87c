------------------------------- MODULE MCWire -------------------------------
(* The plans of Wire: every kind of frame through every pair of an encoder and *)
(* a decoder, with integers on both sides of the boundaries of their sizes,    *)
(* the forms that only other implementations send, what must be refused, and   *)
(* the streams of HTTP/3.                                                      *)
EXTENDS Wire

Item(by, f, raw, means, bad) == [by |-> by, f |-> f, raw |-> raw, means |-> means, bad |-> bad]
Peer(raw, means) == Item("peer", 0, raw, means, FALSE)
Malformed(raw)   == Item("peer", 0, raw, <<>>, TRUE)
Plan(via, version, dec, items, keep) ==
    [via |-> via, version |-> version, dec |-> dec, items |-> items, keep |-> keep]

Bytes3   == <<8, 64, 200>>
Zeros(n) == [i \in 1..n |-> 0]

Params == [n |-> [i \in Range(IntegerParams) |-> IF i = MAX_RECORD_SIZE_ID THEN 16384 ELSE IF i = 32 THEN 0 ELSE i * 13],
           at |-> TRUE, p |-> <<>>]

Groups ==
    << <<Frame("stream", <<4, 0>>, Bytes3), Frame("fin", <<64, 16384>>, <<>>), Frame("connection_close", <<63>>, <<65>>)>>,
       <<Frame("reset", <<64, 5, 16383>>, <<>>), Frame("stop", <<3, 16384>>, <<>>), Frame("application_close", <<7>>, Bytes3)>>,
       <<Frame("max_data", <<16384>>, <<>>), Frame("max_stream_data", <<64, 63>>, <<>>),
         Frame("max_streams_bidi", <<64>>, <<>>), Frame("max_streams_uni", <<2>>, <<>>)>>,
       <<Frame("data_blocked", <<63>>, <<>>), Frame("stream_data_blocked", <<1, 64>>, <<>>),
         Frame("streams_blocked_bidi", <<64>>, <<>>), Frame("streams_blocked_uni", <<1>>, <<>>)>>,
       <<Frame("params", <<>>, Params), Frame("stream", <<0, 64>>, <<0>>)>>,
       <<Frame("ping", <<64>>, <<>>), Frame("pong", <<3>>, <<>>), Frame("datagram", <<>>, Bytes3)>> >>

Sent(by, frames) == [i \in DOMAIN frames |-> Item(by, frames[i], <<>>, <<frames[i]>>, FALSE)]

\* Every group through tcp and through the pairs of a WebSocket.
Pairs == <<<<"rust", "rust", "tcp">>, <<"rust", "rust", "ws">>, <<"rust", "js", "ws">>, <<"js", "rust", "ws">>>>
Ordinary ==
    FlattenSeq([v \in 1..3 |->
      FlattenSeq([p \in DOMAIN Pairs |->
        [g \in 1..(IF v = 1 THEN 5 ELSE 6) |->
           Plan(Pairs[p][3], <<"qmux00", "qmux01", "qmux02">>[v], Pairs[p][2], Sent(Pairs[p][1], Groups[g]), g = 1)]])])

\* The legacy format keeps no offset and no final size.
LegacyItems(by) ==
    << Item(by, Frame("stream", <<64, 9>>, Bytes3), <<>>, <<Frame("stream", <<64, 0>>, Bytes3)>>, FALSE),
       Item(by, Frame("reset", <<4, 7, 9>>, <<>>), <<>>, <<Frame("reset", <<4, 7, 0>>, <<>>)>>, FALSE),
       Item(by, Frame("stop", <<4, 64>>, <<>>), <<>>, <<Frame("stop", <<4, 64>>, <<>>)>>, FALSE),
       Item(by, Frame("fin", <<4, 9>>, <<>>), <<>>, <<Frame("fin", <<4, 0>>, <<>>)>>, FALSE),
       Item(by, Frame("application_close", <<64>>, <<65>>), <<>>, <<Frame("application_close", <<64>>, <<65>>)>>, FALSE) >>
Legacy == << Plan("ws", "webtransport", "rust", LegacyItems("rust"), FALSE),
             Plan("ws", "webtransport", "js", LegacyItems("rust"), FALSE),
             Plan("ws", "webtransport", "rust", LegacyItems("js"), TRUE),
             Plan("ws", "webtransport", "rust", <<Item("rust", Frame("max_data", <<1>>, <<>>), <<>>, <<>>, FALSE)>>, FALSE),
             Plan("ws", "webtransport", "rust", <<Malformed(<<>>)>>, FALSE),
             Plan("ws", "webtransport", "js", <<Malformed(<<7, 1>>)>>, FALSE) >>

Record(parts) == FlattenSeq(parts)

\* What another implementation of QMux may send in a record.
Foreign ==
    << Peer(Record(<<<<0, 0>>, <<16, 64, 64>>, <<0>>, <<8, 4, 1, 2, 3>>>>),
            <<Frame("max_data", <<64>>, <<>>), Frame("stream", <<4, 0>>, <<1, 2, 3>>)>>),
       Peer(Record(<<<<13, 4, 63, 7>>>>), <<Frame("fin", <<4, 63>>, <<7>>)>>),
       Peer(Record(<<<<10, 0, 1, 9>>, <<48, 5, 6>>>>), <<Frame("stream", <<0, 0>>, <<9>>), Frame("datagram", <<>>, <<5, 6>>)>>),
       Peer(<<36, 4, 1, 9, 9>>, <<Frame("reset_at", <<4, 1, 9, 9>>, <<>>)>>) >>

ParamBytes(parts) == VarInt(QX_TRANSPORT_PARAMETERS) \o Lengthed(FlattenSeq(parts))
Extension == ParamBytes(<<<<4, 1, 9>>, <<63, 2, 0, 0>>, <<63, 0>>>>)
Names == [DefaultParams EXCEPT !.p = <<<<97>>, <<98, 99>>>>]

MalformedRecords ==
    << <<36, 4, 1, 8, 9>>, <<14, 4, 0, 3, 1>>, <<33>>, <<16>>, <<64>>,
       ParamBytes(<<<<4, 1, 9>>, <<4, 1, 9>>>>), ParamBytes(<<<<10, 1, 9>>>>), ParamBytes(<<<<29, 1, 0>>>>),
       ParamBytes(<<<<4, 2, 9, 9>>>>), ParamBytes(<<<<4, 3, 9>>>>), Zeros(61) >>

Others ==
    FlattenSeq([d \in 1..2 |->
        LET dec == <<"rust", "js">>[d]
        IN  << Plan("ws", "qmux02", dec, Foreign, FALSE),
               Plan("ws", "qmux01", dec, <<Peer(Extension, <<Frame("params", <<>>, [DefaultParams EXCEPT !.n[4] = 9])>>),
                                           Peer(Zeros(60), <<>>)>>, FALSE) >> \o
            [i \in DOMAIN MalformedRecords |->
                Plan("ws", "qmux02", dec, <<Peer(<<16, 1>>, <<Frame("max_data", <<1>>, <<>>)>>),
                                            Malformed(MalformedRecords[i]), Peer(<<16, 2>>, <<>>)>>, FALSE)]]) \o
    << Plan("tcp", "qmux02", "rust", Foreign, FALSE),
       Plan("tcp", "qmux01", "rust", <<Item("rust", Frame("params", <<>>, Names), <<>>, <<Frame("params", <<>>, Names)>>, FALSE),
                                       Peer(Zeros(60), <<>>), Malformed(Zeros(61))>>, FALSE),
       Plan("ws", "qmux01", "js", <<Item("rust", Frame("params", <<>>, Names), <<>>, <<>>, TRUE)>>, FALSE),
       Plan("ws", "qmux01", "rust", <<Item("text", 0, <<>>, <<>>, FALSE), Item("rust", Groups[6][1], <<>>, <<Groups[6][1]>>, FALSE)>>, TRUE),
       Plan("ws", "qmux01", "js", <<Item("text", 0, <<>>, <<>>, TRUE)>>, FALSE) >>

\* Draft-00 on a byte stream, where a frame must tell its own end.
ByteStream ==
    << Plan("tcp", "qmux00", "rust", <<Peer(<<0>>, <<>>), Peer(<<10, 4, 2, 1, 2>>, <<Frame("stream", <<4, 0>>, <<1, 2>>)>>),
                                       Item("rust", Groups[6][1], <<>>, <<>>, FALSE), Malformed(<<8, 4, 1, 2>>)>>, FALSE),
       Plan("tcp", "qmux00", "rust", <<Peer(<<49, 1, 5>>, <<Frame("datagram", <<>>, <<5>>)>>), Malformed(<<48, 5>>)>>, FALSE),
       Plan("tcp", "qmux00", "rust", <<Malformed(<<36, 4, 1, 9, 9>>)>>, FALSE),
       Plan("tcp", "qmux00", "rust", <<Malformed(<<14, 4, 0>> \o VarInt(MAX_FRAME_PAYLOAD + 1) \o <<1>>)>>, FALSE),
       Plan("tcp", "qmux00", "rust", <<Malformed(<<29, 4>> \o VarInt(MAX_FRAME_SIZE + 1) \o <<1>>)>>, FALSE),
       Plan("tcp", "qmux00", "rust", <<Peer(<<16, 9>>, <<Frame("max_data", <<9>>, <<>>)>>), Malformed(<<14, 4, 0, 3, 1>>)>>, FALSE) >>

H3Item(x, means)   == Item("h3", x, <<>>, <<means>>, FALSE)
H3Good(x)          == H3Item(x, x)
H3(what, items)    == Plan("h3", what, "rust", items, FALSE)
Grease             == H!H3Frame(33 + 31, <<9>>)
Two                == <<<<97>>, <<98, 99>>>>
Long(n)            == [i \in 1..n |-> 97]
Cookie             == <<99, 107>>
Chrome             == (51 :> 1) @@ (H!WEBTRANSPORT_ENABLE_DEPRECATED :> 1) @@ (33 + 62 :> 7)
CloseCapsule       == H!Capsule("close", 300, <<98, 121>>)
CloseBytes         == H!CapsuleEncode(CloseCapsule)

Http3 ==
    << H3("settings", <<H3Good(1)>>), H3("settings", <<H3Good(64)>>),
       H3("settings", <<Peer(VarInt(0) \o Grease \o Tail(H!SettingsEncode(Chrome)), <<1>>)>>),
       H3("settings", <<Peer(H!SettingsEncode(51 :> 1), <<0>>)>>),
       H3("settings", <<Peer(H!SettingsEncode(H!WEBTRANSPORT_MAX_SESSIONS :> 1), <<0>>)>>),
       H3("settings", <<Malformed(<<1, 4, 0>>)>>), H3("settings", <<Malformed(<<0, 1, 0>>)>>),
       H3("settings", <<Malformed(<<0, 4, 1, 64>>)>>), H3("settings", <<Malformed(<<0, 4>> \o VarInt(65537))>>),
       H3("request", <<H3Good(H!Request(<<97, 98>>, H!Root, <<>>, <<>>)), H3Good(H!Request(<<97>>, <<47, 98>>, Two, Cookie :> Long(3)))>>),
       H3("request", <<Peer(Grease \o H!RequestEncode(H!Request(Long(8), H!Root, <<Long(3)>>, Long(9) :> Long(130))),
                            <<H!Request(Long(8), H!Root, <<Long(3)>>, Long(9) :> Long(130))>>)>>),
       H3("request", <<Malformed(H!ResponseEncode(H!Response(<<50, 48, 48>>, <<>>)))>>),
       H3("request", <<Malformed(H!H3Frame(H!HEADERS, <<0, 0, 128>>))>>),
       H3("request", <<Malformed(H!H3Frame(H!DATA, <<0>>))>>),
       H3("response", <<H3Good(H!Response(<<50, 48, 48>>, <<>>)), H3Good(H!Response(<<50, 48, 49>>, <<<<97, 98>>>>)),
                        H3Good(H!Response(<<50, 48, 52>>, <<>>))>>),
       H3("response", <<Item("h3", H!Response(<<52, 48, 52>>, <<>>), <<>>, <<>>, TRUE)>>),
       H3("capsules", <<H3Good(H!Capsule("grease", 2, <<>>)), H3Good(H!Capsule("unknown", 65, <<1>>)), H3Good(CloseCapsule)>>),
       H3("capsules", <<Peer(H!H3Frame(0, First(CloseBytes, 3)), <<>>), Peer(Grease \o H!H3Frame(0, <<>>), <<>>),
                        Peer(H!H3Frame(0, After(CloseBytes, 3) \o H!CapsuleEncode(H!Capsule("grease", 0, <<>>))),
                             <<CloseCapsule, H!Capsule("grease", 0, <<>>)>>)>>),
       H3("capsules", <<Malformed(H!H3Frame(0, First(CloseBytes, 5)))>>),
       H3("capsules", <<Malformed(H!H3Frame(0, VarInt(65) \o VarInt(65537)))>>),
       H3("capsules", <<Malformed(<<0>> \o VarInt(65537))>>),
       H3("bare", <<H3Good(H!Capsule("grease", 1, <<>>)), H3Good(CloseCapsule), H3Good(H!Capsule("unknown", 0, <<>>))>>),
       H3("bare", <<Malformed(VarInt(H!CLOSE_WEBTRANSPORT_SESSION_TYPE) \o <<2, 0, 0>>)>>),
       H3("codes", [i \in 1..8 |-> H3Good(<<0, 1, 29, 30, 59, 60, 61, 1000>>[i])]),
       H3("codes", <<Malformed(VarInt(H!error_to_http3(0) - 1))>>) >>

MCPlans == Ordinary \o Legacy \o Others \o ByteStream \o Http3
=============================================================================
