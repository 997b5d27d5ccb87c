------------------------- MODULE QmuxStreamsProofs --------------------------
(***************************************************************************)
(* The stream layer of QMux and its credit windows, for every number of    *)
(* streams, every window and limit and every choice of calls.              *)
(*                                                                         *)
(* The inductive invariant, Core, joins what each end knows about one      *)
(* stream: the bytes accepted by SendStream lie in the outbound queue, on  *)
(* the transport, with the reader and in the RecvStreams, in this order    *)
(* and without a gap, and a FIN or a RESET_STREAM is the last of them.     *)
(* Every part of it has a section: types, the sender's queue, the          *)
(* transport, and the map of the streams the receiver knows.  From it      *)
(* follow EndsExact and InOrder; QmuxStreamsFlow goes on with credit.      *)
(***************************************************************************)
EXTENDS QmuxStreams, CreditWindow, SumProofs, SequenceTheorems, TLAPS

----------------------------------------------------------------------------
(* The parts of the invariant                                             *)

\* The STREAM frames of the model.
StreamFrames == [type : {"stream"}, id : Streams, off : Nat, len : Nat,
                 fin : BOOLEAN]

\* The RESET_STREAM frames of the model.
ResetFrames == [type : {"reset"}, id : Streams, final : Nat]

\* What the receiving end sends back: new limits and STOP_SENDING.
ControlFrames == [type : {"max_data", "max_streams"}, max : Nat]
                   \cup [type : {"max_stream_data"}, id : Streams, max : Nat]
                   \cup [type : {"stop"}, id : Streams]

\* The steps of recv_frame while it handles a STREAM frame.
StreamPcs == {"stream", "accept", "insert"}

\* The steps of recv_frame while it handles a RESET_STREAM frame.
ResetPcs == {"reset", "grant", "retire", "limit"}

\* The states of a SendStream.
TxStates == [st : {"none", "open"}, offset : 0 .. MaxBytes, fin : BOOLEAN, fins : Nat,
             closed : {"no", "reset", "stop"}]

\* The states of a RecvStream.
RxStates == [st : {"none", "queued", "held", "dropped"}, data : Seq(StreamFrames),
             reset : BOOLEAN, buf : [off : Nat, len : Nat], fin : BOOLEAN,
             closed : {"no", "reset", "stop"}]

\* The states of the task that reads frames off the wire.
ReaderStates == [pc : {"idle"} \cup StreamPcs \cup ResetPcs,
                 frame : StreamFrames \cup ResetFrames \cup {NoFrame},
                 live : BOOLEAN, max : Nat]

\* The types of the sending end's variables.
SenderTypes ==
  /\ openC \in CreditState /\ connS \in CreditState /\ strS \in [Streams -> CreditState] /\ tx \in [Streams -> TxStates]
  /\ holding \in SUBSET Streams /\ stopped \in SUBSET Streams
  /\ queue \in [Streams -> Seq(StreamFrames)] /\ resets \in Seq(Streams)
  /\ sendMap \in SUBSET Streams /\ sentOff \in [Streams -> Nat] /\ wired \in [Streams -> Nat]

\* The types of the two directions of the wire and of the session's verdict.
WireTypes ==
  /\ wireAB \in Seq(StreamFrames \cup ResetFrames) /\ wireBA \in Seq(ControlFrames)
  /\ fault \in {"none", "flow", "limit", "regress", "panic"}

\* The types of the receiving end's bookkeeping. While the reader handles a
\* frame it holds a frame of that kind, and the stream it is about to offer
\* exists.
ReaderTypes ==
  /\ recvMap \in [Streams -> 0 .. MaxFronts] /\ fronts \in [Streams -> 0 .. MaxFronts]
  /\ recvOff \in [Streams -> Nat] /\ created \in -1 .. NumUni - 1 /\ holes \in SUBSET Uni /\ acceptQ \in Seq(Fronts)
  /\ arrived \in [Streams -> Nat] /\ ignored \in Nat /\ reader \in ReaderStates
  /\ reader.pc \in StreamPcs => reader.frame \in StreamFrames
  /\ reader.pc \in ResetPcs => reader.frame \in ResetFrames
  /\ reader.pc \in {"accept", "insert"} => fronts[reader.frame.id] > 0

\* The types of the receiving end's three kinds of credit.
CreditTypes ==
  /\ connR \in CreditState /\ limR \in CreditState /\ strR \in [Fronts -> CreditState]

\* The types of what the receiving application and its handles own.
AppTypes ==
  /\ rx \in [Fronts -> RxStates] /\ pending \in [Fronts -> ControlFrames \cup {NoFrame}]
  /\ got \in [Fronts -> Nat] /\ hole \in SUBSET Fronts /\ control \in Seq(ControlFrames)

\* Types as the proofs need them: TypeOK with the shape of every frame spelled
\* out, and the frame the reader holds tied to where it stands.
Types == SenderTypes /\ WireTypes /\ ReaderTypes /\ CreditTypes /\ AppTypes

\* The stream has a sending half.
Opened(s) == tx[s].st = "open"

\* The sending half gave up before it finished: RESET_STREAM is all that may
\* follow.
Aborted(s) == tx[s].closed # "no" /\ ~tx[s].fin /\ Opened(s)

\* The frames of q carry the bytes from lo up to hi, each from where the last one
\* ended.
Chain(q, lo, hi) ==
  /\ q = <<>> => lo = hi
  /\ q # <<>> => q[1].off = lo /\ q[Len(q)].off + q[Len(q)].len = hi
  /\ \A i \in 1 .. Len(q) - 1 : q[i].off + q[i].len = q[i + 1].off

\* What holds of one sending half: opened in the order of the limit, untouched
\* before, alive in the map while it can be written, and claimed by one writer
\* at most.
SendOne(s) ==
  /\ s \in Uni => (Opened(s) <=> s < openC.used)
  /\ s \in Own => Opened(s)
  /\ ~Opened(s) => /\ tx[s].offset = 0 /\ ~tx[s].fin /\ tx[s].closed = "no"
                   /\ queue[s] = <<>> /\ wired[s] = 0 /\ sentOff[s] = 0
  /\ s \in stopped \cup sendMap => Opened(s)
  /\ s \in holding => Writable(s)
  /\ Writable(s) => s \in sendMap
  /\ s \in sendMap => sentOff[s] = wired[s]

\* What holds of the frames queued for one stream: they are its own, they
\* continue what the writer has sent up to the write offset, and nothing but
\* FINs follows a FIN; an aborted stream has none.
QueueOne(s) ==
  /\ \A i \in 1 .. Len(queue[s]) :
       queue[s][i].id = s /\ (queue[s][i].fin => tx[s].fin /\ queue[s][i].len = 0)
  /\ \A i, j \in 1 .. Len(queue[s]) : i < j /\ queue[s][i].fin => queue[s][j].fin
  /\ IF tx[s].closed # "no" /\ ~tx[s].fin THEN queue[s] = <<>>
     ELSE Chain(queue[s], wired[s], tx[s].offset)

\* A stream waits at most once to be reset, and only an aborted one does.
ResetsInv ==
  /\ \A i \in 1 .. Len(resets) : Aborted(resets[i]) /\ resets[i] \in sendMap
  /\ \A i, j \in 1 .. Len(resets) : i # j => resets[i] # resets[j]

\* The invariant of the sending end.
SenderInv == (\A s \in Streams : SendOne(s) /\ QueueOne(s)) /\ ResetsInv

\* A STREAM frame rather than a reset.
IsData(f) == f.type = "stream"

\* What is on the wire belongs to opened streams; a reset is the last frame of
\* its stream and gives exactly what was sent; a FIN is empty and only FINs of
\* the same stream follow it.
WireInv ==
  /\ \A i \in 1 .. Len(wireAB) :
       /\ Opened(wireAB[i].id)
       /\ ~IsData(wireAB[i]) => /\ Aborted(wireAB[i].id) /\ wireAB[i].id \notin sendMap
                                /\ wireAB[i].final = wired[wireAB[i].id]
       /\ IsData(wireAB[i]) /\ wireAB[i].fin =>
            /\ tx[wireAB[i].id].fin /\ wireAB[i].len = 0
            /\ \A j \in 1 .. Len(queue[wireAB[i].id]) : queue[wireAB[i].id][j].fin
  /\ \A i, j \in 1 .. Len(wireAB) : i < j /\ wireAB[i].id = wireAB[j].id =>
       IsData(wireAB[i]) /\ (wireAB[i].fin => IsData(wireAB[j]) /\ wireAB[j].fin)

\* The STREAM frames of each stream on the wire continue one another from what
\* has arrived up to what was sent.
OrderInv ==
  /\ \A i \in 1 .. Len(wireAB) : IsData(wireAB[i]) =>
       /\ arrived[wireAB[i].id] <= wireAB[i].off /\ wireAB[i].off + wireAB[i].len <= wired[wireAB[i].id]
       /\ \/ wireAB[i].off + wireAB[i].len = wired[wireAB[i].id]
          \/ \E j \in 1 .. Len(wireAB) :
                i < j /\ IsData(wireAB[j]) /\ wireAB[j].id = wireAB[i].id
                      /\ wireAB[j].off = wireAB[i].off + wireAB[i].len
  /\ \A i, j \in 1 .. Len(wireAB) :
        i < j /\ IsData(wireAB[i]) /\ IsData(wireAB[j]) /\ wireAB[i].id = wireAB[j].id =>
          wireAB[i].off + wireAB[i].len <= wireAB[j].off
  /\ \A s \in Streams :
       /\ arrived[s] <= wired[s]
       /\ \/ arrived[s] = wired[s]
          \/ \E i \in 1 .. Len(wireAB) : IsData(wireAB[i]) /\ wireAB[i].id = s
                                         /\ wireAB[i].off = arrived[s]

\* While the reader handles a reset, everything its stream ever sent has
\* arrived and none of it is left on the wire.
ReaderResetInv ==
  reader.pc \in ResetPcs =>
    LET s == reader.frame.id
    IN /\ Aborted(s) /\ s \notin sendMap /\ reader.frame.final = wired[s] /\ arrived[s] = wired[s]
       /\ \A i \in 1 .. Len(wireAB) : wireAB[i].id # s

\* The ids the receiver knows and the RecvStreams it made for them.
FrontInv ==
  /\ \A h \in holes : h <= created
  /\ \A s \in Uni : fronts[s] > 0 => IsClosed(s)
  /\ \A s \in Uni : IsClosed(s) => fronts[s] > 0 \/ Aborted(s)
  /\ \A s \in Streams : recvMap[s] \in {0, fronts[s]}
  /\ \A s \in Streams : recvMap[s] # 0 => rx[<<s, fronts[s]>>].st # "none"
  /\ \A s \in Own : fronts[s] = 1
  /\ \A f \in Fronts : rx[f].st # "none" => f[2] <= fronts[f[1]]

\* The accept queue holds no stream twice, and only ones that wait to be
\* accepted.
AcceptInv ==
  /\ \A i \in 1 .. Len(acceptQ) : rx[acceptQ[i]].st = "queued"
  /\ \A i, j \in 1 .. Len(acceptQ) : i # j => acceptQ[i] # acceptQ[j]

\* The first receiving half of the stream was stopped by its application.
WasStopped(s) == fronts[s] > 0 /\ rx[<<s, 1>>].closed = "stop"

\* A receiving half that ended stays out of the map, and STOP_SENDING is only
\* on its way for a stream that was stopped.
StopInv ==
  /\ EndedStaysEnded
  /\ \A i \in 1 .. Len(control) : control[i].type = "stop" => WasStopped(control[i].id)
  /\ \A f \in Fronts : pending[f].type # "stop"

\* A receiving half nothing has reached.
Fresh(f) == rx[f].data = <<>> /\ rx[f].buf.len = 0 /\ got[f] = 0

\* Nothing reaches a receiving half before it is offered, and its window is
\* whole before its stream exists.
FreshInv ==
  /\ \A f \in Fronts : rx[f].st = "none" => Fresh(f) /\ rx[f].closed = "no"
  /\ \A f \in Fronts : f[2] > fronts[f[1]] => strR[f] = NewCredit(StreamWindow)

\* The invariant of the receiving end's map of streams.
MapInv == FrontInv /\ AcceptInv /\ StopInv /\ FreshInv

\* What the reader saw of the map still holds where it goes on.
ReaderMapInv ==
  LET s == reader.frame.id
  IN  /\ reader.pc \in StreamPcs => Opened(s)
      /\ reader.pc = "stream" /\ s \in Uni /\ recvMap[s] = 0 => ~IsClosed(s) \/ WasStopped(s)
      /\ reader.pc \in {"accept", "insert"} => s \in Uni /\ fronts[s] > 0 /\ recvMap[s] = 0
      /\ reader.pc = "accept" => rx[<<s, fronts[s]>>].st = "none"
      /\ reader.pc = "insert" => rx[<<s, fronts[s]>>].st # "none" /\ Fresh(<<s, fronts[s]>>)
      /\ reader.pc \in {"reset", "grant", "retire"} /\ reader.live =>
           fronts[s] > 0 /\ (recvMap[s] # 0 \/ WasStopped(s))
      /\ reader.pc \in {"reset", "grant", "retire"} /\ ~reader.live => s \in Uni /\ ~IsClosed(s)

\* The reader has taken a frame of the stream off the wire and has not routed
\* it.
InFlight(s) == reader.pc = "stream" /\ reader.frame.id = s

\* While a stream has at most one receiving half, recv_off and the stream's
\* credit count exactly what arrived for it, with the frame the reader is about
\* to route as the difference.
SeenOne(s) == fronts[s] <= 1 =>
  /\ strR[<<s, 1>>].used <= arrived[s]
  /\ recvMap[s] # 0 =>
      /\ ~InFlight(s) => recvOff[s] = arrived[s]
      /\ InFlight(s) => recvOff[s] + reader.frame.len = arrived[s] /\ reader.frame.off = recvOff[s]
      /\ strR[<<s, 1>>].used = recvOff[s]
  /\ s \in Uni /\ ~IsClosed(s) =>
      /\ ~InFlight(s) => arrived[s] = 0
      /\ InFlight(s) => arrived[s] = reader.frame.len /\ reader.frame.off = 0
  /\ reader.pc \in {"accept", "insert"} /\ reader.frame.id = s =>
      /\ arrived[s] = reader.frame.len /\ reader.frame.off = 0 /\ strR[<<s, 1>>].used = reader.frame.len

\* SeenOne for every stream of a session that runs.
SeenInv == Running => \A s \in Streams : SeenOne(s)

\* While a stream has at most one receiving half, what its application has
\* read, what it has buffered and what is queued for it continue one another up
\* to what the map says was received.
DeliverOne(s) == fronts[s] <= 1 =>
  LET f == <<s, 1>>
  IN  rx[f].st # "dropped" =>
        /\ rx[f].buf.len > 0 => rx[f].buf.off = got[f]
        /\ \E hi \in Nat : /\ Chain(rx[f].data, got[f] + rx[f].buf.len, hi)
                           /\ recvMap[s] # 0 => hi = recvOff[s]

\* No gap is recorded for a stream with one receiving half, and DeliverOne
\* holds of every stream of a session that runs.
DeliverInv == "closed" \notin Calls =>
  /\ \A f \in hole : f[2] <= fronts[f[1]]
  /\ \A s \in Streams : fronts[s] <= 1 => <<s, 1>> \notin hole
  /\ Running => \A s \in Streams : DeliverOne(s)

\* Bytes the reader holds for a RecvStream it is creating.
InHand(f) == IF /\ reader.pc \in {"accept", "insert"} /\ f = <<reader.frame.id, fronts[reader.frame.id]>>
             THEN reader.frame.len ELSE 0

\* A receiving half's window has moved by exactly what its application read,
\* and what it read and still holds never exceeds what was counted as received.
HeldInv == \A f \in Fronts :
  /\ strR[f].max + strR[f].released = StreamWindow + got[f] /\ got[f] + Buffered(f) + InHand(f) <= strR[f].used

\* No frame is longer than the window its stream started with.
LenInv == \A s \in Streams : fronts[s] <= 1 =>
  /\ \A i \in 1 .. Len(queue[s]) : queue[s][i].len <= StreamWindow
  /\ \A i \in 1 .. Len(wireAB) : IsData(wireAB[i]) /\ wireAB[i].id = s => wireAB[i].len <= StreamWindow
  /\ InFlight(s) => reader.frame.len <= StreamWindow

\* maxima
MaxOK(g) ==
  /\ g.type = "max_data" => g.max <= connR.max
  /\ g.type = "max_streams" => g.max <= limR.max
  /\ g.type = "max_stream_data" => (fronts[g.id] <= 1 => g.max <= strR[<<g.id, 1>>].max)

\* A limit on its way is at most the one its sender computed last, and nothing
\* is sent beyond the limit it was sent under: both ends agree on every window
\* up to what is on its way.
MaxInv ==
  /\ \A i \in 1 .. Len(control) : MaxOK(control[i])
  /\ \A i \in 1 .. Len(wireBA) : MaxOK(wireBA[i])
  /\ \A f \in Fronts : pending[f] # NoFrame => MaxOK(pending[f])
  /\ reader.pc = "grant" => reader.max <= connR.max
  /\ reader.pc = "limit" => reader.max <= limR.max
  /\ openC.used <= openC.max /\ openC.max <= limR.max /\ connS.used <= connS.max /\ connS.max <= connR.max
  /\ \A s \in Streams : strS[s].used <= strS[s].max
       /\ (fronts[s] <= 1 => strS[s].max <= strR[<<s, 1>>].max)

----------------------------------------------------------------------------
(* Frames, credits and sums                                               *)

\* The streams are natural numbers, in two disjoint kinds, and a front is a
\* stream with a number.
LEMMA StreamFacts ==
  /\ Uni \in SUBSET Streams /\ Own \in SUBSET Streams /\ Streams \in SUBSET Nat
  /\ \A s \in Streams : s \in Own <=> s \notin Uni
  /\ \A s \in Streams : <<s, 1>> \in Fronts
  /\ \A s \in Streams : \A k \in 1 .. MaxFronts : <<s, k>> \in Fronts
  /\ \A f \in Fronts : /\ f = <<f[1], f[2]>> /\ f[1] \in Streams /\ f[2] \in 1 .. MaxFronts /\ f[2] \in Nat
  /\ MaxFronts \in Nat /\ MaxFronts >= 1
  /\ \A s \in Uni : s + 1 <= NumUni /\ s >= 0
  /\ NumUni \in Nat BY SizesAreNatural, BoundsArePositive DEF Streams, Uni, Own, Fronts

\* At least one receiving half is allowed.
LEMMA FrontBound == MaxFronts \in Nat /\ MaxFronts >= 1 /\ 0 \in 0 .. MaxFronts
  BY BoundsArePositive

\* A stream is of one of the two kinds.
LEMMA UniOrOwn ==
  ASSUME NEW s \in Streams
  PROVE  s \in Nat /\ s + 1 \in Nat /\ (s \in Own <=> s \notin Uni) BY SizesAreNatural DEF Streams, Uni, Own

\* A stream and a number in range make a front.
LEMMA FrontOf ==
  ASSUME NEW s \in Streams, NEW k \in 1 .. MaxFronts
  PROVE  <<s, k>> \in Fronts BY DEF Fronts

\* A frame's constructor gives a frame of its kind.
LEMMA FrameTypes ==
  /\ \A s \in Streams : \A n \in Nat :
       /\ ResetFrame(s, n) \in ResetFrames /\ ResetFrame(s, n).type = "reset"
       /\ ResetFrame(s, n).id = s /\ ResetFrame(s, n).final = n
  /\ \A n \in Nat :
       /\ MaxData(n) \in ControlFrames /\ MaxData(n).type = "max_data" /\ MaxData(n).max = n /\ MaxData(n) # NoFrame
       /\ MaxStreams(n) \in ControlFrames /\ MaxStreams(n).type = "max_streams"
       /\ MaxStreams(n).max = n /\ MaxStreams(n) # NoFrame
  /\ \A s \in Streams : \A n \in Nat :
       /\ MaxStreamData(s, n) \in ControlFrames /\ MaxStreamData(s, n).type = "max_stream_data"
       /\ MaxStreamData(s, n).id = s /\ MaxStreamData(s, n).max = n
  /\ \A s \in Streams : /\ StopFrame(s) \in ControlFrames /\ StopFrame(s).type = "stop" /\ StopFrame(s).id = s
<1>2. \A s \in Streams : \A n \in Nat :
     /\ ResetFrame(s, n) \in ResetFrames /\ ResetFrame(s, n).type = "reset"
     /\ ResetFrame(s, n).id = s /\ ResetFrame(s, n).final = n BY DEF ResetFrame, ResetFrames
<1>3. \A n \in Nat :
     /\ MaxData(n) \in ControlFrames /\ MaxData(n).type = "max_data" /\ MaxData(n).max = n /\ MaxData(n) # NoFrame
     /\ MaxStreams(n) \in ControlFrames /\ MaxStreams(n).type = "max_streams"
     /\ MaxStreams(n).max = n /\ MaxStreams(n) # NoFrame BY DEF MaxData, MaxStreams, ControlFrames, NoFrame
<1>4. \A s \in Streams : \A n \in Nat :
     /\ MaxStreamData(s, n) \in ControlFrames /\ MaxStreamData(s, n).type = "max_stream_data"
     /\ MaxStreamData(s, n).id = s /\ MaxStreamData(s, n).max = n BY DEF MaxStreamData, ControlFrames
<1>5. \A s \in Streams : /\ StopFrame(s) \in ControlFrames
                      /\ StopFrame(s).type = "stop" /\ StopFrame(s).id = s BY DEF StopFrame, ControlFrames
<1> QED BY <1>2, <1>3, <1>4, <1>5

\* The fields of a frame that is put together.
LEMMA StreamFrameIs ==
  ASSUME NEW s \in Streams, NEW off \in Nat, NEW n \in Nat, NEW fin \in BOOLEAN
  PROVE  /\ StreamFrame(s, off, n, fin) \in StreamFrames /\ StreamFrame(s, off, n, fin).type = "stream"
         /\ StreamFrame(s, off, n, fin).id = s /\ StreamFrame(s, off, n, fin).off = off
         /\ StreamFrame(s, off, n, fin).len = n /\ StreamFrame(s, off, n, fin).fin = fin
  BY DEF StreamFrame, StreamFrames

\* The fields of a frame, by its kind.
LEMMA FrameFields ==
  /\ \A f \in StreamFrames : /\ f.type = "stream" /\ f.id \in Streams /\ f.off \in Nat
                             /\ f.len \in Nat /\ f.fin \in BOOLEAN
  /\ \A f \in ResetFrames : f.type = "reset" /\ f.id \in Streams /\ f.final \in Nat
  /\ \A f \in StreamFrames \cup ResetFrames :
       /\ f.id \in Streams /\ f.type \in {"stream", "reset"}
       /\ f.type = "stream" => f \in StreamFrames
       /\ f.type # "stream" => f \in ResetFrames
  /\ \A f \in ControlFrames :
       /\ f.type \in {"max_data", "max_streams", "max_stream_data", "stop"}
       /\ f.type \in {"max_data", "max_streams", "max_stream_data"} => f.max \in Nat
       /\ f.type \in {"max_stream_data", "stop"} => f.id \in Streams
<1>1. \A f \in StreamFrames : /\ f.type = "stream" /\ f.id \in Streams /\ f.off \in Nat
                           /\ f.len \in Nat /\ f.fin \in BOOLEAN BY DEF StreamFrames
<1>2. \A f \in ResetFrames : f.type = "reset" /\ f.id \in Streams /\ f.final \in Nat BY DEF ResetFrames
<1>3. \A f \in ControlFrames :
     /\ f.type \in {"max_data", "max_streams", "max_stream_data", "stop"}
     /\ f.type \in {"max_data", "max_streams", "max_stream_data"} => f.max \in Nat
     /\ f.type \in {"max_stream_data", "stop"} => f.id \in Streams BY DEF ControlFrames
<1> QED BY <1>1, <1>2, <1>3

\* What each operation of Credit does to the fields of a credit.
LEMMA CreditFields ==
  ASSUME NEW c \in CreditState, NEW n \in Nat
  PROVE  /\ c.used \in Nat /\ c.max \in Nat /\ c.released \in Nat
         /\ NewCredit(n) \in CreditState /\ NewCredit(n).used = 0 /\ NewCredit(n).max = n /\ NewCredit(n).released = 0
         /\ Claim(c, n) \in CreditState /\ Claim(c, n).used = c.used + n /\ Claim(c, n).max = c.max
         /\ Release(c, n) \in CreditState
         /\ n <= c.used => Release(c, n).used = c.used - n
         /\ Release(c, n).used <= c.used /\ Release(c, n).max = c.max
         /\ Receive(c, n) \in CreditState /\ Receive(c, n).used = c.used + n
         /\ Receive(c, n).max = c.max /\ Receive(c, n).released = c.released /\ ReceiveUpTo(c, n) \in CreditState
         /\ ReceiveUpTo(c, n).max = c.max /\ ReceiveUpTo(c, n).released = c.released
         /\ IncreaseMax(c, n) \in CreditState /\ IncreaseMax(c, n).max = n /\ IncreaseMax(c, n).used = c.used
  BY DEF CreditState, NewCredit, Claim, Release, Receive, ReceiveUpTo, IncreaseMax

\* Consume keeps max and released together: bytes consumed are in one of them.
LEMMA ConsumeMovesWindow ==
  ASSUME NEW c \in CreditState, NEW n \in Nat
  PROVE  /\ Consume(c, n) \in CreditState /\ Consume(c, n).used = c.used /\ Consume(c, n).max >= c.max
         /\ Consume(c, n).max + Consume(c, n).released
              = c.max + c.released + n
<1>0. c.used \in Nat /\ c.max \in Nat /\ c.released \in Nat BY DEF CreditState
<1>1. CASE Grants(c, n)
  <2>1. Consume(c, n)
          = [used |-> c.used, max |-> c.max + c.released + n, released |-> 0] BY <1>1 DEF CreditState, Consume
  <2> QED BY <1>0, <2>1 DEF CreditState
<1>2. CASE ~Grants(c, n)
  <2>1. Consume(c, n)
          = [used |-> c.used, max |-> c.max, released |-> c.released + n] BY <1>2 DEF CreditState, Consume
  <2> QED BY <1>0, <2>1 DEF CreditState
<1> QED BY <1>1, <1>2

\* try_claim takes what is asked for or what is left, if that is less.
LEMMA ClaimFacts ==
  ASSUME NEW c \in CreditState, NEW n \in Nat
  PROVE  /\ Claimable(c, n) \in Nat /\ Claimable(c, n) <= n
         /\ Claimable(c, n) > 0 => c.used + Claimable(c, n) <= c.max BY DEF CreditState, Claimable, Available

\* A limit that arrives raises the old one or is ignored.
LEMMA RecvMaxFacts ==
  ASSUME NEW c \in CreditState, NEW m \in Nat
  PROVE  /\ RecvMax(c, m) \in CreditState /\ RecvMax(c, m).used = c.used /\ RecvMax(c, m).max >= c.max
         /\ RecvMax(c, m).max \in {c.max, m}
<1>1. c.max \in Nat /\ c.used \in Nat BY CreditFields
<1>2. CASE MayIncrease(c, m)
  <2>1. RecvMax(c, m) = IncreaseMax(c, m) /\ m >= c.max BY <1>2 DEF RecvMax, MayIncrease
  <2>2. IncreaseMax(c, m) \in CreditState /\ IncreaseMax(c, m).max = m /\ IncreaseMax(c, m).used = c.used
    BY CreditFields
  <2> QED BY <2>1, <2>2, <1>1
<1>3. CASE ~MayIncrease(c, m)
  <2>1. RecvMax(c, m) = c BY <1>3 DEF RecvMax
  <2> QED BY <2>1, <1>1
<1> QED BY <1>2, <1>3

\* The bytes of a sequence of frames are a natural number; an appended frame adds
\* its own, a frame taken from the front takes its own away.
LEMMA BytesFacts ==
  ASSUME NEW q \in Seq(StreamFrames)
  PROVE  /\ Bytes(q) \in Nat /\ Bytes(<<>>) = 0
         /\ \A f \in StreamFrames : Bytes(Append(q, f)) = Bytes(q) + f.len
         /\ q # <<>> => Bytes(Tail(q)) = Bytes(q) - Head(q).len
<1>. DEFINE g == [f \in StreamFrames |-> f.len]
            Over(p) == SumFunction([i \in DOMAIN p |-> g[p[i]]])
<1>1. g \in [StreamFrames -> Nat] /\ \A f \in StreamFrames : g[f] = f.len BY FrameFields
<1>2. ASSUME NEW p \in Seq(StreamFrames) PROVE Over(p) = Bytes(p)
  <2>1. [i \in DOMAIN p |-> g[p[i]]] = [i \in DOMAIN p |-> p[i].len] BY <1>1
  <2> QED BY <2>1 DEF Bytes
<1>3. /\ Over(q) \in Nat /\ Over(<<>>) = 0
      /\ \A f \in StreamFrames : Over(Append(q, f)) = Over(q) + g[f]
      /\ q # <<>> => Over(Tail(q)) = Over(q) - g[Head(q)]
  <2> HIDE DEF g
  <2> QED BY <1>1, SumOver, ZenonT(30)
<1>4. /\ <<>> \in Seq(StreamFrames) /\ \A f \in StreamFrames : Append(q, f) \in Seq(StreamFrames)
      /\ q # <<>> => Tail(q) \in Seq(StreamFrames) /\ Head(q) \in StreamFrames BY SeqAppend, SeqTail
<1> HIDE DEF g, Over
<1> QED BY <1>1, <1>2, <1>3, <1>4

----------------------------------------------------------------------------
(* Types: the sender                                                      *)

\* Types implies TypeOK.
LEMMA TypesFit == Types => TypeOK
  BY DEF Types, SenderTypes, WireTypes, ReaderTypes, CreditTypes, AppTypes, TypeOK, TxStates

\* A stream's SendStream, field by field.
LEMMA TxFields ==
  ASSUME SenderTypes, NEW s \in Streams
  PROVE  /\ tx[s].st \in {"none", "open"} /\ tx[s].offset \in 0 .. MaxBytes
         /\ tx[s].offset \in Nat /\ tx[s].fin \in BOOLEAN /\ tx[s].fins \in Nat
         /\ tx[s].closed \in {"no", "reset", "stop"} BY SizesAreNatural DEF SenderTypes, TxStates

\* The fields of a receiving half.
LEMMA RxFields ==
  ASSUME AppTypes, NEW f \in Fronts
  PROVE  /\ rx[f].st \in {"none", "queued", "held", "dropped"}
         /\ rx[f].data \in Seq(StreamFrames) /\ rx[f].reset \in BOOLEAN /\ rx[f].buf \in [off : Nat, len : Nat]
         /\ rx[f].buf.off \in Nat /\ rx[f].buf.len \in Nat
         /\ rx[f].fin \in BOOLEAN /\ rx[f].closed \in {"no", "reset", "stop"} BY DEF AppTypes, RxStates

\* Giving a stream up keeps the types.
LEMMA AbandonTypes ==
  ASSUME SenderTypes, NEW s \in Streams, NEW why \in {"reset", "stop"}, Abandon(s, why)
  PROVE  /\ connS' \in CreditState /\ strS' \in [Streams -> CreditState]
         /\ tx' \in [Streams -> TxStates] /\ queue' \in [Streams -> Seq(StreamFrames)] /\ resets' \in Seq(Streams)
<1>1. Bytes(queue[s]) \in Nat BY BytesFacts DEF SenderTypes
<1>2. Release(strS[s], Bytes(queue[s])) \in CreditState /\ Release(connS, Bytes(queue[s])) \in CreditState
  BY <1>1, CreditFields DEF SenderTypes
<1>3. connS' \in CreditState /\ strS' \in [Streams -> CreditState] BY <1>2 DEF Abandon, SenderTypes
<1>4. tx' \in [Streams -> TxStates] BY DEF Abandon, SenderTypes, TxStates
<1>5. queue' \in [Streams -> Seq(StreamFrames)] /\ resets' \in Seq(Streams) BY DEF Abandon, SenderTypes
<1> QED BY <1>3, <1>4, <1>5

\* A step of the sending application keeps the types.
LEMMA SenderAppTypes ==
  ASSUME Types, NEW s \in Streams, SenderApp(s)
  PROVE  SenderTypes'
<1> USE DEF Types
<1>1. CASE OpenUni(s)
  <2>1. openC' \in CreditState BY <1>1, CreditFields DEF OpenUni, SenderTypes
  <2>2. tx' \in [Streams -> TxStates]
    <3>1. tx' = [tx EXCEPT ![s].st = "open"] BY <1>1 DEF OpenUni
    <3> QED BY <3>1 DEF SenderTypes, TxStates
  <2> QED BY <1>1, <2>1, <2>2 DEF OpenUni, SenderTypes
<1>2. CASE ReserveSlot(s) BY <1>2 DEF ReserveSlot, SenderTypes
<1>3. CASE CommitWrite(s)
  <2>. DEFINE left == MaxBytes - tx[s].offset
              desired == IF left < Chunk THEN left ELSE Chunk
              n == ClaimCredit(s, desired)
  <2>0. tx[s].offset \in 0 .. MaxBytes /\ MaxBytes \in Nat /\ Chunk \in Nat /\ strS[s] \in CreditState
    BY TxFields, SizesAreNatural, BoundsArePositive DEF SenderTypes
  <2>1. desired \in Nat /\ desired <= left BY <2>0
  <2>2. n \in Nat /\ n <= desired
    <3>1. PICK m : m = Claimable(strS[s], desired) OBVIOUS
    <3>2. m \in Nat /\ m <= desired
      <4> HIDE DEF desired
      <4> QED BY <3>1, <2>0, <2>1, ClaimFacts
    <3>3. Claimable(connS, m) \in Nat /\ Claimable(connS, m) <= m BY <3>2, ClaimFacts DEF SenderTypes
    <3>4. n = Claimable(connS, m) BY <3>1 DEF ClaimCredit
    <3> HIDE DEF n, desired
    <3> QED BY <3>2, <3>3, <3>4, <2>1
  <2>3. tx[s].offset + n \in 0 .. MaxBytes
    <3> HIDE DEF n
    <3> QED BY <2>0, <2>1, <2>2
  <2>4. /\ strS' = [strS EXCEPT ![s] = Claim(@, n)] /\ connS' = Claim(connS, n)
        /\ queue' = [queue EXCEPT ![s] = Append(@, StreamFrame(s, tx[s].offset, n, FALSE))]
        /\ tx' = [tx EXCEPT ![s].offset = @ + n] /\ holding' = holding \ {s}
        /\ UNCHANGED <<openC, stopped, resets, sendMap, sentOff, wired>> BY <1>3 DEF CommitWrite
  <2> HIDE DEF n
  <2>5. strS' \in [Streams -> CreditState] /\ connS' \in CreditState BY <2>0, <2>2, <2>4, CreditFields DEF SenderTypes
  <2>6. queue' \in [Streams -> Seq(StreamFrames)]
    <3>1. StreamFrame(s, tx[s].offset, n, FALSE) \in StreamFrames BY <2>2, TxFields, StreamFrameIs
    <3>2. Append(queue[s], StreamFrame(s, tx[s].offset, n, FALSE)) \in Seq(StreamFrames)
      <4>1. queue[s] \in Seq(StreamFrames) BY DEF SenderTypes
      <4> QED BY <3>1, <4>1, AppendProperties
    <3> QED BY <3>2, <2>4 DEF SenderTypes
  <2>7. tx' \in [Streams -> TxStates] BY <2>3, <2>4 DEF SenderTypes, TxStates
  <2> QED BY <2>4, <2>5, <2>6, <2>7 DEF SenderTypes
<1>4. CASE CancelWrite(s) BY <1>4 DEF CancelWrite, SenderTypes
<1>5. CASE Reset(s)
  <2>1. Abandon(s, "reset") /\ UNCHANGED <<openC, holding, stopped, sendMap, sentOff, wired>> BY <1>5 DEF Reset
  <2> QED BY <2>1, AbandonTypes DEF SenderTypes
<1>6. CASE SeeStop(s)
  <2>1. CASE tx[s].fin
    <3>1. tx' = [tx EXCEPT ![s].closed = "stop"] /\ UNCHANGED <<queue, strS, connS, resets>> BY <1>6, <2>1 DEF SeeStop
    <3>2. tx' \in [Streams -> TxStates] BY <3>1 DEF SenderTypes, TxStates
    <3> QED BY <1>6, <3>1, <3>2 DEF SeeStop, SenderTypes
  <2>2. CASE ~tx[s].fin
    <3>1. Abandon(s, "stop") BY <1>6, <2>2 DEF SeeStop
    <3> QED BY <1>6, <3>1, AbandonTypes DEF SeeStop, SenderTypes
  <2> QED BY <2>1, <2>2
<1>7. CASE Finish(s)
  <2>1. queue' \in [Streams -> Seq(StreamFrames)]
    <3>1. StreamFrame(s, tx[s].offset, 0, TRUE) \in StreamFrames BY StreamFrameIs, TxFields
    <3>2. queue' = [queue EXCEPT ![s] = Append(@, StreamFrame(s, tx[s].offset, 0, TRUE))] BY <1>7 DEF Finish
    <3>3. Append(queue[s], StreamFrame(s, tx[s].offset, 0, TRUE)) \in Seq(StreamFrames)
      <4>1. queue[s] \in Seq(StreamFrames) BY DEF SenderTypes
      <4> QED BY <3>1, <4>1, AppendProperties
    <3> QED BY <3>2, <3>3 DEF SenderTypes
  <2>2. tx' \in [Streams -> TxStates]
    <3>1. tx' = [tx EXCEPT ![s].fin = TRUE, ![s].fins = @ + 1] BY <1>7 DEF Finish
    <3>2. PICK t : t = [tx EXCEPT ![s].fin = TRUE] OBVIOUS
    <3>3. t \in [Streams -> TxStates] BY <3>2 DEF SenderTypes, TxStates
    <3>4. tx' = [t EXCEPT ![s].fins = @ + 1] BY <3>1, <3>2
    <3> QED BY <3>3, <3>4 DEF TxStates
  <2> QED BY <1>7, <2>1, <2>2 DEF Finish, SenderTypes
<1> QED BY <1>1, <1>2, <1>3, <1>4, <1>5, <1>6, <1>7 DEF SenderApp

\* A step of the writer task keeps the types.
LEMMA TransmitTypes ==
  ASSUME Types, SenderWriter
  PROVE  SenderTypes' /\ WireTypes'
<1> USE DEF Types
<1>1. CASE TransmitReset
  <2>. DEFINE s == Head(resets)
              final == IF s \in sendMap THEN sentOff[s] ELSE tx[s].offset
  <2>1. s \in Streams /\ Tail(resets) \in Seq(Streams) BY <1>1 DEF TransmitReset, SenderTypes
  <2>2. final \in Nat BY <2>1, TxFields DEF SenderTypes
  <2>3. wireAB' = Append(wireAB, ResetFrame(s, final)) /\ ResetFrame(s, final) \in ResetFrames
    BY <1>1, <2>1, <2>2, FrameTypes DEF TransmitReset
  <2>4. SenderTypes' BY <1>1, <2>1 DEF TransmitReset, SenderTypes
  <2>5. WireTypes' BY <2>3 DEF WireTypes, SenderWriter
  <2> QED BY <2>4, <2>5
<1>2. ASSUME NEW s \in Streams, TransmitStream(s) PROVE SenderTypes' /\ WireTypes'
  <2>1. Head(queue[s]) \in StreamFrames /\ Tail(queue[s]) \in Seq(StreamFrames) BY <1>2 DEF TransmitStream, SenderTypes
  <2>2. Head(queue[s]).len \in Nat BY <2>1, FrameFields
  <2>3. WireTypes' BY <1>2, <2>1 DEF TransmitStream, WireTypes, SenderWriter
  <2>4. SenderTypes' BY <1>2, <2>1, <2>2 DEF TransmitStream, SenderTypes
  <2> QED BY <2>3, <2>4
<1> QED BY <1>1, <1>2 DEF SenderWriter

\* A control frame that arrives keeps the types.
LEMMA RecvControlTypes ==
  ASSUME Types, SenderReader
  PROVE  SenderTypes' /\ WireTypes'
<1> USE DEF Types
<1>. DEFINE f == Head(wireBA)
<1>1. f \in ControlFrames /\ Tail(wireBA) \in Seq(ControlFrames) /\ wireBA' = Tail(wireBA)
  BY DEF SenderReader, RecvControl, WireTypes
<1>2. wireAB' = wireAB /\ UNCHANGED <<tx, holding, queue, resets, sendMap, sentOff, wired>>
  BY DEF SenderReader, RecvControl
<1>3. CASE f.type = "max_data"
  <2>1. connS' = RecvMax(connS, f.max) /\ UNCHANGED <<strS, openC, stopped>> /\ fault' \in {fault, "regress"}
    BY <1>3 DEF SenderReader, RecvControl
  <2>2. RecvMax(connS, f.max) \in CreditState BY <1>1, <1>3, FrameFields, RecvMaxFacts DEF SenderTypes
  <2> QED BY <1>1, <1>2, <2>1, <2>2 DEF SenderTypes, WireTypes
<1>4. CASE f.type = "max_stream_data"
  <2>1. UNCHANGED <<connS, openC, stopped>> /\ fault' \in {fault, "regress"}
        /\ strS' \in {strS, [strS EXCEPT ![f.id] = RecvMax(@, f.max)]} BY <1>4 DEF SenderReader, RecvControl
  <2>2. f.id \in Streams /\ RecvMax(strS[f.id], f.max) \in CreditState
    BY <1>1, <1>4, FrameFields, RecvMaxFacts DEF SenderTypes
  <2> QED BY <1>1, <1>2, <2>1, <2>2 DEF SenderTypes, WireTypes
<1>5. CASE f.type = "max_streams"
  <2>1. openC' = RecvMax(openC, f.max) /\ UNCHANGED <<strS, connS, stopped>> /\ fault' \in {fault, "regress"}
    BY <1>5 DEF SenderReader, RecvControl
  <2>2. RecvMax(openC, f.max) \in CreditState BY <1>1, <1>5, FrameFields, RecvMaxFacts DEF SenderTypes
  <2> QED BY <1>1, <1>2, <2>1, <2>2 DEF SenderTypes, WireTypes
<1>6. CASE f.type = "stop"
  <2>1. UNCHANGED <<connS, openC, strS, fault>> /\ stopped' \in {stopped, stopped \cup {f.id}}
    BY <1>6 DEF SenderReader, RecvControl
  <2>2. f.id \in Streams BY <1>1, <1>6, FrameFields
  <2> QED BY <1>1, <1>2, <2>1, <2>2 DEF SenderTypes, WireTypes
<1> QED BY <1>1, <1>3, <1>4, <1>5, <1>6, FrameFields

----------------------------------------------------------------------------
(* Types: the reader                                                      *)

\* The fields of the reader's state.
LEMMA ReaderFields ==
  ASSUME ReaderTypes
  PROVE  /\ reader.pc \in {"idle"} \cup StreamPcs \cup ResetPcs
         /\ reader.frame \in StreamFrames \cup ResetFrames \cup {NoFrame}
         /\ reader.live \in BOOLEAN /\ reader.max \in Nat
         /\ reader.pc \in StreamPcs => /\ reader.frame \in StreamFrames /\ reader.frame.id \in Streams
                                       /\ reader.frame.len \in Nat /\ reader.frame.off \in Nat
                                       /\ reader.frame.fin \in BOOLEAN
         /\ reader.pc \in ResetPcs => /\ reader.frame \in ResetFrames /\ reader.frame.id \in Streams
                                      /\ reader.frame.final \in Nat BY FrameFields DEF ReaderTypes, ReaderStates

\* The shapes the reader's state takes.
LEMMA ReaderShapes ==
  /\ Idle \in ReaderStates /\ Idle.pc = "idle"
  /\ \A fr \in StreamFrames : \A pc \in StreamPcs :
       LET r == [Idle EXCEPT !.pc = pc, !.frame = fr] IN r \in ReaderStates /\ r.pc = pc /\ r.frame = fr
  /\ \A fr \in ResetFrames : \A live \in BOOLEAN :
       LET r == [Idle EXCEPT !.pc = "reset", !.frame = fr, !.live = live]
       IN  r \in ReaderStates /\ r.pc = "reset" /\ r.frame = fr /\ r.live = live
  /\ \A r \in ReaderStates : \A pc \in StreamPcs \cup ResetPcs :
       LET q == [r EXCEPT !.pc = pc]
       IN  q \in ReaderStates /\ q.pc = pc /\ q.frame = r.frame /\ q.live = r.live /\ q.max = r.max
  /\ \A r \in ReaderStates : \A pc \in ResetPcs : \A m \in Nat :
       /\ LET q == [r EXCEPT !.max = m, !.pc = pc]
          IN  q \in ReaderStates /\ q.pc = pc /\ q.frame = r.frame /\ q.live = r.live /\ q.max = m
       /\ LET q == [r EXCEPT !.pc = pc, !.max = m]
          IN  q \in ReaderStates /\ q.pc = pc /\ q.frame = r.frame /\ q.live = r.live /\ q.max = m
<1>1. Idle \in ReaderStates /\ Idle.pc = "idle" BY DEF Idle, ReaderStates
<1>2. ASSUME NEW fr \in StreamFrames, NEW pc \in StreamPcs
      PROVE  LET r == [Idle EXCEPT !.pc = pc, !.frame = fr] IN r \in ReaderStates /\ r.pc = pc /\ r.frame = fr
  BY DEF Idle, ReaderStates
<1>3. ASSUME NEW fr \in ResetFrames, NEW live \in BOOLEAN
      PROVE LET r == [Idle EXCEPT !.pc = "reset", !.frame = fr, !.live = live]
            IN  r \in ReaderStates /\ r.pc = "reset" /\ r.frame = fr /\ r.live = live
  BY DEF Idle, ReaderStates, ResetPcs
<1>4. ASSUME NEW r \in ReaderStates, NEW pc \in StreamPcs \cup ResetPcs
      PROVE LET q == [r EXCEPT !.pc = pc]
     IN  q \in ReaderStates /\ q.pc = pc /\ q.frame = r.frame /\ q.live = r.live /\ q.max = r.max BY DEF ReaderStates
<1>5. ASSUME NEW r \in ReaderStates, NEW pc \in ResetPcs, NEW m \in Nat
      PROVE /\ LET q == [r EXCEPT !.max = m, !.pc = pc]
               IN  q \in ReaderStates /\ q.pc = pc /\ q.frame = r.frame /\ q.live = r.live /\ q.max = m
            /\ LET q == [r EXCEPT !.pc = pc, !.max = m]
               IN  q \in ReaderStates /\ q.pc = pc /\ q.frame = r.frame /\ q.live = r.live /\ q.max = m
  BY DEF ReaderStates
<1> QED BY <1>1, <1>2, <1>3, <1>4, <1>5

\* The types of the receiving end.
ReceiverTypes == ReaderTypes /\ CreditTypes /\ AppTypes

\* Ending the session with an error keeps the types.
LEMMA FailTypes ==
  ASSUME Types, NEW kind, Fail(kind), UNCHANGED <<pending, got, hole>>,
         arrived' \in [Streams -> Nat]
  PROVE  ReceiverTypes'
<1>1. reader' = Idle /\ reader'.pc = "idle" /\ reader' \in ReaderStates BY ReaderShapes DEF Fail
<1> QED BY <1>1 DEF Fail, creditVars, Types, ReceiverTypes, ReaderTypes, CreditTypes, AppTypes, StreamPcs, ResetPcs

\* The first frame on the wire, and what is left when it is taken.
LEMMA WireHead ==
  ASSUME Types, wireAB # <<>>
  PROVE  /\ Head(wireAB) \in StreamFrames \cup ResetFrames /\ Tail(wireAB) \in Seq(StreamFrames \cup ResetFrames)
         /\ Head(wireAB).id \in Streams
         /\ Head(wireAB).type = "stream" => /\ Head(wireAB) \in StreamFrames /\ Head(wireAB).len \in Nat
                                            /\ Head(wireAB).off \in Nat /\ Head(wireAB).fin \in BOOLEAN
         /\ Head(wireAB).type = "reset" => Head(wireAB) \in ResetFrames /\ Head(wireAB).final \in Nat
<1>1. Head(wireAB) \in StreamFrames \cup ResetFrames /\ Tail(wireAB) \in Seq(StreamFrames \cup ResetFrames)
  BY DEF Types, WireTypes
<1> QED BY <1>1, FrameFields

\* Recording that a stream exists keeps the types.
LEMMA RecordTypes ==
  ASSUME ReaderTypes, NEW s \in Uni, Record(s)
  PROVE  created' \in -1 .. NumUni - 1 /\ holes' \in SUBSET Uni
<1>1. CASE s <= created BY <1>1 DEF Record, ReaderTypes
<1>2. CASE ~(s <= created) BY <1>2, StreamFacts DEF Record, ReaderTypes, Uni
<1> QED BY <1>1, <1>2

\* Queueing a frame for a receiving half keeps the types.
LEMMA DeliverTypes ==
  ASSUME AppTypes, NEW f \in Fronts, NEW fr \in StreamFrames
  PROVE  Deliver(f, fr) \in [Fronts -> RxStates]
<1>1. Append(rx[f].data, fr) \in Seq(StreamFrames) BY RxFields, AppendProperties
<1> QED BY <1>1, ZenonT(30) DEF Deliver, AppTypes, RxStates

\* Taking a STREAM frame off the wire keeps the types.
LEMMA RecvStreamTypes ==
  ASSUME Types, ReceiverReader, RecvStream
  PROVE  ReceiverTypes' /\ WireTypes'
<1>. DEFINE fr == Head(wireAB)
<1>1. /\ wireAB # <<>> /\ fr.type = "stream" /\ wireAB' = Tail(wireAB) /\ UNCHANGED <<pending, got, hole, wireBA>>
      /\ arrived' = [arrived EXCEPT ![fr.id] = @ + fr.len] BY DEF RecvStream, ReceiverReader
<1>2. /\ fr \in StreamFrames /\ fr.id \in Streams /\ fr.len \in Nat
      /\ Tail(wireAB) \in Seq(StreamFrames \cup ResetFrames) BY <1>1, WireHead
<1> HIDE DEF fr
<1>3. arrived' \in [Streams -> Nat] BY <1>1, <1>2 DEF Types, ReaderTypes
<1>4. CASE fr.id \in Uni /\ recvMap[fr.id] = 0 /\ IsClosed(fr.id)
  <2>1. /\ ignored' = ignored + fr.len
        /\ UNCHANGED <<reader, connR, fault, recvMap, recvOff, created,
                           holes, acceptQ, fronts, limR, strR, rx, control>> BY <1>4 DEF RecvStream, fr
  <2>2. ignored' \in Nat BY <1>2, <2>1 DEF Types, ReaderTypes
  <2>3. ReaderTypes' BY <1>3, <2>1, <2>2 DEF Types, ReaderTypes
  <2>4. CreditTypes' /\ AppTypes' /\ WireTypes' BY <1>1, <1>2, <2>1 DEF Types, CreditTypes, AppTypes, WireTypes
  <2> QED BY <2>3, <2>4 DEF ReceiverTypes
<1>5. CASE ~(fr.id \in Uni /\ recvMap[fr.id] = 0 /\ IsClosed(fr.id)) /\ ~MayReceive(connR, fr.len)
  <2>1. Fail("flow") BY <1>5 DEF RecvStream, fr
  <2>2. WireTypes' BY <1>1, <1>2, <2>1 DEF Fail, Types, WireTypes
  <2> QED BY <1>1, <1>3, <2>1, <2>2, FailTypes
<1>6. CASE ~(fr.id \in Uni /\ recvMap[fr.id] = 0 /\ IsClosed(fr.id)) /\ MayReceive(connR, fr.len)
  <2>1. /\ connR' = Receive(connR, fr.len) /\ reader' = [Idle EXCEPT !.pc = "stream", !.frame = fr]
        /\ UNCHANGED <<fault, recvMap, recvOff, created, holes, acceptQ,
                           fronts, ignored, limR, strR, rx, control>> BY <1>6 DEF RecvStream, fr
  <2>2. connR' \in CreditState BY <1>2, <2>1, CreditFields DEF Types, CreditTypes
  <2>3. reader' \in ReaderStates /\ reader'.pc = "stream" /\ reader'.frame = fr
    BY <1>2, <2>1, ReaderShapes, Zenon DEF StreamPcs
  <2> QED BY <1>1, <1>2, <1>3, <2>1, <2>2, <2>3
          DEF Types, ReceiverTypes, ReaderTypes, CreditTypes, AppTypes, WireTypes, StreamPcs, ResetPcs
<1> QED BY <1>4, <1>5, <1>6

\* The four ways RouteStream goes on.
RouteLive(s, f, frame) ==
  /\ recvMap[s] # 0 /\ MayReceive(strR[f], frame.len) /\ strR' = [strR EXCEPT ![f] = Receive(@, frame.len)]
  /\ recvOff' = [recvOff EXCEPT ![s] = @ + frame.len]
  /\ rx' = IF frame.len = 0 /\ ~frame.fin THEN rx ELSE Deliver(f, frame)
  /\ recvMap' = IF frame.fin THEN [recvMap EXCEPT ![s] = 0] ELSE recvMap
  /\ reader' = Idle /\ UNCHANGED <<fault, created, holes, acceptQ, fronts, ignored, connR, limR, control>>

\* RouteStream for a stream of ours that is out of the map: the frame is
\* dropped.
RouteOwn(s) ==
  /\ recvMap[s] = 0 /\ s \in Own /\ reader' = Idle
  /\ UNCHANGED <<fault, recvMap, recvOff, created, holes, acceptQ,
                 fronts, ignored, connR, limR, strR, rx, control>>

\* RouteStream where the peer broke a limit.
RouteFail(s, f, frame) ==
  \/ recvMap[s] # 0 /\ ~MayReceive(strR[f], frame.len) /\ Fail("flow")
  \/ recvMap[s] = 0 /\ s \in Uni /\ ~MayReceiveUpTo(limR, s + 1) /\ Fail("limit")
  \/ recvMap[s] = 0 /\ s \in Uni /\ frame.len > StreamWindow /\ Fail("flow")

\* RouteStream for a stream of the peer's that is not in the map: a receiving
\* half is made.
RouteNew(s, frame) ==
  /\ recvMap[s] = 0 /\ s \in Uni /\ MayReceiveUpTo(limR, s + 1) /\ fronts[s] < MaxFronts
  /\ limR' = ReceiveUpTo(limR, s + 1) /\ Record(s) /\ fronts' = [fronts EXCEPT ![s] = @ + 1]
  /\ strR' = [strR EXCEPT ![<<s, fronts[s] + 1>>] =
                Receive(NewCredit(StreamWindow), frame.len)]
  /\ reader' = [reader EXCEPT !.pc = "accept"]
  /\ UNCHANGED <<fault, recvMap, recvOff, acceptQ, ignored, connR, rx, control>>

\* RouteStream does one of the four things above or hands the frame to a live
\* stream.
LEMMA RouteCases ==
  ASSUME Types, RouteStream
  PROVE  LET frame == reader.frame
             s == frame.id
             f == <<s, recvMap[s]>>
         IN  /\ reader.pc = "stream" /\ UNCHANGED <<wireAB, arrived>>
             /\ s \in Streams /\ frame \in StreamFrames /\ frame.len \in Nat
             /\ frame.fin \in BOOLEAN /\ frame.off \in Nat
             /\ recvMap[s] # 0 => f \in Fronts
             /\ \/ RouteLive(s, f, frame) \/ RouteOwn(s) \/ RouteFail(s, f, frame)
                \/ RouteNew(s, frame)
<1>. DEFINE frame == reader.frame
            s == frame.id
            f == <<s, recvMap[s]>>
<1>1. reader.pc = "stream" /\ UNCHANGED <<wireAB, arrived>> BY DEF RouteStream
<1>2. s \in Streams /\ frame \in StreamFrames /\ frame.len \in Nat /\ frame.fin \in BOOLEAN /\ frame.off \in Nat
  BY <1>1, ReaderFields DEF Types, StreamPcs
<1>3. recvMap[s] # 0 => f \in Fronts
  <2>1. recvMap[s] \in 0 .. MaxFronts BY <1>2 DEF Types, ReaderTypes
  <2>2. recvMap[s] # 0 => recvMap[s] \in 1 .. MaxFronts BY <2>1, FrontBound
  <2> QED BY <1>2, <2>2, FrontOf
<1>4. ASSUME recvMap[s] # 0, MayReceive(strR[f], frame.len) PROVE RouteLive(s, f, frame)
  BY <1>4 DEF RouteStream, RouteLive
<1>5. ASSUME recvMap[s] # 0, ~MayReceive(strR[f], frame.len) PROVE RouteFail(s, f, frame)
  BY <1>5 DEF RouteStream, RouteFail
<1>6. ASSUME recvMap[s] = 0, s \in Own PROVE RouteOwn(s) BY <1>6 DEF RouteStream, RouteOwn, creditVars
<1>7. ASSUME recvMap[s] = 0, s \notin Own, ~MayReceiveUpTo(limR, s + 1) PROVE RouteFail(s, f, frame)
  <2>1. Fail("limit") /\ s \in Uni BY <1>7, <1>2, UniOrOwn DEF RouteStream
  <2> QED BY <1>7, <2>1 DEF RouteFail
<1>8. ASSUME recvMap[s] = 0, s \notin Own, MayReceiveUpTo(limR, s + 1), frame.len > StreamWindow
      PROVE  RouteFail(s, f, frame)
  <2>1. Fail("flow") /\ s \in Uni BY <1>8, <1>2, UniOrOwn DEF RouteStream
  <2> QED BY <1>8, <2>1 DEF RouteFail
<1>9. ASSUME recvMap[s] = 0, s \notin Own, MayReceiveUpTo(limR, s + 1), ~(frame.len > StreamWindow)
      PROVE  RouteNew(s, frame)
  <2>1. s \in Uni BY <1>9, <1>2, UniOrOwn
  <2> QED BY <1>9, <2>1 DEF RouteStream, RouteNew
<1>10. \/ RouteLive(s, f, frame) \/ RouteOwn(s) \/ RouteFail(s, f, frame) \/ RouteNew(s, frame)
  BY <1>4, <1>5, <1>6, <1>7, <1>8, <1>9
<1> QED BY <1>1, <1>2, <1>3, <1>10

\* Routing a STREAM frame keeps the types.
LEMMA RouteStreamTypes ==
  ASSUME Types, ReceiverReader, RouteStream
  PROVE  ReceiverTypes' /\ WireTypes'
<1>. DEFINE frame == reader.frame
            s == frame.id
            f == <<s, recvMap[s]>>
            new == <<s, fronts[s] + 1>>
<1>1. /\ reader.pc = "stream" /\ UNCHANGED <<wireAB, arrived>>
      /\ s \in Streams /\ frame \in StreamFrames /\ frame.len \in Nat /\ frame.fin \in BOOLEAN
      /\ recvMap[s] # 0 => f \in Fronts
      /\ \/ RouteLive(s, f, frame) \/ RouteOwn(s) \/ RouteFail(s, f, frame)
         \/ RouteNew(s, frame) BY RouteCases
<1>2. UNCHANGED <<pending, got, hole, wireBA>> BY DEF ReceiverReader
<1>3. CASE RouteLive(s, f, frame)
  <2>1. strR' \in [Fronts -> CreditState]
    <3>1. f \in Fronts /\ Receive(strR[f], frame.len) \in CreditState
      BY <1>1, <1>3, CreditFields, ZenonT(30) DEF RouteLive, Types, CreditTypes
    <3> QED BY <3>1, <1>3 DEF RouteLive, Types, CreditTypes
  <2>2. rx' \in [Fronts -> RxStates] BY <1>1, <1>3, DeliverTypes DEF RouteLive, Types, AppTypes
  <2>3. recvOff' \in [Streams -> Nat] /\ recvMap' \in [Streams -> 0 .. MaxFronts]
    BY <1>1, <1>3, FrontBound DEF RouteLive, Types, ReaderTypes
  <2>4. reader' = Idle /\ reader'.pc = "idle" /\ reader' \in ReaderStates BY <1>3, ReaderShapes DEF RouteLive
  <2>5. UNCHANGED <<fault, created, holes, acceptQ, fronts, ignored, connR, limR, control>> BY <1>3 DEF RouteLive
  <2> QED BY <1>1, <1>2, <2>1, <2>2, <2>3, <2>4, <2>5
    DEF Types, ReceiverTypes, ReaderTypes, CreditTypes, AppTypes, WireTypes, StreamPcs, ResetPcs
<1>4. CASE RouteOwn(s)
  <2>1. reader' = Idle /\ reader'.pc = "idle" /\ reader' \in ReaderStates BY <1>4, ReaderShapes DEF RouteOwn
  <2> QED BY <1>1, <1>2, <1>4, <2>1
    DEF RouteOwn, Types, ReceiverTypes, ReaderTypes, CreditTypes, AppTypes, WireTypes, StreamPcs, ResetPcs
<1>5. CASE RouteFail(s, f, frame)
  <2>1. PICK k \in {"flow", "limit"} : Fail(k) BY <1>5 DEF RouteFail
  <2>2. WireTypes' BY <1>1, <1>2, <2>1 DEF Fail, Types, WireTypes
  <2>3. arrived' \in [Streams -> Nat] BY <1>1 DEF Types, ReaderTypes
  <2> QED BY <1>2, <2>1, <2>2, <2>3, FailTypes
<1>6. CASE RouteNew(s, frame)
  <2>0. fronts[s] \in 0 .. MaxFronts /\ fronts[s] < MaxFronts BY <1>1, <1>6 DEF RouteNew, Types, ReaderTypes
  <2>1. fronts[s] + 1 \in 1 .. MaxFronts /\ new \in Fronts /\ s + 1 \in Nat
    <3>1. fronts[s] + 1 \in 1 .. MaxFronts BY <2>0, FrontBound
    <3>2. new \in Fronts BY <1>1, <3>1, FrontOf
    <3>3. s + 1 \in Nat BY <1>1, UniOrOwn
    <3> QED BY <3>1, <3>2, <3>3
  <2>2. strR' \in [Fronts -> CreditState] /\ limR' \in CreditState
    <3>1. Receive(NewCredit(StreamWindow), frame.len) \in CreditState
      <4>1. NewCredit(StreamWindow) \in CreditState BY SizesAreNatural DEF CreditState, NewCredit
      <4> QED BY <4>1, <1>1, CreditFields
    <3>2. ReceiveUpTo(limR, s + 1) \in CreditState BY <2>1, CreditFields DEF Types, CreditTypes
    <3> QED BY <3>1, <3>2, <1>6, <2>1 DEF RouteNew, Types, CreditTypes
  <2>3. created' \in -1 .. NumUni - 1 /\ holes' \in SUBSET Uni BY <1>6, RecordTypes DEF RouteNew, Types
  <2>4. fronts' \in [Streams -> 0 .. MaxFronts] /\ fronts'[s] > 0
    <3>1. fronts' = [fronts EXCEPT ![s] = fronts[s] + 1] BY <1>6 DEF RouteNew
    <3>2. fronts \in [Streams -> 0 .. MaxFronts] BY DEF Types, ReaderTypes
    <3>3. fronts[s] + 1 \in 0 .. MaxFronts /\ fronts[s] + 1 > 0 BY <2>1, FrontBound
    <3> QED BY <1>1, <3>1, <3>2, <3>3
  <2>5. reader' \in ReaderStates /\ reader'.pc = "accept" /\ reader'.frame = reader.frame
    <3>1. reader' = [reader EXCEPT !.pc = "accept"] /\ reader \in ReaderStates BY <1>6 DEF RouteNew, Types, ReaderTypes
    <3> QED BY <3>1 DEF StreamPcs, ReaderStates
  <2>6. UNCHANGED <<fault, recvMap, recvOff, acceptQ, ignored, connR, rx, control>> BY <1>6 DEF RouteNew
  <2> QED BY <1>1, <1>2, <2>2, <2>3, <2>4, <2>5, <2>6
    DEF Types, ReceiverTypes, ReaderTypes, CreditTypes, AppTypes, WireTypes, StreamPcs, ResetPcs
<1> QED BY <1>1, <1>3, <1>4, <1>5, <1>6

\* The three ways RecvStream goes on with the frame it takes.
TakeLate(frame) ==
  /\ frame.id \in Uni /\ recvMap[frame.id] = 0 /\ IsClosed(frame.id) /\ ignored' = ignored + frame.len
  /\ UNCHANGED <<reader, connR, fault, recvMap, recvOff, created, holes, acceptQ,
                 fronts, limR, strR, rx, control>>

\* RecvStream where the frame does not fit the connection's window.
TakeFail(frame) ==
  ~MayReceive(connR, frame.len) /\ Fail("flow")

\* RecvStream where the frame is counted and goes on to be routed.
Take(frame) ==
  /\ ~(frame.id \in Uni /\ recvMap[frame.id] = 0 /\ IsClosed(frame.id))
  /\ MayReceive(connR, frame.len) /\ connR' = Receive(connR, frame.len)
  /\ reader' = [Idle EXCEPT !.pc = "stream", !.frame = frame]
  /\ UNCHANGED <<fault, recvMap, recvOff, created, holes, acceptQ,
                 fronts, ignored, limR, strR, rx, control>>

\* RecvStream ignores a late frame, fails or takes it.
LEMMA RecvStreamCases ==
  ASSUME Types, RecvStream
  PROVE  LET frame == Head(wireAB)
         IN  /\ reader.pc = "idle" /\ wireAB # <<>> /\ frame.type = "stream" /\ wireAB' = Tail(wireAB)
             /\ arrived' = [arrived EXCEPT ![frame.id] = @ + frame.len]
             /\ frame \in StreamFrames /\ frame.id \in Streams /\ frame.len \in Nat
             /\ frame.off \in Nat /\ frame.fin \in BOOLEAN
             /\ TakeLate(frame) \/ TakeFail(frame) \/ Take(frame)
<1>. DEFINE frame == Head(wireAB)
<1>1. /\ reader.pc = "idle" /\ wireAB # <<>> /\ frame.type = "stream" /\ wireAB' = Tail(wireAB)
      /\ arrived' = [arrived EXCEPT ![frame.id] = @ + frame.len] BY DEF RecvStream
<1>2. /\ frame \in StreamFrames /\ frame.id \in Streams /\ frame.len \in Nat
      /\ frame.off \in Nat /\ frame.fin \in BOOLEAN BY <1>1, WireHead
<1>3. ASSUME frame.id \in Uni /\ recvMap[frame.id] = 0 /\ IsClosed(frame.id) PROVE TakeLate(frame)
  BY <1>3 DEF RecvStream, TakeLate
<1>4. ASSUME ~(frame.id \in Uni /\ recvMap[frame.id] = 0 /\ IsClosed(frame.id)),
             ~MayReceive(connR, frame.len)
      PROVE  TakeFail(frame) BY <1>4 DEF RecvStream, TakeFail
<1>5. ASSUME ~(frame.id \in Uni /\ recvMap[frame.id] = 0 /\ IsClosed(frame.id)),
             MayReceive(connR, frame.len)
      PROVE  Take(frame) BY <1>5 DEF RecvStream, Take
<1>6. TakeLate(frame) \/ TakeFail(frame) \/ Take(frame) BY <1>3, <1>4, <1>5
<1> QED BY <1>1, <1>2, <1>6

\* The three ways RecvReset goes on.
ResetLate(s) ==
  /\ recvMap[s] = 0 /\ (s \in Own \/ IsClosed(s))
  /\ UNCHANGED <<reader, limR, fault, recvMap, recvOff, created, holes, acceptQ,
                 fronts, ignored, connR, strR, rx, control>>

\* RecvReset for a stream beyond the limit.
ResetFail(s) ==
  recvMap[s] = 0 /\ s \in Uni /\ ~MayReceiveUpTo(limR, s + 1) /\ Fail("limit")

\* RecvReset where the reset goes on to be accounted.
ResetTake(frame, live) ==
  /\ live = (recvMap[frame.id] # 0)
  /\ ~live => frame.id \in Uni /\ ~IsClosed(frame.id)
  /\ limR' = IF live THEN limR ELSE ReceiveUpTo(limR, frame.id + 1)
  /\ reader' = [Idle EXCEPT !.pc = "reset", !.frame = frame, !.live = live]
  /\ UNCHANGED <<fault, recvMap, recvOff, created, holes, acceptQ,
                 fronts, ignored, connR, strR, rx, control>>

\* RecvReset ignores a late reset, fails or takes it.
LEMMA RecvResetCases ==
  ASSUME Types, RecvReset
  PROVE  LET frame == Head(wireAB)
         IN  /\ reader.pc = "idle" /\ wireAB # <<>> /\ frame.type = "reset" /\ wireAB' = Tail(wireAB)
             /\ arrived' = arrived /\ frame \in ResetFrames /\ frame.id \in Streams /\ frame.final \in Nat
             /\ \/ ResetLate(frame.id) \/ ResetFail(frame.id)
                \/ \E live \in BOOLEAN : ResetTake(frame, live)
<1>. DEFINE frame == Head(wireAB)
            s == frame.id
            live == recvMap[s] # 0
<1>1. /\ reader.pc = "idle" /\ wireAB # <<>> /\ frame.type = "reset" /\ wireAB' = Tail(wireAB)
      /\ arrived' = arrived BY DEF RecvReset
<1>2. frame \in ResetFrames /\ s \in Streams /\ frame.final \in Nat BY <1>1, WireHead
<1>3. ASSUME ~live, s \in Own \/ IsClosed(s) PROVE ResetLate(s) BY <1>3 DEF RecvReset, ResetLate
<1>4. ASSUME ~live, ~(s \in Own \/ IsClosed(s)), ~MayReceiveUpTo(limR, s + 1) PROVE ResetFail(s)
  <2>1. s \in Uni BY <1>2, <1>4, UniOrOwn
  <2> QED BY <1>4, <2>1 DEF RecvReset, ResetFail
<1>5. ASSUME ~live, ~(s \in Own \/ IsClosed(s)), MayReceiveUpTo(limR, s + 1) PROVE ResetTake(frame, FALSE)
  <2>1. s \in Uni BY <1>2, <1>5, UniOrOwn
  <2>2. live = FALSE BY <1>5
  <2> QED BY <1>5, <2>1, <2>2 DEF RecvReset, ResetTake
<1>6. ASSUME live PROVE ResetTake(frame, TRUE)
  <2>1. live = TRUE BY <1>6
  <2> QED BY <1>6, <2>1 DEF RecvReset, ResetTake
<1>7. \/ ResetLate(s) \/ ResetFail(s) \/ \E l \in BOOLEAN : ResetTake(frame, l) BY <1>3, <1>4, <1>5, <1>6
<1> QED BY <1>1, <1>2, <1>7

\* The three ways AccountReset goes on.
Received(s) == IF recvMap[s] # 0 THEN recvOff[s] ELSE 0

\* The final size a reset ends up with: never below what was received.
Final(s, n) == IF n > Received(s) THEN n ELSE Received(s)

\* The bytes a reset says were sent and never arrived.
Gap(s, n) == Final(s, n) - Received(s)

\* AccountReset where the final size does not fit a window.
AccountFlow(s, n) ==
  /\ \/ IF reader.live THEN ~MayReceive(strR[<<s, recvMap[s]>>], Gap(s, n)) ELSE Final(s, n) > StreamWindow
     \/ ~MayReceive(connR, Gap(s, n))
  /\ reader.live => recvMap[s] # 0
  /\ Fail("flow")

\* AccountReset where the gap is counted and given back.
Account(s, n) ==
  /\ reader.live => recvMap[s] # 0
  /\ LET c == Receive(connR, Gap(s, n))
     IN  /\ connR' = Consume(c, Gap(s, n))
         /\ \E pc \in {"grant", "retire"} : reader' = [reader EXCEPT !.max = connR'.max, !.pc = pc]
         /\ strR' = IF reader.live THEN [strR EXCEPT ![<<s, recvMap[s]>>] = Receive(@, Gap(s, n))] ELSE strR
         /\ recvOff' = IF reader.live THEN [recvOff EXCEPT ![s] = Final(s, n)] ELSE recvOff
  /\ UNCHANGED <<fault, recvMap, created, holes, acceptQ, fronts, ignored, limR, rx, control>>

\* The gap is a natural number.
LEMMA GapTypes ==
  ASSUME ReaderTypes, NEW s \in Streams, NEW n \in Nat
  PROVE  Received(s) \in Nat /\ Final(s, n) \in Nat /\ Gap(s, n) \in Nat
<1>1. Received(s) \in Nat BY DEF ReaderTypes, Received
<1> QED BY <1>1 DEF Final, Gap

\* AccountReset fails in one of two ways or accounts.
LEMMA AccountCases ==
  ASSUME Types, AccountReset
  PROVE  LET s == reader.frame.id
             n == reader.frame.final
         IN  /\ reader.pc = "reset" /\ UNCHANGED <<wireAB, arrived>> /\ s \in Streams /\ n \in Nat /\ Gap(s, n) \in Nat
             /\ reader.live => recvMap[s] \in 0 .. MaxFronts
             /\ \/ reader.live /\ recvMap[s] = 0 /\ Fail("panic")
                \/ AccountFlow(s, n) \/ Account(s, n)
<1>. DEFINE s == reader.frame.id
            n == reader.frame.final
            f == <<s, recvMap[s]>>
            refused == \/ IF reader.live THEN ~MayReceive(strR[f], Gap(s, n)) ELSE Final(s, n) > StreamWindow
                       \/ ~MayReceive(connR, Gap(s, n))
<1>1. reader.pc = "reset" /\ UNCHANGED <<wireAB, arrived>> BY DEF AccountReset
<1>2. s \in Streams /\ n \in Nat BY <1>1, ReaderFields DEF Types, ResetPcs
<1>3. Gap(s, n) \in Nat /\ recvMap[s] \in 0 .. MaxFronts BY <1>2, GapTypes DEF Types, ReaderTypes
<1>4. ASSUME reader.live /\ recvMap[s] = 0 PROVE Fail("panic") BY <1>4 DEF AccountReset
<1>5. ASSUME ~(reader.live /\ recvMap[s] = 0), refused PROVE AccountFlow(s, n)
  <2>1. Fail("flow") BY <1>5 DEF AccountReset, Received, Final, Gap
  <2> QED BY <1>5, <2>1 DEF AccountFlow
<1>6. ASSUME ~(reader.live /\ recvMap[s] = 0), ~refused PROVE Account(s, n)
  BY <1>6 DEF AccountReset, Account, Received, Final, Gap
<1>7. (reader.live /\ recvMap[s] = 0 /\ Fail("panic")) \/ AccountFlow(s, n) \/ Account(s, n) BY <1>4, <1>5, <1>6
<1> QED BY <1>1, <1>2, <1>3, <1>7

\* RetireReset for a live stream: its receiving half learns of the reset.
RetireLive(s) ==
  /\ recvMap[s] # 0
  /\ rx' = IF rx[<<s, recvMap[s]>>].st = "dropped" THEN rx
           ELSE [rx EXCEPT ![<<s, recvMap[s]>>].reset = TRUE]
  /\ recvMap' = [recvMap EXCEPT ![s] = 0] /\ reader' = Idle /\ UNCHANGED <<created, holes, limR>>

\* RetireReset for a stream of ours that is out of the map.
RetireOwn(s) ==
  recvMap[s] = 0 /\ s \in Own /\ reader' = Idle /\ UNCHANGED <<rx, recvMap, created, holes, limR>>

\* RetireReset for a stream of the peer's that never opened: its index is
\* recorded and the limit moves.
RetireUnseen(s) ==
  /\ recvMap[s] = 0 /\ s \in Uni /\ Record(s) /\ limR' = Consume(limR, 1)
  /\ reader' = Idle \/ reader' = [reader EXCEPT !.pc = "limit", !.max = limR'.max]
  /\ UNCHANGED <<rx, recvMap>>

\* RetireReset does one of the three things above.
LEMMA RetireCases ==
  ASSUME Types, RetireReset
  PROVE  LET s == reader.frame.id
         IN  /\ reader.pc = "retire" /\ s \in Streams
             /\ recvMap[s] # 0 => <<s, recvMap[s]>> \in Fronts
             /\ UNCHANGED <<fault, recvOff, acceptQ, fronts, ignored, connR, strR, control, wireAB, arrived>>
             /\ RetireLive(s) \/ RetireOwn(s) \/ RetireUnseen(s)
<1>. DEFINE s == reader.frame.id
<1>1. /\ reader.pc = "retire"
      /\ UNCHANGED <<fault, recvOff, acceptQ, fronts, ignored, connR, strR, control, wireAB, arrived>>
  BY DEF RetireReset
<1>2. s \in Streams BY <1>1, ReaderFields DEF Types, ResetPcs
<1>3. recvMap[s] # 0 => <<s, recvMap[s]>> \in Fronts BY <1>2, StreamFacts DEF Types, ReaderTypes
<1>4. ASSUME recvMap[s] # 0 PROVE RetireLive(s) BY <1>4 DEF RetireReset, RetireLive
<1>5. ASSUME recvMap[s] = 0, s \in Own PROVE RetireOwn(s) BY <1>5 DEF RetireReset, RetireOwn
<1>6. ASSUME recvMap[s] = 0, s \notin Own PROVE RetireUnseen(s)
  <2>1. s \in Uni BY <1>2, <1>6, UniOrOwn
  <2> QED BY <1>6, <2>1 DEF RetireReset, RetireUnseen
<1>7. RetireLive(s) \/ RetireOwn(s) \/ RetireUnseen(s) BY <1>4, <1>5, <1>6
<1> QED BY <1>1, <1>2, <1>3, <1>7

\* Offering a new stream to the application keeps the types.
LEMMA OfferTypes ==
  ASSUME Types, ReceiverReader, OfferStream
  PROVE  ReceiverTypes' /\ WireTypes'
<1>. DEFINE s == reader.frame.id
            f == <<s, fronts[s]>>
<1>1. /\ reader.pc = "accept" /\ acceptQ' = Append(acceptQ, f) /\ rx' = [rx EXCEPT ![f].st = "queued"]
      /\ reader' = [reader EXCEPT !.pc = "insert"]
      /\ UNCHANGED <<fault, recvMap, recvOff, created, holes, fronts, ignored,
                     creditVars, control, wireAB, arrived>>
      /\ UNCHANGED <<pending, got, hole, wireBA>> BY DEF OfferStream, ReceiverReader
<1>2. s \in Streams /\ fronts[s] \in 1 .. MaxFronts /\ reader.frame \in StreamFrames
  <2>1. s \in Streams /\ reader.frame \in StreamFrames BY <1>1, ReaderFields DEF Types, StreamPcs
  <2> QED BY <1>1, <2>1 DEF Types, ReaderTypes
<1>3. f \in Fronts BY <1>2, FrontOf
<1>4. acceptQ' \in Seq(Fronts)
  <2>1. acceptQ \in Seq(Fronts) BY DEF Types, ReaderTypes
  <2> QED BY <1>1, <1>3, <2>1, AppendProperties
<1>5. rx' \in [Fronts -> RxStates] BY <1>1, <1>3, ZenonT(30) DEF Types, AppTypes, RxStates
<1>6. reader' \in ReaderStates /\ reader'.pc = "insert" /\ reader'.frame = reader.frame
  BY <1>1 DEF Types, ReaderTypes, ReaderStates, StreamPcs
<1>7. ReaderTypes'
  <2>1. fronts'[s] > 0 BY <1>1, <1>2
  <2> QED BY <1>1, <1>2, <1>4, <1>6, <2>1 DEF Types, ReaderTypes, StreamPcs, ResetPcs
<1>8. CreditTypes' /\ AppTypes' /\ WireTypes' BY <1>1, <1>5 DEF Types, CreditTypes, AppTypes, WireTypes, creditVars
<1> QED BY <1>7, <1>8 DEF ReceiverTypes

\* Entering a new stream in the map keeps the types.
LEMMA InsertTypes ==
  ASSUME Types, ReceiverReader, InsertStream
  PROVE  ReceiverTypes' /\ WireTypes'
<1>. DEFINE frame == reader.frame
            s == frame.id
            f == <<s, fronts[s]>>
<1>1. /\ reader.pc = "insert" /\ rx' = (IF frame.len = 0 /\ ~frame.fin THEN rx ELSE Deliver(f, frame))
      /\ recvMap' \in {recvMap, [recvMap EXCEPT ![s] = fronts[s]]}
      /\ recvOff' \in {recvOff, [recvOff EXCEPT ![s] = frame.len]} /\ reader' = Idle
      /\ UNCHANGED <<fault, created, holes, acceptQ, fronts, ignored, creditVars,
                     control, wireAB, arrived>>
      /\ UNCHANGED <<pending, got, hole, wireBA>> BY DEF InsertStream, ReceiverReader
<1>2. s \in Streams /\ fronts[s] \in 1 .. MaxFronts /\ frame \in StreamFrames /\ frame.len \in Nat
  <2>1. s \in Streams /\ frame \in StreamFrames /\ frame.len \in Nat BY <1>1, ReaderFields DEF Types, StreamPcs
  <2> QED BY <1>1, <2>1 DEF Types, ReaderTypes
<1>3. f \in Fronts BY <1>2, FrontOf
<1>4. rx' \in [Fronts -> RxStates] BY <1>1, <1>2, <1>3, DeliverTypes DEF Types, AppTypes
<1>5. reader' \in ReaderStates /\ reader'.pc = "idle" BY <1>1, ReaderShapes
<1>6. recvMap' \in [Streams -> 0 .. MaxFronts] /\ recvOff' \in [Streams -> Nat]
  <2>1. fronts[s] \in 0 .. MaxFronts BY <1>2, FrontBound
  <2> QED BY <1>1, <1>2, <2>1 DEF Types, ReaderTypes
<1>7. ReaderTypes' BY <1>1, <1>5, <1>6 DEF Types, ReaderTypes, StreamPcs, ResetPcs
<1>8. CreditTypes' /\ AppTypes' /\ WireTypes' BY <1>1, <1>4 DEF Types, CreditTypes, AppTypes, WireTypes, creditVars
<1> QED BY <1>7, <1>8 DEF ReceiverTypes

\* Taking a reset off the wire keeps the types.
LEMMA RecvResetTypes ==
  ASSUME Types, ReceiverReader, RecvReset
  PROVE  ReceiverTypes' /\ WireTypes'
<1>. DEFINE frame == Head(wireAB)
            s == frame.id
<1>1. /\ wireAB # <<>> /\ wireAB' = Tail(wireAB) /\ arrived' = arrived /\ frame \in ResetFrames /\ s \in Streams
      /\ \/ ResetLate(s) \/ ResetFail(s) \/ \E live \in BOOLEAN : ResetTake(frame, live) BY RecvResetCases
<1>2. UNCHANGED <<pending, got, hole, wireBA>> /\ wireAB' \in Seq(StreamFrames \cup ResetFrames)
  BY <1>1, WireHead DEF ReceiverReader
<1>3. CASE ResetLate(s)
  BY <1>1, <1>2, <1>3 DEF ResetLate, Types, ReceiverTypes, ReaderTypes, CreditTypes, AppTypes, WireTypes
<1>4. CASE ResetFail(s)
  <2>1. Fail("limit") BY <1>4 DEF ResetFail
  <2>2. WireTypes' BY <1>1, <1>2, <2>1 DEF Fail, Types, WireTypes
  <2>3. arrived' \in [Streams -> Nat] BY <1>1 DEF Types, ReaderTypes
  <2> QED BY <1>2, <2>1, <2>2, <2>3, FailTypes
<1>5. ASSUME NEW live \in BOOLEAN, ResetTake(frame, live) PROVE ReceiverTypes' /\ WireTypes'
  <2>1. reader' \in ReaderStates /\ reader'.pc = "reset" /\ reader'.frame = frame
    <3>1. reader' = [Idle EXCEPT !.pc = "reset", !.frame = frame, !.live = live] BY <1>5 DEF ResetTake
    <3> QED BY <1>1, <3>1 DEF Idle, ReaderStates, ResetPcs
  <2>2. limR' \in CreditState
    <3>1. s + 1 \in Nat BY <1>1, UniOrOwn
    <3>2. ReceiveUpTo(limR, s + 1) \in CreditState /\ limR \in CreditState BY <3>1, CreditFields DEF Types, CreditTypes
    <3> QED BY <1>5, <3>2 DEF ResetTake
  <2>3. ReaderTypes' BY <1>1, <1>5, <2>1 DEF ResetTake, Types, ReaderTypes, StreamPcs, ResetPcs
  <2>4. CreditTypes' /\ AppTypes' /\ WireTypes'
    BY <1>2, <1>5, <2>2 DEF ResetTake, Types, CreditTypes, AppTypes, WireTypes
  <2> QED BY <2>3, <2>4 DEF ReceiverTypes
<1> QED BY <1>1, <1>3, <1>4, <1>5

\* Accounting for a reset keeps the types.
LEMMA AccountTypes ==
  ASSUME Types, ReceiverReader, AccountReset
  PROVE  ReceiverTypes' /\ WireTypes'
<1>. DEFINE s == reader.frame.id
            n == reader.frame.final
            f == <<s, recvMap[s]>>
<1>1. /\ reader.pc = "reset" /\ UNCHANGED <<wireAB, arrived>> /\ s \in Streams /\ n \in Nat /\ Gap(s, n) \in Nat
      /\ \/ reader.live /\ recvMap[s] = 0 /\ Fail("panic")
         \/ AccountFlow(s, n) \/ Account(s, n) BY AccountCases
<1>2. UNCHANGED <<pending, got, hole, wireBA>> BY DEF ReceiverReader
<1>3. ASSUME NEW k \in {"panic", "flow"}, Fail(k) PROVE ReceiverTypes' /\ WireTypes'
  <2>2. WireTypes' BY <1>1, <1>2, <1>3 DEF Fail, Types, WireTypes
  <2>3. arrived' \in [Streams -> Nat] BY <1>1 DEF Types, ReaderTypes
  <2> QED BY <1>2, <1>3, <2>2, <2>3, FailTypes
<1>4. CASE Account(s, n)
  <2>1. Receive(connR, Gap(s, n)) \in CreditState BY <1>1, CreditFields DEF Types, CreditTypes
  <2>2. connR' \in CreditState /\ connR'.max \in Nat
    <3>1. connR' = Consume(Receive(connR, Gap(s, n)), Gap(s, n)) BY <1>4 DEF Account
    <3>2. connR' \in CreditState BY <1>1, <2>1, <3>1, ConsumeMovesWindow
    <3> QED BY <3>2, CreditFields
  <2>3. PICK pc \in {"grant", "retire"} : reader' = [reader EXCEPT !.max = connR'.max, !.pc = pc] BY <1>4 DEF Account
  <2>4. reader' \in ReaderStates /\ reader'.pc = pc /\ reader'.frame = reader.frame
    BY <2>2, <2>3 DEF Types, ReaderTypes, ReaderStates, ResetPcs
  <2>5. strR' \in [Fronts -> CreditState]
    <3>1. CASE reader.live
      <4>1. f \in Fronts BY <1>1, <1>4, <3>1, StreamFacts DEF Account, Types, ReaderTypes
      <4>2. Receive(strR[f], Gap(s, n)) \in CreditState BY <1>1, <4>1, CreditFields DEF Types, CreditTypes
      <4> QED BY <1>4, <3>1, <4>1, <4>2 DEF Account, Types, CreditTypes
    <3>2. CASE ~reader.live BY <1>4, <3>2 DEF Account, Types, CreditTypes
    <3> QED BY <3>1, <3>2
  <2>6. recvOff' \in [Streams -> Nat]
    <3>1. Final(s, n) \in Nat BY <1>1, GapTypes DEF Types
    <3> QED BY <1>1, <1>4, <3>1 DEF Account, Types, ReaderTypes
  <2>7. UNCHANGED <<fault, recvMap, created, holes, acceptQ, fronts, ignored, limR, rx, control>> BY <1>4 DEF Account
  <2>8. ReaderTypes'
    <3>1. reader.frame \in ResetFrames BY <1>1, ReaderFields DEF Types, ResetPcs
    <3> QED BY <1>1, <2>3, <2>4, <2>6, <2>7, <3>1 DEF Types, ReaderTypes, StreamPcs, ResetPcs
  <2>9. CreditTypes' /\ AppTypes' /\ WireTypes'
    BY <1>1, <1>2, <2>2, <2>5, <2>7 DEF Types, CreditTypes, AppTypes, WireTypes
  <2> QED BY <2>8, <2>9 DEF ReceiverTypes
<1>5. CASE AccountFlow(s, n) BY <1>3, <1>5 DEF AccountFlow
<1> QED BY <1>1, <1>3, <1>4, <1>5

\* Queueing a limit from the reader keeps the types.
LEMMA GrantTypes ==
  ASSUME Types, ReceiverReader, ReaderGrant
  PROVE  ReceiverTypes' /\ WireTypes'
<1>1. /\ reader.pc \in {"grant", "limit"}
      /\ control' = Append(control, IF reader.pc = "grant" THEN MaxData(reader.max) ELSE MaxStreams(reader.max))
      /\ reader' = IF reader.pc = "grant" THEN [reader EXCEPT !.pc = "retire"] ELSE Idle
      /\ UNCHANGED <<fault, recvMap, recvOff, created, holes, acceptQ, fronts,
                     ignored, creditVars, rx, wireAB, arrived>>
      /\ UNCHANGED <<pending, got, hole, wireBA>> BY DEF ReaderGrant, ReceiverReader
<1>2. control' \in Seq(ControlFrames)
  <2>1. MaxData(reader.max) \in ControlFrames /\ MaxStreams(reader.max) \in ControlFrames
    BY FrameTypes, ReaderFields DEF Types
  <2>2. control \in Seq(ControlFrames) BY DEF Types, AppTypes
  <2> QED BY <1>1, <2>1, <2>2, AppendProperties
<1>3. ReaderTypes'
  <2>1. reader.frame \in ResetFrames BY <1>1, ReaderFields DEF Types, ResetPcs
  <2>2. CASE reader.pc = "grant"
    <3>1. reader' \in ReaderStates /\ reader'.pc = "retire" /\ reader'.frame = reader.frame
      BY <1>1, <2>2 DEF Types, ReaderTypes, ReaderStates, ResetPcs
    <3> QED BY <1>1, <2>1, <3>1 DEF Types, ReaderTypes, StreamPcs, ResetPcs
  <2>3. CASE reader.pc # "grant"
    <3>1. reader' \in ReaderStates /\ reader'.pc = "idle" BY <1>1, <2>3, ReaderShapes
    <3> QED BY <1>1, <3>1 DEF Types, ReaderTypes, StreamPcs, ResetPcs
  <2> QED BY <2>2, <2>3
<1>4. CreditTypes' /\ AppTypes' /\ WireTypes' BY <1>1, <1>2 DEF Types, CreditTypes, AppTypes, WireTypes, creditVars
<1> QED BY <1>3, <1>4 DEF ReceiverTypes

\* Retiring a stream that was reset keeps the types.
LEMMA RetireTypes ==
  ASSUME Types, ReceiverReader, RetireReset
  PROVE  ReceiverTypes' /\ WireTypes'
<1>. DEFINE s == reader.frame.id
            f == <<s, recvMap[s]>>
<1>1. /\ reader.pc = "retire" /\ s \in Streams
      /\ recvMap[s] # 0 => f \in Fronts
      /\ UNCHANGED <<fault, recvOff, acceptQ, fronts, ignored, connR, strR, control, wireAB, arrived>>
      /\ RetireLive(s) \/ RetireOwn(s) \/ RetireUnseen(s) BY RetireCases
<1>2. UNCHANGED <<pending, got, hole, wireBA>> BY DEF ReceiverReader
<1>3. ASSUME reader' = Idle PROVE reader' \in ReaderStates /\ reader'.pc = "idle" BY <1>3, ReaderShapes
<1>4. CASE RetireLive(s)
  <2>1. rx' \in [Fronts -> RxStates] BY <1>1, <1>4, ZenonT(30) DEF RetireLive, Types, AppTypes, RxStates
  <2>2. recvMap' \in [Streams -> 0 .. MaxFronts] BY <1>1, <1>4, FrontBound DEF RetireLive, Types, ReaderTypes
  <2>3. reader' \in ReaderStates /\ reader'.pc = "idle" /\ UNCHANGED <<created, holes, limR>>
    BY <1>3, <1>4 DEF RetireLive
  <2> QED BY <1>1, <1>2, <2>1, <2>2, <2>3
    DEF Types, ReceiverTypes, ReaderTypes, CreditTypes, AppTypes, WireTypes, StreamPcs, ResetPcs
<1>5. CASE RetireOwn(s)
  <2>3. reader' \in ReaderStates /\ reader'.pc = "idle" /\ UNCHANGED <<created, holes, limR, rx, recvMap>>
    BY <1>3, <1>5 DEF RetireOwn
  <2> QED BY <1>1, <1>2, <2>3
    DEF Types, ReceiverTypes, ReaderTypes, CreditTypes, AppTypes, WireTypes, StreamPcs, ResetPcs
<1>6. CASE RetireUnseen(s)
  <2>1. created' \in -1 .. NumUni - 1 /\ holes' \in SUBSET Uni BY <1>6, RecordTypes DEF RetireUnseen, Types
  <2>2. limR' \in CreditState /\ limR'.max \in Nat
    <3>1. limR' \in CreditState BY <1>6, ConsumeMovesWindow DEF RetireUnseen, Types, CreditTypes
    <3> QED BY <3>1, CreditFields
  <2>3. reader' \in ReaderStates /\ (reader'.pc = "idle" \/ (reader'.pc = "limit" /\ reader'.frame = reader.frame))
    <3>1. CASE reader' = Idle BY <1>3, <3>1
    <3>2. CASE reader' = [reader EXCEPT !.pc = "limit", !.max = limR'.max]
      BY <2>2, <3>2 DEF Types, ReaderTypes, ReaderStates, ResetPcs
    <3> QED BY <1>6, <3>1, <3>2 DEF RetireUnseen
  <2>4. ReaderTypes'
    <3>1. reader.frame \in ResetFrames BY <1>1, ReaderFields DEF Types, ResetPcs
    <3> QED BY <1>1, <1>6, <2>1, <2>3, <3>1 DEF RetireUnseen, Types, ReaderTypes, StreamPcs, ResetPcs
  <2>5. CreditTypes' /\ AppTypes' /\ WireTypes'
    BY <1>1, <1>2, <1>6, <2>2 DEF RetireUnseen, Types, CreditTypes, AppTypes, WireTypes
  <2> QED BY <2>4, <2>5 DEF ReceiverTypes
<1> QED BY <1>1, <1>4, <1>5, <1>6

----------------------------------------------------------------------------
(* Types: the receiving application, and every step                       *)

\* Accepting a stream keeps the types.
LEMMA AcceptTypes ==
  ASSUME Types, Accept
  PROVE  ReceiverTypes' /\ WireTypes'
<1>1. /\ acceptQ # <<>> /\ rx' = [rx EXCEPT ![Head(acceptQ)].st = "held"] /\ acceptQ' = Tail(acceptQ)
      /\ UNCHANGED <<recvMap, recvOff, created, holes, reader, fronts, arrived,
               ignored, connR, limR, strR, pending, got, hole, control, wireAB, wireBA, fault>>
  BY DEF Accept, AcceptUni, creditVars
<1>2. Head(acceptQ) \in Fronts /\ Tail(acceptQ) \in Seq(Fronts) BY <1>1 DEF Types, ReaderTypes
<1>3. rx' \in [Fronts -> RxStates] BY <1>1, <1>2, ZenonT(30) DEF Types, AppTypes, RxStates
<1> QED BY <1>1, <1>2, <1>3 DEF Types, ReceiverTypes, ReaderTypes, CreditTypes, AppTypes, WireTypes

\* What every step of a receiving application leaves alone.
AppFrame == UNCHANGED <<recvMap, recvOff, created, holes, reader, acceptQ, fronts, arrived,
                        ignored, wireAB, wireBA, fault>>

\* What report_consumed does to the credits.
LEMMA ReportTypes ==
  ASSUME Types, NEW f \in Fronts, NEW n \in Nat, ReportConsumed(f, n)
  PROVE  /\ strR' = [strR EXCEPT ![f] = Consume(@, n)] /\ strR' \in [Fronts -> CreditState]
         /\ connR' = Consume(connR, n) /\ connR' \in CreditState
         /\ \/ control' = control
            \/ control' = Append(control, MaxStreamData(f[1], strR'[f].max))
         /\ MaxStreamData(f[1], strR'[f].max) \in ControlFrames /\ control' \in Seq(ControlFrames)
         /\ \E g \in {NoFrame, MaxData(connR'.max)} : pending' = [pending EXCEPT ![f] = g]
         /\ MaxData(connR'.max) \in ControlFrames /\ pending' \in [Fronts -> ControlFrames \cup {NoFrame}]
<1>1. strR' = [strR EXCEPT ![f] = Consume(@, n)] /\ connR' = Consume(connR, n) BY DEF ReportConsumed
<1>2. Consume(strR[f], n) \in CreditState /\ connR' \in CreditState BY <1>1, ConsumeMovesWindow DEF Types, CreditTypes
<1>3. strR' \in [Fronts -> CreditState] BY <1>1, <1>2 DEF Types, CreditTypes
<1>4. strR'[f].max \in Nat /\ connR'.max \in Nat /\ f[1] \in Streams BY <1>2, <1>3, CreditFields, StreamFacts
<1>5. MaxStreamData(f[1], strR'[f].max) \in ControlFrames /\ MaxData(connR'.max) \in ControlFrames BY <1>4, FrameTypes
<1>6. \/ control' = control \/ control' = Append(control, MaxStreamData(f[1], strR'[f].max)) BY DEF ReportConsumed
<1>7. control' \in Seq(ControlFrames)
  <2>1. control \in Seq(ControlFrames) BY DEF Types, AppTypes
  <2> QED BY <1>5, <1>6, <2>1, AppendProperties
<1>8. PICK g \in {NoFrame, MaxData(connR'.max)} : pending' = [pending EXCEPT ![f] = g] BY DEF ReportConsumed
<1>9. pending' \in [Fronts -> ControlFrames \cup {NoFrame}] BY <1>5, <1>8 DEF Types, AppTypes
<1> QED BY <1>1, <1>2, <1>3, <1>5, <1>6, <1>7, <1>8, <1>9

\* Two updates of a receiving half keep its type.
LEMMA RxUpdates ==
  ASSUME NEW r \in RxStates, NEW d \in Seq(StreamFrames), NEW e \in BOOLEAN
  PROVE  [r EXCEPT !.data = d] \in RxStates /\ [r EXCEPT !.fin = e] \in RxStates BY DEF RxStates

\* What Read hands out: the buffer, or the frame at the head of the channel.
Source(f) == IF rx[f].buf.len = 0 THEN Head(rx[f].data) ELSE rx[f].buf

\* The bytes one read returns.
Taken(f, max) == IF max < Source(f).len THEN max ELSE Source(f).len

\* The receiving halves after a read.
ReadRx(f, max) ==
  LET refill == rx[f].buf.len = 0
      b == Source(f)
      n == Taken(f, max)
  IN  [rx EXCEPT ![f].buf = [off |-> b.off + n, len |-> b.len - n],
                 ![f].data = IF refill THEN Tail(@) ELSE @,
                 ![f].fin = IF refill THEN b.fin ELSE @]

\* What a read needs and does.
LEMMA ReadCases ==
  ASSUME Types, NEW f \in Fronts, NEW max \in 1 .. Chunk, Read(f, max)
  PROVE  /\ rx[f].st = "held" /\ pending[f] = NoFrame
         /\ rx[f].buf.len = 0 => ~rx[f].fin /\ rx[f].closed = "no" /\ rx[f].data # <<>>
         /\ Source(f).off \in Nat /\ Source(f).len \in Nat /\ Taken(f, max) \in Nat /\ Taken(f, max) <= Source(f).len
         /\ rx' = ReadRx(f, max)
         /\ hole' = (IF Source(f).off # got[f] THEN hole \cup {f} ELSE hole)
         /\ got' = [got EXCEPT ![f] = @ + Taken(f, max)]
         /\ \/ ReportConsumed(f, Taken(f, max))
            \/ Taken(f, max) = 0 /\ UNCHANGED <<strR, control, connR, pending>>
         /\ UNCHANGED <<recvMap, recvOff, created, holes, reader, acceptQ, fronts, arrived, ignored, limR>>
<1>1. /\ rx[f].st = "held" /\ pending[f] = NoFrame
      /\ rx[f].buf.len > 0 \/ (~rx[f].fin /\ rx[f].closed = "no" /\ rx[f].data # <<>>) BY DEF Read, Held
<1>2. /\ rx[f].data \in Seq(StreamFrames) /\ rx[f].buf.len \in Nat /\ rx[f].buf.off \in Nat BY RxFields DEF Types
<1>3. rx[f].buf.len = 0 => ~rx[f].fin /\ rx[f].closed = "no" /\ rx[f].data # <<>> BY <1>1, <1>2
<1>4. Source(f).off \in Nat /\ Source(f).len \in Nat
  <2>1. CASE rx[f].buf.len = 0
    <3>1. Head(rx[f].data) \in StreamFrames BY <1>2, <1>3, <2>1
    <3> QED BY <2>1, <3>1, FrameFields DEF Source
  <2>2. CASE rx[f].buf.len # 0 BY <1>2, <2>2 DEF Source
  <2> QED BY <2>1, <2>2
<1>5. Taken(f, max) \in Nat /\ Taken(f, max) <= Source(f).len BY <1>4, BoundsArePositive DEF Taken
<1>6. /\ rx' = ReadRx(f, max)
      /\ hole' = (IF Source(f).off # got[f] THEN hole \cup {f} ELSE hole)
      /\ got' = [got EXCEPT ![f] = @ + Taken(f, max)] BY DEF Read, ReadRx, Source, Taken
<1>7. \/ ReportConsumed(f, Taken(f, max))
      \/ ~(Taken(f, max) > 0) /\ UNCHANGED <<strR, control, connR, pending>> BY DEF Read, Source, Taken
<1>8. UNCHANGED <<recvMap, recvOff, created, holes, reader, acceptQ, fronts, arrived, ignored, limR>>
  BY DEF Read, readerVars
<1> QED BY <1>1, <1>3, <1>4, <1>5, <1>6, <1>7, <1>8

\* The RecvStream after a read, field by field.
LEMMA ReadEffect ==
  ASSUME Types, NEW f \in Fronts, NEW max \in 1 .. Chunk, Read(f, max)
  PROVE  /\ rx' \in [Fronts -> RxStates]
         /\ \A g \in Fronts : g # f => rx'[g] = rx[g]
         /\ rx'[f].st = rx[f].st /\ rx'[f].closed = rx[f].closed /\ rx'[f].reset = rx[f].reset
         /\ rx'[f].buf.off = Source(f).off + Taken(f, max) /\ rx'[f].buf.len = Source(f).len - Taken(f, max)
         /\ rx[f].buf.len = 0 => /\ rx'[f].data = Tail(rx[f].data) /\ rx'[f].fin = Head(rx[f].data).fin
         /\ rx[f].buf.len # 0 => rx'[f].data = rx[f].data /\ rx'[f].fin = rx[f].fin
<1>. DEFINE b == Source(f)
            n == Taken(f, max)
            bb == [off |-> b.off + n, len |-> b.len - n]
            dd == IF rx[f].buf.len = 0 THEN Tail(rx[f].data) ELSE rx[f].data
            ff == IF rx[f].buf.len = 0 THEN b.fin ELSE rx[f].fin
<1>1. rx' = ReadRx(f, max) /\ b.off \in Nat /\ b.len \in Nat /\ n \in Nat /\ n <= b.len
      /\ (rx[f].buf.len = 0 => rx[f].data # <<>>) BY ReadCases
<1>2. bb \in [off : Nat, len : Nat]
  <2> HIDE DEF b, n
  <2> QED BY <1>1
<1>3. dd \in Seq(StreamFrames) /\ ff \in BOOLEAN /\ (rx[f].buf.len = 0 => b = Head(rx[f].data))
  <2>1. rx[f].data \in Seq(StreamFrames) /\ rx[f].fin \in BOOLEAN BY RxFields DEF Types
  <2>2. CASE rx[f].buf.len = 0
    <3>1. Head(rx[f].data) \in StreamFrames /\ Tail(rx[f].data) \in Seq(StreamFrames) BY <1>1, <2>1, <2>2
    <3> QED BY <2>2, <3>1, FrameFields DEF Source
  <2>3. CASE rx[f].buf.len # 0 BY <2>1, <2>3
  <2> QED BY <2>2, <2>3
<1>4. rx' = [rx EXCEPT ![f].buf = bb, ![f].data = dd, ![f].fin = ff]
  <2>1. rx \in [Fronts -> RxStates] BY DEF Types, AppTypes
  <2>2. rx' = [rx EXCEPT ![f].buf = bb,
               ![f].data = IF rx[f].buf.len = 0 THEN Tail(@) ELSE @,
               ![f].fin = IF rx[f].buf.len = 0 THEN b.fin ELSE @] BY <1>1 DEF ReadRx
  <2> HIDE DEF b, n, bb
  <2> QED BY <2>1, <2>2 DEF RxStates
<1> HIDE DEF bb, dd, ff, b, n
<1>5. PICK r1 : r1 = [rx EXCEPT ![f].buf = bb] OBVIOUS
<1>6. r1 \in [Fronts -> RxStates] /\ (\A g \in Fronts : g # f => r1[g] = rx[g]) /\ r1[f] = [rx[f] EXCEPT !.buf = bb]
  BY <1>2, <1>5, ZenonT(30) DEF Types, AppTypes, RxStates
<1>7. PICK r2 : r2 = [r1 EXCEPT ![f].data = dd] OBVIOUS
<1>8. r2 \in [Fronts -> RxStates] /\ (\A g \in Fronts : g # f => r2[g] = rx[g]) /\ r2[f] = [r1[f] EXCEPT !.data = dd]
  <2>1. r2 \in [Fronts -> RxStates]
    <3>1. r1[f] \in RxStates /\ [r1[f] EXCEPT !.data = dd] \in RxStates BY <1>3, <1>6, <1>7, RxUpdates
    <3>2. r2 = [r1 EXCEPT ![f] = [r1[f] EXCEPT !.data = dd]] BY <1>6, <1>7
    <3> QED BY <3>1, <3>2, <1>6, <1>7
  <2>2. r2[f] = [r1[f] EXCEPT !.data = dd] /\ \A g \in Fronts : g # f => r2[g] = rx[g] BY <1>6, <1>7
  <2> QED BY <2>1, <2>2
<1>9. rx' = [r2 EXCEPT ![f].fin = ff] BY <1>4, <1>5, <1>7
<1>10. rx' \in [Fronts -> RxStates] /\ (\A g \in Fronts : g # f => rx'[g] = rx[g]) /\ rx'[f] = [r2[f] EXCEPT !.fin = ff]
  <2>1. rx' \in [Fronts -> RxStates]
    <3>1. r2[f] \in RxStates /\ [r2[f] EXCEPT !.fin = ff] \in RxStates BY <1>3, <1>8, <1>9, RxUpdates
    <3>2. rx' = [r2 EXCEPT ![f] = [r2[f] EXCEPT !.fin = ff]] BY <1>8, <1>9
    <3> QED BY <3>1, <3>2, <1>8, <1>9
  <2>2. rx'[f] = [r2[f] EXCEPT !.fin = ff] /\ \A g \in Fronts : g # f => rx'[g] = rx[g] BY <1>8, <1>9
  <2> QED BY <2>1, <2>2
<1>11. rx[f] \in RxStates /\ r1[f] \in RxStates /\ r2[f] \in RxStates BY <1>6, <1>8 DEF Types, AppTypes
<1>12. /\ rx'[f].st = rx[f].st /\ rx'[f].closed = rx[f].closed /\ rx'[f].reset = rx[f].reset
       /\ rx'[f].buf = bb /\ rx'[f].data = dd /\ rx'[f].fin = ff BY <1>6, <1>8, <1>10, <1>11 DEF RxStates
<1>13. bb.off = b.off + n /\ bb.len = b.len - n BY DEF bb
<1> QED BY <1>3, <1>10, <1>12, <1>13 DEF dd, ff, b, n

\* A read keeps the types.
LEMMA ReadTypes ==
  ASSUME Types, NEW f \in Fronts, NEW max \in 1 .. Chunk, Read(f, max)
  PROVE  CreditTypes' /\ AppTypes'
<1>1. rx' \in [Fronts -> RxStates] BY ReadEffect
<1>2. /\ Taken(f, max) \in Nat
      /\ hole' = (IF Source(f).off # got[f] THEN hole \cup {f} ELSE hole)
      /\ got' = [got EXCEPT ![f] = @ + Taken(f, max)]
      /\ \/ ReportConsumed(f, Taken(f, max))
         \/ UNCHANGED <<strR, control, connR, pending>>
      /\ limR' = limR BY ReadCases
<1>3. hole' \in SUBSET Fronts /\ got' \in [Fronts -> Nat] BY <1>2 DEF Types, AppTypes
<1>4. /\ strR' \in [Fronts -> CreditState] /\ connR' \in CreditState
      /\ control' \in Seq(ControlFrames) /\ pending' \in [Fronts -> ControlFrames \cup {NoFrame}]
  <2>1. CASE ReportConsumed(f, Taken(f, max)) BY <1>2, <2>1, ReportTypes
  <2>2. CASE UNCHANGED <<strR, control, connR, pending>> BY <2>2 DEF Types, AppTypes, CreditTypes
  <2> QED BY <1>2, <2>1, <2>2
<1> QED BY <1>1, <1>2, <1>3, <1>4 DEF Types, AppTypes, CreditTypes

\* What no step of the receiving application touches.
LEMMA ReceiverAppFrame ==
  ASSUME NEW f \in Fronts, ReceiverApp(f)
  PROVE  AppFrame /\ UNCHANGED senderVars
<1>0. UNCHANGED <<senderVars, wireAB, wireBA, fault>> BY DEF ReceiverApp
<1>1. CASE \E n \in 1 .. Chunk : Read(f, n) BY <1>0, <1>1 DEF Read, AppFrame, readerVars
<1>2. CASE ReadReset(f) BY <1>0, <1>2 DEF ReadReset, AppFrame, readerVars
<1>3. CASE AwaitClosed(f) BY <1>0, <1>3 DEF AwaitClosed, AppFrame, readerVars
<1>4. CASE Stop(f) BY <1>0, <1>4 DEF Stop, AppFrame, readerVars
<1>5. CASE DropRecv(f) BY <1>0, <1>5 DEF DropRecv, AppFrame, readerVars
<1>6. CASE SendPending(f) BY <1>0, <1>6 DEF SendPending, AppFrame, readerVars
<1> QED BY <1>1, <1>2, <1>3, <1>4, <1>5, <1>6 DEF ReceiverApp

\* The RecvStream after each of the other steps of its application.
LEMMA AppEffects ==
  ASSUME Types, NEW f \in Fronts
  PROVE  /\ ReadReset(f) =>
              /\ rx' \in [Fronts -> RxStates] /\ \A g \in Fronts : g # f => rx'[g] = rx[g]
              /\ rx'[f] = [rx[f] EXCEPT !.closed = "reset", !.reset = FALSE]
         /\ AwaitClosed(f) =>
              /\ rx' \in [Fronts -> RxStates] /\ \A g \in Fronts : g # f => rx'[g] = rx[g]
              /\ rx'[f] = [rx[f] EXCEPT !.buf = [off |-> Head(rx[f].data).off, len |-> Head(rx[f].data).len],
                             !.data = Tail(rx[f].data), !.fin = Head(rx[f].data).fin]
         /\ Stop(f) =>
              /\ rx' \in [Fronts -> RxStates] /\ \A g \in Fronts : g # f => rx'[g] = rx[g]
              /\ rx'[f] = [rx[f] EXCEPT !.closed = "stop"]
         /\ DropRecv(f) =>
              /\ rx' \in [Fronts -> RxStates] /\ \A g \in Fronts : g # f => rx'[g] = rx[g]
              /\ rx'[f] = [rx[f] EXCEPT !.st = "dropped", !.data = <<>>, !.buf = [off |-> 0, len |-> 0],
                             !.closed = IF rx[f].fin \/ rx[f].closed # "no" THEN rx[f].closed ELSE "stop"]
<1>0. rx \in [Fronts -> RxStates] /\ rx[f] \in RxStates BY DEF Types, AppTypes
<1>1. ASSUME ReadReset(f)
      PROVE /\ rx' \in [Fronts -> RxStates] /\ \A g \in Fronts : g # f => rx'[g] = rx[g]
            /\ rx'[f] = [rx[f] EXCEPT !.closed = "reset", !.reset = FALSE]
  <2>1. rx' = [rx EXCEPT ![f] = [rx[f] EXCEPT !.closed = "reset", !.reset = FALSE]] BY <1>1, <1>0 DEF ReadReset
  <2>2. [rx[f] EXCEPT !.closed = "reset", !.reset = FALSE] \in RxStates BY <1>0 DEF RxStates
  <2> QED BY <1>0, <2>1, <2>2
<1>2. ASSUME AwaitClosed(f)
      PROVE /\ rx' \in [Fronts -> RxStates] /\ \A g \in Fronts : g # f => rx'[g] = rx[g]
            /\ rx'[f] = [rx[f] EXCEPT !.buf = [off |-> Head(rx[f].data).off, len |-> Head(rx[f].data).len],
                           !.data = Tail(rx[f].data), !.fin = Head(rx[f].data).fin]
  <2>. DEFINE b == Head(rx[f].data)
              r == [rx[f] EXCEPT !.buf = [off |-> b.off, len |-> b.len], !.data = Tail(rx[f].data), !.fin = b.fin]
  <2>0. rx[f].data \in Seq(StreamFrames) /\ rx[f].data # <<>> BY <1>2, RxFields DEF AwaitClosed, Types
  <2>1. b \in StreamFrames /\ Tail(rx[f].data) \in Seq(StreamFrames) BY <2>0
  <2>2. b.off \in Nat /\ b.len \in Nat /\ b.fin \in BOOLEAN BY <2>1, FrameFields
  <2>3. rx' = [rx EXCEPT ![f] = r] BY <1>2, <1>0 DEF AwaitClosed
  <2>4. r \in RxStates
    <3>1. PICK t : t = Tail(rx[f].data) /\ t \in Seq(StreamFrames) BY <2>1
    <3>2. PICK c : c = [off |-> b.off, len |-> b.len] /\ c \in [off : Nat, len : Nat]
      <4> HIDE DEF b
      <4>1. [off |-> b.off, len |-> b.len] \in [off : Nat, len : Nat] BY <2>2
      <4> QED BY <4>1
    <3>3. r = [rx[f] EXCEPT !.buf = c, !.data = t, !.fin = b.fin] BY <3>1, <3>2
    <3> QED BY <1>0, <2>2, <3>1, <3>2, <3>3 DEF RxStates
  <2> HIDE DEF r
  <2>5. rx' \in [Fronts -> RxStates] /\ (\A g \in Fronts : g # f => rx'[g] = rx[g]) /\ rx'[f] = r BY <1>0, <2>3, <2>4
  <2> QED BY <2>5 DEF r
<1>3. ASSUME Stop(f)
      PROVE /\ rx' \in [Fronts -> RxStates] /\ \A g \in Fronts : g # f => rx'[g] = rx[g]
            /\ rx'[f] = [rx[f] EXCEPT !.closed = "stop"]
  <2>1. rx' = [rx EXCEPT ![f] = [rx[f] EXCEPT !.closed = "stop"]] BY <1>3, <1>0 DEF Stop
  <2>2. [rx[f] EXCEPT !.closed = "stop"] \in RxStates BY <1>0 DEF RxStates
  <2> QED BY <1>0, <2>1, <2>2
<1>4. ASSUME DropRecv(f)
      PROVE /\ rx' \in [Fronts -> RxStates] /\ \A g \in Fronts : g # f => rx'[g] = rx[g]
            /\ rx'[f] = [rx[f] EXCEPT !.st = "dropped", !.data = <<>>, !.buf = [off |-> 0, len |-> 0],
                           !.closed = IF rx[f].fin \/ rx[f].closed # "no" THEN rx[f].closed ELSE "stop"]
  <2>. DEFINE c == IF rx[f].fin \/ rx[f].closed # "no" THEN rx[f].closed ELSE "stop"
              r == [rx[f] EXCEPT !.st = "dropped", !.data = <<>>, !.buf = [off |-> 0, len |-> 0], !.closed = c]
  <2>1. rx' = [rx EXCEPT ![f] = r] BY <1>4, <1>0 DEF DropRecv
  <2>2. r \in RxStates
    <3>1. c \in {"no", "reset", "stop"} BY RxFields DEF Types
    <3> HIDE DEF c
    <3>2. PICK e, z : /\ e = <<>> /\ e \in Seq(StreamFrames)
                      /\ z = [off |-> 0, len |-> 0] /\ z \in [off : Nat, len : Nat]
      <4>1. <<>> \in Seq(StreamFrames) /\ [off |-> 0, len |-> 0] \in [off : Nat, len : Nat] OBVIOUS
      <4> QED BY <4>1
    <3>3. r = [rx[f] EXCEPT !.st = "dropped", !.data = e, !.buf = z, !.closed = c] BY <3>2
    <3> QED BY <1>0, <3>1, <3>2, <3>3 DEF RxStates
  <2> HIDE DEF r
  <2>3. rx' \in [Fronts -> RxStates] /\ (\A g \in Fronts : g # f => rx'[g] = rx[g]) /\ rx'[f] = r BY <1>0, <2>1, <2>2
  <2> QED BY <2>3 DEF r
<1> QED BY <1>1, <1>2, <1>3, <1>4

\* A step of the receiving application keeps the types.
LEMMA ReceiverAppTypes ==
  ASSUME Types, NEW f \in Fronts, ReceiverApp(f)
  PROVE  ReceiverTypes' /\ WireTypes' /\ SenderTypes'
<1>0. AppFrame /\ UNCHANGED senderVars BY ReceiverAppFrame
<1>1. ReaderTypes' /\ WireTypes' /\ SenderTypes'
  BY <1>0 DEF AppFrame, senderVars, Types, ReaderTypes, WireTypes, SenderTypes
<1>2. f[1] \in Streams BY StreamFacts
<1>3. \A g \in ControlFrames : Append(control, g) \in Seq(ControlFrames) BY AppendProperties DEF Types, AppTypes
<1>4. CreditTypes' /\ AppTypes'
  <2>1. CASE \E n \in 1 .. Chunk : Read(f, n) BY <2>1, ReadTypes
  <2>2. CASE ReadReset(f)
    <3>1. rx' \in [Fronts -> RxStates] BY <2>2, AppEffects, Zenon
    <3>2. UNCHANGED <<connR, limR, strR, pending, got, hole, control>> BY <2>2 DEF ReadReset, creditVars
    <3> QED BY <3>1, <3>2 DEF Types, CreditTypes, AppTypes
  <2>3. CASE AwaitClosed(f)
    <3>1. rx' \in [Fronts -> RxStates] BY <2>3, AppEffects, Zenon
    <3>2. UNCHANGED <<connR, limR, strR, pending, got, hole, control>> BY <2>3 DEF AwaitClosed, creditVars
    <3> QED BY <3>1, <3>2 DEF Types, CreditTypes, AppTypes
  <2>4. CASE Stop(f)
    <3>1. rx' \in [Fronts -> RxStates] BY <2>4, AppEffects
    <3>2. UNCHANGED <<connR, limR, strR, pending, got, hole>> /\ control' = Append(control, StopFrame(f[1]))
      BY <2>4 DEF Stop, creditVars
    <3>3. control' \in Seq(ControlFrames) BY <1>2, <1>3, <3>2, FrameTypes
    <3> QED BY <3>1, <3>2, <3>3 DEF Types, CreditTypes, AppTypes
  <2>5. CASE DropRecv(f)
    <3>1. rx' \in [Fronts -> RxStates] BY <2>5, AppEffects, Zenon
    <3>2. UNCHANGED <<connR, strR, got, hole>> /\ control' \in {control, Append(control, StopFrame(f[1]))}
          /\ limR' \in {limR, Consume(limR, 1)}
          /\ \/ pending' = pending
             \/ pending' = [pending EXCEPT ![f] = NoFrame]
             \/ limR' = Consume(limR, 1) /\ pending' = [pending EXCEPT ![f] = MaxStreams(limR'.max)]
      BY <2>5 DEF DropRecv
    <3>3. control' \in Seq(ControlFrames)
      <4>1. control \in Seq(ControlFrames) BY DEF Types, AppTypes
      <4> QED BY <1>2, <1>3, <3>2, <4>1, FrameTypes
    <3>4. limR' \in CreditState /\ limR'.max \in Nat
      <4>1. Consume(limR, 1) \in CreditState /\ limR \in CreditState BY ConsumeMovesWindow DEF Types, CreditTypes
      <4> QED BY <3>2, <4>1, CreditFields
    <3>5. pending' \in [Fronts -> ControlFrames \cup {NoFrame}]
      <4>1. MaxStreams(limR'.max) \in ControlFrames BY <3>4, FrameTypes
      <4> QED BY <3>2, <4>1 DEF Types, AppTypes
    <3> QED BY <3>1, <3>2, <3>3, <3>4, <3>5 DEF Types, CreditTypes, AppTypes
  <2>6. CASE SendPending(f)
    <3>1. /\ UNCHANGED <<connR, limR, strR, rx, got, hole>> /\ control' = Append(control, pending[f])
          /\ pending[f] # NoFrame /\ pending' = [pending EXCEPT ![f] = NoFrame] BY <2>6 DEF SendPending, creditVars
    <3>2. pending[f] \in ControlFrames BY <3>1 DEF Types, AppTypes
    <3>3. control' \in Seq(ControlFrames) /\ pending' \in [Fronts -> ControlFrames \cup {NoFrame}]
      BY <1>3, <3>1, <3>2 DEF Types, AppTypes
    <3> QED BY <3>1, <3>3 DEF Types, CreditTypes, AppTypes
  <2> QED BY <2>1, <2>2, <2>3, <2>4, <2>5, <2>6 DEF ReceiverApp
<1> QED BY <1>1, <1>4 DEF ReceiverTypes

\* Sending a control frame keeps the types.
LEMMA TransmitControlTypes ==
  ASSUME Types, ReceiverWriter
  PROVE  ReceiverTypes' /\ WireTypes'
<1>1. /\ control # <<>> /\ wireBA' = Append(wireBA, Head(control)) /\ control' = Tail(control)
      /\ recvMap' = (IF Head(control).type = "stop" THEN [recvMap EXCEPT ![Head(control).id] = 0] ELSE recvMap)
      /\ UNCHANGED <<recvOff, created, holes, reader, acceptQ, fronts, arrived, ignored,
                     connR, limR, strR, rx, pending, got, hole, wireAB, fault>>
  BY DEF ReceiverWriter, TransmitControl, creditVars, appVars
<1>2. Head(control) \in ControlFrames /\ Tail(control) \in Seq(ControlFrames) BY <1>1 DEF Types, AppTypes
<1>3. wireBA' \in Seq(ControlFrames)
  <2>1. wireBA \in Seq(ControlFrames) BY DEF Types, WireTypes
  <2> QED BY <1>1, <1>2, <2>1, AppendProperties
<1>4. recvMap' \in [Streams -> 0 .. MaxFronts] BY <1>1, FrontBound DEF Types, ReaderTypes
<1> QED BY <1>1, <1>2, <1>3, <1>4 DEF Types, ReceiverTypes, ReaderTypes, CreditTypes, AppTypes, WireTypes

\* A step of the reader keeps the types.
LEMMA ReaderStepTypes ==
  ASSUME Types, ReceiverReader
  PROVE  ReceiverTypes' /\ WireTypes'
  BY RecvStreamTypes, RouteStreamTypes, OfferTypes, InsertTypes, RecvResetTypes, AccountTypes, GrantTypes, RetireTypes
    DEF ReceiverReader

\* The session starts with the types.
LEMMA InitTypes == Init => Types
<1> SUFFICES ASSUME Init PROVE Types OBVIOUS
<1>1. \A n \in Nat : NewCredit(n) \in CreditState BY DEF NewCredit, CreditState
<1>2. SenderTypes
  <2>1. tx \in [Streams -> TxStates] BY SizesAreNatural DEF Init, TxStates
  <2>2. openC \in CreditState /\ connS \in CreditState /\ strS \in [Streams -> CreditState]
    BY <1>1, SizesAreNatural DEF Init
  <2> QED BY <2>1, <2>2, StreamFacts DEF Init, SenderTypes
<1>3. WireTypes BY DEF Init, WireTypes
<1>4. ReaderTypes
  <2>1. reader \in ReaderStates /\ reader.pc = "idle" BY ReaderShapes DEF Init
  <2>2. fronts \in [Streams -> 0 .. MaxFronts] BY FrontBound DEF Init
  <2>3. created \in -1 .. NumUni - 1 BY SizesAreNatural DEF Init
  <2> QED BY <2>1, <2>2, <2>3 DEF Init, ReaderTypes, StreamPcs, ResetPcs
<1>5. CreditTypes BY <1>1, SizesAreNatural DEF Init, CreditTypes
<1>6. AppTypes
  <2>1. rx \in [Fronts -> RxStates] BY DEF Init, RxStates
  <2> QED BY <2>1 DEF Init, AppTypes
<1> QED BY <1>2, <1>3, <1>4, <1>5, <1>6 DEF Types

\* Every step keeps the types.
LEMMA NextTypes == Types /\ [Next]_vars => Types'
<1> SUFFICES ASSUME Types, [Next]_vars PROVE Types' OBVIOUS
<1>1. ASSUME NEW s \in Streams, SenderApp(s) PROVE Types'
  <2>1. SenderTypes' BY <1>1, SenderAppTypes
  <2>2. UNCHANGED <<readerVars, creditVars, appVars, wireAB, wireBA, control, fault>> BY <1>1 DEF SenderApp
  <2> QED BY <2>1, <2>2
    DEF readerVars, creditVars, appVars, Types, WireTypes, ReaderTypes, CreditTypes, AppTypes
<1>2. CASE SenderWriter
  <2>1. SenderTypes' /\ WireTypes' BY <1>2, TransmitTypes
  <2>2. UNCHANGED <<readerVars, creditVars, appVars, control>> BY <1>2 DEF SenderWriter
  <2> QED BY <2>1, <2>2
    DEF readerVars, creditVars, appVars, Types, ReaderTypes, CreditTypes, AppTypes
<1>3. CASE SenderReader
  <2>1. SenderTypes' /\ WireTypes' BY <1>3, RecvControlTypes
  <2>2. UNCHANGED <<readerVars, creditVars, appVars, control>> BY <1>3 DEF SenderReader
  <2> QED BY <2>1, <2>2
    DEF readerVars, creditVars, appVars, Types, ReaderTypes, CreditTypes, AppTypes
<1>4. ASSUME ReceiverReader \/ Accept \/ ReceiverWriter PROVE Types'
  <2>1. ReceiverTypes' /\ WireTypes' BY <1>4, ReaderStepTypes, AcceptTypes, TransmitControlTypes
  <2>2. UNCHANGED senderVars BY <1>4 DEF ReceiverReader, Accept, ReceiverWriter
  <2> QED BY <2>1, <2>2 DEF senderVars, Types, SenderTypes, ReceiverTypes
<1>5. ASSUME NEW f \in Fronts, ReceiverApp(f) PROVE Types' BY <1>5, ReceiverAppTypes DEF Types, ReceiverTypes
<1>6. CASE UNCHANGED vars
  BY <1>6 DEF vars, senderVars, readerVars, creditVars, appVars, Types, SenderTypes, WireTypes, ReaderTypes,
    CreditTypes, AppTypes
<1> QED BY <1>1, <1>2, <1>3, <1>4, <1>5, <1>6 DEF Next

----------------------------------------------------------------------------
(* The sender: its queue holds what was written, in order                 *)

\* A frame that starts where a chain ends continues it.
LEMMA ChainAppend ==
  ASSUME NEW q \in Seq(StreamFrames), NEW lo \in Nat, NEW hi \in Nat, Chain(q, lo, hi),
         NEW f \in StreamFrames, f.off = hi
  PROVE  Chain(Append(q, f), lo, hi + f.len)
<1>. DEFINE a == Append(q, f)
            n == Len(q)
<1>1. /\ a # <<>> /\ n \in Nat /\ Len(a) = n + 1 /\ a[n + 1] = f
      /\ \A i \in 1 .. n : a[i] = q[i] BY SeqAppend
<1>2. f.len \in Nat /\ f.off \in Nat BY FrameFields
<1> HIDE DEF a
<1>3. q = <<>> => n = 0 OBVIOUS
<1>4. q # <<>> => n >= 1 OBVIOUS
<1>5. a[1].off = lo
  <2>1. CASE q = <<>> BY <1>1, <1>3, <2>1 DEF Chain
  <2>2. CASE q # <<>>
    <3>1. 1 \in 1 .. n BY <1>1, <1>4, <2>2
    <3> QED BY <1>1, <2>2, <3>1 DEF Chain
  <2> QED BY <2>1, <2>2
<1>6. ASSUME NEW i \in 1 .. Len(a) - 1 PROVE a[i].off + a[i].len = a[i + 1].off
  <2>0. i \in 1 .. n /\ a[i] = q[i] BY <1>1
  <2>1. CASE i = n
    <3>1. q # <<>> BY <1>3, <2>0
    <3> QED BY <1>1, <2>0, <2>1, <3>1 DEF Chain
  <2>2. CASE i # n
    <3>1. i \in 1 .. n - 1 /\ i + 1 \in 1 .. n BY <1>1, <2>0, <2>2
    <3>2. a[i + 1] = q[i + 1] BY <1>1, <3>1
    <3> QED BY <2>0, <3>1, <3>2 DEF Chain
  <2> QED BY <2>1, <2>2
<1>7. a[Len(a)].off + a[Len(a)].len = hi + f.len BY <1>1, <1>2
<1>8. Chain(a, lo, hi + f.len) BY <1>1, <1>5, <1>6, <1>7 DEF Chain
<1> QED BY <1>8 DEF a

\* A chain without its first frame starts where that frame ended.
LEMMA ChainTail ==
  ASSUME NEW q \in Seq(StreamFrames), NEW lo \in Nat, NEW hi \in Nat, Chain(q, lo, hi), q # <<>>
  PROVE  Head(q).off = lo /\ Chain(Tail(q), lo + Head(q).len, hi)
<1>. DEFINE t == Tail(q)
            n == Len(q)
<1>1. /\ t \in Seq(StreamFrames) /\ n \in Nat /\ n >= 1 /\ Len(t) = n - 1 /\ Head(q) = q[1]
      /\ \A i \in 1 .. n - 1 : t[i] = q[i + 1] BY SeqTail
<1>2. q[1] \in StreamFrames /\ q[1].len \in Nat /\ q[1].off = lo
  <2>1. q[1] \in StreamFrames BY <1>1
  <2> QED BY <2>1, FrameFields DEF Chain
<1>3. t = <<>> <=> n = 1
  <2>1. t = <<>> <=> Len(t) = 0 BY <1>1, EmptySeq
  <2> QED BY <1>1, <2>1
<1> HIDE DEF t
<1>4. CASE n = 1
  <2>1. q[1].off + q[1].len = hi BY <1>4 DEF Chain
  <2>2. t = <<>> /\ Len(t) = 0 BY <1>1, <1>3, <1>4
  <2>3. lo + q[1].len = hi BY <1>2, <2>1
  <2>4. Chain(t, hi, hi) BY <2>2 DEF Chain
  <2> QED BY <1>1, <1>2, <2>3, <2>4 DEF t
<1>5. CASE n # 1
  <2>0. 1 \in 1 .. n - 1 /\ n - 1 \in 1 .. n - 1 /\ (n - 1) + 1 = n BY <1>1, <1>5
  <2>1. t # <<>> /\ t[1] = q[1 + 1] /\ t[n - 1] = q[n] BY <1>1, <1>3, <1>5, <2>0
  <2>2. t[1].off = lo + q[1].len BY <1>2, <2>0, <2>1 DEF Chain
  <2>3. ASSUME NEW i \in 1 .. Len(t) - 1 PROVE t[i].off + t[i].len = t[i + 1].off
    <3>1. i \in 1 .. n - 1 /\ i + 1 \in 1 .. n - 1 BY <1>1
    <3>2. t[i] = q[i + 1] /\ t[i + 1] = q[(i + 1) + 1] BY <1>1, <3>1
    <3> QED BY <3>1, <3>2 DEF Chain
  <2>4. t[Len(t)].off + t[Len(t)].len = hi BY <1>1, <2>1 DEF Chain
  <2>5. Chain(t, lo + q[1].len, hi) BY <2>1, <2>2, <2>3, <2>4 DEF Chain
  <2> QED BY <1>1, <1>2, <2>5 DEF t
<1> QED BY <1>4, <1>5

\* A stream none of whose own state changes keeps its part of the invariant.
LEMMA SameStream ==
  ASSUME NEW t \in Streams, SendOne(t), QueueOne(t),
         tx'[t] = tx[t], queue'[t] = queue[t], wired'[t] = wired[t], sentOff'[t] = sentOff[t],
         t \in holding' => t \in holding, t \in stopped' => t \in stopped \cup sendMap,
         t \in sendMap' <=> t \in sendMap,
         t \in Uni => (t < openC'.used <=> t < openC.used)
  PROVE  SendOne(t)' /\ QueueOne(t)'
<1>1. SendOne(t)' BY DEF SendOne, Opened, Writable
<1>2. QueueOne(t)' BY DEF QueueOne, Chain
<1> QED BY <1>1, <1>2

\* What a write that is committed needs and does.
LEMMA CommitCases ==
  ASSUME Types, NEW s \in Streams, CommitWrite(s)
  PROVE  \E n \in Nat :
           /\ n > 0 /\ strS[s].used + n <= strS[s].max /\ connS.used + n <= connS.max
           /\ n <= MaxBytes - tx[s].offset /\ s \in holding
           /\ strS' = [strS EXCEPT ![s] = Claim(@, n)] /\ connS' = Claim(connS, n)
           /\ queue' = [queue EXCEPT ![s] = Append(@, StreamFrame(s, tx[s].offset, n, FALSE))]
           /\ tx' = [tx EXCEPT ![s].offset = @ + n] /\ holding' = holding \ {s}
           /\ UNCHANGED <<openC, stopped, resets, sendMap, sentOff, wired>>
<1>. DEFINE left == MaxBytes - tx[s].offset
            desired == IF left < Chunk THEN left ELSE Chunk
            n == ClaimCredit(s, desired)
            m == Claimable(strS[s], desired)
<1>0. /\ tx[s].offset \in 0 .. MaxBytes /\ MaxBytes \in Nat /\ Chunk \in Nat
      /\ strS[s] \in CreditState /\ connS \in CreditState
  BY TxFields, SizesAreNatural, BoundsArePositive DEF Types, SenderTypes
<1>1. desired \in Nat /\ desired <= left BY <1>0
<1>2. n = Claimable(connS, m) BY DEF ClaimCredit
<1>3. /\ s \in holding /\ n > 0 /\ strS' = [strS EXCEPT ![s] = Claim(@, n)] /\ connS' = Claim(connS, n)
      /\ queue' = [queue EXCEPT ![s] = Append(@, StreamFrame(s, tx[s].offset, n, FALSE))]
      /\ tx' = [tx EXCEPT ![s].offset = @ + n] /\ holding' = holding \ {s}
      /\ UNCHANGED <<openC, stopped, resets, sendMap, sentOff, wired>> BY DEF CommitWrite
<1> HIDE DEF n, desired
<1>4. m \in Nat /\ m <= desired /\ (m > 0 => strS[s].used + m <= strS[s].max) BY <1>0, <1>1, ClaimFacts
<1> HIDE DEF m
<1>5. n \in Nat /\ n <= m /\ (n > 0 => connS.used + n <= connS.max) BY <1>0, <1>2, <1>4, ClaimFacts
<1>6. m > 0 /\ strS[s].used + n <= strS[s].max /\ connS.used + n <= connS.max /\ n <= left
  <2>1. strS[s].used \in Nat /\ strS[s].max \in Nat BY <1>0, CreditFields
  <2>2. n > 0 BY <1>3
  <2>3. m > 0 BY <1>4, <1>5, <2>2
  <2>4. strS[s].used + n <= strS[s].max BY <1>4, <1>5, <2>1, <2>3
  <2>5. left \in Nat BY <1>0
  <2> HIDE DEF left
  <2>6. desired \in Nat /\ desired <= left BY <1>1
  <2>7. n <= left BY <1>4, <1>5, <2>5, <2>6
  <2> QED BY <1>5, <2>2, <2>3, <2>4, <2>7
<1> QED BY <1>3, <1>5, <1>6

\* What opening a stream does to the sending halves.
LEMMA TxOpens ==
  ASSUME SenderTypes, NEW s \in Streams, tx' = [tx EXCEPT ![s].st = "open"]
  PROVE  /\ tx'[s].st = "open" /\ tx'[s].offset = tx[s].offset /\ tx'[s].fin = tx[s].fin /\ tx'[s].closed = tx[s].closed
         /\ \A u \in Streams : u # s => tx'[u] = tx[u] BY DEF SenderTypes, TxStates

\* What a write does to the sending halves.
LEMMA TxWrites ==
  ASSUME SenderTypes, NEW s \in Streams, NEW n, tx' = [tx EXCEPT ![s].offset = @ + n]
  PROVE  /\ tx'[s].st = tx[s].st /\ tx'[s].offset = tx[s].offset + n /\ tx'[s].fin = tx[s].fin
         /\ tx'[s].closed = tx[s].closed
         /\ \A u \in Streams : u # s => tx'[u] = tx[u] BY DEF SenderTypes, TxStates

\* What closing does to the sending halves.
LEMMA TxCloses ==
  ASSUME SenderTypes, NEW s \in Streams, NEW why, tx' = [tx EXCEPT ![s].closed = why]
  PROVE  /\ tx'[s].st = tx[s].st /\ tx'[s].offset = tx[s].offset /\ tx'[s].fin = tx[s].fin /\ tx'[s].closed = why
         /\ \A u \in Streams : u # s => tx'[u] = tx[u] BY DEF SenderTypes, TxStates

\* What finish does to the sending halves.
LEMMA TxFinishes ==
  ASSUME SenderTypes, NEW s \in Streams, tx' = [tx EXCEPT ![s].fin = TRUE, ![s].fins = @ + 1]
  PROVE  /\ tx'[s].st = tx[s].st /\ tx'[s].offset = tx[s].offset /\ tx'[s].fin = TRUE /\ tx'[s].closed = tx[s].closed
         /\ \A u \in Streams : u # s => tx'[u] = tx[u] BY DEF SenderTypes, TxStates

\* A frame appended to a stream's queue where the stream stands.
LEMMA QueueGrows ==
  ASSUME Types, NEW s \in Streams, QueueOne(s), tx[s].closed = "no",
         NEW fr \in StreamFrames, fr.id = s, fr.off = tx[s].offset,
         fr.fin => fr.len = 0 /\ tx'[s].fin,
         ~fr.fin => ~tx[s].fin,
         tx[s].fin => tx'[s].fin,
         queue' = [queue EXCEPT ![s] = Append(@, fr)],
         tx'[s].closed = "no", tx'[s].offset = tx[s].offset + fr.len, wired' = wired
  PROVE  QueueOne(s)'
<1>. DEFINE q == queue[s]
            n == Len(q)
<1>1. q \in Seq(StreamFrames) /\ queue'[s] = Append(q, fr) /\ wired[s] \in Nat /\ tx[s].offset \in Nat
  BY TxFields DEF Types, SenderTypes
<1>2. /\ n \in Nat /\ Len(queue'[s]) = n + 1 /\ queue'[s][n + 1] = fr
      /\ \A i \in 1 .. n : queue'[s][i] = q[i]
      /\ \A i \in 1 .. n + 1 : i \in 1 .. n \/ i = n + 1 BY <1>1, SeqAppend
<1>3. Chain(queue'[s], wired'[s], tx'[s].offset) BY <1>1, ChainAppend DEF QueueOne
<1> HIDE DEF q
<1>4. ASSUME NEW i \in 1 .. Len(queue'[s])
      PROVE  queue'[s][i].id = s /\ (queue'[s][i].fin => tx'[s].fin /\ queue'[s][i].len = 0) BY <1>2 DEF QueueOne, q
<1>5. ASSUME NEW i \in 1 .. Len(queue'[s]), NEW j \in 1 .. Len(queue'[s]), i < j, queue'[s][i].fin
      PROVE  queue'[s][j].fin
  <2>1. i \in 1 .. n /\ queue'[s][i] = q[i] BY <1>2, <1>5
  <2>2. CASE j = n + 1
    <3>1. tx[s].fin BY <1>5, <2>1 DEF QueueOne, q
    <3> QED BY <1>2, <2>2, <3>1
  <2>3. CASE j # n + 1 BY <1>2, <1>5, <2>1, <2>3 DEF QueueOne, q
  <2> QED BY <2>2, <2>3
<1> QED BY <1>3, <1>4, <1>5 DEF QueueOne

\* The resets that wait stay right while sending halves that ended stay as they
\* are.
LEMMA ResetsSame ==
  ASSUME Types, ResetsInv, resets' = resets,
         \A t \in Streams : /\ tx'[t].st = tx[t].st
                            /\ (tx[t].closed # "no" => tx'[t].closed = tx[t].closed)
                            /\ (tx[t].closed # "no" => tx'[t].fin = tx[t].fin)
                            /\ (Aborted(t) /\ t \in sendMap => t \in sendMap')
  PROVE  ResetsInv'
<1>1. \A i \in 1 .. Len(resets) : resets[i] \in Streams BY DEF Types, SenderTypes
<1> QED BY <1>1 DEF ResetsInv, Aborted, Opened

\* A step of the sending application keeps the sending end's invariant.
LEMMA SenderAppInv ==
  ASSUME Types, SenderInv, NEW s \in Streams, SenderApp(s)
  PROVE  SenderInv'
<1>0. /\ tx[s].offset \in Nat /\ queue[s] \in Seq(StreamFrames) /\ wired[s] \in Nat /\ SenderTypes
      /\ openC.used \in Nat /\ tx[s].closed \in {"no", "reset", "stop"} /\ tx[s].fin \in BOOLEAN
  BY TxFields, CreditFields DEF Types, SenderTypes
<1>1. CASE OpenUni(s)
  <2>1. /\ s \in Uni /\ tx[s].st = "none" /\ s = openC.used /\ openC' = Claim(openC, 1)
        /\ tx' = [tx EXCEPT ![s].st = "open"] /\ sendMap' = sendMap \cup {s}
        /\ UNCHANGED <<holding, stopped, queue, resets, sentOff, wired>> BY <1>1 DEF OpenUni
  <2>2. openC'.used = openC.used + 1
    <3>1. openC \in CreditState /\ 1 \in Nat BY DEF Types, SenderTypes
    <3>2. Claim(openC, 1).used = openC.used + 1 BY ONLY <3>1, CreditFields
    <3> QED BY <2>1, <3>2
  <2>3. /\ tx'[s].st = "open" /\ tx'[s].offset = tx[s].offset /\ tx'[s].fin = tx[s].fin
        /\ tx'[s].closed = tx[s].closed /\ \A u \in Streams : u # s => tx'[u] = tx[u] BY <1>0, <2>1, TxOpens
  <2>4. ASSUME NEW t \in Streams, t # s PROVE SendOne(t)' /\ QueueOne(t)'
    <3>1. t \in Nat BY UniOrOwn
    <3>2. t < openC'.used <=> t < openC.used BY <1>0, <2>1, <2>2, <2>4, <3>1
    <3> QED BY <2>1, <2>3, <2>4, <3>2, SameStream DEF SenderInv
  <2>5. SendOne(s)' /\ QueueOne(s)'
    <3>1. ~Opened(s) /\ SendOne(s) /\ QueueOne(s) /\ s \notin Own BY <2>1, UniOrOwn DEF Opened, SenderInv
    <3>2. SendOne(s)' BY <1>0, <2>1, <2>2, <2>3, <3>1 DEF SendOne, Opened, Writable
    <3>3. QueueOne(s)' BY <2>1, <2>3, <3>1 DEF QueueOne, Chain
    <3> QED BY <3>2, <3>3
  <2>6. ResetsInv'
    <3>1. \A i \in 1 .. Len(resets) : resets[i] \in Streams /\ resets[i] # s
      BY <2>1 DEF Types, SenderTypes, SenderInv, ResetsInv, Aborted, Opened
    <3> QED BY <2>1, <2>3, <3>1 DEF SenderInv, ResetsInv, Aborted, Opened
  <2> QED BY <2>4, <2>5, <2>6 DEF SenderInv
<1>2. CASE ReserveSlot(s)
  <2>1. /\ Writable(s) /\ holding' = holding \cup {s}
        /\ UNCHANGED <<openC, tx, stopped, queue, resets, sendMap, sentOff, wired>> BY <1>2 DEF ReserveSlot
  <2>2. ASSUME NEW t \in Streams PROVE SendOne(t)' /\ QueueOne(t)'
    BY <2>1 DEF SenderInv, SendOne, QueueOne, Chain, Opened, Writable
  <2>3. ResetsInv' BY <2>1 DEF SenderInv, ResetsInv, Aborted, Opened
  <2> QED BY <2>2, <2>3 DEF SenderInv
<1>3. CASE CommitWrite(s)
  <2>1. PICK n \in Nat :
         /\ n > 0 /\ s \in holding /\ queue' = [queue EXCEPT ![s] = Append(@, StreamFrame(s, tx[s].offset, n, FALSE))]
         /\ tx' = [tx EXCEPT ![s].offset = @ + n] /\ holding' = holding \ {s}
         /\ UNCHANGED <<openC, stopped, resets, sendMap, sentOff, wired>> BY <1>3, CommitCases
  <2>3. /\ tx'[s].st = tx[s].st /\ tx'[s].offset = tx[s].offset + n /\ tx'[s].fin = tx[s].fin
        /\ tx'[s].closed = tx[s].closed /\ \A u \in Streams : u # s => tx'[u] = tx[u] BY <1>0, <2>1, TxWrites
  <2>4. PICK fr \in StreamFrames : /\ fr = StreamFrame(s, tx[s].offset, n, FALSE) /\ fr.id = s /\ fr.len = n
                                   /\ fr.off = tx[s].offset /\ fr.fin = FALSE
    <3>. DEFINE g == StreamFrame(s, tx[s].offset, n, FALSE)
    <3>1. g \in StreamFrames /\ g.id = s /\ g.len = n /\ g.off = tx[s].offset /\ g.fin = FALSE
      BY <1>0, <2>1 DEF StreamFrame, StreamFrames
    <3> HIDE DEF g
    <3> QED BY <3>1 DEF g
  <2>5. Writable(s) /\ SendOne(s) /\ QueueOne(s) BY <2>1 DEF SenderInv, SendOne
  <2>6. ASSUME NEW t \in Streams, t # s PROVE SendOne(t)' /\ QueueOne(t)'
    <3>1. queue'[t] = queue[t] BY <2>1, <2>6 DEF Types, SenderTypes
    <3> QED BY <2>1, <2>3, <2>6, <3>1, SameStream DEF SenderInv
  <2>7. QueueOne(s)' BY <2>1, <2>3, <2>4, <2>5, QueueGrows DEF Writable
  <2>8. SendOne(s)' BY <2>1, <2>3, <2>5 DEF SendOne, Opened, Writable
  <2>9. ResetsInv' BY <2>1, <2>3, ResetsSame DEF SenderInv
  <2> QED BY <2>6, <2>7, <2>8, <2>9 DEF SenderInv
<1>4. CASE CancelWrite(s)
  <2>1. /\ holding' = holding \ {s}
        /\ UNCHANGED <<openC, tx, stopped, queue, resets, sendMap, sentOff, wired>> BY <1>4 DEF CancelWrite
  <2>2. ASSUME NEW t \in Streams PROVE SendOne(t)' /\ QueueOne(t)'
    BY <2>1 DEF SenderInv, SendOne, QueueOne, Chain, Opened, Writable
  <2>3. ResetsInv' BY <2>1 DEF SenderInv, ResetsInv, Aborted, Opened
  <2> QED BY <2>2, <2>3 DEF SenderInv
<1>5. ASSUME NEW why \in {"reset", "stop"}, Abandon(s, why), Opened(s), ~tx[s].fin, tx[s].closed = "no",
             s \notin holding', holding' \subseteq holding, stopped' \subseteq stopped,
             UNCHANGED <<openC, sendMap, sentOff, wired>>
      PROVE  SenderInv'
  <2>1. /\ queue' = [queue EXCEPT ![s] = <<>>] /\ resets' = Append(resets, s)
        /\ tx' = [tx EXCEPT ![s].closed = why] BY <1>5 DEF Abandon
  <2>2. /\ tx'[s].st = tx[s].st /\ tx'[s].offset = tx[s].offset /\ tx'[s].fin = tx[s].fin
        /\ tx'[s].closed = why /\ \A u \in Streams : u # s => tx'[u] = tx[u] BY <1>0, <2>1, TxCloses
  <2>3. queue'[s] = <<>> /\ \A u \in Streams : u # s => queue'[u] = queue[u] BY <2>1 DEF Types, SenderTypes
  <2>4. ASSUME NEW t \in Streams, t # s PROVE SendOne(t)' /\ QueueOne(t)'
    BY <1>5, <2>2, <2>3, <2>4, SameStream DEF SenderInv
  <2>5. SendOne(s) /\ s \in sendMap BY <1>5 DEF SenderInv, SendOne, Writable, Opened
  <2>6. SendOne(s)' BY <1>5, <2>2, <2>3, <2>5 DEF SendOne, Opened, Writable
  <2>7. QueueOne(s)' BY <1>5, <2>2, <2>3 DEF QueueOne
  <2>8. ResetsInv'
    <3>1. /\ Len(resets) \in Nat /\ Len(resets') = Len(resets) + 1 /\ resets'[Len(resets) + 1] = s
          /\ \A i \in 1 .. Len(resets) : resets'[i] = resets[i] /\ resets[i] \in Streams
          /\ \A i \in 1 .. Len(resets) + 1 : i \in 1 .. Len(resets) \/ i = Len(resets) + 1
      BY <2>1, SeqAppend DEF Types, SenderTypes
    <3>2. \A i \in 1 .. Len(resets) : resets[i] # s BY <1>5 DEF SenderInv, ResetsInv, Aborted
    <3>3. Aborted(s)' /\ s \in sendMap' BY <1>5, <2>2, <2>5 DEF Aborted, Opened
    <3>4. ASSUME NEW i \in 1 .. Len(resets')
          PROVE  /\ tx'[resets'[i]].closed # "no" /\ ~tx'[resets'[i]].fin
                 /\ tx'[resets'[i]].st = "open" /\ resets'[i] \in sendMap'
      <4>1. CASE i = Len(resets) + 1 BY <3>1, <3>3, <4>1 DEF Aborted, Opened
      <4>2. CASE i \in 1 .. Len(resets)
        <5>1. resets'[i] = resets[i] /\ resets[i] \in Streams /\ resets[i] # s BY <3>1, <3>2, <4>2
        <5>2. Aborted(resets[i]) /\ resets[i] \in sendMap BY <4>2 DEF SenderInv, ResetsInv
        <5> QED BY <1>5, <2>2, <5>1, <5>2 DEF Aborted, Opened
      <4> QED BY <3>1, <4>1, <4>2
    <3>6. ASSUME NEW i \in 1 .. Len(resets'), NEW j \in 1 .. Len(resets'), i # j
          PROVE  resets'[i] # resets'[j]
      <4>1. CASE i = Len(resets) + 1 BY <3>1, <3>2, <3>6, <4>1
      <4>2. CASE j = Len(resets) + 1 BY <3>1, <3>2, <3>6, <4>2
      <4>3. CASE i \in 1 .. Len(resets) /\ j \in 1 .. Len(resets) BY <3>1, <3>6, <4>3 DEF SenderInv, ResetsInv
      <4> QED BY <3>1, <4>1, <4>2, <4>3
    <3> QED BY <3>4, <3>6 DEF ResetsInv, Aborted, Opened
  <2> QED BY <2>4, <2>6, <2>7, <2>8 DEF SenderInv
<1>6. CASE Reset(s)
  <2>1. /\ Writable(s) /\ s \notin holding /\ Abandon(s, "reset")
        /\ UNCHANGED <<openC, holding, stopped, sendMap, sentOff, wired>> BY <1>6 DEF Reset
  <2> QED BY <1>5, <2>1 DEF Writable, Opened
<1>7. CASE SeeStop(s)
  <2>1. /\ s \in stopped /\ tx[s].closed = "no" /\ holding' = holding \ {s} /\ stopped' = stopped \ {s}
        /\ UNCHANGED <<openC, sendMap, sentOff, wired>> BY <1>7 DEF SeeStop
  <2>2. Opened(s) /\ SendOne(s) /\ QueueOne(s) BY <2>1 DEF SenderInv, SendOne
  <2>3. CASE ~tx[s].fin
    <3>1. Abandon(s, "stop") BY <1>7, <2>3 DEF SeeStop
    <3> QED BY <1>5, <2>1, <2>2, <2>3, <3>1
  <2>4. CASE tx[s].fin
    <3>1. tx' = [tx EXCEPT ![s].closed = "stop"] /\ UNCHANGED <<queue, strS, connS, resets>> BY <1>7, <2>4 DEF SeeStop
    <3>2. /\ tx'[s].st = tx[s].st /\ tx'[s].offset = tx[s].offset /\ tx'[s].fin = tx[s].fin
          /\ tx'[s].closed = "stop" /\ \A u \in Streams : u # s => tx'[u] = tx[u] BY <1>0, <3>1, TxCloses
    <3>3. ASSUME NEW t \in Streams, t # s PROVE SendOne(t)' /\ QueueOne(t)'
      BY <2>1, <3>1, <3>2, <3>3, SameStream DEF SenderInv
    <3>4. SendOne(s)' BY <2>1, <2>2, <2>4, <3>1, <3>2 DEF SendOne, Opened, Writable
    <3>5. QueueOne(s)' BY <2>1, <2>2, <2>4, <3>1, <3>2 DEF QueueOne, Chain
    <3>6. ResetsInv' BY <2>1, <3>1, <3>2, ResetsSame DEF SenderInv
    <3> QED BY <3>3, <3>4, <3>5, <3>6 DEF SenderInv
  <2> QED BY <2>3, <2>4
<1>8. CASE Finish(s)
  <2>1. /\ tx[s].st = "open" /\ tx[s].closed = "no" /\ s \notin holding
        /\ queue' = [queue EXCEPT ![s] = Append(@, StreamFrame(s, tx[s].offset, 0, TRUE))]
        /\ tx' = [tx EXCEPT ![s].fin = TRUE, ![s].fins = @ + 1]
        /\ UNCHANGED <<openC, holding, stopped, resets, sendMap, sentOff, wired>> BY <1>8 DEF Finish
  <2>2. /\ tx'[s].st = tx[s].st /\ tx'[s].offset = tx[s].offset /\ tx'[s].fin = TRUE
        /\ tx'[s].closed = tx[s].closed /\ \A u \in Streams : u # s => tx'[u] = tx[u] BY <1>0, <2>1, TxFinishes
  <2>3. PICK fr \in StreamFrames : /\ fr = StreamFrame(s, tx[s].offset, 0, TRUE) /\ fr.id = s /\ fr.len = 0
                                   /\ fr.off = tx[s].offset /\ fr.fin = TRUE
    <3>. DEFINE g == StreamFrame(s, tx[s].offset, 0, TRUE)
    <3>1. g \in StreamFrames /\ g.id = s /\ g.len = 0 /\ g.off = tx[s].offset /\ g.fin = TRUE
      BY <1>0 DEF StreamFrame, StreamFrames
    <3> HIDE DEF g
    <3> QED BY <3>1 DEF g
  <2>4. SendOne(s) /\ QueueOne(s) BY DEF SenderInv
  <2>5. ASSUME NEW t \in Streams, t # s PROVE SendOne(t)' /\ QueueOne(t)'
    <3>1. queue'[t] = queue[t] BY <2>1, <2>5 DEF Types, SenderTypes
    <3> QED BY <2>1, <2>2, <2>5, <3>1, SameStream DEF SenderInv
  <2>6. QueueOne(s)'
    <3>1. tx'[s].offset = tx[s].offset + fr.len
      <4>1. tx[s].offset = tx[s].offset + 0 BY <1>0
      <4> QED BY <2>2, <2>3, <4>1
    <3>2. queue' = [queue EXCEPT ![s] = Append(@, fr)] /\ wired' = wired /\ fr.off = tx[s].offset BY <2>1, <2>3
    <3>3. tx[s].closed = "no" /\ tx'[s].closed = "no" /\ tx'[s].fin /\ fr.fin /\ fr.len = 0 /\ fr.id = s
      BY <2>1, <2>2, <2>3
    <3> QED BY <2>4, <3>1, <3>2, <3>3, QueueGrows
  <2>7. SendOne(s)' BY <2>1, <2>2, <2>4 DEF SendOne, Opened, Writable
  <2>8. ResetsInv'
    <3>1. \A t \in Streams : /\ tx'[t].st = tx[t].st
                          /\ (tx[t].closed # "no" => tx'[t].closed = tx[t].closed)
                          /\ (tx[t].closed # "no" => tx'[t].fin = tx[t].fin)
                          /\ (Aborted(t) /\ t \in sendMap => t \in sendMap') BY <2>1, <2>2
    <3> QED BY <2>1, <3>1, ResetsSame DEF SenderInv
  <2> QED BY <2>5, <2>6, <2>7, <2>8 DEF SenderInv
<1> QED BY <1>1, <1>2, <1>3, <1>4, <1>6, <1>7, <1>8 DEF SenderApp

\* A step that touches nothing of the sending end keeps its invariant.
LEMMA SenderSame ==
  ASSUME SenderInv, UNCHANGED senderVars
  PROVE  SenderInv' BY DEF SenderInv, SendOne, QueueOne, ResetsInv, Chain, Opened, Aborted, Writable, senderVars

\* The frame the writer takes from a queue: where the stream stands on the
\* transport, and followed only by a FIN if it is one.
LEMMA PoppedFrame ==
  ASSUME Types, SenderInv, NEW s \in Streams, TransmitStream(s)
  PROVE  \E f \in StreamFrames :
           /\ f = Head(queue[s]) /\ f.id = s /\ f.off = wired[s] /\ f.len \in Nat /\ f.fin \in BOOLEAN
           /\ Opened(s) /\ ~Aborted(s) /\ queue[s] # <<>>
           /\ f.fin => tx[s].fin /\ f.len = 0
           /\ f.fin => \A j \in 1 .. Len(Tail(queue[s])) : Tail(queue[s])[j].fin
           /\ (\A j \in 1 .. Len(queue[s]) : queue[s][j].fin) =>
                f.fin /\ \A j \in 1 .. Len(Tail(queue[s])) : Tail(queue[s])[j].fin
           /\ wireAB' = Append(wireAB, f) /\ queue' = [queue EXCEPT ![s] = Tail(@)]
           /\ sendMap' = IF f.fin THEN sendMap \ {s} ELSE sendMap
           /\ sentOff' = [sentOff EXCEPT ![s] = IF s \in sendMap THEN @ + f.len ELSE @]
           /\ wired' = [wired EXCEPT ![s] = @ + f.len] /\ UNCHANGED <<openC, connS, strS, tx, holding, stopped, resets>>
<1>0. /\ queue[s] \in Seq(StreamFrames) /\ queue[s] # <<>> /\ wired[s] \in Nat /\ tx[s].offset \in Nat
      /\ SendOne(s) /\ QueueOne(s) BY TxFields DEF TransmitStream, Types, SenderTypes, SenderInv
<1>1. PICK q : q = queue[s] OBVIOUS
<1>2. /\ Tail(q) \in Seq(StreamFrames) /\ Len(q) \in Nat /\ Len(q) >= 1 /\ Len(Tail(q)) = Len(q) - 1
      /\ Head(q) = q[1] /\ Head(q) \in StreamFrames /\ 1 \in 1 .. Len(q)
      /\ \A i \in 1 .. Len(q) - 1 : Tail(q)[i] = q[i + 1] /\ i + 1 \in 1 .. Len(q) BY <1>0, <1>1, SeqTail
<1>3. PICK f \in StreamFrames : f = Head(q) BY <1>2
<1>4. f = q[1] /\ f.len \in Nat /\ f.fin \in BOOLEAN BY <1>2, <1>3, FrameFields
<1>5. /\ f = Head(queue[s]) /\ wireAB' = Append(wireAB, f) /\ queue' = [queue EXCEPT ![s] = Tail(@)]
      /\ sendMap' = IF f.fin THEN sendMap \ {s} ELSE sendMap
      /\ sentOff' = [sentOff EXCEPT ![s] = IF s \in sendMap THEN @ + f.len ELSE @]
      /\ wired' = [wired EXCEPT ![s] = @ + f.len]
      /\ UNCHANGED <<openC, connS, strS, tx, holding, stopped, resets>> BY <1>1, <1>3 DEF TransmitStream
<1>6. f.id = s /\ (f.fin => tx[s].fin /\ f.len = 0) BY <1>0, <1>1, <1>2, <1>4 DEF QueueOne
<1>7. Opened(s) /\ ~Aborted(s) BY <1>0 DEF SendOne, QueueOne, Aborted
<1>8. f.off = wired[s]
  <2>1. Chain(q, wired[s], tx[s].offset) BY <1>0, <1>1, <1>7 DEF QueueOne, Aborted
  <2> QED BY <1>0, <1>1, <1>4, <2>1 DEF Chain
<1>9. /\ f.fin => \A j \in 1 .. Len(Tail(q)) : Tail(q)[j].fin
      /\ (\A j \in 1 .. Len(q) : q[j].fin) => f.fin /\ \A j \in 1 .. Len(Tail(q)) : Tail(q)[j].fin
  <2>1. \A j \in 1 .. Len(q) - 1 : 1 < j + 1 BY <1>2
  <2> QED BY <1>0, <1>1, <1>2, <1>4, <2>1 DEF QueueOne
<1> QED BY <1>0, <1>1, <1>4, <1>5, <1>6, <1>7, <1>8, <1>9

\* Sending a STREAM frame keeps the sending end's invariant.
LEMMA TransmitStreamInv ==
  ASSUME Types, SenderInv, NEW s \in Streams, TransmitStream(s)
  PROVE  SenderInv'
<1>1. PICK f \in StreamFrames :
         /\ f = Head(queue[s]) /\ f.id = s /\ f.off = wired[s] /\ f.len \in Nat /\ f.fin \in BOOLEAN
         /\ Opened(s) /\ ~Aborted(s) /\ queue[s] # <<>>
         /\ f.fin => tx[s].fin /\ f.len = 0
         /\ queue' = [queue EXCEPT ![s] = Tail(@)]
         /\ sendMap' = IF f.fin THEN sendMap \ {s} ELSE sendMap
         /\ sentOff' = [sentOff EXCEPT ![s] = IF s \in sendMap THEN @ + f.len ELSE @]
         /\ wired' = [wired EXCEPT ![s] = @ + f.len]
         /\ UNCHANGED <<openC, connS, strS, tx, holding, stopped, resets>> BY PoppedFrame
<1>2. /\ queue[s] \in Seq(StreamFrames) /\ wired[s] \in Nat /\ tx[s].offset \in Nat
      /\ SendOne(s) /\ QueueOne(s) BY TxFields DEF Types, SenderTypes, SenderInv
<1>3. /\ queue'[s] = Tail(queue[s]) /\ wired'[s] = wired[s] + f.len
      /\ sentOff'[s] = (IF s \in sendMap THEN sentOff[s] + f.len ELSE sentOff[s])
      /\ \A t \in Streams : t # s => queue'[t] = queue[t] /\ wired'[t] = wired[t] /\ sentOff'[t] = sentOff[t]
  BY <1>1 DEF Types, SenderTypes
<1>4. ASSUME NEW t \in Streams, t # s PROVE SendOne(t)' /\ QueueOne(t)' BY <1>1, <1>3, <1>4, SameStream DEF SenderInv
<1>5. SendOne(s)' BY <1>1, <1>2, <1>3 DEF SendOne, Opened, Writable
<1>6. QueueOne(s)'
  <2>1. PICK q : q = queue[s] OBVIOUS
  <2>2. /\ Tail(q) \in Seq(StreamFrames) /\ Len(q) \in Nat /\ Len(q) >= 1 /\ Len(Tail(q)) = Len(q) - 1
        /\ \A i \in 1 .. Len(q) - 1 : Tail(q)[i] = q[i + 1] /\ i + 1 \in 1 .. Len(q) BY <1>1, <1>2, <2>1, SeqTail
  <2>3. Chain(q, wired[s], tx[s].offset) BY <1>1, <1>2, <2>1 DEF QueueOne, Aborted
  <2>4. Chain(Tail(q), wired[s] + f.len, tx[s].offset) BY <1>1, <1>2, <2>1, <2>3, ChainTail
  <2>5. PICK r : r = Tail(q) OBVIOUS
  <2>6. /\ Len(r) = Len(q) - 1 /\ queue'[s] = r /\ Chain(r, wired'[s], tx'[s].offset)
        /\ \A i \in 1 .. Len(r) : r[i] = q[i + 1] /\ i + 1 \in 1 .. Len(q) BY <1>1, <1>3, <2>1, <2>2, <2>4, <2>5
  <2>7. \A i \in 1 .. Len(r) : r[i].id = s /\ (r[i].fin => tx[s].fin /\ r[i].len = 0) BY <1>2, <2>1, <2>6 DEF QueueOne
  <2>8. ASSUME NEW i \in 1 .. Len(r), NEW j \in 1 .. Len(r), i < j, r[i].fin PROVE r[j].fin
    <3>1. i + 1 < j + 1 BY <2>8
    <3> QED BY <1>2, <2>1, <2>6, <2>8, <3>1 DEF QueueOne
  <2> QED BY <1>1, <2>6, <2>7, <2>8 DEF QueueOne, Aborted
<1>7. ResetsInv'
  <2>1. \A i \in 1 .. Len(resets) : resets[i] \in sendMap' /\ Aborted(resets[i]) /\ resets[i] # s
    BY <1>1 DEF SenderInv, ResetsInv
  <2> QED BY <1>1, <2>1 DEF SenderInv, ResetsInv, Aborted, Opened
<1> QED BY <1>4, <1>5, <1>6, <1>7 DEF SenderInv

\* The RESET_STREAM the writer takes from the control lane: it names what was
\* put on the transport.
LEMMA PoppedReset ==
  ASSUME Types, SenderInv, TransmitReset
  PROVE  \E s \in Streams :
           /\ Aborted(s) /\ s \in sendMap /\ resets # <<>> /\ s = Head(resets)
           /\ wireAB' = Append(wireAB, ResetFrame(s, wired[s])) /\ sendMap' = sendMap \ {s} /\ resets' = Tail(resets)
           /\ UNCHANGED <<openC, connS, strS, tx, holding, stopped, queue, sentOff, wired>>
<1>1. /\ resets # <<>> /\ resets' = Tail(resets) /\ resets \in Seq(Streams)
      /\ UNCHANGED <<openC, connS, strS, tx, holding, stopped, queue, sentOff, wired>>
  BY DEF TransmitReset, Types, SenderTypes
<1>2. 1 \in 1 .. Len(resets) /\ Head(resets) = resets[1] /\ Head(resets) \in Streams BY <1>1, SeqTail
<1>3. PICK s \in Streams : s = Head(resets) BY <1>2
<1>4. Aborted(s) /\ s \in sendMap BY <1>2, <1>3 DEF SenderInv, ResetsInv
<1>5. sentOff[s] = wired[s] BY <1>4 DEF SenderInv, SendOne
<1>6. wireAB' = Append(wireAB, ResetFrame(s, wired[s])) /\ sendMap' = sendMap \ {s}
  BY <1>3, <1>4, <1>5 DEF TransmitReset
<1> QED BY <1>1, <1>3, <1>4, <1>6

\* Sending a reset keeps the sending end's invariant.
LEMMA TransmitResetInv ==
  ASSUME Types, SenderInv, TransmitReset
  PROVE  SenderInv'
<1>1. PICK s \in Streams :
         /\ Aborted(s) /\ s \in sendMap /\ resets # <<>> /\ s = Head(resets)
         /\ sendMap' = sendMap \ {s} /\ resets' = Tail(resets)
         /\ UNCHANGED <<openC, connS, strS, tx, holding, stopped, queue, sentOff, wired>> BY PoppedReset
<1>2. ASSUME NEW t \in Streams, t # s PROVE SendOne(t)' /\ QueueOne(t)' BY <1>1, <1>2, SameStream DEF SenderInv
<1>3. SendOne(s)' /\ QueueOne(s)'
  <2>1. SendOne(s) /\ QueueOne(s) BY DEF SenderInv
  <2>2. SendOne(s)' BY <1>1, <2>1 DEF SendOne, Opened, Writable, Aborted
  <2>3. QueueOne(s)' BY <1>1, <2>1 DEF QueueOne, Chain
  <2> QED BY <2>2, <2>3
<1>4. ResetsInv'
  <2>0. resets \in Seq(Streams) BY DEF Types, SenderTypes
  <2>1. PICK r : r = Tail(resets) OBVIOUS
  <2>2. /\ Len(resets) \in Nat /\ Len(r) = Len(resets) - 1 /\ s = resets[1] /\ 1 \in 1 .. Len(resets)
        /\ \A i \in 1 .. Len(resets) - 1 : r[i] = resets[i + 1] /\ i + 1 \in 1 .. Len(resets)
    BY <1>1, <2>0, <2>1, SeqTail
  <2>3. \A i \in 1 .. Len(r) : r[i] = resets[i + 1] /\ i + 1 \in 1 .. Len(resets) /\ i + 1 # 1 BY <2>2
  <2>4. \A i \in 1 .. Len(r) : Aborted(r[i]) /\ r[i] \in sendMap /\ r[i] # s BY <2>2, <2>3 DEF SenderInv, ResetsInv
  <2>5. ASSUME NEW i \in 1 .. Len(r), NEW j \in 1 .. Len(r), i # j PROVE r[i] # r[j]
    <3>1. i + 1 # j + 1 BY <2>5
    <3> QED BY <2>3, <3>1 DEF SenderInv, ResetsInv
  <2> QED BY <1>1, <2>1, <2>4, <2>5 DEF ResetsInv, Aborted, Opened
<1> QED BY <1>2, <1>3, <1>4 DEF SenderInv

\* A control frame that arrives keeps the sending end's invariant.
LEMMA RecvControlInv ==
  ASSUME Types, SenderInv, SenderReader
  PROVE  SenderInv'
<1>. DEFINE f == Head(wireBA)
<1>1. f \in ControlFrames /\ UNCHANGED <<tx, holding, queue, resets, sendMap, sentOff, wired>>
  BY DEF SenderReader, RecvControl, Types, WireTypes
<1>2. openC'.used = openC.used
  <2>1. CASE f.type = "max_streams"
    <3>1. openC' = RecvMax(openC, f.max) /\ openC \in CreditState /\ f.max \in Nat
      BY <1>1, <2>1, FrameFields DEF SenderReader, RecvControl, Types, SenderTypes
    <3> HIDE DEF f
    <3>2. RecvMax(openC, f.max).used = openC.used BY <3>1, RecvMaxFacts
    <3> QED BY <3>1, <3>2
  <2>2. CASE f.type # "max_streams" BY <2>2 DEF SenderReader, RecvControl
  <2> QED BY <2>1, <2>2
<1>3. stopped' \subseteq stopped \cup sendMap BY DEF SenderReader, RecvControl
<1>4. ASSUME NEW t \in Streams PROVE SendOne(t)' /\ QueueOne(t)' BY <1>1, <1>2, <1>3, SameStream DEF SenderInv
<1>5. ResetsInv' BY <1>1 DEF SenderInv, ResetsInv, Aborted, Opened
<1> QED BY <1>4, <1>5 DEF SenderInv

\* The sending end starts with its invariant.
LEMMA InitSenderInv == Init => SenderInv
<1> SUFFICES ASSUME Init PROVE SenderInv OBVIOUS
<1>1. openC.used = 0 BY DEF Init, NewCredit
<1>2. /\ \A s \in Streams : /\ tx[s].offset = 0 /\ tx[s].fin = FALSE /\ tx[s].closed = "no"
                            /\ queue[s] = <<>> /\ wired[s] = 0 /\ sentOff[s] = 0
                            /\ tx[s].st = IF s \in Own THEN "open" ELSE "none"
      /\ holding = {} /\ stopped = {} /\ sendMap = Own /\ resets = <<>> BY DEF Init
<1>3. ASSUME NEW s \in Streams PROVE SendOne(s) /\ QueueOne(s)
  <2>1. s \in Nat /\ (s \in Own <=> s \notin Uni) /\ ~(s < 0) BY UniOrOwn
  <2>2. SendOne(s) BY <1>1, <1>2, <2>1 DEF SendOne, Opened, Writable
  <2>3. QueueOne(s) BY <1>2 DEF QueueOne, Chain
  <2> QED BY <2>2, <2>3
<1>4. ResetsInv BY <1>2 DEF ResetsInv
<1> QED BY <1>3, <1>4 DEF SenderInv

\* Every step keeps the sending end's invariant.
LEMMA NextSenderInv ==
  ASSUME Types, SenderInv, [Next]_vars
  PROVE  SenderInv'
<1>1. CASE UNCHANGED vars BY <1>1, SenderSame DEF vars
<1>2. ASSUME NEW s \in Streams, SenderApp(s) PROVE SenderInv' BY <1>2, SenderAppInv
<1>3. CASE SenderWriter BY <1>3, TransmitStreamInv, TransmitResetInv DEF SenderWriter
<1>4. CASE SenderReader BY <1>4, RecvControlInv
<1>5. CASE ReceiverReader BY <1>5, SenderSame DEF ReceiverReader
<1>6. CASE Accept BY <1>6, SenderSame DEF Accept
<1>7. CASE ReceiverWriter BY <1>7, SenderSame DEF ReceiverWriter
<1>8. ASSUME NEW f \in Fronts, ReceiverApp(f) PROVE SenderInv' BY <1>8, SenderSame DEF ReceiverApp
<1> QED BY <1>1, <1>2, <1>3, <1>4, <1>5, <1>6, <1>7, <1>8 DEF Next

----------------------------------------------------------------------------
(* The transport: what was sent is on its way, in order                   *)

\* What the sending application never takes back from a stream that has frames on
\* the transport.
LEMMA SenderAppKeeps ==
  ASSUME Types, SenderInv, NEW s \in Streams, SenderApp(s), NEW t \in Streams, Opened(t)
  PROVE  /\ tx'[t].st = "open"
         /\ Aborted(t) => Aborted(t)'
         /\ t \in sendMap' <=> t \in sendMap
         /\ tx[t].fin => tx'[t].fin
         /\ tx[t].fin /\ (\A j \in 1 .. Len(queue[t]) : queue[t][j].fin) =>
              \A j \in 1 .. Len(queue'[t]) : queue'[t][j].fin
         /\ wired' = wired
<1>0. SenderTypes /\ queue \in [Streams -> Seq(StreamFrames)] /\ SendOne(s) BY DEF Types, SenderTypes, SenderInv
<1>1. CASE OpenUni(s)
  <2>1. /\ tx[s].st = "none" /\ tx' = [tx EXCEPT ![s].st = "open"] /\ sendMap' = sendMap \cup {s}
        /\ UNCHANGED <<queue, wired>> BY <1>1 DEF OpenUni
  <2>2. t # s BY <2>1 DEF Opened
  <2>3. tx'[t] = tx[t] BY <1>0, <2>1, <2>2, TxOpens
  <2> QED BY <2>1, <2>2, <2>3 DEF Opened, Aborted
<1>2. CASE ReserveSlot(s) \/ CancelWrite(s) BY <1>2 DEF ReserveSlot, CancelWrite, Opened, Aborted
<1>3. CASE CommitWrite(s)
  <2>1. PICK n \in Nat :
         /\ s \in holding /\ queue' = [queue EXCEPT ![s] = Append(@, StreamFrame(s, tx[s].offset, n, FALSE))]
         /\ tx' = [tx EXCEPT ![s].offset = @ + n]
         /\ UNCHANGED <<sendMap, wired>> BY <1>3, CommitCases
  <2>2. /\ tx'[s].st = tx[s].st /\ tx'[s].fin = tx[s].fin
        /\ tx'[s].closed = tx[s].closed /\ \A u \in Streams : u # s => tx'[u] = tx[u] BY <1>0, <2>1, TxWrites
  <2>3. Writable(s) BY <1>0, <2>1 DEF SendOne
  <2>4. t # s => queue'[t] = queue[t] BY <1>0, <2>1
  <2> QED BY <2>1, <2>2, <2>3, <2>4 DEF Opened, Aborted, Writable
<1>4. ASSUME NEW why \in {"reset", "stop"}, Abandon(s, why), ~tx[s].fin, tx[s].closed = "no",
             UNCHANGED <<sendMap, wired>>
      PROVE  /\ tx'[t].st = "open"
             /\ Aborted(t) => Aborted(t)'
             /\ t \in sendMap' <=> t \in sendMap
             /\ tx[t].fin => tx'[t].fin
             /\ tx[t].fin /\ (\A j \in 1 .. Len(queue[t]) : queue[t][j].fin) =>
                  \A j \in 1 .. Len(queue'[t]) : queue'[t][j].fin
             /\ wired' = wired
  <2>1. /\ queue' = [queue EXCEPT ![s] = <<>>] /\ tx' = [tx EXCEPT ![s].closed = why] BY <1>4 DEF Abandon
  <2>2. /\ tx'[s].st = tx[s].st /\ tx'[s].fin = tx[s].fin
        /\ tx'[s].closed = why /\ \A u \in Streams : u # s => tx'[u] = tx[u] BY <1>0, <2>1, TxCloses
  <2>3. t # s => queue'[t] = queue[t] BY <1>0, <2>1
  <2> QED BY <1>4, <2>2, <2>3 DEF Opened, Aborted
<1>5. CASE Reset(s) BY <1>4, <1>5 DEF Reset, Writable
<1>6. CASE SeeStop(s)
  <2>1. tx[s].closed = "no" /\ UNCHANGED <<sendMap, wired>> BY <1>6 DEF SeeStop
  <2>2. CASE ~tx[s].fin BY <1>4, <1>6, <2>1, <2>2 DEF SeeStop
  <2>3. CASE tx[s].fin
    <3>1. tx' = [tx EXCEPT ![s].closed = "stop"] /\ UNCHANGED queue BY <1>6, <2>3 DEF SeeStop
    <3>2. /\ tx'[s].st = tx[s].st /\ tx'[s].fin = tx[s].fin
          /\ \A u \in Streams : u # s => tx'[u] = tx[u] BY <1>0, <3>1, TxCloses
    <3> QED BY <2>1, <2>3, <3>1, <3>2 DEF Opened, Aborted
  <2> QED BY <2>2, <2>3
<1>7. CASE Finish(s)
  <2>1. /\ tx[s].closed = "no" /\ queue' = [queue EXCEPT ![s] = Append(@, StreamFrame(s, tx[s].offset, 0, TRUE))]
        /\ tx' = [tx EXCEPT ![s].fin = TRUE, ![s].fins = @ + 1]
        /\ UNCHANGED <<sendMap, wired>> BY <1>7 DEF Finish
  <2>2. /\ tx'[s].st = tx[s].st /\ tx'[s].fin = TRUE
        /\ tx'[s].closed = tx[s].closed /\ \A u \in Streams : u # s => tx'[u] = tx[u] BY <1>0, <2>1, TxFinishes
  <2>3. t # s => queue'[t] = queue[t] BY <1>0, <2>1
  <2>4. ASSUME t = s, \A j \in 1 .. Len(queue[s]) : queue[s][j].fin,
               NEW j \in 1 .. Len(queue'[s]) PROVE queue'[s][j].fin
    <3>. DEFINE g == StreamFrame(s, tx[s].offset, 0, TRUE)
    <3>1. g \in StreamFrames /\ g.fin BY <1>0, TxFields DEF StreamFrame, StreamFrames
    <3>2. queue'[s] = Append(queue[s], g) /\ queue[s] \in Seq(StreamFrames) BY <1>0, <2>1
    <3> HIDE DEF g
    <3> QED BY <2>4, <3>1, <3>2, SeqAppend
  <2> QED BY <2>1, <2>2, <2>3, <2>4 DEF Opened, Aborted
<1> QED BY <1>1, <1>2, <1>3, <1>5, <1>6, <1>7 DEF SenderApp

\* The frames of wireAB, by type.
LEMMA WireFrame ==
  ASSUME Types, NEW i \in 1 .. Len(wireAB)
  PROVE  /\ wireAB[i] \in StreamFrames \cup ResetFrames /\ wireAB[i].id \in Streams
         /\ IsData(wireAB[i]) => wireAB[i] \in StreamFrames /\ wireAB[i].off \in Nat /\ wireAB[i].len \in Nat
         /\ ~IsData(wireAB[i]) => wireAB[i] \in ResetFrames
<1>1. wireAB[i] \in StreamFrames \cup ResetFrames BY DEF Types, WireTypes
<1> QED BY <1>1, FrameFields DEF IsData

\* The invariant of the wire.
WirePart == WireInv /\ OrderInv /\ ReaderResetInv

\* A step of the sending application keeps the invariant of the wire: nothing
\* on it is touched, and only a stream with nothing more to send ends.
LEMMA WireSenderApp ==
  ASSUME Types, SenderInv, WirePart, NEW s \in Streams, SenderApp(s)
  PROVE  WirePart'
<1>1. wireAB' = wireAB /\ reader' = reader /\ arrived' = arrived BY DEF SenderApp, readerVars
<1>2. wired' = wired
  <2>1. CASE OpenUni(s) BY <2>1 DEF OpenUni
  <2>2. CASE CommitWrite(s) BY <2>2 DEF CommitWrite
  <2> QED BY <2>1, <2>2 DEF SenderApp, ReserveSlot, CancelWrite, Reset, SeeStop, Finish
<1>3. ASSUME NEW t \in Streams, Opened(t)
      PROVE  /\ tx'[t].st = "open"
             /\ Aborted(t) => tx'[t].closed # "no" /\ ~tx'[t].fin
             /\ t \in sendMap' <=> t \in sendMap
             /\ tx[t].fin => tx'[t].fin
             /\ tx[t].fin /\ (\A j \in 1 .. Len(queue[t]) : queue[t][j].fin) =>
                  \A j \in 1 .. Len(queue'[t]) : queue'[t][j].fin BY <1>3, SenderAppKeeps DEF Aborted
<1>4. WireInv'
  <2>1. ASSUME NEW i \in 1 .. Len(wireAB)
        PROVE  /\ Opened(wireAB[i].id)'
               /\ ~IsData(wireAB[i]) => /\ Aborted(wireAB[i].id)' /\ wireAB[i].id \notin sendMap'
                                        /\ wireAB[i].final = wired[wireAB[i].id]
               /\ IsData(wireAB[i]) /\ wireAB[i].fin =>
                    /\ tx'[wireAB[i].id].fin /\ wireAB[i].len = 0
                    /\ \A j \in 1 .. Len(queue'[wireAB[i].id]) : queue'[wireAB[i].id][j].fin
    <3>1. wireAB[i].id \in Streams /\ Opened(wireAB[i].id) BY WireFrame DEF WirePart, WireInv
    <3> QED BY <1>1, <1>3, <3>1 DEF WirePart, WireInv, Opened, Aborted
  <2> QED BY <1>1, <1>2, <2>1 DEF WirePart, WireInv, IsData, Opened, Aborted
<1>5. OrderInv' BY <1>1, <1>2 DEF WirePart, OrderInv, IsData
<1>6. ReaderResetInv'
  <2>1. ASSUME reader.pc \in ResetPcs PROVE reader.frame.id \in Streams /\ Opened(reader.frame.id)
    BY <2>1, FrameFields DEF WirePart, ReaderResetInv, Aborted, Types, ReaderTypes
  <2> QED BY <1>1, <1>2, <1>3, <2>1 DEF WirePart, ReaderResetInv, Aborted, Opened
<1> QED BY <1>4, <1>5, <1>6 DEF WirePart

\* A reset is put behind everything its stream sent.
LEMMA WireTransmitReset ==
  ASSUME Types, SenderInv, WirePart, TransmitReset, UNCHANGED readerVars
  PROVE  WirePart'
<1>1. PICK s \in Streams :
         /\ Aborted(s) /\ s \in sendMap /\ wireAB' = Append(wireAB, ResetFrame(s, wired[s])) /\ sendMap' = sendMap \ {s}
         /\ UNCHANGED <<openC, connS, strS, tx, holding, stopped, queue, sentOff, wired>> BY PoppedReset
<1>2. PICK g \in ResetFrames : /\ g = ResetFrame(s, wired[s])
                               /\ g.id = s /\ g.final = wired[s] /\ ~IsData(g)
  <2>1. wired[s] \in Nat BY DEF Types, SenderTypes
  <2>. DEFINE r == ResetFrame(s, wired[s])
  <2>2. r \in ResetFrames /\ r.id = s /\ r.final = wired[s] /\ ~IsData(r) BY <2>1 DEF ResetFrame, ResetFrames, IsData
  <2> HIDE DEF r
  <2> QED BY <2>2 DEF r
<1>3. PICK w, n : w = wireAB /\ n = Len(wireAB) OBVIOUS
<1>4. /\ n \in Nat /\ Len(wireAB') = n + 1 /\ wireAB'[n + 1] = g
      /\ \A i \in 1 .. n : wireAB'[i] = w[i]
      /\ \A i \in 1 .. n + 1 : i \in 1 .. n \/ i = n + 1 BY <1>1, <1>2, <1>3, SeqAppend DEF Types, WireTypes
<1>5. /\ reader' = reader /\ arrived' = arrived BY DEF readerVars
<1>6. WireInv'
  <2>1. ASSUME NEW i \in 1 .. n + 1
        PROVE  /\ tx[wireAB'[i].id].st = "open"
               /\ ~IsData(wireAB'[i]) => /\ Aborted(wireAB'[i].id) /\ wireAB'[i].id \notin sendMap'
                                         /\ wireAB'[i].final = wired[wireAB'[i].id]
               /\ IsData(wireAB'[i]) /\ wireAB'[i].fin =>
                    /\ tx[wireAB'[i].id].fin /\ wireAB'[i].len = 0
                    /\ \A j \in 1 .. Len(queue[wireAB'[i].id]) : queue[wireAB'[i].id][j].fin
    <3>1. CASE i = n + 1 BY <1>1, <1>2, <1>4, <3>1 DEF Aborted, Opened
    <3>2. CASE i \in 1 .. n BY <1>1, <1>3, <1>4, <3>2 DEF WirePart, WireInv, Opened
    <3> QED BY <1>4, <3>1, <3>2
  <2>2. ASSUME NEW i \in 1 .. n + 1, NEW j \in 1 .. n + 1, i < j, wireAB'[i].id = wireAB'[j].id
        PROVE  IsData(wireAB'[i]) /\ (wireAB'[i].fin => IsData(wireAB'[j]) /\ wireAB'[j].fin)
    <3>1. i \in 1 .. n BY <1>4, <2>2
    <3>2. CASE j = n + 1
      <4>1. wireAB'[i] = w[i] /\ w[i].id = s BY <1>2, <1>4, <2>2, <3>1, <3>2
      <4> QED BY <1>1, <1>3, <3>1, <4>1 DEF WirePart, WireInv, Aborted
    <3>3. CASE j \in 1 .. n BY <1>3, <1>4, <2>2, <3>1, <3>3 DEF WirePart, WireInv
    <3> QED BY <1>4, <3>2, <3>3
  <2> QED BY <1>1, <1>4, <2>1, <2>2 DEF WireInv, IsData, Opened, Aborted
<1>7. OrderInv'
  <2>1. \A i \in 1 .. n + 1 : IsData(wireAB'[i]) => i \in 1 .. n /\ wireAB'[i] = w[i] BY <1>2, <1>4
  <2>2. \A i \in 1 .. n : i \in 1 .. n + 1 BY <1>4
  <2>3. ASSUME NEW i \in 1 .. n + 1, IsData(wireAB'[i])
        PROVE  /\ arrived[wireAB'[i].id] <= wireAB'[i].off /\ wireAB'[i].off + wireAB'[i].len <= wired[wireAB'[i].id]
               /\ \/ wireAB'[i].off + wireAB'[i].len = wired[wireAB'[i].id]
                  \/ \E j \in 1 .. n + 1 :
                       i < j /\ IsData(wireAB'[j]) /\ wireAB'[j].id = wireAB'[i].id
                             /\ wireAB'[j].off = wireAB'[i].off + wireAB'[i].len
    BY <1>3, <1>4, <2>1, <2>2, <2>3 DEF WirePart, OrderInv
  <2>4. ASSUME NEW i \in 1 .. n + 1, NEW j \in 1 .. n + 1, i < j, IsData(wireAB'[i]), IsData(wireAB'[j]),
               wireAB'[i].id = wireAB'[j].id
        PROVE  wireAB'[i].off + wireAB'[i].len <= wireAB'[j].off BY <1>3, <2>1, <2>4 DEF WirePart, OrderInv
  <2>5. ASSUME NEW t \in Streams
        PROVE  /\ arrived[t] <= wired[t]
               /\ \/ arrived[t] = wired[t]
                  \/ \E i \in 1 .. n + 1 : IsData(wireAB'[i]) /\ wireAB'[i].id = t
                                            /\ wireAB'[i].off = arrived[t] BY <1>3, <1>4, <2>2 DEF WirePart, OrderInv
  <2> QED BY <1>1, <1>4, <1>5, <2>3, <2>4, <2>5 DEF OrderInv, IsData
<1>8. ReaderResetInv'
  <2> SUFFICES ASSUME reader.pc \in ResetPcs PROVE ReaderResetInv' BY <1>5 DEF ReaderResetInv
  <2>1. reader.frame.id # s BY <1>1 DEF WirePart, ReaderResetInv
  <2>2. \A i \in 1 .. n + 1 : wireAB'[i].id # reader.frame.id BY <1>2, <1>3, <1>4, <2>1 DEF WirePart, ReaderResetInv
  <2> QED BY <1>1, <1>4, <1>5, <2>2 DEF WirePart, ReaderResetInv, Aborted, Opened
<1> QED BY <1>6, <1>7, <1>8 DEF WirePart

\* A STREAM frame is put behind the one it continues.
LEMMA WireTransmitStream ==
  ASSUME Types, SenderInv, WirePart, NEW s \in Streams, TransmitStream(s), UNCHANGED readerVars
  PROVE  WirePart'
<1>1. PICK g \in StreamFrames :
         /\ g.id = s /\ g.off = wired[s] /\ g.len \in Nat /\ g.fin \in BOOLEAN
         /\ Opened(s) /\ ~Aborted(s) /\ queue[s] # <<>>
         /\ g.fin => tx[s].fin /\ g.len = 0
         /\ g.fin => \A j \in 1 .. Len(Tail(queue[s])) : Tail(queue[s])[j].fin
         /\ (\A j \in 1 .. Len(queue[s]) : queue[s][j].fin) =>
              g.fin /\ \A j \in 1 .. Len(Tail(queue[s])) : Tail(queue[s])[j].fin
         /\ wireAB' = Append(wireAB, g) /\ queue' = [queue EXCEPT ![s] = Tail(@)]
         /\ sendMap' = IF g.fin THEN sendMap \ {s} ELSE sendMap
         /\ wired' = [wired EXCEPT ![s] = @ + g.len]
         /\ UNCHANGED tx BY PoppedFrame
<1>2. IsData(g) BY FrameFields DEF IsData
<1>3. PICK w, n : w = wireAB /\ n = Len(wireAB) OBVIOUS
<1>4. /\ n \in Nat /\ Len(wireAB') = n + 1 /\ wireAB'[n + 1] = g
      /\ \A i \in 1 .. n : wireAB'[i] = w[i] /\ i \in 1 .. n + 1 /\ i < n + 1
      /\ \A i \in 1 .. n + 1 : i \in 1 .. n \/ i = n + 1
      /\ n + 1 \in 1 .. n + 1
  <2>1. /\ n \in Nat /\ Len(wireAB') = n + 1 /\ wireAB'[n + 1] = g
        /\ \A i \in 1 .. n : wireAB'[i] = w[i]
        /\ \A i \in 1 .. n + 1 : i \in 1 .. n \/ i = n + 1 BY <1>1, <1>3, SeqAppend DEF Types, WireTypes
  <2>2. n + 1 \in 1 .. n + 1 /\ \A i \in 1 .. n : i \in 1 .. n + 1 /\ i < n + 1 BY <2>1
  <2> QED BY <2>1, <2>2
<1>5. /\ reader' = reader /\ arrived' = arrived BY DEF readerVars
<1>6. /\ queue'[s] = Tail(queue[s]) /\ wired'[s] = wired[s] + g.len
      /\ \A t \in Streams : t # s => queue'[t] = queue[t] /\ wired'[t] = wired[t]
      /\ \A t \in Streams : wired[t] \in Nat /\ arrived[t] \in Nat BY <1>1 DEF Types, SenderTypes, ReaderTypes
<1>7. \A i \in 1 .. n : /\ w[i].id \in Streams
                        /\ IsData(w[i]) => w[i].off \in Nat /\ w[i].len \in Nat BY <1>3, WireFrame
<1>8. \A i \in 1 .. n : w[i].id = s => IsData(w[i]) BY <1>1, <1>3 DEF WirePart, WireInv
<1>9. WireInv'
  <2>1. ASSUME NEW i \in 1 .. n + 1
        PROVE  /\ tx[wireAB'[i].id].st = "open"
               /\ ~IsData(wireAB'[i]) => /\ Aborted(wireAB'[i].id) /\ wireAB'[i].id \notin sendMap'
                                         /\ wireAB'[i].final = wired'[wireAB'[i].id]
               /\ IsData(wireAB'[i]) /\ wireAB'[i].fin =>
                    /\ tx[wireAB'[i].id].fin /\ wireAB'[i].len = 0
                    /\ \A j \in 1 .. Len(queue'[wireAB'[i].id]) : queue'[wireAB'[i].id][j].fin
    <3>1. CASE i = n + 1 BY <1>1, <1>2, <1>4, <1>6, <3>1, ZenonT(30) DEF Opened
    <3>2. CASE i \in 1 .. n
      <4>1. wireAB'[i] = w[i] /\ w[i].id \in Streams BY <1>4, <1>7, <3>2
      <4>2. tx[w[i].id].st = "open" BY <1>3, <3>2 DEF WirePart, WireInv, Opened
      <4>3. ~IsData(w[i]) => /\ Aborted(w[i].id) /\ w[i].id \notin sendMap'
                             /\ w[i].final = wired'[w[i].id] BY <1>1, <1>3, <1>6, <1>8, <3>2, <4>1 DEF WirePart, WireInv
      <4>4. ASSUME IsData(w[i]), w[i].fin
            PROVE  /\ tx[w[i].id].fin /\ w[i].len = 0
                   /\ \A j \in 1 .. Len(queue'[w[i].id]) : queue'[w[i].id][j].fin
        <5>1. /\ tx[w[i].id].fin /\ w[i].len = 0
              /\ \A j \in 1 .. Len(queue[w[i].id]) : queue[w[i].id][j].fin BY <1>3, <3>2, <4>4 DEF WirePart, WireInv
        <5>2. CASE w[i].id = s BY <1>1, <1>6, <5>1, <5>2
        <5>3. CASE w[i].id # s BY <1>6, <4>1, <5>1, <5>3
        <5> QED BY <5>2, <5>3
      <4> QED BY <4>1, <4>2, <4>3, <4>4
    <3> QED BY <1>4, <3>1, <3>2
  <2>2. ASSUME NEW i \in 1 .. n + 1, NEW j \in 1 .. n + 1, i < j, wireAB'[i].id = wireAB'[j].id
        PROVE  IsData(wireAB'[i]) /\ (wireAB'[i].fin => IsData(wireAB'[j]) /\ wireAB'[j].fin)
    <3>1. i \in 1 .. n /\ wireAB'[i] = w[i] BY <1>4, <2>2
    <3>2. CASE j = n + 1
      <4>1. w[i].id = s /\ IsData(w[i]) /\ wireAB'[j] = g BY <1>1, <1>4, <1>8, <2>2, <3>1, <3>2
      <4>2. w[i].fin => \A k \in 1 .. Len(queue[s]) : queue[s][k].fin BY <1>3, <3>1, <4>1 DEF WirePart, WireInv
      <4> QED BY <1>1, <1>2, <3>1, <4>1, <4>2
    <3>3. CASE j \in 1 .. n BY <1>3, <1>4, <2>2, <3>1, <3>3 DEF WirePart, WireInv
    <3> QED BY <1>4, <3>2, <3>3
  <2>3. Len(wireAB') = n + 1 /\ tx' = tx BY <1>1, <1>4
  <2>4. \A t : (Opened(t))' = Opened(t) /\ (Aborted(t))' = Aborted(t) BY <2>3 DEF Opened, Aborted
  <2> QED BY <2>1, <2>2, <2>3, <2>4 DEF WireInv, IsData, Opened
<1>10. OrderInv'
  <2>1. ASSUME NEW i \in 1 .. n + 1, IsData(wireAB'[i])
        PROVE  /\ arrived[wireAB'[i].id] <= wireAB'[i].off /\ wireAB'[i].off + wireAB'[i].len <= wired'[wireAB'[i].id]
               /\ \/ wireAB'[i].off + wireAB'[i].len = wired'[wireAB'[i].id]
                  \/ \E j \in 1 .. n + 1 :
                       i < j /\ IsData(wireAB'[j]) /\ wireAB'[j].id = wireAB'[i].id
                             /\ wireAB'[j].off = wireAB'[i].off + wireAB'[i].len
    <3>1. CASE i = n + 1
      <4>1. arrived[s] <= wired[s] BY DEF WirePart, OrderInv
      <4>2. g.off + g.len = wired'[s] BY <1>1, <1>6
      <4>3. wired'[s] <= wired'[s] BY <1>1, <1>6
      <4> QED BY <1>1, <1>4, <3>1, <4>1, <4>2, <4>3
    <3>2. CASE i \in 1 .. n
      <4>1. wireAB'[i] = w[i] /\ w[i].id \in Streams /\ w[i].off \in Nat /\ w[i].len \in Nat /\ IsData(w[i])
        BY <1>4, <1>7, <2>1, <3>2
      <4>2. /\ arrived[w[i].id] <= w[i].off /\ w[i].off + w[i].len <= wired[w[i].id]
            /\ \/ w[i].off + w[i].len = wired[w[i].id]
               \/ \E j \in 1 .. n : i < j /\ IsData(w[j]) /\ w[j].id = w[i].id
                                    /\ w[j].off = w[i].off + w[i].len BY <1>3, <3>2, <4>1 DEF WirePart, OrderInv
      <4>3. w[i].off + w[i].len <= wired'[w[i].id]
        <5>1. CASE w[i].id = s BY <1>1, <1>6, <4>1, <4>2, <5>1
        <5>2. CASE w[i].id # s BY <1>6, <4>1, <4>2, <5>2
        <5> QED BY <5>1, <5>2
      <4>4. CASE \E j \in 1 .. n : i < j /\ IsData(w[j]) /\ w[j].id = w[i].id
                                    /\ w[j].off = w[i].off + w[i].len BY <1>4, <4>1, <4>2, <4>3, <4>4
      <4>5. CASE w[i].off + w[i].len = wired[w[i].id]
        <5>1. CASE w[i].id = s
          <6>1. /\ n + 1 \in 1 .. n + 1 /\ i < n + 1 /\ IsData(wireAB'[n + 1]) /\ wireAB'[n + 1].id = wireAB'[i].id
                /\ wireAB'[n + 1].off = wireAB'[i].off + wireAB'[i].len BY <1>1, <1>2, <1>4, <3>2, <4>1, <4>5, <5>1
          <6> QED BY <4>1, <4>2, <4>3, <6>1
        <5>2. CASE w[i].id # s BY <1>6, <4>1, <4>2, <4>3, <4>5, <5>2
        <5> QED BY <5>1, <5>2
      <4> QED BY <4>2, <4>4, <4>5
    <3> QED BY <1>4, <3>1, <3>2
  <2>2. ASSUME NEW i \in 1 .. n + 1, NEW j \in 1 .. n + 1, i < j, IsData(wireAB'[i]), IsData(wireAB'[j]),
               wireAB'[i].id = wireAB'[j].id
        PROVE  wireAB'[i].off + wireAB'[i].len <= wireAB'[j].off
    <3>1. i \in 1 .. n /\ wireAB'[i] = w[i] BY <1>4, <2>2
    <3>2. CASE j = n + 1
      <4>1. w[i].id = s /\ wireAB'[j] = g BY <1>1, <1>4, <2>2, <3>1, <3>2
      <4> QED BY <1>1, <1>3, <2>2, <3>1, <4>1 DEF WirePart, OrderInv
    <3>3. CASE j \in 1 .. n BY <1>3, <1>4, <2>2, <3>1, <3>3 DEF WirePart, OrderInv
    <3> QED BY <1>4, <3>2, <3>3
  <2>3. ASSUME NEW t \in Streams
        PROVE  /\ arrived[t] <= wired'[t]
               /\ \/ arrived[t] = wired'[t]
                  \/ \E i \in 1 .. n + 1 : IsData(wireAB'[i]) /\ wireAB'[i].id = t
                                            /\ wireAB'[i].off = arrived[t]
    <3>1. /\ arrived[t] <= wired[t]
          /\ \/ arrived[t] = wired[t]
             \/ \E i \in 1 .. n : IsData(w[i]) /\ w[i].id = t /\ w[i].off = arrived[t] BY <1>3 DEF WirePart, OrderInv
    <3>2. arrived[t] <= wired'[t] BY <1>1, <1>6, <3>1
    <3>3. CASE \E i \in 1 .. n : IsData(w[i]) /\ w[i].id = t /\ w[i].off = arrived[t] BY <1>4, <3>2, <3>3
    <3>4. CASE arrived[t] = wired[t]
      <4>1. CASE t = s BY <1>1, <1>2, <1>4, <3>2, <3>4, <4>1
      <4>2. CASE t # s BY <1>6, <3>2, <3>4, <4>2
      <4> QED BY <4>1, <4>2
    <3> QED BY <3>1, <3>3, <3>4
  <2> QED BY <1>4, <1>5, <2>1, <2>2, <2>3 DEF OrderInv, IsData
<1>11. ReaderResetInv'
  <2> SUFFICES ASSUME reader.pc \in ResetPcs PROVE ReaderResetInv' BY <1>5 DEF ReaderResetInv
  <2>1. reader.frame.id # s /\ reader.frame.id \in Streams
    BY <1>1, FrameFields DEF WirePart, ReaderResetInv, Types, ReaderTypes
  <2>2. \A i \in 1 .. n + 1 : wireAB'[i].id # reader.frame.id BY <1>1, <1>3, <1>4, <2>1 DEF WirePart, ReaderResetInv
  <2>3. wired'[reader.frame.id] = wired[reader.frame.id] /\ reader.frame.id \notin sendMap'
    BY <1>1, <1>6, <2>1 DEF WirePart, ReaderResetInv
  <2> QED BY <1>1, <1>4, <1>5, <2>2, <2>3 DEF WirePart, ReaderResetInv, Aborted, Opened
<1> QED BY <1>9, <1>10, <1>11 DEF WirePart

\* The pc and the frame of the reader's next state, one field at a time.
LEMMA ReaderAt ==
  ASSUME ReaderTypes
  PROVE  /\ Idle.pc = "idle" /\ Idle \in ReaderStates
         /\ \A pc \in StreamPcs \cup ResetPcs :
              /\ [reader EXCEPT !.pc = pc].pc = pc /\ [reader EXCEPT !.pc = pc].frame = reader.frame
              /\ [reader EXCEPT !.pc = pc].live = reader.live
         /\ \A pc \in ResetPcs : \A m \in Nat :
              /\ [reader EXCEPT !.max = m, !.pc = pc].pc = pc
              /\ [reader EXCEPT !.max = m, !.pc = pc].frame = reader.frame
              /\ [reader EXCEPT !.max = m, !.pc = pc].live = reader.live /\ [reader EXCEPT !.max = m, !.pc = pc].max = m
              /\ [reader EXCEPT !.pc = pc, !.max = m].pc = pc
              /\ [reader EXCEPT !.pc = pc, !.max = m].frame = reader.frame
              /\ [reader EXCEPT !.pc = pc, !.max = m].live = reader.live /\ [reader EXCEPT !.pc = pc, !.max = m].max = m
<1>1. Idle.pc = "idle" /\ Idle \in ReaderStates BY ReaderShapes
<1>2. reader \in ReaderStates BY DEF ReaderTypes
<1>3. ASSUME NEW pc \in StreamPcs \cup ResetPcs
      PROVE /\ [reader EXCEPT !.pc = pc].pc = pc /\ [reader EXCEPT !.pc = pc].frame = reader.frame
            /\ [reader EXCEPT !.pc = pc].live = reader.live BY <1>2 DEF ReaderStates
<1>4. ASSUME NEW pc \in ResetPcs, NEW m \in Nat
      PROVE /\ [reader EXCEPT !.max = m, !.pc = pc].pc = pc /\ [reader EXCEPT !.max = m, !.pc = pc].frame = reader.frame
            /\ [reader EXCEPT !.max = m, !.pc = pc].live = reader.live /\ [reader EXCEPT !.max = m, !.pc = pc].max = m
            /\ [reader EXCEPT !.pc = pc, !.max = m].pc = pc /\ [reader EXCEPT !.pc = pc, !.max = m].frame = reader.frame
            /\ [reader EXCEPT !.pc = pc, !.max = m].live = reader.live
            /\ [reader EXCEPT !.pc = pc, !.max = m].max = m BY <1>2 DEF ReaderStates
<1> QED BY <1>1, <1>3, <1>4

\* A step of the reader within a frame keeps the frame and takes nothing from the
\* transport.
LEMMA ReaderGoesOn ==
  ASSUME Types,
         RouteStream \/ OfferStream \/ InsertStream \/ AccountReset \/ ReaderGrant \/ RetireReset
  PROVE  /\ UNCHANGED <<wireAB, arrived>> /\ reader'.pc # "stream"
         /\ reader'.pc \in ResetPcs => /\ reader.pc \in ResetPcs /\ reader'.frame = reader.frame
                                       /\ reader'.live = reader.live
         /\ reader'.pc = "reset" => FALSE
         /\ reader'.pc = "accept" => reader.pc = "stream" /\ reader'.frame = reader.frame
         /\ reader'.pc = "insert" => reader.pc = "accept" /\ reader'.frame = reader.frame
<1>0. ReaderTypes /\ CreditTypes BY DEF Types
<1> USE DEF StreamPcs, ResetPcs
<1>1. CASE RouteStream
  <2>1. /\ reader.pc = "stream" /\ UNCHANGED <<wireAB, arrived>>
        /\ reader' = Idle \/ reader' = [reader EXCEPT !.pc = "accept"]
    <3>1. /\ reader.pc = "stream" /\ UNCHANGED <<wireAB, arrived>>
          /\ \/ RouteLive(reader.frame.id, <<reader.frame.id, recvMap[reader.frame.id]>>, reader.frame)
             \/ RouteOwn(reader.frame.id)
             \/ RouteFail(reader.frame.id, <<reader.frame.id, recvMap[reader.frame.id]>>, reader.frame)
             \/ RouteNew(reader.frame.id, reader.frame) BY <1>1, RouteCases
    <3> QED BY <3>1 DEF RouteLive, RouteOwn, RouteFail, RouteNew, Fail
  <2>2. CASE reader' = Idle BY <1>0, <2>1, <2>2, ReaderAt
  <2>3. ASSUME reader' = [reader EXCEPT !.pc = "accept"]
        PROVE  reader'.pc = "accept" /\ reader'.frame = reader.frame BY <1>0, <2>3 DEF ReaderTypes, ReaderStates
  <2> QED BY <2>1, <2>2, <2>3
<1>2. CASE OfferStream
  <2>1. reader.pc = "accept" /\ UNCHANGED <<wireAB, arrived>> /\ reader' = [reader EXCEPT !.pc = "insert"]
    BY <1>2 DEF OfferStream
  <2> QED BY <1>0, <2>1, ReaderAt
<1>3. CASE InsertStream
  <2>1. UNCHANGED <<wireAB, arrived>> /\ reader' = Idle BY <1>3 DEF InsertStream
  <2> QED BY <1>0, <2>1, ReaderAt
<1>4. CASE AccountReset
  <2>1. /\ reader.pc = "reset" /\ UNCHANGED <<wireAB, arrived>>
        /\ \/ reader' = Idle
           \/ \E pc \in {"grant", "retire"} : reader' = [reader EXCEPT !.max = connR'.max, !.pc = pc]
    <3>1. /\ reader.pc = "reset" /\ UNCHANGED <<wireAB, arrived>>
          /\ \/ Fail("panic") \/ AccountFlow(reader.frame.id, reader.frame.final)
             \/ Account(reader.frame.id, reader.frame.final) BY <1>4, AccountCases
    <3> QED BY <3>1 DEF AccountFlow, Account, Fail
  <2>2. CASE reader' = Idle BY <1>0, <2>1, <2>2, ReaderAt
  <2>3. ASSUME NEW pc \in {"grant", "retire"}, reader' = [reader EXCEPT !.max = connR'.max, !.pc = pc]
        PROVE  reader'.pc = pc /\ reader'.frame = reader.frame /\ reader'.live = reader.live
    BY <1>0, <2>3 DEF ReaderTypes, ReaderStates
  <2> QED BY <2>1, <2>2, <2>3
<1>5. CASE ReaderGrant
  <2>1. /\ reader.pc \in {"grant", "limit"} /\ UNCHANGED <<wireAB, arrived>>
        /\ reader' = Idle \/ reader' = [reader EXCEPT !.pc = "retire"] BY <1>5 DEF ReaderGrant
  <2>2. CASE reader' = Idle BY <1>0, <2>1, <2>2, ReaderAt
  <2>3. ASSUME reader' = [reader EXCEPT !.pc = "retire"]
        PROVE  reader'.pc = "retire" /\ reader'.frame = reader.frame /\ reader'.live = reader.live
    BY <1>0, <2>3 DEF ReaderTypes, ReaderStates
  <2> QED BY <2>1, <2>2, <2>3
<1>6. CASE RetireReset
  <2>1. /\ reader.pc = "retire" /\ UNCHANGED <<wireAB, arrived>>
        /\ reader' = Idle \/ reader' = [reader EXCEPT !.pc = "limit", !.max = limR'.max]
    <3>1. /\ reader.pc = "retire" /\ UNCHANGED <<wireAB, arrived>>
          /\ RetireLive(reader.frame.id) \/ RetireOwn(reader.frame.id) \/ RetireUnseen(reader.frame.id)
      BY <1>6, RetireCases
    <3> QED BY <3>1 DEF RetireLive, RetireOwn, RetireUnseen
  <2>2. CASE reader' = Idle BY <1>0, <2>1, <2>2, ReaderAt
  <2>3. ASSUME reader' = [reader EXCEPT !.pc = "limit", !.max = limR'.max]
        PROVE  reader'.pc = "limit" /\ reader'.frame = reader.frame /\ reader'.live = reader.live
    BY <1>0, <2>3 DEF ReaderTypes, ReaderStates
  <2> QED BY <2>1, <2>2, <2>3
<1> QED BY <1>1, <1>2, <1>3, <1>4, <1>5, <1>6

\* A step away from the wire keeps its invariant.
LEMMA WireSame ==
  ASSUME WirePart, UNCHANGED <<senderVars, wireAB, arrived>>,
         reader'.pc \in ResetPcs => reader.pc \in ResetPcs /\ reader'.frame = reader.frame
  PROVE  WirePart'
<1>1. WireInv' BY DEF WirePart, WireInv, IsData, Opened, Aborted, senderVars
<1>2. OrderInv' BY DEF WirePart, OrderInv, IsData, senderVars
<1>3. ReaderResetInv' BY DEF WirePart, ReaderResetInv, Aborted, Opened, senderVars
<1> QED BY <1>1, <1>2, <1>3 DEF WirePart

\* Taking the first frame leaves what holds of the others and of their order.
LEMMA WirePops ==
  ASSUME Types, WireInv, wireAB # <<>>, wireAB' = Tail(wireAB), UNCHANGED senderVars
  PROVE  /\ WireInv' /\ Len(wireAB) \in Nat /\ Head(wireAB) = wireAB[1] /\ 1 \in 1 .. Len(wireAB)
         /\ \A i \in 1 .. Len(wireAB') : /\ wireAB'[i] = wireAB[i + 1] /\ i + 1 \in 1 .. Len(wireAB) /\ 1 < i + 1
         /\ \A i \in 1 .. Len(wireAB) : i = 1 \/ (i - 1 \in 1 .. Len(wireAB') /\ wireAB'[i - 1] = wireAB[i])
<1>1. PICK w, v : w = wireAB /\ v = wireAB' OBVIOUS
<1>2. /\ Len(w) \in Nat /\ Len(w) >= 1 /\ Len(v) = Len(w) - 1 /\ Head(w) = w[1] /\ 1 \in 1 .. Len(w)
      /\ \A i \in 1 .. Len(w) - 1 : v[i] = w[i + 1] /\ i + 1 \in 1 .. Len(w)
      /\ \A i \in 1 .. Len(w) : i = 1 \/ (i - 1 \in 1 .. Len(w) - 1 /\ v[i - 1] = w[i])
  BY <1>1, SeqTail DEF Types, WireTypes
<1>3. \A i \in 1 .. Len(v) : v[i] = w[i + 1] /\ i + 1 \in 1 .. Len(w) /\ 1 < i + 1 BY <1>2
<1>4. WireInv'
  <2>1. ASSUME NEW i \in 1 .. Len(v)
        PROVE  /\ Opened(v[i].id)
               /\ ~IsData(v[i]) => /\ Aborted(v[i].id) /\ v[i].id \notin sendMap /\ v[i].final = wired[v[i].id]
               /\ IsData(v[i]) /\ v[i].fin =>
                    /\ tx[v[i].id].fin /\ v[i].len = 0
                    /\ \A j \in 1 .. Len(queue[v[i].id]) : queue[v[i].id][j].fin BY <1>1, <1>3 DEF WireInv
  <2>2. ASSUME NEW i \in 1 .. Len(v), NEW j \in 1 .. Len(v), i < j, v[i].id = v[j].id
        PROVE  IsData(v[i]) /\ (v[i].fin => IsData(v[j]) /\ v[j].fin)
    <3>1. i + 1 < j + 1 BY <2>2
    <3> QED BY <1>1, <1>3, <2>2, <3>1 DEF WireInv
  <2> QED BY <1>1, <2>1, <2>2 DEF WireInv, IsData, Opened, Aborted, senderVars
<1> QED BY <1>1, <1>2, <1>3, <1>4

\* The STREAM frame that is taken off the wire is the one that continues what
\* arrived.
LEMMA WireRecvStream ==
  ASSUME Types, WirePart, RecvStream, UNCHANGED senderVars
  PROVE  WirePart' /\ Head(wireAB).off = arrived[Head(wireAB).id]
<1>1. PICK g \in StreamFrames : g = Head(wireAB) BY RecvStreamCases
<1>2. /\ reader.pc = "idle" /\ wireAB # <<>> /\ wireAB' = Tail(wireAB)
      /\ arrived' = [arrived EXCEPT ![g.id] = @ + g.len]
      /\ g.id \in Streams /\ g.len \in Nat /\ g.off \in Nat /\ IsData(g)
      /\ TakeLate(g) \/ TakeFail(g) \/ Take(g) BY <1>1, RecvStreamCases DEF IsData
<1>3. PICK w, v, s : w = wireAB /\ v = wireAB' /\ s = g.id OBVIOUS
<1>4. /\ WireInv' /\ g = w[1] /\ 1 \in 1 .. Len(w)
      /\ \A i \in 1 .. Len(v) : v[i] = w[i + 1] /\ i + 1 \in 1 .. Len(w) /\ 1 < i + 1
      /\ \A i \in 1 .. Len(w) : i = 1 \/ (i - 1 \in 1 .. Len(v) /\ v[i - 1] = w[i])
  BY <1>1, <1>2, <1>3, WirePops DEF WirePart
<1>5. /\ \A i \in 1 .. Len(w) : w[i].id \in Streams /\ (IsData(w[i]) => w[i].off \in Nat /\ w[i].len \in Nat)
      /\ \A t \in Streams : wired[t] \in Nat /\ arrived[t] \in Nat
  BY <1>3, WireFrame DEF Types, SenderTypes, ReaderTypes
<1>6. /\ arrived[s] <= g.off /\ g.off + g.len <= wired[s] /\ arrived[s] <= wired[s]
      /\ \A i \in 1 .. Len(v) : IsData(v[i]) /\ v[i].id = s => g.off + g.len <= v[i].off
  <2>1. arrived[s] <= g.off /\ g.off + g.len <= wired[s] /\ arrived[s] <= wired[s]
    BY <1>2, <1>3, <1>4 DEF WirePart, OrderInv
  <2>2. ASSUME NEW i \in 1 .. Len(v), IsData(v[i]), v[i].id = s PROVE g.off + g.len <= v[i].off
    BY <1>2, <1>3, <1>4, <2>2 DEF WirePart, OrderInv
  <2> QED BY <2>1, <2>2
<1>7. g.off = arrived[s]
  <2>1. CASE arrived[s] = wired[s] BY <1>2, <1>3, <1>5, <1>6, <2>1
  <2>2. ASSUME NEW i \in 1 .. Len(w), IsData(w[i]), w[i].id = s, w[i].off = arrived[s]
        PROVE  g.off = arrived[s]
    <3>1. CASE i = 1 BY <1>4, <2>2, <3>1
    <3>2. CASE i # 1
      <4>1. i - 1 \in 1 .. Len(v) /\ v[i - 1] = w[i] BY <1>4, <3>2
      <4>2. g.off + g.len <= w[i].off BY <1>6, <2>2, <4>1
      <4> QED BY <1>2, <1>3, <1>5, <1>6, <2>2, <4>2
    <3> QED BY <3>1, <3>2
  <2> QED BY <1>2, <1>3, <2>1, <2>2 DEF WirePart, OrderInv
<1>8. arrived'[s] = g.off + g.len /\ \A t \in Streams : t # s => arrived'[t] = arrived[t]
  BY <1>2, <1>3, <1>7 DEF Types, ReaderTypes
<1>9. wired' = wired BY DEF senderVars
<1>10. OrderInv'
  <2>1. ASSUME NEW i \in 1 .. Len(v), IsData(v[i])
        PROVE  /\ arrived'[v[i].id] <= v[i].off /\ v[i].off + v[i].len <= wired[v[i].id]
               /\ \/ v[i].off + v[i].len = wired[v[i].id]
                  \/ \E j \in 1 .. Len(v) :
                       i < j /\ IsData(v[j]) /\ v[j].id = v[i].id /\ v[j].off = v[i].off + v[i].len
    <3>1. v[i] = w[i + 1] /\ i + 1 \in 1 .. Len(w) /\ v[i].id \in Streams BY <1>4, <1>5
    <3>2. /\ arrived[v[i].id] <= v[i].off /\ v[i].off + v[i].len <= wired[v[i].id]
          /\ \/ v[i].off + v[i].len = wired[v[i].id]
             \/ \E j \in 1 .. Len(w) :
                  i + 1 < j /\ IsData(w[j]) /\ w[j].id = v[i].id
                        /\ w[j].off = v[i].off + v[i].len BY <1>3, <2>1, <3>1 DEF WirePart, OrderInv
    <3>3. arrived'[v[i].id] <= v[i].off BY <1>6, <1>8, <2>1, <3>1, <3>2
    <3>4. ASSUME NEW j \in 1 .. Len(w), i + 1 < j, IsData(w[j]), w[j].id = v[i].id,
                 w[j].off = v[i].off + v[i].len
          PROVE  \E k \in 1 .. Len(v) : i < k /\ IsData(v[k]) /\ v[k].id = v[i].id
                                             /\ v[k].off = v[i].off + v[i].len
      <4>1. j # 1 /\ i < j - 1 BY <3>4
      <4>2. j - 1 \in 1 .. Len(v) /\ v[j - 1] = w[j] BY <1>4, <4>1
      <4> QED BY <3>4, <4>1, <4>2
    <3> QED BY <3>2, <3>3, <3>4
  <2>2. ASSUME NEW i \in 1 .. Len(v), NEW j \in 1 .. Len(v), i < j, IsData(v[i]), IsData(v[j]),
               v[i].id = v[j].id
        PROVE  v[i].off + v[i].len <= v[j].off
    <3>1. i + 1 < j + 1 BY <2>2
    <3> QED BY <1>3, <1>4, <2>2, <3>1 DEF WirePart, OrderInv
  <2>3. ASSUME NEW t \in Streams
        PROVE  /\ arrived'[t] <= wired[t]
               /\ \/ arrived'[t] = wired[t]
                  \/ \E i \in 1 .. Len(v) : IsData(v[i]) /\ v[i].id = t /\ v[i].off = arrived'[t]
    <3>1. CASE t = s
      <4>1. \/ g.off + g.len = wired[s]
            \/ \E j \in 1 .. Len(w) : 1 < j /\ IsData(w[j]) /\ w[j].id = s /\ w[j].off = g.off + g.len
        BY <1>2, <1>3, <1>4 DEF WirePart, OrderInv
      <4>2. ASSUME NEW j \in 1 .. Len(w), 1 < j, IsData(w[j]), w[j].id = s, w[j].off = g.off + g.len
            PROVE  \E i \in 1 .. Len(v) : IsData(v[i]) /\ v[i].id = s /\ v[i].off = g.off + g.len
        <5>1. j - 1 \in 1 .. Len(v) /\ v[j - 1] = w[j] BY <1>4, <4>2
        <5> QED BY <4>2, <5>1
      <4> QED BY <1>6, <1>8, <3>1, <4>1, <4>2
    <3>2. CASE t # s
      <4>1. /\ arrived[t] <= wired[t]
            /\ \/ arrived[t] = wired[t]
               \/ \E i \in 1 .. Len(w) : IsData(w[i]) /\ w[i].id = t /\ w[i].off = arrived[t]
        BY <1>3 DEF WirePart, OrderInv
      <4>2. ASSUME NEW i \in 1 .. Len(w), IsData(w[i]), w[i].id = t, w[i].off = arrived[t]
            PROVE  \E k \in 1 .. Len(v) : IsData(v[k]) /\ v[k].id = t /\ v[k].off = arrived[t]
        <5>1. i # 1 BY <1>3, <1>4, <3>2, <4>2
        <5>2. i - 1 \in 1 .. Len(v) /\ v[i - 1] = w[i] BY <1>4, <5>1
        <5> QED BY <4>2, <5>2
      <4> QED BY <1>8, <3>2, <4>1, <4>2
    <3> QED BY <3>1, <3>2
  <2> QED BY <1>3, <1>9, <2>1, <2>2, <2>3 DEF OrderInv, IsData
<1>11. ReaderResetInv'
  <2>1. reader'.pc \notin ResetPcs
    <3>1. CASE TakeLate(g) BY <1>2, <3>1 DEF TakeLate, ResetPcs
    <3>2. CASE TakeFail(g) BY <3>2, ReaderAt DEF TakeFail, Fail, ResetPcs, Types
    <3>3. CASE Take(g) BY <3>3 DEF Take, Idle, ResetPcs
    <3> QED BY <1>2, <3>1, <3>2, <3>3
  <2> QED BY <2>1 DEF ReaderResetInv
<1> QED BY <1>1, <1>3, <1>4, <1>7, <1>10, <1>11 DEF WirePart

\* The reset that is taken off the wire finds everything its stream sent
\* arrived.
LEMMA WireRecvReset ==
  ASSUME Types, WirePart, RecvReset, UNCHANGED senderVars
  PROVE  WirePart'
<1>1. PICK g \in ResetFrames : g = Head(wireAB) BY RecvResetCases
<1>2. /\ reader.pc = "idle" /\ wireAB # <<>> /\ wireAB' = Tail(wireAB) /\ arrived' = arrived
      /\ g.id \in Streams /\ ~IsData(g)
      /\ \/ ResetLate(g.id) \/ ResetFail(g.id)
         \/ \E live \in BOOLEAN : ResetTake(g, live) BY <1>1, RecvResetCases DEF IsData
<1>3. PICK w, v, s : w = wireAB /\ v = wireAB' /\ s = g.id OBVIOUS
<1>4. /\ WireInv' /\ g = w[1] /\ 1 \in 1 .. Len(w)
      /\ \A i \in 1 .. Len(v) : v[i] = w[i + 1] /\ i + 1 \in 1 .. Len(w) /\ 1 < i + 1
      /\ \A i \in 1 .. Len(w) : i = 1 \/ (i - 1 \in 1 .. Len(v) /\ v[i - 1] = w[i])
  BY <1>1, <1>2, <1>3, WirePops DEF WirePart
<1>5. wired' = wired BY DEF senderVars
<1>6. \A i \in 1 .. Len(v) : v[i].id # s BY <1>2, <1>3, <1>4 DEF WirePart, WireInv
<1>7. arrived[s] = wired[s]
  <2>1. ASSUME NEW i \in 1 .. Len(w), IsData(w[i]), w[i].id = s PROVE FALSE
    <3>1. i # 1 BY <1>2, <1>4, <2>1
    <3> QED BY <1>4, <1>6, <2>1, <3>1
  <2> QED BY <1>2, <1>3, <2>1 DEF WirePart, OrderInv
<1>8. OrderInv'
  <2>1. ASSUME NEW i \in 1 .. Len(v), IsData(v[i])
        PROVE  /\ arrived[v[i].id] <= v[i].off /\ v[i].off + v[i].len <= wired[v[i].id]
               /\ \/ v[i].off + v[i].len = wired[v[i].id]
                  \/ \E j \in 1 .. Len(v) :
                       i < j /\ IsData(v[j]) /\ v[j].id = v[i].id /\ v[j].off = v[i].off + v[i].len
    <3>1. v[i] = w[i + 1] /\ i + 1 \in 1 .. Len(w) BY <1>4
    <3>2. /\ arrived[v[i].id] <= v[i].off /\ v[i].off + v[i].len <= wired[v[i].id]
          /\ \/ v[i].off + v[i].len = wired[v[i].id]
             \/ \E j \in 1 .. Len(w) :
                  i + 1 < j /\ IsData(w[j]) /\ w[j].id = v[i].id
                        /\ w[j].off = v[i].off + v[i].len BY <1>3, <2>1, <3>1 DEF WirePart, OrderInv
    <3>3. ASSUME NEW j \in 1 .. Len(w), i + 1 < j, IsData(w[j]), w[j].id = v[i].id,
                 w[j].off = v[i].off + v[i].len
          PROVE  \E k \in 1 .. Len(v) : i < k /\ IsData(v[k]) /\ v[k].id = v[i].id
                                             /\ v[k].off = v[i].off + v[i].len
      <4>1. j # 1 /\ i < j - 1 BY <3>3
      <4>2. j - 1 \in 1 .. Len(v) /\ v[j - 1] = w[j] BY <1>4, <4>1
      <4> QED BY <3>3, <4>1, <4>2
    <3> QED BY <3>2, <3>3
  <2>2. ASSUME NEW i \in 1 .. Len(v), NEW j \in 1 .. Len(v), i < j, IsData(v[i]), IsData(v[j]),
               v[i].id = v[j].id
        PROVE  v[i].off + v[i].len <= v[j].off
    <3>1. i + 1 < j + 1 BY <2>2
    <3> QED BY <1>3, <1>4, <2>2, <3>1 DEF WirePart, OrderInv
  <2>3. ASSUME NEW t \in Streams
        PROVE  /\ arrived[t] <= wired[t]
               /\ \/ arrived[t] = wired[t]
                  \/ \E i \in 1 .. Len(v) : IsData(v[i]) /\ v[i].id = t /\ v[i].off = arrived[t]
    <3>1. /\ arrived[t] <= wired[t]
          /\ \/ arrived[t] = wired[t]
             \/ \E i \in 1 .. Len(w) : IsData(w[i]) /\ w[i].id = t /\ w[i].off = arrived[t]
      BY <1>3 DEF WirePart, OrderInv
    <3>2. ASSUME NEW i \in 1 .. Len(w), IsData(w[i]), w[i].id = t, w[i].off = arrived[t]
          PROVE  \E k \in 1 .. Len(v) : IsData(v[k]) /\ v[k].id = t /\ v[k].off = arrived[t]
      <4>1. i # 1 BY <1>2, <1>4, <3>2
      <4>2. i - 1 \in 1 .. Len(v) /\ v[i - 1] = w[i] BY <1>4, <4>1
      <4> QED BY <3>2, <4>2
    <3> QED BY <3>1, <3>2
  <2>4. arrived' = arrived /\ wired' = wired /\ v = wireAB' BY <1>2, <1>3, <1>5
  <2> QED BY <2>1, <2>2, <2>3, <2>4 DEF OrderInv, IsData
<1>9. ReaderResetInv'
  <2>1. Aborted(s) /\ s \notin sendMap /\ g.final = wired[s] BY <1>2, <1>3, <1>4 DEF WirePart, WireInv
  <2>2. reader'.pc \in ResetPcs => reader'.frame = g
    <3>1. CASE ResetLate(g.id) BY <1>2, <3>1 DEF ResetLate, ResetPcs
    <3>2. CASE ResetFail(g.id) BY <3>2, ReaderAt DEF ResetFail, Fail, ResetPcs, Types
    <3>3. CASE \E live \in BOOLEAN : ResetTake(g, live) BY <3>3 DEF ResetTake, Idle, ResetPcs
    <3> QED BY <1>2, <3>1, <3>2, <3>3
  <2> QED BY <1>2, <1>3, <1>5, <1>6, <1>7, <2>1, <2>2 DEF ReaderResetInv, Aborted, Opened, senderVars
<1> QED BY <1>4, <1>8, <1>9 DEF WirePart

\* The wire starts with its invariant.
LEMMA InitWirePart == Init => WirePart
<1> SUFFICES ASSUME Init PROVE WirePart OBVIOUS
<1>1. /\ wireAB = <<>> /\ reader.pc = "idle"
      /\ \A s \in Streams : arrived[s] = 0 /\ wired[s] = 0 BY DEF Init, Idle
<1> QED BY <1>1 DEF WirePart, WireInv, OrderInv, ReaderResetInv, ResetPcs

\* Every step keeps the invariant of the wire.
LEMMA NextWirePart ==
  ASSUME Types, SenderInv, WirePart, [Next]_vars
  PROVE  WirePart'
<1>1. CASE UNCHANGED vars BY <1>1, WireSame DEF vars, readerVars
<1>2. ASSUME NEW s \in Streams, SenderApp(s) PROVE WirePart' BY <1>2, WireSenderApp
<1>3. CASE SenderWriter BY <1>3, WireTransmitStream, WireTransmitReset DEF SenderWriter
<1>4. CASE SenderReader
  <2>1. UNCHANGED <<tx, queue, sendMap, wired, wireAB, arrived, reader>>
    BY <1>4 DEF SenderReader, RecvControl, readerVars
  <2>2. WireInv' BY <2>1 DEF WirePart, WireInv, IsData, Opened, Aborted
  <2>3. OrderInv' BY <2>1 DEF WirePart, OrderInv, IsData
  <2>4. ReaderResetInv' BY <2>1 DEF WirePart, ReaderResetInv, Aborted, Opened
  <2> QED BY <2>2, <2>3, <2>4 DEF WirePart
<1>5. CASE ReceiverReader
  <2>1. UNCHANGED senderVars BY <1>5 DEF ReceiverReader
  <2>2. CASE RecvStream BY <2>1, <2>2, WireRecvStream
  <2>3. CASE RecvReset BY <2>1, <2>3, WireRecvReset
  <2>4. CASE RouteStream \/ OfferStream \/ InsertStream \/ AccountReset \/ ReaderGrant \/ RetireReset
    BY <2>1, <2>4, ReaderGoesOn, WireSame
  <2> QED BY <1>5, <2>2, <2>3, <2>4 DEF ReceiverReader
<1>6. CASE Accept BY <1>6, WireSame DEF Accept, AcceptUni
<1>7. CASE ReceiverWriter BY <1>7, WireSame DEF ReceiverWriter, TransmitControl
<1>8. ASSUME NEW f \in Fronts, ReceiverApp(f) PROVE WirePart'
  <2>1. UNCHANGED <<senderVars, wireAB>> /\ UNCHANGED readerVars
    BY <1>8, Zenon DEF ReceiverApp, Read, ReadReset, AwaitClosed, Stop, DropRecv, SendPending
  <2> QED BY <2>1, WireSame DEF readerVars
<1> QED BY <1>1, <1>2, <1>3, <1>4, <1>5, <1>6, <1>7, <1>8 DEF Next

\* The invariant of the wire gives the two halves of EndIsExact.
LEMMA WireEnds ==
  ASSUME Types, WireInv
  PROVE  FinalSizeExact /\ NothingTrailsTheEnd
<1>1. DOMAIN wireAB = 1 .. Len(wireAB) BY DEF Types, WireTypes
<1> QED BY <1>1 DEF WireInv, IsData, FinalSizeExact, NothingTrailsTheEnd

----------------------------------------------------------------------------
(* The receiver: which streams it knows                                   *)

\* A RecvStream the reader delivers to, field by field.
LEMMA DeliverEffect ==
  ASSUME AppTypes, NEW f \in Fronts, NEW fr \in StreamFrames, rx' = Deliver(f, fr)
  PROVE  /\ \A g \in Fronts : g # f => rx'[g] = rx[g]
         /\ rx'[f].st = rx[f].st /\ rx'[f].closed = rx[f].closed /\ rx'[f].buf = rx[f].buf
         /\ rx'[f].fin = rx[f].fin /\ rx'[f].reset = rx[f].reset
         /\ rx[f].st = "dropped" => rx'[f].data = rx[f].data
         /\ rx[f].st # "dropped" => rx'[f].data = Append(rx[f].data, fr)
<1>0. rx \in [Fronts -> RxStates] BY DEF AppTypes
<1>1. CASE rx[f].st = "dropped" BY <1>1 DEF Deliver
<1>2. CASE rx[f].st # "dropped"
  <2>1. rx' = [rx EXCEPT ![f].data = Append(@, fr)] BY <1>2 DEF Deliver
  <2>2. PICK d : d = Append(rx[f].data, fr) OBVIOUS
  <2>3. rx' = [rx EXCEPT ![f].data = d] BY <1>0, <2>1, <2>2
  <2> QED BY <1>0, <1>2, <2>2, <2>3 DEF RxStates
<1> QED BY <1>1, <1>2

\* The state a RecvStream is in, and nothing else of it, changes.
LEMMA RxMoves ==
  ASSUME AppTypes, NEW f \in Fronts, NEW st, rx' = [rx EXCEPT ![f].st = st]
  PROVE  /\ \A g \in Fronts : g # f => rx'[g] = rx[g]
         /\ rx'[f].st = st /\ rx'[f].closed = rx[f].closed /\ rx'[f].buf = rx[f].buf
         /\ rx'[f].fin = rx[f].fin /\ rx'[f].reset = rx[f].reset /\ rx'[f].data = rx[f].data BY DEF AppTypes, RxStates

\* What a reset does to the receiving halves.
LEMMA RxResets ==
  ASSUME AppTypes, NEW f \in Fronts, rx' = [rx EXCEPT ![f].reset = TRUE]
  PROVE  /\ \A g \in Fronts : g # f => rx'[g] = rx[g]
         /\ rx'[f].st = rx[f].st /\ rx'[f].closed = rx[f].closed /\ rx'[f].buf = rx[f].buf
         /\ rx'[f].fin = rx[f].fin /\ rx'[f].data = rx[f].data BY DEF AppTypes, RxStates

\* A frame is added to the control lane, or none is: the STOP_SENDINGs in it.
LEMMA ControlGrows ==
  ASSUME control \in Seq(ControlFrames), NEW g \in ControlFrames,
         control' \in {control, Append(control, g)}, NEW i \in 1 .. Len(control')
  PROVE  (i \in 1 .. Len(control) /\ control'[i] = control[i]) \/ control'[i] = g
<1>1. CASE control' = control BY <1>1
<1>2. CASE control' = Append(control, g)
  <2>1. PICK c, n : c = control' /\ n = Len(control) OBVIOUS
  <2>2. /\ Len(c) = n + 1 /\ c[n + 1] = g
        /\ \A k \in 1 .. n : c[k] = control[k]
        /\ \A k \in 1 .. n + 1 : k \in 1 .. n \/ k = n + 1 BY <1>2, <2>1, SeqAppend
  <2> QED BY <2>1, <2>2
<1> QED BY <1>1, <1>2

\* A step that makes no RecvStream and ends none: the map may lose ids, a
\* RecvStream that exists may take or give bytes.
LEMMA MapSame ==
  ASSUME Types, MapInv, UNCHANGED <<fronts, created, holes, acceptQ>>,
         \A s \in Streams : \/ recvMap'[s] \in {0, recvMap[s]}
                            \/ /\ fronts[s] > 0 /\ recvMap'[s] = fronts[s] /\ rx[<<s, fronts[s]>>].st # "none",
         \A f \in Fronts : rx'[f].st = rx[f].st /\ rx'[f].closed = rx[f].closed,
         \A f \in Fronts : rx[f].st = "none" => /\ rx'[f].data = rx[f].data /\ rx'[f].buf.len = rx[f].buf.len
                                                /\ got'[f] = got[f],
         \A f \in Fronts : f[2] > fronts[f[1]] => strR'[f] = strR[f],
         \A i \in 1 .. Len(control') : control'[i].type = "stop" =>
           \E j \in 1 .. Len(control) : control'[i] = control[j],
         \A f \in Fronts : pending'[f] = pending[f] \/ pending'[f].type # "stop",
         \A t \in Streams : Aborted(t) => tx'[t].closed # "no" /\ ~tx'[t].fin /\ tx'[t].st = "open"
  PROVE  MapInv'
<1>0. /\ \A s \in Streams : <<s, 1>> \in Fronts
      /\ Uni \subseteq Streams
      /\ \A s \in Streams : fronts[s] \in 0 .. MaxFronts BY StreamFacts DEF Types, ReaderTypes
<1>1. FrontInv'
  <2>1. \A s \in Uni : (IsClosed(s))' <=> IsClosed(s) BY DEF IsClosed
  <2>2. \A s \in Uni : IsClosed(s) => fronts[s] > 0 \/ (tx'[s].closed # "no" /\ ~tx'[s].fin /\ tx'[s].st = "open")
    BY <1>0 DEF MapInv, FrontInv
  <2>3. \A s \in Streams : recvMap'[s] # 0 => rx'[<<s, fronts[s]>>].st # "none"
    <3> TAKE s \in Streams
    <3> HAVE recvMap'[s] # 0
    <3>1. fronts[s] # 0 /\ rx[<<s, fronts[s]>>].st # "none" BY <1>0 DEF MapInv, FrontInv
    <3>2. fronts[s] \in 1 .. MaxFronts BY <1>0, <3>1, FrontBound
    <3>3. <<s, fronts[s]>> \in Fronts BY <3>2, FrontOf
    <3> QED BY <3>1, <3>3
  <2>4. \A s \in Streams : recvMap'[s] \in {0, fronts[s]} BY DEF MapInv, FrontInv
  <2> QED BY <2>1, <2>2, <2>3, <2>4 DEF MapInv, FrontInv, Aborted, Opened, IsClosed
<1>2. AcceptInv'
  <2>1. \A i \in 1 .. Len(acceptQ) : acceptQ[i] \in Fronts BY DEF Types, ReaderTypes
  <2> QED BY <2>1 DEF MapInv, AcceptInv
<1>3. StopInv'
  <2>1. EndedStaysEnded' BY <1>0 DEF MapInv, StopInv, EndedStaysEnded
  <2>2. ASSUME NEW i \in 1 .. Len(control'), control'[i].type = "stop"
        PROVE  fronts[control'[i].id] > 0 /\ rx'[<<control'[i].id, 1>>].closed = "stop"
    <3>1. PICK j \in 1 .. Len(control) : control'[i] = control[j] BY <2>2
    <3>2. control[j] \in ControlFrames BY DEF Types, AppTypes
    <3>3. control[j].id \in Streams BY <2>2, <3>1, <3>2, FrameFields
    <3> QED BY <1>0, <2>2, <3>1, <3>3 DEF MapInv, StopInv, WasStopped
  <2>3. \A f \in Fronts : pending'[f].type # "stop" BY DEF MapInv, StopInv
  <2> QED BY <2>1, <2>2, <2>3 DEF StopInv, WasStopped
<1>4. FreshInv'
  <2>1. \A f \in Fronts : rx'[f].st = "none" =>
          rx'[f].data = <<>> /\ rx'[f].buf.len = 0 /\ got'[f] = 0 /\ rx'[f].closed = "no" BY DEF MapInv, FreshInv, Fresh
  <2>2. \A f \in Fronts : f[2] > fronts[f[1]] => strR'[f] = NewCredit(StreamWindow) BY DEF MapInv, FreshInv
  <2> QED BY <2>1, <2>2 DEF FreshInv, Fresh
<1> QED BY <1>1, <1>2, <1>3, <1>4 DEF MapInv

\* Record closes the index and leaves every other where it was.
LEMMA RecordFacts ==
  ASSUME Types, NEW s \in Uni, Record(s), \A h \in holes : h <= created
  PROVE  /\ IsClosed(s)'
         /\ \A t \in Uni : t # s => ((IsClosed(t))' <=> IsClosed(t))
         /\ \A h \in holes' : h <= created'
         /\ \A t \in Uni : IsClosed(t) => (IsClosed(t))'
<1>0. /\ created \in Int /\ \A t \in Uni : t \in Int
      /\ holes \subseteq Uni BY SizesAreNatural DEF Types, ReaderTypes, Uni
<1>1. CASE s <= created
  <2>1. holes' = holes \ {s} /\ created' = created BY <1>1 DEF Record
  <2> QED BY <1>0, <1>1, <2>1 DEF IsClosed
<1>2. CASE ~(s <= created)
  <2>1. holes' = holes \cup (created + 1 .. s - 1) /\ created' = s BY <1>2 DEF Record
  <2>2. (IsClosed(s))' BY <1>0, <1>2, <2>1 DEF IsClosed
  <2>3. ASSUME NEW t \in Uni, t # s PROVE (IsClosed(t))' <=> IsClosed(t) BY <1>0, <1>2, <2>1, <2>3 DEF IsClosed
  <2>4. \A h \in holes' : h <= created' BY <1>0, <1>2, <2>1
  <2> QED BY <2>2, <2>3, <2>4
<1> QED BY <1>1, <1>2

\* What a step of the application on one RecvStream may change.
AppStep(f) ==
  /\ AppFrame /\ UNCHANGED senderVars
  /\ \A g \in Fronts : g # f => /\ rx'[g] = rx[g] /\ got'[g] = got[g] /\ strR'[g] = strR[g] /\ pending'[g] = pending[g]
  /\ rx[f].st = "held" \/ UNCHANGED <<rx, got, strR, hole, connR, limR>>
  /\ rx[f].st = "held" => rx'[f].st \in {"held", "dropped"}
  /\ rx[f].closed # "no" => rx'[f].closed \in {rx[f].closed, "stop"}
  /\ rx'[f].closed = "stop" => rx[f].closed = "stop" \/ "stop" \in Calls
  /\ Fresh(f) => rx'[f].data = <<>> /\ rx'[f].buf.len = 0 /\ got'[f] = 0
  /\ pending'[f].type # "stop"
  /\ \E g \in ControlFrames : /\ control' \in {control, Append(control, g)}
                              /\ g.type = "stop" => g.id = f[1] /\ rx'[f].closed = "stop" /\ rx[f].st = "held"

\* Every step of the receiving application has one of the effects the map's
\* invariant needs to know.
LEMMA AppSteps ==
  ASSUME Types, StopInv, NEW f \in Fronts, ReceiverApp(f)
  PROVE  AppStep(f)
<1>0. AppFrame /\ UNCHANGED senderVars BY ReceiverAppFrame
<1>1. /\ rx[f] \in RxStates /\ f[1] \in Streams /\ pending[f].type # "stop"
      /\ pending \in [Fronts -> ControlFrames \cup {NoFrame}]
      /\ strR \in [Fronts -> CreditState] /\ got \in [Fronts -> Nat]
  BY StreamFacts DEF Types, AppTypes, CreditTypes, StopInv
<1>2. /\ NoFrame.type # "stop" /\ MaxData(0) \in ControlFrames /\ MaxData(0).type # "stop"
      /\ \A m : MaxData(m).type # "stop" /\ MaxStreams(m).type # "stop"
      /\ \A s, m : MaxStreamData(s, m).type # "stop" BY FrameTypes DEF NoFrame, MaxData, MaxStreams, MaxStreamData
<1>3. ASSUME NEW n \in 1 .. Chunk, Read(f, n) PROVE AppStep(f)
  <2>1. /\ rx[f].st = "held" /\ (rx[f].buf.len = 0 => rx[f].data # <<>>)
        /\ got' = [got EXCEPT ![f] = @ + Taken(f, n)] /\ Taken(f, n) \in Nat
        /\ \/ ReportConsumed(f, Taken(f, n))
           \/ UNCHANGED <<strR, control, connR, pending>> BY <1>3, ReadCases
  <2>2. /\ \A g \in Fronts : g # f => rx'[g] = rx[g]
        /\ rx'[f].st = rx[f].st /\ rx'[f].closed = rx[f].closed BY <1>3, ReadEffect
  <2>3. ~Fresh(f) BY <2>1 DEF Fresh
  <2>4. \A g \in Fronts : g # f => got'[g] = got[g] BY <1>1, <2>1
  <2>5. /\ \A g \in Fronts : g # f => strR'[g] = strR[g] /\ pending'[g] = pending[g]
        /\ pending'[f].type # "stop"
        /\ \E g \in ControlFrames : control' \in {control, Append(control, g)} /\ g.type # "stop"
    <3>1. CASE ReportConsumed(f, Taken(f, n))
      <4>1. /\ strR' = [strR EXCEPT ![f] = Consume(@, Taken(f, n))]
            /\ control' \in {control, Append(control, MaxStreamData(f[1], strR'[f].max))}
            /\ MaxStreamData(f[1], strR'[f].max) \in ControlFrames
            /\ \E g \in {NoFrame, MaxData(connR'.max)} : pending' = [pending EXCEPT ![f] = g] BY <2>1, <3>1, ReportTypes
      <4>2. PICK g \in {NoFrame, MaxData(connR'.max)} : pending' = [pending EXCEPT ![f] = g] BY <4>1
      <4>3. g.type # "stop" BY <1>2, <4>2
      <4> QED BY <1>1, <1>2, <4>1, <4>2, <4>3
    <3>2. CASE UNCHANGED <<strR, control, connR, pending>> BY <1>1, <1>2, <3>2
    <3> QED BY <2>1, <3>1, <3>2
  <2> QED BY <1>0, <2>1, <2>2, <2>3, <2>4, <2>5 DEF AppStep
<1>4. CASE ReadReset(f)
  <2>1. /\ rx[f].st = "held" /\ rx[f].closed = "no"
        /\ UNCHANGED <<connR, limR, strR, pending, got, hole, control>> BY <1>4 DEF ReadReset, Held, creditVars
  <2>2. /\ \A g \in Fronts : g # f => rx'[g] = rx[g]
        /\ rx'[f] = [rx[f] EXCEPT !.closed = "reset", !.reset = FALSE] BY <1>4, AppEffects, Zenon
  <2>3. rx'[f].st = rx[f].st /\ rx'[f].closed = "reset" /\ rx'[f].data = rx[f].data /\ rx'[f].buf = rx[f].buf
    BY <1>1, <2>2 DEF RxStates
  <2> QED BY <1>0, <1>1, <1>2, <2>1, <2>2, <2>3 DEF AppStep, Fresh
<1>5. CASE AwaitClosed(f)
  <2>1. /\ rx[f].st = "held" /\ rx[f].data # <<>>
        /\ UNCHANGED <<connR, limR, strR, pending, got, hole, control>> BY <1>5 DEF AwaitClosed, Held, creditVars
  <2>2. /\ \A g \in Fronts : g # f => rx'[g] = rx[g]
        /\ rx'[f] = [rx[f] EXCEPT !.buf = [off |-> Head(rx[f].data).off, len |-> Head(rx[f].data).len],
                           !.data = Tail(rx[f].data), !.fin = Head(rx[f].data).fin] BY <1>5, AppEffects, Zenon
  <2>3. rx'[f].st = rx[f].st /\ rx'[f].closed = rx[f].closed BY <1>1, <2>2 DEF RxStates
  <2> QED BY <1>0, <1>1, <1>2, <2>1, <2>2, <2>3 DEF AppStep, Fresh
<1>6. CASE Stop(f)
  <2>1. /\ rx[f].st = "held" /\ "stop" \in Calls
        /\ UNCHANGED <<connR, limR, strR, pending, got, hole>> /\ control' = Append(control, StopFrame(f[1]))
    BY <1>6 DEF Stop, Held, creditVars
  <2>2. /\ \A g \in Fronts : g # f => rx'[g] = rx[g]
        /\ rx'[f] = [rx[f] EXCEPT !.closed = "stop"] BY <1>6, AppEffects, Zenon
  <2>3. rx'[f].st = rx[f].st /\ rx'[f].closed = "stop" /\ rx'[f].data = rx[f].data /\ rx'[f].buf = rx[f].buf
    BY <1>1, <2>2 DEF RxStates
  <2>4. StopFrame(f[1]) \in ControlFrames /\ StopFrame(f[1]).id = f[1] BY <1>1, FrameTypes
  <2> QED BY <1>0, <1>1, <2>1, <2>2, <2>3, <2>4 DEF AppStep, Fresh
<1>7. CASE DropRecv(f)
  <2>. DEFINE ended == rx[f].fin \/ rx[f].closed # "no"
  <2>1. /\ rx[f].st = "held" /\ (ended \/ "stop" \in Calls)
        /\ control' = IF ended THEN control ELSE Append(control, StopFrame(f[1]))
        /\ UNCHANGED <<connR, strR, got, hole>>
        /\ \/ pending' = pending
           \/ pending' = [pending EXCEPT ![f] = NoFrame]
           \/ pending' = [pending EXCEPT ![f] = MaxStreams(limR'.max)] BY <1>7 DEF DropRecv, Held
  <2>2. /\ \A g \in Fronts : g # f => rx'[g] = rx[g]
        /\ rx'[f] = [rx[f] EXCEPT !.st = "dropped", !.data = <<>>, !.buf = [off |-> 0, len |-> 0],
                           !.closed = IF ended THEN rx[f].closed ELSE "stop"] BY <1>7, AppEffects, Zenon
  <2> HIDE DEF ended
  <2>3. /\ rx'[f].st = "dropped" /\ rx'[f].closed = (IF ended THEN rx[f].closed ELSE "stop")
        /\ rx'[f].data = <<>> /\ rx'[f].buf.len = 0 BY <1>1, <2>2 DEF RxStates
  <2>4. StopFrame(f[1]) \in ControlFrames /\ StopFrame(f[1]).id = f[1] BY <1>1, FrameTypes
  <2>5. pending'[f].type # "stop" /\ \A g \in Fronts : g # f => pending'[g] = pending[g] BY <1>1, <1>2, <2>1
  <2>6. \E g \in ControlFrames :
           /\ control' \in {control, Append(control, g)}
           /\ g.type = "stop" => g.id = f[1] /\ rx'[f].closed = "stop" /\ rx[f].st = "held"
    <3>1. CASE ended BY <1>2, <2>1, <3>1
    <3>2. CASE ~ended BY <2>1, <2>3, <2>4, <3>2
    <3> QED BY <3>1, <3>2
  <2>7. /\ rx[f].closed # "no" => rx'[f].closed = rx[f].closed
        /\ rx'[f].closed = "stop" => rx[f].closed = "stop" \/ "stop" \in Calls BY <2>1, <2>3 DEF ended
  <2>8. \A g \in Fronts : g # f => /\ rx'[g] = rx[g] /\ got'[g] = got[g] /\ strR'[g] = strR[g]
                                  /\ pending'[g] = pending[g] BY <2>1, <2>2, <2>5
  <2>9. Fresh(f) => rx'[f].data = <<>> /\ rx'[f].buf.len = 0 /\ got'[f] = 0 BY <2>1, <2>3 DEF Fresh
  <2>10. rx[f].st = "held" /\ rx'[f].st \in {"held", "dropped"} /\ pending'[f].type # "stop" BY <2>1, <2>3, <2>5
  <2> QED BY <1>0, <2>6, <2>7, <2>8, <2>9, <2>10 DEF AppStep
<1>8. CASE SendPending(f)
  <2>1. /\ pending[f] # NoFrame /\ control' = Append(control, pending[f]) /\ pending' = [pending EXCEPT ![f] = NoFrame]
        /\ UNCHANGED <<connR, limR, strR, rx, got, hole>> BY <1>8 DEF SendPending, creditVars
  <2>2. pending[f] \in ControlFrames BY <1>1, <2>1
  <2>3. pending'[f].type # "stop" /\ \A g \in Fronts : g # f => pending'[g] = pending[g] BY <1>1, <1>2, <2>1
  <2> QED BY <1>0, <1>1, <2>1, <2>2, <2>3 DEF AppStep, Fresh
<1> QED BY <1>3, <1>4, <1>5, <1>6, <1>7, <1>8 DEF ReceiverApp

\* A step of the receiving application keeps the map's invariant.
LEMMA MapApp ==
  ASSUME Types, MapInv, NEW f \in Fronts, AppStep(f)
  PROVE  MapInv' /\ (ReaderMapInv => ReaderMapInv')
<1>0. /\ \A s \in Streams : <<s, 1>> \in Fronts
      /\ Uni \subseteq Streams /\ f = <<f[1], f[2]>> /\ f[1] \in Streams /\ f[2] \in Nat /\ f[2] >= 1
      /\ \A s \in Streams : fronts[s] \in 0 .. MaxFronts /\ fronts[s] \in Nat
      /\ \A s \in Streams : s \in Own <=> s \notin Uni BY StreamFacts DEF Types, ReaderTypes
<1>1. /\ UNCHANGED <<recvMap, created, holes, acceptQ, fronts, reader, tx>>
      /\ \A g \in Fronts : g # f => /\ rx'[g] = rx[g] /\ got'[g] = got[g] /\ strR'[g] = strR[g]
                                    /\ pending'[g] = pending[g]
      /\ rx[f].st = "held" \/ UNCHANGED <<rx, got, strR>>
      /\ rx[f].st = "held" => rx'[f].st \in {"held", "dropped"}
      /\ rx[f].closed # "no" => rx'[f].closed \in {rx[f].closed, "stop"}
      /\ Fresh(f) => rx'[f].data = <<>> /\ rx'[f].buf.len = 0 /\ got'[f] = 0
      /\ pending'[f].type # "stop" BY DEF AppStep, AppFrame, senderVars
<1>2. /\ \A g \in Fronts : rx'[g].st = "none" <=> rx[g].st = "none"
      /\ \A g \in Fronts : rx[g].st = "queued" => rx'[g].st = "queued"
      /\ \A g \in Fronts : rx[g].closed = "stop" => rx'[g].closed = "stop"
      /\ \A g \in Fronts : Fresh(g) => rx'[g].data = <<>> /\ rx'[g].buf.len = 0 /\ got'[g] = 0
      /\ \A g \in Fronts : rx[g].st = "none" => rx'[g] = rx[g] BY <1>1 DEF Fresh
<1>3. FrontInv'
  <2>1. \A s \in Streams : recvMap[s] # 0 => rx'[<<s, fronts[s]>>].st # "none"
    <3> TAKE s \in Streams
    <3> HAVE recvMap[s] # 0
    <3>1. fronts[s] \in 1 .. MaxFronts /\ rx[<<s, fronts[s]>>].st # "none" BY <1>0, FrontBound DEF MapInv, FrontInv
    <3> QED BY <1>2, <3>1, FrontOf
  <2>2. \A g \in Fronts : rx'[g].st # "none" => g[2] <= fronts[g[1]] BY <1>2 DEF MapInv, FrontInv
  <2> QED BY <1>1, <2>1, <2>2 DEF MapInv, FrontInv, Aborted, Opened, IsClosed
<1>4. AcceptInv'
  <2>1. \A i \in 1 .. Len(acceptQ) : acceptQ[i] \in Fronts BY DEF Types, ReaderTypes
  <2> QED BY <1>1, <1>2, <2>1 DEF MapInv, AcceptInv
<1>5. StopInv'
  <2>1. EndedStaysEnded' BY <1>0, <1>1, <1>2 DEF MapInv, StopInv, EndedStaysEnded
  <2>2. PICK g \in ControlFrames :
           /\ control' \in {control, Append(control, g)}
           /\ g.type = "stop" => g.id = f[1] /\ rx'[f].closed = "stop" /\ rx[f].st = "held" BY DEF AppStep
  <2>3. ASSUME NEW i \in 1 .. Len(control'), control'[i].type = "stop"
        PROVE  fronts[control'[i].id] > 0 /\ rx'[<<control'[i].id, 1>>].closed = "stop"
    <3>1. control \in Seq(ControlFrames) BY DEF Types, AppTypes
    <3>2. (i \in 1 .. Len(control) /\ control'[i] = control[i]) \/ control'[i] = g BY <2>2, <3>1, ControlGrows
    <3>3. CASE i \in 1 .. Len(control) /\ control'[i] = control[i]
      <4>1. control[i].id \in Streams BY <2>3, <3>1, <3>3, FrameFields
      <4> QED BY <1>0, <1>2, <2>3, <3>3, <4>1 DEF MapInv, StopInv, WasStopped
    <3>4. CASE control'[i] = g
      <4>1. g.id = f[1] /\ rx'[f].closed = "stop" /\ f[2] <= fronts[f[1]] BY <2>2, <2>3, <3>4 DEF MapInv, FrontInv
      <4>2. CASE f[2] = 1 BY <1>0, <3>4, <4>1, <4>2
      <4>3. CASE f[2] # 1
        <5>1. fronts[f[1]] > 1 /\ fronts[f[1]] > 0 /\ fronts[f[1]] # 1 BY <1>0, <4>1, <4>3
        <5>2. f[1] \in Uni BY <1>0, <5>1 DEF MapInv, FrontInv
        <5>3. rx[<<f[1], 1>>].closed = "stop" BY <5>1, <5>2 DEF MapInv, StopInv, EndedStaysEnded
        <5> QED BY <1>0, <1>2, <3>4, <4>1, <5>1, <5>3
      <4> QED BY <4>2, <4>3
    <3> QED BY <3>2, <3>3, <3>4
  <2>4. \A h \in Fronts : pending'[h].type # "stop" BY <1>1 DEF MapInv, StopInv
  <2> QED BY <1>1, <2>1, <2>3, <2>4 DEF StopInv, WasStopped
<1>6. FreshInv'
  <2>1. \A g \in Fronts : rx'[g].st = "none" =>
          rx'[g].data = <<>> /\ rx'[g].buf.len = 0 /\ got'[g] = 0 /\ rx'[g].closed = "no"
    BY <1>2 DEF MapInv, FreshInv, Fresh
  <2>2. \A g \in Fronts : g[2] > fronts[g[1]] => strR'[g] = NewCredit(StreamWindow)
    <3> TAKE g \in Fronts
    <3> HAVE g[2] > fronts[g[1]]
    <3>1. rx[g].st = "none"
      <4>1. g[2] \in Nat /\ fronts[g[1]] \in Nat BY <1>0, StreamFacts
      <4> QED BY <4>1 DEF MapInv, FrontInv
    <3> QED BY <1>1, <3>1 DEF MapInv, FreshInv
  <2> QED BY <1>1, <2>1, <2>2 DEF FreshInv, Fresh
<1>7. ASSUME ReaderMapInv PROVE ReaderMapInv'
  <2>1. PICK s : s = reader.frame.id OBVIOUS
  <2>2. reader.pc # "idle" => s \in Streams BY <2>1, ReaderFields DEF Types, StreamPcs, ResetPcs
  <2>3. reader.pc # "idle" /\ fronts[s] > 0 => <<s, fronts[s]>> \in Fronts BY <1>0, <2>2, FrontOf, FrontBound
  <2>4. reader.pc # "idle" => (WasStopped(s) => fronts[s] > 0 /\ rx'[<<s, 1>>].closed = "stop")
    BY <1>0, <1>2, <2>2 DEF WasStopped
  <2>5. reader.pc = "accept" => rx'[<<s, fronts[s]>>].st = "none" BY <1>2, <1>7, <2>1, <2>3 DEF ReaderMapInv
  <2>6. reader.pc = "insert" => /\ rx'[<<s, fronts[s]>>].st # "none" /\ rx'[<<s, fronts[s]>>].data = <<>>
                                /\ rx'[<<s, fronts[s]>>].buf.len = 0 /\ got'[<<s, fronts[s]>>] = 0
    BY <1>2, <1>7, <2>1, <2>3 DEF ReaderMapInv
  <2>7. /\ reader.pc \in StreamPcs => tx[s].st = "open"
        /\ reader.pc = "stream" /\ s \in Uni /\ recvMap[s] = 0 => ~IsClosed(s) \/ WasStopped(s)
        /\ reader.pc \in {"accept", "insert"} => s \in Uni /\ fronts[s] > 0 /\ recvMap[s] = 0
        /\ reader.pc \in {"reset", "grant", "retire"} /\ reader.live =>
             fronts[s] > 0 /\ (recvMap[s] # 0 \/ WasStopped(s))
        /\ reader.pc \in {"reset", "grant", "retire"} /\ ~reader.live => s \in Uni /\ ~IsClosed(s)
    BY <1>7, <2>1 DEF ReaderMapInv, Opened
  <2> QED BY <1>1, <2>1, <2>4, <2>5, <2>6, <2>7 DEF ReaderMapInv, Opened, WasStopped, IsClosed, Fresh
<1> QED BY <1>3, <1>4, <1>5, <1>6, <1>7 DEF MapInv

\* A stream that is open stays open, one that was aborted stays aborted.
LEMMA TxStable ==
  ASSUME Types, SenderInv, [Next]_vars, NEW t \in Streams
  PROVE  /\ Opened(t) => tx'[t].st = "open"
         /\ Aborted(t) => tx'[t].closed # "no" /\ ~tx'[t].fin /\ tx'[t].st = "open"
<1>1. CASE tx' = tx BY <1>1 DEF Opened, Aborted
<1>2. ASSUME NEW s \in Streams, SenderApp(s)
      PROVE  /\ Opened(t) => tx'[t].st = "open"
             /\ Aborted(t) => tx'[t].closed # "no" /\ ~tx'[t].fin /\ tx'[t].st = "open"
  <2>1. CASE Opened(t) BY <1>2, <2>1, SenderAppKeeps DEF Opened, Aborted
  <2>2. CASE ~Opened(t) BY <2>2 DEF Aborted
  <2> QED BY <2>1, <2>2
<1>3. SenderWriter \/ SenderReader => tx' = tx
  BY DEF SenderWriter, TransmitReset, TransmitStream, SenderReader, RecvControl
<1>4. ReceiverReader \/ Accept \/ ReceiverWriter \/ UNCHANGED vars => tx' = tx
  BY DEF ReceiverReader, Accept, ReceiverWriter, vars, senderVars
<1>5. \A f \in Fronts : ReceiverApp(f) => tx' = tx BY DEF ReceiverApp, senderVars
<1> QED BY <1>1, <1>2, <1>3, <1>4, <1>5 DEF Next

\* Steps of others while the reader stays where it is.
LEMMA ReaderMapKeeps ==
  ASSUME Types, ReaderMapInv, UNCHANGED <<reader, fronts, created, holes>>,
         \A t \in Streams : Opened(t) => tx'[t].st = "open",
         \A s \in Streams : recvMap'[s] = recvMap[s] \/ (recvMap'[s] = 0 /\ WasStopped(s)),
         \A f \in Fronts : /\ rx'[f].st = "none" <=> rx[f].st = "none"
                           /\ rx'[f].closed = rx[f].closed /\ rx'[f].data = rx[f].data
                           /\ rx'[f].buf = rx[f].buf /\ got'[f] = got[f]
  PROVE  ReaderMapInv'
<1>1. PICK s : s = reader.frame.id OBVIOUS
<1>2. reader.pc # "idle" => s \in Streams BY <1>1, ReaderFields DEF Types, StreamPcs, ResetPcs
<1>3. reader.pc # "idle" /\ fronts[s] > 0 => <<s, fronts[s]>> \in Fronts
  <2>1. reader.pc # "idle" => fronts[s] \in 0 .. MaxFronts BY <1>2 DEF Types, ReaderTypes
  <2> QED BY <1>2, <2>1, FrontOf, FrontBound
<1>4. reader.pc # "idle" => (WasStopped(s) => fronts[s] > 0 /\ rx'[<<s, 1>>].closed = "stop")
  BY <1>2, StreamFacts DEF WasStopped
<1>5. reader.pc = "accept" => rx'[<<s, fronts[s]>>].st = "none" BY <1>1, <1>3 DEF ReaderMapInv
<1>6. reader.pc = "insert" => /\ rx'[<<s, fronts[s]>>].st # "none" /\ rx'[<<s, fronts[s]>>].data = <<>>
                              /\ rx'[<<s, fronts[s]>>].buf.len = 0 /\ got'[<<s, fronts[s]>>] = 0
  BY <1>1, <1>3 DEF ReaderMapInv, Fresh
<1>7. /\ reader.pc \in StreamPcs => Opened(s) /\ s \in Streams
      /\ reader.pc = "stream" /\ s \in Uni /\ recvMap[s] = 0 => ~IsClosed(s) \/ WasStopped(s)
      /\ reader.pc \in {"accept", "insert"} => s \in Uni /\ fronts[s] > 0 /\ recvMap[s] = 0
      /\ reader.pc \in {"reset", "grant", "retire"} /\ reader.live =>
           fronts[s] > 0 /\ (recvMap[s] # 0 \/ WasStopped(s))
      /\ reader.pc \in {"reset", "grant", "retire"} /\ ~reader.live => s \in Uni /\ ~IsClosed(s)
  BY <1>1, <1>2 DEF ReaderMapInv, StreamPcs
<1>8. reader.pc # "idle" => recvMap'[s] = recvMap[s] \/ (recvMap'[s] = 0 /\ WasStopped(s)) BY <1>2
<1>9. reader.pc \in {"accept", "insert"} => recvMap'[s] = 0 BY <1>7, <1>8
<1> QED BY <1>1, <1>4, <1>5, <1>6, <1>7, <1>8, <1>9 DEF ReaderMapInv, Opened, WasStopped, IsClosed, Fresh

\* A reader that holds no stream owes the map nothing.
LEMMA ReaderIdle ==
  ASSUME reader'.pc \in {"idle", "limit"}
  PROVE  ReaderMapInv' BY DEF ReaderMapInv, StreamPcs

\* A step of the sending end keeps the map's invariant.
LEMMA MapSender ==
  ASSUME Types, SenderInv, MapInv, ReaderMapInv, [Next]_vars,
         UNCHANGED <<recvMap, created, holes, reader, acceptQ, fronts, strR, rx, pending, got, control>>
  PROVE  MapInv' /\ ReaderMapInv'
<1>1. MapInv' BY TxStable, MapSame
<1>2. ReaderMapInv' BY TxStable, ReaderMapKeeps
<1> QED BY <1>1, <1>2

\* Accepting a stream keeps the map's invariant.
LEMMA MapAccept ==
  ASSUME Types, MapInv, ReaderMapInv, Accept
  PROVE  MapInv' /\ ReaderMapInv'
<1>1. /\ acceptQ # <<>> /\ rx' = [rx EXCEPT ![Head(acceptQ)].st = "held"] /\ acceptQ' = Tail(acceptQ)
      /\ UNCHANGED <<recvMap, created, holes, reader, fronts, strR, pending, got, control, tx>>
  BY DEF Accept, AcceptUni, creditVars, senderVars
<1>2. acceptQ \in Seq(Fronts) BY DEF Types, ReaderTypes
<1>3. PICK q, f : q = Tail(acceptQ) /\ f = Head(acceptQ) OBVIOUS
<1>4. /\ f \in Fronts /\ f = acceptQ[1] /\ 1 \in 1 .. Len(acceptQ) /\ Len(acceptQ) \in Nat /\ Len(q) = Len(acceptQ) - 1
      /\ \A i \in 1 .. Len(acceptQ) - 1 : q[i] = acceptQ[i + 1] /\ i + 1 \in 1 .. Len(acceptQ) /\ acceptQ[i + 1] \in Fronts
  BY <1>1, <1>2, <1>3, SeqTail
<1>5. /\ \A g \in Fronts : g # f => rx'[g] = rx[g]
      /\ rx'[f].st = "held" /\ rx'[f].closed = rx[f].closed /\ rx'[f].buf = rx[f].buf
      /\ rx'[f].data = rx[f].data BY <1>1, <1>3, <1>4, RxMoves DEF Types
<1>6. rx[f].st = "queued" BY <1>4 DEF MapInv, AcceptInv
<1>7. \A g \in Fronts : /\ rx'[g].st = "none" <=> rx[g].st = "none"
                        /\ rx'[g].closed = rx[g].closed /\ rx'[g].data = rx[g].data
                        /\ rx'[g].buf = rx[g].buf /\ got'[g] = got[g] BY <1>1, <1>5, <1>6
<1>8. ReaderMapInv'
  <2>1. \A t \in Streams : Opened(t) => tx'[t].st = "open" BY <1>1 DEF Opened
  <2> QED BY <1>1, <1>7, <2>1, ReaderMapKeeps
<1>9. FrontInv'
  <2>1. \A s \in Streams : recvMap[s] # 0 => rx'[<<s, fronts[s]>>].st # "none"
    <3> TAKE s \in Streams
    <3> HAVE recvMap[s] # 0
    <3>1. fronts[s] \in 1 .. MaxFronts /\ rx[<<s, fronts[s]>>].st # "none"
      BY FrontBound DEF MapInv, FrontInv, Types, ReaderTypes
    <3> QED BY <1>7, <3>1, FrontOf
  <2>2. \A g \in Fronts : rx'[g].st # "none" => g[2] <= fronts[g[1]] BY <1>7 DEF MapInv, FrontInv
  <2> QED BY <1>1, <2>1, <2>2 DEF MapInv, FrontInv, Aborted, Opened, IsClosed
<1>10. AcceptInv'
  <2>1. \A i \in 1 .. Len(q) : q[i] = acceptQ[i + 1] /\ i + 1 \in 1 .. Len(acceptQ) /\ i + 1 # 1 /\ q[i] \in Fronts
    BY <1>4
  <2>2. \A i \in 1 .. Len(q) : q[i] # f /\ rx[q[i]].st = "queued" BY <1>4, <2>1 DEF MapInv, AcceptInv
  <2>3. \A i \in 1 .. Len(q) : rx'[q[i]].st = "queued" BY <1>5, <2>1, <2>2
  <2>4. ASSUME NEW i \in 1 .. Len(q), NEW j \in 1 .. Len(q), i # j PROVE q[i] # q[j]
    <3>1. i + 1 # j + 1 BY <2>4
    <3> QED BY <2>1, <3>1 DEF MapInv, AcceptInv
  <2> QED BY <1>1, <1>3, <2>3, <2>4 DEF AcceptInv
<1>11. StopInv'
  <2>1. EndedStaysEnded' BY <1>1, <1>7, StreamFacts DEF MapInv, StopInv, EndedStaysEnded
  <2>2. \A i \in 1 .. Len(control) : control[i].type = "stop" =>
           fronts[control[i].id] > 0 /\ rx'[<<control[i].id, 1>>].closed = "stop"
    <3> TAKE i \in 1 .. Len(control)
    <3> HAVE control[i].type = "stop"
    <3>1. control[i] \in ControlFrames BY DEF Types, AppTypes
    <3>2. control[i].id \in Streams BY <3>1, FrameFields
    <3>3. <<control[i].id, 1>> \in Fronts BY <3>2, StreamFacts
    <3> QED BY <1>7, <3>3 DEF MapInv, StopInv, WasStopped
  <2> QED BY <1>1, <2>1, <2>2 DEF MapInv, StopInv, WasStopped
<1>12. FreshInv' BY <1>1, <1>7 DEF MapInv, FreshInv, Fresh
<1> QED BY <1>8, <1>9, <1>10, <1>11, <1>12 DEF MapInv

\* Sending a control frame keeps the map's invariant.
LEMMA MapTransmitControl ==
  ASSUME Types, MapInv, ReaderMapInv, ReceiverWriter
  PROVE  MapInv' /\ ReaderMapInv'
<1>1. /\ control # <<>> /\ control' = Tail(control)
      /\ recvMap' = IF Head(control).type = "stop" THEN [recvMap EXCEPT ![Head(control).id] = 0] ELSE recvMap
      /\ UNCHANGED <<created, holes, reader, acceptQ, fronts, strR, rx, pending, got, tx>>
  BY DEF ReceiverWriter, TransmitControl, creditVars, appVars, senderVars
<1>2. PICK c, g : c = Tail(control) /\ g = Head(control) OBVIOUS
<1>3. /\ g = control[1] /\ g \in ControlFrames /\ 1 \in 1 .. Len(control) /\ Len(control) \in Nat
      /\ Len(c) = Len(control) - 1
      /\ \A i \in 1 .. Len(control) - 1 : c[i] = control[i + 1] /\ i + 1 \in 1 .. Len(control)
  BY <1>1, <1>2, SeqTail DEF Types, AppTypes
<1>4. g.type = "stop" => g.id \in Streams /\ WasStopped(g.id) BY <1>3, FrameFields DEF MapInv, StopInv
<1>5. \A s \in Streams : recvMap'[s] = recvMap[s] \/ (recvMap'[s] = 0 /\ WasStopped(s))
  BY <1>1, <1>2, <1>4 DEF Types, ReaderTypes
<1>6. \A i \in 1 .. Len(c) : \E j \in 1 .. Len(control) : c[i] = control[j] BY <1>3
<1>7. /\ \A t \in Streams : Opened(t) => tx'[t].st = "open"
      /\ \A t \in Streams : Aborted(t) => tx'[t].closed # "no" /\ ~tx'[t].fin /\ tx'[t].st = "open"
  BY <1>1 DEF Opened, Aborted
<1>8. MapInv' BY <1>1, <1>2, <1>5, <1>6, <1>7, MapSame
<1>9. ReaderMapInv' BY <1>1, <1>5, <1>7, ReaderMapKeeps
<1> QED BY <1>8, <1>9

----------------------------------------------------------------------------
(* The receiver: the steps of its reader                                  *)

\* A step of the reader that leaves the map and the RecvStreams alone.
LEMMA MapQuiet ==
  ASSUME Types, MapInv,
         UNCHANGED <<fronts, created, holes, acceptQ, tx, pending, got, rx, strR, control, recvMap>>
  PROVE  MapInv'
<1>1. \A t \in Streams : Aborted(t) => tx'[t].closed # "no" /\ ~tx'[t].fin /\ tx'[t].st = "open" BY DEF Aborted, Opened
<1> QED BY <1>1, MapSame

\* Ending the session with an error keeps the map's invariant.
LEMMA FailQuiet ==
  ASSUME Types, MapInv, NEW kind, Fail(kind), UNCHANGED <<tx, pending, got>>
  PROVE  MapInv' /\ ReaderMapInv'
<1>1. /\ UNCHANGED <<fronts, created, holes, acceptQ, rx, strR, control, recvMap>> /\ reader' = Idle
  BY DEF Fail, creditVars
<1>2. reader'.pc = "idle" BY <1>1 DEF Idle
<1> QED BY <1>1, <1>2, MapQuiet, ReaderIdle

\* Taking a STREAM frame off the wire keeps the map's invariant.
LEMMA MapRecvStream ==
  ASSUME Types, WirePart, MapInv, ReaderMapInv, RecvStream, UNCHANGED <<tx, pending, got>>
  PROVE  MapInv' /\ ReaderMapInv'
<1>1. PICK g \in StreamFrames : g = Head(wireAB) BY RecvStreamCases
<1>2. /\ reader.pc = "idle" /\ wireAB # <<>> /\ g.id \in Streams
      /\ TakeLate(g) \/ TakeFail(g) \/ Take(g) BY <1>1, RecvStreamCases
<1>3. CASE TakeLate(g)
  <2>1. UNCHANGED <<fronts, created, holes, acceptQ, rx, strR, control, recvMap, reader>> BY <1>3 DEF TakeLate
  <2> QED BY <1>2, <2>1, MapQuiet, ReaderIdle
<1>4. CASE TakeFail(g) BY <1>4, FailQuiet DEF TakeFail
<1>5. CASE Take(g)
  <2>1. /\ UNCHANGED <<fronts, created, holes, acceptQ, rx, strR, control, recvMap>>
        /\ reader' = [Idle EXCEPT !.pc = "stream", !.frame = g]
        /\ ~(g.id \in Uni /\ recvMap[g.id] = 0 /\ IsClosed(g.id)) BY <1>5 DEF Take
  <2>2. reader'.pc = "stream" /\ reader'.frame = g BY <2>1 DEF Idle
  <2>3. Opened(g.id)
    <3>1. 1 \in 1 .. Len(wireAB) /\ g = wireAB[1] BY <1>1, <1>2, SeqTail DEF Types, WireTypes
    <3> QED BY <3>1 DEF WirePart, WireInv
  <2>4. ReaderMapInv' BY <2>1, <2>2, <2>3 DEF ReaderMapInv, Opened, IsClosed, StreamPcs
  <2> QED BY <2>1, <2>4, MapQuiet
<1> QED BY <1>2, <1>3, <1>4, <1>5

\* The RecvStream an id is routed to exists, and is the last one made for it.
LEMMA Routed ==
  ASSUME Types, FrontInv, NEW s \in Streams, recvMap[s] # 0
  PROVE  /\ recvMap[s] = fronts[s] /\ fronts[s] \in 1 .. MaxFronts
         /\ <<s, recvMap[s]>> \in Fronts /\ rx[<<s, recvMap[s]>>].st # "none"
<1>1. recvMap[s] = fronts[s] /\ rx[<<s, fronts[s]>>].st # "none" BY DEF FrontInv
<1>2. fronts[s] \in 1 .. MaxFronts BY <1>1, FrontBound DEF Types, ReaderTypes
<1> QED BY <1>1, <1>2, FrontOf

\* The reader hands a frame to a RecvStream, or drops an empty one.
LEMMA Hands ==
  ASSUME Types, NEW f \in Fronts, NEW fr \in StreamFrames,
         rx' = IF fr.len = 0 /\ ~fr.fin THEN rx ELSE Deliver(f, fr)
  PROVE  /\ \A g \in Fronts : g # f => rx'[g] = rx[g]
         /\ rx'[f].st = rx[f].st /\ rx'[f].closed = rx[f].closed /\ rx'[f].buf = rx[f].buf
         /\ rx'[f].fin = rx[f].fin /\ rx'[f].reset = rx[f].reset
         /\ \/ rx'[f].data = rx[f].data /\ (rx[f].st = "dropped" \/ fr.len = 0)
            \/ rx'[f].data = Append(rx[f].data, fr) /\ rx[f].st # "dropped"
<1>1. CASE fr.len = 0 /\ ~fr.fin BY <1>1
<1>2. CASE ~(fr.len = 0 /\ ~fr.fin)
  <2>1. rx' = Deliver(f, fr) BY <1>2
  <2> QED BY <2>1, DeliverEffect DEF Types
<1> QED BY <1>1, <1>2

\* Handing a frame to a live stream keeps the map's invariant.
LEMMA MapRouteLive ==
  ASSUME Types, MapInv, NEW s \in Streams, NEW fr \in StreamFrames,
         RouteLive(s, <<s, recvMap[s]>>, fr), UNCHANGED <<tx, pending, got>>
  PROVE  MapInv' /\ ReaderMapInv'
<1>1. PICK f : f = <<s, recvMap[s]>> OBVIOUS
<1>2. /\ recvMap[s] # 0 /\ strR' = [strR EXCEPT ![f] = Receive(@, fr.len)]
      /\ rx' = IF fr.len = 0 /\ ~fr.fin THEN rx ELSE Deliver(f, fr)
      /\ recvMap' = IF fr.fin THEN [recvMap EXCEPT ![s] = 0] ELSE recvMap
      /\ reader' = Idle
      /\ UNCHANGED <<created, holes, acceptQ, fronts, control>> BY <1>1 DEF RouteLive
<1>3. recvMap[s] = fronts[s] /\ f \in Fronts /\ rx[f].st # "none" /\ f[1] = s /\ f[2] = fronts[s] /\ fronts[s] \in Nat
  BY <1>1, <1>2, Routed DEF MapInv
<1>4. /\ \A g \in Fronts : g # f => rx'[g] = rx[g]
      /\ rx'[f].st = rx[f].st /\ rx'[f].closed = rx[f].closed BY <1>2, <1>3, Hands
<1>5. \A t \in Streams : recvMap'[t] \in {0, recvMap[t]} BY <1>2 DEF Types, ReaderTypes
<1>6. \A g \in Fronts : g[2] > fronts[g[1]] => strR'[g] = strR[g]
  <2>1. \A g \in Fronts : g # f => strR'[g] = strR[g] BY <1>2 DEF Types, CreditTypes
  <2> QED BY <1>3, <2>1
<1>7. \A t \in Streams : Aborted(t) => tx'[t].closed # "no" /\ ~tx'[t].fin /\ tx'[t].st = "open" BY DEF Aborted, Opened
<1>8. /\ \A g \in Fronts : rx'[g].st = rx[g].st /\ rx'[g].closed = rx[g].closed
      /\ \A g \in Fronts : rx[g].st = "none" => /\ rx'[g].data = rx[g].data /\ rx'[g].buf.len = rx[g].buf.len
                                                /\ got'[g] = got[g] BY <1>3, <1>4
<1>9. MapInv' BY <1>2, <1>5, <1>6, <1>7, <1>8, MapSame
<1>10. reader'.pc = "idle" BY <1>2 DEF Idle
<1> QED BY <1>9, <1>10, ReaderIdle

\* Making a receiving half keeps the map's invariant.
LEMMA MapRouteNew ==
  ASSUME Types, MapInv, ReaderMapInv, reader.pc = "stream", NEW s \in Streams, s = reader.frame.id,
         RouteNew(s, reader.frame), UNCHANGED <<tx, pending, got>>
  PROVE  MapInv' /\ ReaderMapInv'
<1>1. /\ recvMap[s] = 0 /\ s \in Uni /\ fronts[s] < MaxFronts /\ Record(s) /\ fronts' = [fronts EXCEPT ![s] = @ + 1]
      /\ strR' = [strR EXCEPT ![<<s, fronts[s] + 1>>] = Receive(NewCredit(StreamWindow), reader.frame.len)]
      /\ reader' = [reader EXCEPT !.pc = "accept"]
      /\ UNCHANGED <<recvMap, acceptQ, rx, control>> BY DEF RouteNew
<1>2. /\ \A t \in Streams : fronts[t] \in 0 .. MaxFronts /\ fronts[t] \in Nat
      /\ fronts'[s] = fronts[s] + 1 /\ \A t \in Streams : t # s => fronts'[t] = fronts[t]
      /\ MaxFronts \in Nat BY <1>1, FrontBound DEF Types, ReaderTypes
<1>3. PICK n : n = <<s, fronts[s] + 1>> OBVIOUS
<1>4. n \in Fronts /\ n[1] = s /\ n[2] = fronts[s] + 1
  <2>1. fronts[s] + 1 \in 1 .. MaxFronts BY <1>1, <1>2
  <2> QED BY <1>3, <2>1, FrontOf
<1>5. rx[n].st = "none" BY <1>2, <1>4 DEF MapInv, FrontInv
<1>6. /\ (IsClosed(s))'
      /\ \A t \in Uni : t # s => ((IsClosed(t))' <=> IsClosed(t))
      /\ \A h \in holes' : h <= created' BY <1>1, RecordFacts DEF MapInv, FrontInv
<1>7. \A t \in Streams : t \in Own <=> t \notin Uni BY StreamFacts
<1>8. Uni \subseteq Streams /\ \A g \in Fronts : g[1] \in Streams /\ g[2] \in Nat /\ g = <<g[1], g[2]>> BY StreamFacts
<1>9. FrontInv'
  <2>1. \A t \in Uni : fronts'[t] > 0 => (IsClosed(t))' BY <1>2, <1>6, <1>8 DEF MapInv, FrontInv
  <2>2. \A t \in Uni : (IsClosed(t))' => fronts'[t] > 0 \/ (Aborted(t))'
    <3> TAKE t \in Uni
    <3>1. CASE t = s BY <1>2, <3>1
    <3>2. CASE t # s BY <1>2, <1>6, <1>8, <3>2 DEF MapInv, FrontInv, Aborted, Opened
    <3> QED BY <3>1, <3>2
  <2>3. \A t \in Streams : recvMap'[t] \in {0, fronts'[t]} BY <1>1, <1>2 DEF MapInv, FrontInv
  <2>4. \A t \in Streams : recvMap'[t] # 0 => rx'[<<t, fronts'[t]>>].st # "none" BY <1>1, <1>2 DEF MapInv, FrontInv
  <2>5. \A t \in Own : fronts'[t] = 1
    <3> TAKE t \in Own
    <3>1. t \in Streams /\ t # s BY <1>1, <1>7, StreamFacts
    <3> QED BY <1>2, <3>1 DEF MapInv, FrontInv
  <2>6. \A g \in Fronts : rx'[g].st # "none" => g[2] <= fronts'[g[1]] BY <1>1, <1>2, <1>8 DEF MapInv, FrontInv
  <2> QED BY <1>6, <2>1, <2>2, <2>3, <2>4, <2>5, <2>6 DEF FrontInv
<1>10. AcceptInv' BY <1>1 DEF MapInv, AcceptInv
<1>11. StopInv'
  <2>1. fronts[s] > 0 => rx[<<s, 1>>].closed = "stop" BY <1>1 DEF MapInv, FrontInv, ReaderMapInv, WasStopped
  <2>2. EndedStaysEnded'
    <3> SUFFICES ASSUME NEW t \in Uni, fronts'[t] > 1 PROVE rx'[<<t, 1>>].closed = "stop" BY DEF EndedStaysEnded
    <3>1. CASE t = s BY <1>1, <1>2, <2>1, <3>1
    <3>2. CASE t # s BY <1>1, <1>2, <1>8, <3>2 DEF MapInv, StopInv, EndedStaysEnded
    <3> QED BY <3>1, <3>2
  <2>3. \A i \in 1 .. Len(control) : control[i].type = "stop" =>
           fronts'[control[i].id] > 0 /\ rx[<<control[i].id, 1>>].closed = "stop"
    <3> TAKE i \in 1 .. Len(control)
    <3> HAVE control[i].type = "stop"
    <3>1. control[i].id \in Streams
      <4>1. control[i] \in ControlFrames BY DEF Types, AppTypes
      <4> QED BY <4>1, FrameFields
    <3>2. fronts[control[i].id] > 0 /\ rx[<<control[i].id, 1>>].closed = "stop" BY DEF MapInv, StopInv, WasStopped
    <3> QED BY <1>2, <3>1, <3>2
  <2> QED BY <1>1, <2>2, <2>3 DEF MapInv, StopInv, WasStopped
<1>12. FreshInv'
  <2>1. ASSUME NEW g \in Fronts, g[2] > fronts'[g[1]] PROVE strR'[g] = NewCredit(StreamWindow)
    <3>1. g[2] > fronts[g[1]] /\ g # n BY <1>2, <1>4, <1>8, <2>1
    <3>2. strR'[g] = strR[g] BY <1>1, <1>3, <3>1 DEF Types, CreditTypes
    <3> QED BY <3>1, <3>2 DEF MapInv, FreshInv
  <2> QED BY <1>1, <2>1 DEF MapInv, FreshInv, Fresh
<1>13. ReaderMapInv'
  <2>1. reader'.pc = "accept" /\ reader'.frame = reader.frame BY <1>1, ReaderAt DEF Types, StreamPcs
  <2>2. tx[s].st = "open" BY DEF ReaderMapInv, StreamPcs, Opened
  <2> QED BY <1>1, <1>2, <1>3, <1>5, <2>1, <2>2 DEF ReaderMapInv, Opened
<1> QED BY <1>9, <1>10, <1>11, <1>12, <1>13 DEF MapInv

\* Routing a STREAM frame keeps the map's invariant.
LEMMA MapRoute ==
  ASSUME Types, MapInv, ReaderMapInv, RouteStream, UNCHANGED <<tx, pending, got>>
  PROVE  MapInv' /\ ReaderMapInv'
<1>1. PICK s, fr : s = reader.frame.id /\ fr = reader.frame OBVIOUS
<1>2. /\ reader.pc = "stream" /\ s \in Streams /\ fr \in StreamFrames
      /\ \/ RouteLive(s, <<s, recvMap[s]>>, fr) \/ RouteOwn(s) \/ RouteFail(s, <<s, recvMap[s]>>, fr)
         \/ RouteNew(s, fr) BY <1>1, RouteCases
<1>3. CASE RouteLive(s, <<s, recvMap[s]>>, fr) BY <1>2, <1>3, MapRouteLive
<1>4. CASE RouteOwn(s)
  <2>1. UNCHANGED <<recvMap, created, holes, acceptQ, fronts, strR, rx, control>> /\ reader' = Idle BY <1>4 DEF RouteOwn
  <2>2. reader'.pc = "idle" BY <2>1 DEF Idle
  <2> QED BY <2>1, <2>2, MapQuiet, ReaderIdle
<1>5. CASE RouteFail(s, <<s, recvMap[s]>>, fr) BY <1>5, FailQuiet DEF RouteFail
<1>6. CASE RouteNew(s, fr) BY <1>1, <1>2, <1>6, MapRouteNew
<1> QED BY <1>2, <1>3, <1>4, <1>5, <1>6

\* Offering a new stream to the application keeps the map's invariant.
LEMMA MapOffer ==
  ASSUME Types, MapInv, ReaderMapInv, OfferStream, UNCHANGED <<tx, pending, got>>
  PROVE  MapInv' /\ ReaderMapInv'
<1>1. PICK s, f : s = reader.frame.id /\ f = <<s, fronts[s]>> OBVIOUS
<1>2. /\ reader.pc = "accept" /\ acceptQ' = Append(acceptQ, f) /\ rx' = [rx EXCEPT ![f].st = "queued"]
      /\ reader' = [reader EXCEPT !.pc = "insert"]
      /\ UNCHANGED <<recvMap, created, holes, fronts, strR, control>> BY <1>1 DEF OfferStream, creditVars
<1>3. s \in Streams /\ s \in Uni /\ fronts[s] > 0 /\ recvMap[s] = 0 /\ rx[f].st = "none" /\ tx[s].st = "open"
  <2>1. s \in Streams BY <1>1, <1>2, ReaderFields DEF Types, StreamPcs
  <2> QED BY <1>1, <1>2, <2>1 DEF ReaderMapInv, Opened, StreamPcs
<1>4. f \in Fronts /\ f[1] = s /\ f[2] = fronts[s] /\ fronts[s] \in Nat
  <2>1. fronts[s] \in 1 .. MaxFronts BY <1>3, FrontBound DEF Types, ReaderTypes
  <2> QED BY <1>1, <1>3, <2>1, FrontOf
<1>5. /\ \A g \in Fronts : g # f => rx'[g] = rx[g]
      /\ rx'[f].st = "queued" /\ rx'[f].closed = rx[f].closed /\ rx'[f].buf = rx[f].buf
      /\ rx'[f].data = rx[f].data BY <1>2, <1>4, RxMoves DEF Types
<1>6. /\ \A g \in Fronts : rx[g].st # "none" => rx'[g].st = rx[g].st
      /\ \A g \in Fronts : rx'[g].st # "none" => rx[g].st # "none" \/ g = f
      /\ \A g \in Fronts : rx'[g].closed = rx[g].closed
      /\ \A g \in Fronts : rx'[g].data = rx[g].data /\ rx'[g].buf = rx[g].buf BY <1>3, <1>5
<1>7. FrontInv'
  <2>1. \A t \in Streams : recvMap[t] # 0 => rx'[<<t, fronts[t]>>].st # "none"
    <3> TAKE t \in Streams
    <3> HAVE recvMap[t] # 0
    <3>1. <<t, fronts[t]>> \in Fronts /\ rx[<<t, fronts[t]>>].st # "none" BY Routed DEF MapInv
    <3> QED BY <1>6, <3>1
  <2>2. \A g \in Fronts : rx'[g].st # "none" => g[2] <= fronts[g[1]] BY <1>4, <1>6 DEF MapInv, FrontInv
  <2> QED BY <1>2, <2>1, <2>2 DEF MapInv, FrontInv, Aborted, Opened, IsClosed
<1>8. AcceptInv'
  <2>1. PICK q, n : q = acceptQ' /\ n = Len(acceptQ) OBVIOUS
  <2>2. /\ n \in Nat /\ Len(q) = n + 1 /\ q[n + 1] = f
        /\ \A i \in 1 .. n : q[i] = acceptQ[i] /\ acceptQ[i] \in Fronts
        /\ \A i \in 1 .. n + 1 : i \in 1 .. n \/ i = n + 1 BY <1>2, <1>4, <2>1, SeqAppend DEF Types, ReaderTypes
  <2>3. \A i \in 1 .. n : acceptQ[i] # f /\ rx[acceptQ[i]].st = "queued" BY <1>3, <2>1 DEF MapInv, AcceptInv
  <2>4. ASSUME NEW i \in 1 .. Len(q) PROVE rx'[q[i]].st = "queued" BY <1>5, <2>2, <2>3
  <2>5. ASSUME NEW i \in 1 .. Len(q), NEW j \in 1 .. Len(q), i # j PROVE q[i] # q[j]
    <3>1. CASE i \in 1 .. n /\ j \in 1 .. n BY <2>1, <2>2, <2>5, <3>1 DEF MapInv, AcceptInv
    <3>2. CASE i = n + 1 \/ j = n + 1 BY <2>2, <2>3, <2>5, <3>2
    <3> QED BY <2>2, <3>1, <3>2
  <2> QED BY <2>1, <2>4, <2>5 DEF AcceptInv
<1>9. StopInv'
  <2>1. EndedStaysEnded' BY <1>2, <1>6, StreamFacts DEF MapInv, StopInv, EndedStaysEnded
  <2>2. \A i \in 1 .. Len(control) : control[i].type = "stop" =>
           fronts[control[i].id] > 0 /\ rx'[<<control[i].id, 1>>].closed = "stop"
    <3> TAKE i \in 1 .. Len(control)
    <3> HAVE control[i].type = "stop"
    <3>1. control[i] \in ControlFrames BY DEF Types, AppTypes
    <3>2. <<control[i].id, 1>> \in Fronts BY <3>1, FrameFields, StreamFacts
    <3> QED BY <1>6, <3>2 DEF MapInv, StopInv, WasStopped
  <2> QED BY <1>2, <2>1, <2>2 DEF MapInv, StopInv, WasStopped
<1>10. FreshInv' BY <1>2, <1>5, <1>6 DEF MapInv, FreshInv, Fresh
<1>11. ReaderMapInv'
  <2>1. reader'.pc = "insert" /\ reader'.frame = reader.frame BY <1>2, ReaderAt DEF Types, StreamPcs
  <2>2. rx'[f].data = <<>> /\ rx'[f].buf.len = 0 /\ got'[f] = 0 /\ rx'[f].st # "none"
    BY <1>3, <1>4, <1>5 DEF MapInv, FreshInv, Fresh
  <2> QED BY <1>1, <1>2, <1>3, <2>1, <2>2 DEF ReaderMapInv, Opened, Fresh
<1> QED BY <1>7, <1>8, <1>9, <1>10, <1>11 DEF MapInv

\* What entering a stream in the map needs and does.
LEMMA InsertCases ==
  ASSUME Types, ReaderMapInv, InsertStream
  PROVE  LET fr == reader.frame
             s  == fr.id
             f  == <<s, fronts[s]>>
         IN  /\ reader.pc = "insert" /\ fr \in StreamFrames /\ s \in Uni /\ s \in Streams /\ f \in Fronts
             /\ f[1] = s /\ f[2] = fronts[s] /\ fronts[s] > 0 /\ recvMap[s] = 0 /\ rx[f].st # "none" /\ Fresh(f)
             /\ fr.len \in Nat /\ fr.off \in Nat /\ fr.fin \in BOOLEAN
             /\ rx' = IF fr.len = 0 /\ ~fr.fin THEN rx ELSE Deliver(f, fr)
             /\ fr.fin => UNCHANGED <<recvMap, recvOff>>
             /\ ~fr.fin => /\ recvMap' = [recvMap EXCEPT ![s] = fronts[s]] /\ recvOff' = [recvOff EXCEPT ![s] = fr.len]
             /\ reader' = Idle
             /\ UNCHANGED <<fault, created, holes, acceptQ, fronts, ignored, connR, limR, strR, control,
                            wireAB, arrived>>
<1>1. PICK fr, s : fr = reader.frame /\ s = fr.id OBVIOUS
<1>2. reader.pc = "insert" /\ reader' = Idle
      /\ rx' = (IF fr.len = 0 /\ ~fr.fin THEN rx ELSE Deliver(<<s, fronts[s]>>, fr))
      /\ (fr.fin => UNCHANGED <<recvMap, recvOff>>)
      /\ (~fr.fin => /\ recvMap' = [recvMap EXCEPT ![s] = fronts[s]]
                     /\ recvOff' = [recvOff EXCEPT ![s] = fr.len])
      /\ UNCHANGED <<fault, created, holes, acceptQ, fronts, ignored, connR, limR, strR, control,
                     wireAB, arrived>> BY <1>1 DEF InsertStream, creditVars
<1>3. fr \in StreamFrames /\ s \in Streams BY <1>1, <1>2, ReaderFields DEF Types, StreamPcs
<1>4. s \in Uni /\ fronts[s] > 0 /\ recvMap[s] = 0 /\ rx[<<s, fronts[s]>>].st # "none" /\ Fresh(<<s, fronts[s]>>)
  BY <1>1, <1>2 DEF ReaderMapInv
<1>5. fronts[s] \in 1 .. MaxFronts BY <1>3, <1>4, FrontBound DEF Types, ReaderTypes
<1>6. <<s, fronts[s]>> \in Fronts BY <1>3, <1>5, FrontOf
<1>7. fr.len \in Nat /\ fr.off \in Nat /\ fr.fin \in BOOLEAN BY <1>3, FrameFields
<1> QED BY <1>1, <1>2, <1>3, <1>4, <1>6, <1>7

\* Entering a stream in the map keeps the map's invariant.
LEMMA MapInsert ==
  ASSUME Types, MapInv, ReaderMapInv, InsertStream, UNCHANGED <<tx, pending, got>>
  PROVE  MapInv' /\ ReaderMapInv'
<1>1. PICK fr, s, f : fr = reader.frame /\ s = fr.id /\ f = <<s, fronts[s]>> OBVIOUS
<1>2. /\ reader.pc = "insert" /\ fr \in StreamFrames /\ s \in Uni /\ s \in Streams /\ f \in Fronts
      /\ fronts[s] > 0 /\ rx[f].st # "none"
      /\ rx' = IF fr.len = 0 /\ ~fr.fin THEN rx ELSE Deliver(f, fr)
      /\ fr.fin => recvMap' = recvMap
      /\ ~fr.fin => recvMap' = [recvMap EXCEPT ![s] = fronts[s]]
      /\ reader' = Idle
      /\ UNCHANGED <<created, holes, acceptQ, fronts, strR, control>> BY <1>1, InsertCases
<1>3. /\ \A g \in Fronts : g # f => rx'[g] = rx[g]
      /\ rx'[f].st = rx[f].st /\ rx'[f].closed = rx[f].closed BY <1>2, Hands
<1>4. \A t \in Streams : \/ recvMap'[t] \in {0, recvMap[t]}
                         \/ fronts[t] > 0 /\ recvMap'[t] = fronts[t] /\ rx[<<t, fronts[t]>>].st # "none"
  BY <1>1, <1>2 DEF Types, ReaderTypes
<1>5. \A t \in Streams : Aborted(t) => tx'[t].closed # "no" /\ ~tx'[t].fin /\ tx'[t].st = "open" BY DEF Aborted, Opened
<1>6. /\ \A g \in Fronts : rx'[g].st = rx[g].st /\ rx'[g].closed = rx[g].closed
      /\ \A g \in Fronts : rx[g].st = "none" => /\ rx'[g].data = rx[g].data /\ rx'[g].buf.len = rx[g].buf.len
                                                /\ got'[g] = got[g] BY <1>2, <1>3
<1>7. MapInv' BY <1>2, <1>4, <1>5, <1>6, MapSame
<1>8. reader'.pc = "idle" BY <1>2 DEF Idle
<1> QED BY <1>7, <1>8, ReaderIdle

\* Taking a reset off the wire keeps the map's invariant.
LEMMA MapRecvReset ==
  ASSUME Types, WirePart, MapInv, ReaderMapInv, RecvReset, UNCHANGED <<tx, pending, got>>
  PROVE  MapInv' /\ ReaderMapInv'
<1>1. PICK g \in ResetFrames : g = Head(wireAB) BY RecvResetCases
<1>2. /\ reader.pc = "idle" /\ g.id \in Streams
      /\ \/ ResetLate(g.id) \/ ResetFail(g.id) \/ \E live \in BOOLEAN : ResetTake(g, live) BY <1>1, RecvResetCases
<1>3. CASE ResetLate(g.id)
  <2>1. UNCHANGED <<fronts, created, holes, acceptQ, rx, strR, control, recvMap, reader>> BY <1>3 DEF ResetLate
  <2> QED BY <1>2, <2>1, MapQuiet, ReaderIdle
<1>4. CASE ResetFail(g.id) BY <1>4, FailQuiet DEF ResetFail
<1>5. ASSUME NEW live \in BOOLEAN, ResetTake(g, live) PROVE MapInv' /\ ReaderMapInv'
  <2>1. /\ UNCHANGED <<fronts, created, holes, acceptQ, rx, strR, control, recvMap>>
        /\ reader' = [Idle EXCEPT !.pc = "reset", !.frame = g, !.live = live]
        /\ ~live => g.id \in Uni /\ ~IsClosed(g.id) BY <1>5 DEF ResetTake
  <2>0. live <=> recvMap[g.id] # 0 BY <1>5, Zenon DEF ResetTake
  <2>2. reader'.pc = "reset" /\ reader'.frame = g /\ reader'.live = live BY <2>1 DEF Idle
  <2>3. live => fronts[g.id] > 0
    <3>1. recvMap[g.id] # 0 => fronts[g.id] \in 1 .. MaxFronts BY <1>2, Routed DEF MapInv
    <3> QED BY <2>0, <3>1, FrontBound
  <2>4. ReaderMapInv' BY <2>0, <2>1, <2>2, <2>3 DEF ReaderMapInv, IsClosed, StreamPcs
  <2> QED BY <2>1, <2>4, MapQuiet
<1> QED BY <1>2, <1>3, <1>4, <1>5

\* Accounting for a reset keeps the map's invariant.
LEMMA MapAccount ==
  ASSUME Types, MapInv, ReaderMapInv, AccountReset, UNCHANGED <<tx, pending, got>>
  PROVE  MapInv' /\ ReaderMapInv'
<1>1. PICK s, n : s = reader.frame.id /\ n = reader.frame.final OBVIOUS
<1>2. /\ reader.pc = "reset" /\ s \in Streams
      /\ (\E k \in {"panic", "flow"} : Fail(k)) \/ Account(s, n) BY <1>1, AccountCases DEF AccountFlow
<1>3. CASE \E k \in {"panic", "flow"} : Fail(k) BY <1>3, FailQuiet
<1>4. CASE Account(s, n)
  <2>1. PICK gap : gap = Gap(s, n) OBVIOUS
  <2>2. /\ UNCHANGED <<recvMap, created, holes, acceptQ, fronts, rx, control>>
        /\ reader.live => recvMap[s] # 0
        /\ strR' = IF reader.live THEN [strR EXCEPT ![<<s, recvMap[s]>>] = Receive(@, gap)] ELSE strR
    BY <1>4, <2>1 DEF Account
  <2>3. PICK pc \in {"grant", "retire"} : reader' = [reader EXCEPT !.max = connR'.max, !.pc = pc] BY <1>4 DEF Account
  <2>4. reader'.pc = pc /\ reader'.frame = reader.frame /\ reader'.live = reader.live
    BY <2>3 DEF Types, ReaderTypes, ReaderStates
  <2>5. \A g \in Fronts : g[2] > fronts[g[1]] => strR'[g] = strR[g]
    <3>1. CASE reader.live
      <4>1. recvMap[s] = fronts[s] /\ fronts[s] \in Nat BY <1>2, <2>2, <3>1, Routed DEF MapInv
      <4>2. \A g \in Fronts : g # <<s, recvMap[s]>> => strR'[g] = strR[g] BY <2>2, <3>1 DEF Types, CreditTypes
      <4> QED BY <4>1, <4>2
    <3>2. CASE ~reader.live BY <2>2, <3>2
    <3> QED BY <3>1, <3>2
  <2>6. \A t \in Streams : Aborted(t) => tx'[t].closed # "no" /\ ~tx'[t].fin /\ tx'[t].st = "open"
    BY DEF Aborted, Opened
  <2>7. MapInv' BY <2>2, <2>5, <2>6, MapSame
  <2>8. ReaderMapInv' BY <1>2, <2>2, <2>3, <2>4 DEF ReaderMapInv, StreamPcs, IsClosed, WasStopped
  <2> QED BY <2>7, <2>8
<1> QED BY <1>2, <1>3, <1>4

\* What queueing a limit from the reader does.
LEMMA GrantCases ==
  ASSUME Types, ReaderGrant
  PROVE  /\ reader.pc \in {"grant", "limit"}
         /\ UNCHANGED <<fault, recvMap, recvOff, created, holes, acceptQ, fronts, ignored, connR, limR, strR,
                        rx, wireAB, arrived>>
         /\ reader.pc = "grant" => /\ control' = Append(control, MaxData(reader.max))
                                   /\ reader' = [reader EXCEPT !.pc = "retire"]
                                   /\ reader'.pc = "retire" /\ reader'.frame = reader.frame
                                   /\ reader'.live = reader.live
         /\ reader.pc = "limit" => control' = Append(control, MaxStreams(reader.max)) /\ reader' = Idle /\ reader'.pc = "idle"
         /\ \E g \in ControlFrames : control' = Append(control, g) /\ g.type \in {"max_data", "max_streams"}
<1>1. /\ reader.pc \in {"grant", "limit"}
      /\ reader.pc = "grant" => /\ control' = Append(control, MaxData(reader.max))
                                /\ reader' = [reader EXCEPT !.pc = "retire"]
      /\ reader.pc = "limit" => control' = Append(control, MaxStreams(reader.max)) /\ reader' = Idle
      /\ UNCHANGED <<fault, recvMap, recvOff, created, holes, acceptQ, fronts, ignored, connR, limR, strR,
                      rx, wireAB, arrived>> BY DEF ReaderGrant, creditVars
<1>2. reader.max \in Nat BY ReaderFields DEF Types
<1>3. /\ MaxData(reader.max) \in ControlFrames /\ MaxData(reader.max).type = "max_data"
      /\ MaxStreams(reader.max) \in ControlFrames /\ MaxStreams(reader.max).type = "max_streams" BY <1>2, FrameTypes
<1>4. reader.pc = "grant" => reader'.pc = "retire" /\ reader'.frame = reader.frame /\ reader'.live = reader.live
  <2>1. reader \in ReaderStates BY DEF Types, ReaderTypes
  <2> QED BY <1>1, <2>1 DEF ReaderStates
<1>5. reader.pc = "limit" => reader'.pc = "idle" BY <1>1 DEF Idle
<1>6. \E g \in ControlFrames : control' = Append(control, g) /\ g.type \in {"max_data", "max_streams"} BY <1>1, <1>3
<1> QED BY <1>1, <1>4, <1>5, <1>6

\* Queueing a limit from the reader keeps the map's invariant.
LEMMA MapGrant ==
  ASSUME Types, MapInv, ReaderMapInv, ReaderGrant, UNCHANGED <<tx, pending, got>>
  PROVE  MapInv' /\ ReaderMapInv'
<1>1. /\ reader.pc \in {"grant", "limit"} /\ UNCHANGED <<recvMap, created, holes, acceptQ, fronts, strR, rx>>
      /\ reader.pc = "grant" => reader'.pc = "retire" /\ reader'.frame = reader.frame /\ reader'.live = reader.live
      /\ reader.pc = "limit" => reader'.pc = "idle" BY GrantCases
<1>2. PICK g \in ControlFrames : control' = Append(control, g) /\ g.type \in {"max_data", "max_streams"} BY GrantCases
<1>3. \A i \in 1 .. Len(control') : control'[i].type = "stop" => \E j \in 1 .. Len(control) : control'[i] = control[j]
  <2> TAKE i \in 1 .. Len(control')
  <2> HAVE control'[i].type = "stop"
  <2>1. (i \in 1 .. Len(control) /\ control'[i] = control[i]) \/ control'[i] = g
    BY <1>2, ControlGrows DEF Types, AppTypes
  <2> QED BY <1>2, <2>1
<1>4. \A t \in Streams : Aborted(t) => tx'[t].closed # "no" /\ ~tx'[t].fin /\ tx'[t].st = "open" BY DEF Aborted, Opened
<1>5. MapInv' BY <1>1, <1>3, <1>4, MapSame
<1>6. CASE reader.pc = "grant"
  <2>1. ReaderMapInv' BY <1>1, <1>6 DEF ReaderMapInv, StreamPcs, IsClosed, WasStopped
  <2> QED BY <1>5, <2>1
<1>7. CASE reader.pc = "limit" BY <1>1, <1>5, <1>7, ReaderIdle
<1> QED BY <1>1, <1>6, <1>7

\* Retiring a stream that was reset keeps the map's invariant.
LEMMA MapRetire ==
  ASSUME Types, WirePart, MapInv, ReaderMapInv, RetireReset, UNCHANGED <<tx, pending, got>>
  PROVE  MapInv' /\ ReaderMapInv'
<1>1. PICK s : s = reader.frame.id OBVIOUS
<1>2. /\ reader.pc = "retire" /\ s \in Streams /\ UNCHANGED <<acceptQ, fronts, strR, control>>
      /\ RetireLive(s) \/ RetireOwn(s) \/ RetireUnseen(s) BY <1>1, RetireCases
<1>3. \A t \in Streams : Aborted(t) => tx'[t].closed # "no" /\ ~tx'[t].fin /\ tx'[t].st = "open" BY DEF Aborted, Opened
<1>4. reader'.pc \in {"idle", "limit"}
  <2>1. reader' = Idle \/ reader' = [reader EXCEPT !.pc = "limit", !.max = limR'.max]
    BY <1>2 DEF RetireLive, RetireOwn, RetireUnseen
  <2>2. Idle.pc = "idle" BY DEF Idle
  <2>3. [reader EXCEPT !.pc = "limit", !.max = limR'.max].pc = "limit" BY DEF Types, ReaderTypes, ReaderStates
  <2> QED BY <2>1, <2>2, <2>3
<1>5. CASE RetireLive(s)
  <2>1. PICK f : f = <<s, recvMap[s]>> OBVIOUS
  <2>2. /\ recvMap[s] # 0 /\ UNCHANGED <<created, holes>> /\ recvMap' = [recvMap EXCEPT ![s] = 0]
        /\ rx' = IF rx[f].st = "dropped" THEN rx ELSE [rx EXCEPT ![f].reset = TRUE] BY <1>5, <2>1 DEF RetireLive
  <2>3. f \in Fronts BY <1>2, <2>1, <2>2, Routed DEF MapInv
  <2>4. \A g \in Fronts : rx'[g].st = rx[g].st /\ rx'[g].closed = rx[g].closed
                          /\ rx'[g].data = rx[g].data /\ rx'[g].buf = rx[g].buf
    <3>1. CASE rx[f].st = "dropped" BY <2>2, <3>1
    <3>2. CASE rx[f].st # "dropped"
      <4>1. rx' = [rx EXCEPT ![f].reset = TRUE] BY <2>2, <3>2
      <4> QED BY <2>3, <4>1, RxResets DEF Types
    <3> QED BY <3>1, <3>2
  <2>5. \A t \in Streams : recvMap'[t] \in {0, recvMap[t]} BY <2>2 DEF Types, ReaderTypes
  <2>6. MapInv' BY <1>2, <1>3, <2>2, <2>4, <2>5, MapSame
  <2> QED BY <1>4, <2>6, ReaderIdle
<1>6. CASE RetireOwn(s)
  <2>1. UNCHANGED <<recvMap, rx, created, holes>> BY <1>6 DEF RetireOwn
  <2> QED BY <1>2, <1>4, <2>1, MapQuiet, ReaderIdle
<1>7. CASE RetireUnseen(s)
  <2>1. s \in Uni /\ Record(s) /\ UNCHANGED <<rx, recvMap>> BY <1>7 DEF RetireUnseen
  <2>2. Aborted(s) BY <1>1, <1>2 DEF WirePart, ReaderResetInv, ResetPcs
  <2>3. /\ (IsClosed(s))'
        /\ \A t \in Uni : t # s => ((IsClosed(t))' <=> IsClosed(t))
        /\ \A h \in holes' : h <= created'
        /\ \A t \in Uni : IsClosed(t) => (IsClosed(t))' BY <2>1, RecordFacts DEF MapInv, FrontInv
  <2>4. FrontInv'
    <3>1. \A t \in Uni : fronts'[t] > 0 => (IsClosed(t))' BY <1>2, <2>3 DEF MapInv, FrontInv
    <3>2. \A t \in Uni : (IsClosed(t))' => fronts'[t] > 0 \/ (Aborted(t))'
      <4> TAKE t \in Uni
      <4>1. CASE t = s BY <2>2, <4>1 DEF Aborted, Opened
      <4>2. CASE t # s BY <1>2, <2>3, <4>2 DEF MapInv, FrontInv, Aborted, Opened
      <4> QED BY <4>1, <4>2
    <3> QED BY <1>2, <2>1, <2>3, <3>1, <3>2 DEF MapInv, FrontInv
  <2>5. AcceptInv' /\ StopInv' /\ FreshInv'
    BY <1>2, <2>1 DEF MapInv, AcceptInv, StopInv, FreshInv, WasStopped, Fresh, EndedStaysEnded
  <2> QED BY <1>4, <2>4, <2>5, ReaderIdle DEF MapInv
<1> QED BY <1>2, <1>5, <1>6, <1>7

\* The map starts with its invariant.
LEMMA InitMap == Init => MapInv /\ ReaderMapInv
<1> SUFFICES ASSUME Init PROVE MapInv /\ ReaderMapInv OBVIOUS
<1>1. reader.pc = "idle" BY DEF Init, Idle
<1>2. ReaderMapInv BY <1>1 DEF ReaderMapInv, StreamPcs
<1>3. /\ fronts = [s \in Streams |-> IF s \in Own THEN 1 ELSE 0] /\ recvMap = fronts
      /\ created = -1 /\ holes = {} /\ acceptQ = <<>> /\ control = <<>>
      /\ pending = [f \in Fronts |-> NoFrame] /\ got = [f \in Fronts |-> 0]
      /\ strR = [f \in Fronts |-> NewCredit(StreamWindow)] BY DEF Init
<1>4. \A f \in Fronts : /\ rx[f].st = IF f[1] \in Own /\ f[2] = 1 THEN "held" ELSE "none"
                        /\ rx[f].data = <<>> /\ rx[f].buf.len = 0 /\ rx[f].closed = "no" BY DEF Init
<1>5. /\ \A s \in Streams : s \in Own <=> s \notin Uni
      /\ Uni \subseteq Streams /\ Own \subseteq Streams
      /\ \A s \in Streams : <<s, 1>> \in Fronts
      /\ \A f \in Fronts : f[1] \in Streams
      /\ \A s \in Uni : s >= 0 /\ s \in Nat BY StreamFacts
<1>6. FrontInv
  <2>1. \A s \in Uni : fronts[s] = 0 /\ ~IsClosed(s) BY <1>3, <1>5 DEF IsClosed
  <2>2. \A s \in Streams : recvMap[s] # 0 => rx[<<s, fronts[s]>>].st # "none" BY <1>3, <1>4, <1>5
  <2>3. \A f \in Fronts : rx[f].st # "none" => f[2] <= fronts[f[1]] BY <1>3, <1>4, <1>5
  <2>4. \A s \in Own : fronts[s] = 1 BY <1>3, <1>5
  <2>5. \A s \in Streams : recvMap[s] \in {0, fronts[s]} BY <1>3
  <2>6. \A h \in holes : h <= created BY <1>3
  <2> QED BY <2>1, <2>2, <2>3, <2>4, <2>5, <2>6 DEF FrontInv
<1>7. AcceptInv BY <1>3 DEF AcceptInv
<1>8. StopInv
  <2>1. EndedStaysEnded BY <1>3, <1>5 DEF EndedStaysEnded
  <2> QED BY <1>3, <2>1 DEF StopInv, NoFrame
<1>9. FreshInv BY <1>3, <1>4 DEF FreshInv, Fresh
<1> QED BY <1>2, <1>6, <1>7, <1>8, <1>9 DEF MapInv

\* Every step keeps the map's invariant.
LEMMA NextMap ==
  ASSUME Types, SenderInv, WirePart, MapInv, ReaderMapInv, [Next]_vars
  PROVE  MapInv' /\ ReaderMapInv'
<1>1. ASSUME (\E s \in Streams : SenderApp(s)) \/ SenderWriter \/ SenderReader \/ UNCHANGED vars
      PROVE MapInv' /\ ReaderMapInv'
  <2>1. UNCHANGED <<recvMap, created, holes, reader, acceptQ, fronts, strR, rx, pending, got, control>>
    BY <1>1 DEF SenderApp, SenderWriter, SenderReader, vars, readerVars, creditVars, appVars
  <2> QED BY <2>1, MapSender
<1>2. CASE ReceiverReader
  <2>1. UNCHANGED <<tx, pending, got>> BY <1>2 DEF ReceiverReader, senderVars
  <2> QED BY <1>2, <2>1, MapRecvStream, MapRoute, MapOffer, MapInsert, MapRecvReset, MapAccount, MapGrant, MapRetire
      DEF ReceiverReader
<1>3. CASE Accept BY <1>3, MapAccept
<1>4. CASE ReceiverWriter BY <1>4, MapTransmitControl
<1>5. ASSUME NEW f \in Fronts, ReceiverApp(f) PROVE MapInv' /\ ReaderMapInv' BY <1>5, AppSteps, MapApp DEF MapInv
<1> QED BY <1>1, <1>2, <1>3, <1>4, <1>5 DEF Next

\* The first inductive invariant: the sending end, the wire and the receiving
\* end's map.
Core == Types /\ SenderInv /\ WirePart /\ MapInv /\ ReaderMapInv

\* Core is inductive.
LEMMA CoreHolds == Spec => []Core
<1>1. Init => Core BY InitTypes, InitSenderInv, InitWirePart, InitMap DEF Core
<1>2. Core /\ [Next]_vars => Core' BY NextTypes, NextSenderInv, NextWirePart, NextMap DEF Core
<1> QED BY <1>1, <1>2, PTL DEF Spec

\* Core gives EndIsExact and SkippedStillOpens.
LEMMA CoreEnds == Core => EndIsExact /\ SkippedStillOpens
<1> SUFFICES ASSUME Core PROVE EndIsExact /\ SkippedStillOpens OBVIOUS
<1>1. FinalSizeExact /\ NothingTrailsTheEnd BY WireEnds DEF Core, WirePart
<1>2. EndedStaysEnded BY DEF Core, MapInv, StopInv
<1>3. SkippedStillOpens BY DEF Core, MapInv, FrontInv, SkippedStillOpens, Aborted
<1> QED BY <1>1, <1>2, <1>3 DEF EndIsExact

\* A stream ends once and where it says, however writes, finish, reset and drop
\* interleave with the writer task and with the reader of the other end: the
\* final size of a RESET_STREAM is what transmit sent of the stream, nothing of
\* it follows the end on the wire, and no late frame opens it again unless it
\* was stopped (SendStream, transmit and recv_frame of session.rs).
THEOREM EndsExact == Spec => []EndIsExact
  BY CoreHolds, CoreEnds, PTL

----------------------------------------------------------------------------
(* What a RecvStream has seen                                             *)

\* What receive leaves in a credit.
LEMMA ReceiveFields ==
  ASSUME NEW c \in CreditState, NEW n \in Nat, NEW d, d = Receive(c, n)
  PROVE  d.used = c.used + n /\ d.max = c.max /\ d.released = c.released BY DEF CreditState, Receive

\* A stream the step does not concern.
LEMMA SeenSame ==
  ASSUME NEW t \in Streams, SeenOne(t),
         fronts'[t] = fronts[t], strR'[<<t, 1>>].used = strR[<<t, 1>>].used,
         arrived'[t] = arrived[t], recvOff'[t] = recvOff[t], recvMap'[t] \in {0, recvMap[t]},
         t \in Uni /\ IsClosed(t) => (IsClosed(t))',
         \/ reader'.pc = reader.pc /\ reader'.frame = reader.frame
         \/ /\ ~(reader.pc = "stream" /\ reader.frame.id = t)
            /\ ~(reader'.pc = "stream" /\ reader'.frame.id = t)
            /\ reader'.pc \in {"accept", "insert"} /\ reader'.frame.id = t =>
                 reader.pc \in {"accept", "insert"} /\ reader'.frame = reader.frame
  PROVE  (SeenOne(t))'
<1>1. CASE reader'.pc = reader.pc /\ reader'.frame = reader.frame BY <1>1 DEF SeenOne, InFlight
<1>2. CASE ~(reader'.pc = reader.pc /\ reader'.frame = reader.frame)
  <2>1. ~InFlight(t) /\ ~(reader'.pc = "stream" /\ reader'.frame.id = t) BY <1>2 DEF InFlight
  <2>2. reader'.pc \in {"accept", "insert"} /\ reader'.frame.id = t =>
               reader.pc \in {"accept", "insert"} /\ reader'.frame = reader.frame BY <1>2
  <2> QED BY <2>1, <2>2 DEF SeenOne, InFlight
<1> QED BY <1>1, <1>2

\* Steps of the others: only the writer touches the map, and only to take an id out.
LEMMA SeenOthers ==
  ASSUME SeenInv, Running, UNCHANGED <<reader, arrived, recvOff, fronts, created, holes>>,
         \A s \in Streams : recvMap'[s] \in {0, recvMap[s]} /\ strR'[<<s, 1>>].used = strR[<<s, 1>>].used
  PROVE  SeenInv'
<1>1. ASSUME NEW t \in Streams PROVE (SeenOne(t))'
  <2>1. SeenOne(t) BY DEF SeenInv
  <2>2. t \in Uni /\ IsClosed(t) => (IsClosed(t))' BY DEF IsClosed
  <2> QED BY <2>1, <2>2, SeenSame
<1> QED BY <1>1 DEF SeenInv

\* An error ends the session.
LEMMA FailEnds ==
  ASSUME NEW k \in {"flow", "limit", "panic"}, Fail(k)
  PROVE  ~Running' /\ fault' = k BY DEF Fail, Running

\* Taking a STREAM frame off the wire counts it as arrived.
LEMMA SeenRecvStream ==
  ASSUME Types, WirePart, SeenInv, Running, RecvStream, UNCHANGED senderVars
  PROVE  SeenInv'
<1>1. PICK g \in StreamFrames : g = Head(wireAB) BY RecvStreamCases
<1>2. /\ reader.pc = "idle" /\ g.id \in Streams /\ g.len \in Nat /\ g.off \in Nat
      /\ arrived' = [arrived EXCEPT ![g.id] = @ + g.len]
      /\ TakeLate(g) \/ TakeFail(g) \/ Take(g) BY <1>1, RecvStreamCases
<1>3. g.off = arrived[g.id] BY <1>1, WireRecvStream
<1>4. PICK s : s = g.id OBVIOUS
<1>5. /\ s \in Streams /\ arrived[s] \in Nat /\ arrived'[s] = arrived[s] + g.len
      /\ \A t \in Streams : t # s => arrived'[t] = arrived[t] BY <1>2, <1>4 DEF Types, ReaderTypes
<1>6. strR[<<s, 1>>].used \in Nat
  <2>1. strR[<<s, 1>>] \in CreditState BY <1>5, StreamFacts DEF Types, CreditTypes
  <2> QED BY <2>1, CreditFields
<1>7. CASE TakeLate(g)
  <2>1. /\ UNCHANGED <<reader, recvMap, recvOff, created, holes, fronts, strR>>
        /\ s \in Uni /\ recvMap[s] = 0 /\ IsClosed(s) BY <1>4, <1>7 DEF TakeLate
  <2>2. ASSUME NEW t \in Streams PROVE (SeenOne(t))'
    <3>1. CASE t = s
      <4>1. SeenOne(s) BY <1>5 DEF SeenInv
      <4> QED BY <1>2, <1>5, <1>6, <2>1, <3>1, <4>1 DEF SeenOne, IsClosed
    <3>2. CASE t # s
      <4>1. SeenOne(t) /\ (t \in Uni /\ IsClosed(t) => (IsClosed(t))') BY <2>1 DEF SeenInv, IsClosed
      <4> QED BY <1>5, <2>1, <3>2, <4>1, SeenSame
    <3> QED BY <3>1, <3>2
  <2> QED BY <2>2 DEF SeenInv
<1>8. CASE TakeFail(g) BY <1>8, FailEnds DEF TakeFail, SeenInv
<1>9. CASE Take(g)
  <2>1. /\ UNCHANGED <<recvMap, recvOff, created, holes, fronts, strR>>
        /\ reader' = [Idle EXCEPT !.pc = "stream", !.frame = g] BY <1>9 DEF Take
  <2>2. reader'.pc = "stream" /\ reader'.frame = g BY <2>1 DEF Idle
  <2>3. ASSUME NEW t \in Streams PROVE (SeenOne(t))'
    <3>1. CASE t = s
      <4>1. SeenOne(s) /\ ~InFlight(s) BY <1>2, <1>5 DEF SeenInv, InFlight
      <4> QED BY <1>2, <1>3, <1>4, <1>5, <1>6, <2>1, <2>2, <3>1, <4>1 DEF SeenOne, InFlight, IsClosed
    <3>2. CASE t # s
      <4>1. SeenOne(t) /\ (t \in Uni /\ IsClosed(t) => (IsClosed(t))') BY <2>1 DEF SeenInv, IsClosed
      <4> QED BY <1>2, <1>4, <1>5, <2>1, <2>2, <3>2, <4>1, SeenSame
    <3> QED BY <3>1, <3>2
  <2> QED BY <2>3 DEF SeenInv
<1> QED BY <1>2, <1>7, <1>8, <1>9

\* Routing a STREAM frame counts it in its stream.
LEMMA SeenRoute ==
  ASSUME Types, MapInv, ReaderMapInv, SeenInv, Running, RouteStream
  PROVE  SeenInv'
<1>1. PICK fr, s : fr = reader.frame /\ s = fr.id OBVIOUS
<1>2. /\ reader.pc = "stream" /\ s \in Streams /\ fr \in StreamFrames /\ fr.len \in Nat /\ fr.off \in Nat
      /\ UNCHANGED arrived
      /\ \/ RouteLive(s, <<s, recvMap[s]>>, fr) \/ RouteOwn(s) \/ RouteFail(s, <<s, recvMap[s]>>, fr)
         \/ RouteNew(s, fr) BY <1>1, RouteCases
<1>3. /\ \A t \in Streams : <<t, 1>> \in Fronts /\ strR[<<t, 1>>] \in CreditState /\ strR[<<t, 1>>].used \in Nat
      /\ \A t \in Streams : recvOff[t] \in Nat /\ fronts[t] \in Nat
  <2>1. \A t \in Streams : <<t, 1>> \in Fronts /\ strR[<<t, 1>>] \in CreditState BY StreamFacts DEF Types, CreditTypes
  <2>2. \A t \in Streams : recvOff[t] \in Nat /\ fronts[t] \in Nat BY DEF Types, ReaderTypes
  <2> QED BY <2>1, <2>2, CreditFields
<1>4. SeenOne(s) /\ InFlight(s) BY <1>1, <1>2 DEF SeenInv, InFlight
<1>5. CASE RouteLive(s, <<s, recvMap[s]>>, fr)
  <2>1. PICK f : f = <<s, recvMap[s]>> OBVIOUS
  <2>2. /\ recvMap[s] # 0 /\ strR' = [strR EXCEPT ![f] = Receive(@, fr.len)]
        /\ recvOff' = [recvOff EXCEPT ![s] = @ + fr.len]
        /\ recvMap' = IF fr.fin THEN [recvMap EXCEPT ![s] = 0] ELSE recvMap
        /\ reader' = Idle /\ UNCHANGED <<created, holes, fronts>> BY <1>5, <2>1 DEF RouteLive
  <2>3. reader'.pc = "idle" BY <2>2 DEF Idle
  <2>4. recvMap[s] = fronts[s] /\ f \in Fronts /\ fronts[s] >= 1 BY <1>2, <2>1, <2>2, Routed, FrontBound DEF MapInv
  <2>5. /\ recvOff'[s] = recvOff[s] + fr.len /\ \A t \in Streams : t # s => recvOff'[t] = recvOff[t]
        /\ recvMap'[s] \in {0, recvMap[s]} /\ \A t \in Streams : t # s => recvMap'[t] = recvMap[t]
        /\ \A g \in Fronts : g # f => strR'[g] = strR[g]
        /\ strR'[f] = Receive(strR[f], fr.len) BY <1>2, <2>2, <2>4 DEF Types, ReaderTypes, CreditTypes
  <2>6. ASSUME NEW t \in Streams PROVE (SeenOne(t))'
    <3>1. CASE t = s
      <4> SUFFICES ASSUME fronts[s] <= 1 PROVE (SeenOne(s))' BY <2>2, <3>1 DEF SeenOne
      <4>1. recvMap[s] = 1 /\ f = <<s, 1>> BY <1>3, <1>2, <2>1, <2>4
      <4>2. recvOff[s] + fr.len = arrived[s] /\ strR[f].used = recvOff[s] BY <1>1, <1>4, <2>2, <4>1 DEF SeenOne
      <4>3. strR'[f].used = strR[f].used + fr.len BY <1>2, <1>3, <2>5, <4>1, ReceiveFields
      <4>4. s \in Uni => IsClosed(s) BY <1>3, <1>2, <2>4 DEF MapInv, FrontInv
      <4>5. s \in Uni => (IsClosed(s))' BY <2>2, <4>4 DEF IsClosed
      <4>6. strR'[<<s, 1>>].used = arrived'[s] /\ recvOff'[s] = arrived'[s] /\ arrived'[s] \in Nat
        BY <1>2, <1>3, <2>5, <4>1, <4>2, <4>3
      <4> QED BY <2>3, <4>5, <4>6 DEF SeenOne, InFlight
    <3>2. CASE t # s
      <4>1. SeenOne(t) /\ (t \in Uni /\ IsClosed(t) => (IsClosed(t))') BY <2>2 DEF SeenInv, IsClosed
      <4>2. strR'[<<t, 1>>] = strR[<<t, 1>>] BY <1>3, <2>1, <2>5, <3>2
      <4> QED BY <1>1, <1>2, <2>2, <2>3, <2>5, <3>2, <4>1, <4>2, SeenSame
    <3> QED BY <3>1, <3>2
  <2> QED BY <2>6 DEF SeenInv
<1>6. CASE RouteOwn(s)
  <2>1. /\ recvMap[s] = 0 /\ s \in Own /\ reader' = Idle
        /\ UNCHANGED <<recvMap, recvOff, created, holes, fronts, strR>> BY <1>6 DEF RouteOwn
  <2>2. reader'.pc = "idle" BY <2>1 DEF Idle
  <2>3. s \notin Uni BY <1>2, <2>1, UniOrOwn
  <2>4. ASSUME NEW t \in Streams PROVE (SeenOne(t))'
    <3>1. CASE t = s BY <1>2, <1>4, <2>1, <2>2, <2>3, <3>1 DEF SeenOne
    <3>2. CASE t # s
      <4>1. SeenOne(t) /\ (t \in Uni /\ IsClosed(t) => (IsClosed(t))') BY <2>1 DEF SeenInv, IsClosed
      <4> QED BY <1>1, <1>2, <2>1, <2>2, <3>2, <4>1, SeenSame
    <3> QED BY <3>1, <3>2
  <2> QED BY <2>4 DEF SeenInv
<1>7. CASE RouteFail(s, <<s, recvMap[s]>>, fr) BY <1>7, FailEnds DEF RouteFail, SeenInv
<1>8. CASE RouteNew(s, fr)
  <2>1. /\ recvMap[s] = 0 /\ s \in Uni /\ Record(s) /\ fronts' = [fronts EXCEPT ![s] = @ + 1]
        /\ strR' = [strR EXCEPT ![<<s, fronts[s] + 1>>] = Receive(NewCredit(StreamWindow), fr.len)]
        /\ reader' = [reader EXCEPT !.pc = "accept"]
        /\ UNCHANGED <<recvMap, recvOff>> BY <1>8 DEF RouteNew
  <2>2. reader'.pc = "accept" /\ reader'.frame = fr BY <1>1, <2>1, ReaderAt DEF Types, StreamPcs
  <2>3. fronts'[s] = fronts[s] + 1 /\ \A t \in Streams : t # s => fronts'[t] = fronts[t]
    BY <1>2, <2>1 DEF Types, ReaderTypes
  <2>4. /\ (IsClosed(s))' /\ \A t \in Uni : IsClosed(t) => (IsClosed(t))' BY <2>1, RecordFacts DEF MapInv, FrontInv
  <2>5. ASSUME NEW t \in Streams PROVE (SeenOne(t))'
    <3>1. CASE t = s
      <4> SUFFICES ASSUME fronts'[s] <= 1 PROVE (SeenOne(s))' BY <3>1 DEF SeenOne
      <4>1. fronts[s] = 0 BY <1>2, <1>3, <2>3
      <4>2. ~IsClosed(s) BY <1>1, <1>2, <2>1, <4>1 DEF ReaderMapInv, WasStopped
      <4>3. arrived[s] = fr.len /\ fr.off = 0 BY <1>1, <1>4, <2>1, <4>1, <4>2 DEF SeenOne
      <4>4. strR'[<<s, 1>>] = Receive(NewCredit(StreamWindow), fr.len) BY <1>2, <1>3, <2>1, <4>1 DEF Types, CreditTypes
      <4>5. strR'[<<s, 1>>].used = fr.len BY <1>2, <4>4 DEF Receive, NewCredit
      <4> QED BY <1>1, <1>2, <2>1, <2>2, <2>4, <4>3, <4>5 DEF SeenOne, InFlight
    <3>2. CASE t # s
      <4>1. SeenOne(t) /\ (t \in Uni /\ IsClosed(t) => (IsClosed(t))') BY <2>4 DEF SeenInv
      <4>2. strR'[<<t, 1>>] = strR[<<t, 1>>] BY <1>3, <2>1, <3>2 DEF Types, CreditTypes
      <4> QED BY <1>1, <1>2, <2>1, <2>2, <2>3, <3>2, <4>1, <4>2, SeenSame
    <3> QED BY <3>1, <3>2
  <2> QED BY <2>5 DEF SeenInv
<1> QED BY <1>2, <1>5, <1>6, <1>7, <1>8

\* Offering a stream keeps the counts.
LEMMA SeenOffer ==
  ASSUME Types, SeenInv, Running, OfferStream
  PROVE  SeenInv'
<1>1. /\ reader.pc = "accept" /\ reader' = [reader EXCEPT !.pc = "insert"]
      /\ UNCHANGED <<recvMap, recvOff, created, holes, fronts, strR, arrived>> BY DEF OfferStream, creditVars
<1>2. reader'.pc = "insert" /\ reader'.frame = reader.frame BY <1>1, ReaderAt DEF Types, StreamPcs
<1>3. ASSUME NEW t \in Streams PROVE (SeenOne(t))'
  <2>1. SeenOne(t) /\ (t \in Uni /\ IsClosed(t) => (IsClosed(t))') BY <1>1 DEF SeenInv, IsClosed
  <2> QED BY <1>1, <1>2, <2>1, SeenSame
<1> QED BY <1>3 DEF SeenInv

\* Entering a stream in the map keeps the counts.
LEMMA SeenInsert ==
  ASSUME Types, MapInv, ReaderMapInv, SeenInv, Running, InsertStream
  PROVE  SeenInv'
<1>1. PICK fr, s : fr = reader.frame /\ s = fr.id OBVIOUS
<1>2. /\ reader.pc = "insert" /\ s \in Uni /\ s \in Streams /\ fronts[s] > 0 /\ recvMap[s] = 0 /\ fr.len \in Nat
      /\ fr.fin => UNCHANGED <<recvMap, recvOff>>
      /\ ~fr.fin => /\ recvMap' = [recvMap EXCEPT ![s] = fronts[s]] /\ recvOff' = [recvOff EXCEPT ![s] = fr.len]
      /\ reader' = Idle /\ UNCHANGED <<created, holes, fronts, strR, arrived>> BY <1>1, InsertCases
<1>3. reader'.pc = "idle" BY <1>2 DEF Idle
<1>4. ASSUME NEW t \in Streams PROVE (SeenOne(t))'
  <2>0. SeenOne(t) BY DEF SeenInv
  <2>1. CASE t = s
    <3>1. (IsClosed(s))' BY <1>2 DEF MapInv, FrontInv, IsClosed
    <3>2. fronts[s] <= 1 => arrived[s] = fr.len /\ strR[<<s, 1>>].used = fr.len BY <1>1, <1>2, <2>0, <2>1 DEF SeenOne
    <3>3. recvMap'[s] # 0 => recvOff'[s] = fr.len BY <1>2 DEF Types, ReaderTypes
    <3> QED BY <1>2, <1>3, <2>1, <3>1, <3>2, <3>3 DEF SeenOne, InFlight
  <2>2. CASE t # s
    <3>1. t \in Uni /\ IsClosed(t) => (IsClosed(t))' BY <1>2 DEF IsClosed
    <3>2. recvMap'[t] = recvMap[t] /\ recvOff'[t] = recvOff[t] BY <1>2, <2>2 DEF Types, ReaderTypes
    <3> QED BY <1>2, <1>3, <2>0, <2>2, <3>1, <3>2, SeenSame
  <2> QED BY <2>1, <2>2
<1> QED BY <1>4 DEF SeenInv

\* Taking a reset off the wire keeps the counts.
LEMMA SeenRecvReset ==
  ASSUME Types, SeenInv, Running, RecvReset
  PROVE  SeenInv'
<1>1. PICK g \in ResetFrames : g = Head(wireAB) BY RecvResetCases
<1>2. /\ reader.pc = "idle" /\ arrived' = arrived
      /\ \/ ResetLate(g.id) \/ ResetFail(g.id) \/ \E live \in BOOLEAN : ResetTake(g, live) BY <1>1, RecvResetCases
<1>3. CASE ResetFail(g.id) BY <1>3, FailEnds DEF ResetFail, SeenInv
<1>4. CASE ~ResetFail(g.id)
  <2>1. /\ UNCHANGED <<recvMap, recvOff, created, holes, fronts, strR>>
        /\ reader' = reader \/ \E live \in BOOLEAN : reader' = [Idle EXCEPT !.pc = "reset", !.frame = g, !.live = live]
    BY <1>2, <1>4 DEF ResetLate, ResetTake
  <2>2. reader'.pc \in {"idle", "reset"}
    <3>1. \A live \in BOOLEAN : [Idle EXCEPT !.pc = "reset", !.frame = g, !.live = live].pc = "reset" BY DEF Idle
    <3> QED BY <1>2, <2>1, <3>1
  <2>3. ASSUME NEW t \in Streams PROVE (SeenOne(t))'
    <3>1. SeenOne(t) /\ (t \in Uni /\ IsClosed(t) => (IsClosed(t))') BY <2>1 DEF SeenInv, IsClosed
    <3> QED BY <1>2, <2>1, <2>2, <3>1, SeenSame
  <2> QED BY <2>3 DEF SeenInv
<1> QED BY <1>3, <1>4

\* The bytes of a stream that is reset all arrived: its RESET_STREAM leaves no gap.
LEMMA NoGap ==
  ASSUME Types, WirePart, MapInv, SeenInv, Running, reader.pc = "reset",
         NEW s \in Streams, s = reader.frame.id, fronts[s] <= 1, recvMap[s] # 0
  PROVE  /\ Gap(s, reader.frame.final) = 0 /\ Final(s, reader.frame.final) = recvOff[s]
         /\ recvMap[s] = 1 /\ recvOff[s] \in Nat
<1>1. reader.frame.final = arrived[s] BY DEF WirePart, ReaderResetInv, ResetPcs
<1>2. recvOff[s] = arrived[s] BY DEF SeenInv, SeenOne, InFlight
<1>3. recvMap[s] = 1
  <2>1. recvMap[s] = fronts[s] /\ fronts[s] \in 1 .. MaxFronts BY Routed DEF MapInv
  <2> QED BY <2>1, FrontBound
<1>4. recvOff[s] \in Nat BY DEF Types, ReaderTypes
<1>5. Received(s) = recvOff[s] BY DEF Received
<1>6. Final(s, reader.frame.final) = recvOff[s] BY <1>1, <1>2, <1>4, <1>5 DEF Final
<1> QED BY <1>3, <1>4, <1>5, <1>6 DEF Gap

\* Accounting for a reset counts what never arrived.
LEMMA SeenAccount ==
  ASSUME Types, WirePart, MapInv, SeenInv, Running, AccountReset
  PROVE  SeenInv'
<1>1. PICK s, n : s = reader.frame.id /\ n = reader.frame.final OBVIOUS
<1>2. /\ reader.pc = "reset" /\ s \in Streams /\ n \in Nat /\ UNCHANGED arrived /\ Gap(s, n) \in Nat
      /\ (\E k \in {"panic", "flow"} : Fail(k)) \/ Account(s, n) BY <1>1, AccountCases DEF AccountFlow
<1>3. CASE \E k \in {"panic", "flow"} : Fail(k) BY <1>3, FailEnds DEF SeenInv
<1>4. CASE Account(s, n)
  <2>1. PICK gap, fin : gap = Gap(s, n) /\ fin = Final(s, n) OBVIOUS
  <2>2. /\ UNCHANGED <<recvMap, created, holes, fronts>>
        /\ reader.live => recvMap[s] # 0
        /\ strR' = IF reader.live THEN [strR EXCEPT ![<<s, recvMap[s]>>] = Receive(@, gap)] ELSE strR
        /\ recvOff' = IF reader.live THEN [recvOff EXCEPT ![s] = fin] ELSE recvOff BY <1>4, <2>1 DEF Account
  <2>3. PICK pc \in {"grant", "retire"} : reader' = [reader EXCEPT !.max = connR'.max, !.pc = pc] BY <1>4 DEF Account
  <2>4. reader'.pc = pc BY <2>3 DEF Types, ReaderTypes, ReaderStates
  <2>5. ASSUME NEW t \in Streams, fronts[t] <= 1
        PROVE  recvOff'[t] = recvOff[t] /\ strR'[<<t, 1>>].used = strR[<<t, 1>>].used
    <3>0. <<t, 1>> \in Fronts /\ strR[<<t, 1>>] \in CreditState /\ strR[<<t, 1>>].used \in Nat
      <4>1. <<t, 1>> \in Fronts /\ strR[<<t, 1>>] \in CreditState BY StreamFacts DEF Types, CreditTypes
      <4> QED BY <4>1, CreditFields
    <3>1. CASE t # s \/ ~reader.live BY <2>2, <3>0, <3>1 DEF Types, ReaderTypes, CreditTypes
    <3>2. CASE t = s /\ reader.live
      <4>1. gap = 0 /\ fin = recvOff[s] /\ recvMap[s] = 1 BY <1>1, <1>2, <2>1, <2>2, <2>5, <3>2, NoGap
      <4>2. strR'[<<s, 1>>] = Receive(strR[<<s, 1>>], 0) BY <2>2, <3>0, <3>2, <4>1 DEF Types, CreditTypes
      <4>3. strR'[<<s, 1>>].used = strR[<<s, 1>>].used + 0 BY <3>0, <3>2, <4>2, ReceiveFields
      <4>4. recvOff'[s] = recvOff[s] BY <1>2, <2>2, <3>2, <4>1 DEF Types, ReaderTypes
      <4> QED BY <3>0, <3>2, <4>3, <4>4
    <3> QED BY <3>1, <3>2
  <2>6. ASSUME NEW t \in Streams PROVE (SeenOne(t))'
    <3>1. CASE fronts[t] <= 1
      <4>1. SeenOne(t) /\ (t \in Uni /\ IsClosed(t) => (IsClosed(t))') BY <2>2 DEF SeenInv, IsClosed
      <4> QED BY <1>2, <2>2, <2>4, <2>5, <3>1, <4>1, SeenSame
    <3>2. CASE ~(fronts[t] <= 1) BY <2>2, <3>2 DEF SeenOne
    <3> QED BY <3>1, <3>2
  <2> QED BY <2>6 DEF SeenInv
<1> QED BY <1>2, <1>3, <1>4

\* Queueing a limit and retiring a stream keep the counts.
LEMMA SeenGrantRetire ==
  ASSUME Types, MapInv, SeenInv, Running, ReaderGrant \/ RetireReset
  PROVE  SeenInv'
<1>1. /\ reader.pc \in ResetPcs /\ UNCHANGED <<recvOff, fronts, strR, arrived>>
      /\ \A t \in Streams : recvMap'[t] \in {0, recvMap[t]}
      /\ \A t \in Uni : IsClosed(t) => (IsClosed(t))'
  <2>1. CASE ReaderGrant BY <2>1, GrantCases DEF ResetPcs, IsClosed
  <2>2. CASE RetireReset
    <3>1. PICK s \in Streams : RetireLive(s) \/ RetireOwn(s) \/ RetireUnseen(s) BY <2>2, RetireCases
    <3>2. reader.pc = "retire" /\ UNCHANGED <<recvOff, fronts, strR, arrived>> BY <2>2, RetireCases
    <3>3. \A t \in Streams : recvMap'[t] \in {0, recvMap[t]}
      BY <3>1 DEF RetireLive, RetireOwn, RetireUnseen, Types, ReaderTypes
    <3>4. \A t \in Uni : IsClosed(t) => (IsClosed(t))'
      <4>1. CASE RetireUnseen(s)
        <5>1. s \in Uni /\ Record(s) BY <4>1 DEF RetireUnseen
        <5> QED BY <5>1, RecordFacts DEF MapInv, FrontInv
      <4>2. CASE RetireLive(s) \/ RetireOwn(s) BY <4>2 DEF RetireLive, RetireOwn, IsClosed
      <4> QED BY <3>1, <4>1, <4>2
    <3> QED BY <3>2, <3>3, <3>4 DEF ResetPcs
  <2> QED BY <2>1, <2>2
<1>3. ASSUME NEW t \in Streams PROVE (SeenOne(t))'
  <2>1. SeenOne(t) BY DEF SeenInv
  <2>2. /\ reader.pc # "stream" /\ reader'.pc \notin {"stream", "accept", "insert"} BY <1>1, ReaderGoesOn DEF ResetPcs
  <2> QED BY <1>1, <2>1, <2>2, SeenSame
<1> QED BY <1>3 DEF SeenInv

----------------------------------------------------------------------------
(* What the application is given                                          *)

\* What a step of a RecvStream's owner does to the books: n bytes are handed out
\* and the window of the stream moves by as much.
LEMMA AppCredit ==
  ASSUME Types, NEW f \in Fronts, ReceiverApp(f)
  PROVE  \E n \in Nat :
           /\ got'[f] = got[f] + n /\ \A g \in Fronts : g # f => got'[g] = got[g] /\ strR'[g] = strR[g]
           /\ strR'[f] \in CreditState /\ strR'[f].used = strR[f].used /\ strR'[f].max >= strR[f].max
           /\ strR'[f].max + strR'[f].released = strR[f].max + strR[f].released + n
           /\ connR' \in CreditState /\ connR'.used = connR.used /\ connR'.max >= connR.max
           /\ n > 0 => \E max \in 1 .. Chunk : Read(f, max) /\ n = Taken(f, max)
<1>0. /\ strR \in [Fronts -> CreditState] /\ connR \in CreditState /\ got \in [Fronts -> Nat]
      /\ strR[f].used \in Nat /\ strR[f].max \in Nat /\ strR[f].released \in Nat
      /\ connR.used \in Nat /\ connR.max \in Nat /\ got[f] \in Nat BY CreditFields DEF Types, CreditTypes, AppTypes
<1>1. ASSUME NEW max \in 1 .. Chunk, Read(f, max)
      PROVE \E n \in Nat :
         /\ got'[f] = got[f] + n /\ \A g \in Fronts : g # f => got'[g] = got[g] /\ strR'[g] = strR[g]
         /\ strR'[f] \in CreditState /\ strR'[f].used = strR[f].used /\ strR'[f].max >= strR[f].max
         /\ strR'[f].max + strR'[f].released = strR[f].max + strR[f].released + n
         /\ connR' \in CreditState /\ connR'.used = connR.used /\ connR'.max >= connR.max
         /\ n > 0 => \E m \in 1 .. Chunk : Read(f, m) /\ n = Taken(f, m)
  <2>0. /\ Taken(f, max) \in Nat /\ got' = [got EXCEPT ![f] = @ + Taken(f, max)]
        /\ ReportConsumed(f, Taken(f, max)) \/ (Taken(f, max) = 0 /\ UNCHANGED <<strR, connR>>) BY <1>1, ReadCases
  <2>1. PICK n \in Nat : /\ n = Taken(f, max) /\ got' = [got EXCEPT ![f] = @ + n]
                         /\ ReportConsumed(f, n) \/ (n = 0 /\ UNCHANGED <<strR, connR>>) BY <2>0
  <2>2. got'[f] = got[f] + n /\ \A g \in Fronts : g # f => got'[g] = got[g] BY <1>0, <2>1
  <2>3. CASE ReportConsumed(f, n)
    <3>1. strR' = [strR EXCEPT ![f] = Consume(@, n)] /\ connR' = Consume(connR, n) BY <2>3 DEF ReportConsumed
    <3>2. PICK c, d : c = Consume(strR[f], n) /\ d = Consume(connR, n) OBVIOUS
    <3>3. /\ c \in CreditState /\ c.used = strR[f].used /\ c.max >= strR[f].max
          /\ c.max + c.released = strR[f].max + strR[f].released + n
          /\ d \in CreditState /\ d.used = connR.used /\ d.max >= connR.max BY <1>0, <3>2, ConsumeMovesWindow
    <3>4. strR'[f] = c /\ (\A g \in Fronts : g # f => strR'[g] = strR[g]) /\ connR' = d BY <1>0, <3>1, <3>2
    <3> QED BY <1>1, <2>1, <2>2, <3>3, <3>4
  <2>4. CASE n = 0 /\ UNCHANGED <<strR, connR>> BY <1>0, <1>1, <2>1, <2>2, <2>4
  <2> QED BY <2>1, <2>3, <2>4
<1>2. CASE ~ \E max \in 1 .. Chunk : Read(f, max)
  <2>1. UNCHANGED <<strR, connR, got>>
    BY <1>2 DEF ReceiverApp, ReadReset, AwaitClosed, Stop, DropRecv, SendPending, creditVars
  <2>2. 0 \in Nat /\ ~(0 > 0) OBVIOUS
  <2> QED BY <1>0, <2>1, <2>2
<1> QED BY <1>1, <1>2

\* The counts start right.
LEMMA InitSeen == Init => SeenInv
<1> SUFFICES ASSUME Init, NEW s \in Streams PROVE SeenOne(s) BY DEF SeenInv
<1>1. reader.pc = "idle" /\ arrived[s] = 0 /\ recvOff[s] = 0 BY DEF Init, Idle
<1>2. strR[<<s, 1>>].used = 0 BY StreamFacts DEF Init, NewCredit
<1> QED BY <1>1, <1>2 DEF SeenOne, InFlight

\* Every step keeps the counts.
LEMMA NextSeen ==
  ASSUME Core, SeenInv, [Next]_vars
  PROVE  SeenInv'
<1> USE DEF Core
<1>1. CASE UNCHANGED vars BY <1>1 DEF vars, readerVars, creditVars, SeenInv, SeenOne, Running, InFlight, IsClosed
<1>2. ASSUME (\E s \in Streams : SenderApp(s)) \/ SenderWriter \/ SenderReader \/ Accept
      PROVE SeenInv'
  <2>1. Running /\ UNCHANGED <<recvMap, recvOff, created, holes, reader, arrived, fronts, strR>>
    BY <1>2 DEF SenderApp, SenderWriter, SenderReader, Accept, AcceptUni, readerVars, creditVars
  <2> QED BY <2>1, SeenOthers
<1>3. CASE ReceiverReader
  <2>1. Running /\ UNCHANGED senderVars BY <1>3 DEF ReceiverReader
  <2> QED BY <1>3, <2>1, SeenRecvStream, SeenRoute, SeenOffer, SeenInsert, SeenRecvReset, SeenAccount, SeenGrantRetire
      DEF ReceiverReader
<1>4. CASE ReceiverWriter
  <2>1. /\ Running /\ UNCHANGED <<recvOff, created, holes, reader, arrived, fronts, strR>>
        /\ recvMap' = IF Head(control).type = "stop" THEN [recvMap EXCEPT ![Head(control).id] = 0] ELSE recvMap
    BY <1>4 DEF ReceiverWriter, TransmitControl, creditVars
  <2>2. \A s \in Streams : recvMap'[s] \in {0, recvMap[s]} BY <2>1 DEF Types, ReaderTypes
  <2> QED BY <2>1, <2>2, SeenOthers
<1>5. ASSUME NEW f \in Fronts, ReceiverApp(f) PROVE SeenInv'
  <2>1. Running /\ UNCHANGED <<recvMap, recvOff, created, holes, reader, arrived, fronts>>
    BY <1>5, ReceiverAppFrame DEF ReceiverApp, AppFrame
  <2>2. \A g \in Fronts : strR'[g].used = strR[g].used BY <1>5, AppCredit
  <2> QED BY <2>1, <2>2, SeenOthers, StreamFacts
<1> QED BY <1>1, <1>2, <1>3, <1>4, <1>5 DEF Next

\* A stream whose RecvStream the step does not concern.
LEMMA DeliverSame ==
  ASSUME Types, NEW t \in Streams, DeliverOne(t),
         fronts'[t] <= 1 => fronts[t] <= 1,
         LET f == <<t, 1>>
         IN  /\ rx'[f].st # "dropped" => rx[f].st # "dropped"
             /\ rx'[f].data = rx[f].data /\ rx'[f].buf = rx[f].buf /\ got'[f] = got[f],
         fronts[t] <= 1 /\ recvMap'[t] # 0 => recvMap[t] # 0 /\ recvOff'[t] = recvOff[t]
  PROVE  (DeliverOne(t))' BY DEF DeliverOne, Chain

\* The part of DeliverInv about recorded gaps.
DeliverFrame ==
  /\ \A f \in hole : f[2] <= fronts[f[1]]
  /\ \A s \in Streams : fronts[s] <= 1 => <<s, 1>> \notin hole

\* A step that records no gap keeps it so.
LEMMA HoleSame ==
  ASSUME Types, DeliverFrame, hole' = hole, \A s \in Streams : fronts'[s] >= fronts[s] /\ fronts'[s] \in Nat
  PROVE  DeliverFrame'
<1>1. /\ \A f \in hole : f[1] \in Streams /\ f[2] \in Nat
      /\ \A s \in Streams : fronts[s] \in Nat BY StreamFacts DEF Types, AppTypes, ReaderTypes
<1> QED BY <1>1 DEF DeliverFrame

\* A read returns the bytes after the ones returned before.
LEMMA DeliverRead ==
  ASSUME Core, DeliverFrame, \A s \in Streams : DeliverOne(s),
         NEW f \in Fronts, NEW max \in 1 .. Chunk, Read(f, max)
  PROVE  DeliverFrame' /\ \A s \in Streams : (DeliverOne(s))'
<1> USE DEF Core
<1>0. PICK b : b = Source(f) OBVIOUS
<1>1. PICK n \in Nat : /\ n = Taken(f, max) /\ b = Source(f) /\ n <= b.len /\ b.off \in Nat /\ b.len \in Nat
                       /\ rx[f].st = "held"
                       /\ rx[f].buf.len = 0 => rx[f].data # <<>>
                       /\ hole' = (IF b.off # got[f] THEN hole \cup {f} ELSE hole)
                       /\ got' = [got EXCEPT ![f] = @ + n]
                       /\ UNCHANGED <<recvMap, recvOff, fronts>> BY <1>0, ReadCases
<1>2. /\ \A g \in Fronts : g # f => rx'[g] = rx[g]
      /\ rx'[f].st = rx[f].st /\ rx'[f].buf.off = b.off + n /\ rx'[f].buf.len = b.len - n
      /\ rx[f].buf.len = 0 => rx'[f].data = Tail(rx[f].data)
      /\ rx[f].buf.len # 0 => rx'[f].data = rx[f].data BY <1>1, ReadEffect
<1>3. /\ rx[f].buf.len = 0 => b = Head(rx[f].data)
      /\ rx[f].buf.len # 0 => b = rx[f].buf BY <1>1 DEF Source
<1>4. /\ rx[f].data \in Seq(StreamFrames) /\ rx[f].buf.len \in Nat /\ got[f] \in Nat /\ rx[f].buf.off \in Nat
  BY RxFields DEF Types, AppTypes
<1>5. /\ got'[f] = got[f] + n /\ \A g \in Fronts : g # f => got'[g] = got[g] BY <1>1 DEF Types, AppTypes
<1>6. PICK s : s = f[1] OBVIOUS
<1>7. /\ s \in Streams /\ f = <<s, f[2]>> /\ f[2] \in Nat /\ f[2] >= 1 /\ fronts[s] \in Nat /\ f[2] <= fronts[s]
  <2>1. s \in Streams /\ f = <<s, f[2]>> /\ f[2] \in Nat /\ f[2] >= 1 BY <1>6, StreamFacts
  <2>2. fronts[s] \in Nat BY <2>1 DEF Types, ReaderTypes
  <2>3. f[2] <= fronts[s] BY <1>1, <1>6 DEF MapInv, FrontInv
  <2> QED BY <2>1, <2>2, <2>3
<1>8. ASSUME fronts[s] <= 1
      PROVE  b.off = got[f] /\ (DeliverOne(s))'
  <2>1. f = <<s, 1>> BY <1>7, <1>8
  <2>2. PICK hi \in Nat : /\ Chain(rx[f].data, got[f] + rx[f].buf.len, hi)
                          /\ recvMap[s] # 0 => hi = recvOff[s] BY <1>1, <1>7, <1>8, <2>1 DEF DeliverOne
  <2>3. CASE rx[f].buf.len = 0
    <3>1. b.off = got[f] /\ Chain(Tail(rx[f].data), got[f] + b.len, hi) BY <1>1, <1>3, <1>4, <2>2, <2>3, ChainTail
    <3>2. got'[f] + rx'[f].buf.len = got[f] + b.len /\ rx'[f].buf.off = got'[f] BY <1>1, <1>2, <1>4, <1>5, <3>1
    <3>3. Chain(rx'[f].data, got'[f] + rx'[f].buf.len, hi) BY <1>2, <2>3, <3>1, <3>2
    <3>4. /\ rx'[f].buf.len > 0 => rx'[f].buf.off = got'[f]
          /\ \E h \in Nat : Chain(rx'[f].data, got'[f] + rx'[f].buf.len, h) /\ (recvMap'[s] # 0 => h = recvOff'[s])
      BY <1>1, <2>2, <3>2, <3>3
    <3> QED BY <2>1, <3>1, <3>4 DEF DeliverOne, Chain
  <2>4. CASE rx[f].buf.len # 0
    <3>1. b.off = got[f] BY <1>1, <1>3, <1>4, <1>7, <1>8, <2>1, <2>4 DEF DeliverOne
    <3>2. got'[f] + rx'[f].buf.len = got[f] + rx[f].buf.len /\ rx'[f].buf.off = got'[f]
      BY <1>1, <1>2, <1>3, <1>4, <1>5, <2>4, <3>1
    <3>3. Chain(rx'[f].data, got'[f] + rx'[f].buf.len, hi) BY <1>2, <2>2, <2>4, <3>2
    <3>4. /\ rx'[f].buf.len > 0 => rx'[f].buf.off = got'[f]
          /\ \E h \in Nat : Chain(rx'[f].data, got'[f] + rx'[f].buf.len, h) /\ (recvMap'[s] # 0 => h = recvOff'[s])
      BY <1>1, <2>2, <3>2, <3>3
    <3> QED BY <2>1, <3>1, <3>4 DEF DeliverOne, Chain
  <2> QED BY <2>3, <2>4
<1>9. DeliverFrame'
  <2>1. \A g \in hole' : g \in hole \/ (g = f /\ b.off # got[f])
    <3>1. CASE b.off # got[f] BY <1>1, <3>1
    <3>2. CASE b.off = got[f] BY <1>1, <3>2
    <3> QED BY <3>1, <3>2
  <2>2. \A g \in hole' : g[2] <= fronts[g[1]] BY <1>6, <1>7, <2>1 DEF DeliverFrame
  <2>3. \A t \in Streams : fronts[t] <= 1 => <<t, 1>> \notin hole'
    <3> SUFFICES ASSUME NEW t \in Streams, fronts[t] <= 1, <<t, 1>> \in hole' PROVE FALSE OBVIOUS
    <3>1. <<t, 1>> \notin hole BY DEF DeliverFrame
    <3>2. <<t, 1>> = f /\ b.off # got[f] BY <2>1, <3>1
    <3>3. t = s BY <1>6, <3>2
    <3> QED BY <1>8, <3>2, <3>3
  <2> QED BY <1>1, <2>2, <2>3 DEF DeliverFrame
<1>10. ASSUME NEW t \in Streams PROVE (DeliverOne(t))'
  <2>1. CASE ~(fronts[t] <= 1) BY <1>1, <2>1 DEF DeliverOne
  <2>2. CASE t = s /\ fronts[t] <= 1 BY <1>8, <2>2
  <2>3. CASE t # s
    <3>1. <<t, 1>> \in Fronts /\ <<t, 1>> # f BY <1>7, <2>3, StreamFacts
    <3> QED BY <1>1, <1>2, <1>5, <3>1, DeliverSame
  <2> QED BY <2>1, <2>2, <2>3
<1> QED BY <1>9, <1>10

\* A step of the receiving application keeps the order of the bytes.
LEMMA DeliverApp ==
  ASSUME Core, DeliverFrame, \A s \in Streams : DeliverOne(s), "closed" \notin Calls,
         NEW f \in Fronts, ReceiverApp(f)
  PROVE  DeliverFrame' /\ \A s \in Streams : (DeliverOne(s))'
<1> USE DEF Core
<1>1. CASE \E max \in 1 .. Chunk : Read(f, max) BY <1>1, DeliverRead
<1>2. CASE ~ \E max \in 1 .. Chunk : Read(f, max)
  <2>1. UNCHANGED <<recvMap, recvOff, fronts, hole, got>>
    BY <1>2, ReceiverAppFrame, Zenon DEF ReceiverApp, AppFrame, ReadReset, AwaitClosed, Stop, DropRecv, SendPending
  <2>2. ReadReset(f) \/ Stop(f) \/ DropRecv(f) \/ SendPending(f) BY <1>2 DEF ReceiverApp, AwaitClosed
  <2>3. \A g \in Fronts : /\ rx'[g].st # "dropped" => rx[g].st # "dropped"
                          /\ rx'[g].st # "dropped" => rx'[g].data = rx[g].data /\ rx'[g].buf = rx[g].buf
    <3>0. rx[f] \in RxStates BY DEF Types, AppTypes
    <3>1. CASE ReadReset(f)
      <4>1. (\A g \in Fronts : g # f => rx'[g] = rx[g]) /\ rx'[f] = [rx[f] EXCEPT !.closed = "reset", !.reset = FALSE]
        BY <3>1, AppEffects, Zenon
      <4> QED BY <3>0, <4>1 DEF RxStates
    <3>2. CASE Stop(f)
      <4>1. (\A g \in Fronts : g # f => rx'[g] = rx[g]) /\ rx'[f] = [rx[f] EXCEPT !.closed = "stop"]
        BY <3>2, AppEffects, Zenon
      <4> QED BY <3>0, <4>1 DEF RxStates
    <3>3. CASE DropRecv(f)
      <4>1. (\A g \in Fronts : g # f => rx'[g] = rx[g]) /\ rx'[f].st = "dropped"
        <5>1. PICK c : c = IF rx[f].fin \/ rx[f].closed # "no" THEN rx[f].closed ELSE "stop" OBVIOUS
        <5>2. /\ \A g \in Fronts : g # f => rx'[g] = rx[g]
              /\ rx'[f] = [rx[f] EXCEPT !.st = "dropped", !.data = <<>>, !.buf = [off |-> 0, len |-> 0], !.closed = c]
          BY <3>3, <5>1, AppEffects, Zenon
        <5> QED BY <3>0, <5>2 DEF RxStates
      <4> QED BY <4>1
    <3>4. CASE SendPending(f) BY <3>4 DEF SendPending
    <3> QED BY <2>2, <3>1, <3>2, <3>3, <3>4
  <2>4. ASSUME NEW t \in Streams PROVE (DeliverOne(t))'
    <3>0. <<t, 1>> \in Fronts BY StreamFacts
    <3>1. CASE rx'[<<t, 1>>].st = "dropped" BY <3>1 DEF DeliverOne
    <3>2. CASE rx'[<<t, 1>>].st # "dropped" BY <2>1, <2>3, <3>0, <3>2, DeliverSame
    <3> QED BY <3>1, <3>2
  <2>5. DeliverFrame' BY <2>1 DEF DeliverFrame
  <2> QED BY <2>4, <2>5
<1> QED BY <1>1, <1>2

\* A step of the reader keeps the order of the bytes: a frame is queued behind
\* the one it continues.
LEMMA DeliverReader ==
  ASSUME Core, SeenInv, Running, Running', DeliverFrame, \A s \in Streams : DeliverOne(s), ReceiverReader
  PROVE  DeliverFrame' /\ \A s \in Streams : (DeliverOne(s))'
<1> USE DEF Core
<1>0. UNCHANGED <<got, hole>> /\ \A t \in Streams : <<t, 1>> \in Fronts BY StreamFacts DEF ReceiverReader
<1>00. \A t \in Streams : fronts[t] \in Nat BY DEF Types, ReaderTypes
<1>1. ASSUME UNCHANGED fronts,
             \A t \in Streams :
               LET f == <<t, 1>>
               IN  /\ rx'[f].st # "dropped" => rx[f].st # "dropped"
                   /\ rx'[f].data = rx[f].data /\ rx'[f].buf = rx[f].buf,
             \A t \in Streams : fronts[t] <= 1 /\ recvMap'[t] # 0 => recvMap[t] # 0 /\ recvOff'[t] = recvOff[t]
      PROVE  DeliverFrame' /\ \A s \in Streams : (DeliverOne(s))'
  <2>1. ASSUME NEW t \in Streams PROVE (DeliverOne(t))' BY <1>0, <1>1, DeliverSame
  <2> QED BY <1>0, <1>1, <2>1 DEF DeliverFrame
<1>2. CASE RecvStream
  <2>1. UNCHANGED <<recvMap, recvOff, fronts, rx>> BY <1>2, RecvStreamCases DEF TakeLate, TakeFail, Take, Fail
  <2> QED BY <1>1, <2>1
<1>3. CASE RecvReset
  <2>1. UNCHANGED <<recvMap, recvOff, fronts, rx>> BY <1>3, RecvResetCases DEF ResetLate, ResetFail, ResetTake, Fail
  <2> QED BY <1>1, <2>1
<1>4. CASE ReaderGrant BY <1>1, <1>4, GrantCases
<1>5. CASE OfferStream
  <2>1. PICK f : f = <<reader.frame.id, fronts[reader.frame.id]>> OBVIOUS
  <2>2. /\ UNCHANGED <<recvMap, recvOff, fronts>> /\ rx' = [rx EXCEPT ![f].st = "queued"] /\ reader.pc = "accept"
    BY <1>5, <2>1 DEF OfferStream
  <2>3. f \in Fronts
    <3>1. reader.frame.id \in Streams BY <2>2, ReaderFields DEF Types, StreamPcs
    <3>2. fronts[reader.frame.id] \in 1 .. MaxFronts BY <2>2, <3>1, FrontBound DEF ReaderMapInv, Types, ReaderTypes
    <3> QED BY <2>1, <3>1, <3>2, FrontOf
  <2>4. rx[f].st = "none" BY <2>1, <2>2 DEF ReaderMapInv
  <2>5. \A g \in Fronts : /\ rx'[g].st # "dropped" => rx[g].st # "dropped"
                          /\ rx'[g].data = rx[g].data /\ rx'[g].buf = rx[g].buf BY <2>2, <2>3, <2>4, RxMoves
  <2> QED BY <1>0, <1>1, <2>2, <2>5
<1>6. CASE RetireReset
  <2>1. PICK s \in Streams : /\ RetireLive(s) \/ RetireOwn(s) \/ RetireUnseen(s)
                             /\ recvMap[s] # 0 => <<s, recvMap[s]>> \in Fronts BY <1>6, RetireCases
  <2>2. UNCHANGED <<fronts, recvOff>> BY <1>6, RetireCases
  <2>3. \A t \in Streams : recvMap'[t] \in {0, recvMap[t]}
    BY <2>1 DEF RetireLive, RetireOwn, RetireUnseen, Types, ReaderTypes
  <2>4. \A g \in Fronts : /\ rx'[g].st = rx[g].st /\ rx'[g].data = rx[g].data /\ rx'[g].buf = rx[g].buf
    <3>1. CASE rx' = rx BY <3>1
    <3>2. CASE rx' # rx
      <4>1. recvMap[s] # 0 /\ rx' = [rx EXCEPT ![<<s, recvMap[s]>>].reset = TRUE]
        BY <2>1, <3>2 DEF RetireLive, RetireOwn, RetireUnseen
      <4>2. PICK f \in Fronts : f = <<s, recvMap[s]>> BY <2>1, <4>1
      <4> QED BY <4>1, <4>2, RxResets
    <3> QED BY <3>1, <3>2
  <2> QED BY <1>0, <1>1, <2>2, <2>3, <2>4
<1>7. CASE AccountReset
  <2>1. PICK s, n : s = reader.frame.id /\ n = reader.frame.final OBVIOUS
  <2>2. reader.pc = "reset" /\ s \in Streams /\ Account(s, n)
    <3>1. ~ \E k \in {"panic", "flow"} : Fail(k) BY FailEnds
    <3> QED BY <1>7, <2>1, <3>1, AccountCases DEF AccountFlow
  <2>3. /\ UNCHANGED <<recvMap, fronts, rx>> /\ (reader.live => recvMap[s] # 0)
        /\ recvOff' = IF reader.live THEN [recvOff EXCEPT ![s] = Final(s, n)] ELSE recvOff BY <2>2 DEF Account
  <2>4. \A t \in Streams : fronts[t] <= 1 => recvOff'[t] = recvOff[t]
    <3> TAKE t \in Streams
    <3> HAVE fronts[t] <= 1
    <3>1. CASE t = s /\ reader.live
      <4>1. Final(s, n) = recvOff[s] BY <2>1, <2>2, <2>3, <3>1, NoGap
      <4> QED BY <2>2, <2>3, <3>1, <4>1 DEF Types, ReaderTypes
    <3>2. CASE ~(t = s /\ reader.live) BY <2>3, <3>2 DEF Types, ReaderTypes
    <3> QED BY <3>1, <3>2
  <2> QED BY <1>1, <2>3, <2>4
<1>8. CASE InsertStream
  <2>1. PICK fr, s, f : fr = reader.frame /\ s = fr.id /\ f = <<s, fronts[s]>> OBVIOUS
  <2>2. /\ reader.pc = "insert" /\ fr \in StreamFrames /\ s \in Streams /\ f \in Fronts
        /\ fronts[s] > 0 /\ recvMap[s] = 0 /\ Fresh(f) /\ fr.len \in Nat
        /\ rx' = IF fr.len = 0 /\ ~fr.fin THEN rx ELSE Deliver(f, fr)
        /\ fr.fin => UNCHANGED <<recvMap, recvOff>>
        /\ ~fr.fin => /\ recvMap' = [recvMap EXCEPT ![s] = fronts[s]] /\ recvOff' = [recvOff EXCEPT ![s] = fr.len]
        /\ UNCHANGED fronts BY <1>8, <2>1, InsertCases
  <2>3. /\ \A g \in Fronts : g # f => rx'[g] = rx[g]
        /\ rx'[f].st = rx[f].st /\ rx'[f].buf = rx[f].buf
        /\ \/ rx'[f].data = rx[f].data /\ (rx[f].st = "dropped" \/ fr.len = 0)
           \/ rx'[f].data = Append(rx[f].data, fr) BY <2>2, Hands
  <2>4. ASSUME NEW t \in Streams PROVE (DeliverOne(t))'
    <3>1. CASE t # s
      <4>1. <<t, 1>> # f /\ recvMap'[t] = recvMap[t] /\ recvOff'[t] = recvOff[t]
        BY <2>1, <2>2, <3>1 DEF Types, ReaderTypes
      <4> QED BY <1>0, <2>2, <2>3, <4>1, DeliverSame
    <3>2. CASE t = s /\ ~(fronts[s] <= 1) BY <2>2, <3>2 DEF DeliverOne
    <3>3. CASE t = s /\ fronts[s] <= 1
      <4>1. f = <<s, 1>> BY <1>00, <2>1, <2>2, <3>3
      <4>2. fr.off = 0 BY <2>1, <2>2, <3>3 DEF SeenInv, SeenOne
      <4>3. rx[f].data = <<>> /\ rx[f].buf.len = 0 /\ got[f] = 0 BY <2>2 DEF Fresh
      <4>4. Chain(<<>>, 0, 0) /\ <<>> \in Seq(StreamFrames) BY DEF Chain
      <4>5. Chain(Append(<<>>, fr), 0, 0 + fr.len) BY <2>2, <4>2, <4>4, ChainAppend
      <4>6. recvMap'[s] # 0 => recvOff'[s] = fr.len BY <2>2 DEF Types, ReaderTypes
      <4>7. rx[f].st = "dropped" \/ Chain(rx'[f].data, 0, fr.len) BY <2>2, <2>3, <4>3, <4>4, <4>5
      <4>8. got'[f] = 0 /\ rx'[f].buf.len = 0 /\ got'[f] + rx'[f].buf.len = 0 BY <1>0, <2>3, <4>3
      <4>9. rx'[f].st # "dropped" => Chain(rx'[f].data, got'[f] + rx'[f].buf.len, fr.len) BY <2>3, <4>7, <4>8
      <4>10. rx'[f].st # "dropped" => \E h \in Nat : Chain(rx'[f].data, got'[f] + rx'[f].buf.len, h) /\ (recvMap'[s] # 0 => h = recvOff'[s])
        BY <2>2, <4>6, <4>9
      <4> QED BY <3>3, <4>1, <4>8, <4>10 DEF DeliverOne, Chain
    <3> QED BY <3>1, <3>2, <3>3
  <2> QED BY <1>0, <2>2, <2>4 DEF DeliverFrame
<1>9. CASE RouteStream
  <2>1. PICK fr, s : fr = reader.frame /\ s = fr.id OBVIOUS
  <2>2. /\ reader.pc = "stream" /\ s \in Streams /\ fr \in StreamFrames /\ fr.len \in Nat /\ fr.off \in Nat
        /\ \/ RouteLive(s, <<s, recvMap[s]>>, fr) \/ RouteOwn(s) \/ RouteFail(s, <<s, recvMap[s]>>, fr)
           \/ RouteNew(s, fr) BY <1>9, <2>1, RouteCases
  <2>3. CASE RouteOwn(s)
    <3>1. UNCHANGED <<recvMap, recvOff, fronts, rx>> BY <2>3 DEF RouteOwn
    <3> QED BY <1>1, <3>1
  <2>4. CASE RouteFail(s, <<s, recvMap[s]>>, fr) BY <2>4, FailEnds DEF RouteFail
  <2>5. CASE RouteNew(s, fr)
    <3>1. UNCHANGED <<recvMap, recvOff, rx>> /\ fronts' = [fronts EXCEPT ![s] = @ + 1] BY <2>5 DEF RouteNew
    <3>2. \A t \in Streams : fronts'[t] >= fronts[t] /\ fronts'[t] \in Nat BY <1>00, <3>1 DEF Types, ReaderTypes
    <3>3. ASSUME NEW t \in Streams PROVE (DeliverOne(t))'
      <4>1. fronts'[t] <= 1 => fronts[t] <= 1 BY <1>00, <3>2
      <4> QED BY <1>0, <3>1, <4>1, DeliverSame
    <3> QED BY <1>0, <3>2, <3>3, HoleSame
  <2>6. CASE RouteLive(s, <<s, recvMap[s]>>, fr)
    <3>1. PICK f : f = <<s, recvMap[s]>> OBVIOUS
    <3>2. /\ recvMap[s] # 0 /\ recvOff' = [recvOff EXCEPT ![s] = @ + fr.len]
          /\ rx' = IF fr.len = 0 /\ ~fr.fin THEN rx ELSE Deliver(f, fr)
          /\ recvMap' = IF fr.fin THEN [recvMap EXCEPT ![s] = 0] ELSE recvMap
          /\ UNCHANGED fronts BY <2>6, <3>1 DEF RouteLive
    <3>3. f \in Fronts /\ recvMap[s] = fronts[s] /\ fronts[s] \in 1 .. MaxFronts BY <2>2, <3>1, <3>2, Routed DEF MapInv
    <3>4. /\ \A g \in Fronts : g # f => rx'[g] = rx[g]
          /\ rx'[f].st = rx[f].st /\ rx'[f].buf = rx[f].buf
          /\ \/ rx'[f].data = rx[f].data /\ (rx[f].st = "dropped" \/ fr.len = 0)
             \/ rx'[f].data = Append(rx[f].data, fr) BY <2>2, <3>2, <3>3, Hands
    <3>5. /\ recvOff[s] \in Nat /\ recvOff'[s] = recvOff[s] + fr.len
          /\ \A t \in Streams : t # s => recvOff'[t] = recvOff[t] /\ recvMap'[t] = recvMap[t]
      BY <2>2, <3>2 DEF Types, ReaderTypes
    <3>6. ASSUME NEW t \in Streams PROVE (DeliverOne(t))'
      <4>1. CASE t # s
        <5>1. <<t, 1>> # f BY <3>1, <4>1
        <5> QED BY <1>0, <3>2, <3>4, <3>5, <4>1, <5>1, DeliverSame
      <4>2. CASE t = s /\ ~(fronts[s] <= 1) BY <3>2, <4>2 DEF DeliverOne
      <4>3. CASE t = s /\ fronts[s] <= 1
        <5>1. f = <<s, 1>> BY <1>00, <2>2, <3>1, <3>3, <4>3
        <5>2. fr.off = recvOff[s] BY <2>1, <2>2, <3>2, <4>3 DEF SeenInv, SeenOne, InFlight
        <5>3. CASE rx[f].st = "dropped" BY <3>4, <4>3, <5>1, <5>3 DEF DeliverOne
        <5>4. CASE rx[f].st # "dropped"
          <6>1. /\ rx[f].buf.len > 0 => rx[f].buf.off = got[f]
                /\ Chain(rx[f].data, got[f] + rx[f].buf.len, recvOff[s]) BY <2>2, <3>2, <4>3, <5>1, <5>4 DEF DeliverOne
          <6>2. rx[f].data \in Seq(StreamFrames) /\ got[f] \in Nat /\ rx[f].buf.len \in Nat /\ got[f] + rx[f].buf.len \in Nat
            BY <3>3, RxFields DEF Types, AppTypes
          <6>3. Chain(Append(rx[f].data, fr), got[f] + rx[f].buf.len, recvOff[s] + fr.len)
            BY <2>2, <3>5, <5>2, <6>1, <6>2, ChainAppend
          <6>4. Chain(rx'[f].data, got[f] + rx[f].buf.len, recvOff'[s])
            <7>1. CASE rx'[f].data = Append(rx[f].data, fr) BY <3>5, <6>3, <7>1
            <7>2. CASE rx'[f].data = rx[f].data /\ fr.len = 0 BY <3>5, <6>1, <7>2
            <7> QED BY <3>4, <5>4, <7>1, <7>2
          <6>5. recvOff'[s] \in Nat BY <2>2, <3>5
          <6>6. /\ rx'[f].buf.len > 0 => rx'[f].buf.off = got'[f]
                /\ Chain(rx'[f].data, got'[f] + rx'[f].buf.len, recvOff'[s]) BY <1>0, <3>4, <6>1, <6>4
          <6>7. \E h \in Nat : Chain(rx'[f].data, got'[f] + rx'[f].buf.len, h) /\ (recvMap'[s] # 0 => h = recvOff'[s])
            BY <6>5, <6>6
          <6> QED BY <4>3, <5>1, <6>6, <6>7 DEF DeliverOne, Chain
        <5> QED BY <5>3, <5>4
      <4> QED BY <4>1, <4>2, <4>3
    <3> QED BY <1>0, <3>2, <3>6 DEF DeliverFrame
  <2> QED BY <2>2, <2>3, <2>4, <2>5, <2>6
<1> QED BY <1>2, <1>3, <1>4, <1>5, <1>6, <1>7, <1>8, <1>9 DEF ReceiverReader

----------------------------------------------------------------------------
(* Bytes are given in order                                               *)

\* The reader makes RecvStreams and takes none away.
LEMMA FrontsGrow ==
  ASSUME Types, ReceiverReader
  PROVE  \A s \in Streams : fronts'[s] >= fronts[s] /\ fronts'[s] \in Nat /\ fronts[s] \in Nat
<1>0. \A s \in Streams : fronts[s] \in Nat BY DEF Types, ReaderTypes
<1>1. CASE RecvStream
  <2>1. fronts' = fronts BY <1>1, RecvStreamCases DEF TakeLate, TakeFail, Take, Fail
  <2> QED BY <1>0, <2>1
<1>2. CASE RouteStream
  <2>1. PICK s \in Streams : s = reader.frame.id BY <1>2, RouteCases
  <2>2. \/ RouteLive(s, <<s, recvMap[s]>>, reader.frame) \/ RouteOwn(s)
        \/ RouteFail(s, <<s, recvMap[s]>>, reader.frame) \/ RouteNew(s, reader.frame) BY <1>2, <2>1, RouteCases
  <2>3. fronts' = fronts \/ fronts' = [fronts EXCEPT ![s] = @ + 1]
    BY <2>2 DEF RouteLive, RouteOwn, RouteFail, RouteNew, Fail
  <2>4. \A t \in Streams : fronts'[t] = fronts[t] \/ fronts'[t] = fronts[t] + 1 BY <2>3 DEF Types, ReaderTypes
  <2> QED BY <1>0, <2>4
<1>3. CASE OfferStream \/ InsertStream \/ ReaderGrant BY <1>0, <1>3 DEF OfferStream, InsertStream, ReaderGrant
<1>4. CASE RecvReset
  <2>1. fronts' = fronts BY <1>4, RecvResetCases DEF ResetLate, ResetFail, ResetTake, Fail
  <2> QED BY <1>0, <2>1
<1>5. CASE AccountReset
  <2>1. fronts' = fronts BY <1>5, AccountCases DEF AccountFlow, Account, Fail
  <2> QED BY <1>0, <2>1
<1>6. CASE RetireReset BY <1>0, <1>6 DEF RetireReset
<1> QED BY <1>1, <1>2, <1>3, <1>4, <1>5, <1>6 DEF ReceiverReader

\* The order of the bytes is right at the start.
LEMMA InitDeliver == Init => DeliverInv
<1> SUFFICES ASSUME Init PROVE DeliverInv OBVIOUS
<1>1. hole = {} BY DEF Init
<1>2. ASSUME NEW s \in Streams PROVE DeliverOne(s)
  <2>1. <<s, 1>> \in Fronts BY StreamFacts
  <2>2. rx[<<s, 1>>].data = <<>> /\ rx[<<s, 1>>].buf.len = 0 /\ got[<<s, 1>>] = 0 /\ recvOff[s] = 0 BY <2>1 DEF Init
  <2>3. Chain(<<>>, 0 + 0, 0) BY DEF Chain
  <2> QED BY <2>2, <2>3 DEF DeliverOne
<1> QED BY <1>1, <1>2 DEF DeliverInv

\* Every step keeps the order of the bytes.
LEMMA NextDeliver ==
  ASSUME Core, SeenInv, DeliverInv, [Next]_vars
  PROVE  DeliverInv'
<1> USE DEF Core
<1>0. SUFFICES ASSUME "closed" \notin Calls
               PROVE  DeliverFrame' /\ (Running' => \A s \in Streams : (DeliverOne(s))') BY DEF DeliverInv, DeliverFrame
<1>1. DeliverFrame /\ (Running => \A s \in Streams : DeliverOne(s)) BY <1>0 DEF DeliverInv, DeliverFrame
<1>2. CASE UNCHANGED vars BY <1>1, <1>2 DEF vars, readerVars, appVars, DeliverFrame, DeliverOne, Chain, Running
<1>3. ASSUME (\E s \in Streams : SenderApp(s)) \/ SenderWriter \/ SenderReader
      PROVE DeliverFrame' /\ \A s \in Streams : (DeliverOne(s))'
  <2>1. Running /\ UNCHANGED <<recvMap, recvOff, fronts, rx, got, hole>>
    BY <1>3 DEF SenderApp, SenderWriter, SenderReader, readerVars, appVars
  <2> QED BY <1>1, <2>1 DEF DeliverFrame, DeliverOne, Chain
<1>4. CASE Accept
  <2>1. /\ Running /\ UNCHANGED <<recvMap, recvOff, fronts, got, hole>>
        /\ acceptQ # <<>> /\ rx' = [rx EXCEPT ![Head(acceptQ)].st = "held"] BY <1>4 DEF Accept, AcceptUni
  <2>2. PICK f \in Fronts : f = Head(acceptQ) /\ f = acceptQ[1] /\ 1 \in 1 .. Len(acceptQ)
    BY <2>1, SeqTail DEF Types, ReaderTypes
  <2>3. rx[f].st = "queued" BY <2>2 DEF MapInv, AcceptInv
  <2>4. \A g \in Fronts : /\ rx'[g].st # "dropped" => rx[g].st # "dropped"
                          /\ rx'[g].data = rx[g].data /\ rx'[g].buf = rx[g].buf BY <2>1, <2>2, <2>3, RxMoves DEF Types
  <2>5. ASSUME NEW t \in Streams PROVE (DeliverOne(t))'
    <3>1. <<t, 1>> \in Fronts BY StreamFacts
    <3> QED BY <1>1, <2>1, <2>4, <3>1, DeliverSame
  <2> QED BY <1>1, <2>1, <2>5 DEF DeliverFrame
<1>5. CASE ReceiverWriter
  <2>1. /\ Running /\ UNCHANGED <<recvOff, fronts, rx, got, hole>>
        /\ recvMap' = IF Head(control).type = "stop" THEN [recvMap EXCEPT ![Head(control).id] = 0] ELSE recvMap
    BY <1>5 DEF ReceiverWriter, TransmitControl, appVars
  <2>2. \A s \in Streams : recvMap'[s] \in {0, recvMap[s]} BY <2>1 DEF Types, ReaderTypes
  <2>3. ASSUME NEW t \in Streams PROVE (DeliverOne(t))' BY <1>1, <2>1, <2>2, DeliverSame
  <2> QED BY <1>1, <2>1, <2>3 DEF DeliverFrame
<1>6. ASSUME NEW f \in Fronts, ReceiverApp(f) PROVE DeliverFrame' /\ \A s \in Streams : (DeliverOne(s))'
  <2>1. Running BY <1>6 DEF ReceiverApp
  <2> QED BY <1>0, <1>1, <1>6, <2>1, DeliverApp
<1>7. CASE ReceiverReader
  <2>1. Running /\ hole' = hole BY <1>7 DEF ReceiverReader
  <2>2. DeliverFrame' BY <1>1, <1>7, <2>1, FrontsGrow, HoleSame
  <2>3. ASSUME Running' PROVE \A s \in Streams : (DeliverOne(s))' BY <1>1, <1>7, <2>1, <2>3, DeliverReader
  <2> QED BY <2>2, <2>3
<1> QED BY <1>2, <1>3, <1>4, <1>5, <1>6, <1>7 DEF Next

\* DeliverInv gives DeliveredInOrder.
LEMMA DeliverMeans == Core /\ DeliverInv => DeliveredInOrder
<1> SUFFICES ASSUME Core, DeliverInv, NoResurrection, "closed" \notin Calls, NEW f \in hole PROVE FALSE
  BY DEF DeliveredInOrder
<1>1. f \in Fronts /\ f[1] \in Streams /\ f = <<f[1], f[2]>> /\ f[2] \in 1 .. MaxFronts /\ f[2] \in Nat
  BY StreamFacts DEF Core, Types, AppTypes
<1>2. fronts[f[1]] <= 1 /\ fronts[f[1]] \in Nat
  <2>1. f[1] \in Uni => fronts[f[1]] <= 1 BY DEF NoResurrection
  <2>2. f[1] \notin Uni => fronts[f[1]] = 1 BY <1>1, StreamFacts DEF Core, MapInv, FrontInv
  <2>3. fronts[f[1]] \in Nat BY <1>1 DEF Core, Types, ReaderTypes
  <2> QED BY <2>1, <2>2, <2>3
<1>3. f[2] <= fronts[f[1]] BY DEF DeliverInv
<1>4. f = <<f[1], 1>> BY <1>1, <1>2, <1>3, FrontBound
<1> QED BY <1>1, <1>2, <1>4 DEF DeliverInv

\* The bytes a RecvStream hands out are the bytes the peer wrote, in order,
\* none missing and none twice, although recv_frame appends frames by arrival
\* and never looks at an offset (unless the application awaits
\* RecvStream::closed, which throws unread bytes away, or a stopped stream
\* comes to life a second time).
THEOREM InOrder == Spec => []DeliveredInOrder
<1>1. Init => SeenInv /\ DeliverInv BY InitSeen, InitDeliver
<1>2. Core /\ (SeenInv /\ DeliverInv) /\ [Next]_vars => (SeenInv /\ DeliverInv)' BY NextSeen, NextDeliver
<1>3. Core /\ (SeenInv /\ DeliverInv) => DeliveredInOrder BY DeliverMeans
<1> QED BY <1>1, <1>2, <1>3, CoreHolds, PTL DEF Spec

----------------------------------------------------------------------------
\* No frames carry no bytes.
LEMMA NoBytes == Bytes(<<>>) = 0
<1>1. <<>> \in Seq(StreamFrames) OBVIOUS
<1> QED BY <1>1, BytesFacts

\* A claim raises what is used, and nothing else.
LEMMA ClaimFields ==
  ASSUME NEW c \in CreditState, NEW n \in Nat, NEW d, d = Claim(c, n)
  PROVE  d \in CreditState /\ d.used = c.used + n /\ d.max = c.max /\ d.released = c.released BY DEF CreditState, Claim

\* The sending end's books of each stream start right.
LEMMA InitStreamBooks == Init => StreamAccounting
<1> SUFFICES ASSUME Init, NEW s \in Streams PROVE strS[s].used = wired[s] + Bytes(queue[s]) BY DEF StreamAccounting
<1>1. strS[s].used = 0 /\ wired[s] = 0 /\ queue[s] = <<>> BY DEF Init, NewCredit
<1>2. Bytes(<<>>) = 0 BY NoBytes
<1> QED BY <1>1, <1>2

\* A stream credit and what it covers change together.
LEMMA StreamBooks ==
  ASSUME Types, StreamAccounting, NEW s \in Streams,
         \A t \in Streams : t # s => strS'[t].used = strS[t].used /\ wired'[t] = wired[t] /\ queue'[t] = queue[t],
         strS'[s].used = wired'[s] + Bytes(queue'[s])
  PROVE  StreamAccounting' BY DEF StreamAccounting

\* Giving a stream up returns the credit of what it had queued, and no more.
LEMMA AbandonBooks ==
  ASSUME Types, StreamAccounting, NEW s \in Streams, NEW why, Abandon(s, why), UNCHANGED wired
  PROVE  /\ StreamAccounting' /\ strS'[s].used <= strS[s].used /\ strS'[s].max = strS[s].max
         /\ \A t \in Streams : t # s => strS'[t] = strS[t]
<1>1. PICK b \in Nat : b = Bytes(queue[s]) BY BytesFacts DEF Types, SenderTypes
<1>2. queue' = [queue EXCEPT ![s] = <<>>] /\ strS' = [strS EXCEPT ![s] = Release(@, b)] BY <1>1 DEF Abandon
<1>3. /\ queue'[s] = <<>> /\ \A t \in Streams : t # s => queue'[t] = queue[t]
      /\ strS'[s] = Release(strS[s], b) /\ \A t \in Streams : t # s => strS'[t] = strS[t] BY <1>2 DEF Types, SenderTypes
<1>4. strS[s] \in CreditState /\ strS[s].used \in Nat /\ wired[s] \in Nat BY CreditFields DEF Types, SenderTypes
<1>5. strS[s].used = wired[s] + b BY <1>1 DEF StreamAccounting
<1>6. PICK c : c = Release(strS[s], b) OBVIOUS
<1>7. c.used = strS[s].used - b /\ c.max = strS[s].max
  <2>1. b <= strS[s].used BY <1>4, <1>5
  <2> QED BY <1>4, <1>6, <2>1, CreditFields
<1>8. Bytes(<<>>) = 0 BY NoBytes
<1>9. strS'[s].used = wired'[s] + Bytes(queue'[s]) BY <1>3, <1>4, <1>5, <1>6, <1>7, <1>8
<1>10. StreamAccounting' BY <1>3, <1>9, StreamBooks
<1> QED BY <1>3, <1>4, <1>5, <1>6, <1>7, <1>10

\* Every step keeps the sending end's books of each stream.
LEMMA NextStreamBooks ==
  ASSUME Types, SenderInv, StreamAccounting, [Next]_vars
  PROVE  StreamAccounting'
<1>1. CASE UNCHANGED <<strS, wired, queue>> BY <1>1 DEF StreamAccounting
<1>2. ASSUME NEW s \in Streams, SenderApp(s) PROVE StreamAccounting'
  <2>0. /\ queue[s] \in Seq(StreamFrames) /\ strS[s] \in CreditState /\ strS[s].used \in Nat /\ wired[s] \in Nat
        /\ tx[s].offset \in Nat BY TxFields, CreditFields DEF Types, SenderTypes
  <2>1. CASE OpenUni(s) \/ ReserveSlot(s) \/ CancelWrite(s) BY <1>1, <2>1 DEF OpenUni, ReserveSlot, CancelWrite
  <2>2. CASE CommitWrite(s)
    <3>1. PICK n \in Nat : /\ strS' = [strS EXCEPT ![s] = Claim(@, n)]
                           /\ queue' = [queue EXCEPT ![s] = Append(@, StreamFrame(s, tx[s].offset, n, FALSE))]
                           /\ UNCHANGED wired BY <2>2, CommitCases
    <3>0. PICK fr : fr = StreamFrame(s, tx[s].offset, n, FALSE) OBVIOUS
    <3>2. fr \in StreamFrames /\ fr.len = n BY <2>0, <3>0 DEF StreamFrame, StreamFrames
    <3>10. PICK c : c = Claim(strS[s], n) OBVIOUS
    <3>3. c.used = strS[s].used + n BY <2>0, <3>10, ClaimFields
    <3>4. /\ queue'[s] = Append(queue[s], fr) /\ strS'[s] = c
          /\ \A t \in Streams : t # s => strS'[t] = strS[t] /\ queue'[t] = queue[t]
      BY <3>1, <3>0, <3>10 DEF Types, SenderTypes
    <3>5. Bytes(queue'[s]) = Bytes(queue[s]) + n /\ Bytes(queue[s]) \in Nat BY <2>0, <3>2, <3>4, BytesFacts
    <3>6. strS[s].used = wired[s] + Bytes(queue[s]) BY DEF StreamAccounting
    <3>7. strS'[s].used = wired'[s] + Bytes(queue'[s])
      <4>1. strS'[s].used = strS[s].used + n BY <3>3, <3>4
      <4>2. wired'[s] = wired[s] BY <3>1
      <4> QED BY <2>0, <3>5, <3>6, <4>1, <4>2
    <3> QED BY <3>1, <3>4, <3>7, StreamBooks
  <2>3. CASE Reset(s) BY <2>3, AbandonBooks DEF Reset
  <2>4. CASE SeeStop(s) BY <1>1, <2>4, AbandonBooks DEF SeeStop
  <2>5. CASE Finish(s)
    <3>1. /\ queue' = [queue EXCEPT ![s] = Append(@, StreamFrame(s, tx[s].offset, 0, TRUE))]
          /\ UNCHANGED <<strS, wired>> BY <2>5 DEF Finish
    <3>0. PICK fr : fr = StreamFrame(s, tx[s].offset, 0, TRUE) OBVIOUS
    <3>2. fr \in StreamFrames /\ fr.len = 0 BY <2>0, <3>0 DEF StreamFrame, StreamFrames
    <3>4. /\ queue'[s] = Append(queue[s], fr)
          /\ \A t \in Streams : t # s => queue'[t] = queue[t] BY <3>1, <3>0 DEF Types, SenderTypes
    <3>5. Bytes(queue'[s]) = Bytes(queue[s]) + 0 /\ Bytes(queue[s]) \in Nat BY <2>0, <3>2, <3>4, BytesFacts
    <3>6. strS[s].used = wired[s] + Bytes(queue[s]) BY DEF StreamAccounting
    <3>7. strS'[s].used = wired'[s] + Bytes(queue'[s])
      <4>1. strS'[s].used = strS[s].used /\ wired'[s] = wired[s] BY <3>1
      <4> QED BY <2>0, <3>5, <3>6, <4>1
    <3> QED BY <3>1, <3>4, <3>7, StreamBooks
  <2> QED BY <1>2, <2>1, <2>2, <2>3, <2>4, <2>5 DEF SenderApp
<1>3. ASSUME NEW s \in Streams, TransmitStream(s) PROVE StreamAccounting'
  <2>1. PICK f \in StreamFrames : /\ f = Head(queue[s]) /\ f.len \in Nat /\ queue[s] # <<>>
                                  /\ queue' = [queue EXCEPT ![s] = Tail(@)] /\ wired' = [wired EXCEPT ![s] = @ + f.len]
                                  /\ UNCHANGED strS BY <1>3, PoppedFrame
  <2>2. /\ queue'[s] = Tail(queue[s]) /\ wired'[s] = wired[s] + f.len
        /\ \A t \in Streams : t # s => queue'[t] = queue[t] /\ wired'[t] = wired[t] BY <2>1 DEF Types, SenderTypes
  <2>3. Bytes(queue'[s]) = Bytes(queue[s]) - f.len /\ Bytes(queue[s]) \in Nat /\ wired[s] \in Nat
    BY <2>1, <2>2, BytesFacts DEF Types, SenderTypes
  <2>4. strS[s].used = wired[s] + Bytes(queue[s]) BY DEF StreamAccounting
  <2>5. strS'[s].used = wired'[s] + Bytes(queue'[s]) BY <2>1, <2>2, <2>3, <2>4
  <2> QED BY <2>1, <2>2, <2>5, StreamBooks
<1>4. CASE TransmitReset BY <1>1, <1>4 DEF TransmitReset
<1>5. CASE SenderReader
  <2>1. UNCHANGED <<wired, queue>> BY <1>5 DEF SenderReader, RecvControl
  <2>2. \A t \in Streams : strS'[t].used = strS[t].used
    <3>1. PICK g \in ControlFrames : g = Head(wireBA) BY <1>5, SeqTail DEF SenderReader, RecvControl, Types, WireTypes
    <3>2. \/ strS' = strS
          \/ g.type = "max_stream_data" /\ strS' = [strS EXCEPT ![g.id] = RecvMax(@, g.max)]
      BY <1>5, <3>1 DEF SenderReader, RecvControl
    <3>3. CASE g.type = "max_stream_data" /\ strS' = [strS EXCEPT ![g.id] = RecvMax(@, g.max)]
      <4>1. g.id \in Streams /\ g.max \in Nat /\ strS[g.id] \in CreditState BY <3>3, FrameFields DEF Types, SenderTypes
      <4>2. PICK c : c = RecvMax(strS[g.id], g.max) /\ c.used = strS[g.id].used BY <4>1, RecvMaxFacts
      <4> QED BY <3>3, <4>1, <4>2 DEF Types, SenderTypes
    <3> QED BY <3>2, <3>3
  <2> QED BY <2>1, <2>2 DEF StreamAccounting
<1>6. ASSUME ReceiverReader \/ Accept \/ ReceiverWriter \/ (\E f \in Fronts : ReceiverApp(f)) \/ UNCHANGED vars
      PROVE StreamAccounting' BY <1>1, <1>6 DEF ReceiverReader, Accept, ReceiverWriter, ReceiverApp, vars, senderVars
<1> QED BY <1>2, <1>3, <1>4, <1>5, <1>6 DEF Next, SenderWriter

----------------------------------------------------------------------------
(* One credit window                                                      *)

\* The invariant holds before anything was sent.
LEMMA WindowInitHolds == WindowInit => WindowInv
<1> SUFFICES ASSUME WindowInit PROVE WindowInv OBVIOUS
<1>1. /\ snd = [used |-> 0, max |-> Window, released |-> 0]
      /\ rcv = [used |-> 0, max |-> Window, released |-> 0] BY DEF WindowInit, NewCredit
<1> QED
  BY <1>1, WindowIsNatural DEF WindowInit, WindowInv, WindowTypes, CreditState, Accounting, Ordered, Earned,
    NeverRefused

\* Every step keeps the invariant.
LEMMA WindowStepKeeps == WindowInv /\ [WindowNext]_windowVars => WindowInv'
<1> SUFFICES ASSUME WindowInv, [WindowNext]_windowVars PROVE WindowInv' OBVIOUS
<1> USE DEF WindowInv
<1>0. /\ snd.used \in Nat /\ snd.max \in Nat /\ snd.released \in Nat
            /\ rcv.used \in Nat /\ rcv.max \in Nat /\ rcv.released \in Nat
            /\ Window \in Nat BY WindowIsNatural DEF WindowTypes, CreditState
<1>1. ASSUME NEW n \in 0 .. MaxSpend, Spend(n) PROVE WindowInv'
  <2> n \in Nat BY MaxSpendIsNatural
  <2>1. n <= snd.max - snd.used BY <1>1, <1>0 DEF Spend, Available, Ordered
  <2>2. /\ snd' \in CreditState /\ snd'.used = snd.used + n
        /\ snd'.max = snd.max BY <1>1, CreditFields DEF Spend, WindowTypes
  <2> QED BY <1>1, <2>1, <2>2, <1>0 DEF Spend, WindowTypes, Accounting, Ordered, Earned, NeverRefused
<1>2. ASSUME NEW n \in 0 .. MaxSpend, GiveBack(n) PROVE WindowInv'
  <2> n \in Nat BY MaxSpendIsNatural
  <2>1. n <= snd.used BY <1>2, <1>0 DEF GiveBack, WindowTypes, Accounting
  <2>2. /\ snd' \in CreditState /\ snd'.used = snd.used - n
        /\ snd'.max = snd.max BY <1>2, <2>1, CreditFields DEF GiveBack, WindowTypes
  <2> QED BY <1>2, <2>2, <1>0 DEF GiveBack, WindowTypes, Accounting, Ordered, Earned, NeverRefused
<1>3. ASSUME NEW n \in 0 .. MaxSpend, Transmit(n) PROVE WindowInv'
  BY <1>3, <1>0, MaxSpendIsNatural DEF Transmit, WindowTypes, Accounting, Ordered, Earned, NeverRefused
<1>4. ASSUME NEW n \in 0 .. MaxSpend, NEW kept \in {0, n}, Arrive(n, kept)
      PROVE  WindowInv'
  <2> n \in Nat BY MaxSpendIsNatural
  <2>1. MayReceive(rcv, n) BY <1>4, <1>0 DEF Arrive, MayReceive, WindowTypes, Accounting, Ordered
  <2>2. /\ rcv' \in CreditState /\ rcv'.used = rcv.used + n /\ rcv'.max = rcv.max /\ rcv'.released = rcv.released
    <3>1. rcv' = Receive(rcv, n) BY <1>4, <2>1 DEF Arrive
    <3> QED BY <3>1, CreditFields DEF WindowTypes
  <2> QED BY <1>4, <2>1, <2>2, <1>0 DEF Arrive, WindowTypes, Accounting, Ordered, Earned, NeverRefused
<1>5. ASSUME NEW n \in 0 .. MaxSpend, Ignore(n) PROVE WindowInv'
  BY <1>5, <1>0, MaxSpendIsNatural DEF Ignore, WindowTypes, Accounting, Ordered, Earned, NeverRefused
<1>6. ASSUME NEW n \in 0 .. MaxSpend, ReadBytes(n) PROVE WindowInv'
  <2> n \in Nat BY MaxSpendIsNatural
  <2>1. /\ rcv' \in CreditState /\ rcv'.used = rcv.used /\ rcv'.max >= rcv.max
        /\ rcv'.max + rcv'.released = rcv.max + rcv.released + n
        /\ rcv'.max \in Nat /\ rcv'.released \in Nat BY <1>6, ConsumeMovesWindow DEF ReadBytes, WindowTypes, CreditState
  <2> QED BY <1>6, <2>1, <1>0 DEF ReadBytes, WindowTypes, Accounting, Ordered, Earned, NeverRefused
<1>7. ASSUME NEW n \in 0 .. MaxSpend, Discard(n) PROVE WindowInv'
  BY <1>7, <1>0, MaxSpendIsNatural DEF Discard, WindowTypes, Accounting, Ordered, Earned, NeverRefused
<1>8. ASSUME NEW m \in 0 .. rcv.max, Learn(m) PROVE WindowInv'
  <2> m \in Nat BY <1>0
  <2>1. /\ snd' \in CreditState /\ snd'.used = snd.used /\ snd'.max = m
        /\ snd.max <= m /\ m <= rcv.max BY <1>8, CreditFields DEF Learn, MayIncrease, WindowTypes
  <2> QED BY <1>8, <2>1, <1>0 DEF Learn, WindowTypes, Accounting, Ordered, Earned, NeverRefused
<1>9. CASE UNCHANGED windowVars BY <1>9 DEF windowVars, WindowTypes, Accounting, Ordered, Earned, NeverRefused
<1> QED BY <1>1, <1>2, <1>3, <1>4, <1>5, <1>6, <1>7, <1>8, <1>9 DEF WindowNext

\* The inductive invariant holds of every behaviour, whatever the window.
THEOREM WindowInvariant == WindowSpec => []WindowInv
  BY WindowInitHolds, WindowStepKeeps, PTL DEF WindowSpec

\* receive() never refuses a frame of a peer that claims before it queues: no
\* honest connection or stream dies of FlowControlError for its data.
THEOREM SenderNeverRefused == WindowSpec => []NeverRefused
<1>1. WindowInv => NeverRefused BY DEF WindowInv
<1> QED BY <1>1, WindowInvariant, PTL

\* The bytes waiting to be read never exceed the window, although the maximum
\* the receiver advertises grows without bound.
THEOREM ReceiverMemoryBound == WindowSpec => []MemoryBound
<1>1. WindowInv => MemoryBound
  <2> SUFFICES ASSUME WindowInv PROVE held <= Window BY DEF MemoryBound
  <2>1. rcv.used <= rcv.max BY DEF WindowInv, WindowTypes, CreditState, Accounting, Ordered
  <2> QED BY <2>1, WindowIsNatural DEF WindowInv, WindowTypes, CreditState, Earned
<1> QED BY <1>1, WindowInvariant, PTL

\* The window moves by what the application read and by no more, for every
\* interleaving of reads with arrivals.
THEOREM WindowIsEarned == WindowSpec => []Earned
<1>1. WindowInv => Earned BY DEF WindowInv
<1> QED BY <1>1, WindowInvariant, PTL
=============================================================================
