--------------------------- MODULE QmuxStreamsFlow ---------------------------
(***************************************************************************)
(* Flow control of the stream layer of QMux: the bytes the two ends have   *)
(* accounted for agree, a limit grows by what was finished and no more,    *)
(* memory is bounded by the windows, and the connection credit and every   *)
(* stream's credit implement CreditWindow.                                 *)
(*                                                                         *)
(* The argument is a balance: the credit the sender has spent is what lies *)
(* in its queue, on the transport, with the reader, in the RecvStreams and *)
(* what was consumed or lost.  Each section shows that one group of steps  *)
(* moves bytes between two of these places and creates none.               *)
(***************************************************************************)
EXTENDS QmuxStreamsProofs

----------------------------------------------------------------------------
(* Credits only grow                                                      *)

\* What the other operators of a Credit do to its fields.
LEMMA ConsumeFields ==
  ASSUME NEW c \in CreditState, NEW n \in Nat, NEW d, d = Consume(c, n)
  PROVE  /\ d \in CreditState /\ d.used = c.used /\ d.max >= c.max /\ d.max \in Nat /\ c.max \in Nat
         /\ d.max + d.released = c.max + c.released + n BY ConsumeMovesWindow, CreditFields

\* What raising a count to a stream index does to a credit.
LEMMA UpToFields ==
  ASSUME NEW c \in CreditState, NEW n \in Nat, NEW d, d = ReceiveUpTo(c, n)
  PROVE  d \in CreditState /\ d.max = c.max /\ d.released = c.released BY CreditFields

\* A stream's credit at its start.
LEMMA FreshFields ==
  ASSUME NEW c, c = NewCredit(StreamWindow)
  PROVE  c \in CreditState /\ c.used = 0 /\ c.max = StreamWindow /\ c.released = 0 /\ StreamWindow \in Nat
  BY SizesAreNatural DEF CreditState, NewCredit

\* The maxima a receiver keeps only grow.
Grows ==
  /\ connR'.max >= connR.max /\ limR'.max >= limR.max
  /\ \A s \in Streams : fronts'[s] <= 1 => fronts[s] <= 1 /\ strR'[<<s, 1>>].max >= strR[<<s, 1>>].max

\* The credits of the two ends and their fields.
LEMMA CreditNats ==
  ASSUME Types
  PROVE  /\ openC \in CreditState /\ openC.used \in Nat /\ openC.max \in Nat
         /\ connS \in CreditState /\ connS.used \in Nat /\ connS.max \in Nat
         /\ connR \in CreditState /\ connR.used \in Nat /\ connR.max \in Nat
         /\ limR \in CreditState /\ limR.used \in Nat /\ limR.max \in Nat
         /\ \A s \in Streams : /\ strS[s] \in CreditState /\ strS[s].used \in Nat /\ strS[s].max \in Nat
                               /\ <<s, 1>> \in Fronts /\ fronts[s] \in Nat
         /\ \A f \in Fronts : strR[f] \in CreditState /\ strR[f].used \in Nat /\ strR[f].max \in Nat
                              /\ strR[f].released \in Nat
<1>1. \A c \in CreditState : c.used \in Nat /\ c.max \in Nat /\ c.released \in Nat BY DEF CreditState
<1> QED BY <1>1, StreamFacts DEF Types, SenderTypes, CreditTypes, ReaderTypes

\* A step that touches no credit of the receiving end takes no window back.
LEMMA GrowsSame ==
  ASSUME Types, UNCHANGED <<connR, limR, strR, fronts>>
  PROVE  Grows BY CreditNats DEF Grows

\* Routing a frame takes no window back.
LEMMA GrowsRoute ==
  ASSUME Types, MapInv, RouteStream
  PROVE  Grows
<1>0. PICK fr \in StreamFrames, s \in Streams : fr = reader.frame /\ s = fr.id /\ fr.len \in Nat BY RouteCases
<1>1. \/ RouteLive(s, <<s, recvMap[s]>>, fr) \/ RouteOwn(s)
      \/ RouteFail(s, <<s, recvMap[s]>>, fr) \/ RouteNew(s, fr) BY <1>0, RouteCases
<1>2. CASE RouteOwn(s) \/ RouteFail(s, <<s, recvMap[s]>>, fr)
  BY <1>2, GrowsSame DEF RouteOwn, RouteFail, Fail, creditVars
<1>3. CASE RouteLive(s, <<s, recvMap[s]>>, fr)
  <2>1. PICK f \in Fronts : f = <<s, recvMap[s]>> BY <1>3, Routed DEF RouteLive, MapInv
  <2>2. UNCHANGED <<connR, limR, fronts>> /\ strR' = [strR EXCEPT ![f] = Receive(@, fr.len)] BY <1>3, <2>1 DEF RouteLive
  <2>3. PICK c : c = Receive(strR[f], fr.len) OBVIOUS
  <2>4. c.max = strR[f].max BY <1>0, <2>3, CreditNats, ReceiveFields
  <2>5. \A g \in Fronts : strR'[g].max = strR[g].max BY <2>2, <2>3, <2>4 DEF Types, CreditTypes
  <2> QED BY <2>2, <2>5, CreditNats DEF Grows
<1>4. CASE RouteNew(s, fr)
  <2>1. /\ connR' = connR /\ limR' = ReceiveUpTo(limR, s + 1) /\ fronts' = [fronts EXCEPT ![s] = @ + 1]
        /\ strR' = [strR EXCEPT ![<<s, fronts[s] + 1>>] = Receive(NewCredit(StreamWindow), fr.len)]
        /\ fronts[s] < MaxFronts BY <1>4 DEF RouteNew
  <2>2. PICK m : m = ReceiveUpTo(limR, s + 1) OBVIOUS
  <2>3. limR'.max = limR.max BY <2>1, <2>2, UniOrOwn, CreditNats, UpToFields
  <2>4. PICK e : e = NewCredit(StreamWindow) OBVIOUS
  <2>5. PICK d : d = Receive(e, fr.len) OBVIOUS
  <2>6. e \in CreditState /\ e.max = StreamWindow /\ d.max = e.max BY <1>0, <2>4, <2>5, FreshFields, ReceiveFields
  <2>7. strR' = [strR EXCEPT ![<<s, fronts[s] + 1>>] = d] BY <2>1, <2>4, <2>5
  <2>8. ASSUME NEW t \in Streams, fronts'[t] <= 1
        PROVE  fronts[t] <= 1 /\ strR'[<<t, 1>>].max >= strR[<<t, 1>>].max
    <3>1. <<t, 1>> \in Fronts /\ <<t, 1>>[1] = t /\ <<t, 1>>[2] = 1 /\ fronts[t] \in Nat BY CreditNats
    <3>2. CASE t # s
      <4>1. fronts'[t] = fronts[t] BY <2>1, <3>2 DEF Types, ReaderTypes
      <4>2. strR'[<<t, 1>>] = strR[<<t, 1>>] BY <2>7, <3>1, <3>2 DEF Types, CreditTypes
      <4> QED BY <2>8, <3>1, <4>1, <4>2, CreditNats
    <3>3. CASE t = s
      <4>1. fronts[t] = 0 BY <2>1, <2>8, <3>1, <3>3 DEF Types, ReaderTypes
      <4>2. strR[<<t, 1>>] = e BY <2>4, <3>1, <4>1 DEF MapInv, FreshInv
      <4>3. strR'[<<t, 1>>] = d BY <2>7, <3>1, <3>3, <4>1 DEF Types, CreditTypes
      <4> QED BY <2>6, <3>1, <4>1, <4>2, <4>3, CreditNats
    <3> QED BY <3>2, <3>3
  <2> QED BY <2>1, <2>3, <2>8, CreditNats DEF Grows
<1> QED BY <1>1, <1>2, <1>3, <1>4

\* Handling a reset takes no window back.
LEMMA GrowsReset ==
  ASSUME Types, MapInv, RecvReset \/ AccountReset \/ RetireReset
  PROVE  Grows
<1>1. CASE RecvReset
  <2>1. UNCHANGED <<connR, strR, fronts>> /\ limR'.max = limR.max
    <3>1. PICK s \in Streams : s = Head(wireAB).id BY <1>1, RecvResetCases
    <3>2. CASE ResetLate(s) \/ ResetFail(s) BY <3>2 DEF ResetLate, ResetFail, Fail, creditVars
    <3>3. ASSUME NEW live \in BOOLEAN, ResetTake(Head(wireAB), live) PROVE UNCHANGED <<connR, strR, fronts>> /\ limR'.max = limR.max
      <4>1. PICK m : m = ReceiveUpTo(limR, s + 1) OBVIOUS
      <4>2. UNCHANGED <<connR, strR, fronts>> /\ limR' \in {limR, m} BY <3>1, <3>3, <4>1 DEF ResetTake
      <4>3. m.max = limR.max BY <4>1, UniOrOwn, CreditNats, UpToFields
      <4> QED BY <4>2, <4>3
    <3> QED BY <1>1, <3>1, <3>2, <3>3, RecvResetCases
  <2> QED BY <2>1, CreditNats DEF Grows
<1>2. CASE AccountReset
  <2>1. PICK s \in Streams, n \in Nat : /\ s = reader.frame.id /\ n = reader.frame.final /\ Gap(s, n) \in Nat
                                        /\ (Fail("panic") \/ AccountFlow(s, n) \/ Account(s, n)) BY <1>2, AccountCases
  <2>2. CASE Fail("panic") \/ AccountFlow(s, n) BY <2>2, GrowsSame DEF AccountFlow, Fail, creditVars
  <2>3. CASE Account(s, n)
    <3>1. PICK g \in Nat : g = Gap(s, n) BY <2>1
    <3>2. PICK c : c = Receive(connR, g) OBVIOUS
    <3>3. PICK d : d = Consume(c, g) OBVIOUS
    <3>4. c \in CreditState /\ c.max = connR.max /\ d.max >= c.max
      BY <3>1, <3>2, <3>3, CreditNats, CreditFields, ConsumeFields
    <3>5. /\ connR' = d /\ UNCHANGED <<limR, fronts>>
          /\ \/ strR' = strR
             \/ recvMap[s] # 0 /\ strR' = [strR EXCEPT ![<<s, recvMap[s]>>] = Receive(@, g)]
      BY <2>3, <3>1, <3>2, <3>3 DEF Account
    <3>6. \A f \in Fronts : strR'[f].max = strR[f].max
      <4>1. CASE recvMap[s] # 0 /\ strR' = [strR EXCEPT ![<<s, recvMap[s]>>] = Receive(@, g)]
        <5>1. PICK f \in Fronts : f = <<s, recvMap[s]>> BY <4>1, Routed DEF MapInv
        <5>2. PICK e : e = Receive(strR[f], g) OBVIOUS
        <5>3. e.max = strR[f].max BY <3>1, <5>2, CreditNats, ReceiveFields
        <5> QED BY <4>1, <5>1, <5>2, <5>3 DEF Types, CreditTypes
      <4> QED BY <3>5, <4>1
    <3> QED BY <3>4, <3>5, <3>6, CreditNats DEF Grows
  <2> QED BY <2>1, <2>2, <2>3
<1>3. CASE RetireReset
  <2>1. PICK s \in Streams : /\ UNCHANGED <<fronts, connR, strR>>
                             /\ RetireLive(s) \/ RetireOwn(s) \/ RetireUnseen(s) BY <1>3, RetireCases
  <2>2. PICK d : d = Consume(limR, 1) OBVIOUS
  <2>3. limR' = limR \/ limR' = d BY <2>1, <2>2 DEF RetireLive, RetireOwn, RetireUnseen
  <2>4. d.max >= limR.max BY <2>2, CreditNats, ConsumeFields
  <2> QED BY <2>1, <2>3, <2>4, CreditNats DEF Grows
<1> QED BY <1>1, <1>2, <1>3

\* A step of the receiving application takes no window back.
LEMMA GrowsApp ==
  ASSUME Types, NEW f \in Fronts, ReceiverApp(f)
  PROVE  Grows
<1>1. fronts' = fronts BY ReceiverAppFrame DEF AppFrame
<1>2. /\ strR'[f].max >= strR[f].max /\ connR'.max >= connR.max
      /\ \A g \in Fronts : g # f => strR'[g] = strR[g] BY AppCredit
<1>3. \A g \in Fronts : strR'[g].max >= strR[g].max BY <1>2, CreditNats
<1>4. PICK d : d = Consume(limR, 1) OBVIOUS
<1>5. limR' = limR \/ limR' = d
  BY <1>4, Zenon DEF ReceiverApp, Read, ReadReset, AwaitClosed, Stop, DropRecv, SendPending, creditVars
<1>6. d.max >= limR.max BY <1>4, CreditNats, ConsumeFields
<1> QED BY <1>1, <1>2, <1>3, <1>5, <1>6, CreditNats DEF Grows

\* No step takes a window back.
LEMMA NextGrows ==
  ASSUME Core, [Next]_vars
  PROVE  Grows
<1> USE DEF Core
<1>1. CASE UNCHANGED <<connR, limR, strR, fronts>> BY <1>1, GrowsSame
<1>2. CASE ReceiverReader
  <2>1. CASE RecvStream
    <3>1. UNCHANGED <<limR, strR, fronts>> /\ connR'.max = connR.max
      <4>1. PICK fr \in StreamFrames : fr.len \in Nat /\ (TakeLate(fr) \/ TakeFail(fr) \/ Take(fr))
        BY <2>1, RecvStreamCases
      <4>2. CASE TakeLate(fr) \/ TakeFail(fr) BY <4>2 DEF TakeLate, TakeFail, Fail, creditVars
      <4>3. CASE Take(fr)
        <5>1. PICK c : c = Receive(connR, fr.len) OBVIOUS
        <5>2. c.max = connR.max BY <4>1, <5>1, CreditNats, ReceiveFields
        <5> QED BY <4>3, <5>1, <5>2 DEF Take
      <4> QED BY <4>1, <4>2, <4>3
    <3> QED BY <3>1, CreditNats DEF Grows
  <2>2. CASE RouteStream BY <2>2, GrowsRoute
  <2>3. CASE OfferStream \/ InsertStream \/ ReaderGrant
    BY <1>1, <2>3 DEF OfferStream, InsertStream, ReaderGrant, creditVars
  <2>4. CASE RecvReset \/ AccountReset \/ RetireReset BY <2>4, GrowsReset
  <2> QED BY <1>2, <2>1, <2>2, <2>3, <2>4 DEF ReceiverReader
<1>3. ASSUME NEW f \in Fronts, ReceiverApp(f) PROVE Grows BY <1>3, GrowsApp
<1>4. ASSUME \/ \E s \in Streams : SenderApp(s)
             \/ SenderWriter \/ SenderReader \/ Accept \/ ReceiverWriter \/ UNCHANGED vars
      PROVE Grows
  BY <1>1, <1>4 DEF SenderApp, SenderWriter, SenderReader, Accept, AcceptUni, ReceiverWriter, TransmitControl, vars,
    readerVars, creditVars
<1> QED BY <1>2, <1>3, <1>4 DEF Next

----------------------------------------------------------------------------
(* A maximum on its way is one the receiver has granted                   *)

\* A limit that was right stays right.
LEMMA MaxOKKeeps ==
  ASSUME Types, Types', Grows, NEW g \in ControlFrames, MaxOK(g)
  PROVE  (MaxOK(g))'
<1>1. /\ g.type \in {"max_data", "max_streams", "max_stream_data"} => g.max \in Nat
      /\ g.type \in {"max_stream_data", "stop"} => g.id \in Streams BY FrameFields
<1>2. /\ connR.max \in Nat /\ connR'.max \in Nat /\ limR.max \in Nat /\ limR'.max \in Nat
      /\ \A s \in Streams : strR[<<s, 1>>].max \in Nat /\ strR'[<<s, 1>>].max \in Nat
  <2>1. /\ connR' \in CreditState /\ limR' \in CreditState /\ \A s \in Streams : strR'[<<s, 1>>] \in CreditState
    BY StreamFacts DEF Types, CreditTypes
  <2> QED BY <2>1, CreditNats DEF CreditState
<1> QED BY <1>1, <1>2 DEF MaxOK, Grows

\* Every update a receiver computed is enqueued, sent or replaced by a larger one.
MaxFrames ==
  /\ \A i \in 1 .. Len(control) : MaxOK(control[i])
  /\ \A i \in 1 .. Len(wireBA) : MaxOK(wireBA[i])
  /\ \A f \in Fronts : pending[f] # NoFrame => MaxOK(pending[f])

\* The part of MaxInv about the limit the reader is about to queue.
MaxReader ==
  /\ reader.pc = "grant" => reader.max <= connR.max
  /\ reader.pc = "limit" => reader.max <= limR.max

\* The part of MaxInv about the limits the sending end knows.
MaxSender ==
  /\ openC.used <= openC.max /\ openC.max <= limR.max /\ connS.used <= connS.max /\ connS.max <= connR.max
  /\ \A s \in Streams : strS[s].used <= strS[s].max
       /\ (fronts[s] <= 1 => strS[s].max <= strR[<<s, 1>>].max)

\* The three parts of MaxInv.
LEMMA MaxParts == MaxInv <=> MaxFrames /\ MaxReader /\ MaxSender
  BY DEF MaxInv, MaxFrames, MaxReader, MaxSender

\* Limits that are moved along, and new ones that are right, keep MaxFrames.
LEMMA MaxFramesKeep ==
  ASSUME Types, Types', Grows, MaxFrames,
         \A i \in 1 .. Len(control') : \/ \E j \in 1 .. Len(control) : control'[i] = control[j]
                                       \/ (MaxOK(control[i]))',
         \A i \in 1 .. Len(wireBA') : \/ \E j \in 1 .. Len(wireBA) : wireBA'[i] = wireBA[j]
                                      \/ \E j \in 1 .. Len(control) : wireBA'[i] = control[j],
         \A f \in Fronts : pending'[f] \in {pending[f], NoFrame} \/ (MaxOK(pending[f]))'
  PROVE  MaxFrames'
<1>0. /\ \A j \in 1 .. Len(control) : control[j] \in ControlFrames
      /\ \A j \in 1 .. Len(wireBA) : wireBA[j] \in ControlFrames
      /\ \A f \in Fronts : pending[f] # NoFrame => pending[f] \in ControlFrames BY DEF Types, AppTypes, WireTypes
<1>1. /\ \A j \in 1 .. Len(control) : (\A g : g = control[j] => (MaxOK(g))')
      /\ \A j \in 1 .. Len(wireBA) : (\A g : g = wireBA[j] => (MaxOK(g))')
      /\ \A f \in Fronts : pending[f] # NoFrame => (\A g : g = pending[f] => (MaxOK(g))')
  BY <1>0, MaxOKKeeps DEF MaxFrames
<1>2. ASSUME NEW i \in 1 .. Len(control') PROVE (MaxOK(control[i]))' BY <1>1, <1>2 DEF MaxOK
<1>3. ASSUME NEW i \in 1 .. Len(wireBA') PROVE (MaxOK(wireBA[i]))' BY <1>1, <1>3 DEF MaxOK
<1>4. ASSUME NEW f \in Fronts, pending'[f] # NoFrame PROVE (MaxOK(pending[f]))' BY <1>1, <1>4 DEF MaxOK
<1> QED BY <1>2, <1>3, <1>4 DEF MaxFrames

\* The credits' limits after a step.
LEMMA PrimedNats ==
  ASSUME Types'
  PROVE  /\ connR'.max \in Nat /\ limR'.max \in Nat /\ openC'.max \in Nat /\ connS'.max \in Nat
         /\ \A s \in Streams : strR'[<<s, 1>>].max \in Nat /\ strS'[s].max \in Nat
         /\ reader'.max \in Nat
<1>1. /\ connR' \in CreditState /\ limR' \in CreditState /\ openC' \in CreditState /\ connS' \in CreditState
      /\ \A s \in Streams : strR'[<<s, 1>>] \in CreditState /\ strS'[s] \in CreditState
      /\ reader' \in ReaderStates BY StreamFacts DEF Types, CreditTypes, SenderTypes, ReaderTypes
<1> QED BY <1>1 DEF CreditState, ReaderStates

\* A sender stays below its maxima when they do not change and it uses no more.
LEMMA MaxSenderKeep ==
  ASSUME Types, Types', Grows, MaxSender,
         openC'.max = openC.max, connS'.max = connS.max,
         openC'.used <= openC.max, connS'.used <= connS.max,
         \A s \in Streams : strS'[s].max = strS[s].max /\ strS'[s].used <= strS[s].max
  PROVE  MaxSender' BY CreditNats, PrimedNats DEF MaxSender, Grows

\* A reader that computes no limit keeps MaxReader.
LEMMA MaxReaderKeep ==
  ASSUME Types, Types', Grows, MaxReader,
         reader' = reader \/ reader'.pc \notin {"grant", "limit"}
  PROVE  MaxReader'
<1>1. reader.max \in Nat BY DEF Types, ReaderTypes, ReaderStates
<1> QED BY <1>1, CreditNats, PrimedNats DEF MaxReader, Grows

\* A step that touches no credit of the sending end keeps MaxSender.
LEMMA MaxSenderSame ==
  ASSUME Types, Types', Grows, MaxSender, UNCHANGED <<openC, connS, strS>>
  PROVE  MaxSender' BY MaxSenderKeep DEF MaxSender

\* A step that queues and moves no limit keeps MaxFrames.
LEMMA MaxFramesSame ==
  ASSUME Types, Types', Grows, MaxFrames, UNCHANGED <<control, wireBA, pending>>
  PROVE  MaxFrames' BY MaxFramesKeep

\* Giving a stream up never spends connection credit.
LEMMA AbandonConn ==
  ASSUME Types, NEW s \in Streams, NEW why, Abandon(s, why)
  PROVE  connS' \in CreditState /\ connS'.used <= connS.used /\ connS'.max = connS.max
<1>1. PICK b \in Nat : b = Bytes(queue[s]) BY BytesFacts DEF Types, SenderTypes
<1>2. connS' = Release(connS, b) BY <1>1 DEF Abandon
<1> QED BY <1>1, <1>2, CreditNats, CreditFields

\* The sending application stays within the limits it knows.
LEMMA MaxSenderApp ==
  ASSUME Types, Types', Grows, StreamAccounting, MaxSender, NEW s \in Streams, SenderApp(s)
  PROVE  MaxSender'
<1>1. CASE OpenUni(s)
  <2>1. UNCHANGED <<connS, strS>> /\ openC.used < openC.max /\ openC' = Claim(openC, 1) BY <1>1 DEF OpenUni
  <2>2. openC'.used = openC.used + 1 /\ openC'.max = openC.max
    <3>1. openC \in CreditState /\ 1 \in Nat BY CreditNats
    <3>2. PICK c : c = Claim(openC, 1) OBVIOUS
    <3>3. c.used = openC.used + 1 /\ c.max = openC.max BY <3>1, <3>2, ClaimFields
    <3> QED BY <2>1, <3>2, <3>3
  <2>3. openC'.used <= openC.max BY <2>1, <2>2, CreditNats
  <2> QED BY <2>1, <2>2, <2>3, MaxSenderKeep DEF MaxSender
<1>2. CASE ReserveSlot(s) \/ CancelWrite(s) \/ Finish(s) BY <1>2, MaxSenderSame DEF ReserveSlot, CancelWrite, Finish
<1>3. CASE CommitWrite(s)
  <2>1. PICK n \in Nat : /\ strS[s].used + n <= strS[s].max /\ connS.used + n <= connS.max
                         /\ strS' = [strS EXCEPT ![s] = Claim(@, n)] /\ connS' = Claim(connS, n)
                         /\ openC' = openC BY <1>3, CommitCases
  <2>2. connS'.used = connS.used + n /\ connS'.max = connS.max
    <3>1. connS \in CreditState BY CreditNats
    <3>2. PICK c : c = Claim(connS, n) OBVIOUS
    <3>3. c.used = connS.used + n /\ c.max = connS.max BY <3>1, <3>2, ClaimFields
    <3> QED BY <2>1, <3>2, <3>3
  <2>3. PICK c : c = Claim(strS[s], n) OBVIOUS
  <2>4. c.used = strS[s].used + n /\ c.max = strS[s].max
    <3>1. strS[s] \in CreditState BY CreditNats
    <3> QED BY <2>3, <3>1, ClaimFields
  <2>5. strS'[s] = c /\ \A t \in Streams : t # s => strS'[t] = strS[t] BY <2>1, <2>3 DEF Types, SenderTypes
  <2>6. \A t \in Streams : strS'[t].max = strS[t].max /\ strS'[t].used <= strS[t].max BY <2>1, <2>4, <2>5 DEF MaxSender
  <2> QED BY <2>1, <2>2, <2>6, MaxSenderKeep DEF MaxSender
<1>4. ASSUME NEW why, Abandon(s, why), UNCHANGED <<openC, wired>> PROVE MaxSender'
  <2>1. connS'.max = connS.max /\ connS'.used <= connS.max BY <1>4, AbandonConn, CreditNats DEF MaxSender, CreditState
  <2>2. /\ strS'[s].used <= strS[s].used /\ strS'[s].max = strS[s].max
        /\ \A t \in Streams : t # s => strS'[t] = strS[t] BY <1>4, AbandonBooks
  <2>3. strS'[s].used \in Nat BY CreditFields DEF Types, SenderTypes, CreditState
  <2>4. \A t \in Streams : strS'[t].max = strS[t].max /\ strS'[t].used <= strS[t].max
    <3>1. strS[s].used <= strS[s].max /\ strS[s].used \in Nat /\ strS[s].max \in Nat BY CreditNats DEF MaxSender
    <3>2. strS'[s].max = strS[s].max /\ strS'[s].used <= strS[s].max BY <2>2, <2>3, <3>1
    <3>3. \A t \in Streams : t # s => strS'[t].max = strS[t].max /\ strS'[t].used <= strS[t].max BY <2>2 DEF MaxSender
    <3> QED BY <3>2, <3>3
  <2> QED BY <1>4, <2>1, <2>4, MaxSenderKeep DEF MaxSender
<1>5. CASE Reset(s) BY <1>4, <1>5 DEF Reset
<1>6. CASE SeeStop(s) BY <1>4, <1>6, MaxSenderSame DEF SeeStop
<1> QED BY <1>1, <1>2, <1>3, <1>5, <1>6 DEF SenderApp

\* RecvMaxFacts for a credit that has a name.
LEMMA RaiseFields ==
  ASSUME NEW c \in CreditState, NEW m \in Nat, NEW d, d = RecvMax(c, m)
  PROVE  d \in CreditState /\ d.used = c.used /\ d.max >= c.max /\ d.max \in {c.max, m} /\ d.max \in Nat
  BY RecvMaxFacts, CreditFields

\* A limit that arrives is one the receiving end has reached.
LEMMA MaxRecvControl ==
  ASSUME Types, Types', MaxInv, SenderReader
  PROVE  MaxSender' /\ MaxFrames' /\ MaxReader'
<1>0. /\ UNCHANGED <<connR, limR, strR, fronts, reader, control, pending>>
      /\ wireBA # <<>> /\ wireBA' = Tail(wireBA) BY DEF SenderReader, RecvControl, readerVars, creditVars, appVars
<1>1. Grows BY <1>0, GrowsSame
<1>2. PICK g \in ControlFrames : /\ g = Head(wireBA) /\ g = wireBA[1] /\ 1 \in 1 .. Len(wireBA)
                                 /\ \A i \in 1 .. Len(Tail(wireBA)) : /\ Tail(wireBA)[i] = wireBA[i + 1]
                                                                      /\ i + 1 \in 1 .. Len(wireBA)
  BY <1>0, SeqTail DEF Types, WireTypes
<1>3. MaxOK(g) BY <1>2 DEF MaxInv
<1>4. MaxFrames' BY <1>0, <1>1, <1>2, MaxParts, MaxFramesKeep
<1>5. MaxReader' BY <1>0, <1>1, MaxParts, MaxReaderKeep
<1>6. g.type \in {"max_data", "max_streams", "max_stream_data"} => g.max \in Nat BY FrameFields
<1>7. \/ g.type = "max_data" /\ connS' = RecvMax(connS, g.max) /\ UNCHANGED <<strS, openC>>
      \/ g.type = "max_streams" /\ openC' = RecvMax(openC, g.max) /\ UNCHANGED <<strS, connS>>
      \/ /\ g.type = "max_stream_data" /\ strS' = [strS EXCEPT ![g.id] = RecvMax(@, g.max)]
         /\ UNCHANGED <<connS, openC>>
      \/ UNCHANGED <<connS, openC, strS>> BY <1>2 DEF SenderReader, RecvControl
<1>8. MaxSender BY MaxParts
<1>9. CASE g.type = "max_data" /\ connS' = RecvMax(connS, g.max) /\ UNCHANGED <<strS, openC>>
  <2>1. connS'.used = connS.used /\ connS'.max >= connS.max /\ connS'.max \in {connS.max, g.max} /\ connS'.max \in Nat
    BY <1>6, <1>9, CreditNats, RaiseFields
  <2>2. g.max <= connR.max BY <1>3, <1>9 DEF MaxOK
  <2> QED BY <1>0, <1>4, <1>5, <1>6, <1>8, <1>9, <2>1, <2>2, CreditNats DEF MaxSender
<1>10. CASE g.type = "max_streams" /\ openC' = RecvMax(openC, g.max) /\ UNCHANGED <<strS, connS>>
  <2>1. openC'.used = openC.used /\ openC'.max >= openC.max /\ openC'.max \in {openC.max, g.max} /\ openC'.max \in Nat
    BY <1>6, <1>10, CreditNats, RaiseFields
  <2>2. g.max <= limR.max BY <1>3, <1>10 DEF MaxOK
  <2> QED BY <1>0, <1>4, <1>5, <1>6, <1>8, <1>10, <2>1, <2>2, CreditNats DEF MaxSender
<1>11. CASE /\ g.type = "max_stream_data" /\ strS' = [strS EXCEPT ![g.id] = RecvMax(@, g.max)]
            /\ UNCHANGED <<connS, openC>>
  <2>0. PICK s \in Streams : s = g.id BY <1>11, FrameFields
  <2>1. PICK c : c = RecvMax(strS[s], g.max) OBVIOUS
  <2>2. c.used = strS[s].used /\ c.max >= strS[s].max /\ c.max \in {strS[s].max, g.max} /\ c.max \in Nat
    <3>1. PICK k \in CreditState, m \in Nat : k = strS[s] /\ m = g.max BY <1>6, <1>11, <2>0, CreditNats
    <3>2. c.used = k.used /\ c.max >= k.max /\ c.max \in {k.max, m} /\ c.max \in Nat BY <2>1, <3>1, RaiseFields, Zenon
    <3> QED BY <3>1, <3>2, Zenon
  <2>3. fronts[s] <= 1 => g.max <= strR[<<s, 1>>].max BY <1>3, <1>11, <2>0 DEF MaxOK
  <2>4. strS'[s] = c /\ \A t \in Streams : t # s => strS'[t] = strS[t] BY <1>11, <2>0, <2>1 DEF Types, SenderTypes
  <2>5. ASSUME NEW t \in Streams
        PROVE  strS'[t].used <= strS'[t].max /\ (fronts'[t] <= 1 => strS'[t].max <= strR'[<<t, 1>>].max)
    <3>1. CASE t = s
      <4>1. PICK u \in Nat, x \in Nat, y \in Nat : u = strS[s].used /\ x = strS[s].max /\ y = strR[<<s, 1>>].max
        BY CreditNats
      <4>2. u <= x /\ (fronts[s] <= 1 => x <= y) BY <1>8, <4>1 DEF MaxSender
      <4>3. PICK z \in Nat : z = c.max /\ z >= x /\ z \in {x, g.max} /\ c.used = u BY <2>2, <4>1
      <4>4. fronts[s] <= 1 => g.max <= y BY <2>3, <4>1
      <4>5. u <= z /\ (fronts[s] <= 1 => z <= y) BY <4>1, <4>2, <4>3, <4>4
      <4>6. strS'[t].used = u /\ strS'[t].max = z /\ fronts'[t] = fronts[s] /\ strR'[<<t, 1>>] = strR[<<s, 1>>]
        BY <1>0, <2>4, <3>1, <4>3
      <4> QED BY <4>1, <4>5, <4>6
    <3>2. CASE t # s BY <1>0, <1>8, <2>4, <3>2 DEF MaxSender
    <3> QED BY <3>1, <3>2
  <2> QED BY <1>0, <1>4, <1>5, <1>8, <1>11, <2>5 DEF MaxSender
<1>12. CASE UNCHANGED <<connS, openC, strS>> BY <1>0, <1>4, <1>5, <1>8, <1>12 DEF MaxSender
<1> QED BY <1>7, <1>9, <1>10, <1>11, <1>12

\* Sending a control frame keeps MaxFrames.
LEMMA MaxControlOut ==
  ASSUME Types, Types', Grows, MaxInv, ReceiverWriter
  PROVE  MaxFrames'
<1>1. control # <<>> /\ control' = Tail(control) /\ wireBA' = Append(wireBA, Head(control)) /\ pending' = pending
  BY DEF ReceiverWriter, TransmitControl, appVars
<1>2. PICK g \in ControlFrames : g = Head(control) /\ g = control[1] /\ 1 \in 1 .. Len(control)
  BY <1>1, SeqTail DEF Types, AppTypes
<1>3. \A i \in 1 .. Len(control') : control'[i] = control[i + 1] /\ i + 1 \in 1 .. Len(control)
  BY <1>1, SeqTail DEF Types, AppTypes
<1>4. /\ \A i \in 1 .. Len(wireBA') : i \in 1 .. Len(wireBA) \/ i = Len(wireBA) + 1
      /\ \A i \in 1 .. Len(wireBA) : wireBA'[i] = wireBA[i]
      /\ wireBA'[Len(wireBA) + 1] = g BY <1>1, <1>2, SeqAppend DEF Types, WireTypes
<1>5. \A i \in 1 .. Len(wireBA') : \/ \E j \in 1 .. Len(wireBA) : wireBA'[i] = wireBA[j]
                                   \/ \E j \in 1 .. Len(control) : wireBA'[i] = control[j] BY <1>2, <1>4
<1> QED BY <1>1, <1>3, <1>5, MaxParts, MaxFramesKeep

\* A frame whose maximum is in force may be added to the control lane.
LEMMA MaxFramesAdd ==
  ASSUME Types, Types', Grows, MaxFrames, NEW g \in ControlFrames, (MaxOK(g))',
         control' \in {control, Append(control, g)}, wireBA' = wireBA,
         \A f \in Fronts : pending'[f] \in {pending[f], NoFrame} \/ (MaxOK(pending[f]))'
  PROVE  MaxFrames'
<1>1. ASSUME NEW i \in 1 .. Len(control')
      PROVE  \/ \E j \in 1 .. Len(control) : control'[i] = control[j]
             \/ (MaxOK(control[i]))'
  <2>1. (i \in 1 .. Len(control) /\ control'[i] = control[i]) \/ control'[i] = g BY ControlGrows DEF Types, AppTypes
  <2>2. control'[i] = g => (MaxOK(control[i]))' BY DEF MaxOK
  <2> QED BY <2>1, <2>2
<1> QED BY <1>1, MaxFramesKeep

\* A step of the reader queues no limit beyond the one it computed.
LEMMA MaxReaderStep ==
  ASSUME Core, Types', Grows, MaxInv, ReceiverReader
  PROVE  MaxFrames' /\ MaxReader'
<1> USE DEF Core
<1>0. MaxFrames /\ MaxReader /\ UNCHANGED <<pending, wireBA>> BY MaxParts DEF ReceiverReader
<1>1. ASSUME control' = control, reader'.pc \notin {"grant", "limit"} \/ reader' = reader PROVE MaxFrames' /\ MaxReader'
  BY <1>0, <1>1, MaxFramesSame, MaxReaderKeep
<1>2. CASE RecvStream
  <2>1. PICK fr \in StreamFrames : TakeLate(fr) \/ TakeFail(fr) \/ Take(fr) BY <1>2, RecvStreamCases
  <2>2. control' = control /\ (reader' = reader \/ reader'.pc \notin {"grant", "limit"})
    BY <2>1, ReaderShapes, Zenon DEF TakeLate, TakeFail, Take, Fail, StreamPcs
  <2> QED BY <1>1, <2>2
<1>3. CASE RouteStream
  <2>1. PICK fr \in StreamFrames, s \in Streams :
           \/ RouteLive(s, <<s, recvMap[s]>>, fr) \/ RouteOwn(s)
           \/ RouteFail(s, <<s, recvMap[s]>>, fr) \/ RouteNew(s, fr) BY <1>3, RouteCases
  <2>2. [reader EXCEPT !.pc = "accept"].pc = "accept" /\ Idle.pc = "idle" BY ReaderAt DEF StreamPcs, Types
  <2>3. control' = control /\ reader'.pc \in {"idle", "accept"}
    BY <2>1, <2>2 DEF RouteLive, RouteOwn, RouteFail, RouteNew, Fail
  <2> QED BY <1>1, <2>3
<1>4. CASE OfferStream
  <2>2. [reader EXCEPT !.pc = "insert"].pc = "insert" BY ReaderAt DEF StreamPcs, Types
  <2>3. control' = control /\ reader'.pc = "insert" BY <1>4, <2>2 DEF OfferStream
  <2> QED BY <1>1, <2>3
<1>5. CASE InsertStream
  <2>1. control' = control /\ reader'.pc = "idle" BY <1>5, ReaderAt DEF InsertStream, Types
  <2> QED BY <1>1, <2>1
<1>6. CASE RecvReset
  <2>1. PICK fr \in ResetFrames : /\ fr = Head(wireAB)
                                  /\ \/ ResetLate(fr.id) \/ ResetFail(fr.id)
                                     \/ \E live \in BOOLEAN : ResetTake(fr, live) BY <1>6, RecvResetCases
  <2>2. control' = control /\ (reader' = reader \/ reader'.pc \in {"idle", "reset"})
    <3>1. CASE ResetLate(fr.id) \/ ResetFail(fr.id) BY <3>1, ReaderAt DEF ResetLate, ResetFail, Fail, Types
    <3>2. ASSUME NEW live \in BOOLEAN, ResetTake(fr, live) PROVE control' = control /\ reader'.pc = "reset"
      BY <3>2 DEF ResetTake, Idle
    <3> QED BY <2>1, <3>1, <3>2
  <2> QED BY <1>1, <2>2
<1>7. CASE AccountReset
  <2>1. PICK s \in Streams, n \in Nat : /\ s = reader.frame.id /\ n = reader.frame.final /\ Gap(s, n) \in Nat
                                        /\ (Fail("panic") \/ AccountFlow(s, n) \/ Account(s, n)) BY <1>7, AccountCases
  <2>2. CASE Fail("panic") \/ AccountFlow(s, n)
    <3>1. control' = control /\ reader'.pc = "idle" BY <2>2, ReaderAt DEF AccountFlow, Fail, Types
    <3> QED BY <1>1, <3>1
  <2>3. CASE Account(s, n)
    <3>1. PICK pc \in {"grant", "retire"} : reader' = [reader EXCEPT !.max = connR'.max, !.pc = pc] /\ control' = control
      BY <2>3 DEF Account
    <3>2. PICK m \in Nat : m = connR'.max BY PrimedNats
    <3>3. reader'.max = m /\ reader'.pc = pc BY <3>1, <3>2, ReaderAt DEF ResetPcs, Types
    <3>4. MaxReader' BY <3>2, <3>3 DEF MaxReader
    <3> QED BY <1>0, <3>1, <3>4, MaxFramesSame
  <2> QED BY <2>1, <2>2, <2>3
<1>8. CASE ReaderGrant
  <2>0. PICK m \in Nat : m = reader.max BY DEF Types, ReaderTypes, ReaderStates
  <2>1. UNCHANGED <<connR, limR>> /\ reader'.pc \in {"idle", "retire"} BY <1>8, GrantCases
  <2>2. MaxReader' BY <2>1 DEF MaxReader
  <2>3. \/ reader.pc = "grant" /\ control' = Append(control, MaxData(m))
        \/ reader.pc = "limit" /\ control' = Append(control, MaxStreams(m)) BY <1>8, <2>0, GrantCases
  <2>4. PICK g \in ControlFrames : g.max = m /\ control' = Append(control, g)
                                   /\ (\/ reader.pc = "grant" /\ g.type = "max_data"
                                       \/ reader.pc = "limit" /\ g.type = "max_streams") BY <2>3, FrameTypes
  <2>5. (MaxOK(g))' BY <1>0, <2>0, <2>1, <2>4 DEF MaxOK, MaxReader
  <2> QED BY <1>0, <2>2, <2>4, <2>5, MaxFramesAdd
<1>9. CASE RetireReset
  <2>1. PICK s \in Streams : /\ control' = control
                             /\ RetireLive(s) \/ RetireOwn(s) \/ RetireUnseen(s) BY <1>9, RetireCases
  <2>2. PICK m \in Nat : m = limR'.max BY PrimedNats
  <2>3. reader' = Idle \/ reader' = [reader EXCEPT !.pc = "limit", !.max = m]
    BY <2>1, <2>2 DEF RetireLive, RetireOwn, RetireUnseen
  <2>4. reader'.pc = "idle" \/ (reader'.pc = "limit" /\ reader'.max = m)
    <3>1. /\ [reader EXCEPT !.pc = "limit", !.max = m].pc = "limit"
          /\ [reader EXCEPT !.pc = "limit", !.max = m].max = m BY ReaderAt DEF ResetPcs, Types
    <3>2. CASE reader' = [reader EXCEPT !.pc = "limit", !.max = m] BY <3>1, <3>2, Zenon
    <3>3. CASE reader' = Idle BY <3>3 DEF Idle
    <3> QED BY <2>3, <3>2, <3>3
  <2>5. MaxReader' BY <2>2, <2>4 DEF MaxReader
  <2> QED BY <1>0, <2>1, <2>5, MaxFramesSame
<1> QED BY <1>2, <1>3, <1>4, <1>5, <1>6, <1>7, <1>8, <1>9 DEF ReceiverReader

\* A step of the receiving application queues no limit beyond the one it
\* computed.
LEMMA MaxApp ==
  ASSUME Core, Types', Grows, MaxInv, NEW f \in Fronts, ReceiverApp(f)
  PROVE  MaxFrames'
<1> USE DEF Core
<1>0. MaxFrames /\ wireBA' = wireBA BY MaxParts DEF ReceiverApp
<1>1. ASSUME control' = control, pending' = pending PROVE MaxFrames' BY <1>0, <1>1, MaxFramesSame
<1>2. PICK st \in ControlFrames : st = StopFrame(f[1]) /\ st.type = "stop" BY StreamFacts, FrameTypes
<1>3. (MaxOK(st))' BY <1>2 DEF MaxOK
<1>4. ASSUME NEW n \in 1 .. Chunk, Read(f, n) PROVE MaxFrames'
  <2>1. rx[f].st = "held" /\ UNCHANGED fronts BY <1>4, ReadCases
  <2>2. CASE UNCHANGED <<control, pending>> BY <1>1, <2>2
  <2>3. ASSUME NEW k \in Nat, ReportConsumed(f, k) PROVE MaxFrames'
    <3>1. PICK m \in Nat : m = strR'[f].max BY DEF Types, CreditTypes, CreditState
    <3>2. PICK g \in ControlFrames : g = MaxStreamData(f[1], m) /\ g.type = "max_stream_data" /\ g.id = f[1] /\ g.max = m
      BY StreamFacts, FrameTypes
    <3>3. control' \in {control, Append(control, g)} BY <2>3, <3>1, <3>2, ReportTypes
    <3>4. (MaxOK(g))'
      <4>1. SUFFICES ASSUME fronts'[f[1]] <= 1 PROVE m <= strR'[<<f[1], 1>>].max BY <3>2 DEF MaxOK
      <4>2. f[2] <= fronts[f[1]] /\ fronts[f[1]] \in Nat /\ f = <<f[1], f[2]>> /\ f[2] \in 1 .. MaxFronts
        BY <2>1, StreamFacts, CreditNats DEF MapInv, FrontInv
      <4>3. f = <<f[1], 1>> BY <2>1, <4>1, <4>2, FrontBound
      <4> QED BY <3>1, <4>3
    <3>5. PICK c \in Nat : c = connR'.max BY PrimedNats
    <3>6. PICK d \in ControlFrames : d = MaxData(c) /\ d.type = "max_data" /\ d.max = c BY FrameTypes
    <3>7. (MaxOK(d))' BY <3>5, <3>6 DEF MaxOK
    <3>8. PICK h \in {NoFrame, d} : pending' = [pending EXCEPT ![f] = h] BY <2>3, <3>5, <3>6, ReportTypes
    <3>9. ASSUME NEW e \in Fronts PROVE pending'[e] \in {pending[e], NoFrame} \/ (MaxOK(pending[e]))'
      <4>1. pending'[e] \in {pending[e], NoFrame} \/ pending'[e] = d BY <3>8 DEF Types, AppTypes
      <4>2. pending'[e] = d => (MaxOK(pending[e]))' BY <3>7 DEF MaxOK
      <4> QED BY <4>1, <4>2
    <3> QED BY <1>0, <3>3, <3>4, <3>9, MaxFramesAdd
  <2> QED BY <1>4, <2>2, <2>3, ReadCases
<1>5. CASE ReadReset(f) \/ AwaitClosed(f) BY <1>1, <1>5 DEF ReadReset, AwaitClosed
<1>6. CASE Stop(f)
  <2>1. control' = Append(control, st) /\ pending' = pending BY <1>2, <1>6 DEF Stop
  <2> QED BY <1>0, <1>3, <2>1, MaxFramesAdd
<1>7. CASE DropRecv(f)
  <2>1. control' \in {control, Append(control, st)} BY <1>2, <1>7 DEF DropRecv
  <2>2. PICK m \in Nat : m = limR'.max BY PrimedNats
  <2>3. PICK g \in ControlFrames : g = MaxStreams(m) /\ g.type = "max_streams" /\ g.max = m BY FrameTypes
  <2>4. (MaxOK(g))' BY <2>2, <2>3 DEF MaxOK
  <2>5. pending' = pending \/ pending' = [pending EXCEPT ![f] = NoFrame] \/ pending' = [pending EXCEPT ![f] = g]
    BY <1>7, <2>2, <2>3 DEF DropRecv
  <2>6. ASSUME NEW e \in Fronts PROVE pending'[e] \in {pending[e], NoFrame} \/ (MaxOK(pending[e]))'
    <3>1. pending'[e] \in {pending[e], NoFrame} \/ pending'[e] = g BY <2>5 DEF Types, AppTypes
    <3>2. pending'[e] = g => (MaxOK(pending[e]))' BY <2>4 DEF MaxOK
    <3> QED BY <3>1, <3>2
  <2> QED BY <1>0, <1>3, <2>1, <2>6, MaxFramesAdd
<1>8. CASE SendPending(f)
  <2>1. PICK g \in ControlFrames : g = pending[f] /\ MaxOK(g) /\ control' = Append(control, g)
    BY <1>0, <1>8 DEF SendPending, MaxFrames, Types, AppTypes
  <2>2. (MaxOK(g))' BY <2>1, MaxOKKeeps
  <2>3. \A e \in Fronts : pending'[e] \in {pending[e], NoFrame} BY <1>8 DEF SendPending, Types, AppTypes
  <2> QED BY <1>0, <2>1, <2>2, <2>3, MaxFramesAdd
<1> QED BY <1>4, <1>5, <1>6, <1>7, <1>8 DEF ReceiverApp

\* The limits agree at the start.
LEMMA InitMax == Init => MaxInv
<1> SUFFICES ASSUME Init PROVE MaxInv OBVIOUS
<1>0. /\ control = <<>> /\ wireBA = <<>> /\ reader.pc = "idle" /\ openC = NewCredit(StreamLimit) /\ limR = openC
      /\ connS = NewCredit(ConnWindow) /\ connR = connS
      /\ \A f \in Fronts : pending[f] = NoFrame /\ strR[f] = NewCredit(StreamWindow)
      /\ \A s \in Streams : strS[s] = NewCredit(StreamWindow) BY DEF Init, Idle
<1>1. \A n \in Nat : NewCredit(n).used <= NewCredit(n).max /\ NewCredit(n).max <= NewCredit(n).max BY DEF NewCredit
<1>2. StreamLimit \in Nat /\ ConnWindow \in Nat /\ StreamWindow \in Nat /\ \A s \in Streams : <<s, 1>> \in Fronts
  BY SizesAreNatural, StreamFacts
<1>3. /\ openC.used <= openC.max /\ openC.max <= limR.max /\ connS.used <= connS.max /\ connS.max <= connR.max
  BY <1>0, <1>1, <1>2
<1>4. \A s \in Streams : strS[s].used <= strS[s].max /\ strS[s].max <= strR[<<s, 1>>].max BY <1>0, <1>1, <1>2
<1> QED BY <1>0, <1>3, <1>4 DEF MaxInv

\* Every step keeps the limits in agreement.
LEMMA NextMax ==
  ASSUME Core, StreamAccounting, MaxInv, [Next]_vars
  PROVE  MaxInv'
<1>0. Types /\ Types' /\ Grows /\ MaxFrames /\ MaxReader /\ MaxSender BY NextTypes, NextGrows, MaxParts DEF Core
<1>1. ASSUME MaxFrames', MaxReader', MaxSender' PROVE MaxInv' BY <1>1 DEF MaxInv, MaxFrames, MaxReader, MaxSender
<1>2. CASE UNCHANGED vars
  <2>1. UNCHANGED <<reader, control, wireBA, pending, openC, connS, strS>>
    BY <1>2 DEF vars, readerVars, appVars, senderVars
  <2> QED BY <1>0, <1>1, <2>1, MaxFramesSame, MaxReaderKeep, MaxSenderSame
<1>3. ASSUME NEW s \in Streams, SenderApp(s) PROVE MaxInv'
  <2>1. UNCHANGED <<reader, control, wireBA, pending>> BY <1>3 DEF SenderApp, readerVars, appVars
  <2> QED BY <1>0, <1>1, <1>3, <2>1, MaxFramesSame, MaxReaderKeep, MaxSenderApp
<1>4. CASE SenderWriter
  <2>1. UNCHANGED <<reader, control, wireBA, pending, openC, connS, strS>>
    BY <1>4 DEF SenderWriter, TransmitReset, TransmitStream, readerVars, appVars
  <2> QED BY <1>0, <1>1, <2>1, MaxFramesSame, MaxReaderKeep, MaxSenderSame
<1>5. CASE SenderReader BY <1>0, <1>1, <1>5, MaxRecvControl
<1>6. CASE ReceiverReader
  <2>1. UNCHANGED <<openC, connS, strS>> BY <1>6 DEF ReceiverReader, senderVars
  <2> QED BY <1>0, <1>1, <1>6, <2>1, MaxReaderStep, MaxSenderSame
<1>7. CASE Accept
  <2>1. UNCHANGED <<reader, control, wireBA, pending, openC, connS, strS>> BY <1>7 DEF Accept, AcceptUni, senderVars
  <2> QED BY <1>0, <1>1, <2>1, MaxFramesSame, MaxReaderKeep, MaxSenderSame
<1>8. CASE ReceiverWriter
  <2>1. UNCHANGED <<reader, openC, connS, strS>> BY <1>8 DEF ReceiverWriter, TransmitControl, senderVars
  <2> QED BY <1>0, <1>1, <1>8, <2>1, MaxControlOut, MaxReaderKeep, MaxSenderSame
<1>9. ASSUME NEW f \in Fronts, ReceiverApp(f) PROVE MaxInv'
  <2>1. UNCHANGED <<reader, openC, connS, strS>> BY <1>9, ReceiverAppFrame DEF AppFrame, senderVars
  <2> QED BY <1>0, <1>1, <1>9, <2>1, MaxApp, MaxReaderKeep, MaxSenderSame
<1> QED BY <1>2, <1>3, <1>4, <1>5, <1>6, <1>7, <1>8, <1>9 DEF Next

----------------------------------------------------------------------------
(* What the receiver holds                                                *)

\* HeldInv for one receiving half.
HeldOne(f) ==
  /\ strR[f].max + strR[f].released = StreamWindow + got[f] /\ got[f] + Buffered(f) + InHand(f) <= strR[f].used

\* What a receiving half holds is a natural number.
LEMMA BufferedIsNat ==
  ASSUME Types, NEW f \in Fronts
  PROVE  Buffered(f) \in Nat /\ InHand(f) \in Nat /\ got[f] \in Nat
<1>1. rx[f].buf.len \in Nat /\ rx[f].data \in Seq(StreamFrames) /\ got[f] \in Nat BY RxFields DEF Types, AppTypes
<1>2. Bytes(rx[f].data) \in Nat BY <1>1, BytesFacts
<1>3. InHand(f) \in Nat BY ReaderFields DEF Types, InHand, StreamPcs
<1> QED BY <1>1, <1>2, <1>3 DEF Buffered

\* A receiving half whose data is untouched holds what it held.
LEMMA BufferedSame ==
  ASSUME NEW f, rx'[f].buf = rx[f].buf, rx'[f].data = rx[f].data
  PROVE  (Buffered(f))' = Buffered(f) BY DEF Buffered

\* A step that adds to a receiving half no more than it counts keeps HeldOne.
LEMMA HeldSame ==
  ASSUME Types, Types', NEW f \in Fronts, HeldOne(f), strR'[f].max = strR[f].max, strR'[f].released = strR[f].released,
         got'[f] = got[f], NEW n \in Nat,
         strR'[f].used = strR[f].used + n,
         (Buffered(f))' + (InHand(f))' <= Buffered(f) + InHand(f) + n
  PROVE  (HeldOne(f))'
<1>1. Buffered(f) \in Nat /\ InHand(f) \in Nat /\ got[f] \in Nat BY BufferedIsNat
<1>2. (Buffered(f))' \in Nat /\ (InHand(f))' \in Nat
  <2>1. rx'[f].buf.len \in Nat /\ rx'[f].data \in Seq(StreamFrames) BY DEF Types, AppTypes, RxStates
  <2>2. Bytes(rx'[f].data) \in Nat BY <2>1, BytesFacts
  <2>3. reader'.pc \in {"accept", "insert"} => reader'.frame.len \in Nat
    BY FrameFields DEF Types, ReaderTypes, StreamPcs
  <2> QED BY <2>1, <2>2, <2>3 DEF Buffered, InHand
<1>3. strR[f].used \in Nat BY CreditNats
<1> QED BY <1>1, <1>2, <1>3 DEF HeldOne

\* Nothing that the accounts of a RecvStream are about changes.
LEMMA HeldQuiet ==
  ASSUME Types, Types', NEW f \in Fronts, HeldOne(f), strR'[f] = strR[f], got'[f] = got[f],
         rx'[f].buf = rx[f].buf, rx'[f].data = rx[f].data, (InHand(f))' \in {0, InHand(f)}
  PROVE  (HeldOne(f))'
<1>1. (Buffered(f))' = Buffered(f) BY BufferedSame
<1>2. Buffered(f) \in Nat /\ InHand(f) \in Nat /\ got[f] \in Nat /\ strR[f].used \in Nat BY BufferedIsNat, CreditNats
<1>3. (Buffered(f))' + (InHand(f))' <= Buffered(f) + InHand(f) + 0 /\ strR'[f].used = strR[f].used + 0 BY <1>1, <1>2
<1> QED BY <1>3, HeldSame

\* What a RecvStream holds after it was handed a frame.
LEMMA HandsBytes ==
  ASSUME Types, NEW f \in Fronts, NEW fr \in StreamFrames,
         rx' = IF fr.len = 0 /\ ~fr.fin THEN rx ELSE Deliver(f, fr)
  PROVE  /\ \A g \in Fronts : g # f => rx'[g] = rx[g]
         /\ (Buffered(f))' <= Buffered(f) + fr.len
<1>1. /\ \A g \in Fronts : g # f => rx'[g] = rx[g]
      /\ rx'[f].buf = rx[f].buf
      /\ rx'[f].data = rx[f].data \/ rx'[f].data = Append(rx[f].data, fr) BY Hands
<1>2. rx[f].buf.len \in Nat /\ rx[f].data \in Seq(StreamFrames) /\ fr.len \in Nat BY RxFields, FrameFields DEF Types
<1>3. PICK b \in Nat : b = Bytes(rx[f].data) BY <1>2, BytesFacts
<1>4. Bytes(Append(rx[f].data, fr)) = b + fr.len BY <1>2, <1>3, BytesFacts
<1>5. Bytes(rx'[f].data) = b \/ Bytes(rx'[f].data) = b + fr.len BY <1>1, <1>3, <1>4
<1>6. (Buffered(f))' = rx'[f].buf.len + Bytes(rx'[f].data) /\ Buffered(f) = rx[f].buf.len + b BY <1>3 DEF Buffered
<1> QED BY <1>1, <1>2, <1>5, <1>6

\* A read takes from the receiving half what it returns.
LEMMA ReadTakes ==
  ASSUME Types, NEW f \in Fronts, NEW max \in 1 .. Chunk, Read(f, max)
  PROVE  (Buffered(f))' = Buffered(f) - Taken(f, max)
<1>1. PICK n \in Nat : n = Taken(f, max) BY ReadCases
<1>2. /\ rx[f].buf.len \in Nat /\ rx[f].data \in Seq(StreamFrames) BY RxFields DEF Types
<1>3. (Buffered(f))' = Buffered(f) - n
  <2>1. PICK b \in Nat : b = Bytes(rx[f].data) BY <1>2, BytesFacts
  <2>2. rx'[f].buf.len = Source(f).len - n BY <1>1, ReadEffect
  <2>3. (Buffered(f))' = rx'[f].buf.len + Bytes(rx'[f].data) /\ Buffered(f) = rx[f].buf.len + b BY <2>1 DEF Buffered
  <2>4. CASE rx[f].buf.len = 0
    <3>1. rx[f].data # <<>> /\ rx'[f].data = Tail(rx[f].data) /\ Source(f) = Head(rx[f].data)
      BY <2>4, ReadCases, ReadEffect DEF Source
    <3>2. Bytes(rx'[f].data) = b - Head(rx[f].data).len BY <1>2, <2>1, <3>1, BytesFacts
    <3>3. PICK l \in Nat : l = Head(rx[f].data).len BY <3>1, ReadCases
    <3> QED BY <2>2, <2>3, <2>4, <3>1, <3>2, <3>3
  <2>5. CASE rx[f].buf.len # 0
    <3>1. rx'[f].data = rx[f].data /\ Source(f) = rx[f].buf BY <2>5, ReadEffect DEF Source
    <3> QED BY <1>2, <2>1, <2>2, <2>3, <3>1
  <2> QED BY <2>4, <2>5
<1> QED BY <1>1, <1>3

\* A read moves the window by what it returns.
LEMMA HeldRead ==
  ASSUME Types, Types', NEW f \in Fronts, HeldOne(f), NEW max \in 1 .. Chunk, Read(f, max)
  PROVE  (HeldOne(f))'
<1>1. PICK n \in Nat : n = Taken(f, max) BY ReadCases
<1>2. /\ rx[f].buf.len \in Nat /\ rx[f].data \in Seq(StreamFrames) /\ got[f] \in Nat
      /\ Buffered(f) \in Nat /\ InHand(f) \in Nat /\ strR[f].used \in Nat /\ strR[f].max \in Nat /\ strR[f].released \in Nat
      /\ strR[f] \in CreditState /\ StreamWindow \in Nat
  BY RxFields, BufferedIsNat, CreditNats, SizesAreNatural DEF Types
<1>3. (Buffered(f))' = Buffered(f) - n BY <1>1, ReadTakes
<1>4. got'[f] = got[f] + n /\ (InHand(f))' = InHand(f) BY <1>1, ReadCases DEF Types, AppTypes, InHand
<1>5. strR'[f].used = strR[f].used /\ strR'[f].max + strR'[f].released = strR[f].max + strR[f].released + n
  <2>1. CASE n = 0 /\ strR' = strR BY <1>2, <2>1
  <2>2. CASE ReportConsumed(f, n)
    <3>1. PICK c : c = Consume(strR[f], n) OBVIOUS
    <3>2. c.used = strR[f].used /\ c.max + c.released = strR[f].max + strR[f].released + n
      BY <1>2, <3>1, ConsumeFields, ZenonT(30)
    <3>3. strR'[f] = c BY <2>2, <3>1, ReportTypes DEF Types, CreditTypes
    <3> QED BY <3>2, <3>3
  <2> QED BY <1>1, <2>1, <2>2, ReadCases
<1>6. strR[f].max + strR[f].released = StreamWindow + got[f] /\ got[f] + Buffered(f) + InHand(f) <= strR[f].used
  BY DEF HeldOne
<1>7. strR'[f].max + strR'[f].released = StreamWindow + got'[f] BY <1>2, <1>4, <1>5, <1>6
<1>8. got'[f] + (Buffered(f))' + (InHand(f))' <= strR'[f].used BY <1>2, <1>3, <1>4, <1>5, <1>6
<1> QED BY <1>7, <1>8 DEF HeldOne

\* No other call of the receiving application adds to what is held or moves a
\* window.
LEMMA AppTakes ==
  ASSUME Types, NEW f \in Fronts,
         ReadReset(f) \/ AwaitClosed(f) \/ Stop(f) \/ DropRecv(f) \/ SendPending(f)
  PROVE  (Buffered(f))' <= Buffered(f) /\ UNCHANGED <<strR, got, connR>>
<1>0. rx[f] \in RxStates /\ rx[f].data \in Seq(StreamFrames) /\ rx[f].buf.len \in Nat /\ Buffered(f) \in Nat
  BY RxFields, BufferedIsNat DEF Types, AppTypes
<1>1. UNCHANGED <<strR, got, connR>> BY DEF ReadReset, AwaitClosed, Stop, DropRecv, SendPending, creditVars
<1>2. CASE ReadReset(f) \/ Stop(f)
  <2>1. \/ rx'[f] = [rx[f] EXCEPT !.closed = "reset", !.reset = FALSE]
        \/ rx'[f] = [rx[f] EXCEPT !.closed = "stop"] BY <1>2, AppEffects
  <2>2. rx'[f].buf = rx[f].buf /\ rx'[f].data = rx[f].data BY <1>0, <2>1 DEF RxStates
  <2> QED BY <1>0, <1>1, <2>2, BufferedSame
<1>3. CASE AwaitClosed(f)
  <2>1. PICK b : b = [off |-> Head(rx[f].data).off, len |-> Head(rx[f].data).len] OBVIOUS
  <2>2. rx[f].data # <<>> BY <1>3 DEF AwaitClosed
  <2>3. rx'[f].buf = b /\ rx'[f].data = Tail(rx[f].data)
    <3>1. rx'[f] = [rx[f] EXCEPT !.buf = b, !.data = Tail(rx[f].data), !.fin = Head(rx[f].data).fin]
      BY <1>3, <2>1, AppEffects
    <3> QED BY <1>0, <3>1 DEF RxStates
  <2>4. Bytes(rx'[f].data) = Bytes(rx[f].data) - Head(rx[f].data).len /\ Bytes(rx[f].data) \in Nat
    BY <1>0, <2>2, <2>3, BytesFacts
  <2>5. b.len = Head(rx[f].data).len /\ Head(rx[f].data).len \in Nat BY <1>0, <2>1, <2>2, SeqTail, FrameFields
  <2>6. (Buffered(f))' <= Buffered(f) BY <1>0, <2>3, <2>4, <2>5 DEF Buffered
  <2> QED BY <1>1, <2>6
<1>4. CASE DropRecv(f)
  <2>1. PICK b : b = [off |-> 0, len |-> 0] OBVIOUS
  <2>2. rx'[f].buf = b /\ rx'[f].data = <<>>
    <3>1. PICK c : rx'[f] = [rx[f] EXCEPT !.st = "dropped", !.data = <<>>, !.buf = b, !.closed = c]
      BY <1>4, <2>1, AppEffects
    <3> QED BY <1>0, <3>1 DEF RxStates
  <2>3. b.len = 0 BY <2>1
  <2>4. (Buffered(f))' = 0 BY <2>2, <2>3, NoBytes DEF Buffered
  <2> QED BY <1>0, <1>1, <2>4
<1>5. CASE SendPending(f)
  <2>1. rx' = rx BY <1>5 DEF SendPending
  <2> QED BY <1>0, <1>1, <2>1, BufferedSame
<1> QED BY <1>2, <1>3, <1>4, <1>5

\* A step of the receiving application keeps HeldInv.
LEMMA HeldApp ==
  ASSUME Core, Types', HeldInv, NEW f \in Fronts, ReceiverApp(f), NEW g \in Fronts
  PROVE  (HeldOne(g))'
<1> USE DEF Core
<1>0. HeldOne(g) /\ HeldOne(f) BY DEF HeldInv, HeldOne
<1>1. (InHand(g))' = InHand(g) /\ (InHand(f))' = InHand(f) BY ReceiverAppFrame DEF AppFrame, InHand
<1>2. CASE g # f
  <2>1. rx'[g] = rx[g] /\ got'[g] = got[g] /\ strR'[g] = strR[g] BY <1>2, AppSteps DEF AppStep, MapInv
  <2> QED BY <1>0, <1>1, <2>1, HeldQuiet
<1>3. ASSUME NEW n \in 1 .. Chunk, Read(f, n) PROVE (HeldOne(f))' BY <1>0, <1>3, HeldRead
<1>5. ASSUME strR' = strR, got' = got, (Buffered(f))' <= Buffered(f) PROVE (HeldOne(f))'
  <2>1. Buffered(f) \in Nat /\ InHand(f) \in Nat /\ strR[f].used \in Nat BY BufferedIsNat, CreditNats
  <2>2. PICK b \in Nat : b = (Buffered(f))'
    <3>1. rx'[f].buf.len \in Nat /\ rx'[f].data \in Seq(StreamFrames) BY DEF Types, AppTypes, RxStates
    <3>2. Bytes(rx'[f].data) \in Nat BY <3>1, BytesFacts
    <3> QED BY <3>1, <3>2 DEF Buffered
  <2>3. (Buffered(f))' + (InHand(f))' <= Buffered(f) + InHand(f) + 0 /\ strR'[f].used = strR[f].used + 0
    BY <1>1, <1>5, <2>1, <2>2
  <2> QED BY <1>0, <1>5, <2>3, HeldSame
<1>6. ASSUME ReadReset(f) \/ AwaitClosed(f) \/ Stop(f) \/ DropRecv(f) \/ SendPending(f) PROVE (HeldOne(f))'
  BY <1>5, <1>6, AppTakes
<1>10. g = f => (HeldOne(g))' BY <1>3, <1>6 DEF ReceiverApp
<1> QED BY <1>2, <1>10

\* A reader that is not making a stream holds nothing for one.
LEMMA NoneInHand ==
  ASSUME reader.pc \notin {"accept", "insert"}
  PROVE  \A f : InHand(f) = 0 BY DEF InHand

\* The same after a step.
LEMMA NoneInHandAfter ==
  ASSUME reader'.pc \notin {"accept", "insert"}
  PROVE  \A f : (InHand(f))' = 0 BY DEF InHand

\* A credit that took n more bytes, for a RecvStream that holds at most n more.
LEMMA HeldTakes ==
  ASSUME Types, Types', NEW f \in Fronts, HeldOne(f), NEW n \in Nat, strR'[f] = Receive(strR[f], n), got'[f] = got[f],
         (Buffered(f))' + (InHand(f))' <= Buffered(f) + InHand(f) + n
  PROVE  (HeldOne(f))'
<1>1. PICK c : c = Receive(strR[f], n) OBVIOUS
<1>2. c.used = strR[f].used + n /\ c.max = strR[f].max /\ c.released = strR[f].released
  BY <1>1, CreditNats, ReceiveFields
<1> QED BY <1>1, <1>2, HeldSame

\* Handing a frame to a live stream keeps HeldInv.
LEMMA HeldRouteLive ==
  ASSUME Types, Types', MapInv, HeldInv, reader.pc = "stream", NEW s \in Streams, NEW fr \in StreamFrames,
         RouteLive(s, <<s, recvMap[s]>>, fr), got' = got, NEW g \in Fronts
  PROVE  (HeldOne(g))'
<1>1. PICK f \in Fronts : f = <<s, recvMap[s]>> BY Routed DEF RouteLive, MapInv
<1>2. /\ rx' = IF fr.len = 0 /\ ~fr.fin THEN rx ELSE Deliver(f, fr)
      /\ strR' = [strR EXCEPT ![f] = Receive(@, fr.len)] /\ reader' = Idle BY <1>1 DEF RouteLive
<1>3. InHand(g) = 0 /\ (InHand(g))' = 0 BY <1>2, NoneInHand, NoneInHandAfter, ReaderAt DEF Types
<1>4. fr.len \in Nat /\ HeldOne(g) BY FrameFields DEF HeldInv, HeldOne
<1>5. /\ \A e \in Fronts : e # f => rx'[e] = rx[e]
      /\ (Buffered(f))' <= Buffered(f) + fr.len BY <1>2, HandsBytes
<1>6. strR'[f] = Receive(strR[f], fr.len) /\ \A e \in Fronts : e # f => strR'[e] = strR[e]
  BY <1>2 DEF Types, CreditTypes
<1>7. CASE g # f BY <1>3, <1>4, <1>5, <1>6, <1>7, HeldQuiet
<1>8. CASE g = f
  <2>1. PICK b \in Nat : b = (Buffered(f))'
    <3>1. rx'[f].buf.len \in Nat /\ rx'[f].data \in Seq(StreamFrames) BY DEF Types, AppTypes, RxStates
    <3>2. Bytes(rx'[f].data) \in Nat BY <3>1, BytesFacts
    <3> QED BY <3>1, <3>2 DEF Buffered
  <2>2. (Buffered(g))' + (InHand(g))' <= Buffered(g) + InHand(g) + fr.len BY <1>3, <1>4, <1>5, <1>8, <2>1, BufferedIsNat
  <2> QED BY <1>4, <1>6, <1>8, <2>2, HeldTakes
<1> QED BY <1>7, <1>8

\* Making a receiving half keeps HeldInv: the frame is counted and in the
\* reader's hand.
LEMMA HeldRouteNew ==
  ASSUME Types, Types', MapInv, ReaderMapInv, HeldInv, reader.pc = "stream",
         NEW s \in Streams, s = reader.frame.id, RouteNew(s, reader.frame), got' = got, NEW g \in Fronts
  PROVE  (HeldOne(g))'
<1>1. /\ fronts' = [fronts EXCEPT ![s] = @ + 1] /\ fronts[s] < MaxFronts
      /\ strR' = [strR EXCEPT ![<<s, fronts[s] + 1>>] = Receive(NewCredit(StreamWindow), reader.frame.len)]
      /\ reader' = [reader EXCEPT !.pc = "accept"] /\ rx' = rx BY DEF RouteNew
<1>2. fronts[s] \in Nat /\ fronts[s] + 1 \in 1 .. MaxFronts /\ fronts'[s] = fronts[s] + 1
  <2>1. fronts \in [Streams -> 0 .. MaxFronts] BY DEF Types, ReaderTypes
  <2>2. PICK n \in 0 .. MaxFronts : n = fronts[s] BY <2>1
  <2>3. n \in Nat /\ n + 1 \in 1 .. MaxFronts BY <1>1, <2>2, FrontBound
  <2>4. fronts'[s] = n + 1 BY <1>1, <2>1, <2>2
  <2> QED BY <2>2, <2>3, <2>4
<1>3. PICK f \in Fronts : f = <<s, fronts[s] + 1>> /\ f[1] = s /\ f[2] = fronts[s] + 1 BY <1>2, FrontOf
<1>4. reader'.pc = "accept" /\ reader'.frame = reader.frame /\ reader.frame.len \in Nat
  BY <1>1, ReaderAt, ReaderFields DEF Types, StreamPcs
<1>5. PICK n \in Nat : n = reader.frame.len BY <1>4
<1>6. (InHand(f))' = n /\ \A e \in Fronts : e # f => (InHand(e))' = 0 BY <1>2, <1>3, <1>4, <1>5 DEF InHand
<1>7. HeldOne(g) BY DEF HeldInv, HeldOne
<1>8. CASE g # f
  <2>1. strR'[g] = strR[g] BY <1>1, <1>3, <1>8 DEF Types, CreditTypes
  <2> QED BY <1>1, <1>6, <1>7, <1>8, <2>1, HeldQuiet
<1>9. CASE g = f
  <2>1. rx[f].st = "none" BY <1>2, <1>3 DEF MapInv, FrontInv
  <2>2. Fresh(f) BY <2>1 DEF MapInv, FreshInv
  <2>3. (Buffered(f))' = 0 /\ got'[f] = 0 BY <1>1, <2>2, NoBytes DEF Fresh, Buffered
  <2>4. PICK c : c = NewCredit(StreamWindow) OBVIOUS
  <2>5. PICK d : d = Receive(c, n) OBVIOUS
  <2>6. d.used = n /\ d.max = StreamWindow /\ d.released = 0 /\ StreamWindow \in Nat
    BY <2>4, <2>5, FreshFields, ReceiveFields
  <2>7. strR'[f] = d BY <1>1, <1>3, <1>5, <2>4, <2>5 DEF Types, CreditTypes
  <2> QED BY <1>6, <1>9, <2>3, <2>6, <2>7 DEF HeldOne
<1> QED BY <1>8, <1>9

\* Entering a stream in the map keeps HeldInv: what was in the reader's hand is
\* queued.
LEMMA HeldInsert ==
  ASSUME Types, Types', MapInv, ReaderMapInv, HeldInv, InsertStream, got' = got, NEW g \in Fronts
  PROVE  (HeldOne(g))'
<1>1. PICK fr \in StreamFrames, s \in Streams, f \in Fronts :
         /\ fr = reader.frame /\ s = fr.id /\ f = <<s, fronts[s]>> /\ reader.pc = "insert"
         /\ rx' = (IF fr.len = 0 /\ ~fr.fin THEN rx ELSE Deliver(f, fr)) /\ reader' = Idle /\ UNCHANGED strR
         /\ fr.len \in Nat BY InsertCases
<1>2. InHand(f) = fr.len /\ (InHand(g))' = 0 /\ (InHand(f))' = 0 BY <1>1, NoneInHandAfter, ReaderAt DEF InHand, Types
<1>3. HeldOne(g) BY DEF HeldInv, HeldOne
<1>4. /\ \A e \in Fronts : e # f => rx'[e] = rx[e]
      /\ (Buffered(f))' <= Buffered(f) + fr.len BY <1>1, HandsBytes
<1>5. CASE g # f BY <1>1, <1>2, <1>3, <1>4, <1>5, HeldQuiet
<1>6. CASE g = f
  <2>1. PICK b \in Nat : b = (Buffered(f))'
    <3>1. rx'[f].buf.len \in Nat /\ rx'[f].data \in Seq(StreamFrames) BY DEF Types, AppTypes, RxStates
    <3>2. Bytes(rx'[f].data) \in Nat BY <3>1, BytesFacts
    <3> QED BY <3>1, <3>2 DEF Buffered
  <2>2. (Buffered(g))' + (InHand(g))' <= Buffered(g) + InHand(g) + 0 /\ strR[g].used \in Nat
    BY <1>1, <1>2, <1>4, <1>6, <2>1, BufferedIsNat, CreditNats
  <2> QED BY <1>1, <1>3, <2>2, HeldSame
<1> QED BY <1>5, <1>6

\* Handling a reset keeps HeldInv.
LEMMA HeldReset ==
  ASSUME Types, Types', MapInv, ReaderMapInv, HeldInv, RecvReset \/ AccountReset \/ RetireReset, got' = got, NEW g \in Fronts
  PROVE  (HeldOne(g))'
<1>0. HeldOne(g) BY DEF HeldInv, HeldOne
<1>1. reader.pc \notin {"accept", "insert"} /\ reader'.pc \notin {"accept", "insert"}
  <2>1. CASE AccountReset \/ RetireReset BY <2>1, ReaderGoesOn, Zenon DEF AccountReset, RetireReset
  <2>2. CASE RecvReset
    <3>1. PICK fr \in ResetFrames : /\ reader.pc = "idle"
                                    /\ \/ ResetLate(fr.id) \/ ResetFail(fr.id)
                                       \/ \E live \in BOOLEAN : ResetTake(fr, live) BY <2>2, RecvResetCases
    <3>2. CASE ResetLate(fr.id) \/ ResetFail(fr.id) BY <3>1, <3>2, ReaderAt DEF ResetLate, ResetFail, Fail, Types
    <3>3. ASSUME NEW live \in BOOLEAN, ResetTake(fr, live) PROVE reader'.pc = "reset" BY <3>3 DEF ResetTake, Idle
    <3> QED BY <3>1, <3>2, <3>3
  <2> QED BY <2>1, <2>2
<1>2. InHand(g) = 0 /\ (InHand(g))' = 0 BY <1>1, NoneInHand, NoneInHandAfter
<1>3. CASE RecvReset
  <2>1. rx' = rx /\ strR' = strR
    <3>1. PICK fr \in ResetFrames : \/ ResetLate(fr.id) \/ ResetFail(fr.id)
                                    \/ \E live \in BOOLEAN : ResetTake(fr, live) BY <1>3, RecvResetCases
    <3> QED BY <3>1 DEF ResetLate, ResetFail, ResetTake, Fail, creditVars
  <2> QED BY <1>0, <1>2, <2>1, HeldQuiet
<1>4. CASE AccountReset
  <2>1. PICK s \in Streams, n \in Nat : /\ s = reader.frame.id /\ n = reader.frame.final /\ Gap(s, n) \in Nat
                                        /\ (Fail("panic") \/ AccountFlow(s, n) \/ Account(s, n)) BY <1>4, AccountCases
  <2>2. CASE Fail("panic") \/ AccountFlow(s, n)
    <3>1. rx' = rx /\ strR' = strR BY <2>2 DEF AccountFlow, Fail, creditVars
    <3> QED BY <1>0, <1>2, <3>1, HeldQuiet
  <2>3. CASE Account(s, n)
    <3>1. PICK k \in Nat : k = Gap(s, n) BY <2>1
    <3>2. /\ rx' = rx
          /\ \/ strR' = strR
             \/ recvMap[s] # 0 /\ strR' = [strR EXCEPT ![<<s, recvMap[s]>>] = Receive(@, k)] BY <2>3, <3>1 DEF Account
    <3>3. CASE recvMap[s] # 0 /\ strR' = [strR EXCEPT ![<<s, recvMap[s]>>] = Receive(@, k)]
      <4>1. PICK f \in Fronts : f = <<s, recvMap[s]>> BY <3>3, Routed DEF MapInv
      <4>2. strR'[f] = Receive(strR[f], k) /\ \A e \in Fronts : e # f => strR'[e] = strR[e]
        BY <3>3, <4>1 DEF Types, CreditTypes
      <4>3. CASE g # f BY <1>0, <1>2, <3>2, <4>2, <4>3, HeldQuiet
      <4>4. CASE g = f
        <5>1. (Buffered(g))' = Buffered(g) /\ Buffered(g) \in Nat BY <3>2, BufferedSame, BufferedIsNat
        <5>2. (Buffered(g))' + (InHand(g))' <= Buffered(g) + InHand(g) + k BY <1>2, <5>1
        <5> QED BY <1>0, <4>2, <4>4, <5>2, HeldTakes
      <4> QED BY <4>3, <4>4
    <3> QED BY <1>0, <1>2, <3>2, <3>3, HeldQuiet
  <2> QED BY <2>1, <2>2, <2>3
<1>5. CASE RetireReset
  <2>1. PICK s \in Streams : /\ UNCHANGED strR /\ (recvMap[s] # 0 => <<s, recvMap[s]>> \in Fronts)
                             /\ RetireLive(s) \/ RetireOwn(s) \/ RetireUnseen(s) BY <1>5, RetireCases
  <2>2. \/ rx' = rx
        \/ recvMap[s] # 0 /\ rx' = [rx EXCEPT ![<<s, recvMap[s]>>].reset = TRUE]
    BY <2>1 DEF RetireLive, RetireOwn, RetireUnseen
  <2>3. \A e \in Fronts : rx'[e].buf = rx[e].buf /\ rx'[e].data = rx[e].data BY <2>1, <2>2, RxResets DEF Types
  <2> QED BY <1>0, <1>2, <2>1, <2>3, HeldQuiet
<1> QED BY <1>3, <1>4, <1>5

\* A step of the reader keeps HeldInv.
LEMMA HeldReader ==
  ASSUME Core, Types', HeldInv, ReceiverReader, NEW g \in Fronts
  PROVE  (HeldOne(g))'
<1> USE DEF Core
<1>0. got' = got /\ HeldOne(g) BY DEF ReceiverReader, HeldInv, HeldOne
<1>1. CASE RecvStream
  <2>1. PICK fr \in StreamFrames : reader.pc = "idle" /\ (TakeLate(fr) \/ TakeFail(fr) \/ Take(fr))
    BY <1>1, RecvStreamCases
  <2>2. rx' = rx /\ strR' = strR /\ (reader' = reader \/ reader'.pc \in {"idle", "stream"})
    <3>1. [Idle EXCEPT !.pc = "stream", !.frame = fr].pc = "stream" /\ Idle.pc = "idle"
      BY ReaderShapes, Zenon DEF StreamPcs
    <3> QED BY <2>1, <3>1 DEF TakeLate, TakeFail, Take, Fail, creditVars
  <2>3. (InHand(g))' = 0 BY <2>1, <2>2, NoneInHandAfter
  <2> QED BY <1>0, <2>2, <2>3, HeldQuiet
<1>2. CASE RouteStream
  <2>1. PICK fr \in StreamFrames, s \in Streams :
           /\ fr = reader.frame /\ s = fr.id /\ reader.pc = "stream"
           /\ \/ RouteLive(s, <<s, recvMap[s]>>, fr) \/ RouteOwn(s)
              \/ RouteFail(s, <<s, recvMap[s]>>, fr) \/ RouteNew(s, fr) BY <1>2, RouteCases
  <2>2. CASE RouteOwn(s) \/ RouteFail(s, <<s, recvMap[s]>>, fr)
    <3>1. rx' = rx /\ strR' = strR /\ reader'.pc = "idle" BY <2>2 DEF RouteOwn, RouteFail, Fail, creditVars, Idle
    <3>2. (InHand(g))' = 0 BY <3>1, NoneInHandAfter
    <3> QED BY <1>0, <3>1, <3>2, HeldQuiet
  <2>3. CASE RouteLive(s, <<s, recvMap[s]>>, fr) BY <1>0, <2>1, <2>3, HeldRouteLive
  <2>4. CASE RouteNew(s, fr) BY <1>0, <2>1, <2>4, HeldRouteNew
  <2> QED BY <2>1, <2>2, <2>3, <2>4
<1>3. CASE OfferStream
  <2>1. PICK f \in Fronts : rx' = [rx EXCEPT ![f].st = "queued"]
    <3>1. reader.frame.id \in Streams /\ fronts[reader.frame.id] \in 1 .. MaxFronts
      BY <1>3, ReaderFields, FrontBound DEF OfferStream, Types, ReaderTypes, StreamPcs
    <3> QED BY <1>3, <3>1, FrontOf DEF OfferStream
  <2>2. \A e \in Fronts : rx'[e].buf = rx[e].buf /\ rx'[e].data = rx[e].data BY <2>1, RxMoves DEF Types
  <2>3. strR' = strR /\ fronts' = fronts /\ reader.pc = "accept" /\ reader'.pc = "insert" /\ reader'.frame = reader.frame
    BY <1>3, ReaderAt DEF OfferStream, creditVars, Types, StreamPcs
  <2>4. (InHand(g))' = InHand(g) BY <2>3 DEF InHand
  <2> QED BY <1>0, <2>2, <2>3, <2>4, HeldQuiet
<1>4. CASE InsertStream BY <1>0, <1>4, HeldInsert
<1>5. CASE ReaderGrant
  <2>1. rx' = rx /\ strR' = strR /\ reader'.pc \in {"idle", "retire"} BY <1>5, GrantCases
  <2>2. (InHand(g))' = 0 BY <2>1, NoneInHandAfter
  <2> QED BY <1>0, <2>1, <2>2, HeldQuiet
<1>6. CASE RecvReset \/ AccountReset \/ RetireReset BY <1>0, <1>6, HeldReset
<1> QED BY <1>1, <1>2, <1>3, <1>4, <1>5, <1>6 DEF ReceiverReader

\* HeldInv holds at the start.
LEMMA InitHeld == Init => HeldInv
<1> SUFFICES ASSUME Init, NEW f \in Fronts
             PROVE  /\ strR[f].max + strR[f].released = StreamWindow + got[f]
                    /\ got[f] + Buffered(f) + InHand(f) <= strR[f].used BY DEF HeldInv
<1>1. strR[f] = NewCredit(StreamWindow) /\ got[f] = 0 /\ rx[f].data = <<>> /\ rx[f].buf.len = 0 /\ reader.pc = "idle"
  BY DEF Init, Idle
<1>2. Buffered(f) = 0 /\ InHand(f) = 0 BY <1>1, NoBytes DEF Buffered, InHand
<1> QED BY <1>1, <1>2, FreshFields

\* Every step keeps HeldInv.
LEMMA NextHeld ==
  ASSUME Core, HeldInv, [Next]_vars
  PROVE  HeldInv'
<1>0. Types /\ Types' BY NextTypes DEF Core
<1>1. SUFFICES ASSUME NEW g \in Fronts PROVE (HeldOne(g))' BY DEF HeldInv, HeldOne
<1>2. HeldOne(g) BY DEF HeldInv, HeldOne
<1>3. CASE UNCHANGED <<strR, got, reader, fronts>> /\ rx'[g].buf = rx[g].buf /\ rx'[g].data = rx[g].data
  <2>1. (InHand(g))' = InHand(g) BY <1>3 DEF InHand
  <2> QED BY <1>0, <1>2, <1>3, <2>1, HeldQuiet
<1>4. ASSUME \/ \E s \in Streams : SenderApp(s)
             \/ SenderWriter \/ SenderReader \/ ReceiverWriter \/ UNCHANGED vars
      PROVE (HeldOne(g))'
  <2>1. UNCHANGED <<strR, got, reader, fronts, rx>>
    BY <1>4 DEF SenderApp, SenderWriter, SenderReader, ReceiverWriter, TransmitControl, vars, readerVars, creditVars,
      appVars
  <2> QED BY <1>3, <2>1
<1>5. CASE Accept
  <2>1. PICK f \in Fronts : rx' = [rx EXCEPT ![f].st = "held"]
    BY <1>0, <1>5, SeqTail DEF Accept, AcceptUni, Types, ReaderTypes
  <2>2. \A e \in Fronts : rx'[e].buf = rx[e].buf /\ rx'[e].data = rx[e].data BY <1>0, <2>1, RxMoves DEF Types
  <2> QED BY <1>3, <1>5, <2>2 DEF Accept, AcceptUni, creditVars
<1>6. CASE ReceiverReader BY <1>0, <1>6, HeldReader
<1>7. ASSUME NEW f \in Fronts, ReceiverApp(f) PROVE (HeldOne(g))' BY <1>0, <1>7, HeldApp
<1> QED BY <1>4, <1>5, <1>6, <1>7 DEF Next

----------------------------------------------------------------------------
(* Room in the queue                                                      *)

\* What a stream may still send fits its window: what was read came through the
\* receiver's count, which came through the transport.
LEMMA RoomIsWindow ==
  ASSUME Core, SeenInv, Running, StreamAccounting, MaxInv, HeldInv, NEW s \in Streams, fronts[s] <= 1
  PROVE  strS[s].max - strS[s].used <= StreamWindow
<1> USE DEF Core
<1>1. PICK f \in Fronts : f = <<s, 1>> BY StreamFacts
<1>2. /\ strS[s].max \in Nat /\ strS[s].used \in Nat /\ strR[f].max \in Nat /\ strR[f].used \in Nat /\ strR[f].released \in Nat
      /\ got[f] \in Nat /\ Buffered(f) \in Nat /\ InHand(f) \in Nat /\ StreamWindow \in Nat
  BY CreditNats, BufferedIsNat, SizesAreNatural
<1>3. strS[s].max <= strR[f].max BY <1>1 DEF MaxInv
<1>4. strR[f].max + strR[f].released = StreamWindow + got[f] /\ got[f] + Buffered(f) + InHand(f) <= strR[f].used
  BY DEF HeldInv
<1>5. strR[f].used <= arrived[s] /\ arrived[s] <= wired[s] /\ arrived[s] \in Nat /\ wired[s] \in Nat
  BY <1>1 DEF SeenInv, SeenOne, WirePart, OrderInv, Types, ReaderTypes, SenderTypes
<1>6. PICK b \in Nat : b = Bytes(queue[s]) BY BytesFacts DEF Types, SenderTypes
<1>7. strS[s].used = wired[s] + b BY <1>6 DEF StreamAccounting
<1> QED BY <1>2, <1>3, <1>4, <1>5, <1>6, <1>7

\* LenInv for one stream.
LenOne(s) ==
  /\ \A i \in 1 .. Len(queue[s]) : queue[s][i].len <= StreamWindow
  /\ \A i \in 1 .. Len(wireAB) : IsData(wireAB[i]) /\ wireAB[i].id = s => wireAB[i].len <= StreamWindow
  /\ InFlight(s) => reader.frame.len <= StreamWindow

\* A step that adds no frame keeps LenOne.
LEMMA LenSame ==
  ASSUME NEW s \in Streams, LenOne(s), UNCHANGED <<queue, wireAB>>,
         reader' = reader \/ reader'.pc # "stream"
  PROVE  (LenOne(s))' BY DEF LenOne, InFlight

\* A write is never longer than the window its stream started with.
LEMMA LenSenderApp ==
  ASSUME Core, SeenInv, StreamAccounting, MaxInv, HeldInv, NEW s \in Streams, SenderApp(s),
         NEW t \in Streams, fronts[t] <= 1, LenOne(t)
  PROVE  (LenOne(t))'
<1> USE DEF Core
<1>0. UNCHANGED <<wireAB, reader>> /\ Running BY DEF SenderApp, readerVars
<1>1. CASE queue'[t] = queue[t] \/ queue'[t] = <<>> BY <1>0, <1>1 DEF LenOne, InFlight
<1>2. ASSUME NEW fr \in StreamFrames, fr.len <= StreamWindow, queue'[t] = Append(queue[t], fr) PROVE (LenOne(t))'
  <2>1. /\ Len(queue[t]) \in Nat /\ Len(queue'[t]) = Len(queue[t]) + 1 /\ queue'[t][Len(queue[t]) + 1] = fr
        /\ \A i \in 1 .. Len(queue[t]) : queue'[t][i] = queue[t][i]
        /\ \A i \in 1 .. Len(queue[t]) + 1 : i \in 1 .. Len(queue[t]) \/ i = Len(queue[t]) + 1
    BY <1>2, SeqAppend DEF Types, SenderTypes
  <2>2. \A i \in 1 .. Len(queue'[t]) : queue'[t][i].len <= StreamWindow BY <1>2, <2>1 DEF LenOne
  <2> QED BY <1>0, <2>2 DEF LenOne, InFlight
<1>3. CASE OpenUni(s) \/ ReserveSlot(s) \/ CancelWrite(s) BY <1>1, <1>3 DEF OpenUni, ReserveSlot, CancelWrite
<1>4. CASE Reset(s) \/ SeeStop(s)
  <2>1. queue' = queue \/ queue' = [queue EXCEPT ![s] = <<>>] BY <1>4 DEF Reset, SeeStop, Abandon
  <2>2. queue'[t] = queue[t] \/ queue'[t] = <<>> BY <2>1 DEF Types, SenderTypes
  <2> QED BY <1>1, <2>2
<1>5. CASE CommitWrite(s)
  <2>1. PICK n \in Nat : /\ strS[s].used + n <= strS[s].max
                         /\ queue' = [queue EXCEPT ![s] = Append(@, StreamFrame(s, tx[s].offset, n, FALSE))]
    BY <1>5, CommitCases
  <2>2. PICK fr : fr = StreamFrame(s, tx[s].offset, n, FALSE) OBVIOUS
  <2>3. tx[s].offset \in Nat BY TxFields DEF Types
  <2>4. fr \in StreamFrames /\ fr.len = n BY <2>2, <2>3 DEF StreamFrame, StreamFrames
  <2>5. CASE t = s
    <3>1. n <= StreamWindow
      <4>1. strS[s].max - strS[s].used <= StreamWindow BY <1>0, <2>5, RoomIsWindow
      <4>2. strS[s].max \in Nat /\ strS[s].used \in Nat /\ StreamWindow \in Nat BY CreditNats, SizesAreNatural
      <4> QED BY <2>1, <4>1, <4>2
    <3>2. queue'[t] = Append(queue[t], fr) BY <2>1, <2>2, <2>5 DEF Types, SenderTypes
    <3> QED BY <1>2, <2>4, <3>1, <3>2
  <2>6. CASE t # s BY <1>1, <2>1, <2>6 DEF Types, SenderTypes
  <2> QED BY <2>5, <2>6
<1>6. CASE Finish(s)
  <2>1. queue' = [queue EXCEPT ![s] = Append(@, StreamFrame(s, tx[s].offset, 0, TRUE))] BY <1>6 DEF Finish
  <2>2. PICK fr : fr = StreamFrame(s, tx[s].offset, 0, TRUE) OBVIOUS
  <2>3. tx[s].offset \in Nat BY TxFields DEF Types
  <2>4. fr \in StreamFrames /\ fr.len = 0 BY <2>2, <2>3 DEF StreamFrame, StreamFrames
  <2>5. CASE t = s
    <3>2. queue'[t] = Append(queue[t], fr) BY <2>1, <2>2, <2>5 DEF Types, SenderTypes
    <3> QED BY <1>2, <2>4, <3>2, SizesAreNatural
  <2>6. CASE t # s BY <1>1, <2>1, <2>6 DEF Types, SenderTypes
  <2> QED BY <2>5, <2>6
<1> QED BY <1>3, <1>4, <1>5, <1>6 DEF SenderApp

\* Sending a frame keeps LenOne.
LEMMA LenWriter ==
  ASSUME Core, SenderWriter, NEW t \in Streams, LenOne(t)
  PROVE  (LenOne(t))'
<1> USE DEF Core
<1>0. reader' = reader BY DEF SenderWriter, readerVars
<1>1. ASSUME NEW fr \in StreamFrames \cup ResetFrames, wireAB' = Append(wireAB, fr),
             IsData(fr) /\ fr.id = t => fr.len <= StreamWindow,
             \A i \in 1 .. Len(queue'[t]) : queue'[t][i].len <= StreamWindow
      PROVE (LenOne(t))'
  <2>1. /\ Len(wireAB') = Len(wireAB) + 1 /\ wireAB'[Len(wireAB) + 1] = fr
        /\ \A i \in 1 .. Len(wireAB) : wireAB'[i] = wireAB[i]
        /\ \A i \in 1 .. Len(wireAB) + 1 : i \in 1 .. Len(wireAB) \/ i = Len(wireAB) + 1
    BY <1>1, SeqAppend DEF Types, WireTypes
  <2>2. \A i \in 1 .. Len(wireAB') : IsData(wireAB'[i]) /\ wireAB'[i].id = t => wireAB'[i].len <= StreamWindow
    BY <1>1, <2>1 DEF LenOne
  <2> QED BY <1>0, <1>1, <2>2 DEF LenOne, InFlight, IsData
<1>2. CASE TransmitReset
  <2>1. PICK s \in Streams : wireAB' = Append(wireAB, ResetFrame(s, wired[s])) /\ queue' = queue BY <1>2, PoppedReset
  <2>2. PICK fr \in ResetFrames : fr = ResetFrame(s, wired[s]) BY FrameTypes DEF Types, SenderTypes
  <2>3. ~IsData(fr) BY FrameFields DEF IsData
  <2> QED BY <1>1, <2>1, <2>2, <2>3 DEF LenOne
<1>3. ASSUME NEW s \in Streams, TransmitStream(s) PROVE (LenOne(t))'
  <2>1. PICK f \in StreamFrames : /\ f = Head(queue[s]) /\ f.id = s /\ queue[s] # <<>>
                                  /\ wireAB' = Append(wireAB, f) /\ queue' = [queue EXCEPT ![s] = Tail(@)]
    BY <1>3, PoppedFrame
  <2>2. CASE t # s
    <3>1. queue'[t] = queue[t] BY <2>1, <2>2 DEF Types, SenderTypes
    <3> QED BY <1>1, <2>1, <2>2, <3>1 DEF LenOne
  <2>3. CASE t = s
    <3>1. /\ queue'[t] = Tail(queue[t]) /\ f = queue[t][1] /\ 1 \in 1 .. Len(queue[t])
          /\ \A i \in 1 .. Len(queue'[t]) : queue'[t][i] = queue[t][i + 1] /\ i + 1 \in 1 .. Len(queue[t])
      BY <2>1, <2>3, SeqTail DEF Types, SenderTypes
    <3>2. f.len <= StreamWindow /\ \A i \in 1 .. Len(queue'[t]) : queue'[t][i].len <= StreamWindow BY <3>1 DEF LenOne
    <3> QED BY <1>1, <2>1, <3>2
  <2> QED BY <2>2, <2>3
<1> QED BY <1>2, <1>3 DEF SenderWriter

\* Taking a frame off the wire keeps LenOne.
LEMMA LenReader ==
  ASSUME Core, ReceiverReader, NEW t \in Streams, LenOne(t)
  PROVE  (LenOne(t))'
<1> USE DEF Core
<1>0. queue' = queue BY DEF ReceiverReader, senderVars
<1>1. CASE RouteStream \/ OfferStream \/ InsertStream \/ AccountReset \/ ReaderGrant \/ RetireReset
  BY <1>0, <1>1, ReaderGoesOn, LenSame
<1>2. ASSUME wireAB # <<>>, wireAB' = Tail(wireAB)
      PROVE  /\ \A i \in 1 .. Len(wireAB') : IsData(wireAB'[i]) /\ wireAB'[i].id = t => wireAB'[i].len <= StreamWindow
             /\ IsData(Head(wireAB)) /\ Head(wireAB).id = t => Head(wireAB).len <= StreamWindow
  <2>1. /\ Head(wireAB) = wireAB[1] /\ 1 \in 1 .. Len(wireAB)
        /\ \A i \in 1 .. Len(wireAB') : wireAB'[i] = wireAB[i + 1] /\ i + 1 \in 1 .. Len(wireAB)
    BY <1>2, SeqTail DEF Types, WireTypes
  <2> QED BY <2>1 DEF LenOne
<1>3. CASE RecvStream
  <2>1. PICK fr \in StreamFrames : /\ fr = Head(wireAB) /\ wireAB # <<>> /\ wireAB' = Tail(wireAB) /\ reader.pc = "idle"
                                   /\ TakeLate(fr) \/ TakeFail(fr) \/ Take(fr) BY <1>3, RecvStreamCases
  <2>2. /\ [Idle EXCEPT !.pc = "stream", !.frame = fr].pc = "stream" /\ Idle.pc = "idle"
        /\ [Idle EXCEPT !.pc = "stream", !.frame = fr].frame = fr BY ReaderShapes, Zenon DEF StreamPcs
  <2>3. reader'.pc = "idle" \/ (reader'.pc = "stream" /\ reader'.frame = fr)
    BY <2>1, <2>2 DEF TakeLate, TakeFail, Take, Fail
  <2>4. fr.id = t => fr.len <= StreamWindow BY <1>2, <2>1, FrameFields DEF IsData
  <2> QED BY <1>0, <1>2, <2>1, <2>3, <2>4 DEF LenOne, InFlight, IsData
<1>4. CASE RecvReset
  <2>1. PICK fr \in ResetFrames : /\ wireAB # <<>> /\ wireAB' = Tail(wireAB) /\ reader.pc = "idle"
                                  /\ \/ ResetLate(fr.id) \/ ResetFail(fr.id)
                                     \/ \E live \in BOOLEAN : ResetTake(fr, live) BY <1>4, RecvResetCases
  <2>2. reader'.pc # "stream"
    <3>1. CASE ResetLate(fr.id) \/ ResetFail(fr.id) BY <2>1, <3>1, ReaderAt DEF ResetLate, ResetFail, Fail, Types
    <3>2. ASSUME NEW live \in BOOLEAN, ResetTake(fr, live) PROVE reader'.pc = "reset" BY <3>2 DEF ResetTake, Idle
    <3> QED BY <2>1, <3>1, <3>2
  <2> QED BY <1>0, <1>2, <2>1, <2>2 DEF LenOne, InFlight, IsData
<1> QED BY <1>1, <1>3, <1>4 DEF ReceiverReader

\* LenInv holds at the start.
LEMMA InitLen == Init => LenInv
  BY DEF Init, Idle, LenInv, InFlight

\* Every step keeps LenInv.
LEMMA NextLen ==
  ASSUME Core, SeenInv, StreamAccounting, MaxInv, HeldInv, LenInv, [Next]_vars
  PROVE  LenInv'
<1>0. Grows BY NextGrows
<1>1. SUFFICES ASSUME NEW t \in Streams, fronts'[t] <= 1 PROVE (LenOne(t))' BY DEF LenInv, LenOne
<1>2. fronts[t] <= 1 /\ LenOne(t) BY <1>0, <1>1 DEF Grows, LenInv, LenOne
<1>3. ASSUME NEW s \in Streams, SenderApp(s) PROVE (LenOne(t))' BY <1>2, <1>3, LenSenderApp
<1>4. CASE SenderWriter BY <1>2, <1>4, LenWriter
<1>5. CASE ReceiverReader BY <1>2, <1>5, LenReader
<1>6. ASSUME UNCHANGED <<queue, wireAB, reader>> PROVE (LenOne(t))' BY <1>2, <1>6, LenSame
<1>7. ASSUME SenderReader \/ Accept \/ ReceiverWriter \/ UNCHANGED vars PROVE UNCHANGED <<queue, wireAB, reader>>
  BY <1>7 DEF SenderReader, RecvControl, Accept, AcceptUni, ReceiverWriter, TransmitControl, vars, senderVars,
    readerVars
<1>8. ASSUME NEW f \in Fronts, ReceiverApp(f) PROVE UNCHANGED <<queue, wireAB, reader>>
  BY <1>8, ReceiverAppFrame DEF AppFrame, senderVars
<1> QED BY <1>3, <1>4, <1>5, <1>6, <1>7, <1>8 DEF Next

----------------------------------------------------------------------------
(* The balance of the connection                                          *)

\* What the sending end puts on the wire.
WireFrames == StreamFrames \cup ResetFrames

\* The bytes that a sequence of frames carries.
Carried(q) == SumFunction([i \in DOMAIN q |-> Payload(q[i])])

\* What is carried, when a frame is added and when one is taken.
LEMMA CarriedFacts ==
  ASSUME NEW q \in Seq(WireFrames)
  PROVE  /\ Carried(q) \in Nat /\ Carried(<<>>) = 0
         /\ \A f \in WireFrames : Carried(Append(q, f)) = Carried(q) + Payload(f)
         /\ q # <<>> => Carried(Tail(q)) = Carried(q) - Payload(Head(q))
<1>. DEFINE g == [f \in WireFrames |-> Payload(f)]
            Over(p) == SumFunction([i \in DOMAIN p |-> g[p[i]]])
<1>1. g \in [WireFrames -> Nat] /\ \A f \in WireFrames : g[f] = Payload(f) BY FrameFields DEF Payload, WireFrames
<1>2. ASSUME NEW p \in Seq(WireFrames) PROVE Over(p) = Carried(p)
  <2>1. [i \in DOMAIN p |-> g[p[i]]] = [i \in DOMAIN p |-> Payload(p[i])] BY <1>1
  <2> QED BY <2>1 DEF Carried
<1>3. /\ Over(q) \in Nat /\ Over(<<>>) = 0
      /\ \A f \in WireFrames : Over(Append(q, f)) = Over(q) + g[f]
      /\ q # <<>> => Over(Tail(q)) = Over(q) - g[Head(q)]
  <2> HIDE DEF g
  <2> QED BY <1>1, SumOver
<1>4. /\ <<>> \in Seq(WireFrames) /\ \A f \in WireFrames : Append(q, f) \in Seq(WireFrames)
      /\ q # <<>> => Tail(q) \in Seq(WireFrames) /\ Head(q) \in WireFrames BY SeqAppend, SeqTail
<1> HIDE DEF g, Over
<1> QED BY <1>1, <1>2, <1>3, <1>4

\* The bytes one frame carries.
LEMMA PayloadFacts ==
  ASSUME NEW f \in WireFrames
  PROVE  /\ Payload(f) \in Nat
         /\ f \in StreamFrames => Payload(f) = f.len
         /\ f \in ResetFrames => Payload(f) = 0 BY FrameFields DEF WireFrames, Payload

\* The streams are finite.
LEMMA FewStreams == IsFiniteSet(Streams)
  BY SizesAreNatural, FS_Interval DEF Streams

\* What is queued for every stream is a natural number, and no stream has more.
LEMMA QueuedFacts ==
  ASSUME queue \in [Streams -> Seq(StreamFrames)]
  PROVE  QueuedBytes \in Nat /\ \A s \in Streams : Bytes(queue[s]) <= QueuedBytes /\ Bytes(queue[s]) \in Nat
<1>. DEFINE g == [s \in Streams |-> Bytes(queue[s])]
<1>1. \A s \in Streams : g[s] = Bytes(queue[s]) /\ g[s] \in Nat /\ g[s] \in Int BY BytesFacts
<1>2. QueuedBytes = SumFunctionOnSet(g, Streams) BY SumIsTotal DEF QueuedBytes
<1> HIDE DEF g
<1>3. SumFunctionOnSet(g, Streams) \in Nat BY <1>1, FewStreams, TotalType
<1>4. \A s \in Streams : g[s] <= SumFunctionOnSet(g, Streams) BY <1>1, FewStreams, TotalBounds
<1> QED BY <1>1, <1>2, <1>3, <1>4

\* A step that touches the queue of one stream changes the total by as much.
LEMMA QueuedChange ==
  ASSUME Types, Types', NEW s \in Streams, \A t \in Streams : t # s => queue'[t] = queue[t]
  PROVE  QueuedBytes' = QueuedBytes + (Bytes(queue'[s]) - Bytes(queue[s]))
<1>. DEFINE g == [t \in Streams |-> Bytes(queue[t])]
            h == [t \in Streams |-> Bytes(queue'[t])]
<1>1. \A t \in Streams : g[t] = Bytes(queue[t]) /\ g[t] \in Int /\ h[t] = Bytes(queue'[t]) /\ h[t] \in Int
  BY BytesFacts DEF Types, SenderTypes
<1>2. QueuedBytes = SumFunctionOnSet(g, Streams) BY SumIsTotal DEF QueuedBytes
<1>3. QueuedBytes' = SumFunctionOnSet(h, Streams) BY SumIsTotal DEF QueuedBytes
<1> HIDE DEF g, h
<1>4. \A t \in Streams : t # s => h[t] = g[t] BY <1>1
<1>5. SumFunctionOnSet(h, Streams) = SumFunctionOnSet(g, Streams) + (h[s] - g[s]) BY <1>1, <1>4, FewStreams, TotalUpdate
<1> QED BY <1>1, <1>2, <1>3, <1>5

\* The second inductive invariant: Core, the counts of what arrived, the
\* sending end's books, the limits, what is held, and the length of frames.
Books == Core /\ SeenInv /\ StreamAccounting /\ MaxInv /\ HeldInv /\ LenInv

\* While NoResurrection holds, a stream has one receiving half at most.
LEMMA OneFront ==
  ASSUME Core, NoResurrection, NEW s \in Streams
  PROVE  fronts[s] <= 1 /\ fronts[s] \in Nat
<1>1. fronts[s] \in Nat BY DEF Core, Types, ReaderTypes
<1>2. s \notin Uni => fronts[s] = 1 BY StreamFacts DEF Core, MapInv, FrontInv
<1> QED BY <1>1, <1>2 DEF NoResurrection

\* The bytes on the wire are what its frames carry.
LEMMA WireCarried == WireBytes = Carried(wireAB) /\ WireBytes' = Carried(wireAB')
  BY DEF WireBytes, Carried

\* The entries of the connection's books are natural numbers.
LEMMA BookNats ==
  ASSUME Types
  PROVE  /\ QueuedBytes \in Nat /\ WireBytes \in Nat /\ ignored \in Nat
         /\ wireAB \in Seq(WireFrames) /\ connS.used \in Nat /\ connR.used \in Nat
         /\ connS.max \in Nat /\ connR.max \in Nat
<1>1. wireAB \in Seq(WireFrames) /\ queue \in [Streams -> Seq(StreamFrames)] /\ ignored \in Nat
  BY DEF Types, WireTypes, SenderTypes, ReaderTypes, WireFrames
<1> QED BY <1>1, QueuedFacts, WireCarried, CarriedFacts, CreditNats

\* What is spent, with what it is spent on.
Balance == connS.used = QueuedBytes + WireBytes + connR.used + ignored

\* A step that touches no entry keeps the balance.
LEMMA BalanceSame ==
  ASSUME Balance, UNCHANGED <<queue, wireAB, ignored>>, connS'.used = connS.used, connR'.used = connR.used
  PROVE  Balance'
<1>1. QueuedBytes' = QueuedBytes /\ WireBytes' = WireBytes BY DEF QueuedBytes, WireBytes
<1> QED BY <1>1 DEF Balance

\* Giving a stream up takes as much from the queue as from the credit spent.
LEMMA BalanceAbandon ==
  ASSUME Types, Types', Balance, NEW s \in Streams, NEW why, Abandon(s, why), UNCHANGED <<wireAB, connR, ignored>>
  PROVE  Balance'
<1>1. PICK b \in Nat : b = Bytes(queue[s]) /\ b <= QueuedBytes BY QueuedFacts DEF Types, SenderTypes
<1>2. queue' = [queue EXCEPT ![s] = <<>>] /\ connS' = Release(connS, b) BY <1>1 DEF Abandon
<1>3. queue'[s] = <<>> /\ \A t \in Streams : t # s => queue'[t] = queue[t] BY <1>2 DEF Types, SenderTypes
<1>4. QueuedBytes' = QueuedBytes + (0 - b) BY <1>1, <1>3, NoBytes, QueuedChange
<1>5. b <= connS.used BY <1>1, BookNats DEF Balance
<1>6. connS'.used = connS.used - b BY <1>2, <1>5, CreditNats, CreditFields
<1>7. WireBytes' = WireBytes BY DEF WireBytes
<1>8. PICK q \in Nat, w \in Nat, u \in Nat, c \in Nat, i \in Nat :
        q = QueuedBytes /\ w = WireBytes /\ u = connS.used /\ c = connR.used /\ i = ignored BY BookNats
<1>9. u = q + w + c + i BY <1>8 DEF Balance
<1>10. QueuedBytes' = q - b /\ connS'.used = u - b /\ WireBytes' = w /\ connR'.used = c /\ ignored' = i
  BY <1>1, <1>4, <1>6, <1>7, <1>8
<1>11. u - b = (q - b) + w + c + i BY <1>1, <1>8, <1>9
<1> QED BY <1>10, <1>11 DEF Balance

\* A step of the sending application keeps the balance.
LEMMA BalanceApp ==
  ASSUME Types, Types', Balance, NEW s \in Streams, SenderApp(s)
  PROVE  Balance'
<1>0. UNCHANGED <<wireAB, connR, ignored>> /\ WireBytes' = WireBytes BY DEF SenderApp, readerVars, creditVars, WireBytes
<1>1. CASE OpenUni(s) \/ ReserveSlot(s) \/ CancelWrite(s)
  BY <1>0, <1>1, BalanceSame DEF OpenUni, ReserveSlot, CancelWrite
<1>2. ASSUME NEW fr \in StreamFrames, queue' = [queue EXCEPT ![s] = Append(@, fr)], connS'.used = connS.used + fr.len
      PROVE Balance'
  <2>1. queue'[s] = Append(queue[s], fr) /\ \A t \in Streams : t # s => queue'[t] = queue[t]
    BY <1>2 DEF Types, SenderTypes
  <2>2. PICK b \in Nat : b = Bytes(queue[s]) BY BytesFacts DEF Types, SenderTypes
  <2>3. Bytes(queue'[s]) = b + fr.len /\ fr.len \in Nat BY <2>1, <2>2, BytesFacts, FrameFields DEF Types, SenderTypes
  <2>4. PICK n \in Nat : n = fr.len BY <2>3
  <2>5. QueuedBytes' = QueuedBytes + (Bytes(queue'[s]) - Bytes(queue[s])) BY <2>1, QueuedChange
  <2>8. PICK q \in Nat, w \in Nat, u \in Nat, c \in Nat, i \in Nat :
          q = QueuedBytes /\ w = WireBytes /\ u = connS.used /\ c = connR.used /\ i = ignored BY BookNats
  <2>9. u = q + w + c + i BY <2>8 DEF Balance
  <2>10. QueuedBytes' = q + ((b + n) - b) BY <2>2, <2>3, <2>4, <2>5, <2>8
  <2>11. QueuedBytes' = q + n /\ connS'.used = u + n /\ WireBytes' = w /\ connR'.used = c /\ ignored' = i
    BY <1>0, <1>2, <2>4, <2>8, <2>10
  <2>12. u + n = (q + n) + w + c + i BY <2>8, <2>9
  <2> QED BY <2>11, <2>12 DEF Balance
<1>3. CASE CommitWrite(s)
  <2>1. PICK n \in Nat : /\ connS' = Claim(connS, n)
                         /\ queue' = [queue EXCEPT ![s] = Append(@, StreamFrame(s, tx[s].offset, n, FALSE))]
    BY <1>3, CommitCases
  <2>2. PICK fr : fr = StreamFrame(s, tx[s].offset, n, FALSE) OBVIOUS
  <2>3. tx[s].offset \in Nat /\ connS \in CreditState BY TxFields DEF Types, SenderTypes
  <2>4. fr \in StreamFrames /\ fr.len = n BY <2>2, <2>3 DEF StreamFrame, StreamFrames
  <2>5. PICK c : c = Claim(connS, n) OBVIOUS
  <2>6. c.used = connS.used + n BY <2>3, <2>5, ClaimFields
  <2> QED BY <1>2, <2>1, <2>2, <2>4, <2>5, <2>6
<1>4. CASE Finish(s)
  <2>1. queue' = [queue EXCEPT ![s] = Append(@, StreamFrame(s, tx[s].offset, 0, TRUE))] /\ connS' = connS
    BY <1>4 DEF Finish
  <2>2. PICK fr : fr = StreamFrame(s, tx[s].offset, 0, TRUE) OBVIOUS
  <2>3. tx[s].offset \in Nat /\ connS.used \in Nat BY TxFields, CreditNats DEF Types
  <2>4. fr \in StreamFrames /\ fr.len = 0 BY <2>2, <2>3 DEF StreamFrame, StreamFrames
  <2>5. connS'.used = connS.used + fr.len BY <2>1, <2>3, <2>4
  <2> QED BY <1>2, <2>1, <2>2, <2>4, <2>5
<1>5. CASE Reset(s) BY <1>0, <1>5, BalanceAbandon DEF Reset
<1>6. CASE SeeStop(s) BY <1>0, <1>6, BalanceAbandon, BalanceSame DEF SeeStop
<1> QED BY <1>1, <1>3, <1>4, <1>5, <1>6 DEF SenderApp

\* A step of the writer moves bytes from the queue to the wire.
LEMMA BalanceWriter ==
  ASSUME Types, Types', SenderInv, Balance, SenderWriter
  PROVE  Balance'
<1>0. UNCHANGED <<connR, ignored>> BY DEF SenderWriter, readerVars, creditVars
<1>1. CASE TransmitReset
  <2>1. PICK s \in Streams : wireAB' = Append(wireAB, ResetFrame(s, wired[s])) /\ UNCHANGED <<queue, connS>>
    BY <1>1, PoppedReset
  <2>2. PICK fr \in ResetFrames : fr = ResetFrame(s, wired[s]) BY FrameTypes DEF Types, SenderTypes
  <2>3. fr \in WireFrames /\ Payload(fr) = 0 BY PayloadFacts DEF WireFrames
  <2>4. WireBytes' = WireBytes + 0 BY <2>1, <2>2, <2>3, BookNats, CarriedFacts, WireCarried
  <2>5. QueuedBytes' = QueuedBytes BY <2>1 DEF QueuedBytes
  <2> QED BY <1>0, <2>1, <2>4, <2>5, BookNats DEF Balance
<1>2. ASSUME NEW s \in Streams, TransmitStream(s) PROVE Balance'
  <2>1. PICK f \in StreamFrames : /\ f = Head(queue[s]) /\ f.len \in Nat /\ queue[s] # <<>>
                                  /\ queue' = [queue EXCEPT ![s] = Tail(@)]
                                  /\ wireAB' = Append(wireAB, f) /\ UNCHANGED connS BY <1>2, PoppedFrame
  <2>2. queue'[s] = Tail(queue[s]) /\ \A t \in Streams : t # s => queue'[t] = queue[t] BY <2>1 DEF Types, SenderTypes
  <2>3. PICK b \in Nat : b = Bytes(queue[s]) BY BytesFacts DEF Types, SenderTypes
  <2>4. Bytes(queue'[s]) = b - f.len BY <2>1, <2>2, <2>3, BytesFacts DEF Types, SenderTypes
  <2>5. QueuedBytes' = QueuedBytes + (b - f.len - b) BY <2>2, <2>3, <2>4, QueuedChange
  <2>6. f \in WireFrames /\ Payload(f) = f.len BY PayloadFacts DEF WireFrames
  <2>7. WireBytes' = WireBytes + f.len BY <2>1, <2>6, BookNats, CarriedFacts, WireCarried
  <2>8. PICK q \in Nat, w \in Nat, u \in Nat, c \in Nat, i \in Nat, n \in Nat :
          q = QueuedBytes /\ w = WireBytes /\ u = connS.used /\ c = connR.used /\ i = ignored /\ n = f.len
    BY <2>1, BookNats
  <2>9. u = q + w + c + i BY <2>8 DEF Balance
  <2>10. QueuedBytes' = q + ((b - n) - b) BY <2>5, <2>8
  <2>11. QueuedBytes' = q - n /\ connS'.used = u /\ WireBytes' = w + n /\ connR'.used = c /\ ignored' = i
    <3>1. QueuedBytes' = q - n BY <2>3, <2>8, <2>10
    <3>2. WireBytes' = w + n BY <2>7, <2>8
    <3>3. connS'.used = u /\ connR'.used = c /\ ignored' = i BY <1>0, <2>1, <2>8
    <3> QED BY <3>1, <3>2, <3>3
  <2>12. u = (q - n) + (w + n) + c + i BY <2>8, <2>9
  <2> QED BY <2>11, <2>12 DEF Balance
<1> QED BY <1>1, <1>2 DEF SenderWriter

\* A frame taken from the transport takes its bytes with it.
LEMMA WireTakes ==
  ASSUME Types, wireAB # <<>>, wireAB' = Tail(wireAB)
  PROVE  WireBytes' = WireBytes - Payload(Head(wireAB)) /\ Payload(Head(wireAB)) \in Nat
         /\ Payload(Head(wireAB)) <= WireBytes
<1>1. wireAB \in Seq(WireFrames) /\ Head(wireAB) \in WireFrames /\ Tail(wireAB) \in Seq(WireFrames) BY BookNats, SeqTail
<1>2. PICK p \in Nat : p = Payload(Head(wireAB)) BY <1>1, PayloadFacts
<1>3. Carried(Tail(wireAB)) = Carried(wireAB) - p /\ Carried(Tail(wireAB)) \in Nat /\ Carried(wireAB) \in Nat
  BY <1>1, <1>2, CarriedFacts
<1>4. WireBytes' = Carried(Tail(wireAB)) /\ WireBytes = Carried(wireAB) BY WireCarried
<1> QED BY <1>2, <1>3, <1>4

\* The stream's credit of the receiver covers all that can be on its way.
LEMMA StreamCovered ==
  ASSUME Books, NEW s \in Streams, fronts[s] <= 1
  PROVE  arrived[s] <= strR[<<s, 1>>].max /\ arrived[s] \in Nat
<1> USE DEF Books, Core
<1>1. arrived[s] <= wired[s] /\ arrived[s] \in Nat /\ wired[s] \in Nat
  BY DEF WirePart, OrderInv, Types, ReaderTypes, SenderTypes
<1>2. PICK b \in Nat : b = Bytes(queue[s]) BY BytesFacts DEF Types, SenderTypes
<1>3. strS[s].used = wired[s] + b BY <1>2 DEF StreamAccounting
<1>4. strS[s].used <= strS[s].max /\ strS[s].max <= strR[<<s, 1>>].max BY DEF MaxInv
<1>5. strS[s].used \in Nat /\ strS[s].max \in Nat /\ strR[<<s, 1>>].max \in Nat BY CreditNats
<1> QED BY <1>1, <1>2, <1>3, <1>4, <1>5

\* The stream limit covers every stream that was opened.
LEMMA LimitCovered ==
  ASSUME Books, NEW s \in Uni, Opened(s)
  PROVE  MayReceiveUpTo(limR, s + 1)
<1> USE DEF Books, Core
<1>1. s \in Streams /\ s \in Nat BY StreamFacts
<1>2. s < openC.used BY <1>1 DEF SenderInv, SendOne
<1>3. openC.used <= openC.max /\ openC.max <= limR.max BY DEF MaxInv
<1> QED BY <1>1, <1>2, <1>3, CreditNats DEF MayReceiveUpTo

\* So does the connection's credit, for what the transport carries.
LEMMA ConnCovered ==
  ASSUME Books, Balance
  PROVE  connR.used + WireBytes <= connR.max
<1> USE DEF Books, Core
<1>1. connS.used <= connS.max /\ connS.max <= connR.max BY DEF MaxInv
<1>2. PICK q \in Nat, w \in Nat, u \in Nat, c \in Nat, i \in Nat :
        q = QueuedBytes /\ w = WireBytes /\ u = connS.used /\ c = connR.used /\ i = ignored BY BookNats
<1>3. u = q + w + c + i BY <1>2 DEF Balance
<1> QED BY <1>1, <1>2, <1>3, BookNats

\* A STREAM frame taken off the wire fits the connection's window and keeps the
\* balance.
LEMMA TakenInBalance ==
  ASSUME Books, Balance, RecvStream
  PROVE  fault' = fault /\ (connS' = connS /\ queue' = queue => Balance')
<1> USE DEF Books, Core
<1>1. PICK fr \in StreamFrames : /\ fr = Head(wireAB) /\ wireAB # <<>> /\ wireAB' = Tail(wireAB) /\ fr.len \in Nat
                                 /\ TakeLate(fr) \/ TakeFail(fr) \/ Take(fr) BY RecvStreamCases
<1>2. Payload(fr) = fr.len BY PayloadFacts DEF WireFrames
<1>3. PICK n \in Nat : n = fr.len BY <1>1
<1>4. WireBytes' = WireBytes - n /\ n <= WireBytes BY <1>1, <1>2, <1>3, WireTakes
<1>5. MayReceive(connR, n) BY <1>3, <1>4, ConnCovered, BookNats DEF MayReceive
<1>6. ~TakeFail(fr) BY <1>3, <1>5 DEF TakeFail
<1>7. fault' = fault BY <1>1, <1>6 DEF TakeLate, Take
<1>8. ASSUME connS' = connS, queue' = queue PROVE Balance'
  <2>1. PICK q \in Nat, w \in Nat, u \in Nat, c \in Nat, i \in Nat :
          q = QueuedBytes /\ w = WireBytes /\ u = connS.used /\ c = connR.used /\ i = ignored BY BookNats
  <2>2. u = q + w + c + i BY <2>1 DEF Balance
  <2>3. QueuedBytes' = q /\ connS'.used = u BY <1>8, <2>1 DEF QueuedBytes
  <2>4. WireBytes' = w - n BY <1>4, <2>1
  <2>5. CASE TakeLate(fr)
    <3>1. connR'.used = c /\ ignored' = i + n BY <1>3, <2>1, <2>5 DEF TakeLate
    <3>2. u = q + (w - n) + c + (i + n) BY <2>2, <2>1, <1>3
    <3> QED BY <2>3, <2>4, <3>1, <3>2 DEF Balance
  <2>6. CASE Take(fr)
    <3>1. PICK d : d = Receive(connR, n) OBVIOUS
    <3>2. d.used = connR.used + n BY <3>1, CreditNats, ReceiveFields
    <3>3. connR'.used = c + n /\ ignored' = i BY <1>3, <2>1, <2>6, <3>1, <3>2 DEF Take
    <3>4. u = q + (w - n) + (c + n) + i BY <2>2, <2>1, <1>3
    <3> QED BY <2>3, <2>4, <3>3, <3>4 DEF Balance
  <2> QED BY <1>1, <1>6, <2>5, <2>6
<1> QED BY <1>7, <1>8

\* A STREAM frame that is routed breaks no limit.
LEMMA RoutedInBalance ==
  ASSUME Books, Running, NoResurrection, RouteStream
  PROVE  fault' = fault /\ UNCHANGED <<connR, ignored, wireAB>>
<1> USE DEF Books, Core
<1>1. PICK fr \in StreamFrames, s \in Streams :
           /\ fr = reader.frame /\ s = fr.id /\ reader.pc = "stream" /\ fr.len \in Nat /\ wireAB' = wireAB
           /\ \/ RouteLive(s, <<s, recvMap[s]>>, fr) \/ RouteOwn(s)
              \/ RouteFail(s, <<s, recvMap[s]>>, fr) \/ RouteNew(s, fr) BY RouteCases
<1>2. fronts[s] <= 1 /\ fronts[s] \in Nat BY OneFront
<1>3. InFlight(s) /\ SeenOne(s) BY <1>1 DEF InFlight, SeenInv
<1>4. ASSUME recvMap[s] # 0, ~MayReceive(strR[<<s, recvMap[s]>>], fr.len) PROVE FALSE
  <2>1. recvMap[s] = 1 BY <1>2, <1>4, Routed DEF MapInv
  <2>2. recvOff[s] + fr.len = arrived[s] /\ strR[<<s, 1>>].used = recvOff[s] BY <1>1, <1>2, <1>3, <1>4 DEF SeenOne
  <2>3. arrived[s] <= strR[<<s, 1>>].max BY <1>2, StreamCovered
  <2> QED BY <1>4, <2>1, <2>2, <2>3 DEF MayReceive
<1>5. ASSUME s \in Uni, ~MayReceiveUpTo(limR, s + 1) PROVE FALSE
  <2>1. Opened(s) BY <1>1 DEF ReaderMapInv, StreamPcs
  <2> QED BY <1>5, <2>1, LimitCovered
<1>6. ASSUME fr.len > StreamWindow PROVE FALSE
  <2>1. fr.len <= StreamWindow BY <1>1, <1>2, <1>3 DEF LenInv
  <2> QED BY <1>1, <1>6, <2>1, SizesAreNatural
<1>7. ~RouteFail(s, <<s, recvMap[s]>>, fr) BY <1>4, <1>5, <1>6 DEF RouteFail
<1> QED BY <1>1, <1>7 DEF RouteLive, RouteOwn, RouteNew

\* A reset that is taken off the wire breaks no limit.
LEMMA ResetInBalance ==
  ASSUME Books, RecvReset
  PROVE  fault' = fault /\ UNCHANGED <<connR, ignored>> /\ WireBytes' = WireBytes
<1> USE DEF Books, Core
<1>1. PICK fr \in ResetFrames : /\ fr = Head(wireAB) /\ wireAB # <<>> /\ wireAB' = Tail(wireAB) /\ fr.id \in Streams
                                /\ \/ ResetLate(fr.id) \/ ResetFail(fr.id)
                                   \/ \E live \in BOOLEAN : ResetTake(fr, live) BY RecvResetCases
<1>2. Payload(fr) = 0 BY PayloadFacts DEF WireFrames
<1>3. WireBytes' = WireBytes BY <1>1, <1>2, WireTakes, BookNats
<1>4. Opened(fr.id)
  <2>1. fr = wireAB[1] /\ 1 \in 1 .. Len(wireAB) BY <1>1, SeqTail DEF Types, WireTypes
  <2> QED BY <2>1 DEF WirePart, WireInv
<1>5. ~ResetFail(fr.id) BY <1>4, LimitCovered DEF ResetFail
<1>6. fault' = fault /\ UNCHANGED <<connR, ignored>> BY <1>1, <1>5 DEF ResetLate, ResetTake
<1> QED BY <1>3, <1>6

\* A reset accounts for no bytes between honest endpoints: all that was sent
\* came before it.
LEMMA AccountNothing ==
  ASSUME Books, Running, NoResurrection, AccountReset, NEW s \in Streams, s = reader.frame.id,
         reader.live => recvMap[s] # 0
  PROVE  /\ Gap(s, reader.frame.final) = 0
         /\ ~reader.live => Final(s, reader.frame.final) = 0
         /\ reader.live => recvMap[s] = 1
<1> USE DEF Books, Core
<1>1. reader.pc = "reset" BY DEF AccountReset
<1>2. fronts[s] <= 1 /\ fronts[s] \in Nat BY OneFront
<1>3. CASE recvMap[s] # 0
  <2>1. Gap(s, reader.frame.final) = 0 /\ recvMap[s] = 1 BY <1>1, <1>2, <1>3, NoGap
  <2>2. reader.live
    <3>1. SUFFICES ASSUME ~reader.live PROVE FALSE OBVIOUS
    <3>2. s \in Uni /\ ~IsClosed(s) BY <1>1, <3>1 DEF ReaderMapInv
    <3>3. fronts[s] = 0 BY <1>2, <3>2 DEF MapInv, FrontInv
    <3> QED BY <2>1, <3>3 DEF MapInv, FrontInv
  <2> QED BY <2>1, <2>2
<1>4. CASE recvMap[s] = 0
  <2>1. ~reader.live BY <1>4
  <2>2. s \in Uni /\ ~IsClosed(s) BY <1>1, <2>1 DEF ReaderMapInv
  <2>3. ~InFlight(s) BY <1>1 DEF InFlight
  <2>4. arrived[s] = 0 BY <1>2, <2>2, <2>3 DEF SeenInv, SeenOne
  <2>5. reader.frame.final = 0 BY <1>1, <2>4 DEF WirePart, ReaderResetInv, ResetPcs
  <2>6. Received(s) = 0 BY <1>4 DEF Received
  <2> QED BY <2>1, <2>5, <2>6 DEF Final, Gap
<1> QED BY <1>3, <1>4

\* Accounting for a reset finds a gap of nothing: everything sent has arrived.
LEMMA AccountInBalance ==
  ASSUME Books, Balance, Running, NoResurrection, AccountReset
  PROVE  fault' \notin {"flow", "limit"} /\ UNCHANGED <<ignored, wireAB>> /\ connR'.used = connR.used
<1> USE DEF Books, Core
<1>1. PICK s \in Streams, n \in Nat :
        /\ s = reader.frame.id /\ n = reader.frame.final /\ wireAB' = wireAB
        /\ \/ reader.live /\ recvMap[s] = 0 /\ Fail("panic")
           \/ AccountFlow(s, n) \/ Account(s, n) BY AccountCases
<1>2. CASE Fail("panic") BY <1>1, <1>2 DEF Fail, creditVars
<1>3. ASSUME reader.live => recvMap[s] # 0
      PROVE  Gap(s, n) = 0 /\ (~reader.live => Final(s, n) = 0) /\ (reader.live => recvMap[s] = 1)
  BY <1>1, <1>3, AccountNothing
<1>4. MayReceive(connR, 0) BY ConnCovered, BookNats DEF MayReceive
<1>5. ~AccountFlow(s, n)
  <2>1. SUFFICES ASSUME AccountFlow(s, n) PROVE FALSE OBVIOUS
  <2>2. Gap(s, n) = 0 /\ (~reader.live => Final(s, n) = 0) /\ (reader.live => recvMap[s] = 1)
    BY <1>3, <2>1 DEF AccountFlow
  <2>3. CASE reader.live
    <3>1. ~MayReceive(strR[<<s, 1>>], 0) BY <1>4, <2>1, <2>2, <2>3 DEF AccountFlow
    <3>2. fronts[s] <= 1 BY OneFront
    <3>3. strR[<<s, 1>>].used <= arrived[s] /\ arrived[s] <= strR[<<s, 1>>].max /\ arrived[s] \in Nat
      BY <3>2, StreamCovered DEF SeenInv, SeenOne
    <3>4. strR[<<s, 1>>].used \in Nat /\ strR[<<s, 1>>].max \in Nat BY CreditNats
    <3> QED BY <3>1, <3>3, <3>4 DEF MayReceive
  <2>4. CASE ~reader.live
    <3>1. Final(s, n) > StreamWindow BY <1>4, <2>1, <2>2, <2>4 DEF AccountFlow
    <3> QED BY <2>2, <2>4, <3>1, SizesAreNatural
  <2> QED BY <2>3, <2>4
<1>6. CASE Account(s, n)
  <2>1. Gap(s, n) = 0 BY <1>3, <1>6 DEF Account
  <2>2. PICK c : c = Receive(connR, 0) OBVIOUS
  <2>3. PICK d : d = Consume(c, 0) OBVIOUS
  <2>4. c \in CreditState /\ c.used = connR.used + 0
    <3>1. connR \in CreditState /\ 0 \in Nat BY CreditNats
    <3> QED BY <2>2, <3>1, CreditFields
  <2>5. d.used = connR.used + 0 BY <2>3, <2>4, ConsumeFields
  <2>6. connR' = d /\ UNCHANGED <<fault, ignored>> BY <1>6, <2>1, <2>2, <2>3 DEF Account
  <2> QED BY <1>1, <2>5, <2>6, BookNats DEF Running
<1> QED BY <1>1, <1>2, <1>5, <1>6

\* Every step keeps the connection's books, and no peer that follows the
\* protocol is refused.
LEMMA NextBalance ==
  ASSUME Books, ConnAccounting, SenderWithinWindow, [Next]_vars
  PROVE  ConnAccounting' /\ SenderWithinWindow'
<1>0. Types /\ Types' /\ Grows /\ SenderInv /\ Core BY NextTypes, NextGrows DEF Books, Core
<1>1. NoResurrection' => NoResurrection BY <1>0, StreamFacts DEF Grows, NoResurrection
<1>2. SUFFICES ASSUME NoResurrection' PROVE Balance' /\ fault' \notin {"flow", "limit"}
  BY DEF ConnAccounting, Balance, SenderWithinWindow
<1>3. NoResurrection /\ Balance /\ fault \notin {"flow", "limit"}
  BY <1>1, <1>2 DEF ConnAccounting, Balance, SenderWithinWindow
<1>4. ASSUME NEW s \in Streams, SenderApp(s) PROVE Balance' /\ fault' = fault
  BY <1>0, <1>3, <1>4, BalanceApp DEF SenderApp
<1>5. CASE SenderWriter BY <1>0, <1>3, <1>5, BalanceWriter DEF SenderWriter
<1>6. CASE SenderReader
  <2>1. PICK g \in ControlFrames : g = Head(wireBA) /\ wireBA # <<>>
    BY <1>0, <1>6, SeqTail DEF SenderReader, RecvControl, Types, WireTypes
  <2>2. /\ UNCHANGED <<queue, wireAB, ignored, connR>> /\ fault' \in {fault, "regress"}
        /\ connS' = connS \/ (g.type = "max_data" /\ connS' = RecvMax(connS, g.max))
    BY <1>6, <2>1 DEF SenderReader, RecvControl, readerVars, creditVars
  <2>3. connS'.used = connS.used
    <3>1. ASSUME g.type = "max_data", connS' = RecvMax(connS, g.max) PROVE connS'.used = connS.used
      <4>1. g.max \in Nat BY <3>1, FrameFields
      <4> QED BY <1>0, <3>1, <4>1, CreditNats, RaiseFields
    <3> QED BY <2>2, <3>1
  <2> QED BY <1>3, <2>2, <2>3, BalanceSame
<1>7. CASE ReceiverReader
  <2>0. UNCHANGED <<connS, queue>> /\ Running BY <1>7 DEF ReceiverReader, senderVars
  <2>1. CASE RecvStream BY <1>3, <2>0, <2>1, TakenInBalance
  <2>2. CASE RouteStream BY <1>3, <2>0, <2>2, RoutedInBalance, BalanceSame
  <2>3. CASE OfferStream \/ InsertStream \/ ReaderGrant
    BY <1>3, <2>0, <2>3, BalanceSame DEF OfferStream, InsertStream, ReaderGrant, creditVars
  <2>4. CASE RecvReset
    <3>1. fault' = fault /\ UNCHANGED <<connR, ignored>> /\ WireBytes' = WireBytes BY <2>4, ResetInBalance
    <3>2. QueuedBytes' = QueuedBytes BY <2>0 DEF QueuedBytes
    <3> QED BY <1>3, <2>0, <3>1, <3>2 DEF Balance
  <2>5. CASE AccountReset BY <1>3, <2>0, <2>5, AccountInBalance, BalanceSame
  <2>6. CASE RetireReset BY <1>3, <2>0, <2>6, BalanceSame DEF RetireReset
  <2> QED BY <1>7, <2>1, <2>2, <2>3, <2>4, <2>5, <2>6 DEF ReceiverReader
<1>8. ASSUME Accept \/ ReceiverWriter \/ UNCHANGED vars PROVE Balance' /\ fault' = fault
  <2>1. UNCHANGED <<connS, queue, wireAB, ignored, connR, fault>>
    BY <1>8 DEF Accept, AcceptUni, ReceiverWriter, TransmitControl, vars, senderVars, readerVars, creditVars
  <2> QED BY <1>3, <2>1, BalanceSame
<1>9. ASSUME NEW f \in Fronts, ReceiverApp(f) PROVE Balance' /\ fault' = fault
  <2>1. UNCHANGED <<connS, queue, wireAB, ignored, fault>> BY <1>9, ReceiverAppFrame DEF AppFrame, senderVars
  <2>2. connR'.used = connR.used BY <1>0, <1>9, AppCredit
  <2> QED BY <1>3, <2>1, <2>2, BalanceSame
<1> QED BY <1>3, <1>4, <1>5, <1>6, <1>7, <1>8, <1>9 DEF Next

\* Nothing is on its way at the start.
LEMMA NothingSent ==
  ASSUME Init
  PROVE  QueuedBytes = 0 /\ WireBytes = 0
<1>1. wireAB = <<>> /\ queue = [s \in Streams |-> <<>>] BY DEF Init
<1>2. WireBytes = 0
  <2>1. <<>> \in Seq(WireFrames) OBVIOUS
  <2> QED BY <1>1, <2>1, CarriedFacts, WireCarried
<1>3. QueuedBytes = 0
  <2>. DEFINE g == [s \in Streams |-> Bytes(queue[s])]
              z == [s \in Streams |-> 0]
  <2>1. \A s \in Streams : g[s] = 0 BY <1>1, NoBytes
  <2>2. g = z BY <2>1
  <2>3. QueuedBytes = SumFunctionOnSet(z, Streams) BY <2>2, SumIsTotal DEF QueuedBytes
  <2>4. SumFunctionOnSet(z, Streams) = 0 BY FewStreams, TotalZero
  <2> QED BY <2>3, <2>4
<1> QED BY <1>2, <1>3

\* The connection's books are right at the start.
LEMMA InitBalance == Init => ConnAccounting /\ SenderWithinWindow
<1> SUFFICES ASSUME Init PROVE Balance /\ fault \notin {"flow", "limit"}
  BY DEF ConnAccounting, Balance, SenderWithinWindow
<1>1. fault = "none" /\ ignored = 0 /\ connS = NewCredit(ConnWindow) /\ connR = connS BY DEF Init
<1>2. connS.used = 0 /\ connR.used = 0 BY <1>1 DEF NewCredit
<1> QED BY <1>1, <1>2, NothingSent DEF Balance

\* Books is inductive.
LEMMA BooksHold == Spec => []Books
<1>1. Init => SeenInv /\ StreamAccounting /\ MaxInv /\ HeldInv /\ LenInv
  BY InitSeen, InitStreamBooks, InitMax, InitHeld, InitLen
<1>2. Core /\ (SeenInv /\ StreamAccounting /\ MaxInv /\ HeldInv /\ LenInv) /\ [Next]_vars
        => (SeenInv /\ StreamAccounting /\ MaxInv /\ HeldInv /\ LenInv)'
  <2> SUFFICES ASSUME Core, SeenInv, StreamAccounting, MaxInv, HeldInv, LenInv, [Next]_vars
               PROVE  SeenInv' /\ StreamAccounting' /\ MaxInv' /\ HeldInv' /\ LenInv' OBVIOUS
  <2>1. StreamAccounting' BY NextStreamBooks DEF Core
  <2> QED BY <2>1, NextSeen, NextMax, NextHeld, NextLen
<1>3. Core /\ (SeenInv /\ StreamAccounting /\ MaxInv /\ HeldInv /\ LenInv) => Books BY DEF Books
<1> QED BY <1>1, <1>2, <1>3, CoreHolds, PTL DEF Spec

\* The books of the two ends agree in every session: a stream's credit spent is
\* what is queued and sent of it, the connection's is what is queued, on the
\* wire, counted by the receiver and ignored as late, and no end trips a limit
\* of the other (Credit, transmit, recv_frame and RecvStream::read of
\* session.rs).
THEOREM AccountsAgree == Spec => []Accounts
<1>1. Books /\ (ConnAccounting /\ SenderWithinWindow) /\ [Next]_vars => (ConnAccounting /\ SenderWithinWindow)'
  BY NextBalance
<1>2. Books /\ (ConnAccounting /\ SenderWithinWindow) => Accounts BY TypesFit DEF Books, Core, Accounts
<1> QED BY <1>1, <1>2, InitBalance, BooksHold, PTL DEF Spec

----------------------------------------------------------------------------
(* Indices of streams, when none is stopped                               *)

\* No receiving half was stopped.
NeverStopped == \A f \in Fronts : rx[f].closed # "stop"

\* The limit on streams, advertised or about to be, has moved by one for every
\* stream the receiver is done with.
LimitEarned == limR.max + limR.released = StreamLimit + Cardinality(Finished)

\* What holds of a session whose applications never stop a stream.
Unstopped == NeverStopped /\ LimitEarned /\ fault # "panic"

\* The streams that ended are finite.
LEMMA FewFinished ==
  ASSUME Types
  PROVE  IsFiniteSet(Finished) /\ Cardinality(Finished) \in Nat /\ Finished \in SUBSET Uni
<1>1. IsFiniteSet(Uni) /\ Finished \in SUBSET Uni BY FewStreams, StreamFacts, FS_Subset DEF Finished
<1> QED BY <1>1, FS_Subset, FS_CardinalityType

\* When a stream of the peer's has ended.
LEMMA FinishedMeans ==
  ASSUME Types, NEW s \in Uni
  PROVE  /\ s \in Finished <=> IsClosed(s) /\ \A k \in 1 .. fronts[s] : rx[<<s, k>>].st = "dropped"
         /\ \A k \in 1 .. fronts[s] : <<s, k>> \in Fronts /\ k \in Nat
         /\ s \in Streams /\ fronts[s] \in Nat
<1>1. s \in Streams /\ fronts[s] \in 0 .. MaxFronts BY StreamFacts DEF Types, ReaderTypes
<1>2. \A k \in 1 .. fronts[s] : k \in 1 .. MaxFronts /\ k \in Nat BY <1>1, BoundsArePositive
<1>3. \A k \in 1 .. fronts[s] : <<s, k>> \in Fronts BY <1>1, <1>2, FrontOf
<1> QED BY <1>1, <1>2, <1>3 DEF Finished

\* A step that ends no stream keeps the set.
LEMMA FinishedSame ==
  ASSUME Types, Types', UNCHANGED <<fronts, created, holes>>,
         \A f \in Fronts : rx'[f].st = "dropped" <=> rx[f].st = "dropped"
  PROVE  Finished' = Finished
<1>1. ASSUME NEW s \in Uni PROVE s \in Finished' <=> s \in Finished
  <2>1. \A k \in 1 .. fronts[s] : rx'[<<s, k>>].st = "dropped" <=> rx[<<s, k>>].st = "dropped" BY FinishedMeans
  <2>2. IsClosed(s)' <=> IsClosed(s) BY DEF IsClosed
  <2>3. s \in Finished <=> IsClosed(s) /\ \A k \in 1 .. fronts[s] : rx[<<s, k>>].st = "dropped" BY FinishedMeans
  <2>4. s \in Finished' <=> IsClosed(s)' /\ \A k \in 1 .. fronts[s] : rx'[<<s, k>>].st = "dropped" BY DEF Finished
  <2> QED BY <2>1, <2>2, <2>3, <2>4
<1>2. Finished \in SUBSET Uni /\ Finished' \in SUBSET Uni BY DEF Finished
<1> QED BY <1>1, <1>2

\* A step that ends no stream and moves no limit keeps LimitEarned.
LEMMA LimitSame ==
  ASSUME LimitEarned, Finished' = Finished, limR'.max = limR.max, limR'.released = limR.released
  PROVE  LimitEarned' BY DEF LimitEarned

\* A stream that ends moves the limit by one.
LEMMA LimitGains ==
  ASSUME Types, LimitEarned, NEW s, s \notin Finished, Finished' = Finished \cup {s}, limR' = Consume(limR, 1)
  PROVE  LimitEarned'
<1>1. Cardinality(Finished') = Cardinality(Finished) + 1 /\ Cardinality(Finished) \in Nat BY FewFinished, FS_AddElement
<1>2. limR \in CreditState /\ limR.max \in Nat /\ limR.released \in Nat BY CreditNats DEF CreditState
<1>3. limR'.max + limR'.released = limR.max + limR.released + 1 BY <1>2, ConsumeFields
<1>4. StreamLimit \in Nat BY SizesAreNatural
<1> QED BY <1>1, <1>2, <1>3, <1>4 DEF LimitEarned

\* Without a stop no stream comes to life twice.
LEMMA NotStopped ==
  ASSUME Core, NeverStopped
  PROVE  /\ \A s \in Streams : ~WasStopped(s)
         /\ \A s \in Uni : fronts[s] \in {0, 1}
<1>1. \A s \in Streams : ~WasStopped(s) BY StreamFacts DEF NeverStopped, WasStopped
<1>2. \A s \in Uni : fronts[s] \in Nat /\ ~(fronts[s] > 1)
  BY StreamFacts, FinishedMeans DEF Core, MapInv, StopInv, EndedStaysEnded, NeverStopped
<1> QED BY <1>1, <1>2

\* A step that stops and ends no stream keeps Unstopped.
LEMMA UnstoppedSame ==
  ASSUME Types, Types', Unstopped, UNCHANGED <<fronts, created, holes, fault>>,
         limR'.max = limR.max, limR'.released = limR.released,
         \A f \in Fronts : rx'[f].st = "dropped" <=> rx[f].st = "dropped",
         \A f \in Fronts : rx'[f].closed = "stop" => rx[f].closed = "stop"
  PROVE  Unstopped'
<1>1. LimitEarned' BY FinishedSame, LimitSame DEF Unstopped
<1>2. NeverStopped' BY DEF Unstopped, NeverStopped
<1> QED BY <1>1, <1>2 DEF Unstopped

\* Ending the session with an error keeps Unstopped.
LEMMA FailKeeps ==
  ASSUME Types, Types', Unstopped, NEW kind, kind # "panic", Fail(kind)
  PROVE  Unstopped'
<1>1. UNCHANGED <<fronts, created, holes, limR, rx>> /\ fault' # "panic" BY DEF Fail, creditVars
<1>2. LimitEarned' BY <1>1, FinishedSame, LimitSame DEF Unstopped
<1> QED BY <1>1, <1>2 DEF Unstopped, NeverStopped

\* Routing a frame keeps Unstopped.
LEMMA UnstoppedRoute ==
  ASSUME Core, Types', Unstopped, RouteStream
  PROVE  Unstopped'
<1> USE DEF Core
<1>1. PICK fr \in StreamFrames, s \in Streams :
        /\ fr = reader.frame /\ s = reader.frame.id /\ reader.pc = "stream"
        /\ recvMap[s] # 0 => <<s, recvMap[s]>> \in Fronts
        /\ \/ RouteLive(s, <<s, recvMap[s]>>, fr) \/ RouteOwn(s) \/ RouteFail(s, <<s, recvMap[s]>>, fr)
           \/ RouteNew(s, fr) BY RouteCases
<1>2. CASE RouteLive(s, <<s, recvMap[s]>>, fr)
  <2>1. PICK f \in Fronts : f = <<s, recvMap[s]>> BY <1>1, <1>2 DEF RouteLive
  <2>2. rx' = IF fr.len = 0 /\ ~fr.fin THEN rx ELSE Deliver(f, fr) BY <1>2, <2>1 DEF RouteLive
  <2>3. /\ \A g \in Fronts : g # f => rx'[g] = rx[g]
        /\ rx'[f].st = rx[f].st /\ rx'[f].closed = rx[f].closed BY <2>2, Hands
  <2>4. UNCHANGED <<fronts, created, holes, fault, limR>> BY <1>2 DEF RouteLive
  <2> QED BY <2>3, <2>4, UnstoppedSame
<1>3. CASE RouteOwn(s) BY <1>3, UnstoppedSame DEF RouteOwn
<1>4. CASE RouteFail(s, <<s, recvMap[s]>>, fr)
  <2>1. Fail("flow") \/ Fail("limit") BY <1>4 DEF RouteFail
  <2> QED BY <2>1, FailKeeps
<1>5. CASE RouteNew(s, fr)
  <2>1. /\ recvMap[s] = 0 /\ s \in Uni /\ limR' = ReceiveUpTo(limR, s + 1) /\ Record(s)
        /\ fronts' = [fronts EXCEPT ![s] = @ + 1] /\ UNCHANGED <<fault, rx>> BY <1>5 DEF RouteNew
  <2>2. ~IsClosed(s) /\ fronts[s] = 0 BY <1>1, <2>1, NotStopped DEF Unstopped, ReaderMapInv, MapInv, FrontInv
  <2>3. fronts'[s] = 1 /\ \A t \in Streams : t # s => fronts'[t] = fronts[t] BY <2>1, <2>2 DEF Types, ReaderTypes
  <2>4. PICK f \in Fronts : f = <<s, 1>> /\ f[1] = s /\ f[2] = 1 BY StreamFacts
  <2>5. rx[f].st = "none" BY <2>2, <2>4 DEF MapInv, FrontInv
  <2>6. \A t \in Uni : t # s => (IsClosed(t)' <=> IsClosed(t)) BY <2>1, RecordFacts DEF MapInv, FrontInv
  <2>7. s \notin Finished /\ s \notin Finished'
    <3>1. s \notin Finished BY <2>2 DEF Finished
    <3>2. 1 \in 1 .. fronts'[s] /\ rx'[<<s, 1>>].st # "dropped" BY <2>1, <2>3, <2>4, <2>5
    <3>3. s \in Finished' => \A k \in 1 .. fronts'[s] : rx'[<<s, k>>].st = "dropped" BY DEF Finished
    <3> QED BY <3>1, <3>2, <3>3
  <2>8. ASSUME NEW t \in Uni, t # s PROVE t \in Finished' <=> t \in Finished
    <3>1. fronts'[t] = fronts[t] /\ rx' = rx BY <2>1, <2>3, <2>8, StreamFacts
    <3>2. t \in Finished' <=> IsClosed(t)' /\ \A k \in 1 .. fronts'[t] : rx'[<<t, k>>].st = "dropped" BY DEF Finished
    <3> QED BY <2>6, <2>8, <3>1, <3>2, FinishedMeans
  <2>9. Finished' = Finished
    <3>1. Finished \in SUBSET Uni /\ Finished' \in SUBSET Uni BY DEF Finished
    <3> QED BY <2>7, <2>8, <3>1
  <2>10. limR'.max = limR.max /\ limR'.released = limR.released BY <2>1, CreditNats, UpToFields, UniOrOwn
  <2> QED BY <2>1, <2>9, <2>10, LimitSame DEF Unstopped, NeverStopped
<1> QED BY <1>1, <1>2, <1>3, <1>4, <1>5

\* Retiring a stream that was reset keeps Unstopped.
LEMMA UnstoppedRetire ==
  ASSUME Core, Types', Unstopped, RetireReset
  PROVE  Unstopped'
<1> USE DEF Core
<1>1. PICK s \in Streams :
        /\ s = reader.frame.id /\ reader.pc = "retire" /\ UNCHANGED <<fault, fronts>>
        /\ recvMap[s] # 0 => <<s, recvMap[s]>> \in Fronts
        /\ RetireLive(s) \/ RetireOwn(s) \/ RetireUnseen(s) BY RetireCases
<1>2. CASE RetireLive(s)
  <2>1. PICK f \in Fronts : f = <<s, recvMap[s]>> BY <1>1, <1>2 DEF RetireLive
  <2>2. rx' = rx \/ rx' = [rx EXCEPT ![f].reset = TRUE] BY <1>2, <2>1 DEF RetireLive
  <2>3. \A g \in Fronts : rx'[g].st = rx[g].st /\ rx'[g].closed = rx[g].closed BY <2>2, RxResets DEF Types
  <2>4. UNCHANGED <<created, holes, limR>> BY <1>2 DEF RetireLive
  <2> QED BY <1>1, <2>3, <2>4, UnstoppedSame
<1>3. CASE RetireOwn(s) BY <1>1, <1>3, UnstoppedSame DEF RetireOwn
<1>4. CASE RetireUnseen(s)
  <2>1. recvMap[s] = 0 /\ s \in Uni /\ Record(s) /\ limR' = Consume(limR, 1) /\ rx' = rx BY <1>4 DEF RetireUnseen
  <2>2. ~IsClosed(s) /\ fronts[s] = 0 BY <1>1, <2>1, NotStopped DEF Unstopped, ReaderMapInv, MapInv, FrontInv
  <2>3. IsClosed(s)' /\ \A t \in Uni : t # s => (IsClosed(t)' <=> IsClosed(t)) BY <2>1, RecordFacts DEF MapInv, FrontInv
  <2>4. s \notin Finished BY <2>2 DEF Finished
  <2>5. s \in Finished' BY <1>1, <2>1, <2>2, <2>3 DEF Finished
  <2>6. ASSUME NEW t \in Uni, t # s PROVE t \in Finished' <=> t \in Finished
    <3>1. t \in Finished' <=> IsClosed(t)' /\ \A k \in 1 .. fronts'[t] : rx'[<<t, k>>].st = "dropped" BY DEF Finished
    <3> QED BY <1>1, <2>1, <2>3, <2>6, <3>1, FinishedMeans
  <2>7. Finished' = Finished \cup {s}
    <3>1. Finished \in SUBSET Uni /\ Finished' \in SUBSET Uni BY DEF Finished
    <3> QED BY <2>1, <2>5, <2>6, <3>1
  <2> QED BY <1>1, <2>1, <2>4, <2>7, LimitGains DEF Unstopped, NeverStopped
<1> QED BY <1>1, <1>2, <1>3, <1>4

\* A step of the reader keeps Unstopped.
LEMMA UnstoppedReader ==
  ASSUME Core, Types', Unstopped, ReceiverReader
  PROVE  Unstopped'
<1> USE DEF Core
<1>1. CASE RecvStream
  <2>1. PICK fr : TakeLate(fr) \/ TakeFail(fr) \/ Take(fr) BY <1>1, RecvStreamCases
  <2>2. CASE TakeLate(fr) \/ Take(fr) BY <2>2, UnstoppedSame DEF TakeLate, Take
  <2>3. CASE TakeFail(fr) BY <2>3, FailKeeps DEF TakeFail
  <2> QED BY <2>1, <2>2, <2>3
<1>2. CASE RouteStream BY <1>2, UnstoppedRoute
<1>3. CASE OfferStream
  <2>1. PICK f : rx' = [rx EXCEPT ![f].st = "queued"] /\ f = <<reader.frame.id, fronts[reader.frame.id]>>
    BY <1>3 DEF OfferStream
  <2>2. reader.frame.id \in Streams /\ reader.pc = "accept" /\ UNCHANGED <<fronts, created, holes, fault, limR>>
    BY <1>3, ReaderFields DEF OfferStream, StreamPcs, creditVars, Types
  <2>3. f \in Fronts /\ rx[f].st = "none"
    <3>1. fronts[reader.frame.id] \in 1 .. MaxFronts
      <4>1. fronts[reader.frame.id] > 0 BY <2>2 DEF ReaderMapInv
      <4>2. fronts[reader.frame.id] \in 0 .. MaxFronts BY <2>2 DEF Types, ReaderTypes
      <4> QED BY <4>1, <4>2, FrontBound
    <3> QED BY <2>1, <2>2, <3>1, FrontOf DEF ReaderMapInv
  <2>4. /\ \A g \in Fronts : g # f => rx'[g] = rx[g]
        /\ rx'[f].st = "queued" /\ rx'[f].closed = rx[f].closed BY <2>1, <2>3, RxMoves DEF Types
  <2> QED BY <2>2, <2>3, <2>4, UnstoppedSame
<1>4. CASE InsertStream
  <2>1. PICK fr \in StreamFrames, f \in Fronts :
          /\ rx' = IF fr.len = 0 /\ ~fr.fin THEN rx ELSE Deliver(f, fr)
          /\ UNCHANGED <<fronts, created, holes, fault, limR>> BY <1>4, InsertCases
  <2>2. /\ \A g \in Fronts : g # f => rx'[g] = rx[g]
        /\ rx'[f].st = rx[f].st /\ rx'[f].closed = rx[f].closed BY <2>1, Hands
  <2> QED BY <2>1, <2>2, UnstoppedSame
<1>5. CASE RecvReset
  <2>1. PICK fr \in ResetFrames : /\ fr.id \in Streams
                                  /\ \/ ResetLate(fr.id) \/ ResetFail(fr.id)
                                     \/ \E live \in BOOLEAN : ResetTake(fr, live) BY <1>5, RecvResetCases
  <2>2. CASE ResetLate(fr.id) BY <2>2, UnstoppedSame DEF ResetLate
  <2>3. CASE ResetFail(fr.id) BY <2>3, FailKeeps DEF ResetFail
  <2>4. ASSUME NEW live \in BOOLEAN, ResetTake(fr, live) PROVE Unstopped'
    <3>1. limR' = limR \/ limR' = ReceiveUpTo(limR, fr.id + 1) BY <2>4 DEF ResetTake
    <3>2. limR'.max = limR.max /\ limR'.released = limR.released
      <4>1. limR \in CreditState /\ fr.id + 1 \in Nat BY <2>1, CreditNats, UniOrOwn
      <4> QED BY <3>1, <4>1, UpToFields
    <3>3. UNCHANGED <<fronts, created, holes, fault, rx>> BY <2>4 DEF ResetTake
    <3> QED BY <3>2, <3>3, UnstoppedSame
  <2> QED BY <2>1, <2>2, <2>3, <2>4
<1>6. CASE AccountReset
  <2>1. PICK s \in Streams, n \in Nat :
          /\ s = reader.frame.id /\ reader.pc = "reset"
          /\ \/ reader.live /\ recvMap[s] = 0 /\ Fail("panic")
             \/ AccountFlow(s, n) \/ Account(s, n) BY <1>6, AccountCases
  <2>2. ~(reader.live /\ recvMap[s] = 0) BY <2>1, NotStopped DEF ReaderMapInv, Unstopped
  <2>3. CASE AccountFlow(s, n) BY <2>3, FailKeeps DEF AccountFlow
  <2>4. CASE Account(s, n) BY <2>4, UnstoppedSame DEF Account
  <2> QED BY <2>1, <2>2, <2>3, <2>4
<1>7. CASE ReaderGrant BY <1>7, GrantCases, UnstoppedSame
<1>8. CASE RetireReset BY <1>8, UnstoppedRetire
<1> QED BY <1>1, <1>2, <1>3, <1>4, <1>5, <1>6, <1>7, <1>8 DEF ReceiverReader

\* Dropping a RecvStream ends its stream once.
LEMMA UnstoppedDrop ==
  ASSUME Core, Types', Unstopped, "stop" \notin Calls, NEW f \in Fronts, DropRecv(f), ReceiverApp(f)
  PROVE  Unstopped'
<1> USE DEF Core
<1>1. UNCHANGED <<fronts, created, holes, fault>> BY ReceiverAppFrame DEF AppFrame
<1>2. /\ \A g \in Fronts : g # f => rx'[g] = rx[g]
      /\ rx'[f] = [rx[f] EXCEPT !.st = "dropped", !.data = <<>>, !.buf = [off |-> 0, len |-> 0],
                     !.closed = IF rx[f].fin \/ rx[f].closed # "no" THEN rx[f].closed ELSE "stop"] BY AppEffects, Zenon
<1>3. rx[f].st = "held" /\ (rx[f].fin \/ rx[f].closed # "no") BY DEF DropRecv, Held
<1>4. rx'[f].st = "dropped" /\ rx'[f].closed = rx[f].closed BY <1>2, <1>3 DEF Types, AppTypes, RxStates
<1>5. NeverStopped' BY <1>2, <1>4 DEF Unstopped, NeverStopped
<1>6. PICK s \in Streams, k \in Nat : f = <<s, k>> /\ s = f[1] /\ k = f[2] /\ k >= 1 BY StreamFacts
<1>7. CASE s \notin Uni
  <2>1. limR' = limR BY <1>6, <1>7 DEF DropRecv
  <2>2. ASSUME NEW t \in Uni PROVE t \in Finished' <=> t \in Finished
    <3>1. \A j \in 1 .. fronts[t] : rx'[<<t, j>>] = rx[<<t, j>>] BY <1>2, <1>6, <1>7, FinishedMeans
    <3>2. t \in Finished' <=> IsClosed(t)' /\ \A j \in 1 .. fronts'[t] : rx'[<<t, j>>].st = "dropped" BY DEF Finished
    <3>3. IsClosed(t)' <=> IsClosed(t) BY <1>1 DEF IsClosed
    <3> QED BY <1>1, <3>1, <3>2, <3>3, FinishedMeans
  <2>3. Finished' = Finished
    <3>1. Finished \in SUBSET Uni /\ Finished' \in SUBSET Uni BY DEF Finished
    <3> QED BY <2>2, <3>1
  <2> QED BY <1>1, <1>5, <2>1, <2>3, LimitSame DEF Unstopped
<1>8. CASE s \in Uni
  <2>1. limR' = Consume(limR, 1) BY <1>6, <1>8 DEF DropRecv
  <2>2. k <= fronts[s] BY <1>3, <1>6 DEF MapInv, FrontInv
  <2>3. k = 1 /\ fronts[s] = 1 BY <1>6, <1>8, <2>2, NotStopped DEF Unstopped
  <2>4. IsClosed(s) /\ (IsClosed(s))' BY <1>1, <1>8, <2>3 DEF MapInv, FrontInv, IsClosed
  <2>5. s \notin Finished
    <3>1. 1 \in 1 .. fronts[s] /\ rx[<<s, 1>>].st # "dropped" BY <1>3, <1>6, <2>3
    <3> QED BY <1>8, <3>1, FinishedMeans
  <2>6. s \in Finished'
    <3>1. \A j \in 1 .. fronts'[s] : j = 1 BY <1>1, <2>3
    <3>2. rx'[<<s, 1>>].st = "dropped" BY <1>4, <1>6, <2>3
    <3> QED BY <1>8, <2>4, <3>1, <3>2 DEF Finished
  <2>7. ASSUME NEW t \in Uni, t # s PROVE t \in Finished' <=> t \in Finished
    <3>1. \A j \in 1 .. fronts[t] : rx'[<<t, j>>] = rx[<<t, j>>] BY <1>2, <1>6, <2>7, FinishedMeans
    <3>2. t \in Finished' <=> IsClosed(t)' /\ \A j \in 1 .. fronts'[t] : rx'[<<t, j>>].st = "dropped" BY DEF Finished
    <3>3. IsClosed(t)' <=> IsClosed(t) BY <1>1 DEF IsClosed
    <3> QED BY <1>1, <3>1, <3>2, <3>3, FinishedMeans
  <2>8. Finished' = Finished \cup {s}
    <3>1. Finished \in SUBSET Uni /\ Finished' \in SUBSET Uni BY DEF Finished
    <3> QED BY <1>8, <2>6, <2>7, <3>1
  <2> QED BY <1>1, <1>5, <2>1, <2>5, <2>8, LimitGains DEF Unstopped
<1> QED BY <1>7, <1>8

\* A step of the receiving application keeps Unstopped.
LEMMA UnstoppedApp ==
  ASSUME Core, Types', Unstopped, "stop" \notin Calls, NEW f \in Fronts, ReceiverApp(f)
  PROVE  Unstopped'
<1> USE DEF Core
<1>1. UNCHANGED <<fronts, created, holes, fault>> BY ReceiverAppFrame DEF AppFrame
<1>2. ASSUME NEW n \in 1 .. Chunk, Read(f, n) PROVE Unstopped'
  <2>1. /\ \A g \in Fronts : g # f => rx'[g] = rx[g]
        /\ rx'[f].st = rx[f].st /\ rx'[f].closed = rx[f].closed BY <1>2, ReadEffect
  <2>2. limR' = limR BY <1>2 DEF Read
  <2> QED BY <1>1, <2>1, <2>2, UnstoppedSame
<1>3. CASE ReadReset(f)
  <2>1. /\ \A g \in Fronts : g # f => rx'[g] = rx[g]
        /\ rx'[f] = [rx[f] EXCEPT !.closed = "reset", !.reset = FALSE] BY <1>3, AppEffects, Zenon
  <2>2. rx'[f].st = rx[f].st /\ rx'[f].closed = "reset" BY <2>1 DEF Types, AppTypes, RxStates
  <2>3. limR' = limR BY <1>3 DEF ReadReset, creditVars
  <2> QED BY <1>1, <2>1, <2>2, <2>3, UnstoppedSame, Zenon
<1>4. CASE AwaitClosed(f)
  <2>1. /\ \A g \in Fronts : g # f => rx'[g] = rx[g]
        /\ rx'[f] = [rx[f] EXCEPT !.buf = [off |-> Head(rx[f].data).off, len |-> Head(rx[f].data).len],
                       !.data = Tail(rx[f].data), !.fin = Head(rx[f].data).fin] BY <1>4, AppEffects, Zenon
  <2>2. rx'[f].st = rx[f].st /\ rx'[f].closed = rx[f].closed BY <2>1 DEF Types, AppTypes, RxStates
  <2>3. limR' = limR BY <1>4 DEF AwaitClosed, creditVars
  <2> QED BY <1>1, <2>1, <2>2, <2>3, UnstoppedSame, Zenon
<1>5. CASE Stop(f) BY <1>5 DEF Stop
<1>6. CASE DropRecv(f) BY <1>6, UnstoppedDrop
<1>7. CASE SendPending(f) BY <1>1, <1>7, UnstoppedSame DEF SendPending, creditVars
<1> QED BY <1>2, <1>3, <1>4, <1>5, <1>6, <1>7 DEF ReceiverApp

\* Every step keeps Unstopped.
LEMMA NextUnstopped ==
  ASSUME Core, Unstopped, "stop" \notin Calls, [Next]_vars
  PROVE  Unstopped'
<1>0. Types /\ Types' BY NextTypes DEF Core
<1>1. CASE (\E s \in Streams : SenderApp(s)) \/ SenderWriter \/ UNCHANGED vars
  <2>1. UNCHANGED <<fronts, created, holes, fault, limR, rx>>
    BY <1>1 DEF SenderApp, SenderWriter, vars, readerVars, creditVars, appVars
  <2> QED BY <1>0, <2>1, UnstoppedSame
<1>2. CASE SenderReader
  <2>1. UNCHANGED <<fronts, created, holes, limR, rx>> BY <1>2 DEF SenderReader, readerVars, creditVars, appVars
  <2>2. fault' # "panic" BY <1>2 DEF SenderReader, RecvControl, Running, Unstopped
  <2>3. LimitEarned' BY <1>0, <2>1, FinishedSame, LimitSame DEF Unstopped
  <2> QED BY <2>1, <2>2, <2>3 DEF Unstopped, NeverStopped
<1>3. CASE ReceiverReader BY <1>0, <1>3, UnstoppedReader
<1>4. CASE Accept
  <2>1. PICK f : rx' = [rx EXCEPT ![f].st = "held"] /\ f = Head(acceptQ) /\ acceptQ # <<>> BY <1>4 DEF Accept, AcceptUni
  <2>2. f \in Fronts /\ rx[f].st = "queued"
    <3>1. acceptQ \in Seq(Fronts) BY <1>0 DEF Types, ReaderTypes
    <3> QED BY <2>1, <3>1, SeqTail DEF Core, MapInv, AcceptInv
  <2>3. /\ \A g \in Fronts : g # f => rx'[g] = rx[g]
        /\ rx'[f].st = "held" /\ rx'[f].closed = rx[f].closed BY <1>0, <2>1, <2>2, RxMoves DEF Types
  <2>4. UNCHANGED <<fronts, created, holes, fault, limR>> BY <1>4 DEF Accept, AcceptUni, creditVars
  <2> QED BY <1>0, <2>2, <2>3, <2>4, UnstoppedSame
<1>5. CASE ReceiverWriter
  <2>1. UNCHANGED <<fronts, created, holes, fault, limR, rx>>
    BY <1>5 DEF ReceiverWriter, TransmitControl, creditVars, appVars
  <2> QED BY <1>0, <2>1, UnstoppedSame
<1>6. ASSUME NEW f \in Fronts, ReceiverApp(f) PROVE Unstopped' BY <1>0, <1>6, UnstoppedApp
<1> QED BY <1>1, <1>2, <1>3, <1>4, <1>5, <1>6 DEF Next

\* Unstopped holds at the start.
LEMMA InitUnstopped == Init => Unstopped
<1> SUFFICES ASSUME Init PROVE Unstopped OBVIOUS
<1>1. NeverStopped /\ fault # "panic" BY DEF Init, NeverStopped
<1>2. Finished = {}
  <2>1. created = -1 /\ \A s \in Uni : s >= 0 /\ s \in Nat BY StreamFacts DEF Init
  <2>2. \A s \in Uni : ~IsClosed(s) BY <2>1 DEF IsClosed
  <2> QED BY <2>2 DEF Finished
<1>3. limR.max = StreamLimit /\ limR.released = 0 BY DEF Init, NewCredit
<1> QED BY <1>1, <1>2, <1>3, FS_EmptySet, SizesAreNatural DEF Unstopped, LimitEarned

\* Unstopped, for applications that never stop a stream.
UnstoppedInv == "stop" \notin Calls => Unstopped

\* UnstoppedInv holds of every session.
LEMMA UnstoppedHolds == Spec => []UnstoppedInv
<1>1. Init => UnstoppedInv BY InitUnstopped DEF UnstoppedInv
<1>2. Core /\ UnstoppedInv /\ [Next]_vars => UnstoppedInv' BY NextUnstopped DEF UnstoppedInv
<1> QED BY <1>1, <1>2, CoreHolds, PTL DEF Spec

\* A stream that a higher index skipped is not taken for a closed one by the
\* receiver's created and holes, and unless a RecvStream is stopped the limit
\* on streams it advertises is ahead of the streams it is done with by no more
\* than max_streams_uni.
THEOREM IndicesAreExact == Spec => []IndicesExact
<1>1. Core /\ UnstoppedInv => IndicesExact
  <2> SUFFICES ASSUME Core, UnstoppedInv PROVE IndicesExact OBVIOUS
  <2>1. SkippedStillOpens BY CoreEnds
  <2>2. ASSUME "stop" \notin Calls PROVE limR.max <= StreamLimit + Cardinality(Finished)
    <3>1. limR.max + limR.released = StreamLimit + Cardinality(Finished)
      BY <2>2 DEF UnstoppedInv, Unstopped, LimitEarned
    <3>2. limR.max \in Nat /\ limR.released \in Nat BY CreditNats DEF Core, CreditState
    <3>3. Cardinality(Finished) \in Nat /\ StreamLimit \in Nat BY FewFinished, SizesAreNatural DEF Core
    <3> QED BY <3>1, <3>2, <3>3
  <2> QED BY <2>1, <2>2 DEF IndicesExact, ConcurrencyLimit
<1> QED BY <1>1, UnstoppedHolds, CoreHolds, PTL

\* Unless a RecvStream is stopped, a stream seen live at the start of the
\* RESET_STREAM handler is in the map still when the handler looks again: the
\* expect of session.rs never fails.  With a stop it can: the run
\* streams_stop_race shows how.
THEOREM LiveUnlessStopped == Spec => []("stop" \notin Calls => LiveStreamStaysLive)
<1>1. UnstoppedInv => ("stop" \notin Calls => LiveStreamStaysLive) BY DEF UnstoppedInv, Unstopped, LiveStreamStaysLive
<1> QED BY <1>1, UnstoppedHolds, PTL

----------------------------------------------------------------------------
(* What is spent is inside the window                                     *)

\* The most that is ever spent of the connection's credit: the bound of the
\* model on the bytes of a stream, for every stream.
Bound == MaxBytes * (NumUni + NumOwn)

\* The connection's credit spent is what the streams spent, and no stream spent
\* more than it wrote.
SpentInv ==
  /\ connS.used = SumFunctionOnSet([s \in Streams |-> strS[s].used], Streams)
  /\ \A s \in Streams : strS[s].used <= tx[s].offset

\* The credit spent is bounded.
LEMMA SpentBound ==
  ASSUME Types, SpentInv
  PROVE  connS.used <= Bound /\ Bound \in Nat
<1>. DEFINE g == [s \in Streams |-> strS[s].used]
<1>1. \A s \in Streams : g[s] \in Nat /\ g[s] <= MaxBytes
  <2> TAKE s \in Streams
  <2>1. strS[s].used \in Nat /\ strS[s].used <= tx[s].offset /\ tx[s].offset \in 0 .. MaxBytes
    BY CreditNats, TxFields DEF SpentInv, Types
  <2> QED BY <2>1, SizesAreNatural
<1>2. Cardinality(Streams) = NumUni + NumOwn
  <2>1. NumUni + NumOwn \in Nat /\ NumUni + NumOwn - 1 \in Int BY SizesAreNatural
  <2>2. Cardinality(Streams)
          = IF 0 > NumUni + NumOwn - 1 THEN 0 ELSE (NumUni + NumOwn - 1) - 0 + 1 BY <2>1, FS_Interval DEF Streams
  <2> QED BY <2>1, <2>2, SizesAreNatural
<1>3. SumFunctionOnSet(g, Streams) <= MaxBytes * Cardinality(Streams)
  <2> HIDE DEF g
  <2> QED BY <1>1, FewStreams, TotalAtMost, SizesAreNatural
<1>4. Bound \in Nat BY SizesAreNatural DEF Bound
<1> QED BY <1>2, <1>3, <1>4 DEF SpentInv, Bound

\* A step on one stream that spends the same of both credits keeps SpentInv.
LEMMA SpentChange ==
  ASSUME Types, Types', SpentInv, NEW s \in Streams, \A t \in Streams : t # s => strS'[t] = strS[t] /\ tx'[t] = tx[t],
         connS'.used - connS.used = strS'[s].used - strS[s].used, strS'[s].used <= tx'[s].offset
  PROVE  SpentInv'
<1>. DEFINE g == [t \in Streams |-> strS[t].used]
            h == [t \in Streams |-> strS'[t].used]
<1>1. \A t \in Streams : g[t] \in Int /\ h[t] \in Int /\ (t # s => h[t] = g[t])
  <2>1. \A t \in Streams : strS[t].used \in Nat BY CreditNats
  <2>2. \A t \in Streams : strS'[t].used \in Nat BY CreditFields DEF Types, SenderTypes
  <2> QED BY <2>1, <2>2
<1>2. SumFunctionOnSet(h, Streams) = SumFunctionOnSet(g, Streams) + (h[s] - g[s])
  <2> HIDE DEF g, h
  <2> QED BY <1>1, FewStreams, TotalUpdate
<1>3. connS.used = SumFunctionOnSet(g, Streams) /\ connS.used \in Nat BY CreditNats DEF SpentInv
<1>4. connS'.used \in Nat BY CreditFields DEF Types, SenderTypes
<1>5. h[s] = strS'[s].used /\ g[s] = strS[s].used OBVIOUS
<1>6. connS'.used = SumFunctionOnSet(h, Streams)
  <2> HIDE DEF g, h
  <2> QED BY <1>1, <1>2, <1>3, <1>4, <1>5
<1>7. \A t \in Streams : strS'[t].used <= tx'[t].offset BY DEF SpentInv
<1> QED BY <1>6, <1>7 DEF SpentInv

\* Giving a stream up returns the same to both credits.
LEMMA SpentAbandon ==
  ASSUME Types, Types', StreamAccounting, SpentInv, NEW s \in Streams, NEW why, Abandon(s, why)
  PROVE  SpentInv' /\ Bytes(queue[s]) <= connS.used
<1>1. PICK b \in Nat : b = Bytes(queue[s]) BY BytesFacts DEF Types, SenderTypes
<1>2. /\ strS' = [strS EXCEPT ![s] = Release(@, b)] /\ connS' = Release(connS, b)
      /\ tx' = [tx EXCEPT ![s].closed = why] BY <1>1 DEF Abandon
<1>3. PICK c, d : c = Release(strS[s], b) /\ d = Release(connS, b) OBVIOUS
<1>4. /\ strS'[s] = c /\ connS' = d /\ \A t \in Streams : t # s => strS'[t] = strS[t] /\ tx'[t] = tx[t]
      /\ tx'[s].offset = tx[s].offset BY <1>2, <1>3, TxCloses DEF Types, SenderTypes
<1>5. /\ strS[s] \in CreditState /\ strS[s].used \in Nat /\ connS \in CreditState /\ connS.used \in Nat
      /\ wired[s] \in Nat /\ tx[s].offset \in Nat BY CreditNats, TxFields DEF Types, SenderTypes
<1>6. b <= strS[s].used BY <1>1, <1>5 DEF StreamAccounting
<1>7. strS[s].used <= connS.used
  <2>. DEFINE g == [t \in Streams |-> strS[t].used]
  <2>1. \A t \in Streams : g[t] \in Nat BY CreditNats
  <2>2. g[s] <= SumFunctionOnSet(g, Streams)
    <3> HIDE DEF g
    <3> QED BY <2>1, FewStreams, TotalBounds
  <2> QED BY <2>2 DEF SpentInv
<1>8. c.used = strS[s].used - b BY <1>3, <1>5, <1>6, CreditFields
<1>9. d.used = connS.used - b
  <2>1. b <= connS.used BY <1>5, <1>6, <1>7
  <2> QED BY <1>3, <1>5, <2>1, CreditFields
<1>10. strS[s].used <= tx[s].offset BY DEF SpentInv
<1>11. connS'.used - connS.used = strS'[s].used - strS[s].used /\ strS'[s].used <= tx'[s].offset
  <2>1. connS'.used = connS.used - b /\ strS'[s].used = strS[s].used - b /\ tx'[s].offset = tx[s].offset
    BY <1>4, <1>8, <1>9
  <2> QED BY <1>5, <1>10, <2>1
<1> QED BY <1>1, <1>4, <1>5, <1>6, <1>7, <1>11, SpentChange

\* A step that spends nothing keeps SpentInv.
LEMMA SpentSame ==
  ASSUME SpentInv, \A t \in Streams : strS'[t].used = strS[t].used /\ tx'[t].offset = tx[t].offset, connS'.used = connS.used
  PROVE  SpentInv'
<1>1. [t \in Streams |-> strS'[t].used] = [t \in Streams |-> strS[t].used] OBVIOUS
<1> QED BY <1>1 DEF SpentInv

\* Every step keeps SpentInv.
LEMMA NextSpent ==
  ASSUME Types, Types', StreamAccounting, SpentInv, [Next]_vars
  PROVE  SpentInv'
<1>1. ASSUME NEW s \in Streams, SenderApp(s) PROVE SpentInv'
  <2>1. CASE OpenUni(s) \/ ReserveSlot(s) \/ CancelWrite(s) \/ Finish(s)
    <3>1. UNCHANGED <<strS, connS>> BY <2>1 DEF OpenUni, ReserveSlot, CancelWrite, Finish
    <3>2. \A t \in Streams : tx'[t].offset = tx[t].offset
      <4>1. CASE OpenUni(s) BY <4>1, TxOpens DEF OpenUni, Types
      <4>2. CASE ReserveSlot(s) \/ CancelWrite(s) BY <4>2 DEF ReserveSlot, CancelWrite
      <4>3. CASE Finish(s) BY <4>3, TxFinishes DEF Finish, Types
      <4> QED BY <2>1, <4>1, <4>2, <4>3
    <3> QED BY <3>1, <3>2, SpentSame
  <2>2. CASE CommitWrite(s)
    <3>1. PICK n \in Nat : /\ strS' = [strS EXCEPT ![s] = Claim(@, n)] /\ connS' = Claim(connS, n)
                           /\ tx' = [tx EXCEPT ![s].offset = @ + n] BY <2>2, CommitCases
    <3>2. PICK c, d : c = Claim(strS[s], n) /\ d = Claim(connS, n) OBVIOUS
    <3>3. /\ strS[s] \in CreditState /\ strS[s].used \in Nat /\ connS \in CreditState /\ connS.used \in Nat
          /\ tx[s].offset \in Nat BY CreditNats, TxFields DEF Types
    <3>4. c.used = strS[s].used + n /\ d.used = connS.used + n BY <3>2, <3>3, CreditFields
    <3>5. /\ strS'[s] = c /\ connS' = d /\ \A t \in Streams : t # s => strS'[t] = strS[t] /\ tx'[t] = tx[t]
          /\ tx'[s].offset = tx[s].offset + n BY <3>1, <3>2, TxWrites DEF Types, SenderTypes
    <3>6. strS[s].used <= tx[s].offset BY DEF SpentInv
    <3>7. connS'.used - connS.used = strS'[s].used - strS[s].used /\ strS'[s].used <= tx'[s].offset
      <4>1. connS'.used = connS.used + n /\ strS'[s].used = strS[s].used + n /\ tx'[s].offset = tx[s].offset + n
        BY <3>4, <3>5
      <4> QED BY <3>3, <3>6, <4>1
    <3> QED BY <3>5, <3>7, SpentChange
  <2>3. CASE Reset(s) BY <2>3, SpentAbandon DEF Reset
  <2>4. CASE SeeStop(s)
    <3>1. CASE tx[s].fin
      <4>1. tx' = [tx EXCEPT ![s].closed = "stop"] /\ UNCHANGED <<strS, connS>> BY <2>4, <3>1 DEF SeeStop
      <4>2. \A t \in Streams : tx'[t].offset = tx[t].offset BY <4>1, TxCloses DEF Types
      <4> QED BY <4>1, <4>2, SpentSame
    <3>2. CASE ~tx[s].fin BY <2>4, <3>2, SpentAbandon DEF SeeStop
    <3> QED BY <3>1, <3>2
  <2> QED BY <1>1, <2>1, <2>2, <2>3, <2>4 DEF SenderApp
<1>2. CASE SenderWriter BY <1>2, SpentSame DEF SenderWriter, TransmitReset, TransmitStream
<1>3. CASE SenderReader
  <2>1. PICK g \in ControlFrames : g = Head(wireBA) /\ wireBA # <<>>
    BY <1>3, SeqTail DEF SenderReader, RecvControl, Types, WireTypes
  <2>2. /\ tx' = tx
        /\ connS' = connS \/ (g.type = "max_data" /\ connS' = RecvMax(connS, g.max))
        /\ strS' = strS \/ (g.type = "max_stream_data" /\ strS' = [strS EXCEPT ![g.id] = RecvMax(@, g.max)])
    BY <1>3, <2>1 DEF SenderReader, RecvControl
  <2>3. connS'.used = connS.used
    <3>1. ASSUME g.type = "max_data", connS' = RecvMax(connS, g.max) PROVE connS'.used = connS.used
      <4>1. g.max \in Nat BY <3>1, FrameFields
      <4> QED BY <3>1, <4>1, CreditNats, RaiseFields
    <3> QED BY <2>2, <3>1
  <2>4. \A t \in Streams : strS'[t].used = strS[t].used
    <3>1. ASSUME g.type = "max_stream_data", strS' = [strS EXCEPT ![g.id] = RecvMax(@, g.max)], NEW t \in Streams
          PROVE  strS'[t].used = strS[t].used
      <4>1. g.max \in Nat /\ g.id \in Streams BY <3>1, FrameFields
      <4>2. PICK c : c = RecvMax(strS[g.id], g.max) OBVIOUS
      <4>3. strS[g.id] \in CreditState BY <4>1, CreditNats
      <4>4. c.used = strS[g.id].used BY <4>1, <4>2, <4>3, RaiseFields
      <4>5. strS'[g.id] = c /\ (t # g.id => strS'[t] = strS[t]) BY <3>1, <4>1, <4>2 DEF Types, SenderTypes
      <4> QED BY <4>4, <4>5
    <3> QED BY <2>2, <3>1
  <2> QED BY <2>2, <2>3, <2>4, SpentSame
<1>4. CASE UNCHANGED <<strS, tx, connS>> BY <1>4, SpentSame
<1>5. CASE ReceiverReader \/ Accept \/ ReceiverWriter \/ UNCHANGED vars
  BY <1>4, <1>5 DEF ReceiverReader, Accept, ReceiverWriter, vars, senderVars
<1>6. ASSUME NEW f \in Fronts, ReceiverApp(f) PROVE SpentInv' BY <1>4, <1>6 DEF ReceiverApp, senderVars
<1> QED BY <1>1, <1>2, <1>3, <1>5, <1>6 DEF Next

\* SpentInv holds at the start.
LEMMA InitSpent == Init => SpentInv
<1> SUFFICES ASSUME Init PROVE SpentInv OBVIOUS
<1>1. /\ connS.used = 0 /\ \A s \in Streams : strS[s].used = 0 /\ tx[s].offset = 0 BY DEF Init, NewCredit
<1>. DEFINE g == [s \in Streams |-> strS[s].used]
<1>2. \A s \in Streams : g[s] = 0 BY <1>1
<1>3. SumFunctionOnSet(g, Streams) = 0
  <2> HIDE DEF g
  <2> QED BY <1>2, FewStreams, TotalZero
<1> QED BY <1>1, <1>3 DEF SpentInv

----------------------------------------------------------------------------
(* The connection implements CreditWindow                                 *)

\* What the receiving end holds: the frame in the reader's hand and what is
\* buffered for every receiving half.
HeldBytes == InReader({"stream", "accept", "insert"}) + SumFunction([f \in Fronts |-> Buffered(f)])

\* The verdict as the window sees it.
Told == IF fault = "flow" THEN "refused" ELSE "ok"

\* A write is Spend of the window.
LEMMA ConnSpends ==
  ASSUME NEW n \in 0 .. Bound, connS.used + n <= Bound, n <= Available(connS), connS' = Claim(connS, n),
         QueuedBytes' = QueuedBytes + n,
         UNCHANGED <<connR, WireBytes, ignored, HeldBytes, Told>>
  PROVE  ConnWin!WindowNext
  BY DEF ConnWin!WindowNext, ConnWin!Spend, ConnWin!Available, ConnWin!Claim, Available, Claim, Bound, HeldBytes, Told

\* Giving queued bytes up is GiveBack of the window.
LEMMA ConnGivesBack ==
  ASSUME NEW n \in 0 .. Bound, n <= QueuedBytes, connS' = Release(connS, n), QueuedBytes' = QueuedBytes - n,
         UNCHANGED <<connR, WireBytes, ignored, HeldBytes, Told>>
  PROVE  ConnWin!WindowNext
  BY DEF ConnWin!WindowNext, ConnWin!GiveBack, ConnWin!Release, Release, Bound, HeldBytes, Told

\* Sending a frame is Transmit of the window.
LEMMA ConnTransmits ==
  ASSUME NEW n \in 0 .. Bound, n <= QueuedBytes, QueuedBytes' = QueuedBytes - n, WireBytes' = WireBytes + n,
         UNCHANGED <<connS, connR, ignored, HeldBytes, Told>>
  PROVE  ConnWin!WindowNext BY DEF ConnWin!WindowNext, ConnWin!Transmit, Bound, HeldBytes, Told

\* A frame that is counted is Arrive of the window.
LEMMA ConnArrives ==
  ASSUME NEW n \in 0 .. Bound, n <= WireBytes, WireBytes' = WireBytes - n, MayReceive(connR, n),
         connR' = Receive(connR, n), HeldBytes' = HeldBytes + n,
         UNCHANGED <<connS, QueuedBytes, ignored, Told>>
  PROVE  ConnWin!WindowNext
  BY DEF ConnWin!WindowNext, ConnWin!Arrive, ConnWin!MayReceive, ConnWin!Receive, MayReceive, Receive, Bound, HeldBytes,
    Told

\* A late frame is Ignore of the window.
LEMMA ConnIgnores ==
  ASSUME NEW n \in 0 .. Bound, n <= WireBytes, WireBytes' = WireBytes - n, ignored' = ignored + n,
         UNCHANGED <<connS, connR, QueuedBytes, HeldBytes, Told>>
  PROVE  ConnWin!WindowNext BY DEF ConnWin!WindowNext, ConnWin!Ignore, Bound, HeldBytes, Told

\* A read is ReadBytes of the window.
LEMMA ConnReads ==
  ASSUME NEW n \in 0 .. Bound, n <= HeldBytes, connR' = Consume(connR, n), HeldBytes' = HeldBytes - n,
         UNCHANGED <<connS, QueuedBytes, WireBytes, ignored, Told>>
  PROVE  ConnWin!WindowNext
  BY DEF ConnWin!WindowNext, ConnWin!ReadBytes, ConnWin!Consume, ConnWin!Grants, Consume, Grants, Bound, HeldBytes, Told

\* Bytes thrown away unread are Discard of the window.
LEMMA ConnDiscards ==
  ASSUME NEW n \in 0 .. Bound, n <= HeldBytes, HeldBytes' = HeldBytes - n,
         UNCHANGED <<connS, connR, QueuedBytes, WireBytes, ignored, Told>>
  PROVE  ConnWin!WindowNext BY DEF ConnWin!WindowNext, ConnWin!Discard, Bound, HeldBytes, Told

\* A MAX_DATA that arrives is Learn of the window.
LEMMA ConnLearns ==
  ASSUME NEW m \in Nat, connR.max \in Nat, m <= connR.max, MayIncrease(connS, m), connS' = IncreaseMax(connS, m),
         UNCHANGED <<connR, QueuedBytes, WireBytes, ignored, HeldBytes, Told>>
  PROVE  ConnWin!WindowNext
  BY DEF ConnWin!WindowNext, ConnWin!Learn, ConnWin!MayIncrease, ConnWin!IncreaseMax, MayIncrease, IncreaseMax,
    HeldBytes, Told

\* A step on none of the window's variables is a stutter of it.
LEMMA ConnRests ==
  ASSUME UNCHANGED <<connS, connR, QueuedBytes, WireBytes, ignored, HeldBytes, Told>>
  PROVE  UNCHANGED ConnWin!windowVars BY DEF ConnWin!windowVars, HeldBytes, Told

\* The bytes of the frame in the reader's hand.
InHands == InReader({"stream", "accept", "insert"})

\* What is buffered for every receiving half.
BufferedBytes == SumFunctionOnSet([f \in Fronts |-> Buffered(f)], Fronts)

\* The receiving halves are finite.
LEMMA FewFronts == IsFiniteSet(Fronts)
<1>1. IsFiniteSet(1 .. MaxFronts) BY FS_Interval, BoundsArePositive
<1> QED BY <1>1, FewStreams, FS_Product DEF Fronts

\* What is held is a natural number, and its parts are no more.
LEMMA HeldIs ==
  ASSUME Types
  PROVE  /\ HeldBytes = InHands + BufferedBytes /\ HeldBytes \in Nat /\ InHands \in Nat /\ BufferedBytes \in Nat
         /\ InHands <= HeldBytes /\ \A f \in Fronts : Buffered(f) <= HeldBytes /\ Buffered(f) \in Nat
<1>. DEFINE g == [f \in Fronts |-> Buffered(f)]
<1>1. \A f \in Fronts : Buffered(f) \in Nat BY BufferedIsNat
<1>2. SumFunction(g) = SumFunctionOnSet(g, Fronts) BY SumIsTotal
<1>3. \A f \in Fronts : g[f] = Buffered(f) /\ g[f] \in Nat /\ g[f] \in Int BY <1>1
<1>4. SumFunctionOnSet(g, Fronts) \in Nat
  <2> HIDE DEF g
  <2> QED BY <1>3, FewFronts, TotalType
<1>5. \A f \in Fronts : g[f] <= SumFunctionOnSet(g, Fronts)
  <2> HIDE DEF g
  <2> QED BY <1>3, FewFronts, TotalBounds
<1>6. InHands \in Nat
  <2>1. reader.pc \in {"stream", "accept", "insert"} => reader.frame.len \in Nat BY ReaderFields DEF Types, StreamPcs
  <2> QED BY <2>1 DEF InHands, InReader
<1>7. BufferedBytes = SumFunctionOnSet(g, Fronts) /\ HeldBytes = InHands + SumFunction(g)
  BY DEF BufferedBytes, HeldBytes, InHands
<1> HIDE DEF g
<1> QED BY <1>1, <1>2, <1>3, <1>4, <1>5, <1>6, <1>7

\* HeldIs as a state predicate.
HeldFacts ==
  /\ HeldBytes = InHands + BufferedBytes /\ HeldBytes \in Nat /\ InHands \in Nat /\ BufferedBytes \in Nat
  /\ \A f \in Fronts : Buffered(f) \in Nat

\* HeldFacts follows from the types.
LEMMA HeldFactsHold == Types => HeldFacts
  BY HeldIs DEF HeldFacts

\* The same after a step.
LEMMA HeldFactsAfter == Types' => HeldFacts'
  BY HeldFactsHold, PTL

\* HeldIs after a step.
LEMMA HeldIsAfter ==
  ASSUME Types'
  PROVE  /\ HeldBytes' = InHands' + BufferedBytes' /\ HeldBytes' \in Nat /\ InHands' \in Nat /\ BufferedBytes' \in Nat
         /\ \A f \in Fronts : (Buffered(f))' \in Nat BY HeldFactsAfter DEF HeldFacts

\* A step on one receiving half changes what is held by as much.
LEMMA HeldChange ==
  ASSUME Types, Types', NEW f \in Fronts, \A g \in Fronts : g # f => (Buffered(g))' = Buffered(g)
  PROVE  HeldBytes' = HeldBytes + ((Buffered(f))' - Buffered(f)) + (InHands' - InHands)
<1>. DEFINE g == [e \in Fronts |-> Buffered(e)]
            h == [e \in Fronts |-> (Buffered(e))']
<1>1. /\ HeldBytes = InHands + BufferedBytes /\ HeldBytes \in Nat /\ InHands \in Nat /\ BufferedBytes \in Nat
      /\ \A e \in Fronts : Buffered(e) \in Nat BY HeldIs
<1>2. /\ HeldBytes' = InHands' + BufferedBytes' /\ HeldBytes' \in Nat /\ InHands' \in Nat /\ BufferedBytes' \in Nat
      /\ \A e \in Fronts : (Buffered(e))' \in Nat BY HeldIsAfter
<1>3. \A e \in Fronts : g[e] \in Int /\ h[e] \in Int /\ (e # f => h[e] = g[e]) BY <1>1, <1>2
<1>4. SumFunctionOnSet(h, Fronts) = SumFunctionOnSet(g, Fronts) + (h[f] - g[f])
  <2> HIDE DEF g, h
  <2> QED BY <1>3, FewFronts, TotalUpdate
<1>5. BufferedBytes = SumFunctionOnSet(g, Fronts) /\ BufferedBytes' = SumFunctionOnSet(h, Fronts) BY DEF BufferedBytes
<1>6. h[f] = (Buffered(f))' /\ g[f] = Buffered(f) OBVIOUS
<1> HIDE DEF g, h
<1>7. PICK x \in Nat, y \in Nat, z \in Nat, w \in Nat :
        x = BufferedBytes /\ y = BufferedBytes' /\ z = Buffered(f) /\ w = (Buffered(f))' BY <1>1, <1>2
<1>8. y = x + (w - z) BY <1>4, <1>5, <1>6, <1>7
<1> QED BY <1>1, <1>2, <1>7, <1>8

\* A step that moves no data holds what was held.
LEMMA HeldStays ==
  ASSUME Types, Types', InHands' = InHands, \A g \in Fronts : rx'[g].buf = rx[g].buf /\ rx'[g].data = rx[g].data
  PROVE  HeldBytes' = HeldBytes
<1>1. [g \in Fronts |-> (Buffered(g))'] = [g \in Fronts |-> Buffered(g)] BY BufferedSame
<1>2. BufferedBytes' = BufferedBytes BY <1>1 DEF BufferedBytes
<1> QED BY <1>2, HeldIs, HeldIsAfter

\* A reader that does not move holds what it held.
LEMMA HandsSame ==
  ASSUME reader' = reader
  PROVE  InHands' = InHands BY DEF InHands, InReader

\* What the refinement needs in every state it leaves: Books, the balance, the
\* credit spent, and what is held within what was received.
Ledger == Books /\ Balance /\ SpentInv /\ HeldBytes <= connR.used

\* A step of the window, or a stutter of it.
WindowStep == ConnWin!WindowNext \/ UNCHANGED ConnWin!windowVars

\* The window's quantities are natural numbers within the bound.
LEMMA LedgerBounds ==
  ASSUME Ledger
  PROVE  /\ Bound \in Nat /\ connS.used <= Bound /\ QueuedBytes <= Bound /\ WireBytes <= Bound /\ HeldBytes <= Bound
         /\ QueuedBytes \in Nat /\ WireBytes \in Nat /\ HeldBytes \in Nat /\ connS.used \in Nat /\ Types
<1>1. Types BY DEF Ledger, Books, Core
<1>2. connS.used <= Bound /\ Bound \in Nat BY <1>1, SpentBound DEF Ledger
<1>3. connS.used = QueuedBytes + WireBytes + connR.used + ignored /\ HeldBytes <= connR.used BY DEF Ledger, Balance
<1>4. /\ connS.used \in Nat /\ QueuedBytes \in Nat /\ WireBytes \in Nat /\ connR.used \in Nat /\ ignored \in Nat
  BY <1>1, BookNats
<1>5. HeldBytes \in Nat BY <1>1, HeldIs
<1> QED BY <1>1, <1>2, <1>3, <1>4, <1>5

\* SpentBound as an implication.
LEMMA SpentBounded == Types /\ SpentInv => connS.used <= Bound
  BY SpentBound

\* What is queued is a natural number.
LEMMA QueuedIsNat == queue \in [Streams -> Seq(StreamFrames)] => QueuedBytes \in Nat
  BY QueuedFacts

\* A step that touches neither the reader nor a receiving half holds what was
\* held.
LEMMA SameReceiver ==
  ASSUME Types, Types', UNCHANGED <<reader, rx>>
  PROVE  HeldBytes' = HeldBytes BY HeldStays, HandsSame

\* Giving a stream up is a step of the window.
LEMMA WindowAbandon ==
  ASSUME Ledger, Types', NEW s \in Streams, NEW why, Abandon(s, why),
         UNCHANGED <<connR, wireAB, ignored, fault, reader, rx>>
  PROVE  ConnWin!WindowNext
<1>0. Types BY LedgerBounds
<1>1. PICK b \in Nat : b = Bytes(queue[s]) /\ b <= QueuedBytes BY <1>0, QueuedFacts DEF Types, SenderTypes
<1>2. queue' = [queue EXCEPT ![s] = <<>>] /\ connS' = Release(connS, b) BY <1>1 DEF Abandon
<1>3. queue'[s] = <<>> /\ \A t \in Streams : t # s => queue'[t] = queue[t] BY <1>0, <1>2 DEF Types, SenderTypes
<1>4. Bytes(queue'[s]) = 0 BY <1>3, NoBytes
<1>5. QueuedBytes' = QueuedBytes - b
  <2>1. QueuedBytes' = QueuedBytes + (Bytes(queue'[s]) - Bytes(queue[s])) BY <1>0, <1>3, QueuedChange
  <2>2. QueuedBytes \in Nat BY LedgerBounds
  <2> QED BY <1>1, <1>4, <2>1, <2>2
<1>6. b \in 0 .. Bound BY <1>1, LedgerBounds
<1>7. UNCHANGED <<connR, WireBytes, ignored, HeldBytes, Told>> BY <1>0, SameReceiver DEF WireBytes, Told
<1> QED BY <1>1, <1>2, <1>5, <1>6, <1>7, ConnGivesBack

\* A step of the sending application is a step of the window.
LEMMA WindowApp ==
  ASSUME Ledger, Types', SpentInv', NEW s \in Streams, SenderApp(s)
  PROVE  WindowStep
<1>0. Types BY LedgerBounds
<1>1. UNCHANGED <<connR, wireAB, ignored, fault, reader, rx>> BY DEF SenderApp, readerVars, creditVars, appVars
<1>2. UNCHANGED <<connR, WireBytes, ignored, HeldBytes, Told>> BY <1>0, <1>1, SameReceiver DEF WireBytes, Told
<1>3. CASE UNCHANGED <<connS, queue>> BY <1>2, <1>3, ConnRests DEF WindowStep, QueuedBytes
<1>4. CASE OpenUni(s) \/ ReserveSlot(s) \/ CancelWrite(s) BY <1>3, <1>4 DEF OpenUni, ReserveSlot, CancelWrite
<1>5. CASE CommitWrite(s)
  <2>1. PICK n \in Nat : /\ connS.used + n <= connS.max /\ connS' = Claim(connS, n)
                         /\ queue' = [queue EXCEPT ![s] = Append(@, StreamFrame(s, tx[s].offset, n, FALSE))]
    BY <1>0, <1>5, CommitCases
  <2>2. PICK fr : fr = StreamFrame(s, tx[s].offset, n, FALSE) OBVIOUS
  <2>3. tx[s].offset \in Nat /\ queue[s] \in Seq(StreamFrames) BY <1>0, TxFields DEF Types, SenderTypes
  <2>4. fr \in StreamFrames /\ fr.len = n BY <2>2, <2>3 DEF StreamFrame, StreamFrames
  <2>5. queue'[s] = Append(queue[s], fr) /\ \A t \in Streams : t # s => queue'[t] = queue[t]
    BY <1>0, <2>1, <2>2 DEF Types, SenderTypes
  <2>6. Bytes(queue'[s]) = Bytes(queue[s]) + n /\ Bytes(queue[s]) \in Nat BY <2>3, <2>4, <2>5, BytesFacts
  <2>7. QueuedBytes' = QueuedBytes + n
    <3>1. QueuedBytes' = QueuedBytes + (Bytes(queue'[s]) - Bytes(queue[s])) BY <1>0, <2>5, QueuedChange
    <3>2. QueuedBytes \in Nat BY LedgerBounds
    <3> QED BY <2>6, <3>1, <3>2
  <2>8. connS \in CreditState /\ connS.used \in Nat /\ connS.max \in Nat BY <1>0, CreditNats
  <2>9. connS.used + n <= Bound /\ Bound \in Nat
    <3>1. connS'.used = connS.used + n
      <4>1. PICK c : c = Claim(connS, n) OBVIOUS
      <4>2. c.used = connS.used + n BY <2>8, <4>1, CreditFields
      <4> QED BY <2>1, <4>1, <4>2
    <3>2. connS'.used <= Bound
      <4>1. (Types /\ SpentInv => connS.used <= Bound)' BY SpentBounded, PTL
      <4>2. Bound' = Bound BY DEF Bound
      <4> QED BY <4>1, <4>2
    <3> QED BY <3>1, <3>2, LedgerBounds
  <2>10. n \in 0 .. Bound /\ n <= Available(connS) BY <2>1, <2>8, <2>9 DEF Available
  <2> QED BY <1>2, <2>1, <2>7, <2>9, <2>10, ConnSpends DEF WindowStep
<1>6. CASE Reset(s) BY <1>1, <1>6, WindowAbandon DEF Reset, WindowStep
<1>7. CASE SeeStop(s)
  <2>1. CASE tx[s].fin BY <1>3, <1>7, <2>1 DEF SeeStop
  <2>2. CASE ~tx[s].fin BY <1>1, <1>7, <2>2, WindowAbandon DEF SeeStop, WindowStep
  <2> QED BY <2>1, <2>2
<1>8. CASE Finish(s)
  <2>1. /\ queue' = [queue EXCEPT ![s] = Append(@, StreamFrame(s, tx[s].offset, 0, TRUE))]
        /\ UNCHANGED connS BY <1>8 DEF Finish
  <2>2. PICK fr : fr = StreamFrame(s, tx[s].offset, 0, TRUE) OBVIOUS
  <2>3. tx[s].offset \in Nat /\ queue[s] \in Seq(StreamFrames) BY <1>0, TxFields DEF Types, SenderTypes
  <2>4. fr \in StreamFrames /\ fr.len = 0 BY <2>2, <2>3 DEF StreamFrame, StreamFrames
  <2>5. queue'[s] = Append(queue[s], fr) /\ \A t \in Streams : t # s => queue'[t] = queue[t]
    BY <1>0, <2>1, <2>2 DEF Types, SenderTypes
  <2>6. Bytes(queue'[s]) = Bytes(queue[s]) + 0 /\ Bytes(queue[s]) \in Nat BY <2>3, <2>4, <2>5, BytesFacts
  <2>7. QueuedBytes' = QueuedBytes
    <3>1. QueuedBytes' = QueuedBytes + (Bytes(queue'[s]) - Bytes(queue[s])) BY <1>0, <2>5, QueuedChange
    <3>2. QueuedBytes \in Nat BY LedgerBounds
    <3> QED BY <2>6, <3>1, <3>2
  <2> QED BY <1>2, <2>1, <2>7, ConnRests DEF WindowStep
<1> QED BY <1>4, <1>5, <1>6, <1>7, <1>8 DEF SenderApp

\* A step of the writer is a step of the window.
LEMMA WindowWriter ==
  ASSUME Ledger, Types', SenderWriter
  PROVE  WindowStep
<1>0. Types /\ SenderInv BY LedgerBounds DEF Ledger, Books, Core
<1>1. UNCHANGED <<connR, ignored, fault, reader, rx>> BY DEF SenderWriter, readerVars, creditVars, appVars
<1>2. UNCHANGED <<connR, ignored, HeldBytes, Told>> BY <1>0, <1>1, SameReceiver DEF Told
<1>3. ASSUME NEW f \in WireFrames, wireAB' = Append(wireAB, f) PROVE WireBytes' = WireBytes + Payload(f)
  BY <1>0, <1>3, BookNats, WireCarried, CarriedFacts
<1>4. CASE TransmitReset
  <2>1. PICK s \in Streams : wireAB' = Append(wireAB, ResetFrame(s, wired[s])) /\ UNCHANGED <<connS, queue>>
    BY <1>0, <1>4, PoppedReset
  <2>2. PICK f \in ResetFrames : f = ResetFrame(s, wired[s]) BY <1>0, FrameTypes DEF Types, SenderTypes
  <2>3. f \in WireFrames /\ Payload(f) = 0 BY PayloadFacts DEF WireFrames
  <2>4. WireBytes' = WireBytes BY <1>3, <2>1, <2>2, <2>3, LedgerBounds
  <2> QED BY <1>2, <2>1, <2>4, ConnRests DEF WindowStep, QueuedBytes
<1>5. ASSUME NEW s \in Streams, TransmitStream(s) PROVE WindowStep
  <2>1. PICK f \in StreamFrames : /\ f = Head(queue[s]) /\ f.len \in Nat /\ queue[s] # <<>>
                                  /\ wireAB' = Append(wireAB, f)
                                  /\ queue' = [queue EXCEPT ![s] = Tail(@)] /\ UNCHANGED connS
    BY <1>0, <1>5, PoppedFrame
  <2>2. f \in WireFrames /\ Payload(f) = f.len BY PayloadFacts DEF WireFrames
  <2>3. WireBytes' = WireBytes + f.len BY <1>3, <2>1, <2>2
  <2>4. queue[s] \in Seq(StreamFrames) /\ queue'[s] = Tail(queue[s]) /\ \A t \in Streams : t # s => queue'[t] = queue[t]
    BY <1>0, <2>1 DEF Types, SenderTypes
  <2>5. Bytes(queue'[s]) = Bytes(queue[s]) - f.len /\ Bytes(queue[s]) \in Nat BY <2>1, <2>4, BytesFacts
  <2>6. QueuedBytes' = QueuedBytes - f.len
    <3>1. QueuedBytes' = QueuedBytes + (Bytes(queue'[s]) - Bytes(queue[s])) BY <1>0, <2>4, QueuedChange
    <3>2. QueuedBytes \in Nat BY LedgerBounds
    <3> QED BY <2>1, <2>5, <3>1, <3>2
  <2>7. QueuedBytes' \in Nat
    <3>1. (queue \in [Streams -> Seq(StreamFrames)] => QueuedBytes \in Nat)' BY QueuedIsNat, PTL
    <3> QED BY <3>1 DEF Types, SenderTypes
  <2>8. f.len \in 0 .. Bound /\ f.len <= QueuedBytes BY <2>1, <2>6, <2>7, LedgerBounds
  <2> QED BY <1>2, <2>1, <2>3, <2>6, <2>8, ConnTransmits DEF WindowStep
<1> QED BY <1>4, <1>5 DEF SenderWriter

\* A control frame that arrives is a step of the window.
LEMMA WindowControl ==
  ASSUME Ledger, Types', SenderReader
  PROVE  WindowStep
<1>0. Types BY LedgerBounds
<1>1. UNCHANGED <<connR, ignored, wireAB, reader, rx, queue>> /\ fault = "none"
  BY DEF SenderReader, RecvControl, readerVars, creditVars, appVars, Running
<1>2. PICK g \in ControlFrames : g = Head(wireBA) /\ wireBA # <<>>
  BY <1>0, SeqTail DEF SenderReader, RecvControl, Types, WireTypes
<1>3. /\ fault' \in {fault, "regress"}
      /\ connS' = connS \/ (g.type = "max_data" /\ connS' = RecvMax(connS, g.max)) BY <1>2 DEF SenderReader, RecvControl
<1>4. UNCHANGED <<connR, QueuedBytes, WireBytes, ignored, HeldBytes, Told>>
  BY <1>0, <1>1, <1>3, SameReceiver DEF WireBytes, QueuedBytes, Told
<1>5. CASE connS' = connS BY <1>4, <1>5, ConnRests DEF WindowStep
<1>6. CASE g.type = "max_data" /\ connS' = RecvMax(connS, g.max)
  <2>1. g.max \in Nat BY <1>6, FrameFields
  <2>2. g.max <= connR.max
    <3>1. MaxOK(wireBA[1]) /\ g = wireBA[1] BY <1>0, <1>2, SeqTail DEF Ledger, Books, MaxInv, Types, WireTypes
    <3> QED BY <1>6, <3>1 DEF MaxOK
  <2>3. connR.max \in Nat BY <1>0, CreditNats
  <2>4. CASE MayIncrease(connS, g.max) BY <1>4, <1>6, <2>1, <2>2, <2>3, <2>4, ConnLearns DEF RecvMax, WindowStep
  <2>5. CASE ~MayIncrease(connS, g.max) BY <1>5, <1>6, <2>5 DEF RecvMax
  <2> QED BY <2>4, <2>5
<1> QED BY <1>3, <1>5, <1>6

\* What is thrown away, when less is held after a step.
LEMMA Difference ==
  ASSUME NEW h \in Nat, NEW k \in Nat, k <= h, NEW b \in Nat, h <= b
  PROVE  h - k \in 0 .. b /\ h - k <= h /\ k = h - (h - k) OBVIOUS

\* A step that only throws bytes away is a step of the window.
LEMMA WindowShrinks ==
  ASSUME Ledger, Types', HeldBytes' <= HeldBytes,
         UNCHANGED <<connS, connR, queue, WireBytes, ignored>>, fault # "flow", fault' # "flow"
  PROVE  WindowStep
<1>1. HeldBytes \in Nat /\ HeldBytes' \in Nat /\ Bound \in Nat /\ HeldBytes <= Bound BY LedgerBounds, HeldIsAfter
<1>2. PICK n : n = HeldBytes - HeldBytes' OBVIOUS
<1>3. n \in 0 .. Bound /\ n <= HeldBytes /\ HeldBytes' = HeldBytes - n BY <1>1, <1>2, Difference, Zenon
<1>4. UNCHANGED <<connS, connR, QueuedBytes, WireBytes, ignored, Told>> BY DEF QueuedBytes, Told
<1> QED BY <1>3, <1>4, ConnDiscards DEF WindowStep

\* What the reader's hand holds, by where the reader stands.
LEMMA HandsEmpty ==
  /\ reader.pc \notin StreamPcs => InHands = 0
  /\ reader.pc \in StreamPcs => InHands = reader.frame.len BY DEF InHands, InReader, StreamPcs

\* The same after a step.
LEMMA HandsEmptyAfter ==
  /\ reader'.pc \notin StreamPcs => InHands' = 0
  /\ reader'.pc \in StreamPcs => InHands' = reader'.frame.len BY DEF InHands, InReader, StreamPcs

\* Queueing the frame in the reader's hand, or a part of it, adds nothing to
\* what is held.
LEMMA HeldDelivers ==
  ASSUME Types, Types', reader.pc \in StreamPcs, reader'.pc \notin StreamPcs, NEW f \in Fronts, NEW fr \in StreamFrames,
         fr.len <= reader.frame.len, rx' = IF fr.len = 0 /\ ~fr.fin THEN rx ELSE Deliver(f, fr)
  PROVE  HeldBytes' <= HeldBytes
<1>1. /\ \A g \in Fronts : g # f => rx'[g] = rx[g]
      /\ (Buffered(f))' <= Buffered(f) + fr.len BY HandsBytes
<1>2. \A g \in Fronts : g # f => (Buffered(g))' = Buffered(g) BY <1>1, BufferedSame
<1>3. HeldBytes' = HeldBytes + ((Buffered(f))' - Buffered(f)) + (InHands' - InHands) BY <1>2, HeldChange
<1>4. InHands = reader.frame.len /\ InHands' = 0 /\ InHands \in Nat /\ Buffered(f) \in Nat /\ HeldBytes \in Nat
  BY HandsEmpty, HandsEmptyAfter, HeldIs
<1>5. (Buffered(f))' \in Nat /\ fr.len \in Nat BY HeldIsAfter, FrameFields
<1>6. PICK b \in Nat, c \in Nat, h \in Nat, i \in Nat, l \in Nat :
        b = Buffered(f) /\ c = (Buffered(f))' /\ h = HeldBytes /\ i = InHands /\ l = fr.len BY <1>4, <1>5
<1>7. HeldBytes' = h + (c - b) + (0 - i) /\ c <= b + l /\ l <= i BY <1>1, <1>3, <1>4, <1>6
<1> QED BY <1>6, <1>7

\* Throwing away the frame in the reader's hand adds nothing to what is held.
LEMMA HeldLeaves ==
  ASSUME Types, Types', rx' = rx, reader'.pc \notin StreamPcs
  PROVE  HeldBytes' <= HeldBytes
<1>1. BufferedBytes' = BufferedBytes BY DEF BufferedBytes, Buffered
<1>2. InHands' = 0 BY HandsEmptyAfter
<1>3. /\ HeldBytes = InHands + BufferedBytes /\ InHands \in Nat /\ BufferedBytes \in Nat
      /\ HeldBytes' = InHands' + BufferedBytes' BY HeldIs, HeldIsAfter
<1> QED BY <1>1, <1>2, <1>3

\* Taking a STREAM frame off the wire is a step of the window.
LEMMA WindowTakes ==
  ASSUME Ledger, Types', Running, RecvStream, UNCHANGED <<connS, queue>>
  PROVE  WindowStep
<1> USE DEF Ledger, Books, Core
<1>0. fault' = fault /\ fault = "none" BY TakenInBalance DEF Running
<1>1. PICK fr \in StreamFrames : /\ fr = Head(wireAB) /\ wireAB # <<>> /\ wireAB' = Tail(wireAB) /\ fr.len \in Nat
                                 /\ reader.pc = "idle"
                                 /\ TakeLate(fr) \/ TakeFail(fr) \/ Take(fr) BY RecvStreamCases
<1>2. Payload(fr) = fr.len BY PayloadFacts DEF WireFrames
<1>3. PICK n \in Nat : n = fr.len BY <1>1
<1>4. WireBytes' = WireBytes - n /\ n <= WireBytes BY <1>1, <1>2, <1>3, WireTakes
<1>5. n \in 0 .. Bound BY <1>3, <1>4, LedgerBounds
<1>6. UNCHANGED <<connS, QueuedBytes, Told>> BY <1>0 DEF QueuedBytes, Told
<1>7. CASE TakeLate(fr)
  <2>1. ignored' = ignored + n /\ UNCHANGED <<connR, reader, rx>> BY <1>3, <1>7 DEF TakeLate
  <2>2. HeldBytes' = HeldBytes BY <2>1, SameReceiver
  <2> QED BY <1>4, <1>5, <1>6, <2>1, <2>2, ConnIgnores DEF WindowStep
<1>8. CASE Take(fr)
  <2>1. /\ MayReceive(connR, n) /\ connR' = Receive(connR, n) /\ UNCHANGED <<ignored, rx>>
        /\ reader' = [Idle EXCEPT !.pc = "stream", !.frame = fr] BY <1>3, <1>8 DEF Take
  <2>2. reader'.pc = "stream" /\ reader'.frame = fr BY <2>1 DEF Idle
  <2>3. InHands = 0 /\ InHands' = n BY <1>1, <1>3, <2>2, HandsEmpty, HandsEmptyAfter DEF StreamPcs
  <2>4. BufferedBytes' = BufferedBytes BY <2>1 DEF BufferedBytes, Buffered
  <2>5. /\ HeldBytes = InHands + BufferedBytes /\ BufferedBytes \in Nat /\ HeldBytes' = InHands' + BufferedBytes'
    BY HeldIs, HeldIsAfter
  <2>6. HeldBytes' = HeldBytes + n BY <2>3, <2>4, <2>5
  <2> QED BY <1>4, <1>5, <1>6, <2>1, <2>6, ConnArrives DEF WindowStep
<1>9. ~TakeFail(fr) BY <1>0 DEF TakeFail, Fail
<1> QED BY <1>1, <1>7, <1>8, <1>9

\* Routing a STREAM frame is a step of the window.
LEMMA WindowRoutes ==
  ASSUME Ledger, Types', Running, NoResurrection, RouteStream, UNCHANGED <<connS, queue>>
  PROVE  WindowStep
<1> USE DEF Ledger, Books, Core
<1>0. fault' = fault /\ fault = "none" /\ UNCHANGED <<connR, ignored, wireAB>> BY RoutedInBalance DEF Running
<1>1. PICK fr \in StreamFrames, s \in Streams :
        /\ fr = reader.frame /\ s = reader.frame.id /\ reader.pc = "stream" /\ fr.len \in Nat
        /\ recvMap[s] # 0 => <<s, recvMap[s]>> \in Fronts
        /\ \/ RouteLive(s, <<s, recvMap[s]>>, fr) \/ RouteOwn(s) \/ RouteFail(s, <<s, recvMap[s]>>, fr)
           \/ RouteNew(s, fr) BY RouteCases
<1>2. CASE RouteLive(s, <<s, recvMap[s]>>, fr)
  <2>1. PICK f \in Fronts : f = <<s, recvMap[s]>> BY <1>1, <1>2 DEF RouteLive
  <2>2. rx' = (IF fr.len = 0 /\ ~fr.fin THEN rx ELSE Deliver(f, fr)) /\ reader' = Idle BY <1>2, <2>1 DEF RouteLive
  <2>3. reader'.pc \notin StreamPcs /\ reader.pc \in StreamPcs /\ fr.len <= reader.frame.len
    BY <1>1, <2>2 DEF Idle, StreamPcs
  <2> QED BY <1>0, <2>2, <2>3, HeldDelivers, WindowShrinks DEF WireBytes
<1>3. CASE RouteOwn(s)
  <2>1. rx' = rx /\ reader'.pc \notin StreamPcs BY <1>3 DEF RouteOwn, Idle, StreamPcs
  <2> QED BY <1>0, <2>1, HeldLeaves, WindowShrinks DEF WireBytes
<1>4. ~RouteFail(s, <<s, recvMap[s]>>, fr) BY <1>0 DEF RouteFail, Fail
<1>5. CASE RouteNew(s, fr)
  <2>1. rx' = rx /\ reader' = [reader EXCEPT !.pc = "accept"] BY <1>5 DEF RouteNew
  <2>2. reader'.pc = "accept" /\ reader'.frame = reader.frame BY <2>1, ReaderAt DEF Types, StreamPcs
  <2>3. InHands' = InHands BY <1>1, <2>2, HandsEmpty, HandsEmptyAfter DEF StreamPcs
  <2>4. HeldBytes' = HeldBytes BY <2>1, <2>3, HeldStays
  <2> QED BY <1>0, <2>4, WindowShrinks, LedgerBounds DEF WireBytes
<1> QED BY <1>1, <1>2, <1>3, <1>4, <1>5

\* Accounting for a reset is a step of the window.
LEMMA WindowAccounts ==
  ASSUME Ledger, Types', Running, NoResurrection, AccountReset, UNCHANGED <<connS, queue>>
  PROVE  WindowStep
<1> USE DEF Ledger, Books, Core
<1>0. fault' \notin {"flow", "limit"} /\ UNCHANGED <<ignored, wireAB>> /\ fault = "none" BY AccountInBalance DEF Running
<1>1. PICK s \in Streams, n \in Nat :
        /\ s = reader.frame.id /\ n = reader.frame.final /\ wireAB' = wireAB /\ reader.pc = "reset"
        /\ \/ reader.live /\ recvMap[s] = 0 /\ Fail("panic")
           \/ AccountFlow(s, n) \/ Account(s, n) BY AccountCases
<1>2. CASE Fail("panic")
  <2>1. reader'.pc \notin StreamPcs /\ rx' = rx /\ connR' = connR BY <1>2, ReaderShapes DEF Fail, creditVars, StreamPcs
  <2>2. HeldBytes' <= HeldBytes BY <2>1, HeldLeaves
  <2> QED BY <1>0, <2>1, <2>2, WindowShrinks DEF WireBytes
<1>3. ~AccountFlow(s, n) BY <1>0 DEF AccountFlow, Fail
<1>4. CASE Account(s, n)
  <2>1. Gap(s, n) = 0 BY <1>1, <1>4, AccountNothing DEF Account
  <2>2. /\ connR' = Consume(Receive(connR, 0), 0) /\ UNCHANGED <<fault, rx>>
        /\ \E pc \in {"grant", "retire"} : reader' = [reader EXCEPT !.max = connR'.max, !.pc = pc]
    BY <1>4, <2>1 DEF Account
  <2>3. connR \in CreditState /\ connR.used \in Nat BY CreditNats
  <2>4. Receive(connR, 0) = connR BY <2>3 DEF Receive, CreditState
  <2>5. reader'.pc \in {"grant", "retire"}
    <3>1. connR'.max \in Nat BY PrimedNats
    <3> QED BY <2>2, <3>1, ReaderAt DEF Types, ResetPcs
  <2>6. InHands = 0 /\ InHands' = 0 BY <1>1, <2>5, HandsEmpty, HandsEmptyAfter DEF StreamPcs
  <2>7. HeldBytes' = HeldBytes BY <2>2, <2>6, HeldStays
  <2>8. HeldBytes \in Nat /\ Bound \in Nat BY LedgerBounds
  <2>9. 0 \in 0 .. Bound /\ 0 <= HeldBytes /\ HeldBytes' = HeldBytes - 0 BY <2>7, <2>8
  <2>10. UNCHANGED <<connS, QueuedBytes, WireBytes, ignored, Told>> BY <1>0, <2>2 DEF QueuedBytes, WireBytes, Told
  <2> QED BY <2>2, <2>4, <2>9, <2>10, ConnReads DEF WindowStep
<1> QED BY <1>1, <1>2, <1>3, <1>4

\* Offering a stream is a step of the window.
LEMMA WindowOffers ==
  ASSUME Ledger, Types', Running, OfferStream, UNCHANGED <<connS, queue>>
  PROVE  WindowStep
<1> USE DEF Ledger, Books, Core
<1>1. /\ UNCHANGED <<fault, ignored, connR, wireAB>> /\ fault = "none" /\ reader.pc = "accept"
      /\ reader' = [reader EXCEPT !.pc = "insert"] BY DEF OfferStream, creditVars, Running
<1>2. PICK f \in Fronts : rx' = [rx EXCEPT ![f].st = "queued"]
  <2>1. reader.frame.id \in Streams /\ fronts[reader.frame.id] \in 1 .. MaxFronts
    <3>1. reader.frame.id \in Streams /\ fronts[reader.frame.id] > 0
      BY <1>1, ReaderFields DEF Types, ReaderTypes, StreamPcs
    <3>2. fronts[reader.frame.id] \in 0 .. MaxFronts BY <3>1 DEF Types, ReaderTypes
    <3> QED BY <3>1, <3>2, FrontBound
  <2> QED BY <2>1, FrontOf DEF OfferStream
<1>3. \A g \in Fronts : rx'[g].buf = rx[g].buf /\ rx'[g].data = rx[g].data BY <1>2, RxMoves DEF Types
<1>4. reader'.pc = "insert" /\ reader'.frame = reader.frame BY <1>1, ReaderAt DEF Types, StreamPcs
<1>5. InHands' = InHands BY <1>1, <1>4, HandsEmpty, HandsEmptyAfter DEF StreamPcs
<1>6. HeldBytes' = HeldBytes BY <1>3, <1>5, HeldStays
<1> QED BY <1>1, <1>6, WindowShrinks, LedgerBounds DEF WireBytes

\* Entering a stream in the map is a step of the window.
LEMMA WindowInserts ==
  ASSUME Ledger, Types', Running, InsertStream, UNCHANGED <<connS, queue>>
  PROVE  WindowStep
<1> USE DEF Ledger, Books, Core
<1>1. PICK f \in Fronts, fr \in StreamFrames :
        /\ fr = reader.frame /\ reader.pc = "insert" /\ reader' = Idle /\ fr.len \in Nat
        /\ rx' = IF fr.len = 0 /\ ~fr.fin THEN rx ELSE Deliver(f, fr)
        /\ UNCHANGED <<fault, ignored, connR, wireAB>> BY InsertCases
<1>2. reader.pc \in StreamPcs /\ reader'.pc \notin StreamPcs BY <1>1 DEF Idle, StreamPcs
<1>4. fr.len <= reader.frame.len BY <1>1
<1>3. HeldBytes' <= HeldBytes BY <1>1, <1>2, <1>4, HeldDelivers
<1> QED BY <1>1, <1>3, WindowShrinks DEF WireBytes, Running

\* Taking a reset off the wire is a step of the window.
LEMMA WindowResets ==
  ASSUME Ledger, Types', Running, RecvReset, UNCHANGED <<connS, queue>>
  PROVE  WindowStep
<1> USE DEF Ledger, Books, Core
<1>1. fault' = fault /\ UNCHANGED <<connR, ignored>> /\ WireBytes' = WireBytes BY ResetInBalance
<1>2. PICK fr \in ResetFrames : /\ fr = Head(wireAB) /\ reader.pc = "idle"
                                /\ \/ ResetLate(fr.id) \/ ResetFail(fr.id)
                                   \/ \E live \in BOOLEAN : ResetTake(fr, live) BY RecvResetCases
<1>3. rx' = rx /\ reader'.pc \notin StreamPcs
  <2>1. CASE ResetLate(fr.id) BY <1>2, <2>1 DEF ResetLate, StreamPcs
  <2>2. CASE ResetFail(fr.id) BY <2>2, ReaderShapes DEF ResetFail, Fail, StreamPcs
  <2>3. ASSUME NEW live \in BOOLEAN, ResetTake(fr, live) PROVE rx' = rx /\ reader'.pc \notin StreamPcs
    BY <2>3, ReaderShapes DEF ResetTake, StreamPcs
  <2> QED BY <1>2, <2>1, <2>2, <2>3
<1>4. HeldBytes' <= HeldBytes BY <1>3, HeldLeaves
<1> QED BY <1>1, <1>4, WindowShrinks DEF Running

\* Queueing a limit is a step of the window.
LEMMA WindowGrants ==
  ASSUME Ledger, Types', Running, ReaderGrant, UNCHANGED <<connS, queue>>
  PROVE  WindowStep
<1> USE DEF Ledger, Books, Core
<1>1. /\ UNCHANGED <<fault, ignored, connR, wireAB, rx>> /\ reader.pc \in {"grant", "limit"}
      /\ reader'.pc \in {"retire", "idle"} BY GrantCases
<1>2. HeldBytes' <= HeldBytes BY <1>1, HeldLeaves DEF StreamPcs
<1> QED BY <1>1, <1>2, WindowShrinks DEF WireBytes, Running

\* Retiring a stream is a step of the window.
LEMMA WindowRetires ==
  ASSUME Ledger, Types', Running, RetireReset, UNCHANGED <<connS, queue>>
  PROVE  WindowStep
<1> USE DEF Ledger, Books, Core
<1>1. PICK s \in Streams : /\ s = reader.frame.id /\ reader.pc = "retire"
                           /\ recvMap[s] # 0 => <<s, recvMap[s]>> \in Fronts
                           /\ UNCHANGED <<fault, ignored, connR, wireAB>>
                           /\ RetireLive(s) \/ RetireOwn(s) \/ RetireUnseen(s) BY RetireCases
<1>2. reader'.pc \in {"idle", "limit"}
  <2>1. CASE RetireLive(s) \/ RetireOwn(s) BY <2>1, ReaderShapes DEF RetireLive, RetireOwn
  <2>2. CASE RetireUnseen(s)
    <3>1. limR'.max \in Nat BY PrimedNats
    <3>2. "limit" \in ResetPcs /\ ReaderTypes BY DEF ResetPcs, Types
    <3>3. reader' = Idle \/ reader' = [reader EXCEPT !.pc = "limit", !.max = limR'.max] BY <2>2 DEF RetireUnseen
    <3>4. CASE reader' = Idle BY <3>4 DEF Idle
    <3>5. CASE reader' = [reader EXCEPT !.pc = "limit", !.max = limR'.max]
      <4>1. PICK m \in Nat : m = limR'.max BY <3>1
      <4>2. [reader EXCEPT !.pc = "limit", !.max = m].pc = "limit" BY <3>2, ReaderAt
      <4> QED BY <3>5, <4>1, <4>2
    <3> QED BY <3>3, <3>4, <3>5
  <2> QED BY <1>1, <2>1, <2>2
<1>3. \A g \in Fronts : rx'[g].buf = rx[g].buf /\ rx'[g].data = rx[g].data
  <2>1. CASE RetireLive(s)
    <3>1. PICK f \in Fronts : f = <<s, recvMap[s]>> BY <1>1, <2>1 DEF RetireLive
    <3>2. rx' = rx \/ rx' = [rx EXCEPT ![f].reset = TRUE] BY <2>1, <3>1 DEF RetireLive
    <3> QED BY <3>2, RxResets DEF Types
  <2>2. CASE RetireOwn(s) \/ RetireUnseen(s) BY <2>2 DEF RetireOwn, RetireUnseen
  <2> QED BY <1>1, <2>1, <2>2
<1>4. InHands' = InHands BY <1>1, <1>2, HandsEmpty, HandsEmptyAfter DEF StreamPcs
<1>5. HeldBytes' = HeldBytes BY <1>3, <1>4, HeldStays
<1> QED BY <1>1, <1>5, WindowShrinks, LedgerBounds DEF WireBytes, Running

\* A step of the reader is a step of the window.
LEMMA WindowReader ==
  ASSUME Ledger, Types', NoResurrection, ReceiverReader
  PROVE  WindowStep
<1>1. UNCHANGED <<connS, queue>> /\ Running BY DEF ReceiverReader, senderVars
<1> QED BY <1>1, WindowTakes, WindowRoutes, WindowOffers, WindowInserts, WindowResets, WindowAccounts,
           WindowGrants, WindowRetires DEF ReceiverReader

\* A read is a step of the window.
LEMMA WindowReads ==
  ASSUME Ledger, Types', NEW f \in Fronts, NEW max \in 1 .. Chunk, Read(f, max), ReceiverApp(f)
  PROVE  WindowStep
<1> USE DEF Ledger, Books, Core
<1>1. UNCHANGED <<connS, queue, wireAB, ignored, fault, reader>> BY ReceiverAppFrame DEF AppFrame, senderVars
<1>2. \A g \in Fronts : g # f => rx'[g] = rx[g] BY AppSteps DEF AppStep, MapInv
<1>3. PICK n \in Nat : n = Taken(f, max) /\ (n > 0 => connR' = Consume(connR, n)) /\ (n = 0 => connR' = connR)
  <2>1. Taken(f, max) \in Nat BY ReadCases
  <2> QED BY <2>1 DEF Read, ReportConsumed, Taken, Source
<1>4. (Buffered(f))' = Buffered(f) - n BY <1>3, ReadTakes
<1>5. \A g \in Fronts : g # f => (Buffered(g))' = Buffered(g) BY <1>2, BufferedSame
<1>6. InHands' = InHands BY <1>1, HandsSame
<1>7. HeldBytes' = HeldBytes + ((Buffered(f))' - Buffered(f)) + (InHands' - InHands) BY <1>5, HeldChange
<1>8. PICK b \in Nat, h \in Nat, i \in Nat : b = Buffered(f) /\ h = HeldBytes /\ i = InHands /\ b <= h BY HeldIs
<1>9. (Buffered(f))' \in Nat BY HeldIsAfter
<1>10. n <= b /\ HeldBytes' = h + ((b - n) - b) + (i - i) BY <1>4, <1>6, <1>7, <1>8, <1>9
<1>11. n <= h /\ HeldBytes' = h - n BY <1>8, <1>10
<1>12. UNCHANGED <<connS, QueuedBytes, WireBytes, ignored, Told>> BY <1>1 DEF QueuedBytes, WireBytes, Told
<1>13. CASE n > 0
  <2>1. n \in 0 .. Bound BY <1>8, <1>11, LedgerBounds
  <2>2. n <= HeldBytes /\ HeldBytes' = HeldBytes - n BY <1>8, <1>11
  <2> QED BY <1>3, <1>12, <1>13, <2>1, <2>2, ConnReads DEF WindowStep
<1>14. CASE n = 0
  <2>1. HeldBytes' = HeldBytes BY <1>8, <1>11, <1>14
  <2> QED BY <1>3, <1>12, <1>14, <2>1, ConnRests DEF WindowStep
<1> QED BY <1>13, <1>14

\* A step of the receiving application is a step of the window.
LEMMA WindowReceiver ==
  ASSUME Ledger, Types', NEW f \in Fronts, ReceiverApp(f)
  PROVE  WindowStep
<1> USE DEF Ledger, Books, Core
<1>1. ASSUME NEW n \in 1 .. Chunk, Read(f, n) PROVE WindowStep BY <1>1, WindowReads
<1>2. CASE ReadReset(f) \/ AwaitClosed(f) \/ Stop(f) \/ DropRecv(f) \/ SendPending(f)
  <2>1. UNCHANGED <<connS, queue, wireAB, ignored, fault, reader>> /\ fault = "none"
    BY ReceiverAppFrame DEF AppFrame, senderVars, ReceiverApp, Running
  <2>2. (Buffered(f))' <= Buffered(f) /\ connR' = connR BY <1>2, AppTakes
  <2>3. \A g \in Fronts : g # f => (Buffered(g))' = Buffered(g) BY AppSteps, BufferedSame DEF AppStep, MapInv
  <2>4. InHands' = InHands BY <2>1, HandsSame
  <2>5. HeldBytes' = HeldBytes + ((Buffered(f))' - Buffered(f)) + (InHands' - InHands) BY <2>3, HeldChange
  <2>6. PICK b \in Nat, h \in Nat, i \in Nat : b = Buffered(f) /\ h = HeldBytes /\ i = InHands BY HeldIs
  <2>7. PICK c \in Nat : c = (Buffered(f))' BY HeldIsAfter
  <2>8. HeldBytes' = h + (c - b) + (i - i) /\ c <= b BY <2>2, <2>4, <2>5, <2>6, <2>7
  <2>9. HeldBytes' <= HeldBytes BY <2>6, <2>8
  <2> QED BY <2>1, <2>2, <2>9, WindowShrinks DEF WireBytes
<1> QED BY <1>1, <1>2 DEF ReceiverApp

\* Accepting a stream, sending a control frame and stuttering are stutters of
\* the window.
LEMMA WindowQuiet ==
  ASSUME Ledger, Types', Accept \/ ReceiverWriter \/ UNCHANGED vars
  PROVE  WindowStep
<1> USE DEF Ledger, Books, Core
<1>1. UNCHANGED <<connS, queue, wireAB, ignored, connR, fault, reader>>
  BY DEF Accept, AcceptUni, ReceiverWriter, TransmitControl, vars, senderVars, readerVars, creditVars
<1>2. \A g \in Fronts : rx'[g].buf = rx[g].buf /\ rx'[g].data = rx[g].data
  <2>1. CASE Accept
    <3>1. PICK f \in Fronts : rx' = [rx EXCEPT ![f].st = "held"]
      BY <2>1, SeqTail DEF Accept, AcceptUni, Types, ReaderTypes
    <3> QED BY <3>1, RxMoves DEF Types
  <2>2. CASE ReceiverWriter \/ UNCHANGED vars BY <2>2 DEF ReceiverWriter, TransmitControl, vars, appVars
  <2> QED BY <2>1, <2>2
<1>3. HeldBytes' = HeldBytes BY <1>1, <1>2, HeldStays, HandsSame
<1>4. UNCHANGED <<connS, connR, QueuedBytes, WireBytes, ignored, HeldBytes, Told>>
  BY <1>1, <1>3 DEF QueuedBytes, WireBytes, Told
<1> QED BY <1>4, ConnRests DEF WindowStep

\* Every step of a session in which no stream came to life twice is a step of
\* the window.
LEMMA WindowSteps ==
  ASSUME Ledger, Types', SpentInv', NoResurrection, [Next]_vars
  PROVE  WindowStep BY WindowApp, WindowWriter, WindowControl, WindowReader, WindowReceiver, WindowQuiet DEF Next

\* What is held is within what was received, while no stream came to life
\* twice.
HeldFit == NoResurrection => HeldBytes <= connR.used

\* How a step of the window moves what is held and the receiver's credit.
WindowMove(n) ==
  \/ connR' = connR /\ HeldBytes' \in {HeldBytes, HeldBytes - n}
  \/ connR' = Receive(connR, n) /\ HeldBytes' \in {HeldBytes, HeldBytes + n}
  \/ connR' = Consume(connR, n) /\ HeldBytes' = HeldBytes - n

\* Every step of the window moves them in one of these ways.
LEMMA WindowMoves ==
  ASSUME Types, SpentInv, WindowStep
  PROVE  \E n \in Nat : WindowMove(n)
<1>0. SUFFICES \E n \in Nat : \/ connR' = connR /\ HeldBytes' \in {HeldBytes, HeldBytes - n}
                              \/ connR' = Receive(connR, n) /\ HeldBytes' \in {HeldBytes, HeldBytes + n}
                              \/ connR' = Consume(connR, n) /\ HeldBytes' = HeldBytes - n BY DEF WindowMove
<1>1. CASE UNCHANGED ConnWin!windowVars BY <1>1, 0 \in Nat DEF ConnWin!windowVars, HeldBytes
<1>2. CASE ConnWin!WindowNext
  <2>1. PICK n \in 0 .. MaxBytes * (NumUni + NumOwn), m \in 0 .. connR.max :
          \/ ConnWin!Spend(n) \/ ConnWin!GiveBack(n) \/ ConnWin!Transmit(n) \/ ConnWin!Ignore(n)
          \/ ConnWin!Arrive(n, n) \/ ConnWin!Arrive(n, 0)
          \/ ConnWin!ReadBytes(n) \/ ConnWin!Discard(n) \/ ConnWin!Learn(m)
    <3>1. 0 \in 0 .. MaxBytes * (NumUni + NumOwn) /\ 0 \in 0 .. connR.max
      <4>1. connR.max \in Nat /\ Bound \in Nat BY CreditNats, SpentBound
      <4> QED BY <4>1 DEF Bound
    <3> QED BY <1>2, <3>1 DEF ConnWin!WindowNext
  <2>2. n \in Nat BY <2>1
  <2>3. CASE ConnWin!Spend(n) BY <2>2, <2>3 DEF ConnWin!Spend, HeldBytes
  <2>4. CASE ConnWin!GiveBack(n) BY <2>2, <2>4 DEF ConnWin!GiveBack, HeldBytes
  <2>5. CASE ConnWin!Transmit(n) \/ ConnWin!Ignore(n) BY <2>2, <2>5 DEF ConnWin!Transmit, ConnWin!Ignore, HeldBytes
  <2>6. ASSUME NEW k, ConnWin!Arrive(n, k)
        PROVE  UNCHANGED <<connR, HeldBytes>> \/ (connR' = Receive(connR, n) /\ HeldBytes' = HeldBytes + k)
    BY <2>6 DEF ConnWin!Arrive, ConnWin!Receive, Receive, ConnWin!MayReceive, HeldBytes
  <2>7. CASE ConnWin!Arrive(n, n) BY <2>2, <2>6, <2>7
  <2>8. CASE ConnWin!Arrive(n, 0)
    <3>1. HeldBytes + 0 = HeldBytes BY HeldIs
    <3> QED BY <2>2, <2>6, <2>8, <3>1
  <2>9. CASE ConnWin!ReadBytes(n)
    BY <2>2, <2>9 DEF ConnWin!ReadBytes, ConnWin!Consume, Consume, ConnWin!Grants, Grants, HeldBytes
  <2>10. CASE ConnWin!Discard(n) BY <2>2, <2>10 DEF ConnWin!Discard, HeldBytes
  <2>11. CASE ConnWin!Learn(m) BY <2>2, <2>11 DEF ConnWin!Learn, HeldBytes
  <2> QED BY <2>1, <2>3, <2>4, <2>5, <2>7, <2>8, <2>9, <2>10, <2>11
<1> QED BY <1>1, <1>2 DEF WindowStep

\* A step of the window keeps what is held within what was received.
LEMMA HeldFitsAfter ==
  ASSUME Ledger, Types', WindowStep
  PROVE  HeldBytes' <= connR'.used
<1>1. PICK h \in Nat, k \in Nat, u \in Nat : h = HeldBytes /\ k = HeldBytes' /\ u = connR.used
  BY LedgerBounds, HeldIsAfter, BookNats
<1>2. h <= u BY <1>1 DEF Ledger
<1>3. connR \in CreditState BY LedgerBounds, CreditNats
<1>4. Types /\ SpentInv BY LedgerBounds DEF Ledger
<1>5. PICK n \in Nat : WindowMove(n) BY <1>4, WindowMoves
<1>6. CASE connR' = connR /\ HeldBytes' \in {HeldBytes, HeldBytes - n}
  <2>1. k \in {h, h - n} /\ connR'.used = u BY <1>1, <1>6
  <2> QED BY <1>1, <1>2, <2>1
<1>7. CASE connR' = Receive(connR, n) /\ HeldBytes' \in {HeldBytes, HeldBytes + n}
  <2>1. k \in {h, h + n} BY <1>1, <1>7
  <2>2. connR'.used = u + n BY <1>1, <1>3, <1>7, ReceiveFields
  <2> QED BY <1>1, <1>2, <2>1, <2>2
<1>8. CASE connR' = Consume(connR, n) /\ HeldBytes' = HeldBytes - n
  <2>1. k = h - n BY <1>1, <1>8
  <2>2. connR'.used = u BY <1>1, <1>3, <1>8, ConsumeFields
  <2> QED BY <1>1, <1>2, <2>1, <2>2
<1> QED BY <1>5, <1>6, <1>7, <1>8 DEF WindowMove

\* Every step keeps HeldFit and is a step of the window.
LEMMA NextHeldFit ==
  ASSUME Books, Accounts, SpentInv, HeldFit, Types', SpentInv', NoResurrection', [Next]_vars
  PROVE  WindowStep /\ HeldBytes' <= connR'.used
<1>0. Types /\ Grows BY NextGrows DEF Books, Core
<1>1. NoResurrection BY <1>0, StreamFacts DEF Grows, NoResurrection
<1>2. Ledger BY <1>1 DEF Ledger, HeldFit, Accounts, ConnAccounting, Balance
<1>3. WindowStep BY <1>1, <1>2, WindowSteps
<1> QED BY <1>2, <1>3, HeldFitsAfter

\* A session starts with nothing on its way.
LEMMA InitEmpty ==
  ASSUME Init
  PROVE  QueuedBytes = 0 /\ WireBytes = 0 /\ HeldBytes = 0 /\ Told = "ok"
<1>1. /\ fault = "none" /\ reader.pc = "idle"
      /\ \A f \in Fronts : rx[f].data = <<>> /\ rx[f].buf.len = 0 BY DEF Init, Idle
<1>2. HeldBytes = 0
  <2>1. InHands = 0 BY <1>1, HandsEmpty DEF StreamPcs
  <2>2. BufferedBytes = 0
    <3>. DEFINE b == [f \in Fronts |-> Buffered(f)]
    <3>1. \A f \in Fronts : b[f] = 0 BY <1>1, NoBytes DEF Buffered
    <3>2. SumFunctionOnSet(b, Fronts) = 0 BY <3>1, FewFronts, TotalZero
    <3> QED BY <3>2 DEF BufferedBytes
  <2>3. HeldBytes = InHands + BufferedBytes BY InitTypes, HeldIs
  <2> QED BY <2>1, <2>2, <2>3
<1> QED BY <1>1, <1>2, NothingSent DEF Told

\* A session starts where the window starts.
LEMMA InitWindow == Init => ConnWin!WindowInit /\ HeldFit
<1> SUFFICES ASSUME Init PROVE ConnWin!WindowInit /\ HeldFit OBVIOUS
<1>1. connS = NewCredit(ConnWindow) /\ connR = NewCredit(ConnWindow) /\ ignored = 0 BY DEF Init
<1>2. ConnWin!WindowInit BY <1>1, InitEmpty DEF ConnWin!WindowInit, ConnWin!NewCredit, NewCredit, HeldBytes, Told
<1>3. HeldFit BY <1>1, InitEmpty DEF HeldFit, NewCredit
<1> QED BY <1>2, <1>3

\* What the refinement needs holds of every session.
LEMMA LedgerHolds == Spec => [](Books /\ Accounts /\ SpentInv /\ HeldFit)
<1>1. Books /\ SpentInv /\ [Next]_vars => SpentInv'
  <2> SUFFICES ASSUME Books, SpentInv, [Next]_vars PROVE SpentInv' OBVIOUS
  <2>1. Types /\ StreamAccounting /\ Types' BY NextTypes DEF Books, Core
  <2> QED BY <2>1, NextSpent
<1>2. Books /\ Accounts /\ SpentInv /\ HeldFit /\ Books' /\ SpentInv' /\ [Next]_vars => HeldFit'
  BY NextHeldFit DEF HeldFit, Books, Core
<1>3. Init => SpentInv /\ HeldFit BY InitSpent, InitWindow
<1> QED BY <1>1, <1>2, <1>3, AccountsAgree, BooksHold, PTL DEF Spec

\* The connection's flow control of qmux, spread over the write path, the
\* writer, recv_frame, RecvStream::read and the control frames, implements the
\* window of CreditWindow under the mapping of ConnWin, for as long as no
\* stream comes to life a second time (which takes a RecvStream::stop: see
\* streams_stop_race).
THEOREM ConnectionIsWindow == Spec /\ []NoResurrection => ConnImplementsWindow
<1>1. Books /\ Accounts /\ SpentInv /\ HeldFit /\ (Books /\ SpentInv /\ NoResurrection)' /\ [Next]_vars
        => [ConnWin!WindowNext]_(ConnWin!windowVars) BY NextHeldFit DEF WindowStep, Books, Core
<1>2. Init => ConnWin!WindowInit BY InitWindow
<1> QED BY <1>1, <1>2, LedgerHolds, PTL DEF Spec, ConnImplementsWindow, ConnWin!WindowSpec

\* With applications that never stop a stream the connection's flow control
\* implements the window without any condition on the behaviour.
THEOREM UnstoppedIsWindow == ASSUME "stop" \notin Calls PROVE Spec => ConnImplementsWindow
<1>1. Core /\ UnstoppedInv => NoResurrection BY NotStopped DEF UnstoppedInv, Unstopped, NoResurrection
<1> QED BY <1>1, CoreHolds, UnstoppedHolds, ConnectionIsWindow, PTL

----------------------------------------------------------------------------
(* Memory                                                                 *)

\* The bytes held leave room: the window and the credit given back since are
\* what the bytes received have earned.
EarnedFit == NoResurrection => connR.max + connR.released + HeldBytes <= ConnWindow + connR.used

\* A step of the window keeps it.
LEMMA EarnedAfter ==
  ASSUME Ledger, Types', WindowStep, connR.max + connR.released + HeldBytes <= ConnWindow + connR.used
  PROVE  connR'.max + connR'.released + HeldBytes' <= ConnWindow + connR'.used
<1>1. PICK h \in Nat, k \in Nat, u \in Nat, m \in Nat, r \in Nat :
        /\ h = HeldBytes /\ k = HeldBytes' /\ u = connR.used /\ m = connR.max /\ r = connR.released
  <2>1. connR \in CreditState BY LedgerBounds, CreditNats
  <2>2. connR.used \in Nat /\ connR.max \in Nat /\ connR.released \in Nat BY <2>1 DEF CreditState
  <2> QED BY <2>2, LedgerBounds, HeldIsAfter
<1>2. m + r + h <= ConnWindow + u /\ ConnWindow \in Nat BY <1>1, SizesAreNatural
<1>3. connR \in CreditState BY LedgerBounds, CreditNats
<1>4. Types /\ SpentInv BY LedgerBounds DEF Ledger
<1>5. PICK n \in Nat : WindowMove(n) BY <1>4, WindowMoves
<1>6. CASE connR' = connR /\ HeldBytes' \in {HeldBytes, HeldBytes - n}
  <2>1. k \in {h, h - n} /\ connR'.used = u /\ connR'.max = m /\ connR'.released = r BY <1>1, <1>6
  <2> QED BY <1>1, <1>2, <2>1
<1>7. CASE connR' = Receive(connR, n) /\ HeldBytes' \in {HeldBytes, HeldBytes + n}
  <2>1. k \in {h, h + n} BY <1>1, <1>7
  <2>2. connR'.used = u + n /\ connR'.max = m /\ connR'.released = r BY <1>1, <1>3, <1>7, ReceiveFields
  <2> QED BY <1>1, <1>2, <2>1, <2>2
<1>8. CASE connR' = Consume(connR, n) /\ HeldBytes' = HeldBytes - n
  <2>1. k = h - n BY <1>1, <1>8
  <2>2. connR'.used = u /\ connR'.max + connR'.released = m + r + n BY <1>1, <1>3, <1>8, ConsumeFields
  <2>3. connR'.max \in Nat /\ connR'.released \in Nat
    <3>1. connR' \in CreditState BY DEF Types, CreditTypes
    <3> QED BY <3>1 DEF CreditState
  <2> QED BY <1>1, <1>2, <2>1, <2>2, <2>3
<1> QED BY <1>5, <1>6, <1>7, <1>8 DEF WindowMove

\* Every step keeps it.
LEMMA NextEarned ==
  ASSUME Books, Accounts, SpentInv, HeldFit, EarnedFit, Types', SpentInv', NoResurrection', [Next]_vars
  PROVE  connR'.max + connR'.released + HeldBytes' <= ConnWindow + connR'.used
<1>0. Types /\ Grows BY NextGrows DEF Books, Core
<1>1. NoResurrection BY <1>0, StreamFacts DEF Grows, NoResurrection
<1>2. Ledger BY <1>1 DEF Ledger, HeldFit, Accounts, ConnAccounting, Balance
<1>3. WindowStep BY NextHeldFit
<1> QED BY <1>1, <1>2, <1>3, EarnedAfter DEF EarnedFit

\* It holds at the start.
LEMMA InitEarned == Init => EarnedFit
<1> SUFFICES ASSUME Init PROVE EarnedFit OBVIOUS
<1>1. connR = NewCredit(ConnWindow) /\ HeldBytes = 0 BY InitEmpty DEF Init
<1>2. connR.max = ConnWindow /\ connR.released = 0 /\ connR.used = 0 BY <1>1 DEF NewCredit
<1> QED BY <1>1, <1>2, SizesAreNatural DEF EarnedFit

\* The bytes held fit the connection's window.
LEMMA ConnMemory ==
  ASSUME Books, Accounts, EarnedFit, NoResurrection
  PROVE  HeldBytes <= ConnWindow
<1>0. Types /\ MaxInv BY DEF Books, Core
<1>1. connR \in CreditState /\ connR.used \in Nat /\ connR.max \in Nat /\ connR.released \in Nat
  <2>1. connR \in CreditState BY <1>0, CreditNats
  <2> QED BY <2>1 DEF CreditState
<1>2. connS.used = QueuedBytes + WireBytes + connR.used + ignored BY DEF Accounts, ConnAccounting
<1>3. QueuedBytes \in Nat /\ WireBytes \in Nat /\ ignored \in Nat /\ connS.used \in Nat /\ connS.max \in Nat
  BY <1>0, BookNats
<1>4. connS.used <= connS.max /\ connS.max <= connR.max BY <1>0 DEF MaxInv
<1>5. connR.used <= connR.max BY <1>1, <1>2, <1>3, <1>4
<1>6. HeldBytes \in Nat /\ ConnWindow \in Nat BY <1>0, HeldIs, SizesAreNatural
<1>7. connR.max + connR.released + HeldBytes <= ConnWindow + connR.used BY DEF EarnedFit
<1> QED BY <1>1, <1>5, <1>6, <1>7

\* The bytes held for a stream fit its window.
LEMMA StreamMemory ==
  ASSUME Books, Running, NEW s \in Streams, fronts[s] <= 1
  PROVE  Buffered(<<s, 1>>) + InHand(<<s, 1>>) <= StreamWindow
<1>0. Types /\ SeenInv /\ HeldInv /\ <<s, 1>> \in Fronts BY StreamFacts DEF Books, Core
<1>. DEFINE f == <<s, 1>>
<1>1. PICK u \in Nat, m \in Nat, r \in Nat : u = strR[f].used /\ m = strR[f].max /\ r = strR[f].released
  <2>1. strR[f] \in CreditState BY <1>0, CreditNats
  <2> QED BY <2>1 DEF CreditState
<1>2. PICK b \in Nat, h \in Nat, g \in Nat : b = Buffered(f) /\ h = InHand(f) /\ g = got[f] BY <1>0, BufferedIsNat
<1>3. u <= arrived[s] /\ arrived[s] <= m /\ arrived[s] \in Nat BY <1>0, <1>1, StreamCovered DEF SeenInv, SeenOne
<1>4. m + r = StreamWindow + g /\ g + b + h <= u BY <1>0, <1>1, <1>2 DEF HeldInv
<1>5. b + h <= StreamWindow BY <1>1, <1>2, <1>3, <1>4, SizesAreNatural
<1> QED BY <1>2, <1>5

\* While no stream came to life twice, the bytes the receiver keeps are at most
\* the connection's window and, while the session runs, those of a stream at
\* most its window.
MemoryFits ==
  NoResurrection => /\ HeldBytes <= ConnWindow
                    /\ Running => \A s \in Streams : Buffered(<<s, 1>>) + InHand(<<s, 1>>) <= StreamWindow

\* A session keeps in memory at most the windows its Config grants, however far
\* the limits it advertised have moved: the bytes queued to a RecvStream, in
\* its buffer or in the hand of recv_frame are at most max_data over all
\* streams and max_stream_data of each one, while no stream came to life a
\* second time.
THEOREM MemoryIsBounded == Spec => []MemoryFits
<1>1. Books /\ Accounts /\ SpentInv /\ HeldFit /\ EarnedFit /\ Books' /\ SpentInv' /\ [Next]_vars => EarnedFit'
  BY NextEarned DEF EarnedFit, Books, Core
<1>2. Books /\ Accounts /\ EarnedFit => MemoryFits
  <2> SUFFICES ASSUME Books, Accounts, EarnedFit, NoResurrection
               PROVE  /\ HeldBytes <= ConnWindow
                      /\ Running => \A s \in Streams : Buffered(<<s, 1>>) + InHand(<<s, 1>>) <= StreamWindow
    BY DEF MemoryFits
  <2>1. \A s \in Streams : fronts[s] <= 1 BY OneFront DEF Books
  <2> QED BY <2>1, ConnMemory, StreamMemory
<1> QED BY <1>1, <1>2, InitEarned, LedgerHolds, PTL DEF Spec

----------------------------------------------------------------------------
(* Every stream implements CreditWindow                                   *)

\* The bytes of stream t that a frame carries.
PayloadOf(t, f) == IF f.id = t THEN Payload(f) ELSE 0

\* The bytes of stream t on the transport.
CarriedOf(t, q) == SumFunction([i \in DOMAIN q |-> PayloadOf(t, q[i])])

\* The bytes of stream t in a frame that recv_frame has taken and not yet
\* routed.
Reaching(t) == IF reader.frame # NoFrame /\ reader.frame.id = t THEN InReader({"stream"}) ELSE 0

\* The bytes of a new stream t that recv_frame holds until the stream is in the
\* map.
Handed(t) == IF reader.frame # NoFrame /\ reader.frame.id = t THEN InReader({"accept", "insert"}) ELSE 0

\* The bytes of stream t the receiver holds.
HeldOf(t) == Buffered(<<t, 1>>) + Handed(t)

\* The bytes of stream t that were dropped before they were accounted.
LostOf(t) == wired[t] - OnWire(t) - strR[<<t, 1>>].used

\* A step of the window of stream t, or a stutter of it.
StreamStep(t) == StreamWin(t)!WindowNext \/ UNCHANGED (StreamWin(t)!windowVars)

\* A write claims credit of its stream.
LEMMA StreamSpends ==
  ASSUME NEW t \in Streams, NEW n \in 0 .. MaxBytes, strS[t].used + n <= MaxBytes, n <= Available(strS[t]),
         strS'[t] = Claim(strS[t], n), Bytes(queue'[t]) = Bytes(queue[t]) + n,
         strR'[<<t, 1>>] = strR[<<t, 1>>], (OnWire(t))' = OnWire(t), (LostOf(t))' = LostOf(t),
         (HeldOf(t))' = HeldOf(t), Told' = Told
  PROVE  StreamStep(t)
  BY DEF StreamStep, StreamWin!WindowNext, StreamWin!Spend, StreamWin!Available, StreamWin!Claim, Available, Claim,
    HeldOf, Handed, LostOf, Told

\* Dropping queued frames returns their credit.
LEMMA StreamGivesBack ==
  ASSUME NEW t \in Streams, NEW n \in 0 .. MaxBytes, n <= Bytes(queue[t]),
         strS'[t] = Release(strS[t], n), Bytes(queue'[t]) = Bytes(queue[t]) - n,
         strR'[<<t, 1>>] = strR[<<t, 1>>], (OnWire(t))' = OnWire(t), (LostOf(t))' = LostOf(t),
         (HeldOf(t))' = HeldOf(t), Told' = Told
  PROVE  StreamStep(t)
  BY DEF StreamStep, StreamWin!WindowNext, StreamWin!GiveBack, StreamWin!Release, Release, HeldOf, Handed, LostOf, Told

\* The writer moves bytes of a stream to the transport.
LEMMA StreamTransmits ==
  ASSUME NEW t \in Streams, NEW n \in 0 .. MaxBytes, n <= Bytes(queue[t]),
         strS'[t] = strS[t], Bytes(queue'[t]) = Bytes(queue[t]) - n,
         strR'[<<t, 1>>] = strR[<<t, 1>>], (OnWire(t))' = OnWire(t) + n, (LostOf(t))' = LostOf(t),
         (HeldOf(t))' = HeldOf(t), Told' = Told
  PROVE  StreamStep(t) BY DEF StreamStep, StreamWin!WindowNext, StreamWin!Transmit, HeldOf, Handed, LostOf, Told

\* The receiver accounts for bytes of a stream, and keeps them all or none.
LEMMA StreamArrives ==
  ASSUME NEW t \in Streams, NEW n \in 0 .. MaxBytes, NEW k \in {0, n}, n <= OnWire(t),
         strS'[t] = strS[t], queue'[t] = queue[t], MayReceive(strR[<<t, 1>>], n),
         strR'[<<t, 1>>] = Receive(strR[<<t, 1>>], n), (OnWire(t))' = OnWire(t) - n, (LostOf(t))' = LostOf(t),
         (HeldOf(t))' = HeldOf(t) + k, Told' = Told
  PROVE  StreamStep(t)
  BY DEF StreamStep, StreamWin!WindowNext, StreamWin!Arrive, StreamWin!MayReceive, StreamWin!Receive, MayReceive,
    Receive, HeldOf, Handed, LostOf, Told

\* The receiver drops bytes of a stream without accounting for them.
LEMMA StreamIgnores ==
  ASSUME NEW t \in Streams, NEW n \in 0 .. MaxBytes, n <= OnWire(t),
         strS'[t] = strS[t], queue'[t] = queue[t],
         strR'[<<t, 1>>] = strR[<<t, 1>>], (OnWire(t))' = OnWire(t) - n, (LostOf(t))' = LostOf(t) + n,
         (HeldOf(t))' = HeldOf(t), Told' = Told
  PROVE  StreamStep(t) BY DEF StreamStep, StreamWin!WindowNext, StreamWin!Ignore, HeldOf, Handed, LostOf, Told

\* The application reads bytes of a stream.
LEMMA StreamReads ==
  ASSUME NEW t \in Streams, NEW n \in 0 .. MaxBytes, n <= HeldOf(t),
         strS'[t] = strS[t], queue'[t] = queue[t],
         strR'[<<t, 1>>] = Consume(strR[<<t, 1>>], n), (OnWire(t))' = OnWire(t), (LostOf(t))' = LostOf(t),
         (HeldOf(t))' = HeldOf(t) - n, Told' = Told
  PROVE  StreamStep(t)
  BY DEF StreamStep, StreamWin!WindowNext, StreamWin!ReadBytes, StreamWin!Consume, StreamWin!Grants, Consume, Grants,
    HeldOf, Handed, LostOf, Told

\* Bytes of a stream are dropped unread.
LEMMA StreamDiscards ==
  ASSUME NEW t \in Streams, NEW n \in 0 .. MaxBytes, n <= HeldOf(t),
         strS'[t] = strS[t], queue'[t] = queue[t],
         strR'[<<t, 1>>] = strR[<<t, 1>>], (OnWire(t))' = OnWire(t), (LostOf(t))' = LostOf(t),
         (HeldOf(t))' = HeldOf(t) - n, Told' = Told
  PROVE  StreamStep(t) BY DEF StreamStep, StreamWin!WindowNext, StreamWin!Discard, HeldOf, Handed, LostOf, Told

\* The sender learns a limit of a stream.
LEMMA StreamLearns ==
  ASSUME NEW t \in Streams, NEW m \in Nat, strR[<<t, 1>>].max \in Nat, m <= strR[<<t, 1>>].max,
         MayIncrease(strS[t], m), strS'[t] = IncreaseMax(strS[t], m), queue'[t] = queue[t],
         strR'[<<t, 1>>] = strR[<<t, 1>>], (OnWire(t))' = OnWire(t), (LostOf(t))' = LostOf(t),
         (HeldOf(t))' = HeldOf(t), Told' = Told
  PROVE  StreamStep(t)
  BY DEF StreamStep, StreamWin!WindowNext, StreamWin!Learn, StreamWin!MayIncrease, StreamWin!IncreaseMax, MayIncrease,
    IncreaseMax, HeldOf, Handed, LostOf, Told

\* A step that touches none of this is a stutter of the window.
LEMMA StreamRests ==
  ASSUME NEW t \in Streams, strS'[t] = strS[t], Bytes(queue'[t]) = Bytes(queue[t]),
         strR'[<<t, 1>>] = strR[<<t, 1>>], (OnWire(t))' = OnWire(t), (LostOf(t))' = LostOf(t),
         (HeldOf(t))' = HeldOf(t), Told' = Told
  PROVE  StreamStep(t) BY DEF StreamStep, StreamWin!windowVars, HeldOf, Handed, LostOf, Told

\* How CarriedOf changes with the transport.
LEMMA CarriedOfFacts ==
  ASSUME NEW t \in Streams, NEW q \in Seq(WireFrames)
  PROVE  /\ CarriedOf(t, q) \in Nat /\ CarriedOf(t, <<>>) = 0
         /\ \A f \in WireFrames : CarriedOf(t, Append(q, f)) = CarriedOf(t, q) + PayloadOf(t, f)
         /\ q # <<>> => CarriedOf(t, Tail(q)) = CarriedOf(t, q) - PayloadOf(t, Head(q))
<1>. DEFINE g == [f \in WireFrames |-> PayloadOf(t, f)]
            Over(p) == SumFunction([i \in DOMAIN p |-> g[p[i]]])
<1>1. g \in [WireFrames -> Nat] /\ \A f \in WireFrames : g[f] = PayloadOf(t, f)
  BY FrameFields DEF Payload, PayloadOf, WireFrames
<1>2. ASSUME NEW p \in Seq(WireFrames) PROVE Over(p) = CarriedOf(t, p)
  <2>1. [i \in DOMAIN p |-> g[p[i]]] = [i \in DOMAIN p |-> PayloadOf(t, p[i])] BY <1>1
  <2> QED BY <2>1 DEF CarriedOf
<1>3. /\ Over(q) \in Nat /\ Over(<<>>) = 0
      /\ \A f \in WireFrames : Over(Append(q, f)) = Over(q) + g[f]
      /\ q # <<>> => Over(Tail(q)) = Over(q) - g[Head(q)]
  <2> HIDE DEF g
  <2> QED BY <1>1, SumOver
<1>4. /\ <<>> \in Seq(WireFrames) /\ \A f \in WireFrames : Append(q, f) \in Seq(WireFrames)
      /\ q # <<>> => Tail(q) \in Seq(WireFrames) /\ Head(q) \in WireFrames BY SeqAppend, SeqTail
<1> HIDE DEF g, Over
<1> QED BY <1>1, <1>2, <1>3, <1>4

\* What the frames of another stream and resets carry of stream t: nothing.
LEMMA PayloadOfFacts ==
  ASSUME NEW t \in Streams, NEW f \in WireFrames
  PROVE  /\ PayloadOf(t, f) \in Nat
         /\ f.id # t => PayloadOf(t, f) = 0
         /\ f.id = t /\ f \in StreamFrames => PayloadOf(t, f) = f.len
         /\ f \in ResetFrames => PayloadOf(t, f) = 0 BY PayloadFacts DEF PayloadOf

\* The bytes of t on their way are on the transport or not yet routed.
LEMMA OnWireIs ==
  ASSUME NEW t \in Streams
  PROVE  /\ OnWire(t) = CarriedOf(t, wireAB) + Reaching(t)
         /\ (OnWire(t))' = CarriedOf(t, wireAB') + (Reaching(t))' BY DEF OnWire, CarriedOf, PayloadOf, Reaching

\* What the frame in the reader's hand counts for.
LEMMA ReaderParts ==
  ASSUME Types, NEW t \in Streams
  PROVE  /\ reader.pc # "stream" \/ reader.frame.id # t => Reaching(t) = 0
         /\ reader.pc = "stream" /\ reader.frame.id = t => Reaching(t) = reader.frame.len
         /\ reader.pc \notin {"accept", "insert"} \/ reader.frame.id # t => Handed(t) = 0
         /\ reader.pc \in {"accept", "insert"} /\ reader.frame.id = t => Handed(t) = reader.frame.len
         /\ Reaching(t) \in Nat /\ Handed(t) \in Nat
<1>1. reader.pc \in StreamPcs => reader.frame # NoFrame /\ reader.frame.len \in Nat
  BY ReaderFields, FrameFields DEF Types, NoFrame
<1> QED BY <1>1 DEF Reaching, Handed, InReader, StreamPcs

\* The same, as a formula of the state.
ReaderSplit(t) ==
  /\ reader.pc # "stream" \/ reader.frame.id # t => Reaching(t) = 0
  /\ reader.pc = "stream" /\ reader.frame.id = t => Reaching(t) = reader.frame.len
  /\ reader.pc \notin {"accept", "insert"} \/ reader.frame.id # t => Handed(t) = 0
  /\ reader.pc \in {"accept", "insert"} /\ reader.frame.id = t => Handed(t) = reader.frame.len
  /\ Reaching(t) \in Nat /\ Handed(t) \in Nat

\* It holds of every well-typed state.
LEMMA ReaderSplits == Types => \A t \in Streams : ReaderSplit(t)
  BY ReaderParts DEF ReaderSplit

\* Also of the state after a step.
LEMMA ReaderSplitsAfter == Types' => \A t \in Streams : (ReaderSplit(t))'
<1>1. (Types => \A t \in Streams : ReaderSplit(t))' BY ReaderSplits, PTL
<1> QED BY <1>1

\* What the frame in the reader's hand counts for after a step.
LEMMA ReaderPartsAfter ==
  ASSUME Types', NEW t \in Streams
  PROVE  /\ reader'.pc # "stream" \/ reader'.frame.id # t => (Reaching(t))' = 0
         /\ reader'.pc = "stream" /\ reader'.frame.id = t => (Reaching(t))' = reader'.frame.len
         /\ reader'.pc \notin {"accept", "insert"} \/ reader'.frame.id # t => (Handed(t))' = 0
         /\ reader'.pc \in {"accept", "insert"} /\ reader'.frame.id = t => (Handed(t))' = reader'.frame.len
         /\ (Reaching(t))' \in Nat /\ (Handed(t))' \in Nat BY ReaderSplitsAfter DEF ReaderSplit

\* The bytes of a frame not yet routed have arrived.
FlightInv == \A s \in Streams : InFlight(s) => reader.frame.len <= arrived[s]

\* What the refinement of a stream's window needs of a running session.
StreamLedger == Books /\ Balance /\ SpentInv /\ FlightInv /\ NoResurrection /\ Running

\* The quantities of a stream's window are numbers within its bounds.
LEMMA StreamBounds ==
  ASSUME StreamLedger, NEW t \in Streams
  PROVE  /\ Types /\ <<t, 1>> \in Fronts /\ fronts[t] <= 1 /\ MaxBytes \in Nat
         /\ Bytes(queue[t]) \in Nat /\ Bytes(queue[t]) <= MaxBytes
         /\ CarriedOf(t, wireAB) \in Nat /\ wired[t] \in Nat /\ wired[t] <= MaxBytes
         /\ arrived[t] \in Nat /\ arrived[t] <= wired[t]
         /\ strR[<<t, 1>>] \in CreditState /\ strR[<<t, 1>>].used \in Nat /\ strR[<<t, 1>>].used <= arrived[t]
         /\ Buffered(<<t, 1>>) \in Nat /\ HeldOf(t) \in Nat /\ HeldOf(t) <= MaxBytes
         /\ Reaching(t) \in Nat /\ Handed(t) \in Nat /\ OnWire(t) \in Nat
         /\ LostOf(t) = wired[t] - OnWire(t) - strR[<<t, 1>>].used
<1> USE DEF StreamLedger, Books, Core
<1>1. Types /\ <<t, 1>> \in Fronts /\ fronts[t] <= 1 /\ MaxBytes \in Nat BY StreamFacts, OneFront, SizesAreNatural
<1>2. PICK b \in Nat, w \in Nat, u \in Nat, o \in Nat :
        /\ b = Bytes(queue[t]) /\ w = wired[t] /\ u = strS[t].used /\ o = tx[t].offset /\ o <= MaxBytes
  <2>1. Bytes(queue[t]) \in Nat BY <1>1, BytesFacts DEF Types, SenderTypes
  <2>2. wired[t] \in Nat /\ strS[t].used \in Nat BY <1>1, CreditNats DEF Types, SenderTypes
  <2>3. tx[t].offset \in 0 .. MaxBytes BY <1>1 DEF Types, SenderTypes, TxStates
  <2> QED BY <1>1, <2>1, <2>2, <2>3
<1>3. u = w + b /\ u <= o BY <1>2 DEF StreamAccounting, SpentInv
<1>4. arrived[t] \in Nat /\ arrived[t] <= wired[t] BY <1>1 DEF WirePart, OrderInv, Types, ReaderTypes
<1>5. strR[<<t, 1>>] \in CreditState /\ strR[<<t, 1>>].used \in Nat BY <1>1, CreditNats
<1>6. strR[<<t, 1>>].used <= arrived[t] BY <1>1 DEF SeenInv, SeenOne
<1>7. Reaching(t) \in Nat /\ Handed(t) \in Nat BY <1>1, ReaderParts
<1>8. wireAB \in Seq(WireFrames) BY <1>1, BookNats
<1>9. CarriedOf(t, wireAB) \in Nat BY <1>8, CarriedOfFacts
<1>10. PICK c \in Nat, h \in Nat, g \in Nat : c = Buffered(<<t, 1>>) /\ h = InHand(<<t, 1>>) /\ g = got[<<t, 1>>]
  BY <1>1, BufferedIsNat
<1>11. g + c + h <= strR[<<t, 1>>].used BY <1>1, <1>10 DEF HeldInv
<1>12. Handed(t) = h
  <2>1. CASE reader.pc \in {"accept", "insert"} /\ reader.frame.id = t
    <3>1. fronts[t] = 1
      <4>1. fronts[t] > 0 /\ fronts[t] \in 0 .. MaxFronts BY <1>1, <2>1 DEF ReaderMapInv, Types, ReaderTypes
      <4> QED BY <1>1, <4>1, FrontBound
    <3>2. InHand(<<t, 1>>) = reader.frame.len BY <2>1, <3>1 DEF InHand
    <3> QED BY <1>1, <1>10, <2>1, <3>2, ReaderParts
  <2>2. CASE ~(reader.pc \in {"accept", "insert"} /\ reader.frame.id = t)
    <3>1. InHand(<<t, 1>>) = 0 BY <2>2 DEF InHand
    <3>2. Handed(t) = 0 BY <1>1, <2>2, ReaderParts
    <3> QED BY <1>10, <3>1, <3>2
  <2> QED BY <2>1, <2>2
<1>13. HeldOf(t) = c + h BY <1>10, <1>12 DEF HeldOf
<1>14. OnWire(t) = CarriedOf(t, wireAB) + Reaching(t) BY OnWireIs
<1>15. c + h <= MaxBytes /\ w <= MaxBytes /\ b <= MaxBytes BY <1>1, <1>2, <1>3, <1>4, <1>5, <1>6, <1>10, <1>11
<1>16. OnWire(t) \in Nat BY <1>7, <1>9, <1>14
<1> QED BY <1>1, <1>2, <1>4, <1>5, <1>6, <1>7, <1>9, <1>10, <1>13, <1>15, <1>16 DEF LostOf

\* What is held of a stream after a step is a number.
LEMMA HeldOfAfter ==
  ASSUME Types', NEW t \in Streams
  PROVE  (HeldOf(t))' = (Buffered(<<t, 1>>))' + (Handed(t))' /\ (Buffered(<<t, 1>>))' \in Nat /\ (HeldOf(t))' \in Nat
<1>1. <<t, 1>> \in Fronts BY StreamFacts
<1>2. (Buffered(<<t, 1>>))' \in Nat BY <1>1, HeldIsAfter
<1>3. (Handed(t))' \in Nat BY ReaderPartsAfter
<1>4. (HeldOf(t))' = (Buffered(<<t, 1>>))' + (Handed(t))' BY DEF HeldOf
<1> QED BY <1>2, <1>3, <1>4

\* A step that only drops bytes held is a step of the window.
LEMMA StreamShrinks ==
  ASSUME StreamLedger, Types', NEW t \in Streams, strS'[t] = strS[t], queue'[t] = queue[t], wired'[t] = wired[t],
         strR'[<<t, 1>>] = strR[<<t, 1>>], (OnWire(t))' = OnWire(t), (HeldOf(t))' <= HeldOf(t), fault' # "flow"
  PROVE  StreamStep(t)
<1>1. HeldOf(t) \in Nat /\ (HeldOf(t))' \in Nat /\ MaxBytes \in Nat /\ HeldOf(t) <= MaxBytes
  BY StreamBounds, HeldOfAfter
<1>2. PICK n : n = HeldOf(t) - (HeldOf(t))' OBVIOUS
<1>3. n \in 0 .. MaxBytes /\ n <= HeldOf(t) /\ (HeldOf(t))' = HeldOf(t) - n BY <1>1, <1>2, Difference, Zenon
<1>4. Told' = Told /\ (LostOf(t))' = LostOf(t) BY DEF Told, LostOf, StreamLedger, Running
<1> QED BY <1>3, <1>4, StreamDiscards

\* A step that leaves the frames and credits of t alone is a stutter of its
\* window.
LEMMA StreamQuiet ==
  ASSUME NEW t \in Streams, strS'[t] = strS[t], queue'[t] = queue[t], wired'[t] = wired[t],
         strR'[<<t, 1>>] = strR[<<t, 1>>], UNCHANGED <<wireAB, reader, fault>>,
         rx'[<<t, 1>>].buf = rx[<<t, 1>>].buf, rx'[<<t, 1>>].data = rx[<<t, 1>>].data
  PROVE  StreamStep(t)
<1>1. (OnWire(t))' = OnWire(t) BY DEF OnWire, InReader
<1>2. (HeldOf(t))' = HeldOf(t) BY BufferedSame DEF HeldOf, Handed, InReader
<1> QED BY <1>1, <1>2, StreamRests DEF LostOf, Told

----------------------------------------------------------------------------
(* A stream: the steps of the sender                                      *)

\* A step of the sending application leaves the receiving half of a window
\* alone.
LEMMA SenderSees ==
  ASSUME NEW t \in Streams, UNCHANGED <<strR, wireAB, reader, rx, fault>>, wired'[t] = wired[t]
  PROVE  /\ strR'[<<t, 1>>] = strR[<<t, 1>>] /\ (OnWire(t))' = OnWire(t) /\ (LostOf(t))' = LostOf(t)
         /\ (HeldOf(t))' = HeldOf(t) /\ Told' = Told
<1>1. (OnWire(t))' = OnWire(t) BY DEF OnWire, InReader
<1>2. (HeldOf(t))' = HeldOf(t) BY DEF HeldOf, Handed, InReader, Buffered
<1> QED BY <1>1, <1>2 DEF LostOf, Told

\* Dropping the queue of t is a step of its window.
LEMMA StreamAbandon ==
  ASSUME StreamLedger, NEW t \in Streams, NEW why, Abandon(t, why),
         UNCHANGED <<strR, wireAB, reader, rx, fault, wired>>
  PROVE  StreamStep(t)
<1>0. Types BY StreamBounds
<1>1. PICK b \in Nat : b = Bytes(queue[t]) /\ b <= MaxBytes /\ MaxBytes \in Nat BY StreamBounds
<1>2. queue' = [queue EXCEPT ![t] = <<>>] /\ strS' = [strS EXCEPT ![t] = Release(@, b)] BY <1>1 DEF Abandon
<1>3. queue'[t] = <<>> /\ strS'[t] = Release(strS[t], b) BY <1>0, <1>2 DEF Types, SenderTypes
<1>4. Bytes(queue'[t]) = Bytes(queue[t]) - b BY <1>1, <1>3, NoBytes
<1>5. b \in 0 .. MaxBytes /\ b <= Bytes(queue[t]) BY <1>1
<1> QED BY <1>3, <1>4, <1>5, SenderSees, StreamGivesBack

\* A write to t is a step of its window.
LEMMA StreamWrite ==
  ASSUME StreamLedger, Types', SpentInv', NEW t \in Streams, CommitWrite(t),
         UNCHANGED <<strR, wireAB, reader, rx, fault, wired>>
  PROVE  StreamStep(t)
<1>0. Types BY StreamBounds
<1>1. PICK n \in Nat : /\ strS[t].used + n <= strS[t].max /\ strS' = [strS EXCEPT ![t] = Claim(@, n)]
                       /\ queue' = [queue EXCEPT ![t] = Append(@, StreamFrame(t, tx[t].offset, n, FALSE))]
  BY <1>0, CommitCases
<1>2. PICK fr : fr = StreamFrame(t, tx[t].offset, n, FALSE) OBVIOUS
<1>3. tx[t].offset \in Nat /\ queue[t] \in Seq(StreamFrames) BY <1>0, TxFields DEF Types, SenderTypes
<1>4. fr \in StreamFrames /\ fr.len = n BY <1>2, <1>3 DEF StreamFrame, StreamFrames
<1>5. queue'[t] = Append(queue[t], fr) /\ strS'[t] = Claim(strS[t], n) BY <1>0, <1>1, <1>2 DEF Types, SenderTypes
<1>6. Bytes(queue'[t]) = Bytes(queue[t]) + n BY <1>3, <1>4, <1>5, BytesFacts
<1>7. strS[t] \in CreditState /\ strS[t].used \in Nat /\ strS[t].max \in Nat /\ MaxBytes \in Nat
  BY <1>0, CreditNats, SizesAreNatural
<1>8. strS[t].used + n <= MaxBytes
  <2>1. strS'[t].used = strS[t].used + n
    <3>1. PICK c : c = Claim(strS[t], n) OBVIOUS
    <3>2. c.used = strS[t].used + n BY <1>7, <3>1, CreditFields
    <3> QED BY <1>5, <3>1, <3>2
  <2>2. strS'[t].used <= tx'[t].offset /\ tx'[t].offset \in 0 .. MaxBytes BY DEF SpentInv, Types, SenderTypes, TxStates
  <2> QED BY <1>7, <2>1, <2>2
<1>9. n \in 0 .. MaxBytes /\ n <= Available(strS[t]) BY <1>1, <1>7, <1>8 DEF Available
<1> QED BY <1>5, <1>6, <1>8, <1>9, SenderSees, StreamSpends

\* Queueing a FIN is a stutter of the window: it carries no bytes.
LEMMA StreamFinish ==
  ASSUME StreamLedger, NEW t \in Streams, Finish(t), UNCHANGED <<strR, wireAB, reader, rx, fault, wired>>
  PROVE  StreamStep(t)
<1>0. Types BY StreamBounds
<1>1. /\ queue' = [queue EXCEPT ![t] = Append(@, StreamFrame(t, tx[t].offset, 0, TRUE))]
      /\ UNCHANGED strS BY DEF Finish
<1>2. PICK fr : fr = StreamFrame(t, tx[t].offset, 0, TRUE) OBVIOUS
<1>3. tx[t].offset \in Nat /\ queue[t] \in Seq(StreamFrames) BY <1>0, TxFields DEF Types, SenderTypes
<1>4. fr \in StreamFrames /\ fr.len = 0 BY <1>2, <1>3 DEF StreamFrame, StreamFrames
<1>5. queue'[t] = Append(queue[t], fr) BY <1>0, <1>1, <1>2 DEF Types, SenderTypes
<1>6. Bytes(queue'[t]) = Bytes(queue[t]) + 0 /\ Bytes(queue[t]) \in Nat BY <1>3, <1>4, <1>5, BytesFacts
<1>7. Bytes(queue'[t]) = Bytes(queue[t]) BY <1>6
<1> QED BY <1>1, <1>7, SenderSees, StreamRests

\* A call of the sending application is a step of every stream's window.
LEMMA StreamApp ==
  ASSUME StreamLedger, Types', SpentInv', NEW s \in Streams, SenderApp(s), NEW t \in Streams
  PROVE  StreamStep(t)
<1>0. Types BY StreamBounds
<1>1. UNCHANGED <<strR, wireAB, fault, reader, rx, wired>>
  BY DEF SenderApp, readerVars, creditVars, appVars, OpenUni, ReserveSlot, CancelWrite, CommitWrite, Reset, SeeStop,
    Finish
<1>2. CASE strS'[t] = strS[t] /\ queue'[t] = queue[t] BY <1>1, <1>2, StreamQuiet
<1>3. CASE OpenUni(s) \/ ReserveSlot(s) \/ CancelWrite(s) BY <1>2, <1>3 DEF OpenUni, ReserveSlot, CancelWrite
<1>4. CASE t # s
  <2>1. /\ \A u \in Streams : u # s => strS'[u] = strS[u]
        /\ \A u \in Streams : u # s => queue'[u] = queue[u]
    <3>1. CASE CommitWrite(s)
      <4>1. PICK n \in Nat : /\ strS' = [strS EXCEPT ![s] = Claim(@, n)]
                             /\ queue' = [queue EXCEPT ![s] = Append(@, StreamFrame(s, tx[s].offset, n, FALSE))]
        BY <1>0, <3>1, CommitCases, Zenon
      <4> QED BY <1>0, <4>1, Zenon DEF Types, SenderTypes
    <3>2. CASE Reset(s) BY <1>0, <3>2 DEF Reset, Abandon, Types, SenderTypes
    <3>3. CASE SeeStop(s) BY <1>0, <3>3 DEF SeeStop, Abandon, Types, SenderTypes
    <3>4. CASE Finish(s) BY <1>0, <3>4 DEF Finish, Types, SenderTypes
    <3>5. CASE OpenUni(s) \/ ReserveSlot(s) \/ CancelWrite(s) BY <3>5 DEF OpenUni, ReserveSlot, CancelWrite
    <3> QED BY <3>1, <3>2, <3>3, <3>4, <3>5 DEF SenderApp
  <2> QED BY <1>2, <1>4, <2>1
<1>5. CASE t = s /\ CommitWrite(s) BY <1>1, <1>5, StreamWrite
<1>6. CASE t = s /\ Reset(s) BY <1>1, <1>6, StreamAbandon DEF Reset
<1>7. CASE t = s /\ SeeStop(s)
  <2>1. CASE tx[s].fin BY <1>2, <1>7, <2>1 DEF SeeStop
  <2>2. CASE ~tx[s].fin BY <1>1, <1>7, <2>2, StreamAbandon DEF SeeStop
  <2> QED BY <2>1, <2>2
<1>8. CASE t = s /\ Finish(s) BY <1>1, <1>8, StreamFinish
<1> QED BY <1>3, <1>4, <1>5, <1>6, <1>7, <1>8 DEF SenderApp

\* What a frame put on the transport adds for stream t.
LEMMA WireGrowsFor ==
  ASSUME Types, NEW t \in Streams, NEW f \in WireFrames, wireAB' = Append(wireAB, f), reader' = reader
  PROVE  (OnWire(t))' = OnWire(t) + PayloadOf(t, f)
<1>1. wireAB \in Seq(WireFrames) BY BookNats
<1>2. PICK c \in Nat, r \in Nat, p \in Nat : c = CarriedOf(t, wireAB) /\ r = Reaching(t) /\ p = PayloadOf(t, f)
  BY <1>1, CarriedOfFacts, ReaderParts, PayloadOfFacts
<1>3. CarriedOf(t, wireAB') = c + p BY <1>1, <1>2, CarriedOfFacts
<1>4. (Reaching(t))' = r BY <1>2 DEF Reaching, InReader
<1>5. OnWire(t) = c + r /\ (OnWire(t))' = (c + p) + r BY <1>2, <1>3, <1>4, OnWireIs
<1> QED BY <1>2, <1>5

\* A step of the writer is a step of every stream's window.
LEMMA StreamWriter ==
  ASSUME StreamLedger, Types', SenderWriter, NEW t \in Streams
  PROVE  StreamStep(t)
<1>0. Types /\ SenderInv BY StreamBounds DEF StreamLedger, Books, Core
<1>1. UNCHANGED <<strR, fault, reader, rx>> BY DEF SenderWriter, readerVars, creditVars, appVars
<1>2. (HeldOf(t))' = HeldOf(t) /\ Told' = Told BY <1>1 DEF HeldOf, Handed, InReader, Buffered, Told
<1>3. PICK w \in Nat, o \in Nat, u \in Nat : /\ w = wired[t] /\ o = OnWire(t) /\ u = strR[<<t, 1>>].used
                                             /\ LostOf(t) = w - o - u BY StreamBounds
<1>4. CASE strS'[t] = strS[t] /\ queue'[t] = queue[t] /\ wired'[t] = wired[t] /\ (OnWire(t))' = OnWire(t)
  <2>1. (LostOf(t))' = LostOf(t) BY <1>1, <1>4 DEF LostOf
  <2> QED BY <1>1, <1>2, <1>4, <2>1, StreamRests
<1>5. CASE TransmitReset
  <2>1. PICK s \in Streams : wireAB' = Append(wireAB, ResetFrame(s, wired[s])) /\ UNCHANGED <<strS, queue, wired>>
    BY <1>0, <1>5, PoppedReset
  <2>2. PICK f \in ResetFrames : f = ResetFrame(s, wired[s]) BY <1>0, FrameTypes DEF Types, SenderTypes
  <2>3. f \in WireFrames /\ PayloadOf(t, f) = 0 BY PayloadOfFacts DEF WireFrames
  <2>4. (OnWire(t))' = o + 0 BY <1>0, <1>1, <1>3, <2>1, <2>2, <2>3, WireGrowsFor
  <2>5. (OnWire(t))' = OnWire(t) BY <1>3, <2>4
  <2> QED BY <1>4, <2>1, <2>5
<1>6. ASSUME NEW s \in Streams, TransmitStream(s) PROVE StreamStep(t)
  <2>1. PICK f \in StreamFrames : /\ f = Head(queue[s]) /\ f.id = s /\ f.len \in Nat /\ queue[s] # <<>>
                                  /\ wireAB' = Append(wireAB, f) /\ queue' = [queue EXCEPT ![s] = Tail(@)]
                                  /\ wired' = [wired EXCEPT ![s] = @ + f.len] /\ UNCHANGED strS
    BY <1>0, <1>6, PoppedFrame
  <2>2. f \in WireFrames BY DEF WireFrames
  <2>3. (OnWire(t))' = o + PayloadOf(t, f) BY <1>0, <1>1, <1>3, <2>1, <2>2, WireGrowsFor
  <2>4. CASE s # t
    <3>1. PayloadOf(t, f) = 0 BY <2>1, <2>2, <2>4, PayloadOfFacts
    <3>2. (OnWire(t))' = OnWire(t) BY <1>3, <2>3, <3>1
    <3>3. queue'[t] = queue[t] /\ wired'[t] = wired[t] BY <1>0, <2>1, <2>4 DEF Types, SenderTypes
    <3> QED BY <1>4, <2>1, <3>2, <3>3
  <2>5. CASE s = t
    <3>1. PICK n \in Nat : n = f.len BY <2>1
    <3>2. PayloadOf(t, f) = n BY <2>1, <2>2, <2>5, <3>1, PayloadOfFacts
    <3>3. queue[t] \in Seq(StreamFrames) /\ queue'[t] = Tail(queue[t]) /\ wired'[t] = w + n
      BY <1>0, <1>3, <2>1, <2>5, <3>1 DEF Types, SenderTypes
    <3>4. Bytes(queue'[t]) = Bytes(queue[t]) - n /\ Bytes(queue[t]) \in Nat BY <2>1, <2>5, <3>1, <3>3, BytesFacts
    <3>5. Bytes(queue'[t]) \in Nat
      <4>1. queue'[t] \in Seq(StreamFrames) BY DEF Types, SenderTypes
      <4> QED BY <4>1, BytesFacts
    <3>6. MaxBytes \in Nat /\ Bytes(queue[t]) <= MaxBytes BY StreamBounds
    <3>7. n \in 0 .. MaxBytes /\ n <= Bytes(queue[t]) BY <3>4, <3>5, <3>6
    <3>8. (OnWire(t))' = OnWire(t) + n BY <1>3, <2>3, <3>2
    <3>9. (LostOf(t))' = LostOf(t)
      <4>1. (LostOf(t))' = (w + n) - (o + n) - u BY <1>1, <1>3, <2>3, <3>2, <3>3 DEF LostOf
      <4> QED BY <1>3, <4>1
    <3> QED BY <1>1, <1>2, <2>1, <3>4, <3>7, <3>8, <3>9, StreamTransmits
  <2> QED BY <2>4, <2>5
<1> QED BY <1>5, <1>6 DEF SenderWriter

\* A control frame is a step of every stream's window.
LEMMA StreamControl ==
  ASSUME StreamLedger, SenderReader, NEW t \in Streams
  PROVE  StreamStep(t)
<1>0. Types /\ MaxInv /\ fronts[t] <= 1 BY StreamBounds DEF StreamLedger, Books
<1>1. UNCHANGED <<strR, wireAB, reader, rx, queue, wired>> /\ fault = "none"
  BY DEF SenderReader, RecvControl, readerVars, creditVars, appVars, Running
<1>2. PICK g \in ControlFrames : g = Head(wireBA) /\ wireBA # <<>>
  BY <1>0, SeqTail DEF SenderReader, RecvControl, Types, WireTypes
<1>3. /\ fault' \in {fault, "regress"}
      /\ strS' = strS \/ (g.type = "max_stream_data" /\ strS' = [strS EXCEPT ![g.id] = RecvMax(@, g.max)])
  BY <1>2 DEF SenderReader, RecvControl
<1>4. /\ (OnWire(t))' = OnWire(t) /\ (HeldOf(t))' = HeldOf(t) /\ Told' = Told /\ (LostOf(t))' = LostOf(t)
  <2>1. (OnWire(t))' = OnWire(t) BY <1>1 DEF OnWire, InReader
  <2> QED BY <1>1, <1>3, <2>1 DEF HeldOf, Handed, InReader, Buffered, Told, LostOf
<1>5. CASE strS'[t] = strS[t] BY <1>1, <1>4, <1>5, StreamRests
<1>6. CASE g.type = "max_stream_data" /\ g.id = t /\ strS' = [strS EXCEPT ![g.id] = RecvMax(@, g.max)]
  <2>1. g.max \in Nat BY <1>6, FrameFields
  <2>2. g.max <= strR[<<t, 1>>].max
    <3>1. MaxOK(wireBA[1]) /\ g = wireBA[1] BY <1>0, <1>2, SeqTail DEF MaxInv, Types, WireTypes
    <3> QED BY <1>0, <1>6, <3>1 DEF MaxOK
  <2>3. strR[<<t, 1>>].max \in Nat BY <1>0, CreditNats
  <2>4. strS'[t] = RecvMax(strS[t], g.max) BY <1>0, <1>6 DEF Types, SenderTypes
  <2>5. CASE MayIncrease(strS[t], g.max) BY <1>1, <1>4, <2>1, <2>2, <2>3, <2>4, <2>5, StreamLearns DEF RecvMax
  <2>6. CASE ~MayIncrease(strS[t], g.max) BY <1>5, <2>4, <2>6 DEF RecvMax
  <2> QED BY <2>5, <2>6
<1>7. CASE g.type = "max_stream_data" /\ g.id # t /\ strS' = [strS EXCEPT ![g.id] = RecvMax(@, g.max)]
  BY <1>0, <1>5, <1>7 DEF Types, SenderTypes
<1> QED BY <1>3, <1>5, <1>6, <1>7

----------------------------------------------------------------------------
(* A stream: the steps of the reader                                      *)

\* Queueing a frame to a RecvStream adds all of its bytes or, when it was
\* dropped, none.
LEMMA HandsAllOrNone ==
  ASSUME Types, NEW f \in Fronts, NEW fr \in StreamFrames,
         rx' = IF fr.len = 0 /\ ~fr.fin THEN rx ELSE Deliver(f, fr)
  PROVE  (Buffered(f))' \in {Buffered(f), Buffered(f) + fr.len}
<1>1. /\ rx'[f].buf = rx[f].buf
      /\ rx'[f].data = rx[f].data \/ rx'[f].data = Append(rx[f].data, fr) BY Hands
<1>2. rx[f].buf.len \in Nat /\ rx[f].data \in Seq(StreamFrames) /\ fr.len \in Nat BY RxFields, FrameFields DEF Types
<1>3. PICK b \in Nat : b = Bytes(rx[f].data) BY <1>2, BytesFacts
<1>4. Bytes(Append(rx[f].data, fr)) = b + fr.len BY <1>2, <1>3, BytesFacts
<1>5. Bytes(rx'[f].data) = b \/ Bytes(rx'[f].data) = b + fr.len BY <1>1, <1>3, <1>4
<1>6. (Buffered(f))' = rx'[f].buf.len + Bytes(rx'[f].data) /\ Buffered(f) = rx[f].buf.len + b BY <1>3 DEF Buffered
<1> QED BY <1>1, <1>2, <1>5, <1>6

\* What taking a frame off the transport removes for stream t.
LEMMA WireShrinksFor ==
  ASSUME Types, NEW t \in Streams, wireAB # <<>>, wireAB' = Tail(wireAB)
  PROVE  /\ CarriedOf(t, wireAB') = CarriedOf(t, wireAB) - PayloadOf(t, Head(wireAB))
         /\ CarriedOf(t, wireAB') \in Nat /\ Head(wireAB) \in WireFrames
<1>1. wireAB \in Seq(WireFrames) BY BookNats
<1>2. Tail(wireAB) \in Seq(WireFrames) /\ Head(wireAB) \in WireFrames BY <1>1, SeqTail
<1>3. CarriedOf(t, Tail(wireAB)) \in Nat BY <1>2, CarriedOfFacts
<1> QED BY <1>1, <1>2, <1>3, CarriedOfFacts

\* Taking a STREAM frame off the transport is a step of every stream's window:
\* a frame of a retired stream is lost, any other stays on its way until it is
\* routed.
LEMMA StreamTakes ==
  ASSUME StreamLedger, Types', RecvStream, UNCHANGED <<strS, queue, wired>>, NEW t \in Streams
  PROVE  StreamStep(t)
<1> USE DEF StreamLedger, Books, Core
<1>0. fault' = fault /\ fault = "none" /\ Types BY TakenInBalance DEF Running
<1>1. PICK fr \in StreamFrames : /\ fr = Head(wireAB) /\ wireAB # <<>> /\ wireAB' = Tail(wireAB) /\ fr.len \in Nat
                                 /\ reader.pc = "idle" /\ fr.id \in Streams
                                 /\ TakeLate(fr) \/ TakeFail(fr) \/ Take(fr) BY RecvStreamCases
<1>2. PICK n \in Nat, p \in Nat : n = fr.len /\ p = PayloadOf(t, fr) /\ (fr.id = t => p = n) /\ (fr.id # t => p = 0)
  <2>1. fr \in WireFrames BY DEF WireFrames
  <2> QED BY <1>1, <2>1, PayloadOfFacts
<1>3. PICK c \in Nat, d \in Nat : c = CarriedOf(t, wireAB) /\ d = CarriedOf(t, wireAB') /\ d = c - p
  BY <1>0, <1>1, <1>2, WireShrinksFor, StreamBounds
<1>4. Reaching(t) = 0 /\ Handed(t) = 0 BY <1>0, <1>1, ReaderParts
<1>5. OnWire(t) = c BY <1>3, <1>4, OnWireIs
<1>6. ~TakeFail(fr) BY <1>0 DEF TakeFail, Fail
<1>7. CASE TakeLate(fr)
  <2>1. UNCHANGED <<reader, fault, strR, rx>> BY <1>7 DEF TakeLate
  <2>2. (HeldOf(t))' = HeldOf(t) /\ Told' = Told BY <2>1 DEF HeldOf, Handed, InReader, Buffered, Told
  <2>3. (Reaching(t))' = 0 BY <1>4, <2>1 DEF Reaching, InReader
  <2>4. (OnWire(t))' = d
    <3>1. (OnWire(t))' = d + (Reaching(t))' BY <1>3, OnWireIs
    <3> QED BY <2>3, <3>1
  <2>5. PICK w \in Nat, u \in Nat : /\ w = wired[t] /\ u = strR[<<t, 1>>].used /\ w <= MaxBytes /\ MaxBytes \in Nat
    BY StreamBounds
  <2>6. LostOf(t) = w - c - u /\ (LostOf(t))' = w - d - u BY <1>5, <2>1, <2>4, <2>5 DEF LostOf
  <2>7. p <= w
    <3>1. CASE fr.id = t
      <4>1. /\ fr = wireAB[1] /\ 1 \in 1 .. Len(wireAB) BY <1>0, <1>1, SeqTail DEF Types, WireTypes
      <4>2. IsData(fr) BY DEF IsData, StreamFrames
      <4>3. fr.off + fr.len <= wired[t] /\ fr.off \in Nat BY <3>1, <4>1, <4>2, FrameFields DEF WirePart, OrderInv
      <4> QED BY <1>2, <2>5, <3>1, <4>3
    <3>2. CASE fr.id # t BY <1>2, <2>5, <3>2
    <3> QED BY <3>1, <3>2
  <2>8. /\ p \in 0 .. MaxBytes /\ p <= OnWire(t) /\ (OnWire(t))' = OnWire(t) - p
        /\ (LostOf(t))' = LostOf(t) + p BY <1>3, <1>5, <2>4, <2>5, <2>6, <2>7
  <2> QED BY <2>1, <2>2, <2>8, StreamIgnores
<1>8. CASE Take(fr)
  <2>1. UNCHANGED <<strR, rx>> /\ reader' = [Idle EXCEPT !.pc = "stream", !.frame = fr] BY <1>8 DEF Take
  <2>2. reader'.pc = "stream" /\ reader'.frame = fr BY <2>1 DEF Idle
  <2>3. (Reaching(t))' = p /\ (Handed(t))' = 0 BY <1>2, <2>2, ReaderPartsAfter
  <2>4. (OnWire(t))' = d + p BY <1>3, <2>3, OnWireIs
  <2>5. (OnWire(t))' = OnWire(t) BY <1>3, <1>5, <2>4
  <2>6. (Buffered(<<t, 1>>))' = Buffered(<<t, 1>>) BY <2>1 DEF Buffered
  <2>7. (HeldOf(t))' = HeldOf(t) /\ HeldOf(t) \in Nat BY <1>4, <2>3, <2>6, StreamBounds, HeldOfAfter DEF HeldOf
  <2>8. (HeldOf(t))' <= HeldOf(t) BY <2>7
  <2> QED BY <1>0, <2>1, <2>5, <2>8, StreamShrinks
<1> QED BY <1>1, <1>6, <1>7, <1>8

\* A step of the reader on a frame that is not of t's is at most a drop of
\* bytes held.
LEMMA OtherFrames ==
  ASSUME StreamLedger, Types', NEW t \in Streams, UNCHANGED <<wireAB, strS, queue, wired>>,
         reader.frame.id # t \/ reader.pc \notin StreamPcs, reader'.pc \notin StreamPcs \/ reader'.frame.id # t,
         strR'[<<t, 1>>] = strR[<<t, 1>>], (Buffered(<<t, 1>>))' <= Buffered(<<t, 1>>), fault' # "flow"
  PROVE  StreamStep(t)
<1>0. Types BY StreamBounds
<1>1. Reaching(t) = 0 /\ Handed(t) = 0 /\ (Reaching(t))' = 0 /\ (Handed(t))' = 0
  BY <1>0, ReaderParts, ReaderPartsAfter DEF StreamPcs
<1>2. (OnWire(t))' = OnWire(t) BY <1>1, OnWireIs
<1>3. (HeldOf(t))' = (Buffered(<<t, 1>>))' + 0 /\ HeldOf(t) = Buffered(<<t, 1>>) + 0 BY <1>1, HeldOfAfter DEF HeldOf
<1>4. Buffered(<<t, 1>>) \in Nat /\ (Buffered(<<t, 1>>))' \in Nat BY StreamBounds, HeldOfAfter
<1>5. (HeldOf(t))' <= HeldOf(t) BY <1>3, <1>4
<1> QED BY <1>2, <1>5, StreamShrinks

\* The frame being routed is within the bounds of its stream's window.
LEMMA RouteBounds ==
  ASSUME StreamLedger, NEW t \in Streams, reader.pc = "stream", reader.frame.id = t
  PROVE  /\ reader.frame.len \in 0 .. MaxBytes /\ reader.frame.len <= StreamWindow
         /\ Reaching(t) = reader.frame.len /\ Handed(t) = 0 /\ OnWire(t) = CarriedOf(t, wireAB) + reader.frame.len
<1> USE DEF StreamLedger, Books, Core
<1>1. Types /\ InFlight(t) BY DEF InFlight
<1>2. reader.frame.len \in Nat BY <1>1, ReaderFields, FrameFields DEF Types, StreamPcs
<1>3. reader.frame.len <= arrived[t] BY <1>1 DEF FlightInv
<1>4. arrived[t] \in Nat /\ wired[t] \in Nat /\ MaxBytes \in Nat /\ arrived[t] <= wired[t] /\ wired[t] <= MaxBytes
  BY StreamBounds
<1>5. reader.frame.len \in 0 .. MaxBytes BY <1>2, <1>3, <1>4
<1>6. fronts[t] <= 1 BY StreamBounds
<1>7. reader.frame.len <= StreamWindow BY <1>1, <1>6 DEF LenInv
<1>8. Reaching(t) = reader.frame.len /\ Handed(t) = 0 BY <1>1, ReaderParts
<1>9. OnWire(t) = CarriedOf(t, wireAB) + reader.frame.len BY <1>8, OnWireIs
<1> QED BY <1>5, <1>7, <1>8, <1>9

\* Routing a frame to a live stream accounts for it in the window.
LEMMA StreamRoutesLive ==
  ASSUME StreamLedger, Types', NEW t \in Streams, UNCHANGED <<strS, queue, wired, wireAB, fault>>,
         reader.pc = "stream", NEW fr \in StreamFrames, fr = reader.frame, fr.id = t, <<t, recvMap[t]>> \in Fronts,
         RouteLive(t, <<t, recvMap[t]>>, fr)
  PROVE  StreamStep(t)
<1> USE DEF StreamLedger, Books, Core
<1>0. Types BY StreamBounds
<1>1. recvMap[t] = 1
  <2>1. recvMap[t] # 0 /\ recvMap[t] \in {0, fronts[t]} /\ fronts[t] <= 1 /\ fronts[t] \in Nat
    BY OneFront DEF RouteLive, MapInv, FrontInv
  <2> QED BY <2>1
<1>2. PICK f \in Fronts : f = <<t, 1>> /\ f = <<t, recvMap[t]>> BY <1>1
<1>3. /\ MayReceive(strR[f], fr.len) /\ strR' = [strR EXCEPT ![f] = Receive(@, fr.len)]
      /\ rx' = (IF fr.len = 0 /\ ~fr.fin THEN rx ELSE Deliver(f, fr)) /\ reader' = Idle BY <1>2 DEF RouteLive
<1>4. PICK n \in 0 .. MaxBytes : n = fr.len BY RouteBounds
<1>5. strR[f] \in CreditState /\ strR'[f] = Receive(strR[f], n) BY <1>0, <1>3, <1>4, CreditNats DEF Types, CreditTypes
<1>6. PICK w \in Nat, u \in Nat, c \in Nat : /\ w = wired[t] /\ u = strR[f].used /\ c = CarriedOf(t, wireAB)
                                             /\ MaxBytes \in Nat BY <1>2, StreamBounds
<1>7. n \in Nat BY <1>4, <1>6
<1>8. strR'[f].used = u + n BY <1>5, <1>6, <1>7, ReceiveFields
<1>9. (Reaching(t))' = 0 /\ (Handed(t))' = 0 BY <1>3, ReaderPartsAfter DEF Idle
<1>10. OnWire(t) = c + n /\ Handed(t) = 0 BY <1>4, <1>6, RouteBounds
<1>11. (OnWire(t))' = c + 0
  <2>1. (OnWire(t))' = CarriedOf(t, wireAB') + (Reaching(t))' BY OnWireIs
  <2> QED BY <1>6, <1>9, <2>1
<1>12. LostOf(t) = w - (c + n) - u /\ (LostOf(t))' = w - (c + 0) - (u + n) BY <1>2, <1>6, <1>8, <1>10, <1>11 DEF LostOf
<1>13. (LostOf(t))' = LostOf(t) /\ (OnWire(t))' = OnWire(t) - n /\ n <= OnWire(t) BY <1>6, <1>7, <1>10, <1>11, <1>12
<1>14. PICK b \in Nat, k \in {0, n} : b = Buffered(f) /\ (Buffered(f))' = b + k
  <2>1. (Buffered(f))' \in {Buffered(f), Buffered(f) + n} BY <1>0, <1>3, <1>4, HandsAllOrNone
  <2>2. Buffered(f) \in Nat BY <1>0, BufferedIsNat
  <2>3. PICK b \in Nat : b = Buffered(f) BY <2>2
  <2>4. (Buffered(f))' = b + 0 \/ (Buffered(f))' = b + n BY <2>1, <2>3
  <2> QED BY <2>3, <2>4
<1>15. k \in Nat BY <1>7, <1>14
<1>16. HeldOf(t) = b + 0 /\ (HeldOf(t))' = (b + k) + 0 BY <1>2, <1>9, <1>10, <1>14, HeldOfAfter DEF HeldOf
<1>17. (HeldOf(t))' = HeldOf(t) + k BY <1>14, <1>15, <1>16
<1>18. MayReceive(strR[f], n) /\ Told' = Told BY <1>3, <1>4 DEF Told
<1> QED BY <1>2, <1>4, <1>5, <1>13, <1>14, <1>17, <1>18, StreamArrives

\* Routing the first frame of a stream accounts for it in a fresh window.
LEMMA StreamRoutesNew ==
  ASSUME StreamLedger, Types', NoResurrection', NEW t \in Streams, UNCHANGED <<strS, queue, wired, wireAB, fault>>,
         reader.pc = "stream", NEW fr \in StreamFrames, fr = reader.frame, fr.id = t, RouteNew(t, fr)
  PROVE  StreamStep(t)
<1> USE DEF StreamLedger, Books, Core
<1>0. Types /\ <<t, 1>> \in Fronts BY StreamBounds
<1>1. fronts[t] = 0
  <2>1. fronts[t] \in Nat /\ fronts'[t] = fronts[t] + 1 BY <1>0, OneFront DEF RouteNew, Types, ReaderTypes
  <2>2. t \in Uni /\ fronts'[t] <= 1 BY DEF RouteNew, NoResurrection
  <2> QED BY <2>1, <2>2
<1>2. PICK f \in Fronts : f = <<t, 1>> /\ f[1] = t /\ f[2] = 1 BY <1>0
<1>3. strR[f] = NewCredit(StreamWindow) BY <1>1, <1>2 DEF MapInv, FreshInv
<1>4. PICK n \in 0 .. MaxBytes : n = fr.len /\ n <= StreamWindow BY RouteBounds
<1>5. PICK w \in Nat, c \in Nat : w = wired[t] /\ c = CarriedOf(t, wireAB) /\ MaxBytes \in Nat BY StreamBounds
<1>6. n \in Nat BY <1>4, <1>5
<1>7. strR' = [strR EXCEPT ![<<t, fronts[t] + 1>>] = Receive(NewCredit(StreamWindow), fr.len)] BY DEF RouteNew
<1>8. <<t, fronts[t] + 1>> = f BY <1>1, <1>2
<1>9. strR[f] \in CreditState /\ strR'[f] = Receive(strR[f], n)
  BY <1>0, <1>3, <1>4, <1>7, <1>8, CreditNats DEF Types, CreditTypes
<1>10. strR[f].used = 0 /\ MayReceive(strR[f], n) BY <1>3, <1>4, <1>6, SizesAreNatural DEF NewCredit, MayReceive
<1>11. strR'[f].used = 0 + n BY <1>6, <1>9, <1>10, ReceiveFields
<1>12. rx' = rx /\ reader' = [reader EXCEPT !.pc = "accept"] BY DEF RouteNew
<1>13. reader'.pc = "accept" /\ reader'.frame = reader.frame BY <1>0, <1>12, ReaderAt DEF Types, StreamPcs
<1>14. (Reaching(t))' = 0 /\ (Handed(t))' = n BY <1>4, <1>13, ReaderPartsAfter
<1>15. OnWire(t) = c + n /\ Handed(t) = 0 BY <1>4, <1>5, RouteBounds
<1>16. (OnWire(t))' = c + 0
  <2>1. (OnWire(t))' = CarriedOf(t, wireAB') + (Reaching(t))' BY OnWireIs
  <2> QED BY <1>5, <1>14, <2>1
<1>17. LostOf(t) = w - (c + n) - 0 /\ (LostOf(t))' = w - (c + 0) - (0 + n)
  BY <1>2, <1>5, <1>10, <1>11, <1>15, <1>16 DEF LostOf
<1>18. (LostOf(t))' = LostOf(t) /\ (OnWire(t))' = OnWire(t) - n /\ n <= OnWire(t) BY <1>5, <1>6, <1>15, <1>16, <1>17
<1>19. PICK b \in Nat : b = Buffered(f) /\ (Buffered(f))' = b BY <1>0, <1>12, BufferedIsNat DEF Buffered
<1>20. HeldOf(t) = b + 0 /\ (HeldOf(t))' = b + n BY <1>2, <1>14, <1>15, <1>19, HeldOfAfter DEF HeldOf
<1>21. (HeldOf(t))' = HeldOf(t) + n BY <1>6, <1>19, <1>20
<1>22. n \in {0, n} /\ Told' = Told BY DEF Told
<1> QED BY <1>2, <1>4, <1>9, <1>10, <1>18, <1>21, <1>22, StreamArrives

\* A frame of a retired stream of the receiver's own is lost.
LEMMA StreamRoutesOwn ==
  ASSUME StreamLedger, Types', NEW t \in Streams, UNCHANGED <<strS, queue, wired, wireAB, fault>>,
         reader.pc = "stream", reader.frame.id = t, RouteOwn(t)
  PROVE  StreamStep(t)
<1>1. UNCHANGED <<strR, rx>> /\ reader' = Idle BY DEF RouteOwn
<1>2. PICK n \in 0 .. MaxBytes : n = reader.frame.len BY RouteBounds
<1>3. PICK w \in Nat, u \in Nat, c \in Nat : /\ w = wired[t] /\ u = strR[<<t, 1>>].used /\ c = CarriedOf(t, wireAB)
                                             /\ MaxBytes \in Nat BY StreamBounds
<1>4. n \in Nat BY <1>2, <1>3
<1>5. (Reaching(t))' = 0 /\ (Handed(t))' = 0 BY <1>1, ReaderPartsAfter DEF Idle
<1>6. OnWire(t) = c + n /\ Handed(t) = 0 BY <1>2, <1>3, RouteBounds
<1>7. (OnWire(t))' = c + 0
  <2>1. (OnWire(t))' = CarriedOf(t, wireAB') + (Reaching(t))' BY OnWireIs
  <2> QED BY <1>3, <1>5, <2>1
<1>8. LostOf(t) = w - (c + n) - u /\ (LostOf(t))' = w - (c + 0) - u BY <1>1, <1>3, <1>6, <1>7 DEF LostOf
<1>9. (LostOf(t))' = LostOf(t) + n /\ (OnWire(t))' = OnWire(t) - n /\ n <= OnWire(t) BY <1>3, <1>4, <1>6, <1>7, <1>8
<1>10. (HeldOf(t))' = HeldOf(t)
  <2>1. (Buffered(<<t, 1>>))' = Buffered(<<t, 1>>) BY <1>1 DEF Buffered
  <2> QED BY <1>5, <1>6, <2>1, HeldOfAfter DEF HeldOf
<1> QED BY <1>1, <1>2, <1>9, <1>10, StreamIgnores DEF Told

\* Routing a STREAM frame is a step of every stream's window.
LEMMA StreamRoutes ==
  ASSUME StreamLedger, Types', NoResurrection', RouteStream, UNCHANGED <<strS, queue, wired>>, NEW t \in Streams
  PROVE  StreamStep(t)
<1> USE DEF StreamLedger, Books, Core
<1>0. fault' = fault /\ fault = "none" /\ wireAB' = wireAB /\ Types /\ <<t, 1>> \in Fronts
  BY RoutedInBalance, StreamBounds DEF Running
<1>1. PICK fr \in StreamFrames, s \in Streams :
        /\ fr = reader.frame /\ s = reader.frame.id /\ reader.pc = "stream" /\ fr.len \in Nat
        /\ recvMap[s] # 0 => <<s, recvMap[s]>> \in Fronts
        /\ \/ RouteLive(s, <<s, recvMap[s]>>, fr) \/ RouteOwn(s) \/ RouteFail(s, <<s, recvMap[s]>>, fr)
           \/ RouteNew(s, fr) BY RouteCases
<1>2. ~RouteFail(s, <<s, recvMap[s]>>, fr) BY <1>0 DEF RouteFail, Fail
<1>3. CASE s = t
  <2>1. CASE RouteLive(s, <<s, recvMap[s]>>, fr)
    <3>1. <<t, recvMap[t]>> \in Fronts BY <1>1, <1>3, <2>1 DEF RouteLive
    <3> QED BY <1>0, <1>1, <1>3, <2>1, <3>1, StreamRoutesLive
  <2>2. CASE RouteOwn(s) BY <1>0, <1>1, <1>3, <2>2, StreamRoutesOwn
  <2>3. CASE RouteNew(s, fr) BY <1>0, <1>1, <1>3, <2>3, StreamRoutesNew
  <2> QED BY <1>1, <1>2, <2>1, <2>2, <2>3
<1>4. CASE s # t
  <2>1. PICK g \in Fronts : g = <<t, 1>> BY <1>0
  <2>2. reader'.pc \notin StreamPcs \/ reader'.frame.id # t
    <3>1. CASE reader' = Idle BY <3>1 DEF Idle, StreamPcs
    <3>2. CASE reader' = [reader EXCEPT !.pc = "accept"]
      <4>1. reader'.frame = reader.frame BY <1>0, <3>2, ReaderAt DEF Types, StreamPcs
      <4> QED BY <1>1, <1>4, <4>1
    <3> QED BY <1>1, <1>2, <3>1, <3>2 DEF RouteLive, RouteOwn, RouteNew
  <2>3. strR'[g] = strR[g] /\ rx'[g] = rx[g]
    <3>1. CASE RouteLive(s, <<s, recvMap[s]>>, fr)
      <4>1. PICK f \in Fronts : f = <<s, recvMap[s]>> /\ f # g BY <1>1, <1>4, <2>1, <3>1 DEF RouteLive
      <4>2. /\ strR' = [strR EXCEPT ![f] = Receive(@, fr.len)]
            /\ rx' = IF fr.len = 0 /\ ~fr.fin THEN rx ELSE Deliver(f, fr) BY <3>1, <4>1 DEF RouteLive
      <4>3. rx'[g] = rx[g] BY <1>0, <4>1, <4>2, HandsBytes
      <4> QED BY <1>0, <4>1, <4>2, <4>3 DEF Types, CreditTypes
    <3>2. CASE RouteOwn(s) BY <3>2 DEF RouteOwn
    <3>3. CASE RouteNew(s, fr)
      <4>1. <<s, fronts[s] + 1>> # g BY <1>4, <2>1
      <4>2. strR' = [strR EXCEPT ![<<s, fronts[s] + 1>>] = Receive(NewCredit(StreamWindow), fr.len)] /\ rx' = rx
        BY <3>3 DEF RouteNew
      <4> QED BY <1>0, <4>1, <4>2 DEF Types, CreditTypes
    <3> QED BY <1>1, <1>2, <3>1, <3>2, <3>3
  <2>4. (Buffered(g))' = Buffered(g) /\ Buffered(g) \in Nat BY <1>0, <2>3, BufferedSame, BufferedIsNat
  <2>5. (Buffered(g))' <= Buffered(g) BY <2>4
  <2> QED BY <1>0, <1>1, <1>4, <2>1, <2>2, <2>3, <2>5, OtherFrames
<1> QED BY <1>3, <1>4

\* Offering a stream is a step of every stream's window.
LEMMA StreamOffers ==
  ASSUME StreamLedger, Types', OfferStream, UNCHANGED <<strS, queue, wired>>, NEW t \in Streams
  PROVE  StreamStep(t)
<1> USE DEF StreamLedger, Books, Core
<1>0. Types /\ <<t, 1>> \in Fronts BY StreamBounds
<1>1. /\ UNCHANGED <<fault, strR, wireAB>> /\ fault = "none" /\ reader.pc = "accept"
      /\ reader' = [reader EXCEPT !.pc = "insert"] BY DEF OfferStream, creditVars, Running
<1>2. PICK f \in Fronts : rx' = [rx EXCEPT ![f].st = "queued"]
  <2>1. reader.frame.id \in Streams /\ fronts[reader.frame.id] \in 1 .. MaxFronts
    <3>1. reader.frame.id \in Streams /\ fronts[reader.frame.id] > 0
      BY <1>1, ReaderFields DEF Types, ReaderTypes, StreamPcs, ReaderMapInv
    <3>2. fronts[reader.frame.id] \in 0 .. MaxFronts BY <3>1 DEF Types, ReaderTypes
    <3> QED BY <3>1, <3>2, FrontBound
  <2> QED BY <2>1, FrontOf DEF OfferStream
<1>3. (Buffered(<<t, 1>>))' = Buffered(<<t, 1>>)
  <2>1. PICK g \in Fronts : g = <<t, 1>> BY <1>0
  <2>2. rx'[g].buf = rx[g].buf /\ rx'[g].data = rx[g].data BY <1>0, <1>2, RxMoves DEF Types
  <2> QED BY <2>1, <2>2, BufferedSame
<1>4. reader'.pc = "insert" /\ reader'.frame = reader.frame BY <1>0, <1>1, ReaderAt DEF Types, StreamPcs
<1>5. Reaching(t) = 0 /\ (Reaching(t))' = 0 /\ (Handed(t))' = Handed(t)
  BY <1>0, <1>1, <1>4, ReaderParts, ReaderPartsAfter
<1>6. (OnWire(t))' = OnWire(t) BY <1>1, <1>5, OnWireIs
<1>7. (HeldOf(t))' = HeldOf(t) /\ HeldOf(t) \in Nat BY <1>3, <1>5, StreamBounds, HeldOfAfter DEF HeldOf
<1>8. (HeldOf(t))' <= HeldOf(t) BY <1>7
<1> QED BY <1>1, <1>6, <1>8, StreamShrinks

\* Entering a stream in the map is a step of every stream's window.
LEMMA StreamInserts ==
  ASSUME StreamLedger, Types', InsertStream, UNCHANGED <<strS, queue, wired>>, NEW t \in Streams
  PROVE  StreamStep(t)
<1> USE DEF StreamLedger, Books, Core
<1>0. Types /\ <<t, 1>> \in Fronts BY StreamBounds
<1>1. PICK f \in Fronts, fr \in StreamFrames :
        /\ fr = reader.frame /\ reader.pc = "insert" /\ reader' = Idle /\ fr.len \in Nat
        /\ rx' = IF fr.len = 0 /\ ~fr.fin THEN rx ELSE Deliver(f, fr)
        /\ f[1] = fr.id /\ UNCHANGED <<fault, strR, wireAB>> BY InsertCases
<1>2. reader'.pc \notin StreamPcs BY <1>1 DEF Idle, StreamPcs
<1>3. PICK g \in Fronts : g = <<t, 1>> /\ g[1] = t BY <1>0
<1>4. CASE fr.id # t
  <2>1. g # f BY <1>1, <1>3, <1>4
  <2>2. (Buffered(g))' = Buffered(g) /\ Buffered(g) \in Nat BY <1>0, <1>1, <2>1, HandsBytes, BufferedSame, BufferedIsNat
  <2>3. (Buffered(g))' <= Buffered(g) BY <2>2
  <2> QED BY <1>1, <1>2, <1>3, <1>4, <2>3, OtherFrames DEF Running
<1>5. CASE fr.id = t
  <2>1. PICK n \in Nat : n = fr.len /\ Handed(t) = n /\ Reaching(t) = 0 BY <1>0, <1>1, <1>5, ReaderParts
  <2>2. (Reaching(t))' = 0 /\ (Handed(t))' = 0 BY <1>2, ReaderPartsAfter DEF StreamPcs
  <2>3. (OnWire(t))' = OnWire(t) BY <1>1, <2>1, <2>2, OnWireIs
  <2>4. PICK b \in Nat, c \in Nat : b = Buffered(g) /\ c = (Buffered(g))' /\ c <= b + n
    <3>1. PICK b \in Nat, c \in Nat : b = Buffered(g) /\ c = (Buffered(g))' BY <1>0, <1>3, BufferedIsNat, HeldOfAfter
    <3>2. CASE f = g BY <1>0, <1>1, <2>1, <3>1, <3>2, HandsBytes
    <3>3. CASE f # g
      <4>1. rx'[g] = rx[g] BY <1>0, <1>1, <3>3, HandsBytes
      <4>2. c = b BY <3>1, <4>1, BufferedSame
      <4>3. c <= b + n BY <4>2
      <4> QED BY <3>1, <4>3
    <3> QED BY <3>2, <3>3
  <2>5. HeldOf(t) = b + n /\ (HeldOf(t))' = c + 0 BY <1>3, <2>1, <2>2, <2>4, HeldOfAfter DEF HeldOf
  <2>6. (HeldOf(t))' <= HeldOf(t) BY <2>4, <2>5
  <2> QED BY <1>1, <2>3, <2>6, StreamShrinks DEF Running
<1> QED BY <1>4, <1>5

\* A step of the reader on a reset is a step of every stream's window.
LEMMA ReaderResets ==
  ASSUME StreamLedger, Types', NEW t \in Streams, UNCHANGED <<strS, queue, wired, wireAB>>,
         reader.pc \notin StreamPcs, reader'.pc \notin StreamPcs, strR'[<<t, 1>>] = strR[<<t, 1>>],
         \A g \in Fronts : rx'[g].buf = rx[g].buf /\ rx'[g].data = rx[g].data, fault' # "flow"
  PROVE  StreamStep(t)
<1>1. <<t, 1>> \in Fronts /\ Types BY StreamBounds
<1>2. (Buffered(<<t, 1>>))' = Buffered(<<t, 1>>) /\ Buffered(<<t, 1>>) \in Nat BY <1>1, BufferedSame, BufferedIsNat
<1>3. (Buffered(<<t, 1>>))' <= Buffered(<<t, 1>>) BY <1>2
<1> QED BY <1>3, OtherFrames

\* Taking a reset off the transport is a step of every stream's window.
LEMMA StreamResets ==
  ASSUME StreamLedger, Types', RecvReset, UNCHANGED <<strS, queue, wired>>, NEW t \in Streams
  PROVE  StreamStep(t)
<1> USE DEF StreamLedger, Books, Core
<1>0. Types /\ fault' = fault /\ fault = "none" BY ResetInBalance DEF Running
<1>1. PICK fr \in ResetFrames : /\ fr = Head(wireAB) /\ wireAB # <<>> /\ wireAB' = Tail(wireAB) /\ reader.pc = "idle"
                                /\ \/ ResetLate(fr.id) \/ ResetFail(fr.id)
                                   \/ \E live \in BOOLEAN : ResetTake(fr, live) BY RecvResetCases
<1>2. rx' = rx /\ strR' = strR /\ reader'.pc \notin StreamPcs
  <2>1. CASE ResetLate(fr.id) BY <1>1, <2>1 DEF ResetLate, StreamPcs
  <2>2. CASE ResetFail(fr.id) BY <2>2, ReaderShapes DEF ResetFail, Fail, creditVars, StreamPcs
  <2>3. ASSUME NEW live \in BOOLEAN, ResetTake(fr, live)
        PROVE  rx' = rx /\ strR' = strR /\ reader'.pc \notin StreamPcs BY <2>3, ReaderShapes DEF ResetTake, StreamPcs
  <2> QED BY <1>1, <2>1, <2>2, <2>3
<1>3. PayloadOf(t, fr) = 0 BY PayloadOfFacts DEF WireFrames
<1>4. PICK c \in Nat : c = CarriedOf(t, wireAB) /\ CarriedOf(t, wireAB') = c - 0
  BY <1>0, <1>1, <1>3, WireShrinksFor, StreamBounds
<1>5. Reaching(t) = 0 /\ Handed(t) = 0 /\ (Reaching(t))' = 0 /\ (Handed(t))' = 0
  BY <1>0, <1>1, <1>2, ReaderParts, ReaderPartsAfter DEF StreamPcs
<1>6. OnWire(t) = c + 0 BY <1>4, <1>5, OnWireIs
<1>7. (OnWire(t))' = (c - 0) + 0
  <2>1. (OnWire(t))' = CarriedOf(t, wireAB') + (Reaching(t))' BY OnWireIs
  <2> QED BY <1>4, <1>5, <2>1
<1>8. (OnWire(t))' = OnWire(t) BY <1>4, <1>6, <1>7
<1>9. (HeldOf(t))' = HeldOf(t) /\ HeldOf(t) \in Nat
  <2>1. (Buffered(<<t, 1>>))' = Buffered(<<t, 1>>) BY <1>2 DEF Buffered
  <2> QED BY <1>5, <2>1, StreamBounds, HeldOfAfter DEF HeldOf
<1>10. (HeldOf(t))' <= HeldOf(t) BY <1>9
<1> QED BY <1>0, <1>2, <1>8, <1>10, StreamShrinks

\* Accounting for a reset is a step of every stream's window: no byte of the
\* stream is missing when its reset comes.
LEMMA StreamAccounts ==
  ASSUME StreamLedger, Types', AccountReset, UNCHANGED <<strS, queue, wired>>, NEW t \in Streams
  PROVE  StreamStep(t)
<1> USE DEF StreamLedger, Books, Core
<1>0. fault' \notin {"flow", "limit"} /\ wireAB' = wireAB /\ Types BY AccountInBalance
<1>1. PICK s \in Streams, n \in Nat :
        /\ s = reader.frame.id /\ n = reader.frame.final /\ reader.pc = "reset"
        /\ \/ reader.live /\ recvMap[s] = 0 /\ Fail("panic")
           \/ AccountFlow(s, n) \/ Account(s, n) BY AccountCases
<1>2. CASE Fail("panic")
  <2>1. reader'.pc \notin StreamPcs /\ rx' = rx /\ strR' = strR BY <1>2, ReaderShapes DEF Fail, creditVars, StreamPcs
  <2> QED BY <1>0, <1>1, <2>1, ReaderResets DEF StreamPcs
<1>3. ~AccountFlow(s, n) BY <1>0 DEF AccountFlow, Fail
<1>4. CASE Account(s, n)
  <2>1. Gap(s, n) = 0 /\ (reader.live => recvMap[s] = 1) BY <1>1, <1>4, AccountNothing DEF Account
  <2>2. /\ rx' = rx
        /\ \E pc \in {"grant", "retire"} : reader' = [reader EXCEPT !.max = connR'.max, !.pc = pc]
        /\ strR' = IF reader.live THEN [strR EXCEPT ![<<s, recvMap[s]>>] = Receive(@, 0)] ELSE strR
    BY <1>4, <2>1 DEF Account
  <2>3. reader'.pc \in {"grant", "retire"}
    <3>1. connR'.max \in Nat BY PrimedNats
    <3> QED BY <1>0, <2>2, <3>1, ReaderAt DEF Types, ResetPcs
  <2>4. strR'[<<t, 1>>] = strR[<<t, 1>>]
    <3>1. <<t, 1>> \in Fronts /\ strR[<<t, 1>>] \in CreditState /\ strR[<<t, 1>>].used \in Nat BY StreamBounds
    <3>2. Receive(strR[<<t, 1>>], 0) = strR[<<t, 1>>] BY <3>1 DEF Receive, CreditState
    <3>3. strR'[<<t, 1>>] \in {strR[<<t, 1>>], Receive(strR[<<t, 1>>], 0)} BY <1>0, <2>2, <3>1 DEF Types, CreditTypes
    <3> QED BY <3>2, <3>3
  <2> QED BY <1>0, <1>1, <2>2, <2>3, <2>4, ReaderResets DEF StreamPcs
<1> QED BY <1>1, <1>2, <1>3, <1>4

\* Queueing a limit is a step of every stream's window.
LEMMA StreamGrants ==
  ASSUME StreamLedger, Types', ReaderGrant, UNCHANGED <<strS, queue, wired>>, NEW t \in Streams
  PROVE  StreamStep(t)
<1>0. Types BY StreamBounds
<1>1. /\ UNCHANGED <<fault, strR, wireAB, rx>> /\ reader.pc \in {"grant", "limit"}
      /\ reader'.pc \in {"retire", "idle"} BY <1>0, GrantCases
<1> QED BY <1>1, ReaderResets DEF StreamPcs, StreamLedger, Running

\* Retiring a stream is a step of every stream's window.
LEMMA StreamRetires ==
  ASSUME StreamLedger, Types', RetireReset, UNCHANGED <<strS, queue, wired>>, NEW t \in Streams
  PROVE  StreamStep(t)
<1>0. Types BY StreamBounds
<1>1. PICK s \in Streams : /\ s = reader.frame.id /\ reader.pc = "retire"
                           /\ recvMap[s] # 0 => <<s, recvMap[s]>> \in Fronts
                           /\ UNCHANGED <<fault, strR, wireAB>>
                           /\ RetireLive(s) \/ RetireOwn(s) \/ RetireUnseen(s) BY <1>0, RetireCases
<1>2. reader'.pc \in {"idle", "limit"}
  <2>1. CASE RetireLive(s) \/ RetireOwn(s) BY <2>1, ReaderShapes DEF RetireLive, RetireOwn
  <2>2. CASE RetireUnseen(s)
    <3>1. limR'.max \in Nat BY PrimedNats
    <3>2. "limit" \in ResetPcs /\ ReaderTypes BY <1>0 DEF ResetPcs, Types
    <3>3. reader' = Idle \/ reader' = [reader EXCEPT !.pc = "limit", !.max = limR'.max] BY <2>2 DEF RetireUnseen
    <3>4. CASE reader' = Idle BY <3>4 DEF Idle
    <3>5. CASE reader' = [reader EXCEPT !.pc = "limit", !.max = limR'.max]
      <4>1. PICK m \in Nat : m = limR'.max BY <3>1
      <4>2. [reader EXCEPT !.pc = "limit", !.max = m].pc = "limit" BY <3>2, ReaderAt
      <4> QED BY <3>5, <4>1, <4>2
    <3> QED BY <3>3, <3>4, <3>5
  <2> QED BY <1>1, <2>1, <2>2
<1>3. \A g \in Fronts : rx'[g].buf = rx[g].buf /\ rx'[g].data = rx[g].data
  <2>1. CASE RetireLive(s)
    <3>1. PICK f \in Fronts : f = <<s, recvMap[s]>> BY <1>1, <2>1 DEF RetireLive
    <3>2. rx' = rx \/ rx' = [rx EXCEPT ![f].reset = TRUE] BY <2>1, <3>1 DEF RetireLive
    <3> QED BY <1>0, <3>2, RxResets DEF Types
  <2>2. CASE RetireOwn(s) \/ RetireUnseen(s) BY <2>2 DEF RetireOwn, RetireUnseen
  <2> QED BY <1>1, <2>1, <2>2
<1> QED BY <1>1, <1>2, <1>3, ReaderResets DEF StreamPcs, StreamLedger, Running

\* A step of the reader is a step of every stream's window.
LEMMA StreamReader ==
  ASSUME StreamLedger, Types', NoResurrection', ReceiverReader, NEW t \in Streams
  PROVE  StreamStep(t)
<1>1. UNCHANGED <<strS, queue, wired>> BY DEF ReceiverReader, senderVars
<1> QED BY <1>1, StreamTakes, StreamRoutes, StreamOffers, StreamInserts, StreamResets, StreamAccounts,
           StreamGrants, StreamRetires DEF ReceiverReader

----------------------------------------------------------------------------
(* A stream: reads, and every step                                        *)

\* A read from t is a step of its window.
LEMMA StreamReadsSome ==
  ASSUME StreamLedger, Types', NEW t \in Streams, NEW max \in 1 .. Chunk, Read(<<t, 1>>, max), ReceiverApp(<<t, 1>>)
  PROVE  StreamStep(t)
<1>0. Types /\ <<t, 1>> \in Fronts BY StreamBounds
<1>. PICK f \in Fronts : f = <<t, 1>> BY <1>0
<1>1. UNCHANGED <<strS, queue, wired, wireAB, fault, reader>> BY ReceiverAppFrame DEF AppFrame, senderVars
<1>2. PICK n \in Nat : n = Taken(f, max) /\ (n > 0 => strR' = [strR EXCEPT ![f] = Consume(@, n)]) /\ (n = 0 => strR' = strR)
  <2>1. Taken(f, max) \in Nat BY <1>0, ReadCases
  <2>2. PICK n \in Nat : n = Taken(f, max) BY <2>1
  <2>3. IF n > 0 THEN ReportConsumed(f, n) ELSE UNCHANGED <<strR, control, connR, pending>>
    BY <2>2 DEF Read, Taken, Source
  <2> QED BY <2>2, <2>3 DEF ReportConsumed
<1>3. (Buffered(f))' = Buffered(f) - n BY <1>0, <1>2, ReadTakes
<1>4. PICK b \in Nat, c \in Nat, h \in Nat : b = Buffered(f) /\ c = (Buffered(f))' /\ h = Handed(t)
  BY <1>0, BufferedIsNat, HeldOfAfter, ReaderParts
<1>5. (Handed(t))' = h BY <1>1, <1>4 DEF Handed, InReader
<1>6. HeldOf(t) = b + h /\ (HeldOf(t))' = c + h /\ c = b - n BY <1>3, <1>4, <1>5, HeldOfAfter DEF HeldOf
<1>7. (OnWire(t))' = OnWire(t) /\ Told' = Told BY <1>1 DEF OnWire, InReader, Told
<1>8. PICK k \in Nat : k = HeldOf(t) /\ k <= MaxBytes /\ MaxBytes \in Nat BY StreamBounds
<1>9. CASE n > 0
  <2>1. strR[f] \in CreditState /\ strR'[f] = Consume(strR[f], n) BY <1>0, <1>2, <1>9, CreditNats DEF Types, CreditTypes
  <2>2. strR'[f].used = strR[f].used
    <3>1. PICK d : d = Consume(strR[f], n) OBVIOUS
    <3>2. d.used = strR[f].used BY <2>1, <3>1, ConsumeFields, Zenon
    <3> QED BY <2>1, <3>1, <3>2
  <2>3. (LostOf(t))' = LostOf(t) BY <1>1, <1>7, <2>2 DEF LostOf
  <2>4. n \in 0 .. MaxBytes /\ n <= HeldOf(t) /\ (HeldOf(t))' = HeldOf(t) - n BY <1>4, <1>6, <1>8
  <2> QED BY <1>1, <1>7, <2>1, <2>3, <2>4, StreamReads
<1>10. CASE n = 0
  <2>1. (HeldOf(t))' = HeldOf(t) BY <1>4, <1>6, <1>10
  <2>2. strR' = strR /\ (LostOf(t))' = LostOf(t) BY <1>1, <1>2, <1>7, <1>10 DEF LostOf
  <2> QED BY <1>1, <1>7, <2>1, <2>2, StreamRests
<1> QED BY <1>9, <1>10

\* A step of the receiving application is a step of every stream's window.
LEMMA StreamReceiver ==
  ASSUME StreamLedger, Types', NEW f \in Fronts, ReceiverApp(f), NEW t \in Streams
  PROVE  StreamStep(t)
<1>0. Types /\ <<t, 1>> \in Fronts /\ StopInv BY StreamBounds DEF StreamLedger, Books, Core, MapInv
<1>1. UNCHANGED <<strS, queue, wired, wireAB, fault, reader>> /\ fault = "none"
  BY ReceiverAppFrame DEF AppFrame, senderVars, ReceiverApp, Running
<1>2. CASE f # <<t, 1>>
  <2>1. PICK g \in Fronts : g = <<t, 1>> /\ g # f BY <1>0, <1>2
  <2>2. rx'[g] = rx[g] /\ strR'[g] = strR[g] BY <1>0, <2>1, AppSteps DEF AppStep
  <2> QED BY <1>1, <2>1, <2>2, StreamQuiet
<1>3. CASE f = <<t, 1>>
  <2>1. ASSUME NEW n \in 1 .. Chunk, Read(f, n) PROVE StreamStep(t) BY <1>3, <2>1, StreamReadsSome
  <2>2. CASE ReadReset(f) \/ AwaitClosed(f) \/ Stop(f) \/ DropRecv(f) \/ SendPending(f)
    <3>1. (Buffered(f))' <= Buffered(f) /\ strR' = strR BY <1>0, <2>2, AppTakes
    <3>2. PICK b \in Nat, c \in Nat, h \in Nat : b = Buffered(f) /\ c = (Buffered(f))' /\ h = Handed(t)
      BY <1>0, <1>3, BufferedIsNat, HeldOfAfter, ReaderParts
    <3>3. (Handed(t))' = h BY <1>1, <3>2 DEF Handed, InReader
    <3>4. HeldOf(t) = b + h /\ (HeldOf(t))' = c + h /\ c <= b BY <1>3, <3>1, <3>2, <3>3, HeldOfAfter DEF HeldOf
    <3>5. (HeldOf(t))' <= HeldOf(t) BY <3>2, <3>4
    <3>6. (OnWire(t))' = OnWire(t) BY <1>1 DEF OnWire, InReader
    <3> QED BY <1>1, <3>1, <3>5, <3>6, StreamShrinks
  <2> QED BY <2>1, <2>2 DEF ReceiverApp
<1> QED BY <1>2, <1>3

\* Accepting a stream, sending a control frame and stuttering are stutters of
\* every stream's window.
LEMMA StreamIdle ==
  ASSUME Types, NEW t \in Streams, Accept \/ ReceiverWriter \/ UNCHANGED vars
  PROVE  StreamStep(t)
<1>0. <<t, 1>> \in Fronts BY StreamFacts
<1>1. UNCHANGED <<strS, queue, wired, wireAB, strR, fault, reader>>
  BY DEF Accept, AcceptUni, ReceiverWriter, TransmitControl, vars, senderVars, readerVars, creditVars
<1>2. \A g \in Fronts : rx'[g].buf = rx[g].buf /\ rx'[g].data = rx[g].data
  <2>1. CASE Accept
    <3>1. PICK f \in Fronts : rx' = [rx EXCEPT ![f].st = "held"]
      BY <2>1, SeqTail DEF Accept, AcceptUni, Types, ReaderTypes
    <3> QED BY <3>1, RxMoves DEF Types
  <2>2. CASE ReceiverWriter \/ UNCHANGED vars BY <2>2 DEF ReceiverWriter, TransmitControl, vars, appVars
  <2> QED BY <2>1, <2>2
<1> QED BY <1>0, <1>1, <1>2, StreamQuiet

\* Every step of a session in which no stream came to life twice is a step of
\* every stream's window.
LEMMA StreamSteps ==
  ASSUME Books, Balance, SpentInv, FlightInv, NoResurrection, Types', SpentInv', NoResurrection', [Next]_vars,
         NEW t \in Streams
  PROVE  StreamStep(t)
<1>0. Types BY DEF Books, Core
<1>1. CASE Accept \/ ReceiverWriter \/ UNCHANGED vars BY <1>0, <1>1, StreamIdle
<1>2. CASE Running
  <2>1. StreamLedger BY <1>2 DEF StreamLedger
  <2> QED BY <1>1, <2>1, StreamApp, StreamWriter, StreamControl, StreamReader, StreamReceiver DEF Next
<1>3. CASE ~Running BY <1>1, <1>3 DEF Next, SenderApp, SenderWriter, SenderReader, ReceiverReader, ReceiverApp
<1> QED BY <1>2, <1>3

\* Every step keeps FlightInv.
LEMMA NextFlight ==
  ASSUME Core, FlightInv, [Next]_vars
  PROVE  FlightInv'
<1>0. Types /\ ReaderMapInv BY DEF Core
<1>1. CASE UNCHANGED <<reader, arrived>> BY <1>1 DEF FlightInv, InFlight
<1>2. CASE reader'.pc # "stream" BY <1>2 DEF FlightInv, InFlight
<1>3. CASE ReceiverReader
  <2>1. CASE RecvStream
    <3>1. PICK fr \in StreamFrames :
            /\ fr.len \in Nat /\ reader.pc = "idle" /\ fr.id \in Streams
            /\ arrived' = [arrived EXCEPT ![fr.id] = @ + fr.len]
            /\ TakeLate(fr) \/ TakeFail(fr) \/ Take(fr) BY <1>0, <2>1, RecvStreamCases
    <3>2. CASE TakeLate(fr) BY <1>2, <3>1, <3>2 DEF TakeLate
    <3>3. CASE TakeFail(fr) BY <1>2, <3>3 DEF TakeFail, Fail, Idle
    <3>4. CASE Take(fr)
      <4>1. reader'.pc = "stream" /\ reader'.frame = fr BY <3>4 DEF Take, Idle
      <4>2. arrived[fr.id] \in Nat /\ arrived'[fr.id] = arrived[fr.id] + fr.len BY <1>0, <3>1 DEF Types, ReaderTypes
      <4>3. fr.len <= arrived'[fr.id] BY <3>1, <4>2
      <4> QED BY <4>1, <4>3 DEF FlightInv, InFlight
    <3> QED BY <3>1, <3>2, <3>3, <3>4
  <2>2. CASE RouteStream
    <3>1. reader' = Idle \/ reader' = [reader EXCEPT !.pc = "accept"] BY <2>2 DEF RouteStream, Fail
    <3>2. CASE reader' = Idle BY <1>2, <3>2 DEF Idle
    <3>3. CASE reader' = [reader EXCEPT !.pc = "accept"]
      <4>1. reader'.pc = "accept" BY <1>0, <3>3, ReaderAt DEF Types, StreamPcs
      <4> QED BY <1>2, <4>1
    <3> QED BY <3>1, <3>2, <3>3
  <2>3. CASE OfferStream
    <3>1. reader' = [reader EXCEPT !.pc = "insert"] BY <2>3 DEF OfferStream
    <3>2. reader'.pc = "insert" BY <1>0, <3>1, ReaderAt DEF Types, StreamPcs
    <3> QED BY <1>2, <3>2
  <2>4. CASE InsertStream BY <1>2, <2>4 DEF InsertStream, Idle
  <2>5. CASE RecvReset
    <3>1. PICK fr \in ResetFrames : /\ reader.pc = "idle"
                                    /\ \/ ResetLate(fr.id) \/ ResetFail(fr.id)
                                       \/ \E live \in BOOLEAN : ResetTake(fr, live) BY <1>0, <2>5, RecvResetCases
    <3>2. CASE ResetLate(fr.id) BY <1>2, <3>1, <3>2 DEF ResetLate
    <3>3. CASE ResetFail(fr.id) BY <1>2, <3>3 DEF ResetFail, Fail, Idle
    <3>4. ASSUME NEW live \in BOOLEAN, ResetTake(fr, live) PROVE reader'.pc # "stream"
      BY <3>4, ReaderShapes DEF ResetTake
    <3> QED BY <1>2, <3>1, <3>2, <3>3, <3>4
  <2>6. CASE AccountReset \/ ReaderGrant \/ RetireReset
    <3>1. UNCHANGED arrived BY <1>0, <2>6, AccountCases, GrantCases, RetireCases
    <3>2. reader.pc \notin StreamPcs BY <1>0, <2>6, AccountCases, GrantCases, RetireCases DEF StreamPcs
    <3>3. reader' = Idle \/ \E pc \in ResetPcs :
             \/ reader' = [reader EXCEPT !.pc = pc]
             \/ \E m \in {connR'.max, limR'.max} : reader' = [reader EXCEPT !.pc = pc, !.max = m]
                                                   \/ reader' = [reader EXCEPT !.max = m, !.pc = pc]
      <4>1. CASE AccountReset
        <5>1. \/ Fail("panic")
              \/ AccountFlow(reader.frame.id, reader.frame.final) \/ Account(reader.frame.id, reader.frame.final)
          BY <1>0, <4>1, AccountCases
        <5> QED BY <5>1 DEF Fail, AccountFlow, Account, ResetPcs
      <4>2. CASE ReaderGrant BY <1>0, <4>2, GrantCases DEF ResetPcs
      <4>3. CASE RetireReset
        <5>1. RetireLive(reader.frame.id) \/ RetireOwn(reader.frame.id) \/ RetireUnseen(reader.frame.id)
          BY <1>0, <4>3, RetireCases
        <5> QED BY <5>1 DEF RetireLive, RetireOwn, RetireUnseen, ResetPcs
      <4> QED BY <2>6, <4>1, <4>2, <4>3
    <3>4. connR'.max \in Nat /\ limR'.max \in Nat BY <1>0, NextTypes, PrimedNats
    <3>5. reader'.pc \in {"idle"} \cup ResetPcs
      <4>1. ReaderTypes BY <1>0 DEF Types
      <4>2. CASE reader' = Idle BY <4>2 DEF Idle
      <4>3. ASSUME NEW pc \in ResetPcs, reader' = [reader EXCEPT !.pc = pc] PROVE reader'.pc = pc
        BY <4>1, <4>3, ReaderAt
      <4>4. ASSUME NEW pc \in ResetPcs, NEW m \in Nat,
                   reader' = [reader EXCEPT !.pc = pc, !.max = m] \/ reader' = [reader EXCEPT !.max = m, !.pc = pc]
            PROVE  reader'.pc = pc
        <5>1. [reader EXCEPT !.pc = pc, !.max = m].pc = pc /\ [reader EXCEPT !.max = m, !.pc = pc].pc = pc
          BY <4>1, ReaderAt
        <5> QED BY <4>4, <5>1
      <4> QED BY <3>3, <3>4, <4>2, <4>3, <4>4
    <3> QED BY <1>2, <3>5 DEF ResetPcs
  <2> QED BY <1>3, <2>1, <2>2, <2>3, <2>4, <2>5, <2>6 DEF ReceiverReader
<1>4. CASE UNCHANGED vars \/ SenderWriter \/ SenderReader \/ Accept \/ ReceiverWriter
  BY <1>1, <1>4 DEF vars, readerVars, SenderWriter, SenderReader, Accept, AcceptUni, ReceiverWriter, TransmitControl
<1>5. ASSUME NEW s \in Streams, SenderApp(s) PROVE FlightInv' BY <1>1, <1>5 DEF SenderApp, readerVars
<1>6. ASSUME NEW f \in Fronts, ReceiverApp(f) PROVE FlightInv' BY <1>1, <1>6, ReceiverAppFrame DEF AppFrame
<1> QED BY <1>3, <1>4, <1>5, <1>6 DEF Next

\* A session starts where the window of every stream starts.
LEMMA InitStreams == Init => FlightInv /\ \A s \in Streams : StreamWin(s)!WindowInit
<1> SUFFICES ASSUME Init PROVE FlightInv /\ \A s \in Streams : StreamWin(s)!WindowInit OBVIOUS
<1>1. FlightInv BY DEF Init, Idle, FlightInv, InFlight
<1>2. ASSUME NEW s \in Streams PROVE StreamWin(s)!WindowInit
  <2>1. <<s, 1>> \in Fronts /\ Types BY StreamFacts, InitTypes
  <2>2. /\ strS[s] = NewCredit(StreamWindow) /\ strR[<<s, 1>>] = NewCredit(StreamWindow)
        /\ queue[s] = <<>> /\ wireAB = <<>> /\ wired[s] = 0 /\ reader.pc = "idle" /\ fault = "none"
        /\ rx[<<s, 1>>].data = <<>> /\ rx[<<s, 1>>].buf.len = 0 BY <2>1 DEF Init, Idle
  <2>3. Bytes(queue[s]) = 0 /\ Buffered(<<s, 1>>) = 0 BY <2>2, NoBytes DEF Buffered
  <2>4. Reaching(s) = 0 /\ Handed(s) = 0 BY <2>1, <2>2, ReaderParts
  <2>5. CarriedOf(s, wireAB) = 0
    <3>1. <<>> \in Seq(WireFrames) OBVIOUS
    <3> QED BY <2>2, <3>1, CarriedOfFacts
  <2>6. OnWire(s) = 0 /\ HeldOf(s) = 0 BY <2>3, <2>4, <2>5, OnWireIs DEF HeldOf
  <2>7. LostOf(s) = 0 BY <2>2, <2>6 DEF LostOf, NewCredit
  <2> QED BY <2>2, <2>3, <2>6, <2>7 DEF StreamWin!WindowInit, StreamWin!NewCredit, NewCredit, HeldOf, Handed, LostOf
<1> QED BY <1>1, <1>2

\* The flow control of every stream, spread over the same code as the
\* connection's, implements the window of CreditWindow under the mapping of
\* StreamWin, for as long as no stream comes to life a second time.
THEOREM StreamsAreWindows == Spec /\ []NoResurrection => StreamsImplementWindow
<1>1. Books /\ FlightInv /\ [Next]_vars => FlightInv' BY NextFlight DEF Books
<1>2. Books /\ Accounts /\ SpentInv /\ FlightInv /\ NoResurrection /\ (Books /\ SpentInv /\ NoResurrection)' /\ [Next]_vars
        => \A s \in Streams : [StreamWin(s)!WindowNext]_(StreamWin(s)!windowVars)
  <2> SUFFICES ASSUME Books, Accounts, SpentInv, FlightInv, NoResurrection, Books', SpentInv', NoResurrection',
                      [Next]_vars, NEW s \in Streams
               PROVE  [StreamWin(s)!WindowNext]_(StreamWin(s)!windowVars) OBVIOUS
  <2>1. Balance /\ Types' BY DEF Accounts, ConnAccounting, Balance, Books, Core
  <2>2. StreamStep(s) BY <2>1, StreamSteps
  <2> QED BY <2>2 DEF StreamStep
<1>3. Init => FlightInv /\ \A s \in Streams : StreamWin(s)!WindowInit BY InitStreams
<1> QED BY <1>1, <1>2, <1>3, LedgerHolds, PTL DEF Spec, StreamsImplementWindow

\* With applications that never stop a stream every stream's flow control
\* implements the window without any condition on the behaviour.
THEOREM UnstoppedStreamsAreWindows == ASSUME "stop" \notin Calls PROVE Spec => StreamsImplementWindow
<1>1. Core /\ UnstoppedInv => NoResurrection BY NotStopped DEF UnstoppedInv, Unstopped, NoResurrection
<1> QED BY <1>1, CoreHolds, UnstoppedHolds, StreamsAreWindows, PTL
=============================================================================
