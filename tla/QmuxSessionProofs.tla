------------------------- MODULE QmuxSessionProofs -------------------------
(***************************************************************************)
(* The exchange of parameters of a QMux session is safe, and a connect()   *)
(* that fails says why: proofs for every script of the two applications    *)
(* and every size of the transport's and the accept channel's buffers.     *)
(***************************************************************************)
EXTENDS QmuxSession, FiniteSetTheorems, TLAPS

----------------------------------------------------------------------------
(* The inductive invariants                                                 *)

Without(s, x) == \A i \in 1 .. Len(s) : s[i] # x
NoParams(s) == Without(s, "params")
OnlyFirst(s) == /\ s # <<>> /\ s[1] = "params"
                /\ \A i \in 1 .. Len(s) : i # 1 => s[i] # "params"

\* The writer has taken a frame off its lane and not handed it to the transport.
Sending(e) == writer[e] \in {"send", "pending"}

\* No parameters are left behind those on the wire.
Spent(e) == NoParams(control[e]) /\ (Sending(e) => frame[e] # "params")

\* Where the parameters of e are: read, first on the wire, in the writer's hand,
\* first on the control lane, or given up by a writer that ended before it sent
\* anything.
Read(e) == heard[Other(e)] /\ NoParams(wire[e]) /\ Spent(e)
OnWire(e) == ~heard[Other(e)] /\ OnlyFirst(wire[e]) /\ Spent(e)
InHand(e) == /\ ~heard[Other(e)] /\ wire[e] = <<>> /\ NoParams(control[e])
             /\ Sending(e) /\ frame[e] = "params"
OnLane(e) == /\ ~heard[Other(e)] /\ wire[e] = <<>> /\ OnlyFirst(control[e])
             /\ writer[e] \in {"run", "polled", "flush"}
GivenUp(e) == /\ ~heard[Other(e)]
              /\ \/ wire[e] = <<>> /\ writer[e] \in {"shut", "done", "dropped"}
                 \/ wire[e] = <<"eof">> /\ writer[e] = "done"

\* What an endpoint that follows the protocol has on the way holds no frame that
\* breaks it, and its parameters are where they can arrive first and once.
NotBad(e) == /\ frame[e] # "bad" /\ Without(wire[e], "bad") /\ Without(control[e], "bad")
Line(e) == /\ NotBad(e)
           /\ Read(e) \/ OnWire(e) \/ InHand(e) \/ OnLane(e) \/ GivenUp(e)

Accused(e) == err[e] = "violation" \/ closed[e] = "violation"

LinesInv ==
  /\ \A e \in Ends : May(e, "bad") \/ Line(e)
  /\ \A e \in Ends : Accused(e) => May(Other(e), "bad")

\* The reason is there before the backend is gone, and while connect() waits
\* nobody stores the reason of a Session that was dropped.
ExplainInv ==
  \A e \in Ends :
    /\ reader[e] \notin {"run", "seed", "establish", "offer"} => err[e] # "none"
    /\ reader[e] \in {"drop", "done"} => closed[e] # "none"
    /\ handle[e] = "connecting" => closed[e] # "closed" /\ err[e] # "closed"
    /\ outcome[e] # "closed"

----------------------------------------------------------------------------
(* Lemmas about the two ends and the operators                              *)

\* There are two ends, and each is the other of the other.
LEMMA Others ==
  \A e \in Ends : /\ Other(e) \in Ends /\ Other(e) # e /\ Other(Other(e)) = e
                  /\ \A p \in Ends : p = e \/ p = Other(e)
<1>1. Other("client") = "server" /\ Other("server") = "client" BY DEF Other, Ends
<1>2. QED BY <1>1 DEF Ends

\* The scripts bound the streams an application opens.
LEMMA OpensBound ==
  ASSUME calls \in Scripts, NEW e \in Ends
  PROVE  OpensMax(e) \in 0 .. 2
<1>1. PICK S : S = calls[e] \cap {"open", "again"} OBVIOUS
<1>2. IsFiniteSet({}) /\ Cardinality({}) = 0 BY FS_EmptySet
<1>3. IsFiniteSet({"open"}) /\ Cardinality({"open"}) = 1 BY FS_Singleton
<1>4. IsFiniteSet({"open"} \cup {"again"}) /\ Cardinality({"open"} \cup {"again"}) = 2 BY <1>3, FS_AddElement, SMTT(30)
<1>5. S \subseteq {"open"} \cup {"again"} BY <1>1
<1>6. IsFiniteSet(S) /\ Cardinality(S) <= 2 BY <1>4, <1>5, FS_Subset
<1>7. Cardinality(S) \in Nat BY <1>6, FS_CardinalityType
<1>8. QED BY <1>1, <1>6, <1>7 DEF OpensMax

----------------------------------------------------------------------------
(* Type correctness                                                         *)

\* Session::new() starts a well-typed session.
LEMMA TypeInit == Init => TypeOK
<1>1. SUFFICES ASSUME Init PROVE TypeOK OBVIOUS
<1>2. 0 \in 0 .. AcceptCap BY CapsArePositive
<1>3. <<"params">> \in Seq(FrameKinds) /\ <<>> \in Seq(FrameKinds \cup {"eof"}) BY DEF FrameKinds
<1>4. QED BY <1>1, <1>2, <1>3 DEF Init, TypeOK, Causes, FrameKinds

\* One step of an end keeps the types.
LEMMA TypeAction ==
  ASSUME TypeOK, NEW e \in Ends, System(e) \/ Environment(e)
  PROVE  TypeOK'
<1>t. TypeOK OBVIOUS
<1>i. AcceptCap \in Nat /\ WireCap \in Nat BY CapsArePositive
<1>e. System(e) \/ Environment(e) OBVIOUS
<1>1. CASE PickFrame(e)
  <2>1. CASE control[e] # <<>>
    <3>1. frame' = [frame EXCEPT ![e] = Head(control[e])]
      BY <1>1, <2>1 DEF PickFrame, NextOutbound, Set, session, lanes, writerVars, readerVars, streamVars
    <3>2. control' = [control EXCEPT ![e] = Tail(control[e])]
      BY <1>1, <2>1 DEF PickFrame, NextOutbound, Set, session, lanes, writerVars, readerVars, streamVars
    <3>3. queued' = queued
      BY <1>1, <2>1 DEF PickFrame, NextOutbound, Set, session, lanes, writerVars, readerVars, streamVars
    <3>4. writer' = [writer EXCEPT ![e] = "send"]
      BY <1>1, <2>1 DEF PickFrame, NextOutbound, Set, session, lanes, writerVars, readerVars, streamVars
    <3>5. control \in [Ends -> Seq(FrameKinds)] /\ frame \in [Ends -> FrameKinds]
          /\ writer \in [Ends -> {"run", "polled", "send", "pending", "flush", "shut", "done", "dropped"}]
      BY <1>t, <1>i DEF TypeOK
    <3>6. frame' \in [Ends -> FrameKinds] BY <3>1, <3>2, <3>3, <3>4, <3>5, <2>1, <1>i DEF FrameKinds, Causes
    <3>7. control' \in [Ends -> Seq(FrameKinds)] BY <3>1, <3>2, <3>3, <3>4, <3>5, <2>1, <1>i DEF FrameKinds, Causes
    <3>8. writer' \in [Ends -> {"run", "polled", "send", "pending", "flush", "shut", "done", "dropped"}]
      BY <3>1, <3>2, <3>3, <3>4, <3>5, <2>1, <1>i DEF FrameKinds, Causes
    <3>9. QED
      BY <1>t, <3>1, <3>2, <3>3, <3>4, <3>6, <3>7, <3>8, <1>1 DEF PickFrame, session, lanes, writerVars, readerVars,
        streamVars, TypeOK
  <2>2. CASE control[e] = <<>>
    <3>1. frame' = [frame EXCEPT ![e] = "stream"]
      BY <1>1, <2>2 DEF PickFrame, NextOutbound, Set, session, lanes, writerVars, readerVars, streamVars
    <3>2. control' = control
      BY <1>1, <2>2 DEF PickFrame, NextOutbound, Set, session, lanes, writerVars, readerVars, streamVars
    <3>3. queued[e] > 0 /\ queued' = [queued EXCEPT ![e] = @ - 1]
      BY <1>1, <2>2 DEF PickFrame, NextOutbound, Set, session, lanes, writerVars, readerVars, streamVars
    <3>4. writer' = [writer EXCEPT ![e] = "send"]
      BY <1>1, <2>2 DEF PickFrame, NextOutbound, Set, session, lanes, writerVars, readerVars, streamVars
    <3>5. frame \in [Ends -> FrameKinds] /\ queued \in [Ends -> Nat]
          /\ writer \in [Ends -> {"run", "polled", "send", "pending", "flush", "shut", "done", "dropped"}]
      BY <1>t, <1>i DEF TypeOK
    <3>6. frame' \in [Ends -> FrameKinds] BY <3>1, <3>2, <3>3, <3>4, <3>5, <2>2, <1>i DEF FrameKinds, Causes
    <3>7. queued' \in [Ends -> Nat] BY <3>1, <3>2, <3>3, <3>4, <3>5, <2>2, <1>i DEF FrameKinds, Causes
    <3>8. writer' \in [Ends -> {"run", "polled", "send", "pending", "flush", "shut", "done", "dropped"}]
      BY <3>1, <3>2, <3>3, <3>4, <3>5, <2>2, <1>i DEF FrameKinds, Causes
    <3>9. QED
      BY <1>t, <3>1, <3>2, <3>3, <3>4, <3>6, <3>7, <3>8, <1>1 DEF PickFrame, session, lanes, writerVars, readerVars,
        streamVars, TypeOK
  <2>3. QED BY <1>1, <2>1, <2>2 DEF PickFrame, NextOutbound, Set, session, lanes, writerVars, readerVars, streamVars
<1>2. CASE FindNothing(e)
  BY <1>2, <1>t, <1>i DEF FindNothing, Set, session, lanes, writerVars, readerVars, streamVars, TypeOK, Causes,
    FrameKinds
<1>3. CASE PollClosed(e)
  <2>1. CASE writer' = [writer EXCEPT ![e] = "flush"]
    <3>1. writer \in [Ends -> {"run", "polled", "send", "pending", "flush", "shut", "done", "dropped"}]
      BY <1>t, <1>i DEF TypeOK
    <3>2. writer' \in [Ends -> {"run", "polled", "send", "pending", "flush", "shut", "done", "dropped"}]
      BY <3>1, <2>1, <1>i DEF FrameKinds, Causes
    <3>3. QED BY <1>t, <3>2, <1>3 DEF PollClosed, session, lanes, writerVars, readerVars, streamVars, TypeOK
  <2>2. CASE writer' = [writer EXCEPT ![e] = "run"]
    <3>1. writer \in [Ends -> {"run", "polled", "send", "pending", "flush", "shut", "done", "dropped"}]
      BY <1>t, <1>i DEF TypeOK
    <3>2. writer' \in [Ends -> {"run", "polled", "send", "pending", "flush", "shut", "done", "dropped"}]
      BY <3>1, <2>2, <1>i DEF FrameKinds, Causes
    <3>3. QED BY <1>t, <3>2, <1>3 DEF PollClosed, session, lanes, writerVars, readerVars, streamVars, TypeOK
  <2>3. QED BY <1>3, <2>1, <2>2 DEF PollClosed, Set, session, lanes, writerVars, readerVars, streamVars
<1>4. CASE Transmit(e)
  BY <1>4, <1>t, <1>i DEF Transmit, HasRoom, Push, Set, session, lanes, writerVars, readerVars, streamVars, TypeOK,
    Causes, FrameKinds
<1>5. CASE WriteBlocks(e)
  BY <1>5, <1>t, <1>i DEF WriteBlocks, HasRoom, Set, session, lanes, writerVars, readerVars, streamVars, TypeOK, Causes,
    FrameKinds
<1>6. CASE Interrupt(e)
  BY <1>6, <1>t, <1>i DEF Interrupt, Set, session, lanes, writerVars, readerVars, streamVars, TypeOK, Causes, FrameKinds
<1>7. CASE WriteFails(e)
  BY <1>7, <1>t, <1>i DEF WriteFails, NoteClosed, Set, session, lanes, writerVars, readerVars, streamVars, TypeOK,
    Causes, FrameKinds
<1>8. CASE Flush(e)
  <2>1. CASE control[e] = <<>>
    <3>1. writer' = [writer EXCEPT ![e] = "shut"]
      BY <1>8, <2>1 DEF Flush, HasRoom, Push, Set, session, lanes, writerVars, readerVars, streamVars
    <3>2. control' = control /\ wire' = wire
      BY <1>8, <2>1 DEF Flush, HasRoom, Push, Set, session, lanes, writerVars, readerVars, streamVars
    <3>3. writer \in [Ends -> {"run", "polled", "send", "pending", "flush", "shut", "done", "dropped"}]
      BY <1>t, <1>i DEF TypeOK
    <3>4. writer' \in [Ends -> {"run", "polled", "send", "pending", "flush", "shut", "done", "dropped"}]
      BY <3>1, <3>2, <3>3, <2>1, <1>i DEF FrameKinds, Causes
    <3>5. QED BY <1>t, <3>1, <3>2, <3>4, <1>8 DEF Flush, session, lanes, writerVars, readerVars, streamVars, TypeOK
  <2>2. CASE control[e] # <<>>
    <3>1. wire' = [wire EXCEPT ![e] = Append(@, Head(control[e]))]
      BY <1>8, <2>2 DEF Flush, HasRoom, Push, Set, session, lanes, writerVars, readerVars, streamVars
    <3>2. control' = [control EXCEPT ![e] = Tail(control[e])]
      BY <1>8, <2>2 DEF Flush, HasRoom, Push, Set, session, lanes, writerVars, readerVars, streamVars
    <3>3. writer' = writer
      BY <1>8, <2>2 DEF Flush, HasRoom, Push, Set, session, lanes, writerVars, readerVars, streamVars
    <3>4. control \in [Ends -> Seq(FrameKinds)] /\ wire \in [Ends -> Seq(FrameKinds \cup {"eof"})]
      BY <1>t, <1>i DEF TypeOK
    <3>5. control' \in [Ends -> Seq(FrameKinds)] BY <3>1, <3>2, <3>3, <3>4, <2>2, <1>i DEF FrameKinds, Causes
    <3>6. wire' \in [Ends -> Seq(FrameKinds \cup {"eof"})] BY <3>1, <3>2, <3>3, <3>4, <2>2, <1>i DEF FrameKinds, Causes
    <3>7. QED
      BY <1>t, <3>1, <3>2, <3>3, <3>5, <3>6, <1>8 DEF Flush, session, lanes, writerVars, readerVars, streamVars, TypeOK
  <2>3. QED BY <1>8, <2>1, <2>2 DEF Flush, HasRoom, Push, Set, session, lanes, writerVars, readerVars, streamVars
<1>9. CASE FlushFails(e)
  BY <1>9, <1>t, <1>i DEF FlushFails, Set, session, lanes, writerVars, readerVars, streamVars, TypeOK, Causes,
    FrameKinds
<1>10. CASE Shutdown(e)
  BY <1>10, <1>t, <1>i DEF Shutdown, Push, Set, session, lanes, writerVars, readerVars, streamVars, TypeOK, Causes,
    FrameKinds
<1>11. CASE RecvViolation(e)
  BY <1>11, <1>t, <1>i, Others, SMTT(30) DEF RecvViolation, CanRecv, Incoming, Consumed, Fail, Set, session, lanes,
    writerVars, readerVars, streamVars, TypeOK, Causes, FrameKinds
<1>12. CASE RecvParams(e)
  BY <1>12, <1>t, <1>i, Others, SMTT(30) DEF RecvParams, CanRecv, Incoming, Consumed, Set, session, lanes, writerVars,
    readerVars, streamVars, TypeOK, Causes, FrameKinds
<1>13. CASE SeedStreams(e)
  BY <1>13, <1>t, <1>i, Others DEF SeedStreams, Set, session, lanes, writerVars, readerVars, streamVars, TypeOK, Causes,
    FrameKinds
<1>14. CASE Establish(e)
  BY <1>14, <1>t, <1>i, Others DEF Establish, Set, session, lanes, writerVars, readerVars, streamVars, TypeOK, Causes,
    FrameKinds
<1>15. CASE RecvStream(e)
  BY <1>15, <1>t, <1>i, Others, SMTT(30) DEF RecvStream, CanRecv, Incoming, Consumed, Set, session, lanes, writerVars,
    readerVars, streamVars, TypeOK, Causes, FrameKinds
<1>16. CASE Offer(e)
  <2>1. CASE handle[e] # "dropped"
    <3>1. inbox[e] < AcceptCap /\ inbox' = [inbox EXCEPT ![e] = @ + 1]
      BY <1>16, <2>1 DEF Offer, Fail, Set, session, lanes, writerVars, readerVars, streamVars
    <3>2. reader' = [reader EXCEPT ![e] = "run"] /\ err' = err
      BY <1>16, <2>1 DEF Offer, Fail, Set, session, lanes, writerVars, readerVars, streamVars
    <3>3. inbox \in [Ends -> 0 .. AcceptCap]
          /\ reader \in [Ends ->
               {"run", "seed", "establish", "offer", "notify", "queue", "streams",
                "store", "drop", "done"}] BY <1>t, <1>i, Others DEF TypeOK
    <3>4. inbox' \in [Ends -> 0 .. AcceptCap] BY <3>1, <3>2, <3>3, <2>1, <1>i, Others DEF FrameKinds, Causes
    <3>5. reader' \in [Ends ->
               {"run", "seed", "establish", "offer", "notify", "queue", "streams",
                "store", "drop", "done"}] BY <3>1, <3>2, <3>3, <2>1, <1>i, Others DEF FrameKinds, Causes
    <3>6. QED
      BY <1>t, <3>1, <3>2, <3>4, <3>5, <1>16 DEF Offer, session, lanes, writerVars, readerVars, streamVars, TypeOK
  <2>2. CASE handle[e] = "dropped"
    <3>1. inbox' = inbox BY <1>16, <2>2 DEF Offer, Fail, Set, session, lanes, writerVars, readerVars, streamVars
    <3>2. reader' = [reader EXCEPT ![e] = "notify"]
      BY <1>16, <2>2 DEF Offer, Fail, Set, session, lanes, writerVars, readerVars, streamVars
    <3>3. err' = [err EXCEPT ![e] = "closed"]
      BY <1>16, <2>2 DEF Offer, Fail, Set, session, lanes, writerVars, readerVars, streamVars
    <3>4. err \in [Ends -> Causes \cup {"none"}]
          /\ reader \in [Ends ->
               {"run", "seed", "establish", "offer", "notify", "queue", "streams",
                "store", "drop", "done"}] BY <1>t, <1>i, Others DEF TypeOK
    <3>5. err' \in [Ends -> Causes \cup {"none"}] BY <3>1, <3>2, <3>3, <3>4, <2>2, <1>i, Others DEF FrameKinds, Causes
    <3>6. reader' \in [Ends ->
               {"run", "seed", "establish", "offer", "notify", "queue", "streams",
                "store", "drop", "done"}] BY <3>1, <3>2, <3>3, <3>4, <2>2, <1>i, Others DEF FrameKinds, Causes
    <3>7. QED
      BY <1>t, <3>1, <3>2, <3>3, <3>5, <3>6, <1>16 DEF Offer, session, lanes, writerVars, readerVars, streamVars, TypeOK
  <2>3. QED BY <1>16, <2>1, <2>2 DEF Offer, Fail, Set, session, lanes, writerVars, readerVars, streamVars
<1>17. CASE RecvClose(e)
  BY <1>17, <1>t, <1>i, Others, SMTT(30) DEF RecvClose, CanRecv, Incoming, Consumed, ReplaceClosed, Set, session, lanes,
    writerVars, readerVars, streamVars, TypeOK, Causes, FrameKinds
<1>18. CASE RecvEnd(e)
  <2>1. CASE wire[Other(e)] = <<>>
    <3>1. wire' = wire
      BY <1>18, <2>1 DEF RecvEnd, CanRecv, Incoming, Consumed, Fail, Set, session, lanes, writerVars, readerVars,
        streamVars
    <3>2. reader' = [reader EXCEPT ![e] = "notify"]
      BY <1>18, <2>1 DEF RecvEnd, CanRecv, Incoming, Consumed, Fail, Set, session, lanes, writerVars, readerVars,
        streamVars
    <3>3. err' = [err EXCEPT ![e] = "io"]
      BY <1>18, <2>1 DEF RecvEnd, CanRecv, Incoming, Consumed, Fail, Set, session, lanes, writerVars, readerVars,
        streamVars
    <3>4. err \in [Ends -> Causes \cup {"none"}]
          /\ reader \in [Ends ->
               {"run", "seed", "establish", "offer", "notify", "queue", "streams",
                "store", "drop", "done"}] BY <1>t, <1>i, Others DEF TypeOK
    <3>5. err' \in [Ends -> Causes \cup {"none"}] BY <3>1, <3>2, <3>3, <3>4, <2>1, <1>i, Others DEF FrameKinds, Causes
    <3>6. reader' \in [Ends ->
               {"run", "seed", "establish", "offer", "notify", "queue", "streams",
                "store", "drop", "done"}] BY <3>1, <3>2, <3>3, <3>4, <2>1, <1>i, Others DEF FrameKinds, Causes
    <3>7. QED
      BY <1>t, <3>1, <3>2, <3>3, <3>5, <3>6, <1>18 DEF RecvEnd, session, lanes, writerVars, readerVars, streamVars,
        TypeOK
  <2>2. CASE wire[Other(e)] # <<>>
    <3>1. wire' = [wire EXCEPT ![Other(e)] = Tail(@)]
      BY <1>18, <2>2 DEF RecvEnd, CanRecv, Incoming, Consumed, Fail, Set, session, lanes, writerVars, readerVars,
        streamVars
    <3>2. reader' = [reader EXCEPT ![e] = "notify"]
      BY <1>18, <2>2 DEF RecvEnd, CanRecv, Incoming, Consumed, Fail, Set, session, lanes, writerVars, readerVars,
        streamVars
    <3>3. err' = [err EXCEPT ![e] = "io"]
      BY <1>18, <2>2 DEF RecvEnd, CanRecv, Incoming, Consumed, Fail, Set, session, lanes, writerVars, readerVars,
        streamVars
    <3>4. wire \in [Ends -> Seq(FrameKinds \cup {"eof"})] /\ err \in [Ends -> Causes \cup {"none"}]
          /\ reader \in [Ends ->
               {"run", "seed", "establish", "offer", "notify", "queue", "streams",
                "store", "drop", "done"}] BY <1>t, <1>i, Others DEF TypeOK
    <3>5. wire' \in [Ends -> Seq(FrameKinds \cup {"eof"})]
      BY <3>1, <3>2, <3>3, <3>4, <2>2, <1>i, Others DEF FrameKinds, Causes
    <3>6. err' \in [Ends -> Causes \cup {"none"}] BY <3>1, <3>2, <3>3, <3>4, <2>2, <1>i, Others DEF FrameKinds, Causes
    <3>7. reader' \in [Ends ->
               {"run", "seed", "establish", "offer", "notify", "queue", "streams",
                "store", "drop", "done"}] BY <3>1, <3>2, <3>3, <3>4, <2>2, <1>i, Others DEF FrameKinds, Causes
    <3>8. QED
      BY <1>t, <3>1, <3>2, <3>3, <3>5, <3>6, <3>7, <1>18 DEF RecvEnd, session, lanes, writerVars, readerVars,
        streamVars, TypeOK
  <2>3. QED
    BY <1>18, <2>1, <2>2 DEF RecvEnd, CanRecv, Incoming, Consumed, Fail, Set, session, lanes, writerVars, readerVars,
      streamVars
<1>19. CASE SeeClosed(e)
  BY <1>19, <1>t, <1>i, Others DEF SeeClosed, Fail, Set, session, lanes, writerVars, readerVars, streamVars, TypeOK,
    Causes, FrameKinds
<1>20. CASE CloseCredits(e)
  BY <1>20, <1>t, <1>i DEF CloseCredits, Push, Set, session, lanes, writerVars, readerVars, streamVars, TypeOK, Causes,
    FrameKinds
<1>21. CASE CloseQueue(e)
  BY <1>21, <1>t, <1>i DEF CloseQueue, Set, session, lanes, writerVars, readerVars, streamVars, TypeOK, Causes,
    FrameKinds
<1>22. CASE CloseStreams(e)
  BY <1>22, <1>t, <1>i DEF CloseStreams, Set, session, lanes, writerVars, readerVars, streamVars, TypeOK, Causes,
    FrameKinds
<1>23. CASE StoreReason(e)
  BY <1>23, <1>t, <1>i DEF StoreReason, ReplaceClosed, Set, session, lanes, writerVars, readerVars, streamVars, TypeOK,
    Causes, FrameKinds
<1>24. CASE DropBackend(e)
  BY <1>24, <1>t, <1>i DEF DropBackend, Set, session, lanes, writerVars, readerVars, streamVars, TypeOK, Causes,
    FrameKinds
<1>25. CASE ConnectReturns(e)
  <2>1. CASE established[e]
    <3>1. outcome' = [outcome EXCEPT ![e] = "ok"]
      BY <1>25, <2>1 DEF ConnectReturns, NoteClosed, Set, session, lanes, writerVars, readerVars, streamVars
    <3>2. handle' = [handle EXCEPT ![e] = "held"]
      BY <1>25, <2>1 DEF ConnectReturns, NoteClosed, Set, session, lanes, writerVars, readerVars, streamVars
    <3>3. closed' = closed
      BY <1>25, <2>1 DEF ConnectReturns, NoteClosed, Set, session, lanes, writerVars, readerVars, streamVars
    <3>4. outcome \in [Ends -> Causes \cup {"none", "ok"}] /\ handle \in [Ends -> {"connecting", "held", "dropped"}]
      BY <1>t, <1>i DEF TypeOK
    <3>5. outcome' \in [Ends -> Causes \cup {"none", "ok"}] BY <3>1, <3>2, <3>3, <3>4, <2>1, <1>i DEF FrameKinds, Causes
    <3>6. handle' \in [Ends -> {"connecting", "held", "dropped"}]
      BY <3>1, <3>2, <3>3, <3>4, <2>1, <1>i DEF FrameKinds, Causes
    <3>7. QED
      BY <1>t, <3>1, <3>2, <3>3, <3>5, <3>6, <1>25 DEF ConnectReturns, session, lanes, writerVars, readerVars,
        streamVars, TypeOK
  <2>2. CASE ~established[e] /\ closed[e] = "none"
    <3>1. outcome' = [outcome EXCEPT ![e] = "closed"]
      BY <1>25, <2>2 DEF ConnectReturns, NoteClosed, Set, session, lanes, writerVars, readerVars, streamVars
    <3>2. handle' = [handle EXCEPT ![e] = "dropped"]
      BY <1>25, <2>2 DEF ConnectReturns, NoteClosed, Set, session, lanes, writerVars, readerVars, streamVars
    <3>3. closed' = [closed EXCEPT ![e] = "closed"]
      BY <1>25, <2>2 DEF ConnectReturns, NoteClosed, Set, session, lanes, writerVars, readerVars, streamVars
    <3>4. outcome \in [Ends -> Causes \cup {"none", "ok"}] /\ handle \in [Ends -> {"connecting", "held", "dropped"}]
          /\ closed \in [Ends -> Causes \cup {"none"}] BY <1>t, <1>i DEF TypeOK
    <3>5. outcome' \in [Ends -> Causes \cup {"none", "ok"}] BY <3>1, <3>2, <3>3, <3>4, <2>2, <1>i DEF FrameKinds, Causes
    <3>6. handle' \in [Ends -> {"connecting", "held", "dropped"}]
      BY <3>1, <3>2, <3>3, <3>4, <2>2, <1>i DEF FrameKinds, Causes
    <3>7. closed' \in [Ends -> Causes \cup {"none"}] BY <3>1, <3>2, <3>3, <3>4, <2>2, <1>i DEF FrameKinds, Causes
    <3>8. QED
      BY <1>t, <3>1, <3>2, <3>3, <3>5, <3>6, <3>7, <1>25 DEF ConnectReturns, session, lanes, writerVars, readerVars,
        streamVars, TypeOK
  <2>3. CASE ~established[e] /\ closed[e] # "none"
    <3>1. outcome' = [outcome EXCEPT ![e] = closed[e]]
      BY <1>25, <2>3 DEF ConnectReturns, NoteClosed, Set, session, lanes, writerVars, readerVars, streamVars
    <3>2. handle' = [handle EXCEPT ![e] = "dropped"]
      BY <1>25, <2>3 DEF ConnectReturns, NoteClosed, Set, session, lanes, writerVars, readerVars, streamVars
    <3>3. closed' = closed
      BY <1>25, <2>3 DEF ConnectReturns, NoteClosed, Set, session, lanes, writerVars, readerVars, streamVars
    <3>4. outcome \in [Ends -> Causes \cup {"none", "ok"}] /\ handle \in [Ends -> {"connecting", "held", "dropped"}]
          /\ closed \in [Ends -> Causes \cup {"none"}] BY <1>t, <1>i DEF TypeOK
    <3>5. outcome' \in [Ends -> Causes \cup {"none", "ok"}] BY <3>1, <3>2, <3>3, <3>4, <2>3, <1>i DEF FrameKinds, Causes
    <3>6. handle' \in [Ends -> {"connecting", "held", "dropped"}]
      BY <3>1, <3>2, <3>3, <3>4, <2>3, <1>i DEF FrameKinds, Causes
    <3>7. QED
      BY <1>t, <3>1, <3>2, <3>3, <3>5, <3>6, <1>25 DEF ConnectReturns, session, lanes, writerVars, readerVars,
        streamVars, TypeOK
  <2>4. QED
    BY <1>25, <2>1, <2>2, <2>3 DEF ConnectReturns, NoteClosed, Set, session, lanes, writerVars, readerVars, streamVars
<1>26. CASE Accept(e)
  BY <1>26, <1>t, <1>i DEF Accept, Set, session, lanes, writerVars, readerVars, streamVars, TypeOK, Causes, FrameKinds
<1>27. CASE ClaimIndex(e)
  BY <1>27, <1>t, <1>i DEF ClaimIndex, Set, session, lanes, writerVars, readerVars, streamVars, TypeOK, Causes,
    FrameKinds
<1>28. CASE Register(e)
  BY <1>28, <1>t, <1>i DEF Register, Set, session, lanes, writerVars, readerVars, streamVars, TypeOK, Causes, FrameKinds
<1>29. CASE Reserve(e)
  BY <1>29, <1>t, <1>i DEF Reserve, Set, session, lanes, writerVars, readerVars, streamVars, TypeOK, Causes, FrameKinds
<1>30. CASE ClaimCredit(e)
  <2>1. CASE credit[e] = "some" /\ ~outClosed[e]
    <3>1. queued' = [queued EXCEPT ![e] = @ + 1]
      BY <1>30, <2>1 DEF ClaimCredit, Set, session, lanes, writerVars, readerVars, streamVars
    <3>2. writing' = [writing EXCEPT ![e] = "done"]
      BY <1>30, <2>1 DEF ClaimCredit, Set, session, lanes, writerVars, readerVars, streamVars
    <3>3. queued \in [Ends -> Nat] /\ writing \in [Ends -> {"none", "credit", "done", "failed"}]
      BY <1>t, <1>i DEF TypeOK
    <3>4. queued' \in [Ends -> Nat] BY <3>1, <3>2, <3>3, <2>1, <1>i DEF FrameKinds, Causes
    <3>5. writing' \in [Ends -> {"none", "credit", "done", "failed"}]
      BY <3>1, <3>2, <3>3, <2>1, <1>i DEF FrameKinds, Causes
    <3>6. QED
      BY <1>t, <3>1, <3>2, <3>4, <3>5, <1>30 DEF ClaimCredit, session, lanes, writerVars, readerVars, streamVars, TypeOK
  <2>2. CASE ~(credit[e] = "some" /\ ~outClosed[e])
    <3>1. queued' = queued BY <1>30, <2>2 DEF ClaimCredit, Set, session, lanes, writerVars, readerVars, streamVars
    <3>2. writing' = [writing EXCEPT ![e] = "failed"]
      BY <1>30, <2>2 DEF ClaimCredit, Set, session, lanes, writerVars, readerVars, streamVars
    <3>3. queued \in [Ends -> Nat] /\ writing \in [Ends -> {"none", "credit", "done", "failed"}]
      BY <1>t, <1>i DEF TypeOK
    <3>4. writing' \in [Ends -> {"none", "credit", "done", "failed"}]
      BY <3>1, <3>2, <3>3, <2>2, <1>i DEF FrameKinds, Causes
    <3>5. QED
      BY <1>t, <3>1, <3>2, <3>4, <1>30 DEF ClaimCredit, session, lanes, writerVars, readerVars, streamVars, TypeOK
  <2>3. QED BY <1>30, <2>1, <2>2 DEF ClaimCredit, Set, session, lanes, writerVars, readerVars, streamVars
<1>31. CASE ConnectTimesOut(e)
  BY <1>31, <1>t, <1>i DEF ConnectTimesOut, Push, ReplaceClosed, Set, session, lanes, writerVars, readerVars,
    streamVars, TypeOK, Causes, FrameKinds
<1>32. CASE Close(e)
  BY <1>32, <1>t, <1>i DEF Close, Push, ReplaceClosed, Set, session, lanes, writerVars, readerVars, streamVars, TypeOK,
    Causes, FrameKinds
<1>33. CASE DropSession(e)
  BY <1>33, <1>t, <1>i DEF DropSession, NoteClosed, Set, session, lanes, writerVars, readerVars, streamVars, TypeOK,
    Causes, FrameKinds
<1>34. CASE IdleFires(e)
  BY <1>34, <1>t, <1>i DEF IdleFires, NoteClosed, Set, session, lanes, writerVars, readerVars, streamVars, TypeOK,
    Causes, FrameKinds
<1>35. CASE Misbehave(e)
  BY <1>35, <1>t, <1>i DEF Misbehave, Push, Set, session, lanes, writerVars, readerVars, streamVars, TypeOK, Causes,
    FrameKinds
<1>36. CASE OpenUni(e)
  <2>1. calls \in Scripts /\ opens \in [Ends -> 0 .. 2] BY <1>t DEF TypeOK
  <2>2. OpensMax(e) \in 0 .. 2 BY <2>1, OpensBound
  <2>3. opens[e] < OpensMax(e) /\ opens' = [opens EXCEPT ![e] = @ + 1] BY <1>36 DEF OpenUni
  <2>4. opens' \in [Ends -> 0 .. 2] BY <2>1, <2>2, <2>3
  <2>5. QED BY <1>36, <1>t, <2>4 DEF OpenUni, Set, session, lanes, writerVars, readerVars, streamVars, TypeOK
<1>37. QED BY <1>e, <1>1, <1>2, <1>3, <1>4, <1>5, <1>6, <1>7, <1>8, <1>9, <1>10, <1>11, <1>12, <1>13, <1>14,
    <1>15, <1>16, <1>17, <1>18, <1>19, <1>20, <1>21, <1>22, <1>23, <1>24, <1>25, <1>26, <1>27,
    <1>28, <1>29, <1>30, <1>31, <1>32, <1>33, <1>34, <1>35, <1>36 DEF System, Environment, Writer,
    Reader, Teardown, Application

\* Every step of a task or a call keeps the types.
LEMMA TypeStep == ASSUME TypeOK, [Next]_vars PROVE TypeOK'
<1>t. TypeOK OBVIOUS
<1>s. CASE UNCHANGED vars BY <1>s, <1>t DEF vars, session, lanes, writerVars, readerVars, streamVars, TypeOK
<1>n. CASE Next
  <2>1. PICK e \in Ends : System(e) \/ Environment(e) BY <1>n DEF Next
  <2>2. QED BY <2>1, <1>t, TypeAction
<1>q. QED BY <1>s, <1>n

----------------------------------------------------------------------------
(* A connect() that fails says why                                          *)

\* One step of an end keeps the reasons.
LEMMA ExplainAction ==
  ASSUME TypeOK, ExplainInv, NEW e \in Ends, System(e) \/ Environment(e)
  PROVE  ExplainInv'
<1>t. /\ closed \in [Ends -> Causes \cup {"none"}] /\ err \in [Ends -> Causes \cup {"none"}]
      /\ outcome \in [Ends -> Causes \cup {"none", "ok"}] /\ handle \in [Ends -> {"connecting", "held", "dropped"}]
      /\ reader \in [Ends -> {"run", "seed", "establish", "offer", "notify", "queue",
                              "streams", "store", "drop", "done"}] BY DEF TypeOK
<1>v. ExplainInv OBVIOUS
<1>e. System(e) \/ Environment(e) OBVIOUS
<1>1. CASE PickFrame(e)
  BY <1>1, <1>t, <1>v, Others DEF PickFrame, NextOutbound, Set, session, lanes, writerVars, readerVars, streamVars,
    ExplainInv
<1>2. CASE FindNothing(e)
  BY <1>2, <1>t, <1>v, Others DEF FindNothing, Set, session, lanes, writerVars, readerVars, streamVars, ExplainInv
<1>3. CASE PollClosed(e)
  BY <1>3, <1>t, <1>v, Others DEF PollClosed, Set, session, lanes, writerVars, readerVars, streamVars, ExplainInv
<1>4. CASE Transmit(e)
  BY <1>4, <1>t, <1>v, Others DEF Transmit, HasRoom, Push, Set, session, lanes, writerVars, readerVars, streamVars,
    ExplainInv
<1>5. CASE WriteBlocks(e)
  BY <1>5, <1>t, <1>v, Others DEF WriteBlocks, HasRoom, Set, session, lanes, writerVars, readerVars, streamVars,
    ExplainInv
<1>6. CASE Interrupt(e)
  BY <1>6, <1>t, <1>v, Others DEF Interrupt, Set, session, lanes, writerVars, readerVars, streamVars, ExplainInv
<1>7. CASE WriteFails(e)
  BY <1>7, <1>t, <1>v, Others DEF WriteFails, NoteClosed, Set, session, lanes, writerVars, readerVars, streamVars,
    ExplainInv
<1>8. CASE Flush(e)
  BY <1>8, <1>t, <1>v, Others DEF Flush, HasRoom, Push, Set, session, lanes, writerVars, readerVars, streamVars,
    ExplainInv
<1>9. CASE FlushFails(e)
  BY <1>9, <1>t, <1>v, Others DEF FlushFails, Set, session, lanes, writerVars, readerVars, streamVars, ExplainInv
<1>10. CASE Shutdown(e)
  BY <1>10, <1>t, <1>v, Others DEF Shutdown, Push, Set, session, lanes, writerVars, readerVars, streamVars, ExplainInv
<1>11. CASE RecvViolation(e)
  BY <1>11, <1>t, <1>v, Others DEF RecvViolation, CanRecv, Incoming, Consumed, Fail, Set, session, lanes, writerVars,
    readerVars, streamVars, ExplainInv
<1>12. CASE RecvParams(e)
  BY <1>12, <1>t, <1>v, Others DEF RecvParams, CanRecv, Incoming, Consumed, Set, session, lanes, writerVars, readerVars,
    streamVars, ExplainInv
<1>13. CASE SeedStreams(e)
  BY <1>13, <1>t, <1>v, Others DEF SeedStreams, Set, session, lanes, writerVars, readerVars, streamVars, ExplainInv
<1>14. CASE Establish(e)
  BY <1>14, <1>t, <1>v, Others DEF Establish, Set, session, lanes, writerVars, readerVars, streamVars, ExplainInv
<1>15. CASE RecvStream(e)
  BY <1>15, <1>t, <1>v, Others DEF RecvStream, CanRecv, Incoming, Consumed, Set, session, lanes, writerVars, readerVars,
    streamVars, ExplainInv
<1>16. CASE Offer(e)
  BY <1>16, <1>t, <1>v, Others DEF Offer, Fail, Set, session, lanes, writerVars, readerVars, streamVars, ExplainInv
<1>17. CASE RecvClose(e)
  BY <1>17, <1>t, <1>v, Others DEF RecvClose, CanRecv, Incoming, Consumed, ReplaceClosed, Set, session, lanes,
    writerVars, readerVars, streamVars, ExplainInv
<1>18. CASE RecvEnd(e)
  BY <1>18, <1>t, <1>v, Others DEF RecvEnd, CanRecv, Incoming, Consumed, Fail, Set, session, lanes, writerVars,
    readerVars, streamVars, ExplainInv
<1>19. CASE SeeClosed(e)
  BY <1>19, <1>t, <1>v, Others DEF SeeClosed, Fail, Set, session, lanes, writerVars, readerVars, streamVars, ExplainInv
<1>20. CASE CloseCredits(e)
  BY <1>20, <1>t, <1>v, Others DEF CloseCredits, Push, Set, session, lanes, writerVars, readerVars, streamVars,
    ExplainInv
<1>21. CASE CloseQueue(e)
  BY <1>21, <1>t, <1>v, Others DEF CloseQueue, Set, session, lanes, writerVars, readerVars, streamVars, ExplainInv
<1>22. CASE CloseStreams(e)
  BY <1>22, <1>t, <1>v, Others DEF CloseStreams, Set, session, lanes, writerVars, readerVars, streamVars, ExplainInv
<1>23. CASE StoreReason(e)
  BY <1>23, <1>t, <1>v, Others DEF StoreReason, ReplaceClosed, Set, session, lanes, writerVars, readerVars, streamVars,
    ExplainInv
<1>24. CASE DropBackend(e)
  BY <1>24, <1>t, <1>v, Others DEF DropBackend, Set, session, lanes, writerVars, readerVars, streamVars, ExplainInv
<1>25. CASE ConnectReturns(e)
  BY <1>25, <1>t, <1>v, Others DEF ConnectReturns, NoteClosed, Set, session, lanes, writerVars, readerVars, streamVars,
    ExplainInv
<1>26. CASE Accept(e)
  BY <1>26, <1>t, <1>v, Others DEF Accept, Set, session, lanes, writerVars, readerVars, streamVars, ExplainInv
<1>27. CASE ClaimIndex(e)
  BY <1>27, <1>t, <1>v, Others DEF ClaimIndex, Set, session, lanes, writerVars, readerVars, streamVars, ExplainInv
<1>28. CASE Register(e)
  BY <1>28, <1>t, <1>v, Others DEF Register, Set, session, lanes, writerVars, readerVars, streamVars, ExplainInv
<1>29. CASE Reserve(e)
  BY <1>29, <1>t, <1>v, Others DEF Reserve, Set, session, lanes, writerVars, readerVars, streamVars, ExplainInv
<1>30. CASE ClaimCredit(e)
  BY <1>30, <1>t, <1>v, Others DEF ClaimCredit, Set, session, lanes, writerVars, readerVars, streamVars, ExplainInv
<1>31. CASE ConnectTimesOut(e)
  BY <1>31, <1>t, <1>v, Others DEF ConnectTimesOut, Push, ReplaceClosed, Set, session, lanes, writerVars, readerVars,
    streamVars, ExplainInv
<1>32. CASE Close(e)
  BY <1>32, <1>t, <1>v, Others DEF Close, Push, ReplaceClosed, Set, session, lanes, writerVars, readerVars, streamVars,
    ExplainInv
<1>33. CASE DropSession(e)
  BY <1>33, <1>t, <1>v, Others DEF DropSession, NoteClosed, Set, session, lanes, writerVars, readerVars, streamVars,
    ExplainInv
<1>34. CASE IdleFires(e)
  BY <1>34, <1>t, <1>v, Others DEF IdleFires, NoteClosed, Set, session, lanes, writerVars, readerVars, streamVars,
    ExplainInv
<1>35. CASE Misbehave(e)
  BY <1>35, <1>t, <1>v, Others DEF Misbehave, Push, Set, session, lanes, writerVars, readerVars, streamVars, ExplainInv
<1>36. CASE OpenUni(e)
  BY <1>36, <1>t, <1>v, Others DEF OpenUni, Set, session, lanes, writerVars, readerVars, streamVars, ExplainInv
<1>37. QED BY <1>e, <1>1, <1>2, <1>3, <1>4, <1>5, <1>6, <1>7, <1>8, <1>9, <1>10, <1>11, <1>12, <1>13, <1>14,
    <1>15, <1>16, <1>17, <1>18, <1>19, <1>20, <1>21, <1>22, <1>23, <1>24, <1>25, <1>26, <1>27,
    <1>28, <1>29, <1>30, <1>31, <1>32, <1>33, <1>34, <1>35, <1>36 DEF System, Environment, Writer,
    Reader, Teardown, Application

\* ConnectExplains, from the order in which the teardown stores the reason and
\* drops the backend.
THEOREM FailedConnectExplains == Spec => []ConnectExplains
<1>1. Init => TypeOK /\ ExplainInv
  <2>1. Init => ExplainInv BY DEF Init, ExplainInv
  <2>2. QED BY <2>1, TypeInit
<1>2. TypeOK /\ ExplainInv /\ [Next]_vars => (TypeOK /\ ExplainInv)'
  <2>1. SUFFICES ASSUME TypeOK, ExplainInv, [Next]_vars PROVE (TypeOK /\ ExplainInv)' OBVIOUS
  <2>2. TypeOK' BY <2>1, TypeStep
  <2>3. CASE UNCHANGED vars BY <2>1, <2>2, <2>3 DEF ExplainInv, vars, session, readerVars
  <2>4. CASE Next
    <3>1. PICK e \in Ends : System(e) \/ Environment(e) BY <2>4 DEF Next
    <3>2. QED BY <2>1, <2>2, <3>1, ExplainAction
  <2>5. QED BY <2>1, <2>3, <2>4
<1>3. TypeOK /\ ExplainInv => ConnectExplains BY DEF ExplainInv, ConnectExplains
<1>4. QED BY <1>1, <1>2, <1>3, PTL DEF Spec

----------------------------------------------------------------------------
(* A stream opened around the arrival of the parameters is credited         *)

\* One step of an end keeps the streams credited.
LEMMA SeededAction ==
  ASSUME TypeOK, StreamsSeeded, NEW e \in Ends, System(e) \/ Environment(e)
  PROVE  StreamsSeeded'
<1>t. /\ limits \in [Ends -> BOOLEAN] /\ credit \in [Ends -> {"zero", "some", "closed"}]
      /\ opening \in [Ends -> {"none", "waiting", "claimed", "live", "failed"}] BY DEF TypeOK
<1>v. StreamsSeeded OBVIOUS
<1>e. System(e) \/ Environment(e) OBVIOUS
<1>1. CASE PickFrame(e)
  BY <1>1, <1>t, <1>v DEF PickFrame, NextOutbound, Set, session, lanes, writerVars, readerVars, streamVars,
    StreamsSeeded
<1>2. CASE FindNothing(e)
  BY <1>2, <1>t, <1>v DEF FindNothing, Set, session, lanes, writerVars, readerVars, streamVars, StreamsSeeded
<1>3. CASE PollClosed(e)
  BY <1>3, <1>t, <1>v DEF PollClosed, Set, session, lanes, writerVars, readerVars, streamVars, StreamsSeeded
<1>4. CASE Transmit(e)
  BY <1>4, <1>t, <1>v DEF Transmit, HasRoom, Push, Set, session, lanes, writerVars, readerVars, streamVars,
    StreamsSeeded
<1>5. CASE WriteBlocks(e)
  BY <1>5, <1>t, <1>v DEF WriteBlocks, HasRoom, Set, session, lanes, writerVars, readerVars, streamVars, StreamsSeeded
<1>6. CASE Interrupt(e)
  BY <1>6, <1>t, <1>v DEF Interrupt, Set, session, lanes, writerVars, readerVars, streamVars, StreamsSeeded
<1>7. CASE WriteFails(e)
  BY <1>7, <1>t, <1>v DEF WriteFails, NoteClosed, Set, session, lanes, writerVars, readerVars, streamVars, StreamsSeeded
<1>8. CASE Flush(e)
  BY <1>8, <1>t, <1>v DEF Flush, HasRoom, Push, Set, session, lanes, writerVars, readerVars, streamVars, StreamsSeeded
<1>9. CASE FlushFails(e)
  BY <1>9, <1>t, <1>v DEF FlushFails, Set, session, lanes, writerVars, readerVars, streamVars, StreamsSeeded
<1>10. CASE Shutdown(e)
  BY <1>10, <1>t, <1>v DEF Shutdown, Push, Set, session, lanes, writerVars, readerVars, streamVars, StreamsSeeded
<1>11. CASE RecvViolation(e)
  BY <1>11, <1>t, <1>v DEF RecvViolation, CanRecv, Incoming, Consumed, Fail, Set, session, lanes, writerVars,
    readerVars, streamVars, StreamsSeeded
<1>12. CASE RecvParams(e)
  BY <1>12, <1>t, <1>v DEF RecvParams, CanRecv, Incoming, Consumed, Set, session, lanes, writerVars, readerVars,
    streamVars, StreamsSeeded
<1>13. CASE SeedStreams(e)
  BY <1>13, <1>t, <1>v DEF SeedStreams, Set, session, lanes, writerVars, readerVars, streamVars, StreamsSeeded
<1>14. CASE Establish(e)
  BY <1>14, <1>t, <1>v DEF Establish, Set, session, lanes, writerVars, readerVars, streamVars, StreamsSeeded
<1>15. CASE RecvStream(e)
  BY <1>15, <1>t, <1>v DEF RecvStream, CanRecv, Incoming, Consumed, Set, session, lanes, writerVars, readerVars,
    streamVars, StreamsSeeded
<1>16. CASE Offer(e)
  BY <1>16, <1>t, <1>v DEF Offer, Fail, Set, session, lanes, writerVars, readerVars, streamVars, StreamsSeeded
<1>17. CASE RecvClose(e)
  BY <1>17, <1>t, <1>v DEF RecvClose, CanRecv, Incoming, Consumed, ReplaceClosed, Set, session, lanes, writerVars,
    readerVars, streamVars, StreamsSeeded
<1>18. CASE RecvEnd(e)
  BY <1>18, <1>t, <1>v DEF RecvEnd, CanRecv, Incoming, Consumed, Fail, Set, session, lanes, writerVars, readerVars,
    streamVars, StreamsSeeded
<1>19. CASE SeeClosed(e)
  BY <1>19, <1>t, <1>v DEF SeeClosed, Fail, Set, session, lanes, writerVars, readerVars, streamVars, StreamsSeeded
<1>20. CASE CloseCredits(e)
  BY <1>20, <1>t, <1>v DEF CloseCredits, Push, Set, session, lanes, writerVars, readerVars, streamVars, StreamsSeeded
<1>21. CASE CloseQueue(e)
  BY <1>21, <1>t, <1>v DEF CloseQueue, Set, session, lanes, writerVars, readerVars, streamVars, StreamsSeeded
<1>22. CASE CloseStreams(e)
  BY <1>22, <1>t, <1>v DEF CloseStreams, Set, session, lanes, writerVars, readerVars, streamVars, StreamsSeeded
<1>23. CASE StoreReason(e)
  BY <1>23, <1>t, <1>v DEF StoreReason, ReplaceClosed, Set, session, lanes, writerVars, readerVars, streamVars,
    StreamsSeeded
<1>24. CASE DropBackend(e)
  BY <1>24, <1>t, <1>v DEF DropBackend, Set, session, lanes, writerVars, readerVars, streamVars, StreamsSeeded
<1>25. CASE ConnectReturns(e)
  BY <1>25, <1>t, <1>v DEF ConnectReturns, NoteClosed, Set, session, lanes, writerVars, readerVars, streamVars,
    StreamsSeeded
<1>26. CASE Accept(e)
  BY <1>26, <1>t, <1>v DEF Accept, Set, session, lanes, writerVars, readerVars, streamVars, StreamsSeeded
<1>27. CASE ClaimIndex(e)
  BY <1>27, <1>t, <1>v DEF ClaimIndex, Set, session, lanes, writerVars, readerVars, streamVars, StreamsSeeded
<1>28. CASE Register(e)
  BY <1>28, <1>t, <1>v DEF Register, Set, session, lanes, writerVars, readerVars, streamVars, StreamsSeeded
<1>29. CASE Reserve(e)
  BY <1>29, <1>t, <1>v DEF Reserve, Set, session, lanes, writerVars, readerVars, streamVars, StreamsSeeded
<1>30. CASE ClaimCredit(e)
  BY <1>30, <1>t, <1>v DEF ClaimCredit, Set, session, lanes, writerVars, readerVars, streamVars, StreamsSeeded
<1>31. CASE ConnectTimesOut(e)
  BY <1>31, <1>t, <1>v DEF ConnectTimesOut, Push, ReplaceClosed, Set, session, lanes, writerVars, readerVars,
    streamVars, StreamsSeeded
<1>32. CASE Close(e)
  BY <1>32, <1>t, <1>v DEF Close, Push, ReplaceClosed, Set, session, lanes, writerVars, readerVars, streamVars,
    StreamsSeeded
<1>33. CASE DropSession(e)
  BY <1>33, <1>t, <1>v DEF DropSession, NoteClosed, Set, session, lanes, writerVars, readerVars, streamVars,
    StreamsSeeded
<1>34. CASE IdleFires(e)
  BY <1>34, <1>t, <1>v DEF IdleFires, NoteClosed, Set, session, lanes, writerVars, readerVars, streamVars, StreamsSeeded
<1>35. CASE Misbehave(e)
  BY <1>35, <1>t, <1>v DEF Misbehave, Push, Set, session, lanes, writerVars, readerVars, streamVars, StreamsSeeded
<1>36. CASE OpenUni(e)
  BY <1>36, <1>t, <1>v DEF OpenUni, Set, session, lanes, writerVars, readerVars, streamVars, StreamsSeeded
<1>37. QED BY <1>e, <1>1, <1>2, <1>3, <1>4, <1>5, <1>6, <1>7, <1>8, <1>9, <1>10, <1>11, <1>12, <1>13, <1>14,
    <1>15, <1>16, <1>17, <1>18, <1>19, <1>20, <1>21, <1>22, <1>23, <1>24, <1>25, <1>26, <1>27,
    <1>28, <1>29, <1>30, <1>31, <1>32, <1>33, <1>34, <1>35, <1>36 DEF System, Environment, Writer,
    Reader, Teardown, Application

----------------------------------------------------------------------------
(* Two endpoints that follow the protocol never accuse each other           *)

\* What is appended to and taken from a lane.
LEMMA WithoutAppend ==
  ASSUME NEW T, NEW s \in Seq(T), NEW y, NEW x, x # y, Without(s, y)
  PROVE  Without(Append(s, x), y)
BY DEF Without

\* Taking the head.
LEMMA WithoutTail ==
  ASSUME NEW T, NEW s \in Seq(T), NEW y, s # <<>>, Without(s, y)
  PROVE  Head(s) # y /\ Without(Tail(s), y)
<1>1. PICK n \in Nat : n = Len(s) OBVIOUS
<1>2. n > 0 /\ Len(Tail(s)) = n - 1 /\ Head(s) = s[1] BY <1>1
<1>3. \A i \in 1 .. n - 1 : Tail(s)[i] = s[i + 1] BY <1>1, <1>2
<1>4. \A i \in 1 .. n : s[i] # y BY <1>1 DEF Without
<1>5. \A i \in 1 .. n - 1 : Tail(s)[i] # y
  <2>1. TAKE i \in 1 .. n - 1
  <2>2. i + 1 \in 1 .. n /\ i + 1 # 1 BY <1>2
  <2>3. QED BY <2>2, <1>3, <1>4
<1>6. QED BY <1>2, <1>4, <1>5 DEF Without

\* The parameters stay first when something else is appended.
LEMMA OnlyFirstAppend ==
  ASSUME NEW T, NEW s \in Seq(T), NEW x, x # "params", OnlyFirst(s)
  PROVE  OnlyFirst(Append(s, x))
<1>1. PICK n \in Nat : n = Len(s) OBVIOUS
<1>2. n > 0 /\ Len(Append(s, x)) = n + 1 BY <1>1 DEF OnlyFirst
<1>3. \A i \in 1 .. n + 1 : Append(s, x)[i] = IF i = n + 1 THEN x ELSE s[i] BY <1>1
<1>4. QED BY <1>1, <1>2, <1>3 DEF OnlyFirst

\* Once the parameters are taken off the front none are left.
LEMMA OnlyFirstTail ==
  ASSUME NEW T, NEW s \in Seq(T), OnlyFirst(s)
  PROVE  s # <<>> /\ Head(s) = "params" /\ NoParams(Tail(s))
<1>1. PICK n \in Nat : n = Len(s) OBVIOUS
<1>2. n > 0 /\ Len(Tail(s)) = n - 1 /\ Head(s) = s[1] BY <1>1 DEF OnlyFirst
<1>3. \A i \in 1 .. n - 1 : Tail(s)[i] = s[i + 1] BY <1>1, <1>2
<1>4. \A i \in 1 .. n : i # 1 => s[i] # "params" BY <1>1 DEF OnlyFirst
<1>5. \A i \in 1 .. n - 1 : Tail(s)[i] # "params"
  <2>1. TAKE i \in 1 .. n - 1
  <2>2. i + 1 \in 1 .. n /\ i + 1 # 1 BY <1>2
  <2>3. QED BY <2>2, <1>3, <1>4
<1>6. QED BY <1>2, <1>5 DEF OnlyFirst, NoParams, Without

\* The parameters alone, and nothing.
LEMMA ShortLanes ==
  /\ OnlyFirst(<<"params">>) /\ Without(<<"params">>, "bad")
  /\ \A y : Without(<<>>, y)
  /\ \A x : Append(<<>>, x) = <<x>>
BY DEF OnlyFirst, Without

\* A step that touches neither the lane nor the wire of an end leaves its
\* parameters where they are.
LEMMA LineKept ==
  ASSUME NEW p \in Ends, Line(p),
         wire'[p] = wire[p], control'[p] = control[p], frame'[p] = frame[p],
         writer'[p] = writer[p], heard'[Other(p)] = heard[Other(p)]
  PROVE  Line(p)'
<1>1. NotBad(p)' BY DEF Line, NotBad
<1>2. /\ Sending(p)' = Sending(p) /\ Spent(p)' = Spent(p) BY DEF Sending, Spent
<1>3. /\ Read(p) => Read(p)' 
      /\ OnWire(p) => OnWire(p)' BY <1>2 DEF Read, OnWire
<1>4. InHand(p) => InHand(p)' BY <1>2 DEF InHand
<1>5. OnLane(p) => OnLane(p)' BY DEF OnLane
<1>6. GivenUp(p) => GivenUp(p)' BY DEF GivenUp
<1>7. QED BY <1>1, <1>3, <1>4, <1>5, <1>6 DEF Line

\* A close frame joins the end of the lane.
LEMMA LinePushed ==
  ASSUME TypeOK, NEW p \in Ends, Line(p), NEW x \in {"app", "conn"},
         wire'[p] = wire[p], control'[p] = Append(control[p], x), frame'[p] = frame[p],
         writer'[p] = writer[p], heard'[Other(p)] = heard[Other(p)]
  PROVE  Line(p)'
<1>t. control[p] \in Seq(FrameKinds) BY DEF TypeOK
<1>1. /\ Without(control[p], "bad") => Without(control'[p], "bad")
      /\ NoParams(control[p]) => NoParams(control'[p]) BY <1>t, WithoutAppend DEF NoParams
<1>2. OnlyFirst(control[p]) => OnlyFirst(control'[p]) BY <1>t, OnlyFirstAppend
<1>3. NotBad(p)' BY <1>1 DEF Line, NotBad
<1>4. Spent(p) => Spent(p)' BY <1>1 DEF Spent, Sending
<1>5. /\ Read(p) => Read(p)'
      /\ OnWire(p) => OnWire(p)' BY <1>4 DEF Read, OnWire
<1>6. InHand(p) => InHand(p)' BY <1>1 DEF InHand, Sending
<1>7. OnLane(p) => OnLane(p)' BY <1>2 DEF OnLane
<1>8. GivenUp(p) => GivenUp(p)' BY DEF GivenUp
<1>9. QED BY <1>3, <1>5, <1>6, <1>7, <1>8 DEF Line

\* The writer takes its lane in order, so that the parameters leave first.
LEMMA LineWriter ==
  ASSUME TypeOK, NEW e \in Ends, Line(e), Writer(e)
  PROVE  Line(e)'
<1>t. /\ control \in [Ends -> Seq(FrameKinds)] /\ wire \in [Ends -> Seq(FrameKinds \cup {"eof"})]
      /\ frame \in [Ends -> FrameKinds] /\ heard \in [Ends -> BOOLEAN]
      /\ writer \in [Ends -> {"run", "polled", "send", "pending", "flush", "shut",
                              "done", "dropped"}] BY DEF TypeOK
<1>l. /\ NotBad(e)
      /\ Read(e) \/ OnWire(e) \/ InHand(e) \/ OnLane(e) \/ GivenUp(e) BY DEF Line
<1>o. Other(e) \in Ends /\ Other(e) # e BY Others
<1>h. ASSUME control[e] # <<>>, control'[e] = Tail(control[e])
      PROVE  /\ Head(control[e]) # "bad" /\ Without(control'[e], "bad")
             /\ NoParams(control[e]) => Head(control[e]) # "params" /\ NoParams(control'[e])
             /\ OnlyFirst(control[e]) => Head(control[e]) = "params" /\ NoParams(control'[e])
  <2>1. control[e] \in Seq(FrameKinds) /\ Without(control[e], "bad") BY <1>t, <1>l DEF NotBad
  <2>2. Head(control[e]) # "bad" /\ Without(control'[e], "bad") BY <2>1, <1>h, WithoutTail
  <2>3. NoParams(control[e]) => Head(control[e]) # "params" /\ NoParams(control'[e])
    BY <2>1, <1>h, WithoutTail DEF NoParams
  <2>4. OnlyFirst(control[e]) => Head(control[e]) = "params" /\ NoParams(control'[e]) BY <2>1, <1>h, OnlyFirstTail
  <2>5. QED BY <2>2, <2>3, <2>4
<1>p. ASSUME NEW x, x # "bad", wire'[e] = Append(wire[e], x)
      PROVE  /\ Without(wire'[e], "bad")
             /\ x # "params" /\ NoParams(wire[e]) => NoParams(wire'[e])
             /\ x # "params" /\ OnlyFirst(wire[e]) => OnlyFirst(wire'[e])
             /\ x = "params" /\ wire[e] = <<>> => OnlyFirst(wire'[e])
  <2>1. wire[e] \in Seq(FrameKinds \cup {"eof"}) /\ Without(wire[e], "bad") BY <1>t, <1>l DEF NotBad
  <2>2. Without(wire'[e], "bad") BY <2>1, <1>p, WithoutAppend
  <2>3. x # "params" /\ NoParams(wire[e]) => NoParams(wire'[e]) BY <2>1, <1>p, WithoutAppend DEF NoParams
  <2>4. x # "params" /\ OnlyFirst(wire[e]) => OnlyFirst(wire'[e]) BY <2>1, <1>p, OnlyFirstAppend
  <2>5. x = "params" /\ wire[e] = <<>> => OnlyFirst(wire'[e]) BY <1>p, ShortLanes
  <2>6. QED BY <2>2, <2>3, <2>4, <2>5
<1>1. CASE PickFrame(e)
  <2>1. /\ writer[e] = "run" /\ writer'[e] = "send" /\ wire' = wire /\ heard' = heard
    BY <1>1, <1>t DEF PickFrame, Set, readerVars
  <2>2. Read(e) \/ OnWire(e) \/ OnLane(e) BY <2>1, <1>l DEF InHand, GivenUp, Sending
  <2>3. CASE control[e] # <<>>
    <3>1. frame'[e] = Head(control[e]) /\ control'[e] = Tail(control[e])
      BY <1>1, <1>t, <2>3 DEF PickFrame, NextOutbound, Set
    <3>2. /\ Head(control[e]) # "bad" /\ Without(control'[e], "bad")
          /\ NoParams(control[e]) => Head(control[e]) # "params" /\ NoParams(control'[e])
          /\ OnlyFirst(control[e]) => Head(control[e]) = "params" /\ NoParams(control'[e]) BY <3>1, <2>3, <1>h
    <3>3. NotBad(e)' BY <2>1, <3>1, <3>2, <1>l DEF NotBad
    <3>4. Spent(e) => Spent(e)' BY <3>1, <3>2 DEF Spent
    <3>5. /\ Read(e) => Read(e)'
          /\ OnWire(e) => OnWire(e)' BY <2>1, <3>4 DEF Read, OnWire
    <3>6. OnLane(e) => InHand(e)' BY <2>1, <3>1, <3>2 DEF OnLane, InHand, Sending
    <3>7. QED BY <2>2, <3>3, <3>5, <3>6 DEF Line
  <2>4. CASE control[e] = <<>>
    <3>1. frame'[e] = "stream" /\ control' = control BY <1>1, <1>t, <2>4 DEF PickFrame, NextOutbound, Set
    <3>2. NotBad(e)' BY <2>1, <3>1, <1>l DEF NotBad
    <3>3. Spent(e) => Spent(e)' BY <3>1 DEF Spent
    <3>4. /\ Read(e) => Read(e)'
          /\ OnWire(e) => OnWire(e)' BY <2>1, <3>3 DEF Read, OnWire
    <3>5. ~OnLane(e) BY <2>4 DEF OnLane, OnlyFirst
    <3>6. QED BY <2>2, <3>2, <3>4, <3>5 DEF Line
  <2>5. QED BY <2>3, <2>4
<1>2. CASE FindNothing(e) \/ PollClosed(e)
  <2>1. /\ writer[e] \in {"run", "polled"} /\ writer'[e] \in {"run", "polled", "flush", "shut"}
        /\ wire' = wire /\ heard' = heard /\ frame' = frame /\ control' = control
        /\ writer'[e] = "shut" => control[e] = <<>>
    <3>1. CASE FindNothing(e) BY <3>1, <1>t DEF FindNothing, Set, readerVars, lanes
    <3>2. CASE PollClosed(e)
      <4>1. writer' = [writer EXCEPT ![e] = "flush"] \/ writer' = [writer EXCEPT ![e] = "run"]
        BY <3>2 DEF PollClosed, Set
      <4>2. writer[e] = "polled" /\ wire' = wire /\ heard' = heard /\ frame' = frame /\ control' = control
        BY <3>2 DEF PollClosed, readerVars, lanes
      <4>3. QED BY <4>1, <4>2, <1>t
    <3>3. QED BY <1>2, <3>1, <3>2
  <2>2. Read(e) \/ OnWire(e) \/ OnLane(e) BY <2>1, <1>l DEF InHand, GivenUp, Sending
  <2>3. NotBad(e)' BY <2>1, <1>l DEF NotBad
  <2>4. Spent(e) => Spent(e)' BY <2>1 DEF Spent, Sending
  <2>5. /\ Read(e) => Read(e)'
        /\ OnWire(e) => OnWire(e)' BY <2>1, <2>4 DEF Read, OnWire
  <2>6. OnLane(e) => OnLane(e)' BY <2>1 DEF OnLane, OnlyFirst
  <2>7. QED BY <2>2, <2>3, <2>5, <2>6 DEF Line
<1>3. CASE Transmit(e)
  <2>1. /\ Sending(e) /\ writer'[e] = "run" /\ wire'[e] = Append(wire[e], frame[e])
        /\ heard' = heard /\ control' = control /\ frame'[e] = "params"
    BY <1>3, <1>t DEF Transmit, Push, Set, Sending, readerVars, lanes
  <2>2. Read(e) \/ OnWire(e) \/ InHand(e) BY <2>1, <1>l DEF OnLane, GivenUp, Sending
  <2>3. frame[e] # "bad" /\ Without(control[e], "bad") BY <1>l DEF NotBad
  <2>4. /\ Without(wire'[e], "bad")
        /\ frame[e] # "params" /\ NoParams(wire[e]) => NoParams(wire'[e])
        /\ frame[e] # "params" /\ OnlyFirst(wire[e]) => OnlyFirst(wire'[e])
        /\ frame[e] = "params" /\ wire[e] = <<>> => OnlyFirst(wire'[e]) BY <2>1, <2>3, <1>p
  <2>5. NotBad(e)' BY <2>1, <2>3, <2>4 DEF NotBad
  <2>6. ~Sending(e)' /\ (NoParams(control[e]) => Spent(e)') BY <2>1 DEF Sending, Spent
  <2>7. Read(e) => Read(e)' BY <2>1, <2>4, <2>6 DEF Read, Spent
  <2>8. OnWire(e) => OnWire(e)' BY <2>1, <2>4, <2>6 DEF OnWire, Spent
  <2>9. InHand(e) => OnWire(e)' BY <2>1, <2>4, <2>6 DEF OnWire, InHand
  <2>10. QED BY <2>2, <2>5, <2>7, <2>8, <2>9 DEF Line
<1>4. CASE WriteBlocks(e)
  <2>1. /\ writer[e] = "send" /\ writer'[e] = "pending"
        /\ wire' = wire /\ heard' = heard /\ frame' = frame /\ control' = control
    BY <1>4, <1>t DEF WriteBlocks, Set, readerVars, lanes
  <2>2. Read(e) \/ OnWire(e) \/ InHand(e) BY <2>1, <1>l DEF OnLane, GivenUp, Sending
  <2>3. NotBad(e)' BY <2>1, <1>l DEF NotBad
  <2>4. Spent(e) => Spent(e)' BY <2>1 DEF Spent, Sending
  <2>5. /\ Read(e) => Read(e)'
        /\ OnWire(e) => OnWire(e)' BY <2>1, <2>4 DEF Read, OnWire
  <2>6. InHand(e) => InHand(e)' BY <2>1 DEF InHand, Sending
  <2>7. QED BY <2>2, <2>3, <2>5, <2>6 DEF Line
<1>5. CASE Interrupt(e) \/ WriteFails(e) \/ FlushFails(e)
  <2>1. /\ writer[e] \in {"send", "pending", "flush"} /\ writer'[e] \in {"dropped", "shut"}
        /\ wire' = wire /\ heard' = heard /\ frame' = frame /\ control' = control
    <3>1. CASE Interrupt(e) BY <3>1, <1>t DEF Interrupt, Set, readerVars, lanes
    <3>2. CASE WriteFails(e) BY <3>2, <1>t DEF WriteFails, Set, readerVars, lanes
    <3>3. CASE FlushFails(e) BY <3>3, <1>t DEF FlushFails, Set, readerVars, lanes
    <3>4. QED BY <1>5, <3>1, <3>2, <3>3
  <2>2. Read(e) \/ OnWire(e) \/ InHand(e) \/ OnLane(e) BY <2>1, <1>l DEF GivenUp
  <2>3. NotBad(e)' BY <2>1, <1>l DEF NotBad
  <2>4. Spent(e) => Spent(e)' BY <2>1 DEF Spent, Sending
  <2>5. /\ Read(e) => Read(e)'
        /\ OnWire(e) => OnWire(e)' BY <2>1, <2>4 DEF Read, OnWire
  <2>6. /\ InHand(e) => GivenUp(e)'
        /\ OnLane(e) => GivenUp(e)' BY <2>1 DEF InHand, OnLane, GivenUp
  <2>7. QED BY <2>2, <2>3, <2>5, <2>6 DEF Line
<1>6. CASE Flush(e)
  <2>1. writer[e] = "flush" /\ heard' = heard /\ frame' = frame BY <1>6 DEF Flush, readerVars
  <2>2. ~Sending(e) /\ (Read(e) \/ OnWire(e) \/ OnLane(e)) BY <2>1, <1>l DEF InHand, GivenUp, Sending
  <2>3. CASE control[e] = <<>>
    <3>1. writer'[e] = "shut" /\ wire' = wire /\ control' = control BY <1>6, <1>t, <2>3 DEF Flush, Set
    <3>2. NotBad(e)' BY <2>1, <3>1, <1>l DEF NotBad
    <3>3. Spent(e) => Spent(e)' BY <3>1 DEF Spent, Sending
    <3>4. /\ Read(e) => Read(e)'
          /\ OnWire(e) => OnWire(e)' BY <2>1, <3>1, <3>3 DEF Read, OnWire
    <3>5. ~OnLane(e) BY <2>3 DEF OnLane, OnlyFirst
    <3>6. QED BY <2>2, <3>2, <3>4, <3>5 DEF Line
  <2>4. CASE control[e] # <<>>
    <3>1. /\ wire'[e] = Append(wire[e], Head(control[e]))
          /\ control'[e] = Tail(control[e]) /\ writer' = writer BY <1>6, <1>t, <2>4 DEF Flush, Push, Set
    <3>2. /\ Head(control[e]) # "bad" /\ Without(control'[e], "bad")
          /\ NoParams(control[e]) => Head(control[e]) # "params" /\ NoParams(control'[e])
          /\ OnlyFirst(control[e]) => Head(control[e]) = "params" /\ NoParams(control'[e]) BY <3>1, <2>4, <1>h
    <3>3. PICK x : x = Head(control[e]) OBVIOUS
    <3>4. /\ Without(wire'[e], "bad")
          /\ x # "params" /\ NoParams(wire[e]) => NoParams(wire'[e])
          /\ x # "params" /\ OnlyFirst(wire[e]) => OnlyFirst(wire'[e])
          /\ x = "params" /\ wire[e] = <<>> => OnlyFirst(wire'[e]) BY <3>1, <3>2, <3>3, <1>p
    <3>5. NotBad(e)' BY <2>1, <3>2, <3>4, <1>l DEF NotBad
    <3>6. ~Sending(e)' /\ (NoParams(control'[e]) => Spent(e)') BY <2>1, <3>1 DEF Sending, Spent
    <3>7. Read(e) => Read(e)' BY <2>1, <3>2, <3>3, <3>4, <3>6 DEF Read, Spent
    <3>8. OnWire(e) => OnWire(e)' BY <2>1, <3>2, <3>3, <3>4, <3>6 DEF OnWire, Spent
    <3>9. OnLane(e) => OnWire(e)' BY <2>1, <3>2, <3>3, <3>4, <3>6 DEF OnWire, OnLane
    <3>10. QED BY <2>2, <3>5, <3>7, <3>8, <3>9 DEF Line
  <2>5. QED BY <2>3, <2>4
<1>7. CASE Shutdown(e)
  <2>1. /\ writer[e] = "shut" /\ writer'[e] = "done" /\ wire'[e] = Append(wire[e], "eof")
        /\ heard' = heard /\ frame' = frame /\ control' = control
    BY <1>7, <1>t DEF Shutdown, Push, Set, readerVars, lanes
  <2>2. ~Sending(e) /\ ~Sending(e)' /\ (Read(e) \/ OnWire(e) \/ GivenUp(e)) BY <2>1, <1>l DEF InHand, OnLane, Sending
  <2>3. /\ Without(wire'[e], "bad")
        /\ NoParams(wire[e]) => NoParams(wire'[e])
        /\ OnlyFirst(wire[e]) => OnlyFirst(wire'[e]) BY <2>1, <1>p
  <2>4. NotBad(e)' BY <2>1, <2>3, <1>l DEF NotBad
  <2>5. Spent(e) => Spent(e)' BY <2>1, <2>2 DEF Spent
  <2>6. /\ Read(e) => Read(e)'
        /\ OnWire(e) => OnWire(e)' BY <2>1, <2>3, <2>5 DEF Read, OnWire
  <2>7. GivenUp(e) => GivenUp(e)' BY <2>1, ShortLanes DEF GivenUp
  <2>8. QED BY <2>2, <2>4, <2>6, <2>7 DEF Line
<1>8. QED BY <1>1, <1>2, <1>3, <1>4, <1>5, <1>6, <1>7 DEF Writer

\* A reader finds nothing to object to in what an honest peer sent.
LEMMA NoViolation ==
  ASSUME TypeOK, NEW e \in Ends, Line(Other(e)), RecvViolation(e)
  PROVE  FALSE
<1>o. Other(e) \in Ends /\ Other(Other(e)) = e BY Others
<1>1. PICK s : s = wire[Other(e)] OBVIOUS
<1>2. s \in Seq(FrameKinds \cup {"eof"}) /\ heard[e] \in BOOLEAN BY <1>1, <1>o DEF TypeOK
<1>r. RecvViolation(e) /\ Line(Other(e)) OBVIOUS
<1>3. s # <<>> BY <1>r, <1>1 DEF RecvViolation, CanRecv
<1>b. \/ Head(s) = "bad"
      \/ Head(s) # "eof" /\ (Head(s) = "params" <=> heard[e]) BY <1>r, <1>1 DEF RecvViolation, Incoming
<1>w. Without(s, "bad") BY <1>r, <1>1 DEF Line, NotBad
<1>4. Head(s) # "bad" BY <1>2, <1>3, <1>w, WithoutTail
<1>5. CASE Read(Other(e))
  <2>1. heard[e] /\ Without(s, "params") BY <1>1, <1>5, <1>o DEF Read, NoParams
  <2>2. Head(s) # "params" BY <1>2, <1>3, <2>1, WithoutTail
  <2>3. QED BY <2>1, <2>2, <1>b, <1>4
<1>6. CASE OnWire(Other(e))
  <2>1. ~heard[e] /\ OnlyFirst(s) BY <1>1, <1>6, <1>o DEF OnWire
  <2>2. Head(s) = "params" BY <1>2, <2>1, OnlyFirstTail
  <2>3. QED BY <2>1, <2>2, <1>b, <1>4
<1>7. CASE InHand(Other(e)) \/ OnLane(Other(e)) BY <1>1, <1>3, <1>7 DEF InHand, OnLane
<1>8. CASE GivenUp(Other(e))
  <2>1. s = <<"eof">> BY <1>1, <1>3, <1>8 DEF GivenUp
  <2>2. Head(s) = "eof" BY <2>1
  <2>3. QED BY <2>2, <1>b, <1>4
<1>9. QED BY <1>r, <1>5, <1>6, <1>7, <1>8 DEF Line

\* The reader takes the parameters off the front of the wire, and nothing
\* before them.
LEMMA LineRead ==
  ASSUME TypeOK, NEW e \in Ends, Line(Other(e)), wire[Other(e)] # <<>>,
         wire'[Other(e)] = Tail(wire[Other(e)]), UNCHANGED <<control, frame, writer>>,
         \/ Head(wire[Other(e)]) = "params" /\ ~heard[e] /\ heard'[e] = TRUE
         \/ heard[e] /\ heard' = heard
         \/ Head(wire[Other(e)]) = "eof" /\ heard' = heard
  PROVE  Line(Other(e))'
<1>o. Other(e) \in Ends /\ Other(Other(e)) = e BY Others
<1>p. PICK p : p = Other(e) OBVIOUS
<1>1. PICK s : s = wire[p] OBVIOUS
<1>2. s \in Seq(FrameKinds \cup {"eof"}) /\ s # <<>> /\ wire'[p] = Tail(s) /\ heard[e] \in BOOLEAN
  BY <1>1, <1>p, <1>o DEF TypeOK
<1>3. NotBad(p) /\ (Read(p) \/ OnWire(p) \/ InHand(p) \/ OnLane(p) \/ GivenUp(p)) BY <1>p DEF Line
<1>4. Without(wire'[p], "bad") BY <1>1, <1>2, <1>3, WithoutTail DEF NotBad
<1>5. NotBad(p)' BY <1>3, <1>4 DEF NotBad
<1>6. Spent(p)' = Spent(p) BY DEF Spent, Sending
<1>7. CASE Read(p)
  <2>1. Head(s) # "params" /\ NoParams(Tail(s)) /\ heard[e]
    BY <1>1, <1>2, <1>7, <1>p, <1>o, WithoutTail DEF Read, NoParams
  <2>2. heard'[e] BY <2>1
  <2>3. Read(p)' BY <2>1, <2>2, <1>2, <1>6, <1>7, <1>p, <1>o DEF Read
  <2>4. QED BY <2>3, <1>5, <1>p DEF Line
<1>8. CASE OnWire(p)
  <2>1. Head(s) = "params" /\ NoParams(Tail(s)) /\ ~heard[e] BY <1>1, <1>2, <1>8, <1>p, <1>o, OnlyFirstTail DEF OnWire
  <2>2. heard'[e] BY <2>1, <1>1, <1>p
  <2>3. Read(p)' BY <2>1, <2>2, <1>2, <1>6, <1>8, <1>p, <1>o DEF Read, OnWire
  <2>4. QED BY <2>3, <1>5, <1>p DEF Line
<1>9. CASE InHand(p) \/ OnLane(p) BY <1>1, <1>2, <1>9 DEF InHand, OnLane
<1>10. CASE GivenUp(p)
  <2>1. s = <<"eof">> /\ writer[p] = "done" /\ ~heard[e] BY <1>1, <1>2, <1>10, <1>p, <1>o DEF GivenUp
  <2>2. Head(s) = "eof" /\ Tail(s) = <<>> BY <2>1
  <2>3. ~heard'[e] BY <2>1, <2>2, <1>1, <1>p
  <2>4. GivenUp(p)' BY <2>1, <2>2, <2>3, <1>2, <1>p, <1>o DEF GivenUp
  <2>5. QED BY <2>4, <1>5, <1>p DEF Line
<1>11. QED BY <1>3, <1>7, <1>8, <1>9, <1>10

\* One step of an end leaves the parameters of an honest end where they can
\* arrive first and once.
LEMMA LineAction ==
  ASSUME TypeOK, NEW p \in Ends, Line(p), ~May(p, "bad"),
         NEW e \in Ends, System(e) \/ Environment(e)
  PROVE  Line(p)'
<1>t. TypeOK OBVIOUS
<1>v. Line(p) OBVIOUS
<1>m. ~May(p, "bad") OBVIOUS
<1>o. /\ Other(e) \in Ends /\ Other(e) # e /\ Other(Other(e)) = e
      /\ p = e \/ p = Other(e) BY Others
<1>e. System(e) \/ Environment(e) OBVIOUS
<1>1. CASE PickFrame(e)
  <2>1. CASE p = e BY <1>1, <1>t, <1>v, <2>1, LineWriter DEF Writer
  <2>2. CASE p # e
    <3>1. wire'[p] = wire[p] /\ control'[p] = control[p] /\ frame'[p] = frame[p]
          /\ writer'[p] = writer[p] /\ heard'[Other(p)] = heard[Other(p)]
      <4>1. CASE control[e] = <<>> BY <1>1, <1>t, <2>2, <4>1 DEF PickFrame, NextOutbound, Set, lanes, readerVars, TypeOK
      <4>2. CASE control[e] # <<>> BY <1>1, <1>t, <2>2, <4>2 DEF PickFrame, NextOutbound, Set, lanes, readerVars, TypeOK
      <4>3. QED BY <1>1, <4>1, <4>2 DEF PickFrame, Set
    <3>2. QED BY <3>1, <1>v, LineKept
  <2>3. QED BY <2>1, <2>2
<1>2. CASE FindNothing(e)
  <2>1. CASE p = e BY <1>2, <1>t, <1>v, <2>1, LineWriter DEF Writer
  <2>2. CASE p # e
    <3>1. wire'[p] = wire[p] /\ control'[p] = control[p] /\ frame'[p] = frame[p]
          /\ writer'[p] = writer[p] /\ heard'[Other(p)] = heard[Other(p)]
      BY <1>2, <1>t, <2>2 DEF FindNothing, Set, lanes, readerVars
    <3>2. QED BY <3>1, <1>v, LineKept
  <2>3. QED BY <2>1, <2>2
<1>3. CASE PollClosed(e)
  <2>1. CASE p = e BY <1>3, <1>t, <1>v, <2>1, LineWriter DEF Writer
  <2>2. CASE p # e
    <3>1. wire'[p] = wire[p] /\ control'[p] = control[p] /\ frame'[p] = frame[p]
          /\ writer'[p] = writer[p] /\ heard'[Other(p)] = heard[Other(p)]
      <4>1. CASE writer' = [writer EXCEPT ![e] = "flush"]
        BY <1>3, <1>t, <2>2, <4>1 DEF PollClosed, Set, lanes, readerVars, TypeOK
      <4>2. CASE writer' = [writer EXCEPT ![e] = "run"]
        BY <1>3, <1>t, <2>2, <4>2 DEF PollClosed, Set, lanes, readerVars, TypeOK
      <4>3. QED BY <1>3, <4>1, <4>2 DEF PollClosed, Set
    <3>2. QED BY <3>1, <1>v, LineKept
  <2>3. QED BY <2>1, <2>2
<1>4. CASE Transmit(e)
  <2>1. CASE p = e BY <1>4, <1>t, <1>v, <2>1, LineWriter DEF Writer
  <2>2. CASE p # e
    <3>1. wire'[p] = wire[p] /\ control'[p] = control[p] /\ frame'[p] = frame[p]
          /\ writer'[p] = writer[p] /\ heard'[Other(p)] = heard[Other(p)]
      BY <1>4, <1>t, <2>2 DEF Transmit, HasRoom, Push, Set, lanes, readerVars
    <3>2. QED BY <3>1, <1>v, LineKept
  <2>3. QED BY <2>1, <2>2
<1>5. CASE WriteBlocks(e)
  <2>1. CASE p = e BY <1>5, <1>t, <1>v, <2>1, LineWriter DEF Writer
  <2>2. CASE p # e
    <3>1. wire'[p] = wire[p] /\ control'[p] = control[p] /\ frame'[p] = frame[p]
          /\ writer'[p] = writer[p] /\ heard'[Other(p)] = heard[Other(p)]
      BY <1>5, <1>t, <2>2 DEF WriteBlocks, HasRoom, Set, lanes, readerVars
    <3>2. QED BY <3>1, <1>v, LineKept
  <2>3. QED BY <2>1, <2>2
<1>6. CASE Interrupt(e)
  <2>1. CASE p = e BY <1>6, <1>t, <1>v, <2>1, LineWriter DEF Writer
  <2>2. CASE p # e
    <3>1. wire'[p] = wire[p] /\ control'[p] = control[p] /\ frame'[p] = frame[p]
          /\ writer'[p] = writer[p] /\ heard'[Other(p)] = heard[Other(p)]
      BY <1>6, <1>t, <2>2 DEF Interrupt, Set, lanes, readerVars
    <3>2. QED BY <3>1, <1>v, LineKept
  <2>3. QED BY <2>1, <2>2
<1>7. CASE WriteFails(e)
  <2>1. CASE p = e BY <1>7, <1>t, <1>v, <2>1, LineWriter DEF Writer
  <2>2. CASE p # e
    <3>1. wire'[p] = wire[p] /\ control'[p] = control[p] /\ frame'[p] = frame[p]
          /\ writer'[p] = writer[p] /\ heard'[Other(p)] = heard[Other(p)]
      BY <1>7, <1>t, <2>2 DEF WriteFails, NoteClosed, Set, lanes, readerVars
    <3>2. QED BY <3>1, <1>v, LineKept
  <2>3. QED BY <2>1, <2>2
<1>8. CASE Flush(e)
  <2>1. CASE p = e BY <1>8, <1>t, <1>v, <2>1, LineWriter DEF Writer
  <2>2. CASE p # e
    <3>1. wire'[p] = wire[p] /\ control'[p] = control[p] /\ frame'[p] = frame[p]
          /\ writer'[p] = writer[p] /\ heard'[Other(p)] = heard[Other(p)]
      <4>1. CASE control[e] = <<>> BY <1>8, <1>t, <2>2, <4>1 DEF Flush, HasRoom, Push, Set, lanes, readerVars, TypeOK
      <4>2. CASE control[e] # <<>> BY <1>8, <1>t, <2>2, <4>2 DEF Flush, HasRoom, Push, Set, lanes, readerVars, TypeOK
      <4>3. QED BY <1>8, <4>1, <4>2 DEF Flush, Set
    <3>2. QED BY <3>1, <1>v, LineKept
  <2>3. QED BY <2>1, <2>2
<1>9. CASE FlushFails(e)
  <2>1. CASE p = e BY <1>9, <1>t, <1>v, <2>1, LineWriter DEF Writer
  <2>2. CASE p # e
    <3>1. wire'[p] = wire[p] /\ control'[p] = control[p] /\ frame'[p] = frame[p]
          /\ writer'[p] = writer[p] /\ heard'[Other(p)] = heard[Other(p)]
      BY <1>9, <1>t, <2>2 DEF FlushFails, Set, lanes, readerVars
    <3>2. QED BY <3>1, <1>v, LineKept
  <2>3. QED BY <2>1, <2>2
<1>10. CASE Shutdown(e)
  <2>1. CASE p = e BY <1>10, <1>t, <1>v, <2>1, LineWriter DEF Writer
  <2>2. CASE p # e
    <3>1. wire'[p] = wire[p] /\ control'[p] = control[p] /\ frame'[p] = frame[p]
          /\ writer'[p] = writer[p] /\ heard'[Other(p)] = heard[Other(p)]
      BY <1>10, <1>t, <2>2 DEF Shutdown, Push, Set, lanes, readerVars
    <3>2. QED BY <3>1, <1>v, LineKept
  <2>3. QED BY <2>1, <2>2
<1>11. CASE RecvViolation(e)
  <2>1. CASE p = e
    <3>1. wire'[p] = wire[p] /\ control'[p] = control[p] /\ frame'[p] = frame[p]
        /\ writer'[p] = writer[p] /\ heard'[Other(p)] = heard[Other(p)]
      BY <1>11, <1>o, <1>t, <2>1 DEF RecvViolation, Consumed, lanes, writerVars, TypeOK
    <3>2. QED BY <3>1, <1>v, LineKept
  <2>2. CASE p = Other(e) BY <1>11, <1>t, <1>v, <2>2, NoViolation
  <2>3. QED BY <2>1, <2>2, <1>o
<1>12. CASE RecvParams(e)
  <2>1. /\ wire[Other(e)] # <<>> /\ wire' = [wire EXCEPT ![Other(e)] = Tail(@)]
        /\ control' = control /\ frame' = frame /\ writer' = writer
        /\ Head(wire[Other(e)]) = "params" /\ ~heard[e] /\ heard' = [heard EXCEPT ![e] = TRUE]
    BY <1>12 DEF RecvParams, CanRecv, Incoming, Consumed, Set, lanes, writerVars, readerVars
  <2>2. wire \in [Ends -> Seq(FrameKinds \cup {"eof"})] /\ heard \in [Ends -> BOOLEAN] BY <1>t DEF TypeOK
  <2>3. CASE p = e
    <3>1. wire'[p] = wire[p] /\ control'[p] = control[p] /\ frame'[p] = frame[p]
        /\ writer'[p] = writer[p] /\ heard'[Other(p)] = heard[Other(p)] BY <2>1, <2>2, <2>3, <1>o
    <3>2. QED BY <3>1, <1>v, LineKept
  <2>4. CASE p = Other(e) BY <2>1, <2>2, <2>4, <1>t, <1>v, <1>o, LineRead
  <2>5. QED BY <2>3, <2>4, <1>o
<1>13. CASE SeedStreams(e) BY <1>13, <1>v, LineKept DEF SeedStreams, lanes, writerVars, readerVars
<1>14. CASE Establish(e) BY <1>14, <1>v, LineKept DEF Establish, lanes, writerVars, readerVars
<1>15. CASE RecvStream(e)
  <2>1. /\ wire[Other(e)] # <<>> /\ wire' = [wire EXCEPT ![Other(e)] = Tail(@)]
        /\ control' = control /\ frame' = frame /\ writer' = writer /\ heard[e] /\ heard' = heard
    BY <1>15 DEF RecvStream, CanRecv, Incoming, Consumed, Set, lanes, writerVars, readerVars
  <2>2. wire \in [Ends -> Seq(FrameKinds \cup {"eof"})] /\ heard \in [Ends -> BOOLEAN] BY <1>t DEF TypeOK
  <2>3. CASE p = e
    <3>1. wire'[p] = wire[p] /\ control'[p] = control[p] /\ frame'[p] = frame[p]
        /\ writer'[p] = writer[p] /\ heard'[Other(p)] = heard[Other(p)] BY <2>1, <2>2, <2>3, <1>o
    <3>2. QED BY <3>1, <1>v, LineKept
  <2>4. CASE p = Other(e) BY <2>1, <2>2, <2>4, <1>t, <1>v, <1>o, LineRead
  <2>5. QED BY <2>3, <2>4, <1>o
<1>16. CASE Offer(e) BY <1>16, <1>v, LineKept DEF Offer, lanes, writerVars, readerVars
<1>17. CASE RecvClose(e)
  <2>1. /\ wire[Other(e)] # <<>> /\ wire' = [wire EXCEPT ![Other(e)] = Tail(@)]
        /\ control' = control /\ frame' = frame /\ writer' = writer /\ heard[e] /\ heard' = heard
    BY <1>17 DEF RecvClose, CanRecv, Incoming, Consumed, Set, lanes, writerVars, readerVars
  <2>2. wire \in [Ends -> Seq(FrameKinds \cup {"eof"})] /\ heard \in [Ends -> BOOLEAN] BY <1>t DEF TypeOK
  <2>3. CASE p = e
    <3>1. wire'[p] = wire[p] /\ control'[p] = control[p] /\ frame'[p] = frame[p]
        /\ writer'[p] = writer[p] /\ heard'[Other(p)] = heard[Other(p)] BY <2>1, <2>2, <2>3, <1>o
    <3>2. QED BY <3>1, <1>v, LineKept
  <2>4. CASE p = Other(e) BY <2>1, <2>2, <2>4, <1>t, <1>v, <1>o, LineRead
  <2>5. QED BY <2>3, <2>4, <1>o
<1>18. CASE RecvEnd(e)
  <2>1. control' = control /\ frame' = frame /\ writer' = writer /\ heard' = heard
    BY <1>18 DEF RecvEnd, lanes, writerVars
  <2>2. \/ wire' = wire
        \/ /\ wire[Other(e)] # <<>> /\ Head(wire[Other(e)]) = "eof"
           /\ wire' = [wire EXCEPT ![Other(e)] = Tail(@)] BY <1>18 DEF RecvEnd, CanRecv, Incoming, Consumed
  <2>3. wire \in [Ends -> Seq(FrameKinds \cup {"eof"})] BY <1>t DEF TypeOK
  <2>4. CASE p = e \/ wire' = wire
    <3>1. wire'[p] = wire[p] BY <2>2, <2>3, <2>4, <1>o
    <3>2. QED BY <2>1, <3>1, <1>v, LineKept
  <2>5. CASE p = Other(e) /\ wire' # wire BY <2>1, <2>2, <2>3, <2>5, <1>t, <1>v, <1>o, LineRead
  <2>6. QED BY <2>4, <2>5, <1>o
<1>19. CASE SeeClosed(e) BY <1>19, <1>v, LineKept DEF SeeClosed, lanes, writerVars, readerVars
<1>20. CASE CloseCredits(e)
  <2>1. /\ wire' = wire /\ frame' = frame /\ writer' = writer /\ heard' = heard
        /\ control' = control \/ control' = [control EXCEPT ![e] = Append(@, "conn")]
    BY <1>20 DEF CloseCredits, Push, writerVars, readerVars
  <2>2. CASE p = e /\ control' = [control EXCEPT ![e] = Append(@, "conn")]
    <3>1. control'[p] = Append(control[p], "conn") BY <2>2, <1>t DEF TypeOK
    <3>2. QED BY <2>1, <3>1, <1>t, <1>v, LinePushed
  <2>3. CASE p # e \/ control' = control
    <3>1. control'[p] = control[p] BY <2>1, <2>3, <1>t DEF TypeOK
    <3>2. QED BY <2>1, <3>1, <1>v, LineKept
  <2>4. QED BY <2>1, <2>2, <2>3
<1>21. CASE CloseQueue(e) BY <1>21, <1>v, LineKept DEF CloseQueue, lanes, writerVars, readerVars
<1>22. CASE CloseStreams(e) BY <1>22, <1>v, LineKept DEF CloseStreams, lanes, writerVars, readerVars
<1>23. CASE StoreReason(e) BY <1>23, <1>v, LineKept DEF StoreReason, lanes, writerVars, readerVars
<1>24. CASE DropBackend(e) BY <1>24, <1>v, LineKept DEF DropBackend, lanes, writerVars, readerVars
<1>25. CASE ConnectReturns(e) BY <1>25, <1>v, LineKept DEF ConnectReturns, lanes, writerVars, readerVars
<1>26. CASE Accept(e) BY <1>26, <1>v, LineKept DEF Accept, lanes, writerVars, readerVars
<1>27. CASE ClaimIndex(e) BY <1>27, <1>v, LineKept DEF ClaimIndex, lanes, writerVars, readerVars
<1>28. CASE Register(e) BY <1>28, <1>v, LineKept DEF Register, lanes, writerVars, readerVars
<1>29. CASE Reserve(e) BY <1>29, <1>v, LineKept DEF Reserve, lanes, writerVars, readerVars
<1>30. CASE ClaimCredit(e) BY <1>30, <1>v, LineKept DEF ClaimCredit, lanes, writerVars, readerVars
<1>31. CASE ConnectTimesOut(e)
  <2>1. /\ wire' = wire /\ frame' = frame /\ writer' = writer /\ heard' = heard
        /\ control' = control \/ control' = [control EXCEPT ![e] = Append(@, "conn")]
    BY <1>31 DEF ConnectTimesOut, Push, writerVars, readerVars
  <2>2. CASE p = e /\ control' = [control EXCEPT ![e] = Append(@, "conn")]
    <3>1. control'[p] = Append(control[p], "conn") BY <2>2, <1>t DEF TypeOK
    <3>2. QED BY <2>1, <3>1, <1>t, <1>v, LinePushed
  <2>3. CASE p # e \/ control' = control
    <3>1. control'[p] = control[p] BY <2>1, <2>3, <1>t DEF TypeOK
    <3>2. QED BY <2>1, <3>1, <1>v, LineKept
  <2>4. QED BY <2>1, <2>2, <2>3
<1>32. CASE Close(e)
  <2>1. /\ wire' = wire /\ frame' = frame /\ writer' = writer /\ heard' = heard
        /\ control' = control \/ control' = [control EXCEPT ![e] = Append(@, "app")]
    BY <1>32 DEF Close, Push, writerVars, readerVars
  <2>2. CASE p = e /\ control' = [control EXCEPT ![e] = Append(@, "app")]
    <3>1. control'[p] = Append(control[p], "app") BY <2>2, <1>t DEF TypeOK
    <3>2. QED BY <2>1, <3>1, <1>t, <1>v, LinePushed
  <2>3. CASE p # e \/ control' = control
    <3>1. control'[p] = control[p] BY <2>1, <2>3, <1>t DEF TypeOK
    <3>2. QED BY <2>1, <3>1, <1>v, LineKept
  <2>4. QED BY <2>1, <2>2, <2>3
<1>33. CASE DropSession(e) BY <1>33, <1>v, LineKept DEF DropSession, lanes, writerVars, readerVars
<1>34. CASE IdleFires(e) BY <1>34, <1>v, LineKept DEF IdleFires, lanes, writerVars, readerVars
<1>35. CASE Misbehave(e)
  <2>1. p # e BY <1>35, <1>m DEF Misbehave
  <2>2. wire'[p] = wire[p] /\ control'[p] = control[p] /\ frame'[p] = frame[p]
        /\ writer'[p] = writer[p] /\ heard'[Other(p)] = heard[Other(p)]
    BY <1>35, <1>t, <2>1 DEF Misbehave, Push, lanes, writerVars, readerVars, TypeOK
  <2>3. QED BY <2>2, <1>v, LineKept
<1>36. CASE OpenUni(e) BY <1>36, <1>v, LineKept DEF OpenUni, lanes, writerVars, readerVars
<1>37. QED BY <1>e, <1>1, <1>2, <1>3, <1>4, <1>5, <1>6, <1>7, <1>8, <1>9, <1>10, <1>11, <1>12, <1>13, <1>14,
    <1>15, <1>16, <1>17, <1>18, <1>19, <1>20, <1>21, <1>22, <1>23, <1>24, <1>25, <1>26, <1>27,
    <1>28, <1>29, <1>30, <1>31, <1>32, <1>33, <1>34, <1>35, <1>36 DEF System, Environment, Writer,
    Reader, Teardown, Application

\* One step of an end accuses nobody but a peer that broke the protocol.
LEMMA AccusedAction ==
  ASSUME TypeOK, LinesInv, NEW e \in Ends, System(e) \/ Environment(e)
  PROVE  \A p \in Ends : Accused(p)' => May(Other(p), "bad")'
<1>t. /\ closed \in [Ends -> Causes \cup {"none"}] /\ err \in [Ends -> Causes \cup {"none"}] BY DEF TypeOK
<1>y. TypeOK OBVIOUS
<1>v. LinesInv OBVIOUS
<1>a. \A p \in Ends : Accused(p) => May(Other(p), "bad") BY DEF LinesInv
<1>o. Other(e) \in Ends BY Others
<1>e. System(e) \/ Environment(e) OBVIOUS
<1>1. CASE PickFrame(e)
  BY <1>1, <1>t, <1>a DEF PickFrame, NextOutbound, Set, session, lanes, writerVars, readerVars, streamVars, Accused, May
<1>2. CASE FindNothing(e)
  BY <1>2, <1>t, <1>a DEF FindNothing, Set, session, lanes, writerVars, readerVars, streamVars, Accused, May
<1>3. CASE PollClosed(e)
  BY <1>3, <1>t, <1>a DEF PollClosed, Set, session, lanes, writerVars, readerVars, streamVars, Accused, May
<1>4. CASE Transmit(e)
  BY <1>4, <1>t, <1>a DEF Transmit, HasRoom, Push, Set, session, lanes, writerVars, readerVars, streamVars, Accused, May
<1>5. CASE WriteBlocks(e)
  BY <1>5, <1>t, <1>a DEF WriteBlocks, HasRoom, Set, session, lanes, writerVars, readerVars, streamVars, Accused, May
<1>6. CASE Interrupt(e)
  BY <1>6, <1>t, <1>a DEF Interrupt, Set, session, lanes, writerVars, readerVars, streamVars, Accused, May
<1>7. CASE WriteFails(e)
  BY <1>7, <1>t, <1>a DEF WriteFails, NoteClosed, Set, session, lanes, writerVars, readerVars, streamVars, Accused, May
<1>8. CASE Flush(e)
  BY <1>8, <1>t, <1>a DEF Flush, HasRoom, Push, Set, session, lanes, writerVars, readerVars, streamVars, Accused, May
<1>9. CASE FlushFails(e)
  BY <1>9, <1>t, <1>a DEF FlushFails, Set, session, lanes, writerVars, readerVars, streamVars, Accused, May
<1>10. CASE Shutdown(e)
  BY <1>10, <1>t, <1>a DEF Shutdown, Push, Set, session, lanes, writerVars, readerVars, streamVars, Accused, May
<1>11. CASE RecvViolation(e)
  <2>1. May(Other(e), "bad") BY <1>11, <1>o, <1>y, <1>v, NoViolation DEF LinesInv
  <2>2. calls' = calls /\ closed' = closed /\ err' = [err EXCEPT ![e] = "violation"]
    BY <1>11 DEF RecvViolation, Fail, Set, session
  <2>3. QED BY <2>1, <2>2, <1>t, <1>a DEF Accused, May
<1>12. CASE RecvParams(e)
  BY <1>12, <1>t, <1>a DEF RecvParams, CanRecv, Incoming, Consumed, Set, session, lanes, writerVars, readerVars,
    streamVars, Accused, May
<1>13. CASE SeedStreams(e)
  BY <1>13, <1>t, <1>a DEF SeedStreams, Set, session, lanes, writerVars, readerVars, streamVars, Accused, May
<1>14. CASE Establish(e)
  BY <1>14, <1>t, <1>a DEF Establish, Set, session, lanes, writerVars, readerVars, streamVars, Accused, May
<1>15. CASE RecvStream(e)
  BY <1>15, <1>t, <1>a DEF RecvStream, CanRecv, Incoming, Consumed, Set, session, lanes, writerVars, readerVars,
    streamVars, Accused, May
<1>16. CASE Offer(e)
  BY <1>16, <1>t, <1>a DEF Offer, Fail, Set, session, lanes, writerVars, readerVars, streamVars, Accused, May
<1>17. CASE RecvClose(e)
  BY <1>17, <1>t, <1>a DEF RecvClose, CanRecv, Incoming, Consumed, ReplaceClosed, Set, session, lanes, writerVars,
    readerVars, streamVars, Accused, May
<1>18. CASE RecvEnd(e)
  BY <1>18, <1>t, <1>a DEF RecvEnd, CanRecv, Incoming, Consumed, Fail, Set, session, lanes, writerVars, readerVars,
    streamVars, Accused, May
<1>19. CASE SeeClosed(e)
  BY <1>19, <1>t, <1>a DEF SeeClosed, Fail, Set, session, lanes, writerVars, readerVars, streamVars, Accused, May
<1>20. CASE CloseCredits(e)
  BY <1>20, <1>t, <1>a DEF CloseCredits, Push, Set, session, lanes, writerVars, readerVars, streamVars, Accused, May
<1>21. CASE CloseQueue(e)
  BY <1>21, <1>t, <1>a DEF CloseQueue, Set, session, lanes, writerVars, readerVars, streamVars, Accused, May
<1>22. CASE CloseStreams(e)
  BY <1>22, <1>t, <1>a DEF CloseStreams, Set, session, lanes, writerVars, readerVars, streamVars, Accused, May
<1>23. CASE StoreReason(e)
  BY <1>23, <1>t, <1>a DEF StoreReason, ReplaceClosed, Set, session, lanes, writerVars, readerVars, streamVars, Accused,
    May
<1>24. CASE DropBackend(e)
  BY <1>24, <1>t, <1>a DEF DropBackend, Set, session, lanes, writerVars, readerVars, streamVars, Accused, May
<1>25. CASE ConnectReturns(e)
  BY <1>25, <1>t, <1>a DEF ConnectReturns, NoteClosed, Set, session, lanes, writerVars, readerVars, streamVars, Accused,
    May
<1>26. CASE Accept(e)
  BY <1>26, <1>t, <1>a DEF Accept, Set, session, lanes, writerVars, readerVars, streamVars, Accused, May
<1>27. CASE ClaimIndex(e)
  BY <1>27, <1>t, <1>a DEF ClaimIndex, Set, session, lanes, writerVars, readerVars, streamVars, Accused, May
<1>28. CASE Register(e)
  BY <1>28, <1>t, <1>a DEF Register, Set, session, lanes, writerVars, readerVars, streamVars, Accused, May
<1>29. CASE Reserve(e)
  BY <1>29, <1>t, <1>a DEF Reserve, Set, session, lanes, writerVars, readerVars, streamVars, Accused, May
<1>30. CASE ClaimCredit(e)
  BY <1>30, <1>t, <1>a DEF ClaimCredit, Set, session, lanes, writerVars, readerVars, streamVars, Accused, May
<1>31. CASE ConnectTimesOut(e)
  BY <1>31, <1>t, <1>a DEF ConnectTimesOut, Push, ReplaceClosed, Set, session, lanes, writerVars, readerVars,
    streamVars, Accused, May
<1>32. CASE Close(e)
  BY <1>32, <1>t, <1>a DEF Close, Push, ReplaceClosed, Set, session, lanes, writerVars, readerVars, streamVars, Accused,
    May
<1>33. CASE DropSession(e)
  BY <1>33, <1>t, <1>a DEF DropSession, NoteClosed, Set, session, lanes, writerVars, readerVars, streamVars, Accused,
    May
<1>34. CASE IdleFires(e)
  BY <1>34, <1>t, <1>a DEF IdleFires, NoteClosed, Set, session, lanes, writerVars, readerVars, streamVars, Accused, May
<1>35. CASE Misbehave(e)
  BY <1>35, <1>t, <1>a DEF Misbehave, Push, Set, session, lanes, writerVars, readerVars, streamVars, Accused, May
<1>36. CASE OpenUni(e)
  BY <1>36, <1>t, <1>a DEF OpenUni, Set, session, lanes, writerVars, readerVars, streamVars, Accused, May
<1>37. QED BY <1>e, <1>1, <1>2, <1>3, <1>4, <1>5, <1>6, <1>7, <1>8, <1>9, <1>10, <1>11, <1>12, <1>13, <1>14,
    <1>15, <1>16, <1>17, <1>18, <1>19, <1>20, <1>21, <1>22, <1>23, <1>24, <1>25, <1>26, <1>27,
    <1>28, <1>29, <1>30, <1>31, <1>32, <1>33, <1>34, <1>35, <1>36 DEF System, Environment, Writer,
    Reader, Teardown, Application

\* The script of a behaviour never changes.
LEMMA CallsKept ==
  ASSUME NEW e \in Ends, System(e) \/ Environment(e)
  PROVE  calls' = calls
<1>e. System(e) \/ Environment(e) OBVIOUS
<1>1. CASE PickFrame(e) BY <1>1 DEF PickFrame
<1>2. CASE FindNothing(e) BY <1>2 DEF FindNothing
<1>3. CASE PollClosed(e) BY <1>3 DEF PollClosed
<1>4. CASE Transmit(e) BY <1>4 DEF Transmit
<1>5. CASE WriteBlocks(e) BY <1>5 DEF WriteBlocks
<1>6. CASE Interrupt(e) BY <1>6 DEF Interrupt
<1>7. CASE WriteFails(e) BY <1>7 DEF WriteFails
<1>8. CASE Flush(e) BY <1>8 DEF Flush
<1>9. CASE FlushFails(e) BY <1>9 DEF FlushFails
<1>10. CASE Shutdown(e) BY <1>10 DEF Shutdown
<1>11. CASE RecvViolation(e) BY <1>11 DEF RecvViolation
<1>12. CASE RecvParams(e) BY <1>12 DEF RecvParams
<1>13. CASE SeedStreams(e) BY <1>13 DEF SeedStreams
<1>14. CASE Establish(e) BY <1>14 DEF Establish
<1>15. CASE RecvStream(e) BY <1>15 DEF RecvStream
<1>16. CASE Offer(e) BY <1>16 DEF Offer
<1>17. CASE RecvClose(e) BY <1>17 DEF RecvClose
<1>18. CASE RecvEnd(e) BY <1>18 DEF RecvEnd
<1>19. CASE SeeClosed(e) BY <1>19 DEF SeeClosed
<1>20. CASE CloseCredits(e) BY <1>20 DEF CloseCredits
<1>21. CASE CloseQueue(e) BY <1>21 DEF CloseQueue
<1>22. CASE CloseStreams(e) BY <1>22 DEF CloseStreams
<1>23. CASE StoreReason(e) BY <1>23 DEF StoreReason
<1>24. CASE DropBackend(e) BY <1>24 DEF DropBackend
<1>25. CASE ConnectReturns(e) BY <1>25 DEF ConnectReturns
<1>26. CASE Accept(e) BY <1>26 DEF Accept
<1>27. CASE ClaimIndex(e) BY <1>27 DEF ClaimIndex
<1>28. CASE Register(e) BY <1>28 DEF Register
<1>29. CASE Reserve(e) BY <1>29 DEF Reserve
<1>30. CASE ClaimCredit(e) BY <1>30 DEF ClaimCredit
<1>31. CASE ConnectTimesOut(e) BY <1>31 DEF ConnectTimesOut
<1>32. CASE Close(e) BY <1>32 DEF Close
<1>33. CASE DropSession(e) BY <1>33 DEF DropSession
<1>34. CASE IdleFires(e) BY <1>34 DEF IdleFires
<1>35. CASE Misbehave(e) BY <1>35 DEF Misbehave
<1>36. CASE OpenUni(e) BY <1>36 DEF OpenUni
<1>37. QED BY <1>e, <1>1, <1>2, <1>3, <1>4, <1>5, <1>6, <1>7, <1>8, <1>9, <1>10, <1>11, <1>12, <1>13, <1>14,
    <1>15, <1>16, <1>17, <1>18, <1>19, <1>20, <1>21, <1>22, <1>23, <1>24, <1>25, <1>26, <1>27,
    <1>28, <1>29, <1>30, <1>31, <1>32, <1>33, <1>34, <1>35, <1>36 DEF System, Environment, Writer,
    Reader, Teardown, Application

\* The two invariants start out true: the parameters lead the control lane.
LEMMA LinesInit == Init => LinesInv /\ StreamsSeeded
<1>1. SUFFICES ASSUME Init PROVE LinesInv /\ StreamsSeeded OBVIOUS
<1>2. ASSUME NEW e \in Ends PROVE Line(e) /\ ~Accused(e)
  <2>1. /\ wire[e] = <<>> /\ control[e] = <<"params">> /\ frame[e] = "params"
        /\ writer[e] = "run" /\ ~heard[Other(e)] /\ err[e] = "none" /\ closed[e] = "none" BY <1>1, Others DEF Init
  <2>2. NotBad(e) /\ OnLane(e) BY <2>1, ShortLanes DEF NotBad, OnLane
  <2>3. QED BY <2>1, <2>2 DEF Line, Accused
<1>3. StreamsSeeded BY <1>1 DEF Init, StreamsSeeded
<1>4. QED BY <1>2, <1>3 DEF LinesInv

\* Every step keeps them.
LEMMA LinesStep ==
  ASSUME TypeOK, LinesInv, StreamsSeeded, [Next]_vars
  PROVE  TypeOK' /\ LinesInv' /\ StreamsSeeded'
<1>1. TypeOK' BY TypeStep
<1>2. CASE UNCHANGED vars
  <2>1. UNCHANGED <<calls, closed, err, wire, control, frame, writer, heard, limits,
                    opening, credit>> BY <1>2 DEF vars, session, lanes, writerVars, readerVars, streamVars
  <2>2. ASSUME NEW p \in Ends, Line(p) PROVE Line(p)' BY <2>1, <2>2, LineKept
  <2>3. \A p \in Ends : Accused(p)' = Accused(p) /\ \A c : May(p, c)' = May(p, c) BY <2>1 DEF Accused, May
  <2>4. \A p \in Ends : Other(p)' = Other(p) /\ Other(p) \in Ends BY Others
  <2>5. LinesInv' BY <2>2, <2>3, <2>4 DEF LinesInv
  <2>6. StreamsSeeded' BY <2>1 DEF StreamsSeeded
  <2>7. QED BY <1>1, <2>5, <2>6
<1>3. CASE Next
  <2>1. PICK e \in Ends : System(e) \/ Environment(e) BY <1>3 DEF Next
  <2>2. StreamsSeeded' BY <2>1, SeededAction
  <2>3. calls' = calls BY <2>1, CallsKept
  <2>4. ASSUME NEW p \in Ends PROVE May(p, "bad")' \/ Line(p)'
    <3>1. CASE May(p, "bad") BY <2>3, <3>1 DEF May
    <3>2. CASE ~May(p, "bad")
      <4>1. Line(p) BY <3>2 DEF LinesInv
      <4>2. QED BY <2>1, <3>2, <4>1, LineAction
    <3>3. QED BY <3>1, <3>2
  <2>5. LinesInv' BY <2>1, <2>4, AccusedAction DEF LinesInv
  <2>6. QED BY <1>1, <2>2, <2>5
<1>4. QED BY <1>2, <1>3

\* HandshakeSafe: whatever the applications do while the parameters are on
\* their way, the types hold, two honest ends never accuse each other, and a
\* stream that is open is credited.
THEOREM HandshakeIsSafe == Spec => []HandshakeSafe
<1>1. Init => TypeOK /\ LinesInv /\ StreamsSeeded BY TypeInit, LinesInit
<1>2. TypeOK /\ LinesInv /\ StreamsSeeded /\ [Next]_vars
        => (TypeOK /\ LinesInv /\ StreamsSeeded)' BY LinesStep
<1>3. TypeOK /\ LinesInv /\ StreamsSeeded => HandshakeSafe BY DEF LinesInv, Accused, HonestNotAccused, HandshakeSafe
<1>4. QED BY <1>1, <1>2, <1>3, PTL DEF Spec

============================================================================
