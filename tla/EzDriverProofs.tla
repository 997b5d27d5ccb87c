--------------------------- MODULE EzDriverProofs ---------------------------
(***************************************************************************)
(* The connection driver of web-transport-quiche: proofs, for every plan   *)
(* of the application and the peer and every capacity, that the driver     *)
(* never sleeps on work, that opening stays within the peer's limit, that  *)
(* the connection ends for one reason and that every call that sleeps has  *)
(* somebody to wake it.                                                    *)
(***************************************************************************)
EXTENDS EzDriver, FiniteSetTheorems, TLAPS

-----------------------------------------------------------------------------
(* Types                                                                    *)

Reasons == Errors \cup {"none"}
OpenType == [cap : Nat, next : Nat, create : Seq(Nat), wakers : SUBSET Tasks]
DrvType ==
  [send : SUBSET Ids, recv : SUBSET Ids, waker : {"none", "task", "noop"},
   open : [Kinds -> OpenType], creq : Reasons, closed : Reasons, crw : SUBSET Tasks,
   clw : SUBSET Tasks, est : BOOLEAN, hsw : SUBSET Tasks]
SendType == [cap : Nat, queued : Nat, blocked : BOOLEAN, fin : BOOLEAN,
             reset : BOOLEAN, stop : BOOLEAN, closed : BOOLEAN]
RecvType == [queued : Nat, max : Nat, blocked : BOOLEAN, fin : BOOLEAN,
             reset : BOOLEAN, stop : BOOLEAN, closed : BOOLEAN]
StreamType ==
  [made : BOOLEAN, fin : BOOLEAN, rst : BOOLEAN, stopped : BOOLEAN, armed : BOOLEAN,
   rbuf : Nat, got : Nat, rfin : BOOLEAN, rrst : BOOLEAN, rend : BOOLEAN, rarmed : BOOLEAN]
Phases == {"net", "reads", "writes", "poll", "poll0", "flush", "flush0", "parked", "done"}
TaskType == [pc : Phases, recv : SUBSET Ids, send : SUBSET Ids, sleep : BOOLEAN]
QuicheType == [status : Statuses, left : [Kinds -> Nat], credit : Nat, granted : Nat,
               local : Reasons, peer : BOOLEAN, din : Nat]
HandleType == [pc : {"none", "queued", "idle", "tell", "check", "wait", "gone"},
               op : {"none", "write", "finish", "reset", "priority", "drop", "closed",
                     "flush", "read", "stop"},
               res : {"none", "finished"}]
ConnType == [held : BOOLEAN, out : Nat, in : Nat, pc : {"idle", "nudge"}]

TypeOK ==
  /\ drv \in DrvType /\ q \in QuicheType
  /\ ss \in [Ids -> SendType] /\ rs \in [Ids -> RecvType] /\ qs \in [Ids -> StreamType] /\ d \in TaskType
  /\ ap \in [Halves -> HandleType] /\ op \in [Openers -> {"none", "wait", "done"}]
  /\ one \in [{HandshakeTask, ClosedTask} -> {"none", "wait", "ok", "err"}] /\ cn \in ConnType

-----------------------------------------------------------------------------
(* The inductive invariants                                                 *)

\* The reason that was asked for first is the only one there is: the latches,
\* quiche and the calls that failed agree on it.
ReasonsInv ==
  /\ drv.closed # "none" => drv.closed = drv.creq
  /\ q.local # "none" => q.local = drv.creq
  /\ \A x \in seen : x = drv.creq /\ x # "none"

\* During the handshake nobody has a handle yet.
EarlyInv ==
  q.status = "handshake" =>
    /\ d.pc \in {"net", "poll", "parked"}
    /\ ~drv.est /\ one[HandshakeTask] # "ok"
    /\ \A h \in Halves : ap[h].pc = "none"
    /\ \A o \in Openers : op[o] = "none"
    /\ drv.send = {} /\ drv.recv = {} /\ \A k \in Kinds : drv.open[k].create = <<>>
    /\ cn.out = 0 /\ cn.pc = "idle"

\* The poll found nothing and will sleep, or sleeps.
Resting == d.pc = "parked" \/ (d.pc = "flush" /\ d.sleep)

\* While the driver rests its waker is where every step that makes work for it
\* takes it.
RestInv ==
  Resting /\ DriverTask \notin awake =>
    /\ drv.send = {} /\ drv.recv = {} /\ \A k \in Kinds : drv.open[k].create = <<>>
    /\ q.status # "draining" => drv.creq = "none" /\ DriverTask \in drv.crw
    /\ drv.waker = "task" \/ q.status = "handshake"
    /\ cn.out > 0 => cn.pc = "nudge"

-----------------------------------------------------------------------------
(* The helpers on DriverState                                               *)

\* The tasks differ from each other.
LEMMA TasksDiffer ==
  /\ HandshakeTask # DriverTask /\ ClosedTask # DriverTask /\ HandshakeTask # ClosedTask
  /\ \A h \in Halves : h # DriverTask /\ h # HandshakeTask /\ h # ClosedTask
  /\ \A o \in Openers : o # DriverTask /\ o # HandshakeTask /\ o # ClosedTask
<1>1. ASSUME NEW h \in Halves PROVE \E i, x : h = <<i, x>> BY DEF Halves
<1>2. \A h \in Halves : Len(h) = 2 BY <1>1
<1>3. \A o \in Openers : Len(o) = 3 BY DEF Openers
<1>4. /\ DriverTask = <<"driver">> /\ HandshakeTask = <<"handshake">>
      /\ ClosedTask = <<"closed">> BY DEF DriverTask, HandshakeTask, ClosedTask
<1>5. Len(DriverTask) = 1 /\ Len(HandshakeTask) = 1 /\ Len(ClosedTask) = 1 BY <1>4
<1>6. HandshakeTask # DriverTask /\ ClosedTask # DriverTask /\ HandshakeTask # ClosedTask
  BY DEF DriverTask, HandshakeTask, ClosedTask
<1>7. QED BY <1>2, <1>3, <1>5, <1>6

\* abort() keeps the first reason.
LEMMA AbortFacts ==
  ASSUME NEW v \in DrvType, NEW err \in Errors
  PROVE  /\ Abort(v, err)[1] \in DrvType
         /\ v.creq # "none" => Abort(v, err)[1] = v /\ Abort(v, err)[2] = {}
         /\ v.creq = "none" => /\ Abort(v, err)[1] = [v EXCEPT !.creq = err, !.crw = {}] /\ Abort(v, err)[2] = v.crw
BY DEF Abort, DrvType, Reasons

\* Taking the waker of the driver.
LEMMA WakeFacts ==
  ASSUME NEW v \in DrvType
  PROVE  /\ Wake(v)[1] \in DrvType /\ Wake(v)[1] = [v EXCEPT !.waker = "none"]
         /\ Wake(v)[2] = IF v.waker = "task" THEN {DriverTask} ELSE {}
BY DEF Wake, DriverWaker, DrvType

\* Leaving the id of a stream that has something to send ...
LEMMA TellSendFacts ==
  ASSUME NEW v \in DrvType, NEW id \in Ids
  PROVE  LET t == TellSend(v, id)
         IN  /\ t[1] \in DrvType
             /\ \/ id \in v.send /\ t[1] = v /\ t[2] = {}
                \/ /\ t[1] = [v EXCEPT !.send = @ \cup {id}, !.waker = "none"]
                   /\ t[2] = IF v.waker = "task" THEN {DriverTask} ELSE {}
<1>1. PICK w : w = [v EXCEPT !.send = @ \cup {id}] OBVIOUS
<1>2. w \in DrvType /\ w.waker = v.waker
      /\ [w EXCEPT !.waker = "none"] = [v EXCEPT !.send = @ \cup {id}, !.waker = "none"] BY <1>1 DEF DrvType
<1>3. CASE id \in v.send BY <1>3 DEF TellSend
<1>4. CASE id \notin v.send
  <2>1. TellSend(v, id) = Wake(w) BY <1>1, <1>4 DEF TellSend
  <2>2. QED BY <2>1, <1>2, WakeFacts
<1>5. QED BY <1>3, <1>4

\* ... or wants to read.
LEMMA TellRecvFacts ==
  ASSUME NEW v \in DrvType, NEW id \in Ids
  PROVE  LET t == TellRecv(v, id)
         IN  /\ t[1] \in DrvType
             /\ \/ id \in v.recv /\ t[1] = v /\ t[2] = {}
                \/ /\ t[1] = [v EXCEPT !.recv = @ \cup {id}, !.waker = "none"]
                   /\ t[2] = IF v.waker = "task" THEN {DriverTask} ELSE {}
<1>1. PICK w : w = [v EXCEPT !.recv = @ \cup {id}] OBVIOUS
<1>2. w \in DrvType /\ w.waker = v.waker
      /\ [w EXCEPT !.waker = "none"] = [v EXCEPT !.recv = @ \cup {id}, !.waker = "none"] BY <1>1 DEF DrvType
<1>3. CASE id \in v.recv BY <1>3 DEF TellRecv
<1>4. CASE id \notin v.recv
  <2>1. TellRecv(v, id) = Wake(w) BY <1>1, <1>4 DEF TellRecv
  <2>2. QED BY <2>1, <1>2, WakeFacts
<1>5. QED BY <1>3, <1>4

\* The latches remember a waker and nothing else changes.
LEMMA PollErrorFacts ==
  ASSUME NEW v \in DrvType, NEW t \in Tasks
  PROVE  /\ PollError(v, t) \in DrvType
         /\ \E a, b \in SUBSET Tasks : /\ PollError(v, t) = [v EXCEPT !.crw = a, !.clw = b]
                                       /\ v.crw \subseteq a /\ v.clw \subseteq b
<1>1. v.crw \in SUBSET Tasks /\ v.clw \in SUBSET Tasks BY DEF DrvType
<1>2. PICK a : a = v.crw \cup {t} OBVIOUS
<1>3. PICK b : b = v.clw \cup {t} OBVIOUS
<1>4. a \in SUBSET Tasks /\ b \in SUBSET Tasks /\ v.crw \subseteq a /\ v.clw \subseteq b BY <1>1, <1>2, <1>3
<1>5. CASE v.creq # "none"
  <2>1. PollError(v, t) = v /\ v = [v EXCEPT !.crw = v.crw, !.clw = v.clw] BY <1>5 DEF PollError, DrvType
  <2>2. QED BY <2>1, <1>1
<1>6. CASE v.creq = "none" /\ v.closed # "none"
  <2>1. PollError(v, t) = [v EXCEPT !.crw = a, !.clw = v.clw] BY <1>6, <1>2 DEF PollError, DrvType
  <2>2. [v EXCEPT !.crw = a, !.clw = v.clw] \in DrvType BY <1>4 DEF DrvType
  <2>3. QED BY <2>1, <2>2, <1>1, <1>4
<1>7. CASE v.creq = "none" /\ v.closed = "none"
  <2>1. PollError(v, t) = [v EXCEPT !.crw = a, !.clw = b] BY <1>7, <1>2, <1>3 DEF PollError, DrvType
  <2>2. [v EXCEPT !.crw = a, !.clw = b] \in DrvType BY <1>4 DEF DrvType
  <2>3. QED BY <2>1, <2>2, <1>4
<1>8. QED BY <1>5, <1>6, <1>7

-----------------------------------------------------------------------------
(* The flushes                                                              *)

\* The result of a flush of the send side.
SendFlushed(id, k, f) ==
  /\ f.st \in SendType /\ f.k \in StreamType /\ f.credit \in Nat /\ f.st.fin = ss[id].fin /\ f.k.stopped = k.stopped
  /\ f.err => ss[id].fin /\ k.stopped

\* What a flush of the send side returns.  It fails only for a FIN that meets a
\* STOP_SENDING, and it changes neither.
LEMMA SendFlushFacts ==
  ASSUME TypeOK, NEW id \in Ids, NEW k \in StreamType
  PROVE  SendFlushed(id, k, SendFlush(id, k))
<1>1. PICK st : st = ss[id] OBVIOUS
<1>2. st \in SendType /\ q.credit \in Nat BY <1>1 DEF TypeOK, QuicheType
<1>3. PICK n : n = IF st.queued < q.credit THEN st.queued ELSE q.credit OBVIOUS
<1>4. PICK rest : rest = st.queued - n OBVIOUS
<1>5. PICK cap : cap = q.credit - n OBVIOUS
<1>6. rest \in Nat /\ cap \in Nat BY <1>2, <1>3, <1>4, <1>5 DEF SendType
<1>7. PICK sent : sent = [st EXCEPT !.queued = rest] OBVIOUS
<1>8. sent \in SendType /\ sent.fin = st.fin BY <1>2, <1>6, <1>7 DEF SendType
<1>f. ASSUME NEW s \in SendType, NEW kk \in StreamType, NEW c \in Nat,
             s.fin = st.fin, kk.stopped = k.stopped,
             SendFlush(id, k) = SendDone(s, kk, c, FALSE)
      PROVE  SendFlushed(id, k, SendFlush(id, k))
  <2>1. PICK b : b = [s EXCEPT !.blocked = FALSE] OBVIOUS
  <2>2. b \in SendType /\ b.fin = s.fin BY <2>1 DEF SendType
  <2>3. PICK f : f = SendFlush(id, k) OBVIOUS
  <2>4. f.st = b /\ f.k = kk /\ f.credit = c /\ ~f.err BY <1>f, <2>1, <2>3 DEF SendDone
  <2>5. SendFlushed(id, k, f) BY <2>2, <2>4, <1>1, <1>f DEF SendFlushed
  <2>6. QED BY <2>3, <2>5
<1>9. CASE st.reset
  <2>1. PICK s : s = [st EXCEPT !.closed = TRUE] OBVIOUS
  <2>2. PICK kk : kk = [k EXCEPT !.rst = TRUE] OBVIOUS
  <2>3. SendFlush(id, k) = SendDone(s, kk, q.credit, FALSE) BY <2>1, <2>2, <1>1, <1>9 DEF SendFlush, StopSeen
  <2>4. s \in SendType /\ s.fin = st.fin BY <2>1, <1>2, <1>8 DEF SendType
  <2>5. kk \in StreamType /\ kk.stopped = k.stopped BY <2>2 DEF StreamType
  <2>6. QED BY <2>3, <2>4, <2>5, <1>2, <1>6, <1>f
<1>10. CASE ~st.reset /\ st.stop
  <2>1. PICK s : s = [st EXCEPT !.stop = FALSE] OBVIOUS
  <2>2. PICK kk : kk = k OBVIOUS
  <2>3. SendFlush(id, k) = SendDone(s, kk, q.credit, FALSE) BY <2>1, <2>2, <1>1, <1>10 DEF SendFlush, StopSeen
  <2>4. s \in SendType /\ s.fin = st.fin BY <2>1, <1>2, <1>8 DEF SendType
  <2>5. kk \in StreamType /\ kk.stopped = k.stopped BY <2>2 DEF StreamType
  <2>6. QED BY <2>3, <2>4, <2>5, <1>2, <1>6, <1>f
<1>11. CASE ~st.reset /\ ~st.stop /\ k.stopped
  <2>1. CASE st.queued = 0 /\ st.fin
    <3>1. PICK s : s = st OBVIOUS
    <3>2. PICK kk : kk = k OBVIOUS
    <3>3. SendFlush(id, k) = SendDone(s, kk, q.credit, TRUE) BY <3>1, <3>2, <1>1, <1>11, <2>1 DEF SendFlush, StopSeen
    <3>4. s \in SendType /\ s.fin = st.fin BY <3>1, <1>2, <1>8 DEF SendType
    <3>5. kk \in StreamType /\ kk.stopped = k.stopped BY <3>2 DEF StreamType
    <3>6. QED
      <4>1. PICK f : f = SendFlush(id, k) OBVIOUS
      <4>2. f.st = s /\ f.k = kk /\ f.credit = q.credit BY <3>3, <4>1 DEF SendDone
      <4>3. SendFlushed(id, k, f) BY <4>2, <3>4, <3>5, <1>1, <1>2, <1>11, <2>1 DEF SendFlushed
      <4>4. QED BY <4>1, <4>3
  <2>2. CASE ~(st.queued = 0 /\ st.fin)
    <3>a. PICK m : m = IF st.queued > 0 THEN st.queued - 1 ELSE 0 OBVIOUS
    <3>b. m \in Nat BY <3>a, <1>2 DEF SendType
    <3>1. PICK s : s = [st EXCEPT !.stop = TRUE, !.closed = TRUE, !.queued = m] OBVIOUS
    <3>2. PICK kk : kk = k OBVIOUS
    <3>3. SendFlush(id, k) = SendDone(s, kk, q.credit, FALSE)
      BY <3>a, <3>1, <3>2, <1>1, <1>11, <2>2 DEF SendFlush, StopSeen
    <3>4. s \in SendType /\ s.fin = st.fin BY <3>1, <3>b, <1>2 DEF SendType
    <3>5. kk \in StreamType /\ kk.stopped = k.stopped BY <3>2 DEF StreamType
    <3>6. QED BY <3>3, <3>4, <3>5, <1>2, <1>6, <1>f
  <2>3. QED BY <2>1, <2>2
<1>12. CASE ~st.reset /\ ~st.stop /\ ~k.stopped /\ rest = 0 /\ st.fin
  <2>1. PICK s : s = [sent EXCEPT !.closed = TRUE] OBVIOUS
  <2>2. PICK kk : kk = [k EXCEPT !.fin = TRUE] OBVIOUS
  <2>3. SendFlush(id, k) = SendDone(s, kk, cap, FALSE)
    BY <2>1, <2>2, <1>3, <1>4, <1>5, <1>7, <1>1, <1>12 DEF SendFlush, StopSeen
  <2>4. s \in SendType /\ s.fin = st.fin BY <2>1, <1>2, <1>8 DEF SendType
  <2>5. kk \in StreamType /\ kk.stopped = k.stopped BY <2>2 DEF StreamType
  <2>6. QED BY <2>3, <2>4, <2>5, <1>2, <1>6, <1>f
<1>13. CASE ~st.reset /\ ~st.stop /\ ~k.stopped /\ ~(rest = 0 /\ st.fin)
  <2>1. PICK kk : kk = [k EXCEPT !.armed = @ \/ rest > 0] OBVIOUS
  <2>2. kk \in StreamType /\ kk.stopped = k.stopped BY <2>1 DEF StreamType
  <2>3. PICK full : full = [sent EXCEPT !.cap = cap] OBVIOUS
  <2>4. full \in SendType /\ full.fin = st.fin BY <2>3, <1>6, <1>8 DEF SendType
  <2>5. SendFlush(id, k) =
          IF rest = 0 \/ cap > 0 THEN SendDone(full, kk, cap, FALSE)
          ELSE [st |-> full, k |-> kk, credit |-> cap, wake |-> FALSE, err |-> FALSE]
    BY <1>1, <1>3, <1>4, <1>5, <1>7, <1>13, <2>1, <2>3 DEF SendFlush
  <2>6. CASE rest = 0 \/ cap > 0 BY <2>2, <2>4, <2>5, <2>6, <1>6, <1>f
  <2>7. CASE ~(rest = 0 \/ cap > 0) BY <2>2, <2>4, <2>5, <2>7, <1>1, <1>6 DEF SendFlushed
  <2>8. QED BY <2>6, <2>7
<1>14. QED BY <1>9, <1>10, <1>11, <1>12, <1>13

\* What a flush of the receive side returns: it leaves alone what the peer asked
\* of the send side.
LEMMA RecvFlushFacts ==
  ASSUME TypeOK, NEW id \in Ids, NEW k \in StreamType
  PROVE  /\ RecvFlush(id, k).st \in RecvType /\ RecvFlush(id, k).k \in StreamType
         /\ RecvFlush(id, k).k.stopped = k.stopped
<1>1. PICK st : st = rs[id] OBVIOUS
<1>2. st \in RecvType BY <1>1 DEF TypeOK
<1>3. PICK n : n = IF st.max < k.rbuf THEN st.max ELSE k.rbuf OBVIOUS
<1>4. n \in Nat /\ st.queued + n \in Nat /\ st.max - n \in Nat /\ k.rbuf - n \in Nat
  BY <1>2, <1>3 DEF RecvType, StreamType
<1>5. PICK read : read = [st EXCEPT !.queued = @ + n, !.max = @ - n] OBVIOUS
<1>6. PICK left : left = [k EXCEPT !.rbuf = @ - n] OBVIOUS
<1>7. read \in RecvType BY <1>2, <1>4, <1>5 DEF RecvType
<1>8. left \in StreamType /\ left.stopped = k.stopped BY <1>4, <1>6 DEF StreamType
<1>9. ASSUME NEW s \in RecvType, NEW kk
      PROVE  RecvDone(s, kk).st \in RecvType /\ RecvDone(s, kk).k = kk BY DEF RecvDone, RecvType
<1>10. CASE st.reset
  <2>1. RecvFlush(id, k) = RecvDone(st, k) BY <1>1, <1>10 DEF RecvFlush
  <2>2. QED BY <2>1, <1>2, <1>9
<1>11. CASE ~st.reset /\ st.stop
  <2>1. RecvFlush(id, k) = RecvDone([st EXCEPT !.closed = TRUE], Ended([k EXCEPT !.rbuf = 0]))
    BY <1>1, <1>11 DEF RecvFlush
  <2>2. [st EXCEPT !.closed = TRUE] \in RecvType BY <1>2 DEF RecvType
  <2>3. /\ Ended([k EXCEPT !.rbuf = 0]) \in StreamType
        /\ Ended([k EXCEPT !.rbuf = 0]).stopped = k.stopped BY DEF StreamType, Ended
  <2>4. QED BY <2>1, <2>2, <2>3, <1>9
<1>12. CASE ~st.reset /\ ~st.stop /\ st.max > 0 /\ k.rrst
  <2>1. RecvFlush(id, k) = RecvDone([st EXCEPT !.reset = TRUE, !.closed = TRUE],
                                    Ended(k)) BY <1>1, <1>12 DEF RecvFlush
  <2>2. [st EXCEPT !.reset = TRUE, !.closed = TRUE] \in RecvType BY <1>2 DEF RecvType
  <2>3. Ended(k) \in StreamType /\ Ended(k).stopped = k.stopped BY DEF StreamType, Ended
  <2>4. QED BY <2>1, <2>2, <2>3, <1>9
<1>13. CASE ~st.reset /\ ~st.stop /\ st.max > 0 /\ ~k.rrst /\ k.rfin /\ k.rbuf = n
  <2>1. RecvFlush(id, k) = RecvDone([read EXCEPT !.fin = TRUE, !.closed = TRUE],
                                    Ended(left)) BY <1>1, <1>3, <1>5, <1>6, <1>13 DEF RecvFlush
  <2>2. [read EXCEPT !.fin = TRUE, !.closed = TRUE] \in RecvType BY <1>7 DEF RecvType
  <2>3. Ended(left) \in StreamType /\ Ended(left).stopped = k.stopped BY <1>8 DEF StreamType, Ended
  <2>4. QED BY <2>1, <2>2, <2>3, <1>9
<1>14. CASE /\ ~st.reset /\ ~st.stop
            /\ ~(st.max > 0 /\ k.rrst) /\ ~(st.max > 0 /\ ~k.rrst /\ k.rfin /\ k.rbuf = n)
  <2>1. RecvFlush(id, k) = IF n > 0 THEN RecvDone(read, left)
                           ELSE [st |-> st, k |-> k, wake |-> FALSE] BY <1>1, <1>3, <1>5, <1>6, <1>14 DEF RecvFlush
  <2>2. CASE n > 0 BY <2>1, <2>2, <1>7, <1>8, <1>9
  <2>3. CASE ~(n > 0) BY <2>1, <2>3, <1>2
  <2>4. QED BY <2>2, <2>3
<1>15. QED BY <1>10, <1>11, <1>12, <1>13, <1>14

\* Reading an event off quiche.
LEMMA PoppedFacts ==
  ASSUME TypeOK, NEW id \in Ids
  PROVE  /\ qs[id] \in StreamType /\ ReadPopped(id) \in StreamType /\ ReadPopped(id).stopped = qs[id].stopped
         /\ WritePopped(id) \in StreamType /\ WritePopped(id).stopped = qs[id].stopped
BY ZenonT(60) DEF TypeOK, StreamType, ReadPopped, WritePopped

\* A flush of the send side either fails, for a FIN that meets a STOP_SENDING,
\* and asks for the end of the connection, or changes the stream.
LEMMA FlushSendEffect ==
  ASSUME TypeOK, NEW id \in Ids, NEW k \in StreamType, NEW next, FlushSendOf(id, k, next)
  PROVE  \/ /\ Failed("quiche") /\ qs' = [qs EXCEPT ![id] = k]
            /\ ss' = ss /\ q' = q /\ sends' = sends /\ ss[id].fin /\ k.stopped
         \/ /\ \E st \in SendType, kk \in StreamType, c \in Nat :
                 /\ ss' = [ss EXCEPT ![id] = st] /\ qs' = [qs EXCEPT ![id] = kk] /\ q' = [q EXCEPT !.credit = c]
                 /\ st.fin = ss[id].fin /\ kk.stopped = k.stopped
            /\ drv' = drv /\ d' = next
            /\ \E S : awake' = awake \cup S
<1>1. PICK f : f = SendFlush(id, k) OBVIOUS
<1>2. SendFlushed(id, k, f) BY <1>1, SendFlushFacts
<1>3. CASE f.err BY <1>1, <1>2, <1>3 DEF FlushSendOf, SendFlushed
<1>4. CASE ~f.err
  <2>1. /\ ss' = [ss EXCEPT ![id] = f.st] /\ qs' = [qs EXCEPT ![id] = f.k]
        /\ q' = [q EXCEPT !.credit = f.credit] /\ drv' = drv /\ d' = next
        /\ awake' = awake \cup Fire(IF f.wake THEN SendHalf(id) ELSE {}) BY <1>1, <1>4 DEF FlushSendOf
  <2>2. QED BY <2>1, <1>2 DEF SendFlushed
<1>5. QED BY <1>3, <1>4

\* A flush of the receive side changes the stream and may wake its handle.
LEMMA FlushRecvEffect ==
  ASSUME TypeOK, NEW id \in Ids, NEW k \in StreamType, NEW next, FlushRecvOf(id, k, next)
  PROVE  /\ \E st \in RecvType, kk \in StreamType :
              /\ rs' = [rs EXCEPT ![id] = st] /\ qs' = [qs EXCEPT ![id] = kk] /\ kk.stopped = k.stopped
         /\ d' = next /\ \E S : awake' = awake \cup S
<1>1. PICK f : f = RecvFlush(id, k) OBVIOUS
<1>2. f.st \in RecvType /\ f.k \in StreamType /\ f.k.stopped = k.stopped BY <1>1, RecvFlushFacts
<1>3. /\ rs' = [rs EXCEPT ![id] = f.st] /\ qs' = [qs EXCEPT ![id] = f.k] /\ d' = next
      /\ awake' = awake \cup Fire(IF f.wake THEN RecvHalf(id) ELSE {}) BY <1>1 DEF FlushRecvOf
<1>4. QED BY <1>2, <1>3

\* A half is of a stream.
LEMMA HalfId ==
  ASSUME NEW h \in Halves
  PROVE  h[1] \in Ids /\ h \in Tasks
BY DEF Halves, Tasks

\* The reason on_conn_close gives.
LEMMA CloseReasonFacts ==
  ASSUME TypeOK
  PROVE  /\ CloseReason \in Errors
         /\ drv.creq # "none" => CloseReason = drv.creq
         /\ drv.creq = "none" /\ q.local = "none" => CloseReason \in {"remote", "unknown"}
<1>1. drv.creq \in Reasons /\ q.local \in Reasons BY DEF TypeOK, DrvType, QuicheType
<1>2. CASE drv.creq # "none" BY <1>1, <1>2 DEF CloseReason, Reasons
<1>3. CASE drv.creq = "none" /\ q.local # "none" BY <1>1, <1>3 DEF CloseReason, Reasons
<1>4. CASE drv.creq = "none" /\ q.local = "none" BY <1>1, <1>4 DEF CloseReason, Errors
<1>5. QED BY <1>2, <1>3, <1>4

-----------------------------------------------------------------------------
(* Type correctness                                                         *)

\* Which steps change which part of the state; every other step leaves it.
LEMMA Touched ==
  ASSUME Next
  PROVE  /\ plan' = plan
         /\ \/ drv' = drv
            \/ \E id \in Ids : \/ AcceptUni(id) \/ AcceptBi(id) \/ WriteKnown(id)
                               \/ FlushSend(id) \/ Write(id) \/ Finish(id) \/ Reset(id)
                               \/ SetPriority(id) \/ SendClosed(id) \/ Flush(id) \/ Read(id)
                               \/ Stop(id) \/ RecvClosed(id)
            \/ (\E due \in KeepAliveDue : PollMain(due))
            \/ (\E h \in Halves : Tell(h) \/ Check(h)) \/ (\E o \in Openers : Open(o))
            \/ PollEarly \/ Connected \/ OnConnClose \/ PollHandshake \/ PollClosed \/ Close
            \/ DropConnection \/ Nudge
         /\ \/ ss' = ss
            \/ \E id \in Ids : \/ AcceptBi(id) \/ WriteKnown(id) \/ FlushSend(id)
                               \/ Write(id) \/ Finish(id) \/ Reset(id) \/ DropSend(id)
                               \/ SendClosed(id) \/ Flush(id)
         /\ \/ rs' = rs
            \/ \E id \in Ids : \/ ReadKnown(id) \/ FlushRecv(id) \/ Read(id) \/ Stop(id)
                               \/ DropRecv(id) \/ RecvClosed(id)
         /\ \/ d' = d
            \/ \E id \in Ids : \/ ReadKnown(id) \/ AcceptUni(id) \/ AcceptBi(id)
                               \/ WriteKnown(id) \/ FlushRecv(id) \/ FlushSend(id)
            \/ (\E due \in KeepAliveDue : PollMain(due)) \/ ReadDatagrams \/ WriteDatagrams
            \/ PollClose \/ PollEarly \/ Flushed \/ Woken \/ NetDone \/ Interrupted \/ Connected
            \/ OnConnClose
         /\ \/ q' = q \/ (\E id \in Ids : WriteKnown(id) \/ FlushSend(id))
            \/ (\E due \in KeepAliveDue : PollMain(due)) \/ (\E k \in Kinds : PeerMaxStreams(k))
            \/ ReadDatagrams \/ PollClose \/ Connected \/ SendClose \/ PeerCredit \/ PeerDatagram
            \/ PeerClose \/ Timeout
         /\ \/ qs' = qs
            \/ \E id \in Ids : \/ ReadKnown(id) \/ AcceptUni(id) \/ AcceptBi(id)
                               \/ WriteKnown(id) \/ WriteGone(id) \/ FlushRecv(id)
                               \/ FlushSend(id) \/ PeerData(id) \/ PeerFin(id)
                               \/ PeerReset(id) \/ PeerStop(id)
            \/ (\E due \in KeepAliveDue : PollMain(due)) \/ PeerCredit
         /\ \/ ap' = ap
            \/ \E id \in Ids : \/ AcceptUni(id) \/ AcceptBi(id) \/ Write(id) \/ Finish(id)
                               \/ Reset(id) \/ SetPriority(id) \/ DropSend(id)
                               \/ SendClosed(id) \/ Flush(id) \/ Read(id) \/ Stop(id)
                               \/ DropRecv(id) \/ RecvClosed(id) \/ Accept(id)
            \/ (\E h \in Halves : Tell(h) \/ Check(h)) \/ (\E o \in Openers : Open(o))
         /\ op' = op \/ (\E o \in Openers : Open(o))
         /\ one' = one \/ PollHandshake \/ PollClosed
         /\ \/ cn' = cn \/ ReadDatagrams \/ WriteDatagrams \/ DropConnection \/ SendDatagram
            \/ Nudge \/ ReadDatagram
         /\ \/ seen' = seen \/ (\E h \in Halves : Check(h)) \/ (\E o \in Openers : Open(o))
            \/ PollHandshake \/ PollClosed
<1>1. ASSUME NEW id \in Ids, ReadKnown(id) PROVE UNCHANGED <<plan, drv, ss, q, ap, op, one, cn, seen>>
  BY <1>1 DEF ReadKnown, FlushRecvOf
<1>2. ASSUME NEW id \in Ids, AcceptUni(id) PROVE UNCHANGED <<plan, ss, rs, q, op, one, cn, seen>>
  BY <1>2 DEF AcceptUni, Failed
<1>3. ASSUME NEW id \in Ids, AcceptBi(id) PROVE UNCHANGED <<plan, rs, q, op, one, cn, seen>>
  BY <1>3 DEF AcceptBi, Failed
<1>4. ASSUME NEW id \in Ids, WriteKnown(id) PROVE UNCHANGED <<plan, rs, ap, op, one, cn, seen>>
  BY <1>4 DEF WriteKnown, Failed, FlushSendOf
<1>5. ASSUME NEW id \in Ids, WriteGone(id) PROVE UNCHANGED <<plan, drv, ss, rs, d, q, ap, op, one, cn, seen>>
  BY <1>5 DEF WriteGone
<1>6. ASSUME NEW id \in Ids, FlushRecv(id) PROVE UNCHANGED <<plan, drv, ss, q, ap, op, one, cn, seen>>
  BY <1>6 DEF FlushRecv, FlushRecvOf
<1>7. ASSUME NEW id \in Ids, FlushSend(id) PROVE UNCHANGED <<plan, rs, ap, op, one, cn, seen>>
  BY <1>7 DEF FlushSend, Failed, FlushSendOf
<1>8. ASSUME ReadDatagrams PROVE UNCHANGED <<plan, drv, ss, rs, qs, ap, op, one, seen>> BY <1>8 DEF ReadDatagrams
<1>9. ASSUME WriteDatagrams PROVE UNCHANGED <<plan, drv, ss, rs, q, qs, ap, op, one, seen>> BY <1>9 DEF WriteDatagrams
<1>10. ASSUME PollClose PROVE UNCHANGED <<plan, drv, ss, rs, qs, ap, op, one, cn, seen>> BY <1>10 DEF PollClose
<1>11. ASSUME PollEarly PROVE UNCHANGED <<plan, ss, rs, q, qs, ap, op, one, cn, seen>> BY <1>11 DEF PollEarly
<1>12. ASSUME NEW due \in KeepAliveDue, PollMain(due) PROVE UNCHANGED <<plan, ss, rs, ap, op, one, cn, seen>>
  BY <1>12 DEF PollMain, Failed
<1>13. ASSUME Flushed PROVE UNCHANGED <<plan, drv, ss, rs, q, qs, ap, op, one, cn, seen>> BY <1>13 DEF Flushed
<1>14. ASSUME Woken PROVE UNCHANGED <<plan, drv, ss, rs, q, qs, ap, op, one, cn, seen>> BY <1>14 DEF Woken
<1>15. ASSUME NetDone PROVE UNCHANGED <<plan, drv, ss, rs, q, qs, ap, op, one, cn, seen>> BY <1>15 DEF NetDone
<1>16. ASSUME Interrupted PROVE UNCHANGED <<plan, drv, ss, rs, q, qs, ap, op, one, cn, seen>> BY <1>16 DEF Interrupted
<1>17. ASSUME Connected PROVE UNCHANGED <<plan, ss, rs, qs, ap, op, one, cn, seen>> BY <1>17 DEF Connected
<1>18. ASSUME SendClose PROVE UNCHANGED <<plan, drv, ss, rs, d, qs, ap, op, one, cn, seen>>
  BY <1>18 DEF SendClose, NetFrame
<1>19. ASSUME OnConnClose PROVE UNCHANGED <<plan, ss, rs, q, qs, ap, op, one, cn, seen>> BY <1>19 DEF OnConnClose
<1>20. ASSUME NEW id \in Ids, PeerData(id) PROVE UNCHANGED <<plan, drv, ss, rs, d, q, ap, op, one, cn, seen>>
  BY <1>20 DEF PeerData, NetFrame
<1>21. ASSUME NEW id \in Ids, PeerFin(id) PROVE UNCHANGED <<plan, drv, ss, rs, d, q, ap, op, one, cn, seen>>
  BY <1>21 DEF PeerFin, NetFrame
<1>22. ASSUME NEW id \in Ids, PeerReset(id) PROVE UNCHANGED <<plan, drv, ss, rs, d, q, ap, op, one, cn, seen>>
  BY <1>22 DEF PeerReset, NetFrame
<1>23. ASSUME NEW id \in Ids, PeerStop(id) PROVE UNCHANGED <<plan, drv, ss, rs, d, q, ap, op, one, cn, seen>>
  BY <1>23 DEF PeerStop, NetFrame
<1>24. ASSUME PeerCredit PROVE UNCHANGED <<plan, drv, ss, rs, d, ap, op, one, cn, seen>>
  BY <1>24 DEF PeerCredit, NetFrame
<1>25. ASSUME NEW k \in Kinds, PeerMaxStreams(k) PROVE UNCHANGED <<plan, drv, ss, rs, d, qs, ap, op, one, cn, seen>>
  BY <1>25 DEF PeerMaxStreams, NetFrame
<1>26. ASSUME PeerDatagram PROVE UNCHANGED <<plan, drv, ss, rs, d, qs, ap, op, one, cn, seen>>
  BY <1>26 DEF PeerDatagram, NetFrame
<1>27. ASSUME PeerClose PROVE UNCHANGED <<plan, drv, ss, rs, d, qs, ap, op, one, cn, seen>>
  BY <1>27 DEF PeerClose, NetFrame
<1>28. ASSUME Timeout PROVE UNCHANGED <<plan, drv, ss, rs, d, qs, ap, op, one, cn, seen>> BY <1>28 DEF Timeout, NetFrame
<1>29. ASSUME NEW id \in Ids, Write(id) PROVE UNCHANGED <<plan, rs, d, q, qs, op, one, cn, seen>>
  BY <1>29 DEF Write, AppFrame
<1>30. ASSUME NEW id \in Ids, Finish(id) PROVE UNCHANGED <<plan, rs, d, q, qs, op, one, cn, seen>>
  BY <1>30 DEF Finish, AppFrame
<1>31. ASSUME NEW id \in Ids, Reset(id) PROVE UNCHANGED <<plan, rs, d, q, qs, op, one, cn, seen>>
  BY <1>31 DEF Reset, AppFrame
<1>32. ASSUME NEW id \in Ids, SetPriority(id) PROVE UNCHANGED <<plan, ss, rs, d, q, qs, op, one, cn, seen>>
  BY <1>32 DEF SetPriority, AppFrame
<1>33. ASSUME NEW id \in Ids, DropSend(id) PROVE UNCHANGED <<plan, drv, rs, d, q, qs, op, one, cn, seen>>
  BY <1>33 DEF DropSend, AppFrame
<1>34. ASSUME NEW id \in Ids, SendClosed(id) PROVE UNCHANGED <<plan, rs, d, q, qs, op, one, cn, seen>>
  BY <1>34 DEF SendClosed, AppFrame
<1>35. ASSUME NEW id \in Ids, Flush(id) PROVE UNCHANGED <<plan, rs, d, q, qs, op, one, cn, seen>>
  BY <1>35 DEF Flush, AppFrame
<1>36. ASSUME NEW id \in Ids, Read(id) PROVE UNCHANGED <<plan, ss, d, q, qs, op, one, cn, seen>>
  BY <1>36 DEF Read, AppFrame
<1>37. ASSUME NEW id \in Ids, Stop(id) PROVE UNCHANGED <<plan, ss, d, q, qs, op, one, cn, seen>>
  BY <1>37 DEF Stop, AppFrame
<1>38. ASSUME NEW id \in Ids, DropRecv(id) PROVE UNCHANGED <<plan, drv, ss, d, q, qs, op, one, cn, seen>>
  BY <1>38 DEF DropRecv, AppFrame
<1>39. ASSUME NEW id \in Ids, RecvClosed(id) PROVE UNCHANGED <<plan, ss, d, q, qs, op, one, cn, seen>>
  BY <1>39 DEF RecvClosed, AppFrame
<1>40. ASSUME NEW id \in Ids, Accept(id) PROVE UNCHANGED <<plan, drv, ss, rs, d, q, qs, op, one, cn, seen>>
  BY <1>40 DEF Accept
<1>41. ASSUME NEW h \in Halves, Tell(h) PROVE UNCHANGED <<plan, ss, rs, d, q, qs, op, one, cn, seen>> BY <1>41 DEF Tell
<1>42. ASSUME NEW h \in Halves, Check(h) PROVE UNCHANGED <<plan, ss, rs, d, q, qs, op, one, cn>> BY <1>42 DEF Check
<1>43. ASSUME NEW o \in Openers, Open(o) PROVE UNCHANGED <<plan, ss, rs, d, q, qs, one, cn>> BY <1>43 DEF Open
<1>44. ASSUME PollHandshake PROVE UNCHANGED <<plan, ss, rs, d, q, qs, ap, op, cn>> BY <1>44 DEF PollHandshake
<1>45. ASSUME PollClosed PROVE UNCHANGED <<plan, ss, rs, d, q, qs, ap, op, cn>> BY <1>45 DEF PollClosed
<1>46. ASSUME Close PROVE UNCHANGED <<plan, ss, rs, d, q, qs, ap, op, one, cn, seen>> BY <1>46 DEF Close
<1>47. ASSUME DropConnection PROVE UNCHANGED <<plan, ss, rs, d, q, qs, ap, op, one, seen>> BY <1>47 DEF DropConnection
<1>48. ASSUME SendDatagram PROVE UNCHANGED <<plan, drv, ss, rs, d, q, qs, ap, op, one, seen>> BY <1>48 DEF SendDatagram
<1>49. ASSUME Nudge PROVE UNCHANGED <<plan, ss, rs, d, q, qs, ap, op, one, seen>> BY <1>49 DEF Nudge
<1>50. ASSUME ReadDatagram PROVE UNCHANGED <<plan, drv, ss, rs, d, q, qs, ap, op, one, seen>> BY <1>50 DEF ReadDatagram
<1>51. QED BY <1>1, <1>2, <1>3, <1>4, <1>5, <1>6, <1>7, <1>8, <1>9, <1>10, <1>11, <1>12, <1>13, <1>14, <1>15,
    <1>16, <1>17, <1>18, <1>19, <1>20, <1>21, <1>22, <1>23, <1>24, <1>25, <1>26, <1>27, <1>28,
    <1>29, <1>30, <1>31, <1>32, <1>33, <1>34, <1>35, <1>36, <1>37, <1>38, <1>39, <1>40, <1>41,
    <1>42, <1>43, <1>44, <1>45, <1>46, <1>47, <1>48, <1>49, <1>50 DEF Next, DriverStep, Peer, App,
    Call

\* What the network does: only quiche changes, and the handshake is over.
LEMMA NetSteps ==
  ASSUME TypeOK, Peer \/ SendClose
  PROVE  NetFrame /\ d.pc = "net" /\ q'.status # "handshake"
<1>1. q \in QuicheType BY DEF TypeOK
<1>2. NetFrame /\ d.pc = "net"
  BY DEF Peer, SendClose, PeerData, PeerFin, PeerReset, PeerStop, PeerCredit, PeerMaxStreams, PeerDatagram, PeerClose,
    Timeout, AtNet
<1>3. q'.status # "handshake"
  BY <1>1 DEF Peer, SendClose, PeerData, PeerFin, PeerReset, PeerStop, PeerCredit, PeerMaxStreams, PeerDatagram,
    PeerClose, Timeout, AtNet, QuicheType
<1>4. QED BY <1>2, <1>3

\* A call of the application on one of its handles leaves the driver's task and
\* quiche alone, and forgets the wakers it left behind when it slept.
LEMMA CallSteps ==
  ASSUME NEW id \in Ids, Call(id)
  PROVE  \E h \in Halves :
           /\ ap[h].pc # "none" /\ d' = d /\ q' = q /\ cn' = cn
           /\ \/ drv' = drv /\ awake' = awake
              \/ awake' = awake \ {h} /\ drv' = [drv EXCEPT !.crw = @ \ {h}, !.clw = @ \ {h}]
<1>1. CASE Write(id) \/ Finish(id) \/ Reset(id) BY <1>1 DEF Write, Finish, Reset, Calls, AppFrame
<1>2. CASE SetPriority(id) \/ SendClosed(id) \/ Flush(id) BY <1>2 DEF SetPriority, SendClosed, Flush, Calls, AppFrame
<1>3. CASE Read(id) \/ Stop(id) \/ RecvClosed(id) BY <1>3 DEF Read, Stop, RecvClosed, Calls, AppFrame
<1>4. CASE DropSend(id) \/ DropRecv(id) BY <1>4 DEF DropSend, DropRecv, MayDrop, AppFrame
<1>5. CASE Accept(id) BY <1>5 DEF Accept
<1>6. QED BY <1>1, <1>2, <1>3, <1>4, <1>5 DEF Call

\* The handles.
LEMMA TypeAp ==
  ASSUME TypeOK, Next
  PROVE  ap' \in [Halves -> HandleType]
<1>t. ap \in [Halves -> HandleType] BY DEF TypeOK
<1>y. TypeOK OBVIOUS
<1>0. CASE ap' = ap BY <1>0, <1>t
<1>1. ASSUME NEW id \in Ids, AcceptUni(id) PROVE ap' \in [Halves -> HandleType]
  BY <1>1, <1>t, ZenonT(60) DEF AcceptUni, HandleType
<1>2. ASSUME NEW id \in Ids, AcceptBi(id) PROVE ap' \in [Halves -> HandleType] BY <1>2, <1>t DEF AcceptBi, HandleType
<1>3. ASSUME NEW id \in Ids, Write(id) PROVE ap' \in [Halves -> HandleType] BY <1>3, <1>t DEF Write, Goes, HandleType
<1>4. ASSUME NEW id \in Ids, Finish(id) PROVE ap' \in [Halves -> HandleType] BY <1>4, <1>t DEF Finish, Goes, HandleType
<1>5. ASSUME NEW id \in Ids, Reset(id) PROVE ap' \in [Halves -> HandleType] BY <1>5, <1>t DEF Reset, Goes, HandleType
<1>6. ASSUME NEW id \in Ids, SetPriority(id) PROVE ap' \in [Halves -> HandleType]
  BY <1>6, <1>t, ZenonT(60) DEF SetPriority, Goes, HandleType
<1>7. ASSUME NEW id \in Ids, DropSend(id) PROVE ap' \in [Halves -> HandleType]
  BY <1>7, <1>t DEF DropSend, Goes, HandleType
<1>8. ASSUME NEW id \in Ids, SendClosed(id) PROVE ap' \in [Halves -> HandleType]
  <2>1. PICK h : h = <<id, "send">> OBVIOUS
  <2>2. h \in Halves /\ ap[h] \in HandleType BY <1>8, <2>1, <1>t DEF SendClosed
  <2>3. \E e \in HandleType : ap' = [ap EXCEPT ![h] = e]
    <3>1. CASE Dead(ss[id]) \/ ss[id].closed
      <4>1. PICK r : r = IF Dead(ss[id]) THEN ap[h].res ELSE "finished" OBVIOUS
      <4>2. r \in {"none", "finished"} BY <4>1, <2>2 DEF HandleType
      <4>3. ap' = [ap EXCEPT ![h] = [pc |-> "idle", op |-> "none", res |-> r]]
        BY <1>8, <2>1, <2>2, <3>1, <4>1, <1>t DEF SendClosed
      <4>4. QED BY <4>2, <4>3 DEF HandleType
    <3>2. CASE ~(Dead(ss[id]) \/ ss[id].closed)
      <4>1. ap' = [ap EXCEPT ![h] = [[ap[h] EXCEPT !.pc = "check"] EXCEPT !.op = "closed"]]
        BY <1>8, <2>1, <2>2, <3>2, <1>t DEF SendClosed, Goes, HandleType
      <4>2. [[ap[h] EXCEPT !.pc = "check"] EXCEPT !.op = "closed"] \in HandleType BY <2>2 DEF HandleType
      <4>3. QED BY <4>1, <4>2
    <3>3. QED BY <3>1, <3>2
  <2>4. QED BY <2>3, <1>t
<1>9. ASSUME NEW id \in Ids, Flush(id) PROVE ap' \in [Halves -> HandleType]
  BY <1>9, <1>t, SMTT(30) DEF Flush, Goes, HandleType
<1>10. ASSUME NEW id \in Ids, Read(id) PROVE ap' \in [Halves -> HandleType]
  BY <1>10, <1>t, SMTT(30) DEF Read, Goes, HandleType
<1>11. ASSUME NEW id \in Ids, Stop(id) PROVE ap' \in [Halves -> HandleType] BY <1>11, <1>t DEF Stop, Goes, HandleType
<1>12. ASSUME NEW id \in Ids, DropRecv(id) PROVE ap' \in [Halves -> HandleType]
  BY <1>12, <1>t DEF DropRecv, Goes, HandleType
<1>13. ASSUME NEW id \in Ids, RecvClosed(id) PROVE ap' \in [Halves -> HandleType]
  BY <1>13, <1>t DEF RecvClosed, Goes, HandleType
<1>14. ASSUME NEW id \in Ids, Accept(id) PROVE ap' \in [Halves -> HandleType] BY <1>14, <1>t DEF Accept, HandleType
<1>15. ASSUME NEW h \in Halves, Tell(h) PROVE ap' \in [Halves -> HandleType]
  <2>1. ap[h] \in HandleType BY <1>t
  <2>2. PICK x \in {"gone", "idle"} : Goes(h, x, ap[h].op) BY <1>15 DEF Tell
  <2>3. ap' = [ap EXCEPT ![h] = [[ap[h] EXCEPT !.pc = x] EXCEPT !.op = "none"]] BY <2>1, <2>2, <1>t DEF Goes, HandleType
  <2>4. [[ap[h] EXCEPT !.pc = x] EXCEPT !.op = "none"] \in HandleType BY <2>1, <2>2 DEF HandleType
  <2>5. QED BY <2>3, <2>4, <1>t
<1>16. ASSUME NEW h \in Halves, Check(h) PROVE ap' \in [Halves -> HandleType] BY <1>16, <1>t DEF Check, Goes, HandleType
<1>17. ASSUME NEW o \in Openers, Open(o) PROVE ap' \in [Halves -> HandleType]
  BY <1>17, <1>t, SMTT(30) DEF Open, Goes, HandleType
<1>18. QED BY <1>0, <1>1, <1>2, <1>3, <1>4, <1>5, <1>6, <1>7, <1>8, <1>9, <1>10, <1>11, <1>12, <1>13, <1>14,
    <1>15, <1>16, <1>17, Touched

\* The calls that open and wait.
LEMMA TypeOpOne ==
  ASSUME TypeOK, Next
  PROVE  /\ op' \in [Openers -> {"none", "wait", "done"}]
         /\ one' \in [{HandshakeTask, ClosedTask} -> {"none", "wait", "ok", "err"}]
<1>1. /\ op \in [Openers -> {"none", "wait", "done"}]
      /\ one \in [{HandshakeTask, ClosedTask} -> {"none", "wait", "ok", "err"}] BY DEF TypeOK
<1>2. op' \in [Openers -> {"none", "wait", "done"}]
  <2>1. ASSUME NEW o \in Openers, Open(o) PROVE op' \in [Openers -> {"none", "wait", "done"}] BY <2>1, <1>1 DEF Open
  <2>2. QED BY <2>1, <1>1, Touched
<1>3. one' \in [{HandshakeTask, ClosedTask} -> {"none", "wait", "ok", "err"}]
  <2>1. CASE PollHandshake BY <2>1, <1>1 DEF PollHandshake
  <2>2. CASE PollClosed BY <2>2, <1>1 DEF PollClosed
  <2>3. QED BY <2>1, <2>2, <1>1, Touched
<1>4. QED BY <1>2, <1>3

\* The Connection.
LEMMA TypeCn ==
  ASSUME TypeOK, Next
  PROVE  cn' \in ConnType
<1>t. cn \in ConnType /\ q \in QuicheType BY DEF TypeOK
<1>y. TypeOK OBVIOUS
<1>0. CASE cn' = cn BY <1>0, <1>t
<1>1. ASSUME ReadDatagrams PROVE cn' \in ConnType BY <1>1, <1>t, EzAssumption DEF ReadDatagrams, ConnType, QuicheType
<1>2. ASSUME WriteDatagrams PROVE cn' \in ConnType BY <1>2, <1>t, EzAssumption DEF WriteDatagrams, ConnType, QuicheType
<1>3. ASSUME DropConnection PROVE cn' \in ConnType BY <1>3, <1>t, EzAssumption DEF DropConnection, ConnType, QuicheType
<1>4. ASSUME SendDatagram PROVE cn' \in ConnType
  <2>1. cn' = [cn EXCEPT !.out = @ + 1, !.pc = "nudge"] BY <1>4 DEF SendDatagram
  <2>2. cn.out + 1 \in Nat BY <1>t DEF ConnType
  <2>3. QED BY <2>1, <2>2, <1>t DEF ConnType
<1>5. ASSUME Nudge PROVE cn' \in ConnType BY <1>5, <1>t, EzAssumption DEF Nudge, ConnType, QuicheType
<1>6. ASSUME ReadDatagram PROVE cn' \in ConnType BY <1>6, <1>t, EzAssumption DEF ReadDatagram, ConnType, QuicheType
<1>7. QED BY <1>0, <1>1, <1>2, <1>3, <1>4, <1>5, <1>6, Touched

\* The receive sides.
LEMMA TypeRs ==
  ASSUME TypeOK, Next
  PROVE  rs' \in [Ids -> RecvType]
<1>t. rs \in [Ids -> RecvType] /\ qs \in [Ids -> StreamType] BY DEF TypeOK
<1>y. TypeOK OBVIOUS
<1>0. CASE rs' = rs BY <1>0, <1>t
<1>1. ASSUME NEW id \in Ids, ReadKnown(id) PROVE rs' \in [Ids -> RecvType]
  <2>1. FlushRecvOf(id, ReadPopped(id), d) BY <1>1 DEF ReadKnown
  <2>2. PICK st \in RecvType : rs' = [rs EXCEPT ![id] = st] BY <2>1, <1>y, PoppedFacts, FlushRecvEffect
  <2>3. QED BY <2>2, <1>t
<1>2. ASSUME NEW id \in Ids, FlushRecv(id) PROVE rs' \in [Ids -> RecvType]
  <2>1. CASE id \in recvs
    <3>1. PICK next : FlushRecvOf(id, qs[id], next) BY <1>2, <2>1 DEF FlushRecv
    <3>2. PICK st \in RecvType : rs' = [rs EXCEPT ![id] = st] BY <3>1, <1>y, PoppedFacts, FlushRecvEffect
    <3>3. QED BY <3>2, <1>t
  <2>2. CASE id \notin recvs BY <1>2, <2>2, <1>t DEF FlushRecv
  <2>3. QED BY <2>1, <2>2
<1>3. ASSUME NEW id \in Ids, Read(id) PROVE rs' \in [Ids -> RecvType] BY <1>3, <1>t, EzAssumption DEF Read, RecvType
<1>4. ASSUME NEW id \in Ids, Stop(id) PROVE rs' \in [Ids -> RecvType] BY <1>4, <1>t, EzAssumption DEF Stop, RecvType
<1>5. ASSUME NEW id \in Ids, DropRecv(id) PROVE rs' \in [Ids -> RecvType]
  BY <1>5, <1>t, EzAssumption DEF DropRecv, RecvType
<1>6. ASSUME NEW id \in Ids, RecvClosed(id) PROVE rs' \in [Ids -> RecvType]
  BY <1>6, <1>t, EzAssumption, ZenonT(60) DEF RecvClosed, RecvType
<1>7. QED BY <1>0, <1>1, <1>2, <1>3, <1>4, <1>5, <1>6, Touched

\* The send sides.
LEMMA TypeSs ==
  ASSUME TypeOK, Next
  PROVE  ss' \in [Ids -> SendType]
<1>t. ss \in [Ids -> SendType] /\ qs \in [Ids -> StreamType] BY DEF TypeOK
<1>y. TypeOK OBVIOUS
<1>0. CASE ss' = ss BY <1>0, <1>t
<1>1. ASSUME NEW id \in Ids, AcceptBi(id) PROVE ss' \in [Ids -> SendType]
  <2>1. SendFlushed(id, ReadPopped(id), SendFlush(id, ReadPopped(id))) BY <1>y, PoppedFacts, SendFlushFacts
  <2>2. ss' = [ss EXCEPT ![id] = SendFlush(id, ReadPopped(id)).st] BY <1>1 DEF AcceptBi
  <2>3. QED BY <2>1, <2>2, <1>t DEF SendFlushed
<1>2. ASSUME NEW id \in Ids, WriteKnown(id) PROVE ss' \in [Ids -> SendType]
  <2>1. FlushSendOf(id, WritePopped(id), d) BY <1>2 DEF WriteKnown
  <2>2. \/ ss' = ss
        \/ \E st \in SendType : ss' = [ss EXCEPT ![id] = st] BY <2>1, <1>y, PoppedFacts, FlushSendEffect
  <2>3. QED BY <2>2, <1>t, <1>y, PoppedFacts
<1>3. ASSUME NEW id \in Ids, FlushSend(id) PROVE ss' \in [Ids -> SendType]
  <2>1. CASE id \in sends
    <3>1. PICK next : FlushSendOf(id, qs[id], next) BY <1>3, <2>1 DEF FlushSend
    <3>2. \/ ss' = ss
          \/ \E st \in SendType : ss' = [ss EXCEPT ![id] = st] BY <3>1, <1>y, PoppedFacts, FlushSendEffect
    <3>3. QED BY <3>2, <1>t, <1>y, PoppedFacts
  <2>2. CASE id \notin sends BY <1>3, <2>2, <1>t DEF FlushSend
  <2>3. QED BY <2>1, <2>2
<1>4. ASSUME NEW id \in Ids, Write(id) PROVE ss' \in [Ids -> SendType]
  <2>1. \/ ss' = ss
        \/ ss' = [ss EXCEPT ![id].blocked = TRUE]
        \/ ss[id].cap > 0 /\ ss' = [ss EXCEPT ![id].cap = @ - 1, ![id].queued = @ + 1] BY <1>4 DEF Write
  <2>2. CASE ss' = [ss EXCEPT ![id].blocked = TRUE] BY <2>2, <1>t DEF SendType
  <2>3. CASE ss[id].cap > 0 /\ ss' = [ss EXCEPT ![id].cap = @ - 1, ![id].queued = @ + 1]
    <3>1. ss[id].cap - 1 \in Nat /\ ss[id].queued + 1 \in Nat BY <2>3, <1>t DEF SendType
    <3>2. QED BY <2>3, <3>1, <1>t DEF SendType
  <2>4. QED BY <2>1, <2>2, <2>3, <1>t
<1>5. ASSUME NEW id \in Ids, Finish(id) PROVE ss' \in [Ids -> SendType] BY <1>5, <1>t DEF Finish, SendType
<1>6. ASSUME NEW id \in Ids, Reset(id) PROVE ss' \in [Ids -> SendType] BY <1>6, <1>t DEF Reset, SendType
<1>7. ASSUME NEW id \in Ids, DropSend(id) PROVE ss' \in [Ids -> SendType] BY <1>7, <1>t DEF DropSend, SendType
<1>8. ASSUME NEW id \in Ids, SendClosed(id) PROVE ss' \in [Ids -> SendType]
  BY <1>8, <1>t, ZenonT(60) DEF SendClosed, SendType
<1>9. ASSUME NEW id \in Ids, Flush(id) PROVE ss' \in [Ids -> SendType] BY <1>9, <1>t, ZenonT(60) DEF Flush, SendType
<1>10. QED BY <1>0, <1>1, <1>2, <1>3, <1>4, <1>5, <1>6, <1>7, <1>8, <1>9, Touched

\* The streams of quiche.
LEMMA TypeQs ==
  ASSUME TypeOK, Next
  PROVE  qs' \in [Ids -> StreamType]
<1>t. qs \in [Ids -> StreamType] BY DEF TypeOK
<1>y. TypeOK OBVIOUS
<1>0. CASE qs' = qs BY <1>0, <1>t
<1>1. ASSUME NEW id \in Ids, ReadKnown(id) PROVE qs' \in [Ids -> StreamType]
  <2>1. FlushRecvOf(id, ReadPopped(id), d) BY <1>1 DEF ReadKnown
  <2>2. PICK kk \in StreamType : qs' = [qs EXCEPT ![id] = kk] BY <2>1, <1>y, PoppedFacts, FlushRecvEffect
  <2>3. QED BY <2>2, <1>t
<1>2. ASSUME NEW id \in Ids, AcceptUni(id) PROVE qs' \in [Ids -> StreamType]
  <2>1. qs' = [qs EXCEPT ![id] = ReadPopped(id)] BY <1>2 DEF AcceptUni
  <2>2. QED BY <2>1, <1>t, <1>y, PoppedFacts
<1>3. ASSUME NEW id \in Ids, AcceptBi(id) PROVE qs' \in [Ids -> StreamType]
  <2>1. SendFlushed(id, ReadPopped(id), SendFlush(id, ReadPopped(id))) BY <1>y, PoppedFacts, SendFlushFacts
  <2>2. qs' = [qs EXCEPT ![id] = SendFlush(id, ReadPopped(id)).k] BY <1>3 DEF AcceptBi
  <2>3. QED BY <2>1, <2>2, <1>t DEF SendFlushed
<1>4. ASSUME NEW id \in Ids, WriteKnown(id) PROVE qs' \in [Ids -> StreamType]
  <2>1. FlushSendOf(id, WritePopped(id), d) BY <1>4 DEF WriteKnown
  <2>2. \/ qs' = [qs EXCEPT ![id] = WritePopped(id)]
        \/ \E kk \in StreamType : qs' = [qs EXCEPT ![id] = kk] BY <2>1, <1>y, PoppedFacts, FlushSendEffect
  <2>3. QED BY <2>2, <1>t, <1>y, PoppedFacts
<1>5. ASSUME NEW id \in Ids, WriteGone(id) PROVE qs' \in [Ids -> StreamType] BY <1>5, <1>t DEF WriteGone, StreamType
<1>6. ASSUME NEW id \in Ids, FlushRecv(id) PROVE qs' \in [Ids -> StreamType]
  <2>1. CASE id \in recvs
    <3>1. PICK next : FlushRecvOf(id, qs[id], next) BY <1>6, <2>1 DEF FlushRecv
    <3>2. PICK kk \in StreamType : qs' = [qs EXCEPT ![id] = kk] BY <3>1, <1>y, PoppedFacts, FlushRecvEffect
    <3>3. QED BY <3>2, <1>t
  <2>2. CASE id \notin recvs BY <1>6, <2>2, <1>t DEF FlushRecv
  <2>3. QED BY <2>1, <2>2
<1>7. ASSUME NEW id \in Ids, FlushSend(id) PROVE qs' \in [Ids -> StreamType]
  <2>1. CASE id \in sends
    <3>1. PICK next : FlushSendOf(id, qs[id], next) BY <1>7, <2>1 DEF FlushSend
    <3>2. \/ qs' = [qs EXCEPT ![id] = qs[id]]
          \/ \E kk \in StreamType : qs' = [qs EXCEPT ![id] = kk] BY <3>1, <1>y, PoppedFacts, FlushSendEffect
    <3>3. QED BY <3>2, <1>t, <1>y, PoppedFacts
  <2>2. CASE id \notin sends BY <1>7, <2>2, <1>t DEF FlushSend
  <2>3. QED BY <2>1, <2>2
<1>8. ASSUME NEW due \in KeepAliveDue, PollMain(due) PROVE qs' \in [Ids -> StreamType]
  <2>1. CASE \E k \in Kinds : Len(drv.open[k].create) > q.left[k] BY <1>8, <2>1, <1>t DEF PollMain
  <2>2. CASE ~\E k \in Kinds : Len(drv.open[k].create) > q.left[k]
    <3>1. PICK made : qs' = [i \in Ids |-> IF i \in made THEN [qs[i] EXCEPT !.made = TRUE, !.armed = TRUE] ELSE qs[i]]
      BY <1>8, <2>2 DEF PollMain
    <3>2. QED BY <3>1, <1>t DEF StreamType
  <2>3. QED BY <2>1, <2>2
<1>9. ASSUME NEW id \in Ids, PeerData(id) PROVE qs' \in [Ids -> StreamType] BY <1>9, <1>t DEF PeerData, StreamType
<1>10. ASSUME NEW id \in Ids, PeerFin(id) PROVE qs' \in [Ids -> StreamType]
  <2>1. qs' = [qs EXCEPT ![id].made = TRUE, ![id].rfin = TRUE, ![id].rarmed = TRUE] BY <1>10 DEF PeerFin
  <2>2. [qs[id] EXCEPT !.made = TRUE, !.rfin = TRUE, !.rarmed = TRUE] \in StreamType BY <1>t DEF StreamType
  <2>3. QED BY <2>1, <2>2, <1>t DEF StreamType
<1>11. ASSUME NEW id \in Ids, PeerReset(id) PROVE qs' \in [Ids -> StreamType]
  <2>1. qs' = [qs EXCEPT ![id].made = TRUE, ![id].rrst = TRUE, ![id].rbuf = 0, ![id].rarmed = TRUE]
    BY <1>11 DEF PeerReset
  <2>2. [qs[id] EXCEPT !.made = TRUE, !.rrst = TRUE, !.rbuf = 0, !.rarmed = TRUE] \in StreamType BY <1>t DEF StreamType
  <2>3. QED BY <2>1, <2>2, <1>t DEF StreamType
<1>12. ASSUME NEW id \in Ids, PeerStop(id) PROVE qs' \in [Ids -> StreamType] BY <1>12, <1>t DEF PeerStop, StreamType
<1>13. ASSUME PeerCredit PROVE qs' \in [Ids -> StreamType] BY <1>13, <1>t DEF PeerCredit, StreamType
<1>14. QED BY <1>0, <1>1, <1>2, <1>3, <1>4, <1>5, <1>6, <1>7, <1>8, <1>9, <1>10, <1>11, <1>12, <1>13, Touched

\* The quiche connection.
LEMMA TypeQ ==
  ASSUME TypeOK, Next
  PROVE  q' \in QuicheType
<1>t. q \in QuicheType BY DEF TypeOK
<1>y. TypeOK OBVIOUS
<1>0. CASE q' = q BY <1>0, <1>t
<1>1. ASSUME NEW id \in Ids, WriteKnown(id) PROVE q' \in QuicheType
  <2>1. FlushSendOf(id, WritePopped(id), d) BY <1>1 DEF WriteKnown
  <2>2. \/ q' = q
        \/ \E c \in Nat : q' = [q EXCEPT !.credit = c] BY <2>1, <1>y, PoppedFacts, FlushSendEffect
  <2>3. QED BY <2>2, <1>t, <1>y, PoppedFacts DEF QuicheType
<1>2. ASSUME NEW id \in Ids, FlushSend(id) PROVE q' \in QuicheType
  <2>1. CASE id \in sends
    <3>1. PICK next : FlushSendOf(id, qs[id], next) BY <1>2, <2>1 DEF FlushSend
    <3>2. \/ q' = q
          \/ \E c \in Nat : q' = [q EXCEPT !.credit = c] BY <3>1, <1>y, PoppedFacts, FlushSendEffect
    <3>3. QED BY <3>2, <1>t, <1>y, PoppedFacts DEF QuicheType
  <2>2. CASE id \notin sends BY <1>2, <2>2, <1>t DEF FlushSend
  <2>3. QED BY <2>1, <2>2
<1>3. ASSUME ReadDatagrams PROVE q' \in QuicheType
  BY <1>3, <1>t DEF ReadDatagrams, QuicheType, Statuses, Reasons, Errors
<1>4. ASSUME PollClose PROVE q' \in QuicheType
  <2>1. drv.creq \in Reasons /\ q.local \in Reasons BY <1>t, <1>y DEF TypeOK, DrvType, QuicheType
  <2>2. PICK x \in Reasons : q' = [q EXCEPT !.status = "closing", !.local = x] BY <1>4, <2>1 DEF PollClose
  <2>3. QED BY <2>2, <1>t DEF QuicheType, Statuses
<1>5. ASSUME NEW due \in KeepAliveDue, PollMain(due) PROVE q' \in QuicheType
  <2>1. CASE \E k \in Kinds : Len(drv.open[k].create) > q.left[k] BY <1>5, <2>1, <1>t DEF PollMain
  <2>2. CASE ~\E k \in Kinds : Len(drv.open[k].create) > q.left[k]
    <3>1. \A k \in Kinds : q.left[k] \in Nat /\ drv.open[k].create \in Seq(Nat)
      BY <1>y DEF TypeOK, DrvType, OpenType, QuicheType
    <3>2. \A k \in Kinds : q.left[k] - Len(drv.open[k].create) \in Nat BY <3>1, <2>2
    <3>3. PICK f : f = [k \in Kinds |-> q.left[k] - Len(drv.open[k].create)] OBVIOUS
    <3>4. f \in [Kinds -> Nat] BY <3>2, <3>3
    <3>5. q' = [q EXCEPT !.left = f] BY <1>5, <2>2, <3>3 DEF PollMain
    <3>6. QED BY <3>4, <3>5, <1>t DEF QuicheType
  <2>3. QED BY <2>1, <2>2
<1>6. ASSUME Connected PROVE q' \in QuicheType BY <1>6, <1>t DEF Connected, QuicheType, Statuses, Reasons, Errors
<1>7. ASSUME SendClose PROVE q' \in QuicheType BY <1>7, <1>t DEF SendClose, QuicheType, Statuses, Reasons, Errors
<1>8. ASSUME PeerCredit PROVE q' \in QuicheType
  <2>1. q' = [q EXCEPT !.credit = @ + 1, !.granted = @ + 1] BY <1>8 DEF PeerCredit
  <2>2. q.credit + 1 \in Nat /\ q.granted + 1 \in Nat BY <1>t DEF QuicheType
  <2>3. QED BY <2>1, <2>2, <1>t DEF QuicheType
<1>9. ASSUME NEW k \in Kinds, PeerMaxStreams(k) PROVE q' \in QuicheType
  BY <1>9, <1>t DEF PeerMaxStreams, QuicheType, Statuses, Reasons, Errors
<1>10. ASSUME PeerDatagram PROVE q' \in QuicheType
  BY <1>10, <1>t DEF PeerDatagram, QuicheType, Statuses, Reasons, Errors
<1>11. ASSUME PeerClose PROVE q' \in QuicheType BY <1>11, <1>t DEF PeerClose, QuicheType, Statuses, Reasons, Errors
<1>12. ASSUME Timeout PROVE q' \in QuicheType BY <1>12, <1>t DEF Timeout, QuicheType, Statuses, Reasons, Errors
<1>13. QED BY <1>0, <1>1, <1>2, <1>3, <1>4, <1>5, <1>6, <1>7, <1>8, <1>9, <1>10, <1>11, <1>12, Touched

\* The driver's task.
LEMMA TypeD ==
  ASSUME TypeOK, Next
  PROVE  d' \in TaskType
<1>t. d \in TaskType BY DEF TypeOK
<1>y. TypeOK OBVIOUS
<1>0. CASE d' = d BY <1>0, <1>t
<1>1. ASSUME NEW id \in Ids, ReadKnown(id) PROVE d' \in TaskType
  BY <1>1, <1>t DEF ReadKnown, FlushRecvOf, TaskType, NewDriver, NextPhase, Phases
<1>2. ASSUME NEW id \in Ids, AcceptUni(id) PROVE d' \in TaskType
  BY <1>2, <1>t DEF AcceptUni, Failed, TaskType, NewDriver, NextPhase, Phases
<1>3. ASSUME NEW id \in Ids, AcceptBi(id) PROVE d' \in TaskType
  BY <1>3, <1>t DEF AcceptBi, Failed, TaskType, NewDriver, NextPhase, Phases
<1>4. ASSUME NEW id \in Ids, WriteKnown(id) PROVE d' \in TaskType
  BY <1>4, <1>t DEF WriteKnown, FlushSendOf, Failed, TaskType, NewDriver, NextPhase, Phases
<1>5. ASSUME NEW id \in Ids, FlushRecv(id) PROVE d' \in TaskType
  BY <1>5, <1>t DEF FlushRecv, FlushRecvOf, TaskType, NewDriver, NextPhase, Phases
<1>6. ASSUME NEW id \in Ids, FlushSend(id) PROVE d' \in TaskType
  BY <1>6, <1>t, ZenonT(60) DEF FlushSend, FlushSendOf, Failed, TaskType, NewDriver, NextPhase, Phases
<1>7. ASSUME ReadDatagrams PROVE d' \in TaskType BY <1>7, <1>t DEF ReadDatagrams, TaskType, NewDriver, NextPhase, Phases
<1>8. ASSUME WriteDatagrams PROVE d' \in TaskType
  BY <1>8, <1>t DEF WriteDatagrams, TaskType, NewDriver, NextPhase, Phases
<1>9. ASSUME PollClose PROVE d' \in TaskType BY <1>9, <1>t DEF PollClose, TaskType, NewDriver, NextPhase, Phases
<1>10. ASSUME PollEarly PROVE d' \in TaskType BY <1>10, <1>t DEF PollEarly, TaskType, NewDriver, NextPhase, Phases
<1>11. ASSUME NEW due \in KeepAliveDue, PollMain(due) PROVE d' \in TaskType
  <2>1. CASE \E k \in Kinds : Len(drv.open[k].create) > q.left[k]
    <3>1. Failed("quiche") BY <1>11, <2>1 DEF PollMain
    <3>2. QED BY <3>1, <1>t DEF Failed, TaskType, NewDriver, NextPhase, Phases
  <2>2. CASE ~\E k \in Kinds : Len(drv.open[k].create) > q.left[k]
    <3>1. PICK b : b = (NoWork(drv) /\ ~due) OBVIOUS
    <3>2. PICK x \in {"flush", "flush0"} :
            d' = [pc |-> x, recv |-> drv.recv, send |-> drv.send, sleep |-> b] BY <1>11, <2>2, <3>1 DEF PollMain
    <3>3. drv.recv \in SUBSET Ids /\ drv.send \in SUBSET Ids /\ b \in BOOLEAN BY <1>y, <3>1 DEF TypeOK, DrvType
    <3>4. QED BY <3>2, <3>3 DEF TaskType, Phases
  <2>3. QED BY <2>1, <2>2
<1>12. ASSUME Flushed PROVE d' \in TaskType BY <1>12, <1>t DEF Flushed, TaskType, NewDriver, NextPhase, Phases
<1>13. ASSUME Woken PROVE d' \in TaskType BY <1>13, <1>t DEF Woken, TaskType, NewDriver, NextPhase, Phases
<1>14. ASSUME NetDone PROVE d' \in TaskType BY <1>14, <1>t DEF NetDone, TaskType, NewDriver, NextPhase, Phases
<1>15. ASSUME Interrupted PROVE d' \in TaskType BY <1>15, <1>t DEF Interrupted, TaskType, NewDriver, NextPhase, Phases
<1>16. ASSUME Connected PROVE d' \in TaskType BY <1>16, <1>t DEF Connected, TaskType, NewDriver, NextPhase, Phases
<1>17. ASSUME OnConnClose PROVE d' \in TaskType BY <1>17, <1>t DEF OnConnClose, TaskType, NewDriver, NextPhase, Phases
<1>18. QED BY <1>0, <1>1, <1>2, <1>3, <1>4, <1>5, <1>6, <1>7, <1>8, <1>9, <1>10, <1>11, <1>12, <1>13, <1>14,
    <1>15, <1>16, <1>17, Touched

\* DriverState.
LEMMA TypeDrv ==
  ASSUME TypeOK, Next
  PROVE  drv' \in DrvType
<1>t. drv \in DrvType BY DEF TypeOK
<1>y. TypeOK OBVIOUS
<1>0. CASE drv' = drv BY <1>0, <1>t
<1>1. ASSUME NEW id \in Ids, AcceptUni(id) PROVE drv' \in DrvType
  BY <1>1, <1>t, AbortFacts, ZenonT(60) DEF AcceptUni, Failed, Errors
<1>2. ASSUME NEW id \in Ids, AcceptBi(id) PROVE drv' \in DrvType
  BY <1>2, <1>t, AbortFacts, ZenonT(60) DEF AcceptBi, Failed, Errors
<1>3. ASSUME NEW id \in Ids, WriteKnown(id) PROVE drv' \in DrvType
  <2>1. FlushSendOf(id, WritePopped(id), d) BY <1>3 DEF WriteKnown
  <2>2. \/ drv' = Abort(drv, "quiche")[1]
        \/ drv' = drv BY <2>1, <1>y, PoppedFacts, FlushSendEffect DEF Failed
  <2>3. QED BY <2>2, <1>t, AbortFacts, ZenonT(60) DEF Errors
<1>4. ASSUME NEW id \in Ids, FlushSend(id) PROVE drv' \in DrvType
  <2>1. CASE id \in sends
    <3>1. PICK next : FlushSendOf(id, qs[id], next) BY <1>4, <2>1 DEF FlushSend
    <3>2. \/ drv' = Abort(drv, "quiche")[1]
          \/ drv' = drv BY <3>1, <1>y, PoppedFacts, FlushSendEffect DEF Failed
    <3>3. QED BY <3>2, <1>t, AbortFacts, ZenonT(60) DEF Errors
  <2>2. CASE id \notin sends BY <1>4, <2>2, <1>t DEF FlushSend
  <2>3. QED BY <2>1, <2>2
<1>5. ASSUME PollEarly PROVE drv' \in DrvType BY <1>5, <1>t DEF PollEarly, Registered, DrvType, Tasks, DriverTask
<1>6. ASSUME NEW due \in KeepAliveDue, PollMain(due) PROVE drv' \in DrvType
  <2>1. CASE \E k \in Kinds : Len(drv.open[k].create) > q.left[k]
    <3>1. Failed("quiche") BY <1>6, <2>1 DEF PollMain
    <3>2. QED BY <3>1, <1>t, AbortFacts DEF Failed, Errors
  <2>2. CASE ~\E k \in Kinds : Len(drv.open[k].create) > q.left[k]
    <3>1. \A k \in Kinds : /\ q.left[k] \in Nat /\ drv.open[k] \in OpenType
                           /\ drv.open[k].create \in Seq(Nat) BY <1>y DEF TypeOK, DrvType, OpenType, QuicheType
    <3>2. \A k \in Kinds : StreamsLeft(k) \in Nat BY <3>1, <2>2 DEF StreamsLeft
    <3>3. PICK f : f = [k \in Kinds |->
                [drv.open[k] EXCEPT !.create = <<>>, !.cap = StreamsLeft(k),
                                    !.wakers = IF StreamsLeft(k) > 0 THEN {} ELSE @]] OBVIOUS
    <3>4. f \in [Kinds -> OpenType]
      <4>1. ASSUME NEW k \in Kinds PROVE f[k] \in OpenType
        <5>1. PICK w : w = IF StreamsLeft(k) > 0 THEN {} ELSE drv.open[k].wakers OBVIOUS
        <5>2. w \in SUBSET Tasks /\ <<>> \in Seq(Nat) BY <5>1, <3>1 DEF OpenType
        <5>3. f[k] = [drv.open[k] EXCEPT !.create = <<>>, !.cap = StreamsLeft(k), !.wakers = w] BY <3>3, <5>1
        <5>4. QED BY <5>2, <5>3, <3>1, <3>2 DEF OpenType
      <4>2. QED BY <4>1, <3>3
    <3>5. Registered(drv) \in DrvType BY <1>t DEF Registered, DrvType, Tasks, DriverTask
    <3>6. PICK w \in {"task", "noop"} :
            drv' = [Registered(drv) EXCEPT !.waker = w, !.send = {}, !.recv = {}, !.open = f]
      BY <1>6, <2>2, <3>3 DEF PollMain
    <3>7. QED BY <3>4, <3>5, <3>6 DEF DrvType
  <2>3. QED BY <2>1, <2>2
<1>7. ASSUME Connected PROVE drv' \in DrvType BY <1>7, <1>t DEF Connected, DrvType
<1>8. ASSUME OnConnClose PROVE drv' \in DrvType
  <2>1. CloseReason \in Errors BY <1>y, CloseReasonFacts
  <2>2. PICK w : w = [drv EXCEPT !.closed = CloseReason, !.clw = {}] OBVIOUS
  <2>3. w \in DrvType BY <2>1, <2>2, <1>t DEF DrvType, Reasons
  <2>4. drv' = Abort(w, CloseReason)[1] BY <1>8, <2>2 DEF OnConnClose
  <2>5. QED BY <2>1, <2>3, <2>4, AbortFacts
<1>9. ASSUME NEW id \in Ids, Write(id) PROVE drv' \in DrvType BY <1>9, <1>t DEF Write, AppFrame, Calls, DrvType
<1>10. ASSUME NEW id \in Ids, Finish(id) PROVE drv' \in DrvType BY <1>10, <1>t DEF Finish, AppFrame, Calls, DrvType
<1>11. ASSUME NEW id \in Ids, Reset(id) PROVE drv' \in DrvType BY <1>11, <1>t DEF Reset, AppFrame, Calls, DrvType
<1>12. ASSUME NEW id \in Ids, SetPriority(id) PROVE drv' \in DrvType
  BY <1>12, <1>t DEF SetPriority, AppFrame, Calls, DrvType
<1>13. ASSUME NEW id \in Ids, SendClosed(id) PROVE drv' \in DrvType
  BY <1>13, <1>t DEF SendClosed, AppFrame, Calls, DrvType
<1>14. ASSUME NEW id \in Ids, Flush(id) PROVE drv' \in DrvType BY <1>14, <1>t DEF Flush, AppFrame, Calls, DrvType
<1>15. ASSUME NEW id \in Ids, Read(id) PROVE drv' \in DrvType BY <1>15, <1>t DEF Read, AppFrame, Calls, DrvType
<1>16. ASSUME NEW id \in Ids, Stop(id) PROVE drv' \in DrvType BY <1>16, <1>t DEF Stop, AppFrame, Calls, DrvType
<1>17. ASSUME NEW id \in Ids, RecvClosed(id) PROVE drv' \in DrvType
  BY <1>17, <1>t DEF RecvClosed, AppFrame, Calls, DrvType
<1>18. ASSUME NEW h \in Halves, Tell(h) PROVE drv' \in DrvType
  BY <1>18, <1>t, HalfId, TellSendFacts, TellRecvFacts DEF Tell
<1>19. ASSUME NEW h \in Halves, Check(h) PROVE drv' \in DrvType
  <2>1. PICK v : v = IF ap[h].op = "flush" THEN [drv EXCEPT !.clw = @ \cup {h}] ELSE PollError(drv, h) OBVIOUS
  <2>2. h[1] \in Ids /\ h \in Tasks BY HalfId
  <2>3. v \in DrvType
    <3>1. CASE ap[h].op = "flush" BY <2>1, <2>2, <3>1, <1>t DEF DrvType
    <3>2. CASE ap[h].op # "flush" BY <2>1, <2>2, <3>2, <1>t, PollErrorFacts
    <3>3. QED BY <3>1, <3>2
  <2>4. drv' = drv \/ drv' = v \/ drv' = TellRecv(v, h[1])[1] BY <1>19, <2>1 DEF Check
  <2>5. TellRecv(v, h[1])[1] \in DrvType BY <2>2, <2>3, TellRecvFacts
  <2>6. QED BY <2>3, <2>4, <2>5, <1>t
<1>20. ASSUME NEW o \in Openers, Open(o) PROVE drv' \in DrvType
  <2>1. PICK k : k = o[2] OBVIOUS
  <2>2. k \in Kinds /\ o \in Tasks BY <2>1 DEF Openers, Tasks
  <2>3. drv.open[k] \in OpenType /\ drv.open \in [Kinds -> OpenType] BY <2>2, <1>t DEF DrvType
  <2>4. CASE drv' = drv BY <2>4, <1>t
  <2>5. CASE drv' = PollError([drv EXCEPT !.open[k].wakers = @ \cup {o}], o)
    <3>1. PICK x : x = [drv.open[k] EXCEPT !.wakers = @ \cup {o}] OBVIOUS
    <3>2. x \in OpenType BY <3>1, <2>2, <2>3 DEF OpenType
    <3>3. PICK w : w = [drv EXCEPT !.open[k].wakers = @ \cup {o}] OBVIOUS
    <3>4. w = [drv EXCEPT !.open = [drv.open EXCEPT ![k] = x]] BY <3>1, <3>3, <2>2, <2>3, <1>t DEF DrvType
    <3>5. w \in DrvType BY <3>2, <3>4, <2>2, <2>3, <1>t DEF DrvType
    <3>6. QED BY <3>3, <3>5, <2>2, <2>5, PollErrorFacts
  <2>6. CASE drv.open[k].cap > 0 /\ drv' = Wake([PollError(drv, o) EXCEPT !.open[k] =
                          [drv.open[k] EXCEPT !.cap = @ - 1, !.next = @ + 4,
                                              !.create = Append(@, drv.open[k].next)]])[1]
    <3>1. PICK x : x = [drv.open[k] EXCEPT !.cap = @ - 1, !.next = @ + 4,
                                           !.create = Append(@, drv.open[k].next)] OBVIOUS
    <3>2. x \in OpenType
      <4>1. drv.open[k].cap - 1 \in Nat /\ drv.open[k].next + 4 \in Nat BY <2>6, <2>3 DEF OpenType
      <4>2. Append(drv.open[k].create, drv.open[k].next) \in Seq(Nat) BY <2>3 DEF OpenType
      <4>3. QED BY <3>1, <4>1, <4>2, <2>3 DEF OpenType
    <3>3. PICK v : v = PollError(drv, o) OBVIOUS
    <3>4. v \in DrvType BY <3>3, <2>2, <1>t, PollErrorFacts
    <3>5. PICK w : w = [v EXCEPT !.open[k] = x] OBVIOUS
    <3>6. w \in DrvType BY <3>2, <3>4, <3>5, <2>2 DEF DrvType
    <3>7. drv' = Wake(w)[1] BY <3>1, <3>3, <3>5, <2>6
    <3>8. QED BY <3>6, <3>7, WakeFacts
  <2>7. QED BY <1>20, <2>1, <2>4, <2>5, <2>6 DEF Open
<1>21. ASSUME PollHandshake PROVE drv' \in DrvType
  <2>1. HandshakeTask \in Tasks BY DEF Tasks, HandshakeTask
  <2>2. PICK v : v = PollError(drv, HandshakeTask) OBVIOUS
  <2>3. v \in DrvType BY <2>1, <2>2, <1>t, PollErrorFacts
  <2>4. drv' = drv \/ drv' = [v EXCEPT !.hsw = @ \cup {HandshakeTask}] BY <1>21, <2>2 DEF PollHandshake
  <2>5. [v EXCEPT !.hsw = @ \cup {HandshakeTask}] \in DrvType BY <2>1, <2>3 DEF DrvType
  <2>6. QED BY <2>4, <2>5, <1>t
<1>22. ASSUME PollClosed PROVE drv' \in DrvType
  <2>1. ClosedTask \in Tasks BY DEF Tasks, ClosedTask
  <2>2. drv' = drv \/ drv' = [drv EXCEPT !.clw = @ \cup {ClosedTask}] BY <1>22 DEF PollClosed
  <2>3. [drv EXCEPT !.clw = @ \cup {ClosedTask}] \in DrvType BY <2>1, <1>t DEF DrvType
  <2>4. QED BY <2>2, <2>3, <1>t
<1>23. ASSUME Close PROVE drv' \in DrvType BY <1>23, <1>t, AbortFacts, ZenonT(60) DEF Close, Errors
<1>24. ASSUME DropConnection PROVE drv' \in DrvType BY <1>24, <1>t, AbortFacts, ZenonT(60) DEF DropConnection, Errors
<1>25. ASSUME Nudge PROVE drv' \in DrvType BY <1>25, <1>t, WakeFacts DEF Nudge
<1>26. QED BY <1>0, <1>1, <1>2, <1>3, <1>4, <1>5, <1>6, <1>7, <1>8, <1>9, <1>10, <1>11, <1>12, <1>13, <1>14,
    <1>15, <1>16, <1>17, <1>18, <1>19, <1>20, <1>21, <1>22, <1>23, <1>24, <1>25, Touched

\* Init is well typed.
LEMMA TypeInit == Init => TypeOK
<1>1. SUFFICES ASSUME Init PROVE TypeOK OBVIOUS
<1>2. \A k \in Kinds : FirstId(k, Server) \in Nat BY EzAssumption DEF FirstId
<1>3. \A k \in Kinds : DriverOpen(k) \in OpenType BY <1>2 DEF DriverOpen, OpenType
<1>4. drv \in DrvType BY <1>1, <1>3 DEF Init, DriverState, DrvType, Reasons
<1>5. q \in QuicheType BY <1>1 DEF Init, QuicheType, Statuses, Reasons
<1>6. /\ ss \in [Ids -> SendType] /\ rs \in [Ids -> RecvType] /\ qs \in [Ids -> StreamType]
  BY <1>1 DEF Init, NewSend, NewRecv, QuicheStream, SendType, RecvType, StreamType
<1>7. d \in TaskType BY <1>1 DEF Init, NewDriver, TaskType, Phases
<1>8. ap \in [Halves -> HandleType] /\ op \in [Openers -> {"none", "wait", "done"}] BY <1>1 DEF Init, HandleType
<1>9. /\ one \in [{HandshakeTask, ClosedTask} -> {"none", "wait", "ok", "err"}]
      /\ cn \in ConnType BY <1>1 DEF Init, ConnType
<1>10. QED BY <1>4, <1>5, <1>6, <1>7, <1>8, <1>9 DEF TypeOK

\* Every step keeps the types; in particular no count of the streams underflows.
LEMMA TypeStep == ASSUME TypeOK, [Next]_vars PROVE TypeOK'
<1>1. CASE UNCHANGED vars BY <1>1 DEF vars, TypeOK
<1>2. CASE Next BY <1>2, TypeAp, TypeOpOne, TypeCn, TypeRs, TypeSs, TypeQs, TypeQ, TypeD, TypeDrv DEF TypeOK
<1>3. QED BY <1>1, <1>2

-----------------------------------------------------------------------------
(* The connection ends for one reason                                       *)

SameCause(w, v) == w.creq = v.creq /\ w.closed = v.closed

\* Only abort() sets a reason.
LEMMA CauseFacts ==
  ASSUME NEW v \in DrvType
  PROVE  /\ SameCause(Wake(v)[1], v)
         /\ \A id \in Ids : SameCause(TellSend(v, id)[1], v) /\ SameCause(TellRecv(v, id)[1], v)
         /\ \A t \in Tasks : SameCause(PollError(v, t), v)
         /\ \A err \in Errors : /\ Abort(v, err)[1].closed = v.closed
                                /\ v.creq # "none" => Abort(v, err)[1].creq = v.creq
                                /\ v.creq = "none" => Abort(v, err)[1].creq = err
<1>1. SameCause(Wake(v)[1], v)
  <2>1. Wake(v)[1] = [v EXCEPT !.waker = "none"] BY WakeFacts
  <2>2. QED BY <2>1 DEF SameCause, DrvType
<1>2. ASSUME NEW id \in Ids PROVE SameCause(TellSend(v, id)[1], v)
  <2>1. \/ TellSend(v, id)[1] = v
        \/ TellSend(v, id)[1] = [v EXCEPT !.send = @ \cup {id}, !.waker = "none"] BY TellSendFacts
  <2>2. QED BY <2>1 DEF SameCause, DrvType
<1>3. ASSUME NEW id \in Ids PROVE SameCause(TellRecv(v, id)[1], v)
  <2>1. \/ TellRecv(v, id)[1] = v
        \/ TellRecv(v, id)[1] = [v EXCEPT !.recv = @ \cup {id}, !.waker = "none"] BY TellRecvFacts
  <2>2. QED BY <2>1 DEF SameCause, DrvType
<1>4. ASSUME NEW t \in Tasks PROVE SameCause(PollError(v, t), v)
  <2>1. PICK a \in SUBSET Tasks, b \in SUBSET Tasks :
          /\ PollError(v, t) = [v EXCEPT !.crw = a, !.clw = b]
          /\ v.crw \subseteq a /\ v.clw \subseteq b BY PollErrorFacts, Zenon
  <2>2. QED BY <2>1 DEF SameCause, DrvType
<1>5. ASSUME NEW err \in Errors
      PROVE  /\ Abort(v, err)[1].closed = v.closed
             /\ v.creq # "none" => Abort(v, err)[1].creq = v.creq
             /\ v.creq = "none" => Abort(v, err)[1].creq = err
  <2>1. v.creq # "none" => Abort(v, err)[1] = v BY AbortFacts
  <2>2. v.creq = "none" => Abort(v, err)[1] = [v EXCEPT !.creq = err, !.crw = {}] BY AbortFacts
  <2>3. QED BY <2>1, <2>2 DEF DrvType
<1>6. QED BY <1>1, <1>2, <1>3, <1>4, <1>5

\* What a step may do to the reasons: nothing ...
Unmoved == SameCause(drv', drv) /\ q'.local = q.local /\ seen' = seen

\* ... ask for the end, quiche's own error being a FIN that met a STOP_SENDING ...
Asks ==
  /\ drv.creq = "none" /\ drv'.creq \in Errors /\ drv'.closed = drv.closed /\ q'.local = q.local /\ seen' = seen
  /\ drv'.creq = "quiche" => \E id \in Ids : ss'[id].fin /\ qs'[id].stopped

\* ... hand the reason to quiche, publish it, or report it to a call.
HandsOn ==
  /\ drv' = drv /\ seen' = seen /\ drv.creq # "none" /\ q'.local \in {q.local, drv.creq}
Publishes ==
  /\ q' = q /\ seen' = seen /\ drv'.closed = drv'.creq /\ drv'.closed # "none"
  /\ drv.creq # "none" => drv'.creq = drv.creq
  /\ drv.creq = "none" /\ q.local = "none" => drv'.creq \in {"remote", "unknown"}
Reports ==
  /\ drv' = drv /\ q' = q
  /\ \E x \in {drv.closed, ErrorOf(drv)} : x # "none" /\ seen' = seen \cup {x}

ReasonStep == Unmoved \/ Asks \/ HandsOn \/ Publishes \/ Reports

\* Every step is one of these.
LEMMA ReasonSteps ==
  ASSUME TypeOK, OpensWithinLimit, Next
  PROVE  ReasonStep
<1>t. drv \in DrvType /\ q \in QuicheType BY DEF TypeOK
<1>y. TypeOK OBVIOUS
<1>l. OpensWithinLimit OBVIOUS
<1>c. \A k \in Kinds : /\ drv.open[k].cap \in Nat /\ drv.open[k].create \in Seq(Nat)
                       /\ Len(drv.open[k].create) \in Nat /\ q.left[k] \in Nat BY <1>t DEF DrvType, OpenType, QuicheType
<1>0. CASE drv' = drv /\ q' = q /\ seen' = seen BY <1>0 DEF ReasonStep, Unmoved, SameCause
<1>1. ASSUME NEW id \in Ids, AcceptUni(id) PROVE ReasonStep
  <2>1. q' = q /\ seen' = seen /\ (drv' = drv \/ drv' = Abort(drv, "dropped")[1]) BY <1>1 DEF AcceptUni, Failed
  <2>2. QED BY <2>1, <1>t, CauseFacts DEF ReasonStep, Unmoved, Asks, SameCause, Errors, DrvType, Reasons
<1>2. ASSUME NEW id \in Ids, AcceptBi(id) PROVE ReasonStep
  <2>1. q' = q /\ seen' = seen /\ (drv' = drv \/ drv' = Abort(drv, "dropped")[1]) BY <1>2 DEF AcceptBi, Failed
  <2>2. QED BY <2>1, <1>t, CauseFacts DEF ReasonStep, Unmoved, Asks, SameCause, Errors, DrvType, Reasons
<1>3. ASSUME NEW id \in Ids, WriteKnown(id) PROVE ReasonStep
  <2>1. PICK next : FlushSendOf(id, WritePopped(id), next) BY <1>3 DEF WriteKnown
  <2>2. WritePopped(id) \in StreamType /\ seen' = seen BY <1>3, <1>y, PoppedFacts DEF WriteKnown
  <2>3. CASE /\ Failed("quiche") /\ qs' = [qs EXCEPT ![id] = WritePopped(id)]
            /\ ss' = ss /\ q' = q /\ ss[id].fin /\ WritePopped(id).stopped
    <3>1. drv' = Abort(drv, "quiche")[1] /\ "quiche" \in Errors BY <2>3 DEF Failed, Errors
    <3>2. ss'[id].fin /\ qs'[id].stopped BY <2>3, <1>y DEF TypeOK
    <3>3. QED BY <3>1, <3>2, <2>2, <2>3, <1>t, CauseFacts DEF ReasonStep, Unmoved, Asks, SameCause, DrvType, Reasons
  <2>4. CASE (\E c \in Nat : q' = [q EXCEPT !.credit = c]) /\ drv' = drv
    BY <2>2, <2>4, <1>t DEF ReasonStep, Unmoved, SameCause, QuicheType
  <2>5. QED BY <2>1, <2>2, <2>3, <2>4, <1>y, FlushSendEffect
<1>4. ASSUME NEW id \in Ids, FlushSend(id) PROVE ReasonStep
  <2>1. CASE id \in sends
    <3>1. PICK next : FlushSendOf(id, qs[id], next) BY <1>4, <2>1 DEF FlushSend
    <3>2. qs[id] \in StreamType /\ seen' = seen BY <1>4, <2>1, <1>y, PoppedFacts DEF FlushSend
    <3>3. CASE /\ Failed("quiche") /\ qs' = [qs EXCEPT ![id] = qs[id]]
              /\ ss' = ss /\ q' = q /\ ss[id].fin /\ qs[id].stopped
      <4>1. drv' = Abort(drv, "quiche")[1] /\ "quiche" \in Errors BY <3>3 DEF Failed, Errors
      <4>2. ss'[id].fin /\ qs'[id].stopped BY <3>3, <1>y DEF TypeOK
      <4>3. QED BY <4>1, <4>2, <3>2, <3>3, <1>t, CauseFacts DEF ReasonStep, Unmoved, Asks, SameCause, DrvType, Reasons
    <3>4. CASE (\E c \in Nat : q' = [q EXCEPT !.credit = c]) /\ drv' = drv
      BY <3>2, <3>4, <1>t DEF ReasonStep, Unmoved, SameCause, QuicheType
    <3>5. QED BY <3>1, <3>2, <3>3, <3>4, <1>y, FlushSendEffect
  <2>2. CASE id \notin sends BY <1>4, <2>2 DEF FlushSend, ReasonStep, Unmoved, SameCause
  <2>3. QED BY <2>1, <2>2
<1>5. ASSUME ReadDatagrams PROVE ReasonStep BY <1>5, <1>t DEF ReadDatagrams, ReasonStep, Unmoved, SameCause, QuicheType
<1>6. ASSUME PollClose PROVE ReasonStep
  <2>1. PICK x \in {q.local, drv.creq} : q' = [q EXCEPT !.status = "closing", !.local = x] BY <1>6 DEF PollClose
  <2>2. drv' = drv /\ seen' = seen /\ drv.creq # "none" /\ q'.local = x BY <1>6, <2>1, <1>t DEF PollClose, QuicheType
  <2>3. QED BY <2>1, <2>2 DEF ReasonStep, HandsOn
<1>7. ASSUME PollEarly PROVE ReasonStep BY <1>7, <1>t DEF PollEarly, Registered, DrvType, ReasonStep, Unmoved, SameCause
<1>8. ASSUME NEW due \in KeepAliveDue, PollMain(due) PROVE ReasonStep
  <2>1. ~\E k \in Kinds : Len(drv.open[k].create) > q.left[k] BY <1>c, <1>l DEF OpensWithinLimit
  <2>2. /\ \E f : q' = [q EXCEPT !.left = f]
        /\ \E w, f : drv' = [Registered(drv) EXCEPT !.waker = w, !.send = {}, !.recv = {}, !.open = f]
        /\ seen' = seen BY <1>8, <2>1 DEF PollMain
  <2>3. Registered(drv) \in DrvType /\ SameCause(Registered(drv), drv)
    BY <1>t DEF Registered, DrvType, Tasks, DriverTask, SameCause
  <2>4. SameCause(drv', drv) BY <2>2, <2>3 DEF DrvType, SameCause
  <2>5. QED BY <2>2, <2>4, <1>t DEF ReasonStep, Unmoved, QuicheType
<1>9. ASSUME Connected PROVE ReasonStep BY <1>9, <1>t DEF Connected, DrvType, QuicheType, ReasonStep, Unmoved, SameCause
<1>10. ASSUME SendClose PROVE ReasonStep
  BY <1>10, <1>t DEF SendClose, NetFrame, ReasonStep, Unmoved, SameCause, QuicheType
<1>11. ASSUME OnConnClose PROVE ReasonStep
  <2>1. CloseReason \in Errors BY <1>y, CloseReasonFacts
  <2>2. PICK w : w = [drv EXCEPT !.closed = CloseReason, !.clw = {}] OBVIOUS
  <2>3. w \in DrvType /\ w.closed = CloseReason /\ w.creq = drv.creq BY <2>1, <2>2, <1>t DEF DrvType, Reasons
  <2>4. drv' = Abort(w, CloseReason)[1] /\ q' = q /\ seen' = seen BY <1>11, <2>2 DEF OnConnClose
  <2>5. /\ drv'.closed = CloseReason
        /\ drv.creq # "none" => drv'.creq = drv.creq
        /\ drv.creq = "none" => drv'.creq = CloseReason BY <2>1, <2>3, <2>4, CauseFacts
  <2>6. CloseReason # "none" BY <2>1 DEF Errors
  <2>7. QED BY <2>4, <2>5, <2>6, <1>y, CloseReasonFacts DEF ReasonStep, Publishes
<1>12. ASSUME PeerCredit PROVE ReasonStep
  BY <1>12, <1>t DEF PeerCredit, NetFrame, ReasonStep, Unmoved, SameCause, QuicheType
<1>13. ASSUME NEW k \in Kinds, PeerMaxStreams(k) PROVE ReasonStep
  BY <1>13, <1>t DEF PeerMaxStreams, NetFrame, ReasonStep, Unmoved, SameCause, QuicheType
<1>14. ASSUME PeerDatagram PROVE ReasonStep
  BY <1>14, <1>t DEF PeerDatagram, NetFrame, ReasonStep, Unmoved, SameCause, QuicheType
<1>15. ASSUME PeerClose PROVE ReasonStep
  BY <1>15, <1>t DEF PeerClose, NetFrame, ReasonStep, Unmoved, SameCause, QuicheType
<1>16. ASSUME Timeout PROVE ReasonStep BY <1>16, <1>t DEF Timeout, NetFrame, ReasonStep, Unmoved, SameCause, QuicheType
<1>17. ASSUME NEW id \in Ids, Write(id) PROVE ReasonStep
  BY <1>17, <1>t DEF Write, Calls, AppFrame, DrvType, ReasonStep, Unmoved, SameCause
<1>18. ASSUME NEW id \in Ids, Finish(id) PROVE ReasonStep
  BY <1>18, <1>t DEF Finish, Calls, AppFrame, DrvType, ReasonStep, Unmoved, SameCause
<1>19. ASSUME NEW id \in Ids, Reset(id) PROVE ReasonStep
  BY <1>19, <1>t DEF Reset, Calls, AppFrame, DrvType, ReasonStep, Unmoved, SameCause
<1>20. ASSUME NEW id \in Ids, SetPriority(id) PROVE ReasonStep
  BY <1>20, <1>t DEF SetPriority, Calls, AppFrame, DrvType, ReasonStep, Unmoved, SameCause
<1>21. ASSUME NEW id \in Ids, SendClosed(id) PROVE ReasonStep
  BY <1>21, <1>t DEF SendClosed, Calls, AppFrame, DrvType, ReasonStep, Unmoved, SameCause
<1>22. ASSUME NEW id \in Ids, Flush(id) PROVE ReasonStep
  BY <1>22, <1>t DEF Flush, Calls, AppFrame, DrvType, ReasonStep, Unmoved, SameCause
<1>23. ASSUME NEW id \in Ids, Read(id) PROVE ReasonStep
  BY <1>23, <1>t DEF Read, Calls, AppFrame, DrvType, ReasonStep, Unmoved, SameCause
<1>24. ASSUME NEW id \in Ids, Stop(id) PROVE ReasonStep
  BY <1>24, <1>t DEF Stop, Calls, AppFrame, DrvType, ReasonStep, Unmoved, SameCause
<1>25. ASSUME NEW id \in Ids, RecvClosed(id) PROVE ReasonStep
  BY <1>25, <1>t DEF RecvClosed, Calls, AppFrame, DrvType, ReasonStep, Unmoved, SameCause
<1>26. ASSUME NEW h \in Halves, Tell(h) PROVE ReasonStep
  <2>1. /\ q' = q /\ seen' = seen
        /\ drv' = TellSend(drv, h[1])[1] \/ drv' = TellRecv(drv, h[1])[1] BY <1>26 DEF Tell
  <2>2. SameCause(drv', drv) BY <2>1, <1>t, HalfId, CauseFacts
  <2>3. QED BY <2>1, <2>2 DEF ReasonStep, Unmoved
<1>27. ASSUME NEW h \in Halves, Check(h) PROVE ReasonStep
  <2>1. PICK v : v = IF ap[h].op = "flush" THEN [drv EXCEPT !.clw = @ \cup {h}] ELSE PollError(drv, h) OBVIOUS
  <2>2. h[1] \in Ids /\ h \in Tasks BY HalfId
  <2>3. v \in DrvType /\ SameCause(v, drv)
    <3>1. CASE ap[h].op = "flush" BY <2>1, <2>2, <3>1, <1>t DEF DrvType, SameCause
    <3>2. CASE ap[h].op # "flush" BY <2>1, <2>2, <3>2, <1>t, PollErrorFacts, CauseFacts
    <3>3. QED BY <3>1, <3>2
  <2>4. q' = q BY <1>27 DEF Check
  <2>5. CASE drv' = drv /\ \E x \in {drv.closed, ErrorOf(drv)} : x # "none" /\ seen' = seen \cup {x}
    BY <2>4, <2>5 DEF ReasonStep, Reports
  <2>6. CASE seen' = seen /\ (drv' = v \/ drv' = TellRecv(v, h[1])[1])
    <3>1. SameCause(TellRecv(v, h[1])[1], v) BY <2>2, <2>3, CauseFacts
    <3>2. QED BY <3>1, <2>3, <2>4, <2>6 DEF ReasonStep, Unmoved, SameCause
  <2>7. QED BY <1>27, <2>1, <2>5, <2>6 DEF Check
<1>28. ASSUME NEW o \in Openers, Open(o) PROVE ReasonStep
  <2>1. PICK k : k = o[2] OBVIOUS
  <2>2. k \in Kinds /\ o \in Tasks BY <2>1 DEF Openers, Tasks
  <2>3. q' = q BY <1>28 DEF Open
  <2>4. CASE drv' = drv /\ ErrorOf(drv) # "none" /\ seen' = seen \cup {ErrorOf(drv)}
    BY <2>3, <2>4 DEF ReasonStep, Reports
  <2>5. CASE seen' = seen /\ \E e : drv' = PollError([drv EXCEPT !.open[k].wakers = e], o)
    <3>1. PICK e : drv' = PollError([drv EXCEPT !.open[k].wakers = e], o) BY <2>5
    <3>2. PICK w : w = [drv EXCEPT !.open[k].wakers = e] OBVIOUS
    <3>3. SameCause(w, drv) BY <3>2, <1>t DEF DrvType, SameCause
    <3>4. drv' = w \/ (\E a : drv' = [w EXCEPT !.crw = a]) \/ (\E a, b : drv' = [w EXCEPT !.crw = a, !.clw = b])
      BY <3>1, <3>2 DEF PollError
    <3>5. DOMAIN w = DOMAIN drv BY <3>2
    <3>6. SameCause(drv', w) BY <3>4, <3>5, <1>t DEF SameCause, DrvType
    <3>7. QED BY <3>3, <3>6, <2>3, <2>5 DEF ReasonStep, Unmoved, SameCause
  <2>6. CASE seen' = seen /\ \E e : drv' = Wake([PollError(drv, o) EXCEPT !.open[k] = e])[1]
    <3>1. PICK e : drv' = Wake([PollError(drv, o) EXCEPT !.open[k] = e])[1] BY <2>6
    <3>2. PICK v : v = PollError(drv, o) OBVIOUS
    <3>3. v \in DrvType /\ SameCause(v, drv) BY <3>2, <2>2, <1>t, PollErrorFacts, CauseFacts
    <3>4. drv' = [[v EXCEPT !.open[k] = e] EXCEPT !.waker = "none"] BY <3>1, <3>2 DEF Wake
    <3>5. SameCause(drv', v) BY <3>3, <3>4 DEF DrvType, SameCause
    <3>6. QED BY <3>3, <3>5, <2>3, <2>6 DEF ReasonStep, Unmoved, SameCause
  <2>7. QED BY <1>28, <2>1, <2>4, <2>5, <2>6 DEF Open
<1>29. ASSUME PollHandshake PROVE ReasonStep
  <2>1. HandshakeTask \in Tasks BY DEF Tasks, HandshakeTask
  <2>2. PICK v : v = PollError(drv, HandshakeTask) OBVIOUS
  <2>3. v \in DrvType /\ SameCause(v, drv) BY <2>1, <2>2, <1>t, PollErrorFacts, CauseFacts
  <2>4. /\ q' = q
        /\ \/ drv' = drv /\ seen' = seen
           \/ drv' = drv /\ ErrorOf(drv) # "none" /\ seen' = seen \cup {ErrorOf(drv)}
           \/ drv' = [v EXCEPT !.hsw = @ \cup {HandshakeTask}] /\ seen' = seen BY <1>29, <2>2 DEF PollHandshake
  <2>5. SameCause([v EXCEPT !.hsw = @ \cup {HandshakeTask}], drv) BY <2>3 DEF DrvType, SameCause
  <2>6. QED BY <2>4, <2>5 DEF ReasonStep, Unmoved, Reports, SameCause
<1>30. ASSUME PollClosed PROVE ReasonStep
  <2>1. /\ q' = q
        /\ \/ drv' = drv /\ drv.closed # "none" /\ seen' = seen \cup {drv.closed}
           \/ drv' = [drv EXCEPT !.clw = @ \cup {ClosedTask}] /\ seen' = seen BY <1>30 DEF PollClosed
  <2>2. SameCause([drv EXCEPT !.clw = @ \cup {ClosedTask}], drv) BY <1>t DEF DrvType, SameCause
  <2>3. QED BY <2>1, <2>2 DEF ReasonStep, Unmoved, Reports
<1>31. ASSUME Close PROVE ReasonStep
  <2>1. q' = q /\ seen' = seen /\ drv' = Abort(drv, "local")[1] BY <1>31 DEF Close
  <2>2. QED BY <2>1, <1>t, CauseFacts DEF ReasonStep, Unmoved, Asks, SameCause, Errors, DrvType, Reasons
<1>32. ASSUME DropConnection PROVE ReasonStep
  <2>1. q' = q /\ seen' = seen /\ drv' = Abort(drv, "dropped")[1] BY <1>32 DEF DropConnection
  <2>2. QED BY <2>1, <1>t, CauseFacts DEF ReasonStep, Unmoved, Asks, SameCause, Errors, DrvType, Reasons
<1>33. ASSUME Nudge PROVE ReasonStep
  <2>1. q' = q /\ seen' = seen /\ drv' = Wake(drv)[1] BY <1>33 DEF Nudge
  <2>2. QED BY <2>1, <1>t, CauseFacts DEF ReasonStep, Unmoved
<1>34. QED BY <1>0, <1>1, <1>2, <1>3, <1>4, <1>5, <1>6, <1>7, <1>8, <1>9, <1>10, <1>11, <1>12, <1>13, <1>14,
    <1>15, <1>16, <1>17, <1>18, <1>19, <1>20, <1>21, <1>22, <1>23, <1>24, <1>25, <1>26, <1>27,
    <1>28, <1>29, <1>30, <1>31, <1>32, <1>33, Touched

-----------------------------------------------------------------------------
(* Opening stays within the peer's limit                                    *)

\* The helpers leave the streams to be created and the capacities alone.
LEMMA OpenKept ==
  ASSUME NEW v \in DrvType
  PROVE  /\ Wake(v)[1].open = v.open
         /\ \A id \in Ids : TellSend(v, id)[1].open = v.open /\ TellRecv(v, id)[1].open = v.open
         /\ \A t \in Tasks : PollError(v, t).open = v.open
         /\ \A err \in Errors : Abort(v, err)[1].open = v.open
<1>1. Wake(v)[1].open = v.open
  <2>1. Wake(v)[1] = [v EXCEPT !.waker = "none"] BY WakeFacts
  <2>2. QED BY <2>1 DEF DrvType
<1>2. ASSUME NEW id \in Ids PROVE TellSend(v, id)[1].open = v.open
  <2>1. \/ TellSend(v, id)[1] = v
        \/ TellSend(v, id)[1] = [v EXCEPT !.send = @ \cup {id}, !.waker = "none"] BY TellSendFacts
  <2>2. QED BY <2>1 DEF DrvType
<1>3. ASSUME NEW id \in Ids PROVE TellRecv(v, id)[1].open = v.open
  <2>1. \/ TellRecv(v, id)[1] = v
        \/ TellRecv(v, id)[1] = [v EXCEPT !.recv = @ \cup {id}, !.waker = "none"] BY TellRecvFacts
  <2>2. QED BY <2>1 DEF DrvType
<1>4. ASSUME NEW t \in Tasks PROVE PollError(v, t).open = v.open
  <2>1. PICK a \in SUBSET Tasks, b \in SUBSET Tasks :
          /\ PollError(v, t) = [v EXCEPT !.crw = a, !.clw = b]
          /\ v.crw \subseteq a /\ v.clw \subseteq b BY PollErrorFacts, Zenon
  <2>2. QED BY <2>1 DEF DrvType
<1>5. ASSUME NEW err \in Errors PROVE Abort(v, err)[1].open = v.open
  <2>1. v.creq # "none" => Abort(v, err)[1] = v BY AbortFacts
  <2>2. v.creq = "none" => Abort(v, err)[1] = [v EXCEPT !.creq = err, !.crw = {}] BY AbortFacts
  <2>3. QED BY <2>1, <2>2 DEF DrvType
<1>6. QED BY <1>1, <1>2, <1>3, <1>4, <1>5

\* A step that leaves them, and the peer's limit, alone.
LEMMA LimitKept ==
  ASSUME OpensWithinLimit, drv'.open = drv.open, q'.left = q.left
  PROVE  OpensWithinLimit'
BY DEF OpensWithinLimit

\* Every step stays within the limit: a claimed stream moves from the capacity
\* to the list of those to create, and the driver publishes what quiche has left
\* after it created them.
LEMMA LimitStep ==
  ASSUME TypeOK, OpensWithinLimit, Next
  PROVE  OpensWithinLimit'
<1>t. drv \in DrvType /\ q \in QuicheType BY DEF TypeOK
<1>y. TypeOK OBVIOUS
<1>l. OpensWithinLimit OBVIOUS
<1>c. \A k \in Kinds : /\ drv.open[k].cap \in Nat /\ drv.open[k].create \in Seq(Nat)
                       /\ Len(drv.open[k].create) \in Nat /\ q.left[k] \in Nat BY <1>t DEF DrvType, OpenType, QuicheType
<1>0. CASE drv' = drv /\ q' = q BY <1>0, <1>l, LimitKept
<1>1. ASSUME NEW id \in Ids, AcceptUni(id) PROVE OpensWithinLimit'
  <2>1. q' = q /\ (drv' = drv \/ drv' = Abort(drv, "dropped")[1]) BY <1>1 DEF AcceptUni, Failed
  <2>2. QED BY <2>1, <1>l, <1>t, OpenKept, LimitKept DEF Errors
<1>2. ASSUME NEW id \in Ids, AcceptBi(id) PROVE OpensWithinLimit'
  <2>1. q' = q /\ (drv' = drv \/ drv' = Abort(drv, "dropped")[1]) BY <1>2 DEF AcceptBi, Failed
  <2>2. QED BY <2>1, <1>l, <1>t, OpenKept, LimitKept DEF Errors
<1>3. ASSUME NEW id \in Ids, WriteKnown(id) PROVE OpensWithinLimit'
  <2>1. PICK next : FlushSendOf(id, WritePopped(id), next) BY <1>3 DEF WriteKnown
  <2>2. \/ drv' = Abort(drv, "quiche")[1] /\ q' = q
        \/ drv' = drv /\ \E c \in Nat : q' = [q EXCEPT !.credit = c]
    BY <2>1, <1>y, PoppedFacts, FlushSendEffect DEF Failed
  <2>3. drv'.open = drv.open /\ q'.left = q.left BY <2>2, <1>t, OpenKept DEF Errors, QuicheType
  <2>4. QED BY <2>3, <1>l, LimitKept
<1>4. ASSUME NEW id \in Ids, FlushSend(id) PROVE OpensWithinLimit'
  <2>1. CASE id \in sends
    <3>1. PICK next : FlushSendOf(id, qs[id], next) BY <1>4, <2>1 DEF FlushSend
    <3>2. \/ drv' = Abort(drv, "quiche")[1] /\ q' = q
          \/ drv' = drv /\ \E c \in Nat : q' = [q EXCEPT !.credit = c]
      BY <3>1, <1>y, PoppedFacts, FlushSendEffect DEF Failed
    <3>3. drv'.open = drv.open /\ q'.left = q.left BY <3>2, <1>t, OpenKept DEF Errors, QuicheType
    <3>4. QED BY <3>3, <1>l, LimitKept
  <2>2. CASE id \notin sends BY <1>4, <2>2, <1>l, LimitKept DEF FlushSend
  <2>3. QED BY <2>1, <2>2
<1>5. ASSUME ReadDatagrams PROVE OpensWithinLimit'
  <2>1. drv'.open = drv.open /\ q'.left = q.left BY <1>5, <1>t DEF ReadDatagrams, QuicheType
  <2>2. QED BY <2>1, <1>l, LimitKept
<1>6. ASSUME PollClose PROVE OpensWithinLimit'
  <2>1. drv'.open = drv.open /\ q'.left = q.left BY <1>6, <1>t DEF PollClose, QuicheType
  <2>2. QED BY <2>1, <1>l, LimitKept
<1>7. ASSUME PollEarly PROVE OpensWithinLimit'
  <2>1. drv'.open = drv.open /\ q'.left = q.left BY <1>7, <1>t DEF PollEarly, Registered, DrvType, QuicheType
  <2>2. QED BY <2>1, <1>l, LimitKept
<1>8. ASSUME NEW due \in KeepAliveDue, PollMain(due) PROVE OpensWithinLimit'
  <2>1. CASE \E k \in Kinds : Len(drv.open[k].create) > q.left[k]
    <3>1. q' = q /\ drv' = Abort(drv, "quiche")[1] BY <1>8, <2>1 DEF PollMain, Failed
    <3>2. QED BY <3>1, <1>l, <1>t, OpenKept, LimitKept DEF Errors
  <2>2. CASE ~\E k \in Kinds : Len(drv.open[k].create) > q.left[k]
    <3>1. PICK f : f = [k \in Kinds |->
                [drv.open[k] EXCEPT !.create = <<>>, !.cap = StreamsLeft(k),
                                    !.wakers = IF StreamsLeft(k) > 0 THEN {} ELSE @]] OBVIOUS
    <3>2. \E w : drv' = [Registered(drv) EXCEPT !.waker = w, !.send = {}, !.recv = {}, !.open = f]
      BY <1>8, <2>2, <3>1 DEF PollMain
    <3>3. Registered(drv) \in DrvType BY <1>t DEF Registered, DrvType, Tasks, DriverTask
    <3>4. drv'.open = f BY <3>2, <3>3 DEF DrvType
    <3>5. PICK g : g = [k \in Kinds |-> q.left[k] - Len(drv.open[k].create)] OBVIOUS
    <3>6. q' = [q EXCEPT !.left = g] BY <1>8, <2>2, <3>5 DEF PollMain
    <3>7. q'.left = g BY <3>6, <1>t DEF QuicheType
    <3>8. ASSUME NEW k \in Kinds
          PROVE  drv'.open[k].cap + Len(drv'.open[k].create) <= q'.left[k]
      <4>1. PICK m \in Int : m = q.left[k] - Len(drv.open[k].create) BY <1>c
      <4>2. q'.left[k] = m /\ StreamsLeft(k) = m BY <3>5, <3>7, <4>1 DEF StreamsLeft
      <4>3. drv.open[k] \in OpenType BY <1>t DEF DrvType
      <4>4. f[k].cap = StreamsLeft(k) /\ f[k].create = <<>> BY <3>1, <4>3 DEF OpenType
      <4>5. drv'.open[k].cap = m /\ Len(drv'.open[k].create) = 0 BY <3>4, <4>2, <4>4
      <4>6. QED BY <4>1, <4>2, <4>5
    <3>9. QED BY <3>8 DEF OpensWithinLimit
  <2>3. QED BY <2>1, <2>2
<1>9. ASSUME Connected PROVE OpensWithinLimit'
  <2>1. drv'.open = drv.open /\ q'.left = q.left BY <1>9, <1>t DEF Connected, Registered, DrvType, QuicheType
  <2>2. QED BY <2>1, <1>l, LimitKept
<1>10. ASSUME SendClose PROVE OpensWithinLimit'
  <2>1. drv'.open = drv.open /\ q'.left = q.left BY <1>10, <1>t DEF SendClose, NetFrame, QuicheType
  <2>2. QED BY <2>1, <1>l, LimitKept
<1>11. ASSUME OnConnClose PROVE OpensWithinLimit'
  <2>1. CloseReason \in Errors BY <1>y, CloseReasonFacts
  <2>2. PICK w : w = [drv EXCEPT !.closed = CloseReason, !.clw = {}] OBVIOUS
  <2>3. w \in DrvType /\ w.open = drv.open BY <2>1, <2>2, <1>t DEF DrvType, Reasons
  <2>4. drv' = Abort(w, CloseReason)[1] /\ q' = q BY <1>11, <2>2 DEF OnConnClose
  <2>5. QED BY <2>1, <2>3, <2>4, <1>l, OpenKept, LimitKept
<1>12. ASSUME PeerCredit PROVE OpensWithinLimit'
  <2>1. drv'.open = drv.open /\ q'.left = q.left BY <1>12, <1>t DEF PeerCredit, NetFrame, QuicheType
  <2>2. QED BY <2>1, <1>l, LimitKept
<1>13. ASSUME NEW k \in Kinds, PeerMaxStreams(k) PROVE OpensWithinLimit'
  <2>1. drv' = drv /\ q.left[k] = 0 /\ q' = [q EXCEPT !.left[k] = 1] BY <1>13 DEF PeerMaxStreams, NetFrame
  <2>2. q'.left = [q.left EXCEPT ![k] = 1] /\ q.left \in [Kinds -> Nat] BY <2>1, <1>t DEF QuicheType
  <2>3. \A j \in Kinds : q.left[j] <= q'.left[j] /\ q'.left[j] \in Nat BY <2>1, <2>2
  <2>4. QED BY <2>1, <2>3, <1>c, <1>l, SMTT(30) DEF OpensWithinLimit
<1>14. ASSUME PeerDatagram PROVE OpensWithinLimit'
  <2>1. drv'.open = drv.open /\ q'.left = q.left BY <1>14, <1>t DEF PeerDatagram, NetFrame, QuicheType
  <2>2. QED BY <2>1, <1>l, LimitKept
<1>15. ASSUME PeerClose PROVE OpensWithinLimit'
  <2>1. drv'.open = drv.open /\ q'.left = q.left BY <1>15, <1>t DEF PeerClose, NetFrame, QuicheType
  <2>2. QED BY <2>1, <1>l, LimitKept
<1>16. ASSUME Timeout PROVE OpensWithinLimit'
  <2>1. drv'.open = drv.open /\ q'.left = q.left BY <1>16, <1>t DEF Timeout, NetFrame, QuicheType
  <2>2. QED BY <2>1, <1>l, LimitKept
<1>17. ASSUME NEW id \in Ids, Write(id) PROVE OpensWithinLimit'
  <2>1. drv'.open = drv.open /\ q'.left = q.left BY <1>17, <1>t DEF Write, Calls, AppFrame, DrvType
  <2>2. QED BY <2>1, <1>l, LimitKept
<1>18. ASSUME NEW id \in Ids, Finish(id) PROVE OpensWithinLimit'
  <2>1. drv'.open = drv.open /\ q'.left = q.left BY <1>18, <1>t DEF Finish, Calls, AppFrame, DrvType
  <2>2. QED BY <2>1, <1>l, LimitKept
<1>19. ASSUME NEW id \in Ids, Reset(id) PROVE OpensWithinLimit'
  <2>1. drv'.open = drv.open /\ q'.left = q.left BY <1>19, <1>t DEF Reset, Calls, AppFrame, DrvType
  <2>2. QED BY <2>1, <1>l, LimitKept
<1>20. ASSUME NEW id \in Ids, SetPriority(id) PROVE OpensWithinLimit'
  <2>1. drv'.open = drv.open /\ q'.left = q.left BY <1>20, <1>t DEF SetPriority, Calls, AppFrame, DrvType
  <2>2. QED BY <2>1, <1>l, LimitKept
<1>21. ASSUME NEW id \in Ids, SendClosed(id) PROVE OpensWithinLimit'
  <2>1. drv'.open = drv.open /\ q'.left = q.left BY <1>21, <1>t DEF SendClosed, Calls, AppFrame, DrvType
  <2>2. QED BY <2>1, <1>l, LimitKept
<1>22. ASSUME NEW id \in Ids, Flush(id) PROVE OpensWithinLimit'
  <2>1. drv'.open = drv.open /\ q'.left = q.left BY <1>22, <1>t DEF Flush, Calls, AppFrame, DrvType
  <2>2. QED BY <2>1, <1>l, LimitKept
<1>23. ASSUME NEW id \in Ids, Read(id) PROVE OpensWithinLimit'
  <2>1. drv'.open = drv.open /\ q'.left = q.left BY <1>23, <1>t DEF Read, Calls, AppFrame, DrvType
  <2>2. QED BY <2>1, <1>l, LimitKept
<1>24. ASSUME NEW id \in Ids, Stop(id) PROVE OpensWithinLimit'
  <2>1. drv'.open = drv.open /\ q'.left = q.left BY <1>24, <1>t DEF Stop, Calls, AppFrame, DrvType
  <2>2. QED BY <2>1, <1>l, LimitKept
<1>25. ASSUME NEW id \in Ids, RecvClosed(id) PROVE OpensWithinLimit'
  <2>1. drv'.open = drv.open /\ q'.left = q.left BY <1>25, <1>t DEF RecvClosed, Calls, AppFrame, DrvType
  <2>2. QED BY <2>1, <1>l, LimitKept
<1>26. ASSUME NEW h \in Halves, Tell(h) PROVE OpensWithinLimit'
  <2>1. /\ q' = q
        /\ drv' = TellSend(drv, h[1])[1] \/ drv' = TellRecv(drv, h[1])[1] BY <1>26 DEF Tell
  <2>2. drv'.open = drv.open BY <2>1, <1>t, HalfId, OpenKept
  <2>3. QED BY <2>1, <2>2, <1>l, LimitKept
<1>27. ASSUME NEW h \in Halves, Check(h) PROVE OpensWithinLimit'
  <2>1. PICK v : v = IF ap[h].op = "flush" THEN [drv EXCEPT !.clw = @ \cup {h}] ELSE PollError(drv, h) OBVIOUS
  <2>2. h[1] \in Ids /\ h \in Tasks BY HalfId
  <2>3. v \in DrvType /\ v.open = drv.open
    <3>1. CASE ap[h].op = "flush" BY <2>1, <2>2, <3>1, <1>t DEF DrvType
    <3>2. CASE ap[h].op # "flush" BY <2>1, <2>2, <3>2, <1>t, PollErrorFacts, OpenKept
    <3>3. QED BY <3>1, <3>2
  <2>4. q' = q /\ (drv' = drv \/ drv' = v \/ drv' = TellRecv(v, h[1])[1]) BY <1>27, <2>1 DEF Check
  <2>5. TellRecv(v, h[1])[1].open = v.open BY <2>2, <2>3, OpenKept
  <2>6. QED BY <2>3, <2>4, <2>5, <1>l, LimitKept
<1>28. ASSUME NEW o \in Openers, Open(o) PROVE OpensWithinLimit'
  <2>1. PICK k : k = o[2] OBVIOUS
  <2>2. k \in Kinds /\ o \in Tasks /\ drv.open[k] \in OpenType /\ drv.open \in [Kinds -> OpenType]
    BY <2>1, <1>t DEF Openers, Tasks, DrvType
  <2>3. q' = q BY <1>28 DEF Open
  <2>4. CASE drv' = drv BY <2>3, <2>4, <1>l, LimitKept
  <2>5. CASE drv' = PollError([drv EXCEPT !.open[k].wakers = @ \cup {o}], o)
    <3>1. PICK x : x = [drv.open[k] EXCEPT !.wakers = @ \cup {o}] OBVIOUS
    <3>2. x \in OpenType /\ x.cap = drv.open[k].cap /\ x.create = drv.open[k].create BY <3>1, <2>2 DEF OpenType
    <3>3. PICK w : w = [drv EXCEPT !.open[k].wakers = @ \cup {o}] OBVIOUS
    <3>4. w = [drv EXCEPT !.open = [drv.open EXCEPT ![k] = x]] BY <3>1, <3>3, <2>2, <1>t DEF DrvType
    <3>5. w \in DrvType /\ w.open = [drv.open EXCEPT ![k] = x] BY <3>2, <3>4, <2>2, <1>t DEF DrvType
    <3>6. drv'.open = [drv.open EXCEPT ![k] = x] BY <3>3, <3>5, <2>2, <2>5, OpenKept
    <3>7. \A j \in Kinds : /\ drv'.open[j].cap = drv.open[j].cap
                           /\ drv'.open[j].create = drv.open[j].create BY <3>2, <3>6, <2>2
    <3>8. QED BY <3>7, <2>3, <1>l DEF OpensWithinLimit
  <2>6. CASE drv.open[k].cap > 0 /\ drv' = Wake([PollError(drv, o) EXCEPT !.open[k] =
                          [drv.open[k] EXCEPT !.cap = @ - 1, !.next = @ + 4,
                                              !.create = Append(@, drv.open[k].next)]])[1]
    <3>1. PICK x : x = [drv.open[k] EXCEPT !.cap = @ - 1, !.next = @ + 4,
                                           !.create = Append(@, drv.open[k].next)] OBVIOUS
    <3>2. x.cap = drv.open[k].cap - 1 /\ x.create = Append(drv.open[k].create, drv.open[k].next)
      BY <3>1, <2>2 DEF OpenType
    <3>3. Len(x.create) = Len(drv.open[k].create) + 1 BY <3>2, <2>2, <1>c
    <3>4. PICK v : v = PollError(drv, o) OBVIOUS
    <3>5. v \in DrvType /\ v.open = drv.open BY <3>4, <2>2, <1>t, PollErrorFacts, OpenKept
    <3>6. PICK w : w = [v EXCEPT !.open[k] = x] OBVIOUS
    <3>7. w.open = [drv.open EXCEPT ![k] = x] /\ DOMAIN w = DOMAIN v BY <3>5, <3>6 DEF DrvType
    <3>8. drv' = [w EXCEPT !.waker = "none"] BY <3>1, <3>4, <3>6, <2>6 DEF Wake
    <3>9. drv'.open = [drv.open EXCEPT ![k] = x] BY <3>5, <3>7, <3>8 DEF DrvType
    <3>10. ASSUME NEW j \in Kinds
           PROVE  drv'.open[j].cap + Len(drv'.open[j].create) <= q'.left[j]
      <4>1. CASE j = k BY <4>1, <3>2, <3>3, <3>9, <2>2, <2>3, <1>c, <1>l, SMTT(30) DEF OpensWithinLimit
      <4>2. CASE j # k BY <4>2, <3>9, <2>2, <2>3, <1>l DEF OpensWithinLimit
      <4>3. QED BY <4>1, <4>2
    <3>11. QED BY <3>10 DEF OpensWithinLimit
  <2>7. QED BY <1>28, <2>1, <2>4, <2>5, <2>6 DEF Open
<1>29. ASSUME PollHandshake PROVE OpensWithinLimit'
  <2>1. HandshakeTask \in Tasks BY DEF Tasks, HandshakeTask
  <2>2. PICK v : v = PollError(drv, HandshakeTask) OBVIOUS
  <2>3. v \in DrvType /\ v.open = drv.open BY <2>1, <2>2, <1>t, PollErrorFacts, OpenKept
  <2>4. q' = q /\ (drv' = drv \/ drv' = [v EXCEPT !.hsw = @ \cup {HandshakeTask}]) BY <1>29, <2>2 DEF PollHandshake
  <2>5. drv'.open = drv.open BY <2>3, <2>4 DEF DrvType
  <2>6. QED BY <2>4, <2>5, <1>l, LimitKept
<1>30. ASSUME PollClosed PROVE OpensWithinLimit'
  <2>1. q' = q /\ (drv' = drv \/ drv' = [drv EXCEPT !.clw = @ \cup {ClosedTask}]) BY <1>30 DEF PollClosed
  <2>2. drv'.open = drv.open BY <2>1, <1>t DEF DrvType
  <2>3. QED BY <2>1, <2>2, <1>l, LimitKept
<1>31. ASSUME Close PROVE OpensWithinLimit'
  <2>1. q' = q /\ drv' = Abort(drv, "local")[1] BY <1>31 DEF Close
  <2>2. QED BY <2>1, <1>l, <1>t, OpenKept, LimitKept DEF Errors
<1>32. ASSUME DropConnection PROVE OpensWithinLimit'
  <2>1. q' = q /\ drv' = Abort(drv, "dropped")[1] BY <1>32 DEF DropConnection
  <2>2. QED BY <2>1, <1>l, <1>t, OpenKept, LimitKept DEF Errors
<1>33. ASSUME Nudge PROVE OpensWithinLimit'
  <2>1. q' = q /\ drv' = Wake(drv)[1] BY <1>33 DEF Nudge
  <2>2. QED BY <2>1, <1>t, <1>l, OpenKept, LimitKept
<1>34. QED BY <1>0, <1>1, <1>2, <1>3, <1>4, <1>5, <1>6, <1>7, <1>8, <1>9, <1>10, <1>11, <1>12, <1>13, <1>14,
    <1>15, <1>16, <1>17, <1>18, <1>19, <1>20, <1>21, <1>22, <1>23, <1>24, <1>25, <1>26, <1>27,
    <1>28, <1>29, <1>30, <1>31, <1>32, <1>33, Touched

\* Nothing is open at the start.
LEMMA LimitInit == Init => OpensWithinLimit
<1>1. SUFFICES ASSUME Init, NEW k \in Kinds
               PROVE  drv.open[k].cap + Len(drv.open[k].create) <= q.left[k] BY DEF OpensWithinLimit
<1>2. drv.open[k].cap = 0 /\ drv.open[k].create = <<>> /\ q.left[k] = 1 BY <1>1 DEF Init, DriverState, DriverOpen
<1>3. QED BY <1>2

\* OpensWithinLimit: open_bi and open_uni never take a stream quiche would
\* refuse, however the openers interleave with the driver and the peer.
THEOREM OpensStayWithinLimit == Spec => []OpensWithinLimit
<1>1. Init => TypeOK /\ OpensWithinLimit BY TypeInit, LimitInit
<1>2. TypeOK /\ OpensWithinLimit /\ [Next]_vars => (TypeOK /\ OpensWithinLimit)'
  <2>1. SUFFICES ASSUME TypeOK, OpensWithinLimit, [Next]_vars
                 PROVE  (TypeOK /\ OpensWithinLimit)' OBVIOUS
  <2>2. TypeOK' BY <2>1, TypeStep
  <2>3. CASE Next BY <2>1, <2>2, <2>3, LimitStep
  <2>4. CASE UNCHANGED vars BY <2>1, <2>2, <2>4 DEF vars, OpensWithinLimit
  <2>5. QED BY <2>1, <2>3, <2>4
<1>3. QED BY <1>1, <1>2, PTL DEF Spec

-----------------------------------------------------------------------------
(* A FIN and a STOP_SENDING are not taken back                              *)

FinKept == \A i \in Ids : ss[i].fin => ss'[i].fin
StopKept == \A i \in Ids : qs[i].stopped => qs'[i].stopped

\* A stream that changes without losing its mark.
LEMMA FinSet ==
  ASSUME ss \in [Ids -> SendType], NEW id \in Ids, NEW st, ss' = [ss EXCEPT ![id] = st],
         ss[id].fin => st.fin
  PROVE  FinKept
BY DEF FinKept

\* The same for the STOP_SENDING of the peer.
LEMMA StopSet ==
  ASSUME qs \in [Ids -> StreamType], NEW id \in Ids, NEW kk, qs' = [qs EXCEPT ![id] = kk],
         qs[id].stopped => kk.stopped
  PROVE  StopKept
BY DEF StopKept

\* No step takes a FIN back ...
LEMMA FinStays ==
  ASSUME TypeOK, Next
  PROVE  FinKept
<1>t. ss \in [Ids -> SendType] BY DEF TypeOK
<1>y. TypeOK OBVIOUS
<1>0. CASE ss' = ss BY <1>0 DEF FinKept
<1>1. ASSUME NEW id \in Ids, AcceptBi(id) PROVE FinKept
  <2>1. SendFlushed(id, ReadPopped(id), SendFlush(id, ReadPopped(id))) BY <1>y, PoppedFacts, SendFlushFacts
  <2>2. ss' = [ss EXCEPT ![id] = SendFlush(id, ReadPopped(id)).st] BY <1>1 DEF AcceptBi
  <2>3. ss[id].fin => SendFlush(id, ReadPopped(id)).st.fin BY <2>1 DEF SendFlushed
  <2>4. QED BY <2>2, <2>3, <1>t, FinSet
<1>2. ASSUME NEW id \in Ids, WriteKnown(id) PROVE FinKept
  <2>1. PICK next : FlushSendOf(id, WritePopped(id), next) BY <1>2 DEF WriteKnown
  <2>2. \/ ss' = ss
        \/ \E st \in SendType : ss' = [ss EXCEPT ![id] = st] /\ st.fin = ss[id].fin
    BY <2>1, <1>y, PoppedFacts, FlushSendEffect
  <2>3. CASE ss' = ss BY <2>3 DEF FinKept
  <2>4. CASE \E st \in SendType : ss' = [ss EXCEPT ![id] = st] /\ st.fin = ss[id].fin BY <2>4, <1>t, FinSet
  <2>5. QED BY <2>2, <2>3, <2>4
<1>3. ASSUME NEW id \in Ids, FlushSend(id) PROVE FinKept
  <2>1. CASE id \in sends
    <3>1. PICK next : FlushSendOf(id, qs[id], next) BY <1>3, <2>1 DEF FlushSend
    <3>2. \/ ss' = ss
          \/ \E st \in SendType : ss' = [ss EXCEPT ![id] = st] /\ st.fin = ss[id].fin
      BY <3>1, <1>y, PoppedFacts, FlushSendEffect
    <3>3. CASE ss' = ss BY <3>3 DEF FinKept
    <3>4. CASE \E st \in SendType : ss' = [ss EXCEPT ![id] = st] /\ st.fin = ss[id].fin BY <3>4, <1>t, FinSet
    <3>5. QED BY <3>2, <3>3, <3>4
  <2>2. CASE id \notin sends BY <1>3, <2>2 DEF FlushSend, FinKept
  <2>3. QED BY <2>1, <2>2
<1>4. ASSUME NEW id \in Ids, Write(id) PROVE FinKept
  <2>1. \/ ss' = ss
        \/ ss' = [ss EXCEPT ![id].blocked = TRUE]
        \/ ss' = [ss EXCEPT ![id].cap = @ - 1, ![id].queued = @ + 1] BY <1>4 DEF Write
  <2>2. QED BY <2>1, <1>t DEF FinKept, SendType
<1>5. ASSUME NEW id \in Ids, Finish(id) PROVE FinKept
  <2>1. \/ ss' = ss
        \/ ss' = [ss EXCEPT ![id].fin = TRUE] BY <1>5 DEF Finish
  <2>2. QED BY <2>1, <1>t DEF FinKept, SendType
<1>6. ASSUME NEW id \in Ids, Reset(id) PROVE FinKept
  <2>1. \/ ss' = ss
        \/ ss' = [ss EXCEPT ![id].reset = TRUE] BY <1>6 DEF Reset
  <2>2. QED BY <2>1, <1>t DEF FinKept, SendType
<1>7. ASSUME NEW id \in Ids, DropSend(id) PROVE FinKept
  <2>1. \/ ss' = ss
        \/ ss' = [ss EXCEPT ![id].reset = TRUE] BY <1>7 DEF DropSend
  <2>2. QED BY <2>1, <1>t DEF FinKept, SendType
<1>8. ASSUME NEW id \in Ids, SendClosed(id) PROVE FinKept
  <2>1. \/ ss' = ss
        \/ ss' = [ss EXCEPT ![id].blocked = TRUE] BY <1>8 DEF SendClosed
  <2>2. QED BY <2>1, <1>t DEF FinKept, SendType
<1>9. ASSUME NEW id \in Ids, Flush(id) PROVE FinKept
  <2>1. \/ ss' = ss
        \/ ss' = [ss EXCEPT ![id].blocked = TRUE] BY <1>9 DEF Flush
  <2>2. QED BY <2>1, <1>t DEF FinKept, SendType
<1>10. QED BY <1>0, <1>1, <1>2, <1>3, <1>4, <1>5, <1>6, <1>7, <1>8, <1>9, Touched

\* ... nor the STOP_SENDING of the peer.
LEMMA StopStays ==
  ASSUME TypeOK, Next
  PROVE  StopKept
<1>t. qs \in [Ids -> StreamType] BY DEF TypeOK
<1>y. TypeOK OBVIOUS
<1>0. CASE qs' = qs BY <1>0 DEF StopKept
<1>1. ASSUME NEW id \in Ids, ReadKnown(id) PROVE StopKept
  <2>1. PICK next : FlushRecvOf(id, ReadPopped(id), next) BY <1>1 DEF ReadKnown
  <2>2. PICK kk : qs' = [qs EXCEPT ![id] = kk] /\ kk.stopped = ReadPopped(id).stopped
    BY <2>1, <1>y, PoppedFacts, FlushRecvEffect
  <2>3. qs[id].stopped => kk.stopped BY <2>2, <1>y, PoppedFacts
  <2>4. QED BY <2>2, <2>3, <1>t, StopSet
<1>2. ASSUME NEW id \in Ids, AcceptUni(id) PROVE StopKept
  <2>1. qs' = [qs EXCEPT ![id] = ReadPopped(id)] BY <1>2 DEF AcceptUni
  <2>2. QED BY <2>1, <1>t, <1>y, PoppedFacts, StopSet
<1>3. ASSUME NEW id \in Ids, AcceptBi(id) PROVE StopKept
  <2>1. SendFlushed(id, ReadPopped(id), SendFlush(id, ReadPopped(id))) BY <1>y, PoppedFacts, SendFlushFacts
  <2>2. qs' = [qs EXCEPT ![id] = SendFlush(id, ReadPopped(id)).k] BY <1>3 DEF AcceptBi
  <2>3. qs[id].stopped => SendFlush(id, ReadPopped(id)).k.stopped BY <2>1, <1>y, PoppedFacts DEF SendFlushed
  <2>4. QED BY <2>2, <2>3, <1>t, StopSet
<1>4. ASSUME NEW id \in Ids, WriteKnown(id) PROVE StopKept
  <2>1. PICK next : FlushSendOf(id, WritePopped(id), next) BY <1>4 DEF WriteKnown
  <2>2. PICK kk : qs' = [qs EXCEPT ![id] = kk] /\ kk.stopped = WritePopped(id).stopped
    BY <2>1, <1>y, PoppedFacts, FlushSendEffect
  <2>3. qs[id].stopped => kk.stopped BY <2>2, <1>y, PoppedFacts
  <2>4. QED BY <2>2, <2>3, <1>t, StopSet
<1>5. ASSUME NEW id \in Ids, WriteGone(id) PROVE StopKept
  <2>1. qs' = [qs EXCEPT ![id].armed = FALSE] BY <1>5 DEF WriteGone
  <2>2. QED BY <2>1, <1>t DEF StopKept, StreamType
<1>6. ASSUME NEW id \in Ids, FlushRecv(id) PROVE StopKept
  <2>1. CASE id \in recvs
    <3>1. PICK next : FlushRecvOf(id, qs[id], next) BY <1>6, <2>1 DEF FlushRecv
    <3>2. PICK kk : qs' = [qs EXCEPT ![id] = kk] /\ kk.stopped = qs[id].stopped
      BY <3>1, <1>y, PoppedFacts, FlushRecvEffect
    <3>3. qs[id].stopped => kk.stopped BY <3>2, <1>y, PoppedFacts
    <3>4. QED BY <3>2, <3>3, <1>t, StopSet
  <2>2. CASE id \notin recvs BY <1>6, <2>2 DEF FlushRecv, StopKept
  <2>3. QED BY <2>1, <2>2
<1>7. ASSUME NEW id \in Ids, FlushSend(id) PROVE StopKept
  <2>1. CASE id \in sends
    <3>1. PICK next : FlushSendOf(id, qs[id], next) BY <1>7, <2>1 DEF FlushSend
    <3>2. PICK kk : qs' = [qs EXCEPT ![id] = kk] /\ kk.stopped = qs[id].stopped
      BY <3>1, <1>y, PoppedFacts, FlushSendEffect
    <3>3. qs[id].stopped => kk.stopped BY <3>2, <1>y, PoppedFacts
    <3>4. QED BY <3>2, <3>3, <1>t, StopSet
  <2>2. CASE id \notin sends BY <1>7, <2>2 DEF FlushSend, StopKept
  <2>3. QED BY <2>1, <2>2
<1>8. ASSUME NEW due \in KeepAliveDue, PollMain(due) PROVE StopKept
  <2>1. CASE \E k \in Kinds : Len(drv.open[k].create) > q.left[k] BY <1>8, <2>1 DEF PollMain, StopKept
  <2>2. CASE ~\E k \in Kinds : Len(drv.open[k].create) > q.left[k]
    <3>1. PICK made : qs' = [i \in Ids |-> IF i \in made THEN [qs[i] EXCEPT !.made = TRUE, !.armed = TRUE] ELSE qs[i]]
      BY <1>8, <2>2 DEF PollMain
    <3>2. QED BY <3>1, <1>t DEF StreamType, StopKept
  <2>3. QED BY <2>1, <2>2
<1>9. ASSUME NEW id \in Ids, PeerData(id) PROVE StopKept
  <2>1. qs' = [qs EXCEPT ![id].made = TRUE, ![id].rbuf = @ + 1, ![id].got = @ + 1, ![id].rarmed = TRUE]
    BY <1>9 DEF PeerData
  <2>2. QED BY <2>1, <1>t DEF StopKept, StreamType
<1>10. ASSUME NEW id \in Ids, PeerFin(id) PROVE StopKept
  <2>1. qs' = [qs EXCEPT ![id].made = TRUE, ![id].rfin = TRUE, ![id].rarmed = TRUE] BY <1>10 DEF PeerFin
  <2>2. QED BY <2>1, <1>t DEF StopKept, StreamType
<1>11. ASSUME NEW id \in Ids, PeerReset(id) PROVE StopKept
  <2>1. qs' = [qs EXCEPT ![id].made = TRUE, ![id].rrst = TRUE, ![id].rbuf = 0, ![id].rarmed = TRUE]
    BY <1>11 DEF PeerReset
  <2>2. QED BY <2>1, <1>t DEF StopKept, StreamType
<1>12. ASSUME NEW id \in Ids, PeerStop(id) PROVE StopKept
  <2>1. qs' = [qs EXCEPT ![id].made = TRUE, ![id].stopped = TRUE, ![id].armed = TRUE] BY <1>12 DEF PeerStop
  <2>2. QED BY <2>1, <1>t DEF StopKept, StreamType
<1>13. ASSUME PeerCredit PROVE StopKept
  <2>1. qs' = [i \in Ids |-> [qs[i] EXCEPT !.armed = @ \/ (qs[i].made /\ ~qs[i].fin /\ ~qs[i].rst)]]
    BY <1>13 DEF PeerCredit
  <2>2. QED BY <2>1, <1>t DEF StopKept, StreamType
<1>14. QED BY <1>0, <1>1, <1>2, <1>3, <1>4, <1>5, <1>6, <1>7, <1>8, <1>9, <1>10, <1>11, <1>12, <1>13, Touched

-----------------------------------------------------------------------------
(* One cause                                                                *)

\* The reasons agree with the one that was asked for first ...
LEMMA ReasonsStep ==
  ASSUME ReasonsInv, ReasonStep, TypeOK
  PROVE  ReasonsInv'
<1>1. /\ drv.closed # "none" => drv.closed = drv.creq
      /\ q.local # "none" => q.local = drv.creq
      /\ \A x \in seen : x = drv.creq /\ x # "none" BY DEF ReasonsInv
<1>2. CASE Unmoved BY <1>1, <1>2 DEF Unmoved, SameCause, ReasonsInv
<1>3. CASE Asks BY <1>1, <1>3 DEF Asks, ReasonsInv
<1>4. CASE HandsOn BY <1>1, <1>4 DEF HandsOn, ReasonsInv
<1>5. CASE Publishes
  <2>1. drv.creq = "none" => q.local = "none" BY <1>1
  <2>2. drv.creq # "none" => drv'.creq = drv.creq BY <1>5 DEF Publishes
  <2>3. drv'.closed = drv'.creq /\ q' = q /\ seen' = seen BY <1>5 DEF Publishes
  <2>4. q'.local # "none" => q'.local = drv'.creq BY <2>1, <2>2, <2>3, <1>1
  <2>5. \A x \in seen' : x = drv'.creq /\ x # "none" BY <2>2, <2>3, <1>1
  <2>6. QED BY <2>3, <2>4, <2>5 DEF ReasonsInv
<1>6. CASE Reports
  <2>1. PICK x \in {drv.closed, ErrorOf(drv)} : x # "none" /\ seen' = seen \cup {x} BY <1>6 DEF Reports
  <2>2. x = drv.creq BY <2>1, <1>1 DEF ErrorOf
  <2>3. drv' = drv /\ q' = q BY <1>6 DEF Reports
  <2>4. QED BY <2>1, <2>2, <2>3, <1>1 DEF ReasonsInv
<1>7. QED BY <1>2, <1>3, <1>4, <1>5, <1>6 DEF ReasonStep

\* ... and quiche's own error is that of a FIN that met a STOP_SENDING.
LEMMA LocalStep ==
  ASSUME StreamErrorsLocal, ReasonsInv, ReasonStep, FinKept, StopKept
  PROVE  StreamErrorsLocal'
<1>1. CASE drv'.creq = drv.creq
  <2>1. SUFFICES ASSUME drv'.creq = "quiche"
                 PROVE  \E id \in Ids : ss'[id].fin /\ qs'[id].stopped BY DEF StreamErrorsLocal
  <2>2. PICK id \in Ids : ss[id].fin /\ qs[id].stopped BY <1>1, <2>1 DEF StreamErrorsLocal
  <2>3. QED BY <2>2 DEF FinKept, StopKept
<1>2. CASE Asks BY <1>2 DEF Asks, StreamErrorsLocal
<1>3. CASE Publishes
  <2>1. q.local # "none" => q.local = drv.creq BY DEF ReasonsInv
  <2>2. drv'.creq = drv.creq \/ drv'.creq \in {"remote", "unknown"} BY <1>3, <2>1 DEF Publishes
  <2>3. QED BY <1>1, <2>2 DEF StreamErrorsLocal
<1>4. CASE Unmoved \/ HandsOn \/ Reports BY <1>1, <1>4 DEF Unmoved, SameCause, HandsOn, Reports
<1>5. QED BY <1>2, <1>3, <1>4 DEF ReasonStep

\* The reasons the calls have reported are that one, so there is at most one.
LEMMA OneReason ==
  ASSUME ReasonsInv
  PROVE  SameReason
<1>1. \A x \in seen : x = drv.creq /\ x # "none" BY DEF ReasonsInv
<1>2. CASE seen = {} BY <1>2, FS_EmptySet DEF SameReason
<1>3. CASE seen # {}
  <2>1. seen = {drv.creq} /\ drv.creq # "none" BY <1>1, <1>3
  <2>2. ErrorOf(drv) = drv.creq BY <2>1 DEF ErrorOf
  <2>3. QED BY <2>1, <2>2, FS_Singleton DEF SameReason
<1>4. QED BY <1>2, <1>3

\* OneCause: whichever of close(), the peer, quiche or a drop comes first, every
\* call reports that reason, and nothing that happens to a stream is one but a
\* FIN that meets a STOP_SENDING.
THEOREM ConnectionEndsForOneCause == Spec => []OneCause
<1> DEFINE Inv == TypeOK /\ OpensWithinLimit /\ ReasonsInv /\ StreamErrorsLocal
<1>1. Init => Inv
  <2>1. ASSUME Init PROVE drv.creq = "none" /\ drv.closed = "none" /\ q.local = "none" /\ seen = {}
    BY <2>1 DEF Init, DriverState
  <2>2. Init => ReasonsInv /\ StreamErrorsLocal BY <2>1 DEF ReasonsInv, StreamErrorsLocal
  <2>3. QED BY <2>2, TypeInit, LimitInit
<1>2. Inv /\ [Next]_vars => Inv'
  <2>1. SUFFICES ASSUME Inv, [Next]_vars PROVE Inv' OBVIOUS
  <2>2. TypeOK' BY <2>1, TypeStep
  <2>3. CASE Next
    <3>1. OpensWithinLimit' BY <2>1, <2>3, LimitStep
    <3>2. ReasonStep /\ FinKept /\ StopKept BY <2>1, <2>3, ReasonSteps, FinStays, StopStays
    <3>3. ReasonsInv' BY <2>1, <3>2, ReasonsStep
    <3>4. StreamErrorsLocal' BY <2>1, <3>2, LocalStep
    <3>5. QED BY <2>2, <3>1, <3>3, <3>4
  <2>4. CASE UNCHANGED vars BY <2>1, <2>2, <2>4 DEF vars, OpensWithinLimit, ReasonsInv, StreamErrorsLocal
  <2>5. QED BY <2>1, <2>3, <2>4
<1>3. Inv => OneCause BY OneReason DEF OneCause
<1>4. QED BY <1>1, <1>2, <1>3, PTL DEF Spec

-----------------------------------------------------------------------------
(* The driver never sleeps on work                                          *)

\* A change of DriverState that makes no work and leaves the driver's wakers.
Quiet(w, v) ==
  /\ w.send = v.send /\ w.recv = v.recv /\ w.creq = v.creq /\ w.waker = v.waker
  /\ \A k \in Kinds : w.open[k].create = v.open[k].create
  /\ DriverTask \in v.crw => DriverTask \in w.crw

\* Looking at the latches is such a change.
LEMMA PollErrorQuiet ==
  ASSUME NEW v \in DrvType, NEW t \in Tasks
  PROVE  Quiet(PollError(v, t), v)
<1>1. PICK a \in SUBSET Tasks, b \in SUBSET Tasks :
        /\ PollError(v, t) = [v EXCEPT !.crw = a, !.clw = b]
        /\ v.crw \subseteq a /\ v.clw \subseteq b BY PollErrorFacts, Zenon
<1>2. QED BY <1>1 DEF Quiet, DrvType

\* So is taking a closed waker out of them.
LEMMA ForgetQuiet ==
  ASSUME NEW v \in DrvType, NEW h, h # DriverTask
  PROVE  Quiet([v EXCEPT !.crw = @ \ {h}, !.clw = @ \ {h}], v)
BY DEF Quiet, DrvType

\* A step that is quiet for the driver keeps it rested.
LEMMA RestKept ==
  ASSUME RestInv, Resting' => Resting, q'.status = q.status, Quiet(drv', drv),
         DriverTask \in awake => DriverTask \in awake',
         cn'.out > 0 => cn.out > 0 \/ cn'.pc = "nudge", cn.pc = "nudge" => cn'.pc = "nudge"
  PROVE  RestInv'
<1>1. SUFFICES ASSUME Resting', DriverTask \notin awake'
               PROVE  /\ drv'.send = {} /\ drv'.recv = {} /\ \A k \in Kinds : drv'.open[k].create = <<>>
                      /\ q'.status # "draining" => drv'.creq = "none" /\ DriverTask \in drv'.crw
                      /\ drv'.waker = "task" \/ q'.status = "handshake"
                      /\ cn'.out > 0 => cn'.pc = "nudge" BY DEF RestInv
<1>2. Resting /\ DriverTask \notin awake BY <1>1
<1>3. QED BY <1>2 DEF RestInv, Quiet

\* A driver that is busy after the step has nothing to show.
LEMMA BusyKept ==
  ASSUME d'.pc # "parked", d'.pc # "flush"
  PROVE  RestInv'
BY DEF RestInv, Resting

\* A task woken in the middle of a step stays awake.
LEMMA WokenKept ==
  ASSUME DriverTask \in awake'
  PROVE  RestInv'
BY DEF RestInv

\* Asking for the end of the connection wakes a driver that rests.
LEMMA AbortWakes ==
  ASSUME TypeOK, RestInv, NEW err \in Errors, d' = d, q' = q,
         drv' = Abort(drv, err)[1], awake' = awake \cup Fire(Abort(drv, err)[2]),
         cn'.out = cn.out, cn'.pc = cn.pc
  PROVE  RestInv'
<1>t. drv \in DrvType BY DEF TypeOK
<1>1. CASE drv.creq # "none"
  <2>1. drv' = drv BY <1>1, <1>t, AbortFacts
  <2>2. Quiet(drv', drv) /\ (Resting' => Resting) BY <2>1 DEF Quiet, Resting
  <2>3. QED BY <2>2, RestKept
<1>2. CASE drv.creq = "none"
  <2>1. drv' = [drv EXCEPT !.creq = err, !.crw = {}] /\ awake' = awake \cup Fire(drv.crw) BY <1>2, <1>t, AbortFacts
  <2>2. CASE DriverTask \in drv.crw
    <3>1. DriverTask \in Fire(drv.crw) BY <2>2 DEF Fire, Pending
    <3>2. QED BY <3>1, <2>1, WokenKept
  <2>3. CASE DriverTask \notin drv.crw
    <3>1. SUFFICES ASSUME Resting', DriverTask \notin awake'
                   PROVE  /\ drv'.send = {} /\ drv'.recv = {}
                          /\ \A k \in Kinds : drv'.open[k].create = <<>>
                          /\ q'.status # "draining" => drv'.creq = "none" /\ DriverTask \in drv'.crw
                          /\ drv'.waker = "task" \/ q'.status = "handshake"
                          /\ cn'.out > 0 => cn'.pc = "nudge" BY DEF RestInv
    <3>2. Resting /\ DriverTask \notin awake BY <3>1, <2>1 DEF Resting
    <3>3. q.status = "draining" BY <3>2, <2>3 DEF RestInv
    <3>4. /\ drv'.send = drv.send /\ drv'.recv = drv.recv /\ drv'.open = drv.open
          /\ drv'.waker = drv.waker BY <2>1, <1>t DEF DrvType
    <3>5. QED BY <3>2, <3>3, <3>4 DEF RestInv
  <2>4. QED BY <2>2, <2>3
<1>3. QED BY <1>1, <1>2

\* Every step leaves a driver that rests with its wakers in place, or wakes it.
LEMMA RestStep ==
  ASSUME TypeOK, EarlyInv, RestInv, Next
  PROVE  RestInv'
<1>t. drv \in DrvType /\ q \in QuicheType /\ d \in TaskType /\ cn \in ConnType BY DEF TypeOK
<1>y. TypeOK OBVIOUS
<1>e. EarlyInv OBVIOUS
<1>r. RestInv OBVIOUS
<1>n. ASSUME d.pc \in {"reads", "writes", "poll", "poll0", "flush", "flush0"},
             d' = [NewDriver EXCEPT !.pc = NextPhase(d.pc)]
      PROVE  d'.pc # "parked" /\ d'.pc # "flush"
  <2>1. d'.pc = NextPhase(d.pc) BY <1>n DEF NewDriver
  <2>2. NextPhase(d.pc) \in {"writes", "poll", "reads", "net"} BY <1>n DEF NextPhase
  <2>3. QED BY <2>1, <2>2
<1>q. drv' = drv => Quiet(drv', drv) BY DEF Quiet
<1>d. d' = d => (Resting' => Resting) BY DEF Resting
<1>p. \A h \in Halves : ap[h].pc # "none" => q.status # "handshake" BY DEF EarlyInv
<1>w. ASSUME d' = d, q' = q, q.status # "handshake",
             NEW x, x # DriverTask,
             awake' \in {awake \cup (IF drv.waker = "task" THEN {DriverTask} ELSE {}),
                         (awake \cup (IF drv.waker = "task" THEN {DriverTask} ELSE {})) \ {x}}
      PROVE  RestInv'
  <2>1. CASE drv.waker = "task"
    <3>1. DriverTask \in awake' BY <1>w, <2>1
    <3>2. QED BY <3>1, WokenKept
  <2>2. CASE drv.waker # "task"
    <3>1. Resting' /\ DriverTask \notin awake' => Resting /\ DriverTask \notin awake BY <1>w, <2>2 DEF Resting
    <3>2. ~(Resting /\ DriverTask \notin awake) BY <1>w, <2>2 DEF RestInv
    <3>3. QED BY <3>1, <3>2 DEF RestInv
  <2>3. QED BY <2>1, <2>2
<1>1. ASSUME NEW id \in Ids, ReadKnown(id) PROVE RestInv'
  <2>1. d'.pc # "parked" /\ d'.pc # "flush" BY <1>1, <1>t DEF ReadKnown, FlushRecvOf, TaskType
  <2>2. QED BY <2>1, BusyKept
<1>2. ASSUME NEW id \in Ids, AcceptUni(id) PROVE RestInv'
  <2>1. d.pc = "reads" /\ (d' = d \/ d' = [NewDriver EXCEPT !.pc = NextPhase(d.pc)]) BY <1>2 DEF AcceptUni, Failed
  <2>2. d'.pc # "parked" /\ d'.pc # "flush" BY <2>1, <1>n
  <2>3. QED BY <2>2, BusyKept
<1>3. ASSUME NEW id \in Ids, AcceptBi(id) PROVE RestInv'
  <2>1. d.pc = "reads" /\ (d' = d \/ d' = [NewDriver EXCEPT !.pc = NextPhase(d.pc)]) BY <1>3 DEF AcceptBi, Failed
  <2>2. d'.pc # "parked" /\ d'.pc # "flush" BY <2>1, <1>n
  <2>3. QED BY <2>2, BusyKept
<1>4. ASSUME NEW id \in Ids, WriteKnown(id) PROVE RestInv'
  <2>1. d.pc = "writes" /\ FlushSendOf(id, WritePopped(id), d) BY <1>4 DEF WriteKnown
  <2>2. d' = d \/ d' = [NewDriver EXCEPT !.pc = NextPhase(d.pc)] BY <2>1, <1>y, PoppedFacts, FlushSendEffect DEF Failed
  <2>3. d'.pc # "parked" /\ d'.pc # "flush" BY <2>1, <2>2, <1>n
  <2>4. QED BY <2>3, BusyKept
<1>5. ASSUME NEW id \in Ids, WriteGone(id) PROVE RestInv'
  <2>1. d'.pc # "parked" /\ d'.pc # "flush" BY <1>5, <1>t DEF WriteGone, TaskType
  <2>2. QED BY <2>1, BusyKept
<1>6. ASSUME NEW id \in Ids, FlushRecv(id) PROVE RestInv'
  <2>1. d' = [d EXCEPT !.recv = @ \ {id}] /\ drv' = drv /\ q' = q /\ cn' = cn BY <1>6 DEF FlushRecv, FlushRecvOf
  <2>2. DriverTask \in awake => DriverTask \in awake' BY <1>6 DEF FlushRecv, FlushRecvOf
  <2>3. (Resting' => Resting) /\ Quiet(drv', drv) BY <2>1, <1>t DEF Resting, Quiet, TaskType
  <2>4. QED BY <2>1, <2>2, <2>3, <1>r, RestKept
<1>7. ASSUME NEW id \in Ids, FlushSend(id) PROVE RestInv'
  <2>1. CASE id \in sends
    <3>1. FlushSendOf(id, qs[id], [d EXCEPT !.send = @ \ {id}]) BY <1>7, <2>1 DEF FlushSend
    <3>2. cn' = cn /\ d.pc \in {"flush", "flush0"} BY <1>7 DEF FlushSend
    <3>3. \/ d' = [NewDriver EXCEPT !.pc = NextPhase(d.pc)]
          \/ /\ drv' = drv /\ d' = [d EXCEPT !.send = @ \ {id}]
             /\ \E c : q' = [q EXCEPT !.credit = c]
             /\ \E S : awake' = awake \cup S BY <3>1, <1>y, PoppedFacts, FlushSendEffect, SMTT(30) DEF Failed
    <3>4. CASE d' = [NewDriver EXCEPT !.pc = NextPhase(d.pc)]
      <4>1. d'.pc # "parked" /\ d'.pc # "flush" BY <3>2, <3>4, <1>n
      <4>2. QED BY <4>1, BusyKept
    <3>5. CASE /\ drv' = drv /\ d' = [d EXCEPT !.send = @ \ {id}]
               /\ \E c : q' = [q EXCEPT !.credit = c]
               /\ \E S : awake' = awake \cup S
      <4>1. (Resting' => Resting) /\ Quiet(drv', drv) /\ q'.status = q.status
        BY <3>5, <1>t DEF Resting, Quiet, TaskType, QuicheType
      <4>2. DriverTask \in awake => DriverTask \in awake' BY <3>5
      <4>3. QED BY <4>1, <4>2, <3>2, <1>r, RestKept
    <3>6. QED BY <3>3, <3>4, <3>5
  <2>2. CASE id \notin sends
    <3>1. d' = [d EXCEPT !.send = @ \ {id}] /\ drv' = drv /\ q' = q /\ cn' = cn /\ awake' = awake
      BY <1>7, <2>2 DEF FlushSend
    <3>2. (Resting' => Resting) /\ Quiet(drv', drv) BY <3>1, <1>t DEF Resting, Quiet, TaskType
    <3>3. QED BY <3>1, <3>2, <1>r, RestKept
  <2>3. QED BY <2>1, <2>2
<1>8. ASSUME ReadDatagrams PROVE RestInv'
  <2>1. d'.pc # "parked" /\ d'.pc # "flush" BY <1>8, <1>t DEF ReadDatagrams, TaskType
  <2>2. QED BY <2>1, BusyKept
<1>9. ASSUME WriteDatagrams PROVE RestInv'
  <2>1. d'.pc # "parked" /\ d'.pc # "flush" BY <1>9, <1>t DEF WriteDatagrams, TaskType
  <2>2. QED BY <2>1, BusyKept
<1>10. ASSUME PollClose PROVE RestInv'
  <2>1. d'.pc # "parked" /\ d'.pc # "flush" BY <1>10, <1>t DEF PollClose, TaskType
  <2>2. QED BY <2>1, BusyKept
<1>11. ASSUME PollEarly PROVE RestInv'
  <2>1. drv' = Registered(drv) /\ q' = q /\ cn' = cn /\ d.pc = "poll" /\ drv.creq = "none"
        /\ q.status = "handshake" BY <1>11 DEF PollEarly
  <2>2. drv' = [drv EXCEPT !.crw = @ \cup {DriverTask}] BY <2>1 DEF Registered
  <2>3. /\ drv'.send = drv.send /\ drv'.recv = drv.recv /\ drv'.creq = drv.creq
        /\ drv'.open = drv.open /\ DriverTask \in drv'.crw BY <2>2, <1>t DEF DrvType
  <2>4. /\ drv.send = {} /\ drv.recv = {} /\ \A k \in Kinds : drv.open[k].create = <<>>
        /\ cn.out = 0 BY <2>1, <1>e DEF EarlyInv
  <2>5. QED BY <2>1, <2>3, <2>4 DEF RestInv
<1>12. ASSUME NEW due \in KeepAliveDue, PollMain(due) PROVE RestInv'
  <2>1. CASE \E k \in Kinds : Len(drv.open[k].create) > q.left[k]
    <3>1. d.pc \in {"poll", "poll0"} /\ d' = [NewDriver EXCEPT !.pc = NextPhase(d.pc)]
      BY <1>12, <2>1 DEF PollMain, Failed
    <3>2. QED BY <3>1, <1>n, BusyKept
  <2>2. CASE ~\E k \in Kinds : Len(drv.open[k].create) > q.left[k]
    <3>0. PICK f : f = [k \in Kinds |->
                [drv.open[k] EXCEPT !.create = <<>>, !.cap = StreamsLeft(k),
                                    !.wakers = IF StreamsLeft(k) > 0 THEN {} ELSE @]] OBVIOUS
    <3>1. /\ d.pc \in {"poll", "poll0"} /\ cn' = cn
          /\ q.status = "draining" \/ drv.creq = "none"
          /\ drv' = [Registered(drv) EXCEPT !.waker = IF d.pc = "poll" THEN "task" ELSE "noop",
                                           !.send = {}, !.recv = {}, !.open = f] BY <1>12, <2>2, <3>0 DEF PollMain
    <3>2. \E s, r : d' = [pc |-> IF d.pc = "poll" THEN "flush" ELSE "flush0",
                           recv |-> r, send |-> s, sleep |-> NoWork(drv) /\ ~due] BY <1>12, <2>2 DEF PollMain
    <3>3. \E l : q' = [q EXCEPT !.left = l] BY <1>12, <2>2 DEF PollMain
    <3>4. q'.status = q.status BY <3>3, <1>t DEF QuicheType
    <3>5. CASE d.pc # "poll"
      <4>1. d'.pc # "parked" /\ d'.pc # "flush" BY <3>2, <3>5
      <4>2. QED BY <4>1, BusyKept
    <3>6. CASE d.pc = "poll" /\ ~NoWork(drv)
      <4>0. PICK b : b = (NoWork(drv) /\ ~due) OBVIOUS
      <4>a. ~b BY <4>0, <3>6
      <4>b. d'.pc = "flush" /\ d'.sleep = b BY <3>2, <3>6, <4>0
      <4>1. ~Resting' BY <4>a, <4>b DEF Resting
      <4>2. QED BY <4>1 DEF RestInv
    <3>7. CASE d.pc = "poll" /\ NoWork(drv)
      <4>1. PICK v : v = Registered(drv) OBVIOUS
      <4>2. v \in DrvType /\ v.creq = drv.creq /\ (q.status # "draining" => DriverTask \in v.crw)
        <5>1. CASE q.status = "draining" BY <5>1, <4>1, <1>t DEF Registered
        <5>2. CASE q.status # "draining"
          <6>1. v = [drv EXCEPT !.crw = @ \cup {DriverTask}] BY <5>2, <4>1, <3>7 DEF Registered
          <6>2. DriverTask \in Tasks BY DEF Tasks, DriverTask
          <6>3. QED BY <6>1, <6>2, <1>t DEF DrvType
        <5>3. QED BY <5>1, <5>2
      <4>3. drv' = [v EXCEPT !.waker = "task", !.send = {}, !.recv = {}, !.open = f] BY <3>1, <3>7, <4>1
      <4>4. /\ drv'.send = {} /\ drv'.recv = {} /\ drv'.open = f /\ drv'.waker = "task"
            /\ drv'.creq = v.creq /\ drv'.crw = v.crw BY <4>2, <4>3 DEF DrvType
      <4>5. \A k \in Kinds : f[k].create = <<>> BY <3>0, <1>t DEF DrvType, OpenType
      <4>6. cn'.out = 0 BY <3>1, <3>7 DEF NoWork
      <4>7. q'.status # "draining" => drv'.creq = "none" /\ DriverTask \in drv'.crw BY <3>1, <3>4, <4>2, <4>4
      <4>8. ~(cn'.out > 0) BY <4>6
      <4>9. QED BY <4>4, <4>5, <4>7, <4>8 DEF RestInv
    <3>8. QED BY <3>1, <3>5, <3>6, <3>7
  <2>3. QED BY <2>1, <2>2
<1>13. ASSUME Flushed PROVE RestInv'
  <2>1. /\ drv' = drv /\ q' = q /\ cn' = cn /\ awake' = awake
        /\ \/ d.pc = "flush" /\ d.sleep
           \/ d.pc \in {"flush", "flush0"} /\ d' = [NewDriver EXCEPT !.pc = NextPhase(d.pc)] BY <1>13 DEF Flushed
  <2>2. Quiet(drv', drv) BY <2>1 DEF Quiet
  <2>3. CASE d.pc = "flush" /\ d.sleep
    <3>1. Resting' => Resting BY <2>3 DEF Resting
    <3>2. QED BY <2>1, <2>2, <3>1, <1>r, RestKept
  <2>4. CASE d.pc \in {"flush", "flush0"} /\ d' = [NewDriver EXCEPT !.pc = NextPhase(d.pc)] BY <2>4, <1>n, BusyKept
  <2>5. QED BY <2>1, <2>3, <2>4
<1>14. ASSUME Woken PROVE RestInv'
  <2>1. d'.pc # "parked" /\ d'.pc # "flush" BY <1>14, <1>t DEF Woken, TaskType
  <2>2. QED BY <2>1, BusyKept
<1>15. ASSUME NetDone PROVE RestInv'
  <2>1. d'.pc # "parked" /\ d'.pc # "flush" BY <1>15, <1>t DEF NetDone, TaskType
  <2>2. QED BY <2>1, BusyKept
<1>16. ASSUME Interrupted PROVE RestInv'
  <2>1. d'.pc # "parked" /\ d'.pc # "flush" BY <1>16, <1>t DEF Interrupted, TaskType
  <2>2. QED BY <2>1, BusyKept
<1>17. ASSUME Connected PROVE RestInv'
  <2>1. d'.pc # "parked" /\ d'.pc # "flush" BY <1>17, <1>t DEF Connected, TaskType
  <2>2. QED BY <2>1, BusyKept
<1>18. CASE Peer \/ SendClose
  <2>1. d'.pc # "parked" /\ d'.pc # "flush" BY <1>18, <1>y, NetSteps DEF NetFrame
  <2>2. QED BY <2>1, BusyKept
<1>19. ASSUME OnConnClose PROVE RestInv'
  <2>1. d'.pc # "parked" /\ d'.pc # "flush" BY <1>19, <1>t DEF OnConnClose, NewDriver, TaskType
  <2>2. QED BY <2>1, BusyKept
<1>20. ASSUME NEW id \in Ids, Call(id) PROVE RestInv'
  <2>1. PICK h \in Halves :
          /\ d' = d /\ q' = q /\ cn' = cn
          /\ \/ drv' = drv /\ awake' = awake
             \/ awake' = awake \ {h} /\ drv' = [drv EXCEPT !.crw = @ \ {h}, !.clw = @ \ {h}] BY <1>20, CallSteps
  <2>2. h # DriverTask BY TasksDiffer
  <2>3. Quiet(drv', drv) BY <2>1, <2>2, <1>t, <1>q, ForgetQuiet
  <2>4. DriverTask \in awake => DriverTask \in awake' BY <2>1, <2>2
  <2>5. QED BY <2>1, <2>3, <2>4, <1>r, <1>d, RestKept
<1>21. ASSUME NEW h \in Halves, Tell(h) PROVE RestInv'
  <2>1. d' = d /\ q' = q /\ cn' = cn /\ ap[h].pc = "tell" BY <1>21 DEF Tell
  <2>2. PICK t : drv' = t[1] /\ awake' = awake \cup t[2] /\ t \in {TellSend(drv, h[1]), TellRecv(drv, h[1])}
    BY <1>21 DEF Tell
  <2>3. \/ drv' = drv /\ t[2] = {}
        \/ t[2] = IF drv.waker = "task" THEN {DriverTask} ELSE {}
    <3>1. h[1] \in Ids BY HalfId
    <3>2. CASE t = TellSend(drv, h[1]) BY <2>2, <3>1, <3>2, <1>t, TellSendFacts
    <3>3. CASE t = TellRecv(drv, h[1]) BY <2>2, <3>1, <3>3, <1>t, TellRecvFacts
    <3>4. QED BY <2>2, <3>2, <3>3
  <2>4. CASE drv' = drv /\ t[2] = {} BY <2>1, <2>2, <2>4, <1>q, <1>r, <1>d, RestKept
  <2>5. CASE t[2] = IF drv.waker = "task" THEN {DriverTask} ELSE {} BY <2>1, <2>2, <2>5, <1>p, <1>w
  <2>6. QED BY <2>3, <2>4, <2>5
<1>22. ASSUME NEW h \in Halves, Check(h) PROVE RestInv'
  <2>1. d' = d /\ q' = q /\ cn' = cn /\ ap[h].pc = "check" BY <1>22 DEF Check
  <2>2. PICK v : v = IF ap[h].op = "flush" THEN [drv EXCEPT !.clw = @ \cup {h}] ELSE PollError(drv, h) OBVIOUS
  <2>3. h[1] \in Ids /\ h \in Tasks BY HalfId
  <2>4. v \in DrvType /\ Quiet(v, drv)
    <3>1. CASE ap[h].op = "flush" BY <2>2, <2>3, <3>1, <1>t DEF DrvType, Quiet
    <3>2. CASE ap[h].op # "flush" BY <2>2, <2>3, <3>2, <1>t, PollErrorFacts, PollErrorQuiet
    <3>3. QED BY <3>1, <3>2
  <2>5. \/ drv' = drv /\ awake' = awake
        \/ drv' = v /\ awake' = awake \cup {}
        \/ drv' = TellRecv(v, h[1])[1] /\ awake' = awake \cup TellRecv(v, h[1])[2] BY <1>22, <2>2 DEF Check
  <2>6. CASE drv' = drv /\ awake' = awake BY <2>1, <2>6, <1>q, <1>r, <1>d, RestKept
  <2>7. CASE drv' = v /\ awake' = awake \cup {} BY <2>1, <2>4, <2>7, <1>r, <1>d, RestKept
  <2>8. CASE drv' = TellRecv(v, h[1])[1] /\ awake' = awake \cup TellRecv(v, h[1])[2]
    <3>1. \/ drv' = v /\ TellRecv(v, h[1])[2] = {}
          \/ TellRecv(v, h[1])[2] = IF v.waker = "task" THEN {DriverTask} ELSE {} BY <2>3, <2>4, <2>8, TellRecvFacts
    <3>2. CASE drv' = v /\ TellRecv(v, h[1])[2] = {} BY <2>1, <2>4, <2>8, <3>2, <1>r, <1>d, RestKept
    <3>3. CASE TellRecv(v, h[1])[2] = IF v.waker = "task" THEN {DriverTask} ELSE {}
      <4>1. v.waker = drv.waker BY <2>4 DEF Quiet
      <4>2. awake' = awake \cup (IF drv.waker = "task" THEN {DriverTask} ELSE {}) BY <2>8, <3>3, <4>1
      <4>3. QED BY <2>1, <4>2, <1>p, <1>w
    <3>4. QED BY <3>1, <3>2, <3>3
  <2>9. QED BY <2>5, <2>6, <2>7, <2>8
<1>23. ASSUME NEW o \in Openers, Open(o) PROVE RestInv'
  <2>1. PICK k : k = o[2] OBVIOUS
  <2>2. k \in Kinds /\ o \in Tasks /\ o # DriverTask /\ drv.open \in [Kinds -> OpenType]
    BY <2>1, <1>t, TasksDiffer DEF Openers, Tasks, DrvType
  <2>3. d' = d /\ q' = q /\ cn' = cn /\ one[HandshakeTask] = "ok" BY <1>23 DEF Open
  <2>4. q.status # "handshake" BY <2>3, <1>e DEF EarlyInv
  <2>5. CASE drv' = drv /\ awake' = awake \ {o}
    <3>1. DriverTask \in awake => DriverTask \in awake' BY <2>2, <2>5
    <3>2. QED BY <2>3, <2>5, <3>1, <1>q, <1>r, <1>d, RestKept
  <2>6. CASE /\ drv' = PollError([drv EXCEPT !.open[k].wakers = @ \cup {o}], o) /\ awake' = awake \ {o}
    <3>1. PICK x : x = [drv.open[k] EXCEPT !.wakers = @ \cup {o}] OBVIOUS
    <3>2. x \in OpenType /\ x.create = drv.open[k].create BY <3>1, <2>2 DEF OpenType
    <3>3. PICK w : w = [drv EXCEPT !.open[k].wakers = @ \cup {o}] OBVIOUS
    <3>4. w = [drv EXCEPT !.open = [drv.open EXCEPT ![k] = x]] BY <3>1, <3>3, <2>2, <1>t DEF DrvType
    <3>5. w \in DrvType /\ w.open = [drv.open EXCEPT ![k] = x] BY <3>2, <3>4, <2>2, <1>t DEF DrvType
    <3>6. \A j \in Kinds : w.open[j].create = drv.open[j].create BY <3>2, <3>5, <2>2
    <3>7. /\ w.send = drv.send /\ w.recv = drv.recv /\ w.creq = drv.creq
          /\ w.waker = drv.waker /\ w.crw = drv.crw BY <3>4, <1>t DEF DrvType
    <3>8. Quiet(drv', w) BY <2>6, <3>3, <3>5, <2>2, PollErrorQuiet
    <3>9. Quiet(drv', drv) BY <3>6, <3>7, <3>8 DEF Quiet
    <3>10. DriverTask \in awake => DriverTask \in awake' BY <2>2, <2>6
    <3>11. QED BY <2>3, <3>9, <3>10, <1>r, <1>d, RestKept
  <2>7. CASE \E e : awake' = (awake \ {o}) \cup Wake([PollError(drv, o) EXCEPT !.open[k] = e])[2]
    <3>1. PICK e : awake' = (awake \ {o}) \cup Wake([PollError(drv, o) EXCEPT !.open[k] = e])[2] BY <2>7
    <3>2. PICK v : v = PollError(drv, o) OBVIOUS
    <3>3. v \in DrvType /\ v.waker = drv.waker BY <3>2, <2>2, <1>t, PollErrorFacts, PollErrorQuiet DEF Quiet
    <3>4. [v EXCEPT !.open[k] = e].waker = drv.waker BY <3>3 DEF DrvType
    <3>5. awake' = (awake \ {o}) \cup (IF drv.waker = "task" THEN {DriverTask} ELSE {})
      BY <3>1, <3>2, <3>4 DEF Wake, DriverWaker
    <3>6. awake' = (awake \cup (IF drv.waker = "task" THEN {DriverTask} ELSE {})) \ {o} BY <3>5, <2>2
    <3>7. QED BY <2>2, <2>3, <2>4, <3>6, <1>w
  <2>8. QED BY <1>23, <2>1, <2>5, <2>6, <2>7 DEF Open
<1>24. ASSUME PollHandshake PROVE RestInv'
  <2>1. HandshakeTask \in Tasks /\ HandshakeTask # DriverTask BY TasksDiffer DEF Tasks, HandshakeTask
  <2>2. PICK v : v = PollError(drv, HandshakeTask) OBVIOUS
  <2>3. v \in DrvType /\ Quiet(v, drv) BY <2>1, <2>2, <1>t, PollErrorFacts, PollErrorQuiet
  <2>4. /\ d' = d /\ q' = q /\ cn' = cn /\ awake' = awake \ {HandshakeTask}
        /\ drv' = drv \/ drv' = [v EXCEPT !.hsw = @ \cup {HandshakeTask}] BY <1>24, <2>2 DEF PollHandshake
  <2>5. Quiet([v EXCEPT !.hsw = @ \cup {HandshakeTask}], v) BY <2>3 DEF Quiet, DrvType
  <2>6. Quiet(drv', drv) BY <2>3, <2>4, <2>5 DEF Quiet
  <2>7. DriverTask \in awake => DriverTask \in awake' BY <2>1, <2>4
  <2>8. QED BY <2>4, <2>6, <2>7, <1>r, <1>d, RestKept
<1>25. ASSUME PollClosed PROVE RestInv'
  <2>1. /\ d' = d /\ q' = q /\ cn' = cn /\ awake' = awake \ {ClosedTask}
        /\ drv' = drv \/ drv' = [drv EXCEPT !.clw = @ \cup {ClosedTask}] BY <1>25 DEF PollClosed
  <2>2. Quiet(drv', drv) BY <2>1, <1>t DEF Quiet, DrvType
  <2>3. DriverTask \in awake => DriverTask \in awake' BY <2>1, TasksDiffer
  <2>4. QED BY <2>1, <2>2, <2>3, <1>r, <1>d, RestKept
<1>26. ASSUME Close PROVE RestInv'
  <2>1. d' = d /\ q' = q /\ drv' = Abort(drv, "local")[1] /\ awake' = awake \cup Fire(Abort(drv, "local")[2])
    BY <1>26 DEF Close
  <2>2. cn'.out = cn.out /\ cn'.pc = cn.pc BY <1>26, <1>t DEF Close, ConnType
  <2>3. QED BY <2>1, <2>2, <1>y, <1>r, AbortWakes DEF Errors
<1>27. ASSUME DropConnection PROVE RestInv'
  <2>1. d' = d /\ q' = q /\ drv' = Abort(drv, "dropped")[1] /\ awake' = awake \cup Fire(Abort(drv, "dropped")[2])
    BY <1>27 DEF DropConnection
  <2>2. cn'.out = cn.out /\ cn'.pc = cn.pc BY <1>27, <1>t DEF DropConnection, ConnType
  <2>3. QED BY <2>1, <2>2, <1>y, <1>r, AbortWakes DEF Errors
<1>28. ASSUME SendDatagram PROVE RestInv'
  <2>1. d' = d /\ q' = q /\ drv' = drv /\ awake' = awake /\ cn' = [cn EXCEPT !.out = @ + 1, !.pc = "nudge"]
    BY <1>28 DEF SendDatagram
  <2>2. cn'.pc = "nudge" BY <2>1, <1>t DEF ConnType
  <2>3. QED BY <2>1, <2>2, <1>q, <1>r, <1>d, RestKept
<1>29. ASSUME Nudge PROVE RestInv'
  <2>1. d' = d /\ q' = q /\ cn.pc = "nudge" /\ awake' = awake \cup (IF drv.waker = "task" THEN {DriverTask} ELSE {})
    BY <1>29 DEF Nudge, Wake, DriverWaker
  <2>2. q.status # "handshake" BY <2>1, <1>e DEF EarlyInv
  <2>3. QED BY <2>1, <2>2, <1>w
<1>30. ASSUME ReadDatagram PROVE RestInv'
  <2>1. d' = d /\ q' = q /\ drv' = drv /\ awake' = awake /\ cn' = [cn EXCEPT !.in = @ - 1] BY <1>30 DEF ReadDatagram
  <2>2. cn'.pc = cn.pc /\ cn'.out = cn.out BY <2>1, <1>t DEF ConnType
  <2>3. QED BY <2>1, <2>2, <1>q, <1>r, <1>d, RestKept
<1>31. QED BY <1>1, <1>2, <1>3, <1>4, <1>5, <1>6, <1>7, <1>8, <1>9, <1>10, <1>11, <1>12, <1>13, <1>14, <1>15,
    <1>16, <1>17, <1>18, <1>19, <1>20, <1>21, <1>22, <1>23, <1>24, <1>25, <1>26, <1>27, <1>28,
    <1>29, <1>30 DEF Next, DriverStep, App

\* During the handshake nothing happens that would need a handle.
LEMMA EarlyStep ==
  ASSUME TypeOK, EarlyInv, Next
  PROVE  EarlyInv'
<1>t. /\ drv \in DrvType /\ q \in QuicheType /\ d \in TaskType /\ cn \in ConnType
      /\ one \in [{HandshakeTask, ClosedTask} -> {"none", "wait", "ok", "err"}] BY DEF TypeOK
<1>y. TypeOK OBVIOUS
<1>e. EarlyInv OBVIOUS
<1>1. ASSUME NEW id \in Ids, ReadKnown(id) PROVE EarlyInv'
  <2>1. d.pc \in {"reads"} BY <1>1 DEF ReadKnown
  <2>2. q'.status = q.status BY <1>1, <1>t DEF ReadKnown, QuicheType
  <2>3. QED BY <2>1, <2>2, <1>e DEF EarlyInv
<1>2. ASSUME NEW id \in Ids, AcceptUni(id) PROVE EarlyInv'
  <2>1. d.pc \in {"reads"} BY <1>2 DEF AcceptUni
  <2>2. q'.status = q.status BY <1>2, <1>t DEF AcceptUni, QuicheType
  <2>3. QED BY <2>1, <2>2, <1>e DEF EarlyInv
<1>3. ASSUME NEW id \in Ids, AcceptBi(id) PROVE EarlyInv'
  <2>1. d.pc \in {"reads"} BY <1>3 DEF AcceptBi
  <2>2. q'.status = q.status BY <1>3, <1>t DEF AcceptBi, QuicheType
  <2>3. QED BY <2>1, <2>2, <1>e DEF EarlyInv
<1>4. ASSUME NEW id \in Ids, WriteKnown(id) PROVE EarlyInv'
  <2>1. d.pc \in {"writes"} BY <1>4 DEF WriteKnown
  <2>2. q'.status = q.status
    <3>1. FlushSendOf(id, WritePopped(id), d) BY <1>4 DEF WriteKnown
    <3>2. q' = q \/ \E c : q' = [q EXCEPT !.credit = c] BY <3>1, <1>y, PoppedFacts, FlushSendEffect
    <3>3. QED BY <3>2, <1>t DEF QuicheType
  <2>3. QED BY <2>1, <2>2, <1>e DEF EarlyInv
<1>5. ASSUME NEW id \in Ids, WriteGone(id) PROVE EarlyInv'
  <2>1. d.pc \in {"writes"} BY <1>5 DEF WriteGone
  <2>2. q'.status = q.status BY <1>5, <1>t DEF WriteGone, QuicheType
  <2>3. QED BY <2>1, <2>2, <1>e DEF EarlyInv
<1>6. ASSUME NEW id \in Ids, FlushRecv(id) PROVE EarlyInv'
  <2>1. d.pc \in {"flush", "flush0"} BY <1>6 DEF FlushRecv
  <2>2. q'.status = q.status BY <1>6, <1>t DEF FlushRecv, QuicheType
  <2>3. QED BY <2>1, <2>2, <1>e DEF EarlyInv
<1>7. ASSUME NEW id \in Ids, FlushSend(id) PROVE EarlyInv'
  <2>1. d.pc \in {"flush", "flush0"} BY <1>7 DEF FlushSend
  <2>2. q'.status = q.status
    <3>1. q' = q \/ \E c : q' = [q EXCEPT !.credit = c] BY <1>7 DEF FlushSend, FlushSendOf
    <3>2. QED BY <3>1, <1>t DEF QuicheType
  <2>3. QED BY <2>1, <2>2, <1>e DEF EarlyInv
<1>8. ASSUME ReadDatagrams PROVE EarlyInv'
  <2>1. d.pc \in {"reads"} BY <1>8 DEF ReadDatagrams
  <2>2. q'.status = q.status BY <1>8, <1>t DEF ReadDatagrams, QuicheType
  <2>3. QED BY <2>1, <2>2, <1>e DEF EarlyInv
<1>9. ASSUME WriteDatagrams PROVE EarlyInv'
  <2>1. d.pc \in {"writes"} BY <1>9 DEF WriteDatagrams
  <2>2. q'.status = q.status BY <1>9, <1>t DEF WriteDatagrams, QuicheType
  <2>3. QED BY <2>1, <2>2, <1>e DEF EarlyInv
<1>10. ASSUME PollClose PROVE EarlyInv'
  <2>1. q'.status \in {"closing", "open", "draining"} BY <1>10, <1>t DEF PollClose, QuicheType
  <2>2. QED BY <2>1 DEF EarlyInv
<1>11. ASSUME PollEarly PROVE EarlyInv'
  <2>0. SUFFICES ASSUME q.status = "handshake" PROVE EarlyInv' BY <1>11 DEF PollEarly, EarlyInv
  <2>a. /\ ~drv.est /\ one[HandshakeTask] # "ok" /\ d.pc \in {"net", "poll", "parked"}
        /\ \A h \in Halves : ap[h].pc = "none"
        /\ \A o \in Openers : op[o] = "none"
        /\ drv.send = {} /\ drv.recv = {} /\ \A k \in Kinds : drv.open[k].create = <<>>
        /\ cn.out = 0 /\ cn.pc = "idle" BY <2>0, <1>e DEF EarlyInv
  <2>1. drv' = drv \/ \E S : drv' = [drv EXCEPT !.crw = S] BY <1>11 DEF PollEarly, Registered
  <2>2. drv'.est = drv.est /\ drv'.send = drv.send /\ drv'.recv = drv.recv /\ drv'.open = drv.open
    BY <2>1, <1>t DEF DrvType
  <2>3. d'.pc = "parked" /\ one' = one /\ ap' = ap /\ op' = op /\ cn' = cn BY <1>11, <1>t DEF PollEarly, TaskType
  <2>z. QED BY <2>2, <2>3, <2>a DEF EarlyInv
<1>12. ASSUME NEW due \in KeepAliveDue, PollMain(due) PROVE EarlyInv'
  <2>1. q.status # "handshake" /\ (q' = q \/ \E l : q' = [q EXCEPT !.left = l]) BY <1>12 DEF PollMain
  <2>2. q'.status = q.status BY <2>1, <1>t DEF QuicheType
  <2>3. QED BY <2>1, <2>2 DEF EarlyInv
<1>13. ASSUME Flushed PROVE EarlyInv'
  <2>1. d.pc \in {"flush", "flush0"} BY <1>13 DEF Flushed
  <2>2. q'.status = q.status BY <1>13, <1>t DEF Flushed, QuicheType
  <2>3. QED BY <2>1, <2>2, <1>e DEF EarlyInv
<1>14. ASSUME Woken PROVE EarlyInv'
  <2>0. SUFFICES ASSUME q.status = "handshake" PROVE EarlyInv' BY <1>14 DEF Woken, EarlyInv
  <2>a. /\ ~drv.est /\ one[HandshakeTask] # "ok" /\ d.pc \in {"net", "poll", "parked"}
        /\ \A h \in Halves : ap[h].pc = "none"
        /\ \A o \in Openers : op[o] = "none"
        /\ drv.send = {} /\ drv.recv = {} /\ \A k \in Kinds : drv.open[k].create = <<>>
        /\ cn.out = 0 /\ cn.pc = "idle" BY <2>0, <1>e DEF EarlyInv
  <2>1. d'.pc \in {"net", "poll"} BY <1>14, <2>0, <1>t DEF Woken, TaskType
  <2>2. drv' = drv /\ one' = one /\ ap' = ap /\ op' = op /\ cn' = cn BY <1>14 DEF Woken
  <2>z. QED BY <2>1, <2>2, <2>a DEF EarlyInv
<1>15. ASSUME NetDone PROVE EarlyInv'
  <2>0. SUFFICES ASSUME q.status = "handshake" PROVE EarlyInv' BY <1>15 DEF NetDone, EarlyInv
  <2>a. /\ ~drv.est /\ one[HandshakeTask] # "ok" /\ d.pc \in {"net", "poll", "parked"}
        /\ \A h \in Halves : ap[h].pc = "none"
        /\ \A o \in Openers : op[o] = "none"
        /\ drv.send = {} /\ drv.recv = {} /\ \A k \in Kinds : drv.open[k].create = <<>>
        /\ cn.out = 0 /\ cn.pc = "idle" BY <2>0, <1>e DEF EarlyInv
  <2>1. d'.pc \in {"net", "poll"} BY <1>15, <2>0, <1>t DEF NetDone, TaskType
  <2>2. drv' = drv /\ one' = one /\ ap' = ap /\ op' = op /\ cn' = cn BY <1>15 DEF NetDone
  <2>z. QED BY <2>1, <2>2, <2>a DEF EarlyInv
<1>16. ASSUME Interrupted PROVE EarlyInv'
  <2>0. SUFFICES ASSUME q.status = "handshake" PROVE EarlyInv' BY <1>16 DEF Interrupted, EarlyInv
  <2>a. /\ ~drv.est /\ one[HandshakeTask] # "ok" /\ d.pc \in {"net", "poll", "parked"}
        /\ \A h \in Halves : ap[h].pc = "none"
        /\ \A o \in Openers : op[o] = "none"
        /\ drv.send = {} /\ drv.recv = {} /\ \A k \in Kinds : drv.open[k].create = <<>>
        /\ cn.out = 0 /\ cn.pc = "idle" BY <2>0, <1>e DEF EarlyInv
  <2>1. d'.pc \in {"net", "poll"} BY <1>16, <2>0, <1>t DEF Interrupted, TaskType
  <2>2. drv' = drv /\ one' = one /\ ap' = ap /\ op' = op /\ cn' = cn BY <1>16 DEF Interrupted
  <2>z. QED BY <2>1, <2>2, <2>a DEF EarlyInv
<1>17. ASSUME Connected PROVE EarlyInv'
  <2>1. q'.status \in {"closing", "open", "draining"} BY <1>17, <1>t DEF Connected, QuicheType
  <2>2. QED BY <2>1 DEF EarlyInv
<1>18. CASE Peer \/ SendClose BY <1>18, <1>y, NetSteps DEF EarlyInv
<1>19. ASSUME OnConnClose PROVE EarlyInv' BY <1>19 DEF OnConnClose, EarlyInv
<1>20. ASSUME NEW id \in Ids, Call(id) PROVE EarlyInv'
  <2>1. q' = q /\ \E h \in Halves : ap[h].pc # "none" BY <1>20, CallSteps
  <2>2. QED BY <2>1, <1>e DEF EarlyInv
<1>21. ASSUME NEW h \in Halves, Tell(h) PROVE EarlyInv'
  <2>1. q' = q /\ \E x \in Halves : ap[x].pc # "none" BY <1>21 DEF Tell
  <2>2. QED BY <2>1, <1>e DEF EarlyInv
<1>22. ASSUME NEW h \in Halves, Check(h) PROVE EarlyInv'
  <2>1. q' = q /\ \E x \in Halves : ap[x].pc # "none" BY <1>22 DEF Check
  <2>2. QED BY <2>1, <1>e DEF EarlyInv
<1>23. ASSUME NEW o \in Openers, Open(o) PROVE EarlyInv'
  <2>1. q' = q /\ one[HandshakeTask] = "ok" BY <1>23 DEF Open
  <2>2. QED BY <2>1, <1>e DEF EarlyInv
<1>24. ASSUME PollHandshake PROVE EarlyInv'
  <2>0. SUFFICES ASSUME q.status = "handshake" PROVE EarlyInv' BY <1>24 DEF PollHandshake, EarlyInv
  <2>a. /\ ~drv.est /\ one[HandshakeTask] # "ok" /\ d.pc \in {"net", "poll", "parked"}
        /\ \A h \in Halves : ap[h].pc = "none"
        /\ \A o \in Openers : op[o] = "none"
        /\ drv.send = {} /\ drv.recv = {} /\ \A k \in Kinds : drv.open[k].create = <<>>
        /\ cn.out = 0 /\ cn.pc = "idle" BY <2>0, <1>e DEF EarlyInv
  <2>1. PICK v : v = PollError(drv, HandshakeTask) OBVIOUS
  <2>2. PICK x \in {"err", "wait"} : one' = [one EXCEPT ![HandshakeTask] = x] BY <1>24, <2>a DEF PollHandshake
  <2>3. one'[HandshakeTask] # "ok" BY <2>2, <1>t
  <2>4. drv' = drv \/ drv' = [v EXCEPT !.hsw = @ \cup {HandshakeTask}] BY <1>24, <2>1 DEF PollHandshake
  <2>5. v \in DrvType BY <2>1, <1>t, PollErrorFacts DEF Tasks, HandshakeTask
  <2>6. PICK aa \in SUBSET Tasks, bb \in SUBSET Tasks :
          /\ PollError(drv, HandshakeTask) = [drv EXCEPT !.crw = aa, !.clw = bb]
          /\ drv.crw \subseteq aa /\ drv.clw \subseteq bb
    <3>1. HandshakeTask \in Tasks BY DEF Tasks, HandshakeTask
    <3>2. QED BY <3>1, <1>t, PollErrorFacts, Zenon
  <2>7. v.est = drv.est /\ v.send = drv.send /\ v.recv = drv.recv /\ v.open = drv.open BY <2>1, <2>6, <1>t DEF DrvType
  <2>8. drv'.est = drv.est /\ drv'.send = drv.send /\ drv'.recv = drv.recv /\ drv'.open = drv.open
    BY <2>4, <2>5, <2>7 DEF DrvType
  <2>9. ap' = ap /\ op' = op /\ d' = d /\ cn' = cn BY <1>24 DEF PollHandshake
  <2>z. QED BY <2>3, <2>8, <2>9, <2>a DEF EarlyInv
<1>25. ASSUME PollClosed PROVE EarlyInv'
  <2>1. q' = q /\ one[HandshakeTask] = "ok" BY <1>25 DEF PollClosed
  <2>2. QED BY <2>1, <1>e DEF EarlyInv
<1>26. ASSUME Close PROVE EarlyInv'
  <2>1. q' = q /\ one[HandshakeTask] = "ok" BY <1>26 DEF Close
  <2>2. QED BY <2>1, <1>e DEF EarlyInv
<1>27. ASSUME DropConnection PROVE EarlyInv'
  <2>0. SUFFICES ASSUME q.status = "handshake" PROVE EarlyInv' BY <1>27 DEF DropConnection, EarlyInv
  <2>a. /\ ~drv.est /\ one[HandshakeTask] # "ok" /\ d.pc \in {"net", "poll", "parked"}
        /\ \A h \in Halves : ap[h].pc = "none"
        /\ \A o \in Openers : op[o] = "none"
        /\ drv.send = {} /\ drv.recv = {} /\ \A k \in Kinds : drv.open[k].create = <<>>
        /\ cn.out = 0 /\ cn.pc = "idle" BY <2>0, <1>e DEF EarlyInv
  <2>1. drv' = Abort(drv, "dropped")[1] /\ one' = one /\ ap' = ap /\ op' = op /\ d' = d BY <1>27 DEF DropConnection
  <2>2. cn'.out = cn.out /\ cn'.pc = cn.pc BY <1>27, <1>t DEF DropConnection, ConnType
  <2>3. drv' = drv \/ \E c, w : drv' = [drv EXCEPT !.creq = c, !.crw = w] BY <2>1 DEF Abort
  <2>4. drv'.est = drv.est /\ drv'.send = drv.send /\ drv'.recv = drv.recv /\ drv'.open = drv.open
    BY <2>3, <1>t DEF DrvType
  <2>z. QED BY <2>1, <2>2, <2>4, <2>a DEF EarlyInv
<1>28. ASSUME SendDatagram PROVE EarlyInv'
  <2>1. q' = q /\ one[HandshakeTask] = "ok" BY <1>28 DEF SendDatagram
  <2>2. QED BY <2>1, <1>e DEF EarlyInv
<1>29. ASSUME Nudge PROVE EarlyInv'
  <2>1. q' = q /\ cn.pc = "nudge" BY <1>29 DEF Nudge
  <2>2. QED BY <2>1, <1>e DEF EarlyInv
<1>30. ASSUME ReadDatagram PROVE EarlyInv'
  <2>0. SUFFICES ASSUME q.status = "handshake" PROVE EarlyInv' BY <1>30 DEF ReadDatagram, EarlyInv
  <2>a. /\ ~drv.est /\ one[HandshakeTask] # "ok" /\ d.pc \in {"net", "poll", "parked"}
        /\ \A h \in Halves : ap[h].pc = "none"
        /\ \A o \in Openers : op[o] = "none"
        /\ drv.send = {} /\ drv.recv = {} /\ \A k \in Kinds : drv.open[k].create = <<>>
        /\ cn.out = 0 /\ cn.pc = "idle" BY <2>0, <1>e DEF EarlyInv
  <2>1. drv' = drv /\ one' = one /\ ap' = ap /\ op' = op /\ d' = d BY <1>30 DEF ReadDatagram
  <2>2. cn'.out = cn.out /\ cn'.pc = cn.pc BY <1>30, <1>t DEF ReadDatagram, ConnType
  <2>z. QED BY <2>1, <2>2, <2>a DEF EarlyInv
<1>31. QED BY <1>1, <1>2, <1>3, <1>4, <1>5, <1>6, <1>7, <1>8, <1>9, <1>10, <1>11, <1>12, <1>13, <1>14, <1>15,
    <1>16, <1>17, <1>18, <1>19, <1>20, <1>21, <1>22, <1>23, <1>24, <1>25, <1>26, <1>27, <1>28,
    <1>29, <1>30 DEF Next, DriverStep, App

\* DriverAwake: a driver that waits with no waker fired has nothing to do,
\* whatever the handles, the peer and the io loop do in between.
THEOREM DriverNeverSleepsOnWork == Spec => []DriverAwake
<1> DEFINE Inv == TypeOK /\ EarlyInv /\ RestInv
<1>1. Init => Inv
  <2>1. SUFFICES ASSUME Init PROVE EarlyInv /\ RestInv BY TypeInit
  <2>2. /\ d.pc = "net" /\ drv = DriverState /\ cn.out = 0 /\ cn.pc = "idle" /\ one[HandshakeTask] = "none"
        /\ \A h \in Halves : ap[h].pc = "none"
        /\ \A o \in Openers : op[o] = "none" BY <2>1 DEF Init, NewDriver
  <2>3. drv.send = {} /\ drv.recv = {} /\ ~drv.est /\ \A k \in Kinds : drv.open[k].create = <<>>
    BY <2>2 DEF DriverState, DriverOpen
  <2>4. EarlyInv BY <2>2, <2>3 DEF EarlyInv
  <2>5. RestInv BY <2>2 DEF RestInv, Resting
  <2>6. QED BY <2>4, <2>5
<1>2. Inv /\ [Next]_vars => Inv'
  <2>1. SUFFICES ASSUME Inv, [Next]_vars PROVE Inv' OBVIOUS
  <2>2. TypeOK' BY <2>1, TypeStep
  <2>3. CASE Next BY <2>1, <2>2, <2>3, EarlyStep, RestStep
  <2>4. CASE UNCHANGED vars BY <2>1, <2>2, <2>4 DEF vars, EarlyInv, RestInv, Resting
  <2>5. QED BY <2>1, <2>3, <2>4
<1>3. Inv => DriverAwake BY DEF DriverAwake, RestInv, Resting
<1>4. QED BY <1>1, <1>2, <1>3, PTL DEF Spec

-----------------------------------------------------------------------------
(* What a stream owes its handles                                           *)

\* The two handles of a stream.
SendOf(id) == <<id, "send">>
RecvOf(id) == <<id, "recv">>

\* A call that looked at its stream, found nothing, and has not been woken since.
Waits(h) == ap[h].pc \in {"check", "wait"} /\ h \notin awake

\* This end is the initiator of the stream.
Mine(id) == IsServer(id) = Server

\* The ids given out are of the right kind and below the next one.
CreatedInv == \A k \in Kinds :
  /\ drv.open[k].next % 4 = FirstId(k, Server)
  /\ \A i \in Created(k) : i \in Nat /\ i % 4 = FirstId(k, Server) /\ i < drv.open[k].next

\* Neither quiche nor the driver has seen the stream.
Untouched(id) ==
  /\ ~qs[id].made /\ id \notin sends /\ id \notin recvs
  /\ ~ss[id].closed /\ ~rs[id].closed /\ ~qs[id].fin /\ ~qs[id].rst /\ ~qs[id].stopped

\* A stream that waits to be created is untouched, one whose id was not given out
\* has no handle either; quiche reports only streams that exist; and the driver
\* has only sides that a stream of that kind has.
NewOne(id) ==
  /\ id \in Created(Kind(id)) => Untouched(id) /\ id \notin d.recv \cup d.send
  /\ Mine(id) /\ id >= drv.open[Kind(id)].next =>
       /\ Untouched(id) /\ id \notin drv.recv \cup drv.send \cup d.recv \cup d.send
       /\ \A h \in Halves : h[1] = id => ap[h].pc = "none"
  /\ qs[id].rarmed => qs[id].made /\ ~qs[id].rend
  /\ id \in sends => SendOf(id) \in Halves
  /\ id \in recvs \/ qs[id].rarmed => RecvOf(id) \in Halves

\* Nobody has used the stream.
Blank(id) ==
  /\ ss[id] = NewSend /\ ~qs[id].stopped /\ ~qs[id].fin /\ ~qs[id].rst /\ id \notin sends
  /\ \A h \in Halves : h[1] = id => ap[h].pc = "none"

\* The driver knows the receiving side of a stream from its creation or from the
\* first event to the end that quiche reports, so it accepts a stream only once.
FreshOne(id) ==
  /\ RecvOf(id) \in Halves /\ id \notin recvs /\ ~qs[id].rend /\ d.pc # "done"
  /\ id \notin Created(Kind(id))
  => Blank(id)

\* The send side.  A closed stream says why; the driver has every other one that
\* has a handle; a call that waits has left its waker and has a reason to wait;
\* and a stream without capacity while there is credit is about to be flushed.
SendOne(id) ==
  SendOf(id) \in Halves =>
  LET st == ss[id]
      h == SendOf(id)
  IN /\ st.closed => st.reset \/ st.stop \/ (st.fin /\ st.queued = 0)
     /\ st.stop => st.closed
     /\ id \in sends => ~st.closed /\ qs[id].made /\ ~qs[id].fin /\ ~qs[id].rst
     /\ ap[h].pc # "none" /\ ~st.closed => id \in sends \cup Created(Kind(id)) \/ d.pc = "done"
     /\ Waits(h) =>
          /\ st.blocked /\ ~Dead(st) /\ ap[h].op \in {"write", "flush", "closed"}
          /\ ap[h].op = "write" => st.cap = 0 /\ ~st.fin
          /\ ap[h].op = "flush" => st.queued > 0
          /\ ap[h].op = "closed" => ~st.closed
     /\ /\ id \in sends /\ drv.creq = "none" /\ ~st.fin /\ ~st.reset /\ st.cap = 0
        /\ q.credit > 0 \/ qs[id].stopped
        => qs[id].armed \/ id \in drv.send \cup d.send \/ ap[h].pc = "tell"

\* The receive side, likewise; what quiche has for a read that sleeps is about to
\* be read.
RecvOne(id) ==
  RecvOf(id) \in Halves =>
  LET st == rs[id]
      h == RecvOf(id)
  IN /\ st.closed => (st.reset \/ st.stop \/ st.fin) /\ qs[id].rend
     /\ id \in recvs => ~st.closed
     /\ ap[h].pc # "none" /\ ~st.closed => id \in recvs \cup Created(Kind(id)) \/ d.pc = "done"
     /\ Waits(h) =>
          /\ st.blocked /\ ~Dead(st) /\ ap[h].op \in {"read", "closed"}
          /\ ap[h].op = "read" => st.queued = 0 /\ ~st.fin /\ st.max > 0
          /\ ap[h].op = "closed" => ~(st.fin /\ st.queued = 0)
     /\ /\ Sleeping(h) /\ ap[h].op = "read" /\ drv.creq = "none" /\ d.pc # "done"
        /\ qs[id].rbuf > 0 \/ qs[id].rfin \/ qs[id].rrst
        => qs[id].rarmed \/ id \in drv.recv \cup d.recv

StreamOne(id) == NewOne(id) /\ FreshOne(id) /\ SendOne(id) /\ RecvOne(id)

\* The sets the driver took are gone through before it polls again.
TakenInv == d.pc \notin {"flush", "flush0"} => d.recv = {} /\ d.send = {}

\* All of it.
ServeInv == CreatedInv /\ TakenInv /\ \A id \in Ids : StreamOne(id)

\* A handle that does nothing, or is taken out of the accept channel.
SameHandle(h) ==
  /\ ap'[h].op = ap[h].op
  /\ ap'[h].pc = ap[h].pc \/ (ap[h].pc = "queued" /\ ap'[h].pc = "idle")

\* A step that does not concern a stream, or only by waking its handles.
SameAt(id) ==
  /\ ss'[id] = ss[id] /\ rs'[id] = rs[id] /\ qs'[id] = qs[id]
  /\ \A h \in Halves : h[1] = id => SameHandle(h) /\ (h \in awake => h \in awake')
  /\ (id \in sends' <=> id \in sends) /\ (id \in recvs' <=> id \in recvs)
  /\ (id \in drv'.send <=> id \in drv.send) /\ (id \in drv'.recv <=> id \in drv.recv)
  /\ (id \in d'.send => id \in d.send) /\ (id \in d'.recv => id \in d.recv)
  /\ drv'.creq = "none" => drv.creq = "none" /\ (id \in d.send => id \in d'.send)
                                             /\ (id \in d.recv => id \in d'.recv)
  /\ (id \in (Created(Kind(id)))' <=> id \in Created(Kind(id)))
  /\ drv'.open[Kind(id)].next >= drv.open[Kind(id)].next
  /\ q'.credit <= q.credit /\ (d'.pc = "done" <=> d.pc = "done")

\* The ids of streams are numbers.
LEMMA IdFacts ==
  /\ Ids \subseteq Nat
  /\ \A id \in Ids : Kind(id) \in Kinds
  /\ \A h \in Halves : h[1] \in Ids /\ (h = SendOf(h[1]) \/ h = RecvOf(h[1]))
  /\ \A id : SendOf(id) # RecvOf(id) /\ SendOf(id)[1] = id /\ RecvOf(id)[1] = id
<1>1. Ids \subseteq Nat
  <2>1. LocalIds \subseteq Nat BY DEF LocalIds, FirstId
  <2>2. \A p \in Plans : p.peer \subseteq Nat BY PeerIds
  <2>3. QED BY <2>1, <2>2 DEF Ids
<1>2. \A id \in Ids : Kind(id) \in Kinds BY DEF Kind, Kinds
<1>3. ASSUME NEW h \in Halves PROVE h[1] \in Ids /\ (h = SendOf(h[1]) \/ h = RecvOf(h[1])) BY DEF Halves, SendOf, RecvOf
<1>4. \A id : SendOf(id) # RecvOf(id) /\ SendOf(id)[1] = id /\ RecvOf(id)[1] = id BY DEF SendOf, RecvOf
<1>5. QED BY <1>1, <1>2, <1>3, <1>4

\* What does not concern a stream leaves what is known of it.
LEMMA SameAtKeeps ==
  ASSUME TypeOK, TypeOK', NEW id \in Ids, StreamOne(id), SameAt(id)
  PROVE  StreamOne(id)'
<1>1. /\ q.credit \in Nat /\ q'.credit \in Nat /\ ss[id] \in SendType BY DEF TypeOK, QuicheType
<1>2. ASSUME NEW h \in Halves, h[1] = id
      PROVE  /\ ap'[h].op = ap[h].op /\ (ap'[h].pc = "none" <=> ap[h].pc = "none")
             /\ ap[h].pc = "tell" => ap'[h].pc = "tell"
             /\ ((Waits(h))' => Waits(h)) /\ ((Sleeping(h))' => Sleeping(h))
  BY <1>2 DEF SameAt, SameHandle, Waits, Sleeping
<1>n. /\ id \in Nat /\ drv.open[Kind(id)].next \in Nat /\ drv'.open[Kind(id)].next \in Nat
  BY IdFacts DEF TypeOK, DrvType, OpenType
<1>o. Mine(id) /\ id >= drv'.open[Kind(id)].next => id >= drv.open[Kind(id)].next BY <1>n DEF SameAt
<1>3. SendOf(id) \in Halves => SendOf(id)[1] = id BY IdFacts
<1>4. RecvOf(id) \in Halves => RecvOf(id)[1] = id BY IdFacts
<1>5. (NewOne(id))' BY <1>2, <1>o DEF StreamOne, NewOne, SameAt, Untouched, Mine
<1>6. (FreshOne(id))' BY <1>2 DEF StreamOne, FreshOne, SameAt, Blank
<1>7. (SendOne(id))' BY <1>1, <1>2, <1>3 DEF StreamOne, SendOne, SameAt
<1>8. (RecvOne(id))' BY <1>2, <1>4 DEF StreamOne, RecvOne, SameAt
<1>9. QED BY <1>5, <1>6, <1>7, <1>8 DEF StreamOne

-----------------------------------------------------------------------------
(* Steps that concern no stream                                             *)

\* DriverState but for the latches, the waker and the capacities.
SameWork(w, v) ==
  /\ w.send = v.send /\ w.recv = v.recv /\ (w.creq = "none" => v.creq = "none")
  /\ \A k \in Kinds : w.open[k].create = v.open[k].create /\ w.open[k].next = v.open[k].next

\* A step that concerns no stream.
Still ==
  /\ UNCHANGED <<ss, rs, ap, sends, recvs, qs>> /\ q'.credit = q.credit
  /\ SameWork(drv', drv) /\ d'.send = d.send /\ d'.recv = d.recv
  /\ (d'.pc = "done" <=> d.pc = "done")
  /\ \A h \in Halves : h \in awake => h \in awake'

\* Nothing changes for any stream.
LEMMA StillSame ==
  ASSUME TypeOK, Still, NEW id \in Ids
  PROVE  SameAt(id)
<1>1. Kind(id) \in Kinds /\ q.credit \in Nat BY IdFacts DEF TypeOK, QuicheType
<1>2. (Created(Kind(id)))' = Created(Kind(id)) BY <1>1 DEF Still, SameWork, Created
<1>3. drv.open[Kind(id)].next \in Nat BY <1>1, SMTT(30) DEF TypeOK, DrvType, OpenType
<1>4. QED BY <1>1, <1>2, <1>3 DEF Still, SameWork, SameAt, SameHandle

\* The helpers leave the work for the driver alone.
LEMMA WorkFacts ==
  ASSUME NEW v \in DrvType
  PROVE  /\ SameWork(v, v)
         /\ \A err \in Errors : SameWork(Abort(v, err)[1], v)
         /\ \A t \in Tasks : SameWork(PollError(v, t), v)
         /\ \A a, b \in SUBSET Tasks : SameWork([v EXCEPT !.crw = a, !.clw = b], v)
         /\ \A a, b : SameWork([v EXCEPT !.est = a, !.hsw = b], v)
         /\ \A a : SameWork([v EXCEPT !.crw = a], v) /\ SameWork([v EXCEPT !.waker = a], v)
         /\ \A a, b : SameWork([v EXCEPT !.closed = a, !.clw = b], v)
<1>1. SameWork(v, v) BY DEF SameWork
<1>2. ASSUME NEW err \in Errors PROVE SameWork(Abort(v, err)[1], v)
  <2>1. \/ Abort(v, err)[1] = v
        \/ v.creq = "none" /\ Abort(v, err)[1] = [v EXCEPT !.creq = err, !.crw = {}] BY AbortFacts
  <2>2. CASE v.creq = "none" /\ Abort(v, err)[1] = [v EXCEPT !.creq = err, !.crw = {}] BY <2>2 DEF SameWork, DrvType
  <2>3. QED BY <2>1, <2>2, <1>1
<1>3. ASSUME NEW t \in Tasks PROVE SameWork(PollError(v, t), v)
  <2>1. PICK a \in SUBSET Tasks, b \in SUBSET Tasks :
          /\ PollError(v, t) = [v EXCEPT !.crw = a, !.clw = b]
          /\ v.crw \subseteq a /\ v.clw \subseteq b BY <1>3, PollErrorFacts, Zenon
  <2>2. QED BY <2>1 DEF SameWork, DrvType
<1>4. ASSUME NEW a, NEW b
      PROVE  /\ SameWork([v EXCEPT !.crw = a, !.clw = b], v) /\ SameWork([v EXCEPT !.est = a, !.hsw = b], v)
             /\ SameWork([v EXCEPT !.crw = a], v) /\ SameWork([v EXCEPT !.waker = a], v)
             /\ SameWork([v EXCEPT !.closed = a, !.clw = b], v) BY DEF SameWork, DrvType
<1>5. QED BY <1>1, <1>2, <1>3, <1>4

\* Steps of the driver, the network and the connection that concern no stream.
LEMMA StillDriver ==
  ASSUME TypeOK,
         ReadDatagrams \/ WriteDatagrams \/ PollClose \/ PollEarly \/ Flushed \/ Woken
           \/ Interrupted \/ NetDone \/ Connected \/ SendClose
  PROVE  Still
<1>t. drv \in DrvType /\ q \in QuicheType /\ d \in TaskType BY DEF TypeOK
<1>h. \A h \in Halves : h # DriverTask BY TasksDiffer
<1>0. SameWork(drv, drv) BY <1>t, WorkFacts
<1>1. ASSUME ReadDatagrams PROVE Still BY <1>1, <1>t, <1>0 DEF ReadDatagrams, Still, QuicheType, TaskType
<1>2. ASSUME WriteDatagrams PROVE Still BY <1>2, <1>t, <1>0 DEF WriteDatagrams, Still, QuicheType, TaskType
<1>3. ASSUME PollClose PROVE Still BY <1>3, <1>t, <1>0, <1>h DEF PollClose, Still, QuicheType, TaskType
<1>4. ASSUME PollEarly PROVE Still
  <2>1. SameWork(drv', drv) BY <1>4, <1>t, WorkFacts DEF PollEarly, Registered
  <2>2. QED BY <1>4, <2>1, <1>t, <1>h DEF PollEarly, Still, QuicheType, TaskType
<1>5. ASSUME Flushed PROVE Still
  <2>1. /\ UNCHANGED <<ss, rs, ap, sends, recvs, qs, q, drv, awake>>
        /\ d.recv = {} /\ d.send = {} /\ d.pc \in {"flush", "flush0"}
        /\ d' = [NewDriver EXCEPT !.pc = IF d.pc = "flush" /\ d.sleep THEN "parked"
                                         ELSE NextPhase(d.pc)] BY <1>5 DEF Flushed
  <2>2. d'.recv = {} /\ d'.send = {} /\ d'.pc # "done" BY <2>1 DEF NewDriver, NextPhase
  <2>3. QED BY <2>1, <2>2, <1>0 DEF Still
<1>6. ASSUME Woken PROVE Still BY <1>6, <1>t, <1>0 DEF Woken, Still, TaskType
<1>7. ASSUME Interrupted PROVE Still BY <1>7, <1>t, <1>0 DEF Interrupted, Still, TaskType
<1>8. ASSUME NetDone PROVE Still BY <1>8, <1>t, <1>0 DEF NetDone, Still, TaskType
<1>9. ASSUME Connected PROVE Still
  <2>1. SameWork(drv', drv) BY <1>9, <1>t, WorkFacts DEF Connected
  <2>2. QED BY <1>9, <2>1, <1>t DEF Connected, Still, QuicheType, TaskType
<1>10. ASSUME SendClose PROVE Still BY <1>10, <1>t, <1>0 DEF SendClose, NetFrame, Still, QuicheType, TaskType
<1>11. QED BY <1>1, <1>2, <1>3, <1>4, <1>5, <1>6, <1>7, <1>8, <1>9, <1>10

\* Steps of the peer and of the application that concern no stream.
LEMMA StillOthers ==
  ASSUME TypeOK,
         (\E k \in Kinds : PeerMaxStreams(k)) \/ PeerDatagram \/ PeerClose \/ Timeout
           \/ PollHandshake \/ PollClosed \/ Close \/ DropConnection
           \/ SendDatagram \/ Nudge \/ ReadDatagram
  PROVE  Still
<1>t. drv \in DrvType /\ q \in QuicheType /\ d \in TaskType BY DEF TypeOK
<1>h. \A h \in Halves : h # HandshakeTask /\ h # ClosedTask BY TasksDiffer
<1>0. SameWork(drv, drv) BY <1>t, WorkFacts
<1>e. "local" \in Errors /\ "dropped" \in Errors /\ HandshakeTask \in Tasks /\ ClosedTask \in Tasks
  BY DEF Errors, Tasks, HandshakeTask, ClosedTask
<1>1. ASSUME NEW k \in Kinds, PeerMaxStreams(k) PROVE Still
  BY <1>1, <1>t, <1>0 DEF PeerMaxStreams, NetFrame, Still, QuicheType
<1>2. ASSUME PeerDatagram PROVE Still BY <1>2, <1>t, <1>0 DEF PeerDatagram, NetFrame, Still, QuicheType
<1>3. ASSUME PeerClose PROVE Still BY <1>3, <1>t, <1>0 DEF PeerClose, NetFrame, Still, QuicheType
<1>4. ASSUME Timeout PROVE Still BY <1>4, <1>t, <1>0 DEF Timeout, NetFrame, Still, QuicheType
<1>5. ASSUME PollHandshake PROVE Still
  <2>1. SameWork(drv', drv)
    <3>1. CASE drv' = drv BY <3>1, <1>0
    <3>2. CASE drv' = [PollError(drv, HandshakeTask) EXCEPT !.hsw = @ \cup {HandshakeTask}]
      <4>1. PICK w \in DrvType : w = PollError(drv, HandshakeTask) /\ SameWork(w, drv)
        BY <1>t, <1>e, WorkFacts, PollErrorFacts
      <4>2. drv' = [w EXCEPT !.hsw = @ \cup {HandshakeTask}] BY <3>2, <4>1
      <4>3. QED BY <4>1, <4>2 DEF SameWork, DrvType
    <3>3. QED BY <1>5, <3>1, <3>2 DEF PollHandshake
  <2>2. QED BY <1>5, <2>1, <1>h DEF PollHandshake, Still
<1>6. ASSUME PollClosed PROVE Still
  <2>1. SameWork(drv', drv) BY <1>6, <1>t, <1>0 DEF PollClosed, SameWork, DrvType
  <2>2. QED BY <1>6, <2>1, <1>h DEF PollClosed, Still
<1>7. ASSUME Close PROVE Still
  <2>1. SameWork(drv', drv) BY <1>7, <1>t, <1>e, WorkFacts DEF Close
  <2>2. QED BY <1>7, <2>1 DEF Close, Still
<1>8. ASSUME DropConnection PROVE Still
  <2>1. SameWork(drv', drv) BY <1>8, <1>t, <1>e, WorkFacts DEF DropConnection
  <2>2. QED BY <1>8, <2>1 DEF DropConnection, Still
<1>9. ASSUME SendDatagram PROVE Still BY <1>9, <1>0 DEF SendDatagram, Still
<1>10. ASSUME Nudge PROVE Still
  <2>0. drv' = [drv EXCEPT !.waker = "none"] BY <1>10, <1>t, WakeFacts DEF Nudge
  <2>1. SameWork(drv', drv) BY <2>0, <1>t, WorkFacts
  <2>2. QED BY <1>10, <2>1 DEF Nudge, Still
<1>11. ASSUME ReadDatagram PROVE Still BY <1>11, <1>0 DEF ReadDatagram, Still
<1>12. QED BY <1>1, <1>2, <1>3, <1>4, <1>5, <1>6, <1>7, <1>8, <1>9, <1>10, <1>11

\* So what is known of the streams stays.
LEMMA StillServes ==
  ASSUME TypeOK, TypeOK', ServeInv, Still, TakenInv'
  PROVE  ServeInv'
<1>1. \A id \in Ids : StreamOne(id)' BY StillSame, SameAtKeeps DEF ServeInv
<1>2. CreatedInv'
  <2>1. \A k \in Kinds : (Created(k))' = Created(k) /\ drv'.open[k].next = drv.open[k].next
    BY DEF Still, SameWork, Created
  <2>2. QED BY <2>1 DEF ServeInv, CreatedInv
<1>3. QED BY <1>1, <1>2 DEF ServeInv

-----------------------------------------------------------------------------
(* The shapes of a flush                                                    *)

\* A stream of quiche but for what concerns its send side.
SameRecvSide(kk, k) ==
  /\ kk.made = k.made /\ kk.stopped = k.stopped /\ kk.rbuf = k.rbuf /\ kk.rfin = k.rfin
  /\ kk.rrst = k.rrst /\ kk.rend = k.rend /\ kk.rarmed = k.rarmed

\* A flush of the send side of a stream that is open: quiche refuses the FIN, or
\* the stream ends and its handle is woken, or it has the capacity quiche has,
\* and its handle is woken unless bytes are left over and there is none.
SendShape(st, k, credit, f) ==
  \/ f.err
  \/ /\ ~f.err /\ f.credit <= credit /\ SameRecvSide(f.k, k)
     /\ \/ /\ f.st.closed /\ ~f.st.blocked /\ (f.wake <=> st.blocked)
           /\ f.st.reset \/ f.st.stop \/ (f.st.fin /\ f.st.queued = 0)
           /\ st.reset \/ k.stopped \/ st.fin
        \/ /\ ~f.st.closed /\ ~f.st.reset /\ ~f.st.stop /\ f.st.fin = st.fin
           /\ ~k.stopped /\ f.k.fin = k.fin /\ f.k.rst = k.rst
           /\ f.st.cap = f.credit /\ (st.queued = 0 => f.credit = credit)
           /\ \/ ~f.st.blocked /\ (f.wake <=> st.blocked)
              \/ f.st.queued > 0 /\ f.st.cap = 0 /\ f.st.blocked = st.blocked

LEMMA SendShapes ==
  ASSUME TypeOK, NEW id \in Ids, NEW k \in StreamType, ~ss[id].stop, ~ss[id].closed
  PROVE  SendShape(ss[id], k, q.credit, SendFlush(id, k))
<1>1. PICK st : st = ss[id] OBVIOUS
<1>2. st \in SendType /\ q.credit \in Nat BY <1>1 DEF TypeOK, QuicheType
<1>l. q.credit <= q.credit BY <1>2
<1>3. PICK n : n = IF st.queued < q.credit THEN st.queued ELSE q.credit OBVIOUS
<1>4. PICK rest : rest = st.queued - n OBVIOUS
<1>5. PICK cap : cap = q.credit - n OBVIOUS
<1>6. rest \in Nat /\ cap \in Nat /\ cap <= q.credit /\ (st.queued = 0 => cap = q.credit)
  BY <1>2, <1>3, <1>4, <1>5 DEF SendType
<1>7. PICK sent : sent = [st EXCEPT !.queued = rest] OBVIOUS
<1>8. /\ sent \in SendType /\ sent.fin = st.fin /\ sent.queued = rest /\ sent.blocked = st.blocked
      /\ sent.closed = st.closed /\ sent.reset = st.reset /\ sent.stop = st.stop BY <1>2, <1>6, <1>7 DEF SendType
<1>c. ASSUME NEW s \in SendType, NEW kk \in StreamType, NEW c \in Nat,
             s.closed, s.blocked = st.blocked, s.reset \/ s.stop \/ (s.fin /\ s.queued = 0),
             st.reset \/ k.stopped \/ st.fin, SameRecvSide(kk, k), c <= q.credit,
             SendFlush(id, k) = SendDone(s, kk, c, FALSE)
      PROVE  SendShape(st, k, q.credit, SendFlush(id, k))
  <2>1. PICK b : b = [s EXCEPT !.blocked = FALSE] OBVIOUS
  <2>2. /\ b.closed = s.closed /\ ~b.blocked /\ b.reset = s.reset /\ b.stop = s.stop
        /\ b.fin = s.fin /\ b.queued = s.queued BY <2>1 DEF SendType
  <2>3. PICK f : f = SendFlush(id, k) OBVIOUS
  <2>4. f.st = b /\ f.k = kk /\ f.credit = c /\ ~f.err BY <1>c, <2>1, <2>3 DEF SendDone
  <2>w. f.wake <=> s.blocked
    <3>0. f = SendDone(s, kk, c, FALSE) BY <1>c, <2>3
    <3>1. f.wake = (~FALSE /\ s.blocked) BY <3>0, Zenon DEF SendDone
    <3>2. QED BY <3>1, Zenon
  <2>5. SendShape(st, k, q.credit, f) BY <2>2, <2>4, <2>w, <1>c DEF SendShape
  <2>6. QED BY <2>3, <2>5
<1>9. CASE st.reset
  <2>1. PICK s : s = [st EXCEPT !.closed = TRUE] OBVIOUS
  <2>2. PICK kk : kk = [k EXCEPT !.rst = TRUE] OBVIOUS
  <2>3. SendFlush(id, k) = SendDone(s, kk, q.credit, FALSE) BY <2>1, <2>2, <1>1, <1>9 DEF SendFlush, StopSeen
  <2>4. s \in SendType /\ s.closed /\ s.blocked = st.blocked /\ s.reset BY <2>1, <1>2, <1>9 DEF SendType
  <2>5. kk \in StreamType /\ SameRecvSide(kk, k) BY <2>2 DEF StreamType, SameRecvSide
  <2>6. QED BY <2>3, <2>4, <2>5, <1>2, <1>l, <1>9, <1>1, <1>c, Zenon
<1>11. CASE ~st.reset /\ k.stopped
  <2>1. CASE st.queued = 0 /\ st.fin
    <3>3. SendFlush(id, k) = SendDone(st, k, q.credit, TRUE) BY <1>1, <1>11, <2>1 DEF SendFlush, StopSeen
    <3>6. QED BY <3>3 DEF SendDone, SendShape
  <2>2. CASE ~(st.queued = 0 /\ st.fin)
    <3>a. PICK m : m = IF st.queued > 0 THEN st.queued - 1 ELSE 0 OBVIOUS
    <3>b. m \in Nat BY <3>a, <1>2 DEF SendType
    <3>1. PICK s : s = [st EXCEPT !.stop = TRUE, !.closed = TRUE, !.queued = m] OBVIOUS
    <3>3. SendFlush(id, k) = SendDone(s, k, q.credit, FALSE) BY <3>a, <3>1, <1>1, <1>11, <2>2 DEF SendFlush, StopSeen
    <3>4. s \in SendType /\ s.closed /\ s.stop /\ s.blocked = st.blocked BY <3>1, <3>b, <1>2 DEF SendType
    <3>5. SameRecvSide(k, k) BY DEF SameRecvSide
    <3>6. QED BY <3>3, <3>4, <3>5, <1>2, <1>l, <1>11, <1>1, <1>c, Zenon
  <2>3. QED BY <2>1, <2>2
<1>12. CASE ~st.reset /\ ~k.stopped /\ rest = 0 /\ st.fin
  <2>1. PICK s : s = [sent EXCEPT !.closed = TRUE] OBVIOUS
  <2>2. PICK kk : kk = [k EXCEPT !.fin = TRUE] OBVIOUS
  <2>3. SendFlush(id, k) = SendDone(s, kk, cap, FALSE)
    BY <2>1, <2>2, <1>3, <1>4, <1>5, <1>7, <1>1, <1>12 DEF SendFlush, StopSeen
  <2>4. s \in SendType /\ s.closed /\ s.fin /\ s.queued = 0 /\ s.blocked = st.blocked BY <2>1, <1>8, <1>12 DEF SendType
  <2>5. kk \in StreamType /\ SameRecvSide(kk, k) BY <2>2 DEF StreamType, SameRecvSide
  <2>6. QED BY <2>3, <2>4, <2>5, <1>6, <1>12, <1>1, <1>c
<1>13. CASE ~st.reset /\ ~k.stopped /\ ~(rest = 0 /\ st.fin)
  <2>1. PICK kk : kk = [k EXCEPT !.armed = @ \/ rest > 0] OBVIOUS
  <2>2. kk \in StreamType /\ SameRecvSide(kk, k) /\ kk.fin = k.fin /\ kk.rst = k.rst
    BY <2>1 DEF StreamType, SameRecvSide
  <2>3. PICK full : full = [sent EXCEPT !.cap = cap] OBVIOUS
  <2>4. /\ full \in SendType /\ full.fin = st.fin /\ full.queued = rest /\ full.cap = cap
        /\ full.blocked = st.blocked /\ ~full.closed /\ ~full.reset /\ ~full.stop
    BY <2>3, <1>1, <1>6, <1>8, <1>13 DEF SendType
  <2>5. SendFlush(id, k) =
          IF rest = 0 \/ cap > 0 THEN SendDone(full, kk, cap, FALSE)
          ELSE [st |-> full, k |-> kk, credit |-> cap, wake |-> FALSE, err |-> FALSE]
    BY <1>1, <1>3, <1>4, <1>5, <1>7, <1>13, <2>1, <2>3 DEF SendFlush
  <2>f. PICK f : f = SendFlush(id, k) OBVIOUS
  <2>6. CASE rest = 0 \/ cap > 0
    <3>1. PICK b : b = [full EXCEPT !.blocked = FALSE] OBVIOUS
    <3>2. /\ ~b.closed /\ ~b.blocked /\ ~b.reset /\ ~b.stop /\ b.fin = st.fin /\ b.cap = cap BY <3>1, <2>4 DEF SendType
    <3>3. f = SendDone(full, kk, cap, FALSE) BY <2>5, <2>6, <2>f
    <3>4. f.st = b /\ f.k = kk /\ f.credit = cap /\ ~f.err BY <3>1, <3>3 DEF SendDone
    <3>w. f.wake <=> st.blocked
      <4>1. f.wake = (~FALSE /\ full.blocked) BY <3>3, Zenon DEF SendDone
      <4>2. QED BY <4>1, <2>4, Zenon
    <3>5. SendShape(st, k, q.credit, f) BY <3>2, <3>4, <3>w, <2>2, <1>6, <1>13 DEF SendShape
    <3>6. QED BY <3>5, <2>f, <1>1
  <2>7. CASE ~(rest = 0 \/ cap > 0)
    <3>4. f.st = full /\ f.k = kk /\ f.credit = cap /\ ~f.err BY <2>5, <2>7, <2>f
    <3>5. SendShape(st, k, q.credit, f) BY <3>4, <2>2, <2>4, <2>7, <1>6, <1>13 DEF SendShape
    <3>6. QED BY <3>5, <2>f, <1>1
  <2>8. QED BY <2>6, <2>7
<1>14. QED BY <1>9, <1>11, <1>12, <1>13

\* A stream of quiche but for what concerns its receive side.
SameSendSide(kk, k) ==
  /\ kk.made = k.made /\ kk.stopped = k.stopped /\ kk.fin = k.fin /\ kk.rst = k.rst /\ kk.armed = k.armed

\* A flush of the receive side of a stream that is open: its handle is woken, and
\* if the stream ends quiche has nothing more to say about it; or nothing changes,
\* and quiche has nothing for a read that waits.
RecvShape(st, k, f) ==
  /\ SameSendSide(f.k, k)
  /\ \/ /\ ~f.st.blocked /\ (f.wake <=> st.blocked)
        /\ f.st.closed => (f.st.reset \/ f.st.stop \/ f.st.fin) /\ f.k.rend
        /\ ~f.st.closed => f.k.rend = k.rend
        /\ f.k.rarmed => k.rarmed /\ f.k.rend = k.rend
     \/ /\ f.st = st /\ f.k = k
        /\ st.max > 0 => k.rbuf = 0 /\ ~k.rfin /\ ~k.rrst

LEMMA RecvShapes ==
  ASSUME TypeOK, NEW id \in Ids, NEW k \in StreamType, ~rs[id].closed
  PROVE  RecvShape(rs[id], k, RecvFlush(id, k))
<1>1. PICK st : st = rs[id] OBVIOUS
<1>2. st \in RecvType BY <1>1 DEF TypeOK
<1>3. PICK n : n = IF st.max < k.rbuf THEN st.max ELSE k.rbuf OBVIOUS
<1>4. n \in Nat /\ st.queued + n \in Nat /\ st.max - n \in Nat /\ k.rbuf - n \in Nat
  BY <1>2, <1>3 DEF RecvType, StreamType
<1>5. PICK read : read = [st EXCEPT !.queued = @ + n, !.max = @ - n] OBVIOUS
<1>6. PICK left : left = [k EXCEPT !.rbuf = @ - n] OBVIOUS
<1>7. /\ read \in RecvType /\ read.blocked = st.blocked /\ read.closed = st.closed
      /\ read.reset = st.reset /\ read.stop = st.stop /\ read.fin = st.fin BY <1>2, <1>4, <1>5 DEF RecvType
<1>8. /\ left \in StreamType /\ SameSendSide(left, k) /\ left.rend = k.rend /\ left.rarmed = k.rarmed
  BY <1>4, <1>6 DEF StreamType, SameSendSide
<1>f. PICK f : f = RecvFlush(id, k) OBVIOUS
<1>e. ASSUME NEW kk \in StreamType, SameSendSide(kk, k)
      PROVE  Ended(kk) \in StreamType /\ SameSendSide(Ended(kk), k) /\ Ended(kk).rend /\ ~Ended(kk).rarmed
  BY <1>e DEF Ended, StreamType, SameSendSide
<1>9. ASSUME NEW s \in RecvType, NEW kk \in StreamType, s.blocked = st.blocked, SameSendSide(kk, k),
             \/ s.closed /\ (s.reset \/ s.stop \/ s.fin) /\ kk.rend /\ ~kk.rarmed
             \/ ~s.closed /\ kk.rend = k.rend /\ kk.rarmed = k.rarmed,
             f = RecvDone(s, kk)
      PROVE  RecvShape(st, k, f)
  <2>1. PICK b : b = [s EXCEPT !.blocked = FALSE] OBVIOUS
  <2>2. /\ ~b.blocked /\ b.closed = s.closed /\ b.reset = s.reset /\ b.stop = s.stop /\ b.fin = s.fin
    BY <2>1 DEF RecvType
  <2>3. f.st = b /\ f.k = kk /\ f.wake = st.blocked BY <1>9, <2>1 DEF RecvDone
  <2>4. QED BY <2>2, <2>3, <1>9 DEF RecvShape
<1>k. k \in StreamType /\ SameSendSide(k, k) BY DEF SameSendSide
<1>10. CASE st.reset
  <2>1. f = RecvDone(st, k) BY <1>f, <1>1, <1>10 DEF RecvFlush
  <2>2. QED BY <2>1, <1>1, <1>2, <1>k, <1>9, <1>f
<1>11. CASE ~st.reset /\ st.stop
  <2>1. PICK s : s = [st EXCEPT !.closed = TRUE] OBVIOUS
  <2>2. s \in RecvType /\ s.closed /\ s.stop /\ s.blocked = st.blocked BY <2>1, <1>2, <1>11 DEF RecvType
  <2>3. PICK kk : kk = [k EXCEPT !.rbuf = 0] OBVIOUS
  <2>4. kk \in StreamType /\ SameSendSide(kk, k) BY <2>3 DEF StreamType, SameSendSide
  <2>5. f = RecvDone(s, Ended(kk)) BY <1>f, <1>1, <1>11, <2>1, <2>3 DEF RecvFlush
  <2>6. QED BY <2>2, <2>4, <2>5, <1>e, <1>9, <1>1, <1>f
<1>12. CASE ~st.reset /\ ~st.stop /\ st.max > 0 /\ k.rrst
  <2>1. PICK s : s = [st EXCEPT !.reset = TRUE, !.closed = TRUE] OBVIOUS
  <2>2. s \in RecvType /\ s.closed /\ s.reset /\ s.blocked = st.blocked BY <2>1, <1>2 DEF RecvType
  <2>5. f = RecvDone(s, Ended(k)) BY <1>f, <1>1, <1>12, <2>1 DEF RecvFlush
  <2>6. QED BY <2>2, <2>5, <1>k, <1>e, <1>9, <1>1, <1>f
<1>13. CASE ~st.reset /\ ~st.stop /\ st.max > 0 /\ ~k.rrst /\ k.rfin /\ k.rbuf = n
  <2>1. PICK s : s = [read EXCEPT !.fin = TRUE, !.closed = TRUE] OBVIOUS
  <2>2. s \in RecvType /\ s.closed /\ s.fin /\ s.blocked = st.blocked BY <2>1, <1>7 DEF RecvType
  <2>5. f = RecvDone(s, Ended(left)) BY <1>f, <1>1, <1>3, <1>5, <1>6, <1>13, <2>1 DEF RecvFlush
  <2>6. QED BY <2>2, <2>5, <1>8, <1>e, <1>9, <1>1, <1>f
<1>14. CASE ~st.reset /\ ~st.stop /\ ~(st.max > 0 /\ k.rrst) /\ ~(st.max > 0 /\ k.rfin /\ k.rbuf = n)
  <2>1. f = IF n > 0 THEN RecvDone(read, left) ELSE [st |-> st, k |-> k, wake |-> FALSE]
    BY <1>f, <1>1, <1>3, <1>5, <1>6, <1>14 DEF RecvFlush
  <2>2. CASE n > 0 BY <2>1, <2>2, <1>7, <1>8, <1>1, <1>9, <1>f
  <2>3. CASE ~(n > 0)
    <3>1. st.max > 0 => k.rbuf = 0 BY <2>3, <1>2, <1>3, <1>4 DEF RecvType, StreamType
    <3>2. st.max > 0 => k.rbuf = 0 /\ ~k.rfin /\ ~k.rrst BY <3>1, <2>3, <1>4, <1>14
    <3>3. f.st = st /\ f.k = k BY <2>1, <2>3
    <3>4. QED BY <3>2, <3>3, <1>k, <1>1, <1>f DEF RecvShape
  <2>4. QED BY <2>2, <2>3
<1>15. QED BY <1>10, <1>11, <1>12, <1>13, <1>14

-----------------------------------------------------------------------------
(* The calls on a stream                                                    *)

\* A step of the handle h of a stream: the handle, the state of its side and
\* what is left for the driver change, and nothing of another stream.
Touch(id, h) ==
  /\ UNCHANGED <<sends, recvs, d, q, qs>>
  /\ \A j \in Ids : j # id => /\ ss'[j] = ss[j] /\ rs'[j] = rs[j]
                              /\ (j \in drv'.send <=> j \in drv.send)
                              /\ (j \in drv'.recv <=> j \in drv.recv)
  /\ \A g \in Halves : g # h => ap'[g] = ap[g] /\ (g \in awake => g \in awake')
  /\ drv'.creq = drv.creq
  /\ \A k \in Kinds : drv'.open[k].create = drv.open[k].create /\ drv'.open[k].next = drv.open[k].next
  /\ (id \in drv.send => id \in drv'.send) /\ (id \in drv.recv => id \in drv'.recv)
  /\ ap[h].pc # "none" /\ ap'[h].pc # "none"

\* The other streams do not notice.
LEMMA TouchOthers ==
  ASSUME TypeOK, TypeOK', ServeInv, NEW id \in Ids, NEW h \in Halves, h[1] = id, Touch(id, h)
  PROVE  /\ CreatedInv' /\ TakenInv'
         /\ \A k \in Kinds : (Created(k))' = Created(k)
         /\ \A j \in Ids : j # id => StreamOne(j)'
<1>1. \A k \in Kinds : (Created(k))' = Created(k) BY DEF Touch, Created
<1>2. CreatedInv' BY <1>1 DEF ServeInv, CreatedInv, Touch
<1>3. TakenInv' BY DEF ServeInv, TakenInv, Touch
<1>4. ASSUME NEW j \in Ids, j # id PROVE StreamOne(j)'
  <2>1. Kind(j) \in Kinds /\ q.credit \in Nat /\ drv.open[Kind(j)].next \in Nat
    BY IdFacts DEF TypeOK, QuicheType, DrvType, OpenType
  <2>2. \A g \in Halves : g[1] = j => SameHandle(g) /\ (g \in awake => g \in awake') BY <1>4 DEF Touch, SameHandle
  <2>3. SameAt(j) BY <1>1, <1>4, <2>1, <2>2 DEF Touch, SameAt
  <2>4. QED BY <2>3, SameAtKeeps DEF ServeInv
<1>5. QED BY <1>1, <1>2, <1>3, <1>4

\* A step of the handle of a send stream that keeps the rules of its side.
LEMMA SendTouch ==
  ASSUME TypeOK, TypeOK', ServeInv, NEW id \in Ids, NEW h, h = SendOf(id), h \in Halves,
         Touch(id, h), rs'[id] = rs[id],
         ss'[id].closed = ss[id].closed, ss'[id].stop = ss[id].stop,
         ss'[id].closed => ss'[id].reset \/ ss'[id].stop \/ (ss'[id].fin /\ ss'[id].queued = 0),
         (Waits(h))' =>
           /\ ss'[id].blocked /\ ~Dead(ss'[id]) /\ ap'[h].op \in {"write", "flush", "closed"}
           /\ ap'[h].op = "write" => ss'[id].cap = 0 /\ ~ss'[id].fin
           /\ ap'[h].op = "flush" => ss'[id].queued > 0
           /\ ap'[h].op = "closed" => ~ss'[id].closed,
         \/ ap'[h].pc = "tell" \/ id \in drv'.send
         \/ /\ ss'[id].cap = ss[id].cap /\ ss'[id].fin = ss[id].fin /\ ss'[id].reset = ss[id].reset /\ ap[h].pc # "tell"
  PROVE  ServeInv'
<1>h. h[1] = id /\ Kind(id) \in Kinds /\ h # RecvOf(id) /\ RecvOf(id)[1] = id BY IdFacts
<1>o. /\ CreatedInv' /\ TakenInv'
      /\ \A k \in Kinds : (Created(k))' = Created(k)
      /\ \A j \in Ids : j # id => StreamOne(j)' BY <1>h, TouchOthers
<1>1. StreamOne(id) BY DEF ServeInv
<1>2. \A g \in Halves : g[1] = id /\ g # h => g = RecvOf(id) BY <1>h, IdFacts
<1>3. RecvOf(id) \in Halves =>
         /\ ap'[RecvOf(id)] = ap[RecvOf(id)] /\ ((Waits(RecvOf(id)))' => Waits(RecvOf(id)))
         /\ ((Sleeping(RecvOf(id)))' => Sleeping(RecvOf(id))) BY <1>h DEF Touch, Waits, Sleeping
<1>4. (NewOne(id))' BY <1>1, <1>h, <1>o DEF StreamOne, NewOne, Untouched, Touch
<1>5. (FreshOne(id))' BY <1>1, <1>h, <1>o DEF StreamOne, FreshOne, Blank, Touch
<1>6. (SendOne(id))' BY <1>1, <1>h, <1>o DEF StreamOne, SendOne, Touch
<1>7. (RecvOne(id))' BY <1>1, <1>h, <1>o, <1>3 DEF StreamOne, RecvOne, Touch
<1>8. QED BY <1>o, <1>4, <1>5, <1>6, <1>7 DEF ServeInv, StreamOne

\* A step of the handle of a receive stream, likewise.
LEMMA RecvTouch ==
  ASSUME TypeOK, TypeOK', ServeInv, NEW id \in Ids, NEW h, h = RecvOf(id), h \in Halves,
         Touch(id, h), ss'[id] = ss[id],
         rs'[id].closed = rs[id].closed,
         rs'[id].closed => rs'[id].reset \/ rs'[id].stop \/ rs'[id].fin,
         (Waits(h))' =>
           /\ rs'[id].blocked /\ ~Dead(rs'[id]) /\ ap'[h].op \in {"read", "closed"}
           /\ ap'[h].op = "read" => rs'[id].queued = 0 /\ ~rs'[id].fin /\ rs'[id].max > 0
           /\ ap'[h].op = "closed" => ~(rs'[id].fin /\ rs'[id].queued = 0),
         (Sleeping(h))' /\ ap'[h].op = "read" => id \in drv'.recv
  PROVE  ServeInv'
<1>h. h[1] = id /\ Kind(id) \in Kinds /\ h # SendOf(id) /\ SendOf(id)[1] = id BY IdFacts
<1>o. /\ CreatedInv' /\ TakenInv'
      /\ \A k \in Kinds : (Created(k))' = Created(k)
      /\ \A j \in Ids : j # id => StreamOne(j)' BY <1>h, TouchOthers
<1>1. StreamOne(id) BY DEF ServeInv
<1>3. SendOf(id) \in Halves =>
         /\ ap'[SendOf(id)] = ap[SendOf(id)] /\ ((Waits(SendOf(id)))' => Waits(SendOf(id))) BY <1>h DEF Touch, Waits
<1>4. (NewOne(id))' BY <1>1, <1>h, <1>o DEF StreamOne, NewOne, Untouched, Touch
<1>5. (FreshOne(id))' BY <1>1, <1>h, <1>o DEF StreamOne, FreshOne, Blank, Touch
<1>6. (SendOne(id))' BY <1>1, <1>h, <1>o, <1>3 DEF StreamOne, SendOne, Touch
<1>7. (RecvOne(id))' BY <1>1, <1>h, <1>o DEF StreamOne, RecvOne, Touch
<1>8. QED BY <1>o, <1>4, <1>5, <1>6, <1>7 DEF ServeInv, StreamOne

\* A call begins: it is awake, and nothing else changes.
LEMMA CallFacts ==
  ASSUME TypeOK, NEW h \in Halves, NEW o, Calls(h, o)
  PROVE  /\ ap[h].pc \in {"idle", "wait"} /\ h \notin awake'
         /\ \A g \in Halves : g # h /\ g \in awake => g \in awake'
         /\ drv'.send = drv.send /\ drv'.recv = drv.recv /\ drv'.creq = drv.creq /\ drv'.open = drv.open
<1>1. PICK a, b : drv' = [drv EXCEPT !.crw = a, !.clw = b] BY DEF Calls
<1>2. /\ drv'.send = drv.send /\ drv'.recv = drv.recv /\ drv'.creq = drv.creq
      /\ drv'.open = drv.open BY <1>1 DEF TypeOK, DrvType
<1>3. QED BY <1>2 DEF Calls

\* Where a handle goes.
LEMMA GoesFacts ==
  ASSUME TypeOK, NEW h \in Halves, NEW pc, NEW o, Goes(h, pc, o)
  PROVE  /\ ap'[h].pc = pc
         /\ pc \in {"check", "wait"} => ap'[h].op = o
         /\ \A g \in Halves : g # h => ap'[g] = ap[g]
<1>1. PICK x : ap' = [ap EXCEPT ![h].pc = pc, ![h].op = x] /\ (pc \in {"check", "wait"} => x = o) BY DEF Goes
<1>2. ap \in [Halves -> HandleType] BY DEF TypeOK
<1>3. QED BY <1>1, <1>2 DEF HandleType

\* A call on a stream state is a step of its handle.
LEMMA CallTouch ==
  ASSUME TypeOK, NEW id \in Ids, NEW h \in Halves, h[1] = id, NEW o, Calls(h, o), AppFrame,
         \A j \in Ids : j # id => ss'[j] = ss[j] /\ rs'[j] = rs[j],
         \A g \in Halves : g # h => ap'[g] = ap[g], ap'[h].pc # "none"
  PROVE  Touch(id, h)
BY CallFacts DEF Touch, AppFrame

\* Neither does the drop of a handle change more.
LEMMA DropTouch ==
  ASSUME TypeOK, NEW id \in Ids, NEW h \in Halves, h[1] = id, MayDrop(h), AppFrame,
         UNCHANGED <<awake, drv>>,
         \A j \in Ids : j # id => ss'[j] = ss[j] /\ rs'[j] = rs[j],
         \A g \in Halves : g # h => ap'[g] = ap[g], ap'[h].pc # "none"
  PROVE  Touch(id, h)
BY DEF Touch, AppFrame, MayDrop

\* The calls of a send stream.
LEMMA SendCallsServe ==
  ASSUME TypeOK, TypeOK', ServeInv, NEW id \in Ids,
         \/ Write(id) \/ Finish(id) \/ Reset(id) \/ SetPriority(id) \/ DropSend(id)
         \/ SendClosed(id) \/ Flush(id)
  PROVE  ServeInv'
<1> DEFINE h == SendOf(id)
<1>h. h = <<id, "send">> /\ h[1] = id BY DEF SendOf
<1>t. ss \in [Ids -> SendType] /\ ap \in [Halves -> HandleType] /\ ss[id] \in SendType BY DEF TypeOK
<1>s. h \in Halves => /\ ss[id].closed => ss[id].reset \/ ss[id].stop \/ (ss[id].fin /\ ss[id].queued = 0)
                      /\ ss[id].stop => ss[id].closed BY DEF ServeInv, StreamOne, SendOne
<1>k. ASSUME h \in Halves, Touch(id, h), rs' = rs, ss'[id].closed = ss[id].closed,
             ss'[id].stop = ss[id].stop,
             ss'[id].closed => ss'[id].reset \/ ss'[id].stop \/ (ss'[id].fin /\ ss'[id].queued = 0),
             ap'[h].pc \in {"tell", "idle", "gone"},
             \/ ap'[h].pc = "tell"
             \/ ss'[id] = ss[id] /\ ap[h].pc # "tell"
      PROVE  ServeInv'
  <2>1. ~(Waits(h))' BY <1>k DEF Waits
  <2>2. rs'[id] = rs[id] BY <1>k
  <2> HIDE DEF h
  <2>3. QED BY <1>k, <2>1, <2>2, SendTouch DEF h
<1>w. ASSUME NEW o \in {"write", "flush", "closed"}, h \in Halves, Calls(h, o), AppFrame, rs' = rs,
             ss' = [ss EXCEPT ![id].blocked = TRUE], Goes(h, "check", o), ~Dead(ss[id]),
             o = "write" => ss[id].cap = 0 /\ ~ss[id].fin,
             o = "flush" => ss[id].queued > 0,
             o = "closed" => ~ss[id].closed
      PROVE  ServeInv'
  <2>1. /\ ap'[h].pc = "check" /\ ap'[h].op = o /\ \A g \in Halves : g # h => ap'[g] = ap[g] BY <1>w, GoesFacts
  <2>2. /\ ss'[id].blocked /\ ss'[id].cap = ss[id].cap /\ ss'[id].fin = ss[id].fin
        /\ ss'[id].queued = ss[id].queued /\ ss'[id].closed = ss[id].closed
        /\ ss'[id].reset = ss[id].reset /\ ss'[id].stop = ss[id].stop
        /\ \A j \in Ids : j # id => ss'[j] = ss[j] BY <1>w, <1>t DEF SendType
  <2>3. Touch(id, h) /\ ap[h].pc # "tell" BY <1>w, <1>h, <2>1, <2>2, CallTouch, CallFacts
  <2>4. /\ ss'[id].blocked /\ ~Dead(ss'[id]) /\ ap'[h].op \in {"write", "flush", "closed"}
        /\ ap'[h].op = "write" => ss'[id].cap = 0 /\ ~ss'[id].fin
        /\ ap'[h].op = "flush" => ss'[id].queued > 0
        /\ ap'[h].op = "closed" => ~ss'[id].closed BY <1>w, <2>1, <2>2 DEF Dead
  <2>5. rs'[id] = rs[id] BY <1>w
  <2>6. ss'[id].closed => ss'[id].reset \/ ss'[id].stop \/ (ss'[id].fin /\ ss'[id].queued = 0) BY <1>w, <1>s, <2>2
  <2> HIDE DEF h
  <2>7. QED BY <1>w, <2>2, <2>3, <2>4, <2>5, <2>6, SendTouch DEF h
<1>1. CASE Write(id)
  <2>0. h \in Halves /\ Calls(h, "write") /\ AppFrame /\ rs' = rs BY <1>1, <1>h DEF Write
  <2>1. CASE (Dead(ss[id]) \/ ss[id].fin) /\ Goes(h, "tell", "write") /\ UNCHANGED ss
    <3>1. ap'[h].pc = "tell" /\ \A g \in Halves : g # h => ap'[g] = ap[g] BY <2>0, <2>1, GoesFacts
    <3>2. Touch(id, h) BY <2>0, <2>1, <3>1, <1>h, CallTouch
    <3>3. QED BY <2>0, <2>1, <3>1, <3>2, <1>s, <1>k
  <2>2. CASE /\ ~Dead(ss[id]) /\ ~ss[id].fin /\ ss[id].cap = 0
             /\ ss' = [ss EXCEPT ![id].blocked = TRUE] /\ Goes(h, "check", "write") BY <2>0, <2>2, <1>w
  <2>3. CASE /\ ~Dead(ss[id]) /\ ~ss[id].fin /\ ss[id].cap > 0
             /\ ss' = [ss EXCEPT ![id].cap = @ - 1, ![id].queued = @ + 1] /\ Goes(h, "tell", "write")
    <3>1. ap'[h].pc = "tell" /\ \A g \in Halves : g # h => ap'[g] = ap[g] BY <2>0, <2>3, GoesFacts
    <3>2. /\ ss'[id].closed = ss[id].closed /\ ss'[id].stop = ss[id].stop
          /\ \A j \in Ids : j # id => ss'[j] = ss[j] BY <2>3, <1>t DEF SendType
    <3>3. ~ss'[id].closed BY <2>0, <2>3, <3>2, <1>s DEF Dead
    <3>4. Touch(id, h) BY <2>0, <3>1, <3>2, <1>h, CallTouch
    <3>5. QED BY <2>0, <3>1, <3>2, <3>3, <3>4, <1>k
  <2>4. QED BY <1>1, <1>h, <2>1, <2>2, <2>3 DEF Write
<1>2. CASE Finish(id)
  <2>0. /\ h \in Halves /\ Calls(h, "finish") /\ AppFrame /\ rs' = rs
        /\ ss' = [ss EXCEPT ![id].fin = TRUE] /\ Goes(h, "tell", "finish") BY <1>2, <1>h DEF Finish
  <2>1. ap'[h].pc = "tell" /\ \A g \in Halves : g # h => ap'[g] = ap[g] BY <2>0, GoesFacts
  <2>2. /\ ss'[id].closed = ss[id].closed /\ ss'[id].stop = ss[id].stop /\ ss'[id].fin
        /\ ss'[id].reset = ss[id].reset /\ ss'[id].queued = ss[id].queued
        /\ \A j \in Ids : j # id => ss'[j] = ss[j] BY <2>0, <1>t DEF SendType
  <2>3. Touch(id, h) BY <2>0, <2>1, <2>2, <1>h, CallTouch
  <2>4. QED BY <2>0, <2>1, <2>2, <2>3, <1>s, <1>k
<1>3. CASE Reset(id)
  <2>0. /\ h \in Halves /\ Calls(h, "reset") /\ AppFrame /\ rs' = rs
        /\ ss' = [ss EXCEPT ![id].reset = TRUE] /\ Goes(h, "tell", "reset") BY <1>3, <1>h DEF Reset
  <2>1. ap'[h].pc = "tell" /\ \A g \in Halves : g # h => ap'[g] = ap[g] BY <2>0, GoesFacts
  <2>2. /\ ss'[id].closed = ss[id].closed /\ ss'[id].stop = ss[id].stop /\ ss'[id].reset
        /\ \A j \in Ids : j # id => ss'[j] = ss[j] BY <2>0, <1>t DEF SendType
  <2>3. Touch(id, h) BY <2>0, <2>1, <2>2, <1>h, CallTouch
  <2>4. QED BY <2>0, <2>1, <2>2, <2>3, <1>k
<1>4. CASE SetPriority(id)
  <2>0. /\ h \in Halves /\ Calls(h, "priority") /\ AppFrame /\ rs' = rs /\ ss' = ss
        /\ Goes(h, "tell", "priority") BY <1>4, <1>h DEF SetPriority
  <2>1. ap'[h].pc = "tell" /\ \A g \in Halves : g # h => ap'[g] = ap[g] BY <2>0, GoesFacts
  <2>3. Touch(id, h) BY <2>0, <2>1, <1>h, CallTouch
  <2>4. QED BY <2>0, <2>1, <2>3, <1>s, <1>k
<1>5. CASE DropSend(id)
  <2>0. /\ h \in Halves /\ MayDrop(h) /\ AppFrame /\ UNCHANGED <<rs, awake, drv>>
        /\ \/ ss' = ss /\ Goes(h, "gone", "drop")
           \/ ss' = [ss EXCEPT ![id].reset = TRUE] /\ Goes(h, "tell", "drop") BY <1>5, <1>h DEF DropSend
  <2>1. PICK pc \in {"gone", "tell"} :
          /\ Goes(h, pc, "drop")
          /\ ss' = ss \/ (pc = "tell" /\ ss' = [ss EXCEPT ![id].reset = TRUE]) BY <2>0
  <2>2. ap'[h].pc = pc /\ \A g \in Halves : g # h => ap'[g] = ap[g] BY <2>0, <2>1, GoesFacts
  <2>3. /\ ss'[id].closed = ss[id].closed /\ ss'[id].stop = ss[id].stop
        /\ ss'[id] = ss[id] \/ (pc = "tell" /\ ss'[id].reset)
        /\ \A j \in Ids : j # id => ss'[j] = ss[j] BY <2>1, <1>t DEF SendType
  <2>4. Touch(id, h) /\ ap[h].pc # "tell" BY <2>0, <2>1, <2>2, <2>3, <1>h, DropTouch DEF MayDrop
  <2>5. QED BY <2>0, <2>1, <2>2, <2>3, <2>4, <1>s, <1>k
<1>6. CASE SendClosed(id)
  <2>0. h \in Halves /\ Calls(h, "closed") /\ AppFrame /\ rs' = rs BY <1>6, <1>h DEF SendClosed
  <2>1. CASE Dead(ss[id]) \/ ss[id].closed
    <3>0. PICK r : ap' = [ap EXCEPT ![h] = [pc |-> "idle", op |-> "none", res |-> r]] BY <1>6, <2>1, <1>h DEF SendClosed
    <3>1. ap'[h].pc = "idle" /\ \A g \in Halves : g # h => ap'[g] = ap[g] BY <3>0, <2>0, <1>t
    <3>2. ss' = ss BY <1>6, <2>1 DEF SendClosed
    <3>3. Touch(id, h) /\ ap[h].pc # "tell" BY <2>0, <3>1, <3>2, <1>h, CallTouch, CallFacts
    <3>4. QED BY <2>0, <3>1, <3>2, <3>3, <1>s, <1>k
  <2>2. CASE ~(Dead(ss[id]) \/ ss[id].closed)
    <3>1. ss' = [ss EXCEPT ![id].blocked = TRUE] /\ Goes(h, "check", "closed") BY <1>6, <2>2, <1>h DEF SendClosed
    <3>2. QED BY <2>0, <2>2, <3>1, <1>w
  <2>3. QED BY <2>1, <2>2
<1>7. CASE Flush(id)
  <2>0. h \in Halves /\ Calls(h, "flush") /\ AppFrame /\ rs' = rs BY <1>7, <1>h DEF Flush
  <2>1. CASE Dead(ss[id]) \/ ss[id].queued = 0
    <3>2. ss' = ss /\ Goes(h, "idle", "flush") BY <1>7, <2>1, <1>h DEF Flush
    <3>1. ap'[h].pc = "idle" /\ \A g \in Halves : g # h => ap'[g] = ap[g] BY <3>2, <2>0, GoesFacts
    <3>3. Touch(id, h) /\ ap[h].pc # "tell" BY <2>0, <3>1, <3>2, <1>h, CallTouch, CallFacts
    <3>4. QED BY <2>0, <3>1, <3>2, <3>3, <1>s, <1>k
  <2>2. CASE ~(Dead(ss[id]) \/ ss[id].queued = 0)
    <3>1. ss' = [ss EXCEPT ![id].blocked = TRUE] /\ Goes(h, "check", "flush") BY <1>7, <2>2, <1>h DEF Flush
    <3>2. ss[id].queued > 0 BY <2>2, <1>t DEF SendType
    <3>3. QED BY <2>0, <2>2, <3>1, <3>2, <1>w
  <2>3. QED BY <2>1, <2>2
<1>8. QED BY <1>1, <1>2, <1>3, <1>4, <1>5, <1>6, <1>7

\* The calls of a receive stream.
LEMMA RecvCallsServe ==
  ASSUME TypeOK, TypeOK', ServeInv, NEW id \in Ids,
         Read(id) \/ Stop(id) \/ DropRecv(id) \/ RecvClosed(id)
  PROVE  ServeInv'
<1> DEFINE h == RecvOf(id)
<1>h. h = <<id, "recv">> /\ h[1] = id BY DEF RecvOf
<1>t. rs \in [Ids -> RecvType] /\ ap \in [Halves -> HandleType] /\ rs[id] \in RecvType BY DEF TypeOK
<1>s. h \in Halves => (rs[id].closed => rs[id].reset \/ rs[id].stop \/ rs[id].fin) BY DEF ServeInv, StreamOne, RecvOne
<1>k. ASSUME h \in Halves, Touch(id, h), ss' = ss, rs'[id].closed = rs[id].closed,
             rs'[id].closed => rs'[id].reset \/ rs'[id].stop \/ rs'[id].fin,
             ap'[h].pc \in {"tell", "idle", "gone"}
      PROVE  ServeInv'
  <2>1. ~(Waits(h))' /\ ~(Sleeping(h))' BY <1>k DEF Waits, Sleeping
  <2>2. ss'[id] = ss[id] BY <1>k
  <2> HIDE DEF h
  <2>3. QED BY <1>k, <2>1, <2>2, RecvTouch DEF h
<1>w. ASSUME NEW o \in {"read", "closed"}, h \in Halves, Calls(h, o), AppFrame, ss' = ss,
             Goes(h, "check", o), ~Dead(rs[id]), rs'[id].blocked, rs'[id].fin = rs[id].fin,
             rs'[id].queued = rs[id].queued, rs'[id].reset = rs[id].reset,
             rs'[id].stop = rs[id].stop, rs'[id].closed = rs[id].closed,
             \A j \in Ids : j # id => rs'[j] = rs[j],
             o = "read" => rs[id].queued = 0 /\ ~rs[id].fin /\ rs'[id].max > 0,
             o = "closed" => ~(rs[id].fin /\ rs[id].queued = 0)
      PROVE  ServeInv'
  <2>1. /\ ap'[h].pc = "check" /\ ap'[h].op = o /\ \A g \in Halves : g # h => ap'[g] = ap[g] BY <1>w, GoesFacts
  <2>3. Touch(id, h) BY <1>w, <1>h, <2>1, CallTouch
  <2>4. /\ rs'[id].blocked /\ ~Dead(rs'[id]) /\ ap'[h].op \in {"read", "closed"}
        /\ ap'[h].op = "read" => rs'[id].queued = 0 /\ ~rs'[id].fin /\ rs'[id].max > 0
        /\ ap'[h].op = "closed" => ~(rs'[id].fin /\ rs'[id].queued = 0) BY <1>w, <2>1 DEF Dead
  <2>5. ss'[id] = ss[id] /\ ~(Sleeping(h))' BY <1>w, <2>1 DEF Sleeping
  <2>6. rs'[id].closed => rs'[id].reset \/ rs'[id].stop \/ rs'[id].fin BY <1>w, <1>s
  <2> HIDE DEF h
  <2>7. QED BY <1>w, <2>3, <2>4, <2>5, <2>6, RecvTouch DEF h
<1>1. CASE Read(id)
  <2>0. h \in Halves /\ Calls(h, "read") /\ AppFrame /\ ss' = ss BY <1>1, <1>h DEF Read
  <2>1. CASE Dead(rs[id]) \/ rs[id].queued > 0 \/ rs[id].fin
    <3>0. PICK n : /\ Goes(h, "idle", "read")
                   /\ rs' = rs \/ rs' = [rs EXCEPT ![id].queued = @ - n] BY <1>1, <2>1, <1>h DEF Read
    <3>1. ap'[h].pc = "idle" /\ \A g \in Halves : g # h => ap'[g] = ap[g] BY <2>0, <3>0, GoesFacts
    <3>2. /\ rs'[id].closed = rs[id].closed /\ rs'[id].reset = rs[id].reset
          /\ rs'[id].stop = rs[id].stop /\ rs'[id].fin = rs[id].fin
          /\ \A j \in Ids : j # id => rs'[j] = rs[j] BY <3>0, <1>t DEF RecvType
    <3>3. Touch(id, h) BY <2>0, <3>1, <3>2, <1>h, CallTouch
    <3>4. QED BY <2>0, <3>1, <3>2, <3>3, <1>s, <1>k
  <2>2. CASE ~(Dead(rs[id]) \/ rs[id].queued > 0 \/ rs[id].fin)
    <3>1. /\ rs' = [rs EXCEPT ![id].max = ReadMax, ![id].blocked = TRUE]
          /\ Goes(h, "check", "read") BY <1>1, <2>2, <1>h DEF Read
    <3>2. /\ rs'[id].closed = rs[id].closed /\ rs'[id].reset = rs[id].reset
          /\ rs'[id].stop = rs[id].stop /\ rs'[id].fin = rs[id].fin
          /\ rs'[id].queued = rs[id].queued /\ rs'[id].blocked /\ rs'[id].max = ReadMax
          /\ \A j \in Ids : j # id => rs'[j] = rs[j] BY <3>1, <1>t DEF RecvType
    <3>3. rs[id].queued = 0 /\ ReadMax > 0 BY <2>2, <1>t, EzAssumption DEF RecvType
    <3>4. QED BY <2>0, <2>2, <3>1, <3>2, <3>3, <1>w
  <2>3. QED BY <2>1, <2>2
<1>2. CASE Stop(id)
  <2>0. /\ h \in Halves /\ Calls(h, "stop") /\ AppFrame /\ ss' = ss
        /\ rs' = [rs EXCEPT ![id].stop = TRUE] /\ Goes(h, "tell", "stop") BY <1>2, <1>h DEF Stop
  <2>1. ap'[h].pc = "tell" /\ \A g \in Halves : g # h => ap'[g] = ap[g] BY <2>0, GoesFacts
  <2>2. /\ rs'[id].closed = rs[id].closed /\ rs'[id].stop
        /\ \A j \in Ids : j # id => rs'[j] = rs[j] BY <2>0, <1>t DEF RecvType
  <2>3. Touch(id, h) BY <2>0, <2>1, <2>2, <1>h, CallTouch
  <2>4. QED BY <2>0, <2>1, <2>2, <2>3, <1>k
<1>3. CASE DropRecv(id)
  <2>0. /\ h \in Halves /\ MayDrop(h) /\ AppFrame /\ UNCHANGED <<ss, awake, drv>>
        /\ \/ rs' = rs /\ Goes(h, "gone", "drop")
           \/ rs' = [rs EXCEPT ![id].stop = TRUE] /\ Goes(h, "tell", "drop") BY <1>3, <1>h DEF DropRecv
  <2>1. PICK pc \in {"gone", "tell"} :
          /\ Goes(h, pc, "drop")
          /\ rs' = rs \/ rs' = [rs EXCEPT ![id].stop = TRUE] BY <2>0
  <2>2. ap'[h].pc = pc /\ \A g \in Halves : g # h => ap'[g] = ap[g] BY <2>0, <2>1, GoesFacts
  <2>3. /\ rs'[id].closed = rs[id].closed
        /\ rs'[id] = rs[id] \/ rs'[id].stop
        /\ \A j \in Ids : j # id => rs'[j] = rs[j] BY <2>1, <1>t DEF RecvType
  <2>4. Touch(id, h) BY <2>0, <2>1, <2>2, <2>3, <1>h, DropTouch
  <2>5. QED BY <2>0, <2>1, <2>2, <2>3, <2>4, <1>s, <1>k
<1>4. CASE RecvClosed(id)
  <2>0. h \in Halves /\ Calls(h, "closed") /\ AppFrame /\ ss' = ss BY <1>4, <1>h DEF RecvClosed
  <2>1. CASE (rs[id].fin /\ rs[id].queued = 0) \/ Dead(rs[id])
    <3>2. rs' = rs /\ Goes(h, "idle", "closed") BY <1>4, <2>1, <1>h DEF RecvClosed
    <3>1. ap'[h].pc = "idle" /\ \A g \in Halves : g # h => ap'[g] = ap[g] BY <3>2, <2>0, GoesFacts
    <3>3. Touch(id, h) BY <2>0, <3>1, <3>2, <1>h, CallTouch
    <3>4. QED BY <2>0, <3>1, <3>2, <3>3, <1>s, <1>k
  <2>2. CASE ~((rs[id].fin /\ rs[id].queued = 0) \/ Dead(rs[id]))
    <3>1. rs' = [rs EXCEPT ![id].blocked = TRUE] /\ Goes(h, "check", "closed") BY <1>4, <2>2, <1>h DEF RecvClosed
    <3>2. /\ rs'[id].closed = rs[id].closed /\ rs'[id].reset = rs[id].reset
          /\ rs'[id].stop = rs[id].stop /\ rs'[id].fin = rs[id].fin /\ rs'[id].queued = rs[id].queued /\ rs'[id].blocked
          /\ \A j \in Ids : j # id => rs'[j] = rs[j] BY <3>1, <1>t DEF RecvType
    <3>3. QED BY <2>0, <2>2, <3>1, <3>2, <1>w
  <2>3. QED BY <2>1, <2>2
<1>5. QED BY <1>1, <1>2, <1>3, <1>4

-----------------------------------------------------------------------------
(* The driver is told, the call looks at the connection, the handles are accepted *)

\* The driver is told: the stream is in the set it takes next.
LEMMA TellServes ==
  ASSUME TypeOK, TypeOK', ServeInv, NEW h \in Halves, Tell(h)
  PROVE  ServeInv'
<1>1. PICK id \in Ids : id = h[1] BY IdFacts
<1>t. drv \in DrvType /\ ap[h].pc = "tell" BY DEF TypeOK, Tell
<1>2. PICK pc \in {"gone", "idle"} : Goes(h, pc, ap[h].op) BY DEF Tell
<1>3. ap'[h].pc = pc /\ \A g \in Halves : g # h => ap'[g] = ap[g] BY <1>2, GoesFacts
<1>4. ~(Waits(h))' /\ ~(Sleeping(h))' BY <1>3 DEF Waits, Sleeping
<1>5. UNCHANGED <<ss, rs, sends, recvs, d, q, qs>> /\ awake \subseteq awake' BY DEF Tell
<1>6. ASSUME h[2] = "send" PROVE ServeInv'
  <2>1. drv' = TellSend(drv, id)[1] BY <1>6, <1>1 DEF Tell
  <2>2. (drv' = drv /\ id \in drv.send) \/ drv' = [drv EXCEPT !.send = @ \cup {id}, !.waker = "none"]
    BY <2>1, <1>t, TellSendFacts
  <2>3. /\ drv'.send = drv.send \cup {id} /\ drv'.recv = drv.recv /\ drv'.creq = drv.creq
        /\ drv'.open = drv.open BY <2>2, <1>t DEF DrvType
  <2>4. Touch(id, h) BY <2>3, <1>3, <1>5, <1>t DEF Touch
  <2>5. h = SendOf(id) BY <1>6, <1>1, IdFacts DEF SendOf, RecvOf
  <2>6. StreamOne(id) /\ rs'[id] = rs[id] /\ ss'[id] = ss[id] /\ id \in drv'.send BY <2>3, <1>5 DEF ServeInv
  <2>7. ss[id].closed => ss[id].reset \/ ss[id].stop \/ (ss[id].fin /\ ss[id].queued = 0)
    BY <2>5, <2>6 DEF StreamOne, SendOne
  <2>8. QED BY <1>4, <2>4, <2>5, <2>6, <2>7, SendTouch
<1>7. ASSUME h[2] # "send" PROVE ServeInv'
  <2>1. drv' = TellRecv(drv, id)[1] BY <1>7, <1>1 DEF Tell
  <2>2. (drv' = drv /\ id \in drv.recv) \/ drv' = [drv EXCEPT !.recv = @ \cup {id}, !.waker = "none"]
    BY <2>1, <1>t, TellRecvFacts
  <2>3. /\ drv'.recv = drv.recv \cup {id} /\ drv'.send = drv.send /\ drv'.creq = drv.creq
        /\ drv'.open = drv.open BY <2>2, <1>t DEF DrvType
  <2>4. Touch(id, h) BY <2>3, <1>3, <1>5, <1>t DEF Touch
  <2>5. h = RecvOf(id) BY <1>7, <1>1, IdFacts DEF SendOf, RecvOf
  <2>6. StreamOne(id) /\ rs'[id] = rs[id] /\ ss'[id] = ss[id] BY <1>5 DEF ServeInv
  <2>7. rs[id].closed => rs[id].reset \/ rs[id].stop \/ rs[id].fin BY <2>5, <2>6 DEF StreamOne, RecvOne
  <2>8. QED BY <1>4, <2>4, <2>5, <2>6, <2>7, RecvTouch
<1>8. QED BY <1>6, <1>7

\* What the second look of a call does to DriverState.
LEMMA CheckFacts ==
  ASSUME TypeOK, NEW h \in Halves, Check(h)
  PROVE  /\ drv'.send = drv.send /\ drv'.creq = drv.creq /\ drv'.closed = drv.closed
         /\ drv'.open = drv.open /\ drv'.est = drv.est /\ drv'.hsw = drv.hsw
         /\ \A i : i # h[1] => (i \in drv'.recv <=> i \in drv.recv)
         /\ drv.recv \subseteq drv'.recv
         /\ ap'[h].pc = "wait" /\ ap[h].op = "read" => h[1] \in drv'.recv
         /\ drv.crw \subseteq drv'.crw /\ drv.clw \subseteq drv'.clw /\ awake \subseteq awake'
         /\ ap[h].pc = "check" /\ ap'[h].pc \in {"wait", "idle"}
         /\ ap'[h].pc = "wait" => /\ ap'[h].op = ap[h].op
                                  /\ IF ap[h].op = "flush" THEN drv.closed = "none" /\ h \in drv'.clw
                                     ELSE ErrorOf(drv) = "none" /\ h \in drv'.crw
         /\ \A g \in Halves : g # h => ap'[g] = ap[g]
<1>t. drv \in DrvType /\ h \in Tasks /\ h[1] \in Ids BY IdFacts DEF TypeOK, Tasks
<1>0. PICK flush : flush = (ap[h].op = "flush") OBVIOUS
<1>1. PICK v : v = IF ap[h].op = "flush" THEN [drv EXCEPT !.clw = @ \cup {h}] ELSE PollError(drv, h) OBVIOUS
<1>2. PICK t : t = IF ap[h].op = "read" THEN TellRecv(v, h[1]) ELSE <<v, {}>> OBVIOUS
<1>3. \/ /\ Goes(h, "idle", ap[h].op) /\ UNCHANGED <<drv, awake>>
      \/ /\ IF ap[h].op = "flush" THEN drv.closed = "none" ELSE ErrorOf(drv) = "none"
         /\ drv' = t[1] /\ awake' = awake \cup t[2] /\ Goes(h, "wait", ap[h].op) BY <1>1, <1>2 DEF Check
<1>p. ap[h].pc = "check" BY DEF Check
<1>4. CASE Goes(h, "idle", ap[h].op) /\ UNCHANGED <<drv, awake>>
  <2>1. ap'[h].pc = "idle" /\ \A g \in Halves : g # h => ap'[g] = ap[g] BY <1>4, GoesFacts
  <2>2. QED BY <1>4, <1>p, <2>1
<1>5. CASE /\ IF ap[h].op = "flush" THEN drv.closed = "none" ELSE ErrorOf(drv) = "none"
           /\ drv' = t[1] /\ awake' = awake \cup t[2] /\ Goes(h, "wait", ap[h].op)
  <2>1. ap'[h].pc = "wait" /\ ap'[h].op = ap[h].op /\ \A g \in Halves : g # h => ap'[g] = ap[g] BY <1>5, GoesFacts
  <2>2. /\ v \in DrvType /\ v.send = drv.send /\ v.recv = drv.recv /\ v.creq = drv.creq
        /\ v.closed = drv.closed /\ v.open = drv.open /\ v.est = drv.est /\ v.hsw = drv.hsw
        /\ drv.crw \subseteq v.crw /\ drv.clw \subseteq v.clw
        /\ IF ap[h].op = "flush" THEN h \in v.clw ELSE h \in v.crw
    <3>1. CASE ap[h].op = "flush"
      <4>1. PICK c : c = drv.clw \cup {h} OBVIOUS
      <4>2. v = [drv EXCEPT !.clw = c] /\ c \in SUBSET Tasks BY <4>1, <3>1, <1>1, <1>t DEF DrvType
      <4>3. QED BY <4>1, <4>2, <3>1, <1>t DEF DrvType
    <3>2. CASE ap[h].op # "flush"
      <4>1. drv.creq = "none" /\ drv.closed = "none" BY <1>5, <3>2 DEF ErrorOf
      <4>2. PICK c : c = drv.clw \cup {h} OBVIOUS
      <4>3. PICK e : e = drv.crw \cup {h} OBVIOUS
      <4>4. v = [drv EXCEPT !.crw = e, !.clw = c] /\ c \in SUBSET Tasks /\ e \in SUBSET Tasks
        BY <4>1, <4>2, <4>3, <3>2, <1>1, <1>t DEF PollError, DrvType
      <4>5. QED BY <4>2, <4>3, <4>4, <3>2, <1>t DEF DrvType
    <3>3. QED BY <3>1, <3>2
  <2>3. \/ t[1] = v /\ ap[h].op # "read"
        \/ t[1] = v /\ h[1] \in v.recv
        \/ t[1] = [v EXCEPT !.recv = @ \cup {h[1]}, !.waker = "none"]
    <3>1. CASE ap[h].op = "read" BY <3>1, <1>2, <2>2, <1>t, TellRecvFacts
    <3>2. CASE ap[h].op # "read" BY <3>2, <1>2
    <3>3. QED BY <3>1, <3>2
  <2>4. /\ drv'.send = v.send /\ drv'.creq = v.creq /\ drv'.closed = v.closed
        /\ drv'.open = v.open /\ drv'.est = v.est /\ drv'.hsw = v.hsw /\ drv'.crw = v.crw /\ drv'.clw = v.clw
        /\ drv'.recv = v.recv \/ drv'.recv = v.recv \cup {h[1]}
        /\ ap[h].op = "read" => h[1] \in drv'.recv BY <1>5, <2>2, <2>3 DEF DrvType
  <2>5. QED BY <1>5, <1>p, <2>1, <2>2, <2>4
<1>6. QED BY <1>3, <1>4, <1>5

\* A call that goes to sleep had nothing to return, and has asked for data.
LEMMA CheckServes ==
  ASSUME TypeOK, TypeOK', ServeInv, NEW h \in Halves, Check(h)
  PROVE  ServeInv'
<1>1. PICK id \in Ids : id = h[1] BY IdFacts
<1>2. UNCHANGED <<ss, rs, sends, recvs, d, q, qs>> BY DEF Check
<1>3. /\ drv'.send = drv.send /\ drv'.creq = drv.creq /\ drv'.open = drv.open
      /\ \A i : i # id => (i \in drv'.recv <=> i \in drv.recv)
      /\ drv.recv \subseteq drv'.recv
      /\ ap'[h].pc = "wait" /\ ap[h].op = "read" => id \in drv'.recv
      /\ awake \subseteq awake' /\ ap[h].pc = "check" /\ ap'[h].pc \in {"wait", "idle"}
      /\ ap'[h].pc = "wait" => ap'[h].op = ap[h].op
      /\ \A g \in Halves : g # h => ap'[g] = ap[g] BY <1>1, CheckFacts
<1>4. Touch(id, h) BY <1>2, <1>3 DEF Touch
<1>5. ((Waits(h))' => Waits(h) /\ ap'[h].op = ap[h].op) /\ ((Sleeping(h))' => ap'[h].pc = "wait")
  BY <1>3 DEF Waits, Sleeping
<1>6. StreamOne(id) /\ rs'[id] = rs[id] /\ ss'[id] = ss[id] BY <1>2 DEF ServeInv
<1>7. ASSUME h = SendOf(id) PROVE ServeInv'
  <2>1. ss[id].closed => ss[id].reset \/ ss[id].stop \/ (ss[id].fin /\ ss[id].queued = 0)
    BY <1>6, <1>7 DEF StreamOne, SendOne
  <2>2. (Waits(h))' =>
          /\ ss[id].blocked /\ ~Dead(ss[id]) /\ ap'[h].op \in {"write", "flush", "closed"}
          /\ ap'[h].op = "write" => ss[id].cap = 0 /\ ~ss[id].fin
          /\ ap'[h].op = "flush" => ss[id].queued > 0
          /\ ap'[h].op = "closed" => ~ss[id].closed BY <1>5, <1>6, <1>7 DEF StreamOne, SendOne
  <2>3. QED BY <1>3, <1>4, <1>6, <1>7, <2>1, <2>2, SendTouch
<1>8. ASSUME h = RecvOf(id) PROVE ServeInv'
  <2>1. rs[id].closed => rs[id].reset \/ rs[id].stop \/ rs[id].fin BY <1>6, <1>8 DEF StreamOne, RecvOne
  <2>2. (Waits(h))' =>
          /\ rs[id].blocked /\ ~Dead(rs[id]) /\ ap'[h].op \in {"read", "closed"}
          /\ ap'[h].op = "read" => rs[id].queued = 0 /\ ~rs[id].fin /\ rs[id].max > 0
          /\ ap'[h].op = "closed" => ~(rs[id].fin /\ rs[id].queued = 0) BY <1>5, <1>6, <1>8 DEF StreamOne, RecvOne
  <2>4. (Sleeping(h))' /\ ap'[h].op = "read" => id \in drv'.recv BY <1>3, <1>5
  <2>3. QED BY <1>4, <1>6, <1>8, <2>1, <2>2, <2>4, RecvTouch
<1>9. QED BY <1>1, <1>7, <1>8, IdFacts

\* A stream is taken out of the accept channel.
LEMMA AcceptServes ==
  ASSUME TypeOK, TypeOK', ServeInv, NEW id \in Ids, Accept(id)
  PROVE  ServeInv'
<1>1. /\ UNCHANGED <<drv, ss, rs, sends, recvs, d, q, qs, awake>>
      /\ ap' = [h \in Halves |-> IF h[1] = id /\ ap[h].pc = "queued"
                                 THEN [ap[h] EXCEPT !.pc = "idle"] ELSE ap[h]] BY DEF Accept
<1>2. ASSUME NEW h \in Halves PROVE SameHandle(h)
  <2>1. ap[h] \in HandleType BY DEF TypeOK
  <2>2. QED BY <1>1, <2>1 DEF SameHandle, HandleType
<1>3. (\A k \in Kinds : (Created(k))' = Created(k)) /\ drv \in DrvType /\ q.credit \in Nat
  BY <1>1 DEF Created, TypeOK, QuicheType
<1>4. ASSUME NEW j \in Ids PROVE StreamOne(j)'
  <2>1. Kind(j) \in Kinds /\ drv.open[Kind(j)].next \in Nat BY IdFacts DEF TypeOK, DrvType, OpenType
  <2>2. SameAt(j) BY <1>1, <1>2, <1>3, <2>1 DEF SameAt
  <2>3. QED BY <2>2, SameAtKeeps DEF ServeInv
<1>5. QED BY <1>1, <1>3, <1>4 DEF ServeInv, CreatedInv, TakenInv

-----------------------------------------------------------------------------
(* The peer, and the end of the connection                                  *)

\* An id below the next one, with the next one's remainder, is of this end and of
\* that kind.
LEMMA OwnIds ==
  ASSUME NEW i \in Nat, NEW k \in Kinds, i % 4 = FirstId(k, Server)
  PROVE  Mine(i) /\ Kind(i) = k /\ (i + 4) % 4 = FirstId(k, Server)
<1>s. Server \in BOOLEAN BY EzAssumption
<1>0. i % 4 = 0 \/ i % 4 = 1 \/ i % 4 = 2 \/ i % 4 = 3 OBVIOUS
<1>1. /\ i % 4 = 0 => i % 2 = 0
      /\ i % 4 = 1 => i % 2 = 1
      /\ i % 4 = 2 => i % 2 = 0
      /\ i % 4 = 3 => i % 2 = 1
      /\ (i + 4) % 4 = i % 4 OBVIOUS
<1>2. k = "uni" \/ k = "bi" BY DEF Kinds
<1>4. IsServer(i) <=> Server
  <2>1. CASE Server
    <3>1. FirstId(k, Server) \in {1, 3} BY <1>2, <2>1 DEF FirstId
    <3>2. QED BY <1>1, <3>1, <2>1 DEF IsServer
  <2>2. CASE ~Server
    <3>1. FirstId(k, Server) \in {0, 2} BY <1>2, <2>2 DEF FirstId
    <3>2. QED BY <1>1, <3>1, <2>2 DEF IsServer
  <2>3. QED BY <2>1, <2>2
<1>5. IsUni(i) <=> k = "uni"
  <2>1. CASE k = "uni"
    <3>1. FirstId(k, Server) \in {2, 3} BY <1>s, <2>1 DEF FirstId
    <3>2. QED BY <1>1, <3>1, <2>1 DEF IsUni
  <2>2. CASE k = "bi"
    <3>1. FirstId(k, Server) \in {0, 1} BY <1>s, <2>2 DEF FirstId
    <3>2. QED BY <1>1, <3>1, <2>2 DEF IsUni
  <2>3. QED BY <1>2, <2>1, <2>2
<1>6. Mine(i) BY <1>s, <1>4, Zenon DEF Mine, IsServer
<1>7. QED BY <1>1, <1>2, <1>5, <1>6 DEF Kind

\* A stream this end opens is none of the peer's, and its handles.
LEMMA OwnHandles ==
  ASSUME NEW id \in Ids
  PROVE  /\ Mine(id) => \A p \in Plans : id \notin p.peer
         /\ Mine(id) => SendOf(id) \in Halves
         /\ Mine(id) /\ IsUni(id) => RecvOf(id) \notin Halves
         /\ SendOf(id) \in Halves /\ RecvOf(id) \in Halves => ~IsUni(id)
         /\ ~IsUni(id) => SendOf(id) \in Halves /\ RecvOf(id) \in Halves
<1>1. Mine(id) => \A p \in Plans : id \notin p.peer BY PeerIds DEF Mine
<1>2. Mine(id) => id \in LocalIds BY <1>1 DEF Ids
<1>3. RecvOf(id) \in Halves <=> id \notin LocalIds \/ ~IsUni(id) BY DEF Halves, RecvOf
<1>4. SendOf(id) \in Halves <=> id \in LocalIds \/ ~IsUni(id) BY DEF Halves, SendOf
<1>5. QED BY <1>1, <1>2, <1>3, <1>4

\* A stream that waits to be created is this end's.
LEMMA CreatedMine ==
  ASSUME CreatedInv, NEW id \in Ids, NEW k \in Kinds, id \in Created(k)
  PROVE  Mine(id) /\ Kind(id) = k
BY IdFacts, OwnIds DEF CreatedInv

\* A stream the peer reaches exists, or is the peer's.
LEMMA ArrivedFacts ==
  ASSUME TypeOK, ServeInv, plan \in Plans, NEW id \in Ids, Arrived(id)
  PROVE  /\ id \notin Created(Kind(id))
         /\ ~(Mine(id) /\ id >= drv.open[Kind(id)].next)
<1>1. StreamOne(id) /\ CreatedInv /\ Kind(id) \in Kinds BY IdFacts DEF ServeInv
<1>2. Mine(id) => qs[id].made BY OwnHandles DEF Arrived
<1>3. QED BY <1>1, <1>2, CreatedMine DEF StreamOne, NewOne, Untouched

\* What a step of the network leaves alone.
LEMMA NetOthers ==
  ASSUME TypeOK, TypeOK', ServeInv, NetFrame, q'.credit = q.credit, NEW id \in Ids,
         \A j \in Ids : j # id => qs'[j] = qs[j]
  PROVE  /\ CreatedInv' /\ TakenInv' /\ \A k \in Kinds : (Created(k))' = Created(k)
         /\ \A j \in Ids : j # id => StreamOne(j)'
<1>1. \A k \in Kinds : (Created(k))' = Created(k) BY DEF NetFrame, Created
<1>2. CreatedInv' /\ TakenInv' BY <1>1 DEF ServeInv, CreatedInv, TakenInv, NetFrame
<1>3. ASSUME NEW j \in Ids, j # id PROVE StreamOne(j)'
  <2>1. Kind(j) \in Kinds /\ q.credit \in Nat /\ drv.open[Kind(j)].next \in Nat
    BY IdFacts DEF TypeOK, QuicheType, DrvType, OpenType
  <2>2. SameAt(j) BY <1>1, <1>3, <2>1 DEF NetFrame, SameAt, SameHandle
  <2>3. QED BY <2>2, SameAtKeeps DEF ServeInv
<1>4. QED BY <1>1, <1>2, <1>3

\* The peer's frames on a stream.
LEMMA PeerServes ==
  ASSUME TypeOK, TypeOK', ServeInv, plan \in Plans, ~EarlyStop, NEW id \in Ids,
         PeerData(id) \/ PeerFin(id) \/ PeerReset(id) \/ PeerStop(id)
  PROVE  ServeInv'
<1>t. qs \in [Ids -> StreamType] /\ qs[id] \in StreamType /\ Kind(id) \in Kinds BY IdFacts DEF TypeOK
<1>f. NetFrame /\ q' = q /\ Arrived(id) BY DEF PeerData, PeerFin, PeerReset, PeerStop
<1>a. id \notin Created(Kind(id)) /\ ~(Mine(id) /\ id >= drv.open[Kind(id)].next) BY <1>f, ArrivedFacts
<1>s. /\ UNCHANGED <<drv, ss, rs, sends, recvs, d, ap, awake>> /\ q'.credit = q.credit
      /\ StreamOne(id) BY <1>f DEF NetFrame, ServeInv
<1>w. \A h \in Halves : ((Waits(h))' <=> Waits(h)) /\ ((Sleeping(h))' <=> Sleeping(h)) BY <1>s DEF Waits, Sleeping
<1>1. ASSUME PeerData(id) \/ PeerFin(id) \/ PeerReset(id)
      PROVE  /\ \A j \in Ids : j # id => qs'[j] = qs[j]
             /\ StreamOne(id)'
  <2>1. /\ \A j \in Ids : j # id => qs'[j] = qs[j]
        /\ qs'[id].made /\ qs'[id].rarmed /\ qs'[id].fin = qs[id].fin /\ qs'[id].rst = qs[id].rst
        /\ qs'[id].stopped = qs[id].stopped /\ qs'[id].armed = qs[id].armed /\ qs'[id].rend = qs[id].rend
    <3>1. CASE PeerData(id)
      <4>1. qs' = [qs EXCEPT ![id].made = TRUE, ![id].rbuf = @ + 1, ![id].got = @ + 1, ![id].rarmed = TRUE]
        BY <3>1 DEF PeerData
      <4>2. QED BY <4>1, <1>t DEF StreamType
    <3>2. CASE PeerFin(id)
      <4>1. qs' = [qs EXCEPT ![id].made = TRUE, ![id].rfin = TRUE, ![id].rarmed = TRUE] BY <3>2 DEF PeerFin
      <4>2. QED BY <4>1, <1>t DEF StreamType
    <3>3. CASE PeerReset(id)
      <4>1. qs' = [qs EXCEPT ![id].made = TRUE, ![id].rrst = TRUE, ![id].rbuf = 0, ![id].rarmed = TRUE]
        BY <3>3 DEF PeerReset
      <4>2. QED BY <4>1, <1>t DEF StreamType
    <3>4. QED BY <1>1, <3>1, <3>2, <3>3
  <2>2. ~qs[id].rend /\ RecvOf(id) \in Halves BY <1>1 DEF PeerData, PeerFin, PeerReset, Unfinished, RecvOf
  <2>3. (Created(Kind(id)))' = Created(Kind(id)) BY <1>s, <1>t DEF Created
  <2>4. (NewOne(id))' BY <1>a, <1>s, <2>1, <2>2, <2>3 DEF StreamOne, NewOne
  <2>5. (FreshOne(id))' BY <1>s, <2>1, <2>3 DEF StreamOne, FreshOne, Blank
  <2>6. (SendOne(id))' BY <1>s, <1>w, <2>1, <2>3 DEF StreamOne, SendOne
  <2>7. (RecvOne(id))' BY <1>s, <1>w, <2>1, <2>3 DEF StreamOne, RecvOne
  <2>8. QED BY <2>1, <2>4, <2>5, <2>6, <2>7 DEF StreamOne
<1>2. ASSUME PeerStop(id)
      PROVE  /\ \A j \in Ids : j # id => qs'[j] = qs[j]
             /\ StreamOne(id)'
  <2>0. /\ qs' = [qs EXCEPT ![id].made = TRUE, ![id].stopped = TRUE, ![id].armed = TRUE]
        /\ id \in sends BY <1>2 DEF PeerStop
  <2>1. /\ \A j \in Ids : j # id => qs'[j] = qs[j]
        /\ qs'[id].made /\ qs'[id].armed /\ qs'[id].fin = qs[id].fin /\ qs'[id].rst = qs[id].rst
        /\ qs'[id].rarmed = qs[id].rarmed /\ qs'[id].rend = qs[id].rend
        /\ qs'[id].rbuf = qs[id].rbuf /\ qs'[id].rfin = qs[id].rfin /\ qs'[id].rrst = qs[id].rrst
    BY <2>0, <1>t DEF StreamType
  <2>3. (Created(Kind(id)))' = Created(Kind(id)) BY <1>s, <1>t DEF Created
  <2>4. (NewOne(id))' BY <1>a, <1>s, <2>1, <2>3 DEF StreamOne, NewOne
  <2>5. (FreshOne(id))' BY <1>s, <2>0, <2>1, <2>3 DEF StreamOne, FreshOne, Blank
  <2>6. (SendOne(id))' BY <1>s, <1>w, <2>1, <2>3 DEF StreamOne, SendOne
  <2>7. (RecvOne(id))' BY <1>s, <1>w, <2>1, <2>3 DEF StreamOne, RecvOne
  <2>8. QED BY <2>1, <2>4, <2>5, <2>6, <2>7 DEF StreamOne
<1>3. StreamOne(id)' /\ \A j \in Ids : j # id => qs'[j] = qs[j] BY <1>1, <1>2
<1>4. QED BY <1>3, <1>f, <1>s, NetOthers DEF ServeInv

\* More credit: every open stream is writable again.
LEMMA CreditServes ==
  ASSUME TypeOK, TypeOK', ServeInv, PeerCredit
  PROVE  ServeInv'
<1>f. NetFrame BY DEF PeerCredit
<1>s. UNCHANGED <<drv, ss, rs, sends, recvs, d, ap, awake>> BY <1>f DEF NetFrame
<1>c. \A k \in Kinds : (Created(k))' = Created(k) BY <1>s DEF Created
<1>w. \A h \in Halves : ((Waits(h))' <=> Waits(h)) /\ ((Sleeping(h))' <=> Sleeping(h)) BY <1>s DEF Waits, Sleeping
<1>1. ASSUME NEW id \in Ids PROVE StreamOne(id)'
  <2>1. qs[id] \in StreamType /\ Kind(id) \in Kinds /\ StreamOne(id) BY IdFacts DEF TypeOK, ServeInv
  <2>2. qs'[id] = [qs[id] EXCEPT !.armed = @ \/ (qs[id].made /\ ~qs[id].fin /\ ~qs[id].rst)] BY DEF PeerCredit
  <2>3. /\ qs'[id].made = qs[id].made /\ qs'[id].fin = qs[id].fin /\ qs'[id].rst = qs[id].rst
        /\ qs'[id].rarmed = qs[id].rarmed /\ qs'[id].rend = qs[id].rend
        /\ qs'[id].rbuf = qs[id].rbuf /\ qs'[id].rfin = qs[id].rfin /\ qs'[id].rrst = qs[id].rrst
        /\ qs'[id].stopped = qs[id].stopped
        /\ qs[id].made /\ ~qs[id].fin /\ ~qs[id].rst => qs'[id].armed BY <2>1, <2>2 DEF StreamType
  <2>4. (NewOne(id))' BY <1>s, <1>c, <2>1, <2>3 DEF StreamOne, NewOne, Untouched
  <2>5. (FreshOne(id))' BY <1>s, <1>c, <2>1, <2>3 DEF StreamOne, FreshOne, Blank
  <2>6. (SendOne(id))' BY <1>s, <1>c, <1>w, <2>1, <2>3 DEF StreamOne, SendOne
  <2>7. (RecvOne(id))' BY <1>s, <1>c, <1>w, <2>1, <2>3 DEF StreamOne, RecvOne
  <2>8. QED BY <2>4, <2>5, <2>6, <2>7 DEF StreamOne
<1>2. CreatedInv' /\ TakenInv' BY <1>s, <1>c DEF ServeInv, CreatedInv, TakenInv
<1>3. QED BY <1>1, <1>2 DEF ServeInv

\* The connection ends: the driver is gone with its streams.
LEMMA CloseServes ==
  ASSUME TypeOK, TypeOK', ServeInv, OnConnClose
  PROVE  ServeInv'
<1>t. drv \in DrvType BY DEF TypeOK
<1>0. PICK v : v = [drv EXCEPT !.closed = CloseReason, !.clw = {}] OBVIOUS
<1>1. /\ drv' = Abort(v, CloseReason)[1] /\ d' = [NewDriver EXCEPT !.pc = "done"]
      /\ sends' = {} /\ recvs' = {} /\ UNCHANGED <<ss, rs, q, qs, ap>>
      /\ awake \subseteq awake' BY <1>0 DEF OnConnClose
<1>2. CloseReason \in Errors BY CloseReasonFacts
<1>3. /\ v \in DrvType /\ v.send = drv.send /\ v.recv = drv.recv /\ v.open = drv.open
      /\ v.creq = drv.creq BY <1>0, <1>2, <1>t DEF DrvType, Reasons
<1>4. /\ drv'.send = drv.send /\ drv'.recv = drv.recv /\ drv'.open = drv.open /\ drv'.creq # "none"
  <2>1. CloseReason # "none" BY <1>2 DEF Errors
  <2>2. CASE v.creq # "none" BY <1>1, <1>2, <1>3, <2>2, AbortFacts
  <2>3. CASE v.creq = "none"
    <3>1. drv' = [v EXCEPT !.creq = CloseReason, !.crw = {}] BY <1>1, <1>2, <1>3, <2>3, AbortFacts
    <3>2. QED BY <3>1, <2>1, <1>3 DEF DrvType
  <2>4. QED BY <2>2, <2>3
<1>5. d'.pc = "done" /\ d'.recv = {} /\ d'.send = {} BY <1>1 DEF NewDriver
<1>c. \A k \in Kinds : (Created(k))' = Created(k) BY <1>4 DEF Created
<1>w. \A h \in Halves : ((Waits(h))' => Waits(h)) /\ ((Sleeping(h))' => Sleeping(h)) BY <1>1 DEF Waits, Sleeping
<1>6. ASSUME NEW id \in Ids PROVE StreamOne(id)'
  <2>1. Kind(id) \in Kinds /\ StreamOne(id) BY IdFacts DEF ServeInv
  <2>4. (NewOne(id))' BY <1>1, <1>4, <1>5, <1>c, <2>1 DEF StreamOne, NewOne, Untouched
  <2>5. (FreshOne(id))' BY <1>5 DEF FreshOne
  <2>6. (SendOne(id))' BY <1>1, <1>4, <1>5, <1>w, <2>1 DEF StreamOne, SendOne
  <2>7. (RecvOne(id))' BY <1>1, <1>4, <1>5, <1>w, <2>1 DEF StreamOne, RecvOne
  <2>8. QED BY <2>4, <2>5, <2>6, <2>7 DEF StreamOne
<1>7. CreatedInv' /\ TakenInv' BY <1>4, <1>5, <1>c DEF ServeInv, CreatedInv, TakenInv
<1>8. QED BY <1>6, <1>7 DEF ServeInv

-----------------------------------------------------------------------------
(* A turn of the driver on one stream                                       *)

\* Driver::abort: the rest of what the driver took is forgotten, and the
\* connection is about to end.
LEMMA FailedFacts ==
  ASSUME TypeOK, NEW err \in Errors, Failed(err)
  PROVE  /\ drv'.send = drv.send /\ drv'.recv = drv.recv /\ drv'.open = drv.open
         /\ drv'.creq # "none" /\ d'.send = {} /\ d'.recv = {} /\ d'.pc # "done" /\ awake \subseteq awake'
<1>t. drv \in DrvType /\ err # "none" BY DEF TypeOK, Errors
<1>0. PICK a : a = Abort(drv, err) OBVIOUS
<1>1. drv' = a[1] /\ awake' = awake \cup Fire(a[2]) /\ d' = [NewDriver EXCEPT !.pc = NextPhase(d.pc)] BY <1>0 DEF Failed
<1>2. \/ drv' = drv /\ drv.creq # "none"
      \/ drv' = [drv EXCEPT !.creq = err, !.crw = {}] BY <1>0, <1>1, <1>t, AbortFacts, ZenonT(60)
<1>3. /\ drv'.send = drv.send /\ drv'.recv = drv.recv /\ drv'.open = drv.open
      /\ drv'.creq # "none" BY <1>2, <1>t DEF DrvType
<1>4. d'.send = {} /\ d'.recv = {} /\ d'.pc # "done" BY <1>1 DEF NewDriver, NextPhase
<1>5. QED BY <1>1, <1>3, <1>4

\* A step of the driver on one stream.
At(id) ==
  /\ \A j \in Ids : j # id =>
       /\ ss'[j] = ss[j] /\ rs'[j] = rs[j] /\ qs'[j] = qs[j]
       /\ (j \in sends' <=> j \in sends) /\ (j \in recvs' <=> j \in recvs)
  /\ \A h \in Halves : h[1] # id => ap'[h] = ap[h]
  /\ awake \subseteq awake' /\ q'.credit <= q.credit /\ d.pc # "done" /\ d'.pc # "done"
  /\ drv'.send = drv.send /\ drv'.recv = drv.recv /\ drv'.open = drv.open
  /\ \/ /\ drv'.creq = drv.creq
        /\ \A j \in Ids : j # id => (j \in d'.send <=> j \in d.send) /\ (j \in d'.recv <=> j \in d.recv)
     \/ drv'.creq # "none" /\ d'.send = {} /\ d'.recv = {}

\* The other streams do not notice.
LEMMA AtOthers ==
  ASSUME TypeOK, TypeOK', ServeInv, NEW id \in Ids, At(id)
  PROVE  /\ CreatedInv'
         /\ \A k \in Kinds : (Created(k))' = Created(k)
         /\ \A j \in Ids : j # id => StreamOne(j)'
<1>1. \A k \in Kinds : (Created(k))' = Created(k) BY DEF At, Created
<1>2. CreatedInv' BY <1>1 DEF ServeInv, CreatedInv, At
<1>4. ASSUME NEW j \in Ids, j # id PROVE StreamOne(j)'
  <2>1. Kind(j) \in Kinds /\ drv.open[Kind(j)].next \in Nat BY IdFacts DEF TypeOK, DrvType, OpenType
  <2>2. \A g \in Halves : g[1] = j => SameHandle(g) /\ (g \in awake => g \in awake') BY <1>4 DEF At, SameHandle
  <2>3. SameAt(j) BY <1>1, <1>4, <2>1, <2>2 DEF At, SameAt
  <2>4. QED BY <2>3, SameAtKeeps DEF ServeInv
<1>5. QED BY <1>1, <1>2, <1>4

\* A waker that the handle of a stream left there and that is taken.
LEMMA Roused ==
  ASSUME TypeOK, NEW h \in Halves, ap' = ap, awake \subseteq awake'
  PROVE  /\ (Waits(h))' => Waits(h)
         /\ (Sleeping(h))' => Sleeping(h)
         /\ Waits(h) /\ Fire({h}) \subseteq awake' => ~(Waits(h))'
BY DEF Waits, Sleeping, Fire, Pending

\* The driver flushes the send side of a stream it knows.
LEMMA SendTurn ==
  ASSUME TypeOK, TypeOK', ServeInv, TakenInv', NEW id \in Ids, id \in sends,
         NEW k \in StreamType, k.made = qs[id].made, k.fin = qs[id].fin, k.rst = qs[id].rst,
         SameRecvSide(k, qs[id]),
         NEW next, next.pc = d.pc, d.pc # "done", next.recv = d.recv,
         next.send = d.send \/ next.send = d.send \ {id},
         FlushSendOf(id, k, next), UNCHANGED <<rs, recvs, ap>>
  PROVE  ServeInv'
<1> DEFINE h == SendOf(id)
<1>0. PICK f : f = SendFlush(id, k) OBVIOUS
<1>t. /\ ss \in [Ids -> SendType] /\ qs \in [Ids -> StreamType] /\ q \in QuicheType
      /\ Kind(id) \in Kinds /\ StreamOne(id) BY IdFacts DEF TypeOK, ServeInv
<1>h. h \in Halves /\ h = <<id, "send">> /\ h[1] = id /\ SendHalf(id) = {h}
  BY <1>t DEF StreamOne, NewOne, SendOf, SendHalf
<1>s. /\ ~ss[id].closed /\ ~ss[id].stop /\ qs[id].made /\ ~qs[id].fin /\ ~qs[id].rst
      /\ Waits(h) => ss[id].blocked BY <1>t, <1>h DEF StreamOne, SendOne
<1>1. SendShape(ss[id], k, q.credit, f) BY <1>0, <1>s, SendShapes
<1>n. id \notin Created(Kind(id)) /\ ~(Mine(id) /\ id >= drv.open[Kind(id)].next)
  BY <1>t DEF StreamOne, NewOne, Untouched
<1>b. ~Blank(id) BY DEF Blank
<1>2. CASE f.err
  <2>1. /\ Failed("quiche") /\ qs' = [qs EXCEPT ![id] = k] /\ UNCHANGED <<ss, q, sends>> BY <1>0, <1>2 DEF FlushSendOf
  <2>2. /\ drv'.send = drv.send /\ drv'.recv = drv.recv /\ drv'.open = drv.open
        /\ drv'.creq # "none" /\ d'.send = {} /\ d'.recv = {} /\ d'.pc # "done"
        /\ awake \subseteq awake' BY <2>1, FailedFacts DEF Errors
  <2>3. qs'[id] = k /\ \A j \in Ids : j # id => qs'[j] = qs[j] BY <2>1, <1>t
  <2>4. q'.credit <= q.credit BY <2>1, <1>t DEF QuicheType
  <2>5. At(id) BY <2>1, <2>2, <2>3, <2>4 DEF At
  <2>6. /\ CreatedInv' /\ (\A x \in Kinds : (Created(x))' = Created(x))
        /\ \A j \in Ids : j # id => StreamOne(j)' BY <2>5, AtOthers
  <2>w. \A g \in Halves : ((Waits(g))' => Waits(g)) /\ ((Sleeping(g))' => Sleeping(g)) BY <2>2, Roused
  <2>7. (NewOne(id))' BY <1>t, <1>n, <2>1, <2>2, <2>3, <2>6 DEF StreamOne, NewOne, SameRecvSide
  <2>8. (FreshOne(id))' BY <1>t, <1>b, <2>1, <2>2, <2>3, <2>6 DEF StreamOne, FreshOne, SameRecvSide
  <2>9. (SendOne(id))' BY <1>t, <2>1, <2>2, <2>3, <2>6, <2>w DEF StreamOne, SendOne
  <2>10. (RecvOne(id))' BY <1>t, <2>1, <2>2, <2>3, <2>6, <2>w DEF StreamOne, RecvOne, SameRecvSide
  <2>11. QED BY <2>6, <2>7, <2>8, <2>9, <2>10 DEF ServeInv, StreamOne
<1>3. CASE ~f.err
  <2>1. /\ ss' = [ss EXCEPT ![id] = f.st] /\ qs' = [qs EXCEPT ![id] = f.k] /\ q' = [q EXCEPT !.credit = f.credit]
        /\ sends' = (IF f.st.closed THEN sends \ {id} ELSE sends)
        /\ awake' = awake \cup Fire(IF f.wake THEN SendHalf(id) ELSE {})
        /\ d' = next /\ UNCHANGED drv BY <1>0, <1>3 DEF FlushSendOf
  <2>2. /\ ss'[id] = f.st /\ qs'[id] = f.k /\ q'.credit = f.credit
        /\ \A j \in Ids : j # id => ss'[j] = ss[j] /\ qs'[j] = qs[j] /\ (j \in sends' <=> j \in sends)
    BY <2>1, <1>t DEF QuicheType
  <2>3. /\ f.credit <= q.credit /\ SameRecvSide(f.k, qs[id])
        /\ \/ /\ f.st.closed /\ ~f.st.blocked /\ (f.wake <=> ss[id].blocked)
              /\ f.st.reset \/ f.st.stop \/ (f.st.fin /\ f.st.queued = 0)
           \/ /\ ~f.st.closed /\ ~f.st.reset /\ ~f.st.stop /\ f.st.fin = ss[id].fin
              /\ ~f.k.stopped /\ ~f.k.fin /\ ~f.k.rst /\ f.st.cap = f.credit
              /\ \/ ~f.st.blocked /\ (f.wake <=> ss[id].blocked)
                 \/ f.st.queued > 0 /\ f.st.cap = 0 /\ f.st.blocked = ss[id].blocked
    BY <1>1, <1>3, <1>s DEF SendShape, SameRecvSide
  <2>4. awake \subseteq awake' /\ (f.wake => Fire({h}) \subseteq awake') BY <2>1, <1>h
  <2>5. At(id) BY <2>1, <2>2, <2>3, <2>4 DEF At
  <2>6. /\ CreatedInv' /\ (\A x \in Kinds : (Created(x))' = Created(x))
        /\ \A j \in Ids : j # id => StreamOne(j)' BY <2>5, AtOthers
  <2>w. \A g \in Halves : ((Waits(g))' => Waits(g)) /\ ((Sleeping(g))' => Sleeping(g)) BY <2>4, Roused
  <2>v. (Waits(h))' => Waits(h) /\ ss[id].blocked /\ ~f.wake BY <2>4, <1>h, <1>s, <2>w, Roused
  <2>7. (NewOne(id))' BY <1>t, <1>n, <1>h, <2>1, <2>2, <2>3, <2>6 DEF StreamOne, NewOne, SameRecvSide
  <2>8. (FreshOne(id))' BY <1>t, <1>b, <2>1, <2>2, <2>3, <2>6 DEF StreamOne, FreshOne, SameRecvSide
  <2>9. (SendOne(id))'
    <3>1. CASE f.st.closed
      <4>1. ss'[id].closed /\ id \notin sends' /\ ~(Waits(h))' BY <3>1, <2>1, <2>2, <2>3, <2>v
      <4>2. ss'[id].reset \/ ss'[id].stop \/ (ss'[id].fin /\ ss'[id].queued = 0) BY <3>1, <2>2, <2>3
      <4>3. QED BY <4>1, <4>2 DEF SendOne
    <3>2. CASE ~f.st.closed
      <4>1. /\ ~ss'[id].closed /\ ~ss'[id].reset /\ ~ss'[id].stop /\ ss'[id].fin = ss[id].fin
            /\ ~qs'[id].stopped /\ ~qs'[id].fin /\ ~qs'[id].rst /\ ss'[id].cap = q'.credit
            /\ (Waits(h))' => ss'[id].queued > 0 /\ ss'[id].cap = 0 /\ ss'[id].blocked BY <3>2, <2>2, <2>3, <2>v
      <4>2. id \in sends' /\ qs'[id].made BY <3>2, <2>1, <2>2, <2>3, <1>s DEF SameRecvSide
      <4>3. (Waits(h))' => /\ ap'[h].op \in {"write", "flush", "closed"}
                           /\ ap'[h].op = "write" => ~ss'[id].fin BY <2>v, <4>1, <1>t, <1>h DEF StreamOne, SendOne
      <4>4. q'.credit > 0 => ss'[id].cap # 0 BY <4>1
      <4>5. QED BY <4>1, <4>2, <4>3, <4>4 DEF SendOne, Dead
    <3>3. QED BY <3>1, <3>2
  <2>10. (RecvOne(id))' BY <1>t, <2>1, <2>2, <2>3, <2>6, <2>w DEF StreamOne, RecvOne, SameRecvSide
  <2>11. QED BY <2>6, <2>7, <2>8, <2>9, <2>10 DEF ServeInv, StreamOne
<1>4. QED BY <1>2, <1>3

\* The driver flushes the receive side of a stream it knows.
LEMMA RecvTurn ==
  ASSUME TypeOK, TypeOK', ServeInv, TakenInv', NEW id \in Ids, id \in recvs,
         NEW k \in StreamType, SameSendSide(k, qs[id]), k.rend = qs[id].rend,
         k.rarmed => qs[id].rarmed, k.rbuf = qs[id].rbuf, k.rfin = qs[id].rfin,
         k.rrst = qs[id].rrst,
         NEW next, next.pc = d.pc, d.pc # "done", next.send = d.send,
         next.recv = d.recv \/ next.recv = d.recv \ {id},
         FlushRecvOf(id, k, next), UNCHANGED <<drv, ss, sends, q, ap>>
  PROVE  ServeInv'
<1> DEFINE h == RecvOf(id)
<1>0. PICK f : f = RecvFlush(id, k) OBVIOUS
<1>t. /\ rs \in [Ids -> RecvType] /\ qs \in [Ids -> StreamType] /\ q \in QuicheType
      /\ Kind(id) \in Kinds /\ StreamOne(id) BY IdFacts DEF TypeOK, ServeInv
<1>h. h \in Halves /\ h = <<id, "recv">> /\ h[1] = id /\ RecvHalf(id) = {h}
  BY <1>t DEF StreamOne, NewOne, RecvOf, RecvHalf
<1>s. /\ ~rs[id].closed /\ (Waits(h) => rs[id].blocked) BY <1>t, <1>h DEF StreamOne, RecvOne
<1>1. RecvShape(rs[id], k, f) BY <1>0, <1>s, RecvShapes
<1>n. id \notin Created(Kind(id)) /\ ~(Mine(id) /\ id >= drv.open[Kind(id)].next)
  BY <1>t DEF StreamOne, NewOne, Untouched
<1>3. /\ rs' = [rs EXCEPT ![id] = f.st] /\ qs' = [qs EXCEPT ![id] = f.k]
      /\ recvs' = (IF f.st.closed THEN recvs \ {id} ELSE recvs)
      /\ awake' = awake \cup Fire(IF f.wake THEN RecvHalf(id) ELSE {})
      /\ d' = next BY <1>0 DEF FlushRecvOf
<1>4. /\ rs'[id] = f.st /\ qs'[id] = f.k /\ q'.credit <= q.credit
      /\ \A j \in Ids : j # id => rs'[j] = rs[j] /\ qs'[j] = qs[j] /\ (j \in recvs' <=> j \in recvs)
  BY <1>3, <1>t DEF QuicheType
<1>5. awake \subseteq awake' /\ (f.wake => Fire({h}) \subseteq awake') BY <1>3, <1>h
<1>6. At(id) BY <1>3, <1>4, <1>5 DEF At
<1>7. /\ CreatedInv' /\ (\A x \in Kinds : (Created(x))' = Created(x))
      /\ \A j \in Ids : j # id => StreamOne(j)' BY <1>6, AtOthers
<1>w. \A g \in Halves : ((Waits(g))' => Waits(g)) /\ ((Sleeping(g))' => Sleeping(g) /\ (Waits(g))')
  BY <1>5, Roused DEF Waits, Sleeping
<1>v. (Waits(h))' => Waits(h) /\ rs[id].blocked /\ ~f.wake BY <1>5, <1>h, <1>s, <1>w, Roused
<1>e. /\ SameSendSide(f.k, qs[id])
      /\ f.k.rarmed => qs[id].rarmed /\ f.k.rend = qs[id].rend
      /\ f.st.closed => (f.st.reset \/ f.st.stop \/ f.st.fin) /\ f.k.rend
      /\ ~f.st.closed => f.k.rend = qs[id].rend BY <1>1, <1>s DEF RecvShape, SameSendSide
<1>8. (NewOne(id))' BY <1>t, <1>n, <1>h, <1>3, <1>4, <1>7, <1>e DEF StreamOne, NewOne, SameSendSide
<1>9. (FreshOne(id))' BY <1>3, <1>4, <1>e DEF FreshOne
<1>10. (SendOne(id))' BY <1>t, <1>3, <1>4, <1>7, <1>w, <1>e DEF StreamOne, SendOne, SameSendSide
<1>11. (RecvOne(id))'
  <2>1. CASE f.st = rs[id] /\ f.k = k /\ (rs[id].max > 0 => k.rbuf = 0 /\ ~k.rfin /\ ~k.rrst)
    <3>1. /\ rs'[id] = rs[id] /\ id \in recvs' /\ ~rs'[id].closed
          /\ rs[id].max > 0 => qs'[id].rbuf = 0 /\ ~qs'[id].rfin /\ ~qs'[id].rrst BY <2>1, <1>3, <1>4, <1>s
    <3>2. (Sleeping(h))' => (Waits(h))' BY DEF Sleeping, Waits
    <3>3. (Waits(h))' =>
           /\ rs'[id].blocked /\ ~Dead(rs'[id]) /\ ap'[h].op \in {"read", "closed"}
           /\ ap'[h].op = "read" => rs'[id].queued = 0 /\ ~rs'[id].fin /\ rs'[id].max > 0
           /\ ap'[h].op = "closed" => ~(rs'[id].fin /\ rs'[id].queued = 0)
      BY <3>1, <1>w, <1>t, <1>h DEF StreamOne, RecvOne
    <3>4. (Sleeping(h))' /\ ap'[h].op = "read" => ~(qs'[id].rbuf > 0) /\ ~qs'[id].rfin /\ ~qs'[id].rrst
      BY <3>1, <3>2, <3>3
    <3>5. QED BY <3>1, <3>3, <3>4 DEF RecvOne
  <2>2. CASE ~f.st.blocked /\ (f.wake <=> rs[id].blocked)
    <3>1. ~(Waits(h))' /\ ~(Sleeping(h))' BY <2>2, <1>v, <1>w, <1>h
    <3>2. /\ rs'[id].closed => (rs'[id].reset \/ rs'[id].stop \/ rs'[id].fin) /\ qs'[id].rend
          /\ id \in recvs' => ~rs'[id].closed
          /\ ~rs'[id].closed => id \in recvs' BY <1>3, <1>4, <1>e
    <3>3. QED BY <3>1, <3>2 DEF RecvOne
  <2>3. QED BY <1>1, <2>1, <2>2 DEF RecvShape
<1>12. QED BY <1>7, <1>8, <1>9, <1>10, <1>11 DEF ServeInv, StreamOne

-----------------------------------------------------------------------------
(* The driver reads, writes, flushes and accepts                            *)

\* The driver goes through what it took before it does anything else.
LEMMA StillTaken ==
  ASSUME TypeOK, TakenInv, Still,
         \/ ReadDatagrams \/ WriteDatagrams \/ PollClose \/ PollEarly \/ Flushed \/ Woken
         \/ Interrupted \/ NetDone \/ Connected \/ d' = d
  PROVE  TakenInv'
<1>t. d \in TaskType /\ d'.send = d.send /\ d'.recv = d.recv BY DEF TypeOK, Still
<1>1. ASSUME d.pc \notin {"flush", "flush0"} PROVE TakenInv' BY <1>1, <1>t DEF TakenInv
<1>2. CASE d' = d BY <1>2 DEF TakenInv
<1>3. CASE Flushed BY <1>3, <1>t DEF Flushed, TakenInv
<1>4. QED
  BY <1>1, <1>2, <1>3 DEF ReadDatagrams, WriteDatagrams, PollClose, PollEarly, Woken, Interrupted, NetDone, Connected

\* Driver::read and Driver::write on streams the driver knows, and the flushes
\* that handles asked for.
LEMMA TurnServes ==
  ASSUME TypeOK, TypeOK', ServeInv, NEW id \in Ids,
         ReadKnown(id) \/ WriteKnown(id) \/ WriteGone(id) \/ FlushRecv(id) \/ FlushSend(id)
  PROVE  ServeInv'
<1>t. /\ qs \in [Ids -> StreamType] /\ qs[id] \in StreamType /\ d \in TaskType /\ q.credit \in Nat
      /\ Kind(id) \in Kinds /\ StreamOne(id) /\ TakenInv BY IdFacts DEF TypeOK, ServeInv, QuicheType
<1>1. CASE ReadKnown(id)
  <2>1. /\ id \in recvs /\ d.pc = "reads" /\ FlushRecvOf(id, ReadPopped(id), d)
        /\ UNCHANGED <<drv, ss, sends, q, ap>> BY <1>1 DEF ReadKnown
  <2>2. PICK k : k = ReadPopped(id) OBVIOUS
  <2>3. /\ k \in StreamType /\ SameSendSide(k, qs[id]) /\ k.rend = qs[id].rend
        /\ ~k.rarmed /\ k.rbuf = qs[id].rbuf /\ k.rfin = qs[id].rfin /\ k.rrst = qs[id].rrst
    BY <2>2, <1>t DEF ReadPopped, StreamType, SameSendSide
  <2>4. d' = d BY <2>1 DEF FlushRecvOf
  <2>5. TakenInv' BY <2>4, <1>t DEF TakenInv
  <2>6. QED BY <2>1, <2>2, <2>3, <2>5, RecvTurn
<1>2. CASE WriteKnown(id)
  <2>1. /\ id \in sends /\ d.pc = "writes" /\ FlushSendOf(id, WritePopped(id), d)
        /\ UNCHANGED <<rs, recvs, ap>> BY <1>2 DEF WriteKnown
  <2>2. PICK k : k = WritePopped(id) OBVIOUS
  <2>3. /\ k \in StreamType /\ SameRecvSide(k, qs[id]) /\ k.made = qs[id].made
        /\ k.fin = qs[id].fin /\ k.rst = qs[id].rst BY <2>2, <1>t DEF WritePopped, StreamType, SameRecvSide
  <2>4. d' = d \/ Failed("quiche") BY <2>1 DEF FlushSendOf
  <2>5. TakenInv' BY <2>4, <1>t, FailedFacts DEF TakenInv, Errors
  <2>6. QED BY <2>1, <2>2, <2>3, <2>5, SendTurn
<1>3. CASE WriteGone(id)
  <2>1. /\ id \notin sends /\ d.pc = "writes" /\ qs' = [qs EXCEPT ![id].armed = FALSE]
        /\ UNCHANGED <<drv, ss, rs, sends, recvs, d, q, ap, awake>> BY <1>3 DEF WriteGone
  <2>2. /\ \A j \in Ids : j # id => qs'[j] = qs[j]
        /\ qs'[id].made = qs[id].made /\ qs'[id].fin = qs[id].fin /\ qs'[id].rst = qs[id].rst
        /\ SameRecvSide(qs'[id], qs[id]) BY <2>1, <1>t DEF StreamType, SameRecvSide
  <2>3. At(id) BY <2>1, <2>2, <1>t DEF At
  <2>4. /\ CreatedInv' /\ (\A x \in Kinds : (Created(x))' = Created(x))
        /\ \A j \in Ids : j # id => StreamOne(j)' BY <2>3, AtOthers
  <2>w. \A g \in Halves : ((Waits(g))' <=> Waits(g)) /\ ((Sleeping(g))' <=> Sleeping(g)) BY <2>1 DEF Waits, Sleeping
  <2>5. (NewOne(id))' BY <1>t, <2>1, <2>2, <2>4 DEF StreamOne, NewOne, Untouched, SameRecvSide
  <2>6. (FreshOne(id))' BY <1>t, <2>1, <2>2, <2>4 DEF StreamOne, FreshOne, Blank, SameRecvSide
  <2>7. (SendOne(id))' BY <1>t, <2>1, <2>4, <2>w DEF StreamOne, SendOne
  <2>8. (RecvOne(id))' BY <1>t, <2>1, <2>2, <2>4, <2>w DEF StreamOne, RecvOne, SameRecvSide
  <2>9. TakenInv' BY <2>1, <1>t DEF TakenInv
  <2>10. QED BY <2>4, <2>5, <2>6, <2>7, <2>8, <2>9 DEF ServeInv, StreamOne
<1>4. CASE FlushRecv(id)
  <2>0. PICK next : next = [d EXCEPT !.recv = @ \ {id}] OBVIOUS
  <2>1. /\ next.pc = d.pc /\ next.send = d.send /\ next.recv = d.recv \ {id} BY <2>0, <1>t DEF TaskType
  <2>2. /\ d.pc \in {"flush", "flush0"} /\ id \in d.recv /\ UNCHANGED <<drv, ss, sends, q, ap>>
        /\ IF id \in recvs THEN FlushRecvOf(id, qs[id], next)
           ELSE d' = next /\ UNCHANGED <<rs, qs, recvs, awake>> BY <1>4, <2>0 DEF FlushRecv
  <2>3. d' = next BY <2>2 DEF FlushRecvOf
  <2>4. TakenInv' BY <2>1, <2>2, <2>3 DEF TakenInv
  <2>5. CASE id \in recvs
    <3>1. SameSendSide(qs[id], qs[id]) BY DEF SameSendSide
    <3>2. QED BY <2>1, <2>2, <2>4, <2>5, <3>1, <1>t, RecvTurn
  <2>6. CASE id \notin recvs
    <3>1. UNCHANGED <<rs, qs, recvs, awake>> BY <2>2, <2>6
    <3>2. At(id) BY <2>1, <2>2, <2>3, <3>1, <1>t DEF At
    <3>4. /\ CreatedInv' /\ (\A x \in Kinds : (Created(x))' = Created(x))
          /\ \A j \in Ids : j # id => StreamOne(j)' BY <3>2, AtOthers
    <3>w. \A g \in Halves : ((Waits(g))' <=> Waits(g)) /\ ((Sleeping(g))' <=> Sleeping(g))
      BY <2>2, <3>1 DEF Waits, Sleeping
    <3>5. (NewOne(id))' BY <1>t, <2>1, <2>2, <2>3, <3>1, <3>4 DEF StreamOne, NewOne, Untouched
    <3>6. (FreshOne(id))' BY <1>t, <2>1, <2>2, <2>3, <3>1, <3>4 DEF StreamOne, FreshOne, Blank
    <3>7. (SendOne(id))' BY <1>t, <2>1, <2>2, <2>3, <3>1, <3>4, <3>w DEF StreamOne, SendOne
    <3>r. RecvOf(id) \in Halves /\ Sleeping(RecvOf(id)) /\ ap[RecvOf(id)].op = "read" => FALSE
      <4>1. SUFFICES ASSUME RecvOf(id) \in Halves, Sleeping(RecvOf(id)), ap[RecvOf(id)].op = "read"
                     PROVE  FALSE OBVIOUS
      <4>2. ap[RecvOf(id)].pc # "none" /\ Waits(RecvOf(id)) BY <4>1 DEF Sleeping, Waits
      <4>3. id \notin Created(Kind(id)) /\ d.pc # "done" BY <2>2, <1>t DEF StreamOne, NewOne
      <4>4. rs[id].closed BY <4>1, <4>2, <4>3, <2>6, <1>t DEF StreamOne, RecvOne
      <4>5. QED BY <4>1, <4>2, <4>4, <1>t DEF StreamOne, RecvOne, Dead
    <3>8. (RecvOne(id))' BY <1>t, <2>1, <2>2, <2>3, <3>1, <3>4, <3>w, <3>r DEF StreamOne, RecvOne
    <3>10. QED BY <2>4, <3>4, <3>5, <3>6, <3>7, <3>8 DEF ServeInv, StreamOne
  <2>7. QED BY <2>5, <2>6
<1>5. CASE FlushSend(id)
  <2>0. PICK next : next = [d EXCEPT !.send = @ \ {id}] OBVIOUS
  <2>1. /\ next.pc = d.pc /\ next.recv = d.recv /\ next.send = d.send \ {id} BY <2>0, <1>t DEF TaskType
  <2>2. /\ d.pc \in {"flush", "flush0"} /\ id \in d.send /\ UNCHANGED <<rs, recvs, ap>>
        /\ IF id \in sends THEN FlushSendOf(id, qs[id], next)
           ELSE d' = next /\ UNCHANGED <<ss, qs, q, sends, awake, drv>> BY <1>5, <2>0 DEF FlushSend
  <2>3. d' = next \/ Failed("quiche") BY <2>2 DEF FlushSendOf
  <2>4. TakenInv' BY <2>1, <2>2, <2>3, FailedFacts DEF TakenInv, Errors
  <2>5. CASE id \in sends
    <3>1. SameRecvSide(qs[id], qs[id]) BY DEF SameRecvSide
    <3>2. QED BY <2>1, <2>2, <2>4, <2>5, <3>1, <1>t, SendTurn
  <2>6. CASE id \notin sends
    <3>1. UNCHANGED <<ss, qs, q, sends, awake, drv>> /\ d' = next BY <2>2, <2>6
    <3>2. At(id) BY <2>1, <2>2, <3>1, <1>t DEF At
    <3>4. /\ CreatedInv' /\ (\A x \in Kinds : (Created(x))' = Created(x))
          /\ \A j \in Ids : j # id => StreamOne(j)' BY <3>2, AtOthers
    <3>w. \A g \in Halves : ((Waits(g))' <=> Waits(g)) /\ ((Sleeping(g))' <=> Sleeping(g))
      BY <2>2, <3>1 DEF Waits, Sleeping
    <3>5. (NewOne(id))' BY <1>t, <2>1, <2>2, <3>1, <3>4 DEF StreamOne, NewOne, Untouched
    <3>6. (FreshOne(id))' BY <1>t, <2>1, <2>2, <3>1, <3>4 DEF StreamOne, FreshOne, Blank
    <3>7. (SendOne(id))' BY <1>t, <2>1, <2>2, <2>6, <3>1, <3>4, <3>w DEF StreamOne, SendOne
    <3>8. (RecvOne(id))' BY <1>t, <2>1, <2>2, <3>1, <3>4, <3>w DEF StreamOne, RecvOne
    <3>10. QED BY <2>4, <3>4, <3>5, <3>6, <3>7, <3>8 DEF ServeInv, StreamOne
  <2>7. QED BY <2>5, <2>6
<1>6. QED BY <1>1, <1>2, <1>3, <1>4, <1>5

\* The streams the peer opens: nobody has used one that the driver does not know.
LEMMA AcceptedServes ==
  ASSUME TypeOK, TypeOK', ServeInv, NEW id \in Ids, AcceptUni(id) \/ AcceptBi(id)
  PROVE  ServeInv'
<1>t. /\ qs \in [Ids -> StreamType] /\ qs[id] \in StreamType /\ d \in TaskType /\ q.credit \in Nat
      /\ ss \in [Ids -> SendType] /\ ap \in [Halves -> HandleType]
      /\ Kind(id) \in Kinds /\ StreamOne(id) /\ TakenInv BY IdFacts DEF TypeOK, ServeInv, QuicheType
<1>0. /\ d.pc = "reads" /\ qs[id].rarmed /\ id \notin recvs /\ recvs' = recvs \cup {id} /\ rs' = rs /\ q' = q
      /\ UNCHANGED <<drv, awake, d>> \/ (Failed("dropped") /\ UNCHANGED ap) BY DEF AcceptUni, AcceptBi
<1>1. /\ qs[id].made /\ ~qs[id].rend /\ RecvOf(id) \in Halves
      /\ id \notin Created(Kind(id)) /\ ~(Mine(id) /\ id >= drv.open[Kind(id)].next)
  BY <1>0, <1>t DEF StreamOne, NewOne, Untouched
<1>b. Blank(id) BY <1>0, <1>1, <1>t DEF StreamOne, FreshOne
<1>r. ~rs[id].closed BY <1>1, <1>t DEF StreamOne, RecvOne
<1>2. /\ drv'.send = drv.send /\ drv'.recv = drv.recv /\ drv'.open = drv.open /\ d'.pc # "done"
      /\ awake \subseteq awake'
      /\ \/ drv'.creq = drv.creq /\ d' = d
         \/ drv'.creq # "none" /\ d'.send = {} /\ d'.recv = {} BY <1>0, FailedFacts DEF Errors
<1>3. TakenInv' BY <1>0, <1>2, <1>t DEF TakenInv
<1>k. PICK k : k = ReadPopped(id) OBVIOUS
<1>l. /\ k \in StreamType /\ k.made = qs[id].made /\ k.fin = qs[id].fin /\ k.rst = qs[id].rst
      /\ k.stopped = qs[id].stopped /\ ~k.rarmed /\ k.rend = qs[id].rend BY <1>k, <1>t DEF ReadPopped, StreamType
<1>s. /\ ss[id] = NewSend /\ ~NewSend.stop /\ ~NewSend.closed /\ ~NewSend.reset /\ ~NewSend.fin
      /\ NewSend.queued = 0 /\ ~qs[id].stopped BY <1>b DEF Blank, NewSend
<1>4. CASE AcceptUni(id)
  <2>1. /\ qs' = [qs EXCEPT ![id] = k] /\ UNCHANGED <<ss, sends>> /\ IsUni(id)
        /\ ap' = ap \/ ap' = [ap EXCEPT ![RecvOf(id)].pc = "queued"] BY <1>4, <1>k DEF AcceptUni, RecvOf
  <2>2. /\ qs'[id] = k /\ \A j \in Ids : j # id => qs'[j] = qs[j] BY <2>1, <1>t
  <2>3. /\ \A g \in Halves : g # RecvOf(id) => ap'[g] = ap[g]
        /\ ap'[RecvOf(id)].pc = ap[RecvOf(id)].pc \/ ap'[RecvOf(id)].pc = "queued" BY <2>1, <1>t, <1>1 DEF HandleType
  <2>4. ap[RecvOf(id)].pc = "none" /\ SendOf(id) \notin Halves BY <1>b, <1>1, <2>1, IdFacts, OwnHandles DEF Blank
  <2>5. At(id) BY <1>0, <1>2, <1>t, <2>1, <2>2, <2>3, IdFacts DEF At
  <2>6. /\ CreatedInv' /\ (\A x \in Kinds : (Created(x))' = Created(x))
        /\ \A j \in Ids : j # id => StreamOne(j)' BY <2>5, AtOthers
  <2>7. (NewOne(id))' BY <1>t, <1>1, <1>2, <1>l, <2>1, <2>2, <2>6 DEF StreamOne, NewOne
  <2>8. (FreshOne(id))' BY <1>0 DEF FreshOne
  <2>9. (SendOne(id))' BY <2>4 DEF SendOne
  <2>10. ~(Waits(RecvOf(id)))' /\ ~(Sleeping(RecvOf(id)))' BY <2>3, <2>4 DEF Waits, Sleeping
  <2>11. (RecvOne(id))' BY <1>0, <1>r, <2>10 DEF RecvOne
  <2>12. QED BY <1>3, <2>6, <2>7, <2>8, <2>9, <2>11 DEF ServeInv, StreamOne
<1>5. CASE AcceptBi(id)
  <2>0. PICK f : f = SendFlush(id, k) OBVIOUS
  <2>1. /\ ss' = [ss EXCEPT ![id] = f.st] /\ qs' = [qs EXCEPT ![id] = f.k]
        /\ sends' = sends \cup {id} /\ ~IsUni(id)
        /\ \/ ap' = ap
           \/ ap' = [h \in Halves |-> IF h[1] = id THEN [ap[h] EXCEPT !.pc = "queued"] ELSE ap[h]]
    BY <1>5, <1>k, <2>0 DEF AcceptBi
  <2>2. /\ qs'[id] = f.k /\ ss'[id] = f.st
        /\ \A j \in Ids : j # id => qs'[j] = qs[j] /\ ss'[j] = ss[j] BY <2>1, <1>t
  <2>3. ASSUME NEW g \in Halves
        PROVE  /\ g[1] # id => ap'[g] = ap[g]
               /\ g[1] = id => ap'[g].pc \in {"none", "queued"}
    <3>1. ap[g] \in HandleType /\ (g[1] = id => ap[g].pc = "none") BY <1>t, <1>b DEF Blank
    <3>2. QED BY <2>1, <3>1 DEF HandleType
  <2>4. SendOf(id) \in Halves /\ RecvOf(id) \in Halves /\ SendOf(id)[1] = id /\ RecvOf(id)[1] = id
    BY <2>1, OwnHandles, IdFacts
  <2>f. /\ SendShape(ss[id], k, q.credit, f) /\ SendFlushed(id, k, f) BY <1>l, <1>s, <2>0, SendShapes, SendFlushFacts
  <2>g. /\ ~f.st.closed /\ ~f.st.reset /\ ~f.st.stop /\ ~f.k.fin /\ ~f.k.rst /\ ~f.k.stopped
        /\ f.st.cap = q.credit /\ f.k.made /\ ~f.k.rarmed /\ ~f.k.rend
    BY <2>f, <1>s, <1>l, <1>1, <1>b DEF SendShape, SendFlushed, SameRecvSide, Blank
  <2>5. At(id) BY <1>0, <1>2, <1>t, <2>1, <2>2, <2>3 DEF At
  <2>6. /\ CreatedInv' /\ (\A x \in Kinds : (Created(x))' = Created(x))
        /\ \A j \in Ids : j # id => StreamOne(j)' BY <2>5, AtOthers
  <2>w. \A g \in Halves : g[1] = id => ~(Waits(g))' /\ ~(Sleeping(g))' BY <2>3 DEF Waits, Sleeping
  <2>7. (NewOne(id))' BY <1>t, <1>1, <1>2, <2>2, <2>4, <2>6, <2>g DEF NewOne
  <2>8. (FreshOne(id))' BY <1>0 DEF FreshOne
  <2>9. (SendOne(id))'
    <3>1. ss'[id].cap = 0 => ~(q'.credit > 0) BY <1>0, <1>t, <2>2, <2>g
    <3>2. QED BY <3>1, <2>1, <2>2, <2>4, <2>g, <2>w DEF SendOne
  <2>11. (RecvOne(id))' BY <1>0, <1>r, <2>4, <2>w DEF RecvOne
  <2>12. QED BY <1>3, <2>6, <2>7, <2>8, <2>9, <2>11 DEF ServeInv, StreamOne
<1>6. QED BY <1>4, <1>5

-----------------------------------------------------------------------------
(* The locked section of poll, and open                                     *)

\* The locked section of Driver::poll never fails: what was opened is within the
\* limit.
LEMMA PollMainFacts ==
  ASSUME TypeOK, OpensWithinLimit, NEW due \in KeepAliveDue, PollMain(due)
  PROVE  /\ d.pc \in {"poll", "poll0"} /\ UNCHANGED <<ss, rs, ap, op, one>>
         /\ sends' = sends \cup Created("bi") \cup Created("uni") /\ recvs' = recvs \cup Created("bi")
         /\ qs' = [i \in Ids |-> IF i \in Created("bi") \cup Created("uni")
                                 THEN [qs[i] EXCEPT !.made = TRUE, !.armed = TRUE] ELSE qs[i]]
         /\ q'.credit = q.credit /\ drv'.send = {} /\ drv'.recv = {} /\ drv'.creq = drv.creq /\ drv'.closed = drv.closed
         /\ drv'.clw = drv.clw /\ drv.crw \subseteq drv'.crw /\ drv'.est = drv.est /\ drv'.hsw = drv.hsw
         /\ \A k \in Kinds : /\ drv'.open[k].create = <<>> /\ drv'.open[k].next = drv.open[k].next
                             /\ drv'.open[k].cap = StreamsLeft(k)
                             /\ StreamsLeft(k) > 0 \/ drv'.open[k].wakers = drv.open[k].wakers
         /\ d'.pc \in {"flush", "flush0"} /\ d'.recv = drv.recv /\ d'.send = drv.send
         /\ \A t \in awake : t # DriverTask => t \in awake'
         /\ \A k \in Kinds : StreamsLeft(k) > 0 => Fire(drv.open[k].wakers) \subseteq awake'
<1>t. drv \in DrvType /\ q \in QuicheType BY DEF TypeOK
<1>1. ~\E k \in Kinds : Len(drv.open[k].create) > q.left[k]
  <2>1. SUFFICES ASSUME NEW k \in Kinds PROVE ~(Len(drv.open[k].create) > q.left[k]) OBVIOUS
  <2>2. drv.open[k].cap \in Nat /\ Len(drv.open[k].create) \in Nat /\ q.left[k] \in Nat
    BY <1>t DEF DrvType, OpenType, QuicheType
  <2>3. drv.open[k].cap + Len(drv.open[k].create) <= q.left[k] BY DEF OpensWithinLimit
  <2>4. QED BY <2>2, <2>3
<1>2. PICK v : v = Registered(drv) OBVIOUS
<1>3. PICK w : w = [k \in Kinds |-> [drv.open[k] EXCEPT !.create = <<>>, !.cap = StreamsLeft(k),
                                       !.wakers = IF StreamsLeft(k) > 0 THEN {} ELSE @]] OBVIOUS
<1>4. PICK x : x = IF d.pc = "poll" THEN "task" ELSE "noop" OBVIOUS
<1>5. /\ d.pc \in {"poll", "poll0"} /\ UNCHANGED <<ss, rs, ap, op, one>>
      /\ sends' = sends \cup (Created("bi") \cup Created("uni")) /\ recvs' = recvs \cup Created("bi")
      /\ qs' = [i \in Ids |-> IF i \in Created("bi") \cup Created("uni")
                              THEN [qs[i] EXCEPT !.made = TRUE, !.armed = TRUE] ELSE qs[i]]
      /\ drv' = [v EXCEPT !.waker = x, !.send = {}, !.recv = {}, !.open = w]
      /\ \E y : q' = [q EXCEPT !.left = y]
      /\ \E y : d' = [pc |-> IF d.pc = "poll" THEN "flush" ELSE "flush0",
                      recv |-> drv.recv, send |-> drv.send, sleep |-> y]
      /\ awake' = (awake \ {DriverTask})
                    \cup Fire(UNION {drv.open[k].wakers : k \in {z \in Kinds : StreamsLeft(z) > 0}})
  BY <1>1, <1>2, <1>3, <1>4 DEF PollMain
<1>6. /\ v \in DrvType /\ v.creq = drv.creq /\ v.closed = drv.closed /\ v.clw = drv.clw
      /\ drv.crw \subseteq v.crw /\ v.est = drv.est /\ v.hsw = drv.hsw
  BY <1>2, <1>t DEF Registered, DrvType, Tasks, DriverTask
<1>7. /\ drv'.send = {} /\ drv'.recv = {} /\ drv'.creq = v.creq /\ drv'.closed = v.closed
      /\ drv'.clw = v.clw /\ drv'.crw = v.crw /\ drv'.est = v.est /\ drv'.hsw = v.hsw
      /\ drv'.open = w BY <1>5, <1>6 DEF DrvType
<1>8. ASSUME NEW k \in Kinds
      PROVE  /\ w[k].create = <<>> /\ w[k].next = drv.open[k].next /\ w[k].cap = StreamsLeft(k)
             /\ StreamsLeft(k) > 0 \/ w[k].wakers = drv.open[k].wakers
  <2>1. drv.open[k] \in OpenType BY <1>t DEF DrvType
  <2>2. QED BY <2>1, <1>3 DEF OpenType
<1>9. q'.credit = q.credit BY <1>5, <1>t DEF QuicheType
<1>10. d'.pc \in {"flush", "flush0"} /\ d'.recv = drv.recv /\ d'.send = drv.send
  <2>1. PICK y, z : /\ d' = [pc |-> z, recv |-> drv.recv, send |-> drv.send, sleep |-> y]
                    /\ z \in {"flush", "flush0"} BY <1>5, Zenon
  <2>2. QED BY <2>1
<1>11. \A t \in awake : t # DriverTask => t \in awake' BY <1>5
<1>12. \A k \in Kinds : StreamsLeft(k) > 0 => Fire(drv.open[k].wakers) \subseteq awake' BY <1>5 DEF Fire
<1>13. QED BY <1>5, <1>6, <1>7, <1>8, <1>9, <1>10, <1>11, <1>12

\* Driver::poll creates the streams that were opened and takes the two sets.
LEMMA PollServes ==
  ASSUME TypeOK, TypeOK', ServeInv, OpensWithinLimit, NEW due \in KeepAliveDue, PollMain(due)
  PROVE  ServeInv'
<1>f. /\ d.pc \in {"poll", "poll0"} /\ UNCHANGED <<ss, rs, ap>> /\ sends' = sends \cup Created("bi") \cup Created("uni")
      /\ recvs' = recvs \cup Created("bi")
      /\ qs' = [i \in Ids |-> IF i \in Created("bi") \cup Created("uni")
                              THEN [qs[i] EXCEPT !.made = TRUE, !.armed = TRUE] ELSE qs[i]]
      /\ q'.credit = q.credit /\ drv'.send = {} /\ drv'.recv = {} /\ drv'.creq = drv.creq
      /\ \A k \in Kinds : drv'.open[k].create = <<>> /\ drv'.open[k].next = drv.open[k].next
      /\ d'.pc \in {"flush", "flush0"} /\ d'.recv = drv.recv /\ d'.send = drv.send
      /\ \A t \in awake : t # DriverTask => t \in awake' BY PollMainFacts
<1>t. d.recv = {} /\ d.send = {} /\ CreatedInv BY <1>f DEF ServeInv, TakenInv
<1>c. ASSUME NEW k \in Kinds PROVE (Created(k))' = {}
  <2>1. drv'.open[k].create = <<>> BY <1>f
  <2>2. DOMAIN drv'.open[k].create = {} BY <2>1
  <2>3. QED BY <2>2 DEF Created
<1>1. CreatedInv' BY <1>f, <1>t, <1>c DEF CreatedInv
<1>2. TakenInv' BY <1>f DEF TakenInv
<1>w. \A g \in Halves : ((Waits(g))' => Waits(g)) /\ ((Sleeping(g))' => Sleeping(g))
  BY <1>f, TasksDiffer DEF Waits, Sleeping
<1>k. "bi" \in Kinds /\ "uni" \in Kinds BY DEF Kinds
<1>3. ASSUME NEW id \in Ids PROVE StreamOne(id)'
  <2>1. Kind(id) \in Kinds /\ StreamOne(id) /\ qs[id] \in StreamType /\ id \in Nat BY IdFacts DEF ServeInv, TypeOK
  <2>m. id \in Created("bi") \cup Created("uni") <=> id \in Created(Kind(id)) BY <1>k, <1>t, CreatedMine DEF Kind
  <2>2. CASE id \in Created(Kind(id))
    <3>1. Untouched(id) /\ Mine(id) /\ id < drv.open[Kind(id)].next
      BY <2>1, <2>2, <1>t, CreatedMine DEF StreamOne, NewOne, CreatedInv
    <3>2. /\ qs'[id].made /\ qs'[id].armed /\ qs'[id].fin = qs[id].fin /\ qs'[id].rst = qs[id].rst
          /\ SameRecvSide(qs'[id], [qs[id] EXCEPT !.made = TRUE])
          /\ qs'[id].rarmed = qs[id].rarmed /\ qs'[id].rend = qs[id].rend
          /\ qs'[id].rbuf = qs[id].rbuf /\ qs'[id].rfin = qs[id].rfin /\ qs'[id].rrst = qs[id].rrst
      BY <1>f, <2>1, <2>2, <2>m DEF StreamType, SameRecvSide
    <3>3. id \in sends' /\ (Kind(id) = "bi" => id \in recvs') BY <1>f, <2>2, <2>m
    <3>4. SendOf(id) \in Halves /\ (RecvOf(id) \in Halves => ~IsUni(id)) BY <3>1, OwnHandles
    <3>5. RecvOf(id) \in Halves <=> Kind(id) = "bi" BY <3>4, OwnHandles DEF Kind
    <3>6. ~(id >= drv'.open[Kind(id)].next)
      <4>1. drv.open[Kind(id)].next \in Nat /\ drv'.open[Kind(id)].next = drv.open[Kind(id)].next
        BY <1>f, <2>1 DEF TypeOK, DrvType, OpenType
      <4>2. QED BY <4>1, <3>1, <2>1
    <3>r. id \in recvs' => Kind(id) = "bi" BY <1>f, <1>k, <1>t, <3>1, CreatedMine DEF Untouched
    <3>a. (NewOne(id))' BY <1>c, <2>1, <3>1, <3>2, <3>4, <3>5, <3>6, <3>r DEF StreamOne, NewOne
    <3>b. (FreshOne(id))' BY <3>3, <3>5 DEF FreshOne
    <3>d. (SendOne(id))' BY <1>f, <1>w, <2>1, <3>1, <3>2, <3>3 DEF StreamOne, SendOne, Untouched
    <3>e. (RecvOne(id))' BY <1>f, <1>t, <1>w, <2>1, <3>1, <3>2, <3>3, <3>5 DEF StreamOne, RecvOne, Untouched
    <3>g. QED BY <3>a, <3>b, <3>d, <3>e DEF StreamOne
  <2>3. CASE id \notin Created(Kind(id))
    <3>1. qs'[id] = qs[id] /\ (id \in sends' <=> id \in sends) /\ (id \in recvs' <=> id \in recvs) BY <1>f, <2>3, <2>m
    <3>a. (NewOne(id))' BY <1>c, <1>f, <2>1, <3>1 DEF StreamOne, NewOne, Untouched
    <3>b. (FreshOne(id))' BY <1>f, <2>1, <2>3, <3>1 DEF StreamOne, FreshOne, Blank
    <3>d. (SendOne(id))' BY <1>f, <1>t, <1>w, <2>1, <2>3, <3>1 DEF StreamOne, SendOne
    <3>e. (RecvOne(id))' BY <1>f, <1>t, <1>w, <2>1, <2>3, <3>1, ZenonT(60) DEF StreamOne, RecvOne
    <3>g. QED BY <3>a, <3>b, <3>d, <3>e DEF StreamOne
  <2>4. QED BY <2>2, <2>3
<1>4. QED BY <1>1, <1>2, <1>3 DEF ServeInv

\* What open_bi and open_uni do to DriverState.
LEMMA OpenFacts ==
  ASSUME TypeOK, NEW o \in Openers, Open(o)
  PROVE  /\ o[2] \in Kinds /\ drv'.send = drv.send /\ drv'.recv = drv.recv /\ drv'.creq = drv.creq
         /\ drv'.closed = drv.closed /\ drv'.est = drv.est /\ drv'.hsw = drv.hsw
         /\ drv.crw \subseteq drv'.crw /\ drv.clw \subseteq drv'.clw
         /\ \A k \in Kinds : k # o[2] => drv'.open[k] = drv.open[k]
         /\ \A t \in awake : t # o => t \in awake'
         /\ \/ drv' = drv /\ op'[o] = "done" /\ ap' = ap
            \/ /\ ErrorOf(drv) = "none" /\ drv.open[o[2]].cap = 0 /\ ap' = ap /\ o \in drv'.crw
               /\ drv'.open[o[2]] = [drv.open[o[2]] EXCEPT !.wakers = @ \cup {o}]
            \/ /\ drv.open[o[2]].cap > 0 /\ op'[o] = "done"
               /\ drv'.open[o[2]] = [drv.open[o[2]] EXCEPT !.cap = @ - 1, !.next = @ + 4,
                                                           !.create = Append(@, drv.open[o[2]].next)]
               /\ ap' = [h \in Halves |-> IF h[1] = drv.open[o[2]].next
                                          THEN [ap[h] EXCEPT !.pc = "idle"] ELSE ap[h]]
<1>t. drv \in DrvType /\ o \in Tasks /\ o[2] \in Kinds /\ op \in [Openers -> {"none", "wait", "done"}]
  BY DEF TypeOK, Tasks, Openers
<1>1. PICK w : w = drv.open[o[2]] OBVIOUS
<1>2. w \in OpenType BY <1>1, <1>t DEF DrvType
<1>3. CASE /\ ErrorOf(drv) # "none" /\ op' = [op EXCEPT ![o] = "done"]
           /\ awake' = awake \ {o} /\ UNCHANGED <<drv, ap>> BY <1>3, <1>t, SMTT(30)
<1>4. CASE /\ ErrorOf(drv) = "none" /\ w.cap = 0 /\ drv' = PollError([drv EXCEPT !.open[o[2]].wakers = @ \cup {o}], o)
           /\ op' = [op EXCEPT ![o] = "wait"] /\ awake' = awake \ {o} /\ UNCHANGED ap
  <2>1. PICK x : x = [w EXCEPT !.wakers = @ \cup {o}] OBVIOUS
  <2>2. x \in OpenType BY <2>1, <1>2, <1>t DEF OpenType
  <2>3. PICK y : y = [drv.open EXCEPT ![o[2]] = x] OBVIOUS
  <2>4. y \in [Kinds -> OpenType] /\ y[o[2]] = x /\ \A k \in Kinds : k # o[2] => y[k] = drv.open[k]
    BY <2>2, <2>3, <1>t DEF DrvType
  <2>5. PICK v : v = [drv EXCEPT !.open = y] OBVIOUS
  <2>6. /\ v \in DrvType /\ v.send = drv.send /\ v.recv = drv.recv /\ v.creq = drv.creq
        /\ v.closed = drv.closed /\ v.est = drv.est /\ v.hsw = drv.hsw
        /\ v.crw = drv.crw /\ v.clw = drv.clw /\ v.open = y BY <2>4, <2>5, <1>t DEF DrvType
  <2>7. [drv EXCEPT !.open[o[2]].wakers = @ \cup {o}] = v BY <2>1, <2>3, <2>5, <1>1, <1>t DEF DrvType
  <2>8. drv' = PollError(v, o) BY <1>4, <2>7
  <2>9. v.creq = "none" /\ v.closed = "none" BY <1>4, <2>6 DEF ErrorOf
  <2>10. PICK a : a = v.crw \cup {o} OBVIOUS
  <2>11. PICK b : b = v.clw \cup {o} OBVIOUS
  <2>12. drv' = [v EXCEPT !.crw = a, !.clw = b] BY <2>8, <2>9, <2>10, <2>11, <2>6 DEF PollError, DrvType
  <2>13. /\ drv'.send = v.send /\ drv'.recv = v.recv /\ drv'.creq = v.creq
         /\ drv'.closed = v.closed /\ drv'.est = v.est /\ drv'.hsw = v.hsw
         /\ drv'.crw = a /\ drv'.clw = b /\ drv'.open = y BY <2>12, <2>6 DEF DrvType
  <2>14. QED BY <2>1, <2>4, <2>6, <2>10, <2>11, <2>13, <1>1, <1>4, <1>t, ZenonT(60)
<1>5. CASE /\ ErrorOf(drv) = "none" /\ w.cap > 0
           /\ LET t == Wake([PollError(drv, o) EXCEPT
                         !.open[o[2]] = [w EXCEPT !.cap = @ - 1, !.next = @ + 4,
                                                  !.create = Append(@, w.next)]])
              IN drv' = t[1] /\ awake' = (awake \ {o}) \cup t[2]
           /\ ap' = [h \in Halves |-> IF h[1] = w.next THEN [ap[h] EXCEPT !.pc = "idle"] ELSE ap[h]]
           /\ op' = [op EXCEPT ![o] = "done"]
  <2>1. PICK x : x = [w EXCEPT !.cap = @ - 1, !.next = @ + 4, !.create = Append(@, w.next)] OBVIOUS
  <2>2. x \in OpenType
    <3>1. PICK c : c = w.cap - 1 OBVIOUS
    <3>2. PICK n : n = w.next + 4 OBVIOUS
    <3>3. PICK e : e = Append(w.create, w.next) OBVIOUS
    <3>4. c \in Nat /\ n \in Nat /\ e \in Seq(Nat) BY <3>1, <3>2, <3>3, <1>2, <1>5 DEF OpenType
    <3>5. x = [w EXCEPT !.cap = c, !.next = n, !.create = e] BY <2>1, <3>1, <3>2, <3>3, <1>2 DEF OpenType
    <3>6. QED BY <3>4, <3>5, <1>2 DEF OpenType
  <2>3. drv.creq = "none" /\ drv.closed = "none" BY <1>5 DEF ErrorOf
  <2>4. PICK a : a = drv.crw \cup {o} OBVIOUS
  <2>5. PICK b : b = drv.clw \cup {o} OBVIOUS
  <2>6. PICK v : v = PollError(drv, o) OBVIOUS
  <2>7. v = [drv EXCEPT !.crw = a, !.clw = b] /\ a \in SUBSET Tasks /\ b \in SUBSET Tasks
    BY <2>3, <2>4, <2>5, <2>6, <1>t DEF PollError, DrvType
  <2>8. /\ v \in DrvType /\ v.send = drv.send /\ v.recv = drv.recv /\ v.creq = drv.creq
        /\ v.closed = drv.closed /\ v.est = drv.est /\ v.hsw = drv.hsw
        /\ v.crw = a /\ v.clw = b /\ v.open = drv.open BY <2>7, <1>t DEF DrvType
  <2>9. PICK u : u = [v EXCEPT !.open[o[2]] = x] OBVIOUS
  <2>10. /\ u \in DrvType /\ u.send = v.send /\ u.recv = v.recv /\ u.creq = v.creq
         /\ u.closed = v.closed /\ u.est = v.est /\ u.hsw = v.hsw /\ u.crw = v.crw /\ u.clw = v.clw /\ u.open[o[2]] = x
         /\ \A k \in Kinds : k # o[2] => u.open[k] = v.open[k] BY <2>2, <2>8, <2>9, <1>t DEF DrvType
  <2>11. drv' = Wake(u)[1] /\ awake' = (awake \ {o}) \cup Wake(u)[2] BY <1>5, <2>1, <2>6, <2>9
  <2>12. drv' = [u EXCEPT !.waker = "none"] BY <2>10, <2>11, WakeFacts
  <2>13. /\ drv'.send = u.send /\ drv'.recv = u.recv /\ drv'.creq = u.creq
         /\ drv'.closed = u.closed /\ drv'.est = u.est /\ drv'.hsw = u.hsw
         /\ drv'.crw = u.crw /\ drv'.clw = u.clw /\ drv'.open = u.open BY <2>12, <2>10 DEF DrvType
  <2>14. op'[o] = "done" BY <1>5, <1>t
  <2>15. /\ drv'.send = drv.send /\ drv'.recv = drv.recv /\ drv'.creq = drv.creq
         /\ drv'.closed = drv.closed /\ drv'.est = drv.est /\ drv'.hsw = drv.hsw
         /\ drv.crw \subseteq drv'.crw /\ drv.clw \subseteq drv'.clw
         /\ \A k \in Kinds : k # o[2] => drv'.open[k] = drv.open[k] BY <2>4, <2>5, <2>8, <2>10, <2>13
  <2>16. \A t \in awake : t # o => t \in awake' BY <2>11
  <2>17. drv'.open[o[2]] = [drv.open[o[2]] EXCEPT !.cap = @ - 1, !.next = @ + 4,
                                                 !.create = Append(@, drv.open[o[2]].next)]
    BY <2>1, <2>10, <2>13, <1>1, Zenon
  <2>18. drv.open[o[2]].cap > 0
         /\ ap' = [h \in Halves |-> IF h[1] = drv.open[o[2]].next
                                     THEN [ap[h] EXCEPT !.pc = "idle"] ELSE ap[h]] BY <1>1, <1>5
  <2>19. QED BY <2>14, <2>15, <2>16, <2>17, <2>18, <1>t
<1>6. QED BY <1>1, <1>3, <1>4, <1>5, ZenonT(30) DEF Open

-----------------------------------------------------------------------------
(* A stream is opened; every step                                           *)

\* The elements of a sequence, also when it grew by one.
Elems(s) == {s[i] : i \in DOMAIN s}

LEMMA AppendElems ==
  ASSUME NEW s \in Seq(Nat), NEW x \in Nat
  PROVE  Elems(Append(s, x)) = Elems(s) \cup {x}
<1>1. PICK t : t = Append(s, x) OBVIOUS
<1>2. Len(s) \in Nat /\ DOMAIN s = 1 .. Len(s) /\ Len(t) = Len(s) + 1 /\ DOMAIN t = 1 .. Len(t) BY <1>1
<1>3. t[Len(s) + 1] = x /\ \A i \in 1 .. Len(s) : t[i] = s[i] BY <1>1
<1>4. \A i : i \in 1 .. Len(t) <=> i \in 1 .. Len(s) \/ i = Len(s) + 1 BY <1>2
<1>5. Elems(t) = Elems(s) \cup {x} BY <1>2, <1>3, <1>4 DEF Elems
<1>6. QED BY <1>1, <1>5, Zenon

\* A stream that is opened was not used before.
LEMMA OpenServes ==
  ASSUME TypeOK, TypeOK', ServeInv, NEW o \in Openers, Open(o)
  PROVE  ServeInv'
<1> DEFINE k == o[2]
<1> DEFINE w == drv.open[k]
<1>f. /\ k \in Kinds /\ drv'.send = drv.send /\ drv'.recv = drv.recv /\ drv'.creq = drv.creq
      /\ \A x \in Kinds : x # k => drv'.open[x] = drv.open[x]
      /\ \A t \in awake : t # o => t \in awake'
      /\ \/ drv' = drv /\ ap' = ap
         \/ ap' = ap /\ drv'.open[k] = [w EXCEPT !.wakers = @ \cup {o}]
         \/ /\ drv'.open[k] = [w EXCEPT !.cap = @ - 1, !.next = @ + 4, !.create = Append(@, w.next)]
            /\ ap' = [h \in Halves |-> IF h[1] = w.next
                                       THEN [ap[h] EXCEPT !.pc = "idle"] ELSE ap[h]] BY OpenFacts, ZenonT(30)
<1>u. UNCHANGED <<ss, rs, sends, recvs, d, q, qs>> BY DEF Open
<1>h. \A h \in Halves : h # o
  <2>1. \A h \in Halves : Len(h) = 2 BY DEF Halves
  <2>2. Len(o) = 3 BY DEF Openers
  <2>3. QED BY <2>1, <2>2
<1>t. /\ \A x \in Kinds : drv.open[x] \in OpenType
      /\ drv \in DrvType /\ q.credit \in Nat /\ CreatedInv /\ TakenInv /\ ap \in [Halves -> HandleType]
  BY DEF TypeOK, DrvType, QuicheType, ServeInv
<1>n. w.next \in Nat /\ w.create \in Seq(Nat) /\ w.next % 4 = FirstId(k, Server) BY <1>f, <1>t DEF OpenType, CreatedInv
<1>a. \A h \in Halves : h \in awake => h \in awake' BY <1>f, <1>h
<1>1. TakenInv' BY <1>u, <1>t DEF TakenInv
<1>2. ASSUME (\A x \in Kinds : drv'.open[x].create = drv.open[x].create /\ drv'.open[x].next = drv.open[x].next),
             ap' = ap
      PROVE  ServeInv'
  <2>1. Still BY <1>2, <1>f, <1>u, <1>a DEF Still, SameWork
  <2>2. QED BY <2>1, <1>1, StillServes
<1>3. CASE drv' = drv /\ ap' = ap BY <1>2, <1>3
<1>4. CASE ap' = ap /\ drv'.open[k] = [w EXCEPT !.wakers = @ \cup {o}]
  <2>1. drv'.open[k].create = w.create /\ drv'.open[k].next = w.next BY <1>4, <1>f, <1>t DEF OpenType
  <2>2. QED BY <1>2, <1>4, <1>f, <2>1
<1>5. CASE /\ drv'.open[k] = [w EXCEPT !.cap = @ - 1, !.next = @ + 4, !.create = Append(@, w.next)]
           /\ ap' = [h \in Halves |-> IF h[1] = w.next
                                      THEN [ap[h] EXCEPT !.pc = "idle"] ELSE ap[h]]
  <2>1. drv'.open[k].create = Append(w.create, w.next) /\ drv'.open[k].next = w.next + 4
    BY <1>5, <1>f, <1>t DEF OpenType
  <2>2. (Created(k))' = Created(k) \cup {w.next}
    <3>1. (Created(k))' = Elems(drv'.open[k].create) /\ Created(k) = Elems(w.create) BY DEF Created, Elems
    <3>2. Elems(Append(w.create, w.next)) = Elems(w.create) \cup {w.next} BY <1>n, AppendElems, Zenon
    <3>3. QED BY <3>1, <3>2, <2>1, Zenon
  <2>3. \A x \in Kinds : x # k => (Created(x))' = Created(x) BY <1>f DEF Created
  <2>4. Mine(w.next) /\ Kind(w.next) = k /\ (w.next + 4) % 4 = FirstId(k, Server) BY <1>f, <1>n, OwnIds
  <2>5. CreatedInv'
    <3>1. SUFFICES ASSUME NEW x \in Kinds
                   PROVE  /\ drv'.open[x].next % 4 = FirstId(x, Server)
                          /\ \A i \in (Created(x))' : /\ i \in Nat /\ i % 4 = FirstId(x, Server)
                                                      /\ i < drv'.open[x].next BY DEF CreatedInv
    <3>2. CASE x # k BY <3>2, <2>3, <1>f, <1>t, SMTT(30) DEF CreatedInv
    <3>3. CASE x = k
      <4>1. \A i \in Created(k) : i \in Nat /\ i % 4 = FirstId(k, Server) /\ i < w.next BY <1>f, <1>t DEF CreatedInv
      <4>2. \A i \in Created(k) : i < w.next + 4 BY <4>1, <1>n
      <4>3. w.next < w.next + 4 BY <1>n
      <4>4. QED BY <3>3, <2>1, <2>2, <2>4, <1>n, <4>1, <4>2, <4>3, ZenonT(30)
    <3>4. QED BY <3>2, <3>3
  <2>6. ASSUME NEW j \in Ids, j # w.next PROVE StreamOne(j)'
    <3>1. Kind(j) \in Kinds /\ drv.open[Kind(j)].next \in Nat BY IdFacts, <1>t DEF OpenType
    <3>2. j \in (Created(Kind(j)))' <=> j \in Created(Kind(j)) BY <2>2, <2>3, <2>6, <3>1
    <3>3. drv'.open[Kind(j)].next >= drv.open[Kind(j)].next
      <4>1. CASE Kind(j) = k
        <5>1. drv'.open[Kind(j)].next = w.next + 4 /\ drv.open[Kind(j)].next = w.next BY <4>1, <2>1
        <5>2. w.next + 4 >= w.next BY <1>n
        <5>3. QED BY <5>1, <5>2
      <4>2. CASE Kind(j) # k
        <5>1. drv'.open[Kind(j)].next = drv.open[Kind(j)].next BY <4>2, <1>f, <3>1
        <5>2. QED BY <5>1, <3>1
      <4>3. QED BY <4>1, <4>2
    <3>4. \A h \in Halves : h[1] = j => SameHandle(h) /\ (h \in awake => h \in awake')
      BY <1>5, <1>a, <2>6 DEF SameHandle
    <3>5. SameAt(j) BY <1>f, <1>u, <1>t, <3>2, <3>3, <3>4 DEF SameAt
    <3>6. QED BY <3>5, SameAtKeeps DEF ServeInv
  <2>7. ASSUME NEW j \in Ids, j = w.next PROVE StreamOne(j)'
    <3>1. Mine(j) /\ Kind(j) = k /\ j >= drv.open[Kind(j)].next BY <2>4, <2>7, <1>n
    <3>2. /\ Untouched(j) /\ j \notin drv.recv \cup drv.send \cup d.recv \cup d.send
          /\ qs[j].rarmed => qs[j].made /\ ~qs[j].rend BY <3>1 DEF ServeInv, StreamOne, NewOne
    <3>3. ~qs[j].rarmed BY <3>2 DEF Untouched
    <3>4. j \in (Created(Kind(j)))' /\ ~(j >= drv'.open[Kind(j)].next)
      <4>1. j \in (Created(Kind(j)))' BY <3>1, <2>2, <2>7, Zenon
      <4>2. drv'.open[Kind(j)].next = j + 4 BY <3>1, <2>1, <2>7, Zenon
      <4>3. ~(j >= j + 4) BY <1>n, <2>7
      <4>4. QED BY <4>1, <4>2, <4>3, Zenon
    <3>5. ASSUME NEW h \in Halves, h[1] = j PROVE ap'[h].pc = "idle" /\ ~(Waits(h))' /\ ~(Sleeping(h))'
      <4>1. ap'[h] = [ap[h] EXCEPT !.pc = "idle"] /\ ap[h] \in HandleType BY <1>5, <1>t, <3>5, <2>7
      <4>2. ap'[h].pc = "idle" BY <4>1 DEF HandleType
      <4>3. QED BY <4>2 DEF Waits, Sleeping
    <3>6. SendOf(j)[1] = j /\ RecvOf(j)[1] = j BY IdFacts
    <3>7. (Untouched(j))' BY <3>2, <1>u DEF Untouched
    <3>a. (NewOne(j))' BY <1>f, <1>u, <3>2, <3>3, <3>4, <3>7 DEF NewOne, Untouched
    <3>b. (FreshOne(j))' BY <3>4 DEF FreshOne
    <3>s. ss[j] \in SendType /\ rs[j] \in RecvType BY DEF TypeOK
    <3>c. (SendOne(j))'
      <4>1. ASSUME SendOf(j) \in Halves PROVE ~ss[j].stop /\ ~ss[j].closed
        <5>1. SendOne(j) BY DEF ServeInv, StreamOne
        <5>2. QED BY <4>1, <5>1, <3>2 DEF SendOne, Untouched
      <4>2. QED BY <1>u, <3>2, <3>4, <3>5, <3>6, <4>1 DEF SendOne, Untouched
    <3>d. (RecvOne(j))' BY <1>u, <3>2, <3>4, <3>5, <3>6 DEF RecvOne, Untouched
    <3>e. QED BY <3>a, <3>b, <3>c, <3>d DEF StreamOne
  <2>8. QED BY <1>1, <2>5, <2>6, <2>7 DEF ServeInv
<1>6. QED BY <1>f, <1>3, <1>4, <1>5, SMTT(30)

\* The plan of a behaviour does not change.
LEMMA PlanStep ==
  ASSUME Next
  PROVE  plan' = plan
BY Touched

\* At the start there is no stream.
LEMMA ServeInit == Init => ServeInv
<1>1. SUFFICES ASSUME Init PROVE ServeInv OBVIOUS
<1>2. /\ drv = DriverState /\ ss = [i \in Ids |-> NewSend] /\ rs = [i \in Ids |-> NewRecv]
      /\ sends = {} /\ recvs = {} /\ d = NewDriver /\ qs = [i \in Ids |-> QuicheStream]
      /\ \A h \in Halves : ap[h].pc = "none" BY <1>1 DEF Init
<1>3. ASSUME NEW k \in Kinds
      PROVE  Created(k) = {} /\ drv.open[k].next = FirstId(k, Server)
  <2>1. drv.open[k] = DriverOpen(k) BY <1>2 DEF DriverState
  <2>2. drv.open[k].create = <<>> /\ drv.open[k].next = FirstId(k, Server) BY <2>1 DEF DriverOpen
  <2>3. DOMAIN drv.open[k].create = {} BY <2>2
  <2>4. QED BY <2>2, <2>3 DEF Created
<1>4. CreatedInv
  <2>1. \A k \in Kinds : FirstId(k, Server) \in {0, 1, 2, 3} BY EzAssumption DEF FirstId, Kinds
  <2>2. \A k \in Kinds : FirstId(k, Server) % 4 = FirstId(k, Server) BY <2>1
  <2>3. QED BY <1>3, <2>2 DEF CreatedInv
<1>5. d.recv = {} /\ d.send = {} /\ drv.recv = {} /\ drv.send = {} BY <1>2 DEF NewDriver, DriverState
<1>6. TakenInv BY <1>5 DEF TakenInv
<1>7. ASSUME NEW id \in Ids PROVE StreamOne(id)
  <2>1. /\ ss[id] = NewSend /\ ~ss[id].closed /\ ~ss[id].stop /\ ~rs[id].closed
        /\ ~qs[id].made /\ ~qs[id].fin /\ ~qs[id].rst /\ ~qs[id].stopped /\ ~qs[id].rarmed
    BY <1>2 DEF NewSend, NewRecv, QuicheStream
  <2>2. Kind(id) \in Kinds BY IdFacts
  <2>3. NewOne(id) BY <1>2, <1>3, <1>5, <2>1, <2>2 DEF NewOne, Untouched
  <2>4. FreshOne(id) BY <1>2, <2>1 DEF FreshOne, Blank
  <2>5. SendOne(id) BY <1>2, <2>1 DEF SendOne, Waits
  <2>6. RecvOne(id) BY <1>2, <2>1 DEF RecvOne, Waits, Sleeping
  <2>7. QED BY <2>3, <2>4, <2>5, <2>6 DEF StreamOne
<1>8. QED BY <1>4, <1>6, <1>7 DEF ServeInv

\* Every step keeps the rules of the streams.
LEMMA ServeStep ==
  ASSUME TypeOK, TypeOK', ServeInv, OpensWithinLimit, plan \in Plans, ~EarlyStop, Next
  PROVE  ServeInv'
<1>1. ASSUME Still,
             \/ ReadDatagrams \/ WriteDatagrams \/ PollClose \/ PollEarly \/ Flushed \/ Woken
             \/ Interrupted \/ NetDone \/ Connected \/ d' = d
      PROVE  ServeInv'
  <2>1. TakenInv' BY <1>1, StillTaken DEF ServeInv
  <2>2. QED BY <1>1, <2>1, StillServes
<1>2. CASE \/ ReadDatagrams \/ WriteDatagrams \/ PollClose \/ PollEarly \/ Flushed \/ Woken
           \/ Interrupted \/ NetDone \/ Connected BY <1>1, <1>2, StillDriver
<1>3. CASE SendClose
  <2>1. d' = d BY <1>3 DEF SendClose, NetFrame
  <2>2. QED BY <1>1, <1>3, <2>1, StillDriver
<1>4. CASE \/ (\E k \in Kinds : PeerMaxStreams(k)) \/ PeerDatagram \/ PeerClose \/ Timeout
           \/ PollHandshake \/ PollClosed \/ Close \/ DropConnection
           \/ SendDatagram \/ Nudge \/ ReadDatagram
  <2>1. d' = d
    BY <1>4 DEF PeerMaxStreams, PeerDatagram, PeerClose, Timeout, NetFrame, PollHandshake, PollClosed, Close,
      DropConnection, SendDatagram, Nudge, ReadDatagram
  <2>2. QED BY <1>1, <1>4, <2>1, StillOthers
<1>5. CASE \E id \in Ids : \/ ReadKnown(id) \/ WriteKnown(id) \/ WriteGone(id) \/ FlushRecv(id)
                           \/ FlushSend(id) BY <1>5, TurnServes
<1>6. CASE \E id \in Ids : AcceptUni(id) \/ AcceptBi(id) BY <1>6, AcceptedServes
<1>7. CASE \E due \in KeepAliveDue : PollMain(due) BY <1>7, PollServes
<1>8. CASE OnConnClose BY <1>8, CloseServes
<1>9. CASE \E id \in Ids : PeerData(id) \/ PeerFin(id) \/ PeerReset(id) \/ PeerStop(id) BY <1>9, PeerServes
<1>10. CASE PeerCredit BY <1>10, CreditServes
<1>11. CASE \E id \in Ids : \/ Write(id) \/ Finish(id) \/ Reset(id) \/ SetPriority(id) \/ DropSend(id)
                            \/ SendClosed(id) \/ Flush(id) BY <1>11, SendCallsServe
<1>12. CASE \E id \in Ids : Read(id) \/ Stop(id) \/ DropRecv(id) \/ RecvClosed(id) BY <1>12, RecvCallsServe
<1>13. CASE \E id \in Ids : Accept(id) BY <1>13, AcceptServes
<1>14. CASE \E h \in Halves : Tell(h) \/ Check(h) BY <1>14, TellServes, CheckServes
<1>15. CASE \E o \in Openers : Open(o) BY <1>15, OpenServes
<1>16. QED
  BY <1>2, <1>3, <1>4, <1>5, <1>6, <1>7, <1>8, <1>9, <1>10, <1>11, <1>12, <1>13, <1>14, <1>15 DEF Next, DriverStep,
    Peer, App, Call

-----------------------------------------------------------------------------
(* The latches know every sleeper                                           *)

\* A call that sleeps is known to the latch whose step ends its wait.
HalfWatched(h) ==
  Sleeping(h) => IF ap[h].op = "flush" THEN drv.closed = "none" /\ h \in drv.clw
                 ELSE ErrorOf(drv) = "none" /\ h \in drv.crw

OpenWatched(o) ==
  op[o] = "wait" /\ o \notin awake =>
    /\ ErrorOf(drv) = "none" /\ o \in drv.crw /\ drv.open[o[2]].cap = 0 /\ o \in drv.open[o[2]].wakers

HandshakeWatched ==
  one[HandshakeTask] = "wait" /\ HandshakeTask \notin awake =>
    ~drv.est /\ ErrorOf(drv) = "none" /\ HandshakeTask \in drv.hsw /\ HandshakeTask \in drv.crw

ClosedWatched ==
  one[ClosedTask] = "wait" /\ ClosedTask \notin awake =>
    drv.closed = "none" /\ ClosedTask \in drv.clw

\* Everybody who sleeps has a waker in the latches; the driver is done only
\* when the end is published.
WatchInv ==
  /\ d.pc = "done" => drv.closed # "none"
  /\ \A h \in Halves : HalfWatched(h)
  /\ \A o \in Openers : OpenWatched(o)
  /\ HandshakeWatched /\ ClosedWatched

\* The latches still have the waker of a task, and what woke it did.
Kept(t) ==
  /\ t \in awake => t \in awake'
  /\ t \in drv.crw => t \in drv'.crw
  /\ t \in drv.clw => t \in drv'.clw

\* A call that sleeps after the step slept before it, on the same thing.
HalfKept(h) == (Sleeping(h))' => ap[h].pc = "wait" /\ ap'[h].op = ap[h].op /\ Kept(h)

SameReasons == drv'.creq = drv.creq /\ drv'.closed = drv.closed
NotEnded == d'.pc = "done" => d.pc = "done"

\* The step ends nobody's wait and makes nobody wait.
Calm ==
  /\ SameReasons /\ NotEnded /\ UNCHANGED <<op, one>> /\ drv'.est = drv.est /\ drv.hsw \subseteq drv'.hsw
  /\ \A k \in Kinds : drv'.open[k].cap = drv.open[k].cap /\ drv'.open[k].wakers = drv.open[k].wakers
  /\ \A h \in Halves : HalfKept(h)
  /\ \A o \in Openers : Kept(o)
  /\ Kept(HandshakeTask) /\ Kept(ClosedTask)

\* A call on a stream stays watched ...
LEMMA HalfStays ==
  ASSUME SameReasons, NEW h \in Halves, HalfWatched(h), HalfKept(h)
  PROVE  HalfWatched(h)'
<1>1. SUFFICES ASSUME (Sleeping(h))'
               PROVE  IF ap'[h].op = "flush" THEN drv'.closed = "none" /\ h \in drv'.clw
                      ELSE ErrorOf(drv') = "none" /\ h \in drv'.crw BY DEF HalfWatched
<1>2. ap[h].pc = "wait" /\ ap'[h].op = ap[h].op /\ Kept(h) BY <1>1 DEF HalfKept
<1>3. h \notin awake' BY <1>1 DEF Sleeping
<1>4. Sleeping(h) BY <1>2, <1>3 DEF Sleeping, Kept
<1>5. ErrorOf(drv') = ErrorOf(drv) BY DEF ErrorOf, SameReasons
<1>6. QED BY <1>2, <1>4, <1>5 DEF HalfWatched, Kept, SameReasons

\* ... and so does an opener ...
LEMMA OpenStays ==
  ASSUME SameReasons, NEW o \in Openers, OpenWatched(o), Kept(o), op'[o] = op[o],
         drv'.open[o[2]].cap = drv.open[o[2]].cap,
         drv.open[o[2]].wakers \subseteq drv'.open[o[2]].wakers
  PROVE  OpenWatched(o)'
<1>1. ErrorOf(drv') = ErrorOf(drv) BY DEF ErrorOf, SameReasons
<1>2. QED BY <1>1 DEF OpenWatched, Kept

\* ... the wait for the handshake ...
LEMMA HandshakeStays ==
  ASSUME SameReasons, HandshakeWatched, Kept(HandshakeTask), one'[HandshakeTask] = one[HandshakeTask],
         drv'.est = drv.est, drv.hsw \subseteq drv'.hsw
  PROVE  HandshakeWatched'
<1>1. ErrorOf(drv') = ErrorOf(drv) BY DEF ErrorOf, SameReasons
<1>2. QED BY <1>1 DEF HandshakeWatched, Kept

\* ... and closed().
LEMMA ClosedStays ==
  ASSUME drv'.closed = drv.closed, ClosedWatched, one'[ClosedTask] = one[ClosedTask],
         ClosedTask \in awake => ClosedTask \in awake',
         ClosedTask \in drv.clw => ClosedTask \in drv'.clw
  PROVE  ClosedWatched'
BY DEF ClosedWatched

\* The direction an opener asks for.
LEMMA OpenerKind ==
  ASSUME NEW o \in Openers
  PROVE  o[2] \in Kinds
BY DEF Openers

\* A calm step keeps everybody watched.
LEMMA CalmWatches ==
  ASSUME WatchInv, Calm
  PROVE  WatchInv'
<1>1. SameReasons /\ NotEnded /\ op' = op /\ one' = one BY DEF Calm
<1>2. d'.pc = "done" => drv'.closed # "none" BY <1>1 DEF WatchInv, SameReasons, NotEnded
<1>3. \A h \in Halves : HalfWatched(h)' BY HalfStays DEF Calm, WatchInv
<1>4. ASSUME NEW o \in Openers PROVE OpenWatched(o)'
  <2>1. /\ drv'.open[o[2]].cap = drv.open[o[2]].cap
        /\ drv'.open[o[2]].wakers = drv.open[o[2]].wakers /\ Kept(o) BY OpenerKind DEF Calm
  <2>2. OpenWatched(o) BY DEF WatchInv
  <2>3. QED BY <1>1, <2>1, <2>2, OpenStays
<1>5. HandshakeWatched' BY <1>1, HandshakeStays DEF Calm, WatchInv
<1>6. ClosedWatched' BY <1>1, ClosedStays DEF Calm, WatchInv, Kept, SameReasons
<1>7. QED BY <1>2, <1>3, <1>4, <1>5, <1>6 DEF WatchInv

\* The driver's state as far as the sleepers know it.
SameWatch(w, v) ==
  /\ w.creq = v.creq /\ w.closed = v.closed /\ w.est = v.est /\ w.hsw = v.hsw
  /\ w.open = v.open /\ v.crw \subseteq w.crw /\ v.clw \subseteq w.clw

\* A step that wakes and puts nobody to sleep but the driver is calm.
LEMMA CalmStep ==
  ASSUME SameWatch(drv', drv), NotEnded, UNCHANGED <<op, one>>,
         \A t \in awake : t # DriverTask => t \in awake',
         \A h \in Halves : ap'[h] = ap[h] \/ ap'[h].pc # "wait"
  PROVE  Calm
<1>1. \A t : t # DriverTask => Kept(t) BY DEF Kept, SameWatch
<1>2. /\ \A h \in Halves : Kept(h)
      /\ \A o \in Openers : Kept(o)
      /\ Kept(HandshakeTask) /\ Kept(ClosedTask) BY <1>1, TasksDiffer
<1>3. ASSUME NEW h \in Halves PROVE HalfKept(h)
  <2>1. SUFFICES ASSUME (Sleeping(h))' PROVE ap[h].pc = "wait" /\ ap'[h].op = ap[h].op /\ Kept(h) BY DEF HalfKept
  <2>2. ap'[h].pc = "wait" BY <2>1 DEF Sleeping
  <2>3. QED BY <2>2, <1>2
<1>4. /\ SameReasons /\ drv'.est = drv.est /\ drv.hsw \subseteq drv'.hsw
      /\ drv'.open = drv.open BY DEF SameReasons, SameWatch
<1>5. QED BY <1>2, <1>3, <1>4 DEF Calm

\* A call forgets the wakers of its own handle, which does not sleep.
LEMMA CalmCall ==
  ASSUME TypeOK, NEW h \in Halves, NEW o, Calls(h, o), AppFrame,
         \A g \in Halves : g # h => ap'[g] = ap[g], ap'[h].pc # "wait"
  PROVE  Calm
<1>1. drv' = [drv EXCEPT !.crw = @ \ {h}, !.clw = @ \ {h}] /\ awake' = awake \ {h} /\ drv \in DrvType
  BY DEF Calls, TypeOK
<1>2. /\ drv'.creq = drv.creq /\ drv'.closed = drv.closed /\ drv'.est = drv.est /\ drv'.hsw = drv.hsw
      /\ drv'.open = drv.open /\ drv'.crw = drv.crw \ {h} /\ drv'.clw = drv.clw \ {h} BY <1>1 DEF DrvType
<1>3. \A t : t # h => Kept(t) BY <1>1, <1>2 DEF Kept
<1>4. \A g \in Openers : g # h
  <2>1. \A g \in Halves : Len(g) = 2 BY DEF Halves
  <2>2. \A g \in Openers : Len(g) = 3 BY DEF Openers
  <2>3. QED BY <2>1, <2>2
<1>5. (\A g \in Openers : Kept(g)) /\ Kept(HandshakeTask) /\ Kept(ClosedTask) BY <1>3, <1>4, TasksDiffer
<1>6. ASSUME NEW g \in Halves PROVE HalfKept(g)
  <2>1. CASE g = h BY <2>1 DEF HalfKept, Sleeping
  <2>2. CASE g # h BY <2>2, <1>3 DEF HalfKept, Sleeping
  <2>3. QED BY <2>1, <2>2
<1>7. d' = d /\ op' = op /\ one' = one BY DEF AppFrame
<1>8. QED BY <1>2, <1>5, <1>6, <1>7 DEF Calm, SameReasons, NotEnded

\* Who waits for a reason is woken when one is given.
LEMMA AbortWatches ==
  ASSUME TypeOK, WatchInv, NEW err \in Errors, NotEnded, UNCHANGED <<ap, op, one>>,
         drv' = Abort(drv, err)[1], awake' = awake \cup Fire(Abort(drv, err)[2])
  PROVE  WatchInv'
<1>t. drv \in DrvType BY DEF TypeOK
<1>1. CASE drv.creq # "none"
  <2>1. drv' = drv BY <1>1, <1>t, AbortFacts
  <2>2. Calm BY <2>1, CalmStep DEF SameWatch
  <2>3. QED BY <2>2, CalmWatches
<1>2. CASE drv.creq = "none"
  <2>1. drv' = [drv EXCEPT !.creq = err, !.crw = {}] /\ awake' = awake \cup Fire(drv.crw)
    BY <1>2, <1>t, AbortFacts, ZenonT(60)
  <2>2. drv'.closed = drv.closed /\ drv'.clw = drv.clw BY <2>1, <1>t DEF DrvType
  <2>3. ASSUME NEW h \in Halves PROVE HalfWatched(h)'
    <3>1. SUFFICES ASSUME ap[h].pc = "wait", h \notin awake'
                   PROVE  ap[h].op = "flush" /\ drv'.closed = "none" /\ h \in drv'.clw BY DEF HalfWatched, Sleeping
    <3>2. h \notin awake /\ h \notin Fire(drv.crw) BY <3>1, <2>1
    <3>3. h \notin drv.crw BY <3>1, <3>2 DEF Fire, Pending
    <3>4. QED BY <3>1, <3>2, <3>3, <2>2 DEF WatchInv, HalfWatched, Sleeping
  <2>4. ASSUME NEW o \in Openers PROVE OpenWatched(o)'
    <3>1. SUFFICES ASSUME op[o] = "wait", o \notin awake' PROVE FALSE BY DEF OpenWatched
    <3>2. o \notin awake /\ o \notin Fire(drv.crw) BY <3>1, <2>1
    <3>3. o \in drv.crw BY <3>1, <3>2 DEF WatchInv, OpenWatched
    <3>4. QED BY <3>1, <3>2, <3>3 DEF Fire, Pending
  <2>5. HandshakeWatched'
    <3>1. SUFFICES ASSUME one[HandshakeTask] = "wait", HandshakeTask \notin awake' PROVE FALSE BY DEF HandshakeWatched
    <3>2. HandshakeTask \notin awake /\ HandshakeTask \notin Fire(drv.crw) BY <3>1, <2>1
    <3>3. HandshakeTask \in drv.crw BY <3>1, <3>2 DEF WatchInv, HandshakeWatched
    <3>4. QED BY <3>1, <3>2, <3>3 DEF Fire, Pending
  <2>6. ClosedWatched' BY <2>1, <2>2, ClosedStays DEF WatchInv
  <2>7. QED BY <2>2, <2>3, <2>4, <2>5, <2>6 DEF WatchInv, NotEnded
<1>3. QED BY <1>t, <1>1, <1>2

\* An error of the driver is a reason.
LEMMA FailedWatches ==
  ASSUME TypeOK, WatchInv, NEW err \in Errors, Failed(err), UNCHANGED <<ap, op, one>>
  PROVE  WatchInv'
<1>1. drv' = Abort(drv, err)[1] /\ awake' = awake \cup Fire(Abort(drv, err)[2]) BY DEF Failed
<1>2. d'.pc # "done" BY FailedFacts
<1>3. QED BY <1>1, <1>2, AbortWatches DEF NotEnded

\* on_conn_close wakes whoever waits for the end, and whoever waits for a
\* reason that was not given before.
LEMMA EndWatches ==
  ASSUME TypeOK, WatchInv, ReasonsInv, OnConnClose
  PROVE  WatchInv'
<1> DEFINE v == [drv EXCEPT !.closed = CloseReason, !.clw = {}]
<1>t. drv \in DrvType /\ CloseReason \in Errors /\ CloseReason # "none"
  <2>1. CloseReason \in Errors BY CloseReasonFacts
  <2>2. QED BY <2>1 DEF TypeOK, Errors
<1>v. v \in DrvType /\ v.creq = drv.creq /\ v.crw = drv.crw /\ v.closed = CloseReason BY <1>t DEF DrvType, Reasons
<1>1. PICK a : a = Abort(v, CloseReason) OBVIOUS
<1>2. /\ drv' = a[1] /\ awake' = awake \cup Fire(drv.clw \cup a[2]) /\ UNCHANGED <<ap, op, one>> BY <1>1 DEF OnConnClose
<1>3. /\ drv.creq # "none" => a[1] = v
      /\ drv.creq = "none" => a[1] = [v EXCEPT !.creq = CloseReason, !.crw = {}] /\ a[2] = drv.crw
  BY <1>1, <1>v, <1>t, AbortFacts
<1>4. drv'.closed # "none" BY <1>2, <1>3, <1>v, <1>t DEF DrvType
<1>5. \A t : t \in drv.clw /\ Pending(t) => t \in awake' BY <1>2 DEF Fire
<1>6. \A t : t \in drv.crw /\ drv.creq = "none" /\ Pending(t) => t \in awake' BY <1>2, <1>3 DEF Fire
<1>7. awake \subseteq awake' BY <1>2
<1>8. ErrorOf(drv) = "none" => drv.creq = "none" BY DEF ErrorOf
<1>9. ASSUME NEW h \in Halves PROVE ~(Sleeping(h))'
  <2>1. SUFFICES ASSUME ap[h].pc = "wait", h \notin awake' PROVE FALSE BY <1>2 DEF Sleeping
  <2>2. Pending(h) /\ Sleeping(h) BY <2>1, <1>7 DEF Pending, Sleeping
  <2>3. QED BY <2>1, <2>2, <1>5, <1>6, <1>8 DEF WatchInv, HalfWatched
<1>10. ASSUME NEW o \in Openers, op[o] = "wait", o \notin awake' PROVE FALSE
  <2>1. Pending(o) /\ o \notin awake BY <1>10, <1>7 DEF Pending
  <2>2. QED BY <1>10, <2>1, <1>6, <1>8 DEF WatchInv, OpenWatched
<1>11. ASSUME one[HandshakeTask] = "wait", HandshakeTask \notin awake' PROVE FALSE
  <2>1. Pending(HandshakeTask) /\ HandshakeTask \notin awake BY <1>11, <1>7 DEF Pending
  <2>2. QED BY <1>11, <2>1, <1>6, <1>8 DEF WatchInv, HandshakeWatched
<1>12. ASSUME one[ClosedTask] = "wait", ClosedTask \notin awake' PROVE FALSE
  <2>1. Pending(ClosedTask) /\ ClosedTask \notin awake BY <1>12, <1>7 DEF Pending
  <2>2. QED BY <1>12, <2>1, <1>5 DEF WatchInv, ClosedWatched
<1>13. QED
  BY <1>2, <1>4, <1>9, <1>10, <1>11, <1>12 DEF WatchInv, HalfWatched, OpenWatched, HandshakeWatched, ClosedWatched

-----------------------------------------------------------------------------
(* The steps that put somebody to sleep, or end a wait                      *)

\* The openers and the two other waits notice nothing.
OthersKept ==
  /\ SameReasons /\ NotEnded /\ UNCHANGED <<op, one>>
  /\ drv'.est = drv.est /\ drv'.hsw = drv.hsw /\ drv'.open = drv.open
  /\ \A t \in Openers \cup {HandshakeTask, ClosedTask} : Kept(t)

\* A step of one handle: the others stay watched.
LEMMA OneHandle ==
  ASSUME WatchInv, OthersKept, NEW h \in Halves, HalfWatched(h)',
         \A g \in Halves : g # h => HalfKept(g)
  PROVE  WatchInv'
<1>1. SameReasons /\ NotEnded /\ op' = op /\ one' = one BY DEF OthersKept
<1>2. d'.pc = "done" => drv'.closed # "none" BY <1>1 DEF WatchInv, SameReasons, NotEnded
<1>3. \A g \in Halves : HalfWatched(g)' BY <1>1, HalfStays DEF WatchInv
<1>4. ASSUME NEW o \in Openers PROVE OpenWatched(o)'
  <2>1. drv'.open[o[2]] = drv.open[o[2]] /\ Kept(o) BY DEF OthersKept
  <2>2. OpenWatched(o) BY DEF WatchInv
  <2>3. QED BY <1>1, <2>1, <2>2, OpenStays
<1>5. HandshakeWatched' BY <1>1, HandshakeStays DEF OthersKept, WatchInv
<1>6. ClosedWatched' BY <1>1, ClosedStays DEF OthersKept, WatchInv, Kept, SameReasons
<1>7. QED BY <1>2, <1>3, <1>4, <1>5, <1>6 DEF WatchInv

\* A call goes to sleep only after it left its waker, under the lock under which
\* it saw no error.
LEMMA CheckWatches ==
  ASSUME TypeOK, WatchInv, NEW h \in Halves, Check(h)
  PROVE  WatchInv'
<1>1. /\ drv'.creq = drv.creq /\ drv'.closed = drv.closed
      /\ drv'.open = drv.open /\ drv'.est = drv.est /\ drv'.hsw = drv.hsw
      /\ drv.crw \subseteq drv'.crw /\ drv.clw \subseteq drv'.clw /\ awake \subseteq awake'
      /\ ap'[h].pc = "wait" => /\ ap'[h].op = ap[h].op
                               /\ IF ap[h].op = "flush" THEN drv.closed = "none" /\ h \in drv'.clw
                                  ELSE ErrorOf(drv) = "none" /\ h \in drv'.crw
      /\ \A g \in Halves : g # h => ap'[g] = ap[g] BY CheckFacts
<1>2. UNCHANGED <<op, one, d>> BY DEF Check
<1>3. \A t : Kept(t) BY <1>1 DEF Kept
<1>4. OthersKept BY <1>1, <1>2, <1>3 DEF OthersKept, SameReasons, NotEnded
<1>5. ErrorOf(drv') = ErrorOf(drv) BY <1>1 DEF ErrorOf
<1>6. HalfWatched(h)'
  <2>1. SUFFICES ASSUME ap'[h].pc = "wait"
                 PROVE  IF ap'[h].op = "flush" THEN drv'.closed = "none" /\ h \in drv'.clw
                        ELSE ErrorOf(drv') = "none" /\ h \in drv'.crw BY DEF HalfWatched, Sleeping
  <2>2. QED BY <2>1, <1>1, <1>5
<1>7. \A g \in Halves : g # h => HalfKept(g) BY <1>1, <1>3 DEF HalfKept, Sleeping
<1>8. QED BY <1>4, <1>6, <1>7, OneHandle

\* The handles keep their waits while the latches only learn wakers.
LEMMA HalvesStay ==
  ASSUME WatchInv, SameReasons, drv.crw \subseteq drv'.crw, drv.clw \subseteq drv'.clw,
         \A h \in Halves : /\ h \in awake => h \in awake'
                           /\ ap'[h] = ap[h] \/ ap'[h].pc # "wait"
  PROVE  \A h \in Halves : HalfWatched(h)'
<1>1. SUFFICES ASSUME NEW h \in Halves PROVE HalfWatched(h)' OBVIOUS
<1>2. Kept(h) BY DEF Kept
<1>3. HalfKept(h) BY <1>2 DEF HalfKept, Sleeping
<1>4. QED BY <1>3, HalfStays DEF WatchInv

\* An opener sleeps only while the limit the driver published is used up, and
\* nobody takes capacity while another sleeps on it.
LEMMA OpenWatches ==
  ASSUME TypeOK, WatchInv, NEW o \in Openers, Open(o)
  PROVE  WatchInv'
<1>f. /\ o[2] \in Kinds /\ drv'.creq = drv.creq /\ drv'.closed = drv.closed /\ drv'.est = drv.est /\ drv'.hsw = drv.hsw
      /\ drv.crw \subseteq drv'.crw /\ drv.clw \subseteq drv'.clw
      /\ \A k \in Kinds : k # o[2] => drv'.open[k] = drv.open[k]
      /\ \A t \in awake : t # o => t \in awake' BY OpenFacts, ZenonT(30)
<1>g. \/ drv' = drv /\ op'[o] = "done" /\ ap' = ap
      \/ /\ ErrorOf(drv) = "none" /\ drv.open[o[2]].cap = 0 /\ ap' = ap /\ o \in drv'.crw
         /\ drv'.open[o[2]] = [drv.open[o[2]] EXCEPT !.wakers = @ \cup {o}]
      \/ /\ drv.open[o[2]].cap > 0 /\ op'[o] = "done"
         /\ ap' = [h \in Halves |-> IF h[1] = drv.open[o[2]].next
                                    THEN [ap[h] EXCEPT !.pc = "idle"] ELSE ap[h]] BY OpenFacts, ZenonT(30)
<1>u. UNCHANGED <<d, one>> /\ \A x \in Openers : x # o => op'[x] = op[x] BY DEF Open, TypeOK
<1>t. /\ \A k \in Kinds : drv.open[k] \in OpenType
      /\ ap \in [Halves -> HandleType] BY DEF TypeOK, DrvType
<1>h. /\ \A h \in Halves : h # o
      /\ HandshakeTask # o /\ ClosedTask # o
  <2>1. \A h \in Halves : Len(h) = 2 BY DEF Halves
  <2>2. Len(o) = 3 BY DEF Openers
  <2>3. QED BY <2>1, <2>2, TasksDiffer
<1>s. SameReasons /\ ErrorOf(drv') = ErrorOf(drv) BY <1>f DEF SameReasons, ErrorOf
<1>1. \A h \in Halves : ap'[h] = ap[h] \/ ap'[h].pc # "wait"
  <2>1. \A h \in Halves : [ap[h] EXCEPT !.pc = "idle"].pc = "idle" BY <1>t DEF HandleType
  <2>2. QED BY <1>g, <2>1
<1>2. \A h \in Halves : HalfWatched(h)' BY <1>1, <1>f, <1>h, <1>s, HalvesStay
<1>3. \A t : t # o => Kept(t) BY <1>f DEF Kept
<1>4. ASSUME NEW x \in Openers, x # o PROVE OpenWatched(x)'
  <2>1. OpenWatched(x) /\ x[2] \in Kinds /\ op'[x] = op[x] /\ Kept(x) BY <1>3, <1>4, <1>u, OpenerKind DEF WatchInv
  <2>2. CASE x[2] # o[2] \/ drv' = drv BY <2>1, <2>2, <1>f, <1>s, OpenStays
  <2>3. CASE x[2] = o[2] /\ drv'.open[o[2]] = [drv.open[o[2]] EXCEPT !.wakers = @ \cup {o}]
    <3>1. /\ drv'.open[x[2]].cap = drv.open[x[2]].cap
          /\ drv.open[x[2]].wakers \subseteq drv'.open[x[2]].wakers BY <2>3, <1>f, <1>t DEF OpenType
    <3>2. QED BY <2>1, <3>1, <1>s, OpenStays
  <2>4. CASE x[2] = o[2] /\ drv.open[o[2]].cap > 0
    <3>1. drv.open[x[2]].cap # 0 BY <2>4
    <3>2. SUFFICES ASSUME op[x] = "wait", x \notin awake' PROVE FALSE BY <2>1 DEF OpenWatched
    <3>3. x \notin awake BY <3>2, <2>1 DEF Kept
    <3>4. QED BY <3>1, <3>2, <3>3, <2>1 DEF OpenWatched
  <2>5. QED BY <1>g, <2>2, <2>3, <2>4
<1>5. OpenWatched(o)'
  <2>1. CASE op'[o] = "done" BY <2>1 DEF OpenWatched
  <2>2. CASE /\ ErrorOf(drv) = "none" /\ drv.open[o[2]].cap = 0 /\ o \in drv'.crw
             /\ drv'.open[o[2]] = [drv.open[o[2]] EXCEPT !.wakers = @ \cup {o}]
    <3>1. drv'.open[o[2]].cap = 0 /\ o \in drv'.open[o[2]].wakers BY <2>2, <1>f, <1>t DEF OpenType
    <3>2. QED BY <2>2, <3>1, <1>s DEF OpenWatched
  <2>3. QED BY <1>g, <2>1, <2>2
<1>6. HandshakeWatched' BY <1>3, <1>f, <1>h, <1>s, <1>u, HandshakeStays DEF WatchInv
<1>7. ClosedWatched' BY <1>3, <1>f, <1>h, <1>u, ClosedStays DEF WatchInv, Kept
<1>8. QED BY <1>2, <1>4, <1>5, <1>6, <1>7, <1>f, <1>u, SMTT(30) DEF WatchInv

\* A poll of the handshake that is Pending leaves its waker in three places.
LEMMA HandshakeWatches ==
  ASSUME TypeOK, WatchInv, PollHandshake
  PROVE  WatchInv'
<1>t. drv \in DrvType /\ HandshakeTask \in Tasks BY DEF TypeOK, Tasks, HandshakeTask
<1>u. UNCHANGED <<d, ap, op>> /\ one'[ClosedTask] = one[ClosedTask] BY TasksDiffer DEF PollHandshake, TypeOK
<1>a. \A t : t # HandshakeTask /\ t \in awake => t \in awake' BY DEF PollHandshake
<1>1. \/ drv' = drv /\ one'[HandshakeTask] # "wait"
      \/ /\ ~drv.est /\ ErrorOf(drv) = "none"
         /\ drv' = [PollError(drv, HandshakeTask) EXCEPT !.hsw = @ \cup {HandshakeTask}]
  <2>1. \A x : [one EXCEPT ![HandshakeTask] = x][HandshakeTask] = x BY DEF TypeOK
  <2>2. QED BY <2>1 DEF PollHandshake
<1>2. /\ drv'.creq = drv.creq /\ drv'.closed = drv.closed /\ drv'.open = drv.open
      /\ drv'.est = drv.est /\ drv.crw \subseteq drv'.crw /\ drv.clw \subseteq drv'.clw
      /\ \/ one'[HandshakeTask] # "wait"
         \/ /\ ~drv.est /\ ErrorOf(drv) = "none"
            /\ HandshakeTask \in drv'.hsw /\ HandshakeTask \in drv'.crw
  <2>1. CASE drv' = drv /\ one'[HandshakeTask] # "wait" BY <2>1
  <2>2. CASE /\ ~drv.est /\ ErrorOf(drv) = "none"
             /\ drv' = [PollError(drv, HandshakeTask) EXCEPT !.hsw = @ \cup {HandshakeTask}]
    <3>1. drv.creq = "none" /\ drv.closed = "none" BY <2>2 DEF ErrorOf
    <3>2. PollError(drv, HandshakeTask) =
            [drv EXCEPT !.crw = @ \cup {HandshakeTask}, !.clw = @ \cup {HandshakeTask}] BY <3>1 DEF PollError
    <3>3. PICK w : w = [drv EXCEPT !.crw = @ \cup {HandshakeTask}, !.clw = @ \cup {HandshakeTask}] OBVIOUS
    <3>4. w \in DrvType /\ w.creq = drv.creq /\ w.closed = drv.closed /\ w.open = drv.open
          /\ w.est = drv.est /\ w.crw = drv.crw \cup {HandshakeTask}
          /\ w.clw = drv.clw \cup {HandshakeTask} BY <3>3, <1>t DEF DrvType
    <3>5. drv' = [w EXCEPT !.hsw = @ \cup {HandshakeTask}] BY <2>2, <3>2, <3>3
    <3>6. /\ drv'.creq = w.creq /\ drv'.closed = w.closed /\ drv'.open = w.open
          /\ drv'.est = w.est /\ drv'.crw = w.crw /\ drv'.clw = w.clw
          /\ HandshakeTask \in drv'.hsw BY <3>4, <3>5 DEF DrvType
    <3>7. QED BY <2>2, <3>4, <3>6
  <2>3. QED BY <1>1, <2>1, <2>2
<1>s. SameReasons /\ ErrorOf(drv') = ErrorOf(drv) BY <1>2 DEF SameReasons, ErrorOf
<1>3. \A t : t # HandshakeTask => Kept(t) BY <1>2, <1>a DEF Kept
<1>4. \A h \in Halves : HalfWatched(h)' BY <1>2, <1>a, <1>s, <1>u, TasksDiffer, HalvesStay
<1>5. ASSUME NEW o \in Openers PROVE OpenWatched(o)'
  <2>1. OpenWatched(o) /\ Kept(o) /\ drv'.open[o[2]] = drv.open[o[2]] BY <1>2, <1>3, TasksDiffer DEF WatchInv
  <2>2. QED BY <2>1, <1>s, <1>u, OpenStays
<1>6. HandshakeWatched' BY <1>2, <1>s DEF HandshakeWatched
<1>7. ClosedWatched' BY <1>2, <1>3, <1>u, TasksDiffer, ClosedStays DEF WatchInv, Kept
<1>8. QED BY <1>2, <1>4, <1>5, <1>6, <1>7, <1>u DEF WatchInv

\* closed() leaves its waker where the end of the driver finds it.
LEMMA ClosedWatches ==
  ASSUME TypeOK, WatchInv, PollClosed
  PROVE  WatchInv'
<1>t. drv \in DrvType BY DEF TypeOK
<1>u. UNCHANGED <<d, ap, op>> /\ one'[HandshakeTask] = one[HandshakeTask] BY TasksDiffer DEF PollClosed, TypeOK
<1>a. \A t : t # ClosedTask /\ t \in awake => t \in awake' BY DEF PollClosed
<1>1. \/ drv' = drv /\ one'[ClosedTask] # "wait"
      \/ drv.closed = "none" /\ drv' = [drv EXCEPT !.clw = @ \cup {ClosedTask}]
  <2>1. \A x : [one EXCEPT ![ClosedTask] = x][ClosedTask] = x BY DEF TypeOK
  <2>2. QED BY <2>1 DEF PollClosed
<1>2. /\ drv'.creq = drv.creq /\ drv'.closed = drv.closed /\ drv'.open = drv.open
      /\ drv'.est = drv.est /\ drv'.hsw = drv.hsw /\ drv.crw \subseteq drv'.crw /\ drv.clw \subseteq drv'.clw
      /\ one'[ClosedTask] # "wait" \/ (drv.closed = "none" /\ ClosedTask \in drv'.clw) BY <1>1, <1>t DEF DrvType
<1>s. SameReasons BY <1>2 DEF SameReasons
<1>3. \A t : t # ClosedTask => Kept(t) BY <1>2, <1>a DEF Kept
<1>4. \A h \in Halves : HalfWatched(h)' BY <1>2, <1>a, <1>s, <1>u, TasksDiffer, HalvesStay
<1>5. ASSUME NEW o \in Openers PROVE OpenWatched(o)'
  <2>1. OpenWatched(o) /\ Kept(o) /\ drv'.open[o[2]] = drv.open[o[2]] BY <1>2, <1>3, TasksDiffer DEF WatchInv
  <2>2. QED BY <2>1, <1>s, <1>u, OpenStays
<1>6. HandshakeWatched' BY <1>2, <1>3, <1>s, <1>u, TasksDiffer, HandshakeStays DEF WatchInv
<1>7. ClosedWatched' BY <1>2 DEF ClosedWatched
<1>8. QED BY <1>2, <1>4, <1>5, <1>6, <1>7, <1>u DEF WatchInv

\* When the driver finds that streams may be opened it wakes every opener that
\* waits for one.
LEMMA PollWatches ==
  ASSUME TypeOK, WatchInv, OpensWithinLimit, NEW due \in KeepAliveDue, PollMain(due)
  PROVE  WatchInv'
<1>f. /\ UNCHANGED <<ap, op, one>> /\ drv'.creq = drv.creq /\ drv'.closed = drv.closed
      /\ drv'.clw = drv.clw /\ drv.crw \subseteq drv'.crw /\ drv'.est = drv.est /\ drv'.hsw = drv.hsw
      /\ \A k \in Kinds : /\ drv'.open[k].cap = StreamsLeft(k)
                          /\ StreamsLeft(k) > 0 \/ drv'.open[k].wakers = drv.open[k].wakers
      /\ d'.pc \in {"flush", "flush0"}
      /\ \A t \in awake : t # DriverTask => t \in awake'
      /\ \A k \in Kinds : StreamsLeft(k) > 0 => Fire(drv.open[k].wakers) \subseteq awake' BY PollMainFacts
<1>s. SameReasons /\ ErrorOf(drv') = ErrorOf(drv) BY <1>f DEF SameReasons, ErrorOf
<1>3. \A t : t # DriverTask => Kept(t) BY <1>f DEF Kept
<1>4. \A h \in Halves : HalfWatched(h)' BY <1>f, <1>s, TasksDiffer, HalvesStay
<1>5. ASSUME NEW o \in Openers PROVE OpenWatched(o)'
  <2>0. o[2] \in Kinds /\ Kept(o) /\ OpenWatched(o) BY <1>3, OpenerKind, TasksDiffer DEF WatchInv
  <2>1. SUFFICES ASSUME op[o] = "wait", o \notin awake'
                 PROVE  /\ ErrorOf(drv') = "none" /\ o \in drv'.crw
                        /\ drv'.open[o[2]].cap = 0 /\ o \in drv'.open[o[2]].wakers BY <1>f DEF OpenWatched
  <2>2. /\ ErrorOf(drv) = "none" /\ o \in drv.crw /\ o \in drv.open[o[2]].wakers BY <2>0, <2>1 DEF OpenWatched, Kept
  <2>3. o \in Fire(drv.open[o[2]].wakers) BY <2>1, <2>2 DEF Fire, Pending
  <2>4. ~(StreamsLeft(o[2]) > 0) BY <2>0, <2>1, <2>3, <1>f
  <2>5. StreamsLeft(o[2]) = 0
    <3>1. PICK k \in Kinds : k = o[2] BY <2>0
    <3>2. /\ drv.open[k] \in OpenType /\ q.left[k] \in Nat
          /\ drv.open[k].cap + Len(drv.open[k].create) <= q.left[k] BY DEF TypeOK, DrvType, QuicheType, OpensWithinLimit
    <3>3. PICK n : n = Len(drv.open[k].create) OBVIOUS
    <3>4. PICK m : m = q.left[k] OBVIOUS
    <3>5. PICK c : c = drv.open[k].cap OBVIOUS
    <3>6. c \in Nat /\ n \in Nat /\ m \in Nat /\ c + n <= m BY <3>2, <3>3, <3>4, <3>5 DEF OpenType
    <3>7. ~(m - n > 0) => m - n = 0 BY <3>6
    <3>8. StreamsLeft(k) = m - n BY <3>3, <3>4 DEF StreamsLeft
    <3>9. QED BY <3>1, <3>7, <3>8, <2>4
  <2>6. QED BY <2>0, <2>2, <2>4, <2>5, <1>f, <1>s
<1>6. HandshakeWatched' BY <1>f, <1>3, <1>s, TasksDiffer, HandshakeStays DEF WatchInv
<1>7. ClosedWatched' BY <1>f, <1>3, TasksDiffer, ClosedStays DEF WatchInv, Kept
<1>8. QED BY <1>f, <1>4, <1>5, <1>6, <1>7 DEF WatchInv

\* The end of the handshake wakes who waits for it.
LEMMA ConnectedWatches ==
  ASSUME TypeOK, WatchInv, Connected
  PROVE  WatchInv'
<1>t. drv \in DrvType /\ d \in TaskType BY DEF TypeOK
<1>1. /\ drv' = [drv EXCEPT !.est = TRUE, !.hsw = {}] /\ awake' = awake \cup Fire(drv.hsw)
      /\ d' = [d EXCEPT !.pc = "poll0"] /\ UNCHANGED <<ap, op, one>> BY DEF Connected
<1>2. /\ drv'.creq = drv.creq /\ drv'.closed = drv.closed /\ drv'.open = drv.open
      /\ drv'.crw = drv.crw /\ drv'.clw = drv.clw /\ d'.pc # "done" BY <1>1, <1>t DEF DrvType, TaskType
<1>s. SameReasons BY <1>2 DEF SameReasons
<1>3. \A t : Kept(t) BY <1>1, <1>2 DEF Kept
<1>4. \A h \in Halves : HalfWatched(h)' BY <1>1, <1>2, <1>s, HalvesStay
<1>5. ASSUME NEW o \in Openers PROVE OpenWatched(o)'
  <2>1. OpenWatched(o) /\ Kept(o) /\ drv'.open[o[2]] = drv.open[o[2]] BY <1>2, <1>3 DEF WatchInv
  <2>2. QED BY <2>1, <1>s, <1>1, OpenStays
<1>6. HandshakeWatched'
  <2>1. SUFFICES ASSUME one[HandshakeTask] = "wait", HandshakeTask \notin awake' PROVE FALSE
    BY <1>1 DEF HandshakeWatched
  <2>2. HandshakeTask \in drv.hsw BY <2>1, <1>1 DEF WatchInv, HandshakeWatched
  <2>3. QED BY <2>1, <2>2, <1>1 DEF Fire, Pending
<1>7. ClosedWatched' BY <1>1, <1>2, <1>3, ClosedStays DEF WatchInv, Kept
<1>8. QED BY <1>2, <1>4, <1>5, <1>6, <1>7 DEF WatchInv

-----------------------------------------------------------------------------
(* The other steps                                                          *)

\* The latches learn wakers and lose none.
LEMMA WatchFacts ==
  ASSUME NEW v \in DrvType
  PROVE  /\ SameWatch(v, v) /\ SameWatch(Registered(v), v)
         /\ \A id \in Ids : SameWatch(TellSend(v, id)[1], v) /\ SameWatch(TellRecv(v, id)[1], v)
         /\ SameWatch(Wake(v)[1], v)
<1>1. SameWatch(v, v) BY DEF SameWatch
<1>2. SameWatch(Registered(v), v) BY DEF SameWatch, Registered, DrvType
<1>3. ASSUME NEW id \in Ids PROVE SameWatch(TellSend(v, id)[1], v)
  <2>1. \/ TellSend(v, id)[1] = v
        \/ TellSend(v, id)[1] = [v EXCEPT !.send = @ \cup {id}, !.waker = "none"] BY TellSendFacts
  <2>2. QED BY <2>1, <1>1 DEF SameWatch, DrvType
<1>4. ASSUME NEW id \in Ids PROVE SameWatch(TellRecv(v, id)[1], v)
  <2>1. \/ TellRecv(v, id)[1] = v
        \/ TellRecv(v, id)[1] = [v EXCEPT !.recv = @ \cup {id}, !.waker = "none"] BY TellRecvFacts
  <2>2. QED BY <2>1, <1>1 DEF SameWatch, DrvType
<1>5. SameWatch(Wake(v)[1], v)
  <2>1. Wake(v)[1] = [v EXCEPT !.waker = "none"] BY WakeFacts
  <2>2. QED BY <2>1 DEF SameWatch, DrvType
<1>6. QED BY <1>1, <1>2, <1>3, <1>4, <1>5

\* A step that leaves the driver's state and the handles alone.
LEMMA CalmDriver ==
  ASSUME UNCHANGED <<drv, ap, op, one>>, NotEnded,
         \A t \in awake : t # DriverTask => t \in awake'
  PROVE  Calm
BY CalmStep DEF SameWatch

\* Steps of the driver and of the network that end nobody's wait.
LEMMA DriverCalm ==
  ASSUME TypeOK,
         \/ ReadDatagrams \/ WriteDatagrams \/ PollClose \/ PollEarly \/ Flushed \/ Woken
         \/ Interrupted \/ NetDone \/ SendClose
         \/ \E id \in Ids : ReadKnown(id) \/ WriteGone(id) \/ FlushRecv(id)
  PROVE  Calm
<1>t. drv \in DrvType /\ d \in TaskType BY DEF TypeOK
<1>p. \A x, y : [d EXCEPT !.pc = x].pc = x /\ [d EXCEPT !.recv = y].pc = d.pc BY <1>t DEF TaskType
<1>1. ASSUME ReadDatagrams PROVE Calm BY <1>1, <1>p, CalmDriver DEF ReadDatagrams, NotEnded
<1>2. ASSUME WriteDatagrams PROVE Calm BY <1>2, <1>p, CalmDriver DEF WriteDatagrams, NotEnded
<1>3. ASSUME PollClose PROVE Calm
  <2>1. \A t \in awake : t # DriverTask => t \in awake' BY <1>3 DEF PollClose
  <2>2. QED BY <1>3, <2>1, <1>p, CalmDriver DEF PollClose, NotEnded
<1>4. ASSUME PollEarly PROVE Calm
  <2>1. \A t \in awake : t # DriverTask => t \in awake' BY <1>4 DEF PollEarly
  <2>2. SameWatch(drv', drv) BY <1>4, <1>t, WatchFacts DEF PollEarly
  <2>3. QED BY <1>4, <2>1, <2>2, <1>p, CalmStep DEF PollEarly, NotEnded
<1>5. ASSUME Flushed PROVE Calm
  <2>1. d' = [NewDriver EXCEPT !.pc = IF d.pc = "flush" /\ d.sleep THEN "parked"
                                      ELSE NextPhase(d.pc)] BY <1>5 DEF Flushed
  <2>2. d'.pc # "done" BY <2>1 DEF NewDriver, NextPhase
  <2>3. QED BY <1>5, <2>2, CalmDriver DEF Flushed, NotEnded
<1>6. ASSUME Woken PROVE Calm BY <1>6, <1>p, CalmDriver DEF Woken, NotEnded
<1>7. ASSUME Interrupted PROVE Calm BY <1>7, <1>p, CalmDriver DEF Interrupted, NotEnded
<1>8. ASSUME NetDone PROVE Calm
  <2>1. d'.pc # "done" BY <1>8, <1>p DEF NetDone
  <2>2. QED BY <1>8, <2>1, CalmDriver DEF NetDone, NotEnded
<1>9. ASSUME SendClose PROVE Calm BY <1>9, CalmDriver DEF SendClose, NetFrame, NotEnded
<1>10. ASSUME NEW id \in Ids, ReadKnown(id) PROVE Calm
  <2>1. d' = d /\ awake \subseteq awake' BY <1>10 DEF ReadKnown, FlushRecvOf
  <2>2. QED BY <1>10, <2>1, CalmDriver DEF ReadKnown, NotEnded
<1>11. ASSUME NEW id \in Ids, WriteGone(id) PROVE Calm BY <1>11, CalmDriver DEF WriteGone, NotEnded
<1>12. ASSUME NEW id \in Ids, FlushRecv(id) PROVE Calm
  <2>1. d' = [d EXCEPT !.recv = @ \ {id}] /\ awake \subseteq awake' BY <1>12 DEF FlushRecv, FlushRecvOf
  <2>2. d'.pc = d.pc BY <2>1, <1>t DEF TaskType
  <2>3. QED BY <1>12, <2>1, <2>2, CalmDriver DEF FlushRecv, NotEnded
<1>13. QED BY <1>1, <1>2, <1>3, <1>4, <1>5, <1>6, <1>7, <1>8, <1>9, <1>10, <1>11, <1>12

\* Nor does the peer, nor a call that does not sleep.
LEMMA PeerCalm ==
  ASSUME TypeOK,
         \/ Peer \/ SendDatagram \/ Nudge \/ ReadDatagram
         \/ \E id \in Ids : Accept(id)
         \/ \E h \in Halves : Tell(h)
  PROVE  Calm
<1>t. drv \in DrvType /\ ap \in [Halves -> HandleType] BY DEF TypeOK
<1>1. ASSUME Peer PROVE Calm
  <2>1. NetFrame
    BY <1>1, ZenonT(30) DEF Peer, PeerData, PeerFin, PeerReset, PeerStop, PeerCredit, PeerMaxStreams, PeerDatagram,
      PeerClose, Timeout
  <2>2. QED BY <2>1, CalmDriver, SMTT(30) DEF NetFrame, NotEnded
<1>2. ASSUME SendDatagram PROVE Calm BY <1>2, CalmDriver DEF SendDatagram, NotEnded
<1>3. ASSUME Nudge PROVE Calm
  <2>1. SameWatch(drv', drv) /\ awake \subseteq awake' BY <1>3, <1>t, WatchFacts DEF Nudge
  <2>2. QED BY <1>3, <2>1, CalmStep DEF Nudge, NotEnded
<1>4. ASSUME ReadDatagram PROVE Calm BY <1>4, CalmDriver DEF ReadDatagram, NotEnded
<1>5. ASSUME NEW id \in Ids, Accept(id) PROVE Calm
  <2>1. \A h \in Halves : [ap[h] EXCEPT !.pc = "idle"].pc = "idle" BY <1>t DEF HandleType
  <2>2. \A h \in Halves : ap'[h] = ap[h] \/ ap'[h].pc # "wait" BY <1>5, <2>1 DEF Accept
  <2>3. QED BY <1>5, <2>2, CalmStep DEF Accept, NotEnded, SameWatch
<1>6. ASSUME NEW h \in Halves, Tell(h) PROVE Calm
  <2>1. SameWatch(drv', drv) BY <1>6, <1>t, WatchFacts, HalfId DEF Tell
  <2>2. awake \subseteq awake' /\ UNCHANGED <<d, op, one>>
        /\ Goes(h, IF ap[h].op = "drop" THEN "gone" ELSE "idle", ap[h].op) BY <1>6 DEF Tell
  <2>3. ap'[h].pc \in {"gone", "idle"} /\ \A g \in Halves : g # h => ap'[g] = ap[g] BY <2>2, GoesFacts
  <2>4. QED BY <2>1, <2>2, <2>3, CalmStep DEF NotEnded
<1>7. QED BY <1>1, <1>2, <1>3, <1>4, <1>5, <1>6

\* A call is polled: it settles, tells the driver, or goes on to look at the
\* connection, and sleeps only there.
LEMMA CallCalm ==
  ASSUME TypeOK, NEW id \in Ids,
         \/ Write(id) \/ Finish(id) \/ Reset(id) \/ SetPriority(id) \/ DropSend(id)
         \/ SendClosed(id) \/ Flush(id)
         \/ Read(id) \/ Stop(id) \/ DropRecv(id) \/ RecvClosed(id)
  PROVE  Calm
<1>1. ASSUME NEW h \in Halves, NEW o, Calls(h, o), AppFrame,
             NEW pc, pc \in {"tell", "check", "idle"}, NEW x, Goes(h, pc, x)
      PROVE  Calm
  <2>1. ap'[h].pc = pc /\ \A g \in Halves : g # h => ap'[g] = ap[g] BY <1>1, GoesFacts
  <2>2. QED BY <1>1, <2>1, CalmCall
<1>2. ASSUME NEW h \in Halves, AppFrame, UNCHANGED <<awake, drv>>,
             NEW pc, pc \in {"tell", "gone"}, Goes(h, pc, "drop")
      PROVE  Calm
  <2>1. ap'[h].pc = pc /\ \A g \in Halves : g # h => ap'[g] = ap[g] BY <1>2, GoesFacts
  <2>2. QED BY <1>2, <2>1, CalmStep DEF AppFrame, NotEnded, SameWatch
<1>3. CASE Write(id)
  <2>1. <<id, "send">> \in Halves /\ Calls(<<id, "send">>, "write") /\ AppFrame BY <1>3 DEF Write
  <2>2. Goes(<<id, "send">>, "tell", "write") \/ Goes(<<id, "send">>, "check", "write") BY <1>3 DEF Write
  <2>3. QED BY <1>1, <2>1, <2>2
<1>4. CASE Finish(id)
  <2>1. <<id, "send">> \in Halves /\ Calls(<<id, "send">>, "finish") /\ AppFrame BY <1>4 DEF Finish
  <2>2. Goes(<<id, "send">>, "tell", "finish") BY <1>4 DEF Finish
  <2>3. QED BY <1>1, <2>1, <2>2
<1>5. CASE Reset(id)
  <2>1. <<id, "send">> \in Halves /\ Calls(<<id, "send">>, "reset") /\ AppFrame BY <1>5 DEF Reset
  <2>2. Goes(<<id, "send">>, "tell", "reset") BY <1>5 DEF Reset
  <2>3. QED BY <1>1, <2>1, <2>2
<1>6. CASE SetPriority(id)
  <2>1. <<id, "send">> \in Halves /\ Calls(<<id, "send">>, "priority") /\ AppFrame BY <1>6 DEF SetPriority
  <2>2. Goes(<<id, "send">>, "tell", "priority") BY <1>6 DEF SetPriority
  <2>3. QED BY <1>1, <2>1, <2>2
<1>7. CASE SendClosed(id)
  <2> DEFINE h == <<id, "send">>
  <2>1. h \in Halves /\ Calls(h, "closed") /\ AppFrame BY <1>7 DEF SendClosed
  <2>2. CASE Goes(h, "check", "closed") BY <1>1, <2>1, <2>2
  <2>3. CASE ~Goes(h, "check", "closed")
    <3>1. ap' = [ap EXCEPT ![h] = [pc |-> "idle", op |-> "none",
                                   res |-> IF Dead(ss[id]) THEN @.res ELSE "finished"]] BY <1>7, <2>3 DEF SendClosed
    <3>2. ap'[h].pc = "idle" /\ \A g \in Halves : g # h => ap'[g] = ap[g] BY <3>1, <2>1 DEF TypeOK
    <3>3. QED BY <2>1, <3>2, CalmCall
  <2>4. QED BY <2>2, <2>3
<1>8. CASE Flush(id)
  <2>1. <<id, "send">> \in Halves /\ Calls(<<id, "send">>, "flush") /\ AppFrame BY <1>8 DEF Flush
  <2>2. Goes(<<id, "send">>, "idle", "flush") \/ Goes(<<id, "send">>, "check", "flush") BY <1>8 DEF Flush
  <2>3. QED BY <1>1, <2>1, <2>2
<1>9. CASE Read(id)
  <2>1. <<id, "recv">> \in Halves /\ Calls(<<id, "recv">>, "read") /\ AppFrame BY <1>9 DEF Read
  <2>2. Goes(<<id, "recv">>, "idle", "read") \/ Goes(<<id, "recv">>, "check", "read") BY <1>9 DEF Read
  <2>3. QED BY <1>1, <2>1, <2>2
<1>10. CASE Stop(id)
  <2>1. <<id, "recv">> \in Halves /\ Calls(<<id, "recv">>, "stop") /\ AppFrame BY <1>10 DEF Stop
  <2>2. Goes(<<id, "recv">>, "tell", "stop") BY <1>10 DEF Stop
  <2>3. QED BY <1>1, <2>1, <2>2
<1>11. CASE RecvClosed(id)
  <2>1. <<id, "recv">> \in Halves /\ Calls(<<id, "recv">>, "closed") /\ AppFrame BY <1>11 DEF RecvClosed
  <2>2. Goes(<<id, "recv">>, "idle", "closed") \/ Goes(<<id, "recv">>, "check", "closed") BY <1>11 DEF RecvClosed
  <2>3. QED BY <1>1, <2>1, <2>2
<1>12. CASE DropSend(id)
  <2>1. <<id, "send">> \in Halves /\ AppFrame /\ UNCHANGED <<awake, drv>> BY <1>12 DEF DropSend
  <2>2. Goes(<<id, "send">>, "gone", "drop") \/ Goes(<<id, "send">>, "tell", "drop") BY <1>12 DEF DropSend
  <2>3. QED BY <1>2, <2>1, <2>2
<1>13. CASE DropRecv(id)
  <2>1. <<id, "recv">> \in Halves /\ AppFrame /\ UNCHANGED <<awake, drv>> BY <1>13 DEF DropRecv
  <2>2. Goes(<<id, "recv">>, "gone", "drop") \/ Goes(<<id, "recv">>, "tell", "drop") BY <1>13 DEF DropRecv
  <2>3. QED BY <1>2, <2>1, <2>2
<1>14. QED BY <1>3, <1>4, <1>5, <1>6, <1>7, <1>8, <1>9, <1>10, <1>11, <1>12, <1>13

\* What the driver does to one stream: the flush or the accept fails and gives a
\* reason, or it is calm.
LEMMA TurnWatches ==
  ASSUME TypeOK, WatchInv, NEW id \in Ids,
         AcceptUni(id) \/ AcceptBi(id) \/ WriteKnown(id) \/ FlushSend(id)
  PROVE  WatchInv'
<1>t. d \in TaskType /\ ap \in [Halves -> HandleType] /\ "dropped" \in Errors /\ "quiche" \in Errors
  BY DEF TypeOK, Errors
<1>1. ASSUME UNCHANGED <<drv, op, one>>, d'.pc = d.pc, awake \subseteq awake',
             \A h \in Halves : ap'[h] = ap[h] \/ ap'[h].pc # "wait"
      PROVE  WatchInv'
  <2>1. Calm BY <1>1, CalmStep DEF SameWatch, NotEnded
  <2>2. QED BY <2>1, CalmWatches
<1>q. \A h \in Halves : [ap[h] EXCEPT !.pc = "queued"].pc = "queued" BY <1>t DEF HandleType
<1>2. CASE AcceptUni(id)
  <2>1. CASE cn.held
    <3>1. UNCHANGED <<drv, awake, d, op, one>> /\ ap' = [ap EXCEPT ![<<id, "recv">>].pc = "queued"]
      BY <1>2, <2>1 DEF AcceptUni
    <3>2. \A h \in Halves : ap'[h] = ap[h] \/ ap'[h] = [ap[h] EXCEPT !.pc = "queued"] BY <3>1, <1>t
    <3>3. QED BY <1>1, <1>q, <3>1, <3>2
  <2>2. CASE ~cn.held BY <1>2, <2>2, <1>t, FailedWatches DEF AcceptUni
  <2>3. QED BY <2>1, <2>2
<1>3. CASE AcceptBi(id)
  <2>1. CASE cn.held
    <3>1. /\ UNCHANGED <<drv, awake, d, op, one>>
          /\ ap' = [h \in Halves |-> IF h[1] = id THEN [ap[h] EXCEPT !.pc = "queued"] ELSE ap[h]]
      BY <1>3, <2>1 DEF AcceptBi
    <3>2. QED BY <1>1, <1>q, <3>1
  <2>2. CASE ~cn.held BY <1>3, <2>2, <1>t, FailedWatches DEF AcceptBi
  <2>3. QED BY <2>1, <2>2
<1>4. ASSUME NEW k \in StreamType, NEW next, next.pc = d.pc, FlushSendOf(id, k, next),
             UNCHANGED <<ap, op, one>>
      PROVE  WatchInv'
  <2>1. CASE Failed("quiche") BY <1>4, <2>1, <1>t, FailedWatches
  <2>2. CASE ~Failed("quiche")
    <3>1. drv' = drv /\ d' = next /\ \E S : awake' = awake \cup S BY <1>4, <2>2, FlushSendEffect
    <3>2. awake \subseteq awake' BY <3>1
    <3>3. QED BY <1>1, <1>4, <3>1, <3>2
  <2>3. QED BY <2>1, <2>2
<1>5. CASE WriteKnown(id)
  <2>1. FlushSendOf(id, WritePopped(id), d) /\ UNCHANGED <<ap, op, one>> BY <1>5 DEF WriteKnown
  <2>2. WritePopped(id) \in StreamType BY PoppedFacts
  <2>3. QED BY <1>4, <2>1, <2>2
<1>6. CASE FlushSend(id)
  <2>1. PICK next : next = [d EXCEPT !.send = @ \ {id}] OBVIOUS
  <2>2. next.pc = d.pc BY <2>1, <1>t DEF TaskType
  <2>3. UNCHANGED <<ap, op, one>> /\ qs[id] \in StreamType BY <1>6, PoppedFacts DEF FlushSend
  <2>4. CASE id \in sends
    <3>1. FlushSendOf(id, qs[id], next) BY <1>6, <2>1, <2>4 DEF FlushSend
    <3>2. QED BY <1>4, <2>2, <2>3, <3>1
  <2>5. CASE id \notin sends
    <3>1. UNCHANGED <<drv, awake>> /\ d' = next BY <1>6, <2>1, <2>5 DEF FlushSend
    <3>2. QED BY <1>1, <2>2, <2>3, <3>1
  <2>6. QED BY <2>4, <2>5
<1>7. QED BY <1>2, <1>3, <1>5, <1>6

\* close() and the drop of the connection give a reason.
LEMMA GiveUpWatches ==
  ASSUME TypeOK, WatchInv, Close \/ DropConnection
  PROVE  WatchInv'
<1>1. "local" \in Errors /\ "dropped" \in Errors BY DEF Errors
<1>2. CASE Close BY <1>1, <1>2, AbortWatches DEF Close, NotEnded
<1>3. CASE DropConnection BY <1>1, <1>3, AbortWatches DEF DropConnection, NotEnded
<1>4. QED BY <1>2, <1>3

\* Every step keeps everybody watched.
LEMMA WatchStep ==
  ASSUME TypeOK, WatchInv, ReasonsInv, OpensWithinLimit, Next
  PROVE  WatchInv'
<1>1. CASE \/ ReadDatagrams \/ WriteDatagrams \/ PollClose \/ PollEarly \/ Flushed \/ Woken
           \/ Interrupted \/ NetDone \/ SendClose
           \/ \E id \in Ids : ReadKnown(id) \/ WriteGone(id) \/ FlushRecv(id) BY <1>1, DriverCalm, CalmWatches
<1>2. CASE \/ Peer \/ SendDatagram \/ Nudge \/ ReadDatagram
           \/ \E id \in Ids : Accept(id)
           \/ \E h \in Halves : Tell(h) BY <1>2, PeerCalm, CalmWatches
<1>3. CASE \E id \in Ids : \/ Write(id) \/ Finish(id) \/ Reset(id) \/ SetPriority(id) \/ DropSend(id)
                           \/ SendClosed(id) \/ Flush(id)
                           \/ Read(id) \/ Stop(id) \/ DropRecv(id) \/ RecvClosed(id) BY <1>3, CallCalm, CalmWatches
<1>4. CASE \E id \in Ids : AcceptUni(id) \/ AcceptBi(id) \/ WriteKnown(id) \/ FlushSend(id) BY <1>4, TurnWatches
<1>5. CASE \E due \in KeepAliveDue : PollMain(due) BY <1>5, PollWatches
<1>6. CASE Connected BY <1>6, ConnectedWatches
<1>7. CASE OnConnClose BY <1>7, EndWatches
<1>8. CASE \E h \in Halves : Check(h) BY <1>8, CheckWatches
<1>9. CASE \E o \in Openers : Open(o) BY <1>9, OpenWatches
<1>10. CASE PollHandshake \/ PollClosed BY <1>10, HandshakeWatches, ClosedWatches
<1>11. CASE Close \/ DropConnection BY <1>11, GiveUpWatches
<1>12. QED BY <1>1, <1>2, <1>3, <1>4, <1>5, <1>6, <1>7, <1>8, <1>9, <1>10, <1>11 DEF Next, DriverStep, App, Call

\* At the start nobody sleeps.
LEMMA WatchInit == Init => WatchInv
<1>1. ASSUME Init
      PROVE  /\ d.pc = "net" /\ \A h \in Halves : ap[h].pc = "none"
             /\ \A o \in Openers : op[o] = "none"
             /\ one[HandshakeTask] = "none" /\ one[ClosedTask] = "none" BY <1>1 DEF Init, NewDriver
<1>2. ASSUME Init PROVE WatchInv
  <2>1. d.pc = "net" /\ \A h \in Halves : ap[h].pc = "none" BY <1>1, <1>2
  <2>2. \A h \in Halves : HalfWatched(h) BY <2>1 DEF HalfWatched, Sleeping
  <2>3. (\A o \in Openers : OpenWatched(o)) /\ HandshakeWatched /\ ClosedWatched
    BY <1>1, <1>2 DEF OpenWatched, HandshakeWatched, ClosedWatched
  <2>4. QED BY <2>1, <2>2, <2>3 DEF WatchInv
<1>3. QED BY <1>2

-----------------------------------------------------------------------------
(* Every sleeper is served                                                  *)

\* A call that sleeps on a send stream is served ...
LEMMA SendServed ==
  ASSUME TypeOK, ServeInv, WatchInv, NEW h \in Halves, Sleeping(h), h[2] = "send"
  PROVE  /\ ss[h[1]].blocked /\ ~Dead(ss[h[1]]) /\ h[1] \in sends \cup Created(Kind(h[1]))
         /\ ap[h].op \in {"write", "flush", "closed"}
         /\ ap[h].op = "write" => ss[h[1]].cap = 0 /\ ~ss[h[1]].fin
         /\ ap[h].op = "flush" => ss[h[1]].queued > 0
         /\ ap[h].op = "closed" => ~ss[h[1]].closed
         /\ /\ ap[h].op = "write" /\ drv.creq = "none" /\ h[1] \in sends
            /\ q.credit > 0 \/ qs[h[1]].stopped
            => qs[h[1]].armed \/ h[1] \in drv.send \cup d.send
<1>1. PICK id \in Ids : id = h[1] BY IdFacts
<1>2. h = SendOf(id) BY <1>1, IdFacts DEF SendOf, RecvOf
<1>3. ap[h].pc = "wait" /\ Waits(h) BY DEF Sleeping, Waits
<1>4. SendOne(id) BY DEF ServeInv, StreamOne
<1>5. PICK st : st = ss[id] OBVIOUS
<1>6. /\ st.closed => st.reset \/ st.stop \/ (st.fin /\ st.queued = 0)
      /\ ~st.closed => id \in sends \cup Created(Kind(id)) \/ d.pc = "done"
      /\ st.blocked /\ ~Dead(st) /\ ap[h].op \in {"write", "flush", "closed"}
      /\ ap[h].op = "write" => st.cap = 0 /\ ~st.fin
      /\ ap[h].op = "flush" => st.queued > 0
      /\ ap[h].op = "closed" => ~st.closed
      /\ /\ id \in sends /\ drv.creq = "none" /\ ~st.fin /\ ~st.reset /\ st.cap = 0
         /\ q.credit > 0 \/ qs[id].stopped
         => qs[id].armed \/ id \in drv.send \cup d.send BY <1>2, <1>3, <1>4, <1>5 DEF SendOne
<1>7. ~st.reset /\ ~st.stop BY <1>6 DEF Dead
<1>8. ~st.closed
  <2>1. ap[h].op = "flush" => st.queued # 0 BY <1>6
  <2>2. QED BY <1>6, <1>7, <2>1
<1>9. d.pc # "done" BY DEF WatchInv, HalfWatched, ErrorOf
<1>10. QED BY <1>1, <1>5, <1>6, <1>7, <1>8, <1>9

\* ... and so is one that sleeps on a receive stream.
LEMMA RecvServed ==
  ASSUME TypeOK, ServeInv, WatchInv, NEW h \in Halves, Sleeping(h), h[2] = "recv"
  PROVE  /\ rs[h[1]].blocked /\ ~Dead(rs[h[1]])
         /\ ap[h].op \in {"read", "closed"}
         /\ ap[h].op = "read" => rs[h[1]].queued = 0 /\ ~rs[h[1]].fin
         /\ \/ ap[h].op = "closed" /\ rs[h[1]].fin /\ rs[h[1]].queued > 0
            \/ ~rs[h[1]].closed /\ h[1] \in recvs \cup Created(Kind(h[1]))
         /\ /\ ap[h].op = "read" /\ drv.creq = "none"
            /\ qs[h[1]].rbuf > 0 \/ qs[h[1]].rfin \/ qs[h[1]].rrst
            => qs[h[1]].rarmed \/ h[1] \in drv.recv \cup d.recv
<1>1. PICK id \in Ids : id = h[1] BY IdFacts
<1>2. h = RecvOf(id) BY <1>1, IdFacts DEF SendOf, RecvOf
<1>3. ap[h].pc = "wait" /\ Waits(h) BY DEF Sleeping, Waits
<1>4. RecvOne(id) BY DEF ServeInv, StreamOne
<1>5. PICK st : st = rs[id] OBVIOUS
<1>9. d.pc # "done" BY DEF WatchInv, HalfWatched, ErrorOf
<1>6. /\ st.closed => st.reset \/ st.stop \/ st.fin
      /\ ~st.closed => id \in recvs \cup Created(Kind(id))
      /\ st.blocked /\ ~Dead(st) /\ ap[h].op \in {"read", "closed"}
      /\ ap[h].op = "read" => st.queued = 0 /\ ~st.fin
      /\ ap[h].op = "closed" => ~(st.fin /\ st.queued = 0)
      /\ /\ ap[h].op = "read" /\ drv.creq = "none"
         /\ qs[id].rbuf > 0 \/ qs[id].rfin \/ qs[id].rrst
         => qs[id].rarmed \/ id \in drv.recv \cup d.recv BY <1>2, <1>3, <1>4, <1>5, <1>9 DEF RecvOne
<1>7. ~st.reset /\ ~st.stop BY <1>6 DEF Dead
<1>8. st.queued \in Nat BY <1>5 DEF TypeOK, RecvType
<1>10. st.queued = 0 \/ st.queued > 0 BY <1>8
<1>11. QED BY <1>1, <1>5, <1>6, <1>7, <1>10

\* The invariants say what CallsServed says.
LEMMA Served ==
  ASSUME TypeOK, ServeInv, WatchInv
  PROVE  CallsServed
<1>s. \A h \in Halves : h[2] = "send" \/ h[2] = "recv" BY DEF Halves
<1>r. "send" # "recv" OBVIOUS
<1>1. StreamCallsServed
  <2>1. SUFFICES ASSUME NEW h \in Halves, Sleeping(h)
                 PROVE  LET id == h[1]
                            st == IF h[2] = "send" THEN ss[id] ELSE rs[id]
                            unread == h[2] = "recv" /\ ap[h].op = "closed" /\ st.fin /\ st.queued > 0
                        IN /\ st.blocked
                           /\ unread \/ id \in (IF h[2] = "send" THEN sends ELSE recvs) \cup Created(Kind(id))
                           /\ ~Dead(st)
                           /\ CASE ap[h].op = "write" -> st.cap = 0 /\ ~st.fin
                                [] ap[h].op = "flush" -> st.queued > 0
                                [] ap[h].op = "read" -> st.queued = 0 /\ ~st.fin
                                [] OTHER -> unread \/ ~st.closed
                           /\ IF ap[h].op = "flush" THEN drv.closed = "none" ELSE ErrorOf(drv) = "none"
    BY DEF StreamCallsServed
  <2>2. IF ap[h].op = "flush" THEN drv.closed = "none" ELSE ErrorOf(drv) = "none" BY <2>1 DEF WatchInv, HalfWatched
  <2>3. CASE h[2] = "send"
    <3>1. /\ ss[h[1]].blocked /\ ~Dead(ss[h[1]]) /\ h[1] \in sends \cup Created(Kind(h[1]))
          /\ ap[h].op \in {"write", "flush", "closed"}
          /\ ap[h].op = "write" => ss[h[1]].cap = 0 /\ ~ss[h[1]].fin
          /\ ap[h].op = "flush" => ss[h[1]].queued > 0
          /\ ap[h].op = "closed" => ~ss[h[1]].closed BY <2>1, <2>3, SendServed
    <3>2. QED BY <2>2, <2>3, <3>1
  <2>4. CASE h[2] = "recv"
    <3>1. /\ rs[h[1]].blocked /\ ~Dead(rs[h[1]])
          /\ ap[h].op \in {"read", "closed"}
          /\ ap[h].op = "read" => rs[h[1]].queued = 0 /\ ~rs[h[1]].fin
          /\ \/ ap[h].op = "closed" /\ rs[h[1]].fin /\ rs[h[1]].queued > 0
             \/ ~rs[h[1]].closed /\ h[1] \in recvs \cup Created(Kind(h[1])) BY <2>1, <2>4, RecvServed
    <3>2. QED BY <2>2, <2>4, <3>1, <1>r
  <2>5. QED BY <2>3, <2>4, <1>s
<1>2. OthersServed
  <2>1. d.pc = "done" => drv.closed # "none" BY DEF WatchInv
  <2>2. QED BY <2>1 DEF WatchInv, OpenWatched, HandshakeWatched, ClosedWatched, OthersServed
<1>3. DataMoves
  <2>1. SUFFICES ASSUME NEW h \in Halves, Sleeping(h), drv.creq = "none", d.pc # "done"
                 PROVE  /\ ap[h].op = "read" /\ (qs[h[1]].rbuf > 0 \/ qs[h[1]].rfin \/ qs[h[1]].rrst) =>
                             qs[h[1]].rarmed \/ h[1] \in drv.recv \cup d.recv
                        /\ ap[h].op = "write" /\ (q.credit > 0 \/ qs[h[1]].stopped) /\ h[1] \in sends =>
                             qs[h[1]].armed \/ h[1] \in drv.send \cup d.send BY DEF DataMoves
  <2>2. CASE h[2] = "send"
    <3>1. /\ ap[h].op \in {"write", "flush", "closed"}
          /\ /\ ap[h].op = "write" /\ drv.creq = "none" /\ h[1] \in sends
             /\ q.credit > 0 \/ qs[h[1]].stopped
             => qs[h[1]].armed \/ h[1] \in drv.send \cup d.send BY <2>1, <2>2, SendServed
    <3>2. QED BY <2>1, <3>1
  <2>3. CASE h[2] = "recv"
    <3>1. /\ ap[h].op \in {"read", "closed"}
          /\ /\ ap[h].op = "read" /\ drv.creq = "none"
             /\ qs[h[1]].rbuf > 0 \/ qs[h[1]].rfin \/ qs[h[1]].rrst
             => qs[h[1]].rarmed \/ h[1] \in drv.recv \cup d.recv BY <2>1, <2>3, RecvServed
    <3>2. QED BY <2>1, <3>1
  <2>4. QED BY <2>2, <2>3, <1>s
<1>4. QED BY <1>1, <1>2, <1>3 DEF CallsServed

\* Nothing moved, nothing is owed.
LEMMA ServeStutter ==
  ASSUME UNCHANGED vars
  PROVE  /\ TypeOK => TypeOK'
         /\ OpensWithinLimit => OpensWithinLimit'
         /\ ReasonsInv => ReasonsInv'
         /\ plan' = plan
         /\ ServeInv => ServeInv'
         /\ WatchInv => WatchInv'
<1>1. TypeOK => TypeOK' BY DEF TypeOK, vars
<1>2. OpensWithinLimit => OpensWithinLimit' BY DEF OpensWithinLimit, vars
<1>3. ReasonsInv => ReasonsInv' BY DEF ReasonsInv, vars
<1>4. plan' = plan BY DEF vars
<1>5. ServeInv => ServeInv'
  BY DEF vars, ServeInv, CreatedInv, Created, TakenInv, StreamOne, NewOne, Untouched, FreshOne, Blank, SendOne, RecvOne,
    Waits, Sleeping
<1>6. WatchInv => WatchInv' BY DEF vars, WatchInv, HalfWatched, Sleeping, OpenWatched, HandshakeWatched, ClosedWatched
<1>7. QED BY <1>1, <1>2, <1>3, <1>4, <1>5, <1>6

\* CallsServed: whoever sleeps in a call on a stream, in open_bi or open_uni, in
\* the handshake or in closed(), sleeps on something that has not happened, and
\* its waker is where the step that makes it happen takes it (send.rs:81,
\* recv.rs:100, driver.rs:157); a read with data in quiche and a write with
\* credit are about to be flushed.  The peer must not stop a stream before it is
\* accepted: accept_bi keeps a send half whose first flush found a stop, the
\* next flush forgets it (send.rs:142), and a write sleeps on a stream that the
\* driver no longer has.
THEOREM EverySleeperIsServed ==
  ASSUME ~EarlyStop
  PROVE  Spec => []CallsServed
<1> DEFINE Inv == /\ TypeOK /\ OpensWithinLimit /\ ReasonsInv /\ plan \in Plans /\ ServeInv /\ WatchInv
<1>1. Init => Inv
  <2>1. ASSUME Init PROVE /\ drv.closed = "none" /\ q.local = "none" /\ seen = {} /\ plan \in Plans
    BY <2>1 DEF Init, DriverState
  <2>2. Init => ReasonsInv /\ plan \in Plans BY <2>1 DEF ReasonsInv
  <2>3. QED BY <2>2, TypeInit, LimitInit, ServeInit, WatchInit
<1>2. Inv /\ [Next]_vars => Inv'
  <2>1. SUFFICES ASSUME Inv, [Next]_vars PROVE Inv' OBVIOUS
  <2>2. CASE Next
    <3>1. TypeOK' BY <2>1, TypeStep
    <3>2. OpensWithinLimit' BY <2>1, <2>2, LimitStep
    <3>3. ReasonStep BY <2>1, <2>2, ReasonSteps
    <3>4. ReasonsInv' BY <2>1, <3>3, ReasonsStep
    <3>5. plan' \in Plans BY <2>1, <2>2, PlanStep
    <3>6. ServeInv' BY <2>1, <2>2, <3>1, ServeStep
    <3>7. WatchInv' BY <2>1, <2>2, WatchStep
    <3>8. QED BY <3>1, <3>2, <3>4, <3>5, <3>6, <3>7
  <2>3. CASE UNCHANGED vars BY <2>1, <2>3, ServeStutter
  <2>4. QED BY <2>1, <2>2, <2>3
<1>3. Inv => CallsServed BY Served
<1>4. QED BY <1>1, <1>2, <1>3, PTL DEF Spec

=============================================================================
