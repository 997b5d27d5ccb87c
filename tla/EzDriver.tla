------------------------------ MODULE EzDriver ------------------------------
(***************************************************************************)
(* The connection driver of web-transport-quiche (src/rs/web-transport-    *)
(* quiche/src/ez): one task owns the quiche connection and every stream's  *)
(* state is shared, behind a lock of its own, with the handle the          *)
(* application holds.  A handle that needs the driver leaves its stream id *)
(* in DriverState and takes the driver's waker; the driver, once it has    *)
(* flushed a stream, takes the waker the handle left in the stream state.  *)
(* Nobody polls: a wakeup that is lost is a task that sleeps for ever.     *)
(*                                                                         *)
(* A step is what runs between two releases of a lock.  The io loop of     *)
(* tokio-quiche (external) is the cycle net, reads, writes, poll, flush;   *)
(* packets are processed only in net, by the driver's own task.  Bytes     *)
(* are counted, and the send credit of quiche is one number for the        *)
(* connection, as several streams may be promised the same capacity.       *)
(***************************************************************************)
EXTENDS Naturals, Sequences, FiniteSets

CONSTANTS
  Plans,          \* what a behaviour is about: records [bi, uni : how many
                  \* streams the application opens, peer : ids the peer opens,
                  \* ops : calls the handles make, ends : how it may end]
  Server,         \* whether this end is the server
  MaxBytes,       \* bound: bytes of credit, and bytes the peer sends per stream
  ReadMax,        \* the size an application read asks for
  DgramCapacity,  \* DGRAM_CHANNEL_CAPACITY
  EarlyStop       \* whether the peer may stop a stream before it is accepted

ASSUME EzAssumption ==
  /\ Server \in BOOLEAN /\ EarlyStop \in BOOLEAN
  /\ MaxBytes \in Nat /\ ReadMax \in Nat \ {0} /\ DgramCapacity \in Nat \ {0}

Kinds == {"bi", "uni"}

\* StreamId: the low bit is the initiator, the next one the direction.
IsUni(id) == id % 4 >= 2
IsServer(id) == id % 2 = 1
Kind(id) == IF IsUni(id) THEN "uni" ELSE "bi"
FirstId(kind, server) == (IF kind = "uni" THEN 2 ELSE 0) + (IF server THEN 1 ELSE 0)

\* The ids of the peer's streams name the peer as their initiator.
ASSUME PeerIds ==
  \A p \in Plans : \A id \in p.peer : id \in Nat /\ IsServer(id) # Server

LocalIds == {FirstId(k, Server) + 4 * i : k \in Kinds, i \in 0..1}
Ids == {id \in LocalIds : \E p \in Plans : id < FirstId(Kind(id), Server) + 4 * p[Kind(id)]}
         \cup UNION {p.peer : p \in Plans}

\* A half is a stream handle: the send and the receive side of a stream.
Halves == {<<id, "send">> : id \in {i \in Ids : i \in LocalIds \/ ~IsUni(i)}}
            \cup {<<id, "recv">> : id \in {i \in Ids : i \notin LocalIds \/ ~IsUni(i)}}
Openers == {"open"} \X Kinds \X (0..1)
Tasks == Halves \cup Openers \cup {<<"driver">>, <<"handshake">>, <<"closed">>}
DriverTask == <<"driver">>
HandshakeTask == <<"handshake">>
ClosedTask == <<"closed">>

Errors == {"local", "dropped", "remote", "quiche", "unknown"}
Statuses == {"handshake", "open", "closing", "draining"}

VARIABLES
  plan,   \* the plan of this behaviour, chosen at the start
  drv,    \* DriverState, shared under one lock
  ss,     \* SendState of every stream
  rs,     \* RecvState of every stream
  sends,  \* keys of Driver.send
  recvs,  \* keys of Driver.recv
  d,      \* the driver's task: where it is, what it took, whether it may sleep
  q,      \* the quiche connection (external)
  qs,     \* the streams of the quiche connection (external)
  ap,     \* for each half, what its handle is doing
  op,     \* the tasks that call open_bi and open_uni
  one,    \* the tasks that wait for the handshake and in closed()
  cn,     \* the Connection: held or dropped, its two datagram channels
  awake,  \* tasks whose waker has fired
  seen    \* connection errors that calls have returned

vars == <<plan, drv, ss, rs, sends, recvs, d, q, qs, ap, op, one, cn, awake, seen>>

NewSend == [cap |-> 0, queued |-> 0, blocked |-> FALSE, fin |-> FALSE,
            reset |-> FALSE, stop |-> FALSE, closed |-> FALSE]
NewRecv == [queued |-> 0, max |-> 0, blocked |-> FALSE, fin |-> FALSE,
            reset |-> FALSE, stop |-> FALSE, closed |-> FALSE]
DriverOpen(kind) == [cap |-> 0, next |-> FirstId(kind, Server), create |-> <<>>, wakers |-> {}]
DriverState ==
  [send |-> {}, recv |-> {}, waker |-> "none", open |-> [k \in Kinds |-> DriverOpen(k)],
   creq |-> "none", closed |-> "none", crw |-> {}, clw |-> {}, est |-> FALSE, hsw |-> {}]

\* External: a stream as quiche keeps it.
QuicheStream ==
  [made |-> FALSE, fin |-> FALSE, rst |-> FALSE, stopped |-> FALSE, armed |-> FALSE,
   rbuf |-> 0, got |-> 0, rfin |-> FALSE, rrst |-> FALSE, rend |-> FALSE, rarmed |-> FALSE]

NewDriver == [pc |-> "net", recv |-> {}, send |-> {}, sleep |-> FALSE]

Init ==
  /\ plan \in Plans
  /\ drv = DriverState
  /\ ss = [i \in Ids |-> NewSend] /\ rs = [i \in Ids |-> NewRecv]
  /\ sends = {} /\ recvs = {}
  /\ d = NewDriver
  /\ q = [status |-> "handshake", left |-> [k \in Kinds |-> 1], credit |-> 0,
          granted |-> 0, local |-> "none", peer |-> FALSE, din |-> 0]
  /\ qs = [i \in Ids |-> QuicheStream]
  /\ ap = [h \in Halves |-> [pc |-> "none", op |-> "none", res |-> "none"]]
  /\ op = [o \in Openers |-> "none"]
  /\ one = [t \in {HandshakeTask, ClosedTask} |-> "none"]
  /\ cn = [held |-> TRUE, out |-> 0, in |-> 0, pc |-> "idle"]
  /\ awake = {} /\ seen = {}

-----------------------------------------------------------------------------
(* Wakers, and the two latches of the connection.                          *)

\* A waker that fires for a task that is not pending has no effect.
Pending(t) == \/ t = DriverTask
              \/ t \in Halves /\ ap[t].pc \in {"tell", "check", "wait"}
              \/ t \in Openers /\ op[t] = "wait"
              \/ t \in {HandshakeTask, ClosedTask} /\ one[t] = "wait"
Fire(S) == {t \in S : Pending(t)}

\* DriverState::send, recv and wake: leave the stream id and take the waker
\* of the driver, which is a real one only when poll() put it there.
DriverWaker(v) == IF v.waker = "task" THEN {DriverTask} ELSE {}
Wake(v) == <<[v EXCEPT !.waker = "none"], DriverWaker(v)>>

\* Mutant: the stream is named but the driver is not woken.
TellSendSilent(v, id) == <<[v EXCEPT !.send = @ \cup {id}], {}>>

TellSend(v, id) ==
  IF id \in v.send THEN <<v, {}>> ELSE Wake([v EXCEPT !.send = @ \cup {id}])

TellRecv(v, id) ==
  IF id \in v.recv THEN <<v, {}>> ELSE Wake([v EXCEPT !.recv = @ \cup {id}])

\* Mutant: a later reason replaces the first.
AbortLast(v, err) == <<[v EXCEPT !.creq = err, !.crw = {}], v.crw>>

\* ConnectionClosed::abort on close_requested: the first reason stays.
Abort(v, err) ==
  IF v.creq # "none" THEN <<v, {}>> ELSE <<[v EXCEPT !.creq = err, !.crw = {}], v.crw>>

\* DriverState::error: the reason, or both latches remember the waker.
ErrorOf(v) == IF v.creq # "none" THEN v.creq ELSE v.closed
PollError(v, t) == IF v.creq # "none" THEN v
                   ELSE IF v.closed # "none" THEN [v EXCEPT !.crw = @ \cup {t}]
                   ELSE [v EXCEPT !.crw = @ \cup {t}, !.clw = @ \cup {t}]

-----------------------------------------------------------------------------
(* SendState and RecvState against quiche.  A flush returns the new states,*)
(* whether it takes the waker of the handle, and whether quiche failed.    *)

\* Mutant: the flush forgets the waker of the handle.
SendDoneAsleep(st, k, credit, err) ==
  [st |-> st, k |-> k, credit |-> credit, wake |-> FALSE, err |-> err]

SendDone(st, k, credit, err) ==
  [st |-> IF err THEN st ELSE [st EXCEPT !.blocked = FALSE], k |-> k, credit |-> credit,
   wake |-> ~err /\ st.blocked, err |-> err]

\* StreamStopped from stream_send or stream_capacity: the chunk in hand is lost.
StopSeen(st, k) ==
  SendDone([st EXCEPT !.stop = TRUE, !.closed = TRUE, !.queued = IF @ > 0 THEN @ - 1 ELSE 0],
           k, q.credit, FALSE)

SendFlush(id, k) ==
  LET st == ss[id]
      n == IF st.queued < q.credit THEN st.queued ELSE q.credit
      rest == st.queued - n
      sent == [st EXCEPT !.queued = rest]
      cap == q.credit - n
  IN CASE st.reset -> SendDone([st EXCEPT !.closed = TRUE], [k EXCEPT !.rst = TRUE], q.credit, FALSE)
       [] ~st.reset /\ st.stop -> SendDone([st EXCEPT !.stop = FALSE], k, q.credit, FALSE)
       [] ~st.reset /\ ~st.stop /\ k.stopped ->
            IF st.queued = 0 /\ st.fin
            THEN SendDone(st, k, q.credit, TRUE)
            ELSE StopSeen(st, k)
       [] ~st.reset /\ ~st.stop /\ ~k.stopped /\ rest = 0 /\ st.fin ->
            SendDone([sent EXCEPT !.closed = TRUE], [k EXCEPT !.fin = TRUE], cap, FALSE)
       [] OTHER ->
            LET kk == [k EXCEPT !.armed = @ \/ rest > 0]
                full == [sent EXCEPT !.cap = cap]
            IN IF rest = 0 \/ cap > 0
               THEN SendDone(full, kk, cap, FALSE)
               ELSE [st |-> full, k |-> kk, credit |-> cap, wake |-> FALSE, err |-> FALSE]

RecvDone(st, k) ==
  [st |-> [st EXCEPT !.blocked = FALSE], k |-> k, wake |-> st.blocked]

\* External: a stream whose end was read or refused is no longer readable.
Ended(k) == [k EXCEPT !.rend = TRUE, !.rarmed = FALSE]

RecvFlush(id, k) ==
  LET st == rs[id]
      n == IF st.max < k.rbuf THEN st.max ELSE k.rbuf
      read == [st EXCEPT !.queued = @ + n, !.max = @ - n]
      left == [k EXCEPT !.rbuf = @ - n]
      end == k.rfin /\ k.rbuf = n
  IN CASE st.reset -> RecvDone(st, k)
       [] ~st.reset /\ st.stop -> RecvDone([st EXCEPT !.closed = TRUE], Ended([k EXCEPT !.rbuf = 0]))
       [] ~st.reset /\ ~st.stop /\ st.max > 0 /\ k.rrst ->
            RecvDone([st EXCEPT !.reset = TRUE, !.closed = TRUE], Ended(k))
       [] ~st.reset /\ ~st.stop /\ st.max > 0 /\ ~k.rrst /\ end ->
            RecvDone([read EXCEPT !.fin = TRUE, !.closed = TRUE], Ended(left))
       [] OTHER -> IF n > 0 THEN RecvDone(read, left) ELSE [st |-> st, k |-> k, wake |-> FALSE]

-----------------------------------------------------------------------------
(* The driver's task.                                                      *)

SendHalf(id) == {<<id, "send">>} \cap Halves
RecvHalf(id) == {<<id, "recv">>} \cap Halves

\* Driver::abort after an error of quiche or of the accept channels: the rest of
\* the phase is skipped and the next poll closes the connection.
NextPhase(pc) == CASE pc = "reads" -> "writes" [] pc = "writes" -> "poll"
                   [] pc \in {"poll0", "flush0"} -> "reads" [] OTHER -> "net"
Failed(err) ==
  LET a == Abort(drv, err)
  IN /\ drv' = a[1] /\ awake' = awake \cup Fire(a[2])
     /\ d' = [NewDriver EXCEPT !.pc = NextPhase(d.pc)]

\* Driver::flush_send, and the loop body of Driver::write; k is the stream as
\* quiche has it when the flush begins.
FlushSendOf(id, k, next) ==
  LET f == SendFlush(id, k)
  IN IF f.err
     THEN Failed("quiche") /\ qs' = [qs EXCEPT ![id] = k] /\ UNCHANGED <<ss, q, sends>>
     ELSE /\ ss' = [ss EXCEPT ![id] = f.st]
          /\ qs' = [qs EXCEPT ![id] = f.k]
          /\ q' = [q EXCEPT !.credit = f.credit]
          /\ sends' = IF f.st.closed THEN sends \ {id} ELSE sends
          /\ awake' = awake \cup Fire(IF f.wake THEN SendHalf(id) ELSE {})
          /\ d' = next /\ UNCHANGED drv

\* Driver::flush_recv, and the first half of the loop body of Driver::read.
FlushRecvOf(id, k, next) ==
  LET f == RecvFlush(id, k)
  IN /\ rs' = [rs EXCEPT ![id] = f.st]
     /\ qs' = [qs EXCEPT ![id] = f.k]
     /\ recvs' = IF f.st.closed THEN recvs \ {id} ELSE recvs
     /\ awake' = awake \cup Fire(IF f.wake THEN RecvHalf(id) ELSE {})
     /\ d' = next

\* External: stream_readable_next and stream_writable_next return a stream once
\* per event; a stream is not writable while the connection has no credit.
Writable(id) == qs[id].armed /\ (q.credit > 0 \/ qs[id].stopped)
ReadPopped(id) == [qs[id] EXCEPT !.rarmed = FALSE]
WritePopped(id) == [qs[id] EXCEPT !.armed = FALSE]

\* Driver::read: the next readable stream is one the driver knows ...
ReadKnown(id) ==
  /\ d.pc = "reads" /\ qs[id].rarmed /\ id \in recvs
  /\ FlushRecvOf(id, ReadPopped(id), d)
  /\ UNCHANGED <<plan, drv, ss, sends, q, ap, op, one, cn, seen>>

\* ... or one the peer has opened.  accept_uni: the stream goes to the accept
\* channel, which is gone when every Connection has been dropped.
AcceptUni(id) ==
  /\ d.pc = "reads" /\ qs[id].rarmed /\ id \notin recvs /\ IsUni(id)
  /\ recvs' = recvs \cup {id}
  /\ qs' = [qs EXCEPT ![id] = ReadPopped(id)]
  /\ IF cn.held
     THEN ap' = [ap EXCEPT ![<<id, "recv">>].pc = "queued"] /\ UNCHANGED <<drv, awake, d>>
     ELSE Failed("dropped") /\ UNCHANGED ap
  /\ UNCHANGED <<plan, ss, rs, sends, q, op, one, cn, seen>>

\* accept_bi: both halves are flushed before the handles exist, and the send
\* half is kept even when that flush found it already stopped.
AcceptBi(id) ==
  LET f == SendFlush(id, ReadPopped(id))
  IN /\ d.pc = "reads" /\ qs[id].rarmed /\ id \notin recvs /\ ~IsUni(id)
     /\ recvs' = recvs \cup {id} /\ sends' = sends \cup {id}
     /\ ss' = [ss EXCEPT ![id] = f.st]
     /\ qs' = [qs EXCEPT ![id] = f.k]
     /\ IF cn.held
        THEN /\ ap' = [h \in Halves |-> IF h[1] = id THEN [ap[h] EXCEPT !.pc = "queued"] ELSE ap[h]]
             /\ UNCHANGED <<drv, awake, d>>
        ELSE Failed("dropped") /\ UNCHANGED ap
     /\ UNCHANGED <<plan, rs, q, op, one, cn, seen>>

\* The tail of process_reads: datagrams go to a bounded channel and the ones
\* that do not fit are dropped.
ReadDatagrams ==
  /\ d.pc = "reads" /\ \A id \in Ids : ~qs[id].rarmed
  /\ cn' = [cn EXCEPT !.in = IF @ + q.din > DgramCapacity THEN DgramCapacity ELSE @ + q.din]
  /\ q' = [q EXCEPT !.din = 0]
  /\ d' = [d EXCEPT !.pc = "writes"]
  /\ UNCHANGED <<plan, drv, ss, rs, sends, recvs, qs, ap, op, one, awake, seen>>

WriteKnown(id) ==
  /\ d.pc = "writes" /\ Writable(id) /\ id \in sends
  /\ FlushSendOf(id, WritePopped(id), d)
  /\ UNCHANGED <<plan, rs, recvs, ap, op, one, cn, seen>>

WriteGone(id) ==
  /\ d.pc = "writes" /\ Writable(id) /\ id \notin sends
  /\ qs' = [qs EXCEPT ![id].armed = FALSE]
  /\ UNCHANGED <<plan, drv, ss, rs, sends, recvs, d, q, ap, op, one, cn, awake, seen>>

\* The tail of process_writes: the outgoing datagrams are all taken; the ones
\* quiche refuses are dropped.
WriteDatagrams ==
  /\ d.pc = "writes" /\ \A id \in Ids : ~Writable(id)
  /\ cn' = [cn EXCEPT !.out = 0]
  /\ d' = [d EXCEPT !.pc = "poll"]
  /\ UNCHANGED <<plan, drv, ss, rs, sends, recvs, q, qs, ap, op, one, awake, seen>>

\* Driver::poll, a close was requested: quiche closes (or says it has already).
PollClose ==
  /\ d.pc \in {"poll", "poll0"} /\ q.status \in {"handshake", "open", "closing"}
  /\ drv.creq # "none"
  /\ q' = [q EXCEPT !.status = "closing", !.local = IF @ = "none" THEN drv.creq ELSE @]
  /\ d' = [d EXCEPT !.pc = "net"]
  /\ awake' = awake \ {DriverTask}
  /\ UNCHANGED <<plan, drv, ss, rs, sends, recvs, qs, ap, op, one, cn, seen>>

\* close_requested remembers the waker poll() was given.
Registered(v) == IF q.status = "draining" \/ d.pc = "poll0" THEN v
                 ELSE [v EXCEPT !.crw = @ \cup {DriverTask}]

\* During the handshake poll() only watches for a close.
PollEarly ==
  /\ d.pc = "poll" /\ q.status = "handshake" /\ drv.creq = "none"
  /\ drv' = Registered(drv)
  /\ d' = [d EXCEPT !.pc = "parked"] /\ awake' = awake \ {DriverTask}
  /\ UNCHANGED <<plan, ss, rs, sends, recvs, q, qs, ap, op, one, cn, seen>>

\* The locked section of Driver::poll: park the waker, look for work, create
\* the streams handles have opened (quiche refuses one past the peer's limit),
\* refresh the capacities, take the two sets.
NoWork(v) ==
  /\ \A k \in Kinds : v.open[k].create = <<>>
  /\ v.send = {} /\ v.recv = {} /\ cn.out = 0

Created(k) == {drv.open[k].create[i] : i \in DOMAIN drv.open[k].create}

\* Mutant: the streams not created yet are counted as free.
StreamsLeftStale(k) == q.left[k]

\* The number of streams quiche still lets this end open, read after the new
\* ones exist.
StreamsLeft(k) == q.left[k] - Len(drv.open[k].create)

\* KeepAlive::poll: the timer is due or not; when it is, a PING is scheduled and
\* poll() does not sleep.
KeepAliveDue == BOOLEAN

PollMain(keepAlive) ==
  LET v == Registered(drv)
      made == Created("bi") \cup Created("uni")
      blocked == UNION {drv.open[k].wakers : k \in {x \in Kinds : StreamsLeft(x) > 0}}
  IN /\ d.pc \in {"poll", "poll0"}
     /\ q.status = "draining" \/ (q.status # "handshake" /\ drv.creq = "none")
     /\ IF \E k \in Kinds : Len(drv.open[k].create) > q.left[k]
        THEN Failed("quiche") /\ UNCHANGED <<sends, recvs, qs, q>>
        ELSE
        /\ sends' = sends \cup made /\ recvs' = recvs \cup Created("bi")
        /\ qs' = [i \in Ids |-> IF i \in made THEN [qs[i] EXCEPT !.made = TRUE, !.armed = TRUE] ELSE qs[i]]
        /\ q' = [q EXCEPT !.left = [k \in Kinds |-> @[k] - Len(drv.open[k].create)]]
        /\ drv' = [v EXCEPT
             !.waker = IF d.pc = "poll" THEN "task" ELSE "noop",
             !.send = {}, !.recv = {},
             !.open = [k \in Kinds |->
                [drv.open[k] EXCEPT !.create = <<>>, !.cap = StreamsLeft(k),
                                    !.wakers = IF StreamsLeft(k) > 0 THEN {} ELSE @]]]
        /\ d' = [pc |-> IF d.pc = "poll" THEN "flush" ELSE "flush0",
                 recv |-> drv.recv, send |-> drv.send, sleep |-> NoWork(drv) /\ ~keepAlive]
        /\ awake' = (awake \ {DriverTask}) \cup Fire(blocked)
  /\ UNCHANGED <<plan, ss, rs, ap, op, one, cn, seen>>

\* After the lock: the streams that asked to read, then those that asked to
\* write.  A stream that is gone is skipped.
FlushRecv(id) ==
  LET next == [d EXCEPT !.recv = @ \ {id}]
  IN /\ d.pc \in {"flush", "flush0"} /\ id \in d.recv
     /\ IF id \in recvs
        THEN FlushRecvOf(id, qs[id], next)
        ELSE d' = next /\ UNCHANGED <<rs, qs, recvs, awake>>
     /\ UNCHANGED <<plan, drv, ss, sends, q, ap, op, one, cn, seen>>

FlushSend(id) ==
  LET next == [d EXCEPT !.send = @ \ {id}]
  IN /\ d.pc \in {"flush", "flush0"} /\ d.recv = {} /\ id \in d.send
     /\ IF id \in sends
        THEN FlushSendOf(id, qs[id], next)
        ELSE d' = next /\ UNCHANGED <<ss, qs, q, sends, awake, drv>>
     /\ UNCHANGED <<plan, rs, recvs, ap, op, one, cn, seen>>

\* poll() is Pending only when there was nothing to do; the poll of
\* connected() is never waited for.
Flushed ==
  /\ d.pc \in {"flush", "flush0"} /\ d.recv = {} /\ d.send = {}
  /\ d' = [NewDriver EXCEPT !.pc = IF d.pc = "flush" /\ d.sleep THEN "parked"
                                   ELSE NextPhase(d.pc)]
  /\ UNCHANGED <<plan, drv, ss, rs, sends, recvs, q, qs, ap, op, one, cn, awake, seen>>

\* wait_for_data: polled again when the waker has fired, or dropped because
\* the io loop has something else to do.
Woken ==
  /\ d.pc = "parked" /\ DriverTask \in awake
  /\ d' = [d EXCEPT !.pc = "poll"]
  /\ UNCHANGED <<plan, drv, ss, rs, sends, recvs, q, qs, ap, op, one, cn, awake, seen>>

Interrupted ==
  /\ d.pc = "parked" /\ d' = [d EXCEPT !.pc = "net"]
  /\ UNCHANGED <<plan, drv, ss, rs, sends, recvs, q, qs, ap, op, one, cn, awake, seen>>

\* The io loop goes on to process_reads.
NetDone ==
  /\ d.pc = "net"
  /\ d' = [d EXCEPT !.pc = IF q.status = "handshake" THEN "poll" ELSE "reads"]
  /\ UNCHANGED <<plan, drv, ss, rs, sends, recvs, q, qs, ap, op, one, cn, awake, seen>>

\* on_conn_established: publish what the handshake settled, wake its waiters
\* and poll once with a waker that does nothing.
Connected ==
  /\ d.pc = "net" /\ q.status = "handshake"
  /\ q' = [q EXCEPT !.status = "open"]
  /\ drv' = [drv EXCEPT !.est = TRUE, !.hsw = {}]
  /\ awake' = awake \cup Fire(drv.hsw)
  /\ d' = [d EXCEPT !.pc = "poll0"]
  /\ UNCHANGED <<plan, ss, rs, sends, recvs, qs, ap, op, one, cn, seen>>

\* on_conn_close: the reason is the one asked for, else quiche's own, else the
\* peer's; closed() is told first, then whoever waits for a request.
CloseReason ==
  CASE drv.creq # "none" -> drv.creq
    [] drv.creq = "none" /\ q.local # "none" -> q.local
    [] drv.creq = "none" /\ q.local = "none" /\ q.peer -> "remote"
    [] OTHER -> "unknown"

OnConnClose ==
  LET err == CloseReason
      a == Abort([drv EXCEPT !.closed = err, !.clw = {}], err)
  IN /\ d.pc = "net" /\ q.status = "draining"
     /\ drv' = a[1] /\ awake' = awake \cup Fire(drv.clw \cup a[2])
     /\ d' = [NewDriver EXCEPT !.pc = "done"]
     /\ sends' = {} /\ recvs' = {}
     /\ UNCHANGED <<plan, ss, rs, q, qs, ap, op, one, cn, seen>>

-----------------------------------------------------------------------------
(* The application: one task per half, one per open call.  A call locks the*)
(* stream state; if that settles nothing (or there is something to send) it*)
(* then locks the driver's state, in a step of its own.                    *)

\* A call begins, or is polled again after its waker fired.
\* The wakers an earlier poll left in the latches are stale and forgotten here.
Calls(h, o) ==
  /\ \/ ap[h].pc = "idle" /\ o \in plan.ops
     \/ ap[h].pc = "wait" /\ h \in awake /\ ap[h].op = o
  /\ awake' = awake \ {h}
  /\ drv' = [drv EXCEPT !.crw = @ \ {h}, !.clw = @ \ {h}]

\* Only a call that sleeps, and a drop, need to be remembered by name.
Goes(h, pc, o) ==
  ap' = [ap EXCEPT ![h].pc = pc,
                   ![h].op = IF pc \in {"check", "wait"} \/ (pc = "tell" /\ o = "drop") THEN o ELSE "none"]
AppFrame == UNCHANGED <<plan, sends, recvs, d, q, qs, op, one, cn, seen>>
Dead(st) == st.reset \/ st.stop

\* SendStream::write: the capacity is spent under the stream's lock; Ready or
\* failed, the driver is told.
Write(id) ==
  LET h == <<id, "send">>
      st == ss[id]
  IN /\ h \in Halves /\ Calls(h, "write")
     /\ \/ /\ Dead(st) \/ st.fin
           /\ Goes(h, "tell", "write") /\ UNCHANGED ss
        \/ /\ ~Dead(st) /\ ~st.fin /\ st.cap = 0
           /\ ss' = [ss EXCEPT ![id].blocked = TRUE] /\ Goes(h, "check", "write")
        \/ /\ ~Dead(st) /\ ~st.fin /\ st.cap > 0
           /\ ss' = [ss EXCEPT ![id].cap = @ - 1, ![id].queued = @ + 1]
           /\ Goes(h, "tell", "write")
     /\ AppFrame /\ UNCHANGED rs

\* finish, reset, set_priority and Drop: an assignment, then the driver is told.
Finish(id) ==
  LET h == <<id, "send">>
  IN /\ h \in Halves /\ Calls(h, "finish") /\ ~Dead(ss[id]) /\ ~ss[id].fin
     /\ ss' = [ss EXCEPT ![id].fin = TRUE] /\ Goes(h, "tell", "finish")
     /\ AppFrame /\ UNCHANGED rs

Reset(id) ==
  LET h == <<id, "send">>
  IN /\ h \in Halves /\ Calls(h, "reset")
     /\ ss' = [ss EXCEPT ![id].reset = TRUE] /\ Goes(h, "tell", "reset")
     /\ AppFrame /\ UNCHANGED rs

SetPriority(id) ==
  LET h == <<id, "send">>
  IN /\ h \in Halves /\ Calls(h, "priority") /\ Goes(h, "tell", "priority")
     /\ AppFrame /\ UNCHANGED <<ss, rs>>

\* A handle is dropped by its owner, or with the channel that still holds it.
MayDrop(h) == (ap[h].pc = "idle" /\ "drop" \in plan.ops) \/ (ap[h].pc = "queued" /\ ~cn.held)

DropSend(id) ==
  LET h == <<id, "send">>
      quiet == ss[id].fin \/ Dead(ss[id])
  IN /\ h \in Halves /\ MayDrop(h)
     /\ ss' = IF quiet THEN ss ELSE [ss EXCEPT ![id].reset = TRUE]
     /\ Goes(h, IF quiet THEN "gone" ELSE "tell", "drop")
     /\ AppFrame /\ UNCHANGED <<rs, awake, drv>>

\* SendStream::closed and poll_flush.
SendClosed(id) ==
  LET h == <<id, "send">>
      st == ss[id]
  IN /\ h \in Halves /\ Calls(h, "closed")
     /\ IF Dead(st) \/ st.closed
        THEN /\ ap' = [ap EXCEPT ![h] = [pc |-> "idle", op |-> "none",
                                         res |-> IF Dead(st) THEN @.res ELSE "finished"]]
             /\ UNCHANGED ss
        ELSE ss' = [ss EXCEPT ![id].blocked = TRUE] /\ Goes(h, "check", "closed")
     /\ AppFrame /\ UNCHANGED rs

Flush(id) ==
  LET h == <<id, "send">>
      st == ss[id]
  IN /\ h \in Halves /\ Calls(h, "flush")
     /\ IF Dead(st) \/ st.queued = 0
        THEN Goes(h, "idle", "flush") /\ UNCHANGED ss
        ELSE ss' = [ss EXCEPT ![id].blocked = TRUE] /\ Goes(h, "check", "flush")
     /\ AppFrame /\ UNCHANGED rs

\* RecvStream::read_chunk: a chunk, the end, or the size wanted is left for the
\* driver.
Read(id) ==
  LET h == <<id, "recv">>
      st == rs[id]
      n == IF st.queued < ReadMax THEN st.queued ELSE ReadMax
  IN /\ h \in Halves /\ Calls(h, "read")
     /\ IF Dead(st) \/ st.queued > 0 \/ st.fin
        THEN /\ Goes(h, "idle", "read")
             /\ rs' = IF Dead(st) THEN rs ELSE [rs EXCEPT ![id].queued = @ - n]
        ELSE /\ Goes(h, "check", "read")
             /\ rs' = [rs EXCEPT ![id].max = ReadMax, ![id].blocked = TRUE]
     /\ AppFrame /\ UNCHANGED ss

Stop(id) ==
  LET h == <<id, "recv">>
  IN /\ h \in Halves /\ Calls(h, "stop")
     /\ rs' = [rs EXCEPT ![id].stop = TRUE] /\ Goes(h, "tell", "stop")
     /\ AppFrame /\ UNCHANGED ss

DropRecv(id) ==
  LET h == <<id, "recv">>
      quiet == rs[id].fin \/ Dead(rs[id])
  IN /\ h \in Halves /\ MayDrop(h)
     /\ rs' = IF quiet THEN rs ELSE [rs EXCEPT ![id].stop = TRUE]
     /\ Goes(h, IF quiet THEN "gone" ELSE "tell", "drop")
     /\ AppFrame /\ UNCHANGED <<ss, awake, drv>>

RecvClosed(id) ==
  LET h == <<id, "recv">>
      st == rs[id]
  IN /\ h \in Halves /\ Calls(h, "closed")
     /\ IF (st.fin /\ st.queued = 0) \/ Dead(st)
        THEN Goes(h, "idle", "closed") /\ UNCHANGED rs
        ELSE rs' = [rs EXCEPT ![id].blocked = TRUE] /\ Goes(h, "check", "closed")
     /\ AppFrame /\ UNCHANGED ss

\* The driver is told: DriverState::send or recv, then its waker fires.
Tell(h) ==
  LET t == IF h[2] = "send" THEN TellSend(drv, h[1]) ELSE TellRecv(drv, h[1])
  IN /\ ap[h].pc = "tell"
     /\ drv' = t[1] /\ awake' = awake \cup t[2]
     /\ Goes(h, IF ap[h].op = "drop" THEN "gone" ELSE "idle", ap[h].op)
     /\ UNCHANGED <<plan, ss, rs, sends, recvs, d, q, qs, op, one, cn, seen>>

\* The state said Pending: the connection's error, or the call goes to sleep.
\* A flush waits for the end of the connection, not for the request; a read
\* asks the driver for data under the same lock.
Check(h) ==
  LET flush == ap[h].op = "flush"
      err == IF flush THEN drv.closed ELSE ErrorOf(drv)
      v == IF flush THEN [drv EXCEPT !.clw = @ \cup {h}] ELSE PollError(drv, h)
      t == IF ap[h].op = "read" THEN TellRecv(v, h[1]) ELSE <<v, {}>>
  IN /\ ap[h].pc = "check"
     /\ IF err # "none"
        THEN /\ Goes(h, "idle", ap[h].op) /\ seen' = seen \cup {err}
             /\ UNCHANGED <<drv, awake>>
        ELSE /\ drv' = t[1] /\ awake' = awake \cup t[2]
             /\ Goes(h, "wait", ap[h].op) /\ UNCHANGED seen
     /\ UNCHANGED <<plan, ss, rs, sends, recvs, d, q, qs, op, one, cn>>

\* Connection::accept_bi and accept_uni take both halves of a stream.
Accept(id) ==
  /\ cn.held /\ \E h \in Halves : h[1] = id /\ ap[h].pc = "queued"
  /\ ap' = [h \in Halves |-> IF h[1] = id /\ ap[h].pc = "queued"
                             THEN [ap[h] EXCEPT !.pc = "idle"] ELSE ap[h]]
  /\ UNCHANGED <<plan, drv, ss, rs, sends, recvs, d, q, qs, op, one, cn, awake, seen>>

\* Connection::open_bi and open_uni: an id is taken while the capacity the
\* driver last published allows it.
Open(o) ==
  LET w == drv.open[o[2]]
  IN /\ one[HandshakeTask] = "ok" /\ cn.held /\ o[3] < plan[o[2]]
     /\ op[o] = "none" \/ (op[o] = "wait" /\ o \in awake)
     /\ \/ /\ ErrorOf(drv) # "none"
           /\ op' = [op EXCEPT ![o] = "done"] /\ seen' = seen \cup {ErrorOf(drv)}
           /\ awake' = awake \ {o} /\ UNCHANGED <<drv, ap>>
        \/ /\ ErrorOf(drv) = "none" /\ w.cap = 0
           /\ drv' = PollError([drv EXCEPT !.open[o[2]].wakers = @ \cup {o}], o)
           /\ op' = [op EXCEPT ![o] = "wait"] /\ awake' = awake \ {o} /\ UNCHANGED <<ap, seen>>
        \/ /\ ErrorOf(drv) = "none" /\ w.cap > 0
           /\ LET t == Wake([PollError(drv, o) EXCEPT
                        !.open[o[2]] = [w EXCEPT !.cap = @ - 1, !.next = @ + 4,
                                                   !.create = Append(@, w.next)]])
              IN drv' = t[1] /\ awake' = (awake \ {o}) \cup t[2]
           /\ ap' = [h \in Halves |-> IF h[1] = w.next THEN [ap[h] EXCEPT !.pc = "idle"] ELSE ap[h]]
           /\ op' = [op EXCEPT ![o] = "done"] /\ UNCHANGED seen
     /\ UNCHANGED <<plan, ss, rs, sends, recvs, d, q, qs, one, cn>>

\* Incoming::accept and Connecting::established.
PollHandshake ==
  /\ one[HandshakeTask] = "none" \/ (one[HandshakeTask] = "wait" /\ HandshakeTask \in awake)
  /\ awake' = awake \ {HandshakeTask}
  /\ \/ drv.est /\ one' = [one EXCEPT ![HandshakeTask] = "ok"] /\ UNCHANGED <<drv, seen>>
     \/ /\ ~drv.est /\ ErrorOf(drv) # "none"
        /\ one' = [one EXCEPT ![HandshakeTask] = "err"] /\ seen' = seen \cup {ErrorOf(drv)}
        /\ UNCHANGED drv
     \/ /\ ~drv.est /\ ErrorOf(drv) = "none"
        /\ one' = [one EXCEPT ![HandshakeTask] = "wait"]
        /\ drv' = [PollError(drv, HandshakeTask) EXCEPT !.hsw = @ \cup {HandshakeTask}]
        /\ UNCHANGED seen
  /\ UNCHANGED <<plan, ss, rs, sends, recvs, d, q, qs, ap, op, cn>>

\* Connection::closed: only the driver's own end resolves it.
PollClosed ==
  /\ one[HandshakeTask] = "ok" /\ "watch" \in plan.ops
  /\ one[ClosedTask] = "none" \/ (one[ClosedTask] = "wait" /\ ClosedTask \in awake)
  /\ awake' = awake \ {ClosedTask}
  /\ IF drv.closed # "none"
     THEN /\ one' = [one EXCEPT ![ClosedTask] = "ok"] /\ seen' = seen \cup {drv.closed}
          /\ UNCHANGED drv
     ELSE /\ one' = [one EXCEPT ![ClosedTask] = "wait"]
          /\ drv' = [drv EXCEPT !.clw = @ \cup {ClosedTask}] /\ UNCHANGED seen
  /\ UNCHANGED <<plan, ss, rs, sends, recvs, d, q, qs, ap, op, cn>>

\* Connection::close, and the drop of the last Connection.
Close ==
  LET a == Abort(drv, "local")
  IN /\ one[HandshakeTask] = "ok" /\ cn.held
     /\ "local" \in plan.ends
     /\ drv' = a[1] /\ awake' = awake \cup Fire(a[2])
     /\ UNCHANGED <<plan, ss, rs, sends, recvs, d, q, qs, ap, op, one, cn, seen>>

DropConnection ==
  LET a == Abort(drv, "dropped")
  IN /\ one[HandshakeTask] \in {"ok", "err"} /\ cn.held /\ one[ClosedTask] # "wait"
     /\ "dropped" \in plan.ends
     /\ \A o \in Openers : op[o] # "wait"
     /\ cn' = [cn EXCEPT !.held = FALSE, !.in = 0]
     /\ drv' = a[1] /\ awake' = awake \cup Fire(a[2])
     /\ UNCHANGED <<plan, ss, rs, sends, recvs, d, q, qs, ap, op, one, seen>>

\* Connection::send_datagram: into the bounded channel, then the driver is
\* nudged in a step of its own; a full channel drops the datagram.
SendDatagram ==
  /\ "datagram" \in plan.ops /\ one[HandshakeTask] = "ok" /\ cn.held /\ cn.pc = "idle" /\ d.pc # "done"
  /\ cn.out < DgramCapacity
  /\ cn' = [cn EXCEPT !.out = @ + 1, !.pc = "nudge"]
  /\ UNCHANGED <<plan, drv, ss, rs, sends, recvs, d, q, qs, ap, op, one, awake, seen>>

Nudge ==
  LET t == Wake(drv)
  IN /\ cn.pc = "nudge" /\ cn' = [cn EXCEPT !.pc = "idle"]
     /\ drv' = t[1] /\ awake' = awake \cup t[2]
     /\ UNCHANGED <<plan, ss, rs, sends, recvs, d, q, qs, ap, op, one, seen>>

ReadDatagram ==
  /\ cn.held /\ cn.in > 0 /\ cn' = [cn EXCEPT !.in = @ - 1]
  /\ UNCHANGED <<plan, drv, ss, rs, sends, recvs, d, q, qs, ap, op, one, awake, seen>>

-----------------------------------------------------------------------------
(* External: the peer and the network, seen by the io loop between two     *)
(* rounds of the driver.                                                   *)

NetFrame == UNCHANGED <<plan, drv, ss, rs, sends, recvs, d, ap, op, one, cn, awake, seen>>
AtNet == d.pc = "net" /\ q.status = "open"
Arrived(id) == qs[id].made \/ id \in plan.peer
Unfinished(id) == ~qs[id].rfin /\ ~qs[id].rrst /\ ~qs[id].rend

PeerData(id) ==
  /\ AtNet /\ <<id, "recv">> \in Halves /\ Arrived(id) /\ Unfinished(id) /\ qs[id].got < MaxBytes
  /\ qs' = [qs EXCEPT ![id].made = TRUE, ![id].rbuf = @ + 1, ![id].got = @ + 1, ![id].rarmed = TRUE]
  /\ UNCHANGED q /\ NetFrame

PeerFin(id) ==
  /\ AtNet /\ <<id, "recv">> \in Halves /\ Arrived(id) /\ Unfinished(id)
  /\ qs' = [qs EXCEPT ![id].made = TRUE, ![id].rfin = TRUE, ![id].rarmed = TRUE]
  /\ UNCHANGED q /\ NetFrame

PeerReset(id) ==
  /\ AtNet /\ <<id, "recv">> \in Halves /\ Arrived(id) /\ Unfinished(id)
  /\ qs' = [qs EXCEPT ![id].made = TRUE, ![id].rrst = TRUE, ![id].rbuf = 0, ![id].rarmed = TRUE]
  /\ UNCHANGED q /\ NetFrame

PeerStop(id) ==
  /\ AtNet /\ <<id, "send">> \in Halves /\ Arrived(id)
  /\ EarlyStop \/ id \in sends
  /\ ~qs[id].stopped /\ ~qs[id].fin /\ ~qs[id].rst
  /\ qs' = [qs EXCEPT ![id].made = TRUE, ![id].stopped = TRUE, ![id].armed = TRUE]
  /\ UNCHANGED q /\ NetFrame

\* More credit makes every stream that can still send writable again.
PeerCredit ==
  /\ AtNet /\ q.granted < MaxBytes
  /\ q' = [q EXCEPT !.credit = @ + 1, !.granted = @ + 1]
  /\ qs' = [i \in Ids |-> [qs[i] EXCEPT !.armed = @ \/ (qs[i].made /\ ~qs[i].fin /\ ~qs[i].rst)]]
  /\ NetFrame

PeerMaxStreams(k) ==
  /\ AtNet /\ q.left[k] = 0
  /\ q' = [q EXCEPT !.left[k] = 1] /\ UNCHANGED qs /\ NetFrame

PeerDatagram ==
  /\ AtNet /\ "datagram" \in plan.ops /\ q.din <= DgramCapacity
  /\ q' = [q EXCEPT !.din = @ + 1] /\ UNCHANGED qs /\ NetFrame

\* CONNECTION_CLOSE of the peer, the idle timeout, and our own
\* CONNECTION_CLOSE leaving: quiche drains.
PeerClose ==
  /\ "remote" \in plan.ends
  /\ d.pc = "net" /\ q.status \in {"handshake", "open"}
  /\ q' = [q EXCEPT !.status = "draining", !.peer = TRUE] /\ UNCHANGED qs /\ NetFrame

Timeout ==
  /\ "unknown" \in plan.ends
  /\ d.pc = "net" /\ q.status \in {"handshake", "open"}
  /\ q' = [q EXCEPT !.status = "draining"] /\ UNCHANGED qs /\ NetFrame

SendClose ==
  /\ d.pc = "net" /\ q.status = "closing"
  /\ q' = [q EXCEPT !.status = "draining"] /\ UNCHANGED qs /\ NetFrame

Peer ==
  \/ \E id \in Ids : PeerData(id) \/ PeerFin(id) \/ PeerReset(id) \/ PeerStop(id)
  \/ PeerCredit \/ \E k \in Kinds : PeerMaxStreams(k)
  \/ PeerDatagram \/ PeerClose \/ Timeout

DriverStep ==
  \/ \E id \in Ids : \/ ReadKnown(id) \/ AcceptUni(id) \/ AcceptBi(id)
                     \/ WriteKnown(id) \/ WriteGone(id) \/ FlushRecv(id) \/ FlushSend(id)
  \/ ReadDatagrams \/ WriteDatagrams
  \/ PollClose \/ PollEarly \/ (\E due \in KeepAliveDue : PollMain(due)) \/ Flushed
  \/ Woken \/ NetDone

Call(id) ==
  \/ Write(id) \/ Finish(id) \/ Reset(id) \/ SetPriority(id) \/ DropSend(id)
  \/ SendClosed(id) \/ Flush(id)
  \/ Read(id) \/ Stop(id) \/ DropRecv(id) \/ RecvClosed(id)
  \/ Accept(id)

App ==
  \/ \E id \in Ids : Call(id)
  \/ \E h \in Halves : Tell(h) \/ Check(h)
  \/ \E o \in Openers : Open(o)
  \/ PollHandshake \/ PollClosed \/ Close \/ DropConnection
  \/ SendDatagram \/ Nudge \/ ReadDatagram

Next == DriverStep \/ Interrupted \/ Connected \/ SendClose \/ OnConnClose
          \/ Peer \/ App

Spec == Init /\ [][Next]_vars

-----------------------------------------------------------------------------
(* Properties.                                                             *)

\* The driver never sleeps on work (driver.rs:546): while it waits with no
\* waker fired, no stream id, new stream, datagram or close request is waiting
\* for it, except a datagram whose sender is about to nudge it.
DriverAwake ==
  d.pc = "parked" /\ DriverTask \notin awake =>
    /\ drv.send = {} /\ drv.recv = {} /\ \A k \in Kinds : drv.open[k].create = <<>>
    /\ q.status # "draining" => drv.creq = "none"
    /\ cn.out > 0 => cn.pc = "nudge" \/ q.status = "handshake"

\* A call that sleeps has somebody to wake it (send.rs:81, recv.rs:100): what
\* it waits for has not happened, its waker is in the stream state, the driver
\* still has the stream (or is about to create it), and the end of the
\* connection would wake it too.  closed() of a receive stream also sleeps on
\* bytes in front of the FIN that its owner has not read.
Sleeping(h) == ap[h].pc = "wait" /\ h \notin awake
StreamCallsServed ==
  \A h \in Halves : Sleeping(h) =>
    LET id == h[1]
        st == IF h[2] = "send" THEN ss[id] ELSE rs[id]
        unread == h[2] = "recv" /\ ap[h].op = "closed" /\ st.fin /\ st.queued > 0
    IN /\ st.blocked
       /\ unread \/ id \in (IF h[2] = "send" THEN sends ELSE recvs) \cup Created(Kind(id))
       /\ ~Dead(st)
       /\ CASE ap[h].op = "write" -> st.cap = 0 /\ ~st.fin
            [] ap[h].op = "flush" -> st.queued > 0
            [] ap[h].op = "read" -> st.queued = 0 /\ ~st.fin
            [] OTHER -> unread \/ ~st.closed
       /\ IF ap[h].op = "flush" THEN drv.closed = "none" ELSE ErrorOf(drv) = "none"

\* Opening stays within the peer's limit (driver.rs:204, 573): the capacity that
\* open_bi and open_uni spend, plus the streams they have left for the driver to
\* create, never exceeds what quiche will accept.
OpensWithinLimit ==
  \A k \in Kinds : drv.open[k].cap + Len(drv.open[k].create) <= q.left[k]

\* Every call that fails because the connection is gone gives the same reason,
\* whichever of close(), the peer, quiche or a drop came first (driver.rs:771).
SameReason == Cardinality(seen) <= 1 /\ (seen # {} => ErrorOf(drv) \in seen)

\* What happens to one stream does not end the connection, with one exception:
\* a FIN that meets a STOP_SENDING (send.rs:186).
StreamErrorsLocal ==
  drv.creq = "quiche" => \E id \in Ids : ss[id].fin /\ qs[id].stopped

\* The connection ends for one reason, the same for everybody, and never for
\* what happened to a stream but for that exception.
OneCause == SameReason /\ StreamErrorsLocal

\* closed() of a send stream returns Ok only for a stream whose FIN was sent:
\* "self.closed means we sent the FIN already" (send.rs:103).
\* It does not hold with EarlyStop: a flush forgets the stop.
ClosedMeansFin ==
  \A h \in Halves : ap[h].res = "finished" => qs[h[1]].fin

\* Nobody sleeps through the end of the connection or of the handshake, and an
\* opener only while the peer's limit is reached (driver.rs:157, 201): their
\* wakers are where the step that changes this will find them.
OthersServed ==
  /\ \A o \in Openers : op[o] = "wait" /\ o \notin awake =>
       /\ ErrorOf(drv) = "none" /\ o \in drv.crw
       /\ drv.open[o[2]].cap = 0 /\ o \in drv.open[o[2]].wakers
  /\ one[HandshakeTask] = "wait" /\ HandshakeTask \notin awake =>
       ~drv.est /\ ErrorOf(drv) = "none" /\ HandshakeTask \in drv.hsw \cap drv.crw
  /\ one[ClosedTask] = "wait" /\ ClosedTask \notin awake =>
       drv.closed = "none" /\ d.pc # "done" /\ ClosedTask \in drv.clw

\* A read that sleeps while quiche has something for it, and a write that sleeps
\* while there is credit, are about to be flushed: the stream is in an event of
\* quiche or in a set the driver still has to go through (recv.rs:270).
DataMoves ==
  \A h \in Halves : Sleeping(h) /\ drv.creq = "none" /\ d.pc # "done" =>
    LET id == h[1]
    IN /\ ap[h].op = "read" /\ (qs[id].rbuf > 0 \/ qs[id].rfin \/ qs[id].rrst) =>
            qs[id].rarmed \/ id \in drv.recv \cup d.recv
       /\ ap[h].op = "write" /\ (q.credit > 0 \/ qs[id].stopped) /\ id \in sends =>
            qs[id].armed \/ id \in drv.send \cup d.send

\* Whoever sleeps on a connection, on a stream or beside both, has somebody to
\* wake it and a reason to sleep, and the data it waits for is on its way to it.
CallsServed == StreamCallsServed /\ OthersServed /\ DataMoves
=============================================================================
