----------------------------- MODULE IdleTimer -----------------------------
(***************************************************************************)
(* The idle timeout and keep-alive of an established QMux session          *)
(* (rs/qmux/src/session.rs, TimerState and IdleActivity).                  *)
(*                                                                         *)
(* Three tasks share five atomics.  The reader publishes last_recv_at and  *)
(* raises reader_backpressured while it hands a stream to a full accept    *)
(* channel; the writer publishes last_send_at and raises                   *)
(* writer_backpressured while a send is in flight; the timer reads all of  *)
(* them, every load a step of its own, pings and closes.  The clock ticks  *)
(* in units of a fraction of the idle window.  A task that can run does so *)
(* before the next tick, in any order with the others.                     *)
(*                                                                         *)
(* The peer is live until it falls silent.  A live peer answers a ping     *)
(* within Rtt, pings on its own after a third of the window, and may stall *)
(* for WedgeMax: then our write stays pending and nothing comes from it.   *)
(* A silent one sends nothing more, and its socket accepts our writes or   *)
(* does not.                                                               *)
(***************************************************************************)
EXTENDS Integers, Sequences, FiniteSets, FiniteSetsExt

CONSTANTS
  Idle,      \* the negotiated idle timeout, in ticks
  Rtt,       \* within which a live peer's answer is here
  ParkMax,   \* how long an application leaves the accept channel full
  WedgeMax,  \* how long a live peer stalls: our write pends, it sends nothing
  InboundCap,\* frames that wait in the transport while nobody reads
  MaxTime    \* bound on the clock

ASSUME IdleIsPositive == Idle \in Nat \ {0}
ASSUME DelaysAreNatural == {Rtt, ParkMax, WedgeMax, InboundCap, MaxTime} \subseteq Nat

None == -1

VARIABLES
  now,           \* the clock, in ticks since base
  lastRecv,      \* last_recv_at
  lastSend,      \* last_send_at
  readerBp,      \* reader_backpressured
  writerBp,      \* writer_backpressured
  relieved,      \* history: when backpressure that outlived a tick last ended
  pingsSent,     \* pings_sent
  control,       \* the pings on the control lane
  timer,         \* where the timer task is in its loop
  activity,      \* its IdleActivity
  deferredSince, \* deferred_since, or None
  lastPing,      \* last_ping_ms
  nextSeq,       \* next_ping_seq
  pingDue,       \* ping_ref + ping_every
  wake,          \* the instant it sleeps until
  wokeAt,        \* the `now` of this iteration
  writer,        \* where the writer task is in transmit()
  sending,       \* the frame in flight
  sendSince,     \* when it started
  reader,        \* "run", or "parked" on a full accept channel
  parkedAt,      \* since when
  inbound,       \* frames that arrived and were not read
  peer,          \* "live" or "silent"
  heard,         \* when the last frame of the peer arrived
  answers,       \* pings the peer received, with the latest time of the answer
  verdict        \* "open", "idle", or "violation" for an unknown answer

clocks == <<lastRecv, lastSend>>
flags == <<readerBp, writerBp, relieved>>
timerLocals == <<activity, deferredSince, lastPing, nextSeq, pingDue, wake, wokeAt>>
timerVars == <<timer, timerLocals>>
writerVars == <<writer, sending, sendSince>>
readerVars == <<reader, parkedAt, inbound>>
peerVars == <<peer, heard, answers>>
idleVars == <<now, clocks, flags, pingsSent, control, timerVars, writerVars,
          readerVars, peerVars, verdict>>

\* Frames: "ping" asks, "answer" echoes, "data" is anything else; only a
\* sequence number of a ping or an answer matters.
PingFrame == [kind : {"ping", "answer", "data"}, seq : Nat]
Data == [kind |-> "data", seq |-> 0]

\* A task is there and the session is open: nothing is followed past the close.
TimerAt(stage) == verdict = "open" /\ timer = stage
WriterAt(stage) == verdict = "open" /\ writer = stage
ReaderAt(stage) == verdict = "open" /\ reader = stage

MaxOf(a, b) == IF a >= b THEN a ELSE b

\* ping_every: a third of the idle window, at least one tick.
PingEvery == MaxOf(Idle \div 3, 1)

----------------------------------------------------------------------------
(* IdleActivity: a receive always counts, a send once per receive.          *)

NewActivity(recvAt) == [recvSeen |-> recvAt, sendResetAt |-> recvAt, sendCredit |-> TRUE]

ObserveRecv(a, recvAt) ==
  [a EXCEPT !.recvSeen = MaxOf(@, recvAt), !.sendCredit = @ \/ recvAt > a.recvSeen]

\* Mutant: every send counts, so the pings keep restarting the deadline.
ObserveEverySend(a, sendAt) == [a EXCEPT !.sendResetAt = MaxOf(@, sendAt)]

ObserveSend(a, sendAt) ==
  LET counts == a.sendCredit /\ sendAt > a.sendResetAt
  IN  [a EXCEPT !.sendResetAt = IF counts THEN sendAt ELSE @, !.sendCredit = @ /\ ~counts]

LastActivity(a) == MaxOf(a.recvSeen, a.sendResetAt)

----------------------------------------------------------------------------
(* The timer task                                                           *)

\* What the timer's own steps leave to the others.
TimerOnly == UNCHANGED <<now, clocks, flags, writerVars, readerVars, peerVars>>

\* The top of the loop: observe_activity loads the clock of the reader, then that
\* of the writer, and folds them in.
ArmRecv ==
  /\ TimerAt("arm") /\ timer' = "armSend"
  /\ activity' = ObserveRecv(activity, lastRecv)
  /\ TimerOnly
  /\ UNCHANGED <<pingsSent, control, deferredSince, lastPing, nextSeq, pingDue, wake, wokeAt,
                 verdict>>

ArmSend ==
  /\ TimerAt("armSend") /\ timer' = "armPing"
  /\ activity' = ObserveSend(activity, lastSend)
  /\ TimerOnly
  /\ UNCHANGED <<pingsSent, control, deferredSince, lastPing, nextSeq, pingDue, wake, wokeAt,
                 verdict>>

\* last_send_at is loaded again for ping_ref, and the next wake-up chosen.
ArmTimer ==
  /\ TimerAt("armPing") /\ timer' = "sleep" /\ wokeAt' = 0
  /\ pingDue' = MaxOf(lastSend, lastPing) + PingEvery
  /\ LET idleWake == IF deferredSince # None THEN deferredSince ELSE LastActivity(activity)
     IN  wake' = Min({idleWake + Idle, pingDue'})
  /\ TimerOnly
  /\ UNCHANGED <<pingsSent, control, activity, deferredSince, lastPing, nextSeq, verdict>>

\* sleep_until(wake) elapses.
Wake ==
  /\ TimerAt("sleep") /\ now >= wake
  /\ wokeAt' = now /\ timer' = "ping"
  /\ TimerOnly
  /\ UNCHANGED <<pingsSent, control, activity, deferredSince, lastPing, nextSeq, pingDue, wake,
                 verdict>>

PingDue == wokeAt >= pingDue
CanPing == PingDue /\ ~writerBp

\* Leaves the check for a due ping; one that cannot be sent is only marked.
PastPing ==
  /\ timer' = IF CanPing THEN "enqueue" ELSE "idle"
  /\ lastPing' = IF PingDue /\ ~CanPing THEN wokeAt ELSE lastPing
  /\ TimerOnly
  /\ UNCHANGED <<control, activity, deferredSince, pingDue, wake, wokeAt, verdict>>

\* Is a ping due, and is the writer able to send one?  The counter is published
\* before the ping is enqueued.
PublishPing ==
  /\ TimerAt("ping") /\ PastPing
  /\ nextSeq' = nextSeq + (IF CanPing THEN 1 ELSE 0)
  /\ pingsSent' = nextSeq'

EnqueuePing ==
  /\ TimerAt("enqueue")
  /\ control' = Append(control, [kind |-> "ping", seq |-> nextSeq - 1])
  /\ lastPing' = wokeAt /\ timer' = "idle"
  /\ TimerOnly
  /\ UNCHANGED <<pingsSent, activity, deferredSince, nextSeq, pingDue, wake, wokeAt, verdict>>

\* Re-read the clocks: has a full window passed without activity?
IdleRecv ==
  /\ TimerAt("idle") /\ timer' = "idleSend"
  /\ activity' = ObserveRecv(activity, lastRecv)
  /\ TimerOnly
  /\ UNCHANGED <<pingsSent, control, deferredSince, lastPing, nextSeq, pingDue, wake, wokeAt,
                 verdict>>

CheckIdle ==
  /\ TimerAt("idleSend")
  /\ activity' = ObserveSend(activity, lastSend)
  /\ IF wokeAt < LastActivity(activity') + Idle
     THEN deferredSince' = None /\ timer' = "arm"
     ELSE timer' = "decide" /\ UNCHANGED deferredSince
  /\ TimerOnly
  /\ UNCHANGED <<pingsSent, control, lastPing, nextSeq, pingDue, wake, wokeAt, verdict>>

\* Close, unless backpressure buys one more window.
Judge(backpressured) ==
  LET fresh == deferredSince = None /\ backpressured
      grace == deferredSince # None /\ wokeAt - deferredSince < Idle
  IN  /\ deferredSince' = IF fresh THEN wokeAt ELSE deferredSince
      /\ timer' = IF fresh \/ grace THEN "arm" ELSE "done"
      /\ verdict' = IF fresh \/ grace THEN verdict ELSE "idle"

\* writer_backpressured is loaded; reader_backpressured only if that is not raised.
ReadWriterFlag ==
  /\ TimerAt("decide")
  /\ \/ writerBp /\ Judge(TRUE)
     \/ ~writerBp /\ timer' = "readerBp" /\ UNCHANGED <<deferredSince, verdict>>
  /\ TimerOnly
  /\ UNCHANGED <<pingsSent, control, activity, lastPing, nextSeq, pingDue, wake, wokeAt>>

\* Mutant: the flag of the reader is not consulted.
ForgetReaderFlag ==
  /\ TimerAt("readerBp") /\ Judge(FALSE)
  /\ TimerOnly
  /\ UNCHANGED <<pingsSent, control, activity, lastPing, nextSeq, pingDue, wake, wokeAt>>

ReadReaderFlag ==
  /\ TimerAt("readerBp") /\ Judge(readerBp)
  /\ TimerOnly
  /\ UNCHANGED <<pingsSent, control, activity, lastPing, nextSeq, pingDue, wake, wokeAt>>

----------------------------------------------------------------------------
(* The writer task: transmit() raises the flag, sends, lowers the flag and  *)
(* publishes the time.                                                      *)

\* A flag raised at an instant that is past is lowered.
Relieved(since) == relieved' = IF since < now THEN now ELSE relieved

StartSend(f) ==
  /\ WriterAt("run")
  /\ writer' = "sending" /\ sending' = f /\ sendSince' = now
  /\ writerBp' = TRUE
  /\ UNCHANGED <<now, clocks, readerBp, relieved, pingsSent, timerVars, readerVars, peerVars,
                 verdict>>

SendControl == control # <<>> /\ StartSend(Head(control)) /\ control' = Tail(control)
\* Bound: one frame of ours per tick, besides those on the control lane.
SendData == control = <<>> /\ lastSend < now /\ StartSend(Data) /\ UNCHANGED control

\* The transport takes the frame and the flag is lowered; a live peer will
\* answer a ping.
SendLands ==
  /\ WriterAt("sending") /\ writer' = "landed" /\ writerBp' = FALSE
  /\ sending' = Data /\ sendSince' = 0 /\ Relieved(sendSince)
  /\ answers' = IF peer = "live" /\ sending.kind = "ping"
                THEN Append(answers, [seq |-> sending.seq, by |-> now + Rtt]) ELSE answers
  /\ UNCHANGED <<now, clocks, readerBp, pingsSent, control, timerVars, readerVars, peer,
                 heard, verdict>>

PublishSend ==
  /\ WriterAt("landed") /\ writer' = "run" /\ lastSend' = now
  /\ UNCHANGED <<now, lastRecv, flags, pingsSent, control, timerVars, sending, sendSince,
                 readerVars, peerVars, verdict>>

----------------------------------------------------------------------------
(* The reader task                                                          *)

\* QX_PING: a request is answered, an answer must be to a ping we sent.
OnPing(f) ==
  /\ control' = IF f.kind = "ping"
                THEN Append(control, [kind |-> "answer", seq |-> f.seq]) ELSE control
  /\ verdict' = IF f.kind = "answer" /\ f.seq >= pingsSent THEN "violation" ELSE verdict

\* A frame is read: the clock is published, a ping handled, and a new stream may
\* find the accept channel full.  Nothing the timer does between the store of the
\* clock and that of the flag depends on their order: the fresh clock alone keeps
\* the window open until the next tick.
Recv ==
  /\ ReaderAt("run") /\ inbound # <<>>
  /\ inbound' = Tail(inbound) /\ lastRecv' = now
  /\ OnPing(Head(inbound))
  /\ \/ /\ Head(inbound).kind = "data"
        /\ reader' = "parked" /\ parkedAt' = now /\ readerBp' = TRUE
     \/ UNCHANGED <<reader, parkedAt, readerBp>>
  /\ UNCHANGED <<now, lastSend, writerBp, relieved, pingsSent, timerVars, writerVars, peerVars>>

\* The application accepts a stream.
Unpark ==
  /\ ReaderAt("parked") /\ reader' = "run" /\ readerBp' = FALSE /\ parkedAt' = 0
  /\ Relieved(parkedAt)
  /\ UNCHANGED <<now, clocks, writerBp, pingsSent, control, timerVars, writerVars,
                 inbound, peerVars, verdict>>

----------------------------------------------------------------------------
(* The peer and the clock                                                   *)

Arrive(f) ==
  /\ verdict = "open" /\ peer = "live" /\ Len(inbound) < InboundCap
  /\ inbound' = Append(inbound, f) /\ heard' = now
  /\ UNCHANGED <<now, clocks, flags, pingsSent, control, timerVars, writerVars, reader,
                 parkedAt, peer, verdict>>

PeerAnswers ==
  /\ answers # <<>>
  /\ Arrive([kind |-> "answer", seq |-> Head(answers).seq])
  /\ answers' = Tail(answers)

\* Bound: one frame per tick, and no ping while we have frames to write.  The
\* answers of the peer go ahead of its other frames.
PeerSends ==
  /\ heard < now /\ answers = <<>>
  /\ \E k \in {"data", "ping"} :
        (k = "ping" => control = <<>>) /\ Arrive([kind |-> k, seq |-> 0])
  /\ UNCHANGED answers

FallSilent ==
  /\ verdict = "open" /\ peer = "live" /\ peer' = "silent" /\ answers' = <<>> /\ heard' = 0
  /\ UNCHANGED <<now, clocks, flags, pingsSent, control, timerVars, writerVars,
                 readerVars, verdict>>

\* What a live peer and an application owe before the clock may move on.  The peer
\* may be stalled for as long as our write is pending.
Stall == IF writer = "sending" THEN WedgeMax ELSE 0

PeerOwes ==
  /\ peer = "live"
  /\ \/ Len(inbound) < InboundCap /\ answers # <<>> /\ Head(answers).by + Stall <= now
     \/ Len(inbound) < InboundCap /\ heard + PingEvery + Rtt + Stall <= now
     \/ writer = "sending" /\ sendSince + WedgeMax <= now

AppOwes == reader = "parked" /\ peer = "live" /\ parkedAt + ParkMax <= now

\* Every task that can run has run.
TasksIdle ==
  /\ timer = "sleep" /\ wake > now
  /\ writer = "sending" \/ (writer = "run" /\ control = <<>>)
  /\ reader = "parked" \/ inbound = <<>>

Tick ==
  /\ verdict = "open" /\ now < MaxTime /\ TasksIdle /\ ~PeerOwes /\ ~AppOwes
  /\ now' = now + 1
  /\ UNCHANGED <<clocks, flags, pingsSent, control, timerVars, writerVars, readerVars,
                 peerVars, verdict>>

----------------------------------------------------------------------------

\* The parameters have just been exchanged.
IdleInit ==
  /\ now = 0 /\ lastRecv = 0 /\ lastSend = 0
  /\ readerBp = FALSE /\ writerBp = FALSE /\ relieved = None
  /\ pingsSent = 0 /\ control = <<>>
  /\ timer = "arm" /\ activity = NewActivity(0) /\ deferredSince = None
  /\ lastPing = 0 /\ nextSeq = 0 /\ pingDue = 0 /\ wake = 0 /\ wokeAt = 0
  /\ writer = "run" /\ sending = Data /\ sendSince = 0
  /\ reader = "run" /\ parkedAt = 0 /\ inbound = <<>>
  /\ peer = "live" /\ heard = 0 /\ answers = <<>>
  /\ verdict = "open"

ArmStep == ArmRecv \/ ArmSend \/ ArmTimer
KeepAlive == Wake \/ PublishPing \/ EnqueuePing
IdleCheck == IdleRecv \/ CheckIdle \/ ReadWriterFlag \/ ReadReaderFlag
Timer == ArmStep \/ KeepAlive \/ IdleCheck
Writer == SendControl \/ SendData \/ SendLands \/ PublishSend
Reader == Recv \/ Unpark
Peer == PeerAnswers \/ PeerSends \/ FallSilent

IdleNext == Timer \/ Writer \/ Reader \/ Peer \/ Tick

IdleSpec == IdleInit /\ [][IdleNext]_idleVars

----------------------------------------------------------------------------
(* Properties                                                               *)

IdleTypes ==
  /\ {now, lastRecv, lastSend, lastPing, nextSeq, pingDue, wake, wokeAt, pingsSent,
      sendSince, parkedAt, heard} \subseteq Nat
  /\ {readerBp, writerBp} \subseteq BOOLEAN /\ {relieved, deferredSince} \subseteq Nat \cup {None}
  /\ control \in Seq(PingFrame) /\ inbound \in Seq(PingFrame) /\ sending \in PingFrame
  /\ timer \in {"arm", "armSend", "armPing", "sleep", "ping", "enqueue", "idle", "idleSend",
                "decide", "readerBp", "done"}
  /\ activity \in [recvSeen : Nat, sendResetAt : Nat, sendCredit : BOOLEAN]
  /\ writer \in {"run", "sending", "landed"} /\ reader \in {"run", "parked"}
  /\ peer \in {"live", "silent"} /\ verdict \in {"open", "idle", "violation"}
  /\ answers \in Seq([seq : Nat, by : Nat])

\* A peer that answers is not taken for a dead one, whatever our own traffic does
\* to the clocks and although a slow accept() or a wedged write keeps us from hearing
\* it for longer than the window: the backpressure buys a second one.  One race
\* remains in the code: in the instant in which the backpressure ends, the timer may
\* find the flag lowered and have loaded the clock before what waited was read.
LivePeerKept == peer = "live" /\ verdict = "idle" => relieved = now

\* A peer that fell silent is reclaimed: one window to notice, one for the send
\* that a receive entitles us to, and one of grace for each of them.
SilentPeerReclaimed == verdict = "open" => now <= lastRecv + 4 * Idle

\* The answer to a ping we sent is always recognised: the counter the reader
\* checks is ahead of the pings on the wire.
AnswersRecognised == verdict # "violation"

\* The timer and the reader judge the peer by what it did: one that is there is
\* neither timed out nor accused of answering a ping that was not sent.
JudgedFairly == IdleTypes /\ LivePeerKept /\ AnswersRecognised
============================================================================
