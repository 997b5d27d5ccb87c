---------------------------- MODULE QmuxStreams ----------------------------
(***************************************************************************)
(* The stream layer of QMux (rs/qmux/src/session.rs): one direction of     *)
(* data between two endpoints.  The sender owns the SendStreams, its       *)
(* writer task and its reader task; the receiver owns its reader task, the *)
(* RecvStreams and its writer task.  The reliable transport is one FIFO    *)
(* per direction.  The handshake is over and both ends speak QMux.         *)
(*                                                                         *)
(* Streams 0 .. NumUni-1 are unidirectional streams the sender opens; the  *)
(* others are bidirectional streams the receiver opened earlier, on which  *)
(* the sender answers.                                                     *)
(*                                                                         *)
(* A task holds the streams lock, or the lock inside a Credit, only for a  *)
(* moment: where the code gives a lock up between reading a map and using  *)
(* what it read, or between computing a new maximum and enqueueing the     *)
(* frame that carries it, the model takes two steps.                       *)
(*                                                                         *)
(* An error that ends a session stops the model in the state it was found. *)
(***************************************************************************)
EXTENDS Integers, Sequences, SequencesExt, FiniteSets, FiniteSetsExt, Credit

CONSTANTS
  NumUni,        \* uni streams the sender may open
  NumOwn,        \* bidi streams the receiver opened
  ConnWindow,    \* max_data
  StreamWindow,  \* max_stream_data_*
  StreamLimit,   \* max_streams_uni
  QueueCap,      \* capacity of the outbound PriorityQueue
  AcceptCap,     \* capacity of the accept_uni channel
  MaxBytes,      \* bytes the application writes per stream
  Chunk,         \* payload limit of one frame
  Readable,      \* streams the receiving application reads
  Calls,         \* optional calls the applications make
  MaxFronts      \* bound on the RecvStreams created for one stream id

Streams == 0 .. NumUni + NumOwn - 1
Uni == 0 .. NumUni - 1
Own == Streams \ Uni
Fronts == Streams \X (1 .. MaxFronts)

ASSUME SizesAreNatural ==
  /\ NumUni \in Nat /\ NumOwn \in Nat /\ ConnWindow \in Nat
  /\ StreamWindow \in Nat /\ StreamLimit \in Nat /\ MaxBytes \in Nat
ASSUME BoundsArePositive ==
  /\ QueueCap \in Nat \ {0} /\ AcceptCap \in Nat \ {0} /\ Chunk \in Nat \ {0}
  /\ MaxFronts \in Nat \ {0}
ASSUME CallsAreKnown ==
  /\ Readable \subseteq Streams
  /\ Calls \subseteq {"cancel", "reset", "stop", "short", "refinish",
                     "closed"}

VARIABLES
  \* sender
  openC,     \* open_uni_credit
  connS,     \* conn_send_credit
  strS,      \* SendStream.stream_credit
  tx,        \* SendStream: st, offset, fin, closed; calls of finish()
  holding,   \* streams whose write holds a queue slot and waits for credit
  stopped,   \* streams with a STOP_SENDING in inbound_stopped
  queue,     \* the outbound PriorityQueue: a FIFO of frames per stream
  resets,    \* control lane: the streams whose RESET_STREAM is to be sent
  sendMap,   \* ids in streams.send
  sentOff,   \* SendState.sent_offset
  \* transport
  wireAB,    \* frames from sender to receiver
  wireBA,    \* frames from receiver to sender
  \* receiver
  connR,     \* conn_recv_credit
  limR,      \* recv_uni_credit
  strR,      \* recv_credit, one per RecvStream
  recvMap,   \* streams.recv: the RecvStream an id is routed to, 0 if absent
  recvOff,   \* RecvState.recv_offset
  created,   \* RecvOpen.created_max, -1 for None
  holes,     \* RecvOpen.holes
  reader,    \* the reader's progress in recv_frame
  acceptQ,   \* the accept_uni channel
  rx,        \* RecvStream: st, data, reset, buf, fin, closed
  control,   \* control lane
  pending,   \* window update a RecvStream has computed and not yet enqueued
  \* verdict and history
  fault,     \* the error that ended the session, "none" so far
  fronts,    \* RecvStreams created per stream id
  wired,     \* bytes of each stream put on the transport
  arrived,   \* bytes of each stream taken from the transport
  ignored,   \* bytes that arrived and were dropped before being accounted
  got,       \* bytes each RecvStream has handed to the application
  hole       \* RecvStreams that handed out bytes with a gap before them

senderVars == <<openC, connS, strS, tx, holding, stopped, queue, resets,
                sendMap, sentOff, wired>>
readerVars == <<recvMap, recvOff, created, holes, reader, acceptQ, fronts,
                arrived, ignored>>
creditVars == <<connR, limR, strR>>
appVars == <<rx, pending, got, hole>>
vars == <<senderVars, readerVars, creditVars, appVars, wireAB, wireBA,
          control, fault>>

\* Frames.
StreamFrame(s, off, n, fin) ==
  [type |-> "stream", id |-> s, off |-> off, len |-> n, fin |-> fin]
ResetFrame(s, final) == [type |-> "reset", id |-> s, final |-> final]
MaxData(m) == [type |-> "max_data", max |-> m]
MaxStreamData(s, m) == [type |-> "max_stream_data", id |-> s, max |-> m]
MaxStreams(m) == [type |-> "max_streams", max |-> m]
StopFrame(s) == [type |-> "stop", id |-> s]

NoFrame == [type |-> "none"]
Idle == [pc |-> "idle", frame |-> NoFrame, live |-> FALSE, max |-> 0]

Bytes(fs) == SumFunction([i \in DOMAIN fs |-> fs[i].len])

----------------------------------------------------------------------------
(* The sending application                                                  *)

Writable(s) == tx[s].st = "open" /\ ~tx[s].fin /\ tx[s].closed = "no"

\* open_uni: claim an index, register the backend, seed the stream credit.
OpenUni(s) ==
  /\ s \in Uni /\ tx[s].st = "none" /\ s = openC.used
  /\ openC.used < openC.max
  /\ openC' = Claim(openC, 1)
  /\ tx' = [tx EXCEPT ![s].st = "open"]
  /\ sendMap' = sendMap \cup {s}
  /\ UNCHANGED <<connS, strS, holding, stopped, queue, resets, sentOff, wired>>

QueueLen == SumFunction([s \in Streams |-> Len(queue[s])])

\* write_buf, first await: a slot of the outbound queue.
ReserveSlot(s) ==
  /\ Writable(s) /\ s \notin holding /\ tx[s].offset < MaxBytes
  /\ QueueLen + Cardinality(holding) < QueueCap
  /\ holding' = holding \cup {s}
  /\ UNCHANGED <<openC, connS, strS, tx, stopped, queue, resets, sendMap,
                 sentOff, wired>>

\* claim_credit: the bytes both credits allow, none while either is spent.
ClaimCredit(s, desired) == Claimable(connS, Claimable(strS[s], desired))

\* write_buf, second await and commit: the slot stays taken while the write
\* waits for credit.
CommitWrite(s) ==
  LET left == MaxBytes - tx[s].offset
      n    == ClaimCredit(s, IF left < Chunk THEN left ELSE Chunk)
  IN  /\ s \in holding /\ n > 0
      /\ strS' = [strS EXCEPT ![s] = Claim(@, n)]
      /\ connS' = Claim(connS, n)
      /\ queue' = [queue EXCEPT ![s] =
                     Append(@, StreamFrame(s, tx[s].offset, n, FALSE))]
      /\ tx' = [tx EXCEPT ![s].offset = @ + n]
      /\ holding' = holding \ {s}
      /\ UNCHANGED <<openC, stopped, resets, sendMap, sentOff, wired>>

\* Mutant: the bytes were taken from the caller before the await.
CancelWriteStrands(s) ==
  /\ "cancel" \in Calls /\ s \in holding
  /\ holding' = holding \ {s}
  /\ tx' = [tx EXCEPT ![s].offset = @ + 1]
  /\ UNCHANGED <<openC, connS, strS, stopped, queue, resets, sendMap, sentOff,
                 wired>>

\* The write future is dropped while it waits for credit.
CancelWrite(s) ==
  /\ "cancel" \in Calls /\ s \in holding
  /\ holding' = holding \ {s}
  /\ UNCHANGED <<openC, connS, strS, tx, stopped, queue, resets, sendMap,
                 sentOff, wired>>

\* Mutant: the connection credit of the dropped frames is not returned.
AbandonKeepsConn(s, why) ==
  /\ queue' = [queue EXCEPT ![s] = <<>>]
  /\ strS' = [strS EXCEPT ![s] = Release(@, Bytes(queue[s]))]
  /\ UNCHANGED connS
  /\ resets' = Append(resets, s)
  /\ tx' = [tx EXCEPT ![s].closed = why]

\* Mutant: everything written is returned, not only what was still queued.
AbandonReturnsAll(s, why) ==
  /\ queue' = [queue EXCEPT ![s] = <<>>]
  /\ strS' = [strS EXCEPT ![s] = Release(@, tx[s].offset)]
  /\ connS' = Release(connS, Bytes(queue[s]))
  /\ resets' = Append(resets, s)
  /\ tx' = [tx EXCEPT ![s].closed = why]

\* What reset() and recv_stop() share: drop what is queued, return its credit,
\* enqueue RESET_STREAM.
Abandon(s, why) ==
  LET dropped == Bytes(queue[s])
  IN  /\ queue' = [queue EXCEPT ![s] = <<>>]
      /\ strS' = [strS EXCEPT ![s] = Release(@, dropped)]
      /\ connS' = Release(connS, dropped)
      /\ resets' = Append(resets, s)
      /\ tx' = [tx EXCEPT ![s].closed = why]

\* reset(), and the drop of a SendStream that is neither finished nor closed.
Reset(s) ==
  /\ "reset" \in Calls /\ Writable(s) /\ s \notin holding
  /\ Abandon(s, "reset")
  /\ UNCHANGED <<openC, holding, stopped, sendMap, sentOff, wired>>

\* A STOP_SENDING reaches the owner, in a write or in closed().  A finished
\* stream only remembers it.
SeeStop(s) ==
  /\ s \in stopped /\ tx[s].closed = "no"
  /\ IF tx[s].fin
     THEN tx' = [tx EXCEPT ![s].closed = "stop"]
          /\ UNCHANGED <<queue, strS, connS, resets>>
     ELSE Abandon(s, "stop")
  /\ holding' = holding \ {s}
  /\ stopped' = stopped \ {s}
  /\ UNCHANGED <<openC, sendMap, sentOff, wired>>

\* finish(): a FIN past the capacity bound.  It refuses a closed stream, not a
\* finished one.  The application calls it after its last byte, or before.
Finish(s) ==
  /\ tx[s].st = "open" /\ tx[s].closed = "no" /\ s \notin holding
  /\ ~tx[s].fin \/ ("refinish" \in Calls /\ tx[s].fins < 2)
  /\ tx[s].offset = MaxBytes \/ "short" \in Calls
  /\ queue' = [queue EXCEPT ![s] =
                 Append(@, StreamFrame(s, tx[s].offset, 0, TRUE))]
  /\ tx' = [tx EXCEPT ![s].fin = TRUE, ![s].fins = @ + 1]
  /\ UNCHANGED <<openC, connS, strS, holding, stopped, resets, sendMap,
                 sentOff, wired>>

----------------------------------------------------------------------------
(* The sender's writer.  It polls the control lane first, but a frame that  *)
(* arrives there after the poll does not hold back the data frame popped.   *)

\* Mutant: the final size stays what reset() put in, the bytes written.
TransmitResetAsWritten ==
  /\ resets # <<>>
  /\ LET s == Head(resets)
     IN  /\ wireAB' = Append(wireAB, ResetFrame(s, tx[s].offset))
         /\ sendMap' = sendMap \ {s}
  /\ resets' = Tail(resets)
  /\ UNCHANGED <<openC, connS, strS, tx, holding, stopped, queue, sentOff,
                 wired>>

TransmitReset ==
  /\ resets # <<>>
  /\ LET s == Head(resets)
     IN  /\ wireAB' = Append(wireAB, ResetFrame(s,
                IF s \in sendMap THEN sentOff[s] ELSE tx[s].offset))
         /\ sendMap' = sendMap \ {s}
  /\ resets' = Tail(resets)
  /\ UNCHANGED <<openC, connS, strS, tx, holding, stopped, queue, sentOff,
                 wired>>

TransmitStream(s) ==
  /\ queue[s] # <<>>
  /\ LET f == Head(queue[s])
     IN  /\ wireAB' = Append(wireAB, f)
         /\ queue' = [queue EXCEPT ![s] = Tail(@)]
         /\ sendMap' = IF f.fin THEN sendMap \ {s} ELSE sendMap
         /\ sentOff' = [sentOff EXCEPT
                          ![s] = IF s \in sendMap THEN @ + f.len ELSE @]
         /\ wired' = [wired EXCEPT ![s] = @ + f.len]
  /\ UNCHANGED <<openC, connS, strS, tx, holding, stopped, resets>>

----------------------------------------------------------------------------
(* The sender's reader: the frames a receiver sends back.                   *)

RecvMax(c, m) ==
  IF MayIncrease(c, m) THEN IncreaseMax(c, m) ELSE c

RecvControl ==
  /\ wireBA # <<>>
  /\ wireBA' = Tail(wireBA)
  /\ LET f == Head(wireBA)
     IN  \/ /\ f.type = "max_data"
            /\ connS' = RecvMax(connS, f.max)
            /\ fault' = IF MayIncrease(connS, f.max) THEN fault ELSE "regress"
            /\ UNCHANGED <<strS, openC, stopped>>
         \/ /\ f.type = "max_stream_data"
            /\ IF f.id \in sendMap
               THEN /\ strS' = [strS EXCEPT ![f.id] = RecvMax(@, f.max)]
                    /\ fault' = IF MayIncrease(strS[f.id], f.max)
                                THEN fault ELSE "regress"
               ELSE UNCHANGED <<strS, fault>>
            /\ UNCHANGED <<connS, openC, stopped>>
         \/ /\ f.type = "max_streams"
            /\ openC' = RecvMax(openC, f.max)
            /\ fault' = IF MayIncrease(openC, f.max) THEN fault ELSE "regress"
            /\ UNCHANGED <<connS, strS, stopped>>
         \/ /\ f.type = "stop"
            /\ stopped' = IF f.id \in sendMap THEN stopped \cup {f.id}
                                              ELSE stopped
            /\ UNCHANGED <<connS, strS, openC, fault>>
  /\ UNCHANGED <<tx, holding, queue, resets, sendMap, sentOff, wired>>

----------------------------------------------------------------------------
(* RecvOpen                                                                 *)

IsClosed(index) == index <= created /\ index \notin holes

\* Mutant: skipped indices are not remembered.
RecordNoHoles(index) ==
  /\ created' = IF index > created THEN index ELSE created
  /\ UNCHANGED holes

Record(index) ==
  IF index <= created
  THEN holes' = holes \ {index} /\ UNCHANGED created
  ELSE /\ holes' = holes \cup (created + 1 .. index - 1)
       /\ created' = index

----------------------------------------------------------------------------
(* The receiver's reader: recv_frame, cut where it releases the locks.      *)

\* Deliver to a RecvStream; the send fails silently once it was dropped.
Deliver(f, frame) ==
  IF rx[f].st = "dropped" THEN rx
  ELSE [rx EXCEPT ![f].data = Append(@, frame)]

Fail(kind) ==
  /\ fault' = kind /\ reader' = Idle
  /\ UNCHANGED <<recvMap, recvOff, created, holes, acceptQ, fronts, ignored,
                 creditVars, rx, control>>

\* STREAM, up to the connection credit: a late frame on a retired stream of the
\* peer is ignored before it is accounted.
RecvStream ==
  /\ reader.pc = "idle" /\ wireAB # <<>> /\ Head(wireAB).type = "stream"
  /\ wireAB' = Tail(wireAB)
  /\ arrived' = [arrived EXCEPT ![Head(wireAB).id] = @ + Head(wireAB).len]
  /\ LET frame == Head(wireAB)
         s     == frame.id
     IN  IF s \in Uni /\ recvMap[s] = 0 /\ IsClosed(s)
         THEN /\ ignored' = ignored + frame.len
              /\ UNCHANGED <<reader, connR, fault, recvMap, recvOff, created,
                             holes, acceptQ, fronts, limR, strR, rx, control>>
         ELSE IF ~MayReceive(connR, frame.len)
         THEN Fail("flow")
         ELSE /\ connR' = Receive(connR, frame.len)
              /\ reader' = [Idle EXCEPT !.pc = "stream", !.frame = frame]
              /\ UNCHANGED <<fault, recvMap, recvOff, created, holes, acceptQ,
                             fronts, ignored, limR, strR, rx, control>>

\* STREAM, second look at the map: a live stream gets the frame; a retired
\* stream of our own drops it; anything else is a new stream of the peer.
RouteStream ==
  /\ reader.pc = "stream"
  /\ LET frame == reader.frame
         s     == frame.id
         f     == <<s, recvMap[s]>>
         new   == <<s, fronts[s] + 1>>
     IN  IF recvMap[s] # 0
         THEN IF ~MayReceive(strR[f], frame.len)
              THEN Fail("flow")
              ELSE /\ strR' = [strR EXCEPT ![f] = Receive(@, frame.len)]
                   /\ recvOff' = [recvOff EXCEPT ![s] = @ + frame.len]
                   /\ rx' = IF frame.len = 0 /\ ~frame.fin
                            THEN rx ELSE Deliver(f, frame)
                   /\ recvMap' = IF frame.fin
                                 THEN [recvMap EXCEPT ![s] = 0] ELSE recvMap
                   /\ reader' = Idle
                   /\ UNCHANGED <<fault, created, holes, acceptQ, fronts,
                                  ignored, connR, limR, control>>
         ELSE IF s \in Own
         THEN /\ reader' = Idle
              /\ UNCHANGED <<fault, recvMap, recvOff, created, holes, acceptQ,
                             fronts, ignored, creditVars, rx, control>>
         ELSE IF ~MayReceiveUpTo(limR, s + 1)
         THEN Fail("limit")
         ELSE IF frame.len > StreamWindow
         THEN Fail("flow")
         ELSE /\ fronts[s] < MaxFronts
              /\ limR' = ReceiveUpTo(limR, s + 1)
              /\ Record(s)
              /\ fronts' = [fronts EXCEPT ![s] = @ + 1]
              /\ strR' = [strR EXCEPT ![new] =
                            Receive(NewCredit(StreamWindow), frame.len)]
              /\ reader' = [reader EXCEPT !.pc = "accept"]
              /\ UNCHANGED <<fault, recvMap, recvOff, acceptQ, ignored, connR,
                             rx, control>>
  /\ UNCHANGED <<wireAB, arrived>>

\* accept_uni.send(..).await: waits for room in the bounded channel.
OfferStream ==
  /\ reader.pc = "accept" /\ Len(acceptQ) < AcceptCap
  /\ LET s == reader.frame.id
         f == <<s, fronts[s]>>
     IN  /\ acceptQ' = Append(acceptQ, f)
         /\ rx' = [rx EXCEPT ![f].st = "queued"]
  /\ reader' = [reader EXCEPT !.pc = "insert"]
  /\ UNCHANGED <<fault, recvMap, recvOff, created, holes, fronts, ignored,
                 creditVars, control, wireAB, arrived>>

\* Only now is the first frame delivered and the stream put in the map.
InsertStream ==
  /\ reader.pc = "insert"
  /\ LET frame == reader.frame
         s     == frame.id
         f     == <<s, fronts[s]>>
     IN  /\ rx' = IF frame.len = 0 /\ ~frame.fin THEN rx ELSE Deliver(f, frame)
         /\ IF frame.fin
            THEN UNCHANGED <<recvMap, recvOff>>
            ELSE /\ recvMap' = [recvMap EXCEPT ![s] = fronts[s]]
                 /\ recvOff' = [recvOff EXCEPT ![s] = frame.len]
  /\ reader' = Idle
  /\ UNCHANGED <<fault, created, holes, acceptQ, fronts, ignored, creditVars,
                 control, wireAB, arrived>>

\* RESET_STREAM, first look at the map.
RecvReset ==
  /\ reader.pc = "idle" /\ wireAB # <<>> /\ Head(wireAB).type = "reset"
  /\ wireAB' = Tail(wireAB) /\ UNCHANGED arrived
  /\ LET frame == Head(wireAB)
         s     == frame.id
         live  == recvMap[s] # 0
     IN  IF ~live /\ (s \in Own \/ IsClosed(s))
         THEN UNCHANGED <<reader, limR, fault, recvMap, recvOff, created,
                          holes, acceptQ, fronts, ignored, connR, strR, rx,
                          control>>
         ELSE IF ~live /\ ~MayReceiveUpTo(limR, s + 1)
         THEN Fail("limit")
         ELSE /\ limR' = IF live THEN limR ELSE ReceiveUpTo(limR, s + 1)
              /\ reader' = [Idle EXCEPT !.pc = "reset", !.frame = frame,
                                        !.live = live]
              /\ UNCHANGED <<fault, recvMap, recvOff, created, holes, acceptQ,
                             fronts, ignored, connR, strR, rx, control>>

\* RESET_STREAM, accounting of the bytes that will never arrive.  A stream seen
\* live above is expected to be in the map still.
AccountReset ==
  /\ reader.pc = "reset"
  /\ LET s        == reader.frame.id
         f        == <<s, recvMap[s]>>
         received == IF recvMap[s] # 0 THEN recvOff[s] ELSE 0
         final    == IF reader.frame.final > received
                     THEN reader.frame.final ELSE received
         gap      == final - received
     IN  IF reader.live /\ recvMap[s] = 0
         THEN Fail("panic")
         ELSE IF \/ IF reader.live THEN ~MayReceive(strR[f], gap)
                                   ELSE final > StreamWindow
                 \/ ~MayReceive(connR, gap)
         THEN Fail("flow")
         ELSE LET c == Receive(connR, gap)
              IN  /\ connR' = Consume(c, gap)
                  /\ reader' = [reader EXCEPT !.max = connR'.max,
                       !.pc = IF Grants(c, gap) THEN "grant" ELSE "retire"]
                  /\ strR' = IF reader.live
                             THEN [strR EXCEPT ![f] = Receive(@, gap)]
                             ELSE strR
                  /\ recvOff' = IF reader.live
                                THEN [recvOff EXCEPT ![s] = final]
                                ELSE recvOff
                  /\ UNCHANGED <<fault, recvMap, created, holes, acceptQ,
                                 fronts, ignored, limR, rx, control>>
  /\ UNCHANGED <<wireAB, arrived>>

\* The reader enqueues a window update it computed.
ReaderGrant ==
  /\ reader.pc \in {"grant", "limit"}
  /\ control' = Append(control, IF reader.pc = "grant"
                                THEN MaxData(reader.max)
                                ELSE MaxStreams(reader.max))
  /\ reader' = IF reader.pc = "grant" THEN [reader EXCEPT !.pc = "retire"]
                                      ELSE Idle
  /\ UNCHANGED <<fault, recvMap, recvOff, created, holes, acceptQ, fronts,
                 ignored, creditVars, rx, wireAB, arrived>>

\* RESET_STREAM, delivery.  Without a RecvStream to do it on its drop, the
\* reader returns the stream credit itself.
RetireReset ==
  /\ reader.pc = "retire"
  /\ LET s == reader.frame.id
         f == <<s, recvMap[s]>>
     IN  IF recvMap[s] # 0
         THEN /\ rx' = IF rx[f].st = "dropped" THEN rx
                       ELSE [rx EXCEPT ![f].reset = TRUE]
              /\ recvMap' = [recvMap EXCEPT ![s] = 0]
              /\ reader' = Idle
              /\ UNCHANGED <<created, holes, limR>>
         ELSE IF s \in Own
         THEN reader' = Idle /\ UNCHANGED <<rx, recvMap, created, holes, limR>>
         ELSE /\ Record(s)
              /\ limR' = Consume(limR, 1)
              /\ reader' = IF Grants(limR, 1)
                           THEN [reader EXCEPT !.pc = "limit",
                                               !.max = limR'.max]
                           ELSE Idle
              /\ UNCHANGED <<rx, recvMap>>
  /\ UNCHANGED <<fault, recvOff, acceptQ, fronts, ignored, connR, strR,
                 control, wireAB, arrived>>

----------------------------------------------------------------------------
(* The receiving application                                                *)

Held(f) == rx[f].st = "held" /\ pending[f] = NoFrame

AcceptUni ==
  /\ acceptQ # <<>>
  /\ rx' = [rx EXCEPT ![Head(acceptQ)].st = "held"]
  /\ acceptQ' = Tail(acceptQ)
  /\ UNCHANGED <<recvMap, recvOff, created, holes, reader, fronts, arrived,
                 ignored, creditVars, pending, got, hole, control>>

\* report_consumed: the stream's update is enqueued by its only consumer; the
\* connection's is computed here and enqueued by a later step of this task.
ReportConsumed(f, n) ==
  /\ strR' = [strR EXCEPT ![f] = Consume(@, n)]
  /\ control' = IF Grants(strR[f], n)
                THEN Append(control, MaxStreamData(f[1], strR'[f].max))
                ELSE control
  /\ connR' = Consume(connR, n)
  /\ pending' = [pending EXCEPT ![f] =
                   IF Grants(connR, n) THEN MaxData(connR'.max) ELSE NoFrame]

\* read_chunk(max): serve the buffer, refilled from the channel when empty.
Read(f, max) ==
  /\ Held(f) /\ f[1] \in Readable
  /\ \/ rx[f].buf.len > 0
     \/ ~rx[f].fin /\ rx[f].closed = "no" /\ rx[f].data # <<>>
  /\ LET refill == rx[f].buf.len = 0
         b   == IF refill THEN Head(rx[f].data) ELSE rx[f].buf
         n   == IF max < b.len THEN max ELSE b.len
     IN  /\ rx' = [rx EXCEPT ![f].buf = [off |-> b.off + n, len |-> b.len - n],
                             ![f].data = IF refill THEN Tail(@) ELSE @,
                             ![f].fin = IF refill THEN b.fin ELSE @]
         /\ hole' = IF b.off # got[f] THEN hole \cup {f} ELSE hole
         /\ got' = [got EXCEPT ![f] = @ + n]
         /\ IF n > 0 THEN ReportConsumed(f, n)
                     ELSE UNCHANGED <<strR, control, connR, pending>>
  /\ UNCHANGED <<readerVars, limR>>

\* read_chunk, which serves its buffer first, or closed(), which does not, takes
\* the RESET_STREAM; what is in the channel is lost.
ReadReset(f) ==
  /\ Held(f) /\ f[1] \in Readable
  /\ rx[f].reset /\ ~rx[f].fin /\ rx[f].closed = "no"
  /\ rx[f].buf.len = 0 \/ "closed" \in Calls
  /\ rx' = [rx EXCEPT ![f].closed = "reset", ![f].reset = FALSE]
  /\ UNCHANGED <<readerVars, creditVars, pending, got, hole, control>>

\* closed() waits for the end of the stream, and keeps only the last frame it
\* takes from the channel.
AwaitClosed(f) ==
  /\ "closed" \in Calls /\ Held(f)
  /\ ~rx[f].fin /\ rx[f].closed = "no" /\ rx[f].data # <<>>
  /\ LET b == Head(rx[f].data)
     IN  rx' = [rx EXCEPT ![f].buf = [off |-> b.off, len |-> b.len],
                          ![f].data = Tail(@), ![f].fin = b.fin]
  /\ UNCHANGED <<readerVars, creditVars, pending, got, hole, control>>

\* stop(), also after the end of the stream; at most once for a RecvStream.
Stop(f) ==
  /\ "stop" \in Calls /\ Held(f) /\ rx[f].closed # "stop"
  /\ control' = Append(control, StopFrame(f[1]))
  /\ rx' = [rx EXCEPT ![f].closed = "stop"]
  /\ UNCHANGED <<readerVars, creditVars, pending, got, hole>>

\* Drop of a RecvStream: STOP_SENDING unless it ended, then the stream credit.
DropRecv(f) ==
  /\ Held(f)
  /\ "stop" \in Calls \/ rx[f].fin \/ rx[f].closed # "no"
  /\ rx[f].buf.len = 0 \/ "stop" \in Calls \/ "closed" \in Calls
  /\ LET ended == rx[f].fin \/ rx[f].closed # "no"
     IN  /\ control' = IF ended THEN control
                       ELSE Append(control, StopFrame(f[1]))
         /\ rx' = [rx EXCEPT ![f].st = "dropped", ![f].data = <<>>,
                             ![f].buf = [off |-> 0, len |-> 0],
                             ![f].closed = IF ended THEN @ ELSE "stop"]
  /\ IF f[1] \in Uni
     THEN /\ limR' = Consume(limR, 1)
          /\ pending' = [pending EXCEPT ![f] =
               IF Grants(limR, 1) THEN MaxStreams(limR'.max) ELSE NoFrame]
     ELSE UNCHANGED <<limR, pending>>
  /\ UNCHANGED <<readerVars, connR, strR, got, hole>>

\* The frame computed above is enqueued.
SendPending(f) ==
  /\ pending[f] # NoFrame
  /\ control' = Append(control, pending[f])
  /\ pending' = [pending EXCEPT ![f] = NoFrame]
  /\ UNCHANGED <<readerVars, creditVars, rx, got, hole>>

\* The receiver's writer: STOP_SENDING retires the stream as it is sent.
TransmitControl ==
  /\ control # <<>>
  /\ wireBA' = Append(wireBA, Head(control))
  /\ control' = Tail(control)
  /\ recvMap' = IF Head(control).type = "stop"
                THEN [recvMap EXCEPT ![Head(control).id] = 0] ELSE recvMap
  /\ UNCHANGED <<recvOff, created, holes, reader, acceptQ, fronts, arrived,
                 ignored, creditVars, appVars>>

----------------------------------------------------------------------------
Init ==
  /\ openC = NewCredit(StreamLimit) /\ limR = NewCredit(StreamLimit)
  /\ connS = NewCredit(ConnWindow) /\ connR = NewCredit(ConnWindow)
  /\ strS = [s \in Streams |-> NewCredit(StreamWindow)]
  /\ strR = [f \in Fronts |-> NewCredit(StreamWindow)]
  /\ tx = [s \in Streams |->
             [st |-> IF s \in Own THEN "open" ELSE "none", offset |-> 0,
              fin |-> FALSE, fins |-> 0, closed |-> "no"]]
  /\ holding = {} /\ stopped = {} /\ sendMap = Own
  /\ queue = [s \in Streams |-> <<>>] /\ resets = <<>>
  /\ sentOff = [s \in Streams |-> 0] /\ wired = sentOff /\ arrived = sentOff
  /\ wireAB = <<>> /\ wireBA = <<>> /\ control = <<>>
  /\ fronts = [s \in Streams |-> IF s \in Own THEN 1 ELSE 0]
  /\ recvMap = fronts /\ recvOff = [s \in Streams |-> 0]
  /\ created = -1 /\ holes = {} /\ reader = Idle /\ acceptQ = <<>>
  /\ rx = [f \in Fronts |->
             [st |-> IF f[1] \in Own /\ f[2] = 1 THEN "held" ELSE "none",
              data |-> <<>>, reset |-> FALSE, buf |-> [off |-> 0, len |-> 0],
              fin |-> FALSE, closed |-> "no"]]
  /\ pending = [f \in Fronts |-> NoFrame]
  /\ fault = "none" /\ ignored = 0
  /\ got = [f \in Fronts |-> 0] /\ hole = {}

\* No error has ended the session.
Running == fault = "none"

SenderApp(s) ==
  /\ Running
  /\ \/ OpenUni(s) \/ ReserveSlot(s) \/ CommitWrite(s) \/ CancelWrite(s)
     \/ Reset(s) \/ SeeStop(s) \/ Finish(s)
  /\ UNCHANGED <<readerVars, creditVars, appVars, wireAB, wireBA, control,
                 fault>>

SenderWriter ==
  /\ Running
  /\ TransmitReset \/ \E s \in Streams : TransmitStream(s)
  /\ UNCHANGED <<readerVars, creditVars, appVars, wireBA, control, fault>>

SenderReader ==
  /\ Running
  /\ RecvControl
  /\ UNCHANGED <<readerVars, creditVars, appVars, wireAB, control>>

ReceiverReader ==
  /\ Running
  /\ \/ RecvStream \/ RouteStream \/ OfferStream \/ InsertStream
     \/ RecvReset \/ AccountReset \/ ReaderGrant \/ RetireReset
  /\ UNCHANGED <<senderVars, pending, got, hole, wireBA>>

Accept == Running /\ AcceptUni /\ UNCHANGED <<senderVars, wireAB, wireBA, fault>>

ReceiverApp(f) ==
  /\ Running
  /\ \/ \E n \in 1 .. Chunk : Read(f, n)
     \/ ReadReset(f) \/ AwaitClosed(f) \/ Stop(f) \/ DropRecv(f)
     \/ SendPending(f)
  /\ UNCHANGED <<senderVars, wireAB, wireBA, fault>>

ReceiverWriter ==
  Running /\ TransmitControl /\ UNCHANGED <<senderVars, wireAB, fault>>

Next ==
  \/ \E s \in Streams : SenderApp(s)
  \/ SenderWriter \/ SenderReader
  \/ ReceiverReader \/ Accept \/ ReceiverWriter
  \/ \E f \in Fronts : ReceiverApp(f)

Spec == Init /\ [][Next]_vars

\* The executor polls every runnable task, so each reader and writer makes
\* progress.  The applications are patient and well behaved: the sender opens
\* every stream, writes MaxBytes and finishes it, the receiver accepts streams,
\* reads the readable ones to their end and drops them.
FairSpec ==
  /\ Spec
  /\ WF_vars(SenderWriter) /\ WF_vars(SenderReader)
  /\ WF_vars(ReceiverReader) /\ WF_vars(Accept) /\ WF_vars(ReceiverWriter)
  /\ \A s \in Streams : WF_vars(SenderApp(s))
  /\ \A f \in Fronts : WF_vars(ReceiverApp(f))

----------------------------------------------------------------------------
(* Properties                                                               *)

\* Every variable has its type.
TypeOK ==
  /\ {openC, connS, connR, limR} \subseteq CreditState
  /\ strS \in [Streams -> CreditState] /\ strR \in [Fronts -> CreditState]
  /\ tx \in [Streams -> [st : {"none", "open"}, offset : 0 .. MaxBytes,
                         fin : BOOLEAN, fins : Nat,
                         closed : {"no", "reset", "stop"}]]
  /\ holding \in SUBSET Streams /\ stopped \in SUBSET Streams
  /\ sendMap \in SUBSET Streams /\ sentOff \in [Streams -> Nat]
  /\ recvMap \in [Streams -> 0 .. MaxFronts]
  /\ fronts \in [Streams -> 0 .. MaxFronts]
  /\ created \in -1 .. NumUni - 1 /\ holes \in SUBSET Uni
  /\ fault \in {"none", "flow", "limit", "regress", "panic"}
  /\ got \in [Fronts -> Nat] /\ hole \in SUBSET Fronts

\* session.rs: a later frame on a retired stream reads as closed rather than
\* resurrecting a new stream.
NoResurrection == \A s \in Uni : fronts[s] <= 1

\* Two honest endpoints never trip each other's limits: no FlowControlError for
\* data, no StreamLimitExceeded, whatever is cancelled, reset, stopped or
\* dropped and however window updates are delayed (and unless a stream was
\* resurrected, which starts a second count of its bytes).
SenderWithinWindow == NoResurrection => fault \notin {"flow", "limit"}

\* Payload bytes of a frame on the transport.
Payload(f) == IF f.type = "stream" THEN f.len ELSE 0

WireBytes == SumFunction([i \in DOMAIN wireAB |-> Payload(wireAB[i])])
QueuedBytes == SumFunction([s \in Streams |-> Bytes(queue[s])])

\* Every byte of connection credit the sender has spent is accounted for: it is
\* queued, on the transport, counted by the receiver, or part of a late frame
\* the receiver ignored.  Nothing is spent twice or returned twice.
ConnAccounting ==
  NoResurrection => connS.used = QueuedBytes + WireBytes + connR.used + ignored

\* Bytes of the frame the reader has taken from the transport, at one of pcs.
InReader(pcs) == IF reader.pc \in pcs THEN reader.frame.len ELSE 0
Buffered(f) == rx[f].buf.len + Bytes(rx[f].data)

ConnWin == INSTANCE CreditWindow WITH
  Window <- ConnWindow, MaxSpend <- MaxBytes * (NumUni + NumOwn),
  snd <- connS, rcv <- connR, queued <- QueuedBytes, wire <- WireBytes,
  lost <- ignored,
  held <- InReader({"stream", "accept", "insert"})
            + SumFunction([f \in Fronts |-> Buffered(f)]),
  verdict <- IF fault = "flow" THEN "refused" ELSE "ok"

\* The connection credits of the two endpoints implement one CreditWindow:
\* every claim, reset, late frame, read and window update is one of its steps
\* or none, so the window theorems hold of the connection.
ConnImplementsWindow == ConnWin!WindowSpec

OnWire(s) ==
  SumFunction([i \in DOMAIN wireAB |->
                 IF wireAB[i].id = s THEN Payload(wireAB[i]) ELSE 0])
    + (IF reader.frame # NoFrame /\ reader.frame.id = s
       THEN InReader({"stream"}) ELSE 0)

StreamWin(s) == INSTANCE CreditWindow WITH
  Window <- StreamWindow, MaxSpend <- MaxBytes,
  snd <- strS[s], rcv <- strR[<<s, 1>>], queued <- Bytes(queue[s]),
  wire <- OnWire(s), lost <- wired[s] - OnWire(s) - strR[<<s, 1>>].used,
  held <- Buffered(<<s, 1>>)
            + (IF reader.frame # NoFrame /\ reader.frame.id = s
               THEN InReader({"accept", "insert"}) ELSE 0),
  verdict <- IF fault = "flow" THEN "refused" ELSE "ok"

\* So do the two credits of every stream.
StreamsImplementWindow ==
  /\ \A s \in Streams : StreamWin(s)!WindowInit
  /\ [][\A s \in Streams : [StreamWin(s)!WindowNext]_(StreamWin(s)!windowVars)]_vars

\* A stream's credit covers exactly the bytes queued and transmitted: a write
\* cancelled while it waits strands nothing, a reset returns exactly what it
\* dropped.
StreamAccounting ==
  \A s \in Streams : strS[s].used = wired[s] + Bytes(queue[s])

\* The books of the two endpoints agree: neither end trips a limit of the other,
\* and the credit of the connection and of each stream is what is queued, on
\* its way or received.
Accounts == TypeOK /\ SenderWithinWindow /\ ConnAccounting /\ StreamAccounting

\* A RESET_STREAM says how many bytes of the stream are on the transport, not
\* how many were written.
FinalSizeExact ==
  \A i \in DOMAIN wireAB :
    wireAB[i].type = "reset" => wireAB[i].final = wired[wireAB[i].id]

\* Nothing of a stream follows its RESET_STREAM, and neither data nor a
\* RESET_STREAM follows its FIN.
NothingTrailsTheEnd ==
  \A i, j \in DOMAIN wireAB :
    (i < j /\ wireAB[i].id = wireAB[j].id) =>
      /\ wireAB[i].type # "reset"
      /\ wireAB[i].fin => wireAB[j].type = "stream" /\ wireAB[j].fin

\* The bytes a RecvStream hands out are consecutive from the first, and its FIN
\* comes after the last, although the receiver appends by arrival and never
\* looks at an offset.  (closed() throws unread bytes away; a resurrected stream
\* starts in the middle.)
DeliveredInOrder == NoResurrection /\ "closed" \notin Calls => hole = {}

\* A stream that ended by FIN or RESET_STREAM is never opened a second time by
\* a late or repeated frame.
EndedStaysEnded ==
  \A s \in Uni : fronts[s] > 1 => rx[<<s, 1>>].closed = "stop"

\* A stream ends once and where it says: a reset names the bytes sent, nothing
\* follows the end on the transport, and no late frame opens the stream again.
EndIsExact == FinalSizeExact /\ NothingTrailsTheEnd /\ EndedStaysEnded

\* A stream that was merely skipped by a higher index is not taken for a closed
\* one: its first frame still opens it.
SkippedStillOpens ==
  \A s \in Uni : IsClosed(s) => fronts[s] > 0 \/ tx[s].closed # "no"

\* The streams the receiver is done with: never to be delivered to again and
\* with no RecvStream left.
Finished == {s \in Uni : /\ IsClosed(s)
                         /\ \A k \in 1 .. fronts[s] : rx[<<s, k>>].st = "dropped"}

\* config.rs: max_streams_uni bounds the unidirectional streams the peer has
\* open at one time, so the limit advertised is ahead of the streams the
\* receiver is done with by at most that.  (A STOP_SENDING that retires a stream
\* under a RESET_STREAM in progress makes the reader count it, and the drop of
\* its RecvStream count it again.)
ConcurrencyLimit ==
  "stop" \notin Calls => limR.max <= StreamLimit + Cardinality(Finished)

\* An index is open, closed or still to come, and each closed one is replaced by
\* one new stream at most.
IndicesExact == SkippedStillOpens /\ ConcurrencyLimit

\* QMux has the semantics of QUIC frames, where a window update that arrives
\* out of order is harmless: two endpoints that only read and write never end
\* the session.
\* It does not hold: MAX_DATA is computed in one order and enqueued in another.
WindowUpdatesHarmless == fault # "regress"

\* session.rs expects a stream seen live at the start of the RESET_STREAM
\* handler to be in the map still.
LiveStreamStaysLive == fault # "panic"

\* The RecvStream of s was read to the end of what was written.
ReadToEnd(s) ==
  /\ tx[s].fin
  /\ \E k \in 1 .. MaxFronts : rx[<<s, k>>].fin /\ got[<<s, k>>] = tx[s].offset

\* Bytes that arrived and that the reader lost when it took the RESET_STREAM
\* behind them: their connection credit never comes back.
LostToResets ==
  MapThenSumSet(LAMBDA f : IF rx[f].closed = "reset"
                           THEN arrived[f[1]] - got[f] ELSE 0, Fronts)

\* Every stream is eventually opened, written, finished and read to its end,
\* unless it is reset: no window update, stream limit, queue slot or accept slot
\* is waited for in vain.  What the resets lost is missing from the connection
\* window, so that the claim ends when they took all of it; as long as a byte is
\* left, it is read and granted again.  The session may also die first of a
\* reordered window update, see WindowUpdatesHarmless.
AllRead ==
  <>(\/ fault = "regress"
     \/ \A s \in Streams : \/ ReadToEnd(s) \/ tx[s].closed = "reset"
                           \/ LostToResets >= ConnWindow)
=============================================================================
