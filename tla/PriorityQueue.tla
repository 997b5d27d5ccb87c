--------------------------- MODULE PriorityQueue ---------------------------
(***************************************************************************)
(* The outbound STREAM queue of a QMux session (rs/qmux/src/sched.rs).     *)
(*                                                                         *)
(* Every SendStream is a producer and the session's writer loop the only   *)
(* consumer.  The fields of Inner sit behind one mutex, so each critical   *)
(* section is one action; what happens between two critical sections (the  *)
(* await on a Notify, a notification sent after the unlock, a future that  *)
(* is dropped while it waits) is a step of its own.                        *)
(*                                                                         *)
(* A stream is driven by its owner: the calls that take &mut self on a     *)
(* SendStream (write, finish, reset, set_priority) never overlap for one   *)
(* stream, and a pending write is cancelled before the owner does anything *)
(* else.  A frame is its number within the stream and the FIN flag.        *)
(***************************************************************************)
EXTENDS Integers, Sequences, SequencesExt, FiniteSets, FiniteSetsExt

CONSTANTS
  Streams,      \* the stream ids that have a SendStream
  Priorities,   \* the u8 priorities in use; a larger one is sent first
  Capacity,     \* PriorityQueue::new(capacity)
  MaxFrames     \* bound on the frames one stream enqueues

ASSUME StreamsAreFinite == IsFiniteSet(Streams)
ASSUME PrioritiesAreBytes == Priorities \subseteq 0 .. 255
ASSUME CapacityIsPositive == Capacity \in Nat \ {0}
ASSUME MaxFramesIsNatural == MaxFrames \in Nat

VARIABLES
  keys,         \* the keys present in Inner.bands
  bands,        \* Inner.bands: the scheduled stream ids of each priority
  slots,        \* the stream ids present in Inner.streams
  slotPriority, \* StreamSlot.priority, meaningful for the ids in slots
  frames,       \* StreamSlot.frames
  len,          \* Inner.len
  closed,       \* Inner.closed
  closer,       \* progress of close(): "open", "closing", "done"
  pc,           \* where each producer is in reserve()/send()
  owed,         \* has_space notifications a producer has still to send
  spaceWaiters, \* tasks parked on has_space, in the order they will be woken
  spacePermit,  \* the one permit a Notify stores when nobody is parked
  popper,       \* where the consumer is in pop()
  dataPermit,   \* the permit stored in non_empty
  priority,     \* SendStream.priority
  ended,        \* how the SendStream ended: "open", "fin", "reset"
  enqueued,     \* history: frames enqueued per stream
  popped        \* history: number of the last frame popped per stream

inner == <<keys, bands, slots, slotPriority, frames, len, closed>>
space == <<spaceWaiters, spacePermit>>
owner == <<priority, ended, enqueued>>
vars == <<inner, closer, pc, owed, space, popper, dataPermit, owner, popped>>

Frame == [seq : Nat, fin : BOOLEAN]

ProducerState == {"idle", "checked", "waiting", "woken", "retry", "permit"}
ConsumerState == {"run", "checked", "waiting", "woken", "done"}

----------------------------------------------------------------------------
(* The tokio Notify used by the queue: a FIFO of parked tasks, and at most  *)
(* one stored permit.                                                       *)

\* Mutant: the woken task stays in the list of parked tasks.
NotifyStaysParked(p) ==
  /\ pc' = IF spaceWaiters = <<>> THEN p ELSE [p EXCEPT ![Head(spaceWaiters)] = "woken"]
  /\ spacePermit' = (spacePermit \/ spaceWaiters = <<>>)
  /\ UNCHANGED spaceWaiters

\* has_space.notify_one(); p is pc as the caller leaves it.
NotifySpace(p) ==
  IF spaceWaiters = <<>>
  THEN spacePermit' = TRUE /\ pc' = p /\ UNCHANGED spaceWaiters
  ELSE /\ pc' = [p EXCEPT ![Head(spaceWaiters)] = "woken"]
       /\ spaceWaiters' = Tail(spaceWaiters)
       /\ UNCHANGED spacePermit

\* Mutant: only a parked consumer is told, no permit is stored.
NotifyParkedData ==
  /\ popper' = IF popper = "waiting" THEN "woken" ELSE popper
  /\ UNCHANGED dataPermit

\* non_empty.notify_one()
NotifyData ==
  IF popper = "waiting"
  THEN popper' = "woken" /\ UNCHANGED dataPermit
  ELSE dataPermit' = TRUE /\ UNCHANGED popper

----------------------------------------------------------------------------
(* Inner                                                                    *)

\* Mutant: the pointer is pushed to the front of the band.
ArmFront(ks, bs, id, band) ==
  [keys |-> ks \cup {band}, bands |-> [bs EXCEPT ![band] = <<id>> \o @]]

\* arm: push id at the back of its band, creating the band if it is missing.
Arm(ks, bs, id, band) ==
  [keys |-> ks \cup {band}, bands |-> [bs EXCEPT ![band] = Append(@, id)]]

\* queue.iter().position(|&s| s == id)
Position(queue, id) ==
  CHOOSE i \in DOMAIN queue :
    queue[i] = id /\ \A j \in DOMAIN queue : queue[j] = id => i <= j

\* queue.remove(pos) when the position exists
Unlink(queue, id) ==
  IF Contains(queue, id) THEN RemoveAt(queue, Position(queue, id)) ELSE queue

\* The first half of set_priority and remove: take id's pointer out of the
\* band, and the band out of the map once it is empty.
Unschedule(ks, bs, id, band) ==
  LET rest == Unlink(bs[band], id)
  IN  [keys  |-> IF rest = <<>> THEN ks \ {band} ELSE ks,
       bands |-> [bs EXCEPT ![band] = rest]]

Schedule(sch) == keys' = sch.keys /\ bands' = sch.bands

EnqueueLocked(id, frame) ==
  /\ frames' = [frames EXCEPT ![id] = Append(@, frame)]
  /\ slots' = slots \cup {id}
  /\ IF id \in slots
     THEN UNCHANGED <<keys, bands, slotPriority>>
     ELSE /\ slotPriority' = [slotPriority EXCEPT ![id] = priority[id]]
          /\ Schedule(Arm(keys, bands, id, priority[id]))
  /\ NotifyData

----------------------------------------------------------------------------
(* Producers                                                                *)

\* The owner of id is between two calls.
AtRest(id) == pc[id] = "idle" /\ owed[id] = 0

HasSpace == len < Capacity

\* reserve(): create the Notified, then look under the lock.
Reserve(id) ==
  /\ \/ AtRest(id) /\ ended[id] = "open" /\ enqueued[id] < MaxFrames
     \/ pc[id] \in {"retry", "woken"}
  /\ IF closed
     THEN pc' = [pc EXCEPT ![id] = "idle"] /\ UNCHANGED len
     ELSE IF HasSpace
          THEN pc' = [pc EXCEPT ![id] = "permit"] /\ len' = len + 1
          ELSE pc' = [pc EXCEPT ![id] = "checked"] /\ UNCHANGED len
  /\ UNCHANGED <<keys, bands, slots, slotPriority, frames, closed, closer,
                 owed, space, popper, dataPermit, owner, popped>>

\* notified.await is polled: a stored permit is consumed, else the task parks.
AwaitSpace(id) ==
  /\ pc[id] = "checked"
  /\ IF spacePermit
     THEN /\ spacePermit' = FALSE
          /\ pc' = [pc EXCEPT ![id] = "retry"]
          /\ UNCHANGED spaceWaiters
     ELSE /\ spaceWaiters' = Append(spaceWaiters, id)
          /\ pc' = [pc EXCEPT ![id] = "waiting"]
          /\ UNCHANGED spacePermit
  /\ UNCHANGED <<inner, closer, owed, popper, dataPermit, owner, popped>>

\* The write future is dropped while reserve() waits.  A task that was woken
\* but has not run yet hands its notification on.
CancelReserve(id) ==
  /\ \/ /\ pc[id] = "checked"
        /\ pc' = [pc EXCEPT ![id] = "idle"] /\ UNCHANGED space
     \/ /\ pc[id] = "waiting"
        /\ pc' = [pc EXCEPT ![id] = "idle"]
        /\ spaceWaiters' = Unlink(spaceWaiters, id)
        /\ UNCHANGED spacePermit
     \/ /\ pc[id] = "woken"
        /\ NotifySpace([pc EXCEPT ![id] = "idle"])
  /\ UNCHANGED <<inner, closer, owed, popper, dataPermit, owner, popped>>

\* Permit::send on an open queue.
Send(id) ==
  /\ pc[id] = "permit" /\ owed[id] = 0 /\ ended[id] = "open"
  /\ ~closed
  /\ EnqueueLocked(id, [seq |-> enqueued[id] + 1, fin |-> FALSE])
  /\ enqueued' = [enqueued EXCEPT ![id] = @ + 1]
  /\ pc' = [pc EXCEPT ![id] = "idle"]
  /\ UNCHANGED <<len, closed, closer, owed, space, priority, ended, popped>>

\* Mutant: the slot is returned without telling anyone.
DropPermitSilently(id) ==
  /\ pc[id] = "permit" /\ owed[id] = 0
  /\ pc' = [pc EXCEPT ![id] = "idle"]
  /\ len' = len - 1
  /\ UNCHANGED <<keys, bands, slots, slotPriority, frames, closed, closer,
                 owed, space, popper, dataPermit, owner, popped>>

\* Permit::drop of an armed permit: the write is cancelled or stopped while it
\* holds the slot, or Permit::send found the queue closed.  The notification
\* follows the unlock.
DropPermit(id) ==
  /\ pc[id] = "permit" /\ owed[id] = 0
  /\ pc' = [pc EXCEPT ![id] = "idle"]
  /\ len' = len - 1
  /\ owed' = [owed EXCEPT ![id] = 1]
  /\ UNCHANGED <<keys, bands, slots, slotPriority, frames, closed, closer,
                 space, popper, dataPermit, owner, popped>>

\* finish(): push_now of the FIN, past the capacity bound.  A second finish()
\* is not refused.
PushNow(id) ==
  /\ AtRest(id) /\ ended[id] \in {"open", "fin"} /\ enqueued[id] < MaxFrames
  /\ ~closed
  /\ EnqueueLocked(id, [seq |-> enqueued[id] + 1, fin |-> TRUE])
  /\ len' = len + 1
  /\ enqueued' = [enqueued EXCEPT ![id] = @ + 1]
  /\ ended' = [ended EXCEPT ![id] = "fin"]
  /\ UNCHANGED <<closed, closer, pc, owed, space, priority, popped>>

\* SendStream::set_priority and PriorityQueue::set_priority.
SetPriority(id, new) ==
  /\ AtRest(id) /\ new # priority[id]
  /\ priority' = [priority EXCEPT ![id] = new]
  /\ IF id \notin slots \/ slotPriority[id] = new
     THEN UNCHANGED <<keys, bands, slotPriority>>
     ELSE LET old == slotPriority[id]
              un  == Unschedule(keys, bands, id, old)
          IN  /\ IF Contains(bands[old], id)
                 THEN Schedule(Arm(un.keys, un.bands, id, new))
                 ELSE UNCHANGED <<keys, bands>>
              /\ slotPriority' = [slotPriority EXCEPT ![id] = new]
  /\ UNCHANGED <<slots, frames, len, closed, closer, pc, owed, space, popper,
                 dataPermit, ended, enqueued, popped>>

\* reset(), or a STOP_SENDING seen by a write that already holds a permit:
\* remove(id) under the lock, one notification per freed slot after it.
RemoveId(id) ==
  /\ owed[id] = 0 /\ pc[id] \in {"idle", "permit"} /\ ended[id] = "open"
  /\ ended' = [ended EXCEPT ![id] = "reset"]
  /\ IF id \in slots
     THEN /\ Schedule(Unschedule(keys, bands, id, slotPriority[id]))
          /\ slots' = slots \ {id}
          /\ frames' = [frames EXCEPT ![id] = <<>>]
          /\ len' = len - Len(frames[id])
          /\ owed' = [owed EXCEPT ![id] = Len(frames[id])]
     ELSE UNCHANGED <<keys, bands, slots, frames, len, owed>>
  /\ UNCHANGED <<slotPriority, closed, closer, pc, space, popper, dataPermit,
                 priority, enqueued, popped>>

\* One has_space.notify_one() after an unlock.
PayNotify(id) ==
  /\ owed[id] > 0
  /\ owed' = [owed EXCEPT ![id] = @ - 1]
  /\ NotifySpace(pc)
  /\ UNCHANGED <<inner, closer, popper, dataPermit, owner, popped>>

----------------------------------------------------------------------------
(* The consumer                                                             *)

MaxBand == Max(keys)

\* pop_locked: the front of the highest band, re-armed at the back while its
\* slot still has frames.
PopLocked ==
  LET band  == MaxBand
      id    == Head(bands[band])
      rest  == Tail(bands[band])
      ks    == IF rest = <<>> THEN keys \ {band} ELSE keys
      bs    == [bands EXCEPT ![band] = rest]
      left  == Tail(frames[id])
  IN  /\ frames' = [frames EXCEPT ![id] = left]
      /\ popped' = [popped EXCEPT ![id] = Head(frames[id]).seq]
      /\ IF left = <<>>
         THEN slots' = slots \ {id} /\ Schedule([keys |-> ks, bands |-> bs])
         ELSE UNCHANGED slots /\ Schedule(Arm(ks, bs, id, slotPriority[id]))
      /\ len' = len - 1
      /\ NotifySpace(pc)

\* pop(): one look under the lock.
Pop ==
  /\ popper \in {"run", "woken"}
  /\ \/ /\ keys # {}
        /\ PopLocked
        /\ popper' = "run"
     \/ /\ keys = {}
        /\ popper' = IF closed THEN "done" ELSE "checked"
        /\ UNCHANGED <<keys, bands, slots, frames, len, pc, space, popped>>
  /\ UNCHANGED <<slotPriority, closed, closer, owed, dataPermit, owner>>

AwaitData ==
  /\ popper = "checked"
  /\ IF dataPermit
     THEN dataPermit' = FALSE /\ popper' = "run"
     ELSE popper' = "waiting" /\ UNCHANGED dataPermit
  /\ UNCHANGED <<inner, closer, pc, owed, space, owner, popped>>

\* The writer's select! drops the pop() future (another branch was ready) and
\* calls pop() again; a notification that was not yet seen goes back.
CancelPop ==
  /\ popper \in {"checked", "waiting", "woken"}
  /\ popper' = "run"
  /\ dataPermit' = (dataPermit \/ popper = "woken")
  /\ UNCHANGED <<inner, closer, pc, owed, space, owner, popped>>

----------------------------------------------------------------------------
(* close(): the flag under the lock, then notify_waiters on both Notifys.   *)
(* notify_waiters also reaches a Notified that exists but was not polled.   *)

Close ==
  /\ closer = "open"
  /\ closer' = "closing" /\ closed' = TRUE
  /\ UNCHANGED <<keys, bands, slots, slotPriority, frames, len, pc, owed,
                 space, popper, dataPermit, owner, popped>>

CloseNotify ==
  /\ closer = "closing"
  /\ closer' = "done"
  /\ popper' = IF popper \in {"checked", "waiting"} THEN "woken" ELSE popper
  /\ pc' = [s \in Streams |->
              IF pc[s] \in {"checked", "waiting"} THEN "woken" ELSE pc[s]]
  /\ spaceWaiters' = <<>>
  /\ UNCHANGED <<inner, owed, spacePermit, dataPermit, owner, popped>>

----------------------------------------------------------------------------
Init ==
  /\ keys = {} /\ bands = [p \in Priorities |-> <<>>]
  /\ slots = {} /\ frames = [s \in Streams |-> <<>>]
  /\ priority \in [Streams -> Priorities] /\ slotPriority = priority
  /\ len = 0 /\ closed = FALSE /\ closer = "open"
  /\ pc = [s \in Streams |-> "idle"] /\ owed = [s \in Streams |-> 0]
  /\ spaceWaiters = <<>> /\ spacePermit = FALSE
  /\ popper = "run" /\ dataPermit = FALSE
  /\ ended = [s \in Streams |-> "open"]
  /\ enqueued = [s \in Streams |-> 0] /\ popped = [s \in Streams |-> 0]

Producer(id) ==
  \/ Reserve(id) \/ AwaitSpace(id) \/ CancelReserve(id)
  \/ Send(id) \/ DropPermit(id) \/ PushNow(id)
  \/ \E p \in Priorities : SetPriority(id, p)
  \/ RemoveId(id) \/ PayNotify(id)

Consumer == Pop \/ AwaitData \/ CancelPop

Next == (\E s \in Streams : Producer(s)) \/ Consumer \/ Close \/ CloseNotify

Spec == Init /\ [][Next]_vars

----------------------------------------------------------------------------
(* Properties                                                               *)

\* Every variable has its type; in particular the usize len never underflows,
\* which is what its three decrements rely on.
TypeOK ==
  /\ keys \in SUBSET Priorities
  /\ bands \in [Priorities -> Seq(Streams)]
  /\ slots \in SUBSET Streams
  /\ slotPriority \in [Streams -> Priorities]
  /\ frames \in [Streams -> Seq(Frame)]
  /\ len \in Nat
  /\ closed \in BOOLEAN /\ closer \in {"open", "closing", "done"}
  /\ pc \in [Streams -> ProducerState] /\ owed \in [Streams -> Nat]
  /\ spaceWaiters \in Seq(Streams) /\ spacePermit \in BOOLEAN
  /\ popper \in ConsumerState /\ dataPermit \in BOOLEAN
  /\ priority \in [Streams -> Priorities]
  /\ ended \in [Streams -> {"open", "fin", "reset"}]
  /\ enqueued \in [Streams -> Nat] /\ popped \in [Streams -> Nat]

\* The band map has no empty band: the first expect() of pop_locked holds.
KeysAreNonEmpty == \A p \in Priorities : p \in keys <=> bands[p] # <<>>

\* The band of a priority lists the slots of that priority, each of them once.
BandsHoldSlots ==
  \A p \in Priorities :
    /\ Range(bands[p]) = {s \in slots : slotPriority[s] = p}
    /\ IsInjective(bands[p])

\* A slot exists exactly while it has frames, and its priority is the one the
\* SendStream was last given.
SlotsHaveFrames ==
  \A s \in Streams : /\ s \in slots <=> frames[s] # <<>>
                     /\ s \in slots => slotPriority[s] = priority[s]

\* The two maps of Inner agree through every interleaving of push, pop,
\* set_priority and remove: an id appears in at most one band, only while its
\* slot has a frame, and always in the band its owner last asked for.  None of
\* the three expect()s of pop_locked can fail.
BandsExact == KeysAreNonEmpty /\ BandsHoldSlots /\ SlotsHaveFrames

Queued == UNION {{s} \X (1..Len(frames[s])) : s \in Streams}
Holders == {s \in Streams : pc[s] = "permit"}

\* len counts the queued frames and the outstanding permits, no more and no
\* less, whatever is cancelled, removed or sent past the bound: a slot that
\* leaked would shrink the queue for the rest of the session.
LenExact == len = Cardinality(Queued) + Cardinality(Holders)

\* The tasks parked on has_space are the waiting producers, each parked once.
WaitersParked ==
  /\ IsInjective(spaceWaiters)
  /\ \A s \in Range(spaceWaiters) : pc[s] = "waiting"

\* FINs bypass the bound, data never does: data frames and reserved slots
\* together stay within Capacity even while FINs push len beyond it.
DataWithinCapacity ==
  Cardinality({q \in Queued : ~frames[q[1]][q[2]].fin}) + Cardinality(Holders)
    <= Capacity

\* Frames of one stream leave in the order they were enqueued with none
\* missing, and a reset stream leaves nothing behind to trail RESET_STREAM.
StreamFifo ==
  \A s \in Streams :
    IF ended[s] = "reset"
    THEN frames[s] = <<>>
    ELSE /\ Len(frames[s]) = enqueued[s] - popped[s]
         /\ \A i \in DOMAIN frames[s] : frames[s][i].seq = popped[s] + i

\* The inductive invariant behind BandsExact, LenExact and StreamFifo: a
\* notification only ever wakes a producer that is waiting, so it never takes a
\* permit away from its holder.
IInv ==
  /\ TypeOK /\ BandsExact /\ WaitersParked
  /\ IsFiniteSet(Queued) /\ LenExact /\ StreamFifo

Ahead(p, s, t) ==
  \E i, j \in DOMAIN bands[p] : i < j /\ bands[p][i] = s /\ bands[p][j] = t

\* When a frame of t is sent no waiting stream has a higher priority, and every
\* waiting stream of the same priority goes before t's next frame; no other
\* step lets a stream overtake one that is ahead of it in its band.
PriorityThenRoundRobin ==
  [][ \A s, t \in Streams :
        /\ (s \in slots /\ s # t /\ popped'[t] # popped[t]) =>
             /\ priority[s] <= priority[t]
             /\ (priority[s] = priority[t] /\ t \in slots') =>
                  Ahead(priority[s], s, t)'
        /\ \A p \in Priorities :
             (Ahead(p, s, t) /\ Ahead(p, t, s)') => popped'[s] # popped[s] ]_vars

\* The writer never sleeps on a queue that has a frame, and never sleeps
\* through close(), wherever its pop() was when the frame or the close came.
ConsumerAwake ==
  /\ popper = "waiting" => keys = {} /\ closer # "done"
  /\ popper = "checked" => (keys = {} \/ dataPermit) /\ closer # "done"

\* A producer never sleeps on an empty queue or a closed one, unless the step
\* that will wake it is already under way.
ProducersAwake ==
  (\E s \in Streams : pc[s] = "waiting") =>
     /\ closer # "done"
     /\ \/ len > 0 \/ closer = "closing"
        \/ \E s \in Streams : owed[s] > 0 \/ pc[s] \in {"woken", "retry"}

\* The bound is kept and used: data never takes more than Capacity slots, and
\* no producer sleeps beside a queue that nobody else will announce.
SlotsServed == DataWithinCapacity /\ ProducersAwake

\* A slot is taken, or a step that notifies the next producer is under way.
Announced ==
  \/ len > 0 \/ closer = "closing"
  \/ \E s \in Streams : owed[s] > 0 \/ pc[s] \in {"woken", "retry"}

\* The inductive invariant behind ConsumerAwake and SlotsServed, on top of IInv:
\* a waiting producer is parked, and one that checked the queue but has not
\* awaited yet may also rely on the permit stored in has_space.
AwakeInv ==
  /\ closed <=> closer # "open"
  /\ ConsumerAwake
  /\ \A s \in Streams : pc[s] = "waiting" => s \in Range(spaceWaiters)
  /\ \A s \in Streams : pc[s] \in {"checked", "waiting"} => closer # "done"
  /\ \A s \in Streams : pc[s] = "waiting" => Announced
  /\ \A s \in Streams : pc[s] = "checked" => Announced \/ spacePermit

\* sched.rs says of reserve() that a notify_one between the check and the await
\* is not lost: then a parked producer and a free slot that nobody has been
\* told about cannot coexist.
\* It does not hold: a Notify stores one permit for two releases.
NoLostNotify ==
  (\E s \in Streams : pc[s] = "waiting") /\ len < Capacity /\ ~closed =>
     \E s \in Streams : owed[s] > 0 \/ pc[s] \in {"woken", "retry"}
============================================================================
