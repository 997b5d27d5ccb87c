---------------------------- MODULE CreditWindow ----------------------------
(***************************************************************************)
(* What one pair of credits promises: the window of a connection, or of    *)
(* one stream, between the send half (snd) of one endpoint and the receive *)
(* half (rcv) of the other.  The methods are those of rs/qmux/src/credit.rs *)
(* and the steps are the places session.rs calls them from; which stream,  *)
(* frame or task makes a step is left open, so that the same specification *)
(* is implemented by the connection credit and by every stream credit of   *)
(* QmuxStreams.                                                            *)
(***************************************************************************)
EXTENDS Integers, Credit

CONSTANTS
  Window,   \* the initial maximum both ends agree on
  MaxSpend  \* bound on the bytes a sender claims over the whole run

ASSUME WindowIsNatural == Window \in Nat
ASSUME MaxSpendIsNatural == MaxSpend \in Nat

VARIABLES
  snd,      \* the sender's Credit
  rcv,      \* the receiver's Credit
  queued,   \* bytes claimed and not yet on the transport
  wire,     \* bytes on the transport
  lost,     \* bytes the receiver dropped before it accounted for them
  held,     \* bytes accounted for and waiting to be read
  verdict   \* "refused" once the receiver found the sender over its limit

windowVars == <<snd, rcv, queued, wire, lost, held, verdict>>

WindowInit ==
  /\ snd = NewCredit(Window) /\ rcv = NewCredit(Window)
  /\ queued = 0 /\ wire = 0 /\ lost = 0 /\ held = 0
  /\ verdict = "ok"

\* A write claims some of what it asked for, and queues a frame.
Spend(n) ==
  /\ snd.used + n <= MaxSpend
  /\ n <= Available(snd)
  /\ snd' = Claim(snd, n)
  /\ queued' = queued + n
  /\ UNCHANGED <<rcv, wire, lost, held, verdict>>

\* Mutant: more is returned than was dropped.
GiveBackTwice(n) ==
  /\ n <= queued
  /\ snd' = Release(snd, 2 * n)
  /\ queued' = queued - n
  /\ UNCHANGED <<rcv, wire, lost, held, verdict>>

\* A reset drops queued frames and returns what they claimed.
GiveBack(n) ==
  /\ n <= queued
  /\ snd' = Release(snd, n)
  /\ queued' = queued - n
  /\ UNCHANGED <<rcv, wire, lost, held, verdict>>

Transmit(n) ==
  /\ n <= queued
  /\ queued' = queued - n /\ wire' = wire + n
  /\ UNCHANGED <<snd, rcv, lost, held, verdict>>

\* A frame arrives and is accounted for, or refused.  Its bytes wait to be read
\* (kept), unless the RecvStream is gone.
Arrive(n, kept) ==
  /\ n <= wire
  /\ wire' = wire - n
  /\ IF MayReceive(rcv, n)
     THEN rcv' = Receive(rcv, n) /\ held' = held + kept /\ UNCHANGED verdict
     ELSE verdict' = "refused" /\ UNCHANGED <<rcv, held>>
  /\ UNCHANGED <<snd, queued, lost>>

\* A late frame on a retired stream is dropped before it is accounted for.
Ignore(n) ==
  /\ n <= wire
  /\ wire' = wire - n /\ lost' = lost + n
  /\ UNCHANGED <<snd, rcv, queued, held, verdict>>

\* Mutant: the bytes are reported although they stay in the buffer.
ConsumeEarly(n) ==
  /\ n <= held
  /\ rcv' = Consume(rcv, n)
  /\ UNCHANGED <<snd, queued, wire, lost, held, verdict>>

\* The application reads n bytes; the maximum moves when enough were read.
ReadBytes(n) ==
  /\ n <= held
  /\ rcv' = Consume(rcv, n)
  /\ held' = held - n
  /\ UNCHANGED <<snd, queued, wire, lost, verdict>>

\* The application drops a RecvStream with unread bytes: nothing is consumed.
Discard(n) ==
  /\ n <= held
  /\ held' = held - n
  /\ UNCHANGED <<snd, rcv, queued, wire, lost, verdict>>

\* A window update arrives: any maximum the receiver has advertised so far.
Learn(m) ==
  /\ m <= rcv.max
  /\ MayIncrease(snd, m)
  /\ snd' = IncreaseMax(snd, m)
  /\ UNCHANGED <<rcv, queued, wire, lost, held, verdict>>

WindowNext ==
  \/ \E n \in 0 .. MaxSpend :
       \/ Spend(n) \/ GiveBack(n) \/ Transmit(n) \/ Ignore(n)
       \/ Arrive(n, n) \/ Arrive(n, 0)
       \/ ReadBytes(n) \/ Discard(n)
  \/ \E m \in 0 .. rcv.max : Learn(m)

WindowSpec == WindowInit /\ [][WindowNext]_windowVars

----------------------------------------------------------------------------
\* Every variable has its type; in particular the u64 counters never underflow.
WindowTypes ==
  /\ snd \in CreditState /\ rcv \in CreditState
  /\ queued \in Nat /\ wire \in Nat /\ lost \in Nat /\ held \in Nat
  /\ verdict \in {"ok", "refused"}

\* Every byte claimed is queued, on the transport, accounted for or lost.
Accounting == snd.used = queued + wire + lost + rcv.used

\* The sender never spends past the limit it knows, and never knows one the
\* receiver has not advertised.
Ordered == snd.used <= snd.max /\ snd.max <= rcv.max

\* The window moves by what was read, and by no more.
Earned == rcv.max + rcv.released + held <= Window + rcv.used

\* A sender that claims before it queues is never refused: receive() returns
\* true for every frame of an honest peer, however claims, resets, late frames,
\* reads and delayed window updates interleave.
NeverRefused == verdict = "ok"

\* The receiver never buffers more than its window for the application, however
\* often the window moved.
MemoryBound == held <= Window

WindowInv == WindowTypes /\ Accounting /\ Ordered /\ Earned /\ NeverRefused
=============================================================================
