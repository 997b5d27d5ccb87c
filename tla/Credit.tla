------------------------------- MODULE Credit -------------------------------
(***************************************************************************)
(* The credit counter of QMux flow control (rs/qmux/src/credit.rs), as     *)
(* operators on the record [used, max, released].  Each method is one      *)
(* send_if_modified closure, so a use of one operator is one atomic step.  *)
(* A send-side credit uses TryClaim, Release and IncreaseMax, a            *)
(* receive-side one Receive, ReceiveUpTo and Consume.  The closed flag     *)
(* belongs to teardown and is kept there.                                  *)
(***************************************************************************)
EXTENDS Integers

CreditState == [used : Nat, max : Nat, released : Nat]

NewCredit(max) == [used |-> 0, max |-> max, released |-> 0]

\* max.saturating_sub(used)
Available(c) == IF c.max > c.used THEN c.max - c.used ELSE 0

\* What try_claim(limit) returns.
Claimable(c, limit) == IF limit < Available(c) THEN limit ELSE Available(c)

Claim(c, n) == [c EXCEPT !.used = @ + n]

\* used.saturating_sub(amount)
Release(c, n) == [c EXCEPT !.used = IF @ > n THEN @ - n ELSE 0]

\* increase_max fails on a smaller maximum, and changes nothing then.
MayIncrease(c, m) == m >= c.max
IncreaseMax(c, m) == [c EXCEPT !.max = m]

MayReceive(c, n) == c.used + n <= c.max
Receive(c, n) == [c EXCEPT !.used = @ + n]

MayReceiveUpTo(c, v) == v <= c.max
ReceiveUpTo(c, v) == [c EXCEPT !.used = IF v > @ THEN v ELSE @]

\* Mutant: half of the maximum ever granted, not of what is left of it.
GrantsOfTotal(c, n) == 2 * (c.released + n) > c.max

\* consume returns Some(new_max) when more than half of what is left of the
\* window has been released.
Grants(c, n) == c.used + 2 * (c.released + n) > c.max

Consume(c, n) ==
  IF Grants(c, n)
  THEN [c EXCEPT !.max = @ + c.released + n, !.released = 0]
  ELSE [c EXCEPT !.released = @ + n]
=============================================================================
