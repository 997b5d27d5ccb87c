---------------------------- MODULE MCIdleTimer ----------------------------
(* IdleTimer on a small window; the constants are in IdleTimer.cfg.  Every   *)
(* comparison in the module is between two instants or two sequence numbers, *)
(* so two states that differ by a shift of the clock have the same future,   *)
(* and so do two in which the same frames are younger than the counter of    *)
(* the pings: TLC explores one of them.  The view also forgets what no later *)
(* step compares: which of last_send_at and last_ping_ms is the newer, by    *)
(* how much an answer is late, and the history of a session whose peer is    *)
(* silent.                                                                   *)
EXTENDS IdleTimer

Age(t) == now - t
\* Our pings are numbered by pingsSent, outbound as "ping", inbound as "answer".
Shifted(k, f) == IF f.kind = k THEN [f EXCEPT !.seq = IF @ < pingsSent THEN 0 ELSE 1] ELSE f
Frames(k, q) == [i \in DOMAIN q |-> Shifted(k, q[i])]

Ages ==
  <<Age(lastRecv), Age(lastSend), readerBp, writerBp, peer = "live" /\ relieved = now,
    Frames("ping", control), timer,
    [activity EXCEPT !.recvSeen = Age(@), !.sendResetAt = Age(@)],
    IF deferredSince = None THEN None ELSE Age(deferredSince),
    Age(MaxOf(lastSend, lastPing)),
    IF timer \in {"sleep", "ping"} THEN Age(pingDue) ELSE 0,
    IF timer = "sleep" THEN Age(wake) ELSE 0,
    IF timer \in {"ping", "enqueue", "idle", "idleSend", "decide", "readerBp"} THEN Age(wokeAt) ELSE 0,
    writer, Shifted("ping", sending),
    IF writer = "sending" /\ peer = "live" THEN Age(sendSince) ELSE 0,
    reader, IF reader = "parked" /\ peer = "live" THEN Age(parkedAt) ELSE 0,
    Frames("answer", inbound),
    peer, IF peer = "live" THEN Age(heard) ELSE 0,
    [i \in DOMAIN answers |-> <<answers[i].seq < pingsSent, MaxOf(answers[i].by + WedgeMax, now) - now>>],
    verdict>>
=============================================================================
