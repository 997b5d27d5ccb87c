----------------------------- MODULE MCEzDriver -----------------------------
(* Small instances of EzDriver for TLC.                                     *)
EXTENDS EzDriver

AllEnds == {"local", "dropped", "remote", "unknown"}
Plan(bi, uni, peer, ops, ends) ==
  [bi |-> bi, uni |-> uni, peer |-> peer, ops |-> ops, ends |-> ends]

\* One behaviour follows one plan, so their states add up.  A server: it opens
\* 1, 5 (bi) and 3, 7 (uni); the client opens 0 (bi) and 2 (uni).
TwoOpens   == Plan(0, 2, {}, {"write"}, {})
OpenEnds   == Plan(0, 2, {}, {}, AllEnds)
Sending    == Plan(0, 1, {}, {"write", "finish", "closed"}, {"local"})
Flushing   == Plan(0, 1, {}, {"write", "flush", "priority"}, {"remote"})
SendGone   == Plan(0, 1, {}, {"finish", "reset", "drop"}, {"dropped"})
Reading    == Plan(0, 0, {2}, {"read", "closed"}, {"unknown"})
RecvGone   == Plan(0, 0, {2}, {"read", "stop", "drop"}, {"dropped"})
LocalBi    == Plan(1, 0, {}, {"read"}, {"remote"})
PeerBi     == Plan(0, 0, {0}, {"write"}, {"dropped"})
Datagrams  == Plan(0, 0, {}, {"datagram", "watch"}, AllEnds)
MCPlans == {TwoOpens, OpenEnds, Sending, Flushing, SendGone, Reading, RecvGone, LocalBi, PeerBi, Datagrams}

EarlyPlans == {Plan(0, 0, {0}, {"write", "closed"}, {})}
=============================================================================
