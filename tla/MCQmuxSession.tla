--------------------------- MODULE MCQmuxSession ---------------------------
(* QmuxSession on small instances.                                          *)
EXTENDS QmuxSession

Script(client, server) ==
  [e \in Ends |-> IF e = "client" THEN client ELSE server]

\* The client opens a stream and writes to it while the server ends the session
\* in each of the ways it can, with both kinds of entry point.
Endings == {
  Script({"open", "again"}, {"handshake", "close"}),
  Script({"handshake", "close"}, {"close"}),
  Script({"open"}, {"handshake", "timeout"}),
  Script({"open"}, {"drop"}),
  Script({"handshake", "open"}, {"handshake", "idle"}),
  Script({"handshake", "open"}, {"handshake", "bad"})}
=============================================================================
