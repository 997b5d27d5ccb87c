---------------------------- MODULE MCH3Session ----------------------------
(* Plans of H3Session and H3Streams for TLC.                                *)
EXTENDS H3Streams

Both(a, b) == [e \in Ends |-> IF e = Client THEN a ELSE b]

Plan(client, server) ==
  [crate |-> Both(client, server), supports |-> Both(TRUE, TRUE),
   offer |-> {"a"}, answer |-> [reject |-> FALSE, status |-> 200, protocol |-> "a"],
   close |-> Both(-1, -1), stall |-> Both(FALSE, FALSE), drop |-> Both(FALSE, FALSE),
   lose |-> FALSE, streams |-> <<>>, dir |-> "uni", callers |-> {}, cancels |-> {},
   io |-> [calls |-> {}, bytes |-> 0, chunk |-> 1, code |-> Both(0, 0), sizes |-> {}]]

Crates == {"quinn", "noq", "iroh", "quiche"}

Answers ==
  {[reject |-> FALSE, status |-> 200, protocol |-> "b"],
   [reject |-> FALSE, status |-> 404, protocol |-> "none"],
   [reject |-> TRUE, status |-> 403, protocol |-> "none"]}

\* Every pair of crates, every answer a server may give; one that knows no
\* WebTransport.
Handshakes ==
  { [Plan(a, b) EXCEPT !.answer = r] : a \in Crates, b \in Crates, r \in Answers }
  \union { [Plan(a, "quinn") EXCEPT !.supports = Both(TRUE, FALSE)] : a \in Crates }

\* Every pair of crates; one end closes, without credit too, or drops its
\* handles after; both ends of quinn and noq close; the network dies on the way.
Closes ==
  { [Plan(a, b) EXCEPT !.close = Both(7, -1), !.stall = Both(s, FALSE)] :
      a \in Crates, b \in Crates, s \in BOOLEAN }
  \union { [Plan("other", b) EXCEPT !.close = Both(7, -1)] : b \in Crates }
  \union { [Plan(a, b) EXCEPT !.close = Both(-1, 5), !.drop = Both(FALSE, TRUE)] :
              a \in {"quinn", "iroh"}, b \in {"quinn", "quiche"} }
  \union { [Plan(a, b) EXCEPT !.close = Both(7, 5)] :
              a \in {"quinn", "noq"}, b \in Crates }
  \union { [Plan(a, b) EXCEPT !.close = Both(7, -1), !.lose = TRUE] :
              a \in Crates, b \in Crates }

\* Streams for one caller of any crate, which may give up once, and for two
\* callers of quinn and noq.
Accepts ==
  { [Plan("quinn", b) EXCEPT !.streams = s, !.dir = d, !.callers = {"a"},
                             !.cancels = {"a"}] :
      b \in Crates, d \in {"uni", "bi"},
      s \in {<<"stalled", "wt">>, <<"h3", "wt">>, <<"foreign", "wt">>, <<"reset", "wt">>} }
  \union
  { [Plan("quinn", b) EXCEPT !.streams = <<"wt">>, !.dir = "uni", !.callers = {"a"},
                             !.close = Both(7, -1)] : b \in Crates }
  \union
  { [Plan("quinn", b) EXCEPT !.streams = <<"wt", "wt">>, !.dir = d, !.callers = {"a", "b"}] :
      b \in {"quinn", "noq"}, d \in {"uni", "bi"} }
  \union
  { [Plan("quinn", "quinn") EXCEPT !.streams = s, !.callers = {"a", "b"}] :
      s \in {<<"wt", "stalled", "wt">>, <<"foreign", "wt", "wt">>} }
  \union
  { [Plan("iroh", b) EXCEPT !.streams = <<"stalled", "wt">>, !.callers = {"a", "b"},
                             !.close = Both(7, -1)] : b \in {"quinn", "noq"} }

\* One stream and the calls on its two halves; every crate meets itself, and
\* quinn meets quiche: a buffer of three bytes written in chunks of two, ahead of a reader
\* that may be slow, with a write given up on the way; a reset, a drop, a stop
\* and a drop against closed(), also while the session is closed.  The two
\* applications use different codes, above and below the first gap of the range.
Pairs == { p \in Crates \X Crates : p[1] = p[2] \/ {p[1], p[2]} = {"quinn", "quiche"} }

Io(p, calls) ==
  [Plan(p[1], p[2]) EXCEPT !.streams = <<"wt">>, !.callers = {"a"},
                     !.io = [calls |-> calls, bytes |-> 3, chunk |-> 2,
                             code |-> Both(31, 29), sizes |-> {}]]

Transfers ==
  { Io(p, calls) : p \in Pairs,
      calls \in {{"write", "cancel", "finish", "read"}, {"write", "reset", "drop send", "read"},
                {"stop", "drop recv", "drop send", "closed"}, {"reset", "finish", "closed"}} }
  \union
  { [Io(p, calls) EXCEPT !.io.bytes = 1] : p \in Pairs,
      calls \in {{"stop", "drop recv", "write", "finish"}, {"finish", "closed", "read", "drop recv"}} }
  \union
  { [Io(p, calls) EXCEPT !.close = Both(-1, 5), !.io.bytes = 1] :
      p \in Pairs, calls \in {{"write", "drop recv"}, {"read", "drop send"}, {"closed"}} }

\* Datagrams: one that fits exactly, one that is a byte too long, and one of
\* another session.
Datagrams ==
  { [Plan(a, b) EXCEPT !.io.calls = {"datagram", "foreign datagram"}, !.io.sizes = {2, 3}] :
      a \in Crates, b \in Crates }

MCPlans == Handshakes \union Closes \union Accepts \union Transfers \union Datagrams

\* An application that only drops its handles.
DropPlans == { [Plan("quiche", "quinn") EXCEPT !.drop = Both(TRUE, FALSE)] }

MCCallers == {"a", "b"}
=============================================================================
