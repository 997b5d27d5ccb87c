----------------------------- MODULE MCJsSession -----------------------------
(* Small instances of JsSession for TLC: a behaviour follows one plan, so the  *)
(* states of the plans add up.                                                *)
EXTENDS JsSession

Id(by, dir, index) == [by |-> by, dir |-> dir, index |-> index]
Plan(streams, limit, client, server, ops) ==
  [streams |-> streams, limit |-> limit, ops |-> ops,
   bytes |-> [e \in Ends |-> IF e = "client" THEN client ELSE server]]
OneUni == {Id("client", "uni", 0)}
TwoUni == OneUni \cup {Id("client", "uni", 1)}
ThreeUni == TwoUni \cup {Id("client", "uni", 2)}
OneBi == {Id("client", "bi", 0)}
TwoBi == OneBi \cup {Id("server", "bi", 0)}

MCPlans == {
  Plan(OneUni, 1, 3, 0, {"close", "cancel", "abort"}),   \* every end of one stream
  Plan(OneUni, 1, 2, 0, {"close", "cancel", "refuse"}),  \* the acceptor goes away
  Plan(OneUni, 1, 2, 0, {"close", "end"}),               \* close() at any moment
  Plan(OneUni, 1, 2, 0, {"abort", "fail"}),              \* the socket fails
  Plan(TwoUni, 1, 2, 0, {"close", "cancel"}),            \* stream slots, one by one
  Plan(TwoUni, 2, 2, 0, {"cancel"}),                     \* two writers, one window
  Plan(TwoUni, 2, 1, 0, {"close", "order"}),             \* priorities
  Plan(OneBi, 1, 2, 1, {"cancel"}),                      \* two halves
  Plan(OneBi, 1, 1, 1, {"close", "abort"}),
  Plan(TwoBi, 1, 1, 0, {"close"}) }

CancelPlans == {Plan(OneUni, 1, 2, 0, {"cancel"})}
ResetPlans == {Plan(TwoUni, 2, 2, 0, {"cancel"})}
=============================================================================
