----------------------------- MODULE MCAwsShadow -----------------------------
(* Applications that make one-off or persistent requests of two kinds, applications    *)
(* whose callbacks make requests of their own, and applications with keys to be told   *)
(* of.  The tick counter wraps within two requests.                                    *)
EXTENDS AwsShadow
NoApp == [actions |-> {}, sticky |-> {FALSE}, keys |-> {}, nests |-> FALSE, discards |-> TRUE,
          requests |-> 0, failures |-> 0, deltas |-> 0, inits |-> 0]
MCApps == {
  [NoApp EXCEPT !.actions = {"update", "get"}, !.requests = 2],
  [NoApp EXCEPT !.actions = {"update"}, !.sticky = BOOLEAN, !.requests = 2],
  [NoApp EXCEPT !.actions = {"update"}, !.requests = 2, !.failures = 2],
  [NoApp EXCEPT !.actions = {"update"}, !.requests = 3, !.failures = 1],
  [NoApp EXCEPT !.actions = {"update"}, !.requests = 2, !.inits = 1],
  [NoApp EXCEPT !.actions = {"update"}, !.requests = 3, !.nests = TRUE],
  [NoApp EXCEPT !.actions = {"get"}, !.requests = 1, !.nests = TRUE, !.keys = {"a", "b"}, !.deltas = 3],
  [NoApp EXCEPT !.keys = {"a", "b", "c"}, !.discards = FALSE, !.failures = 1, !.deltas = 2, !.inits = 1]}
=============================================================================
