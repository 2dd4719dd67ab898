-------------------------- MODULE MCAwsMqttClient --------------------------
(* Two topics and two slots.  One thread with automatic reconnection whose handlers  *)
(* publish; one that reconnects itself; one whose acknowledgements may come late and *)
(* whose reads may fail, with and without keep-alive; and two threads, one yielding, *)
(* one subscribing, as the porting guide suggests.                                   *)
EXTENDS AwsMqttClient
App(main, worker, handler, auto, reconnects, keepAlive, lateAcks) ==
  [main |-> main, worker |-> worker, handler |-> handler, auto |-> auto,
   reconnects |-> reconnects, keepAlive |-> keepAlive, late |-> lateAcks]
MCApplications ==
  {App({"subscribe"}, {}, {"publish1"}, TRUE, FALSE, TRUE, 0),
   App({"subscribe", "unsubscribe"}, {}, {}, FALSE, TRUE, TRUE, 0),
   App({"subscribe", "unsubscribe"}, {}, {}, FALSE, FALSE, TRUE, 1),
   App({"subscribe"}, {}, {}, FALSE, FALSE, FALSE, 1),
   App({}, {"subscribe"}, {"publish0"}, FALSE, FALSE, TRUE, 0)}
=============================================================================
