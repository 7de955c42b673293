----------------------------- MODULE MCEventBus -----------------------------
(***************************************************************************)
(* Model values for EventBus, and what the repository's comments say of it *)
(* that a run can refute.                                                  *)
(***************************************************************************)
EXTENDS EventBus

\* Every strategy with both ways to publish two events; and three events in
\* turn for the ordered one: two wait in its queue, a third may find it full.
MCModes ==
  [strategy : Strategies, publish : {"Publish", "PublishAsync"}, events : {2}]
  \cup {[strategy |-> "ordered", publish |-> "Publish", events |-> 3]}

\* How CircuitBreakerImpl uses a bus WithOrderedAsyncDelivery.
BreakerOrdered == {[strategy |-> "ordered", publish |-> "PublishAsync", events |-> 2]}

\* A user's id that is also an id the registry makes up ("listener-1").
MCNamedIds == {1}

(***************************************************************************)
(* strategy.go:136: the ordered strategy "preserves event order".          *)
(***************************************************************************)
PreservesEventOrder == \A l \in Listeners : Ascending(received[l])
=============================================================================
