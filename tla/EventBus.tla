------------------------------ MODULE EventBus ------------------------------
(***************************************************************************)
(* The event bus (events/bus.go), its listener registry                    *)
(* (events/registry.go) and the delivery strategies (events/strategy.go).  *)
(*                                                                         *)
(* Publish copies the registered listeners under the registry's lock and   *)
(* hands the event and the copy to the strategy; from then on the registry *)
(* may change and the delivery does not notice.  PublishAsync, which is    *)
(* what transitionTo calls, does the same in a goroutine of its own.       *)
(*                                                                         *)
(* Events are numbered in the order in which they are published, and each  *)
(* Subscribe passes a listener of its own, numbered in turn.  Middleware   *)
(* wraps a call of a listener and does not show here: PanicRecovery, which *)
(* every bus has, makes a panic one more way for the call to end.          *)
(***************************************************************************)
EXTENDS Integers, Sequences, Functions

CONSTANTS
  Modes,        \* how the bus is set up and used, see mode
  NamedIds,     \* ids that users pass to SubscribeWithID
  QueueSize,    \* bufferSize of NewOrderedAsyncStrategy, at least 1
  MaxEvents,    \* bound: events published, in any mode
  MaxListeners  \* bound: calls of Subscribe

Strategies == {"sync", "async", "parallel", "ordered"}

ASSUME ModesAssumption ==
  Modes \subseteq [strategy : Strategies, publish : {"Publish", "PublishAsync"},
                   events : Nat]
ASSUME BoundsAssumption ==
  QueueSize \in Nat \ {0} /\ MaxEvents \in Nat /\ MaxListeners \in Nat

Events == 1 .. MaxEvents
Listeners == 1 .. MaxListeners

(***************************************************************************)
(* mode.strategy  the strategy, set when the bus is built                  *)
(* mode.publish   "Publish": one goroutine publishes, an event at a time;  *)
(*                "PublishAsync": as transitionTo does                     *)
(* mode.events    bound: events published in this mode                     *)
(***************************************************************************)
VARIABLES
  mode,
  registry,       \* listener by id; generated ids are numbers
  nextID,
  subscriptions,  \* per listener: its id, and whether it may still be ended
  published,      \* events published so far
  phase,          \* where the Publish of each event stands
  todo,           \* listeners its delivery has still to call
  running,        \* listeners it is calling
  queue,          \* the ordered strategy's channel
  worker,         \* the event its goroutine processes, 0 between two
  closing,        \* how far Close of that strategy has come
  panicked,       \* a send on, or a close of, the closed channel
  received,       \* history: the events each listener has been called with
  left            \* history: events published when the listener was removed

registryVars == <<registry, nextID, subscriptions, left>>
deliveryVars == <<phase, todo, running, received>>
queueVars == <<queue, worker, closing, panicked>>
vars == <<mode, registryVars, published, deliveryVars, queueVars>>

Phases == {"none", "called", "delivering", "returned", "accepted", "failed"}
StillHere == MaxEvents

Init ==
  /\ mode \in Modes
  /\ registry = << >> /\ nextID = 1 /\ subscriptions = << >>
  /\ published = 0
  /\ phase = [e \in Events |-> "none"]
  /\ todo = [e \in Events |-> {}]
  /\ running = [e \in Events |-> {}]
  /\ queue = << >> /\ worker = 0 /\ closing = "open" /\ panicked = FALSE
  /\ received = [l \in Listeners |-> << >>]
  /\ left = [l \in Listeners |-> StillHere]
-----------------------------------------------------------------------------
(* Registry; every method is one critical section. *)

\* Listeners that a step takes out of the registry.
Leave(gone) == left' = [l \in Listeners |-> IF l \in gone THEN published ELSE left[l]]

Subscribe(id) ==
  LET listener == Len(subscriptions) + 1 IN
  /\ listener <= MaxListeners
  /\ registry' = [i \in DOMAIN registry \cup {id} |->
                    IF i = id THEN listener ELSE registry[i]]
  /\ subscriptions' = Append(subscriptions, [id |-> id, live |-> TRUE])
  /\ Leave(IF id \in DOMAIN registry THEN {registry[id]} ELSE {})
  /\ UNCHANGED <<mode, published, deliveryVars, queueVars>>

\* Subscribe("", listener) makes an id; it does not look whether it is taken.
SubscribeGenerated == Subscribe(nextID) /\ nextID' = nextID + 1
SubscribeWithID == \E id \in NamedIds : Subscribe(id) /\ UNCHANGED nextID

\* Mutant: the entry stays in the map.
Remove_Keeps(ids) ==
  /\ UNCHANGED registry
  /\ Leave({registry[i] : i \in ids \cap DOMAIN registry})

Remove(ids) ==
  /\ registry' = Restrict(registry, DOMAIN registry \ ids)
  /\ Leave({registry[i] : i \in ids \cap DOMAIN registry})

Ended(s) == [s EXCEPT !.live = FALSE]

\* Subscription.Unsubscribe: removes whoever has the id by now, and only once.
EndSubscription(l) ==
  /\ l <= Len(subscriptions) /\ subscriptions[l].live
  /\ Remove({subscriptions[l].id})
  /\ subscriptions' = [subscriptions EXCEPT ![l] = Ended(@)]
  /\ UNCHANGED <<mode, nextID, published, deliveryVars, queueVars>>

\* EventBus.Unsubscribe(id) and EventBus.UnsubscribeAll.
Unsubscribe ==
  /\ registry # << >>
  /\ \/ \E id \in DOMAIN registry : Remove({id})
     \/ Remove(DOMAIN registry)
  /\ UNCHANGED <<mode, nextID, subscriptions, published, deliveryVars, queueVars>>
-----------------------------------------------------------------------------
(* Publish *)

SetPhase(e, p) == phase' = [phase EXCEPT ![e] = p]

\* A call of Publish, or the start of PublishAsync's goroutine.
Publish(e) ==
  /\ e = published + 1 /\ e <= mode.events
  /\ mode.publish = "Publish" =>
       \A d \in Events : phase[d] \notin {"called", "delivering"}
  /\ published' = e
  /\ SetPhase(e, "called")
  /\ UNCHANGED <<mode, registryVars, todo, running, received, queueVars>>

\* GetListeners; without listeners there is nothing to deliver.
GetListeners(e) ==
  /\ phase[e] = "called"
  /\ todo' = [todo EXCEPT ![e] = Range(registry)]
  /\ SetPhase(e, IF registry = << >> THEN "returned" ELSE "delivering")
  /\ UNCHANGED <<mode, registryVars, published, running, received, queueVars>>

\* Mutant: the ordered strategy starts a goroutine for each delivery.
Turn_Concurrent(e) ==
  CASE mode.strategy = "sync"     -> phase[e] = "delivering" /\ running[e] = {}
    [] mode.strategy \in {"async", "parallel"} -> phase[e] \in {"delivering", "returned"}
    [] mode.strategy = "ordered"  -> phase[e] = "accepted"

\* It is the turn of some listener of e to be called: the next one of a loop,
\* or any whose goroutine has been started.
Turn(e) ==
  CASE mode.strategy = "sync"     -> phase[e] = "delivering" /\ running[e] = {}
    [] mode.strategy \in {"async", "parallel"} -> phase[e] \in {"delivering", "returned"}
    [] mode.strategy = "ordered"  -> worker = e /\ running[e] = {}

OnEvent(e, l) ==
  /\ l \in todo[e]
  /\ Turn(e)
  /\ todo' = [todo EXCEPT ![e] = @ \ {l}]
  /\ running' = [running EXCEPT ![e] = @ \cup {l}]
  /\ received' = [received EXCEPT ![l] = Append(@, e)]
  /\ UNCHANGED <<mode, registryVars, published, phase, queueVars>>

\* The listener returns, with or without an error, or panics.
OnEventEnds(e, l) ==
  /\ l \in running[e]
  /\ running' = [running EXCEPT ![e] = @ \ {l}]
  /\ UNCHANGED <<mode, registryVars, published, phase, todo, received, queueVars>>

Finished(e) == todo[e] = {} /\ running[e] = {}

\* Deliver returns: after the last listener, or, asynchronously, when it likes.
Return(e) ==
  /\ phase[e] = "delivering"
  /\ mode.strategy \in {"sync", "parallel"} => Finished(e)
  /\ mode.strategy # "ordered"
  /\ SetPhase(e, "returned")
  /\ UNCHANGED <<mode, registryVars, published, todo, running, received, queueVars>>
-----------------------------------------------------------------------------
(* OrderedAsyncStrategy *)

Sending(e) == phase[e] = "delivering" /\ mode.strategy = "ordered"

\* Mutant: the queue is not bounded.
Enqueue_Unbounded(e) ==
  /\ Sending(e) /\ closing = "open"
  /\ queue' = Append(queue, e)
  /\ SetPhase(e, "accepted")
  /\ UNCHANGED <<mode, registryVars, published, todo, running, received,
                 worker, closing, panicked>>

Enqueue(e) ==
  /\ Sending(e) /\ closing = "open"
  /\ Len(queue) < QueueSize
  /\ queue' = Append(queue, e)
  /\ SetPhase(e, "accepted")
  /\ UNCHANGED <<mode, registryVars, published, todo, running, received,
                 worker, closing, panicked>>

\* "event queue is full": the event is dropped.  (PublishAsync drops the
\* error too.)
QueueFull(e) ==
  /\ Sending(e) /\ closing = "open"
  /\ Len(queue) = QueueSize
  /\ SetPhase(e, "failed")
  /\ todo' = [todo EXCEPT ![e] = {}]
  /\ UNCHANGED <<mode, registryVars, published, running, received, queueVars>>

\* A send on the closed channel, in a goroutine that nothing recovers.
SendPanics(e) ==
  /\ Sending(e) /\ closing # "open"
  /\ panicked' = TRUE
  /\ UNCHANGED <<mode, registryVars, published, deliveryVars, queue, worker, closing>>

\* Mutant: the worker stops when it sees the channel closed.
Receive_UntilClosed ==
  /\ worker = 0 /\ queue # << >> /\ closing = "open"
  /\ worker' = Head(queue)
  /\ queue' = Tail(queue)
  /\ UNCHANGED <<mode, registryVars, published, deliveryVars, closing, panicked>>

\* Mutant: the newest event is taken first.
Receive_Newest ==
  /\ worker = 0 /\ queue # << >>
  /\ worker' = queue[Len(queue)]
  /\ queue' = SubSeq(queue, 1, Len(queue) - 1)
  /\ UNCHANGED <<mode, registryVars, published, deliveryVars, closing, panicked>>

Receive ==
  /\ worker = 0 /\ queue # << >>
  /\ worker' = Head(queue)
  /\ queue' = Tail(queue)
  /\ UNCHANGED <<mode, registryVars, published, deliveryVars, closing, panicked>>

Processed ==
  /\ worker # 0 /\ Finished(worker)
  /\ worker' = 0
  /\ UNCHANGED <<mode, registryVars, published, deliveryVars, queue, closing, panicked>>

\* Close: close(queue), then wait for the worker.
Close ==
  /\ mode.strategy = "ordered"
  /\ IF closing = "open"
     THEN closing' = "waiting" /\ UNCHANGED panicked
     ELSE panicked' = TRUE /\ UNCHANGED closing
  /\ UNCHANGED <<mode, registryVars, published, deliveryVars, queue, worker>>

\* Mutant: Close waits for an empty channel, not for the worker.
CloseReturns_QueueOnly ==
  /\ closing = "waiting"
  /\ queue = << >>
  /\ closing' = "closed"
  /\ UNCHANGED <<mode, registryVars, published, deliveryVars, queue, worker, panicked>>

CloseReturns ==
  /\ closing = "waiting"
  /\ queue = << >> /\ worker = 0
  /\ closing' = "closed"
  /\ UNCHANGED <<mode, registryVars, published, deliveryVars, queue, worker, panicked>>
-----------------------------------------------------------------------------
RegistryStep ==
  \/ SubscribeGenerated
  \/ SubscribeWithID
  \/ \E l \in Listeners : EndSubscription(l)
  \/ Unsubscribe

\* Steps of goroutines that have work to do.
PublishProgress(e) ==
  GetListeners(e) \/ Return(e) \/ Enqueue(e) \/ QueueFull(e) \/ SendPanics(e)
CallProgress(e, l) == OnEvent(e, l) \/ OnEventEnds(e, l)
WorkerProgress == Receive \/ Processed

\* An unrecovered panic ends the process.
Next ==
  /\ ~panicked
  /\ \/ RegistryStep
     \/ \E e \in Events :
          \/ Publish(e) \/ PublishProgress(e)
          \/ \E l \in Listeners : CallProgress(e, l)
     \/ WorkerProgress
     \/ Close
     \/ CloseReturns

Spec == Init /\ [][Next]_vars

(***************************************************************************)
(* Fairness: goroutines are scheduled, and listeners return.               *)
(***************************************************************************)
FairSpec ==
  /\ Spec
  /\ \A e \in Events : WF_vars(~panicked /\ PublishProgress(e))
  /\ \A e \in Events, l \in Listeners : WF_vars(~panicked /\ CallProgress(e, l))
  /\ WF_vars(~panicked /\ WorkerProgress)
-----------------------------------------------------------------------------
TypeOK ==
  /\ mode \in Modes
  /\ DOMAIN registry \subseteq NamedIds \cup 1 .. MaxListeners
  /\ Range(registry) \subseteq 1 .. Len(subscriptions)
  /\ nextID \in 1 .. MaxListeners + 1
  /\ Len(subscriptions) <= MaxListeners
  /\ published \in 0 .. MaxEvents
  /\ phase \in [Events -> Phases]
  /\ todo \in [Events -> SUBSET Listeners]
  /\ running \in [Events -> SUBSET Listeners]
  /\ Range(queue) \subseteq Events /\ Len(queue) <= QueueSize
  /\ worker \in {0} \cup Events
  /\ closing \in {"open", "waiting", "closed"}
  /\ panicked \in BOOLEAN
  /\ \A l \in Listeners : Range(received[l]) \subseteq Events
  /\ left \in [Listeners -> 0 .. MaxEvents]

(***************************************************************************)
(* A goroutine that publishes its events one after the other has them      *)
(* delivered in that order to every listener, by every strategy but the    *)
(* asynchronous one.  (strategy.go:24, 84, 136.)                           *)
(***************************************************************************)
Ascending(s) == \A i, j \in DOMAIN s : i < j => s[i] < s[j]

InOrder ==
  mode.publish = "Publish" /\ mode.strategy # "async" =>
    \A l \in Listeners : Ascending(received[l])

(***************************************************************************)
(* The ordered strategy shows all listeners the same order, whoever        *)
(* publishes and whoever subscribes meanwhile: no two of them get two      *)
(* events the other way round, and none gets an event twice.               *)
(***************************************************************************)
Before(l, d, e) ==
  \E i, j \in DOMAIN received[l] :
    i < j /\ received[l][i] = d /\ received[l][j] = e

AgreedOrder ==
  mode.strategy = "ordered" =>
    \A k, l \in Listeners, d, e \in Events : ~(Before(k, d, e) /\ Before(l, e, d))

(***************************************************************************)
(* A listener that has been removed - by its subscription, by id, with all *)
(* others, or because its id was subscribed again - gets no event that is  *)
(* published later, whatever is still in progress.  (event.go:106-107.)    *)
(***************************************************************************)
NothingNew ==
  \A l \in Listeners : \A e \in Range(received[l]) : e <= left[l]

(***************************************************************************)
(* When Close has returned, every event the strategy accepted has been     *)
(* delivered to all its listeners, and they are done with it.              *)
(* (strategy.go:200.)                                                      *)
(***************************************************************************)
CloseDrains ==
  closing = "closed" => \A e \in Events : phase[e] = "accepted" => Finished(e)

(***************************************************************************)
(* An event reaches every listener that was registered when it was         *)
(* published and stays registered, unless Publish fails or the process     *)
(* panics; events in the queue when Close is called are not lost.          *)
(***************************************************************************)
Reaches ==
  \A e \in Events, l \in Listeners :
    phase[e] = "called" /\ l \in Range(registry) ~>
      \/ e \in Range(received[l])
      \/ phase[e] = "failed"
      \/ l \notin Range(registry)
      \/ panicked
=============================================================================
