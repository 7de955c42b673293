---------------------------- MODULE EventBusProofs ---------------------------
(***************************************************************************)
(* What the event bus promises about the order and the end of deliveries,  *)
(* for every number of events, listeners and ids and every queue size.     *)
(***************************************************************************)
EXTENDS EventBus, SequenceTheorems, TLAPS

-----------------------------------------------------------------------------
(* Sequences at both ends of a channel. *)

LEMMA Appended ==
  ASSUME NEW S, NEW s \in Seq(S), NEW e \in S, NEW t, t = Append(s, e)
  PROVE  /\ t \in Seq(S) /\ Len(t) = Len(s) + 1
         /\ DOMAIN s = 1 .. Len(s) /\ DOMAIN t = 1 .. Len(s) + 1
         /\ \A i \in DOMAIN s : t[i] = s[i]
         /\ t[Len(s) + 1] = e
<1>1. /\ t \in Seq(S) /\ Len(t) = Len(s) + 1
      /\ \A i \in 1 .. Len(s) : t[i] = s[i]
      /\ t[Len(s) + 1] = e
  BY AppendProperties
<1>2. /\ DOMAIN s = 1 .. Len(s) /\ DOMAIN t = 1 .. Len(t) /\ Len(s) \in Nat
  BY <1>1, LenProperties
<1> QED
  BY <1>1, <1>2

LEMMA Taken ==
  ASSUME NEW S, NEW s \in Seq(S), s # << >>, NEW h, h = Head(s), NEW t, t = Tail(s)
  PROVE  /\ t \in Seq(S) /\ Len(t) = Len(s) - 1 /\ Len(s) > 0
         /\ DOMAIN s = 1 .. Len(s) /\ DOMAIN t = 1 .. Len(s) - 1
         /\ h = s[1] /\ h \in S
         /\ \A i \in DOMAIN t : t[i] = s[i + 1]
<1>1. /\ Head(s) \in S /\ t \in Seq(S) /\ Len(t) = Len(s) - 1
      /\ \A i \in 1 .. Len(t) : t[i] = s[i + 1]
  BY HeadTailProperties
<1>2. Len(s) \in Nat /\ Len(s) # 0
  BY EmptySeq, LenProperties
<1>3. DOMAIN s = 1 .. Len(s) /\ DOMAIN t = 1 .. Len(t)
  BY <1>1, LenProperties
<1>4. h = s[1]
  BY <1>2, SubSeqFull, HeadTailOfSubSeq, 1 \in 1 .. Len(s), Len(s) \in 1 .. Len(s)
<1> QED
  BY <1>1, <1>2, <1>3, <1>4

LEMMA RangeTaken ==
  ASSUME NEW n \in Nat \ {0}, NEW s, DOMAIN s = 1 .. n, NEW t, DOMAIN t = 1 .. n - 1,
         \A i \in DOMAIN t : t[i] = s[i + 1]
  PROVE  Range(s) = {s[1]} \cup Range(t)
<1>1. ASSUME NEW i \in DOMAIN s
      PROVE  s[i] \in {s[1]} \cup Range(t)
  <2>1. CASE i = 1
    BY <2>1
  <2>2. CASE i # 1
    <3>1. i - 1 \in DOMAIN t
      BY <1>1, <2>2
    <3>2. t[i - 1] = s[i]
      BY <1>1, <3>1
    <3> QED
      BY <3>1, <3>2 DEF Range
  <2> QED
    BY <2>1, <2>2
<1>2. s[1] \in Range(s) /\ \A x \in Range(t) : x \in Range(s)
  BY DEF Range
<1>3. \A x \in Range(s) : x \in {s[1]} \cup Range(t)
  BY <1>1 DEF Range
<1> QED
  BY <1>2, <1>3
-----------------------------------------------------------------------------
(* Types. *)

Ids == NamedIds \cup 1 .. MaxListeners
Entry == [id : Ids, live : BOOLEAN]

Typing ==
  /\ mode \in Modes
  /\ DOMAIN registry \subseteq Ids
  /\ \A i \in DOMAIN registry : registry[i] \in 1 .. Len(subscriptions)
  /\ nextID \in 1 .. Len(subscriptions) + 1
  /\ subscriptions \in Seq(Entry) /\ Len(subscriptions) <= MaxListeners
  /\ published \in 0 .. MaxEvents
  /\ phase \in [Events -> Phases]
  /\ todo \in [Events -> SUBSET Listeners]
  /\ running \in [Events -> SUBSET Listeners]
  /\ queue \in Seq(Events) /\ Len(queue) <= QueueSize
  /\ worker \in {0} \cup Events
  /\ closing \in {"open", "waiting", "closed"}
  /\ panicked \in BOOLEAN
  /\ received \in [Listeners -> Seq(Events)]
  /\ left \in [Listeners -> 0 .. MaxEvents]

LEMMA TypingImplies == Typing => TypeOK
<1> SUFFICES ASSUME Typing
             PROVE  TypeOK
  OBVIOUS
<1>1. Len(subscriptions) \in Nat
  BY LenProperties DEF Typing
<1>2. \A S : \A s \in Seq(S) : Range(s) \subseteq S
  BY LenProperties, ElementOfSeq DEF Range
<1>3. Range(registry) \subseteq 1 .. Len(subscriptions)
  BY DEF Typing, Range
<1> QED
  BY <1>1, <1>2, <1>3, BoundsAssumption DEF Typing, TypeOK, Ids

LEMMA TypingInit == Init => Typing
<1> SUFFICES ASSUME Init
             PROVE  Typing
  OBVIOUS
<1>1. DOMAIN registry = {}
  BY DEF Init
<1>2. subscriptions \in Seq(Entry) /\ Len(subscriptions) = 0
  BY EmptySeq DEF Init
<1>3. queue \in Seq(Events) /\ Len(queue) = 0
  BY EmptySeq DEF Init
<1>4. received \in [Listeners -> Seq(Events)]
  BY EmptySeq DEF Init
<1>5. /\ mode \in Modes /\ nextID = 1 /\ published = 0
      /\ phase = [e \in Events |-> "none"]
      /\ todo = [e \in Events |-> {}]
      /\ running = [e \in Events |-> {}]
      /\ worker = 0 /\ closing = "open" /\ panicked = FALSE
      /\ left = [l \in Listeners |-> StillHere]
  BY DEF Init
<1>6. /\ phase \in [Events -> Phases]
      /\ todo \in [Events -> SUBSET Listeners]
      /\ running \in [Events -> SUBSET Listeners]
      /\ left \in [Listeners -> 0 .. MaxEvents]
  BY <1>5, BoundsAssumption DEF Phases, StillHere
<1>7. Len(queue) <= QueueSize /\ Len(subscriptions) <= MaxListeners
      /\ published \in 0 .. MaxEvents /\ nextID \in 1 .. Len(subscriptions) + 1
  BY <1>2, <1>3, <1>5, BoundsAssumption
<1> QED
  BY <1>1, <1>2, <1>3, <1>4, <1>5, <1>6, <1>7 DEF Typing

\* What the methods of the registry do to its variables.
LEMMA LeaveTypes ==
  ASSUME Typing, NEW gone, Leave(gone)
  PROVE  left' \in [Listeners -> 0 .. MaxEvents]
  BY DEF Typing, Leave

LEMMA SubscribeFacts ==
  ASSUME Typing, NEW id \in Ids, Subscribe(id)
  PROVE  /\ Len(subscriptions) + 1 <= MaxListeners
         /\ subscriptions' \in Seq(Entry)
         /\ Len(subscriptions') = Len(subscriptions) + 1
         /\ DOMAIN registry' = DOMAIN registry \cup {id}
         /\ registry'[id] = Len(subscriptions) + 1
         /\ \A i \in DOMAIN registry \ {id} : registry'[i] = registry[i]
         /\ UNCHANGED <<mode, published, deliveryVars, queueVars>>
<1>1. subscriptions' = Append(subscriptions, [id |-> id, live |-> TRUE])
  BY DEF Subscribe
<1>2. [id |-> id, live |-> TRUE] \in Entry
  BY DEF Entry
<1>3. subscriptions' \in Seq(Entry) /\ Len(subscriptions') = Len(subscriptions) + 1
  BY <1>1, <1>2, Appended DEF Typing
<1> QED
  BY <1>3 DEF Subscribe

LEMMA RemoveFacts ==
  ASSUME NEW ids, Remove(ids) 
  PROVE  /\ DOMAIN registry' = DOMAIN registry \ ids
         /\ \A i \in DOMAIN registry' : registry'[i] = registry[i]
         /\ Leave({registry[i] : i \in ids \cap DOMAIN registry})
  BY DEF Remove, Restrict

LEMMA EndFacts ==
  ASSUME Typing, NEW l \in Listeners, EndSubscription(l)
  PROVE  /\ subscriptions' \in Seq(Entry)
         /\ Len(subscriptions') = Len(subscriptions)
         /\ \E id : Remove({id})
         /\ UNCHANGED <<mode, nextID, published, deliveryVars, queueVars>>
<1>1. l <= Len(subscriptions)
  BY DEF EndSubscription
<1>2. l \in 1 .. Len(subscriptions)
  BY <1>1, LenProperties, BoundsAssumption DEF Typing, Listeners
<1>3. subscriptions[l] \in Entry
  BY <1>2, ElementOfSeq DEF Typing
<1>4. Ended(subscriptions[l]) \in Entry
  BY <1>3 DEF Ended, Entry
<1>5. subscriptions' = [subscriptions EXCEPT ![l] = Ended(subscriptions[l])]
  BY DEF EndSubscription
<1>6. subscriptions' \in Seq(Entry) /\ Len(subscriptions') = Len(subscriptions)
  BY <1>2, <1>4, <1>5, ExceptSeq DEF Typing
<1> QED
  BY <1>6 DEF EndSubscription

LEMMA RegistryTypes ==
  ASSUME Typing, RegistryStep
  PROVE  /\ DOMAIN registry' \subseteq Ids
         /\ \A i \in DOMAIN registry' : registry'[i] \in 1 .. Len(subscriptions')
         /\ nextID' \in 1 .. Len(subscriptions') + 1
         /\ subscriptions' \in Seq(Entry) /\ Len(subscriptions') <= MaxListeners
         /\ left' \in [Listeners -> 0 .. MaxEvents]
         /\ UNCHANGED <<mode, published, deliveryVars, queueVars>>
<1>1. Len(subscriptions) \in Nat /\ MaxListeners \in Nat
  BY LenProperties, BoundsAssumption DEF Typing
<1>2. /\ DOMAIN registry \subseteq Ids /\ nextID \in 1 .. Len(subscriptions) + 1
       /\ \A i \in DOMAIN registry : registry[i] \in 1 .. Len(subscriptions)
  BY DEF Typing
<1>3. ASSUME NEW id \in Ids, Subscribe(id)
      PROVE  /\ DOMAIN registry' \subseteq Ids
             /\ \A i \in DOMAIN registry' : registry'[i] \in 1 .. Len(subscriptions')
             /\ nextID \in 1 .. Len(subscriptions') /\ nextID + 1 \in 1 .. Len(subscriptions') + 1
             /\ nextID \in 1 .. Len(subscriptions') + 1
             /\ subscriptions' \in Seq(Entry) /\ Len(subscriptions') <= MaxListeners
             /\ UNCHANGED <<mode, published, deliveryVars, queueVars>>
  <2>1. /\ Len(subscriptions) + 1 <= MaxListeners
        /\ subscriptions' \in Seq(Entry)
        /\ Len(subscriptions') = Len(subscriptions) + 1
        /\ DOMAIN registry' = DOMAIN registry \cup {id}
        /\ registry'[id] = Len(subscriptions) + 1
        /\ \A i \in DOMAIN registry \ {id} : registry'[i] = registry[i]
        /\ UNCHANGED <<mode, published, deliveryVars, queueVars>>
    BY <1>3, SubscribeFacts
  <2>2. \A i \in DOMAIN registry' : registry'[i] \in 1 .. Len(subscriptions')
    <3> SUFFICES ASSUME NEW i \in DOMAIN registry'
                 PROVE  registry'[i] \in 1 .. Len(subscriptions')
      OBVIOUS
    <3>1. CASE i = id
      BY <1>1, <2>1, <3>1
    <3>2. CASE i # id
      BY <1>1, <1>2, <2>1, <3>2
    <3> QED
      BY <3>1, <3>2
  <2> QED
    BY <1>1, <1>2, <2>1, <2>2
<1>4. CASE SubscribeGenerated
  <2>1. nextID \in Ids /\ Subscribe(nextID) /\ nextID' = nextID + 1
    BY <1>1, <1>4 DEF SubscribeGenerated, Typing, Ids, Subscribe
  <2>2. left' \in [Listeners -> 0 .. MaxEvents]
    BY <2>1, LeaveTypes DEF Subscribe
  <2> QED
    BY <1>1, <1>3, <2>1, <2>2, SubscribeFacts
<1>5. CASE SubscribeWithID
  <2>1. PICK id \in NamedIds : Subscribe(id) /\ UNCHANGED nextID
    BY <1>5 DEF SubscribeWithID
  <2>2. left' \in [Listeners -> 0 .. MaxEvents]
    BY <2>1, LeaveTypes DEF Subscribe
  <2>3. id \in Ids
    BY DEF Ids
  <2> QED
    BY <1>1, <1>3, <2>1, <2>2, <2>3, SubscribeFacts
<1>6. ASSUME NEW ids, Remove(ids)
      PROVE  /\ DOMAIN registry' \subseteq Ids
             /\ \A i \in DOMAIN registry' : registry'[i] \in 1 .. Len(subscriptions)
             /\ left' \in [Listeners -> 0 .. MaxEvents]
  BY <1>6, RemoveFacts, LeaveTypes DEF Typing
<1>7. CASE \E l \in Listeners : EndSubscription(l)
  BY <1>1, <1>6, <1>7, EndFacts DEF Typing
<1>8. CASE Unsubscribe
  <2>1. PICK ids : Remove(ids)
    BY <1>8 DEF Unsubscribe
  <2>2. UNCHANGED <<mode, nextID, subscriptions, published, deliveryVars, queueVars>>
    BY <1>8 DEF Unsubscribe
  <2> QED
    BY <1>1, <1>6, <2>1, <2>2 DEF Typing
<1> QED
  BY <1>4, <1>5, <1>7, <1>8 DEF RegistryStep

LEMMA TypingStep == Typing /\ [Next]_vars => Typing'
<1> SUFFICES ASSUME Typing, [Next]_vars
             PROVE  Typing'
  OBVIOUS
<1>1. CASE RegistryStep
  BY <1>1, RegistryTypes DEF Typing, deliveryVars, queueVars
<1>2. ASSUME NEW e \in Events, Publish(e) \/ GetListeners(e) \/ Return(e) \/ QueueFull(e)
      PROVE  Typing'
  <2>1. CASE Publish(e)
    <3>1. published' \in 0 .. MaxEvents /\ phase' \in [Events -> Phases]
      BY <2>1, BoundsAssumption DEF Publish, SetPhase, Phases, Events, Typing
    <3> QED
      BY <2>1, <3>1 DEF Publish, Typing, registryVars, queueVars
  <2>2. CASE GetListeners(e)
    <3>1. Range(registry) \in SUBSET Listeners
      <4>1. Len(subscriptions) \in Nat /\ MaxListeners \in Nat
        BY LenProperties, BoundsAssumption DEF Typing
      <4> QED
        BY <4>1 DEF Typing, Range, Listeners
    <3>2. phase' \in [Events -> Phases]
      BY <2>2 DEF GetListeners, SetPhase, Phases, Typing
    <3>3. todo' \in [Events -> SUBSET Listeners]
      BY <2>2, <3>1 DEF GetListeners, Typing
    <3> QED
      BY <2>2, <3>2, <3>3 DEF GetListeners, Typing, registryVars, queueVars
  <2>3. CASE Return(e)
    BY <2>3 DEF Return, SetPhase, Phases, Typing, registryVars, queueVars
  <2>4. CASE QueueFull(e)
    BY <2>4 DEF QueueFull, SetPhase, Phases, Typing, registryVars, queueVars
  <2> QED
    BY <1>2, <2>1, <2>2, <2>3, <2>4
<1>3. ASSUME NEW e \in Events, Enqueue(e)
      PROVE  Typing'
  <2>1. queue' \in Seq(Events) /\ Len(queue') <= QueueSize
    <3>1. queue' \in Seq(Events) /\ Len(queue') = Len(queue) + 1 /\ Len(queue) < QueueSize
      BY <1>3, Appended DEF Enqueue, Typing
    <3> QED
      BY <3>1, LenProperties, BoundsAssumption DEF Typing
  <2>2. phase' \in [Events -> Phases]
    BY <1>3 DEF Enqueue, SetPhase, Phases, Typing
  <2> QED
    BY <1>3, <2>1, <2>2 DEF Enqueue, Typing, registryVars
<1>4. ASSUME NEW e \in Events, SendPanics(e)
      PROVE  Typing'
  BY <1>4 DEF SendPanics, Typing, registryVars, deliveryVars
<1>5. ASSUME NEW e \in Events, NEW l \in Listeners, OnEvent(e, l)
      PROVE  Typing'
  <2>1. received' = [received EXCEPT ![l] = Append(received[l], e)]
    BY <1>5 DEF OnEvent
  <2>2. Append(received[l], e) \in Seq(Events)
    BY Appended DEF Typing
  <2>3. received' \in [Listeners -> Seq(Events)]
    BY <2>1, <2>2 DEF Typing
  <2>4. todo' \in [Events -> SUBSET Listeners] /\ running' \in [Events -> SUBSET Listeners]
    BY <1>5 DEF OnEvent, Typing
  <2> QED
    BY <1>5, <2>3, <2>4 DEF OnEvent, Typing, registryVars, queueVars
<1>6. ASSUME NEW e \in Events, NEW l \in Listeners, OnEventEnds(e, l)
      PROVE  Typing'
  BY <1>6 DEF OnEventEnds, Typing, registryVars, queueVars
<1>7. CASE Receive
  <2>1. queue' \in Seq(Events) /\ worker' \in Events /\ Len(queue') = Len(queue) - 1
    BY <1>7, Taken DEF Receive, Typing
  <2>2. Len(queue') <= QueueSize
    BY <2>1, LenProperties, BoundsAssumption DEF Typing
  <2> QED
    BY <1>7, <2>1, <2>2 DEF Receive, Typing, registryVars, deliveryVars
<1>8. CASE Processed \/ Close \/ CloseReturns
  BY <1>8 DEF Processed, Close, CloseReturns, Typing, registryVars, deliveryVars
<1>9. CASE UNCHANGED vars
  BY <1>9 DEF vars, registryVars, deliveryVars, queueVars, Typing
<1> QED
  BY <1>1, <1>2, <1>3, <1>4, <1>5, <1>6, <1>7, <1>8, <1>9
     DEF Next, PublishProgress, CallProgress, WorkerProgress

(***************************************************************************)
(* The variables of the bus keep their types.                              *)
(***************************************************************************)
THEOREM BusTyping == Spec => []TypeOK
  BY TypingInit, TypingStep, TypingImplies, PTL DEF Spec
-----------------------------------------------------------------------------
(* A delivery in preparation, and who may still be called. *)

\* An event is not delivered before its publisher has the listeners.
Untouched ==
  \A e \in Events :
    /\ phase[e] # "none" => e <= published
    /\ phase[e] \in {"none", "called"} =>
         /\ todo[e] = {} /\ running[e] = {}
         /\ \A l \in Listeners : e \notin Range(received[l])

\* A listener has one id at most, and has not left while it has one.
Registered ==
  /\ \A i, j \in DOMAIN registry : registry[i] = registry[j] => i = j
  /\ \A l \in Listeners :
       l \in Range(registry) \/ l > Len(subscriptions) => left[l] = StillHere

NothingAhead == \A e \in Events : \A l \in todo[e] : e <= left[l]

NewsInv == Untouched /\ Registered /\ NothingAhead /\ NothingNew

LEMMA EmptyRange == \A s : DOMAIN s = {} => Range(s) = {}
  BY DEF Range

LEMMA InitFacts ==
  ASSUME Init
  PROVE  /\ \A e \in Events : phase[e] = "none" /\ todo[e] = {} /\ running[e] = {}
         /\ \A l \in Listeners : DOMAIN received[l] = {} /\ left[l] = StillHere
         /\ DOMAIN registry = {} /\ DOMAIN queue = {} /\ Len(queue) = 0
         /\ worker = 0 /\ closing = "open"
  BY DEF Init

LEMMA ReceivedBy ==
  ASSUME Typing, NEW e \in Events, NEW l \in Listeners, OnEvent(e, l)
  PROVE  /\ \A k \in Listeners \ {l} : received'[k] = received[k]
         /\ DOMAIN received[l] = 1 .. Len(received[l])
         /\ DOMAIN received'[l] = 1 .. Len(received[l]) + 1
         /\ Len(received[l]) \in Nat
         /\ \A i \in DOMAIN received[l] : received'[l][i] = received[l][i]
         /\ received'[l][Len(received[l]) + 1] = e
         /\ Range(received'[l]) = Range(received[l]) \cup {e}
<1>1. received[l] \in Seq(Events) /\ received \in [Listeners -> Seq(Events)]
  BY DEF Typing
<1>2. received' = [received EXCEPT ![l] = Append(received[l], e)]
  BY DEF OnEvent
<1>3. received'[l] = Append(received[l], e)
  BY <1>1, <1>2
<1>4. \A k \in Listeners \ {l} : received'[k] = received[k]
  BY <1>1, <1>2
<1>5. Len(received[l]) \in Nat
  BY <1>1, LenProperties
<1> DEFINE s == received[l]
           t == received'[l]
<1>6. s \in Seq(Events) /\ t = Append(s, e)
  BY <1>1, <1>3
<1> HIDE DEF s, t
<1>7. /\ DOMAIN s = 1 .. Len(s) /\ DOMAIN t = 1 .. Len(s) + 1
      /\ \A i \in DOMAIN s : t[i] = s[i]
      /\ t[Len(s) + 1] = e
  BY <1>6, Appended
<1>8. Range(t) = Range(s) \cup {e}
  BY <1>6, <1>7, LenProperties DEF Range
<1> QED
  BY <1>4, <1>5, <1>7, <1>8 DEF s, t

LEMMA UntouchedStep == Typing /\ Untouched /\ [Next]_vars => Untouched'
<1> SUFFICES ASSUME Typing, Untouched, [Next]_vars
             PROVE  Untouched'
  OBVIOUS
<1> USE DEF Untouched
<1>1. CASE RegistryStep
  BY <1>1, RegistryTypes DEF deliveryVars, queueVars
<1>2. ASSUME NEW e \in Events, Publish(e)
      PROVE  Untouched'
  <2>1. /\ e = published + 1 /\ published' = e /\ phase' = [phase EXCEPT ![e] = "called"]
        /\ UNCHANGED <<todo, running, received>>
    BY <1>2 DEF Publish, SetPhase
  <2>2. published \in Nat /\ phase \in [Events -> Phases] /\ Events \subseteq Nat
    BY BoundsAssumption DEF Typing, Events
  <2>3. phase[e] = "none"
    BY <2>1, <2>2
  <2> QED
    BY <2>1, <2>2, <2>3
<1>3. ASSUME NEW e \in Events,
             GetListeners(e) \/ Return(e) \/ Enqueue(e) \/ QueueFull(e) \/ SendPanics(e)
      PROVE  Untouched'
  <2>1. UNCHANGED <<published, running, received>>
    BY <1>3 DEF GetListeners, Return, Enqueue, QueueFull, SendPanics, deliveryVars, queueVars
  <2>2. phase[e] \in {"called", "delivering"}
    BY <1>3 DEF GetListeners, Return, Enqueue, QueueFull, SendPanics, Sending
  <2>3. \A d \in Events \ {e} : phase'[d] = phase[d] /\ todo'[d] = todo[d]
    BY <1>3 DEF Typing, GetListeners, Return, Enqueue, QueueFull, SendPanics, SetPhase, deliveryVars
  <2>4. phase'[e] \notin {"none", "called"}
    <3>1. phase' = phase \/ \E p \in Phases \ {"none", "called"} : phase' = [phase EXCEPT ![e] = p]
      BY <1>3 DEF GetListeners, Return, Enqueue, QueueFull, SendPanics, SetPhase, deliveryVars, Phases
    <3>2. phase' = phase => phase[e] = "delivering"
      <4>1. CASE GetListeners(e)
        BY <4>1 DEF GetListeners, SetPhase, Typing
      <4>2. CASE Return(e) \/ Enqueue(e) \/ QueueFull(e) \/ SendPanics(e)
        BY <4>2 DEF Return, Enqueue, QueueFull, SendPanics, Sending
      <4> QED
        BY <1>3, <4>1, <4>2
    <3> QED
      BY <3>1, <3>2 DEF Typing, Phases
  <2> QED
    BY <2>1, <2>2, <2>3, <2>4
<1>4. ASSUME NEW e \in Events, NEW l \in Listeners, OnEvent(e, l)
      PROVE  Untouched'
  <2>1. /\ UNCHANGED <<published, phase>>
        /\ phase[e] \notin {"none", "called"}
        /\ \A d \in Events \ {e} : todo'[d] = todo[d] /\ running'[d] = running[d]
    BY <1>4 DEF OnEvent, Typing
  <2>2. \A d \in Events \ {e}, k \in Listeners :
          d \in Range(received'[k]) => d \in Range(received[k])
    BY <1>4, ReceivedBy
  <2> QED
    BY <2>1, <2>2
<1>5. ASSUME NEW e \in Events, NEW l \in Listeners, OnEventEnds(e, l)
      PROVE  Untouched'
  BY <1>5 DEF OnEventEnds, Typing
<1>6. CASE WorkerProgress \/ Close \/ CloseReturns
  BY <1>6 DEF WorkerProgress, Receive, Processed, Close, CloseReturns, deliveryVars
<1>7. CASE UNCHANGED vars
  BY <1>7 DEF vars, deliveryVars
<1> QED
  BY <1>1, <1>2, <1>3, <1>4, <1>5, <1>6, <1>7
     DEF Next, PublishProgress, CallProgress

\* Whoever leaves the registry leaves it for good.
LEMMA RegisteredStep == Typing /\ Registered /\ [Next]_vars => Registered'
<1> SUFFICES ASSUME Typing, Registered, [Next]_vars
             PROVE  Registered'
  OBVIOUS
<1> USE DEF Registered
<1>1. /\ Len(subscriptions) \in Nat /\ MaxListeners \in Nat /\ Listeners \subseteq Nat
      /\ left \in [Listeners -> 0 .. MaxEvents]
      /\ \A i \in DOMAIN registry : registry[i] \in 1 .. Len(subscriptions)
  BY LenProperties, BoundsAssumption DEF Typing, Listeners
<1>2. ASSUME NEW id \in Ids, Subscribe(id)
      PROVE  Registered'
  <2>1. /\ Len(subscriptions') = Len(subscriptions) + 1
        /\ DOMAIN registry' = DOMAIN registry \cup {id}
        /\ registry'[id] = Len(subscriptions) + 1
        /\ \A i \in DOMAIN registry \ {id} : registry'[i] = registry[i]
    BY <1>2, SubscribeFacts
  <2>2. \A i, j \in DOMAIN registry' : registry'[i] = registry'[j] => i = j
    BY <1>1, <2>1
  <2>3. ASSUME NEW l \in Listeners, l \in Range(registry') \/ l > Len(subscriptions')
        PROVE  left'[l] = StillHere
    <3>1. l > Len(subscriptions) \/ \E i \in DOMAIN registry \ {id} : l = registry[i]
      BY <1>1, <2>1, <2>3 DEF Range
    <3>2. left[l] = StillHere
      BY <3>1 DEF Range
    <3>3. id \in DOMAIN registry => l # registry[id]
      BY <1>1, <3>1
    <3>4. Leave(IF id \in DOMAIN registry THEN {registry[id]} ELSE {})
      BY <1>2 DEF Subscribe
    <3> QED
      BY <1>1, <3>2, <3>3, <3>4 DEF Leave
  <2> QED
    BY <2>2, <2>3
<1>3. ASSUME NEW ids, Remove(ids), Len(subscriptions') = Len(subscriptions)
      PROVE  Registered'
  <2>1. /\ DOMAIN registry' = DOMAIN registry \ ids
        /\ \A i \in DOMAIN registry' : registry'[i] = registry[i]
        /\ Leave({registry[i] : i \in ids \cap DOMAIN registry})
    BY <1>3, RemoveFacts
  <2>2. \A i, j \in DOMAIN registry' : registry'[i] = registry'[j] => i = j
    BY <2>1
  <2>3. ASSUME NEW l \in Listeners, l \in Range(registry') \/ l > Len(subscriptions')
        PROVE  left'[l] = StillHere
    <3>1. l > Len(subscriptions) \/ \E j \in DOMAIN registry \ ids : l = registry[j]
      BY <1>3, <2>1, <2>3 DEF Range
    <3>2. left[l] = StillHere
      BY <3>1 DEF Range
    <3>3. l \notin {registry[i] : i \in ids \cap DOMAIN registry}
      BY <1>1, <3>1
    <3> QED
      BY <1>1, <2>1, <3>2, <3>3 DEF Leave
  <2> QED
    BY <2>2, <2>3
<1>4. CASE RegistryStep
  <2>1. CASE SubscribeGenerated
    <3>1. nextID \in Ids
      BY <1>1, <2>1 DEF SubscribeGenerated, Subscribe, Typing, Ids
    <3> QED
      BY <1>2, <2>1, <3>1 DEF SubscribeGenerated
  <2>2. CASE SubscribeWithID
    BY <1>2, <2>2 DEF SubscribeWithID, Ids
  <2>3. CASE \E l \in Listeners : EndSubscription(l)
    BY <1>3, <2>3, EndFacts
  <2>4. CASE Unsubscribe
    <3>1. \E ids : Remove(ids)
      BY <2>4 DEF Unsubscribe
    <3>2. UNCHANGED subscriptions
      BY <2>4 DEF Unsubscribe
    <3> QED
      BY <1>3, <3>1, <3>2
  <2> QED
    BY <1>4, <2>1, <2>2, <2>3, <2>4 DEF RegistryStep
<1>5. CASE UNCHANGED registryVars
  BY <1>5 DEF registryVars
<1> QED
  <2>1. CASE \E e \in Events : Publish(e) \/ PublishProgress(e)
    BY <1>5, <2>1 DEF Publish, PublishProgress, GetListeners, Return, Enqueue, QueueFull, SendPanics
  <2>2. CASE \E e \in Events, l \in Listeners : CallProgress(e, l)
    BY <1>5, <2>2 DEF CallProgress, OnEvent, OnEventEnds
  <2>3. CASE WorkerProgress \/ Close \/ CloseReturns \/ UNCHANGED vars
    BY <1>5, <2>3 DEF WorkerProgress, Receive, Processed, Close, CloseReturns, vars
  <2> QED
    BY <1>4, <2>1, <2>2, <2>3 DEF Next

LEMMA NewsStep == Typing /\ NewsInv /\ [Next]_vars => NewsInv'
<1> SUFFICES ASSUME Typing, NewsInv, [Next]_vars
             PROVE  NothingAhead' /\ NothingNew'
  BY UntouchedStep, RegisteredStep DEF NewsInv
<1> USE DEF NothingAhead, NothingNew
<1>1. /\ Untouched /\ Registered /\ NothingAhead /\ NothingNew
      /\ published \in 0 .. MaxEvents /\ MaxEvents \in Nat
      /\ left \in [Listeners -> 0 .. MaxEvents]
      /\ \A l \in Listeners : Range(received[l]) \subseteq Events
      /\ \A e \in Events : todo[e] \subseteq Listeners
      /\ Events = 1 .. MaxEvents
  <2>1. \A l \in Listeners : Range(received[l]) \subseteq Events
    BY LenProperties, ElementOfSeq DEF Typing, Range
  <2> QED
    BY <2>1, BoundsAssumption DEF NewsInv, Typing, Events
<1>2. ASSUME NEW gone, Leave(gone), UNCHANGED <<todo, received>>
      PROVE  NothingAhead' /\ NothingNew'
  <2>1. \A l \in Listeners : left'[l] = left[l] \/ left'[l] = published
    BY <1>2 DEF Leave
  <2>2. \A e \in Events : todo[e] # {} => e <= published
    BY <1>1 DEF Untouched
  <2>3. \A l \in Listeners : \A e \in Range(received[l]) : e <= published
    BY <1>1 DEF Untouched
  <2> QED
    BY <1>1, <1>2, <2>1, <2>2, <2>3
<1>3. CASE RegistryStep
  <2>1. UNCHANGED <<todo, received>>
    BY <1>3, RegistryTypes DEF deliveryVars
  <2>2. \E gone : Leave(gone)
    BY <1>3 DEF RegistryStep, SubscribeGenerated, SubscribeWithID, Subscribe,
                EndSubscription, Unsubscribe, Remove
  <2> QED
    BY <1>2, <2>1, <2>2
<1>4. ASSUME NEW e \in Events, GetListeners(e)
      PROVE  NothingAhead' /\ NothingNew'
  <2>1. /\ UNCHANGED <<received, left>>
        /\ todo' = [todo EXCEPT ![e] = Range(registry)]
    BY <1>4 DEF GetListeners, registryVars
  <2>2. \A l \in Range(registry) : l \in Listeners /\ left[l] = MaxEvents
    <3>1. Range(registry) \subseteq Listeners
      BY TypingImplies, LenProperties, BoundsAssumption DEF Typing, Listeners, Range
    <3> QED
      BY <1>1, <3>1 DEF Registered, StillHere
  <2>3. \A d \in Events : d # e => todo'[d] = todo[d]
    BY <2>1 DEF Typing
  <2>4. todo'[e] = Range(registry)
    BY <2>1 DEF Typing
  <2> QED
    BY <1>1, <2>1, <2>2, <2>3, <2>4
<1>5. ASSUME NEW e \in Events,
             Publish(e) \/ Return(e) \/ Enqueue(e) \/ QueueFull(e) \/ SendPanics(e)
      PROVE  NothingAhead' /\ NothingNew'
  <2>1. /\ UNCHANGED <<received, left>>
        /\ todo' = todo \/ todo' = [todo EXCEPT ![e] = {}]
    BY <1>5 DEF Publish, Return, Enqueue, QueueFull, SendPanics, registryVars, deliveryVars
  <2> QED
    BY <1>1, <2>1 DEF Typing
<1>6. ASSUME NEW e \in Events, NEW l \in Listeners, OnEvent(e, l)
      PROVE  NothingAhead' /\ NothingNew'
  <2>1. /\ l \in todo[e] /\ UNCHANGED left
        /\ \A d \in Events : todo'[d] \subseteq todo[d]
    BY <1>6 DEF OnEvent, registryVars, Typing
  <2>2. \A k \in Listeners : \A d \in Range(received'[k]) :
          d \in Range(received[k]) \/ (d = e /\ k = l)
    <3>1. Range(received'[l]) = Range(received[l]) \cup {e}
      BY <1>6, ReceivedBy
    <3>2. \A k \in Listeners \ {l} : received'[k] = received[k]
      BY <1>6, ReceivedBy
    <3> QED
      BY <3>1, <3>2
  <2> QED
    BY <1>1, <2>1, <2>2
<1>7. CASE UNCHANGED <<todo, received, left>>
  BY <1>1, <1>7
<1> QED
  <2>1. CASE \E e \in Events, l \in Listeners : OnEventEnds(e, l)
    BY <1>7, <2>1 DEF OnEventEnds, registryVars
  <2>2. CASE WorkerProgress \/ Close \/ CloseReturns \/ UNCHANGED vars
    BY <1>7, <2>2 DEF WorkerProgress, Receive, Processed, Close, CloseReturns, vars,
                      registryVars, deliveryVars
  <2> QED
    BY <1>3, <1>4, <1>5, <1>6, <2>1, <2>2 DEF Next, PublishProgress, CallProgress

(***************************************************************************)
(* A removed listener gets no event that is published later.               *)
(***************************************************************************)
THEOREM NoLaterEvents == Spec => []NothingNew
<1>1. Init => NewsInv
  <2> SUFFICES ASSUME Init
               PROVE  NewsInv
    OBVIOUS
  <2> QED
    BY InitFacts, EmptyRange
       DEF NewsInv, Untouched, Registered, NothingAhead, NothingNew
<1>2. NewsInv => NothingNew
  BY DEF NewsInv
<1> QED
  BY <1>1, <1>2, TypingInit, TypingStep, NewsStep, PTL DEF Spec

\* Work that was accepted is in the channel or with the worker.
DrainInv ==
  /\ \A e \in Events :
       phase[e] = "accepted" => Finished(e) \/ e \in Range(queue) \/ e = worker
  /\ closing = "closed" => Len(queue) = 0 /\ worker = 0

LEMMA EnqueueFacts ==
  ASSUME Typing, NEW e \in Events, Enqueue(e)
  PROVE  /\ mode.strategy = "ordered" /\ closing = "open" /\ phase[e] = "delivering"
         /\ phase'[e] = "accepted" /\ \A d \in Events \ {e} : phase'[d] = phase[d]
         /\ Len(queue) \in Nat
         /\ DOMAIN queue = 1 .. Len(queue) /\ DOMAIN queue' = 1 .. Len(queue) + 1
         /\ \A i \in DOMAIN queue : queue'[i] = queue[i]
         /\ queue'[Len(queue) + 1] = e
         /\ Range(queue') = Range(queue) \cup {e}
         /\ UNCHANGED <<mode, registryVars, published, todo, running, received,
                        worker, closing, panicked>>
<1>1. queue \in Seq(Events) /\ queue' = Append(queue, e)
  BY DEF Enqueue, Typing
<1>2. /\ Len(queue) \in Nat
      /\ DOMAIN queue = 1 .. Len(queue) /\ DOMAIN queue' = 1 .. Len(queue) + 1
      /\ \A i \in DOMAIN queue : queue'[i] = queue[i]
      /\ queue'[Len(queue) + 1] = e
  BY <1>1, Appended, LenProperties
<1>3. Range(queue') = Range(queue) \cup {e}
  BY <1>2 DEF Range
<1>4. phase' = [phase EXCEPT ![e] = "accepted"] /\ phase \in [Events -> Phases]
  BY DEF Enqueue, SetPhase, Typing
<1>5. /\ mode.strategy = "ordered" /\ closing = "open" /\ phase[e] = "delivering"
      /\ UNCHANGED <<mode, registryVars, published, todo, running, received,
                     worker, closing, panicked>>
  BY DEF Enqueue, Sending
<1>6. phase'[e] = "accepted" /\ \A d \in Events \ {e} : phase'[d] = phase[d]
  BY <1>4
<1> QED
  BY <1>2, <1>3, <1>5, <1>6

LEMMA ReceiveFacts ==
  ASSUME Typing, Receive
  PROVE  /\ worker = 0 /\ Len(queue) \in Nat \ {0}
         /\ DOMAIN queue = 1 .. Len(queue) /\ DOMAIN queue' = 1 .. Len(queue) - 1
         /\ worker' = queue[1] /\ worker' \in Events
         /\ \A i \in DOMAIN queue' : queue'[i] = queue[i + 1]
         /\ Range(queue) = {worker'} \cup Range(queue')
         /\ UNCHANGED <<mode, registryVars, published, deliveryVars, closing, panicked>>
<1>1. queue \in Seq(Events) /\ queue # << >> /\ worker' = Head(queue) /\ queue' = Tail(queue)
  BY DEF Receive, Typing
<1>2. /\ Len(queue) > 0
      /\ DOMAIN queue = 1 .. Len(queue) /\ DOMAIN queue' = 1 .. Len(queue) - 1
      /\ worker' = queue[1] /\ worker' \in Events
      /\ \A i \in DOMAIN queue' : queue'[i] = queue[i + 1]
  BY <1>1, Taken
<1>3. Len(queue) \in Nat
  BY <1>1, LenProperties
<1>4. Range(queue) = {worker'} \cup Range(queue')
  BY <1>2, <1>3, RangeTaken
<1>5. worker = 0 /\ UNCHANGED <<mode, registryVars, published, deliveryVars, closing, panicked>>
  BY DEF Receive
<1> QED
  BY <1>2, <1>3, <1>4, <1>5

LEMMA DrainStep == Typing /\ DrainInv /\ [Next]_vars => DrainInv'
<1> SUFFICES ASSUME Typing, DrainInv, [Next]_vars
             PROVE  DrainInv'
  OBVIOUS
<1> USE DEF DrainInv, Finished
<1>1. CASE RegistryStep
  BY <1>1, RegistryTypes DEF deliveryVars, queueVars
<1>2. ASSUME NEW e \in Events,
             Publish(e) \/ GetListeners(e) \/ Return(e) \/ QueueFull(e) \/ SendPanics(e)
      PROVE  DrainInv'
  <2>1. UNCHANGED <<queue, worker, closing, running>>
    BY <1>2 DEF Publish, GetListeners, Return, QueueFull, SendPanics, deliveryVars, queueVars
  <2>2. \A d \in Events \ {e} : phase'[d] = phase[d] /\ todo'[d] = todo[d]
    BY <1>2 DEF Publish, GetListeners, Return, QueueFull, SendPanics, SetPhase, deliveryVars, Typing
  <2>3. phase'[e] # "accepted"
    BY <1>2 DEF Publish, GetListeners, Return, QueueFull, SendPanics, SetPhase, Sending,
                deliveryVars, Typing
  <2> QED
    BY <2>1, <2>2, <2>3
<1>3. ASSUME NEW e \in Events, Enqueue(e)
      PROVE  DrainInv'
  <2>1. /\ \A d \in Events \ {e} : phase'[d] = phase[d]
        /\ Range(queue') = Range(queue) \cup {e}
        /\ closing = "open" /\ UNCHANGED <<todo, running, worker, closing>>
    BY <1>3, EnqueueFacts
  <2> QED
    BY <2>1
<1>4. ASSUME NEW e \in Events, NEW l \in Listeners, CallProgress(e, l)
      PROVE  DrainInv'
  <2>1. UNCHANGED <<phase, queue, worker, closing>>
    BY <1>4 DEF CallProgress, OnEvent, OnEventEnds, queueVars
  <2>2. \A d \in Events \ {e} : todo'[d] = todo[d] /\ running'[d] = running[d]
    BY <1>4 DEF CallProgress, OnEvent, OnEventEnds, Typing
  <2>3. ~Finished(e)
    BY <1>4 DEF CallProgress, OnEvent, OnEventEnds
  <2> QED
    BY <2>1, <2>2, <2>3
<1>5. CASE Receive
  <2>1. closing # "closed"
    BY <1>5, ReceiveFacts
  <2>2. /\ Range(queue) = {worker'} \cup Range(queue') /\ worker = 0
        /\ UNCHANGED <<phase, todo, running, closing>>
    BY <1>5, ReceiveFacts DEF deliveryVars
  <2>3. 0 \notin Events
    BY DEF Events
  <2> QED
    BY <2>1, <2>2, <2>3
<1>6. CASE Processed
  BY <1>6 DEF Processed, deliveryVars
<1>7. CASE Close
  BY <1>7 DEF Close, deliveryVars
<1>8. CASE CloseReturns
  <2>1. queue = << >>
    BY <1>8 DEF CloseReturns
  <2>2. Len(queue) = 0
    BY <2>1
  <2>3. worker = 0 /\ UNCHANGED <<deliveryVars, queue, worker>>
    BY <1>8 DEF CloseReturns
  <2> QED
    BY <2>2, <2>3 DEF deliveryVars
<1>9. CASE UNCHANGED vars
  BY <1>9 DEF vars, deliveryVars, queueVars
<1> QED
  BY <1>1, <1>2, <1>3, <1>4, <1>5, <1>6, <1>7, <1>8, <1>9
     DEF Next, PublishProgress, WorkerProgress

(***************************************************************************)
(* When Close has returned, what was accepted has been delivered.          *)
(***************************************************************************)
THEOREM ClosedIsDrained == Spec => []CloseDrains
<1>1. Init => DrainInv
  BY InitFacts DEF DrainInv
<1>2. Typing /\ DrainInv => CloseDrains
  <2> SUFFICES ASSUME Typing, DrainInv, closing = "closed",
                      NEW e \in Events, phase[e] = "accepted"
               PROVE  Finished(e)
    BY DEF CloseDrains
  <2>1. Range(queue) = {} /\ worker = 0
    BY LenProperties DEF DrainInv, Typing, Range
  <2>2. e # 0
    BY DEF Events
  <2> QED
    BY <2>1, <2>2 DEF DrainInv
<1> QED
  BY <1>1, <1>2, TypingInit, TypingStep, DrainStep, PTL DEF Spec
-----------------------------------------------------------------------------
(* Order *)

Once == \A e \in Events : \A l \in todo[e] : e \notin Range(received[l])

\* Events go through the channel once, and the worker's is the latest.
OneByOne ==
  /\ \A i, j \in DOMAIN queue : i # j => queue[i] # queue[j]
  /\ worker \notin Range(queue)
  /\ \A e \in Range(queue) : phase[e] = "accepted"
  /\ worker # 0 => phase[worker] = "accepted"
  /\ \A l \in Listeners : \A e \in Range(received[l]) :
       phase[e] = "accepted" /\ e \notin Range(queue)
  /\ worker # 0 => \A l \in Listeners : \A i, j \in DOMAIN received[l] :
       i < j => received[l][i] # worker

OrderInv == Untouched /\ Once /\ AgreedOrder /\ (mode.strategy = "ordered" => OneByOne)

\* A step of Publish for e, up to where the strategy has the event.
Prepares(e) == Publish(e) \/ GetListeners(e) \/ Return(e) \/ QueueFull(e) \/ SendPanics(e)

LEMMA PreparesFacts ==
  ASSUME Typing, Untouched, NEW e \in Events, Prepares(e)
  PROVE  /\ phase[e] # "accepted" /\ phase'[e] # "accepted"
         /\ \A d \in Events \ {e} : phase'[d] = phase[d] /\ todo'[d] = todo[d]
         /\ UNCHANGED <<mode, queue, worker, received, running, registryVars>>
<1>1. CASE Publish(e)
  <2>1. phase[e] = "none"
    BY <1>1, BoundsAssumption DEF Publish, Untouched, Typing, Events
  <2> QED
    BY <1>1, <2>1 DEF Publish, SetPhase, queueVars, Typing
<1>2. CASE GetListeners(e)
  BY <1>2 DEF GetListeners, SetPhase, queueVars, Typing
<1>3. CASE Return(e) \/ QueueFull(e) \/ SendPanics(e)
  BY <1>3 DEF Return, QueueFull, SendPanics, Sending, SetPhase, queueVars, deliveryVars, Typing
<1> QED
  BY <1>1, <1>2, <1>3 DEF Prepares

LEMMA OnceStep == Typing /\ Untouched /\ Once /\ [Next]_vars => Once'
<1> SUFFICES ASSUME Typing, Untouched, Once, [Next]_vars
             PROVE  Once'
  OBVIOUS
<1> USE DEF Once
<1>1. CASE RegistryStep
  BY <1>1, RegistryTypes DEF deliveryVars
<1>2. ASSUME NEW e \in Events, Prepares(e)
      PROVE  Once'
  <2>1. /\ UNCHANGED received
        /\ \A d \in Events \ {e} : todo'[d] = todo[d]
    BY <1>2, PreparesFacts
  <2>2. todo'[e] # {} => todo'[e] = todo[e] \/ \A l \in Listeners : e \notin Range(received[l])
    BY <1>2 DEF Prepares, Publish, GetListeners, Return, QueueFull, SendPanics, deliveryVars,
                Untouched, Typing
  <2>3. todo'[e] \subseteq Listeners
    BY <1>2, TypingStep DEF Typing
  <2> QED
    BY <2>1, <2>2, <2>3
<1>3. ASSUME NEW e \in Events, Enqueue(e)
      PROVE  Once'
  BY <1>3 DEF Enqueue
<1>4. ASSUME NEW e \in Events, NEW l \in Listeners, OnEvent(e, l)
      PROVE  Once'
  <2>1. /\ todo'[e] = todo[e] \ {l}
        /\ \A d \in Events \ {e} : todo'[d] = todo[d]
        /\ \A d \in Events : todo[d] \subseteq Listeners
    BY <1>4 DEF OnEvent, Typing
  <2>2. /\ Range(received'[l]) = Range(received[l]) \cup {e}
        /\ \A k \in Listeners \ {l} : received'[k] = received[k]
    BY <1>4, ReceivedBy
  <2> QED
    BY <2>1, <2>2
<1>5. ASSUME NEW e \in Events, NEW l \in Listeners, OnEventEnds(e, l)
      PROVE  Once'
  BY <1>5 DEF OnEventEnds
<1>6. CASE WorkerProgress \/ Close \/ CloseReturns \/ UNCHANGED vars
  BY <1>6 DEF WorkerProgress, Receive, Processed, Close, CloseReturns, deliveryVars, vars
<1> QED
  BY <1>1, <1>2, <1>3, <1>4, <1>5, <1>6 DEF Next, PublishProgress, CallProgress, Prepares

LEMMA AgreedByCalls ==
  ASSUME Typing, Once, OneByOne, AgreedOrder, mode.strategy = "ordered",
         NEW e \in Events, NEW l \in Listeners, OnEvent(e, l)
  PROVE  OneByOne' /\ AgreedOrder'
<1>1. /\ worker = e /\ worker # 0 /\ e \notin Range(received[l])
      /\ UNCHANGED <<queue, worker, phase>>
  BY DEF OnEvent, Turn, Once, queueVars, Events
<1>2. /\ \A k \in Listeners \ {l} : received'[k] = received[k]
      /\ DOMAIN received[l] = 1 .. Len(received[l])
      /\ DOMAIN received'[l] = 1 .. Len(received[l]) + 1
      /\ Len(received[l]) \in Nat
      /\ \A i \in DOMAIN received[l] : received'[l][i] = received[l][i]
      /\ received'[l][Len(received[l]) + 1] = e
      /\ Range(received'[l]) = Range(received[l]) \cup {e}
  BY ReceivedBy
<1>3. ASSUME NEW k \in Listeners, NEW i \in DOMAIN received'[k],
             NEW j \in DOMAIN received'[k], i < j
      PROVE  /\ i \in DOMAIN received[k] /\ received'[k][i] = received[k][i]
             /\ received[k][i] # e
             /\ \/ j \in DOMAIN received[k] /\ received'[k][j] = received[k][j]
                \/ k = l /\ received'[k][j] = e
  <2>1. CASE k = l
    <3>1. i \in DOMAIN received[l] /\ received[l][i] \in Range(received[l])
      BY <1>2, <1>3, <2>1 DEF Range
    <3> QED
      BY <1>1, <1>2, <1>3, <2>1, <3>1
  <2>2. CASE k # l
    BY <1>1, <1>2, <1>3, <2>2 DEF OneByOne
  <2> QED
    BY <2>1, <2>2
<1>4. OneByOne'
  <2>1. \A k \in Listeners : \A d \in Range(received'[k]) : d \in Range(received[k]) \/ d = e
    BY <1>2
  <2>2. \A k \in Listeners : \A d \in Range(received'[k]) :
          phase[d] = "accepted" /\ d \notin Range(queue)
    BY <1>1, <2>1 DEF OneByOne
  <2>3. \A k \in Listeners : \A i, j \in DOMAIN received'[k] : i < j => received'[k][i] # e
    BY <1>3
  <2> QED
    BY <1>1, <2>2, <2>3 DEF OneByOne
<1>5. ASSUME NEW k \in Listeners, NEW a \in Events, NEW b \in Events, Before(k, a, b)'
      PROVE  a # e /\ (Before(k, a, b) \/ b = e)
  BY <1>3, <1>5 DEF Before
<1>6. ASSUME NEW k \in Listeners, NEW m \in Listeners, NEW a \in Events, NEW b \in Events,
             Before(k, a, b)', Before(m, b, a)'
      PROVE  FALSE
  <2>1. a # e /\ b # e
    BY <1>5, <1>6
  <2>2. Before(k, a, b) /\ Before(m, b, a)
    BY <1>5, <1>6, <2>1
  <2> QED
    BY <2>2 DEF AgreedOrder
<1> QED
  BY <1>4, <1>6 DEF AgreedOrder

LEMMA OneByOneStep ==
  ASSUME Typing, Untouched, Once, OneByOne, AgreedOrder, mode.strategy = "ordered", [Next]_vars
  PROVE  OneByOne' /\ AgreedOrder'
<1>1. ASSUME UNCHANGED <<mode, received>>
      PROVE  AgreedOrder'
  BY <1>1 DEF AgreedOrder, Before
<1>2. ASSUME UNCHANGED <<mode, received, queue, worker, phase>>
      PROVE  OneByOne' /\ AgreedOrder'
  BY <1>1, <1>2 DEF OneByOne
<1>3. CASE RegistryStep
  BY <1>2, <1>3, RegistryTypes DEF deliveryVars, queueVars
<1>4. \A s : \A i \in DOMAIN s : s[i] \in Range(s)
  BY DEF Range
<1>5. /\ Range(queue) \subseteq Events /\ worker \in Events \cup {0}
      /\ \A l \in Listeners : Range(received[l]) \subseteq Events
  BY LenProperties, ElementOfSeq DEF Typing, Range
<1>6. ASSUME NEW e \in Events, Prepares(e)
      PROVE  OneByOne' /\ AgreedOrder'
  <2>1. /\ phase[e] # "accepted" /\ \A d \in Events \ {e} : phase'[d] = phase[d]
        /\ UNCHANGED <<mode, queue, worker, received>>
    BY <1>6, PreparesFacts
  <2> QED
    BY <1>1, <1>5, <2>1 DEF OneByOne
<1>7. ASSUME NEW e \in Events, Enqueue(e)
      PROVE  OneByOne' /\ AgreedOrder'
  <2>1. /\ phase[e] = "delivering"
        /\ phase'[e] = "accepted" /\ \A d \in Events \ {e} : phase'[d] = phase[d]
        /\ Range(queue') = Range(queue) \cup {e}
        /\ UNCHANGED <<mode, received, worker>>
    BY <1>7, EnqueueFacts
  <2>2. e \notin Range(queue) /\ worker # e /\ \A l \in Listeners : e \notin Range(received[l])
    BY <1>5, <2>1 DEF OneByOne, Events
  <2>3. \A i, j \in DOMAIN queue' : i # j => queue'[i] # queue'[j]
    <3>1. /\ DOMAIN queue = 1 .. Len(queue) /\ DOMAIN queue' = 1 .. Len(queue) + 1
          /\ Len(queue) \in Nat
          /\ \A i \in DOMAIN queue : queue'[i] = queue[i]
          /\ queue'[Len(queue) + 1] = e
      BY <1>7, EnqueueFacts
    <3>2. \A i \in DOMAIN queue' : i \in DOMAIN queue \/ i = Len(queue) + 1
      BY <3>1
    <3>3. \A i \in DOMAIN queue : queue[i] # e
      BY <1>4, <2>2
    <3> QED
      BY <3>1, <3>2, <3>3 DEF OneByOne
  <2> QED
    BY <1>1, <1>5, <2>1, <2>2, <2>3 DEF OneByOne
<1>8. CASE Receive
  <2>1. /\ Len(queue) \in Nat \ {0}
        /\ DOMAIN queue = 1 .. Len(queue) /\ DOMAIN queue' = 1 .. Len(queue) - 1
        /\ worker' = queue[1]
        /\ \A i \in DOMAIN queue' : queue'[i] = queue[i + 1]
    BY <1>8, ReceiveFacts
  <2>2. /\ Range(queue) = {worker'} \cup Range(queue')
        /\ UNCHANGED <<mode, phase, received>>
    BY <1>8, ReceiveFacts DEF deliveryVars
  <2>3. \A i, j \in DOMAIN queue' : i # j => queue'[i] # queue'[j]
    BY <2>1 DEF OneByOne
  <2>4. worker' \notin Range(queue')
    <3>1. \A i \in DOMAIN queue' : queue'[i] # worker'
      BY <2>1 DEF OneByOne
    <3> QED
      BY <3>1 DEF Range
  <2>5. \A l \in Listeners : worker' \notin Range(received[l])
    BY <2>2 DEF OneByOne
  <2>6. \A l \in Listeners : \A i \in DOMAIN received[l] : received[l][i] # worker'
    BY <1>4, <2>5
  <2> QED
    BY <1>1, <2>2, <2>3, <2>4, <2>6 DEF OneByOne
<1>9. CASE Processed
  <2>1. worker' = 0 /\ UNCHANGED <<mode, queue, phase, received>>
    BY <1>9 DEF Processed, deliveryVars
  <2>2. 0 \notin Range(queue)
    BY <1>5 DEF Events
  <2> QED
    BY <1>1, <2>1, <2>2 DEF OneByOne
<1>10. CASE Close \/ CloseReturns \/ UNCHANGED vars
  BY <1>2, <1>10 DEF Close, CloseReturns, deliveryVars, queueVars, vars
<1>11. ASSUME NEW e \in Events, NEW l \in Listeners, OnEventEnds(e, l)
       PROVE  OneByOne' /\ AgreedOrder'
  BY <1>2, <1>11 DEF OnEventEnds, queueVars
<1> QED
  BY <1>3, <1>6, <1>7, <1>8, <1>9, <1>10, <1>11, AgreedByCalls
     DEF Next, PublishProgress, CallProgress, WorkerProgress, Prepares

LEMMA SameMode == [Next]_vars => UNCHANGED mode
<1> SUFFICES ASSUME [Next]_vars
             PROVE  UNCHANGED mode
  OBVIOUS
<1>1. CASE RegistryStep
  BY <1>1 DEF RegistryStep, SubscribeGenerated, SubscribeWithID, Subscribe, EndSubscription,
              Unsubscribe
<1>2. CASE \E e \in Events : Publish(e) \/ PublishProgress(e)
  BY <1>2 DEF Publish, PublishProgress, GetListeners, Return, Enqueue, QueueFull, SendPanics
<1>3. CASE \E e \in Events, l \in Listeners : CallProgress(e, l)
  BY <1>3 DEF CallProgress, OnEvent, OnEventEnds
<1>4. CASE WorkerProgress \/ Close \/ CloseReturns \/ UNCHANGED vars
  BY <1>4 DEF WorkerProgress, Receive, Processed, Close, CloseReturns, vars
<1> QED
  BY <1>1, <1>2, <1>3, <1>4 DEF Next

LEMMA OrderStep == Typing /\ OrderInv /\ [Next]_vars => OrderInv'
<1> SUFFICES ASSUME Typing, OrderInv, [Next]_vars
             PROVE  AgreedOrder' /\ (mode'.strategy = "ordered" => OneByOne')
  BY UntouchedStep, OnceStep DEF OrderInv
<1>1. UNCHANGED mode
  BY SameMode
<1>2. CASE mode.strategy = "ordered"
  BY <1>1, <1>2, OneByOneStep DEF OrderInv
<1>3. CASE mode.strategy # "ordered"
  BY <1>1, <1>3 DEF AgreedOrder
<1> QED
  BY <1>2, <1>3

LEMMA OrderInit == Init => OrderInv
<1> SUFFICES ASSUME Init
             PROVE  OrderInv
  OBVIOUS
<1> QED
  BY InitFacts, EmptyRange DEF OrderInv, Untouched, Once, AgreedOrder, Before, OneByOne

(***************************************************************************)
(* The ordered strategy shows all listeners the same order, whoever        *)
(* publishes and whoever subscribes meanwhile.                             *)
(***************************************************************************)
THEOREM OneOrder == Spec => []AgreedOrder
<1>1. OrderInv => AgreedOrder
  BY DEF OrderInv
<1> QED
  BY <1>1, OrderInit, OrderStep, TypingInit, TypingStep, PTL DEF Spec

\* One goroutine publishes: the latest event is the only one in its hands,
\* and what waits in the channel is later than all that was delivered.
OneAtATime ==
  /\ \A e \in Events : phase[e] \in {"called", "delivering"} => e = published
  /\ \A e \in Events :
       mode.strategy # "ordered" /\ todo[e] # {} => phase[e] = "delivering"
  /\ mode.strategy = "ordered" =>
       /\ Ascending(queue)
       /\ \A e \in Range(queue) : worker < e
       /\ \A l \in Listeners : \A d \in Range(received[l]) :
            /\ \A e \in Range(queue) : d < e
            /\ worker # 0 => d <= worker

AscendingInv ==
  mode.publish = "Publish" /\ mode.strategy # "async" =>
    OneAtATime /\ \A l \in Listeners : Ascending(received[l])

LEMMA AscendingInit == Init => AscendingInv
<1> SUFFICES ASSUME Init
             PROVE  AscendingInv
  OBVIOUS
<1> QED
  BY InitFacts, EmptyRange DEF AscendingInv, OneAtATime, Ascending

\* With one publishing goroutine a delivery is called in its turn.
LEMMA CalledInTurn ==
  ASSUME Typing, OrderInv, AscendingInv, mode.publish = "Publish", mode.strategy # "async",
         NEW e \in Events, NEW l \in Listeners, OnEvent(e, l)
  PROVE  \A k \in Listeners : \A d \in Range(received[k]) : d <= e
<1>1. Events \subseteq Nat /\ published \in Nat /\ 0 \notin Events
  BY BoundsAssumption DEF Typing, Events
<1>2. ASSUME NEW k \in Listeners, NEW d \in Range(received[k])
      PROVE  d \in Events /\ d <= published
  <2>1. d \in Events
    BY LenProperties, ElementOfSeq DEF Typing, Range
  <2> QED
    BY <1>2, <2>1 DEF OrderInv, Untouched
<1>3. CASE mode.strategy = "ordered"
  BY <1>1, <1>3 DEF OnEvent, Turn, AscendingInv, OneAtATime
<1>4. CASE mode.strategy # "ordered"
  <2>1. phase[e] = "delivering"
    BY <1>4 DEF OnEvent, AscendingInv, OneAtATime
  <2>2. e = published
    BY <2>1 DEF AscendingInv, OneAtATime
  <2> QED
    BY <1>2, <2>2
<1> QED
  BY <1>3, <1>4

LEMMA AscendingByCalls ==
  ASSUME Typing, OrderInv, AscendingInv, mode.publish = "Publish", mode.strategy # "async",
         NEW e \in Events, NEW l \in Listeners, OnEvent(e, l)
  PROVE  OneAtATime' /\ \A k \in Listeners : Ascending(received'[k])
<1>1. /\ \A k \in Listeners \ {l} : received'[k] = received[k]
      /\ DOMAIN received[l] = 1 .. Len(received[l])
      /\ DOMAIN received'[l] = 1 .. Len(received[l]) + 1
      /\ Len(received[l]) \in Nat
      /\ \A i \in DOMAIN received[l] : received'[l][i] = received[l][i]
      /\ received'[l][Len(received[l]) + 1] = e
      /\ Range(received'[l]) = Range(received[l]) \cup {e}
  BY ReceivedBy
<1>2. \A k \in Listeners : \A d \in Range(received[k]) : d <= e
  BY CalledInTurn
<1>3. /\ Events \subseteq Nat
      /\ Range(received[l]) \subseteq Events
  BY LenProperties, ElementOfSeq, BoundsAssumption DEF Typing, Range, Events
<1>4. \A i \in DOMAIN received[l] : received[l][i] \in Range(received[l])
  BY DEF Range
<1>5. e \notin Range(received[l])
  BY DEF OrderInv, Once, OnEvent
<1>6. \A i \in DOMAIN received[l] : received[l][i] < e
  BY <1>2, <1>3, <1>4, <1>5
<1>7. Ascending(received[l])
  BY DEF AscendingInv
<1>8. Ascending(received'[l])
  <2> SUFFICES ASSUME NEW i \in 1 .. Len(received[l]) + 1,
                      NEW j \in 1 .. Len(received[l]) + 1, i < j
               PROVE  received'[l][i] < received'[l][j]
    BY <1>1 DEF Ascending
  <2>1. i \in DOMAIN received[l]
    BY <1>1
  <2>2. CASE j \in DOMAIN received[l]
    BY <1>1, <1>7, <2>1, <2>2 DEF Ascending
  <2>3. CASE j \notin DOMAIN received[l]
    <3>1. j = Len(received[l]) + 1
      BY <1>1, <2>3
    <3> QED
      BY <1>1, <1>6, <2>1, <3>1
  <2> QED
    BY <2>2, <2>3
<1>9. \A k \in Listeners : Ascending(received'[k])
  BY <1>1, <1>8 DEF AscendingInv
<1>10. /\ UNCHANGED <<mode, phase, published, queue, worker>>
       /\ \A d \in Events : todo'[d] \subseteq todo[d]
  BY DEF OnEvent, Typing, queueVars
<1>11. \A k \in Listeners : \A d \in Range(received'[k]) : d \in Range(received[k]) \/ d = e
  BY <1>1
<1>12. OneAtATime
  BY DEF AscendingInv
<1>13. mode.strategy = "ordered" => worker = e
  BY DEF OnEvent, Turn
<1>14. \A d \in Events : mode.strategy # "ordered" /\ todo'[d] # {} => phase[d] = "delivering"
  BY <1>10, <1>12 DEF OneAtATime
<1>15. mode.strategy = "ordered" =>
         \A k \in Listeners : \A d \in Range(received'[k]) :
            (\A b \in Range(queue) : d < b) /\ d <= worker
  <2>1. SUFFICES ASSUME mode.strategy = "ordered", NEW k \in Listeners,
                        NEW d \in Range(received'[k])
                 PROVE  (\A b \in Range(queue) : d < b) /\ d <= worker
    OBVIOUS
  <2>2. CASE d = e
    BY <1>3, <1>12, <1>13, <2>1, <2>2 DEF OneAtATime
  <2>3. CASE d # e
    BY <1>2, <1>11, <1>12, <1>13, <2>1, <2>3 DEF OneAtATime
  <2> QED
    BY <2>2, <2>3
<1> QED
  BY <1>9, <1>10, <1>12, <1>14, <1>15 DEF OneAtATime

LEMMA AscendingStep == Typing /\ OrderInv /\ AscendingInv /\ [Next]_vars => AscendingInv'
<1> SUFFICES ASSUME Typing, OrderInv, AscendingInv, [Next]_vars,
                    mode.publish = "Publish", mode.strategy # "async"
             PROVE  OneAtATime' /\ \A l \in Listeners : Ascending(received'[l])
  BY SameMode DEF AscendingInv
<1>1. OneAtATime /\ \A l \in Listeners : Ascending(received[l])
  BY DEF AscendingInv
<1>2. /\ Events \subseteq Nat /\ published \in Nat /\ 0 \notin Events
      /\ Range(queue) \subseteq Events /\ worker \in Events \cup {0}
      /\ \A l \in Listeners : Range(received[l]) \subseteq Events
      /\ \A e \in Events : phase[e] # "none" => e <= published
  BY LenProperties, ElementOfSeq, BoundsAssumption
     DEF Typing, Range, Events, OrderInv, Untouched
<1>3. UNCHANGED mode
  BY SameMode
<1>4. ASSUME UNCHANGED <<phase, published, todo, queue, worker, received>>
      PROVE  OneAtATime' /\ \A l \in Listeners : Ascending(received'[l])
  BY <1>1, <1>3, <1>4 DEF OneAtATime
<1>5. CASE RegistryStep
  BY <1>4, <1>5, RegistryTypes DEF deliveryVars, queueVars
<1>6. ASSUME NEW e \in Events, Publish(e)
      PROVE  OneAtATime' /\ \A l \in Listeners : Ascending(received'[l])
  <2>1. /\ published' = e /\ \A d \in Events : phase[d] \notin {"called", "delivering"}
        /\ UNCHANGED <<todo, queue, worker, received>>
        /\ \A d \in Events \ {e} : phase'[d] = phase[d]
        /\ phase'[e] = "called" /\ e = published + 1
    BY <1>6 DEF Publish, SetPhase, queueVars, Typing
  <2>2. todo[e] = {}
    BY <1>2, <2>1 DEF OrderInv, Untouched, Typing
  <2> QED
    BY <1>1, <1>3, <2>1, <2>2 DEF OneAtATime
<1>7. ASSUME NEW e \in Events, GetListeners(e)
      PROVE  OneAtATime' /\ \A l \in Listeners : Ascending(received'[l])
  <2>1. /\ UNCHANGED <<published, queue, worker, received>>
        /\ \A d \in Events \ {e} : phase'[d] = phase[d] /\ todo'[d] = todo[d]
        /\ todo'[e] = Range(registry)
        /\ phase[e] = "called"
    BY <1>7 DEF GetListeners, SetPhase, queueVars, Typing
  <2>2. phase'[e] = "delivering" \/ Range(registry) = {}
    <3>1. registry = << >> => Range(registry) = {}
      BY EmptyRange
    <3> QED
      BY <1>7, <3>1 DEF GetListeners, SetPhase, Typing
  <2> QED
    BY <1>1, <1>3, <2>1, <2>2 DEF OneAtATime
<1>8. ASSUME NEW e \in Events, Return(e) \/ QueueFull(e) \/ SendPanics(e)
      PROVE  OneAtATime' /\ \A l \in Listeners : Ascending(received'[l])
  <2>1. /\ UNCHANGED <<published, queue, worker, received>>
        /\ \A d \in Events \ {e} : phase'[d] = phase[d] /\ todo'[d] = todo[d]
        /\ phase[e] = "delivering"
    BY <1>8 DEF Return, QueueFull, SendPanics, Sending, SetPhase, queueVars, deliveryVars,
                Typing
  <2>2. mode.strategy \in Strategies
    BY ModesAssumption DEF Typing
  <2>3. mode.strategy # "ordered" => todo'[e] = {}
    BY <1>8, <2>2 DEF Return, QueueFull, SendPanics, Sending, Finished, Strategies
  <2> QED
    BY <1>1, <1>3, <2>1, <2>3 DEF OneAtATime
<1>9. ASSUME NEW e \in Events, Enqueue(e)
      PROVE  OneAtATime' /\ \A l \in Listeners : Ascending(received'[l])
  <2>1. /\ mode.strategy = "ordered" /\ phase[e] = "delivering"
        /\ phase'[e] = "accepted" /\ \A d \in Events \ {e} : phase'[d] = phase[d]
        /\ UNCHANGED <<published, todo, received, worker>>
    BY <1>9, EnqueueFacts
  <2>2. /\ Len(queue) \in Nat
        /\ DOMAIN queue = 1 .. Len(queue) /\ DOMAIN queue' = 1 .. Len(queue) + 1
        /\ \A i \in DOMAIN queue : queue'[i] = queue[i]
        /\ queue'[Len(queue) + 1] = e
        /\ Range(queue') = Range(queue) \cup {e}
    BY <1>9, EnqueueFacts
  <2>3. e = published
    BY <1>1, <2>1 DEF OneAtATime
  <2>4. /\ \A d \in Range(queue) : d < e
        /\ worker < e
        /\ \A l \in Listeners : \A d \in Range(received[l]) : d < e
    <3>1. \A d \in Events : phase[d] = "accepted" => d < e
      BY <1>2, <2>1, <2>3
    <3>2. OneByOne
      BY <2>1 DEF OrderInv
    <3>3. worker < e
      BY <1>2, <3>1, <3>2 DEF OneByOne
    <3> QED
      BY <1>2, <3>1, <3>2, <3>3 DEF OneByOne
  <2>5. \A i \in DOMAIN queue : queue[i] \in Range(queue)
    BY DEF Range
  <2>6. Ascending(queue)
    BY <1>1, <2>1 DEF OneAtATime
  <2>7. Ascending(queue')
    <3> SUFFICES ASSUME NEW i \in 1 .. Len(queue) + 1, NEW j \in 1 .. Len(queue) + 1, i < j
                 PROVE  queue'[i] < queue'[j]
      BY <2>2 DEF Ascending
    <3>1. i \in DOMAIN queue
      BY <2>2
    <3>2. CASE j \in DOMAIN queue
      BY <2>2, <2>6, <3>1, <3>2 DEF Ascending
    <3>3. CASE j \notin DOMAIN queue
      <4>1. j = Len(queue) + 1
        BY <2>2, <3>3
      <4> QED
        BY <2>2, <2>4, <2>5, <3>1, <4>1
    <3> QED
      BY <3>2, <3>3
  <2>8. \A d \in Events : phase'[d] \in {"called", "delivering"} => d = published
    BY <1>1, <2>1 DEF OneAtATime
  <2> QED
    BY <1>1, <1>3, <2>1, <2>2, <2>4, <2>7, <2>8 DEF OneAtATime
<1>10. CASE Receive
  <2>1. /\ Len(queue) \in Nat \ {0}
        /\ DOMAIN queue = 1 .. Len(queue) /\ DOMAIN queue' = 1 .. Len(queue) - 1
        /\ worker' = queue[1] /\ worker = 0
        /\ \A i \in DOMAIN queue' : queue'[i] = queue[i + 1]
    BY <1>10, ReceiveFacts
  <2>2. /\ Range(queue) = {worker'} \cup Range(queue')
        /\ UNCHANGED <<phase, published, todo, received>>
    BY <1>10, ReceiveFacts DEF deliveryVars
  <2>3. mode.strategy = "ordered" => Ascending(queue')
    BY <1>1, <2>1 DEF OneAtATime, Ascending
  <2>4. mode.strategy = "ordered" => \A e \in Range(queue') : worker' < e
    <3>1. mode.strategy = "ordered" => \A i \in DOMAIN queue' : worker' < queue'[i]
      BY <1>1, <2>1 DEF OneAtATime, Ascending
    <3> QED
      BY <3>1 DEF Range
  <2>5. mode.strategy = "ordered" =>
          \A l \in Listeners : \A d \in Range(received[l]) : d <= worker'
    <3>1. worker' \in Range(queue) /\ worker' \in Nat
      BY <1>2, <2>2
    <3>2. mode.strategy = "ordered" =>
            \A l \in Listeners : \A d \in Range(received[l]) : d < worker'
      BY <1>1, <3>1 DEF OneAtATime
    <3> QED
      BY <1>2, <3>1, <3>2
  <2>6. \A e \in Range(queue') : e \in Range(queue)
    BY <2>2
  <2>7. /\ \A e \in Events : phase'[e] \in {"called", "delivering"} => e = published'
        /\ \A e \in Events :
             mode'.strategy # "ordered" /\ todo'[e] # {} => phase'[e] = "delivering"
    BY <1>1, <1>3, <2>2 DEF OneAtATime
  <2> QED
    BY <1>1, <1>3, <2>2, <2>3, <2>4, <2>5, <2>6, <2>7 DEF OneAtATime
<1>11. CASE Processed
  <2>1. worker' = 0 /\ UNCHANGED <<phase, published, todo, queue, received>>
    BY <1>11 DEF Processed, deliveryVars
  <2>2. \A e \in Range(queue) : 0 < e
    BY <1>2 DEF Events
  <2> QED
    BY <1>1, <1>3, <2>1, <2>2 DEF OneAtATime
<1>12. CASE Close \/ CloseReturns \/ UNCHANGED vars
  BY <1>4, <1>12 DEF Close, CloseReturns, deliveryVars, queueVars, vars
<1>13. ASSUME NEW e \in Events, NEW l \in Listeners, OnEventEnds(e, l)
       PROVE  OneAtATime' /\ \A k \in Listeners : Ascending(received'[k])
  BY <1>4, <1>13 DEF OnEventEnds, queueVars
<1> QED
  BY <1>5, <1>6, <1>7, <1>8, <1>9, <1>10, <1>11, <1>12, <1>13, AscendingByCalls
     DEF Next, PublishProgress, CallProgress, WorkerProgress

(***************************************************************************)
(* A goroutine that publishes one event after the other has them delivered *)
(* in that order, by every strategy but the asynchronous one.              *)
(***************************************************************************)
THEOREM PublishedOrder == Spec => []InOrder
<1>1. AscendingInv => InOrder
  BY DEF AscendingInv, InOrder
<1> QED
  BY <1>1, AscendingInit, AscendingStep, OrderInit, OrderStep, TypingInit, TypingStep, PTL
     DEF Spec
=============================================================================
