---------------------------- MODULE ListenerChain ----------------------------
(***************************************************************************)
(* One listener of the bus with everything that is wrapped around it: the  *)
(* decorators of events/decorators.go and the middleware of                *)
(* events/middleware.go.                                                   *)
(*                                                                         *)
(* A wrapper is a function around a function, so what an event meets is a  *)
(* stack of layers, innermost first in `chain`.  A goroutine goes down     *)
(* through the layers to the listener and up again with an outcome.  A     *)
(* timeout and an async layer start a goroutine for the layers below       *)
(* them; a timeout layer may leave it behind.  A panic goes up through the *)
(* goroutine it happens in, and no further: at the bottom of the           *)
(* goroutine's stack it ends the process.                                  *)
(*                                                                         *)
(* Decorators and middleware of one purpose have the same code around      *)
(* `next` and share a kind of layer:                                       *)
(*   "recover"  PanicRecoveryMiddleware, ListenerWithPanicRecovery         *)
(*   "handle"   the same, with a PanicHandler                              *)
(*   "timeout"  TimeoutMiddleware, ListenerWithTimeout                     *)
(*   "retry"    RetryMiddleware, ListenerWithRetry                         *)
(*   "filter"   FilterMiddleware, ListenerWithFilter                       *)
(*   "observe"  LoggingMiddleware, MetricsMiddleware,                      *)
(*              ErrorHandlerMiddleware, ContextEnrichmentMiddleware,       *)
(*              ListenerWithLogging, ListenerWithMetrics: they call user   *)
(*              code and change no outcome                                 *)
(*   "async"    ListenerWithAsync                                          *)
(*   "limit"    ListenerWithRateLimit                                      *)
(*   "breaker"  ListenerWithCircuitBreaker                                 *)
(* ListenerWithContextTimeout and ContextTimeoutMiddleware hand their      *)
(* caller's goroutine on with another context and are no layer: a listener *)
(* that obeys its context just returns an error.  Predicates, handlers,    *)
(* loggers and recorders are user code: they return or panic.              *)
(***************************************************************************)
EXTENDS Integers, Sequences, FiniteSets, SequencesExt

CONSTANTS
  Wirings,      \* how the listener is wrapped, see Wrapped
  Events,       \* events in delivery at one time
  MaxRetries,   \* maxRetries of every retry layer
  MaxFailures,  \* maxFailures of the listener's circuit breaker
  ResetTimeout, \* its resetTimeout, in clock ticks
  Rate,         \* rate of the rate limiter
  Second,       \* time.Second, in clock ticks
  MaxSpawned    \* bound: goroutines below timeout and async layers, per event

Recoveries == {"recover", "handle"}
Kinds == Recoveries \cup
         {"timeout", "retry", "filter", "observe", "async", "limit", "breaker"}

ASSUME WiringsAssumption ==
  \A w \in Wirings : /\ w.decorators \in Seq(Kinds)
                     /\ w.used \in Seq(Kinds)
                     /\ w.chained \in Seq(Kinds)
ASSUME NumbersAssumption ==
  /\ MaxRetries \in Nat /\ MaxFailures \in Nat \ {0} /\ ResetTimeout \in Nat \ {0}
  /\ Rate \in Nat \ {0} /\ Second \in Nat /\ Second >= Rate /\ MaxSpawned \in Nat

VARIABLES
  chain,        \* the layers, innermost first
  result,       \* what the outermost layer has answered for each event
  go,           \* the goroutines of each event; 0 is the strategy's own
  crashed,      \* the layer whose panic has ended the process, or Alive
  failures,     \* listenerCircuitBreaker.failures
  isOpen,       \* listenerCircuitBreaker.isOpen
  sinceFailure, \* age of listenerCircuitBreaker.lastFailure
  sinceCalled,  \* age of rateLimiter.lastCalled
  succeeded,    \* history: events for which one of them returned nil
  skipped,      \* history: events answered without waiting for the listener
  admitted      \* history: ages of the calls the limiter let pass in a second

breakerVars == <<failures, isOpen, sinceFailure>>
limitVars == <<sinceCalled, admitted>>
historyVars == <<succeeded, skipped>>
vars == <<chain, result, go, crashed, breakerVars, limitVars, historyVars>>

Alive == -1
Listener == 0   \* as the layer a panic comes from

(***************************************************************************)
(* Compose applies decorators inner to outer, so does the bus with its     *)
(* middleware, of which PanicRecoveryMiddleware(nil) is always the first.  *)
(* Chain puts its first argument outermost.                                *)
(***************************************************************************)
Compose(decorators) == decorators
Chain(middleware) == Reverse(middleware)
Wrapped(w) == Compose(w.decorators) \o <<"recover">> \o w.used \o Chain(w.chained)

Interval == Second \div Rate

(***************************************************************************)
(* A goroutine: it runs the layers 1 .. base, stands at layer `at` (0 is   *)
(* the listener, base + 1 its own end) and goes down to it, up from the    *)
(* one below it, or waits for `child`.                                     *)
(***************************************************************************)
Start(base) == [base |-> base, at |-> base, dir |-> "down", outcome |-> "none",
                source |-> Alive, child |-> 0,
                attempts |-> [k \in DOMAIN chain |-> 0]]

Init ==
  /\ \E w \in Wirings : chain = Wrapped(w)
  /\ result = [e \in Events |-> "idle"]
  /\ go = [e \in Events |-> << >>]
  /\ crashed = Alive
  /\ failures = 0 /\ isOpen = FALSE /\ sinceFailure = ResetTimeout
  /\ sinceCalled = Interval /\ admitted = {}
  /\ succeeded = {} /\ skipped = {}
-----------------------------------------------------------------------------
At(e, i, kind, dir) ==
  /\ i \in DOMAIN go[e]
  /\ go[e][i].dir = dir /\ go[e][i].at \in DOMAIN chain
  /\ go[e][i].at <= go[e][i].base
  /\ chain[go[e][i].at] = kind

\* The layer calls `next`; the layer answers whoever called it.
Descends(f) == [f EXCEPT !.at = @ - 1, !.dir = "down"]
Answers(f, outcome) == [f EXCEPT !.at = @ + 1, !.dir = "up", !.outcome = outcome]
Panics(f) == [Answers(f, "panic") EXCEPT !.source = f.at]
Attempt(f, n) == [f EXCEPT !.attempts = [@ EXCEPT ![f.at] = n]]

Becomes(e, i, f) == go' = [go EXCEPT ![e][i] = f]
Without(fs, i) == [j \in DOMAIN fs \ {i} |-> fs[j]]

\* go func() { ... next(event) ... }(), started by goroutine i at its layer.
FreeSlot(e) == CHOOSE j \in 1 .. MaxSpawned : j \notin DOMAIN go[e]
Spawns(e, i, f) ==
  /\ ~ (1 .. MaxSpawned \subseteq DOMAIN go[e])
  /\ go' = [go EXCEPT ![e] = [j \in DOMAIN go[e] \cup {FreeSlot(e)} |->
              IF j = i THEN f
              ELSE IF j = FreeSlot(e) THEN Start(go[e][i].at - 1)
              ELSE go[e][j]]]

Kept == UNCHANGED <<chain, crashed, breakerVars, limitVars>>
Quiet == Kept /\ UNCHANGED <<result, historyVars>>

\* Bound: deliveries meet only in the state of a limiter or a breaker; without
\* one, an event on its own shows all there is.
MayOverlap == \E k \in DOMAIN chain : chain[k] \in {"limit", "breaker"}

\* The delivery strategy calls OnEvent of the outermost wrapper.
Deliver(e) ==
  /\ go[e] = << >>
  /\ MayOverlap \/ \A d \in Events : go[d] = << >>
  /\ go' = [go EXCEPT ![e] = [j \in {0} |-> Start(Len(chain))]]
  /\ result' = [result EXCEPT ![e] = "running"]
  /\ succeeded' = succeeded \ {e} /\ skipped' = skipped \ {e}
  /\ Kept

\* The listener is called, and returns or panics, or never does either.
ListenerCalled(e, i) ==
  /\ i \in DOMAIN go[e] /\ go[e][i].at = 0 /\ go[e][i].dir = "down"
  /\ Becomes(e, i, [go[e][i] EXCEPT !.dir = "running"])
  /\ Quiet

ListenerReturns(e, i) ==
  /\ i \in DOMAIN go[e] /\ go[e][i].dir = "running"
  /\ \/ Becomes(e, i, Answers(go[e][i], "nil")) /\ succeeded' = succeeded \cup {e}
     \/ Becomes(e, i, Answers(go[e][i], "error")) /\ UNCHANGED succeeded
     \/ Becomes(e, i, Panics(go[e][i])) /\ UNCHANGED succeeded
  /\ Kept /\ UNCHANGED <<result, skipped>>
-----------------------------------------------------------------------------
(* Recovery: a deferred function of the layer's own stack frame. *)

AtRecovery(e, i, dir) == \E kind \in Recoveries : At(e, i, kind, dir)

RecoverCalls(e, i) ==
  /\ AtRecovery(e, i, "down")
  /\ Becomes(e, i, Descends(go[e][i])) /\ Quiet

\* Mutant: the named result is not assigned in the deferred function.
RecoverReturns_Swallows(e, i) ==
  /\ AtRecovery(e, i, "up")
  /\ Becomes(e, i, Answers(go[e][i], IF go[e][i].outcome = "panic" THEN "nil"
                                     ELSE go[e][i].outcome))
  /\ Quiet

\* Mutant: recover() is called by a function the deferred one calls.
RecoverReturns_TooDeep(e, i) ==
  /\ AtRecovery(e, i, "up")
  /\ Becomes(e, i, Answers(go[e][i], go[e][i].outcome)) /\ Quiet

RecoverReturns(e, i) ==
  /\ AtRecovery(e, i, "up")
  /\ Becomes(e, i, Answers(go[e][i], IF go[e][i].outcome = "panic" THEN "error"
                                     ELSE go[e][i].outcome))
  /\ Quiet
-----------------------------------------------------------------------------
(* Layers that call a logger, a recorder, a handler, an enricher, or a       *)
(* predicate.                                                                *)

ObserveCalls(e, i) ==
  /\ At(e, i, "observe", "down")
  /\ Becomes(e, i, Descends(go[e][i])) /\ Quiet

ObserveReturns(e, i) ==
  /\ At(e, i, "observe", "up")
  /\ Becomes(e, i, Answers(go[e][i], go[e][i].outcome)) /\ Quiet

FilterPasses(e, i) ==
  /\ At(e, i, "filter", "down")
  /\ Becomes(e, i, Descends(go[e][i])) /\ Quiet

FilterDrops(e, i) ==
  /\ At(e, i, "filter", "down")
  /\ Becomes(e, i, Answers(go[e][i], "nil"))
  /\ skipped' = skipped \cup {e}
  /\ Kept /\ UNCHANGED <<result, succeeded>>

FilterReturns(e, i) ==
  /\ At(e, i, "filter", "up")
  /\ Becomes(e, i, Answers(go[e][i], go[e][i].outcome)) /\ Quiet

\* The user's code panics: a logger before or after `next`, a predicate before
\* it, a PanicHandler in the deferred function that has just recovered.
UserCodePanics(e, i) ==
  /\ \/ At(e, i, "observe", "down")
     \/ At(e, i, "observe", "up") /\ go[e][i].outcome # "panic"
     \/ At(e, i, "filter", "down")
     \/ At(e, i, "handle", "up") /\ go[e][i].outcome = "panic"
  /\ Becomes(e, i, Panics(go[e][i])) /\ Quiet
-----------------------------------------------------------------------------
(* Retry.  The delay between attempts only passes time. *)

RetryCalls(e, i) ==
  /\ At(e, i, "retry", "down")
  /\ Becomes(e, i, Descends(Attempt(go[e][i], 1)))
  /\ Quiet

RetryAgain(e, i) ==
  /\ At(e, i, "retry", "up")
  /\ go[e][i].outcome = "error" /\ go[e][i].attempts[go[e][i].at] <= MaxRetries
  /\ Becomes(e, i, Descends(Attempt(go[e][i], go[e][i].attempts[go[e][i].at] + 1)))
  /\ Quiet

RetryReturns(e, i) ==
  /\ At(e, i, "retry", "up")
  /\ go[e][i].outcome = "error" => go[e][i].attempts[go[e][i].at] > MaxRetries
  /\ Becomes(e, i, Answers(go[e][i], go[e][i].outcome)) /\ Quiet
-----------------------------------------------------------------------------
(* Timeout: a goroutine, a buffered channel, a select. *)

TimeoutCalls(e, i) ==
  /\ At(e, i, "timeout", "down")
  /\ Spawns(e, i, [go[e][i] EXCEPT !.dir = "waiting", !.child = FreeSlot(e)])
  /\ Quiet

Unwaited(e, i) == [go[e][i] EXCEPT !.child = 0]

\* case err := <-done
TimeoutReceives(e, i) ==
  /\ At(e, i, "timeout", "waiting")
  /\ LET c == go[e][i].child IN
     /\ go[e][c].dir = "done"
     /\ go' = [go EXCEPT ![e] = [Without(go[e], c) EXCEPT
                 ![i] = Answers(Unwaited(e, i), go[e][c].outcome)]]
  /\ Quiet

\* Mutant: the timeout waits for the listener it has given up.
TimeoutFires_Waits(e, i) ==
  /\ At(e, i, "timeout", "waiting")
  /\ LET c == go[e][i].child IN
     /\ go[e][c].dir = "done"
     /\ go' = [go EXCEPT ![e] = [Without(go[e], c) EXCEPT
                 ![i] = Answers(Unwaited(e, i), "error")]]
  /\ Quiet

\* Mutant: the timeout calls the listener once more itself.
TimeoutFires_Again(e, i) ==
  /\ At(e, i, "timeout", "waiting")
  /\ LET c == go[e][i].child
         rest == IF go[e][c].dir = "done" THEN Without(go[e], c) ELSE go[e] IN
     go' = [go EXCEPT ![e] = [rest EXCEPT ![i] = Descends(Unwaited(e, i))]]
  /\ Quiet

\* case <-time.After(timeout): nothing tells the other goroutine.
TimeoutFires(e, i) ==
  /\ At(e, i, "timeout", "waiting")
  /\ LET c == go[e][i].child
         rest == IF go[e][c].dir = "done" THEN Without(go[e], c) ELSE go[e] IN
     go' = [go EXCEPT ![e] = [rest EXCEPT ![i] = Answers(Unwaited(e, i), "error")]]
  /\ Quiet

\* ListenerWithAsync: start it, answer nil.
AsyncCalls(e, i) ==
  /\ At(e, i, "async", "down")
  /\ Spawns(e, i, Answers(go[e][i], "nil"))
  /\ skipped' = skipped \cup {e}
  /\ Kept /\ UNCHANGED <<result, succeeded>>
-----------------------------------------------------------------------------
(* The rate limiter and the listener's circuit breaker.  Each method of     *)
(* either is a critical section; the breaker's ends before it calls `next`. *)

\* Mutant: lastCalled is not moved.
LimitPasses_Forgets(e, i) ==
  /\ At(e, i, "limit", "down")
  /\ sinceCalled >= Interval
  /\ admitted' = admitted \cup {0}
  /\ Becomes(e, i, Descends(go[e][i]))
  /\ UNCHANGED <<chain, result, crashed, breakerVars, sinceCalled, historyVars>>

LimitPasses(e, i) ==
  /\ At(e, i, "limit", "down")
  /\ sinceCalled >= Interval
  /\ sinceCalled' = 0 /\ admitted' = admitted \cup {0}
  /\ Becomes(e, i, Descends(go[e][i]))
  /\ UNCHANGED <<chain, result, crashed, breakerVars, historyVars>>

LimitDrops(e, i) ==
  /\ At(e, i, "limit", "down")
  /\ sinceCalled < Interval
  /\ Becomes(e, i, Answers(go[e][i], "nil"))
  /\ skipped' = skipped \cup {e}
  /\ Kept /\ UNCHANGED <<result, succeeded>>

LimitReturns(e, i) ==
  /\ At(e, i, "limit", "up")
  /\ Becomes(e, i, Answers(go[e][i], go[e][i].outcome)) /\ Quiet

\* Mutant: the counter survives the timeout.
BreakerPasses_KeepsCount(e, i) ==
  /\ At(e, i, "breaker", "down")
  /\ isOpen => sinceFailure >= ResetTimeout
  /\ isOpen' = FALSE
  /\ Becomes(e, i, Descends(go[e][i]))
  /\ UNCHANGED <<chain, result, crashed, failures, sinceFailure, limitVars, historyVars>>

BreakerPasses(e, i) ==
  /\ At(e, i, "breaker", "down")
  /\ isOpen => sinceFailure >= ResetTimeout
  /\ isOpen' = FALSE
  /\ failures' = IF isOpen THEN 0 ELSE failures
  /\ Becomes(e, i, Descends(go[e][i]))
  /\ UNCHANGED <<chain, result, crashed, sinceFailure, limitVars, historyVars>>

BreakerRejects(e, i) ==
  /\ At(e, i, "breaker", "down")
  /\ isOpen /\ sinceFailure < ResetTimeout
  /\ Becomes(e, i, Answers(go[e][i], "error")) /\ Quiet

\* Mutant: a success closes the circuit, as HalfOpenState's does.
BreakerSuccess_Closes(e, i) ==
  /\ At(e, i, "breaker", "up") /\ go[e][i].outcome = "nil"
  /\ failures' = 0 /\ isOpen' = FALSE
  /\ Becomes(e, i, Answers(go[e][i], "nil"))
  /\ UNCHANGED <<chain, result, crashed, sinceFailure, limitVars, historyVars>>

BreakerSuccess(e, i) ==
  /\ At(e, i, "breaker", "up") /\ go[e][i].outcome = "nil"
  /\ failures' = 0
  /\ Becomes(e, i, Answers(go[e][i], "nil"))
  /\ UNCHANGED <<chain, result, crashed, isOpen, sinceFailure, limitVars, historyVars>>

BreakerFailure(e, i) ==
  /\ At(e, i, "breaker", "up") /\ go[e][i].outcome = "error"
  /\ failures' = failures + 1 /\ sinceFailure' = 0
  /\ isOpen' = (isOpen \/ failures + 1 >= MaxFailures)
  /\ Becomes(e, i, Answers(go[e][i], "error"))
  /\ UNCHANGED <<chain, result, crashed, limitVars, historyVars>>

\* fn() unwinds: the lines after it do not run.
BreakerUnwinds(e, i) ==
  /\ At(e, i, "breaker", "up") /\ go[e][i].outcome = "panic"
  /\ Becomes(e, i, Answers(go[e][i], "panic")) /\ Quiet
-----------------------------------------------------------------------------
AtEnd(e, i) == /\ i \in DOMAIN go[e]
               /\ go[e][i].dir = "up" /\ go[e][i].at > go[e][i].base

\* The strategy gets its answer.
Answered(e) ==
  /\ AtEnd(e, 0) /\ go[e][0].outcome # "panic"
  /\ result' = [result EXCEPT ![e] = go[e][0].outcome]
  /\ go' = [go EXCEPT ![e] = Without(go[e], 0)]
  /\ Kept /\ UNCHANGED historyVars

\* Mutant: the channel has no buffer, a sender without a reader stays.
Sent_Unbuffered(e, i) ==
  /\ i # 0 /\ AtEnd(e, i) /\ go[e][i].outcome # "panic"
  /\ go' = [go EXCEPT ![e][i].dir = "done"]
  /\ Quiet

\* done <- next(event): into the buffer, whether or not somebody will read it.
Sent(e, i) ==
  /\ i # 0 /\ AtEnd(e, i) /\ go[e][i].outcome # "panic"
  /\ go' = [go EXCEPT ![e] =
              IF \E p \in DOMAIN go[e] : go[e][p].dir = "waiting" /\ go[e][p].child = i
              THEN [go[e] EXCEPT ![i] = [@ EXCEPT !.dir = "done"]]
              ELSE Without(go[e], i)]
  /\ Quiet

\* Nothing is left of this goroutine's stack that could recover.
Crash(e, i) ==
  /\ AtEnd(e, i) /\ go[e][i].outcome = "panic"
  /\ crashed' = go[e][i].source
  /\ UNCHANGED <<chain, result, go, breakerVars, limitVars, historyVars>>

\* The clock advances; only the limiter and the breaker look at it.
Tick ==
  /\ sinceFailure < ResetTimeout \/ sinceCalled < Interval \/ admitted # {}
  /\ sinceFailure' = IF sinceFailure < ResetTimeout THEN sinceFailure + 1 ELSE sinceFailure
  /\ sinceCalled' = IF sinceCalled < Interval THEN sinceCalled + 1 ELSE sinceCalled
  /\ admitted' = {a + 1 : a \in {b \in admitted : b + 1 < Second}}
  /\ UNCHANGED <<chain, result, go, crashed, failures, isOpen, historyVars>>
-----------------------------------------------------------------------------
\* What goroutine i of event e does next, when it is up to the library.
Step(e, i) ==
  \/ ListenerCalled(e, i)
  \/ RecoverCalls(e, i) \/ RecoverReturns(e, i)
  \/ ObserveCalls(e, i) \/ ObserveReturns(e, i)
  \/ FilterPasses(e, i) \/ FilterDrops(e, i) \/ FilterReturns(e, i)
  \/ RetryCalls(e, i) \/ RetryAgain(e, i) \/ RetryReturns(e, i)
  \/ TimeoutCalls(e, i) \/ TimeoutReceives(e, i) \/ TimeoutFires(e, i)
  \/ AsyncCalls(e, i)
  \/ LimitPasses(e, i) \/ LimitDrops(e, i) \/ LimitReturns(e, i)
  \/ BreakerPasses(e, i) \/ BreakerRejects(e, i)
  \/ BreakerSuccess(e, i) \/ BreakerFailure(e, i) \/ BreakerUnwinds(e, i)
  \/ Sent(e, i) \/ Crash(e, i)

Goroutines == 0 .. MaxSpawned

Next ==
  /\ crashed = Alive
  /\ \/ \E e \in Events : Deliver(e) \/ Answered(e)
     \/ \E e \in Events, i \in Goroutines :
          Step(e, i) \/ ListenerReturns(e, i) \/ UserCodePanics(e, i)
     \/ Tick

Spec == Init /\ [][Next]_vars

(***************************************************************************)
(* Goroutines are scheduled, timers fire and the clock advances.  Nobody   *)
(* has to publish, and a listener need never return.                       *)
(***************************************************************************)
Fairness ==
  /\ \A e \in Events, i \in Goroutines :
       WF_vars(crashed = Alive /\ Step(e, i))
  /\ \A e \in Events : WF_vars(crashed = Alive /\ Answered(e))
  /\ WF_vars(crashed = Alive /\ Tick)

FairSpec == Spec /\ Fairness
-----------------------------------------------------------------------------
(***************************************************************************)
(* Types, and the structure of the stacks: a goroutine that waits has the  *)
(* child it waits for, and a result in a channel has its reader.           *)
(***************************************************************************)
Frames(e) == {go[e][i] : i \in DOMAIN go[e]}

TypeOK ==
  /\ chain \in Seq(Kinds)
  /\ result \in [Events -> {"idle", "running", "nil", "error"}]
  /\ crashed \in {Alive, Listener} \cup DOMAIN chain
  /\ failures \in Nat /\ isOpen \in BOOLEAN
  /\ sinceFailure \in 0 .. ResetTimeout /\ sinceCalled \in 0 .. Interval
  /\ \A e \in Events : DOMAIN go[e] \subseteq Goroutines
  /\ \A e \in Events : \A f \in Frames(e) :
       /\ f.dir \in {"down", "running", "up", "waiting", "done"}
       /\ f.outcome \in {"none", "nil", "error", "panic"}
       /\ f.at \in 0 .. f.base + 1
       /\ f.dir = "waiting" <=> f.child # 0
       /\ f.dir = "waiting" => f.child \in DOMAIN go[e]
  /\ \A e \in Events : \A c \in DOMAIN go[e] : go[e][c].dir = "done" =>
       \E p \in DOMAIN go[e] : go[e][p].child = c

Positions(kind) == {k \in DOMAIN chain : chain[k] = kind}
Spawning == Positions("timeout") \cup Positions("async")
Recovering == Positions("recover") \cup Positions("handle")

(***************************************************************************)
(* A panic ends the process only if no recovery was set up around it in    *)
(* its own goroutine: a recovery layer protects what is below it, down to  *)
(* the next timeout or async layer and no further.  It does not protect    *)
(* its own PanicHandler.  The recovery that every bus has (bus.go:53) is   *)
(* below the bus's own middleware and protects none of it.                 *)
(***************************************************************************)
Protected(k) ==
  \E r \in Recovering : k < r /\ \A s \in Spawning : ~ (k < s /\ s < r)

PanicsContained == crashed # Alive => ~Protected(crashed)

(***************************************************************************)
(* A listener runs beside itself for one event only where a retry has been *)
(* put around a timeout - the timeout leaves the call running, the retry   *)
(* makes another - or around an async layer with user code and a recovery  *)
(* in between, where a panic after the answer of the async layer makes the *)
(* retry believe that the call has failed.                                 *)
(***************************************************************************)
Running(e) == {i \in DOMAIN go[e] : go[e][i].dir = "running"}

RetriesTimeout == \E t \in Positions("timeout"), r \in Positions("retry") : t < r
RetriesAsync ==
  \E a \in Positions("async"), o \in Positions("observe"),
     c \in Recovering, r \in Positions("retry") : a < o /\ o < c /\ c < r

NoSelfOverlap ==
  \A e \in Events : \A i, j \in Running(e) :
    i # j => RetriesTimeout \/ RetriesAsync

(***************************************************************************)
(* A nil answer is the answer of the listener - some call of it for this   *)
(* event returned nil - unless a layer whose purpose it is answered        *)
(* without the listener: no combination of recoveries, retries, timeouts   *)
(* and breakers turns failure into success.  An error although the         *)
(* listener returned nil comes from a timeout that was too early or from   *)
(* user code around the listener that panicked.                            *)
(***************************************************************************)
OutcomeIsReal ==
  \A e \in Events :
    /\ result[e] = "nil" => e \in succeeded \cup skipped
    /\ result[e] = "error" /\ e \in succeeded =>
         Positions("timeout") \cup Positions("observe") # {}

(***************************************************************************)
(* The listener's circuit breaker, entered by concurrent events: reports   *)
(* of calls admitted long ago never leave it closed at its maximum.        *)
(***************************************************************************)
ClosedBelowMax == ~isOpen => failures < MaxFailures

(***************************************************************************)
(* decorators.go:187: "subsequent calls fail fast until the resetTimeout   *)
(* expires".  A success that arrives late does not cut that short, as it   *)
(* does in CircuitBreaker.                                                 *)
(***************************************************************************)
OpenUntilTimeout == [][isOpen /\ ~isOpen' => sinceFailure >= ResetTimeout]_vars

(***************************************************************************)
(* Interval is rounded down, so a second can hold one call more than Rate; *)
(* no more as long as Rate is at most Interval + 1 ticks.                  *)
(***************************************************************************)
AtMostRate == Cardinality(admitted) <= Rate + 1

(***************************************************************************)
(* A listener that never returns does not keep the strategy waiting: with  *)
(* a timeout (or async) layer anywhere in the chain every delivery ends.   *)
(***************************************************************************)
HungListenerCutOff ==
  Spawning # {} =>
    \A e \in Events : result[e] = "running" ~> result[e] # "running" \/ crashed # Alive
=============================================================================
