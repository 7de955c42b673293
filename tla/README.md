# Verification of breaker-go

TLA+ models of the circuit breaker in this repository, the TLC configurations
that check them, and TLAPS proofs of every safety property the runs check. File names and line
numbers refer to the Go sources.

## 1. The system

A `CircuitBreakerImpl` guards calls to a service. It is shared by goroutines,
it writes a snapshot of itself to a repository at every transition, resumes
from that snapshot when the process restarts, logs, and tells listeners about
its transitions through an event bus.

| Component | Source | State it keeps | Operations |
|---|---|---|---|
| circuit breaker | `breaker.go` | `currentState`, `failureCount`, `lastFailure`, under one mutex | `Execute`, `ExecuteWithContext`, `State`, `Reset`, `transitionTo` |
| State objects | `state.go` | none of their own; they write the breaker's fields | `Execute`, `OnEntry`, `OnExit` of Closed, Open, HalfOpen |
| construction | `options.go` | configuration | `New`, the `With...` options |
| snapshot | `snapshot.go` | a copy of the breaker's fields and configuration | `FromCircuitBreaker`, `IsExpired`, `ShouldTransitionToHalfOpen` |
| validators | `validators.go` | none | `Validate` of version, state, configuration, data, age; composites |
| persistence manager | `persistence_manager.go` | running save goroutines | `Save`, `saveSync`, `saveAsync`, `Load` |
| restore strategies | `persistence_manager.go` | none | `Restore` (default, conservative) |
| in-memory repository | `repository.go` | one snapshot, under an RWMutex | `Save`, `Load`, `Exists`, `Delete` |
| file repository | `file_repository.go` | two files, and an RWMutex per object | the same |
| event bus | `events/bus.go`, `events/event.go` | middleware, strategy, registry | `Publish`, `PublishAsync`, `Use`, `SetStrategy`, `Subscribe`, `Close` |
| listener registry | `events/registry.go` | listeners by id | `Subscribe`, `Unsubscribe`, `Clear` |
| delivery strategies | `events/strategy.go` | ordered strategy: a bounded queue and its worker | `Deliver`, `Close` |
| decorators | `events/decorators.go` | rate limiter: the last call; listener breaker: failures, open or not, last failure | wrap a listener: recovery, timeout, retry, filter, async, rate limit, circuit breaker, logging, metrics |
| middleware | `events/middleware.go` | none | wrap every listener of a bus: recovery, timeout, retry, filter, logging, metrics, error handler, enrichment; `Chain` |
| logging | `logging/` | a logger: minimum level, mutex, writers, inherited fields | `Debug` ... `Error`, `With`, `WithContext`, `SetLevel`; adapters; `Builder`; `Fields` |
| errors, examples | `errors.go`, `examples/` | none | values and programs |

How they interact. `Execute` locks the breaker, reads the current State object,
**unlocks**, and delegates to the object. The object runs the caller's action
without the lock, locks again, and writes the outcome into the breaker without
looking at what the current state is by then. `transitionTo` runs with the lock
held; in one critical section it runs `OnEntry`, builds a snapshot, calls
`PersistenceManager.Save` and calls `EventBus.PublishAsync`. `Save` either
starts a goroutine (the default) or blocks, lock and caller included, through
all its retries. The logger, the validator, a synchronous repository and
`OnSaveError` are foreign code that runs under the mutex; a `DefaultLogger` in
turn calls its writer under a mutex of its own. The bus wraps each listener in
its middleware at delivery; users wrap listeners in decorators before they
subscribe them. `New` loads a snapshot, validates it, and lets the restore
strategy assign the breaker's fields.

What is hard about it, and what makes each component correct:

| Component | Hard behaviour | Correctness |
|---|---|---|
| breaker, State objects | outcomes applied to a state that has changed since it was read; several trials at once; late failures that restart the open timer | the fields stay consistent in every interleaving; the circuit moves only on evidence; rejections are justified; an open circuit recovers; a half-open one is decided |
| persistence | saves that race, retry, run into deadlines or die with the process; restarting from old, foreign or inconsistent contents | a restored breaker is as consistent as a fresh one; synchronous saves are durable before they are visible; every save ends and is accounted for |
| file repository | a crash or an I/O error at any point of write-then-rename; several objects on one path | the target is a whole snapshot or absent; calls are linearizable; errors keep no lock |
| events: bus, registry, strategies | a goroutine per event and per listener; replaced subscriptions; a full queue; closing while delivering | order where it is promised; nothing delivered after `Unsubscribe` returned unless it had begun; `Close` drains and ends |
| decorators, middleware | goroutines left behind by timeouts; panics that no frame above can recover; retries beside calls that still run; a breaker and a limiter entered by concurrent events | a panic stops where a recovery is set up for it; failures never turn into successes; a hung listener is cut off; breaker and limiter keep their bounds |
| mutexes, foreign code | panics and calls back while one or two locks are held; locks without a deferred unlock | nothing waits in a circle, and no lock is lost, unless foreign code caused it in the one way the code does not guard; whoever gets the mutex finds a consistent breaker |
| logging | a level read with and without the lock; slices of fields that share an array | a line is written if and only if its level is enabled; a logger keeps its fields |

`PROJECT.json` lists all hazards with their lines, and the properties for each.

## 2. Modules

```
BreakerProtocol   BreakerContract          AtomicRepository
     ^ implements     ^ implements                 ^ implements
SequentialBreaker     |                            |
     | EXTENDS        |                            |
     +--------> CircuitBreaker <--+          FileRepository
                 ^         ^      |                ^
         Persistence       |   BreakerHistory      |
              ^            |                       |
        MCPersistence  MCCircuitBreaker     MCFileRepository

EventBus <--- MCEventBus          ListenerChain <--- MCListenerChain

BreakerRuntime <--+
                  +-- MCBreakerRuntime
LogFields <-------+

proofs: CircuitBreakerProofs, SequentialBreakerProofs, BreakerHistoryProofs,
        PersistenceProofs, FileRepositoryProofs, EventBusProofs,
        ListenerChainProofs, BreakerRuntimeProofs (with LogFields)
```

**CircuitBreaker** - `breaker.go`, `state.go`. `currentState`, `failureCount`
are the fields of `CircuitBreakerImpl`; `sinceFailure` is the age of
`lastFailure`, saturated at `ResetTimeout`, with one value above it
(`ZeroTime`) for the zero `time.Time`. `pc[p]` and `held[p]` say where
goroutine `p` is in `Execute` and which State object it delegates to.
`transition` holds what `transitionTo` handed on in the last step.

| Action | Code |
|---|---|
| `Capture` | `Execute` 139-141, `ExecuteWithContext` 179-181 |
| `BeginAction` | `ClosedState.Execute`, `HalfOpenState.Execute`: `action()` is called |
| `ClosedSuccess`, `ClosedFailure`, `ClosedTrip` | `ClosedState.Execute` after the action |
| `OpenAdmit`, `OpenReject` | `OpenState.Execute` |
| `HalfOpenSuccess`, `HalfOpenFailure` | `HalfOpenState.Execute` after the action |
| `ActionPanic` | a panic in the action, which unwinds before the lock is taken |
| `StateProbe` | `State()` when it half-opens the breaker (otherwise it changes nothing) |
| `Reset`, `Tick` | `Reset()`; the clock |

`TransitionTo` is a helper of these actions, never a step of its own: it holds
`OnEntry`, the snapshot and the event of one critical section. A context that
is already done (`breaker.go:171-176`) makes the call return before it does
anything; that is a stuttering step.

**SequentialBreaker** restricts it to one call at a time and counts, beside the
breaker, the failures in a row that its user has met (`streak`), so that what
the breaker does can be compared with what the user was told.

**BreakerProtocol** is the three-state machine of the package comment, in which
a call is one step. **BreakerContract** is what concurrent callers can rely on:
calls hold permits, and a permit keeps the meaning it was given with. The
protocol is what the comments promise, the contract what the code keeps under
concurrency; section 6 lists where they differ.

**BreakerHistory** adds the set of calls during which the circuit was open with
its timeout running, which is what a rejected caller wants to conclude.

**Persistence** composes the breaker with its manager, a repository that is
atomic per call, and the life of the process. `saves` holds the running
`saveSync` calls, with attempt, backoff and deadline; `stored` is the
repository, which survives `Crash`; `mode` is the configuration (persistence
enabled, `RestoreOnInit`, asynchronous or not, which strategy, which validator,
and whether the repository fails). The validator may be nil, as it is in a
configuration that `WithPersistenceConfig` sets as a whole and that names none:
then everything is saved and everything that is loaded is restored.
`LockingStep` is a step of `CircuitBreaker` conjoined with the `Save` its
`transitionTo` makes; with a synchronous manager nobody takes the mutex until
that save is over (`MutexFree`). `SaveOk` and `ReturnError` end a save; an
asynchronous one whose `saveSync` has returned an error has it still to report
(`AsyncReport`). `StartUnrestored`, `StartLoadError`, `StartInvalid` and
`StartRestore` are the ways `New` can end. Time (`ClockTick`) ages the breaker
and every snapshot together, while the process is down too.

**FileRepository** models `Save`, `Load`, `Exists` and `Delete` as sequences of
system calls over names and inodes. A renamed file is still the file a slow
writer has open; `OpenTemp` truncates; `Crash` stops the process anywhere. Any
call may fail, the `os.Stat` of `Exists` and the `os.Remove` that cleans up
after a failed rename included.
**AtomicRepository** is what `SnapshotRepository` promises. Between two crashes
it is also the model of `InMemorySnapshotRepository`, each method of which is
one critical section; what that repository holds ends with the process.

**EventBus** - `events/bus.go`, `events/registry.go`, `events/strategy.go`.
Events are numbered in the order of publication; the bus meets the breaker only
through them (`transition` of `CircuitBreaker` is one), so the two are not
composed. Each `Subscribe` passes its own listener. `phase[e]` is where the
`Publish` of event `e` stands, `todo[e]` and `running[e]` are the listeners its
delivery has still to call and is calling. `Turn` holds the difference between
the strategies. A number is an id that the registry generates (`listener-1` is
1), and users may pass it too. `received` and `left` are history variables.

| Action | Code |
|---|---|
| `SubscribeGenerated`, `SubscribeWithID` | `Registry.Subscribe` |
| `EndSubscription`, `Unsubscribe` | `Subscription.Unsubscribe`; `Unsubscribe`, `UnsubscribeAll` of the bus |
| `Publish`, `GetListeners`, `Return` | `EventBus.Publish`, in the caller or in `PublishAsync`'s goroutine |
| `OnEvent`, `OnEventEnds` | the calls of a strategy's loop or goroutines |
| `Enqueue`, `QueueFull`, `SendPanics` | `OrderedAsyncStrategy.Deliver` |
| `Receive`, `Processed` | `processQueue` |
| `Close`, `CloseReturns` | `OrderedAsyncStrategy.Close` |

**ListenerChain** - `events/decorators.go`, `events/middleware.go`. A wrapper is
a function around a function, so an event meets a stack of layers, `chain`,
innermost first; `Wrapped` builds it as the code does (`Compose` inner to
outer, then the bus's own recovery, then what was added to the bus, `Chain`
with its first argument outermost). A goroutine of an event is a frame in
`go[e]`: the layer it stands at, whether it goes down to the listener or up
with an outcome, and what it waits for. Goroutine 0 is the delivery strategy's.
A panic is an outcome that a layer passes on; when it reaches the end of its
goroutine it ends the process (`Crash`), wherever the goroutine was started.

| Layer | Code | Actions |
|---|---|---|
| `recover`, `handle` | `PanicRecoveryMiddleware`, `ListenerWithPanicRecovery`, without and with a `PanicHandler` | `RecoverCalls`, `RecoverReturns`; `UserCodePanics` in the handler |
| `timeout` | `TimeoutMiddleware`, `ListenerWithTimeout` | `TimeoutCalls`, `TimeoutReceives`, `TimeoutFires`; `Sent` is the goroutine's send into its buffered channel |
| `retry` | `RetryMiddleware`, `ListenerWithRetry` | `RetryCalls`, `RetryAgain`, `RetryReturns` |
| `filter` | `FilterMiddleware`, `ListenerWithFilter` | `FilterPasses`, `FilterDrops`, `FilterReturns`; `UserCodePanics` in the predicate |
| `observe` | logging, metrics, error handler, enrichment, in both forms | `ObserveCalls`, `ObserveReturns`; `UserCodePanics` before and after `next` |
| `async` | `ListenerWithAsync` | `AsyncCalls` |
| `limit` | `ListenerWithRateLimit` | `LimitPasses`, `LimitDrops`, `LimitReturns` |
| `breaker` | `ListenerWithCircuitBreaker` | `BreakerPasses`, `BreakerRejects`, `BreakerSuccess`, `BreakerFailure`, `BreakerUnwinds` |

**BreakerRuntime** - `breaker.go` and `state.go` again, and `logging/default.go`,
with the mutexes as variables. `CircuitBreaker` may take a critical section for
one step because nothing else can happen in it; this module is about what
happens when something does. `mutex` is `CircuitBreakerImpl.mutex`, `lock[l]`
is `mu` of logger `l`, and `pc[t]` stands at the places where foreign code runs
with the mutex held: `resetting` (the log line of `Reset`), `entry` (that of
`transitionTo`, before `OnEntry`), `saving` and `logged` (`Save`, before and
after its own log line). `mode` says where foreign
code may panic or call the breaker. Time is cut down to `stamp`, since only
"zero", "recent" and "expired" matter here.

| Action | Code |
|---|---|
| `Capture`, `RunAction`, `Report`, `OpenExecute`, `State`, `Reset`, `ResetTransition` | as in `CircuitBreaker`, up to the first foreign call |
| `OnEntry`, `SaveLogs`, `SaveReturns` | the remaining parts of `transitionTo`, and the unlock |
| `ActionPanics`, `SavePanics`, `LogPanics` | a panic, which unwinds through the deferred unlocks there are (`Unwind`) |
| `SaveReenters`, `LogReenters`, `ReenteredState` | foreign code calls back into the breaker |
| `LogCheck`, `LogLock`, `LogWrite` | `DefaultLogger.log`: the check without the lock, the lock with the second check, the writer |
| `AppLog`, `SetLevel`, `With` | the application logs, changes a level, derives a logger |

**LogFields** - the slices of fields in `logging/`, as lengths of arrays with
capacities, which is what decides who sees an `append`. A view is somebody who
holds a slice: a builder, a `DefaultLogger`, an adapter, a log call of one, a
variable of type `Fields`. `Appends` is Go's `append`, with its growth.

## 3. Runs

| Run | Instance | What it shows |
|---|---|---|
| `breaker` | 3 goroutines, threshold 2, timeout 2; about 10,700 states | `TypeOK`, `Consistent` (closed below the threshold, open is stamped), `SnapshotsValid`, `OvershootBound`, `RejectionJustified`; refinement of `BreakerContract`; `RecoversUnderTraffic`, `HalfOpenResolves` |
| `breaker_sequential` | calls one at a time, threshold 6, timeout 10 | refinement of `BreakerProtocol`, whose counter is the user's streak |
| `persistence` | 1 caller, `State` and `Reset` beside it, threshold 1, timeout 1, 7 configurations, 9 foreign snapshots or none, 1 retry, 2 saves per process, any number of crashes; about 382,000 states | `RestartConsistent`, `DurableBeforeVisible`, `SaveFailuresReported`, `ConservativeStart`, `SavingEnds` |
| `file` | 2 goroutines on one object, 2 snapshots, failing system calls, crashes; about 17,200 states | `TargetNeverTorn`, refinement of `AtomicRepository`, `CallsEnd` |
| `event_bus` | 8 modes (4 strategies, `Publish` in turn or `PublishAsync`), 2 events, or 3 published in turn to the ordered strategy, 2 subscriptions, a queue of 2; about 216,000 states | `InOrder`, `AgreedOrder`, `NothingNew`, `CloseDrains`, `Reaches` |
| `listeners` | 13 wirings, 2 events at a time, 1 retry, a listener breaker with 2 failures and timeout 2, 2 calls per 7 ticks; about 57,500 states | `PanicsContained`, `NoSelfOverlap`, `OutcomeIsReal`, `ClosedBelowMax`, `OpenUntilTimeout`, `AtMostRate`, `HungListenerCutOff` |
| `runtime` | 2 goroutines, threshold 2, 2 loggers, 4 kinds of foreign code; field slices: 2 fields, 5 arrays, 5 holders, length 4; about 359,000 states | `LeakOnlyFromOpen`, `ConsistentWhenFree`, `DeadlockNeedsReentry`, `LinesMatchLevel`, `CallsEnd`; `FieldsKept` |
| `single_trial`, `stored_is_latest`, `file_shared_path`, `event_order`, `compose_panics` | see section 6 | each refutes one statement of the documentation |

Why the bounds are enough. Three goroutines are the smallest number with two
stale reports and a call between them, which every known divergence needs at
most. A threshold of 2 separates "a failure" from "the last failure". The
code's only question about time is whether the timeout has passed, so two ticks
give "just failed", "still waiting" and "expired". One caller is enough for
persistence: the stale reports of concurrent callers are in the `breaker` run,
and what is new here is the races between saves, restart and clock. `MaxSaves`
= 2 lets one save overtake another; reaching it blocks further transitions of
that process, and a crash begins the count again. One retry gives an attempt
that backs off and an attempt that is the last. The foreign snapshots are one
for each rule of the validators and each branch of the strategies that the
breaker's own snapshots do not reach, one of them with a longer timeout than
ours. A threshold of 1 keeps both branches of the counter (a failure trips, a
success clears), since the counting itself belongs to `breaker`. The seven
configurations have every value of every option; `enabled` off is enough with
one, and a nil validator appears with either strategy, so that the conservative
strategy's own check of the age decides what a validator has not. Two inodes are all one repository object
can have in use; the run over several objects has a third for the open file.
With a queue of two, two events wait in the channel together, with one in the
worker or with a third that finds the queue full while the worker has not
started; that is where first-in-first-out is decided. Three events are
published in turn, which is what `InOrder` is about; for the goroutines of
`PublishAsync`, and for the strategies without a queue, two are enough to be
overtaken. Two subscriptions give a replacement and two listeners
to disagree.

The wirings are one for each way two kinds of layers can affect one another: a
retry on either side of a timeout, a recovery on either side of a timeout and
of an async layer, user code between an async layer and a recovery with a retry
around both, user code above and below the bus's recovery, the listener's
breaker alone, inside a timeout, and inside a retry; and panics of predicates
and of handlers in layers below and above another recovery, alone or behind a
timeout. `MaxSpawned` = 3 goroutines
per event is one more than any of the wirings starts with one retry. Events
overlap only where a limiter or a breaker makes them meet (`MayOverlap`);
without one, deliveries share nothing. Seven ticks to a second at a rate of two
is a case in which the rounded interval lets one call too many through.

Two goroutines are enough for every pair of locks and every window; the
theorems of section 5 cover any number. Two loggers are a parent and a child.
`BreakerRuntime` and `LogFields` share no variable - no lock and no level
depends on what the fields are, and no field on them - so `MCBreakerRuntime`
explores each while the other has not begun, in one run. Five arrays and five
holders allow a shared array with room in it, two holders that extend it, and
one that must not notice; length 4 lets a slice of 2 grow to a capacity of 4
and be appended to within it.

`event_bus`, `listeners` and `runtime` do not ask for freedom from deadlock: an
unrecovered panic ends the process, a lock that foreign code has leaked stops
the breaker, and a bus to which nothing more is published is at rest. Where
waiting for ever would be wrong, a liveness property says so.

## 4. Fairness

* `CircuitBreaker!FairSpec`: a goroutine that has captured a state goes on to
  run the action or to be admitted or rejected, and the clock ticks. Both are
  weak fairness, and neither waits for anyone: the mutex is only held inside
  steps. Nothing is assumed of callers or actions. `RecoversUnderTraffic` has
  "calls keep coming" as its hypothesis, because an open breaker without
  traffic does nothing (the code has no timer). `HalfOpenResolves` needs
  traffic and that actions which are run as trials for ever do not all hang or
  panic; `TrialsReport` says so.
* `Persistence!PFairSpec`: each running save is scheduled, its repository call
  returns, and its timers fire. Progress includes failure: `SavingEnds` does
  not assume that a repository ever works.
* `FileRepository!FairSpec`: strong fairness per goroutine, since a goroutine's
  turn for the lock comes and goes. `sync.RWMutex` lets no new reader pass a
  waiting writer and lets the waiting readers in when a writer leaves, so it
  starves neither.

* `EventBus!FairSpec`: goroutines with work to do are scheduled, and listeners
  return. The channel and the lock are never held by anyone who waits, so weak
  fairness is enough. Nobody has to publish, subscribe or close.
* `ListenerChain!FairSpec`: goroutines are scheduled, timers fire, the clock
  advances. A listener need not return, which is what `HungListenerCutOff` is
  about, and nobody has to publish.
* `BreakerRuntime!Fairness`: strong fairness per goroutine for what the library
  does next (`Proceed`). A goroutine's turn for a mutex comes and goes, and
  `sync.Mutex` hands itself over to a goroutine that has waited for a
  millisecond. Nobody has to call, an action need not return, and nothing is
  assumed of foreign code but that a writer and `Save` return, panic or call
  back.

## 5. Proofs

Every invariant and every action property of the runs that pass is a theorem,
and so are the refinements of `BreakerProtocol`, `BreakerContract` and
`AtomicRepository`. The theorems hold for every value of the constants, under
assumptions that the modules name:

* about the breaker: a finite set of goroutines, a positive threshold and
  timeout (`ProcsAssumption`, `ThresholdAssumption`, `TimeoutAssumption`; the
  last two are what the options check);
* about `Persistence`, besides: `RetryAttempts`, `MaxAge` and `MaxSaves` are
  natural numbers, `Modes` is a set of configurations, and a foreign snapshot
  has the fields of a snapshot (`RetryAssumption`, `MaxAgeAssumption`,
  `MaxSavesAssumption`, `ModesAssumption`, `ForeignAssumption`). Its counter,
  threshold and timeout may be any integers, negative ones included, its state
  any of the three or none, its creation past, unset or in the future. One
  thing is assumed of what the fields say: `lastFailure` is zero or not ahead
  of the clock (section 7);
* about `BreakerRuntime`: any set of goroutines, none of them called "nobody",
  a positive threshold, at least one logger, and any set of misbehaviours
  (`ThreadsAssumption`, `ThresholdAssumption`, `LoggersAssumption`,
  `ModesAssumption`);
* about `LogFields`: there is a field, and room for the two arrays of the start
  (`FieldAssumption`, `ArraysAssumption`);
* about `FileRepository`: every goroutine uses one repository object, there is
  an inode more than there are objects, and snapshots are none of the answers
  (`RepoOfAssumption`, `InodesAssumption`, `IOFailsAssumption`,
  `ValuesAssumption`). `NeverTorn` and `ImplementsAtomic` have `OneRepository`
  as a hypothesis: all goroutines use the same object. Without it both are
  false, which is what the run `file_shared_path` shows;
* about `EventBus`: any set of modes, a queue of at least one, any number of
  events and listeners (`ModesAssumption`, `BoundsAssumption`);
* about `ListenerChain`: wirings are sequences of layers, of any length and in
  any order; the numbers are what the decorators make sense for, and a second
  has at least as many ticks as calls are allowed in it (`WiringsAssumption`,
  `NumbersAssumption`). `RateKept` has the hypothesis that `Rate` is at most
  `Interval + 1`: the interval between calls is rounded down, and with larger
  rates the rounding adds up to more than one call. In nanoseconds this is
  every rate up to about 31,000 a second.

**Breaker**

| Theorem | Statement | Argument |
|---|---|---|
| `Typing` | `Spec => []TypeOK` | inductive as it stands; the clauses that tie `pc` to `held` are needed to know under which object an action reports |
| `StateSafety`, `SnapshotSafety` | `Spec => []Consistent`, `Spec => []SnapshotsValid` | their conjunction `StateInv` with `TypeOK`; `TransitionToFacts` says once what any `transitionTo` leaves behind |
| `Overshoot` | `Spec => []OvershootBound` | counts the calls that still hold a Closed object: `Capture` adds one only while the counter is below the threshold, a failure trades one call for one count |
| `ImplementsContract` | `Spec => ContractSpec` | every step maps to a contract step or a stutter; `OpenAdmit` of a call that holds a stale object is `AdmitTrial`, `Tick` is `Cool` when the timeout passes |
| `SequentialSafety` | a single-goroutine program is never stale | `NothingStale`: at most one call is in progress and its object is the current one; `StreakCounted`: a closed breaker has counted the streak |
| `ImplementsProtocol` | `SequentialSpec => ProtocolSpec` | from `SequentialSafety`; the counter is mapped to the streak, the timer to whether an open circuit has cooled |
| `RejectionLinearizable` | `HistorySpec => []RejectionJustified` | strengthened to every call that holds an Open object while the circuit is open and waiting, and to the age of `lastFailure`, which only falls when the circuit opens |

**Persistence and the file repository**

| Theorem | Statement | Argument |
|---|---|---|
| `PTyping` | `PSpec => []PTypeOK` | inductive as it stands; every step of the breaker in `Persistence` is a step of `CircuitBreaker` (`BreakerMovesAreSteps`), whose typing is reused |
| `RestartSafety` | `PSpec => []RestartConsistent` | `StateInv` again, unless the breaker restores without a validator: `RestoredIsConsistent` shows that a snapshot which passes the validator, repaired by either strategy, is a consistent state, whatever else it says |
| `Durability` | `PSpec => []DurableBeforeVisible` | `DurableInv`: with a synchronous manager there is at most one save; while there is one it carries what the breaker has become, afterwards the repository does. With a working repository no save is late or in a backoff |
| `FailuresReported` | `PSpec => []SaveFailuresReported` | `LedgerInv`: every id up to `issued` is in progress or closed; one in progress is unwritten, has been reported once at most, and that only when its error is on its way to `AsyncReport`; so whatever closes it has written or reported it |
| `ConservativeStarts` | `PSpec => ConservativeStart` | by the four ways `New` can end: three leave a closed breaker, and what the fourth restores has passed the strategy's own checks, with or without a validator |
| `FileTyping` | `Spec => []TypeOK` | inductive as it stands |
| `NeverTorn` | `OneRepository /\ Spec => []TargetNeverTorn` | `FileInv`: whoever is in `Save` or `Delete` is the one writer that holds the mutex (`WriterAlone`); the temporary file is never the target's inode, is torn while it is written, and then holds what is to be saved (`TempInOrder`) |
| `ImplementsAtomic` | `OneRepository /\ Spec => AtomicSpec` | with `FileInv`: `Rename` is the abstract save, `Remove` and `CheckMissing` the abstract delete, `Read` and `StatMissing` the load, `Look` the exists; the other steps leave alone what the path holds, and start a call, give it up, or change nothing that its user waits for |

**Events**

| Theorem | Statement | Argument |
|---|---|---|
| `BusTyping` | `Spec => []TypeOK` | `Typing` is `TypeOK` with what its parts need: ids that belong to subscriptions, a generated id that is never past the next one |
| `NoLaterEvents` | `Spec => []NothingNew` | `NewsInv`: who is registered has not left and has one id only (`Registered`), so what `GetListeners` copies may be delivered; what is in `todo` was published before its listener left (`NothingAhead`) |
| `ClosedIsDrained` | `Spec => []CloseDrains` | `DrainInv`: an accepted event is finished, in the queue, or with the worker, and after `Close` there is neither queue nor work |
| `OneOrder` | `Spec => []AgreedOrder` | `OrderInv`: an event goes through the channel once and is delivered to a listener once; nobody has received what is still in the queue, and the worker's event is the last of whoever has received it |
| `PublishedOrder` | `Spec => []InOrder` | with `OrderInv`; `OneAtATime`: only the latest event is between its publisher and the strategy, the queue is ascending, and whatever was received is not later than the worker's event and earlier than all in the queue |
| `ChainTyping` | `Spec => []TypeOK` | `Stacks`, on which all theorems about the chain rest: a frame stands in the layers of its goroutine, whose base is the chain's end or a timeout or async layer (`FrameOK`); a goroutine has one that waits for it at most, and a result in a channel has its reader (`Waiting`) |
| `ContainedPanics` | `Spec => []PanicsContained` | `FrameOK` again: a panic on its way up has passed no recovery since its source - listener, user code around it, predicate or handler; at the end of its goroutine the next recovery is beyond the layer that started the goroutine |
| `RealOutcome` | `Spec => []OutcomeIsReal` | `NilInv`: every nil of a frame is on record, as a success of the listener or as a layer that was meant to skip it; `ErrInv`: without a timeout and without user code, the strategy's goroutine is on its way up with nil as soon as the listener has returned nil or another goroutine may still make it |
| `SelfOverlap` | `Spec => []NoSelfOverlap` | `OneActive`: of the goroutines of an event one at most runs the listener or may still come to it, by going down or by meeting a retry with an error, with a panic that a recovery turns into one, or with a nil that user code may turn into a panic first (`MayRetry`) |
| `BelowMaximum`, `StaysOpen` | `Spec => []ClosedBelowMax`, `Spec => OpenUntilTimeout` | every report is one critical section that opens the breaker when it reaches the maximum; only `BreakerPasses` after the timeout, or the success of a call admitted that way, closes it |
| `RateKept` | `Rate <= Interval + 1` gives `Spec => []AtMostRate` | `Spaced`: admitted calls lie `Interval` apart and within a second; they fall into different multiples of `Interval`, of which a second has at most `Rate + 1` (an injection into `0 .. Rate`) |

**Mutexes and loggers**

| Theorem | Statement | Argument |
|---|---|---|
| `RuntimeTyping` | `Spec => []TypeOK` | with the clauses that tie `pc` to `mutex` and a log call to its `lock` |
| `MutexLeaks` | `Spec => []LeakOnlyFromOpen` | `MutexInv`: the mutex's owner is in a critical section, waits for itself in a `State()` that logs, or is idle after a panic in `OpenState.Execute`; and it logs at four places only |
| `FreeIsConsistent` | `Spec => []ConsistentWhenFree` | `WindowInv`: the fields are in order whenever no goroutine stands between the change of `currentState` and `OnEntry`, unless a panic there has damaged them |
| `NoDeadlock` | `Spec => []DeadlockNeedsReentry` | `MutexInv` and `LoggerInv`: in a circle of waiting goroutines none of which called back, one waits for a logger; the holder of a logger's mutex is at its writer and waits for nothing |
| `LevelsObeyed` | `Spec => LinesMatchLevel` | `LoggerInv`: what is at the writer was allowed by a level that cannot change while the lock is held |
| `FieldsStay` | `FieldsSpec => []FieldsKept` | `SharingInv`: sets share arrays with sets only, an adapter's slice fills its array, and nobody sees more of the builder's array than the builder; so an `append` in place writes beyond what the others see |

`ClosedBelowThreshold` is not inductive alone: the step that closes the circuit
must be known to clear the counter, and the step that counts to keep its result
below the threshold or to trip. The contract theorem together with the protocol
theorem says where the documentation is right: as long as no two calls overlap.

`NoDeadlock` is about sets of goroutines of any size, and the theorems about
`ListenerChain` about nestings of any depth, which is where a proof says more
than a run with two goroutines or thirteen wirings. `ConsistentWhenFree` has
`damaged` in it because without it the property is false: a logger that panics
at `breaker.go:219` leaves a closed breaker at its threshold, or an open one
that has no timestamp. `NoSelfOverlap` names the async layer because the proof
asked for it: with user code that panics between an async layer and a recovery,
a retry around them starts the listener again beside itself, and one of the
wirings is that nesting. `RestartConsistent` leaves out breakers that restore
without a validator for the same reason: a nil validator lets a closed breaker
start at its threshold.

Only model-checked, because the prover has no rules for fairness and `ENABLED`,
are the liveness properties: `RecoversUnderTraffic`, `HalfOpenResolves`,
`SavingEnds`, `CallsEnd` (of `FileRepository` and of `BreakerRuntime`),
`Reaches` and `HungListenerCutOff`.

## 6. Where the code and its documentation differ

Runs that end with a violation, and the statement each refutes:

* `single_trial` - "a single request is allowed through" in the half-open state
  (`breaker.go:12`). Every call that finds it half-open runs as a trial.
* `stored_is_latest` - the persisted state survives a restart (`README.md:52`).
  Asynchronous saves are not ordered; the older snapshot may be written last.
* `file_shared_path` - state changes are written atomically (`README.md:108`).
  Two `FileSnapshotRepository` objects on one path share the temporary file but
  no lock. `NewTempFileSnapshotRepository` gives all its callers one path.
* `event_order` - the ordered strategy "preserves event order"
  (`events/strategy.go:132`, 136). It keeps the order in which events reach it;
  the breaker publishes with `PublishAsync`, whose goroutines may reach it in
  any order. What does hold is `InOrder` (for one goroutine that uses
  `Publish`) and `AgreedOrder` (all listeners see the same order).
* `compose_panics` - with `ListenerWithPanicRecovery` "the panic is recovered and
  converted to an error" (`events/decorators.go:163`). In the example of
  `Compose` (`events/decorators.go:341-346`) the recovery is around a timeout,
  whose goroutine it cannot reach: a panic of the listener ends the process.
  What does hold is `PanicsContained`.

Others of the same kind, visible in the models but given no run of their own.

*Breaker and persistence.* With two trials in progress, one fails and re-opens
the circuit, then the other succeeds and closes it at once, before its timeout
(`breaker.go:11`); a
late failure of a trial opens a closed circuit below the threshold (`options.go:24`); a
call that captured the open state half-opens a circuit that was closed
meanwhile (`options.go:36`); a stored snapshot that fails validation is dropped
without `OnRestoreError` (`persistence_manager.go:35-36`); without a `Validator`
an inconsistent snapshot is restored as it is (lines 88, 236); a synchronous save
whose deadline passes in a backoff returns without `OnSaveError`
(`persistence_manager.go:29`, 141); an asynchronous save that exhausts its
retries calls it twice.

*Bus.* A removed listener is still called for events published
before (`events/event.go:107`); a generated id may be one that a user has taken
(`events/registry.go:35`); ending a subscription whose id was subscribed again
removes the newer listener; a full queue drops the event where
`events/strategy.go:153` says `Deliver` blocks.

*Decorators and middleware.* The handler of `WithPanicRecovery`
(`events/bus.go:23`, 268) never hears of a listener's panic, because the bus's
own recovery (`events/bus.go:53`) is below it; and nothing recovers a panic of
middleware that was added above, nor one of the outermost `PanicHandler`. "Middleware are applied in the order they are
added" makes the last one of `Use` outermost (`events/bus.go:192`), "in the
order provided" the first one of `Chain` (`events/middleware.go:27`).
`ListenerWithAsync` inside `ListenerWithContextTimeout` gets a context that is
cancelled as soon as it starts. "At most 'rate' times per second"
(`events/decorators.go:118`) can be once more than that, and is no limit for a
rate above 1,000,000,000. The listener breaker opens at `maxFailures`, not
after "more than" it (`events/decorators.go:187`), and its "half-open"
(line 220) lets every call through. A retry around an async layer runs the
listener twice at once when user code between them panics.

*Mutexes and logging.* A writer that asks the breaker for its `State()`
deadlocks, with itself or with another goroutine. A logger that panics inside
`transitionTo` leaves the state changed and `OnEntry` not run
(`breaker.go:219`). A "thread-safe" `DefaultLogger` (`logging/default.go:18`)
reads `minLevel` without the lock (lines 113, 133), which is a data race with
`SetLevel`, and shares its writer, but not its mutex, with its children. A
child's level is a copy that `SetLevel` of the parent does not change.
`SlogAdapter` prints inherited fields twice (`logging/adapters.go:73`, 74).
Two sets derived with `Fields.With` from one set may overwrite each other's
fields (`logging/fields.go:168`).

## 7. What is left out, and why

* Snapshot metadata, the wording of errors, and the layout of log lines: no
  property depends on them.
* JSON: a file is a whole snapshot or `Torn`. `FromJSON` refuses the latter.
* Power loss: `FileRepository` models the death of the process. The code does
  not call `fsync`, and nothing is claimed about what a disk holds after a
  power failure.
* Foreign code that never returns - a repository, a writer, a validator - stops
  the breaker while `transitionTo` holds the mutex. A deadline of the context
  does not help: `saveSync` passes it on and waits.
* The restart of a process that overlaps with the old one's saves: a process
  is dead before its successor starts.
* Listeners that call the bus: in `Close`, the worker of the ordered strategy
  would wait for itself (`events/strategy.go:204`).
* Two goroutines that end the same `Subscription` at once: `event.go:110` is not
  synchronised, and its owner is taken to be one goroutine.
* Contexts of events: `ListenerWithContextTimeout` and
  `ContextTimeoutMiddleware` hand their caller's goroutine on with another
  context, and a listener that obeys it returns an error, as any listener may.
* A negative `RetryAttempts`, which `WithPersistenceRetry` refuses and
  `WithPersistenceConfig` does not (`options.go:63`).
* Clocks that disagree: a stored `lastFailure` that lies ahead of the clock of
  the process that loads it. No validator refuses it, and the breaker then
  stays open for as much longer.
* The lines that `Save` logs are one line in `BreakerRuntime`, at the level of
  the others; they take the logger's lock at the same point of the critical
  section.
* Durations, except where two are compared: backoffs and retry delays pass
  time, and the deadline of a save may pass in any of them.
* A writer that logs with the logger that calls it. It waits for itself, as any
  code does that calls its own lock; the model has calls back into the breaker.
* `TestLogger` and `NoOpLogger`, conversions to `slog`: no state that anything
  else depends on. Errors and examples likewise.

## 8. Plan

Done: the breaker with its two abstract specifications; persistence across
crashes and restarts; the file repository; the event bus with its registry and
strategies; decorators and middleware; the mutexes of breaker and loggers under
foreign code; field slices; and proofs of every safety property of these.

Next, in this order:

1. An abstract specification of ordered delivery - a queue that loses only what
   it reports lost - implemented by `EventBus` in its ordered mode, with the
   refinement proved.
2. The backoff delays with their integer width
   (`persistence_manager.go:127`), as a pure function with its lemmas.
