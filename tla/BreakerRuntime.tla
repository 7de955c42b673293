---------------------------- MODULE BreakerRuntime ----------------------------
(***************************************************************************)
(* The breaker's mutex and the mutexes of the DefaultLoggers it logs with, *)
(* made explicit.                                                          *)
(*                                                                         *)
(* CircuitBreaker takes every critical section for one step.  It is one    *)
(* only if nothing foreign runs in it, but transitionTo, with the mutex    *)
(* held, calls the logger (before OnEntry), and then the validator, the    *)
(* logger, a synchronous repository and OnSaveError (in Save).  Each may   *)
(* panic, and each may call back into the breaker, whose mutex is not      *)
(* reentrant.  DefaultLogger.log in turn holds the logger's mutex while it *)
(* calls the io.Writer.  Listeners and asynchronous saves run in           *)
(* goroutines of their own: for a mutex they are further Threads.          *)
(***************************************************************************)
EXTENDS Integers, FiniteSets

CONSTANTS
  Threads,           \* goroutines that use the breaker and the loggers
  FailureThreshold,
  Modes,             \* what the foreign code does besides returning
  MaxLoggers         \* bound: loggers; 1 is the breaker's

ASSUME ThreadsAssumption == "nobody" \notin Threads
ASSUME ThresholdAssumption == FailureThreshold \in Nat \ {0}
ASSUME LoggersAssumption == MaxLoggers \in Nat \ {0}
ASSUME ModesAssumption ==
  Modes \subseteq [panics : SUBSET {"log", "save"}, reenters : SUBSET {"log", "save"}]

VARIABLES
  mode,
  currentState, failureCount,
  stamp,       \* lastFailure: "zero", within the resetTimeout, or past it
  mutex,       \* holder of CircuitBreakerImpl.mutex
  pc, held,    \* as in CircuitBreaker
  log,         \* the log call each thread is in
  lock,        \* holder of each DefaultLogger.mu
  minLevel,    \* DefaultLogger.minLevel; the loggers that exist
  line,        \* the logger that wrote a line in the last step
  leak,        \* the State object whose Execute has gone without unlocking
  damaged      \* a panic has cut a transition short of OnEntry

breakerVars == <<currentState, failureCount, stamp>>
loggerVars == <<lock, minLevel>>
vars == <<mode, breakerVars, mutex, pc, held, log, loggerVars, line, leak, damaged>>

States == {"Closed", "Open", "HalfOpen"}
NoState == "None"
NoOwner == "nobody"
NoLine == 0
BreakerLogger == 1
Loggers == DOMAIN minLevel

\* Lines of LevelInfo are logged; minLevel lets them pass or not.
Info == 1
Levels == {Info, Info + 1}

\* No log call; a call of log(), and whether Info has been off during it.
NoLog == [logger |-> NoLine, at |-> "none", off |-> FALSE]
LogCalls ==
  [logger : Loggers, at : {"check", "lock", "write", "reenter", "stuck"}, off : BOOLEAN]
LogCall(l) == [logger |-> l, at |-> "check", off |-> minLevel[l] > Info]

Init ==
  /\ mode \in Modes
  /\ currentState = "Closed" /\ failureCount = 0 /\ stamp = "zero"
  /\ mutex = NoOwner
  /\ pc = [t \in Threads |-> "idle"] /\ held = [t \in Threads |-> NoState]
  /\ log = [t \in Threads |-> NoLog]
  /\ minLevel \in [{BreakerLogger} -> Levels]
  /\ lock = [l \in {BreakerLogger} |-> NoOwner]
  /\ line = NoLine /\ leak = NoState /\ damaged = FALSE
-----------------------------------------------------------------------------
Free(t) == pc[t] = "idle" /\ log[t] = NoLog

\* In a critical section of the breaker.
Locked(t) == pc[t] \in {"resetting", "entry", "saving", "logged", "reentered"}

\* In Save, before the line it may log or after it, and in no log call.
InSave(t) == pc[t] \in {"saving", "logged"} /\ log[t] = NoLog
Expired == stamp # "recent"

Goto(t, where) == pc' = [pc EXCEPT ![t] = where]
Holding(t, s) == held' = [held EXCEPT ![t] = s]
Return(t) == Goto(t, "idle") /\ Holding(t, NoState)
LogKept == UNCHANGED <<log, loggerVars>> /\ line' = NoLine

\* transitionTo up to its logger.Info: the state has changed, OnEntry has not run.
TransitionTo(t, new, count) ==
  /\ mutex' = t
  /\ currentState' = new /\ failureCount' = count
  /\ Goto(t, "entry")
  /\ log' = [log EXCEPT ![t] = LogCall(BreakerLogger)]
  /\ line' = NoLine
  /\ UNCHANGED <<mode, loggerVars, leak, damaged>>

\* failureCount++; no code tells counts from FailureThreshold on apart.
Incremented == IF failureCount < FailureThreshold THEN failureCount + 1 ELSE failureCount

\* A critical section without a transition runs nothing foreign.
Section(t, count) ==
  /\ failureCount' = count
  /\ Return(t) /\ LogKept
  /\ UNCHANGED <<mode, currentState, stamp, mutex, leak, damaged>>

Capture(t) ==
  /\ Free(t) /\ mutex = NoOwner
  /\ Goto(t, "delegated") /\ Holding(t, currentState)
  /\ LogKept /\ UNCHANGED <<mode, breakerVars, mutex, leak, damaged>>

RunAction(t) ==
  /\ pc[t] = "delegated" /\ held[t] # "Open"
  /\ Goto(t, "running")
  /\ LogKept /\ UNCHANGED <<mode, breakerVars, mutex, held, leak, damaged>>

OpenExecute(t) ==
  /\ pc[t] = "delegated" /\ held[t] = "Open" /\ mutex = NoOwner
  /\ \/ Expired /\ TransitionTo(t, "HalfOpen", failureCount) /\ UNCHANGED <<stamp, held>>
     \/ ~Expired /\ Section(t, failureCount)

\* ClosedState.Execute and HalfOpenState.Execute after action().
Report(t) ==
  /\ pc[t] = "running" /\ mutex = NoOwner
  /\ \/ held[t] = "Closed" /\ Section(t, 0)
     \/ /\ held[t] = "Closed" /\ Incremented < FailureThreshold
        /\ Section(t, Incremented)
     \/ /\ held[t] = "Closed" /\ Incremented >= FailureThreshold
        /\ TransitionTo(t, "Open", Incremented) /\ UNCHANGED <<stamp, held>>
     \/ /\ held[t] = "HalfOpen"
        /\ \E new \in {"Open", "Closed"} : TransitionTo(t, new, failureCount)
        /\ UNCHANGED <<stamp, held>>

\* State(), when it has a transition to make.
State(t) ==
  /\ Free(t) /\ mutex = NoOwner
  /\ currentState = "Open" /\ Expired
  /\ TransitionTo(t, "HalfOpen", failureCount) /\ UNCHANGED <<stamp, held>>

\* Reset() logs before it touches anything.
Reset(t) ==
  /\ Free(t) /\ mutex = NoOwner
  /\ mutex' = t /\ Goto(t, "resetting")
  /\ log' = [log EXCEPT ![t] = LogCall(BreakerLogger)] /\ line' = NoLine
  /\ UNCHANGED <<mode, breakerVars, held, loggerVars, leak, damaged>>

ResetTransition(t) ==
  /\ pc[t] = "resetting" /\ log[t] = NoLog
  /\ stamp' = "zero"
  /\ TransitionTo(t, "Closed", 0) /\ UNCHANGED held

\* Mutant: the new State object is not told.
OnEntry_Skipped(t) ==
  /\ pc[t] = "entry" /\ log[t] = NoLog
  /\ Goto(t, "saving")
  /\ LogKept /\ UNCHANGED <<mode, breakerVars, mutex, held, leak, damaged>>

\* The rest of transitionTo up to the call of Save.
OnEntry(t) ==
  /\ pc[t] = "entry" /\ log[t] = NoLog
  /\ failureCount' = IF currentState = "Closed" THEN 0 ELSE failureCount
  /\ stamp' = IF currentState = "Open" THEN "recent" ELSE stamp
  /\ Goto(t, "saving")
  /\ LogKept /\ UNCHANGED <<mode, currentState, mutex, held, leak, damaged>>

\* Save logs what it refuses, does or fails to do, with the breaker's logger
\* (options.go:252), between the validator, the repository and OnSaveError.
\* Bound: one line for all of them.
SaveLogs(t) ==
  /\ pc[t] = "saving"
  /\ Goto(t, "logged")
  /\ log' = [log EXCEPT ![t] = LogCall(BreakerLogger)] /\ line' = NoLine
  /\ UNCHANGED <<mode, breakerVars, mutex, held, loggerVars, leak, damaged>>

\* Mutant: OpenState.Execute unlocks in a deferred call, after the action.
SaveReturns_Deferred(t) ==
  /\ InSave(t)
  /\ IF held[t] = "Open"
     THEN Goto(t, "delegated") /\ Holding(t, currentState) /\ UNCHANGED mutex
     ELSE Return(t) /\ mutex' = NoOwner
  /\ LogKept /\ UNCHANGED <<mode, breakerVars, leak, damaged>>

\* Save returns, the event is handed to a goroutine, the mutex is released;
\* OpenState.Execute goes on with the new state's Execute.
SaveReturns(t) ==
  /\ InSave(t)
  /\ mutex' = NoOwner
  /\ IF held[t] = "Open" THEN Goto(t, "delegated") /\ Holding(t, currentState) ELSE Return(t)
  /\ LogKept /\ UNCHANGED <<mode, breakerVars, leak, damaged>>

\* Foreign code called by Save calls the breaker and waits for t's own mutex.
SaveReenters(t) ==
  /\ InSave(t) /\ "save" \in mode.reenters
  /\ Goto(t, "reentered")
  /\ LogKept /\ UNCHANGED <<mode, breakerVars, mutex, held, leak, damaged>>

\* Mutant: no method unlocks in a deferred call.
Unwind_NoDefer(t) ==
  /\ UNCHANGED mutex
  /\ leak' = (IF ~Locked(t) THEN leak ELSE IF held[t] = NoState THEN "API" ELSE held[t])
  /\ Return(t)

\* A panic leaves the breaker's method.  OpenState.Execute has no defer.
Unwind(t) ==
  /\ mutex' = IF Locked(t) /\ held[t] # "Open" THEN NoOwner ELSE mutex
  /\ leak' = IF Locked(t) /\ held[t] = "Open" THEN "Open" ELSE leak
  /\ Return(t)

SavePanics(t) ==
  /\ InSave(t) /\ "save" \in mode.panics
  /\ Unwind(t)
  /\ LogKept /\ UNCHANGED <<mode, breakerVars, damaged>>

ActionPanics(t) ==
  /\ pc[t] = "running"
  /\ Unwind(t)
  /\ LogKept /\ UNCHANGED <<mode, breakerVars, damaged>>

\* lastFailure grows old.
Expire ==
  /\ stamp = "recent" /\ stamp' = "expired"
  /\ LogKept /\ UNCHANGED <<mode, currentState, failureCount, mutex, pc, held, leak, damaged>>
-----------------------------------------------------------------------------
(* DefaultLogger *)

BreakerKept == UNCHANGED <<mode, breakerVars, leak, damaged>>
LogAt(t, where) == log' = [log EXCEPT ![t].at = where]
LogDone(t) == log' = [log EXCEPT ![t] = NoLog]
Own(t) == log[t].logger

\* The application logs with any logger.
AppLog(t) ==
  /\ Free(t)
  /\ \E l \in Loggers : log' = [log EXCEPT ![t] = LogCall(l)]
  /\ line' = NoLine
  /\ BreakerKept /\ UNCHANGED <<mutex, pc, held, loggerVars>>

\* Mutant: <= in the check without the lock.
LogCheck_Strict(t) ==
  /\ log[t].at = "check"
  /\ LogDone(t) /\ line' = NoLine
  /\ BreakerKept /\ UNCHANGED <<mutex, pc, held, loggerVars>>

\* log(): the check without the lock.
LogCheck(t) ==
  /\ log[t].at = "check"
  /\ IF Info < minLevel[Own(t)] THEN LogDone(t) ELSE LogAt(t, "lock")
  /\ line' = NoLine
  /\ BreakerKept /\ UNCHANGED <<mutex, pc, held, loggerVars>>

\* Mutants: no second check; the lock is one of the call's own.
LogLock_NoRecheck(t) ==
  /\ log[t].at = "lock" /\ lock[Own(t)] = NoOwner
  /\ lock' = [lock EXCEPT ![Own(t)] = t] /\ LogAt(t, "write")
  /\ line' = NoLine
  /\ BreakerKept /\ UNCHANGED <<mutex, pc, held, minLevel>>

LogLock_Copied(t) ==
  /\ log[t].at = "lock"
  /\ IF Info < minLevel[Own(t)] THEN LogDone(t) ELSE LogAt(t, "write")
  /\ line' = NoLine
  /\ BreakerKept /\ UNCHANGED <<mutex, pc, held, loggerVars>>

\* log(): take the lock and check again.
LogLock(t) ==
  /\ log[t].at = "lock" /\ lock[Own(t)] = NoOwner
  /\ IF Info < minLevel[Own(t)]
     THEN LogDone(t) /\ UNCHANGED lock
     ELSE LogAt(t, "write") /\ lock' = [lock EXCEPT ![Own(t)] = t]
  /\ line' = NoLine
  /\ BreakerKept /\ UNCHANGED <<mutex, pc, held, minLevel>>

\* The writer returns; log unlocks.
LogWrite(t) ==
  /\ log[t].at = "write"
  /\ LogDone(t) /\ lock' = [lock EXCEPT ![Own(t)] = NoOwner]
  /\ line' = Own(t)
  /\ BreakerKept /\ UNCHANGED <<mutex, pc, held, minLevel>>

\* Mutant: no deferred unlock in log.
LogPanics_KeepsLock(t) ==
  /\ log[t].at = "write" /\ "log" \in mode.panics
  /\ LogDone(t) /\ UNCHANGED lock
  /\ line' = NoLine
  /\ Unwind(t)
  /\ damaged' = (damaged \/ pc[t] = "entry")
  /\ UNCHANGED <<mode, breakerVars, minLevel>>

\* The writer panics; log unlocks, and so does the breaker's method if it can.
LogPanics(t) ==
  /\ log[t].at = "write" /\ "log" \in mode.panics
  /\ LogDone(t) /\ lock' = [lock EXCEPT ![Own(t)] = NoOwner]
  /\ line' = NoLine
  /\ Unwind(t)
  /\ damaged' = (damaged \/ pc[t] = "entry")
  /\ UNCHANGED <<mode, breakerVars, minLevel>>

\* The writer, called by the breaker's own logger, asks for the State().
LogReenters(t) ==
  /\ log[t].at = "write" /\ Own(t) = BreakerLogger /\ "log" \in mode.reenters
  /\ LogAt(t, "reenter") /\ line' = NoLine
  /\ BreakerKept /\ UNCHANGED <<mutex, pc, held, loggerVars>>

\* It gets an answer, unless State() makes a transition of its own, which
\* logs, with the logger that is waiting for this very writer.
ReenteredState(t) ==
  /\ log[t].at = "reenter" /\ mutex = NoOwner
  /\ IF currentState = "Open" /\ Expired
     THEN mutex' = t /\ currentState' = "HalfOpen" /\ LogAt(t, "stuck")
     ELSE LogAt(t, "write") /\ UNCHANGED <<mutex, currentState>>
  /\ line' = NoLine
  /\ UNCHANGED <<mode, failureCount, stamp, pc, held, loggerVars, leak, damaged>>

\* SetLevel; the calls in progress with that logger may see either level.
SetLevel(t) ==
  /\ Free(t)
  /\ \E l \in Loggers, v \in Levels :
       /\ lock[l] = NoOwner
       /\ minLevel' = [minLevel EXCEPT ![l] = v]
       /\ log' = [u \in Threads |-> IF log[u].logger = l
                                     THEN [log[u] EXCEPT !.off = @ \/ v > Info]
                                     ELSE log[u]]
  /\ line' = NoLine
  /\ BreakerKept /\ UNCHANGED <<mutex, pc, held, lock>>

\* With and WithContext: a logger with the level of its parent for a start,
\* the parent's writers, and a mutex of its own.
With(t) ==
  /\ Free(t) /\ Cardinality(Loggers) < MaxLoggers
  /\ LET child == Cardinality(Loggers) + 1 IN
     \E l \in Loggers :
       /\ lock[l] = NoOwner
       /\ minLevel' = [k \in Loggers \cup {child} |-> IF k = child THEN minLevel[l] ELSE minLevel[k]]
       /\ lock' = [k \in Loggers \cup {child} |-> IF k = child THEN NoOwner ELSE lock[k]]
  /\ line' = NoLine
  /\ BreakerKept /\ UNCHANGED <<mutex, pc, held, log>>
-----------------------------------------------------------------------------
\* What a thread in a call of the library does next, foreign code aside.
Proceed(t) ==
  \/ RunAction(t) \/ OpenExecute(t) \/ ResetTransition(t) \/ OnEntry(t) \/ SaveReturns(t)
  \/ LogCheck(t) \/ LogLock(t) \/ LogWrite(t) \/ ReenteredState(t)

Next ==
  \/ \E t \in Threads :
       \/ Proceed(t)
       \/ Capture(t) \/ Report(t) \/ ActionPanics(t) \/ State(t) \/ Reset(t)
       \/ SaveLogs(t) \/ SavePanics(t) \/ SaveReenters(t)
       \/ AppLog(t) \/ LogPanics(t) \/ LogReenters(t) \/ SetLevel(t) \/ With(t)
  \/ Expire

Spec == Init /\ [][Next]_vars

(***************************************************************************)
(* sync.Mutex hands itself to a goroutine that has waited for a            *)
(* millisecond: a waiter is not passed over for ever.  Nobody has to call, *)
(* and an action need not return.  Writers and callbacks return, panic or  *)
(* re-enter.                                                               *)
(***************************************************************************)
Fairness == \A t \in Threads : SF_vars(Proceed(t))
FairSpec == Spec /\ Fairness
-----------------------------------------------------------------------------
\* Types, and who may hold which lock.  (One logger writes one line at a time;
\* a logger and its child do not exclude each other.)
TypeOK ==
  /\ mode \in Modes
  /\ currentState \in States /\ failureCount \in Nat
  /\ stamp \in {"zero", "recent", "expired"}
  /\ mutex \in Threads \cup {NoOwner}
  /\ pc \in [Threads -> {"idle", "delegated", "running", "resetting", "entry",
                         "saving", "logged", "reentered"}]
  /\ held \in [Threads -> States \cup {NoState}]
  /\ Loggers \in {1 .. n : n \in 1 .. MaxLoggers}
  /\ minLevel \in [Loggers -> Levels] /\ lock \in [Loggers -> Threads \cup {NoOwner}]
  /\ log \in [Threads -> LogCalls \cup {NoLog}]
  /\ damaged \in BOOLEAN
  /\ \A t \in Threads :
       /\ Locked(t) => mutex = t
       /\ log[t].at \in {"write", "reenter", "stuck"} => lock[Own(t)] = t

(***************************************************************************)
(* A panic in foreign code costs the mutex only when it passes through     *)
(* OpenState.Execute (state.go:61); every other method unlocks in a        *)
(* deferred call.                                                          *)
(***************************************************************************)
LeakOnlyFromOpen ==
  /\ leak \in {NoState, "Open"}
  /\ mutex \in Threads => \/ Locked(mutex)
                          \/ log[mutex].at = "stuck"
                          \/ leak = "Open"

(***************************************************************************)
(* Whoever gets the mutex finds what CircuitBreaker promises, although     *)
(* transitionTo breaks it in between - as long as no logger panics in that *)
(* window (breaker.go:219).  A panic anywhere in Save is harmless here.    *)
(***************************************************************************)
ConsistentWhenFree ==
  mutex = NoOwner /\ ~damaged =>
    /\ currentState = "Closed" => failureCount < FailureThreshold
    /\ currentState = "Open" => stamp # "zero"

(***************************************************************************)
(* Goroutines wait for each other in a circle, or one for itself, only if  *)
(* foreign code called back into the breaker with a lock held: the library *)
(* itself takes the loggers' locks after the breaker's, never before.      *)
(***************************************************************************)
WaitsFor(t, u) ==
  \/ /\ mutex = u
     /\ \/ pc[t] = "delegated" /\ held[t] = "Open"
        \/ pc[t] = "reentered" \/ log[t].at = "reenter"
  \/ log[t].at \in {"lock", "stuck"} /\ lock[Own(t)] = u
Deadlocked(D) == \A t \in D : \E u \in D : WaitsFor(t, u)
Reentered(t) == pc[t] = "reentered" \/ log[t].at \in {"reenter", "stuck"}
InLibrary(t) == pc[t] # "running" /\ ~Free(t)

DeadlockNeedsReentry ==
  \A D \in (SUBSET Threads) \ {{}} : Deadlocked(D) => \E t \in D : Reentered(t)

(***************************************************************************)
(* The unlocked check of log() only saves work: no line is written below   *)
(* the level in force when it is written, and none is lost that was        *)
(* enabled throughout its call, whenever SetLevel is called.               *)
(***************************************************************************)
LinesMatchLevel ==
  [][/\ line' # NoLine => Info >= minLevel[line']
     /\ \A t \in Threads :
          log[t].at \in {"check", "lock"} /\ log'[t] = NoLog => log[t].off]_vars

(***************************************************************************)
(* Where foreign code only returns, or panics outside OpenState, every     *)
(* call comes to an end, or to the caller's own action; no order of        *)
(* acquiring the locks starves anyone.                                     *)
(***************************************************************************)
CallsEnd ==
  mode.reenters = {} =>
    \A t \in Threads : InLibrary(t) ~> ~InLibrary(t) \/ leak = "Open"
=============================================================================
