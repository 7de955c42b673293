----------------------------- MODULE Persistence ----------------------------
(***************************************************************************)
(* The circuit breaker with its PersistenceManager (persistence_manager.go *)
(* and validators.go), a snapshot repository, and the crashes and restarts *)
(* that persistence is for.                                                *)
(*                                                                         *)
(* transitionTo hands a snapshot to Save while it holds the breaker's      *)
(* mutex.  An asynchronous manager starts a goroutine per snapshot and     *)
(* returns; the goroutines race.  A synchronous one keeps the mutex, and   *)
(* the caller, until the last retry is over.                               *)
(*                                                                         *)
(* The repository is the interface of repository.go: Save replaces the     *)
(* snapshot as a whole or fails.  (FileRepository looks inside Save.)      *)
(* It outlives the process, and may hold what another deployment left.     *)
(***************************************************************************)
EXTENDS CircuitBreaker

CONSTANTS
  Modes,          \* how the breaker may be configured, see mode
  RetryAttempts,  \* config.RetryAttempts, WithPersistenceRetry: >= 0
  MaxAge,         \* maxAge of strategy and validator, in clock ticks
  Foreign,        \* snapshots the first process may find in the repository
  MaxSaves        \* bound: transitions of one process

ASSUME RetryAssumption == RetryAttempts \in Nat
ASSUME MaxAgeAssumption == MaxAge \in Nat
ASSUME MaxSavesAssumption == MaxSaves \in Nat
ASSUME ModesAssumption ==
  Modes \subseteq [enabled : BOOLEAN, restoreOnInit : BOOLEAN, async : BOOLEAN,
                   validator : {"none", "default", "strict"},
                   conservative : BOOLEAN, fails : BOOLEAN]

(***************************************************************************)
(* mode.enabled       config.Enabled                                       *)
(* mode.restoreOnInit config.RestoreOnInit                                 *)
(* mode.async         config.Async                                         *)
(* mode.validator     nil, DefaultValidator or StrictValidator(MaxAge)     *)
(* mode.conservative  ConservativeRestoreStrategy, not the default one     *)
(* mode.fails         the repository may return errors and miss deadlines  *)
(***************************************************************************)
VARIABLES
  mode,        \* the configuration, the same for every process
  up,          \* the process runs
  saves,       \* the saveSync calls in progress
  issued,      \* snapshots this process has handed to Save
  stored,      \* the repository's contents
  written,     \* history: the saves of this process that were stored
  errorCalls,  \* history: of each save, how often OnSaveError was called
  outcome      \* whether New restored a snapshot, and whom it told if not

persistVars == <<mode, up, saves, issued, stored, written, errorCalls, outcome>>
pvars == <<vars, persistVars>>

NoSnapshot == [state |-> NoState]

(***************************************************************************)
(* A snapshot holds times; the model has their ages.  That of lastFailure  *)
(* saturates at the longer of the snapshot's timeout and the breaker's,    *)
(* that of createdAt beyond MaxAge.                                        *)
(***************************************************************************)
ZeroFailure == -1    \* lastFailure.IsZero(): older than every age
Future == -1         \* createdAt is over a minute ahead of the clock
Unset == MaxAge + 2  \* createdAt.IsZero()

\* Besides the three states, a file may hold any other number.
Snapshots ==
  [version : 0 .. 2, state : States \cup {"Unknown"}, failureCount : Int,
   since : Nat \cup {ZeroFailure}, created : Future .. Unset, threshold : Int,
   timeout : Int]

ASSUME ForeignAssumption == Foreign \subseteq Snapshots

\* lastFailure as it goes from a breaker into a snapshot, and back.
SnapshotAge(age) == IF age = ZeroTime THEN ZeroFailure ELSE age
BreakerAge(since) ==
  IF since = ZeroFailure THEN ZeroTime
  ELSE IF since > ResetTimeout THEN ResetTimeout ELSE since

NoCaller == "none"

\* The user's callbacks that New may call; at most one of them is.
Callbacks == {"OnLoadError", "OnRestoreError", "nobody"}
NotRun == [restored |-> FALSE, told |-> "nobody"]

Saves ==
  [id : 1 .. MaxSaves, snapshot : Snapshots, attempt : 1 .. RetryAttempts + 1,
   phase : {"trying", "backoff", "failed"}, late : BOOLEAN, by : Procs \cup {NoCaller}]
-----------------------------------------------------------------------------
(* Snapshots *)

\* FromCircuitBreaker, at the end of a transitionTo.
FromCircuitBreaker(t) ==
  [version |-> 1, state |-> t.to, failureCount |-> t.failureCount,
   since |-> SnapshotAge(t.sinceFailure), created |-> 0,
   threshold |-> FailureThreshold, timeout |-> ResetTimeout]

\* The validators of DefaultValidator and StrictValidator, in their order.
VersionOK(s) == s.version = 1
StateOK(s) == s.state \in States
ConfigOK(s) == s.threshold > 0 /\ s.timeout > 0
\* (A mutant of DataOK: one of its rules is missing.)
DataOK_NoClosedRule(s) ==
  /\ s.failureCount >= 0
  /\ s.state = "Open" => s.since # ZeroFailure
  /\ s.created \notin {Unset, Future}

DataOK(s) ==
  /\ s.failureCount >= 0
  /\ s.state = "Open" => s.since # ZeroFailure
  /\ s.state = "Closed" => s.failureCount = 0
  /\ s.created \notin {Unset, Future}
AgeOK(s) == s.created <= MaxAge

Validate(s) ==
  mode.validator # "none" =>
    /\ VersionOK(s)
    /\ StateOK(s)
    /\ ConfigOK(s)
    /\ DataOK(s)
    /\ mode.validator = "strict" => AgeOK(s)

\* ShouldTransitionToHalfOpen, IsExpired.
SnapshotExpired(s) ==
  s.state = "Open" /\ (s.since = ZeroFailure \/ s.since >= s.timeout)
-----------------------------------------------------------------------------
(* Restore strategies: what they make of a snapshot. *)

\* New's default initialisation: ClosedState.OnEntry clears the counter.
Fresh(since) == [ok |-> FALSE, state |-> "Closed", count |-> 0, since |-> since]

DefaultRestore(s) ==
  IF s.threshold # FailureThreshold \/ s.timeout # ResetTimeout
  THEN Fresh(ZeroTime)
  ELSE IF s.state \notin States
  THEN Fresh(BreakerAge(s.since))  \* lastFailure has been assigned by then
  ELSE [ok |-> TRUE, state |-> s.state, count |-> s.failureCount,
        since |-> BreakerAge(s.since)]

\* Mutant: an expired open snapshot is restored as it is.
ConservativeRestore_KeepsOpen(s) ==
  IF s.created > MaxAge THEN Fresh(ZeroTime) ELSE DefaultRestore(s)

ConservativeRestore(s) ==
  IF s.created > MaxAge
  THEN Fresh(ZeroTime)
  ELSE IF SnapshotExpired(s)
  THEN [ok |-> TRUE, state |-> "HalfOpen", count |-> 0,
        since |-> BreakerAge(s.since)]
  ELSE DefaultRestore(s)

Restore(s) == IF mode.conservative THEN ConservativeRestore(s) ELSE DefaultRestore(s)
-----------------------------------------------------------------------------
(* The breaker's steps, with a Save in every transitionTo. *)

MutexFree == mode.async \/ saves = {}

\* Save: validate, then hand the snapshot to saveAsync or saveSync.
Save(by) ==
  LET snapshot == FromCircuitBreaker(transition') IN
  IF mode.enabled /\ transition' # NoTransition /\ Validate(snapshot)
  THEN /\ issued < MaxSaves
       /\ issued' = issued + 1
       /\ saves' = saves \cup
            {[id |-> issued + 1, snapshot |-> snapshot, attempt |-> 1,
              phase |-> "trying", late |-> FALSE,
              by |-> IF mode.async THEN NoCaller ELSE by]}
  ELSE UNCHANGED <<issued, saves>>

\* Steps of Execute that take the mutex.
LockingStep(p) ==
  /\ MutexFree
  /\ \/ Capture(p) \/ OpenAdmit(p) \/ OpenReject(p)
     \/ ClosedSuccess(p) \/ ClosedFailure(p) \/ ClosedTrip(p)
     \/ HalfOpenSuccess(p) \/ HalfOpenFailure(p)
  /\ Save(p)

\* Steps that do not; a caller inside a synchronous Save takes none.
FreeStep(p) ==
  /\ \A s \in saves : s.by # p
  /\ BeginAction(p) \/ ActionPanic(p)
  /\ UNCHANGED <<issued, saves>>

BreakerStep ==
  /\ up
  /\ \/ \E p \in Procs : LockingStep(p) \/ FreeStep(p)
     \/ MutexFree /\ (StateProbe \/ Reset) /\ Save(NoCaller)
  /\ UNCHANGED <<mode, up, stored, written, errorCalls, outcome>>
-----------------------------------------------------------------------------
(* saveSync, in the caller or in a goroutine of saveAsync. *)

SaveStep == transition' = NoTransition
            /\ UNCHANGED <<breakerVars, callVars, mode, up, issued, outcome>>

Finish(s) == saves' = saves \ {s}
Replace(s, t) == saves' = (saves \ {s}) \cup {t}

OnSaveError(s) == errorCalls' = [errorCalls EXCEPT ![s.id] = @ + 1]

\* Mutant: the goroutine of saveAsync drops the error.
ReturnError_Dropped(s) == Finish(s)

\* saveSync returns an error: to transitionTo, which drops it, or to the
\* goroutine of saveAsync, which has it still to report.  Its deferred cancel
\* ends the context.
ReturnError(s) ==
  IF mode.async THEN Replace(s, [s EXCEPT !.phase = "failed", !.late = TRUE])
                ELSE Finish(s)

\* repository.Save succeeds.
SaveOk(s) ==
  /\ s.phase = "trying" /\ ~s.late
  /\ stored' = s.snapshot
  /\ written' = written \cup {s.id}
  /\ Finish(s)
  /\ SaveStep
  /\ UNCHANGED errorCalls

\* Mutants: retry for ever, with and without counting.
SaveRetry_Unbounded(s) ==
  /\ s.phase = "trying" /\ mode.fails
  /\ Replace(s, [s EXCEPT !.attempt = @ + 1, !.phase = "backoff"])
  /\ SaveStep
  /\ UNCHANGED <<stored, written, errorCalls>>

SaveRetry_NotCounted(s) ==
  /\ s.phase = "trying" /\ mode.fails
  /\ s.attempt <= RetryAttempts
  /\ Replace(s, [s EXCEPT !.phase = "backoff"])
  /\ SaveStep
  /\ UNCHANGED <<stored, written, errorCalls>>

\* It fails and there are attempts left: back off.
SaveRetry(s) ==
  /\ s.phase = "trying" /\ mode.fails
  /\ s.attempt <= RetryAttempts
  /\ Replace(s, [s EXCEPT !.attempt = @ + 1, !.phase = "backoff"])
  /\ SaveStep
  /\ UNCHANGED <<stored, written, errorCalls>>

\* It fails for the last time: saveSync calls OnSaveError itself.
SaveExhausted(s) ==
  /\ s.phase = "trying" /\ mode.fails
  /\ s.attempt = RetryAttempts + 1
  /\ OnSaveError(s)
  /\ ReturnError(s)
  /\ SaveStep
  /\ UNCHANGED <<stored, written>>

\* The backoff timer fires first.
BackoffOver(s) ==
  /\ s.phase = "backoff"
  /\ Replace(s, [s EXCEPT !.phase = "trying"])
  /\ SaveStep
  /\ UNCHANGED <<stored, written, errorCalls>>

\* The context's deadline passes; both repositories refuse a context that is
\* done, and a backoff that notices it gives up.
DeadlinePasses(s) ==
  /\ mode.fails /\ ~s.late
  /\ Replace(s, [s EXCEPT !.late = TRUE])
  /\ SaveStep
  /\ UNCHANGED <<stored, written, errorCalls>>

BackoffAborted(s) ==
  /\ s.phase = "backoff" /\ s.late
  /\ ReturnError(s)
  /\ SaveStep
  /\ UNCHANGED <<stored, written, errorCalls>>

\* The goroutine of saveAsync calls OnSaveError with what saveSync returned.
AsyncReport(s) ==
  /\ s.phase = "failed"
  /\ OnSaveError(s)
  /\ Finish(s)
  /\ SaveStep
  /\ UNCHANGED <<stored, written>>

SaveProgress(s) ==
  \/ SaveOk(s) \/ SaveRetry(s) \/ SaveExhausted(s)
  \/ BackoffOver(s) \/ BackoffAborted(s) \/ AsyncReport(s)
-----------------------------------------------------------------------------
(* The process and the clock. *)

NoErrorCalls == [i \in 1 .. MaxSaves |-> 0]

\* The process dies; saves in progress die with it.
Crash ==
  /\ up
  /\ up' = FALSE
  /\ currentState' = "Closed" /\ failureCount' = 0 /\ sinceFailure' = ZeroTime
  /\ pc' = [p \in Procs |-> "idle"]
  /\ held' = [p \in Procs |-> NoState]
  /\ transition' = NoTransition
  /\ saves' = {} /\ issued' = 0 /\ written' = {} /\ errorCalls' = NoErrorCalls
  /\ outcome' = NotRun
  /\ UNCHANGED <<mode, stored>>

\* New: no breaker exists yet, so its fields are as Crash and Init set them.
StartWith(r, told) ==
  /\ ~up
  /\ up' = TRUE
  /\ currentState' = r.state
  /\ failureCount' = r.count
  /\ sinceFailure' = r.since
  /\ outcome' = [restored |-> r.ok, told |-> told]
  /\ transition' = NoTransition
  /\ UNCHANGED <<callVars, mode, saves, issued, stored, written, errorCalls>>

\* New calls Load, and Load asks the repository.
Restores == mode.restoreOnInit /\ mode.enabled

\* Restoration is off, or Load returns ErrSnapshotNotFound before it calls
\* anybody.
StartUnrestored ==
  /\ ~Restores
  /\ StartWith(Fresh(ZeroTime), "nobody")

\* Load fails: OnLoadError is called, also when there is no snapshot yet.
StartLoadError ==
  /\ Restores
  /\ stored = NoSnapshot \/ mode.fails
  /\ StartWith(Fresh(ZeroTime), "OnLoadError")

\* Load refuses the snapshot: no callback is called.
StartInvalid ==
  /\ Restores
  /\ stored # NoSnapshot
  /\ ~Validate(stored)
  /\ StartWith(Fresh(ZeroTime), "nobody")

\* The strategy decides; OnRestoreError is called if it refuses.
StartRestore ==
  /\ Restores
  /\ stored # NoSnapshot
  /\ Validate(stored)
  /\ StartWith(Restore(stored),
               IF Restore(stored).ok THEN "nobody" ELSE "OnRestoreError")

Older(age, bound) == IF age < bound THEN age + 1 ELSE age
OlderFailure(s) ==
  IF s.since = ZeroFailure THEN ZeroFailure
  ELSE Older(s.since, IF s.timeout > ResetTimeout THEN s.timeout ELSE ResetTimeout)
OlderSnapshot(s) ==
  IF s = NoSnapshot THEN s
  ELSE [s EXCEPT !.since = OlderFailure(s), !.created = Older(@, MaxAge + 1)]

\* Time passes, for the breaker, for every snapshot, and while the process is
\* down.
ClockTick ==
  /\ sinceFailure' = Older(sinceFailure, ResetTimeout)
  /\ stored' = OlderSnapshot(stored)
  /\ saves' = {[s EXCEPT !.snapshot = OlderSnapshot(@)] : s \in saves}
  /\ transition' = NoTransition
  /\ UNCHANGED <<currentState, failureCount, callVars, mode, up, issued,
                 written, errorCalls, outcome>>
-----------------------------------------------------------------------------
PInit ==
  /\ Init
  /\ mode \in Modes
  /\ up = FALSE
  /\ saves = {}
  /\ issued = 0
  /\ stored \in Foreign \cup {NoSnapshot}
  /\ written = {}
  /\ errorCalls = NoErrorCalls
  /\ outcome = NotRun

PNext ==
  \/ BreakerStep
  \/ \E s \in saves : SaveProgress(s) \/ DeadlinePasses(s)
  \/ Crash
  \/ StartUnrestored
  \/ StartLoadError
  \/ StartInvalid
  \/ StartRestore
  \/ ClockTick

PSpec == PInit /\ [][PNext]_pvars

(***************************************************************************)
(* Fairness: every save in progress is scheduled; its repository calls     *)
(* return and its timers fire.                                             *)
(***************************************************************************)
PFairSpec ==
  PSpec /\ \A i \in 1 .. MaxSaves :
             WF_pvars(\E s \in saves : s.id = i /\ SaveProgress(s))
-----------------------------------------------------------------------------
PTypeOK ==
  /\ TypeOK
  /\ mode \in Modes
  /\ up \in BOOLEAN
  /\ saves \subseteq Saves
  /\ issued \in 0 .. MaxSaves
  /\ stored \in Snapshots \cup {NoSnapshot}
  /\ written \subseteq 1 .. MaxSaves
  /\ errorCalls \in [1 .. MaxSaves -> Nat]
  /\ outcome \in [restored : BOOLEAN, told : Callbacks]

(***************************************************************************)
(* Whatever crashes and restarts have gone before and whatever the         *)
(* repository held, a restored breaker and every step it takes are as      *)
(* consistent as those of a fresh one - if somebody validates what is      *)
(* loaded.  With a nil Validator a snapshot is restored as it is.          *)
(***************************************************************************)
Trusting == Restores /\ mode.validator = "none"

RestartConsistent == ~Trusting => Consistent

(***************************************************************************)
(* A synchronous manager over a working repository makes a transition      *)
(* durable before anyone can see it: whenever the mutex is free, the       *)
(* repository holds the state and the lastFailure of the last transition.  *)
(***************************************************************************)
DurableBeforeVisible ==
  ~mode.async /\ ~mode.fails /\ up /\ MutexFree /\ issued > 0 =>
    /\ stored # NoSnapshot
    /\ stored.state = currentState
    /\ BreakerAge(stored.since) = sinceFailure

(***************************************************************************)
(* The conservative strategy never starts a breaker in an open state whose *)
(* timeout is over, and never from a snapshot past maxAge, whatever the    *)
(* repository holds.                                                       *)
(***************************************************************************)
ConservativeStart ==
  [][mode.conservative /\ ~up /\ up' =>
       /\ ~(currentState' = "Open" /\ Expired')
       /\ outcome'.restored => stored.created <= MaxAge]_pvars

(***************************************************************************)
(* The books of the saves balance.  Whichever of its retries, its deadline *)
(* and its backoff ends it, an asynchronous save that has not stored its   *)
(* snapshot and is no longer in progress has been reported to OnSaveError; *)
(* nothing that was stored is reported; nobody hears of a save more than   *)
(* twice.  (A synchronous save that its deadline aborts in a backoff is    *)
(* reported to nobody: persistence_manager.go:141.)                        *)
(***************************************************************************)
InProgress(i) == \E s \in saves : s.id = i

SaveFailuresReported ==
  \A i \in 1 .. issued :
    /\ mode.async => InProgress(i) \/ i \in written \/ errorCalls[i] > 0
    /\ i \in written => errorCalls[i] = 0
    /\ errorCalls[i] <= 2

(***************************************************************************)
(* Saving ends, with any repository and any deadline: a synchronous        *)
(* manager gives the breaker's mutex back.                                 *)
(***************************************************************************)
SavingEnds ==
  \A i \in 1 .. MaxSaves :
    InProgress(i) ~> ~InProgress(i)
=============================================================================
