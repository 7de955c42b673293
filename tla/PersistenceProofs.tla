-------------------------- MODULE PersistenceProofs --------------------------
(***************************************************************************)
(* What is proved of Persistence: that the breaker's safety survives any   *)
(* number of crashes and restarts, from whatever the repository holds.     *)
(***************************************************************************)
EXTENDS Persistence, CircuitBreakerProofs

(***************************************************************************)
(* Every step is one of the breaker, one of a save, the clock's, or the    *)
(* end or the beginning of a process.                                      *)
(***************************************************************************)
BreakerMoves ==
  \/ \E p \in Procs : LockingStep(p) \/ FreeStep(p)
  \/ MutexFree /\ (StateProbe \/ Reset) /\ Save(NoCaller)

LEMMA BreakerMovesAreSteps == BreakerMoves => Next
  BY DEF BreakerMoves, LockingStep, FreeStep, Next, Call

LEMMA SaveStepIsQuiet ==
  ASSUME NEW s \in saves, SaveProgress(s) \/ DeadlinePasses(s)
  PROVE  SaveStep
  BY DEF SaveProgress, SaveOk, SaveRetry, SaveExhausted, BackoffOver, BackoffAborted,
         AsyncReport, DeadlinePasses

(***************************************************************************)
(* Ages: what goes from a breaker into a snapshot comes back the same, and *)
(* the two clocks go on in step.                                           *)
(***************************************************************************)
LEMMA BreakerAgeTyped ==
  ASSUME NEW s \in Snapshots
  PROVE  /\ BreakerAge(s.since) \in Ages
         /\ BreakerAge(s.since) = ZeroTime => s.since = ZeroFailure
  BY TimeoutAssumption DEF BreakerAge, Snapshots, Ages, ZeroTime, ZeroFailure

LEMMA AgesInStep ==
  ASSUME NEW s \in Snapshots
  PROVE  BreakerAge(OlderFailure(s)) = Older(BreakerAge(s.since), ResetTimeout)
<1> USE TimeoutAssumption DEF Snapshots, ZeroFailure
<1>1. CASE s.since = ZeroFailure
  BY <1>1 DEF BreakerAge, OlderFailure, Older, ZeroTime
<1>2. CASE s.since # ZeroFailure
  <2> DEFINE bound == IF s.timeout > ResetTimeout THEN s.timeout ELSE ResetTimeout
  <2>1. bound \in Int /\ ResetTimeout <= bound
    OBVIOUS
  <2>2. OlderFailure(s) = IF s.since < bound THEN s.since + 1 ELSE s.since
    BY <1>2 DEF OlderFailure, Older
  <2> HIDE DEF bound
  <2>3. s.since \in Nat
    BY <1>2
  <2> QED
    BY <1>2, <2>1, <2>2, <2>3 DEF BreakerAge, Older
<1> QED
  BY <1>1, <1>2

(***************************************************************************)
(* A snapshot of a typed breaker is a snapshot, and passes its own         *)
(* validation.                                                             *)
(***************************************************************************)
LEMMA OwnSnapshot ==
  ASSUME NEW t \in Transitions
  PROVE  /\ FromCircuitBreaker(t) \in Snapshots
         /\ FromCircuitBreaker(t).created = 0
         /\ FromCircuitBreaker(t).state = t.to
         /\ BreakerAge(FromCircuitBreaker(t).since) = t.sinceFailure
<1>1. t.sinceFailure \in Ages /\ t.to \in States /\ t.failureCount \in Int
  BY DEF Transitions
<1>2. /\ SnapshotAge(t.sinceFailure) \in Nat \cup {ZeroFailure}
      /\ BreakerAge(SnapshotAge(t.sinceFailure)) = t.sinceFailure
  BY <1>1, TimeoutAssumption DEF SnapshotAge, BreakerAge, Ages, ZeroTime, ZeroFailure
<1>3. 0 \in Future .. Unset
  BY MaxAgeAssumption DEF Future, Unset
<1> QED
  BY <1>1, <1>2, <1>3, ThresholdAssumption, TimeoutAssumption
     DEF FromCircuitBreaker, Snapshots

LEMMA OlderSnapshotTyped ==
  ASSUME NEW s \in Snapshots
  PROVE  OlderSnapshot(s) \in Snapshots
<1>1. s # NoSnapshot
  BY DEF Snapshots, NoSnapshot, NoState, States
<1>2. OlderFailure(s) \in Nat \cup {ZeroFailure}
  BY TimeoutAssumption DEF OlderFailure, Older, Snapshots, ZeroFailure
<1>3. Older(s.created, MaxAge + 1) \in Future .. Unset
  BY MaxAgeAssumption DEF Older, Snapshots, Future, Unset
<1> QED
  BY <1>1, <1>2, <1>3 DEF OlderSnapshot, Snapshots

(***************************************************************************)
(* What New makes of a snapshot is typed, and of one that a validator has  *)
(* let pass as consistent as a breaker that has never stopped.             *)
(***************************************************************************)
LEMMA RestoredForms ==
  ASSUME NEW s \in Snapshots
  PROVE  \/ Restore(s) = Fresh(ZeroTime)
         \/ Restore(s) = Fresh(BreakerAge(s.since))
         \/ /\ Restore(s) = [ok |-> TRUE, state |-> s.state, count |-> s.failureCount,
                              since |-> BreakerAge(s.since)]
            /\ s.state \in States
         \/ Restore(s) = [ok |-> TRUE, state |-> "HalfOpen", count |-> 0,
                          since |-> BreakerAge(s.since)]
  BY DEF Restore, DefaultRestore, ConservativeRestore

LEMMA RestoredIsTyped ==
  ASSUME NEW s \in Snapshots
  PROVE  /\ Restore(s).state \in States
         /\ Restore(s).count \in Int
         /\ Restore(s).since \in Ages
         /\ Restore(s).ok \in BOOLEAN
<1>1. ZeroTime \in Ages /\ BreakerAge(s.since) \in Ages /\ s.failureCount \in Int
  BY TimeoutAssumption, BreakerAgeTyped DEF Ages, ZeroTime, Snapshots
<1>2. ASSUME NEW a \in Ages, Restore(s) = Fresh(a)
      PROVE  /\ Restore(s).state \in States /\ Restore(s).count \in Int
             /\ Restore(s).since \in Ages /\ Restore(s).ok \in BOOLEAN
  BY <1>2 DEF Fresh, States
<1>3. ASSUME NEW state \in States, NEW count \in Int,
             Restore(s) = [ok |-> TRUE, state |-> state, count |-> count,
                           since |-> BreakerAge(s.since)]
      PROVE  /\ Restore(s).state \in States /\ Restore(s).count \in Int
             /\ Restore(s).since \in Ages /\ Restore(s).ok \in BOOLEAN
  BY <1>1, <1>3
<1>4. "HalfOpen" \in States /\ 0 \in Int
  BY DEF States
<1> QED
  BY <1>1, <1>2, <1>3, <1>4, RestoredForms

LEMMA RestoredIsConsistent ==
  ASSUME NEW s \in Snapshots, Validate(s), mode.validator # "none"
  PROVE  /\ Restore(s).count >= 0
         /\ Restore(s).state = "Closed" => Restore(s).count = 0
         /\ Restore(s).state = "Open" => Restore(s).since # ZeroTime
<1>1. /\ s.failureCount >= 0
      /\ s.state = "Open" => s.since # ZeroFailure
      /\ s.state = "Closed" => s.failureCount = 0
  BY DEF Validate, DataOK
<1> QED
  BY <1>1, RestoredForms, BreakerAgeTyped DEF Fresh
-----------------------------------------------------------------------------
(* Types *)

LEMMA PTypingInit == PInit => PTypeOK
<1> SUFFICES ASSUME PInit PROVE PTypeOK
  OBVIOUS
<1>1. written = {} /\ errorCalls \in [1 .. MaxSaves -> Nat]
  BY DEF PInit, NoErrorCalls
<1>2. TypeOK
  BY TypingInit DEF PInit
<1>3. mode \in Modes /\ up = FALSE /\ saves = {} /\ issued = 0
  BY DEF PInit
<1>4. stored \in Snapshots \cup {NoSnapshot}
  BY ForeignAssumption DEF PInit
<1>5. outcome \in [restored : BOOLEAN, told : Callbacks]
  BY DEF PInit, NotRun, Callbacks
<1>6. up \in BOOLEAN /\ saves \subseteq Saves
  BY <1>3
<1>7. issued \in 0 .. MaxSaves
  BY <1>3, MaxSavesAssumption
<1> QED
  BY <1>1, <1>2, <1>3, <1>4, <1>5, <1>6, <1>7 DEF PTypeOK

LEMMA SaveTyped ==
  ASSUME PTypeOK, TypeOK', NEW by \in Procs \cup {NoCaller}, Save(by)
  PROVE  saves' \subseteq Saves /\ issued' \in 0 .. MaxSaves
<1> DEFINE snapshot == FromCircuitBreaker(transition')
<1>1. CASE mode.enabled /\ transition' # NoTransition /\ Validate(snapshot)
  <2>1. snapshot \in Snapshots
    BY <1>1, OwnSnapshot DEF TypeOK
  <2>2. issued' = issued + 1 /\ issued' \in 1 .. MaxSaves
    BY <1>1, MaxSavesAssumption DEF Save, PTypeOK
  <2>3. 1 \in 1 .. RetryAttempts + 1
    BY RetryAssumption
  <2> DEFINE new == [id |-> issued + 1, snapshot |-> snapshot, attempt |-> 1,
                     phase |-> "trying", late |-> FALSE,
                     by |-> IF mode.async THEN NoCaller ELSE by]
  <2>4. new \in Saves
    BY <2>1, <2>2, <2>3 DEF Saves
  <2>5. saves' = saves \cup {new}
    BY <1>1 DEF Save
  <2> HIDE DEF new
  <2> QED
    BY <2>2, <2>4, <2>5, MaxSavesAssumption DEF PTypeOK
<1>2. CASE ~(mode.enabled /\ transition' # NoTransition /\ Validate(snapshot))
  BY <1>2 DEF Save, PTypeOK
<1> QED
  BY <1>1, <1>2

LEMMA PTypingStep == PTypeOK /\ [PNext]_pvars => PTypeOK'
<1> SUFFICES ASSUME PTypeOK, [PNext]_pvars
             PROVE  PTypeOK'
  OBVIOUS
<1> USE DEF pvars, persistVars
<1>1. CASE BreakerStep
  <2>1. TypeOK'
    BY <1>1, BreakerMovesAreSteps, TypingStep DEF BreakerStep, BreakerMoves, PTypeOK
  <2>2. CASE \E by \in Procs \cup {NoCaller} : Save(by)
    BY <1>1, <2>1, <2>2, SaveTyped DEF BreakerStep, PTypeOK
  <2>3. CASE UNCHANGED <<issued, saves>>
    BY <1>1, <2>1, <2>3 DEF BreakerStep, PTypeOK
  <2> QED
    BY <1>1, <2>2, <2>3 DEF BreakerStep, LockingStep, FreeStep
<1>2. ASSUME NEW s \in saves, SaveProgress(s) \/ DeadlinePasses(s)
      PROVE  PTypeOK'
  <2>1. SaveStep
    BY <1>2, SaveStepIsQuiet
  <2>2. TypeOK'
    BY <2>1 DEF SaveStep, PTypeOK, TypeOK, breakerVars, callVars
  <2>3. s \in Saves
    BY DEF PTypeOK
  <2>4. ASSUME NEW t \in Saves, Replace(s, t), UNCHANGED <<stored, written, errorCalls>>
        PROVE  PTypeOK'
    BY <2>1, <2>2, <2>4 DEF Replace, SaveStep, PTypeOK
  <2>5. ReturnError(s) => saves' \subseteq Saves
    <3>1. [s EXCEPT !.phase = "failed", !.late = TRUE] \in Saves
      BY <2>3 DEF Saves
    <3> QED
      BY <3>1 DEF ReturnError, Replace, Finish, PTypeOK
  <2>6. CASE SaveOk(s)
    BY <2>1, <2>2, <2>3, <2>6 DEF SaveOk, Finish, SaveStep, PTypeOK, Saves
  <2>7. CASE SaveRetry(s)
    <3>1. s.attempt + 1 \in 1 .. RetryAttempts + 1
      BY <2>3, <2>7, RetryAssumption DEF SaveRetry, Saves
    <3>2. [s EXCEPT !.attempt = @ + 1, !.phase = "backoff"] \in Saves
      BY <2>3, <3>1 DEF Saves
    <3> QED
      BY <2>4, <2>7, <3>2 DEF SaveRetry
  <2>8. CASE SaveExhausted(s) \/ BackoffAborted(s) \/ AsyncReport(s)
    <3>1. UNCHANGED <<stored, written>> /\ saves' \subseteq Saves
      BY <2>5, <2>8 DEF SaveExhausted, BackoffAborted, AsyncReport, Finish, PTypeOK
    <3>2. OnSaveError(s) => errorCalls' \in [1 .. MaxSaves -> Nat]
      BY <2>3 DEF OnSaveError, PTypeOK, Saves
    <3>3. errorCalls' \in [1 .. MaxSaves -> Nat]
      BY <2>8, <3>2 DEF SaveExhausted, BackoffAborted, AsyncReport, PTypeOK
    <3> QED
      BY <2>1, <2>2, <3>1, <3>3 DEF SaveStep, PTypeOK
  <2>9. CASE BackoffOver(s)
    <3>1. [s EXCEPT !.phase = "trying"] \in Saves
      BY <2>3 DEF Saves
    <3> QED
      BY <2>4, <2>9, <3>1 DEF BackoffOver
  <2>10. CASE DeadlinePasses(s)
    <3>1. [s EXCEPT !.late = TRUE] \in Saves
      BY <2>3 DEF Saves
    <3> QED
      BY <2>4, <2>10, <3>1 DEF DeadlinePasses
  <2> QED
    BY <1>2, <2>6, <2>7, <2>8, <2>9, <2>10 DEF SaveProgress
<1>3. CASE Crash
  <2>1. TypeOK'
    BY <1>3, TimeoutAssumption
       DEF Crash, TypeOK, States, Ages, ZeroTime, NoState
  <2>2. written' = {} /\ errorCalls' \in [1 .. MaxSaves -> Nat]
    BY <1>3 DEF Crash, NoErrorCalls
  <2>3. mode' = mode /\ up' = FALSE /\ saves' = {} /\ issued' = 0 /\ stored' = stored
    BY <1>3 DEF Crash
  <2>4. outcome' \in [restored : BOOLEAN, told : Callbacks]
    BY <1>3 DEF Crash, NotRun, Callbacks
  <2>5. up' \in BOOLEAN /\ saves' \subseteq Saves
    BY <2>3
  <2>6. issued' \in 0 .. MaxSaves
    BY <2>3, MaxSavesAssumption
  <2>7. mode' \in Modes /\ stored' \in Snapshots \cup {NoSnapshot}
    BY <2>3 DEF PTypeOK
  <2> QED
    BY <2>1, <2>2, <2>4, <2>5, <2>6, <2>7 DEF PTypeOK
<1>4. ASSUME NEW r, NEW told \in Callbacks, StartWith(r, told), r.ok \in BOOLEAN,
             r.state \in States, r.count \in Int, r.since \in Ages
      PROVE  PTypeOK'
  <2>1. TypeOK'
    BY <1>4 DEF StartWith, PTypeOK, TypeOK, callVars
  <2> QED
    BY <1>4, <2>1 DEF StartWith, PTypeOK
<1>5. CASE StartUnrestored \/ StartLoadError \/ StartInvalid
  <2>1. StartWith(Fresh(ZeroTime), "OnLoadError") \/ StartWith(Fresh(ZeroTime), "nobody")
    BY <1>5 DEF StartUnrestored, StartLoadError, StartInvalid
  <2>2. /\ Fresh(ZeroTime).ok \in BOOLEAN /\ Fresh(ZeroTime).state \in States
        /\ Fresh(ZeroTime).count \in Int /\ Fresh(ZeroTime).since \in Ages
    BY TimeoutAssumption DEF Fresh, States, Ages, ZeroTime
  <2> QED
    BY <1>4, <2>1, <2>2 DEF Callbacks
<1>6. CASE StartRestore
  <2>1. stored \in Snapshots
    BY <1>6 DEF StartRestore, PTypeOK
  <2>2. PICK told \in Callbacks : StartWith(Restore(stored), told)
    BY <1>6 DEF StartRestore, Callbacks
  <2> QED
    BY <1>4, <2>1, <2>2, RestoredIsTyped
<1>7. CASE ClockTick
  <2>1. Older(sinceFailure, ResetTimeout) \in Ages
    BY TimeoutAssumption DEF Older, PTypeOK, TypeOK, Ages, ZeroTime
  <2>2. TypeOK'
    BY <1>7, <2>1 DEF ClockTick, PTypeOK, TypeOK, callVars
  <2>3. stored' \in Snapshots \cup {NoSnapshot}
    BY <1>7, OlderSnapshotTyped DEF ClockTick, PTypeOK, OlderSnapshot
  <2>4. saves' \subseteq Saves
    <3>1. \A s \in saves : s \in Saves /\ OlderSnapshot(s.snapshot) \in Snapshots
      BY OlderSnapshotTyped DEF PTypeOK, Saves
    <3>2. \A s \in saves : [s EXCEPT !.snapshot = OlderSnapshot(@)] \in Saves
      BY <3>1 DEF Saves
    <3> QED
      BY <1>7, <3>2 DEF ClockTick
  <2> QED
    BY <1>7, <2>2, <2>3, <2>4 DEF ClockTick, PTypeOK
<1>8. CASE UNCHANGED pvars
  BY <1>8 DEF PTypeOK, TypeOK, vars
<1> QED
  BY <1>1, <1>2, <1>3, <1>5, <1>6, <1>7, <1>8 DEF PNext

(***************************************************************************)
(* Type correctness of the breaker, its manager and the repository         *)
(* (persistence_manager.go), for any repository contents at the start.     *)
(***************************************************************************)
THEOREM PTyping == PSpec => []PTypeOK
  BY PTypingInit, PTypingStep, PTL DEF PSpec
-----------------------------------------------------------------------------
(* The breaker's own invariants *)

LEMMA ModeIsConstant == [PNext]_pvars => mode' = mode
  BY DEF PNext, pvars, persistVars, BreakerStep, SaveProgress, SaveOk, SaveRetry,
         SaveExhausted, BackoffOver, BackoffAborted, AsyncReport, DeadlinePasses,
         SaveStep, Crash, StartUnrestored, StartLoadError, StartInvalid, StartRestore,
         StartWith, ClockTick

\* What is restored without a validator is as good as the file was.
Guarded == ~Trusting => StateInv

LEMMA StateInvPersists == PTypeOK /\ Guarded /\ [PNext]_pvars => Guarded'
<1>t. [PNext]_pvars => Trusting' = Trusting
  BY ModeIsConstant DEF Trusting, Restores
<1> SUFFICES ASSUME PTypeOK, StateInv, [PNext]_pvars, ~Trusting
             PROVE  StateInv'
  BY <1>t DEF Guarded
<1> USE TimeoutAssumption, ThresholdAssumption
<1>1. CASE BreakerStep
  BY <1>1, BreakerMovesAreSteps, StateInvStep DEF BreakerStep, BreakerMoves, PTypeOK
<1>2. ASSUME currentState' \in States, failureCount' \in Int, sinceFailure' \in Ages,
             failureCount' >= 0,
             currentState' = "Closed" => failureCount' = 0,
             currentState' = "Open" => sinceFailure' # ZeroTime,
             transition' = NoTransition
      PROVE  StateInv'
  BY <1>2 DEF StateInv, NeverNegative, ClosedBelowThreshold, OpenIsStamped, SnapshotsValid,
              NoTransition, NoState
<1>3. ASSUME NEW s \in saves, SaveProgress(s) \/ DeadlinePasses(s)
      PROVE  StateInv'
  BY <1>3, SaveStepIsQuiet
     DEF SaveStep, breakerVars, StateInv, NeverNegative, ClosedBelowThreshold, OpenIsStamped,
         SnapshotsValid, NoTransition, NoState
<1>4. CASE Crash
  <2>1. /\ currentState' = "Closed" /\ failureCount' = 0 /\ sinceFailure' = ZeroTime
        /\ transition' = NoTransition
    BY <1>4 DEF Crash
  <2> QED
    BY <1>2, <2>1 DEF States, Ages, ZeroTime
<1>5. CASE StartUnrestored \/ StartLoadError \/ StartInvalid
  BY <1>2, <1>5
     DEF StartUnrestored, StartLoadError, StartInvalid, StartWith, Fresh, States, Ages, ZeroTime
<1>6. CASE StartRestore
  <2>1. stored \in Snapshots /\ Validate(stored) /\ mode.validator # "none"
    BY <1>6 DEF StartRestore, PTypeOK, Trusting
  <2>2. /\ currentState' = Restore(stored).state /\ failureCount' = Restore(stored).count
        /\ sinceFailure' = Restore(stored).since /\ transition' = NoTransition
    BY <1>6 DEF StartRestore, StartWith
  <2>3. /\ Restore(stored).state \in States /\ Restore(stored).count \in Int
        /\ Restore(stored).since \in Ages
    BY <2>1, RestoredIsTyped
  <2>4. /\ Restore(stored).count >= 0
        /\ Restore(stored).state = "Closed" => Restore(stored).count = 0
        /\ Restore(stored).state = "Open" => Restore(stored).since # ZeroTime
    BY <2>1, RestoredIsConsistent
  <2> QED
    BY <1>2, <2>2, <2>3, <2>4
<1>7. CASE ClockTick
  <2>1. /\ UNCHANGED <<currentState, failureCount>> /\ transition' = NoTransition
        /\ sinceFailure' = Older(sinceFailure, ResetTimeout)
    BY <1>7 DEF ClockTick
  <2>2. /\ currentState \in States /\ failureCount \in Int /\ sinceFailure \in Ages
    BY DEF PTypeOK, TypeOK
  <2>3. /\ sinceFailure' \in Ages
        /\ sinceFailure # ZeroTime => sinceFailure' # ZeroTime
    BY <2>1, <2>2 DEF Older, Ages, ZeroTime
  <2>4. /\ failureCount >= 0
        /\ currentState = "Closed" => failureCount < FailureThreshold
        /\ currentState = "Open" => sinceFailure # ZeroTime
    BY DEF StateInv, NeverNegative, ClosedBelowThreshold, OpenIsStamped
  <2> QED
    BY <2>1, <2>2, <2>3, <2>4
       DEF StateInv, NeverNegative, ClosedBelowThreshold, OpenIsStamped, SnapshotsValid,
           NoTransition, NoState
<1>8. CASE UNCHANGED pvars
  BY <1>8
     DEF pvars, vars, StateInv, NeverNegative, ClosedBelowThreshold, OpenIsStamped, SnapshotsValid
<1> QED
  BY <1>1, <1>3, <1>4, <1>5, <1>6, <1>7, <1>8 DEF PNext

LEMMA PStateInv == PSpec => []Guarded
<1>1. PInit => Guarded
  BY StateInvInit DEF PInit, Guarded
<1> QED
  BY <1>1, StateInvPersists, PTyping, PTL DEF PSpec

(***************************************************************************)
(* Where snapshots are validated, no crash, no restart and no snapshot in  *)
(* the repository - an old one, another deployment's, an inconsistent one  *)
(* - brings up a breaker that is closed at its threshold or open without a *)
(* timestamp (options.go:357).                                             *)
(***************************************************************************)
THEOREM RestartSafety == PSpec => []RestartConsistent
<1>1. Guarded => RestartConsistent
  BY DEF Guarded, RestartConsistent, StateInv, Consistent
<1> QED
  BY <1>1, PStateInv, PTL
-----------------------------------------------------------------------------
(* Durability of synchronous saves *)

(***************************************************************************)
(* A step of the breaker changes the state and lastFailure only by a       *)
(* transitionTo, whose snapshot has the new ones.                          *)
(***************************************************************************)
LEMMA OnlyTransitionsChange ==
  ASSUME TypeOK, BreakerMoves
  PROVE  \/ transition' = NoTransition /\ UNCHANGED <<currentState, sinceFailure>>
         \/ /\ transition' \in Transitions
            /\ transition'.to = currentState'
            /\ transition'.sinceFailure = sinceFailure'
<1>1. ASSUME NEW new \in States, NEW count \in Int, NEW since \in Ages,
             TransitionTo(new, count, since)
      PROVE  /\ transition' \in Transitions
             /\ transition'.to = currentState'
             /\ transition'.sinceFailure = sinceFailure'
  BY <1>1, TransitionToFacts
<1>2. currentState \in States /\ failureCount \in Int /\ sinceFailure \in Ages
  BY DEF TypeOK
<1>3. ZeroTime \in Ages
  BY TimeoutAssumption DEF Ages, ZeroTime
<1>4. ASSUME NEW p \in Procs, LockingStep(p)
      PROVE  \/ transition' = NoTransition /\ UNCHANGED <<currentState, sinceFailure>>
             \/ \E new \in States, count \in Int, since \in Ages :
                  TransitionTo(new, count, since)
  BY <1>2, <1>4
     DEF LockingStep, Capture, OpenAdmit, OpenReject, ClosedSuccess, ClosedFailure,
         ClosedTrip, HalfOpenSuccess, HalfOpenFailure, breakerVars, States
<1>5. ASSUME NEW p \in Procs, FreeStep(p)
      PROVE  transition' = NoTransition /\ UNCHANGED <<currentState, sinceFailure>>
  BY <1>5 DEF FreeStep, BeginAction, ActionPanic, breakerVars
<1>6. ASSUME StateProbe \/ Reset
      PROVE  \E new \in States, count \in Int, since \in Ages :
               TransitionTo(new, count, since)
  BY <1>2, <1>3, <1>6 DEF StateProbe, Reset, States
<1> QED
  BY <1>1, <1>4, <1>5, <1>6 DEF BreakerMoves

LEMMA OwnSnapshotValid ==
  ASSUME NEW t \in Transitions,
         t.failureCount >= 0,
         t.to = "Open" => t.sinceFailure # ZeroTime,
         t.to = "Closed" => t.failureCount = 0
  PROVE  Validate(FromCircuitBreaker(t))
<1>1. t.to = "Open" => SnapshotAge(t.sinceFailure) # ZeroFailure
  BY DEF SnapshotAge, ZeroFailure, Transitions, Ages
<1> QED
  BY <1>1, ThresholdAssumption, TimeoutAssumption, MaxAgeAssumption
     DEF FromCircuitBreaker, Validate, VersionOK, StateOK, ConfigOK, DataOK, AgeOK,
         Transitions, Future, Unset

Holds(s) ==
  s # NoSnapshot /\ s.state = currentState /\ BreakerAge(s.since) = sinceFailure

(***************************************************************************)
(* With a synchronous manager there is at most one save; while there is    *)
(* one, it carries what the breaker has become, and afterwards the         *)
(* repository does.                                                        *)
(***************************************************************************)
DurableInv ==
  /\ ~up \/ ~mode.enabled => issued = 0 /\ saves = {}
  /\ ~mode.fails => \A s \in saves : s.phase = "trying" /\ ~s.late
  /\ ~mode.async => \A s, t \in saves : s = t
  /\ ~mode.async /\ ~mode.fails /\ issued > 0 =>
       /\ \A s \in saves : Holds(s.snapshot)
       /\ saves = {} => Holds(stored)

LEMMA DurableInit == PInit => DurableInv
  BY DEF PInit, DurableInv

LEMMA DurableStep ==
  PTypeOK /\ PTypeOK' /\ Guarded' /\ DurableInv /\ [PNext]_pvars => DurableInv'
<1> SUFFICES ASSUME PTypeOK, PTypeOK', Guarded', DurableInv, [PNext]_pvars
             PROVE  DurableInv'
  OBVIOUS
<1>m. mode' = mode
  BY ModeIsConstant
<1>1. CASE BreakerStep
  <2>1. BreakerMoves /\ up /\ up' = up /\ stored' = stored
    BY <1>1 DEF BreakerStep, BreakerMoves
  <2>2. CASE UNCHANGED <<issued, saves>> /\ UNCHANGED <<currentState, sinceFailure>>
    BY <1>m, <2>1, <2>2 DEF DurableInv, Holds
  <2>3. ASSUME NEW by \in Procs \cup {NoCaller}, MutexFree, Save(by),
               transition' # NoTransition, mode.enabled
        PROVE  DurableInv'
    <3> DEFINE snapshot == FromCircuitBreaker(transition')
               new == [id |-> issued + 1, snapshot |-> snapshot, attempt |-> 1,
                       phase |-> "trying", late |-> FALSE,
                       by |-> IF mode.async THEN NoCaller ELSE by]
    <3>1. /\ transition' \in Transitions
          /\ transition'.to = currentState' /\ transition'.sinceFailure = sinceFailure'
      BY <2>1, <2>3, OnlyTransitionsChange DEF PTypeOK
    <3>2. Validate(snapshot)
      <4>1. CASE mode.validator = "none"
        BY <4>1 DEF Validate
      <4>2. CASE mode.validator # "none"
        BY <1>m, <3>1, <4>2, OwnSnapshotValid
           DEF Guarded, Trusting, StateInv, SnapshotsValid
      <4> QED
        BY <4>1, <4>2
    <3>3. saves' = saves \cup {new}
      BY <2>3, <3>2 DEF Save
    <3>4. /\ snapshot \in Snapshots
          /\ snapshot.state = currentState' /\ BreakerAge(snapshot.since) = sinceFailure'
      BY <3>1, OwnSnapshot
    <3>5. snapshot # NoSnapshot
      BY <3>4 DEF Snapshots, NoSnapshot
    <3>6. new.snapshot = snapshot /\ new.phase = "trying" /\ new.late = FALSE
      OBVIOUS
    <3> HIDE DEF new, snapshot
    <3>7. ~mode.async => saves' = {new}
      BY <2>3, <3>3 DEF MutexFree
    <3>8. ~mode.fails => \A s \in saves' : s.phase = "trying" /\ ~s.late
      BY <3>3, <3>6 DEF DurableInv
    <3> QED
      BY <1>m, <2>1, <2>3, <3>4, <3>5, <3>6, <3>7, <3>8 DEF DurableInv, Holds
  <2>4. ASSUME transition' = NoTransition
        PROVE  DurableInv'
    <3>1. UNCHANGED <<currentState, sinceFailure>>
      <4>1. NoTransition \notin Transitions
        BY DEF NoTransition, Transitions, States, NoState
      <4> QED
        BY <2>1, <2>4, <4>1, OnlyTransitionsChange DEF PTypeOK
    <3>2. UNCHANGED <<issued, saves>>
      BY <1>1, <2>4 DEF BreakerStep, LockingStep, FreeStep, Save
    <3> QED
      BY <2>2, <3>1, <3>2
  <2>5. \/ transition' = NoTransition
        \/ \E by \in Procs \cup {NoCaller} : MutexFree /\ Save(by)
    BY <1>1 DEF BreakerStep, LockingStep, FreeStep, BeginAction, ActionPanic
  <2>6. CASE ~mode.enabled
    <3>1. UNCHANGED <<issued, saves>>
      BY <1>1, <2>6 DEF BreakerStep, LockingStep, FreeStep, Save
    <3> QED
      BY <1>m, <2>1, <2>6, <3>1 DEF DurableInv
  <2> QED
    BY <2>3, <2>4, <2>5, <2>6
<1>2. ASSUME NEW s \in saves, SaveProgress(s) \/ DeadlinePasses(s)
      PROVE  DurableInv'
  <2>1. UNCHANGED <<currentState, sinceFailure, up, issued>>
    BY <1>2, SaveStepIsQuiet DEF SaveStep, breakerVars
  <2>2. CASE mode.fails
    <3>1. CASE \E t : Replace(s, t)
      BY <1>2, <1>m, <2>1, <2>2, <3>1 DEF Replace, DurableInv
    <3>2. CASE Finish(s)
      BY <1>2, <1>m, <2>1, <2>2, <3>2 DEF Finish, DurableInv
    <3> QED
      BY <1>2, <3>1, <3>2
         DEF SaveProgress, SaveOk, SaveRetry, SaveExhausted, BackoffOver,
             BackoffAborted, AsyncReport, DeadlinePasses, ReturnError
  <2>3. CASE ~mode.fails
    <3>1. s.phase = "trying" /\ ~s.late
      BY <2>3 DEF DurableInv
    <3>2. SaveOk(s)
      BY <1>2, <2>3, <3>1
         DEF SaveProgress, SaveRetry, SaveExhausted, BackoffOver, BackoffAborted,
             AsyncReport, DeadlinePasses
    <3>3. stored' = s.snapshot /\ saves' = saves \ {s}
      BY <3>2 DEF SaveOk, Finish
    <3> QED
      BY <1>m, <2>1, <2>3, <3>3 DEF DurableInv, Holds
  <2> QED
    BY <2>2, <2>3
<1>3. CASE Crash
  <2>1. saves' = {} /\ issued' = 0
    BY <1>3 DEF Crash
  <2> QED
    BY <2>1 DEF DurableInv
<1>4. CASE StartUnrestored \/ StartLoadError \/ StartInvalid \/ StartRestore
  <2>1. ~up /\ UNCHANGED <<issued, saves>>
    BY <1>4 DEF StartUnrestored, StartLoadError, StartInvalid, StartRestore, StartWith
  <2> QED
    BY <2>1 DEF DurableInv
<1>5. CASE ClockTick
  <2>1. /\ sinceFailure' = Older(sinceFailure, ResetTimeout) /\ stored' = OlderSnapshot(stored)
        /\ saves' = {[s EXCEPT !.snapshot = OlderSnapshot(@)] : s \in saves}
        /\ UNCHANGED <<currentState, up, issued>>
    BY <1>5 DEF ClockTick
  <2>2. ASSUME NEW s \in Snapshots, s.state = currentState,
               BreakerAge(s.since) = sinceFailure
        PROVE  /\ OlderSnapshot(s) # NoSnapshot
               /\ OlderSnapshot(s).state = currentState'
               /\ BreakerAge(OlderSnapshot(s).since) = sinceFailure'
    <3>1. s # NoSnapshot /\ OlderSnapshot(s) \in Snapshots
      BY OlderSnapshotTyped DEF Snapshots, NoSnapshot, States, NoState
    <3>2. OlderSnapshot(s).state = s.state /\ OlderSnapshot(s).since = OlderFailure(s)
      BY <3>1 DEF OlderSnapshot, Snapshots
    <3>3. OlderSnapshot(s) # NoSnapshot
      BY <3>1 DEF Snapshots, NoSnapshot, States, NoState
    <3> QED
      BY <2>1, <2>2, <3>2, <3>3, AgesInStep
  <2>3. ASSUME NEW s \in saves
        PROVE  /\ s.snapshot \in Snapshots
               /\ [s EXCEPT !.snapshot = OlderSnapshot(@)].snapshot
                    = OlderSnapshot(s.snapshot)
               /\ [s EXCEPT !.snapshot = OlderSnapshot(@)].phase = s.phase
               /\ [s EXCEPT !.snapshot = OlderSnapshot(@)].late = s.late
    BY DEF PTypeOK, Saves
  <2>4. ASSUME ~mode.async, ~mode.fails, issued > 0
        PROVE  /\ \A s \in saves' : Holds(s.snapshot)'
               /\ saves' = {} => Holds(stored)'
    <3>1. \A s \in saves : Holds(s.snapshot)
      BY <2>4 DEF DurableInv
    <3>2. ASSUME NEW s \in saves' PROVE Holds(s.snapshot)'
      <4>1. PICK r \in saves : s = [r EXCEPT !.snapshot = OlderSnapshot(@)]
        BY <2>1
      <4>2. s.snapshot = OlderSnapshot(r.snapshot) /\ r.snapshot \in Snapshots
        BY <2>3, <4>1
      <4>3. r.snapshot.state = currentState
            /\ BreakerAge(r.snapshot.since) = sinceFailure
        BY <3>1 DEF Holds
      <4> QED
        BY <2>2, <4>2, <4>3 DEF Holds
    <3>3. ASSUME saves' = {} PROVE Holds(stored)'
      <4>1. saves = {}
        BY <2>1, <3>3
      <4>2. Holds(stored) /\ stored \in Snapshots
        BY <2>4, <4>1 DEF DurableInv, Holds, PTypeOK
      <4> QED
        BY <2>1, <2>2, <4>2 DEF Holds
    <3> QED
      BY <3>2, <3>3
  <2>5. ~mode.fails => \A s \in saves' : s.phase = "trying" /\ ~s.late
    BY <2>1, <2>3 DEF DurableInv
  <2>6. /\ ~up' => issued' = 0 /\ saves' = {}
        /\ ~mode.enabled => issued' = 0 /\ saves' = {}
        /\ ~mode.async => \A s, t \in saves' : s = t
    BY <2>1 DEF DurableInv
  <2> QED
    BY <1>m, <2>1, <2>4, <2>5, <2>6 DEF DurableInv
<1>6. CASE UNCHANGED pvars
  BY <1>6 DEF pvars, vars, persistVars, DurableInv, Holds
<1> QED
  BY <1>1, <1>2, <1>3, <1>4, <1>5, <1>6 DEF PNext

(***************************************************************************)
(* A transition made with a synchronous manager over a working repository  *)
(* is in the repository before anybody can see it (breaker.go:236), for    *)
(* every number of callers, saves and restarts.                            *)
(***************************************************************************)
THEOREM Durability == PSpec => []DurableBeforeVisible
<1>1. PTypeOK /\ DurableInv => DurableBeforeVisible
  BY DEF PTypeOK, DurableInv, DurableBeforeVisible, MutexFree, Holds
<1>2. PSpec => []DurableInv
  BY DurableInit, DurableStep, PTyping, PStateInv, PTL DEF PSpec
<1> QED
  BY <1>1, <1>2, PTyping, PTL
-----------------------------------------------------------------------------
(* The books of the saves *)

(***************************************************************************)
(* A save in progress has a number of its own, has stored nothing, and has *)
(* been reported by saveSync at most once, when it failed; numbers not yet *)
(* given out have no history.  These make the ledger inductive: when a     *)
(* save ends, only its own number changes sides.                           *)
(***************************************************************************)
Distinct == \A s, t \in saves : s.id = t.id => s = t
OpenEntries ==
  \A s \in saves :
    /\ s.id <= issued
    /\ s.id \notin written
    /\ errorCalls[s.id] <= IF s.phase = "failed" THEN 1 ELSE 0
NoHistory == \A i \in 1 .. MaxSaves : i > issued => errorCalls[i] = 0
Written == written \subseteq 1 .. issued

LedgerInv == Distinct /\ OpenEntries /\ NoHistory /\ Written /\ SaveFailuresReported

LEMMA LedgerEmpty ==
  ASSUME saves = {}, issued = 0, written = {}, errorCalls = NoErrorCalls
  PROVE  LedgerInv
  BY MaxSavesAssumption
     DEF LedgerInv, Distinct, OpenEntries, NoHistory, Written, SaveFailuresReported,
         NoErrorCalls

\* A new save takes the next number.
LEMMA LedgerOpens ==
  ASSUME PTypeOK, PTypeOK', LedgerInv, mode' = mode,
         NEW by \in Procs \cup {NoCaller}, Save(by), UNCHANGED <<written, errorCalls>>
  PROVE  LedgerInv'
<1>1. CASE UNCHANGED <<issued, saves>>
  BY <1>1
     DEF LedgerInv, Distinct, OpenEntries, NoHistory, Written, SaveFailuresReported,
         InProgress
<1>2. ASSUME ~UNCHANGED <<issued, saves>>
      PROVE  LedgerInv'
  <2>1. PICK new : /\ new.id = issued + 1 /\ new.phase = "trying"
                   /\ saves' = saves \cup {new}
                   /\ issued' = issued + 1
    BY <1>2 DEF Save
  <2>2. issued \in Nat /\ issued + 1 \in 1 .. MaxSaves /\ \A s \in saves : s.id \in Nat
    BY <2>1 DEF PTypeOK, Saves
  <2>3. errorCalls[issued + 1] = 0 /\ issued + 1 \notin written
    BY <2>2 DEF LedgerInv, NoHistory, Written
  <2>4. Distinct' /\ OpenEntries'
    BY <1>2, <2>1, <2>2, <2>3 DEF LedgerInv, Distinct, OpenEntries
  <2>5. NoHistory' /\ Written'
    BY <2>1, <2>2 DEF LedgerInv, NoHistory, Written
  <2>6. SaveFailuresReported'
    BY <2>1, <2>2, <2>3 DEF LedgerInv, SaveFailuresReported, InProgress
  <2> QED
    BY <2>4, <2>5, <2>6 DEF LedgerInv
<1> QED
  BY <1>1, <1>2

\* A save goes on, under its number.
LEMMA LedgerContinues ==
  ASSUME PTypeOK, LedgerInv, mode' = mode, NEW s \in saves, NEW t,
         t.id = s.id, s.phase = "failed" => t.phase = "failed",
         Replace(s, t), UNCHANGED <<issued, written>>,
         \/ UNCHANGED errorCalls
         \/ OnSaveError(s) /\ s.phase # "failed" /\ t.phase = "failed"
  PROVE  LedgerInv'
<1>1. saves' = (saves \ {s}) \cup {t} /\ UNCHANGED <<issued, written>>
  BY DEF Replace
<1>2. s.id \in 1 .. MaxSaves /\ errorCalls \in [1 .. MaxSaves -> Nat]
      /\ \A r \in saves : r.id \in 1 .. MaxSaves
  BY DEF PTypeOK, Saves
<1>3. /\ \A i \in 1 .. MaxSaves : i # s.id => errorCalls'[i] = errorCalls[i]
      /\ errorCalls'[s.id] <= IF t.phase = "failed" THEN 1 ELSE 0
      /\ errorCalls'[s.id] >= errorCalls[s.id] /\ errorCalls'[s.id] \in Nat
  <2>1. errorCalls[s.id] \in Nat
        /\ errorCalls[s.id] <= IF s.phase = "failed" THEN 1 ELSE 0
    BY <1>2 DEF LedgerInv, OpenEntries
  <2>2. CASE UNCHANGED errorCalls
    BY <2>1, <2>2
  <2>3. CASE OnSaveError(s) /\ s.phase # "failed" /\ t.phase = "failed"
    <3>1. errorCalls' = [errorCalls EXCEPT ![s.id] = errorCalls[s.id] + 1]
      BY <2>3 DEF OnSaveError
    <3>2. errorCalls'[s.id] = errorCalls[s.id] + 1
      BY <1>2, <3>1
    <3>3. \A i \in 1 .. MaxSaves : i # s.id => errorCalls'[i] = errorCalls[i]
      BY <1>2, <3>1
    <3> QED
      BY <2>1, <2>3, <3>2, <3>3
  <2> QED
    BY <2>2, <2>3
<1>4. Distinct'
  BY <1>1 DEF LedgerInv, Distinct
<1>5. OpenEntries'
  BY <1>1, <1>2, <1>3 DEF LedgerInv, Distinct, OpenEntries
<1>6. s.id <= issued /\ s.id \notin written
  BY DEF LedgerInv, OpenEntries
<1>7. issued \in 0 .. MaxSaves
  BY DEF PTypeOK
<1>8. NoHistory' /\ Written'
  BY <1>1, <1>2, <1>3, <1>6, <1>7 DEF LedgerInv, NoHistory, Written
<1>9. SaveFailuresReported'
  <2> SUFFICES ASSUME NEW i \in 1 .. issued
               PROVE  /\ mode.async => (\E r \in saves' : r.id = i)
                                       \/ i \in written \/ errorCalls'[i] > 0
                      /\ i \in written => errorCalls'[i] = 0
                      /\ errorCalls'[i] <= 2
    BY <1>1 DEF SaveFailuresReported, InProgress
  <2>1. CASE i = s.id
    BY <1>1, <1>2, <1>3, <1>6, <2>1, MaxSavesAssumption
  <2>2. CASE i # s.id
    <3>1. i \in 1 .. MaxSaves /\ errorCalls'[i] = errorCalls[i]
      BY <1>3, <1>7, <2>2, MaxSavesAssumption
    <3> QED
      BY <1>1, <2>2, <3>1 DEF LedgerInv, SaveFailuresReported, InProgress
  <2> QED
    BY <2>1, <2>2
<1> QED
  BY <1>4, <1>5, <1>8, <1>9 DEF LedgerInv

\* A save ends: it has stored its snapshot, or been reported, or it was a
\* synchronous one.
LEMMA LedgerCloses ==
  ASSUME PTypeOK, LedgerInv, mode' = mode, NEW s \in saves, Finish(s), issued' = issued,
         \/ written' = written \cup {s.id} /\ UNCHANGED errorCalls /\ s.phase # "failed"
         \/ UNCHANGED written /\ OnSaveError(s)
         \/ UNCHANGED <<written, errorCalls>> /\ ~mode.async
  PROVE  LedgerInv'
<1>1. saves' = saves \ {s}
  BY DEF Finish
<1>2. /\ errorCalls \in [1 .. MaxSaves -> Nat] /\ issued \in 0 .. MaxSaves
      /\ \A r \in saves : r.id \in 1 .. MaxSaves
  BY DEF PTypeOK, Saves
<1>3. /\ \A i \in 1 .. MaxSaves : i # s.id => errorCalls'[i] = errorCalls[i]
      /\ errorCalls'[s.id] \in 0 .. 2
      /\ written' = written => (mode.async => errorCalls'[s.id] > 0)
  <2>1. errorCalls[s.id] \in 0 .. 1 /\ s.id \notin written
    BY <1>2 DEF LedgerInv, OpenEntries
  <2>2. CASE UNCHANGED errorCalls
    <3>1. written' = written => ~mode.async
      BY <2>1, <2>2, <1>2 DEF OnSaveError
    <3> QED
      BY <2>1, <2>2, <3>1
  <2>3. CASE OnSaveError(s)
    <3>1. errorCalls' = [errorCalls EXCEPT ![s.id] = errorCalls[s.id] + 1]
      BY <2>3 DEF OnSaveError
    <3>2. errorCalls'[s.id] = errorCalls[s.id] + 1
      BY <1>2, <3>1
    <3>3. \A i \in 1 .. MaxSaves : i # s.id => errorCalls'[i] = errorCalls[i]
      BY <1>2, <3>1
    <3> QED
      BY <2>1, <3>2, <3>3
  <2> QED
    BY <2>2, <2>3
<1>4. s.id \in written' => errorCalls'[s.id] = 0
  <2>1. s.id \notin written /\ errorCalls[s.id] \in Nat
        /\ (s.phase # "failed" => errorCalls[s.id] <= 0)
    BY <1>2 DEF LedgerInv, OpenEntries
  <2> QED
    BY <2>1
<1>5. s.id <= issued /\ s.id \notin written /\ written' \subseteq written \cup {s.id}
      /\ written \subseteq written'
  BY DEF LedgerInv, OpenEntries
<1>6. \A r \in saves' : r \in saves /\ r.id # s.id
  BY <1>1 DEF LedgerInv, Distinct
<1>7. Distinct' /\ OpenEntries'
  BY <1>2, <1>3, <1>5, <1>6 DEF LedgerInv, Distinct, OpenEntries
<1>8. NoHistory' /\ Written'
  BY <1>2, <1>3, <1>5 DEF LedgerInv, NoHistory, Written
<1>9. SaveFailuresReported'
  <2> SUFFICES ASSUME NEW i \in 1 .. issued
               PROVE  /\ mode.async => (\E r \in saves' : r.id = i)
                                       \/ i \in written' \/ errorCalls'[i] > 0
                      /\ i \in written' => errorCalls'[i] = 0
                      /\ errorCalls'[i] <= 2
    BY DEF SaveFailuresReported, InProgress
  <2>1. CASE i = s.id
    <3>1. errorCalls'[i] \in 0 .. 2 /\ (i \in written' => errorCalls'[i] = 0)
      BY <1>3, <1>4, <2>1
    <3>2. mode.async => i \in written' \/ errorCalls'[i] > 0
      <4>1. CASE UNCHANGED written
        BY <1>3, <2>1, <4>1
      <4>2. CASE written' = written \cup {s.id}
        BY <2>1, <4>2
      <4> QED
        BY <4>1, <4>2
    <3> QED
      BY <3>1, <3>2
  <2>2. CASE i # s.id
    <3>1. i \in 1 .. MaxSaves /\ errorCalls'[i] = errorCalls[i]
          /\ (i \in written' <=> i \in written)
      <4>1. i \in 1 .. MaxSaves
        BY <1>2, MaxSavesAssumption
      <4> QED
        BY <1>3, <1>5, <2>2, <4>1
    <3> QED
      BY <1>1, <2>2, <3>1 DEF LedgerInv, SaveFailuresReported, InProgress
  <2> QED
    BY <2>1, <2>2
<1> QED
  BY <1>7, <1>8, <1>9 DEF LedgerInv

LEMMA LedgerStep == PTypeOK /\ PTypeOK' /\ LedgerInv /\ [PNext]_pvars => LedgerInv'
<1> SUFFICES ASSUME PTypeOK, PTypeOK', LedgerInv, [PNext]_pvars
             PROVE  LedgerInv'
  OBVIOUS
<1>m. mode' = mode
  BY ModeIsConstant
<1>1. CASE UNCHANGED <<issued, saves, written, errorCalls>>
  BY <1>m, <1>1
     DEF LedgerInv, Distinct, OpenEntries, NoHistory, Written, SaveFailuresReported,
         InProgress
<1>2. CASE BreakerStep
  <2>1. CASE \E by \in Procs \cup {NoCaller} : Save(by)
    BY <1>2, <1>m, <2>1, LedgerOpens DEF BreakerStep
  <2> QED
    BY <1>1, <1>2, <2>1 DEF BreakerStep, LockingStep, FreeStep
<1>3. ASSUME NEW s \in saves, SaveProgress(s) \/ DeadlinePasses(s)
      PROVE  LedgerInv'
  <2>1. issued' = issued /\ s \in Saves
    BY <1>3, SaveStepIsQuiet DEF SaveStep, PTypeOK
  <2>2. CASE SaveOk(s)
    BY <1>m, <2>1, <2>2, LedgerCloses DEF SaveOk
  <2>3. CASE SaveRetry(s)
    <3> DEFINE t == [s EXCEPT !.attempt = @ + 1, !.phase = "backoff"]
    <3>1. t.id = s.id
      BY <2>1 DEF Saves
    <3>2. Replace(s, t) /\ s.phase = "trying" /\ UNCHANGED <<written, errorCalls>>
      BY <2>3 DEF SaveRetry
    <3> HIDE DEF t
    <3> QED
      BY <1>m, <2>1, <3>1, <3>2, LedgerContinues
  <2>4. CASE BackoffOver(s)
    <3> DEFINE t == [s EXCEPT !.phase = "trying"]
    <3>1. t.id = s.id
      BY <2>1 DEF Saves
    <3>2. Replace(s, t) /\ s.phase = "backoff" /\ UNCHANGED <<written, errorCalls>>
      BY <2>4 DEF BackoffOver
    <3> HIDE DEF t
    <3> QED
      BY <1>m, <2>1, <3>1, <3>2, LedgerContinues
  <2>5. CASE DeadlinePasses(s)
    <3> DEFINE t == [s EXCEPT !.late = TRUE]
    <3>1. t.id = s.id /\ t.phase = s.phase
      BY <2>1 DEF Saves
    <3>2. Replace(s, t) /\ UNCHANGED <<written, errorCalls>>
      BY <2>5 DEF DeadlinePasses
    <3> HIDE DEF t
    <3> QED
      BY <1>m, <2>1, <3>1, <3>2, LedgerContinues
  <2>6. CASE SaveExhausted(s) \/ BackoffAborted(s)
    <3>1. /\ ReturnError(s) /\ s.phase # "failed" /\ UNCHANGED written
          /\ OnSaveError(s) \/ UNCHANGED errorCalls
      BY <2>6 DEF SaveExhausted, BackoffAborted
    <3>2. CASE mode.async
      <4> DEFINE t == [s EXCEPT !.phase = "failed", !.late = TRUE]
      <4>1. t.id = s.id /\ t.phase = "failed"
        BY <2>1 DEF Saves
      <4>2. Replace(s, t)
        BY <3>1, <3>2 DEF ReturnError
      <4> HIDE DEF t
      <4> QED
        BY <1>m, <2>1, <3>1, <4>1, <4>2, LedgerContinues
    <3>3. CASE ~mode.async
      <4>1. Finish(s)
        BY <3>1, <3>3 DEF ReturnError
      <4> QED
        BY <1>m, <2>1, <3>1, <3>3, <4>1, LedgerCloses
    <3> QED
      BY <3>2, <3>3
  <2>7. CASE AsyncReport(s)
    BY <1>m, <2>1, <2>7, LedgerCloses DEF AsyncReport
  <2> QED
    BY <1>3, <2>2, <2>3, <2>4, <2>5, <2>6, <2>7 DEF SaveProgress
<1>4. CASE Crash
  <2>1. saves' = {} /\ issued' = 0 /\ written' = {} /\ errorCalls' = NoErrorCalls
    BY <1>4 DEF Crash
  <2> QED
    BY <2>1, MaxSavesAssumption
       DEF LedgerInv, Distinct, OpenEntries, NoHistory, Written, SaveFailuresReported,
           NoErrorCalls
<1>5. CASE StartUnrestored \/ StartLoadError \/ StartInvalid \/ StartRestore
  BY <1>1, <1>5
     DEF StartUnrestored, StartLoadError, StartInvalid, StartRestore, StartWith
<1>6. CASE ClockTick
  <2>1. /\ saves' = {[s EXCEPT !.snapshot = OlderSnapshot(@)] : s \in saves}
        /\ UNCHANGED <<issued, written, errorCalls>>
    BY <1>6 DEF ClockTick
  <2>2. \A s \in saves : LET t == [s EXCEPT !.snapshot = OlderSnapshot(@)]
                         IN  t \in saves' /\ t.id = s.id
    BY <2>1 DEF PTypeOK, Saves
  <2>3. \A t \in saves' : \E s \in saves : /\ t = [s EXCEPT !.snapshot = OlderSnapshot(@)]
                                          /\ t.id = s.id /\ t.phase = s.phase
    BY <2>1 DEF PTypeOK, Saves
  <2>4. Distinct'
    BY <2>3 DEF LedgerInv, Distinct
  <2>5. OpenEntries'
    BY <2>1, <2>3 DEF LedgerInv, OpenEntries
  <2>6. NoHistory' /\ Written'
    BY <2>1 DEF LedgerInv, NoHistory, Written
  <2>7. SaveFailuresReported'
    BY <1>m, <2>1, <2>2 DEF LedgerInv, SaveFailuresReported, InProgress
  <2> QED
    BY <2>4, <2>5, <2>6, <2>7 DEF LedgerInv
<1>7. CASE UNCHANGED pvars
  BY <1>1, <1>7 DEF pvars, persistVars
<1> QED
  BY <1>2, <1>3, <1>4, <1>5, <1>6, <1>7 DEF PNext

(***************************************************************************)
(* Of every asynchronous save that a process has begun it is known what    *)
(* became of it: it is in progress, or its snapshot was stored, or         *)
(* OnSaveError was called - never both of the last two, and never more     *)
(* than twice (persistence_manager.go:138, 163, 189).                      *)
(***************************************************************************)
THEOREM FailuresReported == PSpec => []SaveFailuresReported
<1>1. PInit => LedgerInv
  BY LedgerEmpty DEF PInit
<1>2. LedgerInv => SaveFailuresReported
  BY DEF LedgerInv
<1> QED
  BY <1>1, <1>2, LedgerStep, PTyping, PTL DEF PSpec
-----------------------------------------------------------------------------
(***************************************************************************)
(* The conservative strategy, before whatever repository: never open with  *)
(* the timeout over, never from a snapshot past maxAge.                    *)
(***************************************************************************)
THEOREM ConservativeStarts == PSpec => ConservativeStart
<1>1. PTypeOK /\ [PNext]_pvars =>
        [mode.conservative /\ ~up /\ up' =>
           /\ ~(currentState' = "Open" /\ Expired')
           /\ outcome'.restored => stored.created <= MaxAge]_pvars
  <2> SUFFICES ASSUME PTypeOK, PNext, mode.conservative, ~up, up'
               PROVE  /\ ~(currentState' = "Open" /\ Expired')
                      /\ outcome'.restored => stored.created <= MaxAge
    OBVIOUS
  <2>1. CASE StartUnrestored \/ StartLoadError \/ StartInvalid
    BY <2>1 DEF StartUnrestored, StartLoadError, StartInvalid, StartWith, Fresh
  <2>2. CASE StartRestore
    <3>1. stored \in Snapshots
      BY <2>2 DEF StartRestore, PTypeOK
    <3>2. /\ currentState' = Restore(stored).state
          /\ sinceFailure' = Restore(stored).since
          /\ outcome'.restored = Restore(stored).ok
      BY <2>2 DEF StartRestore, StartWith
    <3>3. CASE stored.created > MaxAge
      BY <3>2, <3>3 DEF Restore, ConservativeRestore, Fresh
    <3>4. CASE ~(stored.created > MaxAge) /\ SnapshotExpired(stored)
      BY <3>1, <3>2, <3>4, MaxAgeAssumption
         DEF Restore, ConservativeRestore, Snapshots, Future, Unset
    <3>5. CASE ~(stored.created > MaxAge) /\ ~SnapshotExpired(stored)
      <4>1. Restore(stored) = DefaultRestore(stored)
        BY <3>5 DEF Restore, ConservativeRestore
      <4>2. stored.created <= MaxAge
        BY <3>1, <3>5, MaxAgeAssumption DEF Snapshots, Future, Unset
      <4>3. currentState' = "Open" =>
              /\ stored.timeout = ResetTimeout /\ stored.state = "Open"
              /\ sinceFailure' = BreakerAge(stored.since)
        BY <3>2, <4>1 DEF DefaultRestore, Fresh
      <4>4. stored.state = "Open" =>
              stored.since # ZeroFailure /\ ~(stored.since >= stored.timeout)
        BY <3>5 DEF SnapshotExpired
      <4>5. currentState' = "Open" => sinceFailure' = stored.since
        BY <3>1, <4>3, <4>4, TimeoutAssumption DEF BreakerAge, Snapshots, ZeroFailure
      <4> QED
        BY <4>2, <4>3, <4>4, <4>5 DEF Expired
    <3> QED
      BY <3>3, <3>4, <3>5
  <2> QED
    BY <2>1, <2>2, SaveStepIsQuiet DEF PNext, BreakerStep, Crash, ClockTick, SaveStep
<1> QED
  BY <1>1, PTyping, PTL DEF PSpec, ConservativeStart
=============================================================================
