----------------------- MODULE SequentialBreakerProofs ----------------------
(***************************************************************************)
(* Used from one goroutine, the breaker is the documented machine, for     *)
(* every threshold and timeout.                                            *)
(***************************************************************************)
EXTENDS SequentialBreaker, CircuitBreakerProofs

(***************************************************************************)
(* Used from one goroutine, the breaker never acts on a stale State        *)
(* object.                                                                 *)
(***************************************************************************)
LEMMA SequentialIsNext == [SequentialNext]_svars => [Next]_vars
  BY DEF SequentialNext, SequentialCall, Succeeds, Fails, NoEvidence, Next,
         Call, svars

LEMMA SequentialInvInit == SequentialInit => NothingStale /\ StreakCounted
  BY DEF SequentialInit, Init, NothingStale, StreakCounted

LEMMA NothingStaleStep ==
  TypeOK /\ NothingStale /\ [SequentialNext]_svars => NothingStale'
<1> SUFFICES ASSUME TypeOK, NothingStale, [SequentialNext]_svars
             PROVE  NothingStale'
  OBVIOUS
<1>1. ASSUME NEW p \in Procs, Call(p), \A q \in Procs \ {p} : pc[q] = "idle"
      PROVE  NothingStale'
  <2>1. \A q \in Procs \ {p} : pc'[q] = "idle"
    BY <1>1
       DEF Call, Capture, BeginAction, OpenAdmit, OpenReject, ClosedSuccess,
           ClosedFailure, ClosedTrip, HalfOpenSuccess, HalfOpenFailure,
           ActionPanic, Return, TypeOK
  <2>2. pc'[p] # "idle" => held'[p] = currentState'
    <3>1. CASE Capture(p) \/ BeginAction(p)
      BY <3>1 DEF Capture, BeginAction, breakerVars, TypeOK, NothingStale
    <3>2. CASE OpenAdmit(p)
      BY <3>2 DEF OpenAdmit, TransitionTo, TypeOK
    <3>3. CASE Return(p)
      BY <3>3 DEF Return, TypeOK
    <3> QED
      BY <1>1, <3>1, <3>2, <3>3
         DEF Call, OpenReject, ClosedSuccess, ClosedFailure, ClosedTrip,
             HalfOpenSuccess, HalfOpenFailure, ActionPanic
  <2> QED
    BY <2>1, <2>2 DEF NothingStale
<1>2. CASE AllIdle /\ (StateProbe \/ Reset)
  BY <1>2 DEF AllIdle, StateProbe, Reset, callVars, NothingStale
<1>3. CASE Tick
  BY <1>3 DEF Tick, callVars, NothingStale
<1>4. CASE UNCHANGED svars
  BY <1>4 DEF svars, vars, NothingStale
<1> QED
  BY <1>1, <1>2, <1>3, <1>4
     DEF SequentialNext, SequentialCall, Succeeds, Fails, NoEvidence, Call

(***************************************************************************)
(* failureCount and the streak change together as long as reports are not  *)
(* stale; a trial's success and Reset clear both.                          *)
(***************************************************************************)
LEMMA StreakStep ==
  TypeOK /\ NothingStale /\ StreakCounted /\ [SequentialNext]_svars
    => StreakCounted'
<1> SUFFICES ASSUME TypeOK, NothingStale, StreakCounted, [SequentialNext]_svars
             PROVE  StreakCounted'
  OBVIOUS
<1>1. ASSUME NEW p \in Procs, Succeeds(p), streak' = 0
      PROVE  StreakCounted'
  BY <1>1
     DEF Succeeds, ClosedSuccess, HalfOpenSuccess, TransitionTo, CountOnEntry,
         StreakCounted
<1>2. ASSUME NEW p \in Procs, Fails(p), streak' = streak + 1
      PROVE  StreakCounted'
  <2>1. held[p] = "Closed" /\ pc[p] # "idle"
    BY <1>2 DEF Fails, ClosedFailure, ClosedTrip
  <2>2. failureCount = streak
    BY <2>1 DEF NothingStale, StreakCounted
  <2> QED
    BY <1>2, <2>2 DEF Fails, ClosedFailure, ClosedTrip, TransitionTo, StreakCounted
<1>3. ASSUME NEW p \in Procs, NoEvidence(p), UNCHANGED streak
      PROVE  StreakCounted'
  BY <1>3
     DEF NoEvidence, Capture, BeginAction, OpenAdmit, OpenReject,
         HalfOpenFailure, ActionPanic, TransitionTo, breakerVars, StreakCounted
<1>4. CASE StateProbe
  BY <1>4 DEF StateProbe, TransitionTo, StreakCounted
<1>5. CASE Reset /\ streak' = 0
  BY <1>5 DEF Reset, TransitionTo, CountOnEntry, StreakCounted
<1>6. CASE Tick /\ UNCHANGED streak
  BY <1>6 DEF Tick, StreakCounted
<1>7. CASE UNCHANGED svars
  BY <1>7 DEF svars, vars, StreakCounted
<1> QED
  BY <1>1, <1>2, <1>3, <1>4, <1>5, <1>6, <1>7 DEF SequentialNext, SequentialCall

SequentialInv == TypeOK /\ StateInv /\ NothingStale /\ StreakCounted

(***************************************************************************)
(* A single-goroutine program never makes a stale report, and its closed   *)
(* breaker has counted exactly the failures in a row the program has seen. *)
(***************************************************************************)
THEOREM SequentialSafety == SequentialSpec => []SequentialInv
<1>1. SequentialInit => SequentialInv
  BY TypingInit, StateInvInit, SequentialInvInit DEF SequentialInv, SequentialInit
<1>2. SequentialInv /\ [SequentialNext]_svars => SequentialInv'
  BY SequentialIsNext, TypingStep, StateInvStep, NothingStaleStep, StreakStep
     DEF SequentialInv
<1> QED
  BY <1>1, <1>2, PTL DEF SequentialSpec

(***************************************************************************)
(* The steps of the documented machine.                                    *)
(***************************************************************************)
LEMMA ProtocolStep ==
  SequentialInv /\ [SequentialNext]_svars => [Protocol!Next]_(Protocol!vars)
<1> SUFFICES ASSUME SequentialInv, [SequentialNext]_svars
             PROVE  [Protocol!Next]_(Protocol!vars)
  OBVIOUS
<1> DEFINE PNext == [Protocol!Next]_(Protocol!vars)
           count == IF currentState = "Closed" THEN streak ELSE 0
           cool == currentState = "Open" /\ Expired
<1> USE TimeoutAssumption, ThresholdAssumption
<1>t. TypeOK /\ StateInv /\ NothingStale /\ StreakCounted
  BY DEF SequentialInv
<1>s. ASSUME UNCHANGED breakerVars, UNCHANGED streak
      PROVE  PNext
  BY <1>s DEF Protocol!vars, breakerVars, Expired
<1>h. ASSUME NEW p \in Procs, pc[p] # "idle"
      PROVE  held[p] = currentState
  BY <1>h, <1>t DEF NothingStale
<1>1. ASSUME NEW p \in Procs, OpenAdmit(p)
      PROVE  PNext
  <2>1. currentState = "Open" /\ Expired
    BY <1>1, <1>h DEF OpenAdmit
  <2>2. Protocol!HalfOpen
    BY <1>1, <2>1
       DEF Protocol!HalfOpen, Protocol!Goto, OpenAdmit, TransitionTo
  <2> QED
    BY <2>2 DEF Protocol!Next
<1>2. ASSUME NEW p \in Procs, ClosedSuccess(p), streak' = 0
      PROVE  PNext
  <2>1. currentState = "Closed" /\ UNCHANGED currentState /\ streak' = 0
    BY <1>2, <1>h DEF ClosedSuccess
  <2>2. Protocol!Success
    BY <2>1 DEF Protocol!Success, Protocol!Goto
  <2> QED
    BY <2>2 DEF Protocol!Next
<1>3. ASSUME NEW p \in Procs, ClosedFailure(p), streak' = streak + 1
      PROVE  PNext
  <2>1. /\ currentState = "Closed" /\ UNCHANGED currentState
        /\ streak + 1 < FailureThreshold
        /\ streak' = streak + 1
    BY <1>3, <1>h, <1>t DEF ClosedFailure, StreakCounted
  <2>2. Protocol!Failure
    BY <2>1 DEF Protocol!Failure
  <2> QED
    BY <2>2 DEF Protocol!Next
<1>4. ASSUME NEW p \in Procs, ClosedTrip(p)
      PROVE  PNext
  <2>1. currentState = "Closed" /\ streak + 1 = FailureThreshold
    BY <1>4, <1>h, <1>t
       DEF ClosedTrip, TypeOK, StateInv, ClosedBelowThreshold, StreakCounted
  <2>2. currentState' = "Open" /\ ~Expired'
    BY <1>4 DEF ClosedTrip, TransitionTo, SinceOnEntry, Expired
  <2>3. Protocol!Trip
    BY <2>1, <2>2 DEF Protocol!Trip, Protocol!Goto
  <2> QED
    BY <2>3 DEF Protocol!Next
<1>5. ASSUME NEW p \in Procs, HalfOpenSuccess(p), streak' = 0
      PROVE  PNext
  <2>1. currentState = "HalfOpen" /\ currentState' = "Closed" /\ streak' = 0
    BY <1>5, <1>h DEF HalfOpenSuccess, TransitionTo, CountOnEntry
  <2>2. Protocol!TrialSuccess
    BY <2>1 DEF Protocol!TrialSuccess, Protocol!Goto
  <2> QED
    BY <2>2 DEF Protocol!Next
<1>6. ASSUME NEW p \in Procs, HalfOpenFailure(p)
      PROVE  PNext
  <2>1. currentState = "HalfOpen" /\ currentState' = "Open" /\ ~Expired'
    BY <1>6, <1>h DEF HalfOpenFailure, TransitionTo, SinceOnEntry, Expired
  <2>2. Protocol!TrialFailure
    BY <2>1 DEF Protocol!TrialFailure, Protocol!Goto
  <2> QED
    BY <2>2 DEF Protocol!Next
<1>7. ASSUME NEW p \in Procs, SequentialCall(p)
      PROVE  PNext
  BY <1>1, <1>2, <1>3, <1>4, <1>5, <1>6, <1>7, <1>s
     DEF SequentialCall, Succeeds, Fails, NoEvidence, Capture, BeginAction,
         OpenReject, ActionPanic
<1>8. CASE StateProbe
  <2>1. Protocol!HalfOpen
    BY <1>8 DEF Protocol!HalfOpen, Protocol!Goto, StateProbe, TransitionTo
  <2> QED
    BY <2>1 DEF Protocol!Next
<1>9. CASE Reset /\ streak' = 0
  <2>1. Protocol!Reset
    BY <1>9 DEF Protocol!Reset, Protocol!Goto, Reset, TransitionTo, CountOnEntry
  <2> QED
    BY <2>1 DEF Protocol!Next
<1>10. CASE Tick /\ UNCHANGED streak
  <2>1. currentState' = currentState /\ streak' = streak
    BY <1>10 DEF Tick
  <2>2. CASE currentState = "Open" /\ Expired'
    <3>1. Protocol!Cool
      BY <2>1, <2>2 DEF Protocol!Cool
    <3> QED
      BY <3>1 DEF Protocol!Next
  <2>3. CASE ~(currentState = "Open" /\ Expired')
    <3>1. Expired => Expired'
      BY <1>10, <1>t DEF Tick, Expired, TypeOK, Ages, ZeroTime
    <3>2. cool' = cool
      BY <2>1, <2>3, <3>1, Zenon
    <3>3. UNCHANGED Protocol!vars
      BY <2>1, <3>2, Zenon DEF Protocol!vars
    <3> QED
      BY <3>3
  <2> QED
    BY <2>2, <2>3
<1>11. CASE UNCHANGED svars
  BY <1>11, <1>s DEF svars, vars, breakerVars
<1> QED
  BY <1>7, <1>8, <1>9, <1>10, <1>11 DEF SequentialNext

LEMMA ProtocolInit == SequentialInit => Protocol!Init
  BY DEF SequentialInit, Init, Protocol!Init

(***************************************************************************)
(* A single-goroutine program sees the documented state machine: it trips  *)
(* on exactly FailureThreshold failures in a row.                          *)
(***************************************************************************)
THEOREM ImplementsProtocol == SequentialSpec => ProtocolSpec
  BY ProtocolInit, ProtocolStep, SequentialSafety, PTL
     DEF SequentialSpec, ProtocolSpec, Protocol!Spec
=============================================================================
