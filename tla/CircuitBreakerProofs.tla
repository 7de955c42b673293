------------------------ MODULE CircuitBreakerProofs ------------------------
(***************************************************************************)
(* What is proved of CircuitBreaker for every set of goroutines, threshold *)
(* and timeout.                                                            *)
(***************************************************************************)
EXTENDS CircuitBreaker, FiniteSetTheorems, TLAPS

(***************************************************************************)
(* What any transitionTo establishes; every action that changes state goes *)
(* through it.                                                             *)
(***************************************************************************)
LEMMA TransitionToFacts ==
  ASSUME TypeOK,
         NEW new \in States, NEW count \in Int, NEW since \in Ages,
         TransitionTo(new, count, since)
  PROVE  /\ currentState' = new
         /\ failureCount' \in Int
         /\ new # "Closed" => failureCount' = count
         /\ new = "Closed" => failureCount' = 0
         /\ sinceFailure' \in Ages
         /\ new # "Open" => sinceFailure' = since
         /\ new = "Open" => sinceFailure' = 0
         /\ transition' \in Transitions
         /\ transition'.to = new
         /\ transition'.failureCount = failureCount'
         /\ transition'.sinceFailure = sinceFailure'
  BY TimeoutAssumption
     DEF TypeOK, TransitionTo, CountOnEntry, SinceOnEntry, Transitions,
         States, Ages, ZeroTime

(***************************************************************************)
(* Return and Capture keep the link between pc and held.                   *)
(***************************************************************************)
CallsOK ==
  /\ pc \in [Procs -> {"idle", "delegated", "running"}]
  /\ held \in [Procs -> States \cup {NoState}]
  /\ \A p \in Procs : pc[p] = "idle" <=> held[p] = NoState
  /\ \A p \in Procs : pc[p] = "running" => held[p] \in {"Closed", "HalfOpen"}

LEMMA ReturnFacts ==
  ASSUME TypeOK, NEW p \in Procs, Return(p)
  PROVE  CallsOK'
  BY DEF TypeOK, CallsOK, Return, States, NoState

(***************************************************************************)
(* Every step of the breaker keeps its variables typed.                    *)
(***************************************************************************)
LEMMA TypingStep == TypeOK /\ [Next]_vars => TypeOK'
<1> SUFFICES ASSUME TypeOK, [Next]_vars
             PROVE  TypeOK'
  OBVIOUS
<1> USE TimeoutAssumption, ThresholdAssumption DEF Ages, ZeroTime
<1>a. NoTransition \in Transitions \cup {NoTransition}
  OBVIOUS
<1>1. ASSUME NEW p \in Procs, Capture(p)
      PROVE  TypeOK'
  BY <1>1 DEF TypeOK, Capture, breakerVars, States, NoState
<1>2. ASSUME NEW p \in Procs, BeginAction(p)
      PROVE  TypeOK'
  BY <1>2 DEF TypeOK, BeginAction, breakerVars, States, NoState
<1>3. ASSUME NEW p \in Procs, OpenAdmit(p)
      PROVE  TypeOK'
  <2>1. CallsOK'
    BY <1>3 DEF TypeOK, CallsOK, OpenAdmit, States, NoState
  <2>2. "HalfOpen" \in States
    BY DEF States
  <2> QED
    BY <1>3, <2>1, <2>2, TransitionToFacts DEF TypeOK, CallsOK, OpenAdmit
<1>4. ASSUME NEW p \in Procs, OpenReject(p)
      PROVE  TypeOK'
  BY <1>4, ReturnFacts DEF TypeOK, CallsOK, OpenReject, breakerVars
<1>5. ASSUME NEW p \in Procs, ClosedSuccess(p)
      PROVE  TypeOK'
  BY <1>5, ReturnFacts DEF TypeOK, CallsOK, ClosedSuccess
<1>6. ASSUME NEW p \in Procs, ClosedFailure(p)
      PROVE  TypeOK'
  BY <1>6, ReturnFacts DEF TypeOK, CallsOK, ClosedFailure
<1>7. ASSUME NEW p \in Procs, NEW new \in States, NEW count \in Int,
             NEW since \in Ages,
             TransitionTo(new, count, since), CallsOK'
      PROVE  TypeOK'
  BY <1>7, TransitionToFacts DEF TypeOK, CallsOK
<1>8. ASSUME NEW p \in Procs, ClosedTrip(p)
      PROVE  TypeOK'
  BY <1>7, <1>8, ReturnFacts DEF TypeOK, ClosedTrip, States
<1>9. ASSUME NEW p \in Procs, HalfOpenSuccess(p)
      PROVE  TypeOK'
  BY <1>7, <1>9, ReturnFacts DEF TypeOK, HalfOpenSuccess, States
<1>10. ASSUME NEW p \in Procs, HalfOpenFailure(p)
       PROVE  TypeOK'
  BY <1>7, <1>10, ReturnFacts DEF TypeOK, HalfOpenFailure, States
<1>11. ASSUME NEW p \in Procs, ActionPanic(p)
       PROVE  TypeOK'
  BY <1>11, ReturnFacts DEF TypeOK, CallsOK, ActionPanic, breakerVars
<1>12. CASE StateProbe
  BY <1>12, TransitionToFacts DEF TypeOK, StateProbe, callVars, States
<1>13. CASE Reset
  BY <1>13, TransitionToFacts DEF TypeOK, Reset, callVars, States
<1>14. CASE Tick
  BY <1>14 DEF TypeOK, Tick, callVars
<1>15. CASE UNCHANGED vars
  BY <1>15 DEF TypeOK, vars
<1> QED
  BY <1>1, <1>2, <1>3, <1>4, <1>5, <1>6, <1>8, <1>9, <1>10, <1>11, <1>12,
     <1>13, <1>14, <1>15 DEF Next, Call

LEMMA TypingInit == Init => TypeOK
  BY TimeoutAssumption
     DEF Init, TypeOK, States, Ages, ZeroTime, NoState, NoTransition

(***************************************************************************)
(* Type correctness of the breaker (breaker.go:109-119).                   *)
(***************************************************************************)
THEOREM Typing == Spec => []TypeOK
  BY TypingInit, TypingStep, PTL DEF Spec
-----------------------------------------------------------------------------
(***************************************************************************)
(* The safety invariants of the runs, as one inductive invariant.  The     *)
(* first two are inductive together with the types: a stale report leaves  *)
(* a closed circuit only with a count it has just compared with the        *)
(* threshold or cleared, and only OpenState.OnEntry makes a circuit open.  *)
(***************************************************************************)
StateInv == NeverNegative /\ ClosedBelowThreshold /\ OpenIsStamped /\ SnapshotsValid

LEMMA StateInvInit == Init => StateInv
  BY ThresholdAssumption
     DEF Init, StateInv, NeverNegative, ClosedBelowThreshold, OpenIsStamped,
         SnapshotsValid, NoTransition, NoState

LEMMA StateInvStep == TypeOK /\ StateInv /\ [Next]_vars => StateInv'
<1> SUFFICES ASSUME TypeOK, StateInv, [Next]_vars
             PROVE  StateInv'
  OBVIOUS
<1> USE TimeoutAssumption, ThresholdAssumption
        DEF StateInv, NeverNegative, ClosedBelowThreshold, OpenIsStamped,
            SnapshotsValid, ZeroTime
<1>1. ASSUME NEW new \in States, NEW count \in Int, NEW since \in Ages,
             count >= 0,
             TransitionTo(new, count, since)
      PROVE  StateInv'
  BY <1>1, TransitionToFacts DEF States, Ages
<1>2. ASSUME transition' = NoTransition, UNCHANGED breakerVars
      PROVE  StateInv'
  BY <1>2 DEF breakerVars, NoTransition, NoState
<1>3. ASSUME NEW p \in Procs, Call(p)
      PROVE  StateInv'
  <2>1. CASE Capture(p) \/ BeginAction(p) \/ OpenReject(p) \/ ActionPanic(p)
    BY <1>2, <2>1 DEF Capture, BeginAction, OpenReject, ActionPanic, breakerVars
  <2>2. CASE OpenAdmit(p) \/ ClosedTrip(p) \/ HalfOpenSuccess(p)
               \/ HalfOpenFailure(p)
    BY <1>1, <2>2
       DEF TypeOK, OpenAdmit, ClosedTrip, HalfOpenSuccess, HalfOpenFailure, States
  <2>3. CASE ClosedSuccess(p)
    BY <2>3 DEF ClosedSuccess, NoTransition, NoState
  <2>4. CASE ClosedFailure(p)
    BY <2>4 DEF TypeOK, ClosedFailure, NoTransition, NoState
  <2> QED
    BY <1>3, <2>1, <2>2, <2>3, <2>4 DEF Call
<1>4. CASE StateProbe
  BY <1>1, <1>4 DEF TypeOK, StateProbe, States
<1>5. CASE Reset
  BY <1>1, <1>5 DEF TypeOK, Reset, States, Ages
<1>6. CASE Tick
  BY <1>6 DEF Tick, TypeOK, Ages, NoTransition, NoState
<1>7. CASE UNCHANGED vars
  BY <1>7 DEF vars
<1> QED
  BY <1>3, <1>4, <1>5, <1>6, <1>7 DEF Next

(***************************************************************************)
(* No interleaving leaves a closed circuit at its threshold or an open     *)
(* circuit without a timestamp.                                            *)
(***************************************************************************)
THEOREM StateSafety == Spec => []Consistent
<1>1. Spec => []StateInv
  BY StateInvInit, StateInvStep, Typing, PTL DEF Spec
<1> QED
  BY <1>1, PTL DEF StateInv, Consistent

(***************************************************************************)
(* Every snapshot that transitionTo builds, in every interleaving, is one  *)
(* that the breaker's own validator accepts.                               *)
(***************************************************************************)
THEOREM SnapshotSafety == Spec => []SnapshotsValid
<1>1. Spec => []StateInv
  BY StateInvInit, StateInvStep, Typing, PTL DEF Spec
<1> QED
  BY <1>1, PTL DEF StateInv
-----------------------------------------------------------------------------
(***************************************************************************)
(* How the calls that hold a Closed object change in a step: at most one   *)
(* call enters the set, by Capture of a closed circuit, and every report   *)
(* leaves it.                                                              *)
(***************************************************************************)
LEMMA ClosedCallsFinite ==
  /\ IsFiniteSet(ClosedCalls)
  /\ Cardinality(ClosedCalls) \in Nat
  /\ Cardinality(ClosedCalls) <= Cardinality(Procs)
  /\ Cardinality(Procs) \in Nat
  BY ProcsAssumption, FS_Subset, FS_CardinalityType DEF ClosedCalls

LEMMA ReturnLeaves ==
  ASSUME TypeOK, NEW p \in Procs, Return(p)
  PROVE  Cardinality(ClosedCalls') =
           IF held[p] = "Closed" THEN Cardinality(ClosedCalls) - 1
                                 ELSE Cardinality(ClosedCalls)
<1>1. ClosedCalls' = ClosedCalls \ {p}
  BY DEF ClosedCalls, Return, TypeOK, NoState
<1>2. p \in ClosedCalls <=> held[p] = "Closed"
  BY DEF ClosedCalls
<1> QED
  BY <1>1, <1>2, ClosedCallsFinite, FS_RemoveElement

(***************************************************************************)
(* The bound is inductive: Capture enlarges the set only while the circuit *)
(* is closed, where the counter is below the threshold, and every          *)
(* increment is paid for by a call that leaves the set.                    *)
(***************************************************************************)
LEMMA OvershootStep ==
  TypeOK /\ StateInv /\ OvershootBound /\ [Next]_vars => OvershootBound'
<1> SUFFICES ASSUME TypeOK, StateInv, OvershootBound, [Next]_vars
             PROVE  OvershootBound'
  OBVIOUS
<1> USE ThresholdAssumption, ClosedCallsFinite DEF OvershootBound
<1>f. failureCount \in Nat
  BY DEF TypeOK, StateInv, NeverNegative
<1>1. ASSUME ClosedCalls' = ClosedCalls,
             failureCount' \in Nat, failureCount' <= failureCount
      PROVE  OvershootBound'
  BY <1>1, <1>f
<1>2. ASSUME NEW p \in Procs, Return(p),
             failureCount' \in Nat, failureCount' <= failureCount
      PROVE  OvershootBound'
  <2>1. Cardinality(ClosedCalls') <= Cardinality(ClosedCalls)
    BY <1>2, ReturnLeaves
  <2>2. Cardinality(ClosedCalls') \in Nat
    BY <1>2, ReturnLeaves, FS_Subset, FS_CardinalityType, ProcsAssumption
       DEF ClosedCalls
  <2> QED
    BY <1>2, <2>1, <2>2, <1>f
<1>3. ASSUME NEW p \in Procs, Return(p), held[p] = "Closed",
             failureCount' = failureCount + 1
      PROVE  OvershootBound'
  BY <1>3, <1>f, ReturnLeaves
<1>4. ASSUME NEW p \in Procs, Capture(p)
      PROVE  OvershootBound'
  <2>1. CASE currentState = "Closed"
    <3>1. failureCount' <= FailureThreshold - 1 /\ failureCount' \in Int
      BY <1>4, <2>1, <1>f DEF StateInv, ClosedBelowThreshold, Capture, breakerVars
    <3>2. ClosedCalls' \subseteq Procs
      BY DEF ClosedCalls
    <3>3. Cardinality(ClosedCalls') \in Nat
          /\ Cardinality(ClosedCalls') <= Cardinality(Procs)
      BY <3>2, ProcsAssumption, FS_Subset, FS_CardinalityType
    <3> QED
      BY <3>1, <3>3
  <2>2. CASE currentState # "Closed"
    <3>1. ClosedCalls' = ClosedCalls
      BY <1>4, <2>2 DEF Capture, ClosedCalls, TypeOK, NoState
    <3> QED
      BY <1>1, <1>4, <1>f, <3>1 DEF Capture, breakerVars
  <2> QED
    BY <2>1, <2>2
<1>5. ASSUME NEW p \in Procs, BeginAction(p)
      PROVE  OvershootBound'
  BY <1>1, <1>5, <1>f DEF BeginAction, breakerVars, ClosedCalls
<1>6. ASSUME NEW p \in Procs, OpenAdmit(p)
      PROVE  OvershootBound'
  <2>1. ClosedCalls' = ClosedCalls
    BY <1>6 DEF OpenAdmit, ClosedCalls, TypeOK
  <2> QED
    BY <1>1, <1>6, <2>1, <1>f DEF OpenAdmit, TransitionTo, CountOnEntry
<1>7. ASSUME NEW p \in Procs, OpenReject(p) \/ ActionPanic(p)
      PROVE  OvershootBound'
  BY <1>2, <1>7, <1>f DEF OpenReject, ActionPanic, breakerVars
<1>8. ASSUME NEW p \in Procs, ClosedSuccess(p)
      PROVE  OvershootBound'
  BY <1>2, <1>8, <1>f DEF ClosedSuccess
<1>9. ASSUME NEW p \in Procs, ClosedFailure(p) \/ ClosedTrip(p)
      PROVE  OvershootBound'
  BY <1>3, <1>9, <1>f DEF ClosedFailure, ClosedTrip, TransitionTo, CountOnEntry
<1>10. ASSUME NEW p \in Procs, HalfOpenSuccess(p) \/ HalfOpenFailure(p)
       PROVE  OvershootBound'
  BY <1>2, <1>10, <1>f
     DEF HalfOpenSuccess, HalfOpenFailure, TransitionTo, CountOnEntry
<1>11. CASE StateProbe \/ Reset
  BY <1>1, <1>11, <1>f
     DEF StateProbe, Reset, TransitionTo, CountOnEntry, callVars, ClosedCalls
<1>12. CASE Tick \/ UNCHANGED vars
  BY <1>1, <1>12, <1>f DEF Tick, vars, callVars, ClosedCalls
<1> QED
  BY <1>4, <1>5, <1>6, <1>7, <1>8, <1>9, <1>10, <1>11, <1>12 DEF Next, Call

(***************************************************************************)
(* However many stale failures arrive, the counter stays within one per    *)
(* goroutine of the threshold: it is a bounded counter, in memory and in   *)
(* every snapshot.                                                         *)
(***************************************************************************)
THEOREM Overshoot == Spec => []OvershootBound
<1>1. Init => OvershootBound
  <2> SUFFICES ASSUME Init PROVE OvershootBound
    OBVIOUS
  <2>1. ClosedCalls = {}
    BY DEF Init, ClosedCalls, NoState
  <2> QED
    BY <2>1, FS_EmptySet, ClosedCallsFinite, ThresholdAssumption
       DEF Init, OvershootBound
<1>2. Spec => []StateInv
  BY StateInvInit, StateInvStep, Typing, PTL DEF Spec
<1> QED
  BY <1>1, <1>2, OvershootStep, Typing, PTL DEF Spec
-----------------------------------------------------------------------------
(* CircuitBreaker implements BreakerContract. *)

\* The abstract values of the permits.
Normals == {p \in Procs : held[p] = "Closed"}
Trials == {p \in Procs : held[p] = "HalfOpen"}

LEMMA PermitsOnReturn ==
  ASSUME TypeOK, NEW p \in Procs, Return(p)
  PROVE  Normals' = Normals \ {p} /\ Trials' = Trials \ {p}
  BY DEF TypeOK, Return, Normals, Trials, NoState

LEMMA NoPermitOutside ==
  ASSUME NEW p \in Procs, held[p] \notin {"Closed", "HalfOpen"}
  PROVE  Contract!NoPermit(p)
  BY DEF Contract!NoPermit

LEMMA ContractInit == Init => Contract!Init
  BY TimeoutAssumption
     DEF Init, Contract!Init, Expired, ZeroTime, NoState

(***************************************************************************)
(* Each step of the breaker is a step of the contract or a stutter.  A     *)
(* step that changes neither the circuit nor the permits is a stutter, or  *)
(* the tick that completes the cooling.                                    *)
(***************************************************************************)
LEMMA ContractStep ==
  TypeOK /\ [Next]_vars => [Contract!Next]_(Contract!vars)
<1> SUFFICES ASSUME TypeOK, [Next]_vars
             PROVE  [Contract!Next]_(Contract!vars)
  OBVIOUS
<1> DEFINE CNext == [Contract!Next]_(Contract!vars)
<1> USE TimeoutAssumption DEF Normals, Trials
<1>1. ASSUME NEW p \in Procs, Capture(p)
      PROVE  CNext
  <2>1. Contract!NoPermit(p)
    BY <1>1, NoPermitOutside DEF Capture, TypeOK, NoState
  <2>2. CASE currentState = "Closed"
    <3>1. Normals' = Normals \cup {p} /\ Trials' = Trials
      BY <1>1, <2>2 DEF Capture, TypeOK, NoState
    <3>2. Contract!AdmitNormal(p)
      BY <1>1, <2>1, <2>2, <3>1
         DEF Contract!AdmitNormal, Capture, breakerVars, Expired
    <3> QED
      BY <3>2 DEF Contract!Next
  <2>3. CASE currentState = "HalfOpen"
    <3>1. Trials' = Trials \cup {p} /\ Normals' = Normals
      BY <1>1, <2>3 DEF Capture, TypeOK, NoState
    <3>2. Contract!AdmitTrial(p)
      BY <1>1, <2>1, <2>3, <3>1
         DEF Contract!AdmitTrial, Capture, breakerVars, Expired
    <3> QED
      BY <3>2 DEF Contract!Next
  <2>4. CASE currentState = "Open"
    <3>1. Trials' = Trials /\ Normals' = Normals
      BY <1>1, <2>4 DEF Capture, TypeOK, NoState
    <3> QED
      BY <1>1, <3>1 DEF Contract!vars, Capture, breakerVars, Expired
  <2> QED
    BY <2>2, <2>3, <2>4 DEF TypeOK, States
<1>2. ASSUME NEW p \in Procs, BeginAction(p)
      PROVE  CNext
  BY <1>2 DEF Contract!vars, BeginAction, breakerVars, Expired
<1>3. ASSUME NEW p \in Procs, OpenAdmit(p)
      PROVE  CNext
  <2>1. Contract!NoPermit(p)
    BY <1>3, NoPermitOutside DEF OpenAdmit
  <2>2. Trials' = Trials \cup {p} /\ Normals' = Normals
    BY <1>3 DEF OpenAdmit, TypeOK
  <2>3. Contract!AdmitTrial(p)
    BY <1>3, <2>1, <2>2
       DEF Contract!AdmitTrial, OpenAdmit, TransitionTo, CountOnEntry,
           SinceOnEntry, Expired
  <2> QED
    BY <2>3 DEF Contract!Next
<1>4. ASSUME NEW p \in Procs, OpenReject(p)
      PROVE  CNext
  <2>1. Normals' = Normals /\ Trials' = Trials
    BY <1>4, PermitsOnReturn DEF OpenReject
  <2> QED
    BY <1>4, <2>1 DEF Contract!vars, OpenReject, breakerVars, Expired
<1>5. ASSUME NEW p \in Procs, ClosedSuccess(p)
      PROVE  CNext
  <2>1. Normals' = Normals \ {p} /\ Trials' = Trials
    BY <1>5, PermitsOnReturn DEF ClosedSuccess
  <2>2. Contract!NormalSuccess(p)
    BY <1>5, <2>1 DEF Contract!NormalSuccess, ClosedSuccess, Expired
  <2> QED
    BY <2>2 DEF Contract!Next
<1>6. ASSUME NEW p \in Procs, ClosedFailure(p)
      PROVE  CNext
  <2>1. Normals' = Normals \ {p} /\ Trials' = Trials
    BY <1>6, PermitsOnReturn DEF ClosedFailure
  <2>2. ~(failureCount + 1 >= FailureThreshold)
    BY <1>6, ThresholdAssumption DEF ClosedFailure, TypeOK
  <2>3. Contract!NormalFailure(p)
    BY <1>6, <2>1, <2>2 DEF Contract!NormalFailure, ClosedFailure, Expired
  <2> QED
    BY <2>3 DEF Contract!Next
<1>7. ASSUME NEW p \in Procs, ClosedTrip(p)
      PROVE  CNext
  <2>1. Normals' = Normals \ {p} /\ Trials' = Trials
    BY <1>7, PermitsOnReturn DEF ClosedTrip
  <2>2. Contract!NormalFailure(p)
    BY <1>7, <2>1
       DEF Contract!NormalFailure, Contract!Open, ClosedTrip, TransitionTo,
           CountOnEntry, SinceOnEntry, Expired
  <2> QED
    BY <2>2 DEF Contract!Next
<1>8. ASSUME NEW p \in Procs, HalfOpenSuccess(p)
      PROVE  CNext
  <2>1. Trials' = Trials \ {p} /\ Normals' = Normals
    BY <1>8, PermitsOnReturn DEF HalfOpenSuccess
  <2>2. Contract!TrialSuccess(p)
    BY <1>8, <2>1
       DEF Contract!TrialSuccess, HalfOpenSuccess, TransitionTo,
           CountOnEntry, SinceOnEntry, Expired
  <2> QED
    BY <2>2 DEF Contract!Next
<1>9. ASSUME NEW p \in Procs, HalfOpenFailure(p)
      PROVE  CNext
  <2>1. Trials' = Trials \ {p} /\ Normals' = Normals
    BY <1>9, PermitsOnReturn DEF HalfOpenFailure
  <2>2. Contract!TrialFailure(p)
    BY <1>9, <2>1
       DEF Contract!TrialFailure, Contract!Open, HalfOpenFailure, TransitionTo,
           CountOnEntry, SinceOnEntry, Expired
  <2> QED
    BY <2>2 DEF Contract!Next
<1>10. ASSUME NEW p \in Procs, ActionPanic(p)
       PROVE  CNext
  <2>1. Normals' = Normals \ {p} /\ Trials' = Trials \ {p}
    BY <1>10, PermitsOnReturn DEF ActionPanic
  <2>2. ~Contract!NoPermit(p)
    BY <1>10 DEF Contract!NoPermit, ActionPanic, TypeOK
  <2>3. Contract!Abandon(p)
    BY <1>10, <2>1, <2>2
       DEF Contract!Abandon, ActionPanic, breakerVars, Expired
  <2> QED
    BY <2>3 DEF Contract!Next
<1>11. CASE StateProbe
  <2>1. Contract!HalfOpen
    BY <1>11
       DEF Contract!HalfOpen, StateProbe, callVars, TransitionTo, CountOnEntry,
           SinceOnEntry, Expired
  <2> QED
    BY <2>1 DEF Contract!Next
<1>12. CASE Reset
  <2>1. Contract!Reset
    BY <1>12
       DEF Contract!Reset, Reset, callVars, TransitionTo, CountOnEntry,
           SinceOnEntry, Expired, ZeroTime
  <2> QED
    BY <2>1 DEF Contract!Next
<1>13. CASE Tick
  <2>1. CASE Expired'
    <3>1. Contract!Cool
      BY <1>13, <2>1 DEF Contract!Cool, Tick, callVars
    <3> QED
      BY <3>1 DEF Contract!Next
  <2>2. CASE ~Expired'
    <3>1. ~Expired
      BY <1>13 DEF Tick, Expired, TypeOK, Ages, ZeroTime
    <3>2. Expired' = Expired
      BY <2>2, <3>1, SMT DEF Expired
    <3> QED
      BY <1>13, <3>2, Zenon DEF Contract!vars, Tick, callVars
  <2> QED
    BY <2>1, <2>2
<1>14. CASE UNCHANGED vars
  BY <1>14 DEF Contract!vars, vars, Expired
<1> QED
  BY <1>1, <1>2, <1>3, <1>4, <1>5, <1>6, <1>7, <1>8, <1>9, <1>10, <1>11,
     <1>12, <1>13, <1>14 DEF Next, Call

(***************************************************************************)
(* Under every interleaving, the circuit moves only on the evidence that   *)
(* BreakerContract allows.                                                 *)
(***************************************************************************)
THEOREM ImplementsContract == Spec => ContractSpec
  BY ContractInit, ContractStep, Typing, PTL DEF Spec, ContractSpec, Contract!Spec
=============================================================================
