--------------------------- MODULE CircuitBreaker ---------------------------
(***************************************************************************)
(* The circuit breaker itself: CircuitBreakerImpl (breaker.go) and its     *)
(* three State objects (state.go), driven by concurrent goroutines.        *)
(*                                                                         *)
(* Execute reads the current State object under the mutex, RELEASES the    *)
(* mutex, and only then delegates to the object it read.  The object runs  *)
(* the caller's action without the mutex and takes the mutex again to      *)
(* report the outcome, without looking at what the current state has       *)
(* become.  A call is therefore three steps - Capture, BeginAction,        *)
(* Report - and any other goroutine may move the breaker in between.       *)
(* Every stretch of code that holds the mutex is one atomic step.          *)
(*                                                                         *)
(* Time.  The code compares time.Since(lastFailure) with resetTimeout and  *)
(* does nothing else with the clock, so the model keeps the age of         *)
(* lastFailure, saturated where the comparison no longer changes.          *)
(***************************************************************************)
EXTENDS Integers, FiniteSets

CONSTANTS
  Procs,             \* goroutines that call Execute / ExecuteWithContext
  FailureThreshold,  \* failureThreshold, WithFailureThreshold demands > 0
  ResetTimeout       \* resetTimeout in clock ticks, WithResetTimeout: > 0

ASSUME ProcsAssumption == IsFiniteSet(Procs)
ASSUME ThresholdAssumption == FailureThreshold \in Nat \ {0}
ASSUME TimeoutAssumption == ResetTimeout \in Nat \ {0}

VARIABLES
  currentState,  \* name of the current State object
  failureCount,
  sinceFailure,  \* age of lastFailure, see Expired
  pc,            \* where each goroutine stands in Execute
  held,          \* the State object each goroutine delegates to
  transition     \* what transitionTo handed on in the last step, if it ran

breakerVars == <<currentState, failureCount, sinceFailure>>
callVars == <<pc, held>>
vars == <<currentState, failureCount, sinceFailure, pc, held, transition>>

States == {"Closed", "Open", "HalfOpen"}
NoState == "None"

\* The zero time.Time: older than every timeout, and distinguishable by IsZero.
ZeroTime == ResetTimeout + 1
Ages == 0 .. ZeroTime

NoTransition == [from |-> NoState, to |-> NoState, failureCount |-> 0,
                 sinceFailure |-> 0]

\* The arguments of the Save and PublishAsync calls of one transitionTo.
Transitions == [from : States, to : States, failureCount : Int,
                sinceFailure : Ages]

Init ==
  /\ currentState = "Closed"
  /\ failureCount = 0
  /\ sinceFailure = ZeroTime
  /\ pc = [p \in Procs |-> "idle"]
  /\ held = [p \in Procs |-> NoState]
  /\ transition = NoTransition
-----------------------------------------------------------------------------
\* time.Since(lastFailure) >= resetTimeout
Expired == sinceFailure >= ResetTimeout

\* Mutant: every OnEntry but HalfOpen's stamps.
SinceOnEntry_ClosedStamps(new, since) == IF new = "HalfOpen" THEN since ELSE 0

\* failureCount and lastFailure after new.OnEntry, from the given values.
CountOnEntry(new, count) == IF new = "Closed" THEN 0 ELSE count
SinceOnEntry(new, since) == IF new = "Open" THEN 0 ELSE since

\* Mutant: the snapshot is taken before OnEntry has run.
TransitionTo_EarlySnapshot(new, count, since) ==
  /\ currentState' = new
  /\ failureCount' = CountOnEntry(new, count)
  /\ sinceFailure' = SinceOnEntry(new, since)
  /\ transition' = [from |-> currentState, to |-> new,
                    failureCount |-> count, sinceFailure |-> since]

(***************************************************************************)
(* transitionTo, entered with failureCount and lastFailure as the caller   *)
(* has just left them.  OnEntry runs first, then the snapshot and the      *)
(* event are built from what it left; Save and PublishAsync start their    *)
(* goroutines with them.                                                   *)
(***************************************************************************)
TransitionTo(new, count, since) ==
  /\ currentState' = new
  /\ failureCount' = CountOnEntry(new, count)
  /\ sinceFailure' = SinceOnEntry(new, since)
  /\ transition' = [from |-> currentState, to |-> new,
                    failureCount |-> CountOnEntry(new, count),
                    sinceFailure |-> SinceOnEntry(new, since)]

\* The call of p is over: Execute returns, or unwinds on a panic.
Return(p) ==
  /\ pc' = [pc EXCEPT ![p] = "idle"]
  /\ held' = [held EXCEPT ![p] = NoState]
-----------------------------------------------------------------------------
\* Execute / ExecuteWithContext: read the current State object and unlock.
Capture(p) ==
  /\ pc[p] = "idle"
  /\ pc' = [pc EXCEPT ![p] = "delegated"]
  /\ held' = [held EXCEPT ![p] = currentState]
  /\ transition' = NoTransition
  /\ UNCHANGED breakerVars

\* Mutant: an open circuit runs the action too.
BeginAction_Unchecked(p) ==
  /\ pc[p] = "delegated"
  /\ pc' = [pc EXCEPT ![p] = "running"]
  /\ transition' = NoTransition
  /\ UNCHANGED <<breakerVars, held>>

\* ClosedState.Execute and HalfOpenState.Execute call action() first.
BeginAction(p) ==
  /\ pc[p] = "delegated"
  /\ held[p] \in {"Closed", "HalfOpen"}
  /\ pc' = [pc EXCEPT ![p] = "running"]
  /\ transition' = NoTransition
  /\ UNCHANGED <<breakerVars, held>>

\* OpenState.Execute after the timeout: go half-open, whatever the current
\* state is by now, and execute with the new State object.
OpenAdmit(p) ==
  /\ pc[p] = "delegated" /\ held[p] = "Open"
  /\ Expired
  /\ TransitionTo("HalfOpen", failureCount, sinceFailure)
  /\ held' = [held EXCEPT ![p] = "HalfOpen"]
  /\ UNCHANGED pc

\* Mutant: a rejected call counts as a failure of the service.
OpenReject_Restamps(p) ==
  /\ pc[p] = "delegated" /\ held[p] = "Open"
  /\ ~Expired
  /\ sinceFailure' = 0
  /\ Return(p)
  /\ transition' = NoTransition
  /\ UNCHANGED <<currentState, failureCount>>

\* OpenState.Execute before the timeout: ErrCircuitBreakerOpen.
OpenReject(p) ==
  /\ pc[p] = "delegated" /\ held[p] = "Open"
  /\ ~Expired
  /\ Return(p)
  /\ transition' = NoTransition
  /\ UNCHANGED breakerVars

\* Mutants: any success closes the circuit; none clears the counter.
ClosedSuccess_Closes(p) ==
  /\ pc[p] = "running" /\ held[p] = "Closed"
  /\ TransitionTo("Closed", 0, sinceFailure)
  /\ Return(p)

ClosedSuccess_KeepsCount(p) ==
  /\ pc[p] = "running" /\ held[p] = "Closed"
  /\ Return(p)
  /\ transition' = NoTransition
  /\ UNCHANGED breakerVars

\* ClosedState.Execute, action() returned nil.
ClosedSuccess(p) ==
  /\ pc[p] = "running" /\ held[p] = "Closed"
  /\ failureCount' = 0
  /\ Return(p)
  /\ transition' = NoTransition
  /\ UNCHANGED <<currentState, sinceFailure>>

\* Mutant: the threshold is compared with >.
ClosedFailure_OffByOne(p) ==
  /\ pc[p] = "running" /\ held[p] = "Closed"
  /\ failureCount + 1 <= FailureThreshold
  /\ failureCount' = failureCount + 1
  /\ Return(p)
  /\ transition' = NoTransition
  /\ UNCHANGED <<currentState, sinceFailure>>

\* ClosedState.Execute, action() returned an error below the threshold.
ClosedFailure(p) ==
  /\ pc[p] = "running" /\ held[p] = "Closed"
  /\ failureCount + 1 < FailureThreshold
  /\ failureCount' = failureCount + 1
  /\ Return(p)
  /\ transition' = NoTransition
  /\ UNCHANGED <<currentState, sinceFailure>>

\* ClosedState.Execute, action() returned an error and the count is reached.
ClosedTrip(p) ==
  /\ pc[p] = "running" /\ held[p] = "Closed"
  /\ failureCount + 1 >= FailureThreshold
  /\ TransitionTo("Open", failureCount + 1, sinceFailure)
  /\ Return(p)

\* Mutant: a trial's success clears the counter and leaves the state alone.
HalfOpenSuccess_StaysHalfOpen(p) ==
  /\ pc[p] = "running" /\ held[p] = "HalfOpen"
  /\ failureCount' = 0
  /\ Return(p)
  /\ transition' = NoTransition
  /\ UNCHANGED <<currentState, sinceFailure>>

\* HalfOpenState.Execute, action() returned nil.
HalfOpenSuccess(p) ==
  /\ pc[p] = "running" /\ held[p] = "HalfOpen"
  /\ TransitionTo("Closed", failureCount, sinceFailure)
  /\ Return(p)

\* Mutant: a trial's failure is counted like any other.
HalfOpenFailure_Counts(p) ==
  /\ pc[p] = "running" /\ held[p] = "HalfOpen"
  /\ TransitionTo("Open", failureCount + 1, sinceFailure)
  /\ Return(p)

\* HalfOpenState.Execute, action() returned an error.
HalfOpenFailure(p) ==
  /\ pc[p] = "running" /\ held[p] = "HalfOpen"
  /\ TransitionTo("Open", failureCount, sinceFailure)
  /\ Return(p)

\* action() panics: the frame of state.Execute unwinds before it locks.
ActionPanic(p) ==
  /\ pc[p] = "running"
  /\ Return(p)
  /\ transition' = NoTransition
  /\ UNCHANGED breakerVars

\* State(), when it finds an open breaker whose timeout has passed.
StateProbe ==
  /\ currentState = "Open"
  /\ Expired
  /\ TransitionTo("HalfOpen", failureCount, sinceFailure)
  /\ UNCHANGED callVars

\* Reset(): clears the counter and lastFailure, then enters Closed.
Reset ==
  /\ TransitionTo("Closed", 0, ZeroTime)
  /\ UNCHANGED callVars

\* The clock advances.
Tick ==
  /\ sinceFailure < ResetTimeout
  /\ sinceFailure' = sinceFailure + 1
  /\ transition' = NoTransition
  /\ UNCHANGED <<currentState, failureCount, callVars>>
-----------------------------------------------------------------------------
Call(p) ==
  \/ Capture(p)
  \/ BeginAction(p)
  \/ OpenAdmit(p)
  \/ OpenReject(p)
  \/ ClosedSuccess(p)
  \/ ClosedFailure(p)
  \/ ClosedTrip(p)
  \/ HalfOpenSuccess(p)
  \/ HalfOpenFailure(p)
  \/ ActionPanic(p)

Next ==
  \/ \E p \in Procs : Call(p)
  \/ StateProbe
  \/ Reset
  \/ Tick

Spec == Init /\ [][Next]_vars

(***************************************************************************)
(* Fairness: the scheduler runs a goroutine that is not waiting for        *)
(* anything, and time passes.  Nothing is assumed of the callers (they     *)
(* need not call again) or of the actions (they need not return).          *)
(***************************************************************************)
Fairness ==
  /\ \A p \in Procs : WF_vars(BeginAction(p))
  /\ \A p \in Procs : WF_vars(OpenAdmit(p) \/ OpenReject(p))
  /\ WF_vars(Tick)

FairSpec == Spec /\ Fairness
-----------------------------------------------------------------------------
(***************************************************************************)
(* Types, and what the pc of a goroutine says of the object it holds: an   *)
(* action only ever runs under a Closed or a HalfOpen object.              *)
(***************************************************************************)
TypeOK ==
  /\ currentState \in States
  /\ failureCount \in Int
  /\ sinceFailure \in Ages
  /\ pc \in [Procs -> {"idle", "delegated", "running"}]
  /\ held \in [Procs -> States \cup {NoState}]
  /\ transition \in Transitions \cup {NoTransition}
  /\ \A p \in Procs : pc[p] = "idle" <=> held[p] = NoState
  /\ \A p \in Procs : pc[p] = "running" => held[p] \in {"Closed", "HalfOpen"}

(***************************************************************************)
(* Stale reports increment and clear the counter in every state, yet no    *)
(* interleaving leaves a closed circuit that should have tripped, nor an   *)
(* open one without a lastFailure: with the zero time.Time, as Reset       *)
(* leaves it, that one would be half-opened at once.                       *)
(***************************************************************************)
ClosedBelowThreshold ==
  currentState = "Closed" => failureCount < FailureThreshold

OpenIsStamped == currentState = "Open" => sinceFailure # ZeroTime

NeverNegative == failureCount >= 0

Consistent == NeverNegative /\ ClosedBelowThreshold /\ OpenIsStamped

(***************************************************************************)
(* Every snapshot that transitionTo builds passes the consistency rules of *)
(* DefaultValidator (validators.go), whatever stale report caused it; if   *)
(* one did not, Save would drop it without a trace.                        *)
(***************************************************************************)
SnapshotsValid ==
  /\ transition.failureCount >= 0
  /\ transition.to = "Open" => transition.sinceFailure # ZeroTime
  /\ transition.to = "Closed" => transition.failureCount = 0

(***************************************************************************)
(* failureCount is never reset by an open circuit, and every call that     *)
(* began while the circuit was closed may still add to it.  It overshoots  *)
(* the threshold by at most the number of calls in progress.               *)
(***************************************************************************)
ClosedCalls == {p \in Procs : held[p] = "Closed"}

OvershootBound ==
  failureCount + Cardinality(ClosedCalls)
    <= FailureThreshold - 1 + Cardinality(Procs)

(***************************************************************************)
(* Late failures of calls that began before the circuit opened push the    *)
(* open circuit's timer back; they cannot do so for ever.  As long as      *)
(* calls keep coming, an open circuit lets one through.                    *)
(***************************************************************************)
Traffic == []<>(\E p \in Procs : pc[p] = "delegated")

RecoversUnderTraffic ==
  Traffic => (currentState = "Open" ~> currentState # "Open")

(***************************************************************************)
(* A half-open circuit is not wedged by trials that panic or never return: *)
(* as long as calls keep coming, and no goroutine whose actions run as     *)
(* trials again and again has every one of them panic or hang, it opens or *)
(* closes.                                                                 *)
(***************************************************************************)
TrialsReport == \A p \in Procs : SF_vars(HalfOpenSuccess(p) \/ HalfOpenFailure(p))

HalfOpenResolves ==
  Traffic /\ TrialsReport => (currentState = "HalfOpen" ~> currentState # "HalfOpen")
-----------------------------------------------------------------------------
(***************************************************************************)
(* What concurrent callers are promised: a permit given under a closed     *)
(* circuit can only trip it, a permit given as a trial decides it.         *)
(***************************************************************************)
Contract == INSTANCE BreakerContract WITH
  Calls <- Procs,
  Threshold <- FailureThreshold,
  circuit <- currentState,
  failures <- failureCount,
  cooled <- Expired,
  normals <- {p \in Procs : held[p] = "Closed"},
  trials <- {p \in Procs : held[p] = "HalfOpen"}

\* The breaker under any interleaving implements BreakerContract.
ContractSpec == Contract!Spec
=============================================================================
