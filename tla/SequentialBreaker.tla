-------------------------- MODULE SequentialBreaker -------------------------
(***************************************************************************)
(* CircuitBreaker as a single-goroutine program uses it: no two calls are  *)
(* in progress at once, and State and Reset are called between the calls.  *)
(*                                                                         *)
(* What such a program sees of its calls is their outcomes, so the model   *)
(* counts them beside the breaker: streak is the number of failures in a   *)
(* row that the program has met with a closed circuit.  The documented     *)
(* machine is a machine over that streak; the breaker has only             *)
(* failureCount to follow it with.                                         *)
(***************************************************************************)
EXTENDS CircuitBreaker

VARIABLE streak

svars == <<vars, streak>>

SequentialInit == Init /\ streak = 0

\* The steps of a call, with the outcome that its action reports.
Succeeds(p) == ClosedSuccess(p) \/ HalfOpenSuccess(p)
Fails(p) == ClosedFailure(p) \/ ClosedTrip(p)
NoEvidence(p) ==
  \/ Capture(p) \/ BeginAction(p) \/ OpenAdmit(p) \/ OpenReject(p)
  \/ HalfOpenFailure(p) \/ ActionPanic(p)

SequentialCall(p) ==
  /\ \A q \in Procs \ {p} : pc[q] = "idle"
  /\ \/ Succeeds(p) /\ streak' = 0
     \/ Fails(p) /\ streak' = streak + 1
     \/ NoEvidence(p) /\ UNCHANGED streak

AllIdle == \A p \in Procs : pc[p] = "idle"

SequentialNext ==
  \/ \E p \in Procs : SequentialCall(p)
  \/ AllIdle /\ StateProbe /\ UNCHANGED streak
  \/ AllIdle /\ Reset /\ streak' = 0
  \/ Tick /\ UNCHANGED streak

SequentialSpec == SequentialInit /\ [][SequentialNext]_svars
-----------------------------------------------------------------------------
(***************************************************************************)
(* At most one call is in progress, and the object it delegates to is the  *)
(* current State.  Every divergence from the documented machine starts     *)
(* with a step that breaks this.                                           *)
(***************************************************************************)
NothingStale ==
  /\ \A p, q \in Procs : pc[p] # "idle" /\ pc[q] # "idle" => p = q
  /\ \A p \in Procs : pc[p] # "idle" => held[p] = currentState

(***************************************************************************)
(* A closed breaker has counted what its user has seen: failureCount is    *)
(* the streak, through trips, trials, panics and resets.                   *)
(***************************************************************************)
StreakCounted == currentState = "Closed" => failureCount = streak

(***************************************************************************)
(* The state machine of the package comment (breaker.go:8-12), where calls *)
(* are instantaneous and the circuit trips on failures in a row.           *)
(***************************************************************************)
Protocol == INSTANCE BreakerProtocol WITH
  Threshold <- FailureThreshold,
  state <- currentState,
  failures <- IF currentState = "Closed" THEN streak ELSE 0,
  cooled <- currentState = "Open" /\ Expired

\* Used from one goroutine, the breaker implements BreakerProtocol.
ProtocolSpec == Protocol!Spec
=============================================================================
