--------------------------- MODULE BreakerHistory ---------------------------
(***************************************************************************)
(* CircuitBreaker with a history variable, to say what a caller that got   *)
(* ErrCircuitBreakerOpen may conclude.  Execute reads the state once and   *)
(* OpenState.Execute reads the clock later, under a second lock; the two   *)
(* reads may see different openings of the circuit, or a circuit that has  *)
(* been closed in the meantime.                                            *)
(***************************************************************************)
EXTENDS CircuitBreaker

VARIABLE sawBlocked   \* calls during which the circuit was open and not cooled

hvars == <<vars, sawBlocked>>

Blocked == currentState = "Open" /\ ~Expired

Record ==
  sawBlocked' = {p \in Procs : held'[p] = "Open" /\ (p \in sawBlocked \/ Blocked')}

HistoryInit == Init /\ sawBlocked = {}
HistoryNext == Next /\ Record
HistorySpec == HistoryInit /\ [][HistoryNext]_hvars

\* The breaker's fairness; recording takes no step of its own.
FairHistorySpec == HistorySpec /\ Fairness

(***************************************************************************)
(* A rejection is linearizable: whenever OpenState.Execute would answer    *)
(* ErrCircuitBreakerOpen to a call, the circuit was open with its timeout  *)
(* running at some moment of that very call.                               *)
(***************************************************************************)
RejectionJustified ==
  \A p \in Procs : held[p] = "Open" /\ ~Expired => p \in sawBlocked
=============================================================================
