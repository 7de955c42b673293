--------------------------- MODULE BreakerContract --------------------------
(***************************************************************************)
(* What CircuitBreakerImpl promises to concurrent callers, without the     *)
(* State objects, the mutex or the clock.                                  *)
(*                                                                         *)
(* A call that is let through holds a permit until its action has          *)
(* reported.  A permit given by a closed circuit is a normal one, every    *)
(* other permit is a trial.  The circuit moves only on evidence:           *)
(*   - it trips when a normal permit reports a failure at the threshold;   *)
(*   - it is decided, open or closed, by whatever a trial reports;         *)
(*   - it goes half-open only when it has cooled since it last opened.     *)
(* A permit keeps its meaning however long its action takes, which is why  *)
(* a late report may move a circuit that has long changed state.           *)
(***************************************************************************)
EXTENDS Integers

CONSTANTS
  Calls,      \* the calls that may be in progress
  Threshold   \* failures that trip a closed circuit

VARIABLES
  circuit,    \* "Closed", "Open" or "HalfOpen"
  failures,   \* failures counted towards the threshold
  cooled,     \* the reset timeout has passed since the circuit last opened
  normals,    \* calls with a permit of the closed circuit
  trials      \* calls with a trial permit

vars == <<circuit, failures, cooled, normals, trials>>

Init ==
  /\ circuit = "Closed"
  /\ failures = 0
  /\ cooled = TRUE
  /\ normals = {}
  /\ trials = {}

NoPermit(c) == c \notin normals \cup trials

AdmitNormal(c) ==
  /\ circuit = "Closed"
  /\ NoPermit(c)
  /\ normals' = normals \cup {c}
  /\ UNCHANGED <<circuit, failures, cooled, trials>>

AdmitTrial(c) ==
  /\ circuit = "HalfOpen" \/ cooled
  /\ NoPermit(c)
  /\ circuit' = "HalfOpen"
  /\ trials' = trials \cup {c}
  /\ UNCHANGED <<failures, cooled, normals>>

HalfOpen ==
  /\ circuit = "Open"
  /\ cooled
  /\ circuit' = "HalfOpen"
  /\ UNCHANGED <<failures, cooled, normals, trials>>

Open ==
  /\ circuit' = "Open"
  /\ cooled' = FALSE

NormalSuccess(c) ==
  /\ c \in normals
  /\ normals' = normals \ {c}
  /\ failures' = 0
  /\ UNCHANGED <<circuit, cooled, trials>>

NormalFailure(c) ==
  /\ c \in normals
  /\ normals' = normals \ {c}
  /\ failures' = failures + 1
  /\ IF failures + 1 >= Threshold THEN Open ELSE UNCHANGED <<circuit, cooled>>
  /\ UNCHANGED trials

TrialSuccess(c) ==
  /\ c \in trials
  /\ trials' = trials \ {c}
  /\ circuit' = "Closed"
  /\ failures' = 0
  /\ UNCHANGED <<cooled, normals>>

TrialFailure(c) ==
  /\ c \in trials
  /\ trials' = trials \ {c}
  /\ Open
  /\ UNCHANGED <<failures, normals>>

\* A panicking action gives its permit back and is no evidence.
Abandon(c) ==
  /\ ~NoPermit(c)
  /\ normals' = normals \ {c}
  /\ trials' = trials \ {c}
  /\ UNCHANGED <<circuit, failures, cooled>>

Cool ==
  /\ cooled' = TRUE
  /\ UNCHANGED <<circuit, failures, normals, trials>>

Reset ==
  /\ circuit' = "Closed"
  /\ failures' = 0
  /\ cooled' = TRUE
  /\ UNCHANGED <<normals, trials>>

Next ==
  \/ \E c \in Calls :
       \/ AdmitNormal(c) \/ AdmitTrial(c)
       \/ NormalSuccess(c) \/ NormalFailure(c)
       \/ TrialSuccess(c) \/ TrialFailure(c)
       \/ Abandon(c)
  \/ HalfOpen
  \/ Cool
  \/ Reset

Spec == Init /\ [][Next]_vars
=============================================================================
