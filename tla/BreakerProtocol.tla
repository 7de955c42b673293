--------------------------- MODULE BreakerProtocol --------------------------
(***************************************************************************)
(* The circuit breaker of the package comment (breaker.go:8-12) and of the *)
(* options that configure it (options.go:24, 36): a machine of three       *)
(* states in which a call is one step.                                     *)
(*                                                                         *)
(*   Closed    trips on exactly Threshold failures in a row                *)
(*   Open      left only by its timeout, or by Reset                       *)
(*   HalfOpen  entered only from Open; the next outcome decides            *)
(***************************************************************************)
EXTENDS Integers

CONSTANT Threshold

VARIABLES
  state,
  failures,   \* consecutive failures of the closed circuit
  cooled      \* the open circuit's timeout has passed

vars == <<state, failures, cooled>>

Init ==
  /\ state = "Closed"
  /\ failures = 0
  /\ cooled = FALSE

Goto(new) ==
  /\ state' = new
  /\ failures' = 0
  /\ cooled' = FALSE

Success ==
  /\ state = "Closed"
  /\ Goto("Closed")

Failure ==
  /\ state = "Closed"
  /\ failures + 1 < Threshold
  /\ failures' = failures + 1
  /\ UNCHANGED <<state, cooled>>

Trip ==
  /\ state = "Closed"
  /\ failures + 1 = Threshold
  /\ Goto("Open")

Cool ==
  /\ state = "Open"
  /\ cooled' = TRUE
  /\ UNCHANGED <<state, failures>>

HalfOpen ==
  /\ state = "Open"
  /\ cooled
  /\ Goto("HalfOpen")

TrialSuccess ==
  /\ state = "HalfOpen"
  /\ Goto("Closed")

TrialFailure ==
  /\ state = "HalfOpen"
  /\ Goto("Open")

Reset == Goto("Closed")

Next ==
  \/ Success \/ Failure \/ Trip
  \/ Cool \/ HalfOpen
  \/ TrialSuccess \/ TrialFailure
  \/ Reset

Spec == Init /\ [][Next]_vars
=============================================================================
