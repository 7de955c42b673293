--------------------------- MODULE MCBreakerRuntime ---------------------------
(***************************************************************************)
(* Instances of BreakerRuntime and LogFields for TLC.  The two share no    *)
(* state - one has the loggers' locks and levels, the other their fields - *)
(* so the run lets either proceed while the other has not begun, in place  *)
(* of the product of the two.                                              *)
(***************************************************************************)
EXTENDS BreakerRuntime, LogFields

\* Foreign code that returns, that may panic wherever it runs, and that calls
\* back into the breaker from the writer or from Save.
Foreign(panics, reenters) == [panics |-> panics, reenters |-> reenters]
Returns == Foreign({}, {})
MCModes ==
  {Returns, Foreign({"log", "save"}, {}), Foreign({}, {"log"}), Foreign({}, {"save"})}

NobodyYet ==
  /\ mode = Returns /\ minLevel = [l \in {BreakerLogger} |-> Info]
  /\ \A t \in Threads : Free(t)
  /\ currentState = "Closed" /\ failureCount = 0 /\ stamp = "zero" /\ line = NoLine

RuntimeNext == FieldsInit /\ Next /\ UNCHANGED fieldVars
LoggersNext == NobodyYet /\ FieldsNext /\ UNCHANGED vars

RuntimeInit == Init /\ FieldsInit

RuntimeSpec ==
  /\ RuntimeInit
  /\ [][RuntimeNext \/ LoggersNext]_<<vars, fieldVars>>
  /\ Fairness
=============================================================================
