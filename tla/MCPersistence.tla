--------------------------- MODULE MCPersistence ----------------------------
(***************************************************************************)
(* Model values for Persistence, and what the repository's comments say of *)
(* it that a run can refute.                                               *)
(***************************************************************************)
EXTENDS Persistence

(***************************************************************************)
(* What a breaker may find in a repository it did not write: snapshots of  *)
(* a deployment with another configuration, and contents that one of the   *)
(* validators is there to refuse.                                          *)
(***************************************************************************)
Ours(state, count, since) ==
  [version |-> 1, state |-> state, failureCount |-> count, since |-> since,
   created |-> 0, threshold |-> FailureThreshold, timeout |-> ResetTimeout]

MCForeign ==
  { Ours("HalfOpen", FailureThreshold, ResetTimeout),
    Ours("Closed", FailureThreshold, ZeroFailure),
    Ours("Open", FailureThreshold, ZeroFailure),
    [Ours("Open", FailureThreshold + 1, ResetTimeout)
       EXCEPT !.threshold = FailureThreshold + 1, !.timeout = ResetTimeout + 1],
    Ours("Unknown", 0, 0),
    [Ours("Closed", 0, ZeroFailure) EXCEPT !.version = 2, !.threshold = 0],
    Ours("HalfOpen", -1, 0),
    [Ours("Open", FailureThreshold, 0) EXCEPT !.created = Unset],
    [Ours("HalfOpen", FailureThreshold, 0) EXCEPT !.created = Future] }

NoForeign == {}

\* The default configuration, which the modes below change.
Defaults ==
  [enabled |-> TRUE, restoreOnInit |-> TRUE, async |-> TRUE,
   validator |-> "default", conservative |-> FALSE, fails |-> FALSE]

(***************************************************************************)
(* An asynchronous and a synchronous manager over repositories that fail,  *)
(* the second with the conservative strategy behind a validator that does  *)
(* not look at the age; the strict validator; no validator at all, with    *)
(* either strategy; and restoration or persistence as a whole turned off.  *)
(***************************************************************************)
MCModes ==
  { [Defaults EXCEPT !.fails = TRUE],
    [Defaults EXCEPT !.async = FALSE, !.conservative = TRUE, !.fails = TRUE],
    [Defaults EXCEPT !.async = FALSE, !.validator = "strict"],
    [Defaults EXCEPT !.async = FALSE, !.validator = "none"],
    [Defaults EXCEPT !.async = FALSE, !.validator = "none", !.conservative = TRUE],
    [Defaults EXCEPT !.async = FALSE, !.validator = "none", !.restoreOnInit = FALSE],
    [Defaults EXCEPT !.enabled = FALSE] }

\* The default configuration, over a repository that works.
DefaultMode == { Defaults }

(***************************************************************************)
(* README.md:52: persistence is for the state "to survive application      *)
(* restarts".  When an asynchronous manager has finished its work and no   *)
(* save has failed, the repository holds the breaker's state.              *)
(***************************************************************************)
StoredIsLatest ==
  up /\ saves = {} /\ issued > 0 /\ (\A i \in 1 .. issued : i \in written)
    => stored.state = currentState
=============================================================================
