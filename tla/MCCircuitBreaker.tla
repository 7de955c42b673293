-------------------------- MODULE MCCircuitBreaker --------------------------
(***************************************************************************)
(* What the repository's comments say of the breaker and concurrent        *)
(* callers can refute.                                                     *)
(***************************************************************************)
EXTENDS CircuitBreaker

(***************************************************************************)
(* breaker.go:12: in the half-open state "a single request is allowed      *)
(* through to test if the service recovered".                              *)
(***************************************************************************)
SingleTrial ==
  \A p, q \in Procs :
    pc[p] = "running" /\ held[p] = "HalfOpen" /\
    pc[q] = "running" /\ held[q] = "HalfOpen" => p = q
=============================================================================
