--------------------------- MODULE MCListenerChain ---------------------------
(***************************************************************************)
(* Wirings for ListenerChain: one for each way the kinds of layers can     *)
(* meet, and what a comment of the repository says of one of them.         *)
(***************************************************************************)
EXTENDS ListenerChain

Wiring(decorators, used, chained) ==
  [decorators |-> decorators, used |-> used, chained |-> chained]

\* The example of Compose, decorators.go:341-346.
ComposeExample == Wiring(<<"retry", "timeout", "recover">>, << >>, << >>)

MCWirings ==
  { ComposeExample,
    Wiring(<<"filter">>, <<"observe">>, << >>),            \* WithLogging
    Wiring(<<"filter", "handle">>, <<"filter", "retry">>, << >>),
    Wiring(<< >>, <<"timeout", "retry">>, << >>),          \* a retry around a timeout
    Wiring(<< >>, << >>, <<"handle", "timeout", "observe", "retry">>),
    Wiring(<<"retry", "handle">>, <<"observe", "handle", "retry">>, << >>),
    Wiring(<<"async">>, << >>, << >>),
    Wiring(<<"recover", "async">>, << >>, << >>),
    Wiring(<<"async">>, <<"observe", "recover", "retry">>, << >>),
    Wiring(<<"limit">>, << >>, << >>),
    Wiring(<<"breaker">>, << >>, << >>),
    Wiring(<<"breaker", "retry">>, << >>, << >>),
    Wiring(<<"breaker">>, <<"timeout">>, << >>) }

OnlyComposeExample == {ComposeExample}

(***************************************************************************)
(* decorators.go:163, of ListenerWithPanicRecovery: "If the listener       *)
(* panics, the panic is recovered and converted to an error".              *)
(***************************************************************************)
RecoversListener == Positions("recover") # {} => crashed # Listener
=============================================================================
