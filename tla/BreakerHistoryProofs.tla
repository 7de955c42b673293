------------------------ MODULE BreakerHistoryProofs ------------------------
(***************************************************************************)
(* Rejections are linearizable, for every set of goroutines, threshold and *)
(* timeout.                                                                *)
(***************************************************************************)
EXTENDS BreakerHistory, CircuitBreakerProofs

(***************************************************************************)
(* RejectionJustified is inductive.  A call that starts to be rejectable   *)
(* either has just read an open circuit that is not cooled, or the age of  *)
(* lastFailure has just dropped - which only entering Open does.           *)
(***************************************************************************)
LEMMA RejectionStep ==
  TypeOK /\ RejectionJustified /\ [HistoryNext]_hvars => RejectionJustified'
<1> SUFFICES ASSUME TypeOK, RejectionJustified, [HistoryNext]_hvars,
                    NEW p \in Procs, held'[p] = "Open", ~Expired'
             PROVE  p \in sawBlocked'
  BY DEF RejectionJustified
<1> USE TimeoutAssumption
<1>1. CASE UNCHANGED hvars
  BY <1>1 DEF hvars, vars, RejectionJustified, Expired
<1>2. CASE HistoryNext
  <2>1. ASSUME p \in sawBlocked \/ Blocked'
        PROVE  p \in sawBlocked'
    BY <1>2, <2>1 DEF HistoryNext, Record
  <2>2. ASSUME held[p] = "Open", ~Expired
        PROVE  p \in sawBlocked'
    BY <2>1, <2>2 DEF RejectionJustified
  <2>3. ASSUME NEW new, NEW count, NEW since,
               TransitionTo(new, count, since), since = sinceFailure \/ since = ZeroTime,
               held[p] = "Open"
        PROVE  p \in sawBlocked'
    <3>1. CASE new = "Open"
      BY <2>1, <2>3, <3>1 DEF TransitionTo, Blocked
    <3>2. CASE new # "Open"
      BY <2>2, <2>3, <3>2
         DEF TransitionTo, SinceOnEntry, Expired, ZeroTime
    <3> QED
      BY <3>1, <3>2
  <2>4. ASSUME NEW q \in Procs, Call(q)
        PROVE  p \in sawBlocked'
    <3>1. CASE Capture(q)
      <4>1. CASE p = q
        BY <2>1, <3>1, <4>1
           DEF Capture, TypeOK, breakerVars, Blocked, Expired
      <4>2. CASE p # q
        BY <2>2, <3>1, <4>2 DEF Capture, TypeOK, breakerVars, Expired
      <4> QED
        BY <4>1, <4>2
    <3>2. CASE BeginAction(q)
      BY <2>2, <3>2 DEF BeginAction, breakerVars, Expired
    <3>3. CASE OpenAdmit(q)
      BY <2>3, <3>3 DEF OpenAdmit, TypeOK
    <3>4. ASSUME Return(q)
          PROVE  held[p] = "Open"
      BY <3>4 DEF Return, TypeOK, NoState
    <3>5. CASE OpenReject(q) \/ ActionPanic(q)
      BY <2>2, <3>4, <3>5 DEF OpenReject, ActionPanic, breakerVars, Expired
    <3>6. CASE ClosedSuccess(q) \/ ClosedFailure(q)
      BY <2>2, <3>4, <3>6 DEF ClosedSuccess, ClosedFailure, Expired
    <3>7. CASE ClosedTrip(q) \/ HalfOpenSuccess(q) \/ HalfOpenFailure(q)
      BY <2>3, <3>4, <3>7 DEF ClosedTrip, HalfOpenSuccess, HalfOpenFailure
    <3> QED
      BY <2>4, <3>1, <3>2, <3>3, <3>5, <3>6, <3>7 DEF Call
  <2>5. CASE StateProbe \/ Reset
    BY <2>3, <2>5 DEF StateProbe, Reset, callVars
  <2>6. CASE Tick
    BY <2>2, <2>6 DEF Tick, callVars, Expired, TypeOK, Ages, ZeroTime
  <2> QED
    BY <1>2, <2>4, <2>5, <2>6 DEF HistoryNext, Next
<1> QED
  BY <1>1, <1>2

(***************************************************************************)
(* A caller that gets ErrCircuitBreakerOpen was told so by a circuit that  *)
(* was open, with its timeout running, during its call.                    *)
(***************************************************************************)
THEOREM RejectionLinearizable == HistorySpec => []RejectionJustified
<1>1. HistoryInit => RejectionJustified
  BY DEF HistoryInit, Init, RejectionJustified, NoState
<1>2. HistoryInit => TypeOK
  BY TypingInit DEF HistoryInit
<1>3. [HistoryNext]_hvars => [Next]_vars
  BY DEF HistoryNext, hvars
<1> QED
  BY <1>1, <1>2, <1>3, TypingStep, RejectionStep, PTL DEF HistorySpec
=============================================================================
