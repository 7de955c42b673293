------------------------- MODULE ListenerChainProofs ------------------------
(***************************************************************************)
(* What holds of a wrapped listener for every wiring: every sequence of    *)
(* decorators and middleware, every number of events and goroutines.       *)
(***************************************************************************)
EXTENDS ListenerChain, SequenceTheorems, FiniteSetTheorems, TLAPS

Dirs == {"down", "running", "up", "waiting", "done"}
Outcomes == {"none", "nil", "error", "panic"}

Frame == [base : 0 .. Len(chain), at : Nat, dir : Dirs, outcome : Outcomes,
          source : Int, child : Goroutines, attempts : [DOMAIN chain -> Nat]]

\* The layers, and goroutines that stand somewhere in them.
Shape ==
  /\ chain \in Seq(Kinds)
  /\ DOMAIN go = Events /\ go = [e \in Events |-> go[e]]
  /\ \A e \in Events : DOMAIN go[e] \subseteq Goroutines
  /\ \A e \in Events : go[e] = [i \in DOMAIN go[e] |-> go[e][i]]
  /\ \A e \in Events : \A i \in DOMAIN go[e] : go[e][i] \in Frame

LEMMA ChainFacts ==
  ASSUME chain \in Seq(Kinds)
  PROVE  Len(chain) \in Nat /\ DOMAIN chain = 1 .. Len(chain)
  BY LenProperties

LEMMA StartFacts ==
  ASSUME NEW b \in 0 .. Len(chain), chain \in Seq(Kinds)
  PROVE  /\ Start(b) \in Frame
         /\ Start(b).base = b /\ Start(b).at = b /\ Start(b).dir = "down"
         /\ Start(b).outcome = "none" /\ Start(b).child = 0
  BY ChainFacts, NumbersAssumption DEF Start, Frame, Dirs, Outcomes, Goroutines, Alive

LEMMA DescendsFacts ==
  ASSUME NEW f \in Frame, f.at >= 1
  PROVE  /\ Descends(f) \in Frame
         /\ Descends(f).base = f.base /\ Descends(f).at = f.at - 1
         /\ Descends(f).dir = "down" /\ Descends(f).outcome = f.outcome
         /\ Descends(f).source = f.source /\ Descends(f).child = f.child
<1> DEFINE g == [f EXCEPT !.at = f.at - 1]
<1>1. f.at - 1 \in Nat /\ "down" \in Dirs
  BY DEF Frame, Dirs
<1>2. /\ g \in Frame /\ g.base = f.base /\ g.at = f.at - 1 /\ g.outcome = f.outcome
      /\ g.source = f.source /\ g.child = f.child
  BY <1>1 DEF Frame
<1>3. Descends(f) = [g EXCEPT !.dir = "down"]
  BY DEF Descends, Frame
<1> HIDE DEF g
<1> QED
  BY <1>1, <1>2, <1>3 DEF Frame

LEMMA AnswersFacts ==
  ASSUME NEW f \in Frame, NEW r \in Outcomes
  PROVE  /\ Answers(f, r) \in Frame
         /\ Answers(f, r).base = f.base /\ Answers(f, r).at = f.at + 1
         /\ Answers(f, r).dir = "up" /\ Answers(f, r).outcome = r
         /\ Answers(f, r).source = f.source /\ Answers(f, r).child = f.child
<1> DEFINE g == [f EXCEPT !.at = f.at + 1]
           h == [g EXCEPT !.dir = "up"]
<1>1. f.at + 1 \in Nat /\ "up" \in Dirs
  BY DEF Frame, Dirs
<1>2. /\ g \in Frame /\ g.base = f.base /\ g.at = f.at + 1
      /\ g.source = f.source /\ g.child = f.child
  BY <1>1 DEF Frame
<1>3. Answers(f, r) = [h EXCEPT !.outcome = r]
  BY DEF Answers, Frame
<1> HIDE DEF g
<1>4. /\ h \in Frame /\ h.base = f.base /\ h.at = f.at + 1 /\ h.dir = "up"
      /\ h.source = f.source /\ h.child = f.child
  BY <1>1, <1>2 DEF Frame
<1> HIDE DEF h
<1> QED
  BY <1>1, <1>3, <1>4 DEF Frame

LEMMA PanicsFacts ==
  ASSUME NEW f \in Frame
  PROVE  /\ Panics(f) \in Frame
         /\ Panics(f).base = f.base /\ Panics(f).at = f.at + 1
         /\ Panics(f).dir = "up" /\ Panics(f).outcome = "panic"
         /\ Panics(f).source = f.at /\ Panics(f).child = f.child
<1> DEFINE g == Answers(f, "panic")
<1>1. "panic" \in Outcomes
  BY DEF Outcomes
<1>2. /\ g \in Frame /\ g.base = f.base /\ g.at = f.at + 1 /\ g.dir = "up"
      /\ g.outcome = "panic" /\ g.child = f.child
  BY <1>1, AnswersFacts
<1>3. Panics(f) = [g EXCEPT !.source = f.at]
  BY DEF Panics
<1>4. f.at \in Int
  BY DEF Frame
<1> HIDE DEF g
<1> QED
  BY <1>2, <1>3, <1>4 DEF Frame

LEMMA AttemptFacts ==
  ASSUME NEW f \in Frame, NEW n \in Nat
  PROVE  /\ Attempt(f, n) \in Frame
         /\ Attempt(f, n).base = f.base /\ Attempt(f, n).at = f.at
         /\ Attempt(f, n).dir = f.dir /\ Attempt(f, n).outcome = f.outcome
         /\ Attempt(f, n).source = f.source /\ Attempt(f, n).child = f.child
<1> DEFINE a == [f.attempts EXCEPT ![f.at] = n]
<1>1. a \in [DOMAIN chain -> Nat]
  BY DEF Frame
<1>2. Attempt(f, n) = [f EXCEPT !.attempts = a]
  BY DEF Attempt
<1> HIDE DEF a
<1> QED
  BY <1>1, <1>2 DEF Frame

LEMMA BecomesFacts ==
  ASSUME Shape, NEW e \in Events, NEW i \in DOMAIN go[e], NEW f \in Frame,
         Becomes(e, i, f), UNCHANGED chain
  PROVE  /\ Shape'
         /\ DOMAIN go'[e] = DOMAIN go[e] /\ go'[e][i] = f
         /\ \A j \in DOMAIN go[e] \ {i} : go'[e][j] = go[e][j]
         /\ \A d \in Events \ {e} : go'[d] = go[d]
  BY DEF Becomes, Shape, Frame

LEMMA WithoutFacts ==
  ASSUME NEW fs, NEW i
  PROVE  /\ DOMAIN Without(fs, i) = DOMAIN fs \ {i}
         /\ \A j \in DOMAIN fs \ {i} : Without(fs, i)[j] = fs[j]
         /\ Without(fs, i) = [j \in DOMAIN Without(fs, i) |-> Without(fs, i)[j]]
  BY DEF Without
-----------------------------------------------------------------------------
(* A step of one goroutine through its layers. *)

InLayers(f) == f.at \in DOMAIN chain /\ f.at <= f.base

GoesDown(f, g) ==
  /\ f.dir = "down" /\ InLayers(f)
  /\ g.dir = "down" /\ g.at = f.at - 1 /\ g.outcome = f.outcome /\ g.source = f.source

GoesAgain(f, g) ==
  /\ f.dir = "up" /\ InLayers(f) /\ chain[f.at] = "retry" /\ f.outcome = "error"
  /\ g.dir = "down" /\ g.at = f.at - 1 /\ g.outcome = f.outcome /\ g.source = f.source

IsCalled(f, g) ==
  /\ f.dir = "down" /\ f.at = 0
  /\ g.dir = "running" /\ g.at = 0 /\ g.outcome = f.outcome /\ g.source = f.source

Passes(f, g) ==
  /\ f.dir = "up" /\ InLayers(f) /\ (f.outcome = "panic" => chain[f.at] \notin Recoveries)
  /\ g.outcome = f.outcome /\ g.source = f.source

Recovers(f, g) ==
  /\ f.dir = "up" /\ InLayers(f) /\ chain[f.at] \in Recoveries /\ f.outcome = "panic"
  /\ g.outcome = "error"

StartsPanic(f, g) ==
  /\ \/ f.dir = "running"
     \/ /\ f.dir = "down" /\ InLayers(f) /\ chain[f.at] \in {"observe", "filter"}
     \/ /\ f.dir = "up" /\ InLayers(f)
        /\ \/ chain[f.at] = "observe" /\ f.outcome # "panic"
           \/ chain[f.at] = "handle" /\ f.outcome = "panic"
  /\ g.outcome = "panic" /\ g.source = f.at

Turns(f, g) ==
  /\ f.dir = "running" \/ (f.dir = "down" /\ InLayers(f))
  /\ g.outcome \in {"nil", "error"}

GoesUp(f, g) ==
  /\ g.dir = "up" /\ g.at = f.at + 1
  /\ Passes(f, g) \/ Recovers(f, g) \/ StartsPanic(f, g) \/ Turns(f, g)

Goes(f, g) == GoesDown(f, g) \/ GoesAgain(f, g) \/ IsCalled(f, g) \/ GoesUp(f, g)

\* A nil that was not there before is on record.
Records(e, f, g) ==
  /\ succeeded \subseteq succeeded' /\ skipped \subseteq skipped'
  /\ succeeded' # succeeded =>
       f.dir = "running" /\ g.outcome = "nil" /\ succeeded' = succeeded \cup {e}
  /\ g.outcome = "nil" => f.outcome = "nil" \/ e \in succeeded' \cup skipped'

Elsewhere(e, i) ==
  /\ DOMAIN go'[e] = DOMAIN go[e]
  /\ \A j \in DOMAIN go[e] \ {i} : go'[e][j] = go[e][j]
  /\ \A d \in Events \ {e} : go'[d] = go[d]

Moves(e, i) ==
  /\ i \in DOMAIN go[e] /\ Shape' /\ Elsewhere(e, i)
  /\ go'[e][i].base = go[e][i].base /\ go'[e][i].child = go[e][i].child
  /\ Goes(go[e][i], go'[e][i]) /\ Records(e, go[e][i], go'[e][i])
  /\ UNCHANGED <<chain, crashed, result>>

LEMMA MovesBy ==
  ASSUME Shape, NEW e \in Events, NEW i \in DOMAIN go[e], NEW g \in Frame, Becomes(e, i, g),
         g.base = go[e][i].base, g.child = go[e][i].child,
         Goes(go[e][i], g), Records(e, go[e][i], g), UNCHANGED <<chain, crashed, result>>
  PROVE  Moves(e, i)
<1>1. go'[e][i] = g /\ Shape' /\ Elsewhere(e, i)
  BY BecomesFacts DEF Elsewhere
<1> QED
  BY <1>1 DEF Moves

LEMMA AtFacts ==
  ASSUME Shape, NEW e \in Events, NEW i, NEW kind, NEW dir, At(e, i, kind, dir)
  PROVE  /\ i \in DOMAIN go[e] /\ go[e][i] \in Frame /\ InLayers(go[e][i])
         /\ go[e][i].at >= 1 /\ go[e][i].dir = dir /\ chain[go[e][i].at] = kind
  BY ChainFacts DEF At, Shape, InLayers

\* The layer calls the one below it.
LEMMA DownMoves ==
  ASSUME Shape, NEW e \in Events, NEW i, NEW kind, At(e, i, kind, "down"),
         Becomes(e, i, Descends(go[e][i])), UNCHANGED <<chain, crashed, result, historyVars>>
  PROVE  Moves(e, i)
<1> DEFINE f == go[e][i]
           g == Descends(f)
<1>1. /\ i \in DOMAIN go[e] /\ f \in Frame /\ InLayers(f) /\ f.at >= 1
      /\ f.dir = "down"
  BY AtFacts
<1>2. /\ g \in Frame /\ g.base = f.base /\ g.at = f.at - 1 /\ g.dir = "down"
      /\ g.outcome = f.outcome /\ g.source = f.source /\ g.child = f.child
  BY <1>1, DescendsFacts
<1>3. Goes(f, g) /\ Records(e, f, g)
  BY <1>1, <1>2 DEF Goes, GoesDown, Records, historyVars
<1> QED
  BY <1>1, <1>2, <1>3, MovesBy

\* The layer hands on the outcome of the one below it.
LEMMA UpMoves ==
  ASSUME Shape, NEW e \in Events, NEW i, NEW kind, kind \notin Recoveries, At(e, i, kind, "up"),
         Becomes(e, i, Answers(go[e][i], go[e][i].outcome)),
         UNCHANGED <<chain, crashed, result, historyVars>>
  PROVE  Moves(e, i)
<1> DEFINE f == go[e][i]
           g == Answers(f, f.outcome)
<1>1. /\ i \in DOMAIN go[e] /\ f \in Frame /\ InLayers(f) /\ f.at >= 1
      /\ f.dir = "up" /\ chain[f.at] \notin Recoveries
  BY AtFacts
<1>2. f.outcome \in Outcomes
  BY <1>1 DEF Frame
<1>3. /\ g \in Frame /\ g.base = f.base /\ g.at = f.at + 1 /\ g.dir = "up"
      /\ g.outcome = f.outcome /\ g.source = f.source /\ g.child = f.child
  BY <1>1, <1>2, AnswersFacts
<1>4. Goes(f, g) /\ Records(e, f, g)
  BY <1>1, <1>3 DEF Goes, GoesUp, Passes, Records, historyVars
<1> QED
  BY <1>1, <1>3, <1>4, MovesBy

\* The layer answers by itself.
LEMMA TurnMoves ==
  ASSUME Shape, NEW e \in Events, NEW i, NEW kind, At(e, i, kind, "down"),
         NEW r \in {"nil", "error"}, Becomes(e, i, Answers(go[e][i], r)),
         r = "nil" => skipped' = skipped \cup {e}, r = "error" => UNCHANGED skipped,
         UNCHANGED <<chain, crashed, result, succeeded>>
  PROVE  Moves(e, i)
<1> DEFINE f == go[e][i]
           g == Answers(f, r)
<1>1. /\ i \in DOMAIN go[e] /\ f \in Frame /\ InLayers(f) /\ f.dir = "down"
  BY AtFacts
<1>2. r \in Outcomes
  BY DEF Outcomes
<1>3. /\ g \in Frame /\ g.base = f.base /\ g.at = f.at + 1 /\ g.dir = "up"
      /\ g.outcome = r /\ g.source = f.source /\ g.child = f.child
  BY <1>1, <1>2, AnswersFacts
<1>4. Goes(f, g) /\ Records(e, f, g)
  BY <1>1, <1>3 DEF Goes, GoesUp, Turns, Records
<1> QED
  BY <1>1, <1>3, <1>4, MovesBy

LEMMA ListenerMoves ==
  ASSUME Shape, NEW e \in Events, NEW i, ListenerCalled(e, i) \/ ListenerReturns(e, i)
  PROVE  Moves(e, i)
<1> DEFINE f == go[e][i]
<1>1. i \in DOMAIN go[e] /\ f \in Frame
  BY DEF ListenerCalled, ListenerReturns, Shape
<1>2. CASE ListenerCalled(e, i)
  <2> DEFINE g == [f EXCEPT !.dir = "running"]
  <2>1. f.dir = "down" /\ f.at = 0 /\ Becomes(e, i, g)
        /\ UNCHANGED <<chain, crashed, result, historyVars>>
    BY <1>2 DEF ListenerCalled, Quiet, Kept
  <2>2. /\ g \in Frame /\ g.base = f.base /\ g.at = f.at /\ g.dir = "running"
        /\ g.outcome = f.outcome /\ g.source = f.source /\ g.child = f.child
    BY <1>1 DEF Frame, Dirs
  <2> HIDE DEF g
  <2>3. Goes(f, g) /\ Records(e, f, g)
    BY <2>1, <2>2 DEF Goes, IsCalled, Records, historyVars
  <2> QED
    BY <1>1, <2>1, <2>2, <2>3, MovesBy
<1>3. ASSUME ListenerReturns(e, i), NEW r \in {"nil", "error"},
             Becomes(e, i, Answers(f, r)), succeeded' = IF r = "nil" THEN succeeded \cup {e} ELSE succeeded
      PROVE  Moves(e, i)
  <2> DEFINE g == Answers(f, r)
  <2>1. /\ g \in Frame /\ g.base = f.base /\ g.at = f.at + 1 /\ g.dir = "up"
        /\ g.outcome = r /\ g.source = f.source /\ g.child = f.child
    BY <1>1, AnswersFacts DEF Outcomes
  <2>2. f.dir = "running" /\ UNCHANGED <<chain, crashed, result, skipped>>
    BY <1>3 DEF ListenerReturns, Kept
  <2>3. Goes(f, g) /\ Records(e, f, g)
    BY <1>3, <2>1, <2>2 DEF Goes, GoesUp, Turns, Records
  <2> QED
    BY <1>1, <1>3, <2>1, <2>2, <2>3, MovesBy
<1>4. ASSUME ListenerReturns(e, i), Becomes(e, i, Panics(f)), UNCHANGED succeeded
      PROVE  Moves(e, i)
  <2> DEFINE g == Panics(f)
  <2>1. /\ g \in Frame /\ g.base = f.base /\ g.at = f.at + 1 /\ g.dir = "up"
        /\ g.outcome = "panic" /\ g.source = f.at /\ g.child = f.child
    BY <1>1, PanicsFacts
  <2>2. f.dir = "running" /\ UNCHANGED <<chain, crashed, result, historyVars>>
    BY <1>4 DEF ListenerReturns, Kept, historyVars
  <2>3. Goes(f, g) /\ Records(e, f, g)
    BY <2>1, <2>2 DEF Goes, GoesUp, StartsPanic, Records, historyVars
  <2> QED
    BY <1>1, <1>4, <2>1, <2>2, <2>3, MovesBy
<1> QED
  BY <1>2, <1>3, <1>4 DEF ListenerReturns

LEMMA RecoverMoves ==
  ASSUME Shape, NEW e \in Events, NEW i, RecoverReturns(e, i)
  PROVE  Moves(e, i)
<1> DEFINE f == go[e][i]
           r == IF f.outcome = "panic" THEN "error" ELSE f.outcome
           g == Answers(f, r)
<1>1. /\ i \in DOMAIN go[e] /\ f \in Frame /\ InLayers(f) /\ f.at >= 1
      /\ f.dir = "up" /\ chain[f.at] \in Recoveries
  BY AtFacts DEF RecoverReturns, AtRecovery
<1>2. r \in Outcomes
  BY <1>1 DEF Frame, Outcomes
<1>3. Becomes(e, i, g) /\ UNCHANGED <<chain, crashed, result, historyVars>>
  BY DEF RecoverReturns, Quiet, Kept
<1>4. r # "panic" /\ (r = f.outcome \/ (f.outcome = "panic" /\ r = "error"))
  OBVIOUS
<1> HIDE DEF r
<1>5. /\ g \in Frame /\ g.base = f.base /\ g.at = f.at + 1 /\ g.dir = "up"
      /\ g.outcome = r /\ g.source = f.source /\ g.child = f.child
  BY <1>1, <1>2, AnswersFacts
<1> HIDE DEF g
<1>6. Passes(f, g) \/ Recovers(f, g)
  BY <1>1, <1>4, <1>5 DEF Passes, Recovers
<1>7. Goes(f, g) /\ Records(e, f, g)
  BY <1>3, <1>4, <1>5, <1>6 DEF Goes, GoesUp, Records, historyVars
<1> QED
  BY <1>1, <1>3, <1>5, <1>7, MovesBy

LEMMA UserCodeMoves ==
  ASSUME Shape, NEW e \in Events, NEW i, UserCodePanics(e, i)
  PROVE  Moves(e, i)
<1> DEFINE f == go[e][i]
           g == Panics(f)
<1>1. /\ i \in DOMAIN go[e] /\ f \in Frame /\ InLayers(f)
      /\ \/ f.dir = "down" /\ chain[f.at] \in {"observe", "filter"}
         \/ f.dir = "up" /\ chain[f.at] = "observe" /\ f.outcome # "panic"
         \/ f.dir = "up" /\ chain[f.at] = "handle" /\ f.outcome = "panic"
  BY AtFacts DEF UserCodePanics
<1>2. /\ g \in Frame /\ g.base = f.base /\ g.at = f.at + 1 /\ g.dir = "up"
      /\ g.outcome = "panic" /\ g.source = f.at /\ g.child = f.child
  BY <1>1, PanicsFacts
<1>3. Becomes(e, i, g)
      /\ UNCHANGED <<chain, crashed, result, historyVars>>
  BY DEF UserCodePanics, Quiet, Kept
<1> HIDE DEF g
<1>4. Goes(f, g) /\ Records(e, f, g)
  BY <1>1, <1>2, <1>3 DEF Goes, GoesUp, StartsPanic, Records, historyVars
<1> QED
  BY <1>1, <1>2, <1>3, <1>4, MovesBy

LEMMA RetryMoves ==
  ASSUME Shape, NEW e \in Events, NEW i, RetryCalls(e, i) \/ RetryAgain(e, i)
  PROVE  Moves(e, i)
<1> DEFINE f == go[e][i]
<1>1. /\ i \in DOMAIN go[e] /\ f \in Frame /\ InLayers(f) /\ f.at >= 1
      /\ chain[f.at] = "retry"
      /\ f.dir = "down" \/ (f.dir = "up" /\ f.outcome = "error")
  <2>1. CASE RetryCalls(e, i)
    BY <2>1, AtFacts DEF RetryCalls
  <2>2. CASE RetryAgain(e, i)
    BY <2>2, AtFacts DEF RetryAgain
  <2> QED
    BY <2>1, <2>2
<1>2. UNCHANGED <<chain, crashed, result, historyVars>>
  BY DEF RetryCalls, RetryAgain, Quiet, Kept
<1>3. \E n \in Nat : Becomes(e, i, Descends(Attempt(f, n)))
  <2>1. f.attempts[f.at] + 1 \in Nat /\ 1 \in Nat
    BY <1>1 DEF Frame, InLayers
  <2> QED
    BY <2>1 DEF RetryCalls, RetryAgain
<1>4. PICK n \in Nat : Becomes(e, i, Descends(Attempt(f, n)))
  BY <1>3
<1> DEFINE h == Attempt(f, n)
           g == Descends(h)
<1>5. /\ h \in Frame /\ h.base = f.base /\ h.at = f.at /\ h.outcome = f.outcome
      /\ h.source = f.source /\ h.child = f.child
  BY <1>1, AttemptFacts
<1> HIDE DEF h
<1>6. /\ g \in Frame /\ g.base = f.base /\ g.at = f.at - 1 /\ g.dir = "down"
      /\ g.outcome = f.outcome /\ g.source = f.source /\ g.child = f.child
  BY <1>1, <1>5, DescendsFacts
<1>7. Becomes(e, i, g)
  BY <1>4 DEF h
<1> HIDE DEF g
<1>8. Goes(f, g) /\ Records(e, f, g)
  BY <1>1, <1>2, <1>6 DEF Goes, GoesDown, GoesAgain, Records, historyVars
<1> QED
  BY <1>1, <1>2, <1>6, <1>7, <1>8, MovesBy

\* Steps that move one goroutine and start or end none.
LayerSteps(e, i) ==
  \/ ListenerCalled(e, i)
  \/ RecoverCalls(e, i) \/ RecoverReturns(e, i)
  \/ ObserveCalls(e, i) \/ ObserveReturns(e, i)
  \/ FilterPasses(e, i) \/ FilterDrops(e, i) \/ FilterReturns(e, i)
  \/ RetryCalls(e, i) \/ RetryAgain(e, i) \/ RetryReturns(e, i)
  \/ LimitPasses(e, i) \/ LimitDrops(e, i) \/ LimitReturns(e, i)
  \/ BreakerPasses(e, i) \/ BreakerRejects(e, i)
  \/ BreakerSuccess(e, i) \/ BreakerFailure(e, i) \/ BreakerUnwinds(e, i)
  \/ ListenerReturns(e, i) \/ UserCodePanics(e, i)

LEMMA LayerMoves ==
  ASSUME Shape, NEW e \in Events, NEW i, LayerSteps(e, i)
  PROVE  Moves(e, i)
<1>1. CASE RecoverCalls(e, i) \/ ObserveCalls(e, i) \/ FilterPasses(e, i)
  BY <1>1, DownMoves DEF RecoverCalls, AtRecovery, ObserveCalls, FilterPasses, Quiet, Kept
<1>2. CASE LimitPasses(e, i) \/ BreakerPasses(e, i)
  BY <1>2, DownMoves DEF LimitPasses, BreakerPasses
<1>3. CASE ObserveReturns(e, i) \/ FilterReturns(e, i) \/ RetryReturns(e, i) \/ LimitReturns(e, i)
  BY <1>3, UpMoves
     DEF Recoveries, ObserveReturns, FilterReturns, RetryReturns, LimitReturns, Quiet, Kept
<1>4. CASE BreakerSuccess(e, i) \/ BreakerFailure(e, i) \/ BreakerUnwinds(e, i)
  <2>1. /\ At(e, i, "breaker", "up") /\ Becomes(e, i, Answers(go[e][i], go[e][i].outcome))
        /\ UNCHANGED <<chain, crashed, result, historyVars>>
    BY <1>4 DEF BreakerSuccess, BreakerFailure, BreakerUnwinds, Quiet, Kept
  <2> QED
    BY <2>1, UpMoves DEF Recoveries
<1>5. CASE FilterDrops(e, i) \/ LimitDrops(e, i)
  BY <1>5, TurnMoves DEF FilterDrops, LimitDrops, Kept
<1>6. CASE BreakerRejects(e, i)
  BY <1>6, TurnMoves DEF BreakerRejects, Quiet, Kept, historyVars
<1> QED
  BY <1>1, <1>2, <1>3, <1>4, <1>5, <1>6, ListenerMoves, RecoverMoves, UserCodeMoves, RetryMoves
     DEF LayerSteps

stackVars == <<chain, result, go, crashed, historyVars>>

\* The steps of which the proofs below are made.
LEMMA StepCases ==
  ASSUME Shape, [Next]_vars
  PROVE  \/ \E e \in Events : \E i \in Goroutines : Moves(e, i)
         \/ \E e \in Events : Deliver(e) \/ Answered(e)
         \/ \E e \in Events : \E i \in Goroutines :
               \/ TimeoutCalls(e, i) \/ TimeoutReceives(e, i) \/ TimeoutFires(e, i)
               \/ AsyncCalls(e, i) \/ Sent(e, i) \/ Crash(e, i)
         \/ UNCHANGED stackVars
<1>1. CASE \E e \in Events, i \in Goroutines : Step(e, i) \/ ListenerReturns(e, i) \/ UserCodePanics(e, i)
  BY <1>1, LayerMoves DEF Step, LayerSteps
<1>2. CASE Tick \/ UNCHANGED vars
  BY <1>2 DEF Tick, vars, stackVars, historyVars
<1> QED
  BY <1>1, <1>2 DEF Next

LEMMA ChainStays ==
  ASSUME Shape, [Next]_vars
  PROVE  UNCHANGED chain
<1>1. \A e \in Events : \A i \in Goroutines : Moves(e, i) => UNCHANGED chain
  BY DEF Moves
<1>2. \A e \in Events : Deliver(e) \/ Answered(e) => UNCHANGED chain
  BY DEF Deliver, Answered, Kept
<1>3. ASSUME NEW e \in Events, NEW i \in Goroutines,
             \/ TimeoutCalls(e, i) \/ TimeoutReceives(e, i) \/ TimeoutFires(e, i)
             \/ AsyncCalls(e, i) \/ Sent(e, i) \/ Crash(e, i)
      PROVE  UNCHANGED chain
  BY <1>3 DEF TimeoutCalls, TimeoutReceives, TimeoutFires, AsyncCalls, Sent, Crash, Quiet, Kept
<1> QED
  BY <1>1, <1>2, <1>3, StepCases DEF stackVars
-----------------------------------------------------------------------------
(* Steps that start a goroutine or end one. *)

LEMMA GoFacts ==
  ASSUME Shape, NEW e \in Events, NEW fs, fs = [j \in DOMAIN fs |-> fs[j]],
         DOMAIN fs \subseteq Goroutines, \A j \in DOMAIN fs : fs[j] \in Frame,
         go' = [go EXCEPT ![e] = fs], UNCHANGED chain
  PROVE  Shape' /\ go'[e] = fs /\ \A d \in Events \ {e} : go'[d] = go[d]
<1>1. go'[e] = fs /\ \A d \in Events \ {e} : go'[d] = go[d]
  BY DEF Shape
<1>2. DOMAIN go' = Events /\ go' = [d \in Events |-> go'[d]]
  BY DEF Shape
<1>3. Frame' = Frame
  BY DEF Frame
<1> QED
  BY <1>1, <1>2, <1>3 DEF Shape

LEMMA DeliverFacts ==
  ASSUME Shape, NEW e \in Events, Deliver(e)
  PROVE  /\ Shape' /\ \A d \in Events \ {e} : go'[d] = go[d]
         /\ DOMAIN go[e] = {} /\ DOMAIN go'[e] = {0} /\ go'[e][0] = Start(Len(chain))
         /\ result' = [result EXCEPT ![e] = "running"]
         /\ succeeded' = succeeded \ {e} /\ skipped' = skipped \ {e}
         /\ UNCHANGED <<chain, crashed>>
<1> DEFINE fs == [j \in {0} |-> Start(Len(chain))]
<1>1. chain \in Seq(Kinds) /\ Len(chain) \in 0 .. Len(chain)
  BY ChainFacts DEF Shape
<1>2. \A j \in DOMAIN fs : fs[j] \in Frame
  BY <1>1, StartFacts
<1>3. fs = [j \in DOMAIN fs |-> fs[j]] /\ DOMAIN fs = {0} /\ fs[0] = Start(Len(chain))
  OBVIOUS
<1>4. 0 \in Goroutines
  BY NumbersAssumption DEF Goroutines
<1>5. go' = [go EXCEPT ![e] = fs] /\ UNCHANGED chain
  BY DEF Deliver, Kept
<1>6. DOMAIN go[e] = {}
  <2>1. go[e] = << >>
    BY DEF Deliver
  <2> QED
    BY <2>1
<1> HIDE DEF fs
<1>7. Shape' /\ go'[e] = fs /\ \A d \in Events \ {e} : go'[d] = go[d]
  BY <1>2, <1>3, <1>4, <1>5, GoFacts
<1>8. /\ result' = [result EXCEPT ![e] = "running"]
      /\ succeeded' = succeeded \ {e} /\ skipped' = skipped \ {e}
      /\ UNCHANGED <<chain, crashed>>
  BY DEF Deliver, Kept
<1> QED
  BY <1>3, <1>6, <1>7, <1>8

LEMMA SpawnsFacts ==
  ASSUME Shape, NEW e \in Events, NEW i \in DOMAIN go[e], InLayers(go[e][i]), go[e][i].at >= 1,
         NEW g \in Frame, Spawns(e, i, g), UNCHANGED chain
  PROVE  /\ FreeSlot(e) \in 1 .. MaxSpawned /\ FreeSlot(e) \notin DOMAIN go[e]
         /\ DOMAIN go'[e] = DOMAIN go[e] \cup {FreeSlot(e)}
         /\ go'[e][i] = g /\ go'[e][FreeSlot(e)] = Start(go[e][i].at - 1)
         /\ \A j \in DOMAIN go[e] \ {i} : go'[e][j] = go[e][j]
         /\ Shape' /\ \A d \in Events \ {e} : go'[d] = go[d]
<1> DEFINE c == FreeSlot(e)
           fs == [j \in DOMAIN go[e] \cup {c} |->
                    IF j = i THEN g ELSE IF j = c THEN Start(go[e][i].at - 1) ELSE go[e][j]]
<1>1. c \in 1 .. MaxSpawned /\ c \notin DOMAIN go[e]
  <2>1. \E j \in 1 .. MaxSpawned : j \notin DOMAIN go[e]
    BY DEF Spawns
  <2> QED
    BY <2>1 DEF FreeSlot
<1>2. go' = [go EXCEPT ![e] = fs]
  BY DEF Spawns
<1> HIDE DEF c
<1>3. /\ DOMAIN fs = DOMAIN go[e] \cup {c} /\ fs[i] = g
      /\ fs[c] = Start(go[e][i].at - 1)
      /\ \A j \in DOMAIN go[e] \ {i} : fs[j] = go[e][j]
      /\ fs = [j \in DOMAIN fs |-> fs[j]]
  BY <1>1
<1> HIDE DEF fs
<1>4. go[e][i].at - 1 \in 0 .. Len(chain) /\ chain \in Seq(Kinds)
  BY ChainFacts DEF Shape, InLayers
<1>5. Start(go[e][i].at - 1) \in Frame
  BY <1>4, StartFacts
<1>6. \A j \in DOMAIN fs : fs[j] \in Frame
  BY <1>3, <1>5 DEF Shape
<1>7. DOMAIN fs \subseteq Goroutines
  BY <1>1, <1>3 DEF Shape, Goroutines
<1>8. Shape' /\ go'[e] = fs /\ \A d \in Events \ {e} : go'[d] = go[d]
  BY <1>2, <1>3, <1>6, <1>7, GoFacts
<1> QED
  BY <1>1, <1>3, <1>8 DEF c

LEMMA TimeoutCallsFacts ==
  ASSUME Shape, NEW e \in Events, NEW i, TimeoutCalls(e, i)
  PROVE  /\ i \in DOMAIN go[e] /\ go[e][i].dir = "down" /\ InLayers(go[e][i])
         /\ chain[go[e][i].at] = "timeout" /\ go[e][i].at >= 1
         /\ FreeSlot(e) \in 1 .. MaxSpawned /\ FreeSlot(e) \notin DOMAIN go[e]
         /\ DOMAIN go'[e] = DOMAIN go[e] \cup {FreeSlot(e)}
         /\ go'[e][i].dir = "waiting" /\ go'[e][i].child = FreeSlot(e)
         /\ go'[e][i].base = go[e][i].base /\ go'[e][i].at = go[e][i].at
         /\ go'[e][i].outcome = go[e][i].outcome /\ go'[e][i].source = go[e][i].source
         /\ go'[e][FreeSlot(e)] = Start(go[e][i].at - 1)
         /\ \A j \in DOMAIN go[e] \ {i} : go'[e][j] = go[e][j]
         /\ Shape' /\ \A d \in Events \ {e} : go'[d] = go[d]
         /\ UNCHANGED <<chain, crashed, result, historyVars>>
<1> DEFINE f == go[e][i]
           c == FreeSlot(e)
           h == [f EXCEPT !.dir = "waiting"]
           g == [h EXCEPT !.child = c]
<1>1. /\ i \in DOMAIN go[e] /\ f \in Frame /\ InLayers(f) /\ f.at >= 1
      /\ f.dir = "down" /\ chain[f.at] = "timeout"
  BY AtFacts DEF TimeoutCalls
<1>2. Spawns(e, i, g)
  BY <1>1 DEF TimeoutCalls, Frame
<1>3. UNCHANGED <<chain, crashed, result, historyVars>>
  BY DEF TimeoutCalls, Quiet, Kept
<1>4. c \in Goroutines
  <2>1. \E j \in 1 .. MaxSpawned : j \notin DOMAIN go[e]
    BY <1>2 DEF Spawns
  <2>2. c \in 1 .. MaxSpawned
    BY <2>1 DEF FreeSlot
  <2> QED
    BY <2>2 DEF Goroutines
<1> HIDE DEF c
<1>5. /\ h \in Frame /\ h.dir = "waiting" /\ h.base = f.base /\ h.at = f.at
      /\ h.outcome = f.outcome /\ h.source = f.source
  BY <1>1 DEF Frame, Dirs
<1> HIDE DEF h
<1>6. /\ g \in Frame /\ g.dir = "waiting" /\ g.base = f.base /\ g.at = f.at
      /\ g.outcome = f.outcome /\ g.source = f.source /\ g.child = c
  BY <1>4, <1>5 DEF Frame
<1> HIDE DEF g
<1>7. /\ FreeSlot(e) \in 1 .. MaxSpawned /\ FreeSlot(e) \notin DOMAIN go[e]
      /\ DOMAIN go'[e] = DOMAIN go[e] \cup {FreeSlot(e)}
      /\ go'[e][i] = g /\ go'[e][FreeSlot(e)] = Start(f.at - 1)
      /\ \A j \in DOMAIN go[e] \ {i} : go'[e][j] = go[e][j]
      /\ Shape' /\ \A d \in Events \ {e} : go'[d] = go[d]
  BY <1>1, <1>2, <1>3, <1>6, SpawnsFacts
<1> QED
  BY <1>1, <1>3, <1>6, <1>7 DEF c

LEMMA AsyncCallsFacts ==
  ASSUME Shape, NEW e \in Events, NEW i, AsyncCalls(e, i)
  PROVE  /\ i \in DOMAIN go[e] /\ go[e][i].dir = "down" /\ InLayers(go[e][i])
         /\ chain[go[e][i].at] = "async" /\ go[e][i].at >= 1
         /\ FreeSlot(e) \in 1 .. MaxSpawned /\ FreeSlot(e) \notin DOMAIN go[e]
         /\ DOMAIN go'[e] = DOMAIN go[e] \cup {FreeSlot(e)}
         /\ go'[e][i].dir = "up" /\ go'[e][i].child = go[e][i].child
         /\ go'[e][i].base = go[e][i].base /\ go'[e][i].at = go[e][i].at + 1
         /\ go'[e][i].outcome = "nil" /\ go'[e][i].source = go[e][i].source
         /\ go'[e][FreeSlot(e)] = Start(go[e][i].at - 1)
         /\ \A j \in DOMAIN go[e] \ {i} : go'[e][j] = go[e][j]
         /\ Shape' /\ \A d \in Events \ {e} : go'[d] = go[d]
         /\ skipped' = skipped \cup {e} /\ UNCHANGED <<chain, crashed, result, succeeded>>
<1> DEFINE f == go[e][i]
           g == Answers(f, "nil")
<1>1. /\ i \in DOMAIN go[e] /\ f \in Frame /\ InLayers(f) /\ f.at >= 1
      /\ f.dir = "down" /\ chain[f.at] = "async"
  BY AtFacts DEF AsyncCalls
<1>2. /\ Spawns(e, i, g)
      /\ skipped' = skipped \cup {e} /\ UNCHANGED <<chain, crashed, result, succeeded>>
  BY DEF AsyncCalls, Kept
<1>3. /\ g \in Frame /\ g.base = f.base /\ g.at = f.at + 1 /\ g.dir = "up"
      /\ g.outcome = "nil" /\ g.source = f.source /\ g.child = f.child
  BY <1>1, AnswersFacts DEF Outcomes
<1> HIDE DEF g
<1>4. /\ FreeSlot(e) \in 1 .. MaxSpawned /\ FreeSlot(e) \notin DOMAIN go[e]
      /\ DOMAIN go'[e] = DOMAIN go[e] \cup {FreeSlot(e)}
      /\ go'[e][i] = g /\ go'[e][FreeSlot(e)] = Start(f.at - 1)
      /\ \A j \in DOMAIN go[e] \ {i} : go'[e][j] = go[e][j]
      /\ Shape' /\ \A d \in Events \ {e} : go'[d] = go[d]
  BY <1>1, <1>2, <1>3, SpawnsFacts
<1> QED
  BY <1>1, <1>2, <1>3, <1>4

\* The answer of a timeout layer, whoever gives it.
LEMMA UnwaitedFacts ==
  ASSUME Shape, NEW e \in Events, NEW i \in DOMAIN go[e], NEW r \in Outcomes
  PROVE  LET f == go[e][i]
             g == Answers(Unwaited(e, i), r) IN
         /\ g \in Frame /\ g.base = f.base /\ g.at = f.at + 1 /\ g.dir = "up"
         /\ g.outcome = r /\ g.source = f.source /\ g.child = 0
<1> DEFINE f == go[e][i]
           h == Unwaited(e, i)
<1>1. f \in Frame /\ 0 \in Goroutines
  BY NumbersAssumption DEF Shape, Goroutines
<1>2. /\ h \in Frame /\ h.base = f.base /\ h.at = f.at /\ h.source = f.source /\ h.child = 0
  BY <1>1 DEF Unwaited, Frame
<1> HIDE DEF h
<1>3. LET g == Answers(h, r) IN
      /\ g \in Frame /\ g.base = f.base /\ g.at = f.at + 1 /\ g.dir = "up"
      /\ g.outcome = r /\ g.source = f.source /\ g.child = 0
  BY <1>2, AnswersFacts
<1> QED
  BY <1>3 DEF h

LEMMA ExceptFacts ==
  ASSUME NEW rest, NEW i \in DOMAIN rest, NEW g, NEW fs, fs = [rest EXCEPT ![i] = g]
  PROVE  /\ DOMAIN fs = DOMAIN rest /\ fs[i] = g
         /\ \A j \in DOMAIN rest \ {i} : fs[j] = rest[j]
         /\ fs = [j \in DOMAIN fs |-> fs[j]]
  OBVIOUS

\* What is left after a timeout layer has given its answer, its own or the
\* other goroutine's.
TimeoutEnds(e, i) ==
  LET f == go[e][i]
      c == f.child IN
  /\ i \in DOMAIN go[e] /\ f.dir = "waiting" /\ InLayers(f)
  /\ chain[f.at] = "timeout" /\ f.at >= 1
  /\ DOMAIN go'[e] = IF go[e][c].dir = "done" THEN DOMAIN go[e] \ {c} ELSE DOMAIN go[e]
  /\ go'[e][i].dir = "up" /\ go'[e][i].child = 0
  /\ go'[e][i].base = f.base /\ go'[e][i].at = f.at + 1
  /\ go'[e][i].source = f.source
  /\ \/ go'[e][i].outcome = "error"
     \/ go[e][c].dir = "done" /\ go'[e][i].outcome = go[e][c].outcome
  /\ \A j \in DOMAIN go'[e] \ {i} : j \in DOMAIN go[e] /\ go'[e][j] = go[e][j]
  /\ Shape' /\ \A d \in Events \ {e} : go'[d] = go[d]
  /\ UNCHANGED <<chain, crashed, result, historyVars>>

LEMMA TimeoutEndsFacts ==
  ASSUME Shape, NEW e \in Events, NEW i, TimeoutReceives(e, i) \/ TimeoutFires(e, i),
         go[e][i].child \in DOMAIN go[e]
  PROVE  TimeoutEnds(e, i)
<1> DEFINE f == go[e][i]
           c == f.child
           rest == IF go[e][c].dir = "done" THEN Without(go[e], c) ELSE go[e]
<1>1. /\ i \in DOMAIN go[e] /\ f.dir = "waiting" /\ InLayers(f)
      /\ chain[f.at] = "timeout" /\ f.at >= 1
  BY AtFacts DEF TimeoutReceives, TimeoutFires
<1>2. PICK r \in Outcomes :
        /\ r = "error" \/ (go[e][c].dir = "done" /\ r = go[e][c].outcome)
        /\ go' = [go EXCEPT ![e] = [rest EXCEPT ![i] = Answers(Unwaited(e, i), r)]]
  <2>1. "error" \in Outcomes /\ go[e][c].outcome \in Outcomes
    BY DEF Shape, Frame, Outcomes
  <2>2. CASE TimeoutReceives(e, i)
    BY <2>1, <2>2 DEF TimeoutReceives
  <2>3. CASE TimeoutFires(e, i)
    BY <2>1, <2>3 DEF TimeoutFires
  <2> QED
    BY <2>2, <2>3
<1>3. UNCHANGED <<chain, crashed, result, historyVars>>
  BY DEF TimeoutReceives, TimeoutFires, Quiet, Kept
<1> DEFINE g == Answers(Unwaited(e, i), r)
<1>4. /\ g \in Frame /\ g.base = f.base /\ g.at = f.at + 1 /\ g.dir = "up"
      /\ g.outcome = r /\ g.source = f.source /\ g.child = 0
  BY <1>1, UnwaitedFacts
<1>5. /\ rest = [j \in DOMAIN rest |-> rest[j]]
      /\ DOMAIN rest = IF go[e][c].dir = "done" THEN DOMAIN go[e] \ {c} ELSE DOMAIN go[e]
      /\ \A j \in DOMAIN rest : rest[j] = go[e][j]
  <2>1. CASE go[e][c].dir = "done"
    <3>1. rest = Without(go[e], c)
      BY <2>1
    <3> DEFINE w == Without(go[e], c)
    <3>2. /\ DOMAIN w = DOMAIN go[e] \ {c} /\ w = [j \in DOMAIN w |-> w[j]]
          /\ \A j \in DOMAIN go[e] \ {c} : w[j] = go[e][j]
      BY WithoutFacts
    <3> HIDE DEF rest, w
    <3>3. rest = w
      BY <3>1 DEF w
    <3> QED
      BY <2>1, <3>2, <3>3
  <2>2. CASE go[e][c].dir # "done"
    <3>1. rest = go[e]
      BY <2>2
    <3>2. go[e] = [j \in DOMAIN go[e] |-> go[e][j]]
      BY DEF Shape
    <3> HIDE DEF rest
    <3> QED
      BY <2>2, <3>1, <3>2
  <2> QED
    BY <2>1, <2>2
<1> DEFINE fs == [rest EXCEPT ![i] = g]
<1>6. go' = [go EXCEPT ![e] = fs]
  BY <1>2
<1> HIDE DEF g, rest
<1>7. i \in DOMAIN rest /\ DOMAIN rest \subseteq DOMAIN go[e]
  BY <1>1, <1>5
<1>8. /\ DOMAIN fs = DOMAIN rest /\ fs[i] = g
      /\ \A j \in DOMAIN rest \ {i} : fs[j] = rest[j]
      /\ fs = [j \in DOMAIN fs |-> fs[j]]
  BY <1>7, ExceptFacts
<1> HIDE DEF fs
<1>9. DOMAIN fs \subseteq Goroutines /\ \A j \in DOMAIN fs : fs[j] \in Frame
  BY <1>4, <1>5, <1>7, <1>8 DEF Shape
<1>10. Shape' /\ go'[e] = fs /\ \A d \in Events \ {e} : go'[d] = go[d]
  BY <1>3, <1>6, <1>8, <1>9, GoFacts
<1>11. /\ DOMAIN go'[e] = DOMAIN rest /\ go'[e][i] = g
       /\ \A j \in DOMAIN go'[e] \ {i} : j \in DOMAIN go[e] /\ go'[e][j] = go[e][j]
  BY <1>5, <1>7, <1>8, <1>10
<1> QED
  BY <1>1, <1>2, <1>3, <1>4, <1>5, <1>10, <1>11 DEF TimeoutEnds

Awaited(e, i) ==
  \E p \in DOMAIN go[e] : go[e][p].dir = "waiting" /\ go[e][p].child = i

\* What a send does: the answer is kept if somebody waits for it.
SentBy(e, i) ==
  /\ i \in DOMAIN go[e] /\ i # 0 /\ go[e][i].dir = "up" /\ go[e][i].at > go[e][i].base
  /\ go[e][i].outcome # "panic"
  /\ DOMAIN go'[e] = IF Awaited(e, i) THEN DOMAIN go[e] ELSE DOMAIN go[e] \ {i}
  /\ Awaited(e, i) =>
       /\ go'[e][i].dir = "done" /\ go'[e][i].child = go[e][i].child
       /\ go'[e][i].base = go[e][i].base /\ go'[e][i].at = go[e][i].at
       /\ go'[e][i].outcome = go[e][i].outcome /\ go'[e][i].source = go[e][i].source
  /\ \A j \in DOMAIN go[e] \ {i} : go'[e][j] = go[e][j]
  /\ Shape' /\ \A d \in Events \ {e} : go'[d] = go[d]
  /\ UNCHANGED <<chain, crashed, result, historyVars>>

LEMMA SentFacts ==
  ASSUME Shape, NEW e \in Events, NEW i \in Goroutines, Sent(e, i)
  PROVE  SentBy(e, i)
<1> DEFINE f == go[e][i]
           g == [f EXCEPT !.dir = "done"]
<1>1. /\ i \in DOMAIN go[e] /\ i # 0 /\ f.dir = "up" /\ f.at > f.base /\ f.outcome # "panic"
  BY DEF Sent, AtEnd
<1>2. UNCHANGED <<chain, crashed, result, historyVars>>
  BY DEF Sent, Quiet, Kept
<1>3. f \in Frame
  BY <1>1 DEF Shape
<1>4. /\ g \in Frame /\ g.dir = "done" /\ g.child = f.child /\ g.base = f.base /\ g.at = f.at
      /\ g.outcome = f.outcome /\ g.source = f.source
  BY <1>3 DEF Frame, Dirs
<1>5. CASE Awaited(e, i)
  <2>1. go' = [go EXCEPT ![e] = [go[e] EXCEPT ![i] = g]]
    BY <1>5 DEF Sent, Awaited
  <2> DEFINE fs == [go[e] EXCEPT ![i] = g]
  <2> HIDE DEF g
  <2>3. /\ DOMAIN fs = DOMAIN go[e] /\ fs[i] = g
        /\ \A j \in DOMAIN go[e] \ {i} : fs[j] = go[e][j]
        /\ fs = [j \in DOMAIN fs |-> fs[j]]
    BY <1>1, ExceptFacts
  <2>4. go' = [go EXCEPT ![e] = fs]
    BY <2>1
  <2> HIDE DEF fs
  <2>5. DOMAIN fs \subseteq Goroutines /\ \A j \in DOMAIN fs : fs[j] \in Frame
    BY <1>4, <2>3 DEF Shape
  <2>6. Shape' /\ go'[e] = fs /\ \A d \in Events \ {e} : go'[d] = go[d]
    BY <1>2, <2>3, <2>4, <2>5, GoFacts
  <2> QED
    BY <1>1, <1>2, <1>4, <1>5, <2>3, <2>6 DEF SentBy
<1>6. CASE ~Awaited(e, i)
  <2> DEFINE fs == Without(go[e], i)
  <2>1. go' = [go EXCEPT ![e] = fs]
    BY <1>6 DEF Sent, Awaited
  <2>2. /\ DOMAIN fs = DOMAIN go[e] \ {i} /\ fs = [j \in DOMAIN fs |-> fs[j]]
        /\ \A j \in DOMAIN go[e] \ {i} : fs[j] = go[e][j]
    BY WithoutFacts
  <2> HIDE DEF fs
  <2>3. DOMAIN fs \subseteq Goroutines /\ \A j \in DOMAIN fs : fs[j] \in Frame
    BY <2>2 DEF Shape
  <2>4. Shape' /\ go'[e] = fs /\ \A d \in Events \ {e} : go'[d] = go[d]
    BY <1>2, <2>1, <2>2, <2>3, GoFacts
  <2> QED
    BY <1>1, <1>2, <1>6, <2>2, <2>4 DEF SentBy
<1> QED
  BY <1>5, <1>6

LEMMA AnsweredFacts ==
  ASSUME Shape, NEW e \in Events, Answered(e)
  PROVE  /\ 0 \in DOMAIN go[e] /\ go[e][0].dir = "up" /\ go[e][0].at > go[e][0].base
         /\ go[e][0].outcome # "panic"
         /\ result' = [result EXCEPT ![e] = go[e][0].outcome]
         /\ DOMAIN go'[e] = DOMAIN go[e] \ {0}
         /\ \A j \in DOMAIN go[e] \ {0} : go'[e][j] = go[e][j]
         /\ Shape' /\ \A d \in Events \ {e} : go'[d] = go[d]
         /\ UNCHANGED <<chain, crashed, historyVars>>
<1> DEFINE fs == Without(go[e], 0)
<1>1. go' = [go EXCEPT ![e] = fs] /\ UNCHANGED <<chain, crashed, historyVars>>
  BY DEF Answered, Kept
<1>2. /\ DOMAIN fs = DOMAIN go[e] \ {0} /\ fs = [j \in DOMAIN fs |-> fs[j]]
      /\ \A j \in DOMAIN go[e] \ {0} : fs[j] = go[e][j]
  BY WithoutFacts
<1> HIDE DEF fs
<1>3. DOMAIN fs \subseteq Goroutines /\ \A j \in DOMAIN fs : fs[j] \in Frame
  BY <1>2 DEF Shape
<1>4. Shape' /\ go'[e] = fs /\ \A d \in Events \ {e} : go'[d] = go[d]
  BY <1>1, <1>2, <1>3, GoFacts
<1> QED
  BY <1>1, <1>2, <1>4 DEF Answered, AtEnd

LEMMA CrashFacts ==
  ASSUME Shape, NEW e \in Events, NEW i, Crash(e, i)
  PROVE  /\ i \in DOMAIN go[e] /\ go[e][i].dir = "up" /\ go[e][i].at > go[e][i].base
         /\ go[e][i].outcome = "panic" /\ crashed' = go[e][i].source
         /\ UNCHANGED <<chain, result, go, historyVars>>
  BY DEF Crash, AtEnd
-----------------------------------------------------------------------------
(* Stacks: where a goroutine can stand, and who waits for whom. *)

FrameOK(f) ==
  /\ \/ f.base = Len(chain)
     \/ f.base + 1 \in DOMAIN chain /\ chain[f.base + 1] \in {"timeout", "async"}
  /\ f.at <= f.base + 1
  /\ f.dir = "running" => f.at = 0
  /\ f.dir = "waiting" => InLayers(f)
  /\ f.dir = "down" => f.at <= f.base
  /\ f.dir = "up" => f.at >= 1
  /\ f.dir \in {"up", "done"} => f.outcome # "none"
  /\ f.dir = "waiting" <=> f.child # 0
  /\ f.outcome = "panic" =>
       /\ f.dir = "up" /\ f.source \in 0 .. f.at - 1
       /\ \A k \in DOMAIN chain : f.source < k /\ k < f.at => chain[k] \notin Recoveries

FramesOK == \A e \in Events : \A i \in DOMAIN go[e] : FrameOK(go[e][i])

\* A goroutine is waited for by one other at most, and a result in a channel
\* has a reader.
Waiting ==
  \A e \in Events :
    /\ \A p \in DOMAIN go[e] : go[e][p].child # 0 => go[e][p].child \in DOMAIN go[e]
    /\ \A p, q \in DOMAIN go[e] :
         go[e][p].child = go[e][q].child /\ go[e][p].child # 0 => p = q
    /\ \A c \in DOMAIN go[e] :
         go[e][c].dir = "done" => \E p \in DOMAIN go[e] : go[e][p].child = c /\ c # 0

LEMMA GoesFrameOK ==
  ASSUME Shape, NEW f \in Frame, NEW g \in Frame, FrameOK(f), Goes(f, g),
         g.base = f.base, g.child = f.child
  PROVE  FrameOK(g) /\ f.dir \in {"down", "running", "up"} /\ f.child = 0 /\ g.dir # "done"
<1>1. /\ Len(chain) \in Nat /\ DOMAIN chain = 1 .. Len(chain)
      /\ f.at \in Nat /\ f.base \in 0 .. Len(chain)
      /\ g.at \in Nat
  BY ChainFacts DEF Shape, Frame
<1>2. CASE GoesDown(f, g) \/ GoesAgain(f, g)
  BY <1>1, <1>2 DEF GoesDown, GoesAgain, FrameOK, InLayers
<1>3. CASE IsCalled(f, g)
  BY <1>1, <1>3 DEF IsCalled, FrameOK, InLayers
<1>4. CASE GoesUp(f, g)
  <2>1. g.dir = "up" /\ g.at = f.at + 1
    BY <1>4 DEF GoesUp
  <2>2. CASE Passes(f, g)
    <3>1. g.outcome = "panic" =>
            \A k \in DOMAIN chain : g.source < k /\ k < g.at => chain[k] \notin Recoveries
      BY <1>1, <2>1, <2>2 DEF Passes, FrameOK, InLayers
    <3>2. g.outcome = "panic" => g.source \in 0 .. g.at - 1
      BY <1>1, <2>1, <2>2 DEF Passes, FrameOK
    <3> QED
      BY <1>1, <2>1, <2>2, <3>1, <3>2 DEF Passes, FrameOK, InLayers
  <2>3. CASE Recovers(f, g)
    BY <1>1, <2>1, <2>3 DEF Recovers, FrameOK, InLayers
  <2>4. CASE StartsPanic(f, g)
    BY <1>1, <2>1, <2>4 DEF StartsPanic, FrameOK, InLayers
  <2>5. CASE Turns(f, g)
    BY <1>1, <2>1, <2>5 DEF Turns, FrameOK, InLayers
  <2> QED
    BY <1>4, <2>2, <2>3, <2>4, <2>5 DEF GoesUp
<1> QED
  BY <1>2, <1>3, <1>4 DEF Goes

LEMMA StartFrameOK ==
  ASSUME Shape, NEW b \in 0 .. Len(chain),
         b = Len(chain) \/ (b + 1 \in DOMAIN chain /\ chain[b + 1] \in {"timeout", "async"})
  PROVE  FrameOK(Start(b))
<1> DEFINE f == Start(b)
<1>1. f.base = b /\ f.at = b /\ f.dir = "down" /\ f.outcome = "none" /\ f.child = 0
  BY StartFacts DEF Shape
<1> HIDE DEF f
<1>2. FrameOK(f)
  BY <1>1 DEF FrameOK
<1> QED
  BY <1>2 DEF f

LEMMA FramesKept ==
  ASSUME UNCHANGED chain, \A e \in Events : \A i \in DOMAIN go'[e] : FrameOK(go'[e][i])
  PROVE  FramesOK'
  BY DEF FramesOK, FrameOK, InLayers

Stacks == Shape /\ FramesOK /\ Waiting

\* Whoever waits, waits for somebody else.
LEMMA WaitsForOther ==
  ASSUME Stacks, NEW e \in Events, NEW i,
         TimeoutReceives(e, i) \/ TimeoutFires(e, i)
  PROVE  /\ i \in DOMAIN go[e] /\ go[e][i].dir = "waiting" /\ go[e][i].child # 0
         /\ go[e][i].child \in DOMAIN go[e]
         /\ TimeoutReceives(e, i) => go[e][go[e][i].child].dir = "done"
<1>1. i \in DOMAIN go[e] /\ go[e][i].dir = "waiting"
  BY AtFacts DEF TimeoutReceives, TimeoutFires, Stacks
<1>2. go[e][i].child # 0
  BY <1>1 DEF Stacks, FramesOK, FrameOK
<1> QED
  BY <1>1, <1>2 DEF Stacks, Waiting, TimeoutReceives

LEMMA MovesStacks ==
  ASSUME Stacks, NEW e \in Events, NEW i, Moves(e, i)
  PROVE  Stacks'
<1>1. /\ i \in DOMAIN go[e] /\ Shape' /\ DOMAIN go'[e] = DOMAIN go[e]
      /\ \A j \in DOMAIN go[e] \ {i} : go'[e][j] = go[e][j]
      /\ \A d \in Events \ {e} : go'[d] = go[d]
      /\ go'[e][i].base = go[e][i].base /\ go'[e][i].child = go[e][i].child
      /\ Goes(go[e][i], go'[e][i]) /\ UNCHANGED chain
  BY DEF Moves, Elsewhere
<1>2. Frame' = Frame
  BY <1>1 DEF Frame
<1>3. go[e][i] \in Frame /\ go'[e][i] \in Frame /\ FrameOK(go[e][i])
  BY <1>1, <1>2 DEF Stacks, Shape, FramesOK
<1>4. /\ FrameOK(go'[e][i])
      /\ go[e][i].dir \in {"down", "running", "up"} /\ go[e][i].child = 0 /\ go'[e][i].dir # "done"
  BY <1>1, <1>3, GoesFrameOK DEF Stacks
<1>5. FramesOK'
  <2>1. \A d \in Events : \A j \in DOMAIN go'[d] : FrameOK(go'[d][j])
    BY <1>1, <1>4 DEF Stacks, FramesOK
  <2> QED
    BY <1>1, <2>1, FramesKept
<1>6. \A j \in DOMAIN go[e] :
        go'[e][j].child = go[e][j].child /\ (go'[e][j].dir = "done" => go[e][j].dir = "done")
  BY <1>1, <1>4
<1>7. Waiting'
  BY <1>1, <1>6 DEF Stacks, Waiting
<1> QED
  BY <1>1, <1>5, <1>7 DEF Stacks

LEMMA SpawnStacks ==
  ASSUME Stacks, NEW e \in Events, NEW i, TimeoutCalls(e, i) \/ AsyncCalls(e, i)
  PROVE  Stacks'
<1> DEFINE f == go[e][i]
           g == go'[e][i]
           c == FreeSlot(e)
<1>1. /\ i \in DOMAIN go[e] /\ f.dir = "down" /\ InLayers(f) /\ f.at >= 1
      /\ chain[f.at] \in {"timeout", "async"}
      /\ c \in 1 .. MaxSpawned /\ c \notin DOMAIN go[e]
      /\ DOMAIN go'[e] = DOMAIN go[e] \cup {c}
      /\ \A j \in DOMAIN go[e] \ {i} : go'[e][j] = go[e][j]
      /\ Shape' /\ \A d \in Events \ {e} : go'[d] = go[d]
      /\ UNCHANGED chain
      /\ go'[e][c] = Start(f.at - 1)
  <2>1. CASE TimeoutCalls(e, i)
    BY <2>1, TimeoutCallsFacts DEF Stacks
  <2>2. CASE AsyncCalls(e, i)
    BY <2>2, AsyncCallsFacts DEF Stacks
  <2> QED
    BY <2>1, <2>2
<1>2. /\ g.base = f.base /\ g.source = f.source
      /\ \/ g.dir = "waiting" /\ g.child = c /\ g.at = f.at /\ g.outcome = f.outcome
         \/ g.dir = "up" /\ g.child = f.child /\ g.at = f.at + 1 /\ g.outcome = "nil"
  <2>1. CASE TimeoutCalls(e, i)
    BY <2>1, TimeoutCallsFacts DEF Stacks
  <2>2. CASE AsyncCalls(e, i)
    BY <2>2, AsyncCallsFacts DEF Stacks
  <2> QED
    BY <2>1, <2>2
<1>3. /\ Len(chain) \in Nat /\ DOMAIN chain = 1 .. Len(chain)
      /\ f \in Frame /\ FrameOK(f) /\ f.at \in Nat
  BY <1>1, ChainFacts DEF Stacks, Shape, FramesOK, Frame
<1> HIDE DEF c
<1>4. FrameOK(g)
  <2>1. /\ f.at <= f.base /\ f.outcome # "panic" /\ c # 0 /\ f.child = 0
        /\ f.base = Len(chain) \/ (f.base + 1 \in DOMAIN chain /\ chain[f.base + 1] \in {"timeout", "async"})
    BY <1>1, <1>3 DEF FrameOK, InLayers
  <2>2. f.base \in Nat
    BY <1>3 DEF Frame
  <2>3. CASE g.dir = "waiting"
    BY <1>1, <1>2, <1>3, <2>1, <2>2, <2>3 DEF FrameOK, InLayers
  <2>4. CASE g.dir = "up"
    BY <1>1, <1>2, <1>3, <2>1, <2>2, <2>4 DEF FrameOK
  <2> QED
    BY <1>2, <2>3, <2>4
<1>5. FrameOK(Start(f.at - 1)) /\ Start(f.at - 1).child = 0 /\ Start(f.at - 1).dir = "down"
  <2>1. f.at - 1 \in 0 .. Len(chain) /\ (f.at - 1) + 1 = f.at /\ f.at \in DOMAIN chain
    BY <1>1, <1>3 DEF InLayers
  <2>2. chain[(f.at - 1) + 1] \in {"timeout", "async"}
    BY <1>1, <2>1
  <2> QED
    BY <2>1, <2>2, StartFrameOK, StartFacts DEF Stacks, Shape
<1>6. FramesOK'
  <2>1. \A d \in Events : \A j \in DOMAIN go'[d] : FrameOK(go'[d][j])
    BY <1>1, <1>4, <1>5 DEF Stacks, FramesOK
  <2> QED
    BY <1>1, <2>1, FramesKept
<1>7. f.child = 0
  BY <1>1, <1>3 DEF FrameOK
<1>8. Waiting'
  <2>1. \A d \in Events \ {e} : go'[d] = go[d]
    BY <1>1
  <2>2. \A p \in DOMAIN go'[e] :
          \/ go'[e][p].child = 0
          \/ p = i /\ go'[e][p].child = c
          \/ p \in DOMAIN go[e] \ {i} /\ go'[e][p].child = go[e][p].child
    BY <1>1, <1>2, <1>5, <1>7
  <2>3. c # 0
    BY <1>1
  <2>4. \A p \in DOMAIN go'[e] : go'[e][p].child # 0 => go'[e][p].child \in DOMAIN go'[e]
    BY <1>1, <2>2 DEF Stacks, Waiting
  <2>5. \A p \in DOMAIN go[e] : go[e][p].child # c
    BY <1>1, <2>3 DEF Stacks, Waiting
  <2>6. \A p, q \in DOMAIN go'[e] :
          go'[e][p].child = go'[e][q].child /\ go'[e][p].child # 0 => p = q
    BY <2>2, <2>5 DEF Stacks, Waiting
  <2>7. \A x \in DOMAIN go'[e] : go'[e][x].dir = "done" =>
          \E p \in DOMAIN go'[e] : go'[e][p].child = x /\ x # 0
    <3> SUFFICES ASSUME NEW x \in DOMAIN go'[e], go'[e][x].dir = "done"
                 PROVE  \E p \in DOMAIN go'[e] : go'[e][p].child = x /\ x # 0
      OBVIOUS
    <3>1. x \in DOMAIN go[e] \ {i} /\ go[e][x].dir = "done"
      BY <1>1, <1>2, <1>5
    <3>2. PICK p \in DOMAIN go[e] : go[e][p].child = x /\ x # 0
      BY <3>1 DEF Stacks, Waiting
    <3>3. p # i
      BY <1>7, <3>2
    <3> QED
      BY <1>1, <3>2, <3>3
  <2> QED
    BY <2>1, <2>4, <2>6, <2>7 DEF Stacks, Waiting
<1> QED
  BY <1>1, <1>6, <1>8 DEF Stacks

LEMMA TimeoutEndsStacks ==
  ASSUME Stacks, NEW e \in Events, NEW i, TimeoutReceives(e, i) \/ TimeoutFires(e, i)
  PROVE  Stacks'
<1> DEFINE f == go[e][i]
           g == go'[e][i]
           c == f.child
<1>1. i \in DOMAIN go[e] /\ f.dir = "waiting" /\ c # 0 /\ c \in DOMAIN go[e]
  BY WaitsForOther
<1>2. /\ InLayers(f) /\ f.at >= 1
      /\ DOMAIN go'[e] = IF go[e][c].dir = "done" THEN DOMAIN go[e] \ {c} ELSE DOMAIN go[e]
      /\ g.dir = "up" /\ g.child = 0 /\ g.base = f.base /\ g.at = f.at + 1
      /\ g.outcome = "error" \/ (go[e][c].dir = "done" /\ g.outcome = go[e][c].outcome)
      /\ \A j \in DOMAIN go'[e] \ {i} : j \in DOMAIN go[e] /\ go'[e][j] = go[e][j]
      /\ Shape' /\ \A d \in Events \ {e} : go'[d] = go[d]
      /\ UNCHANGED chain
  <2>1. TimeoutEnds(e, i)
    BY <1>1, TimeoutEndsFacts DEF Stacks
  <2> QED
    BY <2>1 DEF TimeoutEnds
<1>3. /\ f \in Frame /\ FrameOK(f) /\ FrameOK(go[e][c])
  BY <1>1 DEF Stacks, Shape, FramesOK
<1> HIDE DEF c
<1>4. i \in DOMAIN go'[e]
  BY <1>1, <1>2
<1>5. FrameOK(g)
  <2>1. g.outcome # "none" /\ g.outcome # "panic"
    BY <1>2, <1>3 DEF FrameOK
  <2>2. /\ f.at <= f.base /\ f.at \in Nat /\ f.base \in Nat
        /\ f.base = Len(chain) \/ (f.base + 1 \in DOMAIN chain /\ chain[f.base + 1] \in {"timeout", "async"})
    BY <1>2, <1>3 DEF Frame, FrameOK, InLayers
  <2> QED
    BY <1>2, <2>1, <2>2 DEF FrameOK
<1>6. FramesOK'
  <2>1. \A d \in Events : \A j \in DOMAIN go'[d] : FrameOK(go'[d][j])
    BY <1>2, <1>5 DEF Stacks, FramesOK
  <2> QED
    BY <1>2, <2>1, FramesKept
<1>7. \A p \in DOMAIN go'[e] :
        \/ p = i /\ go'[e][p].child = 0
        \/ p # i /\ p \in DOMAIN go[e] /\ go'[e][p].child = go[e][p].child /\ go[e][p].child # c
  <2>1. \A p \in DOMAIN go[e] : p # i => go[e][p].child # c
    BY <1>1 DEF Stacks, Waiting, c
  <2> QED
    BY <1>2, <2>1
<1>8. /\ \A p \in DOMAIN go'[e] : go'[e][p].child # 0 => go'[e][p].child \in DOMAIN go'[e]
      /\ \A p, q \in DOMAIN go'[e] :
           go'[e][p].child = go'[e][q].child /\ go'[e][p].child # 0 => p = q
  BY <1>2, <1>7 DEF Stacks, Waiting
<1>9. ASSUME NEW x \in DOMAIN go'[e], go'[e][x].dir = "done"
      PROVE  \E p \in DOMAIN go'[e] : go'[e][p].child = x /\ x # 0
  <2>1. x # i /\ x \in DOMAIN go[e] /\ go[e][x].dir = "done"
    BY <1>2, <1>9
  <2>2. PICK p \in DOMAIN go[e] : go[e][p].child = x /\ x # 0
    BY <2>1 DEF Stacks, Waiting
  <2>3. x # c
    BY <1>2, <1>9, <2>1
  <2>4. p # i
    BY <2>2, <2>3 DEF c
  <2>5. go[e][p].dir = "waiting"
    BY <2>2 DEF Stacks, FramesOK, FrameOK
  <2>6. p \in DOMAIN go'[e]
    BY <1>2, <2>2, <2>5
  <2>7. go'[e][p].child = x
    BY <1>2, <2>2, <2>4, <2>6
  <2> QED
    BY <2>2, <2>6, <2>7
<1>10. Waiting'
  BY <1>2, <1>8, <1>9 DEF Stacks, Waiting
<1> QED
  BY <1>2, <1>6, <1>10 DEF Stacks

LEMMA SentStacks ==
  ASSUME Stacks, NEW e \in Events, NEW i \in Goroutines, Sent(e, i)
  PROVE  Stacks'
<1> DEFINE f == go[e][i]
           g == go'[e][i]
<1>0. SentBy(e, i)
  BY SentFacts DEF Stacks
<1>1. /\ i \in DOMAIN go[e] /\ i # 0 /\ f.dir = "up" /\ f.at > f.base
      /\ f.outcome # "panic"
      /\ DOMAIN go'[e] = IF Awaited(e, i) THEN DOMAIN go[e] ELSE DOMAIN go[e] \ {i}
      /\ Awaited(e, i) => /\ g.dir = "done" /\ g.child = f.child
                          /\ g.base = f.base /\ g.at = f.at
                          /\ g.outcome = f.outcome /\ g.source = f.source
      /\ \A j \in DOMAIN go[e] \ {i} : go'[e][j] = go[e][j]
      /\ Shape' /\ \A d \in Events \ {e} : go'[d] = go[d]
      /\ UNCHANGED chain
  BY <1>0 DEF SentBy
<1>2. FrameOK(f) /\ f \in Frame
  BY <1>1 DEF Stacks, FramesOK, Shape
<1>3. f.child = 0
  BY <1>1, <1>2 DEF FrameOK
<1>4. Awaited(e, i) <=> \E p \in DOMAIN go[e] : go[e][p].child = i
  BY <1>1 DEF Awaited, Stacks, FramesOK, FrameOK
<1>5. Awaited(e, i) => FrameOK(g)
  BY <1>1, <1>2 DEF FrameOK, InLayers
<1>6. FramesOK'
  <2>1. \A d \in Events : \A j \in DOMAIN go'[d] : FrameOK(go'[d][j])
    BY <1>1, <1>5 DEF Stacks, FramesOK
  <2> QED
    BY <1>1, <2>1, FramesKept
<1>7. \A p \in DOMAIN go'[e] : p \in DOMAIN go[e] /\ go'[e][p].child = go[e][p].child
  BY <1>1
<1>8. /\ \A p \in DOMAIN go'[e] : go'[e][p].child # 0 => go'[e][p].child \in DOMAIN go'[e]
      /\ \A p, q \in DOMAIN go'[e] :
           go'[e][p].child = go'[e][q].child /\ go'[e][p].child # 0 => p = q
  BY <1>1, <1>4, <1>7 DEF Stacks, Waiting
<1>9. ASSUME NEW x \in DOMAIN go'[e], go'[e][x].dir = "done"
      PROVE  \E p \in DOMAIN go'[e] : go'[e][p].child = x /\ x # 0
  <2>1. PICK p \in DOMAIN go[e] : go[e][p].child = x /\ x # 0
    <3>1. CASE x = i
      BY <1>1, <1>4, <1>9, <3>1
    <3>2. CASE x # i
      <4>1. x \in DOMAIN go[e] /\ go[e][x].dir = "done"
        BY <1>1, <1>9, <3>2
      <4> QED
        BY <4>1 DEF Stacks, Waiting
    <3> QED
      BY <3>1, <3>2
  <2>2. p # i
    BY <1>3, <2>1
  <2> QED
    BY <1>1, <2>1, <2>2
<1>10. Waiting'
  BY <1>1, <1>8, <1>9 DEF Stacks, Waiting
<1> QED
  BY <1>1, <1>6, <1>10 DEF Stacks

LEMMA AnsweredStacks ==
  ASSUME Stacks, NEW e \in Events, Answered(e)
  PROVE  Stacks'
<1>1. /\ 0 \in DOMAIN go[e] /\ go[e][0].dir = "up"
      /\ DOMAIN go'[e] = DOMAIN go[e] \ {0}
      /\ \A j \in DOMAIN go[e] \ {0} : go'[e][j] = go[e][j]
      /\ Shape' /\ \A d \in Events \ {e} : go'[d] = go[d]
      /\ UNCHANGED chain
  BY AnsweredFacts DEF Stacks
<1>2. go[e][0].child = 0
  BY <1>1 DEF Stacks, FramesOK, FrameOK
<1>3. FramesOK'
  <2>1. \A d \in Events : \A j \in DOMAIN go'[d] : FrameOK(go'[d][j])
    BY <1>1 DEF Stacks, FramesOK
  <2> QED
    BY <1>1, <2>1, FramesKept
<1>4. /\ \A p \in DOMAIN go'[e] : go'[e][p].child # 0 => go'[e][p].child \in DOMAIN go'[e]
      /\ \A p, q \in DOMAIN go'[e] :
           go'[e][p].child = go'[e][q].child /\ go'[e][p].child # 0 => p = q
  BY <1>1 DEF Stacks, Waiting
<1>5. ASSUME NEW x \in DOMAIN go'[e], go'[e][x].dir = "done"
      PROVE  \E p \in DOMAIN go'[e] : go'[e][p].child = x /\ x # 0
  <2>1. x \in DOMAIN go[e] /\ go[e][x].dir = "done"
    BY <1>1, <1>5
  <2>2. PICK p \in DOMAIN go[e] : go[e][p].child = x /\ x # 0
    BY <2>1 DEF Stacks, Waiting
  <2> QED
    BY <1>1, <1>2, <2>2
<1>6. Waiting'
  BY <1>1, <1>4, <1>5 DEF Stacks, Waiting
<1> QED
  BY <1>1, <1>3, <1>6 DEF Stacks

LEMMA DeliverStacks ==
  ASSUME Stacks, NEW e \in Events, Deliver(e)
  PROVE  Stacks'
<1> DEFINE f == Start(Len(chain))
<1>1. /\ Shape' /\ \A d \in Events \ {e} : go'[d] = go[d]
      /\ DOMAIN go'[e] = {0} /\ go'[e][0] = f
      /\ UNCHANGED chain
  BY DeliverFacts DEF Stacks
<1>2. FrameOK(f) /\ f.child = 0 /\ f.dir = "down"
  <2>1. Len(chain) \in 0 .. Len(chain) /\ chain \in Seq(Kinds)
    BY ChainFacts DEF Stacks, Shape
  <2> QED
    BY <2>1, StartFrameOK, StartFacts DEF Stacks
<1> HIDE DEF f
<1>3. FramesOK'
  <2>1. \A d \in Events : \A j \in DOMAIN go'[d] : FrameOK(go'[d][j])
    BY <1>1, <1>2 DEF Stacks, FramesOK
  <2> QED
    BY <1>1, <2>1, FramesKept
<1>4. Waiting'
  BY <1>1, <1>2 DEF Stacks, Waiting
<1> QED
  BY <1>1, <1>3, <1>4 DEF Stacks

LEMMA StacksStep == Stacks /\ [Next]_vars => Stacks'
<1> SUFFICES ASSUME Stacks, [Next]_vars
             PROVE  Stacks'
  OBVIOUS
<1>1. ASSUME UNCHANGED <<chain, go>>
      PROVE  Stacks'
  BY <1>1 DEF Stacks, Shape, Frame, FramesOK, FrameOK, InLayers, Waiting
<1>2. ASSUME NEW e \in Events, NEW i \in Goroutines, Crash(e, i)
      PROVE  Stacks'
  BY <1>1, <1>2, CrashFacts DEF Stacks
<1> QED
  BY <1>1, <1>2, StepCases, MovesStacks, SpawnStacks, TimeoutEndsStacks, SentStacks,
     AnsweredStacks, DeliverStacks
     DEF Stacks, stackVars
-----------------------------------------------------------------------------
LEMMA WrappedSeq ==
  ASSUME NEW w \in Wirings
  PROVE  Wrapped(w) \in Seq(Kinds)
<1> DEFINE s == w.chained
           d == w.decorators
           u == w.used
           r == Reverse(s)
           t == <<"recover">>
<1>1. s \in Seq(Kinds) /\ d \in Seq(Kinds) /\ u \in Seq(Kinds)
  BY WiringsAssumption
<1> HIDE DEF s, d, u
<1>2. r \in Seq(Kinds)
  <2>1. Len(s) \in Nat /\ \A i \in 1 .. Len(s) : s[i] \in Kinds
    BY <1>1, LenProperties
  <2>2. r \in [1 .. Len(s) -> Kinds]
    BY <2>1 DEF Reverse
  <2> QED
    BY <2>1, <2>2
<1>3. t \in Seq(Kinds)
  BY DEF Kinds, Recoveries
<1> HIDE DEF r, t
<1>4. d \o t \in Seq(Kinds)
  BY <1>1, <1>3, ConcatProperties
<1>5. (d \o t) \o u \in Seq(Kinds)
  BY <1>1, <1>4, ConcatProperties
<1>6. ((d \o t) \o u) \o r \in Seq(Kinds)
  BY <1>2, <1>5, ConcatProperties
<1> QED
  BY <1>6 DEF Wrapped, Compose, Chain, s, d, u, r, t

LEMMA GoInit == Init => \A e \in Events : DOMAIN go[e] = {}
<1>1. DOMAIN << >> = {}
  OBVIOUS
<1> QED
  BY <1>1 DEF Init

LEMMA StacksInit == Init => Stacks
<1> SUFFICES ASSUME Init
             PROVE  Stacks
  OBVIOUS
<1>1. chain \in Seq(Kinds)
  BY WrappedSeq DEF Init
<1>2. \A e \in Events : DOMAIN go[e] = {}
  BY GoInit
<1>3. DOMAIN go = Events /\ go = [e \in Events |-> go[e]]
  BY DEF Init
<1>4. \A e \in Events : go[e] = [i \in DOMAIN go[e] |-> go[e][i]]
  BY DEF Init
<1> QED
  BY <1>1, <1>2, <1>3, <1>4 DEF Stacks, Shape, FramesOK, Waiting

LEMMA StacksAlways == Spec => []Stacks
  BY StacksInit, StacksStep, PTL DEF Spec
-----------------------------------------------------------------------------
(* A panic that ends the process. *)

CrashInv == crashed # Alive => crashed \in 0 .. Len(chain) /\ ~Protected(crashed)

\* At the bottom of its goroutine a panic has passed no recovery since the
\* layer it comes from, and the next recovery is in another goroutine.
LEMMA BottomUnprotected ==
  ASSUME Shape, NEW f \in Frame, FrameOK(f), f.dir = "up", f.at > f.base, f.outcome = "panic"
  PROVE  f.source \in 0 .. Len(chain) /\ ~Protected(f.source)
<1> DEFINE k == f.source
           b == f.base
<1>1. /\ Len(chain) \in Nat /\ DOMAIN chain = 1 .. Len(chain)
      /\ b \in 0 .. Len(chain) /\ f.at = b + 1 /\ k \in 0 .. b
  BY ChainFacts DEF Shape, Frame, FrameOK
<1>2. \A r \in Recovering : k < r => r > b
  BY <1>1 DEF FrameOK, Recovering, Recoveries, Positions
<1>3. CASE b = Len(chain)
  BY <1>1, <1>2, <1>3 DEF Protected, Recovering, Positions
<1>4. CASE b + 1 \in DOMAIN chain /\ chain[b + 1] \in {"timeout", "async"}
  <2>1. b + 1 \in Spawning /\ b + 1 \notin Recovering
    BY <1>4 DEF Spawning, Recovering, Positions
  <2>2. \A r \in Recovering : k < r => k < b + 1 /\ b + 1 < r
    BY <1>1, <1>2, <2>1 DEF Recovering, Positions
  <2> QED
    BY <1>1, <2>1, <2>2 DEF Protected
<1> QED
  BY <1>3, <1>4 DEF FrameOK

LEMMA CrashStep == Stacks /\ CrashInv /\ [Next]_vars => CrashInv'
<1> SUFFICES ASSUME Stacks, CrashInv, [Next]_vars
             PROVE  CrashInv'
  OBVIOUS
<1>1. ASSUME UNCHANGED <<chain, crashed>>
      PROVE  CrashInv'
  BY <1>1 DEF CrashInv, Protected, Recovering, Positions, Spawning
<1>2. ASSUME NEW e \in Events, NEW i \in Goroutines, Crash(e, i)
      PROVE  CrashInv'
  <2> DEFINE f == go[e][i]
  <2>1. /\ i \in DOMAIN go[e] /\ f.dir = "up" /\ f.at > f.base /\ f.outcome = "panic"
        /\ crashed' = f.source /\ UNCHANGED chain
    BY <1>2, CrashFacts DEF Stacks
  <2>2. f \in Frame /\ FrameOK(f) /\ Shape
    BY <2>1 DEF Stacks, Shape, FramesOK
  <2> HIDE DEF f
  <2>3. crashed' \in 0 .. Len(chain) /\ ~Protected(crashed')
    BY <2>1, <2>2, BottomUnprotected
  <2> QED
    BY <2>1, <2>3 DEF CrashInv, Protected, Recovering, Positions, Spawning
<1>3. ASSUME NEW e \in Events, NEW i, Moves(e, i)
      PROVE  CrashInv'
  BY <1>1, <1>3 DEF Moves
<1>4. ASSUME NEW e \in Events, Deliver(e) \/ Answered(e)
      PROVE  CrashInv'
  BY <1>1, <1>4 DEF Deliver, Answered, Kept
<1>5. ASSUME NEW e \in Events, NEW i,
             \/ TimeoutCalls(e, i) \/ TimeoutReceives(e, i) \/ TimeoutFires(e, i)
             \/ AsyncCalls(e, i) \/ Sent(e, i)
      PROVE  CrashInv'
  BY <1>1, <1>5 DEF TimeoutCalls, TimeoutReceives, TimeoutFires, AsyncCalls, Sent, Quiet, Kept
<1>6. Shape
  BY DEF Stacks
<1> QED
  BY <1>1, <1>2, <1>3, <1>4, <1>5, <1>6, StepCases DEF stackVars

(***************************************************************************)
(* A panic ends the process only where no recovery was set up around it in *)
(* its own goroutine, however the layers are nested (events/middleware.go, *)
(* events/decorators.go).                                                  *)
(***************************************************************************)
THEOREM ContainedPanics == Spec => []PanicsContained
<1>1. Init => CrashInv
  BY DEF Init, CrashInv
<1>2. CrashInv => PanicsContained
  BY DEF CrashInv, PanicsContained
<1> QED
  BY <1>1, <1>2, CrashStep, StacksAlways, PTL DEF Spec
-----------------------------------------------------------------------------
(* The breaker and the limiter of the listener. *)

BreakerInv == failures \in Nat /\ isOpen \in BOOLEAN /\ ClosedBelowMax

ClockInv == sinceFailure \in 0 .. ResetTimeout /\ sinceCalled \in 0 .. Interval

LEMMA OthersKeep ==
  ASSUME [Next]_vars
  PROVE  \/ \E e \in Events, i \in Goroutines :
              \/ LimitPasses(e, i) \/ BreakerPasses(e, i)
              \/ BreakerSuccess(e, i) \/ BreakerFailure(e, i)
         \/ Tick
         \/ UNCHANGED <<breakerVars, limitVars>>
<1>1. ASSUME NEW e \in Events, Deliver(e) \/ Answered(e)
      PROVE  UNCHANGED <<breakerVars, limitVars>>
  BY <1>1 DEF Deliver, Answered, Kept
<1>2. ASSUME NEW e \in Events, NEW i \in Goroutines,
             Step(e, i) \/ ListenerReturns(e, i) \/ UserCodePanics(e, i)
      PROVE  \/ LimitPasses(e, i) \/ BreakerPasses(e, i)
             \/ BreakerSuccess(e, i) \/ BreakerFailure(e, i)
             \/ UNCHANGED <<breakerVars, limitVars>>
  <2>1. CASE \/ ListenerCalled(e, i) \/ ListenerReturns(e, i) \/ UserCodePanics(e, i)
             \/ RecoverCalls(e, i) \/ RecoverReturns(e, i)
             \/ ObserveCalls(e, i) \/ ObserveReturns(e, i)
             \/ FilterPasses(e, i) \/ FilterDrops(e, i) \/ FilterReturns(e, i)
    BY <2>1 DEF ListenerCalled, ListenerReturns, UserCodePanics, RecoverCalls, RecoverReturns,
                ObserveCalls, ObserveReturns, FilterPasses, FilterDrops, FilterReturns, Quiet, Kept
  <2>2. CASE \/ RetryCalls(e, i) \/ RetryAgain(e, i) \/ RetryReturns(e, i)
             \/ TimeoutCalls(e, i) \/ TimeoutReceives(e, i) \/ TimeoutFires(e, i)
             \/ AsyncCalls(e, i)
    BY <2>2 DEF RetryCalls, RetryAgain, RetryReturns, TimeoutCalls, TimeoutReceives,
                TimeoutFires, AsyncCalls, Quiet, Kept
  <2>3. CASE \/ LimitDrops(e, i) \/ LimitReturns(e, i) \/ BreakerRejects(e, i)
             \/ BreakerUnwinds(e, i) \/ Sent(e, i) \/ Crash(e, i)
    BY <2>3 DEF LimitDrops, LimitReturns, BreakerRejects, BreakerUnwinds, Sent, Crash, Quiet, Kept
  <2> QED
    BY <1>2, <2>1, <2>2, <2>3 DEF Step
<1> QED
  BY <1>1, <1>2 DEF Next, vars

LEMMA BreakerInit == Init => BreakerInv
<1> SUFFICES ASSUME Init
             PROVE  BreakerInv
  OBVIOUS
<1>1. failures = 0 /\ isOpen = FALSE
  BY DEF Init
<1>2. failures \in Nat /\ failures < MaxFailures
  BY <1>1, NumbersAssumption
<1> QED
  BY <1>1, <1>2 DEF BreakerInv, ClosedBelowMax

LEMMA BreakerStep == BreakerInv /\ [Next]_vars => BreakerInv'
<1> SUFFICES ASSUME BreakerInv, [Next]_vars
             PROVE  BreakerInv'
  OBVIOUS
<1> USE NumbersAssumption DEF BreakerInv, ClosedBelowMax
<1>1. ASSUME NEW e \in Events, NEW i \in Goroutines, BreakerPasses(e, i)
      PROVE  BreakerInv'
  <2>1. isOpen' = FALSE /\ failures' = IF isOpen THEN 0 ELSE failures
    BY <1>1 DEF BreakerPasses
  <2>2. failures' \in Nat /\ failures' < MaxFailures
    <3>1. CASE isOpen
      BY <2>1, <3>1
    <3>2. CASE ~isOpen
      BY <2>1, <3>2
    <3> QED
      BY <3>1, <3>2
  <2> QED
    BY <2>1, <2>2
<1>2. ASSUME NEW e \in Events, NEW i \in Goroutines, BreakerSuccess(e, i)
      PROVE  BreakerInv'
  BY <1>2 DEF BreakerSuccess
<1>3. ASSUME NEW e \in Events, NEW i \in Goroutines, BreakerFailure(e, i)
      PROVE  BreakerInv'
  <2>1. failures' = failures + 1 /\ isOpen' = (isOpen \/ failures + 1 >= MaxFailures)
    BY <1>3 DEF BreakerFailure
  <2>2. isOpen' \in BOOLEAN
    BY <2>1
  <2>3. failures' \in Nat
    BY <2>1
  <2>4. ~isOpen' => failures' < MaxFailures
    <3>1. CASE failures + 1 >= MaxFailures
      <4>1. isOpen'
        BY <2>1, <3>1
      <4> QED
        BY <4>1
    <3>2. CASE ~(failures + 1 >= MaxFailures)
      BY <2>1, <3>2
    <3> QED
      BY <3>1, <3>2
  <2> QED
    BY <2>2, <2>3, <2>4
<1>4. ASSUME NEW e \in Events, NEW i \in Goroutines, LimitPasses(e, i)
      PROVE  BreakerInv'
  BY <1>4 DEF LimitPasses, breakerVars
<1>5. CASE Tick
  BY <1>5 DEF Tick
<1>6. CASE UNCHANGED breakerVars
  BY <1>6 DEF breakerVars
<1> QED
  BY <1>1, <1>2, <1>3, <1>4, <1>5, <1>6, OthersKeep

\* The circuit of a listener is closed only below its maximum of failures,
\* whatever calls report late (events/decorators.go, listenerCircuitBreaker.call).
THEOREM BelowMaximum == Spec => []ClosedBelowMax
<1>1. Init => BreakerInv
  BY BreakerInit
<1>2. BreakerInv => ClosedBelowMax
  BY DEF BreakerInv
<1> QED
  BY <1>1, <1>2, BreakerStep, PTL DEF Spec

\* An open circuit stays open until the reset timeout is over, whatever
\* arrives meanwhile (events/decorators.go, listenerCircuitBreaker.call).
THEOREM StaysOpen == Spec => OpenUntilTimeout
<1>1. ASSUME [Next]_vars, isOpen, ~isOpen'
      PROVE  sinceFailure >= ResetTimeout
  <2>1. ASSUME NEW e \in Events, NEW i \in Goroutines, BreakerPasses(e, i)
        PROVE  sinceFailure >= ResetTimeout
    BY <1>1, <2>1 DEF BreakerPasses
  <2>2. ASSUME NEW e \in Events, NEW i \in Goroutines,
               LimitPasses(e, i) \/ BreakerSuccess(e, i) \/ BreakerFailure(e, i)
        PROVE  FALSE
    BY <1>1, <2>2 DEF LimitPasses, BreakerSuccess, BreakerFailure, breakerVars
  <2>3. CASE Tick
    BY <1>1, <2>3 DEF Tick
  <2>4. CASE UNCHANGED breakerVars
    BY <1>1, <2>4 DEF breakerVars
  <2> QED
    BY <1>1, <2>1, <2>2, <2>3, <2>4, OthersKeep
<1>2. [Next]_vars => [isOpen /\ ~isOpen' => sinceFailure >= ResetTimeout]_vars
  BY <1>1
<1> QED
  BY <1>2, PTL DEF Spec, OpenUntilTimeout

LEMMA IntervalFacts ==
  /\ Interval \in Nat \ {0}
  /\ Rate * Interval <= Second /\ Second < Rate * Interval + Rate
<1>1. Rate \in Nat /\ Rate > 0 /\ Second \in Nat /\ Second >= Rate
  BY NumbersAssumption
<1>2. Interval \in Int /\ Rate * Interval <= Second /\ Second < Rate * Interval + Rate
  BY <1>1 DEF Interval
<1>3. Interval > 0
  BY <1>1, <1>2
<1> QED
  BY <1>2, <1>3

LEMMA ClockStep == ClockInv /\ [Next]_vars => ClockInv'
<1> SUFFICES ASSUME ClockInv, [Next]_vars
             PROVE  ClockInv'
  OBVIOUS
<1> USE NumbersAssumption, IntervalFacts DEF ClockInv
<1>1. ASSUME NEW e \in Events, NEW i \in Goroutines,
             \/ BreakerPasses(e, i) \/ BreakerSuccess(e, i) \/ BreakerFailure(e, i)
             \/ LimitPasses(e, i)
      PROVE  ClockInv'
  <2>1. sinceFailure' \in {0, sinceFailure} /\ sinceCalled' \in {0, sinceCalled}
    BY <1>1 DEF BreakerPasses, BreakerSuccess, BreakerFailure, LimitPasses, limitVars, breakerVars
  <2> QED
    BY <2>1
<1>2. CASE Tick
  BY <1>2 DEF Tick
<1>3. CASE UNCHANGED <<breakerVars, limitVars>>
  BY <1>3 DEF breakerVars, limitVars
<1> QED
  BY <1>1, <1>2, <1>3, OthersKeep
-----------------------------------------------------------------------------
(* What the strategy is told. *)

Results == {"idle", "running", "nil", "error"}

\* An event is in delivery as long as the strategy's goroutine is in its layers.
ResultInv ==
  /\ result \in [Events -> Results]
  /\ \A e \in Events : 0 \in DOMAIN go[e] <=> result[e] = "running"

LEMMA ResultInit == Init => ResultInv
<1> SUFFICES ASSUME Init
             PROVE  ResultInv
  OBVIOUS
<1>1. \A e \in Events : DOMAIN go[e] = {}
  BY GoInit
<1> QED
  BY <1>1 DEF Init, ResultInv, Results

LEMMA AnsweredOutcome ==
  ASSUME Stacks, NEW e \in Events, Answered(e)
  PROVE  go[e][0].outcome \in {"nil", "error"}
<1>1. 0 \in DOMAIN go[e] /\ go[e][0].dir = "up" /\ go[e][0].outcome # "panic"
  BY AnsweredFacts DEF Stacks
<1>2. go[e][0] \in Frame /\ FrameOK(go[e][0])
  BY <1>1 DEF Stacks, Shape, FramesOK
<1> QED
  BY <1>1, <1>2 DEF Frame, FrameOK, Outcomes

\* Other goroutines than the strategy's start and end without its notice.
LEMMA StrategyStays ==
  ASSUME Stacks, NEW e \in Events, NEW i \in Goroutines,
         \/ Moves(e, i) \/ TimeoutCalls(e, i) \/ TimeoutReceives(e, i) \/ TimeoutFires(e, i)
         \/ AsyncCalls(e, i) \/ Sent(e, i) \/ Crash(e, i)
  PROVE  /\ UNCHANGED result /\ \A d \in Events \ {e} : go'[d] = go[d]
         /\ 0 \in DOMAIN go'[e] <=> 0 \in DOMAIN go[e]
<1>0. Shape
  BY DEF Stacks
<1>1. CASE Moves(e, i)
  BY <1>1 DEF Moves, Elsewhere
<1>2. CASE TimeoutCalls(e, i)
  BY <1>0, <1>2, TimeoutCallsFacts
<1>3. CASE TimeoutReceives(e, i) \/ TimeoutFires(e, i)
  <2> DEFINE c == go[e][i].child
  <2>1. c # 0 /\ c \in DOMAIN go[e]
    BY <1>3, WaitsForOther
  <2>2. /\ DOMAIN go'[e] = IF go[e][c].dir = "done" THEN DOMAIN go[e] \ {c} ELSE DOMAIN go[e]
        /\ UNCHANGED result /\ \A d \in Events \ {e} : go'[d] = go[d]
    <3>1. TimeoutEnds(e, i)
      BY <1>0, <1>3, <2>1, TimeoutEndsFacts
    <3> QED
      BY <3>1 DEF TimeoutEnds
  <2> HIDE DEF c
  <2> QED
    BY <2>1, <2>2
<1>4. CASE AsyncCalls(e, i)
  BY <1>0, <1>4, AsyncCallsFacts
<1>5. CASE Sent(e, i)
  <2>1. SentBy(e, i)
    BY <1>0, <1>5, SentFacts
  <2> QED
    BY <2>1 DEF SentBy
<1>6. CASE Crash(e, i)
  BY <1>0, <1>6, CrashFacts
<1> QED
  BY <1>1, <1>2, <1>3, <1>4, <1>5, <1>6

LEMMA ResultStep == Stacks /\ ResultInv /\ [Next]_vars => ResultInv'
<1> SUFFICES ASSUME Stacks, ResultInv, [Next]_vars
             PROVE  ResultInv'
  OBVIOUS
<1>1. ASSUME NEW e \in Events, NEW i \in Goroutines,
             \/ Moves(e, i) \/ TimeoutCalls(e, i) \/ TimeoutReceives(e, i) \/ TimeoutFires(e, i)
             \/ AsyncCalls(e, i) \/ Sent(e, i) \/ Crash(e, i)
      PROVE  ResultInv'
  BY <1>1, StrategyStays DEF ResultInv
<1>2. ASSUME NEW e \in Events, Deliver(e)
      PROVE  ResultInv'
  <2>1. /\ \A d \in Events \ {e} : go'[d] = go[d]
        /\ DOMAIN go'[e] = {0} /\ result' = [result EXCEPT ![e] = "running"]
    BY <1>2, DeliverFacts DEF Stacks
  <2> QED
    BY <2>1 DEF ResultInv, Results
<1>3. ASSUME NEW e \in Events, Answered(e)
      PROVE  ResultInv'
  <2>1. /\ \A d \in Events \ {e} : go'[d] = go[d]
        /\ DOMAIN go'[e] = DOMAIN go[e] \ {0}
        /\ result' = [result EXCEPT ![e] = go[e][0].outcome]
    BY <1>3, AnsweredFacts DEF Stacks
  <2>2. go[e][0].outcome \in {"nil", "error"}
    BY <1>3, AnsweredOutcome
  <2> QED
    BY <2>1, <2>2 DEF ResultInv, Results
<1>4. CASE UNCHANGED stackVars
  BY <1>4 DEF stackVars, ResultInv
<1> QED
  BY <1>1, <1>2, <1>3, <1>4, StepCases DEF Stacks

(***************************************************************************)
(* Types, and who waits for whom: a goroutine that waits has the child it  *)
(* waits for, a result in a channel has its reader, whatever is wrapped    *)
(* around what (events/decorators.go, events/middleware.go).               *)
(***************************************************************************)
THEOREM ChainTyping == Spec => []TypeOK
<1>1. Init => ResultInv
  BY ResultInit
<1>2. Init => ClockInv
  BY NumbersAssumption, IntervalFacts DEF Init, ClockInv
<1>3. Init => BreakerInv
  BY BreakerInit
<1>4. Init => CrashInv
  BY DEF Init, CrashInv
<1>5. Stacks /\ ResultInv /\ ClockInv /\ BreakerInv /\ CrashInv => TypeOK
  <2> SUFFICES ASSUME Stacks, ResultInv, ClockInv, BreakerInv, CrashInv
               PROVE  TypeOK
    OBVIOUS
  <2>1. Len(chain) \in Nat /\ DOMAIN chain = 1 .. Len(chain)
    BY ChainFacts DEF Stacks, Shape
  <2>2. crashed \in {Alive, Listener} \cup DOMAIN chain
    BY <2>1 DEF CrashInv, Listener
  <2>3. ASSUME NEW e \in Events, NEW i \in DOMAIN go[e]
        PROVE  LET f == go[e][i] IN
               /\ f.dir \in {"down", "running", "up", "waiting", "done"}
               /\ f.outcome \in {"none", "nil", "error", "panic"}
               /\ f.at \in 0 .. f.base + 1
               /\ f.dir = "waiting" <=> f.child # 0
               /\ f.dir = "waiting" => f.child \in DOMAIN go[e]
    <3> DEFINE f == go[e][i]
    <3>1. f \in Frame /\ FrameOK(f)
      BY DEF Stacks, Shape, FramesOK
    <3>2. f.child # 0 => f.child \in DOMAIN go[e]
      BY DEF Stacks, Waiting
    <3> HIDE DEF f
    <3>3. /\ f.dir \in Dirs /\ f.outcome \in Outcomes
          /\ f.at \in Nat /\ f.at <= f.base + 1 /\ f.base \in Nat
          /\ f.dir = "waiting" <=> f.child # 0
      BY <3>1 DEF Frame, FrameOK
    <3> QED
      BY <3>2, <3>3 DEF f, Dirs, Outcomes
  <2>4. \A e \in Events : \A f \in Frames(e) :
          /\ f.dir \in {"down", "running", "up", "waiting", "done"}
          /\ f.outcome \in {"none", "nil", "error", "panic"}
          /\ f.at \in 0 .. f.base + 1
          /\ f.dir = "waiting" <=> f.child # 0
          /\ f.dir = "waiting" => f.child \in DOMAIN go[e]
    BY <2>3 DEF Frames
  <2>5. \A e \in Events : \A c \in DOMAIN go[e] : go[e][c].dir = "done" =>
          \E p \in DOMAIN go[e] : go[e][p].child = c
    BY DEF Stacks, Waiting
  <2>6. /\ chain \in Seq(Kinds) /\ \A e \in Events : DOMAIN go[e] \subseteq Goroutines
    BY DEF Stacks, Shape
  <2>7. /\ result \in [Events -> {"idle", "running", "nil", "error"}]
        /\ failures \in Nat /\ isOpen \in BOOLEAN
        /\ sinceFailure \in 0 .. ResetTimeout /\ sinceCalled \in 0 .. Interval
    BY DEF ResultInv, Results, BreakerInv, ClockInv
  <2> QED
    BY <2>2, <2>4, <2>5, <2>6, <2>7 DEF TypeOK
<1> QED
  BY <1>1, <1>2, <1>3, <1>4, <1>5, ResultStep, ClockStep, BreakerStep, CrashStep, StacksAlways,
     PTL DEF Spec

\* Every nil is on record.
NilInv ==
  \A e \in Events :
    (result[e] = "nil" \/ \E i \in DOMAIN go[e] : go[e][i].outcome = "nil") =>
      e \in succeeded \cup skipped

LEMMA NilStep == Stacks /\ ResultInv /\ NilInv /\ [Next]_vars => NilInv'
<1> SUFFICES ASSUME Stacks, ResultInv, NilInv, [Next]_vars
             PROVE  NilInv'
  OBVIOUS
<1>0. Shape
  BY DEF Stacks
\* The step of one event that keeps the record of every other.
<1>1. ASSUME NEW e \in Events, \A d \in Events \ {e} : go'[d] = go[d] /\ result'[d] = result[d],
             \A d \in Events \ {e} : d \in succeeded \cup skipped => d \in succeeded' \cup skipped',
             result'[e] = "nil" => e \in succeeded' \cup skipped',
             \A j \in DOMAIN go'[e] : go'[e][j].outcome = "nil" => e \in succeeded' \cup skipped'
      PROVE  NilInv'
  BY <1>1 DEF NilInv
<1>2. ASSUME NEW e \in Events, NEW i \in Goroutines, Moves(e, i)
      PROVE  NilInv'
  <2>1. /\ i \in DOMAIN go[e] /\ DOMAIN go'[e] = DOMAIN go[e]
        /\ \A j \in DOMAIN go[e] \ {i} : go'[e][j] = go[e][j]
        /\ \A d \in Events \ {e} : go'[d] = go[d]
        /\ UNCHANGED result
    BY <1>2 DEF Moves, Elsewhere
  <2>2. /\ succeeded \subseteq succeeded' /\ skipped \subseteq skipped'
        /\ go'[e][i].outcome = "nil" => go[e][i].outcome = "nil" \/ e \in succeeded' \cup skipped'
    BY <1>2 DEF Moves, Records
  <2>3. \A j \in DOMAIN go'[e] : go'[e][j].outcome = "nil" => e \in succeeded' \cup skipped'
    BY <2>1, <2>2 DEF NilInv
  <2>4. result'[e] = "nil" => e \in succeeded' \cup skipped'
    BY <2>1, <2>2 DEF NilInv
  <2> QED
    BY <1>1, <2>1, <2>2, <2>3, <2>4
<1>3. ASSUME NEW e \in Events, NEW i \in Goroutines,
             TimeoutCalls(e, i) \/ TimeoutReceives(e, i) \/ TimeoutFires(e, i) \/ Sent(e, i) \/ Crash(e, i)
      PROVE  NilInv'
  <2>1. /\ UNCHANGED <<result, historyVars>> /\ \A d \in Events \ {e} : go'[d] = go[d]
        /\ \A j \in DOMAIN go'[e] : go'[e][j].outcome = "nil" =>
             \E k \in DOMAIN go[e] : go[e][k].outcome = "nil"
    <3>1. CASE TimeoutCalls(e, i)
      <4>1. i \in DOMAIN go[e] /\ go[e][i].at - 1 \in 0 .. Len(chain) /\ chain \in Seq(Kinds)
        <5>1. /\ i \in DOMAIN go[e] /\ InLayers(go[e][i]) /\ go[e][i].at >= 1
          BY <1>0, <3>1, TimeoutCallsFacts
        <5> QED
          BY <1>0, <5>1, ChainFacts DEF Shape, InLayers
      <4>2. Start(go[e][i].at - 1).outcome = "none"
        BY <4>1, StartFacts
      <4>3. /\ DOMAIN go'[e] = DOMAIN go[e] \cup {FreeSlot(e)}
            /\ go'[e][i].outcome = go[e][i].outcome
            /\ go'[e][FreeSlot(e)] = Start(go[e][i].at - 1)
            /\ \A j \in DOMAIN go[e] \ {i} : go'[e][j] = go[e][j]
            /\ \A d \in Events \ {e} : go'[d] = go[d]
            /\ UNCHANGED <<result, historyVars>>
        BY <1>0, <3>1, TimeoutCallsFacts
      <4> QED
        BY <4>1, <4>2, <4>3
    <3>2. CASE TimeoutReceives(e, i) \/ TimeoutFires(e, i)
      <4> DEFINE c == go[e][i].child
      <4>1. i \in DOMAIN go[e] /\ c \in DOMAIN go[e]
        BY <3>2, WaitsForOther
      <4>2. /\ \/ go'[e][i].outcome = "error"
               \/ go[e][c].dir = "done" /\ go'[e][i].outcome = go[e][c].outcome
            /\ \A j \in DOMAIN go'[e] \ {i} : j \in DOMAIN go[e] /\ go'[e][j] = go[e][j]
            /\ \A d \in Events \ {e} : go'[d] = go[d]
            /\ UNCHANGED <<result, historyVars>>
        <5>1. TimeoutEnds(e, i)
          BY <1>0, <3>2, <4>1, TimeoutEndsFacts
        <5> QED
          BY <5>1 DEF TimeoutEnds
      <4> HIDE DEF c
      <4> QED
        BY <4>1, <4>2
    <3>3. CASE Sent(e, i)
      <4>1. SentBy(e, i)
        BY <1>0, <3>3, SentFacts
      <4> QED
        BY <4>1 DEF SentBy
    <3>4. CASE Crash(e, i)
      BY <1>0, <3>4, CrashFacts
    <3> QED
      BY <1>3, <3>1, <3>2, <3>3, <3>4
  <2>2. UNCHANGED <<succeeded, skipped>>
    BY <2>1 DEF historyVars
  <2>3. /\ result'[e] = "nil" => e \in succeeded' \cup skipped'
        /\ \A j \in DOMAIN go'[e] : go'[e][j].outcome = "nil" => e \in succeeded' \cup skipped'
    BY <2>1, <2>2 DEF NilInv
  <2> QED
    BY <1>1, <2>1, <2>2, <2>3
<1>4. ASSUME NEW e \in Events, NEW i \in Goroutines, AsyncCalls(e, i)
      PROVE  NilInv'
  <2>1. /\ \A d \in Events \ {e} : go'[d] = go[d]
        /\ skipped' = skipped \cup {e} /\ UNCHANGED <<result, succeeded>>
    BY <1>0, <1>4, AsyncCallsFacts
  <2> QED
    BY <1>1, <2>1
<1>5. ASSUME NEW e \in Events, Deliver(e)
      PROVE  NilInv'
  <2>1. /\ \A d \in Events \ {e} : go'[d] = go[d]
        /\ DOMAIN go'[e] = {0} /\ go'[e][0] = Start(Len(chain))
        /\ result' = [result EXCEPT ![e] = "running"]
        /\ succeeded' = succeeded \ {e} /\ skipped' = skipped \ {e}
    BY <1>0, <1>5, DeliverFacts
  <2>2. Start(Len(chain)).outcome = "none"
    BY <1>0, ChainFacts, StartFacts DEF Shape
  <2> QED
    BY <1>1, <2>1, <2>2 DEF ResultInv
<1>6. ASSUME NEW e \in Events, Answered(e)
      PROVE  NilInv'
  <2>1. /\ 0 \in DOMAIN go[e] /\ result' = [result EXCEPT ![e] = go[e][0].outcome]
        /\ DOMAIN go'[e] = DOMAIN go[e] \ {0}
        /\ \A j \in DOMAIN go[e] \ {0} : go'[e][j] = go[e][j]
        /\ \A d \in Events \ {e} : go'[d] = go[d]
        /\ UNCHANGED historyVars
    BY <1>0, <1>6, AnsweredFacts
  <2>2. UNCHANGED <<succeeded, skipped>>
    BY <2>1 DEF historyVars
  <2>3. result'[e] = go[e][0].outcome /\ \A d \in Events \ {e} : result'[d] = result[d]
    BY <2>1 DEF ResultInv
  <2>4. /\ result'[e] = "nil" => e \in succeeded' \cup skipped'
        /\ \A j \in DOMAIN go'[e] : go'[e][j].outcome = "nil" => e \in succeeded' \cup skipped'
    BY <2>1, <2>2, <2>3 DEF NilInv
  <2> QED
    BY <1>1, <2>1, <2>2, <2>3, <2>4
<1>7. CASE UNCHANGED stackVars
  BY <1>7 DEF stackVars, historyVars, NilInv
<1> QED
  BY <1>0, <1>2, <1>3, <1>4, <1>5, <1>6, <1>7, StepCases

\* Without a timeout, and user code that may panic, the strategy's goroutine
\* is on its way up with nil as soon as the listener has returned nil, or as
\* soon as another goroutine can still make it return nil.
ErrInv ==
  Positions("timeout") \cup Positions("observe") = {} =>
    \A e \in Events : e \in succeeded \/ (\E i \in DOMAIN go[e] : i # 0) =>
      /\ 0 \in DOMAIN go[e] => go[e][0].dir = "up" /\ go[e][0].outcome = "nil"
      /\ result[e] # "error"

LEMMA ErrStep == Stacks /\ ResultInv /\ ErrInv /\ [Next]_vars => ErrInv'
<1> SUFFICES ASSUME Stacks, ResultInv, ErrInv, [Next]_vars
             PROVE  ErrInv'
  OBVIOUS
<1>0. Shape
  BY DEF Stacks
<1> DEFINE Late(e) == e \in succeeded \/ \E i \in DOMAIN go[e] : i # 0
           Up(e) == /\ 0 \in DOMAIN go[e] => go[e][0].dir = "up" /\ go[e][0].outcome = "nil"
                    /\ result[e] # "error"
<1>1. UNCHANGED chain
  BY <1>0, ChainStays
<1>2. SUFFICES ASSUME Positions("timeout") = {}, Positions("observe") = {}
               PROVE  \A e \in Events : Late(e)' => Up(e)'
  BY <1>1 DEF ErrInv, Positions
<1>3. \A e \in Events : Late(e) => Up(e)
  BY <1>2 DEF ErrInv
<1>4. \A k \in DOMAIN chain : chain[k] # "timeout" /\ chain[k] # "observe"
  BY <1>2 DEF Positions
\* The step of one event that leaves every other as it is.
<1>5. ASSUME NEW e \in Events, \A d \in Events \ {e} : go'[d] = go[d] /\ result'[d] = result[d],
             \A d \in Events \ {e} : d \in succeeded' => d \in succeeded,
             Late(e)' => Up(e)'
      PROVE  \A d \in Events : Late(d)' => Up(d)'
  <2> SUFFICES ASSUME NEW d \in Events, d # e
               PROVE  Late(d)' => Up(d)'
    BY <1>5
  <2> QED
    BY <1>3, <1>5
<1>6. ASSUME NEW e \in Events, NEW i \in Goroutines, Moves(e, i)
      PROVE  \A d \in Events : Late(d)' => Up(d)'
  <2>1. /\ i \in DOMAIN go[e] /\ DOMAIN go'[e] = DOMAIN go[e]
        /\ \A j \in DOMAIN go[e] \ {i} : go'[e][j] = go[e][j]
        /\ \A d \in Events \ {e} : go'[d] = go[d]
        /\ Goes(go[e][i], go'[e][i]) /\ UNCHANGED result
    BY <1>6 DEF Moves, Elsewhere
  <2>2. succeeded' # succeeded =>
          go[e][i].dir = "running" /\ go'[e][i].outcome = "nil" /\ succeeded' = succeeded \cup {e}
    BY <1>6 DEF Moves, Records
  <2>3. ASSUME Late(e)'
        PROVE  Up(e)'
    <3>1. CASE Late(e)
      <4>1. Up(e)
        BY <1>3, <3>1
      <4>2. CASE i = 0
        <5> DEFINE f == go[e][0]
                   g == go'[e][0]
        <5>1. f.dir = "up" /\ f.outcome = "nil" /\ Goes(f, g)
          BY <2>1, <4>1, <4>2
        <5>2. ~StartsPanic(f, g)
          BY <1>4, <5>1 DEF StartsPanic, InLayers
        <5> HIDE DEF f, g
        <5>3. g.dir = "up" /\ g.outcome = "nil"
          BY <5>1, <5>2
             DEF Goes, GoesDown, GoesAgain, IsCalled, GoesUp, Passes, Recovers, Turns
        <5> QED
          BY <2>1, <4>1, <5>3 DEF g
      <4>3. CASE i # 0
        BY <2>1, <4>1, <4>3
      <4> QED
        BY <4>2, <4>3
    <3>2. CASE ~Late(e)
      <4>1. e \in succeeded' /\ e \notin succeeded /\ i = 0
        BY <2>1, <2>3, <3>2
      <4>2. go[e][0].dir = "running" /\ go'[e][0].outcome = "nil"
        BY <2>2, <4>1
      <4>3. go'[e][0].dir = "up"
        BY <2>1, <4>1, <4>2 DEF Goes, GoesDown, GoesAgain, IsCalled, GoesUp
      <4>4. result'[e] # "error"
        BY <2>1, <4>1 DEF ResultInv
      <4> QED
        BY <4>2, <4>3, <4>4
    <3> QED
      BY <3>1, <3>2
  <2>4. \A d \in Events \ {e} : d \in succeeded' => d \in succeeded
    BY <2>2
  <2> HIDE DEF Late, Up
  <2> QED
    BY <1>5, <2>1, <2>3, <2>4
<1>7. ASSUME NEW e \in Events, NEW i \in Goroutines,
             TimeoutCalls(e, i) \/ TimeoutReceives(e, i) \/ TimeoutFires(e, i)
      PROVE  FALSE
  <2>1. i \in DOMAIN go[e] /\ InLayers(go[e][i]) /\ chain[go[e][i].at] = "timeout"
    BY <1>0, <1>7, AtFacts DEF TimeoutCalls, TimeoutReceives, TimeoutFires
  <2> QED
    BY <1>4, <2>1 DEF InLayers
<1>8. ASSUME NEW e \in Events, NEW i \in Goroutines, AsyncCalls(e, i)
      PROVE  \A d \in Events : Late(d)' => Up(d)'
  <2>1. /\ i \in DOMAIN go[e] /\ go'[e][i].dir = "up" /\ go'[e][i].outcome = "nil"
        /\ DOMAIN go'[e] = DOMAIN go[e] \cup {FreeSlot(e)} /\ FreeSlot(e) \in 1 .. MaxSpawned
        /\ \A j \in DOMAIN go[e] \ {i} : go'[e][j] = go[e][j]
        /\ \A d \in Events \ {e} : go'[d] = go[d]
        /\ UNCHANGED <<result, succeeded>>
    BY <1>0, <1>8, AsyncCallsFacts
  <2>2. CASE i = 0
    <3>1. Up(e)'
      BY <2>1, <2>2 DEF ResultInv
    <3> HIDE DEF Late, Up
    <3> QED
      BY <1>5, <2>1, <3>1
  <2>3. CASE i # 0
    <3>1. Up(e)
      BY <1>3, <2>1, <2>3
    <3>2. Up(e)'
      BY <2>1, <2>3, <3>1
    <3> HIDE DEF Late, Up
    <3> QED
      BY <1>5, <2>1, <3>2
  <2> QED
    BY <2>2, <2>3
<1>9. ASSUME NEW e \in Events, NEW i \in Goroutines, Sent(e, i)
      PROVE  \A d \in Events : Late(d)' => Up(d)'
  <2>1. SentBy(e, i)
    BY <1>0, <1>9, SentFacts
  <2>2. /\ i \in DOMAIN go[e] /\ i # 0 /\ DOMAIN go'[e] \subseteq DOMAIN go[e]
        /\ \A j \in DOMAIN go[e] \ {i} : go'[e][j] = go[e][j]
        /\ \A d \in Events \ {e} : go'[d] = go[d]
        /\ UNCHANGED <<result, succeeded>>
    BY <2>1 DEF SentBy, historyVars
  <2>3. Up(e)
    BY <1>3, <2>2
  <2>4. Up(e)'
    BY <2>2, <2>3
  <2> HIDE DEF Late, Up
  <2> QED
    BY <1>5, <2>2, <2>4
<1>10. ASSUME NEW e \in Events, Deliver(e)
       PROVE  \A d \in Events : Late(d)' => Up(d)'
  <2>1. /\ \A d \in Events \ {e} : go'[d] = go[d]
        /\ DOMAIN go'[e] = {0}
        /\ result' = [result EXCEPT ![e] = "running"]
        /\ succeeded' = succeeded \ {e}
    BY <1>0, <1>10, DeliverFacts
  <2>2. ~Late(e)'
    BY <2>1
  <2>3. \A d \in Events \ {e} : result'[d] = result[d]
    BY <2>1 DEF ResultInv
  <2> HIDE DEF Late, Up
  <2> QED
    BY <1>5, <2>1, <2>2, <2>3
<1>11. ASSUME NEW e \in Events, Answered(e)
       PROVE  \A d \in Events : Late(d)' => Up(d)'
  <2>1. /\ 0 \in DOMAIN go[e] /\ result' = [result EXCEPT ![e] = go[e][0].outcome]
        /\ DOMAIN go'[e] = DOMAIN go[e] \ {0}
        /\ \A d \in Events \ {e} : go'[d] = go[d]
        /\ UNCHANGED succeeded
    BY <1>0, <1>11, AnsweredFacts DEF historyVars
  <2>2. result'[e] = go[e][0].outcome /\ \A d \in Events \ {e} : result'[d] = result[d]
    BY <2>1 DEF ResultInv
  <2>3. Late(e)' => Up(e)'
    BY <1>3, <2>1, <2>2
  <2> HIDE DEF Late, Up
  <2> QED
    BY <1>5, <2>1, <2>2, <2>3
<1>12. ASSUME UNCHANGED <<go, result, historyVars>>
       PROVE  \A d \in Events : Late(d)' => Up(d)'
  BY <1>3, <1>12 DEF historyVars
<1>13. ASSUME NEW e \in Events, NEW i \in Goroutines, Crash(e, i)
       PROVE  \A d \in Events : Late(d)' => Up(d)'
  <2> HIDE DEF Late, Up
  <2> QED
    BY <1>0, <1>12, <1>13, CrashFacts
<1> HIDE DEF Late, Up
<1> QED
  BY <1>0, <1>6, <1>7, <1>8, <1>9, <1>10, <1>11, <1>12, <1>13, StepCases DEF stackVars

(***************************************************************************)
(* No nesting of recoveries, retries, timeouts and breakers makes success  *)
(* of failure: a nil is the listener's, or of a layer that answers without *)
(* it; and without a timeout or user code no success is lost               *)
(* (events/decorators.go, events/middleware.go).                           *)
(***************************************************************************)
THEOREM RealOutcome == Spec => []OutcomeIsReal
<1>1. Init => ResultInv /\ NilInv /\ ErrInv
  <2> SUFFICES ASSUME Init
               PROVE  ResultInv /\ NilInv /\ ErrInv
    OBVIOUS
  <2>1. \A e \in Events : DOMAIN go[e] = {} /\ result[e] = "idle" /\ e \notin succeeded
    BY GoInit DEF Init
  <2> QED
    BY <2>1, ResultInit DEF NilInv, ErrInv
<1>2. ResultInv /\ NilInv /\ ErrInv => OutcomeIsReal
  BY DEF NilInv, ErrInv, OutcomeIsReal
<1> QED
  BY <1>1, <1>2, ResultStep, NilStep, ErrStep, StacksAlways, PTL DEF Spec
-----------------------------------------------------------------------------
(* One call of the listener at a time. *)

\* A goroutine on its way up may be sent down again by a retry.
MayRetry(f) ==
  \E r \in Positions("retry") :
    /\ f.at <= r /\ r <= f.base
    /\ \/ f.outcome = "error"
       \/ /\ f.outcome = "panic"
          /\ \E c \in Recovering : f.at <= c /\ c < r
       \/ /\ f.outcome = "nil"
          /\ \E o \in Positions("observe"), c \in Recovering :
               f.at <= o /\ o < c /\ c < r

\* It runs the listener, or may still come to it.
Active(f) == f.dir \in {"down", "running"} \/ (f.dir = "up" /\ MayRetry(f))

OneActive ==
  RetriesTimeout \/ RetriesAsync \/
  \A e \in Events : \A i, j \in DOMAIN go[e] :
    Active(go[e][i]) /\ Active(go[e][j]) => i = j

\* A goroutine that will not come to the listener does not change its mind.
LEMMA GoesActive ==
  ASSUME Shape, NEW f \in Frame, NEW g \in Frame, FrameOK(f), Goes(f, g), g.base = f.base,
         g.child = f.child, Active(g)
  PROVE  Active(f)
<1>1. /\ Len(chain) \in Nat /\ DOMAIN chain = 1 .. Len(chain)
      /\ f.at \in Nat /\ f.base \in Nat /\ g.at \in Nat
  BY ChainFacts DEF Shape, Frame
<1>2. CASE f.dir \in {"down", "running"}
  BY <1>2 DEF Active
<1>3. CASE f.dir = "up" /\ GoesAgain(f, g)
  <2>1. f.at \in Positions("retry") /\ f.at <= f.base /\ f.outcome = "error"
    BY <1>3 DEF GoesAgain, InLayers, Positions
  <2> QED
    BY <1>1, <1>3, <2>1 DEF Active, MayRetry
<1>4. CASE f.dir = "up" /\ GoesUp(f, g)
  <2>1. g.dir = "up" /\ g.at = f.at + 1 /\ f.outcome # "none"
    BY <1>4 DEF GoesUp, FrameOK
  <2>2. PICK r \in Positions("retry") :
          /\ g.at <= r /\ r <= g.base
          /\ \/ g.outcome = "error"
             \/ /\ g.outcome = "panic"
                /\ \E c \in Recovering : g.at <= c /\ c < r
             \/ /\ g.outcome = "nil"
                /\ \E o \in Positions("observe"), c \in Recovering :
                     g.at <= o /\ o < c /\ c < r
    BY <2>1 DEF Active, MayRetry
  <2>3. r \in Nat /\ f.at <= r /\ f.at < r /\ r <= f.base
    BY <1>1, <2>1, <2>2 DEF Positions
  <2>4. \A k \in Nat : g.at <= k => f.at <= k /\ f.at < k
    BY <1>1, <2>1
  <2>5. Positions("observe") \subseteq Nat /\ Recovering \subseteq Nat
    BY <1>1 DEF Recovering, Positions
  <2>6. CASE f.outcome = "error"
    BY <1>4, <2>3, <2>6 DEF Active, MayRetry
  <2>7. CASE Passes(f, g) /\ f.outcome = "panic"
    <3>1. \E c \in Recovering : f.at <= c /\ c < r
      BY <2>2, <2>4, <2>5, <2>7 DEF Passes
    <3> QED
      BY <1>4, <2>3, <2>7, <3>1 DEF Active, MayRetry
  <2>8. CASE Passes(f, g) /\ f.outcome = "nil"
    <3>1. \E o \in Positions("observe"), c \in Recovering : f.at <= o /\ o < c /\ c < r
      BY <2>2, <2>4, <2>5, <2>8 DEF Passes
    <3> QED
      BY <1>4, <2>3, <2>8, <3>1 DEF Active, MayRetry
  <2>9. CASE Recovers(f, g)
    <3>1. f.at \in Recovering /\ f.outcome = "panic"
      BY <2>9 DEF Recovers, InLayers, Recovering, Recoveries, Positions
    <3> QED
      BY <1>1, <1>4, <2>3, <3>1 DEF Active, MayRetry
  <2>10. CASE StartsPanic(f, g) /\ f.outcome = "nil"
    <3>1. f.at \in Positions("observe") /\ g.outcome = "panic"
      BY <1>4, <2>10 DEF StartsPanic, InLayers, Positions
    <3>2. PICK c \in Recovering : g.at <= c /\ c < r
      BY <2>2, <3>1
    <3>3. f.at <= f.at /\ f.at < c
      BY <1>1, <2>4, <2>5, <3>2
    <3> QED
      BY <1>4, <2>3, <2>10, <3>1, <3>2, <3>3 DEF Active, MayRetry
  \* a PanicHandler: a recovery further out may still end this panic too
  <2>13. CASE StartsPanic(f, g) /\ f.outcome = "panic"
    <3>1. \E c \in Recovering : g.at <= c /\ c < r
      BY <2>2, <2>13 DEF StartsPanic
    <3>2. \E c \in Recovering : f.at <= c /\ c < r
      BY <2>4, <2>5, <3>1
    <3> QED
      BY <1>4, <2>3, <2>13, <3>2 DEF Active, MayRetry
  <2>11. f.outcome \in {"nil", "error", "panic"}
    BY <2>1 DEF Frame, Outcomes
  <2>12. Passes(f, g) \/ Recovers(f, g) \/ StartsPanic(f, g)
    BY <1>4 DEF GoesUp, Turns
  <2> QED
    BY <2>6, <2>7, <2>8, <2>9, <2>10, <2>11, <2>12, <2>13
<1>5. f.dir \in {"down", "running", "up"}
  BY GoesFrameOK
<1>6. f.dir = "up" => GoesAgain(f, g) \/ GoesUp(f, g)
  BY DEF Goes, GoesDown, IsCalled
<1> QED
  BY <1>2, <1>3, <1>4, <1>5, <1>6

LEMMA ActiveKept ==
  ASSUME UNCHANGED chain,
         \/ RetriesTimeout \/ RetriesAsync
         \/ \A e \in Events : \A i, j \in DOMAIN go'[e] :
              Active(go'[e][i]) /\ Active(go'[e][j]) => i = j
  PROVE  OneActive'
  BY DEF OneActive, RetriesTimeout, RetriesAsync, Active, MayRetry, Recovering, Positions

LEMMA ActiveStep == Stacks /\ OneActive /\ [Next]_vars => OneActive'
<1> SUFFICES ASSUME Stacks, OneActive, [Next]_vars
             PROVE  OneActive'
  OBVIOUS
<1>0. Shape /\ UNCHANGED chain
  BY ChainStays DEF Stacks
<1>1. SUFFICES ASSUME ~RetriesTimeout, ~RetriesAsync
               PROVE  \A e \in Events : \A i, j \in DOMAIN go'[e] :
                        Active(go'[e][i]) /\ Active(go'[e][j]) => i = j
  BY <1>0, ActiveKept
<1>2. \A e \in Events : \A i, j \in DOMAIN go[e] :
        Active(go[e][i]) /\ Active(go[e][j]) => i = j
  BY <1>1 DEF OneActive
\* No goroutine of the event becomes active that was not.
<1>3. ASSUME NEW e \in Events, \A d \in Events \ {e} : go'[d] = go[d],
             \A j \in DOMAIN go'[e] : Active(go'[e][j]) => j \in DOMAIN go[e] /\ Active(go[e][j])
      PROVE  \A d \in Events : \A i, j \in DOMAIN go'[d] :
               Active(go'[d][i]) /\ Active(go'[d][j]) => i = j
  BY <1>2, <1>3
\* The goroutine that was active starts another, and is active no more.
<1>4. ASSUME NEW e \in Events, \A d \in Events \ {e} : go'[d] = go[d],
             NEW i \in DOMAIN go[e], Active(go[e][i]), ~Active(go'[e][i]),
             NEW c, DOMAIN go'[e] = DOMAIN go[e] \cup {c},
             \A j \in DOMAIN go[e] \ {i} : go'[e][j] = go[e][j]
      PROVE  \A d \in Events : \A k, j \in DOMAIN go'[d] :
               Active(go'[d][k]) /\ Active(go'[d][j]) => k = j
  <2>1. \A j \in DOMAIN go[e] : ~Active(go'[e][j])
    BY <1>2, <1>4
  <2> QED
    BY <1>2, <1>4, <2>1
<1>5. ASSUME NEW e \in Events, NEW i \in Goroutines, Moves(e, i)
      PROVE  \A d \in Events : \A k, j \in DOMAIN go'[d] :
               Active(go'[d][k]) /\ Active(go'[d][j]) => k = j
  <2> DEFINE f == go[e][i]
             g == go'[e][i]
  <2>1. /\ i \in DOMAIN go[e] /\ DOMAIN go'[e] = DOMAIN go[e]
        /\ \A j \in DOMAIN go[e] \ {i} : go'[e][j] = go[e][j]
        /\ \A d \in Events \ {e} : go'[d] = go[d]
        /\ Goes(f, g) /\ g.base = f.base /\ g.child = f.child /\ Shape'
    BY <1>5 DEF Moves, Elsewhere
  <2>2. Frame' = Frame
    BY <1>0 DEF Frame
  <2>3. f \in Frame /\ g \in Frame /\ FrameOK(f)
    BY <2>1, <2>2 DEF Stacks, Shape, FramesOK
  <2>4. Active(g) => Active(f)
    BY <1>0, <2>1, <2>3, GoesActive
  <2> QED
    BY <1>3, <2>1, <2>4
<1>6. ASSUME NEW e \in Events, NEW i \in Goroutines, TimeoutCalls(e, i)
      PROVE  \A d \in Events : \A k, j \in DOMAIN go'[d] :
               Active(go'[d][k]) /\ Active(go'[d][j]) => k = j
  <2>1. /\ i \in DOMAIN go[e] /\ go[e][i].dir = "down" /\ go'[e][i].dir = "waiting"
        /\ DOMAIN go'[e] = DOMAIN go[e] \cup {FreeSlot(e)}
        /\ \A j \in DOMAIN go[e] \ {i} : go'[e][j] = go[e][j]
        /\ \A d \in Events \ {e} : go'[d] = go[d]
    BY <1>0, <1>6, TimeoutCallsFacts
  <2>2. Active(go[e][i]) /\ ~Active(go'[e][i])
    BY <2>1 DEF Active
  <2> DEFINE c == FreeSlot(e)
  <2>3. DOMAIN go'[e] = DOMAIN go[e] \cup {c}
    BY <2>1
  <2> HIDE DEF c
  <2> QED
    BY <1>4, <2>1, <2>2, <2>3
<1>7. ASSUME NEW e \in Events, NEW i \in Goroutines, AsyncCalls(e, i)
      PROVE  \A d \in Events : \A k, j \in DOMAIN go'[d] :
               Active(go'[d][k]) /\ Active(go'[d][j]) => k = j
  <2> DEFINE f == go[e][i]
             g == go'[e][i]
  <2>1. /\ i \in DOMAIN go[e] /\ f.dir = "down" /\ InLayers(f) /\ chain[f.at] = "async"
        /\ g.dir = "up" /\ g.outcome = "nil" /\ g.at = f.at + 1
        /\ DOMAIN go'[e] = DOMAIN go[e] \cup {FreeSlot(e)}
        /\ \A j \in DOMAIN go[e] \ {i} : go'[e][j] = go[e][j]
        /\ \A d \in Events \ {e} : go'[d] = go[d]
    BY <1>0, <1>7, AsyncCallsFacts
  <2>2. Active(f)
    BY <2>1 DEF Active
  <2>3. ~Active(g)
    <3>1. f.at \in Positions("async") /\ f.at \in Nat /\ Positions("observe") \subseteq Nat
      BY <1>0, <2>1, ChainFacts DEF Shape, InLayers, Positions
    <3>2. \A o \in Positions("observe") : g.at <= o => f.at < o
      BY <2>1, <3>1
    <3> QED
      BY <1>1, <2>1, <3>1, <3>2 DEF Active, MayRetry, RetriesAsync
  <2> QED
    BY <1>4, <2>1, <2>2, <2>3
<1>8. ASSUME NEW e \in Events, NEW i \in Goroutines, TimeoutReceives(e, i) \/ TimeoutFires(e, i)
      PROVE  \A d \in Events : \A k, j \in DOMAIN go'[d] :
               Active(go'[d][k]) /\ Active(go'[d][j]) => k = j
  <2> DEFINE f == go[e][i]
             g == go'[e][i]
  <2>1. TimeoutEnds(e, i)
    BY <1>0, <1>8, WaitsForOther, TimeoutEndsFacts
  <2>2. /\ InLayers(f) /\ chain[f.at] = "timeout" /\ g.dir = "up" /\ g.at = f.at + 1
        /\ \A j \in DOMAIN go'[e] \ {i} : j \in DOMAIN go[e] /\ go'[e][j] = go[e][j]
        /\ \A d \in Events \ {e} : go'[d] = go[d]
    BY <2>1 DEF TimeoutEnds
  <2>3. ~Active(g)
    <3>1. f.at \in Positions("timeout") /\ f.at \in Nat /\ Positions("retry") \subseteq Nat
      BY <1>0, <2>2, ChainFacts DEF Shape, InLayers, Positions
    <3>2. \A r \in Positions("retry") : g.at <= r => f.at < r
      BY <2>2, <3>1
    <3> QED
      BY <1>1, <2>2, <3>1, <3>2 DEF Active, MayRetry, RetriesTimeout
  <2> QED
    BY <1>3, <2>2, <2>3
<1>9. ASSUME NEW e \in Events, NEW i \in Goroutines, Sent(e, i)
      PROVE  \A d \in Events : \A k, j \in DOMAIN go'[d] :
               Active(go'[d][k]) /\ Active(go'[d][j]) => k = j
  <2>1. SentBy(e, i)
    BY <1>0, <1>9, SentFacts
  <2>2. /\ DOMAIN go'[e] \subseteq DOMAIN go[e]
        /\ i \in DOMAIN go'[e] => go'[e][i].dir = "done"
        /\ \A j \in DOMAIN go[e] \ {i} : go'[e][j] = go[e][j]
        /\ \A d \in Events \ {e} : go'[d] = go[d]
    BY <2>1 DEF SentBy
  <2>3. i \in DOMAIN go'[e] => ~Active(go'[e][i])
    BY <2>2 DEF Active
  <2> QED
    BY <1>3, <2>2, <2>3
<1>10. ASSUME NEW e \in Events, Deliver(e)
       PROVE  \A d \in Events : \A k, j \in DOMAIN go'[d] :
                Active(go'[d][k]) /\ Active(go'[d][j]) => k = j
  BY <1>0, <1>2, <1>10, DeliverFacts
<1>11. ASSUME NEW e \in Events, Answered(e)
       PROVE  \A d \in Events : \A k, j \in DOMAIN go'[d] :
                Active(go'[d][k]) /\ Active(go'[d][j]) => k = j
  <2>1. /\ DOMAIN go'[e] = DOMAIN go[e] \ {0}
        /\ \A j \in DOMAIN go[e] \ {0} : go'[e][j] = go[e][j]
        /\ \A d \in Events \ {e} : go'[d] = go[d]
    BY <1>0, <1>11, AnsweredFacts
  <2> QED
    BY <1>3, <2>1
<1>12. ASSUME UNCHANGED go
       PROVE  \A d \in Events : \A k, j \in DOMAIN go'[d] :
                Active(go'[d][k]) /\ Active(go'[d][j]) => k = j
  BY <1>2, <1>12
<1>13. ASSUME NEW e \in Events, NEW i \in Goroutines, Crash(e, i)
       PROVE  UNCHANGED go
  BY <1>0, <1>13, CrashFacts
<1> QED
  BY <1>0, <1>5, <1>6, <1>7, <1>8, <1>9, <1>10, <1>11, <1>12, <1>13, StepCases DEF stackVars

(***************************************************************************)
(* A listener runs beside itself for one event only where a retry has been *)
(* put around a timeout, or around an async layer with user code and a     *)
(* recovery in between (events/decorators.go, events/middleware.go).       *)
(***************************************************************************)
THEOREM SelfOverlap == Spec => []NoSelfOverlap
<1>1. Init => OneActive
  BY GoInit DEF OneActive
<1>2. OneActive => NoSelfOverlap
  BY DEF OneActive, NoSelfOverlap, Running, Active
<1> QED
  BY <1>1, <1>2, ActiveStep, StacksAlways, PTL DEF Spec
-----------------------------------------------------------------------------
(* The rate limiter. *)

\* Calls the limiter lets pass are an interval apart.
Spaced ==
  /\ admitted \subseteq 0 .. Second - 1
  /\ \A a \in admitted : a >= sinceCalled
  /\ \A a, b \in admitted : a < b => b - a >= Interval

LEMMA SpacedStep == ClockInv /\ Spaced /\ [Next]_vars => Spaced'
<1> SUFFICES ASSUME ClockInv, Spaced, [Next]_vars
             PROVE  Spaced'
  OBVIOUS
<1>0. /\ Second \in Nat /\ Second > 0 /\ Interval \in Nat \ {0}
      /\ sinceCalled \in Nat /\ sinceCalled <= Interval
  BY NumbersAssumption, IntervalFacts DEF ClockInv
<1>1. ASSUME NEW e \in Events, NEW i \in Goroutines, LimitPasses(e, i)
      PROVE  Spaced'
  <2>1. sinceCalled >= Interval /\ sinceCalled' = 0 /\ admitted' = admitted \cup {0}
    BY <1>1 DEF LimitPasses
  <2>2. \A a \in admitted : a \in Nat /\ a >= Interval
    BY <1>0, <2>1 DEF Spaced
  <2> QED
    BY <1>0, <2>1, <2>2 DEF Spaced
<1>2. ASSUME NEW e \in Events, NEW i \in Goroutines,
             BreakerPasses(e, i) \/ BreakerSuccess(e, i) \/ BreakerFailure(e, i)
      PROVE  UNCHANGED limitVars
  BY <1>2 DEF BreakerPasses, BreakerSuccess, BreakerFailure
<1>3. CASE Tick
  <2>1. /\ sinceCalled' \in Nat /\ sinceCalled' <= sinceCalled + 1
        /\ admitted' = {a + 1 : a \in {b \in admitted : b + 1 < Second}}
    BY <1>0, <1>3 DEF Tick
  <2>2. \A a \in admitted' : \E b \in admitted : a = b + 1 /\ b + 1 < Second
    BY <2>1
  <2>3. \A b \in admitted : b \in Nat /\ b >= sinceCalled
    BY <1>0 DEF Spaced
  <2>4. admitted' \subseteq 0 .. Second - 1
    BY <1>0, <2>2, <2>3
  <2>5. \A a \in admitted' : a >= sinceCalled'
    BY <1>0, <2>1, <2>2, <2>3
  <2>6. ASSUME NEW a \in admitted', NEW b \in admitted', a < b
        PROVE  b - a >= Interval
    <3>1. PICK x \in admitted, y \in admitted : a = x + 1 /\ b = y + 1
      BY <2>2
    <3>2. x \in Nat /\ y \in Nat /\ x < y
      BY <2>3, <2>6, <3>1
    <3>3. y - x >= Interval
      BY <3>2 DEF Spaced
    <3> QED
      BY <1>0, <3>1, <3>2, <3>3
  <2> QED
    BY <2>4, <2>5, <2>6 DEF Spaced, Interval
<1>4. CASE UNCHANGED limitVars
  BY <1>4 DEF limitVars, Spaced
<1> QED
  BY <1>1, <1>2, <1>3, <1>4, OthersKeep

\* Numbers an interval apart fall into different intervals.
LEMMA SpacedBound ==
  ASSUME Spaced, Rate <= Interval + 1
  PROVE  Cardinality(admitted) <= Rate + 1
<1> DEFINE n == Interval
           f == [a \in admitted |-> a \div n]
<1>1. /\ n \in Nat /\ n > 0 /\ Rate \in Nat /\ Second \in Nat /\ Second > 0
      /\ Second < Rate * n + Rate
  BY NumbersAssumption, IntervalFacts
<1>2. Rate <= n + 1
  OBVIOUS
<1>3. \A a, b \in admitted : a < b => b - a >= n
  BY DEF Spaced
<1>4. \A a \in admitted : a \in Nat /\ a <= Second - 1
  BY <1>1 DEF Spaced
<1> HIDE DEF n
<1>5. ASSUME NEW a \in Nat
      PROVE  a \div n \in Nat /\ n * (a \div n) <= a /\ a < n * (a \div n) + n
  BY <1>1
<1>6. ASSUME NEW a \in admitted
      PROVE  a \div n \in 0 .. Rate
  <2> DEFINE q == a \div n
  <2>1. q \in Nat /\ n * q <= a
    BY <1>4, <1>5
  <2> HIDE DEF q
  <2>2. a <= Second - 1 /\ a \in Nat
    BY <1>4
  <2>3. n * q < n * Rate + n
    <3>1. Rate * n \in Nat /\ n * Rate = Rate * n /\ n * q \in Nat
      BY <1>1, <2>1
    <3> QED
      BY <1>1, <1>2, <2>1, <2>2, <3>1
  <2>4. n * Rate + n = n * (Rate + 1)
    BY <1>1
  <2>5. ~ (q >= Rate + 1)
    <3>1. q >= Rate + 1 => n * q >= n * (Rate + 1)
      BY <1>1, <2>1
    <3> QED
      BY <1>1, <2>1, <2>3, <2>4, <3>1
  <2> QED
    BY <1>1, <2>1, <2>5 DEF q
<1>7. ASSUME NEW a \in admitted, NEW b \in admitted, a < b
      PROVE  a \div n # b \div n
  <2> DEFINE p == a \div n
             q == b \div n
  <2>1. p \in Nat /\ q \in Nat /\ n * p <= a /\ b < n * q + n /\ a \in Nat /\ b \in Nat
    BY <1>4, <1>5
  <2>2. b >= a + n
    BY <1>1, <1>3, <1>7, <2>1
  <2> HIDE DEF p, q
  <2>3. p = q => n * p = n * q
    OBVIOUS
  <2>4. n * p \in Nat /\ n * q \in Nat
    BY <1>1, <2>1
  <2>5. p # q
    BY <1>1, <2>1, <2>2, <2>3, <2>4
  <2> QED
    BY <2>5 DEF p, q
<1>8. f \in Injection(admitted, 0 .. Rate)
  <2>1. f \in [admitted -> 0 .. Rate]
    BY <1>6
  <2>2. \A a, b \in admitted : f[a] = f[b] => a = b
    <3> SUFFICES ASSUME NEW a \in admitted, NEW b \in admitted, a # b
                 PROVE  a \div n # b \div n
      OBVIOUS
    <3>1. a < b \/ b < a
      BY <1>4
    <3> QED
      BY <1>7, <3>1
  <2> HIDE DEF f
  <2> QED
    BY <2>1, <2>2 DEF Injection, IsInjective
<1> HIDE DEF f
<1>9. IsFiniteSet(0 .. Rate) /\ Cardinality(0 .. Rate) = Rate + 1
  BY <1>1, FS_Interval
<1>10. Cardinality(admitted) <= Cardinality(0 .. Rate)
  BY <1>8, <1>9, FS_Injection
<1> QED
  BY <1>9, <1>10

(***************************************************************************)
(* In a second the limiter lets pass one call more than its rate, at most  *)
(* (events/decorators.go, rateLimiter.allow), as long as the interval is   *)
(* not shorter, in ticks, than the rate less one: with larger rates the    *)
(* rounding of the interval adds up to more.                               *)
(***************************************************************************)
THEOREM RateKept ==
  ASSUME Rate <= Interval + 1
  PROVE  Spec => []AtMostRate
<1>1. Init => ClockInv
  BY NumbersAssumption, IntervalFacts DEF Init, ClockInv
<1>2. Init => Spaced
  BY DEF Init, Spaced
<1>3. Spaced => AtMostRate
  BY SpacedBound DEF AtMostRate
<1> QED
  BY <1>1, <1>2, <1>3, ClockStep, SpacedStep, PTL DEF Spec
=============================================================================
