------------------------ MODULE BreakerRuntimeProofs ------------------------
(***************************************************************************)
(* What is proved of BreakerRuntime, for every set of goroutines, any      *)
(* number of loggers, and foreign code that panics and calls back wherever *)
(* it likes; and, in the second part, of LogFields, for every number of    *)
(* arrays, views and fields.                                               *)
(***************************************************************************)
EXTENDS BreakerRuntime, LogFields, FiniteSetTheorems, SequenceTheorems, TLAPS

(***************************************************************************)
(* The steps of one thread, by what they leave alone: those that touch no  *)
(* log call and no logger, those that begin a log call of the breaker's,   *)
(* and those of the loggers.                                               *)
(***************************************************************************)
Quiet(t) ==
  \/ Capture(t) \/ RunAction(t) \/ OnEntry(t) \/ SaveReturns(t) \/ SaveReenters(t)
  \/ SavePanics(t) \/ ActionPanics(t)

LoggerMoves(t) ==
  \/ AppLog(t) \/ LogCheck(t) \/ LogLock(t) \/ LogWrite(t) \/ LogPanics(t)
  \/ LogReenters(t) \/ ReenteredState(t) \/ SetLevel(t) \/ With(t)

\* OpenExecute and Report without a transition.
Rejects(t) ==
  pc[t] = "delegated" /\ held[t] = "Open" /\ mutex = NoOwner /\ Section(t, failureCount)
Counts(t) ==
  /\ pc[t] = "running" /\ held[t] = "Closed" /\ mutex = NoOwner
  /\ \E count \in Nat : count < FailureThreshold /\ Section(t, count)

\* Entering transitionTo from the unlocked breaker, or from Reset.
Enters(t) ==
  /\ mutex = NoOwner \/ (pc[t] = "resetting" /\ log[t] = NoLog)
  /\ pc[t] \in {"delegated", "running", "resetting"} \/ Free(t)
  /\ UNCHANGED held /\ (stamp' = stamp \/ stamp' = "zero")
  /\ \E new \in States, count \in Nat : TransitionTo(t, new, count)

LEMMA IncrementedFacts ==
  ASSUME failureCount \in Nat
  PROVE  Incremented \in Nat
  BY DEF Incremented

LEMMA StepKinds ==
  ASSUME TypeOK, Next
  PROVE  \/ Expire
         \/ \E t \in Threads :
              \/ Quiet(t) \/ LoggerMoves(t) \/ Rejects(t) \/ Counts(t)
              \/ Enters(t) \/ Reset(t) \/ SaveLogs(t)
<1>1. ASSUME NEW t \in Threads, OpenExecute(t)
      PROVE  Rejects(t) \/ Enters(t)
  BY <1>1 DEF OpenExecute, Rejects, Enters, TypeOK, States
<1>2. ASSUME NEW t \in Threads, Report(t)
      PROVE  Counts(t) \/ Enters(t)
  <2>1. Incremented \in Nat /\ 0 \in Nat /\ 0 < FailureThreshold /\ failureCount \in Nat
    BY IncrementedFacts, ThresholdAssumption DEF TypeOK
  <2> QED
    BY <1>2, <2>1 DEF Report, Counts, Enters, States
<1>3. ASSUME NEW t \in Threads, State(t) \/ ResetTransition(t)
      PROVE  Enters(t)
  BY <1>3 DEF State, ResetTransition, Enters, TypeOK, States
<1> QED
  BY <1>1, <1>2, <1>3 DEF Next, Proceed, Quiet, LoggerMoves

LEMMA LogAtFacts ==
  ASSUME TypeOK, NEW t \in Threads, log[t] # NoLog,
         NEW where \in {"check", "lock", "write", "reenter", "stuck"}, LogAt(t, where)
  PROVE  /\ log[t] \in LogCalls
         /\ log'[t] \in LogCalls
         /\ log'[t].at = where
         /\ log'[t].logger = log[t].logger
         /\ log'[t].off = log[t].off
         /\ \A u \in Threads : u # t => log'[u] = log[u]
         /\ log' \in [Threads -> LogCalls \cup {NoLog}]
<1>1. log[t] \in LogCalls
  BY DEF TypeOK
<1> DEFINE c == [log[t] EXCEPT !.at = where]
<1>2. /\ c \in LogCalls
      /\ c.at = where /\ c.logger = log[t].logger /\ c.off = log[t].off
  BY <1>1 DEF LogCalls
<1>3. log' = [log EXCEPT ![t] = c]
  BY DEF LogAt
<1> HIDE DEF c
<1> QED
  BY <1>1, <1>2, <1>3 DEF TypeOK

LEMMA LogDoneFacts ==
  ASSUME TypeOK, NEW t \in Threads, LogDone(t)
  PROVE  /\ log'[t] = NoLog
         /\ \A u \in Threads : u # t => log'[u] = log[u]
         /\ log' \in [Threads -> LogCalls \cup {NoLog}]
  BY DEF TypeOK, LogDone

LEMMA WithFacts ==
  ASSUME TypeOK, NEW t \in Threads, With(t)
  PROVE  \E n \in 1 .. MaxLoggers :
           /\ DOMAIN minLevel = 1 .. n /\ n < MaxLoggers
           /\ \E l \in 1 .. n :
                /\ minLevel' = [k \in 1 .. n \cup {n + 1} |->
                                 IF k = n + 1 THEN minLevel[l] ELSE minLevel[k]]
                /\ lock' = [k \in 1 .. n \cup {n + 1} |->
                             IF k = n + 1 THEN NoOwner ELSE lock[k]]
<1>1. PICK n \in 1 .. MaxLoggers : Loggers = 1 .. n
  BY DEF TypeOK
<1>2. Cardinality(1 .. n) = n
  BY LoggersAssumption, FS_Interval
<1> QED
  BY <1>1, <1>2 DEF With, Loggers
-----------------------------------------------------------------------------
(* Types *)

LEMMA RuntimeTypingInit == Init => TypeOK
<1> SUFFICES ASSUME Init PROVE TypeOK
  OBVIOUS
<1>1. Loggers = 1 .. 1 /\ 1 \in 1 .. MaxLoggers
  BY LoggersAssumption DEF Init, Loggers, BreakerLogger
<1>2. Loggers \in {1 .. n : n \in 1 .. MaxLoggers}
  BY <1>1
<1>3. minLevel \in [Loggers -> Levels] /\ lock \in [Loggers -> Threads \cup {NoOwner}]
  BY DEF Init, Loggers
<1>4. \A t \in Threads : log[t] = NoLog /\ ~Locked(t)
  BY DEF Init, Locked
<1> QED
  BY <1>2, <1>3, <1>4 DEF Init, TypeOK, States, NoState, NoLog

LEMMA RuntimeTypingStep == TypeOK /\ [Next]_vars => TypeOK'
<1> SUFFICES ASSUME TypeOK, [Next]_vars
             PROVE  TypeOK'
  OBVIOUS
<1> USE ThreadsAssumption, LoggersAssumption
        DEF TypeOK, breakerVars, loggerVars, Loggers, Locked, NoOwner, NoState,
            NoLine, States, LogCalls, NoLog, Own
<1>1. ASSUME NEW t \in Threads, Quiet(t)
      PROVE  TypeOK'
  <2> USE DEF LogKept, Goto, Holding, Return
  <2>1. CASE Capture(t)
    BY <2>1 DEF Capture, Free
  <2>2. CASE RunAction(t)
    BY <2>2 DEF RunAction
  <2>3. CASE OnEntry(t)
    BY <2>3 DEF OnEntry
  <2>4. CASE SaveReturns(t)
    <3>1. CASE held[t] = "Open"
      <4>1. /\ pc' = [pc EXCEPT ![t] = "delegated"] /\ held' = [held EXCEPT ![t] = currentState]
            /\ mutex' = NoOwner
            /\ UNCHANGED <<mode, breakerVars, leak, damaged, log, loggerVars>>
        BY <2>4, <3>1 DEF SaveReturns
      <4>2. Locked(t) /\ mutex = t
        BY <2>4 DEF SaveReturns, InSave
      <4>3. \A u \in Threads : ~Locked(u)'
        BY <4>1, <4>2
      <4> QED
        BY <4>1, <4>3
    <3>2. CASE held[t] # "Open"
      BY <2>4, <3>2 DEF SaveReturns, InSave
    <3> QED
      BY <3>1, <3>2
  <2>5. CASE SaveReenters(t)
    BY <2>5 DEF SaveReenters, InSave
  <2>6. CASE SavePanics(t)
    BY <2>6 DEF SavePanics, InSave, Unwind
  <2>7. CASE ActionPanics(t)
    BY <2>7 DEF ActionPanics, Unwind
  <2> QED
    BY <1>1, <2>1, <2>2, <2>3, <2>4, <2>5, <2>6, <2>7 DEF Quiet
<1>2. ASSUME NEW t \in Threads, LoggerMoves(t)
      PROVE  TypeOK'
  <2> USE DEF BreakerKept, LogDone, Info, BreakerLogger
  <2>1. CASE AppLog(t)
    BY <2>1 DEF AppLog, LogCall
  <2>2. CASE LogCheck(t)
    <3>1. LogDone(t) \/ LogAt(t, "lock")
      BY <2>2 DEF LogCheck
    <3>2. /\ log[t].at = "check"
          /\ UNCHANGED <<mode, breakerVars, leak, damaged, mutex, pc, held, loggerVars>>
      BY <2>2 DEF LogCheck
    <3>3. CASE LogDone(t)
      BY <3>2, <3>3
    <3>4. CASE LogAt(t, "lock")
      <4>1. /\ log'[t].at = "lock" /\ log'[t].logger = log[t].logger
            /\ \A u \in Threads : u # t => log'[u] = log[u]
            /\ log' \in [Threads -> LogCalls \cup {NoLog}]
        BY <3>2, <3>4, LogAtFacts
      <4> QED
        BY <3>2, <3>4, <4>1
    <3> QED
      BY <3>1, <3>3, <3>4
  <2>3. CASE LogLock(t)
    <3>1. \/ LogDone(t) /\ UNCHANGED lock
          \/ LogAt(t, "write") /\ lock' = [lock EXCEPT ![Own(t)] = t]
      BY <2>3 DEF LogLock
    <3>2. /\ log[t].at = "lock" /\ lock[Own(t)] = NoOwner
          /\ UNCHANGED <<mode, breakerVars, leak, damaged, mutex, pc, held, minLevel>>
      BY <2>3 DEF LogLock
    <3>3. CASE LogDone(t) /\ UNCHANGED lock
      BY <3>2, <3>3
    <3>4. CASE LogAt(t, "write") /\ lock' = [lock EXCEPT ![Own(t)] = t]
      BY <3>2, <3>4, LogAtFacts
    <3> QED
      BY <3>1, <3>3, <3>4
  <2>4. CASE LogWrite(t)
    BY <2>4 DEF LogWrite
  <2>5. CASE LogPanics(t)
    BY <2>5 DEF LogPanics, Unwind, Return, Goto, Holding
  <2>6. CASE LogReenters(t)
    BY <2>6, LogAtFacts DEF LogReenters
  <2>7. CASE ReenteredState(t)
    <3>1. /\ log[t].at = "reenter" /\ mutex = NoOwner
          /\ UNCHANGED <<mode, failureCount, stamp, pc, held, loggerVars, leak, damaged>>
      BY <2>7 DEF ReenteredState
    <3>2. \/ mutex' = t /\ currentState' = "HalfOpen" /\ LogAt(t, "stuck")
          \/ LogAt(t, "write") /\ UNCHANGED <<mutex, currentState>>
      BY <2>7 DEF ReenteredState
    <3>3. /\ log'[t].at \in {"stuck", "write"} /\ log'[t].logger = log[t].logger
          /\ \A u \in Threads : u # t => log'[u] = log[u]
          /\ log' \in [Threads -> LogCalls \cup {NoLog}]
      BY <3>1, <3>2, LogAtFacts
    <3>4. /\ mutex' \in {t, mutex} /\ currentState' \in States
          /\ \A u \in Threads : ~Locked(u)
      BY <3>1, <3>2
    <3>5. \A u \in Threads : ~Locked(u)'
      BY <3>1, <3>4
    <3>6. \A u \in Threads :
            log'[u].at \in {"write", "reenter", "stuck"} => lock'[log'[u].logger] = u
      BY <3>1, <3>3
    <3> QED
      BY <3>1, <3>3, <3>4, <3>5, <3>6
  <2>8. CASE SetLevel(t)
    <3>1. PICK l \in Loggers, v \in Levels :
            /\ minLevel' = [minLevel EXCEPT ![l] = v]
            /\ log' = [u \in Threads |-> IF log[u].logger = l
                                          THEN [log[u] EXCEPT !.off = @ \/ v > Info]
                                          ELSE log[u]]
            /\ UNCHANGED <<mode, breakerVars, leak, damaged, mutex, pc, held, lock>>
      BY <2>8 DEF SetLevel
    <3>2. minLevel' \in [Loggers -> Levels] /\ DOMAIN minLevel' = Loggers
      BY <3>1
    <3> DEFINE c(u) == IF log[u].logger = l THEN [log[u] EXCEPT !.off = @ \/ v > Info]
                       ELSE log[u]
    <3>3. ASSUME NEW u \in Threads
          PROVE  /\ c(u).at = log[u].at /\ c(u).logger = log[u].logger
                 /\ c(u) \in LogCalls \cup {NoLog}
      <4>1. CASE log[u] \in LogCalls
        BY <4>1
      <4>2. CASE log[u] = NoLog
        BY <4>2
      <4> QED
        BY <4>1, <4>2
    <3>4. log' = [u \in Threads |-> c(u)]
      BY <3>1
    <3> HIDE DEF c
    <3>5. /\ log' \in [Threads -> LogCalls \cup {NoLog}]
          /\ \A u \in Threads : log'[u].at = log[u].at /\ log'[u].logger = log[u].logger
      BY <3>3, <3>4
    <3>6. UNCHANGED <<mode, breakerVars, leak, damaged, mutex, pc, held, lock>>
      BY <3>1
    <3> QED
      BY <3>2, <3>5, <3>6
  <2>9. CASE With(t)
    <3>1. PICK n \in 1 .. MaxLoggers :
            /\ DOMAIN minLevel = 1 .. n /\ n < MaxLoggers
            /\ \E l \in 1 .. n :
                 /\ minLevel' = [k \in 1 .. n \cup {n + 1} |->
                                  IF k = n + 1 THEN minLevel[l] ELSE minLevel[k]]
                 /\ lock' = [k \in 1 .. n \cup {n + 1} |->
                              IF k = n + 1 THEN NoOwner ELSE lock[k]]
      BY <2>9, WithFacts
    <3>3. UNCHANGED <<mode, breakerVars, leak, damaged, mutex, pc, held, log>>
      BY <2>9 DEF With
    <3>4. 1 .. n \cup {n + 1} = 1 .. n + 1 /\ n + 1 \in 1 .. MaxLoggers
      BY <3>1, <3>3
    <3>5. DOMAIN minLevel' = 1 .. n + 1 /\ minLevel' \in [1 .. n + 1 -> Levels]
      BY <3>1, <3>3, <3>4
    <3>6. lock' \in [1 .. n + 1 -> Threads \cup {NoOwner}]
          /\ \A k \in 1 .. n : lock'[k] = lock[k]
      BY <3>1, <3>3, <3>4
    <3>7. \A u \in Threads : log[u] \in LogCalls => log[u].logger \in 1 .. n
      BY <3>1
    <3>8. \A u \in Threads : log'[u].at \in {"write", "reenter", "stuck"}
                               => lock'[log'[u].logger] = u
      BY <3>1, <3>3, <3>6, <3>7
    <3>9. log' \in [Threads -> [logger : 1 .. n + 1, at : {"check", "lock", "write",
                      "reenter", "stuck"}, off : BOOLEAN] \cup {NoLog}]
      BY <3>1, <3>3, <3>4
    <3>10. DOMAIN minLevel' \in {1 .. k : k \in 1 .. MaxLoggers}
      BY <3>4, <3>5
    <3>11. UNCHANGED <<mode, breakerVars, leak, damaged, mutex, pc, held>>
      BY <3>3
    <3> QED
      BY <3>5, <3>6, <3>8, <3>9, <3>10, <3>11
  <2> QED
    BY <1>2, <2>1, <2>2, <2>3, <2>4, <2>5, <2>6, <2>7, <2>8, <2>9 DEF LoggerMoves
<1>3. ASSUME NEW t \in Threads, Rejects(t) \/ Counts(t)
      PROVE  TypeOK'
  BY <1>3 DEF Rejects, Counts, Section, Return, Goto, Holding, LogKept
<1>4. ASSUME NEW t \in Threads, Enters(t)
      PROVE  TypeOK'
  BY <1>4 DEF Enters, TransitionTo, Goto, LogCall, BreakerLogger
<1>5. ASSUME NEW t \in Threads, Reset(t) \/ SaveLogs(t)
      PROVE  TypeOK'
  <2>1. CASE Reset(t)
    BY <1>5, <2>1 DEF Reset, Goto, LogCall, BreakerLogger
  <2>2. CASE SaveLogs(t)
    BY <1>5, <2>2 DEF SaveLogs, Goto, LogCall, BreakerLogger
  <2> QED
    BY <1>5, <2>1, <2>2
<1>6. CASE Expire
  BY <1>6 DEF Expire, LogKept
<1>7. CASE UNCHANGED vars
  BY <1>7 DEF vars
<1> QED
  BY <1>1, <1>2, <1>3, <1>4, <1>5, <1>6, <1>7, StepKinds

(***************************************************************************)
(* Types, and that the mutexes exclude: a critical section is its owner's, *)
(* a line is written by the owner of the logger's mutex (default.go:136).  *)
(***************************************************************************)
THEOREM RuntimeTyping == Spec => []TypeOK
  BY RuntimeTypingInit, RuntimeTypingStep, PTL DEF Spec
-----------------------------------------------------------------------------
(* The mutex *)

\* Where in the breaker a thread can be that logs.
LogWhere ==
  \A t \in Threads : log[t] # NoLog => pc[t] \in {"idle", "resetting", "entry", "logged"}

\* The owner of the mutex is in a critical section, or waits for itself in a
\* State() that logs, or has returned without unlocking.
MutexHeld ==
  /\ leak \in {NoState, "Open"}
  /\ mutex \in Threads => \/ Locked(mutex)
                          \/ log[mutex].at = "stuck"
                          \/ leak = "Open" /\ pc[mutex] = "idle"

MutexInv == LogWhere /\ MutexHeld

LEMMA MutexInvInit == Init => MutexInv
  BY ThreadsAssumption DEF Init, MutexInv, LogWhere, MutexHeld, NoOwner

LEMMA MutexInvStep == TypeOK /\ MutexInv /\ [Next]_vars => MutexInv'
<1> SUFFICES ASSUME TypeOK, MutexInv, [Next]_vars
             PROVE  MutexInv'
  OBVIOUS
<1> USE ThreadsAssumption DEF MutexInv, LogWhere, MutexHeld, Locked, NoOwner, NoState, NoLog
<1>t. /\ pc \in [Threads -> {"idle", "delegated", "running", "resetting", "entry",
                             "saving", "logged", "reentered"}]
      /\ held \in [Threads -> States \cup {NoState}]
      /\ mutex \in Threads \cup {NoOwner}
      /\ \A t \in Threads : Locked(t) => mutex = t
  BY DEF TypeOK
<1>1. ASSUME NEW t \in Threads, Quiet(t)
      PROVE  MutexInv'
  <2> USE DEF LogKept, Goto, Holding, Return
  <2>1. CASE Capture(t)
    BY <1>t, <2>1 DEF Capture, Free
  <2>2. CASE RunAction(t)
    BY <1>t, <2>2 DEF RunAction
  <2>3. CASE OnEntry(t)
    BY <1>t, <2>3 DEF OnEntry
  <2>4. CASE SaveReturns(t)
    BY <1>t, <2>4 DEF SaveReturns, InSave
  <2>5. CASE SaveReenters(t)
    BY <1>t, <2>5 DEF SaveReenters, InSave
  <2>6. CASE SavePanics(t)
    BY <1>t, <2>6 DEF SavePanics, InSave, Unwind
  <2>7. CASE ActionPanics(t)
    BY <1>t, <2>7 DEF ActionPanics, Unwind
  <2> QED
    BY <1>1, <2>1, <2>2, <2>3, <2>4, <2>5, <2>6, <2>7 DEF Quiet
<1>2. ASSUME NEW t \in Threads, LoggerMoves(t)
      PROVE  MutexInv'
  <2>1. CASE AppLog(t)
    <3>1. pc[t] = "idle" /\ UNCHANGED <<leak, mutex, pc>> /\ log[t] = NoLog
          /\ \A u \in Threads : u # t => log'[u] = log[u]
      BY <2>1 DEF AppLog, Free, BreakerKept, TypeOK
    <3>2. log[t].at # "stuck"
      BY <3>1
    <3>3. LogWhere'
      BY <3>1
    <3>4. MutexHeld'
      <4>1. CASE mutex = t
        BY <3>1, <3>2, <4>1
      <4>2. CASE mutex # t
        BY <3>1, <4>2
      <4> QED
        BY <4>1, <4>2
    <3> QED
      BY <3>3, <3>4
  <2>2. CASE LogCheck(t) \/ LogLock(t) \/ LogWrite(t) \/ LogReenters(t)
    <3>1. /\ UNCHANGED <<leak, mutex, pc>> /\ log[t] # NoLog /\ log[t].at # "stuck"
          /\ LogDone(t) \/ LogAt(t, "lock") \/ LogAt(t, "write") \/ LogAt(t, "reenter")
      BY <2>2 DEF LogCheck, LogLock, LogWrite, LogReenters, BreakerKept
    <3>2. \A u \in Threads : u # t => log'[u] = log[u]
      BY <3>1, LogAtFacts, LogDoneFacts
    <3> QED
      BY <1>t, <3>1, <3>2
  <2>3. CASE LogPanics(t)
    <3>1. log[t].at = "write" /\ Unwind(t) /\ LogDone(t)
      BY <2>3 DEF LogPanics
    <3>2. log[t] # NoLog
      BY <3>1
    <3>3. log'[t] = NoLog /\ \A u \in Threads : u # t => log'[u] = log[u]
      BY <3>1, LogDoneFacts
    <3> QED
      BY <1>t, <3>1, <3>2, <3>3 DEF Unwind, Return, Goto, Holding
  <2>4. CASE ReenteredState(t)
    <3>1. /\ log[t].at = "reenter" /\ mutex = NoOwner /\ log[t] # NoLog
          /\ UNCHANGED <<leak, pc>>
          /\ \/ mutex' = t /\ LogAt(t, "stuck")
             \/ mutex' = mutex /\ LogAt(t, "write")
      BY <2>4 DEF ReenteredState
    <3>2. /\ \A u \in Threads : u # t => log'[u] = log[u]
          /\ mutex' = t => log'[t].at = "stuck"
      BY <1>t, <3>1, LogAtFacts
    <3> QED
      BY <1>t, <3>1, <3>2
  <2>5. CASE SetLevel(t)
    <3>1. UNCHANGED <<leak, mutex, pc>>
      BY <2>5 DEF SetLevel, BreakerKept
    <3>2. ASSUME NEW u \in Threads
          PROVE  log'[u].at = log[u].at /\ (log'[u] # NoLog => log[u] # NoLog)
      <4>1. PICK l \in Loggers, v \in Levels :
              log' = [w \in Threads |-> IF log[w].logger = l
                                       THEN [log[w] EXCEPT !.off = @ \/ v > Info]
                                       ELSE log[w]]
        BY <2>5 DEF SetLevel
      <4>2. log[u] \in LogCalls \cup {NoLog} /\ l # NoLine
        BY DEF TypeOK, NoLine
      <4>3. CASE log[u] \in LogCalls
        BY <4>1, <4>3 DEF LogCalls
      <4>4. CASE log[u] = NoLog
        BY <4>1, <4>2, <4>4 DEF NoLine
      <4> QED
        BY <4>2, <4>3, <4>4
    <3> QED
      BY <1>t, <3>1, <3>2
  <2>6. CASE With(t)
    BY <1>t, <2>6 DEF With, BreakerKept
  <2> QED
    BY <1>2, <2>1, <2>2, <2>3, <2>4, <2>5, <2>6 DEF LoggerMoves
<1>3. ASSUME NEW t \in Threads, Rejects(t) \/ Counts(t)
      PROVE  MutexInv'
  BY <1>t, <1>3 DEF Rejects, Counts, Section, Return, Goto, Holding, LogKept
<1>4. ASSUME NEW t \in Threads, Enters(t) \/ Reset(t) \/ SaveLogs(t)
      PROVE  MutexInv'
  <2>1. /\ mutex' = t /\ leak' = leak
        /\ \E where \in {"entry", "resetting", "logged"} : pc' = [pc EXCEPT ![t] = where]
        /\ \A u \in Threads : u # t => log'[u] = log[u]
    BY <1>4 DEF Enters, Reset, SaveLogs, Locked, TransitionTo, Goto, TypeOK
  <2> QED
    BY <1>t, <2>1
<1>5. CASE Expire
  BY <1>t, <1>5 DEF Expire, LogKept
<1>6. CASE UNCHANGED vars
  BY <1>t, <1>6 DEF vars, breakerVars, loggerVars
<1> QED
  BY <1>1, <1>2, <1>3, <1>4, <1>5, <1>6, StepKinds

LEMMA SpecMutexInv == Spec => []MutexInv
  BY MutexInvInit, MutexInvStep, RuntimeTyping, PTL DEF Spec

(***************************************************************************)
(* Foreign code may panic anywhere: the mutex is lost only through         *)
(* OpenState.Execute, which has no deferred unlock (state.go:61).          *)
(***************************************************************************)
THEOREM MutexLeaks == Spec => []LeakOnlyFromOpen
<1>1. MutexInv => LeakOnlyFromOpen
  BY DEF MutexInv, MutexHeld, LeakOnlyFromOpen
<1> QED
  BY <1>1, SpecMutexInv, PTL
-----------------------------------------------------------------------------
(* The breaker's fields *)

(***************************************************************************)
(* The fields are in order except between the change of currentState and   *)
(* OnEntry, that is, while a thread stands at "entry"; a panic there       *)
(* leaves them so for good.                                                *)
(***************************************************************************)
FieldsInOrder ==
  /\ currentState = "Closed" => failureCount < FailureThreshold
  /\ currentState = "Open" => stamp # "zero"

WindowInv == ~damaged /\ (\A t \in Threads : pc[t] # "entry") => FieldsInOrder

LEMMA WindowInvInit == Init => WindowInv
  BY ThresholdAssumption DEF Init, WindowInv, FieldsInOrder

LEMMA WindowInvStep == TypeOK /\ MutexInv /\ WindowInv /\ [Next]_vars => WindowInv'
<1> SUFFICES ASSUME TypeOK, MutexInv, WindowInv, [Next]_vars
             PROVE  WindowInv'
  OBVIOUS
<1> USE ThreadsAssumption, ThresholdAssumption DEF WindowInv, FieldsInOrder, Locked, NoOwner
<1>t. /\ pc \in [Threads -> {"idle", "delegated", "running", "resetting", "entry",
                             "saving", "logged", "reentered"}]
      /\ failureCount \in Nat /\ currentState \in States
      /\ \A t \in Threads : pc[t] = "entry" => mutex = t
  BY DEF TypeOK
<1>1. ASSUME NEW t \in Threads, Quiet(t)
      PROVE  WindowInv'
  <2> USE DEF LogKept, Goto, Holding, Return, breakerVars
  <2>1. CASE Capture(t) \/ RunAction(t)
    BY <1>t, <2>1 DEF Capture, RunAction, Free
  <2>2. CASE OnEntry(t)
    BY <1>t, <2>2 DEF OnEntry
  <2>3. CASE SaveReturns(t)
    BY <1>t, <2>3 DEF SaveReturns, InSave
  <2>4. CASE SaveReenters(t)
    BY <1>t, <2>4 DEF SaveReenters, InSave
  <2>5. CASE SavePanics(t) \/ ActionPanics(t)
    BY <1>t, <2>5 DEF SavePanics, InSave, ActionPanics, Unwind
  <2> QED
    BY <1>1, <2>1, <2>2, <2>3, <2>4, <2>5 DEF Quiet
<1>2. ASSUME NEW t \in Threads, LoggerMoves(t)
      PROVE  WindowInv'
  <2>1. CASE LogPanics(t)
    BY <1>t, <2>1 DEF LogPanics, Unwind, Return, Goto, Holding, breakerVars
  <2>2. CASE ReenteredState(t)
    BY <1>t, <2>2 DEF ReenteredState
  <2>3. CASE UNCHANGED <<currentState, failureCount, stamp, pc, damaged>>
    BY <1>t, <2>3
  <2> QED
    BY <1>2, <2>1, <2>2, <2>3
       DEF LoggerMoves, AppLog, LogCheck, LogLock, LogWrite, LogReenters, SetLevel, With,
           BreakerKept, breakerVars
<1>3. ASSUME NEW t \in Threads, Rejects(t) \/ Counts(t)
      PROVE  WindowInv'
  BY <1>t, <1>3 DEF Rejects, Counts, Section, Return, Goto, Holding
<1>4. ASSUME NEW t \in Threads, Enters(t)
      PROVE  WindowInv'
  <2>1. pc'[t] = "entry"
    BY <1>t, <1>4 DEF Enters, TransitionTo, Goto
  <2> QED
    BY <2>1
<1>5. ASSUME NEW t \in Threads, Reset(t) \/ SaveLogs(t)
      PROVE  WindowInv'
  BY <1>t, <1>5 DEF Reset, SaveLogs, Goto, breakerVars
<1>6. CASE Expire
  BY <1>t, <1>6 DEF Expire
<1>7. CASE UNCHANGED vars
  BY <1>t, <1>7 DEF vars, breakerVars
<1> QED
  BY <1>1, <1>2, <1>3, <1>4, <1>5, <1>6, <1>7, StepKinds

(***************************************************************************)
(* Whoever gets the mutex finds the fields in order, unless a logger has   *)
(* panicked between the change of state and OnEntry (breaker.go:219).      *)
(***************************************************************************)
THEOREM FreeIsConsistent == Spec => []ConsistentWhenFree
<1>1. TypeOK /\ WindowInv => ConsistentWhenFree
  BY ThreadsAssumption
     DEF TypeOK, Locked, NoOwner, WindowInv, FieldsInOrder, ConsistentWhenFree
<1>2. Spec => []WindowInv
  BY WindowInvInit, WindowInvStep, RuntimeTyping, SpecMutexInv, PTL DEF Spec
<1> QED
  BY <1>1, <1>2, RuntimeTyping, PTL
-----------------------------------------------------------------------------
(* The loggers *)

\* A logger's mutex belongs to a call of that logger which is at its writer.
LockHeld ==
  \A l \in Loggers : lock[l] # NoOwner =>
    log[lock[l]].at \in {"write", "reenter", "stuck"} /\ Own(lock[l]) = l

\* The level allowed what is at the writer; it has been too high for what is
\* on its way there while it is.
LevelInv ==
  \A t \in Threads :
    /\ log[t].at \in {"write", "reenter"} => Info >= minLevel[Own(t)]
    /\ log[t].at \in {"check", "lock"} /\ minLevel[Own(t)] > Info => log[t].off

LoggerInv == LockHeld /\ LevelInv

LEMMA LoggerInvInit == Init => LoggerInv
  BY DEF Init, LoggerInv, LockHeld, LevelInv, Loggers, NoLog, NoOwner

\* A call of log() begins where there was none.
LEMMA LogCallBegins ==
  ASSUME TypeOK, LoggerInv, NEW t \in Threads, NEW l \in Loggers,
         log[t].at \notin {"write", "reenter", "stuck"},
         log' = [log EXCEPT ![t] = LogCall(l)], UNCHANGED loggerVars
  PROVE  LoggerInv'
<1>1. /\ log'[t].at = "check" /\ log'[t].logger = l
      /\ log'[t].off = (minLevel[l] > Info)
      /\ \A u \in Threads : u # t => log'[u] = log[u]
  BY DEF TypeOK, LogCall
<1>2. lock' = lock /\ minLevel' = minLevel
  BY DEF loggerVars
<1>3. lock \in [Loggers -> Threads \cup {NoOwner}]
  BY DEF TypeOK
<1>4. LockHeld'
  <2> SUFFICES ASSUME NEW k \in Loggers, lock[k] # NoOwner
               PROVE  log'[lock[k]].at \in {"write", "reenter", "stuck"}
                      /\ log'[lock[k]].logger = k
    BY <1>2 DEF LockHeld, Loggers, Own
  <2>1. log[lock[k]].at \in {"write", "reenter", "stuck"} /\ log[lock[k]].logger = k
    BY DEF LoggerInv, LockHeld, Own
  <2> QED
    BY <1>1, <1>3, <2>1
<1>5. LevelInv'
  BY <1>1, <1>2 DEF LoggerInv, LevelInv, Own
<1> QED
  BY <1>4, <1>5 DEF LoggerInv

LEMMA LoggerInvStep ==
  TypeOK /\ MutexInv /\ LoggerInv /\ [Next]_vars => LoggerInv'
<1> SUFFICES ASSUME TypeOK, MutexInv, LoggerInv, [Next]_vars
             PROVE  LoggerInv'
  OBVIOUS
<1> USE ThreadsAssumption DEF Own, NoOwner
<1>t. /\ lock \in [Loggers -> Threads \cup {NoOwner}]
      /\ log \in [Threads -> LogCalls \cup {NoLog}]
      /\ minLevel \in [Loggers -> Levels]
      /\ BreakerLogger \in Loggers
      /\ \A t \in Threads : log[t].at \in {"write", "reenter", "stuck"}
                            => lock[log[t].logger] = t
      /\ \A t \in Threads : log[t] # NoLog => log[t].logger \in Loggers
  BY DEF TypeOK, LogCalls, BreakerLogger
<1>n. \A t \in Threads : log[t] = NoLog => log[t].at = "none"
  BY DEF NoLog
<1>1. CASE UNCHANGED <<log, loggerVars>>
  BY <1>1 DEF loggerVars, LoggerInv, LockHeld, LevelInv, Loggers
<1>2. ASSUME NEW t \in Threads, Enters(t) \/ Reset(t) \/ SaveLogs(t)
      PROVE  LoggerInv'
  <2>1. log[t].at = "none"
    <3>1. pc[t] = "resetting" => mutex = t
      BY DEF TypeOK, Locked
    <3>2. log[t] = NoLog
      BY <1>2, <3>1 DEF Enters, Reset, SaveLogs, Free, MutexInv, LogWhere
    <3> QED
      BY <1>n, <3>2
  <2>2. log' = [log EXCEPT ![t] = LogCall(BreakerLogger)] /\ UNCHANGED loggerVars
    BY <1>2 DEF Enters, Reset, SaveLogs, TransitionTo
  <2> QED
    BY <1>t, <2>1, <2>2, LogCallBegins
<1>3. ASSUME NEW t \in Threads, AppLog(t)
      PROVE  LoggerInv'
  <2>1. log[t].at = "none" /\ UNCHANGED loggerVars
    BY <1>n, <1>3 DEF AppLog, Free
  <2>2. PICK l \in Loggers : log' = [log EXCEPT ![t] = LogCall(l)]
    BY <1>3 DEF AppLog
  <2> QED
    BY <2>1, <2>2, LogCallBegins
<1>4. ASSUME NEW t \in Threads, LogDone(t), log[t].at \in {"check", "lock"},
             UNCHANGED loggerVars
      PROVE  LoggerInv'
  <2>1. log'[t].at = "none" /\ \A u \in Threads : u # t => log'[u] = log[u]
    BY <1>4, LogDoneFacts DEF NoLog
  <2>2. \A l \in Loggers : lock[l] # t
    BY <1>4 DEF LoggerInv, LockHeld
  <2> QED
    BY <1>t, <1>4, <2>1, <2>2 DEF loggerVars, LoggerInv, LockHeld, LevelInv, Loggers
<1>5. ASSUME NEW t \in Threads, LogCheck(t)
      PROVE  LoggerInv'
  <2>1. log[t].at = "check" /\ UNCHANGED loggerVars
    BY <1>5 DEF LogCheck
  <2>2. CASE LogAt(t, "lock")
    <3>1. /\ log'[t].at = "lock" /\ log'[t].logger = log[t].logger
          /\ log'[t].off = log[t].off
          /\ \A u \in Threads : u # t => log'[u] = log[u]
      BY <1>n, <2>1, <2>2, LogAtFacts
    <3>2. \A l \in Loggers : lock[l] # t
      BY <2>1 DEF LoggerInv, LockHeld
    <3> QED
      BY <1>t, <2>1, <3>1, <3>2 DEF loggerVars, LoggerInv, LockHeld, LevelInv, Loggers
  <2> QED
    BY <1>4, <1>5, <2>1, <2>2 DEF LogCheck
<1>6. ASSUME NEW t \in Threads, LogLock(t)
      PROVE  LoggerInv'
  <2>1. log[t].at = "lock" /\ lock[log[t].logger] = NoOwner /\ minLevel' = minLevel
        /\ log[t].logger \in Loggers
    BY <1>t, <1>n, <1>6 DEF LogLock
  <2>2. CASE Info < minLevel[log[t].logger]
    BY <1>4, <1>6, <2>1, <2>2 DEF LogLock, loggerVars
  <2>3. CASE ~(Info < minLevel[log[t].logger])
    <3>1. LogAt(t, "write") /\ lock' = [lock EXCEPT ![log[t].logger] = t]
      BY <1>6, <2>3 DEF LogLock
    <3>2. /\ log'[t].at = "write" /\ log'[t].logger = log[t].logger
          /\ \A u \in Threads : u # t => log'[u] = log[u]
      BY <1>n, <2>1, <3>1, LogAtFacts
    <3>3. Info >= minLevel[log[t].logger]
      BY <1>t, <2>1, <2>3 DEF Levels, Info
    <3>4. \A l \in Loggers : lock[l] # t
      BY <2>1 DEF LoggerInv, LockHeld
    <3>5. LockHeld'
      BY <1>t, <2>1, <3>1, <3>2, <3>4 DEF LoggerInv, LockHeld, Loggers
    <3>6. LevelInv'
      BY <1>t, <2>1, <3>2, <3>3 DEF LoggerInv, LevelInv
    <3> QED
      BY <3>5, <3>6 DEF LoggerInv
  <2> QED
    BY <2>2, <2>3
<1>7. ASSUME NEW t \in Threads, LogWrite(t) \/ LogPanics(t)
      PROVE  LoggerInv'
  <2>1. /\ log[t].at = "write" /\ LogDone(t) /\ minLevel' = minLevel
        /\ lock' = [lock EXCEPT ![log[t].logger] = NoOwner]
    BY <1>7 DEF LogWrite, LogPanics
  <2>2. log'[t].at = "none" /\ \A u \in Threads : u # t => log'[u] = log[u]
    BY <2>1, LogDoneFacts DEF NoLog
  <2>3. \A l \in Loggers : lock'[l] # NoOwner => lock'[l] = lock[l] /\ lock[l] # t
    BY <1>t, <2>1 DEF LoggerInv, LockHeld
  <2>4. LockHeld'
    BY <1>t, <2>1, <2>2, <2>3 DEF LoggerInv, LockHeld, Loggers
  <2>5. LevelInv'
    BY <1>t, <2>1, <2>2 DEF LoggerInv, LevelInv
  <2> QED
    BY <2>4, <2>5 DEF LoggerInv
<1>8. ASSUME NEW t \in Threads, LogReenters(t) \/ ReenteredState(t)
      PROVE  LoggerInv'
  <2>1. /\ log[t].at \in {"write", "reenter"} /\ UNCHANGED loggerVars
        /\ LogAt(t, "reenter") \/ LogAt(t, "stuck") \/ LogAt(t, "write")
    BY <1>8 DEF LogReenters, ReenteredState
  <2>2. /\ log'[t].at \in {"write", "reenter", "stuck"} /\ log'[t].logger = log[t].logger
        /\ \A u \in Threads : u # t => log'[u] = log[u]
    BY <1>n, <2>1, LogAtFacts
  <2>3. LockHeld'
    BY <1>t, <2>1, <2>2 DEF loggerVars, LoggerInv, LockHeld, Loggers
  <2>4. LevelInv'
    BY <1>t, <2>1, <2>2 DEF loggerVars, LoggerInv, LevelInv
  <2> QED
    BY <2>3, <2>4 DEF LoggerInv
<1>9. ASSUME NEW t \in Threads, SetLevel(t)
      PROVE  LoggerInv'
  <2>1. PICK l \in Loggers, v \in Levels :
          /\ lock[l] = NoOwner
          /\ minLevel' = [minLevel EXCEPT ![l] = v]
          /\ log' = [u \in Threads |-> IF log[u].logger = l
                                        THEN [log[u] EXCEPT !.off = @ \/ v > Info]
                                        ELSE log[u]]
          /\ lock' = lock
    BY <1>9 DEF SetLevel
  <2>2. ASSUME NEW u \in Threads
        PROVE  /\ log'[u].at = log[u].at /\ log'[u].logger = log[u].logger
               /\ log[u].off => log'[u].off
               /\ log[u] \in LogCalls /\ log[u].logger = l /\ v > Info => log'[u].off
    <3>1. CASE log[u] \in LogCalls
      BY <2>1, <3>1 DEF LogCalls
    <3>2. CASE log[u] = NoLog
      <4>1. log[u].logger # l
        BY <3>2 DEF NoLog, NoLine, TypeOK
      <4>2. log'[u] = log[u]
        BY <2>1, <4>1
      <4> QED
        BY <4>1, <4>2
    <3> QED
      BY <1>t, <3>1, <3>2
  <2>3. Loggers' = Loggers
    BY <1>t, <2>1 DEF Loggers
  <2>4. LockHeld'
    BY <1>t, <2>1, <2>2, <2>3 DEF LoggerInv, LockHeld
  <2>5. ASSUME NEW u \in Threads, log[u].at # "none"
        PROVE  /\ log[u] \in LogCalls /\ log[u].logger \in Loggers
               /\ minLevel'[log[u].logger] = IF log[u].logger = l THEN v
                                             ELSE minLevel[log[u].logger]
    BY <1>t, <1>n, <2>1, <2>5
  <2>6. ASSUME NEW u \in Threads, log[u].at \in {"write", "reenter"}
        PROVE  Info >= minLevel'[log[u].logger]
    <3>1. log[u].logger # l
      BY <1>t, <2>1, <2>6
    <3> QED
      BY <2>5, <2>6, <3>1 DEF LoggerInv, LevelInv
  <2>7. ASSUME NEW u \in Threads, log[u].at \in {"check", "lock"},
               minLevel'[log[u].logger] > Info
        PROVE  log'[u].off
    BY <2>2, <2>5, <2>7 DEF LoggerInv, LevelInv
  <2>8. LevelInv'
    BY <2>2, <2>6, <2>7 DEF LevelInv
  <2> QED
    BY <2>4, <2>8 DEF LoggerInv
<1>10. ASSUME NEW t \in Threads, With(t)
       PROVE  LoggerInv'
  <2>1. PICK n \in 1 .. MaxLoggers : Loggers = 1 .. n
    BY DEF TypeOK
  <2>2. Cardinality(Loggers) + 1 \notin Loggers
    BY <2>1, FS_Interval
  <2>3. /\ log' = log
        /\ \A k \in Loggers : lock'[k] = lock[k] /\ minLevel'[k] = minLevel[k]
        /\ Loggers' = Loggers \cup {Cardinality(Loggers) + 1}
        /\ lock'[Cardinality(Loggers) + 1] = NoOwner
    BY <1>10, <2>2 DEF With, Loggers
  <2>4. LockHeld'
    BY <2>3 DEF LoggerInv, LockHeld
  <2>5. LevelInv'
    BY <1>t, <1>n, <2>3 DEF LoggerInv, LevelInv
  <2> QED
    BY <2>4, <2>5 DEF LoggerInv
<1>11. ASSUME NEW t \in Threads, Quiet(t) \/ Rejects(t) \/ Counts(t)
       PROVE  UNCHANGED <<log, loggerVars>>
  BY <1>11
     DEF Quiet, Capture, RunAction, OnEntry, SaveReturns, SaveReenters, SavePanics,
         ActionPanics, Rejects, Counts, Section, LogKept
<1>12. CASE Expire \/ UNCHANGED vars
  BY <1>1, <1>12 DEF Expire, LogKept, vars
<1> QED
  BY <1>1, <1>2, <1>3, <1>5, <1>6, <1>7, <1>8, <1>9, <1>10, <1>11, <1>12, StepKinds
     DEF LoggerMoves

LEMMA SpecLoggerInv == Spec => []LoggerInv
  BY LoggerInvInit, LoggerInvStep, RuntimeTyping, SpecMutexInv, PTL DEF Spec

(***************************************************************************)
(* There is one order in which the library takes its mutexes - the         *)
(* breaker's, then a logger's - so no goroutines wait for each other in a  *)
(* circle, and none for itself, unless foreign code has called back into   *)
(* the breaker with a lock held (breaker.go:236, default.go:168).  Whoever *)
(* owns a logger's mutex is at its writer and waits for nobody; whoever    *)
(* owns the breaker's waits for a logger at most.                          *)
(***************************************************************************)
THEOREM NoDeadlock == Spec => []DeadlockNeedsReentry
<1>1. TypeOK /\ MutexInv /\ LoggerInv => DeadlockNeedsReentry
  <2> SUFFICES ASSUME TypeOK, MutexInv, LoggerInv,
                      NEW D \in (SUBSET Threads) \ {{}}, Deadlocked(D),
                      \A t \in D : ~Reentered(t)
               PROVE  FALSE
    BY DEF DeadlockNeedsReentry
  <2> USE DEF Reentered
  <2>1. ASSUME NEW t \in D, NEW u \in D, WaitsFor(t, u)
        PROVE  mutex = u
    <3>1. ASSUME log[t].at \in {"lock", "stuck"}, lock[Own(t)] = u
          PROVE  FALSE
      <4>1. Own(t) \in Loggers /\ u # NoOwner
        BY <3>1, ThreadsAssumption DEF TypeOK, Own, NoLog, LogCalls, NoOwner
      <4>2. log[u].at = "write"
        BY <3>1, <4>1 DEF LoggerInv, LockHeld
      <4>3. pc[u] \notin {"delegated", "reentered"}
        BY <4>2 DEF MutexInv, LogWhere, NoLog
      <4>4. PICK w \in D : WaitsFor(u, w)
        BY DEF Deadlocked
      <4> QED
        BY <4>2, <4>3, <4>4 DEF WaitsFor
    <3> QED
      BY <2>1, <3>1 DEF WaitsFor
  <2>2. PICK t \in D : TRUE
    OBVIOUS
  <2>3. PICK u \in D : WaitsFor(t, u)
    BY DEF Deadlocked
  <2>4. mutex = u
    BY <2>1, <2>3
  <2>5. PICK w \in D : WaitsFor(u, w)
    BY DEF Deadlocked
  <2>6. mutex = w /\ log[u].at # "stuck" /\ pc[u] # "reentered"
    BY <2>1, <2>5
  <2>7. pc[u] # "delegated"
    BY <2>4, <2>6 DEF MutexInv, MutexHeld, Locked
  <2>8. log[u].at = "lock" /\ lock[Own(u)] = w
    BY <2>5, <2>6, <2>7 DEF WaitsFor
  <2>9. Own(u) \in Loggers /\ w # NoOwner
    BY <2>8, ThreadsAssumption DEF TypeOK, Own, NoLog, LogCalls, NoOwner
  <2>10. log[w].at = "write"
    BY <2>8, <2>9 DEF LoggerInv, LockHeld
  <2> QED
    BY <2>4, <2>6, <2>8, <2>10
<1> QED
  BY <1>1, RuntimeTyping, SpecMutexInv, SpecLoggerInv, PTL

(***************************************************************************)
(* SetLevel, log and the derivation of loggers in any order: no line below *)
(* its logger's level, none lost that was enabled throughout its call      *)
(* (default.go:133-142).                                                   *)
(***************************************************************************)
THEOREM LevelsObeyed == Spec => LinesMatchLevel
<1>1. TypeOK /\ LoggerInv /\ [Next]_vars =>
        [/\ line' # NoLine => Info >= minLevel[line']
         /\ \A t \in Threads :
              log[t].at \in {"check", "lock"} /\ log'[t] = NoLog => log[t].off]_vars
  <2> SUFFICES ASSUME TypeOK, LoggerInv, Next
               PROVE  /\ line' # NoLine => Info >= minLevel[line']
                      /\ \A t \in Threads :
                           log[t].at \in {"check", "lock"} /\ log'[t] = NoLog => log[t].off
    OBVIOUS
  <2>t. /\ log \in [Threads -> LogCalls \cup {NoLog}] /\ minLevel \in [Loggers -> Levels]
        /\ \A t \in Threads : log[t] # NoLog => log[t].logger \in Loggers
    BY DEF TypeOK, LogCalls
  <2>n. NoLog.at = "none"
    BY DEF NoLog
  <2>1. ASSUME line' = NoLine, NEW t \in Threads, log[t].at \notin {"check", "lock"},
               \A u \in Threads : u # t => log'[u] = log[u]
        PROVE  \A u \in Threads :
                 log[u].at \in {"check", "lock"} /\ log'[u] = NoLog => log[u].off
    BY <2>1, <2>n
  <2>2. CASE log' = log /\ line' = NoLine
    BY <2>2, <2>n
  <2>3. ASSUME NEW t \in Threads, LogCheck(t) \/ LogLock(t)
        PROVE  /\ line' = NoLine
               /\ \A u \in Threads :
                    log[u].at \in {"check", "lock"} /\ log'[u] = NoLog => log[u].off
    <3>1. /\ log[t].at \in {"check", "lock"} /\ log[t] # NoLog /\ line' = NoLine
          /\ \/ minLevel[log[t].logger] > Info /\ LogDone(t)
             \/ LogAt(t, "lock") \/ LogAt(t, "write")
      <4>1. log[t].at \in {"check", "lock"} /\ log[t] # NoLog /\ line' = NoLine
        BY <2>3, <2>n DEF LogCheck, LogLock
      <4>2. minLevel[log[t].logger] \in Levels
        BY <2>t, <4>1
      <4>3. Info < minLevel[log[t].logger] <=> minLevel[log[t].logger] > Info
        BY <4>2 DEF Levels, Info
      <4> QED
        BY <2>3, <4>1, <4>3 DEF LogCheck, LogLock, Own
    <3>2. \A u \in Threads : u # t => log'[u] = log[u]
      BY <3>1, LogDoneFacts, LogAtFacts
    <3>3. log'[t] = NoLog => log[t].off
      <4>1. CASE LogDone(t) /\ minLevel[log[t].logger] > Info
        BY <3>1, <4>1 DEF LoggerInv, LevelInv, Own
      <4>2. CASE LogAt(t, "lock") \/ LogAt(t, "write")
        BY <2>n, <3>1, <4>2, LogAtFacts
      <4> QED
        BY <3>1, <4>1, <4>2
    <3> QED
      BY <2>n, <3>1, <3>2, <3>3
  <2>4. ASSUME NEW t \in Threads, LogWrite(t)
        PROVE  /\ Info >= minLevel[line']
               /\ \A u \in Threads :
                    log[u].at \in {"check", "lock"} /\ log'[u] = NoLog => log[u].off
    <3>1. log[t].at = "write" /\ LogDone(t) /\ line' = Own(t)
      BY <2>4 DEF LogWrite
    <3> QED
      BY <2>n, <3>1, LogDoneFacts DEF LoggerInv, LevelInv
  <2>5. ASSUME NEW t \in Threads,
               LogPanics(t) \/ LogReenters(t) \/ ReenteredState(t) \/ AppLog(t)
                 \/ Enters(t) \/ Reset(t) \/ SaveLogs(t)
        PROVE  /\ line' = NoLine
               /\ \A u \in Threads :
                    log[u].at \in {"check", "lock"} /\ log'[u] = NoLog => log[u].off
    <3>1. line' = NoLine
      BY <2>5 DEF LogPanics, LogReenters, ReenteredState, AppLog, Enters, Reset, SaveLogs,
                   TransitionTo
    <3>2. CASE LogPanics(t) \/ LogReenters(t) \/ ReenteredState(t)
      <4>1. /\ log[t].at \in {"write", "reenter"}
            /\ LogDone(t) \/ LogAt(t, "reenter") \/ LogAt(t, "stuck") \/ LogAt(t, "write")
        BY <3>2 DEF LogPanics, LogReenters, ReenteredState
      <4> QED
        BY <2>1, <2>n, <3>1, <4>1, LogDoneFacts, LogAtFacts
    <3>3. CASE AppLog(t) \/ Enters(t) \/ Reset(t) \/ SaveLogs(t)
      <4>1. PICK l \in Loggers : log' = [log EXCEPT ![t] = LogCall(l)]
        <5>1. BreakerLogger \in Loggers
          BY DEF TypeOK, BreakerLogger
        <5> QED
          BY <3>3, <5>1 DEF AppLog, Enters, Reset, SaveLogs, TransitionTo
      <4>2. log'[t] # NoLog /\ \A u \in Threads : u # t => log'[u] = log[u]
        BY <2>t, <4>1 DEF LogCall, NoLog
      <4> QED
        BY <2>n, <3>1, <4>2
    <3> QED
      BY <2>5, <3>1, <3>2, <3>3
  <2>6. ASSUME NEW t \in Threads, SetLevel(t)
        PROVE  /\ line' = NoLine
               /\ \A u \in Threads :
                    log[u].at \in {"check", "lock"} /\ log'[u] = NoLog => log[u].off
    <3>1. PICK l \in Loggers, v \in Levels :
            log' = [u \in Threads |-> IF log[u].logger = l
                                     THEN [log[u] EXCEPT !.off = @ \/ v > Info]
                                     ELSE log[u]]
      BY <2>6 DEF SetLevel
    <3>2. ASSUME NEW u \in Threads, log[u].at \in {"check", "lock"}
          PROVE  log'[u].at = log[u].at
      BY <2>t, <2>n, <3>1, <3>2 DEF LogCalls
    <3> QED
      BY <2>6, <2>n, <3>2 DEF SetLevel
  <2>7. ASSUME NEW t \in Threads,
               Quiet(t) \/ Rejects(t) \/ Counts(t) \/ With(t)
        PROVE  log' = log /\ line' = NoLine
    BY <2>7
       DEF Quiet, Capture, RunAction, OnEntry, SaveReturns, SaveReenters, SavePanics,
           ActionPanics, Rejects, Counts, Section, LogKept, With
  <2>8. CASE Expire
    BY <2>2, <2>8 DEF Expire, LogKept
  <2> QED
    BY <2>2, <2>3, <2>4, <2>5, <2>6, <2>7, <2>8, StepKinds DEF LoggerMoves
<1> QED
  BY <1>1, RuntimeTyping, SpecLoggerInv, PTL DEF Spec, LinesMatchLevel
-----------------------------------------------------------------------------
(***************************************************************************)
(* LogFields: who shares an array with whom.                               *)
(***************************************************************************)

\* What somebody who holds a slice can rely on.
HolderOK(v) ==
  /\ v.arr \in Arrays /\ v.given \in Seq(Field)
  /\ v.len = Len(v.given) /\ v.len <= Len(heap[v.arr])
  /\ v.kind # "set" => \A i \in 1 .. v.len : heap[v.arr][i] = v.given[i]

(***************************************************************************)
(* Sets share arrays with sets only.  An adapter's slice fills its array,  *)
(* so that whatever is appended to it goes elsewhere.  There is one        *)
(* builder, and nobody knows more of its array than it does, so that what  *)
(* it appends in place is beyond what the others see.                      *)
(***************************************************************************)
SharingInv ==
  /\ \A a \in Arrays : heap[a] \in Seq(Field)
  /\ \A v \in views : HolderOK(v)
  /\ \A v, w \in views : v.arr = w.arr /\ v.kind = "set" => w.kind = "set"
  /\ \A v \in views : v.kind = "adapter" => v.len = Len(heap[v.arr])
  /\ \A v, w \in views : v.kind = "builder" /\ w.kind = "builder" => v = w
  /\ \A v, w \in views :
       v.kind = "builder" /\ w.kind # "set" /\ v.arr = w.arr => w.len <= v.len

LEMMA ViewFacts ==
  ASSUME NEW kind, NEW a, NEW given
  PROVE  /\ View(kind, a, given).kind = kind /\ View(kind, a, given).arr = a
         /\ View(kind, a, given).given = given /\ View(kind, a, given).len = Len(given)
  BY DEF View

LEMMA FieldsBecome ==
  ASSUME SharingInv, NEW a \in Arrays, NEW array \in Seq(Field), NEW holders,
         Becomes(a, array, holders)
  PROVE  /\ views' = holders
         /\ \A b \in Arrays : heap'[b] \in Seq(Field)
         /\ \A v \in holders : v.arr \in Arrays =>
              heap'[v.arr] = IF v.arr = a THEN array ELSE heap[v.arr]
<1> DEFINE none == << >>
<1>1. none \in Seq(Field)
  BY EmptySeq
<1>2. heap' = [b \in Arrays |-> IF \A v \in holders : v.arr # b THEN none
                                ELSE IF b = a THEN array ELSE heap[b]]
  BY DEF Becomes
<1> HIDE DEF none
<1>3. \A b \in Arrays : heap[b] \in Seq(Field)
  BY DEF SharingInv
<1>4. \A b \in Arrays : heap'[b] \in Seq(Field)
  BY <1>1, <1>2, <1>3
<1>5. \A v \in holders : v.arr \in Arrays =>
        heap'[v.arr] = IF v.arr = a THEN array ELSE heap[v.arr]
  BY <1>2
<1> QED
  BY <1>4, <1>5 DEF Becomes

LEMMA FreshFacts ==
  ASSUME \E a \in Arrays : Unused(a)
  PROVE  Fresh \in Arrays /\ \A v \in views : v.arr # Fresh
  BY DEF Fresh, Unused

\* What is written into the array: the first `at` fields stay.
LEMMA PutFacts ==
  ASSUME NEW array \in Seq(Field), NEW at \in Nat, NEW fs \in Seq(Field),
         at + Len(fs) <= Len(array)
  PROVE  /\ Put(array, at, fs) \in Seq(Field) /\ Len(Put(array, at, fs)) = Len(array)
         /\ \A i \in 1 .. at : Put(array, at, fs)[i] = array[i]
         /\ \A i \in at + 1 .. at + Len(fs) : Put(array, at, fs)[i] = fs[i - at]
<1> DEFINE p == Put(array, at, fs)
<1>1. /\ Len(array) \in Nat /\ DOMAIN array = 1 .. Len(array)
      /\ \A i \in 1 .. Len(array) : array[i] \in Field
      /\ Len(fs) \in Nat /\ \A i \in 1 .. Len(fs) : fs[i] \in Field
  BY LenProperties
<1>2. p = [i \in 1 .. Len(array) |-> IF i \in at + 1 .. at + Len(fs) THEN fs[i - at] ELSE array[i]]
  BY <1>1 DEF Put
<1> HIDE DEF p
<1>3. p \in [1 .. Len(array) -> Field]
  BY <1>1, <1>2
<1>4. p \in Seq(Field) /\ Len(p) = Len(array)
  BY <1>1, <1>3
<1> QED
  BY <1>1, <1>2, <1>4 DEF p

\* The larger array: the fields of the old one, and room.
LEMMA GrownFacts ==
  ASSUME NEW array \in Seq(Field), NEW need \in Nat, need > Len(array)
  PROVE  /\ Grown(array, need) \in Seq(Field) /\ Len(Grown(array, need)) >= need
         /\ \A i \in 1 .. Len(array) : Grown(array, need)[i] = array[i]
<1> DEFINE cap == IF need > 2 * Len(array) THEN need ELSE 2 * Len(array)
           blank == CHOOSE f \in Field : TRUE
           g == Grown(array, need)
<1>1. Len(array) \in Nat /\ \A i \in 1 .. Len(array) : array[i] \in Field
  BY LenProperties
<1>2. cap \in Nat /\ cap >= need /\ cap >= Len(array)
  BY <1>1
<1>3. blank \in Field
  BY FieldAssumption
<1>4. g = [i \in 1 .. cap |-> IF i <= Len(array) THEN array[i] ELSE blank]
  BY DEF Grown
<1> HIDE DEF cap, blank, g
<1>5. g \in [1 .. cap -> Field]
  BY <1>1, <1>3, <1>4
<1>6. g \in Seq(Field) /\ Len(g) = cap
  BY <1>2, <1>5
<1> QED
  BY <1>1, <1>2, <1>4, <1>6 DEF g

\* append(v, fs...) has put its fields at a: v's array, or one nobody held.
AppendedAt(v, fs, kind, others, a) ==
  /\ views' = others \cup {View(kind, a, v.given \o fs)}
  /\ \A b \in Arrays : heap'[b] \in Seq(Field)
  /\ \A w \in others : w.arr # a => heap'[w.arr] = heap[w.arr]
  /\ v.len + Len(fs) <= Len(heap'[a])
  /\ \A i \in 1 .. v.len : heap'[a][i] = heap[v.arr][i]
  /\ \A i \in v.len + 1 .. v.len + Len(fs) : heap'[a][i] = fs[i - v.len]
  /\ (a = v.arr /\ Len(heap'[a]) = Len(heap[a])) \/ (\A w \in views : w.arr # a)

LEMMA AppendsFacts ==
  ASSUME SharingInv, NEW v \in views, NEW fs \in Seq(Field), NEW kind,
         NEW others, others \subseteq views, Appends(v, fs, kind, others)
  PROVE  \E a \in Arrays : AppendedAt(v, fs, kind, others, a)
<1> DEFINE array == heap[v.arr]
           need == v.len + Len(fs)
           got(a) == others \cup {View(kind, a, v.given \o fs)}
<1>1. /\ v.arr \in Arrays /\ array \in Seq(Field) /\ v.len \in Nat /\ v.len <= Len(array)
      /\ \A w \in views : w.arr \in Arrays
  BY LenProperties DEF SharingInv, HolderOK
<1>2. Len(fs) \in Nat /\ Len(array) \in Nat
  BY <1>1, LenProperties
<1>3. \A a : View(kind, a, v.given \o fs).arr = a
  BY ViewFacts
<1>4. CASE need <= Len(array)
  <2> DEFINE p == Put(array, v.len, fs)
  <2>1. /\ p \in Seq(Field) /\ Len(p) = Len(array)
        /\ \A i \in 1 .. v.len : p[i] = array[i]
        /\ \A i \in v.len + 1 .. v.len + Len(fs) : p[i] = fs[i - v.len]
    BY <1>1, <1>4, PutFacts
  <2>2. Becomes(v.arr, p, got(v.arr))
    BY <1>4 DEF Appends
  <2> HIDE DEF p
  <2>3. /\ views' = got(v.arr) /\ \A b \in Arrays : heap'[b] \in Seq(Field)
        /\ \A w \in got(v.arr) : w.arr \in Arrays =>
             heap'[w.arr] = IF w.arr = v.arr THEN p ELSE heap[w.arr]
    BY <1>1, <2>1, <2>2, FieldsBecome
  <2>4. heap'[v.arr] = p
    BY <1>1, <1>3, <2>3
  <2>5. \A w \in others : w.arr # v.arr => heap'[w.arr] = heap[w.arr]
    BY <1>1, <2>3
  <2>6. AppendedAt(v, fs, kind, others, v.arr)
    BY <1>4, <2>1, <2>3, <2>4, <2>5 DEF AppendedAt
  <2> QED
    BY <1>1, <2>6
<1>5. CASE ~(need <= Len(array))
  <2> DEFINE p == Put(Grown(array, need), v.len, fs)
  <2>1. need \in Nat /\ need > Len(array)
    BY <1>1, <1>2, <1>5
  <2>2. /\ Grown(array, need) \in Seq(Field) /\ Len(Grown(array, need)) >= need
        /\ \A i \in 1 .. Len(array) : Grown(array, need)[i] = array[i]
    BY <1>1, <2>1, GrownFacts
  <2>3. Len(Grown(array, need)) \in Nat
    BY <2>2, LenProperties
  <2>4. /\ p \in Seq(Field) /\ Len(p) = Len(Grown(array, need))
        /\ \A i \in 1 .. v.len : p[i] = Grown(array, need)[i]
        /\ \A i \in v.len + 1 .. v.len + Len(fs) : p[i] = fs[i - v.len]
    BY <1>1, <2>2, <2>3, PutFacts
  <2>5. \A i \in 1 .. v.len : p[i] = array[i]
    BY <1>1, <1>2, <2>2, <2>4
  <2>6. (\E a \in Arrays : Unused(a)) /\ Becomes(Fresh, p, got(Fresh))
    BY <1>5 DEF Appends
  <2>7. Fresh \in Arrays /\ \A w \in views : w.arr # Fresh
    BY <2>6, FreshFacts
  <2> DEFINE fresh == Fresh
  <2>8. Becomes(fresh, p, got(fresh)) /\ fresh \in Arrays /\ \A w \in views : w.arr # fresh
    BY <2>6, <2>7
  <2> HIDE DEF p, fresh
  <2>9. /\ views' = got(fresh) /\ \A b \in Arrays : heap'[b] \in Seq(Field)
        /\ \A w \in got(fresh) : w.arr \in Arrays =>
             heap'[w.arr] = IF w.arr = fresh THEN p ELSE heap[w.arr]
    BY <2>4, <2>8, FieldsBecome
  <2>10. heap'[fresh] = p
    BY <1>3, <2>8, <2>9
  <2>11. \A w \in others : w.arr # fresh => heap'[w.arr] = heap[w.arr]
    BY <1>1, <2>9
  <2>12. v.len + Len(fs) <= Len(p)
    BY <2>2, <2>4
  <2>13. AppendedAt(v, fs, kind, others, fresh)
    BY <2>4, <2>5, <2>8, <2>9, <2>10, <2>11, <2>12 DEF AppendedAt
  <2> QED
    BY <2>8, <2>13
<1> QED
  BY <1>4, <1>5

\* What append returns is what it was given and the fields appended.
LEMMA AppendedHolder ==
  ASSUME SharingInv, NEW v \in views, NEW fs \in Seq(Field), NEW kind, NEW others,
         NEW a \in Arrays, AppendedAt(v, fs, kind, others, a), v.kind = "set" => kind = "set"
  PROVE  HolderOK(View(kind, a, v.given \o fs))'
<1> DEFINE given == v.given \o fs
           n == View(kind, a, given)
<1>1. /\ v.given \in Seq(Field) /\ v.len = Len(v.given) /\ v.len \in Nat
      /\ v.kind # "set" => \A i \in 1 .. v.len : heap[v.arr][i] = v.given[i]
  BY LenProperties DEF SharingInv, HolderOK
<1>2. /\ given \in Seq(Field) /\ Len(given) = v.len + Len(fs) /\ Len(fs) \in Nat
      /\ \A i \in 1 .. Len(given) :
           given[i] = IF i <= v.len THEN v.given[i] ELSE fs[i - v.len]
  BY <1>1, ConcatProperties, LenProperties
<1> HIDE DEF given
<1>3. n.kind = kind /\ n.arr = a /\ n.given = given /\ n.len = Len(given)
  BY ViewFacts
<1> HIDE DEF n
<1>4. ASSUME kind # "set", NEW i \in 1 .. Len(given)
      PROVE  heap'[a][i] = given[i]
  <2>1. i \in 1 .. v.len \/ i \in v.len + 1 .. v.len + Len(fs)
    BY <1>1, <1>2
  <2>2. CASE i \in 1 .. v.len
    BY <1>1, <1>2, <1>4, <2>2 DEF AppendedAt
  <2>3. CASE i \in v.len + 1 .. v.len + Len(fs)
    BY <1>1, <1>2, <2>3 DEF AppendedAt
  <2> QED
    BY <2>1, <2>2, <2>3
<1>5. Len(given) <= Len(heap'[a])
  BY <1>2 DEF AppendedAt
<1>6. HolderOK(n)'
  BY <1>2, <1>3, <1>4, <1>5 DEF HolderOK
<1> QED
  BY <1>6 DEF n, given

\* Who appends to a set, to the builder, or to an adapter keeps the others.
LEMMA AppendsKeep ==
  ASSUME SharingInv, NEW v \in views, NEW fs \in Seq(Field), NEW kind, NEW others,
         others \subseteq views, Appends(v, fs, kind, others),
         \/ v.kind = "set" /\ kind = "set"
         \/ v.kind = "builder" /\ kind = "builder" /\ others = views \ {v}
         \/ v.kind = "adapter" /\ kind = "call"
  PROVE  SharingInv'
<1> DEFINE given == v.given \o fs
<1>1. PICK a \in Arrays : AppendedAt(v, fs, kind, others, a)
  BY AppendsFacts
<1> DEFINE n == View(kind, a, given)
<1>2. HolderOK(n)'
  BY <1>1, AppendedHolder
<1>3. v.given \in Seq(Field) /\ v.len = Len(v.given) /\ v.len \in Nat /\ Len(fs) \in Nat
  BY LenProperties DEF SharingInv, HolderOK
<1>4. n.kind = kind /\ n.arr = a /\ n.len = v.len + Len(fs)
  <2>1. Len(given) = v.len + Len(fs)
    BY <1>3, ConcatProperties
  <2> HIDE DEF given
  <2> QED
    BY <2>1, ViewFacts
<1>5. views' = others \cup {n} /\ \A b \in Arrays : heap'[b] \in Seq(Field)
  BY <1>1 DEF AppendedAt
<1> HIDE DEF n, given
\* The fields of v stay; what the others see is no longer than v.
<1>6. \A w \in others : w.kind # "set" /\ w.arr = v.arr =>
        v.kind # "set" /\ w.len <= v.len
  BY DEF SharingInv, HolderOK
<1>7. ASSUME NEW w \in others
      PROVE  HolderOK(w)' /\ (w.arr = a => a = v.arr /\ Len(heap'[a]) = Len(heap[a]))
  <2>1. w \in views /\ HolderOK(w) /\ w.len \in Nat /\ (w.arr = a => a = v.arr /\ Len(heap'[a]) = Len(heap[a]))
    BY <1>1, LenProperties DEF AppendedAt, SharingInv, HolderOK
  <2>2. CASE w.arr # a
    BY <1>1, <2>1, <2>2 DEF AppendedAt, HolderOK
  <2>3. CASE w.arr = a
    <3>1. ASSUME w.kind # "set", NEW i \in 1 .. w.len
          PROVE  heap'[a][i] = heap[a][i]
      <4>1. i \in 1 .. v.len /\ a = v.arr
        BY <1>3, <1>6, <2>1, <2>3, <3>1
      <4> QED
        BY <1>1, <4>1 DEF AppendedAt
    <3> QED
      BY <2>1, <2>3, <3>1 DEF HolderOK
  <2> QED
    BY <2>1, <2>2, <2>3
<1>8. \A w \in views' : HolderOK(w)'
  BY <1>2, <1>5, <1>7
<1>9. \A u, w \in views' : u.arr = w.arr /\ u.kind = "set" => w.kind = "set"
  BY <1>4, <1>5, <1>7 DEF SharingInv
<1>10. \A w \in views' : w.kind = "adapter" => w.len = Len(heap'[w.arr])
  BY <1>1, <1>4, <1>5, <1>7 DEF SharingInv, AppendedAt
<1>11. \A u, w \in views' : u.kind = "builder" /\ w.kind = "builder" => u = w
  BY <1>4, <1>5 DEF SharingInv
<1>12. ASSUME NEW u \in views', NEW w \in views', u.kind = "builder", w.kind # "set", u.arr = w.arr
       PROVE  w.len <= u.len
  <2>1. CASE u = n /\ w = n
    BY <1>3, <1>4, <2>1
  <2>2. CASE u \in others /\ w \in others
    BY <1>12, <2>2 DEF SharingInv
  <2>3. CASE u = n /\ w \in others
    <3>1. w.arr = v.arr /\ w.len <= v.len /\ w.len \in Nat
      BY <1>4, <1>6, <1>7, <1>12, <2>3, LenProperties DEF SharingInv, HolderOK
    <3> QED
      BY <1>3, <1>4, <2>3, <3>1
  <2>4. CASE u \in others /\ w = n
    <3>1. u.arr = v.arr /\ a = v.arr /\ Len(heap'[a]) = Len(heap[a]) /\ u.len \in Nat
      BY <1>4, <1>7, <1>12, <2>4, LenProperties DEF SharingInv, HolderOK
    <3>2. v.kind = "adapter" /\ v.len <= u.len
      BY <1>4, <1>12, <2>4, <3>1 DEF SharingInv
    <3>3. v.len + Len(fs) <= v.len
      BY <1>1, <3>1, <3>2 DEF SharingInv, AppendedAt
    <3> QED
      BY <1>3, <1>4, <2>4, <3>1, <3>2, <3>3
  <2> QED
    BY <1>5, <2>1, <2>2, <2>3, <2>4
<1> QED
  BY <1>5, <1>8, <1>9, <1>10, <1>11, <1>12 DEF SharingInv

\* What is passed as `fields ...Field` is a sequence of fields.
LEMMA ArgumentsFacts ==
  ASSUME SharingInv, NEW v \in views
  PROVE  /\ Sees(v) \in Seq(Field) /\ Len(Sees(v)) = v.len
         /\ \A i \in 1 .. v.len : Sees(v)[i] = heap[v.arr][i]
         /\ \A fs \in Arguments(v) : fs \in Seq(Field)
<1>1. \A w \in views : /\ heap[w.arr] \in Seq(Field) /\ w.len \in Nat
                       /\ w.len <= Len(heap[w.arr]) /\ Len(heap[w.arr]) \in Nat
  BY LenProperties DEF SharingInv, HolderOK
<1>2. \A w \in views : Sees(w) \in Seq(Field)
  BY <1>1, SubSeqProperties DEF Sees
<1>3. Len(Sees(v)) = v.len /\ \A i \in 1 .. v.len : Sees(v)[i] = heap[v.arr][i]
  BY <1>1, SubSeqProperties DEF Sees
<1>4. \A f \in Field : <<f>> \in Seq(Field)
  OBVIOUS
<1> QED
  BY <1>2, <1>3, <1>4 DEF Arguments

\* Handing a slice out, or dropping it, writes nothing.
LEMMA SharesKeep ==
  ASSUME SharingInv, NEW v \in views, Build(v) \/ LogEnds(v)
  PROVE  SharingInv'
<1> DEFINE n == View("default", v.arr, v.given)
           holders == IF v.kind = "builder" THEN views \cup {n} ELSE views \ {v}
<1>1. /\ v.arr \in Arrays /\ heap[v.arr] \in Seq(Field) /\ HolderOK(v) /\ v.len = Len(v.given)
      /\ \A w \in views : w.arr \in Arrays
      /\ v.len \in Nat
  BY LenProperties DEF SharingInv, HolderOK
<1>2. n.kind = "default" /\ n.arr = v.arr /\ n.given = v.given /\ n.len = v.len
  BY <1>1, ViewFacts
<1>3. Becomes(v.arr, heap[v.arr], holders) /\ v.kind # "set"
      /\ (v.kind # "builder" => v.kind = "call")
  BY DEF Build, LogEnds
<1> HIDE DEF n
<1>4. holders \subseteq views \cup {n} /\ (n \in holders => v.kind = "builder" \/ n \in views)
  OBVIOUS
<1> HIDE DEF holders
<1>5. /\ views' = holders /\ \A b \in Arrays : heap'[b] \in Seq(Field)
      /\ \A w \in holders : w.arr \in Arrays => heap'[w.arr] = heap[w.arr]
  BY <1>1, <1>3, FieldsBecome
<1>6. \A w \in holders : w.arr \in Arrays /\ HolderOK(w)
  BY <1>1, <1>2, <1>3, <1>4 DEF HolderOK, SharingInv
<1>7. \A w \in views' : HolderOK(w)'
  BY <1>5, <1>6 DEF HolderOK
<1>8. \A u, w \in views' : u.arr = w.arr /\ u.kind = "set" => w.kind = "set"
  BY <1>2, <1>3, <1>4, <1>5 DEF SharingInv
<1>9. \A w \in views' : w.kind = "adapter" => w.len = Len(heap'[w.arr])
  BY <1>2, <1>4, <1>5, <1>6 DEF SharingInv
<1>10. \A u, w \in views' : u.kind = "builder" /\ w.kind = "builder" => u = w
  BY <1>2, <1>4, <1>5 DEF SharingInv
<1>11. ASSUME NEW u \in views', NEW w \in views', u.kind = "builder", w.kind # "set", u.arr = w.arr
       PROVE  w.len <= u.len
  <2>1. u \in views /\ u \in holders /\ w \in holders
    BY <1>2, <1>4, <1>5, <1>11
  <2>2. CASE w \in views
    BY <1>11, <2>1, <2>2 DEF SharingInv
  <2>3. CASE w = n
    BY <1>1, <1>2, <1>3, <1>11, <2>1, <2>3 DEF SharingInv
  <2> QED
    BY <1>4, <2>1, <2>2, <2>3
<1> QED
  BY <1>5, <1>7, <1>8, <1>9, <1>10, <1>11 DEF SharingInv

\* With copies into an array of its own, which it fills.
LEMMA WithKeeps ==
  ASSUME SharingInv, NEW v \in views, NEW fs \in Seq(Field), LoggerWith(v, fs)
  PROVE  SharingInv'
<1> DEFINE given == v.given \o fs
           copy == Sees(v) \o fs
<1>1. /\ v.given \in Seq(Field) /\ v.len = Len(v.given) /\ v.len \in Nat /\ Len(fs) \in Nat
      /\ \A w \in views : w.arr \in Arrays /\ HolderOK(w) /\ w.len \in Nat
  BY LenProperties DEF SharingInv, HolderOK
<1>2. PICK fresh \in Arrays :
        /\ v.kind \in LogKinds /\ \A w \in views : w.arr # fresh
        /\ Becomes(fresh, copy, views \cup {View(v.kind, fresh, given)})
  BY FreshFacts DEF LoggerWith
<1> DEFINE n == View(v.kind, fresh, given)
<1>3. /\ Sees(v) \in Seq(Field) /\ Len(Sees(v)) = v.len
      /\ \A i \in 1 .. v.len : Sees(v)[i] = v.given[i]
  BY <1>1, <1>2, ArgumentsFacts DEF SharingInv, HolderOK, LogKinds
<1>4. Sees(v) = v.given
  BY <1>1, <1>3, SeqEqual
<1>5. copy = given /\ given \in Seq(Field)
  BY <1>1, <1>4, ConcatProperties
<1> HIDE DEF given, copy
<1>6. n.kind = v.kind /\ n.arr = fresh /\ n.given = given /\ n.len = Len(given)
  BY ViewFacts
<1> HIDE DEF n
<1>7. /\ views' = views \cup {n} /\ \A b \in Arrays : heap'[b] \in Seq(Field)
      /\ heap'[fresh] = given
      /\ \A w \in views : heap'[w.arr] = heap[w.arr]
  <2> DEFINE holders == views \cup {n}
  <2>1. Becomes(fresh, given, holders)
    BY <1>2, <1>5 DEF n
  <2> HIDE DEF holders
  <2>2. /\ views' = holders /\ \A b \in Arrays : heap'[b] \in Seq(Field)
        /\ \A w \in holders : w.arr \in Arrays =>
             heap'[w.arr] = IF w.arr = fresh THEN given ELSE heap[w.arr]
    BY <1>5, <2>1, FieldsBecome
  <2> QED
    BY <1>1, <1>2, <1>6, <2>2 DEF holders
<1>8. Len(given) \in Nat
  BY <1>5, LenProperties
<1>9. HolderOK(n)'
  <2>1. n.len <= Len(heap'[n.arr]) /\ \A i \in 1 .. n.len : heap'[n.arr][i] = given[i]
    BY <1>6, <1>7, <1>8
  <2> QED
    BY <1>2, <1>5, <1>6, <2>1 DEF HolderOK
<1>10. \A w \in views : HolderOK(w)'
  BY <1>1, <1>7 DEF HolderOK
<1>11. \A w \in views' : w.kind = "adapter" => w.len = Len(heap'[w.arr])
  BY <1>6, <1>7 DEF SharingInv
<1>12. n.kind # "builder" /\ n.kind # "set"
  BY <1>2, <1>6 DEF LogKinds
<1>13. \A u, w \in views' : u.arr = w.arr /\ u.kind = "set" => w.kind = "set"
  BY <1>2, <1>6, <1>7, <1>12 DEF SharingInv
<1>14. \A u, w \in views' : u.kind = "builder" /\ w.kind = "builder" => u = w
  BY <1>7, <1>12 DEF SharingInv
<1>15. \A u, w \in views' :
         u.kind = "builder" /\ w.kind # "set" /\ u.arr = w.arr => w.len <= u.len
  BY <1>2, <1>6, <1>7, <1>12 DEF SharingInv
<1> QED
  <2>1. \A w \in views' : HolderOK(w)'
    BY <1>7, <1>9, <1>10
  <2>2. \A a \in Arrays : heap'[a] \in Seq(Field)
    BY <1>7
  <2> QED
    BY <2>1, <2>2, <1>11, <1>13, <1>14, <1>15 DEF SharingInv

LEMMA SharingStep ==
  ASSUME SharingInv, [FieldsNext]_fieldVars
  PROVE  SharingInv'
<1>1. CASE UNCHANGED fieldVars
  BY <1>1 DEF SharingInv, HolderOK, fieldVars
<1>2. CASE FieldsNext
  <2>1. PICK v \in views :
          \/ \E fs \in Arguments(v) :
               SetWith(v, fs) \/ BuilderWithFields(v, fs) \/ LoggerWith(v, fs) \/ LogBegins(v, fs)
          \/ Build(v) \/ LogEnds(v)
    BY <1>2 DEF FieldsNext
  <2>2. CASE Build(v) \/ LogEnds(v)
    BY <2>2, SharesKeep
  <2>3. ASSUME NEW fs \in Arguments(v),
               SetWith(v, fs) \/ BuilderWithFields(v, fs) \/ LoggerWith(v, fs) \/ LogBegins(v, fs)
        PROVE  SharingInv'
    <3>1. fs \in Seq(Field)
      BY ArgumentsFacts
    <3>2. CASE LoggerWith(v, fs)
      BY <3>1, <3>2, WithKeeps
    <3>3. CASE SetWith(v, fs)
      BY <3>1, <3>3, AppendsKeep DEF SetWith
    <3>4. CASE BuilderWithFields(v, fs)
      <4>1. views \ {v} \subseteq views
        OBVIOUS
      <4> QED
        BY <3>1, <3>4, <4>1, AppendsKeep DEF BuilderWithFields
    <3>5. CASE LogBegins(v, fs)
      BY <3>1, <3>5, AppendsKeep DEF LogBegins
    <3> QED
      BY <2>3, <3>2, <3>3, <3>4, <3>5
  <2> QED
    BY <2>1, <2>2, <2>3
<1> QED
  BY <1>1, <1>2

LEMMA SharingInit ==
  ASSUME FieldsInit
  PROVE  SharingInv
<1> DEFINE none == << >>
           f == CHOOSE g \in Field : TRUE
           two == <<f, f>>
           b == View("builder", 1, none)
           d == View("adapter", 1, none)
           s == View("set", 2, two)
<1>1. none \in Seq(Field) /\ Len(none) = 0
  BY EmptySeq
<1>2. f \in Field
  BY FieldAssumption
<1>3. two \in Seq(Field) /\ Len(two) = 2
  BY <1>2
<1>4. heap = [a \in Arrays |-> IF a = 2 THEN two ELSE none] /\ views = {b, d, s}
  BY DEF FieldsInit
<1> HIDE DEF none, f, two
<1>5. /\ b.kind = "builder" /\ b.arr = 1 /\ b.given = none /\ b.len = 0
      /\ d.kind = "adapter" /\ d.arr = 1 /\ d.given = none /\ d.len = 0
      /\ s.kind = "set" /\ s.arr = 2 /\ s.given = two /\ s.len = 2
  <2>1. b.kind = "builder" /\ b.arr = 1 /\ b.given = none /\ b.len = 0
    BY <1>1, ViewFacts
  <2>2. d.kind = "adapter" /\ d.arr = 1 /\ d.given = none /\ d.len = 0
    BY <1>1, ViewFacts
  <2>3. s.kind = "set" /\ s.arr = 2 /\ s.given = two /\ s.len = Len(two)
    BY ViewFacts
  <2> QED
    BY <1>3, <2>1, <2>2, <2>3
<1> HIDE DEF b, d, s
<1>6. 1 \in Arrays /\ 2 \in Arrays
  BY ArraysAssumption DEF Arrays
<1>7. heap[1] = none /\ heap[2] = two /\ \A a \in Arrays : heap[a] \in Seq(Field)
  <2>1. heap[1] = none
    BY <1>4, <1>6
  <2>2. heap[2] = two
    BY <1>4, <1>6
  <2> QED
    BY <1>1, <1>3, <1>4, <2>1, <2>2
<1>8. HolderOK(b) /\ HolderOK(d) /\ HolderOK(s)
  <2>1. HolderOK(b)
    BY <1>1, <1>5, <1>6, <1>7 DEF HolderOK
  <2>2. HolderOK(d)
    BY <1>1, <1>5, <1>6, <1>7 DEF HolderOK
  <2>3. HolderOK(s)
    <3>1. s.given \in Seq(Field)
      BY <1>3, <1>5
    <3>2. s.len = Len(s.given)
      BY <1>3, <1>5
    <3>3. heap[s.arr] = two
      BY <1>5, <1>7
    <3>4. Len(heap[s.arr]) = 2
      BY <1>3, <3>3
    <3>5. s.len = 2
      BY <1>5
    <3> QED
      BY <1>5, <1>6, <3>1, <3>2, <3>4, <3>5 DEF HolderOK
  <2> QED
    BY <2>1, <2>2, <2>3
<1> QED
  BY <1>1, <1>3, <1>4, <1>5, <1>7, <1>8 DEF SharingInv

(***************************************************************************)
(* Whoever extends the builder, a logger or a set, whatever a logger was   *)
(* made with and a line in progress is to print stays in its slice.        *)
(***************************************************************************)
THEOREM FieldsStay == FieldsSpec => []FieldsKept
<1>1. FieldsInit => SharingInv
  BY SharingInit
<1>2. SharingInv /\ [FieldsNext]_fieldVars => SharingInv'
  BY SharingStep
<1>3. ASSUME SharingInv
      PROVE  FieldsKept
  <2>1. ASSUME NEW v \in views, v.kind # "set"
        PROVE  Sees(v) = v.given
    <3>1. /\ Sees(v) \in Seq(Field) /\ Len(Sees(v)) = v.len
          /\ \A i \in 1 .. v.len : Sees(v)[i] = heap[v.arr][i]
      BY <1>3, ArgumentsFacts
    <3>2. /\ v.given \in Seq(Field) /\ v.len = Len(v.given)
          /\ \A i \in 1 .. v.len : heap[v.arr][i] = v.given[i]
      BY <1>3, <2>1 DEF SharingInv, HolderOK
    <3> QED
      BY <3>1, <3>2, SeqEqual
  <2> QED
    BY <2>1 DEF FieldsKept
<1> QED
  BY <1>1, <1>2, <1>3, PTL DEF FieldsSpec
=============================================================================
