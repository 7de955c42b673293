------------------------- MODULE FileRepositoryProofs ------------------------
(***************************************************************************)
(* FileRepository keeps the snapshot file whole and implements             *)
(* AtomicRepository, for every number of goroutines and snapshots, as long *)
(* as there is one repository object for the path.                         *)
(***************************************************************************)
EXTENDS FileRepository, TLAPS

(***************************************************************************)
(* The users share one FileSnapshotRepository, and with it its mutex.      *)
(***************************************************************************)
OneRepository == \A u, w \in Users : RepoOf[u] = RepoOf[w]

LEMMA NullsDiffer ==
  /\ None \notin Values /\ Torn \notin Values /\ None # Torn
  /\ None \notin Inodes /\ None \notin Users
  BY ValuesAssumption DEF None, Torn

LEMMA TypingInit == Init => TypeOK
  BY NullsDiffer DEF Init, TypeOK, Steps, SaveSteps, Torn

(***************************************************************************)
(* Typing, for any number of repository objects: a goroutine has a         *)
(* snapshot exactly while it saves, and a descriptor exactly between the   *)
(* open and the end of the write.                                          *)
(***************************************************************************)
LEMMA TypingStep == TypeOK /\ [Next]_vars => TypeOK'
<1> SUFFICES ASSUME TypeOK, [Next]_vars
             PROVE  TypeOK'
  OBVIOUS
<1> USE NullsDiffer, RepoOfAssumption
    DEF TypeOK, Steps, SaveSteps, LoadSteps, DeleteSteps, ExistsSteps
<1>1. ASSUME NEW u \in Users, Begin(u)
      PROVE  TypeOK'
  BY <1>1 DEF Begin, Goto, names, locks
<1>2. ASSUME NEW u \in Users, NEW from \in Steps, NEW to \in Steps,
             from \in SaveSteps <=> to \in SaveSteps, from # "write", to # "write",
             Lock(u, from, to) \/ RLock(u, from, to)
      PROVE  TypeOK'
  BY <1>2 DEF Lock, RLock, Goto, names
<1>3. ASSUME NEW u \in Users, NEW r \in Values \cup {None, "ok", "error", "yes", "no"},
             Return(u, r), {target', temp'} \subseteq Inodes \cup {None},
             content' \in [Inodes -> Values \cup {Torn}]
      PROVE  TypeOK'
  BY <1>3 DEF Return, Goto
<1>4. ASSUME NEW u \in Users, Save(u)
      PROVE  TypeOK'
  <2>1. CASE Lock(u, "save", "open")
    BY <1>2, <2>1
  <2>2. CASE OpenTemp(u)
    BY <2>2 DEF OpenTemp, Goto, locks
  <2>3. CASE WriteTemp(u)
    BY <2>3 DEF WriteTemp, Goto, names, locks
  <2>4. CASE WriteFails(u)
    <3>1. content' \in [Inodes -> Values \cup {Torn}]
      BY <2>4 DEF WriteFails
    <3> QED
      BY <1>3, <2>4, <3>1 DEF WriteFails, names
  <2>5. CASE Rename(u)
    BY <1>3, <2>5 DEF Rename
  <2>6. CASE RenameFails(u)
    BY <2>6 DEF RenameFails, Goto, names, locks
  <2>7. CASE Cleanup(u)
    BY <1>3, <2>7 DEF Cleanup
  <2> QED
    BY <1>4, <2>1, <2>2, <2>3, <2>4, <2>5, <2>6, <2>7 DEF Save
<1>5. ASSUME NEW u \in Users, Load(u)
      PROVE  TypeOK'
  <2>1. CASE RLock(u, "load", "stat")
    BY <1>2, <2>1
  <2>2. CASE StatMissing(u)
    BY <1>3, <2>2 DEF StatMissing, names
  <2>3. CASE StatFound(u)
    BY <2>3 DEF StatFound, Goto, names, locks
  <2>4. CASE Read(u)
    <3>1. content[target] \in Values
      BY <2>4 DEF Read, Whole
    <3> QED
      BY <1>3, <2>4, <3>1 DEF Read, names
  <2>5. CASE ReadFails(u)
    BY <1>3, <2>5 DEF ReadFails, names
  <2> QED
    BY <1>5, <2>1, <2>2, <2>3, <2>4, <2>5 DEF Load
<1>6. ASSUME NEW u \in Users, Exists(u)
      PROVE  TypeOK'
  <2>1. CASE RLock(u, "exists", "look")
    BY <1>2, <2>1
  <2>2. CASE Look(u) \/ LookFails(u)
    BY <1>3, <2>2 DEF Look, LookFails, names
  <2> QED
    BY <1>6, <2>1, <2>2 DEF Exists
<1>7. ASSUME NEW u \in Users, Delete(u)
      PROVE  TypeOK'
  <2>1. CASE Lock(u, "delete", "check")
    BY <1>2, <2>1
  <2>2. CASE CheckFound(u)
    BY <2>2 DEF CheckFound, Goto, names, locks
  <2>3. CASE CheckMissing(u) \/ RemoveFails(u)
    BY <1>3, <2>3 DEF CheckMissing, RemoveFails, names
  <2>4. CASE Remove(u)
    BY <1>3, <2>4 DEF Remove
  <2> QED
    BY <1>7, <2>1, <2>2, <2>3, <2>4 DEF Delete
<1>8. CASE Crash
  BY <1>8 DEF Crash, names
<1>9. CASE UNCHANGED vars
  BY <1>9 DEF vars, names, locks
<1> QED
  BY <1>1, <1>4, <1>5, <1>6, <1>7, <1>8, <1>9 DEF Next, Progress

(***************************************************************************)
(* The variables of the repositories keep their types.                     *)
(***************************************************************************)
THEOREM FileTyping == Spec => []TypeOK
  BY TypingInit, TypingStep, PTL DEF Spec
-----------------------------------------------------------------------------
(* The target is whole. *)

WriterSteps == {"open", "write", "rename", "cleanup", "check", "remove"}

\* Save and Delete run alone.
WriterAlone == \A u \in Users : step[u] \in WriterSteps <=> writer[RepoOf[u]] = u

\* The temporary file is never the target; it is torn while it is written,
\* and then holds what is to be saved.
TempInOrder ==
  /\ temp # None => temp # target
  /\ \A u \in Users :
       /\ step[u] = "write" => temp = fd[u] /\ content[temp] = Torn
       /\ step[u] = "rename" => temp # None /\ content[temp] = arg[u]

FileInv == TargetNeverTorn /\ WriterAlone /\ TempInOrder

LEMMA FileInvInit == Init => FileInv
  BY NullsDiffer, RepoOfAssumption
     DEF Init, FileInv, TargetNeverTorn, WriterAlone, TempInOrder, WriterSteps

\* Two goroutines are never in Save or Delete at once.
LEMMA OneWriter ==
  ASSUME OneRepository, WriterAlone, NEW u \in Users, NEW w \in Users,
         step[u] \in WriterSteps, step[w] \in WriterSteps
  PROVE  u = w
  BY DEF OneRepository, WriterAlone

\* A return lets go of the mutex, if it was held.
LEMMA ReturnLeaves ==
  ASSUME TypeOK, WriterAlone, NEW u \in Users, NEW r, Return(u, r)
  PROVE  /\ WriterAlone'
         /\ step'[u] = "idle"
         /\ \A w \in Users \ {u} :
              step'[w] = step[w] /\ arg'[w] = arg[w] /\ fd'[w] = fd[w]
<1> USE NullsDiffer, RepoOfAssumption
<1>1. step'[u] = "idle"
  BY DEF TypeOK, Return, Goto
<1>2. ASSUME NEW w \in Users \ {u}
      PROVE  /\ step'[w] = step[w] /\ arg'[w] = arg[w] /\ fd'[w] = fd[w]
             /\ writer'[RepoOf[w]] = w <=> writer[RepoOf[w]] = w
  BY DEF TypeOK, Return, Goto
<1>3. writer'[RepoOf[u]] # u
  BY DEF TypeOK, Return
<1>4. WriterAlone'
  BY <1>1, <1>2, <1>3 DEF WriterAlone, WriterSteps
<1> QED
  BY <1>1, <1>2, <1>4

(***************************************************************************)
(* Goroutine u changes files only while it is the one writer; everything   *)
(* else keeps FileInv because names and contents stay.                     *)
(***************************************************************************)
LEMMA FileInvStep ==
  OneRepository /\ TypeOK /\ FileInv /\ [Next]_vars => FileInv'
<1> SUFFICES ASSUME OneRepository, TypeOK, FileInv, [Next]_vars
             PROVE  FileInv'
  OBVIOUS
<1> USE NullsDiffer, RepoOfAssumption
<1>1. ASSUME NEW u \in Users, NEW r, Return(u, r), UNCHANGED <<names, content>>
      PROVE  FileInv'
  <2>1. WriterAlone'
    BY <1>1, ReturnLeaves DEF FileInv
  <2>2. TempInOrder'
    <3>1. ASSUME NEW w \in Users
          PROVE  /\ step'[w] = "write" =>
                      step[w] = "write" /\ fd'[w] = fd[w] /\ arg'[w] = arg[w]
                 /\ step'[w] = "rename" => step[w] = "rename" /\ arg'[w] = arg[w]
      BY <1>1, ReturnLeaves DEF FileInv
    <3> QED
      BY <1>1, <3>1 DEF FileInv, TempInOrder, names
  <2> QED
    BY <1>1, <2>1, <2>2 DEF FileInv, TargetNeverTorn, names
<1>2. ASSUME NEW u \in Users, NEW from, NEW to, from \notin WriterSteps,
             \/ Lock(u, from, to) /\ to \in {"open", "check"}
             \/ RLock(u, from, to) /\ to \notin WriterSteps
      PROVE  FileInv'
  <2>1. WriterAlone'
    BY <1>2 DEF FileInv, WriterAlone, TypeOK, Lock, RLock, Goto, WriterSteps, OneRepository
  <2>2. TempInOrder'
    BY <1>2 DEF FileInv, TempInOrder, TypeOK, Lock, RLock, Goto, WriterSteps, names
  <2> QED
    BY <1>2, <2>1, <2>2 DEF FileInv, TargetNeverTorn, Lock, RLock, names
<1>3. ASSUME NEW u \in Users, NEW from, NEW to, step[u] = from, Goto(u, to),
             from \in WriterSteps <=> to \in WriterSteps, to \notin {"write", "rename"},
             UNCHANGED <<names, content, locks, arg, fd>>
      PROVE  FileInv'
  <2>1. WriterAlone'
    BY <1>3 DEF FileInv, WriterAlone, TypeOK, Goto, locks
  <2>2. TempInOrder'
    BY <1>3 DEF FileInv, TempInOrder, TypeOK, Goto, names
  <2> QED
    BY <1>3, <2>1, <2>2 DEF FileInv, TargetNeverTorn, names
<1>4. ASSUME NEW u \in Users, Begin(u)
      PROVE  FileInv'
  <2>1. PICK to \in {"save", "load", "delete", "exists"} : Goto(u, to)
    BY <1>4 DEF Begin
  <2>2. WriterAlone'
    BY <1>4, <2>1 DEF Begin, FileInv, WriterAlone, TypeOK, Goto, WriterSteps, locks
  <2>3. TempInOrder'
    BY <1>4, <2>1 DEF Begin, FileInv, TempInOrder, TypeOK, Goto, names
  <2> QED
    BY <1>4, <2>2, <2>3 DEF Begin, FileInv, TargetNeverTorn, names
<1>5. ASSUME NEW u \in Users, step[u] \in WriterSteps, NEW w \in Users, w # u
      PROVE  step[w] \notin WriterSteps
  BY <1>5, OneWriter DEF FileInv
<1>6. ASSUME NEW u \in Users, Save(u)
      PROVE  FileInv'
  <2>1. CASE Lock(u, "save", "open")
    <3>1. "save" \notin WriterSteps
      BY DEF WriterSteps
    <3> QED
      BY <1>2, <2>1, <3>1
  <2>2. CASE OpenTemp(u)
    <3>1. PICK i \in Inodes :
            /\ IF temp = None THEN Free(i) ELSE i = temp
            /\ temp' = i
            /\ content' = [content EXCEPT ![i] = Torn]
            /\ fd' = [fd EXCEPT ![u] = i]
      BY <2>2 DEF OpenTemp
    <3>2. i # target
      BY <3>1 DEF Free, FileInv, TempInOrder
    <3>3. WriterAlone'
      BY <2>2 DEF OpenTemp, FileInv, WriterAlone, TypeOK, Goto, WriterSteps, locks
    <3>4. \A w \in Users \ {u} : step'[w] \notin {"write", "rename"}
      BY <1>5, <2>2 DEF OpenTemp, TypeOK, Goto, WriterSteps
    <3>5. temp' = i /\ fd'[u] = i /\ content'[i] = Torn /\ target' = target
      BY <2>2, <3>1 DEF OpenTemp, TypeOK
    <3>6. step'[u] = "write"
      BY <2>2 DEF OpenTemp, TypeOK, Goto
    <3>7. TempInOrder'
      BY <3>2, <3>4, <3>5, <3>6 DEF TempInOrder
    <3>8. TargetNeverTorn'
      BY <3>1, <3>2, <3>5 DEF FileInv, TargetNeverTorn, TypeOK
    <3> QED
      BY <3>3, <3>7, <3>8 DEF FileInv
  <2>3. CASE WriteTemp(u)
    <3>1. temp = fd[u] /\ content[temp] = Torn /\ temp # None /\ temp # target
      BY <2>3 DEF WriteTemp, FileInv, TempInOrder, TypeOK
    <3>2. content' = [content EXCEPT ![temp] = arg[u]]
      BY <2>3, <3>1 DEF WriteTemp
    <3>3. WriterAlone'
      BY <2>3 DEF WriteTemp, FileInv, WriterAlone, TypeOK, Goto, WriterSteps, locks
    <3>4. \A w \in Users \ {u} : step'[w] \notin {"write", "rename"}
      BY <1>5, <2>3 DEF WriteTemp, TypeOK, Goto, WriterSteps
    <3>5. step'[u] = "rename" /\ arg'[u] = arg[u] /\ temp' = temp /\ target' = target
      BY <2>3 DEF WriteTemp, TypeOK, Goto, names
    <3>6. content'[temp] = arg[u]
      BY <3>1, <3>2 DEF TypeOK
    <3>7. TempInOrder'
      BY <3>1, <3>4, <3>5, <3>6 DEF TempInOrder
    <3>8. TargetNeverTorn'
      BY <3>1, <3>2, <3>5 DEF FileInv, TargetNeverTorn, TypeOK
    <3> QED
      BY <3>3, <3>7, <3>8 DEF FileInv
  <2>4. CASE WriteFails(u)
    <3>1. content' = content
      \* a file that is being written holds nothing yet
      <4>1. step[u] = "write" => content[fd[u]] = Torn
        BY DEF FileInv, TempInOrder
      <4> QED
        BY <2>4, <4>1 DEF WriteFails, TypeOK
    <3> QED
      BY <1>1, <2>4, <3>1 DEF WriteFails
  <2>5. CASE Rename(u)
    <3>1. content[temp] = arg[u] /\ arg[u] \in Values
      BY <2>5 DEF Rename, FileInv, TempInOrder, TypeOK, SaveSteps
    <3>2. Return(u, "ok") /\ target' = temp /\ temp' = None /\ content' = content
      BY <2>5 DEF Rename
    <3>3. WriterAlone' /\ step'[u] = "idle"
      BY <3>2, ReturnLeaves DEF FileInv
    <3>4. \A w \in Users \ {u} : step'[w] = step[w]
      BY <3>2, ReturnLeaves DEF FileInv
    <3>5. \A w \in Users : step'[w] \notin {"write", "rename"}
      BY <1>5, <2>5, <3>3, <3>4 DEF Rename, WriterSteps
    <3> QED
      BY <3>1, <3>2, <3>3, <3>5 DEF FileInv, TargetNeverTorn, TempInOrder
  <2>6. CASE RenameFails(u)
    BY <1>3, <2>6 DEF RenameFails, WriterSteps
  <2>7. CASE Cleanup(u)
    <3>2. Return(u, "error") /\ target' = target /\ temp' \in {None, temp}
            /\ content' = content
      BY <2>7 DEF Cleanup
    <3>3. WriterAlone' /\ step'[u] = "idle"
      BY <3>2, ReturnLeaves DEF FileInv
    <3>4. \A w \in Users \ {u} : step'[w] = step[w]
      BY <3>2, ReturnLeaves DEF FileInv
    <3>5. \A w \in Users : step'[w] \notin {"write", "rename"}
      BY <1>5, <2>7, <3>3, <3>4 DEF Cleanup, WriterSteps
    <3> QED
      BY <3>2, <3>3, <3>5 DEF FileInv, TargetNeverTorn, TempInOrder
  <2> QED
    BY <1>6, <2>1, <2>2, <2>3, <2>4, <2>5, <2>6, <2>7 DEF Save
<1>7. ASSUME NEW u \in Users, Load(u) \/ Exists(u)
      PROVE  FileInv'
  <2>1. CASE RLock(u, "load", "stat") \/ RLock(u, "exists", "look")
    BY <1>2, <2>1 DEF WriterSteps
  <2>2. CASE StatFound(u)
    BY <1>3, <2>2 DEF StatFound, WriterSteps
  <2>3. CASE StatMissing(u) \/ Read(u) \/ ReadFails(u) \/ Look(u) \/ LookFails(u)
    BY <1>1, <2>3 DEF StatMissing, Read, ReadFails, Look, LookFails
  <2> QED
    BY <1>7, <2>1, <2>2, <2>3 DEF Load, Exists
<1>8. ASSUME NEW u \in Users, Delete(u)
      PROVE  FileInv'
  <2>1. CASE Lock(u, "delete", "check")
    <3>1. "delete" \notin WriterSteps
      BY DEF WriterSteps
    <3> QED
      BY <1>2, <2>1, <3>1
  <2>2. CASE CheckFound(u)
    BY <1>3, <2>2 DEF CheckFound, WriterSteps
  <2>3. CASE CheckMissing(u) \/ RemoveFails(u)
    BY <1>1, <2>3 DEF CheckMissing, RemoveFails
  <2>4. CASE Remove(u)
    <3>2. Return(u, "ok") /\ target' = None /\ temp' = temp /\ content' = content
      BY <2>4 DEF Remove
    <3>3. WriterAlone' /\ step'[u] = "idle"
      BY <3>2, ReturnLeaves DEF FileInv
    <3>4. \A w \in Users \ {u} : step'[w] = step[w]
      BY <3>2, ReturnLeaves DEF FileInv
    <3>5. \A w \in Users : step'[w] \notin {"write", "rename"}
      BY <1>5, <2>4, <3>3, <3>4 DEF Remove, WriterSteps
    <3> QED
      BY <3>2, <3>3, <3>5 DEF FileInv, TargetNeverTorn, TempInOrder
  <2> QED
    BY <1>8, <2>1, <2>2, <2>3, <2>4 DEF Delete
<1>9. CASE Crash
  BY <1>9 DEF Crash, FileInv, TargetNeverTorn, WriterAlone, TempInOrder, WriterSteps, names
<1>10. CASE UNCHANGED vars
  BY <1>10 DEF vars, names, locks, FileInv, TargetNeverTorn, WriterAlone, TempInOrder
<1> QED
  BY <1>4, <1>6, <1>7, <1>8, <1>9, <1>10 DEF Next, Progress

LEMMA SpecFileInv == OneRepository /\ Spec => []FileInv
<1> SUFFICES ASSUME OneRepository
             PROVE  Spec => []FileInv
  OBVIOUS
<1>1. TypeOK /\ FileInv /\ [Next]_vars => FileInv'
  BY FileInvStep
<1> QED
  BY <1>1, FileInvInit, FileTyping, PTL DEF Spec

(***************************************************************************)
(* With one repository object for the path, the snapshot file is absent or *)
(* a whole snapshot at every moment, so also after a crash.                *)
(***************************************************************************)
THEOREM NeverTorn == OneRepository /\ Spec => []TargetNeverTorn
<1>1. FileInv => TargetNeverTorn
  BY DEF FileInv
<1> QED
  BY <1>1, SpecFileInv, PTL
-----------------------------------------------------------------------------
(* Every call takes effect at one moment. *)

LEMMA PendingFacts ==
  ASSUME NEW u \in Users
  PROVE  /\ step[u] = "idle" => Pending(u) = Abstract!NoCall
         /\ step[u] \in SaveSteps => Pending(u) = [op |-> "save", value |-> arg[u]]
         /\ step[u] \in LoadSteps => Pending(u) = [op |-> "load"]
         /\ step[u] \in ExistsSteps => Pending(u) = [op |-> "exists"]
         /\ step[u] \in DeleteSteps => Pending(u) = [op |-> "delete"]
  BY DEF Pending, Abstract!NoCall, SaveSteps, LoadSteps, ExistsSteps, DeleteSteps

\* A call goes on: nobody outside can tell.
LEMMA GoesOn ==
  ASSUME TypeOK, NEW u \in Users, NEW to, Goto(u, to),
         \/ step[u] \in SaveSteps /\ to \in SaveSteps
         \/ step[u] \in LoadSteps /\ to \in LoadSteps
         \/ step[u] \in ExistsSteps /\ to \in ExistsSteps
         \/ step[u] \in DeleteSteps /\ to \in DeleteSteps,
         UNCHANGED arg, UNCHANGED reply, UNCHANGED Contents
  PROVE  UNCHANGED Abstract!vars
<1>1. ASSUME NEW w \in Users
      PROVE  Pending(w)' = Pending(w)
  <2>1. CASE w = u
    BY <2>1 DEF Pending, TypeOK, Goto, SaveSteps, LoadSteps, ExistsSteps, DeleteSteps
  <2>2. CASE w # u
    BY <2>2 DEF Pending, TypeOK, Goto
  <2> QED
    BY <2>1, <2>2
<1> QED
  BY <1>1 DEF Abstract!vars

\* A call returns: it has been answered.
LEMMA ReturnAnswers ==
  ASSUME TypeOK, NEW u \in Users, NEW r, Return(u, r)
  PROVE  Abstract!Answer(u, r)
<1>1. Pending(u)' = Abstract!NoCall
  <2>1. step'[u] = "idle"
    BY DEF TypeOK, Return, Goto
  <2> QED
    BY <2>1 DEF Pending, Abstract!NoCall, SaveSteps, LoadSteps, ExistsSteps, DeleteSteps
<1>2. ASSUME NEW w \in Users \ {u}
      PROVE  Pending(w)' = Pending(w)
  BY DEF Pending, TypeOK, Return, Goto
<1>3. reply' = [reply EXCEPT ![u] = r]
  BY DEF Return
<1> QED
  BY <1>1, <1>2, <1>3 DEF Abstract!Answer

LEMMA ContentsFacts ==
  ASSUME TypeOK
  PROVE  /\ Contents = None <=> target = None
         /\ UNCHANGED <<target, content>> => UNCHANGED Contents
  BY NullsDiffer DEF TypeOK, Contents

LEMMA AtomicInit == Init => Abstract!Init
<1> SUFFICES ASSUME Init
             PROVE  Abstract!Init
  OBVIOUS
<1>1. \A u \in Users : Pending(u) = Abstract!NoCall
  BY PendingFacts DEF Init
<1> QED
  BY <1>1 DEF Init, Abstract!Init, Contents

(***************************************************************************)
(* A save takes effect at its rename, a delete at its remove (or when it   *)
(* sees that there is nothing to remove), a load at its read or its stat.  *)
(* The other steps of a call, and everything done to the temporary file,   *)
(* are stutters.                                                           *)
(***************************************************************************)
LEMMA AtomicStep ==
  TypeOK /\ FileInv /\ [Next]_vars => [Abstract!Next]_(Abstract!vars)
<1> SUFFICES ASSUME TypeOK, FileInv, [Next]_vars
             PROVE  [Abstract!Next]_(Abstract!vars)
  OBVIOUS
<1> DEFINE ANext == [Abstract!Next]_(Abstract!vars)
<1>1. ASSUME NEW u \in Users,
             Abstract!Start(u) \/ Abstract!Save(u) \/ Abstract!Delete(u)
               \/ Abstract!Load(u) \/ Abstract!Exists(u) \/ Abstract!Fail(u)
      PROVE  ANext
  BY <1>1 DEF Abstract!Next
<1>2. ASSUME NEW u \in Users, step[u] # "idle", Return(u, "error"),
             UNCHANGED <<target, content>>
      PROVE  ANext
  <2>1. Pending(u) # Abstract!NoCall
    BY <1>2, PendingFacts
       DEF TypeOK, Steps, Abstract!NoCall
  <2>2. Abstract!Fail(u)
    BY <1>2, <2>1, ReturnAnswers, ContentsFacts DEF Abstract!Fail
  <2> HIDE DEF ANext
  <2> QED
    BY <1>1, <2>2
<1>3. ASSUME NEW u \in Users, Begin(u)
      PROVE  ANext
  <2>1. UNCHANGED Contents /\ reply' = [reply EXCEPT ![u] = None]
    BY <1>3, ContentsFacts DEF Begin, names
  <2>2. Pending(u) = Abstract!NoCall
    BY <1>3, PendingFacts DEF Begin
  <2>3. \A w \in Users \ {u} : Pending(w)' = Pending(w)
    BY <1>3 DEF Begin, Goto, TypeOK, Pending
  <2>4. \E c \in Abstract!Calls : Pending(u)' = c
    <3>1. CASE Goto(u, "save") /\ \E v \in Values : arg' = [arg EXCEPT ![u] = v]
      <4>1. PICK v \in Values : arg' = [arg EXCEPT ![u] = v]
        BY <3>1
      <4>2. step'[u] = "save" /\ arg'[u] = v
        BY <3>1, <4>1 DEF TypeOK, Goto
      <4>3. Pending(u)' = [op |-> "save", value |-> v]
        BY <4>2 DEF Pending, SaveSteps, LoadSteps, ExistsSteps, DeleteSteps
      <4> QED
        BY <4>3 DEF Abstract!Calls
    <3>2. CASE \E op \in {"load", "delete", "exists"} : Goto(u, op)
      <4>1. step'[u] \in {"load", "delete", "exists"}
        BY <3>2 DEF TypeOK, Goto
      <4>2. Pending(u)' = [op |-> step'[u]]
        BY <4>1 DEF Pending, SaveSteps, LoadSteps, ExistsSteps, DeleteSteps
      <4> QED
        BY <4>1, <4>2 DEF Abstract!Calls
    <3> QED
      BY <1>3, <3>1, <3>2 DEF Begin
  <2>5. Abstract!Start(u)
    BY <2>1, <2>2, <2>3, <2>4 DEF Abstract!Start
  <2> HIDE DEF ANext
  <2> QED
    BY <1>1, <2>5
<1>4. ASSUME NEW u \in Users, Save(u)
      PROVE  ANext
  <2>1. CASE Lock(u, "save", "open")
    BY <2>1, GoesOn, ContentsFacts DEF Lock, SaveSteps, names
  <2>2. CASE OpenTemp(u)
    <3>1. PICK i \in Inodes :
            /\ IF temp = None THEN Free(i) ELSE i = temp
            /\ content' = [content EXCEPT ![i] = Torn]
      BY <2>2 DEF OpenTemp
    <3>2. i # target
      BY <3>1 DEF Free, FileInv, TempInOrder
    <3>3. UNCHANGED Contents
      BY <2>2, <3>1, <3>2 DEF OpenTemp, Contents, TypeOK
    <3> QED
      BY <2>2, <3>3, GoesOn DEF OpenTemp, SaveSteps
  <2>3. CASE WriteTemp(u)
    <3>1. fd[u] # target
      BY <2>3, NullsDiffer DEF WriteTemp, FileInv, TempInOrder, TypeOK
    <3>2. UNCHANGED Contents
      BY <2>3, <3>1 DEF WriteTemp, Contents, TypeOK, names
    <3> QED
      BY <2>3, <3>2, GoesOn DEF WriteTemp, SaveSteps
  <2>4. CASE WriteFails(u)
    <3>1. step[u] = "write" => content[fd[u]] = Torn
      BY DEF FileInv, TempInOrder
    <3>2. content' = content
      BY <2>4, <3>1 DEF WriteFails, TypeOK
    <3> QED
      BY <1>2, <2>4, <3>2 DEF WriteFails, names
  <2>5. CASE Rename(u)
    <3>1. Contents' = arg[u]
      BY <2>5 DEF Rename, FileInv, TempInOrder, Contents
    <3>2. Pending(u) = [op |-> "save", value |-> arg[u]]
      BY <2>5, PendingFacts DEF Rename, SaveSteps
    <3>3. Abstract!Save(u)
      BY <2>5, <3>1, <3>2, ReturnAnswers DEF Rename, Abstract!Save
    <3> HIDE DEF ANext
    <3> QED
      BY <1>1, <3>3
  <2>6. CASE RenameFails(u)
    BY <2>6, GoesOn, ContentsFacts DEF RenameFails, SaveSteps, names
  <2>7. CASE Cleanup(u)
    BY <1>2, <2>7 DEF Cleanup
  <2> QED
    BY <1>4, <2>1, <2>2, <2>3, <2>4, <2>5, <2>6, <2>7 DEF Save
<1>5. ASSUME NEW u \in Users, Load(u)
      PROVE  ANext
  <2>1. CASE RLock(u, "load", "stat")
    BY <2>1, GoesOn, ContentsFacts DEF RLock, LoadSteps, names
  <2>2. CASE StatFound(u)
    BY <2>2, GoesOn, ContentsFacts DEF StatFound, LoadSteps, names
  <2>3. CASE StatMissing(u) \/ Read(u)
    <3>1. Pending(u).op = "load"
      BY <2>3, PendingFacts DEF StatMissing, Read, LoadSteps
    <3>2. Return(u, Contents) /\ UNCHANGED Contents
      BY <2>3, ContentsFacts DEF StatMissing, Read, Whole, Contents, names
    <3>3. Abstract!Load(u)
      BY <3>1, <3>2, ReturnAnswers DEF Abstract!Load
    <3> HIDE DEF ANext
    <3> QED
      BY <1>1, <3>3
  <2>4. CASE ReadFails(u)
    BY <1>2, <2>4 DEF ReadFails, names
  <2> QED
    BY <1>5, <2>1, <2>2, <2>3, <2>4 DEF Load
<1>6. ASSUME NEW u \in Users, Exists(u)
      PROVE  ANext
  <2>1. CASE RLock(u, "exists", "look")
    BY <2>1, GoesOn, ContentsFacts DEF RLock, ExistsSteps, names
  <2>2. CASE Look(u)
    <3>1. Pending(u).op = "exists"
      BY <2>2, PendingFacts DEF Look, ExistsSteps
    <3>2. Return(u, IF Contents = None THEN "no" ELSE "yes") /\ UNCHANGED Contents
      BY <2>2, ContentsFacts DEF Look, names
    <3>3. Abstract!Exists(u)
      BY <3>1, <3>2, ReturnAnswers DEF Abstract!Exists
    <3> HIDE DEF ANext
    <3> QED
      BY <1>1, <3>3
  <2>3. CASE LookFails(u)
    BY <1>2, <2>3 DEF LookFails, names
  <2> QED
    BY <1>6, <2>1, <2>2, <2>3 DEF Exists
<1>7. ASSUME NEW u \in Users, Delete(u)
      PROVE  ANext
  <2>1. CASE Lock(u, "delete", "check")
    BY <2>1, GoesOn, ContentsFacts DEF Lock, DeleteSteps, names
  <2>2. CASE CheckFound(u)
    BY <2>2, GoesOn, ContentsFacts DEF CheckFound, DeleteSteps, names
  <2>3. CASE CheckMissing(u) \/ Remove(u)
    <3>1. Pending(u).op = "delete"
      BY <2>3, PendingFacts DEF CheckMissing, Remove, DeleteSteps
    <3>2. Return(u, "ok") /\ Contents' = None
      BY <2>3 DEF CheckMissing, Remove, Contents, names
    <3>3. Abstract!Delete(u)
      BY <3>1, <3>2, ReturnAnswers DEF Abstract!Delete
    <3> HIDE DEF ANext
    <3> QED
      BY <1>1, <3>3
  <2>4. CASE RemoveFails(u)
    BY <1>2, <2>4 DEF RemoveFails, names
  <2> QED
    BY <1>7, <2>1, <2>2, <2>3, <2>4 DEF Delete
<1>8. CASE Crash
  <2>1. \A u \in Users : Pending(u)' = Abstract!NoCall
    BY <1>8 DEF Crash, Pending, Abstract!NoCall,
                SaveSteps, LoadSteps, ExistsSteps, DeleteSteps
  <2>2. Abstract!Crash
    BY <1>8, <2>1, ContentsFacts DEF Crash, Abstract!Crash, names
  <2> QED
    BY <2>2 DEF Abstract!Next
<1>9. CASE UNCHANGED vars
  BY <1>9 DEF vars, names, locks, Abstract!vars, Contents, Pending
<1> QED
  BY <1>3, <1>4, <1>5, <1>6, <1>7, <1>8, <1>9 DEF Next, Progress

(***************************************************************************)
(* Saves, loads, deletes and crashes of one repository object, in any      *)
(* interleaving and with any failing system call, look to its users as if  *)
(* each had happened at once or not at all.                                *)
(***************************************************************************)
THEOREM ImplementsAtomic == OneRepository /\ Spec => AtomicSpec
  BY AtomicInit, AtomicStep, FileTyping, SpecFileInv, PTL DEF Spec, AtomicSpec, Abstract!Spec
=============================================================================
