--------------------------- MODULE FileRepository ---------------------------
(***************************************************************************)
(* FileSnapshotRepository (file_repository.go) over a POSIX file system.   *)
(*                                                                         *)
(* Save writes a temporary file and renames it over the target.  The mutex *)
(* that protects the two files belongs to the FileSnapshotRepository, not  *)
(* to the path, and the temporary name depends on nothing but the path:    *)
(* two repositories on one path (NewTempFileSnapshotRepository gives every *)
(* caller the same one) share both files and no lock.                      *)
(*                                                                         *)
(* Names refer to inodes, as they do in the file system: a file that has   *)
(* been renamed is still the file a slow writer has open.                  *)
(***************************************************************************)
EXTENDS Integers, FiniteSets

CONSTANTS
  Users,      \* goroutines that call the repositories
  Repos,      \* FileSnapshotRepository objects, all on one path
  RepoOf,     \* the object each user calls
  Values,     \* snapshots
  Inodes,     \* bound: enough for the two names and every open file
  IOFails     \* any system call may fail

ASSUME RepoOfAssumption == RepoOf \in [Users -> Repos]
ASSUME InodesAssumption ==
  IsFiniteSet(Inodes) /\ Cardinality(Inodes) >= Cardinality(Repos) + 1
ASSUME IOFailsAssumption == IOFails \in BOOLEAN

None == "none"

\* What a file holds between its truncation and the end of the write, and
\* what is left of two writes on top of each other: nothing FromJSON accepts.
Torn == "torn"

ASSUME ValuesAssumption ==
  /\ {None, Torn, "ok", "error", "yes", "no"} \cap Values = {}
  /\ None \notin Inodes \cup Users

VARIABLES
  target,    \* the inode filePath names, or None
  temp,      \* the inode filePath + ".tmp" names, or None
  content,   \* of every inode
  writer,    \* per repository: who holds mutex.Lock, or None
  readers,   \* per repository: who holds mutex.RLock
  step,      \* where each user stands in its call
  arg,       \* the snapshot it is saving
  fd,        \* the inode os.WriteFile has open
  reply      \* what its last call returned, until the next one

names == <<target, temp>>
locks == <<writer, readers>>
vars == <<target, temp, content, writer, readers, step, arg, fd, reply>>

SaveSteps == {"save", "open", "write", "rename", "cleanup"}
LoadSteps == {"load", "stat", "read"}
DeleteSteps == {"delete", "check", "remove"}
ExistsSteps == {"exists", "look"}
Steps == {"idle"} \cup SaveSteps \cup LoadSteps \cup DeleteSteps \cup ExistsSteps

Init ==
  /\ target = None /\ temp = None
  /\ content = [i \in Inodes |-> Torn]
  /\ writer = [r \in Repos |-> None]
  /\ readers = [r \in Repos |-> {}]
  /\ step = [u \in Users |-> "idle"]
  /\ arg = [u \in Users |-> None]
  /\ fd = [u \in Users |-> None]
  /\ reply = [u \in Users |-> None]

\* An inode with neither a name nor an open descriptor.
Free(i) == i \notin {target, temp} /\ \A u \in Users : fd[u] # i
-----------------------------------------------------------------------------
Goto(u, s) == step' = [step EXCEPT ![u] = s]

\* Calls begin.  (A context that is done returns before it gets here.)
Begin(u) ==
  /\ step[u] = "idle"
  /\ \/ /\ \E v \in Values : arg' = [arg EXCEPT ![u] = v]
        /\ Goto(u, "save")
     \/ /\ \E op \in {"load", "delete", "exists"} : Goto(u, op)
        /\ UNCHANGED arg
  /\ reply' = [reply EXCEPT ![u] = None]
  /\ UNCHANGED <<names, content, locks, fd>>

\* Mutant: Save and Delete do not exclude each other.
Lock_NoExclusion(u, from, to) ==
  /\ step[u] = from
  /\ writer' = [writer EXCEPT ![RepoOf[u]] = u]
  /\ Goto(u, to)
  /\ UNCHANGED <<names, content, readers, arg, fd, reply>>

Lock(u, from, to) ==
  /\ step[u] = from
  /\ writer[RepoOf[u]] = None /\ readers[RepoOf[u]] = {}
  /\ writer' = [writer EXCEPT ![RepoOf[u]] = u]
  /\ Goto(u, to)
  /\ UNCHANGED <<names, content, readers, arg, fd, reply>>

RLock(u, from, to) ==
  /\ step[u] = from
  /\ writer[RepoOf[u]] = None
  /\ readers' = [readers EXCEPT ![RepoOf[u]] = @ \cup {u}]
  /\ Goto(u, to)
  /\ UNCHANGED <<names, content, writer, arg, fd, reply>>

\* Mutants: the descriptor stays open; RUnlock is forgotten.
Return_LeaksFd(u, r) ==
  /\ writer' = [writer EXCEPT ![RepoOf[u]] = IF @ = u THEN None ELSE @]
  /\ readers' = [readers EXCEPT ![RepoOf[u]] = @ \ {u}]
  /\ Goto(u, "idle")
  /\ arg' = [arg EXCEPT ![u] = None]
  /\ reply' = [reply EXCEPT ![u] = r]
  /\ UNCHANGED fd

Return_NoRUnlock(u, r) ==
  /\ writer' = [writer EXCEPT ![RepoOf[u]] = IF @ = u THEN None ELSE @]
  /\ Goto(u, "idle")
  /\ arg' = [arg EXCEPT ![u] = None]
  /\ fd' = [fd EXCEPT ![u] = None]
  /\ reply' = [reply EXCEPT ![u] = r]
  /\ UNCHANGED readers

\* The deferred unlock and the return; only the holder changes anything.  If
\* os.WriteFile has failed, it has closed its file.
Return(u, r) ==
  /\ writer' = [writer EXCEPT ![RepoOf[u]] = IF @ = u THEN None ELSE @]
  /\ readers' = [readers EXCEPT ![RepoOf[u]] = @ \ {u}]
  /\ Goto(u, "idle")
  /\ arg' = [arg EXCEPT ![u] = None]
  /\ fd' = [fd EXCEPT ![u] = None]
  /\ reply' = [reply EXCEPT ![u] = r]
-----------------------------------------------------------------------------
(* Save *)

\* os.WriteFile: open with O_CREATE | O_TRUNC ...
OpenTemp(u) ==
  /\ step[u] = "open"
  /\ \E i \in Inodes :
       /\ IF temp = None THEN Free(i) ELSE i = temp
       /\ temp' = i
       /\ content' = [content EXCEPT ![i] = Torn]
       /\ fd' = [fd EXCEPT ![u] = i]
  /\ Goto(u, "write")
  /\ UNCHANGED <<target, locks, arg, reply>>

\* ... write at offset 0 and close: over another writer's bytes the result is whole
\* only if it is not the shorter one.
WriteTemp(u) ==
  /\ step[u] = "write"
  /\ \E c \in {arg[u], Torn} :
       /\ c = Torn => content[fd[u]] # Torn
       /\ content' = [content EXCEPT ![fd[u]] = c]
  /\ fd' = [fd EXCEPT ![u] = None]
  /\ Goto(u, "rename")
  /\ UNCHANGED <<names, locks, arg, reply>>

\* ToJSON, the open or the write fails; the temporary file stays.
WriteFails(u) ==
  /\ IOFails
  /\ \/ step[u] = "open" /\ UNCHANGED content
     \/ step[u] = "write" /\ content' = [content EXCEPT ![fd[u]] = Torn]
  /\ Return(u, "error")
  /\ UNCHANGED names

Rename(u) ==
  /\ step[u] = "rename"
  /\ temp # None
  /\ target' = temp /\ temp' = None
  /\ Return(u, "ok")
  /\ UNCHANGED content

RenameFails(u) ==
  /\ step[u] = "rename"
  /\ temp = None \/ IOFails
  /\ Goto(u, "cleanup")
  /\ UNCHANGED <<names, content, locks, arg, fd, reply>>

\* Mutant: the cleanup removes the wrong file.
Cleanup_RemovesTarget(u) ==
  /\ step[u] = "cleanup"
  /\ target' = None
  /\ Return(u, "error")
  /\ UNCHANGED <<temp, content>>

\* os.Remove of whatever the temporary name refers to by now; should it fail,
\* nobody is told and the file stays.
Cleanup(u) ==
  /\ step[u] = "cleanup"
  /\ (temp' = None \/ (IOFails /\ UNCHANGED temp))
  /\ Return(u, "error")
  /\ UNCHANGED <<target, content>>

Save(u) ==
  \/ Lock(u, "save", "open")
  \/ OpenTemp(u) \/ WriteTemp(u) \/ WriteFails(u)
  \/ Rename(u) \/ RenameFails(u) \/ Cleanup(u)
-----------------------------------------------------------------------------
(* Load, Exists, Delete *)

StatMissing(u) ==
  /\ step[u] = "stat" /\ target = None
  /\ Return(u, None)            \* ErrSnapshotNotFound
  /\ UNCHANGED <<names, content>>

\* The file exists, or os.Stat fails in another way: only IsNotExist counts.
StatFound(u) ==
  /\ step[u] = "stat" /\ (target # None \/ IOFails)
  /\ Goto(u, "read")
  /\ UNCHANGED <<names, content, locks, arg, fd, reply>>

\* The target exists and FromJSON accepts what it holds.
Whole == target # None /\ content[target] # Torn

Read(u) ==
  /\ step[u] = "read"
  /\ Whole
  /\ Return(u, content[target])
  /\ UNCHANGED <<names, content>>

\* The file has gone, cannot be read, or FromJSON refuses it.
ReadFails(u) ==
  /\ step[u] = "read"
  /\ IOFails \/ ~Whole
  /\ Return(u, "error")
  /\ UNCHANGED <<names, content>>

Load(u) ==
  RLock(u, "load", "stat") \/ StatMissing(u) \/ StatFound(u) \/ Read(u) \/ ReadFails(u)

Look(u) ==
  /\ step[u] = "look"
  /\ Return(u, IF target = None THEN "no" ELSE "yes")
  /\ UNCHANGED <<names, content>>

\* os.Stat fails, and not because the file is missing.
LookFails(u) ==
  /\ step[u] = "look" /\ IOFails
  /\ Return(u, "error")
  /\ UNCHANGED <<names, content>>

Exists(u) == RLock(u, "exists", "look") \/ Look(u) \/ LookFails(u)

CheckMissing(u) ==
  /\ step[u] = "check" /\ target = None
  /\ Return(u, "ok")
  /\ UNCHANGED <<names, content>>

CheckFound(u) ==
  /\ step[u] = "check" /\ (target # None \/ IOFails)
  /\ Goto(u, "remove")
  /\ UNCHANGED <<names, content, locks, arg, fd, reply>>

Remove(u) ==
  /\ step[u] = "remove" /\ target # None
  /\ target' = None
  /\ Return(u, "ok")
  /\ UNCHANGED <<temp, content>>

RemoveFails(u) ==
  /\ step[u] = "remove" /\ (target = None \/ IOFails)
  /\ Return(u, "error")
  /\ UNCHANGED <<names, content>>

Delete(u) ==
  \/ Lock(u, "delete", "check")
  \/ CheckMissing(u) \/ CheckFound(u) \/ Remove(u) \/ RemoveFails(u)
-----------------------------------------------------------------------------
\* The process dies at any point; the files stay as they are.
Crash ==
  /\ writer' = [r \in Repos |-> None]
  /\ readers' = [r \in Repos |-> {}]
  /\ step' = [u \in Users |-> "idle"]
  /\ arg' = [u \in Users |-> None]
  /\ fd' = [u \in Users |-> None]
  /\ reply' = [u \in Users |-> None]
  /\ UNCHANGED <<names, content>>

Progress(u) == Save(u) \/ Load(u) \/ Exists(u) \/ Delete(u)

Next ==
  \/ \E u \in Users : Begin(u) \/ Progress(u)
  \/ Crash

Spec == Init /\ [][Next]_vars

(***************************************************************************)
(* Fairness: system calls return, and sync.RWMutex starves nobody.         *)
(***************************************************************************)
FairSpec == Spec /\ \A u \in Users : SF_vars(Progress(u))
-----------------------------------------------------------------------------
TypeOK ==
  /\ {target, temp} \subseteq Inodes \cup {None}
  /\ content \in [Inodes -> Values \cup {Torn}]
  /\ writer \in [Repos -> Users \cup {None}]
  /\ readers \in [Repos -> SUBSET Users]
  /\ step \in [Users -> Steps]
  /\ arg \in [Users -> Values \cup {None}]
  /\ fd \in [Users -> Inodes \cup {None}]
  /\ reply \in [Users -> Values \cup {None, "ok", "error", "yes", "no"}]
  /\ \A u \in Users : step[u] \in SaveSteps <=> arg[u] # None
  /\ \A u \in Users : step[u] = "write" <=> fd[u] # None

(***************************************************************************)
(* The target file is a whole snapshot whenever it exists, in the middle   *)
(* of a Save and after a crash at any point of it.  (README.md:108,        *)
(* file_repository.go:14-15.)                                              *)
(***************************************************************************)
TargetNeverTorn == target # None => content[target] # Torn

(***************************************************************************)
(* Every call comes to an end.                                             *)
(***************************************************************************)
CallsEnd == \A u \in Users : step[u] # "idle" ~> step[u] = "idle"

\* What the path holds, and what each user is waiting for.
Contents == IF target = None THEN None ELSE content[target]

Pending(u) ==
  CASE step[u] = "idle"       -> [op |-> "none"]
    [] step[u] \in SaveSteps   -> [op |-> "save", value |-> arg[u]]
    [] step[u] \in LoadSteps   -> [op |-> "load"]
    [] step[u] \in ExistsSteps -> [op |-> "exists"]
    [] step[u] \in DeleteSteps -> [op |-> "delete"]

Abstract == INSTANCE AtomicRepository WITH
  Nothing <- None, contents <- Contents, call <- [u \in Users |-> Pending(u)]

\* One repository object implements the atomic repository.
AtomicSpec == Abstract!Spec
=============================================================================
