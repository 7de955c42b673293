-------------------------- MODULE AtomicRepository --------------------------
(***************************************************************************)
(* What SnapshotRepository (repository.go) promises its concurrent users:  *)
(* every call takes effect as a whole, at one moment between its start and *)
(* its return, or fails without effect; and a crash loses at most the      *)
(* calls in progress.                                                      *)
(*                                                                         *)
(* It is also how InMemorySnapshotRepository works, every method of which  *)
(* is one critical section, from one crash to the next: its contents end   *)
(* with the process.                                                       *)
(***************************************************************************)
CONSTANTS Users, Values, Nothing

VARIABLES
  contents,   \* the stored snapshot, or Nothing
  call,       \* what each user is waiting for
  reply       \* what each user's last call answered, until its next one

vars == <<contents, call, reply>>

NoCall == [op |-> "none"]
Calls == [op : {"save"}, value : Values] \cup [op : {"load", "exists", "delete"}]

Init ==
  /\ contents = Nothing
  /\ call = [u \in Users |-> NoCall]
  /\ reply = [u \in Users |-> Nothing]

Start(u) ==
  /\ call[u] = NoCall
  /\ \E c \in Calls : call' = [call EXCEPT ![u] = c]
  /\ reply' = [reply EXCEPT ![u] = Nothing]
  /\ UNCHANGED contents

Answer(u, r) ==
  /\ call' = [call EXCEPT ![u] = NoCall]
  /\ reply' = [reply EXCEPT ![u] = r]

Save(u) ==
  /\ call[u].op = "save"
  /\ contents' = call[u].value
  /\ Answer(u, "ok")

Delete(u) ==
  /\ call[u].op = "delete"
  /\ contents' = Nothing
  /\ Answer(u, "ok")

Load(u) ==
  /\ call[u].op = "load"
  /\ Answer(u, contents)
  /\ UNCHANGED contents

Exists(u) ==
  /\ call[u].op = "exists"
  /\ Answer(u, IF contents = Nothing THEN "no" ELSE "yes")
  /\ UNCHANGED contents

Fail(u) ==
  /\ call[u] # NoCall
  /\ Answer(u, "error")
  /\ UNCHANGED contents

Crash ==
  /\ call' = [u \in Users |-> NoCall]
  /\ reply' = [u \in Users |-> Nothing]
  /\ UNCHANGED contents

Next ==
  \/ \E u \in Users :
       Start(u) \/ Save(u) \/ Delete(u) \/ Load(u) \/ Exists(u) \/ Fail(u)
  \/ Crash

Spec == Init /\ [][Next]_vars
=============================================================================
