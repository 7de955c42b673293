-------------------------- MODULE MCFileRepository --------------------------
(***************************************************************************)
(* Model values for FileRepository: users that share one repository        *)
(* object, and users that each made their own for the same path.           *)
(***************************************************************************)
EXTENDS FileRepository

CONSTANT Shared

\* Users of one object, and of one object each.
OneObject == [u \in Users |-> Shared]
ObjectEach == [u \in Users |-> u]

(***************************************************************************)
(* README.md:108: "State changes are written atomically to prevent         *)
(* corruption".                                                            *)
(***************************************************************************)
WritesAreAtomic == TargetNeverTorn
=============================================================================
