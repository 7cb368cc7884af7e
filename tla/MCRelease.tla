----------------------------- MODULE MCRelease -----------------------------
(* A small instance of Release: two commits with the same version. *)
EXTENDS Release, TLC

CONSTANTS c1, c2, v1, j1, j2

SameVersion == [c \in Commit |-> v1]

\* c2 changed the policy; a working tree may have any.
TwoPolicies == [t \in Tree |-> IF t = c2 THEN 2 ELSE 1]

\* Only tag jobs meet at a release page; a job of another kind runs by itself.
TagJobsMeet ==
  \A i, j \in Job : (i # j /\ ~ At(i, "idle") /\ ~ At(j, "idle")) => job[j].ref # None

SmallSpec == ReleaseInit /\ [][ReleaseNext /\ TagJobsMeet']_releaseVars

JobSymmetry == Permutations(Job)

=============================================================================
