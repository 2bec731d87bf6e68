--------------------------- MODULE PolicyLifecycle ---------------------------
(***************************************************************************)
(* What the lifecycle of a Java policy promises, as if every operation     *)
(* were one atomic step on one revision number per policy.                 *)
(*                                                                         *)
(* A policy has the revisions that were published for it and at most one   *)
(* of them is in service.  Publishing puts a new, higher one in service.   *)
(* Rolling back replaces the revision in service by the one published      *)
(* before it, or withdraws the policy when it was the first.  The          *)
(* revision rolled back from is the one in service at that moment: no      *)
(* rollback acts on a revision somebody else has replaced meanwhile.       *)
(***************************************************************************)
EXTENDS Naturals

CONSTANT Ids

VARIABLES
    published,  \* id -> revisions published so far
    inService   \* id -> the revision in service, 0 for none

vars == <<published, inService>>

Init ==
    /\ published = [id \in Ids |-> {}]
    /\ inService = [id \in Ids |-> 0]

\* The new revision is any number above those published before.
Publish(id) ==
    /\ inService'[id] \in Nat \ {0}
    /\ \A r \in published[id] : r < inService'[id]
    /\ published' = [published EXCEPT ![id] = @ \cup {inService'[id]}]
    /\ inService' = [inService EXCEPT ![id] = inService'[id]]

Earlier(id) == {r \in published[id] : r < inService[id]}

Rollback(id) ==
    /\ inService[id] # 0
    /\ \E r \in Earlier(id) :
          /\ \A s \in Earlier(id) : s <= r
          /\ inService' = [inService EXCEPT ![id] = r]
    /\ UNCHANGED published

\* Explicitly, by rolling back the first revision, or because the id was taken
\* over by a configuration of another kind.
Withdraw(id) ==
    /\ inService[id] # 0
    /\ inService' = [inService EXCEPT ![id] = 0]
    /\ UNCHANGED published

Next == \E id \in Ids : Publish(id) \/ Rollback(id) \/ Withdraw(id)

Spec == Init /\ [][Next]_vars

=============================================================================
