-------------------------- MODULE MCProviderSettings --------------------------
(***************************************************************************)
(* Small instances of ProviderSettings.  Administrators differ in nothing, *)
(* nor do clients, and no property is a liveness property.                 *)
(***************************************************************************)
EXTENDS ProviderSettings, TLC

Symmetry == Permutations(Admins) \cup Permutations(Clients)

\* Bound: what an administrator loads or types while a request is under way comes when the
\* answer is about to; no handler reads the draft.
TypedAtAnswer ==
    \A a \in Admins :
        draft'[a] # draft[a] /\ request' = request /\ ~Idle(a) => At(a, "answered")

=============================================================================
