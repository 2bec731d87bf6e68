--------------------------- MODULE MCPolicyDelivery ---------------------------
(***************************************************************************)
(* Small instances of PolicyDelivery: versions that an agent lacks the     *)
(* schema for, or rejects.                                                 *)
(***************************************************************************)
EXTENDS PolicyDelivery

None    == [a \in Agents |-> {}]
FirstQ  == [a \in Agents |-> {<<"q", 1>>}]
SecondP == [a \in Agents |-> {<<"p", 2>>}]

\* Bound: the second policy is published once.
SecondOnce == latest["q"].version <= 1

\* Bound: both policies are published for all agents and withdrawn, "p" first each time.
OnceAndWithdrawn ==
    /\ latest["q"].version <= latest["p"].version
    /\ \A p \in PolicyIds : /\ latest[p].version = 1 => latest[p].scope = Agents
                           /\ latest[p].version = 2 => ~ latest[p].active

=============================================================================
