----------------------------- MODULE MCPolicyForm -----------------------------
(***************************************************************************)
(* Small instances of PolicyForm: what is stored and what a user types.    *)
(***************************************************************************)
EXTENDS PolicyForm, FiniteSets, TLC

FirstHttp == <<"a", "b">>
FirstMsg  == <<"b">>

NoHttp == [s \in HttpSlots |-> Absent]

\* A version published when 1.3 was current.
Old == [EmptyPolicy EXCEPT !.schema = 3,
            !.http = [s \in HttpSlots |-> [name |-> "a", source |-> "plain",
                                         passthrough |-> FALSE, emits |-> TRUE]]]

\* A metric whose rule was deleted from the text, and a version the features exceed.
Broken == [EmptyPolicy EXCEPT !.schema = 4,
            !.httpMetrics = [m \in HttpMetricSlots |-> [rule |-> "b", standard |-> TRUE]]]

\* One from before rules for HTTP exchanges.
Older == [EmptyPolicy EXCEPT !.schema = 2, !.methods = [w \in MethodSlots |-> "controlled"]]

OldStored   == {Old, Older}
BrokenTyped == {Broken}
Nothing     == {}
NewAgent    == [a \in Agents |-> 6]

\* Bound: what was typed is published or replaced, not edited further in the form.
TypedAsIs == typed => doc \in Typed \cup {Unparsable}

\* Bound: a method or a metric over all exchanges, which the rest of the document does not
\* refer to, stands next to one HTTP rule at most, and not next to each other.
OneBesideMethods ==
    \/ doc = Unparsable
    \/ Used(doc.methods) = {} /\ Used(doc.globals) = {}
    \/ /\ Used(doc.methods) = {} \/ Used(doc.globals) = {}
       /\ Cardinality(Used(doc.http)) <= 1

SlotSymmetry == Permutations(HttpSlots)
=============================================================================
