--------------------------- MODULE MCLocalAccounts ---------------------------
(***************************************************************************)
(* A small instance of LocalAccounts.  Emails differ in nothing, nor do    *)
(* passwords, links, requests or browsers, and no property is a liveness   *)
(* property.                                                               *)
(***************************************************************************)
EXTENDS LocalAccounts, TLC

Symmetry ==
    Permutations(Users) \cup Permutations(Emails) \cup Permutations(Passwords)
    \cup Permutations(Links) \cup Permutations(Requests) \cup Permutations(Browsers)

\* Bound: one administrator has an editor open at a time.
OneEditor == Cardinality({a \in Admins : drafts[a] # None}) <= 1

\* Bound: nor is one open next to a profile page.
EditorOrPage ==
    (\E a \in Admins : drafts[a] # None) => \A b \in Browsers : pages[b] = None

\* Bound: of two requests in flight, those of one kind are mails, resets, or saves that
\* keep the email.
Overlap ==
    \A r, q \in Requests :
        r # q /\ requests[r] # None /\ requests[q] # None =>
            \/ requests[r].kind # requests[q].kind
            \/ requests[r].kind \in {"mail", "reset"}
            \/ requests[r].kind = "save"
                /\ requests[r].email = accounts[requests[r].user].email

=============================================================================
