------------------------ MODULE ConsoleSession_proofs -------------------------
(***************************************************************************)
(* Theorems about ConsoleSession, for any users and any bounds.  The       *)
(* invariant has two halves that the actions touch apart: what the shell   *)
(* holds, and what the requests in flight may answer.                      *)
(***************************************************************************)
EXTENDS ConsoleSession, TLAPS

ShellType ==
    /\ storage \in Draft
    /\ who \in Users \cup {Nobody} /\ closed \in BOOLEAN
    /\ work \subseteq Users /\ step \in Steps /\ frozen \in Int

\* For a known user the draft in storage is the one in memory; before that, memory holds
\* what a reload found, behind the login screen, and nothing where a profile save is still
\* to be answered.
Owned ==
    /\ who # Nobody => storage = [owner |-> who, authors |-> work, step |-> step]
    /\ who = Nobody => /\ closed /\ work = storage.authors
                       /\ saving = Nobody \/ work = {}

Shell == ShellType /\ Owned /\ DestinationsListed

RestType ==
    /\ version \in Nat /\ shown \in Nat /\ logins \in 0..MaxLogins
    /\ cookie \in Users \cup {Nobody}
    /\ loads \subseteq Request /\ poll \subseteq Request
    /\ \A r \in loads : r.status = "ok" => r.user \in Users
    /\ login \subseteq [user : Users, status : {"sent", "ok"}]
    /\ leaving \in {"none", "sent", "done"} /\ publishing \in {"none", "sent", "done"}
    /\ saving \in Users \cup {Nobody}
    /\ polling \in BOOLEAN

\* A load that carries no session was sent before a login that is not handled yet, or
\* there is still no session.
Unsigned ==
    /\ \A l, m \in login : l = m
    /\ \A r \in loads : /\ r.status = "refused" => r.user = Nobody
                        /\ r.user = Nobody => cookie = Nobody \/ \E l \in login : l.status = "ok"

Rest == RestType /\ Unsigned

IInv == Shell /\ Rest

-----------------------------------------------------------------------------
(* The shell                                                               *)

LEMMA RenderShell ==
    ASSUME NEW user \in Users \cup {Nobody}, NEW isClosed \in BOOLEAN,
           NEW edits \in SUBSET Users, NEW atStep \in Steps, NEW list \in Int, NEW data \in Nat,
           user = Nobody => isClosed /\ edits = {},
           Render(user, isClosed, edits, atStep, list, data)
    PROVE  Shell'
  <1>1. ShellType'
    BY DEF Render, ShellType, Draft, NoDraft, Steps, Snapshot, NoList
  <1>2. Owned'
    BY DEF Render, Owned, NoDraft
  <1>3. DestinationsListed'
    BY DEF Render, DestinationsListed, Snapshot, NoList
  <1> QED BY <1>1, <1>2, <1>3 DEF Shell

\* The console opens for a user.
LEMMA OpenShell ==
    ASSUME Shell, NEW user \in Users, NEW data \in Nat, OpenAs(user, data)
    PROVE  Shell'
  <1>1. CASE Isolated(user)
    <2>1. Render(user, FALSE, {}, "edit", NoList, data)
      BY <1>1 DEF OpenAs
    <2>2. "edit" \in Steps /\ NoList \in Int /\ {} \in SUBSET Users /\ FALSE \in BOOLEAN
      BY DEF Steps, NoList
    <2>3. user \in Users \cup {Nobody} /\ user # Nobody
      BY UserAssumption
    <2> QED BY <2>1, <2>2, <2>3, RenderShell
  <1>2. CASE ~Isolated(user)
    <2>1. Render(user, FALSE, work, step, frozen, data)
      BY <1>2 DEF OpenAs
    <2> QED BY <2>1, RenderShell, UserAssumption DEF Shell, ShellType
  <1> QED BY <1>1, <1>2

LEMMA CloseShell ==
    ASSUME shown \in Nat, RequireLogin
    PROVE  Shell'
  <1>1. Render(Nobody, TRUE, {}, "edit", NoList, shown)
    BY DEF RequireLogin
  <1>2. "edit" \in Steps /\ NoList \in Int /\ {} \in SUBSET Users /\ TRUE \in BOOLEAN
    BY DEF Steps, NoList
  <1>3. Nobody \in Users \cup {Nobody}
    OBVIOUS
  <1> QED BY <1>1, <1>2, <1>3, RenderShell

LEMMA PageShell ==
    ASSUME Shell, NEW jar, Page(jar)
    PROVE  Shell'
  BY DEF Shell, ShellType, Owned, DestinationsListed, Page, Draft, Steps, NoList

LEMMA SameShell ==
    ASSUME Shell, UNCHANGED shell, saving' \in {saving, Nobody} \/ ~closed
    PROVE  Shell'
  BY DEF Shell, ShellType, Owned, DestinationsListed, shell

\* An edit, a step or a discard by the user in front of an open console.
LEMMA EditShell ==
    ASSUME Shell, shown \in Nat, ~closed, NEW edits \in SUBSET (work \cup {who}),
           NEW atStep \in Steps, NEW list \in {NoList, frozen},
           Render(who, closed, edits, atStep, list, shown)
    PROVE  Shell'
  <1>1. who \in Users /\ edits \in SUBSET Users
    BY DEF Shell, ShellType, Owned
  <1>2. list \in Int
    BY DEF Shell, ShellType, NoList
  <1> QED BY <1>1, <1>2, RenderShell, UserAssumption DEF Shell, ShellType

LEMMA ShellStep ==
    ASSUME IInv, [Next]_vars
    PROVE  Shell'
  <1> USE DEF IInv
  <1>0. shown \in Nat
    BY DEF Rest, RestType
  <1>1. CASE UNCHANGED shell /\ saving' \in {saving, Nobody}
    BY <1>1, SameShell
  <1>2. ASSUME NEW r \in loads, ReceiveLoad(r) PROVE Shell'
    <2>1. CASE r.status = "ok" /\ OpenAs(r.user, r.version)
      <3>1. r.user \in Users /\ r.version \in Nat
        BY <2>1 DEF Rest, RestType, Request
      <3> QED BY <2>1, <3>1, OpenShell
    <2>2. CASE RequireLogin
      BY <1>0, <2>2, CloseShell
    <2> QED BY <1>2, <2>1, <2>2 DEF ReceiveLoad
  <1>3. ASSUME NEW r \in poll, ReceivePoll(r) PROVE Shell'
    BY <1>0, <1>3, CloseShell, SameShell DEF ReceivePoll
  <1>4. ASSUME NEW l \in login, ReceiveLogin(l) PROVE Shell'
    <2>1. l.user \in Users
      BY DEF Rest, RestType
    <2> QED BY <1>0, <1>4, <2>1, OpenShell DEF ReceiveLogin
  <1>5. ASSUME NEW u \in Users, SignOnElsewhere(u) PROVE Shell'
    BY <1>5, PageShell DEF SignOnElsewhere
  <1>6. CASE Reload
    BY <1>6, PageShell DEF Reload
  <1>7. CASE ReceiveLogout
    BY <1>0, <1>7, CloseShell DEF ReceiveLogout
  <1>8. CASE Type
    BY <1>0, <1>8, EditShell DEF Type, Shell, ShellType
  <1>9. CASE Discard
    BY <1>0, <1>9, EditShell DEF Discard, Steps
  <1>10. ASSUME NEW s \in Steps, SetStep(s) PROVE Shell'
    BY <1>0, <1>10, EditShell DEF SetStep
  <1>11. CASE RefreshInventory
    BY <1>0, <1>11 DEF RefreshInventory, Shell, ShellType, Owned, DestinationsListed, NoList
  <1>12. CASE ServerMoves \/ Expire \/ StartTimer \/ Refresh \/ Poll \/ Logout
              \/ ServeLogout \/ Publish \/ ServePublish \/ ReceivePublish
    BY <1>1, <1>12 DEF ServerMoves, Expire, StartTimer, Refresh, Poll, Logout,
       ServeLogout, Publish, ServePublish, ReceivePublish, requests
  <1>13. ASSUME NEW r \in loads, ServeLoad(r) \/ FailLoad(r) PROVE Shell'
    BY <1>1, <1>13 DEF ServeLoad, FailLoad
  <1>14. ASSUME NEW r \in poll, ServePoll(r) \/ FailPoll(r) PROVE Shell'
    BY <1>1, <1>14 DEF ServePoll, FailPoll
  <1>15. ASSUME NEW u \in Users, SubmitLogin(u) PROVE Shell'
    BY <1>1, <1>15 DEF SubmitLogin
  <1>16. ASSUME NEW l \in login, ServeLogin(l) \/ RefuseLogin(l) PROVE Shell'
    BY <1>1, <1>16 DEF ServeLogin, RefuseLogin
  <1>17. CASE UNCHANGED vars
    BY <1>1, <1>17 DEF vars, requests
  <1>18. CASE SaveProfile
    BY <1>18, SameShell DEF SaveProfile
  <1>19. CASE FailProfile
    BY <1>1, <1>19 DEF FailProfile
  <1>20. CASE ReceiveProfile
    <2>1. saving \in Users \cup {Nobody} /\ saving # Nobody
          /\ Render(saving, closed, work, step, frozen, shown)
      BY <1>20 DEF ReceiveProfile, Rest, RestType
    <2> QED BY <1>0, <2>1, RenderShell DEF Shell, ShellType
  <1> QED BY <1>2, <1>3, <1>4, <1>5, <1>6, <1>7, <1>8, <1>9, <1>10, <1>11, <1>12,
             <1>13, <1>14, <1>15, <1>16, <1>17, <1>18, <1>19, <1>20 DEF Next, Receive

-----------------------------------------------------------------------------
(* The requests                                                            *)

LEMMA NewRequestType ==
    ASSUME cookie \in Users \cup {Nobody}, NEW first \in BOOLEAN
    PROVE  /\ NewRequest(first) \in Request
           /\ NewRequest(first).user = cookie /\ NewRequest(first).status = "sent"
  BY DEF NewRequest, Request, Statuses

LEMMA PageRequestType ==
    ASSUME cookie \in Users \cup {Nobody}, NEW jar \in Users \cup {Nobody}
    PROVE  LET r == [NewRequest(TRUE) EXCEPT !.user = jar]
           IN  r \in Request /\ r.user = jar /\ r.status = "sent"
  BY DEF NewRequest, Request, Statuses

LEMMA AnsweredType ==
    ASSUME version \in Nat, NEW r \in Request
    PROVE  /\ Answered(r) \in Request
           /\ Answered(r).user = r.user
           /\ Answered(r).status = "ok" => r.user \in Users
           /\ Answered(r).status = "refused" => r.user = Nobody
  BY DEF Answered, Request, Statuses

\* A load begun now carries the session there is.
LEMMA BegunRest ==
    ASSUME Rest, BeginLoad, cookie' = cookie, login' = login \/ login' = {}
    PROVE  /\ loads' \subseteq Request
           /\ \A r \in loads' : r.status = "ok" => r.user \in Users
           /\ Unsigned'
  <1> DEFINE begun == NewRequest(FALSE)
  <1>1. begun \in Request /\ begun.user = cookie /\ begun.status = "sent"
    BY NewRequestType DEF Rest, RestType
  <1>2. loads' = {begun}
    BY DEF BeginLoad
  <1> HIDE DEF begun
  <1> QED BY <1>1, <1>2 DEF Rest, Unsigned

LEMMA RestStep ==
    ASSUME IInv, [Next]_vars
    PROVE  Rest'
  <1> USE DEF IInv
  <1>1. CASE ServerMoves
    BY <1>1 DEF ServerMoves, Rest, RestType, Unsigned, requests
  <1>2. CASE Expire
    BY <1>2 DEF Expire, Rest, RestType, Unsigned, server, Request
  <1>3. ASSUME NEW r \in loads, ServeLoad(r) PROVE Rest'
    <2>1. r \in Request /\ version \in Nat
      BY DEF Rest, RestType
    <2>2. RestType'
      BY <1>3, <2>1, AnsweredType DEF ServeLoad, Rest, RestType, server
    <2>3. Unsigned'
      BY <1>3, <2>1, AnsweredType DEF ServeLoad, Rest, Unsigned
    <2> QED BY <2>2, <2>3 DEF Rest
  <1>4. ASSUME NEW r \in loads, FailLoad(r) PROVE Rest'
    BY <1>4 DEF FailLoad, Rest, RestType, Unsigned, server, Request
  <1>5. ASSUME NEW r \in loads, ReceiveLoad(r) PROVE Rest'
    <2>1. shown' \in Nat /\ polling' \in BOOLEAN
      BY <1>5 DEF ReceiveLoad, Rest, RestType, Request
    <2> QED BY <1>5, <2>1 DEF ReceiveLoad, Rest, RestType, Unsigned, server
  <1>6. CASE StartTimer
    BY <1>6 DEF StartTimer, Rest, RestType, Unsigned, server
  <1>7. CASE Refresh
    BY <1>7, BegunRest DEF Refresh, Rest, RestType, server
  <1>8. CASE Poll
    BY <1>8, NewRequestType DEF Poll, Rest, RestType, Unsigned, server
  <1>9. ASSUME NEW r \in poll, ServePoll(r) PROVE Rest'
    <2>1. [Answered(r) EXCEPT !.user = Nobody] \in Request
      BY AnsweredType DEF Rest, RestType, Request
    <2> QED BY <1>9, <2>1 DEF ServePoll, Rest, RestType, Unsigned, server
  <1>10. ASSUME NEW r \in poll, FailPoll(r) PROVE Rest'
    BY <1>10 DEF FailPoll, Rest, RestType, Unsigned, server
  <1>11. ASSUME NEW r \in poll, ReceivePoll(r) PROVE Rest'
    <2>1. shown' \in Nat
      BY <1>11 DEF ReceivePoll, Rest, RestType, Request
    <2> QED BY <1>11, <2>1 DEF ReceivePoll, Rest, RestType, Unsigned, server
  <1>12. ASSUME NEW u \in Users, SubmitLogin(u) PROVE Rest'
    BY <1>12 DEF SubmitLogin, Rest, RestType, Unsigned, server
  <1>13. ASSUME NEW l \in login, ServeLogin(l) PROVE Rest'
    BY <1>13, BoundAssumption DEF ServeLogin, Issue, Rest, RestType, Unsigned
  <1>14. ASSUME NEW l \in login, RefuseLogin(l) PROVE Rest'
    BY <1>14 DEF RefuseLogin, Rest, RestType, Unsigned, server
  <1>15. ASSUME NEW l \in login, ReceiveLogin(l) PROVE Rest'
    BY <1>15, BegunRest DEF ReceiveLogin, Rest, RestType, server
  <1>16. ASSUME NEW u \in Users, SignOnElsewhere(u) PROVE Rest'
    <2> DEFINE begun == [NewRequest(TRUE) EXCEPT !.user = u]
    <2>1. begun \in Request /\ begun.user = u /\ begun.status = "sent"
      BY PageRequestType DEF Rest, RestType
    <2>2. loads' = {begun} /\ login' = {} /\ cookie' = u
      BY <1>16 DEF SignOnElsewhere, Page, Issue
    <2> HIDE DEF begun
    <2>3. Unsigned'
      BY <2>1, <2>2, UserAssumption DEF Unsigned
    <2>5. logins' \in 0..MaxLogins /\ version' \in Nat /\ shown' \in Nat
      BY <1>16, BoundAssumption DEF SignOnElsewhere, Page, Issue, Rest, RestType
    <2>4. RestType'
      BY <1>16, <2>1, <2>2, <2>5 DEF SignOnElsewhere, Page, RestType
    <2> QED BY <2>3, <2>4 DEF Rest
  <1>17. CASE Reload
    <2> DEFINE begun == [NewRequest(TRUE) EXCEPT !.user = cookie]
    <2>1. begun \in Request /\ begun.user = cookie /\ begun.status = "sent"
      BY PageRequestType DEF Rest, RestType
    <2>2. loads' = {begun} /\ login' = {} /\ cookie' = cookie
      BY <1>17 DEF Reload, Page
    <2> HIDE DEF begun
    <2>3. Unsigned'
      BY <2>1, <2>2 DEF Unsigned
    <2>4. RestType'
      BY <1>17, <2>1, <2>2 DEF Reload, Page, Rest, RestType, server
    <2> QED BY <2>3, <2>4 DEF Rest
  <1>18. CASE Logout
    <2>1. \A r \in poll : Superseded(r) \in Request
      BY NewRequestType DEF Superseded, Rest, RestType, Request
    <2> QED BY <1>18, <2>1 DEF Logout, Rest, RestType, Unsigned, server
  <1>19. CASE ServeLogout
    BY <1>19 DEF ServeLogout, Rest, RestType, Unsigned, server
  <1>20. CASE ReceiveLogout
    BY <1>20 DEF ReceiveLogout, Rest, RestType, Unsigned, server
  <1>21. CASE Type \/ Discard \/ RefreshInventory \/ \E s \in Steps : SetStep(s)
    BY <1>21 DEF Type, Discard, RefreshInventory, SetStep, Rest, RestType, Unsigned, server, requests
  <1>22. CASE Publish
    BY <1>22 DEF Publish, Rest, RestType, Unsigned, server
  <1>23. CASE ServePublish
    BY <1>23 DEF ServePublish, Rest, RestType, Unsigned
  <1>24. CASE ReceivePublish
    BY <1>24, BegunRest DEF ReceivePublish, Rest, RestType, server
  <1>25. CASE UNCHANGED vars
    BY <1>25 DEF vars, server, requests, Rest, RestType, Unsigned
  <1>26. CASE SaveProfile \/ FailProfile \/ ReceiveProfile
    BY <1>26 DEF SaveProfile, FailProfile, ReceiveProfile, Rest, RestType, Unsigned, server
  <1> QED BY <1>1, <1>2, <1>3, <1>4, <1>5, <1>6, <1>7, <1>8, <1>9, <1>10, <1>11, <1>12,
             <1>13, <1>14, <1>15, <1>16, <1>17, <1>18, <1>19, <1>20, <1>21, <1>22, <1>23,
             <1>24, <1>25, <1>26 DEF Next, Receive

-----------------------------------------------------------------------------
LEMMA InitInvariant == Init => IInv
  <1> SUFFICES ASSUME Init PROVE IInv
    OBVIOUS
  <1>1. Shell
    BY DEF Init, Shell, ShellType, Owned, DestinationsListed, NoDraft, Draft, Steps, NoList
  <1>2. Rest
    <2> DEFINE begun == NewRequest(TRUE)
    <2>1. begun \in Request /\ begun.user = cookie /\ begun.status = "sent"
      BY NewRequestType DEF Init
    <2>2. loads = {begun}
      BY DEF Init
    <2> HIDE DEF begun
    <2>5. logins \in 0..MaxLogins
      BY BoundAssumption DEF Init
    <2>3. RestType
      BY <2>1, <2>2, <2>5 DEF Init, RestType
    <2>4. Unsigned
      BY <2>1, <2>2 DEF Init, Unsigned
    <2> QED BY <2>3, <2>4 DEF Rest
  <1> QED BY <1>1, <1>2 DEF IInv

LEMMA Invariant == Spec => []IInv
  <1>1. IInv /\ [Next]_vars => IInv'
    BY ShellStep, RestStep DEF IInv
  <1> QED BY InitInvariant, <1>1, PTL DEF Spec

\* The shell keeps to its types whatever answers arrive, in whatever order.
THEOREM SessionTypeCorrect == Spec => []TypeOK
  <1>1. IInv => TypeOK
    BY DEF IInv, Shell, ShellType, Rest, RestType, TypeOK
  <1> QED BY Invariant, <1>1, PTL

-----------------------------------------------------------------------------
(* The draft                                                               *)

Kept == storage.authors \subseteq {storage.owner}

LEMMA ConfinedIsKept ==
    ASSUME Shell
    PROVE  Confined <=> Kept
  BY DEF Shell, ShellType, Owned, Confined, Kept

LEMMA RenderKept ==
    ASSUME NEW user, NEW isClosed, NEW edits, NEW atStep, NEW list, NEW data,
           edits \subseteq {user}, Render(user, isClosed, edits, atStep, list, data)
    PROVE  Kept'
  BY DEF Render, Kept, NoDraft

LEMMA RequireLoginKept ==
    ASSUME RequireLogin
    PROVE  Kept'
  BY DEF RequireLogin, Render, Kept, NoDraft

\* isolatePolicyDraft: a draft that stays is the user's own, or nobody's and then empty.
LEMMA OpenKept ==
    ASSUME Shell, Kept, NEW user \in Users, NEW data, OpenAs(user, data)
    PROVE  Kept'
  <1>1. CASE Isolated(user)
    BY <1>1 DEF OpenAs, Render, Kept, NoDraft
  <1>2. CASE ~Isolated(user)
    <2>1. work = storage.authors
      BY DEF Shell, Owned
    <2>2. work \subseteq {user}
      BY <1>2, <2>1, UserAssumption DEF Kept, Isolated, Shell, ShellType
    <2> QED BY <1>2, <2>2, RenderKept DEF OpenAs
  <1> QED BY <1>1, <1>2

LEMMA KeptStep ==
    ASSUME IInv, Kept, [Next]_vars, ~(ReceiveProfile /\ who \notin {Nobody, saving})
    PROVE  Kept'
  <1>0. Shell /\ Rest
    BY DEF IInv
  <1>1. CASE UNCHANGED storage
    BY <1>1 DEF Kept
  <1>2. ASSUME NEW r \in loads, ReceiveLoad(r) PROVE Kept'
    <2>1. CASE r.status = "ok" /\ OpenAs(r.user, r.version)
      <3>1. r.user \in Users
        BY <1>0, <2>1 DEF Rest, RestType
      <3> QED BY <1>0, <2>1, <3>1, OpenKept
    <2>2. CASE RequireLogin
      BY <2>2, RequireLoginKept
    <2> QED BY <1>2, <2>1, <2>2 DEF ReceiveLoad
  <1>3. ASSUME NEW r \in poll, ReceivePoll(r) PROVE Kept'
    BY <1>1, <1>3, RequireLoginKept DEF ReceivePoll, shell
  <1>4. ASSUME NEW l \in login, ReceiveLogin(l) PROVE Kept'
    <2>1. l.user \in Users
      BY <1>0 DEF Rest, RestType
    <2> QED BY <1>0, <1>4, <2>1, OpenKept DEF ReceiveLogin
  <1>5. CASE ReceiveLogout
    BY <1>5, RequireLoginKept DEF ReceiveLogout
  <1>6. ASSUME ~closed PROVE who \in Users /\ work \subseteq {who}
    BY <1>0, <1>6 DEF Shell, ShellType, Owned, Kept
  <1>7. CASE Type \/ Discard \/ \E s \in Steps : SetStep(s)
    <2>1. PICK edits \in SUBSET {who}, atStep \in Steps, list \in {NoList, frozen} :
              Render(who, closed, edits, atStep, list, shown)
      BY <1>0, <1>6, <1>7 DEF Type, Discard, SetStep, Shell, ShellType, Steps
    <2> QED BY <2>1, RenderKept
  <1>8. CASE ReceiveProfile
    <2>1. Render(saving, closed, work, step, frozen, shown) /\ who \in {Nobody, saving}
          /\ saving # Nobody
      BY <1>8 DEF ReceiveProfile
    <2>2. work \subseteq {saving}
      BY <1>0, <2>1 DEF Shell, Owned, Kept
    <2> QED BY <2>1, <2>2, RenderKept
  <1>9. CASE \/ ServerMoves \/ Expire \/ StartTimer \/ Refresh \/ Poll \/ Logout
             \/ ServeLogout \/ Publish \/ ServePublish \/ ReceivePublish
             \/ SaveProfile \/ FailProfile \/ RefreshInventory
    BY <1>1, <1>9 DEF ServerMoves, Expire, StartTimer, Refresh, Poll, Logout, ServeLogout,
       Publish, ServePublish, ReceivePublish, SaveProfile, FailProfile, RefreshInventory, shell
  <1>10. ASSUME NEW r \in loads, ServeLoad(r) \/ FailLoad(r) PROVE Kept'
    BY <1>1, <1>10 DEF ServeLoad, FailLoad, shell
  <1>11. ASSUME NEW r \in poll, ServePoll(r) \/ FailPoll(r) PROVE Kept'
    BY <1>1, <1>11 DEF ServePoll, FailPoll, shell
  <1>12. ASSUME NEW u \in Users, SubmitLogin(u) \/ SignOnElsewhere(u) PROVE Kept'
    BY <1>1, <1>12 DEF SubmitLogin, SignOnElsewhere, Page, shell
  <1>13. ASSUME NEW l \in login, ServeLogin(l) \/ RefuseLogin(l) PROVE Kept'
    BY <1>1, <1>13 DEF ServeLogin, RefuseLogin, shell
  <1>14. CASE Reload \/ UNCHANGED vars
    BY <1>1, <1>14 DEF Reload, Page, vars, shell
  <1> QED BY <1>2, <1>3, <1>4, <1>5, <1>7, <1>8, <1>9, <1>10, <1>11, <1>12, <1>13, <1>14
          DEF Next, Receive

\* isolatePolicyDraft keeps drafts apart: for any number of users, logins, reloads and
\* late answers, an open console comes to hold no edit of another user than the one it
\* shows, but by a profile answered under another login (onIdentityUpdated).
THEOREM SessionDraftConfined == Spec => DraftConfined
  <1> DEFINE Keeps == Confined => Confined' \/ (ReceiveProfile /\ who \notin {Nobody, saving})
  <1>1. IInv /\ IInv' /\ [Next]_vars => [Keeps]_vars
    <2> SUFFICES ASSUME IInv, IInv', [Next]_vars, Confined,
                        ~(ReceiveProfile /\ who \notin {Nobody, saving})
                 PROVE  Confined'
      OBVIOUS
    <2>1. Kept
      BY ConfinedIsKept DEF IInv
    <2>2. Kept'
      BY <2>1, KeptStep
    <2> QED BY <2>2 DEF IInv, Shell, ShellType, Owned, Confined, Kept
  <1>2. Spec => [][Keeps]_vars
    BY Invariant, <1>1, PTL DEF Spec
  <1> QED BY <1>2 DEF DraftConfined

-----------------------------------------------------------------------------
\* The destinations are never under review without a list taken.
THEOREM SessionDestinationsListed == Spec => []DestinationsListed
  <1>1. IInv => DestinationsListed
    BY DEF IInv, Shell
  <1> QED BY Invariant, <1>1, PTL

\* The gate of the full loads does what it is for: a refusal that closes the console is
\* never that of a load begun before the login that opened it.
THEOREM SessionLoadKeepsLogin == Spec => LoadNeverUndoesLogin
  <1> DEFINE Keeps == (\E r \in loads : ReceiveLoad(r)) /\ ~closed /\ closed'
                        => cookie = Nobody \/ \E l \in login : l.status = "ok"
  <1>1. IInv /\ [Next]_vars => [Keeps]_vars
    <2> SUFFICES ASSUME IInv, NEW r \in loads, ReceiveLoad(r), ~closed, closed'
                 PROVE  cookie = Nobody \/ \E l \in login : l.status = "ok"
      OBVIOUS
    <2>1. r.status = "refused"
      BY DEF ReceiveLoad, OpenAs, Render
    <2> QED BY <2>1 DEF IInv, Rest, Unsigned
  <1>2. Spec => [][Keeps]_vars
    BY Invariant, <1>1, PTL DEF Spec
  <1> QED BY <1>2 DEF LoadNeverUndoesLogin

\* A render that passes the list on leaves it alone, or closes, or leaves the destinations.
LEMMA RenderKeepsList ==
    ASSUME DestinationsListed, ~closed, step = "destinations", ~closed', step' = "destinations",
           NEW user, NEW isClosed \in BOOLEAN, NEW edits, NEW atStep, NEW data,
           Render(user, isClosed, edits, atStep, frozen, data)
    PROVE  frozen' = frozen
  BY DEF Render, Snapshot, DestinationsListed

LEMMA OpenKeepsList ==
    ASSUME DestinationsListed, ~closed, step = "destinations", ~closed', step' = "destinations",
           NEW user, NEW data, OpenAs(user, data)
    PROVE  frozen' = frozen
  <1>1. CASE Isolated(user)
    BY <1>1 DEF OpenAs, Render
  <1>2. CASE ~Isolated(user)
    BY <1>2, RenderKeepsList DEF OpenAs
  <1> QED BY <1>1, <1>2

\* The list of destinations under review is the administrator's: no load, poll, login or
\* reload, however late its answer, takes it again; only the button does, or leaving the
\* destinations (destinationAgentSnapshot).
THEOREM SessionListStable == Spec => FrozenListStable
  <1> DEFINE Stays == ~closed /\ ~closed' /\ step = "destinations" /\ step' = "destinations"
                         /\ who' = who => frozen' = frozen \/ RefreshInventory
  <1>1. IInv /\ [Next]_vars => [Stays]_vars
    <2> SUFFICES ASSUME IInv, Next, ~closed, ~closed', step = "destinations",
                        step' = "destinations", ~RefreshInventory
                 PROVE  frozen' = frozen
      OBVIOUS
    <2>0. DestinationsListed
      BY DEF IInv, Shell
    <2>1. CASE UNCHANGED shell
      BY <2>1 DEF shell
    <2>2. ASSUME NEW r \in loads, ReceiveLoad(r) PROVE frozen' = frozen
      BY <2>0, <2>2, OpenKeepsList DEF ReceiveLoad, RequireLogin, Render
    <2>3. ASSUME NEW r \in poll, ReceivePoll(r) PROVE frozen' = frozen
      BY <2>1, <2>3 DEF ReceivePoll, RequireLogin, Render
    <2>4. ASSUME NEW l \in login, ReceiveLogin(l) PROVE frozen' = frozen
      BY <2>0, <2>4, OpenKeepsList DEF ReceiveLogin
    <2>5. CASE Reload \/ ReceiveLogout \/ \E u \in Users : SignOnElsewhere(u)
      BY <2>5 DEF Reload, ReceiveLogout, SignOnElsewhere, Page, RequireLogin, Render
    <2>6. CASE Discard
      BY <2>6 DEF Discard, Render
    <2>7. CASE Type \/ \E s \in Steps : SetStep(s)
      <3>1. closed \in BOOLEAN
        BY DEF IInv, Shell, ShellType
      <3> QED BY <2>0, <2>7, <3>1, RenderKeepsList DEF Type, SetStep
    <2>8. CASE \/ ServerMoves \/ Expire \/ StartTimer \/ Refresh \/ Poll \/ Logout
               \/ ServeLogout \/ Publish \/ ServePublish \/ ReceivePublish
               \/ SaveProfile \/ FailProfile
      BY <2>1, <2>8 DEF ServerMoves, Expire, StartTimer, Refresh, Poll, Logout,
         ServeLogout, Publish, ServePublish, ReceivePublish, SaveProfile, FailProfile
    <2>9. ASSUME NEW r \in loads, ServeLoad(r) \/ FailLoad(r) PROVE frozen' = frozen
      BY <2>1, <2>9 DEF ServeLoad, FailLoad
    <2>10. ASSUME NEW r \in poll, ServePoll(r) \/ FailPoll(r) PROVE frozen' = frozen
      BY <2>1, <2>10 DEF ServePoll, FailPoll
    <2>11. ASSUME NEW u \in Users, SubmitLogin(u) PROVE frozen' = frozen
      BY <2>1, <2>11 DEF SubmitLogin
    <2>12. ASSUME NEW l \in login, ServeLogin(l) \/ RefuseLogin(l) PROVE frozen' = frozen
      BY <2>1, <2>12 DEF ServeLogin, RefuseLogin
    <2>13. CASE ReceiveProfile
      <3>1. closed \in BOOLEAN
        BY DEF IInv, Shell, ShellType
      <3> QED BY <2>0, <2>13, <3>1, RenderKeepsList DEF ReceiveProfile
    <2> QED BY <2>2, <2>3, <2>4, <2>5, <2>6, <2>7, <2>8, <2>9, <2>10, <2>11, <2>12, <2>13
            DEF Next, Receive
  <1>2. Spec => [][Stays]_vars
    BY Invariant, <1>1, PTL DEF Spec
  <1> QED BY <1>2 DEF FrozenListStable

=============================================================================
