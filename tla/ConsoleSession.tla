---------------------------- MODULE ConsoleSession ----------------------------
(***************************************************************************)
(* The shell of the console in one browser tab: who is logged in, the      *)
(* draft it keeps for that user across reloads, the data it shows, and the *)
(* answers that arrive late.                                               *)
(*                                                                         *)
(* A full load reads everything, tells the identity and opens the console; *)
(* only the newest one counts.  A poll, one at a time, reads the live part *)
(* and can close the console but never open it.  Login and logout are      *)
(* requests of their own: each changes the cookie when the server answers  *)
(* and the shell when the answer arrives.  The answer to a saved profile   *)
(* names the user it was saved for, and replaces the identity ungated.     *)
(*                                                                         *)
(* The parallel requests of a load are one, answered at one instant.  The  *)
(* data is a version that any change on the server moves.  Of the draft    *)
(* the model keeps whose work it holds and whether the editor stands at    *)
(* the destinations (steps 3 and 4) or before them.                        *)
(***************************************************************************)
EXTENDS Integers, FiniteSets

CONSTANTS
    Users, Nobody,
    MaxLogins,      \* bound on the sessions ever opened
    MaxVersion      \* bound on the changes on the server

ASSUME UserAssumption  == Nobody \notin Users
ASSUME BoundAssumption == MaxLogins \in Nat /\ MaxVersion \in Nat

NoList    == -1                \* destinationAgentSnapshot is null
Steps     == {"edit", "destinations"}
Statuses  == {"sent", "ok", "refused"}
Request   == [user : Users \cup {Nobody}, status : Statuses, version : Nat,
              current : BOOLEAN, first : BOOLEAN]
Draft     == [owner : Users \cup {Nobody}, authors : SUBSET Users, step : Steps]
NoDraft   == [owner |-> Nobody, authors |-> {}, step |-> "edit"]

VARIABLES
    version,      \* of the server's data
    logins,       \* sessions opened
    cookie,       \* whose session the cookie carries; Nobody if none the server accepts
    storage,      \* the draft in localStorage
    who,          \* authIdentity
    closed,       \* loginRequired
    work,         \* whose edits the draft in memory holds
    step,         \* activeStep
    shown,        \* version of the data in memory; 0 before any
    frozen,       \* version of the destinations under review
    polling,      \* the first load has returned, so the timer runs
    loads, poll,  \* full loads in flight; the poll in flight, if any
    login,        \* login in flight: a set of at most one [user, status]
    leaving,      \* logout in flight: "none", "sent" or "done"
    publishing,   \* publication in flight: "none", "sent" or "done"
    saving        \* profile save in flight: the user whose session it carries

server   == <<version, logins>>
shell    == <<storage, who, closed, work, step, frozen>>
requests == <<loads, poll, login, leaving, publishing, saving, polling>>
vars     == <<server, cookie, shell, shown, requests>>

-----------------------------------------------------------------------------
(* Requests                                                                *)

NewRequest(first) ==
    [user |-> cookie, status |-> "sent", version |-> 0, current |-> TRUE, first |-> first]

\* A poll whose answer, whatever it is, will be dropped.
Superseded(r) == [NewRequest(FALSE) EXCEPT !.user = Nobody, !.current = FALSE]

\* Variant: an endpoint answers anyone.
AnsweredAnyone(r) == [r EXCEPT !.status = "ok", !.version = version]

\* The API accepts a valid session only; every role may read what the console loads.
Answered(r) ==
    IF r.user # Nobody
    THEN [r EXCEPT !.status = "ok", !.version = version]
    ELSE [r EXCEPT !.status = "refused"]

\* Variant: a new load leaves the earlier ones current.
BeginLoadUngated == loads' = loads \cup {NewRequest(FALSE)}

\* loadGate.begin: the answers of the loads in flight will change nothing, so they go.
BeginLoad == loads' = {NewRequest(FALSE)}

-----------------------------------------------------------------------------
(* What the shell does with an identity                                    *)

\* Variant: the list is taken again whenever the data changes.
SnapshotFollowing(isClosed, atStep, list, data) ==
    IF isClosed THEN list
    ELSE IF atStep = "destinations" THEN data ELSE NoList

\* Variant: the effect does not depend on the login, so opening does not run it.
SnapshotOnStep(isClosed, atStep, list, data) ==
    IF isClosed \/ atStep = step THEN list
    ELSE IF atStep = "destinations" THEN data ELSE NoList

\* The list of destinations is taken once, on reaching them with the console open.  The
\* effect runs only when step, login or target change; in between it would change nothing.
Snapshot(isClosed, atStep, list, data) ==
    IF isClosed \/ (atStep = "destinations" /\ list # NoList) THEN list
    ELSE IF atStep = "destinations" THEN data ELSE NoList

\* One render: the state set by a handler, then the effects on it, which take the list
\* and, for a known user, write the draft.
Render(user, isClosed, edits, atStep, list, data) ==
    /\ who' = user
    /\ closed' = isClosed
    /\ work' = edits
    /\ step' = atStep
    /\ frozen' = Snapshot(isClosed, atStep, list, data)
    /\ storage' = IF user = Nobody THEN NoDraft
                  ELSE [owner |-> user, authors |-> edits, step |-> atStep]

\* Variant: the draft found is kept whoever left it.
IsolatedUnowned(user) == FALSE

\* isolatePolicyDraft: someone else's draft is dropped.
Isolated(user) == storage.owner \notin {Nobody, user}

OpenAs(user, data) ==
    IF Isolated(user)
    THEN Render(user, FALSE, {}, "edit", NoList, data)
    ELSE Render(user, FALSE, work, step, frozen, data)

RequireLogin == Render(Nobody, TRUE, {}, "edit", NoList, shown)

\* What a fresh page starts from: the draft in storage, and the first load.
Page(jar) ==
    /\ who' = Nobody
    /\ closed' = TRUE
    /\ work' = storage.authors
    /\ step' = storage.step
    /\ frozen' = NoList
    /\ shown' = 0
    /\ loads' = {[NewRequest(TRUE) EXCEPT !.user = jar]}
    /\ poll' = {}
    /\ login' = {}
    /\ leaving' = "none"
    /\ publishing' = "none"
    /\ saving' = Nobody
    /\ polling' = FALSE
    /\ UNCHANGED storage

Init ==
    /\ version = 1
    /\ logins = 0
    /\ cookie = Nobody
    /\ storage = NoDraft
    /\ who = Nobody
    /\ closed = TRUE
    /\ work = {}
    /\ step = "edit"
    /\ shown = 0
    /\ frozen = NoList
    /\ polling = FALSE
    /\ loads = {NewRequest(TRUE)}
    /\ poll = {}
    /\ login = {}
    /\ leaving = "none"
    /\ publishing = "none"
    /\ saving = Nobody

-----------------------------------------------------------------------------
(* The server                                                              *)

\* Another administrator publishes, an agent reports.
ServerMoves ==
    /\ version < MaxVersion
    /\ version' = version + 1
    /\ UNCHANGED <<logins, cookie, shell, shown, requests>>

\* The sessions of the user in the cookie end: their time is over, or the user was changed.
\* What carries one is refused from here on, as if it carried none.
Expire ==
    LET ended(r) == IF r.status = "sent" /\ r.user = cookie THEN [r EXCEPT !.user = Nobody] ELSE r
    IN  /\ cookie # Nobody
        /\ cookie' = Nobody
        /\ loads' = {ended(r) : r \in loads}
        /\ poll' = {ended(r) : r \in poll}
        /\ UNCHANGED <<server, shell, shown, login, leaving, publishing, saving, polling>>

Issue(user) ==
    /\ logins < MaxLogins
    /\ logins' = logins + 1
    /\ cookie' = user
    /\ UNCHANGED version

-----------------------------------------------------------------------------
(* Full loads                                                              *)

ServeLoad(r) ==
    /\ r.status = "sent"
    /\ loads' = (loads \ {r}) \cup {Answered(r)}
    /\ UNCHANGED <<server, cookie, shell, shown, poll, login, leaving, publishing, saving, polling>>

ReceiveLoad(r) ==
    /\ loads' = loads \ {r}
    /\ polling' = (polling \/ r.first)
    /\ \/ r.status = "ok" /\ OpenAs(r.user, r.version) /\ shown' = r.version
       \/ r.status = "refused" /\ RequireLogin /\ UNCHANGED shown
    /\ UNCHANGED <<server, cookie, poll, login, leaving, publishing, saving>>

\* A load that fails is only reported.
FailLoad(r) ==
    /\ r.status = "sent"
    /\ loads' = loads \ {r}
    /\ polling' = (polling \/ r.first)
    /\ UNCHANGED <<server, cookie, shell, shown, poll, login, leaving, publishing, saving>>

\* start: the first load also returns when it was superseded.
StartTimer ==
    /\ ~polling
    /\ \A r \in loads : ~r.first
    /\ polling' = TRUE
    /\ UNCHANGED <<server, cookie, shell, shown, loads, poll, login, leaving, publishing, saving>>

\* The refresh buttons of the views.
Refresh ==
    /\ ~closed
    /\ loads = {}
    /\ BeginLoad
    /\ UNCHANGED <<server, cookie, shell, shown, poll, login, leaving, publishing, saving, polling>>

-----------------------------------------------------------------------------
(* The poll, every four seconds and on focus, on the login screen too      *)

Poll ==
    /\ polling
    /\ poll = {}
    /\ poll' = {NewRequest(FALSE)}
    /\ UNCHANGED <<server, cookie, shell, shown, loads, login, leaving, publishing, saving, polling>>

\* The live part does not tell who is logged in.
ServePoll(r) ==
    /\ r.status = "sent"
    /\ poll' = {[Answered(r) EXCEPT !.user = Nobody]}
    /\ UNCHANGED <<server, cookie, shell, shown, loads, login, leaving, publishing, saving, polling>>

\* A failed poll leaves the last good state.
FailPoll(r) ==
    /\ r.status = "sent"
    /\ poll' = {}
    /\ UNCHANGED <<server, cookie, shell, shown, loads, login, leaving, publishing, saving, polling>>

\* Variant: a refused poll keeps the last good state, like a failed one.
ReceivePollDeaf(r) ==
    /\ r.status # "sent"
    /\ poll' = {}
    /\ shown' = IF r.current /\ r.status = "ok" THEN r.version ELSE shown
    /\ UNCHANGED <<server, cookie, shell, loads, login, leaving, publishing, saving, polling>>

\* Variant: an answer the gate drops leaves refreshInProgress set.
ReceivePollStuck(r) ==
    /\ r.status # "sent"
    /\ poll' = IF r.current THEN {} ELSE poll
    /\ shown' = IF r.current /\ r.status = "ok" THEN r.version ELSE shown
    /\ IF r.current /\ r.status = "refused" THEN RequireLogin ELSE UNCHANGED shell
    /\ UNCHANGED <<server, cookie, loads, login, leaving, publishing, saving, polling>>

ReceivePoll(r) ==
    /\ r.status # "sent"
    /\ poll' = {}
    /\ shown' = IF r.current /\ r.status = "ok" THEN r.version ELSE shown
    /\ IF r.current /\ r.status = "refused" THEN RequireLogin ELSE UNCHANGED shell
    /\ UNCHANGED <<server, cookie, loads, login, leaving, publishing, saving, polling>>

-----------------------------------------------------------------------------
(* Login and logout                                                        *)

SubmitLogin(user) ==
    /\ closed
    /\ login = {}
    /\ logins < MaxLogins
    /\ login' = {[user |-> user, status |-> "sent"]}
    /\ UNCHANGED <<server, cookie, shell, shown, loads, poll, leaving, publishing, saving, polling>>

\* The session cookie arrives with the head of the answer, before its body is read.
ServeLogin(l) ==
    /\ l.status = "sent"
    /\ Issue(l.user)
    /\ login' = {[l EXCEPT !.status = "ok"]}
    /\ UNCHANGED <<shell, shown, loads, poll, leaving, publishing, saving, polling>>

\* Wrong credentials, or no answer: the form says so.
RefuseLogin(l) ==
    /\ l.status = "sent"
    /\ login' = {}
    /\ UNCHANGED <<server, cookie, shell, shown, loads, poll, leaving, publishing, saving, polling>>

\* authenticated: the console opens on the data it has, and a load is begun.
ReceiveLogin(l) ==
    /\ l.status = "ok"
    /\ login' = {}
    /\ OpenAs(l.user, shown)
    /\ BeginLoad
    /\ UNCHANGED <<server, cookie, shown, poll, leaving, publishing, saving, polling>>

\* A provider's button leaves the page; the callback sets the cookie and comes back.
SignOnElsewhere(user) ==
    /\ closed
    /\ Issue(user)
    /\ Page(user)

Reload ==
    /\ Page(cookie)
    /\ UNCHANGED <<server, cookie>>

Logout ==
    /\ ~closed
    /\ leaving = "none"
    /\ leaving' = "sent"
    /\ loads' = {}
    /\ poll' = {Superseded(r) : r \in poll}
    /\ UNCHANGED <<server, cookie, shell, shown, login, publishing, saving, polling>>

\* authLogout only clears the cookie: the token stays valid until it expires.  The
\* shell does not look at the answer, nor whether there is one.
ServeLogout ==
    /\ leaving = "sent"
    /\ leaving' = "done"
    /\ cookie' \in {Nobody, cookie}
    /\ UNCHANGED <<server, shell, shown, loads, poll, login, publishing, saving, polling>>

ReceiveLogout ==
    /\ leaving = "done"
    /\ leaving' = "none"
    /\ RequireLogin
    /\ UNCHANGED <<server, cookie, shown, loads, poll, login, publishing, saving, polling>>

-----------------------------------------------------------------------------
(* The editor                                                              *)

Type ==
    /\ ~closed
    /\ Render(who, closed, work \cup {who}, step, frozen, shown)
    /\ UNCHANGED <<server, cookie, shown, requests>>

\* The restored draft, or any other, is dropped.
Discard ==
    /\ ~closed
    /\ Render(who, closed, {}, "edit", NoList, shown)
    /\ UNCHANGED <<server, cookie, shown, requests>>

SetStep(s) ==
    /\ ~closed
    /\ Render(who, closed, work, s, frozen, shown)
    /\ UNCHANGED <<server, cookie, shown, requests>>

RefreshInventory ==
    /\ ~closed
    /\ step = "destinations"
    /\ frozen' = shown
    /\ UNCHANGED <<server, cookie, storage, who, closed, work, step, shown, requests>>

Publish ==
    /\ ~closed
    /\ step = "destinations"
    /\ publishing = "none"
    /\ version < MaxVersion
    /\ publishing' = "sent"
    /\ UNCHANGED <<server, cookie, shell, shown, loads, poll, login, leaving, saving, polling>>

\* A refused or failed publication is only reported.
ServePublish ==
    /\ publishing = "sent"
    /\ \/ /\ cookie # Nobody
          /\ version < MaxVersion
          /\ version' = version + 1
          /\ publishing' = "done"
       \/ publishing' = "none" /\ UNCHANGED version
    /\ UNCHANGED <<logins, cookie, shell, shown, loads, poll, login, leaving, saving, polling>>

ReceivePublish ==
    /\ publishing = "done"
    /\ publishing' = "none"
    /\ BeginLoad
    /\ UNCHANGED <<server, cookie, shell, shown, poll, login, leaving, saving, polling>>

-----------------------------------------------------------------------------
(* The profile                                                             *)

\* The answer will name the user of the session the request carries.  One save at a time.
SaveProfile ==
    /\ ~closed
    /\ saving = Nobody
    /\ saving' = cookie
    /\ UNCHANGED <<server, cookie, shell, shown, loads, poll, login, leaving, publishing, polling>>

\* A refused or failed save is only reported.
FailProfile ==
    /\ saving # Nobody
    /\ saving' = Nobody
    /\ UNCHANGED <<server, cookie, shell, shown, loads, poll, login, leaving, publishing, polling>>

\* onIdentityUpdated: whoever the answer names becomes the identity, whoever that was and
\* though a login may be asked for by now; no gate drops it, no draft is looked at.
ReceiveProfile ==
    /\ saving # Nobody
    /\ saving' = Nobody
    /\ Render(saving, closed, work, step, frozen, shown)
    /\ UNCHANGED <<server, cookie, shown, loads, poll, login, leaving, publishing, polling>>

-----------------------------------------------------------------------------
Receive ==
    \/ \E r \in loads : ReceiveLoad(r)
    \/ \E r \in poll : ReceivePoll(r)

Next ==
    \/ ServerMoves \/ Expire
    \/ \E r \in loads : ServeLoad(r) \/ FailLoad(r)
    \/ \E r \in poll : ServePoll(r) \/ FailPoll(r)
    \/ Receive \/ StartTimer \/ Refresh \/ Poll
    \/ \E u \in Users : SubmitLogin(u) \/ SignOnElsewhere(u)
    \/ \E l \in login : ServeLogin(l) \/ RefuseLogin(l) \/ ReceiveLogin(l)
    \/ Reload \/ Logout \/ ServeLogout \/ ReceiveLogout
    \/ Type \/ Discard \/ RefreshInventory \/ \E s \in Steps : SetStep(s)
    \/ Publish \/ ServePublish \/ ReceivePublish
    \/ SaveProfile \/ FailProfile \/ ReceiveProfile

\* Requests return and are handled, the timer of the poll fires while the tab is visible,
\* and not every poll fails; what the user, the clock and others do is left open.
Fairness ==
    /\ WF_vars(\E r \in loads : ServeLoad(r) \/ FailLoad(r))
    /\ WF_vars(\E r \in loads : ReceiveLoad(r))
    /\ WF_vars(StartTimer) /\ WF_vars(Poll)
    /\ SF_vars(\E r \in poll : ServePoll(r))
    /\ WF_vars(\E r \in poll : ReceivePoll(r))
    /\ WF_vars(\E l \in login : ReceiveLogin(l))
    /\ WF_vars(ServeLogout) /\ WF_vars(ReceiveLogout)
    /\ WF_vars(ServePublish) /\ WF_vars(ReceivePublish)

Spec     == Init /\ [][Next]_vars
FairSpec == Spec /\ Fairness

-----------------------------------------------------------------------------
(* Properties                                                              *)

TypeOK ==
    /\ version \in Nat /\ shown \in Nat /\ logins \in 0..MaxLogins
    /\ cookie \in Users \cup {Nobody}
    /\ storage \in Draft
    /\ who \in Users \cup {Nobody} /\ closed \in BOOLEAN
    /\ work \subseteq Users /\ step \in Steps /\ frozen \in Int
    /\ loads \subseteq Request /\ poll \subseteq Request
    /\ \A r \in loads : r.status = "ok" => r.user \in Users
    /\ login \subseteq [user : Users, status : {"sent", "ok"}]
    /\ leaving \in {"none", "sent", "done"} /\ publishing \in {"none", "sent", "done"}
    /\ saving \in Users \cup {Nobody}
    /\ polling \in BOOLEAN

\* An open console holds no edit of anyone but the user it shows, and the browser keeps
\* no draft with another user's edits.  Once a late profile is taken for the identity, this
\* does not hold (main.jsx:5078).
Confined ==
    /\ ~closed => who \in Users /\ work \subseteq {who}
    /\ storage.authors \subseteq {storage.owner}

\* Whatever the order in which loads, polls, logins, reloads, profile saves and returns
\* from a provider are answered, nothing brings a draft to another user, but a profile
\* that is answered when another user is logged in.
DraftConfined ==
    [][Confined => Confined' \/ (ReceiveProfile /\ who \notin {Nobody, saving})]_vars

\* An open console at the destinations always has a list to review, however it got
\* there: a step restored from a draft, a login on top of it, a new load.
DestinationsListed == ~closed /\ step = "destinations" => frozen # NoList

\* CHANGELOG.md:49-52: the list under review is stable; no poll and no load changes it,
\* only the button, or leaving the destinations.
FrozenListStable ==
    [][~closed /\ ~closed' /\ step = "destinations" /\ step' = "destinations" /\ who' = who
        => frozen' = frozen \/ RefreshInventory]_vars

\* auth-providers.test.js:16: the refusal of a load begun before a login never closes
\* the console that login opened; a load closes it only if the session is not valid now,
\* or became so by a login whose answer is about to open it again.
LoadNeverUndoesLogin ==
    [][(\E r \in loads : ReceiveLoad(r)) /\ ~closed /\ closed'
        => cookie = Nobody \/ \E l \in login : l.status = "ok"]_vars

\* The same of a poll, which has a gate of its own that a login does not touch.
PollNeverUndoesLogin ==
    [][(\E r \in poll : ReceivePoll(r)) /\ ~closed /\ closed'
        => cookie = Nobody \/ \E l \in login : l.status = "ok"]_vars

\* A console whose session the server no longer accepts does not stay open: the next
\* poll that is answered closes it, also one that reopened on a late answer.
RevokedNoticed == (~closed /\ cookie = Nobody) ~> (closed \/ cookie # Nobody)

\* When the server stops changing, an open console ends up showing its newest data,
\* whatever answers were superseded, refused or lost before.
SettlesOnNewest == <>[](closed \/ shown = version)

=============================================================================
