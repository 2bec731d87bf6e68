---------------------------- MODULE LocalAccounts ----------------------------
(***************************************************************************)
(* Local accounts, as changed at once by their owners, by administrators   *)
(* and by the links of recovery mails.                                     *)
(*                                                                         *)
(* A handler reads an account, checks the request against what it read,    *)
(* and then changes the row in a transaction of its own.  A transaction    *)
(* takes the row, checks what its WHERE names, and has its effect when it  *)
(* commits; what ties the two reads together is auth_version.  A reset     *)
(* takes the token first and the account second, every other change the    *)
(* other way round, so two of them can wait for each other until the       *)
(* database breaks one off.                                                *)
(*                                                                         *)
(* Roles are one bit: elevated roles are those the limited administrators  *)
(* may not delegate.  Names, which no check reads, and the root account,   *)
(* whose guards only take these operations away, are left out.             *)
(***************************************************************************)
EXTENDS Naturals, FiniteSets

CONSTANTS
    Users, Emails, Passwords,
    Browsers,       \* of the owners, a profile page in each
    Admins, Limited,
    Links,          \* bound: each is mailed once
    Requests,       \* bound on the requests in flight
    None,           \* no account, token, session, page, draft or request
    Spent,          \* a token consumed or expired: no check reads the rest of its row
    MaxVersion      \* bound on auth_version

ASSUME AccountsAssumption == Limited \subseteq Admins /\ MaxVersion \in Nat

Account == [email : Emails, password : Passwords, elevated : BOOLEAN, active : BOOLEAN, version : Nat]
Token   == [user : Users, version : Nat, to : Emails, password : Passwords]
Session == [user : Users, version : Nat, password : Passwords, elevated : BOOLEAN]
Draft   == [user : Users, version : Nat, elevated : BOOLEAN, active : BOOLEAN]

Stages == {"admitted", "read", "locked"}

\* What a request carries to its later stages.
ProfileTask ==
    [kind : {"profile"}, stage : Stages, user : Users, version : Nat, browser : Browsers,
     email : Emails, proof : {None} \cup Passwords]
PasswordTask ==
    [kind : {"password"}, stage : Stages, user : Users, version : Nat, browser : Browsers,
     password : Passwords, proof : Passwords]
SaveTask ==
    [kind : {"save"}, stage : Stages, user : Users, version : Nat, admin : Admins,
     email : Emails, elevated : BOOLEAN, active : BOOLEAN, shown : Draft]
DeleteTask == [kind : {"delete"}, stage : Stages, user : Users, version : Nat]
MailTask   == [kind : {"mail"}, stage : Stages, user : Users, version : Nat, email : Emails]
ResetTask  ==
    [kind : {"reset"}, stage : Stages, user : Users, version : Nat, link : Links,
     password : Passwords]

Task ==
    ProfileTask \cup PasswordTask \cup SaveTask \cup DeleteTask \cup MailTask \cup ResetTask

ASSUME NoneAssumption ==
    /\ None \notin Account \cup Token \cup Session \cup Draft \cup Task \cup Emails \cup Passwords
    /\ Spent \notin {None} \cup Token

VARIABLES
    accounts,       \* local_users
    tokens,         \* password_reset_tokens; to and password are the mail's address and
                    \* the account's password when the token was made
    cookies,        \* browser -> its session; password as for tokens, elevated likewise
    pages,          \* browser -> persistedEmail of the profile page
    drafts,         \* administrator -> the editor of UsersView
    requests

vars == <<accounts, tokens, cookies, pages, drafts, requests>>

Init ==
    /\ accounts = [u \in Users |-> None]
    /\ tokens = [k \in Links |-> None]
    /\ cookies = [b \in Browsers |-> None]
    /\ pages = [b \in Browsers |-> None]
    /\ drafts = [a \in Admins |-> None]
    /\ requests = [r \in Requests |-> None]

Exists(u)   == accounts[u] # None
ActiveAt(u, version) == Exists(u) /\ accounts[u].active /\ accounts[u].version = version
EmailFree(u, e) == \A other \in Users \ {u} : Exists(other) => accounts[other].email # e
CanDelegate(a, elevated) == elevated => a \notin Limited

\* The session is read against the account on every request.
LoggedIn(b) == cookies[b] # None /\ ActiveAt(cookies[b].user, cookies[b].version)

\* A link that still sets a password.
Live(k)   == tokens[k] \notin {None, Spent}
Usable(k) == Live(k) /\ ActiveAt(tokens[k].user, tokens[k].version)

-----------------------------------------------------------------------------
(* Rows and requests                                                       *)

At(r, kind, stage) ==
    requests[r] # None /\ requests[r].kind = kind /\ requests[r].stage = stage

\* SELECT ... FOR UPDATE of local_users, or the UPDATE itself.
HoldsAccount(r, u) ==
    requests[r] # None /\ requests[r].stage = "locked" /\ requests[r].kind # "reset"
    /\ requests[r].user = u

HoldsToken(r, k) == At(r, "reset", "locked") /\ requests[r].link = k

AccountFree(u) == \A r \in Requests : ~HoldsAccount(r, u)
TokensFree(u, r) ==
    \A q \in Requests \ {r} : ~(At(q, "reset", "locked") /\ requests[q].user = u)

Send(r, task) == requests[r] = None /\ requests' = [requests EXCEPT ![r] = task]
Move(r, stage) == requests' = [requests EXCEPT ![r].stage = stage]
Answer(r) == requests' = [requests EXCEPT ![r] = None]

Write(u, account) == accounts' = [accounts EXCEPT ![u] = account]

\* Variant: tokens outlive what they were made for.
RevokedKept(u) == tokens

\* UPDATE password_reset_tokens SET consumed_at = NOW() WHERE username = ...
Revoked(u) == [k \in Links |-> IF Live(k) /\ tokens[k].user = u THEN Spent ELSE tokens[k]]

\* Variant: a new password does not end the sessions.
WithPasswordSameVersion(u, p) ==
    [email |-> accounts[u].email, password |-> p, elevated |-> accounts[u].elevated,
     active |-> accounts[u].active, version |-> accounts[u].version]

\* The row each transaction leaves.
WithPassword(u, p) ==
    [email |-> accounts[u].email, password |-> p, elevated |-> accounts[u].elevated,
     active |-> accounts[u].active, version |-> accounts[u].version + 1]

WithEmail(u, e) ==
    [email |-> e, password |-> accounts[u].password, elevated |-> accounts[u].elevated,
     active |-> accounts[u].active, version |-> accounts[u].version]

\* Variant: deactivation leaves the version alone.
DeactivatedSameVersion(u) ==
    [email |-> accounts[u].email, password |-> accounts[u].password,
     elevated |-> accounts[u].elevated, active |-> FALSE, version |-> accounts[u].version]

Deactivated(u) ==
    [email |-> accounts[u].email, password |-> accounts[u].password,
     elevated |-> accounts[u].elevated, active |-> FALSE, version |-> accounts[u].version + 1]

Saved(u, e, elevated, active) ==
    [email |-> e, password |-> accounts[u].password, elevated |-> elevated, active |-> active,
     version |->
        IF <<e, elevated, active>> = <<accounts[u].email, accounts[u].elevated, accounts[u].active>>
        THEN accounts[u].version ELSE accounts[u].version + 1]

SessionOf(u, account) ==
    [user |-> u, version |-> account.version, password |-> account.password,
     elevated |-> account.elevated]

-----------------------------------------------------------------------------
(* Administrators                                                          *)

\* Variant: the account is stored without its email.
CreateUnaddressed(a, u) ==
    /\ ~Exists(u)
    /\ \E p \in Passwords, elevated, active \in BOOLEAN :
        /\ CanDelegate(a, elevated)
        /\ Write(u, [email |-> None, password |-> p, elevated |-> elevated, active |-> active,
                     version |-> 1])
    /\ UNCHANGED <<tokens, cookies, pages, drafts, requests>>

Create(a, u) ==
    /\ ~Exists(u)
    /\ \E e \in Emails, p \in Passwords, elevated, active \in BOOLEAN :
        /\ EmailFree(u, e)
        /\ CanDelegate(a, elevated)
        /\ Write(u, [email |-> e, password |-> p, elevated |-> elevated, active |-> active,
                     version |-> 1])
    /\ UNCHANGED <<tokens, cookies, pages, drafts, requests>>

CanEditUser(a, u) == Exists(u) /\ CanDelegate(a, accounts[u].elevated)

\* The list is loaded and a row's editor opened on it.
OpenDraft(a, u) ==
    /\ CanEditUser(a, u)
    /\ drafts' = [drafts EXCEPT ![a] =
            [user |-> u, version |-> accounts[u].version, elevated |-> accounts[u].elevated,
             active |-> accounts[u].active]]
    /\ UNCHANGED <<accounts, tokens, cookies, pages, requests>>

CloseDraft(a) ==
    /\ drafts[a] # None
    /\ drafts' = [drafts EXCEPT ![a] = None]
    /\ UNCHANGED <<accounts, tokens, cookies, pages, requests>>

\* updateLocalUserHandler up to the transaction: the revision is the account's version.
MaySave(a, d, elevated) ==
    /\ accounts[d.user].version = d.version
    /\ CanDelegate(a, accounts[d.user].elevated)
    /\ CanDelegate(a, elevated)

\* The editor can be opened again, or closed, before the answer: the request keeps what
\* this one showed.
BeginSave(a, r) ==
    /\ drafts[a] # None
    /\ \A q \in Requests : requests[q] # None /\ requests[q].kind = "save" => requests[q].admin # a
    /\ \E e \in Emails, elevated, active \in BOOLEAN :
        /\ MaySave(a, drafts[a], elevated)
        /\ Send(r, [kind |-> "save", stage |-> "read", user |-> drafts[a].user,
                    version |-> drafts[a].version, admin |-> a, email |-> e,
                    elevated |-> elevated, active |-> active, shown |-> drafts[a]])
    /\ UNCHANGED <<accounts, tokens, cookies, pages, drafts>>

LockSave(r) ==
    /\ At(r, "save", "read")
    /\ AccountFree(requests[r].user)
    /\ accounts[requests[r].user].version = requests[r].version
    /\ Move(r, "locked")
    /\ UNCHANGED <<accounts, tokens, cookies, pages, drafts>>

FinishSave(r) ==
    /\ At(r, "save", "locked")
    /\ LET u == requests[r].user
           e == requests[r].email
       IN  /\ EmailFree(u, e)
           /\ accounts[u].version < MaxVersion
           /\ Write(u, Saved(u, e, requests[r].elevated, requests[r].active))
           /\ IF e = accounts[u].email THEN tokens' = tokens
              ELSE TokensFree(u, r) /\ tokens' = Revoked(u)
    /\ drafts' = [drafts EXCEPT ![requests[r].admin] = None]
    /\ Answer(r)
    /\ UNCHANGED <<cookies, pages>>

\* deleteLocalUserHandler: what it read only decides whether it goes on.
BeginDelete(a, u, r) ==
    /\ CanEditUser(a, u)
    /\ Send(r, [kind |-> "delete", stage |-> "read", user |-> u,
                version |-> accounts[u].version])
    /\ UNCHANGED <<accounts, tokens, cookies, pages, drafts>>

FinishDelete(r) ==
    /\ At(r, "delete", "read")
    /\ AccountFree(requests[r].user)
    /\ accounts[requests[r].user].version < MaxVersion
    /\ Write(requests[r].user, Deactivated(requests[r].user))
    /\ Answer(r)
    /\ UNCHANGED <<tokens, cookies, pages, drafts>>

-----------------------------------------------------------------------------
(* Owners                                                                  *)

Login(b, u, p) ==
    /\ Exists(u) /\ accounts[u].active /\ accounts[u].password = p
    /\ cookies' = [cookies EXCEPT ![b] = SessionOf(u, accounts[u])]
    /\ pages' = [pages EXCEPT ![b] = None]
    /\ UNCHANGED <<accounts, tokens, drafts, requests>>

LoadProfile(b) ==
    /\ LoggedIn(b)
    /\ pages' = [pages EXCEPT ![b] = accounts[cookies[b].user].email]
    /\ UNCHANGED <<accounts, tokens, cookies, drafts, requests>>

\* The page asks for the password when its own email changes, and sends none otherwise.
SendProfile(b, r) ==
    /\ LoggedIn(b)
    /\ pages[b] # None
    /\ \E e \in Emails, proof \in {None} \cup Passwords :
        /\ (proof = None) <=> (e = pages[b])
        /\ Send(r, [kind |-> "profile", stage |-> "admitted", user |-> cookies[b].user,
                    version |-> 0, browser |-> b, email |-> e, proof |-> proof])
    /\ UNCHANGED <<accounts, tokens, cookies, pages, drafts>>

\* The server asks for it when the account's email changes.
ReadProfile(r) ==
    /\ At(r, "profile", "admitted")
    /\ LET u == requests[r].user IN
        /\ requests[r].email = accounts[u].email \/ requests[r].proof = accounts[u].password
        /\ requests' = [requests EXCEPT ![r] =
                [kind |-> "profile", stage |-> "read", user |-> u,
                 version |-> accounts[u].version, browser |-> requests[r].browser,
                 email |-> requests[r].email, proof |-> requests[r].proof]]
    /\ UNCHANGED <<accounts, tokens, cookies, pages, drafts>>

LockProfile(r) ==
    /\ At(r, "profile", "read")
    /\ AccountFree(requests[r].user)
    /\ ActiveAt(requests[r].user, requests[r].version)
    /\ Move(r, "locked")
    /\ UNCHANGED <<accounts, tokens, cookies, pages, drafts>>

FinishProfile(r) ==
    /\ At(r, "profile", "locked")
    /\ LET u == requests[r].user
           e == requests[r].email
       IN  /\ EmailFree(u, e)
           /\ Write(u, WithEmail(u, e))
           /\ IF e = accounts[u].email THEN tokens' = tokens
              ELSE TokensFree(u, r) /\ tokens' = Revoked(u)
           /\ pages' = [pages EXCEPT ![requests[r].browser] = e]
    /\ Answer(r)
    /\ UNCHANGED <<cookies, drafts>>

\* validatePasswordChange
ValidPasswordChange(old, new) == old # new

SendPassword(b, r) ==
    /\ LoggedIn(b)
    /\ \E old, new \in Passwords :
        /\ ValidPasswordChange(old, new)
        /\ Send(r, [kind |-> "password", stage |-> "admitted", user |-> cookies[b].user,
                    version |-> 0, browser |-> b, password |-> new, proof |-> old])
    /\ UNCHANGED <<accounts, tokens, cookies, pages, drafts>>

ReadPassword(r) ==
    /\ At(r, "password", "admitted")
    /\ requests[r].proof = accounts[requests[r].user].password
    /\ Move(r, "read")
    /\ UNCHANGED <<accounts, tokens, cookies, pages, drafts>>

\* Its UPDATE names no version: it asks for an active account and nothing else.
LockPassword(r) ==
    /\ At(r, "password", "read")
    /\ AccountFree(requests[r].user)
    /\ accounts[requests[r].user].active
    /\ Move(r, "locked")
    /\ UNCHANGED <<accounts, tokens, cookies, pages, drafts>>

\* The answer carries a new session, and may be lost.
FinishPassword(r) ==
    /\ At(r, "password", "locked")
    /\ LET u == requests[r].user
           account == WithPassword(u, requests[r].password)
       IN  /\ TokensFree(u, r)
           /\ accounts[u].version < MaxVersion
           /\ Write(u, account)
           /\ tokens' = Revoked(u)
           /\ \/ cookies' = [cookies EXCEPT ![requests[r].browser] = SessionOf(u, account)]
              \/ cookies' = cookies
    /\ Answer(r)
    /\ UNCHANGED <<pages, drafts>>

-----------------------------------------------------------------------------
(* Recovery                                                                *)

BeginMail(u, r) ==
    /\ Exists(u) /\ accounts[u].active
    /\ Send(r, [kind |-> "mail", stage |-> "read", user |-> u,
                version |-> accounts[u].version, email |-> accounts[u].email])
    /\ UNCHANGED <<accounts, tokens, cookies, pages, drafts>>

\* forgotLocalPassword, for anyone who names the account.
Forgot(u, r) == BeginMail(u, r)

\* adminPasswordReset
AdminReset(a, u, r) ==
    /\ CanEditUser(a, u)
    /\ BeginMail(u, r)

LockMail(r) ==
    /\ At(r, "mail", "read")
    /\ AccountFree(requests[r].user)
    /\ ActiveAt(requests[r].user, requests[r].version)
    /\ accounts[requests[r].user].email = requests[r].email
    /\ Move(r, "locked")
    /\ UNCHANGED <<accounts, tokens, cookies, pages, drafts>>

FinishMail(r, k) ==
    /\ At(r, "mail", "locked")
    /\ tokens[k] = None
    /\ LET u == requests[r].user IN
        /\ TokensFree(u, r)
        /\ tokens' = [Revoked(u) EXCEPT ![k] =
                [user |-> u, version |-> accounts[u].version,
                 to |-> accounts[u].email, password |-> accounts[u].password]]
    /\ Answer(r)
    /\ UNCHANGED <<accounts, cookies, pages, drafts>>

\* expires_at has passed.
ExpireLink(k) ==
    /\ Live(k)
    /\ tokens' = [tokens EXCEPT ![k] = Spent]
    /\ UNCHANGED <<accounts, cookies, pages, drafts, requests>>

\* The mail's page sends the link with a new password; the transaction takes the token.
LockReset(k, p, r) ==
    /\ Live(k)
    /\ \A q \in Requests : ~HoldsToken(q, k)
    /\ Send(r, [kind |-> "reset", stage |-> "locked", user |-> tokens[k].user,
                version |-> tokens[k].version, link |-> k, password |-> p])
    /\ UNCHANGED <<accounts, tokens, cookies, pages, drafts>>

FinishReset(r) ==
    /\ At(r, "reset", "locked")
    /\ LET u == requests[r].user IN
        /\ AccountFree(u)
        /\ TokensFree(u, r)
        /\ ActiveAt(u, requests[r].version)
        /\ accounts[u].version < MaxVersion
        /\ Write(u, WithPassword(u, requests[r].password))
        /\ tokens' = Revoked(u)
    /\ Answer(r)
    /\ UNCHANGED <<cookies, pages, drafts>>

\* A check refuses the request, its connection ends, or the database ends a deadlock:
\* the transaction is rolled back, and so is what it held.
Fail(r) ==
    /\ requests[r] # None
    /\ Answer(r)
    /\ UNCHANGED <<accounts, tokens, cookies, pages, drafts>>

-----------------------------------------------------------------------------
Next ==
    \/ \E a \in Admins, u \in Users : Create(a, u) \/ OpenDraft(a, u)
    \/ \E a \in Admins : CloseDraft(a)
    \/ \E b \in Browsers : LoadProfile(b)
    \/ \E b \in Browsers, u \in Users, p \in Passwords : Login(b, u, p)
    \/ \E k \in Links : ExpireLink(k)
    \/ \E r \in Requests :
        \/ \E a \in Admins : BeginSave(a, r)
        \/ \E a \in Admins, u \in Users : BeginDelete(a, u, r) \/ AdminReset(a, u, r)
        \/ \E b \in Browsers : SendProfile(b, r) \/ SendPassword(b, r)
        \/ \E u \in Users : Forgot(u, r)
        \/ \E k \in Links, p \in Passwords : LockReset(k, p, r)
        \/ \E k \in Links : FinishMail(r, k)
        \/ LockSave(r) \/ FinishSave(r) \/ FinishDelete(r)
        \/ ReadProfile(r) \/ LockProfile(r) \/ FinishProfile(r)
        \/ ReadPassword(r) \/ LockPassword(r) \/ FinishPassword(r)
        \/ LockMail(r) \/ FinishReset(r)
        \/ Fail(r)

Spec == Init /\ [][Next]_vars

-----------------------------------------------------------------------------
TypeOK ==
    /\ accounts \in [Users -> {None} \cup Account]
    /\ tokens \in [Links -> {None, Spent} \cup Token]
    /\ cookies \in [Browsers -> {None} \cup Session]
    /\ pages \in [Browsers -> {None} \cup Emails]
    /\ drafts \in [Admins -> {None} \cup Draft]
    /\ requests \in [Requests -> {None} \cup Task]

(* A link that still sets a password went to the account's present email,  *)
(* was made while the present password was, and is the account's only one: *)
(* no order of mails, resets, saves and deactivations leaves an older link *)
(* working (consumePasswordResetToken and the revocations elsewhere).      *)
UsableLinks ==
    \A k \in Links : Usable(k) =>
        LET u == tokens[k].user IN
        /\ tokens[k].to = accounts[u].email
        /\ tokens[k].password = accounts[u].password
        /\ \A other \in Links \ {k} : Usable(other) => tokens[other].user # u

(* A session that still counts was opened with the account's present       *)
(* password and roles: whatever changed them ended the others (the check   *)
(* of auth_version in the authenticator).                                  *)
SessionsEnd ==
    \A b \in Browsers : LoggedIn(b) =>
        LET u == cookies[b].user IN
        /\ cookies[b].password = accounts[u].password
        /\ cookies[b].elevated = accounts[u].elevated

(* When an administrator's save holds the row, the account is active, or   *)
(* not, and has its roles as the editor showed, and the administrator may  *)
(* delegate those: a save never undoes a deactivation or a change of roles *)
(* made since (the revision of updateLocalUserHandler).                    *)
SavesWhatItSaw ==
    \A r \in Requests : At(r, "save", "locked") =>
        LET account == accounts[requests[r].user] IN
        /\ account.active = requests[r].shown.active
        /\ account.elevated = requests[r].shown.elevated
        /\ CanDelegate(requests[r].admin, account.elevated)

=============================================================================
