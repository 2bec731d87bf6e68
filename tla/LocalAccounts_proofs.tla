------------------------ MODULE LocalAccounts_proofs ------------------------
(***************************************************************************)
(* What holds of local accounts for any number of accounts, browsers,      *)
(* administrators, links and requests in flight.                           *)
(*                                                                         *)
(* An account is copied into tokens, sessions, editors and requests.  The  *)
(* argument is about versions: a copy is never newer than its account, and *)
(* while it is as new it says the same of password, roles and activity,    *)
(* for every change of those moves the version on.  The email alone can    *)
(* change under a version; then no live token is left to disagree.         *)
(***************************************************************************)
EXTENDS LocalAccounts, TLAPS

Copies(version, u) == Exists(u) /\ version <= accounts[u].version

TokensAgree ==
    \A k \in Links : Live(k) =>
        LET t == tokens[k] IN
        /\ Copies(t.version, t.user)
        /\ t.version = accounts[t.user].version =>
                t.to = accounts[t.user].email /\ t.password = accounts[t.user].password
        /\ \A l \in Links : Live(l) /\ tokens[l].user = t.user => l = k

CookiesAgree ==
    \A b \in Browsers : cookies[b] # None =>
        LET c == cookies[b] IN
        /\ Copies(c.version, c.user)
        /\ c.version = accounts[c.user].version =>
                c.password = accounts[c.user].password /\ c.elevated = accounts[c.user].elevated

DraftAgrees(d) ==
    /\ Copies(d.version, d.user)
    /\ d.version = accounts[d.user].version =>
            d.active = accounts[d.user].active /\ d.elevated = accounts[d.user].elevated

DraftsAgree == \A a \in Admins : drafts[a] # None => DraftAgrees(drafts[a])

SaveAgrees(t) ==
    /\ DraftAgrees(t.shown)
    /\ t.user = t.shown.user /\ t.version = t.shown.version
    /\ CanDelegate(t.admin, t.shown.elevated)
    /\ t.stage = "locked" => accounts[t.user].version = t.version

RequestsAgree ==
    \A r \in Requests : requests[r] # None =>
        /\ Exists(requests[r].user)
        /\ requests[r].kind = "save" => SaveAgrees(requests[r])

OneHolder ==
    \A r, q \in Requests, u \in Users : HoldsAccount(r, u) /\ HoldsAccount(q, u) => r = q

Inv == TypeOK /\ TokensAgree /\ CookiesAgree /\ DraftsAgree /\ RequestsAgree /\ OneHolder

\* What a step may do to an account that copies are compared with.
Grown ==
    \A u \in Users : Exists(u) =>
        /\ accounts'[u] # None
        /\ accounts[u].version <= accounts'[u].version
        /\ accounts[u].version = accounts'[u].version =>
                /\ accounts'[u].password = accounts[u].password
                /\ accounts'[u].elevated = accounts[u].elevated
                /\ accounts'[u].active = accounts[u].active

-----------------------------------------------------------------------------
(* Shapes                                                                  *)

\* The kind of a request says what it carries.
LEMMA Shape ==
    ASSUME TypeOK, NEW r \in Requests, requests[r] # None
    PROVE  /\ requests[r] \in Task
           /\ requests[r].stage \in Stages /\ requests[r].user \in Users
           /\ requests[r].version \in Nat
           /\ requests[r].kind \in {"profile", "password", "save", "delete", "mail", "reset"}
           /\ requests[r].kind = "profile" => requests[r] \in ProfileTask
           /\ requests[r].kind = "password" => requests[r] \in PasswordTask
           /\ requests[r].kind = "save" => requests[r] \in SaveTask
           /\ requests[r].kind = "delete" => requests[r] \in DeleteTask
           /\ requests[r].kind = "mail" => requests[r] \in MailTask
           /\ requests[r].kind = "reset" => requests[r] \in ResetTask
  <1> USE DEF TypeOK
  <1>1. requests[r] \in Task
    OBVIOUS
  <1>2. CASE requests[r] \in ProfileTask
    BY <1>1, <1>2 DEF ProfileTask
  <1>3. CASE requests[r] \in PasswordTask
    BY <1>1, <1>3 DEF PasswordTask
  <1>4. CASE requests[r] \in SaveTask
    BY <1>1, <1>4 DEF SaveTask
  <1>5. CASE requests[r] \in DeleteTask
    BY <1>1, <1>5 DEF DeleteTask
  <1>6. CASE requests[r] \in MailTask
    BY <1>1, <1>6 DEF MailTask
  <1>7. CASE requests[r] \in ResetTask
    BY <1>1, <1>7 DEF ResetTask
  <1> QED
    BY <1>1, <1>2, <1>3, <1>4, <1>5, <1>6, <1>7 DEF Task

\* Sending a task changes one request, from none to the task.
LEMMA SendShape ==
    ASSUME TypeOK, NEW r \in Requests, NEW task \in Task, Send(r, task)
    PROVE  /\ requests' \in [Requests -> {None} \cup Task]
           /\ requests[r] = None /\ requests'[r] = task
           /\ \A q \in Requests \ {r} : requests'[q] = requests[q]
  BY DEF TypeOK, Send

\* Answering leaves no request.
LEMMA AnswerShape ==
    ASSUME TypeOK, NEW r \in Requests, Answer(r)
    PROVE  /\ requests' \in [Requests -> {None} \cup Task]
           /\ requests'[r] = None
           /\ \A q \in Requests \ {r} : requests'[q] = requests[q]
  BY DEF TypeOK, Answer

\* Moving a task changes its stage.
LEMMA MoveShape ==
    ASSUME TypeOK, NEW r \in Requests, requests[r] # None, NEW stage \in Stages,
           Move(r, stage)
    PROVE  /\ requests' \in [Requests -> {None} \cup Task]
           /\ requests'[r] = [requests[r] EXCEPT !.stage = stage]
           /\ requests'[r] # None
           /\ requests'[r].stage = stage
           /\ requests'[r].kind = requests[r].kind
           /\ requests'[r].user = requests[r].user
           /\ requests[r].kind = "save" =>
                /\ requests'[r].version = requests[r].version
                /\ requests'[r].admin = requests[r].admin
                /\ requests'[r].shown = requests[r].shown
           /\ \A q \in Requests \ {r} : requests'[q] = requests[q]
  <1>1. /\ requests'[r] = [requests[r] EXCEPT !.stage = stage]
        /\ \A q \in Requests \ {r} : requests'[q] = requests[q]
        /\ requests' = [requests EXCEPT ![r] = [requests[r] EXCEPT !.stage = stage]]
    BY DEF TypeOK, Move
  <1> DEFINE t == [requests[r] EXCEPT !.stage = stage]
  <1> DEFINE Result ==
        /\ t \in Task /\ t.stage = stage /\ t.kind = requests[r].kind
        /\ t.user = requests[r].user
        /\ requests[r].kind = "save" =>
                /\ t.version = requests[r].version /\ t.admin = requests[r].admin
                /\ t.shown = requests[r].shown
  <1>2. ASSUME requests[r] \in ProfileTask PROVE Result
    <2>1. t \in ProfileTask /\ t.stage = stage /\ t.kind = requests[r].kind
          /\ t.user = requests[r].user /\ requests[r].kind # "save"
      BY <1>2 DEF ProfileTask
    <2> QED
      BY <2>1 DEF Task
  <1>3. ASSUME requests[r] \in PasswordTask PROVE Result
    <2>1. t \in PasswordTask /\ t.stage = stage /\ t.kind = requests[r].kind
          /\ t.user = requests[r].user /\ requests[r].kind # "save"
      BY <1>3 DEF PasswordTask
    <2> QED
      BY <2>1 DEF Task
  <1>4. ASSUME requests[r] \in SaveTask PROVE Result
    <2>1. t \in SaveTask /\ t.stage = stage /\ t.kind = requests[r].kind
          /\ t.user = requests[r].user /\ t.version = requests[r].version
          /\ t.admin = requests[r].admin /\ t.shown = requests[r].shown
      BY <1>4 DEF SaveTask
    <2> QED
      BY <2>1 DEF Task
  <1>5. ASSUME requests[r] \in DeleteTask PROVE Result
    <2>1. t \in DeleteTask /\ t.stage = stage /\ t.kind = requests[r].kind
          /\ t.user = requests[r].user /\ requests[r].kind # "save"
      BY <1>5 DEF DeleteTask
    <2> QED
      BY <2>1 DEF Task
  <1>6. ASSUME requests[r] \in MailTask PROVE Result
    <2>1. t \in MailTask /\ t.stage = stage /\ t.kind = requests[r].kind
          /\ t.user = requests[r].user /\ requests[r].kind # "save"
      BY <1>6 DEF MailTask
    <2> QED
      BY <2>1 DEF Task
  <1>7. ASSUME requests[r] \in ResetTask PROVE Result
    <2>1. t \in ResetTask /\ t.stage = stage /\ t.kind = requests[r].kind
          /\ t.user = requests[r].user /\ requests[r].kind # "save"
      BY <1>7 DEF ResetTask
    <2> QED
      BY <2>1 DEF Task
  <1>8. Result
    BY <1>2, <1>3, <1>4, <1>5, <1>6, <1>7, Shape DEF Task
  <1>9. t # None
    BY <1>8, NoneAssumption
  <1> QED
    BY <1>1, <1>8, <1>9 DEF TypeOK

-----------------------------------------------------------------------------
(* What the actions leave alone                                            *)

\* Only logins and password changes touch sessions.
LEMMA CookieSteps ==
    ASSUME Next
    PROVE  \/ UNCHANGED cookies
           \/ \E b \in Browsers, u \in Users, p \in Passwords : Login(b, u, p)
           \/ \E r \in Requests : FinishPassword(r)
  BY DEF Next, Create, OpenDraft, CloseDraft, LoadProfile, ExpireLink, BeginSave, BeginDelete,
         AdminReset, Forgot, BeginMail, SendProfile, SendPassword, LockReset, FinishMail,
         LockSave, FinishSave, FinishDelete, ReadProfile, LockProfile, FinishProfile,
         ReadPassword, LockPassword, LockMail, FinishReset, Fail

\* Only these touch editors.
LEMMA DraftSteps ==
    ASSUME Next
    PROVE  \/ UNCHANGED drafts
           \/ \E a \in Admins, u \in Users : OpenDraft(a, u)
           \/ \E a \in Admins : CloseDraft(a)
           \/ \E r \in Requests : FinishSave(r)
  BY DEF Next, Create, Login, FinishPassword, LoadProfile, ExpireLink, BeginSave, BeginDelete,
         AdminReset, Forgot, BeginMail, SendProfile, SendPassword, LockReset, FinishMail,
         LockSave, FinishDelete, ReadProfile, LockProfile, FinishProfile,
         ReadPassword, LockPassword, LockMail, FinishReset, Fail

\* Only these touch accounts.
LEMMA AccountSteps ==
    ASSUME Next
    PROVE  \/ UNCHANGED accounts
           \/ \E a \in Admins, u \in Users : Create(a, u)
           \/ \E r \in Requests : \/ FinishSave(r) \/ FinishDelete(r) \/ FinishProfile(r)
                                  \/ FinishPassword(r) \/ FinishReset(r)
  BY DEF Next, OpenDraft, CloseDraft, Login, LoadProfile, ExpireLink, BeginSave, BeginDelete,
         AdminReset, Forgot, BeginMail, SendProfile, SendPassword, LockReset, FinishMail,
         LockSave, ReadProfile, LockProfile, ReadPassword, LockPassword, LockMail, Fail

\* Only these touch tokens.
LEMMA TokenSteps ==
    ASSUME Next
    PROVE  \/ UNCHANGED tokens
           \/ \E k \in Links : ExpireLink(k)
           \/ \E r \in Requests, k \in Links : FinishMail(r, k)
           \/ \E r \in Requests : \/ FinishSave(r) \/ FinishProfile(r)
                                  \/ FinishPassword(r) \/ FinishReset(r)
  BY DEF Next, Create, OpenDraft, CloseDraft, Login, LoadProfile, BeginSave, BeginDelete,
         AdminReset, Forgot, BeginMail, SendProfile, SendPassword, LockReset, FinishDelete,
         LockSave, ReadProfile, LockProfile, ReadPassword, LockPassword, LockMail, Fail

\* Only these touch the profile pages.
LEMMA PageSteps ==
    ASSUME Next
    PROVE  \/ UNCHANGED pages
           \/ \E b \in Browsers, u \in Users, p \in Passwords : Login(b, u, p)
           \/ \E b \in Browsers : LoadProfile(b)
           \/ \E r \in Requests : FinishProfile(r)
  BY DEF Next, Create, OpenDraft, CloseDraft, ExpireLink, BeginSave, BeginDelete,
         AdminReset, Forgot, BeginMail, SendProfile, SendPassword, LockReset, FinishMail,
         LockSave, FinishSave, FinishDelete, ReadProfile, LockProfile, FinishPassword,
         ReadPassword, LockPassword, LockMail, FinishReset, Fail

-----------------------------------------------------------------------------
(* Accounts                                                                *)

\* The rows that transactions leave.
LEMMA Rows ==
    ASSUME TypeOK, NEW u \in Users, Exists(u)
    PROVE  /\ accounts[u] \in Account
           /\ \A p \in Passwords : /\ WithPassword(u, p) \in Account
                                   /\ WithPassword(u, p).version = accounts[u].version + 1
           /\ \A e \in Emails :
                /\ WithEmail(u, e) \in Account
                /\ WithEmail(u, e).version = accounts[u].version
                /\ WithEmail(u, e).password = accounts[u].password
                /\ WithEmail(u, e).elevated = accounts[u].elevated
                /\ WithEmail(u, e).active = accounts[u].active
                /\ WithEmail(u, e).email = e
           /\ Deactivated(u) \in Account
           /\ Deactivated(u).version = accounts[u].version + 1
           /\ \A e \in Emails, x, y \in BOOLEAN :
                /\ Saved(u, e, x, y) \in Account
                /\ Saved(u, e, x, y).email = e
                /\ Saved(u, e, x, y).password = accounts[u].password
                /\ Saved(u, e, x, y).elevated = x
                /\ Saved(u, e, x, y).active = y
                /\ \/ Saved(u, e, x, y).version = accounts[u].version + 1
                   \/ /\ Saved(u, e, x, y).version = accounts[u].version
                      /\ e = accounts[u].email /\ x = accounts[u].elevated
                      /\ y = accounts[u].active
  <1>1. accounts[u] \in Account
    BY DEF TypeOK, Exists
  <1>2. \A p \in Passwords : /\ WithPassword(u, p) \in Account
                             /\ WithPassword(u, p).version = accounts[u].version + 1
    BY <1>1 DEF WithPassword, Account
  <1>3. \A e \in Emails :
                /\ WithEmail(u, e) \in Account
                /\ WithEmail(u, e).version = accounts[u].version
                /\ WithEmail(u, e).password = accounts[u].password
                /\ WithEmail(u, e).elevated = accounts[u].elevated
                /\ WithEmail(u, e).active = accounts[u].active
                /\ WithEmail(u, e).email = e
    BY <1>1 DEF WithEmail, Account
  <1>4. Deactivated(u) \in Account /\ Deactivated(u).version = accounts[u].version + 1
    BY <1>1 DEF Deactivated, Account
  <1>5. ASSUME NEW e \in Emails, NEW x \in BOOLEAN, NEW y \in BOOLEAN
        PROVE   /\ Saved(u, e, x, y) \in Account
                /\ Saved(u, e, x, y).email = e
                /\ Saved(u, e, x, y).password = accounts[u].password
                /\ Saved(u, e, x, y).elevated = x
                /\ Saved(u, e, x, y).active = y
                /\ \/ Saved(u, e, x, y).version = accounts[u].version + 1
                   \/ /\ Saved(u, e, x, y).version = accounts[u].version
                      /\ e = accounts[u].email /\ x = accounts[u].elevated
                      /\ y = accounts[u].active
    <2>1. CASE <<e, x, y>> = <<accounts[u].email, accounts[u].elevated, accounts[u].active>>
      <3>1. e = accounts[u].email /\ x = accounts[u].elevated /\ y = accounts[u].active
        BY <2>1
      <3> QED
        BY <1>1, <2>1, <3>1 DEF Saved, Account
    <2>2. CASE <<e, x, y>> # <<accounts[u].email, accounts[u].elevated, accounts[u].active>>
      BY <1>1, <2>2 DEF Saved, Account
    <2> QED
      BY <2>1, <2>2
  <1> QED
    BY <1>1, <1>2, <1>3, <1>4, <1>5

\* A write replaces one row.
LEMMA Written ==
    ASSUME TypeOK, NEW u \in Users, NEW account \in Account, Write(u, account)
    PROVE  /\ accounts' \in [Users -> {None} \cup Account]
           /\ accounts'[u] = account /\ accounts'[u] # None
           /\ \A other \in Users \ {u} : accounts'[other] = accounts[other]
  BY NoneAssumption DEF TypeOK, Write

\* Accounts stay, and move their version on with anything a copy is compared by.
LEMMA AccountsGrow ==
    ASSUME Inv, Next
    PROVE  Grown /\ accounts' \in [Users -> {None} \cup Account]
  <1> USE DEF Inv
  <1>0. \A v \in Users : Exists(v) => accounts[v] \in Account /\ accounts[v].version \in Nat
    BY DEF TypeOK, Exists, Account
  <1>1. CASE UNCHANGED accounts
    BY <1>0, <1>1 DEF TypeOK, Grown, Exists
  <1>2. ASSUME NEW a \in Admins, NEW u \in Users, Create(a, u)
        PROVE  Grown /\ accounts' \in [Users -> {None} \cup Account]
    <2>1. PICK e \in Emails, p \in Passwords, x \in BOOLEAN, y \in BOOLEAN :
            Write(u, [email |-> e, password |-> p, elevated |-> x, active |-> y, version |-> 1])
      BY <1>2 DEF Create
    <2>2. [email |-> e, password |-> p, elevated |-> x, active |-> y, version |-> 1] \in Account
      BY DEF Account
    <2>3. ~Exists(u)
      BY <1>2 DEF Create
    <2> QED
      BY <1>0, <2>1, <2>2, <2>3, Written DEF Grown, Exists
  <1>3. ASSUME NEW r \in Requests, FinishSave(r)
        PROVE  Grown /\ accounts' \in [Users -> {None} \cup Account]
    <2>1. requests[r] \in SaveTask /\ Exists(requests[r].user) /\ requests[r].user \in Users
      BY <1>3, Shape DEF FinishSave, At, RequestsAgree
    <2>2. requests[r].email \in Emails /\ requests[r].elevated \in BOOLEAN
          /\ requests[r].active \in BOOLEAN
      BY <2>1 DEF SaveTask
    <2>3. Write(requests[r].user,
                Saved(requests[r].user, requests[r].email, requests[r].elevated, requests[r].active))
      BY <1>3 DEF FinishSave
    <2> QED
      BY <1>0, <2>1, <2>2, <2>3, Rows, Written DEF Grown, Exists
  <1>4. ASSUME NEW r \in Requests, FinishDelete(r)
        PROVE  Grown /\ accounts' \in [Users -> {None} \cup Account]
    <2>1. Exists(requests[r].user) /\ requests[r].user \in Users
      BY <1>4, Shape DEF FinishDelete, At, RequestsAgree
    <2>2. Write(requests[r].user, Deactivated(requests[r].user))
      BY <1>4 DEF FinishDelete
    <2> QED
      BY <1>0, <2>1, <2>2, Rows, Written DEF Grown, Exists
  <1>5. ASSUME NEW r \in Requests, FinishProfile(r)
        PROVE  Grown /\ accounts' \in [Users -> {None} \cup Account]
    <2>1. requests[r] \in ProfileTask /\ Exists(requests[r].user) /\ requests[r].user \in Users
      BY <1>5, Shape DEF FinishProfile, At, RequestsAgree
    <2>2. requests[r].email \in Emails
      BY <2>1 DEF ProfileTask
    <2>3. Write(requests[r].user, WithEmail(requests[r].user, requests[r].email))
      BY <1>5 DEF FinishProfile
    <2> QED
      BY <1>0, <2>1, <2>2, <2>3, Rows, Written DEF Grown, Exists
  <1>6. ASSUME NEW r \in Requests, FinishPassword(r)
        PROVE  Grown /\ accounts' \in [Users -> {None} \cup Account]
    <2>1. requests[r] \in PasswordTask /\ Exists(requests[r].user) /\ requests[r].user \in Users
      BY <1>6, Shape DEF FinishPassword, At, RequestsAgree
    <2>2. requests[r].password \in Passwords
      BY <2>1 DEF PasswordTask
    <2>3. Write(requests[r].user, WithPassword(requests[r].user, requests[r].password))
      BY <1>6 DEF FinishPassword
    <2> QED
      BY <1>0, <2>1, <2>2, <2>3, Rows, Written DEF Grown, Exists
  <1>7. ASSUME NEW r \in Requests, FinishReset(r)
        PROVE  Grown /\ accounts' \in [Users -> {None} \cup Account]
    <2>1. requests[r] \in ResetTask /\ Exists(requests[r].user) /\ requests[r].user \in Users
      BY <1>7, Shape DEF FinishReset, At, RequestsAgree
    <2>2. requests[r].password \in Passwords
      BY <2>1 DEF ResetTask
    <2>3. Write(requests[r].user, WithPassword(requests[r].user, requests[r].password))
      BY <1>7 DEF FinishReset
    <2> QED
      BY <1>0, <2>1, <2>2, <2>3, Rows, Written DEF Grown, Exists
  <1> QED
    BY <1>1, <1>2, <1>3, <1>4, <1>5, <1>6, <1>7, AccountSteps

-----------------------------------------------------------------------------
(* Sessions and editors                                                    *)

\* Sessions keep to their accounts.
LEMMA CookiesStep ==
    ASSUME Inv, Next
    PROVE  CookiesAgree' /\ cookies' \in [Browsers -> {None} \cup Session]
  <1> USE DEF Inv
  <1>0. Grown /\ accounts' \in [Users -> {None} \cup Account]
    BY AccountsGrow
  <1>a. \A v \in Users : Exists(v) => accounts[v] \in Account
    BY DEF TypeOK, Exists
  <1>b. \A v \in Users : accounts'[v] # None => accounts'[v] \in Account
    BY <1>0
  <1>1. ASSUME NEW b \in Browsers, cookies[b] # None, cookies'[b] = cookies[b]
        PROVE  /\ accounts'[cookies'[b].user] # None
               /\ cookies'[b].version <= accounts'[cookies'[b].user].version
               /\ cookies'[b].version = accounts'[cookies'[b].user].version =>
                    /\ cookies'[b].password = accounts'[cookies'[b].user].password
                    /\ cookies'[b].elevated = accounts'[cookies'[b].user].elevated
    <2>1. cookies[b].user \in Users /\ cookies[b].version \in Nat
      BY <1>1 DEF TypeOK, Session
    <2>2. Exists(cookies[b].user)
      BY <1>1 DEF CookiesAgree, Copies
    <2>3. accounts[cookies[b].user].version \in Nat /\ accounts'[cookies[b].user].version \in Nat
      BY <1>0, <1>a, <1>b, <2>1, <2>2 DEF Grown, Account
    <2> QED
      BY <1>0, <1>1, <2>1, <2>2, <2>3 DEF CookiesAgree, Copies, Grown
  <1>2. ASSUME NEW b \in Browsers, NEW u \in Users, NEW account \in Account,
               accounts'[u] = account, cookies' = [cookies EXCEPT ![b] = SessionOf(u, account)]
        PROVE  CookiesAgree' /\ cookies' \in [Browsers -> {None} \cup Session]
    <2>1. SessionOf(u, account) \in Session
      BY DEF SessionOf, Session, Account
    <2>2. cookies' \in [Browsers -> {None} \cup Session]
      BY <1>2, <2>1 DEF TypeOK
    <2>3. cookies'[b] = SessionOf(u, account) /\ \A c \in Browsers \ {b} : cookies'[c] = cookies[c]
      BY <1>2 DEF TypeOK
    <2>4. /\ account # None /\ account.version <= account.version
      BY NoneAssumption DEF Account
    <2> QED
      BY <1>1, <1>2, <2>2, <2>3, <2>4 DEF CookiesAgree, Copies, Exists, SessionOf
  <1>3. CASE UNCHANGED cookies
    BY <1>1, <1>3 DEF TypeOK, CookiesAgree, Copies, Exists
  <1>4. ASSUME NEW b \in Browsers, NEW u \in Users, NEW p \in Passwords, Login(b, u, p)
        PROVE  CookiesAgree' /\ cookies' \in [Browsers -> {None} \cup Session]
    <2>1. accounts[u] \in Account /\ accounts'[u] = accounts[u]
          /\ cookies' = [cookies EXCEPT ![b] = SessionOf(u, accounts[u])]
      BY <1>4, <1>a DEF Login
    <2> QED
      BY <1>2, <2>1
  <1>5. ASSUME NEW r \in Requests, FinishPassword(r)
        PROVE  CookiesAgree' /\ cookies' \in [Browsers -> {None} \cup Session]
    <2> DEFINE u == requests[r].user
               account == WithPassword(u, requests[r].password)
    <2>1. requests[r] \in PasswordTask /\ Exists(u) /\ u \in Users
      BY <1>5, Shape DEF FinishPassword, At, RequestsAgree
    <2>2. requests[r].password \in Passwords /\ requests[r].browser \in Browsers
      BY <2>1 DEF PasswordTask
    <2>3. account \in Account
      BY <2>1, <2>2, Rows
    <2>4. Write(u, account)
          /\ \/ cookies' = [cookies EXCEPT ![requests[r].browser] = SessionOf(u, account)]
             \/ cookies' = cookies
      BY <1>5 DEF FinishPassword
    <2>5. accounts'[u] = account
      BY <2>1, <2>3, <2>4, Written
    <2> HIDE DEF u, account
    <2> QED
      BY <1>2, <1>3, <2>1, <2>2, <2>3, <2>4, <2>5
  <1> QED
    BY <1>3, <1>4, <1>5, CookieSteps

\* A copy an administrator saw keeps to its account.
LEMMA DraftGrown ==
    ASSUME Inv, Next, NEW d \in Draft, DraftAgrees(d)
    PROVE  /\ accounts'[d.user] # None /\ d.version <= accounts'[d.user].version
           /\ d.version = accounts'[d.user].version =>
                /\ d.active = accounts'[d.user].active
                /\ d.elevated = accounts'[d.user].elevated
  <1>1. Grown /\ accounts' \in [Users -> {None} \cup Account]
    BY AccountsGrow
  <1>2. d.user \in Users /\ d.version \in Nat
    BY DEF Draft
  <1>3. Exists(d.user) /\ accounts[d.user] \in Account /\ accounts'[d.user] \in Account
    BY <1>1, <1>2 DEF Inv, TypeOK, DraftAgrees, Copies, Exists, Grown
  <1>4. accounts[d.user].version \in Nat /\ accounts'[d.user].version \in Nat
    BY <1>3 DEF Account
  <1> QED
    BY <1>1, <1>2, <1>3, <1>4 DEF DraftAgrees, Copies, Grown

\* So do the editors.
LEMMA DraftsStep ==
    ASSUME Inv, Next
    PROVE  DraftsAgree' /\ drafts' \in [Admins -> {None} \cup Draft]
  <1> USE DEF Inv
  <1>1. ASSUME NEW a \in Admins, drafts[a] # None, drafts'[a] = drafts[a]
        PROVE  DraftAgrees(drafts[a])'
    <2>1. drafts[a] \in Draft /\ DraftAgrees(drafts[a])
      BY <1>1 DEF TypeOK, DraftsAgree
    <2>2. /\ accounts'[drafts[a].user] # None
          /\ drafts[a].version <= accounts'[drafts[a].user].version
          /\ drafts[a].version = accounts'[drafts[a].user].version =>
                /\ drafts[a].active = accounts'[drafts[a].user].active
                /\ drafts[a].elevated = accounts'[drafts[a].user].elevated
      BY <2>1, DraftGrown
    <2> QED
      BY <1>1, <2>2 DEF DraftAgrees, Copies, Exists
  <1>2. CASE UNCHANGED drafts
    BY <1>1, <1>2 DEF TypeOK, DraftsAgree
  <1>3. ASSUME NEW a \in Admins, NEW u \in Users, OpenDraft(a, u)
        PROVE  DraftsAgree' /\ drafts' \in [Admins -> {None} \cup Draft]
    <2> DEFINE d == [user |-> u, version |-> accounts[u].version,
                     elevated |-> accounts[u].elevated, active |-> accounts[u].active]
    <2>1. accounts[u] \in Account /\ Exists(u) /\ accounts' = accounts
      BY <1>3 DEF TypeOK, OpenDraft, CanEditUser, Exists
    <2>2. d \in Draft /\ d.version <= d.version
      BY <2>1 DEF Draft, Account
    <2>3. drafts' = [drafts EXCEPT ![a] = d]
      BY <1>3 DEF OpenDraft
    <2>4. /\ drafts' \in [Admins -> {None} \cup Draft]
          /\ drafts'[a] = d /\ \A b \in Admins \ {a} : drafts'[b] = drafts[b]
      BY <2>2, <2>3 DEF TypeOK
    <2>5. DraftAgrees(drafts[a])'
      BY <2>1, <2>2, <2>4 DEF DraftAgrees, Copies, Exists
    <2> QED
      BY <1>1, <2>4, <2>5 DEF DraftsAgree
  <1>4. ASSUME NEW a \in Admins, drafts' = [drafts EXCEPT ![a] = None]
        PROVE  DraftsAgree' /\ drafts' \in [Admins -> {None} \cup Draft]
    <2>1. /\ drafts' \in [Admins -> {None} \cup Draft]
          /\ drafts'[a] = None /\ \A b \in Admins \ {a} : drafts'[b] = drafts[b]
      BY <1>4 DEF TypeOK
    <2> QED
      BY <1>1, <2>1 DEF DraftsAgree
  <1>5. ASSUME NEW r \in Requests, FinishSave(r)
        PROVE  DraftsAgree' /\ drafts' \in [Admins -> {None} \cup Draft]
    <2>1. requests[r] \in SaveTask
      BY <1>5, Shape DEF FinishSave, At
    <2>2. requests[r].admin \in Admins
      BY <2>1 DEF SaveTask
    <2>3. drafts' = [drafts EXCEPT ![requests[r].admin] = None]
      BY <1>5 DEF FinishSave
    <2> QED
      BY <1>4, <2>2, <2>3
  <1> QED
    BY <1>2, <1>3, <1>4, <1>5, DraftSteps DEF CloseDraft

-----------------------------------------------------------------------------
(* Requests                                                                *)

\* Nothing else changes the account a save holds.
LEMMA HeldStays ==
    ASSUME Inv, Next, NEW r \in Requests, At(r, "save", "locked"), requests'[r] = requests[r]
    PROVE  accounts'[requests[r].user] = accounts[requests[r].user]
  <1> USE DEF Inv
  <1>0. HoldsAccount(r, requests[r].user) /\ Exists(requests[r].user)
        /\ requests[r].user \in Users
    BY Shape DEF At, HoldsAccount, RequestsAgree
  <1>1. ASSUME NEW q \in Requests, Answer(q), requests[q] # None
        PROVE  q # r
    BY <1>1, AnswerShape DEF At
  <1>2. ASSUME NEW a \in Admins, NEW u \in Users, Create(a, u)
        PROVE  accounts'[requests[r].user] = accounts[requests[r].user]
    BY <1>0, <1>2 DEF Create, Write, Exists
  <1>3. ASSUME NEW q \in Requests, FinishSave(q) \/ FinishProfile(q) \/ FinishPassword(q)
        PROVE  accounts'[requests[r].user] = accounts[requests[r].user]
    <2>1. Answer(q) /\ requests[q] # None /\ HoldsAccount(q, requests[q].user)
      BY <1>3 DEF FinishSave, FinishProfile, FinishPassword, At, HoldsAccount
    <2>2. requests[q].user # requests[r].user
      BY <1>0, <1>1, <2>1 DEF OneHolder
    <2>3. \E account : Write(requests[q].user, account)
      BY <1>3 DEF FinishSave, FinishProfile, FinishPassword
    <2> QED
      BY <1>0, <2>2, <2>3 DEF Write, TypeOK
  <1>4. ASSUME NEW q \in Requests, FinishDelete(q) \/ FinishReset(q)
        PROVE  accounts'[requests[r].user] = accounts[requests[r].user]
    <2>1. AccountFree(requests[q].user)
      BY <1>4 DEF FinishDelete, FinishReset
    <2>2. requests[q].user # requests[r].user
      BY <1>0, <2>1 DEF AccountFree
    <2>3. \E account : Write(requests[q].user, account)
      BY <1>4 DEF FinishDelete, FinishReset
    <2> QED
      BY <1>0, <2>2, <2>3 DEF Write, TypeOK
  <1> QED
    BY <1>2, <1>3, <1>4, AccountSteps

RequestAgrees(r) ==
    /\ Exists(requests[r].user)
    /\ requests[r].kind = "save" => SaveAgrees(requests[r])

\* A request that a step leaves alone, or that it moves without locking, keeps to its account.
LEMMA KeptAgrees ==
    ASSUME Inv, Next, NEW r \in Requests, requests[r] # None,
           requests'[r].user = requests[r].user, requests'[r].kind = requests[r].kind,
           requests[r].kind = "save" =>
                /\ requests'[r].version = requests[r].version
                /\ requests'[r].admin = requests[r].admin
                /\ requests'[r].shown = requests[r].shown
                /\ requests'[r].stage = "locked" =>
                        accounts'[requests[r].user].version = requests[r].version
    PROVE  RequestAgrees(r)'
  <1> USE DEF Inv
  <1>1. Grown /\ requests[r].user \in Users /\ Exists(requests[r].user)
    BY Shape, AccountsGrow DEF RequestsAgree
  <1>2. accounts'[requests[r].user] # None
    BY <1>1 DEF Grown
  <1>3. CASE requests[r].kind # "save"
    BY <1>2, <1>3 DEF RequestAgrees, Exists
  <1>4. CASE requests[r].kind = "save"
    <2>1. requests[r] \in SaveTask /\ SaveAgrees(requests[r])
      BY <1>4, Shape DEF RequestsAgree
    <2>2. requests[r].shown \in Draft /\ DraftAgrees(requests[r].shown)
      BY <2>1 DEF SaveTask, SaveAgrees
    <2> DEFINE d == requests[r].shown
    <2>3. /\ accounts'[d.user] # None /\ d.version <= accounts'[d.user].version
          /\ d.version = accounts'[d.user].version =>
                /\ d.active = accounts'[d.user].active
                /\ d.elevated = accounts'[d.user].elevated
      BY <2>2, DraftGrown
    <2>4. d.user = requests[r].user /\ d.version = requests[r].version
          /\ CanDelegate(requests[r].admin, d.elevated)
      BY <2>1 DEF SaveAgrees
    <2>5. requests'[r].shown = d
      BY <1>4
    <2> HIDE DEF d
    <2> QED
      BY <1>2, <1>4, <2>3, <2>4, <2>5
      DEF RequestAgrees, SaveAgrees, DraftAgrees, Copies, Exists, CanDelegate
  <1> QED
    BY <1>3, <1>4

\* One left alone.
LEMMA StillAgrees ==
    ASSUME Inv, Next, NEW r \in Requests, requests[r] # None, requests'[r] = requests[r]
    PROVE  RequestAgrees(r)'
  <1>1. requests[r].kind = "save" /\ requests[r].stage = "locked" =>
            accounts'[requests[r].user].version = requests[r].version
    BY HeldStays DEF Inv, RequestsAgree, SaveAgrees, At
  <1> QED
    BY <1>1, KeptAgrees

RequestsFine ==
    requests \in [Requests -> {None} \cup Task] /\ RequestsAgree /\ OneHolder

\* A request arrives, not yet holding an account.
LEMMA Sent ==
    ASSUME Inv, Next, UNCHANGED accounts, NEW r \in Requests, NEW task \in Task, Send(r, task),
           task.stage # "locked" \/ task.kind = "reset",
           Exists(task.user), task.kind = "save" => SaveAgrees(task)
    PROVE  RequestsFine'
  <1> USE DEF Inv
  <1>1. /\ requests' \in [Requests -> {None} \cup Task]
        /\ requests[r] = None /\ requests'[r] = task
        /\ \A q \in Requests \ {r} : requests'[q] = requests[q]
    BY SendShape
  <1>2. RequestAgrees(r)'
    BY <1>1 DEF RequestAgrees, SaveAgrees, DraftAgrees, Copies, Exists
  <1>3. RequestsAgree'
    BY <1>1, <1>2, StillAgrees DEF RequestsAgree, RequestAgrees
  <1>4. OneHolder'
    BY <1>1 DEF OneHolder, HoldsAccount
  <1> QED
    BY <1>1, <1>3, <1>4 DEF RequestsFine

\* A request moves on; it locks only an account that is free.
LEMMA Moved ==
    ASSUME Inv, Next, UNCHANGED accounts, NEW r \in Requests, requests[r] # None,
           NEW stage \in Stages, Move(r, stage),
           stage = "locked" => AccountFree(requests[r].user),
           stage = "locked" /\ requests[r].kind = "save" =>
                accounts[requests[r].user].version = requests[r].version
    PROVE  RequestsFine'
  <1> USE DEF Inv
  <1>1. /\ requests' \in [Requests -> {None} \cup Task]
        /\ requests'[r] # None
        /\ requests'[r].stage = stage
        /\ requests'[r].kind = requests[r].kind
        /\ requests'[r].user = requests[r].user
        /\ requests[r].kind = "save" =>
                /\ requests'[r].version = requests[r].version
                /\ requests'[r].admin = requests[r].admin
                /\ requests'[r].shown = requests[r].shown
        /\ \A q \in Requests \ {r} : requests'[q] = requests[q]
    BY MoveShape
  <1>2. RequestAgrees(r)'
    BY <1>1, KeptAgrees
  <1>3. RequestsAgree'
    BY <1>1, <1>2, StillAgrees DEF RequestsAgree, RequestAgrees
  <1>4. OneHolder'
    BY <1>1 DEF OneHolder, HoldsAccount, AccountFree
  <1> QED
    BY <1>1, <1>3, <1>4 DEF RequestsFine

\* A request is over.
LEMMA Answered ==
    ASSUME Inv, Next, NEW r \in Requests, Answer(r)
    PROVE  RequestsFine'
  <1> USE DEF Inv
  <1>1. /\ requests' \in [Requests -> {None} \cup Task]
        /\ requests'[r] = None
        /\ \A q \in Requests \ {r} : requests'[q] = requests[q]
    BY AnswerShape
  <1>2. RequestsAgree'
    BY <1>1, StillAgrees DEF RequestsAgree, RequestAgrees
  <1>3. OneHolder'
    BY <1>1 DEF OneHolder, HoldsAccount
  <1> QED
    BY <1>1, <1>2, <1>3 DEF RequestsFine

\* Requests in general.
LEMMA RequestsStep ==
    ASSUME Inv, Next
    PROVE  RequestsFine'
  <1> USE DEF Inv
  <1>0. \A u \in Users : Exists(u) =>
            /\ accounts[u] \in Account
            /\ accounts[u].version \in Nat /\ accounts[u].email \in Emails
            /\ accounts[u].elevated \in BOOLEAN /\ accounts[u].active \in BOOLEAN
    BY DEF TypeOK, Exists, Account
  <1>1. CASE UNCHANGED requests
    BY <1>1, StillAgrees DEF TypeOK, RequestsFine, RequestsAgree, RequestAgrees, OneHolder,
       HoldsAccount
  <1>2. ASSUME NEW r \in Requests, NEW a \in Admins, BeginSave(a, r)
        PROVE  RequestsFine'
    <2>1. PICK e \in Emails, x \in BOOLEAN, y \in BOOLEAN :
            Send(r, [kind |-> "save", stage |-> "read", user |-> drafts[a].user,
                    version |-> drafts[a].version, admin |-> a, email |-> e,
                    elevated |-> x, active |-> y, shown |-> drafts[a]])
      BY <1>2 DEF BeginSave
    <2> DEFINE task == [kind |-> "save", stage |-> "read", user |-> drafts[a].user,
                    version |-> drafts[a].version, admin |-> a, email |-> e,
                    elevated |-> x, active |-> y, shown |-> drafts[a]]
    <2>2. drafts[a] \in Draft /\ DraftAgrees(drafts[a])
      BY <1>2 DEF BeginSave, TypeOK, DraftsAgree
    <2>3. task \in SaveTask
      BY <2>2 DEF SaveTask, Stages, Draft
    <2>4. task \in Task
      BY <2>3 DEF Task
    <2>5. CanDelegate(a, drafts[a].elevated)
      <3>1. /\ accounts[drafts[a].user].version = drafts[a].version
            /\ CanDelegate(a, accounts[drafts[a].user].elevated)
        BY <1>2 DEF BeginSave, MaySave
      <3>2. drafts[a].elevated = accounts[drafts[a].user].elevated
        BY <2>2, <3>1 DEF DraftAgrees
      <3> QED
        BY <3>1, <3>2
    <2>6. SaveAgrees(task) /\ Exists(task.user)
      BY <2>2, <2>5 DEF SaveAgrees, DraftAgrees, Copies
    <2>7. UNCHANGED accounts
      BY <1>2 DEF BeginSave
    <2>8. task.stage # "locked"
      OBVIOUS
    <2>9. Send(r, task)
      BY <2>1
    <2> HIDE DEF task
    <2> QED
      BY <2>4, <2>6, <2>7, <2>8, <2>9, Sent
  <1>3. ASSUME NEW r \in Requests, NEW a \in Admins, NEW u \in Users, BeginDelete(a, u, r)
        PROVE  RequestsFine'
    <2> DEFINE task == [kind |-> "delete", stage |-> "read", user |-> u,
                        version |-> accounts[u].version]
    <2>1. Send(r, task) /\ Exists(u) /\ UNCHANGED accounts
      BY <1>3 DEF BeginDelete, CanEditUser
    <2>2. task \in DeleteTask
      BY <1>0, <2>1 DEF DeleteTask, Stages
    <2>3. task \in Task /\ task.stage # "locked" /\ task.kind # "save" /\ task.user = u
      BY <2>2 DEF Task
    <2> HIDE DEF task
    <2> QED
      BY <2>1, <2>3, Sent
  <1>4. ASSUME NEW r \in Requests, NEW u \in Users, BeginMail(u, r)
        PROVE  RequestsFine'
    <2> DEFINE task == [kind |-> "mail", stage |-> "read", user |-> u,
                        version |-> accounts[u].version, email |-> accounts[u].email]
    <2>1. Send(r, task) /\ Exists(u) /\ UNCHANGED accounts
      BY <1>4 DEF BeginMail
    <2>2. task \in MailTask
      BY <1>0, <2>1 DEF MailTask, Stages
    <2>3. task \in Task /\ task.stage # "locked" /\ task.kind # "save" /\ task.user = u
      BY <2>2 DEF Task
    <2> HIDE DEF task
    <2> QED
      BY <2>1, <2>3, Sent
  <1>5. ASSUME NEW r \in Requests, NEW b \in Browsers, SendProfile(b, r)
        PROVE  RequestsFine'
    <2>1. PICK e \in Emails, proof \in {None} \cup Passwords :
            Send(r, [kind |-> "profile", stage |-> "admitted", user |-> cookies[b].user,
                    version |-> 0, browser |-> b, email |-> e, proof |-> proof])
      BY <1>5 DEF SendProfile
    <2> DEFINE task == [kind |-> "profile", stage |-> "admitted", user |-> cookies[b].user,
                    version |-> 0, browser |-> b, email |-> e, proof |-> proof]
    <2>2. LoggedIn(b) /\ UNCHANGED accounts
      BY <1>5 DEF SendProfile
    <2>3. cookies[b].user \in Users /\ Exists(cookies[b].user)
      BY <2>2 DEF LoggedIn, ActiveAt, TypeOK, Session
    <2>4. task \in ProfileTask
      BY <2>3 DEF ProfileTask, Stages
    <2>5. task \in Task /\ task.stage # "locked" /\ task.kind # "save"
          /\ task.user = cookies[b].user
      BY <2>4 DEF Task
    <2>6. Send(r, task)
      BY <2>1
    <2> HIDE DEF task
    <2> QED
      BY <2>2, <2>3, <2>5, <2>6, Sent
  <1>6. ASSUME NEW r \in Requests, NEW b \in Browsers, SendPassword(b, r)
        PROVE  RequestsFine'
    <2>1. PICK old \in Passwords, new \in Passwords :
            Send(r, [kind |-> "password", stage |-> "admitted", user |-> cookies[b].user,
                    version |-> 0, browser |-> b, password |-> new, proof |-> old])
      BY <1>6 DEF SendPassword
    <2> DEFINE task == [kind |-> "password", stage |-> "admitted", user |-> cookies[b].user,
                    version |-> 0, browser |-> b, password |-> new, proof |-> old]
    <2>2. LoggedIn(b) /\ UNCHANGED accounts
      BY <1>6 DEF SendPassword
    <2>3. cookies[b].user \in Users /\ Exists(cookies[b].user)
      BY <2>2 DEF LoggedIn, ActiveAt, TypeOK, Session
    <2>4. task \in PasswordTask
      BY <2>3 DEF PasswordTask, Stages
    <2>5. task \in Task /\ task.stage # "locked" /\ task.kind # "save"
          /\ task.user = cookies[b].user
      BY <2>4 DEF Task
    <2>6. Send(r, task)
      BY <2>1
    <2> HIDE DEF task
    <2> QED
      BY <2>2, <2>3, <2>5, <2>6, Sent
  <1>7. ASSUME NEW r \in Requests, NEW k \in Links, NEW p \in Passwords, LockReset(k, p, r)
        PROVE  RequestsFine'
    <2> DEFINE task == [kind |-> "reset", stage |-> "locked", user |-> tokens[k].user,
                version |-> tokens[k].version, link |-> k, password |-> p]
    <2>1. Send(r, task) /\ Live(k) /\ UNCHANGED accounts
      BY <1>7 DEF LockReset
    <2>2. tokens[k] \in Token /\ Exists(tokens[k].user)
      BY <2>1 DEF Live, TypeOK, TokensAgree, Copies
    <2>3. task \in ResetTask
      BY <2>2 DEF ResetTask, Stages, Token
    <2>4. task \in Task /\ task.kind = "reset" /\ task.user = tokens[k].user
      BY <2>3 DEF Task
    <2> HIDE DEF task
    <2> QED
      BY <2>1, <2>2, <2>4, Sent
  <1>8. ASSUME NEW r \in Requests, LockSave(r) \/ LockProfile(r) \/ LockPassword(r) \/ LockMail(r)
        PROVE  RequestsFine'
    <2>1. /\ requests[r] # None /\ Move(r, "locked") /\ AccountFree(requests[r].user)
          /\ UNCHANGED accounts
      BY <1>8 DEF LockSave, LockProfile, LockPassword, LockMail, At
    <2>2. requests[r].kind = "save" => accounts[requests[r].user].version = requests[r].version
      BY <1>8 DEF LockSave, LockProfile, LockPassword, LockMail, At
    <2> QED
      BY <2>1, <2>2, Moved DEF Stages
  <1>9. ASSUME NEW r \in Requests, ReadPassword(r)
        PROVE  RequestsFine'
    BY <1>9, Moved DEF ReadPassword, At, Stages
  <1>10. ASSUME NEW r \in Requests, ReadProfile(r)
         PROVE  RequestsFine'
    <2> DEFINE task == [kind |-> "profile", stage |-> "read", user |-> requests[r].user,
                 version |-> accounts[requests[r].user].version,
                 browser |-> requests[r].browser,
                 email |-> requests[r].email, proof |-> requests[r].proof]
    <2>1. /\ requests[r] # None /\ requests[r].kind = "profile" /\ UNCHANGED accounts
          /\ requests' = [requests EXCEPT ![r] = task]
      BY <1>10 DEF ReadProfile, At
    <2>2. requests[r] \in ProfileTask /\ Exists(requests[r].user)
      BY <2>1, Shape DEF RequestsAgree
    <2>3. task \in ProfileTask
      BY <1>0, <2>2 DEF ProfileTask, Stages
    <2>4. task \in Task /\ task # None /\ task.kind = "profile" /\ task.stage = "read"
          /\ task.user = requests[r].user
      BY <2>3, NoneAssumption DEF Task
    <2> HIDE DEF task
    <2>5. /\ requests' \in [Requests -> {None} \cup Task]
          /\ requests'[r] = task /\ \A q \in Requests \ {r} : requests'[q] = requests[q]
      BY <2>1, <2>4 DEF TypeOK
    <2>6. RequestAgrees(r)'
      BY <2>1, <2>2, <2>4, <2>5 DEF RequestAgrees, Exists
    <2>7. RequestsAgree'
      BY <2>5, <2>6, StillAgrees DEF RequestsAgree, RequestAgrees
    <2>8. OneHolder'
      BY <2>4, <2>5 DEF OneHolder, HoldsAccount
    <2> QED
      BY <2>5, <2>7, <2>8 DEF RequestsFine
  <1>11. ASSUME NEW r \in Requests,
                \/ FinishSave(r) \/ FinishDelete(r) \/ FinishProfile(r) \/ FinishPassword(r)
                \/ FinishReset(r) \/ Fail(r) \/ \E k \in Links : FinishMail(r, k)
         PROVE  RequestsFine'
    BY <1>11, Answered
       DEF FinishSave, FinishDelete, FinishProfile, FinishPassword, FinishReset, Fail, FinishMail
  <1>12. ASSUME \/ \E a \in Admins, u \in Users : Create(a, u) \/ OpenDraft(a, u)
                \/ \E a \in Admins : CloseDraft(a)
                \/ \E b \in Browsers : LoadProfile(b)
                \/ \E b \in Browsers, u \in Users, p \in Passwords : Login(b, u, p)
                \/ \E k \in Links : ExpireLink(k)
         PROVE  UNCHANGED requests
    BY <1>12 DEF Create, OpenDraft, CloseDraft, LoadProfile, Login, ExpireLink
  <1> QED
    BY <1>1, <1>2, <1>3, <1>4, <1>5, <1>6, <1>7, <1>8, <1>9, <1>10, <1>11, <1>12
    DEF Next, AdminReset, Forgot

-----------------------------------------------------------------------------
(* Tokens                                                                  *)

\* A token that stays live does so with the email of its version.
EmailsKept ==
    \A k \in Links :
        /\ Live(k) /\ tokens'[k] = tokens[k]
        /\ accounts'[tokens[k].user].version = accounts[tokens[k].user].version
        => accounts'[tokens[k].user].email = accounts[tokens[k].user].email

\* Nothing but a spent row says Spent.
LEMMA LiveToken ==
    ASSUME TypeOK, NEW k \in Links, Live(k)
    PROVE  tokens[k] \in Token /\ tokens[k].user \in Users /\ tokens[k].version \in Nat
  BY DEF TypeOK, Live, Token

\* One token keeps to its account.
LEMMA TokenStays ==
    ASSUME Inv, Next, EmailsKept, NEW k \in Links, Live(k), tokens'[k] = tokens[k]
    PROVE  /\ accounts'[tokens[k].user] # None
           /\ tokens[k].version <= accounts'[tokens[k].user].version
           /\ tokens[k].version = accounts'[tokens[k].user].version =>
                /\ tokens[k].to = accounts'[tokens[k].user].email
                /\ tokens[k].password = accounts'[tokens[k].user].password
  <1> DEFINE u == tokens[k].user
  <1>1. Grown /\ accounts' \in [Users -> {None} \cup Account]
    BY AccountsGrow
  <1>2. u \in Users /\ tokens[k].version \in Nat
    BY LiveToken DEF Inv
  <1>3. /\ Exists(u) /\ tokens[k].version <= accounts[u].version
        /\ tokens[k].version = accounts[u].version =>
                tokens[k].to = accounts[u].email /\ tokens[k].password = accounts[u].password
    BY DEF Inv, TokensAgree, Copies
  <1>4. accounts[u] \in Account /\ accounts'[u] # None /\ accounts'[u] \in Account
    BY <1>1, <1>2, <1>3 DEF Inv, TypeOK, Exists, Grown
  <1>5. accounts[u].version \in Nat /\ accounts'[u].version \in Nat
    BY <1>4 DEF Account
  <1>6. /\ accounts[u].version <= accounts'[u].version
        /\ accounts[u].version = accounts'[u].version =>
                /\ accounts'[u].password = accounts[u].password
                /\ accounts'[u].email = accounts[u].email
    BY <1>1, <1>2, <1>3 DEF Grown, EmailsKept
  <1> HIDE DEF u
  <1> QED
    BY <1>2, <1>3, <1>4, <1>5, <1>6 DEF u

\* Tokens that are only spent agree as before.
LEMMA TokensShrink ==
    ASSUME Inv, Next, EmailsKept, tokens' \in [Links -> {None, Spent} \cup Token],
           \A k \in Links : tokens'[k] = tokens[k] \/ tokens'[k] = Spent
    PROVE  TokensAgree'
  <1>1. ASSUME NEW k \in Links, Live(k)'
        PROVE  Live(k) /\ tokens'[k] = tokens[k]
    BY <1>1 DEF Live
  <1>2. ASSUME NEW k \in Links, Live(k)'
        PROVE  /\ Copies(tokens[k].version, tokens[k].user)'
               /\ tokens'[k].version = accounts'[tokens'[k].user].version =>
                    /\ tokens'[k].to = accounts'[tokens'[k].user].email
                    /\ tokens'[k].password = accounts'[tokens'[k].user].password
    BY <1>1, <1>2, TokenStays DEF Copies, Exists
  <1>3. ASSUME NEW k \in Links, Live(k)', NEW l \in Links, Live(l)',
               tokens'[l].user = tokens'[k].user
        PROVE  l = k
    BY <1>1, <1>3 DEF Inv, TokensAgree
  <1> QED
    BY <1>2, <1>3 DEF TokensAgree

\* Revocation spends the tokens of one account.
LEMMA RevokedShape ==
    ASSUME TypeOK, NEW u \in Users, tokens' = Revoked(u)
    PROVE  /\ tokens' \in [Links -> {None, Spent} \cup Token]
           /\ \A k \in Links : tokens'[k] = tokens[k] \/ tokens'[k] = Spent
           /\ \A k \in Links : Live(k) /\ tokens'[k] = tokens[k] => tokens[k].user # u
  BY DEF TypeOK, Revoked, Live

\* A write with the tokens of its account revoked.
LEMMA WriteRevoking ==
    ASSUME Inv, Next, NEW u \in Users, NEW account \in Account, Write(u, account),
           tokens' = Revoked(u)
    PROVE  TokensAgree' /\ tokens' \in [Links -> {None, Spent} \cup Token]
  <1>1. EmailsKept
    BY RevokedShape, LiveToken DEF Inv, TypeOK, Write, EmailsKept
  <1> QED
    BY <1>1, RevokedShape, TokensShrink DEF Inv

\* A write that leaves the tokens, and the email unless it moves the version on.
LEMMA WriteKeeping ==
    ASSUME Inv, Next, NEW u \in Users, NEW account \in Account, Write(u, account),
           UNCHANGED tokens,
           Exists(u) /\ account.version = accounts[u].version => account.email = accounts[u].email
    PROVE  TokensAgree' /\ tokens' \in [Links -> {None, Spent} \cup Token]
  <1>1. \A k \in Links : Live(k) => tokens[k].user \in Users /\ Exists(tokens[k].user)
    BY LiveToken DEF Inv, TokensAgree, Copies
  <1>2. accounts'[u] = account /\ \A other \in Users \ {u} : accounts'[other] = accounts[other]
    BY Written DEF Inv
  <1>3. EmailsKept
    BY <1>1, <1>2 DEF EmailsKept
  <1> QED
    BY <1>3, TokensShrink DEF Inv, TypeOK

\* Tokens in general.
LEMMA TokensStep ==
    ASSUME Inv, Next
    PROVE  TokensAgree' /\ tokens' \in [Links -> {None, Spent} \cup Token]
  <1> DEFINE Result == TokensAgree' /\ tokens' \in [Links -> {None, Spent} \cup Token]
  <1> USE DEF Inv
  <1>1. ASSUME UNCHANGED accounts, NEW k \in Links, ExpireLink(k)
        PROVE  Result
    <2>1. /\ tokens' \in [Links -> {None, Spent} \cup Token]
          /\ \A l \in Links : tokens'[l] = tokens[l] \/ tokens'[l] = Spent
      BY <1>1 DEF ExpireLink, TypeOK
    <2>2. EmailsKept
      BY <1>1 DEF EmailsKept
    <2> QED
      BY <2>1, <2>2, TokensShrink
  <1>2. ASSUME UNCHANGED <<accounts, tokens>>
        PROVE  Result
    <2>1. EmailsKept
      BY <1>2 DEF EmailsKept
    <2> QED
      BY <1>2, <2>1, TokensShrink DEF TypeOK
  <1>3. ASSUME NEW a \in Admins, NEW u \in Users, Create(a, u)
        PROVE  Result
    <2>1. PICK e \in Emails, p \in Passwords, x \in BOOLEAN, y \in BOOLEAN :
            Write(u, [email |-> e, password |-> p, elevated |-> x, active |-> y, version |-> 1])
      BY <1>3 DEF Create
    <2>2. [email |-> e, password |-> p, elevated |-> x, active |-> y, version |-> 1] \in Account
      BY DEF Account
    <2>3. ~Exists(u) /\ UNCHANGED tokens
      BY <1>3 DEF Create
    <2> QED
      BY <2>1, <2>2, <2>3, WriteKeeping
  <1>4. ASSUME NEW r \in Requests, FinishSave(r)
        PROVE  Result
    <2> DEFINE u == requests[r].user
               account == Saved(u, requests[r].email, requests[r].elevated, requests[r].active)
    <2>1. requests[r] \in SaveTask /\ Exists(u) /\ u \in Users
      BY <1>4, Shape DEF FinishSave, At, RequestsAgree
    <2>2. requests[r].email \in Emails /\ requests[r].elevated \in BOOLEAN
          /\ requests[r].active \in BOOLEAN
      BY <2>1 DEF SaveTask
    <2>3. account \in Account /\ accounts[u] \in Account
          /\ (account.version = accounts[u].version => account.email = accounts[u].email)
      <3>1. accounts[u] \in Account /\ account \in Account /\ account.email = requests[r].email
            /\ \/ account.version = accounts[u].version + 1
               \/ requests[r].email = accounts[u].email
        BY <2>1, <2>2, Rows
      <3>2. accounts[u].version \in Nat
        BY <3>1 DEF Account
      <3> QED
        BY <3>1, <3>2
    <2>4. Write(u, account) /\ (tokens' = tokens \/ tokens' = Revoked(u))
      BY <1>4 DEF FinishSave
    <2> HIDE DEF u, account
    <2> QED
      BY <2>1, <2>3, <2>4, WriteKeeping, WriteRevoking
  <1>5. ASSUME NEW r \in Requests, FinishDelete(r)
        PROVE  Result
    <2> DEFINE u == requests[r].user
    <2>1. Exists(u) /\ u \in Users
      BY <1>5, Shape DEF FinishDelete, At, RequestsAgree
    <2>2. Write(u, Deactivated(u)) /\ UNCHANGED tokens
      BY <1>5 DEF FinishDelete
    <2>3. accounts[u] \in Account /\ Deactivated(u) \in Account
          /\ Deactivated(u).version = accounts[u].version + 1
      BY <2>1, Rows
    <2>4. accounts[u].version \in Nat
      BY <2>3 DEF Account
    <2> HIDE DEF u
    <2>5. Deactivated(u).version # accounts[u].version
      BY <2>3, <2>4
    <2> QED
      BY <2>1, <2>2, <2>3, <2>5, WriteKeeping
  <1>6. ASSUME NEW r \in Requests, FinishProfile(r)
        PROVE  Result
    <2> DEFINE u == requests[r].user
               account == WithEmail(u, requests[r].email)
    <2>1. requests[r] \in ProfileTask /\ Exists(u) /\ u \in Users
      BY <1>6, Shape DEF FinishProfile, At, RequestsAgree
    <2>2. requests[r].email \in Emails
      BY <2>1 DEF ProfileTask
    <2>3. account \in Account /\ account.email = requests[r].email
      BY <2>1, <2>2, Rows
    <2>4. Write(u, account)
          /\ \/ requests[r].email = accounts[u].email /\ tokens' = tokens
             \/ tokens' = Revoked(u)
      BY <1>6 DEF FinishProfile
    <2> HIDE DEF u, account
    <2> QED
      BY <2>1, <2>3, <2>4, WriteKeeping, WriteRevoking
  <1>7. ASSUME NEW r \in Requests, FinishPassword(r) \/ FinishReset(r)
        PROVE  Result
    <2> DEFINE u == requests[r].user
               account == WithPassword(u, requests[r].password)
    <2>1. requests[r] \in PasswordTask \cup ResetTask /\ Exists(u) /\ u \in Users
      BY <1>7, Shape DEF FinishPassword, FinishReset, At, RequestsAgree
    <2>2. requests[r].password \in Passwords
      BY <2>1 DEF PasswordTask, ResetTask
    <2>3. account \in Account
      BY <2>1, <2>2, Rows
    <2>4. Write(u, account) /\ tokens' = Revoked(u)
      BY <1>7 DEF FinishPassword, FinishReset
    <2> HIDE DEF u, account
    <2> QED
      BY <2>1, <2>3, <2>4, WriteRevoking
  <1>8. ASSUME NEW r \in Requests, NEW k \in Links, FinishMail(r, k)
        PROVE  Result
    <2> DEFINE u == requests[r].user
               t == [user |-> u, version |-> accounts[u].version,
                     to |-> accounts[u].email, password |-> accounts[u].password]
    <2>1. Exists(u) /\ u \in Users /\ UNCHANGED accounts
      BY <1>8, Shape DEF FinishMail, At, RequestsAgree
    <2>2. accounts[u] \in Account
      BY <2>1 DEF TypeOK, Exists
    <2>3. t \in Token /\ t.user = u /\ t.version = accounts[u].version
          /\ t.to = accounts[u].email /\ t.password = accounts[u].password
      BY <2>1, <2>2 DEF Token, Account
    <2>4. tokens' = [Revoked(u) EXCEPT ![k] = t]
      BY <1>8 DEF FinishMail
    <2>5. /\ tokens' \in [Links -> {None, Spent} \cup Token]
          /\ tokens'[k] = t
          /\ \A l \in Links \ {k} : tokens'[l] = tokens[l] \/ tokens'[l] = Spent
          /\ \A l \in Links \ {k} : Live(l) /\ tokens'[l] = tokens[l] => tokens[l].user # u
      <3>1. Revoked(u) \in [Links -> {None, Spent} \cup Token]
        BY DEF Revoked, TypeOK
      <3> QED
        BY <2>3, <2>4, <3>1 DEF Revoked, Live
    <2>6. EmailsKept
      BY <2>1 DEF EmailsKept
    <2>7. ASSUME NEW l \in Links \ {k}, Live(l)'
          PROVE  Live(l) /\ tokens'[l] = tokens[l]
      BY <2>5, <2>7 DEF Live
    <2>8. accounts[u].version \in Nat
      BY <2>2 DEF Account
    <2>9. /\ Copies(tokens[k].version, tokens[k].user)'
          /\ tokens'[k].to = accounts'[tokens'[k].user].email
          /\ tokens'[k].password = accounts'[tokens'[k].user].password
      BY <2>1, <2>3, <2>5, <2>8 DEF Copies, Exists
    <2>10. ASSUME NEW l \in Links \ {k}, Live(l)'
           PROVE  /\ Copies(tokens[l].version, tokens[l].user)'
                  /\ tokens'[l].version = accounts'[tokens'[l].user].version =>
                        /\ tokens'[l].to = accounts'[tokens'[l].user].email
                        /\ tokens'[l].password = accounts'[tokens'[l].user].password
      BY <2>6, <2>7, <2>10, TokenStays DEF Copies, Exists
    <2>11. ASSUME NEW l \in Links, Live(l)', NEW m \in Links, Live(m)',
                  tokens'[m].user = tokens'[l].user
           PROVE  m = l
      <3>1. l # k => tokens'[l].user # u
        BY <2>5, <2>7, <2>11
      <3>2. m # k => tokens'[m].user # u
        BY <2>5, <2>7, <2>11
      <3>3. tokens'[k].user = u
        BY <2>3, <2>5
      <3>4. CASE l # k /\ m # k
        BY <2>7, <2>11, <3>4 DEF TokensAgree
      <3> QED
        BY <2>11, <3>1, <3>2, <3>3, <3>4
    <2> QED
      BY <2>5, <2>9, <2>10, <2>11 DEF TokensAgree
  <1>9. \A k \in Links : ExpireLink(k) => UNCHANGED accounts
    BY DEF ExpireLink
  <1> HIDE DEF Result
  <1>10. Result
    <2>1. CASE UNCHANGED tokens
      BY <2>1, <1>2, <1>3, <1>4, <1>5, <1>6, <1>7, AccountSteps
    <2>2. CASE ~UNCHANGED tokens
      BY <2>2, <1>1, <1>4, <1>6, <1>7, <1>8, <1>9, TokenSteps
    <2> QED
      BY <2>1, <2>2
  <1> QED
    BY <1>10 DEF Result

-----------------------------------------------------------------------------
(* The invariant                                                           *)

\* Pages show emails.
LEMMA PagesStep ==
    ASSUME Inv, Next
    PROVE  pages' \in [Browsers -> {None} \cup Emails]
  <1> USE DEF Inv
  <1>1. CASE UNCHANGED pages
    BY <1>1 DEF TypeOK
  <1>2. ASSUME NEW b \in Browsers, NEW u \in Users, NEW p \in Passwords, Login(b, u, p)
        PROVE  pages' \in [Browsers -> {None} \cup Emails]
    BY <1>2 DEF Login, TypeOK
  <1>3. ASSUME NEW b \in Browsers, LoadProfile(b)
        PROVE  pages' \in [Browsers -> {None} \cup Emails]
    <2>1. cookies[b] \in Session /\ Exists(cookies[b].user)
      BY <1>3 DEF LoadProfile, LoggedIn, ActiveAt, TypeOK
    <2>2. accounts[cookies[b].user].email \in Emails
      BY <2>1 DEF Session, TypeOK, Exists, Account
    <2> QED
      BY <1>3, <2>2 DEF LoadProfile, TypeOK
  <1>4. ASSUME NEW r \in Requests, FinishProfile(r)
        PROVE  pages' \in [Browsers -> {None} \cup Emails]
    <2>1. requests[r] \in ProfileTask
      BY <1>4, Shape DEF FinishProfile, At
    <2>2. requests[r].email \in Emails
      BY <2>1 DEF ProfileTask
    <2> QED
      BY <1>4, <2>2 DEF FinishProfile, TypeOK
  <1> QED
    BY <1>1, <1>2, <1>3, <1>4, PageSteps

\* Nothing is there at first.
LEMMA InvInit ==
    ASSUME Init
    PROVE  Inv
  BY DEF Init, Inv, TypeOK, TokensAgree, Live, CookiesAgree, DraftsAgree, RequestsAgree,
         OneHolder, HoldsAccount

\* Every step keeps the invariant.
LEMMA InvStep ==
    ASSUME Inv, [Next]_vars
    PROVE  Inv'
  <1>1. CASE Next
    BY <1>1, AccountsGrow, CookiesStep, DraftsStep, RequestsStep, TokensStep, PagesStep
    DEF Inv, TypeOK, RequestsFine
  <1>2. CASE UNCHANGED vars
    <2>1. /\ accounts' = accounts /\ tokens' = tokens /\ cookies' = cookies /\ pages' = pages
          /\ drafts' = drafts /\ requests' = requests
      BY <1>2 DEF vars
    <2> QED
      BY <2>1 DEF Inv, TypeOK, TokensAgree, Live, CookiesAgree, DraftsAgree, DraftAgrees,
         RequestsAgree, SaveAgrees, OneHolder, HoldsAccount, Copies, Exists
  <1> QED
    BY <1>1, <1>2

\* The invariant holds throughout.
LEMMA Invariance == Spec => []Inv
  BY InvInit, InvStep, PTL DEF Spec

\* Every variable keeps to its type: an account always has an email, a password and a
\* version, whatever order its changes commit in.
THEOREM AccountsTypeCorrect == Spec => []TypeOK
  <1>1. Inv => TypeOK
    BY DEF Inv
  <1> QED
    BY <1>1, Invariance, PTL

\* No order of mails, resets, password changes, saves and deactivations leaves a link that
\* sets a password other than the last one mailed, for the account as it now is
\* (consumePasswordResetToken).
THEOREM AccountsUsableLinks == Spec => []UsableLinks
  <1>1. Inv => UsableLinks
    BY DEF Inv, UsableLinks, Usable, TokensAgree, ActiveAt
  <1> QED
    BY <1>1, Invariance, PTL

\* A session that still counts has the account's password and roles (the check of
\* auth_version in the authenticator).
THEOREM AccountsSessionsEnd == Spec => []SessionsEnd
  <1>1. Inv => SessionsEnd
    BY DEF Inv, SessionsEnd, LoggedIn, CookiesAgree, ActiveAt
  <1> QED
    BY <1>1, Invariance, PTL

\* A save that holds its row changes what its editor showed (updateLocalUser).
THEOREM AccountsSavesWhatItSaw == Spec => []SavesWhatItSaw
  <1>1. Inv => SavesWhatItSaw
    <2> SUFFICES ASSUME Inv, NEW r \in Requests, At(r, "save", "locked")
                 PROVE  LET account == accounts[requests[r].user] IN
                        /\ account.active = requests[r].shown.active
                        /\ account.elevated = requests[r].shown.elevated
                        /\ CanDelegate(requests[r].admin, account.elevated)
      BY DEF SavesWhatItSaw
    <2>1. SaveAgrees(requests[r]) /\ requests[r].stage = "locked"
      BY DEF Inv, RequestsAgree, At
    <2>2. /\ accounts[requests[r].user].active = requests[r].shown.active
          /\ accounts[requests[r].user].elevated = requests[r].shown.elevated
      BY <2>1 DEF SaveAgrees, DraftAgrees
    <2>3. CanDelegate(requests[r].admin, requests[r].shown.elevated)
      BY <2>1 DEF SaveAgrees
    <2> QED
      BY <2>2, <2>3
  <1> QED
    BY <1>1, Invariance, PTL

=============================================================================
