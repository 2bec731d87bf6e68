# The OpAMP control plane in TLA+

This directory keeps TLA+ models of the control plane next to its code, the TLC
configurations that check them, and proofs that TLAPS checks. `src/` is the
repository. Every definition that models code says so in `PROJECT.json`
("map"), with the lines it stands for.

    tlc -workers 2 -config ConfigJournal_java.cfg MCConfigJournal.tla
    tlapm ConfigJournal_proofs.tla

## The system

One Go process (`src/cmd/server`, one replica in the Helm chart) with a
PostgreSQL database, a web console, and many agents: Java agents with an
extension, and OpenTelemetry Collectors. Agents poll it by HTTP (OpAMP over
WebSocket is rejected by `opampRequestMiddleware`), so the server never
initiates anything: what it wants an agent to have travels in the response to
the agent's next message.

Operators publish versioned configurations: Java policies (instrumentation rules,
delivered together as one *PolicySet*) and Collector configurations (one document
each). A selector says which agents a configuration is for.

| Component | State | Operations | What makes it correct |
|---|---|---|---|
| Configuration journal (`main.go` 1746-2112, `store.go` 790-984) | `control_plane_configs` (append-only, versions per id), its copy `state.Configs`, `policyLifecycleMu`, `securityPolicyMu` | publish, roll back, deactivate; load at startup | rows tell the truth about the row they replace; memory serves the newest version; constraints between policies survive concurrent publication |
| Security denylist (`main.go` 1713-1733, `store.go` 1360-1399) | one row, `securityPolicyMu` | replace | no active policy captures what it bans |
| Policy validation (`main.go` 2086-4240, `policy_*.go`) | none | check one document, and the document against the set | the set stays composable, metric names have one owner |
| OpAMP messages and inventory (`main.go` 502-810, 1633-1740) | `state.Agents`, `UIDs`, `PollOffers`, capacity 4096 | first message, heartbeat, report, eviction, connection settings offer | inventory bounded, live agents never evicted, offers made once |
| Delivery (`main.go` 690-1030, 1287-1400) | status and acknowledged hash per agent | decide whether to offer, note a report, push after a publication | agents converge to the newest set; APPLIED means applied |
| Agent and deployment persistence (`main.go` 2621-2760, `store.go` 1053-1330) | two bounded queues, two tables | queue or drop, worker writes, delete evicted, prune | rows never go back in time |
| Selectors (`main.go` 1396-1444, 4730-4743) | none | match, may overlap | overlap is never missed |
| Deployment coverage (`main.go` 2183-2619) | none (view) | merge deployment rows with live agents | a superseded row is never shown as applied |
| Local identity (`identity*.go`) | users, `auth_version`, reset tokens | login, reset, change, disable | one use per token, old sessions die, no save over what its editor did not show |
| Authentication providers (`auth.go`, `saml_auth.go`) | providers in memory and database, SAML flows, identity cache | update, preflight, delete, sign in | memory follows the database; what is offered was probed; a secret stays with its client |
| Email settings (`mail*.go`) | one row with a revision | save, test, send | optimistic revision |
| Collector validator (`collector_validation.go`) | a subprocess | validate with a timeout | - |
| Console: policy editor (`main.jsx` 1700-3500, `messaging-editor.jsx`, `telemetry-events.js`) | a policy document, the mode of the editor | form edits, JSON, load a version, publish | metrics keep their rule, the schema covers the features, what the form lets through is accepted |
| Console: shell (`main.jsx` 6300-7917) | identity, draft in memory and in `localStorage`, data shown, list under review | load, poll, login, logout, publish | late answers undo nothing, drafts stay with their owner, data ends up fresh |
| Console: providers, users, profile (`main.jsx` 4300-6250) | drafts of what the server holds | edit, save, reload | no save over what was not seen |
| Network, packaging | none of the running system's | - | - |

How they interact. A publication runs in an HTTP handler: it validates against
memory, commits a row, appends it to memory, decides for each known agent whether
its configuration changed (*push*: it only writes statuses and deployment rows,
since nothing can be sent) and answers. An agent message runs in another handler:
it reads the agent's record under a read lock, works on a copy, writes the copy
back under the write lock, composes the set the agent should have, and decides on
an offer. Both queue records for a worker that writes the database. The state in
memory is guarded by one `RWMutex` that no handler holds from its reads to its
writes; `policyLifecycleMu` orders the lifecycle operations of Java policies and
nothing else.

The console polls the server every 4 s and after each operation. It keeps drafts:
of the policy being edited, of providers, of users. Answers come back in any order
and to a page that may meanwhile belong to somebody else; drafts are sent back to a
server that may meanwhile hold something else. Deployment rows and the live
inventory are merged when the console asks (`GET /deployments`), and the console
counts the result into one status per policy. Local accounts, their reset tokens
and identity providers are changed by handlers that read, check, and then change
in a transaction of their own, without a mutex: an expected stamp or
`auth_version` ties the two together.

What is hard: handlers that check, commit and publish to memory in three steps;
two mutexes and one optimistic check that cover different operations; a Commit
whose reply is lost; a restart between any two steps; requests and responses of
agents that get lost and are repeated; bounded queues that drop; an inventory at
its limit; answers and drafts that are out of date when they are used; long
sequences of edits to a document whose parts refer to each other. `PROJECT.json` lists them as "hazards", each at its line and with the
properties that are there to catch it.

## Modules

| Module | What it is |
|---|---|
| `ConfigJournal` | journal, memory, mutexes and denylist; one action per step of a handler |
| `PolicyLifecycle` | the abstract specification: each lifecycle operation an atomic step on one revision number per policy |
| `PolicyDelivery` | how the set of Java policies reaches an agent: polls, reports, offers, pushes, loss, restart |
| `AgentInventory` | which agents the server knows and what of them reaches the database: limit, displacement, queue, worker, restart |
| `DeploymentCoverage` | extends `PolicyDelivery`: the rows each decision queues, the worker, and the status the console computes from rows and memory |
| `PolicyForm` | the policy editor of the console, and what the server makes of its documents |
| `ConsoleSession` | one tab: loads, polls, login, logout, profile saves, the draft that survives reloads |
| `ProviderSettings` | one identity provider: row, copy in memory, drafts of several administrators |
| `LocalAccounts` | local accounts, sessions, reset links; the transactions that change them |
| `MCConfigJournal`, ... | the values of the small instances |
| `ConfigJournal_proofs`, ... | theorems, one module per component |

`ConfigJournal` shows how a configuration gets into memory; `PolicyDelivery`
starts from there, with a publication as one step, and follows one agent's record;
`AgentInventory` forgets what a record says except when it was last seen, and
follows which records exist. The three share no variables: `PolicyDelivery`
assumes of the first that memory has the newest version when a push begins (which
`MemoryFollowsJournal` shows for Java policies), and of the third that an agent is
not displaced while it polls. `DeploymentCoverage` is a composition in the strict
sense: every action of `PolicyDelivery` is conjoined with what the same code notes
about it, and `CoverageIsDelivery` proves that nothing of `PolicyDelivery` changes.
On the console's side `PolicyForm` decides which documents reach `ConfigJournal`,
and `ConsoleSession` whose they are and when they are sent. The modules of the two
settings pages, `ProviderSettings` and `LocalAccounts`, each hold both sides, the
page and the handlers.

### ConfigJournal

State: `journal` is the table, one sequence of rows per id; `configs` is
`state.Configs`; `handler[h]` is what an HTTP request knows between its steps (the
row it is about to write, the version it expects to find last);
`lifecycleMu`, `securityReaders`, `securityWriter` are the two mutexes.
`unconfirmed` is history: versions that the database committed although `Commit`
returned an error.

| Code | Actions |
|---|---|
| `saveConfig`, Java | `PublishPolicy` (take `policyLifecycleMu`), `AdmitPolicy` (`securityPolicyMu.RLock`, kept, and the checks) or `RefusePolicy`, `Commit`, `AppendToMemory` |
| `saveConfig`, Collector | `PublishCollector` (overlap check against memory, no mutex), `Commit`, `AppendToMemory` |
| `rollbackPolicy` | `RollbackPolicy` (candidate read under the mutex, a deactivation when there is nothing to restore), `AdmitTransition` (`securityPolicyMu` held for the checks only), `Commit`, `AppendToMemory` |
| `rollbackConfig` | `RollbackCollector`, `Commit`, `AppendToMemory` |
| `deactivatePolicy`, `deactivateCollectorConfig` | `Deactivate`, `Commit`, `AppendToMemory` |
| `saveConfigExpected` | `Commit`, `Conflict` (version moved), `AbandonSave` (validator, client or database gave up), `CommitUnconfirmed` |
| `updateSecurityDenylist` | `UpdateDenylist`, `ReplaceDenylist` |
| `main` | `Restart` |

Acquiring a mutex is merged with the read that follows; nothing else happens
between them. The content of a document is reduced to what the checks compare: the
denylist entries it captures, the metric names it defines, the rule names and
event names it uses, the agents its selector may match. `RefusePolicy` may always
fire, because a live agent may lack a schema or a package the policy needs.

Fairness (`FairSpec`): weak fairness for a request's own steps, since database
calls and the validator return and a goroutine that can run does; strong fairness
for the step that waits for `securityPolicyMu`, since `sync.RWMutex` admits blocked
readers when a writer leaves, so a stream of writers cannot starve one. None for
the start of a request or for `policyLifecycleMu`: a request that waits for it has
not entered the model yet, and its being free again is what `RequestsAnswered`
shows.

### PolicyDelivery

State of the server: `latest` is the newest version of each policy in
`state.Configs`; `record[a]` is the part of `state.Agents[a]` that decides on
offers, `ConfigStatus` and `ConfigHash` (the hash of a set stands for its policies
and versions, so the model keeps the set); `stored` is the row of `opamp_agents`;
`queued` the agents whose record waits for the worker; `push` the snapshot
`pushJavaPolicySets` iterates over; `handler[a][s]` what one request of agent `a`
knows. State of the agent: the set it runs, the report it has yet to get through,
the request it waits for. `acked` is history.

| Code | Actions |
|---|---|
| `publishPolicyTransition`, `deactivatePolicy` | `Publish`, `DeactivatePolicy` |
| `pushJavaPolicySets`, `pushJavaPolicySet` | `ListAgents`, `PushTo` (decides by the snapshot, writes the current record), `FinishPush` |
| `onMessage` | `Receive` (read lock, copy, report), `Register` (first write), `Compose` (`effectiveJavaPolicySet`), `Conclude` (schema check, `hasLatestRemoteConfig`, second write, response) |
| `persistAgentUpdates` | `Persist` |
| `main` | `Restart` |
| agent and network (external) | `Poll`, `Deliver`, `Lose`, `Timeout`, `Discard` |

External assumptions, read off what `onMessage` expects and its tests send: an
agent applies or rejects a set as a whole, repeats its report until an exchange
succeeds, and then sends heartbeats without one; it waits for one response at a
time, but may give up on a request that the server goes on processing (`Slots`
bounds how many); an agent process that restarts has a new instance uid.

Fairness: a push and a handler run to their end (weak, per agent and slot), an
agent keeps polling (weak), and neither every request nor every response is lost
(strong fairness of `Receive` and `Deliver`: each is enabled again and again when
the previous attempt was lost, never continuously). Operators need not act, so
publications are finite by `MaxVersions` and also by choice; the worker need not
persist.

### AgentInventory

State: `known` and `lastSeen` are the keys of `state.Agents` and the `LastSeen`
under each; `queue` is `agentUpdates`; `rows` the `last_seen` of each row of
`opamp_agents`; `request[r]` a message between its steps; `toPush` the agents a
push has yet to visit. Time is `clock`, whose 0 is the zero `time.Time`.
`excused` is history: agents about which the properties say nothing.

| Code | Actions |
|---|---|
| `onMessage` | `Receive`; `Admit`, `Evict` or `TurnAway` (`ensureAgentInventoryCapacityLocked`, `queueAgentDeletion`, first write); `Settle` (second write when there was a configuration to decide on, `queueAgentUpdate`) |
| `pushJavaPolicySets`, `pushJavaPolicySet` | `ListAgents`, `PushTo` |
| `persistAgentUpdates` | `Work` (stale check, `upsertAgent`, `deleteAgentSeenAtOrBefore`, or a database error) |
| `main` | `Restart` (prune by age, load) |
| `time.Now` | `Tick` |

Which agents a push writes to depends on their sets (`PolicyDelivery`); here any
subset is possible.

### DeploymentCoverage

State, beside that of `PolicyDelivery`: `rows` is `config_deployments` (newest row
per policy, version and agent), `updates` the queue, `recording` the call of
`queueJavaPolicyDeployments` a handler has yet to make before it responds,
`matching` the call of `queueMatchingDeployments` that follows a publication,
`noted` the agents a push has queued rows for and not yet written, `online` what
`liveStatus` says.

| Code | Actions |
|---|---|
| `saveConfig`, `publishPolicyTransition`, `queueMatchingDeployments` | `PublishConfig`, `Transition`, `QueueMatching` |
| `pushJavaPolicySets`, `pushJavaPolicySet` | `ListForPush`, `QueuePush` (rows judged by the snapshot), `WritePush` |
| `onMessage`, `queueJavaPolicyDeployments` | `ConcludeAndNote`, `QueueNote` (removal rows read the newest version), `RegisterSeen`, `Respond` |
| `persistAgentUpdates`, `recordDeployment` | `PersistRow` |
| `main` | `RestartAll` |
| `deploymentRecordsWithLiveCoverage`, `applyDeploymentLiveState`, `buildManagedPolicies` | `Stored`, `LiveRow`, `LiveRemovalRow`, `ViewRow` |
| `deploymentRecordStatus`, `summarizePolicyDestinations` | `LiveStatus`, `Summary` |

The view reads the rows first and memory later; rows read early are rows written
late, so the view is an operator of the state and not an action.

### PolicyForm

State: `doc` is the document, `mode` the editor, `typed` says that somebody typed
JSON since the last load, `outcome` what the server answered. A rule sits in a slot
that stands for its id; what is kept of its content are the features that decide
about schema version and validity. One action per handler of the editor:
`AddHttpRule`, `RemoveHttpRule`, `RenameHttpRule`, the edits of conditions, fields,
derived fields, static attributes, outputs and value policies, the same for
metrics, methods, metrics over all exchanges and messaging rules;
`TypeRaw`, `SwitchEditorMode`, `LoadVersion`, `StartBlank`, `Publish`. The schema an
action sets is the one the handler sets. `Verdict` is the server's: parse, schema of
the features (`main.go` 3262-3291), references and names, support by the agents.
`ConfigurationReady` is the console's own judgment, which gates `Publish`.

### ConsoleSession

State: the server's side (`version`, `logins`, `cookie`), the browser's
`storage`, and the tab: `who`, `closed`, `work`, `step`, `shown`, `frozen`,
`polling`, and its requests in flight. A request records the user whose cookie it
carried, its answer, and whether the shell still takes it for current
(`loadGate`, `liveLoadGate`).

| Code | Actions |
|---|---|
| `load` | `Refresh` and the loads others begin; `ServeLoad`, `ReceiveLoad`, `FailLoad` |
| `loadLiveState`, the interval | `StartTimer`, `Poll`, `ServePoll`, `ReceivePoll`, `FailPoll` |
| login form, provider redirect | `SubmitLogin`, `ServeLogin`, `RefuseLogin`, `ReceiveLogin`, `SignOnElsewhere` |
| `logout`, `authLogout` | `Logout`, `ServeLogout`, `ReceiveLogout` |
| draft persistence, steps, inventory snapshot | `Reload`, `Type`, `Discard`, `SetStep`, `RefreshInventory` |
| publication | `Publish`, `ServePublish`, `ReceivePublish` |
| `saveProfile`, `onIdentityUpdated`, `updateAuthProfile` | `SaveProfile`, `FailProfile`, `ReceiveProfile` |
| other clients, expiry | `ServerMoves`, `Expire` |

The ten parallel requests of a load are one, answered at one instant; the data is a
version number. A cookie is the user whose session it carries, and `Expire` ends
all sessions of that user. A profile save carries the session it was sent with, its
answer names that user and becomes the identity whenever it arrives; the server's part
changes nothing modelled here and is one step with the sending (`LocalAccounts` has
it). React effects that follow a change of state are part of
the action that changes it (`Render`).

Fairness: requests return and answers are handled, the timer fires (a visible tab)
and not every poll fails (strong fairness of `ServePoll`, since each attempt may be
lost). Users, administrators and expiry need not act.

### ProviderSettings

State: `row` in `auth_providers`, `memory` in `authenticator.providers`, `stamps`
given out as `updatedAt`, per administrator a `draft` and the request in flight.
History: `probed`, the editions a preflight found good; `astray`, whether since the
last restart the reply to a commit was lost, or a deletion or creation was committed
while an earlier change was not installed yet.

| Code | Actions |
|---|---|
| console | `Load`, `AddProvider`, `UpdateDraft`, `SubmitSave`, `SubmitDelete`, `CancelNew`, `Answer` |
| `updateAuthProvider` | `CheckUpdate`, `FindVacant`, `CommitUpdate`, `Install`, `Refuse` |
| `preflightAuthProvider` | `CheckKnown`, `CommitPreflight`, `Install` |
| `deleteAuthProvider` | `CheckKnown`, `CommitDelete`, `Install` |
| `applyStoredProviders` | `Restart` |

A client stands for issuer and client id, a secret is the client it was typed for.
`saveAuthProviderWithRoleMappings` is one step where its `SELECT ... FOR UPDATE` finds a
row, which stays locked until the commit (`Locked`), and two where it finds none and so
locks nothing (`FindVacant`, then the insertion, which overwrites by `ON CONFLICT` what
another creation inserted). Every commit may lose its reply (`Write`): the row is
written, the handler answers an error and memory is not installed.

### LocalAccounts

State: `accounts` (`local_users`), `tokens` (`password_reset_tokens`), `cookies` and
profile `pages` per browser, `drafts` (the user editor of each administrator),
`requests` with the stage each handler is in: admitted, read, or holding its row
lock. Tokens, cookies and drafts also carry what was true when they were made;
the properties compare that with the account.

| Code | Actions |
|---|---|
| `createLocalUserHandler` | `Create` |
| `updateLocalUserHandler`, `updateLocalUser` | `BeginSave`, `LockSave`, `FinishSave` |
| `deleteLocalUserHandler`, `deactivateLocalUser` | `BeginDelete`, `FinishDelete` |
| `saveProfile`, `updateAuthProfile`, `updateLocalUserProfile` | `LoadProfile`, `SendProfile`, `ReadProfile`, `LockProfile`, `FinishProfile` |
| `changePassword`, `changeLocalPassword`, `updateLocalUserPassword` | `SendPassword`, `ReadPassword`, `LockPassword`, `FinishPassword` |
| `forgotLocalPassword`, `requestPasswordReset`, `createPasswordResetToken` | `Forgot`, `AdminReset`, `LockMail`, `FinishMail` |
| `resetPassword`, `consumePasswordResetToken` | `LockReset`, `FinishReset` |
| login, expiry, refusals, deadlock victims | `Login`, `ExpireLink`, `Fail` |

A transaction holds its row from the statement that locks it to its commit, so that
a reset, which takes the token first, and a change of password, which takes the
account first, can wait for each other until one fails, as the database would have
it. Every operation can be refused at every stage (`Fail`).

## Runs

Ten runs pass; two (`delivery_refused`, `deployment_removal`) end in a
counterexample that TLC is expected to find, where the code does not do what its
own comments and tests say.

| Run | Question | Bounds |
|---|---|---|
| `java` | with publications, rollbacks, deactivations and denylist updates racing: does memory follow the journal, does a publication ever capture what the denylist bans, do checks made against memory before the commit hold of the journal after it? | 2 requests, 3 policies of which 2 may be active, 2 rows each, 1 restart |
| `mixed` | is every rollback and deactivation still about the row it replaces when a handler without the mutex races, does the journal implement `PolicyLifecycle`, is every request answered? | 2 requests, a Java policy and a Collector configuration under one id, 4 rows |
| `delivery_records` | is what the server takes for applied what the agent said, and what it runs? | 1 agent, 2 policies of 2 versions, one version without schema, one rejected, 1 timeout, 1 restart |
| `delivery_liveness` | does a polling agent end up with the newest set, and do offers cease? | 1 agent, one policy of 2 versions and one published once, any number of losses |
| `delivery_refused` | violated: an acknowledgement that came too late, a rejection and a withdrawal leave the agent on a withdrawn set for ever | as `delivery_liveness`, one version rejected |
| `inventory_rows` | once the work is done, does the table hold what memory holds, and did no row go back in time? | 2 agents, 1 place, 2 requests, a queue of 2, 3 ticks, 1 push, 1 restart |
| `deployment_view` | does what the console says of a policy (applied, removed) agree with what the agents run, with rows dropped, late, and lost in a crash? | 1 agent, 1 policy of 2 versions, a queue of 2 (of 1 after the restart), 1 restart |
| `deployment_removal` | violated: a push queues a pending removal behind the acknowledged one, and the console shows it for ever | as `deployment_view`, a queue of 12, nothing lost or dropped, no restart |
| `form_edits` | can any sequence of edits, loads, JSON and publications separate a metric from its rule, or send a document the server refuses; which edits lose the schema? | 2 names, a slot for each kind of part, 2 for HTTP rules, 2 stored versions, 1 broken JSON document, 1 agent |
| `session_tab` | with loads, polls, logins, logouts, reloads, profile saves and revocations in any order: do drafts stay with their owner, does a late answer undo a login, does the console notice a revocation and end up with the newest data? | 1 tab, 2 users, 2 sessions, 2 versions of the data |
| `provider_two` | do two administrators overwrite each other unseen, does a preflight vouch for what it did not probe, does a secret go to another client, does memory follow the row? | 2 administrators, 2 clients, 3 changes of the row, any number of restarts, a draft changes before its request or when the answer arrives |
| `accounts` | does an older link or session ever outlive a change, does an administrator's save undo one it did not see? | 1 account, 2 addresses, 2 passwords, 1 browser, 2 administrators of whom one is limited, 2 links, 2 requests at a time, of one kind only where two of a kind meet, 3 values of `auth_version` |

Why these bounds. Two requests open and disturb every check-then-act window of
`ConfigJournal`; two rows per id are a publication and what happens to it, three a
rollback that is itself rolled back, four let a handler of the other kind step in
between, five are needed for the discarded revision. The bound `MaxVersions`
counts requests under way, so it never cuts one in the middle. In `PolicyDelivery`
agents do not interact, so one is enough; two policies of two versions give sets
that change, grow, shrink and return to an earlier one while a report about
another is under way. One slot means that a handler that outlives its request
blocks the next one; overlap of handlers is covered by the theorem
`AcknowledgedOnly`, which holds for any `Slots`. In `AgentInventory` one place
and two agents make every arrival a displacement, two requests overlap, the queue
is small enough to be full at each of them, and three ticks are enough for an
agent to leave, be displaced, return and be pruned.

In `DeploymentCoverage` the interest is one row: versions of a policy and agents do
not interact except through the queue, whose place is taken by a drop at any time.
Three action constraints keep its state space small: `RecordsPersistPromptly` (an
agent record is written or dropped before anything else happens; its delays are the
subject of `AgentInventory` and, in proofs, of any schedule), `FadesInSilence`
(an agent goes offline while no message or push is under way) and `OneRowAfterCrash`
(after the restart a row is queued when the one before it is written; full queues
that drop come before it). In `PolicyForm` two
names make every collision of names possible, and two HTTP slots the rename through
another rule's name; three constraints cut what is symmetric or unrelated:
`TypedAsIs` (typed JSON is published or replaced, not edited further),
`OneBesideMethods` (a method policy or a global metric, which nothing refers to, next
to one HTTP rule at most and not next to each other), and the symmetry of slots. Two
sessions are a session and the one that replaces it while answers of the first are
under way; `ProfileFirst` lets a profile be saved in the first of them only, and be
answered before the data moves, with the logout, the second login, polls, loads and
reloads it may cross all kept. Three stamps let a draft be two changes behind; `TypedAtAnswer` lets an
administrator with a request under way load and type only when its answer is about
to arrive, since no handler reads the draft. In `delivery_liveness`,
`SecondOnce` publishes one of the two policies once; the other is changed or withdrawn
next to it. In `delivery_refused`, `OnceAndWithdrawn` publishes both and withdraws them
again, which is all the counterexample needs. In `LocalAccounts` two requests are every pair of handlers, two
links a link and its successor, three versions two changes behind an editor;
`OneEditor` allows one open editor at a time (the saves of two administrators still
overlap, since an editor may be closed with its request in flight), `EditorOrPage`
none next to an open profile page, and `Overlap` two requests of one kind only for
mails, resets and saves that keep the email. Its requests
and its accounts are unbounded in the proofs.

Deadlock checking is on everywhere. Only the bounds stop anything: a denylist can
still be replaced, an agent still polls, a message is still received, a page is
reloaded, a provider read again.

`mixed` has no restart, `java` has; the restart and the Collector handler together
are covered by the proofs.

### What the properties say, and why so

`QuietTruth` is about runs without a restart and without a handler that outlives
its request: a restart may reload a record older than the last acknowledgement,
and a late handler writes back an older copy, and in both cases the status may be
`APPLIED` with an older set than the agent runs. The server notices at the next
change only. `AckedTruth` has no such condition.

`RowsSettle` excuses an agent whose own requests overlapped (the later stamp may
be written first), one of whom an update was dropped or not written (nothing
repeats it before the next message), and one a push made up; the restart clears
the excuses, since memory is then the table. What is left is the hard part: a
deletion is either queued or the displacement is called off, the worker's stale
check and the `WHERE` clauses sort out deletion, return and late updates of an
agent, whatever the order in which handlers queue them.

`AppliedRuns` is the promise behind the word on the screen. It is not about the row:
a stored `APPLIED` row is shown as applied only when the live record says the same
set is acknowledged, which is why dropped and late rows cannot break it.
`RemovedIsGone` excepts the moment between a message and the comparison of its
report and, once there was a restart, agents with no row of the newest version:
their status is inferred from the live record, and the record reloaded may be older
than what the agent last acknowledged. A crash before `CONFIG_PENDING` is stored brings
back a success of a set without the policy; when the policy is withdrawn the view
says `REMOVED` while the agent runs it. The runs do not reach that
(`RecordsPersistPromptly`); the proof, which has no bounds, brought it out.

`LoadNeverUndoesLogin` excepts two cases in which closing is right or harmless: the
cookie is no longer accepted, or a login has been answered and is about to open the
console again. The poll has no such gate (below).

`DraftConfined` excepts the one step that breaks it, a profile answered under another
login (`Confined`, below), and so speaks of every other step also after that one.

`MemoryFollowsRow` excepts, until the next restart, a commit whose reply was lost and a
deletion or creation committed before an earlier change was installed: they compare no
stamp, or no row they could lock, so two installs may come in either order. What is
left is that of two changes of a stored provider (saves, ends of preflights) the second
is refused until the first is installed: without the stamps, as its mutant shows, they
cross. `NoBlindOverwrite` is about drafts of a stored provider; for creations it is
false (`CreationFindsNothing`, below). It speaks of editions, not of stamps: a
preflight changes the stamp and nothing an administrator typed, and a draft that is not
dirty follows it.

`UsableLinks`, `SessionsEnd` and `SavesWhatItSaw` are about different operations of
different actors that meet in one row; `auth_version` is what they all rely on, and
they are false when any one of the changes forgets to move it.

The violated properties are statements of the repository (comments, console texts,
error messages, tests), quoted under "findings".

### Deviations that have no run

These properties are stated in the modules and are false. Each is reproduced by
putting it into the .cfg named here in place of its invariants and properties, with
the constants changed as noted.

| Property | .cfg | What happens |
|---|---|---|
| `ActivePoliciesRespectDenylist` | `ConfigJournal_mixed`, `CollectorIds = {}` | `validatePolicyTransition` releases `securityPolicyMu` before `rollbackPolicy` saves (`main.go` 2009); a denylist accepted in between does not see the rollback, which then commits a policy it bans. `main.jsx:3517` promises that later rollbacks are validated against the new list |
| `RollbackNeverRestoresDiscarded` | `ConfigJournal_mixed`, `CollectorIds = {}`, `MaxVersions = 5`, one handler | publish, publish, roll back, publish, roll back restores the second publication. `store.go:871-874`: "never oscillate to content that was already rolled back" |
| `ActiveCollectorsDisjoint` | `ConfigJournal_mixed`, `PolicyIds = {}`, `CollectorIds = {"p", "q"}`, `CollectorBodies = {"east", "west", "all"}` | a Collector rollback never checks selectors, and two publications pass the check together; `main.go:1409` refuses the overlap |
| `QuietMemoryIsCurrent` | `ConfigJournal_mixed`, `PolicyIds = {}` | two Collector saves of an id reach memory in the other order than the table; `latestForAgent` serves the older until a restart |
| `PendingSettles` | `PolicyDelivery_liveness` | publish and withdraw between two polls: the agent runs the right set, nothing is offered, and the status is pending for ever (`main.jsx:510`: "Se envió la configuración; falta confirmación.") |
| `InventoryBounded` | `AgentInventory_rows` | a push writes back an agent displaced since it was listed: one more than the limit, with an empty record that is never displaced again (`opamp_transport_test.go:244-245`) |
| `SchemaCoversFeatures` | `PolicyForm_edits` | messaging edits set `schemaVersion` to 1.5 whatever it was (`messaging-editor.jsx` 358, 377) and the server then refuses the document; `telemetry-events.test.js:245`: raised "sin degradar un schema existente" |
| `PollNeverUndoesLogin` | `ConsoleSession_tab` | a poll sent with the old session is refused after the login and closes the console the login opened |
| `Confined` (as INVARIANT) | `ConsoleSession_tab` | a profile is saved, its user logs out and another logs in and edits before the answer comes: `onIdentityUpdated` (`main.jsx` 5078, 7895) makes the first user the identity again, and the second one's edits are stored as the first one's draft; a reload in the first one's session shows them, one in the second's drops them |
| `CreationFindsNothing` | `ProviderSettings_two` | two administrators create the same id: neither `SELECT ... FOR UPDATE` finds a row to lock, both pass the check and the second insertion overwrites the first unseen; `store.go` 242-249 means to refuse it as a concurrent update |
| `DeletedStaysOut` | `ProviderSettings_two` | a deletion commits between a preflight's commit and its install: the provider is back in memory, and in the login, until a restart; `main.jsx:5362`: "Proveedor eliminado; ya no aparecerá en el login." |

Others were met while modelling and have no property; a team would want to know:

- Console shell: the answer of a publication that arrives during or after a logout
  begins a load that opens the console again until the next poll. With two tabs, a
  login in the other one and a load in this one keep this tab's draft under the
  other user. A logout whose request fails leaves the cookie valid. A first load
  that fails, and a login at a restored step 3, freeze an empty list. A poll begun
  before a publication may overwrite its load for up to 4 s. Agents that connect
  after the list was frozen also receive the publication.
- Editor: names change with every keystroke, so a rename that passes through the
  name of another rule takes that rule's metrics along (`main.jsx` 2053, 2056).
  `nextHTTPEventName` does not look at messaging names. Removing a field of a metric
  leaves dimensions that name it. The server refuses a blank `eventName`
  (`main.go` 3816) that the console lets through.
- Providers: what is typed while a save is in flight is marked clean and lost at the
  next load; a dirty draft keeps its old `updatedAt` and conflicts until it is
  discarded; a deletion has no version check.
- Deployment: the confirmation of a rollback names a version, the request does not
  carry it. `queueJavaPolicyDeployments` reads the newest version when it queues a
  removal (`main.go` 1346-1379), so a late one is filed under a version it is not about.
- Accounts: a change of password under way overwrites the password a reset has set
  meanwhile (`updateLocalUserPassword` checks no version). A change of email by its
  owner does not move `auth_version`, so an editor opened before it silently undoes
  it. A deletion checks the delegation on what it read, and deactivates whatever
  became of it. A reset and a change of password can deadlock in the database, and
  one of them fails.

## What is proved

Each proof module holds for every value of the constants, from the assumptions its
component names.

`ConfigJournal_proofs` (the free mutex is no handler; Java and Collector documents
are different things; bounds are naturals):

- `TypeCorrect`: `Spec => []TypeOK`.
- `LineageCorrect`: `Spec => []LineageSound`. `LineageSound` alone is not inductive:
  the row a request has prepared must still be sound when it is inserted. The
  invariant adds `DraftsSound`, which says that a prepared row is right *about the
  row at the version it expects*, whatever has been appended since (rows never
  change, so this is stable), and `JournalSound`, that row `v` carries version `v`
  and a source not above it. `Commit` then closes the gap: `Stale` is false, so the
  version it expects is still the last.
- `JournalMemoryFollows`, `JournalMetricOwner`, `JournalPoliciesCompose` and
  `JournalPublicationsRespectDenylist`, from one invariant, `JournalInv`. All four are
  about a check made on memory and a commit made later, so the invariant says what a
  request that has passed its checks may rely on until it commits (`AdmissionInv`:
  `MetricsReady`, `ComposeReady`, `DenylistReady`). It is kept because the request
  owns `policyLifecycleMu`, so no other Java row is appended meanwhile, and, for the
  denylist, because a publication and a `replace` exclude each other on
  `securityPolicyMu`. `MemoryInv` is the bridge from memory to the table: a row is in
  memory, in the hands of its handler or lost to it (`RowsKnown`), memory is a part of
  the table (`RowsOfJournal`) in its order (`MemoryAscends`). `LocksSound` ties each
  mutex to the steps of its owner. Ids are any set: that finitely many have rows,
  so that the policies in service can be counted, is part of the invariant.
- `JournalImplementsLifecycle`: `Spec => Lifecycle!Spec`. A revision is in service
  when the last row is an active Java row that carries it. Only `Commit` and
  `CommitUnconfirmed` move the mapped state; each maps to `Publish`, `Rollback`,
  `Withdraw` or, for a Collector row on an id with nothing in service, a stutter
  (`InsertRefines`).

`PolicyDelivery_proofs` (`NoSlot` is no slot; `Unsupported` and `Refused` are
functions to sets of policy versions):

- `DeliveryTypeCorrect`: `Spec => []TypeOK`. `TypeOK` needs `Listed`: a push only
  visits agents that have a record, so that marking one never writes to an unknown
  agent.
- `AcknowledgedOnly`: `Spec => []AckedTruth`, for any number of overlapping
  requests, timeouts and restarts. A record is honest when the set it names was
  acknowledged; `AckedInv` says this of every copy of one (memory, database, the
  copies requests carry) and that every report on its way, and the one the agent
  keeps, is about a set the agent acknowledged if it says `APPLIED`. `OutcomeHonest`
  is the step where the two meet.
- `QuietRecordsTrue`: `Spec => []QuietTruth`. The invariant, `SoundInv`, follows the
  truth of a record through `onMessage`: while no agent gives up there is one request
  per agent, and the report an agent keeps or sends is about what it runs (`Heard`);
  while in addition nobody restarts, a record that says `APPLIED` names what the agent
  runs unless a handler is between its two writes, and then the copy it carries does
  (`RecordSound`). An answer that hands out another set leaves a record that is
  not `APPLIED`, which is why a push in between cannot leave a stale success.

`AgentInventory_proofs` (limit and queue capacity positive, the rest naturals):

- `InventoryTypeCorrect`: `Spec => []TypeOK`, with the bound on the queue.
- `RowsMoveForward`: `Spec => RowsNeverRegress`.
- `InventoryRowsSettle`: `Spec => []RowsSettle`. What is to be shown speaks of the end,
  with the queue empty; the invariant (`SettleInv`) says, of every agent not excused,
  how it gets there. A forgotten agent `GoesAway`: it has no row, or a deletion at
  least as new as the row is queued. A remembered one with no registered request
  `Arrives`: the row has memory's time stamp, or an update with it is queued, and no
  deletion behind it is as new. Neither the queue nor the row is ahead of memory or of
  the agent's one request (`NoneAfter`, `RequestAhead`), so the stale check of the
  worker and the `WHERE` clauses discard only what is superseded.

`DeploymentCoverage_proofs` (`None` is no policy, note or row):

- `CoverageIsDelivery`: `CoverageSpec => Spec`: each action is one of
  `PolicyDelivery` with something conjoined, or a stutter of it. Every theorem about
  `PolicyDelivery` holds here too; the rest of the module uses `AckedInv` from there.
- `CoverageTypeCorrect`, `CoverageRowsTruth`, `CoverageAppliedRuns`, and
  `CoverageAppliedComplete` (no run: an agent whose record is acknowledged and
  current is enough for it). The invariant `RowsInv` says that whatever claims
  something to have been applied or removed, be it a row, a queued update, a note a
  handler has yet to make, a copy of a record in a request or in a push's snapshot,
  claims what the agent has acknowledged.
- `CoverageRemovedIsGone`: `CoverageSpec => []RemovedIsGone`. `GoneInv` adds to
  `RowsInv` and to `SoundInv` of `PolicyDelivery` that whatever says `REMOVED` of the
  newest version of a policy out of service (row, queued update, note under way) is
  about an agent that neither runs the policy nor is about to be given it (`Without`),
  and that no such claim is of a version that does not exist yet, so a later
  publication makes it old before it can be wrong.

`PolicyForm_proofs` (no bound on names, slots or documents stored):

- `FormTypeCorrect`, `FormLinked` and `FormAccepted`. The two removal and renaming
  operators keep links under shared names (`RemovalKeepsLinks`, `RenameKeepsLinks`);
  every other edit leaves alone what the metrics refer to.
- `FormSchemaLosers`: `Spec => OnlySomeEditsLoseSchema`. The version a document needs
  is the most any of its parts needs; each edit that is not one of the named ones
  raises the version itself or adds no part that needs more (`CoversByParts`, `KeptCovers`).

`ConsoleSession_proofs`:

- `SessionTypeCorrect`, `SessionDraftConfined`, `SessionDestinationsListed`,
  `SessionLoadKeepsLogin`, `SessionListStable`. The invariant has two halves that hardly touch: `Shell`
  (for a known user the stored draft *is* the one in memory; with nobody known the
  console is closed, and memory empty if a profile is still to be answered) and `Rest`
  (a load without a session was sent before a login that is still to be handled, or
  there is none). On top of it `KeptStep`: every step but a profile answered under
  another login leaves the draft with its owner.

`ProviderSettings_proofs`:

- `ProviderTypeCorrect`, `ProviderSecretStays`, `ProviderValidated`,
  `ProviderMemoryFollows`, `ProviderNoBlindOverwrite`. `IEdition`: equal stamps mean
  equal editions for everything that carries one (row, memory, drafts, requests),
  so a comparison of stamps compares what was typed. `IInstall`: while nothing is
  astray there is at most one handler between commit and install, it carries the row,
  and nobody who read memory before it finds the row expected: a change gave out a new
  stamp, a deletion left no row (`LockedAlone`).

`LocalAccounts_proofs`:

- `AccountsTypeCorrect`, `AccountsUsableLinks`, `AccountsSessionsEnd`,
  `AccountsSavesWhatItSaw`, for any number of accounts, browsers, administrators and
  requests. Copies of an account (tokens, sessions, editors, saves under way) are
  never newer than it, and one of the same version says the same of password, roles
  and activity; a user has one live token; one request holds an account's row.

Every invariant and every action property the passing runs check is proved, and so is
the refinement. Only model-checked is liveness (`RequestsAnswered`, `Converges`,
`OffersCease`, `RevokedNoticed`, `SettlesOnNewest`), which with ENABLED is out of the
prover's reach, as are induction over data and RECURSIVE operators.

## Plan

1. `ConfigJournal`, `PolicyLifecycle`, `PolicyDelivery`, `AgentInventory`, proofs - done.
2. The console: `PolicyForm`, `ConsoleSession`, proofs - done.
3. Settings: `ProviderSettings`, `LocalAccounts`, proofs - done.
4. `DeploymentCoverage` on top of `PolicyDelivery`, proofs - done.
5. `CollectorDelivery`: desired Collector configuration with its base as fallback,
   `PollOffers`, and the rows of Collector configurations.
6. The revision of the email settings row; the cache of external identities.
7. `Selectors`: match and overlap as operators against a reference definition over
   all small inputs.
8. Proofs of every safety property the runs check - done; those of 5 and 6 to come.

## Not modelled

Wire formats, TLS, SMTP and cloud mail senders, URL and proxy parsing, the
validation of a single policy document beyond what `PolicyForm` keeps, Helm chart
and workflows: pure or stateless code, or I/O, that the repository's unit tests
exercise directly. The protocols with identity providers (OIDC redirects, SAML
responses) and the cache of what they say (`auth.go:609`). The email settings and
their revision. The delivery of Collector configurations and the offer of
connection settings (`main.go:791`). The root account's guards, its bootstrap, and
the audit log. In the console tables, filters, charts and translation, and a second
tab. WebSocket connections (`connectionClosed`, `conn.Send`): the middleware
rejects them, so `state.Conns` is always empty. `PROJECT.json` gives each
component's status and what is left out of it.
