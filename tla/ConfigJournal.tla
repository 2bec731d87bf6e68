---------------------------- MODULE ConfigJournal ----------------------------
(***************************************************************************)
(* The versioned configurations of the control plane: an append-only       *)
(* journal per configuration id in PostgreSQL, and the copy of it the      *)
(* process keeps in memory (state.Configs) and serves agents from.         *)
(*                                                                         *)
(* Seven HTTP handlers write it: saveConfig (a Java policy or a Collector  *)
(* configuration), rollbackConfig, rollbackPolicy, deactivatePolicy,       *)
(* deactivateCollectorConfig, and updateSecurityDenylist, which must not   *)
(* ban what an active policy captures.  Handlers run concurrently.  Java   *)
(* policies are serialised by policyLifecycleMu and admitted under         *)
(* securityPolicyMu; Collector configurations are published and rolled     *)
(* back under no mutex at all.                                             *)
(*                                                                         *)
(* Every handler follows the same road: it checks against the memory or    *)
(* the journal, commits a row, and only then appends the row to memory.    *)
(* The three are separate steps here.  Acquiring a mutex is merged with    *)
(* the read that follows it.  What a handler does after the append (push   *)
(* to the agents, deployment rows, audit log) touches neither journal nor  *)
(* memory; a mutex is therefore released with the append.                  *)
(*                                                                         *)
(* A definition marked "Variant" is not part of the specification: it is a *)
(* faulty form of the definition after it, which a property must catch.    *)
(***************************************************************************)
EXTENDS Naturals, Sequences, FiniteSets

CONSTANTS
    Handlers,           \* concurrent HTTP requests the process serves
    NoHandler,          \* the owner of a free mutex
    PolicyIds,          \* ids under which operators publish Java policies
    CollectorIds,       \* ids for Collector configurations (may share an id)
    PolicyBodies,       \* Java documents; selectors play no part in admission
    CollectorBodies,    \* Collector documents, each with its selector
    Sensitive,          \* what a denylist may name: headers, paths, parameters
    CapturesOf,         \* [PolicyBodies -> SUBSET Sensitive]
    MetricsOf,          \* Java body -> the metric names it defines
    RulesOf,            \* Java body -> its internal ids and event names
    ScopeOf,            \* Collector body -> agents its selector may match
    MaxPoliciesPerSet,  \* limit of encodePolicySet (64 in the code)
    MaxVersions,        \* bound: rows per id
    MaxRestarts         \* bound: process restarts

Ids    == PolicyIds \cup CollectorIds
Bodies == PolicyBodies \cup CollectorBodies

ASSUME HandlerAssumption == NoHandler \notin Handlers
ASSUME BodyAssumption    == PolicyBodies \cap CollectorBodies = {}
ASSUME BoundAssumption   ==
    /\ MaxPoliciesPerSet \in Nat
    /\ MaxVersions \in Nat
    /\ MaxRestarts \in Nat

VARIABLES
    journal,         \* control_plane_configs: id -> rows in version order
    configs,         \* state.Configs: id -> versions in order of arrival
    denylist,        \* security_denylist, the set of banned entries
    handler,         \* what each request is doing
    lifecycleMu,     \* owner of policyLifecycleMu
    securityReaders, \* holders of securityPolicyMu.RLock
    securityWriter,  \* holder of securityPolicyMu.Lock
    unconfirmed,     \* history: versions committed though Commit returned an error
    restarts         \* restarts so far

persistent == <<journal, denylist>>
mutexes    == <<lifecycleMu, securityReaders, securityWriter>>
vars == <<persistent, configs, handler, mutexes, unconfirmed, restarts>>

-----------------------------------------------------------------------------
(* Rows.  source is SourceVersion: the PUBLISHED revision whose content the  *)
(* row carries.  version is 0 until the transaction allocates one.           *)

Targets == {"java-extension", "collector"}
Changes == {"PUBLISHED", "ROLLBACK", "DEACTIVATED"}

Entry == [target  : Targets,
          body    : Bodies,
          action  : Changes,
          active  : BOOLEAN,
          version : Nat,
          source  : Nat]

Idle == [step |-> "idle"]

\* A request between its checks and its reply.  expected is the version its
\* transaction insists on finding last; 0 insists on nothing.
Saving    == [step : {"admission", "transition", "commit", "append"},
              id : Ids, draft : Entry, expected : Nat]
Screening == [step : {"replace"}, proposed : SUBSET Sensitive]

TypeOK ==
    /\ journal \in [Ids -> Seq(Entry)]
    /\ configs \in [Ids -> Seq(Entry)]
    /\ denylist \subseteq Sensitive
    /\ handler \in [Handlers -> {Idle} \cup Saving \cup Screening]
    /\ lifecycleMu \in Handlers \cup {NoHandler}
    /\ securityReaders \subseteq Handlers
    /\ securityWriter \in Handlers \cup {NoHandler}
    /\ unconfirmed \in [Ids -> SUBSET Nat]
    /\ restarts \in Nat

Latest(log) == log[Len(log)]

\* isConfigActive: rows older than the active column are told by their action.
IsActive(entry) == entry.active \/ entry.action # "DEACTIVATED"

ActiveIn(store, target) ==
    {id \in Ids : /\ store[id] # <<>>
                  /\ Latest(store[id]).target = target
                  /\ IsActive(Latest(store[id]))}

ActivePolicies(store)   == ActiveIn(store, "java-extension")
ActiveCollectors(store) == ActiveIn(store, "collector")

Published(target, body) ==
    [target |-> target, body |-> body, action |-> "PUBLISHED",
     active |-> TRUE, version |-> 0, source |-> 0]

\* Variant: an action the rest of the code does not know.
DeactivatedUnknown(entry) == [entry EXCEPT !.active = FALSE, !.action = "REMOVED"]

Deactivated(entry) == [entry EXCEPT !.active = FALSE, !.action = "DEACTIVATED"]

-----------------------------------------------------------------------------
(* Admission of a Java policy.                                               *)

BreaksDenylist(body, list) == CapturesOf[body] \cap list # {}

\* validateExistingMetricNames: a metric name belongs for ever to the first id
\* that published it, whether or not that version is still effective.
MetricTaken(id, body) ==
    \E other \in Ids \ {id} : \E i \in DOMAIN configs[other] :
        /\ configs[other][i].target = "java-extension"
        /\ MetricsOf[configs[other][i].body] \cap MetricsOf[body] # {}

\* validatePolicySetCompatibility: one namespace across the effective set.
RuleClash(id, body) ==
    \E other \in ActivePolicies(configs) \ {id} :
        RulesOf[Latest(configs[other]).body] \cap RulesOf[body] # {}

\* Variant: the candidate itself is not counted.
SetTooLargeWithoutCandidate(id) ==
    Cardinality(ActivePolicies(configs) \ {id}) > MaxPoliciesPerSet

\* encodePolicySet counts the candidate with the other active policies.
SetTooLarge(id) ==
    Cardinality(ActivePolicies(configs) \cup {id}) > MaxPoliciesPerSet

PolicyAccepted(id, body) ==
    /\ ~ BreaksDenylist(body, denylist)
    /\ ~ MetricTaken(id, body)
    /\ ~ RuleClash(id, body)
    /\ ~ SetTooLarge(id)

\* validateCollectorSelectorDoesNotOverlap
SelectorOverlaps(id, body) ==
    \E other \in ActiveCollectors(configs) \ {id} :
        ScopeOf[Latest(configs[other]).body] \cap ScopeOf[body] # {}


-----------------------------------------------------------------------------
(* Rollback of a Java policy: policyRollbackCandidate.  A row always carries *)
(* its source: the migration backfilled those written before the column.     *)

PublishedBefore(id, version) ==
    {k \in DOMAIN journal[id] : /\ journal[id][k].target = "java-extension"
                                /\ journal[id][k].action = "PUBLISHED"
                                /\ k < version}

\* Variant: walks back from the row instead of from the revision it carries.
PredecessorsByVersion(id, current) ==
    {k \in PublishedBefore(id, current.version) :
        \A j \in PublishedBefore(id, current.version) : j <= k}

\* The newest of them: empty, or a singleton.
Predecessors(id, current) ==
    {k \in PublishedBefore(id, current.source) :
        \A j \in PublishedBefore(id, current.source) : j <= k}

-----------------------------------------------------------------------------
(* Mutexes and the end of a request.                                         *)

\* Variant: the handler goes ahead without policyLifecycleMu.
LifecycleIgnored == TRUE

LifecycleAvailable == lifecycleMu = NoHandler

\* Variant: the denylist is replaced without waiting for publications under way.
SecurityWritableAlways == securityWriter = NoHandler

\* securityPolicyMu is a sync.RWMutex.
SecurityReadable == securityWriter = NoHandler
SecurityWritable == securityWriter = NoHandler /\ securityReaders = {}

\* Variant: an early return that forgets to unlock securityPolicyMu.
ReleaseLifecycleOnly(h) ==
    /\ lifecycleMu' = IF lifecycleMu = h THEN NoHandler ELSE lifecycleMu
    /\ UNCHANGED <<securityReaders, securityWriter>>

Release(h) ==
    /\ lifecycleMu' = IF lifecycleMu = h THEN NoHandler ELSE lifecycleMu
    /\ securityReaders' = securityReaders \ {h}
    /\ securityWriter' = IF securityWriter = h THEN NoHandler ELSE securityWriter

Reply(h) ==
    /\ handler' = [handler EXCEPT ![h] = Idle]
    /\ Release(h)

\* Requests that may still add a row to the journal of id.
SavesOf(id) == {g \in Handlers : handler[g] # Idle /\ handler[g] \notin Screening
                                 /\ handler[g].id = id}

CanStart(h, id) ==
    /\ handler[h] = Idle
    /\ Len(journal[id]) + Cardinality(SavesOf(id)) < MaxVersions

Prepare(h, step, id, draft, expected) ==
    handler' = [handler EXCEPT ![h] =
        [step |-> step, id |-> id, draft |-> draft, expected |-> expected]]

LockLifecycle(h) ==
    /\ LifecycleAvailable
    /\ lifecycleMu' = h
    /\ UNCHANGED <<securityReaders, securityWriter>>

-----------------------------------------------------------------------------
(* Java policies.                                                            *)

\* saveConfig, java-extension: policyLifecycleMu is held to the end.
PublishPolicy(h, id, body) ==
    /\ CanStart(h, id)
    /\ LockLifecycle(h)
    /\ Prepare(h, "admission", id, Published("java-extension", body), 0)
    /\ UNCHANGED <<persistent, configs, unconfirmed, restarts>>

\* securityPolicyMu.RLock, kept until the reply, then every check.
AdmitPolicy(h) ==
    /\ handler[h].step = "admission"
    /\ SecurityReadable
    /\ PolicyAccepted(handler[h].id, handler[h].draft.body)
    /\ securityReaders' = securityReaders \cup {h}
    /\ handler' = [handler EXCEPT ![h].step = "commit"]
    /\ UNCHANGED <<persistent, configs, lifecycleMu, securityWriter,
                   unconfirmed, restarts>>

\* rollbackPolicy reads its candidate under policyLifecycleMu.  Before the
\* first revision there is nothing to restore: the policy is deactivated.
RollbackPolicy(h, id) ==
    /\ CanStart(h, id)
    /\ LockLifecycle(h)
    /\ id \in ActivePolicies(journal)
    /\ LET current == Latest(journal[id])
       IN  \/ /\ Predecessors(id, current) = {}
              /\ Prepare(h, "commit", id, Deactivated(current), current.version)
           \/ \E k \in Predecessors(id, current) :
                Prepare(h, "transition", id,
                    [journal[id][k] EXCEPT !.action = "ROLLBACK",
                                           !.active = TRUE,
                                           !.source = k],
                    current.version)
    /\ UNCHANGED <<persistent, configs, unconfirmed, restarts>>

\* validatePolicyTransition holds securityPolicyMu.RLock for the checks only.
AdmitTransition(h) ==
    /\ handler[h].step = "transition"
    /\ SecurityReadable
    /\ PolicyAccepted(handler[h].id, handler[h].draft.body)
    /\ handler' = [handler EXCEPT ![h].step = "commit"]
    /\ UNCHANGED <<persistent, configs, mutexes, unconfirmed, restarts>>

\* Refused by a check above, or because a live agent lacks the policy schema
\* or a method package the body needs.
RefusePolicy(h) ==
    /\ handler[h].step \in {"admission", "transition"}
    /\ SecurityReadable
    /\ Reply(h)
    /\ UNCHANGED <<persistent, configs, unconfirmed, restarts>>

\* deactivatePolicy and deactivateCollectorConfig differ in the target they
\* insist on.
Deactivate(h, id) ==
    /\ CanStart(h, id)
    /\ LockLifecycle(h)
    /\ journal[id] # <<>>
    /\ IsActive(Latest(journal[id]))
    /\ Prepare(h, "commit", id, Deactivated(Latest(journal[id])),
               Latest(journal[id]).version)
    /\ UNCHANGED <<persistent, configs, unconfirmed, restarts>>

-----------------------------------------------------------------------------
(* Collector configurations: no mutex.                                       *)

\* saveConfig, collector: the overlap check reads memory and lets go of it.
PublishCollector(h, id, body) ==
    /\ CanStart(h, id)
    /\ ~ SelectorOverlaps(id, body)
    /\ Prepare(h, "commit", id, Published("collector", body), 0)
    /\ UNCHANGED <<persistent, configs, mutexes, unconfirmed, restarts>>

\* rollbackConfig copies any version that was not a deactivation.  It neither
\* repeats the overlap check nor names the version it expects to replace.
RollbackCollector(h, id, version) ==
    /\ CanStart(h, id)
    /\ version \in DOMAIN journal[id]
    /\ journal[id][version].target = "collector"
    /\ IsActive(journal[id][version])
    /\ Prepare(h, "commit", id,
               [journal[id][version] EXCEPT !.action = "ROLLBACK"], 0)
    /\ UNCHANGED <<persistent, configs, mutexes, unconfirmed, restarts>>


-----------------------------------------------------------------------------
(* saveConfigExpected: one transaction under an advisory lock on the id.     *)

\* Variant: the transaction forgets the version its caller read.
NeverStale(request) == FALSE

Stale(request) ==
    request.expected > 0 /\ Len(journal[request.id]) # request.expected

Row(request) ==
    LET version == Len(journal[request.id]) + 1
    IN  [request.draft EXCEPT
            !.version = version,
            !.source = IF request.draft.action = "PUBLISHED"
                       THEN version ELSE request.draft.source]

Insert(request) ==
    journal' = [journal EXCEPT ![request.id] = Append(@, Row(request))]

Commit(h) ==
    /\ handler[h].step = "commit"
    /\ ~ Stale(handler[h])
    /\ Insert(handler[h])
    /\ handler' = [handler EXCEPT ![h].step = "append",
                                  ![h].draft = Row(handler[h])]
    /\ UNCHANGED <<configs, denylist, mutexes, unconfirmed, restarts>>

\* errConcurrentConfigUpdate
Conflict(h) ==
    /\ handler[h].step = "commit"
    /\ Stale(handler[h])
    /\ Reply(h)
    /\ UNCHANGED <<persistent, configs, unconfirmed, restarts>>

\* The external Collector validator refuses the document, the client goes
\* away (the transaction runs in the request's context), or the database fails
\* and rolls back.
AbandonSave(h) ==
    /\ handler[h].step = "commit"
    /\ Reply(h)
    /\ UNCHANGED <<persistent, configs, unconfirmed, restarts>>

\* Commit reports an error although the database committed: the handler takes
\* it for a failure and memory never learns of the row.
CommitUnconfirmed(h) ==
    /\ handler[h].step = "commit"
    /\ ~ Stale(handler[h])
    /\ Insert(handler[h])
    /\ unconfirmed' = [unconfirmed EXCEPT ![handler[h].id] =
                          @ \cup {Row(handler[h]).version}]
    /\ Reply(h)
    /\ UNCHANGED <<denylist, configs, restarts>>

\* state.Configs[saved.ID] = append(state.Configs[saved.ID], saved)
AppendToMemory(h) ==
    /\ handler[h].step = "append"
    /\ configs' = [configs EXCEPT ![handler[h].id] =
                      Append(@, handler[h].draft)]
    /\ Reply(h)
    /\ UNCHANGED <<persistent, unconfirmed, restarts>>

-----------------------------------------------------------------------------
(* The security denylist: updateSecurityDenylist.                            *)

\* validateActivePoliciesAgainstDenylist looks at memory.
BansActivePolicy(list) ==
    \E id \in ActivePolicies(configs) : BreaksDenylist(Latest(configs[id]).body, list)

UpdateDenylist(h, list) ==
    /\ handler[h] = Idle
    /\ SecurityWritable
    /\ ~ BansActivePolicy(list)
    /\ securityWriter' = h
    /\ handler' = [handler EXCEPT ![h] = [step |-> "replace", proposed |-> list]]
    /\ UNCHANGED <<persistent, configs, lifecycleMu, securityReaders,
                   unconfirmed, restarts>>

\* replaceSecurityDenylist commits, or fails and leaves the old list.
ReplaceDenylist(h) ==
    /\ handler[h].step = "replace"
    /\ denylist' \in {denylist, handler[h].proposed}
    /\ Reply(h)
    /\ UNCHANGED <<journal, configs, unconfirmed, restarts>>

-----------------------------------------------------------------------------

\* main reloads the journal.  Requests under way are lost with the process.
Restart ==
    /\ restarts < MaxRestarts
    /\ restarts' = restarts + 1
    /\ configs' = journal
    /\ handler' = [h \in Handlers |-> Idle]
    /\ lifecycleMu' = NoHandler
    /\ securityReaders' = {}
    /\ securityWriter' = NoHandler
    /\ UNCHANGED <<persistent, unconfirmed>>

Init ==
    /\ journal = [id \in Ids |-> <<>>]
    /\ configs = [id \in Ids |-> <<>>]
    /\ denylist = {}
    /\ handler = [h \in Handlers |-> Idle]
    /\ lifecycleMu = NoHandler
    /\ securityReaders = {}
    /\ securityWriter = NoHandler
    /\ unconfirmed = [id \in Ids |-> {}]
    /\ restarts = 0

Start(h) ==
    \/ \E id \in PolicyIds, body \in PolicyBodies : PublishPolicy(h, id, body)
    \/ \E id \in CollectorIds, body \in CollectorBodies :
          PublishCollector(h, id, body)
    \/ \E id \in Ids : RollbackPolicy(h, id) \/ Deactivate(h, id)
    \/ \E id \in Ids : \E version \in 1..MaxVersions :
          RollbackCollector(h, id, version)
    \/ \E list \in SUBSET Sensitive : UpdateDenylist(h, list)

\* Steps that wait for a securityPolicyMu writer to leave.
AwaitAdmission(h) == AdmitPolicy(h) \/ AdmitTransition(h) \/ RefusePolicy(h)

Proceed(h) ==
    \/ Commit(h)
    \/ Conflict(h)
    \/ AbandonSave(h)
    \/ CommitUnconfirmed(h)
    \/ AppendToMemory(h)
    \/ ReplaceDenylist(h)

Next ==
    \/ \E h \in Handlers : Start(h) \/ AwaitAdmission(h) \/ Proceed(h)
    \/ Restart

Spec == Init /\ [][Next]_vars

\* Every handler is a goroutine whose calls to the database and the validator
\* return, and sync.RWMutex lets blocked readers in when a writer leaves: a
\* request that waits for the mutex is not overtaken for ever.
Fairness ==
    \A h \in Handlers : SF_vars(AwaitAdmission(h)) /\ WF_vars(Proceed(h))

FairSpec == Spec /\ Fairness


-----------------------------------------------------------------------------
(* Properties.                                                               *)

\* Ids that carried nothing but Java policies.
JavaOnly(id) ==
    \A v \in DOMAIN journal[id] : journal[id][v].target = "java-extension"

\* Ids whose handlers all learned what became of their transaction.
Settled(id) == unconfirmed[id] = {}

InFlight(id, version) ==
    \E h \in Handlers : /\ handler[h].step = "append"
                        /\ handler[h].id = id
                        /\ handler[h].draft.version = version

\* Memory holds the rows of a Java policy in journal order and leaves out only
\* a row whose handler has yet to append it or never learned that it was
\* committed: "the last element" agents are served from is the newest version
\* anyone was told of.  (policyLifecycleMu spans commit and append.)
MemoryFollowsJournal ==
    \A id \in Ids : JavaOnly(id) =>
        /\ \A i, j \in DOMAIN configs[id] :
              i < j => configs[id][i].version < configs[id][j].version
        /\ \A v \in DOMAIN journal[id] :
              \/ v \in unconfirmed[id]
              \/ InFlight(id, v)
              \/ \E i \in DOMAIN configs[id] : configs[id][i] = journal[id][v]

\* row carries the PUBLISHED Java content next before what log[last] carries.
RestoresPredecessor(log, last, row) ==
    /\ last \in DOMAIN log
    /\ log[last].target = "java-extension"
    /\ IsActive(log[last])
    /\ row.source \in DOMAIN log
    /\ row.source < log[last].source
    /\ log[row.source].action = "PUBLISHED"
    /\ log[row.source].target = "java-extension"
    /\ log[row.source].body = row.body
    /\ \A k \in DOMAIN log :
          /\ log[k].action = "PUBLISHED"
          /\ log[k].target = "java-extension"
          => k <= row.source \/ log[last].source <= k

\* row repeats log[last], which it takes out of service.
ClosesRow(log, last, row) ==
    /\ last \in DOMAIN log
    /\ IsActive(log[last])
    /\ row = [Deactivated(log[last]) EXCEPT !.version = row.version]

\* What a row says of the row before it is true whatever handlers raced for the
\* version: a policy rollback steps back once from the active policy it
\* replaces, a deactivation closes the active row it copies.
LineageSound ==
    \A id \in Ids : \A v \in DOMAIN journal[id] :
        LET row == journal[id][v]
        IN  /\ row.action = "ROLLBACK" /\ row.target = "java-extension"
                 => RestoresPredecessor(journal[id], v - 1, row)
            /\ row.action = "DEACTIVATED" => ClosesRow(journal[id], v - 1, row)

\* The journal with its races implements the atomic lifecycle: a revision is in
\* service when the last row is an active Java row that carries it.
Lifecycle == INSTANCE PolicyLifecycle WITH
    published <- [id \in Ids |-> {v \in DOMAIN journal[id] :
                                     /\ journal[id][v].target = "java-extension"
                                     /\ journal[id][v].action = "PUBLISHED"}],
    inService <- [id \in Ids |-> IF id \in ActivePolicies(journal)
                                  THEN Latest(journal[id]).source ELSE 0]

ImplementsLifecycle == Lifecycle!Spec

\* Java policies that only Java handlers, each told the outcome, have written.
Governed(id) == JavaOnly(id) /\ Settled(id)

\* No two policies ever define the same metric: the name is checked against
\* memory, the row is committed later (validateExistingMetricNames).
MetricOwnerUnique ==
    \A a, b \in {id \in Ids : Settled(id)} : a # b =>
        \A i \in DOMAIN journal[a], j \in DOMAIN journal[b] :
            /\ journal[a][i].target = "java-extension"
            /\ journal[b][j].target = "java-extension"
            => MetricsOf[journal[a][i].body] \cap MetricsOf[journal[b][j].body] = {}

\* The policies active at any moment can be delivered as one PolicySet: within
\* its limit, and no internal id or event name defined twice.
ActivePoliciesCompose ==
    LET active == {id \in ActivePolicies(journal) : Governed(id)}
    IN  /\ Cardinality(active) <= MaxPoliciesPerSet
        /\ \A a, b \in active : a # b =>
              RulesOf[Latest(journal[a]).body] \cap RulesOf[Latest(journal[b]).body] = {}

\* A published policy never captures what the denylist in force bans, however
\* publications and denylist updates interleave (securityPolicyMu).
PublicationsRespectDenylist ==
    \A id \in ActivePolicies(journal) :
        Governed(id) /\ Latest(journal[id]).action = "PUBLISHED"
        => ~ BreaksDenylist(Latest(journal[id]).body, denylist)

\* The same of every active policy, rollbacks included.
ActivePoliciesRespectDenylist ==
    \A id \in ActivePolicies(journal) :
        Governed(id) => ~ BreaksDenylist(Latest(journal[id]).body, denylist)

\* Content that a rollback took out of service is not what a later rollback
\* brings back.
RollbackNeverRestoresDiscarded ==
    \A id \in Ids : Settled(id) => \A v, w \in DOMAIN journal[id] :
        /\ v < w
        /\ journal[id][v].action = "ROLLBACK"
        /\ journal[id][w].action = "ROLLBACK"
        => journal[id][w].source # journal[id][v-1].source

\* No two active Collector configurations may match the same agent.
ActiveCollectorsDisjoint ==
    \A a, b \in {id \in ActiveCollectors(journal) : Settled(id)} : a # b =>
        ScopeOf[Latest(journal[a]).body] \cap ScopeOf[Latest(journal[b]).body] = {}

\* With no request under way and every outcome known, the last version in
\* memory is the newest of the journal.
QuietMemoryIsCurrent ==
    (\A h \in Handlers : handler[h] = Idle) =>
        \A id \in Ids : Settled(id) /\ journal[id] # <<>> =>
            Latest(configs[id]) = Latest(journal[id])

\* Every request is answered: nobody waits for a mutex for ever.
RequestsAnswered ==
    \A h \in Handlers : handler[h] # Idle ~> handler[h] = Idle

=============================================================================
