---------------------------- MODULE PolicyDelivery ----------------------------
(***************************************************************************)
(* How the set of Java policies reaches an agent.                          *)
(*                                                                         *)
(* The server cannot call an agent.  It composes the set of active         *)
(* policies that select the agent, each with its version, whenever the     *)
(* agent polls, and decides whether to put it in the response.  What it    *)
(* knows of the agent is a record: the status last reported or assumed,    *)
(* and the set last acknowledged (ConfigHash).  An agent reports the       *)
(* outcome of a set once: it repeats the report until an exchange          *)
(* succeeds, and its later heartbeats carry none.                          *)
(*                                                                         *)
(* onMessage reads the record under a read lock, writes a copy back, reads *)
(* the configurations, and writes the copy back again: four critical       *)
(* sections, a step each.  pushJavaPolicySets runs after a publication,    *)
(* still under policyLifecycleMu: it lists the agents and then marks those *)
(* whose set changed.                                                      *)
(*                                                                         *)
(* ConfigJournal covers how configurations get into memory; here they do   *)
(* so in one step.  The hash of a set stands for its policies and their    *)
(* versions, so a set is modelled by them.  An agent process that restarts *)
(* comes back as a new agent.                                              *)
(***************************************************************************)
EXTENDS Naturals, FiniteSets

CONSTANTS
    Agents,        \* Java agents, by instance uid
    PolicyIds,
    Slots,         \* requests of one agent the server may process at once
    NoSlot,        \* an agent that waits for no response
    NoSet,         \* no set: nothing acknowledged, nothing offered
    Silent,        \* a message without RemoteConfigStatus
    Unsupported,   \* agent -> policy versions whose schema it lacks
    Refused,       \* agent -> policy versions it rejects itself
    MaxVersions,   \* bound: versions per policy
    MaxTimeouts,   \* bound: requests agents give up on
    MaxRestarts    \* bound: restarts of the server

PolicySets == SUBSET (PolicyIds \X Nat)
Statuses   == {"NOT_REPORTED", "CONFIG_PENDING", "APPLIED", "FAILED"}
Record     == [status : Statuses, applied : {NoSet} \cup PolicySets]
Unknown    == [status |-> "UNKNOWN"]   \* an agent without a record
Report     == [status : {"APPLIED", "FAILED"}, set : PolicySets]
Policy     == [version : Nat, active : BOOLEAN, scope : SUBSET Agents]

ASSUME SlotAssumption  == NoSlot \notin Slots
ASSUME AgentAssumption ==
    /\ Unsupported \in [Agents -> PolicySets]
    /\ Refused \in [Agents -> PolicySets]
ASSUME BoundAssumption == MaxVersions \in Nat /\ MaxTimeouts \in Nat /\ MaxRestarts \in Nat

VARIABLES
    latest,    \* the newest version of each policy in state.Configs
    record,    \* state.Agents
    stored,    \* opamp_agents
    queued,    \* agents whose record waits in agentUpdates
    push,      \* pushJavaPolicySets: agents still to visit, as it listed them
    handler,   \* onMessage: what each request knows so far
    waiting,   \* the request whose response an agent waits for
    running,   \* the set an agent runs (agent side)
    report,    \* the report an agent has yet to get through (agent side)
    acked,     \* history: sets an agent applied and said so
    timeouts,
    restarts

server == <<latest, record, stored, queued, push, handler>>
agent  == <<waiting, running, report, acked>>
vars   == <<server, agent, timeouts, restarts>>

-----------------------------------------------------------------------------

Idle == [stage |-> "idle"]

\* A request as it is sent, after the record was read, after the copy was
\* written back, after the set was composed, and its response.
Requests ==
    {Idle}
    \cup [stage : {"sent"}, report : {Silent} \cup Report]
    \cup [stage : {"read", "registered"}, report : {Silent} \cup Report, copy : Record]
    \cup [stage : {"composed"}, report : {Silent} \cup Report, copy : Record,
          bundle : PolicySets]
    \cup [stage : {"answer"}, offer : {NoSet} \cup PolicySets]

TypeOK ==
    /\ latest \in [PolicyIds -> Policy]
    /\ record \in [Agents -> {Unknown} \cup Record]
    /\ stored \in [Agents -> {Unknown} \cup Record]
    /\ queued \subseteq Agents
    /\ push \in [step : {"idle", "list", "visit"},
                 snapshot : [Agents -> {Unknown} \cup Record]]
    /\ handler \in [Agents -> [Slots -> Requests]]
    /\ waiting \in [Agents -> Slots \cup {NoSlot}]
    /\ running \in [Agents -> PolicySets]
    /\ report \in [Agents -> {Silent} \cup Report]
    /\ acked \in [Agents -> SUBSET PolicySets]
    /\ timeouts \in Nat
    /\ restarts \in Nat

\* effectiveJavaPolicySet, with the hash of encodePolicySet
Bundle(a) ==
    {<<p, latest[p].version>> : p \in {q \in PolicyIds : latest[q].active
                                                        /\ a \in latest[q].scope}}

Incompatible(a, set) == set \cap Unsupported[a] # {}
Rejects(a, set)      == set \cap Refused[a] # {}

\* Variant: a report counts whatever set it is about.
HasLatestAnyReport(copy, reported, bundle) ==
    IF reported # Silent THEN TRUE ELSE copy.applied = bundle

\* Variant: only a report counts.
HasLatestByReport(copy, reported, bundle) ==
    IF reported # Silent THEN reported.set = bundle ELSE FALSE

\* Variant: a set that was offered is taken for delivered.
HasLatestOncePending(copy, reported, bundle) ==
    IF reported # Silent THEN reported.set = bundle
    ELSE copy.applied = bundle \/ copy.status = "CONFIG_PENDING"

\* hasLatestRemoteConfig
HasLatest(copy, reported, bundle) ==
    IF reported # Silent THEN reported.set = bundle ELSE copy.applied = bundle

-----------------------------------------------------------------------------
(* Operators.                                                                *)

\* A publication, or a rollback: a new version either way.
Publish(p, scope) ==
    /\ push.step = "idle"
    /\ latest[p].version < MaxVersions
    /\ latest' = [latest EXCEPT ![p] =
                     [version |-> @.version + 1, active |-> TRUE, scope |-> scope]]
    /\ push' = [push EXCEPT !.step = "list"]
    /\ UNCHANGED <<record, stored, queued, handler, agent, timeouts, restarts>>

DeactivatePolicy(p) ==
    /\ push.step = "idle"
    /\ latest[p].active
    /\ latest[p].version < MaxVersions
    /\ latest' = [latest EXCEPT ![p].version = @ + 1, ![p].active = FALSE]
    /\ push' = [push EXCEPT !.step = "list"]
    /\ UNCHANGED <<record, stored, queued, handler, agent, timeouts, restarts>>

ListAgents ==
    /\ push.step = "list"
    /\ push' = [step |-> "visit", snapshot |-> record]
    /\ UNCHANGED <<latest, record, stored, queued, handler, agent, timeouts, restarts>>

\* pushJavaPolicySet decides by the snapshot and writes the current record.
PushTo(a) ==
    /\ push.step = "visit"
    /\ push.snapshot[a] # Unknown
    /\ push' = [push EXCEPT !.snapshot[a] = Unknown]
    /\ LET listed  == push.snapshot[a]
           settled == \/ Incompatible(a, Bundle(a))
                      \/ HasLatest(listed, Silent, Bundle(a)) /\ listed.status = "APPLIED"
       IN  IF settled
           THEN UNCHANGED <<record, queued>>
           ELSE /\ record' = [record EXCEPT ![a].status = "CONFIG_PENDING"]
                /\ queued' = queued \cup {a}
    /\ UNCHANGED <<latest, stored, handler, agent, timeouts, restarts>>

FinishPush ==
    /\ push.step = "visit"
    /\ \A a \in Agents : push.snapshot[a] = Unknown
    /\ push' = [push EXCEPT !.step = "idle"]
    /\ UNCHANGED <<latest, record, stored, queued, handler, agent, timeouts, restarts>>

-----------------------------------------------------------------------------
(* onMessage.                                                                *)

\* The agent sends a message.
Poll(a, s) ==
    /\ waiting[a] = NoSlot
    /\ handler[a][s] = Idle
    /\ handler' = [handler EXCEPT ![a][s] = [stage |-> "sent", report |-> report[a]]]
    /\ waiting' = [waiting EXCEPT ![a] = s]
    /\ UNCHANGED <<latest, record, stored, queued, push, running, report, acked,
                   timeouts, restarts>>

\* Variant: the status of a new agent is left empty.
KnownWithoutDefault(a) == IF record[a] = Unknown
                          THEN [status |-> "", applied |-> NoSet] ELSE record[a]

Known(a) == IF record[a] = Unknown
            THEN [status |-> "NOT_REPORTED", applied |-> NoSet] ELSE record[a]

\* state.RLock: the previous record; a report replaces its status.
Receive(a, s) ==
    /\ handler[a][s].stage = "sent"
    /\ LET reported == handler[a][s].report
           copy     == IF reported = Silent THEN Known(a)
                       ELSE [Known(a) EXCEPT !.status = reported.status]
       IN  handler' = [handler EXCEPT ![a][s] =
                          [stage |-> "read", report |-> reported, copy |-> copy]]
    /\ UNCHANGED <<latest, record, stored, queued, push, agent, timeouts, restarts>>

\* state.Lock: the copy is written.  The worker skips what was queued before:
\* its LastSeen is older.
Register(a, s) ==
    /\ handler[a][s].stage = "read"
    /\ record' = [record EXCEPT ![a] = handler[a][s].copy]
    /\ queued' = queued \ {a}
    /\ handler' = [handler EXCEPT ![a][s].stage = "registered"]
    /\ UNCHANGED <<latest, stored, push, agent, timeouts, restarts>>

\* state.RLock: the set as it is now.  It can always be composed: what does not compose is
\* not published.
Compose(a, s) ==
    /\ handler[a][s].stage = "registered"
    /\ handler' = [handler EXCEPT ![a][s] =
                      [stage |-> "composed", report |-> @.report, copy |-> @.copy,
                       bundle |-> Bundle(a)]]
    /\ UNCHANGED <<latest, record, stored, queued, push, agent, timeouts, restarts>>

\* Variant: an offer is taken for an acknowledgement.
OutcomeAppliedOnOffer(a, copy, reported, bundle) ==
    IF HasLatest(copy, reported, bundle)
    THEN copy
    ELSE [status |-> "CONFIG_PENDING", applied |-> bundle]

\* What the request makes of the record.
Outcome(a, copy, reported, bundle) ==
    IF Incompatible(a, bundle) THEN [copy EXCEPT !.status = "FAILED"]
    ELSE IF ~ HasLatest(copy, reported, bundle)
         THEN [copy EXCEPT !.status = "CONFIG_PENDING"]
    ELSE IF copy.status = "APPLIED" THEN [copy EXCEPT !.applied = bundle]
    ELSE copy

Offer(a, copy, reported, bundle) ==
    IF Incompatible(a, bundle) \/ HasLatest(copy, reported, bundle)
    THEN NoSet ELSE bundle

\* state.Lock again: the copy, whatever became of the record meanwhile.
Conclude(a, s) ==
    /\ handler[a][s].stage = "composed"
    /\ LET request == handler[a][s]
       IN  /\ record' = [record EXCEPT ![a] =
                 Outcome(a, request.copy, request.report, request.bundle)]
           /\ handler' = [handler EXCEPT ![a][s] =
                 [stage |-> "answer",
                  offer |-> Offer(a, request.copy, request.report, request.bundle)]]
    /\ queued' = queued \cup {a}
    /\ UNCHANGED <<latest, stored, push, agent, timeouts, restarts>>

-----------------------------------------------------------------------------
(* The network and the agent.                                                *)

\* The request or its response is lost; the agent notices.
Lose(a, s) ==
    /\ handler[a][s].stage \in {"sent", "answer"}
    /\ waiting[a] = s
    /\ handler' = [handler EXCEPT ![a][s] = Idle]
    /\ waiting' = [waiting EXCEPT ![a] = NoSlot]
    /\ UNCHANGED <<latest, record, stored, queued, push, running, report, acked,
                   timeouts, restarts>>

\* The agent gives up on a request that the server goes on processing.
Timeout(a) ==
    /\ waiting[a] # NoSlot
    /\ timeouts < MaxTimeouts
    /\ timeouts' = timeouts + 1
    /\ waiting' = [waiting EXCEPT ![a] = NoSlot]
    /\ UNCHANGED <<server, running, report, acked, restarts>>

Discard(a, s) ==
    /\ handler[a][s].stage = "answer"
    /\ waiting[a] # s
    /\ handler' = [handler EXCEPT ![a][s] = Idle]
    /\ UNCHANGED <<latest, record, stored, queued, push, agent, timeouts, restarts>>

\* The response arrives, and with it the report is known to have arrived.  A
\* set is applied as a whole or rejected as a whole, and reported next.
Deliver(a, s) ==
    /\ handler[a][s].stage = "answer"
    /\ waiting[a] = s
    /\ LET offer == handler[a][s].offer
       IN  \/ /\ offer = NoSet
              /\ report' = [report EXCEPT ![a] = Silent]
              /\ UNCHANGED <<running, acked>>
           \/ /\ offer # NoSet
              /\ ~ Rejects(a, offer)
              /\ running' = [running EXCEPT ![a] = offer]
              /\ report' = [report EXCEPT ![a] = [status |-> "APPLIED", set |-> offer]]
              /\ acked' = [acked EXCEPT ![a] = @ \cup {offer}]
           \/ /\ offer # NoSet
              /\ Rejects(a, offer)
              /\ report' = [report EXCEPT ![a] = [status |-> "FAILED", set |-> offer]]
              /\ UNCHANGED <<running, acked>>
    /\ handler' = [handler EXCEPT ![a][s] = Idle]
    /\ waiting' = [waiting EXCEPT ![a] = NoSlot]
    /\ UNCHANGED <<latest, record, stored, queued, push, timeouts, restarts>>

-----------------------------------------------------------------------------
(* The database.                                                             *)

\* persistAgentUpdates.  What is queued is the record as it is: any later write
\* by a message makes it stale, any later write by a push queues again.  A full
\* queue drops an update: the step is not taken.
Persist(a) ==
    /\ a \in queued
    /\ stored' = [stored EXCEPT ![a] = record[a]]
    /\ queued' = queued \ {a}
    /\ UNCHANGED <<latest, record, push, handler, agent, timeouts, restarts>>

\* main loads what the database has.
Restart ==
    /\ restarts < MaxRestarts
    /\ restarts' = restarts + 1
    /\ record' = stored
    /\ queued' = {}
    /\ push' = [step |-> "idle", snapshot |-> [a \in Agents |-> Unknown]]
    /\ handler' = [a \in Agents |-> [s \in Slots |-> Idle]]
    /\ waiting' = [a \in Agents |-> NoSlot]
    /\ UNCHANGED <<latest, stored, running, report, acked, timeouts>>

Init ==
    /\ latest = [p \in PolicyIds |-> [version |-> 0, active |-> FALSE, scope |-> {}]]
    /\ record = [a \in Agents |-> Unknown]
    /\ stored = [a \in Agents |-> Unknown]
    /\ queued = {}
    /\ push = [step |-> "idle", snapshot |-> [a \in Agents |-> Unknown]]
    /\ handler = [a \in Agents |-> [s \in Slots |-> Idle]]
    /\ waiting = [a \in Agents |-> NoSlot]
    /\ running = [a \in Agents |-> {}]
    /\ report = [a \in Agents |-> Silent]
    /\ acked = [a \in Agents |-> {}]
    /\ timeouts = 0
    /\ restarts = 0

Operate ==
    \E p \in PolicyIds : DeactivatePolicy(p)
                         \/ \E scope \in SUBSET Agents : Publish(p, scope)

PushStep == ListAgents \/ FinishPush \/ \E a \in Agents : PushTo(a)

OnMessage(a, s) == Register(a, s) \/ Compose(a, s) \/ Conclude(a, s) \/ Discard(a, s)

Next ==
    \/ Operate
    \/ PushStep
    \/ \E a \in Agents :
          \/ \E s \in Slots : \/ Poll(a, s) \/ Receive(a, s) \/ OnMessage(a, s)
                              \/ Lose(a, s) \/ Deliver(a, s)
          \/ Timeout(a)
          \/ Persist(a)
    \/ Restart

Spec == Init /\ [][Next]_vars

\* A handler runs to its end, an agent polls for as long as it lives, and the
\* network does not lose every request or every response.  Operators need not
\* act, and the worker need not persist.
Fairness ==
    /\ WF_vars(PushStep)
    /\ \A a \in Agents :
          /\ WF_vars(\E s \in Slots : Poll(a, s))
          /\ \A s \in Slots : /\ WF_vars(OnMessage(a, s))
                              /\ SF_vars(Receive(a, s))
                              /\ SF_vars(Deliver(a, s))

FairSpec == Spec /\ Fairness

-----------------------------------------------------------------------------
(* Properties.                                                               *)

\* The set a record names as applied, in memory or in the database, is one the
\* agent acknowledged: an offer, a push, a stale copy or a reload never puts
\* another there.
AckedTruth ==
    \A a \in Agents :
        /\ record[a] # Unknown => record[a].applied \in {NoSet} \cup acked[a]
        /\ stored[a] # Unknown => stored[a].applied \in {NoSet} \cup acked[a]

\* Nothing of the agent is under way and it has nothing left to report.
Quiet(a) ==
    /\ record[a] # Unknown
    /\ waiting[a] = NoSlot
    /\ \A s \in Slots : handler[a][s] = Idle
    /\ report[a] = Silent

\* With nothing under way, an agent whose status is APPLIED runs the set its
\* record names.  (Not so after a restart, which may bring back an old record,
\* or after a handler outlived the request it served.)
QuietTruth ==
    restarts = 0 /\ timeouts = 0 =>
        \A a \in Agents :
            Quiet(a) /\ record[a].status = "APPLIED" => running[a] = record[a].applied

\* An agent that keeps polling ends up with the newest set, unless it cannot
\* take it.
Converges ==
    \A a \in Agents :
        <>[](\/ running[a] = Bundle(a)
             \/ Incompatible(a, Bundle(a))
             \/ Rejects(a, Bundle(a)))

\* Once an agent has the newest set it is not offered it for ever.
OffersCease ==
    \A a \in Agents :
        <>[](\/ \A s \in Slots : handler[a][s].stage = "answer" => handler[a][s].offer = NoSet
             \/ Rejects(a, Bundle(a)))

Pending(a) == record[a].status = "CONFIG_PENDING"

\* A pending configuration is confirmed or rejected in the end.
PendingSettles == \A a \in Agents : Pending(a) ~> ~ Pending(a)

=============================================================================
