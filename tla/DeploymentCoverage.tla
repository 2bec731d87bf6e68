-------------------------- MODULE DeploymentCoverage --------------------------
(***************************************************************************)
(* What the console says of a Java policy: applied, pending, removed.      *)
(*                                                                         *)
(* Every decision about the set of an agent is also noted as one row per   *)
(* policy, version and agent.  The notes go through a queue, which drops   *)
(* what does not fit, to one worker, which writes the rows in the order of *)
(* the queue.  GET /deployments reads the rows and then the agents and     *)
(* policies in memory, and completes the first with the second: a row is   *)
(* judged by what its agent holds, an agent without a row gets one.  The   *)
(* console counts the rows of the newest version into one status.          *)
(*                                                                         *)
(* The module composes PolicyDelivery with the notes: each of its actions  *)
(* is taken together with what the same code queues.  A handler queues     *)
(* after it wrote the record and before its response leaves;               *)
(* pushJavaPolicySet queues before it writes.  Rows read at one moment and *)
(* memory at a later one are rows written as late as they may be, so the   *)
(* view is a function of the state.                                        *)
(***************************************************************************)
EXTENDS PolicyDelivery, Sequences

CONSTANTS
    None,           \* nothing to note, no row
    QueueLimit      \* entries of deploymentUpdates; 512 in the code

ASSUME CoverageAssumption ==
    /\ QueueLimit \in Nat
    /\ \A set \in SUBSET (PolicyIds \X (0..MaxVersions)) : set # NoSet

Observed == {"MATCHED", "CONFIG_PENDING", "APPLIED", "FAILED", "NOT_REPORTED",
             "REMOVAL_PENDING", "REMOVED"}
Row      == [observed : Observed, desired : BOOLEAN]
Update   == [policy : PolicyIds, version : Nat, agent : Agents, row : Row]

\* What queueJavaPolicyDeployments is called with: the set, the status, and what the
\* agent was known to hold before.
Note     == [set : PolicySets, status : Statuses, held : PolicySets]

VARIABLES
    rows,        \* config_deployments
    updates,     \* deploymentUpdates
    recording,   \* the note a handler has yet to queue before it responds
    matching,    \* the policy queueMatchingDeployments has yet to be called for
    noted,       \* agents pushJavaPolicySet has queued rows for and not yet left
    online       \* agents whose liveStatus is ONLINE

notes       == <<rows, updates, recording, matching, noted>>
coverageVars == <<vars, notes, online>>

ASSUME NoneAssumption == None \notin PolicyIds \cup Note \cup Row

-----------------------------------------------------------------------------
(* Queueing                                                                *)

Held(r) == IF r = Unknown \/ r.applied = NoSet THEN {} ELSE r.applied

PresentIn(p, set) == \E entry \in set : entry[1] = p

RowOf(observed, desired) == [observed |-> observed, desired |-> desired]

UpdateOf(p, version, a, observed, desired) ==
    [policy |-> p, version |-> version, agent |-> a, row |-> RowOf(observed, desired)]

\* Variant: a removal that is not acknowledged has no status.
RemovalStatusEmpty(status) == IF status = "APPLIED" THEN "REMOVED" ELSE ""

RemovalStatus(status) ==
    CASE status = "APPLIED"        -> "REMOVED"
      [] status = "CONFIG_PENDING" -> "REMOVAL_PENDING"
      [] OTHER                     -> status

\* Each policy of the set as desired; each policy held before and not in the set as a
\* removal, of the version that is the newest by now.
RowsFor(a, note) ==
    {UpdateOf(entry[1], entry[2], a, note.status, TRUE) : entry \in note.set}
    \cup {UpdateOf(p, latest[p].version, a, RemovalStatus(note.status), FALSE) :
            p \in {q \in PolicyIds : PresentIn(q, note.held) /\ ~ PresentIn(q, note.set)}}

\* Some order of the rows, as far as it fits.
Enqueue(batch) ==
    \E n \in 0..Cardinality(batch) :
        \E order \in [1..n -> batch] :
            /\ \A i, j \in 1..n : order[i] = order[j] => i = j
            /\ Len(updates) + n <= QueueLimit
            /\ n < Cardinality(batch) => Len(updates) + n = QueueLimit
            /\ updates' = updates \o order

NoteOf(set, status, held) == [set |-> set, status |-> status, held |-> held]

-----------------------------------------------------------------------------
(* A publication and its push                                              *)

\* createConfig: rows of the new version are queued before its push.
PublishConfig(p, scope) ==
    /\ Publish(p, scope)
    /\ matching' = p
    /\ UNCHANGED <<rows, updates, recording, noted, online>>

\* A rollback or a deactivation pushes at once.
Transition(p) ==
    /\ \/ \E scope \in SUBSET Agents : Publish(p, scope)
       \/ DeactivatePolicy(p)
    /\ UNCHANGED <<notes, online>>

QueueMatching ==
    /\ matching # None
    /\ LET p == matching
           matched == {a \in latest[p].scope : record[a] # Unknown}
       IN  Enqueue({UpdateOf(p, latest[p].version, a, "MATCHED", TRUE) : a \in matched})
    /\ matching' = None
    /\ UNCHANGED <<vars, rows, recording, noted, online>>

ListForPush ==
    /\ matching = None
    /\ ListAgents
    /\ UNCHANGED <<notes, online>>

PushStatus(a, listed) ==
    IF Incompatible(a, Bundle(a)) THEN "FAILED"
    ELSE IF HasLatest(listed, Silent, Bundle(a)) /\ listed.status = "APPLIED" THEN "APPLIED"
    ELSE "CONFIG_PENDING"

\* pushJavaPolicySet queues by the snapshot ...
QueuePush(a) ==
    /\ push.step = "visit"
    /\ push.snapshot[a] # Unknown
    /\ a \notin noted
    /\ LET listed == push.snapshot[a]
       IN  Enqueue(RowsFor(a, NoteOf(Bundle(a), PushStatus(a, listed), Held(listed))))
    /\ noted' = noted \cup {a}
    /\ UNCHANGED <<vars, rows, recording, matching, online>>

\* ... and then writes the record.
WritePush(a) ==
    /\ a \in noted
    /\ PushTo(a)
    /\ noted' = noted \ {a}
    /\ UNCHANGED <<rows, updates, recording, matching, online>>

-----------------------------------------------------------------------------
(* Messages                                                                *)

\* Variant: the status the agent reported is noted, whatever set it reported on.
NotedStatusReported(a, copy, reported, bundle) ==
    IF reported # Silent THEN reported.status
    ELSE Outcome(a, copy, reported, bundle).status

\* deploymentStatus, which is the status written to the record.
NotedStatus(a, copy, reported, bundle) == Outcome(a, copy, reported, bundle).status

\* deploymentAgent is the agent as it was before its policies were set.
ConcludeAndNote(a, s) ==
    LET request == handler[a][s]
    IN  /\ Conclude(a, s)
        /\ recording' = [recording EXCEPT ![a][s] =
              NoteOf(request.bundle,
                     NotedStatus(a, request.copy, request.report, request.bundle),
                     Held(request.copy))]
        /\ UNCHANGED <<rows, updates, matching, noted, online>>

QueueNote(a, s) ==
    /\ recording[a][s] # None
    /\ Enqueue(RowsFor(a, recording[a][s]))
    /\ recording' = [recording EXCEPT ![a][s] = None]
    /\ UNCHANGED <<vars, rows, matching, noted, online>>

\* LastSeen is now.
RegisterSeen(a, s) ==
    /\ Register(a, s)
    /\ online' = online \cup {a}
    /\ UNCHANGED notes

\* Three polls missed: DEGRADED, and later OFFLINE.
Fade(a) ==
    /\ a \in online
    /\ online' = online \ {a}
    /\ UNCHANGED <<vars, notes>>

\* The response leaves when the handler is done.
Respond(a, s) ==
    /\ recording[a][s] = None
    /\ Lose(a, s) \/ Deliver(a, s) \/ Discard(a, s)
    /\ UNCHANGED <<notes, online>>

\* Steps that note nothing.
Plain(a) ==
    /\ \/ \E s \in Slots : Poll(a, s) \/ Receive(a, s) \/ Compose(a, s)
       \/ Timeout(a)
       \/ Persist(a)
    /\ UNCHANGED <<notes, online>>

-----------------------------------------------------------------------------
(* The worker and the database                                             *)

\* recordDeployment: the row is written over, or the database fails and it is lost.
PersistRow ==
    /\ updates # <<>>
    /\ updates' = Tail(updates)
    /\ \/ LET u == Head(updates)
          IN  rows' = [rows EXCEPT ![u.policy][u.version][u.agent] = u.row]
       \/ rows' = rows
    /\ UNCHANGED <<vars, recording, matching, noted, online>>

RestartAll ==
    /\ Restart
    /\ updates' = <<>>
    /\ recording' = [a \in Agents |-> [s \in Slots |-> None]]
    /\ matching' = None
    /\ noted' = {}
    /\ UNCHANGED <<rows, online>>

CoverageInit ==
    /\ Init
    /\ rows = [p \in PolicyIds |-> [v \in 1..MaxVersions |-> [a \in Agents |-> None]]]
    /\ updates = <<>>
    /\ recording = [a \in Agents |-> [s \in Slots |-> None]]
    /\ matching = None
    /\ noted = {}
    /\ online = {}

CoverageNext ==
    \/ \E p \in PolicyIds : Transition(p) \/ \E scope \in SUBSET Agents : PublishConfig(p, scope)
    \/ QueueMatching \/ ListForPush \/ (FinishPush /\ UNCHANGED <<notes, online>>)
    \/ \E a \in Agents :
          \/ QueuePush(a) \/ WritePush(a)
          \/ Plain(a) \/ Fade(a)
          \/ \E s \in Slots :
                RegisterSeen(a, s) \/ ConcludeAndNote(a, s) \/ QueueNote(a, s) \/ Respond(a, s)
    \/ PersistRow
    \/ RestartAll

CoverageSpec == CoverageInit /\ [][CoverageNext]_coverageVars

-----------------------------------------------------------------------------
(* GET /deployments, for the newest version of a policy                    *)

Stored(p, a) ==
    IF latest[p].version = 0 THEN None ELSE rows[p][latest[p].version][a]

Live(a) == record[a] # Unknown /\ a \in online

Desired(p, a) == latest[p].active /\ a \in latest[p].scope

Present(p, a)  == PresentIn(p, Held(record[a]))
Current(p, a)  == <<p, latest[p].version>> \in Held(record[a])

KnownRemovalTarget(p, a) ==
    \/ Present(p, a)
    \/ \E v \in 1..MaxVersions : rows[p][v][a] # None /\ rows[p][v][a].desired

LiveRow(p, a) ==
    RowOf(CASE record[a].status = "FAILED" -> "FAILED"
            [] record[a].status = "APPLIED" /\ Current(p, a) -> "APPLIED"
            [] OTHER -> "CONFIG_PENDING", TRUE)

LiveRemovalRow(p, a) ==
    RowOf(CASE record[a].status = "FAILED" -> "FAILED"
            [] record[a].status = "APPLIED" /\ ~ Present(p, a) -> "REMOVED"
            [] OTHER -> "REMOVAL_PENDING", FALSE)

\* The row the view has for an agent: the stored one first.
ViewRow(p, a) ==
    IF Stored(p, a) # None THEN Stored(p, a)
    ELSE IF latest[p].version = 0 \/ ~ Live(a) THEN None
    ELSE IF Desired(p, a) THEN LiveRow(p, a)
    ELSE IF KnownRemovalTarget(p, a) THEN LiveRemovalRow(p, a)
    ELSE None

\* CountsForLiveCoverage
Counts(p, a) ==
    LET row == ViewRow(p, a)
    IN  /\ row # None
        /\ Live(a)
        /\ \/ ~ row.desired /\ ~ (latest[p].active /\ row.observed = "REMOVED")
           \/ a \in latest[p].scope

\* Variant: any version of the policy will do.
LiveStatusAnyVersion(p, a) ==
    LET row == ViewRow(p, a)
    IN  CASE ~ row.desired -> row.observed
          [] row.desired /\ Present(p, a) /\ record[a].status = "APPLIED" -> "APPLIED"
          [] OTHER -> "CONFIG_PENDING"

\* Variant: a removal is done once the agent is.
LiveStatusRemovedWhenApplied(p, a) ==
    LET row == ViewRow(p, a)
    IN  CASE ~ row.desired ->
                IF record[a].status = "APPLIED" THEN "REMOVED" ELSE "REMOVAL_PENDING"
          [] row.desired /\ Current(p, a) /\ record[a].status = "APPLIED" -> "APPLIED"
          [] OTHER -> "CONFIG_PENDING"

\* applyDeploymentLiveState for a live agent, as deploymentRecordStatus shows it.
LiveStatus(p, a) ==
    LET row == ViewRow(p, a)
    IN  CASE ~ row.desired /\ ~ Present(p, a) /\ row.observed = "REMOVED" -> "REMOVED"
          [] ~ row.desired /\ row.observed = "FAILED" -> "FAILED"
          [] ~ row.desired /\ row.observed # "FAILED"
                /\ (Present(p, a) \/ row.observed # "REMOVED") -> "REMOVAL_PENDING"
          [] row.desired /\ Current(p, a) ->
                IF record[a].status = "APPLIED" THEN "APPLIED" ELSE "APPLIED_PENDING_REPLACEMENT"
          [] row.desired /\ Present(p, a) /\ ~ Current(p, a) -> "NOT_IN_USE"
          [] row.desired /\ ~ Present(p, a) ->
                IF row.observed = "FAILED" THEN "FAILED"
                ELSE IF record[a].status = "CONFIG_PENDING" THEN "CONFIG_PENDING"
                ELSE "NOT_IN_USE"

Matched(p)         == {a \in Agents : Counts(p, a)}
MatchedAs(p, s)    == {a \in Matched(p) : LiveStatus(p, a) = s}
DesiredMatched(p)  == {a \in Matched(p) : ViewRow(p, a).desired}
RemovalMatched(p)  == Matched(p) \ DesiredMatched(p)

\* summarizePolicyDestinations
Summary(p) ==
    IF Matched(p) = {} THEN IF latest[p].active THEN "NO_LIVE_TARGETS" ELSE "DEACTIVATED"
    ELSE IF ~ latest[p].active
    THEN CASE MatchedAs(p, "REMOVED") = Matched(p) -> "REMOVED"
           [] MatchedAs(p, "REMOVED") # Matched(p) ->
                 IF MatchedAs(p, "FAILED") # {} THEN "FAILED" ELSE "REMOVAL_PENDING"
    ELSE IF DesiredMatched(p) = {}
    THEN IF MatchedAs(p, "FAILED") # {} THEN "FAILED"
         ELSE IF MatchedAs(p, "REMOVAL_PENDING") # {} THEN "REMOVAL_PENDING"
         ELSE "NO_LIVE_TARGETS"
    ELSE IF /\ MatchedAs(p, "APPLIED") = DesiredMatched(p)
            /\ MatchedAs(p, "REMOVED") = RemovalMatched(p) THEN "APPLIED"
    ELSE IF MatchedAs(p, "APPLIED_PENDING_REPLACEMENT") = Matched(p)
         THEN "APPLIED_PENDING_REPLACEMENT"
    ELSE IF MatchedAs(p, "APPLIED") # {} THEN "PARTIAL"
    ELSE IF MatchedAs(p, "FAILED") # {} THEN "FAILED"
    ELSE IF MatchedAs(p, "CONFIG_PENDING") \cup MatchedAs(p, "APPLIED_PENDING_REPLACEMENT") # {}
         THEN "CONFIG_PENDING"
    ELSE "NOT_IN_USE"

-----------------------------------------------------------------------------
(* Properties                                                              *)

CoverageTypeOK ==
    /\ TypeOK
    /\ rows \in [PolicyIds -> [1..MaxVersions -> [Agents -> {None} \cup Row]]]
    /\ updates \in Seq(Update)
    /\ recording \in [Agents -> [Slots -> {None} \cup Note]]
    /\ matching \in {None} \cup PolicyIds
    /\ noted \subseteq Agents
    /\ online \subseteq Agents

\* An agent that the console counts as applied runs the newest version of the policy:
\* no late note, stale row, lost update, reload or heartbeat of another agent makes the
\* count run ahead of the agents.
AppliedRuns ==
    \A p \in PolicyIds, a \in Agents :
        Counts(p, a) /\ LiveStatus(p, a) = "APPLIED" =>
            <<p, latest[p].version>> \in running[a]

\* The status "applied" is not a majority: every live agent the selector names runs the
\* newest version, unless a note of an older set arrived late and filed it as a removal.
AppliedIsComplete ==
    \A p \in PolicyIds :
        Summary(p) = "APPLIED" =>
            \A a \in latest[p].scope :
                Live(a) => \/ <<p, latest[p].version>> \in running[a]
                           \/ ~ ViewRow(p, a).desired

\* A row that says a version was applied, in the database or on its way there, is about an
\* agent that said so; one that says it was removed, about an agent that acknowledged a set
\* without the policy.
RowTruth(p, v, a, row) ==
    /\ row.desired /\ row.observed = "APPLIED" => \E set \in acked[a] : <<p, v>> \in set
    /\ row.observed = "REMOVED" => \E set \in acked[a] : ~ PresentIn(p, set)

RowsTruth ==
    /\ \A p \in PolicyIds, v \in 1..MaxVersions, a \in Agents :
          rows[p][v][a] # None => RowTruth(p, v, a, rows[p][v][a])
    /\ \A i \in DOMAIN updates :
          RowTruth(updates[i].policy, updates[i].version, updates[i].agent, updates[i].row)

Working(a) == \E s \in Slots : handler[a][s].stage \in {"registered", "composed"}

\* When the console says that a policy was removed, no live agent it counts runs it: a
\* row that says so is written when the agent has it gone and cannot get it back.  (While a
\* message is being handled its report is believed before it is compared; and where there
\* is no row of the newest version, a record older than a crash is believed.)
RemovedIsGone ==
    timeouts = 0 =>
        \A p \in PolicyIds, a \in Agents :
            /\ ~ latest[p].active
            /\ PresentIn(p, running[a])
            /\ ~ Working(a)
            /\ Counts(p, a)
            /\ restarts = 0 \/ Stored(p, a) # None
            => Summary(p) # "REMOVED"

\* Nothing is on its way to the rows, the agents or the records.
Settled ==
    /\ updates = <<>>
    /\ push.step = "idle"
    /\ \A a \in Agents : Quiet(a)

\* main.go:2240-2246: what memory knows is included so that "a publish or removal
\* acknowledgement" does not disappear "while its durable row waits in the database
\* queue"; so with the removal acknowledged and nothing waiting it is not shown as pending.
RemovalSettles ==
    Settled =>
        \A p \in PolicyIds, a \in Agents :
            /\ Counts(p, a)
            /\ record[a].status = "APPLIED"
            /\ ~ PresentIn(p, running[a])
            => LiveStatus(p, a) # "REMOVAL_PENDING"

=============================================================================
