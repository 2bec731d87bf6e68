---------------------------- MODULE AgentInventory ----------------------------
(***************************************************************************)
(* Which agents the server knows, and what of them reaches the database.   *)
(*                                                                         *)
(* state.Agents holds at most Limit agents: a new one displaces the oldest *)
(* that is offline, or is turned away.  What changes in memory is queued   *)
(* for one worker that writes opamp_agents; the queue is bounded, updates  *)
(* that do not fit are dropped, and an eviction that does not fit is       *)
(* called off.  Rows and queued updates carry LastSeen, which decides      *)
(* between the old and the new.                                            *)
(*                                                                         *)
(* A message is handled in steps (see PolicyDelivery, which follows one    *)
(* record); several may be under way, even of one agent, whose earlier     *)
(* request timed out.  Time is a clock of ticks.  The connection settings  *)
(* offered once to each Collector (PollOffers) are left out.               *)
(***************************************************************************)
EXTENDS Naturals, Sequences, FiniteSets

CONSTANTS
    Uids,          \* agents, by instance uid
    Requests,      \* messages the server may process at once
    Limit,         \* maxKnownOpAMPAgents (4096)
    QueueSize,     \* capacity of agentUpdates (256)
    OfflineAfter,  \* ticks without a message before an agent is offline
    Retention,     \* agentInventoryTTL, in ticks
    MaxClock,      \* bound: ticks
    MaxPushes,     \* bound: publications
    MaxRestarts    \* bound: restarts

ASSUME LimitAssumption ==
    /\ Limit \in Nat \ {0} /\ QueueSize \in Nat \ {0}
    /\ OfflineAfter \in Nat /\ Retention \in Nat
ASSUME BoundAssumption == MaxClock \in Nat /\ MaxPushes \in Nat /\ MaxRestarts \in Nat

VARIABLES
    clock,     \* now; 0 is before all time, the zero time.Time
    known,     \* keys of state.Agents
    lastSeen,  \* LastSeen of the record under each key
    queue,     \* agentUpdates
    rows,      \* opamp_agents: last_seen of each row, 0 for no row
    request,   \* onMessage
    toPush,    \* agents pushJavaPolicySets has listed and not visited
    excused,   \* history: agents whose requests overlapped, a write of whom was
               \* dropped or failed, or that a push made up, since the server started
    pushes,
    restarts

memory == <<known, lastSeen>>
bounds == <<pushes, restarts>>
vars   == <<clock, memory, queue, rows, request, toPush, excused, bounds>>

Idle == [step |-> "idle"]
Busy == [step : {"read", "registered"}, uid : Uids, seen : Nat]

\* An update of the record a push made up carries no uid.
Update == [kind : {"update", "delete"}, uid : Uids, seen : Nat] \cup [kind : {"nobody"}]

TypeOK ==
    /\ clock \in Nat \ {0}
    /\ known \subseteq Uids
    /\ lastSeen \in [Uids -> Nat]
    /\ queue \in Seq(Update) /\ Len(queue) <= QueueSize
    /\ rows \in [Uids -> Nat]
    /\ request \in [Requests -> {Idle} \cup Busy]
    /\ toPush \subseteq Uids
    /\ excused \subseteq Uids
    /\ pushes \in Nat /\ restarts \in Nat

-----------------------------------------------------------------------------

Tick ==
    /\ clock < MaxClock
    /\ clock' = clock + 1
    /\ UNCHANGED <<memory, queue, rows, request, toPush, excused, bounds>>

QueueHasRoom == Len(queue) < QueueSize

\* Variant: the queue takes whatever comes.
EnqueueUnbounded(update) == queue' = Append(queue, update)

\* queueAgentUpdate drops what does not fit.
Enqueue(update) ==
    queue' = IF QueueHasRoom THEN Append(queue, update) ELSE queue

Write(u, seen) ==
    /\ known' = known \cup {u}
    /\ lastSeen' = [lastSeen EXCEPT ![u] = seen]

\* liveStatus.  A record without a transport has no status at all.
Offline(u) == lastSeen[u] > 0 /\ clock - lastSeen[u] > OfflineAfter

\* The oldest agents that may be displaced.
Evictable ==
    {u \in known : Offline(u) /\ \A w \in known : Offline(w) => lastSeen[u] <= lastSeen[w]}

Reply(r) == request' = [request EXCEPT ![r] = Idle]

\* onMessage: the record is read under a read lock, the copy stamped.
Receive(r, u) ==
    /\ request[r] = Idle
    /\ request' = [request EXCEPT ![r] = [step |-> "read", uid |-> u, seen |-> clock]]
    /\ excused' = IF \E q \in Requests : request[q] # Idle /\ request[q].uid = u
                  THEN excused \cup {u} ELSE excused
    /\ UNCHANGED <<clock, memory, queue, rows, toPush, bounds>>

Admit(r) ==
    /\ request[r].step = "read"
    /\ request[r].uid \in known \/ Cardinality(known) < Limit
    /\ Write(request[r].uid, request[r].seen)
    /\ request' = [request EXCEPT ![r].step = "registered"]
    /\ UNCHANGED <<clock, queue, rows, toPush, excused, bounds>>

\* Variant: an eviction whose deletion does not fit the queue goes ahead.
EvictionQueuedIfRoom(u) == Enqueue([kind |-> "delete", uid |-> u, seen |-> lastSeen[u]])

\* queueAgentDeletion
EvictionQueued(u) ==
    /\ QueueHasRoom
    /\ Enqueue([kind |-> "delete", uid |-> u, seen |-> lastSeen[u]])

NeedsEviction(r) ==
    /\ request[r].step = "read"
    /\ request[r].uid \notin known
    /\ Cardinality(known) >= Limit

Evict(r, u) ==
    /\ NeedsEviction(r)
    /\ u \in Evictable
    /\ EvictionQueued(u)
    /\ known' = (known \ {u}) \cup {request[r].uid}
    /\ lastSeen' = [lastSeen EXCEPT ![u] = 0, ![request[r].uid] = request[r].seen]
    /\ request' = [request EXCEPT ![r].step = "registered"]
    /\ UNCHANGED <<clock, rows, toPush, excused, bounds>>

\* Nobody to displace, or the deletion cannot be queued: the displaced agent is
\* put back and the new one turned away.
TurnAway(r) ==
    /\ NeedsEviction(r)
    /\ Evictable = {} \/ ~ QueueHasRoom
    /\ Reply(r)
    /\ UNCHANGED <<clock, memory, queue, rows, toPush, excused, bounds>>

\* The second write, whatever became of the record, and the update.  There is
\* no second write when there is no configuration to deliver.
Settle(r) ==
    /\ request[r].step = "registered"
    /\ Write(request[r].uid, request[r].seen) \/ UNCHANGED <<known, lastSeen>>
    /\ Enqueue([kind |-> "update", uid |-> request[r].uid, seen |-> request[r].seen])
    /\ excused' = IF QueueHasRoom THEN excused ELSE excused \cup {request[r].uid}
    /\ Reply(r)
    /\ UNCHANGED <<clock, rows, toPush, bounds>>

-----------------------------------------------------------------------------
(* A publication marks the agents whose policies change.  What a push made   *)
(* up has no kind and is not listed.                                         *)

ListAgents ==
    /\ toPush = {}
    /\ pushes < MaxPushes
    /\ pushes' = pushes + 1
    /\ toPush' \in SUBSET {u \in known : lastSeen[u] > 0}
    /\ UNCHANGED <<clock, memory, queue, rows, request, excused, restarts>>

\* pushJavaPolicySet writes under the listed uid what it reads there: of an
\* agent evicted since, the zero Agent.
PushTo(u) ==
    /\ u \in toPush
    /\ toPush' = toPush \ {u}
    /\ known' = known \cup {u}
    /\ Enqueue(IF u \in known /\ lastSeen[u] > 0
               THEN [kind |-> "update", uid |-> u, seen |-> lastSeen[u]]
               ELSE [kind |-> "nobody"])
    /\ excused' = IF u \in known THEN excused ELSE excused \cup {u}
    /\ UNCHANGED <<clock, lastSeen, rows, request, bounds>>

-----------------------------------------------------------------------------
(* The worker: persistAgentUpdates.                                          *)

\* Variant: the row is replaced without comparing last_seen.
UpsertedAlways(u, seen) == [rows EXCEPT ![u] = seen]

\* upsertAgent: WHERE opamp_agents.last_seen <= EXCLUDED.last_seen
Upserted(u, seen) == IF rows[u] <= seen THEN [rows EXCEPT ![u] = seen] ELSE rows

\* deleteAgentSeenAtOrBefore
Deleted(u, seen) == IF rows[u] <= seen THEN [rows EXCEPT ![u] = 0] ELSE rows

\* The agent is gone from memory, or a newer message was recorded.
Outdated(update) == update.uid \notin known \/ lastSeen[update.uid] > update.seen

Work ==
    /\ queue # <<>>
    /\ queue' = Tail(queue)
    /\ LET update == Head(queue)
       IN  \/ /\ update.kind = "delete"
              /\ rows' = Deleted(update.uid, update.seen)
              /\ UNCHANGED excused
           \/ /\ update.kind = "update"
              /\ ~ Outdated(update)
              /\ rows' = Upserted(update.uid, update.seen)
              /\ UNCHANGED excused
           \/ /\ update.kind = "nobody" \/ (update.kind = "update" /\ Outdated(update))
              /\ UNCHANGED <<rows, excused>>
           \/ /\ update.kind # "nobody"     \* the database fails: logged, forgotten
              /\ excused' = excused \cup {update.uid}
              /\ UNCHANGED rows
    /\ UNCHANGED <<clock, memory, request, toPush, bounds>>

\* main prunes what is older than Retention and loads the rest.
Restart ==
    /\ restarts < MaxRestarts
    /\ restarts' = restarts + 1
    /\ rows' = [u \in Uids |-> IF rows[u] + Retention < clock THEN 0 ELSE rows[u]]
    /\ known' = {u \in Uids : rows'[u] > 0}
    /\ lastSeen' = rows'
    /\ queue' = <<>>
    /\ request' = [r \in Requests |-> Idle]
    /\ toPush' = {}
    /\ excused' = {}
    /\ UNCHANGED <<clock, pushes>>

Init ==
    /\ clock = 1
    /\ known = {}
    /\ lastSeen = [u \in Uids |-> 0]
    /\ queue = <<>>
    /\ rows = [u \in Uids |-> 0]
    /\ request = [r \in Requests |-> Idle]
    /\ toPush = {}
    /\ excused = {}
    /\ pushes = 0
    /\ restarts = 0

OnMessage(r) ==
    \/ \E u \in Uids : Receive(r, u) \/ Evict(r, u)
    \/ Admit(r)
    \/ TurnAway(r)
    \/ Settle(r)

Next ==
    \/ Tick
    \/ \E r \in Requests : OnMessage(r)
    \/ ListAgents
    \/ \E u \in Uids : PushTo(u)
    \/ Work
    \/ Restart

Spec == Init /\ [][Next]_vars

-----------------------------------------------------------------------------
(* Properties.                                                               *)

\* A row is deleted or replaced by a newer one, in whatever order requests of
\* one agent end and are queued.
RowsNeverRegress ==
    [][\A u \in Uids : rows'[u] = 0 \/ rows'[u] >= rows[u]]_vars

\* When the work is done the database holds the agents memory holds, as last seen
\* there: a displaced agent does not come back with the next restart, and one that
\* returned while its deletion was queued keeps its row.  Excused are agents whose
\* requests overlapped, of whom a write was dropped or failed, or whom a push made up.
RowsSettle ==
    queue = <<>> /\ (\A r \in Requests : request[r] = Idle) =>
        \A u \in Uids \ excused : rows[u] = lastSeen[u]

\* The server never knows more agents than its limit.
InventoryBounded == Cardinality(known) <= Limit

=============================================================================
