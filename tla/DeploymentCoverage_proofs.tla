----------------------- MODULE DeploymentCoverage_proofs -----------------------
(***************************************************************************)
(* Proofs about DeploymentCoverage, for any number of agents, policies,    *)
(* versions, overlapping requests, timeouts, restarts and queue lengths.   *)
(***************************************************************************)
EXTENDS DeploymentCoverage, PolicyDelivery_proofs

-----------------------------------------------------------------------------
(* The composition takes the steps of PolicyDelivery.                      *)

LEMMA StepIsDelivery == [CoverageNext]_coverageVars => [Next]_vars
<1> SUFFICES ASSUME [CoverageNext]_coverageVars
             PROVE  [Next]_vars
  OBVIOUS
<1>1. ASSUME NEW p \in PolicyIds, Transition(p)
      PROVE  Next
  BY <1>1 DEF Transition, Next, Operate
<1>2. ASSUME NEW p \in PolicyIds, NEW scope \in SUBSET Agents, PublishConfig(p, scope)
      PROVE  Next
  BY <1>2 DEF PublishConfig, Next, Operate
<1>3. CASE QueueMatching \/ PersistRow
  BY <1>3 DEF QueueMatching, PersistRow
<1>4. CASE ListForPush \/ (FinishPush /\ UNCHANGED <<notes, online>>)
  BY <1>4 DEF ListForPush, Next, PushStep
<1>5. ASSUME NEW a \in Agents, QueuePush(a) \/ WritePush(a) \/ Plain(a) \/ Fade(a)
      PROVE  [Next]_vars
  BY <1>5 DEF QueuePush, WritePush, Plain, Fade, Next, PushStep, OnMessage
<1>6. ASSUME NEW a \in Agents, NEW s \in Slots,
             RegisterSeen(a, s) \/ ConcludeAndNote(a, s) \/ QueueNote(a, s) \/ Respond(a, s)
      PROVE  [Next]_vars
  BY <1>6 DEF RegisterSeen, ConcludeAndNote, QueueNote, Respond, Next, OnMessage
<1>7. CASE RestartAll
  BY <1>7 DEF RestartAll, Next
<1>8. CASE UNCHANGED coverageVars
  BY <1>8 DEF coverageVars
<1> QED
  BY <1>1, <1>2, <1>3, <1>4, <1>5, <1>6, <1>7, <1>8 DEF CoverageNext

\* What is queued is at the end of what was queued.
LEMMA EnqueueAdds ==
    ASSUME updates \in Seq(Update), NEW batch \in SUBSET Update, Enqueue(batch)
    PROVE  /\ updates' \in Seq(Update)
           /\ \A i \in DOMAIN updates' :
                 updates'[i] \in batch \/ \E j \in DOMAIN updates : updates'[i] = updates[j]
<1>0. PICK n \in 0..Cardinality(batch) :
         \E order \in [1..n -> batch] : updates' = updates \o order
  BY DEF Enqueue
<1>1. PICK order \in [1..n -> batch] : updates' = updates \o order
  BY <1>0
<1>2. n \in Nat
  OBVIOUS
<1>3. order \in Seq(Update) /\ Len(order) = n
  BY <1>2
<1>4. updates' \in Seq(Update)
  BY <1>1, <1>3
<1>5. ASSUME NEW i \in DOMAIN updates'
      PROVE  updates'[i] \in batch \/ \E j \in DOMAIN updates : updates'[i] = updates[j]
  <2>1. i \in 1..(Len(updates) + n)
    BY <1>1, <1>2, <1>3, <1>5
  <2>2. CASE i <= Len(updates)
    BY <1>1, <1>3, <2>1, <2>2
  <2>3. CASE i > Len(updates)
    <3>1. updates'[i] = order[i - Len(updates)] /\ i - Len(updates) \in 1..n
      BY <1>1, <1>2, <1>3, <2>1, <2>3
    <3> QED
      BY <3>1
  <2> QED
    BY <2>1, <2>2, <2>3
<1> QED
  BY <1>4, <1>5

-----------------------------------------------------------------------------
(* The sets an agent acknowledges never lose the newest version.           *)

\* A set of the agent names no version that was not published, and the newest only if the
\* policy is active and selects the agent.
EntriesTrue(a, set) ==
    \A p \in PolicyIds, v \in Nat :
        <<p, v>> \in set =>
            /\ v <= latest[p].version
            /\ v = latest[p].version => latest[p].active /\ a \in latest[p].scope

\* What the one has of the newest versions, the other has.
Within(old, new) ==
    \A p \in PolicyIds :
        <<p, latest[p].version>> \in old => <<p, latest[p].version>> \in new

RequestTrue(a, r) ==
    /\ r.stage = "composed" => EntriesTrue(a, r.bundle)
    /\ r.stage = "answer" /\ r.offer # NoSet => EntriesTrue(a, r.offer)

RequestKeeps(a, r) ==
    /\ r.stage = "composed" => Within(running[a], r.bundle)
    /\ r.stage = "answer" /\ r.offer # NoSet => Within(running[a], r.offer)

SetsOf(a) ==
    /\ EntriesTrue(a, running[a])
    /\ \A set \in acked[a] : EntriesTrue(a, set) /\ Within(set, running[a])
    /\ \A s \in Slots : /\ RequestTrue(a, handler[a][s])
                        /\ waiting[a] = s => RequestKeeps(a, handler[a][s])

SetsInv == TypeInv /\ \A a \in Agents : SetsOf(a)

LEMMA SetsInit == Init => SetsInv
<1> SUFFICES ASSUME Init
             PROVE  SetsInv
  OBVIOUS
<1> QED
  BY TypeInit DEF Init, SetsInv, SetsOf, EntriesTrue, RequestTrue, RequestKeeps, Idle

\* The set composed now has every newest version the agent runs.
LEMMA BundleKeeps ==
    ASSUME TypeOK, NEW a \in Agents, EntriesTrue(a, running[a])
    PROVE  EntriesTrue(a, Bundle(a)) /\ Within(running[a], Bundle(a))
BY DEF TypeOK, Policy, EntriesTrue, Within, Bundle

LEMMA SetsNext == SetsInv /\ [Next]_vars => SetsInv'
<1> SUFFICES ASSUME SetsInv, [Next]_vars
             PROVE  SetsInv'
  OBVIOUS
<1> USE DEF server, agent
<1>0. TypeInv /\ TypeOK /\ TypeInv' /\ \A a \in Agents : SetsOf(a)
  BY TypeNext DEF SetsInv, TypeInv
\* Steps that leave the policies, the requests and the agents alone.
<1>1. ASSUME UNCHANGED <<latest, handler, waiting, running, acked>>
      PROVE  SetsInv'
  BY <1>0, <1>1 DEF SetsInv, SetsOf, EntriesTrue, Within, RequestTrue, RequestKeeps
\* A new version is in no set yet.
<1>2. ASSUME NEW p \in PolicyIds,
             latest'[p].version = latest[p].version + 1,
             \A q \in PolicyIds \ {p} : latest'[q] = latest[q],
             UNCHANGED <<handler, waiting, running, acked>>
      PROVE  SetsInv'
  <2>0. \A q \in PolicyIds : latest[q].version \in Nat
    BY <1>0 DEF TypeOK, Policy
  <2>1. ASSUME NEW a \in Agents, NEW set, EntriesTrue(a, set)
        PROVE  EntriesTrue(a, set)'
    BY <1>2, <2>0, <2>1 DEF EntriesTrue
  <2>2. ASSUME NEW a \in Agents, NEW old, NEW new, EntriesTrue(a, old), Within(old, new)
        PROVE  Within(old, new)'
    <3> SUFFICES ASSUME NEW q \in PolicyIds, <<q, latest'[q].version>> \in old
                 PROVE  <<q, latest'[q].version>> \in new
      BY DEF Within
    <3>1. q # p
      BY <1>2, <2>0, <2>2 DEF EntriesTrue
    <3> QED
      BY <1>2, <2>2, <3>1 DEF Within
  <2>3. ASSUME NEW a \in Agents
        PROVE  SetsOf(a)'
    <3>1. /\ EntriesTrue(a, running[a])'
          /\ \A set \in acked[a] : EntriesTrue(a, set)' /\ Within(set, running[a])'
      BY <1>0, <1>2, <2>1, <2>2 DEF SetsOf
    <3>2. \A s \in Slots : RequestTrue(a, handler[a][s])'
      BY <1>0, <1>2, <2>1 DEF SetsOf, RequestTrue
    <3>3. \A s \in Slots : waiting[a] = s => RequestKeeps(a, handler[a][s])'
      BY <1>0, <1>2, <2>2 DEF SetsOf, RequestKeeps
    <3> QED
      BY <1>2, <3>1, <3>2, <3>3 DEF SetsOf
  <2> QED
    BY <1>0, <2>3 DEF SetsInv
<1>3. ASSUME NEW p \in PolicyIds, NEW scope \in SUBSET Agents, Publish(p, scope)
      PROVE  SetsInv'
  BY <1>0, <1>2, <1>3 DEF Publish, TypeOK, Policy
<1>4. ASSUME NEW p \in PolicyIds, DeactivatePolicy(p)
      PROVE  SetsInv'
  BY <1>0, <1>2, <1>4 DEF DeactivatePolicy, TypeOK, Policy
\* Steps that change one request.
<1>5. ASSUME NEW a \in Agents, NEW s \in Slots, NEW r \in Requests,
             RequestTrue(a, r),
             waiting'[a] = s => RequestKeeps(a, r),
             handler' = [handler EXCEPT ![a][s] = r],
             \A b \in Agents : waiting'[b] \in {waiting[b], s, NoSlot},
             \A b \in Agents \ {a} : waiting'[b] = waiting[b],
             UNCHANGED <<latest, running, acked>>
      PROVE  SetsInv'
  <2>1. \A b \in Agents : \A t \in Slots :
           (b # a \/ t # s) => handler'[b][t] = handler[b][t]
    BY <1>0, <1>5 DEF TypeOK
  <2>2. handler'[a][s] = r
    BY <1>0, <1>5 DEF TypeOK
  <2>3. ASSUME NEW b \in Agents, NEW t \in Slots
        PROVE  /\ RequestTrue(b, handler[b][t])'
               /\ waiting'[b] = t => RequestKeeps(b, handler[b][t])'
    <3>1. CASE b = a /\ t = s
      BY <1>5, <2>2, <3>1 DEF RequestTrue, RequestKeeps, EntriesTrue, Within
    <3>2. CASE b # a \/ t # s
      <4>1. waiting'[b] = t => waiting[b] = t
        BY <1>5, <3>2, SlotAssumption
      <4> QED
        BY <1>0, <1>5, <2>1, <3>2, <4>1
        DEF SetsOf, RequestTrue, RequestKeeps, EntriesTrue, Within
    <3> QED
      BY <3>1, <3>2
  <2> QED
    BY <1>0, <1>5, <2>3 DEF SetsInv, SetsOf, EntriesTrue, Within
<1>6. CASE ListAgents \/ FinishPush \/ UNCHANGED vars
  BY <1>1, <1>6 DEF ListAgents, FinishPush, vars
<1>7. ASSUME NEW a \in Agents, PushTo(a) \/ Persist(a)
      PROVE  SetsInv'
  BY <1>1, <1>7 DEF PushTo, Persist
<1>8. ASSUME NEW a \in Agents, NEW s \in Slots, Poll(a, s)
      PROVE  SetsInv'
  <2>1. [stage |-> "sent", report |-> report[a]] \in Requests
    BY <1>0 DEF TypeOK, Requests
  <2> QED
    BY <1>0, <1>5, <1>8, <2>1 DEF Poll, TypeOK, RequestTrue, RequestKeeps
<1>9. ASSUME NEW a \in Agents, NEW s \in Slots, Receive(a, s)
      PROVE  SetsInv'
  <2>1. PICK r \in Requests : r.stage = "read" /\ handler' = [handler EXCEPT ![a][s] = r]
    <3> DEFINE reported == handler[a][s].report
               copy     == IF reported = Silent THEN Known(a)
                           ELSE [Known(a) EXCEPT !.status = reported.status]
    <3>1. reported \in {Silent} \cup Report
      BY <1>0, <1>9, HandlerType, StageKinds DEF Receive
    <3>2. copy \in Record
      BY <1>0, <3>1, KnownType DEF Record, Report, Statuses
    <3>3. [stage |-> "read", report |-> reported, copy |-> copy] \in Requests
      BY <3>1, <3>2 DEF Requests
    <3> QED
      BY <1>9, <3>3 DEF Receive
  <2>2. RequestTrue(a, r) /\ RequestKeeps(a, r)
    BY <2>1 DEF RequestTrue, RequestKeeps
  <2>3. UNCHANGED <<latest, running, acked, waiting>>
    BY <1>9 DEF Receive
  <2> QED
    BY <1>5, <2>1, <2>2, <2>3
<1>10. ASSUME NEW a \in Agents, NEW s \in Slots, Register(a, s)
       PROVE  SetsInv'
  <2>1. PICK r \in Requests : r.stage = "registered" /\ handler' = [handler EXCEPT ![a][s] = r]
    <3>1. handler[a][s] \in Requests
      BY <1>0, HandlerType
    <3>2. /\ [handler[a][s] EXCEPT !.stage = "registered"] \in Requests
          /\ [handler[a][s] EXCEPT !.stage = "registered"].stage = "registered"
      BY <1>10, <3>1 DEF Register, Requests, Idle
    <3> QED
      BY <1>0, <1>10, <3>2 DEF Register, TypeOK
  <2>2. RequestTrue(a, r) /\ RequestKeeps(a, r)
    BY <2>1 DEF RequestTrue, RequestKeeps
  <2>3. UNCHANGED <<latest, running, acked, waiting>>
    BY <1>10 DEF Register
  <2> QED
    BY <1>5, <2>1, <2>2, <2>3
<1>11. ASSUME NEW a \in Agents, NEW s \in Slots, Compose(a, s)
       PROVE  SetsInv'
  <2> DEFINE r == [stage |-> "composed", report |-> handler[a][s].report,
                   copy |-> handler[a][s].copy, bundle |-> Bundle(a)]
  <2>1. /\ handler[a][s].report \in {Silent} \cup Report
        /\ handler[a][s].copy \in Record
    BY <1>0, <1>11, HandlerType, StageKinds DEF Compose
  <2>2. r \in Requests
    BY <1>0, <2>1, BundleType DEF Requests
  <2>3. EntriesTrue(a, Bundle(a)) /\ Within(running[a], Bundle(a))
    BY <1>0, BundleKeeps DEF SetsOf
  <2>4. RequestTrue(a, r) /\ RequestKeeps(a, r)
    BY <2>3 DEF RequestTrue, RequestKeeps
  <2>5. /\ handler' = [handler EXCEPT ![a][s] = r]
        /\ UNCHANGED <<latest, running, acked, waiting>>
    BY <1>11 DEF Compose
  <2> HIDE DEF r
  <2> QED
    BY <1>5, <2>2, <2>4, <2>5
<1>12. ASSUME NEW a \in Agents, NEW s \in Slots, Conclude(a, s)
       PROVE  SetsInv'
  <2> DEFINE request == handler[a][s]
             offer   == Offer(a, request.copy, request.report, request.bundle)
             r       == [stage |-> "answer", offer |-> offer]
  <2>1. request.bundle \in PolicySets /\ request.stage = "composed"
    BY <1>0, <1>12, HandlerType, StageKinds DEF Conclude
  <2>2. offer \in {NoSet, request.bundle}
    BY DEF Offer
  <2>3. r \in Requests
    BY <2>1, <2>2 DEF Requests
  <2>4. RequestTrue(a, request) /\ (waiting[a] = s => RequestKeeps(a, request))
    BY <1>0 DEF SetsOf
  <2>5. RequestTrue(a, r) /\ (waiting[a] = s => RequestKeeps(a, r))
    BY <2>1, <2>2, <2>4 DEF RequestTrue, RequestKeeps
  <2>6. /\ handler' = [handler EXCEPT ![a][s] = r]
        /\ UNCHANGED <<latest, running, acked, waiting>>
    BY <1>12 DEF Conclude
  <2> HIDE DEF r
  <2> QED
    BY <1>5, <2>3, <2>5, <2>6
<1>13. ASSUME NEW a \in Agents, NEW s \in Slots, Lose(a, s) \/ Discard(a, s)
       PROVE  SetsInv'
  <2>1. Idle \in Requests /\ RequestTrue(a, Idle) /\ RequestKeeps(a, Idle)
    BY DEF Requests, RequestTrue, RequestKeeps, Idle
  <2> QED
    BY <1>0, <1>5, <1>13, <2>1 DEF Lose, Discard, TypeOK
<1>14. ASSUME NEW a \in Agents, Timeout(a)
       PROVE  SetsInv'
  <2>1. \A b \in Agents : waiting'[b] \in {waiting[b], NoSlot}
    BY <1>0, <1>14 DEF Timeout, TypeOK
  <2> QED
    BY <1>0, <1>14, <2>1, SlotAssumption
    DEF Timeout, SetsInv, SetsOf, EntriesTrue, Within, RequestTrue, RequestKeeps
<1>15. ASSUME NEW a \in Agents, NEW s \in Slots, Deliver(a, s)
       PROVE  SetsInv'
  <2> DEFINE offer == handler[a][s].offer
  <2>1. Idle \in Requests /\ RequestTrue(a, Idle) /\ RequestKeeps(a, Idle)
    BY DEF Requests, RequestTrue, RequestKeeps, Idle
  <2>2. /\ handler' = [handler EXCEPT ![a][s] = Idle]
        /\ waiting' = [waiting EXCEPT ![a] = NoSlot]
        /\ UNCHANGED latest
        /\ handler[a][s].stage = "answer"
        /\ waiting[a] = s
    BY <1>15 DEF Deliver
  <2>3. CASE UNCHANGED <<running, acked>>
    BY <1>0, <1>5, <2>1, <2>2, <2>3 DEF TypeOK
  <2>4. CASE /\ offer # NoSet
             /\ running' = [running EXCEPT ![a] = offer]
             /\ acked' = [acked EXCEPT ![a] = @ \cup {offer}]
    <3>1. EntriesTrue(a, offer) /\ Within(running[a], offer)
      BY <1>0, <2>2, <2>4 DEF SetsOf, RequestTrue, RequestKeeps
    <3>2. \A set \in acked'[a] : EntriesTrue(a, set) /\ Within(set, offer)
      BY <1>0, <2>4, <3>1 DEF TypeOK, SetsOf, Within
    <3>3. /\ running'[a] = offer
          /\ \A b \in Agents \ {a} : running'[b] = running[b] /\ acked'[b] = acked[b]
      BY <1>0, <2>4 DEF TypeOK
    <3>4. \A b \in Agents : /\ EntriesTrue(b, running'[b])
                            /\ \A set \in acked'[b] : EntriesTrue(b, set) /\ Within(set, running'[b])
      BY <1>0, <3>1, <3>2, <3>3 DEF SetsOf
    <3>5. /\ waiting'[a] = NoSlot
          /\ \A b \in Agents \ {a} : waiting'[b] = waiting[b]
          /\ \A b \in Agents : \A t \in Slots :
                handler'[b][t] \in {Idle, handler[b][t]}
          /\ \A b \in Agents \ {a} : \A t \in Slots : handler'[b][t] = handler[b][t]
      BY <1>0, <2>2 DEF TypeOK
    <3>6. \A b \in Agents : \A t \in Slots : RequestTrue(b, handler'[b][t])
      BY <1>0, <3>5 DEF SetsOf, RequestTrue, Idle
    <3>7. ASSUME NEW b \in Agents, NEW t \in Slots, waiting'[b] = t
          PROVE  RequestKeeps(b, handler[b][t])'
      <4>1. b # a
        BY <3>5, <3>7, SlotAssumption
      <4>2. waiting[b] = t /\ handler'[b][t] = handler[b][t] /\ running'[b] = running[b]
        BY <3>3, <3>5, <3>7, <4>1
      <4>3. RequestKeeps(b, handler[b][t])
        BY <1>0, <4>2 DEF SetsOf
      <4> QED
        BY <2>2, <4>2, <4>3 DEF RequestKeeps, Within
    <3> QED
      BY <1>0, <2>2, <3>4, <3>6, <3>7 DEF SetsInv, SetsOf, EntriesTrue, Within, RequestTrue
  <2> QED
    BY <1>15, <2>3, <2>4 DEF Deliver
<1>16. CASE Restart
  <2>1. /\ \A b \in Agents : \A t \in Slots : handler'[b][t] = Idle
        /\ UNCHANGED <<latest, running, acked>>
    BY <1>16 DEF Restart
  <2> QED
    BY <1>0, <2>1
    DEF SetsInv, SetsOf, EntriesTrue, Within, RequestTrue, RequestKeeps, Idle
<1> QED
  BY <1>3, <1>4, <1>6, <1>7, <1>8, <1>9, <1>10, <1>11, <1>12, <1>13, <1>14, <1>15, <1>16
  DEF Next, Operate, PushStep, OnMessage

-----------------------------------------------------------------------------
(* Types.                                                                  *)

VersionsInv == \A p \in PolicyIds : latest[p].version \in 0..MaxVersions

NotesType ==
    /\ rows \in [PolicyIds -> [1..MaxVersions -> [Agents -> {None} \cup Row]]]
    /\ updates \in Seq(Update)
    /\ recording \in [Agents -> [Slots -> {None} \cup Note]]
    /\ matching \in {None} \cup PolicyIds
    /\ noted \subseteq Agents
    /\ online \subseteq Agents

LEMMA VersionsNext == TypeOK /\ VersionsInv /\ [Next]_vars => VersionsInv'
<1> SUFFICES ASSUME TypeOK, VersionsInv, [Next]_vars
             PROVE  VersionsInv'
  OBVIOUS
<1> USE DEF server, agent
<1>1. ASSUME NEW p \in PolicyIds, NEW scope \in SUBSET Agents, Publish(p, scope)
      PROVE  VersionsInv'
  <2>1. /\ latest'[p].version = latest[p].version + 1
        /\ \A q \in PolicyIds \ {p} : latest'[q] = latest[q]
        /\ latest[p].version < MaxVersions
    BY <1>1 DEF Publish, TypeOK, Policy
  <2> QED
    BY <2>1, BoundAssumption DEF VersionsInv
<1>2. ASSUME NEW p \in PolicyIds, DeactivatePolicy(p)
      PROVE  VersionsInv'
  <2>1. /\ latest'[p].version = latest[p].version + 1
        /\ \A q \in PolicyIds \ {p} : latest'[q] = latest[q]
        /\ latest[p].version < MaxVersions
    BY <1>2 DEF DeactivatePolicy, TypeOK, Policy
  <2> QED
    BY <2>1, BoundAssumption DEF VersionsInv
<1>3. CASE UNCHANGED latest
  BY <1>3 DEF VersionsInv
<1> QED
  BY <1>1, <1>2, <1>3
  DEF Next, vars, Operate, PushStep, ListAgents, FinishPush, PushTo, OnMessage, Poll, Receive,
      Register, Compose, Conclude, Lose, Discard, Deliver, Timeout, Persist, Restart

\* A record, if there is one, holds a set or none.
LEMMA HeldType ==
    ASSUME NEW r \in {Unknown} \cup Record
    PROVE  Held(r) \in PolicySets
BY DEF Held, Record, PolicySets

LEMMA RowsForType ==
    ASSUME TypeOK, NEW a \in Agents, NEW note \in Note
    PROVE  RowsFor(a, note) \in SUBSET Update
<1>1. ASSUME NEW entry \in note.set
      PROVE  UpdateOf(entry[1], entry[2], a, note.status, TRUE) \in Update
  <2>1. entry[1] \in PolicyIds /\ entry[2] \in Nat
    BY DEF Note, PolicySets
  <2> QED
    BY <2>1 DEF Note, Statuses, UpdateOf, RowOf, Update, Row, Observed
<1>2. ASSUME NEW p \in PolicyIds
      PROVE  UpdateOf(p, latest[p].version, a, RemovalStatus(note.status), FALSE) \in Update
  <2>1. latest[p].version \in Nat
    BY DEF TypeOK, Policy
  <2> QED
    BY <2>1 DEF Note, Statuses, UpdateOf, RowOf, Update, Row, Observed, RemovalStatus
<1> QED
  BY <1>1, <1>2 DEF RowsFor

LEMMA PushNoteType ==
    ASSUME TypeOK, NEW a \in Agents, NEW listed \in {Unknown} \cup Record
    PROVE  NoteOf(Bundle(a), PushStatus(a, listed), Held(listed)) \in Note
<1>1. PushStatus(a, listed) \in Statuses
  BY DEF PushStatus, Statuses
<1> QED
  BY <1>1, BundleType, HeldType DEF NoteOf, Note

\* The note a message leaves.
LEMMA ConcludeNoteType ==
    ASSUME NEW a \in Agents, NEW copy \in Record, NEW reported, NEW bundle \in PolicySets
    PROVE  NoteOf(bundle, NotedStatus(a, copy, reported, bundle), Held(copy)) \in Note
<1>1. NotedStatus(a, copy, reported, bundle) \in Statuses
  BY OutcomeType DEF NotedStatus, Record
<1> QED
  BY <1>1, HeldType DEF NoteOf, Note

LEMMA MatchedType ==
    ASSUME TypeOK, NEW p \in PolicyIds, NEW matched \in SUBSET Agents
    PROVE  {UpdateOf(p, latest[p].version, a, "MATCHED", TRUE) : a \in matched} \in SUBSET Update
<1>1. latest[p].version \in Nat
  BY DEF TypeOK, Policy
<1>2. RowOf("MATCHED", TRUE) \in Row
  BY DEF RowOf, Row, Observed
<1>3. ASSUME NEW a \in matched
      PROVE  UpdateOf(p, latest[p].version, a, "MATCHED", TRUE) \in Update
  BY <1>1, <1>2 DEF UpdateOf, Update
<1> QED
  BY <1>3

\* The row that is written over.
LEMMA PersistedRow ==
    ASSUME NotesType, PersistRow
    PROVE  /\ Head(updates) \in Update
           /\ \A p \in PolicyIds, v \in 1..MaxVersions, a \in Agents :
                 rows'[p][v][a] \in {rows[p][v][a]} \cup
                    {row \in {Head(updates).row} : /\ p = Head(updates).policy
                                                  /\ v = Head(updates).version
                                                  /\ a = Head(updates).agent}
           /\ rows' \in [PolicyIds -> [1..MaxVersions -> [Agents -> {None} \cup Row]]]
           /\ updates' \in Seq(Update)
           /\ \A i \in DOMAIN updates' : \E j \in DOMAIN updates : updates'[i] = updates[j]
           /\ Head(updates) = updates[1] /\ 1 \in DOMAIN updates
<1> DEFINE u == Head(updates)
<1>1. updates \in Seq(Update) /\ updates # <<>> /\ updates' = Tail(updates)
  BY DEF NotesType, PersistRow
<1>2. u \in Update /\ u = updates[1] /\ 1 \in DOMAIN updates
  BY <1>1
<1>3. updates' \in Seq(Update)
  BY <1>1
<1>4. \A i \in DOMAIN updates' : updates'[i] = updates[i + 1] /\ i + 1 \in DOMAIN updates
  BY <1>1
<1>5. u.policy \in PolicyIds /\ u.version \in Nat /\ u.agent \in Agents /\ u.row \in Row
  BY <1>2 DEF Update
<1>6. \/ rows' = [rows EXCEPT ![u.policy][u.version][u.agent] = u.row]
      \/ rows' = rows
  BY DEF PersistRow
<1> HIDE DEF u
<1>7. /\ \A p \in PolicyIds, v \in 1..MaxVersions, a \in Agents :
            rows'[p][v][a] \in {rows[p][v][a]} \cup
                    {row \in {u.row} : p = u.policy /\ v = u.version /\ a = u.agent}
      /\ rows' \in [PolicyIds -> [1..MaxVersions -> [Agents -> {None} \cup Row]]]
  <2>1. CASE rows' = rows
    BY <2>1 DEF NotesType
  <2>2. CASE rows' = [rows EXCEPT ![u.policy][u.version][u.agent] = u.row]
    <3>1. CASE u.version \in 1..MaxVersions
      <4>1. rows[u.policy] \in [1..MaxVersions -> [Agents -> {None} \cup Row]]
        BY <1>5 DEF NotesType
      <4>2. rows[u.policy][u.version] \in [Agents -> {None} \cup Row]
        BY <3>1, <4>1
      <4>3. rows' = [rows EXCEPT ![u.policy] =
                       [rows[u.policy] EXCEPT ![u.version] =
                          [rows[u.policy][u.version] EXCEPT ![u.agent] = u.row]]]
        BY <2>2
      <4>4. [rows[u.policy][u.version] EXCEPT ![u.agent] = u.row] \in [Agents -> {None} \cup Row]
        BY <1>5, <4>2
      <4>5. rows' \in [PolicyIds -> [1..MaxVersions -> [Agents -> {None} \cup Row]]]
        BY <1>5, <3>1, <4>1, <4>3, <4>4 DEF NotesType
      <4>6. \A p \in PolicyIds, v \in 1..MaxVersions, a \in Agents :
               rows'[p][v][a] = IF p = u.policy /\ v = u.version /\ a = u.agent
                                THEN u.row ELSE rows[p][v][a]
        BY <1>5, <3>1, <4>1, <4>2, <4>3 DEF NotesType
      <4> QED
        BY <4>5, <4>6
    <3>2. CASE u.version \notin 1..MaxVersions
      BY <1>5, <2>2, <3>2 DEF NotesType
    <3> QED
      BY <3>1, <3>2
  <2> QED
    BY <1>6, <2>1, <2>2
<1> QED
  BY <1>2, <1>3, <1>4, <1>7 DEF u

LEMMA NotesTypeNext == TypeInv /\ NotesType /\ [CoverageNext]_coverageVars => NotesType'
<1> SUFFICES ASSUME TypeInv, NotesType, [CoverageNext]_coverageVars
             PROVE  NotesType'
  OBVIOUS
<1>0. TypeOK
  BY DEF TypeInv
<1>1. CASE UNCHANGED <<notes, online>>
  BY <1>1 DEF notes, NotesType
<1>2. ASSUME NEW p \in PolicyIds, Transition(p)
      PROVE  NotesType'
  BY <1>1, <1>2 DEF Transition
<1>3. ASSUME NEW p \in PolicyIds, NEW scope \in SUBSET Agents, PublishConfig(p, scope)
      PROVE  NotesType'
  BY <1>3 DEF PublishConfig, NotesType
<1>4. CASE QueueMatching
  <2> DEFINE matched == {a \in latest[matching].scope : record[a] # Unknown}
             batch   == {UpdateOf(matching, latest[matching].version, a, "MATCHED", TRUE) :
                            a \in matched}
  <2>1. matching \in PolicyIds /\ matched \in SUBSET Agents
    BY <1>0, <1>4 DEF QueueMatching, NotesType, TypeOK, Policy
  <2>2. batch \in SUBSET Update /\ Enqueue(batch)
    BY <1>0, <1>4, <2>1, MatchedType DEF QueueMatching
  <2>3. updates' \in Seq(Update)
    BY <2>2, EnqueueAdds DEF NotesType
  <2> QED
    BY <1>4, <2>3 DEF QueueMatching, NotesType
<1>5. CASE ListForPush \/ (FinishPush /\ UNCHANGED <<notes, online>>)
  BY <1>1, <1>5 DEF ListForPush
<1>6. ASSUME NEW a \in Agents, QueuePush(a)
      PROVE  NotesType'
  <2> DEFINE listed == push.snapshot[a]
             note   == NoteOf(Bundle(a), PushStatus(a, listed), Held(listed))
  <2>1. listed \in {Unknown} \cup Record
    BY <1>0 DEF TypeOK
  <2>2. RowsFor(a, note) \in SUBSET Update /\ Enqueue(RowsFor(a, note))
    BY <1>0, <1>6, <2>1, PushNoteType, RowsForType DEF QueuePush
  <2>3. updates' \in Seq(Update)
    BY <2>2, EnqueueAdds DEF NotesType
  <2> QED
    BY <1>6, <2>3 DEF QueuePush, NotesType
<1>7. ASSUME NEW a \in Agents, WritePush(a) \/ Plain(a) \/ Fade(a)
      PROVE  NotesType'
  BY <1>7 DEF WritePush, Plain, Fade, notes, NotesType
<1>8. ASSUME NEW a \in Agents, NEW s \in Slots, RegisterSeen(a, s) \/ Respond(a, s)
      PROVE  NotesType'
  BY <1>8 DEF RegisterSeen, Respond, notes, NotesType
<1>9. ASSUME NEW a \in Agents, NEW s \in Slots, ConcludeAndNote(a, s)
      PROVE  NotesType'
  <2> DEFINE request == handler[a][s]
             note    == NoteOf(request.bundle,
                               NotedStatus(a, request.copy, request.report, request.bundle),
                               Held(request.copy))
  <2>1. request.copy \in Record /\ request.bundle \in PolicySets
    BY <1>0, <1>9, HandlerType, StageKinds DEF ConcludeAndNote, Conclude
  <2>2. note \in Note
    BY <2>1, ConcludeNoteType
  <2>3. /\ recording' = [recording EXCEPT ![a][s] = note]
        /\ UNCHANGED <<rows, updates, matching, noted, online>>
    BY <1>9 DEF ConcludeAndNote
  <2> HIDE DEF note
  <2> QED
    BY <2>2, <2>3 DEF NotesType
<1>10. ASSUME NEW a \in Agents, NEW s \in Slots, QueueNote(a, s)
       PROVE  NotesType'
  <2>1. recording[a][s] \in Note
    BY <1>10 DEF QueueNote, NotesType
  <2>2. updates' \in Seq(Update)
    BY <1>0, <1>10, <2>1, RowsForType, EnqueueAdds DEF QueueNote, NotesType
  <2> QED
    BY <1>10, <2>2 DEF QueueNote, NotesType
<1>11. CASE PersistRow
  BY <1>11, PersistedRow DEF PersistRow, NotesType
<1>12. CASE RestartAll
  BY <1>12 DEF RestartAll, NotesType
<1>13. CASE UNCHANGED coverageVars
  BY <1>1, <1>13 DEF coverageVars
<1> QED
  BY <1>2, <1>3, <1>4, <1>5, <1>6, <1>7, <1>8, <1>9, <1>10, <1>11, <1>12, <1>13
  DEF CoverageNext

-----------------------------------------------------------------------------
(* What the rows say.                                                      *)

\* A note of success is about a set the agent acknowledged.
Claimed(a, note) == note # None /\ note.status = "APPLIED" => note.set \in acked[a]

UpdateTrue(u) == RowTruth(u.policy, u.version, u.agent, u.row)

RowsInv ==
    /\ AckedInv
    /\ SetsInv
    /\ VersionsInv
    /\ NotesType
    /\ \A a \in Agents :
          /\ RecordHonest(a, push.snapshot[a])
          /\ \A s \in Slots : Claimed(a, recording[a][s])
    /\ RowsTruth

\* Sets of published versions are sets, and not the lack of one.
LEMMA SetIsNoNoSet ==
    ASSUME TypeOK, VersionsInv, NEW a \in Agents, NEW set \in PolicySets, EntriesTrue(a, set)
    PROVE  set # NoSet
<1>1. set \in SUBSET (PolicyIds \X (0..MaxVersions))
  <2> SUFFICES ASSUME NEW entry \in set
               PROVE  entry \in PolicyIds \X (0..MaxVersions)
    OBVIOUS
  <2>1. PICK p \in PolicyIds, v \in Nat : entry = <<p, v>>
    BY DEF PolicySets
  <2>2. v <= latest[p].version /\ latest[p].version \in 0..MaxVersions
    BY <2>1 DEF EntriesTrue, VersionsInv
  <2> QED
    BY <2>1, <2>2, BoundAssumption
<1> QED
  BY <1>1, CoverageAssumption

LEMMA RowsForTrue ==
    ASSUME NEW a \in Agents, NEW note \in Note, Claimed(a, note)
    PROVE  \A u \in RowsFor(a, note) : UpdateTrue(u)
<1>0. note # None /\ note.status \in Statuses /\ note.set \in PolicySets
  BY NoneAssumption DEF Note
<1>1. ASSUME NEW entry \in note.set
      PROVE  UpdateTrue(UpdateOf(entry[1], entry[2], a, note.status, TRUE))
  <2>1. entry = <<entry[1], entry[2]>>
    BY <1>0 DEF PolicySets
  <2>2. note.status = "APPLIED" => note.set \in acked[a]
    BY <1>0 DEF Claimed
  <2> QED
    BY <1>0, <2>1, <2>2 DEF UpdateTrue, UpdateOf, RowOf, RowTruth, Statuses
<1>2. ASSUME NEW p \in PolicyIds, ~ PresentIn(p, note.set)
      PROVE  UpdateTrue(UpdateOf(p, latest[p].version, a, RemovalStatus(note.status), FALSE))
  <2>1. RemovalStatus(note.status) = "REMOVED" => note.status = "APPLIED"
    BY <1>0 DEF RemovalStatus, Statuses
  <2>2. note.status = "APPLIED" => note.set \in acked[a]
    BY <1>0 DEF Claimed
  <2> QED
    BY <1>2, <2>1, <2>2 DEF UpdateTrue, UpdateOf, RowOf, RowTruth
<1> QED
  BY <1>1, <1>2 DEF RowsFor

\* A conclusion of success is about an acknowledged set.
LEMMA ConcludeClaims ==
    ASSUME NEW a \in Agents, NEW copy \in Record, NEW reported, NEW bundle,
           Honest(a, reported), HonestCopy(a, copy, reported), bundle # NoSet,
           NotedStatus(a, copy, reported, bundle) = "APPLIED"
    PROVE  bundle \in acked[a]
<1>1. HasLatest(copy, reported, bundle) /\ copy.status = "APPLIED"
  BY DEF NotedStatus, Outcome, Record
<1>2. CASE reported = Silent
  BY <1>1, <1>2 DEF HasLatest, HonestCopy
<1>3. CASE reported # Silent
  BY <1>1, <1>3 DEF HasLatest, HonestCopy, Honest
<1> QED
  BY <1>2, <1>3

\* Nothing the agent said is unsaid.
LEMMA AckedGrows ==
    ASSUME TypeOK, [Next]_vars
    PROVE  \A a \in Agents : acked[a] \subseteq acked'[a]
<1> USE DEF server, agent
<1>1. ASSUME NEW a \in Agents, NEW s \in Slots, Deliver(a, s)
      PROVE  \A b \in Agents : acked[b] \subseteq acked'[b]
  BY <1>1 DEF Deliver, TypeOK
<1>2. CASE UNCHANGED acked
  BY <1>2
<1> QED
  BY <1>1, <1>2
  DEF Next, vars, Operate, PushStep, ListAgents, FinishPush, PushTo, OnMessage, Poll, Receive,
      Register, Compose, Conclude, Lose, Discard, Timeout, Persist, Restart, Publish,
      DeactivatePolicy

LEMMA QueuedTrue ==
    ASSUME RowsInv, [Next]_vars, UNCHANGED rows,
           NEW batch \in SUBSET Update, Enqueue(batch), \A u \in batch : UpdateTrue(u)
    PROVE  RowsTruth'
<1>1. \A a \in Agents : acked[a] \subseteq acked'[a]
  BY AckedGrows DEF RowsInv, AckedInv, TypeInv
<1>2. /\ updates' \in Seq(Update)
      /\ \A i \in DOMAIN updates' :
            updates'[i] \in batch \/ \E j \in DOMAIN updates : updates'[i] = updates[j]
  BY EnqueueAdds DEF RowsInv, NotesType
<1>3. \A i \in DOMAIN updates' : UpdateTrue(updates'[i]) /\ updates'[i].agent \in Agents
  <2> SUFFICES ASSUME NEW i \in DOMAIN updates'
               PROVE  UpdateTrue(updates'[i]) /\ updates'[i].agent \in Agents
    OBVIOUS
  <2>1. updates'[i] \in Update
    BY <1>2
  <2> QED
    BY <1>2, <2>1 DEF RowsInv, RowsTruth, UpdateTrue, Update
<1>4. ASSUME NEW i \in DOMAIN updates'
      PROVE  RowTruth(updates[i].policy, updates[i].version, updates[i].agent, updates[i].row)'
  BY <1>1, <1>3 DEF UpdateTrue, RowTruth
<1>5. ASSUME NEW p \in PolicyIds, NEW v \in 1..MaxVersions, NEW a \in Agents,
             rows'[p][v][a] # None
      PROVE  RowTruth(p, v, a, rows[p][v][a])'
  BY <1>1, <1>5 DEF RowsInv, RowsTruth, RowTruth
<1> QED
  BY <1>4, <1>5 DEF RowsTruth

LEMMA RowsKept ==
    ASSUME RowsInv, [Next]_vars, UNCHANGED <<rows, updates>>
    PROVE  RowsTruth'
<1>1. \A a \in Agents : acked[a] \subseteq acked'[a]
  BY AckedGrows DEF RowsInv, AckedInv, TypeInv
<1>2. \A i \in DOMAIN updates : updates[i].agent \in Agents
  <2>1. \A i \in DOMAIN updates : updates[i] \in Update
    BY DEF RowsInv, NotesType
  <2> QED
    BY <2>1 DEF Update
<1>3. ASSUME NEW i \in DOMAIN updates
      PROVE  RowTruth(updates[i].policy, updates[i].version, updates[i].agent, updates[i].row)'
  BY <1>1, <1>2 DEF RowsInv, RowsTruth, RowTruth
<1>4. ASSUME NEW p \in PolicyIds, NEW v \in 1..MaxVersions, NEW a \in Agents,
             rows[p][v][a] # None
      PROVE  RowTruth(p, v, a, rows[p][v][a])'
  BY <1>1, <1>4 DEF RowsInv, RowsTruth, RowTruth
<1> QED
  BY <1>3, <1>4 DEF RowsTruth

LEMMA RowsInit == CoverageInit => RowsInv
<1> SUFFICES ASSUME CoverageInit
             PROVE  RowsInv
  OBVIOUS
<1>1. AckedInv /\ SetsInv
  BY AckedInit, SetsInit DEF CoverageInit
<1>2. VersionsInv
  BY BoundAssumption DEF CoverageInit, Init, VersionsInv
<1>3. NotesType
  BY DEF CoverageInit, NotesType
<1>4. RowsTruth
  BY DEF CoverageInit, RowsTruth
<1>5. ASSUME NEW a \in Agents
      PROVE  RecordHonest(a, push.snapshot[a]) /\ \A s \in Slots : Claimed(a, recording[a][s])
  BY DEF CoverageInit, Init, RecordHonest, Claimed
<1> QED
  BY <1>1, <1>2, <1>3, <1>4, <1>5 DEF RowsInv

\* A push keeps what it listed until it has visited the agent.
LEMMA SnapshotNext ==
    ASSUME RowsInv, [Next]_vars, NEW a \in Agents
    PROVE  RecordHonest(a, push.snapshot[a])'
<1> USE DEF server, agent
<1>0. TypeOK /\ RecordHonest(a, push.snapshot[a]) /\ RecordHonest(a, record[a])
  BY DEF RowsInv, AckedInv, TypeInv
<1>1. acked[a] \subseteq acked'[a]
  BY <1>0, AckedGrows
<1>2. CASE push'.snapshot[a] = push.snapshot[a]
  BY <1>0, <1>1, <1>2 DEF RecordHonest
<1>3. CASE ListAgents
  BY <1>0, <1>1, <1>3 DEF ListAgents, RecordHonest
<1>4. CASE push'.snapshot[a] = Unknown
  BY <1>4 DEF RecordHonest
<1>5. ASSUME NEW b \in Agents, PushTo(b)
      PROVE  RecordHonest(a, push.snapshot[a])'
  <2>1. push'.snapshot[a] \in {push.snapshot[a], Unknown}
    BY <1>0, <1>5 DEF PushTo, TypeOK
  <2> QED
    BY <1>2, <1>4, <2>1
<1>6. CASE Restart
  BY <1>4, <1>6 DEF Restart
<1>7. CASE Operate \/ FinishPush
  BY <1>0, <1>2, <1>7 DEF Operate, Publish, DeactivatePolicy, FinishPush, TypeOK
<1>8. CASE UNCHANGED push
  BY <1>2, <1>8
<1> QED
  BY <1>3, <1>5, <1>6, <1>7, <1>8
  DEF Next, vars, PushStep, OnMessage, Poll, Receive, Register, Compose, Conclude, Lose,
      Discard, Deliver, Timeout, Persist

\* A note is made by a conclusion, and otherwise only dropped.
LEMMA ClaimsNext ==
    ASSUME RowsInv, [CoverageNext]_coverageVars, NEW a \in Agents, NEW s \in Slots
    PROVE  Claimed(a, recording[a][s])'
<1>0. /\ TypeOK /\ NotesType /\ VersionsInv
      /\ Claimed(a, recording[a][s])
      /\ AckedInv /\ SetsInv
  BY DEF RowsInv, AckedInv, TypeInv
<1>1. acked[a] \subseteq acked'[a]
  BY <1>0, StepIsDelivery, AckedGrows
<1>2. CASE recording'[a][s] = recording[a][s]
  BY <1>0, <1>1, <1>2 DEF Claimed
<1>3. CASE recording'[a][s] = None
  BY <1>3 DEF Claimed
<1>4. ASSUME NEW b \in Agents, NEW r \in Slots, ConcludeAndNote(b, r)
      PROVE  Claimed(a, recording[a][s])'
  <2> DEFINE request == handler[b][r]
             note    == NoteOf(request.bundle,
                               NotedStatus(b, request.copy, request.report, request.bundle),
                               Held(request.copy))
  <2>0. /\ handler[b][r].stage = "composed"
        /\ recording' = [recording EXCEPT ![b][r] = note]
        /\ UNCHANGED acked
    BY <1>4 DEF ConcludeAndNote, Conclude, agent
  <2>1. /\ request.copy \in Record
        /\ request.bundle \in PolicySets
        /\ RequestHonest(b, request)
        /\ RequestTrue(b, request)
    BY <1>0, <2>0, HandlerType, StageKinds DEF AckedInv, SetsInv, SetsOf
  <2>2. /\ Honest(b, request.report)
        /\ HonestCopy(b, request.copy, request.report)
        /\ request.bundle # NoSet
    BY <1>0, <2>0, <2>1, SetIsNoNoSet DEF RequestHonest, RequestTrue
  <2>3. note.status = "APPLIED" => note.set \in acked[b]
    BY <2>1, <2>2, ConcludeClaims DEF NoteOf
  <2> HIDE DEF note
  <2>4. CASE a = b /\ s = r
    BY <1>0, <2>0, <2>3, <2>4 DEF NotesType, Claimed
  <2>5. CASE a # b \/ s # r
    BY <1>0, <1>2, <2>0, <2>5 DEF NotesType
  <2> QED
    BY <2>4, <2>5
<1>5. ASSUME NEW b \in Agents, NEW r \in Slots, QueueNote(b, r)
      PROVE  Claimed(a, recording[a][s])'
  <2>1. recording'[a][s] \in {recording[a][s], None}
    BY <1>0, <1>5 DEF QueueNote, NotesType
  <2> QED
    BY <1>2, <1>3, <2>1
<1>6. CASE RestartAll
  BY <1>3, <1>6 DEF RestartAll
<1>7. CASE UNCHANGED recording
  BY <1>2, <1>7
<1> QED
  BY <1>4, <1>5, <1>6, <1>7
  DEF CoverageNext, coverageVars, notes, Transition, PublishConfig, QueueMatching, ListForPush,
      QueuePush, WritePush, Plain, Fade, RegisterSeen, Respond, PersistRow

LEMMA RowsTruthNext ==
    ASSUME RowsInv, [CoverageNext]_coverageVars
    PROVE  RowsTruth'
<1>0. /\ TypeOK /\ NotesType /\ VersionsInv
      /\ [Next]_vars
      /\ \A a \in Agents : /\ RecordHonest(a, push.snapshot[a])
                           /\ \A s \in Slots : Claimed(a, recording[a][s])
  BY StepIsDelivery DEF RowsInv, AckedInv, TypeInv
<1>1. CASE UNCHANGED <<rows, updates>>
  BY <1>0, <1>1, RowsKept
<1>2. CASE QueueMatching
  <2> DEFINE matched == {a \in latest[matching].scope : record[a] # Unknown}
             batch   == {UpdateOf(matching, latest[matching].version, a, "MATCHED", TRUE) :
                            a \in matched}
  <2>1. matching \in PolicyIds /\ matched \in SUBSET Agents
    BY <1>0, <1>2 DEF QueueMatching, NotesType, TypeOK, Policy
  <2>2. batch \in SUBSET Update /\ Enqueue(batch) /\ UNCHANGED rows
    BY <1>0, <1>2, <2>1, MatchedType DEF QueueMatching
  <2>3. \A u \in batch : UpdateTrue(u)
    BY DEF UpdateTrue, UpdateOf, RowOf, RowTruth
  <2> HIDE DEF batch
  <2> QED
    BY <1>0, <2>2, <2>3, QueuedTrue
<1>3. ASSUME NEW a \in Agents, QueuePush(a)
      PROVE  RowsTruth'
  <2> DEFINE listed == push.snapshot[a]
             note   == NoteOf(Bundle(a), PushStatus(a, listed), Held(listed))
  <2>1. listed \in Record /\ note \in Note
    BY <1>0, <1>3, PushNoteType DEF QueuePush, TypeOK
  <2>2. RowsFor(a, note) \in SUBSET Update /\ Enqueue(RowsFor(a, note)) /\ UNCHANGED rows
    BY <1>0, <1>3, <2>1, RowsForType DEF QueuePush
  <2>3. Bundle(a) \in PolicySets /\ EntriesTrue(a, Bundle(a))
    BY <1>0, BundleType, BundleKeeps DEF RowsInv, SetsInv, SetsOf
  <2>4. Bundle(a) # NoSet
    BY <1>0, <2>3, SetIsNoNoSet
  <2>5. note.status = "APPLIED" => note.set \in acked[a]
    BY <1>0, <1>3, <2>4 DEF QueuePush, NoteOf, PushStatus, HasLatest, RecordHonest
  <2>6. \A u \in RowsFor(a, note) : UpdateTrue(u)
    BY <2>1, <2>5, RowsForTrue DEF Claimed
  <2> QED
    BY <1>0, <2>2, <2>6, QueuedTrue
<1>4. ASSUME NEW a \in Agents, NEW s \in Slots, QueueNote(a, s)
      PROVE  RowsTruth'
  <2>1. recording[a][s] \in Note /\ Claimed(a, recording[a][s])
    BY <1>0, <1>4 DEF QueueNote, NotesType
  <2>2. /\ RowsFor(a, recording[a][s]) \in SUBSET Update
        /\ Enqueue(RowsFor(a, recording[a][s]))
        /\ UNCHANGED rows
        /\ \A u \in RowsFor(a, recording[a][s]) : UpdateTrue(u)
    BY <1>0, <1>4, <2>1, RowsForType, RowsForTrue DEF QueueNote
  <2> QED
    BY <1>0, <2>2, QueuedTrue
<1>5. CASE PersistRow
  <2>1. acked' = acked
    BY <1>5 DEF PersistRow, vars, agent
  <2>2. \A i \in DOMAIN updates : UpdateTrue(updates[i])
    BY DEF RowsInv, RowsTruth, UpdateTrue
  <2>3. ASSUME NEW i \in DOMAIN updates'
        PROVE  RowTruth(updates[i].policy, updates[i].version, updates[i].agent, updates[i].row)'
    <3>1. UpdateTrue(updates'[i])
      BY <1>0, <1>5, <2>2, <2>3, PersistedRow
    <3> QED
      BY <2>1, <3>1 DEF UpdateTrue, RowTruth
  <2>4. ASSUME NEW p \in PolicyIds, NEW v \in 1..MaxVersions, NEW a \in Agents,
               rows'[p][v][a] # None
        PROVE  RowTruth(p, v, a, rows[p][v][a])'
    <3>1. CASE rows'[p][v][a] = rows[p][v][a]
      BY <2>1, <2>4, <3>1 DEF RowsInv, RowsTruth, RowTruth
    <3>2. CASE /\ rows'[p][v][a] = Head(updates).row
               /\ p = Head(updates).policy
               /\ v = Head(updates).version
               /\ a = Head(updates).agent
      <4>1. UpdateTrue(Head(updates))
        BY <1>0, <1>5, <2>2, PersistedRow
      <4> QED
        BY <2>1, <3>2, <4>1 DEF UpdateTrue, RowTruth
    <3> QED
      BY <1>0, <1>5, <3>1, <3>2, PersistedRow
  <2> QED
    BY <2>3, <2>4 DEF RowsTruth
<1>6. CASE RestartAll
  <2>1. UNCHANGED <<rows, acked>> /\ updates' = <<>>
    BY <1>6 DEF RestartAll, Restart
  <2> QED
    BY <2>1 DEF RowsInv, RowsTruth, RowTruth
<1> QED
  BY <1>1, <1>2, <1>3, <1>4, <1>5, <1>6
  DEF CoverageNext, coverageVars, notes, Transition, PublishConfig, ListForPush,
      WritePush, Plain, Fade, RegisterSeen, ConcludeAndNote, Respond

LEMMA RowsNext == RowsInv /\ [CoverageNext]_coverageVars => RowsInv'
<1> SUFFICES ASSUME RowsInv, [CoverageNext]_coverageVars
             PROVE  RowsInv'
  OBVIOUS
<1>0. AckedInv /\ SetsInv /\ VersionsInv /\ NotesType /\ TypeInv /\ TypeOK /\ [Next]_vars
  BY StepIsDelivery DEF RowsInv, AckedInv, TypeInv
<1>1. AckedInv' /\ SetsInv' /\ VersionsInv' /\ NotesType'
  BY <1>0, AckedNext, SetsNext, VersionsNext, NotesTypeNext
<1>2. RowsTruth'
  BY RowsTruthNext
<1>3. ASSUME NEW a \in Agents
      PROVE  /\ RecordHonest(a, push.snapshot[a])'
             /\ \A s \in Slots : Claimed(a, recording[a][s])'
  BY <1>0, SnapshotNext, ClaimsNext
<1> QED
  BY <1>1, <1>2, <1>3 DEF RowsInv

LEMMA RowsHold == CoverageSpec => []RowsInv
BY RowsInit, RowsNext, PTL DEF CoverageSpec

\* The composition, with the notes forgotten, is the delivery of policies: nothing it adds
\* changes what an agent is offered or what the server knows of it.
THEOREM CoverageIsDelivery == CoverageSpec => Spec
<1>1. CoverageInit => Init
  BY DEF CoverageInit
<1> QED
  BY <1>1, StepIsDelivery, PTL DEF CoverageSpec, Spec

\* Every reachable state is of its type.
THEOREM CoverageTypeCorrect == CoverageSpec => []CoverageTypeOK
<1>1. RowsInv => CoverageTypeOK
  BY DEF RowsInv, AckedInv, TypeInv, NotesType, CoverageTypeOK
<1> QED
  BY <1>1, RowsHold, PTL

\* A row, or an entry of the queue, that says a version was applied or removed is about an
\* agent that acknowledged a set with it or without the policy.
THEOREM CoverageRowsTruth == CoverageSpec => []RowsTruth
<1>1. RowsInv => RowsTruth
  BY DEF RowsInv
<1> QED
  BY <1>1, RowsHold, PTL

-----------------------------------------------------------------------------
(* What the console counts.                                                *)

LEMMA ViewRowType ==
    ASSUME RowsInv, NEW p \in PolicyIds, NEW a \in Agents
    PROVE  ViewRow(p, a) \in {None} \cup Row
<1>1. Stored(p, a) \in {None} \cup Row
  BY BoundAssumption DEF RowsInv, VersionsInv, NotesType, Stored
<1>2. LiveRow(p, a) \in Row
  BY DEF LiveRow, RowOf, Row, Observed
<1>3. LiveRemovalRow(p, a) \in Row
  BY DEF LiveRemovalRow, RowOf, Row, Observed
<1> QED
  BY <1>1, <1>2, <1>3 DEF ViewRow

\* To be shown as applied an agent holds the newest version, whatever its row says.
LEMMA AppliedIsCurrent ==
    ASSUME NEW p \in PolicyIds, NEW a \in Agents, ViewRow(p, a) \in Row,
           LiveStatus(p, a) = "APPLIED"
    PROVE  Current(p, a)
<1> DEFINE row == ViewRow(p, a)
<1>1. row.desired \in BOOLEAN /\ row.observed \in Observed
  BY DEF Row
<1>2. Current(p, a) => Present(p, a)
  BY DEF Current, Present, PresentIn
<1> HIDE DEF row
<1>3. CASE ~ row.desired
  BY <1>1, <1>2, <1>3 DEF LiveStatus, row
<1>4. CASE row.desired
  BY <1>1, <1>2, <1>4 DEF LiveStatus, row
<1> QED
  BY <1>1, <1>3, <1>4

LEMMA CurrentRuns ==
    ASSUME RowsInv, NEW p \in PolicyIds, NEW a \in Agents, record[a] # Unknown, Current(p, a)
    PROVE  <<p, latest[p].version>> \in running[a]
<1>1. record[a].applied \in acked[a] /\ <<p, latest[p].version>> \in record[a].applied
  BY DEF RowsInv, AckedInv, RecordHonest, Current, Held
<1> QED
  BY <1>1 DEF RowsInv, SetsInv, SetsOf, Within

LEMMA AppliedFromRows == RowsInv => AppliedRuns
<1> SUFFICES ASSUME RowsInv, NEW p \in PolicyIds, NEW a \in Agents,
                    Counts(p, a), LiveStatus(p, a) = "APPLIED"
             PROVE  <<p, latest[p].version>> \in running[a]
  BY DEF AppliedRuns
<1>1. ViewRow(p, a) \in Row /\ record[a] # Unknown
  BY ViewRowType DEF Counts, Live
<1> QED
  BY <1>1, AppliedIsCurrent, CurrentRuns

\* An agent counted as applied runs the newest version: the sets an agent acknowledges never
\* lose a newest version, and what the record names is one of them.
THEOREM CoverageAppliedRuns == CoverageSpec => []AppliedRuns
BY AppliedFromRows, RowsHold, PTL

\* The status "applied" covers every live agent the selector names, for any number of agents.
THEOREM CoverageAppliedComplete == CoverageSpec => []AppliedIsComplete
<1>1. RowsInv => AppliedIsComplete
  <2> SUFFICES ASSUME RowsInv, NEW p \in PolicyIds, Summary(p) = "APPLIED",
                      NEW a \in latest[p].scope, Live(a), ViewRow(p, a).desired
               PROVE  <<p, latest[p].version>> \in running[a]
    BY DEF AppliedIsComplete
  <2>0. TypeOK /\ VersionsInv
    BY DEF RowsInv, AckedInv, TypeInv
  <2>1. a \in Agents
    BY <2>0 DEF TypeOK, Policy
  <2>2. /\ latest[p].active
        /\ Matched(p) # {}
        /\ MatchedAs(p, "APPLIED") = DesiredMatched(p)
    BY <2>0 DEF Summary, TypeOK, Policy
  <2>3. latest[p].version # 0
    BY <2>2 DEF Matched, Counts, ViewRow, Stored
  <2>4. ViewRow(p, a) # None
    <3>1. LiveRow(p, a) \in Row /\ None \notin Row
      BY NoneAssumption DEF LiveRow, RowOf, Row, Observed
    <3>2. Desired(p, a)
      BY <2>2 DEF Desired
    <3> QED
      BY <2>3, <3>1, <3>2 DEF ViewRow
  <2>5. a \in DesiredMatched(p)
    BY <2>1, <2>4 DEF DesiredMatched, Matched, Counts
  <2>6. Counts(p, a) /\ LiveStatus(p, a) = "APPLIED"
    BY <2>2, <2>5 DEF MatchedAs, DesiredMatched, Matched
  <2> QED
    BY <2>1, <2>6, AppliedFromRows DEF AppliedRuns
<1> QED
  BY <1>1, RowsHold, PTL

-----------------------------------------------------------------------------
(* What is shown as removed.                                               *)

\* A row, or an entry of the queue, says that an agent has a version removed.
SaysRemoved(p, v, a) ==
    \/ /\ v \in 1..MaxVersions
       /\ rows[p][v][a] # None
       /\ rows[p][v][a].observed = "REMOVED"
    \/ \E i \in DOMAIN updates :
          /\ updates[i].policy = p
          /\ updates[i].version = v
          /\ updates[i].agent = a
          /\ updates[i].row.observed = "REMOVED"

\* The agent runs no version of the policy and is not about to get one.
Without(a, p) ==
    /\ ~ PresentIn(p, running[a])
    /\ \A s \in Slots :
          /\ handler[a][s].stage = "composed" => ~ PresentIn(p, handler[a][s].bundle)
          /\ handler[a][s].stage = "answer" /\ handler[a][s].offer # NoSet
                => ~ PresentIn(p, handler[a][s].offer)

\* A note is queued before the response it is about leaves; one of success is about the
\* set the agent runs, or about the one it was known to hold already.
NoteSound(a, s) ==
    LET note == recording[a][s]
    IN  note # None =>
            /\ handler[a][s].stage = "answer"
            /\ note.status = "APPLIED" =>
                  handler[a][s].offer = NoSet /\ (running[a] = note.set \/ note.held = note.set)

NotesSound == timeouts = 0 => \A a \in Agents, s \in Slots : NoteSound(a, s)

RemovedTrue ==
    \A p \in PolicyIds, v \in Nat, a \in Agents :
        SaysRemoved(p, v, a) =>
            /\ v <= latest[p].version
            /\ timeouts = 0 /\ v = latest[p].version /\ ~ latest[p].active => Without(a, p)

GoneInv == RowsInv /\ SoundInv /\ NotesSound /\ RemovedTrue

LEMMA BundleWithout ==
    ASSUME NEW a \in Agents, NEW p \in PolicyIds, ~ latest[p].active
    PROVE  ~ PresentIn(p, Bundle(a))
BY DEF PresentIn, Bundle

LEMMA WithoutStep ==
    ASSUME TypeOK, NEW a \in Agents, NEW b \in Agents, NEW s \in Slots, NEW r,
           NEW p \in PolicyIds, Without(a, p),
           handler' = [handler EXCEPT ![b][s] = r],
           ~ PresentIn(p, running'[a]),
           b = a => /\ r.stage = "composed" => ~ PresentIn(p, r.bundle)
                    /\ r.stage = "answer" /\ r.offer # NoSet => ~ PresentIn(p, r.offer)
    PROVE  Without(a, p)'
<1>1. CASE b = a
  <2>1. ASSUME NEW t \in Slots
        PROVE  /\ handler'[a][t].stage = "composed" => ~ PresentIn(p, handler'[a][t].bundle)
               /\ handler'[a][t].stage = "answer" /\ handler'[a][t].offer # NoSet
                     => ~ PresentIn(p, handler'[a][t].offer)
    <3>1. handler'[a][t] = IF t = s THEN r ELSE handler[a][t]
      BY <1>1 DEF TypeOK
    <3> QED
      BY <1>1, <3>1 DEF Without
  <2> QED
    BY <2>1 DEF Without
<1>2. CASE b # a
  <2>1. handler'[a] = handler[a]
    BY <1>2 DEF TypeOK
  <2> QED
    BY <2>1 DEF Without
<1> QED
  BY <1>1, <1>2

\* A policy out of use is not handed out again.
LEMMA WithoutNext ==
    ASSUME TypeOK, [Next]_vars, NEW p \in PolicyIds, NEW a \in Agents,
           Without(a, p), ~ latest[p].active
    PROVE  Without(a, p)'
<1> USE DEF agent
<1>1. CASE UNCHANGED <<running, handler>>
  BY <1>1 DEF Without
<1>2. ASSUME NEW b \in Agents, NEW s \in Slots, Poll(b, s) \/ Receive(b, s)
      PROVE  Without(a, p)'
  <2>1. PICK r : handler' = [handler EXCEPT ![b][s] = r] /\ r.stage \in {"sent", "read"}
    <3> DEFINE reported == handler[b][s].report
               copy     == IF reported = Silent THEN Known(b)
                           ELSE [Known(b) EXCEPT !.status = reported.status]
               sent     == [stage |-> "sent", report |-> report[b]]
               read     == [stage |-> "read", report |-> reported, copy |-> copy]
    <3>1. sent.stage = "sent" /\ read.stage = "read"
      OBVIOUS
    <3>2. \/ handler' = [handler EXCEPT ![b][s] = sent]
          \/ handler' = [handler EXCEPT ![b][s] = read]
      BY <1>2 DEF Poll, Receive
    <3> HIDE DEF sent, read
    <3> QED
      BY <3>1, <3>2
  <2>2. UNCHANGED running
    BY <1>2 DEF Poll, Receive
  <2> QED
    BY <2>1, <2>2, WithoutStep DEF Without
<1>3. ASSUME NEW b \in Agents, NEW s \in Slots, Register(b, s)
      PROVE  Without(a, p)'
  <2> DEFINE r == [handler[b][s] EXCEPT !.stage = "registered"]
  <2>1. handler[b][s] \in [stage : {"read", "registered"}, report : {Silent} \cup Report,
                           copy : Record]
    BY <1>3, HandlerType DEF Register, Requests, Idle
  <2>2. r.stage = "registered"
    BY <2>1
  <2>3. handler' = [handler EXCEPT ![b][s] = r] /\ UNCHANGED running
    BY <1>3 DEF Register
  <2> HIDE DEF r
  <2> QED
    BY <2>2, <2>3, WithoutStep DEF Without
<1>4. ASSUME NEW b \in Agents, NEW s \in Slots, Compose(b, s)
      PROVE  Without(a, p)'
  <2> DEFINE r == [stage |-> "composed", report |-> handler[b][s].report,
                   copy |-> handler[b][s].copy, bundle |-> Bundle(b)]
  <2>1. r.stage = "composed" /\ r.bundle = Bundle(b) /\ ~ PresentIn(p, Bundle(b))
    BY BundleWithout
  <2>2. handler' = [handler EXCEPT ![b][s] = r] /\ UNCHANGED running
    BY <1>4 DEF Compose
  <2> HIDE DEF r
  <2> QED
    BY <2>1, <2>2, WithoutStep DEF Without
<1>5. ASSUME NEW b \in Agents, NEW s \in Slots, Conclude(b, s)
      PROVE  Without(a, p)'
  <2> DEFINE request == handler[b][s]
             offer   == Offer(b, request.copy, request.report, request.bundle)
             r       == [stage |-> "answer", offer |-> offer]
  <2>1. r.stage = "answer" /\ r.offer \in {NoSet, request.bundle}
    BY DEF Offer
  <2>2. /\ handler' = [handler EXCEPT ![b][s] = r]
        /\ request.stage = "composed"
        /\ UNCHANGED running
    BY <1>5 DEF Conclude
  <2>3. b = a => ~ PresentIn(p, request.bundle)
    BY <2>2 DEF Without
  <2> HIDE DEF r, request
  <2> QED
    BY <2>1, <2>2, <2>3, WithoutStep DEF Without
<1>6. ASSUME NEW b \in Agents, NEW s \in Slots, Lose(b, s) \/ Discard(b, s) \/ Deliver(b, s)
      PROVE  Without(a, p)'
  <2>1. handler' = [handler EXCEPT ![b][s] = Idle]
    BY <1>6 DEF Lose, Discard, Deliver
  <2>2. \/ running'[a] = running[a]
        \/ /\ a = b /\ handler[a][s].stage = "answer" /\ handler[a][s].offer # NoSet
           /\ running'[a] = handler[a][s].offer
    BY <1>6 DEF Lose, Discard, Deliver, TypeOK
  <2>3. ~ PresentIn(p, running'[a])
    BY <2>2 DEF Without
  <2> QED
    BY <2>1, <2>3, IdleStage, WithoutStep
<1>7. CASE Restart
  <2>1. (\A s \in Slots : handler'[a][s] = Idle) /\ UNCHANGED running
    BY <1>7 DEF Restart
  <2> QED
    BY <2>1, IdleStage DEF Without
<1> QED
  BY <1>1, <1>2, <1>3, <1>4, <1>5, <1>6, <1>7
  DEF Next, vars, server, Operate, PushStep, ListAgents, FinishPush, PushTo, OnMessage, Timeout,
      Persist, Publish, DeactivatePolicy

\* A row of a removal that is done comes from a success without the policy.
LEMMA RemovedRows ==
    ASSUME NEW a \in Agents, NEW note \in Note, NEW u \in RowsFor(a, note),
           u.row.observed = "REMOVED"
    PROVE  /\ note.status = "APPLIED"
           /\ u.agent = a
           /\ u.version = latest[u.policy].version
           /\ PresentIn(u.policy, note.held)
           /\ ~ PresentIn(u.policy, note.set)
<1>0. note.status \in Statuses
  BY DEF Note
<1>1. CASE u \in {UpdateOf(entry[1], entry[2], a, note.status, TRUE) : entry \in note.set}
  BY <1>0, <1>1 DEF UpdateOf, RowOf, Statuses
<1>2. ASSUME NEW p \in PolicyIds, PresentIn(p, note.held), ~ PresentIn(p, note.set),
             u = UpdateOf(p, latest[p].version, a, RemovalStatus(note.status), FALSE)
      PROVE  /\ note.status = "APPLIED"
             /\ u.agent = a
             /\ u.version = latest[u.policy].version
             /\ PresentIn(u.policy, note.held)
             /\ ~ PresentIn(u.policy, note.set)
  <2>1. RemovalStatus(note.status) = "REMOVED" /\ u.policy = p /\ u.agent = a
        /\ u.version = latest[p].version
    BY <1>2 DEF UpdateOf, RowOf
  <2>2. note.status = "APPLIED"
    BY <1>0, <2>1 DEF RemovalStatus, Statuses
  <2> QED
    BY <1>2, <2>1, <2>2
<1> QED
  BY <1>1, <1>2 DEF RowsFor

\* What is queued for a removal that is done is new only where a note of a message says so.
LEMMA QueuedRemoved ==
    ASSUME NotesType, UNCHANGED rows, NEW batch \in SUBSET Update, Enqueue(batch),
           NEW p, NEW v, NEW a, SaysRemoved(p, v, a)'
    PROVE  \/ SaysRemoved(p, v, a)
           \/ \E u \in batch : /\ u.policy = p /\ u.version = v /\ u.agent = a
                               /\ u.row.observed = "REMOVED"
<1>1. \A i \in DOMAIN updates' :
         updates'[i] \in batch \/ \E j \in DOMAIN updates : updates'[i] = updates[j]
  BY EnqueueAdds DEF NotesType
<1> QED
  BY <1>1 DEF SaysRemoved

NewlyRemoved(p, v, a) ==
    \E s \in Slots :
        LET note == recording[a][s]
        IN  /\ QueueNote(a, s)
            /\ note.status = "APPLIED"
            /\ v = latest[p].version
            /\ PresentIn(p, note.held)
            /\ ~ PresentIn(p, note.set)

LEMMA RemovedNext ==
    ASSUME RowsInv, [CoverageNext]_coverageVars,
           NEW p \in PolicyIds, NEW v \in Nat, NEW a \in Agents, SaysRemoved(p, v, a)'
    PROVE  SaysRemoved(p, v, a) \/ NewlyRemoved(p, v, a)
<1>0. TypeOK /\ NotesType /\ VersionsInv
  BY DEF RowsInv, AckedInv, TypeInv
<1>1. CASE UNCHANGED <<rows, updates>>
  BY <1>1 DEF SaysRemoved
<1>2. CASE QueueMatching
  <2> DEFINE matched == {b \in latest[matching].scope : record[b] # Unknown}
             batch   == {UpdateOf(matching, latest[matching].version, b, "MATCHED", TRUE) :
                            b \in matched}
  <2>1. matching \in PolicyIds /\ matched \in SUBSET Agents
    BY <1>0, <1>2 DEF QueueMatching, NotesType, TypeOK, Policy
  <2>2. batch \in SUBSET Update /\ Enqueue(batch) /\ UNCHANGED rows
    BY <1>0, <1>2, <2>1, MatchedType DEF QueueMatching
  <2>3. \A u \in batch : u.row.observed = "MATCHED"
    BY DEF UpdateOf, RowOf
  <2> HIDE DEF batch
  <2> QED
    BY <1>0, <2>2, <2>3, QueuedRemoved
<1>3. ASSUME NEW b \in Agents, QueuePush(b)
      PROVE  SaysRemoved(p, v, a)
  <2> DEFINE listed == push.snapshot[b]
             note   == NoteOf(Bundle(b), PushStatus(b, listed), Held(listed))
  <2>1. listed \in Record /\ listed # Unknown /\ note \in Note
    BY <1>0, <1>3, PushNoteType DEF QueuePush, TypeOK
  <2>2. RowsFor(b, note) \in SUBSET Update /\ Enqueue(RowsFor(b, note)) /\ UNCHANGED rows
    BY <1>0, <1>3, <2>1, RowsForType DEF QueuePush
  <2>3. Bundle(b) # NoSet
    BY <1>0, BundleType, BundleKeeps, SetIsNoNoSet DEF RowsInv, SetsInv, SetsOf
  <2>4. note.status = "APPLIED" => note.held = note.set
    BY <2>1, <2>3 DEF NoteOf, PushStatus, HasLatest, Held
  <2>5. \A u \in RowsFor(b, note) : u.row.observed # "REMOVED"
    BY <2>1, <2>4, RemovedRows
  <2> HIDE DEF note
  <2> QED
    BY <1>0, <2>2, <2>5, QueuedRemoved
<1>4. ASSUME NEW b \in Agents, NEW s \in Slots, QueueNote(b, s)
      PROVE  SaysRemoved(p, v, a) \/ NewlyRemoved(p, v, a)
  <2> DEFINE note == recording[b][s]
  <2>1. note \in Note
    BY <1>0, <1>4 DEF QueueNote, NotesType
  <2>2. RowsFor(b, note) \in SUBSET Update /\ Enqueue(RowsFor(b, note)) /\ UNCHANGED rows
    BY <1>0, <1>4, <2>1, RowsForType DEF QueueNote
  <2>3. ASSUME NEW u \in RowsFor(b, note), u.policy = p, u.version = v, u.agent = a,
               u.row.observed = "REMOVED"
        PROVE  NewlyRemoved(p, v, a)
    BY <1>4, <2>1, <2>3, RemovedRows DEF NewlyRemoved
  <2> HIDE DEF note
  <2> QED
    BY <1>0, <2>2, <2>3, QueuedRemoved
<1>5. CASE PersistRow
  <2>1. CASE /\ v \in 1..MaxVersions
             /\ rows'[p][v][a] # None
             /\ rows'[p][v][a].observed = "REMOVED"
    <3>1. CASE rows'[p][v][a] = rows[p][v][a]
      BY <2>1, <3>1 DEF SaysRemoved
    <3>2. CASE /\ rows'[p][v][a] = Head(updates).row
               /\ p = Head(updates).policy
               /\ v = Head(updates).version
               /\ a = Head(updates).agent
      <4>1. Head(updates) = updates[1] /\ 1 \in DOMAIN updates
        BY <1>0, <1>5, PersistedRow
      <4> QED
        BY <2>1, <3>2, <4>1 DEF SaysRemoved
    <3> QED
      BY <1>0, <1>5, <2>1, <3>1, <3>2, PersistedRow
  <2>2. CASE \E i \in DOMAIN updates' :
                /\ updates'[i].policy = p
                /\ updates'[i].version = v
                /\ updates'[i].agent = a
                /\ updates'[i].row.observed = "REMOVED"
    <3>1. \A i \in DOMAIN updates' : \E j \in DOMAIN updates : updates'[i] = updates[j]
      BY <1>0, <1>5, PersistedRow
    <3> QED
      BY <2>2, <3>1 DEF SaysRemoved
  <2> QED
    BY <2>1, <2>2 DEF SaysRemoved
<1>6. CASE RestartAll
  <2>1. UNCHANGED rows /\ updates' = <<>>
    BY <1>6 DEF RestartAll
  <2> QED
    BY <2>1 DEF SaysRemoved
<1> QED
  BY <1>1, <1>2, <1>3, <1>4, <1>5, <1>6
  DEF CoverageNext, coverageVars, notes, Transition, PublishConfig, ListForPush,
      WritePush, Plain, Fade, RegisterSeen, ConcludeAndNote, Respond

LEMMA TimeoutsGrow ==
    ASSUME TypeOK, [Next]_vars
    PROVE  timeouts' = 0 => timeouts = 0
<1>1. CASE UNCHANGED timeouts
  BY <1>1
<1>2. ASSUME NEW a \in Agents, Timeout(a) PROVE timeouts' # 0
  BY <1>2 DEF Timeout, TypeOK
<1>3. CASE Operate \/ PushStep \/ Restart \/ UNCHANGED vars
  BY <1>1, <1>3 DEF Operate, Publish, DeactivatePolicy, PushStep, ListAgents, FinishPush,
                    PushTo, Restart, vars
<1>4. ASSUME NEW a \in Agents, NEW s \in Slots,
             Poll(a, s) \/ Receive(a, s) \/ OnMessage(a, s) \/ Lose(a, s) \/ Deliver(a, s)
      PROVE  UNCHANGED timeouts
  BY <1>4 DEF Poll, Receive, OnMessage, Register, Compose, Conclude, Discard, Lose, Deliver
<1>5. ASSUME NEW a \in Agents, Persist(a)
      PROVE  UNCHANGED timeouts
  BY <1>5 DEF Persist
<1> QED
  BY <1>1, <1>2, <1>3, <1>4, <1>5 DEF Next

\* A handler that has yet to queue its note has its answer ready, and the agent waits for it.
LEMMA NotesNext ==
    ASSUME GoneInv, [CoverageNext]_coverageVars
    PROVE  NotesSound'
<1> SUFFICES ASSUME timeouts' = 0, NEW a \in Agents, NEW s \in Slots, recording'[a][s] # None
             PROVE  NoteSound(a, s)'
  BY DEF NotesSound, NoteSound
<1>0. /\ TypeInv /\ TypeOK /\ NotesType /\ RowsInv /\ [Next]_vars
      /\ timeouts \in Nat
  BY StepIsDelivery DEF GoneInv, SoundInv, RowsInv, TypeInv, TypeOK
<1>1. timeouts = 0
  BY <1>0, TimeoutsGrow
<1>2. Heard(a) /\ NoteSound(a, s)
  BY <1>1 DEF GoneInv, SoundInv, NotesSound
<1>3. CASE ConcludeAndNote(a, s)
  <2> DEFINE request == handler[a][s]
             outcome == Outcome(a, request.copy, request.report, request.bundle)
             offer   == Offer(a, request.copy, request.report, request.bundle)
             note    == NoteOf(request.bundle, outcome.status, Held(request.copy))
  <2>1. /\ request.stage = "composed"
        /\ handler'[a][s] = [stage |-> "answer", offer |-> offer]
        /\ recording'[a][s] = note
        /\ running' = running
    BY <1>0, <1>3 DEF ConcludeAndNote, NotedStatus, Conclude, agent, TypeOK, NotesType
  <2>2. request.copy \in Record /\ request.copy # Unknown /\ request.bundle \in PolicySets
    BY <1>0, <2>1, HandlerType, StageKinds, UnknownIsNoRecord
  <2>3. request.bundle # NoSet
    BY <1>0, <2>1, <2>2, SetIsNoNoSet DEF RowsInv, SetsInv, SetsOf, RequestTrue
  <2>4. /\ note.status = outcome.status
        /\ note.set = request.bundle
        /\ note.held = Held(request.copy)
    BY DEF NoteOf
  <2>5. outcome.status = "APPLIED" =>
            /\ HasLatest(request.copy, request.report, request.bundle)
            /\ request.copy.status = "APPLIED"
            /\ offer = NoSet
    BY <2>2, OutcomeApplied
  <2> HIDE DEF outcome, offer, note
  <2>6. ASSUME outcome.status = "APPLIED"
        PROVE  running[a] = request.bundle \/ Held(request.copy) = request.bundle
    <3>1. CASE report[a] # Silent
      BY <1>0, <1>2, <2>1, <2>5, <2>6, <3>1, ReportedOutcome
    <3>2. CASE report[a] = Silent
      <4>1. request.report = Silent
        BY <1>2, <2>1, <3>2 DEF Heard, RequestHeard
      <4>2. request.copy.applied = request.bundle
        BY <2>5, <2>6, <4>1 DEF HasLatest
      <4> QED
        BY <2>2, <2>3, <4>2 DEF Held
    <3> QED
      BY <3>1, <3>2
  <2> QED
    BY <2>1, <2>4, <2>5, <2>6 DEF NoteSound
<1>4. ASSUME UNCHANGED <<recording[a][s], handler[a][s], running[a]>>
      PROVE  NoteSound(a, s)'
  BY <1>2, <1>4 DEF NoteSound
<1>5. ASSUME recording'[a][s] = recording[a][s]
      PROVE  /\ handler[a][s].stage = "answer"
             /\ waiting[a] = s
             /\ \A t \in Slots \ {s} : handler[a][t] = Idle
  BY <1>2, <1>5, IdleStage, OtherSlotsIdle DEF NoteSound
<1>6. ASSUME NEW b \in Agents, NEW t \in Slots,
             Poll(b, t) \/ Receive(b, t) \/ Compose(b, t) \/ Register(b, t),
             recording'[a][s] = recording[a][s]
      PROVE  NoteSound(a, s)'
  <2>1. a # b
    <3> SUFFICES ASSUME a = b PROVE FALSE
      OBVIOUS
    <3>1. handler[a][t].stage \in {"answer", "idle"} /\ waiting[a] # NoSlot
      BY <1>5, <1>6, IdleStage, SlotAssumption
    <3> QED
      BY <1>6, <3>1 DEF Poll, Receive, Compose, Register
  <2>2. handler'[a] = handler[a] /\ running' = running
    BY <1>0, <1>6, <2>1 DEF Poll, Receive, Compose, Register, agent, TypeOK
  <2> QED
    BY <1>4, <1>6, <2>2
<1>7. ASSUME NEW b \in Agents, NEW t \in Slots, ConcludeAndNote(b, t), b # a \/ t # s
      PROVE  NoteSound(a, s)'
  <2>1. recording'[a][s] = recording[a][s]
    BY <1>0, <1>7 DEF ConcludeAndNote, NotesType
  <2>2. handler[b][t].stage = "composed" /\ running' = running
    BY <1>7 DEF ConcludeAndNote, Conclude, agent
  <2>3. b # a
    BY <1>5, <1>7, <2>1, <2>2, IdleStage
  <2>4. handler'[a] = handler[a]
    BY <1>0, <1>7, <2>3 DEF ConcludeAndNote, Conclude, TypeOK
  <2> QED
    BY <1>4, <2>1, <2>2, <2>4
<1>8. ASSUME NEW b \in Agents, NEW t \in Slots, Respond(b, t)
      PROVE  NoteSound(a, s)'
  <2>1. recording' = recording /\ recording[b][t] = None
    BY <1>8 DEF Respond, notes
  <2>2. b # a
    <3> SUFFICES ASSUME b = a PROVE FALSE
      OBVIOUS
    <3>1. t # s
      BY <2>1
    <3>2. handler[a][t] = Idle
      BY <1>5, <2>1, <3>1
    <3> QED
      BY <1>8, <3>2, IdleStage DEF Respond, Lose, Deliver, Discard
  <2>3. handler'[a] = handler[a] /\ running'[a] = running[a]
    BY <1>0, <1>8, <2>2 DEF Respond, Lose, Deliver, Discard, agent, TypeOK
  <2> QED
    BY <1>4, <2>1, <2>3
<1>9. ASSUME NEW b \in Agents, NEW t \in Slots, QueueNote(b, t)
      PROVE  NoteSound(a, s)'
  <2>1. recording'[a][s] \in {recording[a][s], None} /\ UNCHANGED <<handler, running>>
    BY <1>0, <1>9 DEF QueueNote, vars, server, agent, NotesType
  <2> QED
    BY <1>4, <2>1
<1>10. CASE RestartAll
  BY <1>10 DEF RestartAll
<1>11. CASE UNCHANGED <<recording, handler, running>>
  BY <1>4, <1>11
<1>12. ASSUME NEW b \in Agents, Plain(b)
       PROVE  NoteSound(a, s)'
  <2>1. recording' = recording
    BY <1>12 DEF Plain, notes
  <2>2. CASE Timeout(b)
    BY <1>11, <2>1, <2>2 DEF Timeout, server
  <2>3. CASE Persist(b)
    BY <1>11, <2>1, <2>3 DEF Persist, agent
  <2> QED
    BY <1>6, <1>12, <2>1, <2>2, <2>3 DEF Plain
<1>13. ASSUME NEW b \in Agents, NEW t \in Slots, RegisterSeen(b, t)
       PROVE  NoteSound(a, s)'
  BY <1>6, <1>13 DEF RegisterSeen, notes
<1>14. ASSUME NEW p \in PolicyIds,
              Transition(p) \/ \E scope \in SUBSET Agents : PublishConfig(p, scope)
       PROVE  NoteSound(a, s)'
  <2>1. UNCHANGED <<recording, handler, running>>
    BY <1>14 DEF Transition, PublishConfig, Publish, DeactivatePolicy, notes, agent
  <2> QED
    BY <1>11, <2>1
<1>15. CASE QueueMatching \/ ListForPush \/ (FinishPush /\ UNCHANGED <<notes, online>>)
            \/ PersistRow \/ UNCHANGED coverageVars
  <2>1. UNCHANGED <<recording, handler, running>>
    BY <1>15 DEF QueueMatching, ListForPush, ListAgents, FinishPush, PersistRow, notes, agent,
                 vars, server, coverageVars
  <2> QED
    BY <1>11, <2>1
<1>16. ASSUME NEW b \in Agents, QueuePush(b) \/ WritePush(b) \/ Fade(b)
       PROVE  NoteSound(a, s)'
  <2>1. UNCHANGED <<recording, handler, running>>
    BY <1>16 DEF QueuePush, WritePush, PushTo, Fade, notes, agent, vars, server
  <2> QED
    BY <1>11, <2>1
<1> QED
  BY <1>3, <1>7, <1>8, <1>9, <1>10, <1>12, <1>13, <1>14, <1>15, <1>16 DEF CoverageNext

\* A version is only followed by a greater one.
LEMMA VersionsGrow ==
    ASSUME TypeOK, [Next]_vars, NEW p \in PolicyIds
    PROVE  /\ latest[p].version \in Nat /\ latest'[p].version \in Nat
           /\ latest'[p] = latest[p] \/ latest'[p].version > latest[p].version
<1>0. latest[p].version \in Nat
  BY DEF TypeOK, Policy
<1>1. CASE UNCHANGED latest
  BY <1>0, <1>1
<1>2. ASSUME NEW q \in PolicyIds, NEW scope \in SUBSET Agents, Publish(q, scope)
      PROVE  latest'[p] = latest[p] \/ latest'[p].version = latest[p].version + 1
  BY <1>2 DEF Publish, TypeOK, Policy
<1>3. ASSUME NEW q \in PolicyIds, DeactivatePolicy(q)
      PROVE  latest'[p] = latest[p] \/ latest'[p].version = latest[p].version + 1
  BY <1>3 DEF DeactivatePolicy, TypeOK, Policy
<1> QED
  BY <1>0, <1>1, <1>2, <1>3
  DEF Next, vars, server, Operate, PushStep, ListAgents, FinishPush, PushTo, OnMessage, Poll,
      Receive, Register, Compose, Conclude, Lose, Discard, Deliver, Timeout, Persist, Restart

LEMMA RemovedTrueNext ==
    ASSUME GoneInv, [CoverageNext]_coverageVars
    PROVE  RemovedTrue'
<1> SUFFICES ASSUME NEW p \in PolicyIds, NEW v \in Nat, NEW a \in Agents, SaysRemoved(p, v, a)'
             PROVE  /\ v <= latest'[p].version
                    /\ timeouts' = 0 /\ v = latest'[p].version /\ ~ latest'[p].active
                          => Without(a, p)'
  BY DEF RemovedTrue
<1>0. TypeInv /\ TypeOK /\ NotesType /\ RowsInv /\ [Next]_vars /\ timeouts \in Nat
  BY StepIsDelivery DEF GoneInv, SoundInv, RowsInv, TypeInv, TypeOK
<1>1. timeouts' = 0 => timeouts = 0
  BY <1>0, TimeoutsGrow
<1>2. /\ latest[p].version \in Nat /\ latest'[p].version \in Nat
      /\ latest'[p] = latest[p] \/ latest'[p].version > latest[p].version
  BY <1>0, VersionsGrow
<1>3. CASE SaysRemoved(p, v, a)
  <2>1. /\ v <= latest[p].version
        /\ timeouts = 0 /\ v = latest[p].version /\ ~ latest[p].active => Without(a, p)
    BY <1>3 DEF GoneInv, RemovedTrue
  <2>2. v <= latest'[p].version
    BY <1>2, <2>1
  <2>3. ASSUME timeouts' = 0, v = latest'[p].version, ~ latest'[p].active
        PROVE  Without(a, p)'
    <3>1. latest'[p] = latest[p]
      BY <1>2, <2>1, <2>3
    <3> QED
      BY <1>0, <1>1, <2>1, <2>3, <3>1, WithoutNext
  <2> QED
    BY <2>2, <2>3
<1>4. CASE NewlyRemoved(p, v, a)
  <2>1. PICK s \in Slots : /\ QueueNote(a, s)
                           /\ recording[a][s].status = "APPLIED"
                           /\ v = latest[p].version
                           /\ PresentIn(p, recording[a][s].held)
                           /\ ~ PresentIn(p, recording[a][s].set)
    BY <1>4 DEF NewlyRemoved
  <2>2. UNCHANGED <<latest, handler, running>> /\ recording[a][s] # None
    BY <2>1 DEF QueueNote, vars, server, agent
  <2>3. ASSUME timeouts = 0
        PROVE  Without(a, p)
    <3>1. Heard(a) /\ NoteSound(a, s)
      BY <2>3 DEF GoneInv, SoundInv, NotesSound
    <3>2. /\ handler[a][s].stage = "answer"
          /\ handler[a][s].offer = NoSet
          /\ running[a] = recording[a][s].set
      BY <2>1, <2>2, <3>1 DEF NoteSound
    <3>3. \A t \in Slots \ {s} : handler[a][t] = Idle
      BY <3>1, <3>2, IdleStage, OtherSlotsIdle
    <3> QED
      BY <2>1, <3>2, <3>3, IdleStage DEF Without
  <2> QED
    BY <1>1, <1>2, <2>1, <2>2, <2>3 DEF Without
<1> QED
  BY <1>0, <1>3, <1>4, RemovedNext

LEMMA GoneInit == CoverageInit => GoneInv
<1> SUFFICES ASSUME CoverageInit PROVE GoneInv
  OBVIOUS
<1>1. RowsInv /\ SoundInv
  BY RowsInit, SoundInit DEF CoverageInit
<1>2. NotesSound
  BY DEF CoverageInit, NotesSound, NoteSound
<1>3. RemovedTrue
  BY DEF CoverageInit, RemovedTrue, SaysRemoved
<1> QED
  BY <1>1, <1>2, <1>3 DEF GoneInv

LEMMA GoneNext == GoneInv /\ [CoverageNext]_coverageVars => GoneInv'
<1> SUFFICES ASSUME GoneInv, [CoverageNext]_coverageVars
             PROVE  GoneInv'
  OBVIOUS
<1>1. RowsInv' /\ SoundInv'
  BY StepIsDelivery, RowsNext, SoundNext DEF GoneInv
<1> QED
  BY <1>1, NotesNext, RemovedTrueNext DEF GoneInv

\* To be shown as removed an agent's record is without the policy, and its row says so.
LEMMA ShownRemoved ==
    ASSUME NEW p \in PolicyIds, NEW a \in Agents, ViewRow(p, a) \in Row,
           LiveStatus(p, a) = "REMOVED"
    PROVE  ~ Present(p, a) /\ ViewRow(p, a).observed = "REMOVED"
<1> DEFINE row == ViewRow(p, a)
<1>1. row.desired \in BOOLEAN /\ row.observed \in Observed
  BY DEF Row
<1>2. Current(p, a) => Present(p, a)
  BY DEF Current, Present, PresentIn
<1> HIDE DEF row
<1>3. CASE ~ row.desired
  BY <1>1, <1>2, <1>3 DEF LiveStatus, row
<1>4. CASE row.desired
  BY <1>1, <1>2, <1>4 DEF LiveStatus, row
<1> QED
  BY <1>1, <1>3, <1>4 DEF row

LEMMA GoneFromInv == GoneInv => RemovedIsGone
<1> SUFFICES ASSUME GoneInv, timeouts = 0, NEW p \in PolicyIds, NEW a \in Agents,
                    ~ latest[p].active, PresentIn(p, running[a]), ~ Working(a), Counts(p, a),
                    restarts = 0 \/ Stored(p, a) # None, Summary(p) = "REMOVED"
             PROVE  FALSE
  BY DEF RemovedIsGone
<1>0. RowsInv /\ TypeOK /\ VersionsInv
  BY DEF GoneInv, RowsInv, AckedInv, TypeInv
<1>1. LiveStatus(p, a) = "REMOVED"
  <2>1. a \in Matched(p)
    BY DEF Matched
  <2>2. MatchedAs(p, "REMOVED") = Matched(p)
    BY <2>1 DEF Summary
  <2> QED
    BY <2>1, <2>2 DEF MatchedAs
<1>2. ViewRow(p, a) # None /\ ViewRow(p, a) \in Row
  BY <1>0, ViewRowType DEF Counts
<1>3. ~ Present(p, a) /\ ViewRow(p, a).observed = "REMOVED"
  BY <1>1, <1>2, ShownRemoved
<1>4. CASE Stored(p, a) # None
  <2>1. /\ latest[p].version # 0
        /\ rows[p][latest[p].version][a] = ViewRow(p, a)
    BY <1>4 DEF Stored, ViewRow
  <2>2. latest[p].version \in Nat /\ latest[p].version \in 1..MaxVersions
    BY <1>0, <2>1, BoundAssumption DEF VersionsInv
  <2>3. SaysRemoved(p, latest[p].version, a)
    BY <1>2, <1>3, <2>1, <2>2 DEF SaysRemoved
  <2> QED
    BY <2>2, <2>3 DEF GoneInv, RemovedTrue, Without
<1>5. CASE Stored(p, a) = None
  <2>1. ViewRow(p, a) = LiveRemovalRow(p, a)
    BY <1>2, <1>5 DEF ViewRow, Desired
  <2>2. record[a].status = "APPLIED" /\ record[a] # Unknown
    <3>1. LiveRemovalRow(p, a).observed = "REMOVED"
      BY <1>3, <2>1
    <3> QED
      BY <3>1 DEF LiveRemovalRow, RowOf, Counts, Live
  <2>3. RecordSound(a)
    BY <1>5 DEF GoneInv, SoundInv
  <2>4. running[a] = record[a].applied
    BY <2>2, <2>3 DEF RecordSound, RecordHolds, RecordTrue, Working
  <2>5. running[a] # NoSet
    <3>1. running[a] \in PolicySets /\ EntriesTrue(a, running[a])
      BY <1>0 DEF RowsInv, SetsInv, SetsOf, TypeOK
    <3> QED
      BY <1>0, <3>1, SetIsNoNoSet
  <2> QED
    BY <1>3, <2>2, <2>4, <2>5 DEF Present, Held
<1> QED
  BY <1>4, <1>5

\* While no agent gives up on a request, a policy the console shows as removed is run by no
\* live agent it counts: a row of the newest version that says so is written only when the
\* agent reported a set without the policy, and nothing hands the policy out again.
THEOREM CoverageRemovedIsGone == CoverageSpec => []RemovedIsGone
BY GoneInit, GoneNext, GoneFromInv, PTL DEF CoverageSpec

=============================================================================
