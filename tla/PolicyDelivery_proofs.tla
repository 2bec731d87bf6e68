------------------------ MODULE PolicyDelivery_proofs ------------------------
(***************************************************************************)
(* Proofs about PolicyDelivery, for any number of agents, policies,        *)
(* overlapping requests, timeouts and restarts.                            *)
(***************************************************************************)
EXTENDS PolicyDelivery, TLAPS

-----------------------------------------------------------------------------
(* Type correctness.                                                         *)

\* A push visits agents that have a record.
Listed == \A a \in Agents : push.snapshot[a] # Unknown => record[a] # Unknown

TypeInv == TypeOK /\ Listed

LEMMA UnknownIsNoRecord == \A r \in Record : r # Unknown
BY DEF Record, Unknown, Statuses

\* The stage of a request tells what it knows.
LEMMA StageKinds ==
    ASSUME NEW r \in Requests
    PROVE  /\ r.stage = "sent" => r.report \in {Silent} \cup Report
           /\ r.stage \in {"read", "registered", "composed"} =>
                 r.report \in {Silent} \cup Report /\ r.copy \in Record
           /\ r.stage = "composed" => r.bundle \in PolicySets
           /\ r.stage = "answer" => r.offer \in {NoSet} \cup PolicySets
BY SMTT(30) DEF Requests, Idle

LEMMA HandlerType ==
    ASSUME TypeOK, NEW a \in Agents, NEW s \in Slots
    PROVE  handler[a][s] \in Requests
BY DEF TypeOK

LEMMA SetHandlerType ==
    ASSUME TypeOK, NEW a \in Agents, NEW s \in Slots, NEW r \in Requests,
           handler' = [handler EXCEPT ![a][s] = r]
    PROVE  handler' \in [Agents -> [Slots -> Requests]]
BY DEF TypeOK

LEMMA BundleType ==
    ASSUME TypeOK, NEW a \in Agents
    PROVE  Bundle(a) \in PolicySets
BY DEF TypeOK, Bundle, PolicySets, Policy

LEMMA KnownType ==
    ASSUME TypeOK, NEW a \in Agents
    PROVE  Known(a) \in Record
BY DEF TypeOK, Known, Record, Statuses

LEMMA OutcomeType ==
    ASSUME NEW a \in Agents, NEW copy \in Record, NEW reported, NEW bundle \in PolicySets
    PROVE  Outcome(a, copy, reported, bundle) \in Record
BY DEF Outcome, Record, Statuses

LEMMA TypeInit == Init => TypeInv
BY DEF Init, TypeInv, TypeOK, Listed, Policy, Requests, PolicySets

LEMMA TypeNext == TypeInv /\ [Next]_vars => TypeInv'
<1> SUFFICES ASSUME TypeInv, [Next]_vars
             PROVE  TypeInv'
  OBVIOUS
<1> USE DEF server, agent
<1>0. TypeOK /\ Listed
  BY DEF TypeInv
<1>1. ASSUME NEW p \in PolicyIds, NEW scope \in SUBSET Agents, Publish(p, scope)
      PROVE  TypeInv'
  BY <1>0, <1>1 DEF Publish, TypeInv, TypeOK, Listed, Policy
<1>2. ASSUME NEW p \in PolicyIds, DeactivatePolicy(p)
      PROVE  TypeInv'
  BY <1>0, <1>2 DEF DeactivatePolicy, TypeInv, TypeOK, Listed, Policy
<1>3. CASE ListAgents
  BY <1>0, <1>3 DEF ListAgents, TypeInv, TypeOK, Listed
<1>4. ASSUME NEW a \in Agents, PushTo(a)
      PROVE  TypeInv'
  <2>1. record[a] \in Record
    BY <1>0, <1>4 DEF PushTo, TypeOK, Listed
  <2>2. [record[a] EXCEPT !.status = "CONFIG_PENDING"] \in Record
    BY <2>1 DEF Record, Statuses
  <2>3. \/ UNCHANGED <<record, queued>>
        \/ /\ record' = [record EXCEPT ![a] = [record[a] EXCEPT !.status = "CONFIG_PENDING"]]
           /\ queued' = queued \cup {a}
    BY <1>4 DEF PushTo
  <2>4. /\ record' \in [Agents -> {Unknown} \cup Record]
        /\ queued' \subseteq Agents
        /\ \A b \in Agents : record[b] # Unknown => record'[b] # Unknown
    BY <1>0, <2>2, <2>3, UnknownIsNoRecord DEF TypeOK
  <2>5. /\ push' \in [step : {"idle", "list", "visit"},
                      snapshot : [Agents -> {Unknown} \cup Record]]
        /\ \A b \in Agents : push'.snapshot[b] # Unknown => push.snapshot[b] # Unknown
    BY <1>0, <1>4 DEF PushTo, TypeOK
  <2> QED
    BY <1>0, <1>4, <2>4, <2>5 DEF PushTo, TypeInv, TypeOK, Listed
<1>5. CASE FinishPush
  BY <1>0, <1>5 DEF FinishPush, TypeInv, TypeOK, Listed
<1>6. ASSUME NEW a \in Agents, NEW s \in Slots, Poll(a, s)
      PROVE  TypeInv'
  <2>1. [stage |-> "sent", report |-> report[a]] \in Requests
    BY <1>0 DEF TypeOK, Requests
  <2>2. handler' \in [Agents -> [Slots -> Requests]]
    BY <1>0, <1>6, <2>1, SetHandlerType DEF Poll
  <2> QED
    BY <1>0, <1>6, <2>2 DEF Poll, TypeInv, TypeOK, Listed
<1>7. ASSUME NEW a \in Agents, NEW s \in Slots, Receive(a, s)
      PROVE  TypeInv'
  <2> DEFINE reported == handler[a][s].report
             copy     == IF reported = Silent THEN Known(a)
                         ELSE [Known(a) EXCEPT !.status = reported.status]
  <2>1. reported \in {Silent} \cup Report
    BY <1>0, <1>7, HandlerType, StageKinds DEF Receive
  <2>2. copy \in Record
    BY <1>0, <2>1, KnownType DEF Record, Report, Statuses
  <2>3. [stage |-> "read", report |-> reported, copy |-> copy] \in Requests
    BY <2>1, <2>2 DEF Requests
  <2>4. handler' \in [Agents -> [Slots -> Requests]]
    BY <1>0, <1>7, <2>3, SetHandlerType DEF Receive
  <2> QED
    BY <1>0, <1>7, <2>4 DEF Receive, TypeInv, TypeOK, Listed
<1>8. ASSUME NEW a \in Agents, NEW s \in Slots, Register(a, s)
      PROVE  TypeInv'
  <2>1. handler[a][s] \in Requests /\ handler[a][s].copy \in Record
    BY <1>0, <1>8, HandlerType, StageKinds DEF Register
  <2>2. [handler[a][s] EXCEPT !.stage = "registered"] \in Requests
    BY <1>8, <2>1 DEF Register, Requests, Idle
  <2>3. handler' \in [Agents -> [Slots -> Requests]]
    BY <1>0, <1>8, <2>2, SetHandlerType DEF Register
  <2>4. /\ record' \in [Agents -> {Unknown} \cup Record]
        /\ \A b \in Agents : record[b] # Unknown => record'[b] # Unknown
    BY <1>0, <1>8, <2>1, UnknownIsNoRecord DEF Register, TypeOK
  <2> QED
    BY <1>0, <1>8, <2>3, <2>4 DEF Register, TypeInv, TypeOK, Listed
<1>9. ASSUME NEW a \in Agents, NEW s \in Slots, Compose(a, s)
      PROVE  TypeInv'
  <2>1. /\ handler[a][s].report \in {Silent} \cup Report
        /\ handler[a][s].copy \in Record
    BY <1>0, <1>9, HandlerType, StageKinds DEF Compose
  <2>2. [stage |-> "composed", report |-> handler[a][s].report,
         copy |-> handler[a][s].copy, bundle |-> Bundle(a)] \in Requests
    BY <1>0, <2>1, BundleType DEF Requests
  <2>3. handler' \in [Agents -> [Slots -> Requests]]
    BY <1>0, <1>9, <2>2, SetHandlerType DEF Compose
  <2> QED
    BY <1>0, <1>9, <2>3 DEF Compose, TypeInv, TypeOK, Listed
<1>10. ASSUME NEW a \in Agents, NEW s \in Slots, Conclude(a, s)
       PROVE  TypeInv'
  <2> DEFINE request == handler[a][s]
             outcome == Outcome(a, request.copy, request.report, request.bundle)
             offer   == Offer(a, request.copy, request.report, request.bundle)
  <2>1. request.copy \in Record /\ request.bundle \in PolicySets
    BY <1>0, <1>10, HandlerType, StageKinds DEF Conclude
  <2>2. outcome \in Record
    BY <2>1, OutcomeType
  <2>3. [stage |-> "answer", offer |-> offer] \in Requests
    BY <2>1 DEF Offer, Requests
  <2>4. handler' \in [Agents -> [Slots -> Requests]]
    BY <1>0, <1>10, <2>3, SetHandlerType DEF Conclude
  <2>5. record' = [record EXCEPT ![a] = outcome]
    BY <1>10 DEF Conclude
  <2>6. /\ record' \in [Agents -> {Unknown} \cup Record]
        /\ \A b \in Agents : record[b] # Unknown => record'[b] # Unknown
    BY <1>0, <2>2, <2>5, UnknownIsNoRecord DEF TypeOK
  <2> QED
    BY <1>0, <1>10, <2>4, <2>6 DEF Conclude, TypeInv, TypeOK, Listed
<1>11. ASSUME NEW a \in Agents, NEW s \in Slots, Lose(a, s) \/ Discard(a, s)
       PROVE  TypeInv'
  <2>1. handler' \in [Agents -> [Slots -> Requests]]
    BY <1>0, <1>11, SetHandlerType DEF Lose, Discard, Requests
  <2> QED
    BY <1>0, <1>11, <2>1 DEF Lose, Discard, TypeInv, TypeOK, Listed
<1>12. ASSUME NEW a \in Agents, Timeout(a)
       PROVE  TypeInv'
  BY <1>0, <1>12 DEF Timeout, TypeInv, TypeOK, Listed
<1>13. ASSUME NEW a \in Agents, NEW s \in Slots, Deliver(a, s)
       PROVE  TypeInv'
  <2> DEFINE offer == handler[a][s].offer
  <2>1. offer \in {NoSet} \cup PolicySets
    BY <1>0, <1>13, HandlerType, StageKinds DEF Deliver
  <2>2. handler' \in [Agents -> [Slots -> Requests]]
    BY <1>0, <1>13, SetHandlerType DEF Deliver, Requests
  <2>3. /\ running' \in [Agents -> PolicySets]
        /\ report' \in [Agents -> {Silent} \cup Report]
        /\ acked' \in [Agents -> SUBSET PolicySets]
    <3>1. CASE offer = NoSet
      BY <1>0, <1>13, <3>1 DEF Deliver, TypeOK
    <3>2. CASE offer # NoSet
      <4>1. /\ offer \in PolicySets
            /\ [status |-> "APPLIED", set |-> offer] \in Report
            /\ [status |-> "FAILED", set |-> offer] \in Report
        BY <2>1, <3>2 DEF Report
      <4>2. acked[a] \cup {offer} \in SUBSET PolicySets
        BY <1>0, <4>1 DEF TypeOK
      <4>3. \/ /\ running' = [running EXCEPT ![a] = offer]
               /\ report' = [report EXCEPT ![a] = [status |-> "APPLIED", set |-> offer]]
               /\ acked' = [acked EXCEPT ![a] = acked[a] \cup {offer}]
            \/ /\ report' = [report EXCEPT ![a] = [status |-> "FAILED", set |-> offer]]
               /\ UNCHANGED <<running, acked>>
        BY <1>13, <3>2 DEF Deliver
      <4>4. /\ running \in [Agents -> PolicySets]
            /\ report \in [Agents -> {Silent} \cup Report]
            /\ acked \in [Agents -> SUBSET PolicySets]
        BY <1>0 DEF TypeOK
      <4> HIDE DEF offer
      <4>5. running' \in [Agents -> PolicySets]
        BY <4>1, <4>3, <4>4
      <4>6. report' \in [Agents -> {Silent} \cup Report]
        BY <4>1, <4>3, <4>4
      <4>7. acked' \in [Agents -> SUBSET PolicySets]
        BY <4>2, <4>3, <4>4
      <4> QED
        BY <4>5, <4>6, <4>7
    <3> QED
      BY <3>1, <3>2
  <2> QED
    BY <1>0, <1>13, <2>2, <2>3 DEF Deliver, TypeInv, TypeOK, Listed
<1>14. ASSUME NEW a \in Agents, Persist(a)
       PROVE  TypeInv'
  BY <1>0, <1>14 DEF Persist, TypeInv, TypeOK, Listed
<1>15. CASE Restart
  BY <1>0, <1>15 DEF Restart, TypeInv, TypeOK, Listed, Requests
<1>16. CASE UNCHANGED vars
  BY <1>0, <1>16 DEF vars, TypeInv, TypeOK, Listed
<1> QED
  BY <1>1, <1>2, <1>3, <1>4, <1>5, <1>6, <1>7, <1>8, <1>9, <1>10, <1>11, <1>12,
     <1>13, <1>14, <1>15, <1>16 DEF Next, Operate, PushStep, OnMessage

\* Every reachable state is of its type.
THEOREM DeliveryTypeCorrect == Spec => []TypeOK
<1>1. Spec => []TypeInv
  BY TypeInit, TypeNext, PTL DEF Spec
<1>2. TypeInv => TypeOK
  BY DEF TypeInv
<1> QED
  BY <1>1, <1>2, PTL

-----------------------------------------------------------------------------
(* The acknowledged set.                                                     *)

\* A report of success is about a set the agent applied.
Honest(a, reported) ==
    reported # Silent /\ reported.status = "APPLIED" => reported.set \in acked[a]

\* A copy names an acknowledged set and carries the status that was reported.
HonestCopy(a, copy, reported) ==
    /\ copy.applied \in {NoSet} \cup acked[a]
    /\ reported # Silent => copy.status = reported.status

RequestHonest(a, request) ==
    /\ request.stage \in {"sent", "read", "registered", "composed"} =>
          Honest(a, request.report)
    /\ request.stage \in {"read", "registered", "composed"} =>
          HonestCopy(a, request.copy, request.report)

RecordHonest(a, r) == r # Unknown => r.applied \in {NoSet} \cup acked[a]

AckedInv ==
    /\ TypeInv
    /\ \A a \in Agents :
          /\ RecordHonest(a, record[a])
          /\ RecordHonest(a, stored[a])
          /\ Honest(a, report[a])
          /\ \A s \in Slots : RequestHonest(a, handler[a][s])

\* Acknowledgements are never taken back, so what was honest remains so.
LEMMA HonestyStable ==
    ASSUME AckedInv, \A a \in Agents : acked[a] \subseteq acked'[a]
    PROVE  \A a \in Agents :
              /\ record[a] # Unknown => record[a].applied \in {NoSet} \cup acked'[a]
              /\ stored[a] # Unknown => stored[a].applied \in {NoSet} \cup acked'[a]
              /\ report[a] # Silent /\ report[a].status = "APPLIED"
                    => report[a].set \in acked'[a]
BY DEF AckedInv, RecordHonest, Honest

\* A request concludes with an acknowledged set: a set is recorded as applied
\* only when the record names it already or the report at hand does.
LEMMA OutcomeHonest ==
    ASSUME NEW a \in Agents, NEW copy \in Record, NEW reported \in {Silent} \cup Report,
           NEW bundle \in PolicySets,
           Honest(a, reported), HonestCopy(a, copy, reported)
    PROVE  Outcome(a, copy, reported, bundle).applied \in {NoSet} \cup acked[a]
<1>1. CASE Incompatible(a, bundle) \/ ~ HasLatest(copy, reported, bundle)
           \/ copy.status # "APPLIED"
  BY <1>1 DEF Outcome, HonestCopy, Record
<1>2. CASE /\ ~ Incompatible(a, bundle)
           /\ HasLatest(copy, reported, bundle)
           /\ copy.status = "APPLIED"
  <2>1. Outcome(a, copy, reported, bundle).applied = bundle
    BY <1>2 DEF Outcome, Record
  <2>2. CASE reported = Silent
    BY <1>2, <2>1, <2>2 DEF HasLatest, HonestCopy
  <2>3. CASE reported # Silent
    BY <1>2, <2>1, <2>3 DEF HasLatest, HonestCopy, Honest
  <2> QED
    BY <2>2, <2>3
<1> QED
  BY <1>1, <1>2

LEMMA AckedInit == Init => AckedInv
<1> SUFFICES ASSUME Init
             PROVE  AckedInv
  OBVIOUS
<1>1. TypeInv
  BY TypeInit
<1> QED
  BY <1>1 DEF Init, AckedInv, RecordHonest, Honest, RequestHonest, Idle

LEMMA AckedNext == AckedInv /\ [Next]_vars => AckedInv'
<1> SUFFICES ASSUME AckedInv, [Next]_vars
             PROVE  AckedInv'
  OBVIOUS
<1> USE DEF server, agent
<1>0. TypeInv /\ TypeOK /\ TypeInv'
  BY TypeNext DEF AckedInv, TypeInv
\* Steps that leave records, requests, reports and acknowledgements alone.
<1>1. ASSUME UNCHANGED <<record, stored, report, handler, acked>>
      PROVE  AckedInv'
  BY <1>0, <1>1 DEF AckedInv, RecordHonest, Honest, RequestHonest, HonestCopy
<1>2. CASE Operate
  BY <1>1, <1>2 DEF Operate, Publish, DeactivatePolicy
<1>3. CASE ListAgents \/ FinishPush \/ UNCHANGED vars
  BY <1>1, <1>3 DEF ListAgents, FinishPush, vars
<1>4. ASSUME NEW a \in Agents, PushTo(a)
      PROVE  AckedInv'
  <2>1. record[a] \in Record /\ RecordHonest(a, record[a])
    BY <1>0, <1>4 DEF PushTo, TypeInv, TypeOK, Listed, AckedInv
  <2>2. \/ UNCHANGED record
        \/ record' = [record EXCEPT ![a] = [record[a] EXCEPT !.status = "CONFIG_PENDING"]]
    BY <1>4 DEF PushTo
  <2>3. record[a] # Unknown
    BY <2>1, UnknownIsNoRecord
  <2>4. [record[a] EXCEPT !.status = "CONFIG_PENDING"].applied \in {NoSet} \cup acked[a]
    BY <2>1, <2>3 DEF Record, RecordHonest
  <2>5. \A b \in Agents : record'[b] # Unknown => record'[b].applied \in {NoSet} \cup acked[b]
    BY <1>0, <2>2, <2>4 DEF AckedInv, RecordHonest, TypeOK
  <2> QED
    BY <1>0, <1>4, <2>5
    DEF PushTo, AckedInv, RecordHonest, Honest, RequestHonest, HonestCopy
\* Steps that change one request.
<1>5. ASSUME NEW a \in Agents, NEW s \in Slots, NEW r \in Requests,
             RequestHonest(a, r),
             handler' = [handler EXCEPT ![a][s] = r],
             UNCHANGED <<stored, report, acked>>,
             \/ UNCHANGED record
             \/ \E copy \in Record : /\ record' = [record EXCEPT ![a] = copy]
                                     /\ copy.applied \in {NoSet} \cup acked[a]
      PROVE  AckedInv'
  <2>1. \A b \in Agents : \A t \in Slots : RequestHonest(b, handler'[b][t])
    BY <1>0, <1>5 DEF AckedInv, TypeOK
  <2>2. \A b \in Agents : RecordHonest(b, record'[b])
    BY <1>0, <1>5 DEF AckedInv, TypeOK, RecordHonest
  <2> QED
    BY <1>0, <1>5, <2>1, <2>2
    DEF AckedInv, RecordHonest, Honest, RequestHonest, HonestCopy
<1>6. ASSUME NEW a \in Agents, NEW s \in Slots, Poll(a, s)
      PROVE  AckedInv'
  <2> DEFINE r == [stage |-> "sent", report |-> report[a]]
  <2>1. r \in Requests
    BY <1>0 DEF TypeOK, Requests
  <2>2. RequestHonest(a, r)
    BY DEF AckedInv, RequestHonest
  <2> QED
    BY <1>5, <1>6, <2>1, <2>2 DEF Poll
<1>7. ASSUME NEW a \in Agents, NEW s \in Slots, Receive(a, s)
      PROVE  AckedInv'
  <2> DEFINE reported == handler[a][s].report
             copy     == IF reported = Silent THEN Known(a)
                         ELSE [Known(a) EXCEPT !.status = reported.status]
             r        == [stage |-> "read", report |-> reported, copy |-> copy]
  <2>1. reported \in {Silent} \cup Report /\ Honest(a, reported)
    BY <1>0, <1>7, HandlerType, StageKinds DEF Receive, AckedInv, RequestHonest
  <2>2. Known(a) \in Record /\ Known(a).applied \in {NoSet} \cup acked[a]
    BY <1>0, KnownType DEF Known, AckedInv, RecordHonest
  <2>3. copy \in Record /\ HonestCopy(a, copy, reported)
    BY <2>1, <2>2 DEF Record, Report, Statuses, HonestCopy
  <2>4. r \in Requests
    BY <2>1, <2>3 DEF Requests
  <2>5. RequestHonest(a, r)
    BY <2>1, <2>3 DEF RequestHonest
  <2> QED
    BY <1>5, <1>7, <2>4, <2>5 DEF Receive
<1>8. ASSUME NEW a \in Agents, NEW s \in Slots, Register(a, s)
      PROVE  AckedInv'
  <2> DEFINE r == [handler[a][s] EXCEPT !.stage = "registered"]
  <2>1. /\ handler[a][s] \in Requests
        /\ handler[a][s].copy \in Record
        /\ RequestHonest(a, handler[a][s])
    BY <1>0, <1>8, HandlerType, StageKinds DEF Register, AckedInv
  <2>2. /\ r \in Requests
        /\ r.stage = "registered"
        /\ r.report = handler[a][s].report
        /\ r.copy = handler[a][s].copy
    BY <1>8, <2>1 DEF Register, Requests, Idle
  <2>3. RequestHonest(a, r) /\ handler[a][s].copy.applied \in {NoSet} \cup acked[a]
    BY <1>8, <2>1, <2>2 DEF Register, RequestHonest, HonestCopy
  <2> QED
    BY <1>5, <1>8, <2>1, <2>2, <2>3 DEF Register
<1>9. ASSUME NEW a \in Agents, NEW s \in Slots, Compose(a, s)
      PROVE  AckedInv'
  <2> DEFINE r == [stage |-> "composed", report |-> handler[a][s].report,
                   copy |-> handler[a][s].copy, bundle |-> Bundle(a)]
  <2>1. /\ handler[a][s].report \in {Silent} \cup Report
        /\ handler[a][s].copy \in Record
        /\ RequestHonest(a, handler[a][s])
    BY <1>0, <1>9, HandlerType, StageKinds DEF Compose, AckedInv
  <2>2. r \in Requests
    BY <1>0, <2>1, BundleType DEF Requests
  <2>3. RequestHonest(a, r)
    BY <1>9, <2>1 DEF Compose, RequestHonest
  <2> QED
    BY <1>5, <1>9, <2>2, <2>3 DEF Compose
<1>10. ASSUME NEW a \in Agents, NEW s \in Slots, Conclude(a, s)
       PROVE  AckedInv'
  <2> DEFINE request == handler[a][s]
             outcome == Outcome(a, request.copy, request.report, request.bundle)
             offer   == Offer(a, request.copy, request.report, request.bundle)
             r       == [stage |-> "answer", offer |-> offer]
  <2>1. /\ request.report \in {Silent} \cup Report
        /\ request.copy \in Record
        /\ request.bundle \in PolicySets
        /\ RequestHonest(a, request)
        /\ request.stage = "composed"
    BY <1>0, <1>10, HandlerType, StageKinds DEF Conclude, AckedInv
  <2>2. Honest(a, request.report) /\ HonestCopy(a, request.copy, request.report)
    BY <2>1 DEF RequestHonest
  <2>3. outcome \in Record
    BY <2>1, OutcomeType
  <2>4. outcome.applied \in {NoSet} \cup acked[a]
    BY <2>1, <2>2, OutcomeHonest
  <2>5. r \in Requests
    BY <2>1 DEF Offer, Requests
  <2>6. RequestHonest(a, r)
    BY DEF RequestHonest
  <2>7. /\ record' = [record EXCEPT ![a] = outcome]
        /\ handler' = [handler EXCEPT ![a][s] = r]
        /\ UNCHANGED <<stored, report, acked>>
    BY <1>10 DEF Conclude
  <2> HIDE DEF outcome, r
  <2> QED
    BY <1>5, <2>3, <2>4, <2>5, <2>6, <2>7
<1>11. ASSUME NEW a \in Agents, NEW s \in Slots, Lose(a, s) \/ Discard(a, s)
       PROVE  AckedInv'
  <2>1. Idle \in Requests /\ RequestHonest(a, Idle)
    BY DEF Requests, RequestHonest, Idle
  <2> QED
    BY <1>5, <1>11, <2>1 DEF Lose, Discard
<1>12. ASSUME NEW a \in Agents, Timeout(a)
       PROVE  AckedInv'
  BY <1>1, <1>12 DEF Timeout
<1>13. ASSUME NEW a \in Agents, NEW s \in Slots, Deliver(a, s)
       PROVE  AckedInv'
  <2> DEFINE offer == handler[a][s].offer
  <2>1. \A b \in Agents : acked[b] \subseteq acked'[b]
    BY <1>0, <1>13 DEF Deliver, TypeOK
  <2>2. UNCHANGED <<record, stored>>
    BY <1>13 DEF Deliver
  <2>3. \A b \in Agents : RecordHonest(b, record[b])' /\ RecordHonest(b, stored[b])'
    BY <2>1, <2>2, HonestyStable DEF RecordHonest
  <2>4. \A b \in Agents : Honest(b, report[b])'
    <3>1. \A b \in Agents \ {a} : report'[b] = report[b]
      BY <1>0, <1>13 DEF Deliver, TypeOK
    <3>2. \A b \in Agents \ {a} : Honest(b, report[b])'
      BY <2>1, <3>1, HonestyStable DEF Honest
    <3>3. \/ report'[a] = Silent
          \/ report'[a] = [status |-> "APPLIED", set |-> offer] /\ offer \in acked'[a]
          \/ report'[a] = [status |-> "FAILED", set |-> offer]
      BY <1>0, <1>13 DEF Deliver, TypeOK
    <3>4. Honest(a, report[a])'
      BY <3>3 DEF Honest
    <3> QED
      BY <3>2, <3>4
  <2>5. \A b \in Agents : \A t \in Slots : RequestHonest(b, handler[b][t])'
    <3>1. \A b \in Agents : \A t \in Slots :
             handler'[b][t] = handler[b][t] \/ handler'[b][t] = Idle
      BY <1>0, <1>13 DEF Deliver, TypeOK
    <3>2. SUFFICES ASSUME NEW b \in Agents, NEW t \in Slots
                   PROVE  RequestHonest(b, handler[b][t])'
      OBVIOUS
    <3>3. CASE handler'[b][t] = Idle
      BY <3>3 DEF RequestHonest, Idle
    <3>4. CASE handler'[b][t] = handler[b][t]
      <4>1. RequestHonest(b, handler[b][t])
        BY DEF AckedInv
      <4> QED
        BY <2>1, <3>4, <4>1 DEF RequestHonest, Honest, HonestCopy
    <3> QED
      BY <3>1, <3>3, <3>4
  <2> QED
    BY <1>0, <2>3, <2>4, <2>5 DEF AckedInv
<1>14. ASSUME NEW a \in Agents, Persist(a)
       PROVE  AckedInv'
  BY <1>0, <1>14
  DEF Persist, TypeOK, AckedInv, RecordHonest, Honest, RequestHonest, HonestCopy
<1>15. CASE Restart
  BY <1>0, <1>15
  DEF Restart, AckedInv, RecordHonest, Honest, RequestHonest, Idle
<1> QED
  BY <1>2, <1>3, <1>4, <1>6, <1>7, <1>8, <1>9, <1>10, <1>11, <1>12, <1>13, <1>14,
     <1>15 DEF Next, PushStep, OnMessage

\* What the server takes for applied, in memory and in the database, the agent
\* acknowledged, through any overlap of requests, pushes, losses and restarts.
THEOREM AcknowledgedOnly == Spec => []AckedTruth
<1>1. Spec => []AckedInv
  BY AckedInit, AckedNext, PTL DEF Spec
<1>2. AckedInv => AckedTruth
  BY DEF AckedInv, RecordHonest, AckedTruth
<1> QED
  BY <1>1, <1>2, PTL

-----------------------------------------------------------------------------
(* The record of an agent that has nothing under way.                        *)
(*                                                                           *)
(* Until an agent gives up on a request it has one at most, and what the     *)
(* request carries of the agent's report stays true.  Until the server       *)
(* restarts as well, what its handler makes of the record is true by the     *)
(* time the agent learns of it.                                              *)

RecordTrue(a) ==
    record[a] # Unknown /\ record[a].status = "APPLIED" => running[a] = record[a].applied

\* A report of success is about the set the agent runs.
ReportTrue(a) ==
    report[a] # Silent /\ report[a].status = "APPLIED" => running[a] = report[a].set

OneRequest(a) == \A s \in Slots : handler[a][s] # Idle => waiting[a] = s

\* A request carries the agent's report, and a copy with the status reported.
RequestHeard(a, s) ==
    LET request == handler[a][s]
    IN  /\ request.stage \in {"sent", "read", "registered", "composed"}
              => request.report = report[a]
        /\ request.stage \in {"read", "registered", "composed"} /\ report[a] # Silent
              => request.copy.status = report[a].status

Heard(a) == OneRequest(a) /\ ReportTrue(a) /\ \A s \in Slots : RequestHeard(a, s)

\* Without a report the copy is as true as the record; a set is on offer only to an agent
\* whose status is not APPLIED.
RequestSound(a, s) ==
    LET request == handler[a][s]
    IN  /\ /\ request.stage \in {"read", "registered", "composed"}
           /\ report[a] = Silent
           /\ request.copy.status = "APPLIED"
           => running[a] = request.copy.applied
        /\ request.stage = "answer" /\ request.offer # NoSet => record[a].status # "APPLIED"

\* Between its two writes a handler shows a status that the set has yet to follow.
RecordHolds(a) ==
    RecordTrue(a) \/ \E s \in Slots : handler[a][s].stage \in {"registered", "composed"}

RecordSound(a) == RecordHolds(a) /\ \A s \in Slots : RequestSound(a, s)

SoundInv ==
    /\ TypeInv
    /\ timeouts = 0 => \A a \in Agents : Heard(a)
    /\ timeouts = 0 /\ restarts = 0 => \A a \in Agents : RecordSound(a)

LEMMA IdleStage == Idle.stage = "idle"
BY DEF Idle

\* What holds of an agent does so after a step that leaves it alone.
LEMMA SoundUntouched ==
    ASSUME NEW a \in Agents,
           UNCHANGED <<handler[a], record[a], running[a], report[a], waiting[a]>>
    PROVE  (Heard(a) => Heard(a)') /\ (RecordSound(a) => RecordSound(a)')
BY DEF Heard, OneRequest, ReportTrue, RequestHeard, RecordSound, RecordHolds, RecordTrue,
       RequestSound

\* An agent with a request has no other.
LEMMA OtherSlotsIdle ==
    ASSUME NEW a \in Agents, NEW s \in Slots, Heard(a), handler[a][s] # Idle
    PROVE  waiting[a] = s /\ \A t \in Slots \ {s} : handler[a][t] = Idle
BY DEF Heard, OneRequest

\* So what holds of it is what holds of that request.
LEMMA HeardOfOne ==
    ASSUME NEW a \in Agents, NEW s \in Slots,
           \A t \in Slots \ {s} : handler'[a][t] = Idle,
           handler'[a][s] # Idle => waiting'[a] = s,
           ReportTrue(a)', RequestHeard(a, s)'
    PROVE  Heard(a)'
<1>1. OneRequest(a)'
  BY DEF OneRequest
<1>2. ASSUME NEW t \in Slots \ {s} PROVE RequestHeard(a, t)'
  BY <1>2, IdleStage DEF RequestHeard
<1> QED
  BY <1>1, <1>2 DEF Heard

LEMMA SoundOfOne ==
    ASSUME NEW a \in Agents, NEW s \in Slots,
           \A t \in Slots \ {s} : handler'[a][t] = Idle,
           RecordTrue(a)' \/ handler'[a][s].stage \in {"registered", "composed"},
           RequestSound(a, s)'
    PROVE  RecordSound(a)'
<1>1. RecordHolds(a)'
  BY DEF RecordHolds
<1>2. ASSUME NEW t \in Slots \ {s} PROVE RequestSound(a, t)'
  BY <1>2, IdleStage DEF RequestSound
<1> QED
  BY <1>1, <1>2 DEF RecordSound

\* Unless its request is between the handler's two writes, the record is true.
LEMMA RecordTrueOutside ==
    ASSUME NEW a \in Agents, NEW s \in Slots, RecordSound(a),
           \A t \in Slots \ {s} : handler[a][t] = Idle,
           handler[a][s].stage \notin {"registered", "composed"}
    PROVE  RecordTrue(a)
BY IdleStage DEF RecordSound, RecordHolds

LEMMA SoundPoll ==
    ASSUME TypeInv, NEW a \in Agents, NEW s \in Slots, Heard(a), Poll(a, s)
    PROVE  Heard(a)' /\ (RecordSound(a) => RecordSound(a)')
<1>1. \A t \in Slots : handler[a][t] = Idle
  BY SlotAssumption DEF Heard, OneRequest, Poll
<1>2. /\ handler'[a][s] = [stage |-> "sent", report |-> report[a]]
      /\ \A t \in Slots \ {s} : handler'[a][t] = Idle
      /\ waiting'[a] = s
      /\ UNCHANGED <<record, running, report>>
  BY <1>1 DEF Poll, TypeInv, TypeOK
<1>3. Heard(a)'
  <2>1. ReportTrue(a)' /\ RequestHeard(a, s)'
    BY <1>2 DEF Heard, ReportTrue, RequestHeard
  <2> QED
    BY <1>2, <2>1, HeardOfOne
<1>4. ASSUME RecordSound(a) PROVE RecordSound(a)'
  <2>1. RecordTrue(a)
    BY <1>1, <1>4, RecordTrueOutside, IdleStage
  <2>2. RecordTrue(a)' /\ RequestSound(a, s)'
    BY <1>2, <2>1 DEF RecordTrue, RequestSound
  <2> QED
    BY <1>2, <2>2, SoundOfOne
<1> QED
  BY <1>3, <1>4

LEMMA SoundReceive ==
    ASSUME TypeInv, NEW a \in Agents, NEW s \in Slots, Heard(a), Receive(a, s)
    PROVE  Heard(a)' /\ (RecordSound(a) => RecordSound(a)')
<1> DEFINE reported == handler[a][s].report
           copy     == IF reported = Silent THEN Known(a)
                       ELSE [Known(a) EXCEPT !.status = reported.status]
<1>1. handler[a][s].stage = "sent" /\ handler[a][s] # Idle
  BY IdleStage DEF Receive
<1>2. waiting[a] = s /\ \A t \in Slots \ {s} : handler[a][t] = Idle
  BY <1>1, OtherSlotsIdle
<1>3. reported = report[a]
  BY <1>1 DEF Heard, RequestHeard
<1>4. report[a] # Silent => copy.status = report[a].status
  BY <1>3, KnownType DEF TypeInv, Record
<1>5. report[a] = Silent => copy = Known(a)
  BY <1>3
<1>6. /\ handler' = [handler EXCEPT ![a][s] =
                       [stage |-> "read", report |-> reported, copy |-> copy]]
      /\ UNCHANGED <<record, running, report, waiting>>
  BY DEF Receive, agent
<1> HIDE DEF copy, reported
<1>7. /\ handler'[a][s] = [stage |-> "read", report |-> reported, copy |-> copy]
      /\ \A t \in Slots \ {s} : handler'[a][t] = Idle
      /\ waiting'[a] = s
  BY <1>2, <1>6 DEF TypeInv, TypeOK
<1>8. Heard(a)'
  <2>1. ReportTrue(a)' /\ RequestHeard(a, s)'
    BY <1>3, <1>4, <1>6, <1>7 DEF Heard, ReportTrue, RequestHeard
  <2> QED
    BY <1>7, <2>1, HeardOfOne
<1>9. ASSUME RecordSound(a) PROVE RecordSound(a)'
  <2>1. RecordTrue(a)
    BY <1>1, <1>2, <1>9, RecordTrueOutside
  <2>2. Known(a).status = "APPLIED" => running[a] = Known(a).applied
    BY <2>1 DEF Known, RecordTrue
  <2>3. RecordTrue(a)' /\ RequestSound(a, s)'
    BY <1>5, <1>6, <1>7, <2>1, <2>2 DEF RecordTrue, RequestSound
  <2> QED
    BY <1>7, <2>3, SoundOfOne
<1> QED
  BY <1>8, <1>9

LEMMA SoundRegister ==
    ASSUME TypeInv, NEW a \in Agents, NEW s \in Slots, Heard(a), Register(a, s)
    PROVE  Heard(a)' /\ (RecordSound(a) => RecordSound(a)')
<1> DEFINE next == [handler[a][s] EXCEPT !.stage = "registered"]
<1>1. handler[a][s].stage = "read" /\ handler[a][s] # Idle
  BY IdleStage DEF Register
<1>2. waiting[a] = s /\ \A t \in Slots \ {s} : handler[a][t] = Idle
  BY <1>1, OtherSlotsIdle
<1>3. handler[a][s] \in [stage : {"read", "registered"}, report : {Silent} \cup Report,
                         copy : Record]
  BY <1>1, HandlerType DEF TypeInv, Requests, Idle
<1>4. /\ next.stage = "registered"
      /\ next.report = handler[a][s].report
      /\ next.copy = handler[a][s].copy
  BY <1>3
<1>5. handler' = [handler EXCEPT ![a][s] = next] /\ UNCHANGED <<running, report, waiting>>
  BY DEF Register, agent
<1> HIDE DEF next
<1>6. /\ handler'[a][s] = next
      /\ \A t \in Slots \ {s} : handler'[a][t] = Idle
      /\ waiting'[a] = s
  BY <1>2, <1>5 DEF TypeInv, TypeOK
<1>7. Heard(a)'
  <2>1. ReportTrue(a)'
    BY <1>5 DEF Heard, ReportTrue
  <2>2. RequestHeard(a, s)'
    BY <1>1, <1>4, <1>5, <1>6 DEF Heard, RequestHeard
  <2> QED
    BY <1>6, <2>1, <2>2, HeardOfOne
<1>8. ASSUME RecordSound(a) PROVE RecordSound(a)'
  <2>1. RequestSound(a, s)'
    BY <1>1, <1>4, <1>5, <1>6, <1>8 DEF RecordSound, RequestSound
  <2> QED
    BY <1>4, <1>6, <2>1, SoundOfOne
<1> QED
  BY <1>7, <1>8

LEMMA SoundCompose ==
    ASSUME TypeInv, NEW a \in Agents, NEW s \in Slots, Heard(a), Compose(a, s)
    PROVE  Heard(a)' /\ (RecordSound(a) => RecordSound(a)')
<1> DEFINE request == handler[a][s]
           next == [stage |-> "composed", report |-> request.report,
                    copy |-> request.copy, bundle |-> Bundle(a)]
<1>1. request.stage = "registered" /\ request # Idle
  BY IdleStage DEF Compose
<1>2. waiting[a] = s /\ \A t \in Slots \ {s} : handler[a][t] = Idle
  BY <1>1, OtherSlotsIdle
<1>3. next.stage = "composed" /\ next.report = request.report /\ next.copy = request.copy
  OBVIOUS
<1>4. handler' = [handler EXCEPT ![a][s] = next] /\ UNCHANGED <<running, report, waiting>>
  BY DEF Compose, agent
<1> HIDE DEF next
<1>5. /\ handler'[a][s] = next
      /\ \A t \in Slots \ {s} : handler'[a][t] = Idle
      /\ waiting'[a] = s
  BY <1>2, <1>4 DEF TypeInv, TypeOK
<1>6. Heard(a)'
  <2>1. ReportTrue(a)'
    BY <1>4 DEF Heard, ReportTrue
  <2>2. RequestHeard(a, s)'
    BY <1>1, <1>3, <1>4, <1>5 DEF Heard, RequestHeard
  <2> QED
    BY <1>5, <2>1, <2>2, HeardOfOne
<1>7. ASSUME RecordSound(a) PROVE RecordSound(a)'
  <2>1. RequestSound(a, s)'
    BY <1>1, <1>3, <1>4, <1>5, <1>7 DEF RecordSound, RequestSound
  <2> QED
    BY <1>3, <1>5, <2>1, SoundOfOne
<1> QED
  BY <1>6, <1>7

\* A conclusion of success that answers a report is about the set the agent runs.
LEMMA ReportedOutcome ==
    ASSUME TypeInv, NEW a \in Agents, NEW s \in Slots, Heard(a),
           handler[a][s].stage = "composed",
           HasLatest(handler[a][s].copy, handler[a][s].report, handler[a][s].bundle),
           handler[a][s].copy.status = "APPLIED",
           report[a] # Silent
    PROVE  running[a] = handler[a][s].bundle
BY DEF Heard, ReportTrue, RequestHeard, HasLatest

LEMMA OutcomeApplied ==
    ASSUME NEW a, NEW copy \in Record, NEW reported, NEW bundle,
           Outcome(a, copy, reported, bundle).status = "APPLIED"
    PROVE  /\ HasLatest(copy, reported, bundle)
           /\ copy.status = "APPLIED"
           /\ Outcome(a, copy, reported, bundle).applied = bundle
           /\ Offer(a, copy, reported, bundle) = NoSet
BY DEF Outcome, Offer, Record

LEMMA SoundConclude ==
    ASSUME TypeInv, NEW a \in Agents, NEW s \in Slots, Heard(a), Conclude(a, s)
    PROVE  Heard(a)' /\ (RecordSound(a) => RecordSound(a)')
<1> DEFINE request == handler[a][s]
           outcome == Outcome(a, request.copy, request.report, request.bundle)
           offer   == Offer(a, request.copy, request.report, request.bundle)
<1>1. request.stage = "composed" /\ request # Idle
  BY IdleStage DEF Conclude
<1>2. waiting[a] = s /\ \A t \in Slots \ {s} : handler[a][t] = Idle
  BY <1>1, OtherSlotsIdle
<1>3. /\ handler'[a][s] = [stage |-> "answer", offer |-> offer]
      /\ \A t \in Slots \ {s} : handler'[a][t] = Idle
      /\ waiting'[a] = s /\ report'[a] = report[a] /\ running'[a] = running[a]
      /\ record'[a] = outcome
  BY <1>2 DEF Conclude, agent, TypeInv, TypeOK
<1>4. request.copy \in Record
  BY <1>1, HandlerType, StageKinds DEF TypeInv
<1>5. outcome.status = "APPLIED" =>
          /\ HasLatest(request.copy, request.report, request.bundle)
          /\ request.copy.status = "APPLIED"
          /\ outcome.applied = request.bundle
          /\ offer = NoSet
  BY <1>4, OutcomeApplied
<1> HIDE DEF outcome, offer
<1>6. Heard(a)'
  <2>1. ReportTrue(a)' /\ RequestHeard(a, s)'
    BY <1>3 DEF Heard, ReportTrue, RequestHeard
  <2> QED
    BY <1>3, <2>1, HeardOfOne
<1>7. ASSUME RecordSound(a) PROVE RecordSound(a)'
  <2>1. ASSUME outcome.status = "APPLIED"
        PROVE  running[a] = outcome.applied
    <3>1. CASE report[a] = Silent
      <4>1. request.report = Silent /\ running[a] = request.copy.applied
        BY <1>1, <1>5, <1>7, <2>1, <3>1 DEF RecordSound, RequestSound, Heard, RequestHeard
      <4> QED
        BY <1>5, <2>1, <4>1 DEF HasLatest
    <3>2. CASE report[a] # Silent
      BY <1>1, <1>5, <2>1, <3>2, ReportedOutcome
    <3> QED
      BY <3>1, <3>2
  <2>2. RecordTrue(a)' /\ RequestSound(a, s)'
    BY <1>3, <1>5, <2>1 DEF RecordTrue, RequestSound
  <2> QED
    BY <1>3, <2>2, SoundOfOne
<1> QED
  BY <1>6, <1>7

\* A request that ends leaves no other.
LEMMA SoundEnd ==
    ASSUME TypeInv, NEW a \in Agents, NEW s \in Slots, Heard(a),
           Lose(a, s) \/ Discard(a, s) \/ Deliver(a, s)
    PROVE  Heard(a)' /\ (RecordSound(a) => RecordSound(a)')
<1> DEFINE request == handler[a][s]
<1>1. request.stage \in {"sent", "answer"} /\ request # Idle
  BY IdleStage DEF Lose, Discard, Deliver
<1>2. waiting[a] = s /\ \A t \in Slots \ {s} : handler[a][t] = Idle
  BY <1>1, OtherSlotsIdle
<1>3. handler' = [handler EXCEPT ![a][s] = Idle] /\ record'[a] = record[a]
  <2>1. CASE Lose(a, s)
    BY <2>1 DEF Lose
  <2>2. CASE Discard(a, s)
    BY <2>2 DEF Discard
  <2>3. CASE Deliver(a, s)
    BY <2>3 DEF Deliver
  <2> QED
    BY <2>1, <2>2, <2>3
<1>4. \A t \in Slots : handler'[a][t] = Idle
  BY <1>2, <1>3 DEF TypeInv, TypeOK
<1>5. RequestHeard(a, s)' /\ RequestSound(a, s)'
  BY <1>4, IdleStage DEF RequestHeard, RequestSound
<1>6. \/ UNCHANGED <<running[a], report[a]>>
      \/ /\ request.stage = "answer"
         /\ \/ /\ request.offer = NoSet
               /\ report'[a] = Silent /\ running'[a] = running[a]
            \/ /\ request.offer # NoSet
               /\ report'[a] = [status |-> "APPLIED", set |-> request.offer]
               /\ running'[a] = request.offer
            \/ /\ report'[a] = [status |-> "FAILED", set |-> request.offer]
               /\ running'[a] = running[a]
  BY DEF Lose, Discard, Deliver, agent, TypeInv, TypeOK
<1>7. ReportTrue(a)'
  BY <1>6 DEF Heard, ReportTrue
<1>8. ASSUME RecordSound(a) PROVE RecordSound(a)'
  <2>1. RecordTrue(a)
    BY <1>1, <1>2, <1>8, RecordTrueOutside
  <2>2. RecordTrue(a)'
    BY <1>3, <1>6, <1>8, <2>1 DEF RecordTrue, RecordSound, RequestSound
  <2> QED
    BY <1>4, <1>5, <2>2, SoundOfOne
<1> QED
  BY <1>4, <1>5, <1>7, <1>8, HeardOfOne

\* A push makes a status pending at most, which promises nothing of the set.
LEMMA SoundPushTo ==
    ASSUME TypeInv, NEW a \in Agents, NEW b \in Agents, PushTo(b)
    PROVE  (Heard(a) => Heard(a)') /\ (RecordSound(a) => RecordSound(a)')
<1>1. UNCHANGED <<handler, running, report, waiting>>
  BY DEF PushTo, agent
<1>2. CASE record'[a] = record[a]
  BY <1>1, <1>2, SoundUntouched
<1>3. CASE record'[a] # record[a]
  <2>1. a = b /\ record' = [record EXCEPT ![b].status = "CONFIG_PENDING"]
    BY <1>3 DEF PushTo, TypeInv, TypeOK
  <2>2. record[a] \in Record
    BY <2>1 DEF PushTo, TypeInv, TypeOK, Listed
  <2>3. record'[a].status = "CONFIG_PENDING"
    BY <2>1, <2>2 DEF Record, TypeInv, TypeOK
  <2> QED
    BY <1>1, <2>3 DEF Heard, OneRequest, ReportTrue, RequestHeard, RecordSound, RecordHolds,
                      RecordTrue, RequestSound
<1> QED
  BY <1>2, <1>3

LEMMA SoundInit == Init => SoundInv
<1> SUFFICES ASSUME Init PROVE SoundInv
  OBVIOUS
<1>1. \A a \in Agents : Heard(a) /\ RecordSound(a)
  BY IdleStage DEF Init, Heard, OneRequest, ReportTrue, RequestHeard, RecordSound,
                   RecordHolds, RecordTrue, RequestSound
<1> QED
  BY <1>1, TypeInit DEF SoundInv

LEMMA SoundNext == SoundInv /\ [Next]_vars => SoundInv'
<1> SUFFICES ASSUME SoundInv, [Next]_vars
             PROVE  SoundInv'
  OBVIOUS
<1>1. TypeInv /\ TypeInv'
  BY TypeNext DEF SoundInv
<1> SUFFICES ASSUME timeouts' = 0, NEW a \in Agents
             PROVE  Heard(a)' /\ (restarts' = 0 => RecordSound(a)')
  BY <1>1 DEF SoundInv
<1>2. restarts \in Nat /\ timeouts \in Nat
  BY <1>1 DEF TypeInv, TypeOK
<1>3. timeouts = 0 => Heard(a) /\ (restarts = 0 => RecordSound(a))
  BY DEF SoundInv
<1>4. CASE Operate \/ ListAgents \/ FinishPush \/ (\E b \in Agents : Persist(b))
           \/ UNCHANGED vars
  <2>1. UNCHANGED <<handler, record, running, report, waiting, restarts, timeouts>>
    BY <1>4 DEF Operate, Publish, DeactivatePolicy, ListAgents, FinishPush, Persist, vars,
                server, agent
  <2> QED
    BY <1>3, <2>1, SoundUntouched
<1>5. ASSUME NEW b \in Agents, PushTo(b)
      PROVE  Heard(a)' /\ (restarts' = 0 => RecordSound(a)')
  BY <1>1, <1>3, <1>5, SoundPushTo DEF PushTo
<1>6. ASSUME NEW b \in Agents, NEW s \in Slots,
             \/ Poll(b, s) \/ Receive(b, s) \/ Register(b, s) \/ Compose(b, s)
             \/ Conclude(b, s) \/ Lose(b, s) \/ Discard(b, s) \/ Deliver(b, s)
      PROVE  Heard(a)' /\ (restarts' = 0 => RecordSound(a)')
  <2>1. Heard(a) /\ (restarts' = 0 => RecordSound(a))
    BY <1>3, <1>6 DEF Poll, Receive, Register, Compose, Conclude, Lose, Discard, Deliver
  <2>2. CASE a = b
    BY <1>1, <1>6, <2>1, <2>2, SoundPoll, SoundReceive, SoundRegister, SoundCompose,
       SoundConclude, SoundEnd
  <2>3. CASE a # b
    <3>1. handler'[a] = handler[a]
      BY <1>1, <1>6, <2>3 DEF TypeInv, TypeOK, Poll, Receive, Register, Compose, Conclude,
                              Lose, Discard, Deliver
    <3>2. UNCHANGED <<record[a], running[a], report[a], waiting[a]>>
      BY <1>1, <1>6, <2>3 DEF TypeInv, TypeOK, Poll, Receive, Register, Compose, Conclude,
                              Lose, Discard, Deliver, agent
    <3> QED
      BY <2>1, <3>1, <3>2, SoundUntouched
  <2> QED
    BY <2>2, <2>3
<1>7. ASSUME NEW b \in Agents, Timeout(b)
      PROVE  FALSE
  BY <1>2, <1>7 DEF Timeout
<1>8. CASE Restart
  <2>1. UNCHANGED <<running, report, timeouts>> /\ restarts' # 0
    BY <1>2, <1>8 DEF Restart
  <2>2. \A s \in Slots : handler'[a][s] = Idle
    BY <1>8 DEF Restart
  <2>3. ReportTrue(a)'
    BY <1>3, <2>1 DEF Heard, ReportTrue
  <2> QED
    BY <2>1, <2>2, <2>3, IdleStage DEF Heard, OneRequest, RequestHeard
<1> QED
  BY <1>4, <1>5, <1>6, <1>7, <1>8 DEF Next, PushStep, OnMessage

LEMMA SoundIsQuiet == SoundInv => QuietTruth
BY IdleStage DEF SoundInv, QuietTruth, Quiet, RecordSound, RecordHolds, RecordTrue

\* While no process restarts and no agent gives up on a request, an agent with
\* nothing under way whose status is APPLIED runs the set its record names:
\* neither of the two writes of onMessage, and no push between them, leaves a
\* success behind that is not one.
THEOREM QuietRecordsTrue == Spec => []QuietTruth
<1>1. SoundInv /\ [Next]_vars => SoundInv'
  BY SoundNext
<1> QED
  BY <1>1, SoundInit, SoundIsQuiet, PTL DEF Spec

=============================================================================
