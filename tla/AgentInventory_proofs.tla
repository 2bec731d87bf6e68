------------------------ MODULE AgentInventory_proofs -------------------------
(***************************************************************************)
(* Theorems about AgentInventory, for any agents, requests, limits and     *)
(* bounds.                                                                 *)
(***************************************************************************)
EXTENDS AgentInventory, SequenceTheorems, TLAPS

\* What a request knows while it is under way.
LEMMA RequestUnderWay ==
    ASSUME TypeOK, NEW r \in Requests, request[r].step \in {"read", "registered"}
    PROVE  request[r] \in Busy
  BY DEF TypeOK, Idle

\* Recording a message keeps the inventory's types.
LEMMA WriteType ==
    ASSUME TypeOK, NEW u \in Uids, NEW seen \in Nat, Write(u, seen)
    PROVE  known' \subseteq Uids /\ lastSeen' \in [Uids -> Nat]
  BY DEF TypeOK, Write

\* The queue never holds more than its capacity.
LEMMA EnqueueType ==
    ASSUME TypeOK, NEW update \in Update, Enqueue(update)
    PROVE  queue' \in Seq(Update) /\ Len(queue') <= QueueSize
  <1>1. CASE QueueHasRoom
    BY <1>1, LimitAssumption DEF TypeOK, Enqueue, QueueHasRoom
  <1>2. CASE ~ QueueHasRoom
    BY <1>2 DEF TypeOK, Enqueue, QueueHasRoom
  <1> QED BY <1>1, <1>2

\* A request that ends leaves its slot idle.
LEMMA ReplyType ==
    ASSUME TypeOK, NEW r \in Requests, Reply(r)
    PROVE  request' \in [Requests -> {Idle} \cup Busy]
  BY DEF TypeOK, Reply

\* A request that has been admitted goes on with what it knows.
LEMMA RegisteredType ==
    ASSUME TypeOK, NEW r \in Requests, request[r] \in Busy,
           request' = [request EXCEPT ![r].step = "registered"]
    PROVE  request' \in [Requests -> {Idle} \cup Busy]
  BY DEF TypeOK, Busy

LEMMA InitType == Init => TypeOK
  BY LimitAssumption DEF Init, TypeOK

LEMMA NextType == TypeOK /\ [Next]_vars => TypeOK'
  <1> SUFFICES ASSUME TypeOK, [Next]_vars PROVE TypeOK'
    OBVIOUS
  <1>1. CASE Tick
    BY <1>1 DEF Tick, TypeOK, memory, bounds
  <1>2. ASSUME NEW r \in Requests, NEW u \in Uids, Receive(r, u) PROVE TypeOK'
    <2>1. request' \in [Requests -> {Idle} \cup Busy]
      BY <1>2 DEF Receive, TypeOK, Busy
    <2>2. excused' \subseteq Uids
      BY <1>2 DEF Receive, TypeOK
    <2> QED BY <1>2, <2>1, <2>2 DEF Receive, TypeOK, memory, bounds
  <1>3. ASSUME NEW r \in Requests, NEW u \in Uids, Evict(r, u) PROVE TypeOK'
    <2>1. request[r] \in Busy
      BY <1>3, RequestUnderWay DEF Evict, NeedsEviction
    <2>2. request[r].uid \in Uids /\ request[r].seen \in Nat
      BY <2>1 DEF Busy
    <2>3. known' \subseteq Uids /\ lastSeen' \in [Uids -> Nat]
      BY <1>3, <2>2 DEF Evict, TypeOK
    <2>4. [kind |-> "delete", uid |-> u, seen |-> lastSeen[u]] \in Update
      BY DEF TypeOK, Update
    <2>5. queue' \in Seq(Update) /\ Len(queue') <= QueueSize
      BY <1>3, <2>4, EnqueueType DEF Evict, EvictionQueued
    <2>6. request' \in [Requests -> {Idle} \cup Busy]
      BY <1>3, <2>1, RegisteredType DEF Evict
    <2> QED BY <1>3, <2>3, <2>5, <2>6 DEF Evict, TypeOK, bounds
  <1>4. ASSUME NEW r \in Requests, Admit(r) PROVE TypeOK'
    <2>1. request[r] \in Busy
      BY <1>4, RequestUnderWay DEF Admit
    <2>2. request[r].uid \in Uids /\ request[r].seen \in Nat
      BY <2>1 DEF Busy
    <2>3. known' \subseteq Uids /\ lastSeen' \in [Uids -> Nat]
      BY <1>4, <2>2, WriteType DEF Admit
    <2>4. request' \in [Requests -> {Idle} \cup Busy]
      BY <1>4, <2>1, RegisteredType DEF Admit
    <2> QED BY <1>4, <2>3, <2>4 DEF Admit, TypeOK, bounds
  <1>5. ASSUME NEW r \in Requests, TurnAway(r) PROVE TypeOK'
    BY <1>5, ReplyType DEF TurnAway, TypeOK, memory, bounds
  <1>6. ASSUME NEW r \in Requests, Settle(r) PROVE TypeOK'
    <2>1. request[r] \in Busy
      BY <1>6, RequestUnderWay DEF Settle
    <2>2. request[r].uid \in Uids /\ request[r].seen \in Nat
      BY <2>1 DEF Busy
    <2>3. known' \subseteq Uids /\ lastSeen' \in [Uids -> Nat]
      BY <1>6, <2>2, WriteType DEF Settle, TypeOK
    <2>4. [kind |-> "update", uid |-> request[r].uid, seen |-> request[r].seen] \in Update
      BY <2>2 DEF Update
    <2>5. queue' \in Seq(Update) /\ Len(queue') <= QueueSize
      BY <1>6, <2>4, EnqueueType DEF Settle
    <2>6. excused' \subseteq Uids
      BY <1>6, <2>2 DEF Settle, TypeOK
    <2>7. request' \in [Requests -> {Idle} \cup Busy]
      BY <1>6, ReplyType DEF Settle
    <2> QED BY <1>6, <2>3, <2>5, <2>6, <2>7 DEF Settle, TypeOK, bounds
  <1>7. CASE ListAgents
    BY <1>7 DEF ListAgents, TypeOK, memory
  <1>8. ASSUME NEW u \in Uids, PushTo(u) PROVE TypeOK'
    <2> DEFINE update == IF u \in known /\ lastSeen[u] > 0
                         THEN [kind |-> "update", uid |-> u, seen |-> lastSeen[u]]
                         ELSE [kind |-> "nobody"]
    <2>1. update \in Update
      BY DEF TypeOK, Update
    <2>2. Enqueue(update)
      BY <1>8 DEF PushTo
    <2> HIDE DEF update
    <2>3. queue' \in Seq(Update) /\ Len(queue') <= QueueSize
      BY <2>1, <2>2, EnqueueType
    <2> QED BY <1>8, <2>3 DEF PushTo, TypeOK, bounds
  <1>9. CASE Work
    <2>1. Head(queue) \in Update
      BY <1>9 DEF Work, TypeOK
    <2>2. queue' \in Seq(Update) /\ Len(queue') <= QueueSize
      BY <1>9, LimitAssumption DEF Work, TypeOK
    <2>3. Head(queue).kind \in {"update", "delete"} =>
              Head(queue).uid \in Uids /\ Head(queue).seen \in Nat
      BY <2>1 DEF Update
    <2>4. Head(queue).kind # "nobody" => Head(queue).kind \in {"update", "delete"}
      BY <2>1 DEF Update
    <2>5. rows' \in [Uids -> Nat]
      BY <1>9, <2>3 DEF Work, TypeOK, Upserted, Deleted
    <2>6. excused' \subseteq Uids
      BY <1>9, <2>3, <2>4 DEF Work, TypeOK
    <2> QED BY <1>9, <2>2, <2>5, <2>6 DEF Work, TypeOK, memory, bounds
  <1>10. CASE Restart
    <2>1. rows' \in [Uids -> Nat]
      BY <1>10 DEF Restart, TypeOK
    <2>2. known' \subseteq Uids /\ lastSeen' \in [Uids -> Nat]
      BY <1>10, <2>1 DEF Restart
    <2>3. queue' \in Seq(Update) /\ Len(queue') <= QueueSize
      BY <1>10, LimitAssumption DEF Restart
    <2>4. request' \in [Requests -> {Idle} \cup Busy]
      BY <1>10 DEF Restart
    <2> QED BY <1>10, <2>1, <2>2, <2>3, <2>4 DEF Restart, TypeOK
  <1>11. CASE UNCHANGED vars
    BY <1>11 DEF vars, memory, bounds, TypeOK
  <1> QED BY <1>1, <1>2, <1>3, <1>4, <1>5, <1>6, <1>7, <1>8, <1>9, <1>10, <1>11
          DEF Next, OnMessage

\* Every reachable state of the inventory, its queue and its table is of its type:
\* the bounded queue of agentUpdates never overflows.
THEOREM InventoryTypeCorrect == Spec => []TypeOK
  BY InitType, NextType, PTL DEF Spec

-----------------------------------------------------------------------------

LEMMA StepKeepsRows ==
    ASSUME TypeOK, [Next]_vars, NEW u \in Uids
    PROVE  rows'[u] = 0 \/ rows'[u] >= rows[u]
  <1> DEFINE Kept == rows' = rows
  <1>1. rows[u] \in Nat
    BY DEF TypeOK
  <1>2. CASE Kept
    BY <1>1, <1>2
  <1>3. CASE Work
    <2>1. Head(queue) \in Update
      BY <1>3 DEF Work, TypeOK
    <2>2. Head(queue).kind \in {"update", "delete"} =>
              Head(queue).uid \in Uids /\ Head(queue).seen \in Nat
      BY <2>1 DEF Update
    <2>3. CASE Kept
      BY <1>2, <2>3
    <2>4. CASE /\ Head(queue).kind = "delete"
               /\ rows' = Deleted(Head(queue).uid, Head(queue).seen)
      BY <1>1, <2>2, <2>4 DEF Deleted, TypeOK
    <2>5. CASE /\ Head(queue).kind = "update"
               /\ rows' = Upserted(Head(queue).uid, Head(queue).seen)
      BY <1>1, <2>2, <2>5 DEF Upserted, TypeOK
    <2> QED BY <1>3, <2>3, <2>4, <2>5 DEF Work
  <1>4. CASE Restart
    BY <1>1, <1>4 DEF Restart, TypeOK
  <1> QED BY <1>2, <1>3, <1>4 DEF Next, OnMessage, Tick, Receive, Evict, Admit, TurnAway,
             Settle, ListAgents, PushTo, vars

\* However requests, pushes and the worker interleave, and whatever the queue
\* drops, a row of opamp_agents is replaced only by one seen later, or deleted.
THEOREM RowsMoveForward == Spec => RowsNeverRegress
  <1>1. TypeOK /\ [Next]_vars => [\A u \in Uids : rows'[u] = 0 \/ rows'[u] >= rows[u]]_vars
    BY StepKeepsRows
  <1> QED BY <1>1, InventoryTypeCorrect, PTL DEF Spec, RowsNeverRegress

-----------------------------------------------------------------------------
(* When the work is done the rows are the memory.                            *)

Active(r, u) == request[r] # Idle /\ request[r].uid = u

Registered(u) == \E r \in Requests : Active(r, u) /\ request[r].step = "registered"

Deletes(e, u) == e.kind = "delete" /\ e.uid = u
Updates(e, u) == e.kind = "update" /\ e.uid = u

\* Nothing was seen after now.
Timely ==
    /\ \A u \in Uids : lastSeen[u] <= clock /\ rows[u] <= clock
    /\ \A i \in DOMAIN queue : queue[i].kind # "nobody" => queue[i].seen <= clock
    /\ \A r \in Requests : request[r] # Idle => request[r].seen > 0 /\ request[r].seen <= clock

\* Of this agent, the database and the queue have nothing newer.
NoneAfter(u, seen) ==
    /\ rows[u] <= seen
    /\ \A i \in DOMAIN queue : Deletes(queue[i], u) \/ Updates(queue[i], u) => queue[i].seen <= seen

\* The row of an agent that memory has forgotten is gone, or its deletion is queued.
GoesAway(u) ==
    \/ rows[u] = 0
    \/ \E i \in DOMAIN queue : Deletes(queue[i], u) /\ rows[u] <= queue[i].seen

\* The row is as memory has it, or the update is queued; no deletion spoils it after that.
Arrives(u) ==
    \/ /\ rows[u] = lastSeen[u]
       /\ \A j \in DOMAIN queue : Deletes(queue[j], u) => queue[j].seen < lastSeen[u]
    \/ \E i \in DOMAIN queue :
          /\ Updates(queue[i], u)
          /\ queue[i].seen = lastSeen[u]
          /\ \A j \in DOMAIN queue :
                j > i /\ Deletes(queue[j], u) => queue[j].seen < lastSeen[u]

\* The only request of an agent knows the newest of it; once it is registered memory has
\* that, unless the agent was displaced since.
RequestAhead(u) ==
    /\ \A r, q \in Requests : Active(r, u) /\ Active(q, u) => r = q
    /\ \A r \in Requests : Active(r, u) =>
          /\ NoneAfter(u, request[r].seen)
          /\ request[r].step = "read" => lastSeen[u] <= request[r].seen
          /\ request[r].step = "registered" => lastSeen[u] \in {0, request[r].seen}

Settles(u) ==
    /\ u \in known <=> lastSeen[u] > 0
    /\ RequestAhead(u)
    /\ lastSeen[u] > 0 => NoneAfter(u, lastSeen[u])
    /\ lastSeen[u] = 0 => GoesAway(u)
    /\ lastSeen[u] > 0 /\ ~ Registered(u) => Arrives(u)

SettleInv == TypeOK /\ Timely /\ \A u \in Uids \ excused : Settles(u)

LEMMA BusyRequest ==
    ASSUME TypeOK, NEW r \in Requests
    PROVE  /\ request[r].step \in {"read", "registered"} <=> request[r] # Idle
           /\ request[r] # Idle => /\ request[r] \in Busy
                                   /\ request[r].uid \in Uids /\ request[r].seen \in Nat
BY DEF TypeOK, Idle, Busy

LEMMA SeenType ==
    ASSUME TypeOK, NEW i \in DOMAIN queue
    PROVE  /\ queue[i] \in Update
           /\ queue[i].kind # "nobody" => queue[i].uid \in Uids /\ queue[i].seen \in Nat
BY DEF TypeOK, Update

\* The queue after a step has what it had and one update more, if that.
QueueGrowsBy(e) ==
    /\ \A i \in DOMAIN queue' : \/ i \in DOMAIN queue /\ queue'[i] = queue[i]
                                \/ i = Len(queue) + 1 /\ queue'[i] = e
    /\ \A i \in DOMAIN queue : i \in DOMAIN queue' /\ queue'[i] = queue[i]

LEMMA QueueSame ==
    ASSUME UNCHANGED queue, NEW e
    PROVE  QueueGrowsBy(e)
BY DEF QueueGrowsBy

LEMMA QueueGrows ==
    ASSUME TypeOK, NEW e \in Update, Enqueue(e)
    PROVE  /\ QueueGrowsBy(e)
           /\ QueueHasRoom => Len(queue) + 1 \in DOMAIN queue' /\ queue'[Len(queue) + 1] = e
           /\ \A i \in DOMAIN queue : i <= Len(queue)
<1>1. CASE QueueHasRoom
  <2>1. queue \in Seq(Update) /\ queue' = Append(queue, e)
    BY <1>1 DEF TypeOK, Enqueue
  <2> QED
    BY <2>1 DEF QueueGrowsBy
<1>2. CASE ~ QueueHasRoom
  <2>1. queue \in Seq(Update) /\ queue' = queue
    BY <1>2 DEF TypeOK, Enqueue
  <2> QED
    BY <1>2, <2>1 DEF QueueGrowsBy
<1> QED
  BY <1>1, <1>2

LEMMA QueueShrinks ==
    ASSUME TypeOK, queue # <<>>, queue' = Tail(queue)
    PROVE  /\ 1 \in DOMAIN queue /\ Head(queue) = queue[1]
           /\ \A i \in DOMAIN queue' : i \in Nat /\ i + 1 \in DOMAIN queue /\ queue'[i] = queue[i + 1]
           /\ \A i \in DOMAIN queue : /\ i \in Nat /\ i >= 1
                                      /\ i # 1 => i - 1 \in DOMAIN queue' /\ queue'[i - 1] = queue[i]
<1>1. queue \in Seq(Update)
  BY DEF TypeOK
<1> QED
  BY <1>1

\* What the worker makes of a row.
LEMMA WorkOnRow ==
    ASSUME TypeOK, Work, NEW u \in Uids
    PROVE  LET head == Head(queue)
           IN  /\ \/ rows'[u] = rows[u]
                  \/ Deletes(head, u) /\ rows[u] <= head.seen /\ rows'[u] = 0
                  \/ Updates(head, u) /\ ~ Outdated(head) /\ rows'[u] = head.seen
               /\ u \notin excused' =>
                     /\ Deletes(head, u) /\ rows[u] <= head.seen => rows'[u] = 0
                     /\ Updates(head, u) /\ ~ Outdated(head) /\ rows[u] <= head.seen
                           => rows'[u] = head.seen
<1> DEFINE head == Head(queue)
<1>0. rows \in [Uids -> Nat]
  BY DEF TypeOK
<1>1. queue # <<>> /\ queue' = Tail(queue)
  BY DEF Work
<1>2. head.kind # "nobody" => head.uid \in Uids /\ head.seen \in Nat
  BY <1>1, QueueShrinks, SeenType
<1>3. \/ head.kind = "delete" /\ rows' = Deleted(head.uid, head.seen)
      \/ head.kind = "update" /\ ~ Outdated(head) /\ rows' = Upserted(head.uid, head.seen)
      \/ (head.kind = "nobody" \/ (head.kind = "update" /\ Outdated(head))) /\ rows' = rows
      \/ head.kind # "nobody" /\ excused' = excused \cup {head.uid} /\ rows' = rows
  BY DEF Work
<1> HIDE DEF head
<1>4. CASE head.kind = "delete" /\ rows' = Deleted(head.uid, head.seen)
  BY <1>0, <1>2, <1>4 DEF Deleted, Deletes, Updates, head
<1>5. CASE head.kind = "update" /\ ~ Outdated(head) /\ rows' = Upserted(head.uid, head.seen)
  BY <1>0, <1>2, <1>5 DEF Upserted, Deletes, Updates, head
<1>6. CASE (head.kind = "nobody" \/ (head.kind = "update" /\ Outdated(head))) /\ rows' = rows
  BY <1>6 DEF Deletes, Updates, head
<1>7. CASE head.kind # "nobody" /\ excused' = excused \cup {head.uid} /\ rows' = rows
  BY <1>7 DEF Deletes, Updates, head
<1> QED
  BY <1>3, <1>4, <1>5, <1>6, <1>7

\* No time stamp is later than now.
LEMMA TimelyNext ==
    ASSUME TypeOK, Timely, [Next]_vars
    PROVE  Timely'
<1> USE DEF memory, bounds
<1>0. clock \in Nat \ {0} /\ lastSeen \in [Uids -> Nat] /\ rows \in [Uids -> Nat]
  BY DEF TypeOK
<1>1. CASE Tick
  <2>1. clock' = clock + 1 /\ UNCHANGED <<lastSeen, rows, queue, request>>
    BY <1>1 DEF Tick
  <2>2. \A u \in Uids : lastSeen[u] <= clock' /\ rows[u] <= clock'
    BY <1>0, <2>1 DEF Timely
  <2>3. \A i \in DOMAIN queue : queue[i].kind # "nobody" => queue[i].seen <= clock'
    BY <1>0, <2>1, SeenType DEF Timely
  <2>4. \A r \in Requests : request[r] # Idle => request[r].seen > 0 /\ request[r].seen <= clock'
    BY <1>0, <2>1, BusyRequest DEF Timely
  <2> QED
    BY <2>1, <2>2, <2>3, <2>4 DEF Timely
<1>2. ASSUME NEW r \in Requests, NEW u \in Uids, Receive(r, u)
      PROVE  Timely'
  <2>1. /\ request' = [request EXCEPT ![r] = [step |-> "read", uid |-> u, seen |-> clock]]
        /\ UNCHANGED <<clock, lastSeen, rows, queue>>
    BY <1>2 DEF Receive
  <2>2. \A q \in Requests : request'[q] # Idle => request'[q].seen > 0 /\ request'[q].seen <= clock
    BY <1>0, <2>1 DEF Timely, TypeOK
  <2> QED
    BY <2>1, <2>2 DEF Timely
<1>3. ASSUME NEW e \in Update, QueueGrowsBy(e), e.kind # "nobody" => e.seen <= clock,
             UNCHANGED <<clock, rows>>,
             \A u \in Uids : lastSeen'[u] <= clock,
             \A r \in Requests : request'[r] # Idle =>
                 request[r] # Idle /\ request'[r].seen = request[r].seen
      PROVE  Timely'
  <2>1. \A i \in DOMAIN queue' : queue'[i].kind # "nobody" => queue'[i].seen <= clock
    BY <1>3 DEF QueueGrowsBy, Timely
  <2> QED
    BY <1>3, <2>1 DEF Timely
<1>4. [kind |-> "nobody"] \in Update
  BY DEF Update
<1>5. ASSUME NEW r \in Requests, request[r] # Idle
      PROVE  /\ request[r] \in Busy /\ request[r].uid \in Uids
             /\ request[r].seen \in Nat /\ request[r].seen <= clock
             /\ [request EXCEPT ![r].step = "registered"][r].seen = request[r].seen
  <2>1. request[r] \in Busy /\ request[r].uid \in Uids /\ request[r].seen \in Nat
    BY <1>5, BusyRequest
  <2> QED
    BY <1>5, <2>1 DEF Timely, Busy, TypeOK
<1>6. ASSUME NEW r \in Requests, Admit(r)
      PROVE  Timely'
  <2>1. request[r] # Idle
    BY <1>6, BusyRequest DEF Admit
  <2>2. /\ lastSeen' = [lastSeen EXCEPT ![request[r].uid] = request[r].seen]
        /\ request' = [request EXCEPT ![r].step = "registered"]
        /\ UNCHANGED <<clock, rows, queue>>
    BY <1>6 DEF Admit, Write
  <2>3. \A u \in Uids : lastSeen'[u] <= clock
    BY <1>0, <1>5, <2>1, <2>2 DEF Timely
  <2>4. \A q \in Requests : request'[q] # Idle =>
            request[q] # Idle /\ request'[q].seen = request[q].seen
    BY <1>5, <2>1, <2>2 DEF TypeOK
  <2> QED
    BY <1>3, <1>4, <2>2, <2>3, <2>4, QueueSame
<1>7. ASSUME NEW r \in Requests, NEW u \in Uids, Evict(r, u)
      PROVE  Timely'
  <2>1. request[r] # Idle
    BY <1>7, BusyRequest DEF Evict, NeedsEviction
  <2> DEFINE e == [kind |-> "delete", uid |-> u, seen |-> lastSeen[u]]
  <2>2. e \in Update /\ e.seen = lastSeen[u] /\ e.seen <= clock
    BY <1>0 DEF Update, Timely
  <2>3. /\ lastSeen' = [lastSeen EXCEPT ![u] = 0, ![request[r].uid] = request[r].seen]
        /\ request' = [request EXCEPT ![r].step = "registered"]
        /\ Enqueue(e)
        /\ UNCHANGED <<clock, rows>>
    BY <1>7 DEF Evict, EvictionQueued
  <2> HIDE DEF e
  <2>4. \A w \in Uids : lastSeen'[w] <= clock
    BY <1>0, <1>5, <2>1, <2>3 DEF Timely
  <2>5. \A q \in Requests : request'[q] # Idle =>
            request[q] # Idle /\ request'[q].seen = request[q].seen
    BY <1>5, <2>1, <2>3 DEF TypeOK
  <2> QED
    BY <1>3, <2>2, <2>3, <2>4, <2>5, QueueGrows
<1>8. ASSUME NEW r \in Requests, TurnAway(r)
      PROVE  Timely'
  <2>1. /\ request' = [request EXCEPT ![r] = Idle]
        /\ UNCHANGED <<clock, lastSeen, rows, queue>>
    BY <1>8 DEF TurnAway, Reply
  <2> QED
    BY <2>1 DEF Timely, TypeOK
<1>9. ASSUME NEW r \in Requests, Settle(r)
      PROVE  Timely'
  <2>1. request[r] # Idle
    BY <1>9, BusyRequest DEF Settle
  <2> DEFINE e == [kind |-> "update", uid |-> request[r].uid, seen |-> request[r].seen]
  <2>2. e \in Update /\ e.seen <= clock
    BY <1>5, <2>1 DEF Update
  <2>3. /\ \/ lastSeen' = [lastSeen EXCEPT ![request[r].uid] = request[r].seen]
           \/ lastSeen' = lastSeen
        /\ request' = [request EXCEPT ![r] = Idle]
        /\ Enqueue(e)
        /\ UNCHANGED <<clock, rows>>
    BY <1>9 DEF Settle, Write, Reply
  <2> HIDE DEF e
  <2>4. \A w \in Uids : lastSeen'[w] <= clock
    BY <1>0, <1>5, <2>1, <2>3 DEF Timely
  <2>5. \A q \in Requests : request'[q] # Idle =>
            request[q] # Idle /\ request'[q].seen = request[q].seen
    BY <2>3 DEF TypeOK
  <2> QED
    BY <1>3, <2>2, <2>3, <2>4, <2>5, QueueGrows
<1>10. ASSUME NEW u \in Uids, PushTo(u)
       PROVE  Timely'
  <2> DEFINE e == IF u \in known /\ lastSeen[u] > 0
                  THEN [kind |-> "update", uid |-> u, seen |-> lastSeen[u]]
                  ELSE [kind |-> "nobody"]
  <2>1. e \in Update /\ (e.kind # "nobody" => e.seen <= clock)
    BY <1>0 DEF Update, Timely
  <2>2. Enqueue(e) /\ UNCHANGED <<clock, lastSeen, rows, request>>
    BY <1>10 DEF PushTo
  <2> HIDE DEF e
  <2> QED
    BY <1>3, <2>1, <2>2, QueueGrows DEF Timely
<1>11. CASE Work
  <2>1. /\ queue # <<>> /\ queue' = Tail(queue)
        /\ UNCHANGED <<clock, lastSeen, request>>
    BY <1>11 DEF Work
  <2>2. Head(queue).kind # "nobody" =>
            /\ Head(queue).uid \in Uids /\ Head(queue).seen \in Nat
            /\ Head(queue).seen <= clock
    BY <2>1, QueueShrinks, SeenType DEF Timely
  <2>3. \A u \in Uids : rows'[u] <= clock
    BY <1>0, <1>11, <2>2, WorkOnRow DEF Deletes, Updates, Timely
  <2>4. \A i \in DOMAIN queue' : queue'[i].kind # "nobody" => queue'[i].seen <= clock
    BY <2>1, QueueShrinks DEF Timely
  <2> QED
    BY <2>1, <2>3, <2>4 DEF Timely
<1>12. CASE Restart
  <2>1. /\ rows' = [u \in Uids |-> IF rows[u] + Retention < clock THEN 0 ELSE rows[u]]
        /\ lastSeen' = rows' /\ queue' = <<>> /\ clock' = clock
        /\ request' = [r \in Requests |-> Idle]
    BY <1>12 DEF Restart
  <2>2. \A u \in Uids : rows'[u] <= clock
    BY <1>0, <2>1 DEF Timely
  <2> QED
    BY <2>1, <2>2 DEF Timely
<1>13. CASE ListAgents \/ UNCHANGED vars
  <2>1. UNCHANGED <<clock, lastSeen, rows, queue, request>>
    BY <1>13 DEF ListAgents, vars
  <2> QED
    BY <2>1 DEF Timely
<1> QED
  BY <1>1, <1>2, <1>6, <1>7, <1>8, <1>9, <1>10, <1>11, <1>12, <1>13 DEF Next, OnMessage

\* Times and queued updates are numbers, for the arithmetic below.
LEMMA Numbers ==
    ASSUME TypeOK, NEW u \in Uids
    PROVE  /\ rows[u] \in Nat /\ lastSeen[u] \in Nat
           /\ \A i \in DOMAIN queue : /\ i \in Nat /\ i <= Len(queue)
                                      /\ Deletes(queue[i], u) \/ Updates(queue[i], u)
                                            => queue[i].seen \in Nat
           /\ \A r \in Requests : Active(r, u) => request[r].seen \in Nat
<1>1. rows[u] \in Nat /\ lastSeen[u] \in Nat
  BY DEF TypeOK
<1>2. \A i \in DOMAIN queue : i \in Nat /\ i <= Len(queue)
  BY DEF TypeOK
<1>3. \A i \in DOMAIN queue : Deletes(queue[i], u) \/ Updates(queue[i], u) => queue[i].seen \in Nat
  BY SeenType DEF Deletes, Updates
<1>4. \A r \in Requests : Active(r, u) => request[r].seen \in Nat
  BY BusyRequest DEF Active
<1> QED
  BY <1>1, <1>2, <1>3, <1>4

LEMMA NoneAfterGrown ==
    ASSUME NEW u \in Uids, NEW seen, NEW e, NoneAfter(u, seen), rows'[u] = rows[u],
           QueueGrowsBy(e), Deletes(e, u) \/ Updates(e, u) => e.seen <= seen
    PROVE  /\ rows'[u] <= seen
           /\ \A i \in DOMAIN queue' :
                 Deletes(queue'[i], u) \/ Updates(queue'[i], u) => queue'[i].seen <= seen
BY DEF NoneAfter, QueueGrowsBy

\* An update that only repeats what memory has of an agent, or is about another one, and a
\* step that leaves the agent's records alone, change nothing.
LEMMA SettlesKept ==
    ASSUME TypeOK, NEW u \in Uids, Settles(u), NEW e, QueueGrowsBy(e),
           ~ Deletes(e, u),
           Updates(e, u) => e.seen = lastSeen[u] /\ u \in known,
           UNCHANGED <<rows[u], lastSeen[u]>>,
           u \in known' <=> u \in known,
           \A r \in Requests : Active(r, u)' => Active(r, u) /\ request'[r] = request[r],
           Registered(u) => Registered(u)'
    PROVE  Settles(u)'
<1>0. /\ rows[u] \in Nat /\ lastSeen[u] \in Nat
      /\ \A i \in DOMAIN queue : i \in Nat /\ i <= Len(queue)
      /\ Len(queue) \in Nat
  BY Numbers DEF TypeOK
<1>1. ASSUME NEW seen, NoneAfter(u, seen), lastSeen[u] > 0 => lastSeen[u] <= seen
      PROVE  /\ rows'[u] <= seen
             /\ \A i \in DOMAIN queue' :
                   Deletes(queue'[i], u) \/ Updates(queue'[i], u) => queue'[i].seen <= seen
  <2>1. Deletes(e, u) \/ Updates(e, u) => e.seen <= seen
    BY <1>1 DEF Settles
  <2> QED
    BY <1>1, <2>1, NoneAfterGrown
<1>2. (u \in known <=> lastSeen[u] > 0)'
  BY DEF Settles
<1>3. RequestAhead(u)'
  <2>1. \A r, q \in Requests : Active(r, u)' /\ Active(q, u)' => r = q
    BY DEF Settles, RequestAhead
  <2>2. ASSUME NEW r \in Requests, Active(r, u)'
        PROVE  /\ NoneAfter(u, request[r].seen)'
               /\ (request[r].step = "read" => lastSeen[u] <= request[r].seen)'
               /\ (request[r].step = "registered" => lastSeen[u] \in {0, request[r].seen})'
    <3>1. Active(r, u) /\ request'[r] = request[r] /\ request[r].seen \in Nat
      BY <2>2, Numbers
    <3>2. /\ NoneAfter(u, request[r].seen)
          /\ request[r].step = "read" => lastSeen[u] <= request[r].seen
          /\ request[r].step = "registered" => lastSeen[u] \in {0, request[r].seen}
      BY <3>1 DEF Settles, RequestAhead
    <3>3. lastSeen[u] > 0 => lastSeen[u] <= request[r].seen
      <4>1. request[r].step \in {"read", "registered"}
        BY <3>1, BusyRequest DEF Active
      <4> QED
        BY <1>0, <3>1, <3>2, <4>1
    <3> QED
      BY <1>1, <3>1, <3>2, <3>3 DEF NoneAfter
  <2> QED
    BY <2>1, <2>2 DEF RequestAhead
<1>4. (lastSeen[u] > 0 => NoneAfter(u, lastSeen[u]))'
  BY <1>0, <1>1 DEF Settles, NoneAfter
<1>5. (lastSeen[u] = 0 => GoesAway(u))'
  BY DEF Settles, GoesAway, QueueGrowsBy
<1>6. (lastSeen[u] > 0 /\ ~ Registered(u) => Arrives(u))'
  <2> SUFFICES ASSUME lastSeen[u] > 0, ~ Registered(u)
               PROVE  Arrives(u)'
    OBVIOUS
  <2>1. CASE /\ rows[u] = lastSeen[u]
             /\ \A j \in DOMAIN queue : Deletes(queue[j], u) => queue[j].seen < lastSeen[u]
    BY <2>1 DEF Arrives, QueueGrowsBy
  <2>2. ASSUME NEW i \in DOMAIN queue,
               Updates(queue[i], u), queue[i].seen = lastSeen[u],
               \A j \in DOMAIN queue :
                  j > i /\ Deletes(queue[j], u) => queue[j].seen < lastSeen[u]
        PROVE  Arrives(u)'
    <3>1. i \in DOMAIN queue' /\ queue'[i] = queue[i]
      BY DEF QueueGrowsBy
    <3>2. \A j \in DOMAIN queue' :
             j > i /\ Deletes(queue'[j], u) => queue'[j].seen < lastSeen[u]
      BY <2>2 DEF QueueGrowsBy
    <3> QED
      BY <2>2, <3>1, <3>2 DEF Arrives
  <2> QED
    BY <2>1, <2>2 DEF Settles, Arrives
<1> QED
  BY <1>2, <1>3, <1>4, <1>5, <1>6 DEF Settles

\* A message is recorded in memory.
LEMMA SettlesRegistered ==
    ASSUME TypeOK, Timely, NEW r \in Requests, NEW u \in Uids, Settles(u), Active(r, u),
           request[r].step = "read",
           NEW e, QueueGrowsBy(e), ~ Deletes(e, u), ~ Updates(e, u),
           rows'[u] = rows[u], lastSeen'[u] = request[r].seen, u \in known',
           request' = [request EXCEPT ![r].step = "registered"]
    PROVE  Settles(u)'
<1>1. /\ request[r] \in Busy /\ request[r] # Idle
      /\ request[r].seen \in Nat /\ request[r].seen > 0
  BY BusyRequest DEF Active, Timely
<1>2. /\ request'[r].step = "registered"
      /\ request'[r].seen = request[r].seen /\ request'[r].uid = u
      /\ request'[r] # Idle
      /\ \A q \in Requests \ {r} : request'[q] = request[q]
  BY <1>1 DEF TypeOK, Busy, Active, Idle
<1>3. \A q \in Requests : Active(q, u)' => q = r
  BY <1>2 DEF Settles, RequestAhead, Active
<1>4. NoneAfter(u, request[r].seen)
  BY DEF Settles, RequestAhead
<1>5. /\ rows'[u] <= request[r].seen
      /\ \A i \in DOMAIN queue' :
            Deletes(queue'[i], u) \/ Updates(queue'[i], u) => queue'[i].seen <= request[r].seen
  BY <1>4, NoneAfterGrown
<1>6. NoneAfter(u, request[r].seen)'
  BY <1>2, <1>5 DEF NoneAfter
<1>7. NoneAfter(u, lastSeen[u])'
  BY <1>5 DEF NoneAfter
<1>8. RequestAhead(u)'
  BY <1>1, <1>2, <1>3, <1>6 DEF RequestAhead
<1>9. Registered(u)'
  BY <1>2 DEF Registered, Active
<1> QED
  BY <1>1, <1>7, <1>8, <1>9 DEF Settles

LEMMA SettlesDisplaced ==
    ASSUME TypeOK, Timely, NEW u \in Uids, Settles(u), lastSeen[u] > 0,
           NEW e, e = [kind |-> "delete", uid |-> u, seen |-> lastSeen[u]],
           QueueGrowsBy(e), Len(queue) + 1 \in DOMAIN queue', queue'[Len(queue) + 1] = e,
           rows'[u] = rows[u], lastSeen'[u] = 0, u \notin known',
           \A r \in Requests : Active(r, u)' => Active(r, u) /\ request'[r] = request[r]
    PROVE  Settles(u)'
<1>0. rows[u] \in Nat /\ lastSeen[u] \in Nat
  BY Numbers
<1>1. e.kind = "delete" /\ e.uid = u /\ e.seen = lastSeen[u]
  OBVIOUS
<1>2. NoneAfter(u, lastSeen[u])
  BY DEF Settles
<1>3. GoesAway(u)'
  BY <1>1, <1>2 DEF GoesAway, NoneAfter, Deletes
<1>4. RequestAhead(u)'
  <2>1. \A r, q \in Requests : Active(r, u)' /\ Active(q, u)' => r = q
    BY DEF Settles, RequestAhead
  <2>2. ASSUME NEW r \in Requests, Active(r, u)'
        PROVE  /\ NoneAfter(u, request[r].seen)'
               /\ (request[r].step = "read" => lastSeen[u] <= request[r].seen)'
               /\ (request[r].step = "registered" => lastSeen[u] \in {0, request[r].seen})'
    <3>1. Active(r, u) /\ request'[r] = request[r] /\ request[r].seen \in Nat
      BY <2>2, Numbers
    <3>2. NoneAfter(u, request[r].seen) /\ lastSeen[u] <= request[r].seen
      <4>1. request[r].step \in {"read", "registered"}
        BY <3>1, BusyRequest DEF Active
      <4> QED
        BY <1>0, <3>1, <4>1 DEF Settles, RequestAhead
    <3>3. /\ rows'[u] <= request[r].seen
          /\ \A i \in DOMAIN queue' :
               Deletes(queue'[i], u) \/ Updates(queue'[i], u) => queue'[i].seen <= request[r].seen
      BY <1>1, <3>2, NoneAfterGrown
    <3> QED
      BY <3>1, <3>3 DEF NoneAfter
  <2> QED
    BY <2>1, <2>2 DEF RequestAhead
<1> QED
  BY <1>0, <1>3, <1>4 DEF Settles

\* A request ends with its update in the queue.
LEMMA SettlesEnded ==
    ASSUME TypeOK, Timely, NEW r \in Requests, NEW u \in Uids, Settles(u), Active(r, u),
           request[r].step = "registered",
           NEW e, e = [kind |-> "update", uid |-> u, seen |-> request[r].seen],
           QueueGrowsBy(e), Len(queue) + 1 \in DOMAIN queue', queue'[Len(queue) + 1] = e,
           rows'[u] = rows[u],
           \/ lastSeen'[u] = request[r].seen /\ u \in known'
           \/ lastSeen'[u] = lastSeen[u] /\ (u \in known' <=> u \in known),
           request' = [request EXCEPT ![r] = Idle]
    PROVE  Settles(u)'
<1>0. /\ rows[u] \in Nat /\ lastSeen[u] \in Nat
      /\ \A i \in DOMAIN queue : i \in Nat /\ i <= Len(queue)
      /\ Len(queue) \in Nat
      /\ request[r].seen \in Nat /\ request[r].seen > 0
  BY Numbers DEF TypeOK, Timely, Active
<1>1. e.kind = "update" /\ e.uid = u /\ e.seen = request[r].seen
  OBVIOUS
<1>2. NoneAfter(u, request[r].seen) /\ lastSeen[u] \in {0, request[r].seen}
  BY DEF Settles, RequestAhead
<1>3. \A q \in Requests : ~ Active(q, u)'
  BY DEF Settles, RequestAhead, Active, TypeOK
<1>4. RequestAhead(u)'
  BY <1>3 DEF RequestAhead
<1>5. CASE lastSeen'[u] = request[r].seen /\ u \in known'
  <2>1. NoneAfter(u, lastSeen[u])'
    <3>1. Deletes(e, u) \/ Updates(e, u) => e.seen <= request[r].seen
      BY <1>0, <1>1
    <3>2. /\ rows'[u] <= request[r].seen
          /\ \A i \in DOMAIN queue' :
               Deletes(queue'[i], u) \/ Updates(queue'[i], u) => queue'[i].seen <= request[r].seen
      BY <1>2, <3>1, NoneAfterGrown
    <3> QED
      BY <1>5, <3>2 DEF NoneAfter
  <2>2. \A j \in DOMAIN queue' : ~ (j > Len(queue) + 1)
    BY <1>0 DEF QueueGrowsBy
  <2>3. Arrives(u)'
    BY <1>1, <1>5, <2>2 DEF Arrives, Updates
  <2> QED
    BY <1>0, <1>4, <1>5, <2>1, <2>3 DEF Settles
<1>6. CASE lastSeen'[u] = 0 /\ lastSeen[u] = 0 /\ (u \in known' <=> u \in known)
  <2>1. GoesAway(u)'
    BY <1>6 DEF Settles, GoesAway, QueueGrowsBy
  <2> QED
    BY <1>4, <1>6, <2>1 DEF Settles
<1> QED
  BY <1>0, <1>2, <1>5, <1>6 DEF Settles

LEMMA SettlesReceived ==
    ASSUME TypeOK, Timely, NEW r \in Requests, NEW u \in Uids, Settles(u),
           \A q \in Requests : ~ Active(q, u),
           UNCHANGED <<rows[u], lastSeen[u], queue, known>>,
           request' = [request EXCEPT ![r] = [step |-> "read", uid |-> u, seen |-> clock]]
    PROVE  Settles(u)'
<1>1. /\ request'[r] = [step |-> "read", uid |-> u, seen |-> clock]
      /\ \A q \in Requests \ {r} : request'[q] = request[q]
  BY DEF TypeOK
<1>2. \A q \in Requests : Active(q, u)' => q = r
  BY <1>1 DEF Active
<1>3. NoneAfter(u, clock) /\ lastSeen[u] <= clock
  BY DEF Timely, NoneAfter, Deletes, Updates
<1>4. RequestAhead(u)'
  BY <1>1, <1>2, <1>3 DEF RequestAhead, NoneAfter
<1>5. ~ Registered(u)
  BY DEF Registered
<1>6. Arrives(u) => Arrives(u)'
  BY DEF Arrives
<1> QED
  BY <1>4, <1>5, <1>6 DEF Settles, NoneAfter, GoesAway

\* The worker takes one entry: what is still queued, and what it made of the row, agree with
\* memory as before.
LEMMA SettlesWorked ==
    ASSUME TypeOK, NEW u \in Uids, Settles(u), Work, u \notin excused'
    PROVE  Settles(u)'
<1> DEFINE head == Head(queue)
<1>0. /\ rows[u] \in Nat /\ lastSeen[u] \in Nat
      /\ \A i \in DOMAIN queue :
            Deletes(queue[i], u) \/ Updates(queue[i], u) => queue[i].seen \in Nat
  BY Numbers
<1>1. queue # <<>> /\ queue' = Tail(queue) /\ UNCHANGED <<known, lastSeen, request>>
  BY DEF Work, memory
<1>2. /\ 1 \in DOMAIN queue /\ head = queue[1]
      /\ \A i \in DOMAIN queue' : i \in Nat /\ i + 1 \in DOMAIN queue /\ queue'[i] = queue[i + 1]
      /\ \A i \in DOMAIN queue : /\ i \in Nat /\ i >= 1
                                 /\ i # 1 => i - 1 \in DOMAIN queue' /\ queue'[i - 1] = queue[i]
  BY <1>1, QueueShrinks
<1>3. /\ \/ rows'[u] = rows[u]
         \/ Deletes(head, u) /\ rows[u] <= head.seen /\ rows'[u] = 0
         \/ Updates(head, u) /\ ~ Outdated(head) /\ rows'[u] = head.seen
      /\ Deletes(head, u) /\ rows[u] <= head.seen => rows'[u] = 0
      /\ Updates(head, u) /\ ~ Outdated(head) /\ rows[u] <= head.seen => rows'[u] = head.seen
  BY WorkOnRow
<1> HIDE DEF head
<1>4. ASSUME NEW seen \in Nat, NoneAfter(u, seen)
      PROVE  /\ rows'[u] <= seen
             /\ \A i \in DOMAIN queue' :
                   Deletes(queue'[i], u) \/ Updates(queue'[i], u) => queue'[i].seen <= seen
  <2>1. Deletes(head, u) \/ Updates(head, u) => head.seen <= seen
    BY <1>2, <1>4 DEF NoneAfter
  <2>2. rows'[u] <= seen
    BY <1>3, <1>4, <2>1 DEF NoneAfter
  <2> QED
    BY <1>2, <1>4, <2>2 DEF NoneAfter
<1>5. RequestAhead(u)'
  <2>1. \A r \in Requests : Active(r, u) => NoneAfter(u, request[r].seen)'
    BY <1>1, <1>4, Numbers DEF Settles, RequestAhead, NoneAfter
  <2> QED
    BY <1>1, <2>1 DEF Settles, RequestAhead, Active
<1>6. lastSeen[u] > 0 => NoneAfter(u, lastSeen[u])'
  BY <1>0, <1>1, <1>4 DEF Settles, NoneAfter
<1>7. ASSUME lastSeen[u] = 0 PROVE GoesAway(u)'
  <2>1. Updates(head, u) => Outdated(head)
    BY <1>7 DEF Settles, Outdated, Updates
  <2>2. CASE rows'[u] = 0
    BY <2>2 DEF GoesAway
  <2>3. CASE rows'[u] # 0
    <3>1. rows'[u] = rows[u] /\ ~ (Deletes(head, u) /\ rows[u] <= head.seen)
      BY <1>3, <2>1, <2>3
    <3>2. PICK i \in DOMAIN queue : Deletes(queue[i], u) /\ rows[u] <= queue[i].seen
      BY <1>7, <2>3, <3>1 DEF Settles, GoesAway
    <3>3. i # 1
      BY <1>2, <3>1, <3>2
    <3> QED
      BY <1>2, <3>1, <3>2, <3>3 DEF GoesAway
  <2> QED
    BY <2>2, <2>3
<1>8. ASSUME lastSeen[u] > 0, ~ Registered(u) PROVE Arrives(u)'
  <2>1. NoneAfter(u, lastSeen[u]) /\ Arrives(u) /\ u \in known
    BY <1>8 DEF Settles
  <2>2. CASE /\ rows[u] = lastSeen[u]
             /\ \A j \in DOMAIN queue : Deletes(queue[j], u) => queue[j].seen < lastSeen[u]
    <3>1. ~ (Deletes(head, u) /\ rows[u] <= head.seen)
      BY <1>0, <1>2, <2>2
    <3>2. Updates(head, u) /\ ~ Outdated(head) => head.seen = lastSeen[u]
      BY <1>0, <1>2, <2>1 DEF Outdated, NoneAfter, Updates
    <3>3. rows'[u] = lastSeen[u]
      BY <1>3, <2>2, <3>1, <3>2
    <3>4. \A j \in DOMAIN queue' : Deletes(queue'[j], u) => queue'[j].seen < lastSeen[u]
      BY <1>2, <2>2
    <3> QED
      BY <1>1, <3>3, <3>4 DEF Arrives
  <2>3. ASSUME NEW i \in DOMAIN queue,
               Updates(queue[i], u), queue[i].seen = lastSeen[u],
               \A j \in DOMAIN queue :
                  j > i /\ Deletes(queue[j], u) => queue[j].seen < lastSeen[u]
        PROVE  Arrives(u)'
    <3>1. CASE i = 1
      <4>1. Updates(head, u) /\ head.seen = lastSeen[u]
        BY <1>2, <2>3, <3>1
      <4>2. ~ Outdated(head) /\ rows[u] <= head.seen
        BY <1>0, <2>1, <4>1 DEF Outdated, NoneAfter, Updates
      <4>3. rows'[u] = lastSeen[u]
        BY <1>3, <4>1, <4>2
      <4>4. \A j \in DOMAIN queue' : Deletes(queue'[j], u) => queue'[j].seen < lastSeen[u]
        <5> SUFFICES ASSUME NEW j \in DOMAIN queue', Deletes(queue'[j], u)
                     PROVE  queue'[j].seen < lastSeen[u]
          OBVIOUS
        <5>1. j + 1 \in DOMAIN queue /\ queue'[j] = queue[j + 1] /\ j \in Nat
          BY <1>2
        <5>2. j + 1 >= 1 /\ (j + 1 = 1 => Deletes(head, u))
          BY <1>2, <5>1
        <5>3. j + 1 # 1
          BY <4>1, <5>2 DEF Deletes, Updates
        <5>4. j + 1 > i
          BY <3>1, <5>1, <5>3
        <5> QED
          BY <2>3, <5>1, <5>4
      <4> QED
        BY <1>1, <4>3, <4>4 DEF Arrives
    <3>2. CASE i # 1
      <4>1. i \in Nat /\ i - 1 \in DOMAIN queue' /\ queue'[i - 1] = queue[i]
        BY <1>2, <3>2
      <4>2. \A j \in DOMAIN queue' :
               j > i - 1 /\ Deletes(queue'[j], u) => queue'[j].seen < lastSeen[u]
        <5> SUFFICES ASSUME NEW j \in DOMAIN queue', j > i - 1, Deletes(queue'[j], u)
                     PROVE  queue'[j].seen < lastSeen[u]
          OBVIOUS
        <5>1. j + 1 \in DOMAIN queue /\ queue'[j] = queue[j + 1] /\ j \in Nat
          BY <1>2
        <5>2. j + 1 > i
          BY <4>1, <5>1
        <5> QED
          BY <2>3, <5>1, <5>2
      <4> QED
        BY <1>1, <2>3, <4>1, <4>2 DEF Arrives
    <3> QED
      BY <3>1, <3>2
  <2> QED
    BY <2>1, <2>2, <2>3 DEF Arrives
<1> QED
  BY <1>1, <1>5, <1>6, <1>7, <1>8 DEF Settles, Registered, Active

\* A restart makes memory of the rows.
LEMMA SettlesRestarted ==
    ASSUME TypeOK, NEW u \in Uids, Restart
    PROVE  Settles(u)'
<1>1. /\ rows'[u] \in Nat
      /\ lastSeen' = rows' /\ (u \in known' <=> rows'[u] > 0)
      /\ queue' = <<>> /\ \A r \in Requests : request'[r] = Idle
  BY DEF Restart, TypeOK
<1>2. DOMAIN queue' = {}
  BY <1>1
<1>3. RequestAhead(u)'
  BY <1>1 DEF RequestAhead, Active
<1>4. (lastSeen[u] > 0 => NoneAfter(u, lastSeen[u]))'
  BY <1>1, <1>2 DEF NoneAfter
<1>5. (lastSeen[u] = 0 => GoesAway(u))' /\ Arrives(u)'
  BY <1>1, <1>2 DEF GoesAway, Arrives
<1> QED
  BY <1>1, <1>3, <1>4, <1>5 DEF Settles

LEMMA SettleInit == Init => SettleInv
<1> SUFFICES ASSUME Init PROVE SettleInv
  OBVIOUS
<1>1. Timely
  BY DEF Init, Timely
<1>2. ASSUME NEW u \in Uids PROVE Settles(u)
  BY DEF Init, Settles, RequestAhead, Active, GoesAway, Registered
<1> QED
  BY <1>1, <1>2, InitType DEF SettleInv

LEMMA SettleNext == SettleInv /\ [Next]_vars => SettleInv'
<1> SUFFICES ASSUME SettleInv, [Next]_vars
             PROVE  SettleInv'
  OBVIOUS
<1>1. TypeOK /\ Timely /\ TypeOK' /\ Timely'
  BY NextType, TimelyNext DEF SettleInv
<1> SUFFICES ASSUME NEW u \in Uids, u \notin excused'
             PROVE  Settles(u)'
  BY <1>1 DEF SettleInv
<1> USE DEF memory, bounds
<1> DEFINE nobody == [kind |-> "nobody"]
<1>2. nobody \in Update /\ ~ Deletes(nobody, u) /\ ~ Updates(nobody, u)
  BY DEF Update, Deletes, Updates
<1>3. ASSUME u \notin excused PROVE Settles(u)
  BY <1>3 DEF SettleInv
<1>4. CASE Tick \/ ListAgents \/ UNCHANGED vars
  <2>1. UNCHANGED <<known, lastSeen, rows, queue, request, excused>>
    BY <1>4 DEF Tick, ListAgents, vars
  <2> QED
    BY <1>1, <1>2, <1>3, <2>1, QueueSame, SettlesKept DEF Active, Registered
<1>5. ASSUME NEW r \in Requests, NEW w \in Uids, Receive(r, w)
      PROVE  Settles(u)'
  <2>1. /\ request[r] = Idle
        /\ request' = [request EXCEPT ![r] = [step |-> "read", uid |-> w, seen |-> clock]]
        /\ excused \subseteq excused'
        /\ UNCHANGED <<clock, known, lastSeen, rows, queue>>
    BY <1>5 DEF Receive
  <2>2. Settles(u)
    BY <1>3, <2>1
  <2>3. CASE w = u
    <3>1. \A q \in Requests : ~ Active(q, u)
      BY <1>5, <2>3 DEF Receive, Active
    <3> QED
      BY <1>1, <2>1, <2>2, <2>3, <3>1, SettlesReceived
  <2>4. CASE w # u
    <3>1. /\ \A q \in Requests : Active(q, u)' => Active(q, u) /\ request'[q] = request[q]
          /\ \A q \in Requests : Active(q, u) => request'[q] = request[q]
      BY <1>1, <2>1, <2>4 DEF Active, TypeOK
    <3>2. Registered(u) => Registered(u)'
      BY <3>1 DEF Registered, Active
    <3> QED
      BY <1>1, <1>2, <2>1, <2>2, <3>1, <3>2, QueueSame, SettlesKept
  <2> QED
    BY <2>3, <2>4
<1>6. ASSUME NEW r \in Requests, request[r].step = "read", request[r].uid # u,
             request' = [request EXCEPT ![r].step = "registered"] \/
             request' = [request EXCEPT ![r] = Idle]
      PROVE  /\ \A q \in Requests : Active(q, u)' => Active(q, u) /\ request'[q] = request[q]
             /\ Registered(u) => Registered(u)'
  <2>1. request[r] \in Busy
    BY <1>1, <1>6, BusyRequest
  <2>2. request'[r] = Idle \/ request'[r].uid = request[r].uid
    BY <1>1, <1>6, <2>1 DEF TypeOK, Busy
  <2>3. \A q \in Requests \ {r} : request'[q] = request[q]
    BY <1>1, <1>6 DEF TypeOK
  <2> QED
    BY <1>6, <2>2, <2>3 DEF Active, Registered
<1>7. ASSUME NEW r \in Requests, Admit(r)
      PROVE  Settles(u)'
  <2>1. request[r].step = "read" /\ request[r] # Idle /\ request[r].uid \in Uids
    BY <1>1, <1>7, BusyRequest DEF Admit
  <2>2. /\ request' = [request EXCEPT ![r].step = "registered"]
        /\ known' = known \cup {request[r].uid}
        /\ lastSeen' = [lastSeen EXCEPT ![request[r].uid] = request[r].seen]
        /\ UNCHANGED <<rows, queue, excused>>
    BY <1>7 DEF Admit, Write
  <2>3. Settles(u)
    BY <1>3, <2>2
  <2>4. CASE request[r].uid = u
    <3>1. Active(r, u) /\ lastSeen'[u] = request[r].seen
      BY <1>1, <2>1, <2>2, <2>4 DEF Active, TypeOK
    <3> QED
      BY <1>1, <1>2, <2>1, <2>2, <2>3, <2>4, <3>1, QueueSame, SettlesRegistered
  <2>5. CASE request[r].uid # u
    <3>1. lastSeen'[u] = lastSeen[u]
      BY <1>1, <2>1, <2>2, <2>5 DEF TypeOK
    <3> QED
      BY <1>1, <1>2, <1>6, <2>1, <2>2, <2>3, <2>5, <3>1, QueueSame, SettlesKept
  <2> QED
    BY <2>4, <2>5
<1>8. ASSUME NEW r \in Requests, NEW w \in Uids, Evict(r, w)
      PROVE  Settles(u)'
  <2> DEFINE e == [kind |-> "delete", uid |-> w, seen |-> lastSeen[w]]
  <2>1. /\ request[r].step = "read" /\ request[r] # Idle /\ request[r].uid \in Uids
        /\ request[r].uid \notin known /\ w \in known /\ lastSeen[w] > 0
    BY <1>1, <1>8, BusyRequest DEF Evict, NeedsEviction, Evictable, Offline
  <2>2. /\ request' = [request EXCEPT ![r].step = "registered"]
        /\ known' = (known \ {w}) \cup {request[r].uid}
        /\ lastSeen' = [lastSeen EXCEPT ![w] = 0, ![request[r].uid] = request[r].seen]
        /\ QueueHasRoom /\ Enqueue(e)
        /\ UNCHANGED <<rows, excused>>
    BY <1>8 DEF Evict, EvictionQueued
  <2>3. Settles(u)
    BY <1>3, <2>2
  <2>4. /\ e \in Update /\ e.uid = w /\ e.kind = "delete"
        /\ w = u => e = [kind |-> "delete", uid |-> u, seen |-> lastSeen[u]]
    BY <1>1 DEF Update, TypeOK
  <2> HIDE DEF e
  <2>5. /\ QueueGrowsBy(e)
        /\ Len(queue) + 1 \in DOMAIN queue' /\ queue'[Len(queue) + 1] = e
    BY <1>1, <2>2, <2>4, QueueGrows
  <2>6. CASE request[r].uid = u
    <3>1. w # u
      BY <2>1, <2>6
    <3>2. Active(r, u) /\ lastSeen'[u] = request[r].seen
      BY <1>1, <2>1, <2>2, <2>6, <3>1 DEF Active, TypeOK
    <3>3. ~ Deletes(e, u) /\ ~ Updates(e, u)
      BY <2>4, <3>1 DEF Deletes, Updates
    <3> QED
      BY <1>1, <2>1, <2>2, <2>3, <2>5, <2>6, <3>2, <3>3, SettlesRegistered
  <2>7. CASE w = u
    <3>1. request[r].uid # u
      BY <2>1, <2>7
    <3>2. lastSeen'[u] = 0 /\ u \notin known'
      BY <1>1, <2>1, <2>2, <2>7, <3>1 DEF TypeOK
    <3> QED
      BY <1>1, <1>6, <2>1, <2>2, <2>3, <2>4, <2>5, <2>7, <3>1, <3>2, SettlesDisplaced
  <2>8. CASE w # u /\ request[r].uid # u
    <3>1. lastSeen'[u] = lastSeen[u]
      BY <1>1, <2>1, <2>2, <2>8 DEF TypeOK
    <3>2. ~ Deletes(e, u) /\ ~ Updates(e, u)
      BY <2>4, <2>8 DEF Deletes, Updates
    <3> QED
      BY <1>1, <1>6, <2>1, <2>2, <2>3, <2>5, <2>8, <3>1, <3>2, SettlesKept
  <2> QED
    BY <2>6, <2>7, <2>8
<1>9. ASSUME NEW r \in Requests, TurnAway(r)
      PROVE  Settles(u)'
  <2>1. /\ request[r].step = "read"
        /\ request' = [request EXCEPT ![r] = Idle]
        /\ UNCHANGED <<known, lastSeen, rows, queue, excused>>
    BY <1>9 DEF TurnAway, NeedsEviction, Reply
  <2>2. /\ \A q \in Requests : Active(q, u)' => Active(q, u) /\ request'[q] = request[q]
        /\ Registered(u) => Registered(u)'
    BY <1>1, <2>1 DEF Active, Registered, TypeOK
  <2> QED
    BY <1>1, <1>2, <1>3, <2>1, <2>2, QueueSame, SettlesKept
<1>10. ASSUME NEW r \in Requests, Settle(r)
       PROVE  Settles(u)'
  <2> DEFINE e == [kind |-> "update", uid |-> request[r].uid, seen |-> request[r].seen]
  <2>1. /\ request[r].step = "registered" /\ request[r] # Idle
        /\ request[r].uid \in Uids /\ request[r].seen \in Nat
    BY <1>1, <1>10, BusyRequest DEF Settle
  <2>2. /\ request' = [request EXCEPT ![r] = Idle]
        /\ \/ /\ known' = known \cup {request[r].uid}
              /\ lastSeen' = [lastSeen EXCEPT ![request[r].uid] = request[r].seen]
           \/ UNCHANGED <<known, lastSeen>>
        /\ Enqueue(e)
        /\ excused' = IF QueueHasRoom THEN excused ELSE excused \cup {request[r].uid}
        /\ UNCHANGED rows
    BY <1>10 DEF Settle, Write, Reply
  <2>3. Settles(u)
    BY <1>3, <2>2
  <2>4. /\ e \in Update /\ e.uid = request[r].uid /\ e.kind = "update"
        /\ request[r].uid = u => e = [kind |-> "update", uid |-> u, seen |-> request[r].seen]
    BY <2>1 DEF Update
  <2> HIDE DEF e
  <2>5. /\ QueueGrowsBy(e)
        /\ QueueHasRoom => Len(queue) + 1 \in DOMAIN queue' /\ queue'[Len(queue) + 1] = e
    BY <1>1, <2>2, <2>4, QueueGrows
  <2>6. CASE request[r].uid = u
    <3>1. QueueHasRoom
      BY <2>2, <2>6
    <3>2. Active(r, u)
      BY <2>1, <2>6 DEF Active
    <3>3. \/ lastSeen'[u] = request[r].seen /\ u \in known'
          \/ lastSeen'[u] = lastSeen[u] /\ (u \in known' <=> u \in known)
      BY <1>1, <2>2, <2>6 DEF TypeOK
    <3> QED
      BY <1>1, <2>1, <2>2, <2>3, <2>4, <2>5, <2>6, <3>1, <3>2, <3>3, SettlesEnded
  <2>7. CASE request[r].uid # u
    <3>1. lastSeen'[u] = lastSeen[u] /\ (u \in known' <=> u \in known)
      BY <1>1, <2>1, <2>2, <2>7 DEF TypeOK
    <3>2. ~ Deletes(e, u) /\ ~ Updates(e, u)
      BY <2>4, <2>7 DEF Deletes, Updates
    <3>3. /\ \A q \in Requests : Active(q, u)' => Active(q, u) /\ request'[q] = request[q]
          /\ \A q \in Requests : Active(q, u) => Active(q, u)' /\ request'[q] = request[q]
      BY <1>1, <2>2, <2>7 DEF Active, TypeOK
    <3>4. Registered(u) => Registered(u)'
      BY <3>3 DEF Registered
    <3> QED
      BY <1>1, <2>2, <2>3, <2>5, <3>1, <3>2, <3>3, <3>4, SettlesKept
  <2> QED
    BY <2>6, <2>7
<1>11. ASSUME NEW w \in Uids, PushTo(w)
       PROVE  Settles(u)'
  <2> DEFINE e == IF w \in known /\ lastSeen[w] > 0
                  THEN [kind |-> "update", uid |-> w, seen |-> lastSeen[w]]
                  ELSE nobody
  <2>1. /\ known' = known \cup {w}
        /\ Enqueue(e)
        /\ excused' = IF w \in known THEN excused ELSE excused \cup {w}
        /\ UNCHANGED <<lastSeen, rows, request>>
    BY <1>11 DEF PushTo
  <2>2. Settles(u)
    BY <1>3, <2>1
  <2>3. w = u => u \in known
    BY <2>1
  <2>4. /\ e \in Update
        /\ ~ Deletes(e, u)
        /\ Updates(e, u) => e.seen = lastSeen[u] /\ u \in known
    BY <1>1 DEF Update, TypeOK, Deletes, Updates
  <2> HIDE DEF e
  <2>5. QueueGrowsBy(e)
    BY <1>1, <2>1, <2>4, QueueGrows
  <2>6. u \in known' <=> u \in known
    BY <2>1, <2>3
  <2> QED
    BY <1>1, <2>1, <2>2, <2>4, <2>5, <2>6, SettlesKept DEF Active, Registered
<1>12. CASE Work
  <2>1. Settles(u)
    BY <1>3, <1>12 DEF Work
  <2> QED
    BY <1>1, <1>12, <2>1, SettlesWorked
<1>13. CASE Restart
  BY <1>1, <1>13, SettlesRestarted
<1> QED
  BY <1>4, <1>5, <1>7, <1>8, <1>9, <1>10, <1>11, <1>12, <1>13 DEF Next, OnMessage

\* When no request is under way and the queue is empty, the row of an agent is what memory
\* has of it, or is gone as the agent is from memory: whatever the interleaving of messages,
\* evictions, pushes and the worker, unless the agent's own requests overlapped, a write of
\* it was dropped or failed, or a push made it up.
THEOREM InventoryRowsSettle == Spec => []RowsSettle
<1>1. SettleInv => RowsSettle
  <2> SUFFICES ASSUME SettleInv, queue = <<>>, \A r \in Requests : request[r] = Idle,
                      NEW u \in Uids \ excused
               PROVE  rows[u] = lastSeen[u]
    BY DEF RowsSettle
  <2>1. Settles(u) /\ ~ Registered(u) /\ DOMAIN queue = {} /\ lastSeen[u] \in Nat
    BY DEF SettleInv, Registered, Active, TypeOK
  <2> QED
    BY <2>1 DEF Settles, GoesAway, Arrives
<1> QED
  BY <1>1, SettleInit, SettleNext, PTL DEF Spec

=============================================================================
