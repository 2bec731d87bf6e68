------------------------ MODULE ConfigJournal_proofs ------------------------
(***************************************************************************)
(* Proofs about ConfigJournal, for any number of handlers, ids, bodies and *)
(* versions.                                                               *)
(***************************************************************************)
EXTENDS ConfigJournal, TLAPS, FiniteSetTheorems

-----------------------------------------------------------------------------
(* Type correctness.                                                         *)

\* The step of a request tells what kind of request it is.
LEMMA StepKinds ==
    ASSUME TypeOK, NEW h \in Handlers
    PROVE  /\ handler[h].step \in {"admission", "transition", "commit", "append"}
              => handler[h] \in Saving
           /\ handler[h].step = "replace" => handler[h] \in Screening
           /\ handler[h] \in {Idle} \cup Saving \cup Screening
BY SMT DEF TypeOK, Idle, Saving, Screening

LEMMA ReplyType ==
    ASSUME TypeOK, NEW h \in Handlers, Reply(h)
    PROVE  /\ handler' \in [Handlers -> {Idle} \cup Saving \cup Screening]
           /\ lifecycleMu' \in Handlers \cup {NoHandler}
           /\ securityReaders' \subseteq Handlers
           /\ securityWriter' \in Handlers \cup {NoHandler}
BY DEF TypeOK, Reply, Release

LEMMA PrepareType ==
    ASSUME TypeOK, NEW h \in Handlers, NEW id \in Ids, NEW draft \in Entry,
           NEW expected \in Nat, NEW step \in {"admission", "transition", "commit"},
           Prepare(h, step, id, draft, expected)
    PROVE  handler' \in [Handlers -> {Idle} \cup Saving \cup Screening]
BY DEF TypeOK, Prepare, Saving

LEMMA PublishedType ==
    ASSUME NEW target \in Targets, NEW body \in Bodies
    PROVE  Published(target, body) \in Entry
BY DEF Published, Entry, Changes

LEMMA DeactivatedType ==
    ASSUME NEW entry \in Entry
    PROVE  Deactivated(entry) \in Entry
BY DEF Deactivated, Entry, Changes

\* The newest row of a log is one of its rows.
LEMMA LatestInLog ==
    ASSUME NEW S, NEW log \in Seq(S), log # <<>>
    PROVE  /\ Len(log) \in DOMAIN log
           /\ Len(log) > 0
           /\ Latest(log) = log[Len(log)]
           /\ Latest(log) \in S
BY DEF Latest

LEMMA RowType ==
    ASSUME TypeOK, NEW request \in Saving
    PROVE  Row(request) \in Entry
<1>1. Len(journal[request.id]) + 1 \in Nat
  BY DEF TypeOK, Saving
<1> QED
  BY <1>1 DEF Row, Saving, Entry

LEMMA InsertType ==
    ASSUME TypeOK, NEW request \in Saving, Insert(request)
    PROVE  journal' \in [Ids -> Seq(Entry)]
BY RowType DEF TypeOK, Insert, Saving

LEMMA TypeInit == Init => TypeOK
BY DEF Init, TypeOK, Ids

LEMMA TypeNext == TypeOK /\ [Next]_vars => TypeOK'
<1> SUFFICES ASSUME TypeOK, [Next]_vars
             PROVE  TypeOK'
  OBVIOUS
<1> USE DEF persistent, mutexes
<1>1. ASSUME NEW h \in Handlers, NEW id \in PolicyIds, NEW body \in PolicyBodies,
             PublishPolicy(h, id, body)
      PROVE  TypeOK'
  <2>1. Published("java-extension", body) \in Entry
    BY PublishedType DEF Bodies, Targets
  <2>2. handler' \in [Handlers -> {Idle} \cup Saving \cup Screening]
    BY <1>1, <2>1, PrepareType DEF PublishPolicy, Ids
  <2> QED
    BY <1>1, <2>2 DEF PublishPolicy, LockLifecycle, TypeOK
<1>2. ASSUME NEW h \in Handlers, NEW id \in CollectorIds, NEW body \in CollectorBodies,
             PublishCollector(h, id, body)
      PROVE  TypeOK'
  <2>1. Published("collector", body) \in Entry
    BY PublishedType DEF Bodies, Targets
  <2>2. handler' \in [Handlers -> {Idle} \cup Saving \cup Screening]
    BY <1>2, <2>1, PrepareType DEF PublishCollector, Ids
  <2> QED
    BY <1>2, <2>2 DEF PublishCollector, TypeOK
<1>3. ASSUME NEW h \in Handlers, NEW id \in Ids, RollbackPolicy(h, id)
      PROVE  TypeOK'
  <2> DEFINE current == Latest(journal[id])
  <2>1. journal[id] \in Seq(Entry) /\ journal[id] # <<>> /\ current \in Entry
    BY <1>3, LatestInLog DEF RollbackPolicy, ActivePolicies, ActiveIn, TypeOK
  <2>2. CASE Prepare(h, "commit", id, Deactivated(current), current.version)
    <3>1. Deactivated(current) \in Entry /\ current.version \in Nat
      BY <2>1, DeactivatedType DEF Entry
    <3>2. handler' \in [Handlers -> {Idle} \cup Saving \cup Screening]
      BY <2>2, <3>1, PrepareType
    <3> QED
      BY <1>3, <3>2 DEF RollbackPolicy, LockLifecycle, TypeOK
  <2>3. ASSUME NEW k \in Predecessors(id, current),
               Prepare(h, "transition", id,
                    [journal[id][k] EXCEPT !.action = "ROLLBACK",
                                           !.active = TRUE,
                                           !.source = k],
                    current.version)
        PROVE  TypeOK'
    <3>1. k \in DOMAIN journal[id] /\ k \in Nat /\ journal[id][k] \in Entry
      BY <2>1 DEF Predecessors, PublishedBefore
    <3>2. [journal[id][k] EXCEPT !.action = "ROLLBACK", !.active = TRUE, !.source = k]
             \in Entry
      BY <3>1 DEF Entry, Changes
    <3>3. handler' \in [Handlers -> {Idle} \cup Saving \cup Screening]
      BY <2>1, <2>3, <3>2, PrepareType DEF Entry
    <3> QED
      BY <1>3, <3>3 DEF RollbackPolicy, LockLifecycle, TypeOK
  <2> QED
    BY <1>3, <2>2, <2>3 DEF RollbackPolicy
<1>4. ASSUME NEW h \in Handlers, NEW id \in Ids, Deactivate(h, id)
      PROVE  TypeOK'
  <2>0. journal[id] \in Seq(Entry) /\ journal[id] # <<>>
    BY <1>4 DEF Deactivate, TypeOK
  <2>1. Latest(journal[id]) \in Entry
    BY <2>0, LatestInLog
  <2>2. Latest(journal[id]).version \in Nat
    BY <2>1 DEF Entry
  <2>3. handler' \in [Handlers -> {Idle} \cup Saving \cup Screening]
    BY <1>4, <2>1, <2>2, DeactivatedType, PrepareType DEF Deactivate
  <2> QED
    BY <1>4, <2>3 DEF Deactivate, LockLifecycle, TypeOK
<1>5. ASSUME NEW h \in Handlers, NEW id \in Ids, NEW version \in 1..MaxVersions,
             RollbackCollector(h, id, version)
      PROVE  TypeOK'
  <2>1. journal[id][version] \in Entry
    BY <1>5 DEF RollbackCollector, TypeOK
  <2>2. [journal[id][version] EXCEPT !.action = "ROLLBACK"] \in Entry
    BY <2>1 DEF Entry, Changes
  <2>3. handler' \in [Handlers -> {Idle} \cup Saving \cup Screening]
    BY <1>5, <2>2, PrepareType DEF RollbackCollector
  <2> QED
    BY <1>5, <2>3 DEF RollbackCollector, TypeOK
<1>6. ASSUME NEW h \in Handlers, NEW list \in SUBSET Sensitive, UpdateDenylist(h, list)
      PROVE  TypeOK'
  BY <1>6 DEF UpdateDenylist, TypeOK, Screening
<1>7. ASSUME NEW h \in Handlers, AdmitPolicy(h)
      PROVE  TypeOK'
  BY <1>7, StepKinds DEF AdmitPolicy, TypeOK, Saving
<1>8. ASSUME NEW h \in Handlers, AdmitTransition(h)
      PROVE  TypeOK'
  BY <1>8, StepKinds DEF AdmitTransition, TypeOK, Saving
<1>9. ASSUME NEW h \in Handlers, RefusePolicy(h)
      PROVE  TypeOK'
  BY <1>9, ReplyType DEF RefusePolicy, TypeOK
<1>10. ASSUME NEW h \in Handlers, Commit(h)
       PROVE  TypeOK'
  <2>1. handler[h] \in Saving
    BY <1>10, StepKinds DEF Commit
  <2>2. Row(handler[h]) \in Entry /\ journal' \in [Ids -> Seq(Entry)]
    BY <1>10, <2>1, RowType, InsertType DEF Commit
  <2>3. handler' \in [Handlers -> {Idle} \cup Saving \cup Screening]
    BY <1>10, <2>1, <2>2 DEF Commit, TypeOK, Saving
  <2> QED
    BY <1>10, <2>2, <2>3 DEF Commit, TypeOK
<1>11. ASSUME NEW h \in Handlers, Conflict(h)
       PROVE  TypeOK'
  BY <1>11, ReplyType DEF Conflict, TypeOK
<1>12. ASSUME NEW h \in Handlers, AbandonSave(h)
       PROVE  TypeOK'
  BY <1>12, ReplyType DEF AbandonSave, TypeOK
<1>13. ASSUME NEW h \in Handlers, CommitUnconfirmed(h)
       PROVE  TypeOK'
  <2>1. handler[h] \in Saving
    BY <1>13, StepKinds DEF CommitUnconfirmed
  <2>2. Row(handler[h]) \in Entry /\ journal' \in [Ids -> Seq(Entry)]
    BY <1>13, <2>1, RowType, InsertType DEF CommitUnconfirmed
  <2>3. unconfirmed' \in [Ids -> SUBSET Nat]
    BY <1>13, <2>1, <2>2 DEF CommitUnconfirmed, TypeOK, Saving, Entry
  <2> QED
    BY <1>13, <2>2, <2>3, ReplyType DEF CommitUnconfirmed, TypeOK
<1>14. ASSUME NEW h \in Handlers, AppendToMemory(h)
       PROVE  TypeOK'
  <2>1. handler[h].id \in Ids /\ handler[h].draft \in Entry
    BY <1>14, StepKinds DEF AppendToMemory, Saving
  <2>2. configs' \in [Ids -> Seq(Entry)]
    BY <1>14, <2>1 DEF AppendToMemory, TypeOK
  <2> QED
    BY <1>14, <2>2, ReplyType DEF AppendToMemory, TypeOK
<1>15. ASSUME NEW h \in Handlers, ReplaceDenylist(h)
       PROVE  TypeOK'
  <2>1. handler[h].proposed \subseteq Sensitive
    BY <1>15, StepKinds DEF ReplaceDenylist, Screening
  <2> QED
    BY <1>15, <2>1, ReplyType DEF ReplaceDenylist, TypeOK
<1>16. CASE Restart
  BY <1>16 DEF Restart, TypeOK
<1>17. CASE UNCHANGED vars
  BY <1>17 DEF vars, TypeOK
<1> QED
  BY <1>1, <1>2, <1>3, <1>4, <1>5, <1>6, <1>7, <1>8, <1>9, <1>10, <1>11, <1>12,
     <1>13, <1>14, <1>15, <1>16, <1>17
     DEF Next, Start, AwaitAdmission, Proceed

\* The type invariant of ConfigJournal holds for every value of its constants.
THEOREM TypeCorrect == Spec => []TypeOK
BY TypeInit, TypeNext, PTL DEF Spec


-----------------------------------------------------------------------------
(* Lineage.  LineageSound is not inductive: it says nothing of the rows that *)
(* are about to be inserted.  The invariant below adds what holds of every   *)
(* row by itself and of every draft a request carries: a draft describes the *)
(* row at the version it expects to find last, and rows never change, so     *)
(* either that row is still the last one at commit, or the commit is refused.*)

RowSound(log, v) ==
    /\ log[v].version = v
    /\ log[v].source \in 1..v
    /\ log[log[v].source].action = "PUBLISHED"
    /\ log[log[v].source].target = log[v].target
    /\ log[log[v].source].body = log[v].body
    /\ log[v].action = "PUBLISHED" => log[v].source = v
    /\ log[v].active <=> log[v].action # "DEACTIVATED"

DraftSound(log, draft, expected) ==
    /\ draft.active <=> draft.action # "DEACTIVATED"
    /\ draft.action # "PUBLISHED" =>
          /\ draft.source \in DOMAIN log
          /\ log[draft.source].action = "PUBLISHED"
          /\ log[draft.source].target = draft.target
          /\ log[draft.source].body = draft.body
    /\ draft.action = "ROLLBACK" /\ draft.target = "java-extension" =>
          expected > 0 /\ RestoresPredecessor(log, expected, draft)
    /\ draft.action = "DEACTIVATED" =>
          expected > 0 /\ ClosesRow(log, expected, draft)

JournalSound ==
    \A id \in Ids : \A v \in DOMAIN journal[id] : RowSound(journal[id], v)

DraftsSound ==
    \A h \in Handlers :
        handler[h].step \in {"admission", "transition", "commit"} =>
            DraftSound(journal[handler[h].id], handler[h].draft, handler[h].expected)

LineageInv == TypeOK /\ JournalSound /\ DraftsSound /\ LineageSound


\* longer is log with one more row.
Extends(log, longer) ==
    /\ log \in Seq(Entry)
    /\ longer \in Seq(Entry)
    /\ Len(longer) = Len(log) + 1
    /\ \A i \in DOMAIN log : longer[i] = log[i]

LEMMA ExtendsDomain ==
    ASSUME NEW log, NEW longer, Extends(log, longer)
    PROVE  /\ Len(log) \in Nat
           /\ DOMAIN log = 1..Len(log)
           /\ DOMAIN longer = 1..(Len(log) + 1)
           /\ \A i \in DOMAIN log : i \in DOMAIN longer
BY DEF Extends

LEMMA AppendExtends ==
    ASSUME NEW log \in Seq(Entry), NEW row \in Entry
    PROVE  /\ Extends(log, Append(log, row))
           /\ Append(log, row)[Len(log) + 1] = row
BY DEF Extends

\* What holds of a row holds of it for ever.
LEMMA RowStable ==
    ASSUME NEW log, NEW longer, Extends(log, longer),
           NEW v \in DOMAIN log, RowSound(log, v)
    PROVE  RowSound(longer, v)
<1>1. v \in 1..Len(log) /\ Len(log) \in Nat /\ DOMAIN log = 1..Len(log)
  BY ExtendsDomain
<1>2. log[v].source \in DOMAIN log
  BY <1>1 DEF RowSound
<1>3. longer[v] = log[v] /\ longer[log[v].source] = log[log[v].source]
  BY <1>2 DEF Extends
<1> QED
  BY <1>3 DEF RowSound

LEMMA RestoresStable ==
    ASSUME NEW log, NEW longer, Extends(log, longer), NEW last, NEW row \in Entry,
           last \in DOMAIN log => RowSound(log, last),
           RestoresPredecessor(log, last, row)
    PROVE  RestoresPredecessor(longer, last, row)
<1>1. last \in DOMAIN log /\ row.source \in DOMAIN log
  BY DEF RestoresPredecessor
<1>2. /\ longer[last] = log[last]
      /\ longer[row.source] = log[row.source]
      /\ last \in DOMAIN longer
      /\ row.source \in DOMAIN longer
  BY <1>1, ExtendsDomain DEF Extends
<1>3. ASSUME NEW k \in DOMAIN longer,
             longer[k].action = "PUBLISHED",
             longer[k].target = "java-extension"
      PROVE  k <= row.source \/ longer[last].source <= k
  <2>1. CASE k \in DOMAIN log
    BY <1>2, <1>3, <2>1 DEF Extends, RestoresPredecessor
  <2>2. CASE k \notin DOMAIN log
    <3>1. k = Len(log) + 1 /\ Len(log) \in Nat /\ last \in 1..Len(log)
      BY <1>1, <2>2, ExtendsDomain
    <3>2. log[last].source \in 1..last
      BY <1>1 DEF RowSound
    <3> QED
      BY <1>2, <3>1, <3>2
  <2> QED
    BY <2>1, <2>2
<1> QED
  BY <1>1, <1>2, <1>3 DEF RestoresPredecessor

LEMMA ClosesStable ==
    ASSUME NEW log, NEW longer, Extends(log, longer), NEW last, NEW row,
           ClosesRow(log, last, row)
    PROVE  ClosesRow(longer, last, row)
<1>1. last \in DOMAIN log /\ longer[last] = log[last] /\ last \in DOMAIN longer
  BY ExtendsDomain DEF ClosesRow, Extends
<1> QED
  BY <1>1 DEF ClosesRow

LEMMA DraftStable ==
    ASSUME NEW log, NEW longer, Extends(log, longer),
           \A v \in DOMAIN log : RowSound(log, v),
           NEW draft \in Entry, NEW expected,
           DraftSound(log, draft, expected)
    PROVE  DraftSound(longer, draft, expected)
<1>1. draft.action # "PUBLISHED" =>
          /\ draft.source \in DOMAIN longer
          /\ longer[draft.source] = log[draft.source]
  BY ExtendsDomain DEF DraftSound, Extends
<1>2. draft.action = "ROLLBACK" /\ draft.target = "java-extension" =>
          expected > 0 /\ RestoresPredecessor(longer, expected, draft)
  BY RestoresStable DEF DraftSound
<1>3. draft.action = "DEACTIVATED" =>
          expected > 0 /\ ClosesRow(longer, expected, draft)
  BY ClosesStable DEF DraftSound
<1> QED
  BY <1>1, <1>2, <1>3 DEF DraftSound


\* The row a request inserts keeps what its draft promised.
LEMMA RowFields ==
    ASSUME TypeOK, NEW request \in Saving
    PROVE  /\ Row(request).action = request.draft.action
           /\ Row(request).target = request.draft.target
           /\ Row(request).body = request.draft.body
           /\ Row(request).active = request.draft.active
           /\ Row(request).version = Len(journal[request.id]) + 1
           /\ request.draft.action = "PUBLISHED"
                => Row(request).source = Len(journal[request.id]) + 1
           /\ request.draft.action # "PUBLISHED"
                => Row(request).source = request.draft.source
           /\ request.draft.action # "PUBLISHED"
                => Row(request) = [request.draft EXCEPT
                                     !.version = Len(journal[request.id]) + 1]
<1>1. request.draft \in Entry
  BY DEF Saving
<1> QED
  BY <1>1 DEF Row, Entry

LEMMA InsertExtends ==
    ASSUME TypeOK, NEW request \in Saving, Insert(request)
    PROVE  /\ request.id \in Ids
           /\ journal[request.id] \in Seq(Entry)
           /\ journal'[request.id] = Append(journal[request.id], Row(request))
           /\ Extends(journal[request.id], journal'[request.id])
           /\ journal'[request.id][Len(journal[request.id]) + 1] = Row(request)
           /\ DOMAIN journal'[request.id]
                 = DOMAIN journal[request.id] \cup {Len(journal[request.id]) + 1}
           /\ \A id \in Ids \ {request.id} : journal'[id] = journal[id]
<1>1. request.id \in Ids /\ journal[request.id] \in Seq(Entry)
  BY DEF TypeOK, Saving
<1>2. Row(request) \in Entry
  BY RowType
<1>3. /\ journal'[request.id] = Append(journal[request.id], Row(request))
      /\ \A id \in Ids \ {request.id} : journal'[id] = journal[id]
  BY <1>1 DEF Insert, TypeOK
<1>4. /\ Extends(journal[request.id], journal'[request.id])
      /\ journal'[request.id][Len(journal[request.id]) + 1] = Row(request)
  BY <1>1, <1>2, <1>3, AppendExtends
<1>5. DOMAIN journal'[request.id]
        = DOMAIN journal[request.id] \cup {Len(journal[request.id]) + 1}
  BY <1>4, ExtendsDomain
<1> QED
  BY <1>1, <1>3, <1>4, <1>5

LEMMA InsertRowSound ==
    ASSUME TypeOK, NEW request \in Saving, Insert(request),
           DraftSound(journal[request.id], request.draft, request.expected)
    PROVE  RowSound(journal'[request.id], Len(journal[request.id]) + 1)
<1> DEFINE log    == journal[request.id]
           longer == journal'[request.id]
           row    == Row(request)
           v      == Len(log) + 1
<1>1. Extends(log, longer) /\ longer[v] = row /\ v \in Nat \ {0}
      /\ DOMAIN log = 1..(v-1)
  BY InsertExtends, ExtendsDomain DEF Extends
<1>2. CASE request.draft.action = "PUBLISHED"
  <2>1. request.draft.active
    BY <1>2 DEF DraftSound
  <2> QED
    BY <1>1, <1>2, <2>1, RowFields DEF RowSound
<1>3. CASE request.draft.action # "PUBLISHED"
  <2>1. row.source \in DOMAIN log /\ longer[row.source] = log[row.source]
    BY <1>1, <1>3, RowFields DEF DraftSound, Extends
  <2>2. row.source \in 1..v
    BY <1>1, <2>1
  <2>3. /\ log[row.source].action = "PUBLISHED"
        /\ log[row.source].target = row.target
        /\ log[row.source].body = row.body
    BY <1>3, RowFields DEF DraftSound
  <2>4. row.active <=> row.action # "DEACTIVATED"
    BY RowFields DEF DraftSound
  <2> QED
    BY <1>1, <1>3, <2>1, <2>2, <2>3, <2>4, RowFields DEF RowSound
<1> QED
  BY <1>2, <1>3

LEMMA InsertSound ==
    ASSUME LineageInv, NEW request \in Saving, Insert(request), ~ Stale(request),
           DraftSound(journal[request.id], request.draft, request.expected)
    PROVE  /\ JournalSound'
           /\ LineageSound'
           /\ \A other \in Saving :
                DraftSound(journal[other.id], other.draft, other.expected)
                => DraftSound(journal'[other.id], other.draft, other.expected)
<1> DEFINE log    == journal[request.id]
           longer == journal'[request.id]
           row    == Row(request)
           new    == Len(log) + 1
<1> USE DEF LineageInv
<1>1. /\ request.id \in Ids
      /\ log \in Seq(Entry)
      /\ Extends(log, longer)
      /\ longer[new] = row
      /\ DOMAIN longer = DOMAIN log \cup {new}
      /\ \A id \in Ids \ {request.id} : journal'[id] = journal[id]
  BY InsertExtends
<1>2. \A v \in DOMAIN log : RowSound(log, v)
  BY <1>1 DEF JournalSound
<1>3. JournalSound'
  <2> SUFFICES ASSUME NEW id \in Ids, NEW v \in DOMAIN journal'[id]
               PROVE  RowSound(journal'[id], v)
    BY DEF JournalSound
  <2>1. CASE id # request.id
    BY <1>1, <2>1 DEF JournalSound
  <2>2. CASE id = request.id /\ v \in DOMAIN log
    BY <1>1, <1>2, <2>2, RowStable
  <2>3. CASE id = request.id /\ v = new
    BY <2>3, InsertRowSound
  <2> QED
    BY <1>1, <2>1, <2>2, <2>3
<1>4. LineageSound'
  <2> SUFFICES ASSUME NEW id \in Ids, NEW v \in DOMAIN journal'[id]
               PROVE  /\ /\ journal'[id][v].action = "ROLLBACK"
                         /\ journal'[id][v].target = "java-extension"
                         => RestoresPredecessor(journal'[id], v - 1, journal'[id][v])
                      /\ journal'[id][v].action = "DEACTIVATED"
                         => ClosesRow(journal'[id], v - 1, journal'[id][v])
    BY DEF LineageSound
  <2>1. CASE id # request.id
    BY <1>1, <2>1 DEF LineageSound
  <2>2. CASE id = request.id /\ v \in DOMAIN log
    <3>1. longer[v] = log[v] /\ log[v] \in Entry
      BY <1>1, <2>2 DEF Extends
    <3>2. v - 1 \in DOMAIN log => RowSound(log, v - 1)
      BY <1>2
    <3>3. log[v].action = "ROLLBACK" /\ log[v].target = "java-extension"
            => RestoresPredecessor(longer, v - 1, log[v])
      BY <1>1, <2>2, <3>1, <3>2, RestoresStable DEF LineageSound
    <3>4. log[v].action = "DEACTIVATED" => ClosesRow(longer, v - 1, log[v])
      BY <1>1, <2>2, <3>1, ClosesStable DEF LineageSound
    <3> QED
      BY <2>2, <3>1, <3>3, <3>4
  <2>3. CASE id = request.id /\ v = new
    <3>1. Len(log) \in Nat /\ v - 1 = Len(log) /\ row \in Entry
      BY <1>1, <2>3, ExtendsDomain, RowType
    <3>2. request.expected > 0 => v - 1 = request.expected
      BY <3>1 DEF Stale
    <3>3. v - 1 \in DOMAIN log => RowSound(log, v - 1)
      BY <1>2
    <3>4. row.action = "ROLLBACK" /\ row.target = "java-extension"
            => RestoresPredecessor(longer, v - 1, row)
      <4> SUFFICES ASSUME row.action = "ROLLBACK", row.target = "java-extension"
                   PROVE  RestoresPredecessor(longer, v - 1, row)
        OBVIOUS
      <4>1. RestoresPredecessor(log, v - 1, request.draft)
        BY <3>2, RowFields DEF DraftSound
      <4>2. RestoresPredecessor(log, v - 1, row)
        BY <4>1, RowFields DEF RestoresPredecessor
      <4> QED
        BY <1>1, <3>1, <3>3, <4>2, RestoresStable
    <3>5. row.action = "DEACTIVATED" => ClosesRow(longer, v - 1, row)
      <4> SUFFICES ASSUME row.action = "DEACTIVATED"
                   PROVE  ClosesRow(longer, v - 1, row)
        OBVIOUS
      <4>1. ClosesRow(log, v - 1, request.draft)
        BY <3>2, RowFields DEF DraftSound
      <4>2. row = [request.draft EXCEPT !.version = new] /\ row.version = new
        BY RowFields
      <4>3. log[v - 1] \in Entry
        BY <1>1, <4>1 DEF ClosesRow
      <4>4. row = [Deactivated(log[v - 1]) EXCEPT !.version = row.version]
        BY <4>1, <4>2, <4>3 DEF ClosesRow, Deactivated, Entry
      <4>5. ClosesRow(log, v - 1, row)
        BY <4>1, <4>4 DEF ClosesRow
      <4> QED
        BY <1>1, <4>5, ClosesStable
    <3> QED
      BY <1>1, <2>3, <3>4, <3>5
  <2> QED
    BY <1>1, <2>1, <2>2, <2>3
<1>5. ASSUME NEW other \in Saving,
             DraftSound(journal[other.id], other.draft, other.expected)
      PROVE  DraftSound(journal'[other.id], other.draft, other.expected)
  <2>1. other.id \in Ids /\ other.draft \in Entry
    BY DEF Saving
  <2>2. CASE other.id # request.id
    BY <1>1, <1>5, <2>1, <2>2
  <2>3. CASE other.id = request.id
    BY <1>1, <1>2, <1>5, <2>1, <2>3, DraftStable
  <2> QED
    BY <2>2, <2>3
<1> QED
  BY <1>3, <1>4, <1>5


\* A new request whose draft is sound for the journal as it stands.
LEMMA PrepareSound ==
    ASSUME LineageInv, NEW h \in Handlers, NEW id \in Ids, NEW step, NEW draft,
           NEW expected, Prepare(h, step, id, draft, expected),
           UNCHANGED journal, DraftSound(journal[id], draft, expected)
    PROVE  JournalSound' /\ DraftsSound' /\ LineageSound'
<1>1. JournalSound' /\ LineageSound'
  BY DEF LineageInv, JournalSound, LineageSound
<1>2. ASSUME NEW g \in Handlers,
             handler'[g].step \in {"admission", "transition", "commit"}
      PROVE  DraftSound(journal'[handler'[g].id], handler'[g].draft,
                        handler'[g].expected)
  <2>1. CASE g = h
    BY <2>1 DEF Prepare, LineageInv, TypeOK
  <2>2. CASE g # h
    BY <1>2, <2>2 DEF Prepare, LineageInv, TypeOK, DraftsSound
  <2> QED
    BY <2>1, <2>2
<1> QED
  BY <1>1, <1>2 DEF DraftsSound

\* A step that inserts no row and leaves every draft as it was, or ends the
\* request.
LEMMA QuietSound ==
    ASSUME LineageInv, UNCHANGED journal,
           \A g \in Handlers :
               handler'[g].step \in {"admission", "transition", "commit"} =>
                   /\ handler[g].step \in {"admission", "transition", "commit"}
                   /\ handler'[g].id = handler[g].id
                   /\ handler'[g].draft = handler[g].draft
                   /\ handler'[g].expected = handler[g].expected
    PROVE  JournalSound' /\ DraftsSound' /\ LineageSound'
BY DEF LineageInv, JournalSound, LineageSound, DraftsSound

LEMMA ReplySound ==
    ASSUME LineageInv, NEW h \in Handlers, Reply(h), UNCHANGED journal
    PROVE  JournalSound' /\ DraftsSound' /\ LineageSound'
<1>1. \A g \in Handlers : handler'[g] = handler[g] \/ handler'[g].step = "idle"
  BY DEF Reply, LineageInv, TypeOK, Idle
<1> QED
  BY <1>1, QuietSound

\* A row inserted by a request that leaves the commit step.
LEMMA CommitSound ==
    ASSUME LineageInv, NEW h \in Handlers, handler[h].step = "commit",
           ~ Stale(handler[h]), Insert(handler[h]),
           handler'[h].step \notin {"admission", "transition", "commit"},
           \A g \in Handlers \ {h} : handler'[g] = handler[g]
    PROVE  JournalSound' /\ DraftsSound' /\ LineageSound'
<1>1. handler[h] \in Saving
  BY StepKinds DEF LineageInv
<1>2. DraftSound(journal[handler[h].id], handler[h].draft, handler[h].expected)
  BY DEF LineageInv, DraftsSound
<1>3. /\ JournalSound'
      /\ LineageSound'
      /\ \A other \in Saving :
           DraftSound(journal[other.id], other.draft, other.expected)
           => DraftSound(journal'[other.id], other.draft, other.expected)
  BY <1>1, <1>2, InsertSound
<1>4. ASSUME NEW g \in Handlers,
             handler'[g].step \in {"admission", "transition", "commit"}
      PROVE  DraftSound(journal'[handler'[g].id], handler'[g].draft,
                        handler'[g].expected)
  <2>1. g # h /\ handler'[g] = handler[g]
    BY <1>4
  <2>2. handler[g] \in Saving
    BY <1>4, <2>1, StepKinds DEF LineageInv
  <2>3. DraftSound(journal[handler[g].id], handler[g].draft, handler[g].expected)
    BY <1>4, <2>1 DEF LineageInv, DraftsSound
  <2> QED
    BY <1>3, <2>1, <2>2, <2>3
<1> QED
  BY <1>3, <1>4 DEF DraftsSound

LEMMA LineageInit == Init => LineageInv
<1> SUFFICES ASSUME Init PROVE LineageInv
  OBVIOUS
<1>1. TypeOK
  BY TypeInit
<1>2. \A id \in Ids : DOMAIN journal[id] = {}
  BY DEF Init
<1>3. DraftsSound
  BY DEF Init, Idle, DraftsSound
<1> QED
  BY <1>1, <1>2, <1>3 DEF LineageInv, JournalSound, LineageSound

LEMMA LineageNext == LineageInv /\ [Next]_vars => LineageInv'
<1> SUFFICES ASSUME LineageInv, [Next]_vars
             PROVE  LineageInv'
  OBVIOUS
<1> USE DEF persistent
<1>0. TypeOK' /\ TypeOK
  BY TypeNext DEF LineageInv
<1> SUFFICES JournalSound' /\ DraftsSound' /\ LineageSound'
  BY <1>0 DEF LineageInv
<1>1. ASSUME NEW h \in Handlers, NEW id \in PolicyIds, NEW body \in PolicyBodies,
             PublishPolicy(h, id, body)
      PROVE  JournalSound' /\ DraftsSound' /\ LineageSound'
  <2>1. DraftSound(journal[id], Published("java-extension", body), 0)
    BY DEF DraftSound, Published
  <2> QED
    BY <1>1, <2>1, PrepareSound DEF PublishPolicy, Ids
<1>2. ASSUME NEW h \in Handlers, NEW id \in CollectorIds, NEW body \in CollectorBodies,
             PublishCollector(h, id, body)
      PROVE  JournalSound' /\ DraftsSound' /\ LineageSound'
  <2>1. DraftSound(journal[id], Published("collector", body), 0)
    BY DEF DraftSound, Published
  <2> QED
    BY <1>2, <2>1, PrepareSound DEF PublishCollector, Ids
<1>3. ASSUME NEW h \in Handlers, NEW id \in Ids, RollbackPolicy(h, id)
      PROVE  JournalSound' /\ DraftsSound' /\ LineageSound'
  <2> DEFINE log     == journal[id]
             current == Latest(log)
  <2>1. /\ log \in Seq(Entry)
        /\ log # <<>>
        /\ current.target = "java-extension"
        /\ IsActive(current)
    BY <1>0, <1>3 DEF RollbackPolicy, ActivePolicies, ActiveIn, TypeOK
  <2>2. /\ Len(log) \in DOMAIN log
        /\ Len(log) > 0
        /\ current = log[Len(log)]
        /\ current \in Entry
    BY <2>1, LatestInLog
  <2>3. RowSound(log, Len(log))
    BY <2>2 DEF LineageInv, JournalSound
  <2>4. current.version = Len(log)
    BY <2>2, <2>3 DEF RowSound
  <2>5. CASE Prepare(h, "commit", id, Deactivated(current), current.version)
    <3>1. Deactivated(current) = [Deactivated(current) EXCEPT
                                    !.version = Deactivated(current).version]
      BY <2>2, DeactivatedType DEF Entry
    <3>2. ClosesRow(log, current.version, Deactivated(current))
      BY <2>1, <2>2, <2>4, <3>1 DEF ClosesRow
    <3>3. /\ Deactivated(current).action = "DEACTIVATED"
          /\ ~ Deactivated(current).active
          /\ Deactivated(current).source = current.source
          /\ Deactivated(current).target = current.target
          /\ Deactivated(current).body = current.body
      BY <2>2 DEF Deactivated, Entry
    <3>4. /\ current.source \in DOMAIN log
          /\ log[current.source].action = "PUBLISHED"
          /\ log[current.source].target = current.target
          /\ log[current.source].body = current.body
      BY <2>1, <2>2, <2>3 DEF RowSound
    <3>5. DraftSound(log, Deactivated(current), current.version)
      BY <2>2, <2>4, <3>2, <3>3, <3>4 DEF DraftSound
    <3> QED
      BY <1>3, <2>5, <3>5, PrepareSound DEF RollbackPolicy
  <2>6. ASSUME NEW k \in Predecessors(id, current),
               Prepare(h, "transition", id,
                    [log[k] EXCEPT !.action = "ROLLBACK",
                                   !.active = TRUE,
                                   !.source = k],
                    current.version)
        PROVE  JournalSound' /\ DraftsSound' /\ LineageSound'
    <3> DEFINE draft == [log[k] EXCEPT !.action = "ROLLBACK",
                                       !.active = TRUE,
                                       !.source = k]
    <3>1. /\ k \in DOMAIN log
          /\ k < current.source
          /\ log[k].action = "PUBLISHED"
          /\ log[k].target = "java-extension"
          /\ \A j \in PublishedBefore(id, current.source) : j <= k
      BY DEF Predecessors, PublishedBefore
    <3>2. log[k] \in Entry
      BY <2>1, <3>1
    <3>3. /\ draft.action = "ROLLBACK"
          /\ draft.active
          /\ draft.source = k
          /\ draft.target = log[k].target
          /\ draft.body = log[k].body
      BY <3>2 DEF Entry
    <3>4. ASSUME NEW j \in DOMAIN log, log[j].action = "PUBLISHED",
                 log[j].target = "java-extension"
          PROVE  j <= k \/ current.source <= j
      <4>1. j \in Nat /\ current.source \in Nat
        BY <2>1, <2>2 DEF Entry
      <4>2. CASE j < current.source
        BY <3>1, <3>4, <4>2 DEF PublishedBefore
      <4> QED
        BY <4>1, <4>2
    <3>5. RestoresPredecessor(log, current.version, draft)
      BY <2>1, <2>2, <2>4, <3>1, <3>3, <3>4 DEF RestoresPredecessor
    <3>6. DraftSound(log, draft, current.version)
      BY <2>2, <2>4, <3>1, <3>3, <3>5 DEF DraftSound
    <3> QED
      BY <1>3, <2>6, <3>6, PrepareSound DEF RollbackPolicy
  <2> QED
    BY <1>3, <2>5, <2>6 DEF RollbackPolicy
<1>4. ASSUME NEW h \in Handlers, NEW id \in Ids, Deactivate(h, id)
      PROVE  JournalSound' /\ DraftsSound' /\ LineageSound'
  <2> DEFINE log     == journal[id]
             current == Latest(log)
  <2>1. log \in Seq(Entry) /\ log # <<>> /\ IsActive(current)
    BY <1>0, <1>4 DEF Deactivate, TypeOK
  <2>2. /\ Len(log) \in DOMAIN log
        /\ Len(log) > 0
        /\ current = log[Len(log)]
        /\ current \in Entry
    BY <2>1, LatestInLog
  <2>3. RowSound(log, Len(log)) /\ current.version = Len(log)
    BY <2>2 DEF LineageInv, JournalSound, RowSound
  <2>4. Deactivated(current) = [Deactivated(current) EXCEPT
                                  !.version = Deactivated(current).version]
    BY <2>2, DeactivatedType DEF Entry
  <2>5. ClosesRow(log, current.version, Deactivated(current))
    BY <2>1, <2>2, <2>3, <2>4 DEF ClosesRow
  <2>6. /\ Deactivated(current).action = "DEACTIVATED"
        /\ ~ Deactivated(current).active
        /\ Deactivated(current).source = current.source
        /\ Deactivated(current).target = current.target
        /\ Deactivated(current).body = current.body
    BY <2>2 DEF Deactivated, Entry
  <2>7. /\ current.source \in DOMAIN log
        /\ log[current.source].action = "PUBLISHED"
        /\ log[current.source].target = current.target
        /\ log[current.source].body = current.body
    BY <2>1, <2>2, <2>3 DEF RowSound
  <2>8. DraftSound(log, Deactivated(current), current.version)
    BY <2>2, <2>3, <2>5, <2>6, <2>7 DEF DraftSound
  <2> QED
    BY <1>4, <2>8, PrepareSound DEF Deactivate
<1>5. ASSUME NEW h \in Handlers, NEW id \in Ids, NEW version \in 1..MaxVersions,
             RollbackCollector(h, id, version)
      PROVE  JournalSound' /\ DraftsSound' /\ LineageSound'
  <2> DEFINE log   == journal[id]
             draft == [log[version] EXCEPT !.action = "ROLLBACK"]
  <2>1. /\ version \in DOMAIN log
        /\ log[version].target = "collector"
        /\ IsActive(log[version])
        /\ log \in Seq(Entry)
        /\ log[version] \in Entry
    BY <1>0, <1>5 DEF RollbackCollector, TypeOK
  <2>2. RowSound(log, version)
    BY <2>1 DEF LineageInv, JournalSound
  <2>3. /\ draft.action = "ROLLBACK"
        /\ draft.active = log[version].active
        /\ draft.source = log[version].source
        /\ draft.target = log[version].target
        /\ draft.body = log[version].body
    BY <2>1 DEF Entry
  <2>4. draft.active
    BY <2>1, <2>2, <2>3 DEF RowSound, IsActive
  <2>5. draft.source \in DOMAIN log
    BY <2>1, <2>2, <2>3 DEF RowSound
  <2>6. DraftSound(log, draft, 0)
    BY <2>1, <2>2, <2>3, <2>4, <2>5 DEF DraftSound, RowSound
  <2> QED
    BY <1>5, <2>6, PrepareSound DEF RollbackCollector
<1>6. ASSUME NEW h \in Handlers, NEW list \in SUBSET Sensitive, UpdateDenylist(h, list)
      PROVE  JournalSound' /\ DraftsSound' /\ LineageSound'
  <2>1. \A g \in Handlers : handler'[g] = handler[g] \/ handler'[g].step = "replace"
    BY <1>0, <1>6 DEF UpdateDenylist, TypeOK
  <2> QED
    BY <1>6, <2>1, QuietSound DEF UpdateDenylist
<1>7. ASSUME NEW h \in Handlers, AdmitPolicy(h) \/ AdmitTransition(h)
      PROVE  JournalSound' /\ DraftsSound' /\ LineageSound'
  <2>1. handler[h] \in Saving
    BY <1>0, <1>7, StepKinds DEF AdmitPolicy, AdmitTransition
  <2>2. \A g \in Handlers : /\ handler'[g].id = handler[g].id
                            /\ handler'[g].draft = handler[g].draft
                            /\ handler'[g].expected = handler[g].expected
                            /\ g # h => handler'[g] = handler[g]
    BY <1>0, <1>7, <2>1 DEF AdmitPolicy, AdmitTransition, TypeOK, Saving
  <2> QED
    BY <1>7, <2>2, QuietSound DEF AdmitPolicy, AdmitTransition
<1>8. ASSUME NEW h \in Handlers,
             RefusePolicy(h) \/ Conflict(h) \/ AbandonSave(h) \/ AppendToMemory(h)
             \/ ReplaceDenylist(h)
      PROVE  JournalSound' /\ DraftsSound' /\ LineageSound'
  BY <1>8, ReplySound DEF RefusePolicy, Conflict, AbandonSave, AppendToMemory,
     ReplaceDenylist
<1>9. ASSUME NEW h \in Handlers, Commit(h)
      PROVE  JournalSound' /\ DraftsSound' /\ LineageSound'
  <2>1. handler[h] \in Saving
    BY <1>0, <1>9, StepKinds DEF Commit
  <2>2. /\ handler'[h].step = "append"
        /\ \A g \in Handlers \ {h} : handler'[g] = handler[g]
    BY <1>0, <1>9, <2>1 DEF Commit, TypeOK, Saving
  <2> QED
    BY <1>9, <2>2, CommitSound DEF Commit
<1>10. ASSUME NEW h \in Handlers, CommitUnconfirmed(h)
       PROVE  JournalSound' /\ DraftsSound' /\ LineageSound'
  <2>1. /\ handler'[h].step = "idle"
        /\ \A g \in Handlers \ {h} : handler'[g] = handler[g]
    BY <1>0, <1>10 DEF CommitUnconfirmed, Reply, TypeOK, Idle
  <2> QED
    BY <1>10, <2>1, CommitSound DEF CommitUnconfirmed
<1>11. CASE Restart
  <2>1. \A g \in Handlers : handler'[g].step = "idle"
    BY <1>11 DEF Restart, Idle
  <2> QED
    BY <1>11, <2>1, QuietSound DEF Restart
<1>12. CASE UNCHANGED vars
  BY <1>12, QuietSound DEF vars
<1> QED
  BY <1>1, <1>2, <1>3, <1>4, <1>5, <1>6, <1>7, <1>8, <1>9, <1>10, <1>11, <1>12
     DEF Next, Start, AwaitAdmission, Proceed

\* However many handlers race, every rollback of a policy steps back once from
\* the active row it replaces and every deactivation closes the active row it
\* copies.
THEOREM LineageCorrect == Spec => []LineageSound
<1>1. Spec => []LineageInv
  BY LineageInit, LineageNext, PTL DEF Spec
<1>2. LineageInv => LineageSound
  BY DEF LineageInv
<1> QED
  BY <1>1, <1>2, PTL


-----------------------------------------------------------------------------
(* Refinement: the journal implements PolicyLifecycle.  Only the insertion   *)
(* of a row shows at that level, and LineageInv tells what it shows as.      *)

\* The refinement mapping, id by id.
Revisions(id) == {v \in DOMAIN journal[id] :
                    /\ journal[id][v].target = "java-extension"
                    /\ journal[id][v].action = "PUBLISHED"}
Serving(id) == IF id \in ActivePolicies(journal) THEN Latest(journal[id]).source ELSE 0

LEMMA MappingInit == Init => Lifecycle!Init
<1> SUFFICES ASSUME Init PROVE Lifecycle!Init
  OBVIOUS
<1>1. \A id \in Ids : journal[id] = <<>> /\ DOMAIN journal[id] = {}
  BY DEF Init
<1>2. \A id \in Ids : id \notin ActivePolicies(journal)
  BY <1>1 DEF ActivePolicies, ActiveIn
<1> QED
  BY <1>1, <1>2 DEF Lifecycle!Init

\* What the insertion of a row does to the mapping of its id.
LEMMA InsertMapping ==
    ASSUME LineageInv, LineageInv', NEW request \in Saving, Insert(request)
    PROVE  LET id  == request.id
               row == Row(request)
           IN  /\ row.target = "java-extension" /\ row.action = "PUBLISHED" =>
                     /\ Serving(id)' = Len(journal[id]) + 1
                     /\ Revisions(id)' = Revisions(id) \cup {Len(journal[id]) + 1}
               /\ ~ (row.target = "java-extension" /\ row.action = "PUBLISHED") =>
                     Revisions(id)' = Revisions(id)
               /\ row.target # "java-extension" \/ row.action = "DEACTIVATED" =>
                     Serving(id)' = 0
               /\ row.target = "java-extension" /\ row.action = "ROLLBACK" =>
                     /\ Serving(id)' = row.source
                     /\ RestoresPredecessor(journal[id], Len(journal[id]), row)
                     /\ Serving(id) = Latest(journal[id]).source
<1> DEFINE id     == request.id
           log    == journal[id]
           longer == journal'[id]
           row    == Row(request)
           new    == Len(log) + 1
<1>0. TypeOK /\ TypeOK'
  BY DEF LineageInv
<1>1. /\ id \in Ids
      /\ log \in Seq(Entry)
      /\ Extends(log, longer)
      /\ longer[new] = row
      /\ DOMAIN longer = DOMAIN log \cup {new}
  BY <1>0, InsertExtends
<1>2. /\ DOMAIN log = 1..Len(log) /\ Len(log) \in Nat
      /\ \A v \in DOMAIN log : longer[v] = log[v] /\ v # new
      /\ longer \in Seq(Entry) /\ longer # <<>> /\ Len(longer) = new
  BY <1>1, ExtendsDomain DEF Extends
<1>3. Latest(longer) = row
  BY <1>1, <1>2 DEF Latest
<1>4. RowSound(longer, new)
  BY <1>1, <1>2 DEF LineageInv, JournalSound
<1>5. (id \in ActivePolicies(journal))'
        <=> row.target = "java-extension" /\ row.action # "DEACTIVATED"
  BY <1>1, <1>2, <1>3, <1>4 DEF ActivePolicies, ActiveIn, IsActive, RowSound
<1>6. ASSUME row.target = "java-extension", row.action = "PUBLISHED"
      PROVE  /\ Serving(id)' = new
             /\ Revisions(id)' = Revisions(id) \cup {new}
  <2>1. Serving(id)' = new
    BY <1>1, <1>3, <1>4, <1>5, <1>6 DEF Serving, RowSound
  <2>2. Revisions(id)' = Revisions(id) \cup {new}
    BY <1>1, <1>2, <1>6 DEF Revisions
  <2> QED
    BY <2>1, <2>2
<1>7. ASSUME ~ (row.target = "java-extension" /\ row.action = "PUBLISHED")
      PROVE  Revisions(id)' = Revisions(id)
  BY <1>1, <1>2, <1>7 DEF Revisions
<1>8. ASSUME row.target # "java-extension" \/ row.action = "DEACTIVATED"
      PROVE  Serving(id)' = 0
  BY <1>5, <1>8 DEF Serving
<1>9. ASSUME row.target = "java-extension", row.action = "ROLLBACK"
      PROVE  /\ Serving(id)' = row.source
             /\ RestoresPredecessor(log, Len(log), row)
             /\ Serving(id) = Latest(log).source
  <2>1. Serving(id)' = row.source
    BY <1>3, <1>5, <1>9 DEF Serving
  <2>2. RestoresPredecessor(longer, new - 1, longer[new])
    BY <1>1, <1>2, <1>9 DEF LineageInv, LineageSound
  <2>3. new - 1 = Len(log) /\ longer[new] = row
    BY <1>1, <1>2
  <2>4. Len(log) \in DOMAIN longer /\ row.source \in DOMAIN longer
        /\ row.source < longer[Len(log)].source
    BY <2>2, <2>3 DEF RestoresPredecessor
  <2>5. Len(log) \in DOMAIN log /\ longer[Len(log)] = log[Len(log)]
    BY <1>2, <2>4
  <2>6. log[Len(log)].source \in 1..Len(log)
    BY <1>1, <2>5 DEF LineageInv, JournalSound, RowSound
  <2>7. row.source \in DOMAIN log /\ longer[row.source] = log[row.source]
    BY <1>2, <2>4, <2>5, <2>6
  <2>8. RestoresPredecessor(log, Len(log), row)
    BY <1>1, <1>2, <2>2, <2>3, <2>5, <2>7 DEF RestoresPredecessor
  <2>9. id \in ActivePolicies(journal) /\ log # <<>>
    BY <1>1, <1>2, <2>5, <2>8
       DEF ActivePolicies, ActiveIn, RestoresPredecessor, Latest
  <2> QED
    BY <2>1, <2>8, <2>9 DEF Serving
<1> QED
  BY <1>6, <1>7, <1>8, <1>9

\* Every inserted row is a step of the abstract lifecycle, or shows nothing of it.
LEMMA InsertRefines ==
    ASSUME LineageInv, LineageInv', NEW request \in Saving, Insert(request)
    PROVE  [Lifecycle!Next]_(Lifecycle!vars)
<1> DEFINE id        == request.id
           log       == journal[id]
           row       == Row(request)
           new       == Len(log) + 1
           published == [i \in Ids |-> Revisions(i)]
           inService == [i \in Ids |-> Serving(i)]
<1>0. id \in Ids /\ row \in Entry /\ log \in Seq(Entry) /\ Len(log) \in Nat
  BY RowType DEF LineageInv, TypeOK, Saving
<1>1. \A i \in Ids \ {id} : Revisions(i)' = Revisions(i) /\ Serving(i)' = Serving(i)
  <2>1. \A i \in Ids \ {id} : journal'[i] = journal[i]
    BY DEF LineageInv, TypeOK, Insert
  <2> QED
    BY <2>1 DEF Revisions, Serving, ActivePolicies, ActiveIn
<1>2. /\ published' = [published EXCEPT ![id] = Revisions(id)']
      /\ inService' = [inService EXCEPT ![id] = Serving(id)']
  BY <1>0, <1>1, Zenon
<1>3. CASE row.target = "java-extension" /\ row.action = "PUBLISHED"
  <2>1. Serving(id)' = new /\ Revisions(id)' = Revisions(id) \cup {new}
    BY <1>3, InsertMapping
  <2>2. \A r \in Revisions(id) : r < new
    BY <1>0 DEF Revisions
  <2>3. /\ inService'[id] = new
        /\ published[id] = Revisions(id)
        /\ published' = [published EXCEPT ![id] = @ \cup {new}]
        /\ inService' = [inService EXCEPT ![id] = new]
        /\ new \in Nat \ {0}
    <3>1. new \in Nat \ {0}
      BY <1>0
    <3>2. published[id] = Revisions(id) /\ inService'[id] = Serving(id)'
      BY <1>0
    <3> QED
      BY <1>2, <2>1, <3>1, <3>2, Zenon
  <2>4. Lifecycle!Publish(id)
    BY <2>2, <2>3 DEF Lifecycle!Publish, Revisions, Serving
  <2> QED
    BY <1>0, <2>4 DEF Lifecycle!Next
<1>4. CASE row.target = "java-extension" /\ row.action = "ROLLBACK"
  <2>1. /\ Serving(id)' = row.source
        /\ Revisions(id)' = Revisions(id)
        /\ RestoresPredecessor(log, Len(log), row)
        /\ Serving(id) = log[Len(log)].source
    BY <1>4, InsertMapping DEF Latest
  <2>2. /\ row.source \in Revisions(id)
        /\ row.source < Serving(id)
        /\ \A s \in Revisions(id) : s <= row.source \/ Serving(id) <= s
    BY <2>1 DEF RestoresPredecessor, Revisions
  <2>3. Serving(id) # 0
    BY <1>0, <2>2 DEF Entry
  <2>4. /\ published[id] = Revisions(id)
        /\ inService[id] = Serving(id)
        /\ published' = published
        /\ inService' = [inService EXCEPT ![id] = row.source]
    BY <1>0, <1>2, <2>1
  <2>5. /\ Serving(id) \in Nat
        /\ \A s \in Revisions(id) : s \in Nat
    <3>1. Len(log) \in DOMAIN log
      BY <2>1 DEF RestoresPredecessor
    <3>2. log[Len(log)] \in Entry
      BY <1>0, <3>1
    <3>3. log[Len(log)].source \in Nat
      BY <3>2 DEF Entry
    <3> QED
      BY <1>0, <2>1, <3>3 DEF Revisions
  <2>6. /\ inService[id] # 0
        /\ row.source \in published[id]
        /\ row.source < inService[id]
        /\ \A s \in published[id] : s < inService[id] => s <= row.source
    BY <1>0, <2>2, <2>3, <2>4, <2>5
  <2>7. Lifecycle!Rollback(id)
    BY <2>4, <2>6 DEF Lifecycle!Rollback, Lifecycle!Earlier, Revisions, Serving
  <2> QED
    BY <1>0, <2>7 DEF Lifecycle!Next
<1>5. CASE row.target # "java-extension" \/ row.action = "DEACTIVATED"
  <2>1. Serving(id)' = 0 /\ Revisions(id)' = Revisions(id)
    BY <1>5, InsertMapping
  <2>2. /\ inService[id] = Serving(id)
        /\ published' = published
        /\ inService' = [inService EXCEPT ![id] = 0]
    BY <1>0, <1>2, <2>1
  <2>3. CASE Serving(id) = 0
    <3>1. published' = published /\ inService' = inService
      BY <1>0, <1>1, <2>1, <2>3
    <3> QED
      BY <3>1 DEF Lifecycle!vars, Revisions, Serving
  <2>4. CASE Serving(id) # 0
    <3>1. Lifecycle!Withdraw(id)
      BY <2>2, <2>4 DEF Lifecycle!Withdraw, Revisions, Serving
    <3> QED
      BY <1>0, <3>1 DEF Lifecycle!Next
  <2> QED
    BY <2>3, <2>4
<1> QED
  BY <1>0, <1>3, <1>4, <1>5 DEF Entry, Changes

LEMMA StepRefines ==
    LineageInv /\ LineageInv' /\ [Next]_vars => [Lifecycle!Next]_(Lifecycle!vars)
<1> SUFFICES ASSUME LineageInv, LineageInv', [Next]_vars
             PROVE  [Lifecycle!Next]_(Lifecycle!vars)
  OBVIOUS
<1>1. ASSUME NEW h \in Handlers, Commit(h) \/ CommitUnconfirmed(h)
      PROVE  [Lifecycle!Next]_(Lifecycle!vars)
  <2>1. handler[h] \in Saving /\ Insert(handler[h])
    BY <1>1, StepKinds DEF Commit, CommitUnconfirmed, LineageInv
  <2> QED
    BY <2>1, InsertRefines
<1>2. CASE UNCHANGED journal
  BY <1>2 DEF Lifecycle!vars, ActivePolicies, ActiveIn
<1>3. UNCHANGED journal \/ \E h \in Handlers : Commit(h) \/ CommitUnconfirmed(h)
  BY DEF Next, vars, persistent, Start, AwaitAdmission, Proceed, PublishPolicy,
     PublishCollector, RollbackPolicy, Deactivate, RollbackCollector, UpdateDenylist,
     AdmitPolicy, AdmitTransition, RefusePolicy, Conflict, AbandonSave,
     AppendToMemory, ReplaceDenylist, Restart
<1> QED
  BY <1>1, <1>2, <1>3

\* The journal, with its races, lost replies and restarts, implements the atomic
\* lifecycle of PolicyLifecycle: no rollback or withdrawal ever acts on a
\* revision another request has replaced meanwhile.
THEOREM JournalImplementsLifecycle == Spec => ImplementsLifecycle
<1>1. Spec => []LineageInv
  BY LineageInit, LineageNext, PTL DEF Spec
<1> QED
  BY <1>1, MappingInit, StepRefines, PTL DEF Spec, ImplementsLifecycle, Lifecycle!Spec

-----------------------------------------------------------------------------
(* Memory against the journal, and the checks made against memory.           *)
(*                                                                           *)
(* Every check of an admission reads memory, and the row is committed later. *)
(* What makes it sound: between the two the request owns policyLifecycleMu   *)
(* (LocksSound), so no other Java row is added or on its way to memory; and  *)
(* memory holds every Java row but those on their way and those whose        *)
(* handler never learned of them (RowsKnown), in order (MemoryAscends).      *)
(* AdmissionInv is what the checks established, said of the journal, and     *)
(* true until the row is committed.                                          *)

JavaRow(row) == row.target = "java-extension"

\* The steps at which a request has a row to add.
SavingSteps == {"admission", "transition", "commit", "append"}

\* What a request at each step holds.
LocksSound ==
    /\ \A h \in Handlers :
          /\ handler[h].step \in SavingSteps /\ JavaRow(handler[h].draft) => lifecycleMu = h
          /\ handler[h].step = "admission" =>
                JavaRow(handler[h].draft) /\ handler[h].draft.action = "PUBLISHED"
          /\ handler[h].step = "transition" =>
                JavaRow(handler[h].draft) /\ handler[h].draft.action = "ROLLBACK"
          /\ /\ handler[h].step \in {"commit", "append"}
             /\ JavaRow(handler[h].draft)
             /\ handler[h].draft.action = "PUBLISHED"
             => h \in securityReaders
          /\ handler[h].step = "replace" => securityWriter = h
    /\ securityWriter # NoHandler => securityReaders = {}

\* A row that is what the journal has under its version.
OfJournal(id, row) ==
    row.version \in DOMAIN journal[id] /\ row = journal[id][row.version]

\* Memory, and a request about to append to it, have no row but the journal's.
RowsOfJournal ==
    /\ \A id \in Ids : \A i \in DOMAIN configs[id] : OfJournal(id, configs[id][i])
    /\ \A h \in Handlers :
          handler[h].step = "append" => OfJournal(handler[h].id, handler[h].draft)

\* Where a row of the journal is: lost to its handler, in its hands, or in memory.
Known(id, v) ==
    \/ v \in unconfirmed[id]
    \/ InFlight(id, v)
    \/ \E i \in DOMAIN configs[id] : configs[id][i] = journal[id][v]

RowsKnown == \A id \in Ids : \A v \in DOMAIN journal[id] : Known(id, v)

Ascending(log) == \A i, j \in DOMAIN log : i < j => log[i].version < log[j].version

MemoryAscends ==
    \A id \in Ids : JavaOnly(id) =>
        /\ Ascending(configs[id])
        /\ \A h \in Handlers : handler[h].step = "append" /\ handler[h].id = id =>
              \A i \in DOMAIN configs[id] : configs[id][i].version < handler[h].draft.version

MemoryInv == LocksSound /\ RowsOfJournal /\ RowsKnown /\ MemoryAscends

\* Finitely many ids have rows, however many there are: the counts are numbers.
Written == {id \in Ids : journal[id] # <<>>}

ActiveGoverned == {id \in ActivePolicies(journal) : Governed(id)}

\* A Java policy past its checks.
JavaCommit(h) == handler[h].step = "commit" /\ JavaRow(handler[h].draft)

\* What the checks of an admission said, in terms of the journal: the metric names,
\* the rules, the size of the set, the denylist.
MetricsApart(id, body) ==
    \A other \in Ids \ {id} : Settled(other) =>
        \A j \in DOMAIN journal[other] : JavaRow(journal[other][j]) =>
            MetricsOf[body] \cap MetricsOf[journal[other][j].body] = {}

MetricsReady ==
    \A h \in Handlers : JavaCommit(h) /\ Settled(handler[h].id) =>
        MetricsApart(handler[h].id, handler[h].draft.body)

RulesApart(id, body) ==
    \A other \in ActiveGoverned \ {id} :
        RulesOf[Latest(journal[other]).body] \cap RulesOf[body] = {}

ComposeReady ==
    \A h \in Handlers : JavaCommit(h) /\ IsActive(handler[h].draft) =>
        /\ Cardinality(ActiveGoverned \cup {handler[h].id}) <= MaxPoliciesPerSet
        /\ RulesApart(handler[h].id, handler[h].draft.body)

PublicationsBreak(list) ==
    \E id \in ActiveGoverned :
        Latest(journal[id]).action = "PUBLISHED" /\ BreaksDenylist(Latest(journal[id]).body, list)

DenylistReady ==
    \A h \in Handlers :
        /\ JavaCommit(h) /\ handler[h].draft.action = "PUBLISHED"
              => ~BreaksDenylist(handler[h].draft.body, denylist)
        /\ handler[h].step = "replace" => ~PublicationsBreak(handler[h].proposed)

AdmissionInv ==
    /\ IsFiniteSet(Written)
    /\ MetricsReady /\ ComposeReady /\ DenylistReady

-----------------------------------------------------------------------------
(* What a step does to the mutexes and to the requests.                      *)

LEMMA LocksInit == Init => LocksSound
BY DEF Init, LocksSound, SavingSteps, Idle

\* Requests other than h are left alone, and so are the mutexes they hold.
LEMMA LocksPrepare ==
    ASSUME TypeOK, LocksSound, NEW h \in Handlers, NEW id \in Ids, NEW draft \in Entry,
           NEW step \in {"admission", "transition", "commit"}, NEW expected \in Nat,
           Prepare(h, step, id, draft, expected),
           JavaRow(draft) => LockLifecycle(h),
           LockLifecycle(h) \/ UNCHANGED mutexes,
           step = "admission" => JavaRow(draft) /\ draft.action = "PUBLISHED",
           step = "transition" => JavaRow(draft) /\ draft.action = "ROLLBACK",
           step = "commit" => ~(JavaRow(draft) /\ draft.action = "PUBLISHED")
    PROVE  LocksSound'
<1>1. /\ handler' \in [Handlers -> {Idle} \cup Saving \cup Screening]
      /\ handler'[h] = [step |-> step, id |-> id, draft |-> draft, expected |-> expected]
      /\ \A g \in Handlers \ {h} : handler'[g] = handler[g]
  BY PrepareType DEF Prepare, TypeOK
<1>2. securityReaders' = securityReaders /\ securityWriter' = securityWriter
  BY DEF LockLifecycle, mutexes
<1>3. ASSUME NEW g \in Handlers, handler[g].step \in SavingSteps, JavaRow(handler[g].draft), g # h
      PROVE  lifecycleMu' = g
  BY <1>3, HandlerAssumption DEF LocksSound, LockLifecycle, LifecycleAvailable, mutexes
<1>4. /\ JavaRow(draft) => lifecycleMu' = h
      /\ handler'[h].step = step /\ handler'[h].draft = draft
  BY <1>1 DEF LockLifecycle
<1> QED
  BY <1>1, <1>2, <1>3, <1>4 DEF LocksSound, SavingSteps

\* A request that ends gives back what it holds and nothing else.
LEMMA LocksReply ==
    ASSUME TypeOK, LocksSound, NEW h \in Handlers, Reply(h)
    PROVE  /\ LocksSound'
           /\ handler'[h] = Idle
           /\ \A g \in Handlers \ {h} : handler'[g] = handler[g]
<1>1. /\ handler'[h] = Idle
      /\ \A g \in Handlers \ {h} : handler'[g] = handler[g]
  BY DEF Reply, TypeOK
<1>2. \A g \in Handlers \ {h} : lifecycleMu = g => lifecycleMu' = g
  BY DEF Reply, Release
<1>3. /\ \A g \in Handlers \ {h} : g \in securityReaders => g \in securityReaders'
      /\ securityReaders' \subseteq securityReaders
  BY DEF Reply, Release
<1>4. /\ \A g \in Handlers \ {h} : securityWriter = g => securityWriter' = g
      /\ securityWriter' # NoHandler => securityWriter # NoHandler
  BY DEF Reply, Release
<1>5. handler'[h].step = "idle"
  BY <1>1 DEF Idle
<1> QED
  BY <1>1, <1>2, <1>3, <1>4, <1>5 DEF LocksSound, SavingSteps

\* A policy that passed its checks.
Admitted(g) ==
    /\ handler[g].step \in {"admission", "transition"}
    /\ handler' = [handler EXCEPT ![g].step = "commit"]
    /\ PolicyAccepted(handler[g].id, handler[g].draft.body)

\* A request to take the last row of its id out of service.
Closing(g) ==
    LET log == journal[handler'[g].id]
    IN  log # <<>> /\ IsActive(Latest(log)) /\ handler'[g].draft = Deactivated(Latest(log))

\* A step that neither commits a row nor appends one.
OtherStep ==
    /\ UNCHANGED <<journal, configs, unconfirmed>>
    /\ \A g \in Handlers :
          /\ handler[g].step = "append" \/ handler'[g].step = "append"
                => handler'[g] = handler[g]
          /\ JavaCommit(g)' => handler'[g] = handler[g] \/ Admitted(g) \/ Closing(g)
          /\ handler'[g].step = "replace"
                => handler'[g] = handler[g] \/ UpdateDenylist(g, handler'[g].proposed)
    /\ denylist' = denylist \/ \E g \in Handlers : ReplaceDenylist(g)

LEMMA OtherPrepare ==
    ASSUME TypeOK, NEW h \in Handlers, NEW id \in Ids, NEW draft, handler[h] = Idle,
           NEW step \in {"admission", "transition", "commit"}, NEW expected,
           Prepare(h, step, id, draft, expected),
           UNCHANGED <<persistent, configs, unconfirmed>>,
           step = "commit" /\ JavaRow(draft) =>
                /\ journal[id] # <<>>
                /\ IsActive(Latest(journal[id]))
                /\ draft = Deactivated(Latest(journal[id]))
    PROVE  OtherStep
<1>1. /\ handler'[h] = [step |-> step, id |-> id, draft |-> draft, expected |-> expected]
      /\ \A g \in Handlers \ {h} : handler'[g] = handler[g]
  BY DEF Prepare, TypeOK
<1>2. handler[h].step = "idle"
  BY DEF Idle
<1>3. JavaCommit(h)' => Closing(h)
  BY <1>1 DEF JavaCommit, Closing
<1> QED
  BY <1>1, <1>2, <1>3 DEF OtherStep, persistent

LEMMA OtherReply ==
    ASSUME TypeOK, NEW h \in Handlers, Reply(h), handler[h].step # "append",
           UNCHANGED <<journal, configs, unconfirmed>>,
           denylist' = denylist \/ ReplaceDenylist(h)
    PROVE  OtherStep
<1>1. /\ handler'[h].step = "idle"
      /\ \A g \in Handlers \ {h} : handler'[g] = handler[g]
  BY DEF Reply, TypeOK, Idle
<1> QED
  BY <1>1 DEF OtherStep, JavaCommit

\* What a step of the control plane amounts to, and that the mutexes guard it.
LEMMA StepCases ==
    ASSUME LineageInv, LocksSound, [Next]_vars
    PROVE  /\ LocksSound'
           /\ \/ \E h \in Handlers : Commit(h) \/ CommitUnconfirmed(h) \/ AppendToMemory(h)
              \/ Restart
              \/ OtherStep
<1> DEFINE Case == \/ \E h \in Handlers : Commit(h) \/ CommitUnconfirmed(h) \/ AppendToMemory(h)
                   \/ Restart
                   \/ OtherStep
<1> SUFFICES LocksSound' /\ Case
  OBVIOUS
<1>0. TypeOK /\ TypeOK'
  BY TypeNext DEF LineageInv
<1>1. ASSUME NEW h \in Handlers, NEW id \in PolicyIds, NEW body \in PolicyBodies,
             PublishPolicy(h, id, body)
      PROVE  LocksSound' /\ Case
  <2> DEFINE draft == Published("java-extension", body)
  <2>1. draft \in Entry /\ JavaRow(draft) /\ draft.action = "PUBLISHED" /\ id \in Ids
    BY PublishedType DEF Bodies, Targets, Published, JavaRow, Ids
  <2>2. Prepare(h, "admission", id, draft, 0) /\ LockLifecycle(h) /\ handler[h] = Idle
    BY <1>1 DEF PublishPolicy, CanStart
  <2>3. LocksSound'
    BY <1>0, <2>1, <2>2, LocksPrepare
  <2>4. OtherStep
    BY <1>0, <1>1, <2>1, <2>2, OtherPrepare DEF PublishPolicy
  <2> QED
    BY <2>3, <2>4
<1>2. ASSUME NEW h \in Handlers, NEW id \in CollectorIds, NEW body \in CollectorBodies,
             PublishCollector(h, id, body)
      PROVE  LocksSound' /\ Case
  <2> DEFINE draft == Published("collector", body)
  <2>1. draft \in Entry /\ ~JavaRow(draft) /\ id \in Ids
    BY PublishedType DEF Bodies, Targets, Published, JavaRow, Ids
  <2>2. Prepare(h, "commit", id, draft, 0) /\ UNCHANGED mutexes /\ handler[h] = Idle
    BY <1>2 DEF PublishCollector, CanStart
  <2>3. LocksSound'
    BY <1>0, <2>1, <2>2, LocksPrepare
  <2>4. OtherStep
    BY <1>0, <1>2, <2>1, <2>2, OtherPrepare DEF PublishCollector
  <2> QED
    BY <2>3, <2>4
<1>3. ASSUME NEW h \in Handlers, NEW id \in Ids, RollbackPolicy(h, id)
      PROVE  LocksSound' /\ Case
  <2> DEFINE log == journal[id]
             current == Latest(log)
  <2>1. /\ log \in Seq(Entry) /\ log # <<>> /\ current \in Entry /\ IsActive(current)
        /\ LockLifecycle(h) /\ handler[h] = Idle
    BY <1>0, <1>3, LatestInLog DEF RollbackPolicy, ActivePolicies, ActiveIn, TypeOK, CanStart
  <2>. current.version \in Nat
    BY <2>1 DEF Entry
  <2>2. CASE Prepare(h, "commit", id, Deactivated(current), current.version)
    <3>1. Deactivated(current) \in Entry /\ Deactivated(current).action # "PUBLISHED"
      BY <2>1, DeactivatedType DEF Deactivated, Entry
    <3>2. LocksSound'
      BY <1>0, <2>1, <2>2, <3>1, LocksPrepare
    <3>3. OtherStep
      BY <1>0, <1>3, <2>1, <2>2, OtherPrepare DEF RollbackPolicy
    <3> QED
      BY <3>2, <3>3
  <2>3. ASSUME NEW k \in Predecessors(id, current),
               Prepare(h, "transition", id,
                    [log[k] EXCEPT !.action = "ROLLBACK", !.active = TRUE, !.source = k],
                    current.version)
        PROVE  LocksSound' /\ Case
    <3> DEFINE draft == [log[k] EXCEPT !.action = "ROLLBACK", !.active = TRUE, !.source = k]
    <3>1. k \in Nat /\ log[k] \in Entry /\ log[k].target = "java-extension"
      BY <2>1 DEF Predecessors, PublishedBefore
    <3>2. draft \in Entry /\ JavaRow(draft) /\ draft.action = "ROLLBACK"
      BY <3>1 DEF Entry, Changes, JavaRow
    <3>3. LocksSound'
      BY <1>0, <2>1, <2>3, <3>2, LocksPrepare
    <3>4. OtherStep
      BY <1>0, <1>3, <2>1, <2>3, OtherPrepare DEF RollbackPolicy
    <3> QED
      BY <3>3, <3>4
  <2> QED
    BY <1>3, <2>2, <2>3 DEF RollbackPolicy
<1>4. ASSUME NEW h \in Handlers, NEW id \in Ids, Deactivate(h, id)
      PROVE  LocksSound' /\ Case
  <2> DEFINE current == Latest(journal[id])
  <2>1. /\ journal[id] \in Seq(Entry) /\ journal[id] # <<>> /\ IsActive(current)
        /\ LockLifecycle(h) /\ handler[h] = Idle
        /\ Prepare(h, "commit", id, Deactivated(current), current.version)
    BY <1>0, <1>4 DEF Deactivate, TypeOK, CanStart
  <2>. current \in Entry
    BY <2>1, LatestInLog
  <2>. current.version \in Nat
    BY DEF Entry
  <2>2. Deactivated(current) \in Entry /\ Deactivated(current).action # "PUBLISHED"
    BY <2>1, DeactivatedType DEF Deactivated, Entry
  <2>3. LocksSound'
    BY <1>0, <2>1, <2>2, LocksPrepare
  <2>4. OtherStep
    BY <1>0, <1>4, <2>1, OtherPrepare DEF Deactivate
  <2> QED
    BY <2>3, <2>4
<1>5. ASSUME NEW h \in Handlers, NEW id \in Ids, NEW version \in 1..MaxVersions,
             RollbackCollector(h, id, version)
      PROVE  LocksSound' /\ Case
  <2> DEFINE draft == [journal[id][version] EXCEPT !.action = "ROLLBACK"]
  <2>1. journal[id][version] \in Entry /\ journal[id][version].target = "collector"
    BY <1>0, <1>5 DEF RollbackCollector, TypeOK
  <2>2. draft \in Entry /\ ~JavaRow(draft)
    BY <2>1 DEF Entry, Changes, JavaRow
  <2>3. Prepare(h, "commit", id, draft, 0) /\ UNCHANGED mutexes /\ handler[h] = Idle
    BY <1>5 DEF RollbackCollector, CanStart
  <2>4. LocksSound'
    BY <1>0, <2>2, <2>3, LocksPrepare
  <2>5. OtherStep
    BY <1>0, <1>5, <2>2, <2>3, OtherPrepare DEF RollbackCollector
  <2> QED
    BY <2>4, <2>5
<1>6. ASSUME NEW h \in Handlers, NEW list \in SUBSET Sensitive, UpdateDenylist(h, list)
      PROVE  LocksSound' /\ Case
  <2>1. /\ handler'[h] = [step |-> "replace", proposed |-> list]
        /\ \A g \in Handlers \ {h} : handler'[g] = handler[g]
        /\ handler[h].step = "idle"
    BY <1>0, <1>6 DEF UpdateDenylist, TypeOK, Idle
  <2>2. LocksSound'
    BY <1>0, <1>6, <2>1, HandlerAssumption
       DEF UpdateDenylist, LocksSound, SecurityWritable, SavingSteps, TypeOK
  <2>3. UNCHANGED <<journal, denylist, configs, unconfirmed>>
    BY <1>6 DEF UpdateDenylist, persistent
  <2>4. handler'[h].proposed = list /\ handler'[h].step = "replace"
    BY <2>1
  <2>5. OtherStep
    BY <1>6, <2>1, <2>3, <2>4 DEF OtherStep, JavaCommit
  <2> QED
    BY <2>2, <2>5
<1>7. ASSUME NEW h \in Handlers, AdmitPolicy(h) \/ AdmitTransition(h)
      PROVE  LocksSound' /\ Case
  <2>1. /\ handler[h] \in Saving /\ handler[h].step \in {"admission", "transition"}
        /\ handler' = [handler EXCEPT ![h].step = "commit"]
        /\ PolicyAccepted(handler[h].id, handler[h].draft.body)
        /\ securityWriter = NoHandler /\ securityWriter' = securityWriter
        /\ lifecycleMu' = lifecycleMu
        /\ securityReaders \subseteq securityReaders'
        /\ handler[h].step = "admission" => h \in securityReaders'
        /\ UNCHANGED <<journal, denylist, configs, unconfirmed>>
    BY <1>0, <1>7, StepKinds DEF AdmitPolicy, AdmitTransition, SecurityReadable, persistent, mutexes
  <2>2. /\ handler'[h].step = "commit" /\ handler'[h].draft = handler[h].draft
        /\ \A g \in Handlers \ {h} : handler'[g] = handler[g]
    BY <1>0, <2>1 DEF TypeOK, Saving
  <2>3. LocksSound'
    BY <2>1, <2>2 DEF LocksSound, SavingSteps
  <2>4. OtherStep
    BY <2>1, <2>2 DEF OtherStep, Admitted, JavaCommit
  <2> QED
    BY <2>3, <2>4
<1>8. ASSUME NEW h \in Handlers, RefusePolicy(h) \/ Conflict(h) \/ AbandonSave(h)
      PROVE  LocksSound' /\ Case
  <2>1. Reply(h) /\ handler[h].step # "append" /\ UNCHANGED <<journal, denylist, configs, unconfirmed>>
    BY <1>8 DEF RefusePolicy, Conflict, AbandonSave, persistent
  <2> QED
    BY <1>0, <2>1, LocksReply, OtherReply
<1>9. ASSUME NEW h \in Handlers, ReplaceDenylist(h)
      PROVE  LocksSound' /\ Case
  <2>1. Reply(h) /\ handler[h].step # "append" /\ UNCHANGED <<journal, configs, unconfirmed>>
    BY <1>9 DEF ReplaceDenylist
  <2> QED
    BY <1>0, <1>9, <2>1, LocksReply, OtherReply
<1>10. ASSUME NEW h \in Handlers, CommitUnconfirmed(h) \/ AppendToMemory(h)
       PROVE  LocksSound' /\ Case
  BY <1>0, <1>10, LocksReply DEF CommitUnconfirmed, AppendToMemory
<1>11. ASSUME NEW h \in Handlers, Commit(h)
       PROVE  LocksSound' /\ Case
  <2>1. handler[h] \in Saving /\ handler[h].step = "commit"
    BY <1>0, <1>11, StepKinds DEF Commit
  <2>2. /\ handler'[h].step = "append" /\ handler'[h].draft = Row(handler[h])
        /\ \A g \in Handlers \ {h} : handler'[g] = handler[g]
    BY <1>0, <1>11, <2>1 DEF Commit, TypeOK, Saving
  <2>3. /\ Row(handler[h]).action = handler[h].draft.action
        /\ Row(handler[h]).target = handler[h].draft.target
    BY <1>0, <2>1, RowFields
  <2>4. LocksSound'
    BY <1>11, <2>1, <2>2, <2>3 DEF Commit, LocksSound, SavingSteps, JavaRow, mutexes
  <2> QED
    BY <1>11, <2>4
<1>12. CASE Restart
  BY <1>12 DEF Restart, LocksSound, SavingSteps, Idle
<1>13. CASE UNCHANGED vars
  <2>1. UNCHANGED <<journal, denylist, configs, handler, lifecycleMu, securityReaders,
                    securityWriter, unconfirmed>>
    BY <1>13 DEF vars, persistent, mutexes
  <2>2. LocksSound'
    BY <2>1 DEF LocksSound
  <2>3. OtherStep
    BY <2>1 DEF OtherStep
  <2> QED
    BY <2>2, <2>3
<1> QED
  BY <1>1, <1>2, <1>3, <1>4, <1>5, <1>6, <1>7, <1>8, <1>9, <1>10, <1>11, <1>12, <1>13
     DEF Next, Start, AwaitAdmission, Proceed


-----------------------------------------------------------------------------
(* Memory and the journal.                                                   *)

LEMMA MemoryInit == Init => MemoryInv
<1> SUFFICES ASSUME Init PROVE MemoryInv
  OBVIOUS
<1>1. /\ \A id \in Ids : DOMAIN journal[id] = {} /\ DOMAIN configs[id] = {}
      /\ \A h \in Handlers : handler[h].step = "idle"
  BY DEF Init, Idle
<1> QED
  BY <1>1, LocksInit DEF MemoryInv, RowsOfJournal, RowsKnown, MemoryAscends, Ascending

\* A row of the journal stays one, and a new one is not of a version memory has.
LEMMA OfJournalStable ==
    ASSUME TypeOK, NEW request \in Saving, Insert(request), NEW id \in Ids,
           NEW row \in Entry, OfJournal(id, row)
    PROVE  /\ OfJournal(id, row)'
           /\ id = request.id => row.version < Len(journal[id]) + 1
<1>1. journal[id] \in Seq(Entry)
  BY DEF TypeOK
<1>2. row.version \in 1..Len(journal[id])
  BY <1>1 DEF OfJournal
<1>3. CASE id # request.id
  BY <1>3, InsertExtends DEF OfJournal
<1>4. CASE id = request.id
  <2>1. Extends(journal[id], journal'[id])
    BY <1>4, InsertExtends
  <2>2. row.version \in DOMAIN journal'[id] /\ journal'[id][row.version] = journal[id][row.version]
    BY <1>1, <1>2, <2>1, ExtendsDomain DEF Extends
  <2>3. OfJournal(id, row)'
    BY <2>2 DEF OfJournal
  <2> QED
    BY <1>2, <2>3
<1> QED
  BY <1>3, <1>4

LEMMA JavaOnlyShrinks ==
    ASSUME TypeOK, NEW request \in Saving, Insert(request), NEW id \in Ids, JavaOnly(id)'
    PROVE  JavaOnly(id) /\ (id = request.id => JavaRow(request.draft))
<1>1. CASE id # request.id
  BY <1>1, InsertExtends DEF JavaOnly
<1>2. CASE id = request.id
  <2> DEFINE new == Len(journal[id]) + 1
  <2>1. /\ Extends(journal[id], journal'[id])
        /\ new \in DOMAIN journal'[id]
        /\ journal'[id][new] = Row(request)
    BY <1>2, InsertExtends
  <2>2. JavaRow(request.draft)
    BY <1>2, <2>1, RowFields DEF JavaOnly, JavaRow
  <2>3. JavaOnly(id)
    BY <1>2, <2>1, ExtendsDomain DEF JavaOnly, Extends
  <2> QED
    BY <2>2, <2>3
<1> QED
  BY <1>1, <1>2

\* What a commit does, whether or not its handler learns of it.
LEMMA InsertEffect ==
    ASSUME TypeOK, NEW h \in Handlers, Commit(h) \/ CommitUnconfirmed(h)
    PROVE  /\ handler[h] \in Saving /\ handler[h].step = "commit" /\ Insert(handler[h])
           /\ ~Stale(handler[h])
           /\ UNCHANGED <<configs, denylist>>
           /\ \A g \in Handlers \ {h} : handler'[g] = handler[g]
           /\ \A id \in Ids : unconfirmed[id] \subseteq unconfirmed'[id]
           /\ \/ /\ Commit(h)
                 /\ handler'[h] = [handler[h] EXCEPT !.step = "append", !.draft = Row(handler[h])]
                 /\ unconfirmed' = unconfirmed
              \/ /\ CommitUnconfirmed(h)
                 /\ handler'[h].step = "idle"
                 /\ Len(journal[handler[h].id]) + 1 \in unconfirmed'[handler[h].id]
<1>1. handler[h] \in Saving /\ handler[h].step = "commit" /\ Insert(handler[h])
      /\ UNCHANGED <<configs, denylist>> /\ ~Stale(handler[h])
  BY StepKinds DEF Commit, CommitUnconfirmed
<1>2. CASE Commit(h)
  <2>1. /\ handler'[h] = [handler[h] EXCEPT !.step = "append", !.draft = Row(handler[h])]
        /\ \A g \in Handlers \ {h} : handler'[g] = handler[g]
    BY <1>1, <1>2 DEF Commit, TypeOK, Saving
  <2> QED
    BY <1>1, <1>2, <2>1 DEF Commit
<1>3. CASE CommitUnconfirmed(h)
  <2>1. handler'[h].step = "idle" /\ \A g \in Handlers \ {h} : handler'[g] = handler[g]
    BY <1>3 DEF CommitUnconfirmed, Reply, TypeOK, Idle
  <2>2. Row(handler[h]).version = Len(journal[handler[h].id]) + 1 /\ handler[h].id \in Ids
    BY <1>1, RowFields DEF Saving
  <2>3. /\ \A id \in Ids : unconfirmed[id] \subseteq unconfirmed'[id]
        /\ Len(journal[handler[h].id]) + 1 \in unconfirmed'[handler[h].id]
    BY <1>3, <2>2 DEF CommitUnconfirmed, TypeOK
  <2> QED
    BY <1>1, <1>3, <2>1, <2>3
<1> QED
  BY <1>2, <1>3

LEMMA MemoryInsert ==
    ASSUME TypeOK, MemoryInv, NEW h \in Handlers, Commit(h) \/ CommitUnconfirmed(h)
    PROVE  RowsOfJournal' /\ RowsKnown' /\ MemoryAscends'
<1> DEFINE request == handler[h]
           log     == journal[request.id]
           new     == Len(log) + 1
<1>1. /\ request \in Saving /\ request.step = "commit" /\ Insert(request)
      /\ configs' = configs
      /\ \A g \in Handlers \ {h} : handler'[g] = handler[g]
      /\ \A id \in Ids : unconfirmed[id] \subseteq unconfirmed'[id]
  BY InsertEffect
<1>2. /\ request.id \in Ids /\ log \in Seq(Entry) /\ new \in Nat
      /\ Extends(log, journal'[request.id])
      /\ journal'[request.id][new] = Row(request) /\ new \in DOMAIN journal'[request.id]
      /\ DOMAIN journal'[request.id] = DOMAIN log \cup {new}
      /\ \A id \in Ids \ {request.id} : journal'[id] = journal[id]
  BY <1>1, InsertExtends
<1>3. handler'[h].step = "append" =>
          /\ handler'[h].id = request.id /\ handler'[h].draft = Row(request)
          /\ handler'[h].draft.version = new
  BY <1>1, InsertEffect, RowFields DEF Saving
<1>4. \A id \in Ids : \A i \in DOMAIN configs[id] : configs[id][i] \in Entry
  BY DEF TypeOK
<1>5. ASSUME NEW g \in Handlers \ {h}, handler[g].step = "append"
      PROVE  handler[g].id \in Ids /\ handler[g].draft \in Entry
  BY <1>5, StepKinds DEF Saving
<1>6. RowsOfJournal'
  <2>1. ASSUME NEW id \in Ids, NEW i \in DOMAIN configs[id]
        PROVE  OfJournal(id, configs[id][i])'
    <3>1. OfJournal(id, configs[id][i])
      BY DEF MemoryInv, RowsOfJournal
    <3>2. ASSUME NEW row \in Entry, OfJournal(id, row)
          PROVE  row.version \in DOMAIN journal'[id] /\ row = journal'[id][row.version]
      BY <1>1, <3>2, OfJournalStable DEF OfJournal
    <3> QED
      BY <1>1, <1>4, <3>1, <3>2 DEF OfJournal
  <2>2. ASSUME NEW g \in Handlers, handler'[g].step = "append"
        PROVE  OfJournal(handler[g].id, handler[g].draft)'
    <3>1. CASE g = h
      BY <1>2, <1>3, <2>2, <3>1 DEF OfJournal
    <3>2. CASE g # h
      <4>1. handler[g].step = "append" /\ handler'[g] = handler[g]
        BY <1>1, <2>2, <3>2
      <4>2. OfJournal(handler[g].id, handler[g].draft)
        BY <4>1 DEF MemoryInv, RowsOfJournal
      <4>3. ASSUME NEW id \in Ids, NEW row \in Entry, OfJournal(id, row)
            PROVE  row.version \in DOMAIN journal'[id] /\ row = journal'[id][row.version]
        BY <1>1, <4>3, OfJournalStable DEF OfJournal
      <4> QED
        BY <1>5, <3>2, <4>1, <4>2, <4>3 DEF OfJournal
    <3> QED
      BY <3>1, <3>2
  <2> QED
    BY <1>1, <2>1, <2>2 DEF RowsOfJournal
<1>7. RowsKnown'
  <2> SUFFICES ASSUME NEW id \in Ids, NEW v \in DOMAIN journal'[id]
               PROVE  Known(id, v)'
    BY DEF RowsKnown
  <2>1. CASE id = request.id /\ v = new
    <3>1. handler'[h].step = "append" \/ new \in unconfirmed'[request.id]
      BY <1>1, InsertEffect DEF Saving
    <3> QED
      BY <1>3, <2>1, <3>1 DEF Known, InFlight
  <2>2. CASE ~(id = request.id /\ v = new)
    <3>1. v \in DOMAIN journal[id] /\ journal'[id][v] = journal[id][v]
      BY <1>2, <2>2 DEF Extends
    <3>2. Known(id, v)
      BY <3>1 DEF MemoryInv, RowsKnown
    <3>3. InFlight(id, v) => InFlight(id, v)'
      BY <1>1 DEF InFlight
    <3> QED
      BY <1>1, <3>1, <3>2, <3>3 DEF Known
  <2> QED
    BY <2>1, <2>2
<1>8. MemoryAscends'
  <2> SUFFICES ASSUME NEW id \in Ids, JavaOnly(id)'
               PROVE  /\ Ascending(configs[id])
                      /\ \A g \in Handlers : handler'[g].step = "append" /\ handler'[g].id = id =>
                            \A i \in DOMAIN configs[id] :
                                configs[id][i].version < handler'[g].draft.version
    BY <1>1 DEF MemoryAscends, Ascending
  <2>1. JavaOnly(id)
    BY <1>1, JavaOnlyShrinks
  <2>2. ASSUME NEW g \in Handlers, handler'[g].step = "append", handler'[g].id = id,
               NEW i \in DOMAIN configs[id]
        PROVE  configs[id][i].version < handler'[g].draft.version
    <3>1. CASE g = h
      <4>1. OfJournal(id, configs[id][i])
        BY DEF MemoryInv, RowsOfJournal
      <4>2. configs[id][i].version < Len(journal[id]) + 1
        BY <1>1, <1>3, <1>4, <2>2, <3>1, <4>1, OfJournalStable
      <4> QED
        BY <1>3, <2>2, <3>1, <4>2
    <3>2. CASE g # h
      BY <1>1, <2>1, <2>2, <3>2 DEF MemoryInv, MemoryAscends
    <3> QED
      BY <3>1, <3>2
  <2> QED
    BY <2>1, <2>2 DEF MemoryInv, MemoryAscends
<1> QED
  BY <1>6, <1>7, <1>8

LEMMA MemoryAppend ==
    ASSUME TypeOK, MemoryInv, NEW h \in Handlers, AppendToMemory(h)
    PROVE  RowsOfJournal' /\ RowsKnown' /\ MemoryAscends'
<1> DEFINE id  == handler[h].id
           row == handler[h].draft
           end == Len(configs[id]) + 1
<1>1. /\ handler[h] \in Saving /\ handler[h].step = "append" /\ id \in Ids /\ row \in Entry
      /\ UNCHANGED <<journal, unconfirmed>>
      /\ handler'[h].step = "idle"
      /\ \A g \in Handlers \ {h} : handler'[g] = handler[g]
  BY StepKinds DEF AppendToMemory, Reply, TypeOK, Idle, Saving, persistent
<1>2. /\ configs[id] \in Seq(Entry)
      /\ configs'[id] = Append(configs[id], row)
      /\ \A other \in Ids \ {id} : configs'[other] = configs[other]
  BY <1>1 DEF AppendToMemory, TypeOK
<1>3. /\ end \in Nat
      /\ DOMAIN configs'[id] = DOMAIN configs[id] \cup {end}
      /\ configs'[id][end] = row
      /\ \A i \in DOMAIN configs[id] : configs'[id][i] = configs[id][i] /\ i < end /\ i \in Nat
  BY <1>1, <1>2
<1>4. OfJournal(id, row)
  BY <1>1 DEF MemoryInv, RowsOfJournal
<1>5. RowsOfJournal'
  <2>1. ASSUME NEW other \in Ids, NEW i \in DOMAIN configs'[other]
        PROVE  OfJournal(other, configs'[other][i])
    BY <1>2, <1>3, <1>4 DEF MemoryInv, RowsOfJournal
  <2>2. ASSUME NEW g \in Handlers, handler'[g].step = "append"
        PROVE  OfJournal(handler'[g].id, handler'[g].draft)
    BY <1>1, <2>2 DEF MemoryInv, RowsOfJournal
  <2> QED
    BY <1>1, <2>1, <2>2 DEF RowsOfJournal, OfJournal
<1>6. RowsKnown'
  <2> SUFFICES ASSUME NEW other \in Ids, NEW v \in DOMAIN journal[other]
               PROVE  Known(other, v)'
    BY <1>1 DEF RowsKnown
  <2>1. Known(other, v)
    BY DEF MemoryInv, RowsKnown
  <2>2. CASE v \in unconfirmed[other]
    BY <1>1, <2>2 DEF Known
  <2>3. ASSUME NEW g \in Handlers, handler[g].step = "append", handler[g].id = other,
               handler[g].draft.version = v
        PROVE  Known(other, v)'
    <3>1. CASE g = h
      BY <1>1, <1>3, <1>4, <2>3, <3>1 DEF OfJournal, Known
    <3>2. CASE g # h
      BY <1>1, <2>3, <3>2 DEF Known, InFlight
    <3> QED
      BY <3>1, <3>2
  <2>4. ASSUME NEW i \in DOMAIN configs[other], configs[other][i] = journal[other][v]
        PROVE  Known(other, v)'
    <3>1. i \in DOMAIN configs'[other] /\ configs'[other][i] = configs[other][i]
      BY <1>2, <1>3
    <3> QED
      BY <1>1, <2>4, <3>1 DEF Known
  <2> QED
    BY <2>1, <2>2, <2>3, <2>4 DEF Known, InFlight
<1>7. MemoryAscends'
  <2> SUFFICES ASSUME NEW other \in Ids, JavaOnly(other)
               PROVE  /\ Ascending(configs'[other])
                      /\ \A g \in Handlers : handler'[g].step = "append" /\ handler'[g].id = other =>
                            \A i \in DOMAIN configs'[other] :
                                configs'[other][i].version < handler'[g].draft.version
    BY <1>1 DEF MemoryAscends, JavaOnly, Ascending
  <2>1. CASE other # id
    BY <1>1, <1>2, <2>1 DEF MemoryInv, MemoryAscends
  <2>2. CASE other = id
    <3>1. \A i \in DOMAIN configs[id] : configs[id][i].version < row.version
      BY <1>1, <2>2 DEF MemoryInv, MemoryAscends
    <3>2. Ascending(configs[id])
      BY <2>2 DEF MemoryInv, MemoryAscends
    <3>3. Ascending(configs'[id])
      BY <1>3, <3>1, <3>2 DEF Ascending
    <3>4. ASSUME NEW g \in Handlers \ {h}, handler[g].step = "append", handler[g].id = id
          PROVE  FALSE
      <4>1. OfJournal(id, handler[g].draft)
        BY <3>4 DEF MemoryInv, RowsOfJournal
      <4>2. JavaRow(handler[g].draft) /\ JavaRow(row)
        BY <1>4, <2>2, <4>1 DEF OfJournal, JavaOnly, JavaRow
      <4> QED
        BY <1>1, <3>4, <4>2 DEF MemoryInv, LocksSound, SavingSteps
    <3> QED
      BY <1>1, <2>2, <3>3, <3>4
  <2> QED
    BY <2>1, <2>2
<1> QED
  BY <1>5, <1>6, <1>7

LEMMA MemoryRestart ==
    ASSUME LineageInv, Restart
    PROVE  RowsOfJournal' /\ RowsKnown' /\ MemoryAscends'
<1>1. /\ configs' = journal /\ UNCHANGED <<journal, unconfirmed>>
      /\ \A h \in Handlers : handler'[h].step = "idle"
  BY DEF Restart, persistent, Idle
<1>2. \A id \in Ids : \A v \in DOMAIN journal[id] : journal[id][v].version = v
  BY DEF LineageInv, JournalSound, RowSound
<1>3. \A id \in Ids : \A v \in DOMAIN journal[id] : OfJournal(id, journal[id][v])'
  BY <1>1, <1>2 DEF OfJournal
<1>4. RowsOfJournal'
  BY <1>1, <1>3 DEF RowsOfJournal, OfJournal
<1>5. RowsKnown'
  BY <1>1 DEF RowsKnown, Known
<1>6. MemoryAscends'
  BY <1>1, <1>2 DEF MemoryAscends, Ascending
<1> QED
  BY <1>4, <1>5, <1>6

LEMMA MemoryNext ==
    LineageInv /\ MemoryInv /\ [Next]_vars => MemoryInv'
<1> SUFFICES ASSUME LineageInv, MemoryInv, [Next]_vars
             PROVE  MemoryInv'
  OBVIOUS
<1>1. TypeOK
  BY DEF LineageInv
<1>2. LocksSound'
  BY StepCases DEF MemoryInv
<1>3. CASE OtherStep
  <2>1. UNCHANGED <<journal, configs, unconfirmed>>
    BY <1>3 DEF OtherStep
  <2>2. \A g \in Handlers : handler[g].step = "append" \/ handler'[g].step = "append"
            => handler'[g] = handler[g]
    BY <1>3 DEF OtherStep
  <2>3. RowsOfJournal'
    BY <2>1, <2>2 DEF MemoryInv, RowsOfJournal, OfJournal
  <2>4. RowsKnown'
    BY <2>1, <2>2 DEF MemoryInv, RowsKnown, Known, InFlight
  <2>5. MemoryAscends'
    BY <2>1, <2>2 DEF MemoryInv, MemoryAscends, Ascending, JavaOnly
  <2> QED
    BY <1>2, <2>3, <2>4, <2>5 DEF MemoryInv
<1> QED
  BY <1>1, <1>2, <1>3, StepCases, MemoryInsert, MemoryAppend, MemoryRestart DEF MemoryInv

\* Memory holds the rows of a Java policy in journal order, and all of them but those still
\* in flight or whose handler never learned of them, whatever requests race, replies are
\* lost and restarts reload it (saveConfig, policyLifecycleMu).
THEOREM JournalMemoryFollows == Spec => []MemoryFollowsJournal
<1>1. Init => LineageInv /\ MemoryInv
  BY LineageInit, MemoryInit
<1>2. LineageInv /\ MemoryInv /\ [Next]_vars => (LineageInv /\ MemoryInv)'
  BY LineageNext, MemoryNext
<1>3. MemoryInv => MemoryFollowsJournal
  BY DEF MemoryInv, MemoryFollowsJournal, RowsKnown, Known, MemoryAscends, Ascending
<1> QED
  BY <1>1, <1>2, <1>3, PTL DEF Spec

-----------------------------------------------------------------------------
(* What memory showed at an admission is what the journal holds.             *)

\* Once its newest row is out of the hands of a handler, a Java id ends in memory
\* as it ends in the journal.
LEMMA LatestAgrees ==
    ASSUME LineageInv, MemoryInv, NEW id \in Ids, JavaOnly(id), Settled(id),
           journal[id] # <<>>, ~InFlight(id, Len(journal[id]))
    PROVE  configs[id] # <<>> /\ Latest(configs[id]) = Latest(journal[id])
<1> DEFINE log  == journal[id]
           mem  == configs[id]
           last == Len(mem)
<1>1. log \in Seq(Entry) /\ mem \in Seq(Entry) /\ last \in Nat /\ DOMAIN mem = 1..last
  BY DEF LineageInv, TypeOK
<1>2. Len(log) \in DOMAIN log /\ Latest(log) = log[Len(log)]
  BY <1>1, LatestInLog
<1>3. PICK i \in DOMAIN mem : mem[i] = log[Len(log)]
  BY <1>2 DEF MemoryInv, RowsKnown, Known, Settled
<1>4. log[Len(log)].version = Len(log)
  BY <1>2 DEF LineageInv, JournalSound, RowSound
<1>5. last \in DOMAIN mem
  BY <1>1, <1>3
<1>6. mem[last].version \in 1..Len(log)
  BY <1>1, <1>5 DEF MemoryInv, RowsOfJournal, OfJournal
<1>7. i < last => mem[i].version < mem[last].version
  BY <1>5 DEF MemoryInv, MemoryAscends, Ascending
<1>8. i = last
  BY <1>1, <1>3, <1>4, <1>6, <1>7
<1> QED
  BY <1>2, <1>3, <1>8 DEF Latest

\* While a request holds policyLifecycleMu and has committed nothing, no Java row
\* is on its way to memory.
LEMMA NoneInFlight ==
    ASSUME MemoryInv, NEW h \in Handlers, lifecycleMu = h, handler[h].step # "append",
           NEW id \in Ids, NEW v \in DOMAIN journal[id], JavaRow(journal[id][v])
    PROVE  ~InFlight(id, v)
<1> SUFFICES ASSUME NEW g \in Handlers, handler[g].step = "append", handler[g].id = id,
                    handler[g].draft.version = v
             PROVE  FALSE
  BY DEF InFlight
<1>1. handler[g].draft = journal[id][v]
  BY DEF MemoryInv, RowsOfJournal, OfJournal
<1>2. lifecycleMu = g
  BY <1>1 DEF MemoryInv, LocksSound, SavingSteps
<1> QED
  BY <1>2

LEMMA AdmittedHolds ==
    ASSUME TypeOK, MemoryInv, NEW h \in Handlers, Admitted(h)
    PROVE  /\ handler[h] \in Saving /\ handler[h].id \in Ids
           /\ lifecycleMu = h /\ handler[h].step # "append"
           /\ handler'[h] = [handler[h] EXCEPT !.step = "commit"]
           /\ handler'[h].id = handler[h].id /\ handler'[h].draft = handler[h].draft
           /\ \A g \in Handlers \ {h} : handler'[g] = handler[g]
<1>1. handler[h] \in Saving /\ JavaRow(handler[h].draft)
  BY StepKinds DEF Admitted, MemoryInv, LocksSound
<1>2. lifecycleMu = h
  BY <1>1 DEF Admitted, MemoryInv, LocksSound, SavingSteps
<1>3. /\ handler'[h] = [handler[h] EXCEPT !.step = "commit"]
      /\ \A g \in Handlers \ {h} : handler'[g] = handler[g]
  BY DEF Admitted, TypeOK
<1> QED
  BY <1>1, <1>2, <1>3 DEF Admitted, Saving

LEMMA AdmittedMetrics ==
    ASSUME TypeOK, MemoryInv, NEW h \in Handlers, Admitted(h)
    PROVE  MetricsApart(handler[h].id, handler[h].draft.body)
<1> SUFFICES ASSUME NEW other \in Ids \ {handler[h].id}, Settled(other),
                    NEW j \in DOMAIN journal[other], JavaRow(journal[other][j])
             PROVE  MetricsOf[handler[h].draft.body] \cap MetricsOf[journal[other][j].body] = {}
  BY DEF MetricsApart
<1>1. ~InFlight(other, j)
  BY AdmittedHolds, NoneInFlight
<1>2. PICK i \in DOMAIN configs[other] : configs[other][i] = journal[other][j]
  BY <1>1 DEF MemoryInv, RowsKnown, Known, Settled
<1>3. ~MetricTaken(handler[h].id, handler[h].draft.body)
  BY DEF Admitted, PolicyAccepted
<1> QED
  BY <1>2, <1>3 DEF MetricTaken, JavaRow

\* What memory lists is written in the journal.
LEMMA MemoryWritten ==
    ASSUME TypeOK, MemoryInv, IsFiniteSet(Written)
    PROVE  IsFiniteSet(ActivePolicies(configs))
<1>1. ASSUME NEW id \in Ids, configs[id] # <<>> PROVE journal[id] # <<>>
  <2>1. configs[id] \in Seq(Entry) /\ journal[id] \in Seq(Entry)
    BY DEF TypeOK
  <2>2. 1 \in DOMAIN configs[id]
    BY <1>1, <2>1
  <2>3. DOMAIN journal[id] # {}
    BY <2>2 DEF MemoryInv, RowsOfJournal, OfJournal
  <2> QED
    BY <2>1, <2>3
<1>2. ActivePolicies(configs) \subseteq Written
  BY <1>1 DEF ActivePolicies, ActiveIn, Written
<1> QED
  BY <1>2, FS_Subset

LEMMA GovernedInMemory ==
    ASSUME LineageInv, MemoryInv, NEW id \in ActiveGoverned, ~InFlight(id, Len(journal[id]))
    PROVE  id \in ActivePolicies(configs) /\ Latest(configs[id]) = Latest(journal[id])
<1>1. /\ id \in Ids /\ journal[id] # <<>> /\ JavaOnly(id) /\ Settled(id)
      /\ Latest(journal[id]).target = "java-extension" /\ IsActive(Latest(journal[id]))
  BY DEF ActiveGoverned, ActivePolicies, ActiveIn, Governed
<1>2. configs[id] # <<>> /\ Latest(configs[id]) = Latest(journal[id])
  BY <1>1, LatestAgrees
<1> QED
  BY <1>1, <1>2 DEF ActivePolicies, ActiveIn

\* The newest row of a policy in service is a Java row.
LEMMA GovernedLatest ==
    ASSUME TypeOK, NEW id \in ActiveGoverned
    PROVE  /\ id \in Ids /\ journal[id] # <<>>
           /\ Len(journal[id]) \in DOMAIN journal[id]
           /\ Latest(journal[id]) = journal[id][Len(journal[id])]
           /\ JavaRow(journal[id][Len(journal[id])])
<1>1. /\ id \in Ids /\ journal[id] # <<>> /\ Latest(journal[id]).target = "java-extension"
      /\ journal[id] \in Seq(Entry)
  BY DEF ActiveGoverned, ActivePolicies, ActiveIn, TypeOK
<1> QED
  BY <1>1, LatestInLog DEF JavaRow

LEMMA AdmittedComposes ==
    ASSUME LineageInv, MemoryInv, IsFiniteSet(Written), NEW h \in Handlers, Admitted(h)
    PROVE  /\ Cardinality(ActiveGoverned \cup {handler[h].id}) <= MaxPoliciesPerSet
           /\ RulesApart(handler[h].id, handler[h].draft.body)
<1> DEFINE id == handler[h].id
           body == handler[h].draft.body
<1>1. TypeOK
  BY DEF LineageInv
<1>2. ASSUME NEW other \in ActiveGoverned
      PROVE  other \in ActivePolicies(configs) /\ Latest(configs[other]) = Latest(journal[other])
  <2>1. ~InFlight(other, Len(journal[other]))
    BY <1>1, AdmittedHolds, GovernedLatest, NoneInFlight
  <2> QED
    BY <2>1, GovernedInMemory
<1>3. ~RuleClash(id, body) /\ ~SetTooLarge(id)
  BY DEF Admitted, PolicyAccepted
<1>4. RulesApart(id, body)
  BY <1>2, <1>3 DEF RuleClash, RulesApart
<1>5. /\ IsFiniteSet(ActivePolicies(configs) \cup {id})
      /\ Cardinality(ActivePolicies(configs) \cup {id}) \in Nat
  BY <1>1, MemoryWritten, FS_AddElement, FS_CardinalityType
<1>6. ActiveGoverned \cup {id} \subseteq ActivePolicies(configs) \cup {id}
  BY <1>2
<1>7. /\ IsFiniteSet(ActiveGoverned \cup {id})
      /\ Cardinality(ActiveGoverned \cup {id}) <= Cardinality(ActivePolicies(configs) \cup {id})
  BY <1>5, <1>6, FS_Subset
<1>8. Cardinality(ActiveGoverned \cup {id}) \in Nat
  BY <1>7, FS_CardinalityType
<1> QED
  BY <1>3, <1>4, <1>5, <1>7, <1>8, BoundAssumption DEF SetTooLarge

-----------------------------------------------------------------------------
(* The properties an admission secures, and the invariant they rest on.      *)

Secured == MetricOwnerUnique /\ ActivePoliciesCompose /\ PublicationsRespectDenylist

LEMMA AdmissionInit == Init => AdmissionInv /\ Secured
<1> SUFFICES ASSUME Init PROVE AdmissionInv /\ Secured
  OBVIOUS
<1>1. /\ \A id \in Ids : journal[id] = <<>> /\ DOMAIN journal[id] = {}
      /\ \A h \in Handlers : handler[h].step = "idle"
  BY DEF Init, Idle
<1>2. Written = {} /\ ActivePolicies(journal) = {} /\ ActiveGoverned = {}
  BY <1>1 DEF Written, ActivePolicies, ActiveIn, ActiveGoverned
<1>3. IsFiniteSet(Written) /\ Cardinality(ActiveGoverned) <= MaxPoliciesPerSet
  BY <1>2, FS_EmptySet, BoundAssumption
<1>4. AdmissionInv
  BY <1>1, <1>3 DEF AdmissionInv, MetricsReady, ComposeReady, DenylistReady, JavaCommit
<1>5. Secured
  BY <1>1, <1>2, <1>3
     DEF Secured, MetricOwnerUnique, ActivePoliciesCompose, PublicationsRespectDenylist,
         ActiveGoverned
<1> QED
  BY <1>4, <1>5

\* The journal as a commit leaves it, in the terms of the properties.
LEMMA InsertGoverned ==
    ASSUME TypeOK, NEW h \in Handlers, Commit(h) \/ CommitUnconfirmed(h), NEW id \in Ids
    PROVE  /\ Settled(id)' => Settled(id)
           /\ id # handler[h].id =>
                /\ journal'[id] = journal[id]
                /\ id \in ActiveGoverned' => id \in ActiveGoverned
           /\ id = handler[h].id /\ id \in ActiveGoverned' =>
                /\ JavaRow(handler[h].draft) /\ IsActive(handler[h].draft)
                /\ Latest(journal'[id]).body = handler[h].draft.body
                /\ Latest(journal'[id]).action = handler[h].draft.action
<1> DEFINE request == handler[h]
<1>1. /\ request \in Saving /\ Insert(request)
      /\ unconfirmed[id] \subseteq unconfirmed'[id]
  BY InsertEffect
<1>2. Settled(id)' => Settled(id)
  BY <1>1 DEF Settled
<1>3. JavaOnly(id)' => JavaOnly(id) /\ (id = request.id => JavaRow(request.draft))
  BY <1>1, JavaOnlyShrinks
<1>4. ASSUME id # request.id
      PROVE  /\ journal'[id] = journal[id]
             /\ id \in ActiveGoverned' => id \in ActiveGoverned
  <2>1. journal'[id] = journal[id]
    BY <1>1, <1>4, InsertExtends
  <2> QED
    BY <1>2, <1>3, <2>1 DEF ActiveGoverned, ActivePolicies, ActiveIn, Governed
<1>5. ASSUME id = request.id, id \in ActiveGoverned'
      PROVE  /\ JavaRow(request.draft) /\ IsActive(request.draft)
             /\ Latest(journal'[id]).body = request.draft.body
             /\ Latest(journal'[id]).action = request.draft.action
  <2>1. /\ journal[id] \in Seq(Entry) /\ journal'[id] = Append(journal[id], Row(request))
        /\ Row(request) \in Entry
    BY <1>1, <1>5, InsertExtends, RowType
  <2>2. Latest(journal'[id]) = Row(request)
    BY <2>1 DEF Latest
  <2>3. JavaOnly(id)' /\ IsActive(Latest(journal'[id]))
    BY <1>5 DEF ActiveGoverned, ActivePolicies, ActiveIn, Governed
  <2> QED
    BY <1>1, <1>3, <1>5, <2>2, <2>3, RowFields DEF IsActive
<1> QED
  BY <1>2, <1>4, <1>5

\* The rows of a settled id: those it had, and the row its handler was told of.
LEMMA InsertRows ==
    ASSUME TypeOK, NEW h \in Handlers, Commit(h) \/ CommitUnconfirmed(h),
           NEW id \in Ids, Settled(id)', NEW v \in DOMAIN journal'[id], JavaRow(journal'[id][v])
    PROVE  \/ /\ v \in DOMAIN journal[id] /\ journal[id][v] = journal'[id][v]
           \/ /\ id = handler[h].id /\ JavaCommit(h)
              /\ journal'[id][v].body = handler[h].draft.body
              /\ v = Len(journal[id]) + 1
<1>1. /\ handler[h] \in Saving /\ handler[h].step = "commit" /\ Insert(handler[h])
  BY InsertEffect
<1>2. CASE id # handler[h].id
  BY <1>1, <1>2, InsertExtends
<1>3. CASE id = handler[h].id
  <2>1. /\ Extends(journal[id], journal'[id])
        /\ DOMAIN journal'[id] = DOMAIN journal[id] \cup {Len(journal[id]) + 1}
        /\ journal'[id][Len(journal[id]) + 1] = Row(handler[h])
    BY <1>1, <1>3, InsertExtends
  <2>2. CASE v \in DOMAIN journal[id]
    BY <2>1, <2>2 DEF Extends
  <2>3. CASE v = Len(journal[id]) + 1
    BY <1>1, <1>3, <2>1, <2>3, RowFields DEF JavaCommit, JavaRow
  <2> QED
    BY <2>1, <2>2, <2>3
<1> QED
  BY <1>2, <1>3

LEMMA InsertMetrics ==
    ASSUME TypeOK, MetricsReady, MetricOwnerUnique,
           NEW h \in Handlers, Commit(h) \/ CommitUnconfirmed(h)
    PROVE  MetricOwnerUnique'
<1> SUFFICES ASSUME NEW a \in Ids, NEW b \in Ids, Settled(a)', Settled(b)', a # b,
                    NEW i \in DOMAIN journal'[a], NEW j \in DOMAIN journal'[b],
                    JavaRow(journal'[a][i]), JavaRow(journal'[b][j])
             PROVE  MetricsOf[journal'[a][i].body] \cap MetricsOf[journal'[b][j].body] = {}
  BY DEF MetricOwnerUnique, JavaRow
<1>1. Settled(a) /\ Settled(b)
  BY InsertGoverned
<1>2. /\ \/ i \in DOMAIN journal[a] /\ journal[a][i] = journal'[a][i]
         \/ a = handler[h].id /\ JavaCommit(h) /\ journal'[a][i].body = handler[h].draft.body
      /\ \/ j \in DOMAIN journal[b] /\ journal[b][j] = journal'[b][j]
         \/ b = handler[h].id /\ JavaCommit(h) /\ journal'[b][j].body = handler[h].draft.body
  BY InsertRows
<1>3. ASSUME JavaCommit(h), Settled(handler[h].id), NEW id \in Ids, id # handler[h].id,
             Settled(id), NEW k \in DOMAIN journal[id], JavaRow(journal[id][k])
      PROVE  MetricsOf[handler[h].draft.body] \cap MetricsOf[journal[id][k].body] = {}
  BY <1>3 DEF MetricsReady, MetricsApart
<1>4. CASE i \in DOMAIN journal[a] /\ journal[a][i] = journal'[a][i]
           /\ j \in DOMAIN journal[b] /\ journal[b][j] = journal'[b][j]
  BY <1>1, <1>4 DEF MetricOwnerUnique, JavaRow
<1>5. CASE a = handler[h].id /\ JavaCommit(h) /\ journal'[a][i].body = handler[h].draft.body
           /\ j \in DOMAIN journal[b] /\ journal[b][j] = journal'[b][j]
  BY <1>1, <1>3, <1>5
<1>6. CASE b = handler[h].id /\ JavaCommit(h) /\ journal'[b][j].body = handler[h].draft.body
           /\ i \in DOMAIN journal[a] /\ journal[a][i] = journal'[a][i]
  BY <1>1, <1>3, <1>6
<1> QED
  BY <1>2, <1>4, <1>5, <1>6

LEMMA WrittenGrows ==
    ASSUME TypeOK, IsFiniteSet(Written), NEW h \in Handlers, Commit(h) \/ CommitUnconfirmed(h)
    PROVE  IsFiniteSet(Written')
<1>1. handler[h] \in Saving /\ Insert(handler[h])
  BY InsertEffect
<1>2. \A id \in Ids \ {handler[h].id} : journal'[id] = journal[id]
  BY <1>1, InsertExtends
<1>3. Written' \subseteq Written \cup {handler[h].id}
  BY <1>2 DEF Written
<1>4. IsFiniteSet(Written \cup {handler[h].id})
  BY FS_AddElement
<1> QED
  BY <1>3, <1>4, FS_Subset

LEMMA GovernedFinite ==
    ASSUME IsFiniteSet(Written)
    PROVE  IsFiniteSet(ActiveGoverned)
<1>1. ActiveGoverned \subseteq Written
  BY DEF ActiveGoverned, ActivePolicies, ActiveIn, Written
<1> QED
  BY <1>1, FS_Subset

LEMMA InsertComposes ==
    ASSUME TypeOK, IsFiniteSet(Written), ComposeReady, ActivePoliciesCompose,
           NEW h \in Handlers, Commit(h) \/ CommitUnconfirmed(h)
    PROVE  ActivePoliciesCompose'
<1> DEFINE id == handler[h].id
<1>1. handler[h] \in Saving /\ handler[h].step = "commit" /\ id \in Ids
  BY InsertEffect DEF Saving
<1>2. /\ IsFiniteSet(ActiveGoverned) /\ Cardinality(ActiveGoverned) \in Nat
      /\ IsFiniteSet(ActiveGoverned \cup {id}) /\ Cardinality(ActiveGoverned \cup {id}) \in Nat
  BY GovernedFinite, FS_AddElement, FS_CardinalityType
<1>3. ActiveGoverned' \subseteq Ids
  BY DEF ActiveGoverned, ActivePolicies, ActiveIn
<1>4. Cardinality(ActiveGoverned') <= MaxPoliciesPerSet
  <2>1. ASSUME NEW T, IsFiniteSet(T), Cardinality(T) \in Nat,
               Cardinality(T) <= MaxPoliciesPerSet, ActiveGoverned' \subseteq T
        PROVE  Cardinality(ActiveGoverned') <= MaxPoliciesPerSet
    <3>1. IsFiniteSet(ActiveGoverned') /\ Cardinality(ActiveGoverned') <= Cardinality(T)
      BY <2>1, FS_Subset
    <3>2. Cardinality(ActiveGoverned') \in Nat
      BY <3>1, FS_CardinalityType
    <3> QED
      BY <2>1, <3>1, <3>2, BoundAssumption
  <2>2. CASE id \in ActiveGoverned'
    <3>1. JavaCommit(h) /\ IsActive(handler[h].draft)
      BY <1>1, <2>2, InsertGoverned DEF JavaCommit
    <3>2. Cardinality(ActiveGoverned \cup {id}) <= MaxPoliciesPerSet
      BY <3>1 DEF ComposeReady
    <3>3. ActiveGoverned' \subseteq ActiveGoverned \cup {id}
      BY <1>3, InsertGoverned
    <3> QED
      BY <1>2, <2>1, <3>2, <3>3
  <2>3. CASE id \notin ActiveGoverned'
    <3>1. ActiveGoverned' \subseteq ActiveGoverned
      BY <1>3, <2>3, InsertGoverned
    <3>2. Cardinality(ActiveGoverned) <= MaxPoliciesPerSet
      BY DEF ActivePoliciesCompose, ActiveGoverned
    <3> QED
      BY <1>2, <2>1, <3>1, <3>2
  <2> QED
    BY <2>2, <2>3
<1>5. ASSUME NEW a \in ActiveGoverned', NEW b \in ActiveGoverned', a # b
      PROVE  RulesOf[Latest(journal'[a]).body] \cap RulesOf[Latest(journal'[b]).body] = {}
  <2>1. ASSUME id \in ActiveGoverned', NEW other \in ActiveGoverned', other # id
        PROVE  RulesOf[Latest(journal'[other]).body] \cap RulesOf[Latest(journal'[id]).body] = {}
    <3>1. /\ JavaCommit(h) /\ IsActive(handler[h].draft)
          /\ Latest(journal'[id]).body = handler[h].draft.body
      BY <1>1, <2>1, InsertGoverned DEF JavaCommit
    <3>2. other \in ActiveGoverned \ {id} /\ journal'[other] = journal[other]
      BY <1>3, <2>1, InsertGoverned
    <3> QED
      BY <3>1, <3>2 DEF ComposeReady, RulesApart
  <2>2. CASE a # id /\ b # id
    <3>1. /\ a \in ActiveGoverned /\ journal'[a] = journal[a]
          /\ b \in ActiveGoverned /\ journal'[b] = journal[b]
      BY <1>3, <2>2, InsertGoverned
    <3> QED
      BY <1>5, <3>1 DEF ActivePoliciesCompose, ActiveGoverned
  <2> QED
    BY <1>5, <2>1, <2>2
<1> QED
  BY <1>4, <1>5 DEF ActivePoliciesCompose, ActiveGoverned

LEMMA InsertDenylist ==
    ASSUME TypeOK, LocksSound, DenylistReady, PublicationsRespectDenylist,
           NEW h \in Handlers, Commit(h) \/ CommitUnconfirmed(h)
    PROVE  PublicationsRespectDenylist' /\ DenylistReady'
<1> DEFINE id == handler[h].id
<1>1. /\ handler[h] \in Saving /\ handler[h].step = "commit" /\ id \in Ids
      /\ denylist' = denylist
      /\ \A g \in Handlers \ {h} : handler'[g] = handler[g]
      /\ handler'[h].step # "commit" /\ handler'[h].step # "replace"
  BY InsertEffect DEF Saving
<1>2. ASSUME NEW a \in ActiveGoverned', Latest(journal'[a]).action = "PUBLISHED"
      PROVE  \/ /\ a \in ActiveGoverned /\ journal'[a] = journal[a]
             \/ /\ a = id /\ JavaCommit(h) /\ handler[h].draft.action = "PUBLISHED"
                /\ Latest(journal'[a]).body = handler[h].draft.body
  <2>1. a \in Ids
    BY DEF ActiveGoverned, ActivePolicies, ActiveIn
  <2> QED
    BY <1>1, <1>2, <2>1, InsertGoverned DEF JavaCommit
<1>3. ASSUME NEW a \in ActiveGoverned', Latest(journal'[a]).action = "PUBLISHED"
      PROVE  ~BreaksDenylist(Latest(journal'[a]).body, denylist)
  <2>1. CASE a \in ActiveGoverned /\ journal'[a] = journal[a]
    BY <1>3, <2>1 DEF PublicationsRespectDenylist, ActiveGoverned
  <2>2. CASE /\ JavaCommit(h) /\ handler[h].draft.action = "PUBLISHED"
             /\ Latest(journal'[a]).body = handler[h].draft.body
    BY <2>2 DEF DenylistReady
  <2> QED
    BY <1>2, <1>3, <2>1, <2>2
<1>4. PublicationsRespectDenylist'
  BY <1>1, <1>3 DEF PublicationsRespectDenylist, ActiveGoverned, BreaksDenylist
<1>5. ASSUME NEW g \in Handlers, JavaCommit(g)', handler'[g].draft.action = "PUBLISHED"
      PROVE  ~BreaksDenylist(handler'[g].draft.body, denylist)
  <2>1. g # h /\ handler'[g] = handler[g]
    BY <1>1, <1>5 DEF JavaCommit
  <2> QED
    BY <1>5, <2>1 DEF DenylistReady, JavaCommit
<1>6. ASSUME NEW g \in Handlers, handler'[g].step = "replace", NEW a \in ActiveGoverned',
             Latest(journal'[a]).action = "PUBLISHED"
      PROVE  ~BreaksDenylist(Latest(journal'[a]).body, handler'[g].proposed)
  <2>1. handler[g].step = "replace" /\ handler'[g] = handler[g]
    BY <1>1, <1>6
  <2>2. securityReaders = {}
    BY <2>1, HandlerAssumption DEF LocksSound
  <2>3. a \in ActiveGoverned /\ journal'[a] = journal[a]
    BY <1>1, <1>2, <1>6, <2>2 DEF LocksSound, JavaCommit
  <2> QED
    BY <1>6, <2>1, <2>3 DEF DenylistReady, PublicationsBreak
<1>7. DenylistReady'
  BY <1>1, <1>5, <1>6 DEF DenylistReady, PublicationsBreak, BreaksDenylist
<1> QED
  BY <1>4, <1>7

LEMMA AdmissionInsert ==
    ASSUME LineageInv, MemoryInv, AdmissionInv, Secured,
           NEW h \in Handlers, Commit(h) \/ CommitUnconfirmed(h)
    PROVE  AdmissionInv' /\ Secured'
<1>1. TypeOK /\ LocksSound
  BY DEF LineageInv, MemoryInv
<1>2. IsFiniteSet(Written) /\ MetricsReady /\ ComposeReady /\ DenylistReady
  BY DEF AdmissionInv
<1>3. MetricOwnerUnique /\ ActivePoliciesCompose /\ PublicationsRespectDenylist
  BY DEF Secured
<1>4. /\ handler[h].step = "commit" /\ handler'[h].step # "commit"
      /\ \A g \in Handlers \ {h} : handler'[g] = handler[g]
      /\ handler[h] \in Saving
  BY <1>1, InsertEffect DEF Saving
<1>5. ASSUME NEW g \in Handlers, JavaCommit(g)' PROVE g # h /\ JavaCommit(g) /\ ~JavaRow(handler[h].draft)
  BY <1>1, <1>4, <1>5 DEF JavaCommit, LocksSound, SavingSteps
<1>6. MetricsReady'
  <2> SUFFICES ASSUME NEW g \in Handlers, JavaCommit(g)', Settled(handler[g].id)',
                      NEW other \in Ids \ {handler'[g].id}, Settled(other)',
                      NEW j \in DOMAIN journal'[other], JavaRow(journal'[other][j])
               PROVE  MetricsOf[handler'[g].draft.body] \cap MetricsOf[journal'[other][j].body] = {}
    BY DEF MetricsReady, MetricsApart, JavaRow
  <2>1. handler'[g] = handler[g] /\ JavaCommit(g) /\ ~JavaCommit(h)
    BY <1>4, <1>5 DEF JavaCommit
  <2>2. handler[g].id \in Ids
    BY <1>1, <2>1, StepKinds DEF JavaCommit, Saving
  <2>3. Settled(handler[g].id) /\ Settled(other)
    BY <1>1, <2>1, <2>2, InsertGoverned
  <2>4. j \in DOMAIN journal[other] /\ journal[other][j] = journal'[other][j]
    BY <1>1, <2>1, InsertRows
  <2> QED
    BY <1>2, <2>1, <2>3, <2>4 DEF MetricsReady, MetricsApart
<1>7. ComposeReady'
  <2> SUFFICES ASSUME NEW g \in Handlers, JavaCommit(g)', IsActive(handler'[g].draft)
               PROVE  /\ Cardinality(ActiveGoverned' \cup {handler'[g].id}) <= MaxPoliciesPerSet
                      /\ \A other \in ActiveGoverned' \ {handler'[g].id} :
                            RulesOf[Latest(journal'[other]).body]
                                \cap RulesOf[handler'[g].draft.body] = {}
    BY DEF ComposeReady, RulesApart
  <2>1. handler'[g] = handler[g] /\ JavaCommit(g) /\ ~JavaRow(handler[h].draft)
    BY <1>4, <1>5
  <2>2. \A other \in ActiveGoverned' : other \in ActiveGoverned /\ journal'[other] = journal[other]
    BY <1>1, <2>1, InsertGoverned DEF ActiveGoverned, ActivePolicies, ActiveIn
  <2>3. /\ Cardinality(ActiveGoverned \cup {handler[g].id}) <= MaxPoliciesPerSet
        /\ RulesApart(handler[g].id, handler[g].draft.body)
    BY <1>2, <2>1 DEF ComposeReady
  <2>4. ActiveGoverned' \cup {handler[g].id} \subseteq ActiveGoverned \cup {handler[g].id}
    BY <2>2
  <2>5. /\ IsFiniteSet(ActiveGoverned \cup {handler[g].id})
        /\ Cardinality(ActiveGoverned \cup {handler[g].id}) \in Nat
    BY <1>2, GovernedFinite, FS_AddElement, FS_CardinalityType
  <2>6. /\ IsFiniteSet(ActiveGoverned' \cup {handler[g].id})
        /\ Cardinality(ActiveGoverned' \cup {handler[g].id})
              <= Cardinality(ActiveGoverned \cup {handler[g].id})
    BY <2>4, <2>5, FS_Subset
  <2>7. Cardinality(ActiveGoverned' \cup {handler[g].id}) <= MaxPoliciesPerSet
    BY <2>3, <2>5, <2>6, FS_CardinalityType, BoundAssumption
  <2> QED
    BY <2>1, <2>2, <2>3, <2>7 DEF RulesApart
<1>8. AdmissionInv'
  BY <1>1, <1>2, <1>3, <1>6, <1>7, WrittenGrows, InsertDenylist DEF AdmissionInv
<1>9. Secured'
  BY <1>1, <1>2, <1>3, InsertMetrics, InsertComposes, InsertDenylist DEF Secured
<1> QED
  BY <1>8, <1>9

\* Steps that add no row leave the journal as it is to judge; at most the denylist moves.
LEMMA SameJournal ==
    ASSUME UNCHANGED <<journal, unconfirmed>>
    PROVE  /\ Written' = Written /\ ActiveGoverned' = ActiveGoverned
           /\ MetricOwnerUnique => MetricOwnerUnique'
           /\ ActivePoliciesCompose => ActivePoliciesCompose'
           /\ \A id \in Ids : \A body : MetricsApart(id, body) => MetricsApart(id, body)'
           /\ \A id \in Ids : Settled(id)' => Settled(id)
<1>1. Written' = Written
  BY DEF Written
<1>2. ActiveGoverned' = ActiveGoverned
  BY DEF ActiveGoverned, ActivePolicies, ActiveIn, Governed, JavaOnly, Settled
<1>3. MetricOwnerUnique => MetricOwnerUnique'
  BY DEF MetricOwnerUnique, Settled
<1>4. ActivePoliciesCompose => ActivePoliciesCompose'
  BY <1>2 DEF ActivePoliciesCompose, ActiveGoverned
<1>5. ASSUME NEW id \in Ids, NEW body, MetricsApart(id, body)
      PROVE  MetricsApart(id, body)'
  BY <1>5 DEF MetricsApart, Settled
<1>6. \A id \in Ids : Settled(id)' => Settled(id)
  BY DEF Settled
<1> QED
  BY <1>1, <1>2, <1>3, <1>4, <1>5, <1>6

\* The reply to an append, and a restart: requests end, nothing else that counts moves.
LEMMA AdmissionEnds ==
    ASSUME TypeOK, AdmissionInv, Secured, UNCHANGED <<journal, unconfirmed, denylist>>,
           \A g \in Handlers : handler'[g] = handler[g] \/ handler'[g].step = "idle"
    PROVE  AdmissionInv' /\ Secured'
<1>1. ASSUME NEW g \in Handlers, handler'[g].step \in {"commit", "replace"}
      PROVE  handler'[g] = handler[g]
  BY <1>1
<1>2. ASSUME NEW g \in Handlers, JavaCommit(g)'
      PROVE  JavaCommit(g) /\ handler'[g] = handler[g]
  BY <1>1, <1>2 DEF JavaCommit
<1>3. MetricsReady'
  <2> SUFFICES ASSUME NEW g \in Handlers, JavaCommit(g)', Settled(handler[g].id)'
               PROVE  MetricsApart(handler[g].id, handler[g].draft.body)'
    BY DEF MetricsReady, MetricsApart
  <2>1. JavaCommit(g) /\ handler'[g] = handler[g] /\ handler[g].id \in Ids
    BY <1>2, StepKinds DEF JavaCommit, Saving
  <2>2. MetricsApart(handler[g].id, handler[g].draft.body)
    BY <2>1, SameJournal DEF AdmissionInv, MetricsReady
  <2> QED
    BY <2>1, <2>2 DEF MetricsApart, Settled
<1>4. ComposeReady'
  BY <1>2, SameJournal DEF AdmissionInv, ComposeReady, RulesApart
<1>5. DenylistReady'
  BY <1>1, <1>2, SameJournal DEF AdmissionInv, DenylistReady, PublicationsBreak, BreaksDenylist, JavaCommit
<1>6. PublicationsRespectDenylist'
  BY SameJournal DEF Secured, PublicationsRespectDenylist, ActiveGoverned, BreaksDenylist
<1> QED
  BY <1>3, <1>4, <1>5, <1>6, SameJournal DEF AdmissionInv, Secured

\* Replacing the denylist is the writer's step: no publication is past its checks.
LEMMA ReplaceAlone ==
    ASSUME TypeOK, LocksSound, NEW h \in Handlers, ReplaceDenylist(h)
    PROVE  /\ handler[h].step = "replace"
           /\ denylist' = denylist \/ denylist' = handler[h].proposed
           /\ handler'[h].step = "idle"
           /\ \A g \in Handlers : JavaCommit(g) => handler[g].draft.action # "PUBLISHED"
<1>1. handler[h].step = "replace" /\ (denylist' = denylist \/ denylist' = handler[h].proposed)
  BY DEF ReplaceDenylist
<1>2. handler'[h].step = "idle"
  BY DEF ReplaceDenylist, Reply, TypeOK, Idle
<1>3. securityReaders = {}
  BY <1>1, HandlerAssumption DEF LocksSound
<1> QED
  BY <1>1, <1>2, <1>3 DEF LocksSound, JavaCommit

\* A denylist is admitted while no publication is under way: what memory shows of the
\* policies published is what the journal holds.
LEMMA ScreeningSound ==
    ASSUME LineageInv, MemoryInv, NEW h \in Handlers, NEW list, UpdateDenylist(h, list)
    PROVE  ~PublicationsBreak(list)
<1> SUFFICES ASSUME NEW id \in ActiveGoverned, Latest(journal[id]).action = "PUBLISHED",
                    BreaksDenylist(Latest(journal[id]).body, list)
             PROVE  FALSE
  BY DEF PublicationsBreak
<1>1. TypeOK
  BY DEF LineageInv
<1>2. securityReaders = {} /\ ~BansActivePolicy(list)
  BY DEF UpdateDenylist, SecurityWritable
<1>3. ~InFlight(id, Len(journal[id]))
  <2> SUFFICES ASSUME NEW g \in Handlers, handler[g].step = "append", handler[g].id = id,
                      handler[g].draft.version = Len(journal[id])
               PROVE  FALSE
    BY DEF InFlight
  <2>1. handler[g].draft = journal[id][Len(journal[id])]
    BY DEF MemoryInv, RowsOfJournal, OfJournal
  <2>2. JavaRow(handler[g].draft) /\ handler[g].draft.action = "PUBLISHED"
    BY <1>1, <2>1, GovernedLatest
  <2> QED
    BY <1>2, <2>2 DEF MemoryInv, LocksSound
<1>4. id \in ActivePolicies(configs) /\ Latest(configs[id]) = Latest(journal[id])
  BY <1>3, GovernedInMemory
<1> QED
  BY <1>2, <1>4 DEF BansActivePolicy


\* How a policy comes to wait for its commit.
LEMMA ReadyCases ==
    ASSUME LineageInv, TypeOK', MemoryInv, OtherStep, NEW g \in Handlers, JavaCommit(g)'
    PROVE  /\ handler'[g].id \in Ids
           /\ \/ JavaCommit(g) /\ handler'[g] = handler[g]
              \/ /\ Admitted(g) /\ handler[g].id \in Ids
                 /\ handler'[g].id = handler[g].id /\ handler'[g].draft = handler[g].draft
              \/ Closing(g) /\ handler'[g].draft.action = "DEACTIVATED" /\ ~handler'[g].draft.active
<1>1. handler'[g] = handler[g] \/ Admitted(g) \/ Closing(g)
  BY DEF OtherStep
<1>2. handler'[g] \in Saving /\ handler'[g].id \in Ids
  BY SMT DEF TypeOK, JavaCommit, Idle, Saving, Screening
<1>3. CASE handler'[g] = handler[g]
  BY <1>2, <1>3 DEF JavaCommit
<1>4. CASE Admitted(g)
  BY <1>2, <1>4, AdmittedHolds DEF LineageInv
<1>5. CASE Closing(g)
  <2>1. journal[handler'[g].id] \in Seq(Entry)
    BY <1>2 DEF LineageInv, TypeOK
  <2>2. Latest(journal[handler'[g].id]) \in Entry
    BY <1>5, <2>1, LatestInLog DEF Closing
  <2>3. handler'[g].draft.action = "DEACTIVATED" /\ ~handler'[g].draft.active
    BY <1>5, <2>2 DEF Closing, Deactivated, Entry
  <2> QED
    BY <1>2, <1>5, <2>3
<1> QED
  BY <1>1, <1>3, <1>4, <1>5

LEMMA OtherMetrics ==
    ASSUME LineageInv, TypeOK', MemoryInv, MetricsReady, MetricOwnerUnique, OtherStep
    PROVE  MetricsReady'
<1> SUFFICES ASSUME NEW g \in Handlers, JavaCommit(g)', Settled(handler[g].id)'
             PROVE  MetricsApart(handler[g].id, handler[g].draft.body)'
  BY DEF MetricsReady
<1> DEFINE id   == handler'[g].id
           body == handler'[g].draft.body
<1>1. UNCHANGED <<journal, unconfirmed>> /\ TypeOK
  BY DEF OtherStep, LineageInv
<1>2. id \in Ids
  BY ReadyCases
<1>3. Settled(id)
  BY <1>1, <1>2 DEF Settled
<1>4. MetricsApart(id, body)
  <2>1. CASE JavaCommit(g) /\ handler'[g] = handler[g]
    BY <1>3, <2>1 DEF MetricsReady
  <2>2. CASE Admitted(g) /\ id = handler[g].id /\ handler'[g].draft = handler[g].draft
    BY <1>1, <2>2, AdmittedMetrics
  <2>3. CASE Closing(g)
    <3>1. /\ journal[id] \in Seq(Entry) /\ journal[id] # <<>>
          /\ handler'[g].draft = Deactivated(Latest(journal[id]))
      BY <1>1, <1>2, <2>3 DEF Closing, TypeOK
    <3>2. /\ Len(journal[id]) \in DOMAIN journal[id]
          /\ Latest(journal[id]) = journal[id][Len(journal[id])] /\ Latest(journal[id]) \in Entry
      BY <3>1, LatestInLog
    <3>3. /\ body = journal[id][Len(journal[id])].body
          /\ JavaRow(journal[id][Len(journal[id])])
      BY <3>1, <3>2 DEF Deactivated, Entry, JavaCommit, JavaRow
    <3> QED
      BY <1>2, <1>3, <3>2, <3>3 DEF MetricOwnerUnique, MetricsApart, JavaRow
  <2> QED
    BY <2>1, <2>2, <2>3, ReadyCases
<1>5. ASSUME NEW other \in Ids \ {id}, Settled(other)', NEW j \in DOMAIN journal[other],
             JavaRow(journal[other][j])
      PROVE  MetricsOf[body] \cap MetricsOf[journal[other][j].body] = {}
  BY <1>1, <1>4, <1>5 DEF MetricsApart, Settled
<1> QED
  BY <1>1, <1>5 DEF MetricsApart, JavaRow

LEMMA OtherComposes ==
    ASSUME LineageInv, TypeOK', MemoryInv, IsFiniteSet(Written), ComposeReady, OtherStep
    PROVE  ComposeReady'
<1> SUFFICES ASSUME NEW g \in Handlers, JavaCommit(g)', IsActive(handler'[g].draft)
             PROVE  /\ Cardinality(ActiveGoverned' \cup {handler'[g].id}) <= MaxPoliciesPerSet
                    /\ RulesApart(handler[g].id, handler[g].draft.body)'
  BY DEF ComposeReady
<1>1. UNCHANGED <<journal, unconfirmed>> /\ ActiveGoverned' = ActiveGoverned
  BY SameJournal DEF OtherStep
<1>2. CASE JavaCommit(g) /\ handler'[g] = handler[g]
  BY <1>1, <1>2 DEF ComposeReady, RulesApart
<1>3. CASE Admitted(g) /\ handler'[g].id = handler[g].id /\ handler'[g].draft = handler[g].draft
  BY <1>1, <1>3, AdmittedComposes DEF RulesApart
<1> QED
  BY <1>2, <1>3, ReadyCases DEF IsActive

LEMMA OtherDenylist ==
    ASSUME LineageInv, TypeOK', MemoryInv, DenylistReady, PublicationsRespectDenylist, OtherStep
    PROVE  DenylistReady' /\ PublicationsRespectDenylist'
<1>1. /\ UNCHANGED <<journal, unconfirmed>> /\ ActiveGoverned' = ActiveGoverned
      /\ TypeOK /\ LocksSound
  BY SameJournal DEF OtherStep, LineageInv, MemoryInv
<1>2. ASSUME NEW g \in Handlers, JavaCommit(g)', handler'[g].draft.action = "PUBLISHED"
      PROVE  ~BreaksDenylist(handler'[g].draft.body, denylist')
  <2>1. CASE JavaCommit(g) /\ handler'[g] = handler[g]
    <3>1. denylist' = denylist
      BY <1>1, <1>2, <2>1, ReplaceAlone DEF OtherStep
    <3> QED
      BY <1>2, <2>1, <3>1 DEF DenylistReady
  <2>2. CASE Admitted(g) /\ handler'[g].draft = handler[g].draft
    <3>1. ASSUME NEW h \in Handlers, ReplaceDenylist(h) PROVE FALSE
      <4>1. handler[h].step = "replace" /\ handler'[h].step = "idle"
        BY <1>1, <3>1, ReplaceAlone
      <4>2. h # g
        BY <2>2, <4>1 DEF Admitted
      <4> QED
        BY <1>1, <2>2, <4>1, <4>2, AdmittedHolds
    <3>2. denylist' = denylist
      BY <3>1 DEF OtherStep
    <3>3. ~BreaksDenylist(handler[g].draft.body, denylist)
      BY <2>2 DEF Admitted, PolicyAccepted
    <3> QED
      BY <2>2, <3>2, <3>3
  <2> QED
    BY <1>2, <2>1, <2>2, ReadyCases
<1>3. ASSUME NEW g \in Handlers, handler'[g].step = "replace"
      PROVE  ~PublicationsBreak(handler'[g].proposed)
  <2>1. CASE handler'[g] = handler[g]
    BY <1>3, <2>1 DEF DenylistReady
  <2>2. CASE UpdateDenylist(g, handler'[g].proposed)
    BY <2>2, ScreeningSound
  <2> QED
    BY <1>3, <2>1, <2>2 DEF OtherStep
<1>4. DenylistReady'
  BY <1>1, <1>2, <1>3 DEF DenylistReady, PublicationsBreak, BreaksDenylist
<1>5. ~PublicationsBreak(denylist)
  BY DEF PublicationsRespectDenylist, PublicationsBreak, ActiveGoverned
<1>6. ~PublicationsBreak(denylist')
  <2>1. CASE denylist' = denylist
    BY <1>5, <2>1
  <2>2. ASSUME NEW h \in Handlers, ReplaceDenylist(h)
        PROVE  ~PublicationsBreak(denylist')
    BY <1>1, <1>5, <2>2, ReplaceAlone DEF DenylistReady
  <2> QED
    BY <2>1, <2>2 DEF OtherStep
<1>7. ASSUME NEW id \in ActiveGoverned, Latest(journal[id]).action = "PUBLISHED"
      PROVE  ~BreaksDenylist(Latest(journal[id]).body, denylist')
  BY <1>6, <1>7 DEF PublicationsBreak
<1>8. PublicationsRespectDenylist'
  BY <1>1, <1>7 DEF PublicationsRespectDenylist, ActiveGoverned, BreaksDenylist
<1> QED
  BY <1>4, <1>8

\* The inductive invariant of the journal, its memory and its admissions.
JournalInv == LineageInv /\ MemoryInv /\ AdmissionInv /\ Secured

LEMMA JournalNext == JournalInv /\ [Next]_vars => JournalInv'
<1> SUFFICES ASSUME JournalInv, [Next]_vars PROVE JournalInv'
  OBVIOUS
<1>1. LineageInv /\ MemoryInv /\ AdmissionInv /\ Secured /\ TypeOK /\ LocksSound
  BY DEF JournalInv, LineageInv, MemoryInv
<1>2. LineageInv' /\ MemoryInv' /\ TypeOK'
  BY <1>1, LineageNext, MemoryNext, TypeNext
<1>3. ASSUME NEW h \in Handlers, Commit(h) \/ CommitUnconfirmed(h)
      PROVE  AdmissionInv' /\ Secured'
  BY <1>1, <1>3, AdmissionInsert
<1>4. ASSUME NEW h \in Handlers, AppendToMemory(h)
      PROVE  AdmissionInv' /\ Secured'
  <2>1. UNCHANGED <<journal, unconfirmed, denylist>>
    BY <1>4 DEF AppendToMemory, persistent
  <2>2. \A g \in Handlers : handler'[g] = handler[g] \/ handler'[g].step = "idle"
    BY <1>1, <1>4 DEF AppendToMemory, Reply, TypeOK, Idle
  <2> QED
    BY <1>1, <2>1, <2>2, AdmissionEnds
<1>5. CASE Restart
  <2>1. UNCHANGED <<journal, unconfirmed, denylist>>
    BY <1>5 DEF Restart, persistent
  <2>2. \A g \in Handlers : handler'[g] = handler[g] \/ handler'[g].step = "idle"
    BY <1>5 DEF Restart, Idle
  <2> QED
    BY <1>1, <1>2, <2>1, <2>2, AdmissionEnds DEF JournalInv
<1>6. CASE OtherStep
  <2>1. IsFiniteSet(Written) /\ MetricsReady /\ ComposeReady /\ DenylistReady
    BY <1>1 DEF AdmissionInv
  <2>2. MetricOwnerUnique /\ ActivePoliciesCompose /\ PublicationsRespectDenylist
    BY <1>1 DEF Secured
  <2>3. Written' = Written /\ MetricOwnerUnique' /\ ActivePoliciesCompose'
    BY <1>6, <2>2, SameJournal DEF OtherStep
  <2>4. MetricsReady'
    BY <1>1, <1>2, <1>6, <2>1, <2>2, OtherMetrics
  <2>5. ComposeReady'
    BY <1>1, <1>2, <1>6, <2>1, OtherComposes
  <2>6. DenylistReady' /\ PublicationsRespectDenylist'
    BY <1>1, <1>2, <1>6, <2>1, <2>2, OtherDenylist
  <2>7. IsFiniteSet(Written')
    BY <2>1, <2>3
  <2> QED
    BY <1>2, <2>3, <2>4, <2>5, <2>6, <2>7 DEF JournalInv, AdmissionInv, Secured
<1> QED
  BY <1>1, <1>2, <1>3, <1>4, <1>5, <1>6, StepCases DEF JournalInv

LEMMA JournalAlways == Spec => []JournalInv
<1>1. Init => JournalInv
  BY LineageInit, MemoryInit, AdmissionInit DEF JournalInv
<1> QED
  BY <1>1, JournalNext, PTL DEF Spec

\* A metric name belongs for ever to one policy id, although the check reads memory and the
\* row is committed later, and whatever a lost reply or a restart did in between
\* (validateExistingMetricNames, policyLifecycleMu).
THEOREM JournalMetricOwner == Spec => []MetricOwnerUnique
<1>1. JournalInv => MetricOwnerUnique
  BY DEF JournalInv, Secured
<1> QED
  BY <1>1, JournalAlways, PTL

\* The policies in service always fit one PolicySet: their number within the limit and no
\* rule defined twice, for any limit (encodePolicySet, validatePolicySetCompatibility).
THEOREM JournalPoliciesCompose == Spec => []ActivePoliciesCompose
<1>1. JournalInv => ActivePoliciesCompose
  BY DEF JournalInv, Secured
<1> QED
  BY <1>1, JournalAlways, PTL

\* No publication in service captures what the denylist bans, however denylist updates and
\* publications interleave (securityPolicyMu, held from the checks to the append).
THEOREM JournalPublicationsRespectDenylist == Spec => []PublicationsRespectDenylist
<1>1. JournalInv => PublicationsRespectDenylist
  BY DEF JournalInv, Secured
<1> QED
  BY <1>1, JournalAlways, PTL

=============================================================================
