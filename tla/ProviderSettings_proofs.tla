----------------------- MODULE ProviderSettings_proofs ------------------------
(***************************************************************************)
(* Theorems about ProviderSettings, for any administrators, any clients    *)
(* and any bound.                                                          *)
(*                                                                         *)
(* Four invariants, each of which the next one may use: types; what every  *)
(* copy of a provider satisfies, wherever it is held; that all copies of   *)
(* one stamp are of one edition; and how far memory may be from the row.   *)
(***************************************************************************)
EXTENDS ProviderSettings, TLAPS

USE AbsentAssumption

\* A save names a client until the handler has made a provider of it; a handler about to
\* commit has one in hand.  Only a creation finds no row.
Complete(r) ==
    /\ r.kind = "save" /\ r.stage = "sent" => r.client \in Clients
    /\ r.kind # "delete" /\ r.stage \in {"checked", "vacant"} => r.provider \in Provider
    /\ r.kind = "save" /\ r.stage \in {"checked", "vacant"} => r.provider.status = "CONFIGURED"
    /\ r.stage = "vacant" => r.kind = "save" /\ r.expected = 0

IType ==
    /\ TypeOK
    /\ \A a \in Admins : request[a] # Absent => Complete(request[a])

-----------------------------------------------------------------------------
(* Types                                                                   *)

LEMMA CarryingType ==
    ASSUME NEW kind \in Kinds, NEW stage \in Stages, NEW expected \in Nat, NEW base \in Nat,
           NEW p \in {Absent} \cup Provider
    PROVE  Carrying(kind, stage, expected, base, p) \in Request
  BY DEF Carrying, Request

LEMMA BlankType ==
    ASSUME NEW kind \in Kinds, NEW stage \in Stages
    PROVE  /\ Blank(kind, stage) \in Request
           /\ Blank(kind, stage).kind = kind /\ Blank(kind, stage).stage = stage
  BY CarryingType DEF Blank, Carrying

LEMMA BoundSecretType ==
    ASSUME memory \in {Absent} \cup Provider, NEW client \in Clients, NEW typed \in BOOLEAN
    PROVE  BoundSecret(memory, client, typed) \in {Absent} \cup Clients
  BY DEF BoundSecret, Provider

LEMMA LoadedDraft ==
    ASSUME NEW d \in {Absent} \cup Draft, NEW p \in {Absent} \cup Provider
    PROVE  DraftAfterLoad(d, p) \in {Absent} \cup Draft
  BY DEF DraftAfterLoad, FromModel, Draft, Provider

LEMMA TypeInit ==
    Init => IType
  <1> SUFFICES ASSUME Init PROVE IType
    OBVIOUS
  <1>1. \A a \in Admins : request[a] = Absent
    BY DEF Init
  <1>2. TypeOK
    BY DEF Init, TypeOK
  <1> QED BY <1>1, <1>2 DEF IType

LEMMA LoadType ==
    ASSUME IType, NEW a \in Admins, Load(a)
    PROVE  IType'
  BY LoadedDraft DEF IType, TypeOK, Complete, Load

LEMMA AddProviderType ==
    ASSUME IType, NEW a \in Admins, AddProvider(a)
    PROVE  IType'
  BY DEF IType, TypeOK, Complete, AddProvider, NewDraft, Draft

LEMMA UpdateDraftType ==
    ASSUME IType, NEW a \in Admins, NEW c \in Clients, NEW typed \in BOOLEAN,
           UpdateDraft(a, c, typed)
    PROVE  IType'
  <1>1. draft[a] \in Draft
    BY DEF IType, TypeOK, Complete, UpdateDraft
  <1>2. [draft[a] EXCEPT !.client = c, !.typed = typed, !.dirty = TRUE] \in Draft
    BY <1>1 DEF Draft
  <1>3. draft' = [draft EXCEPT
                    ![a] = [draft[a] EXCEPT !.client = c, !.typed = typed, !.dirty = TRUE]]
    BY DEF UpdateDraft, IType, TypeOK
  <1> QED BY <1>2, <1>3 DEF IType, TypeOK, Complete, UpdateDraft

LEMMA SubmitSaveType ==
    ASSUME IType, NEW a \in Admins, SubmitSave(a)
    PROVE  IType'
  <1>1. draft[a] \in Draft
    BY DEF IType, TypeOK, Complete, SubmitSave
  <1>2. Sent(draft[a]) \in Request /\ Sent(draft[a]).client \in Clients
    BY <1>1 DEF Sent, Request, Draft, Kinds, Stages
  <1> QED BY <1>1, <1>2 DEF IType, TypeOK, Complete, SubmitSave, Sent

LEMMA SubmitDeleteType ==
    ASSUME IType, NEW a \in Admins, SubmitDelete(a)
    PROVE  IType'
  <1>1. /\ Blank("delete", "sent") \in Request
        /\ Blank("delete", "sent").kind = "delete" /\ Blank("delete", "sent").stage = "sent"
    BY BlankType DEF Kinds, Stages
  <1> QED BY <1>1 DEF IType, TypeOK, Complete, SubmitDelete

LEMMA CancelNewType ==
    ASSUME IType, NEW a \in Admins, CancelNew(a)
    PROVE  IType'
  BY DEF IType, TypeOK, Complete, CancelNew

LEMMA AnswerType ==
    ASSUME IType, NEW a \in Admins, Answer(a)
    PROVE  IType'
  <1>1. PICK r \in {Absent} \cup Request :
            /\ request' = [request EXCEPT ![a] = r]
            /\ r # Absent => r.kind = "preflight" /\ r.stage = "sent"
    <2>1. /\ Blank("preflight", "sent") \in Request
          /\ Blank("preflight", "sent").kind = "preflight"
          /\ Blank("preflight", "sent").stage = "sent"
      BY BlankType DEF Kinds, Stages, Blank, Carrying
    <2> QED BY <2>1 DEF Answer
  <1>2. draft' \in [Admins -> {Absent} \cup Draft]
    <2>1. CASE draft' = draft
      BY <2>1 DEF IType, TypeOK, Complete
    <2>2. CASE draft' # draft
      <3>1. draft[a] \in Draft
        BY <2>2 DEF Answer, IType, TypeOK
      <3>2. Acknowledged(draft[a]) \in {Absent} \cup Draft
        BY <3>1 DEF Acknowledged, Draft
      <3>3. draft' = [draft EXCEPT ![a] = Acknowledged(draft[a])]
        BY <2>2 DEF Answer
      <3>4. draft \in [Admins -> {Absent} \cup Draft]
        BY DEF IType, TypeOK
      <3> QED BY <3>2, <3>3, <3>4
    <2> QED BY <2>1, <2>2
  <1>3. UNCHANGED <<row, memory, stamps, probed, astray>>
    BY DEF Answer
  <1> QED BY <1>1, <1>2, <1>3 DEF IType, TypeOK, Complete

\* The provider a save is about to write is complete.
LEMMA UpdatedType ==
    ASSUME IType, NEW a \in Admins, CheckUpdate(a)
    PROVE  /\ request[a] \in Request /\ request[a].client \in Clients
           /\ Updated(request[a]) \in Provider
  <1>1. request[a] \in Request /\ request[a].client \in Clients
    BY DEF CheckUpdate, At, IType, TypeOK, Complete
  <1>2. BoundSecret(memory, request[a].client, request[a].typed) \in Clients
    BY <1>1, BoundSecretType DEF CheckUpdate, IType, TypeOK, Request
  <1> QED BY <1>1, <1>2 DEF Updated, Provider, Statuses

LEMMA CheckUpdateType ==
    ASSUME IType, NEW a \in Admins, CheckUpdate(a)
    PROVE  IType'
  <1> DEFINE r == Carrying("save", "checked", request[a].expected, request[a].base,
                           Updated(request[a]))
  <1>1. r \in Request /\ r.stage = "checked" /\ r.provider \in Provider
        /\ r.provider.status = "CONFIGURED"
    BY UpdatedType, CarryingType DEF Kinds, Stages, Request, Carrying, Updated
  <1>2. request' = [request EXCEPT ![a] = r] /\ UNCHANGED <<row, memory, stamps, draft, probed, astray>>
    BY DEF CheckUpdate
  <1> HIDE DEF r
  <1> QED BY <1>1, <1>2 DEF IType, TypeOK, Complete

LEMMA CheckKnownType ==
    ASSUME IType, NEW a \in Admins, CheckKnown(a)
    PROVE  IType'
  <1> DEFINE r == IF request[a].kind = "delete" THEN Blank("delete", "checked")
                  ELSE Carrying("preflight", "checked", memory.stamp, 0, memory)
  <1>1. memory \in Provider /\ memory.stamp \in Nat
    BY DEF CheckKnown, IType, TypeOK, Provider
  <1>2. r \in Request /\ Complete(r)
    BY <1>1, BlankType, CarryingType DEF Kinds, Stages, Complete, Carrying
  <1>3. request' = [request EXCEPT ![a] = r] /\ UNCHANGED <<row, memory, stamps, draft, probed, astray>>
    BY DEF CheckKnown
  <1> HIDE DEF r
  <1> QED BY <1>2, <1>3 DEF IType, TypeOK, Complete

LEMMA RefuseType ==
    ASSUME IType, NEW a \in Admins, Refuse(a)
    PROVE  IType'
  BY DEF IType, TypeOK, Complete, Refuse

LEMMA FindVacantType ==
    ASSUME IType, NEW a \in Admins, FindVacant(a)
    PROVE  IType'
  <1> DEFINE r == [request[a] EXCEPT !.stage = "vacant"]
  <1>1. request[a] \in Request /\ Complete(request[a])
        /\ request[a].kind = "save" /\ request[a].stage = "checked" /\ request[a].expected = 0
    BY DEF FindVacant, At, IType, TypeOK
  <1>2. r \in Request /\ r.kind = "save" /\ r.stage = "vacant" /\ r.expected = 0
        /\ r.provider = request[a].provider
    BY <1>1 DEF Request, Stages
  <1>3. r \in Request /\ Complete(r)
    BY <1>1, <1>2 DEF Complete
  <1>4. request' = [request EXCEPT ![a] = r]
        /\ UNCHANGED <<row, memory, stamps, draft, probed, astray>>
    BY DEF FindVacant, IType, TypeOK
  <1> HIDE DEF r
  <1> QED BY <1>3, <1>4 DEF IType, TypeOK

\* A request that was written has been answered by the database, or its reply is lost.
LEMMA Written ==
    ASSUME NEW a \in Admins, NEW p, NEW unlocked, Write(a, p, unlocked)
    PROVE  \/ /\ request' = [request EXCEPT ![a] =
                      Carrying(request[a].kind, "committed", 0, 0, p)]
              /\ astray' = (astray \/ (unlocked /\ Committing(a)))
           \/ request' = [request EXCEPT ![a] = Absent] /\ astray' = TRUE
  BY DEF Write

LEMMA WriteType ==
    ASSUME IType, NEW a \in Admins, request[a] # Absent, NEW p \in {Absent} \cup Provider,
           NEW unlocked \in BOOLEAN, Write(a, p, unlocked),
           NEW good \in SUBSET Nat, probed' = good, stamps' \in Nat
    PROVE  IType'
  <1> DEFINE r == Carrying(request[a].kind, "committed", 0, 0, p)
  <1>1. r \in Request /\ r.stage = "committed"
    BY CarryingType DEF IType, TypeOK, Request, Stages, Carrying
  <1>2. request' = [request EXCEPT ![a] = r] \/ request' = [request EXCEPT ![a] = Absent]
    BY Written
  <1> HIDE DEF r
  <1>3. astray' \in BOOLEAN
    BY Written DEF Committing, IType, TypeOK
  <1>4. row' = p /\ UNCHANGED <<memory, draft>>
    BY DEF Write
  <1> QED BY <1>1, <1>2, <1>3, <1>4 DEF IType, TypeOK, Complete

LEMMA CommitType ==
    ASSUME IType, NEW a \in Admins, request[a] # Absent, NEW p \in Provider, Commit(a, p),
           NEW good \in SUBSET Nat, probed' = good
    PROVE  IType'
  <1>1. Write(a, p, At(a, "vacant")) /\ stamps' \in Nat /\ At(a, "vacant") \in BOOLEAN
    BY DEF Commit, At, IType, TypeOK
  <1> QED BY <1>1, WriteType

LEMMA SavedType ==
    ASSUME NEW p \in Provider, NEW stamp \in Nat
    PROVE  Saved(p, stamp) \in Provider
  BY DEF Saved, Provider

LEMMA JudgedType ==
    ASSUME NEW p \in Provider, NEW verdict \in {"VALIDATED", "ERROR"}, NEW stamp \in Nat
    PROVE  Judged(p, verdict, stamp) \in Provider
  BY DEF Judged, Provider, Statuses

LEMMA CheckedProvider ==
    ASSUME IType, NEW a \in Admins, At(a, "checked") \/ At(a, "vacant"),
           request[a].kind # "delete"
    PROVE  request[a].provider \in Provider /\ request[a] # Absent
  BY DEF IType, Complete, At

LEMMA CommitUpdateType ==
    ASSUME IType, NEW a \in Admins, CommitUpdate(a)
    PROVE  IType'
  <1>1. request[a].provider \in Provider /\ request[a] # Absent
    BY CheckedProvider DEF CommitUpdate, Locked
  <1>2. Saved(request[a].provider, stamps + 1) \in Provider
    BY <1>1, SavedType DEF IType, TypeOK
  <1>3. probed' = probed /\ probed \in SUBSET Nat
    BY DEF CommitUpdate, IType, TypeOK
  <1> QED BY <1>1, <1>2, <1>3, CommitType DEF CommitUpdate

LEMMA CommitPreflightType ==
    ASSUME IType, NEW a \in Admins, CommitPreflight(a)
    PROVE  IType'
  <1>1. request[a].provider \in Provider /\ request[a] # Absent
    BY CheckedProvider DEF CommitPreflight, Locked
  <1>2. PICK verdict \in {"VALIDATED", "ERROR"} :
            /\ Commit(a, Judged(request[a].provider, verdict, stamps + 1))
            /\ probed' = IF verdict = "VALIDATED"
                         THEN probed \cup {request[a].provider.edition} ELSE probed
    BY DEF CommitPreflight
  <1>3. Judged(request[a].provider, verdict, stamps + 1) \in Provider
    BY <1>1, JudgedType DEF IType, TypeOK
  <1>4. probed' \in SUBSET Nat
    BY <1>1, <1>2 DEF IType, TypeOK, Provider
  <1> QED BY <1>1, <1>2, <1>3, <1>4, CommitType

LEMMA CommitDeleteType ==
    ASSUME IType, NEW a \in Admins, CommitDelete(a)
    PROVE  IType'
  <1>1. request[a] # Absent /\ Write(a, Absent, TRUE) /\ stamps' \in Nat
        /\ probed' = probed /\ probed \in SUBSET Nat
    BY DEF CommitDelete, At, IType, TypeOK
  <1> QED BY <1>1, WriteType

LEMMA InstallType ==
    ASSUME IType, NEW a \in Admins, Install(a)
    PROVE  IType'
  <1> DEFINE r == Blank(request[a].kind, "answered")
  <1>1. request[a] \in Request
    BY DEF Install, At, IType, TypeOK
  <1>2. r \in Request /\ r.stage = "answered"
    BY <1>1, BlankType DEF Stages, Request, Blank, Carrying
  <1>3. request' = [request EXCEPT ![a] = r] /\ memory' \in {Absent} \cup Provider
    BY <1>1 DEF Install, Request
  <1> HIDE DEF r
  <1> QED BY <1>2, <1>3 DEF IType, TypeOK, Complete, Install

LEMMA RestartType ==
    ASSUME IType, Restart
    PROVE  IType'
  <1>1. \A a \in Admins : request'[a] = Absent
    BY DEF Restart
  <1>2. TypeOK'
    BY DEF IType, TypeOK, Restart
  <1> QED BY <1>1, <1>2 DEF IType

LEMMA TypeStep ==
    ASSUME IType, [Next]_vars
    PROVE  IType'
  <1>1. CASE UNCHANGED vars
    BY <1>1 DEF vars, IType, TypeOK, Complete
  <1>2. CASE Restart
    BY <1>2, RestartType
  <1>3. ASSUME NEW a \in Admins, Console(a)
        PROVE  IType'
    BY <1>3, LoadType, AddProviderType, CancelNewType, UpdateDraftType, SubmitSaveType,
       SubmitDeleteType, AnswerType DEF Console
  <1>4. ASSUME NEW a \in Admins, Handler(a)
        PROVE  IType'
    BY <1>4, CheckUpdateType, CheckKnownType, RefuseType, FindVacantType, CommitUpdateType,
       CommitPreflightType, CommitDeleteType, InstallType DEF Handler
  <1> QED BY <1>1, <1>2, <1>3, <1>4 DEF Next

\* The rows, the copies, the drafts and the requests are what they are declared to be.
THEOREM ProviderTypeCorrect == Spec => []TypeOK
  <1>1. IType => TypeOK
    BY DEF IType
  <1> QED BY <1>1, TypeInit, TypeStep, PTL DEF Spec

-----------------------------------------------------------------------------
(* Every copy of a provider                                                *)

Sound(p, good) ==
    p # Absent => /\ p.secret = p.client
                  /\ p.status = "VALIDATED" => p.edition \in good

ISound ==
    /\ Sound(row, probed) /\ Sound(memory, probed)
    /\ \A a \in Admins : request[a] # Absent => Sound(request[a].provider, probed)

LEMMA BoundSecretSound ==
    ASSUME IType, ISound, NEW a \in Admins, CheckUpdate(a)
    PROVE  Sound(Updated(request[a]), probed)
  <1>1. BoundSecret(memory, request[a].client, request[a].typed) = request[a].client
    BY DEF ISound, Sound, CheckUpdate, BoundSecret
  <1> QED BY <1>1 DEF Sound, Updated

LEMMA WriteSound ==
    ASSUME IType, ISound, NEW a \in Admins, NEW p, NEW unlocked, Write(a, p, unlocked),
           probed \subseteq probed', Sound(p, probed')
    PROVE  ISound'
  <1>1. request'[a] = Carrying(request[a].kind, "committed", 0, 0, p) \/ request'[a] = Absent
    BY Written DEF IType, TypeOK
  <1>2. request'[a] # Absent => request'[a].provider = p
    BY <1>1 DEF Carrying
  <1>3. \A b \in Admins \ {a} : request'[b] = request[b]
    BY Written DEF IType, TypeOK
  <1>4. row' = p /\ memory' = memory
    BY DEF Write
  <1> QED BY <1>2, <1>3, <1>4 DEF ISound, Sound

LEMMA SoundStep ==
    ASSUME IType, ISound, [Next]_vars
    PROVE  ISound'
  <1>1. CASE UNCHANGED vars
    BY <1>1 DEF vars, ISound, Sound
  <1>2. CASE Restart
    <2>1. \A a \in Admins : request'[a] = Absent
      BY <1>2 DEF Restart
    <2> QED BY <1>2, <2>1 DEF Restart, ISound, Sound
  <1>3. ASSUME NEW a \in Admins, Console(a)
        PROVE  ISound'
    <2>1. UNCHANGED <<row, memory, probed>>
      BY <1>3 DEF Console, Load, AddProvider, CancelNew, UpdateDraft, SubmitSave, SubmitDelete, Answer
    <2>2. \E r : /\ r # Absent => r = request[a] \/ r.provider = Absent
                 /\ request' = [request EXCEPT ![a] = r]
      <3>1. Sent(draft[a]).provider = Absent /\ Blank("delete", "sent").provider = Absent
            /\ Blank("preflight", "sent").provider = Absent
        BY DEF Sent, Blank, Carrying
      <3>2. request = [request EXCEPT ![a] = request[a]]
        BY DEF IType, TypeOK
      <3>3. \/ request' = request
            \/ request' = [request EXCEPT ![a] = Sent(draft[a])]
            \/ request' = [request EXCEPT ![a] = Blank("delete", "sent")]
            \/ request' = [request EXCEPT ![a] = Blank("preflight", "sent")]
            \/ request' = [request EXCEPT ![a] = Absent]
        BY <1>3 DEF Console, Load, AddProvider, CancelNew, UpdateDraft, SubmitSave, SubmitDelete,
                    Answer
      <3> QED BY <3>1, <3>2, <3>3
    <2> QED BY <2>1, <2>2 DEF ISound, Sound, IType, TypeOK
  <1>4. ASSUME NEW a \in Admins, Handler(a)
        PROVE  ISound'
    <2>1. CASE CheckUpdate(a)
      <3>1. /\ UNCHANGED <<row, memory, probed>> /\ request'[a].provider = Updated(request[a])
            /\ \A b \in Admins \ {a} : request'[b] = request[b]
        BY <2>1 DEF CheckUpdate, Carrying, IType, TypeOK
      <3> QED BY <2>1, <3>1, BoundSecretSound DEF ISound
    <2>2. CASE CheckKnown(a)
      <3>1. /\ UNCHANGED <<row, memory, probed>> /\ request'[a].provider \in {Absent, memory}
            /\ \A b \in Admins \ {a} : request'[b] = request[b]
        BY <2>2 DEF CheckKnown, Blank, Carrying, IType, TypeOK
      <3> QED BY <3>1 DEF ISound, Sound
    <2>3. CASE Refuse(a)
      BY <2>3 DEF Refuse, ISound, Sound, IType, TypeOK
    <2>4. CASE CommitUpdate(a)
      <3>1. Sound(Saved(request[a].provider, stamps + 1), probed)
        <4>1. request[a].provider \in Provider /\ request[a].provider.status # "VALIDATED"
          BY <2>4, CheckedProvider DEF CommitUpdate, Locked, IType, Complete, At
        <4> QED BY <4>1, <2>4 DEF CommitUpdate, Locked, ISound, Sound, Saved, At
      <3> QED BY <2>4, <3>1, WriteSound DEF CommitUpdate, Commit
    <2>5. CASE CommitPreflight(a)
      <3>1. request[a].provider \in Provider /\ Sound(request[a].provider, probed)
        BY <2>5, CheckedProvider DEF CommitPreflight, Locked, ISound, At
      <3>2. PICK verdict \in {"VALIDATED", "ERROR"} :
              /\ Commit(a, Judged(request[a].provider, verdict, stamps + 1))
              /\ probed' = IF verdict = "VALIDATED"
                           THEN probed \cup {request[a].provider.edition} ELSE probed
        BY <2>5 DEF CommitPreflight
      <3>3. Sound(Judged(request[a].provider, verdict, stamps + 1), probed')
        BY <3>1, <3>2 DEF Sound, Judged
      <3>4. probed \subseteq probed'
        BY <3>2
      <3> QED BY <3>2, <3>3, <3>4, WriteSound DEF Commit
    <2>6. CASE CommitDelete(a)
      <3>1. Write(a, Absent, TRUE) /\ probed' = probed /\ Sound(Absent, probed')
        BY <2>6 DEF CommitDelete, Sound
      <3> QED BY <3>1, WriteSound
    <2>7. CASE Install(a)
      <3>1. /\ UNCHANGED <<row, probed>> /\ request'[a].provider = Absent
            /\ memory' = request[a].provider /\ request[a] # Absent
            /\ \A b \in Admins \ {a} : request'[b] = request[b]
        BY <2>7 DEF Install, At, Blank, Carrying, IType, TypeOK
      <3> QED BY <3>1 DEF ISound, Sound
    <2>8. CASE FindVacant(a)
      <3>1. /\ UNCHANGED <<row, memory, probed>> /\ request[a] # Absent
            /\ request'[a].provider = request[a].provider
            /\ \A b \in Admins \ {a} : request'[b] = request[b]
        BY <2>8 DEF FindVacant, At, Request, IType, TypeOK
      <3> QED BY <3>1 DEF ISound, Sound
    <2> QED BY <1>4, <2>1, <2>2, <2>3, <2>4, <2>5, <2>6, <2>7, <2>8 DEF Handler
  <1> QED BY <1>1, <1>2, <1>3, <1>4 DEF Next

-----------------------------------------------------------------------------
(* Stamps and editions                                                     *)

\* stamp belongs to edition, and is not of the future.
Dated(of, stamp, edition) == stamp \in 0..stamps /\ of[stamp] = edition

Agrees(of) ==
    /\ of \in [Nat -> Nat] /\ of[0] = 0
    /\ Dated(of, Stamp(row), Edition(row))
    /\ Dated(of, Stamp(memory), Edition(memory))
    /\ \A a \in Admins :
        /\ draft[a] # Absent => Dated(of, draft[a].expected, draft[a].base)
        /\ request[a] # Absent =>
            /\ Dated(of, Stamp(request[a].provider), Edition(request[a].provider))
            /\ request[a].kind = "save" => Dated(of, request[a].expected, request[a].base)
            /\ request[a].expected \in 0..stamps

\* Whoever holds a copy of one stamp holds a copy of one edition.
IEdition == \E of : Agrees(of)

LEMMA EditionInit ==
    Init => IEdition
  <1> SUFFICES ASSUME Init PROVE IEdition
    OBVIOUS
  <1> DEFINE of == [n \in Nat |-> 0]
  <1>1. of \in [Nat -> Nat] /\ of[0] = 0
    OBVIOUS
  <1>2. Dated(of, Stamp(Absent), Edition(Absent))
    BY DEF Init, Dated, Stamp, Edition
  <1>3. \A a \in Admins : draft[a] = Absent /\ request[a] = Absent
    BY DEF Init
  <1> HIDE DEF of
  <1>4. Agrees(of)
    BY <1>1, <1>2, <1>3 DEF Init, Agrees
  <1> QED BY <1>4 DEF IEdition

DatedDraft(of, d) == d # Absent => Dated(of, d.expected, d.base)

DatedRequest(of, r) ==
    r # Absent =>
        /\ Dated(of, Stamp(r.provider), Edition(r.provider))
        /\ r.kind = "save" => Dated(of, r.expected, r.base)
        /\ r.expected \in 0..stamps

\* The drafts, by what changed of them.
LEMMA EditedDraft ==
    ASSUME NEW d \in Draft, NEW c \in Clients, NEW typed \in BOOLEAN
    PROVE  /\ [d EXCEPT !.client = c, !.typed = typed, !.dirty = TRUE].expected = d.expected
           /\ [d EXCEPT !.client = c, !.typed = typed, !.dirty = TRUE].base = d.base
  BY DEF Draft

LEMMA AcknowledgedDraft ==
    ASSUME NEW d \in Draft, Acknowledged(d) # Absent
    PROVE  /\ Acknowledged(d).expected = d.expected
           /\ Acknowledged(d).base = d.base
  BY DEF Draft, Acknowledged

LEMMA DatedLoad ==
    ASSUME NEW of, NEW d, DatedDraft(of, d), Dated(of, Stamp(memory), Edition(memory))
    PROVE  DatedDraft(of, DraftAfterLoad(d, memory))
  BY DEF DatedDraft, DraftAfterLoad, FromModel, Stamp, Edition

LEMMA ConsoleDrafts ==
    ASSUME IType, NEW of, Agrees(of), NEW a \in Admins, Console(a)
    PROVE  \A b \in Admins : DatedDraft(of, draft'[b])
  <1>1. PICK d : draft' = [draft EXCEPT ![a] = d] /\ DatedDraft(of, d)
    <2>1. draft = [draft EXCEPT ![a] = draft[a]] /\ DatedDraft(of, draft[a])
      BY DEF IType, TypeOK, Agrees, DatedDraft
    <2>2. CASE Load(a)
      BY <2>1, <2>2, DatedLoad DEF Load, Agrees
    <2>3. CASE AddProvider(a)
      <3>1. Dated(of, 0, 0)
        BY DEF Agrees, Dated, IType, TypeOK
      <3>2. PICK c \in Clients, typed \in BOOLEAN :
              draft' = [draft EXCEPT ![a] = NewDraft(c, typed)]
        BY <2>3 DEF AddProvider
      <3>3. DatedDraft(of, NewDraft(c, typed))
        BY <3>1 DEF DatedDraft, NewDraft
      <3> QED BY <3>2, <3>3
    <2>4. CASE CancelNew(a) \/ (Answer(a) /\ draft' = draft) \/ SubmitSave(a) \/ SubmitDelete(a)
      BY <2>1, <2>4 DEF CancelNew, SubmitSave, SubmitDelete, DatedDraft
    <2>5. ASSUME NEW c \in Clients, NEW typed \in BOOLEAN, UpdateDraft(a, c, typed)
          PROVE  \E d : draft' = [draft EXCEPT ![a] = d] /\ DatedDraft(of, d)
      <3>1. draft[a] \in Draft
        BY <2>5 DEF IType, TypeOK, UpdateDraft
      <3> DEFINE d == [draft[a] EXCEPT !.client = c, !.typed = typed, !.dirty = TRUE]
      <3>2. draft' = [draft EXCEPT ![a] = d]
        BY <2>5 DEF UpdateDraft, IType, TypeOK
      <3>3. d.expected = draft[a].expected /\ d.base = draft[a].base
        BY <3>1, EditedDraft
      <3> HIDE DEF d
      <3> QED BY <2>1, <3>1, <3>2, <3>3 DEF DatedDraft
    <2>6. CASE Answer(a) /\ draft' # draft
      <3>1. draft[a] \in Draft
        BY <2>6 DEF Answer, IType, TypeOK
      <3>2. draft' = [draft EXCEPT ![a] = Acknowledged(draft[a])]
        BY <2>6 DEF Answer
      <3> QED BY <2>1, <3>1, <3>2, AcknowledgedDraft DEF DatedDraft
    <2> QED BY <2>2, <2>3, <2>4, <2>5, <2>6 DEF Console
  <1>2. draft \in [Admins -> {Absent} \cup Draft] /\ \A b \in Admins : DatedDraft(of, draft[b])
    BY DEF IType, TypeOK, Agrees, DatedDraft
  <1> QED BY <1>1, <1>2

LEMMA ConsoleRequests ==
    ASSUME IType, NEW of, Agrees(of), NEW a \in Admins, Console(a)
    PROVE  \A b \in Admins : DatedRequest(of, request'[b])
  <1>1. PICK r : request' = [request EXCEPT ![a] = r] /\ DatedRequest(of, r)
    <2>1. request = [request EXCEPT ![a] = request[a]] /\ DatedRequest(of, request[a])
      BY DEF IType, TypeOK, Agrees, DatedRequest
    <2>2. Dated(of, 0, 0) /\ Stamp(Absent) = 0 /\ Edition(Absent) = 0 /\ 0 \in 0..stamps
      BY DEF Agrees, Dated, IType, TypeOK, Stamp, Edition
    <2>3. DatedRequest(of, Blank("delete", "sent")) /\ DatedRequest(of, Blank("preflight", "sent"))
      BY <2>2 DEF Blank, Carrying, DatedRequest
    <2>4. CASE SubmitSave(a)
      <3>1. Dated(of, draft[a].expected, draft[a].base) /\ draft[a].expected \in 0..stamps
        BY <2>4 DEF SubmitSave, Agrees, Dated
      <3>2. DatedRequest(of, Sent(draft[a]))
        BY <2>2, <3>1 DEF Sent, DatedRequest
      <3> QED BY <2>4, <3>2 DEF SubmitSave
    <2>5. DatedRequest(of, Absent)
      BY DEF DatedRequest
    <2>6. \/ request' = request \/ SubmitSave(a)
          \/ request' = [request EXCEPT ![a] = Blank("delete", "sent")]
          \/ request' = [request EXCEPT ![a] = Blank("preflight", "sent")]
          \/ request' = [request EXCEPT ![a] = Absent]
      BY DEF Console, Load, AddProvider, CancelNew, UpdateDraft, SubmitDelete, Answer
    <2> QED BY <2>1, <2>3, <2>4, <2>5, <2>6
  <1>2. /\ request \in [Admins -> {Absent} \cup Request]
        /\ \A b \in Admins : DatedRequest(of, request[b])
    BY DEF IType, TypeOK, Agrees, DatedRequest
  <1> QED BY <1>1, <1>2

LEMMA EditionConsole ==
    ASSUME IType, IEdition, NEW a \in Admins, Console(a)
    PROVE  IEdition'
  <1>1. PICK of : Agrees(of)
    BY DEF IEdition
  <1>2. UNCHANGED <<row, memory, stamps>>
    BY DEF Console, Load, AddProvider, CancelNew, UpdateDraft, SubmitSave, SubmitDelete, Answer
  <1>3. \A b \in Admins : DatedDraft(of, draft'[b]) /\ DatedRequest(of, request'[b])
    BY <1>1, ConsoleDrafts, ConsoleRequests
  <1>4. Agrees(of)'
    BY <1>1, <1>2, <1>3 DEF Agrees, Dated, DatedDraft, DatedRequest, Stamp, Edition
  <1> QED BY <1>4 DEF IEdition

\* The handlers that give out no stamp: the new memory, row and request hold copies of
\* what was there.
LEMMA EditionHandled ==
    ASSUME IType, NEW of, Agrees(of), NEW a \in Admins, NEW r,
           UNCHANGED <<stamps, draft>>,
           request' = [request EXCEPT ![a] = r], DatedRequest(of, r),
           Dated(of, Stamp(row'), Edition(row')), Dated(of, Stamp(memory'), Edition(memory'))
    PROVE  IEdition'
  <1>1. \A b \in Admins : DatedRequest(of, request'[b])
    BY DEF IType, TypeOK, Agrees, DatedRequest
  <1>2. Agrees(of)'
    BY <1>1 DEF Agrees, Dated, DatedRequest, Stamp, Edition
  <1> QED BY <1>2 DEF IEdition

LEMMA EditionNothing ==
    ASSUME IType, NEW of, Agrees(of)
    PROVE  /\ Dated(of, Stamp(Absent), Edition(Absent)) /\ 0 \in 0..stamps
           /\ DatedRequest(of, Absent)
           /\ \A kind, stage : DatedRequest(of, Blank(kind, stage))
  <1>1. Dated(of, 0, 0) /\ Stamp(Absent) = 0 /\ Edition(Absent) = 0 /\ 0 \in 0..stamps
    BY DEF Agrees, Dated, IType, TypeOK, Stamp, Edition
  <1> QED BY <1>1 DEF Blank, Carrying, DatedRequest

\* The handlers that give one out: it is the newest, so that what was dated stays so.
LEMMA EditionCommitted ==
    ASSUME IType, IEdition, NEW a \in Admins, NEW p \in Provider,
           request[a] # Absent, p.stamp = stamps + 1, Commit(a, p)
    PROVE  IEdition'
  <1>1. PICK of : Agrees(of)
    BY DEF IEdition
  <1>0. PICK new : new = [of EXCEPT ![stamps + 1] = p.edition]
    OBVIOUS
  <1> DEFINE r == Carrying(request[a].kind, "committed", 0, 0, p)
  <1>2. stamps \in Nat /\ stamps' = stamps + 1 /\ p.edition \in Nat
    BY DEF IType, TypeOK, Commit, Provider
  <1>3. new \in [Nat -> Nat] /\ new[0] = 0 /\ new[stamps + 1] = p.edition
    BY <1>0, <1>1, <1>2 DEF Agrees
  <1>4. \A s, e : Dated(of, s, e) => Dated(new, s, e)'
    BY <1>0, <1>1, <1>2 DEF Agrees, Dated
  <1>5. Dated(new, Stamp(p), Edition(p))' /\ Dated(new, 0, 0)'
    BY <1>2, <1>3 DEF Dated, Stamp, Edition
  <1>6. /\ r.provider = p /\ r.expected = 0 /\ r.base = 0
        /\ request' = [request EXCEPT ![a] = r] \/ request' = [request EXCEPT ![a] = Absent]
    BY Written DEF Carrying, Commit
  <1>7. row' = p /\ UNCHANGED <<memory, draft>>
    BY DEF Commit, Write
  <1> HIDE DEF r
  <1>8. ASSUME NEW b \in Admins, request'[b] # Absent
        PROVE  /\ Dated(new, Stamp(request[b].provider), Edition(request[b].provider))'
               /\ (request[b].kind = "save" => Dated(new, request[b].expected, request[b].base))'
               /\ (request[b].expected \in 0..stamps)'
    <2>1. CASE b = a
      BY <1>2, <1>5, <1>6, <1>8, <2>1 DEF IType, TypeOK, Stamp, Edition
    <2>2. CASE b # a
      <3>1. request'[b] = request[b]
        BY <1>6, <2>2 DEF IType, TypeOK
      <3>2. /\ Dated(of, Stamp(request[b].provider), Edition(request[b].provider))
            /\ request[b].kind = "save" => Dated(of, request[b].expected, request[b].base)
            /\ request[b].expected \in 0..stamps
        BY <1>1, <1>8, <3>1 DEF Agrees
      <3> QED BY <1>2, <1>4, <3>1, <3>2 DEF Stamp, Edition
    <2> QED BY <2>1, <2>2
  <1>9. Agrees(new)'
    <2>1. (new \in [Nat -> Nat] /\ new[0] = 0)'
      BY <1>3
    <2>2. Dated(new, Stamp(row), Edition(row))'
      BY <1>5, <1>7 DEF Stamp, Edition
    <2>3. Dated(new, Stamp(memory), Edition(memory))'
      BY <1>1, <1>4, <1>7 DEF Agrees, Stamp, Edition
    <2>4. \A b \in Admins : (draft[b] # Absent => Dated(new, draft[b].expected, draft[b].base))'
      BY <1>1, <1>4, <1>7 DEF Agrees
    <2> QED BY <1>8, <2>1, <2>2, <2>3, <2>4 DEF Agrees
  <1> QED BY <1>9 DEF IEdition

LEMMA EditionHandler ==
    ASSUME IType, IEdition, NEW a \in Admins, Handler(a)
    PROVE  IEdition'
  <1>1. PICK of : Agrees(of)
    BY DEF IEdition
  <1>2. /\ Dated(of, Stamp(row), Edition(row)) /\ Dated(of, Stamp(memory), Edition(memory))
        /\ DatedRequest(of, request[a])
    BY <1>1 DEF Agrees, DatedRequest
  <1>3. /\ Dated(of, Stamp(Absent), Edition(Absent)) /\ 0 \in 0..stamps
        /\ DatedRequest(of, Absent)
        /\ \A kind, stage : DatedRequest(of, Blank(kind, stage))
    BY <1>1, EditionNothing
  <1>4. CASE CheckUpdate(a)
    <2> DEFINE p == Updated(request[a])
               r == Carrying("save", "checked", request[a].expected, request[a].base, p)
    <2>1. Stamp(p) = 0 /\ Edition(p) = 0
      BY <1>4, UpdatedType DEF Stamp, Edition, Updated
    <2>2. Dated(of, 0, 0)
      BY <1>3 DEF Stamp, Edition
    <2>3. /\ Dated(of, request[a].expected, request[a].base) /\ request[a].expected \in 0..stamps
      BY <1>2, <1>4 DEF CheckUpdate, At, DatedRequest
    <2>4. r.provider = p /\ r.expected = request[a].expected /\ r.base = request[a].base
      BY DEF Carrying
    <2>5. request' = [request EXCEPT ![a] = r] /\ UNCHANGED <<stamps, draft, row, memory>>
      BY <1>4 DEF CheckUpdate
    <2> HIDE DEF p, r
    <2>6. DatedRequest(of, r)
      BY <2>1, <2>2, <2>3, <2>4 DEF DatedRequest
    <2> QED BY <1>1, <1>2, <2>5, <2>6, EditionHandled
  <1>5. CASE CheckKnown(a)
    <2> DEFINE r == Carrying("preflight", "checked", memory.stamp, 0, memory)
    <2>1. DatedRequest(of, r)
      BY <1>2, <1>5 DEF CheckKnown, Carrying, DatedRequest, Dated, Stamp
    <2>2. \/ request' = [request EXCEPT ![a] = r]
          \/ request' = [request EXCEPT ![a] = Blank("delete", "checked")]
      BY <1>5 DEF CheckKnown
    <2>3. UNCHANGED <<stamps, draft, row, memory>>
      BY <1>5 DEF CheckKnown
    <2> HIDE DEF r
    <2> QED BY <1>1, <1>2, <1>3, <2>1, <2>2, <2>3, EditionHandled
  <1>6. CASE Refuse(a)
    BY <1>1, <1>2, <1>3, <1>6, EditionHandled DEF Refuse
  <1>7. CASE CommitUpdate(a)
    <2>1. Saved(request[a].provider, stamps + 1) \in Provider
      BY <1>7, CheckedProvider, SavedType DEF CommitUpdate, Locked, IType, TypeOK
    <2>2. Saved(request[a].provider, stamps + 1).stamp = stamps + 1 /\ request[a] # Absent
      BY <1>7 DEF Saved, CommitUpdate, Locked, At
    <2> QED BY <1>7, <2>1, <2>2, EditionCommitted DEF CommitUpdate
  <1>8. CASE CommitPreflight(a)
    <2>1. PICK verdict \in {"VALIDATED", "ERROR"} :
              Commit(a, Judged(request[a].provider, verdict, stamps + 1))
      BY <1>8 DEF CommitPreflight
    <2>2. Judged(request[a].provider, verdict, stamps + 1) \in Provider
      BY <1>8, CheckedProvider, JudgedType DEF CommitPreflight, Locked, IType, TypeOK
    <2>3. Judged(request[a].provider, verdict, stamps + 1).stamp = stamps + 1
          /\ request[a] # Absent
      BY <1>8 DEF Judged, CommitPreflight, Locked, At
    <2> QED BY <2>1, <2>2, <2>3, EditionCommitted
  <1>9. CASE CommitDelete(a)
    <2>1. /\ \/ request' = [request EXCEPT ![a] = Blank("delete", "committed")]
             \/ request' = [request EXCEPT ![a] = Absent]
          /\ row' = Absent
          /\ UNCHANGED <<stamps, draft, memory>>
      BY <1>9, Written DEF CommitDelete, Write, Blank
    <2> QED BY <1>1, <1>2, <1>3, <2>1, EditionHandled
  <1>10. CASE Install(a)
    <2>1. /\ request' = [request EXCEPT ![a] = Blank(request[a].kind, "answered")]
          /\ memory' = request[a].provider /\ request[a] # Absent
          /\ UNCHANGED <<stamps, draft, row>>
      BY <1>10 DEF Install, At
    <2>2. Dated(of, Stamp(memory'), Edition(memory'))
      BY <1>2, <2>1 DEF DatedRequest
    <2> QED BY <1>1, <1>2, <1>3, <2>1, <2>2, EditionHandled
  <1>11. CASE FindVacant(a)
    <2> DEFINE r == [request[a] EXCEPT !.stage = "vacant"]
    <2>1. request[a] \in Request /\ UNCHANGED <<stamps, draft, row, memory>>
          /\ request' = [request EXCEPT ![a] = r]
      BY <1>11 DEF FindVacant, At, IType, TypeOK
    <2>2. r.provider = request[a].provider /\ r.kind = request[a].kind
          /\ r.expected = request[a].expected /\ r.base = request[a].base
      BY <2>1 DEF Request
    <2>3. DatedRequest(of, r)
      BY <1>2, <2>2, <1>11 DEF DatedRequest, FindVacant, At
    <2> HIDE DEF r
    <2> QED BY <1>1, <1>2, <2>1, <2>3, EditionHandled
  <1> QED BY <1>4, <1>5, <1>6, <1>7, <1>8, <1>9, <1>10, <1>11 DEF Handler

LEMMA EditionRestart ==
    ASSUME IType, IEdition, Restart
    PROVE  IEdition'
  <1>1. PICK of : Agrees(of)
    BY DEF IEdition
  <1>2. UNCHANGED <<row, stamps, draft>> /\ memory' = row /\ \A b \in Admins : request'[b] = Absent
    BY DEF Restart
  <1>3. Agrees(of)'
    BY <1>1, <1>2 DEF Agrees, Dated, Stamp, Edition
  <1> QED BY <1>3 DEF IEdition

LEMMA EditionStep ==
    ASSUME IType, IEdition, [Next]_vars
    PROVE  IEdition'
  <1>1. CASE UNCHANGED vars
    <2>1. PICK of : Agrees(of)
      BY DEF IEdition
    <2>2. Agrees(of)'
      BY <1>1, <2>1 DEF vars, Agrees, Dated, Stamp, Edition
    <2> QED BY <2>2 DEF IEdition
  <1>2. CASE Restart
    BY <1>2, EditionRestart
  <1>3. ASSUME NEW a \in Admins, Console(a)
        PROVE  IEdition'
    BY <1>3, EditionConsole
  <1>4. ASSUME NEW a \in Admins, Handler(a)
        PROVE  IEdition'
    BY <1>4, EditionHandler
  <1> QED BY <1>1, <1>2, <1>3, <1>4 DEF Next

\* The row a save replaces has the stamp the draft was started from, hence the edition.
LEMMA ExpectedEdition ==
    ASSUME IType, IEdition, NEW a \in Admins, CommitUpdate(a), request[a].expected # 0
    PROVE  Edition(row) = request[a].base
  <1>1. PICK of : Agrees(of)
    BY DEF IEdition
  <1>2. of[Stamp(row)] = Edition(row)
    BY <1>1 DEF Agrees, Dated
  <1>3. request[a] # Absent /\ request[a].kind = "save" /\ Stamp(row) = request[a].expected
    BY DEF CommitUpdate, Locked, At, ExpectedRow, IType, Complete
  <1>4. of[request[a].expected] = request[a].base
    BY <1>1, <1>3 DEF Agrees, Dated
  <1> QED BY <1>2, <1>3, <1>4

-----------------------------------------------------------------------------
(* Memory and the row                                                      *)

Changing(a) == At(a, "committed") /\ request[a].kind # "delete"
Deleting(a) == At(a, "committed") /\ request[a].kind = "delete"

\* While nothing is astray, one change at a time is between commit and install; it holds
\* what the row holds, and no handler that read memory before it finds the row it expects
\* any more.
IInstall ==
    ~astray =>
        /\ \A a, b \in Admins : At(a, "committed") /\ At(b, "committed") => a = b
        /\ \A a \in Admins : At(a, "committed") => request[a].provider = row
        /\ (\A a \in Admins : ~At(a, "committed")) => memory = row
        /\ \A a, b \in Admins :
              Changing(a) /\ At(b, "checked") /\ request[b].kind # "delete"
                  => request[b].expected # Stamp(row)
        /\ \A a \in Admins : Changing(a) => Stamp(memory) # Stamp(row) /\ row # Absent
        /\ \A a \in Admins : Deleting(a) => row = Absent

LEMMA InstallInit ==
    Init => IInstall
  <1> SUFFICES ASSUME Init PROVE IInstall
    OBVIOUS
  <1>1. \A a \in Admins : request[a] = Absent
    BY DEF Init
  <1> QED BY <1>1 DEF Init, IInstall, At, Changing, Deleting

\* A step that neither commits nor installs, and lets no request go past its check that
\* expects a row which memory does not hold.
LEMMA InstallKeep ==
    ASSUME IType, IInstall, NEW a \in Admins, NEW r,
           UNCHANGED <<row, memory, astray>>,
           request' = [request EXCEPT ![a] = r],
           ~At(a, "committed"), r # Absent => r.stage # "committed",
           r # Absent /\ r.stage = "checked" /\ r.kind # "delete" => r.expected = Stamp(memory)
    PROVE  IInstall'
  <1>1. request'[a] = r /\ \A b \in Admins \ {a} : request'[b] = request[b]
    BY DEF IType, TypeOK
  <1>2. Stamp(row)' = Stamp(row) /\ Stamp(memory)' = Stamp(memory)
    BY DEF Stamp
  <1>3. \A b \in Admins : At(b, "committed")' <=> At(b, "committed")
    BY <1>1 DEF At
  <1>4. \A b \in Admins : At(b, "committed") => request'[b] = request[b]
    BY <1>1
  <1>5. \A b \in Admins : (Changing(b)' <=> Changing(b)) /\ (Deleting(b)' <=> Deleting(b))
    BY <1>3, <1>4 DEF Changing, Deleting
  <1>6. \A b \in Admins : b # a => At(b, "checked")' = At(b, "checked")
    BY <1>1 DEF At
  <1>7. ASSUME NEW c \in Admins, NEW b \in Admins, ~astray', Changing(c)',
               At(b, "checked")', request'[b].kind # "delete"
        PROVE  request'[b].expected # Stamp(row)'
    <2>1. CASE b = a
      BY <1>1, <1>2, <1>5, <1>7, <2>1 DEF IInstall, At
    <2>2. CASE b # a
      BY <1>1, <1>2, <1>5, <1>6, <1>7, <2>2 DEF IInstall
    <2> QED BY <2>1, <2>2
  <1> QED BY <1>2, <1>3, <1>4, <1>5, <1>7 DEF IInstall

LEMMA InstallConsole ==
    ASSUME IType, IInstall, NEW a \in Admins, Console(a)
    PROVE  IInstall'
  <1>1. UNCHANGED <<row, memory, astray>>
    BY DEF Console, Load, AddProvider, CancelNew, UpdateDraft, SubmitSave, SubmitDelete, Answer
  <1>2. CASE request' = request
    <2>1. \A b \in Admins, stage \in Stages : At(b, stage)' <=> At(b, stage)
      BY <1>2 DEF At
    <2> QED BY <1>1, <1>2, <2>1 DEF IInstall, Changing, Deleting, Stamp, Stages
  <1>3. CASE request' # request
    <2>1. ~At(a, "committed")
      BY <1>3 DEF Console, Load, AddProvider, CancelNew, UpdateDraft, SubmitSave, SubmitDelete,
                  Answer, At, Idle
    <2>2. \/ request' = [request EXCEPT ![a] = Sent(draft[a])]
          \/ request' = [request EXCEPT ![a] = Blank("delete", "sent")]
          \/ request' = [request EXCEPT ![a] = Blank("preflight", "sent")]
          \/ request' = [request EXCEPT ![a] = Absent]
      BY <1>3 DEF Console, Load, AddProvider, CancelNew, UpdateDraft, SubmitSave, SubmitDelete, Answer
    <2>3. /\ Sent(draft[a]).stage = "sent" /\ Blank("delete", "sent").stage = "sent"
          /\ Blank("preflight", "sent").stage = "sent"
      BY DEF Sent, Blank, Carrying
    <2> QED BY <1>1, <2>1, <2>2, <2>3, InstallKeep
  <1> QED BY <1>2, <1>3

\* A handler that finds the row it expects has no other between commit and install: not a
\* change, which gave out a new stamp, and not a deletion, which left no row.
LEMMA LockedAlone ==
    ASSUME IInstall, ~astray, NEW a \in Admins, Locked(a), request[a].kind # "delete"
    PROVE  \A b \in Admins : ~At(b, "committed")
  <1>1. \A b \in Admins : ~Changing(b)
    BY DEF Locked, ExpectedRow, IInstall
  <1>2. \A b \in Admins : ~Deleting(b)
    BY DEF Locked, ExpectedRow, Stamp, IInstall
  <1> QED BY <1>1, <1>2 DEF Changing, Deleting

LEMMA InstallCommitted ==
    ASSUME IType, IEdition, IInstall, NEW a \in Admins, NEW p \in Provider,
           Locked(a) \/ At(a, "vacant"), request[a].kind # "delete",
           p.stamp = stamps + 1, Commit(a, p)
    PROVE  IInstall'
  <1> SUFFICES ASSUME ~astray' PROVE IInstall'
    BY DEF IInstall
  <1>1. /\ request' = [request EXCEPT ![a] = Carrying(request[a].kind, "committed", 0, 0, p)]
        /\ ~astray /\ (At(a, "vacant") => ~Committing(a))
    BY Written DEF Commit, IType, TypeOK
  <1>2. \A b \in Admins : ~At(b, "committed")
    <2>1. CASE Locked(a)
      BY <1>1, <2>1, LockedAlone
    <2>2. CASE At(a, "vacant")
      BY <1>1, <2>2 DEF Committing, At
    <2> QED BY <2>1, <2>2
  <1>3. /\ request'[a].stage = "committed" /\ request'[a].provider = p
        /\ request'[a].kind # "delete"
        /\ \A b \in Admins \ {a} : request'[b] = request[b]
    BY <1>1 DEF Carrying, IType, TypeOK
  <1>4. row' = p /\ memory' = memory
    BY DEF Commit, Write
  <1>5. \A b \in Admins : At(b, "committed")' => b = a
    BY <1>2, <1>3 DEF At
  <1>6. PICK of : Agrees(of)
    BY DEF IEdition
  <1>7. stamps \in Nat /\ Stamp(memory) \in 0..stamps
        /\ \A b \in Admins : request[b] # Absent => request[b].expected \in 0..stamps
    BY <1>6 DEF Agrees, Dated, IType, TypeOK
  <1>8. Stamp(row)' = stamps + 1 /\ Stamp(memory)' = Stamp(memory) /\ row' # Absent
    BY <1>4 DEF Stamp
  <1>9. \A b \in Admins : At(b, "checked")' => request'[b].expected \in 0..stamps
    BY <1>3, <1>7 DEF At
  <1>10. At(a, "committed")'
    <2>1. Carrying(request[a].kind, "committed", 0, 0, p) \in Request
      BY CarryingType DEF Locked, At, IType, TypeOK, Request, Stages
    <2>2. request'[a] = Carrying(request[a].kind, "committed", 0, 0, p)
      BY <1>1 DEF IType, TypeOK
    <2> QED BY <1>3, <2>1, <2>2 DEF At
  <1>11. \A b \in Admins : At(b, "checked")' => request'[b].expected # Stamp(row)'
    BY <1>7, <1>8, <1>9
  <1>12. Stamp(memory)' # Stamp(row)'
    BY <1>7, <1>8
  <1>13. \A b \in Admins : ~Deleting(b)'
    BY <1>3, <1>5 DEF Deleting
  <1> QED BY <1>3, <1>4, <1>5, <1>8, <1>10, <1>11, <1>12, <1>13 DEF IInstall, Changing

LEMMA InstallHandler ==
    ASSUME IType, IEdition, IInstall, NEW a \in Admins, Handler(a)
    PROVE  IInstall'
  <1>1. CASE CheckUpdate(a)
    <2> DEFINE r == Carrying("save", "checked", request[a].expected, request[a].base,
                             Updated(request[a]))
    <2>1. r.stage = "checked" /\ r.expected = request[a].expected
      BY DEF Carrying
    <2>2. /\ request' = [request EXCEPT ![a] = r] /\ UNCHANGED <<row, memory, astray>>
          /\ request[a].expected = Stamp(memory) /\ ~At(a, "committed")
      BY <1>1 DEF CheckUpdate, At
    <2> HIDE DEF r
    <2> QED BY <2>1, <2>2, InstallKeep
  <1>2. CASE CheckKnown(a)
    <2> DEFINE r == Carrying("preflight", "checked", memory.stamp, 0, memory)
    <2>1. r.stage = "checked" /\ r.expected = memory.stamp
          /\ Blank("delete", "checked").stage = "checked" /\ Blank("delete", "checked").kind = "delete"
      BY DEF Blank, Carrying
    <2>2. /\ \/ request' = [request EXCEPT ![a] = r]
             \/ request' = [request EXCEPT ![a] = Blank("delete", "checked")]
          /\ UNCHANGED <<row, memory, astray>>
          /\ memory.stamp = Stamp(memory) /\ ~At(a, "committed")
      BY <1>2 DEF CheckKnown, At, Stamp
    <2> HIDE DEF r
    <2> QED BY <2>1, <2>2, InstallKeep
  <1>3. CASE Refuse(a)
    <2>1. /\ request' = [request EXCEPT ![a] = Absent] /\ UNCHANGED <<row, memory, astray>>
          /\ ~At(a, "committed")
      BY <1>3 DEF Refuse, At
    <2> QED BY <2>1, InstallKeep
  <1>4. CASE CommitUpdate(a)
    <2>1. Saved(request[a].provider, stamps + 1) \in Provider
      BY <1>4, CheckedProvider, SavedType DEF CommitUpdate, Locked, IType, TypeOK
    <2>2. Saved(request[a].provider, stamps + 1).stamp = stamps + 1
      BY DEF Saved
    <2> QED BY <1>4, <2>1, <2>2, InstallCommitted DEF CommitUpdate
  <1>5. CASE CommitPreflight(a)
    <2>1. PICK verdict \in {"VALIDATED", "ERROR"} :
              Commit(a, Judged(request[a].provider, verdict, stamps + 1))
      BY <1>5 DEF CommitPreflight
    <2>2. Judged(request[a].provider, verdict, stamps + 1) \in Provider
      BY <1>5, CheckedProvider, JudgedType DEF CommitPreflight, Locked, IType, TypeOK
    <2>3. Judged(request[a].provider, verdict, stamps + 1).stamp = stamps + 1
      BY DEF Judged
    <2> QED BY <1>5, <2>1, <2>2, <2>3, InstallCommitted DEF CommitPreflight
  <1>6. CASE CommitDelete(a)
    <2> SUFFICES ASSUME ~astray' PROVE IInstall'
      BY DEF IInstall
    <2>1. /\ request' = [request EXCEPT ![a] = Carrying("delete", "committed", 0, 0, Absent)]
          /\ ~astray /\ ~Committing(a) /\ row' = Absent /\ ~At(a, "committed")
      BY <1>6, Written DEF CommitDelete, Write, At, IType, TypeOK
    <2>2. /\ request'[a].stage = "committed" /\ request'[a].provider = Absent
          /\ request'[a].kind = "delete" /\ row' = Absent
          /\ \A b \in Admins \ {a} : request'[b] = request[b]
      BY <2>1 DEF Carrying, IType, TypeOK
    <2>3. \A b \in Admins : At(b, "committed")' => b = a
      BY <2>1, <2>2 DEF At, Committing
    <2>4. At(a, "committed")'
      <3>1. Carrying("delete", "committed", 0, 0, Absent) \in Request
        BY CarryingType DEF Kinds, Stages
      <3>2. request'[a] = Carrying("delete", "committed", 0, 0, Absent)
        BY <2>1 DEF IType, TypeOK
      <3> QED BY <2>2, <3>1, <3>2 DEF At
    <2> QED BY <2>2, <2>3, <2>4 DEF IInstall, Changing, Deleting
  <1>7. CASE Install(a)
    <2> SUFFICES ASSUME ~astray' PROVE IInstall'
      BY DEF IInstall
    <2>1. ~astray /\ At(a, "committed") /\ memory' = request[a].provider /\ row' = row
      BY <1>7 DEF Install
    <2>2. request[a].provider = row /\ \A b \in Admins : At(b, "committed") => b = a
      BY <2>1 DEF IInstall
    <2>3. request'[a].stage = "answered" /\ \A b \in Admins \ {a} : request'[b] = request[b]
      BY <1>7 DEF Install, Blank, Carrying, IType, TypeOK
    <2>4. \A b \in Admins : ~At(b, "committed")'
      BY <2>2, <2>3 DEF At
    <2> QED BY <2>1, <2>2, <2>4 DEF IInstall, Changing, Deleting
  <1>8. CASE FindVacant(a)
    <2> DEFINE r == [request[a] EXCEPT !.stage = "vacant"]
    <2>1. request[a] \in Request /\ UNCHANGED <<row, memory, astray>>
          /\ request' = [request EXCEPT ![a] = r] /\ ~At(a, "committed")
      BY <1>8 DEF FindVacant, At, IType, TypeOK
    <2>2. r.stage = "vacant"
      BY <2>1 DEF Request
    <2> HIDE DEF r
    <2> QED BY <2>1, <2>2, InstallKeep
  <1> QED BY <1>1, <1>2, <1>3, <1>4, <1>5, <1>6, <1>7, <1>8 DEF Handler

LEMMA InstallStep ==
    ASSUME IType, IEdition, IInstall, [Next]_vars
    PROVE  IInstall'
  <1>1. CASE UNCHANGED vars
    BY <1>1 DEF vars, IInstall, Changing, Deleting, At, Stamp
  <1>2. CASE Restart
    <2>1. \A b \in Admins : ~At(b, "committed")'
      BY <1>2 DEF Restart, At
    <2> QED BY <1>2, <2>1 DEF Restart, IInstall, Changing, Deleting
  <1>3. ASSUME NEW a \in Admins, Console(a)
        PROVE  IInstall'
    BY <1>3, InstallConsole
  <1>4. ASSUME NEW a \in Admins, Handler(a)
        PROVE  IInstall'
    BY <1>4, InstallHandler
  <1> QED BY <1>1, <1>2, <1>3, <1>4 DEF Next

-----------------------------------------------------------------------------
IInv == IType /\ ISound /\ IEdition /\ IInstall

LEMMA Invariant == Spec => []IInv
  <1>1. Init => IInv
    BY TypeInit, EditionInit, InstallInit DEF Init, IInv, ISound, Sound, IType, TypeOK
  <1>2. IInv /\ [Next]_vars => IInv'
    BY TypeStep, SoundStep, EditionStep, InstallStep DEF IInv
  <1> QED BY <1>1, <1>2, PTL DEF Spec

\* A stored secret never moves to a client other than its own (auth.go:1391-1404).
THEOREM ProviderSecretStays == Spec => []SecretStaysWithClient
  <1>1. IInv => SecretStaysWithClient
    BY DEF IInv, ISound, Sound, SecretStaysWithClient
  <1> QED BY <1>1, Invariant, PTL

\* What is offered for login was found good by a preflight of that very edition
\* (auth.go:1456-1510).
THEOREM ProviderValidated == Spec => []ValidatedWasProbed
  <1>1. IInv => ValidatedWasProbed
    BY DEF IInv, ISound, Sound, ValidatedWasProbed
  <1> QED BY <1>1, Invariant, PTL

\* Memory holds what the database holds unless a change is between commit and install, a
\* reply to a commit was lost, or a deletion or creation, which lock no row they compared,
\* crossed another change (auth.go:1367-1385, 1491-1510, store.go:222-306).
THEOREM ProviderMemoryFollows == Spec => []MemoryFollowsRow
  <1>1. IInv => MemoryFollowsRow
    BY DEF IInv, IInstall, MemoryFollowsRow
  <1> QED BY <1>1, Invariant, PTL

\* A save of a draft of a stored provider never overwrites an edition its author has not
\* seen (store.go:222-306).
THEOREM ProviderNoBlindOverwrite == Spec => NoBlindOverwrite
  <1>1. IInv /\ [Next]_vars
            => [\A a \in Admins : CommitUpdate(a) /\ request[a].expected # 0
                                   => Edition(row) = request[a].base]_vars
    BY ExpectedEdition DEF IInv
  <1> QED BY <1>1, Invariant, PTL DEF Spec, NoBlindOverwrite

=============================================================================
