--------------------------- MODULE ProviderSettings ---------------------------
(***************************************************************************)
(* One identity provider, edited by several administrators, each in a      *)
(* console of their own.                                                   *)
(*                                                                         *)
(* The server keeps a provider twice: a row in the database and a copy in  *)
(* memory, which is what logins and the consoles read.  A handler reads    *)
(* the copy, commits the row if it is still the one expected, and then     *)
(* installs the copy; nothing is locked from one step to the next, nor     *)
(* from the lookup of a row that is not there to its insertion.  The reply *)
(* to a commit may be lost.  A console loads the copy into a draft, which  *)
(* later loads leave alone while it has unsaved edits.                     *)
(*                                                                         *)
(* A client stands for issuer and client id; a secret is the client it was *)
(* typed for.  Stamps are updatedAt; the edition of a provider is the      *)
(* stamp of the save that wrote its client.  SAML, which has no secret,    *)
(* labels and role mappings are left out.                                  *)
(***************************************************************************)
EXTENDS Naturals, FiniteSets

CONSTANTS
    Admins, Clients,
    Absent,         \* no provider, no draft, no request
    MaxStamp        \* bound on the changes of the row

ASSUME BoundAssumption == MaxStamp \in Nat

Statuses == {"CONFIGURED", "VALIDATED", "ERROR"}
Provider == [client : Clients, secret : Clients, status : Statuses, stamp : Nat, edition : Nat]

\* new: newDraft, which has no updatedAt and no secret configured.
Draft == [client : Clients, typed : BOOLEAN, new : BOOLEAN, dirty : BOOLEAN,
          expected : Nat, base : Nat]

\* A validation is a save followed by a preflight.
Kinds  == {"save", "preflight", "delete"}
Stages == {"sent", "checked", "vacant", "committed", "answered"}

Request ==
    [kind : Kinds, stage : Stages, client : {Absent} \cup Clients, typed : BOOLEAN,
     expected : Nat, base : Nat, provider : {Absent} \cup Provider]

ASSUME AbsentAssumption == Absent \notin Clients \cup Provider \cup Draft \cup Request

VARIABLES
    row,          \* auth_providers
    memory,       \* authenticator.providers
    stamps,       \* stamps given out
    draft,        \* admin -> drafts[id] or newDraft
    request,      \* admin -> the request in flight; busyProvider allows one
    probed,       \* editions a preflight found good
    astray        \* since the last restart, the reply to a commit was lost, or a
                  \* deletion or creation was committed before another change,
                  \* committed earlier, was installed

vars == <<row, memory, stamps, draft, request, probed, astray>>

\* A request carries what its later stages need and nothing else.
Carrying(kind, stage, expected, base, provider) ==
    [kind |-> kind, stage |-> stage, client |-> Absent, typed |-> FALSE,
     expected |-> expected, base |-> base, provider |-> provider]

Blank(kind, stage) == Carrying(kind, stage, 0, 0, Absent)

Idle(a)     == request[a] = Absent
At(a, stage) == request[a] # Absent /\ request[a].stage = stage
Stamp(p)    == IF p = Absent THEN 0 ELSE p.stamp
Edition(p)  == IF p = Absent THEN 0 ELSE p.edition

Init ==
    /\ row = Absent
    /\ memory = Absent
    /\ stamps = 0
    /\ draft = [a \in Admins |-> Absent]
    /\ request = [a \in Admins |-> Absent]
    /\ probed = {}
    /\ astray = FALSE

-----------------------------------------------------------------------------
(* The console                                                             *)

FromModel(p) ==
    [client |-> p.client, typed |-> FALSE, new |-> FALSE, dirty |-> FALSE,
     expected |-> p.stamp, base |-> p.edition]

\* Variant: a draft with edits takes the new updatedAt along.
DraftAfterLoadRestamped(d, p) ==
    IF p = Absent THEN IF d # Absent /\ d.new THEN d ELSE Absent
    ELSE IF d # Absent /\ d.dirty /\ ~d.new THEN [d EXCEPT !.expected = p.stamp]
    ELSE FromModel(p)

\* The effect on a new model: edits stay, with the updatedAt they started from.  A new
\* draft whose id exists by now can only be cancelled.
DraftAfterLoad(d, p) ==
    IF p = Absent THEN IF d # Absent /\ d.new THEN d ELSE Absent
    ELSE IF d # Absent /\ d.dirty /\ ~d.new THEN d
    ELSE FromModel(p)

\* onReload, or any other load of the console.
Load(a) ==
    /\ draft' = [draft EXCEPT ![a] = DraftAfterLoad(draft[a], memory)]
    /\ UNCHANGED <<row, memory, stamps, request, probed, astray>>

\* newProviderDraft
NewDraft(c, typed) ==
    [client |-> c, typed |-> typed, new |-> TRUE, dirty |-> TRUE, expected |-> 0, base |-> 0]

AddProvider(a) ==
    /\ draft[a] = Absent
    /\ \E c \in Clients, typed \in BOOLEAN : draft' = [draft EXCEPT ![a] = NewDraft(c, typed)]
    /\ UNCHANGED <<row, memory, stamps, request, probed, astray>>

\* The fields stay open while a request is in flight.
UpdateDraft(a, c, typed) ==
    /\ draft[a] # Absent
    /\ draft' = [draft EXCEPT ![a].client = c, ![a].typed = typed, ![a].dirty = TRUE]
    /\ UNCHANGED <<row, memory, stamps, request, probed, astray>>

Sent(d) ==
    [kind |-> "save", stage |-> "sent", client |-> d.client, typed |-> d.typed,
     expected |-> d.expected, base |-> d.base, provider |-> Absent]

\* validateProviderDraft asks for a secret unless one is configured, for whichever client.
SubmitSave(a) ==
    /\ Idle(a)
    /\ draft[a] # Absent
    /\ draft[a].typed \/ ~draft[a].new
    /\ request' = [request EXCEPT ![a] = Sent(draft[a])]
    /\ UNCHANGED <<row, memory, stamps, draft, probed, astray>>

SubmitDelete(a) ==
    /\ Idle(a)
    /\ draft[a] # Absent /\ ~draft[a].new
    /\ request' = [request EXCEPT ![a] = Blank("delete", "sent")]
    /\ UNCHANGED <<row, memory, stamps, draft, probed, astray>>

CancelNew(a) ==
    /\ Idle(a)
    /\ draft[a] # Absent /\ draft[a].new
    /\ draft' = [draft EXCEPT ![a] = Absent]
    /\ UNCHANGED <<row, memory, stamps, request, probed, astray>>

\* applySavedProvider
Acknowledged(d) == IF d.new THEN Absent ELSE [d EXCEPT !.dirty = FALSE]

\* The answer to a save: what the draft holds now, edited since or not, counts as saved,
\* and if it was sent by validateProvider, its preflight follows.
Answer(a) ==
    /\ At(a, "answered")
    /\ draft' = IF request[a].kind = "save" /\ draft[a] # Absent
                THEN [draft EXCEPT ![a] = Acknowledged(draft[a])]
                ELSE draft
    /\ \/ request' = [request EXCEPT ![a] = Absent]
       \/ /\ request[a].kind = "save"
          /\ request' = [request EXCEPT ![a] = Blank("preflight", "sent")]
    /\ UNCHANGED <<row, memory, stamps, probed, astray>>

-----------------------------------------------------------------------------
(* The handlers: what they read in memory                                  *)

\* Variant: a blank secret keeps the stored one for any client.
BoundSecretAny(current, client, typed) ==
    IF typed THEN client
    ELSE IF current # Absent THEN current.secret
    ELSE Absent

\* oidcSecretBoundToClient: a blank secret keeps the stored one for the same client only.
BoundSecret(current, client, typed) ==
    IF typed THEN client
    ELSE IF current # Absent /\ current.client = client THEN current.secret
    ELSE Absent

\* The provider a save would write; its stamp is set at the commit.
Updated(r) ==
    [client |-> r.client, secret |-> BoundSecret(memory, r.client, r.typed),
     status |-> "CONFIGURED", stamp |-> 0, edition |-> 0]

\* Variant: a save without a secret to keep is let through.
CheckUpdateUnbound(a) ==
    LET r == request[a]
    IN  /\ At(a, "sent") /\ r.kind = "save"
        /\ r.expected = Stamp(memory)
        /\ request' = [request EXCEPT ![a] =
                Carrying("save", "checked", r.expected, r.base, Updated(r))]
        /\ UNCHANGED <<row, memory, stamps, draft, probed, astray>>

CheckUpdate(a) ==
    LET r == request[a]
    IN  /\ At(a, "sent") /\ r.kind = "save"
        /\ r.expected = Stamp(memory)
        /\ BoundSecret(memory, r.client, r.typed) # Absent
        /\ request' = [request EXCEPT ![a] =
                Carrying("save", "checked", r.expected, r.base, Updated(r))]
        /\ UNCHANGED <<row, memory, stamps, draft, probed, astray>>

\* preflightAuthProvider and deleteAuthProvider look up the provider and remember it.
CheckKnown(a) ==
    LET r == request[a]
    IN  /\ At(a, "sent") /\ r.kind \in {"preflight", "delete"}
        /\ memory # Absent
        /\ request' = [request EXCEPT ![a] =
                IF r.kind = "delete" THEN Blank("delete", "checked")
                ELSE Carrying("preflight", "checked", memory.stamp, 0, memory)]
        /\ UNCHANGED <<row, memory, stamps, draft, probed, astray>>

\* A conflict, a missing provider or secret, a failing database: an error is shown and
\* the draft stays as it is.
Refuse(a) ==
    /\ At(a, "sent") \/ At(a, "checked") \/ At(a, "vacant")
    /\ request' = [request EXCEPT ![a] = Absent]
    /\ UNCHANGED <<row, memory, stamps, draft, probed, astray>>

-----------------------------------------------------------------------------
(* The handlers: commit, then install                                      *)

\* Variant: whether there is a row is compared, and not its stamp.
ExpectedPresence(r) == (row = Absent) <=> (r.expected = 0)

\* saveAuthProviderWithRoleMappings, what its SELECT finds.
ExpectedRow(r) == Stamp(row) = r.expected

\* FOR UPDATE keeps the row that was found as it is until the commit, a single step then.
Locked(a) ==
    /\ At(a, "checked")
    /\ request[a].expected # 0
    /\ ExpectedRow(request[a])

\* A row that was not found is not locked.
FindVacant(a) ==
    /\ At(a, "checked") /\ request[a].kind = "save"
    /\ request[a].expected = 0
    /\ ExpectedRow(request[a])
    /\ request' = [request EXCEPT ![a].stage = "vacant"]
    /\ UNCHANGED <<row, memory, stamps, draft, probed, astray>>

Committing(a) == \E b \in Admins \ {a} : At(b, "committed")

\* The row is written; the handler goes on to install, or the reply is lost, which it
\* takes for a failure.
Write(a, provider, unlocked) ==
    /\ row' = provider
    /\ \/ /\ request' = [request EXCEPT ![a] =
                  Carrying(request[a].kind, "committed", 0, 0, provider)]
          /\ astray' = (astray \/ (unlocked /\ Committing(a)))
       \/ /\ request' = [request EXCEPT ![a] = Absent]
          /\ astray' = TRUE
    /\ UNCHANGED <<memory, draft>>

Commit(a, provider) ==
    /\ stamps < MaxStamp
    /\ stamps' = stamps + 1
    /\ Write(a, provider, At(a, "vacant"))

Saved(p, stamp) ==
    [client |-> p.client, secret |-> p.secret, status |-> p.status,
     stamp |-> stamp, edition |-> stamp]

\* ON CONFLICT DO UPDATE: a row inserted since the lookup is overwritten.
CommitUpdate(a) ==
    /\ Locked(a) \/ At(a, "vacant")
    /\ request[a].kind = "save"
    /\ Commit(a, Saved(request[a].provider, stamps + 1))
    /\ UNCHANGED probed

Judged(p, verdict, stamp) ==
    [client |-> p.client, secret |-> p.secret, status |-> verdict,
     stamp |-> stamp, edition |-> p.edition]

\* Variant: the verdict is written over the provider as it is by now.
CommitPreflightLate(a) ==
    /\ At(a, "checked") /\ request[a].kind = "preflight"
    /\ row # Absent
    /\ \E verdict \in {"VALIDATED", "ERROR"} :
        /\ Commit(a, Judged(row, verdict, stamps + 1))
        /\ probed' = IF verdict = "VALIDATED" THEN probed \cup {request[a].provider.edition} ELSE probed

\* The verdict on the provider that was read, whichever way the network made it fall.
CommitPreflight(a) ==
    /\ Locked(a) /\ request[a].kind = "preflight"
    /\ \E verdict \in {"VALIDATED", "ERROR"} :
        /\ Commit(a, Judged(request[a].provider, verdict, stamps + 1))
        /\ probed' = IF verdict = "VALIDATED" THEN probed \cup {request[a].provider.edition} ELSE probed

\* The row goes whatever it holds by now.
CommitDelete(a) ==
    /\ At(a, "checked") /\ request[a].kind = "delete"
    /\ Write(a, Absent, TRUE)
    /\ UNCHANGED <<stamps, probed>>

Install(a) ==
    /\ At(a, "committed")
    /\ memory' = request[a].provider
    /\ request' = [request EXCEPT ![a] = Blank(request[a].kind, "answered")]
    /\ UNCHANGED <<row, stamps, draft, probed, astray>>

\* Requests in flight fail; applyStoredProviders reads the rows.
Restart ==
    /\ memory' = row
    /\ request' = [a \in Admins |-> Absent]
    /\ astray' = FALSE
    /\ UNCHANGED <<row, stamps, draft, probed>>

-----------------------------------------------------------------------------
Console(a) ==
    \/ Load(a) \/ AddProvider(a) \/ CancelNew(a)
    \/ \E c \in Clients, typed \in BOOLEAN : UpdateDraft(a, c, typed)
    \/ SubmitSave(a) \/ SubmitDelete(a) \/ Answer(a)

Handler(a) ==
    \/ CheckUpdate(a) \/ CheckKnown(a) \/ Refuse(a) \/ FindVacant(a)
    \/ CommitUpdate(a) \/ CommitPreflight(a) \/ CommitDelete(a)
    \/ Install(a)

Next == Restart \/ \E a \in Admins : Console(a) \/ Handler(a)

Spec == Init /\ [][Next]_vars

-----------------------------------------------------------------------------
(* Properties                                                              *)

TypeOK ==
    /\ row \in {Absent} \cup Provider
    /\ memory \in {Absent} \cup Provider
    /\ stamps \in Nat /\ astray \in BOOLEAN
    /\ draft \in [Admins -> {Absent} \cup Draft]
    /\ request \in [Admins -> {Absent} \cup Request]
    /\ probed \subseteq Nat

\* A save of a draft replaces the edition the draft was started from and no other: what
\* another administrator saved meanwhile is never overwritten unseen, whatever loads,
\* preflights, deletions, lost replies and restarts came in between.  Creations are another
\* matter (CreationFindsNothing).
NoBlindOverwrite ==
    [][\A a \in Admins : CommitUpdate(a) /\ request[a].expected # 0
                          => Edition(row) = request[a].base]_vars

\* store.go:242-247 refuses a creation when the provider exists: it overwrites nothing.
CreationFindsNothing ==
    [][\A a \in Admins : CommitUpdate(a) /\ request[a].expected = 0 => row = Absent]_vars

\* A provider offered for login is one whose own client a preflight found good, not one
\* that was saved while the preflight ran.
ValidatedWasProbed ==
    /\ row # Absent /\ row.status = "VALIDATED" => row.edition \in probed
    /\ memory # Absent /\ memory.status = "VALIDATED" => memory.edition \in probed

\* A secret is never sent to a client other than the one it was given for: a draft that
\* changes the client and leaves the secret blank does not take the stored one along.
SecretStaysWithClient ==
    /\ row # Absent => row.secret = row.client
    /\ memory # Absent => memory.secret = memory.client

\* auth.go:1380-1385, 1505-1507: memory follows the database, so that with nothing between
\* commit and install logins use what is stored.  The stamps see to it that two changes of
\* one stored provider are never between commit and install at once; deletions and
\* creations, which compare none, and lost replies can leave the two apart, until a restart.
MemoryFollowsRow ==
    memory # row => astray \/ \E a \in Admins : At(a, "committed")

\* main.jsx:5362 tells the administrator 'Proveedor eliminado; ya no aparecerá en el
\* login': while a deletion is being answered and there is no row, no change committed
\* before it puts the provider back into memory.
DeletedStaysOut ==
    [][\A a, b \in Admins :
        Install(a) /\ At(b, "answered") /\ request[b].kind = "delete" /\ row = Absent
            => request[a].provider = Absent]_vars

=============================================================================
