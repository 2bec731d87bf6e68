------------------------------ MODULE PolicyForm ------------------------------
(***************************************************************************)
(* The Java policy editor of the console: a document with rules for HTTP   *)
(* exchanges and for messages, the metrics each rule emits, and the schema *)
(* version it declares, edited through a form or as JSON, then published.  *)
(*                                                                         *)
(* Three things are kept consistent by hand, edit after edit, and judged   *)
(* again by the server when the document is published:                     *)
(*   - a metric names its rule: removing or renaming the rule must take    *)
(*     its metrics along, also while two rules share a name;               *)
(*   - no two rules, HTTP or messaging, have the same name;                *)
(*   - schemaVersion must be at least what the features in use require.    *)
(*                                                                         *)
(* A rule sits in a slot, which stands for its id.  Of its content the     *)
(* model keeps what those three read: where its conditions and fields take *)
(* their values, whether a value policy leaves the cardinality of one      *)
(* uncontrolled, and whether the rule emits by itself (a log or a span     *)
(* attribute).  Of a method policy and of a metric over all exchanges it   *)
(* keeps the value policy.  Schema versions 1.2 to 1.7 are the numbers 2   *)
(* to 7.  The rest of the server's validation is left out: a refusal here  *)
(* is one of those three.                                                  *)
(***************************************************************************)
EXTENDS Naturals, Sequences

CONSTANTS
    Names,             \* identifiers a user may give a rule
    HttpSlots, HttpMetricSlots,
    MethodSlots, GlobalSlots,
    MsgSlots, MsgMetricSlots,
    Absent,            \* an empty slot
    HttpCandidates,    \* "http-event", "http-event-2", ... in order
    MsgCandidates,     \* "kafka-event", "kafka-event-2", ... in order
    Stored,            \* documents of stored versions
    Typed,             \* documents a user may type as JSON
    Unparsable,        \* text that is not JSON
    Agents,            \* the connected destinations that match the selector
    Supports           \* agent -> schema version it advertises

Schemas    == 2..7
Sources    == {"plain", "header", "path"}
Values     == {"controlled", "uncontrolled"}
HttpRule   == [name : Names, source : Sources, passthrough : BOOLEAN, emits : BOOLEAN]
HttpMetric == [rule : Names, standard : BOOLEAN]
MsgRule    == [name : Names, passthrough : BOOLEAN, emits : BOOLEAN]
MsgMetric  == [rule : Names]

Document ==
    [schema      : Schemas,
     http        : [HttpSlots -> {Absent} \cup HttpRule],
     httpMetrics : [HttpMetricSlots -> {Absent} \cup HttpMetric],
     methods     : [MethodSlots -> {Absent} \cup Values],
     globals     : [GlobalSlots -> {Absent} \cup Values],   \* metricPolicies
     msg         : [MsgSlots -> {Absent} \cup MsgRule],
     msgMetrics  : [MsgMetricSlots -> {Absent} \cup MsgMetric]]

Outcomes == {"none", "accepted", "schema", "rules", "agents"}

VARIABLES
    doc,      \* what the editor holds: policy in form mode, rawPolicyBody in raw mode
    mode,     \* editorMode
    typed,    \* doc comes from JSON typed by hand
    outcome   \* what the server made of doc, once published

vars == <<doc, mode, typed, outcome>>

-----------------------------------------------------------------------------
(* Rules and the metrics that name them; the same code twice in the source *)

Used(rules)        == {s \in DOMAIN rules : rules[s] # Absent}
Declared(rules)    == {rules[s].name : s \in Used(rules)}
Owners(rules, n)   == {s \in Used(rules) : rules[s].name = n}
Linked(rules, metrics) == \A m \in Used(metrics) : metrics[m].rule \in Declared(rules)
Distinct(rules)    == \A s, t \in Used(rules) : rules[s].name = rules[t].name => s = t

AllLinked(d) == Linked(d.http, d.httpMetrics) /\ Linked(d.msg, d.msgMetrics)

\* Variant: the rule to remove counts among those that still declare the name.
MetricsAfterRemovalIfUnused(rules, metrics, s) ==
    LET target == rules[s].name
    IN  IF target \in Declared(rules) THEN metrics
        ELSE [m \in DOMAIN metrics |->
                IF metrics[m] # Absent /\ metrics[m].rule = target THEN Absent ELSE metrics[m]]

\* The metrics left when rule s goes: those of its name go with it, unless
\* another rule still declares that name.
MetricsAfterRemoval(rules, metrics, s) ==
    LET target == rules[s].name
        stillDeclared == Owners(rules, target) # {s}
    IN  IF stillDeclared THEN metrics
        ELSE [m \in DOMAIN metrics |->
                IF metrics[m] # Absent /\ metrics[m].rule = target THEN Absent ELSE metrics[m]]

WithRule(metric, name) == [metric EXCEPT !.rule = name]

\* The metrics when rule s is renamed: they follow only if the old name was its own.
MetricsAfterRename(rules, metrics, s, name) ==
    LET previous == rules[s].name
        only == Owners(rules, previous) = {s}
    IN  [m \in DOMAIN metrics |->
            IF metrics[m] # Absent /\ metrics[m].rule = previous /\ only
            THEN WithRule(metrics[m], name) ELSE metrics[m]]

\* nextHTTPEventName looks at HTTP rules alone, nextMessagingEventName at all.
IsNext(candidates, used, n) ==
    \E i \in 1..Len(candidates) :
        /\ candidates[i] = n
        /\ n \notin used
        /\ \A j \in 1..(i - 1) : candidates[j] \in used

-----------------------------------------------------------------------------
(* The schema a document needs                                             *)

UsesPassthrough(d) ==
    \/ \E g \in Used(d.globals) : d.globals[g] = "uncontrolled"
    \/ \E w \in Used(d.methods) : d.methods[w] = "uncontrolled"
    \/ \E s \in Used(d.http) : d.http[s].passthrough
    \/ \E s \in Used(d.msg) : d.msg[s].passthrough
UsesStandard(d)    == \E m \in Used(d.httpMetrics) : d.httpMetrics[m].standard
UsesPathParameters(d) == \E s \in Used(d.http) : d.http[s].source = "path"
UsesMessaging(d)   == Used(d.msg) # {} \/ Used(d.msgMetrics) # {}
UsesExtended(d)    == \E s \in Used(d.http) : d.http[s].source = "header"

\* requiredPolicySchema: the declared version counts only when nothing needs more than 1.3.
RequiredPolicySchema(d) ==
    IF UsesPassthrough(d) THEN 7
    ELSE IF UsesStandard(d) THEN 6
    ELSE IF UsesPathParameters(d) \/ UsesMessaging(d) THEN 5
    ELSE IF UsesExtended(d) THEN 4
    ELSE d.schema

EnsurePolicySchema(current, required) == IF current >= required THEN current ELSE required

\* validateJavaPolicy checks each feature against the declared version.
Covers(d) ==
    /\ Used(d.globals) # {} \/ Used(d.http) # {} \/ Used(d.httpMetrics) # {} => d.schema >= 3
    /\ UsesExtended(d) => d.schema >= 4
    /\ UsesPathParameters(d) \/ UsesMessaging(d) => d.schema >= 5
    /\ UsesStandard(d) => d.schema >= 6
    /\ UsesPassthrough(d) => d.schema = 7

AgentSupportsPolicySchema(a, required) == required <= 3 \/ Supports[a] >= required

-----------------------------------------------------------------------------
(* What stops a publication, on each side                                  *)

DuplicateTelemetryEventNames(d) ==
    \/ ~Distinct(d.http) \/ ~Distinct(d.msg)
    \/ Declared(d.http) \cap Declared(d.msg) # {}

\* httpEventHasOutput, messagingEventHasOutput: a rule emits by itself or has a metric.
HasOutput(rules, metrics) ==
    \A s \in Used(rules) :
        rules[s].emits \/ \E m \in Used(metrics) : metrics[m].rule = rules[s].name

\* Variant: names are compared among HTTP rules only (duplicateHTTPEventNames).
ConfigurationReadyByFamily(d) ==
    /\ d # Unparsable
    /\ Distinct(d.http)
    /\ HasOutput(d.http, d.httpMetrics) /\ HasOutput(d.msg, d.msgMetrics)
    /\ \A a \in Agents : AgentSupportsPolicySchema(a, RequiredPolicySchema(d))

\* publicationBlockers, as far as they read the document.
ConfigurationReady(d) ==
    /\ d # Unparsable
    /\ ~DuplicateTelemetryEventNames(d)
    /\ HasOutput(d.http, d.httpMetrics) /\ HasOutput(d.msg, d.msgMetrics)
    /\ \A a \in Agents : AgentSupportsPolicySchema(a, RequiredPolicySchema(d))

\* The server's rule checks; unlike the console it follows each metric to its rule.
RulesAccepted(d) ==
    /\ AllLinked(d)
    /\ ~DuplicateTelemetryEventNames(d)
    /\ HasOutput(d.http, d.httpMetrics) /\ HasOutput(d.msg, d.msgMetrics)

\* validateJavaPolicy, then validatePolicySchemaForKnownAgents.
Verdict(d) ==
    IF ~Covers(d) THEN "schema"
    ELSE IF ~RulesAccepted(d) THEN "rules"
    ELSE IF \E a \in Agents : ~AgentSupportsPolicySchema(a, d.schema) THEN "agents"
    ELSE "accepted"

EmptyPolicy ==
    [schema      |-> 5,
     http        |-> [s \in HttpSlots |-> Absent],
     httpMetrics |-> [m \in HttpMetricSlots |-> Absent],
     methods     |-> [w \in MethodSlots |-> Absent],
     globals     |-> [g \in GlobalSlots |-> Absent],
     msg         |-> [s \in MsgSlots |-> Absent],
     msgMetrics  |-> [m \in MsgMetricSlots |-> Absent]]

ASSUME NameAssumption ==
    /\ HttpCandidates \in Seq(Names) /\ MsgCandidates \in Seq(Names)
    /\ Absent \notin HttpRule \cup HttpMetric \cup MsgRule \cup MsgMetric \cup Values
ASSUME DocumentAssumption ==
    /\ Stored \subseteq Document /\ Typed \subseteq Document
    /\ Unparsable \notin Document
    /\ \A d \in Stored : AllLinked(d)

-----------------------------------------------------------------------------
Init ==
    /\ doc = EmptyPolicy
    /\ mode = "form"
    /\ typed = FALSE
    /\ outcome = "none"

\* setPolicy from the form: the editors are shown in form mode only.
Edit(d) ==
    /\ mode = "form"
    /\ doc' = d
    /\ outcome' = "none"
    /\ UNCHANGED <<mode, typed>>

Raise(required) == EnsurePolicySchema(doc.schema, required)

AddHttpRule ==
    \E s \in HttpSlots \ Used(doc.http), n \in Names :
        /\ IsNext(HttpCandidates, Declared(doc.http), n)
        /\ Edit([doc EXCEPT !.schema = Raise(5),
                            !.http[s] = [name |-> n, source |-> "plain",
                                         passthrough |-> FALSE, emits |-> FALSE]])

RemoveHttpRule(s) ==
    Edit([doc EXCEPT !.http[s] = Absent,
                     !.httpMetrics = MetricsAfterRemoval(doc.http, doc.httpMetrics, s)])

RenameHttpRule(s, n) ==
    Edit([doc EXCEPT !.http[s].name = n,
                     !.httpMetrics = MetricsAfterRename(doc.http, doc.httpMetrics, s, n)])

\* What a rule holds besides its name, and the schema, after an edit of one of its parts.
Revise(s, source, passthrough, emits, schema) ==
    LET rule == [name |-> doc.http[s].name, source |-> source,
                 passthrough |-> passthrough, emits |-> emits]
    IN  Edit([doc EXCEPT !.http[s] = rule, !.schema = schema])

RaiseFor(source) ==
    CASE source = "path"   -> Raise(5)
      [] source = "header" -> Raise(4)
      [] OTHER             -> doc.schema

\* A condition added, removed or pointed at another source.
SetConditionSource(s, source) ==
    Revise(s, source, doc.http[s].passthrough, doc.http[s].emits, RaiseFor(source))

\* A condition on the path is given a value with a parameter in it, like /orders/{id}.
TypeTemplate(s) ==
    Revise(s, "path", doc.http[s].passthrough, doc.http[s].emits, doc.schema)

SetFieldSource(s, source) ==
    Revise(s, source, doc.http[s].passthrough, doc.http[s].emits, RaiseFor(source))

\* A field is added, for the span and the log, or its destinations are changed.
EditFields(s, emits) ==
    Revise(s, doc.http[s].source, doc.http[s].passthrough, emits, doc.schema)

\* A field goes, and with it what it read and its value policy.
RemoveField(s, emits) == Revise(s, "plain", FALSE, emits, doc.schema)

\* A calculated field takes its value from other fields.
EditDerivedFields(s, passthrough, emits) ==
    /\ passthrough => doc.http[s].passthrough
    /\ Revise(s, doc.http[s].source, passthrough, emits, doc.schema)

\* A static attribute is added, for the span and the log, changed or removed.
EditStaticAttributes(s, emits) ==
    Revise(s, doc.http[s].source, doc.http[s].passthrough, emits, doc.schema)

\* The name of the event, which is a static attribute, and the log.
EditOutputs(s, emits) ==
    Revise(s, doc.http[s].source, doc.http[s].passthrough, emits, doc.schema)

\* onChange, then onRequireSchema("1.7"), of a field or a calculated field.
SetValuePolicy(s, passthrough) ==
    Revise(s, doc.http[s].source, passthrough, doc.http[s].emits,
           IF passthrough THEN Raise(7) ELSE doc.schema)

AddHttpMetric(s) ==
    \E m \in HttpMetricSlots \ Used(doc.httpMetrics) :
        Edit([doc EXCEPT !.httpMetrics[m] = [rule |-> doc.http[s].name, standard |-> FALSE]])

\* Name, instrument, value and the fields it takes as labels.
EditHttpMetric(m) == Edit(doc)

RemoveHttpMetric(m) == Edit([doc EXCEPT !.httpMetrics[m] = Absent])

\* Variant: the version is raised when the attribute goes.
ToggleStandardAttributeReversed(m) ==
    Edit([doc EXCEPT !.httpMetrics[m].standard = ~doc.httpMetrics[m].standard,
                     !.schema = IF doc.httpMetrics[m].standard THEN Raise(6) ELSE doc.schema])

ToggleStandardAttribute(m) ==
    Edit([doc EXCEPT !.httpMetrics[m].standard = ~doc.httpMetrics[m].standard,
                     !.schema = IF doc.httpMetrics[m].standard THEN doc.schema ELSE Raise(6)])

-----------------------------------------------------------------------------
(* Methods, and metrics over all exchanges                                 *)

AddMethod ==
    \E w \in MethodSlots \ Used(doc.methods) :
        Edit([doc EXCEPT !.methods[w] = "controlled"])

RemoveMethod(w) == Edit([doc EXCEPT !.methods[w] = Absent])

\* A capture is added or removed, or its value policy set.
EditCapture(w, values) ==
    Edit([doc EXCEPT !.methods[w] = values,
                     !.schema = IF values = "uncontrolled" THEN Raise(7) ELSE doc.schema])

\* The instruments and the log of a method.
EditInstruments(w) == Edit(doc)

AddGlobalMetric ==
    \E g \in GlobalSlots \ Used(doc.globals) :
        Edit([doc EXCEPT !.globals[g] = "controlled", !.schema = Raise(3)])

RemoveGlobalMetric(g) == Edit([doc EXCEPT !.globals[g] = Absent])

\* Its standard attributes, unlike those of a rule's metric, need no schema.
EditGlobalMetric(g) == Edit(doc)

\* A label of its own is added or removed, or its value policy set.
EditLabel(g, values) ==
    Edit([doc EXCEPT !.globals[g] = values,
                     !.schema = IF values = "uncontrolled" THEN Raise(7) ELSE doc.schema])

-----------------------------------------------------------------------------
(* Messaging: adding or editing a rule or a metric sets the version to 1.5 *)

AddMsgRule ==
    \E s \in MsgSlots \ Used(doc.msg), n \in Names :
        /\ IsNext(MsgCandidates, Declared(doc.http) \cup Declared(doc.msg), n)
        /\ Edit([doc EXCEPT !.schema = 5,
                            !.msg[s] = [name |-> n, passthrough |-> FALSE, emits |-> FALSE]])

RemoveMsgRule(s) ==
    Edit([doc EXCEPT !.msg[s] = Absent,
                     !.msgMetrics = MetricsAfterRemoval(doc.msg, doc.msgMetrics, s)])

RenameMsgRule(s, n) ==
    Edit([doc EXCEPT !.msg[s].name = n,
                     !.msgMetrics = MetricsAfterRename(doc.msg, doc.msgMetrics, s, n)])

\* updateEvent
ReviseMsg(s, passthrough, emits, schema) ==
    LET rule == [name |-> doc.msg[s].name, passthrough |-> passthrough, emits |-> emits]
    IN  Edit([doc EXCEPT !.msg[s] = rule, !.schema = schema])

\* A Kafka operation has no properties: the fields that read one are dropped.
EditMsgScope(s, passthrough, emits) ==
    /\ passthrough => doc.msg[s].passthrough
    /\ ReviseMsg(s, passthrough, emits, 5)

EditMsgConditions(s) == ReviseMsg(s, doc.msg[s].passthrough, doc.msg[s].emits, 5)

\* A field is added, changed or removed.
EditMsgFields(s, passthrough, emits) ==
    /\ passthrough => doc.msg[s].passthrough
    /\ ReviseMsg(s, passthrough, emits, 5)

EditMsgOutputs(s, emits) == ReviseMsg(s, doc.msg[s].passthrough, emits, 5)

\* onChange, which is updateEvent, then onRequireSchema("1.7").
SetMsgValuePolicy(s, passthrough) ==
    ReviseMsg(s, passthrough, doc.msg[s].emits,
              IF passthrough THEN EnsurePolicySchema(5, 7) ELSE 5)

AddMsgMetric(s) ==
    \E m \in MsgMetricSlots \ Used(doc.msgMetrics) :
        Edit([doc EXCEPT !.schema = 5, !.msgMetrics[m] = [rule |-> doc.msg[s].name]])

EditMsgMetric(m) == Edit([doc EXCEPT !.schema = 5])

RemoveMsgMetric(m) == Edit([doc EXCEPT !.msgMetrics[m] = Absent])

-----------------------------------------------------------------------------
(* The document as a whole                                                 *)

\* What a user types replaces the text; it need not be JSON, let alone consistent.
TypeRaw ==
    /\ mode = "raw"
    /\ doc' \in Typed \cup {Unparsable}
    /\ typed' = TRUE
    /\ outcome' = "none"
    /\ UNCHANGED mode

\* Variant: the form opens on whatever the text is.
SwitchEditorModeUnparsed ==
    /\ mode' = IF mode = "form" THEN "raw" ELSE "form"
    /\ UNCHANGED <<doc, typed, outcome>>

SwitchEditorMode ==
    /\ mode' = IF mode = "form" THEN "raw" ELSE IF doc = Unparsable THEN "raw" ELSE "form"
    /\ UNCHANGED <<doc, typed, outcome>>

\* Neither loading a version nor starting over leaves raw mode.
LoadVersion ==
    /\ doc' \in Stored
    /\ typed' = FALSE
    /\ outcome' = "none"
    /\ UNCHANGED mode

StartBlank ==
    /\ doc' = EmptyPolicy
    /\ typed' = FALSE
    /\ outcome' = "none"
    /\ UNCHANGED mode

Publish ==
    /\ ConfigurationReady(doc)
    /\ outcome' = Verdict(doc)
    /\ UNCHANGED <<doc, mode, typed>>

HttpEdit ==
    \/ AddHttpRule
    \/ \E s \in Used(doc.http) :
        \/ RemoveHttpRule(s)
        \/ \E n \in Names : RenameHttpRule(s, n)
        \/ \E source \in Sources : SetConditionSource(s, source) \/ SetFieldSource(s, source)
        \/ TypeTemplate(s)
        \/ \E emits \in BOOLEAN :
            \/ EditFields(s, emits) \/ RemoveField(s, emits)
            \/ EditStaticAttributes(s, emits) \/ EditOutputs(s, emits)
            \/ \E passthrough \in BOOLEAN : EditDerivedFields(s, passthrough, emits)
        \/ \E passthrough \in BOOLEAN : SetValuePolicy(s, passthrough)
        \/ AddHttpMetric(s)
    \/ \E m \in Used(doc.httpMetrics) :
        \/ EditHttpMetric(m)
        \/ RemoveHttpMetric(m)
        \/ ToggleStandardAttribute(m)

MethodEdit ==
    \/ AddMethod
    \/ \E w \in Used(doc.methods) :
        \/ RemoveMethod(w) \/ EditInstruments(w)
        \/ \E values \in Values : EditCapture(w, values)
    \/ AddGlobalMetric
    \/ \E g \in Used(doc.globals) :
        \/ RemoveGlobalMetric(g) \/ EditGlobalMetric(g)
        \/ \E values \in Values : EditLabel(g, values)

\* The edits that set schemaVersion to 1.5.
MsgRewrite ==
    \/ AddMsgRule
    \/ \E s \in Used(doc.msg) :
        \/ EditMsgConditions(s)
        \/ \E passthrough, emits \in BOOLEAN :
            EditMsgScope(s, passthrough, emits) \/ EditMsgFields(s, passthrough, emits)
        \/ \E emits \in BOOLEAN : EditMsgOutputs(s, emits)
        \/ \E passthrough \in BOOLEAN : SetMsgValuePolicy(s, passthrough)
        \/ AddMsgMetric(s)
    \/ \E m \in Used(doc.msgMetrics) : EditMsgMetric(m)

MsgEdit ==
    \/ MsgRewrite
    \/ \E s \in Used(doc.msg) :
        \/ RemoveMsgRule(s)
        \/ \E n \in Names : RenameMsgRule(s, n)
    \/ \E m \in Used(doc.msgMetrics) : RemoveMsgMetric(m)

Next ==
    \/ mode = "form" /\ (HttpEdit \/ MethodEdit \/ MsgEdit)
    \/ TypeRaw \/ SwitchEditorMode \/ LoadVersion \/ StartBlank \/ Publish

Spec == Init /\ [][Next]_vars

-----------------------------------------------------------------------------
(* Properties                                                              *)

TypeOK ==
    /\ doc \in Document \cup {Unparsable}
    /\ mode \in {"form", "raw"}
    /\ typed \in BOOLEAN
    /\ outcome \in Outcomes
    /\ mode = "form" \/ ~typed => doc \in Document

\* A document built by form edits from a stored version or from nothing has no metric
\* whose rule is gone, whatever rules shared a name on the way: the editor hides such a
\* metric (it lists metrics under their rule), so the user could not even see why the
\* server refuses the document.
FormKeepsLinks == ~typed => AllLinked(doc)

\* What the console lets through and no one typed as JSON is never refused for its
\* rules: the checks of the server the console does not repeat are implied by the way
\* the form edits.
FormRulesAccepted == outcome = "rules" => typed

\* The edits that leave a document below the schema its features need are those of
\* messaging rules and metrics, and a path template typed into a condition; removing,
\* renaming and every other edit keep the declared version sufficient.
OnlySomeEditsLoseSchema ==
    [][mode = "form" /\ mode' = "form" /\ ~Covers(doc') /\ Covers(doc)
        => MsgRewrite \/ LoadVersion \/ \E s \in Used(doc.http) : TypeTemplate(s)]_vars

\* telemetry-events.test.js:245: a schema is raised "sin degradar un schema existente";
\* so a document that was never below its schema is not brought below it by the form.
SchemaCoversFeatures == ~typed /\ mode = "form" => Covers(doc)

=============================================================================
