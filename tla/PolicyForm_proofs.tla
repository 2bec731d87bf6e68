-------------------------- MODULE PolicyForm_proofs ---------------------------
(***************************************************************************)
(* Theorems about PolicyForm, for any names, slots, stored and typed       *)
(* documents.                                                              *)
(***************************************************************************)
EXTENDS PolicyForm, TLAPS

\* Removing a rule together with its metrics leaves a linked family linked.
LEMMA RemovalKeepsLinks ==
    ASSUME NEW rules, NEW metrics, NEW s \in DOMAIN rules,
           rules[s] # Absent, Linked(rules, metrics)
    PROVE  Linked([rules EXCEPT ![s] = Absent], MetricsAfterRemoval(rules, metrics, s))
  <1> DEFINE target == rules[s].name
             left   == [rules EXCEPT ![s] = Absent]
             kept   == MetricsAfterRemoval(rules, metrics, s)
  <1>1. SUFFICES ASSUME NEW m \in Used(kept)
                 PROVE  \E t \in Used(left) : left[t].name = kept[m].rule
    BY DEF Linked, Declared
  <1>2. m \in Used(metrics) /\ kept[m] = metrics[m]
    BY <1>1 DEF MetricsAfterRemoval, Used
  <1>3. PICK t \in Used(rules) : rules[t].name = metrics[m].rule
    BY <1>2 DEF Linked, Declared
  <1>4. CASE t # s
    <2>1. t \in Used(left) /\ left[t] = rules[t]
      BY <1>3, <1>4 DEF Used
    <2> QED BY <1>2, <1>3, <2>1
  <1>5. CASE t = s
    <2>1. Owners(rules, target) # {s}
      BY <1>1, <1>2, <1>3, <1>5 DEF MetricsAfterRemoval, Used
    <2>2. s \in Owners(rules, target)
      BY DEF Owners, Used
    <2>3. PICK u \in Owners(rules, target) : u # s
      BY <2>1, <2>2
    <2>4. u \in Used(left) /\ left[u] = rules[u] /\ rules[u].name = target
      BY <2>3 DEF Owners, Used
    <2> QED BY <1>2, <1>3, <1>5, <2>4
  <1> QED BY <1>4, <1>5

\* Renaming a rule, shared name or not, leaves a linked family linked.
LEMMA RenameKeepsLinks ==
    ASSUME NEW R, NEW Slots, NEW rules \in [Slots -> {Absent} \cup R], NEW metrics,
           NEW s \in Slots, NEW n, rules[s] # Absent, Linked(rules, metrics),
           NEW renamed \in [Slots -> {Absent} \cup R],
           renamed[s] # Absent, renamed[s].name = n,
           \A t \in Slots \ {s} : renamed[t] = rules[t],
           \A m \in Used(metrics) : WithRule(metrics[m], n).rule = n
    PROVE  Linked(renamed, MetricsAfterRename(rules, metrics, s, n))
  <1> DEFINE previous == rules[s].name
             moved    == MetricsAfterRename(rules, metrics, s, n)
             only     == Owners(rules, previous) = {s}
  <1>1. SUFFICES ASSUME NEW m \in Used(moved)
                 PROVE  \E t \in Used(renamed) : renamed[t].name = moved[m].rule
    BY DEF Linked, Declared
  <1>2. m \in Used(metrics)
    BY <1>1 DEF MetricsAfterRename, Used
  <1>3. s \in Used(renamed) /\ s \in Used(rules)
    BY DEF Used
  <1>4. CASE metrics[m].rule = previous /\ only
    <2>1. moved[m] = WithRule(metrics[m], n)
      BY <1>2, <1>4 DEF MetricsAfterRename, Used
    <2>2. moved[m].rule = n
      BY <1>2, <2>1
    <2> QED BY <1>3, <2>2
  <1>5. CASE ~ (metrics[m].rule = previous /\ only)
    <2>1. moved[m] = metrics[m]
      BY <1>2, <1>5 DEF MetricsAfterRename, Used
    <2>2. PICK t \in Used(rules) : rules[t].name = metrics[m].rule
      BY <1>2 DEF Linked, Declared
    <2>3. PICK u \in Used(rules) : u # s /\ rules[u].name = metrics[m].rule
      <3>1. CASE t # s
        BY <2>2, <3>1
      <3>2. CASE t = s
        <4>1. metrics[m].rule = previous /\ ~ only
          BY <1>5, <2>2, <3>2
        <4>2. s \in Owners(rules, previous)
          BY <1>3 DEF Owners
        <4>3. PICK u \in Owners(rules, previous) : u # s
          BY <4>1, <4>2
        <4> QED BY <4>1, <4>3 DEF Owners
      <3> QED BY <3>1, <3>2
    <2>4. u \in Used(renamed) /\ renamed[u] = rules[u]
      BY <2>3 DEF Used
    <2> QED BY <2>1, <2>3, <2>4
  <1> QED BY <1>4, <1>5

\* Filling an empty slot, or changing what a rule holds besides its name, keeps every link.
LEMMA OtherRulesKeepLinks ==
    ASSUME NEW rules, NEW metrics, NEW changed, Linked(rules, metrics),
           DOMAIN changed = DOMAIN rules,
           \A t \in Used(rules) : changed[t] # Absent /\ changed[t].name = rules[t].name
    PROVE  Linked(changed, metrics)
  BY DEF Linked, Declared, Used

\* A metric put in a slot for a declared rule, or changed without touching its rule, is linked.
LEMMA OtherMetricsKeepLinks ==
    ASSUME NEW rules, NEW metrics, NEW changed, Linked(rules, metrics),
           DOMAIN changed = DOMAIN metrics,
           \A m \in Used(changed) :
              \/ m \in Used(metrics) /\ changed[m].rule = metrics[m].rule
              \/ changed[m].rule \in Declared(rules)
    PROVE  Linked(rules, changed)
  BY DEF Linked, Used

LEMMA RemovalType ==
    ASSUME NEW M, NEW S, NEW rules, NEW metrics \in [M -> {Absent} \cup S], NEW s
    PROVE  MetricsAfterRemoval(rules, metrics, s) \in [M -> {Absent} \cup S]
  BY DEF MetricsAfterRemoval

LEMMA RenameType ==
    ASSUME NEW M, NEW S, NEW rules, NEW metrics \in [M -> {Absent} \cup S], NEW s, NEW n,
           \A metric \in S : WithRule(metric, n) \in S
    PROVE  MetricsAfterRename(rules, metrics, s, n) \in [M -> {Absent} \cup S]
  BY DEF MetricsAfterRename

LEMMA EnsureType ==
    ASSUME NEW current \in Schemas, NEW required \in Schemas
    PROVE  EnsurePolicySchema(current, required) \in Schemas
  BY DEF EnsurePolicySchema, Schemas

LEMMA VerdictType == ASSUME NEW d PROVE Verdict(d) \in Outcomes
  BY DEF Verdict, Outcomes

\* What a form edit makes of a document, and what it may rely on.
Sound(d) == d \in Document /\ (AllLinked(doc) => AllLinked(d))

LEMMA AddHttpRuleSound ==
    ASSUME doc \in Document, AddHttpRule PROVE \E d : Edit(d) /\ Sound(d)
  <1>1. PICK s \in HttpSlots \ Used(doc.http), n \in Names :
            Edit([doc EXCEPT !.schema = Raise(5),
                             !.http[s] = [name |-> n, source |-> "plain",
                                         passthrough |-> FALSE, emits |-> FALSE]])
    BY DEF AddHttpRule
  <1> DEFINE rule == [name |-> n, source |-> "plain", passthrough |-> FALSE, emits |-> FALSE]
             http == [doc.http EXCEPT ![s] = rule]
             d == [doc EXCEPT !.schema = Raise(5), !.http[s] = rule]
  <1>2. rule \in HttpRule /\ rule # Absent
    <2>1. rule \in HttpRule
      BY DEF HttpRule, Sources
    <2> QED BY <2>1, NameAssumption
  <1>3. Raise(5) \in Schemas
    BY EnsureType DEF Raise, Document, Schemas
  <1>4. d \in Document
    BY <1>2, <1>3 DEF Document
  <1>5. d.http = http /\ d.httpMetrics = doc.httpMetrics /\ d.msg = doc.msg
            /\ d.msgMetrics = doc.msgMetrics
    BY DEF Document
  <1>6. DOMAIN http = DOMAIN doc.http
           /\ \A t \in Used(doc.http) : http[t] # Absent /\ http[t].name = doc.http[t].name
    BY DEF Document, Used
  <1>7. AllLinked(doc) => AllLinked(d)
    <2> SUFFICES ASSUME AllLinked(doc) PROVE AllLinked(d)
      OBVIOUS
    <2>1. Linked(http, doc.httpMetrics)
      BY <1>6, OtherRulesKeepLinks DEF AllLinked
    <2> QED BY <1>5, <2>1 DEF AllLinked
  <1> QED BY <1>1, <1>4, <1>7 DEF Sound

LEMMA RemoveHttpRuleSound ==
    ASSUME doc \in Document, NEW s \in Used(doc.http), RemoveHttpRule(s)
    PROVE  \E d : Edit(d) /\ Sound(d)
  <1> DEFINE http == [doc.http EXCEPT ![s] = Absent]
             metrics == MetricsAfterRemoval(doc.http, doc.httpMetrics, s)
             d == [doc EXCEPT !.http[s] = Absent, !.httpMetrics = metrics]
  <1>1. metrics \in [HttpMetricSlots -> {Absent} \cup HttpMetric]
    BY RemovalType DEF Document
  <1>2. d \in Document
    BY <1>1 DEF Document
  <1>3. d.http = http /\ d.httpMetrics = metrics /\ d.msg = doc.msg
            /\ d.msgMetrics = doc.msgMetrics
    BY DEF Document
  <1>4. AllLinked(doc) => AllLinked(d)
    BY <1>3, RemovalKeepsLinks DEF AllLinked, Used
  <1> QED BY <1>2, <1>4 DEF Sound, RemoveHttpRule

LEMMA RenameHttpRuleSound ==
    ASSUME doc \in Document, NEW s \in Used(doc.http), NEW n \in Names, RenameHttpRule(s, n)
    PROVE  \E d : Edit(d) /\ Sound(d)
  <1> DEFINE http == [doc.http EXCEPT ![s].name = n]
             metrics == MetricsAfterRename(doc.http, doc.httpMetrics, s, n)
             d == [doc EXCEPT !.http[s].name = n, !.httpMetrics = metrics]
  <1>1. \A metric \in HttpMetric : WithRule(metric, n) \in HttpMetric /\ WithRule(metric, n).rule = n
    BY DEF WithRule, HttpMetric
  <1>2. metrics \in [HttpMetricSlots -> {Absent} \cup HttpMetric]
    BY <1>1, RenameType DEF Document
  <1>3. doc.http \in [HttpSlots -> {Absent} \cup HttpRule] /\ doc.http[s] \in HttpRule /\ s \in HttpSlots
    BY DEF Document, Used
  <1>4. [doc.http[s] EXCEPT !.name = n] \in HttpRule /\ [doc.http[s] EXCEPT !.name = n].name = n
    BY <1>3 DEF HttpRule
  <1>5. http \in [HttpSlots -> {Absent} \cup HttpRule] /\ http[s] # Absent /\ http[s].name = n
           /\ \A t \in HttpSlots \ {s} : http[t] = doc.http[t]
    BY <1>3, <1>4, NameAssumption
  <1>6. d \in Document
    BY <1>2, <1>5 DEF Document
  <1>7. d.http = http /\ d.httpMetrics = metrics /\ d.msg = doc.msg
            /\ d.msgMetrics = doc.msgMetrics
    BY DEF Document
  <1>8. \A m \in Used(doc.httpMetrics) : WithRule(doc.httpMetrics[m], n).rule = n
    BY <1>1 DEF Used, Document
  <1>9. AllLinked(doc) => Linked(http, metrics)
    BY <1>3, <1>5, <1>8, RenameKeepsLinks DEF AllLinked, Used
  <1> QED BY <1>6, <1>7, <1>9 DEF Sound, RenameHttpRule, AllLinked

\* An edit of one HTTP rule that leaves its name alone, whatever it does to schemaVersion.
LEMMA ReviseHttpRuleSound ==
    ASSUME doc \in Document, NEW s \in Used(doc.http), NEW rule \in HttpRule,
           NEW schema \in Schemas, rule.name = doc.http[s].name
    PROVE  Sound([doc EXCEPT !.http = [@ EXCEPT ![s] = rule], !.schema = schema])
  <1> DEFINE http == [doc.http EXCEPT ![s] = rule]
             d == [doc EXCEPT !.http = [@ EXCEPT ![s] = rule], !.schema = schema]
  <1>1. d \in Document
    BY DEF Document
  <1>2. d.http = http /\ d.httpMetrics = doc.httpMetrics /\ d.msg = doc.msg
            /\ d.msgMetrics = doc.msgMetrics
    BY DEF Document
  <1>3. rule # Absent
    BY NameAssumption
  <1>4. DOMAIN http = DOMAIN doc.http
           /\ \A t \in Used(doc.http) : http[t] # Absent /\ http[t].name = doc.http[t].name
    BY <1>3 DEF Document, Used
  <1>5. AllLinked(doc) => Linked(http, doc.httpMetrics)
    BY <1>4, OtherRulesKeepLinks DEF AllLinked
  <1> QED BY <1>1, <1>2, <1>5 DEF Sound, AllLinked

\* The rule in a slot that is used.
LEMMA UsedHttpRule ==
    ASSUME doc \in Document, NEW s \in Used(doc.http)
    PROVE  s \in HttpSlots /\ doc.http[s] \in HttpRule
  BY DEF Document, Used

LEMMA UsedHttpMetric ==
    ASSUME doc \in Document, NEW m \in Used(doc.httpMetrics)
    PROVE  m \in HttpMetricSlots /\ doc.httpMetrics[m] \in HttpMetric
  BY DEF Document, Used

LEMMA UsedMsgRule ==
    ASSUME doc \in Document, NEW s \in Used(doc.msg)
    PROVE  s \in MsgSlots /\ doc.msg[s] \in MsgRule
  BY DEF Document, Used

LEMMA RaiseType ==
    ASSUME doc \in Document, NEW required \in Schemas
    PROVE  Raise(required) \in Schemas
  BY EnsureType DEF Raise, Document

\* What one HTTP rule holds besides its name is set, with the schema.
LEMMA ReviseSound ==
    ASSUME doc \in Document, NEW s \in Used(doc.http), NEW source \in Sources,
           NEW passthrough \in BOOLEAN, NEW emits \in BOOLEAN, NEW schema \in Schemas,
           Revise(s, source, passthrough, emits, schema)
    PROVE  \E d : Edit(d) /\ Sound(d)
  <1> DEFINE rule == [name |-> doc.http[s].name, source |-> source,
                      passthrough |-> passthrough, emits |-> emits]
  <1>1. s \in HttpSlots /\ doc.http[s] \in HttpRule
    BY UsedHttpRule
  <1>2. rule \in HttpRule /\ rule.name = doc.http[s].name
    BY <1>1 DEF HttpRule
  <1>3. Sound([doc EXCEPT !.http = [@ EXCEPT ![s] = rule], !.schema = schema])
    BY <1>2, ReviseHttpRuleSound
  <1>4. [doc EXCEPT !.http[s] = rule, !.schema = schema]
          = [doc EXCEPT !.http = [@ EXCEPT ![s] = rule], !.schema = schema]
    BY DEF Document
  <1> QED BY <1>3, <1>4 DEF Revise

\* Every edit of the parts of one HTTP rule.
LEMMA HttpPartSound ==
    ASSUME doc \in Document, NEW s \in Used(doc.http), NEW source \in Sources,
           NEW passthrough \in BOOLEAN, NEW emits \in BOOLEAN,
           \/ SetConditionSource(s, source) \/ SetFieldSource(s, source) \/ TypeTemplate(s)
           \/ EditFields(s, emits) \/ RemoveField(s, emits)
           \/ EditStaticAttributes(s, emits) \/ EditOutputs(s, emits)
           \/ EditDerivedFields(s, passthrough, emits) \/ SetValuePolicy(s, passthrough)
    PROVE  \E d : Edit(d) /\ Sound(d)
  <1>1. doc.http[s].source \in Sources /\ doc.http[s].passthrough \in BOOLEAN
           /\ doc.http[s].emits \in BOOLEAN /\ doc.schema \in Schemas
    BY UsedHttpRule DEF HttpRule, Document
  <1>2. "plain" \in Sources /\ "path" \in Sources
    BY DEF Sources
  <1>3. Raise(4) \in Schemas /\ Raise(5) \in Schemas /\ Raise(7) \in Schemas
    BY RaiseType DEF Schemas
  <1>4. RaiseFor(source) \in Schemas
    BY <1>1, <1>3 DEF RaiseFor
  <1>5. CASE SetConditionSource(s, source) \/ SetFieldSource(s, source)
    BY <1>1, <1>4, <1>5, ReviseSound DEF SetConditionSource, SetFieldSource
  <1>6. CASE TypeTemplate(s)
    BY <1>1, <1>2, <1>6, ReviseSound DEF TypeTemplate
  <1>7. CASE \/ EditFields(s, emits) \/ EditStaticAttributes(s, emits) \/ EditOutputs(s, emits)
             \/ EditDerivedFields(s, passthrough, emits)
    BY <1>1, <1>7, ReviseSound DEF EditFields, EditStaticAttributes, EditOutputs, EditDerivedFields
  <1>8. CASE RemoveField(s, emits)
    BY <1>1, <1>2, <1>8, ReviseSound DEF RemoveField
  <1>9. CASE SetValuePolicy(s, passthrough)
    BY <1>1, <1>3, <1>9, ReviseSound DEF SetValuePolicy
  <1> QED BY <1>5, <1>6, <1>7, <1>8, <1>9

\* An edit of one metric of an HTTP rule.
LEMMA ReviseHttpMetricSound ==
    ASSUME doc \in Document, NEW m \in HttpMetricSlots, NEW metric \in {Absent} \cup HttpMetric,
           NEW schema \in Schemas,
           \/ metric = Absent
           \/ m \in Used(doc.httpMetrics) /\ metric.rule = doc.httpMetrics[m].rule
           \/ metric.rule \in Declared(doc.http)
    PROVE  Sound([doc EXCEPT !.httpMetrics = [@ EXCEPT ![m] = metric], !.schema = schema])
  <1> DEFINE metrics == [doc.httpMetrics EXCEPT ![m] = metric]
             d == [doc EXCEPT !.httpMetrics = [@ EXCEPT ![m] = metric], !.schema = schema]
  <1>1. d \in Document
    BY DEF Document
  <1>2. d.http = doc.http /\ d.httpMetrics = metrics /\ d.msg = doc.msg
            /\ d.msgMetrics = doc.msgMetrics
    BY DEF Document
  <1>3. DOMAIN metrics = DOMAIN doc.httpMetrics
           /\ \A x \in Used(metrics) :
                \/ x \in Used(doc.httpMetrics) /\ metrics[x].rule = doc.httpMetrics[x].rule
                \/ metrics[x].rule \in Declared(doc.http)
    BY DEF Document, Used
  <1>4. AllLinked(doc) => Linked(doc.http, metrics)
    BY <1>3, OtherMetricsKeepLinks DEF AllLinked
  <1> QED BY <1>1, <1>2, <1>4 DEF Sound, AllLinked

LEMMA AddHttpMetricSound ==
    ASSUME doc \in Document, NEW s \in Used(doc.http), AddHttpMetric(s)
    PROVE  \E d : Edit(d) /\ Sound(d)
  <1> DEFINE metric == [rule |-> doc.http[s].name, standard |-> FALSE]
  <1>1. PICK m \in HttpMetricSlots : Edit([doc EXCEPT !.httpMetrics[m] = metric])
    BY DEF AddHttpMetric
  <1>2. metric \in HttpMetric /\ metric.rule \in Declared(doc.http)
    BY UsedHttpRule DEF HttpMetric, HttpRule, Declared
  <1>3. Sound([doc EXCEPT !.httpMetrics = [@ EXCEPT ![m] = metric], !.schema = doc.schema])
    BY <1>2, ReviseHttpMetricSound DEF Document
  <1>4. [doc EXCEPT !.httpMetrics[m] = metric]
          = [doc EXCEPT !.httpMetrics = [@ EXCEPT ![m] = metric], !.schema = doc.schema]
    BY DEF Document
  <1> QED BY <1>1, <1>3, <1>4

LEMMA RemoveHttpMetricSound ==
    ASSUME doc \in Document, NEW m \in Used(doc.httpMetrics), RemoveHttpMetric(m)
    PROVE  \E d : Edit(d) /\ Sound(d)
  <1>1. m \in HttpMetricSlots /\ doc.schema \in Schemas
    BY UsedHttpMetric DEF Document
  <1>2. Sound([doc EXCEPT !.httpMetrics = [@ EXCEPT ![m] = Absent], !.schema = doc.schema])
    BY <1>1, ReviseHttpMetricSound
  <1>3. [doc EXCEPT !.httpMetrics[m] = Absent]
          = [doc EXCEPT !.httpMetrics = [@ EXCEPT ![m] = Absent], !.schema = doc.schema]
    BY DEF Document
  <1> QED BY <1>2, <1>3 DEF RemoveHttpMetric

LEMMA ToggleStandardAttributeSound ==
    ASSUME doc \in Document, NEW m \in Used(doc.httpMetrics), ToggleStandardAttribute(m)
    PROVE  \E d : Edit(d) /\ Sound(d)
  <1> DEFINE metric == [doc.httpMetrics[m] EXCEPT !.standard = ~doc.httpMetrics[m].standard]
             schema == IF doc.httpMetrics[m].standard THEN doc.schema ELSE Raise(6)
  <1>1. m \in HttpMetricSlots /\ doc.httpMetrics[m] \in HttpMetric
    BY UsedHttpMetric
  <1>2. metric \in HttpMetric /\ metric.rule = doc.httpMetrics[m].rule
    BY <1>1 DEF HttpMetric
  <1>3. schema \in Schemas
    BY RaiseType DEF Schemas, Document
  <1>4. Sound([doc EXCEPT !.httpMetrics = [@ EXCEPT ![m] = metric], !.schema = schema])
    BY <1>1, <1>2, <1>3, ReviseHttpMetricSound
  <1>5. [doc EXCEPT !.httpMetrics[m].standard = ~doc.httpMetrics[m].standard, !.schema = schema]
          = [doc EXCEPT !.httpMetrics = [@ EXCEPT ![m] = metric], !.schema = schema]
    BY <1>1 DEF Document
  <1> QED BY <1>4, <1>5 DEF ToggleStandardAttribute

LEMMA EditHttpMetricSound ==
    ASSUME doc \in Document, NEW m, EditHttpMetric(m) PROVE \E d : Edit(d) /\ Sound(d)
  BY DEF Sound, EditHttpMetric

\* Methods and metrics over all exchanges take no part in the links.
LEMMA MethodEditSound ==
    ASSUME doc \in Document, MethodEdit PROVE \E d : Edit(d) /\ Sound(d)
  <1>1. ASSUME NEW w \in MethodSlots, NEW values \in {Absent} \cup Values, NEW schema \in Schemas
        PROVE  Sound([doc EXCEPT !.methods = [@ EXCEPT ![w] = values], !.schema = schema])
    BY DEF Document, Sound, AllLinked
  <1>2. ASSUME NEW g \in GlobalSlots, NEW values \in {Absent} \cup Values, NEW schema \in Schemas
        PROVE  Sound([doc EXCEPT !.globals = [@ EXCEPT ![g] = values], !.schema = schema])
    BY DEF Document, Sound, AllLinked
  <1>3. "controlled" \in Values /\ doc.schema \in Schemas
           /\ Raise(3) \in Schemas /\ Raise(7) \in Schemas
    BY RaiseType DEF Values, Document, Schemas
  <1>4. Used(doc.methods) \subseteq MethodSlots /\ Used(doc.globals) \subseteq GlobalSlots
    BY DEF Used, Document
  <1>5. \A w, values : [doc EXCEPT !.methods[w] = values]
            = [doc EXCEPT !.methods = [@ EXCEPT ![w] = values], !.schema = doc.schema]
    BY DEF Document
  <1>6. \A g, values : [doc EXCEPT !.globals[g] = values]
            = [doc EXCEPT !.globals = [@ EXCEPT ![g] = values], !.schema = doc.schema]
    BY DEF Document
  <1>7. \A w, values, schema : [doc EXCEPT !.methods[w] = values, !.schema = schema]
            = [doc EXCEPT !.methods = [@ EXCEPT ![w] = values], !.schema = schema]
    BY DEF Document
  <1>8. \A g, values, schema : [doc EXCEPT !.globals[g] = values, !.schema = schema]
            = [doc EXCEPT !.globals = [@ EXCEPT ![g] = values], !.schema = schema]
    BY DEF Document
  <1>9. CASE AddMethod
    <2>1. PICK w \in MethodSlots : Edit([doc EXCEPT !.methods[w] = "controlled"])
      BY <1>9 DEF AddMethod
    <2>2. Sound([doc EXCEPT !.methods = [@ EXCEPT ![w] = "controlled"], !.schema = doc.schema])
      BY <1>1, <1>3
    <2> QED BY <1>5, <2>1, <2>2
  <1>10. CASE AddGlobalMetric
    BY <1>2, <1>3, <1>8, <1>10 DEF AddGlobalMetric
  <1>11. ASSUME NEW w \in Used(doc.methods), RemoveMethod(w) \/ EditInstruments(w)
         PROVE  \E d : Edit(d) /\ Sound(d)
    <2>1. Sound([doc EXCEPT !.methods = [@ EXCEPT ![w] = Absent], !.schema = doc.schema])
      BY <1>1, <1>3, <1>4
    <2>2. Sound(doc)
      BY DEF Sound
    <2> QED BY <1>5, <1>11, <2>1, <2>2 DEF RemoveMethod, EditInstruments
  <1>12. ASSUME NEW w \in Used(doc.methods), NEW values \in Values, EditCapture(w, values)
         PROVE  \E d : Edit(d) /\ Sound(d)
    BY <1>1, <1>3, <1>4, <1>7, <1>12 DEF EditCapture
  <1>13. ASSUME NEW g \in Used(doc.globals), RemoveGlobalMetric(g) \/ EditGlobalMetric(g)
         PROVE  \E d : Edit(d) /\ Sound(d)
    <2>1. Sound([doc EXCEPT !.globals = [@ EXCEPT ![g] = Absent], !.schema = doc.schema])
      BY <1>2, <1>3, <1>4
    <2>2. Sound(doc)
      BY DEF Sound
    <2> QED BY <1>6, <1>13, <2>1, <2>2 DEF RemoveGlobalMetric, EditGlobalMetric
  <1>14. ASSUME NEW g \in Used(doc.globals), NEW values \in Values, EditLabel(g, values)
         PROVE  \E d : Edit(d) /\ Sound(d)
    BY <1>2, <1>3, <1>4, <1>8, <1>14 DEF EditLabel
  <1> QED BY <1>9, <1>10, <1>11, <1>12, <1>13, <1>14 DEF MethodEdit

\* The same for messaging rules and their metrics.
LEMMA ReviseMsgRuleSound ==
    ASSUME doc \in Document, NEW s \in MsgSlots, NEW rule \in MsgRule, NEW schema \in Schemas,
           s \in Used(doc.msg) => rule.name = doc.msg[s].name
    PROVE  Sound([doc EXCEPT !.msg = [@ EXCEPT ![s] = rule], !.schema = schema])
  <1> DEFINE msg == [doc.msg EXCEPT ![s] = rule]
             d == [doc EXCEPT !.msg = [@ EXCEPT ![s] = rule], !.schema = schema]
  <1>1. d \in Document
    BY DEF Document
  <1>2. d.msg = msg /\ d.msgMetrics = doc.msgMetrics /\ d.http = doc.http
            /\ d.httpMetrics = doc.httpMetrics
    BY DEF Document
  <1>3. rule # Absent
    BY NameAssumption
  <1>4. DOMAIN msg = DOMAIN doc.msg
           /\ \A t \in Used(doc.msg) : msg[t] # Absent /\ msg[t].name = doc.msg[t].name
    BY <1>3 DEF Document, Used
  <1>5. AllLinked(doc) => Linked(msg, doc.msgMetrics)
    BY <1>4, OtherRulesKeepLinks DEF AllLinked
  <1> QED BY <1>1, <1>2, <1>5 DEF Sound, AllLinked

LEMMA ReviseMsgMetricSound ==
    ASSUME doc \in Document, NEW m \in MsgMetricSlots, NEW metric \in {Absent} \cup MsgMetric,
           NEW schema \in Schemas,
           metric = Absent \/ metric.rule \in Declared(doc.msg)
    PROVE  Sound([doc EXCEPT !.msgMetrics = [@ EXCEPT ![m] = metric], !.schema = schema])
  <1> DEFINE metrics == [doc.msgMetrics EXCEPT ![m] = metric]
             d == [doc EXCEPT !.msgMetrics = [@ EXCEPT ![m] = metric], !.schema = schema]
  <1>1. d \in Document
    BY DEF Document
  <1>2. d.msg = doc.msg /\ d.msgMetrics = metrics /\ d.http = doc.http
            /\ d.httpMetrics = doc.httpMetrics
    BY DEF Document
  <1>3. DOMAIN metrics = DOMAIN doc.msgMetrics
           /\ \A x \in Used(metrics) :
                \/ x \in Used(doc.msgMetrics) /\ metrics[x].rule = doc.msgMetrics[x].rule
                \/ metrics[x].rule \in Declared(doc.msg)
    BY DEF Document, Used
  <1>4. AllLinked(doc) => Linked(doc.msg, metrics)
    BY <1>3, OtherMetricsKeepLinks DEF AllLinked
  <1> QED BY <1>1, <1>2, <1>4 DEF Sound, AllLinked

LEMMA AddMsgRuleSound ==
    ASSUME doc \in Document, AddMsgRule PROVE \E d : Edit(d) /\ Sound(d)
  <1>1. PICK s \in MsgSlots \ Used(doc.msg), n \in Names :
            Edit([doc EXCEPT !.schema = 5,
                             !.msg[s] = [name |-> n, passthrough |-> FALSE, emits |-> FALSE]])
    BY DEF AddMsgRule
  <1> DEFINE rule == [name |-> n, passthrough |-> FALSE, emits |-> FALSE]
  <1>2. rule \in MsgRule /\ 5 \in Schemas
    BY DEF MsgRule, Schemas
  <1>3. Sound([doc EXCEPT !.msg = [@ EXCEPT ![s] = rule], !.schema = 5])
    BY <1>2, ReviseMsgRuleSound
  <1>4. [doc EXCEPT !.schema = 5, !.msg[s] = rule]
          = [doc EXCEPT !.msg = [@ EXCEPT ![s] = rule], !.schema = 5]
    BY DEF Document
  <1> QED BY <1>1, <1>3, <1>4

LEMMA ReviseMsgSound ==
    ASSUME doc \in Document, NEW s \in Used(doc.msg), NEW passthrough \in BOOLEAN,
           NEW emits \in BOOLEAN, NEW schema \in Schemas, ReviseMsg(s, passthrough, emits, schema)
    PROVE  \E d : Edit(d) /\ Sound(d)
  <1> DEFINE rule == [name |-> doc.msg[s].name, passthrough |-> passthrough, emits |-> emits]
  <1>1. s \in MsgSlots /\ doc.msg[s] \in MsgRule
    BY UsedMsgRule
  <1>2. rule \in MsgRule /\ rule.name = doc.msg[s].name
    BY <1>1 DEF MsgRule
  <1>3. Sound([doc EXCEPT !.msg = [@ EXCEPT ![s] = rule], !.schema = schema])
    BY <1>1, <1>2, ReviseMsgRuleSound
  <1>4. [doc EXCEPT !.msg[s] = rule, !.schema = schema]
          = [doc EXCEPT !.msg = [@ EXCEPT ![s] = rule], !.schema = schema]
    BY DEF Document
  <1> QED BY <1>3, <1>4 DEF ReviseMsg

\* Every edit of the parts of one messaging rule.
LEMMA MsgPartSound ==
    ASSUME doc \in Document, NEW s \in Used(doc.msg), NEW passthrough \in BOOLEAN,
           NEW emits \in BOOLEAN,
           \/ EditMsgConditions(s) \/ EditMsgScope(s, passthrough, emits)
           \/ EditMsgFields(s, passthrough, emits) \/ EditMsgOutputs(s, emits)
           \/ SetMsgValuePolicy(s, passthrough)
    PROVE  \E d : Edit(d) /\ Sound(d)
  <1>1. doc.msg[s].passthrough \in BOOLEAN /\ doc.msg[s].emits \in BOOLEAN
    BY UsedMsgRule DEF MsgRule
  <1>2. 5 \in Schemas /\ EnsurePolicySchema(5, 7) \in Schemas
    BY EnsureType DEF Schemas
  <1>3. CASE EditMsgConditions(s) \/ EditMsgScope(s, passthrough, emits)
             \/ EditMsgFields(s, passthrough, emits) \/ EditMsgOutputs(s, emits)
    BY <1>1, <1>2, <1>3, ReviseMsgSound
       DEF EditMsgConditions, EditMsgScope, EditMsgFields, EditMsgOutputs
  <1>4. CASE SetMsgValuePolicy(s, passthrough)
    BY <1>1, <1>2, <1>4, ReviseMsgSound DEF SetMsgValuePolicy
  <1> QED BY <1>3, <1>4

LEMMA AddMsgMetricSound ==
    ASSUME doc \in Document, NEW s \in Used(doc.msg), AddMsgMetric(s)
    PROVE  \E d : Edit(d) /\ Sound(d)
  <1> DEFINE metric == [rule |-> doc.msg[s].name]
  <1>1. PICK m \in MsgMetricSlots : Edit([doc EXCEPT !.schema = 5, !.msgMetrics[m] = metric])
    BY DEF AddMsgMetric
  <1>2. metric \in MsgMetric /\ metric.rule \in Declared(doc.msg) /\ 5 \in Schemas
    BY UsedMsgRule DEF MsgMetric, MsgRule, Declared, Schemas
  <1>3. Sound([doc EXCEPT !.msgMetrics = [@ EXCEPT ![m] = metric], !.schema = 5])
    BY <1>2, ReviseMsgMetricSound
  <1>4. [doc EXCEPT !.schema = 5, !.msgMetrics[m] = metric]
          = [doc EXCEPT !.msgMetrics = [@ EXCEPT ![m] = metric], !.schema = 5]
    BY DEF Document
  <1> QED BY <1>1, <1>3, <1>4

LEMMA EditMsgMetricSound ==
    ASSUME doc \in Document, NEW m, EditMsgMetric(m) PROVE \E d : Edit(d) /\ Sound(d)
  <1> DEFINE d == [doc EXCEPT !.schema = 5]
  <1>1. d \in Document /\ d.http = doc.http /\ d.httpMetrics = doc.httpMetrics
           /\ d.msg = doc.msg /\ d.msgMetrics = doc.msgMetrics
    BY DEF Document, Schemas
  <1> QED BY <1>1 DEF Sound, AllLinked, EditMsgMetric

LEMMA RemoveMsgMetricSound ==
    ASSUME doc \in Document, NEW m \in Used(doc.msgMetrics), RemoveMsgMetric(m)
    PROVE  \E d : Edit(d) /\ Sound(d)
  <1>1. m \in MsgMetricSlots /\ doc.schema \in Schemas
    BY DEF Document, Used
  <1>2. Sound([doc EXCEPT !.msgMetrics = [@ EXCEPT ![m] = Absent], !.schema = doc.schema])
    BY <1>1, ReviseMsgMetricSound
  <1>3. [doc EXCEPT !.msgMetrics[m] = Absent]
          = [doc EXCEPT !.msgMetrics = [@ EXCEPT ![m] = Absent], !.schema = doc.schema]
    BY DEF Document
  <1> QED BY <1>2, <1>3 DEF RemoveMsgMetric

LEMMA RemoveMsgRuleSound ==
    ASSUME doc \in Document, NEW s \in Used(doc.msg), RemoveMsgRule(s)
    PROVE  \E d : Edit(d) /\ Sound(d)
  <1> DEFINE msg == [doc.msg EXCEPT ![s] = Absent]
             metrics == MetricsAfterRemoval(doc.msg, doc.msgMetrics, s)
             d == [doc EXCEPT !.msg[s] = Absent, !.msgMetrics = metrics]
  <1>1. metrics \in [MsgMetricSlots -> {Absent} \cup MsgMetric]
    BY RemovalType DEF Document
  <1>2. d \in Document
    BY <1>1 DEF Document
  <1>3. d.msg = msg /\ d.msgMetrics = metrics /\ d.http = doc.http
            /\ d.httpMetrics = doc.httpMetrics
    BY DEF Document
  <1>4. AllLinked(doc) => AllLinked(d)
    BY <1>3, RemovalKeepsLinks DEF AllLinked, Used
  <1> QED BY <1>2, <1>4 DEF Sound, RemoveMsgRule

LEMMA RenameMsgRuleSound ==
    ASSUME doc \in Document, NEW s \in Used(doc.msg), NEW n \in Names, RenameMsgRule(s, n)
    PROVE  \E d : Edit(d) /\ Sound(d)
  <1> DEFINE msg == [doc.msg EXCEPT ![s].name = n]
             metrics == MetricsAfterRename(doc.msg, doc.msgMetrics, s, n)
             d == [doc EXCEPT !.msg[s].name = n, !.msgMetrics = metrics]
  <1>1. \A metric \in MsgMetric : WithRule(metric, n) \in MsgMetric /\ WithRule(metric, n).rule = n
    BY DEF WithRule, MsgMetric
  <1>2. metrics \in [MsgMetricSlots -> {Absent} \cup MsgMetric]
    BY <1>1, RenameType DEF Document
  <1>3. doc.msg \in [MsgSlots -> {Absent} \cup MsgRule] /\ doc.msg[s] \in MsgRule /\ s \in MsgSlots
    BY DEF Document, Used
  <1>4. [doc.msg[s] EXCEPT !.name = n] \in MsgRule /\ [doc.msg[s] EXCEPT !.name = n].name = n
    BY <1>3 DEF MsgRule
  <1>5. msg \in [MsgSlots -> {Absent} \cup MsgRule] /\ msg[s] # Absent /\ msg[s].name = n
           /\ \A t \in MsgSlots \ {s} : msg[t] = doc.msg[t]
    BY <1>3, <1>4, NameAssumption
  <1>6. d \in Document
    BY <1>2, <1>5 DEF Document
  <1>7. d.msg = msg /\ d.msgMetrics = metrics /\ d.http = doc.http
            /\ d.httpMetrics = doc.httpMetrics
    BY DEF Document
  <1>8. \A m \in Used(doc.msgMetrics) : WithRule(doc.msgMetrics[m], n).rule = n
    BY <1>1 DEF Used, Document
  <1>9. AllLinked(doc) => Linked(msg, metrics)
    BY <1>3, <1>5, <1>8, RenameKeepsLinks DEF AllLinked, Used
  <1> QED BY <1>6, <1>7, <1>9 DEF Sound, RenameMsgRule, AllLinked

-----------------------------------------------------------------------------
\* Every edit of the form.
LEMMA FormEditSound ==
    ASSUME doc \in Document, HttpEdit \/ MethodEdit \/ MsgEdit PROVE \E d : Edit(d) /\ Sound(d)
  <1>1. CASE HttpEdit
    <2>1. CASE AddHttpRule
      BY <2>1, AddHttpRuleSound
    <2>2. ASSUME NEW s \in Used(doc.http),
                 \/ RemoveHttpRule(s)
                 \/ \E n \in Names : RenameHttpRule(s, n)
                 \/ AddHttpMetric(s)
          PROVE  \E d : Edit(d) /\ Sound(d)
      BY <2>2, RemoveHttpRuleSound, RenameHttpRuleSound, AddHttpMetricSound
    <2>3. ASSUME NEW s \in Used(doc.http), NEW source \in Sources,
                 NEW passthrough \in BOOLEAN, NEW emits \in BOOLEAN,
                 \/ SetConditionSource(s, source) \/ SetFieldSource(s, source) \/ TypeTemplate(s)
                 \/ EditFields(s, emits) \/ RemoveField(s, emits)
                 \/ EditStaticAttributes(s, emits) \/ EditOutputs(s, emits)
                 \/ EditDerivedFields(s, passthrough, emits) \/ SetValuePolicy(s, passthrough)
          PROVE  \E d : Edit(d) /\ Sound(d)
      BY <2>3, HttpPartSound
    <2>4. ASSUME NEW m \in Used(doc.httpMetrics),
                 EditHttpMetric(m) \/ RemoveHttpMetric(m) \/ ToggleStandardAttribute(m)
          PROVE  \E d : Edit(d) /\ Sound(d)
      BY <2>4, EditHttpMetricSound, RemoveHttpMetricSound, ToggleStandardAttributeSound
    <2>5. "plain" \in Sources
      BY DEF Sources
    <2> QED BY <1>1, <2>1, <2>2, <2>3, <2>4, <2>5 DEF HttpEdit
  <1>2. CASE MsgEdit
    <2>1. CASE AddMsgRule
      BY <2>1, AddMsgRuleSound
    <2>2. ASSUME NEW s \in Used(doc.msg),
                 \/ EditMsgConditions(s)
                 \/ \E passthrough, emits \in BOOLEAN :
                        EditMsgScope(s, passthrough, emits) \/ EditMsgFields(s, passthrough, emits)
                 \/ \E emits \in BOOLEAN : EditMsgOutputs(s, emits)
                 \/ \E passthrough \in BOOLEAN : SetMsgValuePolicy(s, passthrough)
                 \/ AddMsgMetric(s)
                 \/ RemoveMsgRule(s)
                 \/ \E n \in Names : RenameMsgRule(s, n)
          PROVE  \E d : Edit(d) /\ Sound(d)
      BY <2>2, MsgPartSound, AddMsgMetricSound, RemoveMsgRuleSound, RenameMsgRuleSound
    <2>3. ASSUME NEW m \in Used(doc.msgMetrics), EditMsgMetric(m) \/ RemoveMsgMetric(m)
          PROVE  \E d : Edit(d) /\ Sound(d)
      BY <2>3, EditMsgMetricSound, RemoveMsgMetricSound
    <2> QED BY <1>2, <2>1, <2>2, <2>3 DEF MsgEdit, MsgRewrite
  <1> QED BY <1>1, <1>2, MethodEditSound

LEMMA EmptyPolicySound == EmptyPolicy \in Document /\ AllLinked(EmptyPolicy)
  <1>1. EmptyPolicy \in Document
    BY DEF EmptyPolicy, Document, Schemas
  <1>2. AllLinked(EmptyPolicy)
    BY DEF EmptyPolicy, AllLinked, Linked, Used
  <1> QED BY <1>1, <1>2

\* The inductive invariant.
FormInv == TypeOK /\ FormKeepsLinks

LEMMA InitForm == Init => FormInv
  BY EmptyPolicySound DEF Init, FormInv, TypeOK, FormKeepsLinks, Outcomes

LEMMA NextForm == FormInv /\ [Next]_vars => FormInv'
  <1> SUFFICES ASSUME FormInv, [Next]_vars PROVE FormInv'
    OBVIOUS
  <1> USE DEF FormInv, TypeOK, FormKeepsLinks
  <1>1. CASE mode = "form" /\ (HttpEdit \/ MethodEdit \/ MsgEdit)
    <2>1. PICK d : Edit(d) /\ Sound(d)
      BY <1>1, FormEditSound
    <2> QED BY <1>1, <2>1 DEF Edit, Sound, Outcomes
  <1>2. CASE TypeRaw
    BY <1>2, DocumentAssumption DEF TypeRaw, Outcomes
  <1>3. CASE SwitchEditorMode
    BY <1>3 DEF SwitchEditorMode
  <1>4. CASE LoadVersion
    BY <1>4, DocumentAssumption DEF LoadVersion, Outcomes
  <1>5. CASE StartBlank
    BY <1>5, EmptyPolicySound DEF StartBlank, Outcomes
  <1>6. CASE Publish
    BY <1>6, VerdictType DEF Publish
  <1>7. CASE UNCHANGED vars
    BY <1>7 DEF vars
  <1> QED BY <1>1, <1>2, <1>3, <1>4, <1>5, <1>6, <1>7 DEF Next

\* The console's own checks and the links the form keeps imply the server's rule checks.
LEMMA ReadyAccepted ==
    ASSUME NEW d, ConfigurationReady(d), AllLinked(d) PROVE Verdict(d) # "rules"
  BY DEF ConfigurationReady, Verdict, RulesAccepted

LEMMA NextAccepted == FormInv /\ FormRulesAccepted /\ [Next]_vars => FormRulesAccepted'
  <1> SUFFICES ASSUME FormInv, FormRulesAccepted, [Next]_vars PROVE FormRulesAccepted'
    OBVIOUS
  <1>1. CASE mode = "form" /\ (HttpEdit \/ MethodEdit \/ MsgEdit)
    <2>1. PICK d : Edit(d)
      BY <1>1, FormEditSound DEF FormInv, TypeOK
    <2> QED BY <2>1 DEF Edit, FormRulesAccepted
  <1>2. CASE TypeRaw \/ LoadVersion \/ StartBlank
    BY <1>2 DEF TypeRaw, LoadVersion, StartBlank, FormRulesAccepted
  <1>3. CASE SwitchEditorMode
    BY <1>3 DEF SwitchEditorMode, FormRulesAccepted
  <1>4. CASE Publish
    BY <1>4, ReadyAccepted DEF Publish, FormInv, FormKeepsLinks, FormRulesAccepted
  <1>5. CASE UNCHANGED vars
    BY <1>5 DEF vars, FormRulesAccepted
  <1> QED BY <1>1, <1>2, <1>3, <1>4, <1>5 DEF Next

\* A document that the console lets through and nobody typed is never refused for its
\* rules: neither for a metric without a rule, nor for a shared name, nor for a rule
\* without output.
THEOREM FormAccepted == Spec => []FormRulesAccepted
  <1>1. Init => FormRulesAccepted
    BY DEF Init, FormRulesAccepted
  <1>2. Spec => []FormInv
    BY InitForm, NextForm, PTL DEF Spec
  <1> QED BY <1>1, <1>2, NextAccepted, PTL DEF Spec

\* The editor's document, mode and verdict keep their types, and the form is only
\* ever open on a document.
THEOREM FormTypeCorrect == Spec => []TypeOK
  <1>1. Spec => []FormInv
    BY InitForm, NextForm, PTL DEF Spec
  <1> QED BY <1>1, PTL DEF FormInv

\* No sequence of form edits, whatever rules shared a name on the way, leaves a metric
\* without its rule.
THEOREM FormLinked == Spec => []FormKeepsLinks
  <1>1. Spec => []FormInv
    BY InitForm, NextForm, PTL DEF Spec
  <1> QED BY <1>1, PTL DEF FormInv

-----------------------------------------------------------------------------
(* The declared schema.  Covers judges the document; the lemmas judge its    *)
(* parts, each against the declared version, which is what an edit changes.  *)

RuleFits(rule, schema) ==
    /\ schema >= 3
    /\ rule.source = "header" => schema >= 4
    /\ rule.source = "path" => schema >= 5
    /\ rule.passthrough => schema = 7

MetricFits(metric, schema) == schema >= 3 /\ (metric.standard => schema >= 6)
MethodFits(values, schema) == values = "uncontrolled" => schema = 7
GlobalFits(values, schema) == schema >= 3 /\ MethodFits(values, schema)
MsgRuleFits(rule, schema)  == schema >= 5 /\ (rule.passthrough => schema = 7)

PartsFit(d) ==
    /\ \A s \in Used(d.http) : RuleFits(d.http[s], d.schema)
    /\ \A m \in Used(d.httpMetrics) : MetricFits(d.httpMetrics[m], d.schema)
    /\ \A w \in Used(d.methods) : MethodFits(d.methods[w], d.schema)
    /\ \A g \in Used(d.globals) : GlobalFits(d.globals[g], d.schema)
    /\ \A s \in Used(d.msg) : MsgRuleFits(d.msg[s], d.schema)
    /\ \A m \in Used(d.msgMetrics) : d.schema >= 5

LEMMA CoversByParts ==
    ASSUME NEW d, d.schema \in Schemas PROVE Covers(d) <=> PartsFit(d)
  <1> USE DEF RuleFits, MetricFits, MethodFits, GlobalFits, MsgRuleFits
  <1>1. ASSUME Covers(d) PROVE PartsFit(d)
    <2>1. \A s \in Used(d.http) : RuleFits(d.http[s], d.schema)
      BY <1>1 DEF Covers, UsesExtended, UsesPathParameters, UsesPassthrough
    <2>2. \A m \in Used(d.httpMetrics) : MetricFits(d.httpMetrics[m], d.schema)
      BY <1>1 DEF Covers, UsesStandard
    <2>3. /\ \A w \in Used(d.methods) : MethodFits(d.methods[w], d.schema)
          /\ \A g \in Used(d.globals) : GlobalFits(d.globals[g], d.schema)
      BY <1>1 DEF Covers, UsesPassthrough
    <2>4. /\ \A s \in Used(d.msg) : MsgRuleFits(d.msg[s], d.schema)
          /\ \A m \in Used(d.msgMetrics) : d.schema >= 5
      BY <1>1 DEF Covers, UsesPassthrough, UsesMessaging
    <2> QED BY <2>1, <2>2, <2>3, <2>4 DEF PartsFit
  <1>2. ASSUME PartsFit(d) PROVE Covers(d)
    <2>1. Used(d.globals) # {} \/ Used(d.http) # {} \/ Used(d.httpMetrics) # {} => d.schema >= 3
      BY <1>2 DEF PartsFit
    <2>2. UsesExtended(d) => d.schema >= 4
      BY <1>2 DEF PartsFit, UsesExtended
    <2>3. UsesPathParameters(d) => d.schema >= 5
      BY <1>2 DEF PartsFit, UsesPathParameters
    <2>4. UsesMessaging(d) => d.schema >= 5
      BY <1>2 DEF PartsFit, UsesMessaging
    <2>5. UsesStandard(d) => d.schema >= 6
      BY <1>2 DEF PartsFit, UsesStandard
    <2>6. UsesPassthrough(d) => d.schema = 7
      BY <1>2 DEF PartsFit, UsesPassthrough
    <2> QED BY <2>1, <2>2, <2>3, <2>4, <2>5, <2>6 DEF Covers
  <1> QED BY <1>1, <1>2

\* A document whose parts were there before, or fit, under a version that was not lowered.
LEMMA KeptCovers ==
    ASSUME doc.schema \in Schemas, Covers(doc), NEW d, d.schema \in Schemas, d.schema >= doc.schema,
           \A s \in Used(d.http) :
              \/ RuleFits(d.http[s], d.schema)
              \/ /\ s \in Used(doc.http) /\ d.http[s].source = doc.http[s].source
                 /\ d.http[s].passthrough = doc.http[s].passthrough,
           \A m \in Used(d.httpMetrics) :
              \/ MetricFits(d.httpMetrics[m], d.schema)
              \/ /\ m \in Used(doc.httpMetrics)
                 /\ d.httpMetrics[m].standard = doc.httpMetrics[m].standard,
           \A w \in Used(d.methods) :
              \/ MethodFits(d.methods[w], d.schema)
              \/ w \in Used(doc.methods) /\ d.methods[w] = doc.methods[w],
           \A g \in Used(d.globals) :
              \/ GlobalFits(d.globals[g], d.schema)
              \/ g \in Used(doc.globals) /\ d.globals[g] = doc.globals[g],
           \A s \in Used(d.msg) :
              s \in Used(doc.msg) /\ d.msg[s].passthrough = doc.msg[s].passthrough,
           Used(d.msgMetrics) \subseteq Used(doc.msgMetrics)
    PROVE  Covers(d)
  <1> USE DEF RuleFits, MetricFits, MethodFits, GlobalFits, MsgRuleFits, Schemas
  <1>1. PartsFit(doc)
    BY CoversByParts
  <1>2. \A s \in Used(d.http) : RuleFits(d.http[s], d.schema)
    BY <1>1 DEF PartsFit
  <1>3. \A m \in Used(d.httpMetrics) : MetricFits(d.httpMetrics[m], d.schema)
    BY <1>1 DEF PartsFit
  <1>4. \A w \in Used(d.methods) : MethodFits(d.methods[w], d.schema)
    BY <1>1 DEF PartsFit
  <1>5. \A g \in Used(d.globals) : GlobalFits(d.globals[g], d.schema)
    BY <1>1 DEF PartsFit
  <1>6. \A s \in Used(d.msg) : MsgRuleFits(d.msg[s], d.schema)
    BY <1>1 DEF PartsFit
  <1>7. \A m \in Used(d.msgMetrics) : d.schema >= 5
    BY <1>1 DEF PartsFit
  <1>8. PartsFit(d)
    BY <1>2, <1>3, <1>4, <1>5, <1>6, <1>7 DEF PartsFit
  <1> QED BY <1>8, CoversByParts

LEMMA Raised ==
    ASSUME doc \in Document, NEW required \in Schemas
    PROVE  Raise(required) \in Schemas /\ Raise(required) >= doc.schema /\ Raise(required) >= required
  BY DEF Raise, EnsurePolicySchema, Document, Schemas

\* An edit of HTTP rules and their metrics.
LEMMA HttpCovers ==
    ASSUME doc \in Document, Covers(doc),
           NEW http, NEW metrics, NEW schema \in Schemas, schema >= doc.schema,
           \A s \in Used(http) :
              \/ RuleFits(http[s], schema)
              \/ /\ s \in Used(doc.http) /\ http[s].source = doc.http[s].source
                 /\ http[s].passthrough = doc.http[s].passthrough,
           \A m \in Used(metrics) :
              \/ MetricFits(metrics[m], schema)
              \/ m \in Used(doc.httpMetrics) /\ metrics[m].standard = doc.httpMetrics[m].standard
    PROVE  Covers([doc EXCEPT !.http = http, !.httpMetrics = metrics, !.schema = schema])
  <1> DEFINE d == [doc EXCEPT !.http = http, !.httpMetrics = metrics, !.schema = schema]
  <1>1. /\ d.http = http /\ d.httpMetrics = metrics /\ d.schema = schema
        /\ d.methods = doc.methods /\ d.globals = doc.globals
        /\ d.msg = doc.msg /\ d.msgMetrics = doc.msgMetrics /\ doc.schema \in Schemas
    BY DEF Document
  <1> HIDE DEF d
  <1>2. Covers(d)
    BY <1>1, KeptCovers
  <1> QED BY <1>2 DEF d

\* One rule is filled in, changed or removed.
LEMMA HttpRuleCovers ==
    ASSUME doc \in Document, Covers(doc), NEW s \in HttpSlots, NEW rule, NEW schema \in Schemas,
           schema >= doc.schema,
           \/ rule = Absent \/ RuleFits(rule, schema)
           \/ /\ s \in Used(doc.http) /\ rule.source = doc.http[s].source
              /\ rule.passthrough = doc.http[s].passthrough
    PROVE  Covers([doc EXCEPT !.http[s] = rule, !.schema = schema])
  <1> DEFINE http == [doc.http EXCEPT ![s] = rule]
  <1>1. \A t \in Used(http) :
            \/ RuleFits(http[t], schema)
            \/ /\ t \in Used(doc.http) /\ http[t].source = doc.http[t].source
               /\ http[t].passthrough = doc.http[t].passthrough
    BY DEF Used, Document
  <1> HIDE DEF http
  <1>2. Covers([doc EXCEPT !.http = http, !.httpMetrics = doc.httpMetrics, !.schema = schema])
    BY <1>1, HttpCovers
  <1>3. [doc EXCEPT !.http[s] = rule, !.schema = schema]
          = [doc EXCEPT !.http = http, !.httpMetrics = doc.httpMetrics, !.schema = schema]
    BY DEF Document, http
  <1> QED BY <1>2, <1>3

LEMMA ReviseCovers ==
    ASSUME doc \in Document, Covers(doc), NEW s \in Used(doc.http), NEW source, NEW passthrough,
           NEW emits, NEW schema \in Schemas, schema >= doc.schema,
           source = "header" => schema >= 4 \/ doc.http[s].source = "header",
           source = "path" => schema >= 5 \/ doc.http[s].source = "path",
           passthrough => schema = 7 \/ doc.http[s].passthrough,
           Revise(s, source, passthrough, emits, schema)
    PROVE  Covers(doc')
  <1> DEFINE rule == [name |-> doc.http[s].name, source |-> source,
                      passthrough |-> passthrough, emits |-> emits]
  <1>1. s \in HttpSlots /\ doc.schema \in Schemas
    BY UsedHttpRule DEF Document
  <1>2. RuleFits(doc.http[s], doc.schema)
    BY <1>1, CoversByParts DEF PartsFit
  <1>3. RuleFits(rule, schema)
    BY <1>1, <1>2 DEF RuleFits, Schemas
  <1> HIDE DEF rule
  <1>4. Covers([doc EXCEPT !.http[s] = rule, !.schema = schema])
    BY <1>1, <1>3, HttpRuleCovers
  <1> QED BY <1>4 DEF Revise, Edit, rule

LEMMA HttpPartCovers ==
    ASSUME doc \in Document, Covers(doc), NEW s \in Used(doc.http), NEW source \in Sources,
           NEW passthrough \in BOOLEAN, NEW emits \in BOOLEAN,
           \/ SetConditionSource(s, source) \/ SetFieldSource(s, source)
           \/ EditFields(s, emits) \/ RemoveField(s, emits)
           \/ EditStaticAttributes(s, emits) \/ EditOutputs(s, emits)
           \/ EditDerivedFields(s, passthrough, emits) \/ SetValuePolicy(s, passthrough)
    PROVE  Covers(doc')
  <1>1. doc.schema \in Schemas /\ doc.schema >= doc.schema
    BY DEF Document, Schemas
  <1>2. /\ Raise(4) \in Schemas /\ Raise(4) >= doc.schema /\ Raise(4) >= 4
        /\ Raise(5) \in Schemas /\ Raise(5) >= doc.schema /\ Raise(5) >= 5
        /\ Raise(7) \in Schemas /\ Raise(7) >= doc.schema /\ Raise(7) = 7
    BY Raised DEF Schemas
  <1>3. /\ RaiseFor(source) \in Schemas /\ RaiseFor(source) >= doc.schema
        /\ source = "header" => RaiseFor(source) >= 4
        /\ source = "path" => RaiseFor(source) >= 5
    BY <1>1, <1>2 DEF RaiseFor, Sources
  <1>4. CASE SetConditionSource(s, source) \/ SetFieldSource(s, source)
    BY <1>3, <1>4, ReviseCovers DEF SetConditionSource, SetFieldSource
  <1>5. CASE \/ EditFields(s, emits) \/ EditStaticAttributes(s, emits) \/ EditOutputs(s, emits)
             \/ EditDerivedFields(s, passthrough, emits) \/ RemoveField(s, emits)
    BY <1>1, <1>5, ReviseCovers
       DEF EditFields, EditStaticAttributes, EditOutputs, EditDerivedFields, RemoveField
  <1>6. CASE SetValuePolicy(s, passthrough)
    BY <1>1, <1>2, <1>6, ReviseCovers DEF SetValuePolicy
  <1> QED BY <1>4, <1>5, <1>6

\* The edits that add, remove or rename an HTTP rule.
LEMMA HttpRuleListCovers ==
    ASSUME doc \in Document, Covers(doc),
           \/ AddHttpRule
           \/ \E s \in Used(doc.http) : RemoveHttpRule(s) \/ \E n \in Names : RenameHttpRule(s, n)
    PROVE  Covers(doc')
  <1>0. doc.schema \in Schemas /\ doc.schema >= doc.schema
    BY DEF Document, Schemas
  <1>1. CASE AddHttpRule
    <2>1. PICK s \in HttpSlots, n \in Names :
              doc' = [doc EXCEPT !.schema = Raise(5),
                                 !.http[s] = [name |-> n, source |-> "plain",
                                              passthrough |-> FALSE, emits |-> FALSE]]
      BY <1>1 DEF AddHttpRule, Edit
    <2> DEFINE rule == [name |-> n, source |-> "plain", passthrough |-> FALSE, emits |-> FALSE]
    <2>2. Raise(5) \in Schemas /\ Raise(5) >= doc.schema /\ Raise(5) >= 5
      BY Raised DEF Schemas
    <2>3. RuleFits(rule, Raise(5))
      BY <2>2 DEF RuleFits, Schemas
    <2> HIDE DEF rule
    <2>4. Covers([doc EXCEPT !.http[s] = rule, !.schema = Raise(5)])
      BY <2>2, <2>3, HttpRuleCovers
    <2>5. doc' = [doc EXCEPT !.http[s] = rule, !.schema = Raise(5)]
      BY <2>1 DEF Document, rule
    <2> QED BY <2>4, <2>5
  <1>2. ASSUME NEW s \in Used(doc.http), RemoveHttpRule(s) PROVE Covers(doc')
    <2> DEFINE http == [doc.http EXCEPT ![s] = Absent]
               metrics == MetricsAfterRemoval(doc.http, doc.httpMetrics, s)
    <2>1. \A t \in Used(http) : t \in Used(doc.http) /\ http[t] = doc.http[t]
      BY DEF Used, Document
    <2>2. \A m \in Used(metrics) : m \in Used(doc.httpMetrics) /\ metrics[m] = doc.httpMetrics[m]
      BY DEF Used, Document, MetricsAfterRemoval
    <2>3. doc' = [doc EXCEPT !.http = http, !.httpMetrics = metrics, !.schema = doc.schema]
      BY <1>2 DEF RemoveHttpRule, Edit, Document
    <2> HIDE DEF http, metrics
    <2> QED BY <1>0, <2>1, <2>2, <2>3, HttpCovers
  <1>3. ASSUME NEW s \in Used(doc.http), NEW n \in Names, RenameHttpRule(s, n) PROVE Covers(doc')
    <2> DEFINE http == [doc.http EXCEPT ![s].name = n]
               metrics == MetricsAfterRename(doc.http, doc.httpMetrics, s, n)
    <2>1. s \in HttpSlots /\ doc.http[s] \in HttpRule
      BY UsedHttpRule
    <2>2. \A t \in Used(http) : /\ t \in Used(doc.http)
                                /\ http[t].source = doc.http[t].source
                                /\ http[t].passthrough = doc.http[t].passthrough
      BY <2>1 DEF Used, Document, HttpRule
    <2>3. \A m \in Used(metrics) : /\ m \in Used(doc.httpMetrics)
                                   /\ metrics[m].standard = doc.httpMetrics[m].standard
      <3> SUFFICES ASSUME NEW m \in Used(metrics)
                   PROVE  m \in Used(doc.httpMetrics) /\ metrics[m].standard = doc.httpMetrics[m].standard
        OBVIOUS
      <3>1. m \in Used(doc.httpMetrics)
        BY DEF Used, MetricsAfterRename
      <3>2. metrics[m] = doc.httpMetrics[m] \/ metrics[m] = WithRule(doc.httpMetrics[m], n)
        BY <3>1 DEF MetricsAfterRename, Used
      <3>3. doc.httpMetrics[m] \in HttpMetric
        BY <3>1, UsedHttpMetric
      <3> QED BY <3>1, <3>2, <3>3 DEF WithRule, HttpMetric
    <2>4. doc' = [doc EXCEPT !.http = http, !.httpMetrics = metrics, !.schema = doc.schema]
      BY <1>3 DEF RenameHttpRule, Edit, Document
    <2> HIDE DEF http, metrics
    <2> QED BY <1>0, <2>2, <2>3, <2>4, HttpCovers
  <1> QED BY <1>1, <1>2, <1>3

\* The edits of the metrics of HTTP rules.
LEMMA HttpMetricCovers ==
    ASSUME doc \in Document, Covers(doc), NEW m \in HttpMetricSlots, NEW metric,
           NEW schema \in Schemas, schema >= doc.schema,
           \/ metric = Absent \/ MetricFits(metric, schema)
           \/ m \in Used(doc.httpMetrics) /\ metric.standard = doc.httpMetrics[m].standard
    PROVE  Covers([doc EXCEPT !.httpMetrics[m] = metric, !.schema = schema])
  <1> DEFINE metrics == [doc.httpMetrics EXCEPT ![m] = metric]
  <1>1. \A x \in Used(metrics) :
            \/ MetricFits(metrics[x], schema)
            \/ x \in Used(doc.httpMetrics) /\ metrics[x].standard = doc.httpMetrics[x].standard
    BY DEF Used, Document
  <1> HIDE DEF metrics
  <1>2. Covers([doc EXCEPT !.http = doc.http, !.httpMetrics = metrics, !.schema = schema])
    BY <1>1, HttpCovers
  <1>3. [doc EXCEPT !.httpMetrics[m] = metric, !.schema = schema]
          = [doc EXCEPT !.http = doc.http, !.httpMetrics = metrics, !.schema = schema]
    BY DEF Document, metrics
  <1> QED BY <1>2, <1>3

LEMMA HttpMetricListCovers ==
    ASSUME doc \in Document, Covers(doc),
           \/ \E s \in Used(doc.http) : AddHttpMetric(s)
           \/ \E m \in Used(doc.httpMetrics) :
                EditHttpMetric(m) \/ RemoveHttpMetric(m) \/ ToggleStandardAttribute(m)
    PROVE  Covers(doc')
  <1>0. doc.schema \in Schemas /\ doc.schema >= doc.schema
    BY DEF Document, Schemas
  <1>1. ASSUME NEW s \in Used(doc.http), AddHttpMetric(s) PROVE Covers(doc')
    <2> DEFINE metric == [rule |-> doc.http[s].name, standard |-> FALSE]
    <2>1. PICK m \in HttpMetricSlots : doc' = [doc EXCEPT !.httpMetrics[m] = metric]
      BY <1>1 DEF AddHttpMetric, Edit
    <2>2. doc.schema >= 3
      BY <1>0, CoversByParts DEF PartsFit, RuleFits
    <2>3. MetricFits(metric, doc.schema)
      BY <2>2 DEF MetricFits
    <2>4. doc' = [doc EXCEPT !.httpMetrics[m] = metric, !.schema = doc.schema]
      BY <2>1 DEF Document
    <2> HIDE DEF metric
    <2> QED BY <1>0, <2>3, <2>4, HttpMetricCovers
  <1>2. ASSUME NEW m \in Used(doc.httpMetrics), EditHttpMetric(m) PROVE Covers(doc')
    BY <1>2 DEF EditHttpMetric, Edit
  <1>3. ASSUME NEW m \in Used(doc.httpMetrics), RemoveHttpMetric(m) PROVE Covers(doc')
    <2>1. doc' = [doc EXCEPT !.httpMetrics[m] = Absent, !.schema = doc.schema]
      BY <1>3 DEF RemoveHttpMetric, Edit, Document
    <2> QED BY <1>0, <2>1, UsedHttpMetric, HttpMetricCovers
  <1>4. ASSUME NEW m \in Used(doc.httpMetrics), ToggleStandardAttribute(m) PROVE Covers(doc')
    <2> DEFINE was == doc.httpMetrics[m].standard
               metric == [doc.httpMetrics[m] EXCEPT !.standard = ~was]
               schema == IF was THEN doc.schema ELSE Raise(6)
    <2>1. m \in HttpMetricSlots /\ doc.httpMetrics[m] \in HttpMetric
      BY UsedHttpMetric
    <2>2. doc' = [doc EXCEPT !.httpMetrics[m] = metric, !.schema = schema]
      BY <1>4, <2>1 DEF ToggleStandardAttribute, Edit, Document
    <2>3. MetricFits(doc.httpMetrics[m], doc.schema)
      BY <1>0, CoversByParts DEF PartsFit
    <2>4. Raise(6) \in Schemas /\ Raise(6) >= doc.schema /\ Raise(6) >= 6
      BY Raised DEF Schemas
    <2>5. schema \in Schemas /\ schema >= doc.schema
      BY <1>0, <2>4
    <2>6. metric.standard = ~was
      BY <2>1 DEF HttpMetric
    <2>7. MetricFits(metric, schema)
      BY <1>0, <2>3, <2>4, <2>6 DEF MetricFits, Schemas
    <2> HIDE DEF metric, schema
    <2> QED BY <2>1, <2>2, <2>5, <2>7, HttpMetricCovers
  <1> QED BY <1>1, <1>2, <1>3, <1>4

\* Methods and metrics over all exchanges.
LEMMA MethodCovers ==
    ASSUME doc \in Document, Covers(doc),
           NEW methods, NEW globals, NEW schema \in Schemas, schema >= doc.schema,
           \A w \in Used(methods) :
              \/ MethodFits(methods[w], schema)
              \/ w \in Used(doc.methods) /\ methods[w] = doc.methods[w],
           \A g \in Used(globals) :
              \/ GlobalFits(globals[g], schema)
              \/ g \in Used(doc.globals) /\ globals[g] = doc.globals[g]
    PROVE  Covers([doc EXCEPT !.methods = methods, !.globals = globals, !.schema = schema])
  <1> DEFINE d == [doc EXCEPT !.methods = methods, !.globals = globals, !.schema = schema]
  <1>1. /\ d.methods = methods /\ d.globals = globals /\ d.schema = schema
        /\ d.http = doc.http /\ d.httpMetrics = doc.httpMetrics
        /\ d.msg = doc.msg /\ d.msgMetrics = doc.msgMetrics /\ doc.schema \in Schemas
    BY DEF Document
  <1> HIDE DEF d
  <1>2. Covers(d)
    BY <1>1, KeptCovers
  <1> QED BY <1>2 DEF d

LEMMA MethodSlotCovers ==
    ASSUME doc \in Document, Covers(doc), NEW w \in MethodSlots, NEW values,
           NEW schema \in Schemas, schema >= doc.schema,
           values = Absent \/ MethodFits(values, schema)
    PROVE  Covers([doc EXCEPT !.methods[w] = values, !.schema = schema])
  <1> DEFINE methods == [doc.methods EXCEPT ![w] = values]
  <1>1. \A x \in Used(methods) :
            MethodFits(methods[x], schema) \/ (x \in Used(doc.methods) /\ methods[x] = doc.methods[x])
    BY DEF Used, Document
  <1> HIDE DEF methods
  <1>2. Covers([doc EXCEPT !.methods = methods, !.globals = doc.globals, !.schema = schema])
    BY <1>1, MethodCovers
  <1>3. [doc EXCEPT !.methods[w] = values, !.schema = schema]
          = [doc EXCEPT !.methods = methods, !.globals = doc.globals, !.schema = schema]
    BY DEF Document, methods
  <1> QED BY <1>2, <1>3

LEMMA GlobalSlotCovers ==
    ASSUME doc \in Document, Covers(doc), NEW g \in GlobalSlots, NEW values,
           NEW schema \in Schemas, schema >= doc.schema,
           values = Absent \/ GlobalFits(values, schema)
    PROVE  Covers([doc EXCEPT !.globals[g] = values, !.schema = schema])
  <1> DEFINE globals == [doc.globals EXCEPT ![g] = values]
  <1>1. \A x \in Used(globals) :
            GlobalFits(globals[x], schema) \/ (x \in Used(doc.globals) /\ globals[x] = doc.globals[x])
    BY DEF Used, Document
  <1> HIDE DEF globals
  <1>2. Covers([doc EXCEPT !.methods = doc.methods, !.globals = globals, !.schema = schema])
    BY <1>1, MethodCovers
  <1>3. [doc EXCEPT !.globals[g] = values, !.schema = schema]
          = [doc EXCEPT !.methods = doc.methods, !.globals = globals, !.schema = schema]
    BY DEF Document, globals
  <1> QED BY <1>2, <1>3

LEMMA MethodEditCovers ==
    ASSUME doc \in Document, Covers(doc), MethodEdit
    PROVE  Covers(doc')
  <1>0. doc.schema \in Schemas /\ doc.schema >= doc.schema
    BY DEF Document, Schemas
  <1>1. /\ Raise(3) \in Schemas /\ Raise(3) >= doc.schema /\ Raise(3) >= 3
        /\ Raise(7) \in Schemas /\ Raise(7) >= doc.schema /\ Raise(7) = 7
    BY Raised DEF Schemas
  <1>2. ASSUME NEW w \in MethodSlots, NEW values \in {Absent} \cup Values, NEW schema \in Schemas,
               schema >= doc.schema, values = "uncontrolled" => schema = 7,
               doc' = [doc EXCEPT !.methods[w] = values, !.schema = schema]
        PROVE  Covers(doc')
    BY <1>2, MethodSlotCovers DEF MethodFits
  <1>3. ASSUME NEW g \in GlobalSlots, NEW values \in {Absent} \cup Values, NEW schema \in Schemas,
               schema >= doc.schema, schema >= 3 \/ values = Absent,
               values = "uncontrolled" => schema = 7,
               doc' = [doc EXCEPT !.globals[g] = values, !.schema = schema]
        PROVE  Covers(doc')
    BY <1>3, GlobalSlotCovers DEF GlobalFits, MethodFits
  <1>4. "uncontrolled" \in Values /\ "controlled" \in Values /\ "controlled" # "uncontrolled"
           /\ Absent # "uncontrolled" /\ Absent # "controlled"
    BY NameAssumption DEF Values
  <1>5. CASE AddMethod
    <2>1. PICK w \in MethodSlots : doc' = [doc EXCEPT !.methods[w] = "controlled"]
      BY <1>5 DEF AddMethod, Edit
    <2>2. doc' = [doc EXCEPT !.methods[w] = "controlled", !.schema = doc.schema]
      BY <2>1 DEF Document
    <2> QED BY <1>0, <1>2, <1>4, <2>2
  <1>6. ASSUME NEW w \in Used(doc.methods), RemoveMethod(w) \/ EditInstruments(w)
        PROVE  Covers(doc')
    <2>1. CASE EditInstruments(w)
      BY <2>1 DEF EditInstruments, Edit
    <2>2. CASE RemoveMethod(w)
      <3>1. w \in MethodSlots
        BY DEF Used, Document
      <3>2. doc' = [doc EXCEPT !.methods[w] = Absent, !.schema = doc.schema]
        BY <2>2 DEF RemoveMethod, Edit, Document
      <3> QED BY <1>0, <1>2, <1>4, <3>1, <3>2
    <2> QED BY <1>6, <2>1, <2>2
  <1>7. ASSUME NEW w \in Used(doc.methods), NEW values \in Values, EditCapture(w, values)
        PROVE  Covers(doc')
    <2>1. w \in MethodSlots
      BY DEF Used, Document
    <2> QED BY <1>0, <1>1, <1>2, <1>7, <2>1 DEF EditCapture, Edit
  <1>8. CASE AddGlobalMetric
    <2>1. PICK g \in GlobalSlots :
              doc' = [doc EXCEPT !.globals[g] = "controlled", !.schema = Raise(3)]
      BY <1>8 DEF AddGlobalMetric, Edit
    <2> QED BY <1>1, <1>3, <1>4, <2>1
  <1>9. ASSUME NEW g \in Used(doc.globals), RemoveGlobalMetric(g) \/ EditGlobalMetric(g)
        PROVE  Covers(doc')
    <2>1. CASE EditGlobalMetric(g)
      BY <2>1 DEF EditGlobalMetric, Edit
    <2>2. CASE RemoveGlobalMetric(g)
      <3>1. g \in GlobalSlots
        BY DEF Used, Document
      <3>2. doc' = [doc EXCEPT !.globals[g] = Absent, !.schema = doc.schema]
        BY <2>2 DEF RemoveGlobalMetric, Edit, Document
      <3> QED BY <1>0, <1>3, <1>4, <3>1, <3>2
    <2> QED BY <1>9, <2>1, <2>2
  <1>10. ASSUME NEW g \in Used(doc.globals), NEW values \in Values, EditLabel(g, values)
         PROVE  Covers(doc')
    <2>1. g \in GlobalSlots
      BY DEF Used, Document
    <2>2. doc.schema >= 3
      BY <1>0, CoversByParts DEF PartsFit, GlobalFits
    <2> DEFINE schema == IF values = "uncontrolled" THEN Raise(7) ELSE doc.schema
    <2>3. schema \in Schemas /\ schema >= doc.schema /\ schema >= 3
             /\ (values = "uncontrolled" => schema = 7)
      BY <1>0, <1>1, <2>2
    <2>4. doc' = [doc EXCEPT !.globals[g] = values, !.schema = schema]
      BY <1>10 DEF EditLabel, Edit
    <2> HIDE DEF schema
    <2> QED BY <1>3, <2>1, <2>3, <2>4
  <1> QED BY <1>5, <1>6, <1>7, <1>8, <1>9, <1>10 DEF MethodEdit

\* The edits of messaging that leave the declared version alone.
LEMMA MsgKeptCovers ==
    ASSUME doc \in Document, Covers(doc), NEW msg, NEW metrics,
           \A s \in Used(msg) : s \in Used(doc.msg) /\ msg[s].passthrough = doc.msg[s].passthrough,
           Used(metrics) \subseteq Used(doc.msgMetrics)
    PROVE  Covers([doc EXCEPT !.msg = msg, !.msgMetrics = metrics])
  <1> DEFINE d == [doc EXCEPT !.msg = msg, !.msgMetrics = metrics]
  <1>1. /\ d.methods = doc.methods /\ d.globals = doc.globals
        /\ d.http = doc.http /\ d.httpMetrics = doc.httpMetrics
        /\ d.msg = msg /\ d.msgMetrics = metrics
        /\ d.schema = doc.schema /\ doc.schema \in Schemas
    BY DEF Document
  <1> HIDE DEF d
  <1>2. d.schema \in Schemas /\ d.schema >= doc.schema
    BY <1>1 DEF Schemas
  <1>3. Covers(d)
    BY <1>1, <1>2, KeptCovers
  <1> QED BY <1>3 DEF d

LEMMA MsgRemovalCovers ==
    ASSUME doc \in Document, Covers(doc),
           \/ \E s \in Used(doc.msg) : RemoveMsgRule(s) \/ \E n \in Names : RenameMsgRule(s, n)
           \/ \E m \in Used(doc.msgMetrics) : RemoveMsgMetric(m)
    PROVE  Covers(doc')
  <1>1. ASSUME NEW s \in Used(doc.msg), RemoveMsgRule(s) PROVE Covers(doc')
    <2> DEFINE msg == [doc.msg EXCEPT ![s] = Absent]
               metrics == MetricsAfterRemoval(doc.msg, doc.msgMetrics, s)
    <2>1. \A t \in Used(msg) : t \in Used(doc.msg) /\ msg[t].passthrough = doc.msg[t].passthrough
      BY DEF Used, Document
    <2>2. Used(metrics) \subseteq Used(doc.msgMetrics)
      BY DEF Used, MetricsAfterRemoval
    <2>3. doc' = [doc EXCEPT !.msg = msg, !.msgMetrics = metrics]
      BY <1>1 DEF RemoveMsgRule, Edit, Document
    <2> HIDE DEF msg, metrics
    <2> QED BY <2>1, <2>2, <2>3, MsgKeptCovers
  <1>2. ASSUME NEW s \in Used(doc.msg), NEW n \in Names, RenameMsgRule(s, n) PROVE Covers(doc')
    <2> DEFINE msg == [doc.msg EXCEPT ![s].name = n]
               metrics == MetricsAfterRename(doc.msg, doc.msgMetrics, s, n)
    <2>1. s \in MsgSlots /\ doc.msg[s] \in MsgRule
      BY UsedMsgRule
    <2>2. \A t \in Used(msg) : t \in Used(doc.msg) /\ msg[t].passthrough = doc.msg[t].passthrough
      BY <2>1 DEF Used, Document, MsgRule
    <2>3. Used(metrics) \subseteq Used(doc.msgMetrics)
      BY DEF Used, MetricsAfterRename
    <2>4. doc' = [doc EXCEPT !.msg = msg, !.msgMetrics = metrics]
      BY <1>2 DEF RenameMsgRule, Edit, Document
    <2> HIDE DEF msg, metrics
    <2> QED BY <2>2, <2>3, <2>4, MsgKeptCovers
  <1>3. ASSUME NEW m \in Used(doc.msgMetrics), RemoveMsgMetric(m) PROVE Covers(doc')
    <2> DEFINE metrics == [doc.msgMetrics EXCEPT ![m] = Absent]
    <2>1. Used(metrics) \subseteq Used(doc.msgMetrics)
      BY DEF Used
    <2>2. doc' = [doc EXCEPT !.msg = doc.msg, !.msgMetrics = metrics]
      BY <1>3 DEF RemoveMsgMetric, Edit, Document
    <2> HIDE DEF metrics
    <2> QED BY <2>1, <2>2, MsgKeptCovers
  <1> QED BY <1>1, <1>2, <1>3

LEMMA EmptyPolicyCovers == Covers(EmptyPolicy)
  BY DEF EmptyPolicy, Covers, Used, UsesExtended, UsesPathParameters, UsesMessaging,
         UsesStandard, UsesPassthrough

\* The only edits after which a document may need more than it declares are those that set
\* the version of messaging or type a path template; every other edit, for any
\* document, keeps the declared version sufficient (ensurePolicySchema).
THEOREM FormSchemaLosers == Spec => OnlySomeEditsLoseSchema
  <1> DEFINE Named == mode = "form" /\ mode' = "form" /\ ~Covers(doc') /\ Covers(doc)
                        => MsgRewrite \/ LoadVersion \/ \E s \in Used(doc.http) : TypeTemplate(s)
  <1>1. FormInv /\ [Next]_vars => [Named]_vars
    <2> SUFFICES ASSUME FormInv, Next, mode = "form", Covers(doc), ~MsgRewrite, ~LoadVersion,
                        \A s \in Used(doc.http) : ~TypeTemplate(s)
                 PROVE  Covers(doc')
      OBVIOUS
    <2>1. doc \in Document
      BY DEF FormInv, TypeOK
    <2>2. CASE HttpEdit
      <3>1. ASSUME NEW s \in Used(doc.http), NEW source \in Sources,
                   NEW passthrough \in BOOLEAN, NEW emits \in BOOLEAN,
                   \/ SetConditionSource(s, source) \/ SetFieldSource(s, source)
                   \/ EditFields(s, emits) \/ RemoveField(s, emits)
                   \/ EditStaticAttributes(s, emits) \/ EditOutputs(s, emits)
                   \/ EditDerivedFields(s, passthrough, emits) \/ SetValuePolicy(s, passthrough)
            PROVE  Covers(doc')
        BY <2>1, <3>1, HttpPartCovers
      <3>2. "plain" \in Sources
        BY DEF Sources
      <3> QED BY <2>1, <2>2, <3>1, <3>2, HttpRuleListCovers, HttpMetricListCovers DEF HttpEdit
    <2>3. CASE MethodEdit
      BY <2>1, <2>3, MethodEditCovers
    <2>4. CASE MsgEdit
      BY <2>1, <2>4, MsgRemovalCovers DEF MsgEdit
    <2>5. CASE TypeRaw
      BY <2>5 DEF TypeRaw
    <2>6. CASE SwitchEditorMode \/ Publish
      BY <2>6 DEF SwitchEditorMode, Publish
    <2>7. CASE StartBlank
      BY <2>7, EmptyPolicyCovers DEF StartBlank
    <2> QED BY <2>2, <2>3, <2>4, <2>5, <2>6, <2>7 DEF Next
  <1>2. Spec => []FormInv
    BY InitForm, NextForm, PTL DEF Spec
  <1>3. Spec => [][Named]_vars
    BY <1>1, <1>2, PTL DEF Spec
  <1> QED BY <1>3 DEF OnlySomeEditsLoseSchema

=============================================================================
