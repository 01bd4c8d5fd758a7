---------------------------- MODULE ValidationGate ----------------------------
(***************************************************************************)
(* What a rule that objects turns into: the risk policy's decision, the    *)
(* pending task with its question, choices and repair, and the plans the   *)
(* user's answer makes of it (orchestration/resume, risks, policies).      *)
(* A choice is a slot with a value; the order of choices is left out.      *)
(***************************************************************************)
EXTENDS Preflight

AllowedResumeActions(status) ==
  CASE status = "awaiting_confirmation" -> {"confirm", "reject", "cancel"}
    [] status = "awaiting_user"         -> {"patch", "cancel", "replan"}
    [] OTHER                            -> {}

-----------------------------------------------------------------------------
(* Risks (risks/converters.py, risks/policy.py)                            *)

Choice(slot, value) == [slot |-> slot, value |-> value]

\* A name close enough to the missing one is one that shares a word with it;
\* every field of the layer is taken as close enough.
LayerChoices(target, tree) ==
  {LayerId(i) : i \in {j \in DOMAIN tree.layers : ToSet(tree.layers[j].name) \cap ToSet(target) # {}}}

\* _find_layer_by_name, _resolve_layer_by_name: no layer, or the first that has the name.
FirstNamed(tree, name) ==
  LET named == {i \in DOMAIN tree.layers : tree.layers[i].name = name /\ name # <<>>}
  IN {i \in named : \A j \in named : i <= j}

FieldsOf(tree, layers) == UNION {tree.layers[i].fields : i \in layers}

\* Choices before a slot is found for them: values that name a field, or a layer.
SuggestedFields(issue, tree) ==
  IF issue.code = "unknown_field" THEN FieldsOf(tree, FirstNamed(tree, issue.layer)) ELSE {}

SuggestedLayers(issue, tree) ==
  IF issue.code = "unknown_layer" THEN LayerChoices(issue.layer, tree) ELSE {}

HasChoices(issue, tree) == SuggestedFields(issue, tree) \cup SuggestedLayers(issue, tree) # {}

\* RiskPolicy.evaluate: the first risk of the first kind that some risk is of.
Decision(kind, primary) == [kind |-> kind, primary |-> primary]

Evaluate(issues, tree) ==
  LET those(Test(_)) == {i \in DOMAIN issues : Test(issues[i])}
      ask     == those(LAMBDA x : HasChoices(x, tree))
      confirm == those(LAMBDA x : x.confirm)
      errors  == those(LAMBDA x : x.severity = "error")
  IN CASE ask # {}     -> Decision("ask_disambiguation", Min(ask))
       [] confirm # {} -> Decision("ask_confirmation", Min(confirm))
       [] errors # {}  -> Decision("ask_user", Min(errors))
       [] OTHER        -> Decision("warn", 1)

-----------------------------------------------------------------------------
(* Missing slots, filled slots and the schema of a patch                   *)

ExportMissingSlots == <<"output_dir", "output_format">>
ExportFormats == {".geojson", ".gpkg", ".shp"}

PendingMissingSlots(action, missing) ==
  IF action = "export_result" /\ "output_path" \in ToSet(missing) THEN ExportMissingSlots ELSE missing

SlotsHolding(p, Holds(_)) == SetToSeq({s \in DOMAIN p.input : Holds(s)})

OrElse(slots, default) == IF slots = <<>> THEN <<default>> ELSE slots


\* _preflight_missing_slots: a formula is not the field it names, and the
\* list of references is not the reference.
PreflightMissingSlots(p, issue) ==
  CASE issue.code = "unknown_field" ->
         OrElse(SlotsHolding(p, LAMBDA s : /\ s \notin {"expression", "formula"} \cup LayerSlots
                                           /\ ToSet(p.input[s]) \cap ToSet(issue.fields) # {}), "field")
    [] issue.code = "unknown_layer" ->
         OrElse(SlotsHolding(p, LAMBDA s : s \in LayerSlots \ ListSlots /\ p.input[s] = issue.layer),
                "input_ref")
    [] OTHER -> issue.missing

FilledSlots(p, missing) ==
  [s \in {t \in DOMAIN p.input : t \notin ToSet(missing) /\ p.input[t] # <<>>} |-> p.input[s]]

\* The slots a patch may set, with those it must, and those that are export formats.
MissingSlotSchema(missing) == [must |-> ToSet(missing), may |-> ToSet(missing), formats |-> {}]

\* An export asks for a directory and a format, whatever else is missing.
PatchSchema(action, missing) ==
  LET slots == ToSet(missing) \cup ToSet(ExportMissingSlots)
  IN IF action = "export_result"
     THEN [must |-> slots, may |-> slots \cup {"file_name"}, formats |-> {"output_format"}]
     ELSE MissingSlotSchema(missing)

-----------------------------------------------------------------------------
(* Choices (pending_choices_from_context)                                  *)

FieldSlots == {"field", "field_name", "x_field", "y_field", "join_fields"}

\* _choice_slot: the slot a suggested field or layer is a value for.
ChoiceSlots(missing, fits) ==
  LET fitting == {k \in DOMAIN missing : missing[k] \in fits}
  IN {missing[k] : k \in {j \in fitting : \A i \in fitting : j <= i}}

ExpectedLayerKind(action, slot) ==
  FoldRight(LAMBDA k, rest : IF k[1] = slot THEN k[2] ELSE rest, ToolContract(action).kinds, "")

\* The input is not offered as a partner of itself.
LayerSlotChoices(slot, p, tree) ==
  {LayerId(i) : i \in {j \in DOMAIN tree.layers :
     /\ ExpectedLayerKind(p.action, slot) \in {"", tree.layers[j].kind}
     /\ slot # "input_ref" => Slot(p, "input_ref") \notin {LayerId(j), tree.layers[j].name}}}

\* _resolve_layer_record knows aliases and ids, and nothing of phrases.
AliasedLayer(tree, ref) == IF ref \in DOMAIN tree.aliases THEN {tree.aliases[ref]} ELSE {}

FieldSlotChoices(p, issue, tree) ==
  LET input == AliasedLayer(tree, Slot(p, "input_ref"))
  IN {<<f>> : f \in FieldsOf(tree, IF input = {} THEN FirstNamed(tree, issue.layer) ELSE input)}

TargetCrsChoices(p, tree) ==
  LET current == {tree.layers[i].crs : i \in AliasedLayer(tree, Slot(p, "input_ref"))}
  IN {<<c>> : c \in IF current \ (GeographicCrs \cup {""}) # {} THEN current ELSE {RecommendedCrs}}

PredicateChoices(p) ==
  IF p.action \in {"extract_by_location", "join_by_location"}
  THEN {"intersects", "within", "contains", "touches", "overlaps", "disjoint"}
  ELSE {"intersects", "within", "contains"}

\* _generated_choices: for the first missing slot alone.  A list is offered single
\* layers, which no rule takes for a list: <<>> stands for them.
GeneratedChoices(p, issue, missing, tree) ==
  LET slot == Head(missing)
      values == CASE slot = "distance"   -> {<<"100">>, <<"500">>}
                  [] slot = "target_crs" -> TargetCrsChoices(p, tree)
                  [] slot = "predicate"  -> {<<c>> : c \in PredicateChoices(p)}
                  [] slot = "operator"   -> {<<c>> : c \in Comparisons}
                  [] slot \in {"field", "x_field", "y_field"} -> FieldSlotChoices(p, issue, tree)
                  [] slot \in ListSlots  -> {<<>> : l \in LayerSlotChoices(slot, p, tree)}
                  [] slot \in LayerSlots -> LayerSlotChoices(slot, p, tree)
                  [] OTHER               -> {}
  IN IF missing = <<>> THEN {} ELSE {Choice(slot, v) : v \in values}

\* The risk may suggest some; else the issue is asked for them.
PendingChoices(p, issue, missing, risk, tree) ==
  IF HasChoices(risk, tree)
  THEN {Choice(s, <<f>>) : s \in ChoiceSlots(missing, FieldSlots), f \in SuggestedFields(risk, tree)}
         \cup {Choice(s, l) : s \in ChoiceSlots(missing, LayerSlots), l \in SuggestedLayers(risk, tree)}
  ELSE GeneratedChoices(p, issue, missing, tree)

-----------------------------------------------------------------------------
(* The pending task                                                        *)

NoRepair == [steps |-> <<>>, patch |-> NoPatch]
NoSchema == [must |-> {}, may |-> {}, formats |-> {}]
NoPending ==
  [intent |-> "", source |-> "", question |-> <<>>, filled |-> <<>>, missing |-> <<>>,
   state |-> "", allowed |-> {}, choices |-> {}, schema |-> NoSchema, repair |-> NoRepair]

RepairOf(issue) == [steps |-> issue.steps, patch |-> issue.patch]

HasRepair(pending) == pending.repair # NoRepair

PendingSource(issue, status) ==
  IF status = "awaiting_user"
     /\ (issue.code \in {"missing_slot", "unknown_field", "unknown_layer"} \/ issue.missing # <<>>)
  THEN "missing_slot_validation" ELSE ""

Question(issue) == <<issue.code, issue.layer, issue.layers, issue.missing, issue.fields>>

PendingTask(p, issue, missing, status, source, risk, tree) ==
  [intent |-> p.action, source |-> source, question |-> Question(issue),
   filled |-> FilledSlots(p, missing), missing |-> missing, state |-> status,
   allowed |-> AllowedResumeActions(status),
   choices |-> PendingChoices(p, issue, missing, risk, tree),
   schema |-> PatchSchema(p.action, missing), repair |-> RepairOf(issue)]

\* pending_task_from_issue: the question of a semantic rule.
SemanticPending(p, issue, risk, tree) ==
  PendingTask(p, issue, PendingMissingSlots(p.action, issue.missing), "awaiting_user",
              PendingSource(issue, "awaiting_user"), risk, tree)

\* ValidationGate.pause_for_issues
PreflightPending(p, issue, missing, status, tree) ==
  PendingTask(p, issue, missing, status, PendingSource(issue, status), issue, tree)

PauseOnIssue(p, issue, status, tree) ==
  IF issue.stage = "semantic" THEN SemanticPending(p, issue, issue, tree)
  ELSE PreflightPending(p, issue, PendingMissingSlots(p.action, PreflightMissingSlots(p, issue)), status, tree)

PauseStatus(decision) ==
  IF decision.kind = "ask_confirmation" THEN "awaiting_confirmation" ELSE "awaiting_user"

PauseOnDecision(p, issues, decision, tree) ==
  PauseOnIssue(p, issues[decision.primary], PauseStatus(decision), tree)

PauseForIssues(p, issues, tree) == PauseOnDecision(p, issues, Evaluate(issues, tree), tree)

\* _pause_resumed_plan: the first issue asks, the primary risk decides.
ResumedPending(p, issue, missing, status, risk, tree) ==
  LET source == IF status = "awaiting_user" /\ missing # <<>> THEN "missing_slot_validation" ELSE ""
  IN [PendingTask(p, issue, missing, status, source, risk, tree)
        EXCEPT !.schema = MissingSlotSchema(missing)]

PauseResumedOnDecision(p, issue, issues, decision, tree) ==
  LET risk == issues[decision.primary]
  IN IF issue.stage = "semantic" THEN SemanticPending(p, issue, risk, tree)
     ELSE ResumedPending(p, issue, PreflightMissingSlots(p, issue), PauseStatus(decision), risk, tree)

PauseResumedPlan(p, issues, tree) ==
  PauseResumedOnDecision(p, issues[1], issues, Evaluate(issues, tree), tree)

\* proactive_clarification: the model's own question, answered by one of its
\* choices; about an export it is always the directory and the format.
ClarificationTask(q) ==
  LET asked == IF q.intent = "export_result" THEN ToSet(ExportMissingSlots) ELSE {c.slot : c \in q.choices}
  IN [NoPending EXCEPT !.intent = q.intent, !.source = "proactive_clarification",
        !.question = <<"question">>, !.filled = q.filled, !.missing = SetToSeq(asked),
        !.state = "awaiting_user", !.allowed = AllowedResumeActions("awaiting_user"),
        !.choices = q.choices, !.schema = PatchSchema(q.intent, SetToSeq(asked))]

\* A task asked about once more, in the words of the question: the repair was rejected,
\* or a reply was not understood.
AskedAgain(pending, question, allowed) ==
  [NoPending EXCEPT !.intent = pending.intent, !.filled = pending.filled,
     !.missing = pending.missing, !.question = question, !.state = "awaiting_user",
     !.allowed = allowed, !.schema = MissingSlotSchema(pending.missing)]

\* A clarification that was not answered keeps everything but the repair.
ClarifiedAgain(pending) == [pending EXCEPT !.state = "awaiting_user", !.repair = NoRepair]

\* The id a client answers by (_pending_id): what was asked, not when.
PendingId(pending) ==
  <<pending.source, pending.choices = {}, pending.intent, pending.question, pending.missing>>

-----------------------------------------------------------------------------
(* Answers (resume_decision.py, clarification_resume_handler.py,           *)
(* export_result_contract.py, resume_rules.py)                             *)

Merged(slots, patch) ==
  [s \in DOMAIN slots \cup DOMAIN patch |-> IF s \in DOMAIN patch THEN patch[s] ELSE slots[s]]

\* _normalize_output_format
WithDot == [geojson |-> ".geojson", gpkg |-> ".gpkg", shp |-> ".shp"]

Format(w) == IF w \in DOMAIN WithDot THEN WithDot[w] ELSE w

DefaultExportName == <<"export_result">>

OrDefaultName(stem) == IF stem = <<>> THEN DefaultExportName ELSE stem

\* compose_export_result_path; <<>> is no path.
ComposeExportPath(slots) ==
  LET given(s) == IF s \in DOMAIN slots THEN slots[s] ELSE <<>>
  IN CASE given("output_path") = <<"TEMPORARY_OUTPUT">> -> <<>>
       [] given("output_path") \notin {<<>>, <<"TEMPORARY_OUTPUT">>} -> given("output_path")
       [] /\ given("output_path") = <<>> /\ <<>> \notin {given("output_dir"), given("output_format")}
          /\ Format(given("output_format")[1]) \in ExportFormats ->
            given("output_dir") \o OrDefaultName(Stem(given("file_name"))) \o <<Format(given("output_format")[1])>>
       [] OTHER -> <<>>

\* Where no path comes of it, a patch of the path is dropped.
PlanFromSlotPatch(pending, patch) ==
  LET slots == Merged(pending.filled, patch)
      path  == ComposeExportPath(slots)
      rest  == [s \in DOMAIN patch \ {"output_path"} |-> patch[s]]
  IN IF pending.intent # "export_result" THEN Plan(pending.intent, slots)
     ELSE Plan(pending.intent, IF path = <<>> THEN Merged(pending.filled, rest)
                               ELSE Merged(slots, [output_path |-> path]))

\* A slot the patch empties is left out of it, and keeps the value it had.
RepairPatch(pending) ==
  LET patch == pending.repair.patch IN [s \in {t \in DOMAIN patch : patch[t] # <<>>} |-> patch[s]]

\* The original action of a confirmed repair.
RepairedPlan(pending) == Plan(pending.intent, Merged(pending.filled, RepairPatch(pending)))

IsClarificationPending(pending) ==
  pending.source \in {"proactive_clarification", "missing_slot_validation"}

\* _schema_ready_value: <<>> is a blank, an empty list, or a layer where a list should be.
SchemaReady(schema, slot, value) ==
  value # <<>> /\ (slot \in schema.formats => \E f \in ExportFormats : value = <<f>>)

\* _validated_patch; <<>> is the refusal.
ValidatedPatch(pending, patch) ==
  LET kept == [s \in DOMAIN patch \cap pending.schema.may |-> patch[s]]
  IN IF pending.schema.may = {} THEN patch
     ELSE IF /\ pending.schema.must \subseteq DOMAIN kept
             /\ \A s \in DOMAIN kept : SchemaReady(pending.schema, s, kept[s])
     THEN kept ELSE <<>>

ResumeAllowed(pending, action) == pending # NoPending /\ action \in pending.allowed

\* alias_repaired_layer_refs: the old reference, id and name of the layer that
\* was repaired now lead to the repaired one.
AliasOld(tree, old, original, repaired) ==
  IF original = None \/ repaired = None THEN tree
  ELSE SetAliases(tree, {old, LayerId(original), tree.layers[original].name}, LayerId(repaired))

AliasSlot(tree, pending, slot) ==
  LET old == IF slot \in DOMAIN pending.filled THEN pending.filled[slot] ELSE <<>>
      new == RepairPatch(pending)[slot]
  IN IF old \in {<<>>, new} THEN tree
     ELSE AliasOld(tree, old, Resolve(tree, old), Resolve(tree, new))

\* No repair patches more than one layer.
AliasRepairedLayers(tree, pending) ==
  LET slots == DOMAIN RepairPatch(pending) \cap LayerSlots
  IN IF slots = {} THEN tree ELSE AliasSlot(tree, pending, CHOOSE slot \in slots : TRUE)
=============================================================================
