------------------------------ MODULE AgentTurn ------------------------------
(***************************************************************************)
(* One session's agent, turn after turn: the ReAct loop over the rules and *)
(* the tools (orchestration/agent, execution, meta), the pauses it ends    *)
(* in, and the turns that answer them (orchestration/resume).              *)
(*                                                                         *)
(* The model's choice of an action is any plan of the world.  One action   *)
(* is one iteration of the loop, up to its poll for pause and cancel.  The *)
(* steps are those of the turn: the next turn restores the state tree and  *)
(* the pending task, but no step, since results carry no react_trace.      *)
(***************************************************************************)
EXTENDS ValidationGate, Toolbox

\* What a session starts from and may meet: its layers and the files on disk,
\* the plans the model may choose, the requests, slot patches and questions,
\* and the bounds on turns and on steps of a turn.
CONSTANT Worlds    \* by name

\* Slots hold lists of words, and nobody guesses the id of a layer that is to come.
FitSlots(slots, t) == ListValues(slots) /\ RefsDrawn(slots, Len(t.layers))
FitChoice(c, t) == IsList(c.value) /\ RefsDrawn([s \in {c.slot} |-> c.value], Len(t.layers))

\* A saved tree is whole, and a path on disk is not empty.
ASSUME WorldsAssumption ==
  \A w \in DOMAIN Worlds :
    LET t == Worlds[w].tree IN
    /\ <<>> \notin Worlds[w].files
    /\ IsTree(t) /\ IdsDrawn(t) /\ Worlds[w].turns \in Nat
    /\ \A p \in Worlds[w].plans : FitSlots(p.input, t)
    /\ \A patch \in Worlds[w].patches : FitSlots(patch, t)
    /\ \A q \in Worlds[w].questions : FitSlots(q.filled, t) /\ \A c \in q.choices : FitChoice(c, t)

VARIABLES
  world,     \* the one this session lives in
  tree,      \* GISStateTree
  files,     \* paths that exist among those the user names
  steps,     \* the ReAct steps of this turn
  pending,   \* the pending task of the last result
  status,    \* the status of the last result, "running" during a turn
  mode,      \* "idle", "loop" or "repair": who executes
  todo,      \* repair steps still to run before the original action
  request,   \* the request the loop works on
  stop,      \* what the user asked of the running turn: "", "pause", "cancel"
  grace,     \* tools that may still run after that
  turn

agentVars == <<world, tree, files, steps, pending, status, mode, todo, request, stop, grace, turn>>

Here == Worlds[world]

NoRequest == [export |-> FALSE, auto_repair |-> TRUE, blank |-> FALSE]

AgentInit ==
  /\ world \in DOMAIN Worlds
  /\ tree = FromDict(Here.tree)
  /\ files = Here.files
  /\ steps = <<>> /\ pending = NoPending /\ status = "" /\ mode = "idle" /\ todo = <<>>
  /\ request = NoRequest /\ stop = "" /\ grace = 0 /\ turn = 0

-----------------------------------------------------------------------------
(* Steps of a turn, and what is remembered of them (execution_memory.py)   *)

\* Mutant: a step is told by its parameters, not by its layers.
SignatureOfDistance(action) == IF action = "buffer_layer" THEN {"distance"} ELSE {}

SignatureFields(action) ==
  CASE action = "csv_to_points"       -> {"input_ref", "x_field", "y_field", "crs"}
    [] action = "reproject_layer"     -> {"input_ref", "target_crs"}
    [] action = "buffer_layer"        -> {"input_ref", "distance", "unit", "dissolve", "segments"}
    [] action \in {"clip_layer", "intersect_layer", "difference_layer", "union_layer"}
                                      -> {"input_ref", "overlay_ref"}
    [] action = "extract_by_location" -> {"input_ref", "intersect_ref", "predicate"}
    [] action = "join_by_location"    -> {"input_ref", "join_ref", "predicate", "join_fields"}
    [] action = "join_by_nearest"     -> {"input_ref", "join_ref", "neighbors", "max_distance"}
    [] action = "fix_geometries"      -> {"input_ref"}
    [] action = "export_result"       -> {"layer_ref", "output_path"}
    [] OTHER                          -> {}

\* action_signature: the references as they were written.
Signature(p) ==
  LET slots == {s \in SignatureFields(p.action) : Slot(p, s) # <<>>}
  IN [s \in slots |-> Slot(p, s)]

HasSignature(p) == DOMAIN Signature(p) # {}

SameWork(s, p) == s.ok /\ s.plan.action = p.action /\ Signature(s.plan) = Signature(p)

HasCompleted(p) == HasSignature(p) /\ \E k \in DOMAIN steps : SameWork(steps[k], p)

RecordFor(p) == steps[Min({k \in DOMAIN steps : SameWork(steps[k], p)})]

\* A reference that is the id or the name of the layer it leads to.
LeadsHome(t, ref) ==
  /\ ref \in DOMAIN t.aliases \ (LatestRefs \cup FinalRefs)
  /\ ref \in CandidateAliases(t.layers[t.aliases[ref]], t.aliases[ref])

\* A step, with what it was about when it was taken: the layers its references
\* led to and whether it named them, whether a file was written over, and whether a
\* repair's output has a name that leads elsewhere.  Of a confirmed action: whether
\* the objection to it is gone (cured).
Step(p, how, res, before) ==
  [plan |-> p, how |-> how, ok |-> res.ok, out |-> res.out, inputs |-> InputLayers(p, before),
   grounded |-> \A ref \in ToSet(InputRefs(p)) : LeadsHome(before, ref),
   cured |-> TRUE,
   over |-> res.ok /\ res.path \in files,
   reused |-> how = "repair" /\ OutputName(p) \in DOMAIN before.aliases]

Takes(step) == steps' = Append(steps, step) /\ grace' = IF stop = "" THEN grace ELSE grace - 1

\* execute_action_step: run the tool, record what it observed.
RunTool(p, how, res) ==
  /\ tree' = res.tree /\ files' = res.files
  /\ Takes(Step(p, how, res, tree))

\* A step that asks no tool.
Record(p, how, ok, out) ==
  /\ steps' = Append(steps, Step(p, how, Result(ok, tree, files, out, <<>>), tree))
  /\ UNCHANGED <<tree, files, grace>>

\* Mutant: what was to be run stays to be run.
EndTurnKeepsTodo(result, task) == status' = result /\ pending' = task /\ mode' = "idle" /\ UNCHANGED todo

EndTurn(result, task) == status' = result /\ pending' = task /\ mode' = "idle" /\ todo' = <<>>

\* Mutant: a pause is not polled.
PolledForCancel ==
  /\ IF stop # "cancel" THEN UNCHANGED <<status, pending, mode, todo>> ELSE EndTurn("cancelled", NoPending)
  /\ UNCHANGED <<world, request, stop, turn>>

\* try_pause: a cancellation goes before a pause.
Polled ==
  /\ IF stop = "" THEN UNCHANGED <<status, pending, mode, todo>>
     ELSE EndTurn(IF stop = "cancel" THEN "cancelled" ELSE "paused", NoPending)
  /\ UNCHANGED <<world, request, stop, turn>>

-----------------------------------------------------------------------------
(* The loop (react_loop.py)                                                *)

MetaActions == {"select_toolkit", "inspect_workspace", "suggest_skill", "load_skill", "proactive_clarification"}

IsMeta(p) == p.action \in MetaActions

Chooses(p) == mode = "loop" /\ Len(steps) < Here.steps /\ p \in Here.plans

\* The iterations that end the turn without a poll leave the rest alone.
Ends(result, task) == EndTurn(result, task) /\ UNCHANGED <<world, request, stop, turn>>

SelectionFails ==
  /\ mode = "loop"
  /\ Ends("failed", NoPending)
  /\ UNCHANGED <<tree, files, steps, grace>>

MetaContinues(p) ==
  /\ Chooses(p) /\ IsMeta(p) /\ p.action # "proactive_clarification"
  /\ Record(p, "meta", TRUE, None)
  /\ Polled

MetaFailsHard(p) ==
  /\ Chooses(p) /\ IsMeta(p)
  /\ Record(p, "meta", FALSE, None)
  /\ Ends("failed", NoPending)

MetaAsks(p, q) ==
  /\ Chooses(p) /\ p.action = "proactive_clarification" /\ q \in Here.questions
  /\ Record(p, "meta", TRUE, None)
  /\ Ends("awaiting_user", ClarificationTask(q))

\* DuplicateActionGuard.handle comes before the rules.
IsDuplicate(p) == ~IsMeta(p) /\ p.action # "final_answer" /\ HasCompleted(p)

DuplicateSkipped(p) ==
  /\ Chooses(p) /\ IsDuplicate(p)
  /\ Record(p, "skip", TRUE, RecordFor(p).out)
  /\ Polled

Pauses(task) == Ends(task.state, task) /\ UNCHANGED <<tree, files, steps, grace>>

\* result_quality_gate.py: outputs are collected from the state tree.  What it says of
\* warnings never blocks.
FinalOutputs == {i \in DOMAIN tree.layers : tree.layers[i].act = "export_result"}

MissingFinalOutput == request.export /\ FinalOutputs = {}

\* Features are not counted here: any layer but a raster may turn out to have none.
MayBeEmpty == request.export /\ \E i \in FinalOutputs : tree.layers[i].kind # "raster"

GateBlocked == \E k \in DOMAIN steps : steps[k].how = "gate"

QualityBlocks(p) ==
  /\ p.action = "final_answer" /\ (MissingFinalOutput \/ MayBeEmpty) /\ ~GateBlocked
  /\ Record(p, "gate", FALSE, None)
  /\ Polled

FinalAnswer(p) ==
  /\ p.action = "final_answer" /\ ~(MissingFinalOutput /\ ~GateBlocked)
  /\ Ends("completed", NoPending)
  /\ UNCHANGED <<tree, files, steps, grace>>

\* With auto_repair a failure is told to the model, which chooses again.
ToolStep(p) ==
  /\ p.action # "final_answer"
  /\ \E res \in Outcomes(p, tree, files) :
       /\ RunTool(p, "loop", res)
       /\ IF res.ok \/ request.auto_repair THEN Polled ELSE Ends("failed", NoPending)

\* What is neither a meta action nor done already meets the rules first.
Heeds(p, issues) ==
  \/ issues # <<>> /\ Pauses(PauseForIssues(p, issues, tree))
  \/ issues = <<>> /\ (QualityBlocks(p) \/ FinalAnswer(p) \/ ToolStep(p))

Judged(p) ==
  /\ Chooses(p) /\ ~IsMeta(p) /\ ~IsDuplicate(p)
  /\ Heeds(p, HardIssues(p, tree, files))

-----------------------------------------------------------------------------
(* Turns                                                                   *)

TurnStarts == mode = "idle" /\ turn < Here.turns /\ turn' = turn + 1 /\ stop' = "" /\ grace' = 0

\* RunLifecycle.start over the restored state.
StartLoop(r) ==
  /\ TurnStarts
  /\ tree' = FromDict(tree)
  /\ steps' = <<>> /\ pending' = NoPending /\ status' = "running" /\ mode' = "loop" /\ todo' = <<>>
  /\ request' = r
  /\ UNCHANGED <<world, files>>

\* A message to a session that waits for a confirmation is a new request.
NewTurn(r) == status # "awaiting_user" /\ r \in Here.requests /\ StartLoop(r)

RequestStop(how) ==
  /\ mode # "idle" /\ stop \in {"", "pause"} /\ stop # how
  /\ stop' = how
  /\ grace' = IF stop # "" THEN grace ELSE IF mode = "loop" THEN 1 ELSE Len(todo) + 2
  /\ UNCHANGED <<world, tree, files, steps, pending, status, mode, todo, request, turn>>

-----------------------------------------------------------------------------
(* A confirmed repair (repair_resume_handler.py): nothing is validated, and *)
(* nothing polled before the loop goes on.                                 *)

Confirm ==
  /\ ResumeAllowed(pending, "confirm") /\ HasRepair(pending)
  /\ TurnStarts
  /\ tree' = FromDict(tree)
  /\ steps' = <<>> /\ status' = "running" /\ mode' = "repair" /\ todo' = pending.repair.steps
  /\ UNCHANGED <<world, files, pending, request>>

RepairStep ==
  /\ mode = "repair" /\ todo # <<>>
  /\ \E res \in Outcomes(Head(todo), tree, files) :
       /\ RunTool(Head(todo), "repair", res)
       /\ IF res.ok THEN todo' = Tail(todo) /\ UNCHANGED <<status, pending, mode>>
                    ELSE EndTurn("failed", NoPending)
  /\ UNCHANGED <<world, request, stop, turn>>

ConfirmedStep(p, res, aliased) ==
  [Step(p, "confirmed", res, aliased) EXCEPT
     !.cured = \A i \in ToSet(Validate(p, aliased, files)) : i.code # pending.question[1]]

\* The loop goes on with the request, if it has words, and the steps of the repair.
RunOriginal(p, aliased) ==
  \E res \in Outcomes(p, aliased, files) :
    /\ tree' = res.tree /\ files' = res.files
    /\ Takes(ConfirmedStep(p, res, aliased))
    /\ CASE ~res.ok                  -> EndTurn("failed", NoPending)
         [] res.ok /\ request.blank  -> EndTurn("completed", NoPending)
         [] res.ok /\ ~request.blank -> pending' = NoPending /\ mode' = "loop" /\ UNCHANGED <<status, todo>>

Original ==
  /\ mode = "repair" /\ todo = <<>>
  /\ RunOriginal(RepairedPlan(pending), AliasRepairedLayers(tree, pending))
  /\ UNCHANGED <<world, request, stop, turn>>

-----------------------------------------------------------------------------
(* Answers (resume_controller.py, clarification_resume_handler.py): a turn  *)
(* in one action, which no stop request reaches.                           *)

\* TurnRunner gives a resumed turn the state tree of the run it resumes.
Restored == FromDict(tree)

Answered(t, s, result, task) ==
  /\ TurnStarts
  /\ tree' = t /\ steps' = s /\ EndTurn(result, task)
  /\ UNCHANGED <<world, request>>

\* ResumedPlanExecutor.validate_or_execute
AskWith(task) == Answered(Restored, <<>>, task.state, task) /\ UNCHANGED files

ExecuteResumed(p, before) ==
  \E res \in Outcomes(p, before, files) :
    /\ Answered(res.tree, <<Step(p, "resume", res, before)>>,
                IF res.ok THEN "completed" ELSE "failed", NoPending)
    /\ files' = res.files

HeedsResumed(p, before, issues) ==
  CASE p.action = "final_answer" -> Answered(before, <<>>, "completed", NoPending) /\ UNCHANGED files
    [] p.action # "final_answer" /\ issues # <<>> -> AskWith(PauseResumedPlan(p, issues, before))
    [] OTHER -> ExecuteResumed(p, before)

ValidateOn(p, before) == HeedsResumed(p, before, HardIssues(p, before, files))

ValidateOrExecute(p) == ValidateOn(p, Restored)

\* A clarification takes only a patch that fits its schema.
ResumeWithPatch(patch) ==
  LET valid == IF IsClarificationPending(pending) THEN ValidatedPatch(pending, patch) ELSE patch
  IN IF valid = <<>> THEN AskWith(ClarifiedAgain(pending))
     ELSE ValidateOrExecute(PlanFromSlotPatch(pending, valid))

\* A plain message is an answer whatever the task allows.
Replies == status = "awaiting_user" /\ pending # NoPending

ChosenPatches == IF IsClarificationPending(pending) THEN {[s \in {c.slot} |-> c.value] : c \in pending.choices} ELSE {}

\* A patch comes from a form,
Patch(patch) ==
  /\ ResumeAllowed(pending, "patch") /\ patch \in Here.patches
  /\ ResumeWithPatch(patch)

\* or is what a message is taken to mean.
ReplyPatches(patch) ==
  /\ Replies /\ patch \in Here.patches \cup ChosenPatches
  /\ ResumeWithPatch(patch)

ReplyReplans(p) ==
  /\ Replies /\ ~IsClarificationPending(pending) /\ p \in Here.plans
  /\ ValidateOrExecute(p)

ReplyNotUnderstood ==
  /\ Replies
  /\ AskWith(IF IsClarificationPending(pending) THEN ClarifiedAgain(pending)
              ELSE AskedAgain(pending, pending.question, AllowedResumeActions("awaiting_user")))

Reject ==
  /\ ResumeAllowed(pending, "reject")
  /\ AskWith(AskedAgain(pending, <<"rejected">>, {"cancel", "replan"}))

CancelTask ==
  /\ ResumeAllowed(pending, "cancel")
  /\ Answered(Restored, <<>>, "cancelled", NoPending) /\ UNCHANGED files

\* It needs words; a message may be blank.
Replan(r) == ResumeAllowed(pending, "replan") /\ r \in Here.requests /\ ~r.blank /\ StartLoop(r)

-----------------------------------------------------------------------------
LoopNext ==
  \/ SelectionFails
  \/ \E p \in Here.plans :
       \/ MetaContinues(p) \/ MetaFailsHard(p) \/ DuplicateSkipped(p) \/ Judged(p)
       \/ \E q \in Here.questions : MetaAsks(p, q)

AnswerNext ==
  \/ Confirm \/ Reject \/ CancelTask \/ ReplyNotUnderstood
  \/ \E patch \in Here.patches \cup ChosenPatches : Patch(patch) \/ ReplyPatches(patch)
  \/ \E p \in Here.plans : ReplyReplans(p)
  \/ \E r \in Here.requests : Replan(r)

AgentNext ==
  \/ LoopNext \/ AnswerNext \/ RepairStep \/ Original
  \/ \E r \in Here.requests : NewTurn(r)
  \/ \E how \in {"pause", "cancel"} : RequestStop(how)

AgentSpec == AgentInit /\ [][AgentNext]_agentVars
-----------------------------------------------------------------------------
(* Properties                                                              *)

\* The aliases lead to layers, a turn that waits has its task, and only a
\* running turn has repair steps left.
AgentTypeOK ==
  /\ world \in DOMAIN Worlds /\ turn \in 0..Here.turns
  /\ \A a \in DOMAIN tree.aliases : tree.aliases[a] \in DOMAIN tree.layers
  /\ mode \in {"idle", "loop", "repair"} /\ stop \in {"", "pause", "cancel"}
  /\ (status = "running") = (mode # "idle")
  /\ mode = "idle" => pending.state = (IF pending = NoPending THEN "" ELSE status)
  /\ todo # <<>> => mode = "repair"

\* What no reprojection cures: a buffer whose own target CRS is in degrees, and a
\* pair whose input is told as what was before a layer, which may be the new one.
BeyondRepair(p) ==
  \/ p.action = "buffer_layer" /\ CrsOf(p, "target_crs", RecommendedCrs) \in GeographicCrs
  \/ OverlaySlot(p.action) # "" /\ ParsePhrase(Slot(p, PairInput(p.action))).relation = "predecessor"

\* A repair the user confirmed cures what it was asked for: when the original
\* action runs (unvalidated), the objection that paused it is gone.  It may miss
\* only what is beyond repair, and if a repair's output took a name that already
\* led to an older layer (repair_resume_handler.py: the patch refers to the output
\* by its name).
ConfirmedIsCured ==
  \A k \in DOMAIN steps :
    steps[k].cured \/ BeyondRepair(steps[k].plan) \/ \E j \in 1..k : steps[j].reused

\* A step skipped as a duplicate would have worked on the layers the remembered
\* step worked on ("the same grounded inputs already succeeded").  Signatures
\* hold references as text, so this can be said only of references that are
\* the id or the name of their layer: "latest" means another layer by now, and
\* so does a name a repair has moved.
DuplicateSkipsSameWork ==
  \A k \in DOMAIN steps :
    LET original == steps[Min({j \in 1..k : SameWork(steps[j], steps[k].plan)})] IN
    steps[k].how = "skip" /\ steps[k].grounded /\ original.grounded =>
      steps[k].inputs = original.inputs

\* A file that exists is written over only by an action the user let overwrite.
\* The rule looks at the path as it is written: an export completes a path that
\* has no suffix after the rule let it pass.
OverwriteOnlyConfirmed ==
  \A k \in DOMAIN steps : steps[k].over =>
    \/ Slot(steps[k].plan, "overwrite") # <<>>
    \/ steps[k].plan.action = "export_result" /\ ToSet(Slot(steps[k].plan, "output_path")) \cap PathSuffixes = {}

\* After a request to pause or to cancel the loop runs at most the tool it is at;
\* a confirmed repair also finishes its steps and its original action.
StopIsPrompt == grace >= 0


\* A name keeps the layer it leads to for as long as the session lives, and only
\* a confirmed repair moves it: to a layer the repaired action works on, unless the
\* repair's output took a name that already led elsewhere.
NamesStay ==
  [][\A a \in DOMAIN tree.aliases :
       /\ a \in DOMAIN tree'.aliases
       /\ tree'.aliases[a] # tree.aliases[a] =>
            /\ Last(steps').how = "confirmed"
            /\ \/ tree'.aliases[a] \in ToSet(Last(steps').inputs)
               \/ \E k \in DOMAIN steps' : steps'[k].reused]_agentVars
=============================================================================
