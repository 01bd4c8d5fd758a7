-------------------------- MODULE SessionWorkspace --------------------------
(***************************************************************************)
(* The files of a session's workspace: what its tools write (the output    *)
(* resolver, the QGIS toolbox) and artifacts.json, the index of it         *)
(* (core/artifacts.py).  Every turn works on its own copy of the index,    *)
(* read when its toolbox is made and when its run starts, and writes the   *)
(* copy over the file at every registration.                               *)
(*                                                                         *)
(* A registration opens the file, which empties it, and then writes: two   *)
(* actions.  A tool looks for a free path, and writes it later.            *)
(***************************************************************************)
EXTENDS Naturals, FiniteSets, FiniteSetsExt, SequencesExt

CONSTANTS
  Worker,     \* the turns that use the workspace: numbers, in the order they begin
  TempName,   \* what a tool may call its output
  Given,      \* paths a user may ask for
  Room        \* by name, how much may happen: workers, workers at a time (overlap),
              \* layers of each, writes that break off (breaks)

VARIABLES
  file,     \* artifacts.json: its records, if it can be read
  disk,     \* by path that exists: the layer it holds
  made,     \* by layer: where it is, what it was made from, how it came about
  workers,  \* by turn: where it is, its copy of the index, the tool it runs
  broken,   \* by write that broke off: the layers on record, or to be recorded
  room      \* the bounds of this workspace

workspaceVars == <<file, disk, made, workers, broken, room>>

Size == Room[room]

Nothing == <<>>

\* The function f with v at x.
With(f, x, v) == [y \in DOMAIN f \cup {x} |-> IF y = x THEN v ELSE f[y]]

NoWorker == [at |-> "idle", index |-> <<>>, pc |-> "ready", layer |-> Nothing, left |-> 0,
             count |-> 0, mixed |-> FALSE, before |-> {}]

WorkspaceInit ==
  /\ file = [whole |-> TRUE, records |-> <<>>]
  /\ disk = Nothing /\ made = Nothing /\ broken = <<>>
  /\ workers = [t \in Worker |-> NoWorker]
  /\ room \in DOMAIN Room

-----------------------------------------------------------------------------
(* ArtifactIndex                                                           *)

\* A file that is no JSON is an empty index.
Load == IF file.whole THEN file.records ELSE <<>>

\* Mutant: two layers of one file are one record.
KeyOfPath(record) == <<record.path>>

\* _record_key; the role of a layer never changes.
Key(record) == <<record.path, record.layer>>

\* The newest first.
FindRecord(index, layer) ==
  LET found == {k \in DOMAIN index : index[k].layer = layer}
  IN IF found = {} THEN Nothing ELSE index[Max(found)]

Upsert(index, record) ==
  IF \E k \in DOMAIN index : Key(index[k]) = Key(record)
    THEN [k \in DOMAIN index |-> IF Key(index[k]) = Key(record) THEN record ELSE index[k]]
    ELSE Append(index, record)

\* Mutant: register_layer without the look at the id the record has.
RegisterLayerAnew(index, layer, newId) ==
  LET parent == FindRecord(index, made[layer].parent)
  IN Upsert(index,
       [layer |-> layer, path |-> made[layer].path, id |-> newId,
        inputs |-> IF parent = Nothing THEN {} ELSE {parent.id}])

\* register_layer: the id it had, and the artifact of the layer it was made from.
RegisterLayer(index, layer, newId) ==
  LET path   == made[layer].path
      had    == {k \in DOMAIN index : Key(index[k]) = <<path, layer>>}
      parent == FindRecord(index, made[layer].parent)
  IN Upsert(index,
       [layer |-> layer, path |-> path, id |-> IF had = {} THEN newId ELSE index[Min(had)].id,
        inputs |-> IF parent = Nothing THEN {} ELSE {parent.id}])

-----------------------------------------------------------------------------
(* A turn's tools                                                          *)

Busy == {t \in Worker : workers[t].at \notin {"idle", "done"}}

\* TurnRunner makes the toolbox, with the index there is.
Make(t) ==
  /\ workers[t].at = "idle" /\ \A u \in Worker : u < t => workers[u].at # "idle"
  /\ t <= Size.workers /\ Cardinality(Busy) < Size.overlap
  /\ workers' = [workers EXCEPT ![t] = [NoWorker EXCEPT
       !.at = "made", !.index = Load, !.before = {u \in Worker : workers[u].at = "done"}]]
  /\ UNCHANGED <<file, disk, made, broken, room>>

\* set_session_id, when the run starts: the index is read again.
Start(t) ==
  /\ workers[t].at = "made" /\ workers[t].pc = "ready"
  /\ workers' = [workers EXCEPT ![t].at = "running", ![t].index = Load]
  /\ UNCHANGED <<file, disk, made, broken, room>>

\* The layers of the state tree: of the turns before, and the turn's own.
InTree(t) == {layer \in DOMAIN made : made[layer].artifact # Nothing /\ layer[1] \in workers[t].before \cup {t}}

Ready(t) == workers[t].pc = "ready" /\ workers[t].count < Size.layers[t]

\* A tool begins on a layer, to be registered so many times: by the toolbox, and by
\* the hook after the tool.
Begins(t, pc, path, parent, asked, times) ==
  LET layer == <<t, workers[t].count + 1>>
  IN /\ made' = With(made, layer, [path |-> path, parent |-> parent, asked |-> asked,
                                       after |-> disk, artifact |-> Nothing, saved |-> FALSE])
     /\ workers' = [workers EXCEPT ![t].pc = pc, ![t].layer = layer, ![t].left = times, ![t].count = @ + 1]
     /\ UNCHANGED <<file, disk, broken, room>>

\* A source is preloaded before the run starts, or loaded by a tool.
LoadSource(t) ==
  /\ Ready(t) /\ workers[t].at \in {"made", "running"}
  /\ Begins(t, "register", <<"source">>, Nothing, FALSE, IF workers[t].at = "made" THEN 1 ELSE 2)

\* Mutant: without a look at the disk.
AvailablePathUnchecked(number, name) == <<number, name, 1>>

\* next_temp_output_path: numbered from one in every turn, with a suffix if it exists.
AvailablePath(number, name) ==
  <<number, name, Min({k \in 1..(Cardinality(DOMAIN disk) + 1) : <<number, name, k>> \notin DOMAIN disk})>>

ChooseTemp(t, name, parent) ==
  /\ Ready(t) /\ workers[t].at = "running" /\ parent \in InTree(t)
  /\ LET number == 1 + Cardinality({layer \in DOMAIN made : layer[1] = t /\ Len(made[layer].path) = 3})
     IN Begins(t, "computing", AvailablePath(number, name), parent, FALSE, 2)

\* A path the user named: one that exists only if the user confirmed it.
ChooseGiven(t, path, parent) ==
  /\ Ready(t) /\ workers[t].at = "running" /\ parent \in InTree(t)
  /\ Begins(t, "computing", <<path>>, parent, <<path>> \in DOMAIN disk, 2)

Compute(t) ==
  /\ workers[t].pc = "computing"
  /\ LET layer == workers[t].layer IN disk' = With(disk, made[layer].path, layer)
  /\ workers' = [workers EXCEPT ![t].pc = "register"]
  /\ UNCHANGED <<file, made, broken, room>>

ComputeFails(t) ==
  /\ workers[t].pc = "computing"
  /\ workers' = [workers EXCEPT ![t].pc = "ready"]
  /\ UNCHANGED <<file, disk, made, broken, room>>

-----------------------------------------------------------------------------
(* Registrations                                                           *)

\* register_layer up to the opening of the file.
BeginSave(t) ==
  /\ workers[t].pc = "register"
  /\ LET layer == workers[t].layer
         index == RegisterLayer(workers[t].index, layer, <<layer, workers[t].left>>)
     IN /\ workers' = [workers EXCEPT ![t].index = index, ![t].pc = "saving", ![t].mixed = FALSE]
        /\ made' = IF made[layer].artifact # Nothing THEN made
                     ELSE [made EXCEPT ![layer].artifact = FindRecord(index, layer).id]
  /\ file' = [whole |-> FALSE, records |-> <<>>]
  /\ UNCHANGED <<disk, broken, room>>

Goes(t) == [workers[t] EXCEPT !.left = @ - 1, !.pc = IF workers[t].left = 1 THEN "ready" ELSE "register"]

\* The copy is written; over what another turn wrote since the file was opened it may
\* leave a tail of that.
EndSave(t, whole) ==
  /\ workers[t].pc = "saving" /\ (whole \/ workers[t].mixed)
  /\ file' = [whole |-> whole, records |-> IF whole THEN workers[t].index ELSE <<>>]
  /\ made' = [made EXCEPT ![workers[t].layer].saved = TRUE]
  /\ workers' = [u \in Worker |-> IF u = t THEN Goes(t)
                                  ELSE [workers[u] EXCEPT !.mixed = @ \/ workers[u].pc = "saving"]]
  /\ UNCHANGED <<disk, broken, room>>

Recorded == {layer \in DOMAIN made : made[layer].saved}

\* The disk is full: the turn goes on with its copy.
SaveFails(t) ==
  /\ workers[t].pc = "saving" /\ Len(broken) < Size.breaks
  /\ broken' = Append(broken, Recorded \cup {workers[t].layer})
  /\ workers' = [workers EXCEPT ![t] = Goes(t)]
  /\ UNCHANGED <<file, disk, made, room>>

\* The backend restarts: what was being written stays as it is.
Restart ==
  /\ Busy # {} /\ Len(broken) < Size.breaks
  /\ LET cut == {workers[t].layer : t \in {u \in Busy : workers[u].pc = "saving"}}
     IN broken' = Append(broken, IF cut = {} THEN {} ELSE Recorded \cup cut)
  /\ workers' = [t \in Worker |-> IF t \in Busy THEN [workers[t] EXCEPT !.at = "done", !.pc = "ready"] ELSE workers[t]]
  /\ UNCHANGED <<file, disk, made, room>>

\* write_final_report: a file of its own, registered once.
WriteReport(t) ==
  /\ Ready(t) /\ workers[t].at = "running"
  /\ LET layer == <<t, workers[t].count + 1>>
     IN /\ made' = With(made, layer, [path |-> <<"report", t>>, parent |-> Nothing, asked |-> FALSE,
                                          after |-> disk, artifact |-> Nothing, saved |-> FALSE])
        /\ disk' = With(disk, <<"report", t>>, layer)
        /\ workers' = [workers EXCEPT ![t].at = "closing", ![t].pc = "register", ![t].layer = layer,
                                      ![t].left = 1, ![t].count = @ + 1]
  /\ UNCHANGED <<file, broken, room>>

Finish(t) ==
  /\ workers[t].at \in {"running", "closing"} /\ workers[t].pc = "ready"
  /\ workers' = [workers EXCEPT ![t].at = "done"]
  /\ UNCHANGED <<file, disk, made, broken, room>>

WorkspaceNext ==
  \/ Restart
  \/ \E t \in Worker :
       \/ Make(t) \/ Start(t) \/ LoadSource(t) \/ Compute(t) \/ ComputeFails(t)
       \/ \E parent \in InTree(t) : \/ \E name \in TempName : ChooseTemp(t, name, parent)
                                    \/ \E path \in Given : ChooseGiven(t, path, parent)
       \/ BeginSave(t) \/ \E whole \in BOOLEAN : EndSave(t, whole)
       \/ SaveFails(t) \/ WriteReport(t) \/ Finish(t)

WorkspaceSpec == WorkspaceInit /\ [][WorkspaceNext]_workspaceVars
-----------------------------------------------------------------------------
(* Properties                                                              *)

Overlapped(u, v) ==
  /\ u # v /\ workers[u].at # "idle" /\ workers[v].at # "idle"
  /\ u \notin workers[v].before /\ v \notin workers[u].before

\* What may have taken a layer's record away: a write that broke off after it, or two
\* turns that worked at the same time, not both before the layer's turn.
MayBeLost(layer) ==
  \/ \E k \in DOMAIN broken : layer \in broken[k]
  \/ \E u, v \in Worker : Overlapped(u, v) /\ ~({u, v} \subseteq workers[layer[1]].before)

\* An artifact that was recorded stays on record, for the desktop and for later turns,
\* but for the instant in which the file is being written.
ArtifactsKept ==
  \A layer \in Recorded :
    \/ FindRecord(Load, layer) # Nothing
    \/ \E t \in Worker : workers[t].pc = "saving"
    \/ MayBeLost(layer)

\* A record has the id its layer was given when it was made, which events and
\* the state tree carry, and names the artifact of the layer it was made from
\* unless that had been lost.
LineageKnown ==
  \A k \in DOMAIN Load :
    LET record == Load[k]
        parent == made[record.layer].parent
    IN /\ record.id = made[record.layer].artifact
       /\ record.inputs = (IF parent = Nothing THEN {} ELSE {made[parent].artifact}) \/ MayBeLost(parent)

\* The file of a layer on record holds that layer.  It holds another one's data
\* only if the user confirmed that, or if both had found the path free.
OutputIntact ==
  \A layer \in Recorded :
    LET path  == made[layer].path
        owner == disk[path]
    IN path \in DOMAIN disk =>
         owner = layer \/ made[owner].asked \/ path \notin DOMAIN made[owner].after
=============================================================================
