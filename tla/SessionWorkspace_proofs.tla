----------------------- MODULE SessionWorkspace_proofs -----------------------
(***************************************************************************)
(* Theorems about SessionWorkspace: whatever turns there are and however   *)
(* they interleave, fail or are cut off, an output is written over only    *)
(* with the user's word or by a tool that had found its path free; every   *)
(* record says what is so; and a record is lost only to a write that broke *)
(* off or to turns at work at the same time.                               *)
(***************************************************************************)
EXTENDS SessionWorkspace, FiniteSetTheorems, SequenceTheorems, WellFoundedInduction, TLAPS

-----------------------------------------------------------------------------
(* The outputs: the first inductive invariant                              *)

LayerFields  == {"path", "parent", "asked", "after", "artifact", "saved"}
WorkerFields == {"at", "index", "pc", "layer", "left", "count", "mixed", "before"}

Shapes ==
  /\ made = [l \in DOMAIN made |-> made[l]]
  /\ \A l \in DOMAIN made : DOMAIN made[l] = LayerFields
  /\ workers = [t \in Worker |-> workers[t]]
  /\ \A t \in Worker : DOMAIN workers[t] = WorkerFields /\ workers[t].count \in Nat

\* Layers are numbered by their turn; a turn that has not begun has none.
Numbered ==
  /\ \A t \in Worker : workers[t].at = "idle" => workers[t].pc = "ready" /\ workers[t].count = 0
  /\ \A l \in DOMAIN made : \E t \in Worker, k \in Nat : l = <<t, k>> /\ k <= workers[t].count

IsReport(path) == \E t \in Worker : path = <<"report", t>>

\* When its path was chosen a layer had the user's word, or the path was free.
ChosenWell(l) == made[l].asked = TRUE \/ made[l].path \notin DOMAIN made[l].after

\* What is on the disk was written by the layer it is of.
Owners ==
  /\ IsFiniteSet(DOMAIN disk)
  /\ \A path \in DOMAIN disk :
       disk[path] \in DOMAIN made /\ made[disk[path]].path = path /\ ChosenWell(disk[path])

\* A tool that has not written yet has chosen, and chose no report's path.
Chosen ==
  \A t \in Worker : workers[t].pc = "computing" =>
    /\ workers[t].layer \in DOMAIN made
    /\ ChosenWell(workers[t].layer)
    /\ ~IsReport(made[workers[t].layer].path)

\* A turn writes its report once.
Reports ==
  \A t \in Worker : <<"report", t>> \in DOMAIN disk => workers[t].at \in {"closing", "done"}

IInv == Shapes /\ Numbered /\ Owners /\ Chosen /\ Reports

-----------------------------------------------------------------------------
(* Facts about paths                                                       *)

LEMMA MinOf ==
  ASSUME NEW S \in SUBSET Nat, S # {}
  PROVE  Min(S) \in S
<1> DEFINE R == {ss \in Nat \X Nat : ss[1] < ss[2]}
<1>1. IsWellFoundedOn(R, Nat)
      BY NatLessThanWellFounded DEF OpToRel
<1>2. PICK x \in S : \A y \in S : ~(<<y, x>> \in R)
  <2> HIDE DEF R
  <2> QED BY <1>1, WFMin
<1>3. \A y \in S : ~(y < x)
      BY <1>2
<1>4. \A y \in S : x <= y
      BY <1>3
<1> QED BY <1>4 DEF Min

\* One of so many suffixes is free, since the disk holds fewer paths.
LEMMA PathIsFree ==
  ASSUME NEW number, NEW name, IsFiniteSet(DOMAIN disk)
  PROVE  AvailablePath(number, name) \notin DOMAIN disk /\ ~IsReport(AvailablePath(number, name))
<1> DEFINE n == Cardinality(DOMAIN disk)
           Free == {k \in 1..(n + 1) : <<number, name, k>> \notin DOMAIN disk}
           f == [k \in 1..(n + 1) |-> <<number, name, k>>]
<1>1. n \in Nat
      BY FS_CardinalityType
<1>2. Free # {}
  <2> SUFFICES ASSUME Free = {} PROVE FALSE
      OBVIOUS
  <2>1. f \in [1..(n + 1) -> DOMAIN disk]
        OBVIOUS
  <2>2. IsFiniteSet(1..(n + 1)) /\ Cardinality(1..(n + 1)) = n + 1
    <3>1. 1 \in Int /\ n + 1 \in Int /\ ~(1 > n + 1) /\ (n + 1) - 1 + 1 = n + 1
          BY <1>1
    <3> QED BY <3>1, FS_Interval
  <2>3. n < n + 1
        BY <1>1
  <2>4. PICK x \in 1..(n + 1), y \in 1..(n + 1) : x # y /\ f[x] = f[y]
    <3> DEFINE S == 1..(n + 1)
               T == DOMAIN disk
    <3>1. /\ IsFiniteSet(S) /\ IsFiniteSet(T) /\ Cardinality(T) < Cardinality(S)
          /\ f \in [S -> T]
          BY <2>1, <2>2, <2>3
    <3> HIDE DEF f, S, T
    <3>2. \E x, y \in S : x # y /\ f[x] = f[y]
          BY <3>1, FS_PigeonHole
    <3> QED BY <3>2 DEF S
  <2>5. <<number, name, x>> = <<number, name, y>>
        BY <2>4
  <2> QED BY <2>4, <2>5
<1>3. Free \in SUBSET Nat
      BY <1>1
<1>4. Min(Free) \in Free
  <2> HIDE DEF Free
  <2> QED BY <1>2, <1>3, MinOf
<1>5. AvailablePath(number, name) = <<number, name, Min(Free)>>
      BY DEF AvailablePath
<1>6. ASSUME NEW t PROVE <<number, name, Min(Free)>> # <<"report", t>>
  <2> DEFINE m == Min(Free)
  <2>1. Len(<<number, name, m>>) = 3 /\ Len(<<"report", t>>) = 2
        OBVIOUS
  <2> QED BY <2>1
<1> QED BY <1>4, <1>5, <1>6 DEF IsReport

-----------------------------------------------------------------------------
(* Steps                                                                   *)

LEMMA InitIInv == WorkspaceInit => IInv
<1> SUFFICES ASSUME WorkspaceInit PROVE IInv
    OBVIOUS
<1>1. DOMAIN disk = {} /\ DOMAIN made = {} /\ workers = [t \in Worker |-> NoWorker]
      BY DEF WorkspaceInit, Nothing
<1>2. made = [l \in DOMAIN made |-> made[l]]
      BY DEF WorkspaceInit, Nothing
<1>3. Shapes /\ Numbered
      BY <1>1, <1>2 DEF Shapes, Numbered, NoWorker, WorkerFields
<1>4. IsFiniteSet({})
      BY FS_EmptySet
<1>5. Owners /\ Chosen /\ Reports
      BY <1>1, <1>4 DEF Owners, Chosen, Reports, NoWorker
<1> QED BY <1>3, <1>5 DEF IInv

\* What a step must respect of a turn that neither begins a tool nor writes an output.
Onward(t) ==
  /\ workers'[t].pc = "computing" => workers[t].pc = "computing" /\ workers'[t].layer = workers[t].layer
  /\ workers[t].count <= workers'[t].count
  /\ workers'[t].at = "idle" => workers'[t].pc = "ready" /\ workers'[t].count = 0
  /\ workers[t].at \in {"closing", "done"} => workers'[t].at \in {"closing", "done"}

SamePaths ==
  /\ DOMAIN made \subseteq DOMAIN made'
  /\ \A l \in DOMAIN made : /\ made'[l].path = made[l].path
                            /\ made'[l].asked = made[l].asked
                            /\ made'[l].after = made[l].after

LEMMA QuietStep ==
  ASSUME IInv, Shapes', SamePaths, DOMAIN made' = DOMAIN made, disk' = disk,
         \A t \in Worker : Onward(t)
  PROVE  IInv'
<1>1. \A l \in DOMAIN made : ChosenWell(l) => ChosenWell(l)'
      BY DEF SamePaths, ChosenWell
<1>2. Numbered'
  <2>1. ASSUME NEW l \in DOMAIN made'
        PROVE  \E t \in Worker, k \in Nat : l = <<t, k>> /\ k <= workers'[t].count
    <3>1. PICK t \in Worker, k \in Nat : l = <<t, k>> /\ k <= workers[t].count
          BY DEF IInv, Numbered
    <3>2. k <= workers'[t].count
          BY <3>1 DEF Onward, IInv, Shapes
    <3> QED BY <3>1, <3>2
  <2> QED BY <2>1 DEF Numbered, Onward
<1>3. Owners'
      BY <1>1 DEF IInv, Owners, SamePaths
<1>4. Chosen'
  <2> SUFFICES ASSUME NEW t \in Worker, workers'[t].pc = "computing"
               PROVE  /\ workers'[t].layer \in DOMAIN made'
                      /\ ChosenWell(workers[t].layer)'
                      /\ ~IsReport(made'[workers'[t].layer].path)
      BY DEF Chosen
  <2>1. workers[t].pc = "computing" /\ workers'[t].layer = workers[t].layer
        BY DEF Onward
  <2> QED BY <2>1, <1>1 DEF IInv, Chosen, SamePaths
<1>5. Reports'
      BY DEF IInv, Reports, Onward
<1> QED BY <1>2, <1>3, <1>4, <1>5 DEF IInv

\* A step of one turn that leaves layers and disk alone.
LEMMA OneWorkerStep ==
  ASSUME IInv, NEW t \in Worker, NEW w,
         workers' = [workers EXCEPT ![t] = w], made' = made, disk' = disk,
         DOMAIN w = WorkerFields, w.count \in Nat, workers[t].count <= w.count,
         w.pc = "computing" => workers[t].pc = "computing" /\ w.layer = workers[t].layer,
         w.at # "idle",
         workers[t].at \in {"closing", "done"} => w.at \in {"closing", "done"}
  PROVE  IInv'
<1>1. \A u \in Worker : workers'[u] = IF u = t THEN w ELSE workers[u]
      BY DEF IInv, Shapes
<1>2. workers' = [u \in Worker |-> workers'[u]]
      BY <1>1 DEF IInv, Shapes
<1>3. Shapes'
      BY <1>1, <1>2 DEF IInv, Shapes
<1>4. ASSUME NEW u \in Worker PROVE Onward(u)
      BY <1>1 DEF Onward, IInv, Shapes, Numbered
<1> QED BY <1>3, <1>4, QuietStep DEF SamePaths

LEMMA MakeStep ==
  ASSUME IInv, NEW t \in Worker, Make(t) PROVE IInv'
<1> DEFINE w == [NoWorker EXCEPT !.at = "made", !.index = Load, !.before = {u \in Worker : workers[u].at = "done"}]
<1>1. /\ workers[t].at = "idle"
      /\ workers' = [workers EXCEPT ![t] = w] /\ made' = made /\ disk' = disk
      BY DEF Make
<1>2. workers[t].count = 0
      BY <1>1 DEF IInv, Numbered
<1>3. DOMAIN w = WorkerFields /\ w.count = 0 /\ w.pc = "ready" /\ w.at = "made" /\ workers[t].count = 0
      BY <1>2 DEF NoWorker, WorkerFields
<1>4. w.count \in Nat /\ workers[t].count <= w.count /\ w.pc # "computing" /\ w.at # "idle"
      BY <1>3
<1>5. workers[t].at \notin {"closing", "done"}
      BY <1>1
<1> HIDE DEF w
<1> QED BY <1>1, <1>3, <1>4, <1>5, OneWorkerStep

LEMMA StartStep ==
  ASSUME IInv, NEW t \in Worker, Start(t) PROVE IInv'
<1> DEFINE w == [workers[t] EXCEPT !.at = "running", !.index = Load]
<1>1. DOMAIN workers[t] = WorkerFields /\ workers[t].count \in Nat
      BY DEF IInv, Shapes
<1>2. /\ workers[t].at = "made" /\ workers[t].pc = "ready"
      /\ workers' = [workers EXCEPT ![t] = w] /\ made' = made /\ disk' = disk
      BY DEF Start
<1>3. /\ DOMAIN w = WorkerFields /\ w.count = workers[t].count /\ w.pc = "ready" /\ w.at = "running"
      /\ workers[t].count <= workers[t].count
      BY <1>1, <1>2 DEF WorkerFields
<1> HIDE DEF w
<1> QED BY <1>1, <1>2, <1>3, OneWorkerStep

LEMMA ComputeFailsStep ==
  ASSUME IInv, NEW t \in Worker, ComputeFails(t) PROVE IInv'
<1> DEFINE w == [workers[t] EXCEPT !.pc = "ready"]
<1>1. DOMAIN workers[t] = WorkerFields /\ workers[t].count \in Nat /\ workers[t].at # "idle"
      BY DEF IInv, Shapes, Numbered, ComputeFails, NoWorker
<1>2. workers' = [workers EXCEPT ![t] = w] /\ made' = made /\ disk' = disk
      BY DEF ComputeFails
<1>3. /\ DOMAIN w = WorkerFields /\ w.count = workers[t].count /\ w.pc = "ready" /\ w.at = workers[t].at
      /\ workers[t].count <= workers[t].count
      BY <1>1 DEF WorkerFields
<1> HIDE DEF w
<1> QED BY <1>1, <1>2, <1>3, OneWorkerStep

LEMMA FinishStep ==
  ASSUME IInv, NEW t \in Worker, Finish(t) PROVE IInv'
<1> DEFINE w == [workers[t] EXCEPT !.at = "done"]
<1>1. DOMAIN workers[t] = WorkerFields /\ workers[t].count \in Nat
      BY DEF IInv, Shapes
<1>2. /\ workers[t].pc = "ready"
      /\ workers' = [workers EXCEPT ![t] = w] /\ made' = made /\ disk' = disk
      BY DEF Finish
<1>3. /\ DOMAIN w = WorkerFields /\ w.count = workers[t].count /\ w.pc = "ready" /\ w.at = "done"
      /\ workers[t].count <= workers[t].count
      BY <1>1, <1>2 DEF WorkerFields
<1> HIDE DEF w
<1> QED BY <1>1, <1>2, <1>3, OneWorkerStep

\* What a registration leaves of its turn.
LEMMA GoesOn ==
  ASSUME IInv, NEW t \in Worker, workers[t].pc = "saving"
  PROVE  /\ DOMAIN Goes(t) = WorkerFields /\ Goes(t).count = workers[t].count
         /\ Goes(t).pc # "computing" /\ Goes(t).at = workers[t].at
         /\ workers[t].count \in Nat /\ workers[t].count <= workers[t].count
         /\ workers[t].at # "idle"
<1>1. DOMAIN workers[t] = WorkerFields /\ workers[t].count \in Nat /\ workers[t].at # "idle"
      BY DEF IInv, Shapes, Numbered, NoWorker
<1> QED BY <1>1 DEF Goes, WorkerFields

LEMMA SaveFailsStep ==
  ASSUME IInv, NEW t \in Worker, SaveFails(t) PROVE IInv'
<1> QED BY GoesOn, OneWorkerStep DEF SaveFails

LEMMA BeginSaveStep ==
  ASSUME IInv, NEW t \in Worker, BeginSave(t) PROVE IInv'
<1> DEFINE layer == workers[t].layer
           index == RegisterLayer(workers[t].index, layer, <<layer, workers[t].left>>)
           w == [workers[t] EXCEPT !.index = index, !.pc = "saving", !.mixed = FALSE]
           id == FindRecord(index, layer).id
<1>1. /\ workers[t].pc = "register" /\ disk' = disk
      /\ workers' = [workers EXCEPT ![t] = w]
      /\ made' = made \/ made' = [made EXCEPT ![layer].artifact = id]
      BY DEF BeginSave
<1>2. DOMAIN workers[t] = WorkerFields /\ workers[t].count \in Nat /\ workers[t].at # "idle"
      BY <1>1 DEF IInv, Shapes, Numbered, NoWorker
<1>3. /\ DOMAIN w = WorkerFields /\ w.count = workers[t].count /\ w.pc = "saving" /\ w.at = workers[t].at
      BY <1>2 DEF WorkerFields
<1> HIDE DEF w, index, id, layer
<1>4. /\ DOMAIN made' = DOMAIN made
      /\ \A l \in DOMAIN made : made'[l] = made[l] \/ made'[l] = [made[l] EXCEPT !.artifact = id]
      /\ made' = [l \in DOMAIN made' |-> made'[l]]
      BY <1>1 DEF IInv, Shapes
<1>5. /\ SamePaths
      /\ \A l \in DOMAIN made : DOMAIN made'[l] = LayerFields
      BY <1>4 DEF IInv, Shapes, SamePaths, LayerFields
<1>6. \A u \in Worker : workers'[u] = IF u = t THEN w ELSE workers[u]
      BY <1>1 DEF IInv, Shapes
<1>7. workers' = [u \in Worker |-> workers'[u]]
      BY <1>1, <1>6 DEF IInv, Shapes
<1>8. Shapes'
      BY <1>2, <1>3, <1>4, <1>5, <1>6, <1>7 DEF IInv, Shapes
<1>9. ASSUME NEW u \in Worker PROVE Onward(u)
      BY <1>2, <1>3, <1>6 DEF Onward, IInv, Shapes, Numbered
<1> QED BY <1>1, <1>4, <1>5, <1>8, <1>9, QuietStep

LEMMA EndSaveStep ==
  ASSUME IInv, NEW t \in Worker, NEW whole \in BOOLEAN, EndSave(t, whole) PROVE IInv'
<1> DEFINE layer == workers[t].layer
           v(u) == [workers[u] EXCEPT !.mixed = @ \/ workers[u].pc = "saving"]
<1>1. /\ workers[t].pc = "saving" /\ disk' = disk
      /\ workers' = [u \in Worker |-> IF u = t THEN Goes(t) ELSE v(u)]
      /\ made' = [made EXCEPT ![layer].saved = TRUE]
      BY DEF EndSave
<1>2. ASSUME NEW u \in Worker
      PROVE  /\ DOMAIN v(u) = WorkerFields /\ v(u).count = workers[u].count
             /\ v(u).pc = workers[u].pc /\ v(u).layer = workers[u].layer /\ v(u).at = workers[u].at
  BY DEF IInv, Shapes, WorkerFields
<1> HIDE DEF v, layer
<1>3. /\ DOMAIN made' = DOMAIN made
      /\ \A l \in DOMAIN made : made'[l] = made[l] \/ made'[l] = [made[l] EXCEPT !.saved = TRUE]
      /\ made' = [l \in DOMAIN made' |-> made'[l]]
      BY <1>1 DEF IInv, Shapes
<1>4. /\ SamePaths
      /\ \A l \in DOMAIN made : DOMAIN made'[l] = LayerFields
      BY <1>3 DEF IInv, Shapes, SamePaths, LayerFields
<1>5. \A u \in Worker : workers'[u] = IF u = t THEN Goes(t) ELSE v(u)
      BY <1>1
<1>6. workers' = [u \in Worker |-> workers'[u]]
      BY <1>1, <1>5
<1>7. Shapes'
      BY <1>1, <1>2, <1>3, <1>4, <1>5, <1>6, GoesOn DEF IInv, Shapes
<1>8. ASSUME NEW u \in Worker PROVE Onward(u)
      BY <1>1, <1>2, <1>5, GoesOn DEF Onward, IInv, Shapes, Numbered
<1> QED BY <1>1, <1>3, <1>4, <1>7, <1>8, QuietStep

LEMMA RestartStep ==
  ASSUME IInv, Restart PROVE IInv'
<1> DEFINE v(u) == [workers[u] EXCEPT !.at = "done", !.pc = "ready"]
<1>1. /\ made' = made /\ disk' = disk
      /\ workers' = [u \in Worker |-> IF u \in Busy THEN v(u) ELSE workers[u]]
      BY DEF Restart
<1>2. ASSUME NEW u \in Worker
      PROVE  DOMAIN v(u) = WorkerFields /\ v(u).count = workers[u].count /\ v(u).pc = "ready" /\ v(u).at = "done"
      BY DEF IInv, Shapes, WorkerFields
<1> HIDE DEF v
<1>3. Shapes'
      BY <1>1, <1>2 DEF IInv, Shapes
<1>4. ASSUME NEW u \in Worker PROVE Onward(u)
      BY <1>1, <1>2 DEF Onward, IInv, Shapes, Numbered
<1> QED BY <1>1, <1>3, <1>4, QuietStep DEF SamePaths

\* A new layer of a turn, with its record.
LEMMA NewLayer ==
  ASSUME IInv, NEW t \in Worker, NEW rec, DOMAIN rec = LayerFields,
         NEW layer, layer = <<t, workers[t].count + 1>>,
         made' = With(made, layer, rec)
  PROVE  /\ layer \notin DOMAIN made
         /\ DOMAIN made' = DOMAIN made \cup {layer}
         /\ \A l \in DOMAIN made : made'[l] = made[l]
         /\ made'[layer] = rec
         /\ made' = [l \in DOMAIN made' |-> made'[l]]
         /\ \A l \in DOMAIN made' : DOMAIN made'[l] = LayerFields
<1>1. layer \notin DOMAIN made
  <2> SUFFICES ASSUME layer \in DOMAIN made PROVE FALSE
      OBVIOUS
  <2>1. PICK u \in Worker, k \in Nat : layer = <<u, k>> /\ k <= workers[u].count
        BY DEF IInv, Numbered
  <2>2. u = t /\ k = workers[t].count + 1 /\ workers[t].count \in Nat
        BY <2>1 DEF IInv, Shapes
  <2> QED BY <2>1, <2>2
<1>2. made' = [l \in DOMAIN made \cup {layer} |-> IF l = layer THEN rec ELSE made[l]]
      BY <1>1 DEF With
<1> QED BY <1>1, <1>2 DEF IInv, Shapes

\* The workers after one of them begins a tool, or its report.
LEMMA OneMoreLayer ==
  ASSUME IInv, NEW t \in Worker, NEW w, NEW layer,
         layer = <<t, workers[t].count + 1>>,
         DOMAIN made' = DOMAIN made \cup {layer},
         workers' = [workers EXCEPT ![t] = w],
         DOMAIN w = WorkerFields, w.count = workers[t].count + 1, w.at # "idle"
  PROVE  /\ \A u \in Worker : workers'[u] = IF u = t THEN w ELSE workers[u]
         /\ workers' = [u \in Worker |-> workers'[u]]
         /\ \A u \in Worker : DOMAIN workers'[u] = WorkerFields /\ workers'[u].count \in Nat
         /\ Numbered'
<1>1. \A u \in Worker : workers'[u] = IF u = t THEN w ELSE workers[u]
      BY DEF IInv, Shapes
<1>2. workers' = [u \in Worker |-> workers'[u]]
      BY <1>1 DEF IInv, Shapes
<1>3. \A u \in Worker : DOMAIN workers'[u] = WorkerFields /\ workers'[u].count \in Nat
      BY <1>1 DEF IInv, Shapes
<1>4. \A u \in Worker : workers[u].count <= workers'[u].count
      BY <1>1 DEF IInv, Shapes
<1>5. ASSUME NEW l \in DOMAIN made'
      PROVE  \E u \in Worker, k \in Nat : l = <<u, k>> /\ k <= workers'[u].count
  <2>1. CASE l = layer
    <3>1. w.count \in Nat /\ workers'[t] = w
          BY <1>1, <1>3
    <3>2. l = <<t, w.count>> /\ w.count <= workers'[t].count
          BY <2>1, <3>1
    <3> QED BY <3>1, <3>2
  <2>2. CASE l \in DOMAIN made
    <3>1. PICK u \in Worker, k \in Nat : l = <<u, k>> /\ k <= workers[u].count
          BY <2>2 DEF IInv, Numbered
    <3>2. workers[u].count \in Nat /\ workers'[u].count \in Nat
          BY <1>3 DEF IInv, Shapes
    <3>3. k <= workers'[u].count
          BY <1>4, <3>1, <3>2
    <3> QED BY <3>1, <3>3
  <2> QED BY <2>1, <2>2
<1>6. Numbered'
      BY <1>1, <1>5 DEF Numbered, IInv
<1> QED BY <1>1, <1>2, <1>3, <1>6

LEMMA BeginsStep ==
  ASSUME IInv, NEW t \in Worker, NEW pc, NEW path, NEW parent, NEW asked, NEW times,
         Begins(t, pc, path, parent, asked, times),
         workers[t].at # "idle",
         pc = "computing" => (asked = TRUE \/ path \notin DOMAIN disk) /\ ~IsReport(path)
  PROVE  IInv'
<1> DEFINE layer == <<t, workers[t].count + 1>>
           rec == [path |-> path, parent |-> parent, asked |-> asked,
                   after |-> disk, artifact |-> Nothing, saved |-> FALSE]
           w == [workers[t] EXCEPT !.pc = pc, !.layer = layer, !.left = times, !.count = @ + 1]
<1>1. made' = With(made, layer, rec) /\ workers' = [workers EXCEPT ![t] = w] /\ disk' = disk
      BY DEF Begins
<1>2. /\ DOMAIN w = WorkerFields /\ w.count = workers[t].count + 1
      /\ w.pc = pc /\ w.layer = layer /\ w.at = workers[t].at
      BY DEF IInv, Shapes, WorkerFields
<1>3. DOMAIN rec = LayerFields /\ rec.path = path /\ rec.asked = asked /\ rec.after = disk
      BY DEF LayerFields
<1> HIDE DEF w, rec
<1>4. /\ layer \notin DOMAIN made
      /\ DOMAIN made' = DOMAIN made \cup {layer}
      /\ \A l \in DOMAIN made : made'[l] = made[l]
      /\ made'[layer] = rec
      /\ made' = [l \in DOMAIN made' |-> made'[l]]
      /\ \A l \in DOMAIN made' : DOMAIN made'[l] = LayerFields
      BY <1>1, <1>3, NewLayer
<1>5. /\ \A u \in Worker : workers'[u] = IF u = t THEN w ELSE workers[u]
      /\ workers' = [u \in Worker |-> workers'[u]]
      /\ \A u \in Worker : DOMAIN workers'[u] = WorkerFields /\ workers'[u].count \in Nat
      /\ Numbered'
      BY <1>1, <1>2, <1>4, OneMoreLayer
<1> HIDE DEF layer
<1>6. Shapes'
      BY <1>4, <1>5 DEF Shapes
<1>7. \A l \in DOMAIN made : ChosenWell(l) => ChosenWell(l)'
      BY <1>4 DEF ChosenWell
<1>8. Owners'
      BY <1>1, <1>4, <1>7 DEF IInv, Owners
<1>9. Chosen'
  <2> SUFFICES ASSUME NEW u \in Worker, workers'[u].pc = "computing"
               PROVE  /\ workers'[u].layer \in DOMAIN made'
                      /\ ChosenWell(workers[u].layer)'
                      /\ ~IsReport(made'[workers'[u].layer].path)
      BY DEF Chosen
  <2>1. CASE u = t
        BY <2>1, <1>2, <1>3, <1>4, <1>5 DEF ChosenWell
  <2>2. CASE u # t
        BY <2>2, <1>4, <1>5, <1>7 DEF IInv, Chosen
  <2> QED BY <2>1, <2>2
<1>10. Reports'
      BY <1>1, <1>2, <1>5 DEF IInv, Reports
<1> QED BY <1>5, <1>6, <1>8, <1>9, <1>10 DEF IInv

LEMMA LoadSourceStep ==
  ASSUME IInv, NEW t \in Worker, LoadSource(t) PROVE IInv'
<1>1. workers[t].at # "idle"
      BY DEF LoadSource
<1>2. PICK times : Begins(t, "register", <<"source">>, Nothing, FALSE, times)
      BY DEF LoadSource
<1> QED BY <1>1, <1>2, BeginsStep

LEMMA ChooseTempStep ==
  ASSUME IInv, NEW t \in Worker, NEW name, NEW parent, ChooseTemp(t, name, parent) PROVE IInv'
<1>1. workers[t].at # "idle"
      BY DEF ChooseTemp
<1>2. PICK number : Begins(t, "computing", AvailablePath(number, name), parent, FALSE, 2)
      BY DEF ChooseTemp
<1>3. AvailablePath(number, name) \notin DOMAIN disk /\ ~IsReport(AvailablePath(number, name))
      BY PathIsFree DEF IInv, Owners
<1> QED BY <1>1, <1>2, <1>3, BeginsStep

LEMMA ChooseGivenStep ==
  ASSUME IInv, NEW t \in Worker, NEW path, NEW parent, ChooseGiven(t, path, parent) PROVE IInv'
<1> DEFINE asked == <<path>> \in DOMAIN disk
<1>1. workers[t].at # "idle" /\ Begins(t, "computing", <<path>>, parent, asked, 2)
      BY DEF ChooseGiven
<1>2. asked = TRUE \/ <<path>> \notin DOMAIN disk
      OBVIOUS
<1>3. ~IsReport(<<path>>)
  <2>1. ASSUME NEW u PROVE <<path>> # <<"report", u>>
    <3>1. Len(<<path>>) = 1 /\ Len(<<"report", u>>) = 2
          OBVIOUS
    <3> QED BY <3>1
  <2> QED BY <2>1 DEF IsReport
<1> HIDE DEF asked
<1> QED BY <1>1, <1>2, <1>3, BeginsStep

LEMMA ComputeStep ==
  ASSUME IInv, NEW t \in Worker, Compute(t) PROVE IInv'
<1> DEFINE layer == workers[t].layer
           w == [workers[t] EXCEPT !.pc = "register"]
<1>1. /\ workers[t].pc = "computing" /\ disk' = With(disk, made[layer].path, layer)
      /\ workers' = [workers EXCEPT ![t] = w] /\ made' = made
      BY DEF Compute
<1>2. layer \in DOMAIN made /\ ChosenWell(layer) /\ ~IsReport(made[layer].path)
      BY <1>1 DEF IInv, Chosen
<1>3. /\ DOMAIN w = WorkerFields /\ w.count = workers[t].count /\ w.pc = "register" /\ w.at = workers[t].at
      BY DEF IInv, Shapes, WorkerFields
<1> HIDE DEF w
<1>4. /\ \A u \in Worker : workers'[u] = IF u = t THEN w ELSE workers[u]
      /\ workers' = [u \in Worker |-> workers'[u]]
      BY <1>1 DEF IInv, Shapes
<1>5. Shapes'
      BY <1>1, <1>3, <1>4 DEF IInv, Shapes
<1>6. Numbered'
      BY <1>1, <1>3, <1>4 DEF IInv, Numbered
<1>7. Owners'
  <2>1. DOMAIN disk' = DOMAIN disk \cup {made[layer].path}
        BY <1>1 DEF With
  <2>2. IsFiniteSet(DOMAIN disk')
        BY <2>1, FS_AddElement DEF IInv, Owners
  <2>3. \A path \in DOMAIN disk' : disk'[path] = IF path = made[layer].path THEN layer ELSE disk[path]
        BY <1>1, <2>1 DEF With
  <2>4. \A l : ChosenWell(l) => ChosenWell(l)'
        BY <1>1 DEF ChosenWell
  <2> QED BY <1>1, <1>2, <2>1, <2>2, <2>3, <2>4 DEF IInv, Owners
<1>8. Chosen'
  <2>1. \A l : ChosenWell(l) => ChosenWell(l)'
        BY <1>1 DEF ChosenWell
  <2> QED BY <1>1, <1>3, <1>4, <2>1 DEF IInv, Chosen
<1>9. Reports'
  <2>1. ASSUME NEW u \in Worker, <<"report", u>> \in DOMAIN disk' PROVE <<"report", u>> \in DOMAIN disk
        BY <1>1, <1>2, <2>1 DEF With, IsReport
  <2> QED BY <1>3, <1>4, <2>1 DEF IInv, Reports
<1> QED BY <1>5, <1>6, <1>7, <1>8, <1>9 DEF IInv

LEMMA WriteReportStep ==
  ASSUME IInv, NEW t \in Worker, WriteReport(t) PROVE IInv'
<1> DEFINE layer == <<t, workers[t].count + 1>>
           path == <<"report", t>>
           rec == [path |-> path, parent |-> Nothing, asked |-> FALSE,
                   after |-> disk, artifact |-> Nothing, saved |-> FALSE]
           w == [workers[t] EXCEPT !.at = "closing", !.pc = "register", !.layer = layer,
                                   !.left = 1, !.count = @ + 1]
<1>1. /\ workers[t].at = "running"
      /\ made' = With(made, layer, rec) /\ disk' = With(disk, path, layer)
      /\ workers' = [workers EXCEPT ![t] = w]
      BY DEF WriteReport
<1>2. /\ DOMAIN w = WorkerFields /\ w.count = workers[t].count + 1
      /\ w.pc = "register" /\ w.at = "closing"
      BY DEF IInv, Shapes, WorkerFields
<1>3. DOMAIN rec = LayerFields /\ rec.path = path /\ rec.after = disk
      BY DEF LayerFields
<1>4. path \notin DOMAIN disk
      BY <1>1 DEF IInv, Reports
<1> HIDE DEF w, rec
<1>5. /\ layer \notin DOMAIN made
      /\ DOMAIN made' = DOMAIN made \cup {layer}
      /\ \A l \in DOMAIN made : made'[l] = made[l]
      /\ made'[layer] = rec
      /\ made' = [l \in DOMAIN made' |-> made'[l]]
      /\ \A l \in DOMAIN made' : DOMAIN made'[l] = LayerFields
      BY <1>1, <1>3, NewLayer
<1>6. /\ \A u \in Worker : workers'[u] = IF u = t THEN w ELSE workers[u]
      /\ workers' = [u \in Worker |-> workers'[u]]
      /\ \A u \in Worker : DOMAIN workers'[u] = WorkerFields /\ workers'[u].count \in Nat
      /\ Numbered'
      BY <1>1, <1>2, <1>5, OneMoreLayer
<1>7. /\ DOMAIN disk' = DOMAIN disk \cup {path}
      /\ \A p \in DOMAIN disk' : disk'[p] = IF p = path THEN layer ELSE disk[p]
      BY <1>1 DEF With
<1> HIDE DEF layer
<1>8. Shapes'
      BY <1>5, <1>6 DEF Shapes
<1>9. \A l \in DOMAIN made : ChosenWell(l) => ChosenWell(l)'
      BY <1>5 DEF ChosenWell
<1>10. Owners'
  <2> DEFINE Well(l) == made'[l].asked = TRUE \/ made'[l].path \notin DOMAIN made'[l].after
  <2>1. IsFiniteSet(DOMAIN disk)
        BY DEF IInv, Owners
  <2>2. IsFiniteSet(DOMAIN disk')
        BY <1>7, <2>1, FS_AddElement
  <2>3. made'[layer].path = path /\ Well(layer)
        BY <1>3, <1>4, <1>5
  <2>4. ASSUME NEW p \in DOMAIN disk'
        PROVE  disk'[p] \in DOMAIN made' /\ made'[disk'[p]].path = p /\ Well(disk'[p])
    <3>1. CASE p = path
      <4>1. disk'[p] = layer
            BY <3>1, <1>7
      <4> QED BY <3>1, <4>1, <1>5, <2>3
    <3>2. CASE p # path
      <4>1. p \in DOMAIN disk /\ disk'[p] = disk[p]
            BY <3>2, <1>7
      <4>2. disk[p] \in DOMAIN made /\ made[disk[p]].path = p /\ ChosenWell(disk[p])
            BY <4>1 DEF IInv, Owners
      <4> QED BY <4>1, <4>2, <1>5 DEF ChosenWell
    <3> QED BY <3>1, <3>2
  <2> QED BY <2>2, <2>4 DEF Owners, ChosenWell
<1>11. Chosen'
  <2> SUFFICES ASSUME NEW u \in Worker, workers'[u].pc = "computing"
               PROVE  /\ workers'[u].layer \in DOMAIN made'
                      /\ ChosenWell(workers[u].layer)'
                      /\ ~IsReport(made'[workers'[u].layer].path)
      BY DEF Chosen
  <2>1. u # t /\ workers'[u] = workers[u]
        BY <1>2, <1>6
  <2> QED BY <2>1, <1>5, <1>9 DEF IInv, Chosen
<1>12. Reports'
  <2> SUFFICES ASSUME NEW u \in Worker, <<"report", u>> \in DOMAIN disk'
               PROVE  workers'[u].at \in {"closing", "done"}
      BY DEF Reports
  <2>1. CASE u = t
        BY <2>1, <1>2, <1>6
  <2>2. CASE u # t
    <3>1. <<"report", u>> \in DOMAIN disk
          BY <2>2, <1>7
    <3> QED BY <2>2, <3>1, <1>6 DEF IInv, Reports
  <2> QED BY <2>1, <2>2
<1> QED BY <1>6, <1>8, <1>10, <1>11, <1>12 DEF IInv

LEMMA StutterStep ==
  ASSUME IInv, UNCHANGED workspaceVars PROVE IInv'
<1> QED BY DEF workspaceVars, IInv, Shapes, Numbered, Owners, Chosen, Reports, ChosenWell

LEMMA NextIInv == IInv /\ [WorkspaceNext]_workspaceVars => IInv'
<1> SUFFICES ASSUME IInv, [WorkspaceNext]_workspaceVars PROVE IInv'
    OBVIOUS
<1>1. CASE Restart
      BY <1>1, RestartStep
<1>2. ASSUME NEW t \in Worker, Make(t) \/ Start(t) \/ LoadSource(t) \/ Compute(t) \/ ComputeFails(t)
      PROVE  IInv'
      BY <1>2, MakeStep, StartStep, LoadSourceStep, ComputeStep, ComputeFailsStep
<1>3. ASSUME NEW t \in Worker, NEW name \in TempName, NEW parent \in InTree(t), ChooseTemp(t, name, parent)
      PROVE  IInv'
      BY <1>3, ChooseTempStep
<1>4. ASSUME NEW t \in Worker, NEW path \in Given, NEW parent \in InTree(t), ChooseGiven(t, path, parent)
      PROVE  IInv'
      BY <1>4, ChooseGivenStep
<1>5. ASSUME NEW t \in Worker, NEW whole \in BOOLEAN, EndSave(t, whole)
      PROVE  IInv'
      BY <1>5, EndSaveStep
<1>6. ASSUME NEW t \in Worker, BeginSave(t) \/ SaveFails(t) \/ WriteReport(t) \/ Finish(t)
      PROVE  IInv'
      BY <1>6, BeginSaveStep, SaveFailsStep, WriteReportStep, FinishStep
<1>7. CASE UNCHANGED workspaceVars
      BY <1>7, StutterStep
<1> QED BY <1>1, <1>2, <1>3, <1>4, <1>5, <1>6, <1>7 DEF WorkspaceNext

-----------------------------------------------------------------------------
(* Theorems                                                                *)

\* In every workspace, what a path holds was written by the layer the path was
\* given to, and no tool that has yet to write has chosen a path that existed
\* without the user's word (ToolOutputResolver, ArtifactIndex, AgentToolbox).
THEOREM IInvAlways == WorkspaceSpec => []IInv
<1> QED BY InitIInv, NextIInv, PTL DEF WorkspaceSpec

\* The file of a recorded layer holds that layer, or one written over it with the
\* user's word, or by a tool that had found the path free: next_temp_output_path
\* and the overwrite check never lead a turn by itself to write over an output.
THEOREM OutputIntactAlways == WorkspaceSpec => []OutputIntact
<1>1. IInv => OutputIntact
  <2> SUFFICES ASSUME IInv, NEW layer \in Recorded, made[layer].path \in DOMAIN disk
               PROVE  LET owner == disk[made[layer].path]
                      IN made[owner].asked \/ made[layer].path \notin DOMAIN made[owner].after
      BY DEF OutputIntact
  <2> DEFINE path == made[layer].path
             owner == disk[path]
  <2>1. made[owner].path = path /\ ChosenWell(owner)
        BY DEF IInv, Owners
  <2> QED BY <2>1 DEF ChosenWell
<1> QED BY <1>1, IInvAlways, PTL
-----------------------------------------------------------------------------
(* The records: what a second invariant says of the copies of the index    *)

RecordFields == {"layer", "path", "id", "inputs"}

\* A record of the layer is in the index.
Has(index, layer) == \E k \in DOMAIN index : index[k].layer = layer

LostInBreak(layer) == \E k \in DOMAIN broken : layer \in broken[k]

\* A record tells where its layer is, its artifact, and that of the layer it was
\* made from.
RecordTrue(record) ==
  /\ DOMAIN record = RecordFields
  /\ record.layer \in DOMAIN made
  /\ record.path = made[record.layer].path
  /\ record.id = made[record.layer].artifact
  /\ made[record.layer].artifact # Nothing
  /\ LET parent == made[record.layer].parent
     IN IF parent = Nothing THEN record.inputs = {}
        ELSE record.inputs = {made[parent].artifact} \/ MayBeLost(parent)

IndexTrue(index) == index \in Seq(ToSet(index)) /\ \A k \in DOMAIN index : RecordTrue(index[k])

\* Every copy of the index is true, and so is the file.
CopiesTrue ==
  /\ \A t \in Worker : IndexTrue(workers[t].index)
  /\ DOMAIN file = {"whole", "records"}
  /\ IndexTrue(file.records)

Places ==
  /\ broken \in Seq(ToSet(broken))
  /\ \A l \in DOMAIN made : l # Nothing /\ l[1] \in Worker /\ workers[l[1]].at # "idle"
  /\ \A t \in Worker :
       /\ workers[t].at \in {"idle", "made", "running", "closing", "done"}
       /\ workers[t].at = "done" => workers[t].pc = "ready"
       /\ \A u \in workers[t].before : u \in Worker /\ workers[u].at = "done"

\* What a turn is at: a layer of its own, not on record before it is registered,
\* and in its copy of the index once it was.
AtWork ==
  \A t \in Worker : workers[t].pc # "ready" =>
    LET layer == workers[t].layer
    IN /\ layer \in DOMAIN made /\ layer[1] = t
       /\ workers[t].pc \in {"computing", "register", "saving"}
       /\ workers[t].pc = "computing" => made[layer].artifact = Nothing
       /\ workers[t].pc = "register" => made[layer].artifact = Nothing \/ Has(workers[t].index, layer)
       /\ workers[t].pc = "saving" => made[layer].artifact # Nothing /\ Has(workers[t].index, layer)
       /\ workers[t].pc = "saving" /\ workers[t].mixed => \E u \in Worker : Overlapped(u, t)

\* A layer was made from one that its turn had in its state tree.
Parents ==
  \A l \in DOMAIN made : \/ made[l].parent = Nothing
                         \/ made[l].parent \in InTree(l[1])

\* A layer that has its artifact was saved, or its save broke off, or is under way.
SavedOrNot ==
  \A l \in DOMAIN made :
    /\ made[l].saved \in BOOLEAN
    /\ made[l].saved => made[l].artifact # Nothing
    /\ made[l].artifact # Nothing =>
         made[l].saved \/ LostInBreak(l) \/ (workers[l[1]].pc = "saving" /\ workers[l[1]].layer = l)

\* A turn at work has on its copy the layers of its state tree.
CopiesComplete ==
  \A t \in Busy : \A l \in InTree(t) : Has(workers[t].index, l) \/ MayBeLost(l)

\* So has the file, while nobody writes it.
FileComplete ==
  \A l \in Recorded : Has(Load, l) \/ (\E t \in Worker : workers[t].pc = "saving") \/ MayBeLost(l)

RecordsInv ==
  /\ IInv /\ CopiesTrue /\ Places /\ AtWork /\ Parents /\ SavedOrNot /\ CopiesComplete /\ FileComplete

-----------------------------------------------------------------------------
(* Facts about the index                                                   *)

LEMMA MaxOf ==
  ASSUME NEW n \in Nat, NEW S \in SUBSET (1..n), S # {}
  PROVE  Max(S) \in S
<1> DEFINE R == {ss \in Nat \X Nat : ss[1] < ss[2]}
           T == {n - k : k \in S}
<1>1. IsWellFoundedOn(R, Nat)
      BY NatLessThanWellFounded DEF OpToRel
<1>2. T \in SUBSET Nat /\ T # {}
  <2>1. \A k \in 1..n : n - k \in Nat
        OBVIOUS
  <2>2. PICK k : k \in S
        OBVIOUS
  <2> QED BY <2>1, <2>2
<1>3. PICK x \in T : \A y \in T : ~(<<y, x>> \in R)
  <2> HIDE DEF R, T
  <2> QED BY <1>1, <1>2, WFMin
<1>4. PICK k \in S : x = n - k
      BY <1>3
<1>5. \A j \in S : k >= j
  <2> SUFFICES ASSUME NEW j \in S PROVE k >= j
      OBVIOUS
  <2>1. n - j \in T /\ n - j \in Nat /\ n - k \in Nat
        BY <1>2
  <2>2. ~(n - j < n - k)
        BY <1>3, <1>4, <2>1
  <2>3. n \in Int /\ j \in Int /\ k \in Int
        OBVIOUS
  <2> QED BY <2>2, <2>3
<1> QED BY <1>5 DEF Max

LEMMA SeqOfAny ==
  ASSUME NEW S, NEW s \in Seq(S)
  PROVE  s \in Seq(ToSet(s))
<1>1. s \in [1..Len(s) -> ToSet(s)] /\ Len(s) \in Nat
      BY LenProperties DEF ToSet
<1> HIDE DEF ToSet
<1> QED BY <1>1

LEMMA AppendAny ==
  ASSUME NEW s, s \in Seq(ToSet(s)), NEW e
  PROVE  /\ Append(s, e) \in Seq(ToSet(Append(s, e)))
         /\ DOMAIN Append(s, e) = DOMAIN s \cup {Len(s) + 1}
         /\ DOMAIN s = 1..Len(s) /\ Len(s) \in Nat
         /\ Append(s, e)[Len(s) + 1] = e
         /\ \A k \in DOMAIN s : Append(s, e)[k] = s[k]
<1> DEFINE S == ToSet(s) \cup {e}
<1>1. s \in Seq(S) /\ e \in S
      BY SeqMonotonic
<1> HIDE DEF S
<1>2. /\ Append(s, e) \in Seq(S) /\ Len(Append(s, e)) = Len(s) + 1
      /\ \A k \in 1..Len(s) : Append(s, e)[k] = s[k]
      /\ Append(s, e)[Len(s) + 1] = e
      BY <1>1, AppendProperties
<1>3. DOMAIN s = 1..Len(s) /\ Len(s) \in Nat /\ DOMAIN Append(s, e) = 1..(Len(s) + 1)
      BY <1>1, <1>2, LenProperties
<1>4. 1..(Len(s) + 1) = 1..Len(s) \cup {Len(s) + 1}
      BY <1>3
<1> QED BY <1>2, <1>3, <1>4, SeqOfAny

\* find_by_layer_id gives a record of the layer if there is one.
LEMMA FindsRecord ==
  ASSUME NEW index, index \in Seq(ToSet(index)), NEW layer
  PROVE  /\ ~Has(index, layer) => FindRecord(index, layer) = Nothing
         /\ Has(index, layer) => \E k \in DOMAIN index : /\ index[k].layer = layer
                                                         /\ FindRecord(index, layer) = index[k]
<1> DEFINE found == {k \in DOMAIN index : index[k].layer = layer}
<1>1. DOMAIN index = 1..Len(index) /\ Len(index) \in Nat
      BY LenProperties
<1>2. FindRecord(index, layer) = IF found = {} THEN Nothing ELSE index[Max(found)]
      BY DEF FindRecord
<1>3. Has(index, layer) => Max(found) \in found
  <2>1. found \in SUBSET (1..Len(index))
        BY <1>1
  <2>2. Has(index, layer) => found # {}
        BY DEF Has
  <2> HIDE DEF found
  <2> QED BY <1>1, <2>1, <2>2, MaxOf
<1> QED BY <1>2, <1>3 DEF Has

\* An index after register_layer's upsert: no record is lost.
Keeps(index, record, new) ==
  /\ new \in Seq(ToSet(new))
  /\ \A l : Has(index, l) => Has(new, l)
  /\ Has(new, record.layer)
  /\ \A k \in DOMAIN new :
       new[k] = record \/ \E j \in DOMAIN index : new[k] = index[j] /\ Key(index[j]) # Key(record)

LEMMA UpsertKeeps ==
  ASSUME NEW index, index \in Seq(ToSet(index)), NEW record, NEW new, new = Upsert(index, record)
  PROVE  Keeps(index, record, new)
<1> DEFINE put == [k \in DOMAIN index |-> IF Key(index[k]) = Key(record) THEN record ELSE index[k]]
<1>1. DOMAIN index = 1..Len(index) /\ Len(index) \in Nat
      BY LenProperties
<1>2. CASE \E k \in DOMAIN index : Key(index[k]) = Key(record)
  <2>1. new = put
        BY <1>2 DEF Upsert
  <2>2. put \in Seq(ToSet(put))
    <3>1. put \in [1..Len(index) -> ToSet(put)]
          BY <1>1 DEF ToSet
    <3> HIDE DEF put
    <3> QED BY <1>1, <3>1
  <2>3. \A l : Has(index, l) => Has(put, l)
        BY DEF Has, Key
  <2>4. Has(put, record.layer)
        BY <1>2 DEF Has
  <2>5. \A k \in DOMAIN put : put[k] = record \/ \E j \in DOMAIN index : put[k] = index[j] /\ Key(index[j]) # Key(record)
        OBVIOUS
  <2> HIDE DEF put
  <2> QED BY <2>1, <2>2, <2>3, <2>4, <2>5 DEF Keeps
<1>3. CASE ~\E k \in DOMAIN index : Key(index[k]) = Key(record)
  <2>1. new = Append(index, record)
        BY <1>3 DEF Upsert
  <2>2. /\ new \in Seq(ToSet(new)) /\ DOMAIN new = DOMAIN index \cup {Len(index) + 1}
        /\ new[Len(index) + 1] = record
        /\ \A k \in DOMAIN index : new[k] = index[k]
        BY <2>1, AppendAny
  <2>3. (\A l : Has(index, l) => Has(new, l)) /\ Has(new, record.layer)
        BY <2>2 DEF Has
  <2>4. \A k \in DOMAIN new : new[k] = record \/ \E j \in DOMAIN index : new[k] = index[j] /\ Key(index[j]) # Key(record)
        BY <1>3, <2>2
  <2> QED BY <2>2, <2>3, <2>4 DEF Keeps
<1> QED BY <1>2, <1>3

-----------------------------------------------------------------------------
(* What every step respects                                                *)

Later ==
  /\ \A l \in DOMAIN made :
       /\ l \in DOMAIN made'
       /\ made'[l].path = made[l].path /\ made'[l].parent = made[l].parent
       /\ made[l].artifact # Nothing => made'[l].artifact = made[l].artifact
  /\ \A k \in DOMAIN broken : k \in DOMAIN broken' /\ broken'[k] = broken[k]
  /\ \A t \in Worker :
       /\ workers[t].at # "idle" => workers'[t].at # "idle" /\ workers'[t].before = workers[t].before
       /\ workers[t].at = "done" => workers'[t].at = "done"

LEMMA LostStays ==
  ASSUME Places, Later, NEW l \in DOMAIN made, MayBeLost(l)
  PROVE  MayBeLost(l)'
<1>1. l[1] \in Worker /\ workers[l[1]].at # "idle" /\ workers'[l[1]].before = workers[l[1]].before
      BY DEF Places, Later
<1>2. CASE \E k \in DOMAIN broken : l \in broken[k]
      BY <1>2 DEF MayBeLost, Later
<1>3. CASE \E u, v \in Worker : Overlapped(u, v) /\ ~({u, v} \subseteq workers[l[1]].before)
  <2>1. PICK u \in Worker, v \in Worker : Overlapped(u, v) /\ ~({u, v} \subseteq workers[l[1]].before)
        BY <1>3
  <2>2. Overlapped(u, v)'
        BY <2>1 DEF Overlapped, Later
  <2> QED BY <1>1, <2>1, <2>2 DEF MayBeLost
<1> QED BY <1>2, <1>3 DEF MayBeLost

LEMMA RecordStays ==
  ASSUME Places, Parents, Later, NEW record, RecordTrue(record)
  PROVE  RecordTrue(record)'
<1>a. PICK l : l = record.layer
      OBVIOUS
<1>b. PICK parent : parent = made[l].parent
      OBVIOUS
<1>1. /\ l \in DOMAIN made /\ l \in DOMAIN made' /\ made'[l].path = made[l].path
      /\ made'[l].artifact = made[l].artifact /\ made'[l].parent = parent
      BY <1>a, <1>b DEF RecordTrue, Later
<1>2. CASE parent = Nothing
      BY <1>a, <1>b, <1>1, <1>2 DEF RecordTrue
<1>3. CASE parent # Nothing
  <2>1. parent \in DOMAIN made /\ made[parent].artifact # Nothing
        BY <1>b, <1>1, <1>3 DEF Parents, InTree
  <2>2. made'[parent].artifact = made[parent].artifact
        BY <2>1 DEF Later
  <2>3. MayBeLost(parent) => MayBeLost(parent)'
        BY <2>1, LostStays
  <2>4. record.inputs = {made[parent].artifact} \/ MayBeLost(parent)
        BY <1>a, <1>b, <1>3 DEF RecordTrue
  <2>5. record.inputs = {made'[parent].artifact} \/ MayBeLost(parent)'
        BY <2>2, <2>3, <2>4
  <2> QED BY <1>a, <1>b, <1>1, <1>3, <2>5 DEF RecordTrue
<1> QED BY <1>2, <1>3

LEMMA IndexStays ==
  ASSUME Places, Parents, Later, NEW index, IndexTrue(index)
  PROVE  IndexTrue(index)'
<1>1. \A k \in DOMAIN index : RecordTrue(index[k])'
      BY RecordStays DEF IndexTrue
<1> QED BY <1>1 DEF IndexTrue

LEMMA EmptyIndex ==
  IndexTrue(<<>>) /\ IndexTrue(<<>>)'
<1>1. <<>> \in Seq(ToSet(<<>>)) /\ DOMAIN <<>> = {}
      BY EmptySeq
<1> QED BY <1>1 DEF IndexTrue

LEMMA LoadTrue ==
  ASSUME CopiesTrue PROVE IndexTrue(Load)
<1> QED BY EmptyIndex DEF CopiesTrue, Load

\* Two turns at work at once: neither began after the other was done, nor did the
\* turn of any layer that may get lost.
LEMMA TwoAtWork ==
  ASSUME Places, NEW u \in Worker, NEW v \in Worker, u # v,
         workers[u].at \notin {"idle", "done"}, workers[v].at \notin {"idle", "done"}
  PROVE  Overlapped(u, v) /\ \A l \in DOMAIN made : MayBeLost(l)
<1>1. Overlapped(u, v)
      BY DEF Places, Overlapped
<1>2. ASSUME NEW l \in DOMAIN made PROVE ~({u, v} \subseteq workers[l[1]].before)
      BY DEF Places
<1> QED BY <1>1, <1>2 DEF MayBeLost

LEMMA TwoAtWorkNext ==
  ASSUME Places', NEW u \in Worker, NEW v \in Worker, u # v,
         workers'[u].at \notin {"idle", "done"}, workers'[v].at \notin {"idle", "done"}
  PROVE  Overlapped(u, v)' /\ \A l \in DOMAIN made' : MayBeLost(l)'
<1>1. Overlapped(u, v)'
      BY DEF Places, Overlapped
<1>2. ASSUME NEW l \in DOMAIN made' PROVE ~({u, v} \subseteq workers'[l[1]].before)
      BY DEF Places
<1> QED BY <1>1, <1>2 DEF MayBeLost

-----------------------------------------------------------------------------
(* Steps that leave the file and its writers alone                         *)

\* What such a step does to a turn: it goes on with its copy, or reads the file.
GoesOnReading(t) ==
  /\ workers'[t].at \in {"idle", "made", "running", "closing", "done"}
  /\ workers'[t].at = "done" => workers'[t].pc = "ready"
  /\ \A u \in workers'[t].before : u \in Worker /\ workers[u].at = "done"
  /\ \/ workers'[t].index = workers[t].index
     \/ workers'[t].index = Load
  /\ t \in Busy' => \/ t \in Busy /\ workers'[t].index = workers[t].index /\ workers'[t].before = workers[t].before
                    \/ workers'[t].index = Load /\ workers[t].pc = "ready"
  /\ workers[t].pc = "saving" => workers'[t].pc = "saving" /\ workers'[t].layer = workers[t].layer

\* And to its work: it is as it was, or is about a layer that has no record yet.
WorksOn(t) ==
  \/ workers'[t].pc = "ready"
  \/ /\ workers'[t].pc = workers[t].pc /\ workers'[t].layer = workers[t].layer
     /\ workers'[t].index = workers[t].index /\ workers'[t].mixed = workers[t].mixed
  \/ /\ workers'[t].layer \in DOMAIN made' /\ workers'[t].layer[1] = t
     /\ made'[workers'[t].layer].artifact = Nothing
     /\ workers'[t].pc \in {"computing", "register"}

\* A layer is as it was, or new.
LayerAsItWas(l) ==
  \/ l \in DOMAIN made /\ made'[l] = made[l]
  \/ /\ l \notin DOMAIN made /\ l # Nothing /\ l[1] \in Worker /\ workers[l[1]].at # "idle"
     /\ made'[l].artifact = Nothing /\ made'[l].saved = FALSE
     /\ made'[l].parent = Nothing \/ made'[l].parent \in InTree(l[1])

LEMMA ReadingStep ==
  ASSUME RecordsInv, IInv', Later, file' = file, broken' = broken,
         \A l \in DOMAIN made' : LayerAsItWas(l),
         \A t \in Worker : GoesOnReading(t) /\ WorksOn(t)
  PROVE  RecordsInv'
<1> USE DEF RecordsInv
<1>1. \A l \in DOMAIN made : MayBeLost(l) => MayBeLost(l)'
      BY LostStays
<1>2. CopiesTrue'
  <2>1. ASSUME NEW t \in Worker PROVE IndexTrue(workers[t].index)'
    <3>1. PICK index : index = workers'[t].index
          OBVIOUS
    <3>2. IndexTrue(index)
          BY <3>1, LoadTrue DEF CopiesTrue, GoesOnReading
    <3>3. IndexTrue(index)'
          BY <3>2, IndexStays
    <3> QED BY <3>1, <3>3
  <2>2. IndexTrue(file.records)'
    <3>1. PICK index : index = file.records
          OBVIOUS
    <3>2. IndexTrue(index)'
          BY <3>1, IndexStays DEF CopiesTrue
    <3> QED BY <3>1, <3>2
  <2> QED BY <2>1, <2>2 DEF CopiesTrue
<1>3. Places'
      BY DEF Places, GoesOnReading, LayerAsItWas, Later
<1>4. AtWork'
  <2> SUFFICES ASSUME NEW t \in Worker, workers'[t].pc # "ready"
               PROVE  LET layer == workers'[t].layer
                      IN /\ layer \in DOMAIN made' /\ layer[1] = t
                         /\ workers'[t].pc \in {"computing", "register", "saving"}
                         /\ workers'[t].pc = "computing" => made'[layer].artifact = Nothing
                         /\ workers'[t].pc = "register" => made'[layer].artifact = Nothing \/ Has(workers'[t].index, layer)
                         /\ workers'[t].pc = "saving" => made'[layer].artifact # Nothing /\ Has(workers'[t].index, layer)
                         /\ workers'[t].pc = "saving" /\ workers'[t].mixed => \E u \in Worker : Overlapped(u, t)'
      BY DEF AtWork, Has
  <2>1. CASE /\ workers'[t].pc = workers[t].pc /\ workers'[t].layer = workers[t].layer
             /\ workers'[t].index = workers[t].index /\ workers'[t].mixed = workers[t].mixed
    <3>1. workers[t].layer \in DOMAIN made /\ made'[workers[t].layer] = made[workers[t].layer]
          BY <2>1 DEF AtWork, LayerAsItWas, Later
    <3>2. ASSUME NEW u \in Worker, Overlapped(u, t) PROVE Overlapped(u, t)'
          BY <3>2 DEF Overlapped, Later
    <3>3. workers[t].pc = "saving" /\ workers[t].mixed => \E u \in Worker : Overlapped(u, t)
          BY DEF AtWork
    <3>4. workers[t].pc = "saving" /\ workers[t].mixed => \E u \in Worker : Overlapped(u, t)'
          BY <3>2, <3>3
    <3>5. PICK layer : layer = workers[t].layer
          OBVIOUS
    <3>6. /\ layer[1] = t
          /\ workers[t].pc \in {"computing", "register", "saving"}
          /\ workers[t].pc = "computing" => made[layer].artifact = Nothing
          /\ workers[t].pc = "register" => made[layer].artifact = Nothing \/ Has(workers[t].index, layer)
          /\ workers[t].pc = "saving" => made[layer].artifact # Nothing /\ Has(workers[t].index, layer)
          BY <2>1, <3>5 DEF AtWork
    <3>7. workers'[t].layer = layer /\ layer \in DOMAIN made' /\ made'[layer] = made[layer]
          BY <2>1, <3>1, <3>5 DEF Later
    <3> HIDE DEF RecordsInv
    <3> QED BY <2>1, <3>4, <3>6, <3>7
  <2>2. CASE /\ workers'[t].layer \in DOMAIN made' /\ workers'[t].layer[1] = t
             /\ made'[workers'[t].layer].artifact = Nothing
             /\ workers'[t].pc \in {"computing", "register"}
        BY <2>2
  <2> QED BY <2>1, <2>2 DEF WorksOn
<1>5. Parents'
  <2> SUFFICES ASSUME NEW l \in DOMAIN made', made'[l].parent # Nothing
               PROVE  made'[l].parent \in InTree(l[1])'
      BY DEF Parents, InTree
  <2>1. l[1] \in Worker /\ workers[l[1]].at # "idle" /\ workers'[l[1]].before = workers[l[1]].before
        BY DEF LayerAsItWas, Places, Later
  <2>2. made'[l].parent \in InTree(l[1])
        BY DEF LayerAsItWas, Parents
  <2> QED BY <2>1, <2>2 DEF InTree, Later
<1>6. SavedOrNot'
  <2> SUFFICES ASSUME NEW l \in DOMAIN made'
               PROVE  /\ made'[l].saved \in BOOLEAN
                      /\ made'[l].saved => made'[l].artifact # Nothing
                      /\ made'[l].artifact # Nothing =>
                           made'[l].saved \/ LostInBreak(l)' \/ (workers'[l[1]].pc = "saving" /\ workers'[l[1]].layer = l)
      BY DEF SavedOrNot, LostInBreak
  <2>1. CASE l \in DOMAIN made /\ made'[l] = made[l]
        BY <2>1 DEF SavedOrNot, LostInBreak, Places, GoesOnReading
  <2>2. CASE made'[l].artifact = Nothing /\ made'[l].saved = FALSE
        BY <2>2
  <2> QED BY <2>1, <2>2 DEF LayerAsItWas
<1>7. \A l \in DOMAIN made' : made'[l].artifact # Nothing => l \in DOMAIN made /\ made'[l] = made[l]
      BY DEF LayerAsItWas
<1>8. ASSUME NEW t \in Worker, workers[t].pc = "saving"
      PROVE  workers'[t].pc = "saving" /\ workers'[t].at \notin {"idle", "done"}
      BY <1>3, <1>8 DEF IInv, Numbered, Places, GoesOnReading
<1>9. CopiesComplete'
  <2> SUFFICES ASSUME NEW t \in Worker, t \in Busy', NEW l \in InTree(t)'
               PROVE  Has(workers'[t].index, l) \/ MayBeLost(l)'
      BY DEF CopiesComplete, Has, Busy
  <2>1. l \in DOMAIN made /\ made'[l] = made[l] /\ made[l].artifact # Nothing
        BY <1>7 DEF InTree
  <2>2. CASE t \in Busy /\ workers'[t].index = workers[t].index /\ workers'[t].before = workers[t].before
    <3>1. l \in InTree(t)
          BY <2>1, <2>2 DEF InTree
    <3> QED BY <1>1, <2>1, <2>2, <3>1 DEF CopiesComplete
  <2>3. CASE workers'[t].index = Load /\ workers[t].pc = "ready"
    <3>1. l[1] \in workers'[t].before \cup {t}
          BY DEF InTree
    <3>2. workers[l[1]].pc = "ready"
          BY <2>3, <3>1 DEF Places, GoesOnReading
    <3>3. made[l].saved \/ LostInBreak(l)
          BY <2>1, <3>2 DEF SavedOrNot
    <3>4. CASE LostInBreak(l)
          BY <3>4, <1>1, <2>1 DEF LostInBreak, MayBeLost
    <3>5. CASE Has(Load, l) \/ MayBeLost(l)
          BY <3>5, <1>1, <2>1, <2>3
    <3>6. CASE \E u \in Worker : workers[u].pc = "saving"
      <4>1. PICK u \in Worker : workers[u].pc = "saving"
            BY <3>6
      <4>2. u # t /\ workers'[u].at \notin {"idle", "done"} /\ workers'[t].at \notin {"idle", "done"}
            BY <4>1, <2>3, <1>8 DEF Busy
      <4>3. l \in DOMAIN made'
            BY DEF InTree
      <4> QED BY <4>2, <4>3, <1>3, TwoAtWorkNext
    <3> QED BY <2>1, <3>3, <3>4, <3>5, <3>6 DEF FileComplete, Recorded
  <2> QED BY <2>2, <2>3 DEF GoesOnReading
<1>10. FileComplete'
  <2> SUFFICES ASSUME NEW l \in Recorded'
               PROVE  Has(Load, l)' \/ (\E t \in Worker : workers'[t].pc = "saving") \/ MayBeLost(l)'
      BY DEF FileComplete
  <2>1. l \in Recorded
        BY <1>6, <1>7 DEF Recorded, SavedOrNot
  <2>2. Load' = Load
        BY DEF Load
  <2> QED BY <1>1, <1>8, <2>1, <2>2 DEF FileComplete, Has, Recorded
<1> QED BY <1>2, <1>3, <1>4, <1>5, <1>6, <1>9, <1>10

LEMMA OneWorkerReads ==
  ASSUME RecordsInv, IInv', file' = file, broken' = broken,
         NEW t \in Worker, NEW w, workers' = [workers EXCEPT ![t] = w],
         \A l \in DOMAIN made : l \in DOMAIN made' /\ made'[l] = made[l],
         \A l \in DOMAIN made' : LayerAsItWas(l),
         workers[t].at # "done", workers[t].pc # "saving",
         w.at \in {"made", "running", "closing", "done"}, w.at = "done" => w.pc = "ready",
         w.before = IF workers[t].at = "idle" THEN {u \in Worker : workers[u].at = "done"} ELSE workers[t].before,
         \/ w.index = workers[t].index /\ workers[t].at # "idle"
         \/ w.index = Load /\ workers[t].pc = "ready",
         \/ w.pc = "ready"
         \/ /\ w.pc = workers[t].pc /\ w.layer = workers[t].layer
            /\ w.index = workers[t].index /\ w.mixed = workers[t].mixed
         \/ /\ w.layer \in DOMAIN made' /\ w.layer[1] = t /\ made'[w.layer].artifact = Nothing
            /\ w.pc \in {"computing", "register"}
  PROVE  RecordsInv'
<1>1. \A u \in Worker : workers'[u] = IF u = t THEN w ELSE workers[u]
      BY DEF RecordsInv, IInv, Shapes
<1>2. Later
      BY <1>1 DEF Later
<1>3. ASSUME NEW u \in Worker PROVE GoesOnReading(u) /\ WorksOn(u)
  <2>1. CASE u = t
        BY <2>1, <1>1 DEF GoesOnReading, WorksOn, RecordsInv, Places, Busy
  <2>2. CASE u # t
        BY <2>2, <1>1 DEF GoesOnReading, WorksOn, RecordsInv, Places, Busy
  <2> QED BY <2>1, <2>2
<1> QED BY <1>2, <1>3, ReadingStep

\* Such a step may leave the layers alone.
LEMMA SameLayers ==
  ASSUME made' = made
  PROVE  /\ \A l \in DOMAIN made : l \in DOMAIN made' /\ made'[l] = made[l]
         /\ \A l \in DOMAIN made' : LayerAsItWas(l)
<1> QED BY DEF LayerAsItWas

LEMMA MakeRecords ==
  ASSUME RecordsInv, IInv', NEW t \in Worker, Make(t) PROVE RecordsInv'
<1> DEFINE w == [NoWorker EXCEPT !.at = "made", !.index = Load, !.before = {u \in Worker : workers[u].at = "done"}]
<1>1. /\ workers[t].at = "idle" /\ file' = file /\ broken' = broken
      /\ workers' = [workers EXCEPT ![t] = w] /\ made' = made
      BY DEF Make
<1>2. workers[t].pc = "ready"
      BY <1>1 DEF RecordsInv, IInv, Numbered
<1>3. /\ w.at = "made" /\ w.index = Load /\ w.pc = "ready"
      /\ w.before = {u \in Worker : workers[u].at = "done"}
      BY DEF NoWorker
<1> HIDE DEF w
<1> QED BY <1>1, <1>2, <1>3, SameLayers, OneWorkerReads

LEMMA StartRecords ==
  ASSUME RecordsInv, IInv', NEW t \in Worker, Start(t) PROVE RecordsInv'
<1> DEFINE w == [workers[t] EXCEPT !.at = "running", !.index = Load]
<1>1. /\ workers[t].at = "made" /\ workers[t].pc = "ready" /\ file' = file /\ broken' = broken
      /\ workers' = [workers EXCEPT ![t] = w] /\ made' = made
      BY DEF Start
<1>2. w.at = "running" /\ w.index = Load /\ w.pc = "ready" /\ w.before = workers[t].before
      BY <1>1 DEF RecordsInv, IInv, Shapes, WorkerFields
<1> HIDE DEF w
<1> QED BY <1>1, <1>2, SameLayers, OneWorkerReads

LEMMA ComputeRecords ==
  ASSUME RecordsInv, IInv', NEW t \in Worker, Compute(t) \/ ComputeFails(t) PROVE RecordsInv'
<1> DEFINE w(pc) == [workers[t] EXCEPT !.pc = pc]
<1>1. PICK pc \in {"register", "ready"} :
        /\ workers[t].pc = "computing" /\ file' = file /\ broken' = broken
        /\ workers' = [workers EXCEPT ![t] = w(pc)] /\ made' = made
      BY DEF Compute, ComputeFails
<1>2. /\ w(pc).at = workers[t].at /\ w(pc).pc = pc /\ w(pc).layer = workers[t].layer
      /\ w(pc).index = workers[t].index /\ w(pc).before = workers[t].before
      BY DEF RecordsInv, IInv, Shapes, WorkerFields
<1>3. /\ workers[t].at \in {"made", "running", "closing"}
      /\ workers[t].layer \in DOMAIN made /\ workers[t].layer[1] = t /\ made[workers[t].layer].artifact = Nothing
      BY <1>1 DEF RecordsInv, AtWork, Places, IInv, Numbered
<1> HIDE DEF w
<1> QED BY <1>1, <1>2, <1>3, SameLayers, OneWorkerReads

LEMMA FinishRecords ==
  ASSUME RecordsInv, IInv', NEW t \in Worker, Finish(t) PROVE RecordsInv'
<1> DEFINE w == [workers[t] EXCEPT !.at = "done"]
<1>1. /\ workers[t].pc = "ready" /\ workers[t].at \in {"running", "closing"} /\ file' = file /\ broken' = broken
      /\ workers' = [workers EXCEPT ![t] = w] /\ made' = made
      BY DEF Finish
<1>2. w.at = "done" /\ w.pc = "ready" /\ w.index = workers[t].index /\ w.before = workers[t].before
      BY <1>1 DEF RecordsInv, IInv, Shapes, WorkerFields
<1> HIDE DEF w
<1> QED BY <1>1, <1>2, SameLayers, OneWorkerReads

\* A turn begins a tool, or its report, on a layer of its own.
LEMMA NewLayerRecords ==
  ASSUME RecordsInv, IInv', file' = file, broken' = broken,
         NEW t \in Worker, NEW w, NEW rec, NEW layer, layer = <<t, workers[t].count + 1>>,
         workers' = [workers EXCEPT ![t] = w], made' = With(made, layer, rec),
         DOMAIN rec = LayerFields, rec.artifact = Nothing, rec.saved = FALSE,
         rec.parent = Nothing \/ rec.parent \in InTree(t),
         workers[t].pc = "ready", workers[t].at \in {"made", "running"},
         w.at \in {"made", "running", "closing"}, w.before = workers[t].before,
         w.index = workers[t].index, w.layer = layer, w.pc \in {"computing", "register"}
  PROVE  RecordsInv'
<1>1. /\ layer \notin DOMAIN made /\ DOMAIN made' = DOMAIN made \cup {layer}
      /\ \A l \in DOMAIN made : made'[l] = made[l]
      /\ made'[layer] = rec
      BY NewLayer DEF RecordsInv
<1>2. layer[1] = t /\ layer # Nothing
  <2>1. Len(<<t, workers[t].count + 1>>) = 2 /\ Len(<<>>) = 0
        OBVIOUS
  <2> QED BY <2>1 DEF Nothing
<1>3. \A l \in DOMAIN made' : LayerAsItWas(l)
      BY <1>1, <1>2 DEF LayerAsItWas
<1> QED BY <1>1, <1>2, <1>3, OneWorkerReads

LEMMA BeginsRecords ==
  ASSUME RecordsInv, IInv', NEW t \in Worker, NEW pc \in {"computing", "register"},
         NEW path, NEW parent, NEW asked, NEW times,
         Begins(t, pc, path, parent, asked, times),
         workers[t].at \in {"made", "running"}, workers[t].pc = "ready",
         parent = Nothing \/ parent \in InTree(t)
  PROVE  RecordsInv'
<1> DEFINE layer == <<t, workers[t].count + 1>>
           rec == [path |-> path, parent |-> parent, asked |-> asked,
                   after |-> disk, artifact |-> Nothing, saved |-> FALSE]
           w == [workers[t] EXCEPT !.pc = pc, !.layer = layer, !.left = times, !.count = @ + 1]
<1>1. /\ made' = With(made, layer, rec) /\ workers' = [workers EXCEPT ![t] = w]
      /\ file' = file /\ broken' = broken
      BY DEF Begins
<1>2. /\ w.pc = pc /\ w.layer = layer /\ w.at = workers[t].at
      /\ w.index = workers[t].index /\ w.before = workers[t].before
      BY DEF RecordsInv, IInv, Shapes, WorkerFields
<1>3. DOMAIN rec = LayerFields /\ rec.artifact = Nothing /\ rec.saved = FALSE /\ rec.parent = parent
      BY DEF LayerFields
<1> HIDE DEF w, rec, layer
<1>4. layer = <<t, workers[t].count + 1>>
      BY DEF layer
<1> QED BY <1>1, <1>2, <1>3, <1>4, NewLayerRecords

LEMMA ToolRecords ==
  ASSUME RecordsInv, IInv', NEW t \in Worker,
         \/ LoadSource(t)
         \/ \E parent \in InTree(t) : \/ \E name \in TempName : ChooseTemp(t, name, parent)
                                      \/ \E path \in Given : ChooseGiven(t, path, parent)
  PROVE  RecordsInv'
<1>1. CASE LoadSource(t)
  <2>1. PICK times : Begins(t, "register", <<"source">>, Nothing, FALSE, times)
        BY <1>1 DEF LoadSource
  <2>2. workers[t].at \in {"made", "running"} /\ workers[t].pc = "ready"
        BY <1>1 DEF LoadSource, Ready
  <2> QED BY <2>1, <2>2, BeginsRecords
<1>2. ASSUME NEW parent \in InTree(t), NEW name, ChooseTemp(t, name, parent) PROVE RecordsInv'
  <2>1. PICK path : Begins(t, "computing", path, parent, FALSE, 2)
        BY <1>2 DEF ChooseTemp
  <2>2. workers[t].at \in {"made", "running"} /\ workers[t].pc = "ready"
        BY <1>2 DEF ChooseTemp, Ready
  <2> QED BY <2>1, <2>2, BeginsRecords
<1>3. ASSUME NEW parent \in InTree(t), NEW path, ChooseGiven(t, path, parent) PROVE RecordsInv'
  <2>1. PICK asked : Begins(t, "computing", <<path>>, parent, asked, 2)
        BY <1>3 DEF ChooseGiven
  <2>2. workers[t].at \in {"made", "running"} /\ workers[t].pc = "ready"
        BY <1>3 DEF ChooseGiven, Ready
  <2> QED BY <2>1, <2>2, BeginsRecords
<1> QED BY <1>1, <1>2, <1>3

LEMMA WriteReportRecords ==
  ASSUME RecordsInv, IInv', NEW t \in Worker, WriteReport(t) PROVE RecordsInv'
<1> DEFINE layer == <<t, workers[t].count + 1>>
           rec == [path |-> <<"report", t>>, parent |-> Nothing, asked |-> FALSE,
                   after |-> disk, artifact |-> Nothing, saved |-> FALSE]
           w == [workers[t] EXCEPT !.at = "closing", !.pc = "register", !.layer = layer,
                                   !.left = 1, !.count = @ + 1]
<1>1. /\ workers[t].at = "running" /\ workers[t].pc = "ready"
      /\ made' = With(made, layer, rec) /\ workers' = [workers EXCEPT ![t] = w]
      /\ file' = file /\ broken' = broken
      BY DEF WriteReport, Ready
<1>2. /\ w.pc = "register" /\ w.layer = layer /\ w.at = "closing"
      /\ w.index = workers[t].index /\ w.before = workers[t].before
      BY DEF RecordsInv, IInv, Shapes, WorkerFields
<1>3. DOMAIN rec = LayerFields /\ rec.artifact = Nothing /\ rec.saved = FALSE /\ rec.parent = Nothing
      BY DEF LayerFields
<1> HIDE DEF w, rec, layer
<1>4. layer = <<t, workers[t].count + 1>>
      BY DEF layer
<1> QED BY <1>1, <1>2, <1>3, <1>4, NewLayerRecords

-----------------------------------------------------------------------------
(* Registrations                                                           *)

\* The record register_layer makes: it has the artifact the layer has, if any, and
\* names the artifact of the parent, if that is on the copy.
RegisteredAs(record, layer, newId) ==
  /\ DOMAIN record = RecordFields /\ record.layer = layer /\ record.path = made[layer].path
  /\ record.id = IF made[layer].artifact = Nothing THEN newId ELSE made[layer].artifact
  /\ LET parent == made[layer].parent
     IN IF parent = Nothing THEN record.inputs = {}
        ELSE record.inputs = {made[parent].artifact} \/ MayBeLost(parent)

LEMMA RegisteredRecord ==
  ASSUME RecordsInv, NEW t \in Worker, workers[t].pc = "register",
         NEW layer, layer = workers[t].layer, NEW newId, newId # Nothing
  PROVE  \E record : /\ RegisterLayer(workers[t].index, layer, newId) = Upsert(workers[t].index, record)
                     /\ RegisteredAs(record, layer, newId)
<1> DEFINE index == workers[t].index
           path == made[layer].path
           had == {k \in DOMAIN index : Key(index[k]) = <<path, layer>>}
           origin == made[layer].parent
           parent == FindRecord(index, origin)
           record == [layer |-> layer, path |-> path, id |-> IF had = {} THEN newId ELSE index[Min(had)].id,
                      inputs |-> IF parent = Nothing THEN {} ELSE {parent.id}]
<1>1. RegisterLayer(index, layer, newId) = Upsert(index, record)
      BY DEF RegisterLayer
<1>2. /\ index \in Seq(ToSet(index)) /\ \A k \in DOMAIN index : RecordTrue(index[k])
      /\ DOMAIN index = 1..Len(index) /\ Len(index) \in Nat
  <2>1. index \in Seq(ToSet(index)) /\ \A k \in DOMAIN index : RecordTrue(index[k])
        BY DEF RecordsInv, CopiesTrue, IndexTrue
  <2> QED BY <2>1, LenProperties
<1>3. /\ layer \in DOMAIN made /\ layer[1] = t
      /\ made[layer].artifact = Nothing \/ Has(index, layer)
      BY DEF RecordsInv, AtWork
<1>4. record.id = IF made[layer].artifact = Nothing THEN newId ELSE made[layer].artifact
  <2>1. CASE had = {}
    <3>1. ~Has(index, layer)
          BY <1>2, <2>1 DEF Has, Key, RecordTrue
    <3> QED BY <1>3, <2>1, <3>1
  <2>2. CASE had # {}
    <3>1. had \in SUBSET Nat
          BY <1>2
    <3>2. Min(had) \in had
      <4> HIDE DEF had
      <4> QED BY <2>2, <3>1, MinOf
    <3>3. index[Min(had)].layer = layer /\ RecordTrue(index[Min(had)])
          BY <1>2, <3>2 DEF Key
    <3> QED BY <2>2, <3>3 DEF RecordTrue
  <2> QED BY <2>1, <2>2
<1>5. IF origin = Nothing THEN record.inputs = {}
      ELSE record.inputs = {made[origin].artifact} \/ MayBeLost(origin)
  <2>1. CASE Has(index, origin)
    <3>1. PICK k \in DOMAIN index : index[k].layer = origin /\ parent = index[k]
      <4> HIDE DEF index
      <4> QED BY <1>2, <2>1, FindsRecord
    <3>2. RecordTrue(index[k])
          BY <1>2
    <3>3. origin \in DOMAIN made /\ parent.id = made[origin].artifact /\ DOMAIN parent = RecordFields
          BY <3>1, <3>2 DEF RecordTrue
    <3>4. origin # Nothing /\ parent # Nothing
      <4>1. DOMAIN <<>> = {} /\ RecordFields # {}
            BY DEF RecordFields
      <4> QED BY <3>3, <4>1 DEF RecordsInv, Places, Nothing
    <3> QED BY <3>3, <3>4
  <2>2. CASE ~Has(index, origin)
    <3>1. parent = Nothing
      <4> HIDE DEF index
      <4> QED BY <1>2, <2>2, FindsRecord
    <3>2. origin # Nothing => MayBeLost(origin)
      <4>1. t \in Busy
            BY DEF RecordsInv, IInv, Numbered, Places, Busy
      <4>2. origin # Nothing => origin \in InTree(t)
            BY <1>3 DEF RecordsInv, Parents
      <4> QED BY <2>2, <4>1, <4>2 DEF RecordsInv, CopiesComplete
    <3> QED BY <3>1, <3>2
  <2> QED BY <2>1, <2>2
<1>6. DOMAIN record = RecordFields /\ record.layer = layer /\ record.path = path
      BY DEF RecordFields
<1> HIDE DEF record
<1>7. RegisteredAs(record, layer, newId)
      BY <1>4, <1>5, <1>6 DEF RegisteredAs
<1> QED BY <1>1, <1>7

\* A layer's record is told by the layer alone, since its path never changes.
LEMMA OneRecordEach ==
  ASSUME RecordsInv, NEW t \in Worker, NEW record, NEW layer \in DOMAIN made,
         record.layer = layer, record.path = made[layer].path
  PROVE  FindRecord(Upsert(workers[t].index, record), layer) = record
<1>1. PICK index : index = workers[t].index
      OBVIOUS
<1>2. index \in Seq(ToSet(index)) /\ \A k \in DOMAIN index : RecordTrue(index[k])
      BY <1>1 DEF RecordsInv, CopiesTrue, IndexTrue
<1>3. PICK new : new = Upsert(index, record)
      OBVIOUS
<1>4. /\ new \in Seq(ToSet(new)) /\ Has(new, record.layer)
      /\ \A k \in DOMAIN new :
           new[k] = record \/ \E j \in DOMAIN index : new[k] = index[j] /\ Key(index[j]) # Key(record)
  <2>1. Keeps(index, record, new)
        BY <1>2, <1>3, UpsertKeeps
  <2> QED BY <2>1 DEF Keeps
<1>5. PICK k \in DOMAIN new : new[k].layer = layer /\ FindRecord(new, layer) = new[k]
      BY <1>4, FindsRecord
<1>6. \A j \in DOMAIN index : index[j].layer = layer => Key(index[j]) = Key(record)
      BY <1>2 DEF RecordTrue, Key
<1> QED BY <1>1, <1>3, <1>4, <1>5, <1>6

\* What a layer was made from is in the tree of its turn for good.
LEMMA ParentsStay ==
  ASSUME RecordsInv, Later, DOMAIN made' = DOMAIN made
  PROVE  Parents'
<1> SUFFICES ASSUME NEW l \in DOMAIN made', made'[l].parent # Nothing
             PROVE  made'[l].parent \in InTree(l[1])'
    BY DEF Parents, InTree
<1>1. l[1] \in Worker /\ workers'[l[1]].before = workers[l[1]].before
      BY DEF RecordsInv, Places, Later
<1>2. made[l].parent \in InTree(l[1]) /\ made'[l].parent = made[l].parent
      BY DEF RecordsInv, Parents, Later
<1> QED BY <1>1, <1>2 DEF InTree, Later

LEMMA BeginSaveRecords ==
  ASSUME RecordsInv, IInv', NEW t \in Worker, BeginSave(t) PROVE RecordsInv'
<1>1. PICK layer : layer = workers[t].layer
      OBVIOUS
<1>2. PICK newId : newId = <<layer, workers[t].left>>
      OBVIOUS
<1>3. newId # Nothing
  <2>1. Len(<<layer, workers[t].left>>) = 2 /\ Len(<<>>) = 0
        OBVIOUS
  <2> QED BY <1>2, <2>1 DEF Nothing
<1>4. workers[t].pc = "register" /\ file' = [whole |-> FALSE, records |-> <<>>] /\ broken' = broken
      BY DEF BeginSave
<1>a. PICK record : /\ RegisterLayer(workers[t].index, layer, newId) = Upsert(workers[t].index, record)
                    /\ RegisteredAs(record, layer, newId)
      BY <1>1, <1>3, <1>4, RegisteredRecord
<1>5. /\ DOMAIN record = RecordFields /\ record.layer = layer /\ record.path = made[layer].path
      /\ record.id = IF made[layer].artifact = Nothing THEN newId ELSE made[layer].artifact
      BY <1>a DEF RegisteredAs
<1>6. /\ layer \in DOMAIN made /\ layer[1] = t
      /\ workers[t].at \in {"made", "running", "closing"}
      BY <1>1, <1>4 DEF RecordsInv, AtWork, IInv, Numbered, Places
<1>7. PICK new : new = Upsert(workers[t].index, record)
      OBVIOUS
<1>b. IndexTrue(workers[t].index) /\ workers[t].index \in Seq(ToSet(workers[t].index))
      BY DEF RecordsInv, CopiesTrue, IndexTrue
<1>8. /\ new \in Seq(ToSet(new)) /\ \A l : Has(workers[t].index, l) => Has(new, l)
      /\ Has(new, layer)
      /\ \A k \in DOMAIN new : new[k] = record \/ \E j \in DOMAIN workers[t].index : new[k] = workers[t].index[j]
  <2>1. PICK index : index = workers[t].index
        OBVIOUS
  <2>2. /\ new \in Seq(ToSet(new)) /\ \A l : Has(index, l) => Has(new, l)
        /\ Has(new, record.layer)
        /\ \A k \in DOMAIN new :
              new[k] = record \/ \E j \in DOMAIN index : new[k] = index[j] /\ Key(index[j]) # Key(record)
    <3>1. index \in Seq(ToSet(index)) /\ new = Upsert(index, record)
          BY <1>b, <1>7, <2>1
    <3>2. Keeps(index, record, new)
          BY <3>1, UpsertKeeps
    <3> QED BY <3>2 DEF Keeps
  <2> QED BY <1>5, <2>1, <2>2
<1>9. FindRecord(new, layer) = record
      BY <1>5, <1>6, <1>7, OneRecordEach
<1>10. /\ workers' = [workers EXCEPT ![t].index = new, ![t].pc = "saving", ![t].mixed = FALSE]
       /\ made' = IF made[layer].artifact # Nothing THEN made
                  ELSE [made EXCEPT ![layer].artifact = FindRecord(new, layer).id]
       BY <1>1, <1>2, <1>a, <1>7 DEF BeginSave
<1>11. /\ \A u \in Worker : u # t => workers'[u] = workers[u]
       /\ workers'[t].index = new /\ workers'[t].pc = "saving" /\ workers'[t].mixed = FALSE
       /\ workers'[t].layer = layer /\ workers'[t].at = workers[t].at /\ workers'[t].before = workers[t].before
       BY <1>1, <1>10 DEF RecordsInv, IInv, Shapes, WorkerFields
<1>12. /\ DOMAIN made' = DOMAIN made
       /\ \A l \in DOMAIN made : l # layer => made'[l] = made[l]
       /\ made'[layer].artifact = record.id /\ record.id # Nothing
       /\ made'[layer].path = made[layer].path /\ made'[layer].parent = made[layer].parent
       /\ made'[layer].saved = made[layer].saved
       /\ made[layer].artifact # Nothing => made'[layer] = made[layer]
       BY <1>3, <1>5, <1>6, <1>9, <1>10 DEF RecordsInv, IInv, Shapes, LayerFields
<1>13. Later
       BY <1>4, <1>11, <1>12 DEF Later
<1>14. \A l \in DOMAIN made : MayBeLost(l) => MayBeLost(l)'
       BY <1>13, LostStays DEF RecordsInv
<1>15. RecordTrue(record)'
  <2>1. PICK parent : parent = made[layer].parent
        OBVIOUS
  <2>2. IF parent = Nothing THEN record.inputs = {}
        ELSE record.inputs = {made[parent].artifact} \/ MayBeLost(parent)
        BY <1>a, <2>1 DEF RegisteredAs
  <2>3. parent # Nothing => parent \in DOMAIN made /\ made[parent].artifact # Nothing
        BY <1>6, <2>1 DEF RecordsInv, Parents, InTree
  <2>4. IF parent = Nothing THEN record.inputs = {}
        ELSE record.inputs = {made'[parent].artifact} \/ MayBeLost(parent)'
        BY <1>13, <1>14, <2>2, <2>3 DEF Later
  <2> QED BY <1>5, <1>6, <1>12, <2>1, <2>4 DEF RecordTrue
<1>16. CopiesTrue'
  <2>1. ASSUME NEW k \in DOMAIN new PROVE RecordTrue(new[k])'
    <3>1. PICK r : r = new[k]
          OBVIOUS
    <3>2. r = record \/ RecordTrue(r)
          BY <1>b, <1>8, <3>1 DEF IndexTrue
    <3>3. RecordTrue(r)'
          BY <1>13, <1>15, <3>2, RecordStays DEF RecordsInv
    <3> QED BY <3>1, <3>3
  <2>2. IndexTrue(new)'
        BY <1>8, <2>1 DEF IndexTrue
  <2>3. ASSUME NEW u \in Worker PROVE IndexTrue(workers[u].index)'
    <3>1. PICK index : index = workers'[u].index
          OBVIOUS
    <3>2. index = new \/ IndexTrue(index)
          BY <1>11, <3>1 DEF RecordsInv, CopiesTrue
    <3>3. IndexTrue(index)'
          BY <1>13, <2>2, <3>2, IndexStays DEF RecordsInv
    <3> QED BY <3>1, <3>3
  <2>4. DOMAIN file' = {"whole", "records"} /\ file'.records = <<>>
        BY <1>4
  <2> QED BY <2>3, <2>4, EmptyIndex DEF CopiesTrue
<1>17. Places'
       BY <1>4, <1>6, <1>11, <1>12 DEF RecordsInv, Places
<1>18. AtWork'
  <2> SUFFICES ASSUME NEW u \in Worker, workers'[u].pc # "ready", NEW l, l = workers'[u].layer
               PROVE  /\ l \in DOMAIN made' /\ l[1] = u
                      /\ workers'[u].pc \in {"computing", "register", "saving"}
                      /\ workers'[u].pc = "computing" => made'[l].artifact = Nothing
                      /\ workers'[u].pc = "register" => made'[l].artifact = Nothing \/ Has(workers'[u].index, l)
                      /\ workers'[u].pc = "saving" => made'[l].artifact # Nothing /\ Has(workers'[u].index, l)
                      /\ workers'[u].pc = "saving" /\ workers'[u].mixed => \E v \in Worker : Overlapped(v, u)'
      BY DEF AtWork, Has
  <2>1. CASE u = t
        BY <1>6, <1>8, <1>11, <1>12, <2>1
  <2>2. CASE u # t
    <3>1. workers'[u] = workers[u] /\ l \in DOMAIN made /\ l[1] = u
          BY <1>11, <2>2 DEF RecordsInv, AtWork
    <3>2. made'[l] = made[l]
          BY <1>6, <1>12, <2>2, <3>1
    <3>3. workers[u].pc = "saving" /\ workers[u].mixed => \E v \in Worker : Overlapped(v, u)
          BY DEF RecordsInv, AtWork
    <3>4. ASSUME NEW v \in Worker, Overlapped(v, u) PROVE Overlapped(v, u)'
          BY <1>13, <3>4 DEF Overlapped, Later
    <3>5. /\ workers[u].pc \in {"computing", "register", "saving"}
          /\ workers[u].pc = "computing" => made[l].artifact = Nothing
          /\ workers[u].pc = "register" => made[l].artifact = Nothing \/ Has(workers[u].index, l)
          /\ workers[u].pc = "saving" => made[l].artifact # Nothing /\ Has(workers[u].index, l)
          BY <3>1 DEF RecordsInv, AtWork
    <3> QED BY <1>12, <3>1, <3>2, <3>3, <3>4, <3>5
  <2> QED BY <2>1, <2>2
<1>19. Parents'
       BY <1>12, <1>13, ParentsStay
<1>20. SavedOrNot'
  <2> SUFFICES ASSUME NEW l \in DOMAIN made'
               PROVE  /\ made'[l].saved \in BOOLEAN
                      /\ made'[l].saved => made'[l].artifact # Nothing
                      /\ made'[l].artifact # Nothing =>
                           made'[l].saved \/ LostInBreak(l)' \/ (workers'[l[1]].pc = "saving" /\ workers'[l[1]].layer = l)
      BY DEF SavedOrNot, LostInBreak
  <2>1. CASE l = layer
        BY <1>6, <1>11, <1>12, <2>1 DEF RecordsInv, SavedOrNot
  <2>2. CASE l # layer
    <3>1. l \in DOMAIN made /\ made'[l] = made[l] /\ l[1] \in Worker
          BY <1>12, <2>2 DEF RecordsInv, Places
    <3>2. workers[l[1]].pc = "saving" => l[1] # t
          BY <1>4
    <3>3. LostInBreak(l) => LostInBreak(l)'
          BY <1>4 DEF LostInBreak
    <3>4. workers[l[1]].pc = "saving" => workers'[l[1]] = workers[l[1]]
          BY <1>11, <3>1, <3>2
    <3> QED BY <3>1, <3>3, <3>4 DEF RecordsInv, SavedOrNot
  <2> QED BY <2>1, <2>2
<1>21. CopiesComplete'
  <2> SUFFICES ASSUME NEW u \in Worker, u \in Busy', NEW l \in InTree(u)'
               PROVE  Has(workers'[u].index, l) \/ MayBeLost(l)'
      BY DEF CopiesComplete, Has, Busy
  <2>1. u \in Busy /\ workers'[u].before = workers[u].before /\ l \in DOMAIN made
        /\ l[1] \in workers[u].before \cup {u}
        BY <1>6, <1>11, <1>12 DEF Busy, InTree
  <2>2. Has(workers[u].index, l) => Has(workers'[u].index, l)
        BY <1>8, <1>11
  <2>3. CASE l \in InTree(u)
        BY <1>14, <2>1, <2>2, <2>3 DEF RecordsInv, CopiesComplete
  <2>4. CASE l \notin InTree(u)
    <3>1. l = layer
          BY <1>12, <2>1, <2>4 DEF InTree
    <3>2. t \notin workers[u].before
          BY <1>4 DEF RecordsInv, Places
    <3> QED BY <1>6, <1>8, <1>11, <2>1, <3>1, <3>2
  <2> QED BY <2>3, <2>4
<1>22. FileComplete'
       BY <1>11 DEF FileComplete
<1> QED BY <1>16, <1>17, <1>18, <1>19, <1>20, <1>21, <1>22 DEF RecordsInv

\* What EndSave does to the turns.
LEMMA AfterSave ==
  ASSUME RecordsInv, NEW t \in Worker, NEW whole \in BOOLEAN, EndSave(t, whole)
  PROVE  /\ workers[t].pc = "saving"
         /\ \A u \in Worker :
              /\ workers'[u].at = workers[u].at /\ workers'[u].before = workers[u].before
              /\ workers'[u].index = workers[u].index /\ workers'[u].layer = workers[u].layer
         /\ workers'[t].pc \in {"ready", "register"}
         /\ \A u \in Worker : u # t =>
              /\ workers'[u].pc = workers[u].pc
              /\ workers'[u].mixed => workers[u].mixed \/ workers[u].pc = "saving"
<1> DEFINE v(u) == [workers[u] EXCEPT !.mixed = @ \/ workers[u].pc = "saving"]
<1>1. /\ workers[t].pc = "saving"
      /\ workers' = [u \in Worker |-> IF u = t THEN Goes(t) ELSE v(u)]
      BY DEF EndSave
<1>2. ASSUME NEW u \in Worker
      PROVE  /\ v(u).at = workers[u].at /\ v(u).before = workers[u].before
             /\ v(u).index = workers[u].index /\ v(u).layer = workers[u].layer
             /\ v(u).pc = workers[u].pc /\ v(u).mixed = (workers[u].mixed \/ workers[u].pc = "saving")
  BY DEF RecordsInv, IInv, Shapes, WorkerFields
<1>3. /\ Goes(t).at = workers[t].at /\ Goes(t).before = workers[t].before
      /\ Goes(t).index = workers[t].index /\ Goes(t).layer = workers[t].layer
      /\ Goes(t).pc \in {"ready", "register"}
      BY DEF RecordsInv, IInv, Shapes, WorkerFields, Goes
<1> HIDE DEF v
<1>4. \A u \in Worker : workers'[u] = IF u = t THEN Goes(t) ELSE v(u)
      BY <1>1
<1> QED BY <1>1, <1>2, <1>3, <1>4

LEMMA EndSaveRecords ==
  ASSUME RecordsInv, IInv', NEW t \in Worker, NEW whole \in BOOLEAN, EndSave(t, whole) PROVE RecordsInv'
<1>1. PICK layer : layer = workers[t].layer
      OBVIOUS
<1>2. /\ workers[t].pc = "saving"
      /\ \A u \in Worker :
           /\ workers'[u].at = workers[u].at /\ workers'[u].before = workers[u].before
           /\ workers'[u].index = workers[u].index /\ workers'[u].layer = workers[u].layer
      /\ workers'[t].pc \in {"ready", "register"}
      /\ \A u \in Worker : u # t =>
           /\ workers'[u].pc = workers[u].pc
           /\ workers'[u].mixed => workers[u].mixed \/ workers[u].pc = "saving"
      BY AfterSave
<1>3. /\ layer \in DOMAIN made /\ layer[1] = t /\ made[layer].artifact # Nothing
      /\ Has(workers[t].index, layer)
      /\ workers[t].at \notin {"idle", "done"}
      BY <1>1, <1>2 DEF RecordsInv, AtWork, IInv, Numbered, Places
<1>4. /\ made' = [made EXCEPT ![layer].saved = TRUE] /\ broken' = broken
      /\ whole \/ workers[t].mixed
      /\ file' = [whole |-> whole, records |-> IF whole THEN workers[t].index ELSE <<>>]
      BY <1>1 DEF EndSave
<1>5. /\ DOMAIN made' = DOMAIN made
      /\ \A l \in DOMAIN made : l # layer => made'[l] = made[l]
      /\ made'[layer].artifact = made[layer].artifact /\ made'[layer].saved = TRUE
      /\ made'[layer].path = made[layer].path /\ made'[layer].parent = made[layer].parent
      BY <1>3, <1>4 DEF RecordsInv, IInv, Shapes, LayerFields
<1>6. Later
      BY <1>2, <1>4, <1>5 DEF Later
<1>7. \A l \in DOMAIN made : MayBeLost(l) => MayBeLost(l)'
      BY <1>6, LostStays DEF RecordsInv
<1>8. ASSUME NEW u \in Worker, NEW v \in Worker, Overlapped(u, v) PROVE Overlapped(u, v)'
      BY <1>6, <1>8 DEF Overlapped, Later
<1>9. ASSUME NEW u \in Worker, u # t, workers[u].pc = "saving"
      PROVE  workers[u].at \notin {"idle", "done"}
      BY <1>9 DEF RecordsInv, IInv, Numbered, Places
<1>10. CopiesTrue'
  <2>1. ASSUME NEW u \in Worker PROVE IndexTrue(workers[u].index)'
    <3>1. PICK index : index = workers[u].index
          OBVIOUS
    <3>2. IndexTrue(index)'
          BY <1>6, <3>1, IndexStays DEF RecordsInv, CopiesTrue
    <3> QED BY <1>2, <3>1, <3>2
  <2>2. DOMAIN file' = {"whole", "records"} /\ file'.records = IF whole THEN workers'[t].index ELSE <<>>
        BY <1>2, <1>4
  <2> QED BY <2>1, <2>2, EmptyIndex DEF CopiesTrue
<1>11. Places'
  <2>1. ASSUME NEW u \in Worker, workers'[u].at = "done" PROVE workers'[u].pc = "ready"
        BY <1>2, <1>3, <2>1 DEF RecordsInv, Places
  <2> QED BY <1>2, <1>4, <1>5, <2>1 DEF RecordsInv, Places
<1>12. AtWork'
  <2> SUFFICES ASSUME NEW u \in Worker, workers'[u].pc # "ready", NEW l, l = workers'[u].layer
               PROVE  /\ l \in DOMAIN made' /\ l[1] = u
                      /\ workers'[u].pc \in {"computing", "register", "saving"}
                      /\ workers'[u].pc = "computing" => made'[l].artifact = Nothing
                      /\ workers'[u].pc = "register" => made'[l].artifact = Nothing \/ Has(workers'[u].index, l)
                      /\ workers'[u].pc = "saving" => made'[l].artifact # Nothing /\ Has(workers'[u].index, l)
                      /\ workers'[u].pc = "saving" /\ workers'[u].mixed => \E v \in Worker : Overlapped(v, u)'
      BY DEF AtWork, Has
  <2>1. CASE u = t
        BY <1>1, <1>2, <1>3, <1>5, <2>1
  <2>2. CASE u # t
    <3>1. workers[u].pc # "ready" /\ l = workers[u].layer
          BY <1>2, <2>2
    <3>2. /\ l \in DOMAIN made /\ l[1] = u
          /\ workers[u].pc \in {"computing", "register", "saving"}
          /\ workers[u].pc = "computing" => made[l].artifact = Nothing
          /\ workers[u].pc = "register" => made[l].artifact = Nothing \/ Has(workers[u].index, l)
          /\ workers[u].pc = "saving" => made[l].artifact # Nothing /\ Has(workers[u].index, l)
          BY <3>1 DEF RecordsInv, AtWork
    <3>3. made'[l] = made[l]
          BY <1>3, <1>5, <2>2, <3>2
    <3>4. workers'[u].pc = "saving" /\ workers'[u].mixed => \E v \in Worker : Overlapped(v, u)'
      <4>1. CASE workers[u].pc = "saving"
        <5>1. Overlapped(t, u)
              BY <1>3, <1>9, <2>2, <4>1, TwoAtWork DEF RecordsInv
        <5> QED BY <1>8, <5>1
      <4> QED BY <1>2, <2>2, <4>1
    <3> QED BY <1>2, <1>5, <2>2, <3>2, <3>3, <3>4
  <2> QED BY <2>1, <2>2
<1>13. Parents'
       BY <1>5, <1>6, ParentsStay
<1>14. SavedOrNot'
  <2> SUFFICES ASSUME NEW l \in DOMAIN made'
               PROVE  /\ made'[l].saved \in BOOLEAN
                      /\ made'[l].saved => made'[l].artifact # Nothing
                      /\ made'[l].artifact # Nothing =>
                           made'[l].saved \/ LostInBreak(l)' \/ (workers'[l[1]].pc = "saving" /\ workers'[l[1]].layer = l)
      BY DEF SavedOrNot, LostInBreak
  <2>1. CASE l = layer
        BY <1>3, <1>5, <2>1
  <2>2. CASE l # layer
    <3>1. l \in DOMAIN made /\ made'[l] = made[l] /\ l[1] \in Worker
          BY <1>5, <2>2 DEF RecordsInv, Places
    <3>2. LostInBreak(l) => LostInBreak(l)'
          BY <1>4 DEF LostInBreak
    <3>3. workers[l[1]].layer = l => l[1] # t
          BY <1>1, <2>2
    <3>4. workers[l[1]].pc = "saving" /\ workers[l[1]].layer = l =>
            workers'[l[1]].pc = "saving" /\ workers'[l[1]].layer = l
          BY <1>2, <3>1, <3>3
    <3> QED BY <3>1, <3>2, <3>4 DEF RecordsInv, SavedOrNot
  <2> QED BY <2>1, <2>2
<1>15. CopiesComplete'
  <2> SUFFICES ASSUME NEW u \in Worker, u \in Busy', NEW l \in InTree(u)'
               PROVE  Has(workers'[u].index, l) \/ MayBeLost(l)'
      BY DEF CopiesComplete, Has, Busy
  <2>1. u \in Busy /\ l \in InTree(u) /\ l \in DOMAIN made
        BY <1>2, <1>5 DEF Busy, InTree
  <2> QED BY <1>2, <1>7, <2>1 DEF RecordsInv, CopiesComplete
<1>16. FileComplete'
  <2> SUFFICES ASSUME NEW l \in Recorded'
               PROVE  Has(Load, l)' \/ MayBeLost(l)'
      BY DEF FileComplete
  <2>1. l \in DOMAIN made /\ (l = layer \/ l \in Recorded) /\ made[l].artifact # Nothing /\ l[1] \in Worker
        BY <1>3, <1>5 DEF Recorded, RecordsInv, SavedOrNot, Places
  <2>2. CASE ~whole
    <3>1. PICK u \in Worker : Overlapped(u, t)
          BY <1>2, <1>4, <2>2 DEF RecordsInv, AtWork
    <3>2. t \notin workers[l[1]].before
          BY <1>3, <2>1 DEF RecordsInv, Places
    <3> QED BY <1>7, <2>1, <3>1, <3>2 DEF MayBeLost
  <2>3. CASE whole
    <3>1. Has(Load, l)' = Has(workers[t].index, l)
          BY <1>4, <2>3 DEF Load, Has
    <3>2. CASE l[1] \in workers[t].before \cup {t}
      <4>1. t \in Busy /\ l \in InTree(t)
            BY <1>3, <2>1, <3>2 DEF Busy, InTree
      <4>2. Has(workers[t].index, l) \/ MayBeLost(l)
            BY <4>1 DEF RecordsInv, CopiesComplete
      <4> QED BY <1>7, <2>1, <3>1, <4>2
    <3>3. CASE l[1] \notin workers[t].before \cup {t}
      <4>1. Overlapped(l[1], t) /\ t \notin workers[l[1]].before
            BY <1>3, <2>1, <3>3 DEF RecordsInv, Places, Overlapped
      <4> QED BY <1>7, <2>1, <4>1 DEF MayBeLost
    <3> QED BY <3>2, <3>3
  <2> QED BY <2>2, <2>3
<1> QED BY <1>10, <1>11, <1>12, <1>13, <1>14, <1>15, <1>16 DEF RecordsInv

-----------------------------------------------------------------------------
(* Writes that break off                                                   *)

\* What a break that cuts these layers' saves does to a turn.
BrokenOff(u, cut) ==
  /\ workers'[u].index = workers[u].index /\ workers'[u].layer = workers[u].layer
  /\ workers'[u].before = workers[u].before /\ workers'[u].mixed = workers[u].mixed
  /\ \/ workers'[u].at = workers[u].at
     \/ u \in Busy /\ workers'[u].at = "done" /\ workers'[u].pc = "ready"
  /\ \/ workers'[u].pc = workers[u].pc
     \/ workers'[u].pc = "ready"
     \/ workers[u].pc = "saving" /\ workers'[u].pc = "register"
  /\ workers[u].pc = "saving" => workers'[u].pc = "saving" \/ workers[u].layer \in cut

LEMMA BreakStep ==
  ASSUME RecordsInv, IInv', NEW cut, made' = made, file' = file,
         broken' = Append(broken, IF cut = {} THEN {} ELSE Recorded \cup cut),
         \A u \in Worker : BrokenOff(u, cut)
  PROVE  RecordsInv'
<1>1. PICK lost : lost = IF cut = {} THEN {} ELSE Recorded \cup cut
      OBVIOUS
<1>2. /\ broken' \in Seq(ToSet(broken')) /\ broken'[Len(broken) + 1] = lost
      /\ Len(broken) + 1 \in DOMAIN broken'
      /\ \A k \in DOMAIN broken : k \in DOMAIN broken' /\ broken'[k] = broken[k]
  <2>1. broken \in Seq(ToSet(broken)) /\ broken' = Append(broken, lost)
        BY <1>1 DEF RecordsInv, Places
  <2> QED BY <2>1, AppendAny
<1>3. Later
      BY <1>2 DEF Later, BrokenOff, Busy
<1>4. \A l \in DOMAIN made : MayBeLost(l) => MayBeLost(l)'
      BY <1>3, LostStays DEF RecordsInv
<1>5. \A l \in lost : LostInBreak(l)' /\ MayBeLost(l)'
      BY <1>2 DEF LostInBreak, MayBeLost
<1>6. CopiesTrue'
  <2>1. ASSUME NEW u \in Worker PROVE IndexTrue(workers[u].index)'
    <3>1. PICK index : index = workers[u].index
          OBVIOUS
    <3>2. IndexTrue(index)'
          BY <1>3, <3>1, IndexStays DEF RecordsInv, CopiesTrue
    <3> QED BY <3>1, <3>2 DEF BrokenOff
  <2>2. IndexTrue(file.records)'
    <3>1. PICK index : index = file.records
          OBVIOUS
    <3>2. IndexTrue(index)'
          BY <1>3, <3>1, IndexStays DEF RecordsInv, CopiesTrue
    <3> QED BY <3>1, <3>2
  <2> QED BY <2>1, <2>2 DEF RecordsInv, CopiesTrue
<1>7. Places'
  <2>1. ASSUME NEW u \in Worker
        PROVE  /\ workers'[u].at \in {"idle", "made", "running", "closing", "done"}
               /\ workers'[u].at = "done" => workers'[u].pc = "ready"
               /\ \A v \in workers'[u].before : v \in Worker /\ workers'[v].at = "done"
        BY <1>3 DEF RecordsInv, Places, BrokenOff, Later
  <2>2. \A l \in DOMAIN made : l # Nothing /\ l[1] \in Worker /\ workers'[l[1]].at # "idle"
        BY <1>3 DEF RecordsInv, Places, Later
  <2> QED BY <1>2, <2>1, <2>2 DEF Places
<1>8. AtWork'
  <2> SUFFICES ASSUME NEW u \in Worker, workers'[u].pc # "ready", NEW l, l = workers'[u].layer
               PROVE  /\ l \in DOMAIN made' /\ l[1] = u
                      /\ workers'[u].pc \in {"computing", "register", "saving"}
                      /\ workers'[u].pc = "computing" => made'[l].artifact = Nothing
                      /\ workers'[u].pc = "register" => made'[l].artifact = Nothing \/ Has(workers'[u].index, l)
                      /\ workers'[u].pc = "saving" => made'[l].artifact # Nothing /\ Has(workers'[u].index, l)
                      /\ workers'[u].pc = "saving" /\ workers'[u].mixed => \E v \in Worker : Overlapped(v, u)'
      BY DEF AtWork, Has
  <2>1. /\ workers[u].pc # "ready" /\ l = workers[u].layer /\ workers'[u].mixed = workers[u].mixed
        /\ workers'[u].index = workers[u].index
        /\ workers'[u].pc = workers[u].pc \/ (workers[u].pc = "saving" /\ workers'[u].pc = "register")
        BY DEF BrokenOff
  <2>2. /\ l \in DOMAIN made /\ l[1] = u
        /\ workers[u].pc \in {"computing", "register", "saving"}
        /\ workers[u].pc = "computing" => made[l].artifact = Nothing
        /\ workers[u].pc = "register" => made[l].artifact = Nothing \/ Has(workers[u].index, l)
        /\ workers[u].pc = "saving" => made[l].artifact # Nothing /\ Has(workers[u].index, l)
        /\ workers[u].pc = "saving" /\ workers[u].mixed => \E v \in Worker : Overlapped(v, u)
        BY <2>1 DEF RecordsInv, AtWork
  <2>3. ASSUME NEW v \in Worker, Overlapped(v, u) PROVE Overlapped(v, u)'
        BY <1>3, <2>3 DEF Overlapped, Later
  <2> QED BY <2>1, <2>2, <2>3
<1>9. Parents'
      BY <1>3, ParentsStay
<1>10. SavedOrNot'
  <2> SUFFICES ASSUME NEW l \in DOMAIN made
               PROVE  /\ made[l].saved \in BOOLEAN
                      /\ made[l].saved => made[l].artifact # Nothing
                      /\ made[l].artifact # Nothing =>
                           made[l].saved \/ LostInBreak(l)' \/ (workers'[l[1]].pc = "saving" /\ workers'[l[1]].layer = l)
      BY DEF SavedOrNot, LostInBreak
  <2>1. l[1] \in Worker
        BY DEF RecordsInv, Places
  <2>2. LostInBreak(l) => LostInBreak(l)'
        BY <1>2 DEF LostInBreak
  <2>3. workers[l[1]].pc = "saving" /\ workers[l[1]].layer = l =>
          l \in lost \/ (workers'[l[1]].pc = "saving" /\ workers'[l[1]].layer = l)
        BY <1>1, <2>1 DEF BrokenOff
  <2> QED BY <1>5, <2>2, <2>3 DEF RecordsInv, SavedOrNot
<1>11. CopiesComplete'
  <2> SUFFICES ASSUME NEW u \in Worker, u \in Busy', NEW l \in InTree(u)'
               PROVE  Has(workers'[u].index, l) \/ MayBeLost(l)'
      BY DEF CopiesComplete, Has, Busy
  <2>1. u \in Busy /\ l \in InTree(u) /\ l \in DOMAIN made /\ workers'[u].index = workers[u].index
        BY DEF Busy, InTree, BrokenOff
  <2> QED BY <1>4, <2>1 DEF RecordsInv, CopiesComplete
<1>12. FileComplete'
  <2> SUFFICES ASSUME NEW l \in Recorded
               PROVE  Has(Load, l) \/ (\E u \in Worker : workers'[u].pc = "saving") \/ MayBeLost(l)'
      BY DEF FileComplete, Recorded, Load, Has
  <2>1. CASE \E u \in Worker : workers[u].pc = "saving"
    <3>1. (\E u \in Worker : workers'[u].pc = "saving") \/ cut # {}
          BY <2>1 DEF BrokenOff
    <3>2. cut # {} => l \in lost
          BY <1>1
    <3> QED BY <1>5, <3>1, <3>2
  <2>2. CASE ~\E u \in Worker : workers[u].pc = "saving"
        BY <1>4, <2>2 DEF RecordsInv, FileComplete, Recorded
  <2> QED BY <2>1, <2>2
<1> QED BY <1>6, <1>7, <1>8, <1>9, <1>10, <1>11, <1>12 DEF RecordsInv

LEMMA SaveFailsRecords ==
  ASSUME RecordsInv, IInv', NEW t \in Worker, SaveFails(t) PROVE RecordsInv'
<1> DEFINE cut == {workers[t].layer}
<1>1. /\ workers[t].pc = "saving" /\ made' = made /\ file' = file
      /\ broken' = Append(broken, IF cut = {} THEN {} ELSE Recorded \cup cut)
      /\ workers' = [workers EXCEPT ![t] = Goes(t)]
      BY DEF SaveFails
<1>2. /\ Goes(t).at = workers[t].at /\ Goes(t).before = workers[t].before
      /\ Goes(t).index = workers[t].index /\ Goes(t).layer = workers[t].layer
      /\ Goes(t).mixed = workers[t].mixed /\ Goes(t).pc \in {"ready", "register"}
      BY DEF RecordsInv, IInv, Shapes, WorkerFields, Goes
<1>3. \A u \in Worker : workers'[u] = IF u = t THEN Goes(t) ELSE workers[u]
      BY <1>1 DEF RecordsInv, IInv, Shapes
<1>4. ASSUME NEW u \in Worker PROVE BrokenOff(u, cut)
      BY <1>1, <1>2, <1>3 DEF BrokenOff
<1> HIDE DEF cut
<1> QED BY <1>1, <1>4, BreakStep

LEMMA RestartRecords ==
  ASSUME RecordsInv, IInv', Restart PROVE RecordsInv'
<1> DEFINE cut == {workers[t].layer : t \in {u \in Busy : workers[u].pc = "saving"}}
           v(u) == [workers[u] EXCEPT !.at = "done", !.pc = "ready"]
<1>1. /\ made' = made /\ file' = file
      /\ broken' = Append(broken, IF cut = {} THEN {} ELSE Recorded \cup cut)
      /\ workers' = [u \in Worker |-> IF u \in Busy THEN v(u) ELSE workers[u]]
      BY DEF Restart
<1>2. ASSUME NEW u \in Worker
      PROVE  /\ v(u).at = "done" /\ v(u).pc = "ready" /\ v(u).index = workers[u].index
             /\ v(u).layer = workers[u].layer /\ v(u).before = workers[u].before
             /\ v(u).mixed = workers[u].mixed
      BY DEF RecordsInv, IInv, Shapes, WorkerFields
<1>3. ASSUME NEW u \in Worker, workers[u].pc = "saving" PROVE u \in Busy /\ workers[u].layer \in cut
  <2>1. u \in Busy
        BY <1>3 DEF RecordsInv, IInv, Numbered, Places, Busy
  <2> QED BY <1>3, <2>1
<1> HIDE DEF v, cut
<1>4. \A u \in Worker : workers'[u] = IF u \in Busy THEN v(u) ELSE workers[u]
      BY <1>1
<1>5. ASSUME NEW u \in Worker PROVE BrokenOff(u, cut)
      BY <1>2, <1>3, <1>4 DEF BrokenOff
<1> QED BY <1>1, <1>5, BreakStep

-----------------------------------------------------------------------------
(* The records' invariant holds                                            *)

LEMMA InitRecords == WorkspaceInit => RecordsInv
<1> SUFFICES ASSUME WorkspaceInit PROVE RecordsInv
    OBVIOUS
<1>1. /\ DOMAIN made = {} /\ broken = <<>> /\ file = [whole |-> TRUE, records |-> <<>>]
      /\ workers = [t \in Worker |-> NoWorker]
      BY DEF WorkspaceInit, Nothing
<1>2. IInv
      BY InitIInv
<1>3. ASSUME NEW t \in Worker
      PROVE  /\ workers[t].at = "idle" /\ workers[t].pc = "ready" /\ workers[t].before = {}
             /\ workers[t].index = <<>>
      BY <1>1 DEF NoWorker
<1>4. DOMAIN file = {"whole", "records"} /\ file.records = <<>>
      BY <1>1
<1>5. CopiesTrue
      BY <1>3, <1>4, EmptyIndex DEF CopiesTrue
<1>6. <<>> \in Seq(ToSet(<<>>))
      BY EmptySeq
<1>7. Places
      BY <1>1, <1>3, <1>6 DEF Places
<1>8. AtWork /\ Parents /\ SavedOrNot /\ CopiesComplete /\ FileComplete
      BY <1>1, <1>3 DEF AtWork, Parents, SavedOrNot, CopiesComplete, FileComplete, Busy, Recorded
<1> QED BY <1>2, <1>5, <1>7, <1>8 DEF RecordsInv

LEMMA StutterRecords ==
  ASSUME RecordsInv, IInv', UNCHANGED workspaceVars PROVE RecordsInv'
<1> USE DEF workspaceVars
<1>1. \A l : MayBeLost(l)' = MayBeLost(l)
      BY DEF MayBeLost, Overlapped
<1>2. CopiesTrue'
  <2>1. Later
        BY DEF Later
  <2>2. ASSUME NEW t \in Worker PROVE IndexTrue(workers[t].index)'
    <3>1. PICK index : index = workers[t].index
          OBVIOUS
    <3>2. IndexTrue(index)'
          BY <2>1, <3>1, IndexStays DEF RecordsInv, CopiesTrue
    <3> QED BY <3>1, <3>2
  <2>3. IndexTrue(file.records)'
    <3>1. PICK index : index = file.records
          OBVIOUS
    <3>2. IndexTrue(index)'
          BY <2>1, <3>1, IndexStays DEF RecordsInv, CopiesTrue
    <3> QED BY <3>1, <3>2
  <2> QED BY <2>2, <2>3 DEF RecordsInv, CopiesTrue
<1>3. Places' /\ Parents'
      BY DEF RecordsInv, Places, Parents, InTree
<1>4. AtWork'
      BY DEF RecordsInv, AtWork, Has, Overlapped
<1>5. SavedOrNot'
      BY DEF RecordsInv, SavedOrNot, LostInBreak
<1>6. CopiesComplete' /\ FileComplete'
      BY <1>1 DEF RecordsInv, CopiesComplete, FileComplete, Busy, InTree, Has, Recorded, Load
<1> QED BY <1>2, <1>3, <1>4, <1>5, <1>6 DEF RecordsInv

LEMMA NextRecords == RecordsInv /\ [WorkspaceNext]_workspaceVars => RecordsInv'
<1> SUFFICES ASSUME RecordsInv, [WorkspaceNext]_workspaceVars PROVE RecordsInv'
    OBVIOUS
<1>1. IInv'
      BY NextIInv DEF RecordsInv
<1>2. CASE Restart
      BY <1>1, <1>2, RestartRecords
<1>3. ASSUME NEW t \in Worker, Make(t) \/ Start(t) \/ Compute(t) \/ ComputeFails(t) \/ Finish(t)
      PROVE  RecordsInv'
      BY <1>1, <1>3, MakeRecords, StartRecords, ComputeRecords, FinishRecords
<1>4. ASSUME NEW t \in Worker,
             \/ LoadSource(t)
             \/ \E parent \in InTree(t) : \/ \E name \in TempName : ChooseTemp(t, name, parent)
                                          \/ \E path \in Given : ChooseGiven(t, path, parent)
      PROVE  RecordsInv'
      BY <1>1, <1>4, ToolRecords
<1>5. ASSUME NEW t \in Worker, BeginSave(t) \/ SaveFails(t) \/ WriteReport(t)
      PROVE  RecordsInv'
      BY <1>1, <1>5, BeginSaveRecords, SaveFailsRecords, WriteReportRecords
<1>6. ASSUME NEW t \in Worker, NEW whole \in BOOLEAN, EndSave(t, whole)
      PROVE  RecordsInv'
      BY <1>1, <1>6, EndSaveRecords
<1>7. CASE UNCHANGED workspaceVars
      BY <1>1, <1>7, StutterRecords
<1> QED BY <1>2, <1>3, <1>4, <1>5, <1>6, <1>7 DEF WorkspaceNext

\* In every workspace, each turn's copy of the index and the file hold true records
\* only, a turn at work has on its copy every layer of its state tree that no break
\* and no other turn may have taken away, and so has the file while nobody writes it
\* (ArtifactIndex._load, register_layer, _save; AgentToolbox.set_session_id).
THEOREM RecordsInvAlways == WorkspaceSpec => []RecordsInv
<1> QED BY InitRecords, NextRecords, PTL DEF WorkspaceSpec

\* An artifact on record stays there, for the desktop and for later turns, unless a
\* write broke off or two turns were at work at once: writing the whole copy at every
\* registration (ArtifactIndex._save) loses no record of the turns before.
THEOREM ArtifactsKeptAlways == WorkspaceSpec => []ArtifactsKept
<1>1. RecordsInv => ArtifactsKept
  <2> SUFFICES ASSUME RecordsInv, NEW layer \in Recorded, Has(Load, layer)
               PROVE  FindRecord(Load, layer) # Nothing
      BY DEF ArtifactsKept, RecordsInv, FileComplete
  <2>1. PICK index : index = Load
        OBVIOUS
  <2>2. IndexTrue(index)
        BY <2>1, LoadTrue DEF RecordsInv
  <2>3. PICK k \in DOMAIN index : FindRecord(index, layer) = index[k]
        BY <2>1, <2>2, FindsRecord DEF IndexTrue
  <2>4. DOMAIN index[k] = RecordFields
        BY <2>2 DEF IndexTrue, RecordTrue
  <2>5. "id" \in RecordFields /\ "id" \notin DOMAIN Nothing
        BY DEF RecordFields, Nothing
  <2> QED BY <2>1, <2>3, <2>4, <2>5
<1> QED BY <1>1, RecordsInvAlways, PTL

\* A record has the id its layer was given when it was made, whatever turn registered
\* it again, and names the artifact of the layer it was made from, unless that one's
\* record may have been lost (ArtifactIndex.register_layer).
THEOREM LineageKnownAlways == WorkspaceSpec => []LineageKnown
<1>1. RecordsInv => LineageKnown
  <2> SUFFICES ASSUME RecordsInv, NEW k \in DOMAIN Load
               PROVE  LET record == Load[k]
                          parent == made[record.layer].parent
                      IN /\ record.id = made[record.layer].artifact
                         /\ record.inputs = (IF parent = Nothing THEN {} ELSE {made[parent].artifact}) \/ MayBeLost(parent)
      BY DEF LineageKnown
  <2>1. PICK record : record = Load[k]
        OBVIOUS
  <2>2. RecordTrue(record)
        BY <2>1, LoadTrue DEF RecordsInv, IndexTrue
  <2> QED BY <2>1, <2>2 DEF RecordTrue
<1> QED BY <1>1, RecordsInvAlways, PTL
=============================================================================
