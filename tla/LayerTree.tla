------------------------------ MODULE LayerTree ------------------------------
(***************************************************************************)
(* The state tree of GIS layers and the resolution of layer references     *)
(* (core/state_tree.py, core/layer_reference_resolver.py).                 *)
(*                                                                         *)
(* A name, a reference or any other slot value is a sequence of words, so  *)
(* that "part of the text" is a contiguous subsequence: a match inside a   *)
(* word is abstracted away.  A layer's id tells its position in the tree.   *)
(***************************************************************************)
EXTENDS Naturals, FiniteSets, SequencesExt

None == 0

\* Any sequence: of its own elements.
IsList(s) == s \in Seq(ToSet(s))

\* What the metadata of a layer tells the rules apart; "" and {} are unknown.
Layer(name, kind) ==
  [name |-> name, kind |-> kind, crs |-> "", geom |-> "", fields |-> {},
   parents |-> <<>>, act |-> "", role |-> "input", dist |-> <<>>,
   extent |-> {}, pixel |-> 0, nodata |-> FALSE, dtype |-> "", garbled |-> FALSE]

EmptyTree == [layers |-> <<>>, aliases |-> <<>>]

\* Drawn at random in the code: a text of its own, which is no part of another id.
LayerId(i) == [k \in 1..(i + 2) |-> IF k \in {1, i + 2} THEN "#" ELSE "+"]

\* No id, and no id that has yet to be drawn for one more layer than n.
IsName(name) == IsList(name) /\ (name # <<>> => name[Len(name)] # "#")
IsDrawn(ref, n) == \A i \in 1..Len(ref) : ref = LayerId(i) => i <= n

CandidateAliases(l, i) == {LayerId(i), l.name}

Offered(layers, new) == UNION {CandidateAliases(layers[i], i) : i \in new}

FirstOffering(layers, new, a) == Min({i \in new : a \in CandidateAliases(layers[i], i)})

\* Mutant: a new layer takes over the aliases of an older one.
RegisterOver(aliases, layers, new) ==
  [a \in DOMAIN aliases \cup Offered(layers, new) |->
     IF a \in Offered(layers, new) THEN FirstOffering(layers, new, a) ELSE aliases[a]]

\* setdefault, for one new layer after the other: a name that already is an alias
\* keeps its first layer.
RegisterAliases(aliases, layers, new) ==
  [a \in DOMAIN aliases \cup Offered(layers, new) |->
     IF a \in DOMAIN aliases THEN aliases[a] ELSE FirstOffering(layers, new, a)]

AddLayers(tree, new) ==
  LET layers == tree.layers \o new IN
  [layers  |-> layers,
   aliases |-> RegisterAliases(tree.aliases, layers, (Len(tree.layers) + 1)..Len(layers))]

AddLayer(tree, l) == AddLayers(tree, <<l>>)

\* from_dict: saved aliases win, then every layer offers its own in order.
FromDict(payload) ==
  [layers  |-> payload.layers,
   aliases |-> RegisterAliases(payload.aliases, payload.layers, DOMAIN payload.layers)]

\* A tree as it is saved: what its layers come from and what its names mean is there.
IsTree(t) ==
  /\ IsList(t.layers)
  /\ \A i \in DOMAIN t.layers : \A k \in DOMAIN t.layers[i].parents : t.layers[i].parents[k] \in DOMAIN t.layers
  /\ \A a \in DOMAIN t.aliases : t.aliases[a] \in DOMAIN t.layers

\* Nothing in a tree is called like a layer it does not have.
IdsDrawn(t) ==
  /\ \A i \in DOMAIN t.layers : IsName(t.layers[i].name) /\ t.layers[i].crs # "#"
  /\ \A a \in DOMAIN t.aliases : IsDrawn(a, Len(t.layers))

LatestRefs == {<<"latest">>, <<"latest", "layer">>, <<"latest", "result">>}
FinalRefs  == {<<"final">>, <<"final", "result">>}

LatestLayer(tree) == Len(tree.layers)

IsFinal(l) == l.role = "final" \/ l.act = "export_result"

LatestFinalLayer(tree) == Max({None} \cup {i \in DOMAIN tree.layers : IsFinal(tree.layers[i])})

-----------------------------------------------------------------------------
(* layer_reference_resolver.py: a phrase becomes a query, and the layer    *)
(* with the best score answers it.                                         *)

PreviousHint == "before"
LatestInputHint == "just_loaded"

Contained(a, b) ==
  \E i \in 0..(Len(b) - Len(a)) : SubSeq(b, i + 1, i + Len(a)) = a

OperationHints ==
  << [op |-> "buffer", hints |-> {"buffer"}],
     [op |-> "csv_points", hints |-> {"point", "points"}],
     [op |-> "filter", hints |-> {"extract", "clip", "intersect", "located"}],
     [op |-> "export", hints |-> {"export", "final"}],
     [op |-> "boundary", hints |-> {"boundary"}] >>

OperationFromText(text) ==
  FoldRight(LAMBDA h, op : IF h.hints \cap ToSet(text) # {} THEN h.op ELSE op, OperationHints, "")

ActionGroup(op) ==
  CASE op = "buffer"     -> {"buffer_layer"}
    [] op = "csv_points" -> {"csv_to_points"}
    [] op = "filter"     -> {"extract_by_location", "extract_by_attribute", "clip_layer",
                             "intersect_layer", "join_by_location"}
    [] op = "export"     -> {"export_result"}
    [] OTHER             -> {}

IsDistance(word) == word \in {"100", "500"}

Query(text, op, relation) ==
  [text |-> text, op |-> op, relation |-> relation,
   role |-> IF op = "export" THEN "final" ELSE "",
   dist |-> LET nums == SelectSeq(text, IsDistance) IN IF nums = <<>> THEN <<>> ELSE <<Head(nums)>>]

\* LayerReferencePhraseParser.parse, where kept is the phrase without its hints.
PhraseQuery(ref, kept) ==
  IF LatestInputHint \in ToSet(ref) THEN [Query(ref, "", "latest") EXCEPT !.role = "input"]
  ELSE IF kept = ref THEN Query(ref, OperationFromText(ref), "self")
  ELSE LET text == IF kept = <<>> THEN ref ELSE kept IN Query(text, OperationFromText(text), "predecessor")

ParsePhrase(ref) == PhraseQuery(ref, SelectSeq(ref, LAMBDA w : w # PreviousHint))

\* The parts of _candidate_text a query can be found in.
CandidateText(tree, i) ==
  LET l == tree.layers[i] IN
  {LayerId(i), l.name} \cup (IF l.act = "" THEN {} ELSE {<<l.act>>})
    \cup {LayerId(p) : p \in ToSet(l.parents)}
    \cup {tree.layers[p].name : p \in ToSet(l.parents)}

Points(test, n) == IF test THEN n ELSE 0

HasRole(q, l) == q.role # "" /\ q.role = l.role

ScoreRecord(tree, q, i) ==
  LET l == tree.layers[i] IN
    Points(q.text = l.name, 10)
  + Points(\E part \in CandidateText(tree, i) : Contained(q.text, part), 6)
  + Points(Contained(l.name, q.text), 4)
  + Points(l.act \in ActionGroup(q.op), 5)
  + Points(q.op = "boundary" /\ (l.geom = "polygon" \/ "boundary" \in ToSet(l.name)), 2)
  + Points(q.dist # <<>> /\ q.dist = l.dist, 5)
  + Points(HasRole(q, l), 4)
  + Points(q.role = "final" /\ IsFinal(l), 4)
  + Points(l.role = "final", 1)

\* The newest of the layers with the highest score.
Newest(score) == Max({i \in DOMAIN score : \A j \in DOMAIN score : score[i] >= score[j]})

BestRecord(tree, q) == Newest([i \in DOMAIN tree.layers |-> ScoreRecord(tree, q, i)])

LatestRoleRecord(tree, role) ==
  Max({None} \cup {i \in DOMAIN tree.layers : tree.layers[i].role = role})

\* resolve_with_report: a score below 2 is no answer.
Accepted(tree, q, best) ==
  IF ScoreRecord(tree, q, best) < 2 THEN None
  ELSE IF q.relation = "predecessor" /\ 1 \in DOMAIN tree.layers[best].parents
  THEN tree.layers[best].parents[1]
  ELSE best

ResolveQuery(tree, q) ==
  IF q.relation = "latest" THEN LatestRoleRecord(tree, q.role)
  ELSE IF tree.layers = <<>> THEN None
  ELSE Accepted(tree, q, BestRecord(tree, q))

ResolvePhrase(tree, ref) == ResolveQuery(tree, ParsePhrase(ref))

\* GISStateTree.resolve; None is the KeyError.
Resolve(tree, ref) ==
  IF ref = <<>> THEN None
  ELSE IF ref \in LatestRefs /\ tree.layers # <<>> THEN LatestLayer(tree)
  ELSE IF ref \in FinalRefs /\ LatestFinalLayer(tree) # None THEN LatestFinalLayer(tree)
  ELSE IF ref \in DOMAIN tree.aliases THEN tree.aliases[ref]
  ELSE ResolvePhrase(tree, ref)

HasLayer(tree, ref) == Resolve(tree, ref) # None

\* set_alias moves a name to another layer, whoever held it; here several names.
SetAliases(tree, names, target) ==
  LET moved == names \ {<<>>}
  IN [layers  |-> tree.layers,
      aliases |-> [a \in DOMAIN tree.aliases \cup moved |->
                     IF a \in moved THEN Resolve(tree, target) ELSE tree.aliases[a]]]
=============================================================================
