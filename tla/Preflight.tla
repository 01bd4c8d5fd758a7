------------------------------ MODULE Preflight ------------------------------
(***************************************************************************)
(* The rules that look at an action before it runs (rules/rule_registry.py,*)
(* rules/preflight.py, the semantic rules of semantic_tools.py) and the    *)
(* policies they consult.  A plan is an action with slots; a slot's value  *)
(* is a sequence of words, a list slot's value a sequence of references,   *)
(* a field slot's value the sequence of the fields it names.  Input slots  *)
(* already have their canonical names (ALIASES are left out; an export's   *)
(* output_name, a name of a file, is file_name), and words that only       *)
(* differ in case are one word.                                            *)
(***************************************************************************)
EXTENDS LayerTree

Plan(action, input) == [action |-> action, input |-> input]

Slot(p, s) == IF s \in DOMAIN p.input THEN p.input[s] ELSE <<>>

\* Slots as they are given: strings and arrays.
ListValues(slots) == \A s \in DOMAIN slots : IsList(slots[s])

\* The YAML contract of an action, for one or two actions of every rule.
Contract(required, kinds, geoms, fields) ==
  [required |-> required, kinds |-> kinds, geoms |-> geoms, fields |-> fields]

PairKinds(a, b) == <<<<a, "vector">>, <<b, "vector">>>>

\* TLC evaluates the record of a function it is applied to: a CASE is lazy.
ToolContract(action) ==
  CASE action = "buffer_layer" ->
         Contract(<<"input_ref", "distance">>, <<<<"input_ref", "vector">>>>, <<>>, <<>>)
    [] action = "clip_layer" ->
         Contract(<<"input_ref", "overlay_ref">>, PairKinds("input_ref", "overlay_ref"),
                  <<<<"overlay_ref", "polygon">>>>, <<>>)
    [] action \in {"intersect_layer", "difference_layer"} ->
         Contract(<<"input_ref", "overlay_ref">>, PairKinds("input_ref", "overlay_ref"), <<>>, <<>>)
    [] action = "extract_by_location" ->
         Contract(<<"input_ref", "predicate", "intersect_ref">>,
                  PairKinds("input_ref", "intersect_ref"), <<>>, <<>>)
    [] action = "join_by_location" ->
         Contract(<<"input_ref", "join_ref", "predicate">>, PairKinds("input_ref", "join_ref"),
                  <<>>, <<<<"join_ref", <<"join_fields">>>>>>)
    [] action = "join_by_nearest" ->
         Contract(<<"input_ref", "join_ref">>, PairKinds("input_ref", "join_ref"),
                  <<>>, <<<<"join_ref", <<"join_fields">>>>>>)
    [] action = "count_points_in_polygon" ->
         Contract(<<"polygon_ref", "point_ref">>, PairKinds("polygon_ref", "point_ref"),
                  <<<<"polygon_ref", "polygon">>, <<"point_ref", "point">>>>, <<>>)
    [] action = "extract_by_attribute" ->
         Contract(<<"input_ref", "field", "operator">>, <<<<"input_ref", "vector">>>>,
                  <<>>, <<<<"input_ref", <<"field">>>>>>)
    [] action = "select_by_expression" ->
         Contract(<<"input_ref", "expression">>, <<<<"input_ref", "vector">>>>, <<>>, <<>>)
    [] action = "field_calculator" ->
         Contract(<<"input_ref", "field_name", "formula">>, <<<<"input_ref", "vector">>>>, <<>>, <<>>)
    [] action = "reproject_layer" ->
         Contract(<<"input_ref", "target_crs">>, <<<<"input_ref", "vector">>>>, <<>>, <<>>)
    [] action = "merge_layers" ->
         Contract(<<"input_refs">>, <<<<"input_refs", "vector">>>>, <<>>, <<>>)
    [] action = "batch_reproject_layers" ->
         Contract(<<"input_refs", "target_crs">>, <<<<"input_refs", "vector">>>>, <<>>, <<>>)
    [] action = "csv_to_points" ->
         Contract(<<"input_ref", "x_field", "y_field">>, <<<<"input_ref", "table">>>>, <<>>, <<>>)
    [] action = "reproject_raster" ->
         Contract(<<"input_ref", "target_crs">>, <<<<"input_ref", "raster">>>>, <<>>, <<>>)
    [] action = "raster_calculator" ->
         Contract(<<"raster_refs", "expression">>, <<<<"raster_refs", "raster">>>>, <<>>, <<>>)
    [] action = "zonal_statistics" ->
         Contract(<<"input_ref", "raster_ref">>, <<<<"input_ref", "vector">>, <<"raster_ref", "raster">>>>,
                  <<<<"input_ref", "polygon">>>>, <<>>)
    [] action = "raster_sampling" ->
         Contract(<<"input_ref", "raster_ref">>, <<<<"input_ref", "vector">>, <<"raster_ref", "raster">>>>,
                  <<<<"input_ref", "point">>>>, <<>>)
    [] action = "export_result" -> Contract(<<"layer_ref", "output_path">>, <<>>, <<>>, <<>>)
    [] action \in {"summarize_layer", "inspect_fields"} ->
         Contract(<<"layer_ref">>, <<>>, <<>>, <<>>)
    [] action \in {"load_vector", "load_csv"} -> Contract(<<"input_path">>, <<>>, <<>>, <<>>)
    [] action = "final_answer" -> Contract(<<"message">>, <<>>, <<>>, <<>>)
    [] OTHER -> Contract(<<"registered">>, <<>>, <<>>, <<>>)

RegisteredTool(action) == ToolContract(action).required # <<"registered">>

SemanticAction(action) ==
  action \notin {"export_result", "summarize_layer", "inspect_fields", "load_vector",
                 "load_csv", "final_answer"}

ListSlots == {"input_refs", "raster_refs"}
LayerSlots == {"input_ref", "overlay_ref", "intersect_ref", "join_ref", "polygon_ref",
               "point_ref", "raster_ref", "layer_ref", "input_refs", "raster_refs"}

\* What is given as a name, or goes into one, holds no id, and a reference none that
\* has yet to be drawn for one more layer than n.
PartsOfNames == {"output_path", "output_dir", "output_format", "file_name", "target_crs", "crs"}
RefsDrawn(slots, n) ==
  /\ \A s \in DOMAIN slots \cap PartsOfNames : "#" \notin ToSet(slots[s])
  /\ \A s \in DOMAIN slots \cap {"output_name"} : IsName(slots[s])
  /\ \A s \in DOMAIN slots \cap (LayerSlots \ ListSlots) : IsDrawn(slots[s], n)

\* The CRS a slot names, or another.
CrsOf(p, s, other) == IF Slot(p, s) = <<>> THEN other ELSE Slot(p, s)[1]

-----------------------------------------------------------------------------
(* Issues (rules/validation.py)                                            *)

NoPatch == <<>>

Issue(code, stage, severity) ==
  [code |-> code, stage |-> stage, severity |-> severity, confirm |-> FALSE,
   steps |-> <<>>, patch |-> NoPatch, missing |-> <<>>, layer |-> <<>>, layers |-> <<>>, fields |-> <<>>]

AskUser(code, layer) == [Issue(code, "preflight", "error") EXCEPT !.layer = layer]
Warning(code, layer) == [Issue(code, "preflight", "warning") EXCEPT !.layer = layer]
UnknownLayer(ref)    == AskUser("unknown_layer", ref)
UnknownField(l, missing) == [AskUser("unknown_field", l.name) EXCEPT !.fields = missing]

\* What is told of several layers has a list of them, and no layer of its own.
OfLayers(issue, layers) == [issue EXCEPT !.layers = [k \in DOMAIN layers |-> layers[k].name]]
UnknownCrs(layers)      == OfLayers(AskUser("unknown_crs", <<>>), layers)

MissingSlots(slots) ==
  [Issue("missing_slot", "semantic", "error") EXCEPT !.missing = slots]

\* A repair the user confirms: steps to run first, then a patch of the slots.
Confirmable(issue, steps, patch) ==
  [issue EXCEPT !.confirm = TRUE, !.steps = steps, !.patch = patch]

One(test, issue) == IF test THEN <<issue>> ELSE <<>>

\* The elements of a list that pass a test, in their order.
Nth(places, k) == CHOOSE n \in places : Cardinality({m \in places : m <= n}) = k

Those(list, Test(_)) ==
  LET places == {k \in DOMAIN list : Test(list[k])}
  IN [k \in 1..Cardinality(places) |-> list[Nth(places, k)]]

-----------------------------------------------------------------------------
(* Semantic rules, in the order they are registered                        *)

Comparisons == {"=", ">", "is_null"}
Predicates  == {"intersects", "contains", "within", "overlaps", "crosses", "touches", "disjoint"}

Missing(slots) == One(slots # <<>>, MissingSlots(slots))

SchemaRequired(p) ==
  IF ~RegisteredTool(p.action) THEN <<Issue("unknown_tool", "semantic", "error")>>
  ELSE Missing(SelectSeq(ToolContract(p.action).required, LAMBDA s : Slot(p, s) = <<>>))

\* missing_required_slots: a merge needs two layers.
RequiredSlots(p) ==
  LET short(s) == Len(Slot(p, s)) < (IF s = "input_refs" THEN 2 ELSE 1)
  IN IF SemanticAction(p.action) THEN Missing(SelectSeq(ToolContract(p.action).required, short)) ELSE <<>>

BufferDistance(p) ==
  One(p.action = "buffer_layer" /\ ~IsDistance(Slot(p, "distance")[1]),
      Issue("invalid_distance", "semantic", "error"))

AttributeOperator(p) ==
  LET op == Slot(p, "operator")[1] IN
  IF p.action # "extract_by_attribute" THEN <<>>
  ELSE IF op \notin Comparisons
  THEN <<Issue("unsupported_attribute_operator", "semantic", "error")>>
  ELSE One(op # "is_null" /\ Slot(p, "value") = <<>>, MissingSlots(<<"value">>))

SpatialPredicate(p) ==
  One(p.action \in {"extract_by_location", "join_by_location"}
        /\ ~(ToSet(Slot(p, "predicate")) \subseteq Predicates),
      Issue("unsupported_spatial_predicate", "semantic", "error"))

\* The issues an IssuesOf(_) finds in the first element of a list in which it finds any.
FirstIn(list, IssuesOf(_)) ==
  LET heard == {k \in DOMAIN list : IssuesOf(list[k]) # <<>>}
      first == {k \in heard : \A j \in heard : k <= j}
  IN IF first = {} THEN <<>> ELSE IssuesOf(list[CHOOSE k \in first : TRUE])

\* RuleRegistry.issues: the first rule that objects is the only one heard.
FirstOf(found) == FirstIn(found, LAMBDA issues : issues)

\* The later rule is only asked when the earlier one is silent.
OrIssues(issues, later) == IF issues # <<>> THEN issues ELSE later

SemanticIssues(p) ==
  OrIssues(SchemaRequired(p),
           FirstOf(<<RequiredSlots(p), BufferDistance(p), AttributeOperator(p), SpatialPredicate(p)>>))

-----------------------------------------------------------------------------
(* Preflight rules of the registry: the kinds, geometries and fields the   *)
(* contract asks for.                                                      *)

Refs(p, s) == IF s \in ListSlots THEN Slot(p, s) ELSE <<Slot(p, s)>>

LayerOf(p, s, tree) == Resolve(tree, Slot(p, s))

LayerKindIssue(tree, ref, i, kind) ==
  CASE i = None -> <<UnknownLayer(ref)>>
    [] tree.layers[i].kind # kind -> <<AskUser("layer_kind_mismatch", tree.layers[i].name)>>
    [] OTHER -> <<>>

LayerKindRequirements(p, tree) ==
  FirstIn(ToolContract(p.action).kinds,
    LAMBDA k : FirstIn(Refs(p, k[1]), LAMBDA ref : LayerKindIssue(tree, ref, Resolve(tree, ref), k[2])))

\* A layer whose geometry is not known passes.
GeometryIssue(tree, i, geom) ==
  One(i # None /\ tree.layers[i].geom \notin {"", geom}, AskUser("geometry_type_mismatch", tree.layers[i].name))

GeometryRequirements(p, tree) ==
  FirstIn(ToolContract(p.action).geoms, LAMBDA g : GeometryIssue(tree, LayerOf(p, g[1], tree), g[2]))

UnknownFields(l, missing) == One(missing # <<>>, UnknownField(l, missing))

FieldIssue(tree, i, fields) ==
  IF i = None THEN <<>>
  ELSE UnknownFields(tree.layers[i], SelectSeq(fields, LAMBDA f : f \notin tree.layers[i].fields))

FieldRequirements(p, tree) ==
  FirstIn(ToolContract(p.action).fields,
    LAMBDA n : FieldIssue(tree, LayerOf(p, n[1], tree),
                          FlattenSeq([s \in DOMAIN n[2] |-> Slot(p, n[2][s])])))

-----------------------------------------------------------------------------
(* Preflight rules of preflight.py                                         *)

GeographicCrs  == {"wgs84"}
RecommendedCrs == "utm"

OutputPath(p) == IF Slot(p, "output_path") # <<>> THEN Slot(p, "output_path") ELSE Slot(p, "output")

NeedsDiskOutput(path) == path \in {<<>>, <<"TEMPORARY_OUTPUT">>}

\* The words of a path that are no part of its file's name.
PathSuffixes == {".geojson", ".gpkg", ".shp", ".tif"}
Directories  == {"dir"}

Stem(path) == Those(path, LAMBDA w : w \notin PathSuffixes \cup Directories)

\* The path is looked up as it is written, before export_result completes it.
OutputOverwrite(p, files) ==
  One(/\ ~NeedsDiskOutput(OutputPath(p))
      /\ Slot(p, "overwrite") = <<>>
      /\ OutputPath(p) \in files,
      Confirmable(Warning("output_exists", OutputPath(p)), <<>>, [overwrite |-> <<"yes">>]))

\* Mutant: the repair gives its output no name of its own.
ReprojectUnnamed(i, crs, name) == Plan("reproject_layer", [input_ref |-> LayerId(i), target_crs |-> <<crs>>])

Reproject(i, crs, name) ==
  Plan("reproject_layer", [input_ref |-> LayerId(i), target_crs |-> <<crs>>, output_name |-> name])

ProjectedName(l) == l.name \o <<"projected">>

BufferCrs(p, tree, i) ==
  LET target == CrsOf(p, "target_crs", RecommendedCrs)
      name   == ProjectedName(tree.layers[i])
  IN IF i = None THEN <<UnknownLayer(Slot(p, "input_ref"))>>
     ELSE CASE tree.layers[i].crs = "" -> <<UnknownCrs(<<tree.layers[i]>>)>>
       [] tree.layers[i].crs \in GeographicCrs ->
            <<Confirmable(AskUser("distance_requires_projected_crs", tree.layers[i].name),
                          <<Reproject(i, target, name)>>,
                          [input_ref |-> name, target_crs |-> <<>>])>>
       [] OTHER -> <<>>

AlignedName(overlay, input) == overlay.name \o <<"to">> \o input.name \o <<"crs">>

\* _preflight_overlay_pair: the overlay is brought to the input's CRS.
AlignedPair(p, tree, i, o, overSlot) ==
  LET name    == AlignedName(tree.layers[o], tree.layers[i])
      unknown == Those(<<tree.layers[i], tree.layers[o]>>, LAMBDA l : l.crs = "")
  IN IF o = None THEN <<UnknownLayer(Slot(p, overSlot))>>
     ELSE IF "" \in {tree.layers[i].crs, tree.layers[o].crs} THEN <<UnknownCrs(unknown)>>
     ELSE One(tree.layers[i].crs # tree.layers[o].crs,
              Confirmable(Warning("overlay_crs_mismatch", tree.layers[o].name),
                          <<Reproject(o, tree.layers[i].crs, name)>>, [s \in {overSlot} |-> name]))

OverlayPair(p, tree, inSlot, overSlot) ==
  IF ~HasLayer(tree, Slot(p, inSlot)) THEN <<UnknownLayer(Slot(p, inSlot))>>
  ELSE AlignedPair(p, tree, LayerOf(p, inSlot, tree), LayerOf(p, overSlot, tree), overSlot)

Areal == {"line", "polygon"}

\* The pairs of geometries a single predicate cannot relate.
PredicateMismatch(pred, inGeom, overGeom) ==
  \/ pred = "contains" /\ inGeom = "point" /\ overGeom \in Areal
  \/ pred = "within" /\ overGeom = "point" /\ inGeom \in Areal
  \/ pred = "overlaps" /\ inGeom # overGeom
  \/ pred = "crosses" /\ inGeom = overGeom /\ inGeom # "line"

PredicateGeometry(p, tree, i, o) ==
  One(/\ Len(Slot(p, "predicate")) = 1 /\ i # None /\ o # None
      /\ tree.layers[i].geom # "" /\ tree.layers[o].geom # ""
      /\ PredicateMismatch(Slot(p, "predicate")[1], tree.layers[i].geom, tree.layers[o].geom),
      AskUser("spatial_predicate_geometry_mismatch", tree.layers[o].name))

JoinIssues(p, tree, i, o) ==
  OrIssues(FieldIssue(tree, o, Slot(p, "join_fields")),
           IF p.action = "join_by_location" THEN PredicateGeometry(p, tree, i, o) ELSE <<>>)

\* The fields a formula names are the words after its first.
FormulaFieldRefs(formula) == IF formula = <<>> THEN <<>> ELSE Tail(formula)

FieldsExist(p, tree, i, fields) ==
  IF i = None THEN <<UnknownLayer(Slot(p, "input_ref"))>> ELSE FieldIssue(tree, i, fields)

SummarizeExists(p, tree) ==
  One(~HasLayer(tree, Slot(p, "layer_ref")), UnknownLayer(Slot(p, "layer_ref")))

CsvCoordinates(p, tree, i) ==
  CASE i = None -> <<UnknownLayer(Slot(p, "input_ref"))>>
    [] tree.layers[i].kind # "table" -> <<AskUser("not_csv_table", tree.layers[i].name)>>
    [] tree.layers[i].garbled -> <<AskUser("csv_encoding_issue", tree.layers[i].name)>>
    [] OTHER -> FieldIssue(tree, i, Slot(p, "x_field") \o Slot(p, "y_field"))

-----------------------------------------------------------------------------
(* Raster inputs: an extent is the set of cells a raster covers.           *)

RasterActions == {"reproject_raster", "raster_calculator", "zonal_statistics", "raster_sampling"}

RasterRef(tree, ref, i, must) ==
  CASE ref = <<>> -> <<>>
    [] i = None -> <<UnknownLayer(ref)>>
    [] must /\ tree.layers[i].kind # "raster" -> <<AskUser("layer_kind_mismatch", ref)>>
    [] OTHER -> <<>>

Known(a, b, unknown) == a # unknown /\ b # unknown

\* One pair of _multi_raster_alignment_issues; the error that blocks comes alone.
PairAlignment(l, r) ==
  CASE Known(l.crs, r.crs, "") /\ l.crs # r.crs -> <<OfLayers(AskUser("raster_crs_mismatch", <<>>), <<l, r>>)>>
    [] Known(l.extent, r.extent, {}) /\ l.extent \cap r.extent = {}
         -> <<OfLayers(AskUser("raster_extent_no_overlap", <<>>), <<l, r>>)>>
    [] OTHER ->
         One(Known(l.extent, r.extent, {}) /\ l.extent # r.extent,
             OfLayers(Warning("raster_extent_partial_overlap", <<>>), <<l, r>>))
         \o One(Known(l.pixel, r.pixel, 0) /\ l.pixel # r.pixel,
                OfLayers(Warning("raster_pixel_size_mismatch", <<>>), <<l, r>>))

IsWarning(issue) == issue.severity = "warning"

\* Blocking findings of any pair silence the warnings of all pairs.
WorstOf(found) == OrIssues(Those(found, LAMBDA x : ~IsWarning(x)), found)

MultiRasterAlignment(rasters) ==
  LET n == Len(rasters)
      pair(a, b) == IF a < b THEN PairAlignment(rasters[a], rasters[b]) ELSE <<>>
  IN WorstOf(FlattenSeq([k \in 1..(n * n) |-> pair(((k - 1) \div n) + 1, ((k - 1) % n) + 1)]))

NodataWarnings(rasters) ==
  FlattenSeq([k \in DOMAIN rasters |->
    One(rasters[k].nodata, Warning("raster_nodata_propagation", rasters[k].name))])

RasterRefs(p, tree) ==
  LET input == RasterRef(tree, Slot(p, "input_ref"), LayerOf(p, "input_ref", tree), p.action = "reproject_raster")
      one(ref) == RasterRef(tree, ref, Resolve(tree, ref), TRUE)
  IN FirstOf(<<input, FirstIn(<<Slot(p, "raster_ref")>> \o Slot(p, "raster_refs"), one)>>)

\* An alignment error that blocks is not followed by warnings.
Combined(aligned, layers) ==
  IF aligned # <<>> /\ ~IsWarning(Head(aligned)) THEN aligned ELSE aligned \o NodataWarnings(layers)

RastersCombined(layers) == Combined(MultiRasterAlignment(layers), layers)

ResamplingAdvice(p, raster) ==
  One("resampling" \notin DOMAIN p.input /\ raster.dtype \in {"float", "int"},
      Warning("raster_resampling_recommendation", raster.name))

RasterInputs(p, tree, i) ==
  LET refs == Slot(p, "raster_refs") IN
  OrIssues(RasterRefs(p, tree),
    CASE p.action = "raster_calculator" /\ Len(refs) >= 2 ->
           RastersCombined([k \in DOMAIN refs |-> tree.layers[Resolve(tree, refs[k])]])
      [] p.action \in {"zonal_statistics", "raster_sampling"} ->
           NodataWarnings(<<tree.layers[LayerOf(p, "raster_ref", tree)]>>)
      [] p.action = "reproject_raster" -> ResamplingAdvice(p, tree.layers[i])
      [] OTHER -> <<>>)

-----------------------------------------------------------------------------
(* RuleRegistry.issues for the preflight stage                             *)

\* The slot of the second layer of a pair, and of the first.
OverlaySlot(action) ==
  CASE action \in {"clip_layer", "intersect_layer", "difference_layer"} -> "overlay_ref"
    [] action = "extract_by_location" -> "intersect_ref"
    [] action \in {"join_by_location", "join_by_nearest"} -> "join_ref"
    [] action = "count_points_in_polygon" -> "point_ref"
    [] OTHER -> ""

PairInput(action) == IF action = "count_points_in_polygon" THEN "polygon_ref" ELSE "input_ref"

\* A pair is aligned before anything else is asked of it.
PairRules(p, tree, i, o) ==
  CASE p.action = "extract_by_location" -> PredicateGeometry(p, tree, i, o)
    [] p.action \in {"join_by_location", "join_by_nearest"} -> JoinIssues(p, tree, i, o)
    [] OTHER -> <<>>

\* The rules of one action, in the order they were registered.
ActionRules(p, tree, i) ==
  CASE OverlaySlot(p.action) # "" ->
         OrIssues(OverlayPair(p, tree, PairInput(p.action), OverlaySlot(p.action)),
                  PairRules(p, tree, i, LayerOf(p, OverlaySlot(p.action), tree)))
    [] p.action = "buffer_layer" -> BufferCrs(p, tree, i)
    [] p.action = "extract_by_attribute" -> FieldsExist(p, tree, i, Slot(p, "field"))
    [] p.action = "select_by_expression" ->
         FieldsExist(p, tree, i, FormulaFieldRefs(Slot(p, "expression")))
    [] p.action = "field_calculator" -> FieldsExist(p, tree, i, FormulaFieldRefs(Slot(p, "formula")))
    [] p.action \in {"summarize_layer", "inspect_fields"} -> SummarizeExists(p, tree)
    [] p.action = "csv_to_points" -> CsvCoordinates(p, tree, i)
    [] p.action \in RasterActions -> RasterInputs(p, tree, i)
    [] OTHER -> <<>>

PreflightIssues(p, tree, files) ==
  OrIssues(OrIssues(LayerKindRequirements(p, tree), GeometryRequirements(p, tree)),
    OrIssues(FieldRequirements(p, tree),
      OrIssues(OutputOverwrite(p, files), ActionRules(p, tree, LayerOf(p, "input_ref", tree)))))

\* RulesGateway.validate
Validate(p, tree, files) == OrIssues(SemanticIssues(p), PreflightIssues(p, tree, files))

\* Mutant: a warning that asks for confirmation lets the action through.
SoftAnyWarning(issue) == issue.stage = "preflight" /\ IsWarning(issue)

\* builtins._split_blocking: a warning nobody has to confirm does not stop the action.
SoftWarning(issue) == issue.stage = "preflight" /\ IsWarning(issue) /\ ~issue.confirm

Blocking(issues) == Those(issues, LAMBDA x : ~SoftWarning(x))

HardIssues(p, tree, files) == Blocking(Validate(p, tree, files))
=============================================================================
