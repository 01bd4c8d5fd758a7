------------------------------- MODULE Toolbox -------------------------------
(***************************************************************************)
(* The tools: what each does to the state tree and to the files the user   *)
(* named (tools/registry, tools/qgis, semantic_algorithm_call).  QGIS      *)
(* itself is external: it succeeds, or the observation is an error.        *)
(* Stems of temporary files as aliases and export paths that are existing  *)
(* directories are left out.                                               *)
(***************************************************************************)
EXTENDS Preflight

CONSTANT Sources    \* the layer each data source loads as, by path

\* What is loaded is made of no layer, and called like none.
ASSUME SourcesAssumption ==
  \A path \in DOMAIN Sources :
    Sources[path].parents = <<>> /\ IsName(Sources[path].name) /\ Sources[path].crs # "#"

Result(ok, tree, files, out, path) ==
  [ok |-> ok, tree |-> tree, files |-> files, out |-> out, path |-> path]

Failed(tree, files) == Result(FALSE, tree, files, None, <<>>)

\* Registrar.register and the observation that names the new layer.
Registered(tree, files, l, path) ==
  Result(TRUE, AddLayer(tree, l), IF path = <<>> THEN files ELSE files \cup {path},
         Len(tree.layers) + 1, path)

Suffix(action) ==
  CASE action = "buffer_layer"        -> "buffer"
    [] action = "clip_layer"          -> "clip"
    [] action = "intersect_layer"     -> "intersection"
    [] action = "difference_layer"    -> "difference"
    [] action = "reproject_layer"     -> "reprojected"
    [] action = "extract_by_location" -> "located"
    [] action = "csv_to_points"       -> "points"
    [] OTHER                          -> "result"

\* _default_output_name: built from the reference as it was written.
DefaultName(p) ==
  IF p.action = "merge_layers" THEN <<"merged_layers">>
  ELSE (IF Slot(p, "input_ref") = <<>> THEN <<"result">> ELSE Slot(p, "input_ref")) \o <<Suffix(p.action)>>

OutputName(p) == IF Slot(p, "output_name") # <<>> THEN Slot(p, "output_name") ELSE DefaultName(p)

\* The layers an action reads, in the order of its contract's slots.
RefsOf(p, slots) ==
  FlattenSeq([k \in DOMAIN slots |-> IF slots[k] \in LayerSlots THEN Refs(p, slots[k]) ELSE <<>>])

InputRefs(p) == RefsOf(p, ToolContract(p.action).required)

LayersOf(tree, refs) == [k \in DOMAIN refs |-> Resolve(tree, refs[k])]

InputLayers(p, tree) == LayersOf(tree, InputRefs(p))

RasterOutput == {"reproject_raster", "raster_calculator"}

\* The first input gives the output its metadata, but for what the tool changes.
OutputLayer(p, tree, ins) ==
  LET first == tree.layers[ins[1]]
  IN [Layer(OutputName(p), IF p.action \in RasterOutput THEN "raster" ELSE "vector") EXCEPT
        !.crs = IF p.action \in {"reproject_layer", "reproject_raster"}
                THEN CrsOf(p, "target_crs", first.crs) ELSE first.crs,
        !.geom = IF p.action = "buffer_layer" THEN "polygon" ELSE first.geom,
        !.fields = first.fields, !.parents = ins, !.act = p.action, !.role = "intermediate",
        !.dist = Slot(p, "distance"), !.extent = first.extent]

WrittenPath(p) == IF NeedsDiskOutput(OutputPath(p)) THEN <<>> ELSE OutputPath(p)

\* A reference nothing resolves is handed to QGIS as a path; nothing is made of nothing.
RunAlgorithm(p, tree, files, ins) ==
  IF ins = <<>> \/ None \in ToSet(ins) THEN Failed(tree, files)
  ELSE Registered(tree, files, OutputLayer(p, tree, ins), WrittenPath(p))

\* Every layer of a batch takes the same name when one is given, and none
\* carries the CRS it was brought to.  QGIS may stop after any of them, and
\* what was registered by then stays.
BatchLayers(p, tree, ins) ==
  LET name(l) == IF Slot(p, "output_name") # <<>> THEN Slot(p, "output_name")
                 ELSE l.name \o Slot(p, "target_crs")
      one(i) == [Layer(name(tree.layers[i]), "vector") EXCEPT
                   !.parents = <<i>>, !.act = p.action, !.role = "intermediate"]
  IN AddLayers(tree, [k \in DOMAIN ins |-> one(ins[k])])

BatchRefused(tree, ins) == \E i \in ToSet(ins) : i = None \/ tree.layers[i].kind # "vector"

BatchReproject(p, tree, files, ins) ==
  IF BatchRefused(tree, ins) THEN Failed(tree, files)
  ELSE Result(TRUE, BatchLayers(p, tree, ins), files, Len(tree.layers) + 1, <<>>)

CsvToPoints(p, tree, files, i) ==
  IF i = None \/ tree.layers[i].kind # "table"
     \/ ~(ToSet(Slot(p, "x_field") \o Slot(p, "y_field")) \subseteq tree.layers[i].fields)
  THEN Failed(tree, files)
  ELSE Registered(tree, files,
            [Layer(OutputName(p), "vector") EXCEPT
               !.crs = CrsOf(p, "crs", "wgs84"), !.geom = "point", !.fields = tree.layers[i].fields,
               !.parents = <<i>>, !.act = p.action, !.role = "intermediate"], WrittenPath(p))

\* normalize_export_path: a path without a suffix gets one here, after the
\* overwrite rule has looked at it.
ExportPath(path, kind) ==
  IF ToSet(path) \cap PathSuffixes # {} THEN path
  ELSE path \o <<IF kind = "raster" THEN ".tif" ELSE ".shp">>

Export(p, tree, files, i) ==
  LET l    == tree.layers[i]
      path == ExportPath(Slot(p, "output_path"), l.kind)
  IN IF i = None \/ l.kind \notin {"vector", "raster"} \/ (l.kind = "raster" /\ Last(path) # ".tif")
     THEN Failed(tree, files)
     ELSE Registered(tree, files,
            [l EXCEPT !.name = Stem(path), !.parents = <<i>>, !.act = "export_result",
                      !.role = "final", !.dist = <<>>], path)

LoadLayer(p, tree, files) ==
  IF Slot(p, "input_path") \notin DOMAIN Sources THEN Failed(tree, files)
  ELSE Registered(tree, files, Sources[Slot(p, "input_path")], <<>>)

Summarize(tree, files, i) == Result(i # None, tree, files, i, <<>>)

\* ToolRegistry.execute on the layers the references lead to, when QGIS does its part.
Execute(p, tree, files, ins) ==
  CASE ~RegisteredTool(p.action) \/ p.action = "final_answer" -> Failed(tree, files)
    [] p.action \in {"load_vector", "load_csv"}               -> LoadLayer(p, tree, files)
    [] p.action \in {"summarize_layer", "inspect_fields"}     -> Summarize(tree, files, LayerOf(p, "layer_ref", tree))
    [] p.action = "export_result"                             -> Export(p, tree, files, LayerOf(p, "layer_ref", tree))
    [] p.action = "batch_reproject_layers"                    -> BatchReproject(p, tree, files, ins)
    [] p.action = "csv_to_points"                             -> CsvToPoints(p, tree, files, LayerOf(p, "input_ref", tree))
    [] OTHER                                                  -> RunAlgorithm(p, tree, files, ins)

\* What is left when QGIS fails.
Interrupted(p, tree, files, ins) ==
  IF p.action = "batch_reproject_layers" /\ ~BatchRefused(tree, ins)
  THEN {Failed(BatchLayers(p, tree, SubSeq(ins, 1, k)), files) : k \in 0..(Len(ins) - 1)}
  ELSE {Failed(tree, files)}

\* Every tool asks the QGIS process, which may fail whatever it is asked.
OutcomesOn(p, tree, files, ins) == {Execute(p, tree, files, ins)} \cup Interrupted(p, tree, files, ins)

Outcomes(p, tree, files) == OutcomesOn(p, tree, files, InputLayers(p, tree))
=============================================================================
