------------------------------ MODULE MCSession ------------------------------
(***************************************************************************)
(* One run over the four sides of a session: what its agent does           *)
(* (AgentTurn), in some worlds; what is kept of its conversation           *)
(* (SessionContent), within some limits; what it remembers of its turns    *)
(* (SessionMemory), with some habits; and the files of its workspace       *)
(* (SessionWorkspace), in some rooms.  No side reads another's state, so   *)
(* each behaviour is of one of them and leaves the others alone.           *)
(***************************************************************************)
EXTENDS AgentTurn, SessionContent, SessionMemory, SessionWorkspace

VARIABLE side    \* "agent", "content", "memory" or "workspace"

MCInit ==
  /\ AgentInit /\ ContentInit /\ MemoryInit /\ WorkspaceInit
  /\ side \in {"agent", "content", "memory", "workspace"}
  /\ side = "agent" \/ world = "export"
  /\ side = "content" \/ limit = "three"
  /\ side = "memory" \/ habit = "turns"
  /\ side = "workspace" \/ room = "three"

AgentSide == side = "agent" /\ AgentNext /\ UNCHANGED <<contentVars, memoryVars, workspaceVars, side>>

ContentSide == side = "content" /\ ContentNext /\ UNCHANGED <<agentVars, memoryVars, workspaceVars, side>>

MemorySide == side = "memory" /\ MemoryNext /\ UNCHANGED <<agentVars, contentVars, workspaceVars, side>>

WorkspaceSide == side = "workspace" /\ WorkspaceNext /\ UNCHANGED <<agentVars, contentVars, memoryVars, side>>

MCSpec ==
  /\ MCInit
  /\ [][AgentSide \/ ContentSide \/ MemorySide \/ WorkspaceSide]_<<agentVars, contentVars, memoryVars, workspaceVars, side>>

-----------------------------------------------------------------------------
(* Worlds of the agent                                                     *)

In(slot, v) == slot :> v
Ref(n) == In("input_ref", n)
Vec(name, crs, geom, fields) == [Layer(name, "vector") EXCEPT !.crs = crs, !.geom = geom, !.fields = fields]
Raster(name, crs, extent, pixel) ==
  [Layer(name, "raster") EXCEPT !.crs = crs, !.extent = extent, !.pixel = pixel, !.nodata = TRUE, !.dtype = "float"]
Roads == Vec(<<"roads">>, "wgs84", "line", {"name"})
Zones == Vec(<<"zones">>, "utm", "polygon", {"id"})
Lots == Vec(<<"city", "lots">>, "utm", "polygon", {"id"})
Of(layers) == [layers |-> layers, aliases |-> <<>>]
Buffer(ref, rest) == Plan("buffer_layer", Ref(ref) @@ rest)
Far == In("distance", <<"100">>)
Answer == Plan("final_answer", In("message", <<"done">>))
Exporting(ref, path) == Plan("export_result", In("layer_ref", ref) @@ In("output_path", path))
OldFile == <<"out", ".gpkg">>
Reprojection(crs, name) == Plan("reproject_layer", Ref(LayerId(1)) @@ In("target_crs", <<crs>>) @@ name)
Ask(export, auto) == [NoRequest EXCEPT !.export = export, !.auto_repair = auto]

World(layers, plans, patches, questions, requests, turnCount, stepCount) ==
  [tree |-> Of(layers), files |-> {OldFile}, plans |-> plans, patches |-> patches,
   questions |-> questions, requests |-> requests, turns |-> turnCount, steps |-> stepCount]

\* A layer in degrees beside one in metres: repairs to confirm, two of which cannot
\* cure, names that repairs move, and a model that repeats itself.
ProjectionWorld ==
  World(<<Roads, Zones>>,
        {Buffer(<<"roads">>, Far), Buffer(<<"zones">>, Far), Reprojection("wgs84", In("output_name", <<"roads", "projected">>)),
         Reprojection("utm", <<>>),
         Plan("intersect_layer", Ref(<<"zones">>) @@ In("overlay_ref", <<"roads">>)),
         Plan("intersect_layer", Ref(<<"zones", "crs", PreviousHint>>) @@ In("overlay_ref", <<"roads">>)),
         Buffer(<<"roads">>, Far @@ In("target_crs", <<"wgs84">>)), Answer},
        {}, {}, {Ask(FALSE, FALSE)}, 2, 4)

\* Files that exist, references to the latest layer, an answer that comes before
\* the export the user asked for, and the model's own question.
ExportWorld ==
  World(<<Zones>>,
        {Buffer(<<"zones">>, Far @@ In("output_path", OldFile)), Buffer(<<"latest">>, Far),
         Exporting(<<"latest">>, OldFile), Exporting(<<"latest">>, <<"out">>), Exporting(<<"zones">>, <<"out">>),
         Exporting(<<"rivers">>, <<"new", ".shp">>), Plan("final_answer", <<>>), Answer,
         Plan("inspect_workspace", <<>>)},
        {In("message", <<"done">>), In("output_dir", <<"dir">>) @@ In("output_format", <<".shp">>)},
        {[intent |-> "export_result", filled |-> In("layer_ref", <<"zones">>), choices |-> {}]},
        {Ask(TRUE, TRUE)}, 2, 3)

\* One plan for every question the semantic rules and the vector rules ask, and
\* the answers to them.
QuestionWorld ==
  World(<<Roads, Zones, Lots>>,
        {Buffer(<<"lots", "north">>, Far), Buffer(<<"rivers">>, Far), Buffer(<<"zones">>, <<>>),
         Buffer(<<"zones">>, In("distance", <<"wide">>)),
         Plan("clip_layer", Ref(<<"roads">>) @@ In("overlay_ref", <<"lots", "south">>)),
         Plan("extract_by_attribute", Ref(<<"zones">>) @@ In("field", <<"ix">>) @@ In("operator", <<"=">>) @@ In("value", <<"1">>)),
         Plan("extract_by_attribute", Ref(<<"zones">>) @@ In("field", <<"id">>) @@ In("operator", <<"=">>)),
         Plan("extract_by_attribute", Ref(<<"zones">>) @@ In("field", <<"id">>) @@ In("operator", <<"like">>)),
         Plan("select_by_expression", Ref(<<"zones">>) @@ In("expression", <<"is", "ix">>)),
         Plan("extract_by_location", Ref(<<"zones">>) @@ In("intersect_ref", <<"zones">>)),
         Plan("extract_by_location", Ref(<<"zones">>) @@ In("intersect_ref", <<"zones">>) @@ In("predicate", <<"near">>)),
         Plan("join_by_location", Ref(<<"zones">>) @@ In("join_ref", <<"zones">>) @@ In("predicate", <<"crosses">>) @@ In("join_fields", <<"ix">>)),
         Plan("merge_layers", In("input_refs", <<<<"zones">>, <<"lots", "old">>>>)),
         Plan("merge_layers", In("input_refs", <<<<"zones">>>>)),
         Plan("reproject_layer", Ref(<<"zones">>)),
         Plan("proactive_clarification", <<>>), Plan("teleport", <<>>)},
        {In("distance", <<"500">>), In("input_ref", <<"zones">>)},
        {[intent |-> "buffer_layer", filled |-> Ref(<<"zones">>), choices |-> {Choice("distance", <<"100">>)}]},
        {Ask(FALSE, TRUE)}, 3, 1)

Dem  == Raster(<<"dem">>, "utm", {1, 2}, 10)
Land == Raster(<<"land">>, "utm", {2, 3}, 30)
Moon == Raster(<<"moon">>, "moon", {9}, 10)
Far9 == Raster(<<"far">>, "utm", {9}, 10)
Trees == [Layer(<<"trees">>, "table") EXCEPT !.fields = {"x", "y"}]
Wells == Vec(<<"wells">>, "utm", "point", {"depth"})

Calc(a, b) == Plan("raster_calculator", In("raster_refs", <<a, b>>) @@ In("expression", <<"sum">>))
\* Rasters, tables and batches.
DataWorld ==
  World(<<Zones, Dem, Land, Moon, Far9, Trees, Wells, [Trees EXCEPT !.name = <<"shrubs">>, !.garbled = TRUE]>>,
        {Calc(<<"dem">>, <<"land">>), Calc(<<"dem">>, <<"moon">>), Calc(<<"dem">>, <<"far">>), Calc(<<"dem">>, <<"sky">>),
         Plan("reproject_raster", Ref(<<"dem">>) @@ In("target_crs", <<"wgs84">>)),
         Plan("zonal_statistics", Ref(<<"zones">>) @@ In("raster_ref", <<"dem">>)),
         Plan("zonal_statistics", Ref(<<"wells">>) @@ In("raster_ref", <<"dem">>)),
         Plan("raster_sampling", Ref(<<"wells">>) @@ In("raster_ref", <<"zones">>)),
         Plan("csv_to_points", Ref(<<"trees">>) @@ In("x_field", <<"x">>) @@ In("y_field", <<"y">>)),
         Plan("csv_to_points", Ref(<<"trees">>) @@ In("x_field", <<"lon">>) @@ In("y_field", <<"y">>)),
         Plan("csv_to_points", Ref(<<"shrubs">>) @@ In("x_field", <<"x">>) @@ In("y_field", <<"y">>)),
         Plan("csv_to_points", Ref(<<"zones">>) @@ In("x_field", <<"id">>) @@ In("y_field", <<"id">>)),
         Plan("count_points_in_polygon", In("polygon_ref", <<"zones">>) @@ In("point_ref", <<"trees", "points">>)),
         Plan("join_by_nearest", Ref(<<"wells">>) @@ In("join_ref", <<"zones">>)),
         Plan("join_by_location", Ref(<<"wells">>) @@ In("join_ref", <<"zones">>) @@ In("predicate", <<"contains">>) @@ In("join_fields", <<"id">>)),
         Plan("field_calculator", Ref(<<"wells">>) @@ In("field_name", <<"d">>) @@ In("formula", <<"double", "depth">>)),
         Plan("batch_reproject_layers", In("input_refs", <<<<"zones">>, <<"wells">>>>) @@ In("target_crs", <<"wgs84">>)),
         Plan("summarize_layer", In("layer_ref", <<"zones", "wgs84">>)),
         Plan("inspect_fields", In("layer_ref", <<"sky">>)),
         Plan("load_vector", In("input_path", <<"parks">>)), Plan("load_csv", In("input_path", <<"nowhere">>)),
         Buffer(<<"zones", "wgs84">>, Far), Buffer(<<"parks">>, Far),
         Exporting(<<"dem">>, <<"dem">>), Exporting(<<"trees">>, <<"trees">>)},
        {In("input_ref", <<"zones">>)}, {}, {Ask(FALSE, TRUE)}, 1, 2)

\* Choices that do not answer: two layers of one name, fields of which both are
\* unknown, the name a calculator gives, an export of nothing and a list; and a
\* repair confirmed for a request without words.
ChoiceWorld ==
  World(<<Roads, Zones, [Zones EXCEPT !.fields = {"area"}], Trees, Wells>>,
        {Plan("extract_by_attribute", Ref(LayerId(3)) @@ In("field", <<"ix">>) @@ In("operator", <<"=">>) @@ In("value", <<"1">>)),
         Plan("csv_to_points", Ref(<<"trees">>) @@ In("x_field", <<"lon">>) @@ In("y_field", <<"lat">>)),
         Plan("field_calculator", Ref(<<"wells">>) @@ In("field_name", <<"ix">>) @@ In("formula", <<"double", "ix">>)),
         Plan("export_result", In("output_path", <<"new", ".shp">>)), Plan("merge_layers", <<>>),
         Exporting(<<"zones">>, <<>>), Buffer(<<"roads">>, Far)},
        {In("output_dir", <<"dir">>) @@ In("output_format", <<".shp">>) @@ In("file_name", <<"plan", ".gpkg">>)},
        {}, {Ask(FALSE, FALSE), [Ask(FALSE, FALSE) EXCEPT !.blank = TRUE]}, 2, 2)

MCWorlds == [projection |-> ProjectionWorld, export |-> ExportWorld, questions |-> QuestionWorld, data |-> DataWorld,
             choices |-> ChoiceWorld]
MCSources == <<"parks">> :> [Vec(<<"parks">>, "utm", "polygon", {}) EXCEPT !.role = "input"]

-----------------------------------------------------------------------------
(* Limits of the content, habits of the memory, rooms of the workspace     *)

\* Two turns that may overlap, with a failure, a warning or a remark; three one by one.
MCLimits == "faults" :> [turns |-> 2, overlap |-> 2, notes |-> 0, faults |-> 1]
         @@ "notes"  :> [turns |-> 2, overlap |-> 2, notes |-> 1, faults |-> 0]
         @@ "three"  :> [turns |-> 3, overlap |-> 1, notes |-> 0, faults |-> 0]

\* Turns among themselves, turns and the user, and the user alone with two drafts.
MCHabits == "turns" :> [turns |-> 3, overlap |-> 2, saves |-> 0, opened |-> 0]
         @@ "user"  :> [turns |-> 2, overlap |-> 2, saves |-> 1, opened |-> 1]
         @@ "saves" :> [turns |-> 1, overlap |-> 1, saves |-> 2, opened |-> 1]

\* Two turns side by side, the first with two layers; two one by one, with a write that
\* breaks off; three of which two overlap.
MCRoom == "overlap" :> [workers |-> 2, overlap |-> 2, layers |-> <<2, 1, 0>>, breaks |-> 0]
       @@ "breaks"  :> [workers |-> 2, overlap |-> 1, layers |-> <<2, 2, 0>>, breaks |-> 1]
       @@ "three"   :> [workers |-> 3, overlap |-> 2, layers |-> <<1, 1, 1>>, breaks |-> 0]
=============================================================================
