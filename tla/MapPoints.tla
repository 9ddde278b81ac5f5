------------------------------ MODULE MapPoints ------------------------------
(***************************************************************************)
(* mobile/lib/widgets/map_points.dart and the filters of widgets/map.dart: *)
(* the layer of the map that loads the predictions of the tiles in view,   *)
(* one tile at a time, keeps them in a cache and shows the markers of one  *)
(* zoom level.                                                             *)
(*                                                                         *)
(* Code between two awaits runs without interruption, so an action is an   *)
(* event (the camera moves, a frame rebuilds the layer, an answer arrives) *)
(* with all it does up to the next request.  The address of the api is set *)
(* and keeps its value while the map is open: it is edited on another tab, *)
(* and leaving the tab ends the layer.                                     *)
(***************************************************************************)
EXTENDS PointsApi, Sequences, SequencesExt, Bags

CONSTANTS
  Views,       \* what the camera may see: the zoom, and the sides of a
               \*   rectangle as distances from the west and the north
  FirstView,   \* what it sees when the map opens
  Filters,     \* sources and ranges of time and prediction one may choose
  FirstFilter,
  FirstPoints, \* the table when the map opens
  LaterPoints, \* points inserted while it is open
  NoLoad,
  MaxMoves,    \* bound on camera moves and other notifications
  MaxChanges,  \* bound on changes of the filter
  MaxErrors,   \* bound on answers that are errors or are cut short
  MaxReopens   \* bound on leaving the tab of the map and coming back

ASSUME ViewsAssumption ==
  /\ FirstView \in Views
  /\ Views \subseteq
       [zoom : Nat, west : Int, east : Int, north : Int, south : Int]
  /\ \A v \in Views : v.west <= v.east /\ v.north <= v.south
(* No zoom has tiles smaller than the unit of the distances.               *)
ASSUME SidesAssumption == \A v \in Views : Side(v.zoom) \in Nat \ {0}
ASSUME PointsAssumption ==
  \A p \in FirstPoints \cup LaterPoints : p.x \in Int /\ p.y \in Int
ASSUME FiltersAssumption == FirstFilter \in Filters
ASSUME BoundsAssumption ==
  {MaxMoves, MaxChanges, MaxErrors, MaxReopens} \subseteq Nat

VARIABLES
  camera,        \* the view of the camera
  filter,        \* the chosen source and ranges
  function,      \* the source of the load function the layer was built with
  dirty,         \* a new load function waits for the next frame
  cachedPoints,  \* for a zoom, for a tile, the points that were answered
  visible,       \* visibleMarkers: a bag of points
  previousZoom,
  loading,
  load,          \* the load in flight: its view, tiles still to look up, the
                 \*   tile, source and range asked for, the tiles inserted
  failed,        \* history: a load of this layer ended with an exception
  table,         \* the points stored
  used           \* numbers of moves, changes, faults and reopens so far

layerVars == <<cachedPoints, visible, previousZoom, loading, load, failed>>
mapVars == <<camera, filter, function, dirty, layerVars, table, used>>

Points == FirstPoints \cup LaterPoints
Zooms == {v.zoom : v \in Views}

(* _calculateTile and _calculateTileRange: the first column and row of a   *)
(* view and the number of them, the ceiling of its far sides included.     *)
Column(v) == v.west \div Side(v.zoom)
Row(v) == v.north \div Side(v.zoom)
Width(v) == -((-v.east) \div Side(v.zoom)) - Column(v) + 1
Height(v) == -((-v.south) \div Side(v.zoom)) - Row(v) + 1

(* The tiles of a view in the order of the loops of _loadPoints.           *)
TilesOf == [v \in Views |->
  [i \in 1..(Width(v) * Height(v)) |->
    [x |-> Column(v) + ((i - 1) \div Height(v)),
     y |-> Row(v) + ((i - 1) % Height(v)), z |-> v.zoom]]]

FreshLayer ==
  /\ camera = FirstView /\ filter = FirstFilter /\ function = FirstFilter.source
  /\ dirty = FALSE
  /\ cachedPoints = <<>> /\ visible = EmptyBag /\ previousZoom = -1
  /\ loading = FALSE /\ load = NoLoad /\ failed = FALSE

MapInit ==
  /\ FreshLayer /\ table = FirstPoints
  /\ used = [moves |-> 0, changes |-> 0, faults |-> 0, reopens |-> 0]

Use(what, bound) == used[what] < bound /\ used' = [used EXCEPT ![what] = @ + 1]

-----------------------------------------------------------------------------
(* Loading.                                                                *)

(* putIfAbsent of a map: what is there stays.                              *)
PutIfAbsent(map, key, value) ==
  [k \in DOMAIN map \cup {key} |-> IF k \in DOMAIN map THEN map[k] ELSE value]

(* The points of the answers for tiles, one after the other.               *)
MarkersOf(tiles, answers) ==
  [p \in UNION {answers[t].points : t \in tiles} |->
     Cardinality({t \in tiles : p \in answers[t].points})]

(* Mutant of Finish: the markers inserted are added after a reload too.    *)
FinishAddsTwice(view, answers, inserted, shown) ==
  /\ visible' = (IF previousZoom # view.zoom
                 THEN MarkersOf(DOMAIN answers, answers)
                 ELSE shown) (+) MarkersOf(inserted, answers)
  /\ previousZoom' = view.zoom
  /\ loading' = FALSE /\ load' = NoLoad

(* Mutant of Finish: only a new zoom level updates the markers.            *)
FinishForNewZoom(view, answers, inserted, shown) ==
  /\ visible' = IF previousZoom # view.zoom
                THEN MarkersOf(DOMAIN answers, answers) ELSE shown
  /\ previousZoom' = view.zoom
  /\ loading' = FALSE /\ load' = NoLoad

(* _updateVisibleMarkers, and the end of the load.                         *)
Finish(view, answers, inserted, shown) ==
  /\ visible' = IF previousZoom # view.zoom
                THEN MarkersOf(DOMAIN answers, answers)
                ELSE shown (+) MarkersOf(inserted, answers)
  /\ previousZoom' = view.zoom
  /\ loading' = FALSE /\ load' = NoLoad

(* The loop of _loadPoints: it asks for the next tile that is not cached.  *)
Continue(view, todo, cache, inserted, shown) ==
  LET answers == cache[view.zoom]
      missing == {i \in DOMAIN todo : todo[i] \notin DOMAIN answers}
  IN /\ cachedPoints' = cache
     /\ IF missing = {}
        THEN Finish(view, answers, inserted, shown)
        ELSE LET i == CHOOSE j \in missing : \A k \in missing : j <= k
             IN /\ load' = [view |-> view, todo |-> SubSeq(todo, i + 1, Len(todo)),
                            tile |-> todo[i], source |-> function',
                            begin |-> filter.begin, end |-> filter.end,
                            inserted |-> inserted]
                /\ loading' = TRUE
                /\ visible' = shown /\ UNCHANGED previousZoom

(* _loadVisibleMarkers of a view: nothing happens during a load.           *)
LoadVisibleMarkers(view, cache, shown) ==
  IF loading
  THEN /\ cachedPoints' = cache /\ visible' = shown
       /\ UNCHANGED <<previousZoom, loading, load>>
  ELSE Continue(view, TilesOf[view], PutIfAbsent(cache, view.zoom, <<>>), {},
                shown)

-----------------------------------------------------------------------------
(* Events.                                                                 *)

(* didChangeDependencies with the camera where it was: the layer opens, or *)
(* the configuration notifies, as the network switch of every tab does.    *)
Opens ==
  /\ previousZoom = -1 /\ ~loading
  /\ UNCHANGED <<camera, filter, function, dirty, failed, table, used>>
  /\ LoadVisibleMarkers(camera, cachedPoints, visible)

ConfigurationNotifies ==
  /\ Use("moves", MaxMoves)
  /\ UNCHANGED <<camera, filter, function, dirty, failed, table>>
  /\ LoadVisibleMarkers(camera, cachedPoints, visible)

CameraMoves(v) ==
  /\ v # camera /\ Use("moves", MaxMoves)
  /\ camera' = v
  /\ UNCHANGED <<filter, function, dirty, failed, table>>
  /\ LoadVisibleMarkers(v, cachedPoints, visible)

(* setState of the map: the next frame has a new load function.            *)
ChangeFilter(f) ==
  /\ f # filter /\ Use("changes", MaxChanges)
  /\ filter' = f /\ dirty' = TRUE
  /\ UNCHANGED <<camera, function, layerVars, table>>

(* didUpdateWidget of the layer, in the frame after ChangeFilter.          *)
Rebuild ==
  /\ dirty /\ dirty' = FALSE /\ function' = filter.source
  /\ UNCHANGED <<camera, filter, failed, table, used>>
  /\ LoadVisibleMarkers(camera, <<>>, EmptyBag)

-----------------------------------------------------------------------------
(* Answers.                                                                *)

InPredictionRange(points, f) ==
  {p \in points : f.least <= p.prediction /\ p.prediction <= f.most}

(* What a filter asks of points for a tile.                                *)
Wanted(points, tile, f) ==
  IF f.source = "Raw"
  THEN InPredictionRange(
         QueryPoints(points, tile, Format(f.begin), Format(f.end)), f)
  ELSE {}

(* The answer is cached for its tile, when the zoom is still in the cache, *)
(* and the loop goes on.  Predictions are selected when the answer is      *)
(* there, by the range chosen by then.                                     *)
Insert(points, whole) ==
  /\ load.view.zoom \in DOMAIN cachedPoints
  /\ UNCHANGED <<camera, filter, function, dirty, failed, table>>
  /\ LET answer == [points |-> InPredictionRange(points, filter), whole |-> whole]
     IN Continue(load.view, load.todo,
          [cachedPoints EXCEPT ![load.view.zoom] =
             PutIfAbsent(@, load.tile, answer)],
          load.inserted \cup {load.tile}, visible)

RawAnswers ==
  /\ load # NoLoad /\ load.source = "Raw"
  /\ Insert(QueryPoints(table, load.tile, Format(load.begin), Format(load.end)), TRUE)
  /\ UNCHANGED used

(* The aggregated source has no points, and asks nobody.                   *)
AggregatedAnswers ==
  /\ load # NoLoad /\ load.source # "Raw"
  /\ Insert({}, TRUE)
  /\ UNCHANGED used

(* The rows end early, and what was read of them is a good answer.         *)
AnswerIsCutShort ==
  /\ load # NoLoad /\ load.source = "Raw" /\ Use("faults", MaxErrors)
  /\ \E response \in GetPoints(table, load.tile, load.begin, load.end) :
       response.status = 200 /\ Insert(response.points, FALSE)

(* The load ends with an exception: nothing resets loading.                *)
LoadRaises ==
  /\ load # NoLoad /\ load' = NoLoad /\ failed' = TRUE
  /\ UNCHANGED <<camera, filter, function, dirty, cachedPoints, visible,
                 previousZoom, loading, table>>

(* Mutant of AnswerFindsCacheCleared: the zoom is inserted anew.           *)
AnswerRecreatesZoom ==
  /\ load # NoLoad /\ load.view.zoom \notin DOMAIN cachedPoints
  /\ UNCHANGED <<camera, filter, function, dirty, failed, table, used>>
  /\ LET answer == [whole |-> TRUE, points |-> InPredictionRange(
                      QueryPoints(table, load.tile, Format(load.begin),
                                  Format(load.end)), filter)]
     IN Continue(load.view, load.todo,
          PutIfAbsent(cachedPoints, load.view.zoom,
                      PutIfAbsent(<<>>, load.tile, answer)),
          load.inserted \cup {load.tile}, visible)

(* The cache was cleared meanwhile: the null check of its zoom raises.     *)
AnswerFindsCacheCleared ==
  /\ load # NoLoad /\ load.view.zoom \notin DOMAIN cachedPoints
  /\ LoadRaises /\ UNCHANGED used

(* The api does not answer, or answers with an error.                      *)
AnswerIsError ==
  /\ load # NoLoad /\ load.source = "Raw" /\ Use("faults", MaxErrors)
  /\ LoadRaises

-----------------------------------------------------------------------------
(* points_consumer inserts a point.                                        *)
InsertPoint ==
  /\ \E p \in LaterPoints \ table : table' = table \cup {p}
  /\ UNCHANGED <<camera, filter, function, dirty, layerVars, used>>

(* The user leaves the tab and comes back: a new layer.                    *)
Reopen ==
  /\ Use("reopens", MaxReopens)
  /\ camera' = FirstView /\ filter' = FirstFilter
  /\ function' = FirstFilter.source /\ dirty' = FALSE
  /\ cachedPoints' = <<>> /\ visible' = EmptyBag /\ previousZoom' = -1
  /\ loading' = FALSE /\ load' = NoLoad /\ failed' = FALSE
  /\ UNCHANGED table

Answer == AnswerFindsCacheCleared \/ RawAnswers \/ AggregatedAnswers

MapNext ==
  \/ Opens \/ ConfigurationNotifies
  \/ \E v \in Views : CameraMoves(v)
  \/ \E f \in Filters : ChangeFilter(f)
  \/ Rebuild \/ Answer \/ AnswerIsCutShort \/ AnswerIsError
  \/ InsertPoint \/ Reopen

MapSpec == MapInit /\ [][MapNext]_mapVars

(* The event loop does not rest: the layer opens, the next frame is drawn  *)
(* or a request is answered, while there is one of these to do.            *)
Proceeds == Opens \/ Rebuild \/ Answer
FairMapSpec == MapSpec /\ WF_mapVars(Proceeds)

-----------------------------------------------------------------------------
(* Between loads the layer shows exactly the cached points of one zoom,    *)
(* whatever moved, changed or failed during earlier loads.                 *)
VisibleIsCache ==
  ~loading /\ previousZoom \in DOMAIN cachedPoints =>
    visible = MarkersOf(DOMAIN cachedPoints[previousZoom], cachedPoints[previousZoom])

(* No point is ever on the map twice, although a view takes in tiles of    *)
(* the next row and column, views overlap and tiles share borders.         *)
ShownOnce == \A p \in BagToSet(visible) : visible[p] = 1

(* Once the frame after a change of the filter is drawn, what is cached    *)
(* for a tile is what the chosen filter asks for - times taken as the api  *)
(* reads them - of all that was stored when the map opened, and nothing    *)
(* that it does not ask for; although an answer to an older request may    *)
(* still be on its way.                                                    *)
FilterFresh ==
  ~dirty =>
    \A z \in DOMAIN cachedPoints : \A t \in DOMAIN cachedPoints[z] :
      LET answer == cachedPoints[z][t]
      IN /\ answer.points \subseteq Wanted(table, t, filter)
         /\ answer.whole => Wanted(FirstPoints, t, filter) \subseteq answer.points

(* All that was answered for a view, all its tiles, is on the map.         *)
Shown(v) ==
  /\ previousZoom = v.zoom /\ v.zoom \in DOMAIN cachedPoints
  /\ \A t \in ToSet(TilesOf[v]) :
       /\ t \in DOMAIN cachedPoints[v.zoom]
       /\ cachedPoints[v.zoom][t].points \subseteq BagToSet(visible)

(* A load that started shows all of its view, unless an exception or the   *)
(* end of the layer stops it.                                              *)
LoadShows ==
  \A v \in Views :
    load # NoLoad /\ load.view = v
      ~> Shown(v) \/ failed \/ (previousZoom = -1 /\ ~loading)
=============================================================================
