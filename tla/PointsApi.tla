----------------------------- MODULE PointsApi -----------------------------
(***************************************************************************)
(* api/main.go, which answers a tile of the map with the points stored in  *)
(* it, and mobile/lib/gateway/points_api.dart, which asks.                 *)
(*                                                                         *)
(* The world is a square of World units.  A place is its distance from the *)
(* western and from the northern side: fromPointTile turns the borders of  *)
(* a tile into degrees by monotone functions, so comparing these distances *)
(* compares degrees.  The operators have no state; MapPoints has.          *)
(***************************************************************************)
EXTENDS Integers

CONSTANTS
  World,  \* side of the world, a multiple of the number of tiles of a side
  Zone    \* how far the phone's clock is ahead of UTC

ASSUME WorldAssumption == World \in Nat \ {0} /\ Zone \in Int

Zero == 0  \* time.Time's zero value: the bound was not given or not parsed

Side(z) == World \div 2^z

(* fromPointTile: the north-western corner of a tile.                      *)
FromPointTile(x, y, z) == [x |-> x * Side(z), y |-> y * Side(z)]

(* Mutant of Inside: a point on a border is in the tiles on both sides.    *)
InsideOrOnBorder(p, tile) ==
  LET nw == FromPointTile(tile.x, tile.y, tile.z)
      se == FromPointTile(tile.x + 1, tile.y + 1, tile.z)
  IN nw.x <= p.x /\ p.x <= se.x /\ nw.y <= p.y /\ p.y <= se.y

(* The comparisons of both queries are strict on all sides of the tile.    *)
Inside(p, tile) ==
  LET nw == FromPointTile(tile.x, tile.y, tile.z)
      se == FromPointTile(tile.x + 1, tile.y + 1, tile.z)
  IN nw.x < p.x /\ p.x < se.x /\ nw.y < p.y /\ p.y < se.y

QueryPointsDefault(points, tile) == {p \in points : Inside(p, tile)}

QueryPointsBeginEnd(points, tile, begin, end) ==
  {p \in points : begin < p.time /\ p.time < end /\ Inside(p, tile)}

(* A single bound is not used: both have to be there.                      *)
QueryPoints(points, tile, begin, end) ==
  IF begin = Zero \/ end = Zero
  THEN QueryPointsDefault(points, tile)
  ELSE QueryPointsBeginEnd(points, tile, begin, end)

(* handlePointsGet: an error of the query is answered with status 500, one *)
(* of the connection that ends the rows early is never looked at.          *)
HandlePointsGet(points, tile, begin, end) ==
  LET rows == QueryPoints(points, tile, begin, end)
  IN [status : {500}, points : {{}}]
       \cup [status : {200}, points : SUBSET rows]

(* The phone writes its wall clock without the zone, the api reads UTC.    *)
Format(time) == time + Zone

(* getPoints: what may be answered, as the phone asks for it.              *)
GetPoints(points, tile, begin, end) ==
  HandlePointsGet(points, tile, Format(begin), Format(end))
=============================================================================
