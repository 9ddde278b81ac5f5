---------------------------- MODULE MCMapPoints ----------------------------
(* Instances of MapPoints for TLC: two overlapping views of one zoom and   *)
(* one of another; a point between two columns, one between two rows.      *)
EXTENDS MapPoints

View(zoom, west, east, north, south) ==
  [zoom |-> zoom, west |-> west, east |-> east, north |-> north, south |-> south]

MCFirstView == View(1, 1, 3, 1, 2)
MCViews == {MCFirstView, View(1, 5, 8, 1, 2), View(2, 2, 4, 0, 2)}

Raw(begin, end, least, most) ==
  [source |-> "Raw", begin |-> begin, end |-> end, least |-> least, most |-> most]

MCFirstFilter == Raw(4, 9, 0, 10)
MCFilters == {MCFirstFilter, Raw(1, 9, 6, 10), [MCFirstFilter EXCEPT !.source = "Aggregated"]}

Point(x, y, time, prediction) == [x |-> x, y |-> y, time |-> time, prediction |-> prediction]
MCFirstPoints == {Point(3, 1, 7, 8), Point(3, 3, 3, 9), Point(4, 1, 7, 8)}
MCLaterPoints == {Point(5, 2, 9, 2)}
=============================================================================
