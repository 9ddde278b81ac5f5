SPECIFICATION FairMapSpec
CONSTANTS
  World = 8
  Zone = 1
  Views <- MCViews
  FirstView <- MCFirstView
  Filters <- MCFilters
  FirstFilter <- MCFirstFilter
  FirstPoints <- MCFirstPoints
  LaterPoints <- MCLaterPoints
  NoLoad = NoLoad
  MaxMoves = 2
  MaxChanges = 2
  MaxErrors = 1
  MaxReopens = 1
CHECK_DEADLOCK FALSE
INVARIANTS VisibleIsCache ShownOnce FilterFresh
PROPERTIES LoadShows
