SPECIFICATION Spec
CONSTANTS
  Workloads <- MCWorkloads
  SavedUnits <- MCSavedUnits
  MaxUnit = 8
  OutputPort = 0
  Scales <- MCScales
  Pads <- MCPads
INVARIANT OnePopup
INVARIANT TouchedStaysAlive
INVARIANT SurfacesFollowProject
INVARIANT RowsFollowRoutes
INVARIANT PushFollowsProject
INVARIANT FrameShowsView
INVARIANT NotesEnd
PROPERTY ViewAfterFirst
CHECK_DEADLOCK FALSE
