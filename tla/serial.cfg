SPECIFICATION HistorySpec
CONSTANTS
  EXT = EXT
  Routes <- MC_Routes
  ActionIds = {1, 2, 3, 4, 5}
  Edits = {"CreateNewUnit", "DeleteUnit", "AddNewRoute", "UpdateRenderPlan", "Undo"}
  SwapPlans = {TRUE}
  InitialUnits = 1
  InitialRoutes <- MC_OneRoute
  QueueCapacity = 5
  UndoLimit = 3
  MaxEmits = 5
  MaxInFlight = 1
INVARIANTS
  RtRendersLiveUnits PlanFollowsRoutes ViewsFollowProject
PROPERTY UndoRestores
