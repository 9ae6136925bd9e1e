SPECIFICATION FairSpec
CONSTANTS
  EXT = EXT
  Routes <- MC_OneRoute
  ActionIds = {1, 2, 3}
  Edits = {"CreateNewUnit", "DeleteUnit", "AddNewRoute", "UpdateRenderPlan", "Undo", "Redo"}
  SwapPlans = {TRUE, FALSE}
  InitialUnits = 1
  InitialRoutes <- MC_OneRoute
  QueueCapacity = 2
  UndoLimit = 2
  MaxEmits = 4
  MaxInFlight = 2
INVARIANTS
  OneOwner
  OnlyLiveActions
  UnitsAreUnique
PROPERTIES
  ActionsSettle
CHECK_DEADLOCK FALSE
