SPECIFICATION FairSpec
CONSTANTS
  Docs <- MC_Docs
  Registered = {"Track", "Sampler"}
  Paths = {"a", "b", "gone"}
  Missing = {"gone"}
  Values = {0, 1}
  Default = 0
  UserEdits = {"CreateNewUnit", "SetParameter", "LoadAsClip", "LoadAsset", "AddNewRoute", "SaveProject", "LoadProject"}
  MaxEmits = 3
  MaxInFlight = 1
INVARIANTS
  LoadRestores
  IdsAreUnique
  DiesAsKnown
PROPERTY LoadEnds
CHECK_DEADLOCK FALSE
