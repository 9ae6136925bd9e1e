SPECIFICATION Spec
CONSTANTS
  Units = {1}
  Gone = {2}
  Values = {0, 1}
  Default = 0
  Mutes = {FALSE}
  Attributes = {"parameter", "midiThru", "omniHwInput", "name", "color"}
  Readable = {"wav"}
  NoPeaks = {"nopeaks"}
  Unreadable = {"missing"}
  Take = "take"
  Edits = {"SetValue", "ModifyClipItem", "RemoveClip", "LoadAsClip", "LoadAsset", "Undo", "Redo"}
  ActionIds <- MC_Ids
  Reverted <- MC_AllButName
  UndoLimit = 2
  MaxEmits = 4
  MaxInFlight = 1
INVARIANTS
  ViewsShowTheUnits
  ShownClipsPlay
PROPERTY
  UndoReverts
CHECK_DEADLOCK FALSE
