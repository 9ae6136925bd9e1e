SPECIFICATION Spec
CONSTANTS
  Hardware <- MC_Hardware
  Garbage = {TRUE, FALSE}
  Messages <- MC_Messages
  Keys = {0, 1}
  BlockSize = 2
  Jitter = 1
  QueueSize = 2
  Workloads <- MC_Workloads
  MaxInFlight = 1
INVARIANTS
  RtServesOpenPorts
  NotesArriveAsPlayed
  NotesKeepTheirTime
CHECK_DEADLOCK FALSE
