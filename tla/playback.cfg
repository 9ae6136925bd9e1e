SPECIFICATION Spec
CONSTANTS
  BlockSize = 2
  Clips <- MC_Clips
  Tempos = {6, 8}
  Sizes <- MC_Sizes
  SoundLength = 3
  FrameRange = 64
  Workloads <- MC_Workloads
INVARIANTS
  ClipsSoundInPlace
  BeatsAreCounted
  ViewFollowsTimeline
PROPERTIES
  PlayheadGoesOn
CHECK_DEADLOCK FALSE
