SPECIFICATION Spec
CONSTANTS
  EXT = EXT
  Routes <- MC_Routes
  MaxAudio = 3
  MaxMidi = 1
INVARIANTS SourcesComeFirst OutcomeAsSpecified
CHECK_DEADLOCK FALSE
