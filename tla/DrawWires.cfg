SPECIFICATION Spec
CONSTANTS
  Jobs <- MCJobs
  Distance <- MCDistance
  CounterMax = 3
  SeriesMax = 3
  BeamWidth = 6
  Slots = 3
  CostMod = 128
  PreviousMod = 4096
INVARIANTS VerdictsAreReal EndsDecided
