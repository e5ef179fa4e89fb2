\* Two bursts, cut at either end and shifted by noise.
SPECIFICATION Spec
CONSTANTS
  Frames <- MCFrames
  Noise <- MCNoise
  Losses <- MCLosses
  Jitters <- MCJitters
  Repeats = 2
  MaxBursts = 2
  MaxFaults = 2
INVARIANTS
  WholeFrameIsFound
  DecodersAreTruthful
CHECK_DEADLOCK FALSE
