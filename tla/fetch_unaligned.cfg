CONSTANTS
  WordMod = 64
  N = 4
  lpm_numwords = 10
  almost_full_value = 6
  Images <- UnalignedImages
SPECIFICATION Spec
INVARIANTS BurstFinished
