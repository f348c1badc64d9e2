CONSTANTS
  WordMod = 64
  N = 4
  lpm_numwords = 10
  almost_full_value = 6
  Images <- AlignedImages
SPECIFICATION FairSpec
INVARIANTS FetchTypeOK RoomForBurst CountedWord
PROPERTIES ImageService ImageFetched
