CONSTANTS
  WordMod = 64
  HalfMod = 8
  MaxParams = 2
  N = 2
  lpm_numwords = 4
  almost_full_value = 2
  WriteMemory = 7
  RESX_High = 1
  RESX_Low = 2
  RESX_End = 3
  MaxRestarts = 0
  MaxKeys = 1
  Program <- RestartProgram
SPECIFICATION FairSpec
PROPERTIES MainReturns
