CONSTANTS
  WordMod = 64
  HalfMod = 8
  MaxParams = 2
  N = 4
  lpm_numwords = 6
  almost_full_value = 2
  WriteMemory = 7
  RESX_High = 1
  RESX_Low = 2
  RESX_End = 3
  MaxRestarts = 0
  MaxKeys = 0
  Program <- MainProgram
SPECIFICATION Spec
PROPERTIES StartWaits
