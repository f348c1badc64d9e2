CONSTANTS
  DataBits = 2
  Divisors = {1, 2}
SPECIFICATION FairSpec
INVARIANTS I2cTypeOK DoneIsOfThisCommand
PROPERTIES ResultsMatchWire WireService CommandsEnd
