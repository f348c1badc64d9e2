CONSTANTS
  CounterMod = 3
  PixMod = 2
  MaxConfig = 2
SPECIFICATION FairSpec
INVARIANTS CmosTypeOK CountersInRange
PROPERTIES StatusTellsCommand FramesRepeat ImplementsFrames
