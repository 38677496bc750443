SPECIFICATION PoolSpec
CONSTANTS
  Thread = {1, 2, 3}
  NoThread = none
  Frame = {1, 2}
  Page = {1, 2, 3}
  Hash <- ThreeHash
  SlotCount = 1
  Transit <- Each
  WriteMutex <- Each
  Overtaken = FALSE
  Loads <- Slow
  NoOne = none
INVARIANTS FixedRight
