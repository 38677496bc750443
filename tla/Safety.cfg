SPECIFICATION AllSpec
CONSTANTS
  Xct = {x1, x2}
  Scavenger = chkpt
  Thread = {x1, x2, chkpt}
  NoThread = none
  Total = 6
  Ask = 3
  MaxUndo = 1
  MaxLine = 0
  Capacity = 14
  Max_chkpt = 3
  Partition = 6
  MaxCount = 2
  Frame = {1, 2, 3}
  Page = {1, 2, 3}
  Hash <- PoolHash
  SlotCount = 1
  Transit <- PoolTransit
  WriteMutex <- PoolMutex
  Overtaken = FALSE
  Loads <- PoolLoads
  NoOne = none
SYMMETRY Alike
INVARIANTS
  Conserved RollbackPaid SleeperListed ForeverSignalled
  CheckpointCovered RecordTrue
  FlushStable CompensationKept OneFrame FixedRight NothingLost
PROPERTIES ToppedUp ImplementsRwLock WriterShutsDoor NoOverwrite FlushKept
