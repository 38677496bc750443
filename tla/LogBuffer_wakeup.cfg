SPECIFICATION Spec
CONSTANTS
  Thread = {1, 2}
  Block = 2
  Seg = 8
  Data = 16
  Loads <- SharedSet
  Slots = 6
  Active = 1
INVARIANTS NobodyLeftAsleep
