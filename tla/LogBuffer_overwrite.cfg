SPECIFICATION Spec
CONSTANTS
  Thread = {1, 2}
  Block = 2
  Seg = 16
  Data = 32
  Loads <- LongSet
  Slots = 6
  Active = 1
PROPERTIES NoOverwrite
