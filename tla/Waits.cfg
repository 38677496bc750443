SPECIFICATION AllSpec
CONSTANTS
  Thread = {1, 2, 3}
  Writers = {2, 3}
  NoThread = none
INVARIANTS
  Exclusion NodesLive WriterAlone
PROPERTIES
  ImplementsLine FirstServed WriterServed
  CallsEnd
