SPECIFICATION LiveSpec
CONSTANTS
  Xct = {1, 2, 3}
  Lock = {1, 2, 3}
  AskModes = {"SH", "EX"}
  MaxCount = 2
  Durations = {FALSE}
  Patience <- OneOrForever
  Poisonable = {}
  Spurious = FALSE
PROPERTIES
  DeadlockBroken WaitsEnd
