SPECIFICATION AllSpec
CONSTANTS
  Xct = {1, 2, 3}
  Lock = {"a"}
  AskModes = {"IS", "SH", "UD"}
  MaxCount = 1
  Durations = {FALSE}
  Patience = {1}
  Poisonable = {}
  Spurious = FALSE
INVARIANTS
  GrantedGroupCompatible
