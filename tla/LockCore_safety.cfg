SPECIFICATION LoadSpec
CONSTANTS
  Xct = {1, 2, 3}
  Lock = {1, 2}
  AskModes = {"IS", "IX", "SH", "SIX", "UD", "EX"}
  MaxCount = 2
  Durations = {FALSE, TRUE}
  Patience <- OneOrForever
  Poisonable = {2}
  Spurious = FALSE
INVARIANTS
  TypeOK HoldersFirst FlagTellsWaiters NobodyForgotten NoConflictingGrants GroupModeIsFold
  AwakeMeansGranted
PROPERTIES
  NoOvertaking HoldersKeepTheirs ImplementsService
