SPECIFICATION SparedSpec
CONSTANTS x1 = x1 x2 = x2 p1 = p1 p2 = p2 
 Xct = {x1, x2} Page = {p1, p2} Loads <- Mixed
INVARIANTS WriteAhead NothingMissed LogReachesBack NoTraceOfLosers
PROPERTIES ImplementsStore
CHECK_DEADLOCK FALSE
