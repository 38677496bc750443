SPECIFICATION SparedSpec
CONSTANTS x1 = x1 x2 = x2 p1 = p1 p2 = p2 
 Xct = {x1} Page = {p1} Loads <- Fuzzy
INVARIANT RestartEnds
CHECK_DEADLOCK FALSE
