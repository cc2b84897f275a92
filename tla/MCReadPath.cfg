CONSTANTS
  Slabs = {s1, s2}
  SlotsPerSlab = 1
  BlockUnits = 2
  FirstReadLimit = 3
  Blank = Blank
  DeviceFaults = TRUE
  Depth = 1
  Confirmations = 3
  Window = 1
  MinAccuracy = 50
  Patience = 1
  Readers = {r1, r2}
  Scanner = r1
  Pointer = r2
  Requests <- MCRequests
  SizeOf <- MCSizeOf
  MaxRead = 6
  MaxOffset = 100
  Nobody = Nobody
  AheadQueue = 1
  MaxReads <- MCMaxReads
  MaxFaults = 1
  MaxClock = 1
SPECIFICATION PathSpec
INVARIANT SlotsConserved
 
INVARIANT KeptOnlyIfWanted
PROPERTY PredictionsEvictNothing
 
VIEW PathView
SYMMETRY SlabSymmetry
CHECK_DEADLOCK FALSE
