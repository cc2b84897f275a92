SPECIFICATION LabelsSpec
CONSTANTS
  n1 = n1
  n2 = n2
  Nodes = {n1, n2}
  ListOrder <- TwoNodes
  Labelled = {d1}
  Holdings = {0, 22, 26, 72, 76}
  Fail = 3
  Recover = 2
  Window = 1
  Slow = {2, 3}
  MaxMoves = 2
  MaxFaults = 2
PROPERTIES  NoFlapping
