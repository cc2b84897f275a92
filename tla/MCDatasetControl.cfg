SPECIFICATION ControlSpec
CONSTANTS
    x = x
    y = y
    a = a
    b = b
    Datasets = {x, y}
    Order <- TwoDatasets
    Objects = {a, b}
    Size <- Bytes
    Declarations <- MCDeclarations
    Floor = 1
    Replicates = FALSE
    KnowsRacks = FALSE
    NodeBytes = 4
    ShareOf = 2
    MaxEdits = 4
    MaxFaults = 1
INVARIANTS OneLeasePerTenant NodeShareHeld
 
