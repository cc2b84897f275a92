SPECIFICATION ReportsSpec
CONSTANTS
    p = p
    q = q
    Targets = {p, q}
    VolumeAt <- Apart
    VolumeSize <- Sizes
    MaxFaults = 3
INVARIANT MountsFollowPods 
PROPERTY PodsLetGo
