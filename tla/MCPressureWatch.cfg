SPECIFICATION WatchSpec
CONSTANTS
    p = p
    q = q
    v = v
    Pods = {p, q}
    Already = {q}
    Containers <- MCContainers
    Layouts <- MCLayouts
    Volumes = {v}
    Size <- Sizes
    FsSize = 3
    Headroom = 0
    HeadroomFor = 1
    MinHeadroom = 1
    StaleAfter = 1
    MaxLent = 2
    MaxFaults = 1
INVARIANT DeclaredWritesFit
PROPERTY  NeverTheSum SpaceComesBack BrokenIsNoticed
