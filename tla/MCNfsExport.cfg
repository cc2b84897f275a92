SPECIFICATION NfsSpec
CONSTANTS
    Threads = {t1, t2}
    Size <- Sizes
    Dirs = {2}
    FirstNames = {1}
    Offsets = {0}
    Iov <- TwoBuffers
    ListNames = 1
    Enumerates = "file"
    MaxFaults = 2
INVARIANTS ReadsRight FilesAreFiles 
PROPERTIES CallsReturn 
