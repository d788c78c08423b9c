SPECIFICATION Spec
CONSTANTS
    WorkerCount = 2
    BlockSize = 2
    Stream <- MCStream
INVARIANTS
    TypeOK
    SumMatchesSerial
    EveryBlockAccounted
    NoMutualWait
PROPERTIES
    RefinesSerial
    CallsReturn
    ClosedReleasesWorkers
