CONSTANTS
    Size = 9
    MaxChunk = 4
    MinChunk = 1
    Concurrency = 2
    Buffers = 1
    MaxRetries = 2
    ReadSizes = {1, 4}
SPECIFICATION Spec
INVARIANTS
    BuffersOwned
    
PROPERTIES
    ReadsTheRange
    ReadsEnd
    FillerStops
