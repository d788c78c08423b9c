CONSTANTS
    FileHeaderSize = 2
    BlockHeaderSize = 1
    BlockDataSize = 2
    Base = 2
    NonceLen = 3
    AddLen = 2
    MCSize = 11
    MCPartSize = 5
    NoHeader = NoHeader
    BadHeader = BadHeader
    PartNonces <- MCNonces
    Files <- MCFiles
    Headers <- MCHeaders
    ReadSizes = {1, 3}
    MaxFaults = 1
SPECIFICATION Spec
INVARIANTS
    ServesTheRange
    FailsOnlyByFault
    SizesAgree
