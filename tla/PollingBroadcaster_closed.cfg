\* A stream goes during a broadcast.
CONSTANTS
    Subs = {s1}
    Events = {e1}
    ChannelSize = 1
    DBBufferSize = 1
    DeduplicationTTL = 5
    MaxTime = 0
SPECIFICATION Spec
INVARIANT NoSendAfterClose
CHECK_DEADLOCK FALSE
