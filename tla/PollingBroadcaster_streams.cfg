\* Two streams come and go while an event is recorded, saved and polled.
CONSTANTS
    Subs = {s1, s2}
    Events = {e1}
    ChannelSize = 1
    DBBufferSize = 1
    DeduplicationTTL = 5
    MaxTime = 1
SPECIFICATION Spec
INVARIANTS SubscribersExact PolledOnce
PROPERTIES PollersEnd
CHECK_DEADLOCK FALSE
