\* Two faults at any time, timers that race with up to two other handlers.
SPECIFICATION FairSpec
CONSTANTS
    MaxAhead = 2
    MaxFaults = 2
INVARIANTS
    NeverDead
    CloseFinished
PROPERTIES
    NoReconnectAfterClose
    Reconnects
    CloseAnswered
