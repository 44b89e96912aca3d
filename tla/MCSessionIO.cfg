SPECIFICATION FairSpec
CONSTANTS
    MaxFrames = 3
    MaxCloses = 2
    NoFrame = NoFrame
INVARIANTS
    TypeOK
    WriteOwnsHead
    NoLostWakeup
    ClosedIsDrained
PROPERTIES
    ImplementsChannel
    QueueDrains
    CloseIsReported
CHECK_DEADLOCK FALSE
