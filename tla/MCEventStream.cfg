CONSTANTS
    Publisher = {local, remote}
    Local = {local}
    Stream = {s1}
    Capacity = 2
    MaxEvents = 2
    MaxFaults = 2
CHECK_DEADLOCK FALSE
SPECIFICATION FairSpec
INVARIANTS
    TypeOK
    ChannelsAreOpen
    StreamsInOrder
PROPERTIES
    PublishersNeverWait
