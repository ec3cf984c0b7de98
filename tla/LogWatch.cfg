SPECIFICATION FairSpec
CONSTANTS
    Subscriptions <- SomeSubscriptions
    Capacity = 1
INVARIANTS
    WatchTypeOK
    ReceivesWanted
    EndIsExplained
PROPERTIES
    ImplementsStream
    UnsubscribeEnds
    UpstreamEndIsTold
CHECK_DEADLOCK FALSE
