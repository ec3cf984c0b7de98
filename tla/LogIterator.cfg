SPECIFICATION FairSpec
CONSTANTS
    Subscriptions <- AllSubscriptions
    Capacity = 1
INVARIANTS
    IteratorTypeOK
    SelectedByArguments
    FalseIsComplete
PROPERTIES
    ImplementsStream
    NextReturns
    ProducerReleased
CHECK_DEADLOCK FALSE
