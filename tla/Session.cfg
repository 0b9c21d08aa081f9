\* Two connections of up to two messages each, closed or reset anywhere.
SPECIFICATION FairSpec
CONSTANTS
    HeadLen <- MCHeadLen
    Lens <- MCLens
    MaxSent <- MCMaxSent
    MaxConns <- MCMaxConns
INVARIANTS
    HandledInOrder
    NothingAfterBadFlag
    AllHandledWhenIdle
PROPERTIES
    EndNoticed
    SilenceNoticed
    ImplementsInbox
CHECK_DEADLOCK FALSE
