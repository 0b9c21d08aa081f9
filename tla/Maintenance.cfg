\* Two requests, two resets, two updates.
SPECIFICATION FairSpec
CONSTANTS
    MaxSettings <- MCMaxSettings
    MaxRect <- MCMaxRect
    RectCount <- MCRectCount
    Updates = {u1, u2}
    MaxRequests <- MCMaxRequests
    MaxResets <- MCMaxResets
INVARIANTS
    AreasOfOneSetting
    AreasSurvive
    OnlyOneUpdate
    LetsNextIn
    NoHalfProgram
PROPERTIES
    UpdateEnds
