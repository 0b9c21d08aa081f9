\* Two request threads, two channels, two connections.
SPECIFICATION Spec
CONSTANTS
    t1 = t1
    t2 = t2
    fd1 = fd1
    fd2 = fd2
    Threads <- MCThreads
    Channels <- MCChannels
    Fds <- MCFds
    MaxConns <- MCMaxConns
SYMMETRY Symmetry
INVARIANTS
    StreamAccounted
    AskedChannelPlays
    AnswerToAsker
    NoStreamWithoutSession
    PlayingCameraOn
CHECK_DEADLOCK FALSE
