\* One session: three started processes, a JVM below two of them, one process
\* below the game.
SPECIFICATION Spec
CONSTANTS
    server = server
    game = game
    helper = helper
    client = client
    player = player
    display = display
    NoRoot = none
    Procs <- AllProcs
    Roots <- AllRoots
    Line <- Lines
    Server = server
    Client = client
    Display = display
    Game = game
    Player = player
INVARIANTS
    TypeOK
    PassedSession
    ClosedBeforeStop
    AllStopped
PROPERTIES
    SessionEnds
\* A session ends with its result.
CHECK_DEADLOCK FALSE
