SPECIFICATION Spec
CONSTANTS
    PackWorlds <- MCWorlds
    Scripts <- PackScripts
    Native <- PackNative
    Kept <- PackKept
    Home <- PackHome
    Finds <- PackFinds
    Gates <- PackGates
INVARIANTS
    TypeOK
    ScriptsStand
    GatesGuarded
    GatesHold
    PerksAsPaid
    ClosedStaysClosed
    NothingElseStranded
CHECK_DEADLOCK FALSE
