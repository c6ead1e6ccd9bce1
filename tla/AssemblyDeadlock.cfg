SPECIFICATION Spec
CONSTANTS
    PackWorlds <- PlainWorlds
    Scripts <- PackScripts
    Native <- PackNative
    Kept <- PackKept
    Home <- PackHome
    Finds <- PackFinds
    Gates <- PackGates
INVARIANTS
    AssemblyToolingReachable
CHECK_DEADLOCK FALSE
