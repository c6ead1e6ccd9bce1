SPECIFICATION Spec
CONSTANTS
    PackWorlds <- TraditionWorlds
    Scripts <- PackScripts
    Native <- PackNative
    Kept <- PackKept
    Home <- PackHome
    Finds <- PackFinds
    Gates <- PackGates
INVARIANTS
    SacrificialTraditionTakesEffect
CHECK_DEADLOCK FALSE
