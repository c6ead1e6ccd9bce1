CONSTANTS
    w1 = w1
    w2 = w2
    w3 = w3
    iron = iron
    deep = deep
    Neutral = neutral
    NoWorld = noworld
    Worlds <- ThreeWorlds
    Builds <- TwoBuilds
    Packed <- DeepOnly
    Large <- LargeOnly
    First = w1
    MaxJars = 2
    MaxFaults = 1
SPECIFICATION Spec
INVARIANTS
    SwapRecoverable
