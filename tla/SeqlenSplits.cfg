SPECIFICATION Spec
CONSTANTS
    MaxRows = 6
    Lengths <- SomeLengths
    Worlds <- SomeWorlds
    Limits <- SomeLimits
CHECK_DEADLOCK FALSE
INVARIANTS
    EachRowOnce
    Balanced
    AssertionsHold
    OneRowOver
