\* Three objects, up to two references to each value.
SPECIFICATION Spec
CONSTANTS
    Null = Null
    globalThis = globalThis
    o1 = o1
    o2 = o2
    o3 = o3
    Values <- MCValues
    Preset <- MCPreset
    Plain <- MCPlain
    Infinity = Infinity
    MaxRefs = 2
SYMMETRY ObjectSymmetry
INVARIANTS TypeOK LoadsRight OneIdPerValue PoolIsFree KeptOnlyWhileHeld
PROPERTIES KeepsHandles
