SPECIFICATION Spec
CONSTANTS
    c1 = c1
    c2 = c2
    Keys = {1, 2}
    UNKNOWN = 0
    Controllers = {c1, c2}
    Buttons = {"A"}
    Axes = {"X"}
    MaxRefs = 3
    InitialCapacity = 1
    MaxQueue = 3
    DefaultButton <- MCButton
    DefaultNegative <- MCNegative
    DefaultPositive <- MCPositive
    Remaps = {0, 1, 2}
SYMMETRY Symmetry
INVARIANTS
    TypeOK
    StreamMatchesKeys
    StreamAlternates
    RefsHaveHolders
