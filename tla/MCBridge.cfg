SPECIFICATION Spec
CONSTANTS
    NativeUI = FALSE
    MaxCalls = 3
    Active = {"SAVE_LOAD", "BATTLE"}
    Values = {0, 1}
    Zero = 0
    MaxGeneration = 3
    MaxChanges = 3
    Events = {press, release}
    press = press
    release = release
    Garbage = Garbage
    InitialCapacity = 1
    MaxReserve = 3
    MaxCapacity = 8
    Directions = {"up", "down", "right"}
    Players <- MCPlayers
    Items = 4
    FullRows = 2
    MaxWalk = 3
    MaxButtons = 3
    MaxWidgets = 2
    MaxAnswers = 2
    Threads = {t1, t2}
    Addrs = {a1, a2, a3}
    Programs <- MCPrograms
    OwnerCap = 2
CHECK_DEADLOCK FALSE
INVARIANTS
    TrampolineIsOriginal
    LevelOncePerFight
    GenerationDetectsChange
    DirectionsAreOwned
    ChoicesAreShown
    OwnersAccounted
PROPERTIES
    ImplementsFifo
