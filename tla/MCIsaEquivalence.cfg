SPECIFICATION Spec
CONSTANTS
    Contents <- MCContents
    Exports <- MCExports
    Locals <- MCLocals
    LookupName <- MCLookupName
    Variants <- MCVariants
    Ctors = {"_ctor"}
    Variadics = {"printf", "format"}
    Hooked = {"_new"}
    Mappings <- MCMappings
    Formats <- MCFormats
    Main = "main"
    Libc = "libc"
    MaxDylibs = 2
    MaxDeferred = 3
    MaxSegments = 2
    PoolSize <- MCPoolSize
    Pages = 9
    Segments <- MCSegments
    PoolPages = 2
    Program = "prog"
    Slices <- MCSlices
    OthersMax = 2
    Frames <- MCFrames
    Text <- MCText
    Starts = {1, 3, 5, 7}
    TextEnd = 9
    Symbols <- MCSymbols
    HookFiles <- MCHookFiles
    Configs <- MCConfigs
    PatchFiles <- MCPatchFiles
    Entries <- MCEntries
    Islands = 6
    InRange <- MCInRange
    BranchReaches <- MCBranchReaches
    DataSymbols <- MCDataSymbols
    Library = {"lib1", "lib2", "lib3", "lib4"}
    DataPages = {1, 2, 3, 4, 5}
    MaxGuarded = 3
    Threads = {t1, t2}
    M = 4
    NoResult = NoResult
    Instructions <- MCAllInstructions
    Bcax <- MCNoBcax
    Callers = {c1}
    Nobody = Nobody
    HeapBlocks = {h1}
    ArenaBlocks = {a1}
    BootBlocks = {b1}
    Sizes = {1}
    CallStacks <- MCStacks
    MapPages = 1
    MapTags = {"anon"}
    MaxTags = 3
    RegistryMax = 2
    MaxAstray = 0
    Worlds = {"maps"}
    w1 = w1
    w2 = w2
    Savers = {w1, w2}
    Scenarios <- MCScenarios
    TempNames <- MCTempNames
    MaxSaves = 0
    MaxStops = 0
    Senders = {s1}
    Selectors = {"init", "draw"}
    Class <- MCClass
    NSObject = "NSObject"
    NSObjectMeta = "NSObject*"
    ObservedMax = 0
CHECK_DEADLOCK FALSE
INVARIANT
    Equivalent
