SPECIFICATION Spec
CONSTANTS
    MaxPackets = 3
    MaxPts = 2
    Files <- MCFiles
    NoPts = NoPts
    StartTimes = {NoPts, 1}
    Duration = 1
    Delay = 1
    e1 = e1
    e2 = e2
    m1 = m1
    m2 = m2
    c1 = c1
    c2 = c2
    NoHandle = NoHandle
    Effects = {e1, e2}
    Music = {m1, m2}
    Channels = {c1, c2}
    Volumes <- MCVolumes
    MaxVolume = 2
    MaxFrames = 2
    MaxDepth = 3
    NoVideo = NoVideo
    OpenWait = 1
    BackGrace = 1
    ChromeGone = 1
    HandoffWait = 2
    Tabs = 6
    MaxPresses = 3
CHECK_DEADLOCK FALSE
INVARIANTS
    FramesArrive
    SoundFollowsHandles
    MovieLeavesNothing
PROPERTIES
    NextFrameReturns
    StepsBalance
    EveryMovieEnds
    HandoffEnds
    SessionFollowsMenu
    BackToBook
