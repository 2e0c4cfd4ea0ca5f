\* Components that share no state, side by side: a turn's model calls, the MCP
\* server, the agent's functions, its browser, the API server's process, the thread rows,
\* the loop of an agent.
CONSTANTS
    Requests <- MCRequests
    Chain = 2
    IdleRetries = 1
    NodeAttempts = 2
    MaxPieces = 1
    Known = {"general", "browser-agent"}
    Stranger = "gone"
    BrowserOrg = "browser-agent"
    Threads = {"t"}
    Messages = {"m"}
    To <- MCTo
    Calls = {1, 2}
    MaxRuns = 2
    MaxRestarts = 1
    Nobody = Nobody
    Names = {"f", "g"}
    Actors = {1, 2}
    MaxTasks = 4
    MaxDeaths = 1
    Absent = 0
    Processes = {1, 2}
    PortOf <- MCPortOf
    ToolThreads = {"call", "parallel"}
    Attempts = 2
    MaxUses = 2
    MaxLaunches = 2
    MaxCrashes = 1
    NoPort = NoPort
    RunOrgs = {"plain", "preparing"}
    JobsOf <- MCJobsOf
    Slots = {1, 2}
    MaxRequests = 3
    ThreadIds = {"t", "u"}
    Directs = {1}
    MaxReboots = 1
    Agents <- MCAgents
    ToolCalls <- MCToolCalls
    ToolAttempts = 2
    MaxToolCalls = 2
    MaxTexts = 2
SPECIFICATION HostPartsSpec
INVARIANTS
    PinIsHard
    RepeatNeedsCutOff
    ToolsLostOnlyByFailover
    RunsTwiceOnlyIfLost
    SessionKnown
    FunctionLostOnlyByOverlap
    PromotedIsWhatRuns
    PageKept
    OncePerProcess
    DeletedIsGone
    OnlyOffloadingDistorts
    BlindGetsNoPicture
    RoundsOnlyIfForgotten
PROPERTIES
    TurnEnds
CHECK_DEADLOCK FALSE
