SPECIFICATION FairSpec
CONSTANTS
    c1 = c1
    c2 = c2
    c3 = c3
    github = github
    remote = remote
    Starts = {c1, c2, c3}
    Servers = {github, remote}
    SpecsOf <- MCSpecsOf
    Bootstrapped = {github}
    Reliable = {remote}
    Chunks = 2
INVARIANTS
    CacheInv
    PoisonNeedsOverlap
    PoisonPassesOrAborted
    RenamedIsWhole
PROPERTY
    EveryOpenReturns
CHECK_DEADLOCK FALSE
