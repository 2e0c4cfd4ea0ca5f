SPECIFICATION Spec
CONSTANTS
    c1 = c1
    c2 = c2
    c3 = c3
    github = github
    remote = remote
    Starts = {c1, c2}
    Servers = {github, remote}
    SpecsOf <- MCSpecsOf
    Bootstrapped = {github}
    Reliable = {remote}
    Chunks = 2
INVARIANT
    CacheHoldsNoPartial
CHECK_DEADLOCK FALSE
