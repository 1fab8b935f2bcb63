SPECIFICATION FairSpec
CONSTANTS
    cat = cat
    ls = ls
    set = set
    nosuch = nosuch
    data = data
    Commands <- LiveCommands
    Files = {}
    Builtins <- MCBuiltins
    Missing <- MCMissing
    Readers <- MCReaders
    NoWord = NoWord
    Procs = {p1, p2}
    NoPid = NoPid
    Pipes = {k1}
    NoPipe = NoPipe
    MaxFd = 4
    MaxArg = 2
    MaxDepth = 2
CHECK_DEADLOCK FALSE
PROPERTIES
    WaitEnds
    PipelinesDrain
