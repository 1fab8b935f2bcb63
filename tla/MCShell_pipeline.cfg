SPECIFICATION Spec
CONSTANTS
    cat = cat
    ls = ls
    set = set
    nosuch = nosuch
    data = data
    Commands <- PipelineCommands
    Files = {}
    Builtins <- MCBuiltins
    Missing <- MCMissing
    Readers <- MCReaders
    NoWord = NoWord
    Procs = {p1, p2, p3}
    NoPid = NoPid
    Pipes = {k1, k2}
    NoPipe = NoPipe
    MaxFd = 6
    MaxArg = 2
    MaxDepth = 3
SYMMETRY Symmetry
CHECK_DEADLOCK FALSE
INVARIANTS
    TypeOK
    WaitTarget
    NoLeak
    PipeEnds
    ChildPassesCheck
PROPERTY
    ImplementsJobControl
