SPECIFICATION MCSpec
CONSTANTS
    t1 = t1
    t2 = t2
    Thread = {t1, t2}
    Null = Null
    MaxNest = 2
    Fn = {f, g}
    MaxItems = 3
    Order = {0, 1}
    Pid = {1, 2, 3}
    Device = {d1, d2}
    Chunks = 2
    Timely = TRUE
    Loadable = {"p", "q"}
    Node = {n1, n2, n3}
    Programs <- Usual
    UnixArguments <- UserArguments
    Lines <- CommandLines
    Environments <- OwnEnvironments
    Os2Path = "o"
    MaxGenerations = 3
INVARIANTS
    TheNewProgramRuns
CHECK_DEADLOCK FALSE
