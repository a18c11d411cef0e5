SPECIFICATION Spec
CONSTANTS
    Threads = {t1, t2, t3}
    NoThread = NoThread
    Pids = {p1, p2, p3}
    NoPid = NoPid
    MAX_NUM_TRACEES = 2
    PromptReuse = FALSE
INVARIANTS NoSharing FreeIsZero NoneLost
