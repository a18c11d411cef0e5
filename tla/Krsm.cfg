SPECIFICATION KrsmSpec
CONSTANTS
    Reasons = {r1, r2, r3}
    NoReason = NoReason
    Handles = {h1, h2, h3}
    MAX_PENDING = 2
    MaxResponses = 2
    N = 4
    Always = {2, 4}
    TaskReasons = {1, 2, 3}
    MAX_TASKS = 3
INVARIANTS TypeOK PendingCountsGuards AnsweredOnce PartsInOrder AllPartsRun PanicsOnlyIfFailedEarly AnswersPending
PROPERTIES LostOnlyIfUnwanted RefusedOnlyWhenFull AugmentEnds BatchIsPending EveryTaskAnswered
