SPECIFICATION Spec
CONSTANTS
    Root = root
    Kids = {k1, k2}
    MaxRequests = 2
INVARIANTS OwnResultOnce ServeEndsCleanly
PROPERTIES EveryRequestReturns LaunchEnds
