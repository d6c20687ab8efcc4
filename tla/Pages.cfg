\* Three calls of eval for two places, and two pages; a connection with two threads, one of
\* which a slow call may keep, a queue and a channel of one.
SPECIFICATION PagesFairSpec
CONSTANTS
    None = None
    Evals = {e1, e2, e3}
    Pages = {p1, p2}
    MaxInFlight = 2
    Threads = 2
    QueueSize = 1
    Capacity = 1
    SocketBuffer = 1
    MaxCalls = 2
    MaxBatches = 2
    MaxErrors = 1
    MaxPushes = 1
    Slow = {1}
INVARIANTS OneAnswer EachCallInOnePlace NoChangeMissed LogsInOrder
PROPERTIES EvalReturns CallsAnswered PushesFlow
\* A connection ends.
CHECK_DEADLOCK FALSE
