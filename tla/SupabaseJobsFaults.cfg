\* Two jobs, two workers and one operator; calls fail and the process restarts.
CONSTANTS
    w1 = w1
    w2 = w2
    o1 = o1
    o2 = o2
    Jobs = {1, 2}
    HumanJobs = {1}
    Poller = Poller
    Tick = Tick
    Workers = {w1, w2}
    Operators = {o1}
    NoTask = NoTask
    Faults = {"call", "crash"}
SPECIFICATION LiveSpec
INVARIANTS TypeOK AtMostOnce ClaimedOnce RunningIsHeld
PROPERTIES QueuedIsClaimed
CHECK_DEADLOCK FALSE
