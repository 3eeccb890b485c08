\* Two jobs, one worker and one operator; nothing fails.
CONSTANTS
    w1 = w1
    w2 = w2
    o1 = o1
    o2 = o2
    Jobs = {1, 2}
    HumanJobs = {1}
    Poller = Poller
    Tick = Tick
    Workers = {w1}
    Operators = {o1}
    NoTask = NoTask
    Faults = {}
SPECIFICATION LiveSpec
PROPERTIES CancelEndsRun
CHECK_DEADLOCK FALSE
