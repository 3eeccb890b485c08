\* The timer and a handler, a task of the filter, one of the Events button, and a handler that met an error.
CONSTANTS
    timer = timer
    handler = handler
    filters = filters
    events = events
    error = error
    g = g
    j = j
    k = k
    Callers = {timer, handler}
    Partials = {filters, events, error}
    PlanOf <- Plans
    Groups = {g}
    Jobs = {j, k}
    All = All
    NoJob = NoJob
    Changing = {"jobs"}
    MaxVersion = 1
    MaxFailures = 1
    MaxClicks = 1
SPECIFICATION LiveSpec
INVARIANTS TypeOK RefreshNotLost FilterNotLost
PROPERTIES NeverGoesBack ViewSettles FilterSettles
