\* Two workers; two jobs of the data site, where the operator may leave one waiting for ever.
CONSTANTS
    a = a
    b = b
    c = c
    code = code
    data = data
    p = p
    q = q
    r = r
    w1 = w1
    w2 = w2
    Jobs = {a, b, c}
    Sites = {code, data}
    CodeSites = {code}
    Profiles = {p, q, r}
    Workers = {w1, w2}
    MaxSite = 1
    SiteOf <- OneCodeJob
    ProfileOf <- OwnProfiles
    NoJob = NoJob
    EditableSites = {}
SPECIFICATION LiveSpec
INVARIANTS
    TypeOK
    SiteSlots
    ClaimedOnce
    RunningIsHeld
    CheckpointAgrees
PROPERTIES
    LifecycleSpec
    JobsServed
CHECK_DEADLOCK FALSE
