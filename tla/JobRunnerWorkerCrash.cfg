\* Two jobs that share a profile, two workers.
CONSTANTS
    a = a
    b = b
    c = c
    code = code
    data = data
    p = p
    q = q
    r = r
    w1 = w1
    w2 = w2
    Jobs = {a, c}
    Sites = {code, data}
    CodeSites = {code}
    Profiles = {p, q, r}
    Workers = {w1, w2}
    MaxSite = 1
    SiteOf <- OneDataJob
    ProfileOf <- SharedProfiles
    NoJob = NoJob
    EditableSites = {}
SPECIFICATION LiveSpec
INVARIANTS
    WorkersSurvive
CHECK_DEADLOCK FALSE
