\* Two profiles; two tasks open and close their sessions while the application stops.
CONSTANTS
    a = a
    b = b
    Profiles = {a, b}
    Callers = {c1, c2}
    Shutdown = Shutdown
    NoOne = NoOne
SPECIFICATION LiveSpec
INVARIANTS
    TypeOK
    OneBrowser
    LockedByBrowser
PROPERTIES
    BrowserSpec
    OpensAnswered
    ShutdownSettles
CHECK_DEADLOCK FALSE
