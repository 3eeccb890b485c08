\* Two profiles and one to come, two tasks of the page, one request of a client.
CONSTANTS
    a = a
    b = b
    n = n
    t1 = t1
    t2 = t2
    Stored = {a, b}
    Fresh = {n}
    Choices <- SomeChoices
    Tasks = {t1, t2}
    MaxInputs = 2
    Nothing = Nothing
    New = New
    Unborn = Unborn
    Gone = Gone
    Idle = Idle
SYMMETRY Symmetry
SPECIFICATION Spec
INVARIANTS TypeOK NoMixing LaunchAsConfigured
PROPERTIES RuntimeKept
