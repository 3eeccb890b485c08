\* One profile, two clients that ask for it.
CONSTANTS
    Profiles = {p}
    Clients = {c1, c2}
    Ids = {i1, i2}
    MaxVersion = 2
    None = None
SPECIFICATION Spec
PROPERTIES BuysIfNone
