\* Two profiles, two clients that ask for either, two leases with up to three
\* versions.
CONSTANTS
    Profiles = {p, q}
    Clients = {c1, c2}
    Ids = {i1, i2}
    MaxVersion = 3
    None = None
SPECIFICATION Spec
SYMMETRY Symmetry
INVARIANTS TypeOK LeaseCurrent LeasesApart
PROPERTIES StickyLease
