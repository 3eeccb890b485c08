\* Two requests at a time about a chosen profile, its clone, a group and three
\* sites: one in the table from the start, one whose adapter has no row yet, and one
\* that is only data.
CONSTANTS
    p = p
    u = u
    g = g
    example = example
    code = code
    data = data
    c1 = c1
    c2 = c2
    Names = {p}
    Uuids = {u}
    Groups = {g}
    Sites = {example, code, data}
    CodeSites = {example, code}
    Inserted = {example}
    Wanted <- SomeRows
    Clients = {c1, c2}
    Dirs = {p, u}
    DirOf <- OwnDirs
    NoRow = NoRow
    None = None
SYMMETRY Symmetry
SPECIFICATION Spec
INVARIANTS TypeOK RowHasStorage
PROPERTIES NoResurrection CodeSitesKept
