SPECIFICATION Spec
CONSTANTS
    o1 = o1
    o2 = o2
    o3 = o3
    o4 = o4
    d1 = d1
    d2 = d2
    s1 = s1
    k1 = k1
    b1 = b1
    b2 = b2
    Operations = {o1, o2, o3, o4}
    Documents = {d1}
    Datasets = {}
    Keys = {k1}
    Bodies = {b1}
    NoBody = NoBody
    Paths <- MCPaths
    Root = ""
    Ancestors <- MCAncestors
    Requests <- FolderRequests
    MaxRevision = 4
    MaxEpoch = 1
    MaxComputing = 0
SYMMETRY Symmetry
INVARIANTS CommittedCatalogOpens
