SPECIFICATION McSpec
CONSTANTS
    ta = ta
    tb = tb
    v1 = v1
    v2 = v2
    None = None
    Titles = {ta, tb}
    Dirs = {ta, tb}
    Versions = {v1, v2}
    Ids = {1, 2}
    MaxRev = 2
    DirOf <- McDirOf
    Start <- McEmpty
    ServerActs <- McNothing
    Commands <- McAll
    Texts <- McVersions
    MaxUnsigned = 20
    MaxRecursions = 12
    NoComparison = NoComparison
    Files <- McFiles
SYMMETRY McSymmetry
INVARIANTS
    TypeOK
    UpdateConverges
    
    
    RightUntilExhausted

    
