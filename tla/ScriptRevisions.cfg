SPECIFICATION McSpec
CONSTANTS
    ta = ta
    tb = tb
    v1 = v1
    v2 = v2
    None = None
    Titles = {ta}
    Dirs = {ta}
    Versions = {v1, v2}
    Ids = {1}
    MaxRev = 10
    DirOf <- McDirOf
    Start <- McNinth
    ServerActs <- McNothing
    Commands <- McDownloads
    Texts <- McVersions
    MaxUnsigned = 20
    MaxRecursions = 12
    NoComparison = NoComparison
    Files <- McFiles
INVARIANT UpdateConverges
