SPECIFICATION VersionSpec
CONSTANTS
    Texts <- McTwoVersions
    MaxUnsigned = 20
    MaxRecursions = 256
    NoComparison = NoComparison
INVARIANT
    ComparisonsAreRight
