SPECIFICATION Spec
CONSTANTS
    ta = ta
    tb = tb
    alice = alice
    bob = bob
    carol = carol
    root = root
    None = None
    Titles = {ta}
    Versions = {v1, v2}
    Workers = {w1}
    Names <- McNames
    Logins = {alice, root}
    Supers = {root}
    AuthorLists <- McOneAuthor
    Routes = {"post", "form"}
    FormName <- McFormName
    AsId <- McNoNumerals
    Faults = {"raise", "tar", "kill", "admin"}
    MaxId = 1
    MaxUploads = 3
    MaxDownloads = 1
    MaxRatings = 0
    MaxSuffix = 2
SYMMETRY McSymmetry
INVARIANTS
    ListedVersionIsServed
PROPERTIES
    CatalogSpec
