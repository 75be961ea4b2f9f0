SPECIFICATION Spec
CONSTANTS
    ta = ta
    tb = tb
    alice = alice
    bob = bob
    carol = carol
    root = root
    None = None
    Titles = {ta}
    Versions = {v1, v2}
    Workers = {w1}
    Names <- McNames
    Logins = {alice, bob, root}
    Supers = {root}
    AuthorLists <- McAuthorLists
    Routes = {"post", "form"}
    FormName <- McFormName
    AsId <- McNoNumerals
    Faults = {"raise"}
    MaxId = 1
    MaxUploads = 3
    MaxDownloads = 1
    MaxRatings = 1
    MaxSuffix = 2
SYMMETRY McSymmetry
INVARIANTS
    TypeOK
    ArchiveAgrees
    Maintainable
    PublishedIsServed
