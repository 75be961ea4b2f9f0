SPECIFICATION Spec
CONSTANTS
    ta = ta
    tb = tb
    alice = alice
    bob = bob
    carol = carol
    root = root
    None = None
    Titles = {ta, tb}
    Versions = {v1}
    Workers = {w1}
    Names <- McNames
    Logins = {alice, root}
    Supers = {root}
    AuthorLists <- McOneAuthor
    Routes = {"post", "form"}
    FormName <- McSameFile
    AsId <- McNoNumerals
    Faults = {}
    MaxId = 2
    MaxUploads = 2
    MaxDownloads = 0
    MaxRatings = 0
    MaxSuffix = 0
INVARIANTS
    ServesItsOwn
