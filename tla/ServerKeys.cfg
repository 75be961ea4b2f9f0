SPECIFICATION Spec
CONSTANTS
    ta = ta
    tb = tb
    alice = alice
    bob = bob
    carol = carol
    root = root
    None = None
    Titles = {ta, tb}
    Versions = {v1}
    Workers = {w1}
    Names <- McNames
    Logins = {alice, root}
    Supers = {root}
    AuthorLists <- McOneAuthor
    Routes = {"post"}
    FormName <- McFormName
    AsId <- McNoNumerals
    Faults = {"raise", "kill"}
    MaxId = 2
    MaxUploads = 2
    MaxDownloads = 1
    MaxRatings = 1
    MaxSuffix = 0
INVARIANTS
    ServesItsOwn
    RatingsOfThisAddon
    
PROPERTIES
    CountersKept
