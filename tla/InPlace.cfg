CONSTANTS
    foo = foo
    Foo = Foo
    bar = bar
    pass1 = pass1
    pass2 = pass2
    v1 = v1
    v2 = v2
    v3 = v3
    scr1 = scr1
    scr2 = scr2
    addon1 = addon1
    addon2 = addon2
    Names = {foo, Foo, bar}
    Fold <- McFold
    Passes = {pass1, pass2}
    Master = Master
    Contents = {v1, v2, v3}
    Script <- McScript
    Nothing = Nothing
    Torn = Torn
    MaxDownloads <- McMaxDownloads
    MaxKills = 1
    Titles = {addon1, addon2}
    Dirs = {addon1, addon2}
    DirOf <- McSame
    Under <- McSame
    Layouts = {"campaignd", "script"}
    Own = {}
    MaxVer = 2
    MaxFaults = 1
    Absent = Absent
SPECIFICATION McSpec
SYMMETRY McSymmetry
INVARIANTS
    CsTypeOK
    NoTwins
    DamageConfined
    ScriptsWereValidated
    
    OffersOutdated
    SuccessInstalls
