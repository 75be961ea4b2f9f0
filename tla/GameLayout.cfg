CONSTANTS
    Titles = {a}
    Dirs = {a}
    DirOf <- McSame
    Under <- McSame
    Layouts = {"game"}
    Own = {}
    MaxVer = 2
    MaxFaults = 1
    Absent = Absent
SPECIFICATION GaSpec
INVARIANT SuccessInstalls
