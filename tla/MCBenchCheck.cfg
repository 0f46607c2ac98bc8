SPECIFICATION Spec
CONSTANTS
    get = get
    set = set
    n8 = n8
    core = core
    loader = loader
    linux = linux
    NoPackage = NoPackage
    Numbers = {n8}
    Lines <- MCLines
    Options <- MCOptions
    MaxBase = 3
    MaxCurrent = 2
INVARIANTS
    NothingSlips
    NoFalseAlarm
    OnlyComparable
