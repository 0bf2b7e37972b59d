SPECIFICATION Spec
CONSTANTS
    g1 = g1
    i1 = i1
    i2 = i2
    Goods = {g1}
    Items = {i1, i2}
    Owner <- MCOwner
    Barcoded = {}
    Firms = {}
    Units = {kg, pc}
    Codes = {c1, c2}
    Names = {n1, n2}
    StepLists <- GoodsLists
    NoUnit = NoUnit
    Absent = Absent
    MaxChanges = 2
    MaxFaults = 1
INVARIANTS
    TypeOK
    OneDefaultUnit
    NothingForgotten
    FullImportMirrors
