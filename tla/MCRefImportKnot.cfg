SPECIFICATION FairSpec
CONSTANTS
    g1 = g1
    i1 = i1
    i2 = i2
    Goods = {g1}
    Items = {i1}
    Owner <- MCOwner
    Barcoded = {}
    Firms = {}
    Units = {kg, pc}
    Codes = {c1, c2}
    Names = {n1, n2}
    StepLists <- ShippedLists
    NoUnit = NoUnit
    Absent = Absent
    MaxChanges = 1
    MaxFaults = 0
PROPERTIES
    ChangesLeave
