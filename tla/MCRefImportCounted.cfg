SPECIFICATION Spec
CONSTANTS
    g1 = g1
    i1 = i1
    i2 = i2
    Goods = {g1}
    Items = {i1}
    Owner <- MCOwner
    Barcoded = {i1}
    Firms = {f1, f2}
    Units = {kg, pc}
    Codes = {c1, c2}
    Names = {n1, n2}
    StepLists <- CountedLists
    NoUnit = NoUnit
    Absent = Absent
    MaxChanges = 0
    MaxFaults = 0
PROPERTIES
    CountedIsStored
