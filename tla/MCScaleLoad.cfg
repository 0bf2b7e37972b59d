SPECIFICATION Spec
CONSTANTS
    Workplaces = {w1, w2}
    digi = digi
    tiger = tiger
    Scales <- MCScales
    DigiScales = {digi}
    Wares <- MCWares
    Arts = {1, 2, 3}
    MaxArt = 2
    MaxChanges = 1
    MaxFaults = 1
SYMMETRY WorkplaceSymmetry
INVARIANTS
    TypeOK
    ScaleHoldsItsList
