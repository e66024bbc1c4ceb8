CONSTANTS
    office = office
    plant = plant
    an = an
    binh = binh
    NightEnd = 0
    DayLength = 3
    Locations = {office, plant}
    Hours <- MCHours
    Members = {an, binh}
    Workers = {w1, w2}
    Keys = {k1, k2}
    Granted <- MCGranted
    Switchable = {}
    Distances = {50}
    Accuracies = {10}
    AllowRadius = 100
    WarningRadius = 200
    MinimumAccuracy = 100
    Horizon = 1
SPECIFICATION FairSpec
PROPERTIES
    KeepsBook
    RequestsEnd
