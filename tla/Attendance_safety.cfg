CONSTANTS
    office = office
    plant = plant
    an = an
    binh = binh
    NightEnd = 0
    DayLength = 3
    Locations = {office, plant}
    Hours <- MCHours
    Members = {an}
    Workers = {w1, w2}
    Keys = {k1, k2, k3}
    Granted <- MCGranted
    Switchable = {plant}
    Distances = {50, 150, 250}
    Accuracies = {10, 101}
    AllowRadius = 100
    WarningRadius = 200
    MinimumAccuracy = 100
    Horizon = 2
SPECIFICATION Spec
SYMMETRY MCSymmetry
INVARIANTS
    TypeOK
    AtMostOneOpen
    DeparturesFollowArrivals
    OneSessionPerDay
    OneEventPerKey
