CONSTANTS
    office = office
    plant = plant
    an = an
    binh = binh
    NightEnd = 1
    DayLength = 4
    Locations = {office, plant}
    Hours <- MCHours
    Members = {an}
    Workers = {w1}
    Keys = {k1, k2, k3}
    Granted <- MCGranted
    Switchable = {plant}
    Distances = {50}
    Accuracies = {10}
    AllowRadius = 100
    WarningRadius = 200
    MinimumAccuracy = 100
    Horizon = 4
SPECIFICATION Spec
INVARIANT OneSessionPerDate
