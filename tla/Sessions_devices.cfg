CONSTANTS
    Accounts = {an,binh}
    Elsewhere = elsewhere
    Logins = {l1,l2}
    Ids = {s1,s2,s3}
    MaxDevices = 2
SPECIFICATION Spec
SYMMETRY MCSymmetry
INVARIANTS
    TypeOK
    LoginsNeverCollide
    WithinDeviceLimit
    
