SPECIFICATION Spec
CONSTANTS
    Frags = 3
    Percent <- MCPercent
    MaxSessions = 2
    MaxPackages = 2
    MaxFaults = 2
INVARIANTS
    TypeOK
    StatusTellsTheTruth
PROPERTIES
    LaunchesWhole
    CameraComesBack
