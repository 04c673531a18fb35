SPECIFICATION Spec
CONSTANTS
    Slots = 4
    Gap = 2
    MaxPts = 6
    MaxSkew = 1
    Streams = {imu}
    Browsers = {dis}
    imu = imu
    dis = dis
INVARIANTS
    TypeOK
PROPERTIES
    RangeExact
    StreamComplete
