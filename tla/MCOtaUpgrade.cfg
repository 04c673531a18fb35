SPECIFICATION Spec
CONSTANTS
    N = 3
    MaxFaults = 1
    WriteOrder <- MCWriteOrder
    Uboot = "uboot"
    Rootfs = "rootfs"
    Pkg <- MCPkg
    MaskValue <- MCMaskValue
    Retries = 2
INVARIANTS
    TypeOK
    RecoveryFromOtfl
    DoneIsFlashed
    NeverStranded
PROPERTIES
    UpgradeIsAtomic
    BootEnds
