SPECIFICATION FirmwareSpec
SYMMETRY DeviceSymmetry
CONSTANTS
    Devices = {d1, d2}
    NoDevice = NoDevice
    Ops = {o1}
    MaxSession = 3
    ImageSizes = {3}
    ChunkSizes = {0, 2}
    Preferred = 4
    Hundred = 20
    PercentWidth = 5
INVARIANTS
    FinishedImageIsComplete
    ActivityIsCountedOnce
    MaintenanceIsExclusive
    OwnerIsTheMediaLease
    PendingOperationIsReachable
    MediaLeaseIsBound
