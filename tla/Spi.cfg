SPECIFICATION Spec
CONSTANTS
    d1 = d1
    d2 = d2
    Devices <- MCDevices
    Sync = sync
    Worker = worker
    Control = control
    Stale = stale
    NoOne = none
    Backends = {"sem"}
    Sem = sem
    MaxDone = 3
    Shapes <- MCShapes
    MaxControl = 2
SYMMETRY DeviceSymmetry
CONSTRAINT Explored
INVARIANTS TypeOK OneSelected OwnInterrupt BusyIsAsync OwnConfiguration Powered
