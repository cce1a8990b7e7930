\* Readings, cancelled and late writes, downsampling: two sessions, one device.
SPECIFICATION Spec
CONSTANTS
    MaxSession = 2
    Device = {d1}
    Probe = {}
    MaxCycle = 2
    SimAddress = d1
INVARIANTS NoOrphanRows
PROPERTIES ActiveReadingsKept
