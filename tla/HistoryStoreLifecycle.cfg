\* Sessions, members and targets: three sessions, one device, one probe.
SPECIFICATION Spec
CONSTANTS
    MaxSession = 3
    Device = {d1}
    Probe = {p1}
    MaxCycle = 0
    SimAddress = d1
INVARIANTS CurrentIsOpen OpenIsCurrent LifecycleCommitted
PROPERTIES PromiseSpec OpenSessionResumes
