\* A client and the worker of a device, whose connection comes and goes.
SPECIFICATION Spec
CONSTANTS
    MaxSession = 2
    Client = {c1}
    Device = {d1}
    InRange = {d1}
    Setting = {"x"}
    MaxCrash = 1
PROPERTIES MemberIsRecorded
