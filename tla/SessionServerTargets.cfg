\* Two clients start, edit, end and discard sessions of two devices, of which
\* none is connected; their calls fail and the process may crash once.
SPECIFICATION Spec
CONSTANTS
    MaxSession = 2
    Client = {c1, c2}
    Device = {d1, d2}
    InRange = {}
    Setting = {"x"}
    MaxCrash = 1
SYMMETRY Alike
VIEW WithoutMembers
INVARIANTS ArmedAsStored OverOnce BroadcastsTell
PROPERTIES AlarmsStayArmed
