\* Two clients, one of which may never finish a send, and readings that an
\* event may overtake.
SPECIFICATION Spec
CONSTANTS
    Client = {c1, c2}
    Slow = {c2}
    MaxEvent = 1
    MaxReading = 2
    StoreCap = 2
    ClientCap = 1
PROPERTIES ReadingsForward LatestShown Forgotten
