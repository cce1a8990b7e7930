\* Two clients, one of which may never finish a send, and more events than
\* either queue holds.
SPECIFICATION Spec
CONSTANTS
    Client = {c1, c2}
    Slow = {c2}
    MaxEvent = 4
    MaxReading = 0
    StoreCap = 2
    ClientCap = 2
INVARIANTS RecentKept
PROPERTIES FeedSpec NewestArrives
