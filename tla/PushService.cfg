\* Two phones and two Live Activities, one of each with failing pushes, and
\* one token that dies.
SPECIFICATION Spec
CONSTANTS
    Token = {t1, t2}
    LaToken = {a1, a2}
    Flaky = {t2, a2}
    MaxDead = 1
    Interval = 1
    NoRow = NoRow
    NoLa = NoLa
PROPERTIES OnlyRefusedAreDropped UpdatesSpaced HealthyAreReached UpdatesGoOn
