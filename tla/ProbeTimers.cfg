\* One timer in two sessions, one after the other, on a clock of half
\* seconds that is set back once: requests between the scan and the
\* completions, and a scan that a restart interrupts.
SPECIFICATION Spec
CONSTANTS
    MaxSession = 2
    Timer = {t1}
    Duration = {1}
    MaxTime = 3
    MaxStop = 2
    MaxSetBack = 1
    MaxRestart = 1
INVARIANTS AlertedOnce Accounting
PROPERTIES CompletedIsFinal ExpiredIsCompleted
