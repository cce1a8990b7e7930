--------------------------- MODULE AlertEvaluatorMC ---------------------------
(***************************************************************************)
(* Target configurations and temperatures for TLC.                         *)
(***************************************************************************)
EXTENDS AlertEvaluator

Fixed(value, remind, unit) ==
    [mode |-> "fixed", target_value |-> value, range_low |-> Absent, range_high |-> Absent,
     pre_alert_offset |-> 5, reminder_interval_secs |-> remind, unit |-> unit]

Range(low, high, remind) ==
    [mode |-> "range", target_value |-> Absent, range_low |-> low, range_high |-> high,
     pre_alert_offset |-> 5, reminder_interval_secs |-> remind, unit |-> "C"]

\* 60 C without reminders and with two intervals, 65.6 C given in
\* Fahrenheit, and ranges: complete, without a high and without a low bound.
MCConfig ==
    {Fixed(60, 0, "C"), Fixed(60, 1, "C"), Fixed(60, 2, "C"), Fixed(150, 2, "F"),
     Range(50, 60, 2), Range(50, Absent, 0), Range(Absent, 60, 2)}

\* Below, on and above every threshold of the configurations.
MCTemp == {9 * c : c \in {40, 47, 50, 56, 60, 63, 65, 66}}

=============================================================================
