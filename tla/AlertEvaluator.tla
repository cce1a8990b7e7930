---------------------------- MODULE AlertEvaluator ----------------------------
(***************************************************************************)
(* The alert evaluator of src/service/alerts/evaluator.py.                 *)
(*                                                                         *)
(* It keeps a list of targets per session and alert flags per (session,    *)
(* probe_index), and treats every such pair on its own.  This module is    *)
(* one pair: the targets the session has for one probe index, at most one  *)
(* per device, and the flags they share, since neither the list nor the    *)
(* key names the device.  The evaluator never awaits: each call is a step. *)
(*                                                                         *)
(* Temperatures are in ninths of a degree Celsius, in which whole degrees  *)
(* of both units are integers; the rounding of floats is left out.         *)
(***************************************************************************)
EXTENDS Integers

CONSTANTS NumDevice,    \* the devices, numbered in the order of their addresses
          Config,       \* the target configurations clients choose from
          Temp,         \* the temperatures that are read
          MaxTime       \* bound on the clock, in seconds

Device == 1..NumDevice
Absent == -10000        \* None: below any temperature

\* A TargetConfig without the fields nothing here depends on.
ConfigShape ==
    [mode : {"fixed", "range"}, target_value : Int, range_low : Int, range_high : Int,
     pre_alert_offset : Nat, reminder_interval_secs : Nat, unit : {"C", "F"}]

\* The list holds no target of the device.
NoTarget ==
    [mode |-> "none", target_value |-> Absent, range_low |-> Absent, range_high |-> Absent,
     pre_alert_offset |-> 0, reminder_interval_secs |-> 0, unit |-> "C"]

ASSUME EvaluatorAssumption ==
    /\ NumDevice \in Nat
    /\ MaxTime \in Nat
    /\ Config \subseteq ConfigShape
    /\ Temp \subseteq Int

-----------------------------------------------------------------------------
(* Targets.                                                                *)

ToCelsius(value, unit) == IF unit = "F" THEN 5 * (value - 32) ELSE 9 * value
OffsetToCelsius(offset, unit) == IF unit = "F" THEN 5 * offset ELSE 9 * offset

EffectiveTarget(c) ==
    IF c.mode = "fixed" THEN c.target_value
    ELSE IF c.mode = "range" THEN c.range_high ELSE Absent

High(c) == ToCelsius(EffectiveTarget(c), c.unit)
Low(c) == ToCelsius(c.range_low, c.unit)
Offset(c) == OffsetToCelsius(c.pre_alert_offset, c.unit)

\* A target without an effective temperature, or a range without a low
\* bound, is passed over.
Evaluable(c) ==
    /\ EffectiveTarget(c) # Absent
    /\ c.mode = "range" => c.range_low # Absent

Reached(c, temp) ==
    IF c.mode = "fixed" THEN temp >= High(c) ELSE Low(c) <= temp /\ temp <= High(c)

Exceeded(c, temp) == temp > High(c)

Approaching(c, temp) ==
    IF c.mode = "fixed" THEN High(c) - Offset(c) <= temp /\ temp < High(c)
    ELSE Low(c) - Offset(c) <= temp /\ temp < Low(c)

ApproachingHigh(c, temp) ==
    /\ c.mode = "range"
    /\ High(c) - Offset(c) < temp
    /\ temp <= High(c)

-----------------------------------------------------------------------------
(* Flags and events.                                                       *)

OneShot == {"approaching", "approaching_high", "reached", "exceeded"}
EventType == OneShot \cup {"reminder"}

Flags ==
    [approaching_sent : BOOLEAN, approaching_high_sent : BOOLEAN, reached_sent : BOOLEAN,
     exceeded_sent : BOOLEAN, last_reminder_ts : Nat]

Fresh ==
    [approaching_sent |-> FALSE, approaching_high_sent |-> FALSE, reached_sent |-> FALSE,
     exceeded_sent |-> FALSE, last_reminder_ts |-> 0]

VARIABLES
    target,     \* the targets of the probe index, by device
    state,      \* its ProbeAlertState, Fresh while there is none
    events,     \* what the last call returned: <<type, device of the target>>
    source,     \* the device whose readings were last evaluated
    now,        \* time.monotonic()
    heard,      \* history: the events with a device's sensorId since its target was raised
    loudest,    \* history: the highest target it was said to exceed
    lastNews    \* history: when it was last said to exceed a target, or reminded of it

vars == <<target, state, events, source, now, heard, loudest, lastNews>>

\* The types, and the order in which the flags are set.
TypeOK ==
    /\ target \in [Device -> Config \cup {NoTarget}]
    /\ state \in Flags
    /\ state.exceeded_sent => state.reached_sent
    /\ state.reached_sent => state.approaching_sent
    /\ events \subseteq EventType \X Device
    /\ source \in Device \cup {0}
    /\ now \in 0..MaxTime
    /\ heard \in [Device -> SUBSET EventType]
    /\ loudest \in [Device -> Int]
    /\ lastNews \in [Device -> Int]

-----------------------------------------------------------------------------
(* evaluate                                                                *)

\* Seeded faults of Marked: a target that is reached may still be
\* approached, or the first reminder is not held back by the exceeded event.
MarkedReachedOnly(c, temp, s) ==
    [approaching_sent      |-> s.approaching_sent \/ Approaching(c, temp),
     approaching_high_sent |-> s.approaching_high_sent \/ ApproachingHigh(c, temp),
     reached_sent          |-> s.reached_sent \/ Reached(c, temp) \/ Exceeded(c, temp),
     exceeded_sent         |-> s.exceeded_sent \/ Exceeded(c, temp),
     last_reminder_ts      |-> IF Exceeded(c, temp) /\ ~s.exceeded_sent
                               THEN now ELSE s.last_reminder_ts]

MarkedUntimed(c, temp, s) ==
    LET arrived == Reached(c, temp) \/ Exceeded(c, temp) IN
    [approaching_sent      |-> s.approaching_sent \/ Approaching(c, temp) \/ arrived,
     approaching_high_sent |-> s.approaching_high_sent \/ ApproachingHigh(c, temp),
     reached_sent          |-> s.reached_sent \/ arrived,
     exceeded_sent         |-> s.exceeded_sent \/ Exceeded(c, temp),
     last_reminder_ts      |-> s.last_reminder_ts]

\* The flags s after the one-shot events of target c.
Marked(c, temp, s) ==
    LET reached  == Reached(c, temp) /\ ~s.reached_sent
        exceeded == Exceeded(c, temp) /\ ~s.exceeded_sent
    IN  [approaching_sent      |-> s.approaching_sent \/ Approaching(c, temp) \/ reached \/ exceeded,
         approaching_high_sent |-> s.approaching_high_sent \/ ApproachingHigh(c, temp),
         reached_sent          |-> s.reached_sent \/ reached \/ exceeded,
         exceeded_sent         |-> s.exceeded_sent \/ exceeded,
         last_reminder_ts      |-> IF exceeded THEN now ELSE s.last_reminder_ts]

\* Seeded fault of ReminderDue: > for >=.
ReminderLate(c, temp, s) ==
    /\ Exceeded(c, temp)
    /\ c.reminder_interval_secs > 0
    /\ s.exceeded_sent
    /\ now - s.last_reminder_ts > c.reminder_interval_secs

ReminderDue(c, temp, s) ==
    /\ Exceeded(c, temp)
    /\ c.reminder_interval_secs > 0
    /\ s.exceeded_sent
    /\ now - s.last_reminder_ts >= c.reminder_interval_secs

\* The event types that target c adds, with flags s before.
Raised(c, temp, s) ==
    {e \in EventType :
        \/ e = "approaching"      /\ Approaching(c, temp)     /\ ~s.approaching_sent
        \/ e = "approaching_high" /\ ApproachingHigh(c, temp) /\ ~s.approaching_high_sent
        \/ e = "reached"          /\ Reached(c, temp)         /\ ~s.reached_sent
        \/ e = "exceeded"         /\ Exceeded(c, temp)        /\ ~s.exceeded_sent
        \/ e = "reminder"         /\ ReminderDue(c, temp, Marked(c, temp, s))}

Reminded(c, temp, s) ==
    IF ReminderDue(c, temp, s)
    THEN [approaching_sent |-> s.approaching_sent,
          approaching_high_sent |-> s.approaching_high_sent,
          reached_sent |-> s.reached_sent,
          exceeded_sent |-> s.exceeded_sent,
          last_reminder_ts |-> now]
    ELSE s

\* The loop over the list: the targets of all devices, whichever device the
\* reading comes from.
AfterTarget(temp) ==
    LET after[d \in 0..NumDevice] ==
            IF d = 0 THEN [state |-> state, events |-> {}]
            ELSE LET before == after[d - 1]
                     c == target[d]
                 IN  IF ~Evaluable(c) THEN before
                     ELSE [state  |-> Reminded(c, temp, Marked(c, temp, before.state)),
                           events |-> before.events
                                        \cup (Raised(c, temp, before.state) \X {d})]
    IN  after[NumDevice]

\* A worker's, or the simulator's, reading of the probe of device d: every
\* event carries d as its sensorId, and the target that raised it.
Evaluate(d, temp) ==
    LET result == AfterTarget(temp)
        types  == {e \in EventType : \E a \in Device : <<e, a>> \in result.events}
        passed == {High(target[a]) : a \in {b \in Device : <<"exceeded", b>> \in result.events}}
    IN  /\ state' = result.state
        /\ events' = result.events
        /\ source' = d
        /\ heard' = [heard EXCEPT ![d] = @ \cup types]
        /\ loudest' = [loudest EXCEPT ![d] =
                          CHOOSE h \in passed \cup {@} : \A g \in passed \cup {@} : g <= h]
        /\ lastNews' = [lastNews EXCEPT ![d] =
                          IF types \cap {"exceeded", "reminder"} # {} THEN now ELSE @]
        /\ UNCHANGED <<target, now>>

\* An unplugged probe is passed over.
EvaluateUnplugged(d) ==
    /\ events' = {}
    /\ source' = d
    /\ UNCHANGED <<target, state, now, heard, loudest, lastNews>>

-----------------------------------------------------------------------------
(* set_targets and clear_session                                           *)

\* old_target_by_idx: of several targets with one index the last is kept.
OldTarget ==
    LET set == {d \in Device : target[d] # NoTarget}
    IN  IF set = {} THEN NoTarget ELSE target[CHOOSE d \in set : \A a \in set : a <= d]

\* Seeded faults of Rearms: the silent cook, and flags that do not survive
\* the list being stored again.
NeverRearms(new) == OldTarget = NoTarget
AlwaysRearms(new) == TRUE

\* The flags start afresh: no target had them, or one of the new targets
\* is higher than the old one, or cannot be compared with it.
Rearms(new) ==
    \/ OldTarget = NoTarget
    \/ \A d \in Device : new[d] = NoTarget
    \/ \E d \in Device :
          /\ new[d] # NoTarget
          /\ \/ EffectiveTarget(OldTarget) = Absent
             \/ EffectiveTarget(new[d]) = Absent
             \/ High(new[d]) > High(OldTarget)

\* The target was raised, or is no longer, or not yet, comparable.
Higher(old, new) ==
    \/ EffectiveTarget(old) = Absent
    \/ EffectiveTarget(new) = Absent
    \/ High(new) > High(old)

SetTargets(new) ==
    /\ target' = new
    /\ state' = IF Rearms(new) THEN Fresh ELSE state
    /\ events' = {}
    /\ heard' = [d \in Device |-> IF Higher(target[d], new[d]) THEN {} ELSE heard[d]]
    /\ loudest' = [d \in Device |-> IF new[d] = NoTarget THEN Absent ELSE loudest[d]]
    /\ UNCHANGED <<source, now, lastNews>>

ClearSession ==
    /\ target' = [d \in Device |-> NoTarget]
    /\ state' = Fresh
    /\ events' = {}
    /\ heard' = [d \in Device |-> {}]
    /\ loudest' = [d \in Device |-> Absent]
    /\ UNCHANGED <<source, now, lastNews>>

-----------------------------------------------------------------------------
Tick ==
    /\ now < MaxTime
    /\ now' = now + 1
    /\ events' = {}
    /\ UNCHANGED <<target, state, source, heard, loudest, lastNews>>

Init ==
    /\ target = [d \in Device |-> NoTarget]
    /\ state = Fresh
    /\ events = {}
    /\ source = 0
    /\ now = 0
    /\ heard = [d \in Device |-> {}]
    /\ loudest = [d \in Device |-> Absent]
    /\ lastNews = [d \in Device |-> Absent]

Next ==
    \/ \E d \in Device, temp \in Temp : Evaluate(d, temp)
    \/ \E d \in Device : EvaluateUnplugged(d)
    \/ \E new \in [Device -> Config \cup {NoTarget}] : SetTargets(new)
    \/ ClearSession
    \/ Tick

Spec == Init /\ [][Next]_vars

-----------------------------------------------------------------------------
(* Properties. *)

\* The reading of d that led to this state was over the target of d.
ReadOver(d) == \E temp \in Temp : Evaluate(d, temp) /\ Evaluable(target[d])
                                   /\ Exceeded(target[d], temp)

\* No silent cook: whoever reads a probe over its target has been told that
\* a target at least as high was exceeded, however the target was edited,
\* in whichever unit and mode.
NeverSilent ==
    [][\A d \in Device : ReadOver(d) => loudest'[d] >= High(target[d])]_vars

\* A one-shot event is not repeated until the target is raised: storing the
\* list again, lowering the target or a temperature that swings around it
\* does not.
NotRepeated ==
    [][\A d \in Device, e \in OneShot : <<e, d>> \in events' => e \notin heard[d]]_vars

\* The stages of a target, near, reached and exceeded, are told in that order
\* until the target is raised: a temperature that falls back, or an edit that
\* lowers the target, does not bring an earlier stage up again.  The warning
\* that the top of a range is near, sent as another target_approaching with
\* the subtype "high", is not a stage: it may follow any of them.
StagesInOrder ==
    [][\A d \in Device :
          /\ <<"approaching", d>> \in events' => heard[d] \cap {"reached", "exceeded"} = {}
          /\ <<"reached", d>> \in events' => "exceeded" \notin heard[d]]_vars

\* A reminder comes only after other news, and not before the interval of
\* the target has passed since.
RemindersSpaced ==
    [][\A d \in Device : <<"reminder", d>> \in events' =>
          /\ <<"exceeded", d>> \notin events'
          /\ lastNews[d] # Absent
          /\ now - lastNews[d] >= target[d].reminder_interval_secs]_vars

\* Whoever reads a probe over its target has news of it that is more recent
\* than the reminder interval: no reminder is left out.
NewsIsRecent ==
    [][\A d \in Device :
          ReadOver(d) /\ target[d].reminder_interval_secs > 0 =>
              now - lastNews'[d] < target[d].reminder_interval_secs]_vars

=============================================================================
