----------------------------- MODULE ProbeTimers ------------------------------
(***************************************************************************)
(* Per-probe timers: the session_timers rows and the timer methods of      *)
(* src/service/history/store.py, driven by the clients' probe_timer        *)
(* requests and by the CountdownCompleter of src/service/timers.py.        *)
(*                                                                         *)
(* Each method runs under HistoryStore._lock and its caller publishes the  *)
(* result without yielding in between, so a method and its broadcast are   *)
(* one action.  The completer is not: it finds the expired countdowns in   *)
(* one call and completes them, one call each, while requests run in       *)
(* between.  A request that finds its session no longer active, or its     *)
(* timer missing, raises and changes nothing.                              *)
(*                                                                         *)
(* Time is the wall clock, in ticks of half a second: elapsed time is      *)
(* truncated to whole seconds, and the clock may be set back.              *)
(***************************************************************************)
EXTENDS Integers

CONSTANTS MaxSession,   \* bound on the session ids ever issued
          Timer,        \* (address, probe_index) pairs
          Duration,     \* the countdown durations clients ask for, in seconds
          MaxTime,      \* bound on the clock
          MaxStop,      \* bound on the times a timer is stopped between two resets
          MaxSetBack,   \* bound on the times the clock is set back
          MaxRestart    \* bound on the restarts that interrupt a scan

ASSUME TimerAssumption ==
    /\ MaxSession \in Nat
    /\ Duration \subseteq Nat
    /\ MaxTime \in Nat
    /\ MaxStop \in Nat
    /\ MaxSetBack \in Nat
    /\ MaxRestart \in Nat

Session == 1..MaxSession
NoSession == 0
Second == 2         \* clock ticks in a second
Null == -1          \* SQL NULL in started_at

-----------------------------------------------------------------------------
(* Rows.  Of paused_at and completed_at only IS NULL is ever looked at.    *)

Mode == {"count_up", "count_down"}

Rows ==
    [mode : Mode \cup {"none"}, duration : Nat, started : Nat \cup {Null},
     paused : BOOLEAN, acc : Nat, completed : BOOLEAN]

Row(mode, duration, started, paused, acc, completed) ==
    [mode |-> mode, duration |-> duration, started |-> started,
     paused |-> paused, acc |-> acc, completed |-> completed]

Initial(mode, duration) == Row(mode, duration, Null, FALSE, 0, FALSE)

NoRow == Initial("none", 0)

VARIABLES
    active,     \* _current_session_id
    issued,     \* number of session ids issued so far
    timer,      \* the session_timers table
    now,        \* the clock
    expired,    \* what the completer's scan found and has still to complete
    setBacks,   \* how often the clock was set back
    restarts,   \* how often a restart interrupted a scan
    ran,        \* history: ticks a timer really ran since its last reset
    stops,     \* history: how often it was stopped since then
    alerts      \* history: its timer_complete events since then

rows == <<timer, ran, stops, alerts>>
vars == <<active, issued, timer, now, expired, setBacks, restarts, ran, stops, alerts>>

TypeOK ==
    /\ active \in Session \cup {NoSession}
    /\ issued \in 0..MaxSession
    /\ timer \in [Session -> [Timer -> Rows]]
    /\ now \in Nat
    /\ expired \subseteq Session \X Timer
    /\ setBacks \in Nat
    /\ restarts \in Nat
    /\ ran \in [Session -> [Timer -> Nat]]
    /\ stops \in [Session -> [Timer -> Nat]]
    /\ alerts \in [Session -> [Timer -> Nat]]

Known == 1..issued
Exists(r) == r.mode # "none"
Running(r) == r.started # Null /\ ~r.paused

\* max(0, int((now - started).total_seconds()))
Elapsed(r) == IF now > r.started THEN (now - r.started) \div Second ELSE 0

\* the WHERE clause and the comparison of find_expired_running_countdowns
Expired(r) ==
    /\ r.mode = "count_down"
    /\ Running(r)
    /\ ~r.completed
    /\ r.acc + Elapsed(r) >= r.duration

-----------------------------------------------------------------------------
(* The requests of a client, on the active session.                        *)

\* The row of t in the active session is replaced by r.
Put(t, r) == timer' = [timer EXCEPT ![active][t] = r]

\* ... and its history starts again.
Renew(t, r) ==
    /\ Put(t, r)
    /\ ran' = [ran EXCEPT ![active][t] = 0]
    /\ stops' = [stops EXCEPT ![active][t] = 0]
    /\ alerts' = [alerts EXCEPT ![active][t] = 0]

Request(t) ==
    /\ active # NoSession
    /\ Exists(timer[active][t])
    /\ UNCHANGED <<active, issued, now, expired, setBacks, restarts>>

UpsertTimer(t, mode, duration) ==
    /\ active # NoSession
    /\ Renew(t, Initial(mode, duration))
    /\ UNCHANGED <<active, issued, now, expired, setBacks, restarts>>

\* Seeded faults of StartTimer: a completed timer is started again, or a
\* running one is started anew.
StartTimerRevives(t) ==
    LET r == timer[active][t] IN
    /\ Request(t)
    /\ ~Running(r)
    /\ Put(t, Row(r.mode, r.duration, now, FALSE, r.acc, r.completed))
    /\ UNCHANGED <<ran, stops, alerts>>

StartTimerRestarts(t) ==
    LET r == timer[active][t] IN
    /\ Request(t)
    /\ ~r.completed
    /\ Put(t, Row(r.mode, r.duration, now, FALSE, r.acc, r.completed))
    /\ UNCHANGED <<ran, stops, alerts>>

\* start_timer and resume_timer: a completed timer is refused, a running
\* one is left alone.
StartTimer(t) ==
    LET r == timer[active][t] IN
    /\ Request(t)
    /\ ~r.completed
    /\ ~Running(r)
    /\ Put(t, Row(r.mode, r.duration, now, FALSE, r.acc, r.completed))
    /\ UNCHANGED <<ran, stops, alerts>>

ResumeTimer(t) ==
    LET r == timer[active][t] IN
    /\ Request(t)
    /\ ~r.completed
    /\ r.paused
    /\ Put(t, Row(r.mode, r.duration, now, FALSE, r.acc, r.completed))
    /\ UNCHANGED <<ran, stops, alerts>>

PauseTimer(t) ==
    LET r == timer[active][t] IN
    /\ Request(t)
    /\ Running(r)
    /\ stops[active][t] < MaxStop
    /\ Put(t, Row(r.mode, r.duration, Null, TRUE, r.acc + Elapsed(r), r.completed))
    /\ stops' = [stops EXCEPT ![active][t] = @ + 1]
    /\ UNCHANGED <<ran, alerts>>

ResetTimer(t) ==
    LET r == timer[active][t] IN
    /\ Request(t)
    /\ Renew(t, Initial(r.mode, r.duration))

-----------------------------------------------------------------------------
(* The completer.                                                          *)

\* The scan, over the rows of every session, ended ones included.
FindExpired ==
    /\ expired = {}
    /\ expired' = {k \in Session \X Timer : Expired(timer[k[1]][k[2]])}
    /\ UNCHANGED <<active, issued, now, setBacks, restarts, rows>>

\* Seeded fault of Completed: completed_at is not set.
CompletedUnmarked(r) ==
    Row(r.mode, r.duration, IF Running(r) THEN Null ELSE r.started, TRUE,
        IF Running(r) THEN r.acc + Elapsed(r) ELSE r.acc, r.completed)

\* complete_timer: a running timer is stopped, a paused one stays as it is
\* and one that is neither is marked as paused.
Completed(r) ==
    Row(r.mode, r.duration, IF Running(r) THEN Null ELSE r.started, TRUE,
        IF Running(r) THEN r.acc + Elapsed(r) ELSE r.acc, TRUE)

\* Seeded fault of CompleteTimer: its exception ends the loop instead of the
\* iteration.
CompleteOrGiveUp(s, t) ==
    /\ <<s, t>> \in expired
    /\ IF active = s
       THEN /\ expired' = expired \ {<<s, t>>}
            /\ Put(t, Completed(timer[s][t]))
            /\ alerts' = [alerts EXCEPT ![s][t] = @ + 1]
       ELSE expired' = {} /\ UNCHANGED <<timer, alerts>>
    /\ UNCHANGED <<active, issued, now, setBacks, restarts, ran, stops>>

\* One iteration of the loop: of a session no longer active it is skipped.
CompleteTimer(s, t) ==
    /\ <<s, t>> \in expired
    /\ expired' = expired \ {<<s, t>>}
    /\ IF active = s /\ Exists(timer[s][t])
       THEN /\ Put(t, Completed(timer[s][t]))
            /\ alerts' = [alerts EXCEPT ![s][t] = @ + 1]
            /\ stops' = IF Running(timer[s][t])
                        THEN [stops EXCEPT ![s][t] = @ + 1] ELSE stops
       ELSE UNCHANGED <<timer, stops, alerts>>
    /\ UNCHANGED <<active, issued, now, setBacks, restarts, ran>>

-----------------------------------------------------------------------------
(* Sessions, the process and the clock.                                    *)

\* start_session ends the active session first
StartSession ==
    /\ issued < MaxSession
    /\ issued' = issued + 1
    /\ active' = issued + 1
    /\ UNCHANGED <<now, expired, setBacks, restarts, rows>>

\* the rows stay as they are, running timers too
EndSession ==
    /\ active # NoSession
    /\ active' = NoSession
    /\ UNCHANGED <<issued, now, expired, setBacks, restarts, rows>>

\* ON DELETE CASCADE
DiscardSession ==
    /\ active # NoSession
    /\ active' = NoSession
    /\ timer' = [timer EXCEPT ![active] = [t \in Timer |-> NoRow]]
    /\ ran' = [ran EXCEPT ![active] = [t \in Timer |-> 0]]
    /\ stops' = [stops EXCEPT ![active] = [t \in Timer |-> 0]]
    /\ alerts' = [alerts EXCEPT ![active] = [t \in Timer |-> 0]]
    /\ UNCHANGED <<issued, now, expired, setBacks, restarts>>

\* The scan's result is lost, the rows are not, and recovery makes the same
\* session active.
Restart ==
    /\ expired # {}
    /\ restarts < MaxRestart
    /\ restarts' = restarts + 1
    /\ expired' = {}
    /\ UNCHANGED <<active, issued, now, setBacks, rows>>

Tick ==
    /\ now < MaxTime
    /\ now' = now + 1
    /\ ran' = [s \in Session |-> [t \in Timer |->
                  IF Running(timer[s][t]) THEN ran[s][t] + 1 ELSE ran[s][t]]]
    /\ UNCHANGED <<active, issued, timer, expired, setBacks, restarts, stops, alerts>>

SetClockBack ==
    /\ setBacks < MaxSetBack
    /\ setBacks' = setBacks + 1
    /\ \E n \in 0..MaxTime : n < now /\ now' = n
    /\ UNCHANGED <<active, issued, expired, restarts, rows>>

-----------------------------------------------------------------------------
Init ==
    /\ active = NoSession
    /\ issued = 0
    /\ timer = [s \in Session |-> [t \in Timer |-> NoRow]]
    /\ now = 0
    /\ expired = {}
    /\ setBacks = 0
    /\ restarts = 0
    /\ ran = [s \in Session |-> [t \in Timer |-> 0]]
    /\ stops = [s \in Session |-> [t \in Timer |-> 0]]
    /\ alerts = [s \in Session |-> [t \in Timer |-> 0]]

TimerRequest(t) ==
    \/ \E mode \in Mode, d \in Duration : UpsertTimer(t, mode, d)
    \/ StartTimer(t)
    \/ ResumeTimer(t)
    \/ PauseTimer(t)
    \/ ResetTimer(t)

Next ==
    \/ \E t \in Timer : TimerRequest(t)
    \/ FindExpired
    \/ \E s \in Session, t \in Timer : CompleteTimer(s, t)
    \/ StartSession
    \/ EndSession
    \/ DiscardSession
    \/ Restart
    \/ Tick
    \/ SetClockBack

\* The completer is a background task that scans every five seconds for as
\* long as the service runs, and always finishes a scan it began.
Fairness ==
    /\ WF_vars(FindExpired)
    /\ \A s \in Session, t \in Timer : WF_vars(CompleteTimer(s, t))

Spec == Init /\ [][Next]_vars /\ Fairness

-----------------------------------------------------------------------------
(* Properties. *)

\* A timer is running, paused or untouched, never two of them, and a
\* completed one is stopped: nothing can complete it again.
RowShape ==
    \A s \in Session, t \in Timer :
        LET r == timer[s][t] IN
        /\ r.started # Null => ~r.paused
        /\ r.completed => r.paused
        /\ <<s, t>> \in expired => ~r.completed

\* The ticks of the run in progress.
ThisRun(r) == IF Running(r) /\ now > r.started THEN now - r.started ELSE 0

\* A timer is never credited with time it did not run, however often it is
\* paused and resumed and the clock set back; and with a sound clock each
\* stop loses less than a second.
Accounting ==
    \A s \in Session, t \in Timer :
        LET r == timer[s][t]
            unaccounted == ran[s][t] - ThisRun(r) - Second * r.acc
        IN  /\ unaccounted >= 0
            /\ setBacks = 0 => unaccounted <= (Second - 1) * stops[s][t]

\* "broadcasts ... exactly once": between two resets a timer raises at most
\* one timer_complete alert, whatever the requests between scan and
\* completion did to it.
AlertedOnce == \A s \in Session, t \in Timer : alerts[s][t] <= 1

\* A completed timer is not revived: only a reset, a new upsert or a
\* discard changes its row, and they take it back to the beginning.
CompletedIsFinal ==
    [][\A s \in Session, t \in Timer :
          timer[s][t].completed =>
              \/ timer'[s][t] = timer[s][t]
              \/ ~timer'[s][t].completed /\ timer'[s][t].acc = 0 /\ ~Running(timer'[s][t])]_vars

\* The timers of a session that is over are history: requests and
\* completions that arrive late leave them alone.
HistoryIsFrozen ==
    [][\A s \in Session : s # active => timer'[s] = timer[s]]_vars

\* No expired countdown of the active session is left running, also not
\* because the scan keeps finding those of ended sessions or is interrupted.
ExpiredIsCompleted ==
    \A s \in Session, t \in Timer :
        (active = s /\ Expired(timer[s][t])) ~> ~(active = s /\ Expired(timer[s][t]))

=============================================================================
