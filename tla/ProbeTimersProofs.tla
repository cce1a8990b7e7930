--------------------------- MODULE ProbeTimersProofs --------------------------
(***************************************************************************)
(* Proofs about ProbeTimers, for any number of sessions and timers, any    *)
(* durations and any bounds.  The safety properties follow from one        *)
(* inductive invariant, IInv, which is a statement about each row alone.   *)
(* The sessions the timers belong to are those the store promises.         *)
(***************************************************************************)
EXTENDS ProbeTimers, TLAPS

(* What holds of a row r with run time n, stop count m, alert count a, in   *)
(* the completer's hands if x.                                              *)
Sound(r, n, m, a, x) ==
    /\ r.started # Null => ~r.paused
    /\ r.completed => r.paused
    /\ x => ~r.completed
    /\ a <= 1
    /\ a = 1 => r.completed
    /\ setBacks = 0 /\ r.started # Null => r.started <= now
    /\ n - ThisRun(r) - Second * r.acc >= 0
    /\ setBacks = 0 => n - ThisRun(r) - Second * r.acc <= m

SoundAt(s, t) ==
    Sound(timer[s][t], ran[s][t], stops[s][t], alerts[s][t], <<s, t>> \in expired)

IInv ==
    /\ TypeOK
    /\ \A s \in Session, t \in Timer : SoundAt(s, t)

-----------------------------------------------------------------------------
(* Rows.                                                                   *)

\* The columns of a row.
LEMMA Columns ==
    ASSUME NEW r \in Rows
    PROVE  /\ r.mode \in Mode \cup {"none"}
           /\ r.duration \in Nat
           /\ r.started \in Nat \cup {Null}
           /\ r.paused \in BOOLEAN
           /\ r.acc \in Nat
           /\ r.completed \in BOOLEAN
BY DEF Rows

\* Truncation to whole seconds loses less than a second.
LEMMA Truncation ==
    ASSUME NEW n \in Nat
    PROVE  /\ n \div Second \in Nat
           /\ Second * (n \div Second) <= n
           /\ n - Second * (n \div Second) <= 1
BY DEF Second

\* The elapsed seconds of a running row, against the ticks of its run.
LEMMA ElapsedSeconds ==
    ASSUME NEW r \in Rows, now \in Nat, Running(r)
    PROVE  /\ Elapsed(r) \in Nat
           /\ ThisRun(r) \in Nat
           /\ ThisRun(r) - Second * Elapsed(r) \in {0, 1}
<1>1. r.started \in Nat
  BY DEF Running, Rows
<1>2. CASE now > r.started
  <2>1. now - r.started \in Nat
    BY <1>1, <1>2
  <2>2. Elapsed(r) = (now - r.started) \div Second /\ ThisRun(r) = now - r.started
    BY <1>2 DEF Elapsed, ThisRun
  <2> QED BY <2>1, <2>2, Truncation DEF Second
<1>3. CASE ~(now > r.started)
  BY <1>3 DEF Elapsed, ThisRun, Second
<1> QED BY <1>2, <1>3

\* A new or reset row is sound, with or without a completion under way.
LEMMA InitialSound ==
    ASSUME NEW mode \in Mode \cup {"none"}, NEW d \in Nat, NEW x \in BOOLEAN
    PROVE  Initial(mode, d) \in Rows /\ Sound(Initial(mode, d), 0, 0, 0, x)
<1>1. /\ Initial(mode, d) \in Rows
      /\ Initial(mode, d).started = Null
      /\ Initial(mode, d).paused = FALSE
      /\ Initial(mode, d).acc = 0
      /\ Initial(mode, d).completed = FALSE
  <2>1. Null \in Nat \cup {Null} /\ 0 \in Nat /\ FALSE \in BOOLEAN
    OBVIOUS
  <2> QED BY <2>1 DEF Initial, Row, Rows
<1>2. ThisRun(Initial(mode, d)) = 0
  BY <1>1 DEF ThisRun, Running
<1> QED BY <1>1, <1>2 DEF Sound, Second

\* Starting a stopped row that is not completed keeps it sound.
LEMMA StartSound ==
    ASSUME NEW r \in Rows, NEW n \in Nat, NEW m \in Nat, NEW a \in Nat, NEW x \in BOOLEAN,
           now \in Nat, ~r.completed, ~Running(r), Sound(r, n, m, a, x)
    PROVE  LET q == Row(r.mode, r.duration, now, FALSE, r.acc, r.completed)
           IN  q \in Rows /\ Sound(q, n, m, a, x)
<1> DEFINE q == Row(r.mode, r.duration, now, FALSE, r.acc, r.completed)
<1>1. /\ q \in Rows /\ q.started = now /\ q.paused = FALSE
      /\ q.acc = r.acc /\ q.completed = r.completed
  <2>1. now \in Nat \cup {Null} /\ FALSE \in BOOLEAN
    OBVIOUS
  <2> QED BY <2>1, Columns DEF Row, Rows
<1> HIDE DEF q
<1>2. ThisRun(q) = 0 /\ ThisRun(r) = 0
  BY <1>1 DEF ThisRun
<1>3. Sound(q, n, m, a, x)
  BY <1>1, <1>2 DEF Sound
<1> QED BY <1>1, <1>3 DEF q

\* Stopping a running row keeps it sound.
LEMMA PauseSound ==
    ASSUME NEW r \in Rows, NEW n \in Nat, NEW m \in Nat, NEW a \in Nat, NEW x \in BOOLEAN,
           now \in Nat, Running(r), Sound(r, n, m, a, x)
    PROVE  LET q == Row(r.mode, r.duration, Null, TRUE, r.acc + Elapsed(r), r.completed)
           IN  q \in Rows /\ Sound(q, n, m + 1, a, x)
<1> DEFINE q == Row(r.mode, r.duration, Null, TRUE, r.acc + Elapsed(r), r.completed)
<1>1. /\ Elapsed(r) \in Nat /\ r.acc \in Nat
      /\ ThisRun(r) \in Nat /\ ThisRun(r) - Second * Elapsed(r) \in {0, 1}
  BY ElapsedSeconds DEF Rows
<1>2. /\ q \in Rows /\ q.started = Null /\ q.paused = TRUE
      /\ q.acc = r.acc + Elapsed(r) /\ q.completed = r.completed
  <2>1. Null \in Nat \cup {Null} /\ TRUE \in BOOLEAN /\ r.acc + Elapsed(r) \in Nat
    BY <1>1
  <2> QED BY <2>1, Columns DEF Row, Rows
<1>3. ThisRun(q) = 0
  BY <1>2 DEF ThisRun, Running
<1> HIDE DEF q
<1>4. /\ n - ThisRun(q) - Second * q.acc >= 0
      /\ setBacks = 0 => n - ThisRun(q) - Second * q.acc <= m + 1
  BY <1>1, <1>2, <1>3 DEF Sound, Second
<1>5. Sound(q, n, m + 1, a, x)
  BY <1>2, <1>4 DEF Sound
<1> QED BY <1>2, <1>5 DEF q

\* Completing a row that the scan found keeps it sound.
LEMMA CompletedSound ==
    ASSUME NEW r \in Rows, NEW n \in Nat, NEW m \in Nat, NEW a \in Nat,
           now \in Nat, Sound(r, n, m, a, TRUE)
    PROVE  /\ Completed(r) \in Rows
           /\ Sound(Completed(r), n, IF Running(r) THEN m + 1 ELSE m, a + 1, FALSE)
<1>1. a = 0 /\ r.acc \in Nat /\ ~r.completed
  BY DEF Sound, Rows
<1>2. CASE Running(r)
  <2>1. /\ Elapsed(r) \in Nat
        /\ ThisRun(r) \in Nat /\ ThisRun(r) - Second * Elapsed(r) \in {0, 1}
    BY <1>2, ElapsedSeconds
  <2>2. /\ Completed(r) \in Rows
        /\ Completed(r).started = Null /\ Completed(r).paused = TRUE
        /\ Completed(r).acc = r.acc + Elapsed(r) /\ Completed(r).completed = TRUE
    <3>1. Null \in Nat \cup {Null} /\ TRUE \in BOOLEAN /\ r.acc + Elapsed(r) \in Nat
      BY <1>1, <2>1
    <3>2. Completed(r) = Row(r.mode, r.duration, Null, TRUE, r.acc + Elapsed(r), TRUE)
      BY <1>2 DEF Completed
    <3> QED BY <3>1, <3>2, Columns DEF Row, Rows
  <2>3. ThisRun(Completed(r)) = 0
    BY <2>2 DEF ThisRun, Running
  <2>4. /\ n - ThisRun(Completed(r)) - Second * Completed(r).acc >= 0
        /\ setBacks = 0 => n - ThisRun(Completed(r)) - Second * Completed(r).acc <= m + 1
    BY <1>1, <2>1, <2>2, <2>3 DEF Sound, Second
  <2> QED BY <1>1, <1>2, <2>2, <2>4 DEF Sound
<1>3. CASE ~Running(r)
  <2>1. r.started = Null
    BY <1>3 DEF Sound, Running
  <2>2. /\ Completed(r) \in Rows
        /\ Completed(r).started = Null /\ Completed(r).paused = TRUE
        /\ Completed(r).acc = r.acc /\ Completed(r).completed = TRUE
    <3>1. Null \in Nat \cup {Null} /\ TRUE \in BOOLEAN
      OBVIOUS
    <3>2. Completed(r) = Row(r.mode, r.duration, Null, TRUE, r.acc, TRUE)
      BY <1>3, <2>1 DEF Completed
    <3> QED BY <1>1, <3>1, <3>2, Columns DEF Row, Rows
  <2>3. ThisRun(Completed(r)) = 0 /\ ThisRun(r) = 0
    BY <1>3, <2>2 DEF ThisRun, Running
  <2> QED BY <1>1, <1>3, <2>2, <2>3 DEF Sound
<1> QED BY <1>2, <1>3

-----------------------------------------------------------------------------
(* Steps.                                                                  *)

ClockKept == now' = now /\ setBacks' = setBacks

Kept(s, t) ==
    /\ timer'[s][t] = timer[s][t]
    /\ ran'[s][t] = ran[s][t]
    /\ stops'[s][t] = stops[s][t]
    /\ alerts'[s][t] = alerts[s][t]
    /\ <<s, t>> \in expired' => <<s, t>> \in expired

\* A row that a step leaves alone stays sound.
LEMMA KeptSound ==
    ASSUME NEW s \in Session, NEW t \in Timer, SoundAt(s, t), Kept(s, t), ClockKept
    PROVE  SoundAt(s, t)'
BY DEF SoundAt, Sound, Kept, ClockKept, ThisRun, Running

\* A row that a step replaces by a sound one is sound.
LEMMA ReplacedSound ==
    ASSUME NEW s \in Session, NEW t \in Timer, NEW x \in BOOLEAN, ClockKept,
           Sound(timer'[s][t], ran'[s][t], stops'[s][t], alerts'[s][t], x),
           <<s, t>> \in expired' => x
    PROVE  SoundAt(s, t)'
BY DEF SoundAt, Sound, ClockKept, ThisRun, Running

\* What a step that replaces the row of t in session s does to the tables.
Replaces(s, t, q, n, m, a) ==
    /\ timer' = [timer EXCEPT ![s][t] = q]
    /\ ran' = [ran EXCEPT ![s][t] = n]
    /\ stops' = [stops EXCEPT ![s][t] = m]
    /\ alerts' = [alerts EXCEPT ![s][t] = a]
    /\ expired' \subseteq expired
    /\ UNCHANGED <<active, issued, now, setBacks, restarts>>

\* Replacing one row by a sound one keeps the invariant.
LEMMA ReplaceInv ==
    ASSUME IInv, NEW s \in Session, NEW t \in Timer,
           NEW q \in Rows, NEW n \in Nat, NEW m \in Nat, NEW a \in Nat, NEW x \in BOOLEAN,
           Replaces(s, t, q, n, m, a), Sound(q, n, m, a, x),
           <<s, t>> \in expired' => x
    PROVE  IInv'
<1>1. TypeOK'
  BY DEF IInv, TypeOK, Replaces
<1>2. ClockKept
  BY DEF Replaces, ClockKept
<1>3. ASSUME NEW s1 \in Session, NEW t1 \in Timer PROVE SoundAt(s1, t1)'
  <2>1. CASE s1 = s /\ t1 = t
    <3>1. timer'[s][t] = q /\ ran'[s][t] = n /\ stops'[s][t] = m /\ alerts'[s][t] = a
      BY DEF IInv, TypeOK, Replaces
    <3> QED BY <1>2, <2>1, <3>1, ReplacedSound
  <2>2. CASE s1 # s \/ t1 # t
    <3>1. Kept(s1, t1)
      BY <2>2 DEF IInv, TypeOK, Replaces, Kept
    <3> QED BY <1>2, <3>1, KeptSound DEF IInv
  <2> QED BY <2>1, <2>2
<1> QED BY <1>1, <1>3 DEF IInv

\* A table with a cell replaced by the value it has is the same table.
LEMMA SameCell ==
    ASSUME NEW f \in [Session -> [Timer -> Nat]], NEW s \in Session, NEW t \in Timer
    PROVE  f = [f EXCEPT ![s][t] = f[s][t]]
OBVIOUS

\* Every request of a client keeps the invariant.
LEMMA RequestInv ==
    ASSUME IInv, NEW t \in Timer, TimerRequest(t)
    PROVE  IInv'
<1> DEFINE r == timer[active][t]
<1> DEFINE x == <<active, t>> \in expired
<1>1. active \in Session
  BY DEF IInv, TypeOK, TimerRequest, UpsertTimer, StartTimer, ResumeTimer, PauseTimer,
         ResetTimer, Request
<1>2. /\ r \in Rows /\ ran[active][t] \in Nat /\ stops[active][t] \in Nat
      /\ alerts[active][t] \in Nat /\ now \in Nat /\ x \in BOOLEAN
      /\ Sound(r, ran[active][t], stops[active][t], alerts[active][t], x)
  BY <1>1 DEF IInv, TypeOK, SoundAt
<1>3. /\ ran = [ran EXCEPT ![active][t] = ran[active][t]]
      /\ stops = [stops EXCEPT ![active][t] = stops[active][t]]
      /\ alerts = [alerts EXCEPT ![active][t] = alerts[active][t]]
  BY <1>1, SameCell DEF IInv, TypeOK
<1>4. CASE \E mode \in Mode, d \in Duration : UpsertTimer(t, mode, d)
  <2>1. PICK mode \in Mode, d \in Duration : UpsertTimer(t, mode, d)
    BY <1>4
  <2>2. Initial(mode, d) \in Rows /\ Sound(Initial(mode, d), 0, 0, 0, TRUE)
    <3>1. mode \in Mode \cup {"none"} /\ d \in Nat /\ TRUE \in BOOLEAN
      BY TimerAssumption
    <3> QED BY <3>1, InitialSound
  <2>3. Replaces(active, t, Initial(mode, d), 0, 0, 0)
    BY <2>1 DEF UpsertTimer, Renew, Put, Replaces
  <2> QED BY <1>1, <2>2, <2>3, ReplaceInv
<1>5. CASE ResetTimer(t)
  <2>1. Initial(r.mode, r.duration) \in Rows /\ Sound(Initial(r.mode, r.duration), 0, 0, 0, TRUE)
    BY <1>2, Columns, InitialSound
  <2>2. Replaces(active, t, Initial(r.mode, r.duration), 0, 0, 0)
    BY <1>5 DEF ResetTimer, Request, Renew, Put, Replaces
  <2> QED BY <1>1, <2>1, <2>2, ReplaceInv
<1>6. CASE StartTimer(t) \/ ResumeTimer(t)
  <2> DEFINE q == Row(r.mode, r.duration, now, FALSE, r.acc, r.completed)
  <2>1. ~r.completed /\ ~Running(r)
    BY <1>6 DEF StartTimer, ResumeTimer, Running
  <2>2. q \in Rows /\ Sound(q, ran[active][t], stops[active][t], alerts[active][t], x)
    BY <1>2, <2>1, StartSound
  <2>3. Replaces(active, t, q, ran[active][t], stops[active][t], alerts[active][t])
    BY <1>3, <1>6 DEF StartTimer, ResumeTimer, Request, Put, Replaces
  <2> HIDE DEF q, r, x
  <2>4. <<active, t>> \in expired' => x
    BY <2>3 DEF Replaces, x
  <2> QED BY <1>1, <1>2, <2>2, <2>3, <2>4, ReplaceInv
<1>7. CASE PauseTimer(t)
  <2> DEFINE q == Row(r.mode, r.duration, Null, TRUE, r.acc + Elapsed(r), r.completed)
  <2>1. Running(r)
    BY <1>7 DEF PauseTimer
  <2>2. q \in Rows /\ Sound(q, ran[active][t], stops[active][t] + 1, alerts[active][t], x)
    BY <1>2, <2>1, PauseSound
  <2>3. Replaces(active, t, q, ran[active][t], stops[active][t] + 1, alerts[active][t])
    BY <1>3, <1>7 DEF PauseTimer, Request, Put, Replaces
  <2> HIDE DEF q, r, x
  <2>4. <<active, t>> \in expired' => x
    BY <2>3 DEF Replaces, x
  <2>5. stops[active][t] + 1 \in Nat
    BY <1>2
  <2> QED BY <1>1, <1>2, <2>2, <2>3, <2>4, <2>5, ReplaceInv
<1> QED BY <1>4, <1>5, <1>6, <1>7 DEF TimerRequest

\* A completion, or one that is skipped, keeps the invariant.
LEMMA CompleteTimerInv ==
    ASSUME IInv, NEW s \in Session, NEW t \in Timer, CompleteTimer(s, t)
    PROVE  IInv'
<1> DEFINE r == timer[s][t]
<1>1. /\ r \in Rows /\ ran[s][t] \in Nat /\ stops[s][t] \in Nat
      /\ alerts[s][t] \in Nat /\ now \in Nat
      /\ Sound(r, ran[s][t], stops[s][t], alerts[s][t], TRUE)
  BY DEF IInv, TypeOK, SoundAt, CompleteTimer
<1>2. /\ ran = [ran EXCEPT ![s][t] = ran[s][t]]
      /\ stops = [stops EXCEPT ![s][t] = stops[s][t]]
  BY SameCell DEF IInv, TypeOK
<1>3. CASE active = s /\ Exists(r)
  <2> DEFINE m == IF Running(r) THEN stops[s][t] + 1 ELSE stops[s][t]
  <2>1. Completed(r) \in Rows /\ Sound(Completed(r), ran[s][t], m, alerts[s][t] + 1, FALSE)
    BY <1>1, CompletedSound
  <2>2. Replaces(s, t, Completed(r), ran[s][t], m, alerts[s][t] + 1)
    BY <1>2, <1>3 DEF CompleteTimer, Put, Replaces
  <2>3. m \in Nat /\ alerts[s][t] + 1 \in Nat /\ <<s, t>> \notin expired' /\ FALSE \in BOOLEAN
    BY <1>1 DEF CompleteTimer
  <2> HIDE DEF m, r
  <2> QED BY <1>1, <2>1, <2>2, <2>3, ReplaceInv
<1>4. CASE ~(active = s /\ Exists(r))
  <2>1. /\ UNCHANGED <<active, issued, timer, now, setBacks, restarts, ran, stops, alerts>>
        /\ expired' \subseteq expired
    BY <1>4 DEF CompleteTimer
  <2>2. ClockKept /\ \A s1 \in Session, t1 \in Timer : Kept(s1, t1)
    BY <2>1 DEF ClockKept, Kept
  <2>3. TypeOK'
    BY <2>1 DEF IInv, TypeOK
  <2> QED BY <2>2, <2>3, KeptSound DEF IInv
<1> QED BY <1>3, <1>4

\* A step that changes neither rows nor clock keeps the invariant; the scan
\* only hands out rows that are not completed.
LEMMA BystanderInv ==
    ASSUME IInv, UNCHANGED rows, ClockKept,
           active' \in Session \cup {NoSession}, issued' \in 0..MaxSession,
           restarts' \in Nat, expired' \subseteq Session \X Timer,
           \A s \in Session, t \in Timer :
               <<s, t>> \in expired' => <<s, t>> \in expired \/ Expired(timer[s][t])
    PROVE  IInv'
<1>1. TypeOK'
  BY DEF IInv, TypeOK, rows, ClockKept
<1>2. ASSUME NEW s \in Session, NEW t \in Timer PROVE SoundAt(s, t)'
  <2>1. <<s, t>> \in expired' => ~timer[s][t].completed
    BY DEF IInv, SoundAt, Sound, Expired
  <2> QED BY <2>1 DEF IInv, SoundAt, Sound, rows, ClockKept, ThisRun, Running
<1> QED BY <1>1, <1>2 DEF IInv

\* Discarding a session keeps the invariant.
LEMMA DiscardSessionInv ==
    ASSUME IInv, DiscardSession
    PROVE  IInv'
<1>1. NoRow \in Rows /\ Sound(NoRow, 0, 0, 0, TRUE)
  <2>1. "none" \in Mode \cup {"none"} /\ 0 \in Nat /\ TRUE \in BOOLEAN
    OBVIOUS
  <2> QED BY <2>1, InitialSound DEF NoRow
<1>2. TypeOK'
  BY <1>1 DEF IInv, TypeOK, DiscardSession
<1>3. ClockKept /\ active \in Session
  BY DEF ClockKept, DiscardSession, IInv, TypeOK
<1>4. ASSUME NEW s \in Session, NEW t \in Timer PROVE SoundAt(s, t)'
  <2>1. CASE s = active
    <3>1. timer'[s][t] = NoRow /\ ran'[s][t] = 0 /\ stops'[s][t] = 0 /\ alerts'[s][t] = 0
      BY <1>3, <2>1 DEF IInv, TypeOK, DiscardSession
    <3>2. TRUE \in BOOLEAN
      OBVIOUS
    <3> QED BY <1>1, <1>3, <3>1, <3>2, ReplacedSound
  <2>2. CASE s # active
    <3>1. Kept(s, t)
      BY <2>2 DEF IInv, TypeOK, DiscardSession, Kept
    <3> QED BY <1>3, <3>1, KeptSound DEF IInv
  <2> QED BY <2>1, <2>2
<1> QED BY <1>2, <1>4 DEF IInv

\* Time passing keeps the invariant.
LEMMA TickInv ==
    ASSUME IInv, Tick
    PROVE  IInv'
<1>1. TypeOK'
  BY DEF IInv, TypeOK, Tick
<1>2. ASSUME NEW s \in Session, NEW t \in Timer PROVE SoundAt(s, t)'
  <2> DEFINE r == timer[s][t]
  <2>1. r \in Rows /\ ran[s][t] \in Nat /\ stops[s][t] \in Nat /\ now \in Nat
        /\ Sound(r, ran[s][t], stops[s][t], alerts[s][t], <<s, t>> \in expired)
    BY DEF IInv, TypeOK, SoundAt
  <2>2. /\ timer' = timer /\ stops' = stops /\ alerts' = alerts /\ expired' = expired
        /\ setBacks' = setBacks /\ now' = now + 1
        /\ ran'[s][t] = IF Running(r) THEN ran[s][t] + 1 ELSE ran[s][t]
    BY DEF Tick
  <2>3. r.started \in Nat \cup {Null} /\ r.acc \in Nat
    BY <2>1, Columns
  <2> HIDE DEF r
  <2>4. CASE Running(r)
    <3>1. r.started \in Nat
      BY <2>3, <2>4 DEF Running
    <3> QED BY <2>1, <2>2, <2>3, <2>4, <3>1 DEF SoundAt, Sound, ThisRun, Running, Second, r
  <2>5. CASE ~Running(r)
    BY <2>1, <2>2, <2>3, <2>5 DEF SoundAt, Sound, ThisRun, Running, Second, Null, r
  <2> QED BY <2>4, <2>5
<1> QED BY <1>1, <1>2 DEF IInv

\* Setting the clock back keeps the invariant: it can only hide run time.
LEMMA SetClockBackInv ==
    ASSUME IInv, SetClockBack
    PROVE  IInv'
<1>1. TypeOK'
  BY TimerAssumption DEF IInv, TypeOK, SetClockBack, rows
<1>2. ASSUME NEW s \in Session, NEW t \in Timer PROVE SoundAt(s, t)'
  <2> DEFINE r == timer[s][t]
  <2>1. r \in Rows /\ ran[s][t] \in Nat /\ stops[s][t] \in Nat /\ now \in Nat
        /\ Sound(r, ran[s][t], stops[s][t], alerts[s][t], <<s, t>> \in expired)
    BY DEF IInv, TypeOK, SoundAt
  <2>2. /\ timer' = timer /\ stops' = stops /\ alerts' = alerts /\ expired' = expired
        /\ ran' = ran /\ setBacks' = setBacks + 1 /\ now' < now /\ setBacks \in Nat
        /\ now' \in Nat
    BY TimerAssumption DEF SetClockBack, rows, IInv, TypeOK
  <2>3. r.started \in Nat \cup {Null} /\ r.acc \in Nat
    BY <2>1, Columns
  <2> HIDE DEF r
  <2>4. setBacks' # 0
    BY <2>2
  <2>5. CASE Running(r)
    <3>1. r.started \in Nat
      BY <2>3, <2>5 DEF Running
    <3> QED BY <2>1, <2>2, <2>3, <2>4, <2>5, <3>1 DEF SoundAt, Sound, ThisRun, Running, Second, r
  <2>6. CASE ~Running(r)
    BY <2>1, <2>2, <2>3, <2>4, <2>6 DEF SoundAt, Sound, ThisRun, Running, Second, r
  <2> QED BY <2>5, <2>6
<1> QED BY <1>1, <1>2 DEF IInv

\* Before the first session there are no rows.
LEMMA InitInv == Init => IInv
<1> SUFFICES ASSUME Init PROVE IInv
  OBVIOUS
<1>1. NoRow \in Rows /\ Sound(NoRow, 0, 0, 0, TRUE)
  <2>1. "none" \in Mode \cup {"none"} /\ 0 \in Nat /\ TRUE \in BOOLEAN
    OBVIOUS
  <2> QED BY <2>1, InitialSound DEF NoRow
<1>2. TypeOK
  BY <1>1, TimerAssumption DEF Init, TypeOK
<1>3. ASSUME NEW s \in Session, NEW t \in Timer PROVE SoundAt(s, t)
  BY <1>1 DEF Init, SoundAt, Sound
<1> QED BY <1>2, <1>3 DEF IInv

\* Every step keeps the invariant.
LEMMA StepInv == IInv /\ [Next]_vars => IInv'
<1> SUFFICES ASSUME IInv, [Next]_vars PROVE IInv'
  OBVIOUS
<1>1. CASE \E t \in Timer : TimerRequest(t)
  BY <1>1, RequestInv
<1>2. CASE FindExpired
  <2>1. /\ UNCHANGED rows /\ ClockKept
        /\ active' = active /\ issued' = issued /\ restarts' = restarts
    BY <1>2 DEF FindExpired, ClockKept
  <2>2. /\ expired' \subseteq Session \X Timer
        /\ \A s \in Session, t \in Timer : <<s, t>> \in expired' => Expired(timer[s][t])
    BY <1>2 DEF FindExpired
  <2> QED BY <2>1, <2>2, BystanderInv DEF IInv, TypeOK
<1>3. CASE \E s \in Session, t \in Timer : CompleteTimer(s, t)
  BY <1>3, CompleteTimerInv
<1>4. CASE StartSession
  <2>1. /\ UNCHANGED rows /\ ClockKept /\ restarts' = restarts /\ expired' = expired
        /\ active' \in Session /\ issued' \in 0..MaxSession
    BY <1>4, TimerAssumption DEF StartSession, ClockKept, IInv, TypeOK, Session
  <2> QED BY <2>1, BystanderInv DEF IInv, TypeOK
<1>5. CASE EndSession
  <2>1. /\ UNCHANGED rows /\ ClockKept /\ restarts' = restarts /\ expired' = expired
        /\ active' = NoSession /\ issued' = issued
    BY <1>5 DEF EndSession, ClockKept
  <2> QED BY <2>1, BystanderInv DEF IInv, TypeOK
<1>6. CASE DiscardSession
  BY <1>6, DiscardSessionInv
<1>7. CASE Restart
  <2>1. /\ UNCHANGED rows /\ ClockKept /\ restarts' \in Nat /\ expired' = {}
        /\ active' = active /\ issued' = issued
    BY <1>7 DEF Restart, ClockKept, IInv, TypeOK
  <2> QED BY <2>1, BystanderInv DEF IInv, TypeOK
<1>8. CASE Tick
  BY <1>8, TickInv
<1>9. CASE SetClockBack
  BY <1>9, SetClockBackInv
<1>10. CASE UNCHANGED vars
  BY <1>10, BystanderInv DEF vars, rows, ClockKept, IInv, TypeOK
<1> QED
  BY <1>1, <1>2, <1>3, <1>4, <1>5, <1>6, <1>7, <1>8, <1>9, <1>10 DEF Next

\* The inductive invariant holds in every reachable state.
THEOREM Inductive == Spec => []IInv
BY InitInv, StepInv, PTL DEF Spec

-----------------------------------------------------------------------------
(* The properties.                                                         *)

\* Rows and counters keep their types; in particular no timer's accumulated
\* time is ever negative, though the clock may be set back while it runs.
THEOREM TypeInvariant == Spec => []TypeOK
<1>1. IInv => TypeOK
  BY DEF IInv
<1> QED BY <1>1, Inductive, PTL

\* Running and paused exclude each other, and a completed timer is stopped
\* and out of the completer's hands (store.py, complete_timer).
THEOREM RowShapeKept == Spec => []RowShape
<1>1. IInv => RowShape
  BY DEF IInv, SoundAt, Sound, RowShape
<1> QED BY <1>1, Inductive, PTL

\* A timer is credited with the time it ran: never more, and with a sound
\* clock less than a second short for each stop (store.py, pause_timer).
THEOREM TimeIsAccounted == Spec => []Accounting
<1>1. ASSUME IInv PROVE Accounting
  <2>1. ASSUME NEW s \in Session, NEW t \in Timer
        PROVE  LET unaccounted == ran[s][t] - ThisRun(timer[s][t]) - Second * timer[s][t].acc
               IN  /\ unaccounted >= 0
                   /\ setBacks = 0 => unaccounted <= (Second - 1) * stops[s][t]
    <3>1. stops[s][t] \in Nat /\ SoundAt(s, t)
      BY <1>1 DEF IInv, TypeOK
    <3>2. (Second - 1) * stops[s][t] = stops[s][t]
      BY <3>1 DEF Second
    <3> QED BY <3>1, <3>2 DEF SoundAt, Sound
  <2> QED BY <2>1 DEF Accounting
<1> QED BY <1>1, Inductive, PTL

\* A timer raises at most one timer_complete alert between two resets
\* (timers.py: "exactly once").
THEOREM OneAlert == Spec => []AlertedOnce
<1>1. IInv => AlertedOnce
  BY DEF IInv, SoundAt, Sound, AlertedOnce
<1> QED BY <1>1, Inductive, PTL

\* The steps that change the row of t in session s: a request, a completion
\* or a discard, and only while s is active.
LEMMA RowChanges ==
    ASSUME IInv, [Next]_vars, NEW s \in Session, NEW t \in Timer,
           timer'[s][t] # timer[s][t]
    PROVE  /\ active = s
           /\ \/ TimerRequest(t)
              \/ CompleteTimer(s, t)
              \/ DiscardSession
<1>1. timer \in [Session -> [Timer -> Rows]]
  BY DEF IInv, TypeOK
<1>2. ASSUME NEW u \in Timer, TimerRequest(u) PROVE active = s /\ u = t
  <2>1. \E q : Put(u, q)
    BY <1>2 DEF TimerRequest, UpsertTimer, StartTimer, ResumeTimer, PauseTimer,
       ResetTimer, Renew
  <2>2. PICK q : timer' = [timer EXCEPT ![active][u] = q]
    BY <2>1 DEF Put
  <2> QED BY <1>1, <2>2
<1>3. ASSUME NEW r \in Session, NEW u \in Timer, CompleteTimer(r, u)
      PROVE  active = s /\ r = s /\ u = t
  BY <1>1, <1>3 DEF CompleteTimer, Put
<1>4. ASSUME DiscardSession PROVE active = s
  BY <1>1, <1>4 DEF DiscardSession
<1>5. ~(FindExpired \/ StartSession \/ EndSession \/ Restart \/ Tick \/ SetClockBack
            \/ UNCHANGED vars)
  BY DEF FindExpired, StartSession, EndSession, Restart, Tick, SetClockBack, vars, rows
<1> QED BY <1>2, <1>3, <1>4, <1>5 DEF Next

\* The timers of a session that is not active never change: a completion
\* that arrives after the end is skipped (timers.py, tick).
THEOREM HistoryStaysFrozen == Spec => HistoryIsFrozen
<1> DEFINE Frozen == \A s \in Session : s # active => timer'[s] = timer[s]
<1>1. ASSUME IInv, [Next]_vars PROVE Frozen
  <2>1. ASSUME NEW s \in Session, s # active PROVE timer'[s] = timer[s]
    <3>1. \A t \in Timer : timer'[s][t] = timer[s][t]
      BY <1>1, <2>1, RowChanges
    <3>2. timer[s] \in [Timer -> Rows] /\ timer'[s] \in [Timer -> Rows]
      BY <1>1, StepInv DEF IInv, TypeOK
    <3> QED BY <3>1, <3>2
  <2> QED BY <2>1
<1>2. IInv /\ [Next]_vars => [Frozen]_vars
  BY <1>1
<1> QED BY <1>2, Inductive, PTL DEF Spec, HistoryIsFrozen

\* A completed timer is not revived, also not by a start, resume or second
\* completion that was under way (store.py, TimerCompletedError).
THEOREM CompletionIsFinal == Spec => CompletedIsFinal
<1> DEFINE Final == \A s \in Session, t \in Timer :
               timer[s][t].completed =>
                   \/ timer'[s][t] = timer[s][t]
                   \/ ~timer'[s][t].completed /\ timer'[s][t].acc = 0 /\ ~Running(timer'[s][t])
<1>1. ASSUME IInv, [Next]_vars PROVE Final
  <2>1. ASSUME NEW s \in Session, NEW t \in Timer, timer[s][t].completed,
               timer'[s][t] # timer[s][t]
        PROVE  \E mode, d : timer'[s][t] = Initial(mode, d)
    <3>1. /\ active = s
          /\ TimerRequest(t) \/ CompleteTimer(s, t) \/ DiscardSession
      BY <1>1, <2>1, RowChanges
    <3>2. /\ timer \in [Session -> [Timer -> Rows]]
          /\ ~Running(timer[s][t])
          /\ <<s, t>> \notin expired
      BY <1>1, <2>1 DEF IInv, TypeOK, SoundAt, Sound, Running
    <3>3. CASE \E mode \in Mode, d \in Duration : UpsertTimer(t, mode, d)
      BY <3>1, <3>2, <3>3 DEF UpsertTimer, Renew, Put
    <3>4. CASE ResetTimer(t)
      BY <3>1, <3>2, <3>4 DEF ResetTimer, Renew, Put
    <3>5. CASE DiscardSession
      BY <3>1, <3>2, <3>5 DEF DiscardSession, NoRow
    <3>6. ~(StartTimer(t) \/ ResumeTimer(t) \/ PauseTimer(t) \/ CompleteTimer(s, t))
      BY <2>1, <3>1, <3>2 DEF StartTimer, ResumeTimer, PauseTimer, CompleteTimer
    <3> QED BY <3>1, <3>3, <3>4, <3>5, <3>6 DEF TimerRequest
  <2>2. \A mode, d : /\ ~Initial(mode, d).completed
                     /\ Initial(mode, d).acc = 0
                     /\ ~Running(Initial(mode, d))
    BY DEF Initial, Row, Running
  <2> QED BY <2>1, <2>2
<1>2. IInv /\ [Next]_vars => [Final]_vars
  BY <1>1
<1> QED BY <1>2, Inductive, PTL DEF Spec, CompletedIsFinal

-----------------------------------------------------------------------------
(* The sessions of the timers are those the store promises.                *)

\* The active session has been issued.
ActiveIsKnown == active # NoSession => active \in Known

Promise == INSTANCE SessionPromise
    WITH active <- active, closed <- Known \ {active}

\* A start takes a new id and closes the active one, an end or a discard
\* closes it, and nothing that happens to a timer touches either.
LEMMA PromiseStep ==
    ASSUME TypeOK, ActiveIsKnown, [Next]_vars
    PROVE  /\ ActiveIsKnown'
           /\ [Promise!Next \/ Promise!Replace]_<<active, Known \ {active}>>
<1>0. issued \in Nat /\ active \in Session \cup {NoSession} /\ Known = 1..issued
  BY DEF TypeOK, Known
<1>1. CASE UNCHANGED <<active, issued>>
  BY <1>1 DEF ActiveIsKnown, Known
<1>2. CASE StartSession
  <2>1. issued < MaxSession /\ issued' = issued + 1 /\ active' = issued + 1
    BY <1>2 DEF StartSession
  <2>2. active' \in Session \ (Known \cup {active}) /\ active' \in Known'
    BY <1>0, <2>1, TimerAssumption DEF ActiveIsKnown, Session, NoSession, Known
  <2>3. Known' \ {active'} = Known
    BY <1>0, <2>1 DEF Known
  <2>4. CASE active = NoSession
    BY <1>0, <2>2, <2>3, <2>4
    DEF ActiveIsKnown, Promise!Next, Promise!Start, Promise!NoSession, Promise!Session,
        NoSession, Session, Known
  <2>5. CASE active # NoSession
    <3>1. Known = (Known \ {active}) \cup {active}
      BY <2>5 DEF ActiveIsKnown
    <3>2. Promise!Replace
      BY <2>2, <2>3, <2>5, <3>1
      DEF Promise!Replace, Promise!NoSession, Promise!Session, NoSession, Session
    <3> QED BY <2>2, <3>2 DEF ActiveIsKnown
  <2> QED BY <2>4, <2>5
<1>3. CASE EndSession \/ DiscardSession
  <2>1. active # NoSession /\ active' = NoSession /\ issued' = issued
    BY <1>3 DEF EndSession, DiscardSession
  <2>2. Promise!Close
    BY <1>0, <2>1 DEF ActiveIsKnown, Known, Promise!Close, Promise!NoSession, NoSession
  <2> QED BY <2>1, <2>2 DEF ActiveIsKnown, Promise!Next
<1>4. ASSUME NEW t \in Timer, TimerRequest(t) PROVE UNCHANGED <<active, issued>>
  BY <1>4 DEF TimerRequest, UpsertTimer, StartTimer, PauseTimer, ResumeTimer, ResetTimer,
              Request
<1>5. CASE FindExpired \/ (\E s \in Session, t \in Timer : CompleteTimer(s, t)) \/ Restart
           \/ Tick \/ SetClockBack \/ UNCHANGED vars
  BY <1>5, <1>1 DEF FindExpired, CompleteTimer, Restart, Tick, SetClockBack, vars
<1> QED BY <1>1, <1>2, <1>3, <1>4, <1>5 DEF Next

\* The module's sessions implement SessionPromise, with start_session in one
\* step: what is proved of its timers is about sessions as the store has them.
THEOREM ImplementsPromise == Spec => Promise!CallSpec
<1>1. Init => ActiveIsKnown /\ Promise!Init
  BY TimerAssumption
  DEF Init, ActiveIsKnown, Known, Promise!Init, Promise!Session, Promise!NoSession, NoSession
<1>2. TypeOK /\ ActiveIsKnown /\ [Next]_vars
          => /\ ActiveIsKnown'
             /\ [Promise!Next \/ Promise!Replace]_<<active, Known \ {active}>>
  BY PromiseStep
<1> QED BY <1>1, <1>2, TypeInvariant, PTL DEF Spec, Promise!CallSpec

===============================================================================
