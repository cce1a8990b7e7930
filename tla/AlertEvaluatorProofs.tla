------------------------- MODULE AlertEvaluatorProofs -------------------------
(***************************************************************************)
(* Proofs about AlertEvaluator, for any configurations, temperatures and   *)
(* length of time.                                                         *)
(*                                                                         *)
(* For any number of devices: the types, and what the devices at one index *)
(* share, from an invariant of the loop of evaluate (LoopInv).  For one    *)
(* device: the properties of what it is told, from the invariant Told.     *)
(* The loop is a recursive function on the devices; LoopExists shows that  *)
(* there is one, from the smallest number for which there would be none.   *)
(***************************************************************************)
EXTENDS AlertEvaluator, WellFoundedInduction, TLAPS

\* What the loop returns for the target of d, given what it has so far.
Pass(temp, d, before) ==
    IF ~Evaluable(target[d]) THEN before
    ELSE [state  |-> Reminded(target[d], temp, Marked(target[d], temp, before.state)),
          events |-> before.events \cup (Raised(target[d], temp, before.state) \X {d})]

Start == [state |-> state, events |-> {}]

\* f is what the loop has after each of the first n devices.
Loop(temp, n, f) ==
    f = [d \in 0..n |-> IF d = 0 THEN Start ELSE Pass(temp, d, f[d - 1])]

\* AfterTarget picks such a function.
LEMMA AfterTargetPicks ==
    ASSUME NEW temp
    PROVE  AfterTarget(temp) = (CHOOSE f : Loop(temp, NumDevice, f))[NumDevice]
BY Zenon DEF AfterTarget, Loop, Pass, Start

\* A set of numbers that is not empty has a smallest one.
LEMMA SmallestNumber ==
    ASSUME NEW S \in SUBSET Nat, S # {}
    PROVE  \E m \in S : \A i \in S : m <= i
<1> DEFINE Less == OpToRel(<, Nat)
<1>1. PICK m \in S : \A i \in S : ~ (<<i, m>> \in Less)
  <2>1. IsWellFoundedOn(Less, Nat)
    BY NatLessThanWellFounded
  <2> HIDE DEF Less
  <2> QED BY <2>1, WFMin
<1>2. \A i, j \in Nat : i < j => <<i, j>> \in Less
  BY DEF OpToRel
<1> HIDE DEF Less
<1>3. \A i \in S : ~ (i < m)
  BY <1>1, <1>2
<1> QED BY <1>3

\* There is one, however many devices there are.
LEMMA LoopExists ==
    ASSUME NEW temp, NEW n \in Nat
    PROVE  \E f : Loop(temp, n, f)
<1> DEFINE Bad == {m \in Nat : ~ \E f : Loop(temp, m, f)}
<1>1. Bad = {}
  <2> SUFFICES ASSUME Bad # {} PROVE FALSE
    OBVIOUS
  <2>1. PICK m \in Bad : \A i \in Bad : m <= i
    <3>1. Bad \subseteq Nat
      OBVIOUS
    <3> HIDE DEF Bad
    <3> QED BY <3>1, SmallestNumber
  <2>2. CASE m = 0
    <3> DEFINE f == [d \in 0..0 |-> Start]
    <3>1. f = [d \in 0..0 |-> IF d = 0 THEN Start ELSE Pass(temp, d, f[d - 1])]
      OBVIOUS
    <3>2. Loop(temp, 0, f)
      BY <3>1 DEF Loop
    <3> QED BY <2>2, <3>2
  <2>3. CASE m # 0
    <3>1. m \in Nat /\ m - 1 \in Nat /\ m - 1 \notin Bad
      BY <2>1, <2>3
    <3>2. PICK g : Loop(temp, m - 1, g)
      BY <3>1
    <3>3. /\ g = [d \in 0..(m - 1) |-> g[d]]
          /\ \A d \in 0..(m - 1) : g[d] = IF d = 0 THEN Start ELSE Pass(temp, d, g[d - 1])
      BY <3>2 DEF Loop
    <3> DEFINE f == [d \in 0..m |-> IF d = m THEN Pass(temp, m, g[m - 1]) ELSE g[d]]
    <3>4. ASSUME NEW d \in 0..m
          PROVE  f[d] = IF d = 0 THEN Start ELSE Pass(temp, d, f[d - 1])
      <4>1. CASE d = m
        BY <2>3, <3>1, <4>1
      <4>2. CASE d # m
        <5>1. d \in 0..(m - 1) /\ f[d] = g[d]
          BY <3>1, <4>2
        <5>2. d # 0 => f[d - 1] = g[d - 1]
          BY <3>1, <4>2
        <5> QED BY <3>3, <5>1, <5>2
      <4> QED BY <4>1, <4>2
    <3>5. f = [d \in 0..m |-> IF d = 0 THEN Start ELSE Pass(temp, d, f[d - 1])]
      BY <3>4
    <3>6. Loop(temp, m, f)
      BY <3>5 DEF Loop
    <3> QED BY <2>1, <3>6
  <2> QED BY <2>2, <2>3
<1> QED BY <1>1

\* So the loop goes through the devices one by one.
LEMMA AfterEach ==
    ASSUME NEW temp
    PROVE  \E f : /\ AfterTarget(temp) = f[NumDevice]
                  /\ f[0] = Start
                  /\ \A d \in Device : f[d] = Pass(temp, d, f[d - 1])
<1> DEFINE f == CHOOSE g : Loop(temp, NumDevice, g)
<1>1. Loop(temp, NumDevice, f)
  BY LoopExists, EvaluatorAssumption
<1>2. AfterTarget(temp) = f[NumDevice]
  BY AfterTargetPicks
<1> HIDE DEF f
<1>3. \A d \in 0..NumDevice : f[d] = IF d = 0 THEN Start ELSE Pass(temp, d, f[d - 1])
  BY <1>1 DEF Loop
<1>4. f[0] = Start /\ \A d \in Device : f[d] = Pass(temp, d, f[d - 1])
  BY <1>3, EvaluatorAssumption DEF Device
<1> QED BY <1>2, <1>4


-----------------------------------------------------------------------------
(* One pass of the loop, for any number of devices.                        *)

\* The one-shot events the flags s hold back
Sent(s) ==
    {e \in OneShot :
        \/ e = "approaching" /\ s.approaching_sent
        \/ e = "approaching_high" /\ s.approaching_high_sent
        \/ e = "reached" /\ s.reached_sent
        \/ e = "exceeded" /\ s.exceeded_sent}

Ordered(s) == (s.exceeded_sent => s.reached_sent) /\ (s.reached_sent => s.approaching_sent)

\* What the loop has at any time, r, compared with the flags it started from
LoopTypes(r) ==
    /\ r.state \in Flags
    /\ Ordered(r.state)
    /\ r.events \subseteq EventType \X Device

LoopSent(r) ==
    /\ Sent(state) \subseteq Sent(r.state)
    /\ \A e \in OneShot, a \in Device :
          <<e, a>> \in r.events => e \in Sent(r.state) \ Sent(state)

LoopReminds(r) ==
    /\ r.state.last_reminder_ts \in {state.last_reminder_ts, now}
    /\ r.state.exceeded_sent /\ ~state.exceeded_sent => r.state.last_reminder_ts = now
    /\ \A a \in Device : <<"reminder", a>> \in r.events =>
          /\ state.exceeded_sent
          /\ now - state.last_reminder_ts >= target[a].reminder_interval_secs
          /\ r.state.last_reminder_ts = now

LoopOnce(r) ==
    \A e \in EventType, a, b \in Device :
        <<e, a>> \in r.events /\ <<e, b>> \in r.events => a = b

LoopInv(r) == LoopTypes(r) /\ LoopSent(r) /\ LoopReminds(r) /\ LoopOnce(r)

\* The fields of the flags, and how flags are made of fields.
LEMMA FlagsFields ==
    ASSUME NEW s \in Flags
    PROVE  /\ s.approaching_sent \in BOOLEAN
           /\ s.approaching_high_sent \in BOOLEAN
           /\ s.reached_sent \in BOOLEAN
           /\ s.exceeded_sent \in BOOLEAN
           /\ s.last_reminder_ts \in Nat
BY DEF Flags

LEMMA ConfigFields ==
    ASSUME NEW c \in Config \cup {NoTarget}
    PROVE  c.reminder_interval_secs \in Nat /\ EffectiveTarget(c) \in Int /\ High(c) \in Int
<1>1. CASE c \in Config
  <2>1. c \in ConfigShape
    BY <1>1, EvaluatorAssumption
  <2>2. /\ c.reminder_interval_secs \in Nat /\ c.target_value \in Int /\ c.range_high \in Int
    BY <2>1 DEF ConfigShape
  <2>3. EffectiveTarget(c) \in Int
    BY <2>2 DEF EffectiveTarget, Absent
  <2> QED BY <2>2, <2>3 DEF High, ToCelsius
<1>2. CASE c = NoTarget
  <2>1. c.reminder_interval_secs = 0 /\ EffectiveTarget(c) = Absent
    BY <1>2 DEF NoTarget, EffectiveTarget
  <2> QED BY <2>1 DEF High, ToCelsius, Absent
<1> QED BY <1>1, <1>2

\* The flags are set in order, and only once.
LEMMA MarkedFields ==
    ASSUME NEW c, NEW temp, NEW s \in Flags, Ordered(s), now \in Nat
    PROVE  LET m == Marked(c, temp, s)
           IN  /\ m \in Flags
               /\ Ordered(m)
               /\ Sent(s) \subseteq Sent(m)
               /\ Raised(c, temp, s) \cap OneShot \subseteq Sent(m) \ Sent(s)
               /\ m.exceeded_sent /\ ~s.exceeded_sent => m.last_reminder_ts = now
               /\ m.last_reminder_ts \in {s.last_reminder_ts, now}
<1> DEFINE m == Marked(c, temp, s)
           reached == Reached(c, temp) /\ ~s.reached_sent
           exceeded == Exceeded(c, temp) /\ ~s.exceeded_sent
<1>0. /\ s.approaching_sent \in BOOLEAN
      /\ s.approaching_high_sent \in BOOLEAN
      /\ s.reached_sent \in BOOLEAN
      /\ s.exceeded_sent \in BOOLEAN
      /\ s.last_reminder_ts \in Nat
  BY FlagsFields
<1>1. /\ m.approaching_sent = (s.approaching_sent \/ Approaching(c, temp) \/ reached \/ exceeded)
      /\ m.approaching_high_sent = (s.approaching_high_sent \/ ApproachingHigh(c, temp))
      /\ m.reached_sent = (s.reached_sent \/ reached \/ exceeded)
      /\ m.exceeded_sent = (s.exceeded_sent \/ exceeded)
      /\ m.last_reminder_ts = IF exceeded THEN now ELSE s.last_reminder_ts
      /\ m \in Flags
  BY <1>0 DEF Marked, Flags
<1> HIDE DEF m
<1>2. Ordered(m)
  BY <1>0, <1>1 DEF Ordered
<1>3. Sent(s) \subseteq Sent(m)
  BY <1>0, <1>1 DEF Sent
<1>4. Raised(c, temp, s) \cap OneShot \subseteq Sent(m) \ Sent(s)
  BY <1>0, <1>1 DEF Sent, Raised, OneShot
<1> QED BY <1>0, <1>1, <1>2, <1>3, <1>4 DEF m

\* A reminder changes the time of the last one, and no flag.
LEMMA RemindedFields ==
    ASSUME NEW c, NEW temp, NEW s \in Flags, now \in Nat
    PROVE  LET r == Reminded(c, temp, s)
           IN  /\ r \in Flags
               /\ Sent(r) = Sent(s)
               /\ Ordered(s) => Ordered(r)
               /\ r.exceeded_sent = s.exceeded_sent
               /\ r.last_reminder_ts = IF ReminderDue(c, temp, s) THEN now ELSE s.last_reminder_ts
<1> DEFINE r == Reminded(c, temp, s)
<1>1. CASE ~ReminderDue(c, temp, s)
  BY <1>1 DEF Reminded
<1>2. CASE ReminderDue(c, temp, s)
  <2>1. /\ r.approaching_sent = s.approaching_sent
        /\ r.approaching_high_sent = s.approaching_high_sent
        /\ r.reached_sent = s.reached_sent
        /\ r.exceeded_sent = s.exceeded_sent
        /\ r.last_reminder_ts = now
        /\ r \in Flags
    BY <1>2, FlagsFields DEF Reminded, Flags
  <2> HIDE DEF r
  <2>2. Sent(r) = Sent(s) /\ (Ordered(s) => Ordered(r))
    BY <2>1 DEF Sent, Ordered
  <2> QED BY <1>2, <2>1, <2>2 DEF r
<1> QED BY <1>1, <1>2


\* One pass keeps what the loop has in order: what it adds was not held back
\* before, and it reminds only if nothing of this call has.
LEMMA PassStep ==
    ASSUME TypeOK, NEW temp, NEW d \in Device, NEW r, LoopInv(r)
    PROVE  LoopInv(Pass(temp, d, r))
<1> DEFINE c == target[d]
           m == Marked(c, temp, r.state)
           p == Pass(temp, d, r)
<1>1. CASE ~Evaluable(c)
  BY <1>1 DEF Pass
<1>2. CASE Evaluable(c)
  <2>0. /\ c \in Config \cup {NoTarget}
        /\ state \in Flags
        /\ now \in Nat
        /\ c.reminder_interval_secs \in Nat
        /\ state.last_reminder_ts \in Nat
    BY ConfigFields, FlagsFields DEF TypeOK
  <2>1. /\ p.state = Reminded(c, temp, m)
        /\ p.events = r.events \cup (Raised(c, temp, r.state) \X {d})
    BY <1>2 DEF Pass
  <2>2. /\ m \in Flags
        /\ Ordered(m)
        /\ Sent(r.state) \subseteq Sent(m)
        /\ Raised(c, temp, r.state) \cap OneShot \subseteq Sent(m) \ Sent(r.state)
        /\ m.exceeded_sent /\ ~r.state.exceeded_sent => m.last_reminder_ts = now
        /\ m.last_reminder_ts \in {r.state.last_reminder_ts, now}
    BY <2>0, MarkedFields DEF LoopInv, LoopTypes
  <2>3. /\ "reminder" \in Raised(c, temp, r.state) <=> ReminderDue(c, temp, m)
        /\ ReminderDue(c, temp, m) =>
              /\ m.exceeded_sent
              /\ c.reminder_interval_secs > 0
              /\ now - m.last_reminder_ts >= c.reminder_interval_secs
        /\ Raised(c, temp, r.state) \subseteq EventType
        /\ "reminder" \notin OneShot
    BY DEF Raised, ReminderDue, EventType, OneShot
  <2> HIDE DEF c, m, p
  <2>4. /\ p.state \in Flags
        /\ Sent(p.state) = Sent(m)
        /\ Ordered(p.state)
        /\ p.state.exceeded_sent = m.exceeded_sent
        /\ p.state.last_reminder_ts = IF ReminderDue(c, temp, m) THEN now ELSE m.last_reminder_ts
    BY <2>0, <2>1, <2>2, RemindedFields
  <2>5. ASSUME NEW e, NEW a, <<e, a>> \in p.events
        PROVE  \/ <<e, a>> \in r.events
               \/ e \in Raised(c, temp, r.state) /\ a = d
    BY <2>1, <2>5
  \* A reminder now is the first event about exceeding of this call.
  <2>6. ASSUME ReminderDue(c, temp, m)
        PROVE  /\ state.exceeded_sent
               /\ m.last_reminder_ts = state.last_reminder_ts
               /\ r.state.last_reminder_ts # now
    <3>1. m.last_reminder_ts # now
      BY <2>0, <2>3, <2>6
    <3>2. m.last_reminder_ts = r.state.last_reminder_ts /\ r.state.last_reminder_ts # now
      BY <2>2, <3>1
    <3>3. r.state.exceeded_sent
      BY <2>2, <2>3, <2>6, <3>1
    <3> QED BY <3>2, <3>3 DEF LoopInv, LoopReminds
  <2>7. LoopTypes(p)
    <3>1. p.events \subseteq EventType \X Device
      BY <2>1, <2>3 DEF LoopInv, LoopTypes
    <3> QED BY <2>4, <3>1 DEF LoopTypes
  <2>8. LoopSent(p)
    <3>1. Sent(state) \subseteq Sent(p.state) /\ Sent(r.state) \subseteq Sent(p.state)
      BY <2>2, <2>4 DEF LoopInv, LoopSent
    <3>2. ASSUME NEW e \in OneShot, NEW a \in Device, <<e, a>> \in p.events
          PROVE  e \in Sent(p.state) \ Sent(state)
      BY <2>2, <2>4, <2>5, <3>1, <3>2 DEF LoopInv, LoopSent
    <3> QED BY <3>1, <3>2 DEF LoopSent
  <2>9. LoopReminds(p)
    <3>1. p.state.last_reminder_ts \in {state.last_reminder_ts, now}
      BY <2>2, <2>4 DEF LoopInv, LoopReminds
    <3>2. p.state.exceeded_sent /\ ~state.exceeded_sent => p.state.last_reminder_ts = now
      BY <2>2, <2>4 DEF LoopInv, LoopReminds
    <3>3. ASSUME NEW a \in Device, <<"reminder", a>> \in p.events
          PROVE  /\ state.exceeded_sent
                 /\ now - state.last_reminder_ts >= target[a].reminder_interval_secs
                 /\ p.state.last_reminder_ts = now
      <4>1. CASE <<"reminder", a>> \in r.events
        BY <2>2, <2>4, <4>1 DEF LoopInv, LoopReminds
      <4>2. CASE ReminderDue(c, temp, m) /\ a = d
        BY <2>3, <2>4, <2>6, <4>2 DEF c
      <4> QED BY <2>3, <2>5, <3>3, <4>1, <4>2
    <3> QED BY <3>1, <3>2, <3>3 DEF LoopReminds
  <2>10. LoopOnce(p)
    <3>1. ASSUME NEW e \in EventType, NEW a \in Device, <<e, a>> \in r.events
          PROVE  e \notin Raised(c, temp, r.state)
      <4>1. CASE e \in OneShot
        BY <2>2, <3>1, <4>1 DEF LoopInv, LoopSent
      <4>2. CASE e = "reminder"
        BY <2>3, <2>6, <3>1, <4>2 DEF LoopInv, LoopReminds
      <4> QED BY <4>1, <4>2 DEF EventType
    <3> QED BY <2>5, <3>1 DEF LoopInv, LoopOnce
  <2> QED BY <2>7, <2>8, <2>9, <2>10 DEF LoopInv, p
<1> QED BY <1>1, <1>2

LEMMA StartInv == TypeOK => LoopInv(Start)
<1> SUFFICES ASSUME TypeOK PROVE LoopInv(Start)
  OBVIOUS
<1>1. Start.state = state /\ Start.events = {}
  BY DEF Start
<1> QED BY <1>1 DEF TypeOK, LoopInv, LoopTypes, LoopSent, LoopReminds, LoopOnce, Ordered

\* So the result of the loop is in order, however many targets it passes.
LEMMA LoopKeeps ==
    ASSUME TypeOK, NEW temp
    PROVE  LoopInv(AfterTarget(temp))
<1>1. PICK f : /\ AfterTarget(temp) = f[NumDevice]
               /\ f[0] = Start
               /\ \A d \in Device : f[d] = Pass(temp, d, f[d - 1])
  BY AfterEach
<1> DEFINE Bad == {d \in 0..NumDevice : ~LoopInv(f[d])}
<1>2. Bad = {}
  <2> SUFFICES ASSUME Bad # {} PROVE FALSE
    OBVIOUS
  <2>1. PICK m \in Bad : \A i \in Bad : m <= i
    <3>1. Bad \subseteq Nat
      BY EvaluatorAssumption
    <3> HIDE DEF Bad
    <3> QED BY <3>1, SmallestNumber
  <2>2. m # 0
    BY <1>1, StartInv
  <2>3. m \in Device /\ m - 1 \in 0..NumDevice /\ m - 1 \notin Bad
    BY <2>1, <2>2, EvaluatorAssumption DEF Device
  <2>4. LoopInv(f[m - 1])
    BY <2>3
  <2>5. LoopInv(f[m])
    BY <1>1, <2>3, <2>4, PassStep
  <2> QED BY <2>5
<1>3. NumDevice \in 0..NumDevice
  BY EvaluatorAssumption
<1> QED BY <1>1, <1>2, <1>3

-----------------------------------------------------------------------------
(* Types.                                                                  *)

LEMMA TypeInit == Init => TypeOK
<1> SUFFICES ASSUME Init PROVE TypeOK
  OBVIOUS
<1>1. Fresh \in Flags /\ ~Fresh.exceeded_sent /\ ~Fresh.reached_sent
  BY DEF Fresh, Flags
<1>2. 0 \in 0..MaxTime /\ Absent \in Int
  BY EvaluatorAssumption DEF Absent
<1> QED BY <1>1, <1>2 DEF Init, TypeOK


\* Of the temperatures of some devices, and one more, one is the highest.
LEMMA Highest ==
    ASSUME NEW h \in [Device -> Int], NEW A \in SUBSET Device, NEW x \in Int
    PROVE  \E m \in {h[a] : a \in A} \cup {x} : \A g \in {h[a] : a \in A} \cup {x} : g <= m
<1> DEFINE Among(k) == {h[a] : a \in {b \in A : b <= k}} \cup {x}
           Tops(k) == \E m \in Among(k) : \A g \in Among(k) : g <= m
           Bad == {k \in 0..NumDevice : ~Tops(k)}
<1>1. Bad = {}
  <2> SUFFICES ASSUME Bad # {} PROVE FALSE
    OBVIOUS
  <2>1. PICK k \in Bad : \A i \in Bad : k <= i
    <3>1. Bad \subseteq Nat
      BY EvaluatorAssumption
    <3> HIDE DEF Bad
    <3> QED BY <3>1, SmallestNumber
  <2>2. CASE k = 0
    <3>1. Among(0) = {x}
      BY DEF Device
    <3>2. Tops(0)
      BY <3>1
    <3> QED BY <2>2, <3>2
  <2>3. CASE k # 0
    <3>1. k \in Device /\ k - 1 \in 0..NumDevice /\ k - 1 \notin Bad
      <4>1. k \in 0..NumDevice
        OBVIOUS
      <4> HIDE DEF Bad
      <4> QED BY <2>1, <2>3, <4>1, EvaluatorAssumption DEF Device
    <3>2. PICK m \in Among(k - 1) : \A g \in Among(k - 1) : g <= m
      BY <3>1
    <3>3. ASSUME NEW g \in Among(k) PROVE g \in Among(k - 1) \/ g = h[k]
      <4>1. CASE g = x
        BY <4>1
      <4>2. CASE g # x
        <5>1. PICK a \in A : a <= k /\ g = h[a]
          BY <3>3, <4>2
        <5>2. a = k \/ a <= k - 1
          BY <3>1, <5>1 DEF Device
        <5> QED BY <5>1, <5>2
      <4> QED BY <4>1, <4>2
    <3>4. Among(k - 1) \subseteq Among(k) /\ Among(k) \subseteq Int
      BY <3>1 DEF Device
    <3>5. CASE k \notin A
      <4>1. ASSUME NEW g \in Among(k) PROVE g \in Among(k - 1)
        <5>1. CASE g # x
          <6>1. PICK a \in A : a <= k /\ g = h[a]
            BY <4>1, <5>1
          <6>2. a <= k - 1
            BY <3>1, <3>5, <6>1 DEF Device
          <6> QED BY <6>1, <6>2
        <5> QED BY <5>1
      <4>2. Tops(k)
        BY <3>2, <3>4, <4>1
      <4> QED BY <4>2
    <3>6. CASE k \in A
      <4>1. h[k] \in Among(k) /\ h[k] \in Int
        BY <3>1, <3>6 DEF Device
      <4> HIDE DEF Among
      <4>2. CASE h[k] <= m
        BY <3>2, <3>3, <3>4, <4>2
      <4>3. CASE ~(h[k] <= m)
        <5>1. \A g \in Among(k) : g <= h[k]
          BY <3>2, <3>3, <3>4, <4>1, <4>3
        <5> QED BY <4>1, <5>1
      <4> QED BY <4>2, <4>3
    <3> QED BY <3>5, <3>6
  <2> QED BY <2>2, <2>3
<1>2. Tops(NumDevice)
  BY <1>1, EvaluatorAssumption
<1>3. {b \in A : b <= NumDevice} = A
  <2>1. \A b \in A : b <= NumDevice
    BY EvaluatorAssumption DEF Device
  <2> QED BY <2>1
<1> QED BY <1>2, <1>3

\* What loudest becomes: a temperature, and none of those passed is higher.
LEMMA LoudestRises ==
    ASSUME TypeOK, NEW B \in SUBSET Device, NEW x \in Int
    PROVE  LET passed == {High(target[a]) : a \in B} \cup {x}
               top == CHOOSE h \in passed : \A g \in passed : g <= h
           IN  top \in Int /\ \A g \in passed : g <= top
<1> DEFINE h == [a \in Device |-> High(target[a])]
           passed == {High(target[a]) : a \in B} \cup {x}
           top == CHOOSE t \in passed : \A g \in passed : g <= t
<1>1. h \in [Device -> Int]
  BY ConfigFields DEF TypeOK
<1>2. passed = {h[a] : a \in B} \cup {x}
  OBVIOUS
<1>3. passed \subseteq Int
  BY <1>1
<1>4. \E t \in passed : \A g \in passed : g <= t
  <2>1. \E t \in {h[a] : a \in B} \cup {x} : \A g \in {h[a] : a \in B} \cup {x} : g <= t
    <3> HIDE DEF h
    <3> QED BY <1>1, Highest
  <2> HIDE DEF h, passed
  <2> QED BY <1>2, <2>1
<1>5. top \in passed /\ \A g \in passed : g <= top
  <2> HIDE DEF passed
  <2> QED BY <1>4
<1> QED BY <1>3, <1>5

\* What a call of evaluate does with the history
LEMMA EvaluateTypes ==
    ASSUME TypeOK, NEW d \in Device, NEW temp, Evaluate(d, temp)
    PROVE  TypeOK'
<1> DEFINE result == AfterTarget(temp)
           types == {e \in EventType : \E a \in Device : <<e, a>> \in result.events}
           B == {b \in Device : <<"exceeded", b>> \in result.events}
           passed == {High(target[a]) : a \in B} \cup {loudest[d]}
           top == CHOOSE h \in passed : \A g \in passed : g <= h
<1>1. LoopInv(result)
  BY LoopKeeps
<1>2. loudest[d] \in Int /\ now \in Int
  BY DEF TypeOK
<1>3. top \in Int
  <2> HIDE DEF B
  <2>1. B \in SUBSET Device
    BY DEF B
  <2> QED BY <1>2, <2>1, LoudestRises
<1>4. /\ state' = result.state
      /\ events' = result.events
      /\ source' = d
      /\ heard' = [heard EXCEPT ![d] = @ \cup types]
      /\ lastNews' = [lastNews EXCEPT ![d] =
                          IF types \cap {"exceeded", "reminder"} # {} THEN now ELSE @]
      /\ target' = target /\ now' = now
  BY DEF Evaluate
<1>5. loudest' = [loudest EXCEPT ![d] = top]
  BY DEF Evaluate
<1>6. types \subseteq EventType
  OBVIOUS
<1> HIDE DEF result, types, top
<1>7. /\ state' \in Flags
      /\ state'.exceeded_sent => state'.reached_sent
      /\ state'.reached_sent => state'.approaching_sent
      /\ events' \subseteq EventType \X Device
  BY <1>1, <1>4 DEF LoopInv, LoopTypes, Ordered
<1>8. heard' \in [Device -> SUBSET EventType]
  BY <1>4, <1>6 DEF TypeOK
<1>9. loudest' \in [Device -> Int]
  BY <1>3, <1>5 DEF TypeOK
<1>10. lastNews' \in [Device -> Int]
  BY <1>2, <1>4 DEF TypeOK
<1> QED BY <1>4, <1>7, <1>8, <1>9, <1>10 DEF TypeOK

LEMMA SetTargetsTypes ==
    ASSUME TypeOK, NEW new \in [Device -> Config \cup {NoTarget}], SetTargets(new)
    PROVE  TypeOK'
<1>1. Fresh \in Flags /\ ~Fresh.exceeded_sent /\ ~Fresh.reached_sent
  BY DEF Fresh, Flags
<1>2. state' \in {Fresh, state}
  BY DEF SetTargets
<1>3. heard' \in [Device -> SUBSET EventType]
  BY DEF SetTargets, TypeOK
<1>4. loudest' \in [Device -> Int]
  <2>1. \A d \in Device : (IF new[d] = NoTarget THEN Absent ELSE loudest[d]) \in Int
    BY DEF TypeOK, Absent
  <2> QED BY <2>1 DEF SetTargets
<1> QED BY <1>1, <1>2, <1>3, <1>4 DEF SetTargets, TypeOK

LEMMA TypeStep == TypeOK /\ [Next]_vars => TypeOK'
<1> SUFFICES ASSUME TypeOK, [Next]_vars PROVE TypeOK'
  OBVIOUS
<1>1. ASSUME NEW d \in Device, EvaluateUnplugged(d) PROVE TypeOK'
  BY <1>1 DEF EvaluateUnplugged, TypeOK
<1>2. CASE ClearSession
  <2>1. Fresh \in Flags /\ ~Fresh.exceeded_sent /\ ~Fresh.reached_sent /\ Absent \in Int
    BY DEF Fresh, Flags, Absent
  <2> QED BY <1>2, <2>1 DEF ClearSession, TypeOK
<1>3. CASE Tick
  <2>1. now' \in 0..MaxTime
    BY <1>3, EvaluatorAssumption DEF Tick, TypeOK
  <2> QED BY <1>3, <2>1 DEF Tick, TypeOK
<1>4. CASE UNCHANGED vars
  BY <1>4 DEF vars, TypeOK
<1> QED BY <1>1, <1>2, <1>3, <1>4, EvaluateTypes, SetTargetsTypes DEF Next

\* The types, and the order of the flags, for any number of devices: every
\* call of evaluate leaves them in order.
THEOREM TypeCorrect == Spec => []TypeOK
BY TypeInit, TypeStep, PTL DEF Spec

-----------------------------------------------------------------------------
(* What the devices at one index share.                                    *)

\* A one-shot event is returned only while its flag is clear, sets it, and
\* is returned for one device alone: between two re-armings of an index the
\* clients get each type once, whichever devices have a target there.
OnceForAll ==
    [][\A e \in OneShot, a \in Device : <<e, a>> \in events' =>
          /\ e \notin Sent(state)
          /\ e \in Sent(state')
          /\ \A b \in Device : <<e, b>> \in events' => b = a]_vars

\* A reminder is the only one of its call, which reports no target as
\* exceeded, and the last one is as old as the interval of its target.
RemindersApart ==
    [][\A a \in Device : <<"reminder", a>> \in events' =>
          /\ state.exceeded_sent
          /\ now - state.last_reminder_ts >= target[a].reminder_interval_secs
          /\ state'.last_reminder_ts = now
          /\ \A b \in Device : <<"exceeded", b>> \notin events'
          /\ \A b \in Device : <<"reminder", b>> \in events' => b = a]_vars

\* Only evaluate returns events, and they are those of the loop.
LEMMA EventsOfLoop ==
    ASSUME TypeOK, [Next]_vars, vars' # vars, events' # {}
    PROVE  \E temp : LoopInv(AfterTarget(temp)) /\ state' = AfterTarget(temp).state
                                              /\ events' = AfterTarget(temp).events
<1>1. PICK d \in Device, temp \in Temp : Evaluate(d, temp)
  BY DEF Next, EvaluateUnplugged, SetTargets, ClearSession, Tick
<1>2. state' = AfterTarget(temp).state /\ events' = AfterTarget(temp).events
  BY <1>1 DEF Evaluate
<1> QED BY <1>2, LoopKeeps

LEMMA OnceStep ==
    ASSUME TypeOK, [Next]_vars, vars' # vars
    PROVE  /\ \A e \in OneShot, a \in Device : <<e, a>> \in events' =>
                 /\ e \notin Sent(state)
                 /\ e \in Sent(state')
                 /\ \A b \in Device : <<e, b>> \in events' => b = a
           /\ \A a \in Device : <<"reminder", a>> \in events' =>
                 /\ state.exceeded_sent
                 /\ now - state.last_reminder_ts >= target[a].reminder_interval_secs
                 /\ state'.last_reminder_ts = now
                 /\ \A b \in Device : <<"exceeded", b>> \notin events'
                 /\ \A b \in Device : <<"reminder", b>> \in events' => b = a
<1>1. CASE events' = {}
  BY <1>1
<1>2. CASE events' # {}
  <2>1. PICK temp : LoopInv(AfterTarget(temp)) /\ state' = AfterTarget(temp).state
                                              /\ events' = AfterTarget(temp).events
    BY <1>2, EventsOfLoop
  <2>2. "exceeded" \in Sent(state) <=> state.exceeded_sent
    BY DEF Sent, OneShot
  <2>3. OneShot \subseteq EventType /\ "exceeded" \in OneShot /\ "reminder" \in EventType
    BY DEF OneShot, EventType
  <2>4. ASSUME NEW e \in OneShot, NEW a \in Device, <<e, a>> \in events'
        PROVE  /\ e \notin Sent(state)
               /\ e \in Sent(state')
               /\ \A b \in Device : <<e, b>> \in events' => b = a
    BY <2>1, <2>3, <2>4 DEF LoopInv, LoopSent, LoopOnce
  <2>5. ASSUME NEW a \in Device, <<"reminder", a>> \in events'
        PROVE  /\ state.exceeded_sent
               /\ now - state.last_reminder_ts >= target[a].reminder_interval_secs
               /\ state'.last_reminder_ts = now
               /\ \A b \in Device : <<"reminder", b>> \in events' => b = a
    BY <2>1, <2>3, <2>5 DEF LoopInv, LoopReminds, LoopOnce
  <2>6. ASSUME NEW a \in Device, <<"reminder", a>> \in events', NEW b \in Device
        PROVE  <<"exceeded", b>> \notin events'
    BY <2>2, <2>3, <2>4, <2>5, <2>6
  <2> QED BY <2>4, <2>5, <2>6
<1> QED BY <1>1, <1>2

\* However many devices have targets at the index
THEOREM OneOfEachKind == Spec => OnceForAll
<1>1. TypeOK /\ [Next]_vars =>
          [\A e \in OneShot, a \in Device : <<e, a>> \in events' =>
              /\ e \notin Sent(state)
              /\ e \in Sent(state')
              /\ \A b \in Device : <<e, b>> \in events' => b = a]_vars
  BY OnceStep
<1> QED BY <1>1, TypeCorrect, PTL DEF Spec, OnceForAll

THEOREM RemindersAreApart == Spec => RemindersApart
<1>1. TypeOK /\ [Next]_vars =>
          [\A a \in Device : <<"reminder", a>> \in events' =>
              /\ state.exceeded_sent
              /\ now - state.last_reminder_ts >= target[a].reminder_interval_secs
              /\ state'.last_reminder_ts = now
              /\ \A b \in Device : <<"exceeded", b>> \notin events'
              /\ \A b \in Device : <<"reminder", b>> \in events' => b = a]_vars
  BY OnceStep
<1> QED BY <1>1, TypeCorrect, PTL DEF Spec, RemindersApart

-----------------------------------------------------------------------------
(* One device.                                                             *)

\* With one device at the index the flags are those of the device: they hold
\* back what it has been told since its target was raised, and a target that
\* is marked as exceeded is not above the loudest it was told about.
Told ==
    \A d \in Device :
        /\ heard[d] \cap OneShot \subseteq Sent(state)
        /\ state.exceeded_sent =>
              /\ High(target[d]) <= loudest[d]
              /\ lastNews[d] = state.last_reminder_ts

LEMMA OnlyDevice == NumDevice = 1 => Device = {1}
BY DEF Device

\* The loop is one pass.
LEMMA OnePass ==
    ASSUME NumDevice = 1, NEW temp
    PROVE  AfterTarget(temp) = Pass(temp, 1, Start)
<1>1. PICK f : /\ AfterTarget(temp) = f[NumDevice]
               /\ f[0] = Start
               /\ \A d \in Device : f[d] = Pass(temp, d, f[d - 1])
  BY AfterEach
<1>2. f[1] = Pass(temp, 1, f[0])
  BY <1>1, OnlyDevice
<1> QED BY <1>1, <1>2

\* A reading of the probe is over its target.
Over(temp) == Evaluable(target[1]) /\ Exceeded(target[1], temp)

\* What a call leaves: the target is reported as exceeded once, and
\* reminded of when the interval has passed.
LEMMA OneResult ==
    ASSUME TypeOK, NumDevice = 1, NEW temp
    PROVE  LET r == AfterTarget(temp)
               c == target[1]
               first == Over(temp) /\ ~state.exceeded_sent
               again == /\ Over(temp)
                        /\ state.exceeded_sent
                        /\ c.reminder_interval_secs > 0
                        /\ now - state.last_reminder_ts >= c.reminder_interval_secs
           IN  /\ r.state.exceeded_sent = (state.exceeded_sent \/ first)
               /\ <<"exceeded", 1>> \in r.events <=> first
               /\ <<"reminder", 1>> \in r.events <=> again
               /\ r.state.last_reminder_ts = IF first \/ again THEN now ELSE state.last_reminder_ts
<1> DEFINE r == AfterTarget(temp)
           c == target[1]
           m == Marked(c, temp, state)
           first == Over(temp) /\ ~state.exceeded_sent
           again == /\ Over(temp)
                    /\ state.exceeded_sent
                    /\ c.reminder_interval_secs > 0
                    /\ now - state.last_reminder_ts >= c.reminder_interval_secs
<1>1. /\ r = Pass(temp, 1, Start)
      /\ Start.state = state /\ Start.events = {}
      /\ state \in Flags /\ now \in Nat
      /\ state.exceeded_sent \in BOOLEAN
      /\ c \in Config \cup {NoTarget}
      /\ c.reminder_interval_secs \in Nat
      /\ Ordered(state)
      /\ state.last_reminder_ts \in Nat
  <2>1. 1 \in Device /\ state \in Flags /\ target \in [Device -> Config \cup {NoTarget}]
    BY OnlyDevice DEF TypeOK
  <2>2. now \in Nat /\ Ordered(state)
    BY DEF TypeOK, Ordered
  <2>3. c \in Config \cup {NoTarget}
    BY <2>1
  <2>4. c.reminder_interval_secs \in Nat
    BY <2>3, ConfigFields
  <2>5. Start.state = state /\ Start.events = {}
    BY DEF Start
  <2> QED BY <2>1, <2>2, <2>3, <2>4, <2>5, OnePass, FlagsFields
<1>2. CASE ~Evaluable(c)
  BY <1>1, <1>2 DEF Pass, Over
<1>3. CASE Evaluable(c)
  <2>1. /\ r.state = Reminded(c, temp, m)
        /\ r.events = Raised(c, temp, state) \X {1}
    BY <1>1, <1>3 DEF Pass
  <2>2. /\ m.exceeded_sent = (state.exceeded_sent \/ first)
        /\ m.last_reminder_ts = IF first THEN now ELSE state.last_reminder_ts
        /\ m \in Flags
    <3>1. m \in Flags
      BY <1>1, MarkedFields
    <3> QED BY <1>1, <1>3, <3>1 DEF Marked, Over
  <2>3. /\ "exceeded" \in Raised(c, temp, state) <=> first
        /\ "reminder" \in Raised(c, temp, state) <=> ReminderDue(c, temp, m)
    BY <1>1, <1>3 DEF Raised, Over, EventType, OneShot
  <2> HIDE DEF m, c
  <2>4. ReminderDue(c, temp, m) <=> again
    <3>1. CASE first
      BY <1>1, <2>2, <3>1 DEF ReminderDue
    <3>2. CASE ~first
      BY <1>1, <1>3, <2>2, <3>2 DEF ReminderDue, Over, c
    <3> QED BY <3>1, <3>2
  <2>5. /\ r.state.exceeded_sent = m.exceeded_sent
        /\ r.state.last_reminder_ts = IF ReminderDue(c, temp, m) THEN now ELSE m.last_reminder_ts
    BY <1>1, <2>1, <2>2, RemindedFields
  <2>6. /\ <<"exceeded", 1>> \in r.events <=> first
        /\ <<"reminder", 1>> \in r.events <=> again
    BY <2>1, <2>3, <2>4
  <2>7. r.state.last_reminder_ts = IF first \/ again THEN now ELSE state.last_reminder_ts
    BY <2>2, <2>4, <2>5
  <2> QED BY <2>2, <2>5, <2>6, <2>7 DEF c
<1> QED BY <1>2, <1>3

\* What the call adds to the history of the device
LEMMA OneEvaluate ==
    ASSUME TypeOK, NumDevice = 1, NEW temp, Evaluate(1, temp)
    PROVE  LET r == AfterTarget(temp)
           IN  /\ state' = r.state /\ events' = r.events /\ target' = target /\ now' = now
               /\ heard'[1] \cap OneShot \subseteq (heard[1] \cap OneShot) \cup Sent(r.state)
               /\ loudest'[1] >= loudest[1]
               /\ <<"exceeded", 1>> \in r.events => loudest'[1] >= High(target[1])
               /\ lastNews'[1] = IF <<"exceeded", 1>> \in r.events \/ <<"reminder", 1>> \in r.events
                                 THEN now ELSE lastNews[1]
<1> DEFINE r == AfterTarget(temp)
           types == {e \in EventType : \E a \in Device : <<e, a>> \in r.events}
           B == {b \in Device : <<"exceeded", b>> \in r.events}
           passed == {High(target[a]) : a \in B} \cup {loudest[1]}
           top == CHOOSE h \in passed : \A g \in passed : g <= h
<1>1. /\ state' = r.state /\ events' = r.events /\ target' = target /\ now' = now
      /\ heard' = [heard EXCEPT ![1] = @ \cup types]
      /\ lastNews' = [lastNews EXCEPT ![1] =
                          IF types \cap {"exceeded", "reminder"} # {} THEN now ELSE @]
  BY DEF Evaluate
<1>2. loudest' = [loudest EXCEPT ![1] = top]
  BY DEF Evaluate
<1>3. Device = {1} /\ loudest[1] \in Int
  BY OnlyDevice DEF TypeOK
<1>4. loudest'[1] = top /\ heard'[1] = heard[1] \cup types
  BY <1>1, <1>2, <1>3 DEF TypeOK
<1>5. \A g \in passed : g <= top
  <2>1. B \in SUBSET Device
    OBVIOUS
  <2> HIDE DEF B
  <2> QED BY <1>3, <2>1, LoudestRises
<1>6. loudest[1] <= top
  <2>1. loudest[1] \in passed
    OBVIOUS
  <2> HIDE DEF passed
  <2> QED BY <1>5, <2>1
<1>7. ASSUME <<"exceeded", 1>> \in r.events PROVE High(target[1]) <= top
  <2>1. 1 \in B
    BY <1>3, <1>7
  <2>2. High(target[1]) \in passed
    BY <2>1
  <2> HIDE DEF passed
  <2> QED BY <1>5, <2>2
<1>8. top \in Int /\ High(target[1]) \in Int
  <2>1. B \in SUBSET Device
    OBVIOUS
  <2>2. top \in Int
    <3> HIDE DEF B
    <3> QED BY <1>3, <2>1, LoudestRises
  <2> QED BY <1>3, <2>2, ConfigFields DEF TypeOK
<1>9. types \cap OneShot \subseteq Sent(r.state)
  <2>1. LoopInv(r)
    BY LoopKeeps
  <2> HIDE DEF r
  <2> QED BY <2>1 DEF LoopInv, LoopSent
<1>10. types \cap {"exceeded", "reminder"} # {} <=>
          <<"exceeded", 1>> \in r.events \/ <<"reminder", 1>> \in r.events
  <2> HIDE DEF r
  <2> QED BY <1>3 DEF EventType, OneShot
<1>11. lastNews'[1] = IF types \cap {"exceeded", "reminder"} # {} THEN now ELSE lastNews[1]
  <2> HIDE DEF types
  <2> QED BY <1>1, <1>3 DEF TypeOK
<1>12. heard'[1] \cap OneShot \subseteq (heard[1] \cap OneShot) \cup Sent(r.state)
  <2> HIDE DEF types, r
  <2> QED BY <1>4, <1>9
<1> HIDE DEF r, types, top
<1>13. /\ loudest'[1] >= loudest[1]
       /\ <<"exceeded", 1>> \in r.events => loudest'[1] >= High(target[1])
  BY <1>3, <1>4, <1>6, <1>7, <1>8
<1> QED BY <1>1, <1>10, <1>11, <1>12, <1>13 DEF r

LEMMA ToldInit == Init => Told
<1> SUFFICES ASSUME Init PROVE Told
  OBVIOUS
<1>1. ~Fresh.exceeded_sent
  BY DEF Fresh
<1> QED BY <1>1 DEF Init, Told

\* A call of evaluate marks as exceeded no more than it reports.
LEMMA EvaluateTold ==
    ASSUME TypeOK, Told, NumDevice = 1, NEW temp, Evaluate(1, temp)
    PROVE  Told'
<1> DEFINE r == AfterTarget(temp)
           c == target[1]
           first == Over(temp) /\ ~state.exceeded_sent
           again == /\ Over(temp)
                    /\ state.exceeded_sent
                    /\ c.reminder_interval_secs > 0
                    /\ now - state.last_reminder_ts >= c.reminder_interval_secs
<1>1. Device = {1}
  BY OnlyDevice
<1>2. /\ state' = r.state /\ events' = r.events /\ target' = target /\ now' = now
      /\ heard'[1] \cap OneShot \subseteq (heard[1] \cap OneShot) \cup Sent(r.state)
      /\ loudest'[1] >= loudest[1]
      /\ <<"exceeded", 1>> \in r.events => loudest'[1] >= High(target[1])
      /\ lastNews'[1] = IF <<"exceeded", 1>> \in r.events \/ <<"reminder", 1>> \in r.events
                        THEN now ELSE lastNews[1]
  BY OneEvaluate
<1>3. /\ r.state.exceeded_sent = (state.exceeded_sent \/ first)
      /\ <<"exceeded", 1>> \in r.events <=> first
      /\ <<"reminder", 1>> \in r.events <=> again
      /\ r.state.last_reminder_ts = IF first \/ again THEN now ELSE state.last_reminder_ts
  BY OneResult
<1>4. Sent(state) \subseteq Sent(r.state)
  BY LoopKeeps DEF LoopInv, LoopSent
<1>5. /\ heard[1] \cap OneShot \subseteq Sent(state)
      /\ state.exceeded_sent =>
            High(target[1]) <= loudest[1] /\ lastNews[1] = state.last_reminder_ts
  BY <1>1 DEF Told
<1>6. loudest[1] \in Int /\ loudest'[1] \in Int /\ High(target[1]) \in Int
  <2>1. TypeOK'
    BY <1>1, EvaluateTypes
  <2> QED BY <1>1, <2>1, ConfigFields DEF TypeOK
<1> HIDE DEF r, first, again
<1>7. heard'[1] \cap OneShot \subseteq Sent(state')
  BY <1>2, <1>4, <1>5
<1>8. state'.exceeded_sent => High(target[1]) <= loudest'[1]
  <2> DEFINE high == High(target[1])
  <2>1. ASSUME state.exceeded_sent PROVE high <= loudest'[1]
    <3>1. high \in Int /\ high <= loudest[1] /\ loudest'[1] >= loudest[1]
      BY <1>2, <1>5, <2>1, <1>6
    <3> HIDE DEF high
    <3> QED BY <1>6, <3>1
  <2>2. ASSUME first PROVE high <= loudest'[1]
    <3>1. high \in Int /\ loudest'[1] >= high
      BY <1>2, <1>3, <2>2, <1>6
    <3> HIDE DEF high
    <3> QED BY <1>6, <3>1
  <2> QED BY <1>2, <1>3, <2>1, <2>2
<1>9. state'.exceeded_sent => lastNews'[1] = state'.last_reminder_ts
  BY <1>2, <1>3, <1>5
<1> QED BY <1>1, <1>2, <1>7, <1>8, <1>9 DEF Told

\* Storing the list re-arms the flags whenever the history of the device
\* starts afresh, and else does not raise the target.
LEMMA SetTargetsTold ==
    ASSUME TypeOK, Told, NumDevice = 1,
           NEW new \in [Device -> Config \cup {NoTarget}], SetTargets(new)
    PROVE  Told'
<1>1. Device = {1} /\ 1 \in Device
  BY OnlyDevice
<1>2. OldTarget = target[1]
  BY <1>1 DEF OldTarget
<1>3. EffectiveTarget(NoTarget) = Absent
  BY DEF EffectiveTarget, NoTarget
<1>4. Rearms(new) <=> Higher(target[1], new[1])
  BY <1>1, <1>2, <1>3 DEF Rearms, Higher
<1>5. /\ state' = IF Rearms(new) THEN Fresh ELSE state
      /\ target' = new /\ lastNews' = lastNews
      /\ heard'[1] = IF Higher(target[1], new[1]) THEN {} ELSE heard[1]
      /\ loudest'[1] = IF new[1] = NoTarget THEN Absent ELSE loudest[1]
  BY <1>1 DEF SetTargets
<1>6. /\ heard[1] \cap OneShot \subseteq Sent(state)
      /\ state.exceeded_sent =>
            High(target[1]) <= loudest[1] /\ lastNews[1] = state.last_reminder_ts
  BY <1>1 DEF Told
<1>7. CASE Rearms(new)
  <2>1. ~state'.exceeded_sent /\ heard'[1] = {}
    BY <1>4, <1>5, <1>7 DEF Fresh
  <2> QED BY <1>1, <2>1 DEF Told
<1>8. CASE ~Rearms(new)
  <2>1. /\ state' = state /\ heard'[1] = heard[1] /\ loudest'[1] = loudest[1]
        /\ High(new[1]) <= High(target[1])
    <3>1. new[1] # NoTarget /\ ~(High(new[1]) > High(target[1]))
      BY <1>3, <1>4, <1>8 DEF Higher
    <3>2. High(new[1]) \in Int /\ High(target[1]) \in Int
      BY <1>1, ConfigFields DEF TypeOK
    <3> QED BY <1>4, <1>5, <1>8, <3>1, <3>2
  <2>2. /\ High(new[1]) \in Int /\ High(target[1]) \in Int /\ loudest[1] \in Int
    BY <1>1, ConfigFields DEF TypeOK
  <2>3. state'.exceeded_sent => High(new[1]) <= loudest'[1]
    BY <1>6, <2>1, <2>2
  <2> QED BY <1>1, <1>5, <1>6, <2>1, <2>3 DEF Told
<1> QED BY <1>7, <1>8

LEMMA ToldStep == NumDevice = 1 /\ TypeOK /\ Told /\ [Next]_vars => Told'
<1> SUFFICES ASSUME NumDevice = 1, TypeOK, Told, [Next]_vars PROVE Told'
  OBVIOUS
<1>1. ASSUME NEW d \in Device, NEW temp \in Temp, Evaluate(d, temp) PROVE Told'
  BY <1>1, OnlyDevice, EvaluateTold
<1>2. CASE ClearSession
  <2>1. ~state'.exceeded_sent /\ \A d \in Device : heard'[d] = {}
    BY <1>2 DEF ClearSession, Fresh
  <2> QED BY <2>1 DEF Told
<1>3. ASSUME NEW d \in Device, EvaluateUnplugged(d) PROVE Told'
  BY <1>3 DEF EvaluateUnplugged, Told
<1>4. CASE Tick \/ UNCHANGED vars
  BY <1>4 DEF Tick, vars, Told
<1> QED BY <1>1, <1>2, <1>3, <1>4, SetTargetsTold DEF Next

LEMMA ToldAlways == NumDevice = 1 /\ Spec => [](TypeOK /\ Told)
<1>1. Spec => []TypeOK
  BY TypeCorrect
<1>2. CASE NumDevice = 1
  <2>1. Init => Told
    BY ToldInit
  <2>2. TypeOK /\ Told /\ [Next]_vars => Told'
    BY <1>2, ToldStep
  <2> QED BY <1>1, <2>1, <2>2, PTL DEF Spec
<1>3. CASE ~(NumDevice = 1)
  BY <1>3
<1> QED BY <1>2, <1>3

-----------------------------------------------------------------------------
(* The properties, of one device at the index: two share the flags, and    *)
(* one of them takes the other's events away.                              *)

\* What a reading does to the history of the device, in terms of its target
LEMMA ReadingStep ==
    ASSUME TypeOK, Told, NumDevice = 1, ReadOver(1)
    PROVE  /\ loudest'[1] >= High(target[1])
           /\ target[1].reminder_interval_secs > 0 =>
                 now - lastNews'[1] < target[1].reminder_interval_secs
<1>1. Device = {1}
  BY OnlyDevice
<1>2. PICK temp \in Temp : Evaluate(1, temp) /\ Over(temp)
  BY DEF ReadOver, Over
<1> DEFINE r == AfterTarget(temp)
           i == target[1].reminder_interval_secs
           last == state.last_reminder_ts
           high == High(target[1])
<1>3. /\ loudest'[1] >= loudest[1]
      /\ <<"exceeded", 1>> \in r.events => loudest'[1] >= high
      /\ lastNews'[1] = IF <<"exceeded", 1>> \in r.events \/ <<"reminder", 1>> \in r.events
                        THEN now ELSE lastNews[1]
  BY <1>2, OneEvaluate
<1>4. /\ <<"exceeded", 1>> \in r.events <=> ~state.exceeded_sent
      /\ <<"reminder", 1>> \in r.events <=> state.exceeded_sent /\ i > 0 /\ now - last >= i
  BY <1>2, OneResult
<1>5. state.exceeded_sent => high <= loudest[1] /\ lastNews[1] = last
  BY <1>1 DEF Told
<1>6. loudest[1] \in Int /\ loudest'[1] \in Int
  <2>1. TypeOK'
    BY <1>1, <1>2, EvaluateTypes
  <2> QED BY <1>1, <2>1 DEF TypeOK
<1>7. high \in Int /\ i \in Nat
  BY <1>1, ConfigFields DEF TypeOK
<1>8. now \in Nat /\ last \in Nat
  BY FlagsFields DEF TypeOK
<1> HIDE DEF r, i, last, high
<1>9. loudest'[1] >= high
  BY <1>3, <1>4, <1>5, <1>6, <1>7
<1>10. i > 0 => now - lastNews'[1] < i
  BY <1>3, <1>4, <1>5, <1>7, <1>8
<1> QED BY <1>9, <1>10 DEF high, i

\* No silent cook: a reading over the target has been told to be over a
\* target at least as high, however the target was edited.
THEOREM CooksAreNotSilent ==
    ASSUME NumDevice = 1
    PROVE  Spec => NeverSilent
<1>1. TypeOK /\ Told /\ [Next]_vars =>
          [\A d \in Device : ReadOver(d) => loudest'[d] >= High(target[d])]_vars
  BY OnlyDevice, ReadingStep
<1> QED BY <1>1, ToldAlways, PTL DEF Spec, NeverSilent

\* A reading over the target has news of it within the reminder interval.
THEOREM NoReminderIsLeftOut ==
    ASSUME NumDevice = 1
    PROVE  Spec => NewsIsRecent
<1>1. TypeOK /\ Told /\ [Next]_vars =>
          [\A d \in Device :
              ReadOver(d) /\ target[d].reminder_interval_secs > 0 =>
                  now - lastNews'[d] < target[d].reminder_interval_secs]_vars
  BY OnlyDevice, ReadingStep
<1> QED BY <1>1, ToldAlways, PTL DEF Spec, NewsIsRecent

\* A one-shot event is not repeated until the target is raised.
THEOREM NothingIsRepeated ==
    ASSUME NumDevice = 1
    PROVE  Spec => NotRepeated
<1>1. TypeOK /\ Told /\ [Next]_vars =>
          [\A d \in Device, e \in OneShot : <<e, d>> \in events' => e \notin heard[d]]_vars
  BY OnceStep DEF Told
<1> QED BY <1>1, ToldAlways, PTL DEF Spec, NotRepeated

\* Near, reached and exceeded are told in this order until the target is
\* raised; the warning that the top of a range is near may follow any of them.
THEOREM NoStageComesLate ==
    ASSUME NumDevice = 1
    PROVE  Spec => StagesInOrder
<1>0. {"approaching", "reached", "exceeded"} \subseteq OneShot
  BY DEF OneShot
<1>1. ASSUME TypeOK, Told, [Next]_vars, vars' # vars, NEW d \in Device,
             <<"approaching", d>> \in events'
      PROVE  heard[d] \cap {"reached", "exceeded"} = {}
  <2>1. "approaching" \notin Sent(state)
    BY <1>0, <1>1, OnceStep
  <2>2. ~state.exceeded_sent /\ ~state.reached_sent
    BY <1>0, <1>1, <2>1 DEF Sent, TypeOK
  <2>3. "reached" \notin Sent(state) /\ "exceeded" \notin Sent(state)
    BY <2>2 DEF Sent
  <2> QED BY <1>0, <1>1, <2>3 DEF Told
<1>2. ASSUME TypeOK, Told, [Next]_vars, vars' # vars, NEW d \in Device,
             <<"reached", d>> \in events'
      PROVE  "exceeded" \notin heard[d]
  <2>1. "reached" \notin Sent(state)
    BY <1>0, <1>2, OnceStep
  <2>2. ~state.exceeded_sent
    BY <1>0, <1>2, <2>1 DEF Sent, TypeOK
  <2>3. "exceeded" \notin Sent(state)
    BY <2>2 DEF Sent
  <2> QED BY <1>0, <1>2, <2>3 DEF Told
<1>3. TypeOK /\ Told /\ [Next]_vars =>
          [\A d \in Device :
              /\ <<"approaching", d>> \in events' => heard[d] \cap {"reached", "exceeded"} = {}
              /\ <<"reached", d>> \in events' => "exceeded" \notin heard[d]]_vars
  BY <1>1, <1>2
<1> QED BY <1>3, ToldAlways, PTL DEF Spec, StagesInOrder

\* A reminder comes only after other news, and when the interval has passed.
THEOREM RemindersKeepTheirDistance ==
    ASSUME NumDevice = 1
    PROVE  Spec => RemindersSpaced
<1>1. ASSUME TypeOK, Told, [Next]_vars, vars' # vars, NEW d \in Device,
             <<"reminder", d>> \in events'
      PROVE  /\ <<"exceeded", d>> \notin events'
             /\ lastNews[d] # Absent
             /\ now - lastNews[d] >= target[d].reminder_interval_secs
  <2>1. /\ state.exceeded_sent
        /\ now - state.last_reminder_ts >= target[d].reminder_interval_secs
        /\ <<"exceeded", d>> \notin events'
    BY <1>1, OnceStep
  <2>2. lastNews[d] = state.last_reminder_ts
    BY <1>1, <2>1 DEF Told
  <2>3. state.last_reminder_ts \in Nat
    BY <1>1, FlagsFields DEF TypeOK
  <2> QED BY <2>1, <2>2, <2>3 DEF Absent
<1>2. TypeOK /\ Told /\ [Next]_vars =>
          [\A d \in Device : <<"reminder", d>> \in events' =>
              /\ <<"exceeded", d>> \notin events'
              /\ lastNews[d] # Absent
              /\ now - lastNews[d] >= target[d].reminder_interval_secs]_vars
  BY <1>1
<1> QED BY <1>2, ToldAlways, PTL DEF Spec, RemindersSpaced

===============================================================================
