--------------------------- MODULE PushServiceProofs ---------------------------
(***************************************************************************)
(* Proofs about PushService, for any tokens, any of them flaky, and any    *)
(* interval.  The inductive invariant, IInv, says of each loop that it     *)
(* waits to remove only a token that APNs has refused, and of the loop of  *)
(* updates that no activity has had an update since the interval began,    *)
(* unless a round is under way in which one got through.                   *)
(***************************************************************************)
EXTENDS PushService, TLAPS

\* Only refused tokens are about to be removed.
RefusedAreDead == \A t \in Token : alerting[t] = "refused" => t \in dead

Quiet == UpdatesIdle \/ ~anySuccess
AgesCount == Quiet => \A a \in LaToken : age[a] >= sinceUpdate

IInv == TypeOK /\ RefusedAreDead /\ NotTwice /\ AgesCount

-----------------------------------------------------------------------------
(* Types. *)

LEMMA RowTypes ==
    ASSUME row \in [Token -> LaToken \cup {NoLa, NoRow}]
    PROVE  /\ \A t \in Token, la \in LaToken \cup {NoLa} :
                 Upserted(t, la) \in [Token -> LaToken \cup {NoLa, NoRow}]
           /\ \A t \in Token : Removed(t) \in [Token -> LaToken \cup {NoLa, NoRow}]
           /\ \A a : Cleared(a) \in [Token -> LaToken \cup {NoLa, NoRow}]
BY DEF Upserted, Removed, Cleared

LEMMA TypeInit == Init => TypeOK
<1> SUFFICES ASSUME Init PROVE TypeOK
  OBVIOUS
<1>1. sinceUpdate \in 0..Interval /\ age \in [LaToken -> 0..Interval]
  BY PushAssumption DEF Init
<1> QED BY <1>1 DEF Init, TypeOK

LEMMA TypeStep == TypeOK /\ [Next]_vars => TypeOK'
<1> SUFFICES ASSUME TypeOK, [Next]_vars PROVE TypeOK'
  OBVIOUS
<1> USE PushAssumption
<1>1. ASSUME NEW t \in Token, NEW la \in LaToken \cup {NoLa}, Register(t, la) PROVE TypeOK'
  <2>1. row' \in [Token -> LaToken \cup {NoLa, NoRow}]
    BY <1>1, RowTypes DEF Register, TypeOK
  <2> QED BY <1>1, <2>1 DEF Register, TypeOK, loops
<1>2. CASE SendAlert
  BY <1>2 DEF SendAlert, TypeOK
<1>3. ASSUME NEW t \in Token, AlertAnswered(t) PROVE TypeOK'
  <2>1. PICK answer \in Answers(t) :
            /\ alerting' = [alerting EXCEPT ![t] = AfterAlert(t, answer)]
            /\ alerted' = IF answer = "accepted" THEN alerted \cup {t} ELSE alerted
    BY <1>3 DEF AlertAnswered
  <2>2. AfterAlert(t, answer) \in {"no", "retry", "refused"}
    BY DEF AfterAlert
  <2> QED BY <1>3, <2>1, <2>2 DEF AlertAnswered, TypeOK
<1>4. ASSUME NEW t \in Token, AlertRemoves(t) PROVE TypeOK'
  <2>1. row' \in [Token -> LaToken \cup {NoLa, NoRow}]
    BY <1>4, RowTypes DEF AlertRemoves, TypeOK
  <2> QED BY <1>4, <2>1 DEF AlertRemoves, TypeOK
<1>5. CASE EndLiveActivities
  BY <1>5 DEF EndLiveActivities, TypeOK, Activities
<1>6. ASSUME NEW p \in Pair, EndAnswered(p) PROVE TypeOK'
  <2>1. PICK answer \in Answers(p[2]) :
            /\ endRefused' = IF answer = "refused" THEN p[2] ELSE NoLa
            /\ ended' = IF answer = "accepted" THEN ended \cup {p[2]} ELSE ended
    BY <1>6 DEF EndAnswered
  <2>2. p[2] \in LaToken /\ (answer = "refused" => p[2] \in dead)
    BY DEF Pair, Answers
  <2> QED BY <1>6, <2>1, <2>2 DEF EndAnswered, TypeOK
<1>7. CASE EndClears
  <2>1. row' \in [Token -> LaToken \cup {NoLa, NoRow}]
    BY <1>7, RowTypes DEF EndClears, TypeOK
  <2> QED BY <1>7, <2>1 DEF EndClears, TypeOK
<1>8. CASE SendUpdate
  BY <1>8 DEF SendUpdate, TypeOK, Activities
<1>9. ASSUME NEW p \in Pair, UpdateAnswered(p) PROVE TypeOK'
  <2>1. PICK answer \in Answers(p[2]) :
            /\ updateRefused' = IF answer = "refused" THEN p[2] ELSE NoLa
            /\ anySuccess' = (anySuccess \/ answer = "accepted")
            /\ age' = IF answer = "accepted" THEN [age EXCEPT ![p[2]] = 0] ELSE age
    BY <1>9 DEF UpdateAnswered
  <2>2. p[2] \in LaToken /\ (answer = "refused" => p[2] \in dead)
    BY DEF Pair, Answers
  <2>3. 0 \in 0..Interval
    OBVIOUS
  <2>4. sinceUpdate' \in 0..Interval
    BY <1>9, <2>3 DEF UpdateAnswered, Finish, TypeOK
  <2>5. age' \in [LaToken -> 0..Interval]
    BY <2>1, <2>2, <2>3 DEF TypeOK
  <2>6. updateRefused' \in (LaToken \cap dead) \cup {NoLa} /\ anySuccess' \in BOOLEAN
    BY <2>1, <2>2 DEF TypeOK
  <2> QED BY <1>9, <2>4, <2>5, <2>6 DEF UpdateAnswered, TypeOK
<1>10. CASE UpdateClears
  <2>1. row' \in [Token -> LaToken \cup {NoLa, NoRow}]
    BY <1>10, RowTypes DEF UpdateClears, TypeOK
  <2>2. sinceUpdate' \in 0..Interval
    BY <1>10 DEF UpdateClears, Finish, TypeOK
  <2> QED BY <1>10, <2>1, <2>2 DEF UpdateClears, TypeOK
<1>11. ASSUME NEW t \in Token, TestRefused(t) PROVE TypeOK'
  BY <1>11 DEF TestRefused, TypeOK
<1>12. ASSUME NEW t \in Token, TestRemoves(t) PROVE TypeOK'
  <2>1. row' \in [Token -> LaToken \cup {NoLa, NoRow}]
    BY <1>12, RowTypes DEF TestRemoves, TypeOK
  <2> QED BY <1>12, <2>1 DEF TestRemoves, TypeOK
<1>13. ASSUME NEW x \in Token \cup LaToken, Die(x) PROVE TypeOK'
  BY <1>13 DEF Die, TypeOK, loops
<1>14. CASE Tick
  <2>1. sinceUpdate' \in 0..Interval
    BY <1>14 DEF Tick, TypeOK
  <2>2. age' \in [LaToken -> 0..Interval]
    BY <1>14 DEF Tick, TypeOK
  <2> QED BY <1>14, <2>1, <2>2 DEF Tick, TypeOK, loops
<1>15. CASE UNCHANGED vars
  BY <1>15 DEF vars, loops, TypeOK
<1> QED BY <1>1, <1>2, <1>3, <1>4, <1>5, <1>6, <1>7, <1>8, <1>9, <1>10, <1>11, <1>12,
           <1>13, <1>14, <1>15 DEF Next, Registers, AlertGoesOn, EndGoesOn, UpdateGoesOn

\* All variables keep their types; what a loop is about to remove is dead.
THEOREM TypeInvariant == Spec => []TypeOK
BY TypeInit, TypeStep, PTL DEF Spec

-----------------------------------------------------------------------------
(* The inductive invariant. *)

LEMMA InvInit == Init => IInv
<1> SUFFICES ASSUME Init PROVE IInv
  OBVIOUS
<1>1. TypeOK
  BY TypeInit
<1>2. RefusedAreDead /\ NotTwice
  BY DEF Init, RefusedAreDead, NotTwice
<1>3. AgesCount
  BY PushAssumption DEF Init, AgesCount
<1> QED BY <1>1, <1>2, <1>3 DEF IInv

\* A refusal is APNs' own.
LEMMA RefusedStep == IInv /\ [Next]_vars => RefusedAreDead'
<1> SUFFICES ASSUME TypeOK, RefusedAreDead, [Next]_vars PROVE RefusedAreDead'
  BY DEF IInv
<1>1. CASE SendAlert
  BY <1>1 DEF SendAlert, RefusedAreDead
<1>2. ASSUME NEW t \in Token, AlertAnswered(t) PROVE RefusedAreDead'
  <2>1. PICK answer \in Answers(t) : alerting' = [alerting EXCEPT ![t] = AfterAlert(t, answer)]
    BY <1>2 DEF AlertAnswered
  <2>2. AfterAlert(t, answer) = "refused" => t \in dead
    BY DEF AfterAlert, Answers
  <2> QED BY <1>2, <2>1, <2>2 DEF AlertAnswered, RefusedAreDead, TypeOK
<1>3. ASSUME NEW t \in Token, AlertRemoves(t) PROVE RefusedAreDead'
  BY <1>3 DEF AlertRemoves, RefusedAreDead, TypeOK
<1>4. ASSUME NEW x \in Token \cup LaToken, Die(x) PROVE RefusedAreDead'
  BY <1>4 DEF Die, RefusedAreDead, loops
<1>5. ASSUME alerting' = alerting, dead' = dead PROVE RefusedAreDead'
  BY <1>5 DEF RefusedAreDead
<1> QED BY <1>1, <1>2, <1>3, <1>4, <1>5
    DEF Next, Registers, AlertGoesOn, EndGoesOn, UpdateGoesOn, Register, EndLiveActivities,
        EndAnswered, EndClears, SendUpdate, UpdateAnswered, UpdateClears, TestRefused, TestRemoves,
        Tick, vars, loops

LEMMA NotTwiceStep == IInv /\ [Next]_vars => NotTwice'
<1> SUFFICES ASSUME TypeOK, NotTwice, [Next]_vars PROVE NotTwice'
  BY DEF IInv
<1>1. CASE SendAlert
  BY <1>1 DEF SendAlert, NotTwice
<1>2. ASSUME NEW t \in Token, AlertAnswered(t) PROVE NotTwice'
  <2>1. PICK answer \in Answers(t) :
            /\ alerting' = [alerting EXCEPT ![t] = AfterAlert(t, answer)]
            /\ alerted' = IF answer = "accepted" THEN alerted \cup {t} ELSE alerted
    BY <1>2 DEF AlertAnswered
  <2>2. answer = "accepted" => AfterAlert(t, answer) = "no"
    BY DEF AfterAlert
  <2>3. t \notin alerted
    BY <1>2 DEF AlertAnswered, NotTwice
  <2> QED BY <2>1, <2>2, <2>3 DEF NotTwice, TypeOK
<1>3. ASSUME NEW t \in Token, AlertRemoves(t) PROVE NotTwice'
  BY <1>3 DEF AlertRemoves, NotTwice, TypeOK
<1>4. ASSUME alerting' = alerting, alerted' = alerted PROVE NotTwice'
  BY <1>4 DEF NotTwice
<1> QED BY <1>1, <1>2, <1>3, <1>4
    DEF Next, Registers, AlertGoesOn, EndGoesOn, UpdateGoesOn, Register, EndLiveActivities,
        EndAnswered, EndClears, SendUpdate, UpdateAnswered, UpdateClears, TestRefused, TestRemoves,
        Die, Tick, vars, loops

\* A round ends with the interval at its beginning if an update got through,
\* and with every age as it was if none did.
LEMMA AgesStep == IInv /\ [Next]_vars => AgesCount'
<1> SUFFICES ASSUME TypeOK, AgesCount, [Next]_vars PROVE AgesCount'
  BY DEF IInv
<1>0. /\ sinceUpdate \in Nat /\ Interval \in Nat /\ anySuccess \in BOOLEAN
      /\ sinceUpdate <= Interval
      /\ \A a \in LaToken : age[a] \in Nat /\ age[a] <= Interval /\ age[a] >= 0
  <2>1. \A a \in LaToken : age[a] \in 0..Interval
    BY DEF TypeOK
  <2> QED BY <2>1, PushAssumption DEF TypeOK
<1>1. CASE SendUpdate
  BY <1>1 DEF SendUpdate, AgesCount, Quiet
<1>2. ASSUME NEW p \in Pair, UpdateAnswered(p) PROVE AgesCount'
  <2>1. PICK answer \in Answers(p[2]) :
            /\ anySuccess' = (anySuccess \/ answer = "accepted")
            /\ age' = IF answer = "accepted" THEN [age EXCEPT ![p[2]] = 0] ELSE age
    BY <1>2 DEF UpdateAnswered
  <2>2. CASE ~anySuccess'
    <3>1. age' = age /\ ~anySuccess /\ sinceUpdate' = sinceUpdate
      BY <1>2, <2>1, <2>2 DEF UpdateAnswered, Finish
    <3> QED BY <3>1 DEF AgesCount, Quiet
  <2>3. CASE anySuccess' /\ UpdatesIdle'
    <3>1. sinceUpdate' = 0
      BY <1>2, <2>3 DEF UpdateAnswered, Finish, UpdatesIdle
    <3>2. \A a \in LaToken : age'[a] \in Nat
      BY <1>0, <2>1 DEF TypeOK, Pair
    <3> QED BY <3>1, <3>2 DEF AgesCount
  <2>4. CASE anySuccess' /\ ~UpdatesIdle'
    BY <2>4 DEF AgesCount, Quiet
  <2> QED BY <2>2, <2>3, <2>4
<1>3. CASE UpdateClears
  <2>1. CASE ~anySuccess
    <3>1. age' = age /\ sinceUpdate' = sinceUpdate
      BY <1>3, <2>1 DEF UpdateClears, Finish
    <3> QED BY <2>1, <3>1 DEF AgesCount, Quiet
  <2>2. CASE anySuccess /\ UpdatesIdle'
    <3>1. sinceUpdate' = 0 /\ age' = age
      BY <1>3, <2>2 DEF UpdateClears, Finish, UpdatesIdle
    <3> QED BY <1>0, <3>1 DEF AgesCount
  <2>3. CASE anySuccess /\ ~UpdatesIdle'
    BY <1>3, <2>3 DEF UpdateClears, AgesCount, Quiet
  <2> QED BY <1>0, <2>1, <2>2, <2>3
<1>4. CASE Tick
  <2> SUFFICES ASSUME Quiet, NEW a \in LaToken PROVE age'[a] >= sinceUpdate'
    BY <1>4 DEF Tick, loops, AgesCount, Quiet, UpdatesIdle
  <2>1. age[a] >= sinceUpdate
    BY DEF AgesCount
  <2>2. /\ age'[a] = IF age[a] < Interval THEN age[a] + 1 ELSE Interval
        /\ sinceUpdate' = IF sinceUpdate < Interval THEN sinceUpdate + 1 ELSE Interval
    BY <1>4 DEF Tick
  <2>3. age[a] \in Nat /\ age[a] <= Interval
    BY <1>0
  <2> QED BY <1>0, <2>1, <2>2, <2>3
<1>5. ASSUME age' = age, sinceUpdate' = sinceUpdate, updating' = updating,
             updateRefused' = updateRefused, anySuccess' = anySuccess
      PROVE  AgesCount'
  BY <1>5 DEF AgesCount, Quiet, UpdatesIdle
<1> QED BY <1>1, <1>2, <1>3, <1>4, <1>5
    DEF Next, Registers, AlertGoesOn, EndGoesOn, UpdateGoesOn, Register, SendAlert, AlertAnswered,
        AlertRemoves, EndLiveActivities, EndAnswered, EndClears, TestRefused, TestRemoves,
        Die, vars, loops

THEOREM Invariance == Spec => []IInv
<1>1. IInv /\ [Next]_vars => IInv'
  BY TypeStep, RefusedStep, NotTwiceStep, AgesStep DEF IInv
<1> QED BY InvInit, <1>1, PTL DEF Spec

-----------------------------------------------------------------------------
(* The properties of the run. *)

\* A phone that got an alert is not sent it again by the retry.
THEOREM AlertedOnce == Spec => []NotTwice
<1>1. IInv => NotTwice
  BY DEF IInv
<1> QED BY <1>1, Invariance, PTL

\* Every row that is deleted or loses its activity is one that APNs refused,
\* or that its phone registered anew.
THEOREM Dropped == Spec => OnlyRefusedAreDropped
<1> DEFINE A == \A t \in Token :
                   /\ row[t] # NoRow /\ row'[t] = NoRow => t \in dead
                   /\ row[t] \in LaToken /\ row'[t] = NoLa => row[t] \in dead
<1>1. IInv /\ [Next]_vars => [A]_vars
  <2> SUFFICES ASSUME TypeOK, RefusedAreDead, [Next]_vars PROVE A \/ UNCHANGED vars
    BY DEF IInv
  <2> USE PushAssumption
  <2>0. row \in [Token -> LaToken \cup {NoLa, NoRow}]
    BY DEF TypeOK
  <2>1. ASSUME NEW t \in Token, NEW la \in LaToken \cup {NoLa}, Register(t, la) PROVE A
    BY <2>0, <2>1 DEF Register, Upserted
  <2>2. ASSUME NEW t \in Token, t \in dead, row' = Removed(t) PROVE A
    BY <2>0, <2>2 DEF Removed
  <2>3. ASSUME NEW a \in LaToken \cap dead, row' = Cleared(a) PROVE A
    BY <2>0, <2>3 DEF Cleared
  <2>4. ASSUME row' = row PROVE A
    BY <2>4
  <2>5. ASSUME NEW t \in Token, AlertRemoves(t) \/ TestRemoves(t) PROVE A
    <3>1. t \in dead /\ row' = Removed(t)
      BY <2>5 DEF AlertRemoves, TestRemoves, RefusedAreDead, TypeOK
    <3> QED BY <3>1, <2>2
  <2>6. CASE EndClears \/ UpdateClears
    <3>1. \E a \in LaToken \cap dead : row' = Cleared(a)
      BY <2>6 DEF EndClears, UpdateClears, TypeOK
    <3> QED BY <3>1, <2>3
  <2> HIDE DEF A
  <2> QED BY <2>1, <2>4, <2>5, <2>6
      DEF Next, Registers, AlertGoesOn, EndGoesOn, UpdateGoesOn, SendAlert, AlertAnswered,
          EndLiveActivities, EndAnswered, SendUpdate, UpdateAnswered, TestRefused, Die, Tick,
          vars, loops
<1> QED BY <1>1, Invariance, PTL DEF Spec, OnlyRefusedAreDropped

\* A round of updates begins only when every activity's last one is as old
\* as the interval, whichever pushes of the last round succeeded.
THEOREM Throttled == Spec => UpdatesSpaced
<1>1. IInv /\ [Next]_vars => [SendUpdate => \A a \in LaToken : age[a] = Interval]_vars
  <2> SUFFICES ASSUME TypeOK, AgesCount, SendUpdate, NEW a \in LaToken PROVE age[a] = Interval
    BY DEF IInv
  <2>1. age[a] \in 0..Interval /\ sinceUpdate = Interval /\ Quiet
    BY DEF TypeOK, SendUpdate, Quiet
  <2>2. age[a] >= Interval
    BY <2>1 DEF AgesCount
  <2> QED BY <2>1, <2>2, PushAssumption
<1> QED BY <1>1, Invariance, PTL DEF Spec, UpdatesSpaced
=============================================================================
