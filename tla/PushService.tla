----------------------------- MODULE PushService ------------------------------
(***************************************************************************)
(* The push service, src/service/push/service.py: the registered tokens    *)
(* and the loops that send to all of them, namely the alerts and the ends  *)
(* of Live Activities that broadcast_events asks for, one at a time, the   *)
(* updates of Live Activities that broadcast_readings asks for, and the    *)
(* test push of an HTTP request.                                           *)
(*                                                                         *)
(* Every loop reads the tokens once and then waits for one answer of the   *)
(* Apple push service (APNs) after the other; when that refuses a token,   *)
(* it waits again, for the database.  Phones register at any time.  What a *)
(* push says is left out.                                                  *)
(***************************************************************************)
EXTENDS Naturals, FiniteSets

CONSTANTS Token,        \* device tokens
          LaToken,      \* tokens of Live Activities
          Flaky,        \* the tokens to which a push may fail
          MaxDead,      \* bound on the tokens that APNs comes to refuse
          Interval,     \* _LA_UPDATE_INTERVAL, in ticks
          NoRow, NoLa   \* no row of the token; its live_activity_token IS NULL

ASSUME PushAssumption ==
    /\ Token \cap LaToken = {}
    /\ NoRow \notin LaToken
    /\ NoLa \notin LaToken
    /\ NoRow # NoLa
    /\ MaxDead \in Nat
    /\ Interval \in Nat \ {0}

VARIABLES
    row,            \* the push_tokens table: the live_activity_token of a token
    dead,           \* what APNs refuses as Unregistered or BadDeviceToken
    alerting,       \* the task of send_alert for each token
    ending,         \* end_live_activities: the (token, activity) it has still to send to
    endRefused,     \* ... and the activity whose token it is about to clear
    updating,       \* send_live_activity_update: likewise
    updateRefused,
    anySuccess,
    testRefused,    \* send_test: the token it is about to remove
    sinceUpdate,    \* the age of _last_la_update_ts, up to Interval
    alerted,        \* history: the tokens that got the last alert
    ended,          \* history: the activities that got the last end
    age             \* history: the age of an activity's last update, up to Interval

loops == <<alerting, ending, endRefused, updating, updateRefused, anySuccess, testRefused>>
vars == <<row, dead, loops, sinceUpdate, alerted, ended, age>>

Pair == Token \X LaToken

TypeOK ==
    /\ row \in [Token -> LaToken \cup {NoLa, NoRow}]
    /\ dead \subseteq Token \cup LaToken
    /\ alerting \in [Token -> {"no", "first", "retry", "refused"}]
    /\ ending \subseteq Pair
    /\ endRefused \in (LaToken \cap dead) \cup {NoLa}
    /\ updating \subseteq Pair
    /\ updateRefused \in (LaToken \cap dead) \cup {NoLa}
    /\ anySuccess \in BOOLEAN
    /\ testRefused \subseteq Token \cap dead
    /\ sinceUpdate \in 0..Interval
    /\ alerted \subseteq Token
    /\ ended \subseteq LaToken
    /\ age \in [LaToken -> 0..Interval]

-----------------------------------------------------------------------------
(* Tables. *)

Registered == {t \in Token : row[t] # NoRow}
Activities == {p \in Pair : row[p[1]] = p[2]}

\* Seeded fault of Upserted: INSERT OR REPLACE.
UpsertedOver(t, la) == [row EXCEPT ![t] = la]

\* INSERT ... ON CONFLICT with COALESCE
Upserted(t, la) ==
    [row EXCEPT ![t] = IF la = NoLa /\ @ # NoRow THEN @ ELSE la]

Removed(t) == [row EXCEPT ![t] = NoRow]

\* UPDATE ... WHERE live_activity_token = ?
Cleared(a) == [t \in Token |-> IF row[t] = a THEN NoLa ELSE row[t]]

\* What APNs may answer.  A push may fail with an exception or a permanent
\* error ("failed"), or with a 5xx or unknown status ("unavailable").
Answers(x) ==
    {IF x \in dead THEN "refused" ELSE "accepted"}
        \cup (IF x \in Flaky THEN {"failed", "unavailable"} ELSE {})

-----------------------------------------------------------------------------
(* Registration. *)

\* push_token_handler, upsert_token
Register(t, la) ==
    /\ row' = Upserted(t, la)
    /\ UNCHANGED <<dead, loops, sinceUpdate, alerted, ended, age>>

-----------------------------------------------------------------------------
(* Alerts: one task for each token. *)

\* broadcast_events is in neither send_alert nor end_live_activities.
EventsIdle ==
    /\ \A t \in Token : alerting[t] = "no"
    /\ ending = {}
    /\ endRefused = NoLa

SendAlert ==
    /\ EventsIdle
    /\ Registered # {}
    /\ alerting' = [t \in Token |-> IF t \in Registered THEN "first" ELSE "no"]
    /\ alerted' = {}
    /\ UNCHANGED <<row, dead, ending, endRefused, updating, updateRefused, anySuccess,
                   testRefused, sinceUpdate, ended, age>>

AfterAlert(t, answer) ==
    CASE answer = "refused" -> "refused"
      [] answer = "unavailable" /\ alerting[t] = "first" -> "retry"
      [] OTHER -> "no"

\* Seeded fault of AlertAnswered: the first failure ends them all.
AlertAnsweredTogether(t) ==
    /\ alerting[t] \in {"first", "retry"}
    /\ \E answer \in Answers(t) :
          /\ alerting' = IF answer = "failed" THEN [u \in Token |-> "no"]
                         ELSE [alerting EXCEPT ![t] = AfterAlert(t, answer)]
          /\ alerted' = IF answer = "accepted" THEN alerted \cup {t} ELSE alerted
    /\ UNCHANGED <<row, dead, ending, endRefused, updating, updateRefused, anySuccess,
                   testRefused, sinceUpdate, ended, age>>

AlertAnswered(t) ==
    /\ alerting[t] \in {"first", "retry"}
    /\ \E answer \in Answers(t) :
          /\ alerting' = [alerting EXCEPT ![t] = AfterAlert(t, answer)]
          /\ alerted' = IF answer = "accepted" THEN alerted \cup {t} ELSE alerted
    /\ UNCHANGED <<row, dead, ending, endRefused, updating, updateRefused, anySuccess,
                   testRefused, sinceUpdate, ended, age>>

AlertRemoves(t) ==
    /\ alerting[t] = "refused"
    /\ row' = Removed(t)
    /\ alerting' = [alerting EXCEPT ![t] = "no"]
    /\ UNCHANGED <<dead, ending, endRefused, updating, updateRefused, anySuccess,
                   testRefused, sinceUpdate, alerted, ended, age>>

-----------------------------------------------------------------------------
(* The end of all Live Activities, one after the other. *)

EndLiveActivities ==
    /\ EventsIdle
    /\ Activities # {}
    /\ ending' = Activities
    /\ ended' = {}
    /\ UNCHANGED <<row, dead, alerting, endRefused, updating, updateRefused, anySuccess,
                   testRefused, sinceUpdate, alerted, age>>

EndAnswered(p) ==
    /\ p \in ending
    /\ endRefused = NoLa
    /\ ending' = ending \ {p}
    /\ \E answer \in Answers(p[2]) :
          /\ endRefused' = IF answer = "refused" THEN p[2] ELSE NoLa
          /\ ended' = IF answer = "accepted" THEN ended \cup {p[2]} ELSE ended
    /\ UNCHANGED <<row, dead, alerting, updating, updateRefused, anySuccess, testRefused,
                   sinceUpdate, alerted, age>>

EndClears ==
    /\ endRefused # NoLa
    /\ row' = Cleared(endRefused)
    /\ endRefused' = NoLa
    /\ UNCHANGED <<dead, alerting, ending, updating, updateRefused, anySuccess,
                   testRefused, sinceUpdate, alerted, ended, age>>

-----------------------------------------------------------------------------
(* The update of all Live Activities, one after the other. *)

UpdatesIdle == updating = {} /\ updateRefused = NoLa

\* should_send_la_update, and the beginning of send_live_activity_update
SendUpdate ==
    /\ UpdatesIdle
    /\ sinceUpdate = Interval
    /\ Activities # {}
    /\ updating' = Activities
    /\ anySuccess' = FALSE
    /\ UNCHANGED <<row, dead, alerting, ending, endRefused, updateRefused, testRefused,
                   sinceUpdate, alerted, ended, age>>

\* Seeded fault of Finish: forgotten after a removal.
FinishUnlessCleared ==
    sinceUpdate' = IF updating' = {} /\ updateRefused' = NoLa /\ updateRefused = NoLa /\ anySuccess'
                   THEN 0 ELSE sinceUpdate

\* After the last activity the interval begins, if any push succeeded.
Finish == sinceUpdate' = IF updating' = {} /\ updateRefused' = NoLa /\ anySuccess' THEN 0 ELSE sinceUpdate

\* Seeded fault of UpdateAnswered: the first failure ends the loop.
UpdateAnsweredGivesUp(p) ==
    /\ p \in updating
    /\ updateRefused = NoLa
    /\ \E answer \in Answers(p[2]) :
          /\ updating' = IF answer = "failed" THEN {} ELSE updating \ {p}
          /\ updateRefused' = IF answer = "refused" THEN p[2] ELSE NoLa
          /\ anySuccess' = (anySuccess \/ answer = "accepted")
          /\ age' = IF answer = "accepted" THEN [age EXCEPT ![p[2]] = 0] ELSE age
    /\ Finish
    /\ UNCHANGED <<row, dead, alerting, ending, endRefused, testRefused, alerted, ended>>

UpdateAnswered(p) ==
    /\ p \in updating
    /\ updateRefused = NoLa
    /\ updating' = updating \ {p}
    /\ \E answer \in Answers(p[2]) :
          /\ updateRefused' = IF answer = "refused" THEN p[2] ELSE NoLa
          /\ anySuccess' = (anySuccess \/ answer = "accepted")
          /\ age' = IF answer = "accepted" THEN [age EXCEPT ![p[2]] = 0] ELSE age
    /\ Finish
    /\ UNCHANGED <<row, dead, alerting, ending, endRefused, testRefused, alerted, ended>>

UpdateClears ==
    /\ updateRefused # NoLa
    /\ row' = Cleared(updateRefused)
    /\ updateRefused' = NoLa
    /\ UNCHANGED <<updating, anySuccess>>
    /\ Finish
    /\ UNCHANGED <<dead, alerting, ending, endRefused, testRefused, alerted, ended, age>>

-----------------------------------------------------------------------------
(* The test push changes something only when a token is refused. *)

\* The loop of send_test gets to a token that was registered.
TestRefused(t) ==
    /\ testRefused = {}
    /\ t \in dead
    /\ testRefused' = {t}
    /\ UNCHANGED <<row, dead, alerting, ending, endRefused, updating, updateRefused, anySuccess,
                   sinceUpdate, alerted, ended, age>>

TestRemoves(t) ==
    /\ t \in testRefused
    /\ row' = Removed(t)
    /\ testRefused' = {}
    /\ UNCHANGED <<dead, alerting, ending, endRefused, updating, updateRefused, anySuccess,
                   sinceUpdate, alerted, ended, age>>

-----------------------------------------------------------------------------
(* The surroundings. *)

\* An app is removed, or an activity is over for its phone.
Die(x) ==
    /\ Cardinality(dead) < MaxDead
    /\ dead' = dead \cup {x}
    /\ UNCHANGED <<row, loops, sinceUpdate, alerted, ended, age>>

Tick ==
    /\ sinceUpdate' = IF sinceUpdate < Interval THEN sinceUpdate + 1 ELSE Interval
    /\ age' = [a \in LaToken |-> IF age[a] < Interval THEN age[a] + 1 ELSE Interval]
    /\ UNCHANGED <<row, dead, loops, alerted, ended>>

Init ==
    /\ row = [t \in Token |-> NoRow]
    /\ dead = {}
    /\ alerting = [t \in Token |-> "no"]
    /\ ending = {} /\ endRefused = NoLa
    /\ updating = {} /\ updateRefused = NoLa /\ anySuccess = FALSE
    /\ testRefused = {}
    /\ sinceUpdate = Interval
    /\ alerted = {}
    /\ ended = {}
    /\ age = [a \in LaToken |-> Interval]

Registers == \E t \in Token, la \in LaToken \cup {NoLa} : Register(t, la)
AlertGoesOn(t) == AlertAnswered(t) \/ AlertRemoves(t)
EndGoesOn == (\E p \in Pair : EndAnswered(p)) \/ EndClears
UpdateGoesOn == (\E p \in Pair : UpdateAnswered(p)) \/ UpdateClears

Next ==
    \/ Registers
    \/ SendAlert
    \/ \E t \in Token : AlertGoesOn(t)
    \/ EndLiveActivities
    \/ EndGoesOn
    \/ SendUpdate
    \/ UpdateGoesOn
    \/ \E t \in Token : TestRefused(t) \/ TestRemoves(t)
    \/ \E x \in Token \cup LaToken : Die(x)
    \/ Tick

\* A push is answered or fails in the end, the database too, and a loop
\* waits for nothing else.  Readings keep coming, and time passes.
Fairness ==
    /\ \A t \in Token : WF_vars(AlertGoesOn(t))
    /\ WF_vars(EndGoesOn)
    /\ WF_vars(UpdateGoesOn)
    /\ WF_vars(SendUpdate)
    /\ WF_vars(Tick)

Spec == Init /\ [][Next]_vars /\ Fairness

-----------------------------------------------------------------------------
(* Properties. *)

\* A registration, and the activity of a phone, are lost only because APNs
\* refused that very token, or because the phone registers a newer activity.
OnlyRefusedAreDropped ==
    [][\A t \in Token :
          /\ row[t] # NoRow /\ row'[t] = NoRow => t \in dead
          /\ row[t] \in LaToken /\ row'[t] = NoLa => row[t] \in dead]_vars

\* An alert a phone has got is not on its way to it again.
NotTwice == \A t \in alerted : alerting[t] \notin {"first", "retry"}

\* No activity gets an update, in the next round, before the interval since
\* its last one has passed.
UpdatesSpaced == [][SendUpdate => \A a \in LaToken : age[a] = Interval]_vars

\* An alert reaches every healthy phone that was registered, and the end of
\* a session every healthy activity, whatever becomes of the pushes to others.
HealthyAreReached ==
    /\ \A t \in Token \ Flaky : alerting[t] = "first" ~> (t \in alerted \/ t \in dead)
    /\ \A a \in LaToken \ Flaky :
          (\E t \in Token : <<t, a>> \in ending) ~> (a \in ended \/ a \in dead)

\* A healthy activity that stays registered is updated again and again.
UpdatesGoOn ==
    \A a \in LaToken \ Flaky :
        (\E t \in Token : row[t] = a)
            ~> (age[a] < Interval \/ a \in dead \/ \A t \in Token : row[t] # a)

=============================================================================
