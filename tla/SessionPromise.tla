---------------------------- MODULE SessionPromise ----------------------------
(***************************************************************************)
(* What the history store promises about the identity of sessions, without *)
(* its tables, its transactions or its process: at any time at most one    *)
(* session is active; a session that stops being active is closed; a new   *)
(* session never takes an id that was used before.  Crashes and restarts   *)
(* are invisible at this level: they leave both variables alone.           *)
(***************************************************************************)
EXTENDS Naturals

CONSTANT MaxSession

Session == 1..MaxSession
NoSession == 0

VARIABLES active,   \* the session a restart would resume, or NoSession
          closed    \* the ids that can never be active again

Init ==
    /\ active \in Session \cup {NoSession}
    /\ closed \in SUBSET (Session \ {active})

Start ==
    /\ active = NoSession
    /\ active' \in Session \ closed
    /\ UNCHANGED closed

Close ==
    /\ active # NoSession
    /\ active' = NoSession
    /\ closed' = closed \cup {active}

Next == Start \/ Close

Spec == Init /\ [][Next]_<<active, closed>>

\* A call of start_session with a session active, where its transactions are
\* not told apart: Close and Start with nothing in between
Replace ==
    /\ active # NoSession
    /\ closed' = closed \cup {active}
    /\ active' \in Session \ closed'

\* What the coroutines around the store see of the promise: whole calls
CallSpec == Init /\ [][Next \/ Replace]_<<active, closed>>

=============================================================================
