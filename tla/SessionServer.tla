---------------------------- MODULE SessionServer -----------------------------
(***************************************************************************)
(* The coroutines that share the history store: the WebSocket handlers of  *)
(* src/service/api/websocket.py, one at a time per client, and the device  *)
(* workers of src/service/ble/device_worker.py, together with the alert    *)
(* evaluator's targets and the lifecycle events they publish.              *)
(*                                                                         *)
(* A call of the store runs under its lock and is one step; what follows   *)
(* the call up to the next await that can yield belongs to the same step.  *)
(* Between two calls of one coroutine any other may run, so the session a  *)
(* coroutine read at its first call may be over at its second.             *)
(*                                                                         *)
(* The store is reduced to what the coroutines tell apart; HistoryStore    *)
(* has its transactions.  Here an open transaction is one whose first      *)
(* statement failed, so that it holds no change, or one that failed in the *)
(* middle of a target list.  Such a list is visible at once, is committed  *)
(* by the next write of anyone, and is taken back by the next explicit     *)
(* BEGIN, which fails and rolls back.                                      *)
(***************************************************************************)
EXTENDS Naturals, FiniteSets

CONSTANTS MaxSession,   \* bound on the session ids ever issued
          Client,       \* WebSocket connections
          Device,       \* BLE addresses
          InRange,      \* the devices whose BLE link can come up
          Setting,      \* target lists a client may set on a device
          MaxCrash      \* bound on the crashes of the process

ASSUME ServerAssumption ==
    /\ MaxSession \in Nat
    /\ MaxCrash \in Nat
    /\ InRange \subseteq Device
    /\ "none" \notin Setting

Session == 1..MaxSession
NoSession == 0
NoSetting == "none"
NoTargets == [d \in Device |-> NoSetting]
TargetMap == [Device -> Setting \cup {NoSetting}]

VARIABLES
    row,        \* sessions: "absent", "open" or "ended"
    member,     \* session_devices: "none", "in" or "left"
    targets,    \* session_targets, as the connection sees them
    durable,    \* session_targets, as of the last commit
    readings,   \* the devices a session has readings of
    current,    \* _current_session_id
    issued,     \* number of session ids issued so far
    failedTxn,  \* a failed statement left a transaction open
    armed,      \* AlertEvaluator._targets
    req,        \* the handler a client has in progress
    worker,     \* the device workers
    shown,      \* the session a browser shows that follows the broadcasts
    over,       \* history: broadcasts that a session is over
    lost,       \* history: sessions whose end nobody is left to broadcast
    garbled,    \* history: the broadcasts of the last change of the active
                \* session met another handler's, or were lost
    halfDone,   \* history: the devices of the active session whose target list
                \* a handler that failed changed, and none has loaded since
    crashes     \* history: number of crashes

store == <<row, member, targets, durable, readings, current, issued, failedTxn>>
told == <<shown, over, lost, garbled>>
vars == <<row, member, targets, durable, readings, current, issued, failedTxn, armed, req,
          worker, shown, over, lost, garbled, halfDone, crashes>>

\* A handler between two of its awaits, and a worker between two of its.
Stage == {"idle", "saving", "loading", "announcing", "ending", "writing", "reloading", "adding"}
Between == {"down", "polling", "leaving"}           \* no session in hand
WorkStage == {"rejoining", "rejoin", "checking", "recording", "leave check", "leave"}

Request(at, s, prior, setting, todo) ==
    [at |-> at, session |-> s, prior |-> prior, setting |-> setting, todo |-> todo]
Idle == Request("idle", NoSession, NoSession, NoSetting, {})
Work(at, s) == [at |-> at, session |-> s]

TypeOK ==
    /\ row \in [Session -> {"absent", "open", "ended"}]
    /\ member \in [Session -> [Device -> {"none", "in", "left"}]]
    /\ targets \in [Session -> TargetMap]
    /\ durable \in [Session -> TargetMap]
    /\ readings \in [Session -> SUBSET Device]
    /\ current \in Session \cup {NoSession}
    /\ issued \in 0..MaxSession
    /\ failedTxn \in BOOLEAN
    /\ armed \in [Session -> TargetMap]
    /\ req \in [Client ->
           [at : Stage, session : Session \cup {NoSession}, prior : Session \cup {NoSession},
            setting : Setting \cup {NoSetting}, todo : SUBSET Device]]
    /\ worker \in [Device -> [at : Between, session : {NoSession}]
                             \cup [at : WorkStage, session : Session]]
    /\ shown \in Session \cup {NoSession}
    /\ over \in [Session -> Nat]
    /\ lost \in SUBSET Session
    /\ garbled \in BOOLEAN
    /\ halfDone \in SUBSET Device
    /\ crashes \in 0..MaxCrash

-----------------------------------------------------------------------------
(* Building blocks. *)

Exists(s) == row[s] # "absent"
Becomes(c, r) == req' = [req EXCEPT ![c] = r]

\* A handler's exception closes its connection and nothing else.
Dies(c) == Becomes(c, Idle)

\* The connection: a method of the store succeeds and leaves target lists t,
\* a method fails and leaves t in an open transaction, a BEGIN fails.
Commit(t) == targets' = t /\ durable' = t /\ failedTxn' = FALSE
Abandon(t) == targets' = t /\ failedTxn' = TRUE /\ UNCHANGED durable
Rollback == targets' = durable /\ failedTxn' = FALSE /\ UNCHANGED durable

\* Seeded fault of Clear: the evaluator is emptied.
ClearAll(s) == armed' = [r \in Session |-> NoTargets]

\* evaluator.clear_session, and the broadcast that session s is over
Clear(s) == armed' = [armed EXCEPT ![s] = NoTargets]
AnnounceOver(s) ==
    /\ over' = [over EXCEPT ![s] = @ + 1]
    /\ shown' = NoSession

\* Clearing and announcing the session that start_session ended, if any.
CloseOff(prior) ==
    IF prior = NoSession THEN UNCHANGED <<armed, over, shown>>
    ELSE Clear(prior) /\ AnnounceOver(prior)

\* The session whose end the handler of c still has to announce, if any
Owed(c) == IF req[c].at = "ending" THEN req[c].session ELSE req[c].prior

\* The handler of c has a change of the active session to announce.
Owes(c) == req[c].at \in {"saving", "loading", "announcing", "ending"}

\* The handler of c changes the active session.
ChangesSession(c) ==
    /\ garbled' = (\E o \in Client \ {c} : Owes(o))
    /\ halfDone' = {}

\* A handler fails and leaves lists of session s changed for devices D, or
\* loads the lists, of which those not committed may still be taken back.
Strands(s, D) == halfDone' = IF s = current THEN halfDone \cup D ELSE halfDone
Loads(s) ==
    halfDone' = IF s = current THEN {d \in halfDone : durable[s][d] # targets[s][d]}
                ELSE halfDone

-----------------------------------------------------------------------------
(* session_start_request: start_session, save_targets for each device,     *)
(* get_targets and set_targets, the end of the previous session, then      *)
(* get_targets_by_device and the session_start broadcast.                  *)

RequestStart(c, devices, setting) ==
    LET s == issued + 1 IN
    /\ req[c].at = "idle"
    /\ issued < MaxSession
    /\ issued' = s
    /\ row' = [r \in Session |-> IF r = s THEN "open"
                                 ELSE IF r = current THEN "ended" ELSE row[r]]
    /\ member' = [member EXCEPT ![s] = [d \in Device |-> IF d \in devices THEN "in" ELSE "none"]]
    /\ current' = s
    /\ Commit(targets)
    /\ ChangesSession(c)
    /\ IF setting = NoSetting
       THEN /\ CloseOff(current)
            /\ Becomes(c, Request("announcing", s, NoSession, NoSetting, {}))
       ELSE /\ Becomes(c, Request("saving", s, current, setting, devices))
            /\ UNCHANGED <<armed, over, shown>>
    /\ UNCHANGED <<readings, lost, worker, crashes>>

\* start_session raises at its INSERT, of a duration that SQLite cannot hold
\* for one: the end of the active session is committed by then, and is not
\* announced.
RequestStartFails(c) ==
    /\ req[c].at = "idle"
    /\ Dies(c)
    /\ current' = NoSession
    /\ targets' = targets
    /\ failedTxn' = TRUE
    /\ IF current = NoSession THEN UNCHANGED <<row, durable, lost, garbled>>
       ELSE /\ row' = [row EXCEPT ![current] = "ended"]
            /\ durable' = targets
            /\ lost' = lost \cup {current}
            /\ garbled' = TRUE
    /\ halfDone' = {}
    /\ UNCHANGED <<member, readings, issued, armed, worker, shown, over, crashes>>

\* A session discarded since violates the foreign key.
SaveTargets(c, d) ==
    LET r == req[c] IN
    /\ r.at = "saving"
    /\ d \in r.todo
    /\ IF Exists(r.session)
       THEN /\ Commit([targets EXCEPT ![r.session][d] = r.setting])
            /\ Becomes(c, Request(IF r.todo = {d} THEN "loading" ELSE "saving",
                                  r.session, r.prior, r.setting, r.todo \ {d}))
            /\ UNCHANGED lost
       ELSE /\ Abandon(targets)
            /\ Dies(c)
            /\ lost' = lost \cup ({r.prior} \ {NoSession})
    /\ UNCHANGED <<row, member, readings, current, issued, armed, worker, shown, over,
                   garbled, halfDone, crashes>>

\* save_targets raises in the middle of the list of device d, at a value that
\* SQLite cannot hold: half of it is there, the devices before d have theirs,
\* and the handler neither loads them nor announces anything.
SaveTargetsFails(c, d, half) ==
    LET r == req[c] IN
    /\ r.at = "saving"
    /\ d \in r.todo
    /\ half # r.setting
    /\ Exists(r.session)
    /\ Abandon([targets EXCEPT ![r.session][d] = half])
    /\ Dies(c)
    /\ Strands(r.session, Device \ (r.todo \ {d}))
    /\ lost' = lost \cup ({r.prior} \ {NoSession})
    /\ garbled' = TRUE
    /\ UNCHANGED <<row, member, readings, current, issued, armed, worker, shown, over, crashes>>

\* Seeded fault of LoadTargets: the handler arms its own list instead of
\* what the store has by now.
LoadOwnTargets(c) ==
    LET r == req[c] IN
    /\ r.at = "loading"
    /\ armed' = [s \in Session |->
          IF s = r.prior THEN NoTargets
          ELSE IF s = r.session
          THEN [d \in Device |-> IF member[s][d] = "none" THEN NoSetting ELSE r.setting]
          ELSE armed[s]]
    /\ IF r.prior = NoSession THEN UNCHANGED <<over, shown>> ELSE AnnounceOver(r.prior)
    /\ Loads(r.session)
    /\ Becomes(c, Request("announcing", r.session, NoSession, NoSetting, {}))
    /\ UNCHANGED <<store, lost, garbled, worker, crashes>>

LoadTargets(c) ==
    LET r == req[c] IN
    /\ r.at = "loading"
    /\ armed' = [s \in Session |-> IF s = r.prior THEN NoTargets
                                   ELSE IF s = r.session THEN targets[s] ELSE armed[s]]
    /\ IF r.prior = NoSession THEN UNCHANGED <<over, shown>> ELSE AnnounceOver(r.prior)
    /\ Loads(r.session)
    /\ Becomes(c, Request("announcing", r.session, NoSession, NoSetting, {}))
    /\ UNCHANGED <<store, lost, garbled, worker, crashes>>

AnnounceStart(c) ==
    /\ req[c].at = "announcing"
    /\ shown' = req[c].session
    /\ Becomes(c, Idle)
    /\ UNCHANGED <<store, armed, worker, over, lost, garbled, halfDone, crashes>>

-----------------------------------------------------------------------------
(* session_end_request: end_session, whose downsampling awaits, then the   *)
(* clearing and the broadcast; session_discard_request does not await      *)
(* after discard_current_session.                                          *)

RequestEnd(c) ==
    /\ req[c].at = "idle"
    /\ current # NoSession
    /\ row' = [row EXCEPT ![current] = "ended"]
    /\ current' = NoSession
    /\ Commit(targets)
    /\ ChangesSession(c)
    /\ Becomes(c, Request("ending", current, NoSession, NoSetting, {}))
    /\ UNCHANGED <<member, readings, issued, armed, worker, shown, over, lost, crashes>>

\* A pass of the downsampling begins inside an open transaction: its BEGIN
\* fails, it rolls back, and end_session goes on without it.
DownsampleFails(c) ==
    /\ req[c].at = "ending"
    /\ failedTxn
    /\ Rollback
    /\ UNCHANGED <<row, member, readings, current, issued, armed, req, worker, told, halfDone,
                   crashes>>

\* Seeded fault of AnnounceEnd: nothing is published.
AnnounceEndSilent(c) ==
    /\ req[c].at = "ending"
    /\ Clear(req[c].session)
    /\ Becomes(c, Idle)
    /\ UNCHANGED <<store, told, halfDone, worker, crashes>>

AnnounceEnd(c) ==
    /\ req[c].at = "ending"
    /\ Clear(req[c].session)
    /\ AnnounceOver(req[c].session)
    /\ Becomes(c, Idle)
    /\ UNCHANGED <<store, lost, garbled, halfDone, worker, crashes>>

\* Seeded fault of RequestDiscard: the session stays current.
RequestDiscardKeeps(c) ==
    /\ req[c].at = "idle"
    /\ current # NoSession
    /\ ~failedTxn
    /\ row' = [row EXCEPT ![current] = "absent"]
    /\ Clear(current)
    /\ AnnounceOver(current)
    /\ ChangesSession(c)
    /\ UNCHANGED <<member, targets, durable, readings, current, issued, failedTxn, req, worker,
                   lost, crashes>>

\* The explicit BEGIN fails inside an open transaction.
RequestDiscard(c) ==
    /\ req[c].at = "idle"
    /\ current # NoSession
    /\ IF failedTxn
       THEN /\ Rollback
            /\ Dies(c)
            /\ UNCHANGED <<row, member, readings, current, armed, shown, over, garbled, halfDone>>
       ELSE /\ row' = [row EXCEPT ![current] = "absent"]
            /\ member' = [member EXCEPT ![current] = [d \in Device |-> "none"]]
            /\ Commit([targets EXCEPT ![current] = NoTargets])
            /\ readings' = [readings EXCEPT ![current] = {}]
            /\ current' = NoSession
            /\ Clear(current)
            /\ AnnounceOver(current)
            /\ ChangesSession(c)
            /\ UNCHANGED req
    /\ UNCHANGED <<issued, lost, worker, crashes>>

-----------------------------------------------------------------------------
(* target_update_request: get_session_state, update_targets, get_targets   *)
(* and set_targets.  session_add_device_request: get_session_state and     *)
(* add_device_to_session.                                                  *)

RequestTargetUpdate(c, d, setting) ==
    /\ req[c].at = "idle"
    /\ current # NoSession
    /\ Becomes(c, Request("writing", current, NoSession, setting, {d}))
    /\ UNCHANGED <<store, armed, worker, told, halfDone, crashes>>

\* The target lists with x as the list of every device of set D in session s
WithList(s, D, x) ==
    [targets EXCEPT ![s] = [d \in Device |-> IF d \in D THEN x ELSE @[d]]]

\* A session discarded since violates the foreign key, unless the list is
\* empty, which inserts nothing.
WriteTargets(c) ==
    LET r == req[c] IN
    /\ r.at = "writing"
    /\ IF Exists(r.session) \/ r.setting = NoSetting
       THEN /\ Commit(WithList(r.session, r.todo, r.setting))
            /\ Becomes(c, Request("reloading", r.session, NoSession, NoSetting, {}))
       ELSE Abandon(targets) /\ Dies(c)
    /\ UNCHANGED <<row, member, readings, current, issued, armed, worker, told, halfDone, crashes>>

\* update_targets raises after its DELETE and some of its INSERTs, at a probe
\* that the list names twice for one: half of the list is there, and the
\* handler does not get to set_targets.
WriteTargetsFails(c, half) ==
    LET r == req[c] IN
    /\ r.at = "writing"
    /\ r.setting # NoSetting
    /\ half # r.setting
    /\ Exists(r.session)
    /\ Abandon(WithList(r.session, r.todo, half))
    /\ Dies(c)
    /\ Strands(r.session, r.todo)
    /\ UNCHANGED <<row, member, readings, current, issued, armed, worker, told, crashes>>

ReloadTargets(c) ==
    LET s == req[c].session IN
    /\ req[c].at = "reloading"
    /\ armed' = [armed EXCEPT ![s] = targets[s]]
    /\ Loads(s)
    /\ Becomes(c, Idle)
    /\ UNCHANGED <<store, worker, told, crashes>>

RequestAddDevice(c, d) ==
    /\ req[c].at = "idle"
    /\ current # NoSession
    /\ Becomes(c, Request("adding", current, NoSession, NoSetting, {d}))
    /\ UNCHANGED <<store, armed, worker, told, halfDone, crashes>>

\* INSERT OR IGNORE: a device that left stays left
WriteMember(c) ==
    LET r == req[c] IN
    /\ r.at = "adding"
    /\ IF Exists(r.session)
       THEN /\ member' = [member EXCEPT ![r.session] =
                   [d \in Device |-> IF d \in r.todo /\ @[d] = "none" THEN "in" ELSE @[d]]]
            /\ Commit(targets)
       ELSE Abandon(targets) /\ UNCHANGED member
    /\ Becomes(c, Idle)
    /\ UNCHANGED <<row, readings, current, issued, armed, worker, told, halfDone, crashes>>

\* The store's other writes of session s, of its timers and notes: they commit
\* what was left open, or violate the foreign key.
WriteElsewhere(s) ==
    /\ IF Exists(s) THEN Commit(targets) ELSE Abandon(targets)
    /\ UNCHANGED <<row, member, readings, current, issued, armed, req, worker, told, halfDone,
                   crashes>>

-----------------------------------------------------------------------------
(* The worker of device d.                                                 *)

Works(d, at, s) == worker' = [worker EXCEPT ![d] = Work(at, s)]
InSession(d) == current # NoSession /\ member[current][d] = "in"    \* is_device_in_session

\* run, up to get_current_session_id: connected and authenticated
Connect(d) ==
    /\ worker[d].at = "down"
    /\ IF current = NoSession THEN Works(d, "polling", NoSession) ELSE Works(d, "rejoining", current)
    /\ UNCHANGED <<store, armed, req, told, halfDone, crashes>>

RejoinCheck(d) ==
    /\ worker[d].at = "rejoining"
    /\ IF InSession(d) THEN Works(d, "rejoin", worker[d].session) ELSE Works(d, "polling", NoSession)
    /\ UNCHANGED <<store, armed, req, told, halfDone, crashes>>

\* device_rejoined_session
Rejoin(d) ==
    LET s == worker[d].session IN
    /\ worker[d].at = "rejoin"
    /\ member' = [member EXCEPT ![s][d] = IF @ = "none" THEN @ ELSE "in"]
    /\ Commit(targets)
    /\ Works(d, "polling", NoSession)
    /\ UNCHANGED <<row, readings, current, issued, armed, req, told, halfDone, crashes>>

\* A connection attempt fails, which also is a way to leave.
ConnectFails(d) ==
    /\ worker[d].at = "down"
    /\ Works(d, "leaving", NoSession)
    /\ UNCHANGED <<store, armed, req, told, halfDone, crashes>>

\* _poll_loop: the metrics are read and get_session_state is called
Poll(d) ==
    /\ worker[d].at = "polling"
    /\ current # NoSession
    /\ Works(d, "checking", current)
    /\ UNCHANGED <<store, armed, req, told, halfDone, crashes>>

Check(d) ==
    /\ worker[d].at = "checking"
    /\ IF InSession(d) THEN Works(d, "recording", worker[d].session) ELSE Works(d, "polling", NoSession)
    /\ UNCHANGED <<store, armed, req, told, halfDone, crashes>>

\* Seeded fault of Record: the exception leaves the worker hanging.
RecordHangs(d) ==
    LET s == worker[d].session IN
    /\ worker[d].at = "recording"
    /\ Exists(s)
    /\ readings' = [readings EXCEPT ![s] = @ \cup {d}]
    /\ Commit(targets)
    /\ Works(d, "polling", NoSession)
    /\ UNCHANGED <<row, member, current, issued, armed, req, told, halfDone, crashes>>

\* record_reading: a session discarded since violates the foreign key, and
\* the worker goes through its error path
Record(d) ==
    LET s == worker[d].session IN
    /\ worker[d].at = "recording"
    /\ IF Exists(s)
       THEN /\ readings' = [readings EXCEPT ![s] = @ \cup {d}]
            /\ Commit(targets)
            /\ Works(d, "polling", NoSession)
       ELSE Abandon(targets) /\ Works(d, "leaving", NoSession) /\ UNCHANGED readings
    /\ UNCHANGED <<row, member, current, issued, armed, req, told, halfDone, crashes>>

\* the BLE link drops
Disconnect(d) ==
    /\ worker[d].at = "polling"
    /\ Works(d, "leaving", NoSession)
    /\ UNCHANGED <<store, armed, req, told, halfDone, crashes>>

\* get_current_session_id, is_device_in_session and device_left_session
Leave(d) ==
    LET s == worker[d].session IN
    /\ \/ /\ worker[d].at = "leaving"
          /\ IF current = NoSession THEN Works(d, "down", NoSession)
             ELSE Works(d, "leave check", current)
          /\ UNCHANGED <<member, targets, durable, failedTxn>>
       \/ /\ worker[d].at = "leave check"
          /\ IF InSession(d) THEN Works(d, "leave", s) ELSE Works(d, "down", NoSession)
          /\ UNCHANGED <<member, targets, durable, failedTxn>>
       \/ /\ worker[d].at = "leave"
          /\ member' = [member EXCEPT ![s][d] = IF @ = "none" THEN @ ELSE "left"]
          /\ Commit(targets)
          /\ Works(d, "down", NoSession)
    /\ UNCHANGED <<row, readings, current, issued, armed, req, told, halfDone, crashes>>

-----------------------------------------------------------------------------
(* The process.  Recovery makes the open session current again with all    *)
(* its devices, rehydrate_alert_evaluator loads its targets, and a browser *)
(* that reconnects is told by a status message.                            *)

Restart ==
    /\ crashes < MaxCrash
    /\ crashes' = crashes + 1
    /\ member' = [s \in Session |-> [d \in Device |->
                     IF s = current /\ member[s][d] = "left" THEN "in" ELSE member[s][d]]]
    /\ Rollback
    /\ armed' = [s \in Session |-> IF s = current THEN durable[s] ELSE NoTargets]
    /\ req' = [c \in Client |-> Idle]
    /\ worker' = [d \in Device |-> Work("down", NoSession)]
    /\ shown' = current
    /\ lost' = lost \cup ({Owed(c) : c \in Client} \ {NoSession})
    /\ garbled' = FALSE
    /\ halfDone' = {}
    /\ UNCHANGED <<row, readings, current, issued, over>>

-----------------------------------------------------------------------------
Init ==
    /\ row = [s \in Session |-> "absent"]
    /\ member = [s \in Session |-> [d \in Device |-> "none"]]
    /\ targets = [s \in Session |-> NoTargets]
    /\ durable = targets
    /\ readings = [s \in Session |-> {}]
    /\ current = NoSession
    /\ issued = 0
    /\ failedTxn = FALSE
    /\ armed = [s \in Session |-> NoTargets]
    /\ req = [c \in Client |-> Idle]
    /\ worker = [d \in Device |-> Work("down", NoSession)]
    /\ shown = NoSession
    /\ over = [s \in Session |-> 0]
    /\ lost = {}
    /\ garbled = FALSE
    /\ halfDone = {}
    /\ crashes = 0

\* Without an active session every request but a start is refused with
\* no_active_session.
Refuse(c) ==
    /\ req[c].at = "idle"
    /\ current = NoSession
    /\ UNCHANGED vars

NewRequest(c) ==
    \/ \E devices \in SUBSET Device \ {{}}, x \in Setting \cup {NoSetting} :
          RequestStart(c, devices, x)
    \/ RequestStartFails(c)
    \/ RequestEnd(c)
    \/ RequestDiscard(c)
    \/ \E d \in Device, x \in Setting \cup {NoSetting} : RequestTargetUpdate(c, d, x)
    \/ \E d \in Device : RequestAddDevice(c, d)
    \/ Refuse(c)

Continue(c) ==
    \/ \E d \in Device : SaveTargets(c, d)
    \/ \E d \in Device, half \in Setting \cup {NoSetting} : SaveTargetsFails(c, d, half)
    \/ LoadTargets(c)
    \/ AnnounceStart(c)
    \/ AnnounceEnd(c)
    \/ WriteTargets(c)
    \/ \E half \in Setting \cup {NoSetting} : WriteTargetsFails(c, half)
    \/ ReloadTargets(c)
    \/ WriteMember(c)

WorkerStep(d) ==
    \/ Connect(d)
    \/ RejoinCheck(d)
    \/ Rejoin(d)
    \/ Poll(d)
    \/ Check(d)
    \/ Record(d)
    \/ Leave(d)

Next ==
    \/ \E c \in Client : NewRequest(c)
    \/ \E c \in Client : Continue(c)
    \/ \E c \in Client : DownsampleFails(c)
    \/ \E s \in 1..issued : WriteElsewhere(s)
    \/ \E d \in InRange : WorkerStep(d)
    \/ \E d \in InRange : ConnectFails(d) \/ Disconnect(d)
    \/ Restart

\* The event loop runs every coroutine that can go on; nothing makes a
\* client ask or a BLE link drop.
Fairness ==
    /\ \A c \in Client : WF_vars(Continue(c))
    /\ \A d \in InRange : WF_vars(WorkerStep(d))

Spec == Init /\ [][Next]_vars /\ Fairness

-----------------------------------------------------------------------------
(* Properties. *)

\* No handler still has to do something to session s.
Settled(s) == \A c \in Client : req[c].session # s

\* Once no handler is at work on the active session, the evaluator watches
\* for exactly the targets the database has, whatever the order in which
\* concurrent edits wrote and reloaded them, failed, committed or took back
\* each other's lists.  Only the list of a device at which a handler failed
\* half-way is watched as it was until a handler loads the targets again.
ArmedAsStored ==
    current # NoSession /\ Settled(current) =>
        \A d \in Device :
            armed[current][d] = targets[current][d] \/ d \in halfDone

\* The alarms of a session that goes on are never silenced: ending, clearing
\* or re-seeding another session leaves them armed.
AlarmsStayArmed ==
    [][\A s \in Session, d \in Device :
          /\ s = current /\ s = current'
          /\ armed[s][d] # NoSetting
          /\ armed'[s][d] = NoSetting
          => targets'[s][d] = NoSetting]_vars

\* No session is announced to be over twice, or while it is still active.
OverOnce ==
    \A s \in Session : over[s] > 0 => over[s] = 1 /\ row[s] # "open"

\* Once no handler has a change to announce, every session that is over was
\* announced to be, by whichever of its racing handlers had to, unless that
\* handler failed or crashed first; and a browser that applies the broadcasts
\* in order shows the active session, unless the handler that changed it last
\* met another's broadcasts or failed.
BroadcastsTell ==
    (\A c \in Client : ~Owes(c)) =>
        /\ \A s \in (1..issued) \ lost : row[s] # "open" => over[s] = 1
        /\ garbled \/ shown = current

Connected(d) ==
    worker[d].at \in {"rejoining", "rejoin", "polling", "checking", "recording"}

\* A connected member of a session is recorded in it, whatever session its
\* worker was still busy with, unless the session or its membership ends.
MemberIsRecorded ==
    \A s \in Session, d \in InRange :
        (current = s /\ member[s][d] = "in" /\ Connected(d))
            ~> (d \in readings[s] \/ current # s \/ member[s][d] # "in" \/ ~Connected(d))

\* README.md: "on reconnect within the grace period, it is automatically
\* rejoined".
RejoinsOnReconnect ==
    \A s \in Session, d \in InRange :
        (current = s /\ member[s][d] = "left" /\ Connected(d))
            ~> (member[s][d] = "in" \/ current # s \/ ~Connected(d))

=============================================================================
