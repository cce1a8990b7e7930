----------------------------- MODULE DeviceWorker -----------------------------
(***************************************************************************)
(* The life of one thermometer's worker: DeviceWorker.run and _poll_loop   *)
(* of src/service/ble/device_worker.py, its ConnectionStateMachine and the *)
(* DeviceManager that starts it and starts it again, against a BLE link    *)
(* that drops at any time and sessions that come and go.                   *)
(*                                                                         *)
(* A step is what a worker does between two awaits that can yield.  The    *)
(* calls that mark the device as having left are one step here, together   *)
(* with the way into backoff; SessionServer takes them apart.  A GATT call *)
(* returns or raises in the end.                                           *)
(***************************************************************************)
EXTENDS Naturals, FiniteSets, FiniteSetsExt

CONSTANTS MaxSession,       \* bound on the session ids ever issued
          MaxCycle,         \* bound on the seq numbers recorded in a session
          InitialBackoff,   \* initial_backoff, in seconds
          MaxBackoff,       \* max_backoff, in seconds
          MaxDoublings,     \* the largest n whose 2 ** n fits a float: 1023
          MaxRestart        \* bound on the restarts of the process

ASSUME WorkerAssumption ==
    /\ MaxSession \in Nat
    /\ MaxCycle \in Nat
    /\ InitialBackoff \in Nat \ {0}
    /\ MaxBackoff \in Nat \ {0}
    /\ MaxDoublings \in Nat
    /\ MaxRestart \in Nat

Session == 1..MaxSession
NoSession == 0
Cycle == 1..MaxCycle
AuthMaxRetries == 3

ConnectionState ==
    {"discovered", "connecting", "authenticating", "polling", "disconnected", "backoff"}

VARIABLES
    task,       \* the manager's task for the device: "absent", "running" or "done"
    pc,         \* where the task is
    attempt,    \* authentication attempt
    state,      \* ConnectionStateMachine._state
    failures,   \* ... _consecutive_failures
    hadSuccess, \* ... _had_successful_connection
    backoff,    \* ... _backoff_seconds, without the jitter
    link,       \* the BLE link is up
    seq,        \* DeviceWorker._seq
    prev,       \* prev_session_id
    held,       \* the session id of this cycle
    probes,     \* this cycle has read a probe
    entry,      \* the device's entry in the DeviceStore
    current,    \* the session that is active
    issued,     \* number of session ids issued so far
    member,     \* session_devices: "none", "in" or "left"
    discarded,  \* the sessions whose rows were deleted
    probeRows,  \* the seq numbers in probe_readings, by session
    deviceRows, \* the seq numbers in device_readings, by session
    lastWait,   \* history: the last backoff since the worker last polled, or 0
    restarts    \* history: number of restarts

machine == <<state, failures, hadSuccess, backoff, lastWait>>
cycle == <<seq, prev, held, probes>>
tables == <<member, discarded, probeRows, deviceRows>>
sessions == <<current, issued, tables>>
vars == <<task, pc, attempt, machine, link, cycle, entry, sessions, restarts>>

Least(m, n) == IF m < n THEN m ELSE n

\* 2 ** n, for as long as it fits a float
PowerOfTwo[n \in 0..MaxDoublings] == IF n = 0 THEN 1 ELSE 2 * PowerOfTwo[n - 1]

\* The wait after n failures in a row
Capped(n) == Least(InitialBackoff * PowerOfTwo[n - 1], MaxBackoff)

Waits == {0, InitialBackoff} \cup {Capped(n) : n \in 1..(MaxDoublings + 1)}

\* An entry of the DeviceStore
Entry == [connected : BOOLEAN, probes : BOOLEAN]

TypeOK ==
    /\ task \in {"absent", "running", "done"}
    /\ pc \in {"connect", "authenticate", "seed", "seeding", "read", "reseed",
               "check", "record", "leave", "sleep"}
    /\ attempt \in 1..AuthMaxRetries
    /\ state \in ConnectionState
    /\ failures \in 0..(MaxDoublings + 2)
    /\ hadSuccess \in BOOLEAN
    /\ backoff \in Waits
    /\ link \in BOOLEAN
    /\ seq \in Nat
    /\ prev \in Session \cup {NoSession}
    /\ held \in Session \cup {NoSession}
    /\ probes \in BOOLEAN
    /\ entry \in Entry
    /\ current \in Session \cup {NoSession}
    /\ issued \in 0..MaxSession
    /\ member \in [Session -> {"none", "in", "left"}]
    /\ discarded \subseteq Session
    /\ probeRows \in [Session -> SUBSET Cycle]
    /\ deviceRows \in [Session -> SUBSET Cycle]
    /\ lastWait \in Waits
    /\ restarts \in 0..MaxRestart

-----------------------------------------------------------------------------
(* The connection state machine.                                           *)

\* Entering AUTHENTICATING, DISCONNECTED or CONNECTING
Transition(new) == state' = new /\ UNCHANGED <<failures, hadSuccess, backoff, lastWait>>

EnterPolling ==
    /\ state' = "polling"
    /\ hadSuccess' = TRUE
    /\ failures' = 0
    /\ lastWait' = 0
    /\ UNCHANGED backoff

\* _consecutive_failures on entering BACKOFF
Failures == IF hadSuccess THEN 1 ELSE failures + 1

\* The float multiplication overflows.
Overflows == Failures - 1 > MaxDoublings

\* Seeded fault of EnterBackoff: a success is never forgotten.
EnterBackoffAsAfterSuccess ==
    /\ state' = "backoff"
    /\ failures' = Failures
    /\ backoff' = Capped(Failures)
    /\ lastWait' = Capped(Failures)
    /\ UNCHANGED hadSuccess

EnterBackoff ==
    /\ state' = "backoff"
    /\ hadSuccess' = FALSE
    /\ failures' = Failures
    /\ backoff' = Capped(Failures)
    /\ lastWait' = Capped(Failures)

-----------------------------------------------------------------------------
(* DeviceWorker.run                                                        *)

\* The entry with its readings but without a connection
Unconnected == [connected |-> FALSE, probes |-> entry.probes]

\* The loop of run starts over, or for the first time.
Connecting ==
    /\ pc' = "connect"
    /\ link' = FALSE
    /\ Transition("connecting")

\* store.upsert(connected=False, error=...), on the way to device_left_session
Fails ==
    /\ pc' = "leave"
    /\ entry' = Unconnected
    /\ link' = FALSE

Connect ==
    /\ task = "running"
    /\ pc = "connect"
    /\ \/ /\ pc' = "authenticate"
          /\ link' = TRUE
          /\ entry' = [connected |-> TRUE, probes |-> entry.probes]
          /\ Transition("authenticating")
       \/ Fails /\ UNCHANGED machine
    /\ UNCHANGED <<task, attempt, cycle, sessions, restarts>>

\* A device without the characteristics is taken as authenticated.
Authenticate ==
    /\ task = "running"
    /\ pc = "authenticate"
    /\ \/ /\ EnterPolling
          /\ pc' = "seed"
          /\ attempt' = 1
          /\ UNCHANGED <<link, entry>>
       \/ /\ attempt < AuthMaxRetries
          /\ attempt' = attempt + 1
          /\ UNCHANGED <<pc, machine, link, entry>>
       \/ /\ attempt = AuthMaxRetries
          /\ attempt' = 1
          /\ Fails
          /\ UNCHANGED machine
    /\ UNCHANGED <<task, cycle, sessions, restarts>>

\* device_left_session, for a member of the current session
MarkLeft ==
    member' = [s \in Session |-> IF s = current /\ member[s] = "in" THEN "left" ELSE member[s]]

\* _handle_disconnect up to its sleep.  An overflow raises before the state
\* is BACKOFF and leaves run, since the handler of exceptions calls this
\* outside its try.
BackOff ==
    \/ /\ Overflows
       /\ task' = "done"
       /\ state' = "disconnected"
       /\ failures' = Failures
       /\ UNCHANGED <<pc, hadSuccess, backoff, lastWait>>
    \/ /\ ~Overflows
       /\ pc' = "sleep"
       /\ EnterBackoff
       /\ UNCHANGED task

\* Seeded fault of Leave: the readings are kept.
LeaveAsShown ==
    /\ task = "running"
    /\ pc = "leave"
    /\ MarkLeft
    /\ entry' = Unconnected
    /\ BackOff
    /\ UNCHANGED <<attempt, link, cycle, current, issued, discarded, probeRows, deviceRows, restarts>>

\* Session clean-up, and the zeroing of the readings.
Leave ==
    /\ task = "running"
    /\ pc = "leave"
    /\ MarkLeft
    /\ entry' = [connected |-> FALSE, probes |-> FALSE]
    /\ BackOff
    /\ UNCHANGED <<attempt, link, cycle, current, issued, discarded, probeRows, deviceRows, restarts>>

WakeUp ==
    /\ task = "running"
    /\ pc = "sleep"
    /\ Connecting
    /\ UNCHANGED <<task, attempt, cycle, entry, sessions, restarts>>

-----------------------------------------------------------------------------
(* DeviceWorker._poll_loop                                                 *)

\* get_max_seq: of probe_readings only
MaxSeq(s) == IF probeRows[s] = {} THEN 0 ELSE Max(probeRows[s])

\* The session of the first seed.
Seed ==
    /\ task = "running"
    /\ pc = "seed"
    /\ prev' = current
    /\ pc' = IF current = NoSession THEN "read" ELSE "seeding"
    /\ UNCHANGED <<task, attempt, machine, link, seq, held, probes, entry, sessions, restarts>>

\* Seeded fault of Seeded: the counter of the worker is trusted.
SeededFromWorker(s) == seq

\* The seq number a session is resumed from.
Seeded(s) == MaxSeq(s)

SeedSeq ==
    /\ task = "running"
    /\ pc = "seeding"
    /\ seq' = Seeded(prev)
    /\ pc' = "read"
    /\ UNCHANGED <<task, attempt, machine, link, prev, held, probes, entry, sessions, restarts>>

\* The locals of _poll_loop are gone.
Forget == prev' = NoSession /\ held' = NoSession /\ probes' = FALSE

\* Live readings are shown with or without a session.
Show(read) ==
    entry' = [connected |-> TRUE, probes |-> read]

\* _read_metrics and get_session_state.  A link that is lost in the middle,
\* or empty sockets, leave a cycle without probes.
Read(read) ==
    /\ task = "running"
    /\ pc = "read"
    /\ link
    /\ probes' = read
    /\ held' = current
    /\ IF current # prev /\ current # NoSession
       THEN pc' = "reseed" /\ UNCHANGED <<prev, entry>>
       ELSE /\ pc' = IF current = NoSession THEN "read" ELSE "check"
            /\ prev' = current
            /\ Show(read)
    /\ UNCHANGED <<task, attempt, machine, link, seq, sessions, restarts>>

\* client.is_connected no longer holds, or a read raises.
LoseLink ==
    /\ task = "running"
    /\ pc = "read"
    /\ \/ ~link /\ pc' = "leave" /\ UNCHANGED <<link, entry>>
       \/ Fails
    /\ Forget
    /\ UNCHANGED <<task, attempt, machine, seq, sessions, restarts>>

Reseed ==
    /\ task = "running"
    /\ pc = "reseed"
    /\ seq' = Seeded(held)
    /\ prev' = held
    /\ Show(probes)
    /\ pc' = "check"
    /\ UNCHANGED <<task, attempt, machine, link, held, probes, sessions, restarts>>

\* is_device_in_session: of the session that is current by now.  Cycles
\* beyond MaxCycle are not recorded.
Check ==
    /\ task = "running"
    /\ pc = "check"
    /\ pc' = IF current # NoSession /\ member[current] = "in" /\ seq < MaxCycle
             THEN "record" ELSE "read"
    /\ UNCHANGED <<task, attempt, machine, link, cycle, entry, sessions, restarts>>

\* record_reading with INSERT OR IGNORE; rows of a session that was deleted
\* violate the foreign key.
Record ==
    /\ task = "running"
    /\ pc = "record"
    /\ IF held \in discarded
       THEN Fails /\ Forget /\ UNCHANGED <<seq, probeRows, deviceRows>>
       ELSE /\ deviceRows' = [deviceRows EXCEPT ![held] = @ \cup {seq + 1}]
            /\ probeRows' = IF probes THEN [probeRows EXCEPT ![held] = @ \cup {seq + 1}]
                            ELSE probeRows
            /\ seq' = seq + 1
            /\ pc' = "read"
            /\ UNCHANGED <<link, entry, prev, held, probes>>
    /\ UNCHANGED <<task, attempt, machine, current, issued, member, discarded, restarts>>

-----------------------------------------------------------------------------
(* DeviceManager.scan_loop: a device that advertises gets a worker, and a  *)
(* worker that has died a successor.                                       *)

\* A new worker with a new state machine, up to its first await.
NewWorker ==
    /\ task' = "running"
    /\ pc' = "connect"
    /\ link' = FALSE
    /\ state' = "connecting"
    /\ failures' = 0
    /\ hadSuccess' = FALSE
    /\ backoff' = InitialBackoff
    /\ lastWait' = 0
    /\ seq' = 0
    /\ UNCHANGED <<attempt, prev, held, probes, sessions, restarts>>

Discover ==
    /\ task = "absent"
    /\ NewWorker
    /\ UNCHANGED entry

\* Seeded fault of Respawn: the dead worker is taken for a live one.
RespawnNever ==
    /\ task = "done"
    /\ UNCHANGED vars

Respawn ==
    /\ task = "done"
    /\ NewWorker
    /\ entry' = Unconnected

-----------------------------------------------------------------------------
(* The environment.                                                        *)

LinkDrops ==
    /\ link
    /\ link' = FALSE
    /\ UNCHANGED <<task, pc, attempt, machine, cycle, entry, sessions, restarts>>

\* start_session, with or without the device
StartSession(m) ==
    /\ issued < MaxSession
    /\ issued' = issued + 1
    /\ current' = issued + 1
    /\ member' = [member EXCEPT ![issued + 1] = m]
    /\ UNCHANGED <<task, pc, attempt, machine, link, cycle, entry, discarded, probeRows,
                   deviceRows, restarts>>

\* add_device_to_session
AddDevice ==
    /\ current # NoSession
    /\ member[current] = "none"
    /\ member' = [member EXCEPT ![current] = "in"]
    /\ UNCHANGED <<task, pc, attempt, machine, link, cycle, entry, current, issued, discarded,
                   probeRows, deviceRows, restarts>>

EndSession ==
    /\ current # NoSession
    /\ current' = NoSession
    /\ UNCHANGED <<task, pc, attempt, machine, link, cycle, entry, issued, tables, restarts>>

DiscardSession ==
    /\ current # NoSession
    /\ current' = NoSession
    /\ discarded' = discarded \cup {current}
    /\ member' = [member EXCEPT ![current] = "none"]
    /\ probeRows' = [probeRows EXCEPT ![current] = {}]
    /\ deviceRows' = [deviceRows EXCEPT ![current] = {}]
    /\ UNCHANGED <<task, pc, attempt, machine, link, cycle, entry, issued, restarts>>

\* recover_orphaned_sessions resumes the session and takes the device back
Restart ==
    /\ restarts < MaxRestart
    /\ restarts' = restarts + 1
    /\ task' = "absent"
    /\ pc' = "connect"
    /\ attempt' = 1
    /\ state' = "discovered"
    /\ failures' = 0
    /\ hadSuccess' = FALSE
    /\ backoff' = InitialBackoff
    /\ lastWait' = 0
    /\ link' = FALSE
    /\ seq' = 0
    /\ prev' = NoSession
    /\ held' = NoSession
    /\ probes' = FALSE
    /\ entry' = [connected |-> FALSE, probes |-> FALSE]
    /\ member' = [s \in Session |-> IF s = current /\ member[s] = "left" THEN "in" ELSE member[s]]
    /\ UNCHANGED <<current, issued, discarded, probeRows, deviceRows>>

-----------------------------------------------------------------------------
Init ==
    /\ task = "absent"
    /\ pc = "connect"
    /\ attempt = 1
    /\ state = "discovered"
    /\ failures = 0
    /\ hadSuccess = FALSE
    /\ backoff = InitialBackoff
    /\ lastWait = 0
    /\ link = FALSE
    /\ seq = 0
    /\ prev = NoSession
    /\ held = NoSession
    /\ probes = FALSE
    /\ entry = [connected |-> FALSE, probes |-> FALSE]
    /\ current = NoSession
    /\ issued = 0
    /\ member = [s \in Session |-> "none"]
    /\ discarded = {}
    /\ probeRows = [s \in Session |-> {}]
    /\ deviceRows = [s \in Session |-> {}]
    /\ restarts = 0

WorkerStep ==
    \/ Connect
    \/ Authenticate
    \/ Leave
    \/ WakeUp
    \/ Seed
    \/ SeedSeq
    \/ \E read \in BOOLEAN : Read(read)
    \/ LoseLink
    \/ Reseed
    \/ Check
    \/ Record

Next ==
    \/ WorkerStep
    \/ Discover
    \/ Respawn
    \/ LinkDrops
    \/ \E m \in {"none", "in"} : StartSession(m)
    \/ AddDevice
    \/ EndSession
    \/ DiscardSession
    \/ Restart

\* Every sleep and every GATT call of the worker ends, and the scan loop,
\* which catches what a scan raises, comes round again.  A device need not
\* advertise and a link need not drop.
Fairness == WF_vars(WorkerStep) /\ WF_vars(Respawn)

Spec == Init /\ [][Next]_vars /\ Fairness

-----------------------------------------------------------------------------
(* Properties. *)

\* "avoid overwriting readings after a worker crash/respawn": the
\* temperatures of a cycle are never dropped as a duplicate, whatever
\* restarts, failed connections and changes of session came before.
ProbesAreKept ==
    [][\A s \in Session :
          pc = "record" /\ pc' = "read" /\ probes /\ s = held =>
              seq + 1 \notin probeRows[s]]_vars

\* README.md: "Probe readings are zeroed on disconnect to avoid displaying
\* stale data": nothing is shown while the worker waits or is dead.
NothingStaleIsShown ==
    pc = "sleep" \/ task = "done" => entry = [connected |-> FALSE, probes |-> FALSE]

\* A known device is tried again and again for ever: no failure, not even
\* of the worker itself, makes the server give it up.
KeepsTrying ==
    task # "absent" ~> (task = "absent" \/ pc = "connect" \/ (pc = "read" /\ link))

\* README.md: "exponential backoff ... A successful connection resets the
\* backoff counter": between two successes each wait is twice the one
\* before, up to the cap.
BackoffDoubles ==
    [][state' = "backoff" /\ state # "backoff" =>
          backoff' = Least(IF lastWait = 0 THEN InitialBackoff ELSE 2 * lastWait, MaxBackoff)]_vars

=============================================================================
