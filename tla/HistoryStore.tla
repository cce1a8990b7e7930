----------------------------- MODULE HistoryStore -----------------------------
(***************************************************************************)
(* The SQLite-backed session store of src/service/history/store.py.        *)
(*                                                                         *)
(* One aiosqlite connection is shared by every coroutine, and every public *)
(* method holds HistoryStore._lock from its first statement to its return. *)
(* What other coroutines, or a crash, can tell apart is therefore the      *)
(* state at the points where the connection commits, fails or releases the *)
(* lock.  Each action below is the stretch of one method between two such  *)
(* points: a method with a single commit is one action, start_session and  *)
(* recover_orphaned_sessions (two commits) are two, joined by pc.          *)
(*                                                                         *)
(* db is what the connection sees, disk what the last COMMIT made durable. *)
(* The sqlite3 driver opens a transaction before the first INSERT, UPDATE  *)
(* or DELETE; a method that raises after that leaves it open (inTxn), and  *)
(* the lock is released all the same.                                      *)
(***************************************************************************)
EXTENDS Naturals, FiniteSets

CONSTANTS MaxSession,   \* bound on the session ids ever issued
          Device,       \* BLE addresses
          Probe,        \* probe indices a target may name
          MaxCycle,     \* bound on the seq numbers of one device in one session
          SimAddress    \* the simulator's device: its task can be cancelled

ASSUME StoreAssumption ==
    /\ MaxSession \in Nat
    /\ MaxCycle \in Nat
    /\ SimAddress \in Device

-----------------------------------------------------------------------------
(* Tables.  A session id is a uuid4: never issued twice.  Ids are numbered *)
(* in the order of started_at, which is the order recovery sorts them by.  *)

Session == 1..MaxSession
NoSession == 0
Cycle == 1..MaxCycle

\* sessions: no row, ended_at IS NULL, ended_at set
RowState == {"absent", "open", "ended"}

\* session_devices: no row, left_at IS NULL, left_at set
MemberState == {"none", "in", "left"}

\* one reading cycle: no row, only its device_readings row, also its
\* probe_readings rows
CycleState == {"none", "summary", "full"}

Tables ==
    [session : [Session -> RowState],
     member  : [Session -> [Device -> MemberState]],
     target  : [Session -> [Device -> SUBSET Probe]],
     reading : [Session -> [Device -> [Cycle -> CycleState]]]]

NoMembers  == [d \in Device |-> "none"]
NoTargets  == [d \in Device |-> {}]
NoReadings == [d \in Device |-> [q \in Cycle |-> "none"]]

\* The tables t with one of them replaced.
SetSession(t, rows) ==
    [session |-> rows, member |-> t.member, target |-> t.target, reading |-> t.reading]
SetMember(t, rows) ==
    [session |-> t.session, member |-> rows, target |-> t.target, reading |-> t.reading]
SetTarget(t, rows) ==
    [session |-> t.session, member |-> t.member, target |-> rows, reading |-> t.reading]
SetReading(t, rows) ==
    [session |-> t.session, member |-> t.member, target |-> t.target, reading |-> rows]

VARIABLES
    db,         \* the tables as the shared connection sees them
    disk,       \* the tables as of the last COMMIT
    inTxn,      \* the connection has a transaction open
    current,    \* _current_session_id
    last,       \* _last_session_id
    pc,         \* who holds _lock between two commits ("ready": nobody)
    joining,    \* the addresses of the start_session call in progress
    issued,     \* number of session ids issued so far
    passes      \* downsampling passes end_session still has to run

vars == <<db, disk, inTxn, current, last, pc, joining, issued, passes>>

TypeOK ==
    /\ db \in Tables
    /\ disk \in Tables
    /\ inTxn \in BOOLEAN
    /\ current \in Session \cup {NoSession}
    /\ last \in Session \cup {NoSession}
    /\ pc \in {"down", "recovering", "ready", "starting"}
    /\ joining \in SUBSET Device
    /\ issued \in 0..MaxSession
    /\ passes \in [Session -> 0..2]

-----------------------------------------------------------------------------
(* Derived state. *)

Known == 1..issued                      \* the ids a caller can be holding
Exists(t, s) == t.session[s] # "absent"
Open(t) == {s \in Session : t.session[s] = "open"}
Newest(t) == CHOOSE s \in Open(t) : \A r \in Open(t) : r <= s

(* A sessions row always has its children's foreign keys satisfied. *)
Orphanless(t) ==
    \A s \in Session :
        t.session[s] = "absent" =>
            /\ t.member[s] = NoMembers
            /\ t.target[s] = NoTargets
            /\ t.reading[s] = NoReadings

-----------------------------------------------------------------------------
(* The connection. *)

\* statements followed by conn.commit()
Commit(t) == db' = t /\ disk' = t /\ inTxn' = FALSE

\* statements, then an exception or a cancellation before conn.commit()
Abandon(t) == db' = t /\ inTxn' = TRUE /\ UNCHANGED disk

\* conn.execute("ROLLBACK")
Rollback == db' = disk /\ inTxn' = FALSE /\ UNCHANGED disk

Free == pc = "ready"
Memory == <<current, last, pc, joining, issued, passes>>

\* Seeded fault: PRAGMA foreign_keys left off.
WriteChildUnchecked(s, t) == Commit(t)

\* A write to a child table of s: commits, or violates the foreign key
\* before it has changed anything.
WriteChild(s, t) == IF Exists(db, s) THEN Commit(t) ELSE Abandon(db)

-----------------------------------------------------------------------------
(* Start-up and crash. *)

\* The process dies, or close() drops the connection: an open transaction
\* is rolled back and every attribute of the store is gone.
Crash ==
    /\ pc # "down"
    /\ db' = disk
    /\ inTxn' = FALSE
    /\ current' = NoSession
    /\ last' = NoSession
    /\ pc' = "down"
    /\ joining' = {}
    /\ passes' = [s \in Session |-> 0]
    /\ UNCHANGED <<disk, issued>>

\* Seeded faults of Recover: it resumes the oldest open session (ORDER BY
\* without DESC), or forgets to set _current_session_id.
RecoverOldest ==
    /\ pc = "down"
    /\ IF Open(db) = {}
       THEN pc' = "ready" /\ UNCHANGED current
       ELSE /\ current' = CHOOSE s \in Open(db) : \A r \in Open(db) : s <= r
            /\ pc' = IF Open(db) = {current'} THEN "ready" ELSE "recovering"
    /\ UNCHANGED <<db, disk, inTxn, last, joining, issued, passes>>

RecoverForgets ==
    /\ pc = "down"
    /\ pc' = IF Open(db) = {} THEN "ready" ELSE "recovering"
    /\ UNCHANGED <<db, disk, inTxn, current, last, joining, issued, passes>>

\* recover_orphaned_sessions, up to its first commit: the newest open
\* session becomes current and its devices are members again.
Recover ==
    /\ pc = "down"
    /\ IF Open(db) = {}
       THEN /\ pc' = "ready"
            /\ UNCHANGED <<db, disk, inTxn, current>>
       ELSE LET primary == Newest(db) IN
            /\ current' = primary
            /\ Commit(SetMember(db, [db.member EXCEPT ![primary] =
                   [d \in Device |-> IF @[d] = "left" THEN "in" ELSE @[d]]]))
            /\ pc' = IF Open(db) = {primary} THEN "ready" ELSE "recovering"
    /\ UNCHANGED <<last, joining, issued, passes>>

\* ... and from there to its return: every other open session is ended.
EndDuplicates ==
    /\ pc = "recovering"
    /\ Commit(SetSession(db,
           [s \in Session |-> IF s \in Open(db) \ {current}
                              THEN "ended" ELSE db.session[s]]))
    /\ pc' = "ready"
    /\ UNCHANGED <<current, last, joining, issued, passes>>

-----------------------------------------------------------------------------
(* Session lifecycle. *)

\* Seeded fault: the commit is missing.
EndSessionUncommitted ==
    /\ Abandon(SetSession(db, [db.session EXCEPT ![current] = "ended"]))
    /\ last' = current
    /\ current' = NoSession

\* _end_session_locked, when a session is current
EndSessionLocked ==
    /\ Commit(SetSession(db, [db.session EXCEPT ![current] = "ended"]))
    /\ last' = current
    /\ current' = NoSession

\* start_session after the previous session, if any, has been ended
InsertSession(addresses) ==
    LET s == issued + 1 IN
    /\ s <= MaxSession
    /\ Commit(SetMember(SetSession(db, [db.session EXCEPT ![s] = "open"]),
           [db.member EXCEPT ![s] =
               [d \in Device |-> IF d \in addresses THEN "in" ELSE "none"]]))
    /\ current' = s
    /\ issued' = s
    /\ pc' = "ready"
    /\ joining' = {}

StartSession(addresses) ==
    /\ Free
    /\ issued < MaxSession
    /\ IF current = NoSession
       THEN InsertSession(addresses) /\ UNCHANGED last
       ELSE /\ EndSessionLocked
            /\ pc' = "starting"
            /\ joining' = addresses
            /\ UNCHANGED issued
    /\ UNCHANGED passes

FinishStart ==
    /\ pc = "starting"
    /\ InsertSession(joining)
    /\ UNCHANGED <<last, passes>>

\* end_session: the downsampling that follows runs outside the lock
EndSession ==
    /\ Free
    /\ current # NoSession
    /\ EndSessionLocked
    /\ passes' = [passes EXCEPT ![current] = 2]
    /\ UNCHANGED <<pc, joining, issued>>

\* downsample_range: firsts holds the first cycle of each time bucket of a
\* device; the averaged row of the bucket takes its seq and the others go.
OpensBucket(cycles, firsts) ==
    \A d \in Device, q \in Cycle :
        cycles[d][q] = "full" => \E r \in firsts[d] : r <= q /\ cycles[d][r] = "full"

Averaged(cycles, firsts) ==
    [d \in Device |-> [q \in Cycle |->
        IF cycles[d][q] = "full" /\ q \notin firsts[d] THEN "none" ELSE cycles[d][q]]]

\* Seeded fault of DownsamplePass: the averaging is not restricted to the
\* ended session (no session_id in the WHERE clause).
DownsampleEverySession(s) ==
    /\ Free
    /\ passes[s] > 0
    /\ ~inTxn
    /\ \E firsts \in [Device -> SUBSET Cycle] :
          /\ OpensBucket(db.reading[s], firsts)
          /\ Commit(SetReading(db,
                 [r \in Session |-> Averaged(db.reading[r], firsts)]))
    /\ passes' = [passes EXCEPT ![s] = @ - 1]
    /\ UNCHANGED <<current, last, pc, joining, issued>>

\* execute_downsampling for an ended session: no row is old enough; or the
\* explicit BEGIN fails inside an open transaction, the handler rolls back
\* and end_session gives the remaining pass up; or the buckets are averaged.
DownsamplePass(s) ==
    /\ Free
    /\ passes[s] > 0
    /\ \/ /\ passes' = [passes EXCEPT ![s] = @ - 1]
          /\ UNCHANGED <<db, disk, inTxn>>
       \/ /\ inTxn
          /\ Rollback
          /\ passes' = [passes EXCEPT ![s] = 0]
       \/ /\ ~inTxn
          /\ \E firsts \in [Device -> SUBSET Cycle] :
                /\ OpensBucket(db.reading[s], firsts)
                /\ Commit(SetReading(db,
                       [db.reading EXCEPT ![s] = Averaged(db.reading[s], firsts)]))
          /\ passes' = [passes EXCEPT ![s] = @ - 1]
    /\ UNCHANGED <<current, last, pc, joining, issued>>

\* The tables without session s and its children.
Erase(t, s) ==
    [session |-> [t.session EXCEPT ![s] = "absent"],
     member  |-> [t.member  EXCEPT ![s] = NoMembers],
     target  |-> [t.target  EXCEPT ![s] = NoTargets],
     reading |-> [t.reading EXCEPT ![s] = NoReadings]]

\* Seeded faults of DiscardSession: the pointers are never cleared, or are
\* cleared although the transaction was rolled back.
DiscardKeepsPointers(s) ==
    /\ Free
    /\ IF inTxn THEN Rollback ELSE Commit(Erase(db, s))
    /\ UNCHANGED Memory

DiscardClearsAlways(s) ==
    /\ Free
    /\ IF inTxn THEN Rollback ELSE Commit(Erase(db, s))
    /\ current' = IF current = s THEN NoSession ELSE current
    /\ last' = IF last = s THEN NoSession ELSE last
    /\ UNCHANGED <<pc, joining, issued, passes>>

\* _discard_session_locked: the explicit BEGIN fails inside an open
\* transaction, which the handler then rolls back; the in-memory pointers
\* are cleared only after the commit.
DiscardSession(s) ==
    /\ Free
    /\ IF inTxn
       THEN Rollback /\ UNCHANGED <<current, last>>
       ELSE /\ Commit(Erase(db, s))
            /\ current' = IF current = s THEN NoSession ELSE current
            /\ last' = IF last = s THEN NoSession ELSE last
    /\ UNCHANGED <<pc, joining, issued, passes>>

DiscardCurrentSession == current # NoSession /\ DiscardSession(current)

-----------------------------------------------------------------------------
(* Membership, targets and readings.  The caller read s from the store in  *)
(* an earlier call: it may have been ended, or discarded, since.           *)

DeviceLeft(s, d) ==
    /\ Free
    /\ Commit(SetMember(db, [db.member EXCEPT ![s][d] = IF @ = "none" THEN @ ELSE "left"]))
    /\ UNCHANGED Memory

DeviceRejoined(s, d) ==
    /\ Free
    /\ Commit(SetMember(db, [db.member EXCEPT ![s][d] = IF @ = "none" THEN @ ELSE "in"]))
    /\ UNCHANGED Memory

\* INSERT OR IGNORE: an existing row keeps its left_at
AddDevice(s, d) ==
    /\ Free
    /\ WriteChild(s, SetMember(db,
           [db.member EXCEPT ![s][d] = IF @ = "none" THEN "in" ELSE @]))
    /\ UNCHANGED Memory

SaveTargets(s, d, T) ==
    /\ Free
    /\ T # {}
    /\ WriteChild(s, SetTarget(db, [db.target EXCEPT ![s][d] = @ \cup T]))
    /\ UNCHANGED Memory

UpdateTargets(s, d, T) ==
    /\ Free
    /\ IF T = {} \/ Exists(db, s)
       THEN Commit(SetTarget(db, [db.target EXCEPT ![s][d] = T]))
       ELSE Abandon(db)
    /\ UNCHANGED Memory

\* update_targets with a list that names a probe twice: the old rows are
\* deleted and those of T, the list up to the repetition, inserted, when
\* the primary key is violated.
UpdateTargetsFails(s, d, T) ==
    /\ Free
    /\ T # {}
    /\ Exists(db, s)
    /\ Abandon(SetTarget(db, [db.target EXCEPT ![s][d] = T]))
    /\ UNCHANGED Memory

\* INSERT OR IGNORE of the device row and of the probe rows: x says how far
\* the inserts get
AddCycle(t, s, d, q, x) ==
    SetReading(t, [t.reading EXCEPT ![s][d][q] = IF @ = "full" THEN @ ELSE x])

RecordReading(s, d, q, x) ==
    /\ Free
    /\ WriteChild(s, AddCycle(db, s, d, q, x))
    /\ UNCHANGED Memory

\* SimulationRunner.stop cancels the task inside record_reading
RecordReadingCancelled(s, q, x) ==
    /\ Free
    /\ Exists(db, s)
    /\ Abandon(AddCycle(db, s, SimAddress, q, x))
    /\ UNCHANGED Memory

\* A method that writes only columns and tables this module leaves out
\* (name, notes, timers): its commit is the connection's commit.
WriteElsewhere(s) ==
    /\ Free
    /\ WriteChild(s, db)
    /\ UNCHANGED Memory

-----------------------------------------------------------------------------
(* The specification.  A run starts on the database the previous one left: *)
(* any sessions at all, even several open ones, which recovery says should *)
(* not happen but handles.  Their targets and readings start out empty.    *)

Init ==
    /\ issued \in 0..MaxSession
    /\ \E rows \in [Session -> RowState],
          members \in [Session -> [Device -> MemberState]] :
          disk = [session |-> rows,
                  member  |-> members,
                  target  |-> [s \in Session |-> NoTargets],
                  reading |-> [s \in Session |-> NoReadings]]
    /\ \A s \in Session \ Known : disk.session[s] = "absent"
    /\ Orphanless(disk)
    /\ db = disk
    /\ inTxn = FALSE
    /\ current = NoSession
    /\ last = NoSession
    /\ pc = "down"
    /\ joining = {}
    /\ passes = [s \in Session |-> 0]

SessionStep ==
    \/ \E addresses \in SUBSET Device \ {{}} : StartSession(addresses)
    \/ FinishStart
    \/ EndSession
    \/ DiscardCurrentSession
    \/ \E s \in Known : DownsamplePass(s)
    \/ \E s \in Known : DiscardSession(s)
    \/ \E s \in Known : WriteElsewhere(s)

DeviceStep(s, d) ==
    \/ DeviceLeft(s, d)
    \/ DeviceRejoined(s, d)
    \/ AddDevice(s, d)
    \/ \E T \in SUBSET Probe : SaveTargets(s, d, T)
    \/ \E T \in SUBSET Probe : UpdateTargets(s, d, T)
    \/ \E T \in SUBSET Probe : UpdateTargetsFails(s, d, T)
    \/ \E q \in Cycle, x \in {"summary", "full"} : RecordReading(s, d, q, x)

Next ==
    \/ Crash
    \/ Recover
    \/ EndDuplicates
    \/ SessionStep
    \/ \E s \in Known, d \in Device : DeviceStep(s, d)
    \/ \E s \in Known, q \in Cycle, x \in {"summary", "full"} :
          RecordReadingCancelled(s, q, x)

\* run() always calls recover_orphaned_sessions, and the supervisor always
\* restarts the process; a method that holds the lock runs on.
Fairness ==
    /\ WF_vars(Recover)
    /\ WF_vars(EndDuplicates)
    /\ WF_vars(FinishStart)

Spec == Init /\ [][Next]_vars /\ Fairness

-----------------------------------------------------------------------------
(* Properties. *)

\* The in-memory session is always a committed, open row: no failure, crash
\* or discard leaves _current_session_id dangling, so the defensive branch
\* of discard_current_session is never taken.
CurrentIsOpen ==
    current # NoSession => disk.session[current] = "open"

\* Whenever the lock is free the only open session is the current one: an
\* open session nobody can end or discard any more cannot arise, whatever
\* fails, and recovery repairs a database that holds several.
OpenIsCurrent ==
    pc = "ready" => Open(db) \subseteq {current}

\* A transaction left open by a failed call never holds a session row or a
\* membership: the rollback that ends it cannot revive or lose a session.
LifecycleCommitted ==
    /\ db.session = disk.session
    /\ db.member = disk.member

\* No member, target or reading outlives the session it belongs to, in the
\* connection's view or on disk, however late its writer is.
NoOrphanRows == Orphanless(db) /\ Orphanless(disk)

\* An ended session is never resumed and a discarded one never comes back,
\* by any call, crash or recovery.
NoRevival ==
    [][\A s \in Known :
          /\ disk.session[s] = "ended" => disk'.session[s] \in {"ended", "absent"}
          /\ disk.session[s] = "absent" => disk'.session[s] = "absent"]_vars

\* A stored reading cycle of a session that goes on is never lost: averaging
\* and rollback only ever touch sessions that are over.
ActiveReadingsKept ==
    [][\A s \in Session, d \in Device, q \in Cycle :
          /\ disk.session[s] = "open"
          /\ disk'.session[s] = "open"
          /\ disk.reading[s][d][q] = "full"
          => disk'.reading[s][d][q] = "full"]_vars

\* A crash does not stop a cook: the newest open session on disk becomes
\* current again, unless a step of the user has ended or discarded it.
OpenSessionResumes ==
    \A s \in Session :
        (pc = "down" /\ Open(disk) # {} /\ s = Newest(disk)) ~> (current = s)

-----------------------------------------------------------------------------
(* What the store promises about session identity, see SessionPromise: the *)
(* active session is the newest open row, and every other id ever issued   *)
(* is closed for good.                                                     *)

ActiveOnDisk == IF Open(disk) = {} THEN NoSession ELSE Newest(disk)

Promise == INSTANCE SessionPromise
    WITH active <- ActiveOnDisk, closed <- Known \ {ActiveOnDisk}

PromiseSpec == Promise!Spec

=============================================================================
