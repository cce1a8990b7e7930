----------------------------- MODULE SessionNotes -----------------------------
(***************************************************************************)
(* Session notes, from the request to the row: the limiter every request   *)
(* passes (RateLimiter), the two calls that write notes                    *)
(* (src/service/history/store.py), and the migrations that introduced      *)
(* their table and moved the older notes into it                           *)
(* (src/service/db/migrations.py), interrupted and run again.              *)
(***************************************************************************)
EXTENDS RateLimiter, Sequences

CONSTANTS Session,
          Body,             \* texts of notes, one of which is Empty
          Empty, Null,      \* the empty string; SQL NULL
          MaxTrouble        \* bound on the crashes and failed statements

ASSUME NotesAssumption ==
    /\ Empty \in Body
    /\ Null \notin Body
    /\ MaxTrouble \in Nat

\* MIGRATIONS: what the statements of each version do.
Script ==
    [v \in 2..7 |->
        CASE v = 2 -> <<"column", "column", "column">>
          [] v = 3 -> <<"table">>
          [] v = 4 -> <<"table", "table">>
          [] v = 5 -> <<"table", "table", "backfill">>
          [] v = 6 -> <<"column">>
          [] v = 7 -> <<"column">>]

Versions == 1..7
Latest == 7
Statement == {x \in (2..7) \X (1..3) : x[2] <= Len(Script[x[1]])}

\* What the migrations up to version v have done to the schema.
Upto(v) == {x \in Statement : x[1] <= v}

VARIABLES
    db,             \* the tables, as the connection sees them
    disk,           \* ... as committed
    pc,             \* the server: "down", "migrating" or "up"
    next,           \* the statement run_migrations has reached
    troubles,       \* crashes and failures so far
    legacyOnly      \* history: the sessions whose legacy column was written alone

notes == <<db, disk, pc, next, troubles, legacyOnly>>
vars == <<limiter, notes>>

Tables ==
    [version : {0} \cup Versions,           \* MAX(version) of schema_version
     schema : SUBSET Statement,             \* the statements that took effect
     sessions : SUBSET Session,
     legacy : [Session -> Body \cup {Null}],  \* sessions.notes
     rows : [Session -> Seq(Body)]]           \* session_notes, the earliest first

Made(version, schema, sessions, legacy, rows) ==
    [version |-> version, schema |-> schema, sessions |-> sessions, legacy |-> legacy,
     rows |-> rows]

SetVersion(t, v) == Made(v, t.schema, t.sessions, t.legacy, t.rows)
SetNotes(t, legacy, rows) == Made(t.version, t.schema, t.sessions, legacy, rows)

TypeOK ==
    /\ LimiterTypeOK
    /\ db \in Tables
    /\ disk \in Tables
    /\ pc \in {"down", "migrating", "up"}
    /\ next \in (2..8) \X (1..4)
    /\ troubles \in 0..MaxTrouble
    /\ legacyOnly \subseteq Session

-----------------------------------------------------------------------------
(* Starting. *)

\* init_db: the tables of version 1, and its row, if they are missing; then
\* get_current_version.
Start ==
    /\ pc = "down"
    /\ pc' = "migrating"
    /\ disk' = SetVersion(disk, IF disk.version = 0 THEN 1 ELSE disk.version)
    /\ db' = disk'
    /\ next' = <<disk'.version + 1, 1>>
    /\ UNCHANGED <<limiter, troubles, legacyOnly>>

\* A column that exists cannot be added; IF NOT EXISTS can be repeated.
Possible(x) == Script[x[1]][x[2]] = "column" => x \notin db.schema

\* INSERT INTO session_notes SELECT ... WHERE notes IS NOT NULL AND notes != ''
Backfilled ==
    [s \in Session |-> IF s \in db.sessions /\ db.legacy[s] \notin {Null, Empty}
                       THEN Append(db.rows[s], db.legacy[s]) ELSE db.rows[s]]

After(x) ==
    Made(db.version, db.schema \cup {x}, db.sessions, db.legacy,
         IF Script[x[1]][x[2]] = "backfill" THEN Backfilled ELSE db.rows)

AtStatement == pc = "migrating" /\ next[1] <= Latest /\ next[2] <= Len(Script[next[1]])

\* Seeded fault of Execute: no transaction.
ExecuteCommitted ==
    /\ AtStatement
    /\ Possible(next)
    /\ db' = After(next)
    /\ disk' = db'
    /\ next' = <<next[1], next[2] + 1>>
    /\ UNCHANGED <<limiter, pc, troubles, legacyOnly>>

Execute ==
    /\ AtStatement
    /\ Possible(next)
    /\ db' = After(next)
    /\ next' = <<next[1], next[2] + 1>>
    /\ UNCHANGED <<limiter, disk, pc, troubles, legacyOnly>>

\* Seeded fault of Record: the version is recorded a step too low.
RecordLow ==
    /\ pc = "migrating"
    /\ next[1] <= Latest
    /\ next[2] > Len(Script[next[1]])
    /\ db' = SetVersion(db, next[1] - 1)
    /\ disk' = db'
    /\ next' = <<next[1] + 1, 1>>
    /\ UNCHANGED <<limiter, pc, troubles, legacyOnly>>

\* The version row and the COMMIT.
Record ==
    /\ pc = "migrating"
    /\ next[1] <= Latest
    /\ next[2] > Len(Script[next[1]])
    /\ db' = SetVersion(db, next[1])
    /\ disk' = db'
    /\ next' = <<next[1] + 1, 1>>
    /\ UNCHANGED <<limiter, pc, troubles, legacyOnly>>

Serve ==
    /\ pc = "migrating"
    /\ next[1] > Latest
    /\ pc' = "up"
    /\ UNCHANGED <<limiter, db, disk, next, troubles, legacyOnly>>

\* A statement fails: ROLLBACK, and the server does not start.
Fail ==
    /\ AtStatement
    /\ IF Possible(next) THEN troubles < MaxTrouble /\ troubles' = troubles + 1
                         ELSE UNCHANGED troubles
    /\ db' = disk
    /\ pc' = "down"
    /\ UNCHANGED <<limiter, disk, next, legacyOnly>>

Crash ==
    /\ pc # "down"
    /\ troubles < MaxTrouble
    /\ troubles' = troubles + 1
    /\ db' = disk
    /\ pc' = "down"
    /\ Reset
    /\ UNCHANGED <<disk, next, legacyOnly>>

-----------------------------------------------------------------------------
(* Requests. *)

Write(tables) == db' = tables /\ disk' = tables

\* Seeded fault of Noted: a request adds a row.
NotedAnew(s, body) == Append(db.rows[s], body)

\* The first request inserts the primary note, later ones change it.
Noted(s, body) ==
    IF db.rows[s] = <<>> THEN <<body>> ELSE [db.rows[s] EXCEPT ![1] = body]

\* _handle_session_notes_update, upsert_primary_note: the row and the legacy
\* column in one transaction
UpdateNotes(k, s, body) ==
    /\ pc = "up"
    /\ s \in db.sessions
    /\ Admit(k)
    /\ Write(SetNotes(db, [db.legacy EXCEPT ![s] = body], [db.rows EXCEPT ![s] = Noted(s, body)]))
    /\ legacyOnly' = legacyOnly \ {s}
    /\ UNCHANGED <<pc, next, troubles>>

\* _handle_session_update, update_session: the legacy column alone
UpdateSession(k, s, body) ==
    /\ pc = "up"
    /\ s \in db.sessions
    /\ Admit(k)
    /\ Write(SetNotes(db, [db.legacy EXCEPT ![s] = body], db.rows))
    /\ legacyOnly' = legacyOnly \cup {s}
    /\ UNCHANGED <<pc, next, troubles>>

StartSession(k, s) ==
    /\ pc = "up"
    /\ s \notin db.sessions
    /\ Admit(k)
    /\ Write(Made(db.version, db.schema, db.sessions \cup {s}, db.legacy, db.rows))
    /\ UNCHANGED <<pc, next, troubles, legacyOnly>>

\* _discard_session_locked: the notes go with the session
Discard(k, s) ==
    /\ pc = "up"
    /\ s \in db.sessions
    /\ Admit(k)
    /\ Write(Made(db.version, db.schema, db.sessions \ {s}, [db.legacy EXCEPT ![s] = Null],
                  [db.rows EXCEPT ![s] = <<>>]))
    /\ legacyOnly' = legacyOnly \ {s}
    /\ UNCHANGED <<pc, next, troubles>>

\* rate_limited
Limited(k) ==
    /\ pc = "up"
    /\ Refuse(k)
    /\ UNCHANGED notes

Passes == Tick /\ UNCHANGED notes

-----------------------------------------------------------------------------
\* The database is new, or one that a server before the notes table left.
Init ==
    /\ LimiterInit
    /\ \E v \in 0..4, S \in SUBSET Session, l \in [Session -> Body \cup {Null}] :
          /\ v = 0 => S = {}
          /\ \A s \in Session : l[s] # Null => v >= 2 /\ s \in S
          /\ disk = Made(v, Upto(v), S, l, [s \in Session |-> <<>>])
    /\ db = disk
    /\ pc = "down"
    /\ next = <<2, 1>>
    /\ troubles = 0
    /\ legacyOnly = {}

Next ==
    \/ Start
    \/ Execute
    \/ Record
    \/ Serve
    \/ Fail
    \/ Crash
    \/ \E k \in Key :
          \/ Limited(k)
          \/ \E s \in Session :
                \/ StartSession(k, s)
                \/ Discard(k, s)
                \/ \E body \in Body : UpdateNotes(k, s, body) \/ UpdateSession(k, s, body)
    \/ Passes

\* The server is started again whenever it is down, and its start goes on.
Fairness == WF_vars(Start) /\ WF_vars(Execute) /\ WF_vars(Record) /\ WF_vars(Serve)

Spec == Init /\ [][Next]_vars /\ Fairness

-----------------------------------------------------------------------------
(* Properties. *)

\* What is durable is the work of whole migrations, each done once, and the
\* version says which.
MigratedWhole == disk.schema = Upto(disk.version)

\* While the server runs a session has at most one note, the older servers'
\* included, and the legacy column says the same unless it was written alone.
NotesAgree ==
    pc = "up" => \A s \in Session :
        /\ Len(db.rows[s]) <= 1
        /\ s \notin db.sessions => db.rows[s] = <<>>
        /\ s \notin legacyOnly =>
              IF db.rows[s] = <<>> THEN db.legacy[s] \in {Null, Empty}
                                   ELSE db.legacy[s] = db.rows[s][1]

\* However often it is interrupted, a server that is down comes up with the
\* latest schema.
ComesUp == pc = "down" ~> (pc = "up" /\ disk.version = Latest)

=============================================================================
