-------------------------- MODULE SessionNotesProofs --------------------------
(***************************************************************************)
(* Proofs about SessionNotes and the RateLimiter it extends, for any       *)
(* peers, limit, window, sweep interval, sessions, texts and number of     *)
(* crashes, and however long the clock runs: that no window holds more     *)
(* requests of a peer than the limit, that a database is always that of    *)
(* whole migrations, and that the notes and the legacy column agree.       *)
(*                                                                         *)
(* The first part is about LimiterSpec alone.  Its inductive invariant,    *)
(* LimiterInv, says that what is swept and pruned away no longer counts:   *)
(* of a peer's admitted requests the fresh ones are all still in           *)
(* _requests.  The second part is about Spec, whose steps are steps of     *)
(* the limiter or leave it alone.                                          *)
(***************************************************************************)
EXTENDS SessionNotes, FiniteSetTheorems, SequenceTheorems, TLAPS

\* Of a peer's admitted requests those that count.
FreshOf(k) == {r \in admitted[k] : Fresh(r)}

Recorded(k) ==
    /\ requests[k] \subseteq admitted[k]
    /\ FreshOf(k) \subseteq requests[k]
    /\ \A r \in admitted[k] : r.at <= now
    /\ IsFiniteSet(admitted[k])

LimiterInv ==
    /\ LimiterTypeOK
    /\ \A k \in Key : Recorded(k)
    /\ WindowBound

-----------------------------------------------------------------------------
(* What allow computes. *)

\* The sweep removes no request that still counts.
LEMMA SweptKeeps ==
    ASSUME LimiterInv, NEW k \in Key
    PROVE  Swept[k] \subseteq requests[k] /\ FreshOf(k) \subseteq Swept[k]
BY DEF LimiterInv, Recorded, Swept, FreshOf

\* The count allow looks at is that of the fresh admitted requests.
LEMMA RecentIsFresh ==
    ASSUME LimiterInv, NEW k \in Key
    PROVE  Recent(k) = FreshOf(k) /\ IsFiniteSet(FreshOf(k))
<1>1. Recent(k) = FreshOf(k)
  BY SweptKeeps DEF Recent, FreshOf, LimiterInv, Recorded
<1>2. IsFiniteSet(FreshOf(k))
  BY FS_Subset DEF FreshOf, LimiterInv, Recorded
<1> QED BY <1>1, <1>2

LEMMA SweptTypes == LimiterTypeOK => Swept \in [Key -> SUBSET Request]
BY DEF LimiterTypeOK, Swept

LEMMA LimiterTypeStep == LimiterTypeOK /\ [LimiterNext]_limiter => LimiterTypeOK'
<1> SUFFICES ASSUME LimiterTypeOK, [LimiterNext]_limiter PROVE LimiterTypeOK'
  OBVIOUS
<1>0. Swept \in [Key -> SUBSET Request] /\ now \in Nat /\ served \in Nat /\ lastSweep \in Nat
  BY SweptTypes DEF LimiterTypeOK
<1>1. ASSUME NEW k \in Key, Admit(k) PROVE LimiterTypeOK'
  <2> DEFINE r == [id |-> served, at |-> now]
  <2>1. r \in Request
    BY <1>0 DEF Request
  <2> HIDE DEF r
  <2>2. /\ requests' = [Swept EXCEPT ![k] = Recent(k) \cup {r}]
        /\ admitted' = [admitted EXCEPT ![k] = @ \cup {r}]
    BY <1>1 DEF Admit, r
  <2>3. Recent(k) \subseteq Request
    BY <1>0 DEF Recent
  <2>4. requests' \in [Key -> SUBSET Request] /\ admitted' \in [Key -> SUBSET Request]
    BY <1>0, <2>1, <2>2, <2>3 DEF LimiterTypeOK
  <2> QED BY <1>0, <1>1, <2>4 DEF Admit, Swipe, LimiterTypeOK
<1>2. ASSUME NEW k \in Key, Refuse(k) PROVE LimiterTypeOK'
  <2>1. Recent(k) \subseteq Request
    BY <1>0 DEF Recent
  <2>2. requests' \in [Key -> SUBSET Request]
    BY <1>0, <1>2, <2>1 DEF Refuse
  <2> QED BY <1>0, <1>2, <2>2 DEF Refuse, Swipe, LimiterTypeOK
<1>3. CASE Tick
  BY <1>0, <1>3 DEF Tick, LimiterTypeOK
<1>4. CASE Reset
  BY <1>0, <1>4 DEF Reset, LimiterTypeOK
<1>5. CASE UNCHANGED limiter
  BY <1>5 DEF limiter, LimiterTypeOK
<1> QED BY <1>1, <1>2, <1>3, <1>4, <1>5 DEF LimiterNext

-----------------------------------------------------------------------------
(* The inductive invariant. *)

LEMMA LimiterInvInit == LimiterInit => LimiterInv
<1> SUFFICES ASSUME LimiterInit PROVE LimiterInv
  OBVIOUS
<1>1. LimiterTypeOK
  BY DEF LimiterInit, LimiterTypeOK
<1>2. \A k \in Key : Recorded(k)
  BY FS_EmptySet DEF LimiterInit, Recorded, FreshOf
<1>3. ASSUME NEW k \in Key, NEW t \in 0..now PROVE Window(k, t) = {}
  BY DEF LimiterInit, Window
<1>4. WindowBound
  BY <1>3, FS_EmptySet, LimiterAssumption DEF WindowBound
<1> QED BY <1>1, <1>2, <1>4 DEF LimiterInv

\* A window that has not ended holds only fresh requests, fewer than the
\* limit when another is admitted; the others do not grow.
LEMMA AdmitKeeps ==
    ASSUME LimiterInv, NEW k \in Key, Admit(k)
    PROVE  (\A j \in Key : Recorded(j)') /\ WindowBound'
<1> DEFINE r == [id |-> served, at |-> now]
<1>0. /\ now' = now /\ now \in Nat /\ r.at = now
      /\ requests' = [Swept EXCEPT ![k] = FreshOf(k) \cup {r}]
      /\ admitted' = [admitted EXCEPT ![k] = @ \cup {r}]
      /\ Cardinality(FreshOf(k)) < MaxRequests
      /\ IsFiniteSet(FreshOf(k))
      /\ MaxRequests \in Nat /\ RateWindow \in Nat
      /\ admitted \in [Key -> SUBSET Request]
      /\ requests \in [Key -> SUBSET Request]
      /\ Swept \in [Key -> SUBSET Request]
  BY RecentIsFresh, SweptTypes, LimiterAssumption DEF Admit, LimiterInv, LimiterTypeOK
<1> HIDE DEF r
<1>1. ASSUME NEW j \in Key, j # k PROVE Recorded(j)'
  <2>1. requests'[j] = Swept[j] /\ admitted'[j] = admitted[j] /\ FreshOf(j)' = FreshOf(j)
    BY <1>0, <1>1 DEF FreshOf, Fresh
  <2>2. Recorded(j)
    BY DEF LimiterInv
  <2> QED BY <1>0, <2>1, <2>2, SweptKeeps DEF Recorded
<1>2. Recorded(k)'
  <2>1. requests'[k] = FreshOf(k) \cup {r} /\ admitted'[k] = admitted[k] \cup {r}
    BY <1>0
  <2>2. FreshOf(k)' \subseteq FreshOf(k) \cup {r} /\ FreshOf(k) \subseteq admitted[k]
    BY <1>0, <2>1 DEF FreshOf, Fresh
  <2>3. IsFiniteSet(admitted[k] \cup {r}) /\ \A x \in admitted[k] : x.at <= now
    BY FS_AddElement DEF LimiterInv, Recorded
  <2>4. r.at <= now
    BY <1>0
  <2> QED BY <1>0, <2>1, <2>2, <2>3, <2>4 DEF Recorded
<1>3. ASSUME NEW j \in Key, NEW t \in 0..now PROVE Cardinality(Window(j, t)') <= MaxRequests
  <2>1. Cardinality(Window(j, t)) <= MaxRequests
    BY DEF LimiterInv, WindowBound
  <2>2. CASE j # k
    BY <1>0, <2>1, <2>2 DEF Window
  <2>3. CASE j = k /\ ~(now < t + RateWindow)
    <3>1. Window(k, t)' = Window(k, t)
      BY <1>0, <2>3 DEF Window
    <3> QED BY <2>1, <2>3, <3>1
  <2>4. CASE j = k /\ now < t + RateWindow
    <3>1. ASSUME NEW x \in Window(k, t)' PROVE x \in FreshOf(k) \cup {r}
      <4>1. x \in admitted[k] \cup {r} /\ t <= x.at
        BY <1>0, <3>1 DEF Window
      <4>2. CASE x \in admitted[k]
        <5>1. x.at \in Nat
          BY <1>0, <4>2 DEF Request
        <5>2. now - x.at < RateWindow
          BY <1>0, <2>4, <4>1, <5>1
        <5> QED BY <4>2, <5>2 DEF FreshOf, Fresh
      <4> QED BY <4>1, <4>2
    <3>2. IsFiniteSet(FreshOf(k) \cup {r}) /\ Cardinality(FreshOf(k) \cup {r}) <= MaxRequests
      <4>1. /\ IsFiniteSet(FreshOf(k) \cup {r})
            /\ \/ Cardinality(FreshOf(k) \cup {r}) = Cardinality(FreshOf(k))
               \/ Cardinality(FreshOf(k) \cup {r}) = Cardinality(FreshOf(k)) + 1
        BY <1>0, FS_AddElement
      <4>2. Cardinality(FreshOf(k)) \in Nat
        BY <1>0, FS_CardinalityType
      <4> QED BY <1>0, <4>1, <4>2
    <3>3. /\ Cardinality(Window(k, t)') <= Cardinality(FreshOf(k) \cup {r})
          /\ Cardinality(Window(k, t)') \in Nat
          /\ Cardinality(FreshOf(k) \cup {r}) \in Nat
      <4>1. Window(k, t)' \subseteq FreshOf(k) \cup {r}
        BY <3>1
      <4>2. IsFiniteSet(Window(k, t)') /\ Cardinality(Window(k, t)') <= Cardinality(FreshOf(k) \cup {r})
        BY <3>2, <4>1, FS_Subset
      <4> QED BY <3>2, <4>2, FS_CardinalityType
    <3> QED BY <1>0, <2>4, <3>2, <3>3
  <2> QED BY <2>2, <2>3, <2>4
<1> QED BY <1>0, <1>1, <1>2, <1>3 DEF WindowBound

LEMMA RefuseKeeps ==
    ASSUME LimiterInv, NEW k \in Key, Refuse(k)
    PROVE  (\A j \in Key : Recorded(j)') /\ WindowBound'
<1>0. /\ now' = now /\ admitted' = admitted
      /\ requests' = [Swept EXCEPT ![k] = FreshOf(k)]
      /\ Swept \in [Key -> SUBSET Request]
  BY RecentIsFresh, SweptTypes DEF Refuse, LimiterInv
<1>1. ASSUME NEW j \in Key PROVE Recorded(j)'
  <2>1. requests'[j] \in {Swept[j], FreshOf(j)} /\ FreshOf(j)' = FreshOf(j)
    BY <1>0 DEF FreshOf, Fresh
  <2>2. FreshOf(j) \subseteq admitted[j]
    BY DEF FreshOf
  <2> QED BY <1>0, <2>1, <2>2, SweptKeeps DEF LimiterInv, Recorded
<1>2. WindowBound'
  BY <1>0 DEF LimiterInv, WindowBound, Window
<1> QED BY <1>1, <1>2

\* The clock only makes requests expire.
LEMMA TickKeeps ==
    ASSUME LimiterInv, Tick
    PROVE  (\A j \in Key : Recorded(j)') /\ WindowBound'
<1>0. /\ now' = now + 1 /\ now \in Nat /\ requests' = requests /\ admitted' = admitted
      /\ RateWindow \in Nat /\ MaxRequests \in Nat /\ MaxRequests >= 0
  BY LimiterAssumption DEF Tick, LimiterInv, LimiterTypeOK
<1>1. ASSUME NEW j \in Key, NEW x \in admitted[j] PROVE x.at \in Nat /\ x.at <= now
  BY DEF LimiterInv, LimiterTypeOK, Recorded, Request
<1>2. ASSUME NEW j \in Key PROVE Recorded(j)'
  <2>1. FreshOf(j)' \subseteq FreshOf(j)
    BY <1>0, <1>1 DEF FreshOf, Fresh
  <2>2. \A x \in admitted[j] : x.at <= now'
    BY <1>0, <1>1
  <2> QED BY <1>0, <2>1, <2>2 DEF LimiterInv, Recorded
<1>3. ASSUME NEW j \in Key, NEW t \in 0..now' PROVE Cardinality(Window(j, t)') <= MaxRequests
  <2>1. Window(j, t)' = Window(j, t)
    BY <1>0 DEF Window
  <2>2. CASE t \in 0..now
    BY <2>1, <2>2 DEF LimiterInv, WindowBound
  <2>3. CASE t = now + 1
    <3>1. Window(j, t) = {}
      BY <1>0, <1>1, <2>3 DEF Window
    <3> QED BY <1>0, <2>1, <3>1, FS_EmptySet
  <2> QED BY <1>0, <2>2, <2>3
<1> QED BY <1>2, <1>3 DEF WindowBound

LEMMA ResetKeeps ==
    ASSUME LimiterInv, Reset
    PROVE  (\A j \in Key : Recorded(j)') /\ WindowBound'
<1>1. ASSUME NEW j \in Key PROVE Recorded(j)'
  BY FS_EmptySet DEF Reset, Recorded, FreshOf
<1>2. ASSUME NEW j \in Key, NEW t \in 0..now' PROVE Window(j, t)' = {}
  BY DEF Reset, Window
<1>3. WindowBound'
  BY <1>2, FS_EmptySet, LimiterAssumption DEF WindowBound
<1> QED BY <1>1, <1>3

LEMMA LimiterInvStep == LimiterInv /\ [LimiterNext]_limiter => LimiterInv'
<1> SUFFICES ASSUME LimiterInv, [LimiterNext]_limiter PROVE LimiterInv'
  OBVIOUS
<1>1. LimiterTypeOK'
  BY LimiterTypeStep DEF LimiterInv
<1>2. CASE UNCHANGED limiter
  BY <1>1, <1>2 DEF limiter, LimiterInv, Recorded, FreshOf, Fresh, WindowBound, Window
<1> QED BY <1>1, <1>2, AdmitKeeps, RefuseKeeps, TickKeeps, ResetKeeps DEF LimiterNext, LimiterInv

THEOREM LimiterInvariance == LimiterSpec => []LimiterInv
BY LimiterInvInit, LimiterInvStep, PTL DEF LimiterSpec

-----------------------------------------------------------------------------
(* The properties. *)

\* No window of time holds more admitted requests of a peer than the limit,
\* whatever has been swept and pruned.
THEOREM WindowBounded == LimiterSpec => []WindowBound
<1>1. LimiterInv => WindowBound
  BY DEF LimiterInv
<1> QED BY <1>1, LimiterInvariance, PTL

\* A peer is refused only with the limit admitted and still fresh.
LEMMA RefusalJustified ==
    LimiterInv => [\A k \in Key :
        Refuse(k) => Cardinality({r \in admitted[k] : Fresh(r)}) >= MaxRequests]_limiter
BY RecentIsFresh DEF Refuse, FreshOf

THEOREM RefusedOnlyAtLimit == LimiterSpec => RefusedAtLimit
BY RefusalJustified, LimiterInvariance, PTL DEF RefusedAtLimit


-----------------------------------------------------------------------------
(* The notes and the migrations.                                           *)

\* The statements of the migration under way that have run
Begun == {x \in Statement : x[1] = next[1] /\ x[2] < next[2]}

\* While it migrates the server has whole migrations on disk and sees in
\* addition what it has begun; else it sees what is on disk.
Migration ==
    /\ MigratedWhole
    /\ pc # "migrating" => db = disk
    /\ pc = "migrating" =>
          /\ db.version = disk.version
          /\ next[1] = db.version + 1
          /\ db.schema = Upto(db.version) \cup Begun
          /\ next[2] = 1 => db = disk
          /\ next[1] > Latest => next[2] = 1
    /\ pc = "up" => db.version = Latest

\* The statement that moves the older notes
Move == <<5, 3>>

\* Before it has run there are no rows; afterwards they agree.
Unmoved(t) ==
    \A s \in Session : t.rows[s] = <<>> /\ (s \notin t.sessions => t.legacy[s] = Null)

Agree(t, s) ==
    /\ Len(t.rows[s]) <= 1
    /\ s \notin t.sessions => t.rows[s] = <<>> /\ t.legacy[s] = Null
    /\ s \notin legacyOnly =>
          IF t.rows[s] = <<>> THEN t.legacy[s] \in {Null, Empty}
                              ELSE t.legacy[s] = t.rows[s][1]

Notes(t) ==
    /\ Move \notin t.schema => Unmoved(t)
    /\ Move \in t.schema => \A s \in Session : Agree(t, s)

IInv == TypeOK /\ LimiterInv /\ Migration /\ Notes(db) /\ Notes(disk)

-----------------------------------------------------------------------------
(* The script and the tables.                                              *)

\* Every migration has one to three statements.
LEMMA ScriptLengths == \A v \in 2..7 : Len(Script[v]) \in 1..3
<1> TAKE v \in 2..7
<1>1. CASE v = 2
  BY <1>1 DEF Script
<1>2. CASE v = 3
  BY <1>2 DEF Script
<1>3. CASE v = 4
  BY <1>3 DEF Script
<1>4. CASE v = 5
  BY <1>4 DEF Script
<1>5. CASE v \in {6, 7}
  BY <1>5 DEF Script
<1> QED BY <1>1, <1>2, <1>3, <1>4, <1>5

\* Only the last statement of version 5 moves notes.
LEMMA OneMove ==
    /\ Move \in Statement
    /\ \A x \in Statement : Script[x[1]][x[2]] = "backfill" <=> x = Move
<1>1. Move \in Statement
  BY DEF Move, Statement, Script
<1>2. ASSUME NEW x \in Statement PROVE Script[x[1]][x[2]] = "backfill" <=> x = Move
  <2>1. x = <<x[1], x[2]>> /\ x[1] \in 2..7 /\ x[2] \in 1..3 /\ x[2] <= Len(Script[x[1]])
    BY DEF Statement
  <2>2. CASE x[1] = 2
    BY <2>1, <2>2 DEF Script, Move
  <2>3. CASE x[1] = 3
    BY <2>1, <2>3 DEF Script, Move
  <2>4. CASE x[1] = 4
    BY <2>1, <2>4 DEF Script, Move
  <2>5. CASE x[1] = 5
    BY <2>1, <2>5 DEF Script, Move
  <2>6. CASE x[1] \in {6, 7}
    BY <2>1, <2>6 DEF Script, Move
  <2> QED BY <2>1, <2>2, <2>3, <2>4, <2>5, <2>6
<1> QED BY <1>1, <1>2

\* The fields of tables that were made
LEMMA MadeFields ==
    ASSUME NEW v, NEW x, NEW S, NEW l, NEW r
    PROVE  /\ Made(v, x, S, l, r).version = v
           /\ Made(v, x, S, l, r).schema = x
           /\ Made(v, x, S, l, r).sessions = S
           /\ Made(v, x, S, l, r).legacy = l
           /\ Made(v, x, S, l, r).rows = r
BY DEF Made

LEMMA MadeType ==
    ASSUME NEW v \in {0} \cup Versions, NEW x \in SUBSET Statement, NEW S \in SUBSET Session,
           NEW l \in [Session -> Body \cup {Null}], NEW r \in [Session -> Seq(Body)]
    PROVE  Made(v, x, S, l, r) \in Tables
BY DEF Made, Tables

\* The types of the fields
LEMMA TableFields ==
    ASSUME NEW t \in Tables
    PROVE  /\ t.version \in {0} \cup Versions
           /\ t.schema \in SUBSET Statement
           /\ t.sessions \in SUBSET Session
           /\ t.legacy \in [Session -> Body \cup {Null}]
           /\ t.rows \in [Session -> Seq(Body)]
BY DEF Tables

-----------------------------------------------------------------------------
(* Types.                                                                  *)

\* The notes of a session after a request
LEMMA NotedType ==
    ASSUME TypeOK, NEW s \in Session, NEW body \in Body
    PROVE  Noted(s, body) \in Seq(Body)
<1>1. db.rows[s] \in Seq(Body)
  BY TableFields DEF TypeOK
<1> QED BY <1>1 DEF Noted

\* A statement makes tables of tables.
LEMMA AfterType ==
    ASSUME TypeOK, NEW x \in Statement
    PROVE  After(x) \in Tables
<1>1. /\ db.version \in {0} \cup Versions /\ db.schema \in SUBSET Statement
      /\ db.sessions \in SUBSET Session
      /\ db.legacy \in [Session -> Body \cup {Null}] /\ db.rows \in [Session -> Seq(Body)]
  BY TableFields DEF TypeOK
<1>2. Backfilled \in [Session -> Seq(Body)]
  <2>1. ASSUME NEW s \in Session
        PROVE  (IF s \in db.sessions /\ db.legacy[s] \notin {Null, Empty}
                THEN Append(db.rows[s], db.legacy[s]) ELSE db.rows[s]) \in Seq(Body)
    <3>1. db.rows[s] \in Seq(Body) /\ db.legacy[s] \in Body \cup {Null}
      BY <1>1
    <3>2. db.legacy[s] \in Body => Append(db.rows[s], db.legacy[s]) \in Seq(Body)
      BY <3>1
    <3> QED BY <3>1, <3>2
  <2> QED BY <2>1 DEF Backfilled
<1>3. db.schema \cup {x} \in SUBSET Statement
  BY <1>1
<1> QED BY <1>1, <1>2, <1>3, MadeType DEF After

\* The migrations leave tables.
LEMMA StartKeeps ==
    ASSUME TypeOK, Start
    PROVE  db' \in Tables /\ disk' \in Tables /\ next' \in (2..8) \X (1..4)
<1> DEFINE v == IF disk.version = 0 THEN 1 ELSE disk.version
<1>1. /\ disk.version \in {0} \cup Versions /\ disk.schema \in SUBSET Statement
      /\ disk.sessions \in SUBSET Session
      /\ disk.legacy \in [Session -> Body \cup {Null}]
      /\ disk.rows \in [Session -> Seq(Body)]
  BY TableFields DEF TypeOK
<1>2. v \in 1..7
  BY <1>1 DEF Versions
<1>3. v \in {0} \cup Versions
  BY <1>2 DEF Versions
<1> HIDE DEF v
<1>4. disk' = SetVersion(disk, v) /\ db' = disk' /\ next' = <<disk'.version + 1, 1>>
  BY DEF Start, v
<1>5. disk' \in Tables
  BY <1>1, <1>3, <1>4, MadeType DEF SetVersion
<1>6. disk'.version = v
  BY <1>4, MadeFields DEF SetVersion
<1> QED BY <1>2, <1>4, <1>5, <1>6

LEMMA ExecuteKeeps ==
    ASSUME TypeOK, Execute
    PROVE  next \in Statement /\ db' \in Tables /\ next' \in (2..8) \X (1..4)
<1>1. /\ next[1] \in 2..7 /\ next[2] \in 1..4 /\ next = <<next[1], next[2]>>
      /\ next[2] <= Len(Script[next[1]])
  BY DEF TypeOK, Execute, AtStatement, Latest
<1>2. PICK n \in 1..3 : Len(Script[next[1]]) = n
  BY <1>1, ScriptLengths
<1>3. next[2] \in 1..3
  <2>1. next[2] \in 1..4 /\ next[2] <= n
    BY <1>1, <1>2
  <2> QED BY <2>1
<1>4. next \in Statement
  BY <1>1, <1>3 DEF Statement
<1>5. db' \in Tables
  BY <1>4, AfterType DEF Execute
<1>6. next' \in (2..8) \X (1..4)
  BY <1>1, <1>3 DEF Execute
<1> QED BY <1>4, <1>5, <1>6

LEMMA RecordKeeps ==
    ASSUME TypeOK, Record
    PROVE  db' \in Tables /\ disk' \in Tables /\ next' \in (2..8) \X (1..4)
<1>1. next[1] \in 2..7
  BY DEF TypeOK, Record, Latest
<1>2. next[1] \in {0} \cup Versions
  BY <1>1 DEF Versions
<1>3. db' = SetVersion(db, next[1]) /\ disk' = db' /\ next' = <<next[1] + 1, 1>>
  BY DEF Record
<1>4. db' \in Tables
  BY <1>2, <1>3, TableFields, MadeType DEF SetVersion, TypeOK
<1>5. next' \in (2..8) \X (1..4)
  BY <1>1, <1>3
<1> QED BY <1>3, <1>4, <1>5

\* So do the requests.
LEMMA RequestsKeep ==
    ASSUME TypeOK, NEW k \in Key, NEW s \in Session, NEW body \in Body,
           \/ StartSession(k, s)
           \/ Discard(k, s)
           \/ UpdateNotes(k, s, body)
           \/ UpdateSession(k, s, body)
    PROVE  db' \in Tables /\ disk' = db' /\ legacyOnly' \subseteq Session
<1>1. /\ db.version \in {0} \cup Versions /\ db.schema \in SUBSET Statement
      /\ db.sessions \in SUBSET Session
      /\ db.legacy \in [Session -> Body \cup {Null}] /\ db.rows \in [Session -> Seq(Body)]
      /\ legacyOnly \subseteq Session
  BY TableFields DEF TypeOK
<1>2. CASE StartSession(k, s)
  <2>1. db.sessions \cup {s} \in SUBSET Session
    BY <1>1
  <2>2. Made(db.version, db.schema, db.sessions \cup {s}, db.legacy, db.rows) \in Tables
    BY <1>1, <2>1, MadeType
  <2> QED BY <1>1, <1>2, <2>2 DEF StartSession, Write
<1>3. CASE Discard(k, s)
  <2>1. /\ db.sessions \ {s} \in SUBSET Session
        /\ [db.legacy EXCEPT ![s] = Null] \in [Session -> Body \cup {Null}]
    BY <1>1
  <2>2. [db.rows EXCEPT ![s] = <<>>] \in [Session -> Seq(Body)]
    BY <1>1
  <2>3. Made(db.version, db.schema, db.sessions \ {s}, [db.legacy EXCEPT ![s] = Null],
             [db.rows EXCEPT ![s] = <<>>]) \in Tables
    BY <1>1, <2>1, <2>2, MadeType
  <2> QED BY <1>1, <1>3, <2>3 DEF Discard, Write
<1>4. CASE UpdateNotes(k, s, body)
  <2>1. [db.legacy EXCEPT ![s] = body] \in [Session -> Body \cup {Null}]
    BY <1>1
  <2>2. [db.rows EXCEPT ![s] = Noted(s, body)] \in [Session -> Seq(Body)]
    BY <1>1, NotedType
  <2>3. SetNotes(db, [db.legacy EXCEPT ![s] = body], [db.rows EXCEPT ![s] = Noted(s, body)])
            \in Tables
    BY <1>1, <2>1, <2>2, MadeType DEF SetNotes
  <2> QED BY <1>1, <1>4, <2>3 DEF UpdateNotes, Write
<1>5. CASE UpdateSession(k, s, body)
  <2>1. [db.legacy EXCEPT ![s] = body] \in [Session -> Body \cup {Null}]
    BY <1>1
  <2>2. SetNotes(db, [db.legacy EXCEPT ![s] = body], db.rows) \in Tables
    BY <1>1, <2>1, MadeType DEF SetNotes
  <2> QED BY <1>1, <1>5, <2>2 DEF UpdateSession, Write
<1> QED BY <1>2, <1>3, <1>4, <1>5

\* Every step is one of the limiter or leaves it alone.
LEMMA LimiterSteps == [Next]_vars => [LimiterNext]_limiter
<1> SUFFICES ASSUME [Next]_vars PROVE [LimiterNext]_limiter
  OBVIOUS
<1>1. CASE Start \/ Execute \/ Record \/ Serve \/ Fail
  BY <1>1 DEF Start, Execute, Record, Serve, Fail
<1>2. CASE Crash
  BY <1>2 DEF Crash, LimiterNext
<1>3. ASSUME NEW k \in Key, NEW s \in Session, NEW body \in Body,
             \/ StartSession(k, s)
             \/ Discard(k, s)
             \/ UpdateNotes(k, s, body)
             \/ UpdateSession(k, s, body)
      PROVE  LimiterNext
  <2>1. Admit(k)
    BY <1>3 DEF StartSession, Discard, UpdateNotes, UpdateSession
  <2> QED BY <2>1 DEF LimiterNext
<1>4. ASSUME NEW k \in Key, Limited(k) PROVE LimiterNext
  BY <1>4 DEF Limited, LimiterNext
<1>5. CASE Passes
  BY <1>5 DEF Passes, LimiterNext
<1>6. CASE UNCHANGED vars
  BY <1>6 DEF vars
<1>7. Empty \in Body
  BY NotesAssumption
<1> QED BY <1>1, <1>2, <1>3, <1>4, <1>5, <1>6, <1>7 DEF Next

\* Every step keeps the types.
LEMMA TypeStep == TypeOK /\ [Next]_vars => TypeOK'
<1> SUFFICES ASSUME TypeOK, [Next]_vars PROVE TypeOK'
  OBVIOUS
<1>0. LimiterTypeOK'
  BY LimiterSteps, LimiterTypeStep DEF TypeOK
<1> USE NotesAssumption
<1>1. CASE Start
  BY <1>0, <1>1, StartKeeps DEF Start, TypeOK
<1>2. CASE Execute
  BY <1>0, <1>2, ExecuteKeeps DEF Execute, TypeOK
<1>3. CASE Record
  BY <1>0, <1>3, RecordKeeps DEF Record, TypeOK
<1>4. CASE Serve
  BY <1>0, <1>4 DEF Serve, TypeOK
<1>5. CASE Fail
  BY <1>0, <1>5 DEF Fail, TypeOK
<1>6. CASE Crash
  BY <1>0, <1>6 DEF Crash, TypeOK
<1>7. ASSUME NEW k \in Key, NEW s \in Session, NEW body \in Body,
             \/ StartSession(k, s)
             \/ Discard(k, s)
             \/ UpdateNotes(k, s, body)
             \/ UpdateSession(k, s, body)
      PROVE  TypeOK'
  <2>1. db' \in Tables /\ disk' \in Tables /\ legacyOnly' \subseteq Session
    BY <1>7, RequestsKeep
  <2>2. UNCHANGED <<pc, next, troubles>>
    BY <1>7 DEF StartSession, Discard, UpdateNotes, UpdateSession
  <2> QED BY <1>0, <2>1, <2>2 DEF TypeOK
<1>8. ASSUME NEW k \in Key, Limited(k) PROVE TypeOK'
  BY <1>0, <1>8 DEF Limited, notes, TypeOK
<1>9. CASE Passes
  BY <1>0, <1>9 DEF Passes, notes, TypeOK
<1>10. CASE UNCHANGED vars
  BY <1>0, <1>10 DEF vars, notes, TypeOK
<1> QED
  BY <1>1, <1>2, <1>3, <1>4, <1>5, <1>6, <1>7, <1>8, <1>9, <1>10 DEF Next

-----------------------------------------------------------------------------
(* Migrations.                                                             *)

\* What a migration has begun grows by the statement that runs.
LEMMA BegunGrows ==
    ASSUME TypeOK, Execute
    PROVE  Begun' = Begun \cup {next}
<1>1. /\ next \in Statement /\ next = <<next[1], next[2]>>
      /\ next[1] \in Nat /\ next[2] \in Nat
      /\ next'[1] = next[1] /\ next'[2] = next[2] + 1
  BY ExecuteKeeps DEF TypeOK, Execute
<1>2. ASSUME NEW x \in Statement
      PROVE  (x[1] = next[1] /\ x[2] < next[2] + 1)
                 <=> (x[1] = next[1] /\ x[2] < next[2]) \/ x = next
  <2>1. x = <<x[1], x[2]>> /\ x[2] \in Nat
    BY DEF Statement
  <2> QED BY <1>1, <2>1
<1> QED BY <1>1, <1>2 DEF Begun

\* When a version is recorded all its statements have run.
LEMMA RecordedWhole ==
    ASSUME TypeOK, Migration, Record
    PROVE  db.schema = Upto(next[1]) /\ Begun' = {}
<1>1. /\ next[1] \in 2..7 /\ next[2] \in Nat /\ next[2] > Len(Script[next[1]])
      /\ next[1] = db.version + 1 /\ db.schema = Upto(db.version) \cup Begun
      /\ next' = <<next[1] + 1, 1>>
  BY DEF TypeOK, Migration, Record, Latest
<1>2. db.version \in Nat
  BY TableFields DEF TypeOK, Versions
<1>3. ASSUME NEW x \in Statement
      PROVE  x[1] <= next[1] <=> x[1] <= db.version \/ (x[1] = next[1] /\ x[2] < next[2])
  <2>1. x[1] \in Nat /\ x[2] \in Nat /\ x[2] <= Len(Script[x[1]])
    BY DEF Statement
  <2>2. PICK n \in 1..3 : Len(Script[next[1]]) = n
    BY <1>1, ScriptLengths
  <2>3. x[1] = next[1] => x[2] <= n
    BY <2>1, <2>2
  <2>4. n < next[2]
    BY <1>1, <2>2
  <2> QED BY <1>1, <1>2, <2>1, <2>3, <2>4
<1>4. db.schema = Upto(next[1])
  BY <1>1, <1>3 DEF Upto, Begun
<1>5. \A x \in Statement : ~ (x[2] < 1)
  BY DEF Statement
<1> QED BY <1>1, <1>4, <1>5 DEF Begun

\* Whole migrations are what is durable.
LEMMA MigrationStep == TypeOK /\ Migration /\ [Next]_vars => Migration'
<1> SUFFICES ASSUME TypeOK, Migration, [Next]_vars PROVE Migration'
  OBVIOUS
<1>0. /\ disk.version \in Nat /\ db.version \in Nat
      /\ \A x \in Statement : x[1] \in 2..7 /\ x[2] \in 1..3
  BY TableFields DEF TypeOK, Versions, Statement
<1>1. CASE Start
  <2> DEFINE v == IF disk.version = 0 THEN 1 ELSE disk.version
  <2>1. /\ disk'.version = v /\ disk'.schema = disk.schema /\ db' = disk' /\ pc' = "migrating"
        /\ next' = <<disk'.version + 1, 1>>
    BY <1>1, MadeFields DEF Start, SetVersion
  <2>2. Upto(v) = Upto(disk.version)
    BY <1>0 DEF Upto
  <2>3. \A x \in Statement : ~ (x[2] < 1)
    BY <1>0
  <2>4. Begun' = {}
    BY <2>1, <2>3 DEF Begun
  <2> HIDE DEF v
  <2>5. MigratedWhole'
    BY <2>1, <2>2 DEF Migration, MigratedWhole, Upto
  <2>6. db'.schema = Upto(db'.version)
    BY <2>1, <2>5 DEF MigratedWhole, Upto
  <2> QED BY <2>1, <2>4, <2>5, <2>6 DEF Migration
<1>2. CASE Execute
  <2>1. /\ pc = "migrating" /\ pc' = pc /\ disk' = disk /\ next'[1] = next[1]
        /\ db'.version = db.version /\ db'.schema = db.schema \cup {next}
    BY <1>2, MadeFields DEF Execute, AtStatement, After
  <2>2. Begun' = Begun \cup {next}
    BY <1>2, BegunGrows
  <2>3. next[1] <= Latest /\ next[2] \in 1..4 /\ next'[2] = next[2] + 1
    BY <1>2 DEF Execute, AtStatement, TypeOK
  <2>4. next'[2] # 1 /\ ~ (next'[1] > Latest)
    BY <2>1, <2>3 DEF TypeOK, Latest
  <2> QED BY <2>1, <2>2, <2>4 DEF Migration, MigratedWhole, Upto
<1>3. CASE Record
  <2>1. /\ pc = "migrating" /\ pc' = pc /\ disk' = db' /\ next'[1] = next[1] + 1
        /\ next'[2] = 1 /\ db'.version = next[1] /\ db'.schema = db.schema
    BY <1>3, MadeFields DEF Record, SetVersion
  <2>2. db.schema = Upto(next[1]) /\ Begun' = {}
    BY <1>3, RecordedWhole
  <2> QED BY <2>1, <2>2 DEF Migration, MigratedWhole, Upto
<1>4. CASE Serve
  <2>1. /\ pc = "migrating" /\ pc' = "up" /\ UNCHANGED <<db, disk, next>> /\ next[1] > 7
    BY <1>4 DEF Serve, Latest
  <2>2. next[1] \in 2..8 /\ next[1] = db.version + 1
    BY <2>1 DEF TypeOK, Migration
  <2>3. db.version = 7 /\ db.version = disk.version
    BY <1>0, <2>1, <2>2 DEF Migration
  <2>4. db = disk
    BY <2>1 DEF Migration, Latest
  <2> QED BY <2>1, <2>3, <2>4 DEF Migration, MigratedWhole, Latest
<1>5. CASE Fail
  BY <1>5 DEF Fail, AtStatement, Migration, MigratedWhole, Upto
<1>6. CASE Crash
  BY <1>6 DEF Crash, Migration, MigratedWhole, Upto
<1>7. ASSUME NEW k \in Key, NEW s \in Session, NEW body \in Body,
             \/ StartSession(k, s)
             \/ Discard(k, s)
             \/ UpdateNotes(k, s, body)
             \/ UpdateSession(k, s, body)
      PROVE  Migration'
  <2>1. /\ pc = "up" /\ pc' = pc /\ disk' = db'
        /\ db'.version = db.version /\ db'.schema = db.schema
    BY <1>7, MadeFields DEF StartSession, Discard, UpdateNotes, UpdateSession, Write, SetNotes
  <2> QED BY <2>1 DEF Migration, MigratedWhole, Upto
<1>8. ASSUME NEW k \in Key, Limited(k) PROVE Migration'
  BY <1>8 DEF Limited, notes, Migration, MigratedWhole, Upto, Begun
<1>9. CASE Passes
  BY <1>9 DEF Passes, notes, Migration, MigratedWhole, Upto, Begun
<1>10. CASE UNCHANGED vars
  BY <1>10 DEF vars, notes, Migration, MigratedWhole, Upto, Begun
<1>11. Empty \in Body
  BY NotesAssumption
<1> QED
  BY <1>1, <1>2, <1>3, <1>4, <1>5, <1>6, <1>7, <1>8, <1>9, <1>10, <1>11 DEF Next

-----------------------------------------------------------------------------
(* Notes.                                                                  *)

\* A body in the place of the first note
LEMMA NotedNote ==
    ASSUME TypeOK, NEW s \in Session, NEW body \in Body, Len(db.rows[s]) <= 1
    PROVE  Len(Noted(s, body)) <= 1 /\ Noted(s, body) # <<>> /\ Noted(s, body)[1] = body
<1>1. db.rows[s] \in Seq(Body)
  BY TableFields DEF TypeOK
<1>2. CASE db.rows[s] = <<>>
  BY <1>2 DEF Noted
<1>3. CASE db.rows[s] # <<>>
  <2> DEFINE r == [db.rows[s] EXCEPT ![1] = body]
  <2>1. Len(db.rows[s]) = 1
    <3> DEFINE q == db.rows[s]
    <3>1. q \in Seq(Body) /\ q # <<>> /\ Len(q) <= 1
      BY <1>1, <1>3
    <3> HIDE DEF q
    <3>2. Len(q) \in Nat \ {0}
      BY <3>1, EmptySeq, Zenon
    <3>3. PICK n \in Nat \ {0} : Len(q) = n
      BY <3>2, Zenon
    <3>4. n <= 1
      BY <3>1, <3>3, Zenon
    <3>5. n = 1
      BY <3>4
    <3> QED BY <3>3, <3>5, Zenon DEF q
  <2>2. r \in Seq(Body) /\ Len(r) = 1 /\ r[1] = body
    BY <1>1, <2>1
  <2> QED BY <1>3, <2>2, EmptySeq DEF Noted
<1> QED BY <1>2, <1>3

\* The move of the older notes makes them agree.
LEMMA MoveAgrees ==
    ASSUME TypeOK, Unmoved(db), db'.sessions = db.sessions, db'.legacy = db.legacy,
           db'.rows = Backfilled, legacyOnly' = legacyOnly, NEW s \in Session
    PROVE  Agree(db, s)'
<1>1. /\ db.rows[s] = <<>> /\ (s \notin db.sessions => db.legacy[s] = Null)
      /\ db.legacy[s] \in Body \cup {Null}
  BY TableFields DEF Unmoved, TypeOK
<1>2. db'.rows[s] = IF s \in db.sessions /\ db.legacy[s] \notin {Null, Empty}
                    THEN <<db.legacy[s]>> ELSE <<>>
  <2>1. db'.rows[s] = IF s \in db.sessions /\ db.legacy[s] \notin {Null, Empty}
                      THEN Append(<<>>, db.legacy[s]) ELSE <<>>
    BY <1>1, Zenon DEF Backfilled
  <2>2. Append(<<>>, db.legacy[s]) = <<db.legacy[s]>>
    OBVIOUS
  <2> QED BY <2>1, <2>2, Zenon
<1>3. CASE s \in db.sessions /\ db.legacy[s] \notin {Null, Empty}
  <2>1. db'.rows[s] = <<db.legacy[s]>>
    BY <1>2, <1>3
  <2>2. Len(db'.rows[s]) = 1 /\ db'.rows[s] # <<>> /\ db'.rows[s][1] = db.legacy[s]
    BY <2>1
  <2> QED BY <1>3, <2>2 DEF Agree
<1>4. CASE ~ (s \in db.sessions /\ db.legacy[s] \notin {Null, Empty})
  <2>1. db'.rows[s] = <<>> /\ db'.legacy[s] \in {Null, Empty}
    BY <1>1, <1>2, <1>4
  <2>2. Len(db'.rows[s]) <= 1
    BY <2>1
  <2> QED BY <1>1, <2>1, <2>2 DEF Agree
<1> QED BY <1>3, <1>4

\* A request leaves the notes of every session in agreement.
LEMMA RequestAgrees ==
    ASSUME TypeOK, \A s \in Session : Agree(db, s),
           NEW k \in Key, NEW s \in Session, NEW body \in Body,
           \/ StartSession(k, s)
           \/ Discard(k, s)
           \/ UpdateNotes(k, s, body)
           \/ UpdateSession(k, s, body),
           NEW z \in Session
    PROVE  Agree(db, z)'
<1>0. /\ db.sessions \in SUBSET Session
      /\ db.legacy \in [Session -> Body \cup {Null}] /\ db.rows \in [Session -> Seq(Body)]
      /\ legacyOnly \subseteq Session
  BY TableFields DEF TypeOK
<1>1. Agree(db, z) /\ Agree(db, s)
  OBVIOUS
<1>2. CASE StartSession(k, s)
  <2>1. /\ db'.rows = db.rows /\ db'.legacy = db.legacy /\ legacyOnly' = legacyOnly
        /\ db'.sessions = db.sessions \cup {s}
    BY <1>2, MadeFields DEF StartSession, Write
  <2> QED BY <1>1, <2>1 DEF Agree
<1>3. CASE Discard(k, s)
  <2>1. /\ db'.rows = [db.rows EXCEPT ![s] = <<>>] /\ db'.legacy = [db.legacy EXCEPT ![s] = Null]
        /\ db'.sessions = db.sessions \ {s} /\ legacyOnly' = legacyOnly \ {s}
    BY <1>3, MadeFields DEF Discard, Write
  <2>2. CASE z = s
    <3>1. db'.rows[z] = <<>> /\ db'.legacy[z] = Null
      BY <1>0, <2>1, <2>2
    <3>2. Len(db'.rows[z]) <= 1
      BY <3>1
    <3> QED BY <3>1, <3>2 DEF Agree
  <2>3. CASE z # s
    <3>1. /\ db'.rows[z] = db.rows[z] /\ db'.legacy[z] = db.legacy[z]
          /\ (z \in db'.sessions <=> z \in db.sessions) /\ (z \in legacyOnly' <=> z \in legacyOnly)
      BY <1>0, <2>1, <2>3
    <3> QED BY <1>1, <3>1 DEF Agree
  <2> QED BY <2>2, <2>3
<1>4. CASE UpdateNotes(k, s, body)
  <2>1. /\ db'.rows = [db.rows EXCEPT ![s] = Noted(s, body)]
        /\ db'.legacy = [db.legacy EXCEPT ![s] = body]
        /\ db'.sessions = db.sessions /\ legacyOnly' = legacyOnly \ {s} /\ s \in db.sessions
    BY <1>4, MadeFields DEF UpdateNotes, Write, SetNotes
  <2>2. CASE z = s
    <3>1. db'.rows[z] = Noted(s, body) /\ db'.legacy[z] = body
      BY <1>0, <2>1, <2>2
    <3>2. Len(db.rows[s]) <= 1
      BY <1>1 DEF Agree
    <3>3. Len(Noted(s, body)) <= 1 /\ Noted(s, body) # <<>> /\ Noted(s, body)[1] = body
      BY <3>2, NotedNote
    <3> HIDE DEF Noted
    <3> QED BY <2>1, <2>2, <3>1, <3>3 DEF Agree
  <2>3. CASE z # s
    <3>1. /\ db'.rows[z] = db.rows[z] /\ db'.legacy[z] = db.legacy[z]
          /\ (z \in legacyOnly' <=> z \in legacyOnly)
      BY <1>0, <2>1, <2>3
    <3> QED BY <1>1, <2>1, <3>1 DEF Agree
  <2> QED BY <2>2, <2>3
<1>5. CASE UpdateSession(k, s, body)
  <2>1. /\ db'.rows = db.rows /\ db'.legacy = [db.legacy EXCEPT ![s] = body]
        /\ db'.sessions = db.sessions /\ legacyOnly' = legacyOnly \cup {s} /\ s \in db.sessions
    BY <1>5, MadeFields DEF UpdateSession, Write, SetNotes
  <2>2. z # s => db'.legacy[z] = db.legacy[z]
    BY <1>0, <2>1
  <2> QED BY <1>1, <2>1, <2>2 DEF Agree
<1> QED BY <1>2, <1>3, <1>4, <1>5

\* Tables with the notes of t are as t was.
LEMMA SameNotes ==
    ASSUME NEW t, Notes(t), legacyOnly' = legacyOnly
    PROVE  /\ db' = t => Notes(db)'
           /\ disk' = t => Notes(disk)'
           /\ (/\ db'.schema = t.schema /\ db'.sessions = t.sessions
               /\ db'.legacy = t.legacy /\ db'.rows = t.rows) => Notes(db)'
           /\ (/\ disk'.schema = t.schema /\ disk'.sessions = t.sessions
               /\ disk'.legacy = t.legacy /\ disk'.rows = t.rows) => Notes(disk)'
BY DEF Notes, Unmoved, Agree

\* A statement moves the notes or leaves them alone.
LEMMA ExecuteNotes ==
    ASSUME TypeOK, Migration, Notes(db), Execute
    PROVE  Notes(db)'
<1>1. /\ next \in Statement /\ next[1] = db.version + 1 /\ legacyOnly' = legacyOnly
      /\ db.schema = Upto(db.version) \cup Begun /\ db.version \in Nat
      /\ next[2] \in Nat
  BY ExecuteKeeps, TableFields DEF Execute, AtStatement, Migration, TypeOK, Versions
<1>2. /\ db'.schema = db.schema \cup {next} /\ db'.sessions = db.sessions
      /\ db'.legacy = db.legacy
      /\ db'.rows = IF Script[next[1]][next[2]] = "backfill" THEN Backfilled ELSE db.rows
  BY MadeFields DEF Execute, After
<1>3. CASE next = Move
  <2>1. Move \notin db.schema
    BY <1>1, <1>3 DEF Upto, Begun
  <2>2. db'.rows = Backfilled
    BY <1>1, <1>2, <1>3, OneMove, Zenon
  <2>3. Unmoved(db)
    BY <2>1 DEF Notes
  <2>4. \A s \in Session : Agree(db, s)'
    BY <1>1, <1>2, <2>2, <2>3, MoveAgrees
  <2>5. Move \in db'.schema
    BY <1>2, <1>3
  <2> QED BY <2>4, <2>5 DEF Notes
<1>4. CASE next # Move
  <2>1. db'.rows = db.rows
    BY <1>1, <1>2, <1>4, OneMove
  <2>2. Move \in db'.schema <=> Move \in db.schema
    BY <1>2, <1>4
  <2> QED BY <1>1, <1>2, <2>1, <2>2 DEF Notes, Unmoved, Agree
<1> QED BY <1>3, <1>4

\* A server that runs has moved the notes.
LEMMA MovedWhenUp ==
    ASSUME TypeOK, Migration, Notes(db), pc = "up"
    PROVE  Move \in db.schema /\ \A s \in Session : Agree(db, s)
<1>1. db.schema = Upto(7)
  BY DEF Migration, MigratedWhole, Latest
<1>2. Move \in Upto(7)
  BY OneMove DEF Upto, Move
<1> QED BY <1>1, <1>2 DEF Notes

\* Every step keeps the notes in agreement, as seen and as committed.
LEMMA NotesStep ==
    TypeOK /\ Migration /\ Notes(db) /\ Notes(disk) /\ [Next]_vars
        => Notes(db)' /\ Notes(disk)'
<1> SUFFICES ASSUME TypeOK, Migration, Notes(db), Notes(disk), [Next]_vars
             PROVE  Notes(db)' /\ Notes(disk)'
  OBVIOUS
<1>1. CASE Start
  <2>1. /\ disk'.schema = disk.schema /\ disk'.sessions = disk.sessions
        /\ disk'.legacy = disk.legacy /\ disk'.rows = disk.rows
        /\ db' = disk' /\ legacyOnly' = legacyOnly
    BY <1>1, MadeFields DEF Start, SetVersion
  <2> QED BY <2>1, SameNotes
<1>2. CASE Execute
  <2>1. disk' = disk /\ legacyOnly' = legacyOnly
    BY <1>2 DEF Execute
  <2>2. Notes(disk)'
    BY <2>1, SameNotes
  <2> QED BY <1>2, <2>2, ExecuteNotes
<1>3. CASE Record
  <2>1. /\ db'.schema = db.schema /\ db'.sessions = db.sessions
        /\ db'.legacy = db.legacy /\ db'.rows = db.rows
        /\ disk' = db' /\ legacyOnly' = legacyOnly
    BY <1>3, MadeFields DEF Record, SetVersion
  <2> QED BY <2>1, SameNotes
<1>4. CASE Serve
  BY <1>4, SameNotes DEF Serve
<1>5. CASE Fail
  BY <1>5, SameNotes DEF Fail
<1>6. CASE Crash
  BY <1>6, SameNotes DEF Crash
<1>7. ASSUME NEW k \in Key, NEW s \in Session, NEW body \in Body,
             \/ StartSession(k, s)
             \/ Discard(k, s)
             \/ UpdateNotes(k, s, body)
             \/ UpdateSession(k, s, body)
      PROVE  Notes(db)' /\ Notes(disk)'
  <2>1. pc = "up" /\ disk' = db' /\ db'.schema = db.schema
    BY <1>7, MadeFields DEF StartSession, Discard, UpdateNotes, UpdateSession, Write, SetNotes
  <2>2. Move \in db.schema /\ \A z \in Session : Agree(db, z)
    BY <2>1, MovedWhenUp
  <2>3. \A z \in Session : Agree(db, z)'
    BY <1>7, <2>2, RequestAgrees
  <2>4. Notes(db)'
    BY <2>1, <2>2, <2>3 DEF Notes
  <2> QED BY <2>1, <2>4 DEF Notes, Unmoved, Agree
<1>8. ASSUME NEW k \in Key, Limited(k) PROVE Notes(db)' /\ Notes(disk)'
  BY <1>8, SameNotes DEF Limited, notes
<1>9. CASE Passes
  BY <1>9, SameNotes DEF Passes, notes
<1>10. CASE UNCHANGED vars
  BY <1>10, SameNotes DEF vars, notes
<1>11. Empty \in Body
  BY NotesAssumption
<1> QED
  BY <1>1, <1>2, <1>3, <1>4, <1>5, <1>6, <1>7, <1>8, <1>9, <1>10, <1>11 DEF Next

-----------------------------------------------------------------------------
(* The invariant. *)

LEMMA InvInit == Init => IInv
<1> SUFFICES ASSUME Init PROVE IInv
  OBVIOUS
<1> USE NotesAssumption
<1>0. LimiterInv /\ LimiterTypeOK
  BY LimiterInvInit DEF Init, LimiterInv
<1>1. PICK v \in 0..4, S \in SUBSET Session, l \in [Session -> Body \cup {Null}] :
          /\ \A s \in Session : l[s] # Null => v >= 2 /\ s \in S
          /\ disk = Made(v, Upto(v), S, l, [s \in Session |-> <<>>])
  BY DEF Init
<1>2. /\ disk.version = v /\ disk.schema = Upto(v) /\ disk.sessions = S
      /\ disk.legacy = l /\ disk.rows = [s \in Session |-> <<>>]
      /\ db = disk /\ pc = "down" /\ next = <<2, 1>> /\ troubles = 0 /\ legacyOnly = {}
  BY <1>1, MadeFields DEF Init
<1>3. /\ v \in {0} \cup Versions /\ Upto(v) \in SUBSET Statement
      /\ [s \in Session |-> <<>>] \in [Session -> Seq(Body)]
  BY DEF Versions, Upto
<1>4. disk \in Tables
  BY <1>1, <1>3, MadeType
<1>5. TypeOK
  BY <1>0, <1>2, <1>4 DEF TypeOK
<1>6. Migration
  BY <1>2 DEF Migration, MigratedWhole
<1>7. Move \notin disk.schema
  BY <1>2 DEF Upto, Move
<1>8. Unmoved(disk)
  BY <1>1, <1>2 DEF Unmoved
<1> QED BY <1>0, <1>2, <1>5, <1>6, <1>7, <1>8 DEF IInv, Notes

LEMMA InvStep == IInv /\ [Next]_vars => IInv'
<1>1. LimiterInv /\ [Next]_vars => LimiterInv'
  BY LimiterSteps, LimiterInvStep
<1> QED BY <1>1, TypeStep, MigrationStep, NotesStep DEF IInv

\* Every reachable state satisfies the invariant.
THEOREM Invariance == Spec => []IInv
BY InvInit, InvStep, PTL DEF Spec

-----------------------------------------------------------------------------
(* The properties. *)

\* The types of the tables, of the migration's position and of the limiter.
THEOREM TypeInvariant == Spec => []TypeOK
<1>1. IInv => TypeOK
  BY DEF IInv
<1> QED BY <1>1, Invariance, PTL

\* However the migrations are interrupted, what is durable is the work of the
\* first of them, each whole, and the version row names the last.
THEOREM AlwaysWhole == Spec => []MigratedWhole
<1>1. IInv => MigratedWhole
  BY DEF IInv, Migration
<1> QED BY <1>1, Invariance, PTL

\* While the server runs, the notes of every session agree with its legacy
\* column, whether they were moved there or written by requests.
THEOREM AlwaysAgree == Spec => []NotesAgree
<1>1. IInv => NotesAgree
  BY MovedWhenUp DEF IInv, NotesAgree, Agree
<1> QED BY <1>1, Invariance, PTL

\* The limit holds of the requests the server takes in.
THEOREM ServedWithinLimit == Spec => []WindowBound
<1>1. IInv => WindowBound
  BY DEF IInv, LimiterInv
<1> QED BY <1>1, Invariance, PTL

\* ... and a request is refused only with the limit taken in and still fresh.
THEOREM ServedUpToLimit == Spec => RefusedAtLimit
<1>1. IInv => LimiterInv
  BY DEF IInv
<1> QED BY <1>1, RefusalJustified, Invariance, PTL DEF RefusedAtLimit

=============================================================================
