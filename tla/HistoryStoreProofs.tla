-------------------------- MODULE HistoryStoreProofs --------------------------
(***************************************************************************)
(* Proofs about HistoryStore, for every number of sessions, devices,       *)
(* probes and cycles.  One inductive invariant carries them all.           *)
(***************************************************************************)
EXTENDS HistoryStore, WellFoundedInduction, TLAPS

-----------------------------------------------------------------------------
(* The newest open session.                                                *)

\* Every nonempty set of session ids has a largest one: the "newest" session
\* that recovery resumes is well defined.
LEMMA LargestSession ==
    ASSUME NEW S \in SUBSET Session, S # {}
    PROVE  \E m \in S : \A r \in S : r <= m
<1> DEFINE Bound == {u \in Nat : \A s \in S : s <= u}
           Less  == OpToRel(<, Nat)
<1>1. MaxSession \in Bound /\ Bound \subseteq Nat
  BY StoreAssumption DEF Session
<1>2. \A u, v \in Nat : u < v => <<u, v>> \in Less
  BY DEF OpToRel
<1>3. PICK m \in Bound : \A u \in Bound : m <= u
  <2>1. IsWellFoundedOn(Less, Nat)
    BY NatLessThanWellFounded
  <2> HIDE DEF Bound, Less
  <2>2. PICK m \in Bound : \A u \in Bound : ~ (<<u, m>> \in Less)
    BY <1>1, <2>1, WFMin
  <2>3. \A u \in Bound : m <= u
    <3>1. TAKE u \in Bound
    <3>2. u \in Nat /\ m \in Nat
      BY <1>1
    <3>3. ~ (u < m)
      BY <1>2, <2>2, <3>2
    <3> QED BY <3>2, <3>3
  <2> QED BY <2>3
<1>4. m \in S
  <2>1. SUFFICES ASSUME m \notin S PROVE FALSE
    OBVIOUS
  <2>2. \A s \in S : s \in Nat /\ s >= 1 /\ s < m
    BY <2>1, <1>1, StoreAssumption DEF Session
  <2>3. m - 1 \in Bound
    BY <2>2, <1>1
  <2> QED BY <2>3, <1>3, <1>1
<1> QED BY <1>4

\* Newest picks an open session that no other open one is newer than.
LEMMA NewestIsOpen ==
    ASSUME NEW t, Open(t) # {}
    PROVE  /\ Newest(t) \in Open(t)
           /\ \A r \in Open(t) : r <= Newest(t)
<1>1. Open(t) \in SUBSET Session
  BY DEF Open
<1>2. \E m \in Open(t) : \A r \in Open(t) : r <= m
  BY <1>1, LargestSession
<1> QED BY <1>2 DEF Newest

\* ... and no other session is.
LEMMA NewestIsUnique ==
    ASSUME NEW t, NEW s \in Open(t), \A r \in Open(t) : r <= s
    PROVE  Newest(t) = s
<1>1. Newest(t) \in Open(t) /\ s <= Newest(t)
  BY NewestIsOpen
<1>2. Newest(t) <= s
  BY <1>1
<1>3. s \in Nat /\ Newest(t) \in Nat
  BY <1>1, StoreAssumption DEF Open, Session
<1> QED BY <1>1, <1>2, <1>3

-----------------------------------------------------------------------------
(* Type correctness.                                                       *)

\* Replacing one table by a table of its type yields tables again.
LEMMA SetTable ==
    ASSUME NEW t \in Tables
    PROVE  /\ \A f \in [Session -> RowState] : SetSession(t, f) \in Tables
           /\ \A f \in [Session -> [Device -> MemberState]] : SetMember(t, f) \in Tables
           /\ \A f \in [Session -> [Device -> SUBSET Probe]] : SetTarget(t, f) \in Tables
           /\ \A f \in [Session -> [Device -> [Cycle -> CycleState]]] :
                 SetReading(t, f) \in Tables
BY DEF Tables, SetSession, SetMember, SetTarget, SetReading

\* The tables have their types.
LEMMA TableTypes ==
    ASSUME NEW t \in Tables
    PROVE  /\ t.session \in [Session -> RowState]
           /\ t.member \in [Session -> [Device -> MemberState]]
           /\ t.target \in [Session -> [Device -> SUBSET Probe]]
           /\ t.reading \in [Session -> [Device -> [Cycle -> CycleState]]]
BY DEF Tables

\* Discarding a session leaves tables.
LEMMA EraseType ==
    ASSUME NEW t \in Tables, NEW s \in Session
    PROVE  Erase(t, s) \in Tables
BY DEF Tables, Erase, RowState, MemberState, CycleState, NoMembers, NoTargets, NoReadings

\* Inserting the rows of a reading cycle leaves tables.
LEMMA AddCycleType ==
    ASSUME NEW t \in Tables, NEW s \in Session, NEW d \in Device, NEW q \in Cycle,
           NEW x \in CycleState
    PROVE  AddCycle(t, s, d, q, x) \in Tables
<1>1. \A y \in CycleState :
          [t.reading EXCEPT ![s][d][q] = y] \in [Session -> [Device -> [Cycle -> CycleState]]]
  BY TableTypes
<1>2. \E y \in CycleState :
          AddCycle(t, s, d, q, x) = SetReading(t, [t.reading EXCEPT ![s][d][q] = y])
  <2>1. CASE t.reading[s][d][q] = "full"
    <3>1. AddCycle(t, s, d, q, x) = SetReading(t, [t.reading EXCEPT ![s][d][q] = "full"])
      BY <2>1, TableTypes DEF AddCycle
    <3> QED BY <3>1 DEF CycleState
  <2>2. CASE t.reading[s][d][q] # "full"
    BY <2>2, TableTypes DEF AddCycle
  <2> QED BY <2>1, <2>2
<1> QED BY <1>1, <1>2, SetTable

\* What the connection does with tables leaves tables behind.
LEMMA ConnectionType ==
    ASSUME TypeOK, NEW t \in Tables, NEW s \in Session,
           Commit(t) \/ Abandon(t) \/ Rollback \/ WriteChild(s, t)
    PROVE  db' \in Tables /\ disk' \in Tables /\ inTxn' \in BOOLEAN
BY DEF TypeOK, Commit, Abandon, Rollback, WriteChild

\* The memory of the store is left alone by a write.
LEMMA MemoryType ==
    ASSUME TypeOK, UNCHANGED Memory,
           db' \in Tables, disk' \in Tables, inTxn' \in BOOLEAN
    PROVE  TypeOK'
BY DEF TypeOK, Memory

\* A method that touches one device of one session.
LEMMA DeviceStepType ==
    ASSUME TypeOK, NEW s \in Session, NEW d \in Device, DeviceStep(s, d)
    PROVE  TypeOK'
<1> DEFINE DbType == db' \in Tables /\ disk' \in Tables /\ inTxn' \in BOOLEAN
<1>1. db \in Tables
  BY DEF TypeOK
<1>2. \A m \in MemberState :
          SetMember(db, [db.member EXCEPT ![s][d] = m]) \in Tables
  BY <1>1, TableTypes, SetTable
<1>3. \A T \in SUBSET Probe :
          SetTarget(db, [db.target EXCEPT ![s][d] = T]) \in Tables
  BY <1>1, TableTypes, SetTable
<1>4. \A q \in Cycle, x \in CycleState : AddCycle(db, s, d, q, x) \in Tables
  BY <1>1, AddCycleType
<1>5. db.member[s][d] \in MemberState /\ db.target[s][d] \in SUBSET Probe
  BY <1>1, TableTypes
<1>6. CASE DeviceLeft(s, d)
  BY <1>2, <1>5, <1>6, ConnectionType, MemoryType DEF DeviceLeft, MemberState
<1>7. CASE DeviceRejoined(s, d)
  BY <1>2, <1>5, <1>7, ConnectionType, MemoryType DEF DeviceRejoined, MemberState
<1>8. CASE AddDevice(s, d)
  BY <1>2, <1>5, <1>8, ConnectionType, MemoryType DEF AddDevice, MemberState
<1>9. ASSUME NEW T \in SUBSET Probe, SaveTargets(s, d, T)
      PROVE  TypeOK'
  BY <1>3, <1>5, <1>9, ConnectionType, MemoryType DEF SaveTargets
<1>10. ASSUME NEW T \in SUBSET Probe, UpdateTargets(s, d, T) \/ UpdateTargetsFails(s, d, T)
       PROVE  TypeOK'
  BY <1>1, <1>3, <1>10, ConnectionType, MemoryType DEF UpdateTargets, UpdateTargetsFails
<1>11. ASSUME NEW q \in Cycle, NEW x \in {"summary", "full"}, RecordReading(s, d, q, x)
       PROVE  TypeOK'
  BY <1>4, <1>11, ConnectionType, MemoryType DEF RecordReading, CycleState
<1> QED
  BY <1>6, <1>7, <1>8, <1>9, <1>10, <1>11 DEF DeviceStep

\* Every database an earlier run may have left is well typed.
LEMMA InitType == Init => TypeOK
<1> SUFFICES ASSUME Init PROVE TypeOK
  OBVIOUS
<1>1. PICK rows \in [Session -> RowState], members \in [Session -> [Device -> MemberState]] :
          disk = [session |-> rows, member |-> members,
                  target |-> [s \in Session |-> NoTargets],
                  reading |-> [s \in Session |-> NoReadings]]
  BY DEF Init
<1>2. disk \in Tables
  BY <1>1 DEF Tables, NoTargets, NoReadings, CycleState
<1>3. current \in Session \cup {NoSession} /\ last \in Session \cup {NoSession}
  BY DEF Init
<1>4. passes \in [Session -> 0..2]
  BY DEF Init
<1> QED BY <1>2, <1>3, <1>4 DEF Init, TypeOK

\* The state of the store keeps its types, whatever fails or dies.
THEOREM TypeInvariant == Spec => []TypeOK
<1>1. Init => TypeOK
  BY InitType
<1>2. TypeOK /\ [Next]_vars => TypeOK'
  <2> SUFFICES ASSUME TypeOK, [Next]_vars PROVE TypeOK'
    OBVIOUS
  <2> USE DEF TypeOK
  <2>1. CASE Crash
    <3>1. passes' \in [Session -> 0..2]
      BY <2>1 DEF Crash
    <3>2. last' \in Session \cup {NoSession} /\ current' \in Session \cup {NoSession}
      BY <2>1 DEF Crash
    <3> QED BY <2>1, <3>1, <3>2 DEF Crash
  <2>2. CASE Recover
    <3>1. CASE Open(db) = {}
      BY <2>2, <3>1 DEF Recover
    <3>2. CASE Open(db) # {}
      <4>1. Newest(db) \in Session
        BY <3>2, NewestIsOpen DEF Open
      <4>2. SetMember(db, [db.member EXCEPT ![Newest(db)] =
                [d \in Device |-> IF db.member[Newest(db)][d] = "left" THEN "in"
                                  ELSE db.member[Newest(db)][d]]]) \in Tables
        <5>1. [d \in Device |-> IF db.member[Newest(db)][d] = "left" THEN "in"
                                ELSE db.member[Newest(db)][d]] \in [Device -> MemberState]
          BY <4>1, TableTypes DEF MemberState
        <5> QED BY <4>1, <5>1, TableTypes, SetTable
      <4> QED BY <2>2, <3>2, <4>1, <4>2 DEF Recover, Commit
    <3> QED BY <3>1, <3>2
  <2>3. CASE EndDuplicates
    <3>1. SetSession(db, [s \in Session |-> IF s \in Open(db) \ {current}
                              THEN "ended" ELSE db.session[s]]) \in Tables
      BY TableTypes, SetTable DEF RowState
    <3> QED BY <2>3, <3>1 DEF EndDuplicates, Commit
  <2>4. ASSUME NEW A \in SUBSET Device, InsertSession(A),
               last' \in Session \cup {NoSession}, UNCHANGED passes
        PROVE  TypeOK'
    <3>1. issued + 1 \in Session /\ issued + 1 \in 0..MaxSession
      BY <2>4, StoreAssumption DEF Session, InsertSession
    <3>2. SetSession(db, [db.session EXCEPT ![issued + 1] = "open"]) \in Tables
      BY <3>1, TableTypes, SetTable DEF RowState
    <3>3. [db.member EXCEPT ![issued + 1] = [d \in Device |-> IF d \in A THEN "in" ELSE "none"]]
              \in [Session -> [Device -> MemberState]]
      BY <3>1, TableTypes DEF MemberState
    <3>4. db' \in Tables /\ disk' \in Tables /\ inTxn' \in BOOLEAN
      BY <2>4, <3>2, <3>3, SetTable DEF InsertSession, Commit
    <3> QED BY <2>4, <3>1, <3>4 DEF InsertSession
  <2>5. ASSUME EndSessionLocked, current # NoSession
        PROVE  /\ db' \in Tables /\ disk' \in Tables /\ inTxn' \in BOOLEAN
               /\ last' \in Session /\ current' = NoSession
    <3>1. SetSession(db, [db.session EXCEPT ![current] = "ended"]) \in Tables
      BY <2>5, TableTypes, SetTable DEF RowState
    <3> QED BY <2>5, <3>1 DEF EndSessionLocked, Commit
  <2>6. ASSUME NEW A \in SUBSET Device \ {{}}, StartSession(A)
        PROVE  TypeOK'
    <3>1. CASE current = NoSession
      BY <2>4, <2>6, <3>1 DEF StartSession
    <3>2. CASE current # NoSession
      BY <2>5, <2>6, <3>2 DEF StartSession
    <3> QED BY <3>1, <3>2
  <2>7. CASE FinishStart
    BY <2>4, <2>7 DEF FinishStart
  <2>8. CASE EndSession
    <3>1. passes' \in [Session -> 0..2]
      BY <2>8 DEF EndSession
    <3> QED BY <2>5, <2>8, <3>1 DEF EndSession
  <2>9. ASSUME NEW s \in Session, DownsamplePass(s)
        PROVE  TypeOK'
    <3>1. passes' \in [Session -> 0..2]
      BY <2>9 DEF DownsamplePass
    <3>2. ASSUME NEW firsts \in [Device -> SUBSET Cycle]
          PROVE  SetReading(db, [db.reading EXCEPT ![s] = Averaged(db.reading[s], firsts)])
                     \in Tables
      <4>1. Averaged(db.reading[s], firsts) \in [Device -> [Cycle -> CycleState]]
        BY <2>9, TableTypes DEF Averaged, CycleState
      <4> QED BY <2>9, <4>1, TableTypes, SetTable
    <3>3. db' \in Tables /\ disk' \in Tables /\ inTxn' \in BOOLEAN
      BY <2>9, <3>2 DEF DownsamplePass, Commit, Rollback
    <3> QED BY <2>9, <3>1, <3>3 DEF DownsamplePass
  <2>10. ASSUME NEW s \in Session, DiscardSession(s)
         PROVE  TypeOK'
    <3>1. db' \in Tables /\ disk' \in Tables /\ inTxn' \in BOOLEAN
      BY <2>10, EraseType DEF DiscardSession, Commit, Rollback
    <3> QED BY <2>10, <3>1 DEF DiscardSession
  <2>11. ASSUME NEW s \in Session, WriteElsewhere(s)
         PROVE  TypeOK'
    BY <2>11, ConnectionType, MemoryType DEF WriteElsewhere
  <2>12. ASSUME NEW s \in Session, NEW q \in Cycle, NEW x \in {"summary", "full"},
                RecordReadingCancelled(s, q, x)
         PROVE  TypeOK'
    BY <2>12, AddCycleType, ConnectionType, MemoryType, StoreAssumption
    DEF RecordReadingCancelled, CycleState
  <2>13. Known \subseteq Session
    BY StoreAssumption DEF Known, Session
  <2>14. CASE SessionStep
    BY <2>6, <2>7, <2>8, <2>9, <2>10, <2>11, <2>13, <2>14
    DEF SessionStep, DiscardCurrentSession
  <2>15. CASE UNCHANGED vars
    BY <2>15 DEF vars
  <2> QED
    BY <2>1, <2>2, <2>3, <2>12, <2>13, <2>14, <2>15, DeviceStepType DEF Next
<1> QED BY <1>1, <1>2, PTL DEF Spec

-----------------------------------------------------------------------------
(* The inductive invariant.  CurrentIsOpen and OpenIsCurrent are not       *)
(* inductive: what the lock holder between two commits knows (Phase), that *)
(* ids not issued have no row (Fresh) and that no failed call holds a      *)
(* session row (LifecycleCommitted) must be carried along.                 *)

Phase ==
    /\ pc = "down" => current = NoSession
    /\ pc = "recovering" => current # NoSession /\ \A s \in Open(disk) : s <= current
    /\ pc = "starting" => current = NoSession /\ Open(disk) = {}

Fresh == \A s \in Session \ Known : disk.session[s] = "absent"

IInv ==
    /\ TypeOK
    /\ LifecycleCommitted
    /\ CurrentIsOpen
    /\ OpenIsCurrent
    /\ Phase
    /\ Fresh
    /\ NoOrphanRows

\* A write to existing children of s, or to nothing, orphans no row.
LEMMA SetMemberOrphanless ==
    ASSUME NEW t \in Tables, Orphanless(t), NEW s \in Session, NEW d \in Device,
           NEW m \in MemberState, Exists(t, s) \/ m = t.member[s][d]
    PROVE  Orphanless(SetMember(t, [t.member EXCEPT ![s][d] = m]))
BY DEF Tables, Orphanless, SetMember, Exists

\* The same of a device's targets ...
LEMMA SetTargetOrphanless ==
    ASSUME NEW t \in Tables, Orphanless(t), NEW s \in Session, NEW d \in Device,
           NEW T \in SUBSET Probe, Exists(t, s) \/ T = {}
    PROVE  Orphanless(SetTarget(t, [t.target EXCEPT ![s][d] = T]))
BY DEF Tables, Orphanless, SetTarget, Exists, NoTargets

\* ... and of its readings.
LEMMA SetReadingOrphanless ==
    ASSUME NEW t \in Tables, Orphanless(t), NEW s \in Session,
           NEW r \in [Device -> [Cycle -> CycleState]],
           Exists(t, s) \/ r = t.reading[s]
    PROVE  Orphanless(SetReading(t, [t.reading EXCEPT ![s] = r]))
BY DEF Tables, Orphanless, SetReading, Exists

\* Discarding a session takes its children with it.
LEMMA EraseOrphanless ==
    ASSUME NEW t \in Tables, Orphanless(t), NEW s \in Session
    PROVE  Orphanless(Erase(t, s))
BY DEF Tables, Orphanless, Erase

\* Inserting the rows of a cycle of an existing session orphans none.
LEMMA AddCycleOrphanless ==
    ASSUME NEW t \in Tables, Orphanless(t), NEW s \in Session, NEW d \in Device,
           NEW q \in Cycle, NEW x \in CycleState, Exists(t, s)
    PROVE  Orphanless(AddCycle(t, s, d, q, x))
BY DEF Tables, Orphanless, AddCycle, SetReading, Exists

\* A step that leaves the session rows, the current session and the lock
\* alone, and commits or abandons no lifecycle change, keeps the invariant.
Neutral ==
    /\ db'.session = db.session
    /\ disk'.session = disk.session
    /\ UNCHANGED <<current, pc, issued>>
    /\ LifecycleCommitted'
    /\ NoOrphanRows'

\* A neutral step keeps the invariant.
LEMMA NeutralStep ==
    ASSUME IInv, TypeOK', Neutral
    PROVE  IInv'
BY DEF IInv, Neutral, CurrentIsOpen, OpenIsCurrent, Phase, Fresh, Open, Known

\* Committing, or abandoning, tables with the same session and member rows
\* is neutral.
LEMMA WriteIsNeutral ==
    ASSUME IInv, NEW t, UNCHANGED Memory, Orphanless(t), t.session = db.session,
           \/ Commit(t)
           \/ Abandon(t) /\ t.member = db.member
    PROVE  Neutral
BY DEF IInv, Neutral, Memory, LifecycleCommitted, NoOrphanRows, Commit, Abandon

\* Membership, target and reading writes are neutral, whatever session
\* their caller still holds.
LEMMA DeviceStepInv ==
    ASSUME IInv, NEW s \in Session, NEW d \in Device, DeviceStep(s, d)
    PROVE  Neutral
<1>1. db \in Tables /\ Orphanless(db)
  BY DEF IInv, TypeOK, NoOrphanRows
<1>2. \A f : /\ SetMember(db, f).session = db.session
             /\ SetTarget(db, f).session = db.session
             /\ SetTarget(db, f).member = db.member
             /\ SetReading(db, f).session = db.session
             /\ SetReading(db, f).member = db.member
  BY DEF SetMember, SetTarget, SetReading
<1>3. ~Exists(db, s) => db.member[s][d] = "none" /\ db.target[s][d] = {}
  BY <1>1 DEF Orphanless, Exists, NoMembers, NoTargets
<1>4. db.member[s][d] \in MemberState /\ db.target[s][d] \in SUBSET Probe
  BY <1>1, TableTypes
<1>5. CASE DeviceLeft(s, d)
  <2> DEFINE m == IF db.member[s][d] = "none" THEN db.member[s][d] ELSE "left"
  <2>1. m \in MemberState /\ (Exists(db, s) \/ m = db.member[s][d])
    BY <1>3, <1>4 DEF MemberState
  <2>2. UNCHANGED Memory /\ Commit(SetMember(db, [db.member EXCEPT ![s][d] = m]))
    BY <1>5 DEF DeviceLeft
  <2> HIDE DEF m
  <2> QED BY <1>1, <1>2, <2>1, <2>2, SetMemberOrphanless, WriteIsNeutral
<1>6. CASE DeviceRejoined(s, d)
  <2> DEFINE m == IF db.member[s][d] = "none" THEN db.member[s][d] ELSE "in"
  <2>1. m \in MemberState /\ (Exists(db, s) \/ m = db.member[s][d])
    BY <1>3, <1>4 DEF MemberState
  <2>2. UNCHANGED Memory /\ Commit(SetMember(db, [db.member EXCEPT ![s][d] = m]))
    BY <1>6 DEF DeviceRejoined
  <2> HIDE DEF m
  <2> QED BY <1>1, <1>2, <2>1, <2>2, SetMemberOrphanless, WriteIsNeutral
<1>7. ASSUME NEW t, WriteChild(s, t), UNCHANGED Memory, t.session = db.session,
             Exists(db, s) => Orphanless(t)
      PROVE  Neutral
  BY <1>1, <1>7, WriteIsNeutral DEF WriteChild
<1>8. CASE AddDevice(s, d)
  <2> DEFINE m == IF db.member[s][d] = "none" THEN "in" ELSE db.member[s][d]
  <2>1. m \in MemberState
    BY <1>4 DEF MemberState
  <2>2. UNCHANGED Memory /\ WriteChild(s, SetMember(db, [db.member EXCEPT ![s][d] = m]))
    BY <1>8 DEF AddDevice
  <2> HIDE DEF m
  <2> QED BY <1>1, <1>2, <1>7, <2>1, <2>2, SetMemberOrphanless
<1>9. ASSUME NEW T \in SUBSET Probe, SaveTargets(s, d, T)
      PROVE  Neutral
  <2>1. db.target[s][d] \cup T \in SUBSET Probe
    BY <1>4, <1>9
  <2>2. UNCHANGED Memory
        /\ WriteChild(s, SetTarget(db, [db.target EXCEPT ![s][d] = db.target[s][d] \cup T]))
    BY <1>9 DEF SaveTargets
  <2> QED BY <1>1, <1>2, <1>7, <2>1, <2>2, SetTargetOrphanless
<1>10. ASSUME NEW T \in SUBSET Probe, UpdateTargets(s, d, T) \/ UpdateTargetsFails(s, d, T)
       PROVE  Neutral
  <2>1. CASE T = {} \/ Exists(db, s)
    BY <1>1, <1>2, <1>10, <2>1, SetTargetOrphanless, WriteIsNeutral
    DEF UpdateTargets, UpdateTargetsFails
  <2>2. CASE ~ (T = {} \/ Exists(db, s))
    BY <1>1, <1>10, <2>2, WriteIsNeutral DEF UpdateTargets, UpdateTargetsFails
  <2> QED BY <2>1, <2>2
<1>11. ASSUME NEW q \in Cycle, NEW x \in {"summary", "full"}, RecordReading(s, d, q, x)
       PROVE  Neutral
  <2>1. AddCycle(db, s, d, q, x).session = db.session
    BY DEF AddCycle, SetReading
  <2> QED BY <1>1, <1>7, <1>11, <2>1, AddCycleOrphanless DEF RecordReading, CycleState
<1> QED
  BY <1>5, <1>6, <1>8, <1>9, <1>10, <1>11 DEF DeviceStep

\* An end, an insertion and a discard keep the invariant.
LEMMA EndSessionLockedInv ==
    ASSUME IInv, TypeOK', EndSessionLocked, Free, current # NoSession, UNCHANGED issued,
           pc' \in {"ready", "starting"}
    PROVE  IInv'
<1>1. /\ db'.session = [db.session EXCEPT ![current] = "ended"]
      /\ db' = disk'
      /\ db'.member = db.member /\ db'.target = db.target /\ db'.reading = db.reading
      /\ current' = NoSession
  BY DEF EndSessionLocked, Commit, SetSession
<1>2. current \in Session /\ db.session \in [Session -> RowState]
  BY TableTypes DEF IInv, TypeOK
<1>3. Open(db') = {}
  BY <1>1, <1>2 DEF IInv, OpenIsCurrent, Open, Free
<1>4. Orphanless(db')
  BY <1>1, <1>2 DEF IInv, NoOrphanRows, Orphanless
<1>5. Fresh'
  BY <1>1, <1>2 DEF IInv, Fresh, Known, LifecycleCommitted, CurrentIsOpen
<1> QED
  BY <1>1, <1>3, <1>4, <1>5
  DEF IInv, LifecycleCommitted, CurrentIsOpen, OpenIsCurrent, Phase, NoOrphanRows

\* A new id is inserted only when no session is open, so it becomes the
\* only open one.
LEMMA InsertSessionInv ==
    ASSUME IInv, TypeOK', NEW A \in SUBSET Device, InsertSession(A), current = NoSession,
           Free \/ pc = "starting"
    PROVE  IInv'
<1>1. issued + 1 \in Session /\ issued + 1 \notin Known
  BY StoreAssumption DEF InsertSession, IInv, TypeOK, Session, Known
<1>2. db.session \in [Session -> RowState] /\ db.member \in [Session -> [Device -> MemberState]]
  BY TableTypes DEF IInv, TypeOK
<1>3. /\ db'.session = [db.session EXCEPT ![issued + 1] = "open"]
      /\ db' = disk'
      /\ \A s \in Session \ {issued + 1} : db'.member[s] = db.member[s]
      /\ db'.target = db.target /\ db'.reading = db.reading
      /\ current' = issued + 1 /\ issued' = issued + 1 /\ pc' = "ready"
  BY <1>1, <1>2 DEF InsertSession, Commit, SetSession, SetMember
<1>4. Open(db) = {}
  BY DEF IInv, OpenIsCurrent, Phase, Free, Open, LifecycleCommitted, Session, NoSession
<1>5. Open(db') = {issued + 1}
  BY <1>1, <1>2, <1>3, <1>4 DEF Open
<1>6. Orphanless(db')
  BY <1>1, <1>2, <1>3 DEF IInv, NoOrphanRows, Orphanless
<1>7. Fresh'
  <2>1. Known' = Known \cup {issued + 1}
    BY <1>1, <1>3 DEF Known, IInv, TypeOK
  <2> QED BY <1>1, <1>2, <1>3, <2>1 DEF IInv, Fresh, LifecycleCommitted
<1> QED
  BY <1>1, <1>2, <1>3, <1>5, <1>6, <1>7
  DEF IInv, LifecycleCommitted, CurrentIsOpen, OpenIsCurrent, Phase, NoOrphanRows, Open

\* A discard clears the pointer exactly when the row is gone from disk.
LEMMA DiscardSessionInv ==
    ASSUME IInv, TypeOK', NEW s \in Session, DiscardSession(s)
    PROVE  IInv'
<1>1. CASE inTxn
  <2>1. Neutral
    BY <1>1 DEF DiscardSession, Rollback, Neutral, IInv, LifecycleCommitted, NoOrphanRows
  <2> QED BY <2>1, NeutralStep
<1>2. CASE ~inTxn
  <2>1. db.session \in [Session -> RowState]
    BY TableTypes DEF IInv, TypeOK
  <2>2. /\ db'.session = [db.session EXCEPT ![s] = "absent"]
        /\ db' = disk'
        /\ current' = IF current = s THEN NoSession ELSE current
        /\ UNCHANGED <<pc, issued>> /\ pc = "ready"
    BY <1>2 DEF DiscardSession, Commit, Erase, Free
  <2>3. Orphanless(db')
    BY <1>2, EraseOrphanless DEF DiscardSession, Commit, IInv, TypeOK, NoOrphanRows
  <2>4. Open(db') \subseteq {current'} /\ CurrentIsOpen'
    BY <2>1, <2>2
    DEF IInv, TypeOK, OpenIsCurrent, CurrentIsOpen, Open, LifecycleCommitted
  <2>5. Fresh'
    BY <2>1, <2>2 DEF IInv, Fresh, Known, LifecycleCommitted
  <2> QED
    BY <2>2, <2>3, <2>4, <2>5
    DEF IInv, LifecycleCommitted, OpenIsCurrent, Phase, NoOrphanRows
<1> QED BY <1>1, <1>2

\* Start-up keeps the invariant: the newest open session becomes current.
LEMMA RecoverInv ==
    ASSUME IInv, TypeOK', Recover
    PROVE  IInv'
<1>1. CASE Open(db) = {}
  <2>1. UNCHANGED <<db, disk, current, issued>> /\ pc' = "ready" /\ current = NoSession
    BY <1>1 DEF Recover, IInv, Phase
  <2> QED
    BY <1>1, <2>1
    DEF IInv, LifecycleCommitted, CurrentIsOpen, OpenIsCurrent, Phase, Fresh, Known,
        NoOrphanRows, Open
<1>2. CASE Open(db) # {}
  <2> DEFINE primary == Newest(db)
             members == [d \in Device |-> IF db.member[primary][d] = "left" THEN "in"
                                          ELSE db.member[primary][d]]
  <2>1. primary \in Open(db) /\ \A r \in Open(db) : r <= primary
    BY <1>2, NewestIsOpen
  <2>2. /\ db' = SetMember(db, [db.member EXCEPT ![primary] = members])
        /\ disk' = db'
        /\ current' = primary
        /\ pc' = IF Open(db) = {primary} THEN "ready" ELSE "recovering"
        /\ UNCHANGED issued
    BY <1>2 DEF Recover, Commit
  <2> HIDE DEF primary, members
  <2>3. db'.session = db.session /\ db'.target = db.target /\ db'.reading = db.reading
        /\ \A s \in Session \ {primary} : db'.member[s] = db.member[s]
    BY <2>2, TableTypes DEF SetMember, IInv, TypeOK
  <2>4. Open(db') = Open(db) /\ Open(disk') = Open(db)
    BY <2>2, <2>3 DEF Open
  <2>5. Orphanless(db')
    BY <2>1, <2>3 DEF IInv, NoOrphanRows, Orphanless, Open
  <2>6. CurrentIsOpen'
    BY <2>1, <2>2, <2>3 DEF CurrentIsOpen, Open
  <2>7. primary # NoSession
    BY <2>1, StoreAssumption DEF Open, Session, NoSession
  <2>8. Fresh'
    BY <2>2, <2>3 DEF IInv, Fresh, Known, LifecycleCommitted
  <2> QED
    BY <2>1, <2>2, <2>4, <2>5, <2>6, <2>7, <2>8
    DEF IInv, LifecycleCommitted, OpenIsCurrent, Phase, NoOrphanRows
<1> QED BY <1>1, <1>2

\* The rest of recovery leaves the current session as the only open one.
LEMMA EndDuplicatesInv ==
    ASSUME IInv, TypeOK', EndDuplicates
    PROVE  IInv'
<1>1. /\ db'.session = [s \in Session |-> IF s \in Open(db) \ {current}
                                          THEN "ended" ELSE db.session[s]]
      /\ db' = disk'
      /\ db'.member = db.member /\ db'.target = db.target /\ db'.reading = db.reading
      /\ UNCHANGED <<current, issued>>
      /\ pc' = "ready"
  BY DEF EndDuplicates, Commit, SetSession
<1>2. current \in Session /\ db.session[current] = "open"
  BY DEF IInv, TypeOK, Phase, EndDuplicates, CurrentIsOpen, LifecycleCommitted
<1>3. Open(db') = {current}
  BY <1>1, <1>2 DEF Open
<1>4. Orphanless(db')
  BY <1>1 DEF IInv, NoOrphanRows, Orphanless, Open
<1>5. Fresh'
  BY <1>1 DEF IInv, Fresh, Known, LifecycleCommitted, Open
<1> QED
  BY <1>1, <1>2, <1>3, <1>4, <1>5
  DEF IInv, LifecycleCommitted, CurrentIsOpen, OpenIsCurrent, Phase, NoOrphanRows

\* A crash leaves what the last commit left, and nothing in memory.
LEMMA CrashInv ==
    ASSUME IInv, TypeOK', Crash
    PROVE  IInv'
<1>1. /\ db' = disk /\ disk' = disk /\ current' = NoSession /\ pc' = "down"
      /\ issued' = issued
  BY DEF Crash
<1> QED
  BY <1>1
  DEF IInv, LifecycleCommitted, CurrentIsOpen, OpenIsCurrent, Phase, Fresh, Known,
      NoOrphanRows

\* Averaging or giving up a pass touches only the readings of an existing
\* session.
LEMMA DownsamplePassInv ==
    ASSUME IInv, TypeOK', NEW s \in Session, DownsamplePass(s)
    PROVE  IInv'
<1>1. db \in Tables /\ Orphanless(db) /\ Orphanless(disk)
  BY DEF IInv, TypeOK, NoOrphanRows
<1>2. UNCHANGED <<current, pc, issued>>
  BY DEF DownsamplePass
<1>3. CASE UNCHANGED <<db, disk>> \/ Rollback
  <2>1. Neutral
    BY <1>2, <1>3 DEF Rollback, Neutral, IInv, LifecycleCommitted, NoOrphanRows, Orphanless
  <2> QED BY <2>1, NeutralStep
<1>4. ASSUME NEW firsts \in [Device -> SUBSET Cycle],
             Commit(SetReading(db, [db.reading EXCEPT ![s] = Averaged(db.reading[s], firsts)]))
      PROVE  IInv'
  <2>1. Averaged(db.reading[s], firsts) \in [Device -> [Cycle -> CycleState]]
    BY <1>1, TableTypes DEF Averaged, CycleState
  <2>2. ~Exists(db, s) => Averaged(db.reading[s], firsts) = db.reading[s]
    BY <1>1 DEF Orphanless, Exists, Averaged, NoReadings
  <2>3. Orphanless(SetReading(db, [db.reading EXCEPT ![s] = Averaged(db.reading[s], firsts)]))
    BY <1>1, <2>1, <2>2, SetReadingOrphanless
  <2>4. Neutral
    BY <1>2, <1>4, <2>3 DEF Neutral, Commit, SetReading, IInv, LifecycleCommitted, NoOrphanRows
  <2> QED BY <2>4, NeutralStep
<1> QED
  BY <1>3, <1>4 DEF DownsamplePass

\* Every database an earlier run may have left satisfies the invariant.
LEMMA InitInv == Init => IInv
<1> SUFFICES ASSUME Init PROVE IInv
  OBVIOUS
<1>1. TypeOK
  BY InitType
<1>2. db = disk /\ current = NoSession /\ pc = "down" /\ Orphanless(disk)
      /\ \A s \in Session \ Known : disk.session[s] = "absent"
  BY DEF Init
<1> QED
  BY <1>1, <1>2
  DEF IInv, LifecycleCommitted, CurrentIsOpen, OpenIsCurrent, Phase, Fresh, NoOrphanRows

\* Every step of the store keeps the invariant.
LEMMA StepInv ==
    ASSUME IInv, TypeOK', [Next]_vars
    PROVE  IInv'
<1>1. Known \subseteq Session
  BY StoreAssumption DEF IInv, TypeOK, Known, Session
<1>2. CASE Crash
  BY <1>2, CrashInv
<1>3. CASE Recover
  BY <1>3, RecoverInv
<1>4. CASE EndDuplicates
  BY <1>4, EndDuplicatesInv
<1>5. ASSUME NEW A \in SUBSET Device \ {{}}, StartSession(A)
      PROVE  IInv'
  <2>1. CASE current = NoSession
    BY <1>5, <2>1, InsertSessionInv DEF StartSession
  <2>2. CASE current # NoSession
    BY <1>5, <2>2, EndSessionLockedInv DEF StartSession
  <2> QED BY <2>1, <2>2
<1>6. CASE FinishStart
  BY <1>6, InsertSessionInv DEF FinishStart, IInv, TypeOK, Phase
<1>7. CASE EndSession
  BY <1>7, EndSessionLockedInv DEF EndSession, Free
<1>8. CASE DiscardCurrentSession
  BY <1>8, DiscardSessionInv DEF DiscardCurrentSession, IInv, TypeOK
<1>9. ASSUME NEW s \in Known, WriteElsewhere(s)
      PROVE  IInv'
  <2>1. Neutral
    BY <1>9, WriteIsNeutral DEF WriteElsewhere, WriteChild, IInv, NoOrphanRows
  <2> QED BY <2>1, NeutralStep
<1>10. CASE SessionStep
  BY <1>1, <1>5, <1>6, <1>7, <1>8, <1>9, <1>10, DownsamplePassInv, DiscardSessionInv
  DEF SessionStep
<1>11. ASSUME NEW s \in Known, NEW q \in Cycle, NEW x \in {"summary", "full"},
              RecordReadingCancelled(s, q, x)
       PROVE  IInv'
  <2>1. Orphanless(AddCycle(db, s, SimAddress, q, x))
    BY <1>1, <1>11, AddCycleOrphanless, StoreAssumption
    DEF RecordReadingCancelled, CycleState, IInv, TypeOK, NoOrphanRows
  <2>2. AddCycle(db, s, SimAddress, q, x).session = db.session
        /\ AddCycle(db, s, SimAddress, q, x).member = db.member
    BY DEF AddCycle, SetReading
  <2>3. Neutral
    BY <1>11, <2>1, <2>2, WriteIsNeutral DEF RecordReadingCancelled
  <2> QED BY <2>3, NeutralStep
<1>12. CASE UNCHANGED vars
  <2>1. Neutral
    BY <1>12 DEF vars, Neutral, IInv, LifecycleCommitted, NoOrphanRows
  <2> QED BY <2>1, NeutralStep
<1> QED
  BY <1>1, <1>2, <1>3, <1>4, <1>10, <1>11, <1>12, DeviceStepInv, NeutralStep DEF Next

\* The inductive invariant holds in every reachable state.
THEOREM Inductive == Spec => []IInv
<1>1. IInv /\ TypeOK' /\ [Next]_vars => IInv'
  BY StepInv
<1> QED BY <1>1, InitInv, TypeInvariant, PTL DEF Spec

\* _current_session_id never dangles: whatever fails and whenever the process
\* dies, it names a committed, open row (store.py, start_session,
\* _end_session_locked, _discard_session_locked, recover_orphaned_sessions).
THEOREM CurrentIsAlwaysOpen == Spec => []CurrentIsOpen
<1>1. IInv => CurrentIsOpen
  BY DEF IInv
<1> QED BY <1>1, Inductive, PTL

\* Whenever no method is in progress the open session is the current one: no
\* open session is out of the user's reach.
THEOREM OpenIsAlwaysCurrent == Spec => []OpenIsCurrent
<1>1. IInv => OpenIsCurrent
  BY DEF IInv
<1> QED BY <1>1, Inductive, PTL

\* No abandoned transaction ever holds a session row or a membership.
THEOREM LifecycleIsCommitted == Spec => []LifecycleCommitted
<1>1. IInv => LifecycleCommitted
  BY DEF IInv
<1> QED BY <1>1, Inductive, PTL

\* No child row outlives its session, on disk or in the connection's view.
THEOREM NoOrphans == Spec => []NoOrphanRows
<1>1. IInv => NoOrphanRows
  BY DEF IInv
<1> QED BY <1>1, Inductive, PTL

-----------------------------------------------------------------------------
(* What a step can do to the session rows on disk; the action property and *)
(* the refinement follow from these five cases alone.                      *)

RowsKept == disk'.session = disk.session /\ issued' = issued

RowEnded ==
    /\ Open(disk) = {current}
    /\ disk'.session = [disk.session EXCEPT ![current] = "ended"]
    /\ issued' = issued

RowInserted ==
    /\ Open(disk) = {}
    /\ issued + 1 \in Session
    /\ disk'.session = [disk.session EXCEPT ![issued + 1] = "open"]
    /\ issued' = issued + 1

DuplicatesEnded ==
    /\ current \in Open(disk)
    /\ \A s \in Open(disk) : s <= current
    /\ disk'.session = [s \in Session |-> IF s \in Open(disk) \ {current}
                                          THEN "ended" ELSE disk.session[s]]
    /\ issued' = issued

RowDiscarded(s) ==
    /\ Open(disk) \subseteq {current}
    /\ disk'.session = [disk.session EXCEPT ![s] = "absent"]
    /\ issued' = issued

RowStep ==
    \/ RowsKept
    \/ RowEnded
    \/ RowInserted
    \/ DuplicatesEnded
    \/ \E s \in Known : RowDiscarded(s)

\* Every step changes the session rows on disk in one of these ways.
LEMMA RowSteps ==
    ASSUME IInv, [Next]_vars
    PROVE  RowStep
<1>1. Known \subseteq Session /\ disk.session \in [Session -> RowState]
  BY StoreAssumption, TableTypes DEF IInv, TypeOK, Known, Session
<1>2. db.session = disk.session /\ Open(db) = Open(disk)
  BY DEF IInv, LifecycleCommitted, Open
<1>3. CASE Crash
  BY <1>3 DEF Crash, RowStep, RowsKept
<1>4. CASE Recover
  BY <1>2, <1>4 DEF Recover, Commit, SetMember, RowStep, RowsKept
<1>5. CASE EndDuplicates
  <2>1. current \in Open(disk) /\ \A s \in Open(disk) : s <= current
    BY <1>5 DEF EndDuplicates, IInv, TypeOK, Phase, CurrentIsOpen, Open
  <2>2. disk'.session = [s \in Session |-> IF s \in Open(disk) \ {current}
                                          THEN "ended" ELSE disk.session[s]]
    BY <1>2, <1>5 DEF EndDuplicates, Commit, SetSession
  <2> QED BY <1>5, <2>1, <2>2 DEF EndDuplicates, RowStep, DuplicatesEnded
<1>6. ASSUME EndSessionLocked, Free, current # NoSession, issued' = issued
      PROVE  RowStep
  <2>1. Open(disk) = {current}
    BY <1>2, <1>6 DEF IInv, TypeOK, OpenIsCurrent, CurrentIsOpen, Free, Open
  <2> QED
    BY <1>2, <1>6, <2>1 DEF EndSessionLocked, Commit, SetSession, RowStep, RowEnded
<1>7. ASSUME NEW A, InsertSession(A), current = NoSession, Free \/ pc = "starting"
      PROVE  RowStep
  <2>1. Open(disk) = {}
    BY <1>2, <1>7 DEF IInv, OpenIsCurrent, Phase, Free, Open, Session, NoSession
  <2>2. issued + 1 \in Session
    BY <1>7, StoreAssumption DEF InsertSession, IInv, TypeOK, Session
  <2> QED
    BY <1>2, <1>7, <2>1, <2>2
    DEF InsertSession, Commit, SetSession, SetMember, RowStep, RowInserted
<1>8. ASSUME NEW s \in Session, DiscardSession(s)
      PROVE  RowsKept \/ RowDiscarded(s)
  BY <1>2, <1>8
  DEF DiscardSession, Commit, Rollback, Erase, RowsKept, RowDiscarded, IInv, OpenIsCurrent, Free
<1>9. CASE DiscardCurrentSession
  <2>1. current \in Known
    BY <1>1, <1>9 DEF DiscardCurrentSession, IInv, TypeOK, CurrentIsOpen, Fresh
  <2> QED BY <1>1, <1>8, <1>9, <2>1 DEF DiscardCurrentSession, RowStep
<1>10. ASSUME NEW s \in Known, DownsamplePass(s) \/ WriteElsewhere(s)
       PROVE  RowStep
  BY <1>2, <1>10
  DEF DownsamplePass, WriteElsewhere, WriteChild, Memory, Commit, Abandon, Rollback,
      SetReading, RowStep, RowsKept
<1>11. CASE SessionStep
  <2>1. ASSUME NEW A \in SUBSET Device \ {{}}, StartSession(A)
        PROVE  RowStep
    BY <1>6, <1>7, <2>1 DEF StartSession
  <2>2. CASE FinishStart
    BY <1>7, <2>2 DEF FinishStart, IInv, Phase
  <2>3. CASE EndSession
    BY <1>6, <2>3 DEF EndSession
  <2> QED
    BY <1>1, <1>8, <1>9, <1>10, <1>11, <2>1, <2>2, <2>3 DEF SessionStep, RowStep
<1>12. ASSUME NEW s \in Known, NEW d \in Device, DeviceStep(s, d)
       PROVE  RowStep
  BY <1>1, <1>12, DeviceStepInv DEF Neutral, RowStep, RowsKept
<1>13. ASSUME NEW s \in Known, NEW q \in Cycle, NEW x \in {"summary", "full"},
              RecordReadingCancelled(s, q, x)
       PROVE  RowStep
  BY <1>13 DEF RecordReadingCancelled, Abandon, Memory, RowStep, RowsKept
<1>14. CASE UNCHANGED vars
  BY <1>14 DEF vars, RowStep, RowsKept
<1> QED
  BY <1>3, <1>4, <1>5, <1>11, <1>12, <1>13, <1>14 DEF Next

\* An ended session stays ended until it is discarded, and a discarded one
\* never comes back: no call, crash or recovery revives a session.
THEOREM NeverRevived == Spec => NoRevival
<1> DEFINE Final == \A s \in Known :
                /\ disk.session[s] = "ended" => disk'.session[s] \in {"ended", "absent"}
                /\ disk.session[s] = "absent" => disk'.session[s] = "absent"
<1>1. ASSUME IInv, [Next]_vars PROVE Final
  <2>1. RowStep
    BY <1>1, RowSteps
  <2>2. Known \subseteq Session /\ issued + 1 \notin Known
        /\ disk.session \in [Session -> RowState]
    BY <1>1, StoreAssumption, TableTypes DEF IInv, TypeOK, Known, Session
  <2> QED
    BY <2>1, <2>2
    DEF RowStep, RowsKept, RowEnded, RowInserted, DuplicatesEnded, RowDiscarded, Open
<1>2. IInv /\ [Next]_vars => [Final]_vars
  BY <1>1
<1> QED BY <1>2, Inductive, PTL DEF Spec, NoRevival

-----------------------------------------------------------------------------
(* The store implements SessionPromise.                                    *)

\* Every step of the store is a start, a close or a stutter of the promise.
LEMMA PromiseStep ==
    ASSUME IInv, IInv', RowStep
    PROVE  [Promise!Next]_<<ActiveOnDisk, Known \ {ActiveOnDisk}>>
<1>1. /\ Known \subseteq Session
      /\ Open(disk) \subseteq Known
      /\ disk.session \in [Session -> RowState]
      /\ NoSession \notin Session
  BY StoreAssumption, TableTypes
  DEF IInv, TypeOK, Known, Session, NoSession, Fresh, Open
<1>2. \A s \in Open(disk) : (\A r \in Open(disk) : r <= s) => ActiveOnDisk = s
  BY NewestIsUnique DEF ActiveOnDisk
<1>3. \A s \in Open(disk') : (\A r \in Open(disk') : r <= s) => ActiveOnDisk' = s
  BY NewestIsUnique DEF ActiveOnDisk
<1>4. /\ Open(disk) = {} => ActiveOnDisk = NoSession
      /\ Open(disk') = {} => ActiveOnDisk' = NoSession
  BY DEF ActiveOnDisk
<1>5. CASE RowsKept
  BY <1>5 DEF RowsKept, ActiveOnDisk, Newest, Open, Known
<1>6. CASE RowEnded
  <2>1. current \in Session /\ ActiveOnDisk = current
    <3>1. Open(disk) = {current}
      BY <1>6 DEF RowEnded
    <3>2. current \in Open(disk) /\ \A r \in Open(disk) : r = current
      BY <3>1
    <3>3. current \in Session
      BY <1>1, <3>2
    <3>4. current \in Nat
      BY <3>3, StoreAssumption DEF Session
    <3>5. \A r \in Open(disk) : r <= current
      BY <3>2, <3>4
    <3>6. ActiveOnDisk = current
      BY <1>2, <3>2, <3>5
    <3> QED BY <3>3, <3>6
  <2>2. Open(disk') = {}
    BY <1>1, <1>6, <2>1 DEF RowEnded, Open
  <2>3. Known' = Known
    BY <1>6 DEF RowEnded, Known
  <2>4. Promise!Close
    BY <1>1, <1>4, <1>6, <2>1, <2>2, <2>3
    DEF RowEnded, Promise!Close, Promise!NoSession, NoSession
  <2> QED BY <2>4 DEF Promise!Next
<1>7. CASE RowInserted
  <2>1. ActiveOnDisk = NoSession
    BY <1>4, <1>7 DEF RowInserted
  <2>2. Open(disk') = {issued + 1}
    BY <1>1, <1>7 DEF RowInserted, Open
  <2>3. ActiveOnDisk' = issued + 1
    BY <1>3, <1>7, <2>2, StoreAssumption DEF RowInserted, Session
  <2>4. Known' = Known \cup {issued + 1} /\ issued + 1 \notin Known
    BY <1>7 DEF RowInserted, Known, IInv, TypeOK
  <2>5. Promise!Start
    BY <1>1, <1>7, <2>1, <2>3, <2>4
    DEF RowInserted, Promise!Start, Promise!NoSession, Promise!Session, NoSession, Session
  <2> QED BY <2>5 DEF Promise!Next
<1>8. CASE DuplicatesEnded
  <2>1. Open(disk') = {current} /\ current \in Session
    BY <1>1, <1>8 DEF DuplicatesEnded, Open
  <2>2. ActiveOnDisk = current
    BY <1>2, <1>8 DEF DuplicatesEnded
  <2>3. ActiveOnDisk' = current
    BY <1>3, <2>1, StoreAssumption DEF Session
  <2> QED BY <1>8, <2>2, <2>3 DEF DuplicatesEnded, Known
<1>9. ASSUME NEW s \in Known, RowDiscarded(s)
      PROVE  [Promise!Next]_<<ActiveOnDisk, Known \ {ActiveOnDisk}>>
  <2>1. Open(disk') = Open(disk) \ {s} /\ Known' = Known
    BY <1>1, <1>9 DEF RowDiscarded, Open, Known
  <2>2. CASE s \in Open(disk)
    <3>1. Open(disk) = {s} /\ Open(disk') = {}
      BY <1>9, <2>1, <2>2 DEF RowDiscarded
    <3>2. ActiveOnDisk = s /\ ActiveOnDisk' = NoSession
      BY <1>1, <1>2, <1>4, <1>9, <3>1, StoreAssumption DEF Session
    <3>3. Promise!Close
      BY <1>1, <1>9, <2>1, <3>2 DEF Promise!Close, Promise!NoSession, NoSession
    <3> QED BY <3>3 DEF Promise!Next
  <2>3. CASE s \notin Open(disk)
    <3>1. Open(disk') = Open(disk)
      BY <2>1, <2>3
    <3>2. ActiveOnDisk' = ActiveOnDisk
      <4>1. ActiveOnDisk' = IF Open(disk') = {} THEN NoSession ELSE
                CHOOSE m \in Open(disk') : \A r \in Open(disk') : r <= m
        BY DEF ActiveOnDisk, Newest, NoSession
      <4>2. ActiveOnDisk = IF Open(disk) = {} THEN NoSession ELSE
                CHOOSE m \in Open(disk) : \A r \in Open(disk) : r <= m
        BY DEF ActiveOnDisk, Newest, NoSession
      <4> QED BY <3>1, <4>1, <4>2
    <3> QED BY <2>1, <3>2
  <2> QED BY <2>2, <2>3
<1> QED
  BY <1>5, <1>6, <1>7, <1>8, <1>9 DEF RowStep

\* The store implements SessionPromise: at most one session is active, an id
\* that stops being active is closed for good, and crashes, restarts and
\* failed calls cannot be told from nothing happening.
THEOREM ImplementsPromise == Spec => PromiseSpec
<1>1. Init => Promise!Init
  <2> SUFFICES ASSUME Init PROVE Promise!Init
    OBVIOUS
  <2>1. Known \subseteq Session
    BY StoreAssumption DEF Init, Known, Session
  <2>2. ActiveOnDisk \in Session \cup {NoSession}
    BY NewestIsOpen DEF ActiveOnDisk, Open
  <2> QED
    BY <2>1, <2>2 DEF Promise!Init, Promise!Session, Promise!NoSession, Session, NoSession
<1>2. IInv /\ IInv' /\ [Next]_vars
          => [Promise!Next]_<<ActiveOnDisk, Known \ {ActiveOnDisk}>>
  BY RowSteps, PromiseStep
<1> QED BY <1>1, <1>2, Inductive, PTL DEF Spec, PromiseSpec, Promise!Spec

-----------------------------------------------------------------------------
(* The readings of a session that goes on.                                 *)

\* The connection sees every full cycle that is on disk, also inside a
\* transaction, and passes are left only for sessions that are over.
Readings ==
    /\ \A s \in Session, d \in Device, q \in Cycle :
          disk.reading[s][d][q] = "full" => db.reading[s][d][q] = "full"
    /\ \A s \in Session : passes[s] > 0 => s \in Known /\ disk.session[s] # "open"

\* The connection still sees the full cycles of session s.
CyclesKept(s) ==
    \A d \in Device, q \in Cycle :
        db.reading[s][d][q] = "full" => db'.reading[s][d][q] = "full"

\* A step returns to what is on disk, keeps all full cycles, or commits
\* tables without those of a session that is over.
ReadingStep ==
    \/ db' = disk /\ disk' = disk
    \/ disk' \in {disk, db'} /\ \A s \in Session : CyclesKept(s)
    \/ /\ disk' = db'
       /\ \E r \in Session :
             /\ disk.session[r] # "open" \/ disk'.session[r] # "open"
             /\ \A s \in Session \ {r} : CyclesKept(s)

\* Tables with the same readings keep all cycles.
LEMMA SameReadings ==
    ASSUME NEW t, t.reading = db.reading, NEW s,
           Commit(t) \/ Abandon(t) \/ WriteChild(s, t)
    PROVE  ReadingStep
BY DEF Commit, Abandon, WriteChild, ReadingStep, CyclesKept

\* Inserting the rows of a cycle keeps those that are full.
LEMMA AddCycleReadings ==
    ASSUME IInv, NEW s \in Session, NEW d \in Device, NEW q \in Cycle, NEW x \in CycleState,
           \/ WriteChild(s, AddCycle(db, s, d, q, x))
           \/ Abandon(AddCycle(db, s, d, q, x))
    PROVE  ReadingStep
<1> DEFINE t == AddCycle(db, s, d, q, x)
<1>1. db.reading \in [Session -> [Device -> [Cycle -> CycleState]]]
  BY TableTypes DEF IInv, TypeOK
<1>2. \A z \in Session, e \in Device, c \in Cycle :
          db.reading[z][e][c] = "full" => t.reading[z][e][c] = "full"
  BY <1>1 DEF AddCycle, SetReading
<1>3. (db' = t \/ db' = db) /\ disk' \in {disk, db'}
  BY DEF WriteChild, Commit, Abandon
<1> HIDE DEF t
<1> QED BY <1>2, <1>3 DEF ReadingStep, CyclesKept

\* Only discarding and averaging lose cycles.
LEMMA ReadingSteps ==
    ASSUME IInv, Readings, [Next]_vars
    PROVE  ReadingStep
<1>1. Known \subseteq Session /\ db.session = disk.session
  BY StoreAssumption DEF IInv, TypeOK, Known, Session, LifecycleCommitted
<1>2. \A f, t : /\ SetMember(t, f).reading = t.reading
                /\ SetTarget(t, f).reading = t.reading
                /\ SetSession(t, f).reading = t.reading
  BY DEF SetMember, SetTarget, SetSession
<1>3. CASE UNCHANGED <<db, disk>>
  BY <1>3 DEF ReadingStep, CyclesKept
<1>4. CASE Crash
  BY <1>4 DEF Crash, ReadingStep
<1>5. CASE Recover
  BY <1>2, <1>3, <1>5, SameReadings DEF Recover
<1>6. CASE EndDuplicates
  BY <1>2, <1>6, SameReadings DEF EndDuplicates
<1>7. ASSUME NEW A, StartSession(A) \/ InsertSession(A) \/ EndSession PROVE ReadingStep
  <2>1. ASSUME EndSessionLocked PROVE ReadingStep
    BY <1>2, <2>1, SameReadings DEF EndSessionLocked
  <2>2. ASSUME InsertSession(A) PROVE ReadingStep
    <3>1. PICK f, g : Commit(SetMember(SetSession(db, f), g))
      BY <2>2 DEF InsertSession
    <3>2. SetMember(SetSession(db, f), g).reading = db.reading
      BY <1>2
    <3> QED BY <3>1, <3>2, SameReadings
  <2> QED BY <1>7, <2>1, <2>2 DEF StartSession, EndSession
<1>8. ASSUME NEW s \in Known, DownsamplePass(s) PROVE ReadingStep
  <2>1. CASE Rollback
    BY <2>1 DEF Rollback, ReadingStep
  <2>2. ASSUME NEW firsts \in [Device -> SUBSET Cycle], passes[s] > 0,
               Commit(SetReading(db, [db.reading EXCEPT ![s] = Averaged(db.reading[s], firsts)]))
        PROVE  ReadingStep
    <3>1. disk.session[s] # "open" /\ s \in Session /\ disk' = db'
      BY <1>1, <2>2 DEF Readings, Commit
    <3>2. \A z \in Session \ {s} : db'.reading[z] = db.reading[z]
      BY <2>2, TableTypes DEF Commit, SetReading, IInv, TypeOK
    <3> QED BY <3>1, <3>2 DEF ReadingStep, CyclesKept
  <2> QED BY <1>3, <1>8, <2>1, <2>2 DEF DownsamplePass
<1>9. ASSUME NEW s \in Session, DiscardSession(s) PROVE ReadingStep
  <2>1. CASE Rollback
    BY <2>1 DEF Rollback, ReadingStep
  <2>2. CASE Commit(Erase(db, s))
    <3>1. disk' = db' /\ disk'.session[s] = "absent"
      BY <1>1, <2>2, TableTypes DEF Commit, Erase, IInv, TypeOK
    <3>2. \A z \in Session \ {s} : db'.reading[z] = db.reading[z]
      BY <2>2, TableTypes DEF Commit, Erase, IInv, TypeOK
    <3> QED BY <3>1, <3>2 DEF ReadingStep, CyclesKept
  <2> QED BY <1>9, <2>1, <2>2 DEF DiscardSession
<1>10. CASE DiscardCurrentSession
  BY <1>9, <1>10 DEF DiscardCurrentSession, IInv, TypeOK
<1>11. ASSUME NEW s \in Known, WriteElsewhere(s) PROVE ReadingStep
  BY <1>11, SameReadings DEF WriteElsewhere
<1>12. CASE SessionStep
  BY <1>1, <1>7, <1>8, <1>9, <1>10, <1>11, <1>12 DEF SessionStep, FinishStart
<1>13. ASSUME NEW s \in Known, NEW d \in Device, DeviceStep(s, d) PROVE ReadingStep
  <2>1. CASE DeviceLeft(s, d) \/ DeviceRejoined(s, d) \/ AddDevice(s, d)
    BY <1>2, <2>1, SameReadings DEF DeviceLeft, DeviceRejoined, AddDevice
  <2>2. ASSUME NEW T, SaveTargets(s, d, T) \/ UpdateTargetsFails(s, d, T) PROVE ReadingStep
    BY <1>2, <2>2, SameReadings DEF SaveTargets, UpdateTargetsFails
  <2>3. ASSUME NEW T, UpdateTargets(s, d, T) PROVE ReadingStep
    BY <1>2, <2>3, SameReadings DEF UpdateTargets
  <2>4. ASSUME NEW q \in Cycle, NEW x \in {"summary", "full"}, RecordReading(s, d, q, x)
        PROVE  ReadingStep
    BY <1>1, <2>4, AddCycleReadings DEF RecordReading, CycleState
  <2> QED BY <1>13, <2>1, <2>2, <2>3, <2>4 DEF DeviceStep
<1>14. ASSUME NEW s \in Known, NEW q \in Cycle, NEW x \in {"summary", "full"},
              RecordReadingCancelled(s, q, x)
       PROVE  ReadingStep
  BY <1>1, <1>14, AddCycleReadings, StoreAssumption DEF RecordReadingCancelled, CycleState
<1>15. CASE UNCHANGED vars
  BY <1>3, <1>15 DEF vars
<1> QED BY <1>4, <1>5, <1>6, <1>12, <1>13, <1>14, <1>15 DEF Next

\* A session that is over stays over.
LEMMA StaysOver ==
    ASSUME IInv, [Next]_vars, NEW s \in Known, disk.session[s] # "open"
    PROVE  s \in Known' /\ disk'.session[s] # "open"
<1>1. RowStep
  BY RowSteps
<1>2. Known \subseteq Session /\ issued + 1 \notin Known /\ issued \in Nat
      /\ disk.session \in [Session -> RowState]
  BY StoreAssumption, TableTypes DEF IInv, TypeOK, Known, Session
<1>3. disk'.session[s] # "open"
  BY <1>1, <1>2 DEF RowStep, RowsKept, RowEnded, RowInserted, DuplicatesEnded, RowDiscarded, Open
<1>4. issued' = issued \/ issued' = issued + 1
  BY <1>1 DEF RowStep, RowsKept, RowEnded, RowInserted, DuplicatesEnded, RowDiscarded
<1> QED BY <1>2, <1>3, <1>4 DEF Known

\* Passes are added only for the session that end_session has just ended.
LEMMA PassesStep ==
    ASSUME IInv, [Next]_vars, NEW s \in Session, passes'[s] > 0
    PROVE  passes[s] > 0 \/ (s \in Known' /\ disk'.session[s] # "open")
<1>0. passes \in [Session -> 0..2] /\ Known \subseteq Session
  BY StoreAssumption DEF IInv, TypeOK, Known, Session
<1>1. CASE EndSession
  <2>1. current \in Known /\ current \in Session
    BY <1>1 DEF EndSession, IInv, TypeOK, CurrentIsOpen, Fresh
  <2>2. disk'.session[current] = "ended" /\ issued' = issued
    BY <1>1, <2>1, TableTypes
    DEF EndSession, EndSessionLocked, Commit, SetSession, IInv, TypeOK
  <2>3. s # current => passes'[s] = passes[s]
    BY <1>0, <1>1 DEF EndSession
  <2> QED BY <2>1, <2>2, <2>3 DEF Known
<1>2. CASE Crash
  BY <1>2 DEF Crash
<1>3. ASSUME NEW r \in Known, DownsamplePass(r) PROVE passes[s] > 0
  <2>1. r # s => passes'[s] = passes[s]
    BY <1>0, <1>3 DEF DownsamplePass
  <2> QED BY <1>0, <1>3, <2>1 DEF DownsamplePass
<1>4. ASSUME NEW A, StartSession(A) \/ FinishStart \/ Recover \/ EndDuplicates
             \/ DiscardCurrentSession
      PROVE  passes' = passes
  BY <1>4 DEF StartSession, FinishStart, Recover, EndDuplicates, DiscardCurrentSession,
     DiscardSession
<1>5. ASSUME NEW r, DiscardSession(r) \/ WriteElsewhere(r) PROVE passes' = passes
  BY <1>5 DEF DiscardSession, WriteElsewhere, Memory
<1>6. ASSUME NEW r, NEW d, DeviceStep(r, d) PROVE passes' = passes
  BY <1>6 DEF DeviceStep, DeviceLeft, DeviceRejoined, AddDevice, SaveTargets, UpdateTargets,
     UpdateTargetsFails, RecordReading, Memory
<1>7. ASSUME NEW r, NEW q, NEW x, RecordReadingCancelled(r, q, x) PROVE passes' = passes
  BY <1>7 DEF RecordReadingCancelled, Memory
<1>8. CASE UNCHANGED vars
  BY <1>8 DEF vars
<1> QED BY <1>1, <1>2, <1>3, <1>4, <1>5, <1>6, <1>7, <1>8 DEF Next, SessionStep

LEMMA ReadingsInit == Init => Readings
BY DEF Init, Readings

LEMMA ReadingsStep == IInv /\ Readings /\ [Next]_vars => Readings'
<1> SUFFICES ASSUME IInv, Readings, [Next]_vars PROVE Readings'
  OBVIOUS
<1>1. ReadingStep
  BY ReadingSteps
<1>2. \A s \in Session, d \in Device, q \in Cycle :
          disk'.reading[s][d][q] = "full" => db'.reading[s][d][q] = "full"
  BY <1>1 DEF ReadingStep, CyclesKept, Readings
<1>3. \A s \in Session : passes'[s] > 0 => s \in Known' /\ disk'.session[s] # "open"
  BY PassesStep, StaysOver DEF Readings
<1> QED BY <1>2, <1>3 DEF Readings

\* A stored cycle of a session that goes on stays: whatever fails, is rolled
\* back or is averaged concerns sessions that are over.
THEOREM ReadingsAreKept == Spec => ActiveReadingsKept
<1>1. ASSUME IInv, Readings, [Next]_vars, NEW s \in Session, NEW d \in Device, NEW q \in Cycle,
             disk.session[s] = "open", disk'.session[s] = "open",
             disk.reading[s][d][q] = "full"
      PROVE  disk'.reading[s][d][q] = "full"
  <2>1. ReadingStep
    BY <1>1, ReadingSteps
  <2> QED BY <1>1, <2>1 DEF ReadingStep, CyclesKept, Readings
<1>2. IInv /\ Readings /\ [Next]_vars =>
          [\A s \in Session, d \in Device, q \in Cycle :
              /\ disk.session[s] = "open"
              /\ disk'.session[s] = "open"
              /\ disk.reading[s][d][q] = "full"
              => disk'.reading[s][d][q] = "full"]_vars
  BY <1>1
<1> QED BY <1>2, ReadingsInit, ReadingsStep, Inductive, PTL DEF Spec, ActiveReadingsKept

===============================================================================
