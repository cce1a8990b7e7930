-------------------------- MODULE DeviceWorkerProofs --------------------------
(***************************************************************************)
(* Proofs about DeviceWorker: its types, that no sequence number of a      *)
(* reading is used twice, that nothing stale is shown, that the waits      *)
(* double, that nothing is left of a discarded session, and that the       *)
(* sessions are those the store promises.                                  *)
(***************************************************************************)
EXTENDS DeviceWorker, WellFoundedInduction, TLAPS

\* The worker dies of the failure after MaxDoublings + 1, so that a live one
\* has had fewer.
AliveBelowOverflow == task = "running" => failures <= MaxDoublings + 1

\* A session is in hand where one is used, and the one that is recorded is
\* the one the numbers were resumed from.
SessionInHand ==
    /\ pc = "seeding" => prev \in Session
    /\ pc = "reseed" => held \in Session
    /\ pc \in {"check", "record"} => held \in Session /\ held = prev
    /\ pc = "record" => seq < MaxCycle

\* The counter has reached every number used in the session it was resumed
\* from, even if another session is current by now.
NumbersUsed ==
    pc \in {"read", "check", "record"} /\ prev # NoSession =>
        \A i \in probeRows[prev] : i <= seq

IInv == TypeOK /\ AliveBelowOverflow /\ SessionInHand /\ NumbersUsed /\ NothingStaleIsShown

-----------------------------------------------------------------------------
\* A set of numbers up to some bound has a largest one.
LEMMA LargestNumber ==
    ASSUME NEW S \in SUBSET Cycle, S # {}
    PROVE  \E m \in S : \A i \in S : i <= m
<1> DEFINE Gaps == {MaxCycle - i : i \in S}
           Less == OpToRel(<, Nat)
<1>1. Gaps \subseteq Nat /\ Gaps # {}
  <2>1. \A i \in S : i \in Nat /\ MaxCycle - i \in Nat
    BY WorkerAssumption DEF Cycle
  <2>2. PICK i \in S : TRUE
    OBVIOUS
  <2>3. MaxCycle - i \in Gaps
    BY <2>2
  <2> QED BY <2>1, <2>3
<1>2. \A u, v \in Nat : u < v => <<u, v>> \in Less
  BY DEF OpToRel
<1>3. PICK g \in Gaps : \A u \in Gaps : ~ (<<u, g>> \in Less)
  <2>1. IsWellFoundedOn(Less, Nat)
    BY NatLessThanWellFounded
  <2> HIDE DEF Gaps, Less
  <2> QED BY <1>1, <2>1, WFMin
<1>4. PICK m \in S : g = MaxCycle - m
  OBVIOUS
<1>5. \A i \in S : i <= m
  <2>1. TAKE i \in S
  <2>2. MaxCycle - i \in Gaps
    OBVIOUS
  <2>3. i \in Nat /\ m \in Nat /\ MaxCycle - i \in Nat /\ g \in Nat
    BY <1>1, <1>4, <2>2, WorkerAssumption DEF Cycle
  <2>4. ~ (MaxCycle - i < g)
    <3> HIDE DEF Less
    <3> QED BY <1>2, <1>3, <2>2, <2>3
  <2> QED BY <2>3, <2>4, <1>4, WorkerAssumption
<1> QED BY <1>5

\* What the numbers of a session are resumed from is at least each of those
\* in its temperatures.
LEMMA SeedReachesAll ==
    ASSUME TypeOK, NEW s \in Session
    PROVE  Seeded(s) \in Nat /\ \A i \in probeRows[s] : i <= Seeded(s)
<1>1. probeRows[s] \in SUBSET Cycle
  BY DEF TypeOK
<1>2. CASE probeRows[s] = {}
  BY <1>2 DEF Seeded, MaxSeq
<1>3. CASE probeRows[s] # {}
  <2>1. PICK m \in probeRows[s] : \A i \in probeRows[s] : i <= m
    BY <1>1, <1>3, LargestNumber
  <2>2. \A i \in probeRows[s] : i \in Nat
    BY <1>1 DEF Cycle
  <2>3. \A i \in probeRows[s] : m >= i
    BY <2>1, <2>2
  <2>4. /\ Max(probeRows[s]) \in probeRows[s]
        /\ \A i \in probeRows[s] : Max(probeRows[s]) >= i
    BY <2>3 DEF Max
  <2>5. Seeded(s) = Max(probeRows[s])
    BY <1>3 DEF Seeded, MaxSeq
  <2> HIDE DEF Seeded
  <2> QED BY <2>2, <2>4, <2>5
<1> QED BY <1>2, <1>3

-----------------------------------------------------------------------------
(* Types.                                                                  *)

\* The types of the worker's task and of its state machine
MachineTypes ==
    /\ task \in {"absent", "running", "done"}
    /\ pc \in {"connect", "authenticate", "seed", "seeding", "read", "reseed",
               "check", "record", "leave", "sleep"}
    /\ state \in ConnectionState
    /\ hadSuccess \in BOOLEAN

\* ... of its attempts, failures and waits
WaitTypes ==
    /\ attempt \in 1..AuthMaxRetries
    /\ failures \in 0..(MaxDoublings + 2)
    /\ backoff \in Waits
    /\ lastWait \in Waits

\* ... of its connection and of the cycle it is in
CycleTypes ==
    /\ link \in BOOLEAN
    /\ seq \in Nat
    /\ prev \in Session \cup {NoSession}
    /\ held \in Session \cup {NoSession}
    /\ probes \in BOOLEAN
    /\ entry \in Entry

\* ... and of the sessions and their tables
SessionTypes ==
    /\ current \in Session \cup {NoSession}
    /\ issued \in 0..MaxSession
    /\ member \in [Session -> {"none", "in", "left"}]
    /\ discarded \subseteq Session
    /\ probeRows \in [Session -> SUBSET Cycle]
    /\ deviceRows \in [Session -> SUBSET Cycle]
    /\ restarts \in 0..MaxRestart

\* Together they are the types of all.
LEMMA TypeParts == TypeOK <=> MachineTypes /\ WaitTypes /\ CycleTypes /\ SessionTypes
BY DEF TypeOK, MachineTypes, WaitTypes, CycleTypes, SessionTypes

\* The waits that are no power of two
LEMMA OtherWaits == 0 \in Waits /\ InitialBackoff \in Waits
BY DEF Waits

\* Whatever is shown is an entry.
LEMMA Entries ==
    ASSUME TypeOK
    PROVE  /\ Unconnected \in Entry
           /\ [connected |-> TRUE, probes |-> entry.probes] \in Entry
           /\ [connected |-> FALSE, probes |-> FALSE] \in Entry
           /\ \A read \in BOOLEAN : [connected |-> TRUE, probes |-> read] \in Entry
<1>1. entry.probes \in BOOLEAN
  BY DEF TypeOK, Entry
<1> QED BY <1>1, Zenon DEF Unconnected, Entry

\* The initial state has its types.
LEMMA TypeInit == Init => TypeOK
<1> SUFFICES ASSUME Init PROVE MachineTypes /\ WaitTypes /\ CycleTypes /\ SessionTypes
  BY TypeParts
<1> USE WorkerAssumption DEF Init, NoSession
<1>1. MachineTypes
  BY DEF MachineTypes, ConnectionState
<1>4. WaitTypes
  BY OtherWaits DEF WaitTypes, AuthMaxRetries
<1>2. CycleTypes
  <2>1. entry \in Entry
    BY Zenon DEF Entry
  <2> QED BY <2>1 DEF CycleTypes
<1>3. SessionTypes
  BY DEF SessionTypes
<1> QED BY <1>1, <1>2, <1>3, <1>4

\* The state machine moves between its states.
LEMMA MachineTypesStep == TypeOK /\ [Next]_vars => MachineTypes'
<1> SUFFICES ASSUME TypeOK, [Next]_vars
             PROVE  MachineTypes'
  OBVIOUS
<1> USE WorkerAssumption DEF TypeOK, MachineTypes, machine, cycle, sessions, tables
<1>1. CASE Connect
  BY <1>1 DEF Connect, Fails, Transition, Unconnected, ConnectionState
<1>2. CASE Authenticate
  BY <1>2 DEF Authenticate, EnterPolling, Fails, Unconnected, ConnectionState, AuthMaxRetries
<1>3. CASE Leave
  BY <1>3 DEF Leave, BackOff, EnterBackoff, ConnectionState
<1>4. CASE WakeUp
  BY <1>4 DEF WakeUp, Connecting, Transition, ConnectionState
<1>5. CASE Seed
  BY <1>5 DEF Seed
<1>6. CASE SeedSeq
  BY <1>6 DEF SeedSeq
<1>7. ASSUME NEW read \in BOOLEAN, Read(read) PROVE MachineTypes'
  BY <1>7 DEF Read, Show
<1>8. CASE LoseLink
  BY <1>8 DEF LoseLink, Fails, Forget, Unconnected
<1>9. CASE Reseed
  BY <1>9 DEF Reseed, Show
<1>10. CASE Check
  BY <1>10 DEF Check
<1>11. CASE Record
  BY <1>11 DEF Record, Fails, Forget, Unconnected
<1>12. CASE Discover
  BY <1>12 DEF Discover, NewWorker, ConnectionState
<1>13. CASE Respawn
  BY <1>13 DEF Respawn, NewWorker, Unconnected, ConnectionState
<1>14. CASE LinkDrops
  BY <1>14 DEF LinkDrops
<1>15. ASSUME NEW m \in {"none", "in"}, StartSession(m) PROVE MachineTypes'
  BY <1>15 DEF StartSession
<1>16. CASE AddDevice
  BY <1>16 DEF AddDevice
<1>17. CASE EndSession
  BY <1>17 DEF EndSession
<1>18. CASE DiscardSession
  BY <1>18 DEF DiscardSession
<1>19. CASE Restart
  BY <1>19 DEF Restart, ConnectionState, AuthMaxRetries
<1>20. CASE UNCHANGED vars
  BY <1>20 DEF vars
<1> QED
  BY <1>1, <1>2, <1>3, <1>4, <1>5, <1>6, <1>7, <1>8, <1>9, <1>10, <1>11, <1>12, <1>13,
     <1>14, <1>15, <1>16, <1>17, <1>18, <1>19, <1>20 DEF Next, WorkerStep

\* While the worker lives its waits are within the table of waits.
LEMMA WaitTypesStep == TypeOK /\ AliveBelowOverflow /\ [Next]_vars => WaitTypes'
<1> SUFFICES ASSUME TypeOK, AliveBelowOverflow, [Next]_vars
             PROVE  WaitTypes'
  OBVIOUS
<1> USE WorkerAssumption DEF TypeOK, WaitTypes, machine, cycle, sessions, tables
<1>1. CASE Connect
  BY <1>1 DEF Connect, Fails, Transition, Unconnected, ConnectionState
<1>2. CASE Authenticate
  BY <1>2, OtherWaits DEF Authenticate, EnterPolling, Fails, AuthMaxRetries
<1>3. CASE Leave
  <2>1. Failures \in 1..(MaxDoublings + 2)
    BY <1>3 DEF Leave, Failures, AliveBelowOverflow
  <2>2. CASE Overflows
    BY <1>3, <2>1, <2>2 DEF Leave, BackOff
  <2>3. CASE ~Overflows
    <3>1. Failures \in 1..(MaxDoublings + 1)
      BY <2>1, <2>3 DEF Overflows
    <3>2. Capped(Failures) \in Waits
      BY <3>1 DEF Waits
    <3>3. /\ failures' = Failures /\ attempt' = attempt
          /\ backoff' = Capped(Failures) /\ lastWait' = Capped(Failures)
      BY <1>3, <2>3 DEF Leave, BackOff, EnterBackoff
    <3> QED BY <2>1, <3>2, <3>3
  <2> QED BY <2>2, <2>3
<1>4. CASE WakeUp
  BY <1>4 DEF WakeUp, Connecting, Transition, ConnectionState
<1>5. CASE Seed
  BY <1>5 DEF Seed
<1>6. CASE SeedSeq
  BY <1>6 DEF SeedSeq
<1>7. ASSUME NEW read \in BOOLEAN, Read(read) PROVE WaitTypes'
  BY <1>7 DEF Read, Show
<1>8. CASE LoseLink
  BY <1>8 DEF LoseLink, Fails, Forget, Unconnected
<1>9. CASE Reseed
  BY <1>9 DEF Reseed, Show
<1>10. CASE Check
  BY <1>10 DEF Check
<1>11. CASE Record
  BY <1>11 DEF Record, Fails, Forget, Unconnected
<1>12. CASE Discover
  BY <1>12, OtherWaits DEF Discover, NewWorker
<1>13. CASE Respawn
  BY <1>13, OtherWaits DEF Respawn, NewWorker
<1>14. CASE LinkDrops
  BY <1>14 DEF LinkDrops
<1>15. ASSUME NEW m \in {"none", "in"}, StartSession(m) PROVE WaitTypes'
  BY <1>15 DEF StartSession
<1>16. CASE AddDevice
  BY <1>16 DEF AddDevice
<1>17. CASE EndSession
  BY <1>17 DEF EndSession
<1>18. CASE DiscardSession
  BY <1>18 DEF DiscardSession
<1>19. CASE Restart
  BY <1>19, OtherWaits DEF Restart, AuthMaxRetries
<1>20. CASE UNCHANGED vars
  BY <1>20 DEF vars
<1> QED
  BY <1>1, <1>2, <1>3, <1>4, <1>5, <1>6, <1>7, <1>8, <1>9, <1>10, <1>11, <1>12, <1>13,
     <1>14, <1>15, <1>16, <1>17, <1>18, <1>19, <1>20 DEF Next, WorkerStep

\* Sequence numbers are resumed from a session that is in hand.
LEMMA CycleTypesStep == TypeOK /\ SessionInHand /\ [Next]_vars => CycleTypes'
<1> SUFFICES ASSUME TypeOK, SessionInHand, [Next]_vars
             PROVE  CycleTypes'
  OBVIOUS
<1> USE WorkerAssumption DEF TypeOK, CycleTypes, machine, cycle, sessions, tables
<1>1. CASE Connect
  BY <1>1, Entries DEF Connect, Fails
<1>2. CASE Authenticate
  BY <1>2, Entries DEF Authenticate, Fails
<1>3. CASE Leave
  BY <1>3, Entries DEF Leave
<1>4. CASE WakeUp
  BY <1>4 DEF WakeUp, Connecting, Transition, ConnectionState
<1>5. CASE Seed
  BY <1>5 DEF Seed
<1>6. CASE SeedSeq
  <2>1. Seeded(prev) \in Nat
    BY <1>6, SeedReachesAll DEF SeedSeq, SessionInHand
  <2> QED BY <1>6, <2>1, Entries DEF SeedSeq
<1>7. ASSUME NEW read \in BOOLEAN, Read(read) PROVE CycleTypes'
  BY <1>7, Entries DEF Read, Show
<1>8. CASE LoseLink
  BY <1>8, Entries DEF LoseLink, Fails, Forget
<1>9. CASE Reseed
  <2>1. Seeded(held) \in Nat
    BY <1>9, SeedReachesAll DEF Reseed, SessionInHand
  <2> QED BY <1>9, <2>1, Entries DEF Reseed, Show
<1>10. CASE Check
  BY <1>10 DEF Check
<1>11. CASE Record
  <2>1. CASE held \in discarded
    BY <1>11, <2>1, Entries DEF Record, Fails, Forget
  <2>2. CASE held \notin discarded
    BY <1>11, <2>2 DEF Record
  <2> QED BY <2>1, <2>2
<1>12. CASE Discover
  BY <1>12 DEF Discover, NewWorker, ConnectionState
<1>13. CASE Respawn
  BY <1>13, Entries DEF Respawn, NewWorker
<1>14. CASE LinkDrops
  BY <1>14 DEF LinkDrops
<1>15. ASSUME NEW m \in {"none", "in"}, StartSession(m) PROVE CycleTypes'
  BY <1>15 DEF StartSession
<1>16. CASE AddDevice
  BY <1>16 DEF AddDevice
<1>17. CASE EndSession
  BY <1>17 DEF EndSession
<1>18. CASE DiscardSession
  BY <1>18 DEF DiscardSession
<1>19. CASE Restart
  BY <1>19, Entries DEF Restart
<1>20. CASE UNCHANGED vars
  BY <1>20 DEF vars
<1> QED
  BY <1>1, <1>2, <1>3, <1>4, <1>5, <1>6, <1>7, <1>8, <1>9, <1>10, <1>11, <1>12, <1>13,
     <1>14, <1>15, <1>16, <1>17, <1>18, <1>19, <1>20 DEF Next, WorkerStep

\* Only numbers within the bound are recorded.
LEMMA SessionTypesStep == TypeOK /\ SessionInHand /\ [Next]_vars => SessionTypes'
<1> SUFFICES ASSUME TypeOK, SessionInHand, [Next]_vars
             PROVE  SessionTypes'
  OBVIOUS
<1> USE WorkerAssumption DEF TypeOK, SessionTypes, machine, cycle, sessions, tables
<1>1. CASE Connect
  BY <1>1 DEF Connect, Fails, Transition, Unconnected, ConnectionState
<1>2. CASE Authenticate
  BY <1>2 DEF Authenticate, EnterPolling, Fails, Unconnected, ConnectionState, AuthMaxRetries
<1>3. CASE Leave
  BY <1>3 DEF Leave, MarkLeft
<1>4. CASE WakeUp
  BY <1>4 DEF WakeUp, Connecting, Transition, ConnectionState
<1>5. CASE Seed
  BY <1>5 DEF Seed
<1>6. CASE SeedSeq
  BY <1>6 DEF SeedSeq
<1>7. ASSUME NEW read \in BOOLEAN, Read(read) PROVE SessionTypes'
  BY <1>7 DEF Read, Show
<1>8. CASE LoseLink
  BY <1>8 DEF LoseLink, Fails, Forget, Unconnected
<1>9. CASE Reseed
  BY <1>9 DEF Reseed, Show
<1>10. CASE Check
  BY <1>10 DEF Check
<1>11. CASE Record
  <2>1. held \in Session /\ seq + 1 \in Cycle
    BY <1>11 DEF Record, SessionInHand, Cycle
  <2> QED BY <1>11, <2>1 DEF Record
<1>12. CASE Discover
  BY <1>12 DEF Discover, NewWorker, ConnectionState
<1>13. CASE Respawn
  BY <1>13 DEF Respawn, NewWorker, Unconnected, ConnectionState
<1>14. CASE LinkDrops
  BY <1>14 DEF LinkDrops
<1>15. ASSUME NEW m \in {"none", "in"}, StartSession(m) PROVE SessionTypes'
  BY <1>15 DEF StartSession, Session
<1>16. CASE AddDevice
  BY <1>16 DEF AddDevice
<1>17. CASE EndSession
  BY <1>17 DEF EndSession
<1>18. CASE DiscardSession
  BY <1>18 DEF DiscardSession, NoSession
<1>19. CASE Restart
  BY <1>19 DEF Restart, ConnectionState, AuthMaxRetries
<1>20. CASE UNCHANGED vars
  BY <1>20 DEF vars
<1> QED
  BY <1>1, <1>2, <1>3, <1>4, <1>5, <1>6, <1>7, <1>8, <1>9, <1>10, <1>11, <1>12, <1>13,
     <1>14, <1>15, <1>16, <1>17, <1>18, <1>19, <1>20 DEF Next, WorkerStep

\* Every step keeps the types.
LEMMA TypeStep == TypeOK /\ AliveBelowOverflow /\ SessionInHand /\ [Next]_vars => TypeOK'
<1> SUFFICES ASSUME TypeOK, AliveBelowOverflow, SessionInHand, [Next]_vars
             PROVE  MachineTypes' /\ WaitTypes' /\ CycleTypes' /\ SessionTypes'
  BY DEF TypeOK, MachineTypes, WaitTypes, CycleTypes, SessionTypes
<1> QED BY MachineTypesStep, WaitTypesStep, CycleTypesStep, SessionTypesStep

-----------------------------------------------------------------------------
(* The invariant.                                                          *)

\* The failure that overflows ends the task.
LEMMA AliveStep == TypeOK /\ AliveBelowOverflow /\ [Next]_vars => AliveBelowOverflow'
<1> SUFFICES ASSUME TypeOK, AliveBelowOverflow, [Next]_vars
             PROVE  AliveBelowOverflow'
  OBVIOUS
<1> USE WorkerAssumption DEF AliveBelowOverflow, TypeOK, machine, cycle, sessions, tables
<1>1. CASE Connect
  BY <1>1 DEF Connect, Fails, Transition, Unconnected, ConnectionState
<1>2. CASE Authenticate
  BY <1>2 DEF Authenticate, EnterPolling, Fails, Unconnected, ConnectionState, AuthMaxRetries
<1>3. CASE Leave
  BY <1>3 DEF Leave, BackOff, EnterBackoff, Failures, Overflows
<1>4. CASE WakeUp
  BY <1>4 DEF WakeUp, Connecting, Transition, ConnectionState
<1>5. CASE Seed
  BY <1>5 DEF Seed
<1>6. CASE SeedSeq
  BY <1>6 DEF SeedSeq
<1>7. ASSUME NEW read \in BOOLEAN, Read(read) PROVE AliveBelowOverflow'
  BY <1>7 DEF Read, Show
<1>8. CASE LoseLink
  BY <1>8 DEF LoseLink, Fails, Forget, Unconnected
<1>9. CASE Reseed
  BY <1>9 DEF Reseed, Show
<1>10. CASE Check
  BY <1>10 DEF Check
<1>11. CASE Record
  BY <1>11 DEF Record, Fails, Forget, Unconnected
<1>12. CASE Discover
  BY <1>12 DEF Discover, NewWorker, ConnectionState
<1>13. CASE Respawn
  BY <1>13 DEF Respawn, NewWorker, Unconnected, ConnectionState
<1>14. CASE LinkDrops
  BY <1>14 DEF LinkDrops
<1>15. ASSUME NEW m \in {"none", "in"}, StartSession(m) PROVE AliveBelowOverflow'
  BY <1>15 DEF StartSession
<1>16. CASE AddDevice
  BY <1>16 DEF AddDevice
<1>17. CASE EndSession
  BY <1>17 DEF EndSession
<1>18. CASE DiscardSession
  BY <1>18 DEF DiscardSession
<1>19. CASE Restart
  BY <1>19 DEF Restart, ConnectionState, AuthMaxRetries
<1>20. CASE UNCHANGED vars
  BY <1>20 DEF vars
<1> QED
  BY <1>1, <1>2, <1>3, <1>4, <1>5, <1>6, <1>7, <1>8, <1>9, <1>10, <1>11, <1>12, <1>13,
     <1>14, <1>15, <1>16, <1>17, <1>18, <1>19, <1>20 DEF Next, WorkerStep

\* The session in hand is a session wherever it is used.
LEMMA SessionInHandStep == TypeOK /\ SessionInHand /\ [Next]_vars => SessionInHand'
<1> SUFFICES ASSUME TypeOK, SessionInHand, [Next]_vars
             PROVE  SessionInHand'
  OBVIOUS
<1> USE WorkerAssumption DEF SessionInHand, TypeOK, machine, cycle, sessions, tables
<1>1. CASE Connect
  BY <1>1 DEF Connect, Fails, Transition, Unconnected, ConnectionState
<1>2. CASE Authenticate
  BY <1>2 DEF Authenticate, EnterPolling, Fails, Unconnected, ConnectionState, AuthMaxRetries
<1>3. CASE Leave
  BY <1>3 DEF Leave, BackOff, EnterBackoff
<1>4. CASE WakeUp
  BY <1>4 DEF WakeUp, Connecting, Transition, ConnectionState
<1>5. CASE Seed
  BY <1>5 DEF Seed
<1>6. CASE SeedSeq
  BY <1>6 DEF SeedSeq
<1>7. ASSUME NEW read \in BOOLEAN, Read(read) PROVE SessionInHand'
  BY <1>7 DEF Read, Show
<1>8. CASE LoseLink
  BY <1>8 DEF LoseLink, Fails, Forget, Unconnected
<1>9. CASE Reseed
  BY <1>9 DEF Reseed, Show
<1>10. CASE Check
  BY <1>10 DEF Check
<1>11. CASE Record
  BY <1>11 DEF Record, Fails, Forget, Unconnected
<1>12. CASE Discover
  BY <1>12 DEF Discover, NewWorker, ConnectionState
<1>13. CASE Respawn
  BY <1>13 DEF Respawn, NewWorker, Unconnected, ConnectionState
<1>14. CASE LinkDrops
  BY <1>14 DEF LinkDrops
<1>15. ASSUME NEW m \in {"none", "in"}, StartSession(m) PROVE SessionInHand'
  BY <1>15 DEF StartSession
<1>16. CASE AddDevice
  BY <1>16 DEF AddDevice
<1>17. CASE EndSession
  BY <1>17 DEF EndSession
<1>18. CASE DiscardSession
  BY <1>18 DEF DiscardSession
<1>19. CASE Restart
  BY <1>19 DEF Restart, ConnectionState, AuthMaxRetries
<1>20. CASE UNCHANGED vars
  BY <1>20 DEF vars
<1> QED
  BY <1>1, <1>2, <1>3, <1>4, <1>5, <1>6, <1>7, <1>8, <1>9, <1>10, <1>11, <1>12, <1>13,
     <1>14, <1>15, <1>16, <1>17, <1>18, <1>19, <1>20 DEF Next, WorkerStep

\* The counter reaches every number of the session it was resumed from.
LEMMA NumbersUsedStep == TypeOK /\ SessionInHand /\ NumbersUsed /\ [Next]_vars => NumbersUsed'
<1> SUFFICES ASSUME TypeOK, SessionInHand, NumbersUsed, [Next]_vars
             PROVE  NumbersUsed'
  OBVIOUS
<1> USE WorkerAssumption DEF NumbersUsed, TypeOK, machine, cycle, sessions, tables
<1>1. CASE Connect
  BY <1>1 DEF Connect, Fails, Transition, Unconnected, ConnectionState
<1>2. CASE Authenticate
  BY <1>2 DEF Authenticate, EnterPolling, Fails, Unconnected, ConnectionState, AuthMaxRetries
<1>3. CASE Leave
  BY <1>3 DEF Leave, BackOff, EnterBackoff
<1>4. CASE WakeUp
  BY <1>4 DEF WakeUp, Connecting, Transition, ConnectionState
<1>5. CASE Seed
  BY <1>5 DEF Seed
<1>6. CASE SeedSeq
  <2>1. Seeded(prev) \in Nat /\ \A i \in probeRows[prev] : i <= Seeded(prev)
    BY <1>6, SeedReachesAll DEF SeedSeq, SessionInHand
  <2> HIDE DEF Seeded
  <2> QED BY <1>6, <2>1 DEF SeedSeq
<1>7. ASSUME NEW read \in BOOLEAN, Read(read) PROVE NumbersUsed'
  BY <1>7 DEF Read, Show
<1>8. CASE LoseLink
  BY <1>8 DEF LoseLink, Fails, Forget, Unconnected
<1>9. CASE Reseed
  <2>1. Seeded(held) \in Nat /\ \A i \in probeRows[held] : i <= Seeded(held)
    BY <1>9, SeedReachesAll DEF Reseed, SessionInHand
  <2> HIDE DEF Seeded
  <2> QED BY <1>9, <2>1 DEF Reseed
<1>10. CASE Check
  BY <1>10 DEF Check
<1>11. CASE Record
  <2>1. CASE held \in discarded
    BY <1>11, <2>1 DEF Record, Fails, Forget
  <2>2. CASE held \notin discarded
    <3>1. /\ held \in Session /\ held = prev /\ prev' = prev /\ seq' = seq + 1
          /\ \/ probeRows' = probeRows
             \/ probeRows' = [probeRows EXCEPT ![held] = @ \cup {seq + 1}]
      BY <1>11, <2>2 DEF Record, SessionInHand
    <3>2. probeRows'[held] \subseteq probeRows[held] \cup {seq + 1}
      BY <3>1
    <3>3. \A i \in probeRows[held] : i \in Nat /\ i <= seq
      BY <1>11, <3>1 DEF Record, Cycle, NoSession, Session
    <3>4. \A i \in probeRows'[held] : i <= seq + 1
      BY <3>2, <3>3
    <3> QED BY <3>1, <3>4
  <2> QED BY <2>1, <2>2
<1>12. CASE Discover
  BY <1>12 DEF Discover, NewWorker, ConnectionState
<1>13. CASE Respawn
  BY <1>13 DEF Respawn, NewWorker, Unconnected, ConnectionState
<1>14. CASE LinkDrops
  BY <1>14 DEF LinkDrops
<1>15. ASSUME NEW m \in {"none", "in"}, StartSession(m) PROVE NumbersUsed'
  BY <1>15 DEF StartSession
<1>16. CASE AddDevice
  BY <1>16 DEF AddDevice
<1>17. CASE EndSession
  BY <1>17 DEF EndSession
<1>18. CASE DiscardSession
  BY <1>18 DEF DiscardSession
<1>19. CASE Restart
  BY <1>19 DEF Restart, ConnectionState, AuthMaxRetries
<1>20. CASE UNCHANGED vars
  BY <1>20 DEF vars
<1> QED
  BY <1>1, <1>2, <1>3, <1>4, <1>5, <1>6, <1>7, <1>8, <1>9, <1>10, <1>11, <1>12, <1>13,
     <1>14, <1>15, <1>16, <1>17, <1>18, <1>19, <1>20 DEF Next, WorkerStep

\* Every way out of a connection blanks the entry.
LEMMA ShownStep == TypeOK /\ NothingStaleIsShown /\ [Next]_vars => NothingStaleIsShown'
<1> SUFFICES ASSUME TypeOK, NothingStaleIsShown, [Next]_vars
             PROVE  NothingStaleIsShown'
  OBVIOUS
<1> USE WorkerAssumption DEF NothingStaleIsShown, TypeOK, machine, cycle, sessions, tables
<1>1. CASE Connect
  BY <1>1 DEF Connect, Fails, Transition, Unconnected, ConnectionState
<1>2. CASE Authenticate
  BY <1>2 DEF Authenticate, EnterPolling, Fails, Unconnected, ConnectionState, AuthMaxRetries
<1>3. CASE Leave
  BY <1>3 DEF Leave, BackOff, EnterBackoff
<1>4. CASE WakeUp
  BY <1>4 DEF WakeUp, Connecting, Transition, ConnectionState
<1>5. CASE Seed
  BY <1>5 DEF Seed
<1>6. CASE SeedSeq
  BY <1>6 DEF SeedSeq
<1>7. ASSUME NEW read \in BOOLEAN, Read(read) PROVE NothingStaleIsShown'
  BY <1>7 DEF Read, Show
<1>8. CASE LoseLink
  BY <1>8 DEF LoseLink, Fails, Forget, Unconnected
<1>9. CASE Reseed
  BY <1>9 DEF Reseed, Show
<1>10. CASE Check
  BY <1>10 DEF Check
<1>11. CASE Record
  BY <1>11 DEF Record, Fails, Forget, Unconnected
<1>12. CASE Discover
  BY <1>12 DEF Discover, NewWorker, ConnectionState
<1>13. CASE Respawn
  BY <1>13 DEF Respawn, NewWorker, Unconnected, ConnectionState
<1>14. CASE LinkDrops
  BY <1>14 DEF LinkDrops
<1>15. ASSUME NEW m \in {"none", "in"}, StartSession(m) PROVE NothingStaleIsShown'
  BY <1>15 DEF StartSession
<1>16. CASE AddDevice
  BY <1>16 DEF AddDevice
<1>17. CASE EndSession
  BY <1>17 DEF EndSession
<1>18. CASE DiscardSession
  BY <1>18 DEF DiscardSession
<1>19. CASE Restart
  BY <1>19 DEF Restart, ConnectionState, AuthMaxRetries
<1>20. CASE UNCHANGED vars
  BY <1>20 DEF vars
<1> QED
  BY <1>1, <1>2, <1>3, <1>4, <1>5, <1>6, <1>7, <1>8, <1>9, <1>10, <1>11, <1>12, <1>13,
     <1>14, <1>15, <1>16, <1>17, <1>18, <1>19, <1>20 DEF Next, WorkerStep

\* Every step keeps the invariant.
LEMMA Inductive == IInv /\ [Next]_vars => IInv'
BY TypeStep, AliveStep, SessionInHandStep, NumbersUsedStep, ShownStep DEF IInv

\* The invariant holds at the start.
LEMMA InvInit == Init => IInv
<1> SUFFICES ASSUME Init PROVE IInv
  OBVIOUS
<1>1. TypeOK
  BY TypeInit
<1>2. AliveBelowOverflow /\ SessionInHand /\ NumbersUsed
  BY DEF Init, AliveBelowOverflow, SessionInHand, NumbersUsed
<1>3. NothingStaleIsShown
  BY DEF Init, NothingStaleIsShown
<1> QED BY <1>1, <1>2, <1>3 DEF IInv

-----------------------------------------------------------------------------
(* The waits.                                                              *)

\* f has the powers of two up to the n-th.
Doubling(n, f) == f = [m \in 0..n |-> IF m = 0 THEN 1 ELSE 2 * f[m - 1]]

\* PowerOfTwo picks such a function.
LEMMA PowerOfTwoPicks == PowerOfTwo = CHOOSE f : Doubling(MaxDoublings, f)
BY Zenon DEF PowerOfTwo, Doubling

\* A set of numbers that is not empty has a smallest one.
LEMMA SmallestNumber ==
    ASSUME NEW S \in SUBSET Nat, S # {}
    PROVE  \E m \in S : \A i \in S : m <= i
<1> DEFINE Less == OpToRel(<, Nat)
<1>1. PICK m \in S : \A i \in S : ~ (<<i, m>> \in Less)
  <2>1. IsWellFoundedOn(Less, Nat)
    BY NatLessThanWellFounded
  <2> HIDE DEF Less
  <2> QED BY <2>1, WFMin
<1>2. \A i, j \in Nat : i < j => <<i, j>> \in Less
  BY DEF OpToRel
<1> HIDE DEF Less
<1>3. \A i \in S : ~ (i < m)
  BY <1>1, <1>2
<1> QED BY <1>3

\* There is one, however many doublings fit.
LEMMA DoublingExists ==
    ASSUME NEW n \in Nat
    PROVE  \E f : Doubling(n, f)
<1> DEFINE Bad == {m \in Nat : ~ \E f : Doubling(m, f)}
<1>1. Bad = {}
  <2> SUFFICES ASSUME Bad # {} PROVE FALSE
    OBVIOUS
  <2>1. PICK m \in Bad : \A i \in Bad : m <= i
    <3>1. Bad \subseteq Nat
      OBVIOUS
    <3> HIDE DEF Bad
    <3> QED BY <3>1, SmallestNumber
  <2>2. CASE m = 0
    <3> DEFINE f == [i \in 0..0 |-> 1]
    <3>1. f = [i \in 0..0 |-> IF i = 0 THEN 1 ELSE 2 * f[i - 1]]
      OBVIOUS
    <3>2. Doubling(0, f)
      BY <3>1 DEF Doubling
    <3> QED BY <2>2, <3>2
  <2>3. CASE m # 0
    <3>1. m \in Nat /\ m - 1 \in Nat /\ m - 1 \notin Bad
      BY <2>1, <2>3
    <3>2. PICK g : Doubling(m - 1, g)
      BY <3>1
    <3>3. \A i \in 0..(m - 1) : g[i] = IF i = 0 THEN 1 ELSE 2 * g[i - 1]
      BY <3>2 DEF Doubling
    <3> DEFINE f == [i \in 0..m |-> IF i = m THEN 2 * g[m - 1] ELSE g[i]]
    <3>4. ASSUME NEW i \in 0..m
          PROVE  f[i] = IF i = 0 THEN 1 ELSE 2 * f[i - 1]
      <4>1. CASE i = m
        BY <2>3, <3>1, <4>1
      <4>2. CASE i # m
        <5>1. i \in 0..(m - 1) /\ f[i] = g[i]
          BY <3>1, <4>2
        <5>2. i # 0 => f[i - 1] = g[i - 1]
          BY <3>1, <4>2
        <5> QED BY <3>3, <5>1, <5>2
      <4> QED BY <4>1, <4>2
    <3>5. f = [i \in 0..m |-> IF i = 0 THEN 1 ELSE 2 * f[i - 1]]
      BY <3>4
    <3>6. Doubling(m, f)
      BY <3>5 DEF Doubling
    <3> QED BY <2>1, <3>6
  <2> QED BY <2>2, <2>3
<1> QED BY <1>1

\* So each power is twice the one before,
LEMMA PowersDouble ==
    /\ PowerOfTwo[0] = 1
    /\ \A n \in 1..MaxDoublings : PowerOfTwo[n] = 2 * PowerOfTwo[n - 1]
<1>1. Doubling(MaxDoublings, PowerOfTwo)
  BY PowerOfTwoPicks, DoublingExists, WorkerAssumption
<1>2. \A n \in 0..MaxDoublings : PowerOfTwo[n] = IF n = 0 THEN 1 ELSE 2 * PowerOfTwo[n - 1]
  <2> HIDE DEF PowerOfTwo
  <2> QED BY <1>1 DEF Doubling
<1> HIDE DEF PowerOfTwo
<1> QED BY <1>2, WorkerAssumption

\* ... and each is a number.
LEMMA PowersPositive ==
    ASSUME NEW n \in 0..MaxDoublings
    PROVE  PowerOfTwo[n] \in Nat \ {0}
<1> HIDE DEF PowerOfTwo
<1> DEFINE Bad == {m \in 0..MaxDoublings : PowerOfTwo[m] \notin Nat \ {0}}
<1>1. Bad = {}
  <2> SUFFICES ASSUME Bad # {} PROVE FALSE
    OBVIOUS
  <2>1. PICK m \in Bad : \A i \in Bad : m <= i
    <3>1. Bad \subseteq Nat
      BY WorkerAssumption
    <3> HIDE DEF Bad
    <3> QED BY <3>1, SmallestNumber
  <2>2. CASE m = 0
    BY <2>1, <2>2, PowersDouble
  <2>3. CASE m # 0
    <3>1. m - 1 \in 0..MaxDoublings /\ m - 1 \notin Bad
      BY <2>1, <2>3, WorkerAssumption
    <3>2. PowerOfTwo[m - 1] \in Nat \ {0} /\ PowerOfTwo[m] = 2 * PowerOfTwo[m - 1]
      BY <2>1, <2>3, <3>1, PowersDouble, WorkerAssumption
    <3>3. PowerOfTwo[m] \in Nat \ {0}
      BY <3>2
    <3> QED BY <2>1, <3>3
  <2> QED BY <2>2, <2>3
<1> QED BY <1>1

\* The first wait, and each after it from the one before
LEMMA WaitsDouble ==
    /\ Capped(1) = Least(InitialBackoff, MaxBackoff)
    /\ \A n \in 1..MaxDoublings :
          /\ Capped(n) \in Nat \ {0}
          /\ Capped(n + 1) = Least(2 * Capped(n), MaxBackoff)
<1> HIDE DEF PowerOfTwo
<1>1. Capped(1) = Least(InitialBackoff, MaxBackoff)
  BY PowersDouble, WorkerAssumption DEF Capped, Least
<1>2. ASSUME NEW n \in 1..MaxDoublings
      PROVE  /\ Capped(n) \in Nat \ {0}
             /\ Capped(n + 1) = Least(2 * Capped(n), MaxBackoff)
  <2>1. /\ n - 1 \in 0..MaxDoublings
        /\ PowerOfTwo[n - 1] \in Nat \ {0}
        /\ PowerOfTwo[(n + 1) - 1] = 2 * PowerOfTwo[n - 1]
    BY PowersPositive, PowersDouble, WorkerAssumption
  <2>2. PICK x \in Nat \ {0} : /\ x = InitialBackoff * PowerOfTwo[n - 1]
                               /\ InitialBackoff * (2 * PowerOfTwo[n - 1]) = 2 * x
    BY <2>1, WorkerAssumption
  <2>3. Capped(n) = Least(x, MaxBackoff) /\ Capped(n + 1) = Least(2 * x, MaxBackoff)
    BY <2>1, <2>2 DEF Capped
  <2>4. Least(x, MaxBackoff) \in Nat \ {0}
    BY <2>2, WorkerAssumption DEF Least
  <2>5. Least(2 * x, MaxBackoff) = Least(2 * Least(x, MaxBackoff), MaxBackoff)
    BY <2>2, WorkerAssumption DEF Least
  <2> QED BY <2>3, <2>4, <2>5
<1> QED BY <1>1, <1>2

\* The last wait is the one of the failures so far, and after a success
\* there are none.
LastOfFailures ==
    task = "running" =>
        /\ hadSuccess => failures = 0
        /\ lastWait = IF failures = 0 THEN 0 ELSE Capped(failures)

\* Only a failure waits, and a success forgets both the failures and the
\* wait.
LEMMA LastOfFailuresStep ==
    TypeOK /\ LastOfFailures /\ [Next]_vars => LastOfFailures'
<1> SUFFICES ASSUME TypeOK, LastOfFailures, [Next]_vars
             PROVE  LastOfFailures'
  OBVIOUS
<1> USE WorkerAssumption DEF LastOfFailures, machine, cycle, sessions, tables
<1>1. CASE Connect
  BY <1>1 DEF Connect, Fails, Transition
<1>2. CASE Authenticate
  BY <1>2 DEF Authenticate, EnterPolling, Fails
<1>3. CASE Leave
  <2>1. Failures \in Nat \ {0}
    BY DEF TypeOK, Failures
  <2> QED BY <1>3, <2>1 DEF Leave, BackOff, EnterBackoff
<1>4. CASE WakeUp
  BY <1>4 DEF WakeUp, Connecting, Transition
<1>5. CASE Seed
  BY <1>5 DEF Seed
<1>6. CASE SeedSeq
  BY <1>6 DEF SeedSeq
<1>7. ASSUME NEW read \in BOOLEAN, Read(read) PROVE LastOfFailures'
  BY <1>7 DEF Read
<1>8. CASE LoseLink
  BY <1>8 DEF LoseLink
<1>9. CASE Reseed
  BY <1>9 DEF Reseed
<1>10. CASE Check
  BY <1>10 DEF Check
<1>11. CASE Record
  BY <1>11 DEF Record
<1>12. CASE Discover
  BY <1>12 DEF Discover, NewWorker
<1>13. CASE Respawn
  BY <1>13 DEF Respawn, NewWorker
<1>14. CASE LinkDrops
  BY <1>14 DEF LinkDrops
<1>15. ASSUME NEW m \in {"none", "in"}, StartSession(m) PROVE LastOfFailures'
  BY <1>15 DEF StartSession
<1>16. CASE AddDevice
  BY <1>16 DEF AddDevice
<1>17. CASE EndSession
  BY <1>17 DEF EndSession
<1>18. CASE DiscardSession
  BY <1>18 DEF DiscardSession
<1>19. CASE Restart
  BY <1>19 DEF Restart
<1>20. CASE UNCHANGED vars
  BY <1>20 DEF vars
<1> QED
  BY <1>1, <1>2, <1>3, <1>4, <1>5, <1>6, <1>7, <1>8, <1>9, <1>10, <1>11, <1>12, <1>13,
     <1>14, <1>15, <1>16, <1>17, <1>18, <1>19, <1>20 DEF Next, WorkerStep

\* The wait that begins is the one after the last.
LEMMA BackoffStep ==
    ASSUME TypeOK, LastOfFailures, Next, state' = "backoff", state # "backoff"
    PROVE  backoff' = Least(IF lastWait = 0 THEN InitialBackoff ELSE 2 * lastWait, MaxBackoff)
<1> USE WorkerAssumption
<1>1. Leave
  BY DEF Next, WorkerStep, Connect, Authenticate, WakeUp, Seed, SeedSeq, Read, LoseLink,
         Reseed, Check, Record, Discover, Respawn, LinkDrops, StartSession, AddDevice,
         EndSession, DiscardSession, Restart, NewWorker, Connecting, Transition,
         EnterPolling, Fails, machine, sessions, cycle, tables
<1>2. task = "running" /\ ~Overflows /\ backoff' = Capped(Failures)
  BY <1>1 DEF Leave, BackOff, EnterBackoff
<1>3. CASE failures = 0
  <2>1. lastWait = 0 /\ Failures = 1
    BY <1>2, <1>3 DEF LastOfFailures, Failures
  <2> QED BY <1>2, <2>1, WaitsDouble
<1>4. CASE failures # 0
  <2>1. lastWait = Capped(failures) /\ Failures = failures + 1
    BY <1>2, <1>4 DEF LastOfFailures, Failures, TypeOK
  <2>2. failures \in 1..MaxDoublings
    BY <1>2, <1>4, <2>1 DEF Overflows, TypeOK
  <2>3. Capped(failures) # 0 /\ Capped(failures + 1) = Least(2 * Capped(failures), MaxBackoff)
    BY <2>2, WaitsDouble
  <2> QED BY <1>2, <2>1, <2>3
<1> QED BY <1>3, <1>4

-----------------------------------------------------------------------------
(* The theorems.                                                           *)

\* The invariant holds of every behaviour, for any number of sessions,
\* cycles and restarts, and any table of waits.
THEOREM Invariance == Spec => []IInv
<1>1. Init => IInv
  BY InvInit
<1>2. IInv /\ [Next]_vars => IInv'
  BY Inductive
<1> QED BY <1>1, <1>2, PTL DEF Spec

\* TypeOK: the state of a worker has its types; a wait is one of the waits
\* below the overflow.
THEOREM TypeInvariant == Spec => []TypeOK
<1>1. IInv => TypeOK
  BY DEF IInv
<1> QED BY <1>1, Invariance, PTL

\* NothingStaleIsShown: while the worker waits or is dead, its entry shows
\* neither a connection nor a reading.
THEOREM NothingStale == Spec => []NothingStaleIsShown
<1>1. IInv => NothingStaleIsShown
  BY DEF IInv
<1> QED BY <1>1, Invariance, PTL

\* ProbesAreKept: the number of a cycle that is recorded is not one of those
\* with temperatures, so that INSERT OR IGNORE never drops any.
THEOREM ProbesKept == Spec => ProbesAreKept
<1> DEFINE Kept == \A s \in Session :
                      pc = "record" /\ pc' = "read" /\ probes /\ s = held =>
                          seq + 1 \notin probeRows[s]
<1>1. IInv => Kept
  <2> SUFFICES ASSUME IInv, NEW s \in Session, pc = "record", s = held
               PROVE  seq + 1 \notin probeRows[s]
    OBVIOUS
  <2>1. s = prev /\ prev # NoSession /\ seq \in Nat
    BY DEF IInv, TypeOK, SessionInHand, Session, NoSession
  <2>2. \A i \in probeRows[s] : i <= seq
    BY <2>1 DEF IInv, NumbersUsed
  <2>3. ~ (seq + 1 <= seq)
    BY <2>1
  <2> QED BY <2>2, <2>3
<1>2. IInv /\ [Next]_vars => [Kept]_vars
  BY <1>1
<1> QED BY <1>2, Invariance, PTL DEF Spec, ProbesAreKept

\* BackoffDoubles: between two successes each wait is twice the one before,
\* up to the cap, whatever the first wait, the cap and the number of
\* doublings a float has room for.
THEOREM WaitsAreDoubled == Spec => BackoffDoubles
<1>1. Init => LastOfFailures
  BY DEF Init, LastOfFailures
<1>2. TypeOK /\ LastOfFailures /\ [Next]_vars => LastOfFailures'
  BY LastOfFailuresStep
<1>3. TypeOK /\ LastOfFailures /\ [Next]_vars =>
         [state' = "backoff" /\ state # "backoff" =>
             backoff' = Least(IF lastWait = 0 THEN InitialBackoff ELSE 2 * lastWait, MaxBackoff)]_vars
  BY BackoffStep
<1> QED BY <1>1, <1>2, <1>3, TypeInvariant, PTL DEF Spec, BackoffDoubles

\* The worker dies of nothing but the overflow: after MaxDoublings + 1
\* connections in a row that failed before polling, another one fails.
DiesOfOverflowOnly ==
    [][task = "running" /\ task' = "done" =>
          failures = MaxDoublings + 1 /\ ~hadSuccess]_vars

THEOREM OnlyOverflowKills == Spec => DiesOfOverflowOnly
<1>1. ASSUME IInv, Next, task = "running", task' = "done"
      PROVE  failures = MaxDoublings + 1 /\ ~hadSuccess
  <2>1. Leave /\ Overflows
    BY <1>1 DEF Next, WorkerStep, Connect, Authenticate, Leave, BackOff, WakeUp, Seed, SeedSeq,
                Read, LoseLink, Reseed, Check, Record, Discover, Respawn, LinkDrops,
                StartSession, AddDevice, EndSession, DiscardSession, Restart, NewWorker
  <2>2. failures \in Nat /\ failures <= MaxDoublings + 1 /\ hadSuccess \in BOOLEAN
    BY <1>1 DEF IInv, TypeOK, AliveBelowOverflow
  <2>3. (IF hadSuccess THEN 1 ELSE failures + 1) - 1 > MaxDoublings
    BY <2>1 DEF Overflows, Failures
  <2> QED BY <2>2, <2>3, WorkerAssumption
<1>2. IInv /\ [Next]_vars =>
          [task = "running" /\ task' = "done" =>
              failures = MaxDoublings + 1 /\ ~hadSuccess]_vars
  BY <1>1
<1> QED BY <1>2, Invariance, PTL DEF Spec, DiesOfOverflowOnly

-----------------------------------------------------------------------------
(* Sessions.                                                               *)

\* The active session has been issued and not discarded, and so has every
\* session the worker has in hand, unless it was discarded since.
SessionsIssued ==
    /\ current # NoSession => current \in (1..issued) \ discarded
    /\ discarded \subseteq 1..issued
    /\ prev # NoSession => prev \in 1..issued
    /\ held # NoSession => held \in 1..issued

\* Of a session that was discarded, or has not started, nothing is recorded.
NoOrphans ==
    \A s \in Session : s \in discarded \/ s > issued =>
        member[s] = "none" /\ probeRows[s] = {} /\ deviceRows[s] = {}

\* The steps of the worker, and those of its manager, as to sessions: the
\* session in hand is one it had or the active one, and rows are added to a
\* session in hand that was not discarded.
LEMMA WorkerSessions ==
    ASSUME TypeOK, SessionInHand, WorkerStep \/ Discover \/ Respawn \/ LinkDrops
    PROVE  /\ UNCHANGED <<current, issued, discarded>>
           /\ prev' \in {prev, held, current, NoSession} /\ held' \in {held, current, NoSession}
           /\ \A s \in Session :
                 /\ member[s] = "none" => member'[s] = "none"
                 /\ \/ probeRows'[s] = probeRows[s] /\ deviceRows'[s] = deviceRows[s]
                    \/ s = held /\ s # NoSession /\ s \notin discarded
<1> USE DEF TypeOK, machine, cycle, sessions, tables
<1>1. CASE Connect
  BY <1>1 DEF Connect, Fails
<1>2. CASE Authenticate
  BY <1>2 DEF Authenticate, Fails
<1>3. CASE Leave
  BY <1>3 DEF Leave, MarkLeft
<1>4. CASE WakeUp
  BY <1>4 DEF WakeUp
<1>5. CASE Seed
  BY <1>5 DEF Seed
<1>6. CASE SeedSeq
  BY <1>6 DEF SeedSeq
<1>7. ASSUME NEW read \in BOOLEAN, Read(read)
      PROVE  /\ UNCHANGED <<current, issued, discarded, member, probeRows, deviceRows>>
             /\ prev' \in {prev, current} /\ held' = current
  BY <1>7 DEF Read
<1>8. CASE LoseLink
  BY <1>8 DEF LoseLink, Forget
<1>9. CASE Reseed
  BY <1>9 DEF Reseed
<1>10. CASE Check
  BY <1>10 DEF Check
<1>11. CASE Record
  <2>1. held \in Session /\ held # NoSession
    BY <1>11, WorkerAssumption DEF Record, SessionInHand, Session, NoSession
  <2>2. CASE held \in discarded
    BY <1>11, <2>2 DEF Record, Forget
  <2>3. CASE held \notin discarded
    <3>1. /\ UNCHANGED <<current, issued, discarded, member, prev, held>>
          /\ \/ probeRows' = probeRows
             \/ \E m : probeRows' = [probeRows EXCEPT ![held] = m]
          /\ \E m : deviceRows' = [deviceRows EXCEPT ![held] = m]
      BY <1>11, <2>3 DEF Record
    <3> QED BY <2>1, <2>3, <3>1
  <2> QED BY <2>2, <2>3
<1>12. CASE Discover \/ Respawn
  BY <1>12 DEF Discover, Respawn, NewWorker
<1>13. CASE LinkDrops
  BY <1>13 DEF LinkDrops
<1> QED
  BY <1>1, <1>2, <1>3, <1>4, <1>5, <1>6, <1>7, <1>8, <1>9, <1>10, <1>11, <1>12, <1>13
  DEF WorkerStep

\* A session ends, is discarded or starts under the worker's hands.
LEMMA SessionsStep ==
    TypeOK /\ SessionInHand /\ SessionsIssued /\ NoOrphans /\ [Next]_vars
        => SessionsIssued' /\ NoOrphans'
<1> SUFFICES ASSUME TypeOK, SessionInHand, SessionsIssued, NoOrphans, [Next]_vars
             PROVE  SessionsIssued' /\ NoOrphans'
  OBVIOUS
<1>0. /\ current \in Session \cup {NoSession} /\ issued \in Nat
      /\ member \in [Session -> {"none", "in", "left"}]
      /\ probeRows \in [Session -> SUBSET Cycle] /\ deviceRows \in [Session -> SUBSET Cycle]
  BY DEF TypeOK
<1> USE WorkerAssumption DEF SessionsIssued, NoOrphans
<1>1. CASE WorkerStep \/ Discover \/ Respawn \/ LinkDrops
  <2>1. SessionsIssued'
    BY <1>1, WorkerSessions
  <2>2. \A s \in Session : s = held /\ s # NoSession => ~ (s > issued)
    BY <1>0 DEF Session, NoSession
  <2>3. NoOrphans'
    BY <1>1, <2>2, WorkerSessions
  <2> QED BY <2>1, <2>3
<1>2. ASSUME NEW m \in {"none", "in"}, StartSession(m) PROVE SessionsIssued' /\ NoOrphans'
  <2>1. /\ issued' = issued + 1 /\ current' = issued + 1 /\ issued < MaxSession
        /\ UNCHANGED <<prev, held, discarded, probeRows, deviceRows>>
        /\ member' = [member EXCEPT ![issued + 1] = m]
    BY <1>2 DEF StartSession, cycle
  <2>2. SessionsIssued'
    BY <1>0, <2>1 DEF Session, NoSession
  <2>3. NoOrphans'
    BY <1>0, <2>1 DEF Session
  <2> QED BY <2>2, <2>3
<1>3. CASE AddDevice
  <2>1. /\ UNCHANGED <<current, issued, prev, held, discarded, probeRows, deviceRows>>
        /\ member' = [member EXCEPT ![current] = "in"] /\ current # NoSession
    BY <1>3 DEF AddDevice, cycle
  <2> QED BY <1>0, <2>1
<1>4. CASE EndSession
  BY <1>0, <1>4 DEF EndSession, cycle, tables
<1>5. CASE DiscardSession
  <2>1. /\ UNCHANGED <<issued, prev, held>> /\ current # NoSession /\ current' = NoSession
        /\ discarded' = discarded \cup {current}
        /\ member' = [member EXCEPT ![current] = "none"]
        /\ probeRows' = [probeRows EXCEPT ![current] = {}]
        /\ deviceRows' = [deviceRows EXCEPT ![current] = {}]
    BY <1>5 DEF DiscardSession, cycle
  <2> QED BY <1>0, <2>1
<1>6. CASE Restart
  <2>1. /\ UNCHANGED <<current, issued, discarded, probeRows, deviceRows>>
        /\ prev' = NoSession /\ held' = NoSession
        /\ member' = [s \in Session |-> IF s = current /\ member[s] = "left" THEN "in" ELSE member[s]]
    BY <1>6 DEF Restart
  <2> QED BY <1>0, <2>1
<1>7. CASE UNCHANGED vars
  BY <1>7 DEF vars, cycle, sessions, tables
<1> QED BY <1>1, <1>2, <1>3, <1>4, <1>5, <1>6, <1>7 DEF Next

LEMMA SessionsInit == Init => SessionsIssued /\ NoOrphans
BY DEF Init, SessionsIssued, NoOrphans

LEMMA SessionsInvariance == Spec => [](SessionsIssued /\ NoOrphans)
<1>1. IInv /\ SessionsIssued /\ NoOrphans /\ [Next]_vars => SessionsIssued' /\ NoOrphans'
  BY SessionsStep DEF IInv
<1> QED BY <1>1, SessionsInit, Invariance, PTL DEF Spec

\* A worker that still has a session in hand when it is discarded leaves no
\* row, nor a membership, of it behind.
THEOREM NothingIsLeft == Spec => []NoOrphans
BY SessionsInvariance, PTL

Promise == INSTANCE SessionPromise
    WITH active <- current, closed <- (1..issued) \ {current}

\* Only the requests of clients start and close sessions.
LEMMA PromiseStep ==
    ASSUME TypeOK, SessionInHand, SessionsIssued, [Next]_vars
    PROVE  [Promise!Next \/ Promise!Replace]_<<current, (1..issued) \ {current}>>
<1>0. issued \in Nat /\ current \in Session \cup {NoSession}
  BY DEF TypeOK
<1>1. CASE UNCHANGED <<current, issued>>
  BY <1>1
<1>2. ASSUME NEW m \in {"none", "in"}, StartSession(m)
      PROVE  Promise!Next \/ Promise!Replace
  <2>1. issued < MaxSession /\ issued' = issued + 1 /\ current' = issued + 1
    BY <1>2 DEF StartSession
  <2>2. current' \in Session \ ((1..issued) \cup {current})
    BY <1>0, <2>1, WorkerAssumption DEF SessionsIssued, Session, NoSession
  <2>3. (1..issued') \ {current'} = 1..issued
    BY <1>0, <2>1
  <2>4. CASE current = NoSession
    BY <1>0, <2>2, <2>3, <2>4
    DEF Promise!Next, Promise!Start, Promise!NoSession, Promise!Session, NoSession, Session
  <2>5. CASE current # NoSession
    <3>1. 1..issued = ((1..issued) \ {current}) \cup {current}
      BY <2>5 DEF SessionsIssued
    <3> QED BY <2>2, <2>3, <2>5, <3>1
            DEF Promise!Replace, Promise!NoSession, Promise!Session, NoSession, Session
  <2> QED BY <2>4, <2>5
<1>3. CASE EndSession \/ DiscardSession
  <2>1. current # NoSession /\ current' = NoSession /\ issued' = issued
    BY <1>3 DEF EndSession, DiscardSession
  <2>2. Promise!Close
    BY <1>0, <2>1 DEF SessionsIssued, Promise!Close, Promise!NoSession, NoSession
  <2> QED BY <2>2 DEF Promise!Next
<1>4. CASE WorkerStep \/ Discover \/ Respawn \/ LinkDrops
  BY <1>1, <1>4, WorkerSessions
<1>5. CASE AddDevice \/ Restart \/ UNCHANGED vars
  BY <1>1, <1>5 DEF AddDevice, Restart, vars, sessions
<1> QED BY <1>2, <1>3, <1>4, <1>5 DEF Next

\* The worker's sessions implement SessionPromise, with start_session in one
\* step, and nothing the worker does starts or closes one.
THEOREM ImplementsPromise == Spec => Promise!CallSpec
<1>1. Init => Promise!Init
  BY WorkerAssumption DEF Init, Promise!Init, Promise!Session, Promise!NoSession, NoSession
<1>2. IInv /\ SessionsIssued /\ [Next]_vars
          => [Promise!Next \/ Promise!Replace]_<<current, (1..issued) \ {current}>>
  BY PromiseStep DEF IInv
<1> QED BY <1>1, <1>2, Invariance, SessionsInvariance, PTL DEF Spec, Promise!CallSpec

===============================================================================
