-------------------------- MODULE SessionServerProofs --------------------------
(***************************************************************************)
(* Proofs about SessionServer, for any number of clients, devices, target  *)
(* lists, sessions and crashes: that a session is announced to be over at  *)
(* most once, and is unless a handler failed, that the evaluator ends up   *)
(* watching for what the database has, that the alarms of a session that   *)
(* goes on stay armed, that nothing is left of a discarded session, and    *)
(* that the sessions are those the store promises.                         *)
(***************************************************************************)
EXTENDS SessionServer, TLAPS

RequestSet ==
    [at : Stage, session : Session \cup {NoSession}, prior : Session \cup {NoSession},
     setting : Setting \cup {NoSetting}, todo : SUBSET Device]
WorkSet == [at : Between, session : {NoSession}] \cup [at : WorkStage, session : Session]

\* The session that is current is the one that is open, and nothing is known
\* of a session before it starts.
Ledger ==
    /\ current # NoSession => row[current] = "open"
    /\ \A s \in Session : row[s] = "open" => s = current
    /\ \A s \in Session : s > issued =>
          /\ row[s] = "absent" /\ over[s] = 0 /\ armed[s] = NoTargets
          /\ targets[s] = NoTargets /\ durable[s] = NoTargets

\* An end is owed by one handler, for a session that is not open and whose
\* end was not announced.
Debts ==
    /\ \A c \in Client : req[c].session <= issued /\ req[c].prior <= issued
    /\ \A c \in Client : Owed(c) # NoSession => row[Owed(c)] # "open" /\ over[Owed(c)] = 0
    /\ \A c, e \in Client : c # e /\ Owed(c) = Owed(e) => Owed(c) = NoSession

\* The invariant that the arguments below share.  Each adds its own.
IInv == TypeOK /\ Ledger /\ Debts /\ OverOnce

-----------------------------------------------------------------------------
(* Records and types.                                                      *)

LEMMA RequestFields ==
    ASSUME NEW at, NEW s, NEW p, NEW x, NEW todo
    PROVE  /\ Request(at, s, p, x, todo).at = at
           /\ Request(at, s, p, x, todo).session = s
           /\ Request(at, s, p, x, todo).prior = p
           /\ Request(at, s, p, x, todo).setting = x
           /\ Request(at, s, p, x, todo).todo = todo
BY DEF Request

LEMMA RequestType ==
    ASSUME NEW at \in Stage, NEW s \in Session \cup {NoSession}, NEW p \in Session \cup {NoSession},
           NEW x \in Setting \cup {NoSetting}, NEW todo \in SUBSET Device
    PROVE  Request(at, s, p, x, todo) \in RequestSet
BY DEF Request, RequestSet

\* The idle handler
LEMMA IdleFields ==
    /\ Idle \in RequestSet
    /\ Idle.at = "idle" /\ Idle.session = NoSession /\ Idle.prior = NoSession
BY DEF Idle, Request, RequestSet, Stage

\* The fields of the handlers in progress
LEMMA InProgress ==
    ASSUME TypeOK, NEW c \in Client
    PROVE  /\ req[c] \in RequestSet
           /\ req[c].at \in Stage
           /\ req[c].session \in Session \cup {NoSession}
           /\ req[c].prior \in Session \cup {NoSession}
           /\ req[c].setting \in Setting \cup {NoSetting}
           /\ req[c].todo \in SUBSET Device
           /\ Owed(c) \in Session \cup {NoSession}
<1>1. req[c] \in RequestSet
  BY DEF TypeOK, RequestSet
<1> QED BY <1>1 DEF RequestSet, Owed

\* Sessions are numbers.
LEMMA SessionNumbers == \A z \in Session \cup {NoSession} : z \in Nat
BY ServerAssumption DEF Session, NoSession

\* A handler's next stage, and the others' as they were
LEMMA BecomesOthers ==
    ASSUME TypeOK, NEW c \in Client, NEW r, Becomes(c, r)
    PROVE  /\ req'[c] = r
           /\ \A e \in Client : e # c => req'[e] = req[e] /\ Owed(e)' = Owed(e)
           /\ r \in RequestSet => req' \in [Client -> RequestSet]
BY DEF TypeOK, RequestSet, Becomes, Owed

LEMMA WorkType ==
    /\ \A at \in Between : Work(at, NoSession) \in WorkSet
    /\ \A at \in WorkStage, s \in Session : Work(at, s) \in WorkSet
BY DEF Work, WorkSet

\* A worker at work has a session.
LEMMA AtWork ==
    ASSUME TypeOK, NEW d \in Device, worker[d].at \in WorkStage
    PROVE  worker[d].session \in Session
<1>1. worker[d] \in WorkSet
  BY DEF TypeOK, WorkSet
<1> QED BY <1>1 DEF WorkSet, WorkStage, Between

LEMMA WorksType ==
    ASSUME TypeOK, NEW d \in Device, NEW at, NEW s, Works(d, at, s), Work(at, s) \in WorkSet
    PROVE  worker' \in [Device -> WorkSet]
BY DEF TypeOK, Works, WorkSet

\* The parts of the state
StoreTypes ==
    /\ row \in [Session -> {"absent", "open", "ended"}]
    /\ member \in [Session -> [Device -> {"none", "in", "left"}]]
    /\ readings \in [Session -> SUBSET Device]
ListTypes ==
    /\ targets \in [Session -> TargetMap]
    /\ durable \in [Session -> TargetMap]
    /\ failedTxn \in BOOLEAN
Numbers == current \in Session \cup {NoSession} /\ issued \in 0..MaxSession
Watched ==
    /\ armed \in [Session -> TargetMap]
    /\ shown \in Session \cup {NoSession}
    /\ over \in [Session -> Nat]
Histories == lost \in SUBSET Session /\ garbled \in BOOLEAN /\ halfDone \in SUBSET Device
Parts == StoreTypes /\ ListTypes /\ Numbers /\ Watched /\ Histories

LEMMA TypeParts == TypeOK => Parts /\ req \in [Client -> RequestSet]
BY DEF TypeOK, Parts, StoreTypes, ListTypes, Numbers, Watched, Histories, RequestSet

LEMMA TypeWhole ==
    ASSUME TypeOK, Parts', req' \in [Client -> RequestSet], UNCHANGED <<worker, crashes>>
    PROVE  TypeOK'
BY DEF TypeOK, Parts, StoreTypes, ListTypes, Numbers, Watched, Histories, RequestSet

LEMMA NoTargetsType == NoTargets \in TargetMap
BY DEF NoTargets, TargetMap, NoSetting

-----------------------------------------------------------------------------
(* The connection and its target lists.                                    *)

\* A call that leaves the target lists as they are
Still == Commit(targets) \/ Abandon(targets) \/ UNCHANGED <<targets, durable, failedTxn>>

LEMMA StillLists ==
    ASSUME ListTypes, Still
    PROVE  targets' = targets /\ durable' \in {durable, targets} /\ ListTypes'
BY DEF ListTypes, Still, Commit, Abandon

LEMMA RollbackLists ==
    ASSUME ListTypes, Rollback
    PROVE  targets' = durable /\ durable' = durable /\ ListTypes'
BY DEF ListTypes, Rollback

\* A call that changes the lists of session s alone, to f
LEMMA ChangedLists ==
    ASSUME ListTypes, NEW s, NEW f, s \in Session => f \in TargetMap,
           \/ Commit([targets EXCEPT ![s] = f])
           \/ Abandon([targets EXCEPT ![s] = f])
    PROVE  /\ ListTypes'
           /\ s \in Session => targets'[s] = f
           /\ \A z \in Session : z # s => targets'[z] = targets[z]
           /\ \A z \in Session : durable'[z] \in {durable[z], targets'[z]}
<1>1. /\ targets' = [targets EXCEPT ![s] = f]
      /\ durable' \in {durable, targets'} /\ failedTxn' \in BOOLEAN
  BY DEF Commit, Abandon
<1>2. targets' \in [Session -> TargetMap]
  BY <1>1 DEF ListTypes
<1> QED BY <1>1, <1>2 DEF ListTypes

\* The lists of session s with x for the devices of D
LEMMA WithListType ==
    ASSUME ListTypes, NEW s \in Session, NEW D, NEW x \in Setting \cup {NoSetting}
    PROVE  [d \in Device |-> IF d \in D THEN x ELSE targets[s][d]] \in TargetMap
<1>1. targets[s] \in [Device -> Setting \cup {NoSetting}]
  BY DEF ListTypes, TargetMap
<1> QED BY <1>1 DEF TargetMap

\* The histories keep their types.
LEMMA HistoryTypes ==
    ASSUME Histories
    PROVE  /\ \A c \in Client : ChangesSession(c) => garbled' \in BOOLEAN /\ halfDone' \in SUBSET Device
           /\ \A s : Loads(s) => halfDone' \in SUBSET Device
           /\ \A s, D : D \in SUBSET Device /\ Strands(s, D) => halfDone' \in SUBSET Device
BY DEF Histories, ChangesSession, Loads, Strands

-----------------------------------------------------------------------------
(* Steps that leave the books alone. *)

\* If no row and no announcement changes and no handler owes anything new,
\* the debts stand.
LEMMA DebtsStand ==
    ASSUME TypeOK, Debts, row' = row, over' = over, issued' = issued,
           \A c \in Client : /\ Owed(c)' \in {Owed(c), NoSession}
                             /\ req'[c].session <= issued /\ req'[c].prior <= issued
    PROVE  Debts'
BY DEF Debts

\* A handler that goes on without owing anything new
LEMMA DebtsGoOn ==
    ASSUME TypeOK, Debts, NEW c \in Client, NEW r, Becomes(c, r),
           row' = row, over' = over, issued' = issued,
           req[c].at # "ending", r.at # "ending", r.prior \in {req[c].prior, NoSession},
           r.session <= issued
    PROVE  Debts'
<1>1. Owed(c)' \in {Owed(c), NoSession}
  BY BecomesOthers DEF Owed
<1>2. issued \in Nat /\ req[c].prior <= issued
  BY DEF TypeOK, Debts
<1>3. r.prior <= issued
  BY <1>2 DEF NoSession
<1> QED BY <1>1, <1>3, BecomesOthers, DebtsStand DEF Debts

\* A step of another coroutine
LEMMA FrameKeeps ==
    ASSUME IInv, Still \/ Rollback,
           UNCHANGED <<row, current, issued, armed, req, shown, over, lost, garbled, halfDone, crashes>>,
           member' \in [Session -> [Device -> {"none", "in", "left"}]],
           readings' \in [Session -> SUBSET Device], worker' \in [Device -> WorkSet]
    PROVE  IInv'
<1>0. Parts
  BY TypeParts DEF IInv
<1>1. targets' \in {targets, durable} /\ durable' \in {durable, targets} /\ ListTypes'
  BY <1>0, StillLists, RollbackLists DEF Parts
<1>2. TypeOK'
  BY <1>1 DEF IInv, TypeOK, ListTypes, WorkSet
<1>3. Ledger'
  BY <1>1 DEF IInv, Ledger
<1>4. Debts' /\ OverOnce'
  BY DEF IInv, Debts, Owed, OverOnce
<1> QED BY <1>2, <1>3, <1>4 DEF IInv

-----------------------------------------------------------------------------
(* The steps of the workers, of the other writers, and of a downsampling   *)
(* pass that fails.                                                        *)

Worker(d) == WorkerStep(d) \/ ConnectFails(d) \/ Disconnect(d)

\* They touch neither the sessions nor their targets.
LEMMA WorkerFrame ==
    ASSUME NEW d \in Device, Worker(d)
    PROVE  /\ UNCHANGED <<row, current, issued, armed, req, shown, over, lost, garbled, halfDone, crashes>>
           /\ Still
BY DEF Worker, WorkerStep, Connect, RejoinCheck, Rejoin, Poll, Check, Record, Leave,
       ConnectFails, Disconnect, store, told, Still

LEMMA WorkerTypes ==
    ASSUME TypeOK, NEW d \in Device, Worker(d)
    PROVE  /\ member' \in [Session -> [Device -> {"none", "in", "left"}]]
           /\ readings' \in [Session -> SUBSET Device]
           /\ worker' \in [Device -> WorkSet]
<1>0. /\ member \in [Session -> [Device -> {"none", "in", "left"}]]
      /\ readings \in [Session -> SUBSET Device]
      /\ current \in Session \cup {NoSession}
  BY DEF TypeOK
<1>1. CASE Connect(d)
  <2>1. Work("polling", NoSession) \in WorkSet
        /\ (current # NoSession => Work("rejoining", current) \in WorkSet)
    BY <1>0, WorkType DEF Between, WorkStage
  <2>2. worker' \in [Device -> WorkSet]
    BY <1>1, <2>1, WorksType DEF Connect
  <2> QED BY <1>0, <1>1, <2>2 DEF Connect, store
<1>2. CASE RejoinCheck(d)
  <2>1. Work("polling", NoSession) \in WorkSet /\ Work("rejoin", worker[d].session) \in WorkSet
    BY <1>2, AtWork, WorkType DEF RejoinCheck, Between, WorkStage
  <2>2. worker' \in [Device -> WorkSet]
    BY <1>2, <2>1, WorksType DEF RejoinCheck
  <2> QED BY <1>0, <1>2, <2>2 DEF RejoinCheck, store
<1>3. CASE Rejoin(d)
  <2>1. Work("polling", NoSession) \in WorkSet
    BY WorkType DEF Between
  <2>2. worker' \in [Device -> WorkSet]
    BY <1>3, <2>1, WorksType DEF Rejoin
  <2> QED BY <1>0, <1>3, <2>2 DEF Rejoin
<1>4. CASE Poll(d)
  <2>1. Work("checking", current) \in WorkSet
    BY <1>0, <1>4, WorkType DEF Poll, WorkStage
  <2>2. worker' \in [Device -> WorkSet]
    BY <1>4, <2>1, WorksType DEF Poll
  <2> QED BY <1>0, <1>4, <2>2 DEF Poll, store
<1>5. CASE Check(d)
  <2>1. Work("polling", NoSession) \in WorkSet /\ Work("recording", worker[d].session) \in WorkSet
    BY <1>5, AtWork, WorkType DEF Check, Between, WorkStage
  <2>2. worker' \in [Device -> WorkSet]
    BY <1>5, <2>1, WorksType DEF Check
  <2> QED BY <1>0, <1>5, <2>2 DEF Check, store
<1>6. CASE Record(d)
  <2>1. Work("polling", NoSession) \in WorkSet /\ Work("leaving", NoSession) \in WorkSet
    BY WorkType DEF Between
  <2>2. worker' \in [Device -> WorkSet]
    BY <1>6, <2>1, WorksType DEF Record
  <2>3. readings' \in [Session -> SUBSET Device]
    BY <1>0, <1>6 DEF Record
  <2>4. member' = member
    BY <1>6 DEF Record
  <2> QED BY <1>0, <2>2, <2>3, <2>4
<1>7. CASE Leave(d)
  <2>1. /\ Work("down", NoSession) \in WorkSet
        /\ current # NoSession => Work("leave check", current) \in WorkSet
        /\ worker[d].at = "leave check" => Work("leave", worker[d].session) \in WorkSet
    BY <1>0, AtWork, WorkType DEF Between, WorkStage
  <2>2. worker' \in [Device -> WorkSet]
    BY <1>7, <2>1, WorksType DEF Leave
  <2>3. CASE worker[d].at = "leave"
    <3>1. worker[d].session \in Session
      BY <2>3, AtWork DEF WorkStage
    <3>2. member' = [member EXCEPT ![worker[d].session][d] = IF @ = "none" THEN @ ELSE "left"]
      BY <1>7, <2>3 DEF Leave
    <3>3. member' \in [Session -> [Device -> {"none", "in", "left"}]]
      BY <1>0, <3>1, <3>2
    <3> QED BY <1>0, <1>7, <2>2, <2>3, <3>3 DEF Leave
  <2>4. CASE worker[d].at # "leave"
    BY <1>0, <1>7, <2>2, <2>4 DEF Leave
  <2> QED BY <2>3, <2>4
<1>8. CASE ConnectFails(d) \/ Disconnect(d)
  <2>1. Work("leaving", NoSession) \in WorkSet
    BY WorkType DEF Between
  <2>2. worker' \in [Device -> WorkSet]
    BY <1>8, <2>1, WorksType DEF ConnectFails, Disconnect
  <2> QED BY <1>0, <1>8, <2>2 DEF ConnectFails, Disconnect, store
<1> QED BY <1>1, <1>2, <1>3, <1>4, <1>5, <1>6, <1>7, <1>8 DEF Worker, WorkerStep

\* So they keep the invariant.
LEMMA WorkerKeeps ==
    ASSUME IInv, NEW d \in Device, Worker(d)
    PROVE  IInv'
BY WorkerFrame, WorkerTypes, FrameKeeps DEF IInv

\* A step that belongs to no handler or worker in the model: another write of
\* the store, or a rolled-back pass.
Aside == (\E s \in 1..issued : WriteElsewhere(s)) \/ (\E c \in Client : DownsampleFails(c))

LEMMA AsideFrame ==
    ASSUME Aside
    PROVE  /\ UNCHANGED <<row, member, readings, current, issued, armed, req, worker, shown, over,
                          lost, garbled, halfDone, crashes>>
           /\ Still \/ Rollback
BY DEF Aside, WriteElsewhere, DownsampleFails, told, Still

LEMMA AsideKeeps ==
    ASSUME IInv, Aside
    PROVE  IInv'
<1>1. /\ member \in [Session -> [Device -> {"none", "in", "left"}]]
      /\ readings \in [Session -> SUBSET Device] /\ worker \in [Device -> WorkSet]
  BY DEF IInv, TypeOK, WorkSet
<1> QED BY <1>1, AsideFrame, FrameKeeps

-----------------------------------------------------------------------------
(* The steps of the handlers that read and write targets: nothing is owed  *)
(* and no session changes.                                                 *)

\* What a handler does between two calls of the store
LEMMA GoOnKeeps ==
    ASSUME IInv, NEW c \in Client, NEW r \in RequestSet, Becomes(c, r),
           UNCHANGED <<row, current, issued, over, worker, crashes>>,
           StoreTypes', ListTypes', Watched', Histories',
           req[c].at # "ending", r.at # "ending", r.prior \in {req[c].prior, NoSession},
           r.session <= issued,
           \A z \in Session : z > issued => /\ targets'[z] = NoTargets /\ durable'[z] = NoTargets
                                            /\ armed'[z] = NoTargets
    PROVE  IInv'
<1>0. TypeOK /\ Parts /\ Ledger /\ Debts /\ OverOnce
  BY TypeParts DEF IInv
<1>1. req' \in [Client -> RequestSet]
  BY <1>0, BecomesOthers
<1>2. Numbers'
  BY <1>0 DEF Parts, Numbers
<1>3. TypeOK'
  BY <1>0, <1>1, <1>2, TypeWhole DEF Parts
<1>4. Ledger' /\ OverOnce'
  BY <1>0 DEF Ledger, OverOnce
<1>5. Debts'
  BY <1>0, DebtsGoOn
<1> QED BY <1>3, <1>4, <1>5 DEF IInv

\* The facts of a handler in progress that its steps need
LEMMA HandlerFacts ==
    ASSUME IInv, NEW c \in Client
    PROVE  /\ Parts
           /\ req[c].session \in Session \cup {NoSession}
           /\ req[c].prior \in Session \cup {NoSession}
           /\ req[c].setting \in Setting \cup {NoSetting}
           /\ req[c].todo \in SUBSET Device
           /\ req[c].session <= issued /\ NoSession <= issued
           /\ current # NoSession => /\ current \in Session /\ row[current] = "open"
                                    /\ current <= issued
           /\ \A z \in Session : z > issued => /\ targets[z] = NoTargets /\ durable[z] = NoTargets
                                               /\ armed[z] = NoTargets
           /\ \A z \in Session : z > issued => z # req[c].session
<1>0. TypeOK /\ Parts /\ Ledger /\ Debts
  BY TypeParts DEF IInv
<1>1. /\ req[c].session \in Session \cup {NoSession}
      /\ req[c].prior \in Session \cup {NoSession}
      /\ req[c].setting \in Setting \cup {NoSetting}
      /\ req[c].todo \in SUBSET Device
  BY <1>0, InProgress
<1>2. req[c].session <= issued /\ issued \in Nat /\ \A z \in Session \cup {NoSession} : z \in Nat
  BY <1>0, SessionNumbers DEF Debts, Parts, Numbers
<1>3. NoSession <= issued
  BY <1>2 DEF NoSession
<1>4. ASSUME current # NoSession
      PROVE  current \in Session /\ row[current] = "open" /\ current <= issued
  <2>1. current \in Session /\ row[current] = "open" /\ ~ (current > issued)
    BY <1>0, <1>4 DEF Parts, Numbers, Ledger
  <2> QED BY <1>2, <2>1
<1>5. \A z \in Session : z > issued => z # req[c].session
  BY <1>1, <1>2
<1>6. \A z \in Session : z > issued => /\ targets[z] = NoTargets /\ durable[z] = NoTargets
                                       /\ armed[z] = NoTargets
  BY <1>0 DEF Ledger
<1> QED BY <1>0, <1>1, <1>2, <1>3, <1>4, <1>5, <1>6

\* The announcements are left alone.
LEMMA ToldTypes ==
    ASSUME Parts, UNCHANGED <<armed, told>>, halfDone' \in SUBSET Device
    PROVE  Watched' /\ Histories'
BY DEF Parts, Watched, Histories, told

LEMMA AnnounceStartKeeps ==
    ASSUME IInv, NEW c \in Client, AnnounceStart(c)
    PROVE  IInv'
<1>1. /\ req[c].at = "announcing" /\ Becomes(c, Idle) /\ shown' = req[c].session
      /\ UNCHANGED <<store, armed, worker, over, lost, garbled, halfDone, crashes>>
  BY DEF AnnounceStart
<1>2. StoreTypes' /\ ListTypes' /\ Watched' /\ Histories'
  BY <1>1, HandlerFacts DEF Parts, StoreTypes, ListTypes, Watched, Histories, store
<1> QED BY <1>1, <1>2, IdleFields, HandlerFacts, GoOnKeeps DEF store

\* A request that only reads the active session
LEMMA ReadsKeeps ==
    ASSUME IInv, NEW c \in Client, NEW at \in {"writing", "adding"},
           NEW x \in Setting \cup {NoSetting}, NEW todo \in SUBSET Device,
           req[c].at = "idle", current # NoSession,
           Becomes(c, Request(at, current, NoSession, x, todo)),
           UNCHANGED <<store, armed, worker, told, halfDone, crashes>>
    PROVE  IInv'
<1> DEFINE r == Request(at, current, NoSession, x, todo)
<1>1. r \in RequestSet
  BY HandlerFacts, RequestType DEF Stage
<1>2. r.at = at /\ r.session = current /\ r.prior = NoSession
  BY RequestFields
<1>3. Becomes(c, r)
  OBVIOUS
<1> HIDE DEF r
<1>4. StoreTypes' /\ ListTypes' /\ Watched' /\ Histories'
  BY HandlerFacts, ToldTypes DEF Parts, StoreTypes, ListTypes, Histories, store
<1>5. over' = over
  BY DEF told
<1> QED BY <1>1, <1>2, <1>3, <1>4, <1>5, HandlerFacts, GoOnKeeps DEF store

LEMMA TargetUpdateKeeps ==
    ASSUME IInv, NEW c \in Client, NEW d \in Device, NEW x \in Setting \cup {NoSetting},
           RequestTargetUpdate(c, d, x)
    PROVE  IInv'
BY ReadsKeeps DEF RequestTargetUpdate

LEMMA AddDeviceKeeps ==
    ASSUME IInv, NEW c \in Client, NEW d \in Device, RequestAddDevice(c, d)
    PROVE  IInv'
BY ReadsKeeps DEF RequestAddDevice

LEMMA WriteMemberKeeps ==
    ASSUME IInv, NEW c \in Client, WriteMember(c)
    PROVE  IInv'
<1>1. /\ req[c].at = "adding" /\ Becomes(c, Idle) /\ Still
      /\ UNCHANGED <<row, readings, current, issued, armed, worker, told, halfDone, crashes>>
  BY DEF WriteMember, Still
<1>2. member' \in [Session -> [Device -> {"none", "in", "left"}]]
  <2> DEFINE r == req[c]
             f == [d \in Device |-> IF d \in r.todo /\ member[r.session][d] = "none"
                                   THEN "in" ELSE member[r.session][d]]
  <2>1. member' \in {member, [member EXCEPT ![r.session] = f]}
    BY DEF WriteMember
  <2>2. member \in [Session -> [Device -> {"none", "in", "left"}]]
    BY HandlerFacts DEF Parts, StoreTypes
  <2>3. r.session \in Session => f \in [Device -> {"none", "in", "left"}]
    BY <2>2
  <2> HIDE DEF f, r
  <2>4. [member EXCEPT ![r.session] = f] \in [Session -> [Device -> {"none", "in", "left"}]]
    BY <2>2, <2>3
  <2> QED BY <2>1, <2>2, <2>4
<1>3. targets' = targets /\ durable' \in {durable, targets} /\ ListTypes'
  BY <1>1, HandlerFacts, StillLists DEF Parts
<1>4. StoreTypes' /\ Watched' /\ Histories' /\ over' = over
  BY <1>1, <1>2, HandlerFacts, ToldTypes DEF Parts, StoreTypes, Histories, told
<1> QED BY <1>1, <1>3, <1>4, IdleFields, HandlerFacts, GoOnKeeps

\* Nothing but the lists of one session changes.
LEMMA ListsKeep ==
    ASSUME IInv, NEW c \in Client, NEW r \in RequestSet, Becomes(c, r),
           UNCHANGED <<row, member, readings, current, issued, armed, over, shown, worker, crashes>>,
           Histories', ListTypes',
           req[c].at # "ending", r.at # "ending", r.prior \in {req[c].prior, NoSession},
           r.session <= issued,
           \A z \in Session : z # req[c].session => /\ targets'[z] = targets[z]
                                                    /\ durable'[z] \in {durable[z], targets'[z]}
    PROVE  IInv'
<1>1. StoreTypes' /\ Watched'
  BY HandlerFacts DEF Parts, StoreTypes, Watched
<1> QED BY <1>1, HandlerFacts, GoOnKeeps

\* What update_targets does to the lists, failing or not
LEMMA WriteLists ==
    ASSUME IInv, NEW c \in Client, NEW x \in Setting \cup {NoSetting},
           \/ Commit(WithList(req[c].session, req[c].todo, x))
           \/ Abandon(WithList(req[c].session, req[c].todo, x))
    PROVE  /\ ListTypes'
           /\ \A z \in Session : z # req[c].session => targets'[z] = targets[z]
           /\ \A z \in Session : durable'[z] \in {durable[z], targets'[z]}
           /\ req[c].session \in Session => \A d \in Device :
                targets'[req[c].session][d] =
                    IF d \in req[c].todo THEN x ELSE targets[req[c].session][d]
<1> DEFINE s == req[c].session
           f == [d \in Device |-> IF d \in req[c].todo THEN x ELSE targets[s][d]]
<1>1. ListTypes
  BY HandlerFacts DEF Parts
<1>2. s \in Session => f \in TargetMap
  BY <1>1, WithListType
<1>3. WithList(s, req[c].todo, x) = [targets EXCEPT ![s] = f]
  BY DEF WithList
<1>4. s \in Session => \A d \in Device : f[d] = IF d \in req[c].todo THEN x ELSE targets[s][d]
  OBVIOUS
<1>5. \/ Commit([targets EXCEPT ![s] = f])
      \/ Abandon([targets EXCEPT ![s] = f])
  BY <1>3
<1> HIDE DEF f, s
<1>6. /\ ListTypes'
      /\ s \in Session => targets'[s] = f
      /\ \A z \in Session : z # s => targets'[z] = targets[z]
      /\ \A z \in Session : durable'[z] \in {durable[z], targets'[z]}
  BY <1>1, <1>2, <1>5, ChangedLists
<1> QED BY <1>4, <1>6 DEF s

LEMMA WriteKeeps ==
    ASSUME IInv, NEW c \in Client, WriteTargets(c)
    PROVE  IInv'
<1> DEFINE s == req[c].session
           r == Request("reloading", s, NoSession, NoSetting, {})
<1>1. /\ req[c].at = "writing"
      /\ UNCHANGED <<row, member, readings, current, issued, armed, worker, told, halfDone, crashes>>
      /\ \/ Commit(WithList(s, req[c].todo, req[c].setting)) /\ Becomes(c, r)
         \/ Abandon(targets) /\ Becomes(c, Idle)
  BY DEF WriteTargets, Dies
<1>2. /\ r \in RequestSet /\ r.at = "reloading" /\ r.session = s /\ r.prior = NoSession
  <2>1. s \in Session \cup {NoSession}
    BY HandlerFacts
  <2> HIDE DEF s
  <2>2. r \in RequestSet
    BY <2>1, RequestType DEF Stage
  <2> QED BY <2>2, RequestFields
<1>3. Histories' /\ over' = over /\ shown' = shown
  BY <1>1, HandlerFacts, ToldTypes DEF Parts, Histories, told
<1>4. ListTypes' /\ \A z \in Session : z # s => /\ targets'[z] = targets[z]
                                                /\ durable'[z] \in {durable[z], targets'[z]}
  <2>1. CASE Commit(WithList(s, req[c].todo, req[c].setting))
    BY <2>1, HandlerFacts, WriteLists
  <2>2. CASE Abandon(targets)
    BY <2>2, HandlerFacts, StillLists DEF Still, Parts
  <2> QED BY <1>1, <2>1, <2>2
<1>5. s <= issued
  BY HandlerFacts
<1> HIDE DEF r
<1>6. CASE Becomes(c, r)
  BY <1>1, <1>2, <1>3, <1>4, <1>5, <1>6, ListsKeep
<1>7. CASE Becomes(c, Idle)
  BY <1>1, <1>3, <1>4, <1>7, IdleFields, HandlerFacts, ListsKeep
<1> QED BY <1>1, <1>6, <1>7

LEMMA WriteFailsKeeps ==
    ASSUME IInv, NEW c \in Client, NEW half \in Setting \cup {NoSetting}, WriteTargetsFails(c, half)
    PROVE  IInv'
<1>1. /\ req[c].at = "writing" /\ Becomes(c, Idle)
      /\ Abandon(WithList(req[c].session, req[c].todo, half))
      /\ Strands(req[c].session, req[c].todo)
      /\ UNCHANGED <<row, member, readings, current, issued, armed, worker, told, crashes>>
  BY DEF WriteTargetsFails, Dies
<1>2. Histories' /\ over' = over /\ shown' = shown
  BY <1>1, HandlerFacts, HistoryTypes DEF Parts, Histories, told
<1>3. ListTypes' /\ \A z \in Session : z # req[c].session =>
          targets'[z] = targets[z] /\ durable'[z] \in {durable[z], targets'[z]}
  BY <1>1, WriteLists
<1> QED BY <1>1, <1>2, <1>3, IdleFields, HandlerFacts, ListsKeep

LEMMA ReloadKeeps ==
    ASSUME IInv, NEW c \in Client, ReloadTargets(c)
    PROVE  IInv'
<1> DEFINE s == req[c].session
<1>1. /\ req[c].at = "reloading" /\ Becomes(c, Idle) /\ armed' = [armed EXCEPT ![s] = targets[s]]
      /\ Loads(s) /\ UNCHANGED <<store, worker, told, crashes>>
  BY DEF ReloadTargets
<1>2. /\ armed \in [Session -> TargetMap] /\ targets \in [Session -> TargetMap]
      /\ \A z \in Session : z > issued => z # s
  BY HandlerFacts DEF Parts, Watched, ListTypes
<1> HIDE DEF s
<1>3. /\ armed' \in [Session -> TargetMap]
      /\ \A z \in Session : armed'[z] = IF z = s THEN targets[z] ELSE armed[z]
  BY <1>1, <1>2
<1>4. StoreTypes' /\ ListTypes' /\ over' = over
  BY <1>1, HandlerFacts DEF Parts, StoreTypes, ListTypes, store, told
<1>5. Watched' /\ Histories'
  BY <1>1, <1>3, HandlerFacts, HistoryTypes DEF Parts, Watched, Histories, told
<1>6. \A z \in Session : z > issued =>
          targets'[z] = NoTargets /\ durable'[z] = NoTargets /\ armed'[z] = NoTargets
  BY <1>1, <1>2, <1>3, HandlerFacts DEF store
<1> QED BY <1>1, <1>4, <1>5, <1>6, IdleFields, HandlerFacts, GoOnKeeps DEF store

\* What save_targets does to the lists, failing or not
LEMMA SaveLists ==
    ASSUME IInv, NEW c \in Client, NEW d \in Device, NEW x \in Setting \cup {NoSetting},
           \/ Commit([targets EXCEPT ![req[c].session][d] = x])
           \/ Abandon([targets EXCEPT ![req[c].session][d] = x])
    PROVE  /\ ListTypes'
           /\ \A z \in Session : z # req[c].session => targets'[z] = targets[z]
           /\ \A z \in Session : durable'[z] \in {durable[z], targets'[z]}
           /\ req[c].session \in Session => \A e \in Device :
                targets'[req[c].session][e] = IF e = d THEN x ELSE targets[req[c].session][e]
<1> DEFINE s == req[c].session
           f == [targets[s] EXCEPT ![d] = x]
<1>1. ListTypes
  BY HandlerFacts DEF Parts
<1>2. s \in Session => /\ f \in TargetMap
                       /\ \A e \in Device : f[e] = IF e = d THEN x ELSE targets[s][e]
  BY <1>1 DEF ListTypes, TargetMap
<1>3. \/ Commit([targets EXCEPT ![s] = f])
      \/ Abandon([targets EXCEPT ![s] = f])
  OBVIOUS
<1> HIDE DEF f, s
<1>4. /\ ListTypes'
      /\ s \in Session => targets'[s] = f
      /\ \A z \in Session : z # s => targets'[z] = targets[z]
      /\ \A z \in Session : durable'[z] \in {durable[z], targets'[z]}
  BY <1>1, <1>2, <1>3, ChangedLists
<1> QED BY <1>2, <1>4 DEF s

\* The request of a handler that has saved the list of device d
Saved(r, d) == Request(IF r.todo = {d} THEN "loading" ELSE "saving",
                       r.session, r.prior, r.setting, r.todo \ {d})

LEMMA SavedFields ==
    ASSUME IInv, NEW c \in Client, NEW d \in Device
    PROVE  LET r == Saved(req[c], d) IN
           /\ r \in RequestSet
           /\ r.at = IF req[c].todo = {d} THEN "loading" ELSE "saving"
           /\ r.session = req[c].session /\ r.prior = req[c].prior
           /\ r.todo = req[c].todo \ {d}
<1> DEFINE todo == req[c].todo \ {d}
           at == IF req[c].todo = {d} THEN "loading" ELSE "saving"
           s == req[c].session
           p == req[c].prior
           x == req[c].setting
<1>1. at \in Stage /\ todo \in SUBSET Device /\ s \in Session \cup {NoSession}
      /\ p \in Session \cup {NoSession} /\ x \in Setting \cup {NoSetting}
  BY HandlerFacts DEF Stage
<1> HIDE DEF s, p, x, at, todo
<1>2. Request(at, s, p, x, todo) \in RequestSet
  BY <1>1, RequestType
<1>3. Saved(req[c], d) = Request(at, s, p, x, todo)
  BY DEF Saved, s, p, x, at, todo
<1> QED BY <1>2, <1>3, RequestFields DEF s, p, at, todo

\* Saving goes on to the next device or to the loading.
LEMMA SaveKeeps ==
    ASSUME IInv, NEW c \in Client, NEW d \in Device, SaveTargets(c, d)
    PROVE  IInv'
<1>1. /\ req[c].at = "saving"
      /\ UNCHANGED <<row, member, readings, current, issued, armed, worker, shown, over,
                     garbled, halfDone, crashes>>
      /\ lost' \in {lost, lost \cup ({req[c].prior} \ {NoSession})}
      /\ \/ /\ Commit([targets EXCEPT ![req[c].session][d] = req[c].setting])
            /\ Becomes(c, Saved(req[c], d))
         \/ Abandon(targets) /\ Becomes(c, Idle)
  BY DEF SaveTargets, Dies, Saved
<1>2. Histories'
  BY <1>1, HandlerFacts DEF Parts, Histories
<1>3. ListTypes' /\ \A z \in Session : z # req[c].session =>
          targets'[z] = targets[z] /\ durable'[z] \in {durable[z], targets'[z]}
  <2>1. CASE Commit([targets EXCEPT ![req[c].session][d] = req[c].setting])
    BY <2>1, HandlerFacts, SaveLists
  <2>2. CASE Abandon(targets)
    BY <2>2, HandlerFacts, StillLists DEF Still, Parts
  <2> QED BY <1>1, <2>1, <2>2
<1>4. CASE Becomes(c, Saved(req[c], d))
  <2>1. Saved(req[c], d).at # "ending"
    BY SavedFields
  <2> QED BY <1>1, <1>2, <1>3, <1>4, <2>1, SavedFields, HandlerFacts, ListsKeep
<1>5. CASE Becomes(c, Idle)
  BY <1>1, <1>2, <1>3, <1>5, IdleFields, HandlerFacts, ListsKeep
<1> QED BY <1>1, <1>4, <1>5

LEMMA SaveFailsKeeps ==
    ASSUME IInv, NEW c \in Client, NEW d \in Device, NEW half \in Setting \cup {NoSetting},
           SaveTargetsFails(c, d, half)
    PROVE  IInv'
<1>1. /\ req[c].at = "saving" /\ Becomes(c, Idle)
      /\ Abandon([targets EXCEPT ![req[c].session][d] = half])
      /\ Strands(req[c].session, Device \ (req[c].todo \ {d}))
      /\ lost' = lost \cup ({req[c].prior} \ {NoSession}) /\ garbled' = TRUE
      /\ UNCHANGED <<row, member, readings, current, issued, armed, worker, shown, over, crashes>>
  BY DEF SaveTargetsFails, Dies
<1>2. Histories'
  <2>1. halfDone' \in SUBSET Device
    BY <1>1, HandlerFacts, HistoryTypes DEF Parts
  <2> QED BY <1>1, <2>1, HandlerFacts DEF Parts, Histories
<1>3. ListTypes' /\ \A z \in Session : z # req[c].session =>
          targets'[z] = targets[z] /\ durable'[z] \in {durable[z], targets'[z]}
  BY <1>1, SaveLists
<1> QED BY <1>1, <1>2, <1>3, IdleFields, HandlerFacts, ListsKeep

-----------------------------------------------------------------------------
(* Starting a session.                                                     *)

LEMMA AnnounceTypes ==
    ASSUME Watched, NEW s, Clear(s), AnnounceOver(s)
    PROVE  Watched'
<1>1. armed' \in [Session -> TargetMap]
  BY NoTargetsType DEF Watched, Clear
<1>2. over' \in [Session -> Nat]
  <2> DEFINE n(z) == IF z = s THEN over[z] + 1 ELSE over[z]
  <2>1. over' = [z \in Session |-> n(z)]
    BY DEF Watched, AnnounceOver
  <2>2. \A z \in Session : n(z) \in Nat
    BY DEF Watched
  <2> HIDE DEF n
  <2> QED BY <2>1, <2>2
<1> QED BY <1>1, <1>2 DEF Watched, AnnounceOver

LEMMA CloseOffTypes ==
    ASSUME Watched, NEW s, CloseOff(s)
    PROVE  Watched'
<1>1. CASE s = NoSession
  BY <1>1 DEF CloseOff, Watched
<1>2. CASE s # NoSession
  BY <1>2, AnnounceTypes DEF CloseOff
<1> QED BY <1>1, <1>2

LEMMA StartTypes ==
    ASSUME TypeOK, NEW c \in Client, NEW devices \in SUBSET Device,
           NEW x \in Setting \cup {NoSetting}, RequestStart(c, devices, x)
    PROVE  TypeOK'
<1>0. Parts /\ MaxSession \in Nat
  BY TypeParts, ServerAssumption
<1>1. /\ issued + 1 \in Session /\ issued' = issued + 1 /\ current' = issued + 1
      /\ Still /\ ChangesSession(c) /\ UNCHANGED <<readings, lost, worker, crashes>>
  BY <1>0 DEF Parts, Numbers, RequestStart, Session, Still
<1>2. Numbers'
  <2>1. issued + 1 \in 0..MaxSession
    BY <1>0, <1>1 DEF Session
  <2> QED BY <1>1, <2>1 DEF Numbers
<1>3. StoreTypes'
  <2>1. row' \in [Session -> {"absent", "open", "ended"}]
    BY <1>0 DEF Parts, StoreTypes, RequestStart
  <2>2. member' \in [Session -> [Device -> {"none", "in", "left"}]]
    BY <1>0 DEF Parts, StoreTypes, RequestStart
  <2> QED BY <1>0, <1>1, <2>1, <2>2 DEF Parts, StoreTypes
<1>4. ListTypes'
  BY <1>0, <1>1, StillLists DEF Parts
<1>5. Watched'
  BY <1>0, CloseOffTypes DEF RequestStart, Parts, Watched
<1>6. Histories'
  BY <1>0, <1>1, HistoryTypes DEF Parts, Histories
<1>7. /\ Request("announcing", issued + 1, NoSession, NoSetting, {}) \in RequestSet
      /\ Request("saving", issued + 1, current, x, devices) \in RequestSet
  <2>1. current \in Session \cup {NoSession}
    BY <1>0 DEF Parts, Numbers
  <2> QED BY <1>1, <2>1, RequestType DEF Stage
<1>8. req' \in [Client -> RequestSet]
  BY <1>7, BecomesOthers DEF RequestStart
<1> QED BY <1>1, <1>2, <1>3, <1>4, <1>5, <1>6, <1>8, TypeWhole DEF Parts

\* A session that starts ends the one before it, which is announced at once
\* or owed by the handler.
LEMMA StartKeeps ==
    ASSUME IInv, NEW c \in Client, NEW devices \in SUBSET Device,
           NEW x \in Setting \cup {NoSetting}, RequestStart(c, devices, x)
    PROVE  IInv'
<1> DEFINE s == issued + 1
<1>0. /\ TypeOK /\ StoreTypes /\ ListTypes /\ Numbers /\ Watched /\ MaxSession \in Nat
      /\ Ledger /\ Debts /\ OverOnce
  BY TypeParts, ServerAssumption DEF IInv, Parts
<1>1. /\ s \in Session /\ issued' = s /\ current' = s /\ s \in Nat /\ s > issued
      /\ issued \in Nat /\ targets' = targets /\ durable' = targets /\ s # NoSession
      /\ \A z \in Session : z \in Nat /\ z # NoSession
  BY <1>0 DEF Numbers, RequestStart, Commit, Session, NoSession
<1>2. /\ row'[s] = "open" /\ current # s
      /\ \A z \in Session : row'[z] = "open" <=> z = s
      /\ \A z \in Session : z # s /\ z # current => row'[z] = row[z]
      /\ current # NoSession => row'[current] = "ended" /\ current \in Session
  <2>1. row' = [r \in Session |-> IF r = s THEN "open"
                                  ELSE IF r = current THEN "ended" ELSE row[r]]
    BY DEF RequestStart
  <2>2. current # s
    BY <1>0, <1>1 DEF Ledger
  <2>3. current # NoSession => current \in Session
    BY <1>0 DEF Numbers
  <2> HIDE DEF s
  <2> QED BY <1>0, <1>1, <2>1, <2>2, <2>3 DEF Ledger
<1>3. /\ over[s] = 0 /\ armed[s] = NoTargets /\ targets[s] = NoTargets
      /\ current # NoSession => current <= issued /\ over[current] = 0
  BY <1>0, <1>1, <1>2 DEF Ledger, OverOnce, Watched
<1>4. /\ req[c].at = "idle"
      /\ \/ /\ CloseOff(current)
            /\ Becomes(c, Request("announcing", s, NoSession, NoSetting, {}))
         \/ /\ UNCHANGED <<armed, over, shown>>
            /\ Becomes(c, Request("saving", s, current, x, devices))
  BY DEF RequestStart
<1> HIDE DEF s
<1>5. \A z \in Session : /\ z # current => over'[z] = over[z] /\ armed'[z] = armed[z]
                         /\ over'[z] > 0 => over'[z] = 1 /\ row'[z] # "open"
                         /\ z > s => armed'[z] = NoTargets
  <2> TAKE z \in Session
  <2>1. CASE armed' = armed /\ over' = over
    BY <1>0, <1>1, <1>2, <1>3, <2>1 DEF Ledger, OverOnce
  <2>2. CASE current # NoSession /\ Clear(current) /\ AnnounceOver(current)
    <3>1. /\ armed' = [armed EXCEPT ![current] = NoTargets]
          /\ over' = [over EXCEPT ![current] = @ + 1]
      BY <2>2 DEF Clear, AnnounceOver
    <3>2. CASE z = current
      BY <1>0, <1>1, <1>2, <1>3, <2>2, <3>1, <3>2 DEF Watched
    <3>3. CASE z # current
      <4>1. armed'[z] = armed[z] /\ over'[z] = over[z]
        BY <1>0, <3>1, <3>3 DEF Watched
      <4> QED BY <1>0, <1>1, <1>2, <1>3, <3>3, <4>1 DEF Ledger, OverOnce
    <3> QED BY <3>2, <3>3
  <2> QED BY <1>4, <2>1, <2>2 DEF CloseOff
<1>6. OverOnce'
  BY <1>5 DEF OverOnce
<1>7. Ledger'
  <2>1. ASSUME NEW z \in Session, z > s
        PROVE  /\ row'[z] = "absent" /\ over'[z] = 0 /\ armed'[z] = NoTargets
               /\ targets'[z] = NoTargets /\ durable'[z] = NoTargets
    <3>1. z > issued /\ z # s /\ z # current
      BY <1>0, <1>1, <1>2, <1>3, <2>1
    <3> QED BY <1>0, <1>1, <1>2, <1>5, <2>1, <3>1 DEF Ledger
  <2> QED BY <1>1, <1>2, <2>1 DEF Ledger
<1>8. Debts'
  <2>1. req'[c].at # "ending" /\ req'[c].session = s /\ req'[c].prior \in {NoSession, current}
    BY <1>0, <1>4, BecomesOthers, RequestFields
  <2>2. req'[c].prior = current /\ current # NoSession => over'[current] = 0
    BY <1>0, <1>2, <1>3, <1>4, BecomesOthers, RequestFields
  <2>3. Owed(c)' = req'[c].prior
    BY <2>1 DEF Owed
  <2>4. \A e \in Client : e # c => req'[e] = req[e] /\ Owed(e)' = Owed(e)
    BY <1>0, <1>4, BecomesOthers
  <2>5. ASSUME NEW e \in Client, e # c, Owed(e) # NoSession
        PROVE  /\ Owed(e) \in Session /\ Owed(e) <= issued /\ Owed(e) # s /\ Owed(e) # current
               /\ row'[Owed(e)] # "open" /\ over'[Owed(e)] = 0
    <3>1. Owed(e) \in Session /\ Owed(e) <= issued /\ row[Owed(e)] # "open" /\ over[Owed(e)] = 0
      BY <1>0, <2>5, InProgress DEF Debts, Owed
    <3>2. Owed(e) # s /\ Owed(e) # current
      BY <1>0, <1>1, <1>2, <3>1 DEF Ledger
    <3> QED BY <1>2, <1>5, <3>1, <3>2
  <2>6. \A e \in Client : req'[e].session <= s /\ req'[e].prior <= s
    <3> TAKE e \in Client
    <3>1. CASE e = c
      <4>1. current \in Nat /\ (current = NoSession \/ current <= issued) /\ NoSession <= s
        BY <1>0, <1>1, <1>3, SessionNumbers DEF Numbers, NoSession
      <4>2. current <= s
        BY <1>1, <4>1 DEF s
      <4> QED BY <1>1, <2>1, <3>1, <4>1, <4>2
    <3>2. CASE e # c
      <4>1. req[e].session \in Nat /\ req[e].prior \in Nat
        BY <1>0, InProgress, SessionNumbers, Zenon
      <4>2. req[e].session <= issued /\ req[e].prior <= issued
        BY <1>0 DEF Debts
      <4>3. req[e].session <= s /\ req[e].prior <= s
        BY <1>1, <4>1, <4>2 DEF s
      <4> QED BY <2>4, <3>2, <4>3
    <3> QED BY <3>1, <3>2
  <2>7. \A e \in Client : Owed(e)' # NoSession => (row[Owed(e)])' # "open" /\ (over[Owed(e)])' = 0
    BY <1>2, <2>1, <2>2, <2>3, <2>4, <2>5
  <2>8. \A d, e \in Client : d # e /\ Owed(d)' = Owed(e)' => Owed(d)' = NoSession
    BY <1>0, <2>1, <2>3, <2>4, <2>5 DEF Debts
  <2> QED BY <1>1, <2>6, <2>7, <2>8 DEF Debts
<1> QED BY <1>0, <1>6, <1>7, <1>8, StartTypes DEF IInv

-----------------------------------------------------------------------------
(* Paying: the announcements of an end that is owed.                       *)

\* A handler that announces the end it owes owes nothing, and nobody else
\* owed it.
LEMMA Paid ==
    ASSUME TypeOK, Ledger, Debts, OverOnce, NEW c \in Client,
           Owed(c) = NoSession => over' = over,
           Owed(c) # NoSession => over' = [over EXCEPT ![Owed(c)] = @ + 1],
           row' = row, issued' = issued,
           \A e \in Client : e # c => req'[e] = req[e] /\ Owed(e)' = Owed(e),
           Owed(c)' = NoSession, req'[c].session <= issued, req'[c].prior <= issued
    PROVE  Debts' /\ OverOnce' /\ \A z \in Session : z > issued => over'[z] = 0
<1>1. /\ Owed(c) \in Session \cup {NoSession}
      /\ over \in [Session -> Nat]
      /\ Owed(c) # NoSession => /\ row[Owed(c)] # "open" /\ over[Owed(c)] = 0
                               /\ Owed(c) <= issued
  BY InProgress DEF TypeOK, Debts, Owed
<1>2. ASSUME NEW z \in Session
      PROVE  /\ z # Owed(c) => over'[z] = over[z]
             /\ over'[z] > 0 => over'[z] = 1 /\ row'[z] # "open"
             /\ z > issued => over'[z] = 0
  <2>1. CASE Owed(c) = NoSession
    BY <2>1 DEF OverOnce, Ledger
  <2>2. CASE Owed(c) # NoSession
    <3>1. CASE z = Owed(c)
      <4>1. over'[z] = 1 /\ row'[z] # "open" /\ z <= issued
        BY <1>1, <2>2, <3>1
      <4>2. z \in Nat /\ issued \in Nat
        BY SessionNumbers DEF TypeOK
      <4> QED BY <3>1, <4>1, <4>2
    <3>2. CASE z # Owed(c)
      <4>1. over'[z] = over[z]
        BY <1>1, <2>2, <3>2
      <4> QED BY <4>1 DEF OverOnce, Ledger
    <3> QED BY <3>1, <3>2
  <2> QED BY <2>1, <2>2
<1>3. OverOnce'
  BY <1>2 DEF OverOnce
<1>4. ASSUME NEW e \in Client, Owed(e)' # NoSession
      PROVE  /\ e # c /\ Owed(e)' = Owed(e) /\ Owed(e) \in Session /\ Owed(e) # Owed(c)
             /\ row[Owed(e)] # "open" /\ over'[Owed(e)] = 0
  <2>1. e # c /\ Owed(e)' = Owed(e)
    BY <1>4
  <2>2. Owed(e) \in Session /\ Owed(e) # Owed(c) /\ row[Owed(e)] # "open" /\ over[Owed(e)] = 0
    BY <1>4, <2>1, InProgress DEF Debts
  <2> QED BY <1>2, <2>1, <2>2
<1>5. \A e \in Client : Owed(e)' # NoSession => (row[Owed(e)])' # "open" /\ (over[Owed(e)])' = 0
  BY <1>4
<1>6. \A d, e \in Client : d # e /\ Owed(d)' = Owed(e)' => Owed(d)' = NoSession
  BY <1>4 DEF Debts
<1>7. \A e \in Client : req'[e].session <= issued' /\ req'[e].prior <= issued'
  BY DEF Debts
<1> QED BY <1>2, <1>3, <1>5, <1>6, <1>7 DEF Debts

\* The previous session is cleared and announced when the targets are loaded.
LEMMA LoadKeeps ==
    ASSUME IInv, NEW c \in Client, LoadTargets(c)
    PROVE  IInv'
<1> DEFINE s == req[c].session
           p == req[c].prior
           r == Request("announcing", s, NoSession, NoSetting, {})
<1>0. /\ TypeOK /\ Parts /\ Ledger /\ Debts /\ OverOnce
      /\ s \in Session \cup {NoSession} /\ p \in Session \cup {NoSession}
  BY TypeParts, InProgress DEF IInv
<1>1. /\ req[c].at = "loading" /\ Owed(c) = p /\ Becomes(c, r) /\ Loads(s)
      /\ UNCHANGED <<store, lost, garbled, worker, crashes>>
      /\ armed' = [z \in Session |-> IF z = p THEN NoTargets
                                     ELSE IF z = s THEN targets[z] ELSE armed[z]]
      /\ p = NoSession => UNCHANGED <<over, shown>>
      /\ p # NoSession => AnnounceOver(p)
  BY DEF LoadTargets, Owed
<1>2. /\ r \in RequestSet /\ r.at = "announcing" /\ r.session = s /\ r.prior = NoSession
  <2> HIDE DEF s
  <2>1. r \in RequestSet
    BY <1>0, RequestType DEF Stage
  <2>2. r.at = "announcing" /\ r.session = s /\ r.prior = NoSession
    BY RequestFields
  <2> QED BY <2>1, <2>2
<1>3. s <= issued /\ p <= issued /\ NoSession <= issued
  BY <1>0 DEF Debts, Parts, Numbers, NoSession
<1> HIDE DEF r, s, p
<1>4. /\ req'[c] = r /\ req' \in [Client -> RequestSet] /\ Owed(c)' = NoSession
      /\ \A e \in Client : e # c => req'[e] = req[e] /\ Owed(e)' = Owed(e)
  BY <1>0, <1>1, <1>2, BecomesOthers DEF Owed
<1>5. Debts' /\ OverOnce' /\ \A z \in Session : z > issued => over'[z] = 0
  BY <1>0, <1>1, <1>2, <1>3, <1>4, Paid DEF AnnounceOver, store
<1>6. armed' \in [Session -> TargetMap]
  BY <1>0, <1>1, NoTargetsType DEF Parts, ListTypes, Watched
<1>7. shown' \in Session \cup {NoSession}
  BY <1>0, <1>1 DEF Parts, Watched, AnnounceOver
<1>8. over' \in [Session -> Nat]
  <2> DEFINE n(z) == IF z = p THEN over[z] + 1 ELSE over[z]
  <2>1. p # NoSession => over' = [z \in Session |-> n(z)]
    BY <1>0, <1>1 DEF Parts, Watched, AnnounceOver
  <2>2. \A z \in Session : n(z) \in Nat
    BY <1>0 DEF Parts, Watched
  <2> HIDE DEF n
  <2> QED BY <1>0, <1>1, <2>1, <2>2 DEF Parts, Watched
<1>9. TypeOK'
  <2>1. StoreTypes' /\ ListTypes' /\ Numbers'
    BY <1>0, <1>1 DEF Parts, StoreTypes, ListTypes, Numbers, store
  <2>2. Watched' /\ Histories'
    BY <1>0, <1>1, <1>6, <1>7, <1>8, HistoryTypes DEF Parts, Watched, Histories
  <2> QED BY <1>0, <1>1, <1>4, <2>1, <2>2, TypeWhole DEF Parts
<1>10. Ledger'
  <2>1. \A z \in Session : z > issued => armed'[z] = NoTargets
    BY <1>0, <1>1 DEF Ledger
  <2> QED BY <1>0, <1>1, <1>5, <2>1 DEF Ledger, store
<1> QED BY <1>5, <1>9, <1>10 DEF IInv

LEMMA AnnounceEndKeeps ==
    ASSUME IInv, NEW c \in Client, AnnounceEnd(c)
    PROVE  IInv'
<1> DEFINE s == req[c].session
<1>0. /\ TypeOK /\ Parts /\ Ledger /\ Debts /\ OverOnce /\ s \in Session \cup {NoSession}
  BY TypeParts, InProgress DEF IInv
<1>1. /\ Owed(c) = s /\ Becomes(c, Idle) /\ Clear(s) /\ AnnounceOver(s)
      /\ Still
      /\ UNCHANGED <<row, member, readings, current, issued, lost, garbled, halfDone, worker,
                     crashes>>
  BY DEF AnnounceEnd, store, Still, Owed
<1> HIDE DEF s
<1>2. /\ req'[c] = Idle /\ req' \in [Client -> RequestSet] /\ Owed(c)' = NoSession
      /\ \A e \in Client : e # c => req'[e] = req[e] /\ Owed(e)' = Owed(e)
  BY <1>0, <1>1, IdleFields, BecomesOthers DEF Owed
<1>3. over' = [over EXCEPT ![s] = @ + 1] /\ armed' = [armed EXCEPT ![s] = NoTargets]
  BY <1>1 DEF Clear, AnnounceOver
<1>4. Owed(c) = NoSession => over' = over
  <2> SUFFICES ASSUME s = NoSession PROVE over' = over
    BY <1>1
  <2>1. s \notin Session
    BY DEF Session, NoSession
  <2> QED BY <1>0, <1>3, <2>1 DEF Parts, Watched
<1>5. Debts' /\ OverOnce' /\ \A z \in Session : z > issued => over'[z] = 0
  <2>1. req'[c].session <= issued /\ req'[c].prior <= issued
    BY <1>0, <1>2, IdleFields DEF Parts, Numbers, NoSession
  <2> QED BY <1>0, <1>1, <1>2, <1>3, <1>4, <2>1, Paid
<1>6. ListTypes' /\ targets' = targets /\ durable' \in {targets, durable}
  BY <1>0, <1>1, StillLists DEF Parts
<1>7. TypeOK'
  <2>1. StoreTypes' /\ Numbers' /\ Histories'
    BY <1>0, <1>1 DEF Parts, StoreTypes, Numbers, Histories
  <2>2. Watched'
    BY <1>0, <1>1, AnnounceTypes DEF Parts
  <2> QED BY <1>0, <1>1, <1>2, <1>6, <2>1, <2>2, TypeWhole DEF Parts
<1>8. Ledger'
  <2>1. \A z \in Session : z > issued => armed'[z] = NoTargets
    BY <1>0, <1>3 DEF Ledger, Parts, Watched
  <2> QED BY <1>0, <1>1, <1>5, <1>6, <2>1 DEF Ledger
<1> QED BY <1>5, <1>7, <1>8 DEF IInv

-----------------------------------------------------------------------------
(* The active session ends, is discarded, or ends without a successor.     *)

\* The active session is closed, and announced or owed by the handler of c,
\* or neither.
LEMMA ClosedDebts ==
    ASSUME IInv, current # NoSession, NEW c \in Client, row'[current] # "open", issued' = issued,
           \A z \in Session : z # current => row'[z] = row[z] /\ over'[z] = over[z],
           \A e \in Client : e # c => req'[e] = req[e] /\ Owed(e)' = Owed(e),
           req'[c].session <= issued, req'[c].prior <= issued,
           Owed(c)' \in {NoSession, current, Owed(c)},
           Owed(c)' = current => over'[current] = 0
    PROVE  Debts'
<1>0. TypeOK /\ Ledger /\ Debts
  BY DEF IInv
<1>1. ASSUME NEW e \in Client, Owed(e) # NoSession
      PROVE  Owed(e) # current /\ row'[Owed(e)] # "open" /\ over'[Owed(e)] = 0
  <2>1. Owed(e) \in Session /\ row[Owed(e)] # "open" /\ over[Owed(e)] = 0
    BY <1>0, <1>1, InProgress DEF Debts
  <2>2. Owed(e) # current
    BY <1>0, <2>1 DEF Ledger
  <2> QED BY <2>1, <2>2
<1>2. \A e \in Client : Owed(e)' # NoSession => (row[Owed(e)])' # "open" /\ (over[Owed(e)])' = 0
  BY <1>1
<1>3. \A d, e \in Client : d # e /\ Owed(d)' = Owed(e)' => Owed(d)' = NoSession
  BY <1>0, <1>1 DEF Debts
<1>4. \A e \in Client : req'[e].session <= issued' /\ req'[e].prior <= issued'
  BY <1>0 DEF Debts
<1> QED BY <1>2, <1>3, <1>4 DEF Debts

\* The active session is the only open one and was not announced to be over.
LEMMA ActiveFacts ==
    ASSUME IInv, current # NoSession
    PROVE  /\ current \in Session /\ row[current] = "open" /\ over[current] = 0
           /\ \A z \in Session : z > issued => z # current
<1>1. current \in Session /\ row[current] = "open"
  BY DEF IInv, TypeOK, Ledger
<1>2. over[current] \in Nat
  BY <1>1 DEF IInv, TypeOK
<1>3. over[current] = 0
  BY <1>1, <1>2 DEF IInv, OverOnce
<1> QED BY <1>1, <1>3 DEF IInv, Ledger

LEMMA ClosedLedger ==
    ASSUME IInv, current # NoSession, current' = NoSession, issued' = issued,
           NEW v \in {"ended", "absent"}, row' = [row EXCEPT ![current] = v],
           \A z \in Session : z # current => /\ over'[z] = over[z] /\ armed'[z] = armed[z]
                                             /\ targets'[z] = targets[z]
                                             /\ durable'[z] \in {durable[z], targets[z]}
    PROVE  Ledger' /\ \A z \in Session : row'[z] = IF z = current THEN v ELSE row[z]
<1>1. \A z \in Session : row'[z] = IF z = current THEN v ELSE row[z]
  BY DEF IInv, TypeOK
<1>2. \A z \in Session : row'[z] # "open"
  BY <1>1 DEF IInv, Ledger
<1>3. ASSUME NEW z \in Session, z > issued
      PROVE  /\ row'[z] = "absent" /\ over'[z] = 0 /\ armed'[z] = NoTargets
             /\ targets'[z] = NoTargets /\ durable'[z] = NoTargets
  <2>1. z # current
    BY <1>3, ActiveFacts
  <2> QED BY <1>1, <1>3, <2>1 DEF IInv, Ledger
<1>4. current' = NoSession /\ issued' = issued
  OBVIOUS
<1> QED BY <1>1, <1>2, <1>3, <1>4 DEF Ledger

LEMMA EndKeeps ==
    ASSUME IInv, NEW c \in Client, RequestEnd(c)
    PROVE  IInv'
<1> DEFINE r == Request("ending", current, NoSession, NoSetting, {})
<1>0. TypeOK /\ Parts /\ OverOnce
  BY TypeParts DEF IInv
<1>1. /\ Becomes(c, r) /\ current # NoSession /\ current' = NoSession /\ Still /\ ChangesSession(c)
      /\ row' = [row EXCEPT ![current] = "ended"]
      /\ UNCHANGED <<member, readings, issued, armed, worker, shown, over, lost, crashes>>
  BY DEF RequestEnd, Still
<1>2. current \in Session /\ row[current] = "open" /\ over[current] = 0
  BY <1>1, ActiveFacts
<1>3. /\ r \in RequestSet /\ r.at = "ending" /\ r.session = current /\ r.prior = NoSession
  <2>1. r \in RequestSet
    BY <1>2, RequestType DEF Stage
  <2> QED BY <2>1, RequestFields
<1> HIDE DEF r
<1>4. /\ req'[c] = r /\ req' \in [Client -> RequestSet] /\ Owed(c)' = current
      /\ \A e \in Client : e # c => req'[e] = req[e] /\ Owed(e)' = Owed(e)
  BY <1>0, <1>1, <1>3, BecomesOthers DEF Owed
<1>5. targets' = targets /\ durable' \in {durable, targets} /\ ListTypes'
  BY <1>0, <1>1, StillLists DEF Parts
<1>6. Ledger' /\ \A z \in Session : row'[z] = IF z = current THEN "ended" ELSE row[z]
  BY <1>1, <1>5, ClosedLedger
<1>7. Debts'
  <2>1. req'[c].session <= issued /\ req'[c].prior <= issued
    BY <1>1, <1>3, <1>4, HandlerFacts
  <2> QED BY <1>1, <1>2, <1>4, <1>6, <2>1, ClosedDebts
<1>8. OverOnce'
  BY <1>0, <1>1, <1>6 DEF OverOnce
<1>9. TypeOK'
  <2>1. StoreTypes'
    <3>1. row' \in [Session -> {"absent", "open", "ended"}]
      BY <1>0, <1>1 DEF Parts, StoreTypes
    <3> QED BY <1>0, <1>1, <3>1 DEF Parts, StoreTypes
  <2>2. Numbers' /\ Watched'
    BY <1>0, <1>1 DEF Parts, Numbers, Watched
  <2>3. Histories'
    BY <1>0, <1>1, HistoryTypes DEF Parts, Histories
  <2> QED BY <1>0, <1>1, <1>4, <1>5, <2>1, <2>2, <2>3, TypeWhole DEF Parts
<1> QED BY <1>6, <1>7, <1>8, <1>9 DEF IInv

\* Without an active session only the connection changes.
LEMMA StartFailsKeeps ==
    ASSUME IInv, NEW c \in Client, RequestStartFails(c)
    PROVE  IInv'
<1>0. TypeOK /\ Parts /\ OverOnce
  BY TypeParts DEF IInv
<1>1. /\ req[c].at = "idle" /\ Becomes(c, Idle) /\ current' = NoSession /\ targets' = targets
      /\ failedTxn' = TRUE /\ durable' \in {durable, targets} /\ halfDone' = {}
      /\ UNCHANGED <<member, readings, issued, armed, worker, shown, over, crashes>>
  BY DEF RequestStartFails, Dies
<1>2. /\ req'[c] = Idle /\ req' \in [Client -> RequestSet] /\ Owed(c)' = NoSession
      /\ \A e \in Client : e # c => req'[e] = req[e] /\ Owed(e)' = Owed(e)
  BY <1>0, <1>1, IdleFields, BecomesOthers DEF Owed
<1>3. ListTypes'
  BY <1>0, <1>1 DEF Parts, ListTypes
<1>4. CASE current = NoSession
  <2>1. UNCHANGED <<row, current, lost, garbled>>
    BY <1>1, <1>4 DEF RequestStartFails
  <2>2. StoreTypes' /\ Watched' /\ Histories'
    BY <1>0, <1>1, <2>1 DEF Parts, StoreTypes, Watched, Histories
  <2>3. \A z \in Session : z > issued => /\ targets'[z] = NoTargets /\ durable'[z] = NoTargets
                                         /\ armed'[z] = NoTargets
    BY <1>1, HandlerFacts
  <2> QED BY <1>1, <1>3, <2>1, <2>2, <2>3, IdleFields, HandlerFacts, GoOnKeeps
<1>5. CASE current # NoSession
  <2>1. /\ row' = [row EXCEPT ![current] = "ended"] /\ lost' = lost \cup {current} /\ garbled' = TRUE
    BY <1>5 DEF RequestStartFails
  <2>2. current \in Session
    BY <1>5, ActiveFacts
  <2>3. Ledger' /\ \A z \in Session : row'[z] = IF z = current THEN "ended" ELSE row[z]
    BY <1>1, <1>5, <2>1, ClosedLedger
  <2>4. Debts'
    <3>1. req'[c].session <= issued /\ req'[c].prior <= issued
      BY <1>2, IdleFields, HandlerFacts
    <3>2. NoSession # current /\ row'[current] # "open"
      BY <1>5, <2>2, <2>3
    <3> QED BY <1>1, <1>2, <1>5, <2>3, <3>1, <3>2, ClosedDebts
  <2>5. OverOnce'
    BY <1>0, <1>1, <2>3 DEF OverOnce
  <2>6. TypeOK'
    <3>1. row' \in [Session -> {"absent", "open", "ended"}]
      BY <1>0, <2>1 DEF Parts, StoreTypes
    <3>2. StoreTypes' /\ Numbers' /\ Watched' /\ Histories'
      BY <1>0, <1>1, <2>1, <2>2, <3>1 DEF Parts, StoreTypes, Numbers, Watched, Histories
    <3> QED BY <1>0, <1>1, <1>2, <1>3, <3>2, TypeWhole DEF Parts
  <2> QED BY <2>3, <2>4, <2>5, <2>6 DEF IInv
<1> QED BY <1>4, <1>5

LEMMA DiscardKeeps ==
    ASSUME IInv, NEW c \in Client, RequestDiscard(c)
    PROVE  IInv'
<1>0. TypeOK /\ Parts /\ Ledger /\ Debts /\ OverOnce
  BY TypeParts DEF IInv
<1>1. /\ req[c].at = "idle" /\ current # NoSession /\ UNCHANGED <<issued, lost, worker, crashes>>
      /\ current \in Session /\ row[current] = "open" /\ over[current] = 0
      /\ \A z \in Session : z > issued => z # current
  BY ActiveFacts DEF RequestDiscard
<1>2. CASE failedTxn
  <2>1. /\ UNCHANGED <<row, member, readings, current, armed, shown, over, garbled, halfDone>>
        /\ Becomes(c, Idle) /\ Rollback
    BY <1>2 DEF RequestDiscard, Dies
  <2>2. targets' = durable /\ durable' = durable /\ ListTypes'
    BY <1>0, <2>1, RollbackLists DEF Parts
  <2>3. StoreTypes' /\ Watched' /\ Histories'
    BY <1>0, <1>1, <2>1 DEF Parts, StoreTypes, Watched, Histories
  <2>4. \A z \in Session : z > issued => /\ targets'[z] = NoTargets /\ durable'[z] = NoTargets
                                         /\ armed'[z] = NoTargets
    BY <2>1, <2>2, HandlerFacts
  <2> QED BY <1>1, <2>1, <2>2, <2>3, <2>4, IdleFields, HandlerFacts, GoOnKeeps
<1>3. CASE ~ failedTxn
  <2>1. /\ row' = [row EXCEPT ![current] = "absent"]
        /\ member' = [member EXCEPT ![current] = [d \in Device |-> "none"]]
        /\ Commit([targets EXCEPT ![current] = NoTargets])
        /\ readings' = [readings EXCEPT ![current] = {}]
        /\ current' = NoSession /\ Clear(current) /\ AnnounceOver(current)
        /\ ChangesSession(c) /\ req' = req
    BY <1>3 DEF RequestDiscard
  <2>2. /\ ListTypes'
        /\ \A z \in Session : z # current => targets'[z] = targets[z]
        /\ \A z \in Session : durable'[z] \in {durable[z], targets'[z]}
    BY <1>0, <2>1, NoTargetsType, ChangedLists DEF Parts
  <2>3. \A z \in Session : /\ over'[z] = IF z = current THEN 1 ELSE over[z]
                           /\ z # current => armed'[z] = armed[z]
    BY <1>0, <1>1, <2>1 DEF Parts, Watched, Clear, AnnounceOver
  <2>4. Ledger' /\ \A z \in Session : row'[z] = IF z = current THEN "absent" ELSE row[z]
    BY <1>1, <2>1, <2>2, <2>3, ClosedLedger
  <2>5. OverOnce'
    BY <1>0, <2>3, <2>4 DEF OverOnce
  <2>6. Debts'
    <3>1. \A e \in Client : Owed(e)' = Owed(e)
      BY <2>1 DEF Owed
    <3>2. Owed(c)' # current
      <4>1. Owed(c) # current
        BY <1>0, <1>1 DEF Debts
      <4> QED BY <3>1, <4>1
    <3>3. req'[c].session <= issued /\ req'[c].prior <= issued
      BY <1>0, <2>1 DEF Debts
    <3> QED BY <1>1, <2>1, <2>3, <2>4, <3>1, <3>2, <3>3, ClosedDebts
  <2>7. TypeOK'
    <3>1. row' \in [Session -> {"absent", "open", "ended"}]
      BY <1>0, <2>1 DEF Parts, StoreTypes
    <3>2. member' \in [Session -> [Device -> {"none", "in", "left"}]]
      BY <1>0, <2>1 DEF Parts, StoreTypes
    <3>3. readings' \in [Session -> SUBSET Device]
      BY <1>0, <2>1 DEF Parts, StoreTypes
    <3>4. StoreTypes'
      BY <3>1, <3>2, <3>3 DEF StoreTypes
    <3>5. Numbers'
      BY <1>0, <1>1, <2>1 DEF Parts, Numbers
    <3>6. Watched'
      BY <1>0, <2>1, AnnounceTypes DEF Parts
    <3>7. Histories'
      BY <1>0, <1>1, <2>1, HistoryTypes DEF Parts, Histories
    <3>8. req' \in [Client -> RequestSet]
      BY <1>0, <2>1, TypeParts
    <3> QED BY <1>0, <1>1, <2>2, <3>4, <3>5, <3>6, <3>7, <3>8, TypeWhole DEF Parts
  <2> QED BY <2>4, <2>5, <2>6, <2>7 DEF IInv
<1> QED BY <1>2, <1>3

-----------------------------------------------------------------------------
(* The process. *)

LEMMA RestartKeeps ==
    ASSUME IInv, Restart
    PROVE  IInv'
<1>0. TypeOK /\ Parts /\ Ledger /\ OverOnce
  BY TypeParts DEF IInv
<1>1. /\ UNCHANGED <<row, readings, current, issued, over>> /\ Rollback
      /\ shown' = current /\ req' = [c \in Client |-> Idle]
      /\ worker' = [d \in Device |-> Work("down", NoSession)] /\ crashes' \in 0..MaxCrash
      /\ armed' = [s \in Session |-> IF s = current THEN durable[s] ELSE NoTargets]
      /\ lost' = lost \cup ({Owed(c) : c \in Client} \ {NoSession})
      /\ garbled' = FALSE /\ halfDone' = {}
  BY ServerAssumption DEF Restart, IInv, TypeOK
<1>2. member' \in [Session -> [Device -> {"none", "in", "left"}]]
  BY <1>0 DEF Restart, Parts, StoreTypes
<1>3. armed' \in [Session -> TargetMap]
  BY <1>0, <1>1, NoTargetsType DEF Parts, ListTypes
<1>4. req' \in [Client -> RequestSet] /\ worker' \in [Device -> WorkSet]
  BY <1>1, IdleFields, WorkType DEF Between
<1>5. targets' = durable /\ durable' = durable /\ ListTypes'
  BY <1>0, <1>1, RollbackLists DEF Parts
<1>6. lost' \in SUBSET Session
  BY <1>0, <1>1, InProgress DEF Parts, Histories
<1>7. TypeOK'
  <2>1. StoreTypes' /\ Numbers' /\ Watched' /\ Histories'
    BY <1>0, <1>1, <1>2, <1>3, <1>6 DEF Parts, StoreTypes, Numbers, Watched, Histories
  <2> QED BY <1>1, <1>4, <1>5, <2>1 DEF TypeOK, StoreTypes, ListTypes, Numbers, Watched, Histories,
                                        RequestSet, WorkSet
<1>8. Ledger' /\ OverOnce'
  <2>1. \A s \in Session : s > issued => armed'[s] = NoTargets
    BY <1>0, <1>1 DEF Ledger
  <2> QED BY <1>0, <1>1, <1>5, <2>1 DEF Ledger, OverOnce
<1>9. Debts'
  <2>1. \A c \in Client : req'[c] = Idle /\ Owed(c)' = NoSession
    BY <1>1, IdleFields DEF Owed
  <2>2. NoSession <= issued
    BY <1>0 DEF Parts, Numbers, NoSession
  <2> QED BY <1>1, <2>1, <2>2, IdleFields DEF Debts
<1> QED BY <1>7, <1>8, <1>9 DEF IInv

-----------------------------------------------------------------------------
(* The invariant. *)

LEMMA InvInit == Init => IInv
<1> SUFFICES ASSUME Init PROVE IInv
  OBVIOUS
<1> USE ServerAssumption
<1>1. req \in [Client -> RequestSet] /\ worker \in [Device -> WorkSet]
  BY IdleFields, WorkType DEF Init, Between
<1>2. StoreTypes /\ ListTypes /\ Histories
  BY NoTargetsType DEF Init, StoreTypes, ListTypes, Histories
<1>3. Numbers /\ Watched
  <2>1. current = NoSession /\ issued \in 0..MaxSession
    BY DEF Init
  <2>2. armed \in [Session -> TargetMap] /\ over \in [Session -> Nat]
    BY NoTargetsType DEF Init
  <2> QED BY <2>1, <2>2 DEF Init, Numbers, Watched
<1>4. crashes \in 0..MaxCrash
  BY DEF Init
<1>5. TypeOK
  BY <1>1, <1>2, <1>3, <1>4 DEF TypeOK, StoreTypes, ListTypes, Numbers, Watched, Histories,
                                RequestSet, WorkSet
<1>6. Ledger /\ OverOnce
  BY DEF Init, Ledger, OverOnce
<1>7. Debts
  <2>1. \A c \in Client : req[c] = Idle /\ Owed(c) = NoSession
    BY IdleFields DEF Init, Owed
  <2>2. NoSession <= issued
    BY DEF Init, NoSession
  <2> QED BY <2>1, <2>2, IdleFields DEF Debts
<1> QED BY <1>5, <1>6, <1>7 DEF IInv

LEMMA InvStep == IInv /\ [Next]_vars => IInv'
<1> SUFFICES ASSUME IInv, [Next]_vars PROVE IInv'
  OBVIOUS
<1>1. CASE UNCHANGED vars
  BY <1>1 DEF vars, IInv, TypeOK, Ledger, Debts, Owed, OverOnce
<1>2. ASSUME NEW c \in Client, NewRequest(c) PROVE IInv'
  <2>1. CASE Refuse(c)
    BY <1>1, <2>1 DEF Refuse
  <2> QED BY <1>2, <2>1, StartKeeps, StartFailsKeeps, EndKeeps, DiscardKeeps, TargetUpdateKeeps,
             AddDeviceKeeps DEF NewRequest
<1>3. ASSUME NEW c \in Client, Continue(c) PROVE IInv'
  BY <1>3, SaveKeeps, SaveFailsKeeps, LoadKeeps, AnnounceStartKeeps, AnnounceEndKeeps, WriteKeeps,
     WriteFailsKeeps, ReloadKeeps, WriteMemberKeeps DEF Continue
<1>4. ASSUME NEW d \in InRange, Worker(d) PROVE IInv'
  BY <1>4, WorkerKeeps, ServerAssumption
<1>5. CASE Aside
  BY <1>5, AsideKeeps
<1>6. CASE Restart
  BY <1>6, RestartKeeps
<1> QED BY <1>1, <1>2, <1>3, <1>4, <1>5, <1>6 DEF Next, Worker, Aside

\* Every reachable state satisfies the invariant.
THEOREM Invariance == Spec => []IInv
BY InvInit, InvStep, PTL DEF Spec

-----------------------------------------------------------------------------
(* Types and announcements. *)

\* The types of the store, of the handlers and of the workers.
THEOREM TypeInvariant == Spec => []TypeOK
<1>1. IInv => TypeOK
  BY DEF IInv
<1> QED BY <1>1, Invariance, PTL

\* A session is announced to be over at most once, and never while it is
\* active, whatever handlers of whatever clients interleave.
THEOREM AnnouncedOnce == Spec => []OverOnce
<1>1. IInv => OverOnce
  BY DEF IInv
<1> QED BY <1>1, Invariance, PTL

-----------------------------------------------------------------------------
(* The evaluator watches for what the database has.                        *)

\* The handler of c has changed, or will load, the list of device d in the
\* active session, and loads it before it is done.
ToLoad(c, d) ==
    /\ req[c].session = current
    /\ \/ req[c].at \in {"loading", "reloading"}
       \/ req[c].at = "saving" /\ d \notin req[c].todo

\* The list that is watched for device d is the one that the store has, or
\* will be loaded, or a handler has failed.
LoadedFor(d) ==
    \/ armed[current][d] = targets[current][d]
    \/ d \in halfDone
    \/ \E c \in Client : ToLoad(c, d)

\* A rollback only takes back the lists that a handler that failed changed.
CommittedFor(d) == d \notin halfDone => durable[current][d] = targets[current][d]

Loaded == current # NoSession => \A d \in Device : LoadedFor(d) /\ CommittedFor(d)

\* A handler that changes neither the watched nor the stored list of device d
\* and keeps its promise to load it
LEMMA DeviceStays ==
    ASSUME TypeOK, NEW c \in Client, NEW r, Becomes(c, r), current' = current, NEW d \in Device,
           LoadedFor(d), d \in halfDone => d \in halfDone',
           d \notin halfDone' => /\ targets'[current][d] = targets[current][d]
                                 /\ armed'[current][d] = armed[current][d],
           ToLoad(c, d) => ToLoad(c, d)'
    PROVE  LoadedFor(d)'
<1>1. \A e \in Client : e # c => (ToLoad(e, d) => ToLoad(e, d)')
  BY BecomesOthers DEF ToLoad
<1> QED BY <1>1 DEF LoadedFor

\* Another coroutine's step
LEMMA StillLoaded ==
    ASSUME IInv, Loaded, Still \/ Rollback, UNCHANGED <<current, armed, req, halfDone>>
    PROVE  Loaded'
<1>1. \/ targets' = targets /\ durable' \in {durable, targets}
      \/ targets' = durable /\ durable' = durable
  BY StillLists, RollbackLists, TypeParts DEF IInv, Parts
<1> QED BY <1>1 DEF Loaded, LoadedFor, CommittedFor, ToLoad

\* A handler's step that changes no list and loads none
LEMMA PassesBy ==
    ASSUME IInv, Loaded, NEW c \in Client, NEW r, Becomes(c, r), Still \/ Rollback,
           current # NoSession => armed'[current] = armed[current],
           UNCHANGED <<current, halfDone>>,
           \A d \in Device : ToLoad(c, d) => ToLoad(c, d)'
    PROVE  Loaded'
<1> SUFFICES ASSUME current # NoSession, NEW d \in Device
             PROVE  LoadedFor(d)' /\ CommittedFor(d)'
  BY DEF Loaded
<1>0. TypeOK /\ ListTypes /\ LoadedFor(d) /\ CommittedFor(d)
  BY TypeParts DEF IInv, Parts, Loaded
<1>1. \/ targets' = targets /\ durable' \in {durable, targets}
      \/ targets' = durable /\ durable' = durable
  BY <1>0, StillLists, RollbackLists
<1>2. CommittedFor(d)'
  BY <1>0, <1>1 DEF CommittedFor
<1>3. d \notin halfDone => targets'[current][d] = targets[current][d]
  BY <1>0, <1>1 DEF CommittedFor
<1> QED BY <1>0, <1>2, <1>3, DeviceStays

\* A handler loads the lists of session s.
LEMMA LoadsLoaded ==
    ASSUME IInv, Loaded, NEW c \in Client, NEW r, Becomes(c, r),
           UNCHANGED <<current, targets, durable>>, Loads(req[c].session),
           current # NoSession => armed'[current] = IF req[c].session = current THEN targets[current]
                                                    ELSE armed[current]
    PROVE  Loaded'
<1> SUFFICES ASSUME current # NoSession, NEW d \in Device
             PROVE  LoadedFor(d)' /\ CommittedFor(d)'
  BY DEF Loaded
<1>0. TypeOK /\ LoadedFor(d) /\ CommittedFor(d)
  BY DEF IInv, Loaded
<1>1. CASE req[c].session = current
  BY <1>0, <1>1 DEF LoadedFor, CommittedFor, Loads
<1>2. CASE req[c].session # current
  <2>1. ~ToLoad(c, d) /\ halfDone' = halfDone
    BY <1>2 DEF ToLoad, Loads
  <2>2. CommittedFor(d)'
    BY <1>0, <2>1 DEF CommittedFor
  <2> QED BY <1>0, <1>2, <2>1, <2>2, DeviceStays
<1> QED BY <1>1, <1>2

\* A handler changes lists of its session s, those of devices D, and will
\* load what it changed, or fails.
LEMMA WritesLoaded ==
    ASSUME IInv, Loaded, NEW c \in Client, NEW r, Becomes(c, r), NEW D,
           UNCHANGED <<current, armed>>,
           \A z \in Session : z # req[c].session => targets'[z] = targets[z],
           \A z \in Session : durable'[z] \in {durable[z], targets'[z]},
           current # NoSession /\ current = req[c].session => \A d \in Device :
               d \notin D => targets'[current][d] = targets[current][d],
           \/ /\ halfDone' = halfDone /\ \A z \in Session : durable'[z] = targets'[z]
              /\ current = req[c].session => \A d \in Device : d \in D \/ ToLoad(c, d) => ToLoad(c, d)'
           \/ /\ Strands(req[c].session, D)
              /\ current = req[c].session => \A d \in Device : ToLoad(c, d) => d \in D
    PROVE  Loaded'
<1> SUFFICES ASSUME current # NoSession, NEW d \in Device
             PROVE  LoadedFor(d)' /\ CommittedFor(d)'
  BY DEF Loaded
<1>0. TypeOK /\ LoadedFor(d) /\ CommittedFor(d) /\ current \in Session
  BY DEF IInv, Loaded, TypeOK
<1>1. d \in halfDone => d \in halfDone'
  BY DEF Strands
<1>2. CommittedFor(d)'
  BY <1>0, <1>1 DEF CommittedFor, Strands
<1>3. CASE current # req[c].session
  <2>1. ~ToLoad(c, d)
    BY <1>3 DEF ToLoad
  <2> QED BY <1>0, <1>1, <1>2, <1>3, <2>1, DeviceStays
<1>4. CASE current = req[c].session /\ (d \in halfDone' \/ ToLoad(c, d)')
  BY <1>2, <1>4 DEF LoadedFor
<1>5. CASE current = req[c].session /\ d \notin halfDone' /\ ~ToLoad(c, d)'
  <2>1. d \notin D /\ ~ToLoad(c, d)
    BY <1>5 DEF Strands
  <2> QED BY <1>0, <1>1, <1>2, <1>5, <2>1, DeviceStays
<1> QED BY <1>3, <1>4, <1>5

LEMMA NewRequestLoaded ==
    ASSUME IInv, Loaded, NEW c \in Client, NewRequest(c)
    PROVE  Loaded'
<1>0. TypeOK /\ Parts /\ Ledger /\ Idle.at = "idle"
  BY TypeParts, IdleFields DEF IInv
<1>1. ASSUME NEW devices \in SUBSET Device, NEW x \in Setting \cup {NoSetting},
             RequestStart(c, devices, x)
      PROVE  Loaded'
  <2>1. /\ current' = issued + 1 /\ targets' = targets /\ durable' = targets
        /\ issued + 1 \in Session /\ issued + 1 > issued
        /\ armed' = armed \/ armed' = [armed EXCEPT ![current] = NoTargets]
    BY <1>0, <1>1, ServerAssumption
    DEF RequestStart, Commit, CloseOff, Clear, Parts, Numbers, Session
  <2>2. targets[issued + 1] = NoTargets /\ armed[issued + 1] = NoTargets
    BY <1>0, <2>1 DEF Ledger
  <2>3. armed'[issued + 1] = NoTargets
    BY <1>0, <2>1, <2>2 DEF Parts, Watched
  <2> QED BY <2>1, <2>2, <2>3 DEF Loaded, LoadedFor, CommittedFor
<1>2. CASE RequestEnd(c) \/ RequestStartFails(c)
  BY <1>2 DEF RequestEnd, RequestStartFails, Loaded
<1>3. CASE RequestDiscard(c)
  <2>1. CASE failedTxn
    <3>1. /\ Becomes(c, Idle) /\ Rollback /\ UNCHANGED <<current, armed, halfDone>>
          /\ req[c].at = "idle"
      BY <1>3, <2>1 DEF RequestDiscard, Dies
    <3>2. \A d \in Device : ~ToLoad(c, d)
      BY <3>1 DEF ToLoad
    <3> QED BY <3>1, <3>2, PassesBy
  <2>2. CASE ~failedTxn
    BY <1>3, <2>2 DEF RequestDiscard, Loaded
  <2> QED BY <2>1, <2>2
<1>4. ASSUME NEW d \in Device, NEW x \in Setting \cup {NoSetting},
             RequestTargetUpdate(c, d, x) \/ RequestAddDevice(c, d)
      PROVE  Loaded'
  <2>1. /\ \E r : Becomes(c, r)
        /\ req[c].at = "idle" /\ Still /\ UNCHANGED <<current, armed, halfDone>>
    BY <1>4 DEF RequestTargetUpdate, RequestAddDevice, store, Still
  <2>2. \A e \in Device : ~ToLoad(c, e)
    BY <2>1 DEF ToLoad
  <2> QED BY <2>1, <2>2, PassesBy
<1>5. CASE Refuse(c)
  BY <1>5 DEF Refuse, vars, Loaded, LoadedFor, CommittedFor, ToLoad
<1> QED BY <1>1, <1>2, <1>3, <1>4, <1>5 DEF NewRequest

\* The active session exists, so a write to it only fails half-way.
LEMMA ContinueLoaded ==
    ASSUME IInv, Loaded, NEW c \in Client, Continue(c)
    PROVE  Loaded'
<1> DEFINE s == req[c].session
<1>0. /\ TypeOK /\ Parts /\ Ledger /\ Debts /\ Idle.at = "idle"
      /\ current # NoSession => Exists(current) /\ current \in Session
      /\ s \in Session \cup {NoSession} /\ req[c].todo \in SUBSET Device
      /\ req[c].setting \in Setting \cup {NoSetting}
  BY TypeParts, IdleFields, HandlerFacts DEF IInv, Exists
<1>1. ASSUME NEW d \in Device, SaveTargets(c, d) PROVE Loaded'
  <2>1. CASE Exists(s)
    <3>1. /\ Commit([targets EXCEPT ![s][d] = req[c].setting]) /\ Becomes(c, Saved(req[c], d))
          /\ req[c].at = "saving" /\ UNCHANGED <<current, armed, halfDone>>
      BY <1>1, <2>1 DEF SaveTargets, Saved
    <3>2. /\ Saved(req[c], d).at = IF req[c].todo = {d} THEN "loading" ELSE "saving"
          /\ Saved(req[c], d).session = s /\ Saved(req[c], d).todo = req[c].todo \ {d}
      BY SavedFields
    <3>3. req'[c] = Saved(req[c], d)
      BY <1>0, <3>1, BecomesOthers
    <3> DEFINE D == {d}
    <3>4. current = s => \A e \in Device : e \in D \/ ToLoad(c, e) => ToLoad(c, e)'
      BY <3>1, <3>2, <3>3 DEF ToLoad
    <3>5. /\ \A z \in Session : z # s => targets'[z] = targets[z]
          /\ \A z \in Session : durable'[z] = targets'[z]
          /\ s \in Session => \A e \in Device : e \notin D => targets'[s][e] = targets[s][e]
      <4>1. /\ \A z \in Session : z # s => targets'[z] = targets[z]
            /\ s \in Session => \A e \in Device :
                  targets'[s][e] = IF e = d THEN req[c].setting ELSE targets[s][e]
        BY <1>0, <3>1, SaveLists
      <4> QED BY <3>1, <4>1 DEF Commit
    <3>6. current # NoSession /\ current = s => \A e \in Device :
             e \notin D => targets'[current][e] = targets[current][e]
      BY <1>0, <3>5
    <3> HIDE DEF D
    <3> QED BY <3>1, <3>4, <3>5, <3>6, WritesLoaded
  <2>2. CASE ~Exists(s)
    <3>1. /\ Still /\ Becomes(c, Idle) /\ UNCHANGED <<current, armed, halfDone>>
      BY <1>1, <2>2 DEF SaveTargets, Dies, Still
    <3>2. CASE current = NoSession
      BY <3>1, <3>2 DEF Loaded
    <3>3. CASE current # NoSession
      <4>1. \A e \in Device : ~ToLoad(c, e)
        BY <1>0, <2>2, <3>3 DEF ToLoad
      <4> QED BY <3>1, <4>1, PassesBy
    <3> QED BY <3>2, <3>3
  <2> QED BY <2>1, <2>2
<1>2. ASSUME NEW d \in Device, NEW half \in Setting \cup {NoSetting}, SaveTargetsFails(c, d, half)
      PROVE  Loaded'
  <2> DEFINE D == Device \ (req[c].todo \ {d})
  <2>1. /\ Abandon([targets EXCEPT ![s][d] = half]) /\ Becomes(c, Idle)
        /\ req[c].at = "saving" /\ Strands(s, D) /\ UNCHANGED <<current, armed>>
    BY <1>2 DEF SaveTargetsFails, Dies
  <2>2. \A e \in Device : ToLoad(c, e) => e \in D
    BY <2>1 DEF ToLoad
  <2>3. /\ \A z \in Session : z # s => targets'[z] = targets[z]
        /\ \A z \in Session : durable'[z] \in {durable[z], targets'[z]}
        /\ s \in Session => \A e \in Device : e \notin D => targets'[s][e] = targets[s][e]
    BY <2>1, SaveLists
  <2> HIDE DEF D
  <2> QED BY <1>0, <2>1, <2>2, <2>3, WritesLoaded
<1>3. CASE LoadTargets(c)
  <2>1. /\ \E r : Becomes(c, r)
        /\ Loads(s) /\ UNCHANGED <<current, targets, durable>> /\ Owed(c) = req[c].prior
        /\ armed' = [z \in Session |-> IF z = req[c].prior THEN NoTargets
                                       ELSE IF z = s THEN targets[z] ELSE armed[z]]
    BY <1>3 DEF LoadTargets, store, Owed
  <2>2. current # NoSession => current # req[c].prior
    BY <1>0, <2>1 DEF Debts, Ledger
  <2>3. current # NoSession => armed'[current] = IF s = current THEN targets[current]
                                                 ELSE armed[current]
    BY <1>0, <2>1, <2>2
  <2> QED BY <2>1, <2>3, LoadsLoaded
<1>4. CASE ReloadTargets(c)
  <2>1. /\ Becomes(c, Idle) /\ Loads(s) /\ UNCHANGED <<current, targets, durable>>
        /\ armed' = [armed EXCEPT ![s] = targets[s]]
    BY <1>4 DEF ReloadTargets, store
  <2>2. current # NoSession => armed'[current] = IF s = current THEN targets[current]
                                                 ELSE armed[current]
    BY <1>0, <2>1 DEF Parts, Watched
  <2> QED BY <2>1, <2>2, LoadsLoaded
<1>5. CASE WriteTargets(c)
  <2> DEFINE r == Request("reloading", s, NoSession, NoSetting, {})
  <2>1. CASE Exists(s) \/ req[c].setting = NoSetting
    <3>1. /\ Commit(WithList(s, req[c].todo, req[c].setting)) /\ Becomes(c, r)
          /\ UNCHANGED <<current, armed, halfDone>>
      BY <1>5, <2>1 DEF WriteTargets
    <3>2. r.at = "reloading" /\ r.session = s
      BY RequestFields
    <3> HIDE DEF r
    <3>3. req'[c] = r
      BY <1>0, <3>1, BecomesOthers
    <3>4. current = s => \A e \in Device : ToLoad(c, e)'
      BY <3>1, <3>2, <3>3 DEF ToLoad
    <3>5. /\ \A z \in Session : z # s => targets'[z] = targets[z]
          /\ \A z \in Session : durable'[z] = targets'[z]
      BY <1>0, <3>1, WriteLists DEF Commit
    <3>6. s \in Session => \A e \in Device : e \notin req[c].todo => targets'[s][e] = targets[s][e]
      BY <1>0, <3>1, WriteLists
    <3> QED BY <1>0, <3>1, <3>4, <3>5, <3>6, WritesLoaded
  <2>2. CASE ~Exists(s) /\ req[c].setting # NoSetting
    <3>1. /\ Still /\ Becomes(c, Idle) /\ UNCHANGED <<current, armed, halfDone>>
          /\ req[c].at = "writing"
      BY <1>5, <2>2 DEF WriteTargets, Dies, Still
    <3>2. \A e \in Device : ~ToLoad(c, e)
      BY <3>1 DEF ToLoad
    <3> QED BY <3>1, <3>2, PassesBy
  <2> QED BY <2>1, <2>2
<1>6. ASSUME NEW half \in Setting \cup {NoSetting}, WriteTargetsFails(c, half) PROVE Loaded'
  <2>1. /\ Abandon(WithList(s, req[c].todo, half)) /\ Becomes(c, Idle)
        /\ req[c].at = "writing" /\ Strands(s, req[c].todo) /\ UNCHANGED <<current, armed>>
    BY <1>6 DEF WriteTargetsFails, Dies
  <2>2. \A e \in Device : ~ToLoad(c, e)
    BY <2>1 DEF ToLoad
  <2>3. /\ \A z \in Session : z # s => targets'[z] = targets[z]
        /\ \A z \in Session : durable'[z] \in {durable[z], targets'[z]}
        /\ s \in Session => \A e \in Device : e \notin req[c].todo => targets'[s][e] = targets[s][e]
    BY <2>1, WriteLists
  <2> QED BY <1>0, <2>1, <2>2, <2>3, WritesLoaded
<1>7. CASE AnnounceStart(c) \/ WriteMember(c)
  <2>1. /\ Becomes(c, Idle) /\ Still /\ UNCHANGED <<current, armed, halfDone>>
        /\ req[c].at \in {"announcing", "adding"}
    BY <1>7 DEF AnnounceStart, WriteMember, store, told, Still
  <2>2. \A e \in Device : ~ToLoad(c, e)
    BY <2>1 DEF ToLoad
  <2> QED BY <2>1, <2>2, PassesBy
<1>8. CASE AnnounceEnd(c)
  <2>1. /\ Becomes(c, Idle) /\ Still /\ UNCHANGED <<current, halfDone>>
        /\ req[c].at = "ending" /\ Owed(c) = s /\ armed' = [armed EXCEPT ![s] = NoTargets]
    BY <1>8 DEF AnnounceEnd, store, Still, Clear, Owed
  <2>2. \A e \in Device : ~ToLoad(c, e)
    BY <2>1 DEF ToLoad
  <2>3. current # NoSession => current # s
    BY <1>0, <2>1 DEF Debts, Ledger
  <2>4. current # NoSession => armed'[current] = armed[current]
    BY <1>0, <2>1, <2>3 DEF Parts, Watched
  <2> QED BY <2>1, <2>2, <2>4, PassesBy
<1> QED BY <1>1, <1>2, <1>3, <1>4, <1>5, <1>6, <1>7, <1>8 DEF Continue

LEMMA LoadedStep == IInv /\ Loaded /\ [Next]_vars => Loaded'
<1> SUFFICES ASSUME IInv, Loaded, [Next]_vars PROVE Loaded'
  OBVIOUS
<1>1. ASSUME NEW d \in InRange, Worker(d) PROVE Loaded'
  BY <1>1, WorkerFrame, StillLoaded, ServerAssumption
<1>2. CASE Aside
  BY <1>2, AsideFrame, StillLoaded
<1>3. CASE Restart
  <2>1. /\ current' = current /\ targets' = durable /\ durable' = durable
        /\ armed' = [s \in Session |-> IF s = current THEN durable[s] ELSE NoTargets]
        /\ current # NoSession => current \in Session
    BY <1>3 DEF Restart, Rollback, IInv, TypeOK
  <2> QED BY <2>1 DEF Loaded, LoadedFor, CommittedFor
<1>4. CASE UNCHANGED vars
  BY <1>4 DEF vars, Loaded, LoadedFor, CommittedFor, ToLoad
<1> QED BY <1>1, <1>2, <1>3, <1>4, NewRequestLoaded, ContinueLoaded DEF Next, Worker, Aside

\* When the handlers are done with the active session the evaluator watches
\* for what the database has, whatever calls failed half-way, were committed
\* by others or were taken back: only the list of a device at which a handler
\* failed waits for the next load.
THEOREM WatchedAsStored == Spec => []ArmedAsStored
<1>1. Init => Loaded
  BY DEF Init, Loaded
<1>2. IInv /\ Loaded => ArmedAsStored
  BY DEF Loaded, LoadedFor, ToLoad, ArmedAsStored, Settled
<1> QED BY <1>1, <1>2, LoadedStep, Invariance, PTL DEF Spec


-----------------------------------------------------------------------------
(* The alarms of the active session.                                       *)

\* What a step does to the arms of a session that stays active
LEMMA ArmsOfActive ==
    ASSUME IInv, [Next]_vars, NEW s \in Session, s = current, s = current'
    PROVE  armed'[s] \in {armed[s], targets'[s]}
<1>0. /\ StoreTypes /\ Numbers /\ Watched /\ Ledger /\ Debts /\ s # NoSession
      /\ row[s] = "open"
  BY TypeParts, ServerAssumption DEF IInv, Session, NoSession, Ledger, Parts
<1>1. ASSUME NEW c \in Client, LoadTargets(c) PROVE armed'[s] \in {armed[s], targets'[s]}
  <2>1. /\ Owed(c) = req[c].prior /\ targets' = targets
        /\ armed' = [z \in Session |-> IF z = req[c].prior THEN NoTargets
                                       ELSE IF z = req[c].session THEN targets[z] ELSE armed[z]]
    BY <1>1 DEF LoadTargets, Owed, store
  <2>2. s # req[c].prior
    BY <1>0, <2>1 DEF Debts
  <2> QED BY <2>1, <2>2
<1>2. ASSUME NEW c \in Client, AnnounceEnd(c) PROVE armed'[s] \in {armed[s], targets'[s]}
  <2>1. Owed(c) = req[c].session /\ armed' = [armed EXCEPT ![req[c].session] = NoTargets]
    BY <1>2 DEF AnnounceEnd, Clear, Owed
  <2>2. s # req[c].session
    BY <1>0, <2>1 DEF Debts
  <2> QED BY <1>0, <2>1, <2>2 DEF Watched
<1>3. ASSUME NEW c \in Client, ReloadTargets(c) PROVE armed'[s] \in {armed[s], targets'[s]}
  BY <1>0, <1>3 DEF ReloadTargets, Watched, store
<1>4. CASE Restart
  BY <1>0, <1>4 DEF Restart, Rollback
<1>5. ASSUME NEW c \in Client, Continue(c), ~LoadTargets(c), ~AnnounceEnd(c), ~ReloadTargets(c)
      PROVE  armed' = armed
  BY <1>5 DEF Continue, SaveTargets, SaveTargetsFails, AnnounceStart, WriteTargets,
              WriteTargetsFails, WriteMember
<1>6. ASSUME NEW c \in Client, NewRequest(c) PROVE armed' = armed
  <2>1. ASSUME NEW devices \in SUBSET Device, NEW x \in Setting \cup {NoSetting},
               RequestStart(c, devices, x)
        PROVE  FALSE
    <3>1. current' = issued + 1 /\ issued \in Nat
      BY <1>0, <2>1 DEF RequestStart, Numbers
    <3>2. s > issued
      BY <3>1
    <3> QED BY <1>0, <3>2 DEF Ledger
  <2>2. ~ RequestEnd(c) /\ ~ RequestStartFails(c)
    BY <1>0 DEF RequestEnd, RequestStartFails
  <2>3. RequestDiscard(c) => armed' = armed
    BY <1>0 DEF RequestDiscard
  <2>4. \A d \in Device, x \in Setting \cup {NoSetting} :
            RequestTargetUpdate(c, d, x) \/ RequestAddDevice(c, d) => armed' = armed
    BY DEF RequestTargetUpdate, RequestAddDevice
  <2>5. Refuse(c) => armed' = armed
    BY DEF Refuse, vars
  <2> QED BY <1>6, <2>1, <2>2, <2>3, <2>4, <2>5 DEF NewRequest
<1>7. ASSUME NEW d \in InRange, Worker(d) PROVE armed' = armed
  BY <1>7, WorkerFrame, ServerAssumption
<1>8. CASE Aside
  BY <1>8, AsideFrame
<1>9. CASE UNCHANGED vars
  BY <1>9 DEF vars
<1> QED BY <1>1, <1>2, <1>3, <1>4, <1>5, <1>6, <1>7, <1>8, <1>9 DEF Next, Worker, Aside

\* The alarms of a session that goes on are silenced only by a target list
\* that no longer has them, never by the end of another session.
THEOREM StayArmed == Spec => AlarmsStayArmed
<1>1. IInv /\ [Next]_vars =>
        [\A s \in Session, d \in Device :
          /\ s = current /\ s = current'
          /\ armed[s][d] # NoSetting
          /\ armed'[s][d] = NoSetting
          => targets'[s][d] = NoSetting]_vars
  BY ArmsOfActive
<1> QED BY <1>1, Invariance, PTL DEF Spec, AlarmsStayArmed

-----------------------------------------------------------------------------
(* Every end is announced.                                                 *)

\* A session that is over was announced to be, or a handler owes that, or
\* one that failed did; and a handler that owes an end is not done.
InDebt(c) == req[c].at \in {"saving", "loading", "ending"}
Announced ==
    /\ \A c \in Client : Owed(c) # NoSession => InDebt(c)
    /\ \A s \in Session : s <= issued /\ row[s] # "open" =>
          over[s] = 1 \/ s \in lost \/ \E c \in Client : Owed(c) = s

\* A handler takes on the end of a session that it closes, or announces it,
\* and passes on the one it owed, or announces it, or loses it.
LEMMA AnnouncedOn ==
    ASSUME TypeOK, Announced, NEW c \in Client, NEW r, Becomes(c, r), lost \subseteq lost',
           \A s \in Session : s <= issued' /\ row'[s] # "open" =>
               \/ s <= issued /\ row[s] # "open" /\ (over[s] = 1 => over'[s] = 1)
               \/ over'[s] = 1 \/ Owed(c)' = s,
           \/ Owed(c) = NoSession \/ Owed(c)' = Owed(c) \/ Owed(c) \in lost'
           \/ over'[Owed(c)] = 1,
           Owed(c)' # NoSession => InDebt(c)'
    PROVE  Announced'
<1>0. \A e \in Client : e # c => req'[e] = req[e] /\ Owed(e)' = Owed(e)
  BY BecomesOthers
<1>1. \A e \in Client : Owed(e)' # NoSession => InDebt(e)'
  BY <1>0 DEF Announced, InDebt
<1>2. ASSUME NEW s \in Session, s <= issued', row'[s] # "open"
      PROVE  over'[s] = 1 \/ s \in lost' \/ \E e \in Client : Owed(e)' = s
  <2>1. CASE over'[s] = 1 \/ Owed(c)' = s
    BY <2>1
  <2>2. CASE s <= issued /\ row[s] # "open" /\ (over[s] = 1 => over'[s] = 1)
    <3>1. over[s] = 1 \/ s \in lost \/ \E e \in Client : Owed(e) = s
      BY <2>2 DEF Announced
    <3>2. s # NoSession
      BY ServerAssumption DEF Session, NoSession
    <3> QED BY <1>0, <2>2, <3>1, <3>2
  <2> QED BY <1>2, <2>1, <2>2
<1> QED BY <1>1, <1>2 DEF Announced

\* A step that closes no session
LEMMA NoneCloses ==
    ASSUME TypeOK, Announced, NEW c \in Client, NEW r, Becomes(c, r), lost \subseteq lost',
           UNCHANGED <<row, issued>>,
           \A s \in Session : over[s] = 1 => over'[s] = 1,
           \/ Owed(c) = NoSession \/ Owed(c)' = Owed(c) \/ Owed(c) \in lost'
           \/ over'[Owed(c)] = 1,
           Owed(c)' # NoSession => InDebt(c)'
    PROVE  Announced'
BY AnnouncedOn

\* The announcement of an end that was not announced
LEMMA OverNow ==
    ASSUME TypeOK, NEW s \in Session, over[s] = 0, AnnounceOver(s)
    PROVE  over'[s] = 1 /\ \A z \in Session : over[z] = 1 => over'[z] = 1
BY DEF TypeOK, AnnounceOver

\* An idle handler owes nothing.
LEMMA IdleOwes ==
    ASSUME Announced, NEW c \in Client, req[c].at \in {"idle", "announcing", "writing", "reloading", "adding"}
    PROVE  Owed(c) = NoSession
BY DEF Announced, InDebt

LEMMA NewRequestAnnounced ==
    ASSUME IInv, Announced, NEW c \in Client, NewRequest(c)
    PROVE  Announced'
<1>0. /\ TypeOK /\ issued \in Nat /\ row \in [Session -> {"absent", "open", "ended"}]
      /\ current \in Session \cup {NoSession} /\ \A z \in Session : z \in Nat
  BY SessionNumbers DEF IInv, TypeOK
<1>1. ASSUME NEW devices \in SUBSET Device, NEW x \in Setting \cup {NoSetting},
             RequestStart(c, devices, x)
      PROVE  Announced'
  <2> DEFINE s == issued + 1
             r == IF x = NoSetting THEN Request("announcing", s, NoSession, NoSetting, {})
                  ELSE Request("saving", s, current, x, devices)
  <2>1. /\ Becomes(c, r) /\ lost' = lost /\ issued' = issued + 1 /\ req[c].at = "idle"
        /\ row' = [z \in Session |-> IF z = s THEN "open"
                                     ELSE IF z = current THEN "ended" ELSE row[z]]
        /\ IF x = NoSetting THEN CloseOff(current) ELSE over' = over
    BY <1>1 DEF RequestStart
  <2>2. /\ r.at = IF x = NoSetting THEN "announcing" ELSE "saving"
        /\ r.prior = IF x = NoSetting THEN NoSession ELSE current
    BY RequestFields
  <2> HIDE DEF r
  <2>3. Owed(c)' = r.prior /\ (Owed(c)' # NoSession => InDebt(c)')
    <3>1. req'[c] = r /\ r.at # "ending"
      BY <1>0, <2>1, <2>2, BecomesOthers
    <3> QED BY <2>1, <2>2, <3>1 DEF Owed, InDebt
  <2>4. Owed(c) = NoSession
    BY <2>1, IdleOwes
  <2>5. /\ \A z \in Session : over[z] = 1 => over'[z] = 1
        /\ current # NoSession => over'[current] = 1 \/ Owed(c)' = current
    <3>1. CASE x = NoSetting /\ current # NoSession
      BY <1>0, <2>1, <3>1, ActiveFacts, OverNow DEF CloseOff
    <3>2. CASE x = NoSetting /\ current = NoSession
      BY <2>1, <3>2 DEF CloseOff
    <3>3. CASE x # NoSetting
      BY <2>1, <2>2, <2>3, <3>3
    <3> QED BY <3>1, <3>2, <3>3
  <2>6. \A z \in Session : z <= issued' /\ row'[z] # "open" =>
               \/ z <= issued /\ row[z] # "open" /\ (over[z] = 1 => over'[z] = 1)
               \/ over'[z] = 1 \/ Owed(c)' = z
    <3> SUFFICES ASSUME NEW z \in Session, z <= issued', row'[z] # "open", z # current
                 PROVE  z <= issued /\ row[z] # "open" /\ (over[z] = 1 => over'[z] = 1)
      BY <1>0, <2>5, ServerAssumption DEF Session, NoSession
    <3>1. z # s /\ row'[z] = row[z]
      BY <2>1
    <3> QED BY <1>0, <2>1, <2>5, <3>1
  <2> QED BY <1>0, <2>1, <2>3, <2>4, <2>6, AnnouncedOn
<1>2. CASE RequestStartFails(c)
  <2>1. /\ Becomes(c, Idle) /\ over' = over /\ issued' = issued /\ req[c].at = "idle"
        /\ IF current = NoSession THEN UNCHANGED <<row, lost>>
           ELSE row' = [row EXCEPT ![current] = "ended"] /\ lost' = lost \cup {current}
    BY <1>2 DEF RequestStartFails, Dies
  <2>2. Owed(c)' = NoSession /\ Owed(c) = NoSession
    BY <1>0, <2>1, BecomesOthers, IdleFields, IdleOwes DEF Owed
  <2>3. CASE current = NoSession
    BY <1>0, <2>1, <2>2, <2>3, NoneCloses
  <2>4. CASE current # NoSession
    <3>1. ASSUME NEW z \in Session, z <= issued', row'[z] # "open"
          PROVE  over'[z] = 1 \/ z \in lost' \/ \E e \in Client : Owed(e)' = z
      <4>1. CASE z = current
        BY <2>1, <2>4, <4>1
      <4>2. CASE z # current
        <5>1. row'[z] = row[z] /\ lost \subseteq lost'
          BY <1>0, <2>1, <2>4, <4>2
        <5>2. over[z] = 1 \/ z \in lost \/ \E e \in Client : Owed(e) = z
          BY <2>1, <3>1, <5>1 DEF Announced
        <5>3. \A e \in Client : Owed(e)' = Owed(e)
          BY <1>0, <2>1, <2>2, BecomesOthers
        <5> QED BY <2>1, <5>1, <5>2, <5>3
      <4> QED BY <4>1, <4>2
    <3>2. \A e \in Client : Owed(e)' # NoSession => InDebt(e)'
      BY <1>0, <2>1, <2>2, BecomesOthers DEF Announced, InDebt
    <3> QED BY <3>1, <3>2 DEF Announced
  <2> QED BY <2>3, <2>4
<1>3. CASE RequestEnd(c)
  <2> DEFINE r == Request("ending", current, NoSession, NoSetting, {})
  <2>1. /\ Becomes(c, r) /\ over' = over /\ lost' = lost /\ issued' = issued
        /\ req[c].at = "idle" /\ current # NoSession
        /\ row' = [row EXCEPT ![current] = "ended"]
    BY <1>3 DEF RequestEnd
  <2>2. r.at = "ending" /\ r.session = current
    BY RequestFields
  <2> HIDE DEF r
  <2>3. Owed(c)' = current /\ InDebt(c)' /\ Owed(c) = NoSession
    <3>1. req'[c] = r
      BY <1>0, <2>1, BecomesOthers
    <3> QED BY <2>1, <2>2, <3>1, IdleOwes DEF Owed, InDebt
  <2>4. \A z \in Session : z # current => row'[z] = row[z]
    BY <1>0, <2>1
  <2> QED BY <1>0, <2>1, <2>3, <2>4, AnnouncedOn
<1>4. CASE RequestDiscard(c)
  <2>1. req[c].at = "idle" /\ Owed(c) = NoSession /\ current # NoSession
    BY <1>4, IdleOwes DEF RequestDiscard
  <2>2. CASE failedTxn
    <3>1. Becomes(c, Idle) /\ UNCHANGED <<row, issued, over, lost>>
      BY <1>4, <2>2 DEF RequestDiscard, Dies
    <3>2. Owed(c)' = NoSession
      BY <1>0, <3>1, BecomesOthers, IdleFields DEF Owed
    <3> QED BY <1>0, <2>1, <3>1, <3>2, NoneCloses
  <2>3. CASE ~failedTxn
    <3>1. /\ row' = [row EXCEPT ![current] = "absent"] /\ AnnounceOver(current)
          /\ req' = req /\ issued' = issued /\ lost' = lost
      BY <1>4, <2>3 DEF RequestDiscard
    <3>2. Becomes(c, req[c])
      BY <1>0, <3>1 DEF Becomes, TypeOK
    <3>3. Owed(c)' = NoSession
      BY <2>1, <3>1 DEF Owed
    <3>4. /\ \A z \in Session : z # current => row'[z] = row[z]
          /\ over'[current] = 1 /\ \A z \in Session : over[z] = 1 => over'[z] = 1
      BY <1>0, <2>1, <3>1, ActiveFacts, OverNow
    <3> QED BY <1>0, <2>1, <3>1, <3>2, <3>3, <3>4, AnnouncedOn
  <2> QED BY <2>2, <2>3
<1>5. ASSUME NEW d \in Device, NEW x \in Setting \cup {NoSetting},
             RequestTargetUpdate(c, d, x) \/ RequestAddDevice(c, d)
      PROVE  Announced'
  <2>1. PICK r : /\ Becomes(c, r) /\ r.at \in {"writing", "adding"} /\ r.prior = NoSession
                 /\ UNCHANGED <<row, issued, over, lost>> /\ req[c].at = "idle"
    <3>1. CASE RequestTargetUpdate(c, d, x)
      BY <3>1, RequestFields DEF RequestTargetUpdate, store, told
    <3>2. CASE RequestAddDevice(c, d)
      BY <3>2, RequestFields DEF RequestAddDevice, store, told
    <3> QED BY <1>5, <3>1, <3>2
  <2>2. Owed(c)' = NoSession /\ Owed(c) = NoSession
    BY <1>0, <2>1, BecomesOthers, IdleOwes DEF Owed
  <2> QED BY <1>0, <2>1, <2>2, NoneCloses
<1>6. CASE Refuse(c)
  BY <1>6 DEF Refuse, vars, Announced, Owed, InDebt
<1> QED BY <1>1, <1>2, <1>3, <1>4, <1>5, <1>6 DEF NewRequest

LEMMA ContinueAnnounced ==
    ASSUME IInv, Announced, NEW c \in Client, Continue(c)
    PROVE  Announced'
<1>0. /\ TypeOK /\ Debts /\ Owed(c) \in Session \cup {NoSession}
      /\ Owed(c) # NoSession => over[Owed(c)] = 0
  BY InProgress DEF IInv, Debts
<1>1. ASSUME NEW d \in Device, SaveTargets(c, d) PROVE Announced'
  <2>1. /\ req[c].at = "saving" /\ Owed(c) = req[c].prior /\ UNCHANGED <<row, issued, over>>
    BY <1>1 DEF SaveTargets, Owed
  <2>2. CASE Exists(req[c].session)
    <3>1. Becomes(c, Saved(req[c], d)) /\ lost' = lost
      BY <1>1, <2>2 DEF SaveTargets, Saved
    <3>2. Saved(req[c], d).at \in {"saving", "loading"} /\ Saved(req[c], d).prior = req[c].prior
      BY SavedFields
    <3>3. Owed(c)' = Owed(c) /\ InDebt(c)'
      <4>1. req'[c] = Saved(req[c], d)
        BY <1>0, <3>1, BecomesOthers
      <4> QED BY <2>1, <3>2, <4>1 DEF Owed, InDebt
    <3> QED BY <1>0, <2>1, <3>1, <3>3, NoneCloses
  <2>3. CASE ~Exists(req[c].session)
    <3>1. Becomes(c, Idle) /\ lost' = lost \cup ({Owed(c)} \ {NoSession})
      BY <1>1, <2>1, <2>3 DEF SaveTargets, Dies
    <3>2. Owed(c)' = NoSession
      BY <1>0, <3>1, BecomesOthers, IdleFields DEF Owed
    <3> QED BY <1>0, <2>1, <3>1, <3>2, NoneCloses
  <2> QED BY <2>2, <2>3
<1>2. ASSUME NEW d \in Device, NEW half \in Setting \cup {NoSetting}, SaveTargetsFails(c, d, half)
      PROVE  Announced'
  <2>1. /\ Owed(c) = req[c].prior /\ UNCHANGED <<row, issued, over>> /\ Becomes(c, Idle)
        /\ lost' = lost \cup ({req[c].prior} \ {NoSession})
    BY <1>2 DEF SaveTargetsFails, Owed, Dies
  <2>2. Owed(c)' = NoSession
    BY <1>0, <2>1, BecomesOthers, IdleFields DEF Owed
  <2> QED BY <1>0, <2>1, <2>2, NoneCloses
<1>3. CASE LoadTargets(c)
  <2> DEFINE r == Request("announcing", req[c].session, NoSession, NoSetting, {})
  <2>1. /\ Becomes(c, r) /\ Owed(c) = req[c].prior /\ UNCHANGED <<row, issued, lost>>
        /\ IF Owed(c) = NoSession THEN over' = over ELSE AnnounceOver(Owed(c))
    BY <1>3 DEF LoadTargets, Owed, store
  <2>2. Owed(c)' = NoSession
    <3>1. req'[c] = r /\ r.at = "announcing" /\ r.prior = NoSession
      BY <1>0, <2>1, BecomesOthers, RequestFields
    <3> HIDE DEF r
    <3> QED BY <3>1 DEF Owed
  <2> HIDE DEF r
  <2> QED BY <1>0, <2>1, <2>2, OverNow, NoneCloses
<1>4. CASE AnnounceEnd(c)
  <2>1. /\ Becomes(c, Idle) /\ Owed(c) = req[c].session /\ UNCHANGED <<row, issued, lost>>
        /\ AnnounceOver(Owed(c))
    BY <1>4 DEF AnnounceEnd, Owed, store
  <2>2. Owed(c)' = NoSession
    BY <1>0, <2>1, BecomesOthers, IdleFields DEF Owed
  <2>3. Owed(c) = NoSession => over' = over
    BY <1>0, <2>1, ServerAssumption DEF AnnounceOver, TypeOK, Session, NoSession
  <2> QED BY <1>0, <2>1, <2>2, <2>3, OverNow, NoneCloses
<1>5. ASSUME AnnounceStart(c) \/ WriteTargets(c) \/ ReloadTargets(c) \/ WriteMember(c)
             \/ \E half \in Setting \cup {NoSetting} : WriteTargetsFails(c, half)
      PROVE  Announced'
  <2>1. PICK r : /\ Becomes(c, r) /\ r.at \in {"idle", "reloading"} /\ r.prior = NoSession
                 /\ UNCHANGED <<row, issued, over, lost>>
                 /\ req[c].at \in {"announcing", "writing", "reloading", "adding"}
    <3>1. CASE WriteTargets(c)
      BY <3>1, RequestFields, IdleFields DEF WriteTargets, Dies, told
    <3>2. CASE AnnounceStart(c) \/ ReloadTargets(c) \/ WriteMember(c)
               \/ \E half \in Setting \cup {NoSetting} : WriteTargetsFails(c, half)
      BY <3>2, IdleFields DEF AnnounceStart, ReloadTargets, WriteMember, WriteTargetsFails, Dies,
                              store, told
    <3> QED BY <1>5, <3>1, <3>2
  <2>2. Owed(c)' = NoSession
    BY <1>0, <2>1, BecomesOthers DEF Owed
  <2>3. Owed(c) = NoSession
    BY <2>1, IdleOwes
  <2> QED BY <1>0, <2>1, <2>2, <2>3, NoneCloses
<1> QED BY <1>1, <1>2, <1>3, <1>4, <1>5 DEF Continue

LEMMA AnnouncedStep == IInv /\ Announced /\ [Next]_vars => Announced'
<1> SUFFICES ASSUME IInv, Announced, [Next]_vars PROVE Announced'
  OBVIOUS
<1>1. ASSUME UNCHANGED <<row, issued, req, over, lost>> PROVE Announced'
  BY <1>1 DEF Announced, Owed, InDebt
<1>2. ASSUME NEW d \in InRange, Worker(d) PROVE Announced'
  BY <1>1, <1>2, WorkerFrame, ServerAssumption
<1>3. CASE Aside
  BY <1>1, <1>3, AsideFrame
<1>4. CASE Restart
  <2>1. /\ UNCHANGED <<row, issued, over>> /\ req' = [c \in Client |-> Idle]
        /\ lost' = lost \cup ({Owed(c) : c \in Client} \ {NoSession})
    BY <1>4 DEF Restart
  <2>2. \A c \in Client : Owed(c)' = NoSession
    BY <2>1, IdleFields DEF Owed
  <2>3. ASSUME NEW s \in Session, s <= issued', row'[s] # "open"
        PROVE  over'[s] = 1 \/ s \in lost'
    <3>1. s # NoSession
      BY ServerAssumption DEF Session, NoSession
    <3> QED BY <2>1, <2>3, <3>1 DEF Announced
  <2> QED BY <2>2, <2>3 DEF Announced
<1>5. CASE UNCHANGED vars
  BY <1>1, <1>5 DEF vars
<1> QED BY <1>2, <1>3, <1>4, <1>5, NewRequestAnnounced, ContinueAnnounced DEF Next, Worker, Aside

-----------------------------------------------------------------------------
(* A browser follows the active session.                                   *)

\* What the handler of c has to announce is how things are.
Current(c) ==
    IF req[c].at = "ending" THEN current = NoSession
    ELSE current # NoSession /\ req[c].session = current

\* If the broadcasts of the last change met no other handler's, at most one
\* handler has something to announce, which is the change; and if there is
\* none, it has been announced.
Follows ==
    ~garbled =>
        /\ \A c, e \in Client : Owes(c) /\ Owes(e) => c = e
        /\ \A c \in Client : Owes(c) => Current(c)
        /\ (\A c \in Client : ~Owes(c)) => shown = current

\* A handler that changes the active session, or announces the last change
\* of it, while no other has anything to announce
LEMMA FollowsAlone ==
    ASSUME TypeOK, NEW c \in Client, NEW r, Becomes(c, r),
           ~garbled' => \A e \in Client \ {c} : ~Owes(e),
           Owes(c)' => Current(c)',
           Owes(c)' \/ shown' = current'
    PROVE  Follows'
<1>1. \A e \in Client : e # c => req'[e] = req[e]
  BY BecomesOthers
<1>2. ~garbled' => \A e \in Client : e # c => ~Owes(e)'
  BY <1>1 DEF Owes
<1> QED BY <1>2 DEF Follows

\* A handler that changes nothing that is shown and announces nothing
LEMMA FollowsOn ==
    ASSUME TypeOK, Follows, NEW c \in Client, NEW r, Becomes(c, r),
           UNCHANGED <<current, garbled>>,
           Owes(c)' <=> Owes(c),
           Owes(c) => /\ r.session = req[c].session
                      /\ r.at = "ending" <=> req[c].at = "ending",
           Owes(c) \/ shown' = shown
    PROVE  Follows'
<1>0. req'[c] = r /\ \A e \in Client : e # c => req'[e] = req[e]
  BY BecomesOthers
<1>1. \A e \in Client : (Owes(e)' <=> Owes(e)) /\ (Owes(e) => (Current(e)' <=> Current(e)))
  <2>1. Owes(c) => (Current(c)' <=> Current(c))
    BY <1>0 DEF Current
  <2>2. \A e \in Client : e # c => (Owes(e)' <=> Owes(e)) /\ (Current(e)' <=> Current(e))
    BY <1>0 DEF Owes, Current
  <2> QED BY <2>1, <2>2
<1> QED BY <1>1 DEF Follows

\* Between its requests, and while it edits, a handler has nothing to
\* announce.
LEMMA NotOwing ==
    ASSUME NEW c \in Client
    PROVE  /\ req[c].at \in {"idle", "writing", "reloading", "adding"} => ~Owes(c)
           /\ req'[c].at \in {"idle", "writing", "reloading", "adding"} => ~Owes(c)'
BY DEF Owes

LEMMA NewRequestFollows ==
    ASSUME IInv, Follows, NEW c \in Client, NewRequest(c)
    PROVE  Follows'
<1>0. TypeOK /\ Idle.at = "idle"
  BY IdleFields DEF IInv
<1>1. ASSUME NEW devices \in SUBSET Device, NEW x \in Setting \cup {NoSetting},
             RequestStart(c, devices, x)
      PROVE  Follows'
  <2> DEFINE s == issued + 1
             r == IF x = NoSetting THEN Request("announcing", s, NoSession, NoSetting, {})
                  ELSE Request("saving", s, current, x, devices)
  <2>1. Becomes(c, r) /\ current' = s /\ ChangesSession(c)
    BY <1>1 DEF RequestStart
  <2>2. r.at \in {"saving", "announcing"} /\ r.session = s
    BY RequestFields
  <2>3. s # NoSession
    BY <1>0, ServerAssumption DEF TypeOK, NoSession
  <2> HIDE DEF r, s
  <2>4. req'[c] = r
    BY <1>0, <2>1, BecomesOthers
  <2>5. Owes(c)' /\ Current(c)'
    BY <2>1, <2>2, <2>3, <2>4 DEF Owes, Current
  <2>6. ~garbled' => \A e \in Client \ {c} : ~Owes(e)
    BY <2>1 DEF ChangesSession
  <2> QED BY <1>0, <2>1, <2>5, <2>6, FollowsAlone
<1>2. CASE RequestStartFails(c)
  <2>1. /\ Becomes(c, Idle) /\ req[c].at = "idle" /\ shown' = shown /\ current' = NoSession
        /\ IF current = NoSession THEN garbled' = garbled ELSE garbled'
    BY <1>2 DEF RequestStartFails, Dies
  <2>2. ~Owes(c) /\ ~Owes(c)'
    BY <1>0, <2>1, BecomesOthers, NotOwing
  <2>3. CASE current = NoSession
    BY <1>0, <2>1, <2>2, <2>3, FollowsOn
  <2>4. CASE current # NoSession
    BY <2>1, <2>4 DEF Follows
  <2> QED BY <2>3, <2>4
<1>3. CASE RequestEnd(c)
  <2> DEFINE r == Request("ending", current, NoSession, NoSetting, {})
  <2>1. Becomes(c, r) /\ current' = NoSession /\ ChangesSession(c)
    BY <1>3 DEF RequestEnd
  <2>2. r.at = "ending"
    BY RequestFields
  <2> HIDE DEF r
  <2>3. req'[c] = r
    BY <1>0, <2>1, BecomesOthers
  <2>4. Owes(c)' /\ Current(c)'
    BY <2>1, <2>2, <2>3 DEF Owes, Current
  <2>5. ~garbled' => \A e \in Client \ {c} : ~Owes(e)
    BY <2>1 DEF ChangesSession
  <2> QED BY <1>0, <2>1, <2>4, <2>5, FollowsAlone
<1>4. CASE RequestDiscard(c)
  <2>1. CASE failedTxn
    <3>1. /\ Becomes(c, Idle) /\ req[c].at = "idle" /\ UNCHANGED <<current, shown, garbled>>
      BY <1>4, <2>1 DEF RequestDiscard, Dies
    <3>2. ~Owes(c) /\ ~Owes(c)'
      BY <1>0, <3>1, BecomesOthers, NotOwing
    <3> QED BY <1>0, <3>1, <3>2, FollowsOn
  <2>2. CASE ~failedTxn
    <3>1. /\ req' = req /\ current' = NoSession /\ shown' = NoSession /\ req[c].at = "idle"
          /\ ChangesSession(c)
      BY <1>4, <2>2 DEF RequestDiscard, AnnounceOver
    <3>2. ~Owes(c)' /\ Becomes(c, req[c])
      BY <1>0, <3>1, NotOwing DEF Becomes, TypeOK
    <3>3. ~garbled' => \A e \in Client \ {c} : ~Owes(e)
      BY <3>1 DEF ChangesSession
    <3> QED BY <1>0, <3>1, <3>2, <3>3, FollowsAlone
  <2> QED BY <2>1, <2>2
<1>5. ASSUME NEW d \in Device, NEW x \in Setting \cup {NoSetting},
             RequestTargetUpdate(c, d, x) \/ RequestAddDevice(c, d)
      PROVE  Follows'
  <2>1. PICK r : /\ Becomes(c, r) /\ r.at \in {"writing", "adding"} /\ req[c].at = "idle"
                 /\ UNCHANGED <<current, shown, garbled>>
    <3>1. CASE RequestTargetUpdate(c, d, x)
      BY <3>1, RequestFields DEF RequestTargetUpdate, store, told
    <3>2. CASE RequestAddDevice(c, d)
      BY <3>2, RequestFields DEF RequestAddDevice, store, told
    <3> QED BY <1>5, <3>1, <3>2
  <2>2. ~Owes(c) /\ ~Owes(c)'
    BY <1>0, <2>1, BecomesOthers, NotOwing
  <2> QED BY <1>0, <2>1, <2>2, FollowsOn
<1>6. CASE Refuse(c)
  BY <1>6 DEF Refuse, vars, Follows, Owes, Current
<1> QED BY <1>1, <1>2, <1>3, <1>4, <1>5, <1>6 DEF NewRequest

LEMMA ContinueFollows ==
    ASSUME IInv, Follows, NEW c \in Client, Continue(c)
    PROVE  Follows'
<1>0. TypeOK /\ Ledger /\ Idle.at = "idle"
  BY IdleFields DEF IInv
<1>1. ASSUME ~garbled, Owes(c)
      PROVE  Current(c) /\ \A e \in Client \ {c} : ~Owes(e)
  BY <1>1 DEF Follows
<1>2. ASSUME garbled, garbled' = garbled PROVE Follows'
  BY <1>2 DEF Follows
<1>3. ASSUME NEW d \in Device, SaveTargets(c, d) PROVE Follows'
  <2>1. req[c].at = "saving" /\ UNCHANGED <<current, shown, garbled>> /\ Owes(c)
    BY <1>3 DEF SaveTargets, Owes
  <2>2. CASE Exists(req[c].session)
    <3>1. Becomes(c, Saved(req[c], d))
      BY <1>3, <2>2 DEF SaveTargets, Saved
    <3>2. /\ Saved(req[c], d).at \in {"loading", "saving"}
          /\ Saved(req[c], d).session = req[c].session
      BY SavedFields
    <3>3. Owes(c)'
      BY <1>0, <3>1, <3>2, BecomesOthers DEF Owes
    <3>4. (Owes(c)' <=> Owes(c)) /\ (Saved(req[c], d).at = "ending" <=> req[c].at = "ending")
      BY <2>1, <3>2, <3>3 DEF Owes
    <3> QED BY <1>0, <2>1, <3>1, <3>2, <3>4, FollowsOn
  <2>3. CASE ~Exists(req[c].session) /\ ~garbled
    <3>1. req[c].session = current /\ current # NoSession
      BY <1>1, <2>1, <2>3 DEF Current
    <3> QED BY <1>0, <2>3, <3>1 DEF Ledger, Exists
  <2> QED BY <1>2, <2>1, <2>2, <2>3, <1>0 DEF TypeOK
<1>4. ASSUME NEW d \in Device, NEW half \in Setting \cup {NoSetting}, SaveTargetsFails(c, d, half)
      PROVE  Follows'
  BY <1>4 DEF SaveTargetsFails, Follows
<1>5. CASE LoadTargets(c)
  <2> DEFINE r == Request("announcing", req[c].session, NoSession, NoSetting, {})
  <2>1. /\ Becomes(c, r) /\ UNCHANGED <<current, garbled>> /\ req[c].at = "loading" /\ Owes(c)
    BY <1>5 DEF LoadTargets, store, Owes
  <2>2. r.at = "announcing" /\ r.session = req[c].session
    BY RequestFields
  <2> HIDE DEF r
  <2>3. Owes(c)'
    BY <1>0, <2>1, <2>2, BecomesOthers DEF Owes
  <2>4. Owes(c)' <=> Owes(c)
    BY <2>1, <2>3 DEF Owes
  <2> QED BY <1>0, <2>1, <2>2, <2>4, FollowsOn
<1>6. CASE AnnounceStart(c) \/ AnnounceEnd(c)
  <2>1. /\ Becomes(c, Idle) /\ UNCHANGED <<current, garbled>> /\ Owes(c)
        /\ shown' = IF req[c].at = "ending" THEN NoSession ELSE req[c].session
    BY <1>6 DEF AnnounceStart, AnnounceEnd, AnnounceOver, store, Owes
  <2>2. ~Owes(c)'
    BY <1>0, <2>1, BecomesOthers, NotOwing
  <2>3. CASE ~garbled
    <3>1. shown' = current'
      BY <1>1, <2>1, <2>3 DEF Current
    <3>2. ~garbled' => \A e \in Client \ {c} : ~Owes(e)
      BY <1>1, <2>1
    <3> QED BY <1>0, <2>1, <2>2, <3>1, <3>2, FollowsAlone
  <2> QED BY <1>2, <2>1, <2>3, <1>0 DEF TypeOK
<1>7. ASSUME WriteTargets(c) \/ ReloadTargets(c) \/ WriteMember(c)
             \/ \E half \in Setting \cup {NoSetting} : WriteTargetsFails(c, half)
      PROVE  Follows'
  <2>1. PICK r : /\ Becomes(c, r) /\ r.at \in {"idle", "reloading"}
                 /\ UNCHANGED <<current, shown, garbled>>
                 /\ req[c].at \in {"writing", "reloading", "adding"}
    <3>1. CASE WriteTargets(c)
      BY <3>1, RequestFields, IdleFields DEF WriteTargets, Dies, told
    <3>2. CASE ReloadTargets(c) \/ WriteMember(c)
               \/ \E half \in Setting \cup {NoSetting} : WriteTargetsFails(c, half)
      BY <3>2, IdleFields DEF ReloadTargets, WriteMember, WriteTargetsFails, Dies, store, told
    <3> QED BY <1>7, <3>1, <3>2
  <2>2. ~Owes(c) /\ ~Owes(c)'
    BY <1>0, <2>1, BecomesOthers, NotOwing
  <2> QED BY <1>0, <2>1, <2>2, FollowsOn
<1> QED BY <1>3, <1>4, <1>5, <1>6, <1>7 DEF Continue

LEMMA FollowsStep == IInv /\ Follows /\ [Next]_vars => Follows'
<1> SUFFICES ASSUME IInv, Follows, [Next]_vars PROVE Follows'
  OBVIOUS
<1>1. ASSUME UNCHANGED <<req, shown, current, garbled>> PROVE Follows'
  BY <1>1 DEF Follows, Owes, Current
<1>2. ASSUME NEW d \in InRange, Worker(d) PROVE Follows'
  BY <1>1, <1>2, WorkerFrame, ServerAssumption
<1>3. CASE Aside
  BY <1>1, <1>3, AsideFrame
<1>4. CASE Restart
  <2>1. shown' = current' /\ \A c \in Client : req'[c] = Idle
    BY <1>4 DEF Restart
  <2> QED BY <2>1, IdleFields DEF Follows, Owes
<1>5. CASE UNCHANGED vars
  BY <1>1, <1>5 DEF vars
<1> QED BY <1>2, <1>3, <1>4, <1>5, NewRequestFollows, ContinueFollows DEF Next, Worker, Aside

\* Whatever handlers of whatever clients interleave, whichever of them fail
\* and whenever the process restarts: when no handler has a change to
\* announce, every session that is over was announced to be by a handler,
\* unless the one that had to failed, and a browser that follows the
\* broadcasts shows the active session, unless those of its last change met
\* another handler's or were lost.
THEOREM BrowserFollows == Spec => []BroadcastsTell
<1>1. Init => Announced /\ Follows
  <2>1. Init => Announced
    <3>1. Init => \A c \in Client : Owed(c) = NoSession
      BY IdleFields DEF Init, Owed
    <3>2. Init => \A s \in Session : ~ (s <= issued)
      BY ServerAssumption DEF Init, Session
    <3> QED BY <3>1, <3>2 DEF Announced
  <2>2. Init => Follows
    BY IdleFields DEF Init, Follows, Owes
  <2> QED BY <2>1, <2>2
<1>2. IInv /\ Announced /\ Follows => BroadcastsTell
  <2> SUFFICES ASSUME IInv, Announced, Follows, \A c \in Client : ~Owes(c)
               PROVE  /\ \A s \in (1..issued) \ lost : row[s] # "open" => over[s] = 1
                      /\ garbled \/ shown = current
    BY DEF BroadcastsTell
  <2>1. garbled \/ shown = current
    BY DEF Follows, IInv, TypeOK
  <2>2. \A c \in Client : Owed(c) = NoSession
    BY DEF Announced, InDebt, Owes
  <2>3. ASSUME NEW s \in (1..issued) \ lost, row[s] # "open" PROVE over[s] = 1
    <3>1. s \in Session /\ s <= issued /\ s # NoSession
      BY ServerAssumption DEF IInv, TypeOK, Session, NoSession
    <3> QED BY <2>2, <2>3, <3>1 DEF Announced
  <2> QED BY <2>1, <2>3
<1> QED BY <1>1, <1>2, AnnouncedStep, FollowsStep, Invariance, PTL DEF Spec

-----------------------------------------------------------------------------
(* What a late handler or worker leaves behind.                            *)

\* Nothing is stored of session s.
Gone(s) ==
    /\ member[s] = [d \in Device |-> "none"]
    /\ targets[s] = NoTargets /\ durable[s] = NoTargets
    /\ readings[s] = {}

\* A session that does not exist, because it was discarded or has not
\* started, has no rows: neither a handler nor a worker that read its id
\* before it was discarded adds one after, nor does a rollback bring one back.
NoOrphans == \A s \in Session : row[s] = "absent" => Gone(s)

\* A step that adds nothing of session s to what is stored or taken back
Kept(s) ==
    /\ member'[s] = member[s] /\ readings'[s] = readings[s]
    /\ targets'[s] \in {targets[s], durable[s]}
    /\ durable'[s] \in {targets[s], durable[s]}

LEMMA KeptGone ==
    ASSUME NoOrphans, NEW s \in Session, row[s] = "absent", Kept(s)
    PROVE  Gone(s)'
BY DEF NoOrphans, Gone, Kept

\* A call that leaves the lists alone, or takes back what is not committed
LEMMA StillKeeps ==
    ASSUME TypeOK, Still \/ Rollback, NEW s \in Session,
           member'[s] = member[s], readings'[s] = readings[s]
    PROVE  Kept(s)
BY StillLists, RollbackLists, TypeParts DEF Parts, Kept

LEMMA NewRequestOrphans ==
    ASSUME IInv, NoOrphans, NEW c \in Client, NewRequest(c), NEW s \in Session, row'[s] = "absent"
    PROVE  Gone(s)'
<1>0. /\ TypeOK /\ row \in [Session -> {"absent", "open", "ended"}]
      /\ member \in [Session -> [Device -> {"none", "in", "left"}]]
      /\ targets \in [Session -> TargetMap]
      /\ readings \in [Session -> SUBSET Device]
      /\ current \in Session \cup {NoSession}
      /\ current # NoSession => row[current] = "open"
  BY DEF IInv, TypeOK, Ledger
<1>1. ASSUME NEW devices \in SUBSET Device, NEW x \in Setting \cup {NoSetting},
             RequestStart(c, devices, x)
      PROVE  row[s] = "absent" /\ Kept(s)
  <2>1. /\ row' = [r \in Session |-> IF r = issued + 1 THEN "open"
                                     ELSE IF r = current THEN "ended" ELSE row[r]]
        /\ \E m : member' = [member EXCEPT ![issued + 1] = m]
        /\ Still /\ readings' = readings
    BY <1>1 DEF RequestStart, Still
  <2>2. s # issued + 1 /\ row[s] = "absent"
    BY <1>0, <2>1
  <2>3. member'[s] = member[s]
    BY <1>0, <2>1, <2>2
  <2> QED BY <1>0, <2>1, <2>2, <2>3, StillKeeps
<1>2. CASE RequestEnd(c)
  <2>1. /\ row' = [row EXCEPT ![current] = "ended"] /\ Still
        /\ UNCHANGED <<member, readings>>
    BY <1>2 DEF RequestEnd, Still
  <2>2. row[s] = "absent"
    BY <1>0, <2>1
  <2> QED BY <1>0, <2>1, <2>2, StillKeeps, KeptGone
<1>3. CASE RequestStartFails(c)
  <2>1. /\ row' \in {row, [row EXCEPT ![current] = "ended"]}
        /\ targets' = targets /\ durable' \in {durable, targets}
        /\ UNCHANGED <<member, readings>>
    BY <1>3 DEF RequestStartFails
  <2>2. row[s] = "absent"
    BY <1>0, <2>1
  <2>3. Kept(s)
    BY <1>0, <2>1 DEF Kept
  <2> QED BY <2>2, <2>3, KeptGone
<1>4. CASE RequestDiscard(c)
  <2>1. CASE failedTxn
    <3>1. Rollback /\ UNCHANGED <<row, member, readings>>
      BY <1>4, <2>1 DEF RequestDiscard
    <3> QED BY <1>0, <3>1, StillKeeps, KeptGone
  <2>2. CASE ~failedTxn
    <3>1. /\ row' = [row EXCEPT ![current] = "absent"]
          /\ member' = [member EXCEPT ![current] = [d \in Device |-> "none"]]
          /\ targets' = [targets EXCEPT ![current] = NoTargets] /\ durable' = targets'
          /\ readings' = [readings EXCEPT ![current] = {}]
      BY <1>4, <2>2 DEF RequestDiscard, Commit
    <3>2. CASE s = current
      BY <1>0, <3>1, <3>2 DEF Gone
    <3>3. CASE s # current
      <4>1. row[s] = "absent" /\ Kept(s)
        BY <1>0, <3>1, <3>3 DEF Kept
      <4> QED BY <4>1, KeptGone
    <3> QED BY <3>2, <3>3
  <2> QED BY <2>1, <2>2
<1>5. ASSUME \/ \E d \in Device, x \in Setting \cup {NoSetting} : RequestTargetUpdate(c, d, x)
             \/ \E d \in Device : RequestAddDevice(c, d)
             \/ Refuse(c)
      PROVE  row[s] = "absent" /\ Kept(s)
  BY <1>5 DEF RequestTargetUpdate, RequestAddDevice, Refuse, store, vars, Kept
<1> QED BY <1>1, <1>2, <1>3, <1>4, <1>5, KeptGone DEF NewRequest

\* Each call either finds the session, or a constraint that fails, or has no
\* row to add.
LEMMA ContinueOrphans ==
    ASSUME IInv, NoOrphans, NEW c \in Client, Continue(c), NEW s \in Session, row'[s] = "absent"
    PROVE  Gone(s)'
<1> DEFINE z == req[c].session
<1>0. TypeOK /\ member \in [Session -> [Device -> {"none", "in", "left"}]]
      /\ req[c].setting \in Setting \cup {NoSetting}
  BY HandlerFacts DEF IInv, TypeOK
<1>1. row' = row
  BY DEF Continue, SaveTargets, SaveTargetsFails, LoadTargets, AnnounceStart, AnnounceEnd,
         WriteTargets, WriteTargetsFails, ReloadTargets, WriteMember, store
<1>2. row[s] = "absent"
  BY <1>1
<1>3. Exists(z) => s # z
  BY <1>2 DEF Exists
<1>4. ASSUME UNCHANGED <<member, readings>>, Still \/ Rollback PROVE Gone(s)'
  BY <1>0, <1>2, <1>4, StillKeeps, KeptGone
<1>5. ASSUME UNCHANGED <<member, readings>>, targets'[s] = targets[s],
             durable'[s] \in {durable[s], targets'[s]}
      PROVE  Gone(s)'
  BY <1>2, <1>5, KeptGone DEF Kept
<1>6. ASSUME NEW d \in Device, SaveTargets(c, d) PROVE Gone(s)'
  <2>1. CASE Exists(z)
    <3>1. Commit([targets EXCEPT ![z][d] = req[c].setting]) /\ UNCHANGED <<member, readings>>
      BY <1>6, <2>1 DEF SaveTargets
    <3>2. targets'[s] = targets[s] /\ durable'[s] \in {durable[s], targets'[s]}
      BY <1>0, <1>3, <2>1, <3>1, SaveLists
    <3> QED BY <1>5, <3>1, <3>2
  <2>2. CASE ~Exists(z)
    BY <1>4, <1>6, <2>2 DEF SaveTargets, Still
  <2> QED BY <2>1, <2>2
<1>7. ASSUME NEW d \in Device, NEW half \in Setting \cup {NoSetting}, SaveTargetsFails(c, d, half)
      PROVE  Gone(s)'
  <2>1. /\ Abandon([targets EXCEPT ![z][d] = half]) /\ UNCHANGED <<member, readings>>
        /\ Exists(z)
    BY <1>7 DEF SaveTargetsFails
  <2>2. targets'[s] = targets[s] /\ durable'[s] \in {durable[s], targets'[s]}
    BY <1>3, <2>1, SaveLists
  <2> QED BY <1>5, <2>1, <2>2
<1>8. CASE WriteTargets(c)
  <2>0. UNCHANGED <<member, readings>>
    BY <1>8 DEF WriteTargets
  <2>1. CASE Exists(z)
    <3>1. Commit(WithList(z, req[c].todo, req[c].setting))
      BY <1>8, <2>1 DEF WriteTargets
    <3>2. targets'[s] = targets[s] /\ durable'[s] \in {durable[s], targets'[s]}
      BY <1>0, <1>3, <2>1, <3>1, WriteLists
    <3> QED BY <1>5, <2>0, <3>2
  <2>2. CASE ~Exists(z) /\ req[c].setting = NoSetting
    <3>1. Commit(WithList(z, req[c].todo, NoSetting)) /\ NoSetting \in Setting \cup {NoSetting}
      BY <1>8, <2>2 DEF WriteTargets
    <3>2. CASE s = z
      <4>1. /\ \A d \in Device : targets'[s][d] = IF d \in req[c].todo THEN NoSetting ELSE targets[s][d]
            /\ targets' \in [Session -> TargetMap] /\ durable' = targets'
        BY <3>1, <3>2, WriteLists DEF ListTypes, Commit
      <4>2. targets[s] = NoTargets
        BY <1>2 DEF NoOrphans, Gone
      <4>3. \A d \in Device : targets'[s][d] = NoSetting
        BY <4>1, <4>2 DEF NoTargets
      <4>4. targets'[s] = NoTargets
        BY <4>1, <4>3 DEF NoTargets, TargetMap
      <4> QED BY <1>5, <2>0, <4>1, <4>2, <4>4
    <3>3. CASE s # z
      <4>1. targets'[s] = targets[s] /\ durable'[s] \in {durable[s], targets'[s]}
        BY <3>1, <3>3, WriteLists
      <4> QED BY <1>5, <2>0, <4>1
    <3> QED BY <3>2, <3>3
  <2>3. CASE ~Exists(z) /\ req[c].setting # NoSetting
    BY <1>4, <1>8, <2>0, <2>3 DEF WriteTargets, Still
  <2> QED BY <2>1, <2>2, <2>3
<1>9. ASSUME NEW half \in Setting \cup {NoSetting}, WriteTargetsFails(c, half) PROVE Gone(s)'
  <2>1. /\ Abandon(WithList(z, req[c].todo, half)) /\ UNCHANGED <<member, readings>>
        /\ Exists(z)
    BY <1>9 DEF WriteTargetsFails
  <2>2. targets'[s] = targets[s] /\ durable'[s] \in {durable[s], targets'[s]}
    BY <1>3, <2>1, WriteLists
  <2> QED BY <1>5, <2>1, <2>2
<1>10. CASE WriteMember(c)
  <2>1. /\ readings' = readings /\ Still
        /\ \/ member' = member
           \/ /\ Exists(z)
              /\ \E m : member' = [member EXCEPT ![z] = m]
    BY <1>10 DEF WriteMember, Still
  <2>2. member'[s] = member[s]
    BY <1>0, <1>3, <2>1
  <2> QED BY <1>0, <1>2, <2>1, <2>2, StillKeeps, KeptGone
<1>11. CASE LoadTargets(c) \/ AnnounceStart(c) \/ AnnounceEnd(c) \/ ReloadTargets(c)
  <2>1. UNCHANGED <<member, readings>> /\ Still
    BY <1>11 DEF LoadTargets, AnnounceStart, AnnounceEnd, ReloadTargets, store, Still
  <2> QED BY <1>4, <2>1
<1> QED BY <1>6, <1>7, <1>8, <1>9, <1>10, <1>11 DEF Continue

LEMMA WorkerOrphans ==
    ASSUME IInv, NoOrphans, NEW d \in InRange, Worker(d), NEW s \in Session, row'[s] = "absent"
    PROVE  Gone(s)'
<1>0. /\ TypeOK /\ d \in Device
      /\ member \in [Session -> [Device -> {"none", "in", "left"}]]
      /\ readings \in [Session -> SUBSET Device]
  BY ServerAssumption DEF IInv, TypeOK
<1>1. row' = row /\ Still
  BY <1>0, WorkerFrame
<1>2. row[s] = "absent" /\ \A e \in Device : member[s][e] = "none"
  BY <1>1 DEF NoOrphans, Gone
<1>3. CASE Record(d)
  <2>1. /\ member' = member
        /\ \/ readings' = readings
           \/ /\ Exists(worker[d].session)
              /\ \E m : readings' = [readings EXCEPT ![worker[d].session] = m]
    BY <1>3 DEF Record
  <2>2. readings'[s] = readings[s]
    BY <1>0, <1>2, <2>1 DEF Exists
  <2> QED BY <1>0, <1>1, <1>2, <2>1, <2>2, StillKeeps, KeptGone
<1>4. CASE Rejoin(d) \/ Leave(d)
  <2>1. /\ readings' = readings
        /\ \/ member' = member
           \/ \E v \in {"in", "left"} :
                 member' = [member EXCEPT ![worker[d].session][d] = IF @ = "none" THEN @ ELSE v]
    BY <1>4 DEF Rejoin, Leave
  <2>2. ASSUME NEW v \in {"in", "left"},
               member' = [member EXCEPT ![worker[d].session][d] = IF @ = "none" THEN @ ELSE v]
        PROVE  member'[s] = member[s]
    <3>1. CASE worker[d].session = s
      <4>1. member' = [member EXCEPT ![s] = [member[s] EXCEPT ![d] = member[s][d]]]
        BY <1>0, <1>2, <2>2, <3>1
      <4>2. [member[s] EXCEPT ![d] = member[s][d]] = member[s]
        BY <1>0
      <4> QED BY <1>0, <4>1, <4>2
    <3>2. CASE worker[d].session # s
      BY <1>0, <2>2, <3>2
    <3> QED BY <3>1, <3>2
  <2>3. member'[s] = member[s]
    BY <2>1, <2>2
  <2> QED BY <1>0, <1>1, <1>2, <2>1, <2>3, StillKeeps, KeptGone
<1>5. CASE Connect(d) \/ RejoinCheck(d) \/ Poll(d) \/ Check(d) \/ ConnectFails(d) \/ Disconnect(d)
  <2>1. UNCHANGED <<member, readings>>
    BY <1>5 DEF Connect, RejoinCheck, Poll, Check, ConnectFails, Disconnect, store
  <2> QED BY <1>0, <1>1, <1>2, <2>1, StillKeeps, KeptGone
<1> QED BY <1>3, <1>4, <1>5 DEF Worker, WorkerStep

LEMMA NoOrphansStep == IInv /\ NoOrphans /\ [Next]_vars => NoOrphans'
<1> SUFFICES ASSUME IInv, NoOrphans, [Next]_vars, NEW s \in Session, row'[s] = "absent"
             PROVE  Gone(s)'
  BY DEF NoOrphans
<1>0. TypeOK /\ (current # NoSession => row[current] = "open")
      /\ member \in [Session -> [Device -> {"none", "in", "left"}]]
  BY DEF IInv, TypeOK, Ledger
<1>1. CASE Aside
  <2>1. UNCHANGED <<row, member, readings>> /\ (Still \/ Rollback)
    BY <1>1, AsideFrame
  <2> QED BY <1>0, <2>1, StillKeeps, KeptGone
<1>2. CASE Restart
  <2>1. row' = row /\ readings' = readings /\ Rollback
    BY <1>2 DEF Restart
  <2>2. row[s] = "absent" /\ s # current
    BY <1>0, <2>1, ServerAssumption DEF Session, NoSession
  <2>3. member'[s] = [d \in Device |-> member[s][d]]
    BY <1>2, <2>2 DEF Restart
  <2>4. member'[s] = member[s]
    BY <1>0, <2>3
  <2> QED BY <1>0, <2>1, <2>2, <2>4, StillKeeps, KeptGone
<1>3. CASE UNCHANGED vars
  BY <1>3 DEF vars, NoOrphans, Gone
<1> QED BY <1>1, <1>2, <1>3, NewRequestOrphans, ContinueOrphans, WorkerOrphans DEF Next, Worker, Aside

\* Nothing is left of a session that was discarded, whatever handlers and
\* workers still had its id in hand and whatever is rolled back.
THEOREM NothingIsLeft == Spec => []NoOrphans
<1>1. Init => NoOrphans
  BY DEF Init, NoOrphans, Gone
<1> QED BY <1>1, NoOrphansStep, Invariance, PTL DEF Spec

-----------------------------------------------------------------------------
(* The server keeps the store's promise.                                   *)

Promise == INSTANCE SessionPromise
    WITH active <- current, closed <- (1..issued) \ {current}

\* A start takes a new id and closes the active one, an end or a discard
\* closes it, and every other step leaves both alone.
LEMMA PromiseStep ==
    ASSUME IInv, [Next]_vars
    PROVE  [Promise!Next \/ Promise!Replace]_<<current, (1..issued) \ {current}>>
<1>0. /\ current \in Session \cup {NoSession} /\ issued \in Nat
      /\ current # NoSession => row[current] = "open"
      /\ \A s \in Session : s > issued => row[s] = "absent"
  BY DEF IInv, TypeOK, Ledger
<1>00. current # NoSession => current \in 1..issued
  BY <1>0, ServerAssumption DEF Session, NoSession
<1>1. ASSUME NEW c \in Client, NEW devices \in SUBSET Device, NEW x \in Setting \cup {NoSetting},
             RequestStart(c, devices, x)
      PROVE  Promise!Start \/ Promise!Replace
  <2>1. issued < MaxSession /\ issued' = issued + 1 /\ current' = issued + 1
    BY <1>1 DEF RequestStart
  <2>2. current' \in Session \ ((1..issued) \cup {current})
    BY <1>0, <1>00, <2>1, ServerAssumption DEF Session, NoSession
  <2>3. (1..issued') \ {current'} = 1..issued
    BY <1>0, <2>1
  <2>4. CASE current = NoSession
    BY <1>0, <2>2, <2>3, <2>4
    DEF Promise!Start, Promise!NoSession, Promise!Session, NoSession, Session
  <2>5. CASE current # NoSession
    <3>1. 1..issued = ((1..issued) \ {current}) \cup {current}
      BY <1>00, <2>5
    <3> QED BY <2>2, <2>3, <2>5, <3>1
            DEF Promise!Replace, Promise!NoSession, Promise!Session, NoSession, Session
  <2> QED BY <2>4, <2>5
<1>2. ASSUME current # NoSession, current' = NoSession, issued' = issued PROVE Promise!Close
  BY <1>00, <1>2 DEF Promise!Close, Promise!NoSession, NoSession
<1>3. ASSUME NEW c \in Client, NewRequest(c)
      PROVE  Promise!Start \/ Promise!Replace \/ Promise!Close \/ UNCHANGED <<current, issued>>
  <2>1. RequestEnd(c) => Promise!Close
    BY <1>2 DEF RequestEnd
  <2>2. RequestDiscard(c) => Promise!Close \/ UNCHANGED <<current, issued>>
    BY <1>2 DEF RequestDiscard
  <2>3. RequestStartFails(c) => Promise!Close \/ UNCHANGED <<current, issued>>
    BY <1>2 DEF RequestStartFails
  <2>4. ASSUME \/ \E d \in Device, x \in Setting \cup {NoSetting} : RequestTargetUpdate(c, d, x)
               \/ \E d \in Device : RequestAddDevice(c, d)
               \/ Refuse(c)
        PROVE  UNCHANGED <<current, issued>>
    BY <2>4 DEF RequestTargetUpdate, RequestAddDevice, Refuse, store, vars
  <2> QED BY <1>1, <1>3, <2>1, <2>2, <2>3, <2>4 DEF NewRequest
<1>4. ASSUME NEW c \in Client, Continue(c) PROVE UNCHANGED <<current, issued>>
  BY <1>4 DEF Continue, SaveTargets, SaveTargetsFails, LoadTargets, AnnounceStart, AnnounceEnd,
              WriteTargets, WriteTargetsFails, ReloadTargets, WriteMember, store
<1>5. ASSUME NEW d \in InRange, Worker(d) PROVE UNCHANGED <<current, issued>>
  BY <1>5, WorkerFrame, ServerAssumption
<1>6. Aside => UNCHANGED <<current, issued>>
  BY AsideFrame
<1>7. Restart => UNCHANGED <<current, issued>>
  BY DEF Restart
<1>8. UNCHANGED vars => UNCHANGED <<current, issued>>
  BY DEF vars
<1> QED BY <1>3, <1>4, <1>5, <1>6, <1>7, <1>8 DEF Next, Worker, Aside, Promise!Next

\* The sessions of the server are those the store promises, call by call: it
\* implements SessionPromise with start_session in one step, whatever
\* handlers interleave, and a crash is a stutter.
THEOREM ImplementsPromise == Spec => Promise!CallSpec
<1>1. Init => Promise!Init
  BY ServerAssumption DEF Init, Promise!Init, Promise!Session, Promise!NoSession, NoSession
<1>2. IInv /\ [Next]_vars
          => [Promise!Next \/ Promise!Replace]_<<current, (1..issued) \ {current}>>
  BY PromiseStep
<1> QED BY <1>1, <1>2, Invariance, PTL DEF Spec, Promise!CallSpec
===============================================================================
