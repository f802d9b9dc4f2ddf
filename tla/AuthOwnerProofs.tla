-------------------------- MODULE AuthOwnerProofs --------------------------
(***************************************************************************)
(* Who holds what in AuthRegistry: the owner of every callback thread, the *)
(* callback port, a COMPLETING session, a place in the registry's map.     *)
(***************************************************************************)
EXTENDS AuthLifecycleProofs, FiniteSetTheorems

-----------------------------------------------------------------------------
(* The owners of the callback threads.  A session that is active holds its   *)
(* owner; whoever ends it takes the owner along.  An id not drawn yet, or no *)
(* longer in the map, has none, and nobody reaps what was not yet drawn:     *)
(* a new session cannot meet a reaper of its own.                            *)

Reaps(c, id) == id \in conn[c].stop \/ id \in {conn[c].cut, conn[c].join}

ActiveOwns == \A id \in Ids : IsActive(session[id].status) => session[id].owner

AbsentOwnsNothing == \A id \in Ids : session[id].status \in Absent => ~session[id].owner

UnbornIsNotReaped ==
    \A id \in Ids : session[id].status = "NONE" => \A c \in Conns : ~Reaps(c, id)

HeldInv == ActiveOwns /\ AbsentOwnsNothing

\* A session replaced by t is still active or gives its owner up.
Releases(id, t) == IsActive(session[id].status) => IsActive(t.status) \/ ~t.owner

\* What connection c, which had nothing to reap, takes in a step: only owners that their
\* sessions give up, and those of all sessions it ends.  An owner may be dropped without
\* being taken only with a finished session that Create evicts.
HandsOver(c) ==
    /\ Ready(c)
    /\ \A d \in Conns : d # c => conn'[d] = conn[d]
    /\ \A id \in Ids : Reaps(c, id)' => session[id].owner /\ ~session'[id].owner
    /\ \A id \in Ids : IsActive(session[id].status) /\ ~IsActive(session'[id].status)
                        => id \in conn'[c].stop
    /\ \A id \in Ids : session[id].owner /\ ~session'[id].owner =>
          \/ id \in conn'[c].stop
          \/ /\ conn[c].pc = "create"
             /\ \E gone \in SUBSET Ids : Evicted(Swept, gone) /\ id \in gone

\* The operators of the calls release the owner of what they end.
LEMMA OperatorsRelease ==
    ASSUME TypeOK, NEW id \in Ids
    PROVE  /\ Releases(id, session[id])
           /\ Releases(id, Fresh(id, TRUE))
           /\ Releases(id, Snapshot(id))
           /\ Releases(id, CancelSession(id))
           /\ Releases(id, Finish(id, "AUTHORIZED", "none"))
           /\ Releases(id, Finish(id, "FAILED", "TOKEN_EXCHANGE_FAILED"))
<1>0. session[id] \in Session
  BY DEF TypeOK
<1>1. Releases(id, session[id])
  BY DEF Releases
<1>2. ASSUME NEW status, NEW fault
      PROVE  Releases(id, TerminalLocked(session[id], status, fault, TRUE))
  BY DEF Releases, TerminalLocked
<1>3. Releases(id, Fresh(id, TRUE))
  BY <1>1, <1>2 DEF Fresh, ExpireLocked
<1>4. Releases(id, Snapshot(id))
  <2>1. Fresh(id, TRUE) \in Session
    BY SessionOperatorsType
  <2>2. [Fresh(id, TRUE) EXCEPT !.owner = FALSE].owner = FALSE
    BY <2>1 DEF Session
  <2> QED
    BY <1>3, <2>2 DEF Snapshot, Releases
<1> QED
  BY <1>1, <1>2, <1>3, <1>4 DEF CancelSession, Finish

\* A call that replaces one session and takes the owner it gives up.
LEMMA ReplaceHandsOver ==
    ASSUME TypeOK, ActiveOwns, NEW c \in Conns, Ready(c), NEW id \in Ids, NEW t,
           Releases(id, t), session' = [session EXCEPT ![id] = t],
           NEW label, NEW x, Goto(c, label, x, Taken(id, t))
    PROVE  HandsOver(c)
<1>1. /\ conn'[c].stop = Taken(id, t) /\ conn'[c].cut = None /\ conn'[c].join = None
      /\ \A d \in Conns : d # c => conn'[d] = conn[d]
  BY DEF Goto, TypeOK
<1>2. \A i \in Ids : session'[i] = IF i = id THEN t ELSE session[i]
  BY DEF TypeOK
<1>3. ASSUME NEW i \in Ids, Reaps(c, i)' PROVE session[i].owner /\ ~session'[i].owner
  BY <1>1, <1>2, <1>3, NoneAssumption DEF Reaps, Taken
<1>4. ASSUME NEW i \in Ids, IsActive(session[i].status), ~IsActive(session'[i].status)
      PROVE  i \in conn'[c].stop
  BY <1>1, <1>2, <1>4 DEF Releases, Taken, ActiveOwns
<1>5. ASSUME NEW i \in Ids, session[i].owner, ~session'[i].owner PROVE i \in conn'[c].stop
  BY <1>1, <1>2, <1>5 DEF Taken
<1> QED
  BY <1>1, <1>3, <1>4, <1>5 DEF HandsOver

\* A call that ends no session and takes nothing.
LEMMA QuietHandsOver ==
    ASSUME TypeOK, NEW c \in Conns, Ready(c),
           \A i \in Ids : /\ IsActive(session[i].status) => IsActive(session'[i].status)
                          /\ session[i].owner => session'[i].owner,
           NEW label, NEW x, Goto(c, label, x, {})
    PROVE  HandsOver(c)
<1>1. /\ conn'[c].stop = {} /\ conn'[c].cut = None /\ conn'[c].join = None
      /\ \A d \in Conns : d # c => conn'[d] = conn[d]
  BY DEF Goto, TypeOK
<1> QED
  BY <1>1, NoneAssumption DEF HandsOver, Reaps

\* Create takes the owners of the sessions that its sweep expires.
LEMMA SweepHandsOver ==
    ASSUME TypeOK, ActiveOwns, NEW c \in Conns, Ready(c), conn[c].pc = "create",
           NEW gone \in SUBSET Ids, Evicted(Swept, gone),
           \A i \in Ids : \/ session'[i] = Without(Swept, gone)[i]
                          \/ /\ i \notin SweptOwners /\ ~IsActive(session[i].status)
                             /\ ~session[i].owner,
           NEW label, NEW x, Goto(c, label, x, SweptOwners)
    PROVE  HandsOver(c)
<1>1. /\ conn'[c].stop = SweptOwners /\ conn'[c].cut = None /\ conn'[c].join = None
      /\ \A d \in Conns : d # c => conn'[d] = conn[d]
  BY DEF Goto, TypeOK
<1>2. ASSUME NEW i \in Ids, Reaps(c, i)' PROVE session[i].owner /\ ~session'[i].owner
  <2>1. session[i].owner /\ ~Swept[i].owner
    BY <1>1, <1>2, NoneAssumption DEF Reaps, SweptOwners
  <2>2. session'[i] = Without(Swept, gone)[i]
    BY <2>1 DEF SweptOwners
  <2> QED
    BY <2>1, <2>2 DEF Without, Gone
<1>3. ASSUME NEW i \in Ids, IsActive(session[i].status), ~IsActive(session'[i].status)
      PROVE  i \in conn'[c].stop
  <2>1. session[i].owner
    BY <1>3 DEF ActiveOwns
  <2>2. session'[i] = Without(Swept, gone)[i]
    BY <1>3
  <2>3. Swept[i] = Fresh(i, TRUE)
    BY DEF Swept
  <2>4. ~IsActive(Fresh(i, TRUE).status)
    <3>1. CASE i \in gone
      BY <2>3, <3>1 DEF Evicted, Finished, Terminal, TerminalStatus, IsActive, ActiveStatus
    <3>2. CASE i \notin gone
      BY <1>3, <2>2, <2>3, <3>2 DEF Without
    <3> QED
      BY <3>1, <3>2
  <2>5. Releases(i, Fresh(i, TRUE))
    BY OperatorsRelease
  <2> QED
    BY <1>1, <1>3, <2>1, <2>3, <2>4, <2>5 DEF Releases, SweptOwners
<1>4. ASSUME NEW i \in Ids, session[i].owner, ~session'[i].owner, i \notin gone
      PROVE  i \in conn'[c].stop
  BY <1>1, <1>4 DEF Without, SweptOwners
<1> QED
  BY <1>1, <1>2, <1>3, <1>4 DEF HandsOver

\* Every step of a call, but the reaping itself, takes the owners of what it ends.
LEMMA CallsHandOver ==
    ASSUME CompletionInv, HeldInv, NEW c \in Conns,
           \/ Call(c)
           \/ CreateLate(c) \/ CreateRefused(c) \/ CreateAccepted(c) \/ StartSpawn(c)
           \/ StartAssign(c) \/ StartFails(c) \/ StartDrop(c) \/ BeginCompletion(c)
           \/ BeginLost(c) \/ Exchange(c) \/ FinishAuthorized(c) \/ CompleteCatch(c)
           \/ CompleteRecord(c) \/ CompleteResnap(c) \/ Destroy(c)
    PROVE  HandsOver(c)
<1>type. TypeOK /\ CallsNamed /\ ActiveOwns
  BY DEF CompletionInv, TypeInv, HeldInv
<1>id. conn[c].pc \notin {"idle", "closed"} => conn[c].id \in Ids
  BY <1>type DEF CallsNamed
<1>0. ASSUME Ready(c), NEW id \in Ids, NEW t, Releases(id, t),
             session' = [session EXCEPT ![id] = t],
             NEW label, NEW x, Goto(c, label, x, Taken(id, t))
      PROVE  HandsOver(c)
  BY <1>0, <1>type, ReplaceHandsOver
<1>same. ASSUME Ready(c), UNCHANGED session, NEW label, NEW x, Goto(c, label, x, {})
         PROVE  HandsOver(c)
  BY <1>same, <1>type, QuietHandsOver
<1>ops. \A id \in Ids : /\ Releases(id, session[id])
                        /\ Releases(id, Fresh(id, TRUE))
                        /\ Releases(id, Snapshot(id))
                        /\ Releases(id, CancelSession(id))
                        /\ Releases(id, Finish(id, "AUTHORIZED", "none"))
                        /\ Releases(id, Finish(id, "FAILED", "TOKEN_EXCHANGE_FAILED"))
  BY <1>type, OperatorsRelease
<1>1. ASSUME NEW id \in Ids, StartBind(c, id) PROVE HandsOver(c)
  BY <1>1, <1>same DEF StartBind, At
<1>2. ASSUME NEW id \in Ids, AuthStatus(c, id) PROVE HandsOver(c)
  BY <1>0, <1>2, <1>ops DEF AuthStatus, At, Return
<1>3. ASSUME NEW id \in Ids, AuthCancel(c, id) PROVE HandsOver(c)
  BY <1>0, <1>3, <1>ops DEF AuthCancel, At, Return
<1>4. ASSUME NEW id \in Ids, CompleteSnapshot(c, id) PROVE HandsOver(c)
  <2>1. CASE Snapshot(id).status = "CALLBACK_RECEIVED"
    <3>1. Snapshot(id) = Fresh(id, TRUE)
      <4>1. Fresh(id, TRUE) \in Session
        BY <1>type, SessionOperatorsType
      <4> QED
        BY <2>1, <4>1 DEF Snapshot, Session, Terminal, TerminalStatus
    <3>2. Fresh(id, TRUE).status \in {"PENDING_USER_ACTION", "CALLBACK_RECEIVED"} /\ TRUE \in BOOLEAN
      BY <2>1, <3>1
    <3>3. Snapshot(id) = session[id]
      BY <1>type, <3>1, <3>2, FreshInTime
    <3>4. UNCHANGED session
      BY <1>4, <1>type, <3>3 DEF CompleteSnapshot, TypeOK
    <3> QED
      BY <1>4, <1>same, <2>1, <3>4 DEF CompleteSnapshot, At
  <2>2. CASE Snapshot(id).status # "CALLBACK_RECEIVED"
    BY <1>0, <1>4, <1>ops, <2>2 DEF CompleteSnapshot, At, Return
  <2> QED
    BY <2>1, <2>2
<1>5. CASE CreateLate(c) \/ StartSpawn(c) \/ StartAssign(c) \/ StartDrop(c) \/ Exchange(c)
  BY <1>5, <1>same
     DEF CreateLate, StartSpawn, StartAssign, StartDrop, Exchange, At, Return, Continue
<1>6. CASE CreateRefused(c)
  <2>1. PICK gone \in SUBSET Ids : Evicted(Swept, gone) /\ session' = Without(Swept, gone)
    BY <1>6 DEF CreateRefused
  <2> QED
    BY <1>6, <1>type, <2>1, SweepHandsOver DEF CreateRefused, At, Continue
<1>7. CASE CreateAccepted(c)
  <2>1. PICK gone \in SUBSET Ids :
           /\ Evicted(Swept, gone)
           /\ session' = [Without(Swept, gone) EXCEPT ![conn[c].id] = NewSession]
    BY <1>7 DEF CreateAccepted
  <2>2. conn[c].id \in Ids /\ session[conn[c].id].status = "NONE"
    BY <1>7, CreateWalks
  <2>3. \A i \in Ids : i # conn[c].id => session'[i] = Without(Swept, gone)[i]
    BY <1>type, <2>1, SweptType
  <2>4. Fresh(conn[c].id, TRUE) = session[conn[c].id]
    BY <2>2 DEF Fresh, ExpireLocked, IsActive, ActiveStatus
  <2>5. conn[c].id \notin SweptOwners
    BY <2>2, <2>4 DEF SweptOwners, Swept
  <2> QED
    BY <1>7, <1>type, <2>1, <2>2, <2>3, <2>5, SweepHandsOver
       DEF CreateAccepted, At, Continue, IsActive, ActiveStatus, HeldInv, AbsentOwnsNothing, Absent
<1>8. CASE StartFails(c)
  <2> DEFINE id == conn[c].id
             s == IF Present(id) THEN CancelSession(id) ELSE session[id]
  <2>1. id \in Ids
    BY <1>id, <1>8 DEF StartFails, At
  <2>2. Releases(id, s)
    BY <1>ops, <2>1
  <2>3. session' = [session EXCEPT ![id] = s] /\ Goto(c, "drop", id, Taken(id, s)) /\ Ready(c)
    BY <1>8 DEF StartFails, Continue, At
  <2> HIDE DEF s
  <2> QED
    BY <1>0, <2>1, <2>2, <2>3
<1>9. CASE BeginCompletion(c)
  <2>1. \A i \in Ids : /\ IsActive(session[i].status) => IsActive(session'[i].status)
                       /\ session[i].owner => session'[i].owner
    BY <1>9, <1>type, BeginWalks DEF TypeInv, IsActive, ActiveStatus
  <2> QED
    BY <1>9, <1>type, <2>1, QuietHandsOver DEF BeginCompletion, At, Continue
<1>10. CASE BeginLost(c)
  <2> DEFINE id == conn[c].id
             s == IF Present(id) THEN Fresh(id, TRUE) ELSE session[id]
  <2>1. id \in Ids
    BY <1>id, <1>10 DEF BeginLost, At
  <2>2. Releases(id, s)
    BY <1>ops, <2>1
  <2>3. session' = [session EXCEPT ![id] = s] /\ Goto(c, "resnap", id, Taken(id, s)) /\ Ready(c)
    BY <1>10 DEF BeginLost, Continue, At
  <2> HIDE DEF s
  <2> QED
    BY <1>0, <2>1, <2>2, <2>3
<1>11. CASE FinishAuthorized(c)
  <2>1. conn[c].id \in Ids
    BY <1>id, <1>11 DEF FinishAuthorized, At
  <2>2. CASE Completing(conn[c].id)
    BY <1>0, <1>11, <1>ops, <2>1, <2>2 DEF FinishAuthorized, At, Continue
  <2>3. CASE ~Completing(conn[c].id)
    BY <1>same, <1>11, <2>3 DEF FinishAuthorized, At, Continue
  <2> QED
    BY <2>2, <2>3
<1>12. ASSUME conn[c].id \in Ids, Ready(c), NEW label, FinishFailed(c, label) PROVE HandsOver(c)
  <2> DEFINE id == conn[c].id
             s == IF Completing(id) THEN Finish(id, "FAILED", "TOKEN_EXCHANGE_FAILED")
                  ELSE session[id]
  <2>1. Releases(id, s)
    BY <1>12, <1>ops
  <2>2. session' = [session EXCEPT ![id] = s] /\ Goto(c, label, id, Taken(id, s))
    BY <1>12 DEF FinishFailed, Continue
  <2> HIDE DEF s
  <2> QED
    BY <1>0, <1>12, <2>1, <2>2
<1>13. CASE CompleteCatch(c) \/ CompleteRecord(c)
  <2>1. conn[c].id \in Ids /\ Ready(c)
    BY <1>id, <1>13 DEF CompleteCatch, CompleteRecord, At
  <2> QED
    BY <1>12, <1>13, <1>same, <2>1 DEF CompleteCatch, CompleteRecord, Continue, Return
<1>14. CASE CompleteResnap(c)
  <2> DEFINE id == conn[c].id
             s == IF Present(id) THEN Snapshot(id) ELSE session[id]
  <2>1. id \in Ids
    BY <1>id, <1>14 DEF CompleteResnap, At
  <2>2. Releases(id, s)
    BY <1>ops, <2>1
  <2>3. session' = [session EXCEPT ![id] = s] /\ Goto(c, "idle", None, Taken(id, s)) /\ Ready(c)
    BY <1>14 DEF CompleteResnap, Return, At
  <2> HIDE DEF s
  <2> QED
    BY <1>0, <2>1, <2>2, <2>3
<1>15. CASE Destroy(c)
  <2>1. /\ conn'[c].stop = {i \in Ids : session[i].owner}
        /\ conn'[c].cut = None /\ conn'[c].join = None
        /\ \A d \in Conns : d # c => conn'[d] = conn[d]
    BY <1>15, <1>type DEF Destroy, Goto, TypeOK
  <2>2. \A i \in Ids : session'[i] = IF i \in Stored(session) THEN Gone("EVICTED") ELSE session[i]
    BY <1>15 DEF Destroy, Without
  <2>3. Ready(c)
    BY <1>15 DEF Destroy, At
  <2> QED
    BY <1>type, <2>1, <2>2, <2>3, NoneAssumption
       DEF HandsOver, Reaps, HeldInv, ActiveOwns, AbsentOwnsNothing, Stored, Gone
<1> QED
  BY <1>1, <1>2, <1>3, <1>4, <1>5, <1>6, <1>7, <1>8, <1>9, <1>10, <1>11, <1>13, <1>14, <1>15 DEF Call

\* A session comes into being with its owner, and gains none later.
OwnersStep ==
    \A i \in Ids :
        /\ session'[i].owner => \/ session[i].owner
                                \/ session[i].status = "NONE" /\ session'[i].status \notin Absent
        /\ session'[i].status = "NONE" => session[i].status = "NONE"
        /\ IsActive(session'[i].status) => \/ session'[i].owner
                                           \/ IsActive(session[i].status) /\ ~session[i].owner
        /\ session'[i].status \in Absent /\ session'[i].owner => session[i].status \in Absent

\* What a walk along the diagram does to the owner.
LEMMA WalkOwners ==
    ASSUME TypeOK, NEW i \in Ids, Walks(i, session'[i]), session'[i] \in Session
    PROVE  /\ session'[i].owner => session[i].owner
           /\ session'[i].status = "NONE" => session[i].status = "NONE"
           /\ IsActive(session'[i].status) => /\ IsActive(session[i].status)
                                              /\ session'[i].owner = session[i].owner
           /\ session'[i].status \in Absent /\ session'[i].owner => session[i].status \in Absent
<1>1. \/ session'[i].status = session[i].status
      \/ /\ session[i].status # "NONE"
         /\ Life!Move(session[i].status, session'[i].status, i \in lapsed)
  BY DEF Walks
<1>2. session'[i].status = "NONE" => session[i].status = "NONE"
  BY <1>1 DEF Life!Move
<1>3. IsActive(session'[i].status) => IsActive(session[i].status)
  BY <1>1 DEF Life!Move, IsActive, ActiveStatus
<1> QED
  BY <1>2, <1>3 DEF Walks, Absent

\* Every step treats the owners this way.
LEMMA OwnersStepLemma ==
    ASSUME CompletionInv, [Next]_vars
    PROVE  OwnersStep
<1>type. TypeInv /\ TypeOK /\ TypeOK'
  BY TypeStep DEF CompletionInv, TypeInv
<1>0. ASSUME WalkStep PROVE OwnersStep
  BY <1>0, <1>type, WalkOwners DEF WalkStep, OwnersStep, TypeOK
<1>same. UNCHANGED session => OwnersStep
  BY <1>0, <1>type, UnchangedWalks
<1>1. ASSUME NEW c \in Conns, CreateAccepted(c) PROVE OwnersStep
  <2>1. ASSUME NEW i \in Ids, i # conn[c].id
        PROVE  /\ session'[i].owner => session[i].owner
               /\ session'[i].status = "NONE" => session[i].status = "NONE"
               /\ IsActive(session'[i].status) => /\ IsActive(session[i].status)
                                                  /\ session'[i].owner = session[i].owner
               /\ session'[i].status \in Absent /\ session'[i].owner => session[i].status \in Absent
    BY <1>1, <1>type, <2>1, CreateWalks, WalkOwners DEF TypeOK
  <2>2. session[conn[c].id].status = "NONE" /\ session'[conn[c].id] = NewSession
    BY <1>1, CreateWalks
  <2> QED
    BY <2>1, <2>2 DEF OwnersStep, NewSession, Absent
<1>begin. ASSUME NEW c \in Conns, BeginCompletion(c) PROVE OwnersStep
  BY <1>begin, <1>type, BeginWalks DEF OwnersStep, IsActive, ActiveStatus, Absent
<1>2. ASSUME NEW c \in Conns, Call(c) \/ Proceed(c) \/ Interrupt(c) PROVE OwnersStep
  BY <1>0, <1>1, <1>2, <1>begin, <1>type, CallsWalk DEF Call, Proceed
<1>3. ASSUME NEW id \in Ids, Work(id) \/ WorkerAccept(id) PROVE OwnersStep
  BY <1>0, <1>3, <1>type, WorkersWalk
<1>4. ASSUME NEW c \in Conns, Destroy(c) PROVE OwnersStep
  <2>1. \A i \in Ids : session'[i] = IF i \in Stored(session) THEN Gone("EVICTED") ELSE session[i]
    BY <1>4 DEF Destroy, Without
  <2> QED
    BY <2>1 DEF OwnersStep, Gone, IsActive, ActiveStatus
<1>5. ASSUME NEW id \in Ids, Lapse(id) PROVE OwnersStep
  BY <1>5, <1>same DEF Lapse
<1>6. CASE Terminated \/ UNCHANGED vars
  BY <1>6, <1>same DEF Terminated, vars
<1> QED
  BY <1>2, <1>3, <1>4, <1>5, <1>6 DEF Next

\* Reaping hands an owner from one place to the next and never back.
LEMMA ReapShrinks ==
    ASSUME TypeOK, NEW c \in Conns, Reap(c)
    PROVE  /\ UNCHANGED session
           /\ \A d \in Conns : d # c => conn'[d] = conn[d]
           /\ \A i \in Ids : Reaps(c, i)' => Reaps(c, i)
<1>0. conn[c] \in Connection
  BY DEF TypeOK
<1>1. ASSUME NEW id \in Ids, StopCancel(c, id)
      PROVE  /\ UNCHANGED session
             /\ \A d \in Conns : d # c => conn'[d] = conn[d]
             /\ \A i \in Ids : Reaps(c, i)' => Reaps(c, i)
  <2>1. /\ conn'[c].stop = conn[c].stop \ {id} /\ conn'[c].cut = id /\ conn'[c].join = conn[c].join
        /\ \A d \in Conns : d # c => conn'[d] = conn[d]
    BY <1>0, <1>1 DEF StopCancel, TypeOK, Connection
  <2> QED
    BY <1>1, <2>1 DEF StopCancel, Reaps
<1>2. ASSUME StopTake(c)
      PROVE  /\ UNCHANGED session
             /\ \A d \in Conns : d # c => conn'[d] = conn[d]
             /\ \A i \in Ids : Reaps(c, i)' => Reaps(c, i)
  <2>1. /\ conn'[c].stop = conn[c].stop /\ conn'[c].cut = None /\ conn'[c].join \in {conn[c].cut, None}
        /\ \A d \in Conns : d # c => conn'[d] = conn[d]
    BY <1>0, <1>2 DEF StopTake, TypeOK, Connection
  <2> QED
    BY <1>2, <2>1, NoneAssumption DEF StopTake, Reaps
<1>3. ASSUME StopJoin(c)
      PROVE  /\ UNCHANGED session
             /\ \A d \in Conns : d # c => conn'[d] = conn[d]
             /\ \A i \in Ids : Reaps(c, i)' => Reaps(c, i)
  <2>1. /\ conn'[c].stop = conn[c].stop /\ conn'[c].cut = conn[c].cut /\ conn'[c].join = None
        /\ \A d \in Conns : d # c => conn'[d] = conn[d]
    BY <1>0, <1>3 DEF StopJoin, TypeOK, Connection
  <2> QED
    BY <1>3, <2>1, NoneAssumption DEF StopJoin, Reaps
<1> QED
  BY <1>1, <1>2, <1>3 DEF Reap

\* In every step at most one connection takes an owner, and only one a session gives up.
LEMMA OneTaker ==
    ASSUME CompletionInv, HeldInv, [Next]_vars
    PROVE  \E e : \A d \in Conns, i \in Ids :
              Reaps(d, i)' => Reaps(d, i) \/ (d = e /\ session[i].owner /\ ~session'[i].owner)
<1>type. TypeOK
  BY DEF CompletionInv, TypeInv
<1>1. ASSUME NEW c \in Conns, HandsOver(c)
      PROVE  \A d \in Conns, i \in Ids :
                Reaps(d, i)' => Reaps(d, i) \/ (d = c /\ session[i].owner /\ ~session'[i].owner)
  BY <1>1 DEF HandsOver, Reaps
<1>2. ASSUME NEW c \in Conns, Reap(c)
      PROVE  \A d \in Conns, i \in Ids : Reaps(d, i)' => Reaps(d, i)
  BY <1>2, <1>type, ReapShrinks DEF Reaps
<1>3. ASSUME UNCHANGED conn PROVE \A d \in Conns, i \in Ids : Reaps(d, i)' => Reaps(d, i)
  BY <1>3 DEF Reaps
<1>4. ASSUME NEW c \in Conns, Call(c) \/ Proceed(c) \/ Destroy(c) PROVE Reap(c) \/ HandsOver(c)
  BY <1>4, CallsHandOver DEF Proceed
<1>5. ASSUME NEW c \in Conns, Interrupt(c) PROVE UNCHANGED conn
  BY <1>5 DEF Interrupt
<1>6. ASSUME NEW id \in Ids, Work(id) \/ WorkerAccept(id) \/ Lapse(id) PROVE UNCHANGED conn
  BY <1>6 DEF Work, WorkerBegin, WorkerAccept, WorkerTimeout, WorkerCancelled, WorkerDeliver,
              WorkerFail, WorkerSelfStop, WorkerExit, Lapse
<1>7. CASE Terminated \/ UNCHANGED vars
  BY <1>3, <1>7 DEF Terminated, vars
<1> QED
  BY <1>1, <1>2, <1>3, <1>4, <1>5, <1>6, <1>7 DEF Next

ReaperInv == CompletionInv /\ HeldInv /\ UnbornIsNotReaped /\ SingleReaper

\* The owners' invariant is inductive.
LEMMA ReaperStep ==
    ReaperInv /\ [Next]_vars => ReaperInv'
<1> SUFFICES ASSUME ReaperInv, [Next]_vars PROVE ReaperInv'
  OBVIOUS
<1>0. CompletionInv /\ HeldInv /\ UnbornIsNotReaped /\ SingleReaper
  BY DEF ReaperInv
<1>1. CompletionInv' /\ OwnersStep
  BY <1>0, CompletionStep, OwnersStepLemma
<1>2. PICK e : \A d \in Conns, i \in Ids :
        Reaps(d, i)' => Reaps(d, i) \/ (d = e /\ session[i].owner /\ ~session'[i].owner)
  BY <1>0, OneTaker
<1>3. ActiveOwns'
  BY <1>0, <1>1 DEF HeldInv, ActiveOwns, OwnersStep
<1>4. AbsentOwnsNothing'
  BY <1>0, <1>1 DEF HeldInv, AbsentOwnsNothing, OwnersStep, Absent
<1>5. UnbornIsNotReaped'
  BY <1>0, <1>1, <1>2 DEF HeldInv, AbsentOwnsNothing, UnbornIsNotReaped, OwnersStep, Absent
<1>6. \A i \in Ids, c, d \in Conns : Reaps(c, i) /\ Reaps(d, i) => c = d
  BY <1>0 DEF SingleReaper, Reaps
<1>7. \A i \in Ids, c \in Conns : session[i].owner => ~Reaps(c, i)
  BY <1>0 DEF SingleReaper, Reaps
<1>8. ASSUME NEW i \in Ids, NEW c \in Conns, NEW d \in Conns, Reaps(c, i)', Reaps(d, i)'
      PROVE  c = d
  BY <1>2, <1>6, <1>7, <1>8
<1>9. ASSUME NEW i \in Ids, NEW c \in Conns, session'[i].owner PROVE ~Reaps(c, i)'
  BY <1>0, <1>1, <1>2, <1>7, <1>9 DEF UnbornIsNotReaped, OwnersStep
<1>10. SingleReaper'
  BY <1>8, <1>9 DEF SingleReaper, Reaps
<1> QED
  BY <1>1, <1>3, <1>4, <1>5, <1>10 DEF ReaperInv, HeldInv

\* The owners' invariant holds in every reachable state.
LEMMA ReaperInvariant == Spec => []ReaperInv
<1>1. Init => HeldInv /\ UnbornIsNotReaped /\ SingleReaper
  BY NoneAssumption
     DEF Init, HeldInv, ActiveOwns, AbsentOwnsNothing, UnbornIsNotReaped, SingleReaper, Reaps, Gone,
         IsActive, ActiveStatus
<1> QED
  BY <1>1, CompletionInit, ReaperStep, PTL DEF Spec, ReaperInv

\* The owner of a callback thread is released once: as long as the session holds it nobody
\* reaps it, and of the callers that end, sweep, cancel or observe the session, and the
\* destructor, at most one takes it.  No std::thread is joined twice.
THEOREM OwnersAreReleasedOnce == Spec => []SingleReaper
<1>1. ReaperInv => SingleReaper
  BY DEF ReaperInv
<1> QED
  BY <1>1, ReaperInvariant, PTL

-----------------------------------------------------------------------------
(* The callback port.  It is bound for an id not drawn before; a worker that  *)
(* has stopped listening has closed it.                                      *)

Listening(id) == worker[id] \in {"none", "spawned", "wait"}

PortHeld ==
    port # None =>
        \/ IsActive(session[port].status)
        \/ \E c \in Conns : conn[c].id = port /\ conn[c].pc \in {"create", "drop"}
        \/ \E c \in Conns : port \in conn[c].stop

SpawnStored == \A c \in Conns : conn[c].pc = "spawn" => session[conn[c].id].status # "NONE"

WorkerStored == \A id \in Ids : worker[id] # "none" => session[id].status # "NONE"

AnsweredClosed == \A id \in Ids : ~Listening(id) => port # id

PortInv == ReaperInv /\ PortHeld /\ SpawnStored /\ WorkerStored /\ AnsweredClosed

\* What the steps of a call do with the port, the workers and a login that is starting.
CallPort(c) ==
    /\ \/ port' \in {port, None}
       \/ port' = conn'[c].id /\ conn'[c].pc = "create" /\ session[port'].status = "NONE" /\ port' \in Ids
    /\ \/ UNCHANGED worker
       \/ conn[c].pc = "spawn" /\ worker' = [worker EXCEPT ![conn[c].id] = "spawned"]
    /\ conn[c].pc \in {"create", "drop"} /\ conn[c].id = port =>
          \/ port' = None
          \/ conn'[c].pc = "drop" /\ conn'[c].id = port
          \/ IsActive(session'[port].status)
    /\ conn'[c].pc = "spawn" => session'[conn'[c].id].status # "NONE"

\* Every step of a call, but the reaping itself, does only that.
LEMMA CallsPort ==
    ASSUME CompletionInv, NEW c \in Conns,
           \/ Call(c)
           \/ CreateLate(c) \/ CreateRefused(c) \/ CreateAccepted(c) \/ StartSpawn(c)
           \/ StartAssign(c) \/ StartFails(c) \/ StartDrop(c) \/ BeginCompletion(c)
           \/ BeginLost(c) \/ Exchange(c) \/ FinishAuthorized(c) \/ CompleteCatch(c)
           \/ CompleteRecord(c) \/ CompleteResnap(c) \/ Destroy(c)
    PROVE  CallPort(c)
<1>type. TypeOK
  BY DEF CompletionInv, TypeInv
<1>goto. \A label, x, owners : Goto(c, label, x, owners) => conn'[c].pc = label /\ conn'[c].id = x
  BY <1>type DEF Goto, TypeOK
<1>1. ASSUME NEW id \in Ids, StartBind(c, id) PROVE CallPort(c)
  BY <1>1, <1>goto DEF StartBind, CallPort, At
<1>2. CASE CreateLate(c) \/ CreateRefused(c)
  BY <1>2, <1>goto DEF CreateLate, CreateRefused, CallPort, At, Continue
<1>3. CASE CreateAccepted(c)
  <2>1. session'[conn[c].id] = NewSession /\ conn'[c].id = conn[c].id
    BY <1>3, <1>goto, CreateWalks DEF CreateAccepted, Continue
  <2> QED
    BY <1>3, <2>1 DEF CreateAccepted, CallPort, NewSession, IsActive, ActiveStatus
<1>4. CASE StartSpawn(c)
  BY <1>4, <1>type, <1>goto DEF StartSpawn, CallPort, At, Continue, TypeOK
<1>5. CASE StartDrop(c)
  BY <1>5, <1>goto DEF StartDrop, PortWithout, CallPort, At, Return
<1>6. ASSUME UNCHANGED <<port, worker>>, conn[c].pc \notin {"create", "drop"}, conn'[c].pc # "spawn"
      PROVE  CallPort(c)
  BY <1>6 DEF CallPort
<1>7. ASSUME NEW id \in Ids, AuthStatus(c, id) \/ AuthCancel(c, id) \/ CompleteSnapshot(c, id)
      PROVE  CallPort(c)
  BY <1>6, <1>7, <1>goto DEF AuthStatus, AuthCancel, CompleteSnapshot, At, Return
<1>8. CASE StartAssign(c) \/ StartFails(c) \/ BeginCompletion(c) \/ BeginLost(c) \/ Exchange(c)
  BY <1>6, <1>8, <1>goto
     DEF StartAssign, StartFails, BeginCompletion, BeginLost, Exchange, At, Return, Continue
<1>9. CASE FinishAuthorized(c) \/ CompleteCatch(c) \/ CompleteRecord(c) \/ CompleteResnap(c)
  BY <1>6, <1>9, <1>goto
     DEF FinishAuthorized, CompleteCatch, CompleteRecord, CompleteResnap, FinishFailed, At, Return,
         Continue
<1>10. CASE Destroy(c)
  BY <1>6, <1>10, <1>goto DEF Destroy, At
<1> QED
  BY <1>1, <1>2, <1>3, <1>4, <1>5, <1>7, <1>8, <1>9, <1>10 DEF Call

\* A call keeps the port with a login or with whoever is to close it.
LEMMA CallsKeepPort ==
    ASSUME PortInv, OwnersStep, NEW c \in Conns, HandsOver(c), CallPort(c),
           conn' \in [Conns -> Connection]
    PROVE  PortHeld' /\ SpawnStored' /\ WorkerStored' /\ AnsweredClosed'
<1> USE DEF PortInv
<1>type. TypeOK /\ CallsNamed
  BY DEF ReaperInv, CompletionInv, TypeInv
<1>others. \A d \in Conns : d # c => conn'[d] = conn[d]
  BY DEF HandsOver
<1>1. PortHeld'
  <2> SUFFICES ASSUME port' # None
               PROVE  \/ IsActive(session'[port'].status)
                      \/ \E d \in Conns : conn'[d].id = port' /\ conn'[d].pc \in {"create", "drop"}
                      \/ \E d \in Conns : port' \in conn'[d].stop
    BY DEF PortHeld
  <2>1. CASE port' = port
    <3>1. CASE IsActive(session[port].status)
      BY <1>type, <2>1, <3>1 DEF HandsOver, TypeOK, MaybeId
    <3>2. ASSUME NEW d \in Conns, conn[d].id = port, conn[d].pc \in {"create", "drop"}
          PROVE  \/ IsActive(session'[port'].status)
                 \/ \E x \in Conns : conn'[x].id = port' /\ conn'[x].pc \in {"create", "drop"}
      BY <1>others, <2>1, <3>2 DEF CallPort
    <3>3. ASSUME NEW d \in Conns, port \in conn[d].stop
          PROVE  \E x \in Conns : port' \in conn'[x].stop
      <4>1. d # c
        BY <3>3 DEF HandsOver, Ready
      <4> QED
        BY <1>others, <2>1, <3>3, <4>1
    <3> QED
      BY <2>1, <3>1, <3>2, <3>3 DEF PortHeld
  <2>2. CASE port' # port
    BY <2>2 DEF CallPort
  <2> QED
    BY <2>1, <2>2
<1>2. SpawnStored'
  <2> SUFFICES ASSUME NEW d \in Conns, conn'[d].pc = "spawn"
               PROVE  session'[conn'[d].id].status # "NONE"
    BY DEF SpawnStored
  <2>1. CASE d = c
    BY <2>1 DEF CallPort
  <2>2. CASE d # c
    BY <1>others, <1>type, <2>2 DEF SpawnStored, OwnersStep, CallsNamed
  <2> QED
    BY <2>1, <2>2
<1>3. WorkerStored'
  <2> SUFFICES ASSUME NEW id \in Ids, worker'[id] # "none"
               PROVE  session'[id].status # "NONE"
    BY DEF WorkerStored
  <2>1. session[id].status # "NONE"
    BY <1>type DEF CallPort, WorkerStored, SpawnStored, TypeOK
  <2> QED
    BY <2>1 DEF OwnersStep
<1>4. AnsweredClosed'
  <2> SUFFICES ASSUME NEW id \in Ids, ~Listening(id)', port' = id PROVE FALSE
    BY DEF AnsweredClosed
  <2>1. worker'[id] = worker[id] /\ ~Listening(id)
    BY <1>type DEF CallPort, Listening, TypeOK
  <2>2. port # id /\ session[id].status # "NONE"
    BY <2>1 DEF AnsweredClosed, WorkerStored, Listening
  <2> QED
    BY <2>2, NoneAssumption DEF CallPort
<1> QED
  BY <1>1, <1>2, <1>3, <1>4

\* Reaping closes the port of the owner it cancels.
LEMMA ReapKeepsPort ==
    ASSUME PortInv, NEW c \in Conns, Reap(c)
    PROVE  PortHeld' /\ SpawnStored' /\ WorkerStored' /\ AnsweredClosed'
<1> USE DEF PortInv
<1>type. TypeOK
  BY DEF ReaperInv, CompletionInv, TypeInv
<1>0. conn[c] \in Connection
  BY <1>type DEF TypeOK
<1>1. UNCHANGED <<session, worker>> /\ port' \in {port, None}
  BY DEF Reap, StopCancel, StopTake, StopJoin, PortWithout
<1>2. \A d \in Conns : Same(d)
  <2>1. ASSUME NEW id \in Ids, StopCancel(c, id) PROVE \A d \in Conns : Same(d)
    BY <1>type, <2>1 DEF StopCancel, Same, TypeOK, Connection
  <2>2. CASE StopTake(c)
    BY <1>type, <2>2 DEF StopTake, Same, TypeOK, Connection
  <2>3. CASE StopJoin(c)
    BY <1>type, <2>3 DEF StopJoin, Same, TypeOK, Connection
  <2> QED
    BY <2>1, <2>2, <2>3 DEF Reap
<1>3. ASSUME port' # None, NEW d \in Conns, port \in conn[d].stop PROVE port \in conn'[d].stop
  <2>1. ASSUME NEW id \in Ids, StopCancel(c, id) PROVE port \in conn'[d].stop
    <3>1. port # id
      BY <1>3, <2>1 DEF StopCancel, PortWithout
    <3>2. conn'[c].stop = conn[c].stop \ {id} /\ \A x \in Conns : x # c => conn'[x] = conn[x]
      BY <1>0, <1>type, <2>1 DEF StopCancel, TypeOK, Connection
    <3> QED
      BY <1>3, <3>1, <3>2
  <2>2. CASE StopTake(c) \/ StopJoin(c)
    <3>1. conn'[c].stop = conn[c].stop /\ \A x \in Conns : x # c => conn'[x] = conn[x]
      BY <1>0, <1>type, <2>2 DEF StopTake, StopJoin, TypeOK, Connection
    <3> QED
      BY <1>3, <3>1
  <2> QED
    BY <2>1, <2>2 DEF Reap
<1>4. PortHeld'
  BY <1>1, <1>2, <1>3 DEF PortHeld, Same
<1>5. SpawnStored' /\ WorkerStored'
  BY <1>1, <1>2 DEF SpawnStored, WorkerStored, Same
<1>6. AnsweredClosed'
  BY <1>1, NoneAssumption DEF AnsweredClosed, Listening
<1> QED
  BY <1>4, <1>5, <1>6

\* A worker closes the port when it stops listening, before it touches the session.
LEMMA WorkersKeepPort ==
    ASSUME PortInv, OwnersStep, NEW id \in Ids, Work(id) \/ WorkerAccept(id)
    PROVE  PortHeld' /\ SpawnStored' /\ WorkerStored' /\ AnsweredClosed'
<1> USE DEF PortInv
<1>type. TypeOK /\ CallsNamed
  BY DEF ReaperInv, CompletionInv, TypeInv
<1>1. UNCHANGED conn /\ port' \in {port, None} /\ \A i \in Ids : i # id => worker'[i] = worker[i]
  BY <1>type DEF Work, WorkerBegin, WorkerAccept, WorkerTimeout, WorkerCancelled, WorkerDeliver,
                 WorkerFail, WorkerSelfStop, WorkerExit, WorkerGoto, PortWithout, TypeOK
<1>2. worker[id] # "none"
  BY DEF Work, WorkerBegin, WorkerAccept, WorkerTimeout, WorkerCancelled, WorkerDeliver,
         WorkerFail, WorkerSelfStop, WorkerExit, Arrived, Failing
<1>3. \A i \in Ids : session'[i] = session[i] \/ (i = id /\ ~Listening(id))
  BY <1>type DEF Work, WorkerBegin, WorkerAccept, WorkerTimeout, WorkerCancelled, WorkerDeliver,
                 WorkerFail, WorkerSelfStop, WorkerExit, Arrived, Failing, Listening, TypeOK
<1>4. Listening(id)' \/ port' # id
  <2>1. CASE worker[id] = "spawned"
    <3>1. WorkerBegin(id)
      BY <2>1 DEF Work, WorkerBegin, WorkerAccept, WorkerTimeout, WorkerCancelled, WorkerDeliver,
                  WorkerFail, WorkerSelfStop, WorkerExit, Arrived, Failing
    <3>2. CASE id \in cancelled
      BY <3>1, <3>2, NoneAssumption DEF WorkerBegin, PortWithout
    <3>3. CASE id \notin cancelled
      BY <1>type, <3>1, <3>3 DEF WorkerBegin, WorkerGoto, Listening, TypeOK
    <3> QED
      BY <3>2, <3>3
  <2>2. CASE worker[id] = "wait"
    BY <2>2, NoneAssumption
       DEF Work, WorkerBegin, WorkerAccept, WorkerTimeout, WorkerCancelled, WorkerDeliver,
           WorkerFail, WorkerSelfStop, WorkerExit, Arrived, Failing, PortWithout
  <2>3. CASE worker[id] \notin {"spawned", "wait"}
    BY <1>1, <1>2, <2>3, NoneAssumption DEF AnsweredClosed, Listening
  <2> QED
    BY <2>1, <2>2, <2>3
<1>5. PortHeld'
  BY <1>1, <1>3, <1>type DEF PortHeld, AnsweredClosed, TypeOK, MaybeId
<1>6. SpawnStored'
  BY <1>1, <1>type DEF SpawnStored, OwnersStep, CallsNamed
<1>7. WorkerStored'
  BY <1>1, <1>2 DEF WorkerStored, OwnersStep
<1>8. AnsweredClosed'
  BY <1>1, <1>4, NoneAssumption DEF AnsweredClosed, Listening
<1> QED
  BY <1>5, <1>6, <1>7, <1>8

\* The port's invariant is inductive.
LEMMA PortStep ==
    PortInv /\ [Next]_vars => PortInv'
<1> SUFFICES ASSUME PortInv, [Next]_vars PROVE PortInv'
  OBVIOUS
<1>0. ReaperInv /\ CompletionInv /\ HeldInv
  BY DEF PortInv, ReaperInv
<1>1. ReaperInv' /\ OwnersStep
  BY <1>0, ReaperStep, OwnersStepLemma
<1>2. conn' \in [Conns -> Connection]
  BY <1>1 DEF ReaperInv, CompletionInv, TypeInv, TypeOK
<1>3. ASSUME NEW c \in Conns, Call(c) \/ Proceed(c) \/ Destroy(c)
      PROVE  PortHeld' /\ SpawnStored' /\ WorkerStored' /\ AnsweredClosed'
  <2>1. CASE Reap(c)
    BY <2>1, ReapKeepsPort
  <2>2. CASE ~Reap(c)
    <3>1. HandsOver(c)
      BY <1>0, <1>3, <2>2, CallsHandOver DEF Proceed
    <3>2. CallPort(c)
      BY <1>0, <1>3, <2>2, CallsPort DEF Proceed
    <3> QED
      BY <1>1, <1>2, <3>1, <3>2, CallsKeepPort
  <2> QED
    BY <2>1, <2>2
<1>4. ASSUME NEW id \in Ids, Work(id) \/ WorkerAccept(id)
      PROVE  PortHeld' /\ SpawnStored' /\ WorkerStored' /\ AnsweredClosed'
  BY <1>1, <1>4, WorkersKeepPort
<1>5. ASSUME UNCHANGED <<session, port, worker, conn>>
      PROVE  PortHeld' /\ SpawnStored' /\ WorkerStored' /\ AnsweredClosed'
  BY <1>5 DEF PortInv, PortHeld, SpawnStored, WorkerStored, AnsweredClosed, Listening
<1>6. ASSUME \/ \E c \in Conns : Interrupt(c)
             \/ \E id \in Ids : Lapse(id)
             \/ Terminated \/ UNCHANGED vars
      PROVE  UNCHANGED <<session, port, worker, conn>>
  BY <1>6 DEF Interrupt, Lapse, Terminated, vars
<1> QED
  BY <1>1, <1>3, <1>4, <1>5, <1>6 DEF Next, PortInv

\* The port's invariant holds in every reachable state.
LEMMA PortInvariant == Spec => []PortInv
<1>1. Init => PortHeld /\ SpawnStored /\ WorkerStored /\ AnsweredClosed
  BY DEF Init, PortHeld, SpawnStored, WorkerStored, AnsweredClosed, Listening
<1>2. PortInv => ReaperInv
  BY DEF PortInv
<1>3. ReaperInv /\ PortHeld /\ SpawnStored /\ WorkerStored /\ AnsweredClosed => PortInv
  BY DEF PortInv
<1> QED
  BY <1>1, <1>3, ReaperInvariant, PortStep, PTL DEF Spec

\* Cancellation, expiry and completion close the loopback listener: whatever way a login
\* ends, the callback port is held by nobody else than a login that is starting or active,
\* or a thread has the owner in hand that is going to close it.
THEOREM PortIsForLiveLogins == Spec => []PortForLiveLogin
<1>1. PortInv => PortForLiveLogin
  BY DEF PortInv, PortHeld, PortForLiveLogin
<1> QED
  BY <1>1, PortInvariant, PTL

-----------------------------------------------------------------------------
(* A COMPLETING session.  Without interrupts its holder ends it before it     *)
(* goes away.                                                                *)

Undisturbed == interrupted = {}

\* Only BeginCompletion makes a session COMPLETING.
LEMMA CompletingBegins ==
    ASSUME CompletionInv, [Next]_vars, NEW i \in Ids, session'[i].status = "COMPLETING"
    PROVE  \/ session[i].status = "COMPLETING"
           \/ \E c \in Conns : BeginCompletion(c) /\ conn[c].id = i
<1>type. TypeInv
  BY DEF CompletionInv
<1>0. ASSUME WalkStep PROVE session[i].status = "COMPLETING"
  BY <1>0 DEF WalkStep, Walks
<1>1. ASSUME NEW c \in Conns, CreateAccepted(c) PROVE session[i].status = "COMPLETING"
  BY <1>1, CreateWalks DEF Walks, NewSession
<1>2. ASSUME NEW c \in Conns, BeginCompletion(c), conn[c].id # i
      PROVE  session[i].status = "COMPLETING"
  BY <1>2, <1>type, BeginWalks
<1>3. ASSUME NEW c \in Conns, Call(c) \/ Proceed(c) \/ Interrupt(c), ~BeginCompletion(c)
      PROVE  session[i].status = "COMPLETING"
  BY <1>0, <1>1, <1>3, <1>type, CallsWalk DEF Call, Proceed
<1>4. ASSUME NEW id \in Ids, Work(id) \/ WorkerAccept(id) PROVE session[i].status = "COMPLETING"
  BY <1>0, <1>4, <1>type, WorkersWalk
<1>5. ASSUME NEW c \in Conns, Destroy(c) PROVE session[i].status = "COMPLETING"
  BY <1>5 DEF Destroy, Without, Gone
<1>6. ASSUME \/ \E id \in Ids : Lapse(id)
             \/ Terminated \/ UNCHANGED vars
      PROVE  session[i].status = "COMPLETING"
  BY <1>6 DEF Lapse, Terminated, vars
<1> QED
  BY <1>2, <1>3, <1>4, <1>5, <1>6 DEF Next

\* Without interrupts the holder of a session leaves it only once it has ended it.
LEMMA HolderStays ==
    ASSUME CompletionInv, Undisturbed, [Next]_vars, NEW h \in Conns, Holds(h),
           session'[conn[h].id].status = "COMPLETING"
    PROVE  Holds(h)' /\ conn'[h].id = conn[h].id
<1>type. TypeOK /\ CallsNamed /\ CompletionExclusive
  BY DEF CompletionInv, TypeInv, HolderInv
<1>id. conn[h].id \in Ids
  BY <1>type DEF CallsNamed, Holds, Owns
<1>pc. conn[h].pc \in {"exchange", "finish", "catch", "record"}
  BY DEF Holds, Owns
<1>goto. \A label, x, owners : Goto(h, label, x, owners) => conn'[h].pc = label /\ conn'[h].id = x
  BY <1>type DEF Goto, TypeOK
<1>other. ASSUME NEW c \in Conns, c # h,
                 NEW label, NEW x, NEW owners, Goto(c, label, x, owners)
          PROVE  conn'[h] = conn[h]
  BY <1>other, <1>type DEF Goto, TypeOK
<1>same. ASSUME Same(h) PROVE Holds(h)' /\ conn'[h].id = conn[h].id
  BY <1>same DEF Same, Holds, Owns
<1>1. ASSUME NEW c \in Conns, Reap(c) PROVE Same(h)
  <2>1. ASSUME NEW id \in Ids, StopCancel(c, id) PROVE Same(h)
    BY <1>type, <2>1 DEF StopCancel, Same, TypeOK, Connection
  <2>2. CASE StopTake(c)
    BY <1>type, <2>2 DEF StopTake, Same, TypeOK, Connection
  <2>3. CASE StopJoin(c)
    BY <1>type, <2>3 DEF StopJoin, Same, TypeOK, Connection
  <2> QED
    BY <1>1, <2>1, <2>2, <2>3 DEF Reap
<1>2. ASSUME FinishAuthorized(h) PROVE FALSE
  <2>1. Owns(h)
    BY <1>2 DEF FinishAuthorized, At, Owns
  <2>2. Completing(conn[h].id) /\ session[conn[h].id].status = "COMPLETING"
    BY <1>type, <2>1 DEF CompletionExclusive, Completing, Present, Absent
  <2>3. session'[conn[h].id] = Finish(conn[h].id, "AUTHORIZED", "none")
    BY <1>2, <1>id, <1>type, <2>2 DEF FinishAuthorized, TypeOK
  <2> QED
    BY <2>2, <2>3 DEF Finish, TerminalLocked, Terminal, TerminalStatus
<1>3. ASSUME FinishFailed(h, "resnap") PROVE FALSE
  <2>1. session'[conn[h].id] = IF Completing(conn[h].id)
                              THEN Finish(conn[h].id, "FAILED", "TOKEN_EXCHANGE_FAILED")
                              ELSE session[conn[h].id]
    BY <1>3, <1>id, <1>type DEF FinishFailed, TypeOK
  <2>2. CASE Completing(conn[h].id)
    BY <2>1, <2>2 DEF Completing, Finish, TerminalLocked, Terminal, TerminalStatus
  <2>3. CASE ~Completing(conn[h].id)
    BY <2>1, <2>3 DEF Completing, Present, Absent
  <2> QED
    BY <2>2, <2>3
<1>4. ASSUME Proceed(h), ~Reap(h) PROVE Holds(h)' /\ conn'[h].id = conn[h].id
  <2>1. Exchange(h) \/ CompleteCatch(h) \/ CompleteRecord(h) \/ FinishAuthorized(h)
    BY <1>4, <1>pc DEF Proceed, CreateLate, CreateRefused, CreateAccepted, StartSpawn, StartAssign,
                       StartFails, StartDrop, BeginCompletion, BeginLost, CompleteResnap, At
  <2>2. CASE Exchange(h)
    BY <1>goto, <2>2 DEF Exchange, Continue, Holds, Owns
  <2>3. CASE CompleteCatch(h)
    BY <1>goto, <2>3 DEF CompleteCatch, Undisturbed, Continue, Holds
  <2>4. CASE CompleteRecord(h)
    BY <1>3, <2>4 DEF CompleteRecord, Undisturbed
  <2> QED
    BY <1>2, <2>1, <2>2, <2>3, <2>4
<1>5. ~Call(h) /\ \A c \in Conns : ~Destroy(c)
  BY <1>pc DEF Call, StartBind, AuthStatus, AuthCancel, CompleteSnapshot, Destroy, At
<1>6. ASSUME NEW c \in Conns, c # h, Call(c) \/ Proceed(c), ~Reap(c) PROVE conn'[h] = conn[h]
  <2>1. ASSUME Call(c) PROVE conn'[h] = conn[h]
    BY <1>6, <1>other, <2>1
       DEF Call, StartBind, AuthStatus, AuthCancel, CompleteSnapshot, Return
  <2>2. ASSUME Proceed(c) PROVE conn'[h] = conn[h]
    BY <1>6, <1>other, <2>2
       DEF Proceed, CreateLate, CreateRefused, CreateAccepted, StartSpawn, StartAssign,
           StartFails, StartDrop, BeginCompletion, BeginLost, Exchange, FinishAuthorized,
           CompleteCatch, CompleteRecord, CompleteResnap, FinishFailed, Continue, Return
  <2> QED
    BY <1>6, <2>1, <2>2
<1>7. ASSUME \/ \E c \in Conns : Interrupt(c)
             \/ \E id \in Ids : Work(id) \/ WorkerAccept(id) \/ Lapse(id)
             \/ Terminated \/ UNCHANGED vars
      PROVE  UNCHANGED conn
  BY <1>7 DEF Interrupt, Work, WorkerBegin, WorkerAccept, WorkerTimeout, WorkerCancelled,
              WorkerDeliver, WorkerFail, WorkerSelfStop, WorkerExit, Lapse, Terminated, vars
<1>8. conn'[h] = conn[h] => Same(h)
  BY DEF Same
<1> QED
  BY <1>same, <1>1, <1>4, <1>5, <1>6, <1>7, <1>8 DEF Next

\* As long as statements are not interrupted, a COMPLETING session, which no sweep, status
\* call, cancellation or late callback may end, has a caller that is going to commit or to
\* fail it.
THEOREM CompletionsHaveOwners ==
    ASSUME Interruptible = {}
    PROVE  Spec => []CompletionHasOwner
<1>1. Init => Undisturbed /\ CompletionHasOwner
  BY DEF Init, Undisturbed, CompletionHasOwner, Gone
<1>2. Undisturbed /\ [Next]_vars => Undisturbed'
  <2> SUFFICES ASSUME [Next]_vars PROVE interrupted' \subseteq interrupted
    BY DEF Undisturbed
  <2>1. ASSUME NEW c \in Conns, Call(c) \/ Destroy(c) PROVE interrupted' \subseteq interrupted
    BY <2>1 DEF Call, StartBind, AuthStatus, AuthCancel, CompleteSnapshot, Return, Destroy
  <2>2. ASSUME NEW c \in Conns, Proceed(c) PROVE interrupted' \subseteq interrupted
    BY <2>2 DEF Proceed, Reap, StopCancel, StopTake, StopJoin, CreateLate, CreateRefused,
                CreateAccepted, StartSpawn, StartAssign, StartFails, StartDrop, BeginCompletion,
                BeginLost, Exchange, FinishAuthorized, CompleteCatch, CompleteRecord,
                CompleteResnap, FinishFailed, Continue, Return
  <2>3. ASSUME \/ \E id \in Ids : Work(id) \/ WorkerAccept(id) \/ Lapse(id)
               \/ Terminated \/ UNCHANGED vars
        PROVE  interrupted' \subseteq interrupted
    BY <2>3 DEF Work, WorkerBegin, WorkerAccept, WorkerTimeout, WorkerCancelled, WorkerDeliver,
                WorkerFail, WorkerSelfStop, WorkerExit, Lapse, Terminated, vars
  <2>4. ASSUME NEW c \in Conns PROVE ~Interrupt(c)
    BY DEF Interrupt
  <2> QED
    BY <2>1, <2>2, <2>3, <2>4 DEF Next
<1>3. CompletionInv /\ Undisturbed /\ CompletionHasOwner /\ [Next]_vars => CompletionHasOwner'
  <2> SUFFICES ASSUME CompletionInv, Undisturbed, CompletionHasOwner, [Next]_vars,
                      NEW i \in Ids, session'[i].status = "COMPLETING"
               PROVE  \E c \in Conns : conn'[c].id = i /\ Holds(c)'
    BY DEF CompletionHasOwner, Holds, Owns
  <2>1. ASSUME NEW c \in Conns, BeginCompletion(c), conn[c].id = i
        PROVE  \E d \in Conns : conn'[d].id = i /\ Holds(d)'
    BY <2>1 DEF CompletionInv, TypeInv, TypeOK, BeginCompletion, Continue, Goto, Holds, Owns
  <2>2. CASE session[i].status = "COMPLETING"
    <3>1. PICK h \in Conns : conn[h].id = i /\ Holds(h)
      BY <2>2 DEF CompletionHasOwner, Holds
    <3> QED
      BY <3>1, HolderStays
  <2> QED
    BY <2>1, <2>2, CompletingBegins
<1> QED
  BY <1>1, <1>2, <1>3, CompletionInvariant, PTL DEF Spec

-----------------------------------------------------------------------------
(* The limits.  Only Create adds a session, and it counts first.             *)

BoundsInv == IsFiniteSet(Stored(session)) /\ SessionBounds

\* Every step but the creation of a session adds none.
LEMMA OnlyCreateAdds ==
    ASSUME CompletionInv, [Next]_vars, \A c \in Conns : ~CreateAccepted(c)
    PROVE  Stored(session') \subseteq Stored(session) /\ ActiveIn(session') \subseteq ActiveIn(session)
<1> DEFINE Shrunk == \A i \in Ids : /\ session[i].status \in Absent => session'[i].status \in Absent
                                    /\ IsActive(session'[i].status) => IsActive(session[i].status)
<1>type. TypeInv /\ TypeOK
  BY DEF CompletionInv, TypeInv
<1>0. ASSUME WalkStep PROVE Shrunk
  BY <1>0 DEF WalkStep, Walks, Life!Move, Life!Outcomes, Absent, IsActive, ActiveStatus
<1>1. ASSUME NEW c \in Conns, BeginCompletion(c) PROVE Shrunk
  BY <1>1, <1>type, BeginWalks DEF Absent, IsActive, ActiveStatus
<1>2. ASSUME NEW c \in Conns, Call(c) \/ Proceed(c) \/ Interrupt(c) PROVE Shrunk
  BY <1>0, <1>1, <1>2, <1>type, CallsWalk DEF Call, Proceed
<1>3. ASSUME NEW id \in Ids, Work(id) \/ WorkerAccept(id) PROVE Shrunk
  BY <1>0, <1>3, <1>type, WorkersWalk
<1>4. ASSUME NEW c \in Conns, Destroy(c) PROVE Shrunk
  BY <1>4 DEF Destroy, Without, Gone, Absent, IsActive, ActiveStatus
<1>5. ASSUME \/ \E id \in Ids : Lapse(id)
             \/ Terminated \/ UNCHANGED vars
      PROVE  Shrunk
  BY <1>5 DEF Lapse, Terminated, vars
<1>6. Shrunk
  BY <1>2, <1>3, <1>4, <1>5 DEF Next
<1> QED
  BY <1>6 DEF Stored, ActiveIn

\* Create leaves room for the session it adds, by evicting finished ones.
LEMMA CreateHasRoom ==
    ASSUME CompletionInv, BoundsInv, NEW c \in Conns, CreateAccepted(c)
    PROVE  BoundsInv'
<1> DEFINE id == conn[c].id
<1>type. TypeOK
  BY DEF CompletionInv, TypeInv
<1>1. PICK gone \in SUBSET Ids : /\ Evicted(Swept, gone)
                                 /\ session' = [Without(Swept, gone) EXCEPT ![id] = NewSession]
  BY DEF CreateAccepted
<1>2. id \in Ids
  BY CreateWalks
<1>3. /\ \A i \in Ids : session'[i] = IF i = id THEN NewSession ELSE Without(Swept, gone)[i]
      /\ \A i \in Ids : Swept[i] = Fresh(i, TRUE)
      /\ \A i \in Ids : Without(Swept, gone)[i] = IF i \in gone THEN Gone("EVICTED") ELSE Swept[i]
  BY <1>type, <1>1, <1>2, SweptType DEF Swept, Without
<1>4. \A i \in Ids : \/ Swept[i] = session[i]
                     \/ Swept[i].status = "EXPIRED" /\ IsActive(session[i].status)
  <2> TAKE i \in Ids
  <2>1. \/ Fresh(i, TRUE) = session[i]
        \/ /\ session[i].status \in {"PENDING_USER_ACTION", "CALLBACK_RECEIVED"}
           /\ Fresh(i, TRUE).status = "EXPIRED"
    BY <1>type, FreshWalks
  <2> QED
    BY <1>3, <2>1 DEF IsActive, ActiveStatus
<1>5. Stored(Swept) \subseteq Stored(session) /\ ActiveIn(Swept) \subseteq Stored(Swept)
  BY <1>4 DEF Stored, ActiveIn, IsActive, ActiveStatus, Absent
<1>6. IsFiniteSet(Stored(Swept)) /\ IsFiniteSet(ActiveIn(Swept)) /\ IsFiniteSet(Stored(Swept) \ gone)
  <2>1. IsFiniteSet(Stored(session))
    BY DEF BoundsInv
  <2>2. IsFiniteSet(Stored(Swept))
    BY <1>5, <2>1, FS_Subset
  <2>3. IsFiniteSet(ActiveIn(Swept))
    BY <1>5, <2>2, FS_Subset
  <2>4. Stored(Swept) \ gone \subseteq Stored(Swept)
    OBVIOUS
  <2> QED
    BY <2>2, <2>3, <2>4, FS_Subset
<1>7. ActiveIn(session') \subseteq ActiveIn(Swept) \cup {id}
  BY <1>3 DEF ActiveIn, Gone, IsActive, ActiveStatus
<1>8. Stored(session') \subseteq (Stored(Swept) \ gone) \cup {id}
  BY <1>3 DEF Stored, Gone, Absent
<1>9. /\ Cardinality(ActiveIn(Swept)) \in Nat /\ Cardinality(Stored(Swept) \ gone) \in Nat
      /\ Cardinality(ActiveIn(Swept)) < MaxActive
      /\ MaxActive \in Nat /\ MaxSessions \in Nat /\ MaxActive < MaxSessions
  BY <1>6, FS_CardinalityType, BoundsAssumption DEF CreateAccepted
<1>10. Cardinality(Stored(Swept) \ gone) < MaxSessions
  <2>1. CASE gone = Finished(Swept)
    <3>1. Swept \in [Ids -> Session]
      BY <1>type, SweptType
    <3>2. \A i \in Ids : Swept[i].status \in Status
      BY <3>1 DEF Session
    <3>3. Stored(Swept) \ gone \subseteq ActiveIn(Swept)
      BY <2>1, <3>2 DEF Stored, Finished, ActiveIn, Status, Terminal, IsActive, Absent
    <3>4. Cardinality(Stored(Swept) \ gone) <= Cardinality(ActiveIn(Swept))
      BY <1>6, <3>3, FS_Subset
    <3> QED
      BY <1>9, <3>4
  <2> QED
    BY <1>1, <2>1 DEF Evicted
<1>11. ASSUME NEW S, NEW T, NEW x, IsFiniteSet(S), T \subseteq S \cup {x}, NEW n \in Nat,
              Cardinality(S) < n
       PROVE  IsFiniteSet(T) /\ Cardinality(T) <= n
  <2>1. Cardinality(S) \in Nat /\ IsFiniteSet(S \cup {x})
    BY <1>11, FS_CardinalityType, FS_AddElement
  <2>2. Cardinality(S \cup {x}) \in {Cardinality(S), Cardinality(S) + 1}
    BY <1>11, FS_AddElement
  <2>3. IsFiniteSet(T) /\ Cardinality(T) <= Cardinality(S \cup {x})
    BY <1>11, <2>1, FS_Subset
  <2>4. Cardinality(T) \in Nat
    BY <2>3, FS_CardinalityType
  <2> QED
    BY <1>11, <2>1, <2>2, <2>3, <2>4
<1> HIDE DEF id
<1>12. Cardinality(ActiveIn(session')) <= MaxActive
  BY <1>6, <1>7, <1>9, <1>11
<1>13. IsFiniteSet(Stored(session')) /\ Cardinality(Stored(session')) <= MaxSessions
  BY <1>6, <1>8, <1>9, <1>10, <1>11
<1> QED
  BY <1>12, <1>13 DEF BoundsInv, SessionBounds

\* However many connections start logins at once, and however the sweeps and evictions
\* fall, the registry admits at most MaxActive logins and keeps at most MaxSessions: Create
\* counts, evicts and stores under one hold of the mutex.
THEOREM BoundsHold == Spec => []SessionBounds
<1>1. Init => BoundsInv
  <2> SUFFICES ASSUME Init PROVE BoundsInv
    OBVIOUS
  <2>1. Stored(session) = {} /\ ActiveIn(session) = {}
    BY DEF Init, Gone, Stored, ActiveIn, Absent, IsActive, ActiveStatus
  <2>2. IsFiniteSet({}) /\ Cardinality({}) = 0
    BY FS_EmptySet
  <2>3. 0 <= MaxActive /\ 0 <= MaxSessions
    BY BoundsAssumption
  <2> QED
    BY <2>1, <2>2, <2>3 DEF BoundsInv, SessionBounds
<1>2. CompletionInv /\ BoundsInv /\ [Next]_vars => BoundsInv'
  <2> SUFFICES ASSUME CompletionInv, BoundsInv, [Next]_vars PROVE BoundsInv'
    OBVIOUS
  <2>1. CASE \E c \in Conns : CreateAccepted(c)
    BY <2>1, CreateHasRoom
  <2>2. CASE \A c \in Conns : ~CreateAccepted(c)
    <3>1. /\ Stored(session') \subseteq Stored(session)
          /\ ActiveIn(session') \subseteq ActiveIn(session)
          /\ ActiveIn(session) \subseteq Stored(session)
      BY <2>2, OnlyCreateAdds DEF ActiveIn, Stored, IsActive, ActiveStatus, Absent
    <3>2. IsFiniteSet(Stored(session)) /\ IsFiniteSet(ActiveIn(session))
      BY <3>1, FS_Subset DEF BoundsInv
    <3>3. /\ IsFiniteSet(Stored(session')) /\ IsFiniteSet(ActiveIn(session'))
          /\ Cardinality(Stored(session')) <= Cardinality(Stored(session))
          /\ Cardinality(ActiveIn(session')) <= Cardinality(ActiveIn(session))
      BY <3>1, <3>2, FS_Subset
    <3>4. /\ Cardinality(Stored(session)) \in Nat /\ Cardinality(ActiveIn(session)) \in Nat
          /\ Cardinality(Stored(session')) \in Nat /\ Cardinality(ActiveIn(session')) \in Nat
      BY <3>2, <3>3, FS_CardinalityType
    <3>5. Cardinality(Stored(session')) <= MaxSessions /\ Cardinality(ActiveIn(session')) <= MaxActive
      BY <3>3, <3>4, BoundsAssumption DEF BoundsInv, SessionBounds
    <3> QED
      BY <3>3, <3>5 DEF BoundsInv, SessionBounds
  <2> QED
    BY <2>1, <2>2
<1>3. BoundsInv => SessionBounds
  BY DEF BoundsInv
<1> QED
  BY <1>1, <1>2, <1>3, CompletionInvariant, PTL DEF Spec

-----------------------------------------------------------------------------
(* Teardown.  As long as no start takes longer than a session's lifetime and  *)
(* no session is evicted, a callback worker that still has the registry to    *)
(* call has its owner in the session or in the hands of a reaper, with a      *)
(* thread to join; the destructor reaps the owners that are left.            *)

Unevicted == PromptStart /\ IsFiniteSet(Ids) /\ Cardinality(Ids) <= MaxSessions

LaunchAlone ==
    \A c, d \in Conns : conn[c].pc \in {"spawn", "assign"} /\ conn[d].id = conn[c].id => d = c

Launched ==
    \A c \in Conns :
        /\ conn[c].pc = "spawn" => /\ session[conn[c].id].owner /\ conn[c].id \notin lapsed
                                   /\ worker[conn[c].id] = "none" /\ handle[conn[c].id] = "none"
        /\ conn[c].pc = "assign" => /\ conn[c].id \notin lapsed /\ handle[conn[c].id] = "none"
                                    /\ session[conn[c].id].status # "NONE"
                                    /\ UsesRegistry(conn[c].id) => session[conn[c].id].owner

HandleStored == \A id \in Ids : handle[id] # "none" => session[id].status # "NONE"

Tended == \A id \in Ids : UsesRegistry(id) => session[id].owner \/ \E c \in Conns : Reaps(c, id)

Joinable ==
    \A id \in Ids : UsesRegistry(id) =>
        \/ handle[id] = "joinable"
        \/ handle[id] = "none" /\ \E c \in Conns : conn[c].pc = "assign" /\ conn[c].id = id
        \/ handle[id] = "taken" /\ \E c \in Conns : conn[c].join = id

OneStop == \A c \in Conns : conn[c].cut = None \/ conn[c].join = None

ClosedAlone ==
    \A c \in Conns : conn[c].pc = "closed" =>
        /\ \A d \in Conns : d # c => At(d, "idle")
        /\ \A id \in Ids : ~session[id].owner

LaunchInv == LaunchAlone /\ Launched /\ HandleStored

TeardownInv == PortInv /\ LaunchInv /\ Tended /\ Joinable /\ OneStop /\ ClosedAlone

\* With no more ids than places in the map, Create finds a place for the new one.
LEMMA NothingEvicted ==
    ASSUME TypeOK, CreateIsFirst, Unevicted, NEW c \in Conns, conn[c].pc = "create", conn[c].id \in Ids,
           NEW gone \in SUBSET Ids, Evicted(Swept, gone)
    PROVE  gone = {}
<1> SUFFICES ASSUME gone # {} PROVE FALSE
  OBVIOUS
<1> DEFINE new == conn[c].id
<1>1. PICK g \in Ids : g \in gone
  OBVIOUS
<1>2. Swept[new].status = "NONE"
  BY DEF CreateIsFirst, At, Swept, Fresh, ExpireLocked, IsActive, ActiveStatus
<1>3. g # new
  BY <1>1, <1>2 DEF Evicted, Finished, Terminal, TerminalStatus
<1>4. Stored(Swept) \ gone \subseteq (Ids \ {g}) \ {new}
  BY <1>1, <1>2 DEF Stored, Absent
<1> HIDE DEF new
<1>5. /\ IsFiniteSet(Ids \ {g}) /\ Cardinality(Ids \ {g}) = Cardinality(Ids) - 1
      /\ Cardinality(Ids) \in Nat
  BY <1>1, FS_RemoveElement, FS_CardinalityType DEF Unevicted
<1>6. /\ IsFiniteSet((Ids \ {g}) \ {new})
      /\ Cardinality((Ids \ {g}) \ {new}) = Cardinality(Ids \ {g}) - 1
  <2>1. new \in Ids \ {g}
    BY <1>3 DEF new
  <2> QED
    BY <1>5, <2>1, FS_RemoveElement
<1>7. /\ Cardinality(Stored(Swept) \ gone) <= Cardinality((Ids \ {g}) \ {new})
      /\ IsFiniteSet(Stored(Swept) \ gone)
  BY <1>4, <1>6, FS_Subset
<1>8. Cardinality(Stored(Swept) \ gone) \in Nat
  BY <1>7, FS_CardinalityType
<1>9. Cardinality(Stored(Swept) \ gone) + 1 >= MaxSessions
  BY DEF Evicted
<1> QED
  BY <1>5, <1>6, <1>7, <1>8, <1>9, BoundsAssumption DEF Unevicted

\* A call touches the session it is about, the ones it finds in the map when it begins, and
\* those whose time is up.
LEMMA CallsTouch ==
    ASSUME CompletionInv, Unevicted, NEW c \in Conns, Call(c) \/ Proceed(c) \/ Interrupt(c),
           NEW i \in Ids, i \notin lapsed, conn[c].id # i, conn[c].pc = "idle" => ~Known(i)
    PROVE  session'[i] = session[i]
<1>type. TypeOK /\ CallsNamed
  BY DEF CompletionInv, TypeInv
<1>id. conn[c].pc \notin {"idle", "closed"} => conn[c].id \in Ids
  BY <1>type DEF CallsNamed
<1>0. ASSUME NEW id \in Ids, id # i, NEW t, session' = [session EXCEPT ![id] = t]
      PROVE  session'[i] = session[i]
  BY <1>0, <1>type DEF TypeOK
<1>1. ASSUME Call(c) PROVE session'[i] = session[i]
  <2>1. \A id \in Ids : ~(id = i /\ At(c, "idle") /\ Known(id))
    BY DEF At
  <2> QED
    BY <1>0, <1>1, <2>1 DEF Call, StartBind, AuthStatus, AuthCancel, CompleteSnapshot
<1>2. CASE CreateRefused(c) \/ CreateAccepted(c)
  <2>1. PICK gone \in SUBSET Ids :
           /\ Evicted(Swept, gone)
           /\ \/ session' = Without(Swept, gone)
              \/ session' = [Without(Swept, gone) EXCEPT ![conn[c].id] = NewSession]
    BY <1>2 DEF CreateRefused, CreateAccepted
  <2>2. gone = {}
    <3>1. conn[c].pc = "create" /\ conn[c].id \in Ids /\ CreateIsFirst
      BY <1>2, <1>id DEF CreateRefused, CreateAccepted, At, CompletionInv, HolderInv
    <3> QED
      BY <1>type, <2>1, <3>1, NothingEvicted
  <2>3. session'[i] = Swept[i]
    BY <1>type, <2>1, <2>2, SweptType DEF Without
  <2>4. Swept[i] = session[i]
    BY DEF Swept, Fresh, ExpireLocked
  <2> QED
    BY <2>3, <2>4
<1>3. CASE \/ Reap(c) \/ Interrupt(c) \/ CreateLate(c) \/ StartSpawn(c) \/ StartAssign(c)
           \/ StartDrop(c) \/ Exchange(c)
  BY <1>3 DEF Reap, StopCancel, StopTake, StopJoin, Interrupt, CreateLate, StartSpawn, StartAssign,
              StartDrop, Exchange
<1>4. CASE \/ StartFails(c) \/ BeginLost(c) \/ FinishAuthorized(c) \/ CompleteCatch(c)
           \/ CompleteRecord(c) \/ CompleteResnap(c)
  <2>1. conn[c].id \in Ids
    BY <1>4, <1>id DEF StartFails, BeginLost, FinishAuthorized, CompleteCatch, CompleteRecord,
                       CompleteResnap, At
  <2> QED
    BY <1>0, <1>4, <2>1 DEF StartFails, BeginLost, FinishAuthorized, CompleteCatch, CompleteRecord,
                            CompleteResnap, FinishFailed
<1>5. CASE BeginCompletion(c)
  BY <1>5, BeginWalks DEF CompletionInv
<1> QED
  BY <1>1, <1>2, <1>3, <1>4, <1>5 DEF Proceed

\* What the steps of a call do with the thread and with the place of the connection.
CallLaunch(c) ==
    /\ UNCHANGED lapsed /\ conn[c].pc # "closed" /\ conn'[c].pc # "closed"
    /\ conn'[c].cut = None /\ conn'[c].join = None
    /\ \/ UNCHANGED handle /\ conn[c].pc # "assign"
       \/ conn[c].pc = "assign" /\ handle' = [handle EXCEPT ![conn[c].id] = "joinable"]
    /\ UNCHANGED worker \/ conn'[c].pc = "assign"
    /\ conn'[c].pc = "assign" => /\ conn[c].pc = "spawn" /\ conn'[c].id = conn[c].id
                                 /\ UNCHANGED session
    /\ conn'[c].pc = "spawn" => /\ conn[c].pc = "create" /\ conn'[c].id = conn[c].id
                                /\ session'[conn[c].id] = NewSession /\ conn[c].id \notin lapsed
    /\ \/ conn'[c].id \in {conn[c].id, None}
       \/ conn[c].pc = "idle" /\ Known(conn'[c].id)
       \/ \A d \in Conns : conn[d].id # conn'[c].id
    /\ conn[c].pc = "idle" => Open

\* Every step of a call, but the reaping itself, does only that.
LEMMA CallsLaunch ==
    ASSUME CompletionInv, NEW c \in Conns, Call(c) \/ Proceed(c), ~Reap(c)
    PROVE  CallLaunch(c)
<1>type. TypeOK
  BY DEF CompletionInv, TypeInv
<1>goto. \A label, x, owners : Goto(c, label, x, owners) =>
            conn'[c].pc = label /\ conn'[c].id = x /\ conn'[c].cut = None /\ conn'[c].join = None
  BY <1>type DEF Goto, TypeOK
<1>1. ASSUME NEW id \in Ids, StartBind(c, id) PROVE CallLaunch(c)
  BY <1>1, <1>goto DEF StartBind, CallLaunch, At
<1>2. ASSUME NEW id \in Ids, AuthStatus(c, id) \/ AuthCancel(c, id) \/ CompleteSnapshot(c, id)
      PROVE  CallLaunch(c)
  BY <1>2, <1>goto DEF AuthStatus, AuthCancel, CompleteSnapshot, CallLaunch, At, Return
<1>3. CASE CreateLate(c) \/ CreateRefused(c) \/ StartFails(c) \/ StartDrop(c)
  BY <1>3, <1>goto DEF CreateLate, CreateRefused, StartFails, StartDrop, CallLaunch, At, Continue, Return
<1>4. CASE CreateAccepted(c)
  <2>1. session'[conn[c].id] = NewSession
    BY <1>4, CreateWalks
  <2> QED
    BY <1>4, <1>goto, <2>1 DEF CreateAccepted, CallLaunch, At, Continue
<1>5. CASE StartSpawn(c) \/ StartAssign(c)
  BY <1>5, <1>goto DEF StartSpawn, StartAssign, CallLaunch, At, Continue, Return
<1>6. CASE BeginCompletion(c) \/ BeginLost(c) \/ Exchange(c)
  <2>1. /\ At(c, "begin") \/ At(c, "exchange")
        /\ \E owners : \E label \in {"exchange", "resnap", "finish", "catch"} :
              Goto(c, label, conn[c].id, owners)
        /\ UNCHANGED <<lapsed, worker, handle>>
    BY <1>6 DEF BeginCompletion, BeginLost, Exchange, Continue
  <2> QED
    BY <1>goto, <2>1 DEF CallLaunch, At
<1>7. CASE FinishAuthorized(c) \/ CompleteCatch(c) \/ CompleteRecord(c) \/ CompleteResnap(c)
  BY <1>7, <1>goto DEF FinishAuthorized, CompleteCatch, CompleteRecord, CompleteResnap,
                       FinishFailed, CallLaunch, At, Continue, Return
<1> QED
  BY <1>1, <1>2, <1>3, <1>4, <1>5, <1>6, <1>7 DEF Call, Proceed

TeardownKept == LaunchInv' /\ Tended' /\ Joinable' /\ OneStop' /\ ClosedAlone'

\* The steps of the calls keep every worker with an owner and a thread to join.
LEMMA CallsKeepTeardown ==
    ASSUME TeardownInv, Unevicted, OwnersStep, NEW c \in Conns, Call(c) \/ Proceed(c), ~Reap(c)
    PROVE  TeardownKept
<1>inv. /\ CompletionInv /\ HeldInv /\ TypeOK /\ CallsNamed /\ CreateIsFirst
        /\ SpawnStored /\ WorkerStored
        /\ LaunchAlone /\ Launched /\ HandleStored /\ Tended /\ Joinable /\ OneStop /\ ClosedAlone
  BY DEF TeardownInv, LaunchInv, PortInv, ReaperInv, CompletionInv, TypeInv, HolderInv
<1>1. HandsOver(c)
  BY <1>inv, CallsHandOver DEF Proceed
<1>2. CallPort(c)
  BY <1>inv, CallsPort DEF Proceed
<1>3. CallLaunch(c)
  BY <1>inv, CallsLaunch
<1>others. \A d \in Conns : d # c => conn'[d] = conn[d]
  BY <1>1 DEF HandsOver
<1>ready. conn[c].stop = {} /\ conn[c].cut = None /\ conn[c].join = None
  BY <1>1 DEF HandsOver, Ready
<1>touch. \A i \in Ids : i \notin lapsed /\ conn[c].id # i /\ ~Known(i) => session'[i] = session[i]
  BY <1>inv, CallsTouch
<1>worker. \A i \in Ids : \/ worker'[i] = worker[i]
                          \/ /\ i = conn[c].id /\ conn[c].pc = "spawn" /\ conn'[c].pc = "assign"
                             /\ worker'[i] = "spawned"
  BY <1>2, <1>3, <1>inv DEF CallPort, CallLaunch, TypeOK
<1>handle. \A i \in Ids : \/ handle'[i] = handle[i] /\ ~(i = conn[c].id /\ conn[c].pc = "assign")
                          \/ i = conn[c].id /\ conn[c].pc = "assign" /\ handle'[i] = "joinable"
  BY <1>3, <1>inv DEF CallLaunch, TypeOK
<1>uses. \A i \in Ids : worker'[i] = worker[i] => (UsesRegistry(i)' <=> UsesRegistry(i))
  BY DEF UsesRegistry
<1>open. \A d \in Conns : conn[d].pc # "closed" /\ conn'[d].pc # "closed"
  BY <1>3, <1>inv, <1>others DEF ClosedAlone, At, CallLaunch, Open
<1>4. LaunchAlone'
  <2> SUFFICES ASSUME NEW a \in Conns, NEW d \in Conns, conn'[a].pc \in {"spawn", "assign"},
                      conn'[d].id = conn'[a].id
               PROVE  d = a
    BY DEF LaunchAlone
  <2>1. CASE a = c
    <3>1. conn'[c].id = conn[c].id /\ conn[c].pc \in {"spawn", "create"}
      BY <1>3, <2>1 DEF CallLaunch
    <3> QED
      BY <1>inv, <1>others, <2>1, <3>1 DEF LaunchAlone, CreateIsFirst
  <2>2. CASE a # c /\ d # c
    BY <1>inv, <1>others, <2>2 DEF LaunchAlone
  <2>3. CASE a # c /\ d = c
    <3>1. conn[a].pc \in {"spawn", "assign"} /\ conn'[c].id = conn[a].id /\ conn[a].id \in Ids
      BY <1>inv, <1>others, <2>3 DEF CallsNamed
    <3>2. conn[c].id # conn[a].id
      BY <1>inv, <2>3, <3>1 DEF LaunchAlone
    <3>3. ~Known(conn[a].id)
      BY <3>1 DEF Known, Starting
    <3> QED
      BY <1>3, <3>1, <3>2, <3>3, NoneAssumption DEF CallLaunch
  <2> QED
    BY <2>1, <2>2, <2>3
<1>5. Launched'
  <2>1. ASSUME NEW a \in Conns, a # c, conn'[a].pc \in {"spawn", "assign"}
        PROVE  /\ conn'[a] = conn[a] /\ conn[a].id \in Ids
               /\ session'[conn[a].id] = session[conn[a].id]
               /\ worker'[conn[a].id] = worker[conn[a].id]
               /\ handle'[conn[a].id] = handle[conn[a].id]
    <3>1. conn'[a] = conn[a] /\ conn[a].id \in Ids /\ conn[a].id \notin lapsed
      BY <1>inv, <1>others, <2>1 DEF Launched, CallsNamed
    <3>2. conn[c].id # conn[a].id /\ ~Known(conn[a].id)
      BY <1>inv, <2>1, <3>1 DEF LaunchAlone, Known, Starting
    <3> QED
      BY <1>touch, <1>worker, <1>handle, <3>1, <3>2
  <2>2. ASSUME conn'[c].pc = "spawn"
        PROVE  /\ session'[conn'[c].id].owner /\ conn'[c].id \notin lapsed
               /\ worker'[conn'[c].id] = "none" /\ handle'[conn'[c].id] = "none"
    <3>1. /\ conn[c].pc = "create" /\ conn'[c].id = conn[c].id /\ conn[c].id \notin lapsed
          /\ session'[conn[c].id] = NewSession
      BY <1>3, <2>2 DEF CallLaunch
    <3>2. session[conn[c].id].status = "NONE" /\ conn[c].id \in Ids
      BY <1>inv, <3>1 DEF CreateIsFirst, CallsNamed
    <3>3. worker[conn[c].id] = "none" /\ handle[conn[c].id] = "none"
      BY <1>inv, <3>2 DEF WorkerStored, HandleStored
    <3> QED
      BY <1>worker, <1>handle, <3>1, <3>2, <3>3 DEF NewSession
  <2>3. ASSUME conn'[c].pc = "assign"
        PROVE  /\ conn'[c].id \notin lapsed /\ handle'[conn'[c].id] = "none"
               /\ session'[conn'[c].id].status # "NONE" /\ session'[conn'[c].id].owner
    <3>1. conn[c].pc = "spawn" /\ conn'[c].id = conn[c].id /\ UNCHANGED session /\ conn[c].id \in Ids
      BY <1>3, <1>inv, <2>3 DEF CallLaunch, CallsNamed
    <3> QED
      BY <1>inv, <1>handle, <3>1 DEF Launched, SpawnStored
  <2>4. lapsed' = lapsed
    BY <1>3 DEF CallLaunch
  <2>5. ASSUME NEW a \in Conns, conn'[a].pc = "spawn"
        PROVE  /\ session'[conn'[a].id].owner /\ conn'[a].id \notin lapsed'
               /\ worker'[conn'[a].id] = "none" /\ handle'[conn'[a].id] = "none"
    BY <1>inv, <2>1, <2>2, <2>4, <2>5 DEF Launched
  <2>6. ASSUME NEW a \in Conns, conn'[a].pc = "assign"
        PROVE  /\ conn'[a].id \notin lapsed' /\ handle'[conn'[a].id] = "none"
               /\ session'[conn'[a].id].status # "NONE"
               /\ (worker'[conn'[a].id] \in {"spawned", "wait"} \cup Arrived \cup Failing)
                     => session'[conn'[a].id].owner
    BY <1>inv, <2>1, <2>3, <2>4, <2>6 DEF Launched, UsesRegistry
  <2> QED
    BY <2>5, <2>6 DEF Launched, UsesRegistry
<1>6. HandleStored'
  BY <1>inv, <1>handle DEF HandleStored, Launched, OwnersStep
<1>7. Tended'
  <2> SUFFICES ASSUME NEW i \in Ids, UsesRegistry(i)'
               PROVE  session'[i].owner \/ \E d \in Conns : Reaps(d, i)'
    BY DEF Tended
  <2>1. session[i].owner \/ \E d \in Conns : Reaps(d, i)
    BY <1>inv, <1>worker, <1>uses DEF Tended, Launched
  <2>2. CASE session[i].owner
    <3>1. conn[c].pc = "create" => \A gone \in SUBSET Ids : Evicted(Swept, gone) => i \notin gone
      <4>1. conn[c].pc = "create" => conn[c].id \in Ids
        BY <1>inv DEF CallsNamed
      <4> QED
        BY <1>inv, <4>1, NothingEvicted
    <3>2. session'[i].owner \/ i \in conn'[c].stop
      BY <1>1, <2>2, <3>1 DEF HandsOver
    <3> QED
      BY <3>2 DEF Reaps
  <2>3. ASSUME NEW d \in Conns, Reaps(d, i) PROVE Reaps(d, i)'
    BY <1>others, <1>ready, <2>3, NoneAssumption DEF Reaps
  <2> QED
    BY <2>1, <2>2, <2>3
<1>8. Joinable'
  <2> SUFFICES ASSUME NEW i \in Ids, UsesRegistry(i)'
               PROVE  \/ handle'[i] = "joinable"
                      \/ handle'[i] = "none" /\ \E d \in Conns : conn'[d].pc = "assign" /\ conn'[d].id = i
                      \/ handle'[i] = "taken" /\ \E d \in Conns : conn'[d].join = i
    BY DEF Joinable
  <2>1. CASE worker'[i] = worker[i]
    <3>1. UsesRegistry(i)
      BY <1>uses, <2>1
    <3>2. CASE handle[i] = "joinable"
      BY <1>handle, <3>2
    <3>3. ASSUME handle[i] = "none", NEW d \in Conns, conn[d].pc = "assign", conn[d].id = i
          PROVE  \/ handle'[i] = "joinable"
                 \/ handle'[i] = "none" /\ conn'[d].pc = "assign" /\ conn'[d].id = i
      BY <1>handle, <1>others, <3>3
    <3>4. ASSUME handle[i] = "taken", NEW d \in Conns, conn[d].join = i
          PROVE  handle'[i] = "joinable" \/ (handle'[i] = "taken" /\ conn'[d].join = i)
      BY <1>handle, <1>others, <1>ready, <3>4, NoneAssumption
    <3> QED
      BY <1>inv, <3>1, <3>2, <3>3, <3>4 DEF Joinable
  <2>2. CASE worker'[i] # worker[i]
    <3>1. i = conn[c].id /\ conn[c].pc = "spawn" /\ conn'[c].pc = "assign"
      BY <1>worker, <2>2
    <3>2. handle'[i] = "none" /\ conn'[c].id = i
      BY <1>3, <1>handle, <1>inv, <3>1 DEF CallLaunch, Launched
    <3> QED
      BY <3>1, <3>2
  <2> QED
    BY <2>1, <2>2
<1>9. OneStop'
  BY <1>3, <1>inv, <1>others DEF OneStop, CallLaunch
<1>10. ClosedAlone'
  BY <1>open DEF ClosedAlone
<1> QED
  BY <1>4, <1>5, <1>6, <1>7, <1>8, <1>9, <1>10 DEF TeardownKept, LaunchInv

\* Reaping takes the thread along with the owner, and lets go of it when it has ended.
LEMMA ReapKeepsTeardown ==
    ASSUME TeardownInv, NEW c \in Conns, Reap(c)
    PROVE  TeardownKept
<1>inv. /\ CompletionInv /\ TypeOK /\ CallsNamed /\ SingleReaper
        /\ LaunchAlone /\ Launched /\ HandleStored /\ Tended /\ Joinable /\ OneStop /\ ClosedAlone
  BY DEF TeardownInv, LaunchInv, PortInv, ReaperInv, CompletionInv, TypeInv
<1>0. conn[c] \in Connection
  BY <1>inv DEF TypeOK
<1>1. UNCHANGED <<session, lapsed, worker>>
  BY DEF Reap, StopCancel, StopTake, StopJoin
<1>others. \A d \in Conns : d # c => conn'[d] = conn[d]
  BY <1>inv, ReapShrinks
<1>2. \/ /\ conn'[c].pc = conn[c].pc /\ conn'[c].id = conn[c].id /\ UNCHANGED handle
         /\ conn[c].cut = None /\ conn[c].join = None /\ conn'[c].join = None
         /\ \E id \in Ids : /\ id \in conn[c].stop
                            /\ conn'[c].stop = conn[c].stop \ {id} /\ conn'[c].cut = id
      \/ /\ conn'[c].pc = conn[c].pc /\ conn'[c].id = conn[c].id /\ conn[c].cut \in Ids
         /\ conn'[c].stop = conn[c].stop /\ conn'[c].cut = None
         /\ \A i \in Ids : i # conn[c].cut => handle'[i] = handle[i]
         /\ \/ /\ handle[conn[c].cut] = "joinable" /\ handle'[conn[c].cut] = "taken"
               /\ conn'[c].join = conn[c].cut
            \/ /\ handle[conn[c].cut] # "joinable" /\ handle'[conn[c].cut] = handle[conn[c].cut]
               /\ conn'[c].join = None
      \/ /\ conn'[c].pc = conn[c].pc /\ conn'[c].id = conn[c].id /\ UNCHANGED handle
         /\ conn'[c].stop = conn[c].stop /\ conn'[c].cut = conn[c].cut
         /\ conn[c].join \in Ids /\ conn'[c].join = None /\ worker[conn[c].join] = "done"
  <2>1. ASSUME NEW id \in Ids, StopCancel(c, id)
        PROVE  /\ conn'[c].pc = conn[c].pc /\ conn'[c].id = conn[c].id /\ UNCHANGED handle
               /\ conn[c].cut = None /\ conn[c].join = None /\ conn'[c].join = None
               /\ id \in conn[c].stop
               /\ conn'[c].stop = conn[c].stop \ {id} /\ conn'[c].cut = id
    BY <1>0, <1>inv, <2>1 DEF StopCancel, TypeOK, Connection
  <2>2. ASSUME StopTake(c)
        PROVE  /\ conn'[c].pc = conn[c].pc /\ conn'[c].id = conn[c].id /\ conn[c].cut \in Ids
               /\ conn'[c].stop = conn[c].stop /\ conn'[c].cut = None
               /\ \A i \in Ids : i # conn[c].cut => handle'[i] = handle[i]
               /\ \/ /\ handle[conn[c].cut] = "joinable" /\ handle'[conn[c].cut] = "taken"
                     /\ conn'[c].join = conn[c].cut
                  \/ /\ handle[conn[c].cut] # "joinable" /\ handle'[conn[c].cut] = handle[conn[c].cut]
                     /\ conn'[c].join = None
    <3>1. conn[c].cut \in Ids /\ handle \in [Ids -> {"none", "joinable", "taken", "detached"}]
      BY <1>0, <1>inv, <2>2 DEF StopTake, TypeOK, Connection, MaybeId
    <3>2. CASE handle[conn[c].cut] = "joinable"
      BY <1>0, <1>inv, <2>2, <3>1, <3>2 DEF StopTake, TypeOK, Connection
    <3>3. CASE handle[conn[c].cut] # "joinable"
      BY <1>0, <1>inv, <2>2, <3>1, <3>3 DEF StopTake, TypeOK, Connection
    <3> QED
      BY <3>2, <3>3
  <2>3. ASSUME StopJoin(c)
        PROVE  /\ conn'[c].pc = conn[c].pc /\ conn'[c].id = conn[c].id /\ UNCHANGED handle
               /\ conn'[c].stop = conn[c].stop /\ conn'[c].cut = conn[c].cut
               /\ conn[c].join \in Ids /\ conn'[c].join = None /\ worker[conn[c].join] = "done"
    BY <1>0, <1>inv, <2>3 DEF StopJoin, TypeOK, Connection, MaybeId
  <2> QED
    BY <2>1, <2>2, <2>3 DEF Reap
<1>same. \A d \in Conns : conn'[d].pc = conn[d].pc /\ conn'[d].id = conn[d].id
  BY <1>2, <1>others
<1>handle. \A i \in Ids : \/ handle'[i] = handle[i]
                          \/ handle[i] = "joinable" /\ handle'[i] = "taken" /\ conn'[c].join = i
  BY <1>2
<1>uses. \A i \in Ids : UsesRegistry(i)' <=> UsesRegistry(i)
  BY <1>1 DEF UsesRegistry
<1>done. \A i \in Ids : UsesRegistry(i) => worker[i] # "done"
  BY DEF UsesRegistry, Arrived, Failing
<1>3. LaunchAlone'
  BY <1>inv, <1>same DEF LaunchAlone
<1>4. Launched'
  <2>1. ASSUME NEW d \in Conns, conn[d].pc \in {"spawn", "assign"}
        PROVE  handle'[conn[d].id] = "none" /\ conn[d].id \in Ids
    BY <1>handle, <1>inv, <2>1 DEF Launched, CallsNamed
  <2> QED
    BY <1>1, <1>inv, <1>same, <1>uses, <2>1 DEF Launched
<1>5. HandleStored'
  BY <1>1, <1>handle, <1>inv DEF HandleStored
<1>6. Tended'
  <2> SUFFICES ASSUME NEW i \in Ids, UsesRegistry(i), ~session[i].owner
               PROVE  \E d \in Conns : Reaps(d, i)'
    BY <1>1, <1>uses DEF Tended
  <2>1. PICK d \in Conns : Reaps(d, i)
    BY <1>inv DEF Tended
  <2>2. CASE d # c
    BY <1>others, <2>1, <2>2 DEF Reaps
  <2>3. CASE d = c
    <3>1. ASSUME conn[c].cut = i PROVE handle[i] = "joinable"
      <4>1. ~(handle[i] = "none" /\ \E e \in Conns : conn[e].pc = "assign" /\ conn[e].id = i)
        BY <1>inv DEF Launched
      <4>2. ~\E e \in Conns : conn[e].join = i
        <5> SUFFICES ASSUME NEW e \in Conns, conn[e].join = i PROVE FALSE
          OBVIOUS
        <5>1. e = c
          BY <1>inv, <3>1 DEF SingleReaper
        <5> QED
          BY <1>inv, <3>1, <5>1, NoneAssumption DEF OneStop
      <4> QED
        BY <1>inv, <4>1, <4>2 DEF Joinable
    <3>2. worker[i] # "done"
      BY <1>done
    <3>3. i \in conn'[c].stop \/ conn'[c].cut = i \/ conn'[c].join = i
      <4>1. CASE i \in conn[c].stop
        BY <1>2, <4>1
      <4>2. CASE conn[c].cut = i
        BY <1>2, <3>1, <4>2, NoneAssumption
      <4>3. CASE conn[c].join = i
        BY <1>2, <1>inv, <3>2, <4>3, NoneAssumption DEF OneStop
      <4> QED
        BY <2>1, <2>3, <4>1, <4>2, <4>3 DEF Reaps
    <3> QED
      BY <3>3 DEF Reaps
  <2> QED
    BY <2>2, <2>3
<1>7. Joinable'
  <2> SUFFICES ASSUME NEW i \in Ids, UsesRegistry(i)
               PROVE  \/ handle'[i] = "joinable"
                      \/ handle'[i] = "none" /\ \E d \in Conns : conn'[d].pc = "assign" /\ conn'[d].id = i
                      \/ handle'[i] = "taken" /\ \E d \in Conns : conn'[d].join = i
    BY <1>uses DEF Joinable
  <2>1. CASE handle[i] = "joinable"
    BY <1>handle, <2>1
  <2>2. CASE handle[i] = "none" /\ \E d \in Conns : conn[d].pc = "assign" /\ conn[d].id = i
    BY <1>handle, <1>same, <2>2
  <2>3. ASSUME handle[i] = "taken", NEW d \in Conns, conn[d].join = i
        PROVE  handle'[i] = "taken" /\ conn'[d].join = i
    <3>1. handle'[i] = "taken"
      BY <1>handle, <2>3
    <3>2. CASE d # c
      BY <1>others, <2>3, <3>1, <3>2
    <3>3. CASE d = c
      <4>1. conn[c].join = i /\ conn[c].cut = None /\ worker[i] # "done"
        BY <1>done, <1>inv, <2>3, <3>3, NoneAssumption DEF OneStop
      <4> QED
        BY <1>2, <3>1, <3>3, <4>1, NoneAssumption
    <3> QED
      BY <3>2, <3>3
  <2> QED
    BY <1>inv, <2>1, <2>2, <2>3 DEF Joinable
<1>8. OneStop'
  BY <1>2, <1>inv, <1>others DEF OneStop
<1>9. ClosedAlone'
  <2> SUFFICES ASSUME NEW a \in Conns, conn[a].pc = "closed", NEW d \in Conns, d # a
               PROVE  conn'[d] = conn[d]
    BY <1>1, <1>inv, <1>same DEF ClosedAlone, At, Ready
  <2>1. conn[d].stop = {} /\ conn[d].cut = None /\ conn[d].join = None
    BY <1>inv DEF ClosedAlone, At, Ready
  <2>2. d # c
    BY <1>2, <2>1, NoneAssumption
  <2> QED
    BY <1>others, <2>2
<1> QED
  BY <1>3, <1>4, <1>5, <1>6, <1>7, <1>8, <1>9 DEF TeardownKept, LaunchInv

\* ReceiveCallback and ReceiveDenied leave the owner with the session.
LEMMA ReceivedKeepsOwner ==
    ASSUME TypeOK, NEW id \in Ids, NEW pc \in Arrived, session[id].owner
    PROVE  Received(id, pc).owner
<1>1. Fresh(id, FALSE) \in Session
  BY SessionOperatorsType
<1>2. Fresh(id, FALSE).owner
  BY DEF Fresh, ExpireLocked, TerminalLocked
<1> QED
  BY <1>1, <1>2 DEF Received, TerminalLocked, Session

\* A worker that gives up its owner has made its last call on the registry.
LEMMA WorkersKeepTeardown ==
    ASSUME TeardownInv, OwnersStep, NEW id \in Ids, Work(id) \/ WorkerAccept(id)
    PROVE  TeardownKept
<1>inv. /\ CompletionInv /\ TypeOK /\ TypeInv /\ CallsNamed
        /\ LaunchAlone /\ Launched /\ HandleStored /\ Tended /\ Joinable /\ OneStop /\ ClosedAlone
  BY DEF TeardownInv, LaunchInv, PortInv, ReaperInv, CompletionInv, TypeInv
<1>type. TypeOK'
  BY <1>inv, TypeStep DEF Next, TypeInv
<1>1. UNCHANGED <<conn, lapsed>>
  BY DEF Work, WorkerBegin, WorkerAccept, WorkerTimeout, WorkerCancelled, WorkerDeliver,
         WorkerFail, WorkerSelfStop, WorkerExit
<1>2. worker[id] # "none" /\ \A i \in Ids : i # id => worker'[i] = worker[i]
  BY <1>inv DEF Work, WorkerBegin, WorkerAccept, WorkerTimeout, WorkerCancelled, WorkerDeliver,
                WorkerFail, WorkerSelfStop, WorkerExit, WorkerGoto, Arrived, Failing, TypeOK
<1>3. \A i \in Ids : i # id => session'[i] = session[i]
  BY <1>inv DEF Work, WorkerBegin, WorkerAccept, WorkerTimeout, WorkerCancelled, WorkerDeliver,
                WorkerFail, WorkerSelfStop, WorkerExit, TypeOK
<1>4. \A i \in Ids : \/ handle'[i] = handle[i]
                     \/ i = id /\ handle[i] = "joinable" /\ handle'[i] = "detached"
  <2>1. UNCHANGED handle \/ handle' = Detached(id)
    BY DEF Work, WorkerBegin, WorkerAccept, WorkerTimeout, WorkerCancelled, WorkerDeliver,
           WorkerFail, WorkerSelfStop, WorkerExit
  <2> QED
    BY <1>inv, <2>1 DEF Detached, TypeOK
<1>5. UsesRegistry(id)' => /\ UsesRegistry(id) /\ UNCHANGED handle
                           /\ session[id].owner => session'[id].owner
  <2> SUFFICES ASSUME UsesRegistry(id)'
               PROVE  /\ UsesRegistry(id) /\ UNCHANGED handle
                      /\ session[id].owner => session'[id].owner
    OBVIOUS
  <2>1. worker'[id] \notin {"selfstop", "exit", "done"}
    BY DEF UsesRegistry, Arrived, Failing
  <2>2. ~WorkerFail(id) /\ ~WorkerSelfStop(id) /\ ~WorkerExit(id) /\ ~WorkerCancelled(id)
    BY <1>inv, <2>1
       DEF WorkerFail, WorkerSelfStop, WorkerExit, WorkerCancelled, WorkerGoto, TypeOK
  <2>3. CASE WorkerDeliver(id)
    <3>1. UsesRegistry(id) /\ UNCHANGED handle
      BY <2>3 DEF WorkerDeliver, UsesRegistry
    <3>2. session'[id] \in {session[id], Received(id, worker[id])}
      BY <1>inv, <2>3 DEF WorkerDeliver, TypeOK
    <3>3. session[id].owner => Received(id, worker[id]).owner
      BY <1>inv, <2>3, ReceivedKeepsOwner DEF WorkerDeliver
    <3> QED
      BY <3>1, <3>2, <3>3
  <2>4. CASE WorkerBegin(id) \/ WorkerAccept(id) \/ WorkerTimeout(id)
    BY <2>4 DEF WorkerBegin, WorkerAccept, WorkerTimeout, UsesRegistry
  <2> QED
    BY <2>2, <2>3, <2>4 DEF Work
<1>uses. \A i \in Ids : UsesRegistry(i)' => /\ UsesRegistry(i) /\ handle'[i] = handle[i]
                                            /\ session[i].owner => session'[i].owner
  BY <1>2, <1>3, <1>4, <1>5 DEF UsesRegistry
<1>6. LaunchAlone' /\ OneStop'
  BY <1>1, <1>inv DEF LaunchAlone, OneStop
<1>7. Launched'
  <2>1. ASSUME NEW a \in Conns, conn[a].pc = "spawn"
        PROVE  /\ session'[conn[a].id].owner
               /\ worker'[conn[a].id] = "none" /\ handle'[conn[a].id] = "none"
    <3>1. conn[a].id \in Ids /\ conn[a].id # id
      BY <1>2, <1>inv, <2>1 DEF Launched, CallsNamed
    <3> QED
      BY <1>2, <1>3, <1>4, <1>inv, <2>1, <3>1 DEF Launched
  <2>2. ASSUME NEW a \in Conns, conn[a].pc = "assign"
        PROVE  /\ handle'[conn[a].id] = "none" /\ session'[conn[a].id].status # "NONE"
               /\ UsesRegistry(conn[a].id)' => session'[conn[a].id].owner
    <3>1. conn[a].id \in Ids
      BY <1>inv, <2>2 DEF CallsNamed
    <3>2. handle'[conn[a].id] = "none"
      BY <1>4, <1>inv, <2>2, <3>1 DEF Launched
    <3>3. session'[conn[a].id].status # "NONE"
      BY <1>inv, <2>2, <3>1 DEF Launched, OwnersStep
    <3>4. UsesRegistry(conn[a].id)' => session'[conn[a].id].owner
      BY <1>1, <1>inv, <1>uses, <2>2, <3>1 DEF Launched, UsesRegistry
    <3> QED
      BY <3>2, <3>3, <3>4
  <2> QED
    BY <1>1, <1>inv, <2>1, <2>2 DEF Launched, UsesRegistry
<1>8. HandleStored'
  BY <1>4, <1>inv DEF HandleStored, OwnersStep
<1>9. Tended'
  BY <1>1, <1>inv, <1>uses DEF Tended, Reaps
<1>10. Joinable'
  BY <1>1, <1>inv, <1>uses DEF Joinable
<1>11. ClosedAlone'
  <2>1. \A i \in Ids : session'[i].owner => session[i].owner
    BY <1>inv, <1>type, WorkersWalk, WalkOwners DEF WalkStep, TypeOK
  <2> QED
    BY <1>1, <1>inv, <2>1 DEF ClosedAlone, At, Ready
<1> QED
  BY <1>6, <1>7, <1>8, <1>9, <1>10, <1>11 DEF TeardownKept, LaunchInv

\* The destructor takes the owners of all workers that are left.
LEMMA DestroyKeepsTeardown ==
    ASSUME TeardownInv, OwnersStep, NEW c \in Conns, Destroy(c)
    PROVE  TeardownKept
<1>inv. /\ TypeOK /\ AbsentOwnsNothing
        /\ HandleStored /\ Tended /\ Joinable
  BY DEF TeardownInv, LaunchInv, PortInv, ReaperInv, HeldInv, CompletionInv, TypeInv
<1>1. \A d \in Conns : /\ conn[d].pc = "idle" /\ conn[d].stop = {}
                       /\ conn[d].cut = None /\ conn[d].join = None
  BY DEF Destroy, At, Ready
<1>2. /\ conn'[c].pc = "closed" /\ conn'[c].stop = {i \in Ids : session[i].owner}
      /\ conn'[c].cut = None /\ conn'[c].join = None
      /\ \A d \in Conns : d # c => conn'[d] = conn[d]
  BY <1>inv DEF Destroy, Goto, TypeOK
<1>3. \A i \in Ids : ~session'[i].owner
  BY <1>inv DEF Destroy, Without, Stored, Gone, AbsentOwnsNothing
<1>4. UNCHANGED <<lapsed, worker, handle>>
  BY DEF Destroy
<1>5. \A d \in Conns : conn'[d].pc \in {"idle", "closed"}
  BY <1>1, <1>2
<1>6. LaunchAlone' /\ Launched'
  BY <1>5 DEF LaunchAlone, Launched
<1>7. HandleStored'
  BY <1>4, <1>inv DEF HandleStored, OwnersStep
<1>8. Tended'
  BY <1>1, <1>2, <1>4, <1>inv, NoneAssumption DEF Tended, UsesRegistry, Reaps
<1>9. Joinable'
  BY <1>1, <1>4, <1>inv, NoneAssumption DEF Joinable, UsesRegistry
<1>10. OneStop'
  BY <1>1, <1>2 DEF OneStop
<1>11. ClosedAlone'
  BY <1>1, <1>2, <1>3 DEF ClosedAlone, At, Ready
<1> QED
  BY <1>6, <1>7, <1>8, <1>9, <1>10, <1>11 DEF TeardownKept, LaunchInv

\* Under the hypothesis the teardown's invariant is inductive.
LEMMA TeardownStep ==
    ASSUME Unevicted
    PROVE  TeardownInv /\ [Next]_vars => TeardownInv'
<1> SUFFICES ASSUME TeardownInv, [Next]_vars PROVE TeardownInv'
  OBVIOUS
<1>inv. PortInv /\ CompletionInv /\ CallsNamed
  BY DEF TeardownInv, PortInv, ReaperInv, CompletionInv, TypeInv
<1>1. PortInv' /\ OwnersStep
  BY <1>inv, PortStep, OwnersStepLemma
<1>2. ASSUME NEW c \in Conns, Call(c) \/ Proceed(c) \/ Destroy(c) PROVE TeardownKept
  BY <1>1, <1>2, CallsKeepTeardown, ReapKeepsTeardown, DestroyKeepsTeardown
<1>3. ASSUME NEW id \in Ids, Work(id) \/ WorkerAccept(id) PROVE TeardownKept
  BY <1>1, <1>3, WorkersKeepTeardown
<1>4. ASSUME UNCHANGED <<session, worker, handle, conn>>,
             \A c \in Conns : conn[c].pc \in {"spawn", "assign"} /\ conn[c].id \notin lapsed
                               => conn[c].id \notin lapsed'
      PROVE  TeardownKept
  BY <1>4 DEF TeardownInv, LaunchInv, LaunchAlone, Launched, HandleStored, Tended, Joinable, OneStop,
              ClosedAlone, TeardownKept, UsesRegistry, Reaps, At, Ready
<1>5. ASSUME NEW id \in Ids, Lapse(id) PROVE TeardownKept
  <2>1. \A c \in Conns : conn[c].pc \in {"spawn", "assign"} => conn[c].id # id
    BY <1>5 DEF Lapse, Starting, Unevicted
  <2> QED
    BY <1>4, <1>5, <2>1 DEF Lapse
<1>6. CASE (\E c \in Conns : Interrupt(c)) \/ Terminated \/ UNCHANGED vars
  BY <1>1, <1>4, <1>6 DEF Interrupt, Terminated, vars, TeardownInv, TeardownKept
<1> QED
  BY <1>1, <1>2, <1>3, <1>5, <1>6 DEF Next, TeardownInv, TeardownKept

\* A SQL caller or database teardown reaps every callback worker: if data360_auth_start
\* never takes longer than a session's lifetime and no more logins are started than the map
\* has places, so that none is evicted, then no worker has a call on the registry left to
\* make when the destructor has reaped the owners it holds.  (The run auth_evicted_owner
\* shows that an eviction breaks this.)
THEOREM TeardownReapsWorkers ==
    ASSUME PromptStart, IsFiniteSet(Ids), Cardinality(Ids) <= MaxSessions
    PROVE  Spec => []TeardownReaps
<1>0. Unevicted
  BY DEF Unevicted
<1>1. Init => LaunchInv /\ Tended /\ Joinable /\ OneStop /\ ClosedAlone
  BY DEF Init, LaunchInv, LaunchAlone, Launched, HandleStored, Tended, Joinable, OneStop, ClosedAlone,
         UsesRegistry, Arrived, Failing
<1>2. PortInv /\ LaunchInv /\ Tended /\ Joinable /\ OneStop /\ ClosedAlone => TeardownInv
  BY DEF TeardownInv
<1>3. TeardownInv /\ [Next]_vars => TeardownInv'
  BY <1>0, TeardownStep
<1>4. TeardownInv => TeardownReaps
  <2> SUFFICES ASSUME TeardownInv, NEW c \in Conns, At(c, "closed"), NEW id \in Ids
               PROVE  ~UsesRegistry(id)
    BY DEF TeardownReaps
  <2>1. \A d \in Conns : Ready(d)
    BY DEF TeardownInv, ClosedAlone, At
  <2>2. ~session[id].owner
    BY DEF TeardownInv, ClosedAlone, At
  <2>3. \A d \in Conns : ~Reaps(d, id)
    BY <2>1, NoneAssumption DEF Ready, Reaps
  <2> QED
    BY <2>2, <2>3 DEF TeardownInv, Tended
<1> QED
  BY <1>1, <1>2, <1>3, <1>4, PortInvariant, PTL DEF Spec

-----------------------------------------------------------------------------
(* A login that waits for the user.  Only Create makes a session pending, and *)
(* it finds the port bound by the call it runs in; a start that fails lets go *)
(* of the port after the session is over.  Whoever raises `cancelled' has the *)
(* owner, which a pending session never gave up.                             *)

StartsAlone ==
    \A c, d \in Conns : conn[c].pc \in {"spawn", "drop"} /\ conn[d].id = conn[c].id => d = c

SpawnIsFirst == \A c \in Conns : conn[c].pc = "spawn" => worker[conn[c].id] = "none"

CreateHasPort == \A c \in Conns : conn[c].pc = "create" => port = conn[c].id

DropIsOver ==
    \A c \in Conns : conn[c].pc = "drop" => session[conn[c].id].status # "PENDING_USER_ACTION"

CancelledStored == \A id \in cancelled : session[id].status # "NONE"

StartInv == StartsAlone /\ SpawnIsFirst /\ CreateHasPort /\ DropIsOver /\ CancelledStored

PendingInv == PortInv /\ StartInv /\ PendingCanBeAnswered

PendingKept == StartInv' /\ PendingCanBeAnswered'

\* A session is pending because Create has just stored it, or was pending before.
LEMMA PendingBegins ==
    ASSUME CompletionInv, [Next]_vars, NEW i \in Ids, session'[i].status = "PENDING_USER_ACTION"
    PROVE  \/ session[i].status = "PENDING_USER_ACTION"
           \/ \E c \in Conns : CreateAccepted(c) /\ conn[c].id = i
<1>type. TypeInv
  BY DEF CompletionInv
<1>0. ASSUME Walks(i, session'[i]) PROVE session[i].status = "PENDING_USER_ACTION"
  BY <1>0 DEF Walks, Life!Move
<1>1. ASSUME NEW c \in Conns, CreateAccepted(c), conn[c].id # i
      PROVE  session[i].status = "PENDING_USER_ACTION"
  BY <1>0, <1>1, CreateWalks
<1>2. ASSUME NEW c \in Conns, BeginCompletion(c) PROVE session[i].status = "PENDING_USER_ACTION"
  BY <1>2, <1>type, BeginWalks
<1>3. ASSUME NEW c \in Conns, Call(c) \/ Proceed(c) \/ Interrupt(c), ~CreateAccepted(c), ~BeginCompletion(c)
      PROVE  session[i].status = "PENDING_USER_ACTION"
  BY <1>0, <1>3, <1>type, CallsWalk DEF Call, Proceed, WalkStep
<1>4. ASSUME NEW id \in Ids, Work(id) \/ WorkerAccept(id)
      PROVE  session[i].status = "PENDING_USER_ACTION"
  BY <1>0, <1>4, <1>type, WorkersWalk DEF WalkStep
<1>5. ASSUME NEW c \in Conns, Destroy(c) PROVE session[i].status = "PENDING_USER_ACTION"
  BY <1>5 DEF Destroy, Without, Gone
<1>6. ASSUME \/ \E id \in Ids : Lapse(id)
             \/ Terminated \/ UNCHANGED vars
      PROVE  session[i].status = "PENDING_USER_ACTION"
  BY <1>6 DEF Lapse, Terminated, vars
<1> QED
  BY <1>1, <1>2, <1>3, <1>4, <1>5, <1>6 DEF Next

\* What the steps of a call do with the port of a login that is starting.
CallStart(c) ==
    /\ UNCHANGED cancelled
    /\ \/ port' = port
       \/ port = None
       \/ port = conn[c].id /\ conn[c].pc = "drop"
    /\ conn'[c].pc = "create" =>
          port' = conn'[c].id /\ conn[c].pc = "idle" /\ \A d \in Conns : conn[d].id # conn'[c].id
    /\ conn'[c].pc = "drop" =>
          /\ conn[c].pc \in {"create", "spawn"} /\ conn'[c].id = conn[c].id
          /\ session'[conn[c].id].status # "PENDING_USER_ACTION"
    /\ conn'[c].pc = "spawn" =>
          /\ conn[c].pc = "create" /\ conn'[c].id = conn[c].id
    /\ conn'[c].id \in {conn[c].id, None} \/ ~Starting(conn'[c].id)
    /\ \/ UNCHANGED worker
       \/ conn[c].pc = "spawn" /\ worker' = [worker EXCEPT ![conn[c].id] = "spawned"]

\* Every step of a call, but the reaping itself, does only that.
LEMMA CallsStart ==
    ASSUME CompletionInv, [Next]_vars, NEW c \in Conns,
           \/ Call(c)
           \/ CreateLate(c) \/ CreateRefused(c) \/ CreateAccepted(c) \/ StartSpawn(c)
           \/ StartAssign(c) \/ StartFails(c) \/ StartDrop(c) \/ BeginCompletion(c)
           \/ BeginLost(c) \/ Exchange(c) \/ FinishAuthorized(c) \/ CompleteCatch(c)
           \/ CompleteRecord(c) \/ CompleteResnap(c) \/ Destroy(c)
    PROVE  CallStart(c)
<1>type. TypeOK /\ CallsNamed /\ CreateIsFirst
  BY DEF CompletionInv, TypeInv, HolderInv
<1>goto. \A label, x, owners : Goto(c, label, x, owners) => conn'[c].pc = label /\ conn'[c].id = x
  BY <1>type DEF Goto, TypeOK
<1>1. ASSUME NEW id \in Ids, StartBind(c, id) PROVE CallStart(c)
  BY <1>1, <1>goto DEF StartBind, CallStart, At, Starting
<1>2. CASE CreateLate(c) \/ CreateRefused(c)
  <2>1. conn[c].id \in Ids /\ session[conn[c].id].status = "NONE" /\ conn[c].pc = "create"
    BY <1>2, <1>type DEF CreateLate, CreateRefused, At, CallsNamed, CreateIsFirst
  <2>2. ~\E d \in Conns : CreateAccepted(d) /\ conn[d].id = conn[c].id
    <3> SUFFICES ASSUME NEW d \in Conns, CreateAccepted(d), conn[d].id = conn[c].id PROVE FALSE
      OBVIOUS
    <3>1. d = c
      BY <1>type, <2>1 DEF CreateIsFirst
    <3>2. conn'[c].pc = "spawn" /\ conn'[c].pc = "drop"
      BY <1>2, <1>goto, <3>1 DEF CreateLate, CreateRefused, CreateAccepted, Continue
    <3> QED
      BY <3>2
  <2>3. session'[conn[c].id].status # "PENDING_USER_ACTION"
    BY <2>1, <2>2, PendingBegins
  <2> QED
    BY <1>2, <1>goto, <2>1, <2>3 DEF CreateLate, CreateRefused, CallStart, At, Continue
<1>3. CASE CreateAccepted(c)
  BY <1>3, <1>goto DEF CreateAccepted, CallStart, At, Continue
<1>4. CASE StartSpawn(c)
  BY <1>4, <1>type, <1>goto DEF StartSpawn, CallStart, At, Continue
<1>5. CASE StartDrop(c)
  BY <1>5, <1>goto DEF StartDrop, PortWithout, CallStart, At, Return
<1>6. CASE StartFails(c)
  <2> DEFINE id == conn[c].id
             s == IF Present(id) THEN CancelSession(id) ELSE session[id]
  <2>1. id \in Ids /\ conn[c].pc = "spawn"
    BY <1>6, <1>type DEF StartFails, At, CallsNamed
  <2>2. session'[id] = s
    BY <1>6, <1>type, <2>1 DEF StartFails, TypeOK
  <2>3. s.status # "PENDING_USER_ACTION"
    BY DEF Present, Absent, CancelSession, TerminalLocked, Terminal, TerminalStatus
  <2>4. conn'[c].pc = "drop" /\ conn'[c].id = id
    BY <1>6, <1>goto DEF StartFails, Continue
  <2> QED
    BY <1>6, <2>1, <2>2, <2>3, <2>4 DEF StartFails, CallStart
<1>7. ASSUME UNCHANGED <<port, worker, cancelled>>, conn'[c].pc \notin {"create", "drop", "spawn"},
             conn'[c].id \in {conn[c].id, None} \/ Known(conn'[c].id)
      PROVE  CallStart(c)
  BY <1>7 DEF CallStart, Known
<1>8. ASSUME NEW id \in Ids, AuthStatus(c, id) \/ AuthCancel(c, id) \/ CompleteSnapshot(c, id)
      PROVE  CallStart(c)
  BY <1>7, <1>8, <1>goto DEF AuthStatus, AuthCancel, CompleteSnapshot, At, Return
<1>9. CASE StartAssign(c) \/ BeginCompletion(c) \/ BeginLost(c) \/ Exchange(c)
  BY <1>7, <1>9, <1>goto DEF StartAssign, BeginCompletion, BeginLost, Exchange, At, Return, Continue
<1>10. CASE FinishAuthorized(c) \/ CompleteCatch(c) \/ CompleteRecord(c) \/ CompleteResnap(c)
  BY <1>7, <1>10, <1>goto
     DEF FinishAuthorized, CompleteCatch, CompleteRecord, CompleteResnap, FinishFailed, At, Return,
         Continue
<1>11. CASE Destroy(c)
  BY <1>7, <1>11, <1>goto DEF Destroy, At
<1> QED
  BY <1>1, <1>2, <1>3, <1>4, <1>5, <1>6, <1>8, <1>9, <1>10, <1>11 DEF Call

\* A call leaves the port with the pending logins, and binds it before it stores one.
LEMMA CallsKeepPending ==
    ASSUME PendingInv, [Next]_vars, OwnersStep, NEW c \in Conns, HandsOver(c), CallStart(c),
           conn' \in [Conns -> Connection]
    PROVE  PendingKept
<1>inv. /\ CompletionInv /\ TypeOK /\ CallsNamed /\ CreateIsFirst /\ WorkerStored
        /\ StartsAlone /\ SpawnIsFirst /\ CreateHasPort /\ DropIsOver /\ CancelledStored
        /\ PendingCanBeAnswered
  BY DEF PendingInv, StartInv, PortInv, ReaperInv, CompletionInv, TypeInv, HolderInv
<1>others. \A d \in Conns : d # c => conn'[d] = conn[d]
  BY DEF HandsOver
<1>begins. \A i \in Ids : session'[i].status = "PENDING_USER_ACTION" =>
              \/ session[i].status = "PENDING_USER_ACTION"
              \/ \E d \in Conns : conn[d].pc = "create" /\ conn[d].id = i
  BY <1>inv, PendingBegins DEF CreateAccepted, At
<1>port. ASSUME NEW i \in Ids, port = i,
                conn[c].pc = "drop" => conn[c].id # i
         PROVE  port' = i
  BY <1>port, NoneAssumption DEF CallStart
<1>worker. \A i \in Ids : \/ worker'[i] = worker[i]
                          \/ /\ i = conn[c].id /\ conn[c].pc = "spawn" /\ worker[i] = "none"
                             /\ worker'[i] = "spawned"
  BY <1>inv DEF CallStart, SpawnIsFirst, TypeOK
<1>1. StartsAlone'
  <2> SUFFICES ASSUME NEW a \in Conns, NEW d \in Conns, conn'[a].pc \in {"spawn", "drop"},
                      conn'[d].id = conn'[a].id
               PROVE  d = a
    BY DEF StartsAlone
  <2>1. CASE a = c
    <3>1. conn'[c].id = conn[c].id /\ conn[c].pc \in {"spawn", "create"}
      BY <2>1 DEF CallStart
    <3> QED
      BY <1>inv, <1>others, <2>1, <3>1 DEF StartsAlone, CreateIsFirst
  <2>2. CASE a # c /\ d # c
    BY <1>inv, <1>others, <2>2 DEF StartsAlone
  <2>3. CASE a # c /\ d = c
    <3>1. conn[a].pc \in {"spawn", "drop"} /\ conn'[c].id = conn[a].id /\ conn[a].id \in Ids
      BY <1>inv, <1>others, <2>3 DEF CallsNamed
    <3>2. conn[c].id # conn[a].id /\ Starting(conn[a].id)
      BY <1>inv, <2>3, <3>1 DEF StartsAlone, Starting
    <3> QED
      BY <3>1, <3>2, NoneAssumption DEF CallStart
  <2> QED
    BY <2>1, <2>2, <2>3
<1>2. SpawnIsFirst'
  <2> SUFFICES ASSUME NEW a \in Conns, conn'[a].pc = "spawn" PROVE worker'[conn'[a].id] = "none"
    BY DEF SpawnIsFirst
  <2>1. CASE a = c
    <3>1. conn'[c].id = conn[c].id /\ conn[c].pc = "create" /\ conn[c].id \in Ids
      BY <1>inv, <2>1 DEF CallStart, CallsNamed
    <3>2. worker[conn[c].id] = "none"
      BY <1>inv, <3>1 DEF CreateIsFirst, WorkerStored
    <3> QED
      BY <1>worker, <2>1, <3>1, <3>2
  <2>2. CASE a # c
    <3>1. conn'[a] = conn[a] /\ conn[a].id \in Ids /\ conn[a].id # conn[c].id
      BY <1>inv, <1>others, <2>2 DEF StartsAlone, CallsNamed
    <3> QED
      BY <1>inv, <1>worker, <3>1 DEF SpawnIsFirst
  <2> QED
    BY <2>1, <2>2
<1>3. CreateHasPort'
  <2> SUFFICES ASSUME NEW a \in Conns, conn'[a].pc = "create" PROVE port' = conn'[a].id
    BY DEF CreateHasPort
  <2>1. CASE a = c
    BY <2>1 DEF CallStart
  <2>2. CASE a # c
    <3>1. conn'[a] = conn[a] /\ conn[a].id \in Ids /\ conn[a].id # conn[c].id /\ port = conn[a].id
      BY <1>inv, <1>others, <2>2 DEF CreateIsFirst, CallsNamed, CreateHasPort
    <3> QED
      BY <1>port, <3>1
  <2> QED
    BY <2>1, <2>2
<1>4. DropIsOver'
  <2> SUFFICES ASSUME NEW a \in Conns, conn'[a].pc = "drop",
                      session'[conn'[a].id].status = "PENDING_USER_ACTION"
               PROVE  FALSE
    BY DEF DropIsOver
  <2>1. CASE a = c
    BY <2>1 DEF CallStart
  <2>2. CASE a # c
    <3>1. conn'[a] = conn[a] /\ conn[a].id \in Ids /\ conn[a].pc = "drop"
      BY <1>inv, <1>others, <2>2 DEF CallsNamed
    <3>2. ~\E d \in Conns : conn[d].pc = "create" /\ conn[d].id = conn[a].id
      BY <1>inv, <3>1 DEF CreateIsFirst
    <3> QED
      BY <1>begins, <1>inv, <3>1, <3>2 DEF DropIsOver
  <2> QED
    BY <2>1, <2>2
<1>5. CancelledStored'
  BY <1>inv DEF CancelledStored, CallStart, OwnersStep, TypeOK
<1>6. PendingCanBeAnswered'
  <2> SUFFICES ASSUME NEW i \in Ids, session'[i].status = "PENDING_USER_ACTION"
               PROVE  \/ port' = i /\ i \notin cancelled' /\ worker'[i] \in {"none", "spawned", "wait"}
                      \/ worker'[i] \in Arrived \cup Failing
    BY DEF PendingCanBeAnswered
  <2>1. \/ port = i /\ i \notin cancelled /\ worker[i] \in {"none", "spawned", "wait"}
        \/ worker[i] \in Arrived \cup Failing
    <3>1. CASE session[i].status = "PENDING_USER_ACTION"
      BY <1>inv, <3>1 DEF PendingCanBeAnswered
    <3>2. ASSUME NEW d \in Conns, conn[d].pc = "create", conn[d].id = i
          PROVE  port = i /\ i \notin cancelled /\ worker[i] = "none"
      BY <1>inv, <3>2 DEF CreateHasPort, CreateIsFirst, CancelledStored, WorkerStored
    <3> QED
      BY <1>begins, <3>1, <3>2
  <2>2. conn[c].pc = "drop" => conn[c].id # i
    <3> SUFFICES ASSUME conn[c].pc = "drop", conn[c].id = i PROVE FALSE
      OBVIOUS
    <3>1. session[i].status # "PENDING_USER_ACTION"
      BY <1>inv DEF DropIsOver
    <3>2. ~\E d \in Conns : conn[d].pc = "create" /\ conn[d].id = i
      BY <1>inv DEF CreateIsFirst
    <3> QED
      BY <1>begins, <3>1, <3>2
  <2>3. cancelled' = cancelled
    BY DEF CallStart
  <2>4. CASE worker[i] \in Arrived \cup Failing
    BY <1>worker, <2>4 DEF Arrived, Failing
  <2>5. CASE port = i /\ i \notin cancelled /\ worker[i] \in {"none", "spawned", "wait"}
    BY <1>port, <1>worker, <2>2, <2>3, <2>5
  <2> QED
    BY <2>1, <2>4, <2>5
<1> QED
  BY <1>1, <1>2, <1>3, <1>4, <1>5, <1>6 DEF PendingKept, StartInv

\* Reaping closes the listener of a session that is over.
LEMMA ReapKeepsPending ==
    ASSUME PendingInv, NEW c \in Conns, Reap(c)
    PROVE  PendingKept
<1>inv. /\ ReaperInv /\ TypeOK /\ CallsNamed /\ CreateIsFirst /\ HeldInv /\ UnbornIsNotReaped
        /\ SingleReaper /\ StartsAlone /\ SpawnIsFirst /\ CreateHasPort /\ DropIsOver
        /\ CancelledStored /\ PendingCanBeAnswered
  BY DEF PendingInv, StartInv, PortInv, ReaperInv, CompletionInv, TypeInv, HolderInv
<1>same. \A d \in Conns : Same(d)
  <2>1. ASSUME NEW id \in Ids, StopCancel(c, id) PROVE \A d \in Conns : Same(d)
    BY <1>inv, <2>1 DEF StopCancel, Same, TypeOK, Connection
  <2>2. CASE StopTake(c)
    BY <1>inv, <2>2 DEF StopTake, Same, TypeOK, Connection
  <2>3. CASE StopJoin(c)
    BY <1>inv, <2>3 DEF StopJoin, Same, TypeOK, Connection
  <2> QED
    BY <2>1, <2>2, <2>3 DEF Reap
<1>1. UNCHANGED <<session, worker>>
  BY DEF Reap, StopCancel, StopTake, StopJoin
<1>2. CASE UNCHANGED <<port, cancelled>>
  BY <1>1, <1>2, <1>inv, <1>same
     DEF PendingKept, StartInv, StartsAlone, SpawnIsFirst, CreateHasPort, DropIsOver,
         CancelledStored, PendingCanBeAnswered, Same
<1>3. ASSUME NEW id \in Ids, StopCancel(c, id) PROVE PendingKept
  <2>1. Reaps(c, id) /\ cancelled' = cancelled \cup {id} /\ port' = IF port = id THEN None ELSE port
    BY <1>3 DEF StopCancel, Reaps, PortWithout
  <2>2. session[id].status \notin {"NONE", "PENDING_USER_ACTION"}
    BY <1>inv, <2>1 DEF UnbornIsNotReaped, SingleReaper, Reaps, HeldInv, ActiveOwns, IsActive, ActiveStatus
  <2>3. StartsAlone' /\ SpawnIsFirst' /\ DropIsOver'
    BY <1>1, <1>inv, <1>same DEF StartsAlone, SpawnIsFirst, DropIsOver, Same
  <2>4. CreateHasPort'
    BY <1>inv, <1>same, <2>1, <2>2 DEF CreateHasPort, CreateIsFirst, Same
  <2>5. CancelledStored'
    BY <1>1, <1>inv, <2>1, <2>2 DEF CancelledStored
  <2>6. PendingCanBeAnswered'
    BY <1>1, <1>inv, <2>1, <2>2 DEF PendingCanBeAnswered
  <2> QED
    BY <2>3, <2>4, <2>5, <2>6 DEF PendingKept, StartInv
<1> QED
  BY <1>2, <1>3 DEF Reap, StopTake, StopJoin

\* A worker leaves the port for what it has received, and ends a pending login when it fails.
LEMMA WorkersKeepPending ==
    ASSUME PendingInv, [Next]_vars, OwnersStep, NEW id \in Ids, Work(id) \/ WorkerAccept(id)
    PROVE  PendingKept
<1>inv. /\ CompletionInv /\ TypeOK /\ CallsNamed /\ CreateIsFirst /\ WorkerStored /\ SpawnStored
        /\ StartsAlone /\ SpawnIsFirst /\ CreateHasPort /\ DropIsOver /\ CancelledStored
        /\ PendingCanBeAnswered
  BY DEF PendingInv, StartInv, PortInv, ReaperInv, CompletionInv, TypeInv, HolderInv
<1>1. /\ UNCHANGED conn /\ port' \in {port, PortWithout(id)} /\ cancelled' \in {cancelled, cancelled \cup {id}}
      /\ \A i \in Ids : i # id => worker'[i] = worker[i] /\ session'[i] = session[i]
  BY <1>inv DEF Work, WorkerBegin, WorkerAccept, WorkerTimeout, WorkerCancelled, WorkerDeliver,
                WorkerFail, WorkerSelfStop, WorkerExit, WorkerGoto, TypeOK
<1>2. worker[id] # "none"
  BY DEF Work, WorkerBegin, WorkerAccept, WorkerTimeout, WorkerCancelled, WorkerDeliver,
         WorkerFail, WorkerSelfStop, WorkerExit, Arrived, Failing
<1>3. session[id].status # "NONE"
  BY <1>2, <1>inv DEF WorkerStored
<1>4. session'[id].status = "PENDING_USER_ACTION" => session[id].status = "PENDING_USER_ACTION"
  <2>1. ASSUME Walks(id, session'[id]) PROVE session'[id].status = "PENDING_USER_ACTION"
                                              => session[id].status = "PENDING_USER_ACTION"
    BY <2>1, <1>3 DEF Walks, Life!Move
  <2> QED
    BY <1>inv, <2>1, WorkersWalk DEF WalkStep, CompletionInv
<1>5. StartsAlone' /\ SpawnIsFirst'
  BY <1>1, <1>2, <1>inv DEF StartsAlone, SpawnIsFirst, CallsNamed
<1>6. CreateHasPort'
  BY <1>1, <1>3, <1>inv DEF CreateHasPort, CreateIsFirst, PortWithout
<1>7. DropIsOver'
  BY <1>1, <1>4, <1>inv DEF DropIsOver, CallsNamed
<1>8. CancelledStored'
  BY <1>1, <1>3, <1>inv DEF CancelledStored, OwnersStep, TypeOK
<1>9. ASSUME session'[id].status = "PENDING_USER_ACTION"
      PROVE  \/ port' = id /\ id \notin cancelled' /\ worker'[id] \in {"none", "spawned", "wait"}
             \/ worker'[id] \in Arrived \cup Failing
  <2>1. \/ port = id /\ id \notin cancelled /\ worker[id] \in {"none", "spawned", "wait"}
        \/ worker[id] \in Arrived \cup Failing
    BY <1>4, <1>9, <1>inv DEF PendingCanBeAnswered
  <2>2. CASE WorkerBegin(id)
    BY <1>inv, <2>1, <2>2 DEF WorkerBegin, WorkerGoto, TypeOK, Arrived, Failing
  <2>3. CASE WorkerAccept(id) \/ WorkerTimeout(id)
    BY <1>inv, <2>3 DEF WorkerAccept, WorkerTimeout, WorkerGoto, TypeOK, Arrived, Failing
  <2>4. CASE WorkerCancelled(id) \/ WorkerSelfStop(id) \/ WorkerExit(id)
    BY <2>1, <2>4 DEF WorkerCancelled, WorkerSelfStop, WorkerExit, Arrived, Failing
  <2>5. CASE WorkerDeliver(id)
    <3>1. Present(id)
      BY <1>4, <1>9 DEF Present, Absent
    <3>2. session'[id] = Received(id, worker[id])
      BY <1>inv, <2>5, <3>1 DEF WorkerDeliver, TypeOK
    <3>3. Fresh(id, FALSE) \in Session
      BY <1>inv, SessionOperatorsType
    <3>4. Received(id, worker[id]).status # "PENDING_USER_ACTION"
      BY <3>3 DEF Received, TerminalLocked, Terminal, TerminalStatus, Session
    <3> QED
      BY <1>9, <3>2, <3>4
  <2>6. CASE WorkerFail(id)
    <3>1. Present(id) /\ session[id].status # "COMPLETING"
      BY <1>4, <1>9 DEF Present, Absent
    <3>2. session'[id] = TerminalLocked(session[id], "FAILED", "CALLBACK_PROTOCOL_ERROR", TRUE)
      BY <1>inv, <2>6, <3>1 DEF WorkerFail, TypeOK
    <3> QED
      BY <1>9, <3>2 DEF TerminalLocked, Terminal, TerminalStatus
  <2> QED
    BY <2>2, <2>3, <2>4, <2>5, <2>6 DEF Work
<1>10. PendingCanBeAnswered'
  <2> SUFFICES ASSUME NEW i \in Ids, session'[i].status = "PENDING_USER_ACTION"
               PROVE  \/ port' = i /\ i \notin cancelled' /\ worker'[i] \in {"none", "spawned", "wait"}
                      \/ worker'[i] \in Arrived \cup Failing
    BY DEF PendingCanBeAnswered
  <2>1. CASE i # id
    BY <1>1, <1>inv, <2>1 DEF PendingCanBeAnswered, PortWithout
  <2> QED
    BY <1>9, <2>1
<1> QED
  BY <1>5, <1>6, <1>7, <1>8, <1>10 DEF PendingKept, StartInv

\* The invariant of the pending logins is inductive.
LEMMA PendingStep ==
    PendingInv /\ [Next]_vars => PendingInv'
<1> SUFFICES ASSUME PendingInv, [Next]_vars PROVE PendingInv'
  OBVIOUS
<1>0. PortInv /\ CompletionInv /\ HeldInv
  BY DEF PendingInv, PortInv, ReaperInv
<1>1. PortInv' /\ OwnersStep
  BY <1>0, PortStep, OwnersStepLemma
<1>2. conn' \in [Conns -> Connection]
  BY <1>1 DEF PortInv, ReaperInv, CompletionInv, TypeInv, TypeOK
<1>3. ASSUME NEW c \in Conns, Call(c) \/ Proceed(c) \/ Destroy(c) PROVE PendingKept
  <2>1. CASE Reap(c)
    BY <2>1, ReapKeepsPending
  <2>2. CASE ~Reap(c)
    <3>1. HandsOver(c)
      BY <1>0, <1>3, <2>2, CallsHandOver DEF Proceed
    <3>2. CallStart(c)
      BY <1>0, <1>3, <2>2, CallsStart DEF Proceed
    <3> QED
      BY <1>1, <1>2, <3>1, <3>2, CallsKeepPending
  <2> QED
    BY <2>1, <2>2
<1>4. ASSUME NEW id \in Ids, Work(id) \/ WorkerAccept(id) PROVE PendingKept
  BY <1>1, <1>4, WorkersKeepPending
<1>5. ASSUME UNCHANGED <<session, port, worker, cancelled, conn>> PROVE PendingKept
  BY <1>5 DEF PendingInv, PendingKept, StartInv, StartsAlone, SpawnIsFirst, CreateHasPort,
              DropIsOver, CancelledStored, PendingCanBeAnswered
<1>6. ASSUME \/ \E c \in Conns : Interrupt(c)
             \/ \E id \in Ids : Lapse(id)
             \/ Terminated \/ UNCHANGED vars
      PROVE  UNCHANGED <<session, port, worker, cancelled, conn>>
  BY <1>6 DEF Interrupt, Lapse, Terminated, vars
<1> QED
  BY <1>1, <1>3, <1>4, <1>5, <1>6 DEF Next, PendingInv, PendingKept

\* A login that waits for the user is never deaf: as long as its session is pending its own
\* listener is on the callback port and has not been cancelled, or what the worker received
\* is about to reach the registry; no status call, sweep, failed start or reaper closes it.
THEOREM PendingLoginsAreAnswerable == Spec => []PendingCanBeAnswered
<1>1. Init => StartInv /\ PendingCanBeAnswered
  BY DEF Init, StartInv, StartsAlone, SpawnIsFirst, CreateHasPort, DropIsOver, CancelledStored,
         PendingCanBeAnswered, Gone
<1>2. PendingInv => PendingCanBeAnswered
  BY DEF PendingInv
<1>3. PortInv /\ StartInv /\ PendingCanBeAnswered => PendingInv
  BY DEF PendingInv
<1> QED
  BY <1>1, <1>2, <1>3, PortInvariant, PendingStep, PTL DEF Spec
=============================================================================
