------------------------ MODULE AuthLifecycleProofs ------------------------
(***************************************************************************)
(* AuthRegistry implements AuthLifecycle: its initial states map to the    *)
(* initial state of every login's life, and every step of its threads and  *)
(* callers to a walk along the diagram, to the passing of a deadline, to   *)
(* the closing of the database or to nothing.                              *)
(***************************************************************************)
EXTENDS AuthRegistryProofs

-----------------------------------------------------------------------------
(* What the operators on one session do to its status and its owner          *)

\* Session `id', once created, may become `t' in a step of its life other than the begin
\* of a completion, or keeps its status; it gains no owner, keeps the one it has as long as
\* it is active, and leaves without.
Walks(id, t) ==
    /\ \/ t.status = session[id].status
       \/ /\ session[id].status # "NONE"
          /\ Life!Move(session[id].status, t.status, id \in lapsed)
    /\ t.owner => session[id].owner
    /\ IsActive(t.status) => t.owner = session[id].owner
    /\ t.status = "EVICTED" /\ t.owner => session[id].status = "EVICTED"
    /\ t.status = "COMPLETING" => session[id].status = "COMPLETING"

\* ExpireLocked expires only what is due and is not being completed.
LEMMA FreshWalks ==
    ASSUME TypeOK, NEW id \in Ids, NEW release
    PROVE  LET s == Fresh(id, release)
           IN  \/ s = session[id]
               \/ /\ session[id].status \in {"PENDING_USER_ACTION", "CALLBACK_RECEIVED"}
                  /\ s.status = "EXPIRED" /\ id \in lapsed
                  /\ s.owner => session[id].owner
<1>1. CASE id \in lapsed /\ IsActive(session[id].status) /\ session[id].status # "COMPLETING"
  BY <1>1 DEF Fresh, ExpireLocked, TerminalLocked, Terminal, TerminalStatus, IsActive, ActiveStatus
<1>2. CASE ~(id \in lapsed /\ IsActive(session[id].status) /\ session[id].status # "COMPLETING")
  BY <1>2 DEF Fresh, ExpireLocked
<1> QED
  BY <1>1, <1>2

\* A session that is still pending or received once the clock is applied is not late.
LEMMA FreshInTime ==
    ASSUME TypeOK, NEW id \in Ids, NEW release \in BOOLEAN,
           Fresh(id, release).status \in {"PENDING_USER_ACTION", "CALLBACK_RECEIVED"}
    PROVE  Fresh(id, release) = session[id] /\ id \notin lapsed
  BY DEF Fresh, ExpireLocked, TerminalLocked, Terminal, TerminalStatus, IsActive, ActiveStatus

\* TerminalLocked walks from an active session that nobody is completing.
LEMMA TerminalLockedWalks ==
    ASSUME TypeOK, NEW id \in Ids, NEW fault, NEW status \in {"CANCELLED", "FAILED"},
           NEW release, Present(id), session[id].status # "COMPLETING"
    PROVE  Walks(id, TerminalLocked(session[id], status, fault, release))
<1>1. session[id] \in Session
  BY DEF TypeOK
<1>2. CASE Terminal(session[id].status)
  BY <1>2 DEF TerminalLocked, Walks
<1>3. CASE ~Terminal(session[id].status)
  <2>1. session[id].status \in {"PENDING_USER_ACTION", "CALLBACK_RECEIVED"}
    BY <1>1, <1>3 DEF Present, Session, Status, ActiveStatus, Terminal
  <2> DEFINE t == TerminalLocked(session[id], status, fault, release)
  <2>2. t.status = status /\ (t.owner => session[id].owner)
    BY <1>3 DEF TerminalLocked
  <2> HIDE DEF t
  <2>3. Life!Move(session[id].status, t.status, id \in lapsed) /\ ~IsActive(t.status)
    BY <2>1, <2>2 DEF Life!Move, IsActive, ActiveStatus
  <2>4. Walks(id, t)
    BY <2>1, <2>2, <2>3 DEF Walks
  <2> QED
    BY <2>4 DEF t
<1> QED
  BY <1>2, <1>3

\* The operators of the calls and of the worker walk along the diagram.
LEMMA OperatorsWalk ==
    ASSUME TypeOK, NEW id \in Ids
    PROVE  /\ Walks(id, session[id])
           /\ \A release : Walks(id, Fresh(id, release))
           /\ Walks(id, Snapshot(id))
           /\ Present(id) => Walks(id, CancelSession(id))
           /\ \A pc \in Arrived : Walks(id, Received(id, pc))
           /\ Completing(id) => /\ Walks(id, Finish(id, "AUTHORIZED", "none"))
                                /\ Walks(id, Finish(id, "FAILED", "TOKEN_EXCHANGE_FAILED"))
<1>0. session[id] \in Session
  BY DEF TypeOK
<1>same. Walks(id, session[id])
  BY DEF Walks
<1>1. ASSUME NEW release PROVE Walks(id, Fresh(id, release))
  BY FreshWalks DEF Walks, Life!Move, IsActive, ActiveStatus
<1>2. Walks(id, Snapshot(id))
  <2>1. Fresh(id, TRUE) \in Session
    BY SessionOperatorsType
  <2>2. CASE Terminal(Fresh(id, TRUE).status)
    <3>1. /\ Snapshot(id).status = Fresh(id, TRUE).status
          /\ Snapshot(id).owner = FALSE /\ ~IsActive(Snapshot(id).status)
      BY <2>1, <2>2 DEF Snapshot, Session, Terminal, TerminalStatus, IsActive, ActiveStatus
    <3> QED
      BY <1>1, <3>1 DEF Walks
  <2>3. CASE ~Terminal(Fresh(id, TRUE).status)
    BY <1>1, <2>3 DEF Snapshot
  <2> QED
    BY <2>2, <2>3
<1>3. Present(id) => Walks(id, CancelSession(id))
  BY <1>same, TerminalLockedWalks DEF CancelSession
<1>4. ASSUME NEW pc \in Arrived PROVE Walks(id, Received(id, pc))
  <2>1. CASE Fresh(id, FALSE).status # "PENDING_USER_ACTION"
    BY <1>1, <2>1 DEF Received
  <2>2. CASE Fresh(id, FALSE).status = "PENDING_USER_ACTION"
    <3>1. Fresh(id, FALSE).status \in {"PENDING_USER_ACTION", "CALLBACK_RECEIVED"}
      BY <2>2
    <3>2. Fresh(id, FALSE) = session[id] /\ id \notin lapsed
      BY <3>1, FreshInTime
    <3>3. /\ Received(id, pc).status \in {"FAILED", "ACCESS_DENIED", "CALLBACK_RECEIVED"}
          /\ Received(id, pc).owner = session[id].owner
      BY <1>0, <2>2, <3>2 DEF Received, TerminalLocked, Terminal, TerminalStatus, Session
    <3> QED
      BY <2>2, <3>2, <3>3 DEF Walks, Life!Move
  <2> QED
    BY <2>1, <2>2
<1>5. Completing(id) => /\ Walks(id, Finish(id, "AUTHORIZED", "none"))
                        /\ Walks(id, Finish(id, "FAILED", "TOKEN_EXCHANGE_FAILED"))
  BY DEF Completing, Finish, Walks, TerminalLocked, Terminal, TerminalStatus, Life!Move, IsActive,
         ActiveStatus
<1> QED
  BY <1>same, <1>1, <1>2, <1>3, <1>4, <1>5
-----------------------------------------------------------------------------
(* What every step does to every session                                     *)

WalkStep == \A i \in Ids : Walks(i, session'[i])

\* Replacing one session by one it may walk to.
LEMMA ReplaceWalks ==
    ASSUME TypeOK, NEW id \in Ids, NEW t, Walks(id, t), session' = [session EXCEPT ![id] = t]
    PROVE  WalkStep
<1>1. \A i \in Ids : session'[i] = IF i = id THEN t ELSE session[i]
  BY DEF TypeOK
<1> QED
  BY <1>1, OperatorsWalk DEF WalkStep

\* Leaving the sessions alone.
LEMMA UnchangedWalks ==
    ASSUME TypeOK, UNCHANGED session
    PROVE  WalkStep
BY OperatorsWalk DEF WalkStep

\* Create evicts only finished sessions, those its own sweep has just expired included.
LEMMA SweepWalks ==
    ASSUME TypeOK, NEW gone, Evicted(Swept, gone), NEW i \in Ids
    PROVE  Walks(i, Without(Swept, gone)[i])
<1>1. Swept[i] = Fresh(i, TRUE)
  BY DEF Swept
<1>2. CASE i \notin gone
  BY <1>1, <1>2, OperatorsWalk DEF Without
<1>3. CASE i \in gone
  <2>1. Fresh(i, TRUE).status \in TerminalStatus
    BY <1>1, <1>3 DEF Evicted, Finished, Terminal
  <2>2. \/ session[i].status \in TerminalStatus
        \/ session[i].status \in {"PENDING_USER_ACTION", "CALLBACK_RECEIVED"} /\ i \in lapsed
    BY <2>1, FreshWalks
  <2>3. Without(Swept, gone)[i] = Gone("EVICTED")
    BY <1>3 DEF Without
  <2> QED
    BY <2>2, <2>3 DEF Walks, Gone, Life!Move, Life!Outcomes, TerminalStatus, IsActive, ActiveStatus
<1> QED
  BY <1>2, <1>3

\* The calls on a session that exists walk along the diagram.
LEMMA CallsWalk ==
    ASSUME TypeInv, NEW c \in Conns,
           \/ \E id \in Ids : \/ StartBind(c, id) \/ AuthStatus(c, id) \/ AuthCancel(c, id)
                              \/ CompleteSnapshot(c, id)
           \/ CreateLate(c) \/ CreateRefused(c) \/ StartSpawn(c) \/ StartAssign(c)
           \/ StartFails(c) \/ StartDrop(c) \/ BeginLost(c) \/ Exchange(c)
           \/ FinishAuthorized(c) \/ CompleteCatch(c) \/ CompleteRecord(c) \/ CompleteResnap(c)
           \/ Reap(c) \/ Interrupt(c)
    PROVE  WalkStep /\ UNCHANGED lapsed
<1>type. TypeOK /\ CallsNamed
  BY DEF TypeInv
<1>id. conn[c].pc \notin {"idle", "closed"} => conn[c].id \in Ids
  BY <1>type DEF CallsNamed
<1>0. ASSUME NEW id \in Ids, NEW t, Walks(id, t), session' = [session EXCEPT ![id] = t]
      PROVE  WalkStep
  BY <1>0, <1>type, ReplaceWalks
<1>1. ASSUME NEW id \in Ids,
             StartBind(c, id) \/ AuthStatus(c, id) \/ AuthCancel(c, id) \/ CompleteSnapshot(c, id)
      PROVE  WalkStep
  <2>1. Walks(id, Snapshot(id)) /\ (Present(id) => Walks(id, CancelSession(id)))
    BY <1>type, OperatorsWalk
  <2> QED
    BY <1>0, <1>1, <1>type, <2>1, UnchangedWalks
       DEF StartBind, AuthStatus, AuthCancel, CompleteSnapshot, Known
<1>2. ASSUME CreateRefused(c) PROVE WalkStep
  BY <1>2, <1>type, SweepWalks DEF CreateRefused, WalkStep
<1>3. ASSUME StartFails(c) PROVE WalkStep
  <2> DEFINE id == conn[c].id
             s == IF Present(id) THEN CancelSession(id) ELSE session[id]
  <2>1. id \in Ids
    BY <1>id, <1>3 DEF StartFails, At
  <2>2. Walks(id, s)
    BY <1>type, <2>1, OperatorsWalk
  <2>3. session' = [session EXCEPT ![id] = s]
    BY <1>3 DEF StartFails
  <2> QED
    BY <1>0, <2>1, <2>2, <2>3
<1>4. ASSUME BeginLost(c) PROVE WalkStep
  <2> DEFINE id == conn[c].id
             s == IF Present(id) THEN Fresh(id, TRUE) ELSE session[id]
  <2>1. id \in Ids
    BY <1>id, <1>4 DEF BeginLost, At
  <2>2. Walks(id, s)
    BY <1>type, <2>1, OperatorsWalk
  <2>3. session' = [session EXCEPT ![id] = s]
    BY <1>4 DEF BeginLost
  <2> QED
    BY <1>0, <2>1, <2>2, <2>3
<1>5. ASSUME FinishAuthorized(c) PROVE WalkStep
  <2> DEFINE id == conn[c].id
  <2>1. id \in Ids
    BY <1>id, <1>5 DEF FinishAuthorized, At
  <2>2. CASE Completing(id)
    <3>1. Walks(id, Finish(id, "AUTHORIZED", "none"))
      BY <1>type, <2>1, <2>2, OperatorsWalk
    <3>2. session' = [session EXCEPT ![id] = Finish(id, "AUTHORIZED", "none")]
      BY <1>5, <2>2 DEF FinishAuthorized
    <3> QED
      BY <1>0, <2>1, <3>1, <3>2
  <2>3. CASE ~Completing(id)
    BY <1>5, <1>type, <2>3, UnchangedWalks DEF FinishAuthorized
  <2> QED
    BY <2>2, <2>3
<1>6. ASSUME conn[c].id \in Ids, NEW label, FinishFailed(c, label) PROVE WalkStep
  <2> DEFINE id == conn[c].id
             s == IF Completing(id) THEN Finish(id, "FAILED", "TOKEN_EXCHANGE_FAILED")
                  ELSE session[id]
  <2>1. Walks(id, s)
    BY <1>6, <1>type, OperatorsWalk
  <2>2. session' = [session EXCEPT ![id] = s]
    BY <1>6 DEF FinishFailed
  <2> QED
    BY <1>0, <1>6, <2>1, <2>2
<1>7. ASSUME CompleteCatch(c) \/ CompleteRecord(c) PROVE WalkStep
  <2>1. conn[c].id \in Ids
    BY <1>id, <1>7 DEF CompleteCatch, CompleteRecord, At
  <2> QED
    BY <1>6, <1>7, <1>type, <2>1, UnchangedWalks DEF CompleteCatch, CompleteRecord
<1>8. ASSUME CompleteResnap(c) PROVE WalkStep
  <2> DEFINE id == conn[c].id
             s == IF Present(id) THEN Snapshot(id) ELSE session[id]
  <2>1. id \in Ids
    BY <1>id, <1>8 DEF CompleteResnap, At
  <2>2. Walks(id, s)
    BY <1>type, <2>1, OperatorsWalk
  <2>3. session' = [session EXCEPT ![id] = s]
    BY <1>8 DEF CompleteResnap
  <2> QED
    BY <1>0, <2>1, <2>2, <2>3
<1>9. ASSUME CreateLate(c) \/ StartSpawn(c) \/ StartAssign(c) \/ StartDrop(c) \/ Exchange(c)
            \/ Reap(c) \/ Interrupt(c) PROVE WalkStep
  BY <1>9, <1>type, UnchangedWalks
     DEF CreateLate, StartSpawn, StartAssign, StartDrop, Exchange, Reap, StopCancel, StopTake,
         StopJoin, Interrupt
<1>10. WalkStep
  BY <1>1, <1>2, <1>3, <1>4, <1>5, <1>7, <1>8, <1>9
<1>11. UNCHANGED lapsed
  BY DEF StartBind, AuthStatus, AuthCancel, CompleteSnapshot, CreateLate, CreateRefused, StartSpawn,
         StartAssign, StartFails, StartDrop, BeginLost, Exchange, FinishAuthorized,
         CompleteCatch, CompleteRecord, CompleteResnap, Reap, StopCancel, StopTake, StopJoin, Interrupt
<1> QED
  BY <1>10, <1>11

\* So do the callback workers.
LEMMA WorkersWalk ==
    ASSUME TypeInv, NEW id \in Ids, Work(id) \/ WorkerAccept(id)
    PROVE  WalkStep /\ UNCHANGED lapsed
<1>type. TypeOK
  BY DEF TypeInv
<1>1. ASSUME WorkerDeliver(id) PROVE WalkStep
  BY <1>1, <1>type, OperatorsWalk, ReplaceWalks, UnchangedWalks DEF WorkerDeliver
<1>2. ASSUME WorkerFail(id) PROVE WalkStep
  <2> DEFINE s == IF Present(id) /\ session[id].status # "COMPLETING"
                  THEN TerminalLocked(session[id], "FAILED", "CALLBACK_PROTOCOL_ERROR", TRUE)
                  ELSE session[id]
  <2>1. Walks(id, s)
    BY <1>type, OperatorsWalk, TerminalLockedWalks
  <2>2. session' = [session EXCEPT ![id] = s]
    BY <1>2 DEF WorkerFail
  <2> HIDE DEF s
  <2> QED
    BY <1>type, <2>1, <2>2, ReplaceWalks
<1>3. ASSUME ~WorkerDeliver(id) /\ ~WorkerFail(id) PROVE WalkStep
  BY <1>3, <1>type, UnchangedWalks
     DEF Work, WorkerBegin, WorkerAccept, WorkerTimeout, WorkerCancelled, WorkerSelfStop, WorkerExit
<1>4. UNCHANGED lapsed
  BY DEF Work, WorkerBegin, WorkerAccept, WorkerTimeout, WorkerCancelled, WorkerDeliver, WorkerFail,
         WorkerSelfStop, WorkerExit
<1> QED
  BY <1>1, <1>2, <1>3, <1>4

\* Create stores the new session under an id that was not drawn before.
LEMMA CreateWalks ==
    ASSUME CompletionInv, NEW c \in Conns, CreateAccepted(c)
    PROVE  /\ conn[c].id \in Ids \ lapsed
           /\ session[conn[c].id].status = "NONE"
           /\ session'[conn[c].id] = NewSession
           /\ \A i \in Ids : i # conn[c].id => Walks(i, session'[i])
           /\ UNCHANGED lapsed
<1>1. TypeOK /\ CallsNamed /\ CreateIsFirst
  BY DEF CompletionInv, TypeInv, HolderInv
<1>2. conn[c].id \in Ids \ lapsed /\ session[conn[c].id].status = "NONE"
  BY <1>1 DEF CreateAccepted, At, CallsNamed, CreateIsFirst
<1>3. PICK gone : /\ Evicted(Swept, gone)
                  /\ session' = [Without(Swept, gone) EXCEPT ![conn[c].id] = NewSession]
  BY DEF CreateAccepted
<1>4. \A i \in Ids : session'[i] = IF i = conn[c].id THEN NewSession ELSE Without(Swept, gone)[i]
  BY <1>1, <1>3, SweptType
<1> QED
  BY <1>1, <1>2, <1>3, <1>4, SweepWalks DEF CreateAccepted

\* BeginCompletion finds the callback received in time, and changes nothing else.
LEMMA BeginWalks ==
    ASSUME TypeInv, NEW c \in Conns, BeginCompletion(c)
    PROVE  /\ conn[c].id \in Ids \ lapsed
           /\ session[conn[c].id].status = "CALLBACK_RECEIVED"
           /\ session'[conn[c].id].status = "COMPLETING"
           /\ session'[conn[c].id].owner = session[conn[c].id].owner
           /\ \A i \in Ids : i # conn[c].id => session'[i] = session[i]
           /\ UNCHANGED lapsed
<1> DEFINE id == conn[c].id
<1>type. TypeOK /\ CallsNamed
  BY DEF TypeInv
<1>1. id \in Ids
  BY <1>type DEF BeginCompletion, At, CallsNamed
<1>2. Fresh(id, TRUE).status \in {"PENDING_USER_ACTION", "CALLBACK_RECEIVED"} /\ TRUE \in BOOLEAN
  BY DEF BeginCompletion
<1>3. Fresh(id, TRUE) = session[id] /\ id \notin lapsed
  BY <1>type, <1>1, <1>2, FreshInTime
<1>4. session[id].status = "CALLBACK_RECEIVED"
  BY <1>3 DEF BeginCompletion
<1>5. session'[id].status = "COMPLETING" /\ session'[id].owner = session[id].owner
  BY <1>type, <1>1 DEF BeginCompletion, TypeOK, Session
<1>6. \A i \in Ids : i # id => session'[i] = session[i]
  BY <1>type, <1>1 DEF BeginCompletion, TypeOK
<1> QED
  BY <1>1, <1>3, <1>4, <1>5, <1>6 DEF BeginCompletion

-----------------------------------------------------------------------------
(* The refinement                                                            *)

\* Sessions that walk make a Progress step of the lives.
LEMMA WalkIsProgress ==
    ASSUME \A i \in Ids : \/ session'[i].status = session[i].status
                          \/ Life!Move(session[i].status, session'[i].status, i \in lapsed),
           UNCHANGED lapsed
    PROVE  Life!LifeNext
BY DEF Life!LifeNext, Life!Progress

\* Every step of the registry is a step of the lives of its sessions or leaves them alone.
LEMMA StepsAreLifeSteps ==
    CompletionInv /\ [Next]_vars => [Life!LifeNext]_Life!lifeVars
<1> SUFFICES ASSUME CompletionInv, [Next]_vars
             PROVE  Life!LifeNext \/ UNCHANGED Life!lifeVars
  OBVIOUS
<1>type. TypeInv
  BY DEF CompletionInv
<1>0. ASSUME WalkStep, UNCHANGED lapsed PROVE Life!LifeNext
  BY <1>0, WalkIsProgress DEF WalkStep, Walks
<1>1. ASSUME NEW c \in Conns, CreateAccepted(c) PROVE Life!LifeNext
  <2>1. \A i \in Ids : \/ session'[i].status = session[i].status
                       \/ Life!Move(session[i].status, session'[i].status, i \in lapsed)
    BY <1>1, CreateWalks DEF Walks, NewSession, Life!Move
  <2> QED
    BY <1>1, <2>1, CreateWalks, WalkIsProgress
<1>begin. ASSUME NEW c \in Conns, BeginCompletion(c) PROVE Life!LifeNext
  <2>1. \A i \in Ids : \/ session'[i].status = session[i].status
                       \/ Life!Move(session[i].status, session'[i].status, i \in lapsed)
    BY <1>begin, <1>type, BeginWalks DEF Life!Move
  <2> QED
    BY <1>begin, <1>type, <2>1, BeginWalks, WalkIsProgress
<1>2. ASSUME NEW c \in Conns, Call(c) \/ Proceed(c) \/ Interrupt(c) PROVE Life!LifeNext
  BY <1>0, <1>1, <1>2, <1>begin, <1>type, CallsWalk DEF Call, Proceed
<1>3. ASSUME NEW id \in Ids, Work(id) \/ WorkerAccept(id) PROVE Life!LifeNext
  BY <1>0, <1>3, <1>type, WorkersWalk
<1>4. ASSUME NEW c \in Conns, Destroy(c) PROVE Life!LifeNext
  <2>1. \A i \in Ids : session'[i] = IF i \in Stored(session) THEN Gone("EVICTED") ELSE session[i]
    BY <1>4 DEF Destroy, Without
  <2>2. \A i \in Ids : session'[i].status = IF session[i].status = "NONE" THEN "NONE" ELSE "EVICTED"
    BY <2>1 DEF Stored, Absent, Gone
  <2> QED
    BY <1>4, <2>2 DEF Destroy, Life!LifeNext, Life!Close
<1>5. ASSUME NEW id \in Ids, Lapse(id) PROVE Life!LifeNext
  BY <1>5 DEF Lapse, Life!LifeNext, Life!TimeUp
<1>6. CASE Terminated \/ UNCHANGED vars
  BY <1>6 DEF Terminated, vars, Life!lifeVars
<1> QED
  BY <1>2, <1>3, <1>4, <1>5, <1>6 DEF Next

\* The registry implements the life of a login: whatever its threads, its callers, the
\* clock and the closing of the database do, each session walks along the diagram of
\* AuthLifecycle, and one whose deadline has passed receives no callback and begins no
\* completion.
THEOREM RegistryImplementsLifecycle == Spec => LifecycleSpec
<1>1. Init => Life!LifeInit
  BY DEF Init, Life!LifeInit, Gone
<1> QED
  BY <1>1, StepsAreLifeSteps, CompletionInvariant, PTL DEF Spec, LifecycleSpec, Life!LifeSpec
=============================================================================
