------------------------- MODULE AuthRegistryProofs -------------------------
(***************************************************************************)
(* Theorems about AuthRegistry, for any number of logins and connections   *)
(* and any limits.                                                         *)
(***************************************************************************)
EXTENDS AuthRegistry, TLAPS

-----------------------------------------------------------------------------
(* What the operators on one session return                                  *)

\* TerminalLocked returns a session.
LEMMA TerminalLockedType ==
    ASSUME NEW s \in Session, NEW status \in TerminalStatus, NEW fault \in Fault,
           NEW release \in BOOLEAN
    PROVE  TerminalLocked(s, status, fault, release) \in Session
BY DEF TerminalLocked, Session, Status, Material

\* ExpireLocked returns a session.
LEMMA ExpireLockedType ==
    ASSUME NEW s \in Session, NEW due \in BOOLEAN, NEW release \in BOOLEAN
    PROVE  ExpireLocked(s, due, release) \in Session
<1>1. TerminalLocked(s, "EXPIRED", "SESSION_EXPIRED", release) \in Session
  BY TerminalLockedType DEF TerminalStatus, Fault
<1> QED
  BY <1>1 DEF ExpireLocked

\* The operators that give the next value of one session return a session.
LEMMA SessionOperatorsType ==
    ASSUME TypeOK, NEW id \in Ids
    PROVE  /\ \A release \in BOOLEAN : Fresh(id, release) \in Session
           /\ Snapshot(id) \in Session
           /\ CancelSession(id) \in Session
           /\ Finish(id, "AUTHORIZED", "none") \in Session
           /\ Finish(id, "FAILED", "TOKEN_EXCHANGE_FAILED") \in Session
           /\ \A pc \in Arrived : Received(id, pc) \in Session
<1>1. session[id] \in Session /\ (id \in lapsed) \in BOOLEAN
  BY DEF TypeOK
<1>2. \A release \in BOOLEAN : Fresh(id, release) \in Session
  BY <1>1, ExpireLockedType DEF Fresh
<1>3. Snapshot(id) \in Session
  <2>1. Fresh(id, TRUE) \in Session
    BY <1>2
  <2> QED
    BY <2>1 DEF Snapshot, Session
<1>4. CancelSession(id) \in Session
  BY <1>1, TerminalLockedType DEF CancelSession, TerminalStatus, Fault
<1>5. /\ Finish(id, "AUTHORIZED", "none") \in Session
      /\ Finish(id, "FAILED", "TOKEN_EXCHANGE_FAILED") \in Session
  BY <1>1, TerminalLockedType DEF Finish, TerminalStatus, Fault
<1>6. ASSUME NEW pc \in Arrived
      PROVE  Received(id, pc) \in Session
  <2> DEFINE s == Fresh(id, FALSE)
  <2>1. s \in Session
    BY <1>2
  <2>2. /\ TerminalLocked(s, "FAILED", "STATE_MISMATCH", FALSE) \in Session
        /\ TerminalLocked(s, "ACCESS_DENIED", "USER_DENIED", FALSE) \in Session
    BY <2>1, TerminalLockedType DEF TerminalStatus, Fault
  <2>3. [s EXCEPT !.status = "CALLBACK_RECEIVED",
                  !.material = (@ \ {"state"}) \cup {"code"}] \in Session
    BY <2>1 DEF Session, Status, ActiveStatus, Material
  <2> HIDE DEF s
  <2>4. Received(id, pc) \in {s, TerminalLocked(s, "FAILED", "STATE_MISMATCH", FALSE),
                              TerminalLocked(s, "ACCESS_DENIED", "USER_DENIED", FALSE),
                              [s EXCEPT !.status = "CALLBACK_RECEIVED",
                                        !.material = (@ \ {"state"}) \cup {"code"}]}
    BY DEF Received, s
  <2> QED
    BY <2>1, <2>2, <2>3, <2>4
<1> QED
  BY <1>2, <1>3, <1>4, <1>5, <1>6

-----------------------------------------------------------------------------
(* Type correctness.  A call that stops an owner names it, so the type of a   *)
(* connection depends on every call in progress having a session.            *)

CallsNamed == \A c \in Conns : conn[c].pc \notin {"idle", "closed"} => conn[c].id \in Ids

TypeInv == TypeOK /\ CallsNamed

\* A connection that goes on at a label, with a session unless it is idle or closed,
\* keeps the connections well typed.
LEMMA GotoType ==
    ASSUME TypeInv, NEW c \in Conns, NEW label \in Label, NEW id \in MaybeId,
           NEW owners \in SUBSET Ids, Goto(c, label, id, owners),
           label \in {"idle", "closed"} \/ id \in Ids
    PROVE  conn' \in [Conns -> Connection] /\ CallsNamed'
BY DEF TypeInv, TypeOK, CallsNamed, Goto, Connection, MaybeId

\* Only the owner of the session itself is ever taken.
LEMMA TakenType ==
    ASSUME NEW id \in Ids, NEW s
    PROVE  Taken(id, s) \in SUBSET Ids
BY DEF Taken

\* The sessions after Create's sweep and eviction are sessions.
LEMMA SweptType ==
    ASSUME TypeOK, NEW gone
    PROVE  /\ Swept \in [Ids -> Session]
           /\ Without(Swept, gone) \in [Ids -> Session]
           /\ Without(session, gone) \in [Ids -> Session]
           /\ SweptOwners \in SUBSET Ids
<1>1. Swept \in [Ids -> Session]
  BY SessionOperatorsType DEF Swept
<1>2. Gone("EVICTED") \in Session
  BY DEF Gone, Session, Status, Absent, Fault
<1>3. session \in [Ids -> Session]
  BY DEF TypeOK
<1> QED
  BY <1>1, <1>2, <1>3 DEF Without, SweptOwners

\* The reaping of an owner preserves the types.
LEMMA ReapType ==
    ASSUME TypeInv, NEW c \in Conns, Reap(c)
    PROVE  TypeInv'
<1> USE DEF TypeInv, TypeOK, CallsNamed
<1>1. ASSUME NEW id \in Ids, StopCancel(c, id) PROVE TypeInv'
  <2> DEFINE r == [conn[c] EXCEPT !.stop = @ \ {id}, !.cut = id]
  <2>1. r \in Connection /\ r.pc = conn[c].pc /\ r.id = conn[c].id
    BY DEF Connection, MaybeId
  <2>2. conn' = [conn EXCEPT ![c] = r]
    BY <1>1 DEF StopCancel
  <2>3. port' \in MaybeId /\ cancelled' \subseteq Ids
    BY <1>1 DEF StopCancel, PortWithout, MaybeId
  <2> HIDE DEF r
  <2>4. conn' \in [Conns -> Connection] /\ CallsNamed'
    BY <2>1, <2>2
  <2> QED
    BY <1>1, <2>3, <2>4 DEF StopCancel
<1>2. CASE StopTake(c)
  <2> DEFINE joined == IF handle[conn[c].cut] = "joinable" THEN conn[c].cut ELSE None
             r == [conn[c] EXCEPT !.cut = None, !.join = joined]
  <2>1. joined \in MaybeId
    BY DEF Connection, MaybeId
  <2> HIDE DEF joined
  <2>2. r \in Connection /\ r.pc = conn[c].pc /\ r.id = conn[c].id
    BY <2>1 DEF Connection, MaybeId
  <2>3. conn' = [conn EXCEPT ![c] = r]
    BY <1>2 DEF StopTake, joined
  <2> HIDE DEF r
  <2>4. conn' \in [Conns -> Connection] /\ CallsNamed'
    BY <2>2, <2>3
  <2>5. handle' \in [Ids -> {"none", "joinable", "taken", "detached"}]
    BY <1>2 DEF StopTake
  <2> QED
    BY <1>2, <2>4, <2>5 DEF StopTake
<1>3. CASE StopJoin(c)
  <2> DEFINE r == [conn[c] EXCEPT !.join = None]
  <2>1. r \in Connection /\ r.pc = conn[c].pc /\ r.id = conn[c].id
    BY DEF Connection, MaybeId
  <2>2. conn' = [conn EXCEPT ![c] = r]
    BY <1>3 DEF StopJoin
  <2> HIDE DEF r
  <2>3. conn' \in [Conns -> Connection] /\ CallsNamed'
    BY <2>1, <2>2
  <2> QED
    BY <1>3, <2>3 DEF StopJoin
<1> QED
  BY <1>1, <1>2, <1>3 DEF Reap

ConnTyped == conn' \in [Conns -> Connection] /\ CallsNamed' /\ interrupted' \subseteq Conns

\* A call that returns keeps the types.
LEMMA ReturnType ==
    ASSUME TypeInv, NEW c \in Conns, NEW owners \in SUBSET Ids, Return(c, owners)
    PROVE  ConnTyped
<1>1. "idle" \in Label /\ None \in MaybeId
  BY DEF Label, MaybeId
<1>2. interrupted' \subseteq Conns
  BY DEF Return, TypeInv, TypeOK
<1>3. Goto(c, "idle", None, owners)
  BY DEF Return
<1> QED
  BY <1>1, <1>2, <1>3, GotoType DEF ConnTyped

\* A call with a session that continues keeps the types.
LEMMA ContinueType ==
    ASSUME TypeInv, NEW c \in Conns, NEW owners \in SUBSET Ids, NEW label \in Label,
           conn[c].id \in Ids, Continue(c, label, owners)
    PROVE  ConnTyped
<1>1. conn[c].id \in MaybeId
  BY DEF MaybeId
<1>2. interrupted' \subseteq Conns
  BY DEF Continue, TypeInv, TypeOK
<1>3. Goto(c, label, conn[c].id, owners)
  BY DEF Continue
<1> QED
  BY <1>1, <1>2, <1>3, GotoType DEF ConnTyped

\* The steps of data360_auth_start preserve the types.
LEMMA StartType ==
    ASSUME TypeInv, NEW c \in Conns,
           \/ \E id \in Ids : StartBind(c, id)
           \/ CreateLate(c) \/ CreateRefused(c) \/ CreateAccepted(c)
           \/ StartSpawn(c) \/ StartAssign(c) \/ StartFails(c) \/ StartDrop(c)
    PROVE  TypeInv'
<1> USE DEF TypeInv
<1>0. {} \in SUBSET Ids /\ {"create", "drop", "spawn", "assign"} \subseteq Label
  BY DEF Label
<1>id. conn[c].pc \notin {"idle", "closed"} => conn[c].id \in Ids
  BY DEF CallsNamed
<1>port. \A id \in Ids : PortWithout(id) \in MaybeId
  BY DEF PortWithout, TypeOK, MaybeId
<1>1. ASSUME NEW id \in Ids, StartBind(c, id) PROVE TypeInv'
  <2>1. conn' \in [Conns -> Connection] /\ CallsNamed'
    BY <1>0, <1>1, GotoType DEF StartBind, MaybeId
  <2> QED
    BY <1>1, <2>1 DEF StartBind, TypeOK, MaybeId
<1>2. CASE CreateLate(c)
  <2>1. ConnTyped
    BY <1>0, <1>id, <1>2, ContinueType DEF CreateLate, At
  <2> QED
    BY <1>2, <2>1 DEF CreateLate, TypeOK, ConnTyped
<1>3. CASE CreateRefused(c)
  <2>1. ConnTyped
    BY <1>0, <1>id, <1>3, ContinueType, SweptType DEF CreateRefused, At
  <2>2. session' \in [Ids -> Session]
    BY <1>3, SweptType DEF CreateRefused
  <2> QED
    BY <1>3, <2>1, <2>2 DEF CreateRefused, TypeOK, ConnTyped
<1>4. CASE CreateAccepted(c)
  <2>1. ConnTyped
    BY <1>0, <1>id, <1>4, ContinueType, SweptType DEF CreateAccepted, At
  <2>2. NewSession \in Session
    BY DEF NewSession, Session, Status, ActiveStatus, Fault, Material
  <2>3. PICK gone : session' = [Without(Swept, gone) EXCEPT ![conn[c].id] = NewSession]
    BY <1>4 DEF CreateAccepted
  <2>4. session' \in [Ids -> Session]
    BY <2>2, <2>3, SweptType
  <2> QED
    BY <1>4, <2>1, <2>4 DEF CreateAccepted, TypeOK, ConnTyped
<1>5. CASE StartSpawn(c)
  <2>1. ConnTyped
    BY <1>0, <1>id, <1>5, ContinueType DEF StartSpawn, At
  <2> QED
    BY <1>5, <2>1 DEF StartSpawn, TypeOK, ConnTyped, WorkerPc
<1>6. CASE StartAssign(c)
  <2>1. ConnTyped
    BY <1>0, <1>6, ReturnType DEF StartAssign
  <2> QED
    BY <1>6, <2>1 DEF StartAssign, TypeOK, ConnTyped
<1>7. CASE StartFails(c)
  <2> DEFINE id == conn[c].id
             s == IF Present(id) THEN CancelSession(id) ELSE session[id]
  <2>1. id \in Ids
    BY <1>id, <1>7 DEF StartFails, At
  <2>2. s \in Session
    BY <2>1, SessionOperatorsType DEF TypeOK
  <2>3. session' = [session EXCEPT ![id] = s] /\ Continue(c, "drop", Taken(id, s))
    BY <1>7 DEF StartFails
  <2> HIDE DEF s
  <2>4. ConnTyped
    BY <1>0, <2>1, <2>3, ContinueType, TakenType
  <2> QED
    BY <1>7, <2>1, <2>2, <2>3, <2>4 DEF StartFails, TypeOK, ConnTyped
<1>8. CASE StartDrop(c)
  <2>1. ConnTyped
    BY <1>0, <1>8, ReturnType DEF StartDrop
  <2>2. conn[c].id \in Ids
    BY <1>id, <1>8 DEF StartDrop, At
  <2> QED
    BY <1>8, <1>port, <2>1, <2>2 DEF StartDrop, TypeOK, ConnTyped
<1> QED
  BY <1>1, <1>2, <1>3, <1>4, <1>5, <1>6, <1>7, <1>8
\* A call that replaces the session it is about, and takes the owner the session gives
\* up, preserves the types.
LEMMA ReplaceType ==
    ASSUME TypeInv, NEW c \in Conns, NEW id \in Ids, NEW s \in Session,
           session' = [session EXCEPT ![id] = s],
           \/ Return(c, Taken(id, s))
           \/ id = conn[c].id /\ \E label \in Label : Continue(c, label, Taken(id, s)),
           UNCHANGED <<lapsed, port, worker, handle, cancelled>>
    PROVE  TypeInv'
<1>1. Taken(id, s) \in SUBSET Ids
  BY TakenType
<1>2. ConnTyped
  BY <1>1, ReturnType, ContinueType
<1> QED
  BY <1>2 DEF TypeInv, TypeOK, ConnTyped

\* data360_auth_status, data360_auth_cancel and the steps of data360_auth_complete
\* preserve the types.
LEMMA CompleteType ==
    ASSUME TypeInv, NEW c \in Conns,
           \/ \E id \in Ids : AuthStatus(c, id) \/ AuthCancel(c, id) \/ CompleteSnapshot(c, id)
           \/ BeginCompletion(c) \/ BeginLost(c) \/ Exchange(c) \/ FinishAuthorized(c)
           \/ CompleteCatch(c) \/ CompleteRecord(c) \/ CompleteResnap(c)
    PROVE  TypeInv'
<1>0. {} \in SUBSET Ids
      /\ {"begin", "exchange", "finish", "catch", "record", "resnap"} \subseteq Label
  BY DEF Label
<1>id. conn[c].pc \notin {"idle", "closed"} => conn[c].id \in Ids
  BY DEF TypeInv, CallsNamed
<1>type. TypeOK
  BY DEF TypeInv
<1>ops. \A id \in Ids : /\ session[id] \in Session
                        /\ Snapshot(id) \in Session
                        /\ CancelSession(id) \in Session
                        /\ Fresh(id, TRUE) \in Session
                        /\ Finish(id, "AUTHORIZED", "none") \in Session
                        /\ Finish(id, "FAILED", "TOKEN_EXCHANGE_FAILED") \in Session
  BY <1>type, SessionOperatorsType DEF TypeOK
<1>1. ASSUME NEW id \in Ids, AuthStatus(c, id) PROVE TypeInv'
  BY <1>1, <1>ops, ReplaceType DEF AuthStatus
<1>2. ASSUME NEW id \in Ids, AuthCancel(c, id) PROVE TypeInv'
  BY <1>2, <1>ops, ReplaceType DEF AuthCancel
<1>3. ASSUME NEW id \in Ids, CompleteSnapshot(c, id) PROVE TypeInv'
  <2>1. CASE Snapshot(id).status = "CALLBACK_RECEIVED"
    <3>1. conn' \in [Conns -> Connection] /\ CallsNamed'
      BY <1>0, <1>3, <2>1, GotoType DEF CompleteSnapshot, MaybeId
    <3> QED
      BY <1>3, <1>ops, <2>1, <3>1 DEF CompleteSnapshot, TypeInv, TypeOK
  <2>2. CASE Snapshot(id).status # "CALLBACK_RECEIVED"
    BY <1>3, <1>ops, <2>2, ReplaceType DEF CompleteSnapshot
  <2> QED
    BY <2>1, <2>2
<1>4. CASE BeginCompletion(c)
  <2> DEFINE id == conn[c].id
             s == [session[id] EXCEPT !.status = "COMPLETING",
                                      !.material = @ \ {"code", "verifier"}]
  <2>1. id \in Ids
    BY <1>id, <1>4 DEF BeginCompletion, At
  <2>2. s \in Session
    BY <1>ops, <2>1 DEF Session, Status, ActiveStatus
  <2>3. session' = [session EXCEPT ![id] = s]
    BY <1>4, <2>1, <1>ops DEF BeginCompletion, Session
  <2> HIDE DEF s
  <2>4. ConnTyped
    BY <1>0, <1>4, <2>1, ContinueType DEF BeginCompletion
  <2> QED
    BY <1>4, <2>1, <2>2, <2>3, <2>4 DEF BeginCompletion, TypeInv, TypeOK, ConnTyped
<1>5. CASE BeginLost(c)
  <2> DEFINE id == conn[c].id
             s == IF Present(id) THEN Fresh(id, TRUE) ELSE session[id]
  <2>1. id \in Ids
    BY <1>id, <1>5 DEF BeginLost, At
  <2>2. s \in Session
    BY <1>ops, <2>1
  <2>3. session' = [session EXCEPT ![id] = s] /\ Continue(c, "resnap", Taken(id, s))
    BY <1>5 DEF BeginLost
  <2> HIDE DEF s
  <2> QED
    BY <1>0, <1>5, <2>1, <2>2, <2>3, ReplaceType DEF BeginLost
<1>6. CASE Exchange(c)
  <2>1. ConnTyped
    BY <1>0, <1>id, <1>6, ContinueType DEF Exchange, At
  <2> QED
    BY <1>6, <2>1 DEF Exchange, TypeInv, TypeOK, ConnTyped
<1>7. CASE FinishAuthorized(c)
  <2> DEFINE id == conn[c].id
             s == Finish(id, "AUTHORIZED", "none")
  <2>1. id \in Ids
    BY <1>id, <1>7 DEF FinishAuthorized, At
  <2>2. s \in Session
    BY <1>ops, <2>1
  <2>3. CASE Completing(id)
    BY <1>0, <1>7, <2>1, <2>2, <2>3, ReplaceType DEF FinishAuthorized
  <2>4. CASE ~Completing(id)
    <3>1. ConnTyped
      BY <1>0, <1>7, <2>1, <2>4, ContinueType DEF FinishAuthorized
    <3> QED
      BY <1>7, <2>4, <3>1 DEF FinishAuthorized, TypeInv, TypeOK, ConnTyped
  <2> QED
    BY <2>3, <2>4
<1>8. ASSUME conn[c].id \in Ids, NEW label \in Label, FinishFailed(c, label),
             UNCHANGED <<lapsed, port, worker, handle, cancelled>>
      PROVE  TypeInv'
  <2> DEFINE id == conn[c].id
             s == IF Completing(id) THEN Finish(id, "FAILED", "TOKEN_EXCHANGE_FAILED")
                  ELSE session[id]
  <2>1. s \in Session
    BY <1>8, <1>ops
  <2>2. session' = [session EXCEPT ![id] = s] /\ Continue(c, label, Taken(id, s))
    BY <1>8 DEF FinishFailed
  <2> HIDE DEF s
  <2> QED
    BY <1>8, <2>1, <2>2, ReplaceType
<1>9. CASE CompleteCatch(c)
  <2>1. conn[c].id \in Ids
    BY <1>id, <1>9 DEF CompleteCatch, At
  <2>2. CASE c \in interrupted
    BY <1>0, <1>8, <1>9, <2>1, <2>2 DEF CompleteCatch
  <2>3. CASE c \notin interrupted
    <3>1. ConnTyped
      BY <1>0, <1>9, <2>1, <2>3, ContinueType DEF CompleteCatch
    <3> QED
      BY <1>9, <2>3, <3>1 DEF CompleteCatch, TypeInv, TypeOK, ConnTyped
  <2> QED
    BY <2>2, <2>3
<1>10. CASE CompleteRecord(c)
  <2>1. conn[c].id \in Ids
    BY <1>id, <1>10 DEF CompleteRecord, At
  <2>2. CASE c \notin interrupted
    BY <1>0, <1>8, <1>10, <2>1, <2>2 DEF CompleteRecord
  <2>3. CASE c \in interrupted
    <3>1. ConnTyped
      BY <1>0, <1>10, <2>3, ReturnType DEF CompleteRecord
    <3> QED
      BY <1>10, <2>3, <3>1 DEF CompleteRecord, TypeInv, TypeOK, ConnTyped
  <2> QED
    BY <2>2, <2>3
<1>11. CASE CompleteResnap(c)
  <2> DEFINE id == conn[c].id
             s == IF Present(id) THEN Snapshot(id) ELSE session[id]
  <2>1. id \in Ids
    BY <1>id, <1>11 DEF CompleteResnap, At
  <2>2. s \in Session
    BY <1>ops, <2>1
  <2>3. session' = [session EXCEPT ![id] = s] /\ Return(c, Taken(id, s))
    BY <1>11 DEF CompleteResnap
  <2> HIDE DEF s
  <2> QED
    BY <1>11, <2>1, <2>2, <2>3, ReplaceType DEF CompleteResnap
<1> QED
  BY <1>1, <1>2, <1>3, <1>4, <1>5, <1>6, <1>7, <1>9, <1>10, <1>11

\* The callback worker preserves the types.
LEMMA WorkerType ==
    ASSUME TypeInv, NEW id \in Ids, Work(id) \/ WorkerAccept(id)
    PROVE  TypeInv'
<1> USE DEF TypeInv, CallsNamed
<1>port. PortWithout(id) \in MaybeId /\ port \in MaybeId
  BY DEF PortWithout, TypeOK, MaybeId
<1>pc. {"fail", "exit", "wait", "timedout", "selfstop", "done"} \cup Arrived \subseteq WorkerPc
  BY DEF WorkerPc, Failing
<1>detached. Detached(id) \in [Ids -> {"none", "joinable", "taken", "detached"}]
  BY DEF Detached, TypeOK
<1>1. CASE WorkerBegin(id)
  BY <1>1, <1>port, <1>pc DEF WorkerBegin, WorkerGoto, TypeOK
<1>2. CASE WorkerAccept(id)
  BY <1>2, <1>port, <1>pc DEF WorkerAccept, WorkerGoto, TypeOK
<1>3. CASE WorkerTimeout(id)
  BY <1>3, <1>port, <1>pc DEF WorkerTimeout, WorkerGoto, TypeOK
<1>4. CASE WorkerCancelled(id)
  BY <1>4, <1>port, <1>pc DEF WorkerCancelled, WorkerGoto, TypeOK
<1>5. CASE WorkerDeliver(id)
  <2>1. Received(id, worker[id]) \in Session
    BY <1>5, SessionOperatorsType DEF WorkerDeliver
  <2> QED
    BY <1>5, <1>pc, <2>1 DEF WorkerDeliver, WorkerGoto, TypeOK
<1>6. CASE WorkerFail(id)
  <2> DEFINE s == IF Present(id) /\ session[id].status # "COMPLETING"
                  THEN TerminalLocked(session[id], "FAILED", "CALLBACK_PROTOCOL_ERROR", TRUE)
                  ELSE session[id]
  <2>1. s \in Session
    BY TerminalLockedType DEF TypeOK, TerminalStatus, Fault
  <2>2. /\ session' = [session EXCEPT ![id] = s]
        /\ WorkerGoto(id, IF Taken(id, s) = {} THEN "exit" ELSE "selfstop")
        /\ UNCHANGED <<lapsed, port, handle, cancelled, conn, interrupted>>
    BY <1>6 DEF WorkerFail
  <2> HIDE DEF s
  <2>3. worker' \in [Ids -> WorkerPc]
    BY <1>pc, <2>2 DEF WorkerGoto, TypeOK
  <2> QED
    BY <2>1, <2>2, <2>3 DEF TypeOK
<1>7. CASE WorkerSelfStop(id)
  BY <1>7, <1>port, <1>pc, <1>detached DEF WorkerSelfStop, WorkerGoto, TypeOK
<1>8. CASE WorkerExit(id)
  BY <1>8, <1>pc, <1>detached DEF WorkerExit, WorkerGoto, TypeOK
<1> QED
  BY <1>1, <1>2, <1>3, <1>4, <1>5, <1>6, <1>7, <1>8 DEF Work

\* The clock, the interrupts and the closing of the database preserve the types.
LEMMA EnvironmentType ==
    ASSUME TypeInv,
           \/ \E c \in Conns : Interrupt(c) \/ Destroy(c)
           \/ \E id \in Ids : Lapse(id)
           \/ Terminated
           \/ UNCHANGED vars
    PROVE  TypeInv'
<1>1. ASSUME NEW c \in Conns, Interrupt(c) PROVE TypeInv'
  BY <1>1, ConnsAssumption DEF Interrupt, TypeInv, TypeOK, CallsNamed
<1>2. ASSUME NEW c \in Conns, Destroy(c) PROVE TypeInv'
  <2>1. conn' \in [Conns -> Connection] /\ CallsNamed'
    <3>1. "closed" \in Label /\ None \in MaybeId /\ {i \in Ids : session[i].owner} \in SUBSET Ids
      BY DEF Label, MaybeId
    <3> QED
      BY <1>2, <3>1, GotoType DEF Destroy
  <2> QED
    BY <1>2, <2>1, SweptType DEF Destroy, TypeInv, TypeOK
<1>3. ASSUME NEW id \in Ids, Lapse(id) PROVE TypeInv'
  BY <1>3 DEF Lapse, TypeInv, TypeOK, CallsNamed
<1>4. CASE Terminated \/ UNCHANGED vars
  BY <1>4 DEF Terminated, vars, TypeInv, TypeOK, CallsNamed
<1> QED
  BY <1>1, <1>2, <1>3, <1>4

\* Every step preserves the types.
LEMMA TypeStep ==
    TypeInv /\ [Next]_vars => TypeInv'
<1> SUFFICES ASSUME TypeInv, [Next]_vars PROVE TypeInv'
  OBVIOUS
<1>1. ASSUME NEW c \in Conns, Call(c) PROVE TypeInv'
  BY <1>1, StartType, CompleteType DEF Call
<1>2. ASSUME NEW c \in Conns, Proceed(c) PROVE TypeInv'
  BY <1>2, ReapType, StartType, CompleteType DEF Proceed
<1>3. ASSUME NEW id \in Ids, Work(id) \/ WorkerAccept(id) PROVE TypeInv'
  BY <1>3, WorkerType
<1> QED
  BY <1>1, <1>2, <1>3, EnvironmentType DEF Next

\* Every reachable state is well typed, and every call in progress has a session: the
\* registry's structs and the thread owners never leave their types.
THEOREM TypeCorrect == Spec => []TypeOK
<1>1. Init => TypeInv
  BY NoneAssumption
     DEF Init, TypeInv, TypeOK, CallsNamed, Gone, Session, Status, Absent, Fault, WorkerPc,
         Connection, Label, MaybeId
<1>2. TypeInv => TypeOK
  BY DEF TypeInv
<1> QED
  BY <1>1, <1>2, TypeStep, PTL DEF Spec
-----------------------------------------------------------------------------
(* Exclusive completion.  Who owns a COMPLETING session is known only because *)
(* no other call is about it in the steps that may end it, because its status *)
(* never goes back to one that BeginCompletion accepts, and because a new     *)
(* session is stored under an id that nobody else works on.                   *)

Begun == {"NONE", "PENDING_USER_ACTION", "CALLBACK_RECEIVED"}

Holds(c) == Owns(c) \/ conn[c].pc = "record"

CreateIsFirst ==
    \A c \in Conns : conn[c].pc = "create" =>
        /\ session[conn[c].id].status = "NONE"
        /\ \A d \in Conns : conn[d].id = conn[c].id => d = c

HolderAlone ==
    \A c \in Conns : Holds(c) =>
        /\ session[conn[c].id].status \notin Begun
        /\ \A d \in Conns : Holds(d) /\ conn[d].id = conn[c].id => d = c

HolderInv == CreateIsFirst /\ CompletionExclusive /\ HolderAlone

CompletionInv == TypeInv /\ HolderInv
-----------------------------------------------------------------------------
(* What any step but the creation and the end of a session may do to it.     *)

Calmly(s, t) ==
    /\ s.status \in {"NONE", "EVICTED", "COMPLETING"} => t.status = s.status
    /\ s.status \notin {"NONE"} => t.status # "NONE"
    /\ Terminal(s.status) => \/ t.status = s.status /\ t.fault = s.fault
                             \/ t.status = "EVICTED"
    /\ s.material = MaterialOf(s.status) => t.material = MaterialOf(t.status)

CalmStep == \A id \in Ids : Calmly(session[id], session'[id])

\* TerminalLocked ends an unfinished session that nobody is completing, and leaves a
\* finished one alone.
LEMMA TerminalLockedCalm ==
    ASSUME NEW s \in Session, NEW status \in TerminalStatus, NEW fault, NEW release,
           s.status \notin {"NONE", "EVICTED", "COMPLETING"}
    PROVE  Calmly(s, TerminalLocked(s, status, fault, release))
BY DEF TerminalLocked, Calmly, Terminal, TerminalStatus, MaterialOf

\* ExpireLocked leaves alone what is finished, absent or being completed.
LEMMA ExpireLockedCalm ==
    ASSUME NEW s \in Session, NEW due, NEW release
    PROVE  Calmly(s, ExpireLocked(s, due, release))
<1>1. Calmly(s, s)
  BY DEF Calmly
<1>2. ASSUME IsActive(s.status), s.status # "COMPLETING"
      PROVE  Calmly(s, TerminalLocked(s, "EXPIRED", "SESSION_EXPIRED", release))
  <2>1. s.status \notin {"NONE", "EVICTED", "COMPLETING"} /\ "EXPIRED" \in TerminalStatus
    BY <1>2 DEF IsActive, ActiveStatus, TerminalStatus
  <2> QED
    BY <2>1, TerminalLockedCalm
<1> QED
  BY <1>1, <1>2 DEF ExpireLocked

\* The session operators are calm.
LEMMA OperatorsCalm ==
    ASSUME TypeOK, NEW id \in Ids
    PROVE  /\ \A release : Calmly(session[id], Fresh(id, release))
           /\ Calmly(session[id], Snapshot(id))
           /\ Present(id) => Calmly(session[id], CancelSession(id))
           /\ \A pc \in Arrived : Calmly(session[id], Received(id, pc))
<1>1. session[id] \in Session
  BY DEF TypeOK
<1>2. ASSUME NEW release PROVE Calmly(session[id], Fresh(id, release))
  BY <1>1, ExpireLockedCalm DEF Fresh
<1>3. Fresh(id, TRUE) \in Session /\ Fresh(id, FALSE) \in Session
  BY SessionOperatorsType
<1>4. Calmly(session[id], Snapshot(id))
  <2> DEFINE s == Fresh(id, TRUE)
  <2>1. Calmly(session[id], s) /\ s \in Session
    BY <1>2, <1>3
  <2>2. /\ [s EXCEPT !.owner = FALSE].status = s.status
        /\ [s EXCEPT !.owner = FALSE].fault = s.fault
        /\ [s EXCEPT !.owner = FALSE].material = s.material
    BY <2>1 DEF Session
  <2>3. Snapshot(id) \in {s, [s EXCEPT !.owner = FALSE]}
    BY DEF Snapshot
  <2> QED
    BY <2>1, <2>2, <2>3 DEF Calmly
<1>5. Present(id) => Calmly(session[id], CancelSession(id))
  <2>1. CASE session[id].status = "COMPLETING"
    BY <2>1 DEF CancelSession, Calmly
  <2>2. CASE session[id].status # "COMPLETING" /\ Present(id)
    <3>1. session[id].status \notin {"NONE", "EVICTED", "COMPLETING"} /\ "CANCELLED" \in TerminalStatus
      BY <2>2 DEF Present, Absent, TerminalStatus
    <3> QED
      BY <1>1, <2>2, <3>1, TerminalLockedCalm DEF CancelSession
  <2> QED
    BY <2>1, <2>2
<1>6. ASSUME NEW pc \in Arrived PROVE Calmly(session[id], Received(id, pc))
  <2> DEFINE s == Fresh(id, FALSE)
             callback == [s EXCEPT !.status = "CALLBACK_RECEIVED",
                                   !.material = (@ \ {"state"}) \cup {"code"}]
  <2>1. Calmly(session[id], s) /\ s \in Session
    BY <1>2, <1>3
  <2>2. CASE s.status # "PENDING_USER_ACTION"
    <3>1. Received(id, pc) = s
      BY <2>2 DEF Received
    <3> QED
      BY <2>1, <3>1
  <2>3. CASE s.status = "PENDING_USER_ACTION"
    <3>1. session[id].status \notin {"NONE", "EVICTED", "COMPLETING"}
      BY <2>1, <2>3 DEF Calmly
    <3>2. ~Terminal(session[id].status)
      BY <2>1, <2>3 DEF Calmly, Terminal, TerminalStatus
    <3>3. Received(id, pc) \in {TerminalLocked(s, "FAILED", "STATE_MISMATCH", FALSE),
                                TerminalLocked(s, "ACCESS_DENIED", "USER_DENIED", FALSE), callback}
      BY <2>3 DEF Received
    <3>4. ASSUME NEW status \in {"FAILED", "ACCESS_DENIED"}, NEW fault
          PROVE  Calmly(session[id], TerminalLocked(s, status, fault, FALSE))
      BY <2>1, <2>3, <3>1, <3>2
         DEF TerminalLocked, Calmly, Terminal, TerminalStatus, MaterialOf
    <3>5. Calmly(session[id], callback)
      <4>1. /\ callback.status = "CALLBACK_RECEIVED"
            /\ callback.material = (s.material \ {"state"}) \cup {"code"}
        BY <2>1 DEF Session
      <4>2. s.material = {"state", "verifier"} => callback.material = {"verifier", "code"}
        BY <4>1
      <4> HIDE DEF callback, s
      <4> QED
        BY <2>1, <2>3, <3>1, <3>2, <4>1, <4>2 DEF Calmly, MaterialOf
    <3> QED
      BY <3>3, <3>4, <3>5
  <2> QED
    BY <2>2, <2>3
<1> QED
  BY <1>2, <1>4, <1>5, <1>6
\* Replacing one session calmly is a calm step.
LEMMA ReplaceCalm ==
    ASSUME TypeOK, NEW id \in Ids, NEW t, Calmly(session[id], t),
           session' = [session EXCEPT ![id] = t]
    PROVE  CalmStep
<1>1. \A i \in Ids : session'[i] = IF i = id THEN t ELSE session[i]
  BY DEF TypeOK
<1>2. \A i \in Ids : Calmly(session[i], session[i])
  BY DEF Calmly
<1> QED
  BY <1>1, <1>2 DEF CalmStep

\* So is Create's sweep with the eviction of finished sessions.
LEMMA SweepCalm ==
    ASSUME TypeOK, NEW gone, Evicted(Swept, gone), NEW i \in Ids
    PROVE  Calmly(session[i], Without(Swept, gone)[i])
<1>1. Swept[i] = Fresh(i, TRUE) /\ Calmly(session[i], Swept[i])
  BY OperatorsCalm DEF Swept
<1>2. CASE i \notin gone
  BY <1>1, <1>2 DEF Without
<1>3. CASE i \in gone
  <2>1. Terminal(Swept[i].status)
    BY <1>3 DEF Evicted, Finished
  <2>2. session[i].status \notin {"NONE", "EVICTED", "COMPLETING"}
    BY <1>1, <2>1 DEF Calmly, Terminal, TerminalStatus
  <2>3. Without(Swept, gone)[i] = Gone("EVICTED")
    BY <1>3 DEF Without
  <2> QED
    BY <2>2, <2>3 DEF Calmly, Gone, MaterialOf
<1> QED
  BY <1>2, <1>3

Same(c) == conn'[c].pc = conn[c].pc /\ conn'[c].id = conn[c].id

\* The moves of a connection that neither begin a login nor win a completion.
Moves(c) ==
    \/ /\ conn'[c].pc \notin {"create", "exchange", "finish", "catch", "record"}
       /\ \/ conn'[c].id \in {conn[c].id, None}
          \/ conn'[c].id \in Ids /\ session[conn'[c].id].status # "NONE"
    \/ /\ Owns(c) /\ conn'[c].pc \in {"finish", "catch", "record"}
       /\ conn'[c].id = conn[c].id

\* Calm steps with such moves leave every completion with its holder.
LEMMA CalmKeeps ==
    ASSUME CompletionInv, CalmStep, TypeInv',
           NEW e, \A d \in Conns : Same(d) \/ (d = e /\ Moves(d))
    PROVE  HolderInv'
<1> USE DEF CompletionInv, HolderInv
<1>1. \A c \in Conns : Holds(c)' => Holds(c) /\ conn'[c].id = conn[c].id /\ (Owns(c)' => Owns(c))
  BY DEF Holds, Owns, Same, Moves
<1>2. \A c \in Conns : conn'[c].pc = "create" => conn[c].pc = "create" /\ conn'[c].id = conn[c].id
  BY DEF Same, Moves
<1>3. \A c \in Conns : Holds(c) \/ conn[c].pc = "create" => conn[c].id \in Ids
  BY DEF TypeInv, CallsNamed, Holds, Owns
<1>4. CreateIsFirst'
  <2> SUFFICES ASSUME NEW c \in Conns, conn'[c].pc = "create"
               PROVE  /\ session'[conn'[c].id].status = "NONE"
                      /\ \A d \in Conns : conn'[d].id = conn'[c].id => d = c
    BY DEF CreateIsFirst
  <2>1. conn[c].pc = "create" /\ conn'[c].id = conn[c].id /\ conn[c].id \in Ids
    BY <1>2, <1>3
  <2>2. session[conn[c].id].status = "NONE" /\ \A d \in Conns : conn[d].id = conn[c].id => d = c
    BY <2>1 DEF CreateIsFirst
  <2>3. session'[conn[c].id].status = "NONE"
    BY <2>1, <2>2 DEF CalmStep, Calmly
  <2>4. ASSUME NEW d \in Conns, conn'[d].id = conn'[c].id PROVE d = c
    <3>1. conn'[d].id = conn[d].id
      BY <2>1, <2>2, <2>4, NoneAssumption DEF Same, Moves
    <3> QED
      BY <2>1, <2>2, <2>4, <3>1
  <2> QED
    BY <2>1, <2>3, <2>4
<1>5. CompletionExclusive'
  <2>1. ASSUME NEW c \in Conns, Owns(c)'
        PROVE  conn'[c].id \in Ids /\ session'[conn'[c].id].status = "COMPLETING"
    <3>1. Owns(c) /\ conn'[c].id = conn[c].id
      BY <1>1, <2>1 DEF Holds
    <3>2. conn[c].id \in Ids /\ session[conn[c].id].status = "COMPLETING"
      BY <3>1 DEF CompletionExclusive
    <3> QED
      BY <3>1, <3>2 DEF CalmStep, Calmly
  <2>2. ASSUME NEW c \in Conns, NEW d \in Conns, Owns(c)', Owns(d)', conn'[c].id = conn'[d].id
        PROVE  c = d
    BY <1>1, <2>2 DEF CompletionExclusive, Holds
  <2> QED
    BY <2>1, <2>2 DEF CompletionExclusive, Owns
<1>6. HolderAlone'
  <2>1. ASSUME NEW c \in Conns, Holds(c)'
        PROVE  session'[conn'[c].id].status \notin Begun
    <3>1. Holds(c) /\ conn'[c].id = conn[c].id /\ conn[c].id \in Ids
      BY <1>1, <1>3, <2>1
    <3>2. session[conn[c].id] \in Session /\ session[conn[c].id].status \notin Begun
      BY <3>1 DEF HolderAlone, TypeInv, TypeOK
    <3>3. session[conn[c].id].status \in {"COMPLETING", "EVICTED"} \cup TerminalStatus
      BY <3>2 DEF Session, Status, ActiveStatus, Absent, Begun
    <3> QED
      BY <3>1, <3>3 DEF CalmStep, Calmly, Begun, Terminal, TerminalStatus
  <2>2. ASSUME NEW c \in Conns, NEW d \in Conns, Holds(c)', Holds(d)', conn'[c].id = conn'[d].id
        PROVE  c = d
    BY <1>1, <2>2 DEF HolderAlone
  <2> QED
    BY <2>1, <2>2 DEF HolderAlone, Holds, Owns
<1> QED
  BY <1>4, <1>5, <1>6
-----------------------------------------------------------------------------
(* What every step does to every session: a finished one keeps its outcome    *)
(* until it is evicted, and one that holds the material of its status goes on *)
(* to.                                                                       *)

Tamely(s, t) ==
    /\ Terminal(s.status) => \/ t.status = s.status /\ t.fault = s.fault
                             \/ t.status = "EVICTED"
    /\ s.material = MaterialOf(s.status) => t.material = MaterialOf(t.status)

TameStep == \A id \in Ids : Tamely(session[id], session'[id])

Kept == HolderInv' /\ TameStep

\* A calm step is tame.
LEMMA CalmIsTame ==
    CalmStep => TameStep
BY DEF CalmStep, Calmly, TameStep, Tamely

\* Goto moves one connection and no other.
LEMMA GotoMoves ==
    ASSUME TypeOK, NEW c \in Conns, NEW label, NEW id, NEW owners, Goto(c, label, id, owners)
    PROVE  /\ conn'[c].pc = label /\ conn'[c].id = id
           /\ \A d \in Conns : d # c => Same(d)
BY DEF TypeOK, Goto, Same

\* A connection that takes a calm step to a label where it holds no session, about the
\* session it was about, none, or one that exists.
LEMMA QuietGoto ==
    ASSUME CompletionInv, TypeInv', CalmStep, NEW c \in Conns,
           NEW label \in Label \ {"create", "exchange", "finish", "catch", "record"},
           NEW id \in MaybeId, NEW owners, Goto(c, label, id, owners),
           id \in {conn[c].id, None} \/ session[id].status # "NONE"
    PROVE  Kept
<1>1. TypeOK
  BY DEF CompletionInv, TypeInv
<1>2. conn'[c].pc = label /\ conn'[c].id = id /\ \A d \in Conns : d # c => Same(d)
  BY <1>1, GotoMoves
<1>3. Moves(c)
  BY <1>2 DEF Moves, MaybeId
<1> QED
  BY <1>2, <1>3, CalmKeeps, CalmIsTame DEF Kept

\* The holder of a session ends it, or finds that it has ended, and lets go of it.
LEMMA EndKeeps ==
    ASSUME CompletionInv, TypeInv', NEW c \in Conns, Holds(c), NEW t,
           session' = [session EXCEPT ![conn[c].id] = t],
           t.status \notin Begun, NEW label \in {"record", "resnap"}, NEW owners,
           Goto(c, label, conn[c].id, owners)
    PROVE  HolderInv'
<1> USE DEF CompletionInv, HolderInv
<1>type. TypeOK /\ CallsNamed
  BY DEF TypeInv
<1> DEFINE id == conn[c].id
<1>1. conn'[c].pc = label /\ conn'[c].id = id /\ \A d \in Conns : d # c => Same(d)
  BY <1>type, GotoMoves
<1>2. id \in Ids
  BY <1>type DEF CallsNamed, Holds, Owns
<1>3. \A i \in Ids : session'[i] = IF i = id THEN t ELSE session[i]
  BY <1>type DEF TypeOK
<1>4. session[id].status \notin Begun /\ \A d \in Conns : Holds(d) /\ conn[d].id = id => d = c
  BY DEF HolderAlone
<1>5. \A d \in Conns : Holds(d)' /\ d # c => Holds(d) /\ conn'[d].id = conn[d].id
                        /\ conn[d].id # id /\ conn[d].id \in Ids /\ (Owns(d)' => Owns(d))
  BY <1>1, <1>4, <1>type DEF Holds, Owns, Same, CallsNamed
<1>6. ~Owns(c)'
  BY <1>1 DEF Owns
<1> HIDE DEF id
<1>7. CreateIsFirst'
  <2> SUFFICES ASSUME NEW d \in Conns, conn'[d].pc = "create"
               PROVE  /\ session'[conn'[d].id].status = "NONE"
                      /\ \A e \in Conns : conn'[e].id = conn'[d].id => e = d
    BY DEF CreateIsFirst
  <2>1. d # c /\ conn[d].pc = "create" /\ conn'[d].id = conn[d].id /\ conn[d].id \in Ids
    BY <1>1, <1>type DEF Same, CallsNamed
  <2>2. session[conn[d].id].status = "NONE" /\ \A e \in Conns : conn[e].id = conn[d].id => e = d
    BY <2>1 DEF CreateIsFirst
  <2>3. conn[d].id # id
    BY <1>4, <2>2 DEF Begun
  <2> QED
    BY <1>1, <1>3, <2>1, <2>2, <2>3 DEF Same, id
<1>8. CompletionExclusive'
  <2>1. ASSUME NEW d \in Conns, Owns(d)'
        PROVE  conn'[d].id \in Ids /\ session'[conn'[d].id].status = "COMPLETING"
    <3>1. Owns(d) /\ conn'[d].id = conn[d].id /\ conn[d].id # id /\ conn[d].id \in Ids
      BY <1>5, <1>6, <2>1 DEF Holds
    <3> QED
      BY <1>3, <3>1 DEF CompletionExclusive
  <2>2. ASSUME NEW d \in Conns, NEW e \in Conns, Owns(d)', Owns(e)', conn'[d].id = conn'[e].id
        PROVE  d = e
    BY <1>5, <1>6, <2>2 DEF CompletionExclusive, Holds
  <2> QED
    BY <2>1, <2>2 DEF CompletionExclusive, Owns
<1>9. HolderAlone'
  <2>1. ASSUME NEW d \in Conns, Holds(d)'
        PROVE  session'[conn'[d].id].status \notin Begun
    BY <1>1, <1>2, <1>3, <1>5, <2>1 DEF HolderAlone
  <2>2. ASSUME NEW d \in Conns, NEW e \in Conns, Holds(d)', Holds(e)', conn'[d].id = conn'[e].id
        PROVE  d = e
    BY <1>1, <1>5, <2>2 DEF HolderAlone
  <2> QED
    BY <2>1, <2>2 DEF HolderAlone, Holds, Owns
<1> QED
  BY <1>7, <1>8, <1>9
\* A step that leaves the sessions alone is calm.
LEMMA UnchangedCalm ==
    UNCHANGED session => CalmStep
BY DEF CalmStep, Calmly

\* A new login takes an id that no connection works on.
LEMMA StartBindKeeps ==
    ASSUME CompletionInv, TypeInv', NEW c \in Conns, NEW id \in Ids, StartBind(c, id)
    PROVE  Kept
<1> USE DEF CompletionInv, HolderInv
<1>1. TypeOK
  BY DEF TypeInv
<1>2. conn'[c].pc = "create" /\ conn'[c].id = id /\ \A d \in Conns : d # c => Same(d)
  BY <1>1, GotoMoves DEF StartBind
<1>3. session[id].status = "NONE" /\ (\A d \in Conns : conn[d].id # id) /\ session' = session
  BY DEF StartBind
<1>4. CreateIsFirst'
  BY <1>2, <1>3 DEF CreateIsFirst, Same
<1>5. \A d \in Conns : Holds(d)' => Holds(d) /\ conn'[d].id = conn[d].id /\ (Owns(d)' => Owns(d))
  BY <1>2 DEF Holds, Owns, Same
<1>6. CompletionExclusive'
  BY <1>3, <1>5 DEF CompletionExclusive, Holds, Owns
<1>7. HolderAlone'
  BY <1>3, <1>5 DEF HolderAlone, Holds, Owns
<1> QED
  BY <1>3, <1>4, <1>6, <1>7, UnchangedCalm, CalmIsTame DEF Kept

\* The new session replaces an id not drawn before.
LEMMA CreateAcceptedKeeps ==
    ASSUME CompletionInv, TypeInv', NEW c \in Conns, CreateAccepted(c)
    PROVE  Kept
<1> USE DEF CompletionInv, HolderInv
<1>type. TypeOK /\ CallsNamed
  BY DEF TypeInv
<1> DEFINE id == conn[c].id
<1>1. conn[c].pc = "create" /\ id \in Ids
  BY <1>type DEF CreateAccepted, At, CallsNamed
<1>2. session[id].status = "NONE" /\ \A d \in Conns : conn[d].id = id => d = c
  BY <1>1 DEF CreateIsFirst
<1>3. PICK gone : /\ Evicted(Swept, gone)
                  /\ session' = [Without(Swept, gone) EXCEPT ![id] = NewSession]
  BY DEF CreateAccepted
<1>4. conn'[c].pc = "spawn" /\ conn'[c].id = id /\ \A d \in Conns : d # c => Same(d)
  BY <1>type, GotoMoves DEF CreateAccepted, Continue
<1>5. \A i \in Ids : i # id => Calmly(session[i], session'[i])
  BY <1>3, <1>type, SweepCalm, SweptType
<1>6. session'[id] = NewSession
  BY <1>1, <1>3, <1>type, SweptType
<1> HIDE DEF id
<1>7. \A d \in Conns : d # c => conn[d].id # id /\ conn'[d].id = conn[d].id /\ conn'[d].pc = conn[d].pc
  BY <1>2, <1>4 DEF Same
<1>8. CreateIsFirst'
  <2> SUFFICES ASSUME NEW d \in Conns, conn'[d].pc = "create"
               PROVE  /\ session'[conn'[d].id].status = "NONE"
                      /\ \A e \in Conns : conn'[e].id = conn'[d].id => e = d
    BY DEF CreateIsFirst
  <2>1. d # c /\ conn[d].pc = "create" /\ conn'[d].id = conn[d].id /\ conn[d].id \in Ids
    BY <1>4, <1>7, <1>type DEF CallsNamed
  <2>2. session[conn[d].id].status = "NONE" /\ \A e \in Conns : conn[e].id = conn[d].id => e = d
    BY <2>1 DEF CreateIsFirst
  <2>3. session'[conn[d].id].status = "NONE"
    BY <1>5, <1>7, <2>1, <2>2 DEF Calmly
  <2> QED
    BY <1>4, <1>7, <2>1, <2>2, <2>3
<1>9. \A d \in Conns : Holds(d)' => /\ d # c /\ Holds(d) /\ conn'[d].id = conn[d].id
                                   /\ conn[d].id # id /\ conn[d].id \in Ids
                                   /\ (Owns(d)' => Owns(d))
  BY <1>4, <1>7, <1>type DEF Holds, Owns, CallsNamed
<1>10. CompletionExclusive'
  <2>1. ASSUME NEW d \in Conns, Owns(d)'
        PROVE  conn'[d].id \in Ids /\ session'[conn'[d].id].status = "COMPLETING"
    <3>1. Owns(d) /\ conn'[d].id = conn[d].id /\ conn[d].id # id /\ conn[d].id \in Ids
      BY <1>9, <2>1 DEF Holds
    <3>2. session[conn[d].id].status = "COMPLETING"
      BY <3>1 DEF CompletionExclusive
    <3> QED
      BY <1>5, <3>1, <3>2 DEF Calmly
  <2>2. ASSUME NEW d \in Conns, NEW e \in Conns, Owns(d)', Owns(e)', conn'[d].id = conn'[e].id
        PROVE  d = e
    BY <1>9, <2>2 DEF CompletionExclusive, Holds
  <2> QED
    BY <2>1, <2>2 DEF CompletionExclusive, Owns
<1>11. HolderAlone'
  <2>1. ASSUME NEW d \in Conns, Holds(d)'
        PROVE  session'[conn'[d].id].status \notin Begun
    <3>1. Holds(d) /\ conn'[d].id = conn[d].id /\ conn[d].id # id /\ conn[d].id \in Ids
      BY <1>9, <2>1
    <3>2. session[conn[d].id].status \in {"COMPLETING", "EVICTED"} \cup TerminalStatus
      BY <3>1, <1>type DEF HolderAlone, TypeOK, Session, Status, ActiveStatus, Absent, Begun
    <3> QED
      BY <1>5, <3>1, <3>2 DEF Calmly, Begun, Terminal, TerminalStatus
  <2>2. ASSUME NEW d \in Conns, NEW e \in Conns, Holds(d)', Holds(e)', conn'[d].id = conn'[e].id
        PROVE  d = e
    BY <1>9, <2>2 DEF HolderAlone
  <2> QED
    BY <2>1, <2>2 DEF HolderAlone, Holds, Owns
<1>12. Tamely(session[id], session'[id])
  BY <1>2, <1>6 DEF Tamely, Terminal, TerminalStatus, NewSession, MaterialOf
<1> QED
  BY <1>5, <1>8, <1>10, <1>11, <1>12 DEF Kept, TameStep, Tamely, Calmly

\* The other steps of data360_auth_start hold nobody's session.
LEMMA StartKeeps ==
    ASSUME CompletionInv, TypeInv', NEW c \in Conns,
           \/ CreateLate(c) \/ CreateRefused(c) \/ StartSpawn(c) \/ StartAssign(c)
           \/ StartFails(c) \/ StartDrop(c)
    PROVE  Kept
<1>type. TypeOK /\ CallsNamed
  BY DEF CompletionInv, TypeInv
<1>0. /\ {"drop", "assign", "idle"} \subseteq Label \ {"create", "exchange", "finish", "catch", "record"}
      /\ conn[c].id \in MaybeId /\ None \in MaybeId
  BY <1>type DEF Label, MaybeId, TypeOK, Connection
<1>1. CASE CreateLate(c)
  <2>1. CalmStep
    BY <1>1, UnchangedCalm DEF CreateLate
  <2>2. Goto(c, "drop", conn[c].id, {})
    BY <1>1 DEF CreateLate, Continue
  <2> QED
    BY <2>1, <2>2, <1>0, QuietGoto DEF Kept
<1>2. CASE CreateRefused(c)
  <2>1. CalmStep
    BY <1>2, <1>type, SweepCalm DEF CreateRefused, CalmStep
  <2> QED
    BY <1>2, <2>1, <1>0, QuietGoto DEF CreateRefused, Continue, Kept
<1>3. CASE StartSpawn(c)
  BY <1>3, UnchangedCalm, <1>0, QuietGoto DEF StartSpawn, Continue, Kept
<1>4. CASE StartAssign(c)
  BY <1>4, UnchangedCalm, <1>0, QuietGoto DEF StartAssign, Return, Kept
<1>5. CASE StartFails(c)
  <2> DEFINE id == conn[c].id
             s == IF Present(id) THEN CancelSession(id) ELSE session[id]
  <2>1. id \in Ids
    BY <1>5, <1>type DEF StartFails, At, CallsNamed
  <2>2. Calmly(session[id], session[id])
    BY DEF Calmly
  <2>3. Calmly(session[id], s)
    BY <1>type, <2>1, <2>2, OperatorsCalm
  <2>4. session' = [session EXCEPT ![id] = s] /\ Continue(c, "drop", Taken(id, s))
    BY <1>5 DEF StartFails
  <2> HIDE DEF s
  <2>5. CalmStep
    BY <1>type, <2>1, <2>3, <2>4, ReplaceCalm
  <2> QED
    BY <2>4, <2>5, <1>0, QuietGoto DEF Continue, Kept
<1>6. CASE StartDrop(c)
  BY <1>6, UnchangedCalm, <1>0, QuietGoto DEF StartDrop, Return, Kept
<1> QED
  BY <1>1, <1>2, <1>3, <1>4, <1>5, <1>6
\* BeginCompletion wins a session that nobody holds.
LEMMA BeginKeeps ==
    ASSUME CompletionInv, TypeInv', NEW c \in Conns, BeginCompletion(c)
    PROVE  Kept
<1> USE DEF CompletionInv, HolderInv
<1>type. TypeOK /\ CallsNamed
  BY DEF TypeInv
<1> DEFINE id == conn[c].id
           t == [session[id] EXCEPT !.status = "COMPLETING",
                                    !.material = @ \ {"code", "verifier"}]
<1>1. id \in Ids /\ session[id] \in Session
  BY <1>type DEF BeginCompletion, At, CallsNamed, TypeOK
<1>2. session[id].status = "CALLBACK_RECEIVED"
  <2>1. Calmly(session[id], Fresh(id, TRUE)) /\ Fresh(id, TRUE).status = "CALLBACK_RECEIVED"
    BY <1>1, <1>type, OperatorsCalm DEF BeginCompletion
  <2>2. Fresh(id, TRUE) = session[id] \/ Terminal(Fresh(id, TRUE).status)
    BY DEF Fresh, ExpireLocked, TerminalLocked, Terminal, TerminalStatus
  <2> QED
    BY <2>1, <2>2 DEF Terminal, TerminalStatus
<1>3. session' = [session EXCEPT ![id] = t]
  BY <1>1, <1>type DEF BeginCompletion, Session
<1>4. t.status = "COMPLETING" /\ t.material = session[id].material \ {"code", "verifier"}
  BY <1>1 DEF Session
<1>5. Tamely(session[id], t)
  BY <1>2, <1>4 DEF Tamely, Terminal, TerminalStatus, MaterialOf
<1>6. conn'[c].pc = "exchange" /\ conn'[c].id = id /\ \A d \in Conns : d # c => Same(d)
  BY <1>type, GotoMoves DEF BeginCompletion, Continue
<1> HIDE DEF t, id
<1>7. \A i \in Ids : session'[i] = IF i = id THEN t ELSE session[i]
  BY <1>3, <1>type DEF TypeOK
<1>8. \A d \in Conns : Holds(d) \/ conn[d].pc = "create" => conn[d].id # id /\ conn[d].id \in Ids
  BY <1>2, <1>type DEF HolderAlone, CreateIsFirst, Begun, CallsNamed, Holds, Owns
<1>9. \A d \in Conns : d # c => conn'[d].pc = conn[d].pc /\ conn'[d].id = conn[d].id
  BY <1>6 DEF Same
<1>10. CreateIsFirst'
  <2> SUFFICES ASSUME NEW d \in Conns, conn'[d].pc = "create"
               PROVE  /\ session'[conn'[d].id].status = "NONE"
                      /\ \A e \in Conns : conn'[e].id = conn'[d].id => e = d
    BY DEF CreateIsFirst
  <2>1. d # c /\ conn[d].pc = "create" /\ conn'[d].id = conn[d].id
    BY <1>6, <1>9
  <2>2. session[conn[d].id].status = "NONE" /\ \A e \in Conns : conn[e].id = conn[d].id => e = d
    BY <2>1 DEF CreateIsFirst
  <2> QED
    BY <1>6, <1>7, <1>8, <1>9, <2>1, <2>2
<1>11. CompletionExclusive'
  <2>1. ASSUME NEW d \in Conns, Owns(d)'
        PROVE  conn'[d].id \in Ids /\ session'[conn'[d].id].status = "COMPLETING"
    <3>1. CASE d = c
      BY <1>1, <1>4, <1>6, <1>7, <3>1
    <3>2. CASE d # c
      <4>1. Owns(d) /\ conn'[d].id = conn[d].id
        BY <1>9, <2>1, <3>2 DEF Owns
      <4>2. conn[d].id # id
        BY <1>8, <4>1 DEF Holds
      <4> QED
        BY <1>7, <4>1, <4>2 DEF CompletionExclusive
    <3> QED
      BY <3>1, <3>2
  <2>2. ASSUME NEW d \in Conns, NEW e \in Conns, Owns(d)', Owns(e)', conn'[d].id = conn'[e].id
        PROVE  d = e
    BY <1>6, <1>8, <1>9, <2>2 DEF CompletionExclusive, Holds, Owns
  <2> QED
    BY <2>1, <2>2 DEF CompletionExclusive, Owns
<1>12. HolderAlone'
  <2>1. ASSUME NEW d \in Conns, Holds(d)'
        PROVE  session'[conn'[d].id].status \notin Begun
    <3>1. CASE d = c
      BY <1>1, <1>4, <1>6, <1>7, <3>1 DEF Begun
    <3>2. CASE d # c
      <4>1. Holds(d) /\ conn'[d].id = conn[d].id
        BY <1>9, <2>1, <3>2 DEF Holds, Owns
      <4> QED
        BY <1>7, <1>8, <4>1 DEF HolderAlone
    <3> QED
      BY <3>1, <3>2
  <2>2. ASSUME NEW d \in Conns, NEW e \in Conns, Holds(d)', Holds(e)', conn'[d].id = conn'[e].id
        PROVE  d = e
    BY <1>6, <1>8, <1>9, <2>2 DEF HolderAlone, Holds, Owns
  <2> QED
    BY <2>1, <2>2 DEF HolderAlone, Holds, Owns
<1>13. TameStep
  BY <1>5, <1>7 DEF TameStep, Tamely
<1> QED
  BY <1>10, <1>11, <1>12, <1>13 DEF Kept

\* The holder records the outcome: FinishAuthorized, or FinishFailed from either place.
LEMMA FinishKeeps ==
    ASSUME CompletionInv, TypeInv', NEW c \in Conns, Holds(c), NEW t,
           NEW label \in {"record", "resnap"}, NEW owners,
           \/ t = session[conn[c].id]
           \/ /\ session[conn[c].id].status = "COMPLETING"
              /\ \E status \in TerminalStatus, fault \in Fault : t = Finish(conn[c].id, status, fault),
           session' = [session EXCEPT ![conn[c].id] = t],
           Goto(c, label, conn[c].id, owners)
    PROVE  Kept
<1> DEFINE id == conn[c].id
<1>type. TypeOK /\ CallsNamed
  BY DEF CompletionInv, TypeInv
<1>1. id \in Ids
  BY <1>type DEF CallsNamed, Holds, Owns
<1>2. session[id].status \notin Begun
  BY DEF CompletionInv, HolderInv, HolderAlone
<1>3. CASE t = session[id]
  <2>1. HolderInv'
    BY <1>2, <1>3, EndKeeps
  <2>2. UNCHANGED session
    BY <1>1, <1>3, <1>type DEF TypeOK
  <2> QED
    BY <2>1, <2>2, UnchangedCalm, CalmIsTame DEF Kept
<1>4. ASSUME session[id].status = "COMPLETING",
             NEW status \in TerminalStatus, NEW fault \in Fault, t = Finish(id, status, fault)
      PROVE  Kept
  <2>1. t.status = status /\ t.material = {}
    BY <1>4 DEF Finish, TerminalLocked, Terminal, TerminalStatus
  <2>2. t.status \notin Begun
    BY <2>1 DEF Begun, TerminalStatus
  <2>3. HolderInv'
    BY <2>2, EndKeeps
  <2>4. Tamely(session[id], t)
    BY <1>4, <2>1 DEF Tamely, Terminal, TerminalStatus, MaterialOf
  <2>5. \A i \in Ids : session'[i] = IF i = id THEN t ELSE session[i]
    BY <1>type DEF TypeOK
  <2>6. TameStep
    BY <2>4, <2>5 DEF TameStep, Tamely
  <2> QED
    BY <2>3, <2>6 DEF Kept
<1> QED
  BY <1>3, <1>4
\* data360_auth_status, data360_auth_cancel and data360_auth_complete keep every
\* completion with its holder.
LEMMA CompleteKeeps ==
    ASSUME CompletionInv, TypeInv', NEW c \in Conns,
           \/ \E id \in Ids : AuthStatus(c, id) \/ AuthCancel(c, id) \/ CompleteSnapshot(c, id)
           \/ BeginLost(c) \/ Exchange(c) \/ FinishAuthorized(c)
           \/ CompleteCatch(c) \/ CompleteRecord(c) \/ CompleteResnap(c)
    PROVE  Kept
<1>type. TypeOK /\ CallsNamed
  BY DEF CompletionInv, TypeInv
<1>0. /\ {"begin", "resnap", "idle"} \subseteq Label \ {"create", "exchange", "finish", "catch", "record"}
      /\ conn[c].id \in MaybeId /\ None \in MaybeId /\ Ids \subseteq MaybeId
  BY <1>type DEF Label, MaybeId, TypeOK, Connection
<1>id. conn[c].pc \notin {"idle", "closed"} => conn[c].id \in Ids
  BY <1>type DEF CallsNamed
<1>holder. CompletionExclusive /\ HolderAlone
  BY DEF CompletionInv, HolderInv
<1>1. ASSUME NEW id \in Ids, AuthStatus(c, id) PROVE Kept
  <2>1. CalmStep
    BY <1>1, <1>type, OperatorsCalm, ReplaceCalm DEF AuthStatus
  <2> QED
    BY <1>0, <1>1, <2>1, QuietGoto DEF AuthStatus, Return
<1>2. ASSUME NEW id \in Ids, AuthCancel(c, id) PROVE Kept
  <2>1. CalmStep
    BY <1>2, <1>type, OperatorsCalm, ReplaceCalm DEF AuthCancel, Known
  <2> QED
    BY <1>0, <1>2, <2>1, QuietGoto DEF AuthCancel, Return
<1>3. ASSUME NEW id \in Ids, CompleteSnapshot(c, id) PROVE Kept
  <2>1. CalmStep
    BY <1>3, <1>type, OperatorsCalm, ReplaceCalm DEF CompleteSnapshot
  <2>2. session[id].status # "NONE"
    BY <1>3 DEF CompleteSnapshot, Known, Present, Absent
  <2>3. CASE Snapshot(id).status = "CALLBACK_RECEIVED"
    BY <1>0, <1>3, <2>1, <2>2, <2>3, QuietGoto DEF CompleteSnapshot
  <2>4. CASE Snapshot(id).status # "CALLBACK_RECEIVED"
    BY <1>0, <1>3, <2>1, <2>4, QuietGoto DEF CompleteSnapshot, Return
  <2> QED
    BY <2>3, <2>4
<1>4. CASE BeginLost(c)
  <2> DEFINE id == conn[c].id
             s == IF Present(id) THEN Fresh(id, TRUE) ELSE session[id]
  <2>1. id \in Ids
    BY <1>id, <1>4 DEF BeginLost, At
  <2>2. Calmly(session[id], session[id]) /\ Calmly(session[id], Fresh(id, TRUE))
    BY <1>type, <2>1, OperatorsCalm DEF Calmly
  <2>3. Calmly(session[id], s)
    BY <2>2
  <2>4. session' = [session EXCEPT ![id] = s] /\ Continue(c, "resnap", Taken(id, s))
    BY <1>4 DEF BeginLost
  <2> HIDE DEF s
  <2>5. CalmStep
    BY <1>type, <2>1, <2>3, <2>4, ReplaceCalm
  <2> QED
    BY <1>0, <2>4, <2>5, QuietGoto DEF Continue
<1>5. CASE Exchange(c)
  <2>1. PICK label \in {"finish", "catch"} : Continue(c, label, {})
    BY <1>5 DEF Exchange
  <2>2. conn'[c].pc = label /\ conn'[c].id = conn[c].id /\ \A d \in Conns : d # c => Same(d)
    BY <1>type, <2>1, GotoMoves DEF Continue
  <2>3. Moves(c)
    BY <1>5, <2>2 DEF Moves, Exchange, At, Owns
  <2>4. CalmStep
    BY <1>5, UnchangedCalm DEF Exchange
  <2> QED
    BY <2>2, <2>3, <2>4, CalmKeeps, CalmIsTame DEF Kept
<1>6. CASE FinishAuthorized(c)
  <2> DEFINE id == conn[c].id
             s == Finish(id, "AUTHORIZED", "none")
  <2>1. Owns(c) /\ Holds(c)
    BY <1>6 DEF FinishAuthorized, At, Owns, Holds
  <2>2. Completing(id) /\ session[id].status = "COMPLETING"
    BY <1>holder, <2>1 DEF CompletionExclusive, Completing, Present, Absent
  <2>3. session' = [session EXCEPT ![id] = s] /\ Goto(c, "resnap", id, Taken(id, s))
    BY <1>6, <2>2 DEF FinishAuthorized, Continue
  <2>4. "AUTHORIZED" \in TerminalStatus /\ "none" \in Fault
    BY DEF TerminalStatus, Fault
  <2> QED
    BY <2>1, <2>2, <2>3, <2>4, FinishKeeps
<1>7. ASSUME Holds(c), NEW label \in {"record", "resnap"}, FinishFailed(c, label) PROVE Kept
  <2> DEFINE id == conn[c].id
             s == IF Completing(id) THEN Finish(id, "FAILED", "TOKEN_EXCHANGE_FAILED")
                  ELSE session[id]
  <2>1. session' = [session EXCEPT ![id] = s] /\ Goto(c, label, id, Taken(id, s))
    BY <1>7 DEF FinishFailed, Continue
  <2>2. "FAILED" \in TerminalStatus /\ "TOKEN_EXCHANGE_FAILED" \in Fault
    BY DEF TerminalStatus, Fault
  <2>3. \/ s = session[id]
        \/ /\ session[id].status = "COMPLETING"
           /\ \E status \in TerminalStatus, fault \in Fault : s = Finish(id, status, fault)
    BY <2>2 DEF Completing
  <2> HIDE DEF s
  <2> QED
    BY <1>7, <2>1, <2>3, FinishKeeps
<1>8. CASE CompleteCatch(c)
  <2>1. Owns(c) /\ Holds(c)
    BY <1>8 DEF CompleteCatch, At, Owns, Holds
  <2>2. CASE c \in interrupted
    BY <1>7, <1>8, <2>1, <2>2 DEF CompleteCatch
  <2>3. CASE c \notin interrupted
    <3>1. conn'[c].pc = "record" /\ conn'[c].id = conn[c].id /\ \A d \in Conns : d # c => Same(d)
      BY <1>8, <1>type, <2>3, GotoMoves DEF CompleteCatch, Continue
    <3>2. Moves(c) /\ CalmStep
      BY <1>8, <2>1, <2>3, <3>1, UnchangedCalm DEF Moves, CompleteCatch
    <3> QED
      BY <3>1, <3>2, CalmKeeps, CalmIsTame DEF Kept
  <2> QED
    BY <2>2, <2>3
<1>9. CASE CompleteRecord(c)
  <2>1. Holds(c)
    BY <1>9 DEF CompleteRecord, At, Holds
  <2>2. CASE c \notin interrupted
    BY <1>7, <1>9, <2>1, <2>2 DEF CompleteRecord
  <2>3. CASE c \in interrupted
    <3>1. CalmStep
      BY <1>9, <2>3, UnchangedCalm DEF CompleteRecord
    <3> QED
      BY <1>0, <1>9, <2>3, <3>1, QuietGoto DEF CompleteRecord, Return
  <2> QED
    BY <2>2, <2>3
<1>10. CASE CompleteResnap(c)
  <2> DEFINE id == conn[c].id
             s == IF Present(id) THEN Snapshot(id) ELSE session[id]
  <2>1. id \in Ids
    BY <1>id, <1>10 DEF CompleteResnap, At
  <2>2. Calmly(session[id], session[id]) /\ Calmly(session[id], Snapshot(id))
    BY <1>type, <2>1, OperatorsCalm DEF Calmly
  <2>3. Calmly(session[id], s)
    BY <2>2
  <2>4. session' = [session EXCEPT ![id] = s] /\ Return(c, Taken(id, s))
    BY <1>10 DEF CompleteResnap
  <2> HIDE DEF s
  <2>5. CalmStep
    BY <1>type, <2>1, <2>3, <2>4, ReplaceCalm
  <2> QED
    BY <1>0, <2>4, <2>5, QuietGoto DEF Return
<1> QED
  BY <1>1, <1>2, <1>3, <1>4, <1>5, <1>6, <1>8, <1>9, <1>10
\* Reaping, the callback worker and the environment keep every completion with its
\* holder: they move no call, and a late callback, fault or expiry stays off a session
\* that is being completed.
LEMMA OthersKeep ==
    ASSUME CompletionInv, TypeInv',
           \/ \E c \in Conns : Reap(c) \/ Interrupt(c) \/ Destroy(c)
           \/ \E id \in Ids : Work(id) \/ WorkerAccept(id) \/ Lapse(id)
           \/ Terminated \/ UNCHANGED vars
    PROVE  Kept
<1>type. TypeOK
  BY DEF CompletionInv, TypeInv
<1>0. ASSUME CalmStep, \A d \in Conns : Same(d) PROVE Kept
  BY <1>0, CalmKeeps, CalmIsTame DEF Kept
<1>same. UNCHANGED conn => \A d \in Conns : Same(d)
  BY DEF Same
<1>1. ASSUME NEW c \in Conns, Reap(c) PROVE Kept
  <2>1. UNCHANGED session
    BY <1>1 DEF Reap, StopCancel, StopTake, StopJoin
  <2>2. \A d \in Conns : Same(d)
    <3>1. ASSUME NEW id \in Ids, StopCancel(c, id) PROVE \A d \in Conns : Same(d)
      BY <1>type, <3>1 DEF StopCancel, Same, TypeOK, Connection
    <3>2. CASE StopTake(c)
      BY <1>type, <3>2 DEF StopTake, Same, TypeOK, Connection
    <3>3. CASE StopJoin(c)
      BY <1>type, <3>3 DEF StopJoin, Same, TypeOK, Connection
    <3> QED
      BY <1>1, <3>1, <3>2, <3>3 DEF Reap
  <2> QED
    BY <1>0, <2>1, <2>2, UnchangedCalm
<1>2. ASSUME NEW c \in Conns, Interrupt(c) PROVE Kept
  BY <1>0, <1>2, <1>same, UnchangedCalm DEF Interrupt
<1>3. ASSUME NEW c \in Conns, Destroy(c) PROVE Kept
  <2>1. conn'[c].pc = "closed" /\ \A d \in Conns : d # c => Same(d)
    BY <1>3, <1>type, GotoMoves DEF Destroy
  <2>2. \A d \in Conns : conn'[d].pc \in {"idle", "closed"}
    BY <1>3, <2>1 DEF Destroy, At, Same
  <2>3. HolderInv'
    BY <2>2 DEF HolderInv, CreateIsFirst, CompletionExclusive, HolderAlone, Holds, Owns
  <2>4. \A i \in Ids : session'[i] = IF i \in Stored(session) THEN Gone("EVICTED") ELSE session[i]
    BY <1>3 DEF Destroy, Without
  <2>5. TameStep
    BY <2>4 DEF TameStep, Tamely, Gone, MaterialOf
  <2> QED
    BY <2>3, <2>5 DEF Kept
<1>4. ASSUME NEW id \in Ids, Work(id) \/ WorkerAccept(id) PROVE Kept
  <2>1. UNCHANGED conn
    BY <1>4 DEF Work, WorkerBegin, WorkerAccept, WorkerTimeout, WorkerCancelled, WorkerDeliver,
                WorkerFail, WorkerSelfStop, WorkerExit
  <2>2. CASE WorkerDeliver(id)
    <3>1. Calmly(session[id], Received(id, worker[id]))
      BY <1>type, <2>2, OperatorsCalm DEF WorkerDeliver
    <3>2. CalmStep
      BY <1>type, <2>2, <3>1, ReplaceCalm, UnchangedCalm DEF WorkerDeliver
    <3> QED
      BY <1>0, <1>same, <2>1, <3>2
  <2>3. CASE WorkerFail(id)
    <3> DEFINE t == TerminalLocked(session[id], "FAILED", "CALLBACK_PROTOCOL_ERROR", TRUE)
    <3>1. ASSUME Present(id), session[id].status # "COMPLETING" PROVE Calmly(session[id], t)
      <4>1. /\ session[id] \in Session /\ "FAILED" \in TerminalStatus
            /\ session[id].status \notin {"NONE", "EVICTED", "COMPLETING"}
        BY <1>type, <3>1 DEF TypeOK, TerminalStatus, Present, Absent
      <4> QED
        BY <4>1, TerminalLockedCalm
    <3>2. Calmly(session[id], session[id])
      BY DEF Calmly
    <3>3. \E s : Calmly(session[id], s) /\ session' = [session EXCEPT ![id] = s]
      BY <2>3, <3>1, <3>2 DEF WorkerFail
    <3>4. CalmStep
      BY <1>type, <3>3, ReplaceCalm
    <3> QED
      BY <1>0, <1>same, <2>1, <3>4
  <2>4. CASE ~WorkerDeliver(id) /\ ~WorkerFail(id)
    <3>1. UNCHANGED session
      BY <1>4, <2>4 DEF Work, WorkerBegin, WorkerAccept, WorkerTimeout, WorkerCancelled,
                        WorkerSelfStop, WorkerExit
    <3> QED
      BY <1>0, <1>same, <2>1, <3>1, UnchangedCalm
  <2> QED
    BY <2>2, <2>3, <2>4
<1>5. ASSUME NEW id \in Ids, Lapse(id) PROVE Kept
  BY <1>0, <1>5, <1>same, UnchangedCalm DEF Lapse
<1>6. CASE Terminated \/ UNCHANGED vars
  BY <1>0, <1>6, <1>same, UnchangedCalm DEF Terminated, vars
<1> QED
  BY <1>1, <1>2, <1>3, <1>4, <1>5, <1>6

\* Every step preserves the inductive invariant and treats every session tamely.
LEMMA CompletionStep ==
    CompletionInv /\ [Next]_vars => CompletionInv' /\ TameStep
<1> SUFFICES ASSUME CompletionInv, [Next]_vars PROVE CompletionInv' /\ TameStep
  OBVIOUS
<1>1. TypeInv'
  BY TypeStep DEF CompletionInv
<1>2. ASSUME NEW c \in Conns, Call(c) PROVE Kept
  BY <1>1, <1>2, StartBindKeeps, CompleteKeeps DEF Call
<1>3. ASSUME NEW c \in Conns, Proceed(c) PROVE Kept
  BY <1>1, <1>3, OthersKeep, StartKeeps, CreateAcceptedKeeps, BeginKeeps, CompleteKeeps DEF Proceed
<1>4. Kept
  BY <1>1, <1>2, <1>3, OthersKeep DEF Next
<1> QED
  BY <1>1, <1>4 DEF Kept, CompletionInv

\* The inductive invariant holds initially.
LEMMA CompletionInit == Init => CompletionInv
<1>1. Init => TypeInv
  BY NoneAssumption
     DEF Init, TypeInv, TypeOK, CallsNamed, Gone, Session, Status, Absent, Fault, WorkerPc,
         Connection, Label, MaybeId
<1>2. Init => HolderInv
  BY DEF Init, HolderInv, CreateIsFirst, CompletionExclusive, HolderAlone, Holds, Owns
<1> QED
  BY <1>1, <1>2 DEF CompletionInv

\* The inductive invariant holds in every reachable state.
LEMMA CompletionInvariant == Spec => []CompletionInv
BY CompletionInit, CompletionStep, PTL DEF Spec

\* A session is completed by one caller at a time, and until that caller is done with it
\* the session stays COMPLETING: no sweep, cancellation, late callback or second
\* completion ends it between the installation of the secret and FinishAuthorized.
THEOREM CompletionIsExclusive == Spec => []CompletionExclusive
<1>1. CompletionInv => CompletionExclusive
  BY DEF CompletionInv, HolderInv
<1> QED
  BY <1>1, CompletionInvariant, PTL

\* The expected state, the verifier and the code are wiped when the session's status no
\* longer needs them, on every path that ends or advances a login.
THEOREM MaterialIsWiped == Spec => []MaterialByStatus
<1>1. Init => MaterialByStatus
  BY DEF Init, MaterialByStatus, MaterialOf, Gone
<1>2. CompletionInv /\ MaterialByStatus /\ [Next]_vars => MaterialByStatus'
  BY CompletionStep DEF MaterialByStatus, TameStep, Tamely
<1> QED
  BY <1>1, <1>2, CompletionInvariant, PTL DEF Spec

\* The first outcome of a login stands, whatever arrives late.
THEOREM OutcomesStand == Spec => OutcomeStands
<1>1. CompletionInv /\ [Next]_vars =>
        [\A id \in Ids : Terminal(session[id].status) =>
            \/ session'[id].status = session[id].status /\ session'[id].fault = session[id].fault
            \/ session'[id].status = "EVICTED"]_vars
  BY CompletionStep DEF TameStep, Tamely
<1> QED
  BY <1>1, CompletionInvariant, PTL DEF Spec, OutcomeStands
=============================================================================
