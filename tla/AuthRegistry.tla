---------------------------- MODULE AuthRegistry ----------------------------
(***************************************************************************)
(* The OAuth session registry of one DuckDB database, the callback worker  *)
(* thread of every login, and the SQL connections that call                *)
(* data360_auth_start, _status, _complete and _cancel on it.               *)
(*                                                                         *)
(* One action is one critical section of AuthSessionRegistry::mutex (or of *)
(* CallbackThreadOwner::worker_mutex) with the code around it that touches *)
(* no shared state.  AuthCallbackOwner::StopAndJoin, which the registry    *)
(* calls after it has released its mutex, is three actions of its own.     *)
(*                                                                         *)
(* Time is the set `lapsed' of the sessions whose expires_at_ms has been   *)
(* reached; the listener's own deadline, counted from the later start of   *)
(* the worker, never precedes it.                                          *)
(***************************************************************************)
EXTENDS Naturals, FiniteSets

CONSTANTS
    Ids,            \* the auth ids that may be drawn; each is drawn at most once
    Conns,          \* SQL connections
    Interruptible,  \* connections whose statements the user may interrupt
    MaxActive,      \* 4 in the source: active sessions
    MaxSessions,    \* 32 in the source: sessions kept, the finished ones included
    IdCollisions,   \* TRUE if sixteen draws of an opaque id may all collide
    PromptStart,    \* TRUE if data360_auth_start takes less than a session's lifetime
    None

ASSUME ConnsAssumption == Interruptible \subseteq Conns
ASSUME BoundsAssumption ==
    /\ MaxActive \in Nat \ {0}
    /\ MaxSessions \in Nat
    /\ MaxActive < MaxSessions
ASSUME NoneAssumption == None \notin Ids
ASSUME SwitchesAssumption == IdCollisions \in BOOLEAN /\ PromptStart \in BOOLEAN

VARIABLES
    session,      \* the session of every id: Session records
    lapsed,       \* ids whose expiry time has been reached
    port,         \* the id whose listener is bound to 127.0.0.1:8910, or None
    worker,       \* where the callback worker of an id is
    handle,       \* the std::thread member of the id's CallbackThreadOwner
    cancelled,    \* ids whose CallbackThreadOwner::Cancel has run
    conn,         \* where every connection is
    interrupted   \* connections whose running statement has been interrupted

vars == <<session, lapsed, port, worker, handle, cancelled, conn, interrupted>>

-----------------------------------------------------------------------------
(* Sessions.  "NONE" is an id not drawn yet, "EVICTED" one no longer in the  *)
(* map.  `material' names the non-empty ones among expected_state,           *)
(* pkce_verifier and authorization_code; `owner' says whether the session    *)
(* still holds its callback_owner.                                           *)

TerminalStatus == {"AUTHORIZED", "ACCESS_DENIED", "EXPIRED", "CANCELLED", "FAILED"}
ActiveStatus == {"PENDING_USER_ACTION", "CALLBACK_RECEIVED", "COMPLETING"}
Absent == {"NONE", "EVICTED"}
Status == TerminalStatus \cup ActiveStatus \cup Absent

Fault == {"none", "SESSION_EXPIRED", "STATE_MISMATCH", "USER_DENIED",
          "CALLBACK_PROTOCOL_ERROR", "TOKEN_EXCHANGE_FAILED"}

Material == {"state", "verifier", "code"}

Session == [status : Status, fault : Fault, material : SUBSET Material, owner : BOOLEAN]

Gone(status) == [status |-> status, fault |-> "none", material |-> {}, owner |-> FALSE]

NewSession == [status |-> "PENDING_USER_ACTION", fault |-> "none",
               material |-> {"state", "verifier"}, owner |-> TRUE]

Terminal(status) == status \in TerminalStatus
IsActive(status) == status \in ActiveStatus
Present(id) == session[id].status \notin Absent

TerminalLockedOverwrites(s, status, fault, release) ==
    [status |-> status, fault |-> fault, material |-> {}, owner |-> s.owner /\ ~release]

TerminalLockedKeepsMaterial(s, status, fault, release) ==
    IF Terminal(s.status) THEN s
    ELSE [s EXCEPT !.status = status, !.fault = fault, !.owner = @ /\ ~release]

\* Move a session to a terminal status and wipe its material; the first one wins.
TerminalLocked(s, status, fault, release) ==
    IF Terminal(s.status) THEN s
    ELSE [status |-> status, fault |-> fault, material |-> {},
          owner |-> s.owner /\ ~release]

ExpireLockedAlways(s, due, release) ==
    IF due /\ IsActive(s.status)
    THEN TerminalLocked(s, "EXPIRED", "SESSION_EXPIRED", release)
    ELSE s

\* Expire a session that is due, unless completion owns it.
ExpireLocked(s, due, release) ==
    IF due /\ IsActive(s.status) /\ s.status # "COMPLETING"
    THEN TerminalLocked(s, "EXPIRED", "SESSION_EXPIRED", release)
    ELSE s

\* The session `id' as a caller finds it once it has applied the clock.
Fresh(id, release) == ExpireLocked(session[id], id \in lapsed, release)

TakenCopied(id, s) == IF session[id].owner THEN {id} ELSE {}

\* A caller that replaces session[id] by s takes the owner s no longer holds.
Taken(id, s) == IF session[id].owner /\ ~s.owner THEN {id} ELSE {}

-----------------------------------------------------------------------------
(* Connections.  `stop' holds the owners the thread has taken and has yet to *)
(* StopAndJoin, `cut' the one it has cancelled and not yet tried to join,    *)
(* `join' the one whose thread it is joining.                                *)

Label == {"idle", "create", "drop", "spawn", "assign", "begin", "exchange", "finish",
          "catch", "record", "resnap", "closed"}

MaybeId == Ids \cup {None}

Connection == [pc : Label, id : MaybeId, stop : SUBSET Ids, cut : MaybeId, join : MaybeId]

Ready(c) == conn[c].stop = {} /\ conn[c].cut = None /\ conn[c].join = None

At(c, label) == conn[c].pc = label /\ Ready(c)

Open == \A d \in Conns : conn[d].pc # "closed"

\* The connection goes on at `label' for session `id' after stopping `owners'.
Goto(c, label, id, owners) ==
    conn' = [conn EXCEPT ![c] = [pc |-> label, id |-> id, stop |-> owners,
                                 cut |-> None, join |-> None]]

\* The statement ends: the executor forgets the interrupt.
Return(c, owners) ==
    /\ Goto(c, "idle", None, owners)
    /\ interrupted' = interrupted \ {c}

Continue(c, label, owners) ==
    /\ Goto(c, label, conn[c].id, owners)
    /\ UNCHANGED interrupted

PortWithout(id) == IF port = id THEN None ELSE port

-----------------------------------------------------------------------------
(* AuthCallbackOwner::StopAndJoin, called by a connection on an owner it took *)

\* Cancel(): raise the flag and close the listener.
StopCancel(c, id) ==
    /\ id \in conn[c].stop /\ conn[c].cut = None /\ conn[c].join = None
    /\ cancelled' = cancelled \cup {id}
    /\ port' = PortWithout(id)
    /\ conn' = [conn EXCEPT ![c].stop = @ \ {id}, ![c].cut = id]
    /\ UNCHANGED <<session, lapsed, worker, handle, interrupted>>

StopTakeUnchecked(c) ==
    /\ conn[c].cut # None
    /\ LET id == conn[c].cut
       IN  /\ handle' = [handle EXCEPT ![id] = "taken"]
           /\ conn' = [conn EXCEPT ![c].cut = None, ![c].join = id]
    /\ UNCHANGED <<session, lapsed, port, worker, cancelled, interrupted>>

\* Under worker_mutex: take a joinable thread, return when there is none.
StopTake(c) ==
    /\ conn[c].cut # None
    /\ LET id == conn[c].cut
           joinable == handle[id] = "joinable"
       IN  /\ handle' = IF joinable THEN [handle EXCEPT ![id] = "taken"] ELSE handle
           /\ conn' = [conn EXCEPT ![c].cut = None,
                                   ![c].join = IF joinable THEN id ELSE None]
    /\ UNCHANGED <<session, lapsed, port, worker, cancelled, interrupted>>

\* owned.join() returns once the worker has run to its end.
StopJoin(c) ==
    /\ conn[c].join # None
    /\ worker[conn[c].join] = "done"
    /\ conn' = [conn EXCEPT ![c].join = None]
    /\ UNCHANGED <<session, lapsed, port, worker, handle, cancelled, interrupted>>

-----------------------------------------------------------------------------
(* data360_auth_start                                                        *)

\* Bind the fixed callback port and draw the login's random material.  A port
\* that is taken is an error that changes nothing.
StartBind(c, id) ==
    /\ Open /\ At(c, "idle")
    /\ port = None
    /\ session[id].status = "NONE" /\ id \notin lapsed
    /\ \A d \in Conns : conn[d].id # id
    /\ port' = id
    /\ Goto(c, "create", id, {})
    /\ UNCHANGED <<session, lapsed, worker, handle, cancelled, interrupted>>

\* The request's expiry passed before Create took the mutex.
CreateLate(c) ==
    /\ At(c, "create") /\ conn[c].id \in lapsed
    /\ Continue(c, "drop", {})
    /\ UNCHANGED <<session, lapsed, port, worker, handle, cancelled>>

\* Create first expires every session that is due and takes its owner ...
Swept == [i \in Ids |-> Fresh(i, TRUE)]
SweptOwners == {i \in Ids : session[i].owner /\ ~Swept[i].owner}

Stored(map) == {i \in Ids : map[i].status \notin Absent}
Finished(map) == {i \in Ids : Terminal(map[i].status)}

ActiveInPending(map) == {i \in Ids : map[i].status = "PENDING_USER_ACTION"}
ActiveIn(map) == {i \in Ids : IsActive(map[i].status)}

\* ... then erases finished sessions, in the arbitrary order of their random ids,
\* until there is room or none is left.
Evicted(map, gone) ==
    /\ gone \subseteq Finished(map)
    /\ gone # {} => Cardinality(Stored(map) \ gone) + 1 >= MaxSessions
    /\ \/ Cardinality(Stored(map) \ gone) < MaxSessions
       \/ gone = Finished(map)

Without(map, gone) == [i \in Ids |-> IF i \in gone THEN Gone("EVICTED") ELSE map[i]]

\* AUTH_SESSION_LIMIT_REACHED: too many active sessions, or no unused id was drawn.
CreateRefused(c) ==
    /\ At(c, "create") /\ conn[c].id \notin lapsed
    /\ \E gone \in SUBSET Ids :
          /\ Evicted(Swept, gone)
          /\ session' = Without(Swept, gone)
    /\ Cardinality(ActiveIn(Swept)) >= MaxActive \/ IdCollisions
    /\ Continue(c, "drop", SweptOwners)
    /\ UNCHANGED <<lapsed, port, worker, handle, cancelled>>

CreateAccepted(c) ==
    /\ At(c, "create") /\ conn[c].id \notin lapsed
    /\ Cardinality(ActiveIn(Swept)) < MaxActive
    /\ \E gone \in SUBSET Ids :
          /\ Evicted(Swept, gone)
          /\ session' = [Without(Swept, gone) EXCEPT ![conn[c].id] = NewSession]
    /\ Continue(c, "spawn", SweptOwners)
    /\ UNCHANGED <<lapsed, port, worker, handle, cancelled>>

\* owner->Start: the thread runs before the assignment to `worker' is done, which
\* no mutex protects; the accesses that race with it see the old or the new value.
StartSpawn(c) ==
    /\ At(c, "spawn")
    /\ worker' = [worker EXCEPT ![conn[c].id] = "spawned"]
    /\ Continue(c, "assign", {})
    /\ UNCHANGED <<session, lapsed, port, handle, cancelled>>

StartAssign(c) ==
    /\ At(c, "assign")
    /\ handle' = [handle EXCEPT ![conn[c].id] = "joinable"]
    /\ Return(c, {})
    /\ UNCHANGED <<session, lapsed, port, worker, cancelled>>

CancelSessionAnyway(id) == TerminalLocked(session[id], "CANCELLED", "none", TRUE)

CancelSession(id) ==
    IF session[id].status = "COMPLETING" THEN session[id]
    ELSE TerminalLocked(session[id], "CANCELLED", "none", TRUE)

\* The thread could not be created: cancel the session that was just stored.
StartFails(c) ==
    /\ At(c, "spawn")
    /\ LET id == conn[c].id
           s == IF Present(id) THEN CancelSession(id) ELSE session[id]
       IN  /\ session' = [session EXCEPT ![id] = s]
           /\ Continue(c, "drop", Taken(id, s))
    /\ UNCHANGED <<lapsed, port, worker, handle, cancelled>>

\* The call fails: the last reference to the owner goes, and with it the listener.
StartDrop(c) ==
    /\ At(c, "drop")
    /\ port' = PortWithout(conn[c].id)
    /\ Return(c, {})
    /\ UNCHANGED <<session, lapsed, worker, handle, cancelled>>

-----------------------------------------------------------------------------
(* data360_auth_status, data360_auth_cancel, data360_auth_complete.  Ids are *)
(* opaque: a caller knows one only after data360_auth_start has returned it. *)

Starting(id) == \E d \in Conns : conn[d].id = id /\ conn[d].pc \in {"spawn", "assign", "drop"}
Known(id) == Present(id) /\ ~Starting(id)

SnapshotReapsAlways(id) == [Fresh(id, TRUE) EXCEPT !.owner = FALSE]

\* Snapshot: expire what is due and reap the owner of a finished session.
Snapshot(id) ==
    LET s == Fresh(id, TRUE)
    IN  IF Terminal(s.status) THEN [s EXCEPT !.owner = FALSE] ELSE s

AuthStatus(c, id) ==
    /\ Open /\ At(c, "idle") /\ Known(id)
    /\ session' = [session EXCEPT ![id] = Snapshot(id)]
    /\ Return(c, Taken(id, Snapshot(id)))
    /\ UNCHANGED <<lapsed, port, worker, handle, cancelled>>

AuthCancelForgetsOwner(c, id) ==
    /\ Open /\ At(c, "idle") /\ Known(id)
    /\ session' = [session EXCEPT ![id] = CancelSession(id)]
    /\ Return(c, {})
    /\ UNCHANGED <<lapsed, port, worker, handle, cancelled>>

AuthCancel(c, id) ==
    /\ Open /\ At(c, "idle") /\ Known(id)
    /\ session' = [session EXCEPT ![id] = CancelSession(id)]
    /\ Return(c, Taken(id, CancelSession(id)))
    /\ UNCHANGED <<lapsed, port, worker, handle, cancelled>>

\* data360_auth_complete reads a snapshot and goes on only with a received callback.
CompleteSnapshot(c, id) ==
    /\ Open /\ At(c, "idle") /\ Known(id)
    /\ session' = [session EXCEPT ![id] = Snapshot(id)]
    /\ IF Snapshot(id).status = "CALLBACK_RECEIVED"
       THEN Goto(c, "begin", id, {}) /\ UNCHANGED interrupted
       ELSE Return(c, Taken(id, Snapshot(id)))
    /\ UNCHANGED <<lapsed, port, worker, handle, cancelled>>

\* BeginCompletion moves the code and the verifier out to the one caller that wins.
BeginCompletion(c) ==
    /\ At(c, "begin")
    /\ LET id == conn[c].id IN
       /\ Present(id) /\ Fresh(id, TRUE).status = "CALLBACK_RECEIVED"
       /\ session' = [session EXCEPT ![id].status = "COMPLETING",
                                     ![id].material = @ \ {"code", "verifier"}]
    /\ Continue(c, "exchange", {})
    /\ UNCHANGED <<lapsed, port, worker, handle, cancelled>>

\* The loser observes the session as it is; the fault it threw is dropped.
BeginLost(c) ==
    /\ At(c, "begin")
    /\ LET id == conn[c].id
           s == IF Present(id) THEN Fresh(id, TRUE) ELSE session[id]
       IN  /\ s.status # "CALLBACK_RECEIVED"
           /\ session' = [session EXCEPT ![id] = s]
           /\ Continue(c, "resnap", Taken(id, s))
    /\ UNCHANGED <<lapsed, port, worker, handle, cancelled>>

\* Exchange, StoreCredential and InstallTemporarySessionSecret, which leave the
\* session alone, succeed together or throw; an interrupt makes the transport throw.
Exchange(c) ==
    /\ At(c, "exchange")
    /\ \E label \in {"finish", "catch"} : Continue(c, label, {})
    /\ UNCHANGED <<session, lapsed, port, worker, handle, cancelled>>

Finish(id, status, fault) == TerminalLocked(session[id], status, fault, TRUE)

Completing(id) == Present(id) /\ session[id].status = "COMPLETING"

FinishAuthorized(c) ==
    /\ At(c, "finish")
    /\ LET id == conn[c].id
           s == Finish(id, "AUTHORIZED", "none")
       IN  IF Completing(id)
           THEN /\ session' = [session EXCEPT ![id] = s]
                /\ Continue(c, "resnap", Taken(id, s))
           ELSE /\ Continue(c, "catch", {})
                /\ UNCHANGED session
    /\ UNCHANGED <<lapsed, port, worker, handle, cancelled>>

\* FinishFailed; the callers swallow its CALLBACK_PROTOCOL_ERROR.  Whatever fault the
\* exchange or the installation threw is TOKEN_EXCHANGE_FAILED here.
FinishFailed(c, label) ==
    LET id == conn[c].id
        s == IF Completing(id) THEN Finish(id, "FAILED", "TOKEN_EXCHANGE_FAILED")
             ELSE session[id]
    IN  /\ session' = [session EXCEPT ![id] = s]
        /\ Continue(c, label, Taken(id, s))

\* The first look at the interrupt flag.
CompleteCatch(c) ==
    /\ At(c, "catch")
    /\ IF c \in interrupted THEN FinishFailed(c, "record")
       ELSE Continue(c, "record", {}) /\ UNCHANGED session
    /\ UNCHANGED <<lapsed, port, worker, handle, cancelled>>

CompleteRecordSilent(c) ==
    /\ At(c, "record")
    /\ Continue(c, "resnap", {}) /\ UNCHANGED session
    /\ UNCHANGED <<lapsed, port, worker, handle, cancelled>>

\* RecordAuthCompletionFailure, the second look: an interrupt ends the statement.
CompleteRecord(c) ==
    /\ At(c, "record")
    /\ IF c \in interrupted THEN Return(c, {}) /\ UNCHANGED session
       ELSE FinishFailed(c, "resnap")
    /\ UNCHANGED <<lapsed, port, worker, handle, cancelled>>

\* The closing Snapshot; an evicted session is AUTH_SESSION_NOT_FOUND.
CompleteResnap(c) ==
    /\ At(c, "resnap")
    /\ LET id == conn[c].id
           s == IF Present(id) THEN Snapshot(id) ELSE session[id]
       IN  /\ session' = [session EXCEPT ![id] = s]
           /\ Return(c, Taken(id, s))
    /\ UNCHANGED <<lapsed, port, worker, handle, cancelled>>

-----------------------------------------------------------------------------
(* The callback worker: ProcessAuthCallback, then WorkerExit.  "good" and     *)
(* "bad" tell whether the callback carries the expected state.                *)

Arrived == {"code_good", "code_bad", "denied_good", "denied_bad"}
Failing == {"fail", "timedout"}
WorkerPc == {"none", "spawned", "wait", "selfstop", "exit", "done"} \cup Arrived \cup Failing

WorkerGoto(id, pc) == worker' = [worker EXCEPT ![id] = pc]

\* WaitForCallback begins.  After a Cancel it finds the listener consumed and throws
\* CallbackProtocolError, or, with Cancel half done, throws CallbackCancelled.
WorkerBegin(id) ==
    /\ worker[id] = "spawned"
    /\ \E pc \in IF id \in cancelled THEN {"fail", "exit"} ELSE {"wait"} : WorkerGoto(id, pc)
    /\ port' = IF id \in cancelled THEN PortWithout(id) ELSE port
    /\ UNCHANGED <<session, lapsed, handle, cancelled, conn, interrupted>>

\* The browser's request is answered and the listener closed, before the registry
\* sees the callback; a malformed request is a protocol error.
WorkerAccept(id) ==
    /\ worker[id] = "wait" /\ id \notin cancelled
    /\ \E pc \in Arrived \cup {"fail"} : WorkerGoto(id, pc)
    /\ port' = PortWithout(id)
    /\ UNCHANGED <<session, lapsed, handle, cancelled, conn, interrupted>>

WorkerTimeoutNever(id) ==
    /\ worker[id] = "wait" /\ id \notin cancelled /\ id \in lapsed
    /\ UNCHANGED vars

\* AcceptOne reaches its deadline.
WorkerTimeout(id) ==
    /\ worker[id] = "wait" /\ id \notin cancelled /\ id \in lapsed
    /\ WorkerGoto(id, "timedout")
    /\ port' = PortWithout(id)
    /\ UNCHANGED <<session, lapsed, handle, cancelled, conn, interrupted>>

WorkerCancelled(id) ==
    /\ worker[id] = "wait" /\ id \in cancelled
    /\ WorkerGoto(id, "exit")
    /\ port' = PortWithout(id)
    /\ UNCHANGED <<session, lapsed, handle, cancelled, conn, interrupted>>

\* ReceiveCallback and ReceiveDenied keep the owner for somebody else to reap.
Received(id, pc) ==
    LET s == Fresh(id, FALSE)
    IN  IF s.status # "PENDING_USER_ACTION" THEN s
        ELSE IF pc \in {"code_bad", "denied_bad"}
             THEN TerminalLocked(s, "FAILED", "STATE_MISMATCH", FALSE)
        ELSE IF pc = "denied_good"
             THEN TerminalLocked(s, "ACCESS_DENIED", "USER_DENIED", FALSE)
        ELSE [s EXCEPT !.status = "CALLBACK_RECEIVED",
                       !.material = (@ \ {"state"}) \cup {"code"}]

\* An id not found, a session not pending and a wrong state all throw.
Delivered(id, pc) ==
    /\ Present(id)
    /\ Fresh(id, FALSE).status = "PENDING_USER_ACTION"
    /\ pc \in {"code_good", "denied_good"}

WorkerDeliver(id) ==
    /\ worker[id] \in Arrived
    /\ session' = IF Present(id) THEN [session EXCEPT ![id] = Received(id, worker[id])]
                  ELSE session
    /\ WorkerGoto(id, IF Delivered(id, worker[id]) THEN "exit" ELSE "fail")
    /\ UNCHANGED <<lapsed, port, handle, cancelled, conn, interrupted>>

\* registry.Fail(auth_id, CALLBACK_PROTOCOL_ERROR), stale once completion owns it.
WorkerFail(id) ==
    /\ worker[id] \in Failing
    /\ LET s == IF Present(id) /\ session[id].status # "COMPLETING"
                THEN TerminalLocked(session[id], "FAILED", "CALLBACK_PROTOCOL_ERROR", TRUE)
                ELSE session[id]
       IN  /\ session' = [session EXCEPT ![id] = s]
           /\ WorkerGoto(id, IF Taken(id, s) = {} THEN "exit" ELSE "selfstop")
    /\ UNCHANGED <<lapsed, port, handle, cancelled, conn, interrupted>>

Detached(id) == IF handle[id] = "joinable" THEN [handle EXCEPT ![id] = "detached"] ELSE handle

\* Fail took the owner on the worker itself: StopAndJoin detaches the thread.
WorkerSelfStop(id) ==
    /\ worker[id] = "selfstop"
    /\ cancelled' = cancelled \cup {id}
    /\ port' = PortWithout(id)
    /\ handle' = Detached(id)
    /\ WorkerGoto(id, "exit")
    /\ UNCHANGED <<session, lapsed, conn, interrupted>>

WorkerExit(id) ==
    /\ worker[id] = "exit"
    /\ handle' = Detached(id)
    /\ WorkerGoto(id, "done")
    /\ UNCHANGED <<session, lapsed, port, cancelled, conn, interrupted>>

-----------------------------------------------------------------------------
(* The environment                                                           *)

\* The clock reaches the expiry of a login that is still under way.
Lapse(id) ==
    /\ id \notin lapsed
    /\ PromptStart => ~Starting(id)
    /\ \/ IsActive(session[id].status)
       \/ worker[id] = "wait"
       \/ \E c \in Conns : conn[c].id = id /\ conn[c].pc = "create" /\ ~PromptStart
    /\ lapsed' = lapsed \cup {id}
    /\ UNCHANGED <<session, port, worker, handle, cancelled, conn, interrupted>>

\* The user interrupts a statement that is completing a login.
Interrupt(c) ==
    /\ c \in Interruptible \ interrupted
    /\ conn[c].pc \in {"exchange", "finish", "catch", "record"}
    /\ interrupted' = interrupted \cup {c}
    /\ UNCHANGED <<session, lapsed, port, worker, handle, cancelled, conn>>

DestroyForgetsOwners(c) ==
    /\ \A d \in Conns : At(d, "idle")
    /\ session' = Without(session, Stored(session))
    /\ Goto(c, "closed", None, {})
    /\ UNCHANGED <<lapsed, port, worker, handle, cancelled, interrupted>>

\* The last connection closes the database: ~AuthSessionRegistry empties the map and
\* reaps the owners it still holds.
Destroy(c) ==
    /\ \A d \in Conns : At(d, "idle")
    /\ session' = Without(session, Stored(session))
    /\ Goto(c, "closed", None, {i \in Ids : session[i].owner})
    /\ UNCHANGED <<lapsed, port, worker, handle, cancelled, interrupted>>

\* The database is closed and every thread has ended.
Terminated ==
    /\ \E c \in Conns : At(c, "closed")
    /\ \A id \in Ids : worker[id] \in {"none", "done"}
    /\ UNCHANGED vars

-----------------------------------------------------------------------------
Init ==
    /\ session = [id \in Ids |-> Gone("NONE")]
    /\ lapsed = {}
    /\ port = None
    /\ worker = [id \in Ids |-> "none"]
    /\ handle = [id \in Ids |-> "none"]
    /\ cancelled = {}
    /\ conn = [c \in Conns |-> [pc |-> "idle", id |-> None, stop |-> {},
                                cut |-> None, join |-> None]]
    /\ interrupted = {}

Reap(c) == (\E id \in Ids : StopCancel(c, id)) \/ StopTake(c) \/ StopJoin(c)

\* The calls a connection may choose to make.
Call(c) ==
    \E id \in Ids : StartBind(c, id) \/ AuthStatus(c, id) \/ AuthCancel(c, id)
                    \/ CompleteSnapshot(c, id)

\* The steps of a call that has begun.
Proceed(c) ==
    \/ Reap(c)
    \/ CreateLate(c) \/ CreateRefused(c) \/ CreateAccepted(c)
    \/ StartSpawn(c) \/ StartAssign(c) \/ StartFails(c) \/ StartDrop(c)
    \/ BeginCompletion(c) \/ BeginLost(c) \/ Exchange(c) \/ FinishAuthorized(c)
    \/ CompleteCatch(c) \/ CompleteRecord(c) \/ CompleteResnap(c)

\* The steps of a worker that do not wait for the browser.
Work(id) ==
    \/ WorkerBegin(id) \/ WorkerTimeout(id) \/ WorkerCancelled(id)
    \/ WorkerDeliver(id) \/ WorkerFail(id) \/ WorkerSelfStop(id) \/ WorkerExit(id)

Next ==
    \/ \E c \in Conns : Call(c) \/ Proceed(c) \/ Interrupt(c) \/ Destroy(c)
    \/ \E id \in Ids : Work(id) \/ WorkerAccept(id) \/ Lapse(id)
    \/ Terminated

Spec == Init /\ [][Next]_vars

\* Every thread that can run does, and the clock does not stop.
Fairness ==
    /\ \A c \in Conns : WF_vars(Proceed(c))
    /\ \A id \in Ids : WF_vars(Work(id)) /\ WF_vars(Lapse(id))

FairSpec == Spec /\ Fairness

-----------------------------------------------------------------------------
(* Properties                                                                *)

\* Every variable has its type (the Session struct, the thread owner, the calls).
TypeOK ==
    /\ session \in [Ids -> Session]
    /\ lapsed \subseteq Ids
    /\ port \in MaybeId
    /\ worker \in [Ids -> WorkerPc]
    /\ handle \in [Ids -> {"none", "joinable", "taken", "detached"}]
    /\ cancelled \subseteq Ids
    /\ conn \in [Conns -> Connection]
    /\ interrupted \subseteq Conns

\* The connections that won BeginCompletion and have not finished the session.
Owns(c) == conn[c].pc \in {"exchange", "finish", "catch"}

\* BeginCompletion hands a session to one caller, and until that caller finishes it
\* no status call, sweep, cancellation or late callback takes the session away: the
\* FinishAuthorized after the secret is committed always finds it COMPLETING.
CompletionExclusive ==
    /\ \A c \in Conns : Owns(c) =>
          conn[c].id \in Ids /\ session[conn[c].id].status = "COMPLETING"
    /\ \A c, d \in Conns : Owns(c) /\ Owns(d) /\ conn[c].id = conn[d].id => c = d

\* A session that is COMPLETING, which nothing else may end, has a caller in the
\* completion path that is going to commit or fail it.
CompletionHasOwner ==
    \A id \in Ids : session[id].status = "COMPLETING" =>
        \E c \in Conns : conn[c].id = id /\ (Owns(c) \/ conn[c].pc = "record")

\* The secrets a session of a given status has to hold, and no others.
MaterialOf(status) ==
    IF status = "PENDING_USER_ACTION" THEN {"state", "verifier"}
    ELSE IF status = "CALLBACK_RECEIVED" THEN {"verifier", "code"} ELSE {}

\* A session holds exactly the secrets its status calls for: the expected state until
\* the callback is accepted, the code until it is handed over, nothing once it is over.
MaterialByStatus == \A id \in Ids : session[id].material = MaterialOf(session[id].status)

\* At most MaxActive logins are under way and at most MaxSessions are kept, however
\* many connections start logins at once.
SessionBounds ==
    /\ Cardinality(ActiveIn(session)) <= MaxActive
    /\ Cardinality(Stored(session)) <= MaxSessions

\* "Cancellation, expiry, or completion closes the loopback listener": the port is
\* held for a login that is starting or active, or a thread is about to close it.
PortForLiveLogin ==
    port # None =>
        \/ IsActive(session[port].status)
        \/ \E c \in Conns : conn[c].id = port /\ conn[c].pc \in {"create", "drop", "spawn"}
        \/ \E c \in Conns : port \in conn[c].stop

\* A login that waits for the user can still be answered: its listener is on the port
\* and nobody has told it to stop, or what its worker got is on the way to the registry.
\* No status call, sweep, failed start or reaper of another login makes it deaf.
PendingCanBeAnswered ==
    \A id \in Ids : session[id].status = "PENDING_USER_ACTION" =>
        \/ port = id /\ id \notin cancelled /\ worker[id] \in {"none", "spawned", "wait"}
        \/ worker[id] \in Arrived \cup Failing

\* An owner is released once: the session holds it or one thread reaps it, so no
\* callback thread is joined twice.
SingleReaper ==
    \A id \in Ids :
        LET reapers == {c \in Conns : id \in conn[c].stop \/ id \in {conn[c].cut, conn[c].join}}
        IN  /\ \A c, d \in reapers : c = d
            /\ session[id].owner => reapers = {}

\* The first outcome stands: a finished session keeps its status and its fault, late
\* callbacks, faults and cancellations notwithstanding, until it leaves the map.
OutcomeStands ==
    [][\A id \in Ids : Terminal(session[id].status) =>
          \/ session'[id].status = session[id].status /\ session'[id].fault = session[id].fault
          \/ session'[id].status = "EVICTED"]_vars

\* The steps in which a worker still has the registry to call.
UsesRegistry(id) == worker[id] \in {"spawned", "wait"} \cup Arrived \cup Failing

\* "A SQL caller or database teardown reaps it": when the destructor is through with
\* the owners it holds, no callback worker has a call on the registry left to make.
TeardownReaps ==
    (\E c \in Conns : At(c, "closed")) => \A id \in Ids : ~UsesRegistry(id)

\* No call blocks for ever, whatever it stops, joins or exchanges.
CallsReturn == \A c \in Conns : (~At(c, "idle")) ~> (At(c, "idle") \/ At(c, "closed"))

\* Every callback worker ends, with the browser's answer or without.
WorkersEnd == \A id \in Ids : (worker[id] = "spawned") ~> (worker[id] = "done")

\* A login that has begun ends, or waits as CALLBACK_RECEIVED for somebody to ask.
LoginsEnd ==
    \A id \in Ids : (session[id].status \in {"PENDING_USER_ACTION", "COMPLETING"})
                    ~> (session[id].status \notin {"PENDING_USER_ACTION", "COMPLETING"})

-----------------------------------------------------------------------------
(* The registry implements the life of a login.                              *)

Life == INSTANCE AuthLifecycle
        WITH status <- [id \in Ids |-> session[id].status], late <- lapsed

\* Every session follows the diagram of AuthLifecycle.
LifecycleSpec == Life!LifeSpec
=============================================================================
