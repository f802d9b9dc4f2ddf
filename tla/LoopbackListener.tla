-------------------------- MODULE LoopbackListener --------------------------
(***************************************************************************)
(* The one-shot listener on 127.0.0.1:8910 (FixedLoopbackListener over     *)
(* NativeLoopbackAcceptor) and the three threads that share it through     *)
(* CallbackThreadOwner: the starter, which binds it in data360_auth_start; *)
(* the worker, which waits for the browser; and the reaper, whichever      *)
(* thread takes the owner out of the login's session.  The last of them to *)
(* drop its reference runs the destructors.                                *)
(*                                                                         *)
(* The worker holds socket_mutex while it selects, so a select and what    *)
(* follows it is an action of its own, and Close has to wait for it.  The  *)
(* request is reduced to how ParseOAuthCallbackRequest judges it.          *)
(***************************************************************************)
EXTENDS FiniteSets

CONSTANTS
    Judgements,   \* how a complete request is judged: "code", "denied" or "malformed"
    Nobody        \* no holder of socket_mutex

Threads == {"starter", "worker", "reaper"}

ASSUME JudgementsAssumption == Judgements \subseteq {"code", "denied", "malformed"}
ASSUME NobodyAssumption == Nobody \notin Threads

VARIABLES
    listener, client,   \* the sockets: "none", "open" or "closed"
    closeRequested,     \* NativeLoopbackAcceptor::close_requested
    consumed, waiting,  \* FixedLoopbackListener's flags
    cancelled,          \* CallbackThreadOwner::cancelled
    sock,               \* who holds socket_mutex across a select
    due,                \* the deadline of the AcceptOne or Respond in progress is over
    browser,            \* "away", or "connected" with a request to send, or "silent"
    request,            \* the request received
    sent,               \* part of a response has been sent
    result,             \* what WaitForCallback returns or throws
    refs,               \* the threads that hold a reference to the owner
    destroyed,          \* the owner, its listener and its acceptor are destroyed
    pc, after           \* where every thread is, and where it goes on after a Close

sockets == <<listener, client, closeRequested, sock>>
flags == <<consumed, waiting, cancelled>>
wire == <<browser, request, sent>>
life == <<refs, destroyed>>
vars == <<sockets, flags, wire, due, result, life, pc, after>>

Goto(t, label) == pc' = [pc EXCEPT ![t] = label]

\* Close (or Cancel, which ends in it) and then go on at `next'.
Enter(t, label, next) == Goto(t, label) /\ after' = [after EXCEPT ![t] = next]

LeaveOpen(outcome) == result' = outcome /\ Goto("worker", "unwait") /\ UNCHANGED after

\* AcceptOne or the parser throws, or the response is over: WaitForCallback closes.
Leave(outcome) == result' = outcome /\ Enter("worker", "flag", "unwait")

-----------------------------------------------------------------------------
(* Cancel and Close, run by any thread                                       *)

\* CallbackThreadOwner::Cancel
CancelOwner(t) ==
    /\ pc[t] = "cancel"
    /\ cancelled' = TRUE
    /\ Goto(t, "consume")
    /\ UNCHANGED <<sockets, consumed, waiting, wire, due, result, life, after>>

\* FixedLoopbackListener::Cancel
CancelListener(t) ==
    /\ pc[t] = "consume"
    /\ consumed' = TRUE
    /\ Goto(t, "flag")
    /\ UNCHANGED <<sockets, waiting, cancelled, wire, due, result, life, after>>

\* NativeLoopbackAcceptor::Close asks first, and closes once it has the mutex.
CloseFlag(t) ==
    /\ pc[t] = "flag"
    /\ closeRequested' = TRUE
    /\ Goto(t, "sockets")
    /\ UNCHANGED <<listener, client, sock, flags, wire, due, result, life, after>>

CloseSocketLeavesHandle(handle) == IF handle = "open" THEN "dangling" ELSE handle

CloseSocket(handle) == IF handle = "open" THEN "closed" ELSE handle

CloseSocketsUnlocked(t) ==
    /\ pc[t] = "sockets"
    /\ listener' = CloseSocket(listener) /\ client' = CloseSocket(client)
    /\ Goto(t, after[t])
    /\ UNCHANGED <<closeRequested, sock, flags, wire, due, result, life, after>>

CloseSockets(t) ==
    /\ pc[t] = "sockets" /\ sock = Nobody
    /\ listener' = CloseSocket(listener) /\ client' = CloseSocket(client)
    /\ Goto(t, after[t])
    /\ UNCHANGED <<closeRequested, sock, flags, wire, due, result, life, after>>

-----------------------------------------------------------------------------
(* WaitForCallback and AcceptOne, run by the worker                          *)

\* A listener already consumed is refused without being closed.
WaitBegin ==
    /\ pc["worker"] = "begin"
    /\ IF consumed
       THEN result' = "error" /\ Goto("worker", "done") /\ UNCHANGED <<consumed, waiting>>
       ELSE consumed' = TRUE /\ waiting' = TRUE /\ Goto("worker", "accept") /\ UNCHANGED result
    /\ UNCHANGED <<sockets, cancelled, wire, due, life, after>>

\* The look at the sockets before the loop.
AcceptEnter ==
    /\ pc["worker"] = "accept" /\ sock = Nobody
    /\ IF closeRequested THEN Leave("cancelled")
       ELSE IF listener # "open" THEN Leave("error")
       ELSE Goto("worker", "poll") /\ UNCHANGED <<result, after>>
    /\ UNCHANGED <<sockets, flags, wire, due, life>>

TurnCheckEndless(from, to) ==
    /\ pc["worker"] = from
    /\ IF closeRequested \/ cancelled THEN Leave("cancelled")
       ELSE Goto("worker", to) /\ UNCHANGED <<result, after>>
    /\ UNCHANGED <<sockets, flags, wire, due, life>>

\* Every turn of either loop looks at the cancellation and at the clock ...
TurnCheck(from, to) ==
    /\ pc["worker"] = from
    /\ IF closeRequested \/ cancelled THEN Leave("cancelled")
       ELSE IF due THEN Leave("error")
       ELSE Goto("worker", to) /\ UNCHANGED <<result, after>>
    /\ UNCHANGED <<sockets, flags, wire, due, life>>

AcceptCheck == TurnCheck("poll", "lock")
ReceiveCheck == TurnCheck("read", "readlock")

\* ... and selects on a socket that is still open, holding the mutex.
TurnLock(from, to, handle) ==
    /\ pc["worker"] = from /\ sock = Nobody
    /\ IF handle # "open" THEN Leave("cancelled") /\ UNCHANGED sock
       ELSE sock' = "worker" /\ Goto("worker", to) /\ UNCHANGED <<result, after>>
    /\ UNCHANGED <<listener, client, closeRequested, flags, wire, due, life>>

AcceptLock == TurnLock("lock", "select", listener)
ReceiveLock == TurnLock("readlock", "recv", client)

\* select and accept: a connection is taken, nothing came in this slice, or a failure.
AcceptSelect ==
    /\ pc["worker"] = "select" /\ sock' = Nobody
    /\ \/ /\ browser # "away" /\ client' = "open"
          /\ Goto("worker", "read") /\ UNCHANGED <<result, after>>
       \/ /\ UNCHANGED client
          /\ IF closeRequested THEN Leave("cancelled")
             ELSE Goto("worker", "poll") /\ UNCHANGED <<result, after>>
       \/ Leave("error") /\ UNCHANGED client
    /\ UNCHANGED <<listener, closeRequested, flags, wire, due, life>>

\* select and recv: the end of the request, less than that, or the end of the stream,
\* a failure or too many bytes.
ReceiveSelect ==
    /\ pc["worker"] = "recv" /\ sock' = Nobody
    /\ \/ /\ browser = "connected" /\ request' \in Judgements
          /\ Goto("worker", "parse") /\ UNCHANGED <<result, after>>
       \/ /\ UNCHANGED request
          /\ IF closeRequested THEN Leave("cancelled")
             ELSE Goto("worker", "read") /\ UNCHANGED <<result, after>>
       \/ Leave("error") /\ UNCHANGED request
    /\ UNCHANGED <<listener, client, closeRequested, flags, browser, sent, due, life>>

\* ParseOAuthCallbackRequest; Respond then has a deadline of its own.
Parse ==
    /\ pc["worker"] = "parse"
    /\ IF request = "malformed" THEN Leave("error") /\ UNCHANGED due
       ELSE result' = request /\ Goto("worker", "respond") /\ due' = FALSE /\ UNCHANGED after
    /\ UNCHANGED <<sockets, flags, wire, life>>

RespondLockThrows ==
    /\ pc["worker"] = "respond"
    /\ IF closeRequested THEN Leave("cancelled") /\ UNCHANGED sock
       ELSE IF due THEN Leave("error") /\ UNCHANGED sock
       ELSE /\ sock = Nobody /\ UNCHANGED result
            /\ IF client = "open" THEN sock' = "worker" /\ Goto("worker", "send") /\ UNCHANGED after
               ELSE Enter("worker", "flag", "unwait") /\ UNCHANGED sock
    /\ UNCHANGED <<listener, client, closeRequested, flags, wire, due, life>>

\* Respond gives up when it is asked to close, when it is late or has lost its client.
RespondLock ==
    /\ pc["worker"] = "respond"
    /\ IF closeRequested \/ due
       THEN Enter("worker", "flag", "unwait") /\ UNCHANGED sock
       ELSE /\ sock = Nobody
            /\ IF client = "open" THEN sock' = "worker" /\ Goto("worker", "send") /\ UNCHANGED after
               ELSE Enter("worker", "flag", "unwait") /\ UNCHANGED sock
    /\ UNCHANGED <<listener, client, closeRequested, flags, wire, due, result, life>>

\* select and send: all that was left, a part of it, nothing, or a failure.
RespondSend ==
    /\ pc["worker"] = "send" /\ sock' = Nobody
    /\ \/ sent' = TRUE /\ Enter("worker", "flag", "unwait")
       \/ sent' \in {sent, TRUE} /\ Goto("worker", "respond") /\ UNCHANGED after
       \/ UNCHANGED sent /\ Enter("worker", "flag", "unwait")
    /\ UNCHANGED <<listener, client, closeRequested, flags, browser, request, due, result, life>>

WaitEndForgets ==
    /\ pc["worker"] = "unwait"
    /\ waiting' = (result \notin {"code", "denied"})
    /\ Goto("worker", "done")
    /\ UNCHANGED <<sockets, consumed, cancelled, wire, due, result, life, after>>

\* Returning and throwing both clear `waiting'.
WaitEnd ==
    /\ pc["worker"] = "unwait"
    /\ waiting' = FALSE
    /\ Goto("worker", "done")
    /\ UNCHANGED <<sockets, consumed, cancelled, wire, due, result, life, after>>

\* idle.notify_all() and the registry's part; a registry.Fail that finds the owner still
\* in its session calls StopAndJoin on the worker.
WorkerReturn ==
    /\ pc["worker"] = "done"
    /\ \/ Goto("worker", "release") /\ UNCHANGED <<refs, after>>
       \/ /\ result = "error" /\ pc["reaper"] = "held"
          /\ pc' = [pc EXCEPT !["worker"] = "cancel", !["reaper"] = "gone"]
          /\ after' = [after EXCEPT !["worker"] = "release"]
          /\ refs' = refs \ {"reaper"}
    /\ UNCHANGED <<sockets, flags, wire, due, result, destroyed>>

-----------------------------------------------------------------------------
(* References                                                                *)

\* FixedLoopbackListener's constructor binds, or throws.
Bind ==
    /\ pc["starter"] = "bind"
    /\ \/ listener' = "open" /\ refs' = {"starter"} /\ Goto("starter", "bound")
       \/ UNCHANGED <<listener, refs>> /\ Goto("starter", "gone")
    /\ UNCHANGED <<client, closeRequested, sock, flags, wire, due, result, destroyed, after>>

\* registry.Create shares the owner with the session ...
Create ==
    /\ pc["starter"] = "bound"
    /\ pc' = [pc EXCEPT !["starter"] = "stored", !["reaper"] = "held"]
    /\ refs' = refs \cup {"reaper"}
    /\ UNCHANGED <<sockets, flags, wire, due, result, destroyed, after>>

StartBorrows ==
    /\ pc["starter"] = "stored"
    /\ pc' = [pc EXCEPT !["starter"] = "release", !["worker"] = "begin"]
    /\ UNCHANGED <<sockets, flags, wire, due, result, life, after>>

\* ... and Start with the worker, through shared_from_this.
Start ==
    /\ pc["starter"] = "stored"
    /\ pc' = [pc EXCEPT !["starter"] = "release", !["worker"] = "begin"]
    /\ refs' = refs \cup {"worker"}
    /\ UNCHANGED <<sockets, flags, wire, due, result, destroyed, after>>

\* Create refuses the login, or the thread cannot be started.
StartFails ==
    /\ pc["starter"] \in {"bound", "stored"}
    /\ Goto("starter", "release")
    /\ UNCHANGED <<sockets, flags, wire, due, result, life, after>>

\* The owner leaves its session: to be stopped and joined, or simply evicted with it.
Reap ==
    /\ pc["reaper"] = "held"
    /\ Enter("reaper", "cancel", "join")
    /\ UNCHANGED <<sockets, flags, wire, due, result, life>>

Evict ==
    /\ pc["reaper"] = "held"
    /\ Goto("reaper", "release")
    /\ UNCHANGED <<sockets, flags, wire, due, result, life, after>>

\* join returns when the worker has run to its end; a worker that never started, has
\* detached itself or is not yet assigned to the owner is not joined.
Join ==
    /\ pc["reaper"] = "join"
    /\ pc["worker"] \in {"none", "gone", "release"} \/ pc["starter"] = "release"
    /\ Goto("reaper", "release")
    /\ UNCHANGED <<sockets, flags, wire, due, result, life, after>>

\* The last reference takes the owner with it: ~CallbackThreadOwner cancels once more.
Release(t) ==
    /\ pc[t] = "release"
    /\ refs' = refs \ {t}
    /\ IF refs \subseteq {t} THEN Enter(t, "cancel", "idle") ELSE Goto(t, "gone") /\ UNCHANGED after
    /\ UNCHANGED <<sockets, flags, wire, due, result, destroyed>>

\* ~FixedLoopbackListener waits until nobody is waiting for a callback.
Destroy(t) ==
    /\ pc[t] = "idle" /\ ~waiting
    /\ destroyed' = TRUE
    /\ Goto(t, "gone")
    /\ UNCHANGED <<sockets, flags, wire, due, result, refs, after>>

-----------------------------------------------------------------------------
(* The environment                                                           *)

\* A browser connects; one that is silent never finishes its request.
Connect ==
    /\ listener = "open" /\ browser = "away"
    /\ browser' \in {"connected", "silent"}
    /\ UNCHANGED <<sockets, flags, request, sent, due, result, life, pc, after>>

Deadline ==
    /\ waiting /\ ~due
    /\ due' = TRUE
    /\ UNCHANGED <<sockets, flags, wire, result, life, pc, after>>

Over ==
    /\ \A t \in Threads : pc[t] \in {"none", "gone"}
    /\ UNCHANGED vars

-----------------------------------------------------------------------------
Init ==
    /\ listener = "none" /\ client = "none" /\ closeRequested = FALSE /\ sock = Nobody
    /\ consumed = FALSE /\ waiting = FALSE /\ cancelled = FALSE
    /\ browser = "away" /\ request = "none" /\ sent = FALSE
    /\ due = FALSE /\ result = "none" /\ refs = {} /\ destroyed = FALSE
    /\ pc = [t \in Threads |-> IF t = "starter" THEN "bind" ELSE "none"]
    /\ after = [t \in Threads |-> "none"]

Wait ==
    \/ WaitBegin \/ AcceptEnter \/ AcceptCheck \/ AcceptLock \/ AcceptSelect
    \/ ReceiveCheck \/ ReceiveLock \/ ReceiveSelect \/ Parse
    \/ RespondLock \/ RespondSend \/ WaitEnd \/ WorkerReturn

Stop(t) ==
    \/ CancelOwner(t) \/ CancelListener(t) \/ CloseFlag(t) \/ CloseSockets(t)
    \/ Release(t) \/ Destroy(t)

Next ==
    \/ Wait \/ \E t \in Threads : Stop(t)
    \/ Bind \/ Create \/ Start \/ StartFails \/ Reap \/ Evict \/ Join
    \/ Connect \/ Deadline \/ Over

Spec == Init /\ [][Next]_vars

\* Threads run, and deadlines come; a mutex that is free now and then is not enough for
\* a waiting Close to get it (weak fairness), and no browser needs to come.
Fairness ==
    /\ WF_vars(Wait) /\ WF_vars(Join) /\ WF_vars(Deadline)
    /\ \A t \in Threads : WF_vars(Stop(t))

FairSpec == Spec /\ Fairness

-----------------------------------------------------------------------------
(* Properties                                                                *)

Handle == {"none", "open", "closed"}
Label == {"none", "bind", "bound", "stored", "held", "join", "begin", "accept", "poll",
          "lock", "select", "read", "readlock", "recv", "parse", "respond", "send",
          "unwait", "done", "cancel", "consume", "flag", "sockets", "idle", "release", "gone"}

\* Every variable has its type (the members of the acceptor, the listener and the owner).
TypeOK ==
    /\ listener \in Handle /\ client \in Handle /\ closeRequested \in BOOLEAN
    /\ sock \in Threads \cup {Nobody}
    /\ consumed \in BOOLEAN /\ waiting \in BOOLEAN /\ cancelled \in BOOLEAN
    /\ due \in BOOLEAN /\ sent \in BOOLEAN /\ destroyed \in BOOLEAN
    /\ browser \in {"away", "connected", "silent"}
    /\ request \in Judgements \cup {"none"}
    /\ result \in {"none", "code", "denied", "cancelled", "error"}
    /\ refs \subseteq Threads
    /\ pc \in [Threads -> Label] /\ after \in [Threads -> Label]

\* A select, recv, accept or send never runs on a socket that Close has closed, whose
\* descriptor the process may already use for something else.
SyscallsOnOpenSockets ==
    /\ pc["worker"] = "select" => sock = "worker" /\ listener = "open"
    /\ pc["worker"] \in {"recv", "send"} => sock = "worker" /\ client = "open"

\* A complete and well-formed callback is what WaitForCallback returns, whatever cancels,
\* closes, fails or comes too late while it is being answered; and nothing else is answered:
\* there is no page for a request that was malformed, cut short or late.  The registry gets
\* the callback only afterwards, and may still refuse a login that was shown its page.
CallbackReturned ==
    /\ sent => request \in {"code", "denied"}
    /\ request \in {"code", "denied"} => result = request \/ pc["worker"] = "parse"

\* When WaitForCallback is over the port is free, or a thread is about to free it.
PortFreed ==
    pc["worker"] \in {"done", "release", "gone"} =>
        \/ listener = "closed" /\ client # "open"
        \/ \E t \in Threads : pc[t] \in {"flag", "sockets"}

\* Nothing touches the owner, the listener or the acceptor once they are destroyed.
DestroyedUnused ==
    destroyed => \A t \in Threads : pc[t] \in {"none", "gone"}

\* WaitForCallback ends, even when a browser connects and never says anything.
WaitEnds == waiting ~> ~waiting

\* Whoever stops or destroys the owner gets done: neither the mutex the worker holds
\* while it selects nor the wait for it in the destructor blocks for ever.
StopsEnd == \A t \in Threads : (pc[t] \in {"cancel", "idle"}) ~> (pc[t] = "gone")
=============================================================================
