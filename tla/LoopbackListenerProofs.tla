----------------------- MODULE LoopbackListenerProofs -----------------------
(***************************************************************************)
(* Proofs about LoopbackListener: every order of the starter, the worker,  *)
(* the reaper, the browser and the deadlines.                              *)
(***************************************************************************)
EXTENDS LoopbackListener, TLAPS

-----------------------------------------------------------------------------
(* The inductive invariant                                                   *)

\* The labels of Cancel and Close, which any thread may run, and those of WaitForCallback.
Closing == {"cancel", "consume", "flag", "sockets"}
Selecting == {"select", "recv", "send"}
Reading == {"accept", "poll", "lock", "select", "read", "readlock", "recv", "parse"}
Answering == {"respond", "send"}
Past == {"unwait", "done", "release", "gone", "cancel", "consume", "idle"}

\* Where every thread can be, and where it goes on when it has closed.
Places ==
    /\ pc["starter"] \in Closing \cup {"bind", "bound", "stored", "release", "idle", "gone"}
    /\ pc["worker"] \in
          Closing \cup Reading \cup Answering \cup Past \cup {"none", "begin"}
    /\ pc["reaper"] \in Closing \cup {"none", "held", "join", "release", "idle", "gone"}
    /\ pc["starter"] \in Closing => after["starter"] = "idle"
    /\ pc["worker"] \in Closing => after["worker"] \in {"unwait", "release", "idle"}
    /\ pc["reaper"] \in Closing => after["reaper"] \in {"join", "idle"}

\* Nothing is shared before the listener is bound, and no worker runs before Start.
Births ==
    /\ pc["starter"] \in {"bind", "bound"} => pc["worker"] = "none" /\ pc["reaper"] = "none"
    /\ pc["starter"] = "stored" => pc["worker"] = "none"
    /\ pc["starter"] = "bind" => refs = {} /\ ~consumed
    /\ listener = "none" =>
          pc["starter"] \in {"bind", "gone"} /\ pc["worker"] = "none" /\ pc["reaper"] = "none"

\* The mutex is held exactly during a select and what follows it.
Held ==
    /\ sock \in {"worker", Nobody}
    /\ sock = "worker" <=> pc["worker"] \in Selecting

\* There is a request once it has been read to its end, and never a second one; only one
\* that was judged well-formed is answered.
Answered ==
    /\ pc["worker"] \in Reading \cup {"none", "begin"} => ~sent
    /\ pc["worker"] \in (Reading \ {"parse"}) \cup {"none", "begin"} => request = "none"
    /\ pc["worker"] = "parse" => request \in Judgements
    /\ pc["worker"] \in Answering => request \in {"code", "denied"} /\ result = request

Freed == listener = "closed" /\ client # "open"
BeingFreed == \E t \in Threads : pc[t] \in {"flag", "sockets"}

\* The port is free once the worker is past its wait, or once the listener is consumed
\* before the worker comes to it.
FreedAfterwards ==
    /\ pc["worker"] \in Past => Freed \/ BeingFreed
    /\ consumed /\ pc["worker"] \in {"none", "begin"} => Freed \/ BeingFreed

\* A thread that is destroying the owner, and one that uses it.
Destroying(t) == pc[t] = "idle" \/ (pc[t] \in Closing /\ after[t] = "idle")
Uses(t) == pc[t] \notin {"none", "bind", "gone"}

\* Whoever uses the owner has a reference, or is the only one left and destroys it.
Referenced ==
    /\ \A t \in Threads : t \in refs <=> Uses(t) /\ ~Destroying(t)
    /\ \A t, u \in Threads : Destroying(t) /\ u # t => ~Uses(u)

ListenerInv ==
    /\ TypeOK /\ Places /\ Births /\ Held /\ Answered /\ FreedAfterwards /\ Referenced
    /\ SyscallsOnOpenSockets /\ CallbackReturned /\ DestroyedUnused

-----------------------------------------------------------------------------
(* The steps                                                                 *)

\* Whatever Respond sends, it tries again or closes.
LEMMA SendMoves ==
    ASSUME TypeOK, RespondSend
    PROVE  /\ pc["worker"] = "send" /\ sock' = Nobody /\ sent' \in BOOLEAN
           /\ \/ Enter("worker", "flag", "unwait")
              \/ Goto("worker", "respond") /\ after' = after
           /\ UNCHANGED <<listener, client, closeRequested, consumed, waiting, cancelled,
                          browser, request, due, result, refs, destroyed>>
<1>1. sent \in BOOLEAN
  BY DEF TypeOK
<1>2. UNCHANGED <<listener, client, closeRequested, consumed, waiting, cancelled,
                  browser, request, due, result, refs, destroyed>>
  BY Zenon DEF RespondSend, flags, life
<1> QED
  BY <1>1, <1>2, Zenon DEF RespondSend

\* Every thread stays on its labels.
LEMMA LabelsStep == ListenerInv /\ [Next]_vars => pc' \in [Threads -> Label] /\ after' \in [Threads -> Label]
<1>0. SUFFICES ASSUME ListenerInv, [Next]_vars PROVE pc' \in [Threads -> Label] /\ after' \in [Threads -> Label]
  OBVIOUS
<1> ListenerInv
  BY <1>0
<1> USE JudgementsAssumption, NobodyAssumption DEF ListenerInv, TypeOK, Places, Closing,
        Reading, Answering, Past, Label, Threads, Goto, sockets, flags, wire, life
<1>1. CASE WaitBegin
  BY <1>1 DEF WaitBegin
<1>2. CASE AcceptEnter
  BY <1>2 DEF AcceptEnter, Leave, Enter
<1>3. CASE AcceptCheck
  BY <1>3 DEF AcceptCheck, TurnCheck, Leave, Enter
<1>4. CASE AcceptLock
  BY <1>4 DEF AcceptLock, TurnLock, Leave, Enter
<1>5. CASE AcceptSelect
  BY <1>5 DEF AcceptSelect, Leave, Enter
<1>6. CASE ReceiveCheck
  BY <1>6 DEF ReceiveCheck, TurnCheck, Leave, Enter
<1>7. CASE ReceiveLock
  BY <1>7 DEF ReceiveLock, TurnLock, Leave, Enter
<1>8. CASE ReceiveSelect
  BY <1>8 DEF ReceiveSelect, Leave, Enter
<1>9. CASE Parse
  BY <1>9 DEF Parse, Leave, Enter
<1>10. CASE RespondLock
  BY <1>10 DEF RespondLock, Enter
<1>11. CASE RespondSend
  BY <1>11, SendMoves DEF Enter
<1>12. CASE WaitEnd
  BY <1>12 DEF WaitEnd
<1>13. CASE WorkerReturn
  BY <1>13 DEF WorkerReturn
<1>14. ASSUME NEW t \in Threads, CancelOwner(t) PROVE pc' \in [Threads -> Label] /\ after' \in [Threads -> Label]
  BY <1>14 DEF CancelOwner
<1>15. ASSUME NEW t \in Threads, CancelListener(t) PROVE pc' \in [Threads -> Label] /\ after' \in [Threads -> Label]
  BY <1>15 DEF CancelListener
<1>16. ASSUME NEW t \in Threads, CloseFlag(t) PROVE pc' \in [Threads -> Label] /\ after' \in [Threads -> Label]
  BY <1>16 DEF CloseFlag
<1>17. ASSUME NEW t \in Threads, CloseSockets(t) PROVE pc' \in [Threads -> Label] /\ after' \in [Threads -> Label]
  BY <1>17 DEF CloseSockets, CloseSocket
<1>18. ASSUME NEW t \in Threads, Release(t) PROVE pc' \in [Threads -> Label] /\ after' \in [Threads -> Label]
  BY <1>18 DEF Release, Enter
<1>19. ASSUME NEW t \in Threads, Destroy(t) PROVE pc' \in [Threads -> Label] /\ after' \in [Threads -> Label]
  BY <1>19 DEF Destroy
<1>20. CASE Bind
  BY <1>20 DEF Bind
<1>21. CASE Create
  BY <1>21 DEF Create
<1>22. CASE Start
  BY <1>22 DEF Start
<1>23. CASE StartFails
  BY <1>23 DEF StartFails
<1>24. CASE Reap
  BY <1>24 DEF Reap, Enter
<1>25. CASE Evict
  BY <1>25 DEF Evict
<1>26. CASE Join
  BY <1>26 DEF Join
<1>27. CASE Connect
  BY <1>27 DEF Connect
<1>28. CASE Deadline
  BY <1>28 DEF Deadline
<1>29. CASE UNCHANGED vars
  BY <1>29 DEF vars
<1> HIDE DEF ListenerInv, TypeOK, Places, Closing, Reading, Answering, Past, Label
<1> QED
  BY <1>0, <1>1, <1>2, <1>3, <1>4, <1>5, <1>6, <1>7, <1>8, <1>9, <1>10, <1>11, <1>12, <1>13,
     <1>14, <1>15, <1>16, <1>17, <1>18, <1>19, <1>20, <1>21, <1>22, <1>23, <1>24, <1>25,
     <1>26, <1>27, <1>28, <1>29 DEF Next, Wait, Stop, Over

\* Every step keeps the types of the members.
LEMMA TypeStep == ListenerInv /\ [Next]_vars => TypeOK'
<1>0. SUFFICES ASSUME ListenerInv, [Next]_vars PROVE TypeOK'
  OBVIOUS
<1> TypeOK /\ pc' \in [Threads -> Label] /\ after' \in [Threads -> Label]
  BY <1>0, LabelsStep DEF ListenerInv
<1> USE JudgementsAssumption DEF TypeOK, sockets, flags, wire, life
<1>1. CASE WaitBegin
  BY <1>1 DEF WaitBegin
<1>2. CASE AcceptEnter
  BY <1>2 DEF AcceptEnter, Leave, Enter
<1>3. CASE AcceptCheck
  BY <1>3 DEF AcceptCheck, TurnCheck, Leave, Enter
<1>4. CASE AcceptLock
  BY <1>4 DEF AcceptLock, TurnLock, Leave, Enter, Threads
<1>5. CASE AcceptSelect
  BY <1>5 DEF AcceptSelect, Leave, Enter, Handle
<1>6. CASE ReceiveCheck
  BY <1>6 DEF ReceiveCheck, TurnCheck, Leave, Enter
<1>7. CASE ReceiveLock
  BY <1>7 DEF ReceiveLock, TurnLock, Leave, Enter, Threads
<1>8. CASE ReceiveSelect
  BY <1>8 DEF ReceiveSelect, Leave, Enter
<1>9. CASE Parse
  BY <1>9 DEF Parse, Leave, Enter
<1>10. CASE RespondLock
  BY <1>10 DEF RespondLock, Enter, Threads
<1>11. CASE RespondSend
  BY <1>11, SendMoves DEF Enter
<1>12. CASE WaitEnd
  BY <1>12 DEF WaitEnd
<1>13. CASE WorkerReturn
  BY <1>13 DEF WorkerReturn
<1>14. ASSUME NEW t \in Threads, CancelOwner(t) PROVE TypeOK'
  BY <1>14 DEF CancelOwner
<1>15. ASSUME NEW t \in Threads, CancelListener(t) PROVE TypeOK'
  BY <1>15 DEF CancelListener
<1>16. ASSUME NEW t \in Threads, CloseFlag(t) PROVE TypeOK'
  BY <1>16 DEF CloseFlag
<1>17. ASSUME NEW t \in Threads, CloseSockets(t) PROVE TypeOK'
  BY <1>17 DEF CloseSockets, CloseSocket, Handle
<1>18. ASSUME NEW t \in Threads, Release(t) PROVE TypeOK'
  BY <1>18 DEF Release, Enter
<1>19. ASSUME NEW t \in Threads, Destroy(t) PROVE TypeOK'
  BY <1>19 DEF Destroy
<1>20. CASE Bind
  <2>1. refs' \subseteq Threads /\ listener' \in Handle
    BY <1>20 DEF Bind, Handle, Threads
  <2> QED
    BY <1>20, <2>1 DEF Bind
<1>21. CASE Create
  BY <1>21 DEF Create
<1>22. CASE Start
  BY <1>22 DEF Start
<1>23. CASE StartFails
  BY <1>23 DEF StartFails
<1>24. CASE Reap
  BY <1>24 DEF Reap, Enter
<1>25. CASE Evict
  BY <1>25 DEF Evict
<1>26. CASE Join
  BY <1>26 DEF Join
<1>27. CASE Connect
  BY <1>27 DEF Connect
<1>28. CASE Deadline
  BY <1>28 DEF Deadline
<1>29. CASE UNCHANGED vars
  BY <1>29 DEF vars
<1> HIDE DEF TypeOK
<1> QED
  BY <1>0, <1>1, <1>2, <1>3, <1>4, <1>5, <1>6, <1>7, <1>8, <1>9, <1>10, <1>11, <1>12, <1>13,
     <1>14, <1>15, <1>16, <1>17, <1>18, <1>19, <1>20, <1>21, <1>22, <1>23, <1>24, <1>25,
     <1>26, <1>27, <1>28, <1>29 DEF Next, Wait, Stop, Over

\* Every thread keeps to its own part of the code, and the worker alone holds the mutex
\* across a step.
LEMMA PlacesStep == ListenerInv /\ [Next]_vars => Places' /\ Births' /\ Held'
<1>0. SUFFICES ASSUME ListenerInv, [Next]_vars PROVE Places' /\ Births' /\ Held'
  OBVIOUS
<1> ListenerInv
  BY <1>0
<1> USE JudgementsAssumption, NobodyAssumption DEF ListenerInv, TypeOK, Places, Births,
        Held, Closing, Selecting, Reading, Answering, Past, Threads, Goto, sockets, flags,
        wire, life
<1>1. CASE WaitBegin
  BY <1>1 DEF WaitBegin
<1>2. CASE AcceptEnter
  BY <1>2 DEF AcceptEnter, Leave, Enter
<1>3. CASE AcceptCheck
  BY <1>3 DEF AcceptCheck, TurnCheck, Leave, Enter
<1>4. CASE AcceptLock
  BY <1>4 DEF AcceptLock, TurnLock, Leave, Enter
<1>5. CASE AcceptSelect
  BY <1>5 DEF AcceptSelect, Leave, Enter
<1>6. CASE ReceiveCheck
  BY <1>6 DEF ReceiveCheck, TurnCheck, Leave, Enter
<1>7. CASE ReceiveLock
  BY <1>7 DEF ReceiveLock, TurnLock, Leave, Enter
<1>8. CASE ReceiveSelect
  BY <1>8 DEF ReceiveSelect, Leave, Enter
<1>9. CASE Parse
  BY <1>9 DEF Parse, Leave, Enter
<1>10. CASE RespondLock
  BY <1>10 DEF RespondLock, Enter
<1>11. CASE RespondSend
  BY <1>11, SendMoves DEF Enter
<1>12. CASE WaitEnd
  BY <1>12 DEF WaitEnd
<1>13. CASE WorkerReturn
  BY <1>13 DEF WorkerReturn
<1>14. ASSUME NEW t \in Threads, CancelOwner(t) PROVE Places' /\ Births' /\ Held'
  BY <1>14 DEF CancelOwner
<1>15. ASSUME NEW t \in Threads, CancelListener(t) PROVE Places' /\ Births' /\ Held'
  BY <1>15 DEF CancelListener
<1>16. ASSUME NEW t \in Threads, CloseFlag(t) PROVE Places' /\ Births' /\ Held'
  BY <1>16 DEF CloseFlag
<1>17. ASSUME NEW t \in Threads, CloseSockets(t) PROVE Places' /\ Births' /\ Held'
  BY <1>17 DEF CloseSockets, CloseSocket
<1>18. ASSUME NEW t \in Threads, Release(t) PROVE Places' /\ Births' /\ Held'
  BY <1>18 DEF Release, Enter
<1>19. ASSUME NEW t \in Threads, Destroy(t) PROVE Places' /\ Births' /\ Held'
  BY <1>19 DEF Destroy
<1>20. CASE Bind
  BY <1>20 DEF Bind
<1>21. CASE Create
  BY <1>21 DEF Create
<1>22. CASE Start
  BY <1>22 DEF Start
<1>23. CASE StartFails
  BY <1>23 DEF StartFails
<1>24. CASE Reap
  BY <1>24 DEF Reap, Enter
<1>25. CASE Evict
  BY <1>25 DEF Evict
<1>26. CASE Join
  BY <1>26 DEF Join
<1>27. CASE Connect
  BY <1>27 DEF Connect
<1>28. CASE Deadline
  BY <1>28 DEF Deadline
<1>29. CASE UNCHANGED vars
  BY <1>29 DEF vars
<1> HIDE DEF ListenerInv, TypeOK, Places, Births, Held, Closing, Selecting, Reading,
        Answering, Past
<1> QED
  BY <1>0, <1>1, <1>2, <1>3, <1>4, <1>5, <1>6, <1>7, <1>8, <1>9, <1>10, <1>11, <1>12, <1>13,
     <1>14, <1>15, <1>16, <1>17, <1>18, <1>19, <1>20, <1>21, <1>22, <1>23, <1>24, <1>25,
     <1>26, <1>27, <1>28, <1>29 DEF Next, Wait, Stop, Over

\* Close has to wait while the worker is in a system call; an answer comes last.
LEMMA AnswersStep == ListenerInv /\ [Next]_vars => Answered' /\ SyscallsOnOpenSockets' /\ CallbackReturned'
<1>0. SUFFICES ASSUME ListenerInv, [Next]_vars PROVE Answered' /\ SyscallsOnOpenSockets' /\ CallbackReturned'
  OBVIOUS
<1> ListenerInv
  BY <1>0
<1> USE JudgementsAssumption, NobodyAssumption DEF ListenerInv, TypeOK, Places, Births,
        Held, Answered, SyscallsOnOpenSockets, CallbackReturned, Closing, Selecting,
        Reading, Answering, Past, Threads, Goto, sockets, flags, wire, life
<1>1. CASE WaitBegin
  BY <1>1 DEF WaitBegin
<1>2. CASE AcceptEnter
  BY <1>2 DEF AcceptEnter, Leave, Enter
<1>3. CASE AcceptCheck
  BY <1>3 DEF AcceptCheck, TurnCheck, Leave, Enter
<1>4. CASE AcceptLock
  BY <1>4 DEF AcceptLock, TurnLock, Leave, Enter
<1>5. CASE AcceptSelect
  BY <1>5 DEF AcceptSelect, Leave, Enter
<1>6. CASE ReceiveCheck
  BY <1>6 DEF ReceiveCheck, TurnCheck, Leave, Enter
<1>7. CASE ReceiveLock
  BY <1>7 DEF ReceiveLock, TurnLock, Leave, Enter
<1>8. CASE ReceiveSelect
  BY <1>8 DEF ReceiveSelect, Leave, Enter
<1>9. CASE Parse
  BY <1>9 DEF Parse, Leave, Enter
<1>10. CASE RespondLock
  BY <1>10 DEF RespondLock, Enter
<1>11. CASE RespondSend
  BY <1>11, SendMoves DEF Enter
<1>12. CASE WaitEnd
  BY <1>12 DEF WaitEnd
<1>13. CASE WorkerReturn
  BY <1>13 DEF WorkerReturn
<1>14. ASSUME NEW t \in Threads, CancelOwner(t) PROVE Answered' /\ SyscallsOnOpenSockets' /\ CallbackReturned'
  BY <1>14 DEF CancelOwner
<1>15. ASSUME NEW t \in Threads, CancelListener(t) PROVE Answered' /\ SyscallsOnOpenSockets' /\ CallbackReturned'
  BY <1>15 DEF CancelListener
<1>16. ASSUME NEW t \in Threads, CloseFlag(t) PROVE Answered' /\ SyscallsOnOpenSockets' /\ CallbackReturned'
  BY <1>16 DEF CloseFlag
<1>17. ASSUME NEW t \in Threads, CloseSockets(t) PROVE Answered' /\ SyscallsOnOpenSockets' /\ CallbackReturned'
  BY <1>17 DEF CloseSockets, CloseSocket
<1>18. ASSUME NEW t \in Threads, Release(t) PROVE Answered' /\ SyscallsOnOpenSockets' /\ CallbackReturned'
  BY <1>18 DEF Release, Enter
<1>19. ASSUME NEW t \in Threads, Destroy(t) PROVE Answered' /\ SyscallsOnOpenSockets' /\ CallbackReturned'
  BY <1>19 DEF Destroy
<1>20. CASE Bind
  BY <1>20 DEF Bind
<1>21. CASE Create
  BY <1>21 DEF Create
<1>22. CASE Start
  BY <1>22 DEF Start
<1>23. CASE StartFails
  BY <1>23 DEF StartFails
<1>24. CASE Reap
  BY <1>24 DEF Reap, Enter
<1>25. CASE Evict
  BY <1>25 DEF Evict
<1>26. CASE Join
  BY <1>26 DEF Join
<1>27. CASE Connect
  BY <1>27 DEF Connect
<1>28. CASE Deadline
  BY <1>28 DEF Deadline
<1>29. CASE UNCHANGED vars
  BY <1>29 DEF vars
<1> HIDE DEF ListenerInv, TypeOK, Places, Births, Held, Answered, SyscallsOnOpenSockets,
        CallbackReturned, Closing, Selecting, Reading, Answering, Past
<1> QED
  BY <1>0, <1>1, <1>2, <1>3, <1>4, <1>5, <1>6, <1>7, <1>8, <1>9, <1>10, <1>11, <1>12, <1>13,
     <1>14, <1>15, <1>16, <1>17, <1>18, <1>19, <1>20, <1>21, <1>22, <1>23, <1>24, <1>25,
     <1>26, <1>27, <1>28, <1>29 DEF Next, Wait, Stop, Over

\* Whoever consumes the listener, or leaves the wait, goes on to close it.
LEMMA FreedStep == ListenerInv /\ [Next]_vars => FreedAfterwards'
<1>0. SUFFICES ASSUME ListenerInv, [Next]_vars PROVE FreedAfterwards'
  OBVIOUS
<1> ListenerInv
  BY <1>0
<1> USE JudgementsAssumption, NobodyAssumption DEF ListenerInv, TypeOK, Places, Births,
        Held, FreedAfterwards, Freed, BeingFreed, Closing, Selecting, Reading, Answering,
        Past, Handle, Threads, Goto, sockets, flags, wire, life
<1>1. CASE WaitBegin
  BY <1>1 DEF WaitBegin
<1>2. CASE AcceptEnter
  BY <1>2 DEF AcceptEnter, Leave, Enter
<1>3. CASE AcceptCheck
  BY <1>3 DEF AcceptCheck, TurnCheck, Leave, Enter
<1>4. CASE AcceptLock
  BY <1>4 DEF AcceptLock, TurnLock, Leave, Enter
<1>5. CASE AcceptSelect
  BY <1>5 DEF AcceptSelect, Leave, Enter
<1>6. CASE ReceiveCheck
  BY <1>6 DEF ReceiveCheck, TurnCheck, Leave, Enter
<1>7. CASE ReceiveLock
  BY <1>7 DEF ReceiveLock, TurnLock, Leave, Enter
<1>8. CASE ReceiveSelect
  BY <1>8 DEF ReceiveSelect, Leave, Enter
<1>9. CASE Parse
  BY <1>9 DEF Parse, Leave, Enter
<1>10. CASE RespondLock
  BY <1>10 DEF RespondLock, Enter
<1>11. CASE RespondSend
  BY <1>11, SendMoves DEF Enter
<1>12. CASE WaitEnd
  BY <1>12 DEF WaitEnd
<1>13. CASE WorkerReturn
  BY <1>13 DEF WorkerReturn
<1>14. ASSUME NEW t \in Threads, CancelOwner(t) PROVE FreedAfterwards'
  BY <1>14 DEF CancelOwner
<1>15. ASSUME NEW t \in Threads, CancelListener(t) PROVE FreedAfterwards'
  BY <1>15 DEF CancelListener
<1>16. ASSUME NEW t \in Threads, CloseFlag(t) PROVE FreedAfterwards'
  BY <1>16 DEF CloseFlag
<1>17. ASSUME NEW t \in Threads, CloseSockets(t) PROVE FreedAfterwards'
  BY <1>17 DEF CloseSockets, CloseSocket
<1>18. ASSUME NEW t \in Threads, Release(t) PROVE FreedAfterwards'
  BY <1>18 DEF Release, Enter
<1>19. ASSUME NEW t \in Threads, Destroy(t) PROVE FreedAfterwards'
  BY <1>19 DEF Destroy
<1>20. CASE Bind
  BY <1>20 DEF Bind
<1>21. CASE Create
  BY <1>21 DEF Create
<1>22. CASE Start
  BY <1>22 DEF Start
<1>23. CASE StartFails
  BY <1>23 DEF StartFails
<1>24. CASE Reap
  BY <1>24 DEF Reap, Enter
<1>25. CASE Evict
  BY <1>25 DEF Evict
<1>26. CASE Join
  BY <1>26 DEF Join
<1>27. CASE Connect
  BY <1>27 DEF Connect
<1>28. CASE Deadline
  BY <1>28 DEF Deadline
<1>29. CASE UNCHANGED vars
  BY <1>29 DEF vars
<1> HIDE DEF ListenerInv, TypeOK, Places, Births, Held, FreedAfterwards, Freed, BeingFreed,
        Closing, Selecting, Reading, Answering, Past, Handle
<1> QED
  BY <1>0, <1>1, <1>2, <1>3, <1>4, <1>5, <1>6, <1>7, <1>8, <1>9, <1>10, <1>11, <1>12, <1>13,
     <1>14, <1>15, <1>16, <1>17, <1>18, <1>19, <1>20, <1>21, <1>22, <1>23, <1>24, <1>25,
     <1>26, <1>27, <1>28, <1>29 DEF Next, Wait, Stop, Over

\* References are taken before the owner is shared, and the last one is dropped alone.
LEMMA ReferencesStep == ListenerInv /\ [Next]_vars => Referenced' /\ DestroyedUnused'
<1>0. SUFFICES ASSUME ListenerInv, [Next]_vars PROVE Referenced' /\ DestroyedUnused'
  OBVIOUS
<1> ListenerInv
  BY <1>0
<1> USE JudgementsAssumption, NobodyAssumption DEF ListenerInv, TypeOK, Places, Births,
        Referenced, DestroyedUnused, Uses, Destroying, Closing, Selecting, Reading,
        Answering, Past, Threads, Goto, sockets, flags, wire, life
<1>1. CASE WaitBegin
  BY <1>1 DEF WaitBegin
<1>2. CASE AcceptEnter
  BY <1>2 DEF AcceptEnter, Leave, Enter
<1>3. CASE AcceptCheck
  BY <1>3 DEF AcceptCheck, TurnCheck, Leave, Enter
<1>4. CASE AcceptLock
  BY <1>4 DEF AcceptLock, TurnLock, Leave, Enter
<1>5. CASE AcceptSelect
  BY <1>5 DEF AcceptSelect, Leave, Enter
<1>6. CASE ReceiveCheck
  BY <1>6 DEF ReceiveCheck, TurnCheck, Leave, Enter
<1>7. CASE ReceiveLock
  BY <1>7 DEF ReceiveLock, TurnLock, Leave, Enter
<1>8. CASE ReceiveSelect
  BY <1>8 DEF ReceiveSelect, Leave, Enter
<1>9. CASE Parse
  BY <1>9 DEF Parse, Leave, Enter
<1>10. CASE RespondLock
  BY <1>10 DEF RespondLock, Enter
<1>11. CASE RespondSend
  BY <1>11, SendMoves DEF Enter
<1>12. CASE WaitEnd
  BY <1>12 DEF WaitEnd
<1>13. CASE WorkerReturn
  BY <1>13 DEF WorkerReturn
<1>14. ASSUME NEW t \in Threads, CancelOwner(t) PROVE Referenced' /\ DestroyedUnused'
  BY <1>14 DEF CancelOwner
<1>15. ASSUME NEW t \in Threads, CancelListener(t) PROVE Referenced' /\ DestroyedUnused'
  BY <1>15 DEF CancelListener
<1>16. ASSUME NEW t \in Threads, CloseFlag(t) PROVE Referenced' /\ DestroyedUnused'
  BY <1>16 DEF CloseFlag
<1>17. ASSUME NEW t \in Threads, CloseSockets(t) PROVE Referenced' /\ DestroyedUnused'
  BY <1>17 DEF CloseSockets, CloseSocket
<1>18. ASSUME NEW t \in Threads, Release(t) PROVE Referenced' /\ DestroyedUnused'
  BY <1>18 DEF Release, Enter
<1>19. ASSUME NEW t \in Threads, Destroy(t) PROVE Referenced' /\ DestroyedUnused'
  BY <1>19 DEF Destroy
<1>20. CASE Bind
  BY <1>20 DEF Bind
<1>21. CASE Create
  BY <1>21 DEF Create
<1>22. CASE Start
  BY <1>22 DEF Start
<1>23. CASE StartFails
  BY <1>23 DEF StartFails
<1>24. CASE Reap
  BY <1>24 DEF Reap, Enter
<1>25. CASE Evict
  BY <1>25 DEF Evict
<1>26. CASE Join
  BY <1>26 DEF Join
<1>27. CASE Connect
  BY <1>27 DEF Connect
<1>28. CASE Deadline
  BY <1>28 DEF Deadline
<1>29. CASE UNCHANGED vars
  BY <1>29 DEF vars
<1> HIDE DEF ListenerInv, TypeOK, Places, Births, Referenced, DestroyedUnused, Uses,
        Destroying, Closing, Selecting, Reading, Answering, Past
<1> QED
  BY <1>0, <1>1, <1>2, <1>3, <1>4, <1>5, <1>6, <1>7, <1>8, <1>9, <1>10, <1>11, <1>12, <1>13,
     <1>14, <1>15, <1>16, <1>17, <1>18, <1>19, <1>20, <1>21, <1>22, <1>23, <1>24, <1>25,
     <1>26, <1>27, <1>28, <1>29 DEF Next, Wait, Stop, Over

-----------------------------------------------------------------------------
(* The theorems                                                              *)

\* At first there is only the starter, about to bind.
LEMMA ListenerInit == Init => ListenerInv
<1> SUFFICES ASSUME Init PROVE ListenerInv
  OBVIOUS
<1>1. /\ pc["starter"] = "bind" /\ pc["worker"] = "none" /\ pc["reaper"] = "none"
      /\ pc \in [Threads -> Label] /\ after \in [Threads -> Label]
  BY DEF Init, Threads, Label
<1>2. TypeOK
  BY <1>1 DEF Init, TypeOK, Handle
<1>3. Places /\ Births /\ Held /\ Answered
  BY <1>1, NobodyAssumption DEF Init, Places, Births, Held, Answered, Closing, Selecting,
     Answering, Threads
<1>4. FreedAfterwards /\ Referenced
  BY <1>1 DEF Init, FreedAfterwards, Referenced, Uses, Destroying, Closing, Past, Threads
<1>5. SyscallsOnOpenSockets /\ CallbackReturned /\ DestroyedUnused
  BY <1>1 DEF Init, SyscallsOnOpenSockets, CallbackReturned, DestroyedUnused
<1> QED
  BY <1>2, <1>3, <1>4, <1>5 DEF ListenerInv

\* The invariant holds in every state of the three threads.
LEMMA ListenerInvariant == Spec => []ListenerInv
<1>1. ListenerInv /\ [Next]_vars => ListenerInv'
  BY TypeStep, PlacesStep, AnswersStep, FreedStep, ReferencesStep DEF ListenerInv
<1> QED
  BY ListenerInit, <1>1, PTL DEF Spec

\* The members of the acceptor, the listener and the owner keep their types.
THEOREM ListenerTypeCorrect == Spec => []TypeOK
<1>1. ListenerInv => TypeOK
  BY DEF ListenerInv
<1> QED
  BY <1>1, ListenerInvariant, PTL

\* Because Close closes under socket_mutex, no select, accept, recv or send of the worker
\* ever runs on a descriptor that another thread has closed.
THEOREM SyscallsAreSafe == Spec => []SyscallsOnOpenSockets
<1>1. ListenerInv => SyscallsOnOpenSockets
  BY DEF ListenerInv
<1> QED
  BY <1>1, ListenerInvariant, PTL

\* Respond is reached only with a callback in hand, and however it ends it leaves the
\* callback to be returned.
THEOREM CallbacksAreReturned == Spec => []CallbackReturned
<1>1. ListenerInv => CallbackReturned
  BY DEF ListenerInv
<1> QED
  BY <1>1, ListenerInvariant, PTL

\* However WaitForCallback ends, and if it never began because the listener was consumed,
\* the port is free or a thread is closing it.
THEOREM PortIsFreed == Spec => []PortFreed
<1>1. ListenerInv => PortFreed
  BY DEF ListenerInv, FreedAfterwards, Freed, BeingFreed, PortFreed, Past
<1> QED
  BY <1>1, ListenerInvariant, PTL

\* shared_from_this in Start makes the destructors run in the last thread that uses the
\* owner, whichever of the three that is.
THEOREM DestroyedIsUnused == Spec => []DestroyedUnused
<1>1. ListenerInv => DestroyedUnused
  BY DEF ListenerInv
<1> QED
  BY <1>1, ListenerInvariant, PTL
=============================================================================
