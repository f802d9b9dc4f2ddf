--------------------------- MODULE AuthLifecycle ---------------------------
(***************************************************************************)
(* What the registry promises of every login, whatever threads run inside  *)
(* it: the life of a session is a walk through this diagram, and a login   *)
(* whose time is up neither receives a callback nor starts to complete.    *)
(*                                                                         *)
(*   NONE -> PENDING_USER_ACTION -> CALLBACK_RECEIVED -> COMPLETING        *)
(*                 |                       |               |    |          *)
(*            ACCESS_DENIED, EXPIRED, CANCELLED, FAILED  FAILED AUTHORIZED *)
(*                                                                         *)
(* and from a finished session to EVICTED.  Closing the database evicts    *)
(* them all.                                                               *)
(***************************************************************************)
CONSTANT Ids

VARIABLES status, late

lifeVars == <<status, late>>

LifeInit ==
    /\ status = [id \in Ids |-> "NONE"]
    /\ late = {}

Outcomes == {"AUTHORIZED", "ACCESS_DENIED", "EXPIRED", "CANCELLED", "FAILED"}

\* A session may move from `old' to `new', before or after its deadline.
Move(old, new, isLate) ==
    \/ old = "NONE" /\ new = "PENDING_USER_ACTION" /\ ~isLate
    \/ old = "PENDING_USER_ACTION" /\ new \in {"CALLBACK_RECEIVED", "ACCESS_DENIED"} /\ ~isLate
    \/ old = "CALLBACK_RECEIVED" /\ new = "COMPLETING" /\ ~isLate
    \/ old \in {"PENDING_USER_ACTION", "CALLBACK_RECEIVED"} /\ new = "EXPIRED" /\ isLate
    \/ old \in {"PENDING_USER_ACTION", "CALLBACK_RECEIVED"} /\ new \in {"CANCELLED", "FAILED"}
    \/ old = "COMPLETING" /\ new \in {"AUTHORIZED", "FAILED"}
    \/ old \in Outcomes /\ new = "EVICTED"
    \/ old \in {"PENDING_USER_ACTION", "CALLBACK_RECEIVED"} /\ new = "EVICTED" /\ isLate

\* One critical section may expire and evict several sessions and create one.
Progress ==
    /\ \A id \in Ids : status'[id] = status[id] \/ Move(status[id], status'[id], id \in late)
    /\ DOMAIN status' = Ids
    /\ UNCHANGED late

TimeUp(id) ==
    /\ late' = late \cup {id}
    /\ UNCHANGED status

\* Closing the database, which no completion survives to see.
Close ==
    /\ status' = [id \in Ids |-> IF status[id] = "NONE" THEN "NONE" ELSE "EVICTED"]
    /\ UNCHANGED late

LifeNext == Progress \/ (\E id \in Ids : TimeUp(id)) \/ Close

LifeSpec == LifeInit /\ [][LifeNext]_lifeVars
=============================================================================
