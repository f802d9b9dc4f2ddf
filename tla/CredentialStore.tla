-------------------------- MODULE CredentialStore --------------------------
(***************************************************************************)
(* Where a completed login leaves its capability: the registry's map of    *)
(* credentials, DuckDB's catalog of temporary secrets that name them, the  *)
(* completions that store a credential and install the secret              *)
(* (AuthCompleteExecute from StoreCredential on), and the queries that     *)
(* resolve it when they are bound and again when they start.               *)
(*                                                                         *)
(* The catalog is DuckDB's: a transaction that replaces an entry changed   *)
(* since it was read fails with a conflict.  Other users of the database   *)
(* may drop a secret or replace it by one of another type.                 *)
(***************************************************************************)
EXTENDS Naturals, FiniteSets

CONSTANTS
    Creds,      \* credential ids that may be drawn; each is drawn at most once
    Names,      \* secret names
    Conns,      \* connections completing logins
    Queries,    \* connections running data360_query
    MaxCreds,   \* 16 in the source
    Stripe,     \* the mutex of secret_replacement_mutexes a name hashes to
    None, Other \* no entry, and an entry that is not a data360 secret

ASSUME BoundAssumption == MaxCreds \in Nat \ {0}
ASSUME ValuesAssumption ==
    /\ None \notin Creds /\ Other \notin Creds /\ None # Other /\ None \notin Conns
ASSUME StripeAssumption == DOMAIN Stripe = Names

VARIABLES
    creds,     \* the credentials map of the registry
    drawn,     \* ids drawn so far
    stale,     \* credentials whose expires_at_ms has been reached
    catalog,   \* what each name means in temporary secret storage
    lock,      \* the holder of each replacement mutex
    inst,      \* where each completion is
    query,     \* where each query is
    orphaned   \* history: credentials whose secret another user dropped or replaced

vars == <<creds, drawn, stale, catalog, lock, inst, query, orphaned>>

Stripes == {Stripe[n] : n \in Names}
Entry == Creds \cup {None, Other}

\* A completion: its name, its new credential and what it read from the catalog.
Install == [pc : {"idle", "lock", "read", "commit", "retire", "undo"},
            name : Names \cup {None}, cred : Creds \cup {None}, seen : Entry]
IdleInstall == [pc |-> "idle", name |-> None, cred |-> None, seen |-> None]

Query == [pc : {"idle", "bind", "bound", "run"}, cred : Creds \cup {None},
          reauth : {"none", "expired", "missing"}]
IdleQuery == [pc |-> "idle", cred |-> None, reauth |-> "none"]

-----------------------------------------------------------------------------
(* Completions                                                               *)

Live == creds \ stale

\* StoreCredential: purge what has expired, then store under a new id.
StoreCredential(c, n, k) ==
    /\ inst[c].pc = "idle" /\ k \notin drawn
    /\ Cardinality(Live) < MaxCreds
    /\ creds' = Live \cup {k}
    /\ drawn' = drawn \cup {k}
    /\ inst' = [inst EXCEPT ![c] = [pc |-> "lock", name |-> n, cred |-> k, seen |-> None]]
    /\ UNCHANGED <<stale, catalog, lock, query, orphaned>>

\* AUTH_SESSION_LIMIT_REACHED, after the purge: there is no room, or none of sixteen
\* draws gave an unused id.
StoreRefused(c) ==
    /\ inst[c].pc = "idle"
    /\ creds' = Live
    /\ UNCHANGED <<drawn, stale, catalog, lock, inst, query, orphaned>>

LockSecretReplacementShared(c) ==
    /\ inst[c].pc = "lock"
    /\ lock' = [lock EXCEPT ![Stripe[inst[c].name]] = c]
    /\ inst' = [inst EXCEPT ![c].pc = "read"]
    /\ UNCHANGED <<creds, drawn, stale, catalog, query, orphaned>>

\* InstallTemporarySessionSecret serializes replacements by name.
LockSecretReplacement(c) ==
    /\ inst[c].pc = "lock" /\ lock[Stripe[inst[c].name]] = None
    /\ lock' = [lock EXCEPT ![Stripe[inst[c].name]] = c]
    /\ inst' = [inst EXCEPT ![c].pc = "read"]
    /\ UNCHANGED <<creds, drawn, stale, catalog, query, orphaned>>

\* Begin the independent transaction and read the entry to be displaced.
ReadExisting(c) ==
    /\ inst[c].pc = "read"
    /\ inst' = [inst EXCEPT ![c].pc = "commit", ![c].seen = catalog[inst[c].name]]
    /\ UNCHANGED <<creds, drawn, stale, catalog, lock, query, orphaned>>

\* RegisterSecret and Commit.
CommitSecret(c) ==
    /\ inst[c].pc = "commit" /\ catalog[inst[c].name] = inst[c].seen
    /\ catalog' = [catalog EXCEPT ![inst[c].name] = inst[c].cred]
    /\ inst' = [inst EXCEPT ![c].pc = "retire"]
    /\ UNCHANGED <<creds, drawn, stale, lock, query, orphaned>>

\* Reading, registering or committing throws, for a conflict or for any other reason.
CommitFails(c) ==
    /\ inst[c].pc \in {"read", "commit"}
    /\ inst' = [inst EXCEPT ![c].pc = "undo"]
    /\ UNCHANGED <<creds, drawn, stale, catalog, lock, query, orphaned>>

UnlockedNever(c) == lock

\* The end of the scope that holds the replacement mutex.
Unlocked(c) == [s \in Stripes |-> IF lock[s] = c THEN None ELSE lock[s]]

RetireNothing(c) ==
    /\ inst[c].pc = "retire"
    /\ lock' = Unlocked(c)
    /\ inst' = [inst EXCEPT ![c] = IdleInstall]
    /\ UNCHANGED <<creds, drawn, stale, catalog, query, orphaned>>

\* RemoveCredential of the displaced credential, once its replacement is visible, and
\* the end of the completion.
RetireDisplaced(c) ==
    /\ inst[c].pc = "retire"
    /\ creds' = creds \ ({inst[c].seen} \cap Creds)
    /\ lock' = Unlocked(c)
    /\ inst' = [inst EXCEPT ![c] = IdleInstall]
    /\ UNCHANGED <<drawn, stale, catalog, query, orphaned>>

UndoDisplaced(c) ==
    /\ inst[c].pc = "undo"
    /\ creds' = creds \ ({inst[c].cred, inst[c].seen} \cap Creds)
    /\ lock' = Unlocked(c)
    /\ inst' = [inst EXCEPT ![c] = IdleInstall]
    /\ UNCHANGED <<drawn, stale, catalog, query, orphaned>>

\* A failed installation removes the new credential and nothing else.
UndoInstall(c) ==
    /\ inst[c].pc = "undo"
    /\ creds' = creds \ {inst[c].cred}
    /\ lock' = Unlocked(c)
    /\ inst' = [inst EXCEPT ![c] = IdleInstall]
    /\ UNCHANGED <<drawn, stale, catalog, query, orphaned>>

-----------------------------------------------------------------------------
(* Queries                                                                   *)

\* Data360QueryBind reads the secret ...
QueryBind(r, n) ==
    /\ query[r].pc = "idle" /\ catalog[n] \in Creds
    /\ query' = [query EXCEPT ![r] = [pc |-> "bind", cred |-> catalog[n], reauth |-> "none"]]
    /\ UNCHANGED <<creds, drawn, stale, catalog, lock, inst, orphaned>>

\* ... and then resolves its credential; Data360QueryInit resolves it again.
\* ResolveCredential forgets a credential it finds expired.
ResolveCredential(r, from, to) ==
    LET k == query[r].cred IN
    /\ query[r].pc = from
    /\ \/ /\ k \in Live
          /\ query' = [query EXCEPT ![r].pc = to]
          /\ UNCHANGED creds
       \/ /\ k \notin Live
          /\ query' = [query EXCEPT ![r] = [pc |-> "idle", cred |-> k,
                          reauth |-> IF k \in stale THEN "expired" ELSE "missing"]]
          /\ creds' = creds \ {k}
    /\ UNCHANGED <<drawn, stale, catalog, lock, inst, orphaned>>

ResolveAtBind(r) == ResolveCredential(r, "bind", "bound")
ResolveAtInit(r) == ResolveCredential(r, "bound", "run")

\* The scan holds its own copy of the capability and ends by itself.
QueryEnd(r) ==
    /\ query[r].pc = "run"
    /\ query' = [query EXCEPT ![r] = IdleQuery]
    /\ UNCHANGED <<creds, drawn, stale, catalog, lock, inst, orphaned>>

-----------------------------------------------------------------------------
(* The environment                                                           *)

\* DROP SECRET, and CREATE OR REPLACE SECRET of another type under the same name.
ForeignChange(n) ==
    /\ \E e \in {None, Other} :
          catalog[n] # e /\ catalog' = [catalog EXCEPT ![n] = e]
    /\ orphaned' = orphaned \cup ({catalog[n]} \cap Creds)
    /\ UNCHANGED <<creds, drawn, stale, lock, inst, query>>

Expire(k) ==
    /\ k \in drawn \ stale
    /\ stale' = stale \cup {k}
    /\ UNCHANGED <<creds, drawn, catalog, lock, inst, query, orphaned>>

\* Nobody is calling.
AtRest ==
    /\ \A c \in Conns : inst[c].pc = "idle"
    /\ \A r \in Queries : query[r].pc = "idle"
    /\ UNCHANGED vars

-----------------------------------------------------------------------------
Init ==
    /\ creds = {} /\ drawn = {} /\ stale = {}
    /\ catalog = [n \in Names |-> None]
    /\ lock = [s \in Stripes |-> None]
    /\ inst = [c \in Conns |-> IdleInstall]
    /\ query = [r \in Queries |-> IdleQuery]
    /\ orphaned = {}

InstallStep(c) ==
    \/ LockSecretReplacement(c) \/ ReadExisting(c) \/ CommitSecret(c) \/ CommitFails(c)
    \/ RetireDisplaced(c) \/ UndoInstall(c)

Next ==
    \/ \E c \in Conns : \/ \E n \in Names, k \in Creds : StoreCredential(c, n, k)
                        \/ StoreRefused(c) \/ InstallStep(c)
    \/ \E r \in Queries : \/ \E n \in Names : QueryBind(r, n)
                          \/ ResolveAtBind(r) \/ ResolveAtInit(r) \/ QueryEnd(r)
    \/ \E n \in Names : ForeignChange(n)
    \/ \E k \in Creds : Expire(k)
    \/ AtRest

Spec == Init /\ [][Next]_vars

-----------------------------------------------------------------------------
(* Properties                                                                *)

\* Every variable has its type (the maps, the mutexes, the calls in progress).
TypeOK ==
    /\ creds \subseteq Creds /\ drawn \subseteq Creds /\ stale \subseteq Creds
    /\ catalog \in [Names -> Entry]
    /\ lock \in [Stripes -> Conns \cup {None}]
    /\ inst \in [Conns -> Install]
    /\ query \in [Queries -> Query]
    /\ orphaned \subseteq Creds

\* "Retirement happens only after the replacement is durably visible": the secret a
\* query finds in the catalog never names a credential that was removed before it
\* expired, whatever completions succeed, fail or race for the same name.
CatalogNamesLive ==
    \A n \in Names : catalog[n] \in Creds => catalog[n] \in creds \cup stale

\* A completion that has committed its secret still finds it in place when it goes on to
\* retire the displaced credential: its name means its own credential, which is kept
\* until it expires.  Only another user of the catalog, never another completion for the
\* name, comes in between.
CompletedSecretStands ==
    \A c \in Conns : inst[c].pc = "retire" /\ inst[c].cred \notin orphaned =>
        catalog[inst[c].name] = inst[c].cred /\ inst[c].cred \in creds \cup stale

\* No completion leaves a credential behind: one that is kept is named by a secret, was
\* orphaned by another user of the catalog, or a completion is about to install, retire
\* or remove it.
NoLeftover ==
    \A k \in creds \ orphaned :
        \/ \E n \in Names : catalog[n] = k
        \/ \E c \in Conns : inst[c].cred = k
        \/ \E c \in Conns : inst[c].pc = "retire" /\ inst[c].seen = k

\* The completions between LockSecretReplacement and the end of its scope.
Holding(c) == inst[c].pc \in {"read", "commit", "retire", "undo"}

\* A replacement mutex is held by the one completion that is replacing a secret under it,
\* and by nobody once that completion has succeeded or failed: no name is locked for good.
MutexHeldByInstall ==
    \A s \in Stripes :
        {c \in Conns : Holding(c) /\ Stripe[inst[c].name] = s} = {lock[s]} \ {None}

\* "Closing DuckDB, replacing the secret, ... or session expiry destroys the registry
\* entry": a secret that is replaced, by whatever, takes its credential with it.
ReplacedIsDestroyed ==
    \A k \in creds : (\E n \in Names : catalog[n] = Other) =>
        \/ \E n \in Names : catalog[n] = k
        \/ \E c \in Conns : inst[c].cred = k \/ inst[c].seen = k

\* A query is told to log in again only when its capability has expired or no secret
\* names it any more: never because of a completion that failed or is still under way.
ReauthExplained ==
    \A r \in Queries : query[r].reauth = "missing" =>
        \A n \in Names : catalog[n] # query[r].cred
=============================================================================
