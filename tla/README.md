# TLA+ models of the Data 360 extension for DuckDB

The extension adds to DuckDB a browser login (OAuth authorization code with PKCE)
and a table function, `data360_query`, that runs SQL on the Data 360 Query API.
This directory models the parts of it that threads, callbacks, clocks and an
unreliable service make hard to test, checks them with TLC on small instances and
proves with TLAPS, for instances of any size, every safety property the runs check and
that the registry implements its abstract specification.

Run a check with `tlc -config <file>.cfg <module>`, the proofs with `tlapm <module>.tla` for
the eight modules whose names end in `Proofs`. `PROJECT.json` lists every run, maps every
definition to the lines it models, and lists the hazards the properties are for.

## 1. Inventory

| Component (under `src/src/`) | State | Operations | Modelled by |
|---|---|---|---|
| Auth session registry, `auth_session_registry.cpp` | map of sessions (status, fault, expected state, verifier, code, callback owner, expiry), one mutex | `Create`, `Snapshot`, `ReceiveCallback`, `ReceiveDenied`, `BeginCompletion`, `FinishAuthorized`, `FinishFailed`, `Fail`, `Cancel`, destructor | `AuthRegistry`, abstractly `AuthLifecycle` |
| SQL functions, `auth_functions.cpp` | the calling thread, DuckDB's interrupt flag | `data360_auth_start`, `_status`, `_complete`, `_cancel`, `_diagnostics` | `AuthRegistry`; `_complete` from the token on in `CredentialStore` |
| Callback thread owner, `auth_functions.cpp` | a `std::thread`, a `cancelled` flag, the listener | `Start`, `Cancel`, `StopAndJoin`, `WorkerExit`, destructor | `AuthRegistry` (the thread), `LoopbackListener` (the listener) |
| Loopback listener, `loopback_listener.cpp` | two sockets, `close_requested`, `consumed`, `waiting`, two mutexes | `Bind`, `AcceptOne`, `Respond`, `Close`, `WaitForCallback`, `Cancel`, destructors | `LoopbackListener` |
| Credentials of the registry, `session_credentials.cpp` | map of capabilities, 64 replacement mutexes, DuckDB's temporary secrets | `StoreCredential`, `ResolveCredential`, `RemoveCredential`, `InstallTemporarySessionSecret` | `CredentialStore` |
| Query API client, `query_api.cpp` | the `Session` of a query: id, counters, cursor, visited pages, terminal flags | `Prepare`, `OpenCursor`, `NextChunk`, `NextArrowChunk`, `ReportArrowChunk`, `Cancel`, destructors | `QuerySession` |
| Table function, `data360_extension.cpp`, `scan_runtime.cpp` | bind data, the scan's source and buffer | bind, init, one call per vector | `CredentialStore` (the credential), `QuerySession` (the client), `ScanDelivery` (the rows) |
| Arrow reader, `arrow_ipc_chunk_reader.cpp` | current batch, offset, end of stream | `Next`, `LoadBatch`, `ConvertSlice` | `ScanDelivery`; decoding is a verdict |
| OAuth provider, `salesforce_oauth_provider.cpp` | the strings of one exchange, the token's lifetime, two clocks | `Exchange`, `ValidDnsOrigin`, the two response parsers | `TokenExchange` |
| JSON codec, `native_runtime.cpp` | none | `JsonQueryResponseCodec::Decode` | `QuerySession` (`Responses`, `Decode`); number and cell syntax is a verdict |
| curl transport, `libcurl_transport.cpp` | the transfer in progress | refusals, `WriteBody`, `TransferProgress` | `QuerySession` (`Sendable`, `WriteBody`, `Aborts`); I/O is not |
| PKCE and random material, `oauth_pkce.cpp` | none | `ParseOAuthTokenResponse`, login origin, random ids | verdicts in `TokenExchange`, ids in `AuthRegistry` |
| Type mapping, error texts | none | tables | not modelled (section 7) |

How they interact. `data360_auth_start` binds the listener, stores a session that
owns a `CallbackThreadOwner`, and starts its worker. The worker waits for the browser
and calls `ReceiveCallback`, `ReceiveDenied` or `Fail` on the registry. Every call on
the registry may expire sessions and take their owners out, and stops and joins them
after it has released the mutex. `data360_auth_complete` moves the code out of the
session, exchanges it, stores a credential, installs a secret that names it, and
finishes the session. `data360_query` finds the credential through the secret, at
bind and again at init, prepares the query with the client and hands its rows to
DuckDB vector by vector.

What is hard. Up to four logins, each with a worker thread, any number of connections,
three clocks (session expiry, listener deadline, query deadline), interrupts, an owner
that may be reaped by its own worker, sockets that another thread closes, secrets that
another transaction replaces, and a service that may answer anything. In the code the
answers are: one mutex per registry, `COMPLETING` as a lock on a session, the first
terminal status wins, owners moved out under the mutex and joined outside it, reconciled
row and chunk counts, one DELETE, strings wiped on every way out of an exchange, a margin
taken off every announced lifetime. The properties below are about whether they compose.

## 2. Modules

**AuthRegistry** (the core). One action is one critical section of the registry's mutex
or of `worker_mutex`. `session` is the map (`NONE` and `EVICTED` stand for an id that is
not in it yet or no longer), `conn` the program counter of every connection with the
owners it has taken and has yet to stop, `worker` and `handle` the callback thread and
the `std::thread` member, `lapsed` the clock. `StopAndJoin` is three steps
(`StopCancel`, `StopTake`, `StopJoin`). The unsynchronised assignment
`worker = std::thread(...)` (`auth_functions.cpp:116`) is an action of its own, so whoever
reads the member sees the old or the new value. `Exchange` stands for the token requests
and the installation of the secret, which touch no session. An interrupt may set the flag
at any point of a completion; the code looks at it twice (`CompleteCatch`,
`CompleteRecord`). The faults of a failed exchange are one fault here. A caller knows an
id only once `data360_auth_start` has returned it (`Known`).

**AuthLifecycle** is what the registry promises: each login walks through a diagram of
statuses; a login whose time is up neither receives a callback nor starts to complete;
COMPLETING ends only as AUTHORIZED or FAILED. `AuthRegistry` implements it under the
mapping `status <- session[id].status, late <- lapsed` (property `LifecycleSpec`).

**CredentialStore**: the completions from `StoreCredential` on, DuckDB's catalog (external:
a commit succeeds only if the entry is what the transaction read), the queries' two
resolutions, and other users who drop or replace secrets. Once the secret is committed
`FinishAuthorized` is the last thing that could fail; it cannot, by the theorem
`CompletionIsExclusive`, so the path that would then remove the new credential is left out.

**LoopbackListener**: starter, worker and reaper on one listener. A select and what follows
it under `socket_mutex` is one action; `Close` raises the flag, then waits for the mutex.
Who drops the last reference runs the destructors. The request is its verdict.

**QuerySession**: one query against a service that answers any request with any reply.
A request is `Check`, `Issue`, answer, as the code reads the clock three times; the
unsigned subtraction of the deadline wraps at `Word`. Three cursors: numbered JSON,
numbered Arrow, chain of pages.

The service's answer is a response (`Responses`: a header, a
status, an id, counts, columns, data, a next page, any of which may be missing or wrong) and
`Decode` is the codec's precedence between them: an id in a header hides the body, a status
hides the data, an id without a status means running. The transport is three decisions:
what it refuses to send (`Sendable`), where it cuts a body off (`WriteBody`), and which
transfers an interrupt aborts (`Aborts`: all but the DELETE).

**TokenExchange**: `SalesforceOAuthProvider::Exchange`, which `AuthRegistry` takes as one step
that succeeds or fails. `held` is the set of strings that hold a secret, `guarded` those that a
destructor will wipe; a throw names what the code clears by hand. URLs are a scheme, a
sequence of character classes, a suffix and a slash, so that the two host name checks, the
provider's and the query client's, are compared label by label. Time passes in both requests
and before the clock is read; the service issues its token at some moment of the second.

**ScanDelivery**: which rows DuckDB gets, in which vectors; an empty vector is the end.
The cursor below it is the one `QuerySession` checks.

**MCAuthRegistry**, **MCCredentialStore**, **MCQuerySession** add the symmetry sets and
constants TLC needs.

The theorems are in **AuthRegistryProofs**, **AuthLifecycleProofs** (which extends it) and
**AuthOwnerProofs** (which extends that), **TokenExchangeProofs**, **CredentialStoreProofs**,
**QuerySessionProofs**, **LoopbackListenerProofs** and **ScanDeliveryProofs**, each about the
module of its name; section 6 gives their arguments.

## 3. Runs

| Run | Shows | Bounds |
|---|---|---|
| `auth_races` | a pending login can still be answered, completion is exclusive, secrets are wiped, the port belongs to a live login, one reaper per owner, outcomes stand, `AuthLifecycle` is implemented | 2 logins, 2 connections, interrupts, slow starts and id collisions |
| `auth_limits` | the limits on sessions hold through sweeps and evictions; without interrupts COMPLETING has an owner | 3 logins, 1 active, 2 kept |
| `auth_liveness` | calls return, workers end, logins end, teardown leaves no worker | 2 logins, 2 connections, fair, no eviction |
| `query` | chunks once and in order, the end only of a whole result, limits, release of the remote query, every call ends | 2 query ids, 3 pages, 3 chunks (so that a chain can close, or go on too long), 2 rows, 1 or 3 columns, 3 cells, 2 bytes, every response of `Responses` |
| `cred` | secrets name live credentials, a committed secret stands until its completion is over, no credential is left over, the mutexes, refusals explained | 3 credentials, 2 names, 2 completions, 1 query |
| `exchange` | no secret left in a string however the exchange ends, the capability is live and ends before the service's token, its tenant is one queries accept | host names of up to 5 characters where 4 are allowed and labels of 3; steady clock at 0 and near 2^64 (here 64), UTC before 1970, at 0, midway and at its last value; every `expires_in` from 0 past the maximum, and none |
| `listener` | no call on a closed socket, no use after destruction, a callback read to its end is returned and nothing else answered, the port freed, waits and stops end | one listener, three threads, complete |
| `scan` | rows once and in order, no early end, chunks validated first, calls return | 2 chunks of 2 batches of up to 3 rows, vectors of 2 |
| `auth_interrupt`, `auth_evicted_owner`, `query_deadline`, `cred_replaced` | counterexamples, section 5 | the smallest that have them |

Why the bounds are enough. The registry's interactions are pairwise: a session with its
worker, a caller with another, a login with the one whose port or place it wants; two of
each give all of these, three logins with room for two make evictions happen. An id is
drawn once, so an instance ends after its ids are used up; every earlier state is reached
with every later one still possible. In `query` the limits
lie below what the service may send. Chunks (announced, and in a chain of pages), rows,
cells and columns are each reached exactly and exceeded; rows (with one column) and cells
(with three) without the other limit. The byte budget is used up exactly, by one reply, after
which the transport refuses the next request, or exceeded by one; a reply that exceeds what
several before it have left of the budget is covered by the theorem `LimitsHold` only.
Replies of size 0 let polling go on until the deadline and nothing else ends it. The first
page of a chain has no path of its own in the model (`NoUrl`), so a chain that leads back to
it is one to a page not yet visited, as it is for the client. In `scan` batches
of 0 to 3 rows and vectors of 2 cover an empty batch, one that fits, one that ends with the
vector and one that overlaps it, in each position. In `exchange` five characters make a name
too long, a label too long, an empty label at either end and in the middle, and a dash in each
position of a label of each length; the words are so small that each sum of the lifetime
is the largest that fits for some `expires_in`, and too large by one for another. `Symmetric` is used only in runs
without liveness properties.

The instance of `CredentialStore` gives each name its own mutex; names that share one are
covered by the theorems, which hold for any sharing. `auth_liveness` has `PromptStart`, which
`TeardownReaps` needs; `CallsReturn`, `WorkersEnd` and `LoginsEnd` also hold in the same
instance with `PromptStart = FALSE`.

## 4. Fairness

*AuthRegistry*: a connection in a call and a worker not waiting for the browser go on
(threads of the operating system), and the clock reaches every expiry. Nothing makes a
user call, cancel or close, nor a browser answer. *LoopbackListener*: threads run and
deadlines come; fairness is weak, so a `Close` that waits for a mutex which is free only
now and then is not promised it: `StopsEnd` holds because the worker looks at
`close_requested` before every slice. *QuerySession*: the client goes on and requests end,
as the transport enforces `timeout_ms`; when to call again is DuckDB's choice.
*ScanDelivery*: a call in progress goes on.

## 5. Where the code and its documents disagree

1. `auth_interrupt` (`auth_functions.cpp:282`). `data360_auth_complete` fails the session
   itself only if the interrupt is visible at line 279, and `RecordAuthCompletionFailure`
   returns without recording if it is visible at line 55. An interrupt between the two
   leaves the session COMPLETING for good; it counts as active, and four of them block
   all logins. The status function shows it as CALLBACK_RECEIVED.
2. `auth_evicted_owner` (`auth_session_registry.cpp:173`). `Create` makes room by erasing
   finished sessions, among them one whose owner `ReceiveCallback` or `ReceiveDenied` left
   for somebody else to reap. Nobody joins that worker, which may still have `Fail` to call
   when the registry is destroyed. It takes 32 kept sessions and a worker that is slow by
   as much, so the window is small.
3. `query_deadline` (`query_api.cpp:172`). If the overall timeout passes between
   `CheckActive` and the subtraction two lines on, the subtraction wraps and the request
   gets the full request timeout beyond the deadline.
4. `cred_replaced` (`session_credentials.cpp:46`). The documentation says that replacing a
   secret destroys the registry entry; a replacement by a secret of another type does not.

Also observed, without a run of its own: `Fail` runs on the worker and so calls
`StopAndJoin` there, although `auth_session_registry.hpp:51` says the registry never does
(the owner detects it and detaches: `WorkerSelfStop`); a query bound before a re-login is
refused with REAUTH_REQUIRED at init, because it remembers the displaced credential
(`ReauthExplained` is stated to allow for it); if the reply to the POST is lost the client
has no id and sends no DELETE (`RemoteReleased` is about queries whose id it learnt); a login
nobody answers and nobody polls ends FAILED with CALLBACK_PROTOCOL_ERROR, by the worker's own
timeout, and not EXPIRED; an id in a header hides a body that says FINISHED, so such a query is
polled until the service leaves the header out or the deadline passes; a completed status
without a chunk count decodes to an empty direct result, for which the table function opens
no cursor (`HasColumns`; bind refuses a query without metadata) and which
`QueryApiV3Client::Execute`, which only tests call, reports as a whole, empty one; the browser
is shown success or failure before the registry has the callback, so a login that is
cancelled or expires meanwhile, or whose state does not match, has shown a success page and
ends otherwise (`CallbackReturned` is about the listener alone); the request
timeout equals the expiry margin (30 s each), so `CapabilityLifetime` has no slack: its bound
holds up to the time between the reply and the reading of the clock (`Pause`).

## 6. Proofs

Each theorem has the form `Spec => []Inv` (or an action property, or a refinement) and holds
for every value of the constants that the named assumptions of its module allow. Each rests
on an inductive invariant, named below, because the property alone is seldom preserved by a
step. TLC checked each of these invariants on the instances of the runs before it was proved.

### The registry: completion, material, outcomes (`AuthRegistryProofs`)

For any sets of ids and connections and any limits, from `ConnsAssumption`,
`BoundsAssumption`, `NoneAssumption` and `SwitchesAssumption` only as far as a leaf cites them:

* `TypeCorrect`: `Spec => []TypeOK`, which only the proofs use. Not inductive alone: a call applies the session map to
  the id it works on, so `TypeInv` adds `CallsNamed`, that every call in progress has one.
* `CompletionIsExclusive`: `Spec => []CompletionExclusive`, the property the whole design
  of completion rests on: between `BeginCompletion` and the end one caller owns the session
  and finds it COMPLETING.
* `MaterialIsWiped`: `Spec => []MaterialByStatus`.
* `OutcomesStand`: `Spec => OutcomeStands`, an action property.

The inductive invariant is `CompletionInv == TypeInv /\ HolderInv`, with

* `CreateIsFirst`: an id between `StartBind` and `Create` is in no map yet and no other call
  uses it, so that `Create` cannot overwrite a session that somebody is completing;
* `CompletionExclusive` itself;
* `HolderAlone`: the status of a session somebody is completing or failing never goes back to
  one that `BeginCompletion` accepts, and no other call is at a step that may finish it.

The argument has two layers. Lemmas on operators (`TerminalLocked`, `ExpireLocked`,
`Snapshot`, `CancelSession`, `Received`) show that each returns a session and changes it
*calmly*: COMPLETING and terminal statuses stay, and the material follows the status. Lemmas
on actions then show that a calm step keeps `HolderInv` (`CalmKeeps`) and treat the few
actions that are not calm, `CreateAccepted`, `BeginCompletion` and the two that finish, one
by one. `MaterialIsWiped` and `OutcomesStand` follow from the *tame* steps this leaves.

### The registry implements the lifecycle (`AuthLifecycleProofs`)

`RegistryImplementsLifecycle`: `Spec => LifecycleSpec`. The initial states map to initial
states of every login; every step maps to a move of `AuthLifecycle`, to the passing of a
deadline, or to a stutter. `Walks(id, t)` says that replacing a session by `t` is such a move;
each operator on sessions is shown to walk once, and then each action through its operators.
Two facts need `CompletionInv`: a session that `Create` stores was NONE, and a session that
is finished was COMPLETING, since only its holder finishes it. That a late login neither
receives a callback nor begins to complete is `FreshInTime`: every critical section applies
the clock before it looks at the status.

### Owners, the port, the bounds, teardown (`AuthOwnerProofs`)

* `OwnersAreReleasedOnce`: `Spec => []SingleReaper`. `ReaperInv` adds to `CompletionInv` that
  an active session holds its owner, that an absent one has none, and that nobody reaps an id
  which is not stored yet. `HandsOver(c)` describes what any call does to owners: it takes
  only what the session gives up in the same step.
* `PortIsForLiveLogins`: `Spec => []PortForLiveLogin`. `PortInv` adds to `ReaperInv` who is on
  the way to close a held port, and that a worker which has answered has closed it.
* `PendingLoginsAreAnswerable`: `Spec => []PendingCanBeAnswered`. `PendingInv` adds to
  `PortInv` and the property `StartInv`, about logins that are being started: until the call
  has its worker nobody else works on the id, `Create` finds the port bound by its own call, a
  failed start lets go of the port only after the session is over, and no login that is not
  stored yet has been told to stop.
* `BoundsHold`: `Spec => []SessionBounds`, from the cardinality theorems for finite sets, as
  `Create` counts, evicts and stores under one hold of the mutex.
* `CompletionsHaveOwners`: `Interruptible = {}` implies `Spec => []CompletionHasOwner`. The
  hypothesis is necessary: `auth_interrupt` is the counterexample without it.
* `TeardownReapsWorkers`: `PromptStart`, finitely many ids and no more of them than
  `MaxSessions` imply `Spec => []TeardownReaps`. No more logins than places means that none
  is evicted; `auth_evicted_owner` is the counterexample otherwise. `PromptStart` says that
  no session expires while the `data360_auth_start` that made it has not returned. `TeardownInv` says that a worker with a call left to
  make has an owner in its session or in the hands of a reaper, with a thread to join.

Both hypotheses hold in the runs that check the properties.

### The token exchange (`TokenExchangeProofs`)

For any timeouts, margins, lifetimes, units and word sizes allowed by `ClockAssumption`
(positive numbers, a clock that starts early enough to last), `SkewAssumption` (a request
takes no longer than the margin, as in the default options) and `NameAssumption`:

* `SecretsAreWiped`: `Spec => []SecretsWiped`, from `HeldAt`, which says what is held and what
  is guarded at every point of the call. `SecretsWiped` alone is not inductive: that a throw
  leaves nothing behind depends on which destructors exist at that point. Code and verifier
  are in `material`, passed by value, until the call ends; what the property says of the
  second request is that the form they were sent in and the first reply are gone by then.
* `LifetimeIsCovered`: `Spec => []CapabilityLifetime`, from `ClockInv`: after the second
  request the clock is past the token's issue by at most the request timeout, and what the
  reply said exceeds the margin. `LifetimeArithmetic` is the step that matters: the checks
  before the additions exclude a wrap, so the remainder is the sum, and the margin pays for
  the request.
* `TenantsAreTrusted`: `Spec => []TenantTrusted`, for host names of any length. The lemma
  `ProviderIsStricter` compares the two checks: the query client looks at every character,
  the provider only at labels, so every character other than a dot must be shown to lie in a
  label (`LabelAround`). That is an induction over the name; it is done without one, by
  taking the least end to the right and the least distance to the left (`LeastNumber`, from
  the well-foundedness of `<` on the naturals).

### Credentials (`CredentialStoreProofs`)

For any number of completions, queries, names and credentials, and for any assignment of
names to mutexes (in the code a hash modulo 64): `StoreTypeCorrect`, `CompletedSecretsStand`
(`CompletedSecretStands`), `SecretsNameLive`
(`CatalogNamesLive`), `NothingLeftOver` (`NoLeftover`), `MutexesAreHeldByInstalls`
(`MutexHeldByInstall`), `RefusalsAreExplained` (`ReauthExplained`). `StoreInv` adds to these

* `LockInv`: a completion holds the mutex of its name exactly while it replaces the secret;
* `PrivateUntilCommit`: until the secret is committed nobody else knows the credential, so
  undoing the completion takes it from nobody;
* `NamedOnce` and `Displaced`: no two secrets name one credential, so that what a committed
  completion retires is named by no secret;
* `OnlyDrawn`, `InstallsNamed`, `QueriesNamed`: a new id is in use nowhere, and calls have
  their arguments.

### Query sessions (`QuerySessionProofs`)

Against any service, for any query ids, pages, limits and timeouts that satisfy the
module's assumptions (of which `IdsAssumption`, that a missing or malformed id fails
`IsSafeQueryId`, is what lets an unlearnt id be told from a learnt one): `QueryTypeCorrect`,
`DeletesAreLast`, `RemoteIsReleased`, `ChunksComeInOrder`, `EndsAreComplete`, `LimitsHold`.
`QueryInv` adds where caller, request and mode can be together (`Phases`), that nothing is
counted before there is a cursor (`Untouched`), the three ways a session is over
(`Released`), that chunks are counted when they are delivered (`Counting`), when an Arrow
report is owed (`Outstanding`), that the page being fetched has not been given (`Chained`),
and what `Prepare` has checked (`Prepared`). `LimitsHold` needs products and quotients:
`CellsAdd` for the JSON cursors, `CellsDivide` for the Arrow cursor, which divides the cells
that are left by the number of columns.

### The listener (`LoopbackListenerProofs`)

In every order of starter, worker, reaper, browser and deadlines: `ListenerTypeCorrect`,
`SyscallsAreSafe` (`SyscallsOnOpenSockets`), `CallbacksAreReturned` (`CallbackReturned`),
`PortIsFreed` (`PortFreed`), `DestroyedIsUnused` (`DestroyedUnused`). The module has
no size to grow in and TLC explores it completely; the proof gives the reason. `ListenerInv` says where each
thread can be (`Places`, `Births`), that the mutex is held exactly during a select and what
follows it (`Held`), that only a well-formed request
is answered, with its result known (`Answered`), that the port is free or
being freed from the moment a wait is over or can no longer begin (`FreedAfterwards`), and
that whoever uses the owner has a reference or is the last (`Referenced`).

### Delivery of rows (`ScanDeliveryProofs`)

For results of any number of chunks, batches and rows and vectors of any positive size:
`ScanTypeCorrect`, `RowsComeInOrder` (`RowsInOrder`), `EndsAreReal` (`EndIsReal`),
`RowsAreValidated` (`ValidatedFirst`). The heart of `ScanInv` is `Converted`: the rows DuckDB
has, with those in the vector, are exactly the rows behind the reader. Then there are three
kinds of step: those that convert nothing and move the reader past no row (`QuietRows`; the
work is to show that the end of a batch, chunk or page and the beginning of the next have
the same rows behind them, `NextBatch` and `WholeChunk`), those that convert a slice
(`SliceRows`, from `SliceInOrder`, which is about sequences of triples only), and the
exception (`ThrownRows`). `EndIsReal` follows, as nothing is left behind the last place.

### Only model-checked

Every liveness property (`CallsReturn`, `WorkersEnd`, `LoginsEnd`, `CallsEnd`, `WaitEnds`,
`StopsEnd`, `ScanReturns`): the prover has no rule for fairness or ENABLED. The four
counterexamples are TLC's.

## 7. Not modelled

* JSON and URL syntax (number and cell spelling in `native_runtime.cpp`, the listener's request
  parser, path checks): parsers; the models enumerate what they may return, "unsafe" and
  "malformed" included.
* `libcurl_transport.cpp` beyond its decisions: libcurl's options, TLS and headers are I/O;
  its contract is a reply within the timeout or an exception.
* Temporary copies made while forms are encoded, and a failing allocation, in the token
  exchange: `SecretsWiped` is about the named strings.
* `oauth_pkce.cpp`'s hashing, base64url and random bytes; drawn ids are distinct or, with
  `IdCollisions`, refused.
* Arrow's buffers and formats: a verdict of `ScanDelivery`.
* `type_mapping.cpp`, `error_codes.cpp`: tables.
* `StopCallback` and the short overload of `Create`, which only tests call;
  `data360_diagnostics`, which reads two counts; a cursor used again after it threw, which
  no caller does.

## 8. Plan

Done: the registry, its lifecycle, the listener, the credentials, the token exchange, the
query client with its codec and transport, and the delivery of rows, each checked; every
invariant and action property of the passing runs proved, and the refinement of
`AuthLifecycle`.

Next:

1. A composition of `QuerySession` and `ScanDelivery`, in which the rows the cursor counts
   are the rows DuckDB gets.
2. `AuthRegistry` with `LoopbackListener` in the place of its worker's wait.
