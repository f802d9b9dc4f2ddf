---------------------------- MODULE QuerySession ----------------------------
(***************************************************************************)
(* One remote query of QueryApiV3Client: Prepare (submit, poll, metadata), *)
(* the cursor over its result chunks (numbered JSON, numbered Arrow, or    *)
(* the legacy chain of pages), and the DELETE that abandons it.            *)
(*                                                                         *)
(* A request is three actions, because the code reads the clock three      *)
(* times around it: Check (CheckActive), Issue (the timeout is computed)   *)
(* and the answer.  The service is the environment: it may answer any      *)
(* request with any of the responses, which JsonQueryResponseCodec turns   *)
(* into replies.  `sound' stands for the checks that all end in the same   *)
(* failure: a changed schema, a declared row count or row widths that do   *)
(* not fit, numeric metadata without a precision.                          *)
(***************************************************************************)
EXTENDS Integers, Sequences, FiniteSets

CONSTANTS
    QueryIds,        \* safe query ids the service may use
    Pages,           \* positions of chunk paths
    Overall,         \* options.overall_timeout_ms
    RequestTimeout,  \* options.request_timeout_ms
    PollInterval,    \* options.poll_interval_ms
    MaxTime,         \* where the model's clock stops, beyond the overall timeout
    Word,            \* 2^64 in the source: unsigned arithmetic wraps here
    MaxChunks,       \* options.max_chunks
    MaxRows,         \* options.max_rows
    MaxCells,        \* options.max_cells
    MaxColumns,      \* options.max_columns
    MaxBytes,        \* options.max_total_response_bytes
    Sizes            \* the sizes of replies, counted against MaxBytes

ASSUME LimitsAssumption ==
    /\ Overall \in Nat \ {0} /\ RequestTimeout \in Nat \ {0} /\ MaxTime \in Nat
    /\ MaxChunks \in Nat \ {0} /\ MaxRows \in Nat \ {0} /\ MaxCells \in Nat \ {0}
    /\ MaxColumns \in Nat \ {0} /\ MaxBytes \in Nat \ {0} /\ Sizes \subseteq Nat
    /\ PollInterval \in Nat \ {0} /\ PollInterval <= Overall
    /\ Word \in Nat /\ MaxTime < Word /\ Overall < Word

VARIABLES
    stage,     \* the object the caller holds: nothing yet, PreparedQuery, QueryCursor
    req,       \* the request in progress
    step,      \* how far that request is
    now,       \* NowMs() - started_at_ms at the latest reading of the clock
    stopped,   \* RuntimeHooks::IsCancelled
    q,         \* the Session struct
    timeout,   \* HttpRequest::timeout_ms of the latest request
    deletes,   \* DELETE requests sent
    got,       \* the chunks handed to the caller, in order
    last       \* what the caller's latest call did

vars == <<stage, req, step, now, stopped, q, timeout, deletes, got, last>>

Unknown == -1   \* a count the service did not send

-----------------------------------------------------------------------------
(* Replies                                                                   *)

NoUrl == <<>>
BadUrl == <<"unsafe">>
Paths == QueryIds \X Pages
Urls == Paths \cup {NoUrl, BadUrl}

IsSafeChunkPath(url) == url \in Paths
QueryIdFromChunkPath(url) == url[1]

NoId == "none"
BadId == "unsafe"
IsSafeQueryId(id) == id \in QueryIds

ASSUME IdsAssumption == ~IsSafeQueryId(NoId) /\ ~IsSafeQueryId(BadId)

ReplyIds == QueryIds \cup {NoId, BadId}

Counts(limit) == 0..(limit + 1) \cup {Unknown}
Widths == {0, 1, MaxColumns, MaxColumns + 1}

Reply == [state : {"RUNNING", "COMPLETE", "FAILED"}, id : ReplyIds,
          count : Counts(MaxChunks), total : Counts(MaxRows), columns : Widths,
          rows : 0..(MaxRows + 1), next : Urls, sound : BOOLEAN]

\* A response with status 2xx and a JSON object, as far as Decode looks at it: the id in
\* one of its headers, and the members of its body; rows is Unknown without "data".
Plain == [header |-> NoId, completion |-> "none", id |-> NoId, count |-> Unknown,
          total |-> Unknown, columns |-> 0, rows |-> Unknown, next |-> NoUrl, sound |-> TRUE]

HeaderResponse(id, done) == [Plain EXCEPT !.header = id, !.completion = done]
StatusResponse(done, id, count, total) ==
    [Plain EXCEPT !.completion = done, !.id = id, !.count = count, !.total = total]
DataResponse(id, columns, rows, next, sound) ==
    [Plain EXCEPT !.id = id, !.columns = columns, !.rows = rows, !.next = next, !.sound = sound]

Responses ==
    {HeaderResponse(id, done) : id \in ReplyIds, done \in {"none", "FINISHED"}}
    \cup {StatusResponse(done, id, count, total) :
             done \in {"FINISHED", "RUNNING", "OTHER"}, id \in ReplyIds,
             count \in Counts(MaxChunks), total \in Counts(MaxRows)}
    \cup {DataResponse(id, columns, rows, next, sound) :
             id \in {NoId} \cup QueryIds, columns \in Widths, rows \in Counts(MaxRows),
             next \in Urls, sound \in BOOLEAN}

Running(id) ==
    [state |-> "RUNNING", id |-> id, count |-> Unknown, total |-> Unknown, columns |-> 0,
     rows |-> 0, next |-> NoUrl, sound |-> TRUE]

\* Decode throws at a body with neither a status, an id, data nor metadata (and at other
\* statuses and bodies, which RequestFails stands for).
Recognised(h) ==
    h.header # NoId \/ h.completion # "none" \/ h.id # NoId \/ h.rows # Unknown \/ h.columns # 0

State(done) ==
    CASE done = "FINISHED" -> "COMPLETE" [] done = "RUNNING" -> "RUNNING" [] OTHER -> "FAILED"

\* JsonQueryResponseCodec::Decode: an id in a header hides the body, a status hides what
\* comes with it, and a body with an id but no status means that the query is running.
Decode(h) ==
    IF h.header # NoId THEN Running(h.header)
    ELSE IF h.completion # "none"
    THEN [Running(h.id) EXCEPT !.state = State(h.completion), !.count = h.count, !.total = h.total]
    ELSE IF h.id # NoId THEN Running(h.id)
    ELSE [Running(NoId) EXCEPT !.state = "COMPLETE", !.columns = h.columns, !.sound = h.sound,
                               !.rows = IF h.rows = Unknown THEN 0 ELSE h.rows,
                               !.next = IF h.rows = Unknown THEN NoUrl ELSE h.next]

Replies == {Decode(h) : h \in {g \in Responses : Recognised(g)}}

-----------------------------------------------------------------------------
(* The Session struct                                                        *)

\* `buffered' is an optional reply: the empty set or a singleton.
NewSession ==
    [id |-> NoId, mode |-> "none", chunks |-> 0, total |-> Unknown, next |-> 0,
     width |-> 0, buffered |-> {}, url |-> NoUrl, visited |-> {}, fetched |-> 0, rows |-> 0,
     bytes |-> 0, outstanding |-> FALSE, reconciled |-> FALSE, terminal |-> FALSE]

MustDeleteAgain(s) == ~s.reconciled /\ IsSafeQueryId(s.id)

AbortsCleanup(cleanup) == stopped

\* TransferProgress: an interrupt aborts a transfer, except that of a clean-up.
Aborts(cleanup) == stopped /\ ~cleanup

\* Session::Cancel sends the DELETE of a query that is neither over nor unnamed.
MustDelete(s) == ~s.terminal /\ ~s.reconciled /\ IsSafeQueryId(s.id)

Cancel(s) ==
    /\ q' = IF MustDelete(s) THEN [s EXCEPT !.terminal = TRUE] ELSE s
    /\ deletes' = IF MustDelete(s) /\ ~Aborts(TRUE) THEN deletes + 1 ELSE deletes

\* An exception: cancel the remote query and throw.  Prepare's session dies with it.
Throw(s) ==
    /\ Cancel(s)
    /\ last' = "error" /\ req' = "none" /\ step' = "idle"
    /\ stage' = IF stage = "preparing" THEN "closed" ELSE stage
    /\ UNCHANGED got

\* RememberQueryId keeps the first id, even when it then objects to the chunk path.
Named(s, r) ==
    IF IsSafeQueryId(r.id) /\ s.id = NoId THEN [s EXCEPT !.id = r.id]
    ELSE IF r.id = NoId /\ s.id = NoId /\ IsSafeChunkPath(r.next)
         THEN [s EXCEPT !.id = QueryIdFromChunkPath(r.next)]
         ELSE s

SameIdentity(s, r) ==
    /\ r.id # BadId
    /\ r.id # NoId => s.id \in {NoId, r.id}
    /\ IsSafeChunkPath(r.next) => QueryIdFromChunkPath(r.next) = Named(s, r).id

\* What is left of a limit, as the source computes it.
Min(a, b) == IF a <= b THEN a ELSE b
RoomFor(limit, used) == limit - Min(used, limit)

\* The transport refuses a timeout or a limit of 0, and fails a transfer that grows beyond
\* the limit (WriteBody).
Sendable(limit) == timeout > 0 /\ limit > 0
WriteBody(limit, size) == size <= limit

\* Send allows a response what remains of the budget, and counts what it receives.
Fits(s, size) ==
    LET remaining == RoomFor(MaxBytes, s.bytes)
    IN  Sendable(remaining) /\ WriteBody(remaining, size)
Counted(s, size) == [s EXCEPT !.bytes = @ + size]

AcceptsOneRowMore(s, r) ==
    /\ r.state = "COMPLETE" /\ r.columns \in {0, s.width} /\ r.sound
    /\ s.fetched < MaxChunks
    /\ r.rows <= RoomFor(MaxRows, s.rows) + 1

\* Session::Accept
Accepts(s, r) ==
    /\ r.state = "COMPLETE" /\ r.columns \in {0, s.width} /\ r.sound
    /\ s.fetched < MaxChunks
    /\ r.rows <= RoomFor(MaxRows, s.rows)
    /\ r.rows * s.width <= RoomFor(MaxCells, s.rows * s.width)
    /\ s.total # Unknown => r.rows <= RoomFor(s.total, s.rows)

Accepted(s, r) ==
    [s EXCEPT !.rows = @ + r.rows, !.fetched = @ + 1,
              !.url = IF s.mode = "direct" THEN r.next ELSE @]

ReconcilesAnyRows(s) ==
    /\ s.mode = "numbered" => s.fetched = s.chunks
    /\ s.mode = "direct" => s.url = NoUrl

\* Session::Finish reconciles the counts before it reports the end.
Reconciles(s) ==
    /\ s.mode = "numbered" => s.fetched = s.chunks
    /\ s.total # Unknown => s.rows = s.total
    /\ s.mode = "direct" => s.url = NoUrl

Finish(s) ==
    IF Reconciles(s)
    THEN /\ q' = [s EXCEPT !.reconciled = TRUE, !.terminal = TRUE]
         /\ last' = "end" /\ req' = "none" /\ step' = "idle"
         /\ UNCHANGED <<stage, deletes, got>>
    ELSE Throw(s)

-----------------------------------------------------------------------------
(* The clock, read again by every step that looks at it                      *)

Tick == now' \in now..MaxTime
ActiveForever == ~stopped

\* CheckActive
Active == ~stopped /\ now' < Overall

\* A poll first sleeps for the poll interval, unless the statement is interrupted.
Slept ==
    IF req = "poll" /\ ~stopped THEN now' \in Min(now + PollInterval, MaxTime)..MaxTime ELSE Tick

\* The next request of the call in progress.
Request(kind) == req' = kind /\ step' = "check"

-----------------------------------------------------------------------------
(* Requests                                                                  *)

Check ==
    /\ step = "check" /\ Slept
    /\ IF Active THEN step' = "issue" /\ UNCHANGED <<stage, req, q, deletes, got, last>>
       ELSE Throw(q)
    /\ UNCHANGED <<stopped, timeout>>

IssueUnclamped ==
    /\ step = "issue" /\ Tick
    /\ timeout' = (Overall - now') % Word
    /\ step' = "answer"
    /\ UNCHANGED <<stage, req, stopped, q, deletes, got, last>>

\* The timeout is what remains by a second reading of the clock, modulo Word.
Issue ==
    /\ step = "issue" /\ Tick
    /\ timeout' = Min(RequestTimeout, (Overall - now') % Word)
    /\ step' = "answer"
    /\ UNCHANGED <<stage, req, stopped, q, deletes, got, last>>

\* The transport throws (Aborts(FALSE), and what Fits refuses), or the codec does,
\* at an error status or a body it does not recognise.
RequestFails ==
    /\ step = "answer" /\ Tick
    /\ Throw(q)
    /\ UNCHANGED <<stopped, timeout>>

\* Prepare, once a submission or a poll says that the query is complete.
Completed(s, r) ==
    IF r.count # Unknown
    THEN LET n == [s EXCEPT !.mode = "numbered", !.chunks = r.count, !.total = r.total]
         IN  IF IsSafeQueryId(s.id) /\ r.count <= MaxChunks /\ r.total <= MaxRows
             THEN /\ q' = n /\ Request("meta")
                  /\ UNCHANGED <<stage, deletes, got, last>>
             ELSE Throw(n)
    ELSE LET d == [s EXCEPT !.mode = "direct", !.width = r.columns, !.total = r.total,
                            !.buffered = {r}]
         IN  IF r.columns > MaxColumns THEN Throw(d)
             ELSE /\ q' = d /\ stage' = "prepared" /\ req' = "none" /\ step' = "idle"
                  /\ UNCHANGED <<deletes, got, last>>

\* The reply to the submission or to a poll; a running query is polled again.
AnswerStatus(r, size) ==
    /\ req \in {"post", "poll"} /\ step = "answer"
    /\ Fits(q, size) /\ Tick
    /\ LET s == Named(Counted(q, size), r) IN
       IF ~SameIdentity(q, r) \/ ~Active \/ r.state = "FAILED" THEN Throw(s)
       ELSE IF r.state = "COMPLETE" THEN Completed(s, r)
       ELSE IF IsSafeQueryId(s.id)
            THEN q' = s /\ Request("poll") /\ UNCHANGED <<stage, deletes, got, last>>
            ELSE Throw(s)
    /\ UNCHANGED <<stopped, timeout>>

\* The reply to the metadata request: not compared with the query's id or the clock.
AnswerMetadata(r, size) ==
    /\ req = "meta" /\ step = "answer"
    /\ Fits(q, size) /\ Tick
    /\ IF r.state = "COMPLETE" /\ r.columns # 0 /\ r.sound /\ r.columns <= MaxColumns
       THEN /\ q' = [Counted(q, size) EXCEPT !.width = r.columns]
            /\ stage' = "prepared" /\ req' = "none" /\ step' = "idle"
            /\ UNCHANGED <<deletes, got, last>>
       ELSE Throw(Counted(q, size))
    /\ UNCHANGED <<stopped, timeout>>

\* The chunk that the request in progress, or the buffered reply, is about.
ChunkKey(s) == IF s.mode = "numbered" THEN s.next - 1 ELSE s.url

TakeChunk(s, r, key) ==
    IF SameIdentity(s, r) /\ Active /\ Accepts(Named(s, r), r)
    THEN /\ q' = Accepted(Named(s, r), r)
         /\ got' = Append(got, key)
         /\ last' = "chunk" /\ req' = "none" /\ step' = "idle"
         /\ UNCHANGED <<stage, deletes>>
    ELSE Throw(Named(s, r))

AnswerChunk(r, size) ==
    /\ req \in {"json", "page"} /\ step = "answer"
    /\ Fits(q, size) /\ Tick
    /\ TakeChunk(Counted(q, size), r, ChunkKey(q))
    /\ UNCHANGED <<stopped, timeout>>

AnswerArrow(size) ==
    /\ req = "arrow" /\ step = "answer"
    /\ Fits(q, size) /\ Tick
    /\ IF Active
       THEN /\ q' = [Counted(q, size) EXCEPT !.outstanding = TRUE]
            /\ req' = "none" /\ step' = "idle"
            /\ UNCHANGED <<stage, deletes, got, last>>
       ELSE Throw(Counted(q, size))
    /\ UNCHANGED <<stopped, timeout>>

-----------------------------------------------------------------------------
(* The caller                                                                *)

\* Prepare and ExecuteMetadata; the caller's own cancellation comes first.
Prepare ==
    /\ stage = "new"
    /\ IF stopped THEN /\ stage' = "closed" /\ last' = "error"
                       /\ UNCHANGED <<req, step, q>>
       ELSE /\ stage' = "preparing" /\ q' = NewSession /\ Request("post")
            /\ UNCHANGED last
    /\ UNCHANGED <<now, stopped, timeout, deletes, got>>

\* Bind refuses a query without metadata, and init one whose metadata are not bind's, so
\* that the table function opens no cursor without columns.
HasColumns == q.width > 0

OpenCursor ==
    /\ stage = "prepared" /\ HasColumns
    /\ stage' = "cursor"
    /\ UNCHANGED <<req, step, now, stopped, q, timeout, deletes, got, last>>

\* A cursor that is idle, not reconciled and not terminal, in the hands of a caller
\* that has seen no exception: Execute, FillDataChunk and ArrowScanSource all give up
\* at the first one.
Usable ==
    /\ stage = "cursor" /\ req = "none" /\ last # "error"
    /\ ~q.outstanding /\ ~q.reconciled /\ ~q.terminal

\* NextChunk on a numbered result counts the chunk before it asks for it.
NextNumbered ==
    /\ Usable /\ q.mode = "numbered"
    /\ IF q.next >= q.chunks THEN Finish(q)
       ELSE /\ q' = [q EXCEPT !.next = @ + 1] /\ Request("json")
            /\ UNCHANGED <<stage, deletes, got, last>>
    /\ UNCHANGED <<now, stopped, timeout>>

\* NextChunk takes the first page from the reply that Prepare kept ...
NextBuffered ==
    /\ Usable /\ q.mode = "direct" /\ Tick
    /\ \E r \in q.buffered : TakeChunk([q EXCEPT !.buffered = {}], r, NoUrl)
    /\ UNCHANGED <<stopped, timeout>>

NextPageRevisits ==
    /\ Usable /\ q.mode = "direct" /\ q.buffered = {}
    /\ IF q.url = NoUrl THEN Finish(q)
       ELSE IF ~IsSafeChunkPath(q.url) THEN Throw(q)
       ELSE /\ q' = [q EXCEPT !.visited = @ \cup {q.url},
                              !.id = IF @ = NoId THEN QueryIdFromChunkPath(q.url) ELSE @]
            /\ Request("page")
            /\ UNCHANGED <<stage, deletes, got, last>>
    /\ UNCHANGED <<now, stopped, timeout>>

\* ... and then follows the chain, never twice to the same page.
NextPage ==
    /\ Usable /\ q.mode = "direct" /\ q.buffered = {}
    /\ IF q.url = NoUrl THEN Finish(q)
       ELSE IF ~IsSafeChunkPath(q.url) \/ q.url \in q.visited THEN Throw(q)
       ELSE /\ q' = [q EXCEPT !.visited = @ \cup {q.url},
                              !.id = IF @ = NoId THEN QueryIdFromChunkPath(q.url) ELSE @]
            /\ Request("page")
            /\ UNCHANGED <<stage, deletes, got, last>>
    /\ UNCHANGED <<now, stopped, timeout>>

\* NextArrowChunk leaves the chunk index alone: ReportArrowChunk moves it.
NextArrow ==
    /\ Usable /\ q.mode = "numbered"
    /\ Tick
    /\ IF ~Active THEN Throw(q)
       ELSE IF q.next >= q.chunks THEN Finish(q)
       ELSE Request("arrow") /\ UNCHANGED <<stage, q, deletes, got, last>>
    /\ UNCHANGED <<stopped, timeout>>

ReportArrow(rows) ==
    /\ stage = "cursor" /\ q.outstanding /\ last # "error"
    /\ Tick
    /\ IF /\ Active
          /\ rows <= RoomFor(MaxRows, q.rows)
          /\ q.width # 0 => rows <= RoomFor(MaxCells, q.rows * q.width) \div q.width
          /\ q.total # Unknown => rows <= RoomFor(q.total, q.rows)
       THEN /\ q' = [q EXCEPT !.rows = @ + rows, !.fetched = @ + 1, !.next = @ + 1,
                              !.outstanding = FALSE]
            /\ got' = Append(got, q.next) /\ last' = "chunk"
            /\ UNCHANGED <<stage, req, step, deletes>>
       ELSE Throw(q)
    /\ UNCHANGED <<stopped, timeout>>

\* The caller drops what it holds: ~Session cancels what is not over.
Drop ==
    /\ stage \in {"prepared", "cursor"} /\ req = "none"
    /\ Cancel(q)
    /\ stage' = "closed"
    /\ UNCHANGED <<req, step, now, stopped, timeout, got, last>>

\* The user interrupts the statement.
Stop ==
    /\ ~stopped /\ stage # "closed"
    /\ stopped' = TRUE
    /\ UNCHANGED <<stage, req, step, now, q, timeout, deletes, got, last>>

Closed == stage = "closed" /\ UNCHANGED vars

-----------------------------------------------------------------------------
Init ==
    /\ stage = "new" /\ req = "none" /\ step = "idle"
    /\ now = 0 /\ stopped = FALSE
    /\ q = NewSession /\ timeout = 0 /\ deletes = 0
    /\ got = <<>> /\ last = "none"

\* The guards of the actions come first: there are many replies to choose from.
Answer ==
    /\ step = "answer"
    /\ \/ RequestFails
       \/ /\ req \in {"post", "poll"}
          /\ \E r \in Replies, size \in Sizes : AnswerStatus(r, size)
       \/ req = "meta" /\ \E r \in Replies, size \in Sizes : AnswerMetadata(r, size)
       \/ req \in {"json", "page"} /\ \E r \in Replies, size \in Sizes : AnswerChunk(r, size)
       \/ \E size \in Sizes : AnswerArrow(size)

NextCall == NextNumbered \/ NextBuffered \/ NextPage \/ NextArrow

Next ==
    \/ Prepare \/ Check \/ Issue \/ Answer
    \/ OpenCursor \/ NextCall \/ Drop \/ Stop \/ Closed
    \/ \E rows \in 0..(MaxRows + 1) : ReportArrow(rows)

Spec == Init /\ [][Next]_vars

\* The client goes on with what it has begun, and requests end: the transport enforces
\* their timeout.  When to call and when to give up is the caller's choice.
Fairness == WF_vars(Check) /\ WF_vars(Issue) /\ WF_vars(Answer)

FairSpec == Spec /\ Fairness

-----------------------------------------------------------------------------
(* Properties                                                                *)

\* Every variable has its type (the Session struct, the request, the caller's view).
TypeOK ==
    /\ stage \in {"new", "preparing", "prepared", "cursor", "closed"}
    /\ req \in {"none", "post", "poll", "meta", "json", "page", "arrow"}
    /\ step \in {"idle", "check", "issue", "answer"}
    /\ now \in 0..MaxTime /\ stopped \in BOOLEAN /\ timeout \in 0..RequestTimeout
    /\ deletes \in Nat
    /\ got \in IF q.mode = "direct" THEN Seq(Urls) ELSE Seq(Nat)
    /\ last \in {"none", "chunk", "end", "error"}
    /\ q \in [id : QueryIds \cup {NoId}, mode : {"none", "numbered", "direct"},
              chunks : Nat, total : Nat \cup {Unknown}, next : Nat,
              width : Widths, buffered : SUBSET Reply, url : Urls, visited : SUBSET Paths,
              fetched : Nat, rows : Nat, bytes : Nat,
              outstanding : BOOLEAN, reconciled : BOOLEAN, terminal : BOOLEAN]

\* A query is deleted at most once, and no request of its session follows the DELETE.
DeleteIsLast == deletes <= 1 /\ (deletes = 1 => req = "none" /\ q.terminal)

\* When the caller has let go of a query whose id it learnt, that query was either read
\* to its reconciled end or deleted, never both, although the interrupt that makes the
\* caller give up also aborts transfers.
RemoteReleased ==
    stage = "closed" /\ IsSafeQueryId(q.id) => (q.reconciled <=> deletes = 0)

\* The caller has been given distinct chunks: the numbered ones in their order without a
\* gap, the pages along a chain that closes on no page already given.
ChunksInOrder ==
    /\ q.mode = "numbered" => \A i \in 1..Len(got) : got[i] = i - 1
    /\ q.mode = "direct" => \A i, j \in 1..Len(got) : got[i] = got[j] => i = j

\* The cursor reports the end only of a result that is whole: as many chunks and rows as
\* the service announced, or a chain of pages from the first to one without a successor;
\* never of a completed status that came without a chunk count, which names no columns.
EndIsComplete ==
    last = "end" =>
        /\ q.width > 0
        /\ q.mode = "numbered" => Len(got) = q.chunks
        /\ q.mode = "direct" => got # <<>> /\ got[1] = NoUrl /\ q.url = NoUrl
        /\ q.total # Unknown => q.rows = q.total

\* No sequence of replies makes the client hold or count more than its limits.
WithinLimits ==
    /\ q.rows <= MaxRows /\ q.rows * q.width <= MaxCells
    /\ stage \in {"prepared", "cursor"} => q.width <= MaxColumns
    /\ q.fetched <= MaxChunks /\ Len(got) <= MaxChunks /\ q.bytes <= MaxBytes

\* The overall timeout bounds the query: no request may still be running after it.
DeadlineBoundsRequests == step = "answer" => now + timeout <= Overall

\* Every call on the client returns: polling ends, whatever the service answers.
CallsEnd == (req # "none") ~> (req = "none")
=============================================================================
