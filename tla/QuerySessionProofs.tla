------------------------- MODULE QuerySessionProofs -------------------------
(***************************************************************************)
(* Proofs about QuerySession: for any service, any query ids and pages,    *)
(* and every value of the limits and timeouts that its assumptions allow.  *)
(***************************************************************************)
EXTENDS QuerySession, TLAPS

-----------------------------------------------------------------------------
(* The inductive invariant                                                   *)

\* The Session struct, as TypeOK has it.
SessionType ==
    [id : QueryIds \cup {NoId}, mode : {"none", "numbered", "direct"},
     chunks : Nat, total : Nat \cup {Unknown}, next : Nat,
     width : Widths, buffered : SUBSET Reply, url : Urls, visited : SUBSET Paths,
     fetched : Nat, rows : Nat, bytes : Nat,
     outstanding : BOOLEAN, reconciled : BOOLEAN, terminal : BOOLEAN]

\* Where the caller, its request and the session's mode can be together.
Phases ==
    /\ req = "none" <=> step = "idle"
    /\ stage = "preparing" <=> req \in {"post", "poll", "meta"}
    /\ req \in {"json", "page", "arrow"} => stage = "cursor"
    /\ req \in {"post", "poll"} => q.mode = "none"
    /\ req \in {"meta", "json", "arrow"} => q.mode = "numbered"
    /\ req = "page" => q.mode = "direct"
    /\ stage \in {"prepared", "cursor"} => q.mode # "none"
    /\ req # "none" => last \notin {"error", "end"}

\* Until there is a cursor nothing is counted or delivered.
Untouched ==
    /\ stage = "new" => q = NewSession
    /\ stage \in {"new", "preparing", "prepared"} =>
          /\ last = "none" /\ got = <<>>
          /\ q.fetched = 0 /\ q.rows = 0 /\ q.next = 0 /\ ~q.outstanding

\* A session is over in one of three ways, and the DELETE is that of the second: read to
\* its end, deleted, or gone without an id to delete.
Released ==
    /\ deletes = IF q.terminal /\ ~q.reconciled THEN 1 ELSE 0
    /\ q.reconciled <=> last = "end"
    /\ q.reconciled => q.terminal
    /\ q.terminal => req = "none" /\ (stage = "closed" \/ last \in {"error", "end"})
    /\ stage = "closed" => q.terminal \/ ~IsSafeQueryId(q.id)

\* A chunk is counted when it is delivered; the index runs one ahead while NextChunk asks
\* for a numbered chunk, and stays there when that fails.
Counting ==
    /\ Len(got) = q.fetched
    /\ q.mode = "numbered" /\ last # "error" =>
          q.next = IF req = "json" THEN Len(got) + 1 ELSE Len(got)

\* Only a chunk that exists is asked for as Arrow, and only then is a report expected.
Outstanding ==
    /\ req = "arrow" => q.next < q.chunks
    /\ q.outstanding => last # "end"
    /\ q.outstanding /\ last # "error" =>
          q.mode = "numbered" /\ req = "none" /\ q.next < q.chunks

\* The chain of pages: the first is the buffered reply, the others were visited, and the
\* page that is being fetched has not been given.
Chained ==
    q.mode = "direct" =>
        /\ got # <<>> => got[1] = NoUrl
        /\ \A i \in 2..Len(got) : got[i] \in q.visited
        /\ q.buffered # {} => got = <<>> /\ req = "none"
        /\ stage = "prepared" => q.buffered # {}
        /\ stage = "cursor" /\ last # "error" => q.buffered # {} \/ got # <<>>
        /\ req = "page" =>
              q.buffered = {} /\ q.url \in q.visited /\ \A i \in 1..Len(got) : got[i] # q.url

\* What Prepare has checked before there is a cursor.
Prepared ==
    /\ (req = "meta" \/ stage \in {"prepared", "cursor"}) /\ q.mode = "numbered" =>
          q.chunks <= MaxChunks
    /\ stage = "cursor" => q.width > 0
    /\ last = "end" => stage \in {"cursor", "closed"}

QueryInv ==
    /\ TypeOK /\ Phases /\ Untouched /\ Released /\ Counting /\ Outstanding /\ Chained
    /\ Prepared /\ ChunksInOrder /\ EndIsComplete /\ WithinLimits

-----------------------------------------------------------------------------
(* Arithmetic of the limits                                                  *)

\* What RoomFor leaves, added to what is used, stays within the limit.
LEMMA RoomIsLeft ==
    ASSUME NEW limit \in Nat, NEW used \in Nat, used <= limit
    PROVE  /\ RoomFor(limit, used) \in Nat
           /\ used + RoomFor(limit, used) = limit
BY DEF RoomFor, Min

\* Accept counts the cells of a chunk, and the session those of all of them.
LEMMA CellsAdd ==
    ASSUME NEW a \in Nat, NEW b \in Nat, NEW w \in Nat
    PROVE  /\ (a + b) * w = a * w + b * w
           /\ a * w \in Nat /\ b * w \in Nat
BY SMT

\* ReportArrowChunk divides the cells that are left by the width instead.
LEMMA CellsDivide ==
    ASSUME NEW rows \in Nat, NEW room \in Nat, NEW w \in Nat \ {0}, rows <= room \div w
    PROVE  rows * w <= room
<1>1. /\ room \div w \in Nat
      /\ w * (room \div w) <= room
  BY SMT
<1>2. \A a, b \in Nat : a <= b => w * a <= w * b
  BY SMT
<1> QED
  BY <1>1, <1>2, SMT

\* The time that is left is computed in unsigned arithmetic and then clamped.
LEMMA TimeoutBounded ==
    ASSUME NEW left \in Int
    PROVE  Min(RequestTimeout, left % Word) \in 0..RequestTimeout
<1>1. left % Word \in 0..(Word - 1)
  BY LimitsAssumption, SMT
<1> QED
  BY <1>1, LimitsAssumption DEF Min

-----------------------------------------------------------------------------
(* Replies and sessions                                                      *)

\* Whatever the service answers, Decode makes a reply of it.
LEMMA DecodedReplies == \A r \in Replies : r \in Reply
<1> SUFFICES ASSUME NEW h \in Responses PROVE Decode(h) \in Reply
  BY DEF Replies
<1>1. /\ h.header \in ReplyIds /\ h.id \in ReplyIds
      /\ h.count \in Counts(MaxChunks) /\ h.total \in Counts(MaxRows)
      /\ h.columns \in Widths /\ h.rows \in Counts(MaxRows) /\ h.next \in Urls
      /\ h.sound \in BOOLEAN
  <2> DEFINE Typed(g) ==
        /\ g.header \in ReplyIds /\ g.id \in ReplyIds
        /\ g.count \in Counts(MaxChunks) /\ g.total \in Counts(MaxRows)
        /\ g.columns \in Widths /\ g.rows \in Counts(MaxRows) /\ g.next \in Urls
        /\ g.sound \in BOOLEAN
  <2>0. /\ NoId \in ReplyIds /\ Unknown \in Counts(MaxChunks) /\ Unknown \in Counts(MaxRows)
        /\ 0 \in Widths /\ NoUrl \in Urls /\ {NoId} \cup QueryIds \subseteq ReplyIds
    BY DEF ReplyIds, Counts, Widths, Urls, Unknown
  <2>1. \A id \in ReplyIds, done \in {"none", "FINISHED"} : Typed(HeaderResponse(id, done))
    BY <2>0 DEF Plain, HeaderResponse
  <2>2. \A done \in {"FINISHED", "RUNNING", "OTHER"}, id \in ReplyIds,
           count \in Counts(MaxChunks), total \in Counts(MaxRows) :
           Typed(StatusResponse(done, id, count, total))
    BY <2>0 DEF Plain, StatusResponse
  <2>3. \A id \in {NoId} \cup QueryIds, columns \in Widths, rows \in Counts(MaxRows),
           next \in Urls, sound \in BOOLEAN :
           Typed(DataResponse(id, columns, rows, next, sound))
    BY <2>0 DEF Plain, DataResponse
  <2> HIDE DEF Typed
  <2>4. Typed(h)
    BY <2>1, <2>2, <2>3 DEF Responses
  <2> QED
    BY <2>4 DEF Typed
<1>2. \A id \in ReplyIds : Running(id) \in Reply
  BY LimitsAssumption DEF Running, Reply, Counts, Widths, Urls, Unknown
<1>3. NoId \in ReplyIds /\ \A done : State(done) \in {"RUNNING", "COMPLETE", "FAILED"}
  BY DEF ReplyIds, State
<1>4. CASE h.header # NoId
  BY <1>1, <1>2, <1>4 DEF Decode
<1>5. CASE h.header = NoId /\ h.completion # "none"
  <2>1. Decode(h) = [Running(h.id) EXCEPT !.state = State(h.completion), !.count = h.count,
                                          !.total = h.total]
    BY <1>5 DEF Decode
  <2> QED
    BY <2>1, <1>1, <1>2, <1>3 DEF Reply
<1>6. CASE h.header = NoId /\ h.completion = "none" /\ h.id # NoId
  BY <1>1, <1>2, <1>6 DEF Decode
<1>7. CASE h.header = NoId /\ h.completion = "none" /\ h.id = NoId
  <2>1. h.rows # Unknown => h.rows \in 0..(MaxRows + 1)
    BY <1>1 DEF Counts
  <2>2. NoUrl \in Urls /\ 0 \in 0..(MaxRows + 1)
    BY LimitsAssumption DEF Urls
  <2>3. Decode(h) = [Running(NoId) EXCEPT !.state = "COMPLETE", !.columns = h.columns,
                          !.sound = h.sound,
                          !.rows = IF h.rows = Unknown THEN 0 ELSE h.rows,
                          !.next = IF h.rows = Unknown THEN NoUrl ELSE h.next]
    BY <1>7 DEF Decode
  <2> QED
    BY <2>1, <2>2, <2>3, <1>1, <1>2, <1>3 DEF Reply
<1> QED
  BY <1>4, <1>5, <1>6, <1>7

\* A chunk path is neither of the two URLs that lead nowhere.
LEMMA PathsLead == NoUrl \notin Paths /\ BadUrl \notin Paths
BY DEF NoUrl, BadUrl, Paths

\* Naming a session after a reply changes its id at most.
LEMMA NamingKeeps ==
    ASSUME NEW s \in SessionType, NEW r \in Reply
    PROVE  /\ Named(s, r) \in SessionType
           /\ Named(s, r) = [s EXCEPT !.id = Named(s, r).id]
           /\ IsSafeQueryId(s.id) => Named(s, r).id = s.id
<1>1. IsSafeChunkPath(r.next) => QueryIdFromChunkPath(r.next) \in QueryIds
  BY DEF IsSafeChunkPath, QueryIdFromChunkPath, Paths
<1>2. s = [s EXCEPT !.id = s.id]
  BY DEF SessionType
<1>3. \A id \in QueryIds : [s EXCEPT !.id = id] \in SessionType /\ [s EXCEPT !.id = id].id = id
  BY DEF SessionType
<1>4. IsSafeQueryId(s.id) => s.id # NoId
  BY IdsAssumption
<1> QED
  BY <1>1, <1>2, <1>3, <1>4 DEF Named, IsSafeQueryId

-----------------------------------------------------------------------------
(* The ends of a call, wherever it ends                                      *)

\* What the call in progress may have made of the session when it throws: everything up
\* to the cursor, afterwards only its id, byte count, index, URL and buffer.
Midway(s) ==
    /\ s \in SessionType /\ ~s.terminal /\ ~s.reconciled
    /\ s.fetched = q.fetched /\ s.rows = q.rows /\ s.visited = q.visited
    /\ s.bytes <= MaxBytes
    /\ s.mode = "direct" /\ s.buffered # {} => got = <<>>
    /\ \/ stage = "preparing"
       \/ /\ stage = "cursor"
          /\ s.mode = q.mode /\ s.width = q.width /\ s.chunks = q.chunks
          /\ s.total = q.total

\* The fields that Cancel leaves alone.
SameButTerminal(t, s) ==
    /\ t.id = s.id /\ t.mode = s.mode /\ t.chunks = s.chunks /\ t.total = s.total
    /\ t.next = s.next /\ t.width = s.width /\ t.buffered = s.buffered /\ t.url = s.url
    /\ t.visited = s.visited /\ t.fetched = s.fetched /\ t.rows = s.rows /\ t.bytes = s.bytes
    /\ t.outstanding = s.outstanding /\ t.reconciled = s.reconciled

\* A clean-up is not aborted, so that Cancel sends exactly one DELETE if it is due.
LEMMA CancelSends ==
    ASSUME NEW s \in SessionType, Cancel(s)
    PROVE  /\ q' \in SessionType /\ SameButTerminal(q', s)
           /\ q'.terminal <=> s.terminal \/ MustDelete(s)
           /\ deletes' = IF MustDelete(s) THEN deletes + 1 ELSE deletes
<1>1. CASE MustDelete(s)
  BY <1>1 DEF Cancel, Aborts, SessionType, SameButTerminal
<1>2. CASE ~MustDelete(s)
  BY <1>2 DEF Cancel, SameButTerminal
<1> QED
  BY <1>1, <1>2

\* An exception leaves the caller with a session that is over or has no id.
LEMMA ThrowKeeps ==
    ASSUME QueryInv, NEW s, Midway(s), Throw(s), last \notin {"error", "end"},
           now' \in 0..MaxTime, UNCHANGED <<stopped, timeout>>
    PROVE  QueryInv'
<1> DEFINE t == q'
<1>1. /\ q \in SessionType /\ s \in SessionType /\ t \in SessionType
      /\ SameButTerminal(t, s)
      /\ t.terminal <=> MustDelete(s)
      /\ deletes' = IF MustDelete(s) THEN deletes + 1 ELSE deletes
  BY CancelSends DEF Midway, Throw, QueryInv, TypeOK, SessionType
<1>2. /\ last' = "error" /\ req' = "none" /\ step' = "idle" /\ got' = got
      /\ stage' = IF stage = "preparing" THEN "closed" ELSE stage
      /\ stage \in {"preparing", "cursor"} /\ stage' \in {"closed", "cursor"}
  BY DEF Throw, Midway
<1>3. /\ t.fetched = q.fetched /\ t.rows = q.rows /\ t.visited = q.visited
      /\ t.bytes <= MaxBytes /\ ~t.reconciled
      /\ t.mode = "direct" /\ t.buffered # {} => got = <<>>
      /\ stage = "preparing" => got = <<>> /\ t.rows = 0 /\ t.fetched = 0
      /\ stage = "cursor" => t.mode = q.mode /\ t.width = q.width /\ t.chunks = q.chunks
  BY <1>1 DEF Midway, SameButTerminal, QueryInv, Untouched
<1>4. deletes = 0
  BY <1>2 DEF QueryInv, Released
<1> HIDE DEF t
<1>5. TypeOK'
  <2>1. got' \in IF t.mode = "direct" THEN Seq(Urls) ELSE Seq(Nat)
    <3>1. <<>> \in Seq(Urls) /\ <<>> \in Seq(Nat)
      OBVIOUS
    <3> QED
      BY <1>2, <1>3, <3>1 DEF QueryInv, TypeOK
  <2>2. deletes' \in Nat
    BY <1>1, <1>4
  <2>3. stopped' \in BOOLEAN /\ timeout' \in 0..RequestTimeout
    BY DEF QueryInv, TypeOK
  <2>4. /\ stage' \in {"new", "preparing", "prepared", "cursor", "closed"}
        /\ req' = "none" /\ step' = "idle" /\ last' = "error"
    BY <1>2
  <2>5. q' \in SessionType /\ got' \in IF q'.mode = "direct" THEN Seq(Urls) ELSE Seq(Nat)
    BY <1>1, <2>1 DEF t
  <2> QED
    BY <2>2, <2>3, <2>4, <2>5, Zenon DEF TypeOK, SessionType
<1>6. Phases' /\ Untouched' /\ Outstanding'
  BY <1>1, <1>2, <1>3 DEF t, QueryInv, Phases, Untouched, Outstanding
<1>7. Released'
  <2>1. t.terminal \/ ~IsSafeQueryId(t.id)
    BY <1>1 DEF MustDelete, Midway, SameButTerminal
  <2> QED
    BY <1>1, <1>2, <1>3, <1>4, <2>1 DEF t, Released, IsSafeQueryId
<1>8. Counting' /\ Prepared'
  BY <1>2, <1>3 DEF t, QueryInv, Counting, Prepared
<1>9. Chained' /\ ChunksInOrder'
  BY <1>2, <1>3 DEF t, QueryInv, Chained, ChunksInOrder
<1>10. EndIsComplete' /\ WithinLimits'
  <2>1. t.rows * t.width <= MaxCells
    <3>1. CASE stage = "preparing"
      <4>1. t.width \in Nat
        BY <1>1, LimitsAssumption DEF SessionType, Widths
      <4> QED
        BY <1>3, <3>1, <4>1, CellsAdd, LimitsAssumption
    <3>2. CASE stage = "cursor"
      BY <1>3, <3>2 DEF QueryInv, WithinLimits
    <3> QED
      BY <1>2, <3>1, <3>2
  <2> QED
    BY <1>2, <1>3, <2>1 DEF t, QueryInv, EndIsComplete, WithinLimits
<1> QED
  BY <1>5, <1>6, <1>7, <1>8, <1>9, <1>10 DEF QueryInv

\* The session that a call in progress works on is neither over nor deleted.
LEMMA Underway ==
    ASSUME QueryInv, stage \in {"preparing", "cursor"}, last \notin {"error", "end"}
    PROVE  Midway(q) /\ deletes = 0
BY DEF QueryInv, TypeOK, SessionType, Released, Chained, Untouched, WithinLimits, Midway

\* A response that fits the budget keeps the count of bytes within it.
LEMMA CountedMidway ==
    ASSUME Midway(q), NEW size \in Sizes, Fits(q, size)
    PROVE  Midway(Counted(q, size)) /\ Counted(q, size).bytes = q.bytes + size
<1>1. size \in Nat /\ MaxBytes \in Nat /\ q.bytes \in Nat /\ q.bytes <= MaxBytes
  BY LimitsAssumption DEF Midway, SessionType
<1>2. q.bytes + size <= MaxBytes
  <2> DEFINE room == RoomFor(MaxBytes, q.bytes)
  <2>1. room \in Nat /\ q.bytes + room = MaxBytes
    BY <1>1, RoomIsLeft
  <2>2. size <= room
    BY DEF Fits, WriteBody
  <2> HIDE DEF room
  <2> QED
    BY <1>1, <2>1, <2>2
<1>3. Counted(q, size) = [q EXCEPT !.bytes = q.bytes + size]
  BY DEF Counted
<1>4. Counted(q, size) \in SessionType
  BY <1>1, <1>3 DEF Midway, SessionType
<1> QED
  BY <1>1, <1>2, <1>3, <1>4 DEF Midway, SessionType

\* A reply may name the session.
LEMMA NamedMidway ==
    ASSUME NEW s, Midway(s), NEW r \in Reply
    PROVE  Midway(Named(s, r))
<1>1. s \in SessionType
  BY DEF Midway
<1>2. /\ Named(s, r) \in SessionType
      /\ Named(s, r) = [s EXCEPT !.id = Named(s, r).id]
  BY <1>1, NamingKeeps
<1> QED
  BY <1>1, <1>2 DEF Midway, SessionType

\* The end of the result: reconciled and over, or an exception.
LEMMA FinishKeeps ==
    ASSUME QueryInv, Usable, q.mode \in {"numbered", "direct"},
           q.mode = "direct" => q.buffered = {},
           Finish(q), now' \in 0..MaxTime, UNCHANGED <<stopped, timeout>>
    PROVE  QueryInv'
<1>1. stage = "cursor" /\ last \notin {"error", "end"} /\ Midway(q) /\ deletes = 0
  BY Underway DEF Usable, QueryInv, Released
<1>2. CASE ~Reconciles(q)
  BY <1>1, <1>2, ThrowKeeps DEF Finish
<1>3. CASE Reconciles(q)
  <2>1. /\ q' = [q EXCEPT !.reconciled = TRUE, !.terminal = TRUE]
        /\ last' = "end" /\ req' = "none" /\ step' = "idle"
        /\ stage' = stage /\ deletes' = deletes /\ got' = got
    BY <1>3 DEF Finish
  <2>2. q \in SessionType /\ q' \in SessionType
    BY <2>1 DEF QueryInv, TypeOK, SessionType
  <2>3. q'.reconciled /\ q'.terminal
    BY <2>1, <2>2 DEF SessionType
  <2>4. /\ q'.id = q.id /\ q'.mode = q.mode /\ q'.chunks = q.chunks /\ q'.total = q.total
        /\ q'.next = q.next /\ q'.width = q.width /\ q'.buffered = q.buffered
        /\ q'.url = q.url /\ q'.visited = q.visited /\ q'.fetched = q.fetched
        /\ q'.rows = q.rows /\ q'.bytes = q.bytes /\ q'.outstanding = q.outstanding
    BY <2>1, <2>2 DEF SessionType
  <2>5. TypeOK'
    BY <2>1, <2>2, <2>4 DEF QueryInv, TypeOK, SessionType
  <2>6. Phases' /\ Untouched' /\ Outstanding'
    BY <1>1, <2>1, <2>4 DEF Usable, QueryInv, Phases, Untouched, Outstanding
  <2>7. Released' /\ Counting' /\ Prepared'
    BY <1>1, <2>1, <2>3, <2>4 DEF Usable, QueryInv, Released, Counting, Prepared
  <2>8. Chained' /\ ChunksInOrder' /\ WithinLimits'
    BY <1>1, <2>1, <2>4 DEF Usable, QueryInv, Chained, ChunksInOrder, WithinLimits
  <2>9. EndIsComplete'
    BY <1>1, <1>3, <2>1, <2>4
       DEF EndIsComplete, Reconciles, QueryInv, Prepared, Counting, Chained, TypeOK
  <2> QED
    BY <2>5, <2>6, <2>7, <2>8, <2>9 DEF QueryInv
<1> QED
  BY <1>2, <1>3

\* What Accept lets through stays within the limits on rows and cells.
LEMMA AcceptedFits ==
    ASSUME NEW s \in SessionType, NEW r \in Reply, Accepts(s, r),
           s.rows <= MaxRows, s.rows * s.width <= MaxCells
    PROVE  /\ s.rows + r.rows <= MaxRows
           /\ (s.rows + r.rows) * s.width <= MaxCells
           /\ s.fetched + 1 <= MaxChunks
<1>1. /\ s.rows \in Nat /\ s.width \in Nat /\ s.fetched \in Nat /\ r.rows \in Nat
      /\ MaxRows \in Nat /\ MaxCells \in Nat /\ MaxChunks \in Nat
  BY LimitsAssumption DEF SessionType, Reply, Widths
<1>2. s.rows + r.rows <= MaxRows
  <2>1. RoomFor(MaxRows, s.rows) \in Nat /\ s.rows + RoomFor(MaxRows, s.rows) = MaxRows
    BY <1>1, RoomIsLeft
  <2>2. r.rows <= RoomFor(MaxRows, s.rows)
    BY DEF Accepts
  <2> QED
    BY <1>1, <2>1, <2>2
<1>3. (s.rows + r.rows) * s.width <= MaxCells
  <2> DEFINE used == s.rows * s.width
             more == r.rows * s.width
  <2>1. used \in Nat /\ more \in Nat /\ (s.rows + r.rows) * s.width = used + more
    BY <1>1, CellsAdd
  <2>2. more <= RoomFor(MaxCells, used)
    BY DEF Accepts
  <2>3. used <= MaxCells
    OBVIOUS
  <2> HIDE DEF used, more
  <2>4. RoomFor(MaxCells, used) \in Nat /\ used + RoomFor(MaxCells, used) = MaxCells
    BY <1>1, <2>1, <2>3, RoomIsLeft
  <2> QED
    BY <1>1, <2>1, <2>2, <2>4
<1> QED
  BY <1>1, <1>2, <1>3 DEF Accepts

\* What is delivered: the next numbered chunk, the first page, or a page never given.
NewKey(key) ==
    /\ q.mode = "numbered" => key = Len(got)
    /\ q.mode = "direct" =>
          IF got = <<>> THEN key = NoUrl
          ELSE key \in q.visited /\ \A i \in 1..Len(got) : got[i] # key

\* A chunk is delivered at the end of what was delivered before.
LEMMA DeliveryKeepsOrder ==
    ASSUME TypeOK, ChunksInOrder, NEW key, NewKey(key),
           q.mode \in {"numbered", "direct"}, got' = Append(got, key), q'.mode = q.mode
    PROVE  /\ got' \in IF q'.mode = "direct" THEN Seq(Urls) ELSE Seq(Nat)
           /\ Len(got') = Len(got) + 1 /\ got' # <<>>
           /\ got'[Len(got) + 1] = key /\ \A i \in 1..Len(got) : got'[i] = got[i]
           /\ ChunksInOrder'
<1>1. CASE q.mode = "numbered"
  <2>1. got \in Seq(Nat) /\ key = Len(got) /\ key \in Nat
    BY <1>1 DEF TypeOK, NewKey
  <2>2. /\ got' \in Seq(Nat) /\ Len(got') = Len(got) + 1
        /\ got'[Len(got) + 1] = key /\ \A i \in 1..Len(got) : got'[i] = got[i]
    BY <2>1
  <2>3. \A i \in 1..Len(got) : got[i] = i - 1
    BY <1>1 DEF ChunksInOrder
  <2>4. \A i \in 1..Len(got') : got'[i] = i - 1
    BY <2>1, <2>2, <2>3
  <2> QED
    BY <1>1, <2>1, <2>2, <2>4 DEF ChunksInOrder
<1>2. CASE q.mode = "direct"
  <2>1. got \in Seq(Urls) /\ key \in Urls
    <3>1. q.visited \subseteq Urls /\ NoUrl \in Urls
      BY DEF TypeOK, Urls
    <3> QED
      BY <1>2, <3>1 DEF TypeOK, NewKey
  <2>2. /\ got' \in Seq(Urls) /\ Len(got') = Len(got) + 1 /\ Len(got) \in Nat
        /\ got'[Len(got) + 1] = key /\ \A i \in 1..Len(got) : got'[i] = got[i]
    BY <2>1
  <2>3. \A i \in 1..Len(got) : got[i] # key
    BY <1>2, <2>1 DEF NewKey
  <2>4. \A i, j \in 1..Len(got) : got[i] = got[j] => i = j
    BY <1>2 DEF ChunksInOrder
  <2>5. \A i, j \in 1..Len(got') : got'[i] = got'[j] => i = j
    BY <2>2, <2>3, <2>4
  <2> QED
    BY <1>2, <2>1, <2>2, <2>5 DEF ChunksInOrder
<1> QED
  BY <1>1, <1>2

\* The session after a delivery: one chunk and its rows are counted.
Delivered(t) ==
    /\ t \in SessionType /\ ~t.terminal /\ ~t.reconciled /\ ~t.outstanding
    /\ t.mode = q.mode /\ t.width = q.width /\ t.chunks = q.chunks /\ t.total = q.total
    /\ t.visited = q.visited
    /\ t.mode = "direct" => t.buffered = {}
    /\ t.mode = "numbered" => t.next = Len(got) + 1
    /\ t.fetched = q.fetched + 1 /\ t.fetched <= MaxChunks
    /\ t.rows <= MaxRows /\ t.rows * t.width <= MaxCells /\ t.bytes <= MaxBytes

\* A delivery keeps the invariant, be it of rows (Accept) or of Arrow (ReportArrowChunk).
LEMMA DeliveryKeeps ==
    ASSUME QueryInv, stage = "cursor", last \notin {"error", "end"},
           NEW key, NewKey(key), got' = Append(got, key), Delivered(q'),
           last' = "chunk", req' = "none", step' = "idle", now' \in 0..MaxTime,
           UNCHANGED <<stage, deletes, stopped, timeout>>
    PROVE  QueryInv'
<1>1. /\ q.mode \in {"numbered", "direct"} /\ q'.mode = q.mode
      /\ TypeOK /\ ChunksInOrder /\ deletes = 0
  BY Underway DEF QueryInv, Phases, TypeOK, Delivered
<1>2. /\ got' \in IF q'.mode = "direct" THEN Seq(Urls) ELSE Seq(Nat)
      /\ Len(got') = Len(got) + 1 /\ got' # <<>>
      /\ got'[Len(got) + 1] = key /\ \A i \in 1..Len(got) : got'[i] = got[i]
      /\ ChunksInOrder'
  BY <1>1, DeliveryKeepsOrder
<1>3. Len(got) = q.fetched /\ Len(got) \in Nat
  BY <1>1 DEF QueryInv, Counting, TypeOK
<1>4. TypeOK'
  BY <1>1, <1>2 DEF TypeOK, Delivered, SessionType
<1>5. Phases' /\ Untouched' /\ Outstanding'
  BY <1>1 DEF QueryInv, Phases, Untouched, Outstanding, Delivered
<1>6. Released' /\ Prepared' /\ EndIsComplete'
  BY <1>1 DEF QueryInv, Released, Prepared, EndIsComplete, Delivered
<1>7. Counting' /\ WithinLimits'
  BY <1>2, <1>3 DEF QueryInv, Counting, WithinLimits, Delivered
<1>8. Chained'
  <2> SUFFICES ASSUME q.mode = "direct" PROVE Chained'
    BY <1>1 DEF Chained
  <2>1. got'[1] = NoUrl
    <3>1. CASE got = <<>>
      BY <1>2, <3>1 DEF NewKey
    <3>2. CASE got # <<>>
      <4>1. got[1] = NoUrl /\ 1 \in 1..Len(got)
        BY <1>3, <3>2, <1>1 DEF QueryInv, Chained, TypeOK
      <4> QED
        BY <1>2, <4>1
    <3> QED
      BY <3>1, <3>2
  <2>2. \A i \in 2..Len(got') : got'[i] \in q'.visited
    <3> SUFFICES ASSUME NEW i \in 2..Len(got') PROVE got'[i] \in q.visited
      BY DEF Delivered
    <3>1. CASE i = Len(got) + 1
      <4>1. got # <<>>
        BY <3>1
      <4> QED
        BY <1>2, <3>1, <4>1 DEF NewKey
    <3>2. CASE i # Len(got) + 1
      <4>1. i \in 2..Len(got) /\ i \in 1..Len(got)
        BY <1>2, <1>3, <3>2
      <4> QED
        BY <1>2, <4>1 DEF QueryInv, Chained
    <3> QED
      BY <3>1, <3>2
  <2> QED
    BY <1>1, <1>2, <2>1, <2>2 DEF Chained, Delivered
<1> QED
  BY <1>2, <1>4, <1>5, <1>6, <1>7, <1>8 DEF QueryInv

\* Session::Accept delivers the chunk or throws.
LEMMA TakeChunkKeeps ==
    ASSUME QueryInv, stage = "cursor", last \notin {"error", "end"},
           NEW s, Midway(s), ~s.outstanding,
           s.mode = "direct" => s.buffered = {},
           s.mode = "numbered" => s.next = Len(got) + 1,
           NEW r \in Reply, NEW key, NewKey(key), TakeChunk(s, r, key),
           now' \in 0..MaxTime, UNCHANGED <<stopped, timeout>>
    PROVE  QueryInv'
<1> DEFINE n == Named(s, r)
<1>1. Midway(n) /\ n \in SessionType /\ s \in SessionType
  BY NamedMidway DEF Midway
<1>2. /\ n.outstanding = s.outstanding /\ n.buffered = s.buffered /\ n.next = s.next
      /\ n.mode = s.mode
  <2>1. n = [s EXCEPT !.id = n.id]
    BY <1>1, NamingKeeps
  <2> QED
    BY <1>1, <2>1 DEF SessionType
<1> HIDE DEF n
<1>3. CASE ~(SameIdentity(s, r) /\ Active /\ Accepts(n, r))
  <2>1. Throw(n)
    BY <1>3 DEF TakeChunk, n
  <2> QED
    BY <1>1, <2>1, ThrowKeeps
<1>4. CASE SameIdentity(s, r) /\ Active /\ Accepts(n, r)
  <2>1. /\ q' = Accepted(n, r) /\ got' = Append(got, key)
        /\ last' = "chunk" /\ req' = "none" /\ step' = "idle"
        /\ UNCHANGED <<stage, deletes>>
    BY <1>4 DEF TakeChunk, n
  <2>2. /\ n.rows = q.rows /\ n.width = q.width /\ n.fetched = q.fetched
        /\ n.rows <= MaxRows /\ n.rows * n.width <= MaxCells
    BY <1>1 DEF Midway, QueryInv, WithinLimits
  <2>a. n.rows + r.rows \in Nat /\ n.fetched + 1 \in Nat
    <3>1. n.rows \in Nat /\ n.fetched \in Nat
      BY <1>1 DEF SessionType
    <3>2. r.rows \in Nat
      BY LimitsAssumption DEF Reply
    <3> QED
      BY <3>1, <3>2
  <2>3. /\ n.rows + r.rows <= MaxRows /\ (n.rows + r.rows) * n.width <= MaxCells
        /\ n.fetched + 1 <= MaxChunks
    BY <1>1, <1>4, <2>2, AcceptedFits
  <2>4. r.rows \in Nat /\ r.next \in Urls
    BY LimitsAssumption DEF Reply
  <2>5. q' = [n EXCEPT !.rows = n.rows + r.rows, !.fetched = n.fetched + 1,
                       !.url = IF n.mode = "direct" THEN r.next ELSE n.url]
    BY <2>1 DEF Accepted
  <2>6. q' \in SessionType
    BY <1>1, <2>a, <2>4, <2>5 DEF SessionType
  <2>7. /\ q'.rows = n.rows + r.rows /\ q'.fetched = n.fetched + 1
        /\ q'.mode = n.mode /\ q'.width = n.width /\ q'.chunks = n.chunks
        /\ q'.total = n.total /\ q'.visited = n.visited /\ q'.buffered = n.buffered
        /\ q'.next = n.next /\ q'.bytes = n.bytes /\ q'.outstanding = n.outstanding
        /\ q'.terminal = n.terminal /\ q'.reconciled = n.reconciled
    BY <1>1, <2>5 DEF SessionType
  <2>8. Delivered(q')
    <3>1. q'.rows <= MaxRows /\ q'.rows * q'.width <= MaxCells /\ q'.fetched <= MaxChunks
      BY <2>3, <2>7
    <3>2. /\ q'.mode = q.mode /\ q'.width = q.width /\ q'.chunks = q.chunks
          /\ q'.total = q.total /\ q'.visited = q.visited /\ q'.fetched = q.fetched + 1
          /\ q'.bytes <= MaxBytes /\ ~q'.terminal /\ ~q'.reconciled /\ ~q'.outstanding
      BY <1>1, <1>2, <2>7 DEF Midway
    <3>3. /\ q'.mode = "direct" => q'.buffered = {}
          /\ q'.mode = "numbered" => q'.next = Len(got) + 1
      BY <1>2, <2>7
    <3> QED
      BY <2>6, <3>1, <3>2, <3>3 DEF Delivered
  <2> QED
    BY <2>1, <2>8, DeliveryKeeps
<1> QED
  BY <1>3, <1>4

-----------------------------------------------------------------------------
(* The steps                                                                 *)

\* The clock of the model stays within its bound.
LEMMA ClockTicks ==
    ASSUME TypeOK
    PROVE  /\ Tick => now' \in 0..MaxTime
           /\ Slept => now' \in 0..MaxTime
BY LimitsAssumption DEF TypeOK, Tick, Slept, Min

\* Prepare goes on from one request to the next, or hands over what it has prepared.
Advances ==
    \/ stage' = "preparing" /\ req' = "poll" /\ step' = "check" /\ q'.mode = "none"
    \/ /\ stage' = "preparing" /\ req' = "meta" /\ step' = "check"
       /\ q'.mode = "numbered" /\ q'.chunks <= MaxChunks
    \/ /\ stage' = "prepared" /\ req' = "none" /\ step' = "idle" /\ q'.width <= MaxColumns
       /\ \/ q'.mode = "numbered" /\ q'.chunks <= MaxChunks
          \/ q'.mode = "direct" /\ q'.buffered # {}

\* While Prepare runs, nothing but the session and its request changes.
LEMMA PreparingKeeps ==
    ASSUME QueryInv, stage = "preparing", Advances, NEW s, Midway(s), q' = s,
           s.next = q.next, s.outstanding = q.outstanding,
           now' \in 0..MaxTime, UNCHANGED <<stopped, timeout, deletes, got, last>>
    PROVE  QueryInv'
<1>1. /\ s \in SessionType /\ ~s.terminal /\ ~s.reconciled /\ s.bytes <= MaxBytes
      /\ last = "none" /\ got = <<>> /\ deletes = 0
      /\ s.fetched = 0 /\ s.rows = 0 /\ s.next = 0 /\ ~s.outstanding
  BY Underway DEF Midway, QueryInv, Untouched
<1>2. Len(got) = 0 /\ <<>> \in Seq(Urls) /\ <<>> \in Seq(Nat)
  BY <1>1
<1>3. s.rows * s.width = 0 /\ s.width \in Nat
  BY <1>1, LimitsAssumption DEF SessionType, Widths
<1>4. TypeOK'
  <2>1. /\ stage' \in {"preparing", "prepared"} /\ req' \in {"poll", "meta", "none"}
        /\ step' \in {"check", "idle"}
    BY DEF Advances
  <2> QED
    BY <1>1, <1>2, <2>1 DEF QueryInv, TypeOK, SessionType
<1>5. Phases' /\ Untouched' /\ Released' /\ Outstanding'
  BY <1>1 DEF Phases, Untouched, Released, Outstanding, Advances
<1>6. Counting' /\ Chained' /\ Prepared'
  <2>1. Len(got') = 0 /\ got' = <<>> /\ req' # "json" /\ req' # "page" /\ stage' # "cursor"
    BY <1>1, <1>2 DEF Advances
  <2>2. Counting' /\ Prepared'
    BY <1>1, <2>1 DEF Counting, Prepared, Advances
  <2>3. \A i \in 2..Len(got') : FALSE
    BY <2>1
  <2>4. Chained'
    BY <2>1, <2>3 DEF Chained, Advances
  <2> QED
    BY <2>2, <2>4
<1>7. ChunksInOrder' /\ EndIsComplete'
  BY <1>1, <1>2 DEF ChunksInOrder, EndIsComplete
<1>8. WithinLimits'
  BY <1>1, <1>2, <1>3, LimitsAssumption DEF WithinLimits, Advances
<1> QED
  BY <1>4, <1>5, <1>6, <1>7, <1>8 DEF QueryInv

\* The reply to a submission or a poll.
LEMMA AnswerStatusKeeps ==
    ASSUME QueryInv, NEW r \in Reply, NEW size \in Sizes, AnswerStatus(r, size)
    PROVE  QueryInv'
<1>1. /\ stage = "preparing" /\ last = "none" /\ now' \in 0..MaxTime
      /\ UNCHANGED <<stopped, timeout>> /\ Fits(q, size)
  BY ClockTicks DEF AnswerStatus, QueryInv, Phases, Untouched
<1> DEFINE c == Counted(q, size)
           s == Named(c, r)
<1>2. Midway(q) /\ Midway(c) /\ Midway(s) /\ s \in SessionType
  BY <1>1, Underway, CountedMidway, NamedMidway DEF Midway
<1>3. s.next = q.next /\ s.outstanding = q.outstanding /\ s.mode = "none"
  <2>1. c \in SessionType /\ s = [c EXCEPT !.id = s.id]
    BY <1>2, NamingKeeps DEF Midway
  <2> HIDE DEF s
  <2>2. c.next = q.next /\ c.outstanding = q.outstanding /\ c.mode = "none"
    BY <1>2 DEF Counted, Midway, SessionType, AnswerStatus, QueryInv, Phases
  <2> HIDE DEF c
  <2> QED
    BY <2>1, <2>2 DEF SessionType
<1>4. \/ Throw(s)
      \/ Completed(s, r)
      \/ q' = s /\ Request("poll") /\ UNCHANGED <<stage, deletes, got, last>>
  BY DEF AnswerStatus
<1> HIDE DEF c, s
<1>5. CASE Throw(s)
  BY <1>1, <1>2, <1>5, ThrowKeeps
<1>6. CASE q' = s /\ Request("poll") /\ UNCHANGED <<stage, deletes, got, last>>
  BY <1>1, <1>2, <1>3, <1>6, PreparingKeeps DEF Request, Advances
<1>7. CASE Completed(s, r)
  <2>1. CASE r.count # Unknown
    <3> DEFINE n == [s EXCEPT !.mode = "numbered", !.chunks = r.count, !.total = r.total]
    <3>1. r.count \in Nat /\ r.total \in Nat \cup {Unknown}
      BY <2>1 DEF Reply, Counts
    <3>2. n \in SessionType /\ n.mode = "numbered" /\ n.chunks = r.count
      BY <1>2, <3>1 DEF SessionType
    <3>3. Midway(n) /\ n.next = s.next /\ n.outstanding = s.outstanding
      BY <1>1, <1>2, <3>1, <3>2 DEF Midway, SessionType
    <3>4. \/ Throw(n)
          \/ /\ r.count <= MaxChunks /\ q' = n /\ Request("meta")
             /\ UNCHANGED <<stage, deletes, got, last>>
      BY <1>7, <2>1 DEF Completed
    <3> HIDE DEF n
    <3> QED
      BY <1>1, <1>3, <3>2, <3>3, <3>4, ThrowKeeps, PreparingKeeps DEF Request, Advances
  <2>2. CASE r.count = Unknown
    <3> DEFINE d == [s EXCEPT !.mode = "direct", !.width = r.columns, !.total = r.total,
                              !.buffered = {r}]
    <3>1. r.columns \in Widths /\ r.total \in Nat \cup {Unknown}
      BY DEF Reply, Counts
    <3>2. /\ d \in SessionType /\ d.mode = "direct" /\ d.width = r.columns
          /\ d.buffered = {r}
      BY <1>2, <3>1 DEF SessionType
    <3>3. Midway(d) /\ d.next = s.next /\ d.outstanding = s.outstanding
      BY <1>1, <1>2, <3>1, <3>2 DEF Midway, SessionType, QueryInv, Untouched
    <3>4. \/ Throw(d)
          \/ /\ ~(r.columns > MaxColumns) /\ q' = d
             /\ stage' = "prepared" /\ req' = "none" /\ step' = "idle"
             /\ UNCHANGED <<deletes, got, last>>
      BY <1>7, <2>2 DEF Completed
    <3>5. ~(r.columns > MaxColumns) => r.columns <= MaxColumns
      BY <3>1, LimitsAssumption DEF Widths
    <3> HIDE DEF d
    <3> QED
      BY <1>1, <1>3, <3>2, <3>3, <3>4, <3>5, ThrowKeeps, PreparingKeeps DEF Advances
  <2> QED
    BY <2>1, <2>2
<1> QED
  BY <1>4, <1>5, <1>6, <1>7

\* The reply to the metadata request.
LEMMA AnswerMetadataKeeps ==
    ASSUME QueryInv, NEW r \in Reply, NEW size \in Sizes, AnswerMetadata(r, size)
    PROVE  QueryInv'
<1>1. /\ stage = "preparing" /\ last = "none" /\ now' \in 0..MaxTime
      /\ UNCHANGED <<stopped, timeout>> /\ Fits(q, size)
      /\ q.mode = "numbered" /\ q.chunks <= MaxChunks
  BY ClockTicks DEF AnswerMetadata, QueryInv, Phases, Untouched, Prepared
<1> DEFINE c == Counted(q, size)
           m == [c EXCEPT !.width = r.columns]
<1>2. Midway(q) /\ Midway(c) /\ c \in SessionType
  BY <1>1, Underway, CountedMidway DEF Midway
<1>3. /\ c.next = q.next /\ c.outstanding = q.outstanding /\ c.mode = "numbered"
      /\ c.chunks <= MaxChunks
  BY <1>1, <1>2 DEF Counted, Midway, SessionType
<1>4. \/ Throw(c)
      \/ /\ r.columns <= MaxColumns /\ q' = m
         /\ stage' = "prepared" /\ req' = "none" /\ step' = "idle"
         /\ UNCHANGED <<deletes, got, last>>
  BY DEF AnswerMetadata
<1> HIDE DEF c
<1>5. r.columns \in Widths
  BY DEF Reply
<1>6. /\ m \in SessionType /\ m.width = r.columns /\ m.mode = "numbered"
      /\ m.chunks = c.chunks /\ m.next = c.next /\ m.outstanding = c.outstanding
  BY <1>2, <1>3, <1>5 DEF SessionType
<1>7. Midway(m)
  BY <1>1, <1>2, <1>6 DEF Midway, SessionType
<1> HIDE DEF m
<1> QED
  BY <1>1, <1>2, <1>3, <1>4, <1>6, <1>7, ThrowKeeps, PreparingKeeps DEF Advances

\* The reply to the request for a chunk of rows.
LEMMA AnswerChunkKeeps ==
    ASSUME QueryInv, NEW r \in Reply, NEW size \in Sizes, AnswerChunk(r, size)
    PROVE  QueryInv'
<1>1. /\ stage = "cursor" /\ last \notin {"error", "end"} /\ now' \in 0..MaxTime
      /\ UNCHANGED <<stopped, timeout>> /\ Fits(q, size)
      /\ req \in {"json", "page"} /\ q \in SessionType
      /\ req = "json" => q.mode = "numbered"
      /\ req = "page" => q.mode = "direct"
  BY ClockTicks DEF AnswerChunk, QueryInv, Phases, TypeOK, SessionType
<1> DEFINE c == Counted(q, size)
<1>2. Midway(q) /\ Midway(c)
  BY <1>1, Underway, CountedMidway
<1>3. /\ c.next = q.next /\ c.outstanding = q.outstanding /\ c.mode = q.mode
      /\ c.buffered = q.buffered
  BY <1>1 DEF Counted, SessionType
<1>4. TakeChunk(c, r, ChunkKey(q))
  BY DEF AnswerChunk
<1> HIDE DEF c
<1>5. ~q.outstanding
  BY <1>1 DEF QueryInv, Outstanding
<1>6. CASE req = "json"
  <2>1. q.next = Len(got) + 1 /\ Len(got) \in Nat
    BY <1>1, <1>6 DEF QueryInv, Counting, TypeOK
  <2>2. NewKey(ChunkKey(q))
    BY <1>1, <1>6, <2>1 DEF NewKey, ChunkKey
  <2> QED
    BY <1>1, <1>2, <1>3, <1>4, <1>5, <1>6, <2>1, <2>2, TakeChunkKeeps
<1>7. CASE req = "page"
  <2>1. /\ q.buffered = {} /\ got # <<>> /\ q.url \in q.visited
        /\ \A i \in 1..Len(got) : got[i] # q.url
    BY <1>1, <1>7 DEF QueryInv, Chained
  <2>2. NewKey(ChunkKey(q))
    BY <1>1, <1>7, <2>1 DEF NewKey, ChunkKey
  <2> QED
    BY <1>1, <1>2, <1>3, <1>4, <1>5, <1>7, <2>1, <2>2, TakeChunkKeeps
<1> QED
  BY <1>1, <1>6, <1>7

\* The reply to the request for an Arrow chunk leaves a report outstanding.
LEMMA AnswerArrowKeeps ==
    ASSUME QueryInv, NEW size \in Sizes, AnswerArrow(size)
    PROVE  QueryInv'
<1>1. /\ stage = "cursor" /\ last \notin {"error", "end"} /\ now' \in 0..MaxTime
      /\ UNCHANGED <<stopped, timeout>> /\ Fits(q, size)
      /\ req = "arrow" /\ q \in SessionType /\ q.mode = "numbered" /\ q.next < q.chunks
  BY ClockTicks DEF AnswerArrow, QueryInv, Phases, TypeOK, SessionType, Outstanding
<1>2. Midway(q) /\ Midway(Counted(q, size))
  BY <1>1, Underway, CountedMidway
<1>3. CASE ~Active
  BY <1>1, <1>2, <1>3, ThrowKeeps DEF AnswerArrow
<1>4. CASE Active
  <2>1. /\ q' = [q EXCEPT !.bytes = q.bytes + size, !.outstanding = TRUE]
        /\ req' = "none" /\ step' = "idle" /\ UNCHANGED <<stage, deletes, got, last>>
    BY <1>4 DEF AnswerArrow, Counted
  <2>2. q.bytes + size \in Nat /\ q.bytes + size <= MaxBytes
    BY <1>1, <1>2, CountedMidway, LimitsAssumption DEF Midway, SessionType
  <2>3. /\ q' \in SessionType /\ q'.bytes = q.bytes + size /\ q'.outstanding
        /\ q'.id = q.id /\ q'.mode = q.mode /\ q'.chunks = q.chunks /\ q'.total = q.total
        /\ q'.next = q.next /\ q'.width = q.width /\ q'.buffered = q.buffered
        /\ q'.url = q.url /\ q'.visited = q.visited /\ q'.fetched = q.fetched
        /\ q'.rows = q.rows /\ q'.reconciled = q.reconciled /\ q'.terminal = q.terminal
    BY <1>1, <2>1, <2>2 DEF SessionType
  <2>4. TypeOK'
    BY <1>1, <2>1, <2>3 DEF QueryInv, TypeOK, SessionType
  <2>5. Phases' /\ Untouched' /\ Outstanding'
    BY <1>1, <2>1, <2>3 DEF QueryInv, Phases, Untouched, Outstanding
  <2>6. Released' /\ Counting' /\ Prepared'
    BY <1>1, <2>1, <2>3 DEF QueryInv, Released, Counting, Prepared
  <2>7. Chained' /\ ChunksInOrder' /\ EndIsComplete'
    BY <1>1, <2>1, <2>3 DEF QueryInv, Chained, ChunksInOrder, EndIsComplete
  <2>8. WithinLimits'
    BY <1>1, <2>1, <2>2, <2>3 DEF QueryInv, WithinLimits
  <2> QED
    BY <2>4, <2>5, <2>6, <2>7, <2>8 DEF QueryInv
<1> QED
  BY <1>3, <1>4

\* A step that leaves the session and what was delivered alone.
LEMMA RequestKeeps ==
    ASSUME QueryInv, req # "none", req' = req,
           step' \in {"check", "issue", "answer"},
           now' \in 0..MaxTime, timeout' \in 0..RequestTimeout,
           UNCHANGED <<stage, stopped, q, deletes, got, last>>
    PROVE  QueryInv'
<1>1. TypeOK' /\ Phases' /\ Untouched'
  BY DEF QueryInv, TypeOK, Phases, Untouched
<1>2. Released' /\ Counting' /\ Outstanding' /\ Prepared'
  BY DEF QueryInv, Released, Counting, Outstanding, Prepared
<1>3. Chained' /\ ChunksInOrder' /\ EndIsComplete' /\ WithinLimits'
  BY DEF QueryInv, Chained, ChunksInOrder, EndIsComplete, WithinLimits
<1> QED
  BY <1>1, <1>2, <1>3 DEF QueryInv

\* A request that is under way: its two readings of the clock, and its failure.
LEMMA RequestsKeep ==
    ASSUME QueryInv, Check \/ Issue \/ RequestFails
    PROVE  QueryInv'
<1>1. /\ req # "none" /\ stage \in {"preparing", "cursor"} /\ last \notin {"error", "end"}
      /\ timeout \in 0..RequestTimeout /\ TypeOK
  BY DEF Check, Issue, RequestFails, QueryInv, Phases, TypeOK
<1>2. Midway(q)
  BY <1>1, Underway
<1>3. CASE Check
  <2>1. now' \in 0..MaxTime /\ UNCHANGED <<stopped, timeout>>
    BY <1>1, <1>3, ClockTicks DEF Check
  <2>2. \/ step' = "issue" /\ UNCHANGED <<stage, req, q, deletes, got, last>>
        \/ Throw(q)
    BY <1>3 DEF Check
  <2> QED
    BY <1>1, <1>2, <2>1, <2>2, ThrowKeeps, RequestKeeps
<1>4. CASE Issue
  <2>1. now' \in 0..MaxTime
    BY <1>1, <1>4, ClockTicks DEF Issue
  <2>2. timeout' \in 0..RequestTimeout
    <3>1. Overall - now' \in Int
      BY <2>1, LimitsAssumption
    <3> QED
      BY <1>4, <3>1, TimeoutBounded DEF Issue
  <2> QED
    BY <1>1, <1>4, <2>1, <2>2, RequestKeeps DEF Issue
<1>5. CASE RequestFails
  BY <1>1, <1>2, <1>5, ClockTicks, ThrowKeeps DEF RequestFails
<1> QED
  BY <1>3, <1>4, <1>5

\* The caller begins, opens its cursor, is interrupted, or lets go.
LEMMA CallerKeeps ==
    ASSUME QueryInv, Prepare \/ OpenCursor \/ Stop \/ Drop \/ Closed
    PROVE  QueryInv'
<1>1. CASE Prepare
  <2>1. /\ q = NewSession /\ q' = NewSession /\ got = <<>> /\ got' = <<>> /\ Len(got') = 0
        /\ deletes' = deletes /\ now' = now /\ stopped' = stopped /\ timeout' = timeout
        /\ last = "none" /\ stage = "new" /\ req = "none" /\ step = "idle"
    BY <1>1 DEF Prepare, QueryInv, Untouched, Phases, TypeOK
  <2>2. \/ stage' = "closed" /\ last' = "error" /\ req' = "none" /\ step' = "idle"
        \/ stage' = "preparing" /\ last' = "none" /\ req' = "post" /\ step' = "check"
    BY <1>1, <2>1 DEF Prepare, Request
  <2>3. deletes' = 0
    BY <2>1 DEF QueryInv, Released, NewSession
  <2>4. TypeOK'
    BY <2>1, <2>2 DEF QueryInv, TypeOK, NewSession
  <2>5. Phases' /\ Untouched' /\ Outstanding' /\ Prepared' /\ EndIsComplete'
    BY <2>1, <2>2
       DEF NewSession, Phases, Untouched, Outstanding, Prepared, EndIsComplete
  <2>6. Released'
    BY <2>1, <2>2, <2>3, IdsAssumption DEF NewSession, Released
  <2>7. Counting' /\ Chained' /\ ChunksInOrder'
    BY <2>1, <2>2 DEF NewSession, Counting, Chained, ChunksInOrder
  <2>8. WithinLimits'
    BY <2>1, <2>2, LimitsAssumption DEF NewSession, WithinLimits
  <2> QED
    BY <2>4, <2>5, <2>6, <2>7, <2>8 DEF QueryInv
<1>2. CASE OpenCursor
  <2>1. TypeOK' /\ Phases' /\ Untouched' /\ Released' /\ Counting'
    BY <1>2 DEF OpenCursor, HasColumns, QueryInv, TypeOK, Phases, Untouched, Released, Counting
  <2>2. Outstanding' /\ Chained' /\ Prepared'
    BY <1>2 DEF OpenCursor, HasColumns, QueryInv, Outstanding, Chained, Prepared, Untouched
  <2>3. ChunksInOrder' /\ EndIsComplete' /\ WithinLimits'
    BY <1>2 DEF OpenCursor, HasColumns, QueryInv, ChunksInOrder, EndIsComplete, WithinLimits
  <2> QED
    BY <2>1, <2>2, <2>3 DEF QueryInv
<1>3. CASE Stop
  <2>1. TypeOK' /\ Phases' /\ Untouched' /\ Released' /\ Counting'
    BY <1>3 DEF Stop, QueryInv, TypeOK, Phases, Untouched, Released, Counting
  <2>2. Outstanding' /\ Chained' /\ Prepared'
    BY <1>3 DEF Stop, QueryInv, Outstanding, Chained, Prepared
  <2>3. ChunksInOrder' /\ EndIsComplete' /\ WithinLimits'
    BY <1>3 DEF Stop, QueryInv, ChunksInOrder, EndIsComplete, WithinLimits
  <2> QED
    BY <2>1, <2>2, <2>3 DEF QueryInv
<1>4. CASE Drop
  <2>1. /\ stage \in {"prepared", "cursor"} /\ req = "none" /\ stage' = "closed"
        /\ UNCHANGED <<req, step, now, stopped, timeout, got, last>> /\ Cancel(q)
        /\ q \in SessionType
    BY <1>4 DEF Drop, QueryInv, TypeOK, SessionType
  <2>2. /\ q' \in SessionType /\ SameButTerminal(q', q)
        /\ q'.terminal <=> q.terminal \/ MustDelete(q)
        /\ deletes' = IF MustDelete(q) THEN deletes + 1 ELSE deletes
    BY <2>1, CancelSends
  <2>3. /\ deletes = (IF q.terminal /\ ~q.reconciled THEN 1 ELSE 0)
        /\ deletes' = (IF q'.terminal /\ ~q'.reconciled THEN 1 ELSE 0)
    BY <2>2 DEF QueryInv, Released, MustDelete, SameButTerminal
  <2>4. TypeOK'
    BY <2>1, <2>2, <2>3 DEF QueryInv, TypeOK, SessionType, SameButTerminal
  <2>5. Phases' /\ Untouched' /\ Outstanding' /\ Prepared'
    BY <2>1, <2>2
       DEF QueryInv, Phases, Untouched, Outstanding, Prepared, SameButTerminal
  <2>6. Released'
    BY <2>1, <2>2, <2>3 DEF QueryInv, Released, MustDelete, SameButTerminal, IsSafeQueryId
  <2>7. Counting' /\ Chained' /\ ChunksInOrder'
    BY <2>1, <2>2 DEF QueryInv, Counting, Chained, ChunksInOrder, SameButTerminal
  <2>8. EndIsComplete' /\ WithinLimits'
    BY <2>1, <2>2 DEF QueryInv, EndIsComplete, WithinLimits, SameButTerminal
  <2> QED
    BY <2>4, <2>5, <2>6, <2>7, <2>8 DEF QueryInv
<1>5. CASE Closed
  BY <1>5 DEF Closed, vars, QueryInv, TypeOK, Phases, Untouched, Released, Counting,
     Outstanding, Chained, Prepared, ChunksInOrder, EndIsComplete, WithinLimits
<1> QED
  BY <1>1, <1>2, <1>3, <1>4, <1>5

\* A call on the cursor that has nothing buffered: it asks, ends or throws.
LEMMA CursorAsks ==
    ASSUME QueryInv, NextNumbered \/ NextPage \/ NextArrow
    PROVE  QueryInv'
<1>1. /\ stage = "cursor" /\ req = "none" /\ last \notin {"error", "end"} /\ TypeOK
      /\ q \in SessionType /\ ~q.outstanding /\ Usable /\ UNCHANGED <<stopped, timeout>>
      /\ q.mode \in {"numbered", "direct"}
  BY DEF NextNumbered, NextPage, NextArrow, Usable, QueryInv, TypeOK, SessionType, Released
<1>2. Midway(q)
  BY <1>1, Underway
<1>3. now' \in 0..MaxTime
  BY <1>1, ClockTicks DEF NextNumbered, NextPage, NextArrow, TypeOK
<1>4. CASE Finish(q) /\ (q.mode = "direct" => q.buffered = {})
  BY <1>1, <1>3, <1>4, FinishKeeps
<1>5. CASE Throw(q)
  BY <1>1, <1>2, <1>3, <1>5, ThrowKeeps
<1>6. CASE /\ NextNumbered /\ q.next < q.chunks /\ q' = [q EXCEPT !.next = @ + 1]
           /\ Request("json") /\ UNCHANGED <<stage, deletes, got, last>>
  <2>1. /\ q.mode = "numbered" /\ req' = "json" /\ step' = "check"
        /\ stage' = stage /\ deletes' = deletes /\ got' = got /\ last' = last
    BY <1>6 DEF NextNumbered, Request
  <2>2. /\ q' \in SessionType /\ q'.next = q.next + 1
        /\ q'.id = q.id /\ q'.mode = q.mode /\ q'.chunks = q.chunks /\ q'.total = q.total
        /\ q'.width = q.width /\ q'.buffered = q.buffered /\ q'.url = q.url
        /\ q'.visited = q.visited /\ q'.fetched = q.fetched /\ q'.rows = q.rows
        /\ q'.bytes = q.bytes /\ q'.outstanding = q.outstanding
        /\ q'.reconciled = q.reconciled /\ q'.terminal = q.terminal
    BY <1>1, <1>6 DEF SessionType
  <2>3. TypeOK'
    BY <1>1, <1>3, <2>1, <2>2 DEF TypeOK, SessionType
  <2>4. Phases' /\ Untouched' /\ Outstanding' /\ Prepared'
    BY <1>1, <2>1, <2>2 DEF QueryInv, Phases, Untouched, Outstanding, Prepared
  <2>5. Released' /\ Counting' /\ Chained'
    BY <1>1, <2>1, <2>2 DEF Usable, QueryInv, Released, Counting, Chained
  <2>6. ChunksInOrder' /\ EndIsComplete' /\ WithinLimits'
    BY <1>1, <2>1, <2>2 DEF QueryInv, ChunksInOrder, EndIsComplete, WithinLimits
  <2> QED
    BY <2>3, <2>4, <2>5, <2>6 DEF QueryInv
<1>7. CASE /\ NextPage /\ IsSafeChunkPath(q.url) /\ q.url \notin q.visited
           /\ q' = [q EXCEPT !.visited = @ \cup {q.url},
                             !.id = IF @ = NoId THEN QueryIdFromChunkPath(q.url) ELSE @]
           /\ Request("page") /\ UNCHANGED <<stage, deletes, got, last>>
  <2>1. /\ q.mode = "direct" /\ q.buffered = {} /\ req' = "page" /\ step' = "check"
        /\ stage' = stage /\ deletes' = deletes /\ got' = got /\ last' = last
    BY <1>7 DEF NextPage, Request
  <2>2. q.url \in Paths /\ QueryIdFromChunkPath(q.url) \in QueryIds
    BY <1>7 DEF IsSafeChunkPath, QueryIdFromChunkPath, Paths
  <2>3. /\ q' \in SessionType /\ q'.visited = q.visited \cup {q.url}
        /\ q'.mode = q.mode /\ q'.chunks = q.chunks /\ q'.total = q.total
        /\ q'.next = q.next /\ q'.width = q.width /\ q'.buffered = q.buffered
        /\ q'.url = q.url /\ q'.fetched = q.fetched /\ q'.rows = q.rows
        /\ q'.bytes = q.bytes /\ q'.outstanding = q.outstanding
        /\ q'.reconciled = q.reconciled /\ q'.terminal = q.terminal
    BY <1>1, <1>7, <2>2 DEF SessionType
  <2>4. TypeOK'
    BY <1>1, <1>3, <2>1, <2>3 DEF TypeOK, SessionType
  <2>5. Phases' /\ Untouched' /\ Outstanding' /\ Prepared'
    BY <1>1, <2>1, <2>3 DEF QueryInv, Phases, Untouched, Outstanding, Prepared
  <2>6. Released' /\ Counting'
    BY <1>1, <2>1, <2>3 DEF Usable, QueryInv, Released, Counting
  <2>7. Chained'
    <3>1. got # <<>> /\ got[1] = NoUrl /\ Len(got) \in Nat
      BY <1>1, <2>1 DEF QueryInv, Chained, TypeOK
    <3>2. \A i \in 2..Len(got) : got[i] \in q.visited
      BY <2>1 DEF QueryInv, Chained
    <3>3. \A i \in 1..Len(got) : got[i] # q.url
      <4> SUFFICES ASSUME NEW i \in 1..Len(got) PROVE got[i] # q.url
        OBVIOUS
      <4>1. CASE i = 1
        BY <4>1, <3>1, <2>2, PathsLead
      <4>2. CASE i # 1
        BY <4>2, <3>1, <3>2, <1>7
      <4> QED
        BY <4>1, <4>2
    <3> QED
      BY <1>1, <2>1, <2>3, <3>1, <3>2, <3>3 DEF Chained
  <2>8. ChunksInOrder' /\ EndIsComplete' /\ WithinLimits'
    BY <1>1, <2>1, <2>3 DEF QueryInv, ChunksInOrder, EndIsComplete, WithinLimits
  <2> QED
    BY <2>4, <2>5, <2>6, <2>7, <2>8 DEF QueryInv
<1>8. CASE /\ NextArrow /\ q.next < q.chunks /\ Request("arrow")
           /\ UNCHANGED <<stage, q, deletes, got, last>>
  <2>1. q.mode = "numbered" /\ req' = "arrow" /\ step' = "check"
    BY <1>8 DEF NextArrow, Request
  <2>2. TypeOK'
    BY <1>1, <1>3, <1>8, <2>1 DEF TypeOK
  <2>3. Phases' /\ Untouched' /\ Outstanding' /\ Prepared'
    BY <1>1, <1>8, <2>1 DEF QueryInv, Phases, Untouched, Outstanding, Prepared
  <2>4. Released' /\ Counting' /\ Chained'
    BY <1>1, <1>8, <2>1 DEF Usable, QueryInv, Released, Counting, Chained
  <2>5. ChunksInOrder' /\ EndIsComplete' /\ WithinLimits'
    BY <1>1, <1>8, <2>1 DEF QueryInv, ChunksInOrder, EndIsComplete, WithinLimits
  <2> QED
    BY <2>2, <2>3, <2>4, <2>5 DEF QueryInv
<1>9. ~(q.next >= q.chunks) => q.next < q.chunks
  BY <1>1 DEF SessionType
<1>10. CASE NextNumbered
  BY <1>4, <1>6, <1>9, <1>10 DEF NextNumbered
<1>11. CASE NextPage
  BY <1>4, <1>5, <1>7, <1>11 DEF NextPage
<1>12. CASE NextArrow
  BY <1>4, <1>5, <1>8, <1>9, <1>12 DEF NextArrow
<1> QED
  BY <1>10, <1>11, <1>12

\* The first page of the legacy result comes from the reply that Prepare kept.
LEMMA BufferedKeeps ==
    ASSUME QueryInv, NextBuffered
    PROVE  QueryInv'
<1>1. /\ stage = "cursor" /\ last \notin {"error", "end"} /\ now' \in 0..MaxTime
      /\ UNCHANGED <<stopped, timeout>> /\ q \in SessionType /\ ~q.outstanding
      /\ q.mode = "direct"
  BY ClockTicks DEF NextBuffered, Usable, QueryInv, TypeOK, SessionType, Released
<1> DEFINE s == [q EXCEPT !.buffered = {}]
<1>2. PICK r \in q.buffered : TakeChunk(s, r, NoUrl)
  BY DEF NextBuffered
<1>3. r \in Reply
  BY <1>1 DEF SessionType
<1>4. Midway(q)
  BY <1>1, Underway
<1>5. Midway(s) /\ ~s.outstanding /\ s.mode = "direct" /\ s.buffered = {}
  BY <1>1, <1>4 DEF Midway, SessionType
<1>6. NewKey(NoUrl)
  BY <1>1, <1>2 DEF NewKey, QueryInv, Chained
<1> HIDE DEF s
<1> QED
  BY <1>1, <1>2, <1>3, <1>5, <1>6, TakeChunkKeeps

\* ReportArrowChunk counts the rows of the chunk, and only then moves the index.
LEMMA ReportKeeps ==
    ASSUME QueryInv, NEW rows \in 0..(MaxRows + 1), ReportArrow(rows)
    PROVE  QueryInv'
<1>1. /\ stage = "cursor" /\ last \notin {"error", "end"} /\ now' \in 0..MaxTime
      /\ UNCHANGED <<stopped, timeout>> /\ q \in SessionType /\ req = "none" /\ step = "idle"
      /\ q.mode = "numbered" /\ q.next < q.chunks /\ q.chunks <= MaxChunks
      /\ q.width > 0 /\ q.next = Len(got) /\ Len(got) = q.fetched
  BY ClockTicks DEF ReportArrow, QueryInv, TypeOK, SessionType, Outstanding, Phases,
     Counting, Prepared
<1>2. Midway(q)
  BY <1>1, Underway
<1>3. CASE Throw(q)
  BY <1>1, <1>2, <1>3, ThrowKeeps
<1>4. CASE ~Throw(q)
  <2>1. /\ rows <= RoomFor(MaxRows, q.rows)
        /\ q.width # 0 => rows <= RoomFor(MaxCells, q.rows * q.width) \div q.width
        /\ q' = [q EXCEPT !.rows = q.rows + rows, !.fetched = q.fetched + 1,
                          !.next = q.next + 1, !.outstanding = FALSE]
        /\ got' = Append(got, q.next) /\ last' = "chunk"
        /\ UNCHANGED <<stage, req, step, deletes>>
    BY <1>4 DEF ReportArrow
  <2>2. /\ q.rows \in Nat /\ q.width \in Nat \ {0} /\ q.fetched \in Nat /\ q.next \in Nat
        /\ q.chunks \in Nat /\ rows \in Nat
        /\ MaxRows \in Nat /\ MaxCells \in Nat /\ MaxChunks \in Nat
        /\ q.rows <= MaxRows /\ q.rows * q.width <= MaxCells
    BY <1>1, LimitsAssumption DEF SessionType, Widths, QueryInv, WithinLimits
  <2>3. q.rows + rows <= MaxRows
    <3>1. RoomFor(MaxRows, q.rows) \in Nat /\ q.rows + RoomFor(MaxRows, q.rows) = MaxRows
      BY <2>2, RoomIsLeft
    <3> QED
      BY <2>1, <2>2, <3>1
  <2>4. (q.rows + rows) * q.width <= MaxCells
    <3> DEFINE used == q.rows * q.width
               more == rows * q.width
               room == RoomFor(MaxCells, used)
    <3>1. used \in Nat /\ more \in Nat /\ (q.rows + rows) * q.width = used + more
      BY <2>2, CellsAdd
    <3>2. used <= MaxCells /\ rows <= room \div q.width
      BY <2>1, <2>2
    <3> HIDE DEF used
    <3>3. room \in Nat /\ used + room = MaxCells
      BY <2>2, <3>1, <3>2, RoomIsLeft
    <3> HIDE DEF room
    <3>4. more <= room
      BY <2>2, <3>2, <3>3, CellsDivide
    <3> QED
      BY <2>2, <3>1, <3>3, <3>4
  <2>5. q.rows + rows \in Nat /\ q.fetched + 1 \in Nat /\ q.next + 1 \in Nat
    BY <2>2
  <2>6. /\ q' \in SessionType /\ q'.rows = q.rows + rows /\ q'.fetched = q.fetched + 1
        /\ q'.next = q.next + 1 /\ ~q'.outstanding
        /\ q'.mode = q.mode /\ q'.chunks = q.chunks /\ q'.total = q.total
        /\ q'.width = q.width /\ q'.visited = q.visited /\ q'.bytes = q.bytes
        /\ q'.reconciled = q.reconciled /\ q'.terminal = q.terminal
    BY <1>1, <2>1, <2>5 DEF SessionType
  <2>7. q'.rows <= MaxRows /\ q'.rows * q'.width <= MaxCells /\ q'.fetched <= MaxChunks
    BY <1>1, <2>2, <2>3, <2>4, <2>6
  <2>8. Delivered(q')
    BY <1>1, <1>2, <2>6, <2>7 DEF Delivered, Midway
  <2>9. NewKey(q.next)
    BY <1>1 DEF NewKey
  <2> QED
    BY <1>1, <2>1, <2>8, <2>9, DeliveryKeeps
<1> QED
  BY <1>3, <1>4

-----------------------------------------------------------------------------
(* The theorems                                                              *)

\* Nothing is submitted, counted, delivered or deleted at first.
LEMMA QueryInit == Init => QueryInv
<1> SUFFICES ASSUME Init PROVE QueryInv
  OBVIOUS
<1>1. TypeOK
  <2>1. /\ NewSession.mode = "none" /\ <<>> \in Seq(Nat)
        /\ 0 \in 0..MaxTime /\ 0 \in 0..RequestTimeout
    BY LimitsAssumption DEF NewSession
  <2>2. NewSession \in SessionType
    BY DEF NewSession, SessionType, Widths, Urls
  <2> QED
    BY <2>1, <2>2 DEF Init, TypeOK, SessionType
<1>2. Phases /\ Untouched /\ Released /\ Counting /\ Outstanding /\ Chained /\ Prepared
  BY DEF Init, NewSession, Phases, Untouched, Released, Counting, Outstanding, Chained,
     Prepared
<1>3. ChunksInOrder /\ EndIsComplete /\ WithinLimits
  BY LimitsAssumption DEF Init, NewSession, ChunksInOrder, EndIsComplete, WithinLimits
<1> QED
  BY <1>1, <1>2, <1>3 DEF QueryInv

\* Every step of the client, its caller or the service keeps the invariant.
LEMMA QueryStep == QueryInv /\ [Next]_vars => QueryInv'
<1> SUFFICES ASSUME QueryInv, [Next]_vars PROVE QueryInv'
  OBVIOUS
<1>1. CASE Prepare \/ OpenCursor \/ Stop \/ Drop \/ Closed
  BY <1>1, CallerKeeps
<1>2. CASE Check \/ Issue
  BY <1>2, RequestsKeep
<1>3. CASE Answer
  <2>1. CASE RequestFails
    BY <2>1, RequestsKeep
  <2>2. CASE \E r \in Replies, size \in Sizes : AnswerStatus(r, size)
    BY <2>2, DecodedReplies, AnswerStatusKeeps
  <2>3. CASE \E r \in Replies, size \in Sizes : AnswerMetadata(r, size)
    BY <2>3, DecodedReplies, AnswerMetadataKeeps
  <2>4. CASE \E r \in Replies, size \in Sizes : AnswerChunk(r, size)
    BY <2>4, DecodedReplies, AnswerChunkKeeps
  <2>5. CASE \E size \in Sizes : AnswerArrow(size)
    BY <2>5, AnswerArrowKeeps
  <2> QED
    BY <1>3, <2>1, <2>2, <2>3, <2>4, <2>5 DEF Answer
<1>4. CASE NextCall
  BY <1>4, CursorAsks, BufferedKeeps DEF NextCall
<1>5. CASE \E rows \in 0..(MaxRows + 1) : ReportArrow(rows)
  BY <1>5, ReportKeeps
<1>6. CASE UNCHANGED vars
  BY <1>6 DEF vars, QueryInv, TypeOK, Phases, Untouched, Released, Counting,
     Outstanding, Chained, Prepared, ChunksInOrder, EndIsComplete, WithinLimits
<1> QED
  BY <1>1, <1>2, <1>3, <1>4, <1>5, <1>6 DEF Next

\* The invariant holds in every state of the client.
LEMMA QueryInvariant == Spec => []QueryInv
BY QueryInit, QueryStep, PTL DEF Spec

\* The Session struct and the caller's view of it keep their types.
THEOREM QueryTypeCorrect == Spec => []TypeOK
<1>1. QueryInv => TypeOK
  BY DEF QueryInv
<1> QED
  BY <1>1, QueryInvariant, PTL

\* Session::Cancel sends at most one DELETE, whatever throws and whoever lets go, and no
\* request of the session follows it.
THEOREM DeletesAreLast == Spec => []DeleteIsLast
<1>1. QueryInv => DeleteIsLast
  BY DEF QueryInv, Released, DeleteIsLast
<1> QED
  BY <1>1, QueryInvariant, PTL

\* A query whose id the client learnt is left either read to its end or deleted, however
\* Prepare, the cursor or ~Session ended.
THEOREM RemoteIsReleased == Spec => []RemoteReleased
<1>1. QueryInv => RemoteReleased
  BY DEF QueryInv, Released, RemoteReleased, TypeOK
<1> QED
  BY <1>1, QueryInvariant, PTL

\* NextChunk and NextArrowChunk give the caller every numbered chunk in its turn, and no
\* page of a chain twice.
THEOREM ChunksComeInOrder == Spec => []ChunksInOrder
<1>1. QueryInv => ChunksInOrder
  BY DEF QueryInv
<1> QED
  BY <1>1, QueryInvariant, PTL

\* Session::Finish reports the end only of a whole result.
THEOREM EndsAreComplete == Spec => []EndIsComplete
<1>1. QueryInv => EndIsComplete
  BY DEF QueryInv
<1> QED
  BY <1>1, QueryInvariant, PTL

\* Accept, ReportArrowChunk, Send and Prepare keep chunks, rows, cells, columns and bytes
\* within the options, for any service and any value of the options.
THEOREM LimitsHold == Spec => []WithinLimits
<1>1. QueryInv => WithinLimits
  BY DEF QueryInv
<1> QED
  BY <1>1, QueryInvariant, PTL
=============================================================================
