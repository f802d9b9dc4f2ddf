---------------------------- MODULE ScanDelivery ----------------------------
(***************************************************************************)
(* The delivery of a query's rows to DuckDB: Data360QueryInit, then one    *)
(* Data360QueryFunction call per output vector, over ArrowScanSource and   *)
(* ArrowIpcChunkReader for numbered results or FillDataChunk for pages.    *)
(*                                                                         *)
(* DuckDB calls again until an output vector is empty: an empty vector IS  *)
(* the end of the result.  A row is the triple of its chunk, its batch in  *)
(* that chunk and its place in that batch; a page is a chunk of one batch. *)
(* The cursor below, which QuerySession models, hands out the chunks in    *)
(* their order, ends after the last one or throws.                         *)
(***************************************************************************)
EXTENDS Naturals, Sequences, FiniteSets

CONSTANTS
    VectorSize,   \* STANDARD_VECTOR_SIZE, 2048 in DuckDB
    MaxChunks,    \* chunks of a result
    MaxBatches,   \* record batches of a chunk
    MaxLength     \* rows of a record batch

ASSUME SizesAssumption ==
    /\ VectorSize \in Nat \ {0}
    /\ MaxChunks \in Nat /\ MaxBatches \in Nat /\ MaxLength \in Nat

VARIABLES
    arrow,     \* cursor.IsNumberedV3(): the rows come as Arrow streams
    chunks,    \* the result the service holds
    next,      \* chunks taken from the cursor
    reader,    \* the ArrowIpcChunkReader or the ScanBuffer: how far it has read
    out,       \* the output vector of the call in progress
    given,     \* the rows DuckDB has received, in order
    pc         \* where the scan is

vars == <<arrow, chunks, next, reader, out, given, pc>>

-----------------------------------------------------------------------------
(* Results                                                                   *)

\* `sound' is FALSE for a stream that cannot be decoded or has another schema.  The rows of
\* a page come decoded from the codec; a value that cannot be cast is a step of Fails.
Chunk == [batches : UNION {[1..n -> 0..MaxLength] : n \in 0..MaxBatches}, sound : BOOLEAN]
Results == UNION {[1..n -> Chunk] : n \in 0..MaxChunks}

Batches(k) == chunks[k].batches

\* The rows of the first k chunks, and their order.
RowsOf(k) ==
    {x \in (1..k) \X (1..MaxBatches) \X (1..MaxLength) :
        x[2] \in DOMAIN Batches(x[1]) /\ x[3] <= Batches(x[1])[x[2]]}

Before(x, y) ==
    \/ x[1] < y[1]
    \/ x[1] = y[1] /\ x[2] < y[2]
    \/ x[1] = y[1] /\ x[2] = y[2] /\ x[3] < y[3]

\* A reader of chunk k: the batch it has loaded (0 before the first), how much of that
\* batch it has copied, and whether it has seen the end of the stream.
NoReader == [chunk |-> 0, batch |-> 0, offset |-> 0, eos |-> FALSE]
NewReader(k) == [NoReader EXCEPT !.chunk = k]

Length(r) == IF r.batch = 0 THEN 0 ELSE Batches(r.chunk)[r.batch]
Smaller(a, b) == IF a <= b THEN a ELSE b

-----------------------------------------------------------------------------
(* Calls                                                                     *)

\* Data360QueryInit prepares the query again and refuses a schema that has changed since
\* it was bound (MetadataCompatible).
ScanInit ==
    /\ pc = "init"
    /\ pc' \in {"idle", "failed"}
    /\ UNCHANGED <<arrow, chunks, next, reader, out, given>>

\* Data360QueryFunction on an empty output vector.
Call ==
    /\ pc = "idle"
    /\ out' = <<>>
    /\ pc' = IF arrow THEN "source" ELSE "fill"
    /\ UNCHANGED <<arrow, chunks, next, reader, given>>

\* The call returns `rows'; DuckDB takes an empty vector for the end.
Return(rows) ==
    /\ given' = given \o rows
    /\ out' = <<>>
    /\ pc' = IF rows = <<>> THEN "over" ELSE "idle"

\* An exception ends the statement and the output vector is discarded.
Throws ==
    /\ pc' = "failed"
    /\ out' = <<>>
    /\ UNCHANGED <<arrow, chunks, next, reader, given>>

\* The cursor, the decoder or the conversion of a value throws in the middle of a call.
Fails ==
    /\ pc \in {"source", "fetched", "read", "fill"}
    /\ Throws

-----------------------------------------------------------------------------
(* ArrowScanSource::Next                                                     *)

\* Read on in the chunk at hand, or fetch another one.
SourceRead ==
    /\ pc = "source" /\ reader # NoReader
    /\ pc' = "read"
    /\ UNCHANGED <<arrow, chunks, next, reader, out, given>>

SourceFetch ==
    /\ pc = "source" /\ reader = NoReader
    /\ IF next < Len(chunks)
       THEN next' = next + 1 /\ pc' = "fetched" /\ UNCHANGED <<out, given>>
       ELSE Return(<<>>) /\ UNCHANGED next
    /\ UNCHANGED <<arrow, chunks, reader>>

SourceTrusts ==
    /\ pc = "fetched"
    /\ reader' = NewReader(next) /\ pc' = "source"
    /\ UNCHANGED <<arrow, chunks, next, out, given>>

\* The whole chunk is decoded once, and reported to the cursor, before a second reader
\* delivers any of it.
SourceValidate ==
    /\ pc = "fetched"
    /\ IF chunks[next].sound
       THEN /\ reader' = NewReader(next) /\ pc' = "source"
            /\ UNCHANGED <<arrow, chunks, next, out, given>>
       ELSE Throws

-----------------------------------------------------------------------------
(* ArrowIpcChunkReader::Next                                                 *)

Loading == Len(out) < VectorSize /\ reader.offset >= Length(reader)

LoadBatchKeepsOffset ==
    /\ pc = "read" /\ ~reader.eos /\ Loading
    /\ reader' = IF reader.batch < Len(Batches(reader.chunk))
                 THEN [reader EXCEPT !.batch = @ + 1]
                 ELSE [reader EXCEPT !.eos = TRUE]
    /\ UNCHANGED <<arrow, chunks, next, out, given, pc>>

\* The next batch of the stream, if there is one.
LoadBatch ==
    /\ pc = "read" /\ ~reader.eos /\ Loading
    /\ reader' = IF reader.batch < Len(Batches(reader.chunk))
                 THEN [reader EXCEPT !.batch = @ + 1, !.offset = 0]
                 ELSE [reader EXCEPT !.eos = TRUE]
    /\ UNCHANGED <<arrow, chunks, next, out, given, pc>>

SliceWhole == Length(reader) - reader.offset

\* How many rows of the batch still fit in the vector.
Slice == Smaller(Length(reader) - reader.offset, VectorSize - Len(out))

\* Copy a slice of the batch behind what the vector already holds.
ConvertSlice ==
    /\ pc = "read" /\ ~reader.eos
    /\ Len(out) < VectorSize /\ reader.offset < Length(reader)
    /\ out' = out \o [i \in 1..Slice |-> <<reader.chunk, reader.batch, reader.offset + i>>]
    /\ reader' = [reader EXCEPT !.offset = @ + Slice]
    /\ UNCHANGED <<arrow, chunks, next, given, pc>>

ReadEndAtOnce ==
    /\ pc = "read" /\ (reader.eos \/ Len(out) >= VectorSize)
    /\ Return(out)
    /\ UNCHANGED <<arrow, chunks, next, reader>>

ReadEndKeepsReader ==
    /\ pc = "read" /\ (reader.eos \/ Len(out) >= VectorSize)
    /\ IF out # <<>> THEN Return(out) ELSE pc' = "source" /\ UNCHANGED <<out, given>>
    /\ UNCHANGED <<arrow, chunks, next, reader>>

\* A vector with rows is returned; a reader that gave none is through with its chunk.
ReadEnd ==
    /\ pc = "read" /\ (reader.eos \/ Len(out) >= VectorSize)
    /\ IF out # <<>> THEN Return(out) /\ UNCHANGED reader
       ELSE pc' = "source" /\ reader' = NoReader /\ UNCHANGED <<out, given>>
    /\ UNCHANGED <<arrow, chunks, next>>

-----------------------------------------------------------------------------
(* FillDataChunk.  The buffer of pages is a reader of one batch; `eos' is     *)
(* ScanBuffer::exhausted.                                                    *)

Filling == pc = "fill" /\ Len(out) < VectorSize /\ ~reader.eos

FillNextChunk ==
    /\ Filling /\ reader.offset >= Length(reader)
    /\ IF next < Len(chunks)
       THEN /\ next' = next + 1
            /\ reader' = [NewReader(next + 1) EXCEPT !.batch = 1]
       ELSE reader' = [reader EXCEPT !.eos = TRUE] /\ UNCHANGED next
    /\ UNCHANGED <<arrow, chunks, out, given, pc>>

FillRow ==
    /\ Filling /\ reader.offset < Length(reader)
    /\ out' = Append(out, <<reader.chunk, 1, reader.offset + 1>>)
    /\ reader' = [reader EXCEPT !.offset = @ + 1]
    /\ UNCHANGED <<arrow, chunks, next, given, pc>>

FillEnd ==
    /\ pc = "fill" /\ (reader.eos \/ Len(out) >= VectorSize)
    /\ Return(out)
    /\ UNCHANGED <<arrow, chunks, next, reader>>

\* The statement has ended.
Over == pc \in {"over", "failed"} /\ UNCHANGED vars

-----------------------------------------------------------------------------
Init ==
    /\ arrow \in BOOLEAN
    /\ chunks \in Results
    /\ ~arrow => \A k \in DOMAIN chunks : Len(Batches(k)) = 1 /\ chunks[k].sound
    /\ next = 0 /\ reader = NoReader /\ out = <<>> /\ given = <<>> /\ pc = "init"

Step ==
    \/ ScanInit \/ SourceRead \/ SourceFetch \/ SourceValidate
    \/ LoadBatch \/ ConvertSlice \/ ReadEnd
    \/ FillNextChunk \/ FillRow \/ FillEnd

Next == Step \/ Call \/ Fails \/ Over

Spec == Init /\ [][Next]_vars

\* The call in progress goes on; when to ask for the next vector is DuckDB's choice.
Fairness == WF_vars(Step)

FairSpec == Spec /\ Fairness

-----------------------------------------------------------------------------
(* Properties                                                                *)

\* Every variable has its type; no output vector exceeds its capacity.
TypeOK ==
    /\ arrow \in BOOLEAN /\ chunks \in Results /\ next \in 0..Len(chunks)
    /\ reader \in [chunk : 0..MaxChunks, batch : 0..MaxBatches, offset : 0..MaxLength,
                   eos : BOOLEAN]
    /\ Len(out) <= VectorSize
    /\ pc \in {"init", "idle", "source", "fetched", "read", "fill", "over", "failed"}

\* DuckDB receives the rows of the result in their order, each once and none left out,
\* wherever vectors, batches and chunks begin and end.
RowsInOrder ==
    LET rows == given \o out
    IN  \A i \in 1..Len(rows) :
           {x \in RowsOf(Len(chunks)) : Before(x, rows[i])} = {rows[j] : j \in 1..(i - 1)}

\* An empty vector, which DuckDB takes for the end, is returned only when every row has
\* been delivered: an empty batch, chunk or page in the middle ends nothing.
EndIsReal ==
    pc = "over" => {given[i] : i \in 1..Len(given)} = RowsOf(Len(chunks))

\* No row of an Arrow chunk reaches DuckDB unless that whole chunk has been decoded.
ValidatedFirst ==
    arrow => \A i \in 1..Len(given) : chunks[given[i][1]].sound

\* Every call returns.
ScanReturns == (pc \notin {"idle", "over", "failed"}) ~> (pc \in {"idle", "over", "failed"})
=============================================================================
