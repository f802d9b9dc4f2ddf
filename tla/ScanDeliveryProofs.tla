------------------------- MODULE ScanDeliveryProofs -------------------------
(***************************************************************************)
(* Proofs about ScanDelivery: for results of any number of chunks, batches *)
(* and rows, and output vectors of any size.                               *)
(***************************************************************************)
EXTENDS ScanDelivery, TLAPS

-----------------------------------------------------------------------------
(* The inductive invariant                                                   *)

\* The rows of the result, and those that have been converted so far.
All == RowsOf(Len(chunks))
Rows == given \o out

\* A row that comes no later than offset o of batch b of chunk c.
Behind(x, c, b, o) ==
    \/ x[1] < c
    \/ x[1] = c /\ x[2] < b
    \/ x[1] = c /\ x[2] = b /\ x[3] <= o

\* What the reader, or the cursor when there is none, has put behind it.
Passed(x) ==
    IF reader.chunk = 0
    THEN x[1] < next \/ (x[1] = next /\ pc # "fetched")
    ELSE Behind(x, reader.chunk, reader.batch, reader.offset)

\* Where the scan is, by the kind of result; an output vector lives within a call.
Places ==
    /\ pc \in {"source", "fetched", "read"} => arrow
    /\ pc = "fill" => ~arrow
    /\ pc \notin {"read", "fill"} => out = <<>>
    /\ pc = "fetched" => reader = NoReader
    /\ pc = "read" => reader.chunk # 0

\* A reader belongs to the chunk taken last and stays within it; a buffer of pages has
\* the one batch of its page.
ReaderPlace ==
    /\ reader.chunk = 0 =>
          /\ reader.batch = 0 /\ reader.offset = 0
          /\ arrow => ~reader.eos
          /\ ~arrow => next = 0
    /\ reader.chunk # 0 =>
          /\ reader.chunk = next /\ reader.batch <= Len(Batches(reader.chunk))
          /\ reader.offset <= Length(reader)
          /\ ~arrow => reader.batch = 1
    /\ reader.eos =>
          /\ reader.offset = Length(reader)
          /\ arrow => reader.batch = Len(Batches(reader.chunk))
          /\ ~arrow => next = Len(chunks)

\* A page is a chunk of one batch.
Pages == ~arrow => \A k \in DOMAIN chunks : Len(Batches(k)) = 1

\* Exactly the rows behind the reader have been converted.
Converted ==
    /\ given \in Seq(All) /\ out \in Seq(All)
    /\ pc # "failed" => {Rows[i] : i \in 1..Len(Rows)} = {x \in All : Passed(x)}

\* The chunk that is read has been decoded, and so have those of the rows.
Decoded ==
    arrow =>
        /\ reader.chunk # 0 => chunks[reader.chunk].sound
        /\ \A i \in 1..Len(Rows) : chunks[Rows[i][1]].sound

ScanInv ==
    /\ TypeOK /\ Places /\ ReaderPlace /\ Pages /\ Converted /\ Decoded
    /\ RowsInOrder /\ EndIsReal

-----------------------------------------------------------------------------
(* Results and rows                                                          *)

\* A result is a sequence of chunks, and a chunk a sequence of batches.
LEMMA ResultShape ==
    ASSUME NEW c \in Results
    PROVE  /\ c \in Seq(Chunk) /\ Len(c) \in 0..MaxChunks
           /\ \A k \in 1..Len(c) :
                 /\ c[k].batches \in Seq(0..MaxLength) /\ c[k].sound \in BOOLEAN
                 /\ Len(c[k].batches) \in 0..MaxBatches
                 /\ \A b \in 1..Len(c[k].batches) : c[k].batches[b] \in 0..MaxLength
<1>1. PICK n \in 0..MaxChunks : c \in [1..n -> Chunk]
  BY DEF Results
<1>2. c \in Seq(Chunk) /\ Len(c) = n
  BY <1>1, SizesAssumption
<1>3. ASSUME NEW k \in 1..Len(c)
      PROVE  /\ c[k].batches \in Seq(0..MaxLength) /\ c[k].sound \in BOOLEAN
             /\ Len(c[k].batches) \in 0..MaxBatches
             /\ \A b \in 1..Len(c[k].batches) : c[k].batches[b] \in 0..MaxLength
  <2>1. c[k] \in Chunk
    BY <1>1, <1>2
  <2>2. c[k].sound \in BOOLEAN /\
        c[k].batches \in UNION {[1..m -> 0..MaxLength] : m \in 0..MaxBatches}
    BY <2>1 DEF Chunk
  <2>3. PICK m \in 0..MaxBatches : c[k].batches \in [1..m -> 0..MaxLength]
    BY <2>2
  <2> QED
    BY <2>2, <2>3, SizesAssumption
<1> QED
  BY <1>1, <1>2, <1>3

\* What it takes to be a row of the result.
LEMMA RowShape ==
    ASSUME TypeOK
    PROVE  /\ \A x \in All :
                 /\ x[1] \in 1..Len(chunks) /\ x[2] \in 1..Len(Batches(x[1]))
                 /\ x[3] \in 1..Batches(x[1])[x[2]] /\ x = <<x[1], x[2], x[3]>>
           /\ \A c, b, r : /\ c \in 1..Len(chunks) /\ b \in 1..Len(Batches(c))
                           /\ r \in 1..Batches(c)[b]
                           => <<c, b, r>> \in All
<1>1. chunks \in Results /\ Len(chunks) \in Nat
  BY ResultShape, SizesAssumption DEF TypeOK
<1>2. \A k \in 1..Len(chunks) :
         /\ Batches(k) \in Seq(0..MaxLength) /\ Len(Batches(k)) \in 0..MaxBatches
         /\ DOMAIN Batches(k) = 1..Len(Batches(k))
         /\ \A b \in 1..Len(Batches(k)) : Batches(k)[b] \in 0..MaxLength
  BY <1>1, ResultShape DEF Batches
<1>3. ASSUME NEW x \in All
      PROVE  /\ x[1] \in 1..Len(chunks) /\ x[2] \in 1..Len(Batches(x[1]))
             /\ x[3] \in 1..Batches(x[1])[x[2]] /\ x = <<x[1], x[2], x[3]>>
  <2>1. /\ x \in (1..Len(chunks)) \X (1..MaxBatches) \X (1..MaxLength)
        /\ x[2] \in DOMAIN Batches(x[1]) /\ x[3] <= Batches(x[1])[x[2]]
    BY DEF All, RowsOf
  <2>2. /\ x[1] \in 1..Len(chunks) /\ x[3] \in 1..MaxLength
        /\ x = <<x[1], x[2], x[3]>>
    BY <2>1
  <2>3. x[2] \in 1..Len(Batches(x[1])) /\ Batches(x[1])[x[2]] \in 0..MaxLength
    BY <1>2, <2>1, <2>2
  <2> QED
    BY <2>1, <2>2, <2>3, SizesAssumption
<1>4. ASSUME NEW c \in 1..Len(chunks), NEW b \in 1..Len(Batches(c)),
             NEW r \in 1..Batches(c)[b]
      PROVE  <<c, b, r>> \in All
  <2>1. /\ Len(Batches(c)) \in 0..MaxBatches /\ b \in DOMAIN Batches(c)
        /\ Batches(c)[b] \in 0..MaxLength
    BY <1>2
  <2>2. b \in 1..MaxBatches /\ r \in 1..MaxLength /\ r <= Batches(c)[b]
    BY <2>1, SizesAssumption
  <2> QED
    BY <2>1, <2>2 DEF All, RowsOf
<1> QED
  BY <1>3, <1>4

\* The rows of R come in the order of A, each once and none left out.
Ordered(A, R) ==
    \A i \in 1..Len(R) : {x \in A : Before(x, R[i])} = {R[j] : j \in 1..(i - 1)}
Elements(R) == {R[i] : i \in 1..Len(R)}

\* The rows behind a place.
RowsBehind(A, c, b, o) == {x \in A : Behind(x, c, b, o)}

Triples == Nat \X Nat \X Nat

\* Q is R with the n rows behind offset o of batch b of chunk c added at its end.
SliceAdded(R, Q, c, b, o, n) ==
    /\ Len(Q) = Len(R) + n
    /\ \A k \in 1..Len(R) : Q[k] = R[k]
    /\ \A i \in 1..n : Q[Len(R) + i] = <<c, b, o + i>>

\* A row of that slice, and the place of one in Q.
InSlice(x, c, b, o, k) == \E m \in 1..k : x = <<c, b, o + m>>
SlicePlace(R, Q, i, c, b, o, n) == \E k \in 1..n : i = Len(R) + k /\ Q[i] = <<c, b, o + k>>

\* The rows behind a later offset of the same batch are those behind the earlier one and
\* the rows in between.
LEMMA BehindLater ==
    ASSUME NEW x \in Triples, NEW c \in Nat, NEW b \in Nat, NEW o \in Nat, NEW k \in Nat
    PROVE  Behind(x, c, b, o + k) <=> Behind(x, c, b, o) \/ InSlice(x, c, b, o, k)
<1>1. PICK x1 \in Nat, x2 \in Nat, x3 \in Nat : x = <<x1, x2, x3>>
  BY DEF Triples
<1>2. x[1] = x1 /\ x[2] = x2 /\ x[3] = x3
  BY <1>1
<1>3. \A m \in 1..k : x = <<c, b, o + m>> <=> x1 = c /\ x2 = b /\ x3 = o + m
  BY <1>1
<1>4. x3 <= o + k <=> x3 <= o \/ \E m \in 1..k : x3 = o + m
  <2>1. CASE x3 > o /\ x3 <= o + k
    <3>1. x3 - o \in 1..k /\ x3 = o + (x3 - o)
      BY <2>1
    <3> QED
      BY <3>1
  <2>2. CASE ~(x3 > o /\ x3 <= o + k)
    BY <2>2
  <2> QED
    BY <2>1, <2>2
<1> QED
  BY <1>2, <1>3, <1>4 DEF Behind, InSlice

\* A row comes before the next one of a batch exactly when it is behind that offset.
LEMMA BeforeNext ==
    ASSUME NEW x \in Triples, NEW c \in Nat, NEW b \in Nat, NEW o \in Nat
    PROVE  Before(x, <<c, b, o + 1>>) <=> Behind(x, c, b, o)
<1>1. PICK x1 \in Nat, x2 \in Nat, x3 \in Nat : x = <<x1, x2, x3>>
  BY DEF Triples
<1>2. x[1] = x1 /\ x[2] = x2 /\ x[3] = x3
  BY <1>1
<1>3. x3 < o + 1 <=> x3 <= o
  OBVIOUS
<1> QED
  BY <1>2, <1>3 DEF Before, Behind

\* A place in the longer sequence is one of the shorter or one of the slice.
LEMMA PlacesOfSlice ==
    ASSUME NEW S, NEW R \in Seq(S), NEW Q \in Seq(S),
           NEW c \in Nat, NEW b \in Nat, NEW o \in Nat, NEW n \in Nat,
           SliceAdded(R, Q, c, b, o, n), NEW i \in 1..Len(Q)
    PROVE  (i \in 1..Len(R) /\ Q[i] = R[i]) \/ SlicePlace(R, Q, i, c, b, o, n)
<1>1. Len(R) \in Nat /\ Len(Q) = Len(R) + n
  BY DEF SliceAdded
<1>2. CASE i \in 1..Len(R)
  BY <1>2 DEF SliceAdded
<1>3. CASE i \notin 1..Len(R)
  <2>1. i - Len(R) \in 1..n /\ i = Len(R) + (i - Len(R))
    BY <1>1, <1>3
  <2> QED
    BY <2>1 DEF SliceAdded, SlicePlace
<1> QED
  BY <1>2, <1>3

\* A slice of a batch behind the rows that come before it: they are in order together.
LEMMA SliceInOrder ==
    ASSUME NEW A \in SUBSET Triples, NEW R \in Seq(A), NEW Q \in Seq(A),
           NEW c \in Nat, NEW b \in Nat, NEW o \in Nat, NEW n \in Nat,
           SliceAdded(R, Q, c, b, o, n),
           Elements(R) = RowsBehind(A, c, b, o), Ordered(A, R)
    PROVE  Elements(Q) = RowsBehind(A, c, b, o + n) /\ Ordered(A, Q)
<1>1. Len(R) \in Nat /\ Len(Q) = Len(R) + n
  BY DEF SliceAdded
<1>2. \A i \in 1..Len(Q) : Q[i] \in A /\ Q[i] \in Triples
  OBVIOUS
<1>3. \A x \in A : Behind(x, c, b, o) => \E i \in 1..Len(R) : R[i] = x
  BY DEF Elements, RowsBehind
<1>4. \A i \in 1..Len(R) : Behind(R[i], c, b, o)
  BY DEF Elements, RowsBehind
<1>5. \A i \in 1..Len(Q) :
         (i \in 1..Len(R) /\ Q[i] = R[i]) \/ SlicePlace(R, Q, i, c, b, o, n)
  <2> TAKE i \in 1..Len(Q)
  <2> QED
    BY PlacesOfSlice
<1>6. \A i \in 1..Len(R) : Q[i] = R[i] /\ i \in 1..Len(Q)
  BY <1>1 DEF SliceAdded
<1>7. \A m \in 1..n : Q[Len(R) + m] = <<c, b, o + m>> /\ Len(R) + m \in 1..Len(Q)
  BY <1>1 DEF SliceAdded
<1>8. \A k \in 0..n, x \in A :
         Behind(x, c, b, o + k) <=> Behind(x, c, b, o) \/ InSlice(x, c, b, o, k)
  <2> TAKE k \in 0..n, x \in A
  <2>1. k \in Nat /\ x \in Triples
    OBVIOUS
  <2> QED
    BY <2>1, BehindLater
<1>9. Elements(Q) = RowsBehind(A, c, b, o + n)
  <2>0. n \in 0..n
    OBVIOUS
  <2>1. \A i \in 1..Len(Q) : Behind(Q[i], c, b, o + n)
    BY <1>2, <1>4, <1>5, <1>8, <2>0, Zenon DEF SlicePlace, InSlice
  <2>2. \A x \in A : Behind(x, c, b, o + n) => \E i \in 1..Len(Q) : Q[i] = x
    <3> SUFFICES ASSUME NEW x \in A, Behind(x, c, b, o + n)
                 PROVE  \E i \in 1..Len(Q) : Q[i] = x
      OBVIOUS
    <3>1. CASE Behind(x, c, b, o)
      BY <1>3, <1>6, <3>1, Zenon
    <3>2. ASSUME NEW m \in 1..n, x = <<c, b, o + m>> PROVE \E i \in 1..Len(Q) : Q[i] = x
      BY <1>7, <3>2, Zenon
    <3> QED
      BY <1>8, <2>0, <3>1, <3>2, Zenon DEF InSlice
  <2> QED
    BY <1>2, <2>1, <2>2, Zenon DEF Elements, RowsBehind
<1>10. ASSUME NEW i \in 1..Len(Q)
       PROVE  {x \in A : Before(x, Q[i])} = {Q[j] : j \in 1..(i - 1)}
  <2>1. CASE i \in 1..Len(R)
    <3>1. \A j \in 1..(i - 1) : j \in 1..Len(R)
      BY <1>1, <2>1
    <3>2. \A j \in 1..(i - 1) : Q[j] = R[j]
      BY <1>6, <3>1
    <3>3. {x \in A : Before(x, R[i])} = {R[j] : j \in 1..(i - 1)}
      BY <2>1 DEF Ordered
    <3>4. {R[j] : j \in 1..(i - 1)} = {Q[j] : j \in 1..(i - 1)}
      BY <3>2, Zenon
    <3> QED
      BY <1>6, <2>1, <3>3, <3>4, Zenon
  <2>2. ASSUME NEW k \in 1..n, i = Len(R) + k, Q[i] = <<c, b, o + k>>
        PROVE  {x \in A : Before(x, Q[i])} = {Q[j] : j \in 1..(i - 1)}
    <3>1. k - 1 \in 0..n /\ o + (k - 1) \in Nat /\ o + k = (o + (k - 1)) + 1
      OBVIOUS
    <3>2. \A x \in A : Before(x, Q[i]) <=> Behind(x, c, b, o + (k - 1))
      <4>1. \A x \in A : Before(x, <<c, b, (o + (k - 1)) + 1>>) <=> Behind(x, c, b, o + (k - 1))
        BY <3>1, BeforeNext
      <4> QED
        BY <2>2, <3>1, <4>1
    <3>3. \A j \in 1..(i - 1) :
             /\ j \in 1..Len(Q)
             /\ \A m \in 1..n : j = Len(R) + m => m \in 1..(k - 1)
      BY <1>1, <2>2
    <3>4. /\ \A j \in 1..Len(R) : j \in 1..(i - 1)
          /\ \A m \in 1..(k - 1) : m \in 1..n /\ Len(R) + m \in 1..(i - 1)
      <4>1. i \in Nat /\ k \in Nat /\ n \in Nat /\ k <= n /\ 1 <= k
        BY <1>1
      <4> QED
        BY <1>1, <2>2, <4>1
    <3>5. \A j \in 1..(i - 1) : Behind(Q[j], c, b, o + (k - 1))
      <4> SUFFICES ASSUME NEW j \in 1..(i - 1) PROVE Behind(Q[j], c, b, o + (k - 1))
        OBVIOUS
      <4>1. j \in 1..Len(Q) /\ Q[j] \in A
        BY <1>2, <3>3
      <4>2. CASE j \in 1..Len(R) /\ Q[j] = R[j]
        BY <1>4, <1>8, <3>1, <4>1, <4>2, Zenon
      <4>3. ASSUME NEW m \in 1..n, j = Len(R) + m, Q[j] = <<c, b, o + m>>
            PROVE  Behind(Q[j], c, b, o + (k - 1))
        BY <1>8, <3>1, <3>3, <4>1, <4>3, Zenon DEF InSlice
      <4> QED
        BY <1>5, <4>1, <4>2, <4>3, Zenon DEF SlicePlace
    <3>6. \A x \in A : Behind(x, c, b, o + (k - 1)) => \E j \in 1..(i - 1) : Q[j] = x
      <4> SUFFICES ASSUME NEW x \in A, Behind(x, c, b, o + (k - 1))
                   PROVE  \E j \in 1..(i - 1) : Q[j] = x
        OBVIOUS
      <4>1. CASE Behind(x, c, b, o)
        BY <1>3, <1>6, <3>4, <4>1, Zenon
      <4>2. ASSUME NEW m \in 1..(k - 1), x = <<c, b, o + m>>
            PROVE  \E j \in 1..(i - 1) : Q[j] = x
        BY <1>7, <3>4, <4>2, Zenon
      <4> QED
        BY <1>8, <3>1, <4>1, <4>2, Zenon DEF InSlice
    <3> QED
      BY <1>2, <3>2, <3>3, <3>5, <3>6, Zenon
  <2> QED
    BY <1>5, <2>1, <2>2 DEF SlicePlace
<1> QED
  BY <1>9, <1>10 DEF Ordered

-----------------------------------------------------------------------------
(* What the invariant says of the state                                      *)

\* The result and the reader, field by field.
LEMMA StateShape ==
    ASSUME ScanInv
    PROVE  /\ arrow \in BOOLEAN
           /\ Len(chunks) \in Nat /\ Len(chunks) <= MaxChunks
           /\ DOMAIN chunks = 1..Len(chunks)
           /\ next \in Nat /\ next <= Len(chunks)
           /\ \A k \in 1..Len(chunks) :
                 /\ Len(Batches(k)) \in Nat /\ Len(Batches(k)) <= MaxBatches
                 /\ \A b \in 1..Len(Batches(k)) :
                       Batches(k)[b] \in Nat /\ Batches(k)[b] <= MaxLength
           /\ Len(out) \in Nat /\ Len(given) \in Nat
<1>1. chunks \in Results /\ arrow \in BOOLEAN /\ next \in 0..Len(chunks)
  BY DEF ScanInv, TypeOK
<1>2. /\ Len(chunks) \in 0..MaxChunks /\ DOMAIN chunks = 1..Len(chunks)
      /\ \A k \in 1..Len(chunks) :
            /\ Len(Batches(k)) \in 0..MaxBatches
            /\ \A b \in 1..Len(Batches(k)) : Batches(k)[b] \in 0..MaxLength
  BY <1>1, ResultShape DEF Batches
<1>3. Len(out) \in Nat /\ Len(given) \in Nat
  <2>1. given \in Seq(All) /\ out \in Seq(All)
    BY DEF ScanInv, Converted
  <2> QED
    BY <2>1
<1>4. Len(chunks) \in Nat /\ Len(chunks) <= MaxChunks /\ next \in Nat /\ next <= Len(chunks)
  BY <1>1, <1>2, SizesAssumption
<1>5. \A k \in 1..Len(chunks) :
         /\ Len(Batches(k)) \in Nat /\ Len(Batches(k)) <= MaxBatches
         /\ \A b \in 1..Len(Batches(k)) :
               Batches(k)[b] \in Nat /\ Batches(k)[b] <= MaxLength
  BY <1>2, SizesAssumption
<1> QED
  BY <1>1, <1>2, <1>3, <1>4, <1>5

\* The reader stays within a batch of the chunk that was taken last.
LEMMA ReaderShape ==
    ASSUME ScanInv
    PROVE  /\ reader.chunk \in Nat /\ reader.batch \in Nat /\ reader.offset \in Nat
           /\ reader.eos \in BOOLEAN
           /\ reader.chunk # 0 => reader.chunk \in 1..Len(chunks) /\ reader.chunk = next
           /\ Length(reader) \in Nat /\ Length(reader) <= MaxLength
           /\ reader.batch # 0 => /\ reader.chunk \in 1..Len(chunks)
                                  /\ reader.batch \in 1..Len(Batches(reader.chunk))
                                  /\ Length(reader) = Batches(reader.chunk)[reader.batch]
           /\ reader.offset <= Length(reader)
           /\ arrow /\ reader.chunk = 0 => reader = NoReader
<1>1. /\ reader \in [chunk : 0..MaxChunks, batch : 0..MaxBatches, offset : 0..MaxLength,
                     eos : BOOLEAN]
      /\ ReaderPlace
  BY DEF ScanInv, TypeOK
<1>2. /\ reader.chunk \in Nat /\ reader.batch \in Nat /\ reader.offset \in Nat
      /\ reader.eos \in BOOLEAN
  BY <1>1, SizesAssumption
<1>3. reader.chunk # 0 => reader.chunk \in 1..Len(chunks) /\ reader.chunk = next
  BY <1>1, <1>2, StateShape DEF ReaderPlace
<1>4. reader.batch # 0 => /\ reader.chunk \in 1..Len(chunks)
                          /\ reader.batch \in 1..Len(Batches(reader.chunk))
  BY <1>1, <1>2, <1>3, StateShape DEF ReaderPlace
<1>5. /\ Length(reader) \in Nat /\ Length(reader) <= MaxLength
      /\ reader.batch # 0 => Length(reader) = Batches(reader.chunk)[reader.batch]
  BY <1>2, <1>4, StateShape, SizesAssumption DEF Length
<1>6. reader.offset <= Length(reader)
  BY <1>1, <1>2, <1>5 DEF ReaderPlace
<1>7. arrow /\ reader.chunk = 0 => reader = NoReader
  BY <1>1, <1>2 DEF ReaderPlace, NoReader
<1> QED
  BY <1>2, <1>3, <1>4, <1>5, <1>6, <1>7

\* The rows are triples of numbers.
LEMMA RowsAreTriples ==
    ASSUME ScanInv PROVE All \in SUBSET Triples
<1>1. TypeOK
  BY DEF ScanInv
<1>2. ASSUME NEW x \in All PROVE x \in Triples
  <2>1. /\ x[1] \in 1..Len(chunks) /\ x[2] \in 1..Len(Batches(x[1]))
        /\ x[3] \in 1..Batches(x[1])[x[2]] /\ x = <<x[1], x[2], x[3]>>
    BY <1>1, RowShape
  <2>2. Len(chunks) \in Nat /\ Len(Batches(x[1])) \in Nat /\ Batches(x[1])[x[2]] \in Nat
    BY <2>1, StateShape
  <2>3. x[1] \in Nat /\ x[2] \in Nat /\ x[3] \in Nat
    BY <2>1, <2>2
  <2> QED
    BY <2>1, <2>3 DEF Triples
<1> QED
  BY <1>2

\* The result does not change, and neither do its rows.
LEMMA ResultFixed ==
    ASSUME chunks' = chunks
    PROVE  All' = All /\ \A k : Batches(k)' = Batches(k)
BY DEF All, RowsOf, Batches

\* RowsInOrder in terms of Ordered.
LEMMA InOrder ==
    /\ RowsInOrder <=> Ordered(All, Rows)
    /\ RowsInOrder' <=> Ordered(All', Rows')
BY DEF RowsInOrder, Ordered, All, Rows

-----------------------------------------------------------------------------
(* What a step does to the rows                                              *)

\* The part of the invariant that is about rows.
RowsInv == Converted /\ Decoded /\ RowsInOrder

\* A step that converts no row and moves the reader past none.
LEMMA QuietRows ==
    ASSUME ScanInv, chunks' = chunks, arrow' = arrow, pc # "failed",
           given' \in Seq(All), out' \in Seq(All), Rows' = Rows,
           \A x \in All : Passed(x)' <=> Passed(x),
           arrow /\ reader'.chunk # 0 => chunks[reader'.chunk].sound
    PROVE  RowsInv'
<1>1. All' = All
  BY ResultFixed
<1>2. Converted /\ Decoded /\ RowsInOrder
  BY DEF ScanInv
<1>3. {x \in All' : Passed(x)'} = {x \in All : Passed(x)}
  BY <1>1, Zenon
<1>4. Converted'
  <2>1. {Rows[i] : i \in 1..Len(Rows)} = {x \in All : Passed(x)}
    BY <1>2 DEF Converted
  <2>2. {Rows'[i] : i \in 1..Len(Rows')} = {x \in All' : Passed(x)'}
    BY <1>3, <2>1
  <2> QED
    BY <1>1, <2>2 DEF Converted
<1>5. Decoded'
  BY <1>2 DEF Decoded
<1>6. RowsInOrder'
  BY <1>1, <1>2, InOrder
<1> QED
  BY <1>4, <1>5, <1>6 DEF RowsInv

\* An exception: the rows that were given stay as they are.
LEMMA ThrownRows ==
    ASSUME ScanInv, Throws
    PROVE  RowsInv'
<1>1. /\ chunks' = chunks /\ arrow' = arrow /\ given' = given /\ out' = <<>>
      /\ pc' = "failed" /\ reader' = reader /\ All' = All
  BY ResultFixed DEF Throws
<1>2. Converted /\ Decoded /\ RowsInOrder /\ given \in Seq(All) /\ out \in Seq(All)
  BY DEF ScanInv, Converted
<1>3. Rows' = given
  BY <1>1, <1>2 DEF Rows
<1>4. /\ Len(given) \in Nat /\ Len(Rows) \in Nat /\ Len(given) <= Len(Rows)
      /\ \A i \in 1..Len(given) : i \in 1..Len(Rows) /\ Rows[i] = given[i]
  BY <1>2 DEF Rows
<1>5. Converted'
  BY <1>1, <1>2 DEF Converted
<1>6. Decoded'
  <2>1. \A i \in 1..Len(given) : arrow => chunks[given[i][1]].sound
    BY <1>2, <1>4 DEF Decoded
  <2> QED
    BY <1>1, <1>2, <1>3, <2>1 DEF Decoded
<1>7. Ordered(All, given)
  <2>1. ASSUME NEW i \in 1..Len(given)
        PROVE  {x \in All : Before(x, given[i])} = {given[j] : j \in 1..(i - 1)}
    <3>1. {x \in All : Before(x, Rows[i])} = {Rows[j] : j \in 1..(i - 1)}
      BY <1>2, <1>4, InOrder DEF Ordered
    <3>2. \A j \in 1..(i - 1) : j \in 1..Len(given)
      BY <1>4
    <3>3. \A j \in 1..(i - 1) : Rows[j] = given[j]
      BY <1>4, <3>2
    <3>4. {Rows[j] : j \in 1..(i - 1)} = {given[j] : j \in 1..(i - 1)}
      BY <3>3, Zenon
    <3> QED
      BY <1>4, <3>1, <3>4
  <2> QED
    BY <2>1 DEF Ordered
<1> QED
  BY <1>1, <1>3, <1>5, <1>6, <1>7, InOrder DEF RowsInv

\* Rows added to the output vector come behind all others.
LEMMA RowsGrow ==
    ASSUME NEW s \in Seq(All), given \in Seq(All), out \in Seq(All),
           given' = given, out' = out \o s
    PROVE  /\ Rows \in Seq(All) /\ Rows' \in Seq(All) /\ out' \in Seq(All)
           /\ Len(Rows) \in Nat /\ Len(Rows') = Len(Rows) + Len(s)
           /\ \A k \in 1..Len(Rows) : Rows'[k] = Rows[k]
           /\ \A i \in 1..Len(s) : Rows'[Len(Rows) + i] = s[i]
<1>1. Rows = given \o out /\ Rows' = given \o (out \o s)
  BY DEF Rows
<1>2. /\ out \o s \in Seq(All) /\ given \o out \in Seq(All)
      /\ given \o (out \o s) \in Seq(All)
      /\ Len(given \o out) \in Nat /\ Len(given \o (out \o s)) = Len(given \o out) + Len(s)
      /\ \A k \in 1..Len(given \o out) : (given \o (out \o s))[k] = (given \o out)[k]
      /\ \A i \in 1..Len(s) : (given \o (out \o s))[Len(given \o out) + i] = s[i]
  OBVIOUS
<1> QED
  BY <1>1, <1>2

\* What a slice adds, in the terms of the state.
LEMMA SliceOfRows ==
    ASSUME NEW c \in Nat, NEW b \in Nat, NEW o \in Nat, NEW n \in Nat,
           All \in SUBSET Triples, Rows \in Seq(All), Rows' \in Seq(All),
           SliceAdded(Rows, Rows', c, b, o, n),
           Elements(Rows) = RowsBehind(All, c, b, o), Ordered(All, Rows)
    PROVE  Elements(Rows') = RowsBehind(All, c, b, o + n) /\ Ordered(All, Rows')
BY SliceInOrder

\* A slice of the loaded batch is converted.
LEMMA SliceRows ==
    ASSUME ScanInv, NEW n \in Nat, NEW s \in Seq(All), chunks' = chunks, arrow' = arrow,
           given' = given, pc' = pc, pc # "failed", next' = next,
           reader.chunk # 0, reader.batch # 0,
           Len(s) = n, \A i \in 1..n : s[i] = <<reader.chunk, reader.batch, reader.offset + i>>,
           out' = out \o s,
           reader'.chunk = reader.chunk, reader'.batch = reader.batch,
           reader'.offset = reader.offset + n
    PROVE  RowsInv'
<1>1. All' = All
  BY ResultFixed
<1>2. Converted /\ Decoded /\ RowsInOrder /\ given \in Seq(All) /\ out \in Seq(All)
  BY DEF ScanInv, Converted
<1> DEFINE c == reader.chunk
           b == reader.batch
           o == reader.offset
<1>3. c \in Nat /\ b \in Nat /\ o \in Nat
  BY ReaderShape
<1>5. /\ Rows \in Seq(All) /\ Rows' \in Seq(All) /\ out' \in Seq(All)
      /\ Len(Rows) \in Nat /\ Len(Rows') = Len(Rows) + n
      /\ \A k \in 1..Len(Rows) : Rows'[k] = Rows[k]
      /\ \A i \in 1..n : Rows'[Len(Rows) + i] = s[i]
  BY <1>2, RowsGrow
<1>6. SliceAdded(Rows, Rows', c, b, o, n)
  BY <1>5 DEF SliceAdded
<1>7. Elements(Rows) = RowsBehind(All, c, b, o)
  <2>1. Elements(Rows) = {x \in All : Passed(x)}
    BY <1>2 DEF Converted, Elements
  <2>2. \A x \in All : Passed(x) <=> Behind(x, c, b, o)
    BY DEF Passed
  <2> QED
    BY <2>1, <2>2, Zenon DEF RowsBehind
<1>8. Ordered(All, Rows) /\ All \in SUBSET Triples
  BY <1>2, InOrder, RowsAreTriples
<1>9. Elements(Rows') = RowsBehind(All, c, b, o + n) /\ Ordered(All, Rows')
  <2> HIDE DEF c, b, o
  <2> QED
    BY <1>3, <1>5, <1>6, <1>7, <1>8, SliceOfRows
<1>10. Converted'
  <2>1. \A x \in All' : Passed(x)' <=> Behind(x, c, b, o + n)
    BY DEF Passed
  <2>2. {x \in All' : Passed(x)'} = RowsBehind(All, c, b, o + n)
    BY <1>1, <2>1, Zenon DEF RowsBehind
  <2> QED
    BY <1>1, <1>2, <1>5, <1>9, <2>2 DEF Converted, Elements
<1>11. Decoded'
  <2>1. ASSUME arrow, NEW i \in 1..Len(Rows') PROVE chunks[Rows'[i][1]].sound
    <3>1. CASE i \in 1..Len(Rows)
      BY <1>2, <1>5, <2>1, <3>1 DEF Decoded
    <3>2. ASSUME NEW k \in 1..n, Rows'[i] = <<c, b, o + k>>
          PROVE  chunks[Rows'[i][1]].sound
      <4>1. Rows'[i][1] = c
        BY <3>2
      <4> QED
        BY <1>2, <2>1, <4>1 DEF Decoded
    <3> QED
      <4> HIDE DEF c, b, o
      <4>1. (i \in 1..Len(Rows) /\ Rows'[i] = Rows[i]) \/ SlicePlace(Rows, Rows', i, c, b, o, n)
        BY <1>3, <1>5, <1>6, PlacesOfSlice
      <4> QED
        BY <3>1, <3>2, <4>1 DEF SlicePlace
  <2> QED
    BY <1>2, <2>1 DEF Decoded
<1> QED
  BY <1>1, <1>9, <1>10, <1>11, InOrder DEF RowsInv

-----------------------------------------------------------------------------
(* Every step keeps the invariant                                            *)

\* The part of the invariant that is not about rows.
ShapeInv == TypeOK /\ Places /\ ReaderPlace /\ Pages

\* The invariant in its three parts.
LEMMA ScanParts ==
    /\ ScanInv <=> ShapeInv /\ RowsInv /\ EndIsReal
    /\ ScanInv' <=> ShapeInv' /\ RowsInv' /\ EndIsReal'
BY DEF ScanInv, ShapeInv, RowsInv

\* An exception from the middle of a call.
LEMMA ThrowsStep ==
    ASSUME ScanInv, Throws
    PROVE  ScanInv'
<1>1. ShapeInv'
  <2>1. TypeOK /\ Places /\ ReaderPlace /\ Pages
    BY DEF ScanInv
  <2>2. TypeOK'
    BY <2>1, SizesAssumption DEF TypeOK, Throws
  <2>3. Places'
    BY <2>1 DEF Places, Throws
  <2>4. ReaderPlace' /\ Pages'
    BY <2>1 DEF ReaderPlace, Pages, Throws, Length, Batches
  <2> QED
    BY <2>2, <2>3, <2>4 DEF ShapeInv
<1>2. EndIsReal'
  BY DEF EndIsReal, Throws
<1> QED
  BY <1>1, <1>2, ThrownRows, ScanParts

\* A step that leaves the result, the reader and the rows alone.
LEMMA MoveStep ==
    ASSUME ScanInv, ScanInit \/ Call \/ SourceRead
    PROVE  ScanInv'
<1>1. TypeOK /\ Places /\ ReaderPlace /\ Pages /\ Converted /\ Decoded
  BY DEF ScanInv
<1>2. /\ UNCHANGED <<arrow, chunks, next, reader, given>>
      /\ pc \in {"init", "idle", "source"} /\ pc' \in {"idle", "failed", "source", "fill", "read"}
      /\ out' = out /\ out = <<>>
  BY <1>1 DEF Places, ScanInit, Call, SourceRead
<1>3. TypeOK'
  BY <1>1, <1>2 DEF TypeOK
<1>4. Places'
  <2>1. pc' = "read" => reader.chunk # 0
    <3>1. CASE SourceRead
      BY <1>1, <3>1, ReaderShape DEF SourceRead, Places
    <3>2. CASE ScanInit \/ Call
      BY <3>2 DEF ScanInit, Call
    <3> QED
      BY <3>1, <3>2
  <2>2. /\ pc' \in {"source", "read"} => arrow
        /\ pc' = "fill" => ~arrow
    BY <1>1 DEF ScanInit, Call, SourceRead, Places
  <2> QED
    BY <1>2, <2>1, <2>2 DEF Places
<1>5. ReaderPlace' /\ Pages'
  BY <1>1, <1>2 DEF ReaderPlace, Pages, Length, Batches
<1>6. RowsInv'
  <2>1. \A x \in All : Passed(x)' <=> Passed(x)
    BY <1>2 DEF Passed
  <2>2. Rows' = Rows /\ given' \in Seq(All) /\ out' \in Seq(All)
    BY <1>1, <1>2 DEF Rows, Converted
  <2>3. arrow /\ reader'.chunk # 0 => chunks[reader'.chunk].sound
    BY <1>1, <1>2 DEF Decoded
  <2> QED
    BY <1>2, <2>1, <2>2, <2>3, QuietRows
<1>7. EndIsReal'
  BY <1>2 DEF EndIsReal
<1> QED
  BY <1>3, <1>4, <1>5, <1>6, <1>7, ScanParts DEF ShapeInv

\* An empty vector is returned where nothing is left.
LEMMA LastReturn ==
    ASSUME ScanInv, RowsInv', chunks' = chunks, out' = <<>>, pc' # "failed",
           \A x \in All : Passed(x)'
    PROVE  EndIsReal'
<1>1. All' = All
  BY ResultFixed
<1>2. given' \in Seq(All) /\ {Rows'[i] : i \in 1..Len(Rows')} = {x \in All' : Passed(x)'}
  BY <1>1 DEF RowsInv, Converted
<1>3. Rows' = given'
  BY <1>2 DEF Rows
<1>4. {x \in All' : Passed(x)'} = All
  BY <1>1, Zenon
<1>5. {given'[i] : i \in 1..Len(given')} = All'
  BY <1>1, <1>2, <1>3, <1>4
<1> QED
  BY <1>5 DEF EndIsReal, All

\* The numbers of a row, and the bounds on them.
LEMMA RowNumbers ==
    ASSUME ScanInv
    PROVE  \A x \in All :
              /\ x[1] \in Nat /\ x[2] \in Nat /\ x[3] \in Nat
              /\ 1 <= x[1] /\ x[1] <= Len(chunks) /\ 1 <= x[2] /\ 1 <= x[3]
              /\ x[2] <= Len(Batches(x[1])) /\ x[3] <= Batches(x[1])[x[2]]
<1>1. TypeOK
  BY DEF ScanInv
<1> TAKE x \in All
<1>2. /\ x[1] \in 1..Len(chunks) /\ x[2] \in 1..Len(Batches(x[1]))
      /\ x[3] \in 1..Batches(x[1])[x[2]]
  BY <1>1, RowShape
<1>3. Len(chunks) \in Nat /\ Len(Batches(x[1])) \in Nat /\ Batches(x[1])[x[2]] \in Nat
  BY <1>2, StateShape
<1> QED
  BY <1>2, <1>3

\* The whole of the reader's chunk is behind a reader at its last row.
LEMMA WholeChunk ==
    ASSUME ScanInv, reader.chunk # 0, reader.offset = Length(reader),
           reader.batch = Len(Batches(reader.chunk))
    PROVE  \A x \in All : Passed(x) <=> x[1] <= next
<1> TAKE x \in All
<1>1. /\ x[1] \in Nat /\ x[2] \in Nat /\ x[3] \in Nat /\ next \in Nat
      /\ 1 <= x[2] /\ x[2] <= Len(Batches(x[1])) /\ x[3] <= Batches(x[1])[x[2]]
  BY RowNumbers, StateShape
<1>2. reader.chunk = next /\ reader.batch \in Nat /\ reader.offset \in Nat
  BY ReaderShape
<1>3. x[1] = next => x[2] < reader.batch \/ (x[2] = reader.batch /\ x[3] <= reader.offset)
  BY <1>1, <1>2, ReaderShape
<1> QED
  BY <1>1, <1>2, <1>3 DEF Passed, Behind

\* The next chunk is taken from the cursor, or the cursor has none left.
LEMMA FetchStep ==
    ASSUME ScanInv, SourceFetch
    PROVE  ScanInv'
<1>1. TypeOK /\ Places /\ ReaderPlace /\ Pages /\ Converted /\ Decoded
  BY DEF ScanInv
<1>2. /\ pc = "source" /\ reader = NoReader /\ out = <<>> /\ arrow
      /\ UNCHANGED <<arrow, chunks, reader>>
      /\ reader.chunk = 0 /\ next \in Nat /\ Len(chunks) \in Nat /\ next <= Len(chunks)
  BY <1>1, StateShape DEF SourceFetch, Places, NoReader
<1>3. \/ next < Len(chunks) /\ next' = next + 1 /\ pc' = "fetched"
      \/ next = Len(chunks) /\ next' = next /\ pc' = "over"
  BY <1>2 DEF SourceFetch, Return
<1>4. given' = given /\ out' = <<>>
  <2>1. given \o <<>> = given
    BY <1>1 DEF Converted
  <2> QED
    BY <1>2, <2>1 DEF SourceFetch, Return
<1>5. TypeOK'
  BY <1>1, <1>2, <1>3, <1>4 DEF TypeOK
<1>6. Places'
  BY <1>2, <1>3, <1>4 DEF Places
<1>7. ReaderPlace' /\ Pages'
  BY <1>1, <1>2 DEF ReaderPlace, Pages, Length, Batches
<1>8. \A x \in All : Passed(x)' <=> Passed(x)
  <2> TAKE x \in All
  <2>1. x[1] \in Nat
    BY RowNumbers
  <2> QED
    BY <1>2, <1>3, <2>1 DEF Passed
<1>9. RowsInv'
  <2>1. Rows' = Rows /\ given' \in Seq(All) /\ out' \in Seq(All)
    BY <1>1, <1>2, <1>4 DEF Rows, Converted
  <2> QED
    BY <1>2, <1>8, <2>1, QuietRows
<1>10. EndIsReal'
  <2>1. CASE pc' = "fetched"
    BY <2>1 DEF EndIsReal
  <2>2. CASE next = Len(chunks) /\ next' = next /\ pc' = "over"
    <3>1. \A x \in All : Passed(x)'
      BY <1>2, <2>2, RowNumbers DEF Passed
    <3> QED
      BY <1>2, <1>4, <1>9, <2>2, <3>1, LastReturn
  <2> QED
    BY <1>3, <2>1, <2>2
<1> QED
  BY <1>5, <1>6, <1>7, <1>9, <1>10, ScanParts DEF ShapeInv

\* A chunk that decodes to its end gets a reader; another one ends the statement.
LEMMA ValidateStep ==
    ASSUME ScanInv, SourceValidate
    PROVE  ScanInv'
<1>1. TypeOK /\ Places /\ ReaderPlace /\ Pages /\ Converted /\ Decoded
  BY DEF ScanInv
<1>2. pc = "fetched" /\ reader = NoReader /\ out = <<>> /\ arrow /\ reader.chunk = 0
  BY <1>1 DEF SourceValidate, Places, NoReader
<1>3. CASE ~chunks[next].sound
  BY <1>3, ThrowsStep DEF SourceValidate
<1>4. CASE chunks[next].sound
  <2>1. /\ reader' = [chunk |-> next, batch |-> 0, offset |-> 0, eos |-> FALSE]
        /\ pc' = "source" /\ UNCHANGED <<arrow, chunks, next, out, given>>
    BY <1>4 DEF SourceValidate, NewReader, NoReader
  <2>2. TypeOK'
    BY <1>1, <2>1, StateShape, SizesAssumption DEF TypeOK
  <2>3. Places'
    BY <1>2, <2>1 DEF Places
  <2>4. ReaderPlace'
    <3>1. next # 0 => Len(Batches(next)) \in Nat
      BY StateShape
    <3> QED
      BY <1>2, <2>1, <3>1 DEF ReaderPlace, Length, Batches
  <2>5. Pages'
    BY <1>1, <2>1 DEF Pages, Batches
  <2>6. \A x \in All : Passed(x)' <=> Passed(x)
    <3> TAKE x \in All
    <3>1. x[1] \in Nat /\ x[2] \in Nat /\ x[3] \in Nat /\ 1 <= x[1] /\ 1 <= x[2] /\ next \in Nat
      BY RowNumbers, StateShape
    <3> QED
      BY <1>2, <2>1, <3>1 DEF Passed, Behind
  <2>7. RowsInv'
    <3>1. Rows' = Rows /\ given' \in Seq(All) /\ out' \in Seq(All)
      BY <1>1, <2>1 DEF Rows, Converted
    <3>2. arrow /\ reader'.chunk # 0 => chunks[reader'.chunk].sound
      BY <1>4, <2>1
    <3> QED
      BY <1>2, <2>1, <2>6, <3>1, <3>2, QuietRows
  <2>8. EndIsReal'
    BY <2>1 DEF EndIsReal
  <2> QED
    BY <2>2, <2>3, <2>4, <2>5, <2>7, <2>8, ScanParts DEF ShapeInv
<1> QED
  BY <1>3, <1>4

\* The first place of the next batch has the same rows behind it as the end of this one.
LEMMA NextBatch ==
    ASSUME ScanInv, reader.chunk # 0, reader.offset = Length(reader)
    PROVE  \A x \in All : Passed(x) <=> Behind(x, reader.chunk, reader.batch + 1, 0)
<1> TAKE x \in All
<1>1. /\ x[1] \in Nat /\ x[2] \in Nat /\ x[3] \in Nat /\ next \in Nat
      /\ 1 <= x[2] /\ 1 <= x[3] /\ x[3] <= Batches(x[1])[x[2]]
  BY RowNumbers, StateShape
<1>2. reader.chunk \in Nat /\ reader.batch \in Nat /\ reader.offset \in Nat
  BY ReaderShape
<1>3. x[1] = reader.chunk /\ x[2] = reader.batch => x[3] <= reader.offset
  BY <1>1, <1>2, ReaderShape
<1>4. x[2] < reader.batch + 1 <=> x[2] < reader.batch \/ x[2] = reader.batch
  BY <1>1, <1>2
<1> QED
  BY <1>1, <1>2, <1>3, <1>4 DEF Passed, Behind

\* The next batch is loaded, or the stream has ended; no row is passed over.
LEMMA LoadStep ==
    ASSUME ScanInv, LoadBatch
    PROVE  ScanInv'
<1>1. TypeOK /\ Places /\ ReaderPlace /\ Pages /\ Converted /\ Decoded
  BY DEF ScanInv
<1>2. /\ pc = "read" /\ arrow /\ ~reader.eos /\ reader.chunk # 0
      /\ UNCHANGED <<arrow, chunks, next, out, given, pc>>
  BY <1>1 DEF LoadBatch, Places
<1>3. /\ reader.chunk \in 1..Len(chunks) /\ reader.chunk = next /\ reader.batch \in Nat
      /\ reader.offset \in Nat /\ Length(reader) \in Nat /\ Length(reader) <= MaxLength
      /\ reader.offset = Length(reader)
  BY <1>2, ReaderShape DEF LoadBatch, Loading
<1>4. /\ Len(Batches(reader.chunk)) \in Nat /\ Len(Batches(reader.chunk)) <= MaxBatches
      /\ \A b \in 1..Len(Batches(reader.chunk)) : Batches(reader.chunk)[b] \in Nat
  BY <1>3, StateShape
<1>5. CASE reader.batch < Len(Batches(reader.chunk))
  <2>1. /\ reader' = [reader EXCEPT !.batch = reader.batch + 1, !.offset = 0]
    BY <1>5 DEF LoadBatch
  <2>2. /\ reader'.chunk = reader.chunk /\ reader'.batch = reader.batch + 1
        /\ reader'.offset = 0 /\ reader'.eos = reader.eos
    BY <1>1, <2>1 DEF TypeOK
  <2>3. reader.batch + 1 \in 0..MaxBatches /\ 0 \in 0..MaxLength
    BY <1>3, <1>4, <1>5, SizesAssumption
  <2>4. TypeOK'
    BY <1>1, <1>2, <2>1, <2>3 DEF TypeOK
  <2>5. Places'
    BY <1>1, <1>2, <2>2 DEF Places
  <2>6. ReaderPlace'
    <3>1. reader.batch + 1 \in 1..Len(Batches(reader.chunk))
      BY <1>3, <1>4, <1>5
    <3>2. Batches(reader.chunk)[reader.batch + 1] \in Nat
      BY <1>4, <3>1
    <3>3. reader.batch + 1 # 0 /\ reader.batch + 1 <= Len(Batches(reader.chunk))
      BY <1>3, <1>4, <3>1
    <3> QED
      BY <1>2, <1>3, <2>2, <3>2, <3>3 DEF ReaderPlace, Length, Batches
  <2>7. Pages'
    BY <1>1, <1>2 DEF Pages, Batches
  <2>8. \A x \in All : Passed(x)' <=> Passed(x)
    <3>1. \A x \in All : Passed(x)' <=> Behind(x, reader.chunk, reader.batch + 1, 0)
      BY <1>2, <2>2 DEF Passed
    <3> QED
      BY <1>2, <1>3, <3>1, NextBatch
  <2>9. RowsInv'
    <3>1. Rows' = Rows /\ given' \in Seq(All) /\ out' \in Seq(All)
      BY <1>1, <1>2 DEF Rows, Converted
    <3>2. arrow /\ reader'.chunk # 0 => chunks[reader'.chunk].sound
      BY <1>1, <2>2 DEF Decoded
    <3> QED
      BY <1>2, <2>8, <3>1, <3>2, QuietRows
  <2>10. EndIsReal'
    BY <1>2 DEF EndIsReal
  <2> QED
    BY <2>4, <2>5, <2>6, <2>7, <2>9, <2>10, ScanParts DEF ShapeInv
<1>6. CASE ~(reader.batch < Len(Batches(reader.chunk)))
  <2>1. reader' = [reader EXCEPT !.eos = TRUE]
    BY <1>6 DEF LoadBatch
  <2>2. /\ reader'.chunk = reader.chunk /\ reader'.batch = reader.batch
        /\ reader'.offset = reader.offset /\ reader'.eos = TRUE
    BY <1>1, <2>1 DEF TypeOK
  <2>3. reader.batch = Len(Batches(reader.chunk))
    BY <1>1, <1>2, <1>3, <1>4, <1>6 DEF ReaderPlace
  <2>4. TypeOK'
    BY <1>1, <1>2, <2>1 DEF TypeOK
  <2>5. Places'
    BY <1>1, <1>2, <2>2 DEF Places
  <2>6. ReaderPlace'
    BY <1>1, <1>2, <1>3, <2>2, <2>3 DEF ReaderPlace, Length, Batches
  <2>7. Pages'
    BY <1>1, <1>2 DEF Pages, Batches
  <2>8. \A x \in All : Passed(x)' <=> Passed(x)
    BY <1>2, <2>2 DEF Passed
  <2>9. RowsInv'
    <3>1. Rows' = Rows /\ given' \in Seq(All) /\ out' \in Seq(All)
      BY <1>1, <1>2 DEF Rows, Converted
    <3>2. arrow /\ reader'.chunk # 0 => chunks[reader'.chunk].sound
      BY <1>1, <2>2 DEF Decoded
    <3> QED
      BY <1>2, <2>8, <3>1, <3>2, QuietRows
  <2>10. EndIsReal'
    BY <1>2 DEF EndIsReal
  <2> QED
    BY <2>4, <2>5, <2>6, <2>7, <2>9, <2>10, ScanParts DEF ShapeInv
<1> QED
  BY <1>5, <1>6

\* A slice that fits in the batch and in the vector.
LEMMA SliceStep ==
    ASSUME ScanInv, NEW n \in Nat, pc \in {"read", "fill"}, reader.batch # 0,
           reader.offset + n <= Length(reader), Len(out) + n <= VectorSize, ~reader.eos,
           out' = out \o [i \in 1..n |-> <<reader.chunk, reader.batch, reader.offset + i>>],
           reader' = [reader EXCEPT !.offset = reader.offset + n],
           UNCHANGED <<arrow, chunks, next, given, pc>>
    PROVE  ScanInv'
<1>1. TypeOK /\ Places /\ ReaderPlace /\ Pages /\ Converted /\ Decoded
  BY DEF ScanInv
<1>2. /\ reader.chunk \in 1..Len(chunks) /\ reader.batch \in 1..Len(Batches(reader.chunk))
      /\ Length(reader) = Batches(reader.chunk)[reader.batch] /\ reader.chunk = next
      /\ reader.offset \in Nat /\ Length(reader) \in Nat /\ Length(reader) <= MaxLength
      /\ reader.chunk # 0
  BY ReaderShape, StateShape
<1>3. /\ reader'.chunk = reader.chunk /\ reader'.batch = reader.batch
      /\ reader'.offset = reader.offset + n /\ reader'.eos = reader.eos
  BY <1>1 DEF TypeOK
<1> DEFINE s == [i \in 1..n |-> <<reader.chunk, reader.batch, reader.offset + i>>]
<1>4. s \in Seq(All) /\ Len(s) = n
  <2>1. ASSUME NEW i \in 1..n PROVE <<reader.chunk, reader.batch, reader.offset + i>> \in All
    <3>1. reader.offset + i \in 1..Batches(reader.chunk)[reader.batch]
      BY <1>2
    <3> QED
      BY <1>1, <1>2, <3>1, RowShape
  <2>2. s \in [1..n -> All]
    BY <2>1
  <2> HIDE DEF s
  <2>3. \A S, f : f \in [1..n -> S] => f \in Seq(S) /\ Len(f) = n
    OBVIOUS
  <2> QED
    BY <2>2, <2>3, Zenon
<1>5. \A i \in 1..n : s[i] = <<reader.chunk, reader.batch, reader.offset + i>>
  OBVIOUS
<1>6. out' = out \o s
  OBVIOUS
<1> HIDE DEF s
<1>7. out \in Seq(All)
  BY <1>1 DEF Converted
<1>8. Len(out') = Len(out) + n /\ Len(out) \in Nat
  BY <1>4, <1>6, <1>7
<1>9. TypeOK'
  <2>1. reader.offset + n \in 0..MaxLength
    <3>1. \A a, l, m \in Nat : a + n <= l /\ l <= m => a + n \in 0..m
      OBVIOUS
    <3> QED
      BY <1>2, <3>1, SizesAssumption, Zenon
  <2>2. reader' \in [chunk : 0..MaxChunks, batch : 0..MaxBatches, offset : 0..MaxLength,
                     eos : BOOLEAN]
    BY <1>1, <2>1 DEF TypeOK
  <2> QED
    BY <1>1, <1>8, <2>2 DEF TypeOK
<1>10. Places'
  BY <1>1, <1>3 DEF Places
<1>11. ReaderPlace' /\ Pages'
  BY <1>1, <1>2, <1>3 DEF ReaderPlace, Pages, Length, Batches
<1>12. RowsInv'
  BY <1>2, <1>3, <1>4, <1>5, <1>6, SliceRows
<1>13. EndIsReal'
  BY DEF EndIsReal
<1> QED
  BY <1>9, <1>10, <1>11, <1>12, <1>13, ScanParts DEF ShapeInv

\* ConvertSlice adds a slice that fits in the vector.
LEMMA ConvertStep ==
    ASSUME ScanInv, ConvertSlice
    PROVE  ScanInv'
<1>1. /\ pc = "read" /\ ~reader.eos
      /\ Len(out) < VectorSize /\ reader.offset < Length(reader)
      /\ out' = out \o [i \in 1..Slice |-> <<reader.chunk, reader.batch, reader.offset + i>>]
      /\ reader' = [reader EXCEPT !.offset = reader.offset + Slice]
      /\ UNCHANGED <<arrow, chunks, next, given, pc>>
  BY DEF ConvertSlice
<1>2. /\ Len(out) \in Nat /\ reader.offset \in Nat /\ Length(reader) \in Nat
      /\ VectorSize \in Nat
  BY StateShape, ReaderShape, SizesAssumption
<1>3. /\ Slice \in Nat /\ reader.offset + Slice <= Length(reader)
      /\ Len(out) + Slice <= VectorSize
  BY <1>1, <1>2 DEF Slice, Smaller
<1>4. reader.batch # 0
  BY <1>1, <1>2 DEF Length
<1> HIDE DEF Slice
<1> QED
  BY <1>1, <1>3, <1>4, SliceStep

\* FillRow adds a slice of one row.
LEMMA FillRowStep ==
    ASSUME ScanInv, FillRow
    PROVE  ScanInv'
<1>1. /\ pc = "fill" /\ ~reader.eos
      /\ Len(out) < VectorSize /\ reader.offset < Length(reader)
      /\ out' = Append(out, <<reader.chunk, 1, reader.offset + 1>>)
      /\ reader' = [reader EXCEPT !.offset = reader.offset + 1]
      /\ UNCHANGED <<arrow, chunks, next, given, pc>>
  BY DEF FillRow, Filling
<1>2. /\ Len(out) \in Nat /\ reader.offset \in Nat /\ Length(reader) \in Nat
      /\ VectorSize \in Nat /\ out \in Seq(All)
  BY StateShape, ReaderShape, SizesAssumption DEF ScanInv, Converted
<1>3. reader.batch # 0
  BY <1>1, <1>2 DEF Length
<1>4. reader.batch = 1
  BY <1>1, <1>3, ReaderShape DEF ScanInv, Places, ReaderPlace
<1>5. out' = out \o [i \in 1..1 |-> <<reader.chunk, reader.batch, reader.offset + i>>]
  <2>1. [i \in 1..1 |-> <<reader.chunk, reader.batch, reader.offset + i>>]
           = << <<reader.chunk, reader.batch, reader.offset + 1>> >>
    OBVIOUS
  <2>2. \A e \in All : Append(out, e) = out \o <<e>>
    BY <1>2
  <2>3. <<reader.chunk, reader.batch, reader.offset + 1>> \in All
    <3>1. /\ reader.chunk \in 1..Len(chunks) /\ reader.batch \in 1..Len(Batches(reader.chunk))
          /\ Length(reader) = Batches(reader.chunk)[reader.batch]
      BY <1>3, ReaderShape
    <3>2. reader.offset + 1 \in 1..Batches(reader.chunk)[reader.batch]
      BY <1>1, <1>2, <3>1
    <3> QED
      BY <3>1, <3>2, RowShape DEF ScanInv
  <2> QED
    BY <1>1, <1>4, <2>1, <2>2, <2>3, Zenon
<1>6. 1 \in Nat /\ reader.offset + 1 <= Length(reader) /\ Len(out) + 1 <= VectorSize
  BY <1>1, <1>2
<1> QED
  BY <1>1, <1>3, <1>5, <1>6, SliceStep

\* A vector is returned, and the next call goes on from where it ended.
LEMMA ReturnStep ==
    ASSUME ScanInv, pc \in {"read", "fill"}, Return(out),
           out = <<>> => \A x \in All : Passed(x),
           UNCHANGED <<arrow, chunks, next, reader>>
    PROVE  ScanInv'
<1>1. TypeOK /\ Places /\ ReaderPlace /\ Pages /\ Converted /\ Decoded
  BY DEF ScanInv
<1>2. /\ given' = given \o out /\ out' = <<>> /\ pc' \in {"idle", "over"}
      /\ pc' = "over" => out = <<>>
  BY DEF Return
<1>3. TypeOK'
  BY <1>1, <1>2, SizesAssumption DEF TypeOK
<1>4. Places'
  BY <1>2 DEF Places
<1>5. ReaderPlace' /\ Pages'
  BY <1>1 DEF ReaderPlace, Pages, Length, Batches
<1>6. \A x \in All : Passed(x)' <=> Passed(x)
  BY <1>2 DEF Passed
<1>7. RowsInv'
  <2>1. given \in Seq(All) /\ out \in Seq(All)
    BY <1>1 DEF Converted
  <2>2. given \o out \in Seq(All) /\ (given \o out) \o <<>> = given \o out /\ <<>> \in Seq(All)
    BY <2>1
  <2>3. Rows' = Rows /\ given' \in Seq(All) /\ out' \in Seq(All)
    BY <1>2, <2>2 DEF Rows
  <2>4. arrow /\ reader'.chunk # 0 => chunks[reader'.chunk].sound
    BY <1>1 DEF Decoded
  <2> QED
    BY <1>6, <2>3, <2>4, QuietRows
<1>8. EndIsReal'
  <2>1. CASE pc' = "idle"
    BY <2>1 DEF EndIsReal
  <2>2. CASE pc' = "over"
    <3>1. \A x \in All : Passed(x)'
      BY <1>2, <1>6, <2>2
    <3> QED
      BY <1>2, <1>7, <2>2, <3>1, LastReturn
  <2> QED
    BY <1>2, <2>1, <2>2
<1> QED
  BY <1>3, <1>4, <1>5, <1>7, <1>8, ScanParts DEF ShapeInv

\* A vector with rows is returned; a reader that gave none is dropped at its last row.
LEMMA ReadEndStep ==
    ASSUME ScanInv, ReadEnd
    PROVE  ScanInv'
<1>1. TypeOK /\ Places /\ ReaderPlace /\ Pages /\ Converted /\ Decoded
  BY DEF ScanInv
<1>2. pc = "read" /\ arrow /\ reader.chunk # 0 /\ UNCHANGED <<arrow, chunks, next>>
  BY <1>1 DEF ReadEnd, Places
<1>3. CASE out # <<>>
  BY <1>2, <1>3, ReturnStep DEF ReadEnd
<1>4. CASE out = <<>>
  <2>1. pc' = "source" /\ reader' = NoReader /\ UNCHANGED <<out, given>>
    BY <1>4 DEF ReadEnd
  <2>2. reader.eos
    BY <1>4, SizesAssumption DEF ReadEnd
  <2>3. TypeOK'
    BY <1>1, <1>2, <2>1, SizesAssumption DEF TypeOK, NoReader
  <2>4. Places'
    BY <1>2, <1>4, <2>1 DEF Places
  <2>5. ReaderPlace'
    BY <1>2, <2>1 DEF ReaderPlace, NoReader, Length
  <2>6. Pages'
    BY <1>1, <1>2 DEF Pages, Batches
  <2>7. \A x \in All : Passed(x)' <=> Passed(x)
    <3>1. \A x \in All : Passed(x) <=> x[1] <= next
      BY <1>1, <1>2, <2>2, WholeChunk DEF ReaderPlace
    <3>2. \A x \in All : x[1] \in Nat /\ next \in Nat
      BY RowNumbers, StateShape
    <3>3. \A x \in All : Passed(x)' <=> x[1] < next \/ x[1] = next
      BY <1>2, <2>1 DEF Passed, NoReader
    <3> QED
      BY <3>1, <3>2, <3>3
  <2>8. RowsInv'
    <3>1. Rows' = Rows /\ given' \in Seq(All) /\ out' \in Seq(All)
      BY <1>1, <2>1 DEF Rows, Converted
    <3>2. reader'.chunk = 0
      BY <2>1 DEF NoReader
    <3> QED
      BY <1>2, <2>7, <3>1, <3>2, QuietRows
  <2>9. EndIsReal'
    BY <2>1 DEF EndIsReal
  <2> QED
    BY <2>3, <2>4, <2>5, <2>6, <2>8, <2>9, ScanParts DEF ShapeInv
<1> QED
  BY <1>3, <1>4

\* The next page is taken, or there is none; the last one was used up.
LEMMA FillNextStep ==
    ASSUME ScanInv, FillNextChunk
    PROVE  ScanInv'
<1>1. TypeOK /\ Places /\ ReaderPlace /\ Pages /\ Converted /\ Decoded
  BY DEF ScanInv
<1>2. /\ pc = "fill" /\ ~arrow /\ ~reader.eos /\ UNCHANGED <<arrow, chunks, out, given, pc>>
  BY <1>1 DEF FillNextChunk, Filling, Places
<1>3. /\ reader.chunk \in Nat /\ reader.batch \in Nat /\ reader.offset \in Nat
      /\ reader.offset = Length(reader) /\ next \in Nat /\ next <= Len(chunks)
      /\ Len(chunks) \in Nat /\ Len(chunks) <= MaxChunks
  BY ReaderShape, StateShape DEF FillNextChunk
<1>4. \A x \in All : x[1] \in Nat /\ x[2] \in Nat /\ x[3] \in Nat
                     /\ 1 <= x[1] /\ 1 <= x[2] /\ 1 <= x[3]
  BY RowNumbers
<1>5. \A x \in All : Passed(x) <=> x[1] <= next
  <2>1. CASE reader.chunk = 0
    BY <1>2, <1>3, <1>4, <2>1 DEF Passed
  <2>2. CASE reader.chunk # 0
    <3>1. reader.batch = Len(Batches(reader.chunk))
      <4>1. reader.chunk \in DOMAIN chunks /\ reader.batch = 1
        BY <1>1, <1>2, <2>2, ReaderShape, StateShape DEF ReaderPlace
      <4> QED
        BY <1>1, <1>2, <4>1 DEF Pages
    <3> QED
      BY <1>3, <2>2, <3>1, WholeChunk
  <2> QED
    BY <2>1, <2>2
<1>6. Rows' = Rows /\ given' \in Seq(All) /\ out' \in Seq(All)
  BY <1>1, <1>2 DEF Rows, Converted
<1>7. Pages' /\ EndIsReal'
  BY <1>1, <1>2 DEF Pages, Batches, EndIsReal
<1>8. CASE next < Len(chunks)
  <2>1. /\ next' = next + 1
        /\ reader' = [chunk |-> next + 1, batch |-> 1, offset |-> 0, eos |-> FALSE]
    BY <1>8 DEF FillNextChunk, NewReader, NoReader
  <2>2. next + 1 \in 1..Len(chunks) /\ next + 1 # 0
    BY <1>3, <1>8
  <2>3. /\ Len(Batches(next + 1)) = 1 /\ 1 <= MaxBatches
        /\ Batches(next + 1)[1] \in Nat
    <3>1. next + 1 \in DOMAIN chunks
      BY <2>2, StateShape
    <3>2. Len(Batches(next + 1)) = 1
      BY <1>1, <1>2, <3>1 DEF Pages
    <3>3. 1 \in 1..Len(Batches(next + 1))
      BY <3>2
    <3> QED
      BY <2>2, <3>2, <3>3, StateShape
  <2>4. TypeOK'
    <3>1. next + 1 \in 0..Len(chunks) /\ next + 1 \in 0..MaxChunks /\ 1 \in 0..MaxBatches
          /\ 0 \in 0..MaxLength
      BY <1>3, <2>2, <2>3, SizesAssumption
    <3> QED
      BY <1>1, <1>2, <2>1, <3>1 DEF TypeOK
  <2>5. Places'
    BY <1>1, <1>2, <2>1 DEF Places
  <2>6. ReaderPlace'
    BY <1>2, <2>1, <2>2, <2>3 DEF ReaderPlace, Length, Batches
  <2>7. \A x \in All : Passed(x)' <=> Passed(x)
    <3> TAKE x \in All
    <3>1. Passed(x)' <=> Behind(x, next + 1, 1, 0)
      BY <2>1, <2>2 DEF Passed
    <3>2. Behind(x, next + 1, 1, 0) <=> x[1] <= next
      BY <1>3, <1>4 DEF Behind
    <3> QED
      BY <1>5, <3>1, <3>2
  <2>8. RowsInv'
    BY <1>2, <1>6, <2>7, QuietRows
  <2> QED
    BY <1>7, <2>4, <2>5, <2>6, <2>8, ScanParts DEF ShapeInv
<1>9. CASE ~(next < Len(chunks))
  <2>1. reader' = [reader EXCEPT !.eos = TRUE] /\ next' = next /\ next = Len(chunks)
    BY <1>3, <1>9 DEF FillNextChunk
  <2>2. /\ reader'.chunk = reader.chunk /\ reader'.batch = reader.batch
        /\ reader'.offset = reader.offset /\ reader'.eos = TRUE
    BY <1>1, <2>1 DEF TypeOK
  <2>3. TypeOK'
    BY <1>1, <1>2, <2>1 DEF TypeOK
  <2>4. Places'
    BY <1>1, <1>2, <2>2 DEF Places
  <2>5. ReaderPlace'
    BY <1>1, <1>2, <1>3, <2>1, <2>2 DEF ReaderPlace, Length, Batches
  <2>6. \A x \in All : Passed(x)' <=> Passed(x)
    BY <1>2, <2>1, <2>2 DEF Passed
  <2>7. RowsInv'
    BY <1>2, <1>6, <2>6, QuietRows
  <2> QED
    BY <1>7, <2>3, <2>4, <2>5, <2>7, ScanParts DEF ShapeInv
<1> QED
  BY <1>8, <1>9

\* A vector of pages is returned, empty only when every page is used up.
LEMMA FillEndStep ==
    ASSUME ScanInv, FillEnd
    PROVE  ScanInv'
<1>1. TypeOK /\ Places /\ ReaderPlace /\ Pages
  BY DEF ScanInv
<1>2. /\ pc = "fill" /\ ~arrow /\ Return(out) /\ UNCHANGED <<arrow, chunks, next, reader>>
      /\ reader.eos \/ Len(out) >= VectorSize
  BY <1>1 DEF FillEnd, Places
<1>3. ASSUME out = <<>> PROVE \A x \in All : Passed(x)
  <2>1. reader.eos
    BY <1>2, <1>3, SizesAssumption
  <2>2. next = Len(chunks) /\ reader.offset = Length(reader)
    BY <1>1, <1>2, <2>1 DEF ReaderPlace
  <2>3. \A x \in All : x[1] \in Nat /\ 1 <= x[1] /\ x[1] <= next
    BY <2>2, RowNumbers
  <2>4. CASE reader.chunk = 0
    <3>1. next = 0
      BY <1>1, <1>2, <2>4 DEF ReaderPlace
    <3> QED
      BY <2>3, <3>1
  <2>5. CASE reader.chunk # 0
    <3>1. reader.chunk \in DOMAIN chunks /\ reader.batch = 1
      BY <1>1, <1>2, <2>5, ReaderShape, StateShape DEF ReaderPlace
    <3>2. reader.batch = Len(Batches(reader.chunk))
      BY <1>1, <1>2, <3>1 DEF Pages
    <3> QED
      BY <2>2, <2>3, <2>5, <3>2, WholeChunk
  <2> QED
    BY <2>4, <2>5
<1> QED
  BY <1>2, <1>3, ReturnStep

-----------------------------------------------------------------------------
(* Theorems                                                                  *)

\* A step that changes nothing.
LEMMA StutterStep ==
    ASSUME ScanInv, UNCHANGED <<arrow, chunks, next, reader, out, given, pc>>
    PROVE  ScanInv'
<1>1. All' = All /\ Rows' = Rows
  BY ResultFixed DEF Rows
<1>2. ShapeInv'
  BY DEF ScanInv, ShapeInv, TypeOK, Places, ReaderPlace, Pages, Length, Batches
<1>3. RowsInOrder'
  BY <1>1, InOrder DEF ScanInv
<1>4. Converted'
  <2>1. \A x : Passed(x)' <=> Passed(x)
    BY DEF Passed
  <2>2. {x \in All' : Passed(x)'} = {x \in All : Passed(x)}
    BY <1>1, <2>1, Zenon
  <2> QED
    BY <1>1, <2>2 DEF ScanInv, Converted
<1>5. Decoded'
  BY <1>1 DEF ScanInv, Decoded
<1>6. EndIsReal'
  BY <1>1 DEF ScanInv, EndIsReal, All
<1> QED
  BY <1>2, <1>3, <1>4, <1>5, <1>6, ScanParts DEF RowsInv

\* The invariant holds initially.
LEMMA ScanStarts == Init => ScanInv
<1> SUFFICES ASSUME Init PROVE ScanInv
  OBVIOUS
<1>1. /\ arrow \in BOOLEAN /\ chunks \in Results /\ next = 0 /\ reader = NoReader
      /\ out = <<>> /\ given = <<>> /\ pc = "init"
  BY DEF Init
<1>2. Len(chunks) \in Nat
  BY <1>1, ResultShape, SizesAssumption
<1>3. TypeOK
  BY <1>1, <1>2, SizesAssumption DEF TypeOK, NoReader
<1>4. Places /\ ReaderPlace /\ Pages
  BY <1>1 DEF Places, ReaderPlace, Pages, NoReader, Init
<1>5. Rows = <<>> /\ Len(Rows) = 0
  BY <1>1 DEF Rows
<1>6. \A x \in All : ~Passed(x)
  <2> TAKE x \in All
  <2>1. x[1] \in 1..Len(chunks)
    BY <1>3, RowShape
  <2> QED
    BY <1>1, <1>2, <2>1 DEF Passed, NoReader
<1>7. Converted
  <2>1. {Rows[i] : i \in 1..Len(Rows)} = {} /\ {x \in All : Passed(x)} = {}
    <3>1. {x \in All : Passed(x)} = {}
      BY <1>6, Zenon
    <3>2. 1..Len(Rows) = {}
      BY <1>5
    <3> QED
      BY <3>1, <3>2, Zenon
  <2>2. <<>> \in Seq(All)
    OBVIOUS
  <2> QED
    BY <1>1, <2>1, <2>2 DEF Converted
<1>8. Decoded /\ RowsInOrder
  BY <1>1, <1>5, InOrder DEF Decoded, NoReader, Ordered
<1>9. EndIsReal
  BY <1>1 DEF EndIsReal
<1> QED
  BY <1>3, <1>4, <1>7, <1>8, <1>9 DEF ScanInv

\* Every step keeps it.
LEMMA ScanStep == ScanInv /\ [Next]_vars => ScanInv'
<1>0. SUFFICES ASSUME ScanInv, [Next]_vars PROVE ScanInv'
  OBVIOUS
<1>1. CASE ScanInit \/ Call \/ SourceRead
  BY <1>0, <1>1, MoveStep
<1>2. CASE SourceFetch
  BY <1>0, <1>2, FetchStep
<1>3. CASE SourceValidate
  BY <1>0, <1>3, ValidateStep
<1>4. CASE LoadBatch
  BY <1>0, <1>4, LoadStep
<1>5. CASE ConvertSlice
  BY <1>0, <1>5, ConvertStep
<1>6. CASE ReadEnd
  BY <1>0, <1>6, ReadEndStep
<1>7. CASE FillNextChunk
  BY <1>0, <1>7, FillNextStep
<1>8. CASE FillRow
  BY <1>0, <1>8, FillRowStep
<1>9. CASE FillEnd
  BY <1>0, <1>9, FillEndStep
<1>10. CASE Fails
  BY <1>0, <1>10, ThrowsStep DEF Fails
<1>11. CASE UNCHANGED vars
  <2>1. UNCHANGED <<arrow, chunks, next, reader, out, given, pc>>
    BY <1>11 DEF vars
  <2> QED
    BY <1>0, <2>1, StutterStep
<1> QED
  BY <1>0, <1>1, <1>2, <1>3, <1>4, <1>5, <1>6, <1>7, <1>8, <1>9, <1>10, <1>11
  DEF Next, Step, Over

\* The invariant holds in every reachable state.
LEMMA ScanAlways == Spec => []ScanInv
BY ScanStarts, ScanStep, PTL DEF Spec

\* Type correctness; in particular no output vector ever exceeds its capacity.
THEOREM ScanTypeCorrect == Spec => []TypeOK
<1>1. ScanInv => TypeOK
  BY DEF ScanInv
<1> QED
  BY <1>1, ScanAlways, PTL

\* However the rows of a result are cut into chunks, batches and vectors, DuckDB receives
\* them in their order, each once and none left out.
THEOREM RowsComeInOrder == Spec => []RowsInOrder
<1>1. ScanInv => RowsInOrder
  BY DEF ScanInv
<1> QED
  BY <1>1, ScanAlways, PTL

\* A vector is empty, and the scan over, only after the last row.
THEOREM EndsAreReal == Spec => []EndIsReal
<1>1. ScanInv => EndIsReal
  BY DEF ScanInv
<1> QED
  BY <1>1, ScanAlways, PTL

\* No row of an Arrow chunk that does not decode to its end reaches DuckDB.
THEOREM RowsAreValidated == Spec => []ValidatedFirst
<1>1. ASSUME ScanInv PROVE ValidatedFirst
  <2>1. given \in Seq(All) /\ out \in Seq(All) /\ Decoded
    BY <1>1 DEF ScanInv, Converted
  <2>2. \A i \in 1..Len(given) : i \in 1..Len(Rows) /\ Rows[i] = given[i]
    BY <2>1 DEF Rows
  <2> QED
    BY <2>1, <2>2 DEF ValidatedFirst, Decoded
<1> QED
  BY <1>1, ScanAlways, PTL
=============================================================================
