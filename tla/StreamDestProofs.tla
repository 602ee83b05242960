-------------------------- MODULE StreamDestProofs --------------------------
(***************************************************************************)
(* The properties of StreamDest, for every size of the cache, of a page, of *)
(* the memory limit and of the writes, provided that write(2) takes all of *)
(* the data or fails (~ShortWrites).                                       *)
(*                                                                         *)
(* The properties are not inductive: that the next byte is the right one   *)
(* depends on the place of the bytes that are still on their way.  IInv adds *)
(* where they are (Account), what an unfinished dst_write knows (Writing), *)
(* and what dst_finish and dst_close leave behind (Flushed).               *)
(***************************************************************************)
EXTENDS StreamDest, TLAPS

\* Bytes are in the cache, in the rest of the running call, or have left the
\* cache; after an error some may have been given up.
Account ==
    /\ writeb + clen + rest <= handed
    /\ werr = "success" => writeb + clen + rest = handed
    /\ no_cache => clen = 0

\* What arrived: everything that left the cache, as long as no write failed.
Arrived ==
    /\ slen <= writeb
    /\ (werr = "success" /\ type # "null") => slen = writeb
    /\ type \in {"none", "null"} => slen = 0

\* The cache continues what left it before.
CacheContinues == werr = "success" => \A i \in 0 .. clen - 1 : cache[i] = writeb + i

\* A dst_write that has bytes to store was called on an open destination
\* without an error.
Writing == rest > 0 => IsOpen /\ ~finished /\ werr = "success"

\* A finished destination has an empty cache unless a write failed, and one
\* that was closed to be kept is finished.
Flushed ==
    /\ finished /\ werr = "success" => clen = 0
    /\ closed = "keep" => finished

\* Every variable but finished, which is Boolean.
DataOK ==
    /\ type \in Types
    /\ cache \in [0 .. CacheSize - 1 -> Int] /\ clen \in 0 .. CacheSize
    /\ writeb \in 0 .. MaxBytes /\ werr \in Results
    /\ allocated \in Nat
    /\ sink \in [0 .. MaxBytes - 1 -> Int] /\ slen \in 0 .. MaxBytes
    /\ handed \in 0 .. MaxBytes /\ rest \in 0 .. MaxLen
    /\ finres \in Results \cup {"none"} /\ closed \in {"no", "keep", "discard"}
    /\ file \in {"absent", "old", "new"} /\ opening \in {"no", "trunc", "excl"}

DInv ==
    /\ DataOK /\ Account /\ Arrived /\ CacheContinues /\ Writing /\ Flushed
    /\ SinkPrefix /\ MemBounds

IInv == finished \in BOOLEAN /\ DInv

-----------------------------------------------------------------------------
\* Division with remainder.
LEMMA DivFacts ==
    ASSUME NEW a \in Nat, NEW p \in Nat \ {0}
    PROVE  /\ (a \div p) * p <= a /\ a < (a \div p) * p + p
           /\ (a \div p) * p \in Nat
    BY SMT

\* The new size of a memory area is within the limit and large enough.
LEMMA GrowFacts ==
    ASSUME NEW need \in Nat, need <= MaxAlloc
    PROVE  Grow(need) \in Nat /\ need <= Grow(need) /\ Grow(need) <= MaxAlloc
<1> DEFINE alloc == ((need * 2 + Page - 1) \div Page) * Page
<1>1. need * 2 + Page - 1 \in Nat /\ Page \in Nat \ {0} /\ MaxAlloc \in Nat
    BY DestAssumption
<1>2. alloc \in Nat /\ need * 2 + Page - 1 < alloc + Page
    BY <1>1, DivFacts, Zenon
<1>3. need <= alloc
    BY <1>1, <1>2
<1> HIDE DEF alloc
<1>4. Grow(need) = IF alloc > MaxAlloc THEN MaxAlloc ELSE alloc
    BY DEF Grow, alloc
<1> QED BY <1>1, <1>2, <1>3, <1>4

\* n bytes from c on, at the start of a buffer.
Run(b, n, c) == \A j \in 0 .. n - 1 : b[j] = c + j

\* Bytes copied behind a run continue it.
LEMMA CopyAppends ==
    ASSUME NEW d \in Nat, NEW to \in [0 .. d - 1 -> Int], NEW at \in Nat, NEW from,
           NEW n \in Nat, NEW c \in Nat, at + n <= d,
           Run(to, at, c), Run(from, n, c + at)
    PROVE  /\ Copy(to, at, from, 0, n) \in [0 .. d - 1 -> Int]
           /\ Run(Copy(to, at, from, 0, n), at + n, c)
<1> DEFINE new == Copy(to, at, from, 0, n)
<1>1. new = [i \in 0 .. d - 1 |-> IF at <= i /\ i < at + n THEN from[i - at] ELSE to[i]]
    BY DEF Copy
<1>2. ASSUME NEW i \in 0 .. d - 1, at <= i, i < at + n PROVE from[i - at] = c + i
  <2>1. i - at \in 0 .. n - 1
    BY <1>2
  <2> QED BY <1>2, <2>1 DEF Run
<1> HIDE DEF new
<1>3. new \in [0 .. d - 1 -> Int]
  <2>1. ASSUME NEW i \in 0 .. d - 1
        PROVE  (IF at <= i /\ i < at + n THEN from[i - at] ELSE to[i]) \in Int
    <3>1. CASE at <= i /\ i < at + n
      <4>1. from[i - at] = c + i
        BY <1>2, <3>1
      <4> QED BY <3>1, <4>1
    <3>2. CASE ~(at <= i /\ i < at + n)
      BY <3>2
    <3> QED BY <3>1, <3>2
  <2> QED BY <1>1, <2>1
<1>4. ASSUME NEW i \in 0 .. at + n - 1 PROVE new[i] = c + i
  <2>1. i \in 0 .. d - 1
    BY <1>4
  <2>2. CASE i < at
    BY <1>1, <2>1, <2>2 DEF Run
  <2>3. CASE at <= i
    <3>1. from[i - at] = c + i
      BY <1>2, <1>4, <2>1, <2>3
    <3> QED BY <1>1, <2>1, <2>3, <1>4, <3>1
  <2> QED BY <1>4, <2>2, <2>3
<1> QED BY <1>3, <1>4 DEF Run, new

\* The caller's data, from the first byte that is not stored yet.
LEMMA CallerFacts ==
    ASSUME DInv, NEW n \in Nat, n <= rest
    PROVE  Run(CallerBuf, n, handed - rest)
    BY DestAssumption DEF DInv, DataOK, CallerBuf, Run

\* One call of dst->write with the next n bytes: they arrive, or an error is
\* recorded and what arrived before stays.
LEMMA WriteFacts ==
    ASSUME ~ShortWrites, DInv, werr = "success", type # "none",
           NEW b, NEW n \in Nat, writeb + n <= handed, Run(b, n, writeb), Write(b, n)
    PROVE  /\ writeb' = writeb + n /\ werr' \in Results /\ allocated' \in Nat
           /\ sink' \in [0 .. MaxBytes - 1 -> Int] /\ slen' \in 0 .. MaxBytes
           /\ slen' <= writeb'
           /\ (werr' = "success" /\ type # "null") => slen' = writeb'
           /\ type = "null" => slen' = 0
           /\ \A i \in 0 .. slen' - 1 : sink'[i] = i
           /\ type = "mem" => slen' <= allocated' /\ allocated' <= MaxAlloc
<1>1. /\ DataOK /\ Arrived /\ SinkPrefix /\ MemBounds
      /\ MaxBytes \in Nat /\ MaxAlloc \in Nat
    BY DestAssumption DEF DInv
<1>2. writeb' = writeb + n
    BY DEF Write
<1>3. ASSUME type # "null"
      PROVE  /\ Copy(sink, slen, b, 0, n) \in [0 .. MaxBytes - 1 -> Int]
             /\ Run(Copy(sink, slen, b, 0, n), slen + n, 0)
             /\ slen = writeb /\ slen + n \in 0 .. MaxBytes
  <2>1. slen = writeb /\ slen \in Nat /\ slen + n <= MaxBytes
    BY <1>1, <1>3 DEF DataOK, Arrived
  <2>2. Run(sink, slen, 0) /\ Run(b, n, 0 + slen)
    BY <1>1, <2>1 DEF SinkPrefix, Run
  <2>3. sink \in [0 .. MaxBytes - 1 -> Int]
    BY <1>1 DEF DataOK
  <2>4. /\ Copy(sink, slen, b, 0, n) \in [0 .. MaxBytes - 1 -> Int]
        /\ Run(Copy(sink, slen, b, 0, n), slen + n, 0)
    BY <1>1, <2>1, <2>2, <2>3, CopyAppends
  <2> QED BY <2>1, <2>4
<1>4. CASE file_dst_write(b, n)
  <2>1. type \in {"file", "stdout"} /\ allocated' = allocated
    BY <1>4 DEF file_dst_write
  <2>2. CASE werr' = "write" /\ sink' = sink /\ slen' = slen
    BY <1>1, <1>2, <2>1, <2>2 DEF DataOK, Arrived, SinkPrefix, Results
  <2>3. CASE werr' = "success" /\ sink' = Copy(sink, slen, b, 0, n) /\ slen' = slen + n
    BY <1>1, <1>2, <1>3, <2>1, <2>3 DEF DataOK, Run, Results
  <2> QED BY <1>4, <2>2, <2>3 DEF file_dst_write
<1>5. CASE mem_dst_write(b, n)
  <2>1. type = "mem"
    BY <1>5 DEF mem_dst_write
  <2>2. CASE werr' = "memory" /\ sink' = sink /\ slen' = slen /\ allocated' = allocated
    BY <1>1, <1>2, <2>1, <2>2 DEF DataOK, Arrived, SinkPrefix, MemBounds, Results
  <2>3. CASE /\ writeb + n > allocated => writeb + n <= MaxAlloc
             /\ allocated' = IF writeb + n > allocated THEN Grow(writeb + n) ELSE allocated
             /\ sink' = Copy(sink, writeb, b, 0, n)
             /\ slen' = writeb + n
             /\ werr' = "success"
    <3>1. allocated' \in Nat /\ writeb + n <= allocated' /\ allocated' <= MaxAlloc
      <4>1. writeb + n \in Nat /\ allocated \in Nat /\ allocated <= MaxAlloc
        BY <1>1, <2>1 DEF DataOK, MemBounds
      <4>2. CASE writeb + n > allocated
        BY <2>3, <4>1, <4>2, GrowFacts
      <4>3. CASE ~(writeb + n > allocated)
        BY <2>3, <4>1, <4>3
      <4> QED BY <4>2, <4>3
    <3> QED BY <1>1, <1>2, <1>3, <2>1, <2>3, <3>1 DEF DataOK, Run, Results
  <2> QED BY <1>5, <2>2, <2>3 DEF mem_dst_write
<1>6. CASE null_dst_write
    BY <1>1, <1>2, <1>6 DEF null_dst_write, DataOK, Arrived, SinkPrefix, Results
<1> QED BY <1>4, <1>5, <1>6 DEF Write

-----------------------------------------------------------------------------
\* The fields of a new destination, whatever its type.
Fresh ==
    /\ cache = EmptyCache /\ clen = 0 /\ writeb = 0
    /\ werr = "success" /\ finished = FALSE /\ allocated = 0
    /\ sink = EmptySink /\ slen = 0 /\ handed = 0 /\ rest = 0
    /\ finres = "none" /\ closed = "no"
    /\ type \in Types /\ file \in {"absent", "old", "new"}
    /\ opening \in {"no", "trunc", "excl"}

\* A new destination satisfies the invariant.
LEMMA FreshFacts == Fresh => DInv
<1> SUFFICES ASSUME Fresh PROVE DInv
    OBVIOUS
<1>1. CacheSize \in Nat /\ MaxBytes \in Nat /\ MaxLen \in Nat /\ MaxAlloc \in Nat
    BY DestAssumption
<1>2. EmptyCache \in [0 .. CacheSize - 1 -> Int] /\ EmptySink \in [0 .. MaxBytes - 1 -> Int]
    BY <1>1 DEF EmptyCache, EmptySink
<1>3. DataOK
    BY <1>1, <1>2 DEF Fresh, DataOK, Results
<1>4. Account /\ Arrived /\ Writing /\ Flushed
    BY DEF Fresh, Account, Arrived, Writing, Flushed
<1>5. CacheContinues /\ SinkPrefix /\ MemBounds
    BY <1>1 DEF Fresh, CacheContinues, SinkPrefix, MemBounds
<1> QED BY <1>3, <1>4, <1>5 DEF DInv

\* No destination is open at the start.
LEMMA InitIInv == Init => IInv
<1> SUFFICES ASSUME Init PROVE IInv
    OBVIOUS
<1>1. finished \in BOOLEAN
    BY Zenon DEF Init
<1>2. DInv
    BY FreshFacts DEF Init, Fresh, Types
<1> QED BY <1>1, <1>2 DEF IInv

\* finished stays Boolean in every step.
LEMMA BoolStep == finished \in BOOLEAN /\ [Next]_vars => finished' \in BOOLEAN
<1> SUFFICES ASSUME finished \in BOOLEAN, [Next]_vars PROVE finished' \in BOOLEAN
    OBVIOUS
<1>1. finished' \in {finished, TRUE, FALSE}
    BY Zenon DEF Next, Open, Use, vars, init_file_dest_stat, init_file_dest_open,
       init_stdout_dest, init_mem_dest, init_null_dest, init_dst_common, dst_write,
       dst_write_fill, dst_write_store, dst_finish, dst_close, CreateElsewhere
<1> QED BY <1>1, Zenon

\* A step that leaves the destination alone.
LEMMA SameDest ==
    ASSUME DInv,
           UNCHANGED <<type, dataVars, werr, finished, handed, rest, finres, closed>>,
           file' \in {"absent", "old", "new"}, opening' \in {"no", "trunc", "excl"}
    PROVE  DInv'
<1> USE DEF dataVars
<1>1. DataOK'
    BY DEF DInv, DataOK
<1>2. Account' /\ Arrived' /\ Writing' /\ Flushed'
    BY DEF DInv, Account, Arrived, Writing, Flushed, no_cache, IsOpen
<1>3. CacheContinues' /\ SinkPrefix' /\ MemBounds'
    BY DEF DInv, CacheContinues, SinkPrefix, MemBounds
<1> QED BY <1>1, <1>2, <1>3 DEF DInv

\* Opening: the initialisers zero the structure, a refused one changes nothing.
LEMMA OpenStep == ASSUME DInv, Open PROVE DInv'
<1>1. file \in {"absent", "old", "new"} /\ opening \in {"no", "trunc", "excl"}
    BY DEF DInv, DataOK
<1>2. ASSUME init_dst_common, type' \in Types, file' \in {"absent", "old", "new"},
             opening' \in {"no", "trunc", "excl"}
      PROVE  DInv'
  <2>1. Fresh'
    BY <1>2, Zenon DEF init_dst_common, Fresh, EmptyCache, EmptySink
  <2> QED BY <1>2, <2>1, FreshFacts, PTL
<1>3. CASE \E overwrite \in BOOLEAN : init_file_dest_stat(overwrite)
  <2>1. PICK overwrite \in BOOLEAN : init_file_dest_stat(overwrite)
    BY <1>3
  <2> QED BY <1>1, <2>1, SameDest DEF init_file_dest_stat
<1>4. CASE init_file_dest_open
    BY <1>1, <1>2, <1>4, SameDest DEF init_file_dest_open, Types
<1>5. CASE init_stdout_dest \/ init_mem_dest \/ init_null_dest
    BY <1>1, <1>2, <1>5
    DEF init_stdout_dest, init_mem_dest, init_null_dest, pathVars, Types
<1> QED BY <1>3, <1>4, <1>5 DEF Open

\* Entry of dst_write: the bytes are handed over, or dropped after an error.
LEMMA WriteStep == ASSUME DInv, NEW n \in 0 .. MaxLen, dst_write(n) PROVE DInv'
<1> USE DEF dst_write, dataVars, pathVars
<1>0. MaxLen \in Nat /\ MaxBytes \in Nat
    BY DestAssumption
<1>1. DataOK'
    BY <1>0 DEF DInv, DataOK
<1>2. Account' /\ Arrived'
    BY <1>0 DEF DInv, DataOK, Account, Arrived, no_cache
<1>3. Writing' /\ Flushed'
    BY <1>0 DEF DInv, DataOK, Writing, Flushed, IsOpen
<1>4. CacheContinues' /\ SinkPrefix' /\ MemBounds'
    BY DEF DInv, CacheContinues, SinkPrefix, MemBounds
<1> QED BY <1>1, <1>2, <1>3, <1>4 DEF DInv

\* The cache is filled up and written: its bytes are those that follow what
\* left it before.
LEMMA FillStep == ASSUME ~ShortWrites, DInv, dst_write_fill PROVE DInv'
<1> DEFINE k == CacheSize - clen
<1>1. /\ DataOK /\ Account /\ Arrived /\ CacheContinues /\ Writing /\ Flushed
      /\ CacheSize \in Nat /\ MaxLen \in Nat /\ MaxBytes \in Nat
    BY DestAssumption DEF DInv
<1>2. /\ rest > 0 /\ clen > 0 /\ clen + rest > CacheSize
      /\ cache' = Copy(cache, clen, CallerBuf, 0, k)
      /\ Write(cache', CacheSize) /\ clen' = 0
      /\ rest' = IF werr' = "success" THEN rest - k ELSE 0
      /\ UNCHANGED <<type, finished, handed, finres, closed, pathVars>>
    BY DEF dst_write_fill, Overflows, RestAfterFill
<1>3. /\ IsOpen /\ ~finished /\ werr = "success" /\ type \notin {"none", "mem", "null"}
      /\ writeb + clen + rest = handed
    BY <1>1, <1>2 DEF Writing, Account, no_cache, IsOpen, DataOK
<1>4. /\ k \in Nat /\ k < rest /\ k <= rest /\ clen \in Nat /\ writeb \in Nat
      /\ rest \in Nat /\ handed \in Nat /\ clen + k = CacheSize
      /\ handed - rest = writeb + clen
    BY <1>1, <1>2, <1>3 DEF DataOK
<1> HIDE DEF k
<1>5. cache' \in [0 .. CacheSize - 1 -> Int] /\ Run(cache', CacheSize, writeb)
  <2>1. Run(CallerBuf, k, writeb + clen)
    BY <1>4, CallerFacts
  <2>2. Run(cache, clen, writeb) /\ cache \in [0 .. CacheSize - 1 -> Int]
    BY <1>1, <1>3 DEF CacheContinues, Run, DataOK
  <2>3. /\ Copy(cache, clen, CallerBuf, 0, k) \in [0 .. CacheSize - 1 -> Int]
        /\ Run(Copy(cache, clen, CallerBuf, 0, k), clen + k, writeb)
    BY <1>1, <1>4, <2>1, <2>2, CopyAppends
  <2> QED BY <1>2, <1>4, <2>3
<1>6. /\ writeb' = writeb + CacheSize /\ werr' \in Results /\ allocated' \in Nat
      /\ sink' \in [0 .. MaxBytes - 1 -> Int] /\ slen' \in 0 .. MaxBytes
      /\ slen' <= writeb'
      /\ (werr' = "success" /\ type # "null") => slen' = writeb'
      /\ type = "null" => slen' = 0
      /\ \A i \in 0 .. slen' - 1 : sink'[i] = i
      /\ type = "mem" => slen' <= allocated' /\ allocated' <= MaxAlloc
  <2>1. writeb + CacheSize <= handed
    BY <1>1, <1>2, <1>3, <1>4 DEF DataOK
  <2> QED BY <1>1, <1>2, <1>3, <1>5, <2>1, WriteFacts
<1>7. /\ rest' \in 0 .. MaxLen
      /\ writeb' + clen' + rest' <= handed
      /\ werr' = "success" => writeb' + clen' + rest' = handed
      /\ rest' > 0 => werr' = "success"
  <2>1. rest <= MaxLen
    BY <1>1 DEF DataOK
  <2>2. CASE werr' = "success"
    BY <1>1, <1>2, <1>3, <1>4, <1>6, <2>1, <2>2
  <2>3. CASE werr' # "success"
    BY <1>1, <1>2, <1>3, <1>4, <1>6, <2>1, <2>3
  <2> QED BY <2>2, <2>3
<1>8. DataOK'
  <2>1. writeb' \in 0 .. MaxBytes /\ clen' \in 0 .. CacheSize
    BY <1>1, <1>2, <1>4, <1>6, <1>7 DEF DataOK
  <2> QED BY <1>1, <1>2, <1>5, <1>6, <1>7, <2>1 DEF DataOK, pathVars
<1>9. Account' /\ Arrived'
    BY <1>2, <1>3, <1>6, <1>7 DEF Account, Arrived, no_cache
<1>10. Writing' /\ Flushed'
    BY <1>1, <1>2, <1>3, <1>7 DEF Writing, Flushed, IsOpen
<1>11. CacheContinues'
    BY <1>2 DEF CacheContinues
<1>12. SinkPrefix' /\ MemBounds'
    BY <1>2, <1>6 DEF SinkPrefix, MemBounds
<1> QED BY <1>8, <1>9, <1>10, <1>11, <1>12 DEF DInv

\* The rest goes to the cache, or past an empty cache to the destination.
LEMMA StoreStep == ASSUME ~ShortWrites, DInv, dst_write_store PROVE DInv'
<1>1. /\ DataOK /\ Account /\ Arrived /\ CacheContinues /\ Writing /\ Flushed
      /\ SinkPrefix /\ MemBounds
      /\ CacheSize \in Nat /\ MaxLen \in Nat /\ MaxBytes \in Nat
    BY DestAssumption DEF DInv
<1>2. /\ rest > 0 /\ rest' = 0 /\ ~(clen > 0 /\ clen + rest > CacheSize)
      /\ UNCHANGED <<type, finished, handed, finres, closed, pathVars>>
    BY DEF dst_write_store, Overflows
<1>3. /\ IsOpen /\ ~finished /\ werr = "success" /\ type # "none"
      /\ writeb + clen + rest = handed
    BY <1>1, <1>2 DEF Writing, Account, IsOpen
<1>4. clen \in Nat /\ writeb \in Nat /\ rest \in Nat /\ handed - rest = writeb + clen
    BY <1>1, <1>3 DEF DataOK
<1>5. Run(CallerBuf, rest, writeb + clen)
    BY <1>4, CallerFacts
<1>6. Writing' /\ Flushed'
    BY <1>1, <1>2, <1>3 DEF Writing, Flushed
<1>7. CASE (no_cache \/ rest > CacheSize) /\ Write(CallerBuf, rest) /\ UNCHANGED <<cache, clen>>
  <2>1. clen = 0
    BY <1>1, <1>2, <1>4, <1>7 DEF Account
  <2>2. Run(CallerBuf, rest, writeb) /\ writeb + rest <= handed
    BY <1>3, <1>4, <1>5, <2>1
  <2>3. /\ writeb' = writeb + rest /\ werr' \in Results /\ allocated' \in Nat
        /\ sink' \in [0 .. MaxBytes - 1 -> Int] /\ slen' \in 0 .. MaxBytes
        /\ slen' <= writeb'
        /\ (werr' = "success" /\ type # "null") => slen' = writeb'
        /\ type = "null" => slen' = 0
        /\ \A i \in 0 .. slen' - 1 : sink'[i] = i
        /\ type = "mem" => slen' <= allocated' /\ allocated' <= MaxAlloc
    BY <1>3, <1>4, <1>7, <2>2, WriteFacts
  <2>4. writeb' + clen' + rest' = handed
    BY <1>2, <1>3, <1>4, <1>7, <2>1, <2>3
  <2>5. DataOK'
    BY <1>1, <1>2, <1>7, <2>1, <2>3, <2>4 DEF DataOK, pathVars
  <2>6. Account' /\ Arrived'
    BY <1>1, <1>2, <1>3, <1>7, <2>1, <2>3, <2>4 DEF DataOK, Account, Arrived, no_cache
  <2>7. CacheContinues'
    BY <1>7, <2>1 DEF CacheContinues
  <2>8. SinkPrefix' /\ MemBounds'
    BY <1>2, <2>3 DEF SinkPrefix, MemBounds
  <2> QED BY <1>6, <2>5, <2>6, <2>7, <2>8 DEF DInv
<1>8. CASE /\ ~(no_cache \/ rest > CacheSize)
           /\ cache' = Copy(cache, clen, CallerBuf, 0, rest)
           /\ clen' = clen + rest
           /\ UNCHANGED <<writeb, sink, slen, allocated, werr>>
  <2>1. clen + rest <= CacheSize
    BY <1>1, <1>2, <1>4, <1>8
  <2>2. Run(cache, clen, writeb) /\ cache \in [0 .. CacheSize - 1 -> Int]
    BY <1>1, <1>3 DEF CacheContinues, Run, DataOK
  <2>3. cache' \in [0 .. CacheSize - 1 -> Int] /\ Run(cache', clen + rest, writeb)
    BY <1>1, <1>4, <1>5, <1>8, <2>1, <2>2, CopyAppends
  <2>4. DataOK'
    BY <1>1, <1>2, <1>4, <1>8, <2>1, <2>3 DEF DataOK, pathVars
  <2>5. Account' /\ Arrived'
    BY <1>1, <1>2, <1>3, <1>4, <1>8 DEF Account, Arrived, no_cache
  <2>6. CacheContinues' /\ SinkPrefix' /\ MemBounds'
    BY <1>1, <1>2, <1>4, <1>8, <2>3 DEF CacheContinues, SinkPrefix, MemBounds, Run
  <2> QED BY <1>6, <2>4, <2>5, <2>6 DEF DInv
<1> QED BY <1>7, <1>8 DEF dst_write_store, StoreAt

\* dst_flush in dst_finish and in dst_close: without an error the cache is
\* empty afterwards.
LEMMA FlushStep ==
    ASSUME ~ShortWrites, DInv, type # "none", rest = 0, dst_flush,
           UNCHANGED <<type, handed, rest>>, finished', finres' = "success",
           closed' \in {"no", "keep", "discard"}, file' \in {"absent", "old", "new"},
           opening' \in {"no", "trunc", "excl"}
    PROVE  DInv'
<1>1. /\ DataOK /\ Account /\ Arrived /\ CacheContinues /\ SinkPrefix /\ MemBounds
      /\ CacheSize \in Nat /\ MaxLen \in Nat /\ MaxBytes \in Nat
    BY DestAssumption DEF DInv
<1>2. Writing'
    BY <1>1 DEF Writing, DataOK
<1>3. CASE clen > 0 /\ werr = "success" /\ Write(cache, clen) /\ clen' = 0 /\ cache' = cache
  <2>1. /\ clen \in Nat /\ writeb \in Nat /\ handed \in 0 .. MaxBytes
        /\ writeb + clen = handed /\ type \notin {"mem", "null"}
    BY <1>1, <1>3 DEF DataOK, Account, no_cache
  <2>2. Run(cache, clen, writeb)
    BY <1>1, <1>3 DEF CacheContinues, Run
  <2>3. /\ writeb' = writeb + clen /\ werr' \in Results /\ allocated' \in Nat
        /\ sink' \in [0 .. MaxBytes - 1 -> Int] /\ slen' \in 0 .. MaxBytes
        /\ slen' <= writeb'
        /\ (werr' = "success" /\ type # "null") => slen' = writeb'
        /\ type = "null" => slen' = 0
        /\ \A i \in 0 .. slen' - 1 : sink'[i] = i
        /\ type = "mem" => slen' <= allocated' /\ allocated' <= MaxAlloc
    BY <1>3, <2>1, <2>2, WriteFacts
  <2>4. DataOK'
    BY <1>1, <1>3, <2>1, <2>3 DEF DataOK, Results
  <2>5. Account' /\ Arrived' /\ Flushed'
    BY <1>3, <2>1, <2>3 DEF Account, Arrived, Flushed, no_cache
  <2>6. CacheContinues'
    BY <1>3 DEF CacheContinues
  <2>7. SinkPrefix' /\ MemBounds'
    BY <2>3 DEF SinkPrefix, MemBounds
  <2> QED BY <1>2, <2>4, <2>5, <2>6, <2>7 DEF DInv
<1>4. CASE ~(clen > 0 /\ werr = "success") /\ UNCHANGED <<dataVars, werr>>
  <2> USE DEF dataVars
  <2>1. DataOK'
    BY <1>1, <1>4 DEF DataOK, Results
  <2>2. Account' /\ Arrived'
    BY <1>1, <1>4 DEF Account, Arrived, no_cache
  <2>3. Flushed'
    BY <1>1, <1>4 DEF Flushed, DataOK
  <2>4. CacheContinues' /\ SinkPrefix' /\ MemBounds'
    BY <1>1, <1>4 DEF CacheContinues, SinkPrefix, MemBounds
  <2> QED BY <1>2, <2>1, <2>2, <2>3, <2>4 DEF DInv
<1> QED BY <1>3, <1>4 DEF dst_flush

\* dst_finish
LEMMA FinishStep == ASSUME ~ShortWrites, DInv, dst_finish PROVE DInv'
<1>1. /\ closed \in {"no", "keep", "discard"} /\ file \in {"absent", "old", "new"}
      /\ opening \in {"no", "trunc", "excl"}
    BY DEF DInv, DataOK
<1>2. /\ type # "none" /\ rest = 0 /\ dst_flush /\ finres' = "success" /\ finished'
      /\ UNCHANGED <<type, handed, rest>>
      /\ closed' = closed /\ file' = file /\ opening' = opening
    BY DEF dst_finish, IsOpen, pathVars
<1> QED BY <1>1, <1>2, FlushStep

\* dst_close: what is kept is finished first, unless it was before.
LEMMA CloseStep == ASSUME ~ShortWrites, DInv, NEW discard \in BOOLEAN, dst_close(discard) PROVE DInv'
<1>1. /\ closed' \in {"no", "keep", "discard"} /\ file' \in {"absent", "old", "new"}
      /\ opening' \in {"no", "trunc", "excl"}
    BY DEF DInv, DataOK, dst_close
<1>2. type # "none" /\ rest = 0 /\ UNCHANGED <<type, handed, rest>>
    BY DEF dst_close, IsOpen
<1>3. CASE FinishAtClose(discard) /\ dst_flush /\ finres' = "success" /\ finished'
    BY <1>1, <1>2, <1>3, FlushStep
<1>4. CASE /\ ~FinishAtClose(discard)
           /\ UNCHANGED <<dataVars, werr, finres, finished>>
  <2> USE DEF dataVars
  <2>1. DataOK'
    BY <1>1, <1>2, <1>4 DEF DInv, DataOK
  <2>2. Account' /\ Arrived'
    BY <1>2, <1>4 DEF DInv, Account, Arrived, no_cache
  <2>3. closed' = "keep" => finished
    BY <1>4 DEF dst_close, FinishAtClose
  <2>4. Flushed' /\ Writing'
    BY <1>2, <1>4, <2>3 DEF DInv, Flushed, Writing
  <2>5. CacheContinues' /\ SinkPrefix' /\ MemBounds'
    BY <1>2, <1>4 DEF DInv, CacheContinues, SinkPrefix, MemBounds
  <2> QED BY <2>1, <2>2, <2>4, <2>5 DEF DInv
<1> QED BY <1>3, <1>4 DEF dst_close

\* Every step keeps the invariant.
LEMMA NextIInv == ASSUME ~ShortWrites PROVE IInv /\ [Next]_vars => IInv'
<1> SUFFICES ASSUME IInv, [Next]_vars PROVE IInv'
    OBVIOUS
<1>1. finished' \in BOOLEAN
    BY BoolStep, Zenon DEF IInv
<1>2. DInv
    BY DEF IInv
<1>3. DInv'
  <2>1. CASE Open
    BY <1>2, <2>1, OpenStep
  <2>2. CASE \E n \in 0 .. MaxLen : dst_write(n)
    BY <1>2, <2>2, WriteStep
  <2>3. CASE dst_write_fill
    BY <1>2, <2>3, FillStep
  <2>4. CASE dst_write_store
    BY <1>2, <2>4, StoreStep
  <2>5. CASE dst_finish
    BY <1>2, <2>5, FinishStep
  <2>6. CASE \E discard \in BOOLEAN : dst_close(discard)
    BY <1>2, <2>6, CloseStep
  <2>7. CASE CreateElsewhere \/ UNCHANGED vars
    <3>1. file \in {"absent", "old", "new"} /\ opening \in {"no", "trunc", "excl"}
      BY <1>2 DEF DInv, DataOK
    <3> QED BY <1>2, <2>7, <3>1, SameDest DEF CreateElsewhere, vars, pathVars
  <2> QED BY <2>1, <2>2, <2>3, <2>4, <2>5, <2>6, <2>7 DEF Next, Use
<1> QED BY <1>1, <1>3 DEF IInv

-----------------------------------------------------------------------------
\* The inductive invariant holds in every reachable state, if write(2) takes
\* all of the data or fails.
THEOREM Invariance == ASSUME ~ShortWrites PROVE Spec => []IInv
<1>1. IInv /\ [Next]_vars => IInv'
    BY NextIInv
<1> QED BY <1>1, InitIInv, PTL DEF Spec

\* The variables keep their types: the cache is never overrun, also by a write
\* that fills it to the last byte.
THEOREM TypeCorrect == ASSUME ~ShortWrites PROVE Spec => []TypeOK
<1>1. IInv => TypeOK
    BY Zenon DEF IInv, DInv, DataOK, TypeOK
<1> QED BY <1>1, Invariance, PTL

\* What arrives in a file or a memory area is an initial part of what was
\* written, whatever writes fail.
THEOREM SinkIsPrefix == ASSUME ~ShortWrites PROVE Spec => []SinkPrefix
<1>1. IInv => SinkPrefix
    BY DEF IInv, DInv
<1> QED BY <1>1, Invariance, PTL

\* Without a recorded error every byte is in the sink, in the cache or in the
\* rest of the running dst_write.
THEOREM NothingIsLost == ASSUME ~ShortWrites PROVE Spec => []NothingLost
<1>1. IInv => NothingLost
    BY DEF IInv, DInv, DataOK, Account, Arrived, CacheContinues, NothingLost
<1> QED BY <1>1, Invariance, PTL

\* A destination that was closed to be kept has all bytes or a recorded error.
THEOREM ClosedIsComplete == ASSUME ~ShortWrites PROVE Spec => []ClosedComplete
<1>1. IInv => ClosedComplete
  <2> SUFFICES ASSUME DInv, closed = "keep", werr = "success", type \notin {"none", "null"}
               PROVE  slen = handed
    BY DEF IInv, ClosedComplete
  <2>1. rest = 0
    BY DEF DInv, DataOK, Writing, IsOpen
  <2>2. clen = 0
    BY DEF DInv, Flushed
  <2> QED BY <2>1, <2>2 DEF DInv, DataOK, Account, Arrived
<1> QED BY <1>1, Invariance, PTL

\* A memory area is large enough for its data and within its limit.
THEOREM MemStaysInBounds == ASSUME ~ShortWrites PROVE Spec => []MemBounds
<1>1. IInv => MemBounds
    BY DEF IInv, DInv
<1> QED BY <1>1, Invariance, PTL

\* Every byte written to a destination is accounted for, while it is written to,
\* when it is flushed and when it was closed.
THEOREM AllIsAccounted == ASSUME ~ShortWrites PROVE Spec => []Accounted
<1>1. SinkPrefix /\ NothingLost /\ ClosedComplete /\ MemBounds => Accounted
    BY DEF Accounted
<1> QED BY <1>1, SinkIsPrefix, NothingIsLost, ClosedIsComplete, MemStaysInBounds, PTL

\* The file of an open destination is the one it created, and init_file_dest
\* runs on no open destination.
OwnFile ==
    /\ IsOpen /\ type = "file" => file = "new"
    /\ opening # "no" => ~IsOpen

\* This is inductive by itself, with short writes too.
LEMMA OwnFileStep == OwnFile /\ [Next]_vars => OwnFile'
<1> SUFFICES ASSUME OwnFile, [Next]_vars PROVE OwnFile'
    OBVIOUS
<1> USE DEF OwnFile, IsOpen, pathVars
<1>1. CASE Open
    BY <1>1 DEF Open, init_file_dest_stat, init_file_dest_open, init_stdout_dest,
       init_mem_dest, init_null_dest, init_dst_common
<1>2. CASE \E n \in 0 .. MaxLen : dst_write(n)
    BY <1>2 DEF dst_write
<1>3. CASE dst_write_fill \/ dst_write_store \/ dst_finish
    BY <1>3 DEF dst_write_fill, dst_write_store, dst_finish
<1>4. CASE \E discard \in BOOLEAN : dst_close(discard)
    BY <1>4 DEF dst_close
<1>5. CASE CreateElsewhere \/ UNCHANGED vars
    BY <1>5 DEF CreateElsewhere, vars
<1> QED BY <1>1, <1>2, <1>3, <1>4, <1>5 DEF Next, Use

\* init_file_dest truncates an existing file only when told to overwrite, also
\* when it appears between stat and open.
THEOREM NeverClobbers == Spec => NoClobber
<1>1. Init => OwnFile
    BY DEF Init, OwnFile, IsOpen
<1>2. OwnFile /\ [Next]_vars => [file = "old" /\ file' # "old" => opening = "trunc"]_vars
  <2> SUFFICES ASSUME OwnFile, [Next]_vars, file = "old", file' # "old" PROVE opening = "trunc"
    OBVIOUS
  <2>1. CASE init_file_dest_open
    BY <2>1 DEF init_file_dest_open, OpenSucceeds
  <2>2. CASE \E discard \in BOOLEAN : dst_close(discard)
    BY <2>2 DEF dst_close, OwnFile
  <2> QED BY <2>1, <2>2 DEF Next, Open, Use, vars, pathVars, init_file_dest_stat,
       init_stdout_dest, init_mem_dest, init_null_dest, dst_write, dst_write_fill,
       dst_write_store, dst_finish, CreateElsewhere
<1> QED BY <1>1, <1>2, OwnFileStep, PTL DEF Spec, NoClobber
=============================================================================
