------------------------------ MODULE StreamDest ------------------------------
(***************************************************************************)
(* The cached output destination of the streaming stack: pgp_dest_t with   *)
(* dst_write, dst_finish and dst_close over a file, standard output, a     *)
(* memory area or nothing (stream-common.c).                               *)
(*                                                                         *)
(* The j-th byte that the caller hands to dst_write is represented by j.   *)
(* sink is what really arrived in the file or in the memory area.          *)
(***************************************************************************)
EXTENDS Integers

CONSTANTS
    CacheSize,    \* PGP_OUTPUT_CACHE_SIZE
    MaxAlloc,     \* maxalloc of a memory destination
    Page,         \* 4096 in mem_dst_write
    ShortWrites,  \* whether write(2) may accept a part of the data only
    MaxLen,       \* bound: the longest dst_write
    MaxBytes      \* bound: all bytes handed to a destination

ASSUME DestAssumption ==
    /\ CacheSize \in Nat \ {0}
    /\ MaxAlloc \in Nat
    /\ Page \in Nat \ {0}
    /\ ShortWrites \in BOOLEAN
    /\ MaxLen \in Nat
    /\ MaxBytes \in Nat

VARIABLES
    type,       \* dst->type; "none" before the first init
    cache,      \* dst->cache
    clen,       \* dst->clen
    writeb,     \* dst->writeb
    werr,       \* dst->werr
    finished,   \* dst->finished
    allocated,  \* param->allocated of a memory destination
    sink,       \* the bytes that arrived
    slen,       \* how many
    handed,     \* bytes handed to dst_write
    rest,       \* bytes of the running dst_write that are not stored yet
    finres,     \* result of the last dst_finish, "none" before it
    closed,     \* how the destination was closed: "no", "keep", "discard"
    file,       \* the file at the path: absent, there before, written by us
    opening     \* init_file_dest between stat and open: "no", or its overwrite

dataVars == <<cache, clen, writeb, sink, slen, allocated>>
pathVars == <<file, opening>>
vars == <<type, dataVars, werr, finished, handed, rest, finres, closed, pathVars>>

Types == {"none", "file", "stdout", "mem", "null"}
Results == {"success", "write", "memory"}

IsOpen == type # "none" /\ closed = "no"

no_cache == type \in {"mem", "null"}

EmptyCache == [i \in 0 .. CacheSize - 1 |-> -1]
EmptySink  == [i \in 0 .. MaxBytes - 1 |-> -1]

Copy(to, at, from, start, n) ==
    [i \in DOMAIN to |-> IF at <= i /\ i < at + n THEN from[start + i - at] ELSE to[i]]

\* The caller's pointer buf in dst_write, moved to what is not stored yet.
CallerBuf == [i \in 0 .. MaxLen - 1 |-> handed - rest + i]

-----------------------------------------------------------------------------
Init ==
    /\ type = "none" /\ cache = EmptyCache /\ clen = 0 /\ writeb = 0
    /\ werr = "success" /\ finished = FALSE /\ allocated = 0
    /\ sink = EmptySink /\ slen = 0 /\ handed = 0 /\ rest = 0
    /\ finres = "none" /\ closed = "no"
    /\ file \in {"absent", "old"} /\ opening = "no"

\* memset of the structure and the fields every initialiser leaves at zero
init_dst_common ==
    /\ ~IsOpen
    /\ cache' = EmptyCache /\ clen' = 0 /\ writeb' = 0
    /\ werr' = "success" /\ finished' = FALSE /\ allocated' = 0
    /\ sink' = EmptySink /\ slen' = 0 /\ handed' = 0 /\ rest' = 0
    /\ finres' = "none" /\ closed' = "no"

\* init_file_dest, the test with stat: without overwrite an existing file is
\* an error.
init_file_dest_stat(overwrite) ==
    /\ ~IsOpen /\ opening = "no"
    /\ overwrite \/ file = "absent"
    /\ opening' = IF overwrite THEN "trunc" ELSE "excl"
    /\ UNCHANGED <<type, dataVars, werr, finished, handed, rest, finres, closed, file>>

\* open with O_TRUNC or O_EXCL; the latter fails when the file is there.
OpenSucceedsAlways == opening # "no"
OpenSucceeds == opening = "trunc" \/ (opening = "excl" /\ file = "absent")

\* init_file_dest from open on: it may fail, and so may the allocation in
\* init_dst_common, which leaves the new file behind.
init_file_dest_open ==
    /\ opening # "no"
    /\ opening' = "no"
    /\ \/ /\ OpenSucceeds
          /\ init_dst_common
          /\ type' = "file" /\ file' = "new"
       \/ /\ OpenSucceeds
          /\ file' = "old"
          /\ UNCHANGED <<type, dataVars, werr, finished, handed, rest, finres, closed>>
       \/ UNCHANGED <<type, dataVars, werr, finished, handed, rest, finres, closed, file>>

\* Another process creates the file.
CreateElsewhere ==
    /\ file = "absent"
    /\ file' = "old"
    /\ UNCHANGED <<type, dataVars, werr, finished, handed, rest, finres, closed, opening>>

init_stdout_dest ==
    /\ opening = "no"
    /\ init_dst_common
    /\ type' = "stdout"
    /\ UNCHANGED pathVars

init_mem_dest ==
    /\ opening = "no"
    /\ init_dst_common
    /\ type' = "mem"
    /\ UNCHANGED pathVars

\* init_null_dest sets fewer fields, but its only caller has zeroed the
\* structure before (process_pgp_source).
init_null_dest ==
    /\ opening = "no"
    /\ init_dst_common
    /\ type' = "null"
    /\ UNCHANGED pathVars

-----------------------------------------------------------------------------
\* write(2) of n bytes of b.  "we assyme that blocking I/O is used so
\* everything is written or error received": any count is success.
file_dst_write(b, n) ==
    /\ type \in {"file", "stdout"}
    /\ UNCHANGED allocated
    /\ \/ /\ werr' = "write"
          /\ UNCHANGED <<sink, slen>>
       \/ \E k \in (IF ShortWrites THEN 0 .. n ELSE {n}) :
            /\ sink' = Copy(sink, slen, b, 0, k)
            /\ slen' = slen + k
            /\ werr' = "success"

\* The new size of the memory area: doubled, in pages, up to the maximum.
Grow(need) ==
    LET alloc == ((need * 2 + Page - 1) \div Page) * Page
    IN  IF alloc > MaxAlloc THEN MaxAlloc ELSE alloc

\* Data go to param->memory + dst->writeb.
mem_dst_write(b, n) ==
    /\ type = "mem"
    /\ \/ /\ writeb + n > allocated
          /\ werr' = "memory"
          /\ UNCHANGED <<sink, slen, allocated>>
       \/ /\ writeb + n > allocated => writeb + n <= MaxAlloc
          /\ allocated' = IF writeb + n > allocated THEN Grow(writeb + n) ELSE allocated
          /\ sink' = Copy(sink, writeb, b, 0, n)
          /\ slen' = writeb + n
          /\ werr' = "success"

null_dst_write ==
    /\ type = "null"
    /\ werr' = "success"
    /\ UNCHANGED <<sink, slen, allocated>>

\* dst->write(dst, b, n) and what dst_write and dst_flush do after each call.
Write(b, n) ==
    /\ file_dst_write(b, n) \/ mem_dst_write(b, n) \/ null_dst_write
    /\ writeb' = writeb + n

-----------------------------------------------------------------------------
\* Entry of dst_write.  "we call write function only if all previous calls
\* succeeded"; a caller does not write to a destination it has finished.
dst_write(n) ==
    /\ IsOpen /\ rest = 0 /\ ~finished
    /\ handed + n <= MaxBytes
    /\ handed' = handed + n
    /\ rest' = IF n > 0 /\ werr = "success" THEN n ELSE 0
    /\ UNCHANGED <<type, dataVars, werr, finished, finres, closed, pathVars>>

\* "if cache non-empty and len will overflow it then fill it and write out"
Overflows == clen > 0 /\ clen + rest > CacheSize

\* After an error the rest of the data is left.
RestAfterFill == IF werr' = "success" THEN rest - (CacheSize - clen) ELSE 0

dst_write_fill ==
    /\ rest > 0 /\ Overflows
    /\ cache' = Copy(cache, clen, CallerBuf, 0, CacheSize - clen)
    /\ Write(cache', CacheSize)
    /\ clen' = 0
    /\ rest' = RestAfterFill
    /\ UNCHANGED <<type, finished, handed, finres, closed, pathVars>>

\* "here everything will fit into the cache or cache is empty"
StoreAtStart == 0
StoreAt == clen
dst_write_store ==
    /\ rest > 0 /\ ~Overflows
    /\ rest' = 0
    /\ \/ /\ no_cache \/ rest > CacheSize
          /\ Write(CallerBuf, rest)
          /\ UNCHANGED <<cache, clen>>
       \/ /\ ~(no_cache \/ rest > CacheSize)
          /\ cache' = Copy(cache, StoreAt, CallerBuf, 0, rest)
          /\ clen' = clen + rest
          /\ UNCHANGED <<writeb, sink, slen, allocated, werr>>
    /\ UNCHANGED <<type, finished, handed, finres, closed, pathVars>>

dst_flush ==
    \/ /\ clen > 0 /\ werr = "success"
       /\ Write(cache, clen)
       /\ clen' = 0
       /\ UNCHANGED cache
    \/ /\ ~(clen > 0 /\ werr = "success")
       /\ UNCHANGED <<dataVars, werr>>

\* None of these destinations has a finish handler: the result is success.
dst_finish ==
    /\ IsOpen /\ rest = 0
    /\ dst_flush
    /\ finres' = "success"
    /\ finished' = TRUE
    /\ UNCHANGED <<type, handed, rest, closed, pathVars>>

FinishAtClose(discard) == ~discard /\ ~finished

\* dst_close, which finishes first what was not finished and is to be kept,
\* and file_dst_close, mem_dst_close or null_dst_close.
dst_close(discard) ==
    /\ IsOpen /\ rest = 0
    /\ \/ /\ FinishAtClose(discard)
          /\ dst_flush
          /\ finres' = "success"
          /\ finished' = TRUE
       \/ /\ ~FinishAtClose(discard)
          /\ UNCHANGED <<dataVars, werr, finres, finished>>
    /\ closed' = IF discard THEN "discard" ELSE "keep"
    /\ file' = IF type = "file" THEN (IF discard THEN "absent" ELSE "old") ELSE file
    /\ UNCHANGED <<type, handed, rest, opening>>

-----------------------------------------------------------------------------
Open == \/ \E overwrite \in BOOLEAN : init_file_dest_stat(overwrite)
        \/ init_file_dest_open \/ init_stdout_dest \/ init_mem_dest \/ init_null_dest

Use == \/ \E n \in 0 .. MaxLen : dst_write(n)
       \/ dst_write_fill \/ dst_write_store \/ dst_finish
       \/ \E discard \in BOOLEAN : dst_close(discard)

Next == Open \/ Use \/ CreateElsewhere

Spec == Init /\ [][Next]_vars

-----------------------------------------------------------------------------
\* Types of the variables; the cache never holds more than its size, also when
\* a write fills it to the last byte.
TypeOK ==
    /\ type \in Types
    /\ cache \in [0 .. CacheSize - 1 -> Int] /\ clen \in 0 .. CacheSize
    /\ writeb \in 0 .. MaxBytes /\ werr \in Results /\ finished \in BOOLEAN
    /\ allocated \in Nat
    /\ sink \in [0 .. MaxBytes - 1 -> Int] /\ slen \in 0 .. MaxBytes
    /\ handed \in 0 .. MaxBytes /\ rest \in 0 .. MaxLen
    /\ finres \in Results \cup {"none"} /\ closed \in {"no", "keep", "discard"}
    /\ file \in {"absent", "old", "new"} /\ opening \in {"no", "trunc", "excl"}

\* What arrives is an initial part of what the caller handed over, in order,
\* without gaps or repetitions, whatever writes fail: once one failed, no later
\* byte arrives (dst_write, dst_flush and the order in which the cache and the
\* direct writes are used).
SinkPrefix == \A i \in 0 .. slen - 1 : sink[i] = i

\* While no error is recorded every byte is in the sink, in the cache or in the
\* rest of the running call, and writeb counts the bytes that left the cache;
\* the cache continues the sink.
NothingLost ==
    (werr = "success" /\ type \notin {"none", "null"}) =>
        /\ slen + clen + rest = handed
        /\ writeb = slen
        /\ \A i \in 0 .. clen - 1 : cache[i] = slen + i

\* A destination that was closed to be kept, with no error recorded, has every
\* byte that was written to it, whether dst_finish was called before or was
\* left to dst_close.
ClosedComplete ==
    (closed = "keep" /\ werr = "success" /\ type \notin {"none", "null"}) => slen = handed

\* The memory area is large enough for what is in it and within maxalloc.
MemBounds == type = "mem" => slen <= allocated /\ allocated <= MaxAlloc

\* The account of a destination at any point: every byte handed over is in its
\* place, in the sink, in the cache or in the running call, or an error is recorded.
Accounted == SinkPrefix /\ NothingLost /\ ClosedComplete /\ MemBounds

\* init_file_dest truncates a file that is there only if it was told to
\* overwrite, even if the file appears between stat and open.
NoClobber == [][file = "old" /\ file' # "old" => opening = "trunc"]_vars

\* dst_finish: "@return RNP_SUCCESS or error code if something went wrong"
\* (stream-common.h): success is not returned over a recorded write error.
FinishReportsErrors == finres = "success" => werr = "success"

\* file_dst_write: "everything is written or error received": a destination
\* without an error has passed on everything that left its cache.
EverythingWrittenOrError ==
    (type = "file" /\ werr = "success") => slen + clen + rest = handed
=============================================================================
