----------------------------- MODULE StreamSource -----------------------------
(***************************************************************************)
(* The cached input source of the streaming stack: pgp_source_t with its   *)
(* cache and the operations src_read, src_peek, src_skip, src_eof and      *)
(* src_close over a file, standard input or a memory area                  *)
(* (stream-common.c).                                                      *)
(*                                                                         *)
(* The byte at offset j of the underlying file is represented by j itself, *)
(* so that a lost, repeated or reordered byte is visible in a buffer.  A   *)
(* call of a src_ function starts with its entry action and runs to its    *)
(* return through one action per iteration of its loop, because every      *)
(* iteration asks the operating system for bytes and may get any number of *)
(* them, none, or an error.                                                *)
(***************************************************************************)
EXTENDS Integers

CONSTANTS
    CacheSize,  \* PGP_INPUT_CACHE_SIZE
    SkipBuf,    \* sizeof(sbuf) in src_skip
    MaxTotal,   \* bound: the longest file
    MaxLen      \* bound: the longest request, and the size of a caller's buffer

ASSUME SourceAssumption ==
    /\ CacheSize \in Nat \ {0}
    /\ SkipBuf \in Nat
    /\ MaxTotal \in Nat
    /\ MaxLen \in Nat \ {0}

VARIABLES
    type,     \* what the source reads from; "none" before init and after close
    known,    \* src->knownsize
    size,     \* src->size: the size stat() reported
    total,    \* the bytes that can really be read (a file changes after stat())
    upos,     \* position of the file descriptor, or param->pos of a memory area
    buf,      \* src->cache->buf
    cpos,     \* src->cache->pos
    clen,     \* src->cache->len
    readb,    \* src->readb
    eof,      \* src->eof
    op,       \* the function called last
    busy,     \* it has not returned yet
    asked,    \* its argument len
    want,     \* its local len after the correction by the known size
    left,     \* src_read: its local left
    ra,       \* its local readahead
    out,      \* the caller's buffer
    ret,      \* its return value, once it has returned
    base,     \* history: offset of the first undelivered byte when it was called
    dropped   \* history: bytes consumed by reads that then failed

srcVars   == <<type, known, size, total>>
cacheVars == <<buf, cpos, clen>>
callVars  == <<op, busy, asked, want, left, ra, out, ret, base>>
vars == <<srcVars, upos, cacheVars, readb, eof, dropped, callVars>>

Types == {"none", "file", "stdin", "mem"}
Ops   == {"none", "read", "skip", "peek", "eof"}

\* A byte position that nothing was stored in.
NoByte == -1

EmptyCache == [i \in 0 .. CacheSize - 1 |-> NoByte]
EmptyOut   == [i \in 0 .. MaxLen - 1 |-> NoByte]

\* memcpy(to + at, from + start, n), and memmove when to and from are the same.
Copy(to, at, from, start, n) ==
    [i \in DOMAIN to |-> IF at <= i /\ i < at + n THEN from[start + i - at] ELSE to[i]]

\* k bytes of the file, from its current position, stored at to + at.
Store(to, at, k) ==
    [i \in DOMAIN to |-> IF at <= i /\ i < at + k THEN upos + i - at ELSE to[i]]

\* The offset of the next byte that a caller has not been given.
NextByte == readb + dropped

Cached == clen - cpos

\* Where src_read stores the next bytes: its pointer buf has been moved past
\* the ones it has.
OutPosStart == 0
OutPos == want - left

-----------------------------------------------------------------------------
Init ==
    /\ type = "none" /\ known = FALSE /\ size = 0 /\ total = 0 /\ upos = 0
    /\ buf = EmptyCache /\ cpos = 0 /\ clen = 0
    /\ readb = 0 /\ eof = FALSE /\ dropped = 0
    /\ op = "none" /\ busy = FALSE /\ asked = 0 /\ want = 0 /\ left = 0
    /\ ra = TRUE /\ out = EmptyOut /\ ret = 0 /\ base = 0

\* memset of the structure, a new empty cache
init_src_common ==
    /\ type = "none"
    /\ upos' = 0
    /\ buf' = EmptyCache /\ cpos' = 0 /\ clen' = 0
    /\ readb' = 0 /\ eof' = FALSE /\ dropped' = 0
    /\ op' = "none" /\ busy' = FALSE /\ asked' = 0 /\ want' = 0 /\ left' = 0
    /\ ra' = TRUE /\ out' = EmptyOut /\ ret' = 0 /\ base' = 0

\* The file may be shorter or longer than stat() said by the time it is read.
init_file_src(sz, tot) ==
    /\ init_src_common
    /\ type' = "file" /\ known' = TRUE /\ size' = sz /\ total' = tot

init_stdin_src(tot) ==
    /\ init_src_common
    /\ type' = "stdin" /\ known' = FALSE /\ size' = 0 /\ total' = tot

init_mem_src(len) ==
    /\ init_src_common
    /\ type' = "mem" /\ known' = TRUE /\ size' = len /\ total' = len

\* What src->read(src, p, r) can return: read(2) gives any part of what was
\* asked for, 0 at the end of the file only, or fails without moving the
\* position; mem_src_read gives all that is asked for and there.
ReadResults(r) ==
    {k \in 1 .. r : /\ upos + k <= total
                    /\ type = "mem" => k = r \/ upos + k = total}
    \cup {k \in {0} : upos = total}
    \cup {k \in {-1} : type # "mem"}

-----------------------------------------------------------------------------
\* src_skip moves within the cache without looking at the known size.  Past
\* it, size - readb wraps around in the next call: such a source is not
\* followed further, it can only be closed.
Overrun == known /\ readb > size

\* Entry of a call with argument n.
Call(o, n) ==
    /\ type # "none" /\ ~busy /\ ~Overrun
    /\ op' = o /\ asked' = n /\ base' = NextByte
    /\ UNCHANGED <<srcVars, dropped>>

Return(r) == busy' = FALSE /\ ret' = r

\* "Do not read more then available if source size is known"
Clipped(n) == known /\ readb + n > size
Clip(n) == IF Clipped(n) THEN size - readb ELSE n

\* The code from label finish of src_read, with its local len.
FinishEarlyEof(len, ateof) ==
    /\ readb' = readb + len
    /\ eof' = (ateof \/ (known /\ readb + len + 1 >= size))
    /\ Return(len)
Finish(len, ateof) ==
    /\ readb' = readb + len
    /\ eof' = (ateof \/ (known /\ readb + len = size))
    /\ Return(len)

\* src_read up to its loop: end of file, enough bytes in the cache, or what
\* the cache has and the loop for the rest.
EnterRead(o, n) ==
    LET len == Clip(n)
    IN  /\ Call(o, n)
        /\ ra' = ~Clipped(n)
        /\ \/ /\ eof \/ n = 0
              /\ want' = 0 /\ left' = 0 /\ out' = EmptyOut
              /\ Return(0)
              /\ UNCHANGED <<upos, cacheVars, readb, eof>>
           \/ /\ ~(eof \/ n = 0)
              /\ Cached >= len
              /\ want' = len /\ left' = 0
              /\ out' = Copy(EmptyOut, 0, buf, cpos, len)
              /\ cpos' = cpos + len
              /\ Finish(len, eof)
              /\ UNCHANGED <<upos, buf, clen>>
           \/ /\ ~(eof \/ n = 0)
              /\ Cached < len
              /\ want' = len /\ left' = len - Cached
              /\ out' = Copy(EmptyOut, 0, buf, cpos, Cached)
              /\ cpos' = clen
              /\ busy' = TRUE
              /\ UNCHANGED <<upos, buf, clen, readb, eof, ret>>

src_read(n) == EnterRead("read", n)

\* A step of the loop of src_read.
InReadLoop == busy /\ op \in {"read", "skip"} /\ left > 0

\* src->read fails: src_read returns -1, and neither readb nor the caller
\* learns of the bytes that were copied before.
ReadFails ==
    /\ dropped' = dropped + OutPos
    /\ Return(-1)
    /\ UNCHANGED <<upos, cacheVars, readb, eof, left, out>>

ReadEndsRetry ==
    /\ eof' = TRUE
    /\ UNCHANGED <<upos, cacheVars, left, out, dropped, readb, busy, ret>>
ReadEnds ==
    /\ Finish(OutPos, TRUE)
    /\ UNCHANGED <<upos, cacheVars, left, out, dropped>>

\* The chunk is larger than the cache, or the end of a known size is near.
src_read_direct ==
    /\ InReadLoop
    /\ left > CacheSize \/ ~ra
    /\ \E k \in ReadResults(left) :
          \/ k = -1 /\ ReadFails
          \/ k = 0 /\ ReadEnds
          \/ /\ k > 0
             /\ out' = Store(out, OutPos, k)
             /\ left' = left - k
             /\ upos' = upos + k
             /\ UNCHANGED <<cacheVars, readb, eof, dropped, busy, ret>>
    /\ UNCHANGED <<srcVars, op, asked, want, ra, base>>

\* "Try to fill the cache to avoid small reads"
src_read_fill ==
    /\ InReadLoop
    /\ left <= CacheSize /\ ra
    /\ \E k \in ReadResults(CacheSize) :
          \/ k = -1 /\ ReadFails
          \/ k = 0 /\ ReadEnds
          \/ /\ k > 0 /\ k < left
             /\ buf' = Store(buf, 0, k)
             /\ out' = Copy(out, OutPos, buf', 0, k)
             /\ left' = left - k
             /\ upos' = upos + k
             /\ UNCHANGED <<cpos, clen, readb, eof, dropped, busy, ret>>
          \/ /\ k >= left
             /\ buf' = Store(buf, 0, k)
             /\ out' = Copy(out, OutPos, buf', 0, left)
             /\ left' = 0
             /\ upos' = upos + k
             /\ cpos' = left /\ clen' = k
             /\ Finish(want, eof)
             /\ UNCHANGED dropped
    /\ UNCHANGED <<srcVars, op, asked, want, ra, base>>

\* The loop ends because nothing is left to read.
src_read_finish ==
    /\ busy /\ op \in {"read", "skip"} /\ left = 0
    /\ Finish(want, eof)
    /\ UNCHANGED <<srcVars, upos, cacheVars, dropped, op, asked, want, left, ra, out, base>>

-----------------------------------------------------------------------------
\* The bytes of the cache at the start of its buffer (memmove in src_peek).
CompactedNot == buf
Compacted == Copy(buf, 0, buf, cpos, Cached)

\* src_peek up to its loop; the cache is moved to the start of its buffer
\* before more bytes are read behind it.
EnterPeek(o, n) ==
    LET len == Clip(n)
    IN  /\ Call(o, n)
        /\ ra' = ~Clipped(n)
        /\ left' = 0
        /\ UNCHANGED <<upos, readb, eof>>
        /\ \/ /\ n > CacheSize
              /\ want' = 0 /\ out' = EmptyOut
              /\ Return(-1)
              /\ UNCHANGED cacheVars
           \/ /\ n <= CacheSize /\ eof
              /\ want' = 0 /\ out' = EmptyOut
              /\ Return(0)
              /\ UNCHANGED cacheVars
           \/ /\ n <= CacheSize /\ ~eof /\ Cached >= len
              /\ want' = len
              /\ out' = Copy(EmptyOut, 0, buf, cpos, len)
              /\ Return(len)
              /\ UNCHANGED cacheVars
           \/ /\ n <= CacheSize /\ ~eof /\ Cached < len
              /\ want' = len /\ out' = EmptyOut
              /\ buf' = Compacted
              /\ clen' = Cached /\ cpos' = 0
              /\ busy' = TRUE
              /\ UNCHANGED ret

src_peek(n) == EnterPeek("peek", n)

\* True is a peek of one byte that returns 0.
src_eof == EnterPeek("eof", 1)

\* How much src_peek asks for.
PeekRequest == IF ra THEN CacheSize - clen ELSE want - clen

\* src->read has nothing more: what the cache has is the answer.
PeekEnds ==
    /\ out' = Copy(out, 0, buf, 0, clen)
    /\ Return(clen)
    /\ UNCHANGED <<upos, buf, clen, eof>>

\* A step of the loop of src_peek.
src_peek_fill ==
    /\ busy /\ op \in {"peek", "eof"}
    /\ \E k \in ReadResults(PeekRequest) :
          \/ /\ k = -1
             /\ Return(-1)
             /\ UNCHANGED <<upos, buf, clen, eof, out>>
          \/ k = 0 /\ PeekEnds
          \/ /\ k > 0
             /\ buf' = Store(buf, clen, k)
             /\ clen' = clen + k
             /\ upos' = upos + k
             /\ UNCHANGED eof
             /\ \/ /\ clen + k >= want
                   /\ out' = Copy(out, 0, buf', 0, want)
                   /\ Return(want)
                \/ /\ clen + k < want
                   /\ UNCHANGED <<out, busy, ret>>
    /\ UNCHANGED <<srcVars, cpos, readb, dropped, op, asked, want, left, ra, base>>

-----------------------------------------------------------------------------
\* Bytes of the cache are skipped in place, others are read into a scratch
\* buffer, which has to be allocated from a certain length on.
src_skip(n) ==
    \/ /\ Cached >= n
       /\ Call("skip", n)
       /\ readb' = readb + n
       /\ cpos' = cpos + n
       /\ Return(n)
       /\ want' = n /\ left' = 0 /\ out' = EmptyOut
       /\ UNCHANGED <<upos, buf, clen, eof, ra>>
    \/ /\ Cached < n
       /\ EnterRead("skip", n)
    \/ /\ Cached < n /\ n >= SkipBuf
       /\ Call("skip", n)
       /\ Return(-1)
       /\ want' = 0 /\ left' = 0 /\ out' = EmptyOut
       /\ UNCHANGED <<upos, cacheVars, readb, eof, ra>>

src_close ==
    /\ type # "none" /\ ~busy
    /\ type' = "none"
    /\ buf' = EmptyCache /\ cpos' = 0 /\ clen' = 0
    /\ op' = "none"
    /\ UNCHANGED <<known, size, total, upos, readb, eof, dropped, busy, asked, want,
                   left, ra, out, ret, base>>

-----------------------------------------------------------------------------
Open == \/ \E sz, tot \in 0 .. MaxTotal : init_file_src(sz, tot)
        \/ \E tot \in 0 .. MaxTotal : init_stdin_src(tot) \/ init_mem_src(tot)

Enter == \/ \E n \in 0 .. MaxLen : src_read(n) \/ src_peek(n) \/ src_skip(n)
         \/ src_eof

Loop == src_read_direct \/ src_read_fill \/ src_read_finish \/ src_peek_fill

Next == Open \/ Enter \/ Loop \/ src_close

Spec == Init /\ [][Next]_vars

-----------------------------------------------------------------------------
\* Types of the variables and the bounds of the cache and of the counters.
TypeOK ==
    /\ type \in Types /\ known \in BOOLEAN
    /\ size \in 0 .. MaxTotal /\ total \in 0 .. MaxTotal /\ upos \in 0 .. MaxTotal
    /\ buf \in [0 .. CacheSize - 1 -> Int]
    /\ cpos \in 0 .. CacheSize /\ clen \in 0 .. CacheSize
    /\ readb \in Nat /\ eof \in BOOLEAN /\ dropped \in Nat
    /\ op \in Ops /\ busy \in BOOLEAN
    /\ asked \in 0 .. MaxLen /\ want \in 0 .. MaxLen /\ left \in 0 .. MaxLen
    /\ ra \in BOOLEAN
    /\ out \in [0 .. MaxLen - 1 -> Int]
    /\ ret \in -1 .. MaxLen
    /\ base \in Nat

\* Between two calls the cache holds exactly the bytes that were taken from
\* the file and not yet given to a caller, in their order (the bookkeeping of
\* cache->pos and cache->len in src_read, src_peek and src_skip).
CacheCoherent ==
    (type # "none" /\ ~busy) =>
        /\ cpos <= clen
        /\ upos = NextByte + Cached
        /\ \A i \in cpos .. clen - 1 : buf[i] = NextByte + (i - cpos)

\* What src_read delivers are the next undelivered bytes, each exactly once;
\* src_peek delivers the same bytes and consumes none, also when it fails.
Delivered ==
    ~busy =>
        /\ (op \in {"read", "peek", "eof"} /\ ret > 0)
              => \A i \in 0 .. ret - 1 : out[i] = base + i
        /\ (op \in {"read", "skip"} /\ ret >= 0) => NextByte = base + ret
        /\ op \in {"peek", "eof"} => NextByte = base

\* src->eof is only set when every byte was delivered: those of the file, or
\* as many as its known size promises.
EofSound ==
    eof => NextByte = total \/ (known /\ readb >= size)

\* src->eof is "end of data as reported by read and empty cache": nothing is
\* left in the cache, unless the file grew beyond the size it had at open.
EofEmptyCache ==
    (eof /\ type # "none" /\ (known => total <= size)) => cpos = clen /\ upos = total

\* A read that returns less than asked for, 0 included, has set src->eof (the
\* caller's test for the end of data after a short read).
ShortReadIsEof ==
    (~busy /\ op = "read" /\ 0 <= ret /\ ret < asked) => eof

\* A short peek shows all there is: what it returns ends at the end of the
\* file or at the known size; src_eof is true at the end only.
ShortPeekIsEnd ==
    (~busy /\ op \in {"peek", "eof"} /\ 0 <= ret /\ ret < asked)
        => NextByte + ret = total \/ (known /\ readb + ret >= size)

\* A read never gives a caller a byte beyond the known size of the source,
\* whatever the cache holds.
WithinSize ==
    (known /\ ~busy /\ op \in {"read", "peek", "eof"} /\ ret > 0 /\ ~Overrun)
        => out[ret - 1] < size + dropped

\* What the end of a source means to those who read from it: the four statements
\* above about src->eof and short results, and the bound by the known size, hold
\* together after every sequence of calls.
EndIsMeant == EofSound /\ EofEmptyCache /\ ShortReadIsEof /\ ShortPeekIsEnd /\ WithinSize

\* An iteration of the loop of src_read or src_peek either returns or has
\* brought the request nearer to its end: no sequence of short reads, empty
\* reads and errors keeps a call going for ever.
LoopProgress ==
    [][(busy /\ busy' /\ left > 0 => left' < left) /\ (busy /\ busy' /\ left = 0 => clen' > clen)]_vars

-----------------------------------------------------------------------------
(* The inductive invariant behind the properties above.                    *)

\* Bounds that hold in every state.
Bounds ==
    /\ cpos <= clen /\ upos <= total
    /\ type # "none" /\ ~busy => upos = NextByte + Cached

\* The cache between two calls.
CacheHolds ==
    (type # "none" /\ ~busy) => \A i \in cpos .. clen - 1 : buf[i] = NextByte + (i - cpos)

\* What a running call knows about the request it works on.
Request ==
    busy =>
        /\ type # "none" /\ op \in {"read", "skip", "peek", "eof"}
        /\ base = NextByte /\ ~eof
        /\ want <= asked
        /\ want < asked => known /\ readb + want = size
        /\ known => readb + want <= size

\* src_read in its loop: the cache is used up, the caller's buffer holds what
\* was read so far.
InRead ==
    (busy /\ op \in {"read", "skip"}) =>
        /\ cpos = clen /\ left <= want
        /\ upos = base + OutPos
        /\ \A i \in 0 .. OutPos - 1 : out[i] = base + i

\* src_peek in its loop: the cache starts with the next byte and is too short.
InPeek ==
    (busy /\ op \in {"peek", "eof"}) =>
        /\ cpos = 0 /\ clen < want /\ want <= CacheSize /\ left = 0
        /\ upos = base + clen
        /\ \A i \in 0 .. clen - 1 : buf[i] = base + i

\* A peek stays within the known size.
PeekWithin ==
    (~busy /\ op \in {"peek", "eof"} /\ known /\ ret > 0) => readb + ret <= size

IInv ==
    /\ TypeOK /\ Bounds /\ CacheHolds /\ Request /\ InRead /\ InPeek
    /\ Delivered /\ EofSound /\ ShortReadIsEof /\ ShortPeekIsEnd /\ PeekWithin
=============================================================================
