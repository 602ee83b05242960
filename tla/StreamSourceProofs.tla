-------------------------- MODULE StreamSourceProofs --------------------------
(***************************************************************************)
(* The properties of StreamSource, for every size of the cache, of the     *)
(* scratch buffer of src_skip, of the file and of a request.               *)
(*                                                                         *)
(* The properties speak of the state between two calls.  They are not      *)
(* inductive: what a call returns depends on what its loop left in the     *)
(* caller's buffer and in the cache.  IInv adds that (InRead and InPeek:   *)
(* the bytes read so far continue those delivered before, and the position *)
(* of the file is just behind them), what the call remembers of its        *)
(* request (Request), the bounds between the counters, and that a peek     *)
(* stays within the known size.                                            *)
(*                                                                         *)
(* The proof has one lemma per action (..Step), each from the lemmas about *)
(* copying bytes and about the ways a call returns, and NextIInv puts them *)
(* together.  Boolean variables are treated apart from all others (BoolOK  *)
(* and BoolStep, DInv): Zenon proves facts about the former, SMT about     *)
(* the latter.                                                             *)
(***************************************************************************)
EXTENDS StreamSource, TLAPS

\* The Boolean variables, and all others: the provers treat them apart.
BoolOK == known \in BOOLEAN /\ eof \in BOOLEAN /\ busy \in BOOLEAN /\ ra \in BOOLEAN

DataOK ==
    /\ type \in Types /\ op \in Ops
    /\ size \in 0 .. MaxTotal /\ total \in 0 .. MaxTotal /\ upos \in 0 .. MaxTotal
    /\ buf \in [0 .. CacheSize - 1 -> Int]
    /\ cpos \in 0 .. CacheSize /\ clen \in 0 .. CacheSize
    /\ readb \in Nat /\ dropped \in Nat /\ base \in Nat
    /\ asked \in 0 .. MaxLen /\ want \in 0 .. MaxLen /\ left \in 0 .. MaxLen
    /\ out \in [0 .. MaxLen - 1 -> Int]
    /\ ret \in -1 .. MaxLen

\* The two parts make up the type invariant.
LEMMA TypeParts == TypeOK <=> BoolOK /\ DataOK
    BY Zenon DEF TypeOK, BoolOK, DataOK

\* An empty cache and an empty buffer of a caller have their types.
LEMMA EmptyFacts ==
    /\ EmptyCache \in [0 .. CacheSize - 1 -> Int]
    /\ EmptyOut \in [0 .. MaxLen - 1 -> Int]
    BY SourceAssumption DEF EmptyCache, EmptyOut, NoByte

\* No source is open at the start.
LEMMA InitIInv == Init => IInv
<1> SUFFICES ASSUME Init PROVE IInv
    OBVIOUS
<1>1. BoolOK
    BY Zenon DEF Init, BoolOK
<1>2. DataOK
    BY EmptyFacts, SourceAssumption DEF Init, DataOK, Types, Ops
<1>3. Bounds /\ CacheHolds /\ Request /\ InRead /\ InPeek
    BY DEF Init, Bounds, CacheHolds, Request, InRead, InPeek
<1>4. Delivered /\ EofSound /\ ShortReadIsEof /\ ShortPeekIsEnd /\ PeekWithin
    BY DEF Init, Delivered, EofSound, ShortReadIsEof, ShortPeekIsEnd, PeekWithin
<1> QED BY <1>1, <1>2, <1>3, <1>4, TypeParts DEF IInv

-----------------------------------------------------------------------------
\* The Boolean variables stay Boolean in every step.
LEMMA BoolStep == BoolOK /\ [Next]_vars => BoolOK'
<1> SUFFICES ASSUME BoolOK, [Next]_vars PROVE BoolOK'
    OBVIOUS
<1> USE DEF BoolOK, srcVars, callVars, cacheVars, vars
<1>1. CASE Open
    BY <1>1, Zenon DEF Open, init_file_src, init_stdin_src, init_mem_src, init_src_common
<1>2. ASSUME NEW o, NEW n, EnterRead(o, n) PROVE BoolOK'
    BY <1>2, Zenon DEF EnterRead, Call, Clipped, Finish, Return
<1>3. ASSUME NEW o, NEW n, EnterPeek(o, n) PROVE BoolOK'
    BY <1>3, Zenon DEF EnterPeek, Call, Clipped, Return
<1>4. ASSUME NEW n, src_skip(n) PROVE BoolOK'
    BY <1>2, <1>4, Zenon DEF src_skip, Call, Return
<1>5. CASE Enter
    BY <1>2, <1>3, <1>4, <1>5, Zenon DEF Enter, src_read, src_peek, src_eof
<1>6. CASE src_read_direct
    BY <1>6, Zenon DEF src_read_direct, ReadFails, ReadEnds, Finish, Return
<1>7. CASE src_read_fill
    BY <1>7, Zenon DEF src_read_fill, ReadFails, ReadEnds, Finish, Return
<1>8. CASE src_read_finish
    BY <1>8, Zenon DEF src_read_finish, Finish, Return
<1>9. CASE src_peek_fill
    BY <1>9, Zenon DEF src_peek_fill, PeekEnds, Return
<1>10. CASE src_close
    BY <1>10, Zenon DEF src_close
<1>11. CASE UNCHANGED vars
    BY <1>11, Zenon
<1> QED BY <1>1, <1>5, <1>6, <1>7, <1>8, <1>9, <1>10, <1>11, Zenon DEF Next, Loop

\* The rest of the invariant, without the types of the Boolean variables.
DInv ==
    /\ DataOK /\ Bounds /\ CacheHolds /\ Request /\ InRead /\ InPeek
    /\ Delivered /\ EofSound /\ ShortReadIsEof /\ ShortPeekIsEnd /\ PeekWithin

\* The invariant, with its Boolean part apart.
LEMMA InvParts == IInv <=> BoolOK /\ DInv
    BY TypeParts, Zenon DEF IInv, DInv

-----------------------------------------------------------------------------
\* What a step of the loop of src_read starts from.
ReadLoopState ==
    /\ UNCHANGED <<srcVars, op, asked, want, ra, base>>
    /\ busy /\ op \in {"read", "skip"}
    /\ type # "none" /\ base = NextByte /\ ~eof
    /\ cpos = clen /\ left <= want /\ want <= asked
    /\ upos = base + OutPos /\ upos <= total
    /\ \A i \in 0 .. OutPos - 1 : out[i] = base + i
    /\ want < asked => known /\ readb + want = size
    /\ known => readb + want <= size

\* The returns from the loop of src_read, with the code behind label finish:
\* nothing of the rest of the invariant speaks of a running call any more.
LEMMA ReadReturns ==
    ASSUME DInv, DataOK', ReadLoopState, ~busy',
           cpos' <= clen', upos' <= total,
           upos' = readb' + dropped' + (clen' - cpos'),
           \A i \in cpos' .. clen' - 1 : buf'[i] = readb' + dropped' + (i - cpos'),
           \/ ret' = -1
           \/ /\ ret' >= 0 /\ readb' = readb + ret' /\ dropped' = dropped
              /\ \A i \in 0 .. ret' - 1 : out'[i] = base + i
              /\ ret' < asked => eof',
           eof' => readb' + dropped' = total \/ (known /\ readb' >= size)
    PROVE  DInv'
<1>0. /\ op' = op /\ op \in {"read", "skip"} /\ asked' = asked /\ base' = base
      /\ base = readb + dropped /\ total' = total /\ size' = size /\ known' = known
      /\ type' = type /\ type # "none"
    BY DEF ReadLoopState, srcVars, NextByte
<1>1. (Bounds /\ CacheHolds)'
    BY <1>0 DEF Bounds, CacheHolds, NextByte, Cached
<1>2. (Request /\ InRead /\ InPeek)'
    BY DEF Request, InRead, InPeek
<1>3. Delivered'
  <2>1. ret' = -1 => ~(ret' > 0) /\ ~(ret' >= 0)
    OBVIOUS
  <2>2. readb \in Nat /\ dropped \in Nat /\ ret' \in Int
    BY SourceAssumption DEF DataOK, DInv
  <2>3. ret' >= 0 /\ readb' = readb + ret' /\ dropped' = dropped
            => readb' + dropped' = base + ret'
    BY <1>0, <2>2
  <2> QED BY <1>0, <2>1, <2>3 DEF Delivered, NextByte
<1>4. (ShortPeekIsEnd /\ PeekWithin)'
    BY <1>0 DEF ShortPeekIsEnd, PeekWithin
<1>5. EofSound'
    BY <1>0 DEF EofSound, NextByte
<1>6. ShortReadIsEof'
  <2>1. ret' = -1 => ~(0 <= ret')
    OBVIOUS
  <2> QED BY <1>0, <2>1 DEF ShortReadIsEof
<1> QED BY <1>1, <1>2, <1>3, <1>4, <1>5, <1>6 DEF DInv

\* In its loop, src_read is in the state described above.
LEMMA ReadLoopEntered ==
    ASSUME DInv, busy, op \in {"read", "skip"},
           UNCHANGED <<srcVars, op, asked, want, ra, base>>
    PROVE  ReadLoopState
    BY DEF DInv, ReadLoopState, Bounds, Request, InRead

\* The numbers among the variables.
LEMMA Numbers ==
    ASSUME DataOK
    PROVE  /\ size \in Nat /\ total \in Nat /\ upos \in Nat /\ cpos \in Nat /\ clen \in Nat
           /\ readb \in Nat /\ dropped \in Nat /\ base \in Nat
           /\ asked \in Nat /\ want \in Nat /\ left \in Nat /\ ret \in Int
           /\ CacheSize \in Nat /\ MaxLen \in Nat /\ MaxTotal \in Nat
           /\ cpos <= CacheSize /\ clen <= CacheSize /\ asked <= MaxLen /\ want <= MaxLen
           /\ left <= MaxLen /\ total <= MaxTotal /\ CacheSize > 0 /\ MaxLen > 0
    BY SourceAssumption DEF DataOK

\* The range of a loop that has not copied anything.
LEMMA EmptyRange == \A a \in Nat : a .. (a - 1) = {} /\ a <= a
    OBVIOUS

\* src->read fails in src_read: the bytes copied so far count as dropped, and the
\* cache, which was used up, stays empty.
LEMMA ReadFailsStep ==
    ASSUME DInv, ReadLoopState, ReadFails PROVE DInv'
<1> DataOK
    BY DEF DInv
<1>1. /\ OutPos \in Nat /\ upos = readb + dropped + OutPos
      /\ dropped' \in Nat /\ readb' + dropped' = upos
    BY Numbers DEF ReadLoopState, OutPos, NextByte, ReadFails
<1>2. DataOK'
    BY <1>1, Numbers DEF DataOK, ReadLoopState, ReadFails, Return, cacheVars, srcVars
<1>3. /\ ~busy' /\ cpos' = clen' /\ upos' <= total /\ ret' = -1 /\ ~eof'
      /\ clen' \in Nat /\ upos' = upos /\ upos' \in Nat
    BY Numbers DEF ReadLoopState, ReadFails, Return, cacheVars
<1>4. upos' = readb' + dropped' + (clen' - cpos')
    BY <1>1, <1>3
<1>5. \A i \in cpos' .. clen' - 1 : buf'[i] = readb' + dropped' + (i - cpos')
    BY <1>3, EmptyRange
<1>6. cpos' <= clen'
    BY <1>3
<1> QED BY <1>2, <1>3, <1>4, <1>5, <1>6, ReadReturns

\* src->read has nothing more in src_read: the end of the file is reached and
\* everything before it has been delivered.
LEMMA ReadEndsStep ==
    ASSUME DInv, ReadLoopState, upos = total, ReadEnds PROVE DInv'
<1> DataOK
    BY DEF DInv
<1>1. /\ OutPos \in Nat /\ OutPos <= MaxLen /\ readb' = readb + OutPos /\ dropped' = dropped
      /\ readb' + dropped' = upos /\ readb' \in Nat
    BY Numbers DEF ReadLoopState, OutPos, NextByte, ReadEnds, Finish
<1>2. DataOK'
    BY <1>1, Numbers DEF DataOK, ReadLoopState, ReadEnds, Finish, Return, cacheVars, srcVars
<1>3. /\ ~busy' /\ cpos' = clen' /\ upos' <= total /\ ret' = OutPos
      /\ clen' \in Nat /\ upos' = upos /\ upos' \in Nat /\ out' = out
    BY Numbers DEF ReadLoopState, ReadEnds, Finish, Return, cacheVars
<1>4. upos' = readb' + dropped' + (clen' - cpos')
    BY <1>1, <1>3
<1>5. /\ cpos' <= clen'
      /\ \A i \in cpos' .. clen' - 1 : buf'[i] = readb' + dropped' + (i - cpos')
    BY <1>3, EmptyRange
<1>6. \A i \in 0 .. ret' - 1 : out'[i] = base + i
    BY <1>3 DEF ReadLoopState
<1>7. eof'
    BY DEF ReadEnds, Finish
<1>8. readb' + dropped' = total
    BY <1>1
<1>9. ret' >= 0 /\ readb' = readb + ret' /\ dropped' = dropped
    BY <1>1, <1>3
<1> QED BY <1>2, <1>3, <1>4, <1>5, <1>6, <1>7, <1>8, <1>9, ReadReturns

\* A return of the whole request: what is left in the cache follows it.
LEMMA ReadWholeStep ==
    ASSUME DInv, DataOK', ReadLoopState, Finish(want, eof), UNCHANGED dropped,
           cpos' <= clen', upos' <= total, upos' = base + want + (clen' - cpos'),
           \A i \in cpos' .. clen' - 1 : buf'[i] = base + want + (i - cpos'),
           \A i \in 0 .. want - 1 : out'[i] = base + i
    PROVE  DInv'
<1> DataOK
    BY DEF DInv
<1>1. /\ ~busy' /\ ret' = want /\ readb' = readb + want /\ dropped' = dropped
      /\ readb' + dropped' = base + want /\ ret' >= 0
    BY Numbers DEF Finish, Return, ReadLoopState, NextByte
<1>2. ret' < asked => eof'
    BY <1>1 DEF Finish, ReadLoopState
<1>3. eof' => known /\ readb' = size
    BY <1>1 DEF Finish, ReadLoopState
<1>4. eof' => readb' + dropped' = total \/ (known /\ readb' >= size)
    BY <1>3, Numbers
<1>5. upos' = readb' + dropped' + (clen' - cpos')
    BY <1>1
<1>6. \A i \in cpos' .. clen' - 1 : buf'[i] = readb' + dropped' + (i - cpos')
    BY <1>1
<1>7. \A i \in 0 .. ret' - 1 : out'[i] = base + i
    BY <1>1
<1> QED BY <1>1, <1>2, <1>4, <1>5, <1>6, <1>7, ReadReturns

\* An iteration that returns nothing yet.
LEMMA ReadGoesOn ==
    ASSUME DInv, DataOK', ReadLoopState, UNCHANGED <<cpos, clen, readb, eof, dropped, busy, ret>>,
           left' <= want, upos' = base + (want - left'), upos' <= total,
           \A i \in 0 .. want - left' - 1 : out'[i] = base + i
    PROVE  DInv'
<1>0. /\ busy' /\ op' \in {"read", "skip"} /\ op' \notin {"peek", "eof"} /\ total' = total
      /\ cpos' <= clen'
    BY DEF ReadLoopState, srcVars, DInv, Bounds
<1>1. (Bounds /\ CacheHolds /\ InPeek /\ Delivered /\ ShortReadIsEof /\ ShortPeekIsEnd /\ PeekWithin)'
    BY <1>0 DEF Bounds, CacheHolds, InPeek, Delivered, ShortReadIsEof, ShortPeekIsEnd, PeekWithin
<1>2. (Request /\ EofSound)'
    BY DEF ReadLoopState, srcVars, Request, EofSound, NextByte
<1>3. InRead'
    BY DEF ReadLoopState, srcVars, InRead, OutPos
<1> QED BY <1>1, <1>2, <1>3 DEF DInv

\* How much of the caller's buffer src_read has filled.
LEMMA OutFacts ==
    ASSUME DataOK, ReadLoopState
    PROVE  /\ OutPos \in Nat /\ OutPos + left = want /\ upos = base + OutPos
           /\ OutPos + left <= MaxLen
    BY Numbers DEF ReadLoopState, OutPos

\* Bytes from the file continue those the caller's buffer has.
LEMMA StoreOut ==
    ASSUME DataOK, ReadLoopState, NEW k \in Nat, k <= left
    PROVE  /\ Store(out, OutPos, k) \in [0 .. MaxLen - 1 -> Int]
           /\ \A i \in 0 .. OutPos + k - 1 : Store(out, OutPos, k)[i] = base + i
<1>1. /\ OutPos \in Nat /\ OutPos + k <= MaxLen /\ upos = base + OutPos /\ upos \in Nat
      /\ base \in Nat /\ MaxLen \in Nat
    BY Numbers, OutFacts
<1>2. out \in [0 .. MaxLen - 1 -> Int]
    BY DEF DataOK
<1>3. Store(out, OutPos, k) \in [0 .. MaxLen - 1 -> Int]
    BY <1>1, <1>2 DEF Store
<1>4. ASSUME NEW i \in 0 .. OutPos + k - 1 PROVE Store(out, OutPos, k)[i] = base + i
  <2>1. i \in 0 .. MaxLen - 1
    BY <1>1
  <2>2. Store(out, OutPos, k)[i] = IF OutPos <= i /\ i < OutPos + k THEN upos + i - OutPos ELSE out[i]
    BY <1>2, <2>1 DEF Store
  <2>3. CASE OutPos <= i
    BY <1>1, <2>2, <2>3
  <2>4. CASE i \in 0 .. OutPos - 1
    BY <1>1, <2>2, <2>4 DEF ReadLoopState
  <2> QED BY <1>1, <2>3, <2>4
<1> QED BY <1>3, <1>4

\* So do bytes that were read into the cache.
LEMMA CopyOut ==
    ASSUME DataOK, ReadLoopState, NEW k \in Nat, k <= left, k <= CacheSize,
           buf' \in [0 .. CacheSize - 1 -> Int], \A j \in 0 .. k - 1 : buf'[j] = upos + j
    PROVE  /\ Copy(out, OutPos, buf', 0, k) \in [0 .. MaxLen - 1 -> Int]
           /\ \A i \in 0 .. OutPos + k - 1 : Copy(out, OutPos, buf', 0, k)[i] = base + i
<1>1. /\ OutPos \in Nat /\ OutPos + k <= MaxLen /\ upos = base + OutPos /\ upos \in Nat
      /\ base \in Nat /\ MaxLen \in Nat /\ CacheSize \in Nat
  <2>1. /\ OutPos \in Nat /\ OutPos + left <= MaxLen /\ upos = base + OutPos
    BY OutFacts
  <2>2. /\ upos \in Nat /\ base \in Nat /\ MaxLen \in Nat /\ CacheSize \in Nat /\ left \in Nat
    BY Numbers
  <2>3. OutPos + k <= MaxLen
    BY <2>1, <2>2
  <2> QED BY <2>1, <2>2, <2>3
<1>2. out \in [0 .. MaxLen - 1 -> Int]
    BY DEF DataOK
<1>3. \A i \in 0 .. MaxLen - 1 :
         Copy(out, OutPos, buf', 0, k)[i] = IF OutPos <= i /\ i < OutPos + k THEN buf'[0 + i - OutPos] ELSE out[i]
    BY <1>2 DEF Copy
<1>4. \A i \in 0 .. MaxLen - 1 : OutPos <= i /\ i < OutPos + k => 0 + i - OutPos \in 0 .. k - 1
    BY <1>1
<1>5. Copy(out, OutPos, buf', 0, k) \in [0 .. MaxLen - 1 -> Int]
  <2>1. \A i \in 0 .. MaxLen - 1 : OutPos <= i /\ i < OutPos + k => buf'[0 + i - OutPos] \in Int
    BY <1>1, <1>4
  <2> QED BY <1>2, <2>1 DEF Copy
<1>6. ASSUME NEW i \in 0 .. OutPos + k - 1 PROVE Copy(out, OutPos, buf', 0, k)[i] = base + i
  <2>1. i \in 0 .. MaxLen - 1
    BY <1>1
  <2>2. CASE OutPos <= i
    <3>1. 0 + i - OutPos \in 0 .. k - 1
      BY <1>1, <2>2
    <3> QED BY <1>1, <1>3, <2>1, <2>2, <3>1
  <2>3. CASE i \in 0 .. OutPos - 1
    BY <1>1, <1>3, <2>1, <2>3 DEF ReadLoopState
  <2> QED BY <1>1, <2>2, <2>3
<1> QED BY <1>5, <1>6

\* Bytes from the file continue those at the start of the cache.
LEMMA StoreBuf ==
    ASSUME DataOK, NEW at \in Nat, NEW k \in Nat, at + k <= CacheSize,
           \A j \in 0 .. at - 1 : buf[j] = (upos - at) + j
    PROVE  /\ Store(buf, at, k) \in [0 .. CacheSize - 1 -> Int]
           /\ \A j \in 0 .. at + k - 1 : Store(buf, at, k)[j] = (upos - at) + j
<1>1. upos \in Nat /\ CacheSize \in Nat
    BY Numbers
<1>2. buf \in [0 .. CacheSize - 1 -> Int]
    BY DEF DataOK
<1>3. Store(buf, at, k) \in [0 .. CacheSize - 1 -> Int]
    BY <1>1, <1>2 DEF Store
<1>4. ASSUME NEW j \in 0 .. at + k - 1 PROVE Store(buf, at, k)[j] = (upos - at) + j
  <2>1. j \in 0 .. CacheSize - 1
    BY <1>1
  <2>2. Store(buf, at, k)[j] = IF at <= j /\ j < at + k THEN upos + j - at ELSE buf[j]
    BY <1>2, <2>1 DEF Store
  <2>3. CASE at <= j
    BY <1>1, <2>2, <2>3
  <2>4. CASE j \in 0 .. at - 1
    BY <1>1, <2>2, <2>4
  <2> QED BY <1>1, <2>3, <2>4
<1> QED BY <1>3, <1>4

\* An iteration of src_read that reads into the caller's buffer.
LEMMA DirectStep ==
    ASSUME DInv, src_read_direct PROVE DInv'
<1> DataOK
    BY DEF DInv
<1>0. ReadLoopState /\ left > 0
    BY ReadLoopEntered DEF src_read_direct, InReadLoop
<1>1. PICK k \in ReadResults(left) :
          \/ k = -1 /\ ReadFails
          \/ k = 0 /\ ReadEnds
          \/ /\ k > 0
             /\ out' = Store(out, OutPos, k)
             /\ left' = left - k
             /\ upos' = upos + k
             /\ UNCHANGED <<cacheVars, readb, eof, dropped, busy, ret>>
    BY DEF src_read_direct
<1>2. CASE k = -1 /\ ReadFails
    BY <1>0, <1>2, ReadFailsStep
<1>3. CASE k = 0 /\ ReadEnds
  <2>1. upos = total
    BY <1>3 DEF ReadResults
  <2> QED BY <1>0, <1>3, <2>1, ReadEndsStep
<1>4. CASE k > 0
  <2>0. /\ out' = Store(out, OutPos, k) /\ left' = left - k /\ upos' = upos + k
        /\ UNCHANGED <<cacheVars, readb, eof, dropped, busy, ret>>
    BY <1>1, <1>4
  <2>1. k \in 1 .. left /\ upos + k <= total
    BY <1>4 DEF ReadResults
  <2>2. /\ OutPos \in Nat /\ left <= want /\ upos = base + OutPos /\ left' \in Nat
        /\ left' <= want /\ OutPos + k = want - left' /\ upos' \in Nat
        /\ upos' = base + (want - left') /\ upos' <= total /\ OutPos + k <= MaxLen
    BY <1>0, <2>0, <2>1, Numbers DEF OutPos, ReadLoopState
  <2>3. /\ out' \in [0 .. MaxLen - 1 -> Int]
        /\ \A i \in 0 .. OutPos + k - 1 : out'[i] = base + i
    BY <1>0, <2>0, <2>1, StoreOut
  <2>4. \A i \in 0 .. want - left' - 1 : out'[i] = base + i
    BY <2>1, <2>2, <2>3, Numbers
  <2>5. left' \in 0 .. MaxLen /\ upos' \in 0 .. MaxTotal
    BY <2>2, Numbers
  <2>6. DataOK'
    BY <1>0, <2>0, <2>3, <2>5 DEF DataOK, ReadLoopState, srcVars, cacheVars
  <2> QED BY <1>0, <2>0, <2>2, <2>4, <2>6, ReadGoesOn DEF cacheVars
<1> QED BY <1>1, <1>2, <1>3, <1>4

\* An iteration of src_read that reads into the cache and copies from it.
LEMMA FillStep ==
    ASSUME DInv, src_read_fill PROVE DInv'
<1> DataOK
    BY DEF DInv
<1>0. ReadLoopState /\ left > 0 /\ left <= CacheSize
    BY ReadLoopEntered DEF src_read_fill, InReadLoop
<1>1. PICK k \in ReadResults(CacheSize) :
          \/ k = -1 /\ ReadFails
          \/ k = 0 /\ ReadEnds
          \/ /\ k > 0 /\ k < left
             /\ buf' = Store(buf, 0, k)
             /\ out' = Copy(out, OutPos, buf', 0, k)
             /\ left' = left - k
             /\ upos' = upos + k
             /\ UNCHANGED <<cpos, clen, readb, eof, dropped, busy, ret>>
          \/ /\ k >= left
             /\ buf' = Store(buf, 0, k)
             /\ out' = Copy(out, OutPos, buf', 0, left)
             /\ left' = 0
             /\ upos' = upos + k
             /\ cpos' = left /\ clen' = k
             /\ Finish(want, eof)
             /\ UNCHANGED dropped
    BY DEF src_read_fill
<1>2. CASE k = -1 /\ ReadFails
    BY <1>0, <1>2, ReadFailsStep
<1>3. CASE k = 0 /\ ReadEnds
  <2>1. upos = total
    BY <1>3 DEF ReadResults
  <2> QED BY <1>0, <1>3, <2>1, ReadEndsStep
<1>4. CASE k > 0
  <2>1. k \in 1 .. CacheSize /\ upos + k <= total
    BY <1>4 DEF ReadResults
  <2>2. /\ OutPos \in Nat /\ left <= want /\ upos = base + OutPos /\ upos \in Int
        /\ OutPos + left = want
    BY <1>0, Numbers DEF OutPos, ReadLoopState
  <2>3. buf' = Store(buf, 0, k) /\ upos' = upos + k
    BY <1>1, <1>4
  <2>4. \A j \in 0 .. 0 - 1 : buf[j] = (upos - 0) + j
    OBVIOUS
  <2>5. /\ buf' \in [0 .. CacheSize - 1 -> Int]
        /\ \A j \in 0 .. k - 1 : buf'[j] = upos + j
    <3>1. 0 + k <= CacheSize /\ 0 + k - 1 = k - 1 /\ upos - 0 = upos /\ k \in Nat /\ 0 \in Nat
      BY <2>1, <2>2, Numbers
    <3>2. /\ Store(buf, 0, k) \in [0 .. CacheSize - 1 -> Int]
          /\ \A j \in 0 .. 0 + k - 1 : Store(buf, 0, k)[j] = (upos - 0) + j
      BY <2>4, <3>1, StoreBuf
    <3> QED BY <2>3, <3>1, <3>2
  <2>6. upos' \in 0 .. MaxTotal /\ upos' <= total
    BY <2>1, <2>3, Numbers
  <2>9. CASE k < left
    <3>0. /\ out' = Copy(out, OutPos, buf', 0, k) /\ left' = left - k
          /\ UNCHANGED <<cpos, clen, readb, eof, dropped, busy, ret>>
      <4>1. ~(k = -1) /\ ~(k = 0) /\ ~(k >= left)
        BY <1>4, <2>1, <2>9, Numbers
      <4> QED BY <1>1, <4>1
    <3>1. /\ left' \in 0 .. MaxLen /\ left' <= want /\ OutPos + k = want - left'
          /\ upos' = base + (want - left') /\ OutPos + k <= MaxLen /\ 0 + k <= CacheSize
      BY <2>1, <2>2, <2>3, <2>9, <3>0, Numbers
    <3>2. /\ out' \in [0 .. MaxLen - 1 -> Int]
          /\ \A i \in 0 .. OutPos + k - 1 : out'[i] = base + i
      <4>1. k \in Nat /\ k <= left /\ k <= CacheSize
        BY <2>1, <2>9, Numbers
      <4> QED BY <1>0, <2>5, <3>0, <4>1, CopyOut
    <3>3. DataOK'
      BY <1>0, <2>5, <2>6, <3>0, <3>1, <3>2 DEF DataOK, ReadLoopState, srcVars
    <3>4. \A i \in 0 .. want - left' - 1 : out'[i] = base + i
      BY <2>1, <2>2, <3>1, <3>2, Numbers
    <3> QED BY <1>0, <2>6, <3>0, <3>1, <3>3, <3>4, ReadGoesOn
  <2>10. CASE k >= left
    <3>0. /\ out' = Copy(out, OutPos, buf', 0, left) /\ left' = 0
          /\ cpos' = left /\ clen' = k /\ Finish(want, eof) /\ UNCHANGED dropped
      <4>1. ~(k = -1) /\ ~(k = 0) /\ ~(k < left)
        BY <1>4, <2>1, <2>10, Numbers
      <4> QED BY <1>1, <4>1
    <3>1. /\ cpos' \in 0 .. CacheSize /\ clen' \in 0 .. CacheSize /\ cpos' <= clen'
          /\ upos' = base + want + (clen' - cpos') /\ left \in Nat /\ 0 + left <= CacheSize
          /\ OutPos + left <= MaxLen
      BY <1>0, <2>1, <2>2, <2>3, <2>10, <3>0, Numbers
    <3>2. /\ out' \in [0 .. MaxLen - 1 -> Int]
          /\ \A i \in 0 .. OutPos + left - 1 : out'[i] = base + i
      <4>1. \A j \in 0 .. left - 1 : buf'[j] = upos + j
        BY <2>1, <2>5, <2>10, <3>1
      <4>2. left \in Nat /\ left <= left /\ left <= CacheSize
        BY <1>0, <3>1
      <4> QED BY <1>0, <2>5, <3>0, <4>1, <4>2, CopyOut
    <3>3. \A i \in 0 .. want - 1 : out'[i] = base + i
      BY <2>2, <3>1, <3>2, Numbers
    <3>4. \A i \in cpos' .. clen' - 1 : buf'[i] = base + want + (i - cpos')
      <4>1. \A i \in left .. k - 1 : upos + i = base + want + (i - left)
        BY <2>1, <2>2, <3>1, Numbers
      <4>2. \A i \in left .. k - 1 : i \in 0 .. k - 1
        BY <2>1, <3>1
      <4> QED BY <2>5, <3>0, <4>1, <4>2
    <3>5. readb' \in Nat /\ ret' \in -1 .. MaxLen
      BY <3>0, Numbers DEF Finish, Return
    <3>6. left' \in 0 .. MaxLen
      BY <3>0, Numbers
    <3>7. DataOK'
      BY <1>0, <2>5, <2>6, <3>0, <3>1, <3>2, <3>5, <3>6 DEF DataOK, ReadLoopState, srcVars
    <3> QED BY <1>0, <2>6, <3>0, <3>1, <3>3, <3>4, <3>7, ReadWholeStep
  <2> QED BY <2>1, <2>9, <2>10, Numbers
<1>5. k = -1 \/ k = 0 \/ k > 0
    BY Numbers DEF ReadResults
<1>6. CASE k = -1
  <2>1. ReadFails
    BY <1>0, <1>1, <1>6, Numbers
  <2> QED BY <1>2, <1>6, <2>1
<1>7. CASE k = 0
  <2>1. ReadEnds
    BY <1>0, <1>1, <1>7, Numbers
  <2> QED BY <1>3, <1>7, <2>1
<1> QED BY <1>4, <1>5, <1>6, <1>7

\* The loop of src_read has got all it was asked for.
LEMMA FinishStep ==
    ASSUME DInv, src_read_finish PROVE DInv'
<1> DataOK
    BY DEF DInv
<1>0. /\ ReadLoopState /\ left = 0 /\ Finish(want, eof)
      /\ UNCHANGED <<srcVars, upos, cacheVars, dropped, op, asked, want, left, ra, out, base>>
    BY ReadLoopEntered DEF src_read_finish
<1>1. OutPos = want /\ readb' \in Nat /\ ret' \in -1 .. MaxLen
    BY <1>0, Numbers DEF Finish, Return, OutPos
<1>2. DataOK'
    BY <1>0, <1>1 DEF DataOK, srcVars, cacheVars
<1>3. /\ cpos' = clen' /\ clen' \in Nat /\ upos' <= total /\ upos' = base + want /\ upos' \in Nat
    BY <1>0, <1>1, Numbers DEF ReadLoopState, cacheVars
<1>4. upos' = base + want + (clen' - cpos')
    BY <1>3
<1>5. /\ cpos' <= clen'
      /\ \A i \in cpos' .. clen' - 1 : buf'[i] = base + want + (i - cpos')
    BY <1>3, EmptyRange
<1>6. \A i \in 0 .. want - 1 : out'[i] = base + i
    BY <1>0, <1>1 DEF ReadLoopState
<1> QED BY <1>0, <1>2, <1>3, <1>4, <1>5, <1>6, ReadWholeStep

-----------------------------------------------------------------------------
\* The buffer b holds k consecutive bytes from offset s on, the first is c.
Holds(b, s, k, c) == \A j \in s .. s + k - 1 : b[j] = c + (j - s)

\* Holds for a run at the start of a buffer.
LEMMA HoldsFromStart ==
    ASSUME NEW b, NEW k \in Nat, NEW c \in Nat, Holds(b, 0, k, c)
    PROVE  \A i \in 0 .. k - 1 : b[i] = c + i
    BY DEF Holds

Cache == [0 .. CacheSize - 1 -> Int]
Buffer == [0 .. MaxLen - 1 -> Int]

\* k consecutive bytes of the cache, copied to the start of a buffer.
LEMMA CopyToBuffer ==
    ASSUME NEW to \in Buffer, NEW from \in Cache,
           NEW s \in Nat, NEW k \in Nat, s + k <= CacheSize, k <= MaxLen,
           NEW c \in Int, Holds(from, s, k, c)
    PROVE  Copy(to, 0, from, s, k) \in Buffer /\ Holds(Copy(to, 0, from, s, k), 0, k, c)
<1> USE SourceAssumption DEF Buffer, Cache, Holds
<1>1. \A i \in 0 .. MaxLen - 1 :
         Copy(to, 0, from, s, k)[i] = IF 0 <= i /\ i < 0 + k THEN from[s + i - 0] ELSE to[i]
    BY DEF Copy
<1>2. \A i \in 0 .. k - 1 : s + i - 0 \in s .. s + k - 1 /\ s + i - 0 \in 0 .. CacheSize - 1
                            /\ (s + i - 0) - s = i - 0
    OBVIOUS
<1>3. \A i \in 0 .. k - 1 : i \in 0 .. MaxLen - 1 /\ 0 <= i /\ i < 0 + k
    OBVIOUS
<1>4. \A i \in 0 .. 0 + k - 1 : Copy(to, 0, from, s, k)[i] = c + (i - 0)
    BY <1>1, <1>2, <1>3
<1>5. \A i \in 0 .. MaxLen - 1 : 0 <= i /\ i < 0 + k => from[s + i - 0] \in Int
    BY <1>2
<1>6. Copy(to, 0, from, s, k) \in [0 .. MaxLen - 1 -> Int]
    BY <1>5 DEF Copy
<1> QED BY <1>4, <1>6

\* The same within the cache.
LEMMA CopyToCache ==
    ASSUME NEW from \in Cache,
           NEW s \in Nat, NEW k \in Nat, s + k <= CacheSize,
           NEW c \in Int, Holds(from, s, k, c)
    PROVE  Copy(from, 0, from, s, k) \in Cache /\ Holds(Copy(from, 0, from, s, k), 0, k, c)
<1> USE SourceAssumption DEF Cache, Holds
<1>1. \A i \in 0 .. CacheSize - 1 :
         Copy(from, 0, from, s, k)[i] = IF 0 <= i /\ i < 0 + k THEN from[s + i - 0] ELSE from[i]
    BY DEF Copy
<1>2. \A i \in 0 .. k - 1 : s + i - 0 \in s .. s + k - 1 /\ s + i - 0 \in 0 .. CacheSize - 1
                            /\ (s + i - 0) - s = i - 0
    OBVIOUS
<1>3. \A i \in 0 .. k - 1 : i \in 0 .. CacheSize - 1 /\ 0 <= i /\ i < 0 + k
    OBVIOUS
<1>4. \A i \in 0 .. 0 + k - 1 : Copy(from, 0, from, s, k)[i] = c + (i - 0)
    BY <1>1, <1>2, <1>3
<1>5. \A i \in 0 .. CacheSize - 1 : 0 <= i /\ i < 0 + k => from[s + i - 0] \in Int
    BY <1>2
<1>6. Copy(from, 0, from, s, k) \in [0 .. CacheSize - 1 -> Int]
    BY <1>5 DEF Copy
<1> QED BY <1>4, <1>6

\* The source between two calls.
Idle ==
    /\ ~busy /\ type # "none" /\ cpos <= clen /\ upos <= total /\ upos = NextByte + Cached
    /\ \A i \in cpos .. clen - 1 : buf[i] = NextByte + (i - cpos)

\* What is known of the cache when a function is called.
LEMMA IdleAtCall ==
    ASSUME DInv, NEW o, NEW n, Call(o, n)
    PROVE  Idle /\ (known => readb <= size)
    BY Numbers DEF DInv, Idle, Call, Overrun, Bounds, CacheHolds

\* The correction of a request by the known size.
LEMMA ClipFacts ==
    ASSUME DataOK, known => readb <= size, NEW n \in 0 .. MaxLen
    PROVE  /\ Clip(n) \in Nat /\ Clip(n) <= n
           /\ Clip(n) < n => known /\ readb + Clip(n) = size
           /\ known => readb + Clip(n) <= size
    BY Numbers DEF Clip, Clipped

\* The first bytes of the cache, copied to the caller's buffer.
LEMMA CopyCached ==
    ASSUME DataOK, Idle, NEW k \in Nat, k <= Cached, k <= MaxLen
    PROVE  /\ Copy(EmptyOut, 0, buf, cpos, k) \in Buffer
           /\ Holds(Copy(EmptyOut, 0, buf, cpos, k), 0, k, NextByte)
<1>1. /\ cpos \in Nat /\ NextByte \in Int /\ clen \in Nat
      /\ cpos + k <= CacheSize /\ cpos + k <= clen
    BY Numbers DEF Cached, NextByte
<1>2. buf \in Cache /\ EmptyOut \in Buffer
    BY EmptyFacts DEF DataOK, Cache, Buffer
<1>3. Holds(buf, cpos, k, NextByte)
    BY <1>1 DEF Idle, Holds
<1> QED BY <1>1, <1>2, <1>3, CopyToBuffer

\* Returns at the entry of a call leave only the following to be shown.
LEMMA EntryReturns ==
    ASSUME DataOK', ~busy', Bounds', CacheHolds', Delivered', EofSound', ShortReadIsEof',
           ShortPeekIsEnd', PeekWithin'
    PROVE  DInv'
    BY DEF DInv, Request, InRead, InPeek

\* src_read up to its loop: nothing to do, all from the cache, or a part of it.
LEMMA EnterReadStep ==
    ASSUME DInv, NEW o \in {"read", "skip"}, NEW n \in 0 .. MaxLen, EnterRead(o, n)
    PROVE  DInv'
<1> DEFINE len == Clip(n)
<1> DataOK
    BY DEF DInv
<1>0. Call(o, n)
    BY DEF EnterRead
<1>1. Idle /\ (known => readb <= size)
    BY <1>0, IdleAtCall
<1>2. /\ op' = o /\ asked' = n /\ base' = readb + dropped /\ type' = type /\ known' = known
      /\ size' = size /\ total' = total /\ dropped' = dropped /\ o \in Ops
    BY <1>0 DEF Call, NextByte, srcVars, Ops
<1>3. /\ len \in Nat /\ len <= n
      /\ len < n => known /\ readb + len = size
      /\ known => readb + len <= size
    BY <1>1, ClipFacts
<1>4. /\ EmptyOut \in [0 .. MaxLen - 1 -> Int]
      /\ asked' \in 0 .. MaxLen /\ base' \in Nat /\ size' \in 0 .. MaxTotal
      /\ total' \in 0 .. MaxTotal /\ type' \in Types /\ op' \in Ops /\ dropped' \in Nat
      /\ 0 \in 0 .. MaxLen /\ 0 \in -1 .. MaxLen
    BY <1>2, EmptyFacts, Numbers DEF DataOK
<1>5. (ShortPeekIsEnd /\ PeekWithin)'
    BY <1>2 DEF ShortPeekIsEnd, PeekWithin
<1>6. CASE eof \/ n = 0
  <2>1. /\ want' = 0 /\ left' = 0 /\ out' = EmptyOut /\ ~busy' /\ ret' = 0
        /\ UNCHANGED <<upos, cacheVars, readb, eof>>
    BY <1>6 DEF EnterRead, Return
  <2>2. DataOK'
    BY <1>4, <2>1 DEF DataOK, cacheVars
  <2>3. (Bounds /\ CacheHolds)'
    BY <1>1, <1>2, <2>1 DEF Idle, Bounds, CacheHolds, NextByte, Cached, cacheVars
  <2>4. Delivered'
    BY <1>2, <2>1, Numbers DEF Delivered, NextByte
  <2>5. EofSound'
    BY <1>2, <2>1 DEF DInv, EofSound, NextByte
  <2>6. ShortReadIsEof'
    BY <1>2, <1>6, <2>1 DEF ShortReadIsEof
  <2> QED BY <1>5, <2>1, <2>2, <2>3, <2>4, <2>5, <2>6, EntryReturns
<1>7. CASE ~(eof \/ n = 0) /\ Cached >= len
  <2>1. /\ want' = len /\ left' = 0 /\ out' = Copy(EmptyOut, 0, buf, cpos, len)
        /\ cpos' = cpos + len /\ UNCHANGED <<upos, buf, clen>> /\ Finish(len, eof)
    BY <1>7, <1>3, Numbers DEF EnterRead, Cached
  <2>2. /\ ~busy' /\ ret' = len /\ readb' = readb + len
        /\ eof' => known /\ readb + len = size
        /\ known /\ readb + len = size => eof'
    BY <1>7, <2>1 DEF Finish, Return
  <2>3. len <= Cached /\ len <= MaxLen
    BY <1>3, <1>7, Numbers DEF Cached
  <2>4. out' \in Buffer /\ Holds(out', 0, len, NextByte)
    BY <1>1, <1>3, <2>1, <2>3, CopyCached
  <2>5. /\ cpos' \in 0 .. CacheSize /\ readb' \in Nat /\ want' \in 0 .. MaxLen
        /\ ret' \in -1 .. MaxLen /\ cpos' <= clen
    BY <1>1, <1>3, <2>1, <2>2, <2>3, Numbers DEF Cached
  <2>6. DataOK'
    BY <1>4, <2>1, <2>4, <2>5 DEF DataOK, Buffer
  <2>7. (Bounds /\ CacheHolds)'
    <3>1. upos' = readb' + dropped' + (clen' - cpos')
      BY <1>1, <1>2, <1>3, <2>1, <2>2, Numbers DEF Idle, NextByte, Cached
    <3>2. \A i \in cpos' .. clen' - 1 : buf'[i] = readb' + dropped' + (i - cpos')
      <4>1. \A i \in cpos' .. clen' - 1 : i \in cpos .. clen - 1
                  /\ readb' + dropped' + (i - cpos') = readb + dropped + (i - cpos)
        BY <1>1, <1>2, <1>3, <2>1, <2>2, Numbers
      <4> QED BY <1>1, <2>1, <4>1 DEF Idle, NextByte
    <3> QED BY <1>1, <1>2, <2>1, <2>5, <3>1, <3>2 DEF Idle, Bounds, CacheHolds, NextByte, Cached
  <2>8. Delivered'
    <3>1. readb' + dropped' = base' + ret'
      BY <1>2, <1>3, <2>2, Numbers
    <3>2. \A i \in 0 .. ret' - 1 : out'[i] = base' + i
      BY <1>2, <1>3, <2>2, <2>4, Numbers DEF Holds, NextByte
    <3> QED BY <1>2, <3>1, <3>2 DEF Delivered, NextByte
  <2>9. EofSound'
    <3>1. eof' => known' /\ readb' >= size'
      BY <1>2, <2>2, Numbers
    <3> QED BY <3>1 DEF EofSound
  <2>10. ShortReadIsEof'
    BY <1>2, <1>3, <2>2 DEF ShortReadIsEof
  <2> QED BY <1>5, <2>2, <2>6, <2>7, <2>8, <2>9, <2>10, EntryReturns
<1>8. CASE ~(eof \/ n = 0) /\ Cached < len
  <2>1. /\ want' = len /\ left' = len - Cached /\ out' = Copy(EmptyOut, 0, buf, cpos, Cached)
        /\ cpos' = clen /\ busy' /\ UNCHANGED <<upos, buf, clen, readb, eof, ret>>
    BY <1>8, <1>3, Numbers DEF EnterRead, Cached
  <2>2. Cached \in Nat /\ Cached <= Cached /\ Cached <= MaxLen /\ len <= MaxLen /\ Cached < len
    BY <1>1, <1>3, <1>8, Numbers DEF Idle, Cached
  <2>3. out' \in Buffer /\ Holds(out', 0, Cached, NextByte)
    BY <1>1, <2>1, <2>2, CopyCached
  <2>4. want' \in 0 .. MaxLen /\ left' \in 0 .. MaxLen /\ left' <= want' /\ want' - left' = Cached
    BY <1>3, <2>1, <2>2, Numbers
  <2>5. DataOK'
    BY <1>4, <2>1, <2>3, <2>4 DEF DataOK, Buffer
  <2>6. (CacheHolds /\ Delivered /\ ShortReadIsEof /\ InPeek)'
    BY <1>2, <2>1 DEF CacheHolds, Delivered, ShortReadIsEof, InPeek
  <2>7. Bounds'
    BY <1>1, <1>2, <2>1, Numbers DEF Idle, Bounds
  <2>8. EofSound'
    BY <1>2, <2>1 DEF DInv, EofSound, NextByte
  <2>9. Request'
    BY <1>1, <1>2, <1>3, <1>8, <2>1 DEF Idle, Request, NextByte
  <2>10. InRead'
    <3>1. upos' = base' + (want' - left')
      BY <1>1, <1>2, <2>1, <2>4 DEF Idle, NextByte
    <3>2. \A i \in 0 .. want' - left' - 1 : out'[i] = base' + i
      <4>1. \A i \in 0 .. Cached - 1 : out'[i] = base' + i
        BY <1>2, <2>2, <2>3, Numbers DEF Holds, NextByte
      <4> QED BY <2>4, <4>1
    <3> QED BY <1>2, <2>1, <2>4, <3>1, <3>2 DEF InRead, OutPos
  <2> QED BY <1>5, <2>5, <2>6, <2>7, <2>8, <2>9, <2>10 DEF DInv
<1> QED
  <2>1. Cached >= len \/ Cached < len
    BY <1>3, Numbers DEF Cached
  <2> QED BY <1>6, <1>7, <1>8, <2>1

\* src_peek up to its loop: refused, at eof, all in the cache, or a part of it
\* that is moved to the start of the buffer.
LEMMA EnterPeekStep ==
    ASSUME DInv, NEW o \in {"peek", "eof"}, NEW n \in 0 .. MaxLen, EnterPeek(o, n)
    PROVE  DInv'
<1> DEFINE len == Clip(n)
<1> DataOK
    BY DEF DInv
<1>0. Call(o, n)
    BY DEF EnterPeek
<1>1. Idle /\ (known => readb <= size)
    BY <1>0, IdleAtCall
<1>2. /\ op' = o /\ asked' = n /\ base' = readb + dropped /\ type' = type /\ known' = known
      /\ size' = size /\ total' = total /\ dropped' = dropped /\ o \in Ops
      /\ left' = 0 /\ UNCHANGED <<upos, readb, eof>>
    BY <1>0 DEF Call, NextByte, srcVars, Ops, EnterPeek
<1>3. /\ len \in Nat /\ len <= n
      /\ len < n => known /\ readb + len = size
      /\ known => readb + len <= size
    BY <1>1, ClipFacts
<1>4. /\ EmptyOut \in [0 .. MaxLen - 1 -> Int]
      /\ asked' \in 0 .. MaxLen /\ base' \in Nat /\ size' \in 0 .. MaxTotal
      /\ total' \in 0 .. MaxTotal /\ type' \in Types /\ op' \in Ops /\ dropped' \in Nat
      /\ 0 \in 0 .. MaxLen /\ 0 \in -1 .. MaxLen /\ -1 \in -1 .. MaxLen
    BY <1>2, EmptyFacts, Numbers DEF DataOK
<1>5. (ShortReadIsEof /\ EofSound)'
    BY <1>2 DEF DInv, ShortReadIsEof, EofSound, NextByte
<1>6. UNCHANGED cacheVars /\ ~busy' => (Bounds /\ CacheHolds)'
    BY <1>1, <1>2 DEF Idle, Bounds, CacheHolds, NextByte, Cached, cacheVars
<1>7. CASE UNCHANGED cacheVars /\ ~busy' /\ want' = 0 /\ out' = EmptyOut
           /\ (ret' = -1 \/ (eof /\ ret' = 0))
  <2>1. DataOK'
    BY <1>2, <1>4, <1>7 DEF DataOK, cacheVars
  <2>2. ~(ret' > 0)
    BY <1>7
  <2>3. (Delivered /\ PeekWithin)'
    BY <1>2, <2>2 DEF Delivered, PeekWithin, NextByte
  <2>4. ShortPeekIsEnd'
    <3>1. CASE ret' = -1
      BY <3>1 DEF ShortPeekIsEnd
    <3>2. CASE eof /\ ret' = 0
      <4>1. NextByte = total \/ (known /\ readb >= size)
        BY <3>2 DEF DInv, EofSound
      <4>2. readb' + dropped' + ret' = NextByte /\ readb' + ret' = readb
        BY <1>2, <3>2, Numbers DEF NextByte
      <4> QED BY <1>2, <4>1, <4>2 DEF ShortPeekIsEnd, NextByte
    <3> QED BY <1>7, <3>1, <3>2
  <2> QED BY <1>5, <1>6, <1>7, <2>1, <2>3, <2>4, EntryReturns
<1>8. CASE /\ UNCHANGED cacheVars /\ ~busy' /\ want' = len /\ ret' = len
           /\ out' = Copy(EmptyOut, 0, buf, cpos, len) /\ Cached >= len
  <2>1. len <= Cached /\ len <= MaxLen /\ want' \in 0 .. MaxLen /\ ret' \in -1 .. MaxLen
    BY <1>3, <1>8, Numbers DEF Cached
  <2>2. out' \in Buffer /\ Holds(out', 0, len, NextByte)
    BY <1>1, <1>3, <1>8, <2>1, CopyCached
  <2>3. DataOK'
    BY <1>2, <1>4, <1>8, <2>1, <2>2 DEF DataOK, cacheVars, Buffer
  <2>4. Delivered'
    <3>1. \A i \in 0 .. ret' - 1 : out'[i] = base' + i
      BY <1>2, <1>3, <1>8, <2>2, Numbers DEF Holds, NextByte
    <3> QED BY <1>2, <3>1 DEF Delivered, NextByte
  <2>5. PeekWithin'
    BY <1>2, <1>3, <1>8 DEF PeekWithin
  <2>6. ShortPeekIsEnd'
    <3>1. ret' < asked' => known' /\ readb' + ret' >= size'
      BY <1>2, <1>3, <1>8, Numbers
    <3> QED BY <3>1 DEF ShortPeekIsEnd
  <2> QED BY <1>5, <1>6, <1>8, <2>3, <2>4, <2>5, <2>6, EntryReturns
<1>9. CASE /\ n <= CacheSize /\ ~eof /\ Cached < len
           /\ want' = len /\ out' = EmptyOut /\ buf' = Compacted
           /\ clen' = Cached /\ cpos' = 0 /\ busy' /\ UNCHANGED ret
  <2>1. /\ Cached \in Nat /\ cpos \in Nat /\ cpos + Cached <= CacheSize /\ NextByte \in Int
        /\ cpos + Cached = clen /\ len <= CacheSize /\ len <= MaxLen /\ Cached < len
    BY <1>1, <1>3, <1>9, Numbers DEF Idle, Cached, NextByte
  <2>2. buf \in Cache /\ Holds(buf, cpos, Cached, NextByte)
    BY <1>1, <2>1 DEF Idle, Holds, DataOK, Cache
  <2>3. buf' \in Cache /\ Holds(buf', 0, Cached, NextByte)
    BY <1>9, <2>1, <2>2, CopyToCache DEF Compacted
  <2>4. want' \in 0 .. MaxLen /\ clen' \in 0 .. CacheSize /\ cpos' \in 0 .. CacheSize
    BY <1>3, <1>9, <2>1, Numbers
  <2>5. DataOK'
    BY <1>2, <1>4, <1>9, <2>3, <2>4 DEF DataOK, Cache
  <2>6. (CacheHolds /\ Delivered /\ PeekWithin /\ ShortPeekIsEnd /\ InRead)'
    BY <1>2, <1>9 DEF CacheHolds, Delivered, PeekWithin, ShortPeekIsEnd, InRead
  <2>7. Bounds'
    BY <1>1, <1>2, <1>9, <2>1 DEF Idle, Bounds
  <2>8. Request'
    BY <1>1, <1>2, <1>3, <1>9 DEF Idle, Request, NextByte
  <2>9. InPeek'
    <3>1. upos' = base' + clen'
      BY <1>1, <1>2, <1>9 DEF Idle, NextByte
    <3>2. \A i \in 0 .. clen' - 1 : buf'[i] = base' + i
      BY <1>2, <1>9, <2>1, <2>3, Numbers DEF Holds, NextByte
    <3> QED BY <1>2, <1>9, <2>1, <3>1, <3>2 DEF InPeek
  <2> QED BY <1>5, <2>5, <2>6, <2>7, <2>8, <2>9 DEF DInv
<1> QED BY <1>7, <1>8, <1>9 DEF EnterPeek, Return

\* src_peek in its loop.
PeekLoopState ==
    /\ UNCHANGED <<srcVars, cpos, readb, dropped, op, asked, want, left, ra, base>>
    /\ busy /\ op \in {"peek", "eof"} /\ type # "none" /\ base = NextByte /\ ~eof
    /\ cpos = 0 /\ clen < want /\ want <= CacheSize /\ left = 0
    /\ upos = base + clen /\ upos <= total
    /\ Holds(buf, 0, clen, base)
    /\ want <= asked
    /\ want < asked => known /\ readb + want = size
    /\ known => readb + want <= size

\* In its loop, src_peek is in the state that InPeek describes.
LEMMA PeekLoopEntered ==
    ASSUME DInv, src_peek_fill PROVE PeekLoopState
<1>1. DataOK /\ busy /\ op \in {"peek", "eof"}
    BY DEF DInv, src_peek_fill
<1>2. \A i \in 0 .. 0 + clen - 1 : buf[i] = base + (i - 0)
    BY <1>1, Numbers DEF DInv, InPeek
<1> QED BY <1>1, <1>2 DEF DInv, src_peek_fill, PeekLoopState, Bounds, Request, InPeek, Holds

\* The returns from the loop of src_peek: r bytes of the cache, or an error.
LEMMA PeekReturns ==
    ASSUME DInv, PeekLoopState, DataOK', ~busy', eof' = eof, upos' <= total,
           upos' = base + clen', Holds(buf', 0, clen', base),
           \/ ret' = -1
           \/ /\ ret' \in Nat /\ ret' <= want /\ Holds(out', 0, ret', base)
              /\ ret' < want => upos' = total /\ ret' = clen'
    PROVE  DInv'
<1> DataOK
    BY DEF DInv
<1>0. /\ op' \in {"peek", "eof"} /\ base' = base /\ base = readb + dropped /\ readb' = readb
      /\ dropped' = dropped /\ cpos' = 0 /\ total' = total /\ size' = size /\ known' = known
      /\ asked' = asked /\ ~eof' /\ clen' \in Nat
    BY Numbers DEF PeekLoopState, NextByte, srcVars, DataOK
<1>1. Bounds'
    BY <1>0, Numbers DEF Bounds, NextByte, Cached
<1>2. CacheHolds'
  <2>1. \A i \in 0 .. clen' - 1 : buf'[i] = base + i
    <3>1. base \in Nat
      BY Numbers
    <3>2. clen' \in Nat /\ Holds(buf', 0, clen', base)
      BY <1>0
    <3> QED BY <3>1, <3>2, HoldsFromStart
  <2>2. \A i \in 0 .. clen' - 1 : i - 0 = i
    OBVIOUS
  <2> QED BY <1>0, <2>1, <2>2 DEF CacheHolds, NextByte
<1>3. (EofSound /\ ShortReadIsEof)'
    BY <1>0 DEF EofSound, ShortReadIsEof
<1>4. CASE ret' = -1
    BY <1>0, <1>1, <1>2, <1>3, <1>4, EntryReturns DEF Delivered, ShortPeekIsEnd, PeekWithin, NextByte
<1>5. CASE /\ ret' \in Nat /\ ret' <= want /\ Holds(out', 0, ret', base)
           /\ ret' < want => upos' = total /\ ret' = clen'
  <2>1. Delivered'
    <3>1. \A i \in 0 .. ret' - 1 : out'[i] = base + i
      <4>1. base \in Nat
        BY Numbers
      <4> QED BY <1>5, <4>1, HoldsFromStart
    <3> QED BY <1>0, <3>1 DEF Delivered, NextByte
  <2>2. PeekWithin'
    BY <1>0, <1>5, Numbers DEF PeekWithin, PeekLoopState
  <2>3. ShortPeekIsEnd'
    <3>1. CASE ret' < want
      BY <1>0, <1>5, <3>1 DEF ShortPeekIsEnd, NextByte
    <3>2. CASE ret' = want
      <4>1. ret' < asked => known /\ readb + ret' >= size
        BY <3>2, Numbers DEF PeekLoopState
      <4> QED BY <1>0, <4>1 DEF ShortPeekIsEnd
    <3> QED BY <1>5, <3>1, <3>2, Numbers
  <2> QED BY <1>1, <1>2, <1>3, <2>1, <2>2, <2>3, EntryReturns
<1> QED BY <1>4, <1>5

\* An iteration of src_peek: an error, the end of the file, or more bytes behind
\* those in the cache.
LEMMA PeekFillStep ==
    ASSUME DInv, src_peek_fill PROVE DInv'
<1> DataOK
    BY DEF DInv
<1>0. PeekLoopState
    BY PeekLoopEntered
<1>1. PICK k \in ReadResults(PeekRequest) :
          \/ /\ k = -1
             /\ Return(-1)
             /\ UNCHANGED <<upos, buf, clen, eof, out>>
          \/ k = 0 /\ PeekEnds
          \/ /\ k > 0
             /\ buf' = Store(buf, clen, k)
             /\ clen' = clen + k
             /\ upos' = upos + k
             /\ UNCHANGED eof
             /\ \/ /\ clen + k >= want
                   /\ out' = Copy(out, 0, buf', 0, want)
                   /\ Return(want)
                \/ /\ clen + k < want
                   /\ UNCHANGED <<out, busy, ret>>
    BY DEF src_peek_fill
<1>2. /\ PeekRequest <= CacheSize - clen /\ PeekRequest \in Nat
      /\ buf \in Cache /\ out \in Buffer /\ base \in Int /\ 0 \in Nat
      /\ clen \in Nat /\ want \in Nat /\ want <= MaxLen /\ want <= CacheSize
      /\ clen < want /\ clen <= MaxLen /\ 0 + clen <= CacheSize /\ 0 + want <= CacheSize
    BY <1>0, Numbers, SMTT(60) DEF PeekRequest, PeekLoopState, DataOK, Cache, Buffer
<1>3. CASE k = -1
  <2>1. ~busy' /\ ret' = -1 /\ UNCHANGED <<upos, buf, clen, eof, out>>
    BY <1>1, <1>3 DEF Return
  <2>2. DataOK'
    BY <1>0, <2>1, Numbers DEF DataOK, PeekLoopState, srcVars
  <2> QED BY <1>0, <2>1, <2>2, PeekReturns DEF PeekLoopState
<1>4. CASE k = 0
  <2>0. upos = total
    BY <1>4 DEF ReadResults
  <2>1. /\ ~busy' /\ ret' = clen /\ out' = Copy(out, 0, buf, 0, clen)
        /\ UNCHANGED <<upos, buf, clen, eof>>
    BY <1>1, <1>4 DEF PeekEnds, Return
  <2>2. out' \in Buffer /\ Holds(out', 0, clen, base)
    BY <1>0, <1>2, <2>1, CopyToBuffer DEF PeekLoopState
  <2>3. ret' \in -1 .. MaxLen /\ ret' \in Nat /\ ret' <= want
    BY <1>2, <2>1, Numbers
  <2>4. DataOK'
    BY <1>0, <2>1, <2>2, <2>3 DEF DataOK, PeekLoopState, srcVars, Buffer
  <2> QED BY <1>0, <2>0, <2>1, <2>2, <2>3, <2>4, PeekReturns DEF PeekLoopState
<1>5. CASE k > 0
  <2>1. /\ buf' = Store(buf, clen, k) /\ clen' = clen + k /\ upos' = upos + k /\ UNCHANGED eof
        /\ k \in 1 .. PeekRequest /\ upos + k <= total
    BY <1>1, <1>5 DEF ReadResults
  <2>2. /\ k \in Nat /\ clen + k <= CacheSize /\ upos' \in 0 .. MaxTotal /\ upos' <= total
        /\ clen' \in 0 .. CacheSize /\ upos' = base + clen' /\ upos - clen = base
    BY <1>0, <1>2, <2>1, Numbers DEF PeekLoopState
  <2>3. \A j \in 0 .. clen - 1 : buf[j] = (upos - clen) + j
    BY <1>0, <1>2, <2>2 DEF PeekLoopState, Holds
  <2>4. /\ buf' \in [0 .. CacheSize - 1 -> Int]
        /\ \A j \in 0 .. clen + k - 1 : buf'[j] = (upos - clen) + j
    BY <1>2, <2>1, <2>2, <2>3, StoreBuf
  <2>5. buf' \in Cache /\ Holds(buf', 0, clen', base)
    BY <1>2, <2>1, <2>2, <2>4 DEF Cache, Holds
  <2>6. CASE clen + k >= want
    <3>1. out' = Copy(out, 0, buf', 0, want) /\ ~busy' /\ ret' = want
      BY <1>1, <1>2, <1>5, <2>2, <2>6 DEF Return
    <3>2. Holds(buf', 0, want, base)
      BY <1>2, <2>2, <2>1, <2>5, <2>6 DEF Holds
    <3>3. out' \in Buffer /\ Holds(out', 0, want, base)
      BY <1>2, <2>5, <3>1, <3>2, CopyToBuffer
    <3>4. ret' \in -1 .. MaxLen /\ ret' \in Nat /\ ret' <= want /\ ~(ret' < want)
      BY <1>2, <3>1, Numbers
    <3>5. DataOK'
      BY <1>0, <2>2, <2>4, <3>3, <3>4 DEF DataOK, PeekLoopState, srcVars, Buffer
    <3> QED BY <1>0, <2>1, <2>2, <2>5, <3>1, <3>3, <3>4, <3>5, PeekReturns
  <2>7. CASE clen + k < want
    <3>1. UNCHANGED <<out, busy, ret>>
      BY <1>1, <1>2, <1>5, <2>2, <2>7
    <3>2. DataOK'
      BY <1>0, <2>2, <2>4, <3>1 DEF DataOK, PeekLoopState, srcVars
    <3>3. busy' /\ op' \in {"peek", "eof"} /\ cpos' = 0 /\ clen' < want' /\ clen' \in Nat
      BY <1>0, <1>2, <2>1, <2>2, <2>7, <3>1 DEF PeekLoopState
    <3>4. (CacheHolds /\ Delivered /\ PeekWithin /\ ShortPeekIsEnd /\ ShortReadIsEof /\ InRead)'
      BY <3>3 DEF CacheHolds, Delivered, PeekWithin, ShortPeekIsEnd, ShortReadIsEof, InRead
    <3>5. (Bounds /\ EofSound)'
      BY <1>0, <2>1, <2>2, <3>3 DEF Bounds, EofSound, PeekLoopState, srcVars
    <3>6. Request'
      BY <1>0, <2>1, <3>1 DEF Request, PeekLoopState, srcVars, NextByte
    <3>7. \A i \in 0 .. clen' - 1 : buf'[i] = base' + i
      <4>1. base' = base /\ base \in Nat
        BY <1>0, Numbers DEF PeekLoopState
      <4> QED BY <2>5, <3>3, <4>1, HoldsFromStart
    <3>8. InPeek'
      BY <1>0, <2>2, <3>3, <3>7 DEF InPeek, PeekLoopState
    <3> QED BY <3>2, <3>4, <3>5, <3>6, <3>8 DEF DInv
  <2> QED BY <1>2, <2>2, <2>6, <2>7
<1>6. k = -1 \/ k = 0 \/ k > 0
    BY <1>2 DEF ReadResults
<1> QED BY <1>3, <1>4, <1>5, <1>6

-----------------------------------------------------------------------------
\* src_skip: within the cache, through src_read, or out of memory.
LEMMA SkipStep ==
    ASSUME DInv, NEW n \in 0 .. MaxLen, src_skip(n) PROVE DInv'
<1> DataOK
    BY DEF DInv
<1>1. CASE EnterRead("skip", n)
    BY <1>1, EnterReadStep
<1>2. CASE /\ Cached >= n /\ Call("skip", n) /\ readb' = readb + n /\ cpos' = cpos + n
           /\ Return(n) /\ want' = n /\ left' = 0 /\ out' = EmptyOut
           /\ UNCHANGED <<upos, buf, clen, eof, ra>>
  <2>1. Idle
    BY <1>2, IdleAtCall
  <2>2. /\ op' = "skip" /\ asked' = n /\ base' = readb + dropped /\ type' = type
        /\ known' = known /\ size' = size /\ total' = total /\ dropped' = dropped
        /\ ~busy' /\ ret' = n
    BY <1>2 DEF Call, NextByte, srcVars, Return
  <2>3. /\ n \in Nat /\ base' \in Nat /\ readb' \in Nat /\ cpos' \in 0 .. CacheSize
        /\ cpos' <= clen /\ 0 \in 0 .. MaxLen /\ ret' \in -1 .. MaxLen /\ "skip" \in Ops
    BY <1>2, <2>1, <2>2, Numbers DEF Idle, Cached, Ops
  <2>4. DataOK'
    BY <1>2, <2>2, <2>3, EmptyFacts DEF DataOK
  <2>5. (Bounds /\ CacheHolds)'
    <3>1. upos' = readb' + dropped' + (clen' - cpos')
      BY <1>2, <2>1, <2>2, <2>3, Numbers DEF Idle, NextByte, Cached
    <3>2. \A i \in cpos' .. clen' - 1 : i \in cpos .. clen - 1
              /\ readb' + dropped' + (i - cpos') = readb + dropped + (i - cpos)
      BY <1>2, <2>1, <2>2, <2>3, Numbers
    <3>3. \A i \in cpos' .. clen' - 1 : buf'[i] = readb' + dropped' + (i - cpos')
      BY <1>2, <2>1, <3>2 DEF Idle, NextByte
    <3> QED BY <1>2, <2>1, <2>2, <2>3, <3>1, <3>3 DEF Idle, Bounds, CacheHolds, NextByte, Cached
  <2>6. Delivered'
    BY <1>2, <2>2, <2>3, Numbers DEF Delivered, NextByte
  <2>7. (ShortReadIsEof /\ ShortPeekIsEnd /\ PeekWithin)'
    BY <2>2 DEF ShortReadIsEof, ShortPeekIsEnd, PeekWithin
  <2>8. EofSound'
    <3>1. CASE ~eof
      BY <1>2, <3>1 DEF EofSound
    <3>2. CASE eof /\ NextByte = total
      <4>1. n = 0
        BY <1>2, <2>1, <2>3, <3>2, Numbers DEF Idle, Cached, NextByte
      <4>2. readb' + dropped' = total'
        BY <1>2, <2>2, <3>2, <4>1, Numbers DEF NextByte
      <4> QED BY <4>2 DEF EofSound, NextByte
    <3>3. CASE known /\ readb >= size
      <4>1. known' /\ readb' >= size'
        BY <1>2, <2>2, <2>3, <3>3, Numbers
      <4> QED BY <4>1 DEF EofSound
    <3> QED BY <3>1, <3>2, <3>3 DEF DInv, EofSound
  <2> QED BY <2>2, <2>4, <2>5, <2>6, <2>7, <2>8, EntryReturns
<1>3. CASE /\ Call("skip", n) /\ Return(-1) /\ want' = 0 /\ left' = 0 /\ out' = EmptyOut
           /\ UNCHANGED <<upos, cacheVars, readb, eof, ra>>
  <2>1. Idle
    BY <1>3, IdleAtCall
  <2>2. /\ op' = "skip" /\ asked' = n /\ base' = readb + dropped /\ type' = type
        /\ known' = known /\ size' = size /\ total' = total /\ dropped' = dropped
        /\ ~busy' /\ ret' = -1
    BY <1>3 DEF Call, NextByte, srcVars, Return
  <2>3. base' \in Nat /\ 0 \in 0 .. MaxLen /\ ret' \in -1 .. MaxLen /\ "skip" \in Ops
    BY <2>2, Numbers DEF Ops
  <2>4. DataOK'
    BY <1>3, <2>2, <2>3, EmptyFacts DEF DataOK, cacheVars
  <2>5. (Bounds /\ CacheHolds)'
    BY <1>3, <2>1, <2>2 DEF Idle, Bounds, CacheHolds, NextByte, Cached, cacheVars
  <2>6. (Delivered /\ ShortReadIsEof /\ ShortPeekIsEnd /\ PeekWithin)'
    BY <2>2 DEF Delivered, ShortReadIsEof, ShortPeekIsEnd, PeekWithin
  <2>7. EofSound'
    BY <1>3, <2>2 DEF DInv, EofSound, NextByte
  <2> QED BY <2>2, <2>4, <2>5, <2>6, <2>7, EntryReturns
<1> QED BY <1>1, <1>2, <1>3 DEF src_skip

\* Opening a source starts with an empty cache at offset 0.
LEMMA OpenStep ==
    ASSUME DInv, Open PROVE DInv'
<1> DataOK
    BY DEF DInv
<1>1. /\ init_src_common /\ type' \in Types
      /\ size' \in 0 .. MaxTotal /\ total' \in 0 .. MaxTotal
    BY Numbers, SourceAssumption DEF Open, init_file_src, init_stdin_src, init_mem_src, Types
<1>2. /\ 0 \in 0 .. MaxTotal /\ 0 \in 0 .. CacheSize /\ 0 \in 0 .. MaxLen /\ 0 \in -1 .. MaxLen
      /\ 0 \in Nat /\ "none" \in Ops /\ total' >= 0
    BY <1>1, Numbers DEF Ops
<1>3. DataOK'
    BY <1>1, <1>2, EmptyFacts DEF DataOK, init_src_common
<1>4. (Bounds /\ CacheHolds)'
    BY <1>1, <1>2 DEF init_src_common, Bounds, CacheHolds, NextByte, Cached
<1>5. (Delivered /\ EofSound /\ ShortReadIsEof /\ ShortPeekIsEnd /\ PeekWithin)'
    BY <1>1 DEF init_src_common, Delivered, EofSound, ShortReadIsEof, ShortPeekIsEnd, PeekWithin
<1>6. ~busy'
    BY <1>1 DEF init_src_common
<1> QED BY <1>3, <1>4, <1>5, <1>6, EntryReturns

\* Closing a source drops its cache.
LEMMA CloseStep ==
    ASSUME DInv, src_close PROVE DInv'
<1> DataOK
    BY DEF DInv
<1>1. 0 \in 0 .. CacheSize /\ "none" \in Ops /\ "none" \in Types
    BY Numbers DEF Ops, Types
<1>2. DataOK'
    BY <1>1, EmptyFacts DEF DataOK, src_close
<1>3. (Bounds /\ CacheHolds /\ EofSound)'
    BY DEF DInv, src_close, Bounds, CacheHolds, EofSound, NextByte
<1>4. (Delivered /\ ShortReadIsEof /\ ShortPeekIsEnd /\ PeekWithin)'
    BY DEF src_close, Delivered, ShortReadIsEof, ShortPeekIsEnd, PeekWithin
<1>5. ~busy'
    BY DEF src_close
<1> QED BY <1>2, <1>3, <1>4, <1>5, EntryReturns

\* A step that changes nothing.
LEMMA StutterStep ==
    ASSUME DInv, UNCHANGED vars PROVE DInv'
<1> USE DEF vars, srcVars, cacheVars, callVars
<1>1. (DataOK /\ Bounds /\ CacheHolds)'
    BY DEF DInv, DataOK, Bounds, CacheHolds, NextByte, Cached
<1>2. (Request /\ InRead /\ InPeek)'
    BY DEF DInv, Request, InRead, InPeek, NextByte, OutPos
<1>3. (Delivered /\ EofSound /\ ShortReadIsEof /\ ShortPeekIsEnd /\ PeekWithin)'
    BY DEF DInv, Delivered, EofSound, ShortReadIsEof, ShortPeekIsEnd, PeekWithin, NextByte
<1> QED BY <1>1, <1>2, <1>3 DEF DInv

\* Every step keeps the invariant.
LEMMA NextIInv == IInv /\ [Next]_vars => IInv'
<1> SUFFICES ASSUME IInv, [Next]_vars PROVE IInv'
    OBVIOUS
<1>0. DInv /\ BoolOK
    BY InvParts, Zenon
<1> SUFFICES DInv'
  <2>1. BoolOK'
    BY <1>0, BoolStep, Zenon
  <2> QED BY <2>1, Zenon DEF IInv, DInv, TypeOK, BoolOK, DataOK
<1>1. CASE Open
    BY <1>0, <1>1, OpenStep
<1>2. CASE Enter
  <2>1. ASSUME NEW n \in 0 .. MaxLen, src_read(n) PROVE DInv'
    BY <1>0, <2>1, EnterReadStep DEF src_read
  <2>2. ASSUME NEW n \in 0 .. MaxLen, src_peek(n) PROVE DInv'
    BY <1>0, <2>2, EnterPeekStep DEF src_peek
  <2>3. ASSUME NEW n \in 0 .. MaxLen, src_skip(n) PROVE DInv'
    BY <1>0, <2>3, SkipStep
  <2>4. CASE src_eof
    <3>1. 1 \in 0 .. MaxLen
      BY SourceAssumption
    <3> QED BY <1>0, <2>4, <3>1, EnterPeekStep DEF src_eof
  <2> QED BY <1>2, <2>1, <2>2, <2>3, <2>4 DEF Enter
<1>3. CASE Loop
    BY <1>0, <1>3, DirectStep, FillStep, FinishStep, PeekFillStep DEF Loop
<1>4. CASE src_close
    BY <1>0, <1>4, CloseStep
<1>5. CASE UNCHANGED vars
    BY <1>0, <1>5, StutterStep
<1> QED BY <1>1, <1>2, <1>3, <1>4, <1>5 DEF Next

-----------------------------------------------------------------------------
\* The inductive invariant holds in every reachable state.
THEOREM Invariance == Spec => []IInv
    BY InitIInv, NextIInv, PTL DEF Spec

\* The variables keep their types; the cache and the counters their bounds.
THEOREM TypeCorrect == Spec => []TypeOK
<1>1. IInv => TypeOK
    BY DEF IInv
<1> QED BY <1>1, Invariance, PTL

\* The bookkeeping of the cache by src_read, src_peek and src_skip.
THEOREM CacheIsCoherent == Spec => []CacheCoherent
<1>1. IInv => CacheCoherent
    BY DEF IInv, CacheCoherent, Bounds, CacheHolds
<1> QED BY <1>1, Invariance, PTL

\* Reads deliver every byte once and in order, peeks consume nothing.
THEOREM DeliversInOrder == Spec => []Delivered
<1>1. IInv => Delivered
    BY DEF IInv
<1> QED BY <1>1, Invariance, PTL

\* src->eof is never set early.
THEOREM EofIsSound == Spec => []EofSound
<1>1. IInv => EofSound
    BY DEF IInv
<1> QED BY <1>1, Invariance, PTL

\* src->eof means an empty cache, unless the file grew after it was opened.
THEOREM EofMeansEmpty == Spec => []EofEmptyCache
<1>1. IInv => EofEmptyCache
  <2> SUFFICES ASSUME IInv, eof, type # "none", known => total <= size
               PROVE  cpos = clen /\ upos = total
    BY DEF EofEmptyCache
  <2>1. DataOK /\ ~busy
    BY InvParts DEF IInv, DInv, Request
  <2>2. /\ cpos <= clen /\ upos <= total /\ upos = readb + dropped + (clen - cpos)
        /\ readb + dropped = total \/ (known /\ readb >= size)
    BY <2>1 DEF IInv, Bounds, EofSound, NextByte, Cached
  <2> QED BY <2>1, <2>2, Numbers
<1> QED BY <1>1, Invariance, PTL

\* A short read is the end of the data.
THEOREM ShortReadsEnd == Spec => []ShortReadIsEof
<1>1. IInv => ShortReadIsEof
    BY DEF IInv
<1> QED BY <1>1, Invariance, PTL

\* A short peek shows all that is left.
THEOREM ShortPeeksEnd == Spec => []ShortPeekIsEnd
<1>1. IInv => ShortPeekIsEnd
    BY DEF IInv
<1> QED BY <1>1, Invariance, PTL

\* Nothing beyond the known size is given to a caller.
THEOREM StaysWithinSize == Spec => []WithinSize
<1>1. IInv => WithinSize
  <2> SUFFICES ASSUME IInv, known, ~busy, op \in {"read", "peek", "eof"}, ret > 0, ~Overrun
               PROVE  out[ret - 1] < size + dropped
    BY DEF WithinSize
  <2>1. DataOK
    BY InvParts DEF DInv
  <2>2. ret - 1 \in 0 .. ret - 1
    BY <2>1, Numbers
  <2>3. out[ret - 1] = base + (ret - 1)
    BY <2>2 DEF IInv, Delivered
  <2>4. CASE op = "read"
    <3>1. readb + dropped = base + ret /\ readb <= size
      BY <2>1, <2>4, Numbers DEF IInv, Delivered, NextByte, Overrun
    <3> QED BY <2>1, <2>3, <3>1, Numbers
  <2>5. CASE op \in {"peek", "eof"}
    <3>1. readb + dropped = base /\ readb + ret <= size
      BY <2>5 DEF IInv, Delivered, PeekWithin, NextByte
    <3> QED BY <2>1, <2>3, <3>1, Numbers
  <2> QED BY <2>4, <2>5
<1> QED BY <1>1, Invariance, PTL

\* The end of a source, a short read and a short peek mean what the callers of
\* src_read and src_peek take them for.
THEOREM EndIsAsMeant == Spec => []EndIsMeant
<1>1. EofSound /\ EofEmptyCache /\ ShortReadIsEof /\ ShortPeekIsEnd /\ WithinSize => EndIsMeant
    BY DEF EndIsMeant
<1> QED BY <1>1, EofIsSound, EofMeansEmpty, ShortReadsEnd, ShortPeeksEnd, StaysWithinSize, PTL

\* Every iteration of the loops of src_read and src_peek makes progress.
THEOREM LoopsProgress == Spec => LoopProgress
<1> DEFINE Progress == (busy /\ busy' /\ left > 0 => left' < left)
                          /\ (busy /\ busy' /\ left = 0 => clen' > clen)
<1>1. IInv /\ [Next]_vars => [Progress]_vars
  <2> SUFFICES ASSUME IInv, Next, busy, busy'
               PROVE  (left > 0 => left' < left) /\ (left = 0 => clen' > clen)
    OBVIOUS
  <2>1. DataOK /\ DInv
    BY InvParts DEF DInv
  <2>2. CASE Open \/ Enter \/ src_close
    <3>1. ~Enter
      BY DEF Enter, src_read, src_peek, src_eof, src_skip, EnterRead, EnterPeek, Call
    <3>2. ~src_close
      BY DEF src_close
    <3>3. ~Open
      BY DEF Open, init_file_src, init_stdin_src, init_mem_src, init_src_common
    <3> QED BY <2>2, <3>1, <3>2, <3>3
  <2>3. CASE src_read_direct
    <3>1. PICK k \in ReadResults(left) : k > 0 /\ left' = left - k
      BY <2>3 DEF src_read_direct, ReadFails, ReadEnds, Finish, Return
    <3>2. left > 0
      BY <2>3 DEF src_read_direct, InReadLoop
    <3>3. k \in 1 .. left
      BY <3>1 DEF ReadResults
    <3> QED BY <2>1, <3>1, <3>2, <3>3, Numbers
  <2>4. CASE src_read_fill
    <3>1. PICK k \in ReadResults(CacheSize) : k > 0 /\ left' = left - k
      BY <2>4 DEF src_read_fill, ReadFails, ReadEnds, Finish, Return
    <3>2. left > 0
      BY <2>4 DEF src_read_fill, InReadLoop
    <3>3. k \in 1 .. CacheSize
      BY <3>1 DEF ReadResults
    <3> QED BY <2>1, <3>1, <3>2, <3>3, Numbers
  <2>5. CASE src_read_finish
    BY <2>5 DEF src_read_finish, Finish, Return
  <2>6. CASE src_peek_fill
    <3>0. PeekLoopState
      BY <2>1, <2>6, PeekLoopEntered
    <3>1. PICK k \in ReadResults(PeekRequest) : k > 0 /\ clen' = clen + k
      BY <2>6 DEF src_peek_fill, PeekEnds, Return
    <3>2. k \in Nat /\ left = 0
      BY <3>0, <3>1 DEF ReadResults, PeekLoopState
    <3> QED BY <2>1, <3>1, <3>2, Numbers
  <2> QED BY <2>2, <2>3, <2>4, <2>5, <2>6 DEF Next, Loop
<1>2. Spec => [][Progress]_vars
    BY <1>1, Invariance, PTL DEF Spec
<1> QED BY <1>2 DEF LoopProgress
=============================================================================
