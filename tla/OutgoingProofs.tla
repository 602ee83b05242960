---------------------------- MODULE OutgoingProofs ----------------------------
(***************************************************************************)
(* Proofs about the operations of Outgoing, for every key, text, armor and *)
(* hash that OpsAssumption admits, any bound of the sizes and any number   *)
(* of failures.                                                            *)
(*                                                                         *)
(* SuccessMeansWritten: every piece that is asked for is written, excused  *)
(* by an ignored failure, or comes from a step that is still to be done,   *)
(* and a failure that is ignored skips only pieces it excuses (PassInv).   *)
(*                                                                         *)
(* The other two theorems are about the order of the steps.  Every program *)
(* is shown to be a run (ProgramRuns): each step has a label that says how *)
(* many of the cipher, hash and sum writers are on top of the stack, how   *)
(* far the output is, what the signature has hashed and how many of its    *)
(* bytes are there, and a step is allowed only where the label says so.  A *)
(* failure that is ignored leads to a later step with the same label.      *)
(* HeldInv says that the state fits the label of the next step, and that   *)
(* after the end the steps left release what is still held.                *)
(***************************************************************************)
EXTENDS Outgoing, TLAPS

-----------------------------------------------------------------------------
(* Programs. *)

\* A step, as a record.
IsStep(s) ==
    /\ s = [op |-> s.op, n |-> s.n, what |-> s.what, drop |-> s.drop, pops |-> s.pops]
    /\ s.drop \in Int /\ s.pops \in Nat
IsProgram(p) == p \in Seq({p[i] : i \in DOMAIN p}) /\ \A i \in DOMAIN p : IsStep(p[i])

\* A step of the program, and a program of one step.
LEMMA StepIs ==
    ASSUME NEW o, NEW n, NEW w
    PROVE  /\ IsStep(Step(o, n, w))
           /\ Step(o, n, w).drop = -1
           /\ Step(o, n, w).what = w
           /\ Step(o, n, w).op = o
BY DEF IsStep, Step

\* A program of one step.
LEMMA OneIs ==
    ASSUME NEW o, NEW n, NEW w
    PROVE  IsProgram(One(o, n, w)) /\ Len(One(o, n, w)) = 1 /\ One(o, n, w)[1] = Step(o, n, w)
<1> DEFINE s == Step(o, n, w)
<1>1. One(o, n, w) = <<s>>
    BY DEF One
<1>2. IsStep(s)
    BY StepIs
<1> HIDE DEF s
<1>3. <<s>> \in Seq({s}) /\ Len(<<s>>) = 1 /\ <<s>>[1] = s /\ DOMAIN <<s>> = 1 .. 1
    OBVIOUS
<1>4. {<<s>>[i] : i \in DOMAIN <<s>>} = {s}
    BY <1>3
<1> QED BY <1>1, <1>2, <1>3, <1>4 DEF IsProgram, s

\* Two programs, one after the other.
LEMMA JoinIs == ASSUME NEW p, NEW q, IsProgram(p), IsProgram(q)
   PROVE /\ IsProgram(p \o q) /\ Len(p \o q) = Len(p) + Len(q) /\ Len(p) \in Nat /\ Len(q) \in Nat
         /\ DOMAIN p = 1 .. Len(p) /\ DOMAIN q = 1 .. Len(q) /\ DOMAIN (p \o q) = 1 .. Len(p) + Len(q)
         /\ \A i \in 1 .. Len(p) + Len(q) : (p \o q)[i] = IF i <= Len(p) THEN p[i] ELSE q[i - Len(p)]
<1> DEFINE R == {p[i] : i \in DOMAIN p} \cup {q[i] : i \in DOMAIN q}
<1>1. p \in Seq(R) /\ q \in Seq(R)
    BY DEF IsProgram
<1>a. DOMAIN p = 1 .. Len(p) /\ DOMAIN q = 1 .. Len(q) /\ Len(p) \in Nat /\ Len(q) \in Nat
    BY <1>1
<1> DEFINE r == p \o q
<1> HIDE DEF R
<1>2. r \in Seq(R) /\ Len(r) = Len(p) + Len(q) /\ DOMAIN r = 1 .. Len(p) + Len(q)
    BY <1>1
<1>3. \A i \in 1 .. Len(p) + Len(q) : r[i] = IF i <= Len(p) THEN p[i] ELSE q[i - Len(p)]
    BY <1>1
<1> HIDE DEF r
<1>4. r \in Seq({r[i] : i \in DOMAIN r})
    BY <1>2
<1>5. \A i \in DOMAIN r : IsStep(r[i])
    <2> SUFFICES ASSUME NEW i \in DOMAIN r PROVE IsStep(r[i])
        OBVIOUS
    <2>1. CASE i <= Len(p)
        <3>1. i \in DOMAIN p /\ r[i] = p[i]
            BY <1>a, <1>2, <1>3, <2>1
        <3> QED BY <3>1, Zenon DEF IsProgram
    <2>2. CASE ~(i <= Len(p))
        <3>1. i - Len(p) \in DOMAIN q /\ r[i] = q[i - Len(p)]
            BY <1>a, <1>2, <1>3, <2>2
        <3> QED BY <3>1, Zenon DEF IsProgram
    <2> QED BY <2>1, <2>2
<1> QED BY <1>a, <1>2, <1>3, <1>4, <1>5 DEF r, IsProgram

\* No step.
LEMMA NothingIs == IsProgram(<<>>) /\ Len(<<>>) = 0 /\ DOMAIN <<>> = {}
BY DEF IsProgram

\* The steps of a program are numbered.
LEMMA ProgramIs == ASSUME NEW p, IsProgram(p) PROVE Len(p) \in Nat /\ DOMAIN p = 1 .. Len(p)
<1> DEFINE R == {p[i] : i \in DOMAIN p}
<1>1. p \in Seq(R)
    BY DEF IsProgram
<1> HIDE DEF R
<1> QED BY <1>1

\* A function from the first m numbers to steps is a program.
LEMMA MappedIs == ASSUME NEW m \in Nat, NEW p, p = [i \in 1 .. m |-> p[i]], \A i \in 1 .. m : IsStep(p[i])
    PROVE IsProgram(p) /\ DOMAIN p = 1 .. m /\ Len(p) = m
<1> DEFINE R == {p[i] : i \in 1 .. m}
<1>1. DOMAIN p = 1 .. m
    OBVIOUS
<1>2. p \in [1 .. m -> R]
    OBVIOUS
<1>3. p \in Seq(R) /\ Len(p) = m
    BY <1>1, <1>2, SMTT(30)
<1> QED BY <1>1, <1>3 DEF IsProgram

\* The steps of a program whose failures are ignored one by one or all together, or under
\* more writers.
LEMMA EachIs == ASSUME NEW p, IsProgram(p)
    PROVE /\ IsProgram(Each(p)) /\ Len(Each(p)) = Len(p) /\ DOMAIN Each(p) = DOMAIN p
          /\ \A i \in DOMAIN p : /\ Each(p)[i].op = p[i].op /\ Each(p)[i].n = p[i].n /\ Each(p)[i].what = p[i].what
                                 /\ Each(p)[i].pops = p[i].pops /\ Each(p)[i].drop = 0
<1> DEFINE r == Each(p)
<1>1. Len(p) \in Nat /\ DOMAIN p = 1 .. Len(p)
    BY ProgramIs
<1>2. r = [i \in 1 .. Len(p) |-> [p[i] EXCEPT !.drop = 0]]
    BY <1>1 DEF Each
<1> HIDE DEF r
<1>3. ASSUME NEW i \in 1 .. Len(p)
      PROVE  IsStep(r[i]) /\ r[i].op = p[i].op /\ r[i].n = p[i].n /\ r[i].what = p[i].what /\ r[i].pops = p[i].pops
            /\ r[i].drop = 0
    <2>1. IsStep(p[i])
        BY <1>1 DEF IsProgram
    <2>2. r[i] = [op |-> p[i].op, n |-> p[i].n, what |-> p[i].what, drop |-> 0, pops |-> p[i].pops]
        BY <1>2, <2>1 DEF IsStep
    <2>3. p[i].pops \in Nat
        BY <2>1 DEF IsStep
    <2> QED BY <2>2, <2>3 DEF IsStep
<1>4. r = [i \in 1 .. Len(p) |-> r[i]]
    BY <1>2
<1>5. IsProgram(r) /\ DOMAIN r = 1 .. Len(p) /\ Len(r) = Len(p)
    BY <1>1, <1>3, <1>4, MappedIs
<1> QED BY <1>1, <1>3, <1>5 DEF r

\* A failure skips what is left of the call.
LEMMA IgnoredIs == ASSUME NEW p, IsProgram(p)
    PROVE /\ IsProgram(Ignored(p)) /\ Len(Ignored(p)) = Len(p) /\ DOMAIN Ignored(p) = DOMAIN p
          /\ \A i \in DOMAIN p : /\ Ignored(p)[i].op = p[i].op /\ Ignored(p)[i].n = p[i].n
                                      /\ Ignored(p)[i].what = p[i].what
                                 /\ Ignored(p)[i].pops = p[i].pops
                                 /\ Ignored(p)[i].drop = IF p[i].drop = -1 THEN Len(p) - i ELSE p[i].drop
<1> DEFINE r == Ignored(p)
<1>1. Len(p) \in Nat /\ DOMAIN p = 1 .. Len(p)
    BY ProgramIs
<1>2. r = [i \in 1 .. Len(p) |-> IF p[i].drop = -1 THEN [p[i] EXCEPT !.drop = Len(p) - i] ELSE p[i]]
    BY <1>1 DEF Ignored
<1> HIDE DEF r
<1>3. ASSUME NEW i \in 1 .. Len(p)
      PROVE  /\ IsStep(r[i]) /\ r[i].op = p[i].op /\ r[i].n = p[i].n /\ r[i].what = p[i].what /\ r[i].pops = p[i].pops
             /\ r[i].drop = IF p[i].drop = -1 THEN Len(p) - i ELSE p[i].drop
    <2>1. IsStep(p[i])
        BY <1>1 DEF IsProgram
    <2>2. p[i].drop # -1 => r[i] = p[i]
        BY <1>2
    <2>3. CASE p[i].drop = -1
        <3>1. r[i] = [p[i] EXCEPT !.drop = Len(p) - i]
            BY <1>2, <2>3
        <3>2. r[i] = [op |-> p[i].op, n |-> p[i].n, what |-> p[i].what, drop |-> Len(p) - i, pops |-> p[i].pops]
            BY <3>1, <2>1 DEF IsStep
        <3>3. p[i].pops \in Nat /\ Len(p) - i \in Int
            BY <1>1, <2>1 DEF IsStep
        <3> QED BY <2>3, <3>2, <3>3 DEF IsStep
    <2> QED BY <2>1, <2>2, <2>3
<1>4. r = [i \in 1 .. Len(p) |-> r[i]]
    BY <1>2
<1>5. IsProgram(r) /\ DOMAIN r = 1 .. Len(p) /\ Len(r) = Len(p)
    BY <1>1, <1>3, <1>4, MappedIs
<1> QED BY <1>1, <1>3, <1>5 DEF r

\* The steps under more writers.
LEMMA UnderIs == ASSUME NEW p, IsProgram(p), NEW n \in Nat
    PROVE /\ IsProgram(Under(n, p)) /\ Len(Under(n, p)) = Len(p) /\ DOMAIN Under(n, p) = DOMAIN p
          /\ \A i \in DOMAIN p : /\ Under(n, p)[i].op = p[i].op /\ Under(n, p)[i].n = p[i].n /\ Under(n,
                                      p)[i].what = p[i].what
                                 /\ Under(n, p)[i].pops = p[i].pops + n /\ Under(n, p)[i].drop = p[i].drop
<1> DEFINE r == Under(n, p)
<1>1. Len(p) \in Nat /\ DOMAIN p = 1 .. Len(p)
    BY ProgramIs
<1>2. r = [i \in 1 .. Len(p) |-> [p[i] EXCEPT !.pops = @ + n]]
    BY <1>1 DEF Under
<1> HIDE DEF r
<1>3. ASSUME NEW i \in 1 .. Len(p)
      PROVE  IsStep(r[i]) /\ r[i].op = p[i].op /\ r[i].n = p[i].n /\ r[i].what = p[i].what
            /\ r[i].pops = p[i].pops + n /\ r[i].drop = p[i].drop
    <2>1. IsStep(p[i])
        BY <1>1 DEF IsProgram
    <2>2. r[i] = [op |-> p[i].op, n |-> p[i].n, what |-> p[i].what, drop |-> p[i].drop, pops |-> p[i].pops + n]
        BY <1>2, <2>1 DEF IsStep
    <2>3. p[i].pops + n \in Nat /\ p[i].drop \in Int
        BY <2>1 DEF IsStep
    <2> QED BY <2>2, <2>3 DEF IsStep
<1>4. r = [i \in 1 .. Len(p) |-> r[i]]
    BY <1>2
<1>5. IsProgram(r) /\ DOMAIN r = 1 .. Len(p) /\ Len(r) = Len(p)
    BY <1>1, <1>3, <1>4, MappedIs
<1> QED BY <1>1, <1>3, <1>5 DEF r

\* Joining programs is associative.
LEMMA JoinAssoc ==
    ASSUME NEW p, NEW q, NEW r, IsProgram(p), IsProgram(q), IsProgram(r)
    PROVE  p \o (q \o r) = (p \o q) \o r
<1>1. PICK S : p \in Seq(S)
    BY Zenon DEF IsProgram
<1>2. PICK T : q \in Seq(T)
    BY Zenon DEF IsProgram
<1>3. PICK U : r \in Seq(U)
    BY Zenon DEF IsProgram
<1> DEFINE V == S \cup T \cup U
<1>4. p \in Seq(V) /\ q \in Seq(V) /\ r \in Seq(V)
    BY <1>1, <1>2, <1>3
<1> HIDE DEF V
<1> QED BY <1>4

\* The steps from the m-th on.
LEMMA RestIs == ASSUME NEW p, IsProgram(p), NEW m \in Nat \ {0}
    PROVE /\ IsProgram(SubSeq(p, m, Len(p)))
          /\ DOMAIN SubSeq(p, m, Len(p)) = 1 .. Len(SubSeq(p, m, Len(p)))
          /\ Len(SubSeq(p, m, Len(p))) = IF m <= Len(p) THEN Len(p) - m + 1 ELSE 0
          /\ \A i \in 1 .. Len(SubSeq(p, m, Len(p))) : SubSeq(p, m, Len(p))[i] = p[m + i - 1]
               /\ m + i - 1 \in DOMAIN p
<1> DEFINE R == {p[i] : i \in DOMAIN p}
           k == IF m <= Len(p) THEN Len(p) - m + 1 ELSE 0
           r == SubSeq(p, m, Len(p))
<1>1. p \in Seq(R)
    BY DEF IsProgram
<1>2. Len(p) \in Nat /\ DOMAIN p = 1 .. Len(p)
    BY ProgramIs
<1> HIDE DEF R
<1>3. r = [i \in 1 .. k |-> p[m + i - 1]]
    BY <1>1, <1>2
<1>4. k \in Nat /\ \A i \in 1 .. k : m + i - 1 \in DOMAIN p
    BY <1>2
<1> HIDE DEF k, r
<1>5. \A i \in 1 .. k : r[i] = p[m + i - 1] /\ IsStep(r[i])
    BY <1>3, <1>4 DEF IsProgram
<1>6. r = [i \in 1 .. k |-> r[i]]
    BY <1>3
<1>7. IsProgram(r) /\ DOMAIN r = 1 .. k /\ Len(r) = k
    BY <1>4, <1>5, <1>6, MappedIs
<1> QED BY <1>4, <1>5, <1>7 DEF k, r

\* All steps but the first.
LEMMA TailIs == ASSUME NEW p, IsProgram(p), p # <<>>
    PROVE 1 \in DOMAIN p /\ Head(p) = p[1] /\ Tail(p) = SubSeq(p, 2, Len(p)) /\ IsStep(p[1])
<1> DEFINE R == {p[i] : i \in DOMAIN p}
<1>1. p \in Seq(R)
    BY DEF IsProgram
<1>2. Len(p) \in Nat /\ DOMAIN p = 1 .. Len(p)
    BY ProgramIs
<1> HIDE DEF R
<1>3. 1 \in DOMAIN p /\ Head(p) = p[1] /\ Tail(p) = SubSeq(p, 2, Len(p))
    BY <1>1, <1>2
<1> QED BY <1>3 DEF IsProgram

-----------------------------------------------------------------------------
(* The pieces a program gives, and the failures it passes over. *)

\* What an ignored failure skips is excused by it, and no failure of data is ignored; a pop never fails.
Lets(p) ==
    \A i \in DOMAIN p : p[i].drop >= 0 /\ p[i].op # "pop" =>
        /\ p[i].op # "data" /\ i + p[i].drop <= Len(p)
        /\ \A j \in i .. i + p[i].drop : Gives(p[j]) \subseteq Excused(p[i].what) /\ p[j].op # "fail"
\* Steps before the end; only data and text are written as data.
Proper(s) == s.op # "ok" /\ (s.op = "data" => s.what \in {"data", "text"})
NoOk(p) == \A i \in DOMAIN p : Proper(p[i])
Fair(p) == IsProgram(p) /\ Lets(p) /\ NoOk(p)

\* The program gives the piece x, or is bound to fail.
Has(p, x) == \E i \in DOMAIN p : p[i].op = "fail" \/ x \in Gives(p[i])

\* Every failure ends the operation.
Steady(p) == IsProgram(p) /\ \A i \in DOMAIN p : p[i].drop = -1 /\ Proper(p[i])

\* The program gives no piece outside of E, and all its failures excuse E.
Sheds(p, E) ==
    /\ IsProgram(p) /\ Lets(p)
    /\ \A i \in DOMAIN p : /\ p[i].op \notin {"ok", "fail", "data"} /\ Gives(p[i]) \subseteq E
                           /\ p[i].drop = -1 /\ p[i].op # "pop" => E \subseteq Excused(p[i].what)

\* What a step gives depends on its kind alone.
LEMMA GivesSame == ASSUME NEW s, NEW t, s.op = t.op, s.what = t.what PROVE Gives(s) = Gives(t)
BY DEF Gives

\* Programs of which every failure counts.
LEMMA SteadyFair == ASSUME NEW p, Steady(p) PROVE Fair(p)
<1>1. \A i \in DOMAIN p : ~(p[i].drop >= 0)
    BY DEF Steady
<1> QED BY <1>1 DEF Steady, Fair, Lets, NoOk

\* A single step.
LEMMA OneSteady == ASSUME NEW o, o # "ok", NEW n, NEW w, o = "data" => w \in {"data", "text"} PROVE Steady(One(o, n, w)) /\ Fair(One(o, n, w))
<1>1. IsProgram(One(o, n, w)) /\ Len(One(o, n, w)) = 1 /\ One(o, n, w)[1] = Step(o, n, w)
    BY OneIs, Zenon
<1>2. DOMAIN One(o, n, w) = {1}
    BY <1>1, ProgramIs
<1>3. Steady(One(o, n, w))
    BY <1>1, <1>2, StepIs DEF Steady, Proper
<1> QED BY <1>3, SteadyFair

\* A step that gives nothing, or only what its own failure excuses.
LEMMA OneSheds ==
    ASSUME NEW o, o \notin {"ok", "fail", "data"}, NEW n, NEW w, NEW E, Gives(Step(o, n, w)) \subseteq E, E \subseteq Excused(w)
    PROVE  Sheds(One(o, n, w), E)
<1>1. IsProgram(One(o, n, w)) /\ Len(One(o, n, w)) = 1 /\ One(o, n, w)[1] = Step(o, n, w)
    BY OneIs, Zenon
<1>2. DOMAIN One(o, n, w) = {1}
    BY <1>1, ProgramIs
<1>3. Lets(One(o, n, w))
    BY <1>1, OneSteady DEF Fair
<1> QED BY <1>1, <1>2, <1>3, StepIs DEF Sheds

\* Steps that give nothing.
LEMMA OneBarren ==
    ASSUME NEW o, NEW n, NEW w,
           o \in {"write", "try", "sig", "pop", "finalise", "sigmem"} \/ (o = "push" /\ w \notin {"se_ip", "stream"})
    PROVE  Sheds(One(o, n, w), {})
<1>1. Gives(Step(o, n, w)) = {}
    BY StepIs DEF Gives
<1> QED BY <1>1, OneSheds

\* A pop, whatever is excused.
LEMMA PopSheds == ASSUME NEW E PROVE Sheds(Pop, E)
<1> DEFINE r == One("pop", 0, "")
<1>1. IsProgram(r) /\ Len(r) = 1 /\ r[1] = Step("pop", 0, "")
    BY OneIs, Zenon
<1>2. Lets(r)
    BY OneSteady, Zenon DEF Fair
<1>3. Step("pop", 0, "").op = "pop"
    BY StepIs
<1>4. Gives(Step("pop", 0, "")) = {}
    BY <1>3 DEF Gives
<1> HIDE DEF r
<1>5. DOMAIN r = {1}
    <2>1. IsProgram(r) /\ Len(r) = 1
        BY <1>1
    <2> QED BY <2>1, ProgramIs
<1>6. Sheds(r, E)
    BY <1>1, <1>5, <1>2, <1>3, <1>4 DEF Sheds
<1> QED BY <1>6 DEF Pop, r

\* One program after the other.
LEMMA JoinLets == ASSUME NEW p, NEW q, IsProgram(p), IsProgram(q), Lets(p), Lets(q) PROVE Lets(p \o q)
<1> DEFINE r == p \o q
<1>1. /\ IsProgram(r) /\ Len(r) = Len(p) + Len(q) /\ Len(p) \in Nat /\ Len(q) \in Nat
      /\ DOMAIN r = 1 .. Len(p) + Len(q) /\ DOMAIN p = 1 .. Len(p) /\ DOMAIN q = 1 .. Len(q)
      /\ \A i \in 1 .. Len(p) + Len(q) : r[i] = IF i <= Len(p) THEN p[i] ELSE q[i - Len(p)]
    BY JoinIs
<1> HIDE DEF r
<1>2. \A i \in DOMAIN r : r[i].drop \in Int
    BY <1>1 DEF IsProgram, IsStep
<1>3. ASSUME NEW i \in DOMAIN r, r[i].drop >= 0, r[i].op # "pop"
      PROVE  /\ r[i].op # "data" /\ i + r[i].drop <= Len(r)
             /\ \A j \in i .. i + r[i].drop : Gives(r[j]) \subseteq Excused(r[i].what) /\ r[j].op # "fail"
    <2>1. CASE i <= Len(p)
        <3>1. i \in DOMAIN p /\ r[i] = p[i]
            BY <1>1, <2>1
        <3>2. p[i].op # "data" /\ i + p[i].drop <= Len(p)
            BY <1>3, <3>1 DEF Lets
        <3>3. ASSUME NEW j \in i .. i + p[i].drop PROVE Gives(r[j]) \subseteq Excused(p[i].what) /\ r[j].op # "fail"
            <4>1. r[j] = p[j]
                BY <1>1, <1>2, <3>1, <3>2
            <4>2. Gives(p[j]) \subseteq Excused(p[i].what) /\ p[j].op # "fail"
                BY <1>3, <3>1 DEF Lets
            <4> QED BY <4>1, <4>2
        <3> QED BY <1>1, <1>2, <3>1, <3>2, <3>3
    <2>2. CASE ~(i <= Len(p))
        <3> DEFINE k == i - Len(p)
        <3>1. k \in DOMAIN q /\ r[i] = q[k] /\ i = k + Len(p) /\ k \in Int
            BY <1>1, <2>2
        <3> HIDE DEF k
        <3>2. q[k].op # "data" /\ k + q[k].drop <= Len(q) /\ q[k].drop \in Int
            BY <1>2, <1>3, <3>1 DEF Lets
        <3>3. ASSUME NEW j \in i .. i + q[k].drop PROVE Gives(r[j]) \subseteq Excused(q[k].what) /\ r[j].op # "fail"
            <4>1. j - Len(p) \in k .. k + q[k].drop /\ r[j] = q[j - Len(p)]
                BY <1>1, <3>1, <3>2
            <4>2. \A l \in k .. k + q[k].drop : Gives(q[l]) \subseteq Excused(q[k].what) /\ q[l].op # "fail"
                BY <1>3, <3>1 DEF Lets
            <4> QED BY <4>1, <4>2
        <3> QED BY <1>1, <1>2, <3>1, <3>2, <3>3
    <2> QED BY <2>1, <2>2
<1> QED BY <1>3 DEF Lets, r

\* What holds of every step of two programs holds of both together.
LEMMA JoinFair == ASSUME NEW p, NEW q, Fair(p), Fair(q) PROVE Fair(p \o q)
<1> DEFINE r == p \o q
<1>1. IsProgram(p) /\ IsProgram(q)
    BY DEF Fair
<1>2. /\ IsProgram(r) /\ DOMAIN r = 1 .. Len(p) + Len(q) /\ DOMAIN p = 1 .. Len(p) /\ DOMAIN q = 1 .. Len(q)
      /\ Len(p) \in Nat /\ Len(q) \in Nat
      /\ \A i \in 1 .. Len(p) + Len(q) : r[i] = IF i <= Len(p) THEN p[i] ELSE q[i - Len(p)]
    BY <1>1, JoinIs
<1>3. Lets(r)
    BY <1>1, JoinLets DEF Fair
<1> HIDE DEF r
<1>4. NoOk(r)
    BY <1>2 DEF NoOk, Fair
<1> QED BY <1>2, <1>3, <1>4 DEF Fair, r

\* Two programs of which every failure counts.
LEMMA JoinSteady == ASSUME NEW p, NEW q, Steady(p), Steady(q) PROVE Steady(p \o q)
<1> DEFINE r == p \o q
<1>1. IsProgram(p) /\ IsProgram(q)
    BY DEF Steady
<1>2. /\ IsProgram(r) /\ DOMAIN r = 1 .. Len(p) + Len(q) /\ DOMAIN p = 1 .. Len(p) /\ DOMAIN q = 1 .. Len(q)
      /\ Len(p) \in Nat /\ Len(q) \in Nat
      /\ \A i \in 1 .. Len(p) + Len(q) : r[i] = IF i <= Len(p) THEN p[i] ELSE q[i - Len(p)]
    BY <1>1, JoinIs
<1> HIDE DEF r
<1>3. ASSUME NEW i \in DOMAIN r PROVE r[i].drop = -1 /\ Proper(r[i])
    <2>1. CASE i <= Len(p)
        <3>1. i \in DOMAIN p /\ r[i] = p[i]
            BY <1>2, <2>1
        <3> QED BY <3>1 DEF Steady
    <2>2. CASE ~(i <= Len(p))
        <3>1. i - Len(p) \in DOMAIN q /\ r[i] = q[i - Len(p)]
            BY <1>2, <2>2
        <3> QED BY <3>1 DEF Steady
    <2> QED BY <2>1, <2>2
<1> QED BY <1>2, <1>3 DEF Steady, r

\* Two programs whose failures excuse what they give.
LEMMA JoinSheds == ASSUME NEW E, NEW p, NEW q, Sheds(p, E), Sheds(q, E) PROVE Sheds(p \o q, E)
<1> DEFINE r == p \o q
<1>1. IsProgram(p) /\ IsProgram(q)
    BY DEF Sheds
<1>2. /\ IsProgram(r) /\ DOMAIN r = 1 .. Len(p) + Len(q) /\ DOMAIN p = 1 .. Len(p) /\ DOMAIN q = 1 .. Len(q)
      /\ Len(p) \in Nat /\ Len(q) \in Nat
      /\ \A i \in 1 .. Len(p) + Len(q) : r[i] = IF i <= Len(p) THEN p[i] ELSE q[i - Len(p)]
    BY <1>1, JoinIs
<1>3. Lets(r)
    BY <1>1, JoinLets DEF Sheds
<1> HIDE DEF r
<1>4. ASSUME NEW i \in DOMAIN r
      PROVE  /\ r[i].op \notin {"ok", "fail", "data"} /\ Gives(r[i]) \subseteq E
             /\ r[i].drop = -1 /\ r[i].op # "pop" => E \subseteq Excused(r[i].what)
    <2>1. CASE i <= Len(p)
        <3>1. i \in DOMAIN p /\ r[i] = p[i]
            BY <1>2, <2>1
        <3> QED BY <3>1 DEF Sheds
    <2>2. CASE ~(i <= Len(p))
        <3>1. i - Len(p) \in DOMAIN q /\ r[i] = q[i - Len(p)]
            BY <1>2, <2>2
        <3> QED BY <3>1 DEF Sheds
    <2> QED BY <2>1, <2>2
<1> QED BY <1>2, <1>3, <1>4 DEF Sheds, r

\* A piece of one of two programs.
LEMMA JoinHas == ASSUME NEW p, NEW q, IsProgram(p), IsProgram(q), NEW x, Has(p, x) \/ Has(q, x) PROVE Has(p \o q, x)
<1> DEFINE r == p \o q
<1>1. /\ DOMAIN r = 1 .. Len(p) + Len(q) /\ DOMAIN p = 1 .. Len(p) /\ DOMAIN q = 1 .. Len(q)
      /\ Len(p) \in Nat /\ Len(q) \in Nat
      /\ \A i \in 1 .. Len(p) + Len(q) : r[i] = IF i <= Len(p) THEN p[i] ELSE q[i - Len(p)]
    BY JoinIs
<1> HIDE DEF r
<1>2. CASE Has(p, x)
    <2>1. PICK i \in DOMAIN p : p[i].op = "fail" \/ x \in Gives(p[i])
        BY <1>2 DEF Has
    <2>2. i \in DOMAIN r /\ r[i] = p[i]
        BY <1>1
    <2> QED BY <2>1, <2>2 DEF Has, r
<1>3. CASE Has(q, x)
    <2>1. PICK i \in DOMAIN q : q[i].op = "fail" \/ x \in Gives(q[i])
        BY <1>3 DEF Has
    <2>2. i + Len(p) \in DOMAIN r /\ r[i + Len(p)] = q[i]
        BY <1>1
    <2> QED BY <2>1, <2>2 DEF Has, r
<1> QED BY <1>2, <1>3

\* No step.
LEMMA NothingFair == ASSUME NEW E PROVE Fair(<<>>) /\ Steady(<<>>) /\ Sheds(<<>>, E)
BY NothingIs DEF Fair, Lets, NoOk, Steady, Sheds

\* A call whose result is ignored: what is skipped is excused.
LEMMA IgnoredFair == ASSUME NEW E, NEW p, Sheds(p, E) PROVE Fair(Ignored(p)) /\ \A F : Sheds(p, {}) => Sheds(Ignored(p), F)
<1> DEFINE r == Ignored(p)
<1>1. IsProgram(p) /\ Len(p) \in Nat /\ DOMAIN p = 1 .. Len(p)
    BY ProgramIs DEF Sheds
<1>2. /\ IsProgram(r) /\ Len(r) = Len(p) /\ DOMAIN r = DOMAIN p
      /\ \A i \in DOMAIN p : /\ r[i].op = p[i].op /\ r[i].what = p[i].what
                             /\ r[i].drop = IF p[i].drop = -1 THEN Len(p) - i ELSE p[i].drop
    BY <1>1, IgnoredIs
<1> HIDE DEF r
<1>3. \A i \in DOMAIN p : Gives(r[i]) = Gives(p[i])
    BY <1>2, GivesSame
<1>4. \A i \in DOMAIN p : p[i].drop \in Int
    BY <1>1 DEF IsProgram, IsStep
<1>5. ASSUME NEW i \in DOMAIN r, r[i].drop >= 0, r[i].op # "pop"
      PROVE  /\ r[i].op # "data" /\ i + r[i].drop <= Len(r)
             /\ \A j \in i .. i + r[i].drop : Gives(r[j]) \subseteq Excused(r[i].what) /\ r[j].op # "fail"
    <2>0. i \in DOMAIN p /\ i \in Nat /\ p[i].op \notin {"data", "pop"} /\ r[i].op = p[i].op /\ r[i].what = p[i].what
        BY <1>1, <1>2, <1>5 DEF Sheds
    <2>1. CASE p[i].drop = -1
        <3>1. r[i].drop = Len(p) - i /\ i + r[i].drop = Len(p)
            BY <1>1, <1>2, <2>0, <2>1
        <3>2. ASSUME NEW j \in i .. i + r[i].drop PROVE Gives(r[j]) \subseteq Excused(r[i].what) /\ r[j].op # "fail"
            <4>1. j \in DOMAIN p
                BY <1>1, <2>0, <3>1
            <4>2. Gives(p[j]) \subseteq E /\ p[j].op # "fail" /\ E \subseteq Excused(p[i].what)
                BY <2>0, <2>1, <4>1 DEF Sheds
            <4> QED BY <1>2, <1>3, <2>0, <4>1, <4>2
        <3> QED BY <1>2, <2>0, <3>1, <3>2
    <2>2. CASE p[i].drop # -1
        <3>1. r[i].drop = p[i].drop /\ p[i].drop >= 0
            BY <1>2, <1>5, <2>0, <2>2
        <3>2. i + p[i].drop <= Len(p)
            BY <2>0, <3>1 DEF Sheds, Lets
        <3>3. ASSUME NEW j \in i .. i + r[i].drop PROVE Gives(r[j]) \subseteq Excused(r[i].what) /\ r[j].op # "fail"
            <4>1. j \in i .. i + p[i].drop /\ j \in DOMAIN p
                BY <1>1, <1>4, <2>0, <3>1, <3>2
            <4>2. Gives(p[j]) \subseteq Excused(p[i].what) /\ p[j].op # "fail"
                BY <2>0, <3>1, <4>1 DEF Sheds, Lets
            <4> QED BY <1>2, <1>3, <2>0, <4>1, <4>2
        <3> QED BY <1>2, <2>0, <3>1, <3>2, <3>3
    <2> QED BY <2>1, <2>2
<1>6. Lets(r)
    BY <1>5 DEF Lets
<1>7. NoOk(r)
    BY <1>2 DEF Sheds, NoOk, Proper
<1>8. ASSUME NEW F, Sheds(p, {}) PROVE Sheds(r, F)
    <2> SUFFICES ASSUME NEW i \in DOMAIN r
                 PROVE  /\ r[i].op \notin {"ok", "fail", "data"} /\ Gives(r[i]) \subseteq F
                        /\ r[i].drop = -1 /\ r[i].op # "pop" => F \subseteq Excused(r[i].what)
        BY <1>2, <1>6 DEF Sheds
    <2>1. i \in DOMAIN p /\ i \in Nat /\ i <= Len(p)
        BY <1>1, <1>2
    <2>2. p[i].op \notin {"ok", "fail", "data"} /\ Gives(p[i]) \subseteq {}
        BY <1>8, <2>1 DEF Sheds
    <2>3. r[i].drop # -1
        BY <1>1, <1>2, <1>4, <2>1
    <2> QED BY <1>2, <1>3, <2>1, <2>2, <2>3
<1> QED BY <1>2, <1>6, <1>7, <1>8 DEF Fair, r

\* Results ignored one by one.
LEMMA EachFair == ASSUME NEW p, Sheds(p, {}), NEW E PROVE Fair(Each(p)) /\ Sheds(Each(p), E)
<1> DEFINE r == Each(p)
<1>1. IsProgram(p) /\ Len(p) \in Nat /\ DOMAIN p = 1 .. Len(p)
    BY ProgramIs DEF Sheds
<1>2. /\ IsProgram(r) /\ Len(r) = Len(p) /\ DOMAIN r = DOMAIN p
      /\ \A i \in DOMAIN p : r[i].op = p[i].op /\ r[i].what = p[i].what /\ r[i].drop = 0
    BY <1>1, EachIs
<1> HIDE DEF r
<1>3. ASSUME NEW i \in DOMAIN p PROVE Gives(r[i]) = {} /\ p[i].op \notin {"ok", "fail", "data"}
    <2>1. Gives(r[i]) = Gives(p[i])
        BY <1>2, GivesSame
    <2>2. Gives(p[i]) = {} /\ p[i].op \notin {"ok", "fail", "data"}
        BY DEF Sheds
    <2> QED BY <2>1, <2>2
<1>4. Lets(r)
    <2> SUFFICES ASSUME NEW i \in DOMAIN r
                 PROVE  /\ r[i].op # "data" /\ i + r[i].drop <= Len(r)
                        /\ \A j \in i .. i + r[i].drop : Gives(r[j]) \subseteq Excused(r[i].what) /\ r[j].op # "fail"
        BY DEF Lets
    <2>1. i \in DOMAIN p /\ r[i].drop = 0 /\ i \in 1 .. Len(p)
        BY <1>1, <1>2
    <2>2. \A j \in i .. i + r[i].drop : j = i
        BY <1>1, <2>1
    <2>3. i + r[i].drop <= Len(r)
        BY <1>1, <1>2, <2>1
    <2>4. Gives(r[i]) \subseteq Excused(r[i].what) /\ r[i].op # "fail" /\ r[i].op # "data"
        BY <1>2, <1>3, <2>1
    <2> QED BY <2>2, <2>3, <2>4
<1> QED BY <1>2, <1>3, <1>4 DEF Fair, Sheds, NoOk, Proper, r

\* The same steps under more writers.
LEMMA UnderSteady == ASSUME NEW p, NEW n \in Nat, Steady(p) PROVE Steady(Under(n, p)) /\ Fair(Under(n, p))
<1>1. Steady(Under(n, p))
    BY UnderIs DEF Steady, Proper
<1> QED BY <1>1, SteadyFair

\* A loop.
LEMMA TimesSteady == ASSUME NEW p, NEW c \in Nat, Steady(p)
    PROVE Steady(Times(c, p)) /\ Fair(Times(c, p)) /\ (Sheds(p, {}) => Sheds(Times(c, p), {}))
<1> DEFINE F(i) == p[((i - 1) % Len(p)) + 1]
           m == c * Len(p)
           r == [i \in 1 .. m |-> F(i)]
<1>1. IsProgram(p) /\ Len(p) \in Nat /\ DOMAIN p = 1 .. Len(p)
    BY ProgramIs DEF Steady
<1>2. Times(c, p) = r
    BY DEF Times
<1>3. m \in Nat /\ (m > 0 => Len(p) > 0)
    BY <1>1
<1>4. ASSUME NEW i \in 1 .. m PROVE ((i - 1) % Len(p)) + 1 \in 1 .. Len(p)
    BY <1>1, <1>3
<1>5. \A i \in 1 .. m : IsStep(F(i)) /\ F(i).drop = -1 /\ Proper(F(i))
    BY <1>1, <1>4 DEF IsProgram, Steady
<1>6. Sheds(p, {}) => \A i \in 1 .. m : F(i).op \notin {"ok", "fail", "data"} /\ Gives(F(i)) = {}
    BY <1>1, <1>4 DEF Sheds
<1> HIDE DEF F, m
<1>7. \A i \in 1 .. m : r[i] = F(i)
    OBVIOUS
<1>8. IsProgram(r) /\ DOMAIN r = 1 .. m
    <2>1. r = [i \in 1 .. m |-> r[i]]
        OBVIOUS
    <2> HIDE DEF r
    <2> QED BY <1>3, <1>5, <1>7, <2>1, MappedIs
<1> HIDE DEF r
<1>9. Steady(r) /\ Fair(r)
    <2>1. Steady(r)
        BY <1>5, <1>7, <1>8 DEF Steady
    <2> QED BY <2>1, SteadyFair
<1>10. Sheds(p, {}) => Sheds(r, {})
    BY <1>6, <1>7, <1>8, <1>9 DEF Sheds, Fair
<1> QED BY <1>2, <1>9, <1>10

\* A packet gives its kind, and what its body passes over.
LEMMA PacketFair == ASSUME NEW kind, NEW n, NEW b
    PROVE  /\ Steady(b) => Steady(Packet(kind, n, b))
           /\ Fair(b) => Fair(Packet(kind, n, b)) /\ Has(Packet(kind, n, b), kind)
<1> DEFINE h == One("tag", 1, "") \o One("length", n, "")
           e == One("packet", 0, kind)
<1>1. Packet(kind, n, b) = (h \o b) \o e
    BY DEF Packet
<1>2. Steady(h) /\ Steady(e) /\ Fair(h) /\ Fair(e)
    BY OneSteady, JoinSteady, SteadyFair
<1>3. Has(e, kind)
    <2>1. IsProgram(e) /\ Len(e) = 1 /\ e[1] = Step("packet", 0, kind)
        BY OneIs, Zenon
    <2>2. 1 \in DOMAIN e
        BY <2>1, ProgramIs
    <2>3. Gives(Step("packet", 0, kind)) = {kind}
        BY StepIs DEF Gives
    <2> QED BY <2>1, <2>2, <2>3 DEF Has
<1> HIDE DEF h, e
<1>4. Steady(b) => Steady((h \o b) \o e)
    BY <1>2, JoinSteady
<1>5. Fair(b) => Fair((h \o b) \o e)
    BY <1>2, JoinFair
<1>6. Fair(b) => Has((h \o b) \o e, kind)
    <2>1. Fair(b) => IsProgram(h \o b) /\ IsProgram(e)
        BY <1>2, JoinFair DEF Fair
    <2> QED BY <1>3, <2>1, JoinHas
<1> QED BY <1>1, <1>4, <1>5, <1>6

\* Nothing is had from a call that is bound to fail.
LEMMA FailHas == ASSUME NEW x PROVE Has(Fail, x) /\ Steady(Fail) /\ Fail # <<>>
<1>1. IsProgram(Fail) /\ Len(Fail) = 1 /\ Fail[1] = Step("fail", 0, "unsupported")
    BY OneIs, Zenon DEF Fail
<1>2. 1 \in DOMAIN Fail
    BY <1>1, ProgramIs
<1>3. Fail # <<>>
    BY <1>1
<1> QED BY <1>1, <1>2, <1>3, StepIs, OneSteady DEF Has, Fail


\* A program that gives the piece x and passes over nothing else.
Offers(p, x) == Fair(p) /\ Has(p, x)

\* The rest of a program that gives x.
LEMMA JoinOffers == ASSUME NEW x, NEW p, NEW q, Fair(p), Fair(q), Offers(p, x) \/ Offers(q, x) PROVE Offers(p \o q, x)
BY JoinFair, JoinHas DEF Offers, Fair

\* A step that gives x, and a call that always fails.
LEMMA OneOffers == ASSUME NEW o, o # "ok", NEW n, NEW w, o = "data" => w \in {"data", "text"}, NEW x, x \in Gives(Step(o, n, w)) \/ o = "fail"
    PROVE Offers(One(o, n, w), x)
<1>1. IsProgram(One(o, n, w)) /\ Len(One(o, n, w)) = 1 /\ One(o, n, w)[1] = Step(o, n, w)
    BY OneIs, Zenon
<1>2. 1 \in DOMAIN One(o, n, w)
    BY <1>1, ProgramIs
<1>3. Has(One(o, n, w), x)
    BY <1>1, <1>2, StepIs DEF Has
<1> QED BY <1>3, OneSteady DEF Offers

\* Calls whose failures all end the operation.
LEMMA OnesSteady ==
    /\ \A n : Steady(W(n)) /\ Steady(Try(n)) /\ Steady(Push(n)) /\ Steady(Sig(n)) /\ Steady(Armor(n)) /\ Steady(Hash(n))
    /\ Steady(Fail) /\ Steady(Pop) /\ Steady(<<>>) /\ Steady(pgp_push_enc_crypt) /\ Steady(pgp_writer_push_hash)
    /\ Steady(pgp_writer_push_sum16)
BY OneSteady, NothingFair
   DEF W, Try, Push, Sig, Armor, Hash, Fail, Pop, pgp_push_enc_crypt, pgp_writer_push_hash, pgp_writer_push_sum16

\* Numbers of a key.
LEMMA MpisSteady == ASSUME NEW k, NEW c \in Nat PROVE Steady(pgp_write_mpi(k.n)) /\ Steady(Mpis(k, c))
<1>1. Steady(pgp_write_mpi(k.n))
    BY OnesSteady, JoinSteady DEF pgp_write_mpi
<1> QED BY <1>1, TimesSteady DEF Mpis

\* The body of a public key packet, and the secret numbers.
LEMMA KeysSteady == ASSUME NEW k PROVE Steady(write_pubkey_body(k)) /\ Steady(pgp_write_secret_mpis(k))
<1>1. Steady(ec_serialize_pubkey(k))
    BY OnesSteady, JoinSteady, MpisSteady DEF ec_serialize_pubkey
<1>2. Steady(write_pubkey_body(k))
    BY <1>1, OnesSteady, JoinSteady, MpisSteady DEF write_pubkey_body
<1> QED BY <1>2, OnesSteady, MpisSteady DEF pgp_write_secret_mpis

\* The encrypted body of a secret key: the writers of cipher and hash are popped again.
LEMMA ProtectedSteady == ASSUME NEW k PROVE Steady(write_protected_seckey_body(k))
<1>1. \A n \in {1, 2} : \A p : Steady(p) => Steady(UnderWriters(n, p))
    BY UnderSteady DEF UnderWriters
<1>2. Steady(UnderWriters(2, pgp_write_secret_mpis(k)))
    BY <1>1, KeysSteady, Zenon
<1>3. Steady(UnderWriters(1, W(Checkhash)))
    BY <1>1, OnesSteady, Zenon
<1>4. Steady(UnderWriters(1, Try("hash") \o pgp_writer_push_hash))
    <2>1. Steady(Try("hash") \o pgp_writer_push_hash)
        BY OnesSteady, JoinSteady, Zenon
    <2> QED BY <1>1, <2>1, Zenon
<1>5. Steady(If(k.spec # "simple", Try("rng") \o W(8))) /\ Steady(If(k.spec = "iterated", W(1)))
    BY OnesSteady, JoinSteady DEF If
<1> QED BY <1>2, <1>3, <1>4, <1>5, OnesSteady, JoinSteady DEF write_protected_seckey_body

\* A secret key packet, in clear or encrypted.
LEMMA SeckeyOffers == ASSUME NEW k PROVE Offers(pgp_write_struct_seckey(k), "secret key")
<1>1. Steady(Under(1, pgp_write_secret_mpis(k)))
    BY KeysSteady, UnderSteady
<1>2. Steady(write_seckey_body(k))
    BY <1>1, OnesSteady, JoinSteady, KeysSteady, ProtectedSteady DEF write_seckey_body
<1>3. Fair(write_seckey_body(k))
    BY <1>2, SteadyFair
<1>4. Offers(Packet("secret key", SeckeyLength(k), write_seckey_body(k)), "secret key")
    BY <1>3, PacketFair DEF Offers
<1> QED BY <1>4, OneOffers DEF pgp_write_struct_seckey, Fail

\* The other packets.
LEMMA PacketsOffer ==
    ASSUME NEW k, NEW doc, NEW n
    PROVE  /\ Offers(pgp_write_struct_pubkey(k), "public key") /\ Offers(pgp_write_struct_userid(n), "user id")
           /\ Offers(pgp_write_one_pass_sig, "one pass") /\ Offers(pgp_write_litdata(doc), "literal")
           /\ Offers(pgp_write_pk_sesskey(k), "session key")
<1>1. \A x : Offers(Fail, x)
    BY OneOffers DEF Fail
<1>2. Steady(Mpis(k, 1)) /\ Steady(Mpis(k, 2))
    BY MpisSteady
<1>3. ASSUME NEW kind, NEW len, NEW b, Steady(b) PROVE Offers(Packet(kind, len, b), kind)
    BY <1>3, PacketFair, SteadyFair DEF Offers
<1>4. Offers(pgp_write_struct_pubkey(k), "public key") /\ Offers(pgp_write_struct_userid(n), "user id")
    BY <1>3, KeysSteady, OnesSteady DEF pgp_write_struct_pubkey, pgp_write_struct_userid
<1>5. Offers(pgp_write_one_pass_sig, "one pass")
    BY <1>3, OnesSteady, JoinSteady DEF pgp_write_one_pass_sig
<1>6. Offers(pgp_write_litdata(doc), "literal")
    <2>1. Steady(If(doc.name > 0, W(doc.name)))
        BY OnesSteady DEF If
    <2> QED BY <1>1, <1>3, <2>1, OnesSteady, JoinSteady DEF pgp_write_litdata
<1>7. Offers(pgp_write_pk_sesskey(k), "session key")
    <2>1. Steady(W(1) \o W(8) \o W(1)) /\ Steady(W(1)) /\ Steady(W(48))
        BY OnesSteady, JoinSteady
    <2> QED BY <1>1, <1>2, <1>3, <2>1, JoinSteady DEF pgp_write_pk_sesskey
<1> QED BY <1>4, <1>5, <1>6, <1>7


\* What is put together in memory gives nothing yet.
LEMMA SigsBarren == ASSUME NEW n PROVE Sheds(Sig(n), {}) /\ Steady(Subpacket(n)) /\ Sheds(Subpacket(n), {})
<1>1. \A m : Sheds(Sig(m), {})
    BY OneBarren DEF Sig
<1> QED BY <1>1, JoinSheds, OnesSteady, JoinSteady DEF Subpacket

\* A signature is given when it is written.
LEMMA SignOffers == ASSUME NEW k, NEW hash PROVE Offers(pgp_sig_write(k, hash), "signature")
<1>1. Fair(Each(Sig(2)))
    BY SigsBarren, EachFair
<1>2. Steady(Sig(2) \o Sig(k.n)) /\ Sheds(Sig(2) \o Sig(k.n), {})
    BY OnesSteady, JoinSteady, SigsBarren, JoinSheds
<1>3. Fair(SigMpis(k, 2)) /\ Fair(Each(SigMpis(k, 1))) /\ Fair(Each(SigMpis(k, 2)))
    <2>1. \A c \in {1, 2} : Fair(SigMpis(k, c)) /\ Sheds(SigMpis(k, c), {})
        BY <1>2, TimesSteady DEF SigMpis
    <2> QED BY <2>1, EachFair
<1>4. Fair(Fail) /\ Fair(Try("sign")) /\ Fair(Sig(2))
    BY OnesSteady, SteadyFair
<1>5. Fair(Sign(k, hash))
    BY <1>1, <1>3, <1>4, JoinFair DEF Sign, rsa_sign, dsa_sign, ecdsa_sign, eddsa_sign
<1>6. /\ Fair(One("unhashed", 0, "")) /\ Fair(Hash("fields")) /\ Fair(Hash("trailer"))
      /\ Fair(One("tag", 1, "")) /\ Fair(One("siglength", 0, "")) /\ Fair(One("sigbody", 0, ""))
    BY OneSteady DEF Hash
<1>7. Offers(One("packet", 0, "signature"), "signature")
    <2>1. "signature" \in Gives(Step("packet", 0, "signature"))
        BY StepIs DEF Gives
    <2> QED BY <2>1, OneOffers
<1>8. Fair(One("packet", 0, "signature"))
    BY OneSteady
<1> DEFINE b == One("unhashed", 0, "") \o Hash("fields") \o Hash("trailer") \o Sign(k, hash)
                  \o One("tag", 1, "") \o One("siglength", 0, "") \o One("sigbody", 0, "")
<1>9. Fair(b)
    BY <1>5, <1>6, JoinFair
<1> HIDE DEF b
<1>10. Offers(b \o One("packet", 0, "signature"), "signature")
    BY <1>7, <1>8, <1>9, JoinOffers
<1> QED BY <1>10, OneOffers DEF pgp_sig_write, Fail, b

\* Hashing one thing after the other, and data in pieces.
LEMMA NotesSteady == ASSUME NEW S, NEW items \in Seq(S), NEW o, o # "ok", NEW n, NEW w
    PROVE  /\ o # "data" => Steady([i \in DOMAIN items |-> Step(o, n, items[i])])
           /\ w \in {"data", "text"} => Steady([i \in DOMAIN items |-> Step(o, items[i], w)])
<1> DEFINE p == [i \in 1 .. Len(items) |-> Step(o, n, items[i])]
           q == [i \in 1 .. Len(items) |-> Step(o, items[i], w)]
<1>1. Len(items) \in Nat /\ DOMAIN items = 1 .. Len(items)
    OBVIOUS
<1>2. \A i \in 1 .. Len(items) : /\ IsStep(p[i]) /\ IsStep(q[i]) /\ p[i].drop = -1 /\ q[i].drop = -1
                                 /\ p[i].op = o /\ q[i].op = o /\ q[i].what = w
    BY StepIs
<1>3. p = [i \in 1 .. Len(items) |-> p[i]] /\ q = [i \in 1 .. Len(items) |-> q[i]]
    OBVIOUS
<1> HIDE DEF p, q
<1>4. IsProgram(p) /\ IsProgram(q) /\ DOMAIN p = 1 .. Len(items) /\ DOMAIN q = 1 .. Len(items)
    BY <1>1, <1>2, <1>3, MappedIs
<1>5. (o # "data" => Steady(p)) /\ (w \in {"data", "text"} => Steady(q))
    BY <1>2, <1>4 DEF Steady, Proper
<1> QED BY <1>1, <1>5 DEF p, q

\* Keys are hashed.
LEMMA HashKeySteady == Steady(HashKey("primary")) /\ Steady(HashKey("subkey"))
<1> DEFINE S == {"0x99", "primary", "subkey"}
<1>1. <<"0x99", "primary">> \in Seq(S) /\ <<"0x99", "subkey">> \in Seq(S)
    OBVIOUS
<1> HIDE DEF S
<1>2. ASSUME NEW key \in {"primary", "subkey"} PROVE Steady(HashKey(key))
    <2>1. hash_add_key(key) \in Seq(S)
        BY <1>1 DEF hash_add_key
    <2>2. Steady([i \in DOMAIN hash_add_key(key) |-> Step("hash", 0, hash_add_key(key)[i])])
        BY <2>1, NotesSteady
    <2> QED BY <2>2, OnesSteady, JoinSteady DEF HashKey
<1> QED BY <1>2

\* A signature is begun.
LEMMA StartsFair == Fair(pgp_sig_start) /\ Fair(pgp_sig_start_key_sig) /\ Fair(pgp_sig_start_subkey_sig)
<1>1. Fair(Each(Sig(1) \o Sig(1) \o Sig(1) \o Sig(1))) /\ Fair(Each(Sig(2)))
    BY SigsBarren, JoinSheds, EachFair
<1>2. Fair(Each(One("sigmem", 0, "null")))
    BY OneBarren, EachFair
<1>3. Fair(start_sig_in_mem)
    BY <1>1, <1>2, OneSteady, JoinFair DEF start_sig_in_mem
<1>4. ASSUME NEW p, Steady(p) PROVE Fair(SigNew(p))
    BY <1>3, <1>4, OneSteady, SteadyFair, JoinFair DEF SigNew
<1>5. Fair(pgp_sig_start)
    BY <1>4, OnesSteady DEF pgp_sig_start
<1>6. Fair(pgp_sig_start_key_sig)
    <2>1. Steady(Try("memory") \o HashKey("primary") \o Hash("0xb4") \o Hash("userid"))
        BY OnesSteady, HashKeySteady, JoinSteady
    <2> QED BY <1>4, <2>1 DEF pgp_sig_start_key_sig
<1>7. Fair(pgp_sig_start_subkey_sig)
    <2>1. Steady(Try("memory") \o HashKey("primary") \o HashKey("subkey"))
        BY OnesSteady, HashKeySteady, JoinSteady
    <2> QED BY <1>4, <2>1 DEF pgp_sig_start_subkey_sig
<1> QED BY <1>5, <1>6, <1>7

\* The signatures of generated keys, and of data.
LEMMA SelfsigsOffer == ASSUME NEW k, NEW hash
    PROVE  /\ Offers(pgp_write_selfsig_cert(k, hash), "signature") /\ Offers(pgp_write_selfsig_binding(k, hash), "signature")
           /\ Offers(SigTail(k, hash), "signature")
<1>1. \A n : Fair(Try(n)) /\ Fair(Subpacket(n))
    BY OnesSteady, SigsBarren, SteadyFair
<1>2. /\ Fair(pgp_sig_add_time) /\ Fair(pgp_sig_add_issuer_keyid) /\ Fair(pgp_sig_add_key_flags)
      /\ Fair(pgp_sig_add_primary_userid) /\ \A n : Fair(pgp_sig_add_prefs(n))
    BY <1>1, SigsBarren, EachFair, NothingFair
       DEF pgp_sig_add_time, pgp_sig_add_issuer_keyid, pgp_sig_add_key_flags, pgp_sig_add_primary_userid,
           pgp_sig_add_prefs, If
<1>3. Fair(pgp_sig_end_hashed_subpkts)
    BY OneSteady, OnesSteady, SteadyFair, JoinFair DEF pgp_sig_end_hashed_subpkts
<1>4. Offers(pgp_sig_write(k, hash), "signature") /\ Fair(pgp_sig_write(k, hash))
    BY SignOffers DEF Offers
<1> DEFINE a == Try("rng") \o Try("keyid") \o Try("memory") \o pgp_sig_start_key_sig \o pgp_sig_add_time \o pgp_sig_add_time
                  \o pgp_sig_add_key_flags \o pgp_sig_add_primary_userid \o pgp_sig_add_prefs(4) \o pgp_sig_add_prefs(5)
                  \o pgp_sig_add_issuer_keyid \o pgp_sig_end_hashed_subpkts
           b == Try("rng") \o Try("keyid") \o Try("memory") \o pgp_sig_start_subkey_sig \o pgp_sig_add_time
                  \o pgp_sig_add_time \o pgp_sig_add_key_flags \o pgp_sig_add_issuer_keyid \o pgp_sig_end_hashed_subpkts
           c == pgp_sig_add_time \o pgp_sig_add_time \o Try("keyid") \o pgp_sig_add_issuer_keyid \o pgp_sig_end_hashed_subpkts
<1>5. Fair(a)
    BY <1>1, <1>2, <1>3, StartsFair, JoinFair
<1>6. Fair(b)
    BY <1>1, <1>2, <1>3, StartsFair, JoinFair
<1>7. Fair(c)
    BY <1>1, <1>2, <1>3, JoinFair
<1> HIDE DEF a, b, c
<1>8. \A p : Fair(p) => Offers(p \o pgp_sig_write(k, hash), "signature")
    BY <1>4, JoinOffers
<1> QED BY <1>5, <1>6, <1>7, <1>8 DEF pgp_write_selfsig_cert, pgp_write_selfsig_binding, SigTail, a, b, c


\* A call whose result is ignored gives the same pieces.
LEMMA IgnoredHas == ASSUME NEW p, IsProgram(p), NEW x, Has(p, x) PROVE Has(Ignored(p), x)
<1> DEFINE r == Ignored(p)
<1>1. IsProgram(r) /\ DOMAIN r = DOMAIN p /\ \A i \in DOMAIN p : r[i].op = p[i].op /\ r[i].what = p[i].what
    BY IgnoredIs
<1> HIDE DEF r
<1>2. \A i \in DOMAIN p : Gives(r[i]) = Gives(p[i])
    BY <1>1, GivesSame
<1>3. Has(r, x)
    BY <1>1, <1>2 DEF Has
<1> QED BY <1>3 DEF r

\* Writers that are pushed.
LEMMA ArmorsFair ==
    /\ Fair(pgp_writer_push_armored(TRUE)) /\ Fair(pgp_writer_push_clearsigned)
    /\ Fair(Ignored(pgp_writer_push_armored(FALSE))) /\ \A E : Sheds(Ignored(pgp_writer_push_armored(FALSE)), E)
<1>1. Fair(pgp_writer_push_armored(TRUE)) /\ Fair(pgp_writer_push_clearsigned)
    <2>1. Steady(pgp_writer_push_armored(TRUE))
        BY OnesSteady, JoinSteady DEF pgp_writer_push_armored
    <2>2. Steady(pgp_writer_push_clearsigned)
        BY OnesSteady, JoinSteady DEF pgp_writer_push_clearsigned
    <2> QED BY <2>1, <2>2, SteadyFair
<1>2. \A n : Sheds(Armor(n), {}) /\ Sheds(Try(n), {})
    BY OneBarren DEF Armor, Try
<1>3. Sheds(Push("linebreak"), {}) /\ Sheds(Push("base64"), {})
    BY OneBarren DEF Push
<1>4. Sheds(Each(Armor(29) \o Armor(2)), {})
    BY <1>2, JoinSheds, EachFair
<1>5. Sheds(pgp_writer_push_armored(FALSE), {})
    BY <1>2, <1>3, <1>4, JoinSheds DEF pgp_writer_push_armored
<1> QED BY <1>1, <1>5, IgnoredFair

\* The writers of an encryption.
LEMMA EncryptOffers == ASSUME NEW k, NEW len, NEW x \in {"session key", "cipher"} PROVE Offers(pgp_push_enc_se_ip(k, len), x)
<1>1. \A n : Fair(Try(n)) /\ Fair(Push(n))
    BY OnesSteady, SteadyFair
<1>2. Fair(pgp_create_pk_sesskey(k))
    <2>1. Steady(If(k.alg = "ECDH", Try("fingerprint") \o Try("number")))
        BY OnesSteady, JoinSteady DEF If
    <2>2. Steady(pgp_create_pk_sesskey(k))
        BY <2>1, OnesSteady, JoinSteady DEF pgp_create_pk_sesskey
    <2> QED BY <2>2, SteadyFair
<1>3. Offers(SessionKey(k), "session key") /\ Fair(SessionKey(k))
    <2>1. Offers(pgp_write_pk_sesskey(k), "session key") /\ Fair(pgp_write_pk_sesskey(k))
        BY PacketsOffer DEF Offers
    <2>2. Offers(pgp_create_pk_sesskey(k) \o pgp_write_pk_sesskey(k), "session key")
        BY <1>2, <2>1, JoinOffers
    <2>3. Offers(pgp_create_pk_sesskey(k) \o pgp_write_pk_sesskey(k) \o Try("memory"), "session key")
        BY <1>1, <2>2, JoinOffers DEF Offers
    <2>4. Offers(SessionKey(k), "session key")
        BY <1>1, <2>3, JoinOffers DEF Offers, SessionKey
    <2> QED BY <2>4 DEF Offers
<1>a. Gives(Step("push", 0, "se_ip")) = {"cipher"} /\ Gives(Step("push", 0, "stream")) = {"cipher"}
    <2>1. ASSUME NEW s, s.op = "push", s.what \in {"se_ip", "stream"} PROVE Gives(s) = {"cipher"}
        BY <2>1 DEF Gives
    <2>2. \A w : Step("push", 0, w).op = "push" /\ Step("push", 0, w).what = w
        BY DEF Step
    <2> QED BY <2>1, <2>2
<1>4. Offers(Push("se_ip"), "cipher") /\ Has(Push("stream"), "cipher")
    BY <1>a, OneOffers DEF Push, Offers
<1>5. Offers(Ignored(Push("stream")), "cipher")
    <2>1. {"cipher"} \subseteq Excused("stream")
        BY DEF Excused
    <2>2. Sheds(Push("stream"), {"cipher"})
        BY <1>a, <2>1, OneSheds DEF Push
    <2>3. Fair(Ignored(Push("stream"))) /\ IsProgram(Push("stream"))
        <3> DEFINE p == Push("stream")
        <3>1. Sheds(p, {"cipher"})
            BY <2>2
        <3> HIDE DEF p
        <3>2. Fair(Ignored(p)) /\ IsProgram(p)
            <4>1. Fair(Ignored(p))
                BY <3>1, IgnoredFair
            <4> QED BY <3>1, <4>1 DEF Sheds
        <3> QED BY <3>2 DEF p
    <2> QED BY <1>4, <2>3, IgnoredHas DEF Offers
<1>6. Offers(pgp_push_stream_enc_se_ip(k), x)
    <2> DEFINE b == Try("memory") \o SessionKey(k)
               c == b \o Try("memory") \o Try("memory")
    <2>1. Fair(b) /\ Offers(b, "session key")
        BY <1>1, <1>3, JoinFair, JoinOffers
    <2> HIDE DEF b
    <2>2. Fair(c) /\ Offers(c, "session key")
        <3>1. Fair(b \o Try("memory")) /\ Offers(b \o Try("memory"), "session key")
            BY <1>1, <2>1, JoinFair, JoinOffers
        <3> QED BY <1>1, <3>1, JoinFair, JoinOffers
    <2> HIDE DEF c
    <2>3. Fair(Ignored(Push("stream")))
        BY <1>5 DEF Offers
    <2>4. Offers(c \o Ignored(Push("stream")), x)
        BY <1>5, <2>2, <2>3, JoinOffers
    <2> QED BY <2>4 DEF pgp_push_stream_enc_se_ip, b, c
<1>7. Offers(Try("memory") \o SessionKey(k) \o Push("se_ip"), x)
    <2>1. Fair(Try("memory") \o SessionKey(k)) /\ Offers(Try("memory") \o SessionKey(k), "session key")
        BY <1>1, <1>3, JoinFair, JoinOffers
    <2> QED BY <1>1, <1>4, <2>1, JoinOffers
<1> QED BY <1>6, <1>7 DEF pgp_push_enc_se_ip

\* A transferable key: without it, that is excused.
LEMMA XferOffers == ASSUME NEW k, NEW armor \in BOOLEAN PROVE Offers(Ignored(pgp_write_xfer_key(k, armor)), "key")
<1> DEFINE E == {"key"}
<1>1. /\ Gives(Step("write", k.n, "key")) \subseteq E /\ Gives(Step("packet", 0, "key")) = E /\ E \subseteq Excused("key")
    BY StepIs DEF Gives, Excused
<1>2. Offers(One("packet", 0, "key"), "key")
    BY <1>1, OneOffers
<1> HIDE DEF E
<1>3. Sheds(One("write", k.n, "key"), E) /\ Sheds(One("packet", 0, "key"), E)
    BY <1>1, OneSheds
<1>4. Sheds(write_matching_packets(k), E)
    BY <1>3, JoinSheds DEF write_matching_packets
<1>5. Has(write_matching_packets(k), "key")
    <2>1. IsProgram(One("write", k.n, "key") \o One("write", k.n, "key")) /\ IsProgram(One("packet", 0, "key"))
        BY <1>3, JoinSheds DEF Sheds
    <2> QED BY <1>2, <2>1, JoinHas DEF write_matching_packets, Offers
<1>6. Sheds(If(armor, Ignored(pgp_writer_push_armored(FALSE))), E)
    BY ArmorsFair, NothingFair DEF If
<1>7. Sheds(Each(One("finalise", 0, "export")), E)
    <2>1. Sheds(One("finalise", 0, "export"), {})
        BY OneBarren
    <2> QED BY <2>1, EachFair
<1>8. Sheds(If(armor, Each(One("finalise", 0, "export")) \o Pop), E)
    BY <1>7, PopSheds, JoinSheds, NothingFair DEF If
<1> DEFINE a == If(armor, Ignored(pgp_writer_push_armored(FALSE)))
           b == If(armor, Each(One("finalise", 0, "export")) \o Pop)
           m == write_matching_packets(k)
<1>9. pgp_write_xfer_key(k, armor) = a \o m \o b
    BY DEF pgp_write_xfer_key
<1>10. Sheds(a, E) /\ Sheds(b, E) /\ Sheds(m, E) /\ Has(m, "key")
    BY <1>4, <1>5, <1>6, <1>8
<1> HIDE DEF a, b, m
<1>11. Sheds(a \o m, E) /\ Has(a \o m, "key")
    BY <1>10, JoinSheds, JoinHas DEF Sheds
<1>12. Sheds(a \o m \o b, E) /\ Has(a \o m \o b, "key")
    BY <1>10, <1>11, JoinSheds, JoinHas DEF Sheds
<1> QED BY <1>9, <1>12, IgnoredFair, IgnoredHas DEF Offers, Sheds

\* Data in pieces.
LEMMA DataOffers == ASSUME NEW doc, doc.pieces \in Seq(Nat) PROVE Fair(Data(doc)) /\ (doc.pieces # <<>> => Offers(Data(doc), "data"))
<1>1. Fair(Data(doc))
    BY NotesSteady, SteadyFair DEF Data
<1>2. ASSUME doc.pieces # <<>> PROVE Has(Data(doc), "data")
    <2>1. 1 \in DOMAIN doc.pieces
        BY <1>2
    <2>2. 1 \in DOMAIN Data(doc) /\ Data(doc)[1] = Step("data", doc.pieces[1], "data")
        BY <2>1 DEF Data
    <2>3. "data" \in Gives(Step("data", doc.pieces[1], "data"))
        BY StepIs DEF Gives
    <2> QED BY <2>2, <2>3 DEF Has
<1> QED BY <1>1, <1>2 DEF Offers


\* An operation: what it does, which gives the pieces of A, and then success.
Delivers(p, A) == \E b : p = b \o Ok /\ Fair(b) /\ \A x \in A : Has(b, x)

\* The operations that sign deliver what they are asked for.
LEMMA SignsDeliver ==
    ASSUME NEW o \in Ops
    PROVE  /\ o.name = "sign_file" => Delivers(pgp_sign_file(o), Asked(o))
           /\ o.name = "sign_buf" => Delivers(pgp_sign_buf(o), Asked(o))
           /\ o.name = "sign_detached" => Delivers(pgp_sign_detached(o), Asked(o))
           /\ o.name = "sign_memory_detached" => Delivers(pgp_sign_memory_detached(o), Asked(o))
<1>1. \A n : Fair(Try(n)) /\ Fair(Hash(n))
    BY OnesSteady, SteadyFair
<1>2. Fair(Close) /\ Fair(pgp_setup_memory_write) /\ Fair(pgp_setup_file_write) /\ Fair(open_output_file)
    BY OneSteady DEF Close, pgp_setup_memory_write, pgp_setup_file_write, open_output_file
<1>3. Fair(ArmorIf(o))
    BY ArmorsFair, NothingFair DEF ArmorIf, If
<1>4. \A h : Offers(SigTail(o.key, h), "signature") /\ Fair(SigTail(o.key, h))
    BY SelfsigsOffer DEF Offers
<1>5. Fair(pgp_sig_start)
    BY StartsFair
<1> DEFINE A == {"signature"} \cup (IF o.clear THEN {"text"} ELSE {"one pass", "literal"})
           t == SigTail(o.key, pgp_pick_hash_alg(o.key, o.hash))
<1>6. \A x \in A : Offers(Signed(o), x)
    <2>1. CASE o.clear
        <3> DEFINE b == pgp_writer_push_clearsigned \o One("data", o.doc.len, "text") \o pgp_writer_push_armored(TRUE)
        <3>1. Fair(One("data", o.doc.len, "text")) /\ Offers(One("data", o.doc.len, "text"), "text")
            <4>1. "text" \in Gives(Step("data", o.doc.len, "text"))
                BY StepIs DEF Gives
            <4> QED BY <4>1, OneOffers, OneSteady
        <3>2. Fair(pgp_writer_push_clearsigned \o One("data", o.doc.len, "text"))
              /\ Offers(pgp_writer_push_clearsigned \o One("data", o.doc.len, "text"), "text")
            BY <3>1, ArmorsFair, JoinFair, JoinOffers
        <3>3. Fair(b) /\ Offers(b, "text")
            BY <3>2, ArmorsFair, JoinFair, JoinOffers
        <3>4. Signed(o) = b \o t /\ \A x \in A : x = "text" \/ x = "signature"
            BY <2>1 DEF Signed
        <3>5. Fair(t) /\ Offers(t, "signature")
            BY <1>4
        <3> HIDE DEF b, t, A
        <3>6. Offers(b \o t, "text") /\ Offers(b \o t, "signature")
            BY <3>3, <3>5, JoinOffers
        <3> QED BY <3>4, <3>6
    <2>2. CASE ~o.clear
        <3> DEFINE a == ArmorIf(o) \o Hash("data")
                   b == a \o pgp_write_one_pass_sig
                   c == b \o pgp_write_litdata(o.doc)
        <3>1. Signed(o) = c \o t /\ \A x \in A : x = "one pass" \/ x = "literal" \/ x = "signature"
            BY <2>2 DEF Signed
        <3>2. Fair(t) /\ Offers(t, "signature")
            BY <1>4
        <3>3. Fair(a)
            BY <1>1, <1>3, JoinFair
        <3> HIDE DEF a, t, A
        <3>4. Fair(b) /\ Offers(b, "one pass")
            BY <3>3, PacketsOffer, JoinFair, JoinOffers DEF Offers
        <3> HIDE DEF b
        <3>5. Fair(c) /\ Offers(c, "one pass") /\ Offers(c, "literal")
            <4>1. Fair(pgp_write_litdata(o.doc)) /\ Offers(pgp_write_litdata(o.doc), "literal")
                BY PacketsOffer DEF Offers
            <4> QED BY <3>4, <4>1, JoinFair, JoinOffers
        <3> HIDE DEF c
        <3>6. Offers(c \o t, "one pass") /\ Offers(c \o t, "literal") /\ Offers(c \o t, "signature")
            BY <3>2, <3>5, JoinOffers
        <3> QED BY <3>1, <3>6
    <2> QED BY <2>1, <2>2
<1>7. Fair(Signed(o))
    <2>1. "signature" \in A
        OBVIOUS
    <2> HIDE DEF A
    <2> QED BY <1>6, <2>1 DEF Offers
<1>8. o.name \in {"sign_file", "sign_buf"} => Asked(o) = A
    BY DEF Asked
<1>9. o.name \in {"sign_detached", "sign_memory_detached"} => Asked(o) = {"signature"}
    BY DEF Asked
<1> HIDE DEF A, t
<1>10. ASSUME o.name = "sign_file" PROVE Delivers(pgp_sign_file(o), Asked(o))
    <2> DEFINE a == Try("hash algorithm") \o Try("read") \o open_output_file \o Try("memory") \o pgp_sig_start
               b == a \o Signed(o)
    <2>1. Fair(a)
        BY <1>1, <1>2, <1>5, JoinFair
    <2>2. pgp_sign_file(o) = b \o Ok
        BY DEF pgp_sign_file
    <2> HIDE DEF a
    <2>3. Fair(b) /\ \A x \in A : Offers(b, x)
        BY <1>6, <1>7, <2>1, JoinFair, JoinOffers
    <2> HIDE DEF b
    <2> QED BY <1>8, <1>10, <2>2, <2>3 DEF Delivers, Offers
<1>11. ASSUME o.name = "sign_buf" PROVE Delivers(pgp_sign_buf(o), Asked(o))
    <2> DEFINE a == Try("hash algorithm") \o Try("memory") \o pgp_sig_start \o pgp_setup_memory_write
               b == a \o Signed(o)
    <2>1. Fair(a)
        BY <1>1, <1>2, <1>5, JoinFair
    <2>2. pgp_sign_buf(o) = b \o Ok
        BY DEF pgp_sign_buf
    <2> HIDE DEF a
    <2>3. Fair(b) /\ \A x \in A : Offers(b, x)
        BY <1>6, <1>7, <2>1, JoinFair, JoinOffers
    <2> HIDE DEF b
    <2> QED BY <1>8, <1>11, <2>2, <2>3 DEF Delivers, Offers
<1>12. ASSUME o.name = "sign_detached" PROVE Delivers(pgp_sign_detached(o), Asked(o))
    <2> DEFINE a == Try("hash algorithm") \o open_output_file \o Try("memory") \o pgp_sig_start \o Try("read") \o ArmorIf(o)
                      \o Hash("data")
               b == a \o t
    <2>1. Fair(a)
        BY <1>1, <1>2, <1>3, <1>5, JoinFair
    <2>2. pgp_sign_detached(o) = b \o Ok
        BY DEF pgp_sign_detached, t
    <2>3. Fair(t) /\ Offers(t, "signature")
        BY <1>4 DEF t
    <2> HIDE DEF a
    <2>4. Fair(b) /\ Offers(b, "signature")
        BY <2>1, <2>3, JoinFair, JoinOffers
    <2> HIDE DEF b
    <2> QED BY <1>9, <1>12, <2>2, <2>4 DEF Delivers, Offers
<1>13. ASSUME o.name = "sign_memory_detached" PROVE Delivers(pgp_sign_memory_detached(o), Asked(o))
    <2> DEFINE a == Try("memory") \o pgp_setup_memory_write \o pgp_sig_start \o ArmorIf(o) \o Hash("data")
               s == SigTail(o.key, o.hash)
               c == a \o s \o Close
               b == c \o Try("memory")
    <2>1. Fair(a)
        BY <1>1, <1>2, <1>3, <1>5, JoinFair
    <2>2. pgp_sign_memory_detached(o) = b \o Ok
        BY DEF pgp_sign_memory_detached
    <2>3. Fair(s) /\ Offers(s, "signature")
        BY <1>4
    <2> HIDE DEF a, s
    <2>4. Fair(a \o s) /\ Offers(a \o s, "signature")
        BY <2>1, <2>3, JoinFair, JoinOffers
    <2>5. Fair(c) /\ Offers(c, "signature")
        BY <1>2, <2>4, JoinFair, JoinOffers
    <2> HIDE DEF c
    <2>6. Fair(b) /\ Offers(b, "signature")
        BY <1>1, <2>5, JoinFair, JoinOffers
    <2> HIDE DEF b
    <2> QED BY <1>9, <1>13, <2>2, <2>6 DEF Delivers, Offers
<1> QED BY <1>10, <1>11, <1>12, <1>13


\* The operations that encrypt and export.
LEMMA OthersDeliver ==
    ASSUME NEW o \in Ops
    PROVE  /\ o.name = "encrypt_file" => Delivers(pgp_encrypt_file(o), Asked(o))
           /\ o.name = "encrypt_buf" => Delivers(pgp_encrypt_buf(o), Asked(o))
           /\ o.name = "export_key" => Delivers(pgp_export_key(o), Asked(o))
           /\ o.name = "export_public_key" => Delivers(rnp_export_public_key(o), Asked(o))
           /\ o.name = "key_to_rawpacket" => Delivers(write_key_to_rawpacket(o), Asked(o))
<1>1. \A n : Fair(Try(n))
    BY OnesSteady, SteadyFair
<1>2. Fair(Close) /\ Fair(CloseFd) /\ Fair(Free) /\ Fair(pgp_setup_memory_write) /\ Fair(pgp_setup_file_write)
    BY OneSteady DEF Close, CloseFd, Free, pgp_setup_memory_write, pgp_setup_file_write
<1>3. Fair(ArmorIf(o))
    BY ArmorsFair, NothingFair DEF ArmorIf, If
<1> DEFINE A == {"session key", "cipher"} \cup (IF o.doc.pieces = <<>> THEN {} ELSE {"data"})
           e == pgp_push_enc_se_ip(o.key, o.doc.len)
           d == Data(o.doc)
<1>4. Fair(e) /\ Offers(e, "session key") /\ Offers(e, "cipher")
    BY EncryptOffers DEF Offers
<1>5. Fair(d) /\ (o.doc.pieces # <<>> => Offers(d, "data"))
    <2>1. o.doc.pieces \in Seq(Nat)
        BY OpsAssumption
    <2> QED BY <2>1, DataOffers
<1>6. /\ \A x \in A : x = "session key" \/ x = "cipher" \/ (x = "data" /\ o.doc.pieces # <<>>)
      /\ o.name \in {"encrypt_file", "encrypt_buf"} => Asked(o) = A
    BY DEF Asked
<1> HIDE DEF A, e, d
<1>7. ASSUME NEW a, Fair(a) PROVE Fair(a \o e \o d) /\ \A x \in A : Offers(a \o e \o d, x)
    <2>1. Fair(a \o e) /\ Offers(a \o e, "session key") /\ Offers(a \o e, "cipher")
        BY <1>4, <1>7, JoinFair, JoinOffers
    <2>2. Fair(a \o e \o d) /\ Offers(a \o e \o d, "session key") /\ Offers(a \o e \o d, "cipher")
          /\ (o.doc.pieces # <<>> => Offers(a \o e \o d, "data"))
        BY <1>5, <2>1, JoinFair, JoinOffers
    <2> QED BY <1>6, <2>2
<1>8. ASSUME o.name = "encrypt_file" PROVE Delivers(pgp_encrypt_file(o), Asked(o))
    <2> DEFINE a == Try("read") \o pgp_setup_file_write \o ArmorIf(o)
               c == a \o e \o d
               b == c \o Close \o CloseFd
    <2>1. Fair(a)
        BY <1>1, <1>2, <1>3, JoinFair
    <2>2. pgp_encrypt_file(o) = b \o Ok
        BY DEF pgp_encrypt_file, e, d
    <2> HIDE DEF a
    <2>3. Fair(c) /\ \A x \in A : Offers(c, x)
        BY <1>7, <2>1
    <2> HIDE DEF c
    <2>4. Fair(c \o Close) /\ \A x \in A : Offers(c \o Close, x)
        BY <1>2, <2>3, JoinFair, JoinOffers
    <2>5. Fair(b) /\ \A x \in A : Offers(b, x)
        BY <1>2, <2>4, JoinFair, JoinOffers
    <2> HIDE DEF b
    <2> QED BY <1>6, <1>8, <2>2, <2>5 DEF Delivers, Offers
<1>9. ASSUME o.name = "encrypt_buf" PROVE Delivers(pgp_encrypt_buf(o), Asked(o))
    <2> DEFINE a == pgp_setup_memory_write \o ArmorIf(o)
               c == a \o e \o d
               b == c \o Close
    <2>1. Fair(a)
        BY <1>2, <1>3, JoinFair
    <2>2. pgp_encrypt_buf(o) = b \o Ok
        BY DEF pgp_encrypt_buf, e, d
    <2> HIDE DEF a
    <2>3. Fair(c) /\ \A x \in A : Offers(c, x)
        BY <1>7, <2>1
    <2> HIDE DEF c
    <2>4. Fair(b) /\ \A x \in A : Offers(b, x)
        BY <1>2, <2>3, JoinFair, JoinOffers
    <2> HIDE DEF b
    <2> QED BY <1>6, <1>9, <2>2, <2>4 DEF Delivers, Offers
<1>10. \A v \in BOOLEAN : Offers(Ignored(pgp_write_xfer_key(o.key, v)), "key") /\ Fair(Ignored(pgp_write_xfer_key(o.key, v)))
    BY XferOffers DEF Offers
<1>11. o.name \in {"export_key", "export_public_key"} => Asked(o) = {"key"}
    BY DEF Asked
<1>12. ASSUME o.name = "export_key" PROVE Delivers(pgp_export_key(o), Asked(o))
    <2> DEFINE k == Ignored(pgp_write_xfer_key(o.key, TRUE))
               a == pgp_setup_memory_write \o k
               b == a \o Try("memory") \o Close \o Free
    <2>1. Fair(k) /\ Offers(k, "key")
        BY <1>10
    <2>2. pgp_export_key(o) = b \o Ok
        BY DEF pgp_export_key
    <2> HIDE DEF k
    <2>3. Fair(a) /\ Offers(a, "key")
        BY <1>2, <2>1, JoinFair, JoinOffers
    <2> HIDE DEF a
    <2>4. Fair(a \o Try("memory")) /\ Offers(a \o Try("memory"), "key")
        BY <1>1, <2>3, JoinFair, JoinOffers
    <2>5. Fair(a \o Try("memory") \o Close) /\ Offers(a \o Try("memory") \o Close, "key")
        BY <1>2, <2>4, JoinFair, JoinOffers
    <2>6. Fair(b) /\ Offers(b, "key")
        BY <1>2, <2>5, JoinFair, JoinOffers
    <2> HIDE DEF b
    <2> QED BY <1>11, <1>12, <2>2, <2>6 DEF Delivers, Offers
<1>13. ASSUME o.name = "export_public_key" PROVE Delivers(rnp_export_public_key(o), Asked(o))
    <2> DEFINE k == Ignored(pgp_write_xfer_key(o.key, o.armor))
               a == pgp_setup_memory_write \o k
               b == a \o Try("memory")
    <2>1. Fair(k) /\ Offers(k, "key")
        <3>1. o.armor \in BOOLEAN
            BY OpsAssumption
        <3> QED BY <1>10, <3>1
    <2>2. rnp_export_public_key(o) = b \o Ok
        BY DEF rnp_export_public_key
    <2> HIDE DEF k
    <2>3. Fair(a) /\ Offers(a, "key")
        BY <1>2, <2>1, JoinFair, JoinOffers
    <2> HIDE DEF a
    <2>4. Fair(b) /\ Offers(b, "key")
        BY <1>1, <2>3, JoinFair, JoinOffers
    <2> HIDE DEF b
    <2> QED BY <1>11, <1>13, <2>2, <2>4 DEF Delivers, Offers
<1>14. ASSUME o.name = "key_to_rawpacket" PROVE Delivers(write_key_to_rawpacket(o), Asked(o))
    <2> DEFINE b == pgp_setup_memory_write \o pgp_write_struct_seckey(o.key)
    <2>1. write_key_to_rawpacket(o) = b \o Ok
        BY DEF write_key_to_rawpacket
    <2>2. Fair(b) /\ Offers(b, "secret key")
        BY <1>2, SeckeyOffers, JoinFair, JoinOffers DEF Offers
    <2>3. Asked(o) = {"secret key"}
        BY <1>14 DEF Asked
    <2> HIDE DEF b
    <2> QED BY <2>1, <2>2, <2>3 DEF Delivers, Offers
<1> QED BY <1>8, <1>9, <1>12, <1>13, <1>14

\* The operations that generate keys.
LEMMA GeneratesDeliver ==
    ASSUME NEW o \in Ops
    PROVE  /\ o.name = "generate_primary" => Delivers(pgp_generate_primary_key(o), Asked(o))
           /\ o.name = "generate_subkey" => Delivers(pgp_generate_subkey(o), Asked(o))
<1>1. \A n : Fair(Try(n))
    BY OnesSteady, SteadyFair
<1>2. Fair(Close) /\ Fair(Free) /\ Fair(pgp_setup_memory_write)
    BY OneSteady DEF Close, Free, pgp_setup_memory_write
<1>3. ASSUME NEW w PROVE Fair(load_generated_key(w)) /\ Offers(load_generated_key(w), w)
    <2> DEFINE a == Try("memory") \o Close \o Free \o Try("load")
    <2>1. Fair(a)
        BY <1>1, <1>2, JoinFair
    <2>2. w \in Gives(Step("loaded", 0, w))
        BY StepIs DEF Gives
    <2>3. Fair(One("loaded", 0, w)) /\ Offers(One("loaded", 0, w), w)
        BY <2>2, OneOffers, OneSteady
    <2> HIDE DEF a
    <2>4. Fair(a \o One("loaded", 0, w)) /\ Offers(a \o One("loaded", 0, w), w)
        BY <2>1, <2>3, JoinFair, JoinOffers
    <2> QED BY <2>4 DEF load_generated_key, a
<1> DEFINE m == pgp_setup_memory_write
           pub == pgp_write_struct_pubkey(o.key)
           sec == pgp_write_struct_seckey(o.key)
           uid == pgp_write_struct_userid(9)
           cert == pgp_write_selfsig_cert(o.key, o.hash)
           bind == pgp_write_selfsig_binding(o.key, o.hash)
           l1 == load_generated_key("public")
           l2 == load_generated_key("both")
<1>4. /\ Fair(m) /\ Fair(pub) /\ Fair(sec) /\ Fair(uid) /\ Fair(cert) /\ Fair(bind) /\ Fair(l1) /\ Fair(l2)
      /\ Offers(pub, "public key") /\ Offers(sec, "secret key") /\ Offers(uid, "user id")
      /\ Offers(cert, "signature") /\ Offers(bind, "signature") /\ Offers(l1, "public") /\ Offers(l2, "both")
    BY <1>2, <1>3, PacketsOffer, SeckeyOffers, SelfsigsOffer DEF Offers
<1> HIDE DEF m, pub, sec, uid, cert, bind, l1, l2
<1>5. ASSUME o.name = "generate_primary" PROVE Delivers(pgp_generate_primary_key(o), Asked(o))
    <2> DEFINE a == Try("parameters") \o Try("generate") \o m
               b == a \o pub \o uid \o cert \o l1
               c == b \o m \o sec \o uid \o cert \o l2
    <2>1. Fair(a)
        BY <1>1, <1>4, JoinFair
    <2>2. pgp_generate_primary_key(o) = c \o Ok
        BY DEF pgp_generate_primary_key, m, pub, sec, uid, cert, l1, l2
    <2> HIDE DEF a
    <2>3. Fair(a \o pub) /\ Offers(a \o pub, "public key")
        BY <1>4, <2>1, JoinFair, JoinOffers
    <2>4. Fair(a \o pub \o uid) /\ Offers(a \o pub \o uid, "public key") /\ Offers(a \o pub \o uid, "user id")
        BY <1>4, <2>3, JoinFair, JoinOffers
    <2>5. \A x \in {"public key", "user id", "signature"} :
              Fair(a \o pub \o uid \o cert) /\ Offers(a \o pub \o uid \o cert, x)
        BY <1>4, <2>4, JoinFair, JoinOffers
    <2>6. Fair(b) /\ \A x \in {"public key", "user id", "signature", "public"} : Offers(b, x)
        BY <1>4, <2>5, JoinFair, JoinOffers
    <2> HIDE DEF b
    <2>7. Fair(b \o m) /\ \A x \in {"public key", "user id", "signature", "public"} : Offers(b \o m, x)
        BY <1>4, <2>6, JoinFair, JoinOffers
    <2>8. /\ Fair(b \o m \o sec)
          /\ \A x \in {"public key", "user id", "signature", "public", "secret key"} : Offers(b \o m \o sec, x)
        BY <1>4, <2>7, JoinFair, JoinOffers
    <2>9. /\ Fair(b \o m \o sec \o uid)
          /\ \A x \in {"public key", "user id", "signature", "public", "secret key"} : Offers(b \o m \o sec \o uid, x)
        BY <1>4, <2>8, JoinFair, JoinOffers
    <2>10. /\ Fair(b \o m \o sec \o uid \o cert)
           /\ \A x \in {"public key", "user id", "signature", "public", "secret key"} : Offers(b \o m \o sec \o uid \o cert, x)
        BY <1>4, <2>9, JoinFair, JoinOffers
    <2>11. Fair(c) /\ \A x \in {"public key", "user id", "signature", "public", "secret key", "both"} : Offers(c, x)
        BY <1>4, <2>10, JoinFair, JoinOffers
    <2>12. Asked(o) = {"public key", "secret key", "user id", "signature", "public", "both"}
        BY <1>5 DEF Asked
    <2> HIDE DEF c
    <2> QED BY <2>2, <2>11, <2>12 DEF Delivers, Offers
<1>6. ASSUME o.name = "generate_subkey" PROVE Delivers(pgp_generate_subkey(o), Asked(o))
    <2> DEFINE a == Try("parameters") \o Try("unlock") \o Try("generate") \o m
               b == a \o pub \o bind \o l1
               c == b \o m \o sec \o bind \o l2
    <2>1. Fair(a)
        BY <1>1, <1>4, JoinFair
    <2>2. pgp_generate_subkey(o) = c \o Ok
        BY DEF pgp_generate_subkey, m, pub, sec, bind, l1, l2
    <2> HIDE DEF a
    <2>3. Fair(a \o pub) /\ Offers(a \o pub, "public key")
        BY <1>4, <2>1, JoinFair, JoinOffers
    <2>4. Fair(a \o pub \o bind) /\ Offers(a \o pub \o bind, "public key") /\ Offers(a \o pub \o bind, "signature")
        BY <1>4, <2>3, JoinFair, JoinOffers
    <2>5. Fair(b) /\ \A x \in {"public key", "signature", "public"} : Offers(b, x)
        BY <1>4, <2>4, JoinFair, JoinOffers
    <2> HIDE DEF b
    <2>6. Fair(b \o m) /\ \A x \in {"public key", "signature", "public"} : Offers(b \o m, x)
        BY <1>4, <2>5, JoinFair, JoinOffers
    <2>7. Fair(b \o m \o sec) /\ \A x \in {"public key", "signature", "public", "secret key"} : Offers(b \o m \o sec, x)
        BY <1>4, <2>6, JoinFair, JoinOffers
    <2>8. /\ Fair(b \o m \o sec \o bind)
          /\ \A x \in {"public key", "signature", "public", "secret key"} : Offers(b \o m \o sec \o bind, x)
        BY <1>4, <2>7, JoinFair, JoinOffers
    <2>9. Fair(c) /\ \A x \in {"public key", "signature", "public", "secret key", "both"} : Offers(c, x)
        BY <1>4, <2>8, JoinFair, JoinOffers
    <2>10. Asked(o) = {"public key", "secret key", "signature", "public", "both"}
        BY <1>6 DEF Asked
    <2> HIDE DEF c
    <2> QED BY <2>2, <2>9, <2>10 DEF Delivers, Offers
<1> QED BY <1>5, <1>6

\* Every operation delivers what it is asked for.
LEMMA ProgramDelivers == ASSUME NEW o \in Ops PROVE Delivers(Program(o), Asked(o))
<1>1. o.name \in OpNames
    BY OpsAssumption
<1> QED BY <1>1, SignsDeliver, OthersDeliver, GeneratesDeliver DEF Program, OpNames

-----------------------------------------------------------------------------
(* A run: the steps of a program, each with a label of what it may rely on. *)

\* Writers that are pushed for the secret numbers of a key; they have no finaliser.
InnerWriters == {"crypt", "hash", "sum16"}

\* Operations that write to a file.
IsFile(o) == o.name \in {"sign_file", "sign_detached", "encrypt_file"}

\* Operations that sign nothing.
Encrypts(o) == o.name \in {"encrypt_file", "encrypt_buf"}

\* How far the output is: not opened, open, closed, its memory freed; the operation has ended.
Phases == {"before", "up", "closed", "freed", "over"}

\* Where an operation that succeeds leaves its output.
Final(o) ==
    IF o.name \in {"sign_memory_detached", "encrypt_file", "encrypt_buf"} THEN "closed"
    ELSE IF o.name \in {"export_key", "generate_primary", "generate_subkey"} THEN "freed" ELSE "up"

\* What a signature is computed over before its own fields: the checker's list.
Items(o) ==
    CASE o.name = "generate_primary" -> pgp_check_useridcert_sig
      [] o.name = "generate_subkey" -> pgp_check_subkey_sig
      [] o.clear -> <<"text">>
      [] OTHER -> <<"data">>

\* d: inner writers on top; ph: the phase; h: things hashed; m: bytes of the signature, 5
\* from the mark of the hashed fields on, 6 behind their length, 7 once they are complete;
\* top: the dash escaping writer; f: whether a step that is bound to fail may still come.
Labels == [d : Nat, ph : Phases, h : Nat, m : 0 .. 7, top : {"dash", "any"}, f : {"may", "must", "dead"}]

\* What a step does to each part of the label.
MoveD(d, s) == IF s.op = "push" /\ s.what \in InnerWriters THEN d + 1 ELSE IF s.op = "pop" /\ d > 0 THEN d - 1 ELSE d
MovePh(ph, s) ==
    CASE s.op \in {"open", "memory"} -> "up" [] s.op = "close" -> "closed" [] s.op = "free" -> "freed"
      [] s.op = "ok" -> "over" [] OTHER -> ph
MoveH(h, top, s) ==
    CASE s.op = "signew" -> 0 [] s.op = "hash" -> h + 1 [] s.op = "data" /\ top = "dash" -> h + 1 [] OTHER -> h
MoveM(m, s) ==
    CASE s.op = "signew" -> 0 [] s.op = "sig" -> (IF m < 4 \/ m = 5 THEN m + 1 ELSE m) [] s.op = "hashoff" -> 5
      [] s.op = "hashlen" -> 7 [] OTHER -> m
MoveTop(top, s) ==
    CASE s.op = "push" -> (IF s.what = "dash" THEN "dash" ELSE "any")
      [] s.op \in {"pop", "open", "memory", "close"} -> "any" [] OTHER -> top
MoveF(f, s) == IF s.op = "loaded" /\ f = "may" THEN "must" ELSE f
Move(a, s) ==
    [d |-> MoveD(a.d, s), ph |-> MovePh(a.ph, s), h |-> MoveH(a.h, a.top, s), m |-> MoveM(a.m, s),
     top |-> MoveTop(a.top, s), f |-> MoveF(a.f, s)]

\* Steps that touch neither the writers nor the signature.
QuietOps == {"write", "tag", "length", "siglength", "sigbody", "packet", "sigmem", "try", "fail"}
AllOps == QuietOps \cup {"push", "pop", "data", "finalise", "open", "memory", "close", "closefd", "free",
                         "loaded", "ok", "signew", "sig", "hashoff", "hashlen", "unhashed", "hash"}

\* Where a step may stand: what it writes to is open, and the writers on top are those it
\* pops when it fails.
AllowedPlace(o, a, s) ==
    /\ s.op # "pop" => s.pops = a.d
    /\ s.op \in {"push", "pop", "data", "finalise", "close"} => a.ph = "up"
    /\ s.op \in {"data", "finalise", "open", "memory", "close", "closefd", "free", "loaded", "ok"} => a.d = 0
    /\ s.op = "push" /\ s.what \notin InnerWriters => a.d = 0
    /\ s.op = "push" /\ s.what \in {"base64", "stream"} /\ o.name = "sign_buf" => o.armor \/ o.clear
    /\ s.op = "open" => a.ph = "before" /\ IsFile(o)
    /\ s.op = "memory" => a.ph \in {"before", "freed"} /\ ~IsFile(o)
    /\ s.op = "closefd" => a.ph = "closed" /\ o.name = "encrypt_file"
    /\ s.op = "free" => a.ph = "closed" /\ ~IsFile(o)
    /\ s.op = "loaded" => a.ph = "freed"
    /\ s.op = "ok" => a.ph = Final(o)
    /\ s.op = "fail" /\ o.name = "generate_subkey" => a.f # "must"

\* The order in which a signature is put together and hashed.
AllowedSig(o, a, s) ==
    /\ s.op = "sig" => s.n \in Nat /\ (a.m < 4 => s.n = 1) /\ (a.m = 5 => s.n >= 2) /\ a.m # 4
    /\ s.op = "hashoff" => a.m = 4
    /\ s.op = "hashlen" => a.m = 6
    /\ s.op = "unhashed" => a.m = 7
    /\ s.op = "hash" => \/ a.h < Len(Items(o)) /\ s.what = Items(o)[a.h + 1] /\ s.what \notin {"fields", "trailer"}
                        \/ a.h = Len(Items(o)) /\ s.what = "fields" /\ a.m = 7
                        \/ a.h = Len(Items(o)) + 1 /\ s.what = "trailer" /\ a.m = 7
    /\ s.op \in {"hash", "signew", "sig", "hashoff", "hashlen", "unhashed"} => ~Encrypts(o)
    /\ s.op = "data" => Encrypts(o) \/ (a.top = "dash" /\ a.h = 0 /\ Items(o) = <<"text">>)

\* Only these steps have results that are ignored.
AllowedSkip(s) ==
    s.drop >= 0 => s.op \in {"write", "try", "push", "pop", "sig", "sigmem", "packet", "finalise"} /\ (s.op = "sig" => s.drop = 0)
Allowed(o, a, s) == s.op \in AllOps /\ AllowedPlace(o, a, s) /\ AllowedSig(o, a, s) /\ AllowedSkip(s)

\* Each step is allowed at its label and leads to the next one; a failure that is ignored
\* leads to a step with the same label.
Labelled(o, p, lab) ==
    \A i \in 1 .. Len(p) :
        /\ Allowed(o, lab[i], p[i])
        /\ p[i].op # "fail" => lab[i + 1] = Move(lab[i], p[i])
        /\ p[i].drop >= 0 => i + p[i].drop <= Len(p) /\ (p[i].op # "sig" => lab[i + p[i].drop + 1] = lab[i])

\* The program p of the operation o runs from label a to label b.
Runs(o, p, a, b) ==
    /\ IsProgram(p)
    /\ \E lab \in [1 .. Len(p) + 1 -> Labels] : lab[1] = a /\ lab[Len(p) + 1] = b /\ Labelled(o, p, lab)

\* Runs are put together.
LEMMA RunsJoin == ASSUME NEW o, NEW p, NEW q, NEW a, NEW b, NEW c, Runs(o, p, a, b), Runs(o, q, b, c)
    PROVE Runs(o, p \o q, a, c)
<1> DEFINE r == p \o q
<1>1. IsProgram(p) /\ IsProgram(q)
    BY DEF Runs
<1>2. /\ IsProgram(r) /\ Len(r) = Len(p) + Len(q) /\ Len(p) \in Nat /\ Len(q) \in Nat
      /\ \A i \in 1 .. Len(p) + Len(q) : r[i] = IF i <= Len(p) THEN p[i] ELSE q[i - Len(p)]
    BY <1>1, JoinIs
<1>b. \A i \in 1 .. Len(r) : r[i].drop \in Int
    BY <1>2, ProgramIs DEF IsProgram, IsStep
<1> HIDE DEF r
<1>3. PICK lp \in [1 .. Len(p) + 1 -> Labels] : lp[1] = a /\ lp[Len(p) + 1] = b /\ Labelled(o, p, lp)
    BY DEF Runs
<1>4. PICK lq \in [1 .. Len(q) + 1 -> Labels] : lq[1] = b /\ lq[Len(q) + 1] = c /\ Labelled(o, q, lq)
    BY DEF Runs
<1> DEFINE lr == [i \in 1 .. Len(r) + 1 |-> IF i <= Len(p) THEN lp[i] ELSE lq[i - Len(p)]]
<1>5. lr \in [1 .. Len(r) + 1 -> Labels]
    BY <1>2
<1>6. /\ \A i \in 1 .. Len(p) + 1 : lr[i] = lp[i]
      /\ \A i \in 1 .. Len(q) + 1 : lr[i + Len(p)] = lq[i]
    BY <1>2, <1>3, <1>4
<1>7. lr[1] = a /\ lr[Len(r) + 1] = c
    BY <1>2, <1>3, <1>4, <1>6
<1> HIDE DEF lr
<1>8. ASSUME NEW i \in 1 .. Len(r)
      PROVE  /\ Allowed(o, lr[i], r[i])
             /\ r[i].op # "fail" => lr[i + 1] = Move(lr[i], r[i])
             /\ r[i].drop >= 0 => i + r[i].drop <= Len(r) /\ (r[i].op # "sig" => lr[i + r[i].drop + 1] = lr[i])
    <2>1. CASE i <= Len(p)
        <3>1. r[i] = p[i] /\ lr[i] = lp[i] /\ lr[i + 1] = lp[i + 1] /\ i \in 1 .. Len(p)
            BY <1>2, <1>6, <2>1, SMTT(30)
        <3>2. /\ Allowed(o, lp[i], p[i]) /\ (p[i].op # "fail" => lp[i + 1] = Move(lp[i], p[i]))
              /\ p[i].drop >= 0 => i + p[i].drop <= Len(p) /\ (p[i].op # "sig" => lp[i + p[i].drop + 1] = lp[i])
            BY <1>3, <3>1, Zenon DEF Labelled
        <3>3. p[i].drop >= 0 => i + p[i].drop <= Len(r) /\ lr[i + p[i].drop + 1] = lp[i + p[i].drop + 1]
            BY <1>2, <1>6, <1>b, <3>1, <3>2, SMTT(30)
        <3> QED BY <3>1, <3>2, <3>3, Zenon
    <2>2. CASE ~(i <= Len(p))
        <3> DEFINE j == i - Len(p)
        <3>1. r[i] = q[j] /\ j \in 1 .. Len(q) /\ i = j + Len(p)
            BY <1>2, <2>2
        <3>a. lr[i] = lq[j] /\ lr[i + 1] = lq[j + 1]
            <4>1. j \in 1 .. Len(q) + 1 /\ j + 1 \in 1 .. Len(q) + 1 /\ (j + 1) + Len(p) = i + 1
                BY <1>2, <3>1
            <4> HIDE DEF j
            <4>2. lr[j + Len(p)] = lq[j] /\ lr[(j + 1) + Len(p)] = lq[j + 1]
                BY <1>6, <4>1, Zenon
            <4> QED BY <3>1, <4>1, <4>2
        <3>2. /\ Allowed(o, lq[j], q[j]) /\ (q[j].op # "fail" => lq[j + 1] = Move(lq[j], q[j]))
              /\ q[j].drop >= 0 => j + q[j].drop <= Len(q) /\ (q[j].op # "sig" => lq[j + q[j].drop + 1] = lq[j])
            BY <1>4, <3>1, Zenon DEF Labelled
        <3>3. q[j].drop >= 0 => i + q[j].drop <= Len(r) /\ lr[i + q[j].drop + 1] = lq[j + q[j].drop + 1]
            <4> SUFFICES ASSUME q[j].drop >= 0 PROVE i + q[j].drop <= Len(r)
                  /\ lr[i + q[j].drop + 1] = lq[j + q[j].drop + 1]
                OBVIOUS
            <4>1. q[j].drop \in Int /\ j + q[j].drop <= Len(q)
                BY <1>b, <3>1, <3>2
            <4> DEFINE e == j + q[j].drop + 1
            <4>2. e \in 1 .. Len(q) + 1 /\ i + q[j].drop + 1 = e + Len(p) /\ i + q[j].drop <= Len(r)
                BY <1>2, <3>1, <4>1, SMTT(30)
            <4>3. lr[e + Len(p)] = lq[e]
                BY <1>6, <4>2, Zenon
            <4> QED BY <4>2, <4>3
        <3> HIDE DEF j
        <3> QED BY <3>1, <3>a, <3>2, <3>3, Zenon
    <2> QED BY <2>1, <2>2
<1>9. Labelled(o, r, lr)
    BY <1>8, Zenon DEF Labelled
<1>10. Runs(o, r, a, c)
    BY <1>2, <1>5, <1>7, <1>9, Zenon DEF Runs
<1> QED BY <1>10 DEF r

\* A step leads from label to label.
LEMMA MoveIn == ASSUME NEW a \in Labels, NEW s PROVE Move(a, s) \in Labels
<1>1. a.d \in Nat /\ a.ph \in Phases /\ a.h \in Nat /\ a.m \in 0 .. 7 /\ a.top \in {"dash", "any"} /\ a.f \in {"may",
      "must", "dead"}
    BY DEF Labels
<1>2. MoveD(a.d, s) \in Nat
    BY <1>1 DEF MoveD
<1>3. MovePh(a.ph, s) \in Phases
    BY <1>1 DEF MovePh, Phases
<1>4. MoveH(a.h, a.top, s) \in Nat
    BY <1>1 DEF MoveH
<1>5. MoveM(a.m, s) \in 0 .. 7
    BY <1>1 DEF MoveM
<1>6. MoveTop(a.top, s) \in {"dash", "any"}
    BY <1>1 DEF MoveTop
<1>7. MoveF(a.f, s) \in {"may", "must", "dead"}
    BY <1>1 DEF MoveF
<1> QED BY <1>2, <1>3, <1>4, <1>5, <1>6, <1>7 DEF Move, Labels

\* A single step is a run.
LEMMA RunsOne == ASSUME NEW o, NEW a \in Labels, NEW x, NEW n, NEW w, Allowed(o, a, Step(x, n, w))
    PROVE Runs(o, One(x, n, w), a, Move(a, Step(x, n, w)))
<1> DEFINE p == One(x, n, w)
           s == Step(x, n, w)
           lab == [i \in 1 .. 2 |-> IF i = 1 THEN a ELSE Move(a, s)]
<1>1. IsProgram(p) /\ Len(p) = 1 /\ p[1] = s
    BY OneIs, Zenon
<1>2. s.drop = -1
    BY DEF Step
<1>3. Move(a, s) \in Labels
    BY MoveIn, Zenon
<1> HIDE DEF p, s
<1>4. lab \in [1 .. Len(p) + 1 -> Labels] /\ lab[1] = a /\ lab[1 + 1] = Move(a, s) /\ lab[Len(p) + 1] = Move(a, s)
    BY <1>1, <1>3
<1> HIDE DEF lab
<1>5. Labelled(o, p, lab)
    <2> SUFFICES ASSUME NEW i \in 1 .. Len(p)
                 PROVE  /\ Allowed(o, lab[i], p[i])
                        /\ p[i].op # "fail" => lab[i + 1] = Move(lab[i], p[i])
                        /\ p[i].drop >= 0 => i + p[i].drop <= Len(p)
                             /\ (p[i].op # "sig" => lab[i + p[i].drop + 1] = lab[i])
        BY Zenon DEF Labelled
    <2>1. i = 1
        BY <1>1
    <2>2. ~(p[i].drop >= 0)
        BY <1>1, <1>2, <2>1
    <2>3. Allowed(o, lab[i], p[i]) /\ lab[i + 1] = Move(lab[i], p[i])
        BY <1>1, <1>4, <2>1, Zenon DEF s
    <2> QED BY <2>2, <2>3, Zenon
<1>6. Runs(o, p, a, Move(a, s))
    BY <1>1, <1>4, <1>5, Zenon DEF Runs
<1> QED BY <1>6 DEF p, s

\* After a step that cannot succeed nothing is known.
LEMMA RunsFail ==
    ASSUME NEW o, NEW a \in Labels, NEW b \in Labels, a.d = 0, o.name = "generate_subkey" => a.f # "must"
    PROVE  Runs(o, Fail, a, b)
<1> DEFINE s == Step("fail", 0, "unsupported")
           lab == [i \in 1 .. 2 |-> IF i = 1 THEN a ELSE b]
<1>1. IsProgram(Fail) /\ Len(Fail) = 1 /\ Fail[1] = s
    BY OneIs, Zenon DEF Fail
<1>2. s.drop = -1 /\ s.op = "fail" /\ s.pops = 0
    BY DEF Step
<1> HIDE DEF s
<1>3. Allowed(o, a, s)
    BY <1>2 DEF Allowed, AllowedPlace, AllowedSig, AllowedSkip, AllOps, QuietOps
<1>4. lab \in [1 .. Len(Fail) + 1 -> Labels] /\ lab[1] = a /\ lab[Len(Fail) + 1] = b
    BY <1>1
<1> HIDE DEF lab
<1>5. Labelled(o, Fail, lab)
    <2> SUFFICES ASSUME NEW i \in 1 .. Len(Fail)
                 PROVE  /\ Allowed(o, lab[i], Fail[i])
                        /\ Fail[i].op # "fail" => lab[i + 1] = Move(lab[i], Fail[i])
                        /\ Fail[i].drop >= 0 => i + Fail[i].drop <= Len(Fail)
                             /\ (Fail[i].op # "sig" => lab[i + Fail[i].drop + 1] = lab[i])
        BY Zenon DEF Labelled
    <2>1. i = 1
        BY <1>1
    <2>2. ~(Fail[i].drop >= 0) /\ Fail[i].op = "fail"
        BY <1>1, <1>2, <2>1
    <2>3. Allowed(o, lab[i], Fail[i])
        BY <1>1, <1>3, <1>4, <2>1, Zenon
    <2> QED BY <2>2, <2>3, Zenon
<1> QED BY <1>1, <1>4, <1>5, Zenon DEF Runs

\* What is left of a run is one.
LEMMA RunsFrom ==
    ASSUME NEW o, NEW p, IsProgram(p), NEW lab \in [1 .. Len(p) + 1 -> Labels], Labelled(o, p, lab),
          NEW m \in 1 .. Len(p) + 1
    PROVE  Runs(o, SubSeq(p, m, Len(p)), lab[m], lab[Len(p) + 1])
<1> DEFINE r == SubSeq(p, m, Len(p))
           k == Len(p) - m + 1
           lr == [i \in 1 .. k + 1 |-> lab[m + i - 1]]
<1>1. Len(p) \in Nat /\ DOMAIN p = 1 .. Len(p) /\ m \in Nat \ {0} /\ k \in Nat
    BY ProgramIs
<1>2. IsProgram(r) /\ Len(r) = k /\ \A i \in 1 .. k : r[i] = p[m + i - 1]
    <2>1. /\ IsProgram(r) /\ Len(r) = IF m <= Len(p) THEN Len(p) - m + 1 ELSE 0
          /\ \A i \in 1 .. Len(r) : r[i] = p[m + i - 1]
        BY <1>1, RestIs, Zenon
    <2> HIDE DEF r
    <2>2. Len(r) = k
        BY <1>1, <2>1
    <2> QED BY <2>1, <2>2, Zenon
<1>b. \A i \in 1 .. k : r[i].drop \in Int
    BY <1>2, ProgramIs DEF IsProgram, IsStep
<1>3. lr \in [1 .. Len(r) + 1 -> Labels]
    BY <1>1, <1>2
<1>4. \A i \in 1 .. k + 1 : lr[i] = lab[m + i - 1]
    OBVIOUS
<1>5. lr[1] = lab[m] /\ lr[Len(r) + 1] = lab[Len(p) + 1]
    BY <1>1, <1>2, <1>4
<1> HIDE DEF lr, r
<1>6. Labelled(o, r, lr)
    <2> SUFFICES ASSUME NEW i \in 1 .. k
                 PROVE  /\ Allowed(o, lr[i], r[i])
                        /\ r[i].op # "fail" => lr[i + 1] = Move(lr[i], r[i])
                        /\ r[i].drop >= 0 => i + r[i].drop <= k /\ (r[i].op # "sig" => lr[i + r[i].drop + 1] = lr[i])
        BY <1>2, Zenon DEF Labelled
    <2> DEFINE j == m + i - 1
    <2>1. j \in 1 .. Len(p) /\ r[i] = p[j] /\ lr[i] = lab[j] /\ lr[i + 1] = lab[j + 1]
        <3>1. i \in 1 .. k + 1 /\ i + 1 \in 1 .. k + 1 /\ m + (i + 1) - 1 = j + 1 /\ j \in 1 .. Len(p)
            BY <1>1
        <3>2. lr[i + 1] = lab[m + (i + 1) - 1] /\ lr[i] = lab[j] /\ r[i] = p[j]
            BY <1>2, <1>4, <3>1, Zenon
        <3> QED BY <3>1, <3>2
    <2>2. /\ Allowed(o, lab[j], p[j]) /\ (p[j].op # "fail" => lab[j + 1] = Move(lab[j], p[j]))
          /\ p[j].drop >= 0 => j + p[j].drop <= Len(p) /\ (p[j].op # "sig" => lab[j + p[j].drop + 1] = lab[j])
        BY <2>1, Zenon DEF Labelled
    <2>3. p[j].drop >= 0 => i + p[j].drop <= k /\ lr[i + p[j].drop + 1] = lab[j + p[j].drop + 1]
        <3> SUFFICES ASSUME p[j].drop >= 0 PROVE i + p[j].drop <= k /\ lr[i + p[j].drop + 1] = lab[j + p[j].drop + 1]
            OBVIOUS
        <3>1. p[j].drop \in Int /\ j + p[j].drop <= Len(p)
            BY <1>b, <2>1, <2>2
        <3> DEFINE e == i + p[j].drop + 1
        <3>2. e \in 1 .. k + 1 /\ m + e - 1 = j + p[j].drop + 1 /\ i + p[j].drop <= k
            <4>1. PICK x \in Int : x = p[j].drop
                BY <3>1
            <4>2. x >= 0 /\ m + i - 1 + x <= Len(p)
                BY <3>1, <4>1
            <4>3. i + x + 1 \in 1 .. k + 1 /\ m + (i + x + 1) - 1 = (m + i - 1) + x + 1 /\ i + x <= k
                BY <1>1, <4>2
            <4> QED BY <4>1, <4>3
        <3>3. lr[e] = lab[m + e - 1]
            BY <1>4, <3>2, Zenon
        <3> QED BY <3>2, <3>3
    <2> HIDE DEF j
    <2> QED BY <2>1, <2>2, <2>3, Zenon
<1>7. Runs(o, r, lab[m], lab[Len(p) + 1])
    BY <1>2, <1>3, <1>5, <1>6, Zenon DEF Runs
<1> QED BY <1>7 DEF r

\* What a program that is left says of its first step, and of what follows.
LEMMA RunsRest ==
    ASSUME NEW o, NEW p, NEW a, NEW e, Runs(o, p, a, e), p # <<>>
    PROVE  /\ a \in Labels /\ Allowed(o, a, p[1])
           /\ p[1].op # "fail" => Runs(o, Tail(p), Move(a, p[1]), e)
           /\ p[1].drop >= 0 => Runs(o, SubSeq(p, p[1].drop + 2, Len(p)), IF p[1].op = "sig" THEN Move(a,
                p[1]) ELSE a, e)
<1>1. IsProgram(p)
    BY DEF Runs
<1>2. PICK lab \in [1 .. Len(p) + 1 -> Labels] : lab[1] = a /\ lab[Len(p) + 1] = e /\ Labelled(o, p, lab)
    BY DEF Runs
<1>3. 1 \in DOMAIN p /\ Tail(p) = SubSeq(p, 2, Len(p)) /\ IsStep(p[1]) /\ Len(p) \in Nat /\ DOMAIN p = 1 .. Len(p)
    BY <1>1, TailIs, ProgramIs
<1>4. a \in Labels /\ 1 \in 1 .. Len(p) /\ 2 \in 1 .. Len(p) + 1 /\ p[1].drop \in Int /\ 1 + 1 = 2
    BY <1>2, <1>3 DEF IsStep
<1>5. /\ Allowed(o, a, p[1]) /\ (p[1].op # "fail" => lab[1 + 1] = Move(a, p[1]))
      /\ p[1].drop >= 0 => 1 + p[1].drop <= Len(p) /\ (p[1].op # "sig" => lab[1 + p[1].drop + 1] = a)
    BY <1>2, <1>4, Zenon DEF Labelled
<1>6. p[1].op # "fail" => Runs(o, Tail(p), Move(a, p[1]), e)
    BY <1>1, <1>2, <1>3, <1>4, <1>5, RunsFrom
<1>7. ASSUME p[1].drop >= 0
      PROVE  Runs(o, SubSeq(p, p[1].drop + 2, Len(p)), IF p[1].op = "sig" THEN Move(a, p[1]) ELSE a, e)
    <2> DEFINE m == p[1].drop + 2
    <2>1. m \in 1 .. Len(p) + 1 /\ m = 1 + p[1].drop + 1
        BY <1>4, <1>5, <1>7
    <2>2. lab[m] = IF p[1].op = "sig" THEN Move(a, p[1]) ELSE a
        <3>1. CASE p[1].op = "sig"
            <4>1. p[1].drop = 0
                BY <1>5, <1>7, <3>1 DEF Allowed, AllowedSkip
            <4>2. p[1].op # "fail"
                BY <3>1
            <4> QED BY <1>4, <1>5, <2>1, <3>1, <4>1, <4>2
        <3>2. CASE p[1].op # "sig"
            BY <1>5, <1>7, <2>1, <3>2
        <3> QED BY <3>1, <3>2
    <2>3. Runs(o, SubSeq(p, m, Len(p)), lab[m], lab[Len(p) + 1])
        BY <1>1, <1>2, <2>1, RunsFrom, Zenon
    <2> QED BY <1>2, <2>2, <2>3
<1> QED BY <1>4, <1>5, <1>6, <1>7

-----------------------------------------------------------------------------
(* Programs that leave the label as it is. *)

\* Writers that stay until the output is closed.
OuterWriters == {"linebreak", "base64", "stream", "se_ip"}

\* Steps with results that are ignored.
Skipped == {"write", "try", "sig", "sigmem", "packet", "push", "pop", "finalise"}

\* Steps of the kinds O under d more writers; all of their failures count.
Plain(s, O, d) ==
    s.op \in O /\ s.pops = d /\ (s.op = "sig" => s.n \in Nat) /\ (s.op = "push" => s.what \in OuterWriters)
Strict(p, O, d) == IsProgram(p) /\ \A i \in DOMAIN p : Plain(p[i], O, d) /\ p[i].drop = -1

\* The same, some failures are ignored.
Quiet(p, O, d) ==
    /\ IsProgram(p)
    /\ \A i \in DOMAIN p :
        /\ Plain(p[i], O, d)
        /\ p[i].drop >= 0 => i + p[i].drop <= Len(p) /\ p[i].op \in Skipped /\ (p[i].op = "sig" => p[i].drop = 0)

\* Programs of which all failures count are a special case.
LEMMA StrictQuiet == ASSUME NEW O, NEW d, NEW p, Strict(p, O, d) PROVE Quiet(p, O, d)
<1>1. \A i \in DOMAIN p : ~(p[i].drop >= 0)
    BY DEF Strict
<1> QED BY <1>1 DEF Strict, Quiet

\* A single step.
LEMMA StrictOne ==
    ASSUME NEW O, NEW x \in O, NEW n, NEW w, x = "sig" => n \in Nat, x = "push" => w \in OuterWriters
    PROVE  Strict(One(x, n, w), O, 0)
<1>1. IsProgram(One(x, n, w)) /\ Len(One(x, n, w)) = 1 /\ One(x, n, w)[1] = Step(x, n, w)
    BY OneIs, Zenon
<1>2. DOMAIN One(x, n, w) = {1}
    BY <1>1, ProgramIs
<1>3. Step(x, n, w).op = x /\ Step(x, n, w).pops = 0 /\ Step(x, n, w).drop = -1 /\ Step(x, n, w).n = n /\ Step(x, n,
      w).what = w
    BY DEF Step
<1> QED BY <1>1, <1>2, <1>3 DEF Strict, Plain

\* One program after the other.
LEMMA StrictJoin ==
    ASSUME NEW O, NEW d, NEW p, NEW q, Strict(p, O, d), Strict(q, O, d)
    PROVE  Strict(p \o q, O, d)
<1> DEFINE r == p \o q
<1>1. IsProgram(p) /\ IsProgram(q)
    BY DEF Strict
<1>2. /\ IsProgram(r) /\ Len(p) \in Nat /\ Len(q) \in Nat /\ DOMAIN r = 1 .. Len(p) + Len(q)
      /\ DOMAIN p = 1 .. Len(p) /\ DOMAIN q = 1 .. Len(q)
      /\ \A i \in 1 .. Len(p) + Len(q) : r[i] = IF i <= Len(p) THEN p[i] ELSE q[i - Len(p)]
    BY <1>1, JoinIs
<1> HIDE DEF r
<1>3. ASSUME NEW i \in DOMAIN r PROVE (\E j \in DOMAIN p : r[i] = p[j]) \/ (\E j \in DOMAIN q : r[i] = q[j])
    BY <1>2
<1>4. \A i \in DOMAIN r : Plain(r[i], O, d) /\ r[i].drop = -1
    BY <1>3, Zenon DEF Strict
<1>5. Strict(r, O, d)
    BY <1>2, <1>4, Zenon DEF Strict
<1> QED BY <1>5 DEF r

\* One program after the other.
LEMMA QuietJoin ==
    ASSUME NEW O, NEW d, NEW p, NEW q, Quiet(p, O, d), Quiet(q, O, d)
    PROVE  Quiet(p \o q, O, d)
<1> DEFINE r == p \o q
<1>1. IsProgram(p) /\ IsProgram(q)
    BY DEF Quiet
<1>2. /\ IsProgram(r) /\ Len(p) \in Nat /\ Len(q) \in Nat /\ Len(r) = Len(p) + Len(q)
           /\ DOMAIN r = 1 .. Len(p) + Len(q)
      /\ DOMAIN p = 1 .. Len(p) /\ DOMAIN q = 1 .. Len(q)
      /\ \A i \in 1 .. Len(p) + Len(q) : r[i] = IF i <= Len(p) THEN p[i] ELSE q[i - Len(p)]
    BY <1>1, JoinIs
<1> HIDE DEF r
<1>3. \A i \in DOMAIN r : r[i].drop \in Int
    BY <1>2 DEF IsProgram, IsStep
<1>4. ASSUME NEW i \in DOMAIN r
      PROVE  /\ Plain(r[i], O, d)
             /\ r[i].drop >= 0 => i + r[i].drop <= Len(r) /\ r[i].op \in Skipped /\ (r[i].op = "sig" => r[i].drop = 0)
    <2>1. CASE i <= Len(p)
        <3>1. i \in DOMAIN p /\ r[i] = p[i]
            BY <1>2, <2>1
        <3>2. p[i].drop >= 0 => i + p[i].drop <= Len(p)
            BY <3>1, Zenon DEF Quiet
        <3>3. r[i].drop >= 0 => i + r[i].drop <= Len(r)
            BY <1>2, <1>3, <3>1, <3>2
        <3> QED BY <3>1, <3>3, Zenon DEF Quiet
    <2>2. CASE ~(i <= Len(p))
        <3> DEFINE j == i - Len(p)
        <3>1. j \in DOMAIN q /\ r[i] = q[j] /\ j \in Int /\ i = j + Len(p)
            BY <1>2, <2>2
        <3>2. q[j].drop >= 0 => j + q[j].drop <= Len(q)
            BY <3>1, Zenon DEF Quiet
        <3> HIDE DEF j
        <3>3. r[i].drop >= 0 => i + r[i].drop <= Len(r)
            BY <1>2, <1>3, <3>1, <3>2
        <3> QED BY <3>1, <3>3, Zenon DEF Quiet
    <2> QED BY <2>1, <2>2
<1>5. Quiet(r, O, d)
    BY <1>2, <1>4, Zenon DEF Quiet
<1> QED BY <1>5 DEF r

\* The program without steps.
LEMMA NothingQuiet == ASSUME NEW O, NEW d PROVE Quiet(<<>>, O, d) /\ Strict(<<>>, O, d)
BY DEF Quiet, Strict, IsProgram

\* A loop.
LEMMA StrictTimes ==
    ASSUME NEW O, NEW d, NEW p, NEW c \in Nat, Strict(p, O, d)
    PROVE  Strict(Times(c, p), O, d)
<1> DEFINE m == c * Len(p)
           r == Times(c, p)
<1>1. IsProgram(p) /\ Len(p) \in Nat /\ DOMAIN p = 1 .. Len(p)
    BY ProgramIs DEF Strict
<1>3. m \in Nat /\ (m > 0 => Len(p) > 0)
    BY <1>1
<1>4. ASSUME NEW i \in 1 .. m PROVE ((i - 1) % Len(p)) + 1 \in 1 .. Len(p)
    BY <1>1, <1>3
<1>5. r = [i \in 1 .. m |-> p[((i - 1) % Len(p)) + 1]]
    BY DEF Times
<1> HIDE DEF m, r
<1>6. \A i \in 1 .. m : \E j \in DOMAIN p : r[i] = p[j]
    BY <1>1, <1>4, <1>5
<1>7. \A i \in 1 .. m : IsStep(r[i])
    BY <1>1, <1>6, Zenon DEF IsProgram
<1>8. r = [i \in 1 .. m |-> r[i]]
    BY <1>5
<1>9. IsProgram(r) /\ DOMAIN r = 1 .. m
    BY <1>3, <1>7, <1>8, MappedIs
<1>10. Strict(r, O, d)
    BY <1>6, <1>9, Zenon DEF Strict
<1> QED BY <1>10 DEF r

\* Steps under n writers.
LEMMA StrictUnder == ASSUME NEW O, NEW p, NEW n \in Nat, Strict(p, O, 0) PROVE Strict(Under(n, p), O, n)
<1> DEFINE r == Under(n, p)
<1>1. IsProgram(p)
    BY DEF Strict
<1>2. /\ IsProgram(r) /\ DOMAIN r = DOMAIN p
      /\ \A i \in DOMAIN p : /\ r[i].op = p[i].op /\ r[i].n = p[i].n /\ r[i].what = p[i].what
                             /\ r[i].pops = p[i].pops + n /\ r[i].drop = p[i].drop
    BY <1>1, UnderIs
<1> HIDE DEF r
<1>3. \A i \in DOMAIN p : p[i].pops + n = n
    BY DEF Strict, Plain
<1>4. Strict(r, O, n)
    BY <1>2, <1>3 DEF Strict, Plain
<1> QED BY <1>4 DEF r

\* Results ignored one by one.
LEMMA EachQuiet ==
    ASSUME NEW p, NEW d, NEW O, Strict(p, O, d), O \subseteq Skipped
    PROVE  Quiet(Each(p), O, d)
<1> DEFINE r == Each(p)
<1>1. IsProgram(p)
    BY DEF Strict
<1>2. /\ IsProgram(r) /\ Len(r) = Len(p) /\ DOMAIN r = DOMAIN p
      /\ \A i \in DOMAIN p : r[i].op = p[i].op /\ r[i].n = p[i].n /\ r[i].what = p[i].what /\ r[i].pops = p[i].pops
           /\ r[i].drop = 0
    BY <1>1, EachIs
<1>3. DOMAIN p = 1 .. Len(p) /\ Len(p) \in Nat
    BY <1>1, ProgramIs
<1> HIDE DEF r
<1>4. \A i \in DOMAIN r : i + r[i].drop <= Len(r)
    BY <1>2, <1>3
<1>5. Quiet(r, O, d)
    BY <1>2, <1>4 DEF Quiet, Strict, Plain
<1> QED BY <1>5 DEF r

\* Results ignored all together.
LEMMA IgnoredQuiet ==
    ASSUME NEW p, NEW d, NEW O, Quiet(p, O, d), O \subseteq Skipped \ {"sig"}
    PROVE  Quiet(Ignored(p), O, d)
<1> DEFINE r == Ignored(p)
<1>1. IsProgram(p)
    BY DEF Quiet
<1>2. /\ IsProgram(r) /\ Len(r) = Len(p) /\ DOMAIN r = DOMAIN p
      /\ \A i \in DOMAIN p : /\ r[i].op = p[i].op /\ r[i].n = p[i].n /\ r[i].what = p[i].what /\ r[i].pops = p[i].pops
                             /\ r[i].drop = IF p[i].drop = -1 THEN Len(p) - i ELSE p[i].drop
    BY <1>1, IgnoredIs
<1>3. DOMAIN p = 1 .. Len(p) /\ Len(p) \in Nat
    BY <1>1, ProgramIs
<1>a. \A i \in DOMAIN p : p[i].drop \in Int /\ Plain(p[i], O, d) /\ (p[i].drop >= 0 => i + p[i].drop <= Len(p))
    BY <1>1 DEF Quiet, IsProgram, IsStep
<1> HIDE DEF r
<1>4. \A i \in DOMAIN r : r[i].drop >= 0 => i + r[i].drop <= Len(r)
    <2> SUFFICES ASSUME NEW i \in DOMAIN r, r[i].drop >= 0 PROVE i + r[i].drop <= Len(r)
        OBVIOUS
    <2>1. i \in DOMAIN p /\ i \in Nat /\ p[i].drop \in Int /\ (p[i].drop >= 0 => i + p[i].drop <= Len(p))
        BY <1>2, <1>3, <1>a
    <2>2. r[i].drop = IF p[i].drop = -1 THEN Len(p) - i ELSE p[i].drop
        BY <1>2, <2>1
    <2>3. CASE p[i].drop = -1
        BY <1>2, <1>3, <2>1, <2>2, <2>3
    <2>4. CASE p[i].drop # -1
        BY <1>2, <1>3, <2>1, <2>2, <2>4
    <2> QED BY <2>3, <2>4
<1>5. \A i \in DOMAIN r : Plain(r[i], O, d) /\ r[i].op \in Skipped /\ r[i].op # "sig"
    BY <1>2, <1>a DEF Plain
<1>6. Quiet(r, O, d)
    BY <1>2, <1>4, <1>5, Zenon DEF Quiet
<1> QED BY <1>6 DEF r

\* More kinds of steps.
LEMMA QuietMore == ASSUME NEW p, NEW d, NEW O, NEW P, O \subseteq P
    PROVE (Quiet(p, O, d) => Quiet(p, P, d)) /\ (Strict(p, O, d) => Strict(p, P, d))
<1>1. \A s : Plain(s, O, d) => Plain(s, P, d)
    BY DEF Plain
<1> QED BY <1>1 DEF Quiet, Strict

\* Steps of the kinds O are allowed at the label a and leave it as it is.
Stay(o, a, O) ==
    /\ O \subseteq QuietOps \cup {"sig", "push", "pop", "finalise", "data"}
    /\ "fail" \in O /\ o.name = "generate_subkey" => a.f # "must"
    /\ "sig" \in O => a.m \in {6, 7} /\ ~Encrypts(o)
    /\ O \cap {"push", "pop", "finalise", "data"} # {} => a.ph = "up" /\ a.d = 0 /\ a.top = "any"
    /\ "push" \in O /\ o.name = "sign_buf" => o.armor \/ o.clear
    /\ "data" \in O => Encrypts(o)

\* Such a step is allowed and leaves the label as it is.
LEMMA StayMove == ASSUME NEW o, NEW a \in Labels, NEW O, Stay(o, a, O), NEW s, Plain(s, O, a.d)
    PROVE s.op \in AllOps /\ AllowedPlace(o, a, s) /\ AllowedSig(o, a, s) /\ Move(a, s) = a
<1>1. s.op \in O /\ s.pops = a.d /\ (s.op = "sig" => s.n \in Nat) /\ (s.op = "push" => s.what \in OuterWriters)
    BY DEF Plain
<1>2. s.op \in QuietOps \cup {"sig", "push", "pop", "finalise", "data"}
    BY <1>1 DEF Stay
<1>3. s.op \in {"push", "pop", "finalise", "data"} => a.ph = "up" /\ a.d = 0 /\ a.top = "any"
    BY <1>1 DEF Stay
<1>4. s.op = "sig" => a.m \in {6, 7} /\ ~Encrypts(o)
    BY <1>1 DEF Stay
<1>5. s.op \in AllOps
    BY <1>2 DEF AllOps
<1>6. AllowedPlace(o, a, s)
    BY <1>1, <1>2, <1>3 DEF AllowedPlace, Stay, QuietOps, OuterWriters, InnerWriters
<1>7. AllowedSig(o, a, s)
    BY <1>1, <1>2, <1>4 DEF AllowedSig, Stay, QuietOps
<1>8. MoveD(a.d, s) = a.d /\ MovePh(a.ph, s) = a.ph /\ MoveF(a.f, s) = a.f
    BY <1>1, <1>2, <1>3 DEF MoveD, MovePh, MoveF, QuietOps, OuterWriters, InnerWriters
<1>9. MoveH(a.h, a.top, s) = a.h /\ MoveTop(a.top, s) = a.top
    BY <1>1, <1>2, <1>3 DEF MoveH, MoveTop, QuietOps, OuterWriters
<1>10. MoveM(a.m, s) = a.m
    BY <1>2, <1>4 DEF MoveM, QuietOps
<1>11. a = [d |-> a.d, ph |-> a.ph, h |-> a.h, m |-> a.m, top |-> a.top, f |-> a.f]
    BY DEF Labels
<1>12. Move(a, s) = a
    BY <1>8, <1>9, <1>10, <1>11 DEF Move
<1> QED BY <1>5, <1>6, <1>7, <1>12

\* Steps that change nothing of what the labels say.
LEMMA RunsQuiet ==
    ASSUME NEW o, NEW a \in Labels, NEW O, NEW p, Stay(o, a, O), Quiet(p, O, a.d)
    PROVE  Runs(o, p, a, a)
<1> DEFINE lab == [i \in 1 .. Len(p) + 1 |-> a]
<1>1. IsProgram(p) /\ Len(p) \in Nat /\ DOMAIN p = 1 .. Len(p)
    BY ProgramIs DEF Quiet
<1>2. lab \in [1 .. Len(p) + 1 -> Labels] /\ lab[1] = a /\ lab[Len(p) + 1] = a
    BY <1>1
<1>3. \A i \in 1 .. Len(p) + 1 : lab[i] = a
    OBVIOUS
<1> HIDE DEF lab
<1>4. Labelled(o, p, lab)
    <2> SUFFICES ASSUME NEW i \in 1 .. Len(p)
                 PROVE  /\ Allowed(o, lab[i], p[i])
                        /\ p[i].op # "fail" => lab[i + 1] = Move(lab[i], p[i])
                        /\ p[i].drop >= 0 => i + p[i].drop <= Len(p)
                             /\ (p[i].op # "sig" => lab[i + p[i].drop + 1] = lab[i])
        BY Zenon DEF Labelled
    <2>1. /\ Plain(p[i], O, a.d) /\ p[i].drop \in Int
          /\ p[i].drop >= 0 => i + p[i].drop <= Len(p) /\ p[i].op \in Skipped /\ (p[i].op = "sig" => p[i].drop = 0)
        BY <1>1 DEF Quiet, IsProgram, IsStep
    <2>2. p[i].op \in AllOps /\ AllowedPlace(o, a, p[i]) /\ AllowedSig(o, a, p[i]) /\ Move(a, p[i]) = a
        BY <2>1, StayMove, Zenon
    <2>3. AllowedSkip(p[i])
        BY <2>1 DEF AllowedSkip, Skipped
    <2>4. lab[i] = a /\ lab[i + 1] = a /\ (p[i].drop >= 0 => lab[i + p[i].drop + 1] = a)
        BY <1>1, <1>3, <2>1
    <2> QED BY <2>1, <2>2, <2>3, <2>4, Zenon DEF Allowed
<1> QED BY <1>1, <1>2, <1>4, Zenon DEF Runs

\* The empty run.
LEMMA RunsNothing == ASSUME NEW o, NEW a \in Labels PROVE Runs(o, <<>>, a, a)
<1>1. Quiet(<<>>, {}, a.d) /\ Stay(o, a, {})
    BY NothingQuiet DEF Stay
<1> QED BY <1>1, RunsQuiet

\* One step under other writers.
LEMMA RunsStep ==
    ASSUME NEW o, NEW a \in Labels, NEW p, IsProgram(p), Len(p) = 1,
           p[1].drop = -1 \/ (p[1].drop = 0 /\ p[1].op = "sig"), Allowed(o, a, p[1])
    PROVE Runs(o, p, a, Move(a, p[1]))
<1> DEFINE s == p[1]
           lab == [i \in 1 .. 2 |-> IF i = 1 THEN a ELSE Move(a, s)]
<1>3. Move(a, s) \in Labels
    BY MoveIn, Zenon
<1> HIDE DEF s
<1>4. lab \in [1 .. Len(p) + 1 -> Labels] /\ lab[1] = a /\ lab[1 + 1] = Move(a, s) /\ lab[Len(p) + 1] = Move(a, s)
    BY <1>3
<1> HIDE DEF lab
<1>5. Labelled(o, p, lab)
    <2> SUFFICES ASSUME NEW i \in 1 .. Len(p)
                 PROVE  /\ Allowed(o, lab[i], p[i])
                        /\ p[i].op # "fail" => lab[i + 1] = Move(lab[i], p[i])
                        /\ p[i].drop >= 0 => i + p[i].drop <= Len(p)
                             /\ (p[i].op # "sig" => lab[i + p[i].drop + 1] = lab[i])
        BY Zenon DEF Labelled
    <2>1. i = 1
        OBVIOUS
    <2>2. p[i].drop >= 0 => i + p[i].drop <= Len(p) /\ p[i].op = "sig"
        BY <2>1
    <2>3. Allowed(o, lab[i], p[i]) /\ lab[i + 1] = Move(lab[i], p[i])
        BY <1>4, <2>1, Zenon DEF s
    <2> QED BY <2>2, <2>3, Zenon
<1>6. Runs(o, p, a, Move(a, s))
    BY <1>4, <1>5, Zenon DEF Runs
<1> QED BY <1>6 DEF s

\* Two programs under more writers.
LEMMA UnderJoin == ASSUME NEW p, NEW q, IsProgram(p), IsProgram(q), NEW n \in Nat
    PROVE Under(n, p \o q) = Under(n, p) \o Under(n, q)
<1> DEFINE r == p \o q
           U(x) == [x EXCEPT !.pops = @ + n]
           up == Under(n, p)
           uq == Under(n, q)
<1>1. /\ Len(p) \in Nat /\ Len(q) \in Nat /\ DOMAIN r = 1 .. Len(p) + Len(q) /\ DOMAIN p = 1 .. Len(p)
           /\ DOMAIN q = 1 .. Len(q)
      /\ \A i \in 1 .. Len(p) + Len(q) : r[i] = IF i <= Len(p) THEN p[i] ELSE q[i - Len(p)]
    BY JoinIs
<1> HIDE DEF r
<1>2. /\ IsProgram(up) /\ IsProgram(uq) /\ Len(up) = Len(p) /\ Len(uq) = Len(q)
    BY UnderIs
<1>3. /\ DOMAIN (up \o uq) = 1 .. Len(up) + Len(uq)
      /\ \A i \in 1 .. Len(up) + Len(uq) : (up \o uq)[i] = IF i <= Len(up) THEN up[i] ELSE uq[i - Len(up)]
      /\ IsProgram(up \o uq)
    BY <1>2, JoinIs, Zenon
<1>4. up = [i \in 1 .. Len(p) |-> U(p[i])] /\ uq = [i \in 1 .. Len(q) |-> U(q[i])]
    BY <1>1 DEF Under
<1>5. Under(n, r) = [i \in 1 .. Len(p) + Len(q) |-> U(r[i])]
    BY <1>1 DEF Under
<1> DEFINE v == up \o uq
<1> HIDE DEF up, uq
<1>6. v = [i \in 1 .. Len(p) + Len(q) |-> v[i]]
    <2>1. v \in Seq({v[i] : i \in DOMAIN v}) /\ DOMAIN v = 1 .. Len(p) + Len(q)
        BY <1>2, <1>3 DEF IsProgram
    <2> HIDE DEF v
    <2> QED BY <2>1
<1> HIDE DEF v, U
<1>7. \A i \in 1 .. Len(p) + Len(q) : v[i] = U(r[i])
    <2> SUFFICES ASSUME NEW i \in 1 .. Len(p) + Len(q) PROVE v[i] = U(r[i])
        OBVIOUS
    <2>1. v[i] = IF i <= Len(p) THEN up[i] ELSE uq[i - Len(p)]
        BY <1>2, <1>3 DEF v
    <2>2. CASE i <= Len(p)
        BY <1>1, <1>4, <2>1, <2>2
    <2>3. CASE ~(i <= Len(p))
        BY <1>1, <1>4, <2>1, <2>3
    <2> QED BY <2>2, <2>3
<1>8. v = Under(n, r)
    BY <1>5, <1>6, <1>7
<1> QED BY <1>8 DEF v, up, uq, r

\* Two programs with results ignored one by one.
LEMMA EachJoin == ASSUME NEW p, NEW q, IsProgram(p), IsProgram(q)
    PROVE Each(p \o q) = Each(p) \o Each(q)
<1> DEFINE r == p \o q
           U(x) == [x EXCEPT !.drop = 0]
           up == Each(p)
           uq == Each(q)
<1>1. /\ Len(p) \in Nat /\ Len(q) \in Nat /\ DOMAIN r = 1 .. Len(p) + Len(q) /\ DOMAIN p = 1 .. Len(p)
           /\ DOMAIN q = 1 .. Len(q)
      /\ \A i \in 1 .. Len(p) + Len(q) : r[i] = IF i <= Len(p) THEN p[i] ELSE q[i - Len(p)]
    BY JoinIs
<1> HIDE DEF r
<1>2. /\ IsProgram(up) /\ IsProgram(uq) /\ Len(up) = Len(p) /\ Len(uq) = Len(q)
    BY EachIs
<1>3. /\ DOMAIN (up \o uq) = 1 .. Len(up) + Len(uq)
      /\ \A i \in 1 .. Len(up) + Len(uq) : (up \o uq)[i] = IF i <= Len(up) THEN up[i] ELSE uq[i - Len(up)]
      /\ IsProgram(up \o uq)
    BY <1>2, JoinIs, Zenon
<1>4. up = [i \in 1 .. Len(p) |-> U(p[i])] /\ uq = [i \in 1 .. Len(q) |-> U(q[i])]
    BY <1>1 DEF Each
<1>5. Each(r) = [i \in 1 .. Len(p) + Len(q) |-> U(r[i])]
    BY <1>1 DEF Each
<1> DEFINE v == up \o uq
<1> HIDE DEF up, uq
<1>6. v = [i \in 1 .. Len(p) + Len(q) |-> v[i]]
    <2>1. v \in Seq({v[i] : i \in DOMAIN v}) /\ DOMAIN v = 1 .. Len(p) + Len(q)
        BY <1>2, <1>3 DEF IsProgram
    <2> HIDE DEF v
    <2> QED BY <2>1
<1> HIDE DEF v, U
<1>7. \A i \in 1 .. Len(p) + Len(q) : v[i] = U(r[i])
    <2> SUFFICES ASSUME NEW i \in 1 .. Len(p) + Len(q) PROVE v[i] = U(r[i])
        OBVIOUS
    <2>1. v[i] = IF i <= Len(p) THEN up[i] ELSE uq[i - Len(p)]
        BY <1>2, <1>3 DEF v
    <2>2. CASE i <= Len(p)
        BY <1>1, <1>4, <2>1, <2>2
    <2>3. CASE ~(i <= Len(p))
        BY <1>1, <1>4, <2>1, <2>3
    <2> QED BY <2>2, <2>3
<1>8. v = Each(r)
    BY <1>5, <1>6, <1>7
<1> QED BY <1>8 DEF v, up, uq, r

WithFail(a, x) == [a EXCEPT !.f = x]

\* The same step at a label where no step that is bound to fail may come, or none is reached.
LEMMA WithF == ASSUME NEW o, NEW a \in Labels, NEW s, NEW x \in {"must", "dead"}
    PROVE /\ WithFail(a, x) \in Labels /\ Move(WithFail(a, x), s) = WithFail(Move(a, s), x)
          /\ Allowed(o, a, s) /\ (s.op = "fail" => x = "dead") => Allowed(o, WithFail(a, x), s)
<1> DEFINE b == WithFail(a, x)
<1>1. b = [d |-> a.d, ph |-> a.ph, h |-> a.h, m |-> a.m, top |-> a.top, f |-> x]
    BY DEF Labels, WithFail
<1>2. b \in Labels
    BY <1>1 DEF Labels
<1> HIDE DEF b
<1>3. b.d = a.d /\ b.ph = a.ph /\ b.h = a.h /\ b.m = a.m /\ b.top = a.top /\ b.f = x
    BY <1>1
<1>4. MoveF(x, s) = x
    BY DEF MoveF
<1>5. Move(b, s) = WithFail(Move(a, s), x)
    BY <1>3, <1>4 DEF Move, WithFail
<1>6. AllowedPlace(o, a, s) /\ (s.op = "fail" => x = "dead") => AllowedPlace(o, b, s)
    BY <1>3 DEF AllowedPlace
<1>7. AllowedSig(o, a, s) => AllowedSig(o, b, s)
    BY <1>3 DEF AllowedSig
<1> QED BY <1>2, <1>5, <1>6, <1>7 DEF b, Allowed

\* Steps none of which is bound to fail may come after a key was loaded.
LEMMA RunsMust == ASSUME NEW o, NEW p, NEW a, NEW b, Runs(o, p, a, b), \A i \in DOMAIN p : p[i].op # "fail"
    PROVE Runs(o, p, WithFail(a, "must"), WithFail(b, "must"))
<1>1. IsProgram(p) /\ Len(p) \in Nat /\ DOMAIN p = 1 .. Len(p)
    BY ProgramIs DEF Runs
<1>2. PICK lab \in [1 .. Len(p) + 1 -> Labels] : lab[1] = a /\ lab[Len(p) + 1] = b /\ Labelled(o, p, lab)
    BY DEF Runs
<1> DEFINE lr == [i \in 1 .. Len(p) + 1 |-> WithFail(lab[i], "must")]
<1>3. \A i \in 1 .. Len(p) + 1 : lab[i] \in Labels /\ lr[i] = WithFail(lab[i], "must") /\ WithFail(lab[i], "must") \in Labels
    BY <1>2, WithF
<1>4. lr \in [1 .. Len(p) + 1 -> Labels] /\ lr[1] = WithFail(a, "must") /\ lr[Len(p) + 1] = WithFail(b, "must")
    BY <1>1, <1>2, <1>3
<1> HIDE DEF lr
<1>5. Labelled(o, p, lr)
    <2> SUFFICES ASSUME NEW i \in 1 .. Len(p)
                 PROVE  /\ Allowed(o, lr[i], p[i])
                        /\ p[i].op # "fail" => lr[i + 1] = Move(lr[i], p[i])
                        /\ p[i].drop >= 0 => i + p[i].drop <= Len(p)
                             /\ (p[i].op # "sig" => lr[i + p[i].drop + 1] = lr[i])
        BY Zenon DEF Labelled
    <2>1. /\ Allowed(o, lab[i], p[i]) /\ (p[i].op # "fail" => lab[i + 1] = Move(lab[i], p[i]))
          /\ p[i].drop >= 0 => i + p[i].drop <= Len(p) /\ (p[i].op # "sig" => lab[i + p[i].drop + 1] = lab[i])
        BY <1>2, Zenon DEF Labelled
    <2>2. p[i].op # "fail" /\ p[i].drop \in Int
        BY <1>1 DEF IsProgram, IsStep
    <2>3. /\ lr[i] = WithFail(lab[i], "must") /\ lr[i + 1] = WithFail(lab[i + 1], "must") /\ lab[i] \in Labels
          /\ p[i].drop >= 0 /\ p[i].op # "sig" => lr[i + p[i].drop + 1] = WithFail(lab[i + p[i].drop + 1], "must")
        BY <1>1, <1>3, <2>1, <2>2
    <2>4. "must" \in {"must", "dead"}
        OBVIOUS
    <2>6. /\ Move(WithFail(lab[i], "must"), p[i]) = WithFail(Move(lab[i], p[i]), "must")
          /\ Allowed(o, lab[i], p[i]) /\ (p[i].op = "fail" => "must" = "dead") => Allowed(o, WithFail(lab[i], "must"),
               p[i])
        BY <2>3, <2>4, WithF
    <2>5. Move(lr[i], p[i]) = WithFail(Move(lab[i], p[i]), "must") /\ Allowed(o, lr[i], p[i])
        BY <2>1, <2>2, <2>3, <2>6, Zenon
    <2> QED BY <2>1, <2>2, <2>3, <2>5, Zenon
<1> QED BY <1>1, <1>4, <1>5, Zenon DEF Runs

\* After a step that is bound to fail, whatever follows is not done.
LEMMA RunsDead == ASSUME NEW o, NEW p, NEW a, NEW b, Runs(o, p, a, b), NEW g \in DOMAIN p, p[g].op = "fail",
                         \A i \in DOMAIN p : ~(p[i].drop > 0)
    PROVE Runs(o, p, a, WithFail(b, "dead"))
<1>1. IsProgram(p) /\ Len(p) \in Nat /\ DOMAIN p = 1 .. Len(p) /\ g \in Nat
    BY ProgramIs DEF Runs
<1>2. PICK lab \in [1 .. Len(p) + 1 -> Labels] : lab[1] = a /\ lab[Len(p) + 1] = b /\ Labelled(o, p, lab)
    BY DEF Runs
<1> DEFINE lr == [i \in 1 .. Len(p) + 1 |-> IF i <= g THEN lab[i] ELSE WithFail(lab[i], "dead")]
<1>3. \A i \in 1 .. Len(p) + 1 : lab[i] \in Labels /\ WithFail(lab[i], "dead") \in Labels
    BY <1>2, WithF
<1>a. \A i \in 1 .. Len(p) + 1 : lr[i] = IF i <= g THEN lab[i] ELSE WithFail(lab[i], "dead")
    OBVIOUS
<1>4. lr \in [1 .. Len(p) + 1 -> Labels] /\ lr[1] = a /\ lr[Len(p) + 1] = WithFail(b, "dead")
    BY <1>1, <1>2, <1>3
<1> HIDE DEF lr
<1>5. Labelled(o, p, lr)
    <2> SUFFICES ASSUME NEW i \in 1 .. Len(p)
                 PROVE  /\ Allowed(o, lr[i], p[i])
                        /\ p[i].op # "fail" => lr[i + 1] = Move(lr[i], p[i])
                        /\ p[i].drop >= 0 => i + p[i].drop <= Len(p)
                             /\ (p[i].op # "sig" => lr[i + p[i].drop + 1] = lr[i])
        BY Zenon DEF Labelled
    <2>1. /\ Allowed(o, lab[i], p[i]) /\ (p[i].op # "fail" => lab[i + 1] = Move(lab[i], p[i]))
          /\ p[i].drop >= 0 => i + p[i].drop <= Len(p) /\ (p[i].op # "sig" => lab[i + p[i].drop + 1] = lab[i])
        BY <1>2, Zenon DEF Labelled
    <2>2. /\ p[i].drop \in Int /\ ~(p[i].drop > 0) /\ i \in 1 .. Len(p) + 1 /\ i + 1 \in 1 .. Len(p) + 1
               /\ i + 0 + 1 = i + 1
        BY <1>1 DEF IsProgram, IsStep
    <2>0. lab[i] \in Labels
        BY <1>3, <2>2
    <2>3. p[i].drop >= 0 => p[i].drop = 0 /\ p[i].op # "fail"
        BY <2>1, <2>2 DEF Allowed, AllowedSkip
    <2>4. CASE i < g
        <3>1. lr[i] = lab[i] /\ lr[i + 1] = lab[i + 1]
            BY <1>1, <1>a, <2>2, <2>4
        <3>2. p[i].drop >= 0 => i + p[i].drop + 1 = i + 1
            BY <2>2, <2>3
        <3> QED BY <2>1, <3>1, <3>2, Zenon
    <2>5. CASE i = g
        <3>1. lr[i] = lab[i]
            BY <1>1, <1>a, <2>2, <2>5
        <3> QED BY <2>1, <2>3, <2>5, <3>1, Zenon
    <2>6. CASE i > g
        <3>1. lr[i] = WithFail(lab[i], "dead") /\ lr[i + 1] = WithFail(lab[i + 1], "dead")
            BY <1>1, <1>a, <2>2, <2>6
        <3>2. p[i].drop >= 0 => i + p[i].drop + 1 = i + 1
            BY <2>2, <2>3
        <3>3. "dead" \in {"must", "dead"}
            OBVIOUS
        <3>5. /\ Move(WithFail(lab[i], "dead"), p[i]) = WithFail(Move(lab[i], p[i]), "dead")
              /\ Allowed(o, lab[i], p[i]) => Allowed(o, WithFail(lab[i], "dead"), p[i])
            BY <2>0, <3>3, WithF
        <3>4. Move(lr[i], p[i]) = WithFail(Move(lab[i], p[i]), "dead") /\ Allowed(o, lr[i], p[i])
            BY <2>1, <3>1, <3>5, Zenon
        <3> QED BY <2>1, <3>1, <3>2, <3>4, Zenon
    <2> QED BY <1>1, <2>4, <2>5, <2>6
<1> QED BY <1>1, <1>4, <1>5, Zenon DEF Runs

Words == {"0x99", "primary", "subkey", "0xb4", "userid", "text", "data"}

-----------------------------------------------------------------------------
(* The functions of packet-create.c, signature.c and writer.c as runs. *)

\* The functions that write packets, but for secret keys and signatures, leave writers alone.
LEMMA OnesStrict ==
    /\ \A n : Strict(W(n), QuietOps, 0) /\ Strict(Try(n), QuietOps, 0) /\ Strict(Armor(n), QuietOps, 0)
    /\ \A n : Strict(W(n), {"write"}, 0) /\ Strict(Try(n), {"try"}, 0) /\ Strict(Armor(n), {"write"}, 0)
    /\ Strict(Fail, QuietOps, 0) /\ Strict(<<>>, QuietOps, 0)
    /\ \A x \in QuietOps : \A n, w : Strict(One(x, n, w), QuietOps, 0)
<1>1. \A x \in QuietOps : \A n, w : Strict(One(x, n, w), QuietOps, 0)
    BY StrictOne DEF QuietOps
<1>2. "write" \in QuietOps /\ "try" \in QuietOps /\ "fail" \in QuietOps
    BY DEF QuietOps
<1>3. \A n, w : Strict(One("write", n, w), {"write"}, 0) /\ Strict(One("try", n, w), {"try"}, 0)
    BY StrictOne
<1> QED BY <1>1, <1>2, <1>3, NothingQuiet, Zenon DEF W, Try, Armor, Fail

\* Numbers of a key.
LEMMA MpisStrict ==
    ASSUME NEW k, NEW c \in Nat
    PROVE  Strict(Mpis(k, c), QuietOps, 0) /\ Strict(pgp_write_mpi(k.n), QuietOps, 0)
<1>1. Strict(pgp_write_mpi(k.n), QuietOps, 0)
    BY OnesStrict, StrictJoin DEF pgp_write_mpi
<1> QED BY <1>1, StrictTimes DEF Mpis

\* A packet around a body.
LEMMA PacketStrict == ASSUME NEW kind, NEW n, NEW b, Strict(b, QuietOps, 0) PROVE Strict(Packet(kind, n, b), QuietOps, 0)
<1>1. \A m, w : Strict(One("tag", m, w), QuietOps, 0) /\ Strict(One("length", m, w), QuietOps, 0)
      /\ Strict(One("packet", m, w), QuietOps, 0)
    BY OnesStrict DEF QuietOps
<1> QED BY <1>1, StrictJoin DEF Packet

\* The numbers of a key, public and secret.
LEMMA KeysStrict ==
    ASSUME NEW k
    PROVE  Strict(write_pubkey_body(k), QuietOps, 0) /\ Strict(pgp_write_secret_mpis(k), QuietOps, 0)
<1>1. Strict(Mpis(k, 1), QuietOps, 0) /\ Strict(Mpis(k, 2), QuietOps, 0) /\ Strict(Mpis(k, 3), QuietOps, 0)
      /\ Strict(Mpis(k, 4), QuietOps, 0)
      /\ Strict(pgp_write_mpi(k.n), QuietOps, 0)
    BY MpisStrict
<1>2. Strict(ec_serialize_pubkey(k), QuietOps, 0)
    BY <1>1, OnesStrict, StrictJoin DEF ec_serialize_pubkey
<1>3. Strict(write_pubkey_body(k), QuietOps, 0)
    BY <1>1, <1>2, OnesStrict, StrictJoin DEF write_pubkey_body
<1>4. Strict(pgp_write_secret_mpis(k), QuietOps, 0)
    BY <1>1, OnesStrict DEF pgp_write_secret_mpis
<1> QED BY <1>3, <1>4

\* The packets without signatures and secret keys.
LEMMA PacketsStrict ==
    ASSUME NEW k, NEW doc, NEW n
    PROVE  /\ Strict(pgp_write_struct_pubkey(k), QuietOps, 0) /\ Strict(pgp_write_struct_userid(n), QuietOps, 0)
           /\ Strict(pgp_write_one_pass_sig, QuietOps, 0) /\ Strict(pgp_write_litdata(doc), QuietOps, 0)
           /\ Strict(pgp_write_pk_sesskey(k), QuietOps, 0)
<1>2. Strict(Mpis(k, 1), QuietOps, 0) /\ Strict(Mpis(k, 2), QuietOps, 0)
    BY MpisStrict
<1>3. Strict(pgp_write_struct_pubkey(k), QuietOps, 0) /\ Strict(pgp_write_struct_userid(n), QuietOps, 0)
    BY OnesStrict, KeysStrict, PacketStrict DEF pgp_write_struct_pubkey, pgp_write_struct_userid
<1>4. Strict(pgp_write_one_pass_sig, QuietOps, 0) /\ Strict(pgp_write_litdata(doc), QuietOps, 0)
    BY OnesStrict, StrictJoin, PacketStrict DEF pgp_write_one_pass_sig, pgp_write_litdata, If
<1>5. Strict(pgp_write_pk_sesskey(k), QuietOps, 0)
    BY <1>2, OnesStrict, StrictJoin, PacketStrict DEF pgp_write_pk_sesskey
<1> QED BY <1>3, <1>4, <1>5

\* The session key.
LEMMA SesskeyQuiet == ASSUME NEW k PROVE Quiet(SessionKey(k), QuietOps, 0)
<1>1. \A n : Quiet(Try(n), QuietOps, 0)
    BY OnesStrict, StrictQuiet
<1>2. Quiet(Fail, QuietOps, 0) /\ Quiet(pgp_write_pk_sesskey(k), QuietOps, 0) /\ Quiet(<<>>, QuietOps, 0)
    BY OnesStrict, PacketsStrict, StrictQuiet
<1>3. Quiet(If(k.alg = "ECDH", Try("fingerprint") \o Try("number")), QuietOps, 0)
    BY <1>1, <1>2, QuietJoin DEF If
<1>4. Quiet(pgp_create_pk_sesskey(k), QuietOps, 0)
    BY <1>1, <1>2, <1>3, QuietJoin DEF pgp_create_pk_sesskey
<1> QED BY <1>1, <1>2, <1>4, QuietJoin DEF SessionKey

\* Pushing the writers of an encryption or of armor.
PushOps == QuietOps \cup {"push"}

\* Pushing the writers of an encryption or of armor.
LEMMA PushesQuiet == ASSUME NEW k, NEW len
    PROVE Quiet(pgp_push_enc_se_ip(k, len), PushOps, 0) /\ Quiet(Ignored(pgp_writer_push_armored(FALSE)), {"write",
          "try", "push"}, 0)
<1>1. QuietOps \subseteq PushOps /\ {"push"} \subseteq PushOps /\ {"try"} \subseteq {"write", "try", "push"}
      /\ {"write"} \subseteq {"write", "try", "push"}
      /\ {"push"} \subseteq {"write", "try", "push"}
    BY DEF PushOps
<1>2. \A w \in OuterWriters : Strict(Push(w), {"push"}, 0)
    BY StrictOne DEF Push
<1>3. Quiet(Push("se_ip"), PushOps, 0) /\ Quiet(Ignored(Push("stream")), PushOps, 0)
    <2>1. Quiet(Push("se_ip"), {"push"}, 0) /\ Quiet(Push("stream"), {"push"}, 0)
        BY <1>2, StrictQuiet DEF OuterWriters
    <2>2. Quiet(Ignored(Push("stream")), {"push"}, 0)
        BY <2>1, IgnoredQuiet DEF Skipped
    <2> QED BY <1>1, <2>1, <2>2, QuietMore
<1>4. Quiet(SessionKey(k), PushOps, 0) /\ Quiet(Try("memory"), PushOps, 0)
    BY <1>1, SesskeyQuiet, OnesStrict, StrictQuiet, QuietMore
<1>5. Quiet(pgp_push_enc_se_ip(k, len), PushOps, 0)
    BY <1>3, <1>4, QuietJoin DEF pgp_push_enc_se_ip, pgp_push_stream_enc_se_ip
<1> DEFINE O == {"write", "try", "push"}
<1>6. Quiet(Try("armor memory"), O, 0) /\ Quiet(Push("linebreak"), O, 0) /\ Quiet(Push("base64"), O, 0)
    <2>1. Strict(Try("armor memory"), {"try"}, 0) /\ Strict(Push("linebreak"), {"push"}, 0) /\ Strict(Push("base64"),
          {"push"}, 0)
        BY <1>2, OnesStrict DEF OuterWriters
    <2> QED BY <1>1, <2>1, StrictQuiet, QuietMore
<1>7. Quiet(Each(Armor(29) \o Armor(2)), O, 0)
    <2>1. Strict(Armor(29) \o Armor(2), {"write"}, 0)
        BY OnesStrict, StrictJoin
    <2>2. Quiet(Each(Armor(29) \o Armor(2)), {"write"}, 0)
        BY <2>1, EachQuiet DEF Skipped
    <2> QED BY <1>1, <2>2, QuietMore
<1> HIDE DEF O
<1>8. Quiet(pgp_writer_push_armored(FALSE), O, 0)
    BY <1>6, <1>7, QuietJoin DEF pgp_writer_push_armored
<1>9. O \subseteq Skipped \ {"sig"}
    BY DEF O, Skipped
<1> QED BY <1>5, <1>8, <1>9, IgnoredQuiet DEF O

\* A transferable key.
LEMMA XferQuiet == ASSUME NEW k, NEW armor \in BOOLEAN
    PROVE Quiet(Ignored(pgp_write_xfer_key(k, armor)), {"write", "packet", "try", "push", "pop", "finalise"}, 0)
<1> DEFINE O == {"write", "packet", "try", "push", "pop", "finalise"}
<1>1. O \subseteq Skipped \ {"sig"} /\ {"write"} \subseteq O /\ {"write", "try", "push"} \subseteq O
      /\ {"pop"} \subseteq O /\ {"packet"} \subseteq O /\ {"finalise"} \subseteq O
    BY DEF Skipped
<1>2. Strict(One("write", k.n, "key"), {"write"}, 0) /\ Strict(One("packet", 0, "key"), {"packet"}, 0)
      /\ Strict(Pop, {"pop"}, 0) /\ Strict(One("finalise", 0, "export"), {"finalise"}, 0)
    BY OnesStrict, StrictOne DEF Pop
<1>3. Quiet(Each(One("finalise", 0, "export")), {"finalise"}, 0)
    BY <1>2, EachQuiet DEF Skipped
<1>4. Quiet(Ignored(pgp_writer_push_armored(FALSE)), {"write", "try", "push"}, 0)
    BY PushesQuiet
<1> HIDE DEF O
<1>5. Quiet(One("write", k.n, "key"), O, 0) /\ Quiet(One("packet", 0, "key"), O, 0) /\ Quiet(Pop, O, 0) /\ Quiet(Each(One("finalise", 0, "export")), O, 0)
      /\ Quiet(Ignored(pgp_writer_push_armored(FALSE)), O, 0) /\ Quiet(<<>>, O, 0)
    BY <1>1, <1>2, <1>3, <1>4, StrictQuiet, QuietMore, NothingQuiet
<1>6. Quiet(pgp_write_xfer_key(k, armor), O, 0)
    BY <1>5, QuietJoin DEF pgp_write_xfer_key, write_matching_packets, If
<1> QED BY <1>1, <1>6, IgnoredQuiet DEF O

\* The pieces of a stream.
LEMMA DataQuiet == ASSUME NEW doc, doc.pieces \in Seq(Nat) PROVE Quiet(Data(doc), {"data"}, 0)
<1> DEFINE p == Data(doc)
           m == Len(doc.pieces)
<1>1. m \in Nat /\ DOMAIN doc.pieces = 1 .. m
    OBVIOUS
<1>2. p = [i \in 1 .. m |-> Step("data", doc.pieces[i], "data")]
    BY <1>1 DEF Data
<1> HIDE DEF p, m
<1>3. \A i \in 1 .. m : IsStep(p[i]) /\ p[i].op = "data" /\ p[i].drop = -1 /\ p[i].pops = 0
    <2> SUFFICES ASSUME NEW i \in 1 .. m PROVE IsStep(p[i]) /\ p[i].op = "data" /\ p[i].drop = -1 /\ p[i].pops = 0
        OBVIOUS
    <2>1. p[i] = Step("data", doc.pieces[i], "data")
        BY <1>2
    <2>2. Step("data", doc.pieces[i], "data").pops = 0 /\ Step("data", doc.pieces[i], "data").op = "data"
        BY DEF Step
    <2> QED BY <2>1, <2>2, StepIs
<1>4. p = [i \in 1 .. m |-> p[i]]
    BY <1>2
<1>5. IsProgram(p) /\ DOMAIN p = 1 .. m
    BY <1>1, <1>3, <1>4, MappedIs
<1>6. Strict(p, {"data"}, 0)
    BY <1>3, <1>5 DEF Strict, Plain
<1> QED BY <1>6, StrictQuiet DEF p

\* Signatures in memory.
SigOps == QuietOps \cup {"sig"}

\* The parts of a signature behind the mark of the hashed fields.
LEMMA SigsQuiet == ASSUME NEW k, k.n \in Nat, NEW hash
    PROVE /\ Quiet(Sign(k, hash), SigOps, 0)
          /\ \A n \in Nat : Strict(Sig(n), SigOps, 0) /\ Quiet(Subpacket(n), SigOps, 0) /\ Quiet(Each(Subpacket(n)),
               SigOps, 0)
<1>0. {"sig"} \subseteq SigOps /\ QuietOps \subseteq SigOps /\ {"sig"} \subseteq Skipped
    BY DEF SigOps, Skipped
<1>1. \A n \in Nat : Strict(Sig(n), {"sig"}, 0)
    BY StrictOne DEF Sig
<1>2. \A n \in Nat : Strict(Subpacket(n), {"sig"}, 0)
    BY <1>1, StrictJoin DEF Subpacket
<1>3. Strict(SigMpis(k, 1), {"sig"}, 0) /\ Strict(SigMpis(k, 2), {"sig"}, 0)
    BY <1>1, StrictJoin, StrictTimes DEF SigMpis
<1>4. \A p : Strict(p, {"sig"}, 0) => Quiet(p, SigOps, 0) /\ Quiet(Each(p), SigOps, 0) /\ Strict(p, SigOps, 0)
    BY <1>0, EachQuiet, StrictQuiet, QuietMore
<1>5. Quiet(Fail, SigOps, 0) /\ Quiet(Try("sign"), SigOps, 0)
    BY <1>0, OnesStrict, StrictQuiet, QuietMore
<1>6. Quiet(Sig(2), SigOps, 0) /\ Quiet(Each(Sig(2)), SigOps, 0)
    BY <1>1, <1>4
<1>7. Quiet(SigMpis(k, 2), SigOps, 0) /\ Quiet(Each(SigMpis(k, 1)), SigOps, 0) /\ Quiet(Each(SigMpis(k, 2)), SigOps,
      0)
    BY <1>3, <1>4
<1>8. Quiet(Sign(k, hash), SigOps, 0)
    BY <1>5, <1>6, <1>7, QuietJoin DEF Sign, rsa_sign, dsa_sign, ecdsa_sign, eddsa_sign
<1> QED BY <1>1, <1>2, <1>4, <1>8

\* A label.
Lab(d, ph, h, m, top, f) == [d |-> d, ph |-> ph, h |-> h, m |-> m, top |-> top, f |-> f]

\* Steps that are bound to fail are allowed.
MayFail(o, f) == f \in {"may", "must", "dead"} /\ (o.name = "generate_subkey" => f # "must")

\* The parts of a label.
InLab(d, ph, h, m, f) == d \in Nat /\ ph \in Phases /\ h \in Nat /\ m \in 0 .. 7 /\ f \in {"may", "must", "dead"}

\* A label is one.
LEMMA LabIs == ASSUME NEW d, NEW ph, NEW h, NEW m, NEW top \in {"any", "dash"}, NEW f, InLab(d, ph, h, m, f)
    PROVE /\ Lab(d, ph, h, m, top, f) \in Labels /\ Lab(d, ph, h, m, top, f).d = d /\ Lab(d, ph, h, m, top, f).ph = ph
          /\ Lab(d, ph, h, m, top, f).h = h /\ Lab(d, ph, h, m, top, f).m = m /\ Lab(d, ph, h, m, top, f).top = top
          /\ Lab(d, ph, h, m, top, f).f = f
BY DEF Lab, InLab, Labels

\* Quiet programs run where they are.
LEMMA QuietRuns ==
    ASSUME NEW o, NEW d, NEW ph, NEW h, NEW m, NEW top \in {"any", "dash"}, NEW f, InLab(d, ph, h, m, f),
           MayFail(o, f), NEW p,
                          Quiet(p, QuietOps, d)
    PROVE Runs(o, p, Lab(d, ph, h, m, top, f), Lab(d, ph, h, m, top, f))
<1> DEFINE a == Lab(d, ph, h, m, top, f)
<1>1. a \in Labels /\ a.d = d /\ a.f = f
    BY LabIs
<1>2. Stay(o, a, QuietOps)
    BY <1>1 DEF Stay, QuietOps, MayFail
<1> HIDE DEF a
<1>3. Runs(o, p, a, a)
    BY <1>1, <1>2, RunsQuiet, Zenon
<1> QED BY <1>3 DEF a

\* Bytes of a signature, behind the mark of the hashed fields.
LEMMA SigRuns ==
    ASSUME NEW o, ~Encrypts(o), NEW ph, NEW h, NEW m \in {6, 7}, NEW top \in {"any", "dash"}, NEW f,
           InLab(0, ph, h, m, f), MayFail(o, f), NEW p,
                        Quiet(p, SigOps, 0)
    PROVE Runs(o, p, Lab(0, ph, h, m, top, f), Lab(0, ph, h, m, top, f))
<1> DEFINE a == Lab(0, ph, h, m, top, f)
<1>1. a \in Labels /\ a.d = 0 /\ a.f = f /\ a.m = m
    BY LabIs
<1>2. Stay(o, a, SigOps)
    BY <1>1 DEF Stay, SigOps, QuietOps, MayFail
<1> HIDE DEF a
<1>3. Runs(o, p, a, a)
    BY <1>1, <1>2, RunsQuiet, Zenon
<1> QED BY <1>3 DEF a

\* The same step, with what it does to the label.
LEMMA StepRuns ==
    ASSUME NEW o, NEW d, NEW ph, NEW h, NEW m, NEW top \in {"any", "dash"}, NEW f, InLab(d, ph, h, m, f),
                         NEW x \in AllOps, NEW n, NEW w, NEW b,
                         AllowedPlace(o, Lab(d, ph, h, m, top, f), Step(x, n, w)), AllowedSig(o, Lab(d, ph, h, m, top,
                               f), Step(x, n, w)),
                         b = Move(Lab(d, ph, h, m, top, f), Step(x, n, w))
    PROVE Runs(o, One(x, n, w), Lab(d, ph, h, m, top, f), b)
<1> DEFINE a == Lab(d, ph, h, m, top, f)
           s == Step(x, n, w)
<1>1. a \in Labels
    BY LabIs
<1>2. s.op = x /\ s.drop = -1
    BY StepIs
<1>3. AllowedSkip(s)
    BY <1>2 DEF AllowedSkip
<1> HIDE DEF a
<1>4. Allowed(o, a, s)
    BY <1>2, <1>3 DEF Allowed, a
<1>5. Runs(o, One(x, n, w), a, Move(a, s))
    BY <1>1, <1>4, RunsOne, Zenon
<1> QED BY <1>5 DEF a

\* Opening, closing and freeing the output.
LEMMA PlacesRun == ASSUME NEW o, NEW ph, NEW h, NEW m, NEW f, InLab(0, ph, h, m, f)
    PROVE /\ ~IsFile(o) /\ ph \in {"before", "freed"} => Runs(o, pgp_setup_memory_write, Lab(0, ph, h, m, "any", f),
               Lab(0, "up", h, m, "any", f))
          /\ IsFile(o) => Runs(o, pgp_setup_file_write, Lab(0, "before", h, m, "any", f), Lab(0, "up", h, m, "any",
               f))
          /\ Runs(o, Close, Lab(0, "up", h, m, "any", f), Lab(0, "closed", h, m, "any", f))
          /\ o.name = "encrypt_file" => Runs(o, CloseFd, Lab(0, "closed", h, m, "any", f), Lab(0, "closed", h, m,
               "any", f))
          /\ ~IsFile(o) => Runs(o, Free, Lab(0, "closed", h, m, "any", f), Lab(0, "freed", h, m, "any", f))
          /\ \A w : Runs(o, One("loaded", 0, w), Lab(0, "freed", h, m, "any", f), Lab(0, "freed", h, m, "any",
               IF f = "may" THEN "must" ELSE f))
          /\ \A t \in {"any", "dash"} : Runs(o, Ok, Lab(0, Final(o), h, m, t, f), Lab(0, "over", h, m, t, f))
<1>0. \A q \in Phases : InLab(0, q, h, m, f)
    BY DEF InLab
<1>a. {"up", "before", "closed", "freed", "over", Final(o)} \subseteq Phases
    BY DEF Phases, Final
<1> USE DEF AllowedPlace, AllowedSig, AllOps, Step, Lab, Move, MoveD, MovePh, MoveH, MoveM, MoveTop, MoveF
<1>1. ~IsFile(o) /\ ph \in {"before", "freed"} => Runs(o, One("memory", 0, "memory"), Lab(0, ph, h, m, "any", f),
      Lab(0, "up", h, m, "any", f))
    BY <1>0, StepRuns
<1>2. IsFile(o) => Runs(o, One("open", 0, "open"), Lab(0, "before", h, m, "any", f), Lab(0, "up", h, m, "any", f))
    BY <1>0, <1>a, StepRuns
<1>3. Runs(o, One("close", 0, "close"), Lab(0, "up", h, m, "any", f), Lab(0, "closed", h, m, "any", f))
    BY <1>0, <1>a, StepRuns
<1>4. o.name = "encrypt_file" => Runs(o, One("closefd", 0, ""), Lab(0, "closed", h, m, "any", f), Lab(0, "closed", h,
      m, "any", f))
    BY <1>0, <1>a, StepRuns
<1>5. ~IsFile(o) => Runs(o, One("free", 0, ""), Lab(0, "closed", h, m, "any", f), Lab(0, "freed", h, m, "any", f))
    BY <1>0, <1>a, StepRuns
<1>6. \A w : Runs(o, One("loaded", 0, w), Lab(0, "freed", h, m, "any", f), Lab(0, "freed", h, m, "any",
      IF f = "may" THEN "must" ELSE f))
    BY <1>0, <1>a, StepRuns
<1>7. \A t \in {"any", "dash"} : Runs(o, One("ok", 0, ""), Lab(0, Final(o), h, m, t, f), Lab(0, "over", h, m, t, f))
    BY <1>0, <1>a, StepRuns, ZenonT(60)
<1> QED BY <1>1, <1>2, <1>3, <1>4, <1>5, <1>6, <1>7, Zenon
   DEF pgp_setup_memory_write, pgp_setup_file_write, Close, CloseFd, Free, Ok

\* Secret numbers pass one or two writers more, that are gone again at the end.
LEMMA InnerRuns == ASSUME NEW o, NEW d, NEW h, NEW m, NEW f, InLab(d, "up", h, m, f)
    PROVE /\ d = 0 => \A w \in InnerWriters : Runs(o, Push(w), Lab(0, "up", h, m, "any", f), Lab(1, "up", h, m, "any", f))
          /\ Runs(o, Pop, Lab(d + 1, "up", h, m, "any", f), Lab(d, "up", h, m, "any", f))
          /\ d = 1 => Runs(o, Under(1, Push("hash")), Lab(1, "up", h, m, "any", f), Lab(2, "up", h, m, "any", f))
<1> USE DEF AllowedPlace, AllowedSig, AllOps, Step, Lab, Move, MoveD, MovePh, MoveH, MoveM, MoveTop, MoveF
<1>1. ASSUME d = 0, NEW w \in InnerWriters PROVE Runs(o, One("push", 0, w), Lab(0, "up", h, m, "any", f), Lab(1, "up", h, m,
      "any", f))
    BY <1>1, StepRuns DEF InnerWriters
<1>2. Runs(o, One("pop", 0, ""), Lab(d + 1, "up", h, m, "any", f), Lab(d, "up", h, m, "any", f))
    <2>1. InLab(d + 1, "up", h, m, f)
        BY DEF InLab
    <2>2. d \in Nat /\ d + 1 > 0 /\ (d + 1) - 1 = d
        BY DEF InLab
    <2> QED BY <2>1, <2>2, StepRuns
<1>3. ASSUME d = 1 PROVE Runs(o, Under(1, Push("hash")), Lab(1, "up", h, m, "any", f), Lab(2, "up", h, m, "any", f))
    <2> DEFINE p == Push("hash")
               r == Under(1, p)
               a == Lab(1, "up", h, m, "any", f)
    <2>1. IsProgram(p) /\ Len(p) = 1 /\ p[1] = Step("push", 0, "hash") /\ DOMAIN p = 1 .. 1
        BY OneIs, ProgramIs DEF Push
    <2>2. p[1].op = "push" /\ p[1].what = "hash" /\ p[1].drop = -1 /\ p[1].pops = 0
        BY <2>1
    <2>3. IsProgram(r) /\ Len(r) = 1 /\ r[1].op = "push" /\ r[1].what = "hash" /\ r[1].drop = -1 /\ r[1].pops = 0 + 1
        <3> HIDE DEF p
        <3>1. 1 \in Nat /\ 1 \in DOMAIN p
            BY <2>1
        <3> QED BY <2>1, <2>2, <3>1, UnderIs
    <2> HIDE DEF r, p
    <2>4. a \in Labels
        BY <1>3, LabIs
    <2>5. AllowedPlace(o, a, r[1]) /\ AllowedSig(o, a, r[1]) /\ r[1].op \in AllOps
        BY <2>3 DEF InnerWriters
    <2>6. AllowedSkip(r[1])
        BY <2>3 DEF AllowedSkip
    <2>7. Allowed(o, a, r[1])
        BY <2>5, <2>6, Zenon DEF Allowed
    <2>8. Move(a, r[1]) = Lab(2, "up", h, m, "any", f)
        BY <2>3 DEF InnerWriters
    <2> HIDE DEF a
    <2>9. Runs(o, r, a, Move(a, r[1]))
        BY <2>3, <2>4, <2>7, RunsStep
    <2> QED BY <2>8, <2>9 DEF a, r, p
<1> QED BY <1>1, <1>2, <1>3, Zenon DEF Push, Pop

\* The encrypted body of a secret key leaves the writers as they were.
LEMMA ProtectedRuns == ASSUME NEW o, NEW h, NEW m, NEW f, InLab(0, "up", h, m, f), MayFail(o, f), NEW k
    PROVE Runs(o, write_protected_seckey_body(k), Lab(0, "up", h, m, "any", f), Lab(0, "up", h, m, "any", f))
<1> DEFINE L(d) == Lab(d, "up", h, m, "any", f)
<1>0. \A d \in Nat : InLab(d, "up", h, m, f)
    BY DEF InLab
<1>1. \A p : Quiet(p, QuietOps, 0) => Runs(o, p, L(0), L(0))
    BY <1>0, QuietRuns
<1>2. \A d \in {1, 2} : \A p : Strict(p, QuietOps, 0) => Runs(o, UnderWriters(d, p), L(d), L(d))
    <2> SUFFICES ASSUME NEW d \in {1, 2}, NEW p, Strict(p, QuietOps, 0) PROVE Runs(o, UnderWriters(d, p), L(d), L(d))
        OBVIOUS
    <2>1. d \in Nat
        OBVIOUS
    <2>2. Quiet(Under(d, p), QuietOps, d)
        BY <2>1, StrictUnder, StrictQuiet, Zenon
    <2> QED BY <1>0, <2>1, <2>2, QuietRuns DEF UnderWriters
<1>3. Runs(o, pgp_push_enc_crypt, L(0), L(1)) /\ Runs(o, Pop, L(1), L(0)) /\ Runs(o, Pop, L(2), L(1))
    <2>1. "crypt" \in InnerWriters /\ 0 \in Nat /\ 1 \in Nat /\ 0 + 1 = 1 /\ 1 + 1 = 2
        BY DEF InnerWriters
    <2>2. Runs(o, Push("crypt"), L(0), L(1)) /\ Runs(o, Pop, L(0 + 1), L(0)) /\ Runs(o, Pop, L(1 + 1), L(1))
        BY <1>0, <2>1, InnerRuns, Zenon
    <2> QED BY <2>1, <2>2 DEF pgp_push_enc_crypt
<1>4. Runs(o, UnderWriters(1, Try("hash") \o pgp_writer_push_hash), L(1), L(2))
    <2>1. Runs(o, UnderWriters(1, Try("hash")), L(1), L(1))
        BY <1>2, OnesStrict
    <2>2. Runs(o, Under(1, Push("hash")), L(1), L(2))
        BY <1>0, InnerRuns
    <2>3. Under(1, Try("hash") \o Push("hash")) = Under(1, Try("hash")) \o Under(1, Push("hash"))
        BY UnderJoin, OneIs DEF Try, Push
    <2> HIDE DEF L
    <2> QED BY <2>1, <2>2, <2>3, RunsJoin DEF UnderWriters, pgp_writer_push_hash
<1>5. Runs(o, UnderWriters(2, pgp_write_secret_mpis(k)), L(2), L(2)) /\ Runs(o, UnderWriters(1, W(Checkhash)), L(1),
      L(1))
    BY <1>2, KeysStrict, OnesStrict
<1>6. \A n : Quiet(W(n), QuietOps, 0) /\ Quiet(Try(n), QuietOps, 0)
    BY OnesStrict, StrictQuiet
<1>7. Quiet(Fail, QuietOps, 0) /\ Quiet(<<>>, QuietOps, 0)
    BY OnesStrict, StrictQuiet
<1>8. Quiet(If(k.spec # "simple", Try("rng") \o W(8)), QuietOps, 0) /\ Quiet(If(k.spec = "iterated", W(1)), QuietOps,
      0)
    BY <1>6, <1>7, QuietJoin DEF If
<1> DEFINE head == W(1) \o W(1) \o W(1) \o If(k.spec # "simple", Try("rng") \o W(8)) \o If(k.spec = "iterated", W(1))
                     \o Try("s2k") \o Try("rng") \o W(BlockSize) \o Try("cipher")
<1>9. Quiet(head, QuietOps, 0)
    BY <1>6, <1>8, QuietJoin
<1>10. Runs(o, head, L(0), L(0)) /\ Runs(o, Fail, L(0), L(0))
    BY <1>1, <1>7, <1>9
<1> HIDE DEF L, head
<1>11. Runs(o, head \o pgp_push_enc_crypt, L(0), L(1))
    BY <1>3, <1>10, RunsJoin, Zenon
<1>12. Runs(o, head \o pgp_push_enc_crypt \o UnderWriters(1, Try("hash") \o pgp_writer_push_hash), L(0), L(2))
    BY <1>4, <1>11, RunsJoin, Zenon
<1>13. Runs(o, head \o pgp_push_enc_crypt \o UnderWriters(1, Try("hash") \o pgp_writer_push_hash)
                 \o UnderWriters(2, pgp_write_secret_mpis(k)), L(0), L(2))
    BY <1>5, <1>12, RunsJoin, Zenon
<1>14. Runs(o, head \o pgp_push_enc_crypt \o UnderWriters(1, Try("hash") \o pgp_writer_push_hash)
                 \o UnderWriters(2, pgp_write_secret_mpis(k)) \o Pop, L(0), L(1))
    BY <1>3, <1>13, RunsJoin, Zenon
<1>15. Runs(o, head \o pgp_push_enc_crypt \o UnderWriters(1, Try("hash") \o pgp_writer_push_hash)
                 \o UnderWriters(2, pgp_write_secret_mpis(k)) \o Pop \o UnderWriters(1, W(Checkhash)), L(0), L(1))
    BY <1>5, <1>14, RunsJoin, Zenon
<1>16. Runs(o, head \o pgp_push_enc_crypt \o UnderWriters(1, Try("hash") \o pgp_writer_push_hash)
                 \o UnderWriters(2, pgp_write_secret_mpis(k)) \o Pop \o UnderWriters(1, W(Checkhash)) \o Pop, L(0),
                       L(0))
    BY <1>3, <1>15, RunsJoin, Zenon
<1>17. Runs(o, write_protected_seckey_body(k), L(0), L(0))
    BY <1>10, <1>16 DEF write_protected_seckey_body, head
<1> QED BY <1>17 DEF L

\* So does the packet around it.
LEMMA SeckeyRuns == ASSUME NEW o, NEW h, NEW m, NEW f, InLab(0, "up", h, m, f), MayFail(o, f), NEW k
    PROVE Runs(o, pgp_write_struct_seckey(k), Lab(0, "up", h, m, "any", f), Lab(0, "up", h, m, "any", f))
<1> DEFINE L(d) == Lab(d, "up", h, m, "any", f)
<1>0. \A d \in Nat : InLab(d, "up", h, m, f)
    BY DEF InLab
<1>1. \A p : Strict(p, QuietOps, 0) => Runs(o, p, L(0), L(0))
    BY <1>0, StrictQuiet, QuietRuns
<1>2. Runs(o, Under(1, pgp_write_secret_mpis(k)), L(1), L(1))
    <2>1. Quiet(Under(1, pgp_write_secret_mpis(k)), QuietOps, 1)
        BY KeysStrict, StrictUnder, StrictQuiet
    <2> QED BY <1>0, <2>1, QuietRuns
<1>3. Runs(o, pgp_writer_push_sum16, L(0), L(1)) /\ Runs(o, Pop, L(1), L(0))
    <2>1. "sum16" \in InnerWriters /\ 0 \in Nat /\ 0 + 1 = 1
        BY DEF InnerWriters
    <2>2. Runs(o, Push("sum16"), L(0), L(1)) /\ Runs(o, Pop, L(0 + 1), L(0))
        BY <1>0, <2>1, InnerRuns, Zenon
    <2> QED BY <2>1, <2>2 DEF pgp_writer_push_sum16
<1>4. Runs(o, write_protected_seckey_body(k), L(0), L(0))
    BY ProtectedRuns
<1>5. Runs(o, write_pubkey_body(k), L(0), L(0)) /\ Runs(o, Fail, L(0), L(0)) /\ \A n : Runs(o, W(n), L(0), L(0))
    BY <1>1, KeysStrict, OnesStrict
<1>6. \A x \in QuietOps : \A n, w : Runs(o, One(x, n, w), L(0), L(0))
    BY <1>1, OnesStrict
<1>7. \A n, w : Runs(o, One("tag", n, w), L(0), L(0)) /\ Runs(o, One("length", n, w), L(0), L(0)) /\ Runs(o,
      One("packet", n, w), L(0), L(0))
    BY <1>6 DEF QuietOps
<1> HIDE DEF L
<1>8. Runs(o, pgp_writer_push_sum16 \o Under(1, pgp_write_secret_mpis(k)), L(0), L(1))
    BY <1>2, <1>3, RunsJoin, Zenon
<1>9. Runs(o, pgp_writer_push_sum16 \o Under(1, pgp_write_secret_mpis(k)) \o Pop, L(0), L(0))
    BY <1>3, <1>8, RunsJoin, Zenon
<1>10. Runs(o, pgp_writer_push_sum16 \o Under(1, pgp_write_secret_mpis(k)) \o Pop \o W(2), L(0), L(0))
    BY <1>5, <1>9, RunsJoin, Zenon
<1>11. Runs(o, write_pubkey_body(k) \o W(1), L(0), L(0))
    BY <1>5, RunsJoin, Zenon
<1>12. Runs(o, write_seckey_body(k), L(0), L(0))
    BY <1>4, <1>5, <1>10, <1>11, RunsJoin DEF write_seckey_body
<1>13. \A n : Runs(o, Packet("secret key", n, write_seckey_body(k)), L(0), L(0))
    <2> SUFFICES ASSUME NEW n PROVE Runs(o, Packet("secret key", n, write_seckey_body(k)), L(0), L(0))
        OBVIOUS
    <2>1. Runs(o, One("tag", 1, "") \o One("length", n, ""), L(0), L(0))
        BY <1>7, RunsJoin, Zenon
    <2>2. Runs(o, One("tag", 1, "") \o One("length", n, "") \o write_seckey_body(k), L(0), L(0))
        BY <1>12, <2>1, RunsJoin, Zenon
    <2>3. Runs(o, One("tag", 1, "") \o One("length", n, "") \o write_seckey_body(k) \o One("packet", 0, "secret key"), L(0),
          L(0))
        BY <1>7, <2>2, RunsJoin, Zenon
    <2> QED BY <2>3, Zenon DEF Packet
<1>14. Runs(o, pgp_write_struct_seckey(k), L(0), L(0))
    BY <1>5, <1>13 DEF pgp_write_struct_seckey
<1> QED BY <1>14 DEF L

\* A signature is begun: a header of four bytes, and room for the length of what is hashed.
LEMMA StartRuns ==
    ASSUME NEW o, ~Encrypts(o), NEW ph, NEW h, NEW m, NEW top \in {"any", "dash"}, NEW f,
           InLab(0, ph, h, m, f)
    PROVE /\ Runs(o, One("signew", 0, ""), Lab(0, ph, h, m, top, f), Lab(0, ph, 0, 0, top, f))
          /\ Runs(o, start_sig_in_mem, Lab(0, ph, h, 0, top, f), Lab(0, ph, h, 6, top, f))
<1> DEFINE L(i) == Lab(0, ph, h, i, top, f)
<1>0. \A i \in 0 .. 7 : InLab(0, ph, h, i, f)
    BY DEF InLab
<1>1. Runs(o, One("signew", 0, ""), Lab(0, ph, h, m, top, f), Lab(0, ph, 0, 0, top, f))
    BY StepRuns
       DEF AllowedPlace, AllowedSig, AllOps, Step, Lab, Move, MoveD, MovePh, MoveH, MoveM, MoveTop, MoveF
<1>2. Runs(o, One("hashoff", 0, ""), L(4), L(5))
    <2>1. InLab(0, ph, h, 4, f)
        BY <1>0
    <2> QED BY <2>1, StepRuns
       DEF AllowedPlace, AllowedSig, AllOps, Step, Lab, Move, MoveD, MovePh, MoveH, MoveM, MoveTop, MoveF
<1>3. ASSUME NEW n \in {1, 2}, NEW i \in {0, 1, 2, 3, 5}, i = 5 <=> n = 2 PROVE Runs(o, Each(Sig(n)), L(i), L(i + 1))
    <2> DEFINE p == Sig(n)
               r == Each(p)
    <2>1. IsProgram(p) /\ Len(p) = 1 /\ p[1] = Step("sig", n, "signature") /\ DOMAIN p = 1 .. 1
        BY OneIs, ProgramIs DEF Sig
    <2>2. p[1].op = "sig" /\ p[1].n = n /\ p[1].pops = 0
        BY <2>1 DEF Step
    <2>3. IsProgram(r) /\ Len(r) = 1 /\ r[1].op = "sig" /\ r[1].n = n /\ r[1].drop = 0 /\ r[1].pops = 0
        <3> HIDE DEF p
        <3>1. 1 \in DOMAIN p
            BY <2>1
        <3> QED BY <2>1, <2>2, <3>1, EachIs
    <2> HIDE DEF r, p
    <2>4. /\ L(i) \in Labels /\ L(i).d = 0 /\ L(i).ph = ph /\ L(i).h = h /\ L(i).m = i /\ L(i).top = top /\ L(i).f = f
        BY <1>0, LabIs
    <2>5. i + 1 \in Nat /\ (i < 4 \/ i = 5) /\ (i < 4 => n = 1) /\ (i = 5 => n >= 2) /\ i # 4 /\ n \in Nat
        BY <1>3
    <2>6. AllowedPlace(o, L(i), r[1])
        BY <2>3, <2>4 DEF AllowedPlace
    <2>7. AllowedSig(o, L(i), r[1])
        BY <2>3, <2>4, <2>5 DEF AllowedSig
    <2>8. Allowed(o, L(i), r[1])
        BY <2>3, <2>6, <2>7 DEF Allowed, AllowedSkip, AllOps
    <2>9. /\ MoveD(0, r[1]) = 0 /\ MovePh(ph, r[1]) = ph /\ MoveH(h, top, r[1]) = h /\ MoveTop(top, r[1]) = top
          /\ MoveF(f, r[1]) = f /\ MoveM(i, r[1]) = i + 1
        BY <2>3, <2>5 DEF MoveD, MovePh, MoveH, MoveM, MoveTop, MoveF
    <2> HIDE DEF L
    <2>10. Move(L(i), r[1]) = Lab(0, ph, h, i + 1, top, f)
        BY <2>4, <2>9 DEF Move, Lab
    <2>11. Runs(o, r, L(i), Move(L(i), r[1]))
        BY <2>3, <2>4, <2>8, RunsStep
    <2> QED BY <2>10, <2>11 DEF r, p, L
<1> DEFINE E == Each(Sig(1))
<1>4. Each(Sig(1) \o Sig(1) \o Sig(1) \o Sig(1)) = E \o E \o E \o E
    <2>1. IsProgram(Sig(1))
        BY OneIs DEF Sig
    <2>2. IsProgram(Sig(1) \o Sig(1)) /\ Each(Sig(1) \o Sig(1)) = E \o E
        BY <2>1, JoinIs, EachJoin
    <2>3. IsProgram(Sig(1) \o Sig(1) \o Sig(1)) /\ Each(Sig(1) \o Sig(1) \o Sig(1)) = E \o E \o E
        BY <2>1, <2>2, JoinIs, EachJoin
    <2> QED BY <2>1, <2>3, EachJoin
<1>5. Runs(o, E, L(0), L(1)) /\ Runs(o, E, L(1), L(2)) /\ Runs(o, E, L(2), L(3)) /\ Runs(o, E, L(3), L(4)) /\ Runs(o,
      Each(Sig(2)), L(5), L(6))
    <2>1. Runs(o, E, L(0), L(0 + 1)) /\ Runs(o, E, L(1), L(1 + 1)) /\ Runs(o, E, L(2), L(2 + 1)) /\ Runs(o, E, L(3),
          L(3 + 1))
          /\ Runs(o, Each(Sig(2)), L(5), L(5 + 1))
        BY <1>3
    <2>2. 0 + 1 = 1 /\ 1 + 1 = 2 /\ 2 + 1 = 3 /\ 3 + 1 = 4 /\ 5 + 1 = 6
        OBVIOUS
    <2> QED BY <2>1, <2>2
<1> HIDE DEF L, E
<1>6. Runs(o, E \o E, L(0), L(2))
    BY <1>5, RunsJoin, Zenon
<1>7. Runs(o, E \o E \o E, L(0), L(3))
    BY <1>5, <1>6, RunsJoin, Zenon
<1>8. Runs(o, E \o E \o E \o E, L(0), L(4))
    BY <1>5, <1>7, RunsJoin, Zenon
<1>9. Runs(o, Each(Sig(1) \o Sig(1) \o Sig(1) \o Sig(1)) \o One("hashoff", 0, ""), L(0), L(5))
    BY <1>2, <1>4, <1>8, RunsJoin, Zenon
<1>10. Runs(o, Each(One("sigmem", 0, "null")), L(6), L(6))
    <2>1. Strict(One("sigmem", 0, "null"), {"sigmem"}, 0)
        BY StrictOne
    <2>2. Quiet(Each(One("sigmem", 0, "null")), {"sigmem"}, 0)
        BY <2>1, EachQuiet DEF Skipped
    <2>3. L(6) \in Labels /\ L(6).d = 0
        BY <1>0, LabIs DEF L
    <2>4. Stay(o, L(6), {"sigmem"})
        BY DEF Stay, QuietOps
    <2> QED BY <2>2, <2>3, <2>4, RunsQuiet
<1>11. Runs(o, Each(Sig(1) \o Sig(1) \o Sig(1) \o Sig(1)) \o One("hashoff", 0, "") \o Each(Sig(2)), L(0), L(6))
    BY <1>5, <1>9, RunsJoin, Zenon
<1>12. Runs(o, start_sig_in_mem, L(0), L(6))
    BY <1>10, <1>11, RunsJoin, Zenon DEF start_sig_in_mem
<1> QED BY <1>1, <1>12 DEF L

\* Hashing one of the things that are signed.
LEMMA HashRuns ==
    ASSUME NEW o, ~Encrypts(o), NEW ph, NEW h, NEW m, NEW top \in {"any", "dash"}, NEW f, InLab(0, ph, h, m, f),
           h < Len(Items(o)), NEW w, w = Items(o)[h + 1], w \notin {"fields", "trailer"}
    PROVE  Runs(o, Hash(w), Lab(0, ph, h, m, top, f), Lab(0, ph, h + 1, m, top, f))
<1> DEFINE a == Lab(0, ph, h, m, top, f)
           s == Step("hash", 0, w)
<1>1. a.d = 0 /\ a.ph = ph /\ a.h = h /\ a.m = m /\ a.top = top /\ a.f = f
    BY LabIs
<1>2. s.op = "hash" /\ s.what = w /\ s.pops = 0
    BY DEF Step
<1> HIDE DEF a, s
<1>3. AllowedPlace(o, a, s)
    BY <1>1, <1>2 DEF AllowedPlace
<1>4. AllowedSig(o, a, s)
    BY <1>1, <1>2 DEF AllowedSig
<1>5. Move(a, s) = Lab(0, ph, h + 1, m, top, f)
    BY <1>1, <1>2 DEF Move, Lab, MoveD, MovePh, MoveH, MoveM, MoveTop, MoveF
<1>6. "hash" \in AllOps
    BY DEF AllOps
<1> QED BY <1>3, <1>4, <1>5, <1>6, StepRuns DEF Hash, a, s

\* A signature is begun with the things that are hashed first.
LEMMA NewRuns ==
    ASSUME NEW o, ~Encrypts(o), NEW ph, NEW h, NEW m, NEW top \in {"any", "dash"}, NEW f, InLab(0, ph, h, m, f),
           NEW p, NEW n \in Nat, Runs(o, p, Lab(0, ph, 0, 0, top, f), Lab(0, ph, n, 0, top, f))
    PROVE  Runs(o, SigNew(p), Lab(0, ph, h, m, top, f), Lab(0, ph, n, 6, top, f))
<1>1. InLab(0, ph, n, 0, f)
    BY DEF InLab
<1>2. Runs(o, One("signew", 0, ""), Lab(0, ph, h, m, top, f), Lab(0, ph, 0, 0, top, f))
    BY StartRuns
<1>3. Runs(o, start_sig_in_mem, Lab(0, ph, n, 0, top, f), Lab(0, ph, n, 6, top, f))
    BY <1>1, StartRuns
<1>4. Runs(o, One("signew", 0, "") \o p, Lab(0, ph, h, m, top, f), Lab(0, ph, n, 0, top, f))
    BY <1>2, RunsJoin, Zenon
<1> QED BY <1>3, <1>4, RunsJoin, Zenon DEF SigNew

\* The steps that hash a key.
LEMMA HashKeyIs == ASSUME NEW w PROVE HashKey(w) = Try("memory") \o (Hash("0x99") \o Hash(w))
<1>1. [i \in DOMAIN hash_add_key(w) |-> Step("hash", 0, hash_add_key(w)[i])] = Hash("0x99") \o Hash(w)
    BY DEF hash_add_key, Hash, One, Step
<1> QED BY <1>1 DEF HashKey

\* What the checker hashes first.
LEMMA ItemsAre == ASSUME NEW o \in Ops
    PROVE /\ Items(o) \in Seq(Words) /\ Len(Items(o)) \in Nat
          /\ o.name = "generate_primary" => Items(o) = pgp_check_useridcert_sig
          /\ o.name = "generate_subkey" => Items(o) = pgp_check_subkey_sig
          /\ o.name \notin {"generate_primary",
               "generate_subkey"} => Items(o) = IF o.clear THEN <<"text">> ELSE <<"data">>
<1>1. <<"0x99", "primary">> \in Seq(Words) /\ <<"0x99", "subkey">> \in Seq(Words) /\ <<"0xb4",
      "userid">> \in Seq(Words)
      /\ <<"text">> \in Seq(Words) /\ <<"data">> \in Seq(Words)
    BY DEF Words
<1>2. pgp_check_useridcert_sig \in Seq(Words) /\ pgp_check_subkey_sig \in Seq(Words)
    <2> DEFINE S == Words
    <2> HIDE DEF S
    <2>1. \A s, t \in Seq(S) : s \o t \in Seq(S)
        OBVIOUS
    <2> QED BY <1>1, <2>1 DEF pgp_check_useridcert_sig, pgp_check_subkey_sig, hash_add_key, S
<1>3. Items(o) \in Seq(Words)
    BY <1>1, <1>2 DEF Items
<1>4. Len(Items(o)) \in Nat
    BY <1>3
<1>5. o.name = "generate_primary" => Items(o) = pgp_check_useridcert_sig
    BY OpsAssumption DEF Items
<1>6. o.name = "generate_subkey" => Items(o) = pgp_check_subkey_sig
    BY OpsAssumption DEF Items
<1>7. o.name \notin {"generate_primary", "generate_subkey"} => Items(o) = IF o.clear THEN <<"text">> ELSE <<"data">>
    BY DEF Items
<1> QED BY <1>3, <1>4, <1>5, <1>6, <1>7, Zenon

\* What is begun hashes what the one who checks hashes first.
LEMMA StartsRun ==
    ASSUME NEW o \in Ops, ~Encrypts(o), NEW ph, NEW h, NEW m, NEW top \in {"any", "dash"}, NEW f,
           InLab(0, ph, h, m, f)
    PROVE /\ Runs(o, pgp_sig_start, Lab(0, ph, h, m, top, f), Lab(0, ph, 0, 6, top, f))
          /\ o.name = "generate_primary" => Runs(o, pgp_sig_start_key_sig, Lab(0, ph, h, m, top, f), Lab(0, ph,
               Len(Items(o)), 6, top, f))
          /\ o.name = "generate_subkey" => Runs(o, pgp_sig_start_subkey_sig, Lab(0, ph, h, m, top, f), Lab(0, ph,
               Len(Items(o)), 6, top, f))
<1> DEFINE N(i) == Lab(0, ph, i, 0, top, f)
<1>0. \A i \in Nat : InLab(0, ph, i, 0, f)
    BY DEF InLab
<1>1. \A i \in Nat : InLab(0, ph, i, 0, f) /\ N(i) \in Labels
    BY <1>0, LabIs
<1>2. Runs(o, pgp_sig_start, Lab(0, ph, h, m, top, f), Lab(0, ph, 0, 6, top, f))
    <2>1. Runs(o, <<>>, N(0), N(0))
        BY <1>1, RunsNothing
    <2> QED BY <2>1, NewRuns DEF pgp_sig_start
<1>3. \A i \in Nat : Runs(o, Try("memory"), N(i), N(i))
    <2> SUFFICES ASSUME NEW i \in Nat PROVE Runs(o, Try("memory"), N(i), N(i))
        OBVIOUS
    <2>1. N(i) \in Labels /\ N(i).d = 0
        BY <1>1, LabIs
    <2>2. Stay(o, N(i), {"try"})
        BY DEF Stay, QuietOps
    <2>3. Quiet(Try("memory"), {"try"}, 0)
        BY OnesStrict, StrictQuiet
    <2> HIDE DEF N
    <2> QED BY <2>1, <2>2, <2>3, RunsQuiet
<1>4. ASSUME NEW t, t = Items(o), t \in Seq(Words), Len(t) = 4, NEW i \in {0, 1, 2, 3}
      PROVE  Runs(o, Hash(t[i + 1]), N(i), N(i + 1))
    <2>1. i \in Nat /\ i < Len(Items(o)) /\ t[i + 1] = Items(o)[i + 1] /\ InLab(0, ph, i, 0, f)
        BY <1>1, <1>4
    <2>2. t[i + 1] \in Words
        <3> DEFINE V == Words
        <3>1. t \in Seq(V) /\ i + 1 \in 1 .. Len(t)
            BY <1>4
        <3> HIDE DEF V
        <3>2. t[i + 1] \in V
            BY <3>1
        <3> QED BY <3>2 DEF V
    <2>3. t[i + 1] \notin {"fields", "trailer"}
        BY <2>2 DEF Words
    <2> QED BY <2>1, <2>3, HashRuns
<1>5. ASSUME o.name = "generate_primary"
      PROVE  Runs(o, pgp_sig_start_key_sig, Lab(0, ph, h, m, top, f), Lab(0, ph, Len(Items(o)), 6, top, f))
    <2>1. Items(o) = <<"0x99", "primary", "0xb4", "userid">>
        BY <1>5, ItemsAre DEF pgp_check_useridcert_sig, hash_add_key
    <2>2. Len(Items(o)) = 4 /\ Items(o)[0 + 1] = "0x99" /\ Items(o)[1 + 1] = "primary" /\ Items(o)[2 + 1] = "0xb4"
          /\ Items(o)[3 + 1] = "userid" /\ Items(o) \in Seq(Words)
        <3>1. Items(o) \in Seq(Words)
            BY ItemsAre
        <3> QED BY <2>1, <3>1
    <2>3. Runs(o, Hash("0x99"), N(0), N(0 + 1)) /\ Runs(o, Hash("primary"), N(1), N(1 + 1))
          /\ Runs(o, Hash("0xb4"), N(2), N(2 + 1)) /\ Runs(o, Hash("userid"), N(3), N(3 + 1))
        BY <1>4, <2>2
    <2>4. 0 + 1 = 1 /\ 1 + 1 = 2 /\ 2 + 1 = 3 /\ 3 + 1 = 4
        OBVIOUS
    <2> HIDE DEF N
    <2>5. Runs(o, Hash("0x99"), N(0), N(1)) /\ Runs(o, Hash("primary"), N(1), N(2))
          /\ Runs(o, Hash("0xb4"), N(2), N(3)) /\ Runs(o, Hash("userid"), N(3), N(4))
        BY <2>3, <2>4
    <2>6. Runs(o, Hash("0x99") \o Hash("primary"), N(0), N(2)) /\ Runs(o, Try("memory"), N(0), N(0))
        BY <1>3, <2>5, RunsJoin
    <2>7. Runs(o, HashKey("primary"), N(0), N(2))
        BY <2>6, HashKeyIs, RunsJoin
    <2>8. Runs(o, Try("memory") \o HashKey("primary"), N(0), N(2))
        BY <2>6, <2>7, RunsJoin, Zenon
    <2>9. Runs(o, Try("memory") \o HashKey("primary") \o Hash("0xb4"), N(0), N(3))
        BY <2>5, <2>8, RunsJoin, Zenon
    <2>10. Runs(o, Try("memory") \o HashKey("primary") \o Hash("0xb4") \o Hash("userid"), N(0), N(4))
        BY <2>5, <2>9, RunsJoin, Zenon
    <2> QED BY <2>2, <2>10, NewRuns DEF N, pgp_sig_start_key_sig
<1>6. ASSUME o.name = "generate_subkey"
      PROVE  Runs(o, pgp_sig_start_subkey_sig, Lab(0, ph, h, m, top, f), Lab(0, ph, Len(Items(o)), 6, top, f))
    <2>1. Items(o) = <<"0x99", "primary", "0x99", "subkey">>
        BY <1>6, ItemsAre DEF pgp_check_subkey_sig, hash_add_key
    <2>2. Len(Items(o)) = 4 /\ Items(o)[0 + 1] = "0x99" /\ Items(o)[1 + 1] = "primary" /\ Items(o)[2 + 1] = "0x99"
          /\ Items(o)[3 + 1] = "subkey" /\ Items(o) \in Seq(Words)
        <3>1. Items(o) \in Seq(Words)
            BY ItemsAre
        <3> QED BY <2>1, <3>1
    <2>3. Runs(o, Hash("0x99"), N(0), N(0 + 1)) /\ Runs(o, Hash("primary"), N(1), N(1 + 1))
          /\ Runs(o, Hash("0x99"), N(2), N(2 + 1)) /\ Runs(o, Hash("subkey"), N(3), N(3 + 1))
        BY <1>4, <2>2
    <2>4. 0 + 1 = 1 /\ 1 + 1 = 2 /\ 2 + 1 = 3 /\ 3 + 1 = 4
        OBVIOUS
    <2> HIDE DEF N
    <2>5. Runs(o, Hash("0x99"), N(0), N(1)) /\ Runs(o, Hash("primary"), N(1), N(2))
          /\ Runs(o, Hash("0x99"), N(2), N(3)) /\ Runs(o, Hash("subkey"), N(3), N(4))
        BY <2>3, <2>4
    <2>6. Runs(o, Hash("0x99") \o Hash("primary"), N(0), N(2)) /\ Runs(o, Hash("0x99") \o Hash("subkey"), N(2), N(4))
          /\ Runs(o, Try("memory"), N(0), N(0)) /\ Runs(o, Try("memory"), N(2), N(2))
        BY <1>3, <2>5, RunsJoin
    <2>7. Runs(o, HashKey("primary"), N(0), N(2)) /\ Runs(o, HashKey("subkey"), N(2), N(4))
        BY <2>6, HashKeyIs, RunsJoin
    <2>8. Runs(o, Try("memory") \o HashKey("primary"), N(0), N(2))
        BY <2>6, <2>7, RunsJoin, Zenon
    <2>9. Runs(o, Try("memory") \o HashKey("primary") \o HashKey("subkey"), N(0), N(4))
        BY <2>7, <2>8, RunsJoin, Zenon
    <2> QED BY <2>2, <2>9, NewRuns DEF N, pgp_sig_start_subkey_sig
<1> QED BY <1>2, <1>5, <1>6

-----------------------------------------------------------------------------
(* A whole signature, and the operations, as runs. *)

\* A signature is ended and written.
LEMMA TailRuns ==
    ASSUME NEW o \in Ops, ~Encrypts(o), NEW ph \in Phases, NEW f, MayFail(o, f), NEW k, k.n \in Nat,
           NEW hash
    PROVE /\ Runs(o, pgp_sig_end_hashed_subpkts, Lab(0, ph, Len(Items(o)), 6, "any", f), Lab(0, ph, Len(Items(o)), 7,
               "any", f))
          /\ Runs(o, pgp_sig_write(k, hash), Lab(0, ph, Len(Items(o)), 7, "any", f), Lab(0, ph, Len(Items(o)) + 2, 7,
               "any", f))
<1> DEFINE n == Len(Items(o))
           L(h, m) == Lab(0, ph, h, m, "any", f)
<1>1. n \in Nat /\ \A h \in Nat : \A m \in 0 .. 7 : InLab(0, ph, h, m, f)
    BY ItemsAre DEF InLab, MayFail
<1>2. Runs(o, One("hashlen", 0, ""), L(n, 6), L(n, 7))
    <2>1. InLab(0, ph, n, 6, f)
        BY <1>1
    <2> HIDE DEF n
    <2> QED BY <2>1, StepRuns
       DEF AllowedPlace, AllowedSig, AllOps, Step, Lab, Move, MoveD, MovePh, MoveH, MoveM, MoveTop, MoveF
<1>3. Runs(o, One("unhashed", 0, ""), L(n, 7), L(n, 7))
    <2>1. InLab(0, ph, n, 7, f)
        BY <1>1
    <2> HIDE DEF n
    <2> QED BY <2>1, StepRuns
       DEF AllowedPlace, AllowedSig, AllOps, Step, Lab, Move, MoveD, MovePh, MoveH, MoveM, MoveTop, MoveF
<1>4. Runs(o, Hash("fields"), L(n, 7), L(n + 1, 7))
    <2>1. InLab(0, ph, n, 7, f)
        BY <1>1
    <2> QED BY <2>1, StepRuns
       DEF AllowedPlace, AllowedSig, AllOps, Step, Lab, Move, MoveD, MovePh, MoveH, MoveM, MoveTop, MoveF,
           Hash
<1>5. Runs(o, Hash("trailer"), L(n + 1, 7), L(n + 2, 7))
    <2>1. InLab(0, ph, n + 1, 7, f) /\ (n + 1) + 1 = n + 2
        BY <1>1
    <2> QED BY <2>1, StepRuns
       DEF AllowedPlace, AllowedSig, AllOps, Step, Lab, Move, MoveD, MovePh, MoveH, MoveM, MoveTop, MoveF,
           Hash
<1>6. \A h \in Nat : \A m \in {6, 7} : \A p : Quiet(p, SigOps, 0) => Runs(o, p, L(h, m), L(h, m))
    <2>1. \A h \in Nat : \A m \in {6, 7} : InLab(0, ph, h, m, f)
        BY <1>1
    <2>2. "any" \in {"any", "dash"}
        OBVIOUS
    <2> QED BY <2>1, <2>2, SigRuns, Zenon
<1>7. Quiet(Sig(2), SigOps, 0) /\ Quiet(Sign(k, hash), SigOps, 0)
    BY SigsQuiet, StrictQuiet
<1>8. Runs(o, Sig(2), L(n, 7), L(n, 7)) /\ Runs(o, Sign(k, hash), L(n + 2, 7), L(n + 2, 7))
    <2>1. n + 2 \in Nat
        BY <1>1
    <2> QED BY <1>1, <1>6, <1>7, <2>1
<1>9. \A x \in {"tag", "siglength", "sigbody", "packet"} : \A c, w : Runs(o, One(x, c, w), L(n + 2, 7), L(n + 2, 7))
    <2>1. {"tag", "siglength", "sigbody", "packet"} \subseteq QuietOps
        BY DEF QuietOps
    <2>2. \A x \in {"tag", "siglength", "sigbody", "packet"} : \A c, w : Quiet(One(x, c, w), QuietOps, 0)
        BY <2>1, OnesStrict, StrictQuiet
    <2>3. n + 2 \in Nat /\ InLab(0, ph, n + 2, 7, f)
        BY <1>1
    <2> QED BY <2>2, <2>3, QuietRuns
<1>10. Runs(o, Fail, L(n, 7), L(n + 2, 7))
    <2>1. InLab(0, ph, n, 7, f) /\ InLab(0, ph, n + 2, 7, f)
        BY <1>1
    <2>2. L(n, 7) \in Labels /\ L(n + 2, 7) \in Labels /\ L(n, 7).d = 0 /\ L(n, 7).f = f
        BY <2>1, LabIs
    <2> HIDE DEF L
    <2> QED BY <2>2, RunsFail DEF MayFail
<1> HIDE DEF L, n
<1>11. Runs(o, pgp_sig_end_hashed_subpkts, L(n, 6), L(n, 7))
    BY <1>2, <1>8, RunsJoin, Zenon DEF pgp_sig_end_hashed_subpkts
<1>12. Runs(o, One("unhashed", 0, "") \o Hash("fields"), L(n, 7), L(n + 1, 7))
    BY <1>3, <1>4, RunsJoin, Zenon
<1>13. Runs(o, One("unhashed", 0, "") \o Hash("fields") \o Hash("trailer"), L(n, 7), L(n + 2, 7))
    BY <1>5, <1>12, RunsJoin, Zenon
<1>14. Runs(o, One("unhashed", 0, "") \o Hash("fields") \o Hash("trailer") \o Sign(k, hash), L(n, 7), L(n + 2, 7))
    BY <1>8, <1>13, RunsJoin, Zenon
<1>15. Runs(o, One("unhashed", 0, "") \o Hash("fields") \o Hash("trailer") \o Sign(k, hash) \o One("tag", 1, ""), L(n,
      7), L(n + 2, 7))
    BY <1>9, <1>14, RunsJoin
<1>16. Runs(o, One("unhashed", 0, "") \o Hash("fields") \o Hash("trailer") \o Sign(k, hash) \o One("tag", 1, "")
                 \o One("siglength", 0, ""), L(n, 7), L(n + 2, 7))
    BY <1>9, <1>15, RunsJoin
<1>17. Runs(o, One("unhashed", 0, "") \o Hash("fields") \o Hash("trailer") \o Sign(k, hash) \o One("tag", 1, "")
                 \o One("siglength", 0, "") \o One("sigbody", 0, ""), L(n, 7), L(n + 2, 7))
    BY <1>9, <1>16, RunsJoin
<1>18. Runs(o, One("unhashed", 0, "") \o Hash("fields") \o Hash("trailer") \o Sign(k, hash) \o One("tag", 1, "")
                 \o One("siglength", 0, "") \o One("sigbody", 0, "") \o One("packet", 0, "signature"), L(n, 7), L(n + 2, 7))
    BY <1>9, <1>17, RunsJoin
<1>19. Runs(o, pgp_sig_write(k, hash), L(n, 7), L(n + 2, 7))
    BY <1>10, <1>18 DEF pgp_sig_write
<1> QED BY <1>11, <1>19 DEF L, n

\* From the times to the signature itself.
LEMMA SigTailRuns ==
    ASSUME NEW o \in Ops, ~Encrypts(o), NEW ph \in Phases, NEW f, MayFail(o, f), NEW k, k.n \in Nat,
           NEW hash
    PROVE Runs(o, SigTail(k, hash), Lab(0, ph, Len(Items(o)), 6, "any", f), Lab(0, ph, Len(Items(o)) + 2, 7, "any",
          f))
<1> DEFINE a == Lab(0, ph, Len(Items(o)), 6, "any", f)
           b == Lab(0, ph, Len(Items(o)), 7, "any", f)
           c == Lab(0, ph, Len(Items(o)) + 2, 7, "any", f)
<1>1. InLab(0, ph, Len(Items(o)), 6, f)
    BY ItemsAre DEF InLab, MayFail
<1>2. \A p : Quiet(p, SigOps, 0) => Runs(o, p, a, a)
    BY <1>1, SigRuns
<1>3. Runs(o, pgp_sig_add_time, a, a) /\ Runs(o, pgp_sig_add_issuer_keyid, a, a)
    BY <1>2, SigsQuiet DEF pgp_sig_add_time, pgp_sig_add_issuer_keyid
<1>4. Runs(o, Try("keyid"), a, a)
    <2>1. Quiet(Try("keyid"), SigOps, 0)
        BY OnesStrict, StrictQuiet, QuietMore DEF SigOps
    <2> QED BY <1>2, <2>1
<1>5. Runs(o, pgp_sig_end_hashed_subpkts, a, b) /\ Runs(o, pgp_sig_write(k, hash), b, c)
    BY TailRuns
<1> HIDE DEF a, b, c
<1>6. Runs(o, pgp_sig_add_time \o pgp_sig_add_time \o Try("keyid") \o pgp_sig_add_issuer_keyid, a, a)
    BY <1>3, <1>4, RunsJoin
<1>7. Runs(o, pgp_sig_add_time \o pgp_sig_add_time \o Try("keyid") \o pgp_sig_add_issuer_keyid
      \o pgp_sig_end_hashed_subpkts, a, b)
    BY <1>5, <1>6, RunsJoin, Zenon
<1>8. Runs(o, SigTail(k, hash), a, c)
    BY <1>5, <1>7, RunsJoin, Zenon DEF SigTail
<1> QED BY <1>8 DEF a, c

\* The signatures of generated keys.
LEMMA SelfsigsRun ==
    ASSUME NEW o \in Ops, NEW ph \in Phases, NEW h \in Nat, NEW m \in 0 .. 7, NEW f, MayFail(o, f), NEW k,
           k.n \in Nat, NEW hash
    PROVE /\ o.name = "generate_primary"
               => Runs(o, pgp_write_selfsig_cert(k, hash), Lab(0, ph, h, m, "any", f), Lab(0, ph, Len(Items(o)) + 2,
                     7, "any", f))
          /\ o.name = "generate_subkey"
               => Runs(o, pgp_write_selfsig_binding(k, hash), Lab(0, ph, h, m, "any", f), Lab(0, ph,
                     Len(Items(o)) + 2, 7, "any", f))
<1> DEFINE s == Lab(0, ph, h, m, "any", f)
           a == Lab(0, ph, Len(Items(o)), 6, "any", f)
           b == Lab(0, ph, Len(Items(o)), 7, "any", f)
           c == Lab(0, ph, Len(Items(o)) + 2, 7, "any", f)
<1> SUFFICES ASSUME o.name \in {"generate_primary", "generate_subkey"}
             PROVE  /\ o.name = "generate_primary" => Runs(o, pgp_write_selfsig_cert(k, hash), s, c)
                    /\ o.name = "generate_subkey" => Runs(o, pgp_write_selfsig_binding(k, hash), s, c)
    OBVIOUS
<1>0. ~Encrypts(o)
    BY DEF Encrypts
<1>1. InLab(0, ph, Len(Items(o)), 6, f) /\ InLab(0, ph, h, m, f)
    BY ItemsAre DEF InLab, MayFail
<1>2. \A p : Quiet(p, SigOps, 0) => Runs(o, p, a, a)
    BY <1>0, <1>1, SigRuns
<1>3. /\ Runs(o, pgp_sig_add_time, a, a) /\ Runs(o, pgp_sig_add_issuer_keyid, a, a) /\ Runs(o, pgp_sig_add_key_flags,
           a, a)
      /\ Runs(o, pgp_sig_add_primary_userid, a, a) /\ Runs(o, pgp_sig_add_prefs(4), a, a) /\ Runs(o,
           pgp_sig_add_prefs(5), a, a)
    <2>1. \A n \in Nat : Runs(o, Subpacket(n), a, a) /\ Runs(o, Each(Subpacket(n)), a, a)
        BY <1>2, SigsQuiet
    <2> HIDE DEF a
    <2> QED BY <2>1
       DEF pgp_sig_add_time, pgp_sig_add_issuer_keyid, pgp_sig_add_key_flags, pgp_sig_add_primary_userid,
           pgp_sig_add_prefs, If
<1>4. \A w : Runs(o, Try(w), s, s)
    BY <1>1, OnesStrict, StrictQuiet, QuietRuns
<1>5. Runs(o, pgp_sig_end_hashed_subpkts, a, b) /\ Runs(o, pgp_sig_write(k, hash), b, c)
    BY <1>0, TailRuns
<1>6. /\ o.name = "generate_primary" => Runs(o, pgp_sig_start_key_sig, s, a)
      /\ o.name = "generate_subkey" => Runs(o, pgp_sig_start_subkey_sig, s, a)
    BY <1>0, <1>1, StartsRun
<1> HIDE DEF s, a, b, c
<1>7. Runs(o, Try("rng") \o Try("keyid") \o Try("memory"), s, s)
    BY <1>4, RunsJoin
<1>8. ASSUME o.name = "generate_primary" PROVE Runs(o, pgp_write_selfsig_cert(k, hash), s, c)
    <2>1. Runs(o, Try("rng") \o Try("keyid") \o Try("memory") \o pgp_sig_start_key_sig, s, a)
        BY <1>6, <1>7, <1>8, RunsJoin, Zenon
    <2>2. Runs(o, Try("rng") \o Try("keyid") \o Try("memory") \o pgp_sig_start_key_sig \o pgp_sig_add_time
          \o pgp_sig_add_time
                    \o pgp_sig_add_key_flags, s, a)
        BY <1>3, <2>1, RunsJoin
    <2>3. Runs(o, Try("rng") \o Try("keyid") \o Try("memory") \o pgp_sig_start_key_sig \o pgp_sig_add_time
          \o pgp_sig_add_time
                    \o pgp_sig_add_key_flags \o pgp_sig_add_primary_userid \o pgp_sig_add_prefs(4)
                          \o pgp_sig_add_prefs(5), s, a)
        BY <1>3, <2>2, RunsJoin
    <2>4. Runs(o, Try("rng") \o Try("keyid") \o Try("memory") \o pgp_sig_start_key_sig \o pgp_sig_add_time
          \o pgp_sig_add_time
                    \o pgp_sig_add_key_flags \o pgp_sig_add_primary_userid \o pgp_sig_add_prefs(4)
                          \o pgp_sig_add_prefs(5)
                    \o pgp_sig_add_issuer_keyid, s, a)
        BY <1>3, <2>3, RunsJoin, Zenon
    <2>5. Runs(o, Try("rng") \o Try("keyid") \o Try("memory") \o pgp_sig_start_key_sig \o pgp_sig_add_time
          \o pgp_sig_add_time
                    \o pgp_sig_add_key_flags \o pgp_sig_add_primary_userid \o pgp_sig_add_prefs(4)
                          \o pgp_sig_add_prefs(5)
                    \o pgp_sig_add_issuer_keyid \o pgp_sig_end_hashed_subpkts, s, b)
        BY <1>5, <2>4, RunsJoin, Zenon
    <2> QED BY <1>5, <2>5, RunsJoin, Zenon DEF pgp_write_selfsig_cert
<1>9. ASSUME o.name = "generate_subkey" PROVE Runs(o, pgp_write_selfsig_binding(k, hash), s, c)
    <2>1. Runs(o, Try("rng") \o Try("keyid") \o Try("memory") \o pgp_sig_start_subkey_sig, s, a)
        BY <1>6, <1>7, <1>9, RunsJoin, Zenon
    <2>2. Runs(o, Try("rng") \o Try("keyid") \o Try("memory") \o pgp_sig_start_subkey_sig \o pgp_sig_add_time
          \o pgp_sig_add_time
                    \o pgp_sig_add_key_flags \o pgp_sig_add_issuer_keyid, s, a)
        BY <1>3, <2>1, RunsJoin
    <2>3. Runs(o, Try("rng") \o Try("keyid") \o Try("memory") \o pgp_sig_start_subkey_sig \o pgp_sig_add_time
          \o pgp_sig_add_time
                    \o pgp_sig_add_key_flags \o pgp_sig_add_issuer_keyid \o pgp_sig_end_hashed_subpkts, s, b)
        BY <1>5, <2>2, RunsJoin, Zenon
    <2> QED BY <1>5, <2>3, RunsJoin, Zenon DEF pgp_write_selfsig_binding
<1> QED BY <1>8, <1>9

\* Text is signed in clear, then armor follows; or armor comes first.
LEMMA ClearRuns == ASSUME NEW o \in Ops, o.clear, NEW f, MayFail(o, f), NEW len
    PROVE Runs(o, pgp_writer_push_clearsigned \o One("data", len, "text") \o pgp_writer_push_armored(TRUE),
               Lab(0, "up", 0, 6, "any", f), Lab(0, "up", 1, 6, "any", f))
<1> DEFINE a == Lab(0, "up", 0, 6, "any", f)
           b == Lab(0, "up", 0, 6, "dash", f)
           c == Lab(0, "up", 1, 6, "dash", f)
           e == Lab(0, "up", 1, 6, "any", f)
<1>1. InLab(0, "up", 0, 6, f) /\ InLab(0, "up", 1, 6, f)
    BY DEF InLab, MayFail, Phases
<1>2. \A n : Quiet(Try(n), QuietOps, 0) /\ Quiet(Armor(n), QuietOps, 0)
    BY OnesStrict, StrictQuiet
<1>3. \A n : Runs(o, Try(n), a, a) /\ Runs(o, Armor(n), a, a) /\ Runs(o, Try(n), c, c)
    BY <1>1, <1>2, QuietRuns
<1>4. o.name \in {"sign_file", "sign_buf"} /\ Items(o) = <<"text">>
    BY OpsAssumption, ItemsAre
<1>5. Runs(o, Push("dash"), a, b)
    BY <1>1, StepRuns
       DEF AllowedPlace, AllowedSig, AllOps, Step, Lab, Move, MoveD, MovePh, MoveH, MoveM, MoveTop, MoveF,
           Push, InnerWriters
<1>6. Runs(o, One("data", len, "text"), b, c)
    BY <1>1, <1>4, StepRuns
       DEF AllowedPlace, AllowedSig, AllOps, Step, Lab, Move, MoveD, MovePh, MoveH, MoveM, MoveTop, MoveF
<1>7. Runs(o, Pop, c, e)
    <2>1. e = Move(c, Step("pop", 0, ""))
        BY DEF Step, Lab, Move, MoveD, MovePh, MoveH, MoveM, MoveTop, MoveF
    <2>2. AllowedPlace(o, c, Step("pop", 0, "")) /\ AllowedSig(o, c, Step("pop", 0, "")) /\ "pop" \in AllOps
        BY DEF AllowedPlace, AllowedSig, AllOps, Step, Lab
    <2> QED BY <1>1, <2>1, <2>2, StepRuns, Zenon DEF Pop
<1> HIDE DEF a, b, c, e
<1>9. Runs(o, pgp_writer_push_clearsigned, a, b)
    <2>1. Runs(o, Try("memory") \o Armor(42) \o Armor(4) \o Armor(4) \o Try("memory"), a, a)
        BY <1>3, RunsJoin
    <2> QED BY <1>5, <2>1, RunsJoin, Zenon DEF pgp_writer_push_clearsigned
<1>11. Runs(o, pgp_writer_push_armored(TRUE), c, e)
    <2>1. \A n : Runs(o, Armor(n), e, e) /\ Runs(o, Try(n), e, e)
        BY <1>1, <1>2, QuietRuns DEF e
    <2>2. Runs(o, Push("linebreak"), e, e) /\ Runs(o, Push("base64"), e, e)
        BY <1>1, <1>4, StepRuns
           DEF AllowedPlace, AllowedSig, AllOps, Step, Lab, Move, MoveD, MovePh, MoveH, MoveM, MoveTop,
               MoveF, Push, InnerWriters, e
    <2>3. Runs(o, Pop \o Armor(2) \o Armor(31) \o Armor(15), c, e)
        BY <1>7, <2>1, RunsJoin
    <2>4. Runs(o, Try("armor memory") \o (Pop \o Armor(2) \o Armor(31) \o Armor(15)), c, e)
        BY <1>3, <2>3, RunsJoin
    <2>5. Runs(o, Try("armor memory") \o (Pop \o Armor(2) \o Armor(31) \o Armor(15)) \o Push("linebreak")
          \o Try("armor memory")
          \o Push("base64"), c, e)
        BY <2>1, <2>2, <2>4, RunsJoin
    <2> QED BY <2>5 DEF pgp_writer_push_armored
<1>12. Runs(o, pgp_writer_push_clearsigned \o One("data", len, "text"), a, c)
    BY <1>6, <1>9, RunsJoin, Zenon
<1>13. Runs(o, pgp_writer_push_clearsigned \o One("data", len, "text") \o pgp_writer_push_armored(TRUE), a, e)
    BY <1>11, <1>12, RunsJoin, Zenon
<1> QED BY <1>13 DEF a, e

\* A call that may fail.
LEMMA TryRuns == ASSUME NEW o, NEW ph, NEW h, NEW m, NEW f, InLab(0, ph, h, m, f), NEW w
    PROVE Runs(o, Try(w), Lab(0, ph, h, m, "any", f), Lab(0, ph, h, m, "any", f))
<1> DEFINE a == Lab(0, ph, h, m, "any", f)
<1>1. a \in Labels /\ a.d = 0
    BY LabIs
<1>2. Quiet(Try(w), {"try"}, 0)
    BY OnesStrict, StrictQuiet
<1> HIDE DEF a
<1>3. Stay(o, a, {"try"})
    BY DEF Stay, QuietOps
<1>4. Runs(o, Try(w), a, a)
    BY <1>1, <1>2, <1>3, RunsQuiet
<1> QED BY <1>4 DEF a

\* Armor, if it is asked for; if the writer cannot be pushed, the output goes on without.
LEMMA ArmorRuns == ASSUME NEW o \in Ops, NEW h, NEW m, NEW f, InLab(0, "up", h, m, f)
    PROVE Runs(o, ArmorIf(o), Lab(0, "up", h, m, "any", f), Lab(0, "up", h, m, "any", f))
<1> DEFINE a == Lab(0, "up", h, m, "any", f)
           O == {"write", "try", "push"}
<1>1. a \in Labels /\ a.d = 0 /\ a.ph = "up" /\ a.top = "any"
    BY LabIs
<1> HIDE DEF a
<1>2. o.armor => Stay(o, a, O)
    BY <1>1 DEF Stay, QuietOps
<1>3. Quiet(Ignored(pgp_writer_push_armored(FALSE)), O, a.d)
    BY <1>1, PushesQuiet
<1> HIDE DEF O
<1>4. o.armor => Runs(o, Ignored(pgp_writer_push_armored(FALSE)), a, a)
    BY <1>1, <1>2, <1>3, RunsQuiet, Zenon
<1>5. Runs(o, <<>>, a, a)
    BY <1>1, RunsNothing
<1>6. o.armor \in BOOLEAN
    BY OpsAssumption
<1>7. Runs(o, ArmorIf(o), a, a)
    BY <1>4, <1>5, <1>6 DEF ArmorIf, If
<1> QED BY <1>7 DEF a

\* What the operations that sign do after the signature was begun.
LEMMA SignedRuns ==
    ASSUME NEW o \in Ops, o.name \in {"sign_file", "sign_buf", "sign_detached", "sign_memory_detached"},
           NEW hash
    PROVE /\ Len(Items(o)) = 1
          /\ ~o.clear => Runs(o, Hash("data"), Lab(0, "up", 0, 6, "any", "may"), Lab(0, "up", 1, 6, "any", "may"))
          /\ Runs(o, SigTail(o.key, hash), Lab(0, "up", 1, 6, "any", "may"), Lab(0, "up", 3, 7, "any", "may"))
          /\ Runs(o, Signed(o), Lab(0, "up", 0, 6, "any", "may"), Lab(0, "up", 3, 7, "any", "may"))
<1> DEFINE a == Lab(0, "up", 0, 6, "any", "may")
           b == Lab(0, "up", 1, 6, "any", "may")
           c == Lab(0, "up", 3, 7, "any", "may")
<1>0. ~Encrypts(o) /\ MayFail(o, "may") /\ "up" \in Phases /\ InLab(0, "up", 0, 6, "may") /\ InLab(0, "up", 1, 6,
      "may")
    BY DEF Encrypts, MayFail, InLab, Phases
<1>1. o.key.n \in Nat /\ o.clear \in BOOLEAN
    BY OpsAssumption
<1>2. Items(o) = (IF o.clear THEN <<"text">> ELSE <<"data">>) /\ Len(Items(o)) = 1
    BY ItemsAre
<1>3. \A x : Runs(o, SigTail(o.key, x), b, c)
    <2>1. \A x : Runs(o, SigTail(o.key, x), Lab(0, "up", Len(Items(o)), 6, "any", "may"), Lab(0, "up",
          Len(Items(o)) + 2, 7, "any", "may"))
        BY <1>0, <1>1, SigTailRuns
    <2>2. Len(Items(o)) + 2 = 3
        BY <1>2
    <2> QED BY <1>2, <2>1, <2>2
<1>4. ASSUME ~o.clear PROVE Runs(o, Hash("data"), a, b)
    <2>1. Items(o)[1] = "data"
        BY <1>2, <1>4
    <2> QED BY <1>0, <1>2, <1>4, <2>1, StepRuns
       DEF AllowedPlace, AllowedSig, AllOps, Step, Lab, Move, MoveD, MovePh, MoveH, MoveM, MoveTop, MoveF,
           Hash
<1>5. ASSUME o.clear PROVE Runs(o, pgp_writer_push_clearsigned \o One("data", o.doc.len, "text")
      \o pgp_writer_push_armored(TRUE), a, b)
    BY <1>0, <1>5, ClearRuns
<1>6. Runs(o, ArmorIf(o), a, a)
    BY <1>0, ArmorRuns
<1>7. Runs(o, pgp_write_one_pass_sig, b, b) /\ Runs(o, pgp_write_litdata(o.doc), b, b)
    BY <1>0, PacketsStrict, StrictQuiet, QuietRuns
<1> HIDE DEF a, b, c
<1>8. ASSUME ~o.clear PROVE Runs(o, ArmorIf(o) \o Hash("data") \o pgp_write_one_pass_sig \o pgp_write_litdata(o.doc),
      a, b)
    <2>1. Runs(o, ArmorIf(o) \o Hash("data"), a, b)
        BY <1>4, <1>6, <1>8, RunsJoin, Zenon
    <2> QED BY <1>7, <2>1, RunsJoin
<1>9. Runs(o, Signed(o), a, c)
    <2>1. CASE o.clear
        BY <1>3, <1>5, <2>1, RunsJoin DEF Signed
    <2>2. CASE ~o.clear
        BY <1>3, <1>8, <2>2, RunsJoin DEF Signed
    <2> QED BY <2>1, <2>2
<1> QED BY <1>2, <1>3, <1>4, <1>9 DEF a, b, c

\* Where every operation starts.
Start == Lab(0, "before", 0, 0, "any", "may")

\* The program runs from the start to the end.
Ended(o, p) == \E e : Runs(o, p, Start, e) /\ e.ph = "over"

\* The four operations that sign.
LEMMA SignsRun == ASSUME NEW o \in Ops
    PROVE /\ o.name = "sign_file" => Ended(o, pgp_sign_file(o))
          /\ o.name = "sign_buf" => Ended(o, pgp_sign_buf(o))
          /\ o.name = "sign_detached" => Ended(o, pgp_sign_detached(o))
          /\ o.name = "sign_memory_detached" => Ended(o, pgp_sign_memory_detached(o))
<1> SUFFICES ASSUME o.name \in {"sign_file", "sign_buf", "sign_detached", "sign_memory_detached"}
             PROVE  /\ o.name = "sign_file" => Ended(o, pgp_sign_file(o))
                    /\ o.name = "sign_buf" => Ended(o, pgp_sign_buf(o))
                    /\ o.name = "sign_detached" => Ended(o, pgp_sign_detached(o))
                    /\ o.name = "sign_memory_detached" => Ended(o, pgp_sign_memory_detached(o))
    OBVIOUS
<1> DEFINE L(ph, h, m) == Lab(0, ph, h, m, "any", "may")
<1>0. /\ ~Encrypts(o) /\ (IsFile(o) <=> o.name \in {"sign_file", "sign_detached"})
      /\ \A ph \in Phases : \A h \in Nat : \A m \in 0 .. 7 : InLab(0, ph, h, m, "may")
      /\ {"before", "up", "closed", "over"} \subseteq Phases
      /\ Final(o) = IF o.name = "sign_memory_detached" THEN "closed" ELSE "up"
    BY DEF Encrypts, IsFile, InLab, Phases, Final
<1>1. /\ InLab(0, "before", 0, 0, "may") /\ InLab(0, "before", 0, 6, "may") /\ InLab(0, "up", 0, 0, "may") /\ InLab(0,
           "up", 0, 6, "may")
      /\ InLab(0, "up", 3, 7, "may") /\ InLab(0, "closed", 3, 7, "may")
    BY <1>0
<1>2. \A w : /\ Runs(o, Try(w), L("before", 0, 0), L("before", 0, 0)) /\ Runs(o, Try(w), L("up", 0, 0), L("up", 0, 0))
             /\ Runs(o, Try(w), L("up", 0, 6), L("up", 0, 6)) /\ Runs(o, Try(w), L("closed", 3, 7), L("closed", 3, 7))
    BY <1>1, TryRuns
<1>3. /\ Runs(o, pgp_sig_start, L("before", 0, 0), L("before", 0, 6)) /\ Runs(o, pgp_sig_start, L("up", 0, 0), L("up",
           0, 6))
    BY <1>0, <1>1, StartsRun
<1>4. /\ ~IsFile(o) => /\ Runs(o, pgp_setup_memory_write, L("before", 0, 0), L("up", 0, 0))
                       /\ Runs(o, pgp_setup_memory_write, L("before", 0, 6), L("up", 0, 6))
      /\ IsFile(o) => Runs(o, open_output_file, L("before", 0, 0), L("up", 0, 0))
      /\ Runs(o, Close, L("up", 3, 7), L("closed", 3, 7))
      /\ Runs(o, Ok, L(Final(o), 3, 7), L("over", 3, 7))
    BY <1>1, PlacesRun DEF open_output_file
<1>5. Runs(o, Signed(o), L("up", 0, 6), L("up", 3, 7)) /\ \A x : Runs(o, SigTail(o.key, x), L("up", 1, 6), L("up", 3,
      7))
    BY SignedRuns
<1>6. ~o.clear => Runs(o, Hash("data"), L("up", 0, 6), L("up", 1, 6))
    BY SignedRuns
<1>7. Runs(o, ArmorIf(o), L("up", 0, 6), L("up", 0, 6))
    BY <1>1, ArmorRuns
<1>8. Start = L("before", 0, 0) /\ L("over", 3, 7).ph = "over"
    BY DEF Start, Lab
<1>9. o.name \in {"sign_detached", "sign_memory_detached"} => ~o.clear
    BY OpsAssumption
<1> HIDE DEF L
<1>10. ASSUME o.name = "sign_file" PROVE Ended(o, pgp_sign_file(o))
    <2>1. Runs(o, Try("hash algorithm") \o Try("read") \o open_output_file, L("before", 0, 0), L("up", 0, 0))
        BY <1>0, <1>2, <1>4, <1>10, RunsJoin
    <2>2. Runs(o, Try("hash algorithm") \o Try("read") \o open_output_file \o Try("memory") \o pgp_sig_start,
          L("before", 0, 0), L("up", 0, 6))
        BY <1>2, <1>3, <2>1, RunsJoin
    <2>3. Runs(o, Try("hash algorithm") \o Try("read") \o open_output_file \o Try("memory") \o pgp_sig_start
          \o Signed(o), L("before", 0, 0), L("up", 3, 7))
        BY <1>5, <2>2, RunsJoin
    <2>4. Runs(o, pgp_sign_file(o), L("before", 0, 0), L("over", 3, 7))
        BY <1>0, <1>4, <1>10, <2>3, RunsJoin DEF pgp_sign_file
    <2> QED BY <1>8, <2>4 DEF Ended
<1>11. ASSUME o.name = "sign_buf" PROVE Ended(o, pgp_sign_buf(o))
    <2>1. Runs(o, Try("hash algorithm") \o Try("memory") \o pgp_sig_start, L("before", 0, 0), L("before", 0, 6))
        BY <1>2, <1>3, RunsJoin
    <2>2. Runs(o, Try("hash algorithm") \o Try("memory") \o pgp_sig_start \o pgp_setup_memory_write, L("before", 0,
          0), L("up", 0, 6))
        BY <1>0, <1>4, <1>11, <2>1, RunsJoin
    <2>3. Runs(o, Try("hash algorithm") \o Try("memory") \o pgp_sig_start \o pgp_setup_memory_write \o Signed(o),
          L("before", 0, 0), L("up", 3, 7))
        BY <1>5, <2>2, RunsJoin
    <2>4. Runs(o, pgp_sign_buf(o), L("before", 0, 0), L("over", 3, 7))
        BY <1>0, <1>4, <1>11, <2>3, RunsJoin DEF pgp_sign_buf
    <2> QED BY <1>8, <2>4 DEF Ended
<1>12. ASSUME o.name = "sign_detached" PROVE Ended(o, pgp_sign_detached(o))
    <2>1. Runs(o, Try("hash algorithm") \o open_output_file \o Try("memory"), L("before", 0, 0), L("up", 0, 0))
        BY <1>0, <1>2, <1>4, <1>12, RunsJoin
    <2>2. Runs(o, Try("hash algorithm") \o open_output_file \o Try("memory") \o pgp_sig_start \o Try("read")
          \o ArmorIf(o), L("before", 0, 0), L("up", 0, 6))
        BY <1>2, <1>3, <1>7, <2>1, RunsJoin
    <2>3. Runs(o, Try("hash algorithm") \o open_output_file \o Try("memory") \o pgp_sig_start \o Try("read")
          \o ArmorIf(o) \o Hash("data"),
               L("before", 0, 0), L("up", 1, 6))
        BY <1>6, <1>9, <1>12, <2>2, RunsJoin
    <2>4. \A x : Runs(o, Try("hash algorithm") \o open_output_file \o Try("memory") \o pgp_sig_start \o Try("read")
          \o ArmorIf(o) \o Hash("data")
                           \o SigTail(o.key, x), L("before", 0, 0), L("up", 3, 7))
        BY <1>5, <2>3, RunsJoin
    <2>5. Runs(o, pgp_sign_detached(o), L("before", 0, 0), L("over", 3, 7))
        BY <1>0, <1>4, <1>12, <2>4, RunsJoin DEF pgp_sign_detached
    <2> QED BY <1>8, <2>5 DEF Ended
<1>13. ASSUME o.name = "sign_memory_detached" PROVE Ended(o, pgp_sign_memory_detached(o))
    <2>1. Runs(o, Try("memory") \o pgp_setup_memory_write \o pgp_sig_start, L("before", 0, 0), L("up", 0, 6))
        BY <1>0, <1>2, <1>3, <1>4, <1>13, RunsJoin
    <2>2. Runs(o, Try("memory") \o pgp_setup_memory_write \o pgp_sig_start \o ArmorIf(o) \o Hash("data"), L("before",
          0, 0), L("up", 1, 6))
        BY <1>6, <1>7, <1>9, <1>13, <2>1, RunsJoin
    <2>3. Runs(o, Try("memory") \o pgp_setup_memory_write \o pgp_sig_start \o ArmorIf(o) \o Hash("data")
          \o SigTail(o.key, o.hash),
               L("before", 0, 0), L("up", 3, 7))
        BY <1>5, <2>2, RunsJoin
    <2>4. Runs(o, Try("memory") \o pgp_setup_memory_write \o pgp_sig_start \o ArmorIf(o) \o Hash("data")
          \o SigTail(o.key, o.hash)
                    \o Close \o Try("memory"), L("before", 0, 0), L("closed", 3, 7))
        BY <1>2, <1>4, <2>3, RunsJoin
    <2>5. Runs(o, pgp_sign_memory_detached(o), L("before", 0, 0), L("over", 3, 7))
        BY <1>0, <1>4, <1>13, <2>4, RunsJoin DEF pgp_sign_memory_detached
    <2> QED BY <1>8, <2>5 DEF Ended
<1> QED BY <1>10, <1>11, <1>12, <1>13

\* The two operations that encrypt.
LEMMA EncryptsRun == ASSUME NEW o \in Ops
    PROVE /\ o.name = "encrypt_file" => Ended(o, pgp_encrypt_file(o))
          /\ o.name = "encrypt_buf" => Ended(o, pgp_encrypt_buf(o))
<1> SUFFICES ASSUME o.name \in {"encrypt_file", "encrypt_buf"}
             PROVE  /\ o.name = "encrypt_file" => Ended(o, pgp_encrypt_file(o))
                    /\ o.name = "encrypt_buf" => Ended(o, pgp_encrypt_buf(o))
    OBVIOUS
<1> DEFINE L(ph) == Lab(0, ph, 0, 0, "any", "may")
<1>0. /\ Encrypts(o) /\ (IsFile(o) <=> o.name = "encrypt_file") /\ Final(o) = "closed"
      /\ \A ph \in Phases : InLab(0, ph, 0, 0, "may")
      /\ {"before", "up", "closed", "over"} \subseteq Phases
    BY DEF Encrypts, IsFile, InLab, Phases, Final
<1>1. InLab(0, "before", 0, 0, "may") /\ InLab(0, "up", 0, 0, "may") /\ InLab(0, "closed", 0, 0, "may")
    BY <1>0
<1>2. L("up") \in Labels /\ L("up").d = 0 /\ L("up").ph = "up" /\ L("up").top = "any" /\ L("up").f = "may"
    BY <1>1, LabIs
<1>3. Runs(o, Try("read"), L("before"), L("before"))
    BY <1>1, TryRuns
<1>4. /\ ~IsFile(o) => Runs(o, pgp_setup_memory_write, L("before"), L("up"))
      /\ IsFile(o) => Runs(o, pgp_setup_file_write, L("before"), L("up"))
      /\ Runs(o, Close, L("up"), L("closed"))
      /\ o.name = "encrypt_file" => Runs(o, CloseFd, L("closed"), L("closed"))
      /\ Runs(o, Ok, L(Final(o)), L("over"))
    BY <1>1, PlacesRun
<1>5. Runs(o, ArmorIf(o), L("up"), L("up"))
    BY <1>1, ArmorRuns
<1>8. Start = L("before") /\ L("over").ph = "over"
    BY DEF Start, Lab
<1> HIDE DEF L
<1>6. Runs(o, pgp_push_enc_se_ip(o.key, o.doc.len), L("up"), L("up"))
    <2>1. Stay(o, L("up"), PushOps)
        BY <1>0, <1>2 DEF Stay, PushOps, QuietOps
    <2>2. Quiet(pgp_push_enc_se_ip(o.key, o.doc.len), PushOps, L("up").d)
        BY <1>2, PushesQuiet
    <2> QED BY <1>2, <2>1, <2>2, RunsQuiet
<1>7. Runs(o, Data(o.doc), L("up"), L("up"))
    <2>1. Stay(o, L("up"), {"data"})
        BY <1>0, <1>2 DEF Stay, QuietOps
    <2>2. Quiet(Data(o.doc), {"data"}, L("up").d)
        BY <1>2, DataQuiet, OpsAssumption
    <2> QED BY <1>2, <2>1, <2>2, RunsQuiet
<1>9. ASSUME o.name = "encrypt_file" PROVE Ended(o, pgp_encrypt_file(o))
    <2>1. Runs(o, Try("read") \o pgp_setup_file_write \o ArmorIf(o), L("before"), L("up"))
        BY <1>0, <1>3, <1>4, <1>5, <1>9, RunsJoin
    <2>2. Runs(o, Try("read") \o pgp_setup_file_write \o ArmorIf(o) \o pgp_push_enc_se_ip(o.key, o.doc.len)
          \o Data(o.doc), L("before"), L("up"))
        BY <1>6, <1>7, <2>1, RunsJoin
    <2>3. Runs(o, Try("read") \o pgp_setup_file_write \o ArmorIf(o) \o pgp_push_enc_se_ip(o.key, o.doc.len)
          \o Data(o.doc) \o Close \o CloseFd,
               L("before"), L("closed"))
        BY <1>4, <1>9, <2>2, RunsJoin
    <2>4. Runs(o, pgp_encrypt_file(o), L("before"), L("over"))
        BY <1>0, <1>4, <2>3, RunsJoin DEF pgp_encrypt_file
    <2> QED BY <1>8, <2>4 DEF Ended
<1>10. ASSUME o.name = "encrypt_buf" PROVE Ended(o, pgp_encrypt_buf(o))
    <2>1. Runs(o, pgp_setup_memory_write \o ArmorIf(o) \o pgp_push_enc_se_ip(o.key, o.doc.len), L("before"), L("up"))
        BY <1>0, <1>4, <1>5, <1>6, <1>10, RunsJoin
    <2>2. Runs(o, pgp_setup_memory_write \o ArmorIf(o) \o pgp_push_enc_se_ip(o.key, o.doc.len) \o Data(o.doc)
          \o Close, L("before"), L("closed"))
        BY <1>4, <1>7, <2>1, RunsJoin
    <2>3. Runs(o, pgp_encrypt_buf(o), L("before"), L("over"))
        BY <1>0, <1>4, <2>2, RunsJoin DEF pgp_encrypt_buf
    <2> QED BY <1>8, <2>3 DEF Ended
<1> QED BY <1>9, <1>10

\* Keys that are exported or written to memory.
LEMMA ExportsRun == ASSUME NEW o \in Ops
    PROVE /\ o.name = "export_key" => Ended(o, pgp_export_key(o))
          /\ o.name = "export_public_key" => Ended(o, rnp_export_public_key(o))
          /\ o.name = "key_to_rawpacket" => Ended(o, write_key_to_rawpacket(o))
<1> SUFFICES ASSUME o.name \in {"export_key", "export_public_key", "key_to_rawpacket"}
             PROVE  /\ o.name = "export_key" => Ended(o, pgp_export_key(o))
                    /\ o.name = "export_public_key" => Ended(o, rnp_export_public_key(o))
                    /\ o.name = "key_to_rawpacket" => Ended(o, write_key_to_rawpacket(o))
    OBVIOUS
<1> DEFINE L(ph) == Lab(0, ph, 0, 0, "any", "may")
           O == {"write", "packet", "try", "push", "pop", "finalise"}
<1>0. /\ ~IsFile(o) /\ Final(o) = IF o.name = "export_key" THEN "freed" ELSE "up"
      /\ \A ph \in Phases : InLab(0, ph, 0, 0, "may")
      /\ {"before", "up", "closed", "freed", "over"} \subseteq Phases /\ MayFail(o, "may") /\ o.name # "sign_buf"
    BY DEF IsFile, InLab, Phases, Final, MayFail
<1>1. InLab(0, "before", 0, 0, "may") /\ InLab(0, "up", 0, 0, "may") /\ InLab(0, "closed", 0, 0, "may") /\ InLab(0,
      "freed", 0, 0, "may")
    BY <1>0
<1>2. L("up") \in Labels /\ L("up").d = 0 /\ L("up").ph = "up" /\ L("up").top = "any" /\ L("up").f = "may"
    BY <1>1, LabIs
<1>3. Runs(o, Try("memory"), L("up"), L("up"))
    BY <1>1, TryRuns
<1>4. /\ Runs(o, pgp_setup_memory_write, L("before"), L("up"))
      /\ Runs(o, Close, L("up"), L("closed"))
      /\ Runs(o, Free, L("closed"), L("freed"))
      /\ Runs(o, Ok, L(Final(o)), L("over"))
    BY <1>0, <1>1, PlacesRun
<1>5. Runs(o, pgp_write_struct_seckey(o.key), L("up"), L("up"))
    BY <1>0, <1>1, SeckeyRuns
<1>8. Start = L("before") /\ L("over").ph = "over"
    BY DEF Start, Lab
<1> HIDE DEF L
<1>6. \A x \in BOOLEAN : Runs(o, Ignored(pgp_write_xfer_key(o.key, x)), L("up"), L("up"))
    <2>1. Stay(o, L("up"), O)
        BY <1>0, <1>2 DEF Stay, QuietOps
    <2>2. \A x \in BOOLEAN : Quiet(Ignored(pgp_write_xfer_key(o.key, x)), O, L("up").d)
        BY <1>2, XferQuiet
    <2> HIDE DEF O
    <2> QED BY <1>2, <2>1, <2>2, RunsQuiet
<1>7. o.armor \in BOOLEAN
    BY OpsAssumption
<1>9. \A x \in BOOLEAN : Runs(o, pgp_setup_memory_write \o Ignored(pgp_write_xfer_key(o.key, x)) \o Try("memory"),
      L("before"), L("up"))
    BY <1>3, <1>4, <1>6, RunsJoin
<1>10. ASSUME o.name = "export_key" PROVE Ended(o, pgp_export_key(o))
    <2>0. Runs(o, pgp_setup_memory_write \o Ignored(pgp_write_xfer_key(o.key, TRUE)) \o Try("memory"), L("before"),
          L("up"))
        BY <1>9
    <2>1. Runs(o, pgp_setup_memory_write \o Ignored(pgp_write_xfer_key(o.key, TRUE)) \o Try("memory") \o Close
          \o Free, L("before"), L("freed"))
        BY <1>4, <2>0, RunsJoin
    <2>2. Runs(o, pgp_export_key(o), L("before"), L("over"))
        BY <1>0, <1>4, <1>10, <2>1, RunsJoin DEF pgp_export_key
    <2> QED BY <1>8, <2>2 DEF Ended
<1>11. ASSUME o.name = "export_public_key" PROVE Ended(o, rnp_export_public_key(o))
    <2>1. Runs(o, rnp_export_public_key(o), L("before"), L("over"))
        BY <1>0, <1>4, <1>7, <1>9, <1>11, RunsJoin DEF rnp_export_public_key
    <2> QED BY <1>8, <2>1 DEF Ended
<1>12. ASSUME o.name = "key_to_rawpacket" PROVE Ended(o, write_key_to_rawpacket(o))
    <2>1. Runs(o, write_key_to_rawpacket(o), L("before"), L("over"))
        BY <1>0, <1>4, <1>5, <1>12, RunsJoin DEF write_key_to_rawpacket
    <2> QED BY <1>8, <2>1 DEF Ended
<1> QED BY <1>10, <1>11, <1>12

-----------------------------------------------------------------------------
(* Generated subkeys: once the public part was loaded, the secret part can be written. *)

\* Programs that are not bound to fail, and programs no failure of which skips other steps.
NoFail(p) == \A i \in DOMAIN p : p[i].op # "fail"
NoJump(p) == \A i \in DOMAIN p : ~(p[i].drop > 0)

\* One program after the other.
LEMMA JoinBound == ASSUME NEW p, NEW q, IsProgram(p), IsProgram(q)
    PROVE /\ IsProgram(p \o q) /\ (NoFail(p \o q) <=> NoFail(p) /\ NoFail(q)) /\ (NoJump(p \o q) <=> NoJump(p)
               /\ NoJump(q))
<1> DEFINE r == p \o q
<1>1. /\ IsProgram(r) /\ Len(r) = Len(p) + Len(q) /\ Len(p) \in Nat /\ Len(q) \in Nat
      /\ \A i \in 1 .. Len(p) + Len(q) : r[i] = IF i <= Len(p) THEN p[i] ELSE q[i - Len(p)]
    BY JoinIs
<1>2. DOMAIN p = 1 .. Len(p) /\ DOMAIN q = 1 .. Len(q) /\ DOMAIN r = 1 .. Len(p) + Len(q)
    BY <1>1, ProgramIs
<1> HIDE DEF r
<1>3. \A i \in 1 .. Len(p) : i \in 1 .. Len(p) + Len(q) /\ r[i] = p[i]
    BY <1>1
<1>4. \A i \in 1 .. Len(q) : i + Len(p) \in 1 .. Len(p) + Len(q) /\ r[i + Len(p)] = q[i]
    BY <1>1
<1>5. \A i \in 1 .. Len(p) + Len(q) : (i \in 1 .. Len(p) /\ r[i] = p[i]) \/ (i - Len(p) \in 1 .. Len(q)
      /\ r[i] = q[i - Len(p)])
    BY <1>1
<1>6. NoFail(r) <=> NoFail(p) /\ NoFail(q)
    <2>1. ASSUME NoFail(r) PROVE NoFail(p) /\ NoFail(q)
        BY <1>2, <1>3, <1>4, <2>1, Zenon DEF NoFail
    <2>2. ASSUME NoFail(p), NoFail(q) PROVE NoFail(r)
        BY <1>2, <1>5, <2>2, Zenon DEF NoFail
    <2> QED BY <2>1, <2>2
<1>7. NoJump(r) <=> NoJump(p) /\ NoJump(q)
    <2>1. ASSUME NoJump(r) PROVE NoJump(p) /\ NoJump(q)
        BY <1>2, <1>3, <1>4, <2>1, Zenon DEF NoJump
    <2>2. ASSUME NoJump(p), NoJump(q) PROVE NoJump(r)
        BY <1>2, <1>5, <2>2, Zenon DEF NoJump
    <2> QED BY <2>1, <2>2
<1>8. IsProgram(r) /\ (NoFail(r) <=> NoFail(p) /\ NoFail(q)) /\ (NoJump(r) <=> NoJump(p) /\ NoJump(q))
    BY <1>1, <1>6, <1>7
<1> QED BY <1>8 DEF r

\* A single step.
LEMMA OneBound == ASSUME NEW x, NEW n, NEW w
    PROVE IsProgram(One(x, n, w)) /\ (NoFail(One(x, n, w)) <=> x # "fail") /\ NoJump(One(x, n, w))
<1> DEFINE p == One(x, n, w)
<1>1. IsProgram(p) /\ Len(p) = 1 /\ p[1] = Step(x, n, w) /\ DOMAIN p = 1 .. 1
    BY OneIs, ProgramIs
<1>2. p[1].op = x /\ p[1].drop = -1
    BY <1>1, StepIs
<1> HIDE DEF p
<1>3. NoFail(p) <=> x # "fail"
    BY <1>1, <1>2 DEF NoFail
<1>4. NoJump(p)
    BY <1>1, <1>2 DEF NoJump
<1>5. IsProgram(p) /\ (NoFail(p) <=> x # "fail") /\ NoJump(p)
    BY <1>1, <1>3, <1>4
<1> QED BY <1>5 DEF p

\* Results ignored one by one.
LEMMA EachBound == ASSUME NEW p, IsProgram(p)
    PROVE /\ IsProgram(Each(p)) /\ (NoFail(Each(p)) <=> NoFail(p)) /\ NoJump(Each(p))
          /\ \A n \in Nat : IsProgram(Under(n, p)) /\ (NoFail(Under(n, p)) <=> NoFail(p)) /\ (NoJump(Under(n,
               p)) <=> NoJump(p))
<1>1. IsProgram(Each(p)) /\ (NoFail(Each(p)) <=> NoFail(p)) /\ NoJump(Each(p))
    <2>1. /\ IsProgram(Each(p)) /\ DOMAIN Each(p) = DOMAIN p
          /\ \A i \in DOMAIN p : Each(p)[i].op = p[i].op /\ Each(p)[i].drop = 0
        BY EachIs
    <2>2. NoFail(Each(p)) <=> NoFail(p)
        BY <2>1, Zenon DEF NoFail
    <2>3. NoJump(Each(p))
        BY <2>1 DEF NoJump
    <2> QED BY <2>1, <2>2, <2>3, Zenon
<1>2. ASSUME NEW n \in Nat PROVE IsProgram(Under(n, p)) /\ (NoFail(Under(n, p)) <=> NoFail(p)) /\ (NoJump(Under(n,
      p)) <=> NoJump(p))
    <2>1. /\ IsProgram(Under(n, p)) /\ DOMAIN Under(n, p) = DOMAIN p
          /\ \A i \in DOMAIN p : Under(n, p)[i].op = p[i].op /\ Under(n, p)[i].drop = p[i].drop
        BY UnderIs
    <2>2. NoFail(Under(n, p)) <=> NoFail(p)
        BY <2>1, Zenon DEF NoFail
    <2>3. NoJump(Under(n, p)) <=> NoJump(p)
        BY <2>1, Zenon DEF NoJump
    <2> QED BY <2>1, <2>2, <2>3, Zenon
<1> QED BY <1>1, <1>2, Zenon

\* A loop.
LEMMA TimesBound == ASSUME NEW p, IsProgram(p), NEW c \in Nat
    PROVE /\ IsProgram(Times(c, p)) /\ (NoFail(p) => NoFail(Times(c, p))) /\ (NoJump(p) => NoJump(Times(c, p)))
          /\ c > 0 => (NoFail(Times(c, p)) => NoFail(p))
<1> DEFINE r == Times(c, p)
<1>1. Len(p) \in Nat /\ DOMAIN p = 1 .. Len(p)
    BY ProgramIs
<1>2. \A i \in 1 .. c * Len(p) : i \in Nat /\ Len(p) > 0 /\ ((i - 1) % Len(p)) + 1 \in 1 .. Len(p)
    <2> TAKE i \in 1 .. c * Len(p)
    <2>1. i \in Nat /\ i > 0 /\ c * Len(p) >= 1
        BY <1>1
    <2>2. Len(p) > 0
        BY <1>1, <2>1
    <2> QED BY <1>1, <2>1, <2>2
<1>3. \A i \in 1 .. c * Len(p) : r[i] = p[((i - 1) % Len(p)) + 1]
    BY DEF Times
<1>4. r = [i \in 1 .. c * Len(p) |-> r[i]] /\ c * Len(p) \in Nat
    BY <1>1 DEF Times
<1> HIDE DEF r
<1>5. \A i \in 1 .. c * Len(p) : IsStep(r[i])
    BY <1>1, <1>2, <1>3 DEF IsProgram
<1>6. IsProgram(r) /\ DOMAIN r = 1 .. c * Len(p)
    BY <1>4, <1>5, MappedIs, ProgramIs
<1>7. (NoFail(p) => NoFail(r)) /\ (NoJump(p) => NoJump(r))
    BY <1>1, <1>2, <1>3, <1>6 DEF NoFail, NoJump
<1>8. ASSUME c > 0, NoFail(r) PROVE NoFail(p)
    <2> SUFFICES ASSUME NEW i \in 1 .. Len(p) PROVE p[i].op # "fail"
        BY <1>1 DEF NoFail
    <2>1. i \in 1 .. c * Len(p)
        <3>1. c * Len(p) >= Len(p)
            BY <1>1, <1>8
        <3> QED BY <1>1, <1>4, <3>1
    <2>2. (i - 1) % Len(p) = i - 1
        BY <1>1
    <2>3. r[i] = p[i]
        BY <1>3, <2>1, <2>2, <1>1
    <2> QED BY <1>6, <1>8, <2>1, <2>3 DEF NoFail
<1>9. IsProgram(r) /\ (NoFail(p) => NoFail(r)) /\ (NoJump(p) => NoJump(r)) /\ (c > 0 => (NoFail(r) => NoFail(p)))
    BY <1>6, <1>7, <1>8
<1> QED BY <1>9 DEF r

\* Steps of which all failures count.
LEMMA StrictBound == ASSUME NEW O, NEW d, NEW p, Strict(p, O, d) PROVE IsProgram(p) /\ NoJump(p)
BY DEF Strict, NoJump

\* A key whose public part can be written has a secret part that can be written.
LEMMA SecretBound == ASSUME NEW k, NoFail(write_pubkey_body(k)) PROVE NoFail(pgp_write_secret_mpis(k))
<1> DEFINE M == pgp_write_mpi(k.n)
           E == ec_serialize_pubkey(k)
           B == CASE k.alg = "DSA" -> Mpis(k, 4)
                  [] k.alg \in Ecc -> ec_serialize_pubkey(k)
                  [] k.alg \in Rsa -> Mpis(k, 2)
                  [] k.alg = "ECDH" -> ec_serialize_pubkey(k) \o W(1) \o W(1) \o W(1) \o W(1)
                  [] k.alg = "ELGAMAL" -> Mpis(k, 3)
                  [] OTHER -> Fail
           V == CASE k.version \in {2, 3} -> W(2) [] k.version = 4 -> <<>> [] OTHER -> Fail
           A == W(1) \o W(4) \o V \o W(1)
<1>1. \A n : IsProgram(W(n)) /\ NoFail(W(n)) /\ IsProgram(<<>>) /\ IsProgram(Fail) /\ ~NoFail(Fail)
    BY OneBound, NothingQuiet DEF W, Fail, Strict
<1>2. IsProgram(M) /\ (\A c \in Nat : IsProgram(Mpis(k, c)))
    BY MpisStrict, StrictBound
<1>3. \A c \in Nat : (NoFail(M) => NoFail(Mpis(k, c))) /\ (c > 0 => (NoFail(Mpis(k, c)) => NoFail(M)))
    BY <1>2, TimesBound, Zenon DEF Mpis
<1> HIDE DEF M
<1>4. IsProgram(E) /\ (NoFail(E) => NoFail(M))
    <2>1. CASE k.curve
        <3>1. E = W(1) \o W(Oid) \o M
            BY <2>1 DEF ec_serialize_pubkey, M
        <3>2. IsProgram(W(1) \o W(Oid)) /\ IsProgram((W(1) \o W(Oid)) \o M)
            BY <1>1, <1>2, JoinBound
        <3>3. NoFail((W(1) \o W(Oid)) \o M) => NoFail(M)
            BY <1>2, <3>2, JoinBound
        <3> QED BY <3>1, <3>2, <3>3
    <2>2. CASE ~k.curve
        BY <1>1, <2>2 DEF ec_serialize_pubkey
    <2> QED BY <2>1, <2>2
<1> HIDE DEF E
<1>5. IsProgram(E \o W(1) \o W(1) \o W(1) \o W(1)) /\ (NoFail(E \o W(1) \o W(1) \o W(1) \o W(1)) => NoFail(M))
    <2>1. IsProgram(E \o W(1)) /\ (NoFail(E \o W(1)) => NoFail(E))
        BY <1>1, <1>4, JoinBound
    <2>2. IsProgram(E \o W(1) \o W(1)) /\ (NoFail(E \o W(1) \o W(1)) => NoFail(E \o W(1)))
        BY <1>1, <2>1, JoinBound
    <2>3. IsProgram(E \o W(1) \o W(1) \o W(1)) /\ (NoFail(E \o W(1) \o W(1) \o W(1)) => NoFail(E \o W(1) \o W(1)))
        BY <1>1, <2>2, JoinBound
    <2>4. IsProgram(E \o W(1) \o W(1) \o W(1) \o W(1)) /\ (NoFail(E \o W(1) \o W(1) \o W(1) \o W(1)) => NoFail(E
          \o W(1) \o W(1) \o W(1)))
        BY <1>1, <2>3, JoinBound
    <2> QED BY <1>4, <2>1, <2>2, <2>3, <2>4
<1>6. IsProgram(V) /\ IsProgram(A)
    <2>1. IsProgram(V)
        BY <1>1
    <2> HIDE DEF V
    <2>2. IsProgram(W(1) \o W(4))
        BY <1>1, JoinBound
    <2>3. IsProgram(W(1) \o W(4) \o V)
        BY <2>1, <2>2, JoinBound
    <2> QED BY <1>1, <2>1, <2>3, JoinBound
<1>7. write_pubkey_body(k) = A \o B
    BY DEF write_pubkey_body
<1>8. IsProgram(B) /\ (NoFail(B) => NoFail(M) /\ k.alg \in Rsa \cup Ecc \cup {"DSA", "ECDH", "ELGAMAL"})
    <2>1. CASE k.alg \in Rsa \cup {"DSA", "ELGAMAL"}
        <3>1. B \in {Mpis(k, 2), Mpis(k, 3), Mpis(k, 4)}
            BY <2>1 DEF Rsa, Ecc
        <3> HIDE DEF B
        <3> QED BY <1>2, <1>3, <2>1, <3>1
    <2>2. CASE k.alg \in Ecc
        <3>1. B = E
            BY <2>2 DEF Rsa, Ecc, E
        <3> QED BY <1>4, <2>2, <3>1
    <2>3. CASE k.alg = "ECDH"
        <3>1. B = E \o W(1) \o W(1) \o W(1) \o W(1)
            BY <2>3 DEF Rsa, Ecc, E
        <3> QED BY <1>5, <2>3, <3>1
    <2>4. CASE k.alg \notin Rsa \cup Ecc \cup {"DSA", "ECDH", "ELGAMAL"}
        <3>1. B = Fail
            BY <2>4
        <3> QED BY <1>1, <3>1
    <2> QED BY <2>1, <2>2, <2>3, <2>4
<1> HIDE DEF A, B
<1>9. NoFail(M) /\ k.alg \in Rsa \cup Ecc \cup {"DSA", "ECDH", "ELGAMAL"}
    BY <1>6, <1>7, <1>8, JoinBound
<1>10. pgp_write_secret_mpis(k) \in {Mpis(k, 4), Mpis(k, 1)}
    BY <1>9 DEF pgp_write_secret_mpis
<1> QED BY <1>3, <1>9, <1>10

\* So has the packet around it.
LEMMA SeckeyBound ==
    ASSUME NEW k, k.version = 4, k.usage = 0, NoFail(pgp_write_struct_pubkey(k))
    PROVE  NoFail(pgp_write_struct_seckey(k))
<1> DEFINE P == write_pubkey_body(k)
           S == pgp_write_secret_mpis(k)
           T(n) == One("tag", 1, "") \o One("length", n, "")
           Q == pgp_writer_push_sum16 \o Under(1, S) \o Pop \o W(2)
           B == P \o W(1) \o Q
           End(w) == One("packet", 0, w)
<1>1. IsProgram(P) /\ IsProgram(S)
    BY KeysStrict, StrictBound
<1>2. /\ \A x \in {"tag", "length", "packet", "push", "pop", "write"} : \A n, w : IsProgram(One(x, n, w))
           /\ NoFail(One(x, n, w))
    BY OneBound
<1>3. /\ \A n : IsProgram(W(n)) /\ NoFail(W(n)) 
      /\ \A w : IsProgram(End(w)) /\ NoFail(End(w))
      /\ IsProgram(Pop) /\ NoFail(Pop) /\ IsProgram(pgp_writer_push_sum16) /\ NoFail(pgp_writer_push_sum16)
    BY <1>2 DEF W, Pop, Push, pgp_writer_push_sum16
<1>4. \A n : IsProgram(T(n)) /\ NoFail(T(n))
    BY <1>2, JoinBound
<1>5. pgp_write_struct_pubkey(k) = T(1 + 4 + 1 + pubkey_length(k)) \o P \o End("public key")
    BY DEF pgp_write_struct_pubkey, Packet
<1>6. pgp_write_struct_seckey(k) = T(SeckeyLength(k)) \o B \o End("secret key")
    <2>1. write_seckey_body(k) = B
        BY DEF write_seckey_body
    <2>2. pgp_write_struct_seckey(k) = Packet("secret key", SeckeyLength(k), write_seckey_body(k))
        BY DEF pgp_write_struct_seckey
    <2> HIDE DEF B
    <2> QED BY <2>1, <2>2 DEF Packet
<1> HIDE DEF P, S, T, Q, B, End
<1>7. NoFail(P)
    <2>1. IsProgram(T(1 + 4 + 1 + pubkey_length(k)) \o P)
        BY <1>1, <1>4, JoinBound
    <2>3. NoFail((T(1 + 4 + 1 + pubkey_length(k)) \o P) \o End("public key"))
        BY <1>5
    <2>2. NoFail(T(1 + 4 + 1 + pubkey_length(k)) \o P)
        BY <1>3, <2>1, <2>3, JoinBound
    <2> QED BY <1>1, <1>4, <2>2, JoinBound
<1>8. NoFail(S)
    BY <1>7, SecretBound DEF P, S
<1>9. IsProgram(Under(1, S)) /\ NoFail(Under(1, S))
    BY <1>1, <1>8, EachBound
<1>10. IsProgram(Q) /\ NoFail(Q)
    <2>1. IsProgram(pgp_writer_push_sum16 \o Under(1, S)) /\ NoFail(pgp_writer_push_sum16 \o Under(1, S))
        BY <1>3, <1>9, JoinBound
    <2>2. IsProgram(pgp_writer_push_sum16 \o Under(1, S) \o Pop) /\ NoFail(pgp_writer_push_sum16 \o Under(1, S)
          \o Pop)
        BY <1>3, <2>1, JoinBound
    <2> QED BY <1>3, <2>2, JoinBound DEF Q
<1>11. IsProgram(B) /\ NoFail(B)
    <2>1. IsProgram(P \o W(1)) /\ NoFail(P \o W(1))
        BY <1>1, <1>3, <1>7, JoinBound
    <2> QED BY <1>10, <2>1, JoinBound DEF B
<1>12. IsProgram(T(SeckeyLength(k)) \o B) /\ NoFail(T(SeckeyLength(k)) \o B)
    BY <1>4, <1>11, JoinBound
<1>13. NoFail((T(SeckeyLength(k)) \o B) \o End("secret key"))
    BY <1>3, <1>12, JoinBound
<1> QED BY <1>6, <1>13

\* A program no failure of which skips other steps.
Tame(p) == IsProgram(p) /\ NoJump(p)

\* One program after the other.
LEMMA TameJoin == ASSUME NEW p, NEW q, Tame(p), Tame(q) PROVE Tame(p \o q)
BY JoinBound DEF Tame

\* The functions that write packets and signatures.
LEMMA TameParts ==
    /\ \A x, n, w : Tame(One(x, n, w)) /\ Tame(Each(One(x, n, w)))
    /\ \A p : Tame(p) => Tame(Each(p)) /\ \A c \in Nat : Tame(Times(c, p))
<1>1. \A x, n, w : IsProgram(One(x, n, w)) /\ NoJump(One(x, n, w)) /\ IsProgram(Each(One(x, n, w)))
      /\ NoJump(Each(One(x, n, w)))
    BY OneBound, EachBound
<1>2. \A p : IsProgram(p) /\ NoJump(p) => IsProgram(Each(p)) /\ NoJump(Each(p)) /\ \A c \in Nat : IsProgram(Times(c,
      p)) /\ NoJump(Times(c, p))
    BY EachBound, TimesBound
<1> QED BY <1>1, <1>2, Zenon DEF Tame

\* The public part of a generated subkey, and its signature.
LEMMA BindingTame ==
    ASSUME NEW k, NEW hash
    PROVE  Tame(pgp_write_selfsig_binding(k, hash)) /\ Tame(pgp_write_struct_pubkey(k))
<1>0. Tame(pgp_write_struct_pubkey(k))
    BY PacketsStrict, StrictBound DEF Tame
<1>1. \A w : Tame(Try(w)) /\ Tame(Sig(w)) /\ Tame(Each(Sig(w))) /\ Tame(Hash(w)) /\ Tame(Fail)
    BY TameParts DEF Try, Sig, Hash, Fail
<1>2. \A n : Tame(Subpacket(n))
    BY <1>1, TameJoin DEF Subpacket
<1>3. Tame(Sig(2) \o Sig(k.n))
    BY <1>1, TameJoin
<1>4. \A c \in Nat : Tame(SigMpis(k, c)) /\ Tame(Each(SigMpis(k, c)))
    BY <1>3, TameParts DEF SigMpis
<1>a. Tame(SigMpis(k, 1)) /\ Tame(SigMpis(k, 2)) /\ Tame(Each(SigMpis(k, 1))) /\ Tame(Each(SigMpis(k, 2)))
    BY <1>4
<1>5. Tame(rsa_sign(k)) /\ Tame(dsa_sign(k, hash)) /\ Tame(ecdsa_sign(k, hash)) /\ Tame(eddsa_sign(k))
    BY <1>1, <1>a, TameJoin DEF rsa_sign, dsa_sign, ecdsa_sign, eddsa_sign
<1>6. Tame(Sign(k, hash))
    BY <1>1, <1>5 DEF Sign
<1>7. Tame(pgp_sig_write(k, hash))
    <2>1. \A x, n, w : Tame(One(x, n, w))
        BY TameParts
    <2>2. Tame(One("unhashed", 0, "") \o Hash("fields") \o Hash("trailer") \o Sign(k, hash))
        BY <1>1, <1>6, <2>1, TameJoin
    <2>3. Tame(One("unhashed", 0, "") \o Hash("fields") \o Hash("trailer") \o Sign(k, hash) \o One("tag", 1, "")
          \o One("siglength", 0, ""))
        BY <2>1, <2>2, TameJoin
    <2>4. Tame(One("unhashed", 0, "") \o Hash("fields") \o Hash("trailer") \o Sign(k, hash) \o One("tag", 1, "")
          \o One("siglength", 0, "")
                 \o One("sigbody", 0, "") \o One("packet", 0, "signature"))
        BY <2>1, <2>3, TameJoin
    <2> QED BY <1>1, <2>4 DEF pgp_sig_write
<1>8. Tame(start_sig_in_mem)
    <2>1. Tame(One("hashoff", 0, "")) /\ Tame(Sig(1)) /\ Tame(Each(One("sigmem", 0, "null")))
        BY <1>1, TameParts
    <2>2. Tame(Sig(1) \o Sig(1) \o Sig(1) \o Sig(1))
        BY <2>1, TameJoin
    <2>3. Tame(Each(Sig(1) \o Sig(1) \o Sig(1) \o Sig(1)))
        BY <2>2, TameParts
    <2> QED BY <1>1, <2>1, <2>3, TameJoin DEF start_sig_in_mem
<1>9. Tame(pgp_sig_start_subkey_sig)
    <2>1. \A w : Tame(HashKey(w))
        BY <1>1, HashKeyIs, TameJoin
    <2>2. Tame(One("signew", 0, ""))
        BY TameParts
    <2>3. Tame(Try("memory") \o HashKey("primary") \o HashKey("subkey"))
        BY <1>1, <2>1, TameJoin
    <2>4. Tame(One("signew", 0, "") \o (Try("memory") \o HashKey("primary") \o HashKey("subkey")) \o start_sig_in_mem)
        BY <1>8, <2>2, <2>3, TameJoin
    <2> QED BY <2>4 DEF pgp_sig_start_subkey_sig, SigNew
<1>10. Tame(pgp_sig_end_hashed_subpkts)
    BY <1>1, TameParts, TameJoin DEF pgp_sig_end_hashed_subpkts
<1>11. Tame(pgp_sig_add_time) /\ Tame(pgp_sig_add_key_flags) /\ Tame(pgp_sig_add_issuer_keyid)
    BY <1>2 DEF pgp_sig_add_time, pgp_sig_add_key_flags, pgp_sig_add_issuer_keyid
<1>12. Tame(Try("rng") \o Try("keyid") \o Try("memory") \o pgp_sig_start_subkey_sig)
    BY <1>1, <1>9, TameJoin
<1>13. Tame(Try("rng") \o Try("keyid") \o Try("memory") \o pgp_sig_start_subkey_sig \o pgp_sig_add_time
      \o pgp_sig_add_time
              \o pgp_sig_add_key_flags \o pgp_sig_add_issuer_keyid)
    BY <1>11, <1>12, TameJoin
<1>14. Tame(Try("rng") \o Try("keyid") \o Try("memory") \o pgp_sig_start_subkey_sig \o pgp_sig_add_time
      \o pgp_sig_add_time
              \o pgp_sig_add_key_flags \o pgp_sig_add_issuer_keyid \o pgp_sig_end_hashed_subpkts)
    BY <1>10, <1>13, TameJoin
<1>15. Tame(pgp_write_selfsig_binding(k, hash))
    BY <1>7, <1>14, TameJoin DEF pgp_write_selfsig_binding
<1> QED BY <1>0, <1>15

\* What was written is loaded and listed: the last point at which a step that is bound to
\* fail may still come.
LEMMA LoadRuns == ASSUME NEW o, ~IsFile(o), NEW h, NEW m, NEW f, InLab(0, "up", h, m, f), NEW what
    PROVE Runs(o, load_generated_key(what), Lab(0, "up", h, m, "any", f), Lab(0, "freed", h, m, "any",
          IF f = "may" THEN "must" ELSE f))
<1> DEFINE L(ph) == Lab(0, ph, h, m, "any", f)
           e == Lab(0, "freed", h, m, "any", IF f = "may" THEN "must" ELSE f)
<1>1. InLab(0, "freed", h, m, f)
    BY DEF InLab, Phases
<1>2. \A w : Runs(o, Try(w), L("up"), L("up")) /\ Runs(o, Try(w), L("freed"), L("freed"))
    BY <1>1, TryRuns
<1>3. Runs(o, Close, L("up"), L("closed")) /\ Runs(o, Free, L("closed"), L("freed")) /\ Runs(o, One("loaded", 0,
      what), L("freed"), e)
    BY PlacesRun
<1> HIDE DEF L, e
<1>4. Runs(o, Try("memory") \o Close \o Free, L("up"), L("freed"))
    BY <1>2, <1>3, RunsJoin
<1>5. Runs(o, load_generated_key(what), L("up"), e)
    BY <1>2, <1>3, <1>4, RunsJoin DEF load_generated_key
<1> QED BY <1>5 DEF L, e

\* A generated primary key.
LEMMA PrimaryRuns ==
    ASSUME NEW o \in Ops, o.name = "generate_primary"
    PROVE  Ended(o, pgp_generate_primary_key(o))
<1> DEFINE n == Len(Items(o)) + 2
           L(ph, f) == Lab(0, ph, n, 7, "any", f)
           B(ph) == Lab(0, ph, 0, 0, "any", "may")
<1>0. /\ ~IsFile(o) /\ Final(o) = "freed" /\ n \in Nat /\ o.key.n \in Nat
      /\ \A ph \in Phases : \A h \in Nat : \A m \in 0 .. 7 : \A f \in {"may", "must", "dead"} : InLab(0, ph, h, m, f)
      /\ {"before", "up", "closed", "freed", "over"} \subseteq Phases
      /\ \A f \in {"may", "must", "dead"} : MayFail(o, f)
    BY ItemsAre, OpsAssumption DEF IsFile, InLab, Phases, Final, MayFail
<1>1. Start = B("before") /\ L("over", "must").ph = "over"
    BY DEF Start, Lab
<1>a. n = Len(Items(o)) + 2
    OBVIOUS
<1> HIDE DEF n
<1>2. InLab(0, "before", 0, 0, "may") /\ InLab(0, "up", 0, 0, "may") /\ InLab(0, "up", n, 7, "may") /\ InLab(0, "up",
      n, 7, "must")
      /\ InLab(0, "freed", n, 7, "must")
    BY <1>0
<1>3. \A w : Runs(o, Try(w), B("before"), B("before"))
    BY <1>2, TryRuns
<1>4. /\ Runs(o, pgp_setup_memory_write, B("before"), B("up"))
      /\ Runs(o, pgp_setup_memory_write, L("freed", "must"), L("up", "must"))
      /\ Runs(o, Ok, L("freed", "must"), L("over", "must"))
    BY <1>0, <1>2, PlacesRun
<1>5. /\ Runs(o, load_generated_key("public"), L("up", "may"), L("freed", "must"))
      /\ Runs(o, load_generated_key("both"), L("up", "must"), L("freed", "must"))
    BY <1>0, <1>2, LoadRuns
<1>6. /\ Runs(o, pgp_write_struct_pubkey(o.key), B("up"), B("up"))
      /\ Runs(o, pgp_write_struct_userid(9), B("up"), B("up"))
      /\ Runs(o, pgp_write_struct_userid(9), L("up", "must"), L("up", "must"))
    BY <1>0, <1>2, PacketsStrict, StrictQuiet, QuietRuns
<1>7. Runs(o, pgp_write_struct_seckey(o.key), L("up", "must"), L("up", "must"))
    BY <1>0, <1>2, SeckeyRuns
<1>8. /\ Runs(o, pgp_write_selfsig_cert(o.key, o.hash), B("up"), L("up", "may"))
      /\ Runs(o, pgp_write_selfsig_cert(o.key, o.hash), L("up", "must"), L("up", "must"))
    BY <1>0, <1>a, SelfsigsRun
<1> HIDE DEF L, B
<1>9. Runs(o, Try("parameters") \o Try("generate") \o pgp_setup_memory_write, B("before"), B("up"))
    BY <1>3, <1>4, RunsJoin
<1>10. Runs(o, Try("parameters") \o Try("generate") \o pgp_setup_memory_write \o pgp_write_struct_pubkey(o.key)
      \o pgp_write_struct_userid(9)
                 \o pgp_write_selfsig_cert(o.key, o.hash), B("before"), L("up", "may"))
    BY <1>6, <1>8, <1>9, RunsJoin
<1>11. Runs(o, Try("parameters") \o Try("generate") \o pgp_setup_memory_write \o pgp_write_struct_pubkey(o.key)
      \o pgp_write_struct_userid(9)
                 \o pgp_write_selfsig_cert(o.key, o.hash) \o load_generated_key("public") \o pgp_setup_memory_write,
                       B("before"), L("up", "must"))
    BY <1>4, <1>5, <1>10, RunsJoin
<1>12. Runs(o, Try("parameters") \o Try("generate") \o pgp_setup_memory_write \o pgp_write_struct_pubkey(o.key)
      \o pgp_write_struct_userid(9)
                 \o pgp_write_selfsig_cert(o.key, o.hash) \o load_generated_key("public") \o pgp_setup_memory_write
                 \o pgp_write_struct_seckey(o.key) \o pgp_write_struct_userid(9) \o pgp_write_selfsig_cert(o.key,
                       o.hash), B("before"), L("up", "must"))
    BY <1>6, <1>7, <1>8, <1>11, RunsJoin
<1>13. Runs(o, pgp_generate_primary_key(o), B("before"), L("over", "must"))
    BY <1>4, <1>5, <1>12, RunsJoin DEF pgp_generate_primary_key
<1> QED BY <1>1, <1>13 DEF Ended

\* Either the first pass is bound to fail, or nothing in the second one is.
LEMMA SubkeyRuns == ASSUME NEW o \in Ops, o.name = "generate_subkey" PROVE Ended(o, pgp_generate_subkey(o))
<1> DEFINE n == Len(Items(o)) + 2
           L(ph, f) == Lab(0, ph, n, 7, "any", f)
           B(ph) == Lab(0, ph, 0, 0, "any", "may")
           P == pgp_write_struct_pubkey(o.key)
           S == pgp_write_struct_seckey(o.key)
           G == pgp_write_selfsig_binding(o.key, o.hash)
           A == Try("parameters") \o Try("unlock") \o Try("generate") \o pgp_setup_memory_write
<1>0. /\ ~IsFile(o) /\ Final(o) = "freed" /\ n \in Nat /\ o.key.n \in Nat /\ o.key.version = 4 /\ o.key.usage = 0
      /\ \A ph \in Phases : \A h \in Nat : \A m \in 0 .. 7 : \A f \in {"may", "must", "dead"} : InLab(0, ph, h, m, f)
      /\ {"before", "up", "closed", "freed", "over"} \subseteq Phases
      /\ \A f \in {"may", "dead"} : MayFail(o, f)
    BY ItemsAre, OpsAssumption DEF IsFile, InLab, Phases, Final, MayFail
<1>1. Start = B("before") /\ L("over", "must").ph = "over" /\ L("over", "dead").ph = "over"
    BY DEF Start, Lab
<1>b. \A ph : WithFail(L(ph, "may"), "must") = L(ph, "must") /\ WithFail(L(ph, "may"), "dead") = L(ph, "dead")
    BY DEF WithFail, Lab
<1>a. n = Len(Items(o)) + 2
    OBVIOUS
<1> HIDE DEF n
<1>2. /\ InLab(0, "before", 0, 0, "may") /\ InLab(0, "up", 0, 0, "may")
      /\ \A f \in {"may", "must", "dead"} : InLab(0, "up", n, 7, f) /\ InLab(0, "freed", n, 7, f)
    BY <1>0
<1>3. \A w : Runs(o, Try(w), B("before"), B("before"))
    BY <1>2, TryRuns
<1>4. /\ Runs(o, pgp_setup_memory_write, B("before"), B("up"))
      /\ \A f \in {"must", "dead"} : Runs(o, pgp_setup_memory_write, L("freed", f), L("up", f)) /\ Runs(o, Ok,
           L("freed", f), L("over", f))
    BY <1>0, <1>2, PlacesRun, SMTT(30)
<1>5. /\ Runs(o, load_generated_key("public"), L("up", "may"), L("freed", "must"))
      /\ \A f \in {"must", "dead"} : \A w : Runs(o, load_generated_key(w), L("up", f), L("freed", f))
    BY <1>0, <1>2, LoadRuns
<1>6. Runs(o, P, B("up"), B("up"))
    BY <1>0, <1>2, PacketsStrict, StrictQuiet, QuietRuns
<1>7. \A f \in {"may", "dead"} : Runs(o, S, L("up", f), L("up", f))
    BY <1>0, <1>2, SeckeyRuns
<1>8. /\ Runs(o, G, B("up"), L("up", "may")) /\ Runs(o, G, L("up", "may"), L("up", "may")) /\ Runs(o, G, L("up",
           "dead"), L("up", "dead"))
    BY <1>0, <1>a, SelfsigsRun
<1>c. Tame(G) /\ Tame(P)
    BY BindingTame
<1>d. NoFail(P) => NoFail(S)
    BY <1>0, SeckeyBound
<1>e. pgp_generate_subkey(o) = A \o P \o G \o load_generated_key("public") \o pgp_setup_memory_write \o S \o G
      \o load_generated_key("both") \o Ok
    BY DEF pgp_generate_subkey
<1>9. Runs(o, A, B("before"), B("up"))
    <2> HIDE DEF L, B
    <2> QED BY <1>3, <1>4, RunsJoin
<1> HIDE DEF L, B, P, S, G, A
<1>10. CASE NoFail(P) /\ NoFail(G)
    <2>1. Runs(o, S, L("up", "must"), L("up", "must")) /\ Runs(o, G, L("up", "must"), L("up", "must"))
        BY <1>7, <1>8, <1>10, <1>b, <1>d, RunsMust DEF NoFail
    <2>2. Runs(o, A \o P \o G, B("before"), L("up", "may"))
        BY <1>6, <1>8, <1>9, RunsJoin
    <2>3. Runs(o, A \o P \o G \o load_generated_key("public") \o pgp_setup_memory_write, B("before"), L("up", "must"))
        BY <1>4, <1>5, <2>2, RunsJoin
    <2>4. Runs(o, A \o P \o G \o load_generated_key("public") \o pgp_setup_memory_write \o S \o G, B("before"),
          L("up", "must"))
        BY <2>1, <2>3, RunsJoin
    <2>5. Runs(o, pgp_generate_subkey(o), B("before"), L("over", "must"))
        BY <1>4, <1>5, <1>e, <2>4, RunsJoin
    <2> QED BY <1>1, <2>5 DEF Ended
<1>11. CASE ~(NoFail(P) /\ NoFail(G))
    <2>1. Runs(o, P \o G, B("up"), L("up", "dead"))
        <3>1. Runs(o, P \o G, B("up"), L("up", "may"))
            BY <1>6, <1>8, RunsJoin
        <3>2. ~NoFail(P \o G) /\ NoJump(P \o G)
            BY <1>11, <1>c, JoinBound DEF Tame
        <3>3. PICK g \in DOMAIN (P \o G) : (P \o G)[g].op = "fail"
            BY <3>2, Zenon DEF NoFail
        <3>4. \A i \in DOMAIN (P \o G) : ~((P \o G)[i].drop > 0)
            BY <3>2, Zenon DEF NoJump
        <3> DEFINE r == P \o G
        <3> HIDE DEF r
        <3>5. Runs(o, r, B("up"), L("up", "may")) /\ g \in DOMAIN r /\ r[g].op = "fail"
              /\ (\A i \in DOMAIN r : ~(r[i].drop > 0))
            BY <3>1, <3>3, <3>4, Zenon DEF r
        <3>6. Runs(o, r, B("up"), WithFail(L("up", "may"), "dead"))
            BY <3>5, RunsDead, Zenon
        <3> QED BY <1>b, <3>6, Zenon DEF r
    <2>2. Runs(o, A \o (P \o G), B("before"), L("up", "dead"))
        BY <1>9, <2>1, RunsJoin
    <2>6. A \o (P \o G) = A \o P \o G
        <3>1. IsProgram(A) /\ IsProgram(P) /\ IsProgram(G)
            BY <1>6, <1>8, <1>9 DEF Runs
        <3> QED BY <3>1, JoinAssoc
    <2>3. Runs(o, A \o P \o G \o load_generated_key("public") \o pgp_setup_memory_write, B("before"), L("up", "dead"))
        BY <1>4, <1>5, <2>2, <2>6, RunsJoin
    <2>4. Runs(o, A \o P \o G \o load_generated_key("public") \o pgp_setup_memory_write \o S \o G, B("before"),
          L("up", "dead"))
        BY <1>7, <1>8, <2>3, RunsJoin
    <2>5. Runs(o, pgp_generate_subkey(o), B("before"), L("over", "dead"))
        BY <1>4, <1>5, <1>e, <2>4, RunsJoin
    <2> QED BY <1>1, <2>5 DEF Ended
<1> QED BY <1>10, <1>11

\* Every operation is a labelled run.
LEMMA ProgramRuns == ASSUME NEW o \in Ops PROVE Ended(o, Program(o))
<1>1. o.name \in OpNames
    BY OpsAssumption
<1>2. /\ o.name = "sign_file" => Program(o) = pgp_sign_file(o) /\ Ended(o, pgp_sign_file(o))
      /\ o.name = "sign_buf" => Program(o) = pgp_sign_buf(o) /\ Ended(o, pgp_sign_buf(o))
      /\ o.name = "sign_detached" => Program(o) = pgp_sign_detached(o) /\ Ended(o, pgp_sign_detached(o))
      /\ o.name = "sign_memory_detached" => Program(o) = pgp_sign_memory_detached(o) /\ Ended(o,
           pgp_sign_memory_detached(o))
    BY SignsRun DEF Program
<1>3. /\ o.name = "encrypt_file" => Program(o) = pgp_encrypt_file(o) /\ Ended(o, pgp_encrypt_file(o))
      /\ o.name = "encrypt_buf" => Program(o) = pgp_encrypt_buf(o) /\ Ended(o, pgp_encrypt_buf(o))
    BY EncryptsRun DEF Program
<1>4. /\ o.name = "export_key" => Program(o) = pgp_export_key(o) /\ Ended(o, pgp_export_key(o))
      /\ o.name = "export_public_key" => Program(o) = rnp_export_public_key(o) /\ Ended(o, rnp_export_public_key(o))
      /\ o.name = "key_to_rawpacket" => Program(o) = write_key_to_rawpacket(o) /\ Ended(o, write_key_to_rawpacket(o))
    BY ExportsRun DEF Program
<1>5. /\ o.name = "generate_primary" => Program(o) = pgp_generate_primary_key(o) /\ Ended(o,
           pgp_generate_primary_key(o))
      /\ o.name = "generate_subkey" => Program(o) = pgp_generate_subkey(o) /\ Ended(o, pgp_generate_subkey(o))
    BY PrimaryRuns, SubkeyRuns DEF Program
<1> QED BY <1>1, <1>2, <1>3, <1>4, <1>5 DEF OpNames

-----------------------------------------------------------------------------
(* The stack of writers, and what is left to do after the end. *)

\* The writers: inner ones (cipher, hash, sum) are exactly the d on top, none of them has a
\* finaliser.
IsStack(s) ==
    /\ s \in Seq({s[i] : i \in DOMAIN s})
    /\ \A i \in DOMAIN s : s[i] = [w |-> s[i].w, fin |-> s[i].fin] /\ s[i].fin \in BOOLEAN

\* The d writers on top are inner ones, and no other is.
InnerTop(s, d) ==
    /\ d \in Nat /\ d <= Len(s)
    /\ \A i \in DOMAIN s : /\ i > Len(s) - d <=> s[i].w \in InnerWriters
                           /\ s[i].w \in InnerWriters => ~s[i].fin

\* A finaliser is due.
HasDue(s) == \E i \in DOMAIN s : s[i].fin

\* The writers are numbered.
LEMMA StackIs ==
    ASSUME NEW s, IsStack(s)
    PROVE  Len(s) \in Nat /\ DOMAIN s = 1 .. Len(s) /\ (s = <<>> <=> Len(s) = 0)
<1> DEFINE R == {s[i] : i \in DOMAIN s}
<1>1. s \in Seq(R)
    BY DEF IsStack
<1> HIDE DEF R
<1> QED BY <1>1

\* A function from the first m numbers to writers is a stack.
LEMMA StackMap == ASSUME NEW m \in Nat, NEW s, s = [i \in 1 .. m |-> s[i]],
                         \A i \in 1 .. m : s[i] = [w |-> s[i].w, fin |-> s[i].fin] /\ s[i].fin \in BOOLEAN
    PROVE IsStack(s) /\ Len(s) = m /\ DOMAIN s = 1 .. m
<1> DEFINE R == {s[i] : i \in 1 .. m}
<1>1. DOMAIN s = 1 .. m
    OBVIOUS
<1>2. s \in [1 .. m -> R]
    OBVIOUS
<1>3. s \in Seq(R) /\ Len(s) = m
    BY <1>1, <1>2
<1> QED BY <1>1, <1>3 DEF IsStack

\* No writer.
LEMMA StackNone == IsStack(<<>>) /\ InnerTop(<<>>, 0) /\ ~HasDue(<<>>) /\ Len(<<>>) = 0
BY DEF IsStack, InnerTop, HasDue

\* The first writer.
LEMMA StackNew == ASSUME NEW x, x \notin InnerWriters
    PROVE LET s == <<[w |-> x, fin |-> FALSE]>> IN IsStack(s) /\ InnerTop(s, 0) /\ ~HasDue(s) /\ Len(s) = 1
<1> DEFINE e == [w |-> x, fin |-> FALSE]
           s == <<e>>
<1>1. e.w = x /\ e.fin = FALSE /\ e = [w |-> e.w, fin |-> e.fin]
    OBVIOUS
<1> HIDE DEF e
<1>2. Len(s) = 1 /\ s[1] = e /\ s = [i \in 1 .. 1 |-> s[i]]
    OBVIOUS
<1> HIDE DEF s
<1>a. 1 \in Nat /\ (\A i \in 1 .. 1 : s[i] = e)
    BY <1>2
<1>3. IsStack(s) /\ DOMAIN s = 1 .. 1
    BY <1>1, <1>2, <1>a, StackMap
<1>4. InnerTop(s, 0) /\ ~HasDue(s)
    BY <1>1, <1>2, <1>3 DEF InnerTop, HasDue
<1> QED BY <1>2, <1>3, <1>4 DEF s, e

\* One writer more.
LEMMA StackPush == ASSUME NEW s, IsStack(s), NEW d, InnerTop(s, d), NEW x
    PROVE LET t == Append(s, [w |-> x, fin |-> x \in {"base64", "stream"}])
          IN  /\ IsStack(t) /\ Len(t) = Len(s) + 1 /\ Last(t).w = x
              /\ x \in InnerWriters => InnerTop(t, d + 1)
              /\ x \notin InnerWriters /\ d = 0 => InnerTop(t, 0)
              /\ HasDue(t) => HasDue(s) \/ x \in {"base64", "stream"}
<1> DEFINE e == [w |-> x, fin |-> x \in {"base64", "stream"}]
           R == {s[i] : i \in DOMAIN s} \cup {e}
           t == Append(s, e)
<1>1. e.w = x /\ e = [w |-> e.w, fin |-> e.fin]
    OBVIOUS
<1>2. e.fin \in BOOLEAN /\ (e.fin => x \in {"base64", "stream"}) /\ (x \in InnerWriters => ~e.fin)
    <2>1. e.fin = (x \in {"base64", "stream"})
        OBVIOUS
    <2>2. x \in InnerWriters => ~(x \in {"base64", "stream"})
        BY DEF InnerWriters
    <2> HIDE DEF e
    <2>3. CASE x \in {"base64", "stream"}
        <3>1. e.fin = TRUE
            BY <2>1, <2>3
        <3> QED BY <2>2, <2>3, <3>1
    <2>4. CASE x \notin {"base64", "stream"}
        <3>2. (x \in {"base64", "stream"}) = FALSE
            BY <2>4
        <3>1. e.fin = FALSE
            BY <2>1, <3>2
        <3> QED BY <3>1
    <2> QED BY <2>3, <2>4, Zenon
<1> HIDE DEF e
<1>3. s \in Seq(R) /\ e \in R
    BY DEF IsStack
<1>4. Len(s) \in Nat /\ DOMAIN s = 1 .. Len(s)
    BY StackIs
<1> HIDE DEF R
<1>c. /\ DOMAIN t = 1 .. Len(s) + 1 /\ Len(t) = Len(s) + 1
      /\ \A i \in 1 .. Len(s) : t[i] = s[i]
      /\ t[Len(s) + 1] = e
    BY <1>3
<1>e. t \in Seq(R)
    BY <1>3
<1> HIDE DEF t
<1>d. t = [i \in DOMAIN t |-> t[i]]
    BY <1>e
<1>5. /\ DOMAIN t = 1 .. Len(s) + 1 /\ Len(t) = Len(s) + 1 /\ t = [i \in 1 .. Len(s) + 1 |-> t[i]]
      /\ \A i \in 1 .. Len(s) : t[i] = s[i]
      /\ t[Len(s) + 1] = e
    BY <1>c, <1>d
<1>a. \A i \in 1 .. Len(s) + 1 : (i \in 1 .. Len(s) /\ t[i] = s[i]) \/ (i = Len(s) + 1 /\ t[i] = e)
    BY <1>4, <1>c
<1>6. \A i \in 1 .. Len(s) + 1 : t[i] = [w |-> t[i].w, fin |-> t[i].fin] /\ t[i].fin \in BOOLEAN
    BY <1>1, <1>2, <1>4, <1>a, Zenon DEF IsStack
<1>7. IsStack(t)
    BY <1>4, <1>5, <1>6, StackMap
<1>8. Last(t).w = x
    BY <1>1, <1>4, <1>5 DEF Last
<1>9. \A i \in 1 .. Len(s) : (i > Len(s) - d <=> s[i].w \in InnerWriters) /\ (s[i].w \in InnerWriters => ~s[i].fin) /\ d \in Nat
      /\ d <= Len(s)
    BY <1>4 DEF InnerTop
<1>b. d \in Nat /\ d <= Len(s)
    BY DEF InnerTop
<1>10. ASSUME x \in InnerWriters PROVE InnerTop(t, d + 1)
    <2>1. d + 1 \in Nat /\ d + 1 <= Len(t) /\ Len(t) - (d + 1) = Len(s) - d /\ Len(s) + 1 > Len(s) - d
        BY <1>4, <1>5, <1>b
    <2>2. ASSUME NEW i \in DOMAIN t PROVE (i > Len(s) - d <=> t[i].w \in InnerWriters) /\ (t[i].w \in InnerWriters => ~t[i].fin)
        BY <1>1, <1>2, <1>5, <1>9, <1>a, <1>10, <2>1, Zenon
    <2> QED BY <2>1, <2>2 DEF InnerTop
<1>11. ASSUME x \notin InnerWriters, d = 0 PROVE InnerTop(t, 0)
    <2>1. ASSUME NEW i \in DOMAIN t PROVE t[i].w \notin InnerWriters
        <3>1. CASE i \in 1 .. Len(s) /\ t[i] = s[i]
            BY <1>4, <1>9, <1>11, <3>1
        <3>2. CASE t[i] = e
            BY <1>1, <1>11, <3>2
        <3> QED BY <1>5, <1>a, <3>1, <3>2
    <2> QED BY <1>4, <1>5, <2>1 DEF InnerTop
<1>12. HasDue(t) => HasDue(s) \/ x \in {"base64", "stream"}
    BY <1>2, <1>4, <1>5, <1>a, Zenon DEF HasDue
<1> QED BY <1>5, <1>7, <1>8, <1>10, <1>11, <1>12 DEF t, e

\* One writer less.
LEMMA StackPop == ASSUME NEW s, IsStack(s), NEW d, InnerTop(s, d), Len(s) > d
    PROVE LET t == IF Last(s).fin \/ Len(s) = 1 THEN s ELSE Front(s)
              c == IF d > 0 THEN d - 1 ELSE d
          IN  IsStack(t) /\ InnerTop(t, c) /\ Len(t) > c /\ (HasDue(t) => HasDue(s))
<1> DEFINE t == IF Last(s).fin \/ Len(s) = 1 THEN s ELSE Front(s)
           c == IF d > 0 THEN d - 1 ELSE d
           R == {s[i] : i \in DOMAIN s}
<1>1. s \in Seq(R)
    BY DEF IsStack
<1>2. Len(s) \in Nat /\ DOMAIN s = 1 .. Len(s)
    BY StackIs
<1>3. d \in Nat /\ d <= Len(s) /\ \A i \in 1 .. Len(s) : (i > Len(s) - d <=> s[i].w \in InnerWriters)
      /\ (s[i].w \in InnerWriters => ~s[i].fin)
    BY <1>2 DEF InnerTop
<1> HIDE DEF R
<1>4. CASE Last(s).fin \/ Len(s) = 1
    <2>1. d = 0
        <3>1. CASE Len(s) = 1
            BY <1>3, <3>1
        <3>2. CASE Last(s).fin
            BY <1>2, <1>3, <3>2 DEF Last
        <3> QED BY <1>4, <3>1, <3>2
    <2>2. t = s /\ c = d
        BY <1>4, <2>1
    <2> QED BY <2>2
<1>5. CASE ~(Last(s).fin \/ Len(s) = 1)
    <2> DEFINE u == Front(s)
               n == Len(s) - 1
    <2>1. n \in Nat /\ n > 0 /\ Len(s) = n + 1
        BY <1>2, <1>3, <1>5
    <2>2. u = SubSeq(s, 1, n)
        BY DEF Front
    <2> HIDE DEF n
    <2>3. Len(u) = n /\ DOMAIN u = 1 .. n /\ u = [i \in 1 .. n |-> u[i]] /\ \A i \in 1 .. n : u[i] = s[i]
        BY <1>1, <2>1, <2>2
    <2> HIDE DEF u
    <2>4. \A i \in 1 .. n : i \in DOMAIN s
        BY <1>2, <2>1
    <2>5. IsStack(u)
        <3>1. \A i \in 1 .. n : u[i] = [w |-> u[i].w, fin |-> u[i].fin] /\ u[i].fin \in BOOLEAN
            BY <2>3, <2>4 DEF IsStack
        <3> QED BY <2>1, <2>3, <3>1, StackMap
    <2>6. c \in Nat /\ c < n /\ (\A i \in 1 .. n : (i > n - c <=> i > Len(s) - d))
        BY <1>2, <1>3, <2>1
    <2>7. InnerTop(u, c)
        <3>1. ASSUME NEW i \in 1 .. n PROVE (i > n - c <=> u[i].w \in InnerWriters) /\ (u[i].w \in InnerWriters => ~u[i].fin)
            BY <1>2, <1>3, <2>3, <2>4, <2>6, Zenon
        <3> HIDE DEF c
        <3>2. c <= n
            BY <2>1, <2>6
        <3> QED BY <2>3, <2>6, <3>1, <3>2, Zenon DEF InnerTop
    <2>8. HasDue(u) => HasDue(s)
        BY <2>3, <2>4 DEF HasDue
    <2>9. t = u
        BY <1>5 DEF u
    <2>10. Len(u) > c
        BY <2>1, <2>3, <2>6
    <2> HIDE DEF c, t
    <2>11. IsStack(t) /\ InnerTop(t, c) /\ Len(t) > c /\ (HasDue(t) => HasDue(s))
        BY <2>5, <2>7, <2>8, <2>9, <2>10
    <2> QED BY <2>11 DEF t, c
<1> QED BY <1>4, <1>5

\* A writer whose finaliser was run.
LEMMA EntryFin ==
    ASSUME NEW r, r = [w |-> r.w, fin |-> r.fin], NEW v
    PROVE  [r EXCEPT !.fin = v] = [w |-> r.w, fin |-> v]
OBVIOUS

\* The writers after finalising.
LEMMA StackFin == ASSUME NEW s, IsStack(s), NEW d, InnerTop(s, d)
    PROVE LET t == [i \in DOMAIN s |-> [s[i] EXCEPT !.fin = FALSE]]
          IN  IsStack(t) /\ InnerTop(t, d) /\ Len(t) = Len(s) /\ ~HasDue(t) /\ (s # <<>> => Last(t).w = Last(s).w)
<1> DEFINE t == [i \in DOMAIN s |-> [s[i] EXCEPT !.fin = FALSE]]
<1>1. Len(s) \in Nat /\ DOMAIN s = 1 .. Len(s) /\ (s = <<>> <=> Len(s) = 0)
    BY StackIs
<1>2. \A i \in DOMAIN s : s[i] = [w |-> s[i].w, fin |-> s[i].fin]
    BY DEF IsStack
<1>3. \A i \in DOMAIN s : t[i] = [w |-> s[i].w, fin |-> FALSE]
    <2> TAKE i \in DOMAIN s
    <2>1. t[i] = [s[i] EXCEPT !.fin = FALSE]
        OBVIOUS
    <2> QED BY <1>2, <2>1, EntryFin, Zenon
<1>4. t = [i \in 1 .. Len(s) |-> t[i]]
    BY <1>1
<1> HIDE DEF t
<1>5. \A i \in 1 .. Len(s) : t[i].w = s[i].w /\ t[i].fin = FALSE /\ t[i] = [w |-> t[i].w, fin |-> t[i].fin]
    <2> SUFFICES ASSUME NEW i \in 1 .. Len(s) PROVE t[i].w = s[i].w /\ t[i].fin = FALSE /\ t[i] = [w |-> t[i].w,
          fin |-> t[i].fin]
        OBVIOUS
    <2> DEFINE x == s[i].w
    <2>1. t[i] = [w |-> x, fin |-> FALSE]
        BY <1>1, <1>3
    <2> HIDE DEF x
    <2>2. t[i].w = x /\ t[i].fin = FALSE
        BY <2>1
    <2> QED BY <2>1, <2>2 DEF x
<1>6. IsStack(t) /\ Len(t) = Len(s) /\ DOMAIN t = 1 .. Len(s)
    BY <1>1, <1>4, <1>5, StackMap
<1>7. InnerTop(t, d) /\ ~HasDue(t)
    BY <1>1, <1>5, <1>6 DEF InnerTop, HasDue
<1>8. s # <<>> => Last(t).w = Last(s).w
    BY <1>1, <1>5, <1>6 DEF Last
<1>9. IsStack(t) /\ InnerTop(t, d) /\ Len(t) = Len(s) /\ ~HasDue(t) /\ (s # <<>> => Last(t).w = Last(s).w)
    BY <1>6, <1>7, <1>8
<1> QED BY <1>9 DEF t

\* What is done after the end.
EndOps == {"close", "closefd", "free", "freekeys"}

\* The kinds of the steps of a program.
OpsIn(p) == {p[i].op : i \in DOMAIN p}

\* Memory is freed before the writers above it are closed.
FreeFirst(p) == \E i, j \in DOMAIN p : i < j /\ p[i].op = "free" /\ p[j].op = "close"

\* What is left at the end: n writers to pop, then what closes and frees.
Shape(p, n) ==
    /\ IsProgram(p) /\ n \in Nat /\ n <= Len(p)
    /\ \A i \in DOMAIN p : (i <= n <=> p[i].op = "pop") /\ p[i].op \in EndOps \cup {"pop"}

\* A single step.
LEMMA OpsOne ==
    ASSUME NEW x, NEW n, NEW w
    PROVE  IsProgram(One(x, n, w)) /\ OpsIn(One(x, n, w)) = {x} /\ ~FreeFirst(One(x, n, w))
<1> DEFINE p == One(x, n, w)
<1>1. IsProgram(p) /\ Len(p) = 1 /\ p[1] = Step(x, n, w)
    BY OneIs
<1>2. DOMAIN p = 1 .. 1 /\ p[1].op = x
    BY <1>1, ProgramIs, StepIs
<1> HIDE DEF p
<1>3. OpsIn(p) = {x} /\ ~FreeFirst(p)
    BY <1>2 DEF OpsIn, FreeFirst
<1> QED BY <1>1, <1>3 DEF p

\* No step.
LEMMA OpsNone == IsProgram(<<>>) /\ OpsIn(<<>>) = {} /\ ~FreeFirst(<<>>)
BY NothingQuiet DEF OpsIn, FreeFirst, Strict

\* One program after the other.
LEMMA OpsJoin == ASSUME NEW p, NEW q, IsProgram(p), IsProgram(q)
    PROVE /\ IsProgram(p \o q) /\ OpsIn(p \o q) = OpsIn(p) \cup OpsIn(q)
          /\ FreeFirst(p \o q) => FreeFirst(p) \/ FreeFirst(q) \/ ("free" \in OpsIn(p) /\ "close" \in OpsIn(q))
<1> DEFINE r == p \o q
<1>1. /\ IsProgram(r) /\ Len(p) \in Nat /\ Len(q) \in Nat
      /\ DOMAIN p = 1 .. Len(p) /\ DOMAIN q = 1 .. Len(q) /\ DOMAIN r = 1 .. Len(p) + Len(q)
      /\ \A i \in 1 .. Len(p) + Len(q) : r[i] = IF i <= Len(p) THEN p[i] ELSE q[i - Len(p)]
    BY JoinIs
<1> HIDE DEF r
<1>2. \A i \in DOMAIN r : (i \in DOMAIN p /\ r[i] = p[i]) \/ (i - Len(p) \in DOMAIN q /\ r[i] = q[i - Len(p)])
    BY <1>1
<1>3. \A i \in DOMAIN p : i \in DOMAIN r /\ r[i] = p[i]
    BY <1>1
<1>4. \A i \in DOMAIN q : i + Len(p) \in DOMAIN r /\ r[i + Len(p)] = q[i]
    BY <1>1
<1>5. OpsIn(r) = OpsIn(p) \cup OpsIn(q)
    <2>1. OpsIn(r) \subseteq OpsIn(p) \cup OpsIn(q)
        BY <1>2 DEF OpsIn
    <2>2. OpsIn(p) \subseteq OpsIn(r)
        BY <1>3 DEF OpsIn
    <2>3. OpsIn(q) \subseteq OpsIn(r)
        BY <1>4 DEF OpsIn
    <2> QED BY <2>1, <2>2, <2>3
<1>6. ASSUME FreeFirst(r), ~FreeFirst(p), ~FreeFirst(q) PROVE "free" \in OpsIn(p) /\ "close" \in OpsIn(q)
    <2>1. PICK i, j \in DOMAIN r : i < j /\ r[i].op = "free" /\ r[j].op = "close"
        BY <1>6 DEF FreeFirst
    <2>a. i \in Nat /\ j \in Nat
        BY <1>1
    <2>2. CASE i \in DOMAIN p /\ r[i] = p[i]
        <3>1. ~(j \in DOMAIN p /\ r[j] = p[j])
            BY <1>6, <2>1, <2>2 DEF FreeFirst
        <3>2. j - Len(p) \in DOMAIN q /\ r[j] = q[j - Len(p)]
            BY <1>2, <3>1
        <3> QED BY <2>1, <2>2, <3>2 DEF OpsIn
    <2>3. CASE ~(i \in DOMAIN p /\ r[i] = p[i])
        <3>1. i - Len(p) \in DOMAIN q /\ r[i] = q[i - Len(p)]
            BY <1>2, <2>3
        <3>2. j \notin DOMAIN p
            BY <1>1, <2>1, <2>a, <3>1
        <3>3. j - Len(p) \in DOMAIN q /\ r[j] = q[j - Len(p)]
            BY <1>2, <3>2
        <3>4. i - Len(p) < j - Len(p)
            BY <1>1, <2>1, <2>a
        <3> QED BY <1>6, <2>1, <3>1, <3>3, <3>4 DEF FreeFirst
    <2> QED BY <2>2, <2>3
<1>7. IsProgram(r) /\ OpsIn(r) = OpsIn(p) \cup OpsIn(q) /\ (FreeFirst(r) => FreeFirst(p) \/ FreeFirst(q)
      \/ ("free" \in OpsIn(p) /\ "close" \in OpsIn(q)))
    BY <1>1, <1>5, <1>6
<1> QED BY <1>7 DEF r

\* What an operation does at its end.
LEMMA EndIs == ASSUME NEW ok \in BOOLEAN, op.name \in OpNames
    PROVE LET E == AtEnd(ok)
          IN  /\ IsProgram(E) /\ (FreeFirst(E) => op.name = "sign_buf" /\ ~ok)
              /\ OpsIn(E) =
                   CASE op.name = "sign_file" -> (IF fd = "open" THEN {"close", "closefd"} ELSE {})
                     [] op.name = "sign_buf" -> (IF ok THEN {"close"} ELSE {"free", "close"})
                     [] op.name = "sign_detached" -> {"close", "closefd"}
                     [] op.name = "sign_memory_detached" -> {"close", "free"}
                     [] op.name = "encrypt_buf" -> (IF ok THEN {} ELSE {"close"})
                     [] op.name \in {"export_key", "export_public_key"} -> (IF ok THEN {} ELSE {"close", "free"})
                     [] op.name \in {"generate_primary", "key_to_rawpacket"} ->
                           (IF mem = "live" THEN {"close", "free"} ELSE {})
                             \cup (IF ok \/ op.name = "key_to_rawpacket" THEN {} ELSE {"freekeys"})
                     [] op.name = "generate_subkey" -> (IF ok THEN {} ELSE {"freekeys"})
                     [] OTHER -> {}
<1> DEFINE K == One("freekeys", 0, "")
           CF == Close \o CloseFd
           CM == Close \o Free
<1>1. /\ IsProgram(Close) /\ OpsIn(Close) = {"close"} /\ ~FreeFirst(Close)
      /\ IsProgram(CloseFd) /\ OpsIn(CloseFd) = {"closefd"} /\ ~FreeFirst(CloseFd)
      /\ IsProgram(Free) /\ OpsIn(Free) = {"free"} /\ ~FreeFirst(Free)
      /\ IsProgram(K) /\ OpsIn(K) = {"freekeys"} /\ ~FreeFirst(K)
    BY OpsOne DEF Close, CloseFd, Free
<1>2. IsProgram(<<>>) /\ OpsIn(<<>>) = {} /\ ~FreeFirst(<<>>)
    BY OpsNone
<1>3. IsProgram(CF) /\ OpsIn(CF) = {"close", "closefd"} /\ ~FreeFirst(CF)
    BY <1>1, OpsJoin
<1>4. IsProgram(CM) /\ OpsIn(CM) = {"close", "free"} /\ ~FreeFirst(CM)
    BY <1>1, OpsJoin
<1> HIDE DEF K, CF, CM
<1>5. IsProgram(Free \o Close) /\ OpsIn(Free \o Close) = {"free", "close"}
    BY <1>1, OpsJoin
<1>6. IsProgram(<<>> \o Close) /\ OpsIn(<<>> \o Close) = {"close"} /\ ~FreeFirst(<<>> \o Close)
    BY <1>1, <1>2, OpsJoin
<1>7. IsProgram(CM \o K) /\ OpsIn(CM \o K) = {"close", "free"} \cup {"freekeys"} /\ ~FreeFirst(CM \o K)
    BY <1>1, <1>4, OpsJoin
<1>8. IsProgram(CM \o <<>>) /\ OpsIn(CM \o <<>>) = {"close", "free"} \cup {} /\ ~FreeFirst(CM \o <<>>)
    BY <1>2, <1>4, OpsJoin
<1>9. IsProgram(<<>> \o K) /\ OpsIn(<<>> \o K) = {} \cup {"freekeys"} /\ ~FreeFirst(<<>> \o K)
    BY <1>1, <1>2, OpsJoin
<1>10. IsProgram(<<>> \o <<>>) /\ OpsIn(<<>> \o <<>>) = {} \cup {} /\ ~FreeFirst(<<>> \o <<>>)
    BY <1>2, OpsJoin
<1>11. CASE op.name = "sign_file"
    BY <1>2, <1>3, <1>11 DEF AtEnd, If, CF
<1>12. CASE op.name = "sign_buf"
    BY <1>5, <1>6, <1>12 DEF AtEnd, If
<1>13. CASE op.name = "sign_detached"
    BY <1>3, <1>13 DEF AtEnd, If, CF
<1>14. CASE op.name = "sign_memory_detached"
    BY <1>4, <1>14 DEF AtEnd, If, CM
<1>15. CASE op.name = "encrypt_buf"
    BY <1>1, <1>2, <1>15 DEF AtEnd, If
<1>16. CASE op.name \in {"export_key", "export_public_key"}
    BY <1>2, <1>4, <1>16 DEF AtEnd, If, CM
<1>17. CASE op.name = "generate_primary"
    BY <1>7, <1>8, <1>9, <1>10, <1>17 DEF AtEnd, If, CM, K
<1>18. CASE op.name = "key_to_rawpacket"
    BY <1>2, <1>4, <1>18 DEF AtEnd, If, CM
<1>19. CASE op.name = "generate_subkey"
    BY <1>1, <1>2, <1>19 DEF AtEnd, If, K
<1>20. CASE op.name = "encrypt_file"
    BY <1>2, <1>20 DEF AtEnd
<1> QED BY <1>11, <1>12, <1>13, <1>14, <1>15, <1>16, <1>17, <1>18, <1>19, <1>20 DEF OpNames

\* Popping writers.
LEMMA PopsAre == ASSUME NEW n \in Nat PROVE IsProgram(Pops(n))
<1>1. \A i \in 1 .. n : IsStep(Pops(n)[i])
    <2>1. \A i \in 1 .. n : Pops(n)[i] = Step("pop", 0, "")
        BY DEF Pops
    <2>2. IsStep(Step("pop", 0, ""))
        BY DEF IsStep, Step
    <2> QED BY <2>1, <2>2, Zenon
<1>2. Pops(n) = [i \in 1 .. n |-> Pops(n)[i]]
    BY DEF Pops
<1> QED BY <1>1, <1>2, MappedIs

\* The writers of a failed call are popped first.
LEMMA PopsShape == ASSUME NEW n \in Nat, NEW q, IsProgram(q), OpsIn(q) \subseteq EndOps
    PROVE Shape(Pops(n) \o q, n) /\ OpsIn(q) \subseteq OpsIn(Pops(n) \o q) /\ OpsIn(Pops(n)
          \o q) \subseteq OpsIn(q) \cup {"pop"}
          /\ (FreeFirst(Pops(n) \o q) => FreeFirst(q))
<1> DEFINE p == Pops(n)
           r == p \o q
<1>0. IsProgram(p)
    BY PopsAre
<1>1. Len(p) = n /\ DOMAIN p = 1 .. n /\ \A i \in 1 .. n : p[i] = Step("pop", 0, "")
    <2>1. p = [i \in 1 .. n |-> p[i]] /\ \A i \in 1 .. n : p[i] = Step("pop", 0, "")
        BY DEF Pops
    <2>2. DOMAIN p = 1 .. n
        BY <2>1
    <2> HIDE DEF p
    <2>3. Len(p) \in Nat /\ DOMAIN p = 1 .. Len(p)
        BY <1>0, ProgramIs
    <2>4. Len(p) = n
        BY <2>2, <2>3
    <2> QED BY <2>1, <2>2, <2>4
<1>2. \A i \in 1 .. n : p[i].op = "pop"
    <2>1. Step("pop", 0, "").op = "pop"
        BY DEF Step
    <2> HIDE DEF p
    <2> QED BY <1>1, <2>1, Zenon
<1> HIDE DEF p
<1>3. /\ IsProgram(r) /\ Len(r) = n + Len(q) /\ Len(q) \in Nat /\ DOMAIN q = 1 .. Len(q) /\ DOMAIN r = 1 .. n + Len(q)
      /\ \A i \in 1 .. n + Len(q) : r[i] = IF i <= n THEN p[i] ELSE q[i - n]
    BY <1>0, <1>1, JoinIs
<1>4. OpsIn(r) = OpsIn(p) \cup OpsIn(q) /\ (FreeFirst(r) => FreeFirst(p) \/ FreeFirst(q) \/ ("free" \in OpsIn(p)
      /\ "close" \in OpsIn(q)))
    BY <1>0, OpsJoin
<1> HIDE DEF r
<1>5. OpsIn(p) \subseteq {"pop"} /\ ~FreeFirst(p)
    BY <1>1, <1>2 DEF OpsIn, FreeFirst
<1>6. \A i \in DOMAIN q : q[i].op \in EndOps
    BY DEF OpsIn
<1>7. ASSUME NEW i \in DOMAIN r PROVE (i <= n <=> r[i].op = "pop") /\ r[i].op \in EndOps \cup {"pop"}
    <2>1. CASE i <= n
        <3>1. r[i] = p[i] /\ i \in 1 .. n
            BY <1>3, <2>1
        <3> QED BY <1>2, <2>1, <3>1
    <2>2. CASE ~(i <= n)
        <3>1. r[i] = q[i - n] /\ i - n \in DOMAIN q
            BY <1>3, <2>2
        <3> QED BY <1>6, <2>2, <3>1 DEF EndOps
    <2> QED BY <2>1, <2>2
<1>8. Shape(r, n)
    BY <1>3, <1>7 DEF Shape
<1> QED BY <1>4, <1>5, <1>8 DEF p, r

\* One step later.
LEMMA TailShape == ASSUME NEW p, NEW n, Shape(p, n), p # <<>>
    PROVE /\ Head(p) = p[1] /\ p[1].op \in EndOps \cup {"pop"} /\ (p[1].op = "pop" <=> n > 0)
          /\ Shape(Tail(p), IF n > 0 THEN n - 1 ELSE n)
          /\ OpsIn(Tail(p)) \subseteq OpsIn(p) /\ OpsIn(p) \subseteq {p[1].op} \cup OpsIn(Tail(p))
          /\ FreeFirst(Tail(p)) => FreeFirst(p)
          /\ p[1].op = "free" /\ "close" \in OpsIn(Tail(p)) => FreeFirst(p)
<1> DEFINE t == Tail(p)
<1>1. IsProgram(p) /\ n \in Nat /\ n <= Len(p)
    BY DEF Shape
<1>2. Len(p) \in Nat /\ DOMAIN p = 1 .. Len(p) /\ 1 \in DOMAIN p /\ Head(p) = p[1] /\ t = SubSeq(p, 2, Len(p))
    BY <1>1, ProgramIs, TailIs
<1>3. IsProgram(t) /\ DOMAIN t = 1 .. Len(p) - 1 /\ Len(t) = Len(p) - 1 /\ \A i \in 1 .. Len(p) - 1 : t[i] = p[i + 1]
      /\ i + 1 \in DOMAIN p
    <2>0. 2 \in Nat \ {0}
        OBVIOUS
    <2>1. /\ IsProgram(t) /\ DOMAIN t = 1 .. Len(t) /\ Len(t) = IF 2 <= Len(p) THEN Len(p) - 2 + 1 ELSE 0
          /\ \A i \in 1 .. Len(t) : t[i] = p[2 + i - 1] /\ 2 + i - 1 \in DOMAIN p
        <3> DEFINE r == SubSeq(p, 2, Len(p))
        <3>1. /\ IsProgram(r) /\ DOMAIN r = 1 .. Len(r) /\ Len(r) = IF 2 <= Len(p) THEN Len(p) - 2 + 1 ELSE 0
              /\ \A i \in 1 .. Len(r) : r[i] = p[2 + i - 1] /\ 2 + i - 1 \in DOMAIN p
            BY <1>1, <2>0, RestIs, Zenon
        <3> HIDE DEF r
        <3>2. t = r
            BY <1>2 DEF r
        <3> HIDE DEF t
        <3> QED BY <3>1, <3>2
    <2> HIDE DEF t
    <2>2. Len(t) = Len(p) - 1
        BY <1>2, <2>1
    <2>3. \A i \in 1 .. Len(t) : 2 + i - 1 = i + 1
        BY <1>2, <2>2
    <2> QED BY <2>1, <2>2, <2>3
<1> HIDE DEF t
<1>4. \A i \in DOMAIN p : (i <= n <=> p[i].op = "pop") /\ p[i].op \in EndOps \cup {"pop"}
    BY DEF Shape
<1>5. p[1].op \in EndOps \cup {"pop"} /\ (p[1].op = "pop" <=> n > 0)
    <2>1. 1 <= n <=> n > 0
        BY <1>1
    <2> QED BY <1>2, <1>4, <2>1
<1> DEFINE m == IF n > 0 THEN n - 1 ELSE n
<1>6. Shape(t, m)
    <2>1. m \in Nat /\ m <= Len(p) - 1 /\ \A i \in 1 .. Len(p) - 1 : (i <= m <=> i + 1 <= n)
        BY <1>1, <1>2
    <2> HIDE DEF m
    <2> QED BY <1>3, <1>4, <2>1 DEF Shape
<1>7. OpsIn(t) \subseteq OpsIn(p)
    BY <1>3 DEF OpsIn
<1>8. OpsIn(p) \subseteq {p[1].op} \cup OpsIn(t)
    <2>1. \A i \in DOMAIN p : i = 1 \/ (i - 1 \in 1 .. Len(p) - 1 /\ t[i - 1] = p[i])
        BY <1>2, <1>3
    <2> QED BY <1>3, <2>1 DEF OpsIn
<1>9. FreeFirst(t) => FreeFirst(p)
    <2> SUFFICES ASSUME FreeFirst(t) PROVE FreeFirst(p)
        OBVIOUS
    <2>1. PICK i, j \in DOMAIN t : i < j /\ t[i].op = "free" /\ t[j].op = "close"
        BY DEF FreeFirst
    <2>2. i + 1 \in DOMAIN p /\ j + 1 \in DOMAIN p /\ t[i] = p[i + 1] /\ t[j] = p[j + 1] /\ i + 1 < j + 1
        BY <1>2, <1>3, <2>1
    <2> QED BY <2>1, <2>2 DEF FreeFirst
<1>10. ASSUME p[1].op = "free", "close" \in OpsIn(t) PROVE FreeFirst(p)
    <2>1. PICK j \in DOMAIN t : t[j].op = "close"
        BY <1>10 DEF OpsIn
    <2>2. j + 1 \in DOMAIN p /\ t[j] = p[j + 1] /\ 1 < j + 1
        BY <1>2, <1>3, <2>1
    <2> QED BY <1>2, <1>10, <2>1, <2>2 DEF FreeFirst
<1> HIDE DEF m
<1>11. /\ Shape(t, m) /\ OpsIn(t) \subseteq OpsIn(p) /\ OpsIn(p) \subseteq {p[1].op} \cup OpsIn(t)
       /\ (FreeFirst(t) => FreeFirst(p)) /\ (p[1].op = "free" /\ "close" \in OpsIn(t) => FreeFirst(p))
    BY <1>6, <1>7, <1>8, <1>9, <1>10
<1> QED BY <1>2, <1>5, <1>11 DEF t, m

-----------------------------------------------------------------------------
(* The invariant: the state fits the label of the next step. *)

\* What must not happen but in the cases that WritersReleased names.
Unwanted == {"freed memory", "closed stdin", "freed subkey listed"}

\* What a failure that nobody looks at may do to the data.
Mild == {"in clear", "no preamble", "cut"}

\* How the state fits a label while the operation goes on.
FitsPlace(a) ==
    /\ a.ph # "over"
    /\ a.ph \in {"before", "closed", "freed"} => stack = <<>>
    /\ a.ph = "before" => mem = "none" /\ fd = "none"
    /\ a.ph = "up" => /\ Len(stack) > a.d
                      /\ IsFile(op) => mem = "none" /\ fd = "open"
                      /\ ~IsFile(op) => mem = "live" /\ fd = "none"
    /\ a.ph = "closed" => /\ IsFile(op) => mem = "none" /\ fd \in {"open", "closed"}
                          /\ ~IsFile(op) => mem = "live" /\ fd = "none"
    /\ a.ph = "freed" => mem = "freed" /\ fd = "none"
FitsStack(a) ==
    /\ IsStack(stack) /\ InnerTop(stack, a.d)
    /\ a.top = "dash" => stack # <<>> /\ Last(stack).w = "dash"
    /\ HasDue(stack) /\ op.name = "sign_buf" => op.armor \/ op.clear

\* A signature that is put together.
IsSig(s) ==
    /\ s = [mem |-> s.mem, hashoff |-> s.hashoff, hashlen |-> s.hashlen, unhashoff |-> s.unhashoff,
         hashed |-> s.hashed,
            short |-> s.short, done |-> s.done]
    /\ s.mem \in Nat /\ s.hashoff \in Int /\ s.hashlen \in Int /\ s.unhashoff \in Int

\* The i-th thing that is hashed.
HashedItem(o, s, i) ==
    IF i <= Len(Items(o)) THEN <<Items(o)[i], 0>>
    ELSE IF i = Len(Items(o)) + 1 THEN <<"fields", s.unhashoff>> ELSE <<"trailer", s.hashlen + 6>>

\* A signature that memory did not fail is as far as the label says.
SigSoFar(s, m) ==
    /\ m <= 4 => s.mem = m
    /\ m = 5 => s.mem = 4 /\ s.hashoff = 4
    /\ m = 6 => s.mem >= 6 /\ s.hashoff = 4
    /\ m = 7 => s.hashlen >= 0 /\ s.unhashoff = s.hashlen + 6
SigFits(o, s, h, m) ==
    /\ h <= Len(Items(o)) + 2 /\ (h > Len(Items(o)) => m = 7)
    /\ s.hashed = [i \in 1 .. h |-> HashedItem(o, s, i)]
    /\ s.done => h = Len(Items(o)) + 2
    /\ ~s.short => SigSoFar(s, m)
FitsSig(a) ==
    /\ IsSig(sig) /\ (faults = 0 => ~sig.short)
    /\ Encrypts(op) => ~sig.done
    /\ ~Encrypts(op) => SigFits(op, sig, a.h, a.m)
FitsRest(a) == a.f # "dead" /\ (keys # "none" => a.f = "must") /\ wrong \cap Unwanted = {}
Fits(a) == FitsPlace(a) /\ FitsStack(a) /\ FitsSig(a) /\ FitsRest(a)

\* The steps left are a run that the state fits.
Live(a, e) == Runs(op, todo, a, e) /\ e.ph = "over" /\ Fits(a)

\* After its end: what is left releases what is held.
Post(n) ==
    /\ Shape(todo, n) /\ (FreeFirst(todo) => op.name = "sign_buf" /\ result = "failed")
    /\ IsStack(stack) /\ InnerTop(stack, n) /\ (n > 0 => Len(stack) > n)
    /\ fd = "open" /\ op.name # "encrypt_file" => "closefd" \in OpsIn(todo)
    /\ stack # <<>> => \/ "close" \in OpsIn(todo)
                       \/ op.name \in {"encrypt_file", "generate_subkey"} /\ result = "failed"
                       \/ op.name = "export_public_key" /\ result = "ok"
    /\ "close" \in OpsIn(todo) /\ stack # <<>> /\ mem = "freed" => op.name = "sign_buf" /\ result = "failed"
    /\ HasDue(stack) /\ op.name = "sign_buf" => op.armor \/ op.clear
    /\ "closefd" \in OpsIn(todo) /\ fd = "none" => op.name = "sign_detached"
    /\ "freekeys" \in OpsIn(todo) => result = "failed"
    /\ op.name = "generate_subkey" /\ result = "failed" /\ keys # "none" => faults > 0
    /\ "freed memory" \in wrong => op.name = "sign_buf" /\ result = "failed" /\ (op.armor \/ op.clear)
    /\ "closed stdin" \in wrong => op.name = "sign_detached" /\ fd = "none"
    /\ "freed subkey listed" \in wrong => result = "failed" /\ faults > 0
    /\ SignedAsChecked

\* The invariant behind WritersReleased and SignedAsChecked.
HeldInv ==
    /\ op \in Ops /\ faults \in Nat
    /\ result \in {"none", "ok", "failed", "crashed"}
    /\ result = "none" => \E a, e : Live(a, e)
    /\ result \in {"ok", "failed"} => \E n : Post(n)
    /\ result = "crashed" => todo = <<>> /\ wrong \cap Unwanted = {} /\ SignedAsChecked

\* An operation starts at the label Start.
LEMMA InitHeldInv == Init => HeldInv
<1> SUFFICES ASSUME Init PROVE HeldInv
    OBVIOUS
<1>1. /\ op \in Ops /\ todo = Program(op) /\ result = "none" /\ stack = <<>> /\ mem = "none" /\ fd = "none"
      /\ sig = NoSig /\ keys = "none" /\ faults = 0 /\ wrong = {}
    BY DEF Init
<1>2. PICK e : Runs(op, todo, Start, e) /\ e.ph = "over"
    BY <1>1, ProgramRuns DEF Ended
<1>3. Start.d = 0 /\ Start.ph = "before" /\ Start.h = 0 /\ Start.m = 0 /\ Start.top = "any" /\ Start.f = "may"
    BY DEF Start, Lab
<1>4. FitsPlace(Start)
    BY <1>1, <1>3 DEF FitsPlace
<1>5. FitsStack(Start)
    BY <1>1, <1>3, StackNone DEF FitsStack
<1>6. FitsSig(Start)
    <2>1. IsSig(NoSig) /\ NoSig.mem = 0 /\ NoSig.hashed = <<>> /\ NoSig.short = FALSE /\ NoSig.done = FALSE
        BY DEF NoSig, IsSig
    <2>2. Len(Items(op)) \in Nat
        BY <1>1, ItemsAre
    <2>3. [i \in 1 .. 0 |-> HashedItem(op, NoSig, i)] = <<>>
        OBVIOUS
    <2>4. SigSoFar(NoSig, 0)
        BY <2>1 DEF SigSoFar
    <2>5. SigFits(op, NoSig, 0, 0)
        BY <2>1, <2>2, <2>3, <2>4 DEF SigFits
    <2> QED BY <1>1, <1>3, <2>1, <2>5 DEF FitsSig
<1>7. FitsRest(Start)
    BY <1>1, <1>3 DEF FitsRest
<1> QED BY <1>1, <1>2, <1>4, <1>5, <1>6, <1>7 DEF HeldInv, Live, Fits

\* What a step does to the run.
LEMMA AfterLive ==
    ASSUME NEW a, NEW e, Live(a, e), result = "none", todo # <<>>, op' = op, NEW ok \in BOOLEAN, NEW fault, Proceed(ok,
          fault), ok => Now.op # "fail"
    PROVE  /\ a \in Labels /\ Allowed(op, a, Now)
           /\ ok => result' = "none" /\ Runs(op', todo', Move(a, Now), e)
           /\ ~ok /\ Now.drop >= 0 => result' = "none" /\ Runs(op', todo', IF Now.op = "sig" THEN Move(a, Now) ELSE a,
                e)
           /\ ~ok /\ ~(Now.drop >= 0) => result' = "failed" /\ todo' = Pops(Now.pops) \o AtEnd(FALSE)
<1>1. Runs(op, todo, a, e)
    BY DEF Live
<1>2. IsProgram(todo)
    BY <1>1 DEF Runs
<1>3. Now = todo[1]
    BY <1>2, TailIs DEF Now
<1>4. /\ a \in Labels /\ Allowed(op, a, Now)
      /\ Now.op # "fail" => Runs(op, Tail(todo), Move(a, Now), e)
      /\ Now.drop >= 0 => Runs(op, SubSeq(todo, Now.drop + 2, Len(todo)), IF Now.op = "sig" THEN Move(a, Now) ELSE a,
           e)
    BY <1>1, <1>3, RunsRest
<1>5. /\ todo' = IF ok THEN Tail(todo)
                 ELSE IF Now.drop >= 0 THEN SubSeq(todo, Now.drop + 2, Len(todo)) ELSE Pops(Now.pops) \o AtEnd(FALSE)
      /\ result' = IF ok \/ Now.drop >= 0 \/ result # "none" THEN result ELSE "failed"
    BY Zenon DEF Proceed
<1>6. ASSUME ok PROVE result' = "none" /\ Runs(op', todo', Move(a, Now), e)
    BY <1>4, <1>5, <1>6, Zenon
<1>7. ASSUME ~ok, Now.drop >= 0 PROVE result' = "none" /\ Runs(op', todo', IF Now.op = "sig" THEN Move(a, Now) ELSE a,
      e)
    BY <1>4, <1>5, <1>7, Zenon
<1>8. ASSUME ~ok, ~(Now.drop >= 0) PROVE result' = "failed" /\ todo' = Pops(Now.pops) \o AtEnd(FALSE)
    BY <1>5, <1>8, Zenon
<1> QED BY <1>4, <1>6, <1>7, <1>8, Zenon

\* The state is the same for the writers, the file, the memory, the signature and the keys.
LEMMA SameFits ==
    ASSUME NEW a, Fits(a), UNCHANGED <<op, stack, mem, fd, sig, keys, wrong>>, faults' = 0 => faults = 0
    PROVE Fits(a)'
<1>1. FitsPlace(a)'
    BY DEF Fits, FitsPlace
<1>2. FitsStack(a)'
    BY DEF Fits, FitsStack
<1>3. FitsSig(a)'
    BY DEF Fits, FitsSig
<1>4. FitsRest(a)'
    BY DEF Fits, FitsRest
<1> QED BY <1>1, <1>2, <1>3, <1>4 DEF Fits

\* The items of two sequences.
LEMMA SeqJoinIs == ASSUME NEW V, NEW p \in Seq(V), NEW q \in Seq(V)
    PROVE p \o q = [i \in 1 .. Len(p) + Len(q) |-> IF i <= Len(p) THEN p[i] ELSE q[i - Len(p)]]
<1> DEFINE r == p \o q
<1>1. r \in Seq(V) /\ Len(r) = Len(p) + Len(q) /\ DOMAIN r = 1 .. Len(p) + Len(q)
    OBVIOUS
<1>2. \A i \in 1 .. Len(p) + Len(q) : r[i] = IF i <= Len(p) THEN p[i] ELSE q[i - Len(p)]
    OBVIOUS
<1> HIDE DEF r
<1>3. r = [i \in DOMAIN r |-> r[i]]
    BY <1>1
<1>4. r = [i \in 1 .. Len(p) + Len(q) |-> IF i <= Len(p) THEN p[i] ELSE q[i - Len(p)]]
    BY <1>1, <1>2, <1>3
<1> QED BY <1>4 DEF r

\* A signature that is done is the one that is checked.
LEMMA FitsChecked == ASSUME op \in Ops, NEW a \in Labels, FitsSig(a) PROVE SignedAsChecked
<1> SUFFICES ASSUME sig.done, ~sig.short, ~Encrypts(op) PROVE SignedAsChecked
    BY DEF SignedAsChecked, FitsSig
<1> DEFINE L == Items(op)
           n == Len(L)
           F == [i \in DOMAIN L |-> <<L[i], 0>>]
           T == <<<<"fields", 6 + sig.hashlen>>, <<"trailer", 6 + sig.hashlen>>>>
<1>1. L \in Seq(Words) /\ n \in Nat
    BY ItemsAre
<1>2. SigFits(op, sig, a.h, a.m) /\ a.h = n + 2 /\ sig.hashlen \in Int
    BY DEF FitsSig, SigFits, IsSig
<1>3. a.m = 7 /\ sig.unhashoff = sig.hashlen + 6
    BY <1>1, <1>2 DEF SigFits, SigSoFar
<1>4. sig.hashed = [i \in 1 .. n + 2 |-> HashedItem(op, sig, i)]
    BY <1>2 DEF SigFits
<1>a. DOMAIN L = 1 .. n
    BY <1>1
<1>5. sig.hashed = F \o T
    <2> DEFINE R == {F[i] : i \in 1 .. n}
    <2>1. F \in Seq(R) /\ Len(F) = n /\ \A i \in 1 .. n : F[i] = <<L[i], 0>>
        <3>1. F \in [1 .. n -> R]
            BY <1>a
        <3> HIDE DEF R
        <3>2. F \in Seq(R) /\ DOMAIN F = 1 .. n
            BY <1>1, <3>1, <1>a
        <3> QED BY <1>1, <1>a, <3>2
    <2>2. T \in Seq({T[1], T[2]}) /\ Len(T) = 2 /\ T[1] = <<"fields", 6 + sig.hashlen>> /\ T[2] = <<"trailer",
          6 + sig.hashlen>>
        OBVIOUS
    <2> HIDE DEF F, T, R
    <2>3. F \o T = [i \in 1 .. n + 2 |-> IF i <= n THEN F[i] ELSE T[i - n]]
        <3> DEFINE V == R \cup {T[1], T[2]}
        <3>1. F \in Seq(V) /\ T \in Seq(V)
            BY <2>1, <2>2
        <3> HIDE DEF V
        <3>2. F \o T = [i \in 1 .. Len(F) + Len(T) |-> IF i <= Len(F) THEN F[i] ELSE T[i - Len(F)]]
            BY <3>1, SeqJoinIs, Zenon
        <3> QED BY <2>1, <2>2, <3>2, Zenon
    <2>4. ASSUME NEW i \in 1 .. n + 2 PROVE HashedItem(op, sig, i) = IF i <= n THEN F[i] ELSE T[i - n]
        <3>1. CASE i <= n
            BY <1>1, <2>1, <3>1 DEF HashedItem
        <3>2. CASE i = n + 1
            <4>1. i - n = 1 /\ ~(i <= n)
                BY <1>1, <3>2
            <4>2. sig.unhashoff = 6 + sig.hashlen
                BY <1>2, <1>3
            <4> QED BY <2>2, <3>2, <4>1, <4>2 DEF HashedItem
        <3>3. CASE i = n + 2
            <4>1. i - n = 2 /\ ~(i <= n) /\ i # n + 1
                BY <1>1, <3>3
            <4>2. sig.hashlen + 6 = 6 + sig.hashlen
                BY <1>2
            <4> QED BY <2>2, <4>1, <4>2 DEF HashedItem
        <3> QED BY <1>1, <3>1, <3>2, <3>3
    <2> QED BY <1>4, <2>3, <2>4
<1>6. L = CASE op.name = "generate_primary" -> pgp_check_useridcert_sig
            [] op.name = "generate_subkey" -> pgp_check_subkey_sig
            [] op.clear -> <<"text">>
            [] OTHER -> <<"data">>
    BY DEF Items
<1> DEFINE G(l) == [i \in DOMAIN l |-> <<l[i], 0>>] \o T
<1>7. SignedAsChecked = (sig.done /\ ~sig.short => sig.hashed = G(L))
    BY Zenon DEF SignedAsChecked, Items
<1> QED BY <1>5, <1>7, Zenon

\* What a failing step leaves alone.
FailOk(a) ==
    /\ UNCHANGED <<op, stack, mem, keys>> /\ (fd' = fd \/ (a.ph = "before" /\ fd' = "failed"))
    /\ wrong' \cap Unwanted = {} /\ (sig' = sig \/ sig'.short = TRUE) /\ faults' \in Nat
    /\ op.name = "generate_subkey" /\ keys # "none" => faults' > 0

\* SignedAsChecked of an operation and a signature.
Checked(o, s) ==
    s.done /\ ~s.short =>
        LET first == CASE o.name = "generate_primary" -> pgp_check_useridcert_sig
                       [] o.name = "generate_subkey" -> pgp_check_subkey_sig
                       [] o.clear -> <<"text">>
                       [] OTHER -> <<"data">>
        IN  s.hashed = [i \in DOMAIN first |-> <<first[i], 0>>]
                         \o <<<<"fields", 6 + s.hashlen>>, <<"trailer", 6 + s.hashlen>>>>

\* The same property.
LEMMA CheckedIs == SignedAsChecked <=> Checked(op, sig)
BY Zenon DEF SignedAsChecked, Checked

\* Writers are there while the output is open.
LEMMA StackUp == ASSUME NEW a \in Labels, Fits(a), stack # <<>> PROVE a.ph = "up" /\ Len(stack) > a.d
BY DEF Fits, FitsPlace, Labels, Phases

\* What is left after the end covers what is held.
LEMMA EndCovers ==
    ASSUME op \in Ops, NEW a \in Labels, Fits(a), NEW ok \in BOOLEAN, NEW p, AtEnd(ok) = p, ok => a.ph = Final(op)
    PROVE  /\ IsProgram(p) /\ OpsIn(p) \subseteq EndOps /\ (FreeFirst(p) => op.name = "sign_buf" /\ ~ok)
           /\ fd = "open" /\ op.name # "encrypt_file" => "closefd" \in OpsIn(p)
           /\ stack # <<>> => \/ "close" \in OpsIn(p) \/ (op.name \in {"encrypt_file", "generate_subkey"} /\ ~ok)
                              \/ op.name = "export_public_key" /\ ok
           /\ "close" \in OpsIn(p) /\ stack # <<>> => mem # "freed"
           /\ "closefd" \in OpsIn(p) /\ fd # "open" => op.name = "sign_detached"
           /\ "freekeys" \in OpsIn(p) => ~ok
<1>1. op.name \in OpNames
    BY OpsAssumption
<1> DEFINE S == CASE op.name = "sign_file" -> (IF fd = "open" THEN {"close", "closefd"} ELSE {})
                     [] op.name = "sign_buf" -> (IF ok THEN {"close"} ELSE {"free", "close"})
                     [] op.name = "sign_detached" -> {"close", "closefd"}
                     [] op.name = "sign_memory_detached" -> {"close", "free"}
                     [] op.name = "encrypt_buf" -> (IF ok THEN {} ELSE {"close"})
                     [] op.name \in {"export_key", "export_public_key"} -> (IF ok THEN {} ELSE {"close", "free"})
                     [] op.name \in {"generate_primary", "key_to_rawpacket"} ->
                           (IF mem = "live" THEN {"close", "free"} ELSE {})
                             \cup (IF ok \/ op.name = "key_to_rawpacket" THEN {} ELSE {"freekeys"})
                     [] op.name = "generate_subkey" -> (IF ok THEN {} ELSE {"freekeys"})
                     [] OTHER -> {}
<1>2. IsProgram(p) /\ (FreeFirst(p) => op.name = "sign_buf" /\ ~ok) /\ OpsIn(p) = S
    BY <1>1, EndIs
<1>3. S \subseteq EndOps
    BY DEF EndOps
<1>4. stack # <<>> => a.ph = "up"
    BY StackUp
<1>5. FitsPlace(a)
    BY DEF Fits
<1>6. a.ph \in Phases
    BY DEF Labels
<1>7. fd = "open" /\ op.name # "encrypt_file" => "closefd" \in S
    BY <1>5, <1>6 DEF FitsPlace, IsFile, Phases
<1>8. stack # <<>> => \/ "close" \in S \/ (op.name \in {"encrypt_file", "generate_subkey"} /\ ~ok)
                      \/ op.name = "export_public_key" /\ ok
    <2> SUFFICES ASSUME stack # <<>>
                 PROVE  \/ "close" \in S \/ (op.name \in {"encrypt_file", "generate_subkey"} /\ ~ok)
                        \/ op.name = "export_public_key" /\ ok
        OBVIOUS
    <2>1. a.ph = "up" /\ (IsFile(op) => fd = "open") /\ (~IsFile(op) => mem = "live")
        BY <1>4, <1>5 DEF FitsPlace
    <2>2. ok => Final(op) = "up"
        BY <2>1
    <2>3. ok => op.name \notin {"sign_memory_detached", "encrypt_file", "encrypt_buf", "export_key",
          "generate_primary", "generate_subkey"}
        BY <2>2 DEF Final
    <2>4. ASSUME op.name \in {"sign_file", "sign_detached"} PROVE "close" \in S
        <3>1. fd = "open"
            BY <2>1, <2>4 DEF IsFile
        <3> QED BY <2>4, <3>1
    <2>5. ASSUME op.name \in {"sign_buf", "sign_memory_detached"} PROVE "close" \in S
        BY <2>5
    <2>6. ASSUME op.name \in {"generate_primary", "key_to_rawpacket"} PROVE "close" \in S
        <3>1. mem = "live"
            BY <2>1, <2>6 DEF IsFile
        <3> QED BY <2>6, <3>1
    <2>7. ASSUME op.name \in {"encrypt_buf", "export_key", "export_public_key"}, ~ok PROVE "close" \in S
        BY <2>7
    <2> HIDE DEF S
    <2>8. CASE ok
        <3>1. \/ op.name \in {"sign_file", "sign_detached"} \/ op.name \in {"sign_buf", "sign_memory_detached"}
              \/ op.name \in {"generate_primary", "key_to_rawpacket"} \/ op.name = "export_public_key"
            BY <1>1, <2>3, <2>8 DEF OpNames
        <3> QED BY <2>4, <2>5, <2>6, <2>8, <3>1, Zenon
    <2>9. CASE ~ok
        <3>1. \/ op.name \in {"sign_file", "sign_detached"} \/ op.name \in {"sign_buf", "sign_memory_detached"}
              \/ op.name \in {"generate_primary", "key_to_rawpacket"} \/ op.name \in {"encrypt_buf", "export_key",
                   "export_public_key"}
              \/ op.name \in {"encrypt_file", "generate_subkey"}
            BY <1>1 DEF OpNames
        <3> QED BY <2>4, <2>5, <2>6, <2>7, <2>9, <3>1, Zenon
    <2> QED BY <2>8, <2>9, Zenon
<1>9. stack # <<>> => mem # "freed"
    BY <1>4, <1>5 DEF FitsPlace
<1>10. "closefd" \in S /\ fd # "open" => op.name = "sign_detached"
    OBVIOUS
<1>11. "freekeys" \in S => ~ok
    OBVIOUS
<1> HIDE DEF S
<1> QED BY <1>2, <1>3, <1>7, <1>8, <1>9, <1>10, <1>11

\* A failure while the operation goes on.
LEMMA FailPost ==
    ASSUME op \in Ops, NEW a \in Labels, Fits(a), FailOk(a), result' = "failed", todo' = Pops(a.d) \o AtEnd(FALSE)
    PROVE  Post(a.d)'
<1> DEFINE p == AtEnd(FALSE)
           q == Pops(a.d) \o p
<1>1. /\ IsProgram(p) /\ OpsIn(p) \subseteq EndOps /\ (FreeFirst(p) => op.name = "sign_buf")
      /\ fd = "open" /\ op.name # "encrypt_file" => "closefd" \in OpsIn(p)
      /\ stack # <<>> => "close" \in OpsIn(p) \/ op.name \in {"encrypt_file", "generate_subkey"}
      /\ "close" \in OpsIn(p) /\ stack # <<>> => mem # "freed"
      /\ "closefd" \in OpsIn(p) /\ fd # "open" => op.name = "sign_detached"
    BY EndCovers
<1>2. a.d \in Nat
    BY DEF Labels
<1> HIDE DEF p
<1>3. /\ Shape(q, a.d) /\ OpsIn(p) \subseteq OpsIn(q) /\ OpsIn(q) \subseteq OpsIn(p) \cup {"pop"}
           /\ (FreeFirst(q) => FreeFirst(p))
    BY <1>1, <1>2, PopsShape
<1>4. todo' = q
    BY DEF p
<1> HIDE DEF q
<1>b. \A x \in EndOps : x \in OpsIn(todo') <=> x \in OpsIn(p)
    BY <1>3, <1>4 DEF EndOps
<1>c. \A x \in {"close", "closefd"} : x \in OpsIn(todo') <=> x \in OpsIn(p)
    BY <1>b DEF EndOps
<1>5. op' = op /\ stack' = stack /\ mem' = mem /\ keys' = keys /\ (fd' = fd \/ fd' = "failed")
    BY DEF FailOk
<1>6. FitsStack(a) /\ (stack # <<>> => Len(stack) > a.d) /\ stack \in Seq({stack[i] : i \in DOMAIN stack})
    BY StackUp DEF Fits, FitsStack, IsStack
<1>7. IsStack(stack') /\ InnerTop(stack', a.d) /\ (a.d > 0 => Len(stack') > a.d)
    <2>1. a.d > 0 => stack # <<>>
        BY <1>2, <1>6, StackIs DEF FitsStack, InnerTop
    <2> QED BY <1>5, <1>6, <2>1 DEF FitsStack
<1>8. SignedAsChecked'
    <2>1. CASE sig' = sig
        <3>1. SignedAsChecked
            BY FitsChecked DEF Fits
        <3>2. Checked(op, sig)
            BY <3>1, CheckedIs, Zenon
        <3>3. Checked(op', sig')
            BY <1>5, <2>1, <3>2
        <3> QED BY <3>3, Zenon DEF SignedAsChecked, Checked
    <2>2. CASE sig'.short = TRUE
        BY <2>2, Zenon DEF SignedAsChecked
    <2> QED BY <2>1, <2>2 DEF FailOk
<1>9. /\ "freed memory" \notin wrong' /\ "closed stdin" \notin wrong' /\ "freed subkey listed" \notin wrong'
    BY DEF FailOk, Unwanted
<1>10. Shape(todo', a.d) /\ (FreeFirst(todo') => op'.name = "sign_buf" /\ result' = "failed")
    BY <1>1, <1>3, <1>4, <1>5
<1>11. fd' = "open" /\ op'.name # "encrypt_file" => "closefd" \in OpsIn(todo')
    BY <1>1, <1>3, <1>4, <1>5
<1>12. stack' # <<>> => \/ "close" \in OpsIn(todo')
                        \/ op'.name \in {"encrypt_file", "generate_subkey"} /\ result' = "failed"
    BY <1>1, <1>3, <1>4, <1>5
<1>13. "close" \in OpsIn(todo') /\ stack' # <<>> => mem' # "freed"
    BY <1>1, <1>c, <1>5
<1>14. HasDue(stack') /\ op'.name = "sign_buf" => op'.armor \/ op'.clear
    BY <1>5, <1>6 DEF FitsStack
<1>15. "closefd" \in OpsIn(todo') /\ fd' = "none" => op'.name = "sign_detached"
    BY <1>1, <1>c, <1>5
<1>16. op'.name = "generate_subkey" /\ keys' # "none" => faults' > 0
    BY DEF FailOk
<1> QED BY <1>7, <1>8, <1>9, <1>10, <1>11, <1>12, <1>13, <1>14, <1>15, <1>16 DEF Post

\* The end of an operation that succeeded.
LEMMA OkPost ==
    ASSUME op \in Ops, NEW a \in Labels, Fits(a), a.ph = Final(op), a.d = 0, result' = "ok", todo' = AtEnd(TRUE),
           UNCHANGED <<op, stack, mem, fd, sig, keys, faults, wrong>>
    PROVE  Post(0)'
<1> DEFINE p == AtEnd(TRUE)
<1>1. /\ IsProgram(p) /\ OpsIn(p) \subseteq EndOps /\ ~FreeFirst(p)
      /\ fd = "open" /\ op.name # "encrypt_file" => "closefd" \in OpsIn(p)
      /\ stack # <<>> => "close" \in OpsIn(p) \/ op.name = "export_public_key"
      /\ "close" \in OpsIn(p) /\ stack # <<>> => mem # "freed"
      /\ "closefd" \in OpsIn(p) /\ fd # "open" => op.name = "sign_detached"
      /\ "freekeys" \notin OpsIn(p)
    BY EndCovers
<1> HIDE DEF p
<1>2. todo' = p
    BY DEF p
<1>3. Shape(p, 0)
    <2>1. Len(p) \in Nat /\ DOMAIN p = 1 .. Len(p)
        BY <1>1, ProgramIs
    <2>2. \A i \in DOMAIN p : p[i].op \in EndOps
        BY <1>1 DEF OpsIn
    <2>3. "pop" \notin EndOps
        BY DEF EndOps
    <2> QED BY <1>1, <2>1, <2>2, <2>3 DEF Shape
<1>a. op' = op /\ stack' = stack /\ mem' = mem /\ fd' = fd /\ sig' = sig /\ wrong' = wrong
    OBVIOUS
<1>4. FitsStack(a)
    BY DEF Fits
<1>5. IsStack(stack') /\ InnerTop(stack', 0) /\ (HasDue(stack') /\ op'.name = "sign_buf" => op'.armor \/ op'.clear)
    BY <1>4 DEF FitsStack
<1>6. SignedAsChecked'
    <2>1. SignedAsChecked
        BY FitsChecked DEF Fits
    <2>2. Checked(op, sig)
        BY <2>1, CheckedIs, Zenon
    <2>3. Checked(op', sig')
        BY <1>a, <2>2
    <2> QED BY <2>3, Zenon DEF SignedAsChecked, Checked
<1>7. /\ "freed memory" \notin wrong' /\ "closed stdin" \notin wrong' /\ "freed subkey listed" \notin wrong'
    BY DEF Fits, FitsRest, Unwanted
<1>8. fd' = "open" /\ op'.name # "encrypt_file" => "closefd" \in OpsIn(todo')
    BY <1>1, <1>2, <1>a
<1>9. stack' # <<>> => "close" \in OpsIn(todo') \/ (op'.name = "export_public_key" /\ result' = "ok")
    BY <1>1, <1>2, <1>a
<1>10. "close" \in OpsIn(todo') /\ stack' # <<>> => mem' # "freed"
    BY <1>1, <1>2, <1>a
<1>11. "closefd" \in OpsIn(todo') /\ fd' = "none" => op'.name = "sign_detached"
    BY <1>1, <1>2, <1>a
<1>12. result' # "failed" /\ ~(0 > 0)
    OBVIOUS
<1>13. Shape(todo', 0) /\ ~FreeFirst(todo') /\ "freekeys" \notin OpsIn(todo')
    BY <1>1, <1>2, <1>3, Zenon
<1> QED BY <1>5, <1>6, <1>7, <1>8, <1>9, <1>10, <1>11, <1>12, <1>13, Zenon DEF Post

\* The next step is allowed.
LEMMA LiveNow == ASSUME NEW a, NEW e, Live(a, e), todo # <<>>
    PROVE a \in Labels /\ Allowed(op, a, Now) /\ Fits(a) /\ (Now.op # "fail" => Runs(op, Tail(todo), Move(a, Now), e))
          /\ e.ph = "over"
<1>1. Runs(op, todo, a, e) /\ Fits(a) /\ e.ph = "over"
    BY DEF Live
<1>2. IsProgram(todo)
    BY <1>1 DEF Runs
<1>3. Now = todo[1]
    BY <1>2, TailIs DEF Now
<1>4. a \in Labels /\ Allowed(op, a, Now) /\ (Now.op # "fail" => Runs(op, Tail(todo), Move(a, Now), e))
    BY <1>1, <1>3, RunsRest
<1> QED BY <1>1, <1>4

\* A step that goes on.
LEMMA GoesOn ==
    ASSUME op' \in Ops, NEW b, NEW e, Runs(op', todo', b, e), e.ph = "over", Fits(b)', result' = "none",
          faults' \in Nat
    PROVE  HeldInv'
<1>1. Live(b, e)'
    BY DEF Live
<1> QED BY <1>1 DEF HeldInv

\* An operation that goes on has the rest of the run before it.
LEMMA LiveTail ==
    ASSUME op \in Ops, NEW a, NEW e, Live(a, e), todo # <<>>, Now.op # "fail", todo' = Tail(todo), result' = "none",
          op' = op,
           faults' \in Nat, NEW b, b = Move(a, Now), Fits(b)'
    PROVE  HeldInv'
<1>1. Runs(op', todo', b, e) /\ e.ph = "over"
    BY LiveNow
<1> QED BY <1>1, GoesOn

\* A step that may fail.
LEMMA LiveStep ==
    ASSUME op \in Ops, faults \in Nat, NEW a, NEW e, Live(a, e), result = "none", todo # <<>>, op' = op,
           NEW ok \in BOOLEAN, NEW fault \in BOOLEAN, Proceed(ok, fault), ok => Now.op # "fail",
           NEW b, b = Move(a, Now),
           ok => Fits(b)',
           NEW c, c = IF Now.op = "sig" THEN b ELSE a, ~ok /\ Now.drop >= 0 => Fits(c)',
           ~ok /\ ~(Now.drop >= 0) => FailOk(a) /\ Now.op # "pop"
    PROVE  HeldInv'
<1>1. /\ a \in Labels /\ Allowed(op, a, Now)
      /\ ok => result' = "none" /\ Runs(op', todo', b, e)
      /\ ~ok /\ Now.drop >= 0 => result' = "none" /\ Runs(op', todo', IF Now.op = "sig" THEN b ELSE a, e)
      /\ ~ok /\ ~(Now.drop >= 0) => result' = "failed" /\ todo' = Pops(Now.pops) \o AtEnd(FALSE)
    BY AfterLive, Zenon
<1>2. e.ph = "over" /\ op' \in Ops /\ Fits(a)
    BY DEF Live
<1>3. faults' \in Nat
    <2>1. faults' = IF fault THEN faults + 1 ELSE faults
        BY Zenon DEF Proceed
    <2> QED BY <2>1
<1>4. CASE ok
    BY <1>1, <1>2, <1>3, <1>4, GoesOn
<1>5. CASE ~ok /\ Now.drop >= 0
    <2>1. Fits(c)'
        BY <1>5
    <2>2. result' = "none" /\ Runs(op', todo', c, e)
        BY <1>1, <1>5, Zenon
    <2> QED BY <1>2, <1>3, <2>1, <2>2, GoesOn
<1>6. CASE ~ok /\ ~(Now.drop >= 0)
    <2>1. Now.pops = a.d
        BY <1>1, <1>6 DEF Allowed, AllowedPlace
    <2>2. Post(a.d)'
        BY <1>1, <1>2, <1>6, <2>1, FailPost
    <2>3. result' = "failed"
        BY <1>1, <1>6
    <2>4. \E n : Post(n)'
        BY <2>2
    <2> QED BY <1>2, <1>3, <2>3, <2>4 DEF HeldInv
<1> QED BY <1>4, <1>5, <1>6

-----------------------------------------------------------------------------
(* The steps of an operation that goes on. *)

\* What a step does to the parts of a label.
LEMMA MoveParts == ASSUME NEW a, NEW s
    PROVE LET b == Move(a, s)
          IN  /\ b.d = MoveD(a.d, s) /\ b.ph = MovePh(a.ph, s) /\ b.h = MoveH(a.h, a.top, s) /\ b.m = MoveM(a.m, s)
              /\ b.top = MoveTop(a.top, s) /\ b.f = MoveF(a.f, s)
BY DEF Move

\* These steps leave the label as it is.
LEMMA MoveStays ==
    ASSUME NEW a \in Labels, NEW s, s.op \in QuietOps \cup {"unhashed", "finalise", "closefd"}
    PROVE  Move(a, s) = a
<1>1. a = [d |-> a.d, ph |-> a.ph, h |-> a.h, m |-> a.m, top |-> a.top, f |-> a.f]
    BY DEF Labels
<1>2. MoveD(a.d, s) = a.d /\ MovePh(a.ph, s) = a.ph
    BY DEF MoveD, MovePh, QuietOps
<1>3. MoveH(a.h, a.top, s) = a.h /\ MoveM(a.m, s) = a.m
    BY DEF MoveH, MoveM, QuietOps
<1>4. MoveTop(a.top, s) = a.top /\ MoveF(a.f, s) = a.f
    BY DEF MoveTop, MoveF, QuietOps
<1> QED BY <1>1, <1>2, <1>3, <1>4, Zenon DEF Move

\* Failures are counted.
LEMMA FaultsAfter == ASSUME faults \in Nat, NEW ok, NEW fault, Proceed(ok, fault)
    PROVE faults' \in Nat /\ (faults' = 0 => faults = 0) /\ (fault => faults' > 0)
<1>1. faults' = IF fault THEN faults + 1 ELSE faults
    BY Zenon DEF Proceed
<1> QED BY <1>1

\* A step that fails only by a fault.
LEMMA AfterEither ==
    ASSUME NEW ok \in BOOLEAN, Proceed(ok, ~ok)
    PROVE  (ok => Proceed(TRUE, FALSE)) /\ (~ok => Proceed(FALSE, TRUE))
<1>1. ASSUME ok PROVE Proceed(TRUE, FALSE)
    <2>1. ok = TRUE /\ (~ok) = FALSE
        BY <1>1
    <2> QED BY <2>1
<1>2. ASSUME ~ok PROVE Proceed(FALSE, TRUE)
    <2>1. ok = FALSE /\ (~ok) = TRUE
        BY <1>2
    <2> QED BY <2>1
<1> QED BY <1>1, <1>2

\* A failure that changes nothing but the count of faults.
LEMMA LiveFails ==
    ASSUME op \in Ops, faults \in Nat, NEW a, NEW e, Live(a, e), result = "none", todo # <<>>,
           NEW fault \in BOOLEAN, Proceed(FALSE, fault), Now.op \notin {"sig", "pop"},
           op.name = "generate_subkey" /\ keys # "none" => fault,
           UNCHANGED <<op, stack, mem, fd, sig, keys>>, wrong' \cap Unwanted = {}, Now.drop >= 0 => wrong' = wrong
    PROVE  HeldInv'
<1>1. a \in Labels /\ Allowed(op, a, Now) /\ Fits(a)
    BY LiveNow
<1>2. faults' \in Nat /\ (faults' = 0 => faults = 0) /\ (fault => faults' > 0)
    BY FaultsAfter
<1>3. Now.drop >= 0 => Fits(a)'
    BY <1>1, <1>2, SameFits
<1>4. FailOk(a)
    BY <1>2 DEF FailOk
<1>5. PICK b : b = Move(a, Now)
    OBVIOUS
<1>6. op' = op /\ a = IF Now.op = "sig" THEN b ELSE a
    OBVIOUS
<1> QED BY <1>3, <1>4, <1>5, <1>6, LiveStep

\* Steps that only write, or cannot be done.
LEMMA LiveQuiet ==
    ASSUME op \in Ops, faults \in Nat, NEW a, NEW e, Live(a, e), result = "none", At(QuietOps),
           NEW ok \in BOOLEAN, NEW fault \in BOOLEAN, Proceed(ok, fault), ok => Now.op # "fail", ~ok => fault
                 \/ Now.op = "fail",
           UNCHANGED <<op, stack, mem, fd, sig, keys, wrong>>
    PROVE  HeldInv'
<1>1. todo # <<>> /\ Now.op \in QuietOps
    BY DEF At, Now
<1>2. a \in Labels /\ Allowed(op, a, Now) /\ Fits(a)
    BY <1>1, LiveNow
<1>3. faults' \in Nat /\ (faults' = 0 => faults = 0) /\ (fault => faults' > 0)
    BY FaultsAfter
<1>4. Fits(a)'
    BY <1>2, <1>3, SameFits
<1>5. a = Move(a, Now)
    BY <1>1, <1>2, MoveStays
<1>6. Now.op # "pop" /\ a = IF Now.op = "sig" THEN a ELSE a
    BY <1>1 DEF QuietOps
<1>7. ~ok => FailOk(a)
    <2> SUFFICES ASSUME ~ok PROVE FailOk(a)
        OBVIOUS
    <2>1. wrong' \cap Unwanted = {}
        BY <1>2 DEF Fits, FitsRest
    <2>2. op.name = "generate_subkey" /\ keys # "none" => faults' > 0
        <3>1. CASE fault
            BY <1>3, <3>1
        <3>2. CASE Now.op = "fail"
            BY <1>2, <3>2 DEF Allowed, AllowedPlace, Fits, FitsRest
        <3> QED BY <3>1, <3>2
    <2> QED BY <1>3, <2>1, <2>2 DEF FailOk
<1>8. op' = op
    OBVIOUS
<1> QED BY <1>1, <1>4, <1>5, <1>6, <1>7, <1>8, LiveStep

\* A writer is pushed, or memory for it is missing.
LEMMA LivePush ==
    ASSUME op \in Ops, faults \in Nat, NEW a, NEW e, Live(a, e), result = "none", pgp_writer_push
    PROVE  HeldInv'
<1>1. PICK ok \in Outcomes : /\ At({"push"}) /\ Proceed(ok, ~ok)
                             /\ stack' = IF ok THEN Append(stack, [w |-> Now.what, fin |-> Now.what \in {"base64",
                                  "stream"}]) ELSE stack
                             /\ UNCHANGED <<op, mem, fd, packet, sig, null, stream, keys, wrong>>
    BY Zenon DEF pgp_writer_push, After
<1>2. todo # <<>> /\ Now.op = "push" /\ ok \in BOOLEAN
    BY <1>1 DEF At, Now, Outcomes
<1>3. a \in Labels /\ Allowed(op, a, Now) /\ Fits(a)
    BY <1>2, LiveNow
<1>4. faults' \in Nat /\ (faults' = 0 => faults = 0)
    BY <1>1, FaultsAfter
<1>5. CASE ~ok
    <2>1. Proceed(FALSE, TRUE) /\ stack' = stack
        BY <1>1, <1>2, <1>5, AfterEither, Zenon
    <2>2. UNCHANGED <<op, stack, mem, fd, sig, keys>> /\ wrong' = wrong /\ wrong \cap Unwanted = {}
        BY <1>1, <1>3, <2>1 DEF Fits, FitsRest
    <2> QED BY <1>2, <2>1, <2>2, LiveFails
<1>6. CASE ok
    <2>1. PICK b : b = Move(a, Now)
        OBVIOUS
    <2> DEFINE x == Now.what
    <2>2. stack' = Append(stack, [w |-> x, fin |-> x \in {"base64", "stream"}])
        BY <1>1, <1>6
    <2>3. /\ a.ph = "up" /\ (x \notin InnerWriters => a.d = 0)
          /\ x \in {"base64", "stream"} /\ op.name = "sign_buf" => op.armor \/ op.clear
        BY <1>2, <1>3 DEF Allowed, AllowedPlace
    <2>4. IsStack(stack) /\ InnerTop(stack, a.d) /\ Len(stack) > a.d /\ a.d \in Nat
        BY <1>3, <2>3 DEF Fits, FitsPlace, FitsStack, Labels
    <2>5. b.d = (IF x \in InnerWriters THEN a.d + 1 ELSE a.d) /\ b.ph = a.ph /\ b.h = a.h /\ b.m = a.m /\ b.f = a.f
          /\ (b.top = "dash" => x = "dash")
        BY <1>2, <2>1, MoveParts DEF MoveD, MovePh, MoveH, MoveM, MoveTop, MoveF
    <2>6. /\ IsStack(stack') /\ Len(stack') = Len(stack) + 1 /\ Last(stack').w = x
          /\ x \in InnerWriters => InnerTop(stack', a.d + 1)
          /\ x \notin InnerWriters /\ a.d = 0 => InnerTop(stack', 0)
          /\ HasDue(stack') => HasDue(stack) \/ x \in {"base64", "stream"}
        BY <2>2, <2>4, StackPush
    <2>7. InnerTop(stack', b.d) /\ Len(stack') > b.d /\ stack' # <<>>
        <3>1. Len(stack) \in Nat
            BY <2>4, StackIs
        <3>2. Len(stack') > b.d /\ Len(stack') # 0
            BY <2>4, <2>5, <2>6, <3>1
        <3>3. InnerTop(stack', b.d)
            BY <2>3, <2>5, <2>6
        <3>4. stack' # <<>>
            BY <2>6, <3>2, StackIs
        <3> QED BY <3>2, <3>3, <3>4
    <2> HIDE DEF x
    <2>8. FitsPlace(b)'
        BY <1>1, <1>3, <2>3, <2>5, <2>7 DEF Fits, FitsPlace
    <2>9. FitsStack(b)'
        <3>1. b.top = "dash" => stack' # <<>> /\ Last(stack').w = "dash"
            BY <2>5, <2>6, <2>7
        <3>2. HasDue(stack') /\ op'.name = "sign_buf" => op'.armor \/ op'.clear
            BY <1>1, <1>3, <2>3, <2>6 DEF Fits, FitsStack
        <3> QED BY <2>6, <2>7, <3>1, <3>2 DEF FitsStack
    <2>10. FitsSig(b)'
        BY <1>1, <1>3, <1>4, <2>5 DEF Fits, FitsSig
    <2>11. FitsRest(b)'
        BY <1>1, <1>3, <2>5 DEF Fits, FitsRest
    <2>12. Fits(b)'
        BY <2>8, <2>9, <2>10, <2>11 DEF Fits
    <2>13. Proceed(TRUE, FALSE) /\ op' = op
        BY <1>1, <1>2, <1>6, AfterEither, Zenon
    <2>14. todo' = Tail(todo) /\ result' = "none"
        BY <2>13, Zenon DEF Proceed
    <2> QED BY <1>2, <1>4, <2>1, <2>12, <2>13, <2>14, LiveTail
<1> QED BY <1>2, <1>5, <1>6

\* What goes on without a failure.
LEMMA LiveGoes ==
    ASSUME op \in Ops, faults \in Nat, NEW a, NEW e, Live(a, e), result = "none", todo # <<>>, Now.op # "fail", Goes,
          op' = op,
           NEW b, b = Move(a, Now), Fits(b)'
    PROVE  HeldInv'
<1>1. todo' = Tail(todo) /\ result' = "none" /\ faults' = faults
    BY Zenon DEF Goes, After, Proceed
<1> QED BY <1>1, LiveTail

\* A step that goes on counts no failure.
LEMMA GoesFaults == ASSUME Goes PROVE faults' = faults
BY Zenon DEF Goes, After, Proceed

\* A writer is popped.
LEMMA LivePop ==
    ASSUME op \in Ops, faults \in Nat, NEW a, NEW e, Live(a, e), result = "none", pgp_writer_pop
    PROVE  HeldInv'
<1>1. At({"pop"}) /\ Goes /\ op' = op /\ mem' = mem /\ fd' = fd /\ sig' = sig /\ keys' = keys /\ wrong' = wrong
    BY DEF pgp_writer_pop
<1>2. stack' = IF Last(stack).fin \/ Len(stack) = 1 THEN stack ELSE Front(stack)
    BY DEF pgp_writer_pop
<1>3. todo # <<>> /\ Now.op = "pop"
    BY <1>1 DEF At, Now
<1>4. a \in Labels /\ Allowed(op, a, Now) /\ Fits(a)
    BY <1>3, LiveNow
<1>5. PICK b : b = Move(a, Now)
    OBVIOUS
<1>6. a.ph = "up"
    BY <1>3, <1>4 DEF Allowed, AllowedPlace
<1>7. IsStack(stack) /\ InnerTop(stack, a.d) /\ Len(stack) > a.d /\ a.d \in Nat
    BY <1>4, <1>6 DEF Fits, FitsPlace, FitsStack, Labels
<1>8. b.d = (IF a.d > 0 THEN a.d - 1 ELSE a.d) /\ b.ph = a.ph /\ b.h = a.h /\ b.m = a.m /\ b.f = a.f /\ b.top = "any"
    BY <1>3, <1>5, MoveParts DEF MoveD, MovePh, MoveH, MoveM, MoveTop, MoveF
<1>9. IsStack(stack') /\ InnerTop(stack', b.d) /\ Len(stack') > b.d /\ (HasDue(stack') => HasDue(stack))
    BY <1>2, <1>7, <1>8, StackPop
<1>10. FitsPlace(b)'
    BY <1>1, <1>4, <1>6, <1>8, <1>9 DEF Fits, FitsPlace
<1>11. FitsStack(b)'
    BY <1>1, <1>4, <1>8, <1>9 DEF Fits, FitsStack
<1>12. FitsSig(b)'
    BY <1>1, <1>4, <1>8, GoesFaults DEF Fits, FitsSig
<1>13. FitsRest(b)'
    BY <1>1, <1>4, <1>8 DEF Fits, FitsRest
<1>14. Fits(b)'
    BY <1>10, <1>11, <1>12, <1>13 DEF Fits
<1>15. Now.op # "fail"
    BY <1>3
<1> QED BY <1>1, <1>3, <1>5, <1>14, <1>15, LiveGoes

\* The output is opened.
LEMMA LiveSetup ==
    ASSUME op \in Ops, faults \in Nat, NEW a, NEW e, Live(a, e), result = "none", Setup
    PROVE  HeldInv'
<1>1. PICK ok \in Outcomes :
        /\ At({"open", "memory"}) /\ Proceed(ok, ~ok)
        /\ stack' = IF ok THEN <<[w |-> Now.op, fin |-> FALSE]>> ELSE stack
        /\ fd' = IF Now.op = "open" THEN (IF ok THEN "open" ELSE "failed") ELSE fd
        /\ mem' = IF ok /\ Now.op = "memory" THEN "live" ELSE mem
        /\ UNCHANGED <<op, packet, sig, null, stream, keys, wrong>>
    BY Zenon DEF Setup, After
<1>2. todo # <<>> /\ Now.op \in {"open", "memory"} /\ ok \in BOOLEAN
    BY <1>1 DEF At, Now, Outcomes
<1>3. a \in Labels /\ Allowed(op, a, Now) /\ Fits(a)
    BY <1>2, LiveNow
<1>4. faults' \in Nat /\ (faults' = 0 => faults = 0)
    BY <1>1, FaultsAfter
<1>5. PICK b : b = Move(a, Now)
    OBVIOUS
<1>6. /\ a.d = 0 /\ ~(Now.drop >= 0)
      /\ Now.op = "open" => a.ph = "before" /\ IsFile(op)
      /\ Now.op = "memory" => a.ph \in {"before", "freed"} /\ ~IsFile(op)
    BY <1>2, <1>3 DEF Allowed, AllowedPlace, AllowedSkip
<1>7. op' = op /\ sig' = sig /\ keys' = keys /\ wrong' = wrong
    BY <1>1
<1>8. CASE ~ok
    <2>1. Proceed(FALSE, TRUE) /\ stack' = stack /\ mem' = mem /\ (fd' = fd \/ (a.ph = "before" /\ fd' = "failed"))
        BY <1>1, <1>2, <1>6, <1>8, AfterEither, Zenon
    <2>2. faults' > 0
        BY <2>1, FaultsAfter
    <2>3. wrong' \cap Unwanted = {}
        BY <1>3, <1>7 DEF Fits, FitsRest
    <2>4. FailOk(a)
        BY <1>4, <1>7, <2>1, <2>2, <2>3 DEF FailOk
    <2>5. a = IF Now.op = "sig" THEN b ELSE a
        BY <1>2
    <2>6. Now.op # "pop"
        BY <1>2
    <2> QED BY <1>2, <1>5, <1>6, <1>7, <2>1, <2>4, <2>5, <2>6, LiveStep
<1>9. CASE ok
    <2>1. Proceed(TRUE, FALSE) /\ stack' = <<[w |-> Now.op, fin |-> FALSE]>>
        BY <1>1, <1>2, <1>9, AfterEither, Zenon
    <2>2. Now.op \notin InnerWriters
        BY <1>2 DEF InnerWriters
    <2>3. IsStack(stack') /\ InnerTop(stack', 0) /\ ~HasDue(stack') /\ Len(stack') = 1
        BY <2>1, <2>2, StackNew
    <2>4. b.d = 0 /\ b.ph = "up" /\ b.h = a.h /\ b.m = a.m /\ b.f = a.f /\ b.top = "any"
        BY <1>2, <1>5, <1>6, MoveParts DEF MoveD, MovePh, MoveH, MoveM, MoveTop, MoveF
    <2>5. /\ IsFile(op) => mem' = "none" /\ fd' = "open"
          /\ ~IsFile(op) => mem' = "live" /\ fd' = "none"
        <3>1. CASE Now.op = "open"
            <4>1. fd' = "open" /\ mem' = mem /\ IsFile(op) /\ mem = "none"
                BY <1>1, <1>3, <1>6, <1>9, <3>1 DEF Fits, FitsPlace
            <4> QED BY <4>1
        <3>2. CASE Now.op = "memory"
            <4>1. fd' = fd /\ mem' = "live" /\ ~IsFile(op) /\ fd = "none"
                BY <1>1, <1>3, <1>6, <1>9, <3>2 DEF Fits, FitsPlace
            <4> QED BY <4>1
        <3> QED BY <1>2, <3>1, <3>2
    <2>6. FitsPlace(b)'
        BY <1>7, <2>3, <2>4, <2>5 DEF FitsPlace
    <2>7. FitsStack(b)'
        BY <2>3, <2>4 DEF FitsStack
    <2>8. FitsSig(b)'
        BY <1>3, <1>4, <1>7, <2>4 DEF Fits, FitsSig
    <2>9. FitsRest(b)'
        BY <1>3, <1>7, <2>4 DEF Fits, FitsRest
    <2>10. Fits(b)'
        BY <2>6, <2>7, <2>8, <2>9 DEF Fits
    <2>11. todo' = Tail(todo) /\ result' = "none" /\ Now.op # "fail"
        BY <1>2, <2>1 DEF Proceed
    <2> QED BY <1>2, <1>4, <1>5, <1>7, <2>10, <2>11, LiveTail
<1> QED BY <1>2, <1>8, <1>9

\* The operation ends with success.
LEMMA LiveSucceeds ==
    ASSUME op \in Ops, faults \in Nat, NEW a, NEW e, Live(a, e), result = "none", Succeed
    PROVE  HeldInv'
<1>1. /\ At({"ok"}) /\ result' = "ok" /\ todo' = AtEnd(TRUE)
      /\ op' = op /\ stack' = stack /\ mem' = mem /\ fd' = fd /\ sig' = sig /\ keys' = keys /\ faults' = faults
           /\ wrong' = wrong
    BY DEF Succeed
<1>2. todo # <<>> /\ Now.op = "ok"
    BY <1>1 DEF At, Now
<1>3. a \in Labels /\ Allowed(op, a, Now) /\ Fits(a)
    BY <1>2, LiveNow
<1>4. a.ph = Final(op) /\ a.d = 0
    BY <1>2, <1>3 DEF Allowed, AllowedPlace
<1>5. Post(0)'
    BY <1>1, <1>3, <1>4, OkPost
<1>6. \E n : Post(n)'
    BY <1>5
<1> QED BY <1>1, <1>6 DEF HeldInv

\* Finalising keeps the writers and may write to freed memory only if there is any.
LEMMA FinalisedIs == ASSUME Finalised, faults \in Nat
    PROVE /\ todo' = Tail(todo) /\ faults' \in Nat /\ (faults' = 0 => faults = 0) /\ (faults > 0 => faults' > 0)
          /\ wrong' \subseteq wrong \cup Mild \cup (IF Due # {} /\ mem = "freed" THEN {"freed memory"} ELSE {})
<1> DEFINE F == IF Due # {} /\ mem = "freed" THEN {"freed memory"} ELSE {}
<1>1. PICK f : /\ todo' = Tail(todo)
               /\ faults' = IF f = "none" THEN faults ELSE faults + 1
               /\ wrong' = wrong \cup Harm(f) \cup F
    BY Zenon DEF Finalised
<1>2. Harm(f) \subseteq Mild
    BY DEF Harm, Mild
<1>3. faults' = faults \/ faults' = faults + 1
    BY <1>1, Zenon
<1> HIDE DEF F
<1>4. wrong' \subseteq wrong \cup Mild \cup F
    BY <1>1, <1>2, Zenon
<1>5. faults' \in Nat /\ (faults' = 0 => faults = 0) /\ (faults > 0 => faults' > 0)
    BY <1>3
<1> QED BY <1>1, <1>4, <1>5 DEF F

\* Finalisers are run.
LEMMA LiveFinalises ==
    ASSUME op \in Ops, faults \in Nat, NEW a, NEW e, Live(a, e), result = "none", pgp_writer_info_finalise PROVE HeldInv'
<1>1. /\ At({"finalise"}) /\ Finalised /\ stack' = [i \in DOMAIN stack |-> [stack[i] EXCEPT !.fin = FALSE]]
      /\ op' = op /\ result' = result /\ mem' = mem /\ fd' = fd /\ sig' = sig /\ keys' = keys
    BY Zenon DEF pgp_writer_info_finalise
<1>2. todo # <<>> /\ Now.op = "finalise"
    BY <1>1 DEF At, Now
<1>3. a \in Labels /\ Allowed(op, a, Now) /\ Fits(a)
    BY <1>2, LiveNow
<1>4. a.ph = "up"
    BY <1>2, <1>3 DEF Allowed, AllowedPlace
<1>5. mem # "freed" /\ IsStack(stack) /\ InnerTop(stack, a.d) /\ Len(stack) > a.d /\ a.d \in Nat
    BY <1>3, <1>4 DEF Fits, FitsPlace, FitsStack, Labels
<1>6. todo' = Tail(todo) /\ faults' \in Nat /\ (faults' = 0 => faults = 0) /\ wrong' \subseteq wrong \cup Mild
    BY <1>1, <1>5, FinalisedIs
<1>7. IsStack(stack') /\ InnerTop(stack', a.d) /\ Len(stack') = Len(stack) /\ ~HasDue(stack')
      /\ (stack # <<>> => Last(stack').w = Last(stack).w)
    BY <1>1, <1>5, StackFin
<1>8. stack' # <<>> /\ stack # <<>>
    BY <1>5, <1>7, StackIs
<1>9. FitsPlace(a)'
    BY <1>1, <1>3, <1>4, <1>5, <1>7 DEF Fits, FitsPlace
<1>10. FitsStack(a)'
    BY <1>3, <1>7, <1>8 DEF Fits, FitsStack
<1>11. FitsSig(a)'
    BY <1>1, <1>3, <1>6 DEF Fits, FitsSig
<1>12. FitsRest(a)'
    BY <1>1, <1>3, <1>6 DEF Fits, FitsRest, Unwanted, Mild
<1>13. Fits(a)'
    BY <1>9, <1>10, <1>11, <1>12 DEF Fits
<1>14. a = Move(a, Now)
    BY <1>2, <1>3, MoveStays
<1>15. Now.op # "fail" /\ result' = "none"
    BY <1>1, <1>2
<1> QED BY <1>1, <1>2, <1>6, <1>13, <1>14, <1>15, LiveTail

\* The output is closed.
LEMMA LiveCloses ==
    ASSUME op \in Ops, faults \in Nat, NEW a, NEW e, Live(a, e), result = "none", pgp_writer_close PROVE HeldInv'
<1>1. /\ At({"close"}) /\ Finalised /\ stack' = <<>>
      /\ op' = op /\ result' = result /\ mem' = mem /\ fd' = fd /\ sig' = sig /\ keys' = keys
    BY Zenon DEF pgp_writer_close
<1>2. todo # <<>> /\ Now.op = "close"
    BY <1>1 DEF At, Now
<1>3. a \in Labels /\ Allowed(op, a, Now) /\ Fits(a)
    BY <1>2, LiveNow
<1>4. a.ph = "up" /\ a.d = 0
    BY <1>2, <1>3 DEF Allowed, AllowedPlace
<1>5. /\ mem # "freed" /\ (IsFile(op) => mem = "none" /\ fd = "open") /\ (~IsFile(op) => mem = "live" /\ fd = "none")
    BY <1>3, <1>4 DEF Fits, FitsPlace
<1>6. todo' = Tail(todo) /\ faults' \in Nat /\ (faults' = 0 => faults = 0) /\ wrong' \subseteq wrong \cup Mild
    BY <1>1, <1>5, FinalisedIs
<1>7. PICK b : b = Move(a, Now)
    OBVIOUS
<1>8. b.d = 0 /\ b.ph = "closed" /\ b.h = a.h /\ b.m = a.m /\ b.f = a.f /\ b.top = "any"
    BY <1>2, <1>4, <1>7, MoveParts DEF MoveD, MovePh, MoveH, MoveM, MoveTop, MoveF
<1>9. FitsPlace(b)'
    BY <1>1, <1>5, <1>8 DEF FitsPlace
<1>10. FitsStack(b)'
    BY <1>1, <1>8, StackNone DEF FitsStack
<1>11. FitsSig(b)'
    BY <1>1, <1>3, <1>6, <1>8 DEF Fits, FitsSig
<1>12. FitsRest(b)'
    BY <1>1, <1>3, <1>6, <1>8 DEF Fits, FitsRest, Unwanted, Mild
<1>13. Fits(b)'
    BY <1>9, <1>10, <1>11, <1>12 DEF Fits
<1>14. Now.op # "fail" /\ result' = "none"
    BY <1>1, <1>2
<1> QED BY <1>1, <1>2, <1>6, <1>7, <1>13, <1>14, LiveTail

\* The file, the memory and the keys.
LEMMA LiveReleases ==
    ASSUME op \in Ops, faults \in Nat, NEW a, NEW e, Live(a, e), result = "none", TeardownFile
          \/ pgp_memory_free PROVE HeldInv'
<1>1. PICK b : b = Move(a, Now)
    OBVIOUS
<1>2. /\ At({"closefd", "free"}) /\ Goes /\ op' = op /\ stack' = stack /\ sig' = sig /\ keys' = keys
      /\ Now.op = "closefd" => mem' = mem /\ fd' = (IF fd = "open" THEN "closed" ELSE fd)
           /\ (fd # "none" => wrong' = wrong)
      /\ Now.op = "free" => fd' = fd /\ mem' = (IF mem = "live" THEN "freed" ELSE mem) /\ wrong' = wrong
    BY DEF TeardownFile, pgp_memory_free, At, Now
<1>3. todo # <<>> /\ Now.op \in {"closefd", "free"}
    BY <1>2 DEF At, Now
<1>4. a \in Labels /\ Allowed(op, a, Now) /\ Fits(a)
    BY <1>3, LiveNow
<1>5. a.d = 0 /\ a.ph = "closed" /\ (Now.op = "closefd" => IsFile(op)) /\ (Now.op = "free" => ~IsFile(op))
    BY <1>3, <1>4 DEF Allowed, AllowedPlace, IsFile
<1>6. /\ stack = <<>> /\ (IsFile(op) => mem = "none" /\ fd \in {"open", "closed"}) /\ (~IsFile(op) => mem = "live"
           /\ fd = "none")
    BY <1>4, <1>5 DEF Fits, FitsPlace
<1>7. wrong' = wrong /\ (Now.op = "closefd" => mem' = "none" /\ fd' = "closed") /\ (Now.op = "free" => mem' = "freed"
      /\ fd' = "none")
    BY <1>2, <1>3, <1>5, <1>6
<1>8. /\ b.d = 0 /\ b.h = a.h /\ b.m = a.m /\ b.f = a.f /\ b.top = a.top
      /\ b.ph = IF Now.op = "free" THEN "freed" ELSE "closed"
    BY <1>1, <1>3, <1>5, MoveParts DEF MoveD, MovePh, MoveH, MoveM, MoveTop, MoveF
<1>9. FitsPlace(b)'
    BY <1>2, <1>3, <1>5, <1>6, <1>7, <1>8 DEF FitsPlace
<1>10. FitsStack(b)'
    BY <1>2, <1>4, <1>5, <1>8 DEF Fits, FitsStack
<1>11. FitsSig(b)'
    BY <1>2, <1>4, <1>8, GoesFaults DEF Fits, FitsSig
<1>12. FitsRest(b)'
    BY <1>2, <1>4, <1>7, <1>8 DEF Fits, FitsRest
<1>13. Fits(b)'
    BY <1>9, <1>10, <1>11, <1>12 DEF Fits
<1>14. Now.op # "fail"
    BY <1>3
<1> QED BY <1>1, <1>2, <1>3, <1>13, <1>14, LiveGoes

\* What was generated is loaded and listed.
LEMMA LiveLoads ==
    ASSUME op \in Ops, faults \in Nat, NEW a, NEW e, Live(a, e), result = "none", Loaded
    PROVE  HeldInv'
<1>1. /\ At({"loaded"}) /\ Goes /\ op' = op /\ stack' = stack /\ mem' = mem /\ fd' = fd /\ sig' = sig
           /\ wrong' = wrong
    BY DEF Loaded
<1>2. todo # <<>> /\ Now.op = "loaded"
    BY <1>1 DEF At, Now
<1>3. a \in Labels /\ Allowed(op, a, Now) /\ Fits(a)
    BY <1>2, LiveNow
<1>4. PICK b : b = Move(a, Now)
    OBVIOUS
<1>5. a.f = "may" \/ a.f = "must"
    BY <1>3 DEF Fits, FitsRest, Labels
<1>6. b.d = a.d /\ b.ph = a.ph /\ b.h = a.h /\ b.m = a.m /\ b.top = a.top /\ b.f = "must"
    BY <1>2, <1>4, <1>5, MoveParts DEF MoveD, MovePh, MoveH, MoveM, MoveTop, MoveF
<1>7. FitsPlace(b)'
    BY <1>1, <1>3, <1>6 DEF Fits, FitsPlace
<1>8. FitsStack(b)'
    BY <1>1, <1>3, <1>6 DEF Fits, FitsStack
<1>9. FitsSig(b)'
    BY <1>1, <1>3, <1>6, GoesFaults DEF Fits, FitsSig
<1>10. FitsRest(b)'
    BY <1>1, <1>3, <1>6 DEF Fits, FitsRest
<1>11. Fits(b)'
    BY <1>7, <1>8, <1>9, <1>10 DEF Fits
<1>12. Now.op # "fail"
    BY <1>2
<1> QED BY <1>1, <1>2, <1>4, <1>11, <1>12, LiveGoes

-----------------------------------------------------------------------------
(* The signature that is put together in memory. *)

\* A signature from its parts.
SigOf(m, ho, hl, u, hd, sh, dn) ==
    [mem |-> m, hashoff |-> ho, hashlen |-> hl, unhashoff |-> u, hashed |-> hd, short |-> sh, done |-> dn]

\* The parts of a signature, changed one by one.
LEMMA SigExcept == ASSUME NEW s, IsSig(s), NEW v, NEW w
    PROVE /\ [s EXCEPT !.mem = v] = SigOf(v, s.hashoff, s.hashlen, s.unhashoff, s.hashed, s.short, s.done)
          /\ [s EXCEPT !.short = v] = SigOf(s.mem, s.hashoff, s.hashlen, s.unhashoff, s.hashed, v, s.done)
          /\ [s EXCEPT !.hashoff = v] = SigOf(s.mem, v, s.hashlen, s.unhashoff, s.hashed, s.short, s.done)
          /\ [s EXCEPT !.hashlen = v, !.unhashoff = w] = SigOf(s.mem, s.hashoff, v, w, s.hashed, s.short, s.done)
          /\ [s EXCEPT !.hashed = v, !.done = w] = SigOf(s.mem, s.hashoff, s.hashlen, s.unhashoff, v, s.short, w)
          /\ [s EXCEPT !.hashed = v] = SigOf(s.mem, s.hashoff, s.hashlen, s.unhashoff, v, s.short, s.done)
<1>1. s = SigOf(s.mem, s.hashoff, s.hashlen, s.unhashoff, s.hashed, s.short, s.done)
    BY DEF IsSig, SigOf
<1>2. DOMAIN s = {"mem", "hashoff", "hashlen", "unhashoff", "hashed", "short", "done"}
    BY <1>1 DEF SigOf
<1>3. [s EXCEPT !.mem = v] = SigOf(v, s.hashoff, s.hashlen, s.unhashoff, s.hashed, s.short, s.done)
    BY <1>1, <1>2 DEF SigOf
<1>4. [s EXCEPT !.short = v] = SigOf(s.mem, s.hashoff, s.hashlen, s.unhashoff, s.hashed, v, s.done)
    BY <1>1, <1>2 DEF SigOf
<1>5. [s EXCEPT !.hashoff = v] = SigOf(s.mem, v, s.hashlen, s.unhashoff, s.hashed, s.short, s.done)
    BY <1>1, <1>2 DEF SigOf
<1>6. [s EXCEPT !.hashlen = v, !.unhashoff = w] = SigOf(s.mem, s.hashoff, v, w, s.hashed, s.short, s.done)
    <2> DEFINE t == [s EXCEPT !.hashlen = v]
    <2>1. t = SigOf(s.mem, s.hashoff, v, s.unhashoff, s.hashed, s.short, s.done)
        BY <1>1, <1>2 DEF SigOf
    <2>2. [s EXCEPT !.hashlen = v, !.unhashoff = w] = [t EXCEPT !.unhashoff = w]
        OBVIOUS
    <2> HIDE DEF t
    <2>3. [t EXCEPT !.unhashoff = w] = SigOf(s.mem, s.hashoff, v, w, s.hashed, s.short, s.done)
        BY <2>1 DEF SigOf
    <2> QED BY <2>2, <2>3
<1>7. [s EXCEPT !.hashed = v, !.done = w] = SigOf(s.mem, s.hashoff, s.hashlen, s.unhashoff, v, s.short, w)
    <2> DEFINE t == [s EXCEPT !.hashed = v]
    <2>1. t = SigOf(s.mem, s.hashoff, s.hashlen, s.unhashoff, v, s.short, s.done)
        BY <1>1, <1>2 DEF SigOf
    <2>2. [s EXCEPT !.hashed = v, !.done = w] = [t EXCEPT !.done = w]
        OBVIOUS
    <2> HIDE DEF t
    <2>3. [t EXCEPT !.done = w] = SigOf(s.mem, s.hashoff, s.hashlen, s.unhashoff, v, s.short, w)
        BY <2>1 DEF SigOf
    <2> QED BY <2>2, <2>3
<1>8. [s EXCEPT !.hashed = v] = SigOf(s.mem, s.hashoff, s.hashlen, s.unhashoff, v, s.short, s.done)
    BY <1>1, <1>2 DEF SigOf
<1> QED BY <1>3, <1>4, <1>5, <1>6, <1>7, <1>8

\* A signature from its parts is one.
LEMMA SigOfIs == ASSUME NEW m, NEW ho, NEW hl, NEW u, NEW hd, NEW sh, NEW dn
    PROVE LET s == SigOf(m, ho, hl, u, hd, sh, dn)
          IN  /\ s.mem = m /\ s.hashoff = ho /\ s.hashlen = hl /\ s.unhashoff = u /\ s.hashed = hd /\ s.short = sh
                   /\ s.done = dn
              /\ m \in Nat /\ ho \in Int /\ hl \in Int /\ u \in Int => IsSig(s)
BY DEF SigOf, IsSig

\* Bytes that are added to a signature, or lost.
LEMMA SigGrows ==
    ASSUME NEW o \in Ops, NEW s, IsSig(s), NEW h \in Nat, NEW m \in 0 .. 7, SigFits(o, s, h, m), NEW n \in Nat,
           m < 4 => n = 1, m = 5 => n >= 2, m # 4, NEW k, k = IF m < 4 \/ m = 5 THEN m + 1 ELSE m
    PROVE  /\ SigFits(o, [s EXCEPT !.mem = @ + n], h, k) /\ IsSig([s EXCEPT !.mem = @ + n])
           /\ SigFits(o, [s EXCEPT !.short = TRUE], h, k) /\ IsSig([s EXCEPT !.short = TRUE])
<1> DEFINE t == [s EXCEPT !.mem = @ + n]
           z == [s EXCEPT !.short = TRUE]
<1>1. s.mem \in Nat /\ s.hashoff \in Int /\ s.hashlen \in Int /\ s.unhashoff \in Int
    BY DEF IsSig
<1>2. t = SigOf(s.mem + n, s.hashoff, s.hashlen, s.unhashoff, s.hashed, s.short, s.done)
    BY SigExcept
<1>3. z = SigOf(s.mem, s.hashoff, s.hashlen, s.unhashoff, s.hashed, TRUE, s.done)
    BY SigExcept
<1> HIDE DEF t, z
<1>4. /\ t.mem = s.mem + n /\ t.hashoff = s.hashoff /\ t.hashlen = s.hashlen /\ t.unhashoff = s.unhashoff
           /\ t.hashed = s.hashed
      /\ t.short = s.short /\ t.done = s.done /\ IsSig(t)
    BY <1>1, <1>2, SigOfIs
<1>5. z.hashlen = s.hashlen /\ z.unhashoff = s.unhashoff /\ z.hashed = s.hashed /\ z.short = TRUE /\ z.done = s.done
      /\ IsSig(z)
    <2>1. PICK y : y = TRUE
        OBVIOUS
    <2>2. z = SigOf(s.mem, s.hashoff, s.hashlen, s.unhashoff, s.hashed, y, s.done)
        BY <1>3, <2>1
    <2>3. z.hashlen = s.hashlen /\ z.unhashoff = s.unhashoff /\ z.hashed = s.hashed /\ z.short = y /\ z.done = s.done
          /\ IsSig(z)
        BY <1>1, <2>2, SigOfIs
    <2> QED BY <2>1, <2>3
<1>6. Len(Items(o)) \in Nat
    BY ItemsAre
<1>7. \A i : HashedItem(o, t, i) = HashedItem(o, s, i) /\ HashedItem(o, z, i) = HashedItem(o, s, i)
    BY <1>4, <1>5 DEF HashedItem
<1>8. h <= Len(Items(o)) + 2 /\ (h > Len(Items(o)) => m = 7) /\ (h > Len(Items(o)) => k = 7)
    BY DEF SigFits
<1>9. s.hashed = [i \in 1 .. h |-> HashedItem(o, s, i)] /\ (s.done => h = Len(Items(o)) + 2)
      /\ (~s.short => SigSoFar(s, m))
    BY DEF SigFits
<1>10. t.hashed = [i \in 1 .. h |-> HashedItem(o, t, i)] /\ z.hashed = [i \in 1 .. h |-> HashedItem(o, z, i)]
    BY <1>4, <1>5, <1>7, <1>9
<1>11. ASSUME SigSoFar(s, m) PROVE SigSoFar(t, k)
    <2>1. CASE m < 4
        BY <1>1, <1>4, <1>11, <2>1 DEF SigSoFar
    <2>2. CASE m = 5
        BY <1>1, <1>4, <1>11, <2>2 DEF SigSoFar
    <2>3. CASE m = 6
        BY <1>1, <1>4, <1>11, <2>3 DEF SigSoFar
    <2>4. CASE m = 7
        BY <1>1, <1>4, <1>11, <2>4 DEF SigSoFar
    <2> QED BY <2>1, <2>2, <2>3, <2>4
<1>12. SigFits(o, t, h, k)
    BY <1>4, <1>8, <1>9, <1>10, <1>11, Zenon DEF SigFits
<1>13. SigFits(o, z, h, k)
    BY <1>5, <1>8, <1>9, <1>10, Zenon DEF SigFits
<1> QED BY <1>4, <1>5, <1>12, <1>13 DEF t, z

\* The marks and the length of the hashed fields.
LEMMA SigNoted ==
    ASSUME NEW o \in Ops, NEW s, IsSig(s), NEW h \in Nat, NEW m \in 0 .. 7, SigFits(o, s, h, m)
    PROVE  /\ m = 4 => LET t == [s EXCEPT !.hashoff = s.mem] IN IsSig(t) /\ t.short = s.short /\ SigFits(o, t, h, 5)
           /\ m = 6 => LET t == [s EXCEPT !.hashlen = s.mem - s.hashoff - 2, !.unhashoff = s.mem]
                       IN  IsSig(t) /\ t.short = s.short /\ SigFits(o, t, h, 7)
<1>1. s.mem \in Nat /\ s.hashoff \in Int /\ s.hashlen \in Int /\ s.unhashoff \in Int
    BY DEF IsSig
<1>2. /\ h <= Len(Items(o)) + 2 /\ (h > Len(Items(o)) => m = 7) /\ s.hashed = [i \in 1 .. h |-> HashedItem(o, s, i)]
      /\ (s.done => h = Len(Items(o)) + 2) /\ (~s.short => SigSoFar(s, m)) /\ Len(Items(o)) \in Nat
    BY ItemsAre DEF SigFits
<1>3. ASSUME m = 4 PROVE LET t == [s EXCEPT !.hashoff = s.mem] IN IsSig(t) /\ t.short = s.short /\ SigFits(o, t, h, 5)
    <2> DEFINE t == [s EXCEPT !.hashoff = s.mem]
    <2>1. t = SigOf(s.mem, s.mem, s.hashlen, s.unhashoff, s.hashed, s.short, s.done)
        BY SigExcept
    <2> HIDE DEF t
    <2>2. /\ t.mem = s.mem /\ t.hashoff = s.mem /\ t.hashlen = s.hashlen /\ t.unhashoff = s.unhashoff
               /\ t.hashed = s.hashed
          /\ t.short = s.short /\ t.done = s.done /\ IsSig(t)
        BY <1>1, <2>1, SigOfIs
    <2>3. \A i : HashedItem(o, t, i) = HashedItem(o, s, i)
        BY <2>2 DEF HashedItem
    <2>4. t.hashed = [i \in 1 .. h |-> HashedItem(o, t, i)]
        BY <1>2, <2>2, <2>3
    <2>5. SigSoFar(s, m) => SigSoFar(t, 5)
        BY <1>1, <1>3, <2>2 DEF SigSoFar
    <2>6. ~(h > Len(Items(o)))
        BY <1>2, <1>3
    <2>7. SigFits(o, t, h, 5)
        BY <1>2, <2>2, <2>4, <2>5, <2>6, Zenon DEF SigFits
    <2> QED BY <2>2, <2>7 DEF t
<1>4. ASSUME m = 6 PROVE LET t == [s EXCEPT !.hashlen = s.mem - s.hashoff - 2, !.unhashoff = s.mem]
                         IN  IsSig(t) /\ t.short = s.short /\ SigFits(o, t, h, 7)
    <2> DEFINE l == s.mem - s.hashoff - 2
               t == [s EXCEPT !.hashlen = l, !.unhashoff = s.mem]
    <2>0. l \in Int
        BY <1>1
    <2>1. t = SigOf(s.mem, s.hashoff, l, s.mem, s.hashed, s.short, s.done)
        BY SigExcept, ZenonT(60)
    <2> HIDE DEF t
    <2>2. /\ t.mem = s.mem /\ t.hashoff = s.hashoff /\ t.hashlen = l /\ t.unhashoff = s.mem /\ t.hashed = s.hashed
          /\ t.short = s.short /\ t.done = s.done /\ IsSig(t)
        BY <1>1, <2>0, <2>1, SigOfIs
    <2>6. ~(h > Len(Items(o)))
        BY <1>2, <1>4
    <2>3. \A i \in 1 .. h : HashedItem(o, t, i) = HashedItem(o, s, i)
        BY <1>2, <2>6 DEF HashedItem
    <2>4. t.hashed = [i \in 1 .. h |-> HashedItem(o, t, i)]
        BY <1>2, <2>2, <2>3
    <2>5. SigSoFar(s, m) => SigSoFar(t, 7)
        BY <1>1, <1>4, <2>2 DEF SigSoFar
    <2>7. SigFits(o, t, h, 7)
        BY <1>2, <2>2, <2>4, <2>5, <2>6, Zenon DEF SigFits
    <2> QED BY <2>2, <2>7 DEF t
<1> QED BY <1>3, <1>4

\* One item more in a sequence that is given by its items.
LEMMA AppendMap == ASSUME NEW h \in Nat, NEW F, F = [i \in 1 .. h |-> F[i]], NEW x
    PROVE Append(F, x) = [i \in 1 .. h + 1 |-> IF i <= h THEN F[i] ELSE x]
<1> DEFINE V == {F[i] : i \in 1 .. h} \cup {x}
<1>1. F \in [1 .. h -> V]
    OBVIOUS
<1> HIDE DEF V
<1>2. F \in Seq(V) /\ Len(F) = h
    BY <1>1
<1>3. x \in V
    BY DEF V
<1> DEFINE t == Append(F, x)
<1>4. t \in Seq(V) /\ Len(t) = h + 1 /\ DOMAIN t = 1 .. h + 1
    BY <1>2, <1>3
<1>5. \A i \in 1 .. h + 1 : t[i] = IF i <= h THEN F[i] ELSE x
    BY <1>2, <1>3
<1> HIDE DEF t
<1>6. t = [i \in DOMAIN t |-> t[i]]
    BY <1>4
<1>7. t = [i \in 1 .. h + 1 |-> IF i <= h THEN F[i] ELSE x]
    BY <1>4, <1>5, <1>6
<1> QED BY <1>7 DEF t

\* One thing more is hashed.
LEMMA SigHashes ==
    ASSUME NEW o \in Ops, NEW s, IsSig(s), NEW h \in Nat, NEW m \in 0 .. 7, SigFits(o, s, h, m), NEW x,
           h < Len(Items(o)) + 2, h >= Len(Items(o)) => m = 7, x = HashedItem(o, s, h + 1), NEW t,
           t.mem = s.mem, t.hashoff = s.hashoff, t.hashlen = s.hashlen, t.unhashoff = s.unhashoff,
                 t.hashed = Append(s.hashed, x),
           t.short = s.short, t.done => h = Len(Items(o)) + 1
    PROVE  SigFits(o, t, h + 1, m)
<1>1. s.mem \in Nat /\ s.hashoff \in Int /\ s.hashlen \in Int /\ s.unhashoff \in Int
    BY DEF IsSig
<1>2. /\ s.hashed = [i \in 1 .. h |-> HashedItem(o, s, i)] /\ (~s.short => SigSoFar(s, m)) /\ Len(Items(o)) \in Nat
    BY ItemsAre DEF SigFits
<1>4. \A i : HashedItem(o, t, i) = HashedItem(o, s, i)
    BY DEF HashedItem
<1>5. \A i \in 1 .. h : s.hashed[i] = HashedItem(o, s, i)
    BY <1>2
<1>6. s.hashed = [i \in 1 .. h |-> s.hashed[i]]
    BY <1>2, <1>5
<1>7. t.hashed = [i \in 1 .. h + 1 |-> IF i <= h THEN s.hashed[i] ELSE x]
    <2>1. PICK F : F = s.hashed
        OBVIOUS
    <2>2. Append(F, x) = [i \in 1 .. h + 1 |-> IF i <= h THEN F[i] ELSE x]
        <3>1. F = [i \in 1 .. h |-> F[i]]
            BY <1>6, <2>1, Zenon
        <3> QED BY <3>1, AppendMap
    <2> QED BY <2>1, <2>2, Zenon
<1>8. \A i \in 1 .. h + 1 : HashedItem(o, t, i) = IF i <= h THEN s.hashed[i] ELSE x
    <2> SUFFICES ASSUME NEW i \in 1 .. h + 1 PROVE HashedItem(o, t, i) = IF i <= h THEN s.hashed[i] ELSE x
        OBVIOUS
    <2>1. CASE i <= h
        BY <1>4, <1>5, <2>1
    <2>2. CASE ~(i <= h)
        <3>1. i = h + 1
            BY <2>2
        <3> QED BY <1>4, <2>2, <3>1
    <2> QED BY <2>1, <2>2
<1>9. t.hashed = [i \in 1 .. h + 1 |-> HashedItem(o, t, i)]
    BY <1>7, <1>8
<1>10. SigSoFar(s, m) => SigSoFar(t, m)
    BY DEF SigSoFar
<1>11. h + 1 <= Len(Items(o)) + 2 /\ (h + 1 > Len(Items(o)) => m = 7) /\ (t.done => h + 1 = Len(Items(o)) + 2)
    BY <1>2
<1> QED BY <1>2, <1>9, <1>10, <1>11, Zenon DEF SigFits

\* Bytes of the signature.
LEMMA LiveSigWrites ==
    ASSUME op \in Ops, faults \in Nat, NEW a, NEW e, Live(a, e), result = "none", SigWrite
    PROVE  HeldInv'
<1>1. PICK ok \in Outcomes :
        /\ At({"sig"}) /\ Proceed(ok, ~ok)
        /\ sig' = IF ok THEN [sig EXCEPT !.mem = @ + Now.n] ELSE [sig EXCEPT !.short = TRUE]
        /\ UNCHANGED <<op, stack, mem, fd, packet, null, stream, keys, wrong>>
    BY Zenon DEF SigWrite, After
<1>2. todo # <<>> /\ Now.op = "sig" /\ ok \in BOOLEAN
    BY <1>1 DEF At, Now, Outcomes
<1>3. a \in Labels /\ Allowed(op, a, Now) /\ Fits(a)
    BY <1>2, LiveNow
<1>4. faults' \in Nat /\ (faults' = 0 => faults = 0)
    BY <1>1, FaultsAfter
<1>5. op' = op /\ stack' = stack /\ mem' = mem /\ fd' = fd /\ keys' = keys /\ wrong' = wrong
    BY <1>1
<1>6. PICK b : b = Move(a, Now)
    OBVIOUS
<1>7. b.d = a.d /\ b.ph = a.ph /\ b.h = a.h /\ b.m = (IF a.m < 4 \/ a.m = 5 THEN a.m + 1 ELSE a.m) /\ b.f = a.f
      /\ b.top = a.top
    BY <1>2, <1>6, MoveParts DEF MoveD, MovePh, MoveH, MoveM, MoveTop, MoveF
<1>8. ~Encrypts(op) /\ Now.n \in Nat /\ (a.m < 4 => Now.n = 1) /\ (a.m = 5 => Now.n >= 2) /\ a.m # 4
    BY <1>2, <1>3 DEF Allowed, AllowedSig
<1>9. IsSig(sig) /\ SigFits(op, sig, a.h, a.m) /\ (faults = 0 => ~sig.short) /\ a.h \in Nat /\ a.m \in 0 .. 7
    BY <1>3, <1>8 DEF Fits, FitsSig, Labels
<1>10. /\ SigFits(op, [sig EXCEPT !.mem = @ + Now.n], a.h, b.m) /\ IsSig([sig EXCEPT !.mem = @ + Now.n])
       /\ SigFits(op, [sig EXCEPT !.short = TRUE], a.h, b.m) /\ IsSig([sig EXCEPT !.short = TRUE])
    BY <1>7, <1>8, <1>9, SigGrows
<1>11. IsSig(sig') /\ SigFits(op, sig', a.h, b.m)
    BY <1>1, <1>10, Zenon
<1>12. FitsPlace(b)'
    BY <1>3, <1>5, <1>7 DEF Fits, FitsPlace
<1>13. FitsStack(b)'
    BY <1>3, <1>5, <1>7 DEF Fits, FitsStack
<1>14. FitsRest(b)'
    BY <1>3, <1>5, <1>7 DEF Fits, FitsRest
<1>15. ASSUME faults' = 0 => ~sig'.short PROVE Fits(b)'
    <2>1. FitsSig(b)'
        BY <1>5, <1>7, <1>8, <1>11, <1>15 DEF FitsSig
    <2> QED BY <1>12, <1>13, <1>14, <2>1 DEF Fits
<1>16. CASE ok
    <2>1. Proceed(TRUE, FALSE) /\ sig' = [sig EXCEPT !.mem = @ + Now.n]
        BY <1>1, <1>2, <1>16, AfterEither, Zenon
    <2>2. sig' = SigOf(sig.mem + Now.n, sig.hashoff, sig.hashlen, sig.unhashoff, sig.hashed, sig.short, sig.done)
        BY <1>9, <2>1, SigExcept
    <2>3. sig'.short = sig.short
        BY <2>2, SigOfIs
    <2>4. Fits(b)'
        BY <1>4, <1>9, <1>15, <2>3
    <2>5. todo' = Tail(todo) /\ result' = "none"
        BY <2>1, Zenon DEF Proceed
    <2>6. Now.op # "fail"
        BY <1>2
    <2> QED BY <1>2, <1>4, <1>5, <1>6, <2>4, <2>5, <2>6, LiveTail
<1>17. CASE ~ok
    <2>1. Proceed(FALSE, TRUE) /\ sig' = [sig EXCEPT !.short = TRUE]
        BY <1>1, <1>2, <1>17, AfterEither, Zenon
    <2>2. sig'.short = TRUE
        <3>1. "short" \in DOMAIN sig
            <4>1. DOMAIN [mem |-> sig.mem, hashoff |-> sig.hashoff, hashlen |-> sig.hashlen,
                  unhashoff |-> sig.unhashoff,
                          hashed |-> sig.hashed, short |-> sig.short, done |-> sig.done]
                    = {"mem", "hashoff", "hashlen", "unhashoff", "hashed", "short", "done"}
                OBVIOUS
            <4> QED BY <1>9, <4>1 DEF IsSig
        <3> QED BY <2>1, <3>1
    <2>3. faults' > 0
        BY <2>1, FaultsAfter
    <2>4. faults' # 0
        BY <1>4, <2>3
    <2>5. Fits(b)'
        BY <1>15, <2>4
    <2>6. wrong' \cap Unwanted = {}
        BY <1>3, <1>5 DEF Fits, FitsRest
    <2>7. FailOk(a)
        BY <1>4, <1>5, <2>2, <2>3, <2>6 DEF FailOk
    <2>8. b = (IF Now.op = "sig" THEN b ELSE a) /\ Now.op # "pop"
        BY <1>2
    <2> QED BY <1>2, <1>5, <1>6, <2>1, <2>5, <2>7, <2>8, LiveStep
<1> QED BY <1>2, <1>16, <1>17

\* A new signature.
LEMMA NoSigFits == ASSUME NEW o \in Ops PROVE IsSig(NoSig) /\ NoSig.short = FALSE /\ SigFits(o, NoSig, 0, 0)
<1>1. IsSig(NoSig) /\ NoSig.mem = 0 /\ NoSig.hashed = <<>> /\ NoSig.short = FALSE /\ NoSig.done = FALSE
    BY DEF NoSig, IsSig
<1>2. Len(Items(o)) \in Nat
    BY ItemsAre
<1>3. [i \in 1 .. 0 |-> HashedItem(o, NoSig, i)] = <<>>
    OBVIOUS
<1>4. SigSoFar(NoSig, 0)
    BY <1>1 DEF SigSoFar
<1> QED BY <1>1, <1>2, <1>3, <1>4 DEF SigFits

\* One thing more is hashed, at the place of the label.
LEMMA HashFits ==
    ASSUME NEW o \in Ops, NEW s, IsSig(s), NEW h \in Nat, NEW m \in 0 .. 7, SigFits(o, s, h, m), NEW w, NEW y,
           y = CASE w = "fields" -> s.unhashoff [] w = "trailer" -> s.hashlen + 6 [] OTHER -> 0,
           \/ h < Len(Items(o)) /\ w = Items(o)[h + 1] /\ w \notin {"fields", "trailer"}
           \/ h = Len(Items(o)) /\ w = "fields" /\ m = 7
           \/ h = Len(Items(o)) + 1 /\ w = "trailer" /\ m = 7,
           NEW t, t.mem = s.mem, t.hashoff = s.hashoff, t.hashlen = s.hashlen, t.unhashoff = s.unhashoff,
           t.hashed = Append(s.hashed, <<w, y>>), t.short = s.short, t.done => w = "trailer"
    PROVE  SigFits(o, t, h + 1, m)
<1> DEFINE n == Len(Items(o))
<1>1. n \in Nat
    BY ItemsAre
<1>2. PICK x : x = <<w, y>>
    OBVIOUS
<1>4. t.hashed = Append(s.hashed, x)
    BY <1>2, Zenon
<1>5. h < n + 2 /\ (h >= n => m = 7) /\ (t.done => h = n + 1)
    BY <1>1
<1>6. x = HashedItem(o, s, h + 1)
    <2>1. CASE h < n /\ w = Items(o)[h + 1] /\ w \notin {"fields", "trailer"}
        <3>1. y = 0
            BY <2>1
        <3>2. h + 1 <= n
            BY <1>1, <2>1
        <3> QED BY <1>2, <2>1, <3>1, <3>2, Zenon DEF HashedItem
    <2>2. CASE h = n /\ w = "fields"
        <3>1. y = s.unhashoff
            BY <2>2
        <3>2. ~(h + 1 <= n) /\ h + 1 = n + 1
            BY <1>1, <2>2
        <3> QED BY <1>2, <2>2, <3>1, <3>2, Zenon DEF HashedItem
    <2>3. CASE h = n + 1 /\ w = "trailer"
        <3>1. y = s.hashlen + 6
            BY <2>3
        <3>2. ~(h + 1 <= n) /\ h + 1 # n + 1
            BY <1>1, <2>3
        <3> QED BY <1>2, <2>3, <3>1, <3>2, Zenon DEF HashedItem
    <2> QED BY <2>1, <2>2, <2>3, Zenon
<1> HIDE DEF n
<1>7. h < Len(Items(o)) + 2 /\ (h >= Len(Items(o)) => m = 7) /\ (t.done => h = Len(Items(o)) + 1)
    BY <1>5 DEF n
<1> QED BY <1>4, <1>6, <1>7, SigHashes, Zenon

\* What the notes make of the signature.
LEMMA NoteFits ==
    ASSUME op \in Ops, NEW a \in Labels, Allowed(op, a, Now), FitsSig(a), ~Encrypts(op), NEW b, b = Move(a, Now),
           Now.op \in {"signew", "hashoff", "hashlen", "unhashed", "hash"},
           sig' = CASE Now.op = "signew" -> NoSig
                    [] Now.op = "hashoff" -> [sig EXCEPT !.hashoff = sig.mem]
                    [] Now.op = "hashlen" -> [sig EXCEPT !.hashlen = Hashlen, !.unhashoff = sig.mem]
                    [] Now.op = "hash" -> [sig EXCEPT !.hashed = Append(@, <<Now.what, HashedBytes>>),
                          !.done = Now.what = "trailer"]
                    [] OTHER -> sig
    PROVE  IsSig(sig') /\ SigFits(op, sig', b.h, b.m) /\ (sig'.short => sig.short)
<1>1. IsSig(sig) /\ SigFits(op, sig, a.h, a.m) /\ a.h \in Nat /\ a.m \in 0 .. 7
    BY DEF FitsSig, Labels
<1>2. AllowedSig(op, a, Now)
    BY DEF Allowed
<1>3. CASE Now.op = "signew"
    <2>1. sig' = NoSig
        BY <1>3
    <2>2. b.h = 0 /\ b.m = 0
        BY <1>3, MoveParts DEF MoveH, MoveM
    <2> QED BY <2>1, <2>2, NoSigFits
<1>4. CASE Now.op = "hashoff"
    <2>1. sig' = [sig EXCEPT !.hashoff = sig.mem]
        BY <1>4
    <2>2. b.h = a.h /\ b.m = 5 /\ a.m = 4
        BY <1>2, <1>4, MoveParts DEF MoveH, MoveM, AllowedSig
    <2>3. LET t == [sig EXCEPT !.hashoff = sig.mem] IN IsSig(t) /\ t.short = sig.short /\ SigFits(op, t, a.h, 5)
        BY <1>1, <2>2, SigNoted
    <2> QED BY <2>1, <2>2, <2>3
<1>5. CASE Now.op = "hashlen"
    <2>1. sig' = [sig EXCEPT !.hashlen = sig.mem - sig.hashoff - 2, !.unhashoff = sig.mem]
        BY <1>5 DEF Hashlen
    <2>2. b.h = a.h /\ b.m = 7 /\ a.m = 6
        BY <1>2, <1>5, MoveParts DEF MoveH, MoveM, AllowedSig
    <2>3. LET t == [sig EXCEPT !.hashlen = sig.mem - sig.hashoff - 2, !.unhashoff = sig.mem]
          IN  IsSig(t) /\ t.short = sig.short /\ SigFits(op, t, a.h, 7)
        BY <1>1, <2>2, SigNoted
    <2> QED BY <2>1, <2>2, <2>3
<1>6. CASE Now.op = "unhashed"
    <2>1. sig' = sig
        BY <1>6
    <2>2. b.h = a.h /\ b.m = a.m
        BY <1>6, MoveParts DEF MoveH, MoveM
    <2> QED BY <1>1, <2>1, <2>2
<1>7. CASE Now.op = "hash"
    <2>1. PICK dn : dn = (Now.what = "trailer")
        OBVIOUS
    <2>2. PICK g : g = Append(sig.hashed, <<Now.what, HashedBytes>>)
        OBVIOUS
    <2>3. sig' = [sig EXCEPT !.hashed = g, !.done = dn]
        BY <1>7, <2>1, <2>2
    <2>4. b.h = a.h + 1 /\ b.m = a.m
        BY <1>7, MoveParts DEF MoveH, MoveM
    <2>5. \/ a.h < Len(Items(op)) /\ Now.what = Items(op)[a.h + 1] /\ Now.what \notin {"fields", "trailer"}
          \/ a.h = Len(Items(op)) /\ Now.what = "fields" /\ a.m = 7
          \/ a.h = Len(Items(op)) + 1 /\ Now.what = "trailer" /\ a.m = 7
        BY <1>2, <1>7 DEF AllowedSig
    <2>6. HashedBytes = CASE Now.what = "fields" -> sig.unhashoff [] Now.what = "trailer" -> sig.hashlen + 6 [] OTHER -> 0
        BY DEF HashedBytes
    <2>8. PICK t : t = sig'
        OBVIOUS
    <2>b. /\ t.mem = sig.mem /\ t.hashoff = sig.hashoff /\ t.hashlen = sig.hashlen /\ t.unhashoff = sig.unhashoff
               /\ t.hashed = g
          /\ t.short = sig.short /\ t.done = dn /\ IsSig(t)
        <3>1. PICK s : s = sig
            OBVIOUS
        <3>2. PICK r : r = [s EXCEPT !.hashed = g]
            OBVIOUS
        <3>4. IsSig(s) /\ t = [r EXCEPT !.done = dn]
            BY <1>1, <2>3, <2>8, <3>1, <3>2
        <3>3. /\ t.mem = s.mem /\ t.hashoff = s.hashoff /\ t.hashlen = s.hashlen /\ t.unhashoff = s.unhashoff
                   /\ t.hashed = g
              /\ t.short = s.short /\ t.done = dn /\ IsSig(t)
            <4>1. r = SigOf(s.mem, s.hashoff, s.hashlen, s.unhashoff, g, s.short, s.done)
                BY <3>2, <3>4, SigExcept
            <4>2. t = SigOf(s.mem, s.hashoff, s.hashlen, s.unhashoff, g, s.short, dn)
                BY <3>4, <4>1 DEF SigOf
            <4>3. s.mem \in Nat /\ s.hashoff \in Int /\ s.hashlen \in Int /\ s.unhashoff \in Int
                BY <3>4 DEF IsSig
            <4> QED BY <4>2, <4>3, SigOfIs
        <3> QED BY <3>1, <3>3
    <2>c. t.done => Now.what = "trailer"
        BY <2>1, <2>b
    <2>9. IsSig(t) /\ t.short = sig.short /\ SigFits(op, t, a.h + 1, a.m)
        BY <1>1, <2>2, <2>5, <2>6, <2>b, <2>c, HashFits, ZenonT(60)
    <2> QED BY <2>4, <2>8, <2>9
<1> QED BY <1>3, <1>4, <1>5, <1>6, <1>7

\* The notes about a signature.
LEMMA LiveNotes ==
    ASSUME op \in Ops, faults \in Nat, NEW a, NEW e, Live(a, e), result = "none", SigNote
    PROVE  HeldInv'
<1>1. PICK ok : ok = ~(Now.op = "unhashed" /\ sig.hashlen = -1)
    OBVIOUS
<1>2. /\ At({"signew", "hashoff", "hashlen", "unhashed", "hash"}) /\ Proceed(ok, FALSE)
      /\ op' = op /\ stack' = stack /\ mem' = mem /\ fd' = fd /\ keys' = keys /\ wrong' = wrong
    BY <1>1 DEF SigNote, After
<1>3. sig' = CASE Now.op = "signew" -> NoSig
               [] Now.op = "hashoff" -> [sig EXCEPT !.hashoff = sig.mem]
               [] Now.op = "hashlen" -> [sig EXCEPT !.hashlen = Hashlen, !.unhashoff = sig.mem]
               [] Now.op = "hash" -> [sig EXCEPT !.hashed = Append(@, <<Now.what, HashedBytes>>),
                     !.done = Now.what = "trailer"]
               [] OTHER -> sig
    BY Zenon DEF SigNote, After
<1>4. todo # <<>> /\ Now.op \in {"signew", "hashoff", "hashlen", "unhashed", "hash"} /\ ok \in BOOLEAN
    BY <1>1, <1>2 DEF At, Now
<1>5. a \in Labels /\ Allowed(op, a, Now) /\ Fits(a)
    BY <1>4, LiveNow
<1>6. faults' = faults
    BY <1>2, Zenon DEF Proceed
<1>7. PICK b : b = Move(a, Now)
    OBVIOUS
<1>8. b.d = a.d /\ b.ph = a.ph /\ b.f = a.f /\ b.top = a.top
    BY <1>4, <1>7, MoveParts DEF MoveD, MovePh, MoveTop, MoveF
<1>9. ~Encrypts(op) /\ FitsSig(a)
    BY <1>4, <1>5 DEF Allowed, AllowedSig, Fits
<1>10. IsSig(sig') /\ SigFits(op, sig', b.h, b.m) /\ (sig'.short => sig.short)
    BY <1>3, <1>4, <1>5, <1>7, <1>9, NoteFits
<1>11. FitsPlace(b)'
    BY <1>2, <1>5, <1>8 DEF Fits, FitsPlace
<1>12. FitsStack(b)'
    BY <1>2, <1>5, <1>8 DEF Fits, FitsStack
<1>13. FitsRest(b)'
    BY <1>2, <1>5, <1>8 DEF Fits, FitsRest
<1>14. FitsSig(b)'
    BY <1>2, <1>6, <1>9, <1>10 DEF FitsSig
<1>15. Fits(b)'
    BY <1>11, <1>12, <1>13, <1>14 DEF Fits
<1>16. CASE ok
    <2>1. todo' = Tail(todo) /\ result' = "none"
        BY <1>2, <1>16, Zenon DEF Proceed
    <2>2. Now.op # "fail" /\ faults' \in Nat
        BY <1>4, <1>6
    <2> QED BY <1>2, <1>4, <1>7, <1>15, <2>1, <2>2, LiveTail
<1>17. CASE ~ok
    <2>1. Now.op = "unhashed" /\ sig.hashlen = -1
        BY <1>1, <1>17
    <2>2. a.m = 7 /\ ~(Now.drop >= 0)
        BY <1>5, <2>1 DEF Allowed, AllowedSig, AllowedSkip
    <2>3. sig.short
        <3>1. ~sig.short => SigSoFar(sig, 7)
            BY <1>9, <2>2 DEF FitsSig, SigFits
        <3>2. ~SigSoFar(sig, 7)
            BY <2>1 DEF SigSoFar
        <3> QED BY <3>1, <3>2
    <2>4. faults # 0
        BY <1>9, <2>3 DEF FitsSig
    <2>5. faults' > 0 /\ faults' \in Nat
        BY <1>6, <2>4
    <2>6. sig' = sig
        BY <1>3, <2>1
    <2>7. wrong' \cap Unwanted = {}
        BY <1>2, <1>5 DEF Fits, FitsRest
    <2>8. FailOk(a)
        BY <1>2, <2>5, <2>6, <2>7 DEF FailOk
    <2>9. a = (IF Now.op = "sig" THEN b ELSE a) /\ Now.op # "pop" /\ FALSE \in BOOLEAN
        BY <2>1
    <2> QED BY <1>2, <1>4, <1>7, <1>17, <2>2, <2>8, <2>9, LiveStep
<1> QED BY <1>4, <1>16, <1>17

-----------------------------------------------------------------------------
(* Data, and every step of an operation that goes on. *)

\* Where data is written.
LEMMA DataIs == ASSUME NEW a, NEW e, Live(a, e), At({"data"})
    PROVE /\ todo # <<>> /\ Now.op = "data" /\ a \in Labels /\ Allowed(op, a, Now) /\ Fits(a) /\ ~(Now.drop >= 0)
          /\ Encrypts(op) \/ (a.top = "dash" /\ a.h = 0 /\ Items(op) = <<"text">>)
          /\ a.top = "dash" => Top = "dash"
          /\ LET b == Move(a, Now)
             IN  b.d = a.d /\ b.ph = a.ph /\ b.h = (IF a.top = "dash" THEN a.h + 1 ELSE a.h) /\ b.m = a.m /\ b.f = a.f
                   /\ b.top = a.top
<1>1. todo # <<>> /\ Now.op = "data"
    BY DEF At, Now
<1>2. a \in Labels /\ Allowed(op, a, Now) /\ Fits(a)
    BY <1>1, LiveNow
<1>3. ~(Now.drop >= 0) /\ (Encrypts(op) \/ (a.top = "dash" /\ a.h = 0 /\ Items(op) = <<"text">>))
    BY <1>1, <1>2 DEF Allowed, AllowedSig, AllowedSkip
<1>4. a.top = "dash" => Top = "dash"
    BY <1>2 DEF Fits, FitsStack, Top
<1>5. LET b == Move(a, Now)
      IN  b.d = a.d /\ b.ph = a.ph /\ b.h = (IF a.top = "dash" THEN a.h + 1 ELSE a.h) /\ b.m = a.m /\ b.f = a.f
            /\ b.top = a.top
    BY <1>1, MoveParts DEF MoveD, MovePh, MoveH, MoveM, MoveTop, MoveF
<1> QED BY <1>1, <1>2, <1>3, <1>4, <1>5

\* Data changes only what was hashed.
LEMMA DataFits == ASSUME NEW a, Fits(a), NEW b, b.d = a.d, b.ph = a.ph, b.f = a.f, b.top = a.top,
                         UNCHANGED <<op, stack, mem, fd, keys>>, wrong' \cap Unwanted = {}, FitsSig(b)'
    PROVE Fits(b)'
<1>1. FitsPlace(b)'
    BY DEF Fits, FitsPlace
<1>2. FitsStack(b)'
    BY DEF Fits, FitsStack
<1>3. FitsRest(b)'
    BY DEF Fits, FitsRest
<1> QED BY <1>1, <1>2, <1>3 DEF Fits

\* Data goes into the stream.
LEMMA LiveEncrypts ==
    ASSUME op \in Ops, faults \in Nat, NEW a, NEW e, Live(a, e), result = "none", At({"data"}), Top # "dash",
           NEW ok \in BOOLEAN, NEW fault \in BOOLEAN, Proceed(ok, fault), UNCHANGED <<op, stack, mem, fd, sig, keys>>,
           wrong' \subseteq wrong \cup Mild
    PROVE  HeldInv'
<1>1. PICK b : b = Move(a, Now)
    OBVIOUS
<1>2. /\ todo # <<>> /\ Now.op = "data" /\ a \in Labels /\ Fits(a) /\ ~(Now.drop >= 0) /\ Encrypts(op)
      /\ b.d = a.d /\ b.ph = a.ph /\ b.h = a.h /\ b.m = a.m /\ b.f = a.f /\ b.top = a.top
    BY <1>1, DataIs
<1>3. faults' \in Nat /\ (faults' = 0 => faults = 0)
    BY FaultsAfter
<1>4. wrong' \cap Unwanted = {}
    BY <1>2 DEF Fits, FitsRest, Unwanted, Mild
<1>5. FitsSig(b)'
    BY <1>2, <1>3 DEF Fits, FitsSig
<1>6. Fits(b)'
    BY <1>2, <1>4, <1>5, DataFits
<1>7. op.name # "generate_subkey"
    BY <1>2 DEF Encrypts
<1>8. FailOk(a)
    BY <1>3, <1>4, <1>7 DEF FailOk
<1>9. a = (IF Now.op = "sig" THEN b ELSE a) /\ Now.op # "pop" /\ Now.op # "fail" /\ op' = op
    BY <1>2
<1> QED BY <1>1, <1>2, <1>6, <1>8, <1>9, LiveStep

\* Data is written to be encrypted.
LEMMA LiveDataWrites ==
    ASSUME op \in Ops, faults \in Nat, NEW a, NEW e, Live(a, e), result = "none", encrypt_se_ip_writer
          \/ StreamWrite PROVE HeldInv'
<1>1. CASE encrypt_se_ip_writer
    <2>1. /\ At({"data"}) /\ Top = "se_ip" /\ op' = op /\ stack' = stack /\ mem' = mem /\ fd' = fd /\ sig' = sig
               /\ keys' = keys
        BY <1>1, Zenon DEF encrypt_se_ip_writer
    <2>2. PICK f, lit, z, local : SeIpWritten(f, lit, z, local)
        BY <1>1, Zenon DEF encrypt_se_ip_writer
    <2> DEFINE ok == f # "memory" /\ lit > Now.n /\ local > z
    <2>3. ok \in BOOLEAN /\ (f # "none") \in BOOLEAN
        BY Zenon
    <2>4. Proceed(ok, f # "none") /\ wrong' = IF ok /\ f = "crypt" THEN wrong \cup {"in clear"} ELSE wrong
        BY <2>2, Zenon DEF SeIpWritten
    <2>5. wrong' \subseteq wrong \cup Mild
        BY <2>4 DEF Mild
    <2>6. Top # "dash"
        BY <2>1
    <2> HIDE DEF ok
    <2> QED BY <2>1, <2>3, <2>4, <2>5, <2>6, LiveEncrypts
<1>2. CASE StreamWrite
    <2>1. /\ At({"data"}) /\ Top = "stream" /\ op' = op /\ stack' = stack /\ mem' = mem /\ fd' = fd /\ sig' = sig
               /\ keys' = keys
        BY <1>2, Zenon DEF StreamWrite
    <2>2. PICK f : Proceed(f # "memory", f # "none") /\ wrong' = wrong \cup Harm(f)
        BY <1>2, Zenon DEF StreamWrite
    <2>3. wrong' \subseteq wrong \cup Mild
        BY <2>2 DEF Harm, Mild
    <2>4. PICK ok, fault \in BOOLEAN : Proceed(ok, fault)
        BY <2>2, Zenon
    <2>5. Top # "dash"
        BY <2>1
    <2> QED BY <2>1, <2>3, <2>4, <2>5, LiveEncrypts
<1> QED BY <1>1, <1>2

\* Data that is written as it is.
LEMMA LivePlain ==
    ASSUME op \in Ops, faults \in Nat, NEW a, NEW e, Live(a, e), result = "none", PlainWrite
    PROVE  HeldInv'
<1>1. PICK ok \in Outcomes :
        /\ At({"data"}) /\ Proceed(ok, ~ok)
        /\ sig' = IF ok /\ Top = "dash" THEN [sig EXCEPT !.hashed = Append(@, <<"text", 0>>)] ELSE sig
    BY Zenon DEF PlainWrite, After
<1>2. /\ op' = op /\ stack' = stack /\ mem' = mem /\ fd' = fd /\ keys' = keys
      /\ wrong' = IF Top = "dash" THEN wrong ELSE wrong \cup {"in clear"}
    BY Zenon DEF PlainWrite, After
<1>3. ok \in BOOLEAN
    BY <1>1 DEF Outcomes
<1>4. PICK b : b = Move(a, Now)
    OBVIOUS
<1>5. /\ todo # <<>> /\ Now.op = "data" /\ a \in Labels /\ Allowed(op, a, Now) /\ Fits(a) /\ ~(Now.drop >= 0)
      /\ Encrypts(op) \/ (a.top = "dash" /\ a.h = 0 /\ Items(op) = <<"text">>)
      /\ b.d = a.d /\ b.ph = a.ph /\ b.h = (IF a.top = "dash" THEN a.h + 1 ELSE a.h) /\ b.m = a.m /\ b.f = a.f
           /\ b.top = a.top
    BY <1>1, <1>4, DataIs
<1>6. CASE Top # "dash"
    <2>1. sig' = sig /\ wrong' \subseteq wrong \cup Mild
        BY <1>1, <1>2, <1>6 DEF Mild
    <2>2. (~ok) \in BOOLEAN
        BY <1>3
    <2> QED BY <1>1, <1>2, <1>3, <1>6, <2>1, <2>2, LiveEncrypts
<1>7. CASE Top = "dash"
    <2>1. wrong' \cap Unwanted = {} /\ wrong' = wrong
        BY <1>2, <1>5, <1>7 DEF Fits, FitsRest
    <2>2. faults' \in Nat /\ (faults' = 0 => faults = 0)
        BY <1>1, FaultsAfter
    <2>3. CASE ~ok
        <3>1. Proceed(FALSE, TRUE) /\ sig' = sig
            BY <1>1, <1>3, <2>3, AfterEither, Zenon
        <3>2. Now.op \notin {"sig", "pop"}
            BY <1>5
        <3> QED BY <1>2, <1>5, <2>1, <3>1, <3>2, LiveFails
    <2>4. CASE ok
        <3>1. Proceed(TRUE, FALSE) /\ sig' = [sig EXCEPT !.hashed = Append(@, <<"text", 0>>)]
            BY <1>1, <1>3, <1>7, <2>4, AfterEither, Zenon
        <3>2. PICK s : s = sig
            OBVIOUS
        <3>3. PICK t : t = sig'
            OBVIOUS
        <3>4. PICK g : g = Append(s.hashed, <<"text", 0>>)
            OBVIOUS
        <3>5. t = [s EXCEPT !.hashed = g]
            BY <3>1, <3>2, <3>3, <3>4
        <3>6. IsSig(s) /\ FitsSig(a)
            BY <1>5, <3>2 DEF Fits, FitsSig
        <3>7. t = SigOf(s.mem, s.hashoff, s.hashlen, s.unhashoff, g, s.short, s.done)
            BY <3>5, <3>6, SigExcept
        <3>8. s.mem \in Nat /\ s.hashoff \in Int /\ s.hashlen \in Int /\ s.unhashoff \in Int
            BY <3>6 DEF IsSig
        <3>9. /\ t.mem = s.mem /\ t.hashoff = s.hashoff /\ t.hashlen = s.hashlen /\ t.unhashoff = s.unhashoff
                   /\ t.hashed = g
              /\ t.short = s.short /\ t.done = s.done /\ IsSig(t)
            BY <3>7, <3>8, SigOfIs
        <3>10. FitsSig(b)'
            <4>1. CASE Encrypts(op)
                BY <1>2, <2>2, <3>2, <3>3, <3>6, <3>9, <4>1 DEF FitsSig
            <4>2. CASE ~Encrypts(op)
                <5>1. a.top = "dash" /\ a.h = 0 /\ Items(op) = <<"text">> /\ b.h = 0 + 1
                    BY <1>5, <4>2
                <5>2. Len(Items(op)) = 1 /\ Items(op)[1] = "text"
                    BY <5>1
                <5>3. SigFits(op, s, 0, a.m) /\ a.m \in 0 .. 7
                    BY <1>5, <3>2, <3>6, <4>2, <5>1 DEF FitsSig, Labels
                <5>4. <<"text", 0>> = HashedItem(op, s, 0 + 1)
                    BY <5>2 DEF HashedItem
                <5>5. ~s.done
                    BY <5>2, <5>3 DEF SigFits
                <5>6. SigFits(op, t, 0 + 1, a.m)
                    <6>1. 0 < Len(Items(op)) + 2 /\ ~(0 >= Len(Items(op))) /\ 0 \in Nat
                        BY <5>2
                    <6> QED BY <3>4, <3>6, <3>9, <5>3, <5>4, <5>5, <6>1, SigHashes
                <5>7. SigFits(op', sig', b.h, b.m)
                    BY <1>2, <1>5, <3>3, <5>1, <5>6
                <5>8. faults' = 0 => ~sig'.short
                    BY <2>2, <3>2, <3>3, <3>6, <3>9 DEF FitsSig
                <5>9. IsSig(sig') /\ ~Encrypts(op')
                    BY <1>2, <3>3, <3>9, <4>2
                <5> QED BY <5>7, <5>8, <5>9 DEF FitsSig
            <4> QED BY <4>1, <4>2
        <3>11. Fits(b)'
            BY <1>2, <1>5, <2>1, <3>10, DataFits
        <3>12. todo' = Tail(todo) /\ result' = "none"
            BY <3>1, Zenon DEF Proceed
        <3>13. Now.op # "fail"
            BY <1>5
        <3> QED BY <1>2, <1>4, <1>5, <2>2, <3>11, <3>12, <3>13, LiveTail
    <2> QED BY <1>3, <2>3, <2>4
<1> QED BY <1>6, <1>7

\* The signature of an operation that has ended stays as it is.
LEMMA CheckedSame == ASSUME SignedAsChecked, op' = op, sig' = sig PROVE SignedAsChecked'
<1>1. Checked(op, sig)
    BY CheckedIs, Zenon
<1>2. Checked(op', sig')
    BY <1>1
<1> QED BY <1>2, Zenon DEF SignedAsChecked, Checked

\* Nothing changes.
LEMMA PostSame ==
    ASSUME NEW n, Post(n), UNCHANGED <<op, todo, result, stack, mem, fd, sig, keys, faults, wrong>>
    PROVE  Post(n)'
<1>1. SignedAsChecked'
    <2>1. Checked(op, sig)
        BY CheckedIs, Zenon DEF Post
    <2>2. Checked(op', sig')
        BY <2>1
    <2> QED BY <2>2, Zenon DEF SignedAsChecked, Checked
<1> QED BY <1>1, ZenonT(60) DEF Post

\* Nothing changes.
LEMMA HeldInvSame == ASSUME HeldInv, UNCHANGED vars PROVE HeldInv'
<1>1. UNCHANGED <<op, todo, result, stack, mem, fd, sig, keys, faults, wrong>>
    BY DEF vars
<1>2. op' \in Ops /\ faults' \in Nat
    BY <1>1 DEF HeldInv
<1>3. CASE result = "none"
    <2>1. PICK a, e : Live(a, e)
        BY <1>3 DEF HeldInv
    <2>2. Fits(a)'
        BY <1>1, <2>1, SameFits DEF Live
    <2>3. Runs(op', todo', a, e) /\ e.ph = "over" /\ result' = "none"
        BY <1>1, <1>3, <2>1 DEF Live
    <2> QED BY <1>2, <2>2, <2>3, GoesOn
<1>4. CASE result \in {"ok", "failed"}
    <2>1. PICK n : Post(n)
        BY <1>4 DEF HeldInv
    <2>2. \E k : Post(k)'
        BY <1>1, <2>1, PostSame
    <2>3. result' \in {"ok", "failed"}
        BY <1>1, <1>4
    <2> QED BY <1>2, <2>2, <2>3 DEF HeldInv
<1>5. CASE result = "crashed"
    <2>1. todo = <<>> /\ wrong \cap Unwanted = {} /\ Checked(op, sig)
        BY <1>5, CheckedIs DEF HeldInv
    <2>2. todo' = <<>> /\ wrong' \cap Unwanted = {} /\ Checked(op', sig') /\ result' = "crashed"
        BY <1>1, <1>5, <2>1
    <2>3. SignedAsChecked'
        BY <2>2, Zenon DEF SignedAsChecked, Checked
    <2> QED BY <1>2, <2>2, <2>3 DEF HeldInv
<1> QED BY <1>3, <1>4, <1>5 DEF HeldInv

\* Every step of an operation that goes on keeps the invariant.
LEMMA LiveNext == ASSUME HeldInv, result = "none", Next PROVE HeldInv'
<1>1. op \in Ops /\ faults \in Nat
    BY DEF HeldInv
<1>2. PICK a, e : Live(a, e)
    BY DEF HeldInv
<1>3. CASE Write
    <2>1. PICK ok \in Outcomes : At({"write", "tag", "length", "siglength", "sigbody"}) /\ Proceed(ok, ~ok)
        BY <1>3, Zenon DEF Write, After
    <2>2. op' = op /\ stack' = stack /\ mem' = mem /\ fd' = fd /\ sig' = sig /\ keys' = keys /\ wrong' = wrong
        BY <1>3, Zenon DEF Write, After
    <2>3. ok \in BOOLEAN /\ (~ok) \in BOOLEAN /\ At(QuietOps) /\ Now.op # "fail"
        BY <2>1 DEF At, Now, QuietOps, Outcomes
    <2> QED BY <1>1, <1>2, <2>1, <2>2, <2>3, LiveQuiet
<1>4. CASE PacketDone
    <2>1. At({"packet"}) /\ Proceed(TRUE, FALSE) /\ op' = op /\ stack' = stack /\ mem' = mem /\ fd' = fd /\ sig' = sig
          /\ keys' = keys /\ wrong' = wrong
        BY <1>4, Zenon DEF PacketDone, Goes, After
    <2>2. TRUE \in BOOLEAN /\ FALSE \in BOOLEAN /\ At(QuietOps) /\ Now.op # "fail"
        BY <2>1 DEF At, Now, QuietOps
    <2> QED BY <1>1, <1>2, <2>1, <2>2, LiveQuiet
<1>5. CASE Attempt
    <2>1. PICK ok \in Outcomes : At({"try"}) /\ Proceed(ok, ~ok)
        BY <1>5, Zenon DEF Attempt, After
    <2>2. op' = op /\ stack' = stack /\ mem' = mem /\ fd' = fd /\ sig' = sig /\ keys' = keys /\ wrong' = wrong
        BY <1>5, Zenon DEF Attempt, After
    <2>3. ok \in BOOLEAN /\ (~ok) \in BOOLEAN /\ At(QuietOps) /\ Now.op # "fail"
        BY <2>1 DEF At, Now, QuietOps, Outcomes
    <2> QED BY <1>1, <1>2, <2>1, <2>2, <2>3, LiveQuiet
<1>6. CASE Unsupported
    <2>1. At({"fail"}) /\ Proceed(FALSE, FALSE) /\ op' = op /\ stack' = stack /\ mem' = mem /\ fd' = fd /\ sig' = sig
          /\ keys' = keys /\ wrong' = wrong
        BY <1>6, Zenon DEF Unsupported, After
    <2>2. FALSE \in BOOLEAN /\ At(QuietOps) /\ Now.op = "fail"
        BY <2>1 DEF At, Now, QuietOps
    <2> QED BY <1>1, <1>2, <2>1, <2>2, LiveQuiet
<1>7. CASE pgp_writer_push \/ pgp_writer_pop \/ Setup \/ Succeed
    BY <1>1, <1>2, <1>7, LivePush, LivePop, LiveSetup, LiveSucceeds, Zenon
<1>12. CASE SigMemory
    <2>1. PICK ok \in Outcomes : At({"sigmem"}) /\ Proceed(ok, ~ok)
        BY <1>12, Zenon DEF SigMemory, After
    <2>2. op' = op /\ stack' = stack /\ mem' = mem /\ fd' = fd /\ sig' = sig /\ keys' = keys /\ wrong' = wrong
        BY <1>12, Zenon DEF SigMemory
    <2>3. ok \in BOOLEAN /\ (~ok) \in BOOLEAN /\ At(QuietOps) /\ Now.op # "fail"
        BY <2>1 DEF At, Now, QuietOps, Outcomes
    <2> QED BY <1>1, <1>2, <2>1, <2>2, <2>3, LiveQuiet
<1>13. CASE NullWrite
    <2>1. result' = "crashed" /\ todo' = <<>> /\ op' = op /\ sig' = sig /\ faults' = faults /\ wrong' = wrong
          /\ todo # <<>>
        BY <1>13 DEF NullWrite, At
    <2>2. a \in Labels /\ Fits(a)
        BY <1>2, <2>1, LiveNow
    <2>3. SignedAsChecked /\ wrong \cap Unwanted = {}
        BY <1>1, <2>2, FitsChecked DEF Fits, FitsRest
    <2>4. SignedAsChecked'
        BY <2>1, <2>3, CheckedSame
    <2> QED BY <1>1, <2>1, <2>3, <2>4 DEF HeldInv
<1>8. CASE SigWrite \/ SigNote \/ encrypt_se_ip_writer \/ StreamWrite \/ PlainWrite
    BY <1>1, <1>2, <1>8, LiveSigWrites, LiveNotes, LiveDataWrites, LivePlain, Zenon
<1>9. CASE pgp_writer_info_finalise \/ pgp_writer_close \/ TeardownFile \/ pgp_memory_free \/ Loaded
    BY <1>1, <1>2, <1>9, LiveFinalises, LiveCloses, LiveReleases, LiveLoads, Zenon
<1>10. CASE pgp_key_free_data
    <2>1. todo # <<>> /\ Now.op = "freekeys"
        BY <1>10 DEF pgp_key_free_data, At, Now
    <2>2. Now.op \in AllOps
        BY <1>2, <2>1, LiveNow DEF Allowed
    <2> QED BY <2>1, <2>2 DEF AllOps, QuietOps
<1>11. CASE Done
    <2>1. UNCHANGED vars
        BY <1>11, Zenon DEF Done
    <2> QED BY <2>1, HeldInvSame
<1> QED BY <1>3, <1>4, <1>5, <1>6, <1>7, <1>8, <1>9, <1>10, <1>11, <1>12, <1>13, Zenon DEF Next

-----------------------------------------------------------------------------
(* The steps after the end. *)

\* What is left after the end, one step shorter.
LEMMA PostNow == ASSUME NEW n, Post(n), todo # <<>>
    PROVE /\ Now.op \in EndOps \cup {"pop"} /\ (Now.op = "pop" <=> n > 0) /\ n \in Nat
          /\ Shape(Tail(todo), IF n > 0 THEN n - 1 ELSE n)
          /\ OpsIn(Tail(todo)) \subseteq OpsIn(todo) /\ OpsIn(todo) \subseteq {Now.op} \cup OpsIn(Tail(todo))
               /\ Now.op \in OpsIn(todo)
          /\ FreeFirst(Tail(todo)) => FreeFirst(todo)
          /\ Now.op = "free" /\ "close" \in OpsIn(Tail(todo)) => FreeFirst(todo)
<1>1. Shape(todo, n)
    BY DEF Post
<1>2. /\ Head(todo) = todo[1] /\ todo[1].op \in EndOps \cup {"pop"} /\ (todo[1].op = "pop" <=> n > 0)
      /\ Shape(Tail(todo), IF n > 0 THEN n - 1 ELSE n)
      /\ OpsIn(Tail(todo)) \subseteq OpsIn(todo) /\ OpsIn(todo) \subseteq {todo[1].op} \cup OpsIn(Tail(todo))
      /\ FreeFirst(Tail(todo)) => FreeFirst(todo)
      /\ todo[1].op = "free" /\ "close" \in OpsIn(Tail(todo)) => FreeFirst(todo)
    BY <1>1, TailShape
<1>3. Now = todo[1] /\ n \in Nat
    BY <1>1, <1>2 DEF Now, Shape
<1>4. 1 \in DOMAIN todo
    BY <1>1, TailIs, ProgramIs DEF Shape
<1>5. todo[1].op \in OpsIn(todo)
    BY <1>4 DEF OpsIn
<1> QED BY <1>2, <1>3, <1>5

\* A writer that a failed call left is popped.
LEMMA PostPop ==
    ASSUME NEW n, Post(n), faults \in Nat, pgp_writer_pop
    PROVE  Post(n - 1)' /\ result' = result /\ op' = op /\ faults' = faults
<1>1. At({"pop"}) /\ Goes /\ op' = op /\ mem' = mem /\ fd' = fd /\ sig' = sig /\ keys' = keys /\ wrong' = wrong
    BY DEF pgp_writer_pop
<1>2. stack' = IF Last(stack).fin \/ Len(stack) = 1 THEN stack ELSE Front(stack)
    BY DEF pgp_writer_pop
<1>3. todo # <<>> /\ Now.op = "pop"
    BY <1>1 DEF At, Now
<1>4. todo' = Tail(todo) /\ result' = result /\ faults' = faults
    BY <1>1, Zenon DEF Goes, After, Proceed
<1>5. /\ n > 0 /\ n \in Nat /\ Shape(todo', n - 1) /\ OpsIn(todo') \subseteq OpsIn(todo)
           /\ OpsIn(todo) \subseteq {"pop"} \cup OpsIn(todo')
      /\ (FreeFirst(todo') => FreeFirst(todo))
    BY <1>3, <1>4, PostNow
<1>6. IsStack(stack) /\ InnerTop(stack, n) /\ Len(stack) > n
    BY <1>5 DEF Post
<1>7. IsStack(stack') /\ InnerTop(stack', n - 1) /\ Len(stack') > n - 1 /\ (HasDue(stack') => HasDue(stack))
    BY <1>2, <1>5, <1>6, StackPop
<1>8. stack # <<>>
    BY <1>5, <1>6, StackIs
<1>9. SignedAsChecked'
    BY <1>1, CheckedSame DEF Post
<1>10. "close" \in OpsIn(todo) => "close" \in OpsIn(todo')
    BY <1>5
<1>11. "closefd" \in OpsIn(todo) => "closefd" \in OpsIn(todo')
    BY <1>5
<1>12. Shape(todo', n - 1) /\ (FreeFirst(todo') => op'.name = "sign_buf" /\ result' = "failed")
    BY <1>1, <1>4, <1>5 DEF Post
<1>13. fd' = "open" /\ op'.name # "encrypt_file" => "closefd" \in OpsIn(todo')
    BY <1>1, <1>11 DEF Post
<1>14. stack' # <<>> => \/ "close" \in OpsIn(todo')
                        \/ op'.name \in {"encrypt_file", "generate_subkey"} /\ result' = "failed"
                        \/ op'.name = "export_public_key" /\ result' = "ok"
    BY <1>1, <1>4, <1>8, <1>10 DEF Post
<1>15. "close" \in OpsIn(todo') /\ stack' # <<>> /\ mem' = "freed" => op'.name = "sign_buf" /\ result' = "failed"
    BY <1>1, <1>4, <1>5, <1>8 DEF Post
<1>16. HasDue(stack') /\ op'.name = "sign_buf" => op'.armor \/ op'.clear
    BY <1>1, <1>7 DEF Post
<1>17. /\ "closefd" \in OpsIn(todo') /\ fd' = "none" => op'.name = "sign_detached"
       /\ "freekeys" \in OpsIn(todo') => result' = "failed"
    BY <1>1, <1>4, <1>5 DEF Post
<1>18. /\ op'.name = "generate_subkey" /\ result' = "failed" /\ keys' # "none" => faults' > 0
       /\ "freed memory" \in wrong' => op'.name = "sign_buf" /\ result' = "failed" /\ (op'.armor \/ op'.clear)
       /\ "closed stdin" \in wrong' => op'.name = "sign_detached" /\ fd' = "none"
       /\ "freed subkey listed" \in wrong' => result' = "failed" /\ faults' > 0
    BY <1>1, <1>4 DEF Post
<1>19. Post(n - 1)'
    BY <1>7, <1>9, <1>12, <1>13, <1>14, <1>15, <1>16, <1>17, <1>18, Zenon DEF Post
<1> QED BY <1>1, <1>4, <1>19

\* The output is closed at the end.
LEMMA PostClose ==
    ASSUME NEW n, Post(n), faults \in Nat, pgp_writer_close
    PROVE  Post(0)' /\ result' = result /\ op' = op /\ faults' \in Nat
<1>1. At({"close"}) /\ Finalised /\ stack' = <<>> /\ op' = op /\ result' = result /\ mem' = mem /\ fd' = fd
      /\ sig' = sig /\ keys' = keys
    BY Zenon DEF pgp_writer_close
<1>2. todo # <<>> /\ Now.op = "close"
    BY <1>1 DEF At, Now
<1>3. /\ todo' = Tail(todo) /\ faults' \in Nat /\ (faults > 0 => faults' > 0)
      /\ wrong' \subseteq wrong \cup Mild \cup (IF Due # {} /\ mem = "freed" THEN {"freed memory"} ELSE {})
    BY <1>1, FinalisedIs
<1>4. faults' \in Nat /\ (faults > 0 => faults' > 0)
    BY <1>3
<1>5. /\ ~(n > 0) /\ n = 0
    BY <1>2, PostNow
<1>6. /\ Shape(todo', 0) /\ OpsIn(todo') \subseteq OpsIn(todo) /\ OpsIn(todo) \subseteq {"close"} \cup OpsIn(todo')
           /\ "close" \in OpsIn(todo)
      /\ (FreeFirst(todo') => FreeFirst(todo))
    BY <1>2, <1>3, <1>5, PostNow
<1>7. SignedAsChecked'
    BY <1>1, CheckedSame DEF Post
<1>8. Due # {} => stack # <<>> /\ HasDue(stack)
    BY DEF Due, HasDue
<1>9. "freed memory" \in wrong' => op'.name = "sign_buf" /\ result' = "failed" /\ (op'.armor \/ op'.clear)
    <2>1. CASE Due # {} /\ mem = "freed"
        BY <1>1, <1>6, <1>8, <2>1 DEF Post
    <2>2. CASE ~(Due # {} /\ mem = "freed")
        BY <1>1, <1>3, <2>2 DEF Post, Mild
    <2> QED BY <2>1, <2>2
<1>10. IsStack(stack') /\ InnerTop(stack', 0) /\ ~HasDue(stack') /\ stack' = <<>>
    BY <1>1, StackNone
<1>11. Shape(todo', 0) /\ (FreeFirst(todo') => op'.name = "sign_buf" /\ result' = "failed")
    BY <1>1, <1>6 DEF Post
<1>12. fd' = "open" /\ op'.name # "encrypt_file" => "closefd" \in OpsIn(todo')
    BY <1>1, <1>6 DEF Post
<1>13. /\ "closefd" \in OpsIn(todo') /\ fd' = "none" => op'.name = "sign_detached"
       /\ "freekeys" \in OpsIn(todo') => result' = "failed"
    BY <1>1, <1>6 DEF Post
<1>14. op'.name = "generate_subkey" /\ result' = "failed" /\ keys' # "none" => faults' > 0
    BY <1>1, <1>4 DEF Post
<1>15. /\ "closed stdin" \in wrong' => op'.name = "sign_detached" /\ fd' = "none"
       /\ "freed subkey listed" \in wrong' => result' = "failed" /\ faults' > 0
    BY <1>1, <1>3, <1>4 DEF Post, Mild
<1>16. ~(0 > 0)
    OBVIOUS
<1>17. Post(0)'
    BY <1>7, <1>9, <1>10, <1>11, <1>12, <1>13, <1>14, <1>15, <1>16, Zenon DEF Post
<1> QED BY <1>1, <1>4, <1>17

\* The file is closed at the end.
LEMMA PostFile ==
    ASSUME NEW n, Post(n), faults \in Nat, TeardownFile
    PROVE  Post(0)' /\ result' = result /\ op' = op /\ faults' \in Nat
<1>1. At({"closefd"}) /\ Goes /\ op' = op /\ stack' = stack /\ mem' = mem /\ sig' = sig /\ keys' = keys
    BY DEF TeardownFile
<1>2. fd' = (IF fd = "open" THEN "closed" ELSE fd)
      /\ wrong' = IF fd = "none" THEN wrong \cup {"closed stdin"} ELSE wrong
    BY DEF TeardownFile
<1>3. todo # <<>> /\ Now.op = "closefd"
    BY <1>1 DEF At, Now
<1>4. todo' = Tail(todo) /\ result' = result /\ faults' = faults
    BY <1>1, Zenon DEF Goes, After, Proceed
<1>5. /\ ~(n > 0) /\ n = 0
    BY <1>3, PostNow
<1>6. /\ Shape(todo', 0) /\ OpsIn(todo') \subseteq OpsIn(todo) /\ OpsIn(todo) \subseteq {"closefd"} \cup OpsIn(todo')
           /\ "closefd" \in OpsIn(todo)
      /\ (FreeFirst(todo') => FreeFirst(todo))
    BY <1>3, <1>4, <1>5, PostNow
<1>7. SignedAsChecked'
    BY <1>1, CheckedSame DEF Post
<1>8. IsStack(stack') /\ InnerTop(stack', 0)
    BY <1>1, <1>5 DEF Post
<1>9. fd' # "open" /\ (fd' = "none" <=> fd = "none")
    BY <1>2
<1>10. "close" \in OpsIn(todo) => "close" \in OpsIn(todo')
    BY <1>6
<1>11. Shape(todo', 0) /\ (FreeFirst(todo') => op'.name = "sign_buf" /\ result' = "failed")
    BY <1>1, <1>4, <1>6 DEF Post
<1>12. stack' # <<>> => \/ "close" \in OpsIn(todo')
                        \/ op'.name \in {"encrypt_file", "generate_subkey"} /\ result' = "failed"
                        \/ op'.name = "export_public_key" /\ result' = "ok"
    BY <1>1, <1>4, <1>10 DEF Post
<1>13. "close" \in OpsIn(todo') /\ stack' # <<>> /\ mem' = "freed" => op'.name = "sign_buf" /\ result' = "failed"
    BY <1>1, <1>4, <1>6 DEF Post
<1>14. HasDue(stack') /\ op'.name = "sign_buf" => op'.armor \/ op'.clear
    BY <1>1 DEF Post
<1>15. /\ "closefd" \in OpsIn(todo') /\ fd' = "none" => op'.name = "sign_detached"
       /\ "freekeys" \in OpsIn(todo') => result' = "failed"
    BY <1>1, <1>4, <1>6, <1>9 DEF Post
<1>16. /\ op'.name = "generate_subkey" /\ result' = "failed" /\ keys' # "none" => faults' > 0
       /\ "freed memory" \in wrong' => op'.name = "sign_buf" /\ result' = "failed" /\ (op'.armor \/ op'.clear)
       /\ "freed subkey listed" \in wrong' => result' = "failed" /\ faults' > 0
    BY <1>1, <1>2, <1>4 DEF Post
<1>17. "closed stdin" \in wrong' => op'.name = "sign_detached" /\ fd' = "none"
    BY <1>1, <1>2, <1>6, <1>9 DEF Post
<1>18. ~(0 > 0)
    OBVIOUS
<1>19. Post(0)'
    BY <1>7, <1>8, <1>9, <1>11, <1>12, <1>13, <1>14, <1>15, <1>16, <1>17, <1>18, Zenon DEF Post
<1> QED BY <1>1, <1>4, <1>19

\* Memory and keys are freed at the end.
LEMMA PostFree == ASSUME NEW n, Post(n), faults \in Nat, pgp_memory_free \/ pgp_key_free_data
    PROVE Post(0)' /\ result' = result /\ op' = op /\ faults' \in Nat
<1>1. At({"free", "freekeys"}) /\ Goes /\ op' = op /\ stack' = stack /\ fd' = fd /\ sig' = sig
    BY DEF pgp_memory_free, pgp_key_free_data, At
<1>2. /\ Now.op = "free" => keys' = keys /\ wrong' = wrong
      /\ Now.op = "freekeys" => /\ mem' = mem /\ (keys' # "none" => keys # "none")
                                /\ wrong' = IF op.name = "generate_subkey"
                                     /\ keys # "none" THEN wrong \cup {"freed subkey listed"} ELSE wrong
    BY DEF pgp_memory_free, pgp_key_free_data, At, Now
<1>3. todo # <<>> /\ Now.op \in {"free", "freekeys"}
    BY <1>1 DEF At, Now
<1>4. todo' = Tail(todo) /\ result' = result /\ faults' = faults
    BY <1>1, Zenon DEF Goes, After, Proceed
<1>5. /\ ~(n > 0) /\ n = 0
    BY <1>3, PostNow
<1>6. /\ Shape(todo', 0) /\ OpsIn(todo') \subseteq OpsIn(todo) /\ OpsIn(todo) \subseteq {Now.op} \cup OpsIn(todo')
           /\ Now.op \in OpsIn(todo)
      /\ (FreeFirst(todo') => FreeFirst(todo)) /\ (Now.op = "free" /\ "close" \in OpsIn(todo') => FreeFirst(todo))
    BY <1>3, <1>4, <1>5, PostNow
<1>7. SignedAsChecked'
    BY <1>1, CheckedSame DEF Post
<1>8. IsStack(stack') /\ InnerTop(stack', 0)
    BY <1>1, <1>5 DEF Post
<1>9. ("close" \in OpsIn(todo) => "close" \in OpsIn(todo'))
      /\ ("closefd" \in OpsIn(todo) => "closefd" \in OpsIn(todo'))
    BY <1>3, <1>6
<1>10. Shape(todo', 0) /\ (FreeFirst(todo') => op'.name = "sign_buf" /\ result' = "failed")
    BY <1>1, <1>4, <1>6 DEF Post
<1>11. fd' = "open" /\ op'.name # "encrypt_file" => "closefd" \in OpsIn(todo')
    BY <1>1, <1>9 DEF Post
<1>12. stack' # <<>> => \/ "close" \in OpsIn(todo')
                        \/ op'.name \in {"encrypt_file", "generate_subkey"} /\ result' = "failed"
                        \/ op'.name = "export_public_key" /\ result' = "ok"
    BY <1>1, <1>4, <1>9 DEF Post
<1>13. "close" \in OpsIn(todo') /\ stack' # <<>> /\ mem' = "freed" => op'.name = "sign_buf" /\ result' = "failed"
    <2>1. CASE Now.op = "free"
        BY <1>1, <1>4, <1>6, <2>1 DEF Post
    <2>2. CASE Now.op = "freekeys"
        BY <1>1, <1>2, <1>4, <1>6, <2>2 DEF Post
    <2> QED BY <1>3, <2>1, <2>2
<1>14. HasDue(stack') /\ op'.name = "sign_buf" => op'.armor \/ op'.clear
    BY <1>1 DEF Post
<1>15. /\ "closefd" \in OpsIn(todo') /\ fd' = "none" => op'.name = "sign_detached"
       /\ "freekeys" \in OpsIn(todo') => result' = "failed"
    BY <1>1, <1>4, <1>6 DEF Post
<1>16. op'.name = "generate_subkey" /\ result' = "failed" /\ keys' # "none" => faults' > 0
    BY <1>1, <1>2, <1>3, <1>4 DEF Post
<1>17. /\ "freed memory" \in wrong' => op'.name = "sign_buf" /\ result' = "failed" /\ (op'.armor \/ op'.clear)
       /\ "closed stdin" \in wrong' => op'.name = "sign_detached" /\ fd' = "none"
    <2>1. ("freed memory" \in wrong' => "freed memory" \in wrong)
          /\ ("closed stdin" \in wrong' => "closed stdin" \in wrong)
        BY <1>2, <1>3
    <2> QED BY <1>1, <1>4, <2>1 DEF Post
<1>18. "freed subkey listed" \in wrong' => result' = "failed" /\ faults' > 0
    <2>1. CASE "freed subkey listed" \in wrong
        BY <1>4, <2>1 DEF Post
    <2>2. CASE "freed subkey listed" \notin wrong
        <3> SUFFICES ASSUME "freed subkey listed" \in wrong' PROVE result' = "failed" /\ faults' > 0
            OBVIOUS
        <3>1. Now.op = "freekeys" /\ op.name = "generate_subkey" /\ keys # "none"
            BY <1>2, <1>3, <2>2
        <3>2. result = "failed"
            BY <1>6, <3>1 DEF Post
        <3> QED BY <1>4, <3>1, <3>2 DEF Post
    <2> QED BY <2>1, <2>2
<1>19. ~(0 > 0)
    OBVIOUS
<1>20. Post(0)'
    BY <1>7, <1>8, <1>10, <1>11, <1>12, <1>13, <1>14, <1>15, <1>16, <1>17, <1>18, <1>19, Zenon DEF Post
<1> QED BY <1>1, <1>4, <1>20

\* Every step after the end keeps the invariant.
LEMMA PostNext == ASSUME HeldInv, result \in {"ok", "failed"}, Next PROVE HeldInv'
<1>1. op \in Ops /\ faults \in Nat /\ result \in {"ok", "failed"}
    BY DEF HeldInv
<1>2. PICK n : Post(n)
    BY DEF HeldInv
<1>3. ASSUME op' = op, result' = result, faults' \in Nat, NEW k, Post(k)' PROVE HeldInv'
    <2>1. \E m : Post(m)'
        BY <1>3
    <2>2. op' \in Ops /\ result' # "none" /\ result' \in {"ok", "failed"}
        BY <1>1, <1>3
    <2> QED BY <1>3, <2>1, <2>2 DEF HeldInv
<1>4. CASE pgp_writer_pop
    <2>1. Post(n - 1)' /\ result' = result /\ op' = op /\ faults' = faults
        BY <1>1, <1>2, <1>4, PostPop
    <2> QED BY <1>1, <1>3, <2>1
<1>5. CASE pgp_writer_close \/ TeardownFile \/ pgp_memory_free \/ pgp_key_free_data
    <2>1. Post(0)' /\ result' = result /\ op' = op /\ faults' \in Nat
        BY <1>1, <1>2, <1>5, PostClose, PostFile, PostFree, Zenon
    <2> QED BY <1>3, <2>1
<1>6. CASE Done
    <2>1. UNCHANGED vars
        BY <1>6, Zenon DEF Done
    <2> QED BY <2>1, HeldInvSame
<1>7. ASSUME todo # <<>> PROVE Now.op \in EndOps \cup {"pop"}
    BY <1>2, <1>7, PostNow
<1>8. ASSUME NEW S, At(S), S \cap (EndOps \cup {"pop"}) = {} PROVE FALSE
    <2>1. todo # <<>> /\ Now.op \in S
        BY <1>8 DEF At, Now
    <2> QED BY <1>7, <1>8, <2>1
<1>9. ~(Write \/ PacketDone \/ Attempt \/ Unsupported)
    <2>1. Write => At({"write", "tag", "length", "siglength", "sigbody"})
        BY Zenon DEF Write, After
    <2>2. PacketDone => At({"packet"})
        BY Zenon DEF PacketDone
    <2>3. Attempt => At({"try"})
        BY Zenon DEF Attempt, After
    <2>4. Unsupported => At({"fail"})
        BY Zenon DEF Unsupported, After
    <2> QED BY <1>8, <2>1, <2>2, <2>3, <2>4 DEF EndOps
<1>10. ~(pgp_writer_push \/ Setup \/ Succeed)
    <2>1. pgp_writer_push => At({"push"})
        BY Zenon DEF pgp_writer_push, After
    <2>2. Setup => At({"open", "memory"})
        BY Zenon DEF Setup, After
    <2>3. Succeed => At({"ok"})
        BY Zenon DEF Succeed
    <2> QED BY <1>8, <2>1, <2>2, <2>3 DEF EndOps
<1>11. ~(SigMemory \/ NullWrite \/ SigWrite \/ SigNote)
    <2>1. SigWrite \/ NullWrite => At({"sig"})
        BY Zenon DEF SigWrite, NullWrite
    <2>2. SigNote => At({"signew", "hashoff", "hashlen", "unhashed", "hash"})
        BY Zenon DEF SigNote
    <2>3. SigMemory => At({"sigmem"})
        BY Zenon DEF SigMemory
    <2> QED BY <1>8, <2>1, <2>2, <2>3 DEF EndOps
<1>12. ~(encrypt_se_ip_writer \/ StreamWrite \/ PlainWrite)
    <2>1. encrypt_se_ip_writer => At({"data"})
        BY Zenon DEF encrypt_se_ip_writer
    <2>2. StreamWrite => At({"data"})
        BY Zenon DEF StreamWrite
    <2>3. PlainWrite => At({"data"})
        BY Zenon DEF PlainWrite, After
    <2> QED BY <1>8, <2>1, <2>2, <2>3 DEF EndOps
<1>13. ~(pgp_writer_info_finalise \/ Loaded)
    <2>1. pgp_writer_info_finalise => At({"finalise"})
        BY Zenon DEF pgp_writer_info_finalise
    <2>2. Loaded => At({"loaded"})
        BY Zenon DEF Loaded
    <2> QED BY <1>8, <2>1, <2>2 DEF EndOps
<1> QED BY <1>4, <1>5, <1>6, <1>9, <1>10, <1>11, <1>12, <1>13, Zenon DEF Next

\* Nothing is done after a crash.
LEMMA CrashedNext == ASSUME todo = <<>>, Next PROVE UNCHANGED vars
<1>1. \A S : ~At(S)
    BY DEF At
<1> QED BY <1>1, Zenon DEF Next, Write, PacketDone, Attempt, Unsupported, pgp_writer_push, pgp_writer_pop, Setup, Succeed,
        SigMemory, NullWrite, SigWrite, SigNote, encrypt_se_ip_writer, StreamWrite, PlainWrite, pgp_writer_info_finalise,
        pgp_writer_close, TeardownFile, pgp_memory_free, Loaded, pgp_key_free_data, Done

\* Every step keeps the invariant.
LEMMA NextHeldInv == ASSUME HeldInv, [Next]_vars PROVE HeldInv'
<1>1. result = "crashed" => todo = <<>>
    BY DEF HeldInv
<1>2. result \in {"none", "ok", "failed", "crashed"}
    BY DEF HeldInv
<1> QED BY <1>1, <1>2, LiveNext, PostNext, CrashedNext, HeldInvSame

\* An operation that has not ended has steps left.
LEMMA LiveGoesOn == ASSUME NEW a, NEW e, Live(a, e) PROVE todo # <<>> /\ a \in Labels
<1>1. Runs(op, todo, a, e) /\ e.ph = "over" /\ a.ph # "over"
    BY DEF Live, Fits, FitsPlace
<1>2. PICK lab \in [1 .. Len(todo) + 1 -> Labels] : lab[1] = a /\ lab[Len(todo) + 1] = e
    BY <1>1 DEF Runs
<1>3. IsProgram(todo)
    BY <1>1 DEF Runs
<1>4. Len(todo) \in Nat
    BY <1>3, ProgramIs
<1>5. a \in Labels
    BY <1>2, <1>4
<1>6. todo # <<>>
    <2> SUFFICES ASSUME todo = <<>> PROVE FALSE
        OBVIOUS
    <2>1. Len(todo) = 0
        OBVIOUS
    <2>2. a = e
        BY <1>2, <2>1
    <2> QED BY <1>1, <2>2
<1> QED BY <1>5, <1>6

\* The invariant says what was signed.
LEMMA HeldInvChecked == HeldInv => SignedAsChecked
<1> SUFFICES ASSUME HeldInv PROVE SignedAsChecked
    OBVIOUS
<1>1. CASE result = "none"
    <2>1. PICK a, e : Live(a, e)
        BY <1>1 DEF HeldInv
    <2>2. a \in Labels /\ FitsSig(a) /\ op \in Ops
        BY <2>1, LiveGoesOn DEF Live, Fits, HeldInv
    <2> QED BY <2>2, FitsChecked
<1>2. CASE result \in {"ok", "failed"}
    BY <1>2 DEF HeldInv, Post
<1>3. CASE result = "crashed"
    BY <1>3 DEF HeldInv
<1> QED BY <1>1, <1>2, <1>3 DEF HeldInv

\* The invariant says what is released.
LEMMA HeldInvReleased == HeldInv => WritersReleased
<1> SUFFICES ASSUME HeldInv PROVE WritersReleased
    OBVIOUS
<1>1. CASE result = "none"
    <2>1. PICK a, e : Live(a, e)
        BY <1>1 DEF HeldInv
    <2>2. todo # <<>> /\ wrong \cap Unwanted = {}
        BY <2>1, LiveGoesOn DEF Live, Fits, FitsRest
    <2>3. "freed memory" \notin wrong /\ "closed stdin" \notin wrong /\ "freed subkey listed" \notin wrong
        BY <2>2 DEF Unwanted
    <2>4. result \notin {"ok", "failed"}
        BY <1>1
    <2> QED BY <2>2, <2>3, <2>4, Zenon DEF WritersReleased
<1>2. CASE result \in {"ok", "failed"}
    <2>1. PICK n : Post(n)
        BY <1>2 DEF HeldInv
    <2>2. ASSUME ~At({"pop"}), NEW i \in DOMAIN stack PROVE stack[i].w \notin {"crypt", "hash", "sum16"}
        <3>1. n \in Nat /\ IsProgram(todo) /\ n <= Len(todo)
            BY <2>1 DEF Post, Shape
        <3>2. n = 0
            <4>1. CASE todo = <<>>
                BY <3>1, <4>1
            <4>2. CASE todo # <<>>
                <5>1. Now.op = "pop" <=> n > 0
                    BY <2>1, <4>2, PostNow
                <5>2. Now.op # "pop"
                    BY <2>2, <4>2 DEF At, Now
                <5> QED BY <3>1, <5>1, <5>2
            <4> QED BY <4>1, <4>2
        <3>3. IsStack(stack) /\ InnerTop(stack, 0)
            BY <2>1, <3>2 DEF Post
        <3>4. ~(i > Len(stack) - 0)
            BY <3>3, StackIs
        <3>5. stack[i].w \notin InnerWriters
            BY <3>3, <3>4 DEF InnerTop
        <3> QED BY <3>5 DEF InnerWriters
    <2>3. ASSUME todo = <<>> PROVE "closefd" \notin OpsIn(todo) /\ "close" \notin OpsIn(todo)
        BY <2>3, OpsNone
    <2>4. todo = <<>> /\ op.name # "encrypt_file" => fd # "open"
        BY <2>1, <2>3 DEF Post
    <2>5. todo = <<>> /\ stack # <<>> =>
            \/ op.name \in {"encrypt_file", "generate_subkey"} /\ result = "failed"
            \/ op.name = "export_public_key" /\ result = "ok"
        BY <2>1, <2>3 DEF Post
    <2>6. /\ "freed memory" \in wrong => op.name = "sign_buf" /\ result = "failed" /\ (op.armor \/ op.clear)
          /\ "closed stdin" \in wrong => op.name = "sign_detached" /\ fd = "none"
          /\ "freed subkey listed" \in wrong => result = "failed" /\ faults > 0
        BY <2>1 DEF Post
    <2> QED BY <2>2, <2>4, <2>5, <2>6, Zenon DEF WritersReleased
<1>3. CASE result = "crashed"
    <2>1. wrong \cap Unwanted = {} /\ result \notin {"ok", "failed"}
        BY <1>3 DEF HeldInv
    <2>2. "freed memory" \notin wrong /\ "closed stdin" \notin wrong /\ "freed subkey listed" \notin wrong
        BY <2>1 DEF Unwanted
    <2> QED BY <1>3, <2>1, <2>2, Zenon DEF WritersReleased
<1> QED BY <1>1, <1>2, <1>3 DEF HeldInv

\* However an operation ends, no cipher, hash or sum writer stays above the output, the file
\* that was opened is closed and the writers are gone, and nothing is written to freed
\* memory, for every key, text and setting, and whatever fails; but for the functions that
\* WritersReleased names (pgp_encrypt_file, pgp_sign_buf, pgp_sign_detached,
\* pgp_generate_subkey and rnp_export_public_key), each only in the case named there.
THEOREM WritersAreReleased == Spec => []WritersReleased
<1>1. Init => HeldInv
    BY InitHeldInv
<1>2. HeldInv /\ [Next]_vars => HeldInv'
    BY NextHeldInv
<1>3. HeldInv => WritersReleased
    BY HeldInvReleased
<1> QED BY <1>1, <1>2, <1>3, PTL DEF Spec

\* A signature that no lack of memory cut short was computed over what the functions that
\* check signatures hash, in their order, and its trailer gives the length of the hashed
\* fields that were written: for every operation, key and text, whatever fails.
THEOREM SignedIsChecked == Spec => []SignedAsChecked
<1>1. Init => HeldInv
    BY InitHeldInv
<1>2. HeldInv /\ [Next]_vars => HeldInv'
    BY NextHeldInv
<1>3. HeldInv => SignedAsChecked
    BY HeldInvChecked
<1> QED BY <1>1, <1>2, <1>3, PTL DEF Spec
-----------------------------------------------------------------------------
(* What is written by an operation that succeeds. *)

\* The pieces that are there, or that an ignored failure excuses.
Kept == made \cup UNION {Excused(w) : w \in lost}

\* Success is the last step.
Ends(p) == \A i \in DOMAIN p : (p[i].op = "ok" => i = Len(p)) /\ (p[i].op # "ok" => Proper(p[i]))

\* Every piece that is asked for is kept already, or comes from a step that is still to be done.
PassInv ==
    /\ result = "none" =>
        /\ IsProgram(todo) /\ Lets(todo) /\ Ends(todo)
        /\ \A x \in Asked(op) : Has(todo, x) \/ x \in Kept
    /\ result = "ok" => Asked(op) \subseteq Kept

\* A program of one step.
LEMMA OneHas == ASSUME NEW o, NEW n, NEW w
    PROVE IsProgram(One(o, n, w)) /\ Len(One(o, n, w)) = 1 /\ DOMAIN One(o, n, w) = {1} /\ One(o, n, w)[1].op = o
          /\ One(o, n, w)[1].drop = -1
<1>1. IsProgram(One(o, n, w)) /\ Len(One(o, n, w)) = 1 /\ One(o, n, w)[1] = Step(o, n, w)
    BY OneIs, Zenon
<1>2. DOMAIN One(o, n, w) = {1}
    BY <1>1, ProgramIs
<1> QED BY <1>1, <1>2, StepIs

\* An operation starts with all its steps before it.
LEMMA InitPassInv == Init => PassInv
<1> SUFFICES ASSUME Init PROVE PassInv
    OBVIOUS
<1>1. op \in Ops /\ todo = Program(op) /\ result = "none"
    BY DEF Init
<1>2. PICK b : todo = b \o Ok /\ Fair(b) /\ \A x \in Asked(op) : Has(b, x)
    BY <1>1, ProgramDelivers DEF Delivers
<1>3. IsProgram(b) /\ Lets(b) /\ NoOk(b)
    BY <1>2 DEF Fair
<1>4. IsProgram(Ok) /\ Len(Ok) = 1 /\ DOMAIN Ok = {1} /\ Ok[1].op = "ok" /\ Ok[1].drop = -1
    <2>1. PICK o, n, w : Ok = One(o, n, w) /\ o = "ok"
        BY Zenon DEF Ok
    <2>2. IsProgram(One(o, n, w)) /\ Len(One(o, n, w)) = 1 /\ DOMAIN One(o, n, w) = {1} /\ One(o, n, w)[1].op = o
          /\ One(o, n, w)[1].drop = -1
        BY OneHas
    <2> QED BY <2>1, <2>2
<1>5. Ok[1].op = "ok" /\ Ok[1].drop = -1
    BY <1>4
<1>6. Lets(Ok)
    <2>1. \A i \in DOMAIN Ok : ~(Ok[i].drop >= 0)
        BY <1>4
    <2> QED BY <2>1 DEF Lets
<1>7. IsProgram(todo) /\ Lets(todo)
    BY <1>2, <1>3, <1>4, <1>6, JoinLets, JoinIs
<1>8. \A x \in Asked(op) : Has(todo, x)
    BY <1>2, <1>3, <1>4, JoinHas
<1>9. Ends(todo)
    <2>1. Len(b) \in Nat /\ DOMAIN b = 1 .. Len(b)
        BY <1>3, ProgramIs
    <2>2. /\ DOMAIN todo = 1 .. Len(todo) /\ Len(todo) = Len(b) + 1
          /\ \A i \in 1 .. Len(b) : todo[i] = b[i]
          /\ todo[Len(b) + 1] = Ok[1]
        <3>1. /\ Len(b \o Ok) = Len(b) + Len(Ok) /\ DOMAIN (b \o Ok) = 1 .. Len(b) + Len(Ok)
              /\ \A i \in 1 .. Len(b) + Len(Ok) : (b \o Ok)[i] = IF i <= Len(b) THEN b[i] ELSE Ok[i - Len(b)]
            BY <1>3, <1>4, JoinIs
        <3>2. PICK u, y : u = Len(b) /\ y = Ok
            OBVIOUS
        <3>3. /\ Len(todo) = u + 1 /\ DOMAIN todo = 1 .. u + 1 /\ u \in Nat
              /\ \A i \in 1 .. u + 1 : todo[i] = IF i <= u THEN b[i] ELSE y[i - u]
            BY <1>2, <1>4, <2>1, <3>1, <3>2
        <3>4. /\ DOMAIN todo = 1 .. Len(todo) /\ Len(todo) = u + 1
              /\ \A i \in 1 .. u : todo[i] = b[i]
              /\ todo[u + 1] = y[1]
            <4>1. \A i \in 1 .. u : i \in 1 .. u + 1 /\ i <= u
                BY <3>3
            <4>2. u + 1 \in 1 .. u + 1 /\ ~(u + 1 <= u) /\ (u + 1) - u = 1
                BY <3>3
            <4> QED BY <3>3, <4>1, <4>2, Zenon
        <3> QED BY <3>2, <3>4, Zenon
    <2>3. \A i \in 1 .. Len(b) : Proper(todo[i]) /\ todo[i].op # "ok"
        BY <1>3, <2>1, <2>2 DEF NoOk, Proper
    <2>4. ASSUME NEW i \in DOMAIN todo
          PROVE (todo[i].op = "ok" => i = Len(todo)) /\ (todo[i].op # "ok" => Proper(todo[i]))
        <3>1. i \in 1 .. Len(b) \/ i = Len(b) + 1
            BY <2>1, <2>2
        <3> QED BY <1>5, <2>2, <2>3, <3>1
    <2> QED BY <2>4 DEF Ends
<1> QED BY <1>1, <1>7, <1>8, <1>9 DEF PassInv

\* The steps from the m-th on.
LEMMA RestPass == ASSUME NEW p, IsProgram(p), Lets(p), Ends(p), NEW m \in Nat \ {0}, NEW r, r = SubSeq(p, m, Len(p))
    PROVE /\ IsProgram(r) /\ Lets(r) /\ Ends(r)
          /\ \A x : Has(p, x) => Has(r, x) \/ \E i \in DOMAIN p : i < m /\ (p[i].op = "fail" \/ x \in Gives(p[i]))
<1>1. /\ IsProgram(r) /\ DOMAIN r = 1 .. Len(r) /\ Len(r) = (IF m <= Len(p) THEN Len(p) - m + 1 ELSE 0)
      /\ \A i \in 1 .. Len(r) : r[i] = p[m + i - 1] /\ m + i - 1 \in DOMAIN p
    BY RestIs
<1>2. Len(p) \in Nat /\ DOMAIN p = 1 .. Len(p) /\ Len(r) \in Nat
    BY <1>1, ProgramIs
<1>3. Lets(r)
    <2> SUFFICES ASSUME NEW i \in DOMAIN r, r[i].drop >= 0, r[i].op # "pop"
                 PROVE /\ r[i].op # "data" /\ i + r[i].drop <= Len(r)
                       /\ \A j \in i .. i + r[i].drop : Gives(r[j]) \subseteq Excused(r[i].what) /\ r[j].op # "fail"
        BY DEF Lets
    <2>0. i \in 1 .. Len(r) /\ i \in Nat /\ i >= 1 /\ m <= Len(p)
        BY <1>1, <1>2
    <2>a. r[i] = p[m + i - 1] /\ m + i - 1 \in DOMAIN p
        BY <1>1, <2>0
    <2>b. IsStep(r[i])
        BY <1>1 DEF IsProgram
    <2>1. i \in Nat /\ i >= 1 /\ r[i] = p[m + i - 1] /\ m + i - 1 \in DOMAIN p /\ r[i].drop \in Int /\ m <= Len(p)
        BY <2>0, <2>a, <2>b DEF IsStep
    <2>2. /\ r[i].op # "data" /\ m + i - 1 + r[i].drop <= Len(p)
          /\ \A j \in m + i - 1 .. m + i - 1 + r[i].drop : Gives(p[j]) \subseteq Excused(r[i].what) /\ p[j].op # "fail"
        BY <2>1 DEF Lets
    <2>3. i + r[i].drop <= Len(r)
        BY <1>1, <1>2, <2>1, <2>2
    <2>4. ASSUME NEW j \in i .. i + r[i].drop PROVE Gives(r[j]) \subseteq Excused(r[i].what) /\ r[j].op # "fail"
        <3>1. j \in 1 .. Len(r) /\ m + j - 1 \in m + i - 1 .. m + i - 1 + r[i].drop
            <4>1. PICK d : d = r[i].drop
                OBVIOUS
            <4>2. d \in Int /\ i \in Nat /\ i >= 1 /\ m \in Nat /\ i + d <= Len(r) /\ Len(r) \in Nat /\ j \in i .. i + d
                BY <1>2, <2>1, <2>3, <4>1
            <4>3. j \in 1 .. Len(r) /\ m + j - 1 \in m + i - 1 .. m + i - 1 + d
                BY <4>2
            <4> QED BY <4>1, <4>3
        <3>2. r[j] = p[m + j - 1]
            BY <1>1, <3>1
        <3> QED BY <2>2, <3>1, <3>2
    <2> QED BY <2>2, <2>3, <2>4
<1>4. Ends(r)
    <2> SUFFICES ASSUME NEW i \in DOMAIN r
                 PROVE (r[i].op = "ok" => i = Len(r)) /\ (r[i].op # "ok" => Proper(r[i]))
        BY DEF Ends
    <2>1. r[i] = p[m + i - 1] /\ m + i - 1 \in DOMAIN p /\ i \in Nat /\ m <= Len(p)
        BY <1>1, <1>2
    <2>2. (r[i].op = "ok" => m + i - 1 = Len(p)) /\ (r[i].op # "ok" => Proper(r[i]))
        BY <2>1 DEF Ends
    <2>3. m + i - 1 = Len(p) => i = Len(r)
        BY <1>1, <1>2, <2>1
    <2> QED BY <2>2, <2>3
<1>5. ASSUME NEW x, Has(p, x)
      PROVE Has(r, x) \/ \E i \in DOMAIN p : i < m /\ (p[i].op = "fail" \/ x \in Gives(p[i]))
    <2>1. PICK i \in DOMAIN p : p[i].op = "fail" \/ x \in Gives(p[i])
        BY <1>5 DEF Has
    <2>2. CASE i < m
        BY <2>1, <2>2
    <2>3. CASE ~(i < m)
        <3>1. i - m + 1 \in 1 .. Len(r) /\ m + (i - m + 1) - 1 = i
            BY <1>1, <1>2, <2>3
        <3>2. r[i - m + 1] = p[i]
            BY <1>1, <3>1
        <3> QED BY <1>1, <2>1, <3>1, <3>2 DEF Has
    <2> QED BY <2>2, <2>3
<1> QED BY <1>1, <1>3, <1>4, <1>5

\* What is kept stays kept.
LEMMA KeptGrows == ASSUME made \subseteq made', lost \subseteq lost' PROVE Kept \subseteq Kept'
<1>1. Kept' = made' \cup UNION {Excused(w) : w \in lost'}
    BY DEF Kept, Excused
<1> QED BY <1>1 DEF Kept

\* The same operation asks for the same pieces.
LEMMA AskedSame == ASSUME op' = op PROVE Asked(op)' = Asked(op)
BY DEF Asked

\* The next step, and what is known of it.
LEMMA PassNow == ASSUME PassInv, result = "none", todo # <<>>
    PROVE /\ IsProgram(todo) /\ Lets(todo) /\ Ends(todo) /\ 1 \in DOMAIN todo /\ Now = todo[1] /\ Now.drop \in Int
          /\ Tail(todo) = SubSeq(todo, 2, Len(todo)) /\ \A x \in Asked(op) : Has(todo, x) \/ x \in Kept
<1>1. IsProgram(todo) /\ Lets(todo) /\ Ends(todo) /\ \A x \in Asked(op) : Has(todo, x) \/ x \in Kept
    BY DEF PassInv
<1>2. 1 \in DOMAIN todo /\ Now = todo[1] /\ Tail(todo) = SubSeq(todo, 2, Len(todo)) /\ IsStep(todo[1])
    BY <1>1, TailIs DEF Now
<1>3. Now.drop \in Int
    BY <1>2 DEF IsStep
<1> QED BY <1>1, <1>2, <1>3

\* A step that is done, or ignored.
LEMMA PassRest ==
    ASSUME PassInv, result = "none", todo # <<>>, op' = op, made \subseteq made', lost \subseteq lost',
           NEW m \in Nat \ {0}, todo' = SubSeq(todo, m, Len(todo)), result' = "none",
           \A i \in DOMAIN todo : i < m => todo[i].op # "fail" /\ Gives(todo[i]) \cap Asked(op) \subseteq Kept'
    PROVE  PassInv'
<1>1. IsProgram(todo) /\ Lets(todo) /\ Ends(todo) /\ \A x \in Asked(op) : Has(todo, x) \/ x \in Kept
    BY PassNow
<1>2. /\ IsProgram(todo') /\ Lets(todo') /\ Ends(todo')
      /\ \A x : Has(todo, x) =>
             Has(todo', x) \/ \E i \in DOMAIN todo : i < m /\ (todo[i].op = "fail" \/ x \in Gives(todo[i]))
    BY <1>1, RestPass
<1>3. Kept \subseteq Kept' /\ Asked(op)' = Asked(op)
    BY KeptGrows, AskedSame
<1>4. ASSUME NEW x \in Asked(op) PROVE Has(todo', x) \/ x \in Kept'
    BY <1>1, <1>2, <1>3, <1>4
<1>5. (IsProgram(todo) /\ Lets(todo) /\ Ends(todo))'
    BY <1>2 DEF IsProgram, IsStep, Lets, Ends, Proper, Gives, Excused
<1>6. (\A x \in Asked(op) : Has(todo, x) \/ x \in Kept)'
    BY <1>3, <1>4 DEF Has, Gives
<1> QED BY <1>5, <1>6 DEF PassInv

\* A step that is done.
LEMMA PassDone ==
    ASSUME PassInv, result = "none", todo # <<>>, op' = op, made \subseteq made', lost \subseteq lost',
           todo' = Tail(todo), result' = "none", Now.op # "fail", Gives(Now) \cap Asked(op) \subseteq Kept'
    PROVE  PassInv'
<1>1. 1 \in DOMAIN todo /\ Now = todo[1] /\ todo' = SubSeq(todo, 2, Len(todo)) /\ IsProgram(todo)
    BY PassNow
<1>2. \A i \in DOMAIN todo : i < 2 => i = 1
    BY <1>1, ProgramIs
<1>3. 2 \in Nat \ {0}
    OBVIOUS
<1> QED BY <1>1, <1>2, <1>3, PassRest

\* A step whose failure is ignored.
LEMMA PassIgnored ==
    ASSUME PassInv, result = "none", todo # <<>>, op' = op, made \subseteq made', lost' = lost \cup {Now.what},
           Now.drop >= 0, Now.op # "pop", todo' = SubSeq(todo, Now.drop + 2, Len(todo)), result' = "none"
    PROVE  PassInv'
<1>1. 1 \in DOMAIN todo /\ Now = todo[1] /\ Now.drop \in Int /\ Lets(todo) /\ IsProgram(todo)
    BY PassNow
<1>2. \A j \in 1 .. 1 + Now.drop : Gives(todo[j]) \subseteq Excused(Now.what) /\ todo[j].op # "fail"
    BY <1>1 DEF Lets
<1>3. \A i \in DOMAIN todo : i < Now.drop + 2 => i \in 1 .. 1 + Now.drop
    BY <1>1, ProgramIs
<1>4. Excused(Now.what) \subseteq Kept'
    <2>1. Kept' = made' \cup UNION {Excused(w) : w \in lost'}
        BY DEF Kept, Excused
    <2> QED BY <2>1
<1>5. Now.drop + 2 \in Nat \ {0}
    BY <1>1
<1> QED BY <1>2, <1>3, <1>4, <1>5, PassRest

\* A step that may fail.
LEMMA PassAfter ==
    ASSUME PassInv, result = "none", todo # <<>>, op' = op, NEW ok \in BOOLEAN, NEW fault, After(ok, fault),
           ok => Now.op # "fail", ~ok => Now.op # "pop"
    PROVE  PassInv'
<1>1. /\ todo' = IF ok THEN Tail(todo)
                 ELSE IF Now.drop >= 0 THEN SubSeq(todo, Now.drop + 2, Len(todo)) ELSE Pops(Now.pops) \o AtEnd(FALSE)
      /\ result' = IF ok \/ Now.drop >= 0 \/ result # "none" THEN result ELSE "failed"
      /\ lost' = (IF ok \/ Now.drop < 0 THEN lost ELSE lost \cup {Now.what})
      /\ made' = (IF ok THEN made \cup Gives(Now) ELSE made)
    BY Zenon DEF After, Proceed
<1>2. Now.drop \in Int
    BY PassNow
<1>3. CASE ok
    <2>1. todo' = Tail(todo) /\ result' = "none" /\ lost' = lost /\ made' = made \cup Gives(Now)
        BY <1>1, <1>3, Zenon
    <2>2. Gives(Now) \subseteq Kept'
        BY <2>1 DEF Kept
    <2> QED BY <1>3, <2>1, <2>2, PassDone
<1>4. CASE ~ok /\ Now.drop >= 0
    <2>1. ~(Now.drop < 0)
        BY <1>2, <1>4
    <2>2. /\ todo' = SubSeq(todo, Now.drop + 2, Len(todo)) /\ result' = "none" /\ lost' = lost \cup {Now.what}
          /\ made' = made
        BY <1>1, <1>4, <2>1, Zenon
    <2> QED BY <1>4, <2>2, PassIgnored
<1>5. CASE ~ok /\ ~(Now.drop >= 0)
    <2>1. result' = "failed"
        BY <1>1, <1>5, Zenon
    <2> QED BY <2>1 DEF PassInv
<1> QED BY <1>3, <1>4, <1>5

\* The steps that say by themselves what they give.
AfterStep ==
    \/ Write \/ PacketDone \/ Attempt \/ Unsupported \/ pgp_writer_push \/ pgp_writer_pop \/ Setup \/ SigMemory
    \/ SigWrite \/ SigNote \/ PlainWrite \/ TeardownFile \/ pgp_memory_free \/ Loaded \/ pgp_key_free_data
Tried(ok, fault) == After(ok, fault) /\ (ok => Now.op # "fail") /\ (~ok => Now.op # "pop")
LEMMA AfterSteps == ASSUME AfterStep
    PROVE todo # <<>> /\ op' = op /\ \E ok, fault \in BOOLEAN : Tried(ok, fault)
<1>1. ASSUME NEW S, At(S) PROVE todo # <<>> /\ Now.op \in S
    BY <1>1 DEF At, Now
<1>2. ASSUME NEW S, At(S), "fail" \notin S, "pop" \notin S, NEW ok \in Outcomes, After(ok, ~ok)
      PROVE \E o, fault \in BOOLEAN : Tried(o, fault)
    <2>1. Now.op # "fail" /\ Now.op # "pop"
        BY <1>1, <1>2
    <2>2. ok \in BOOLEAN /\ (~ok) \in BOOLEAN
        BY DEF Outcomes
    <2>3. Tried(ok, ~ok)
        BY <1>2, <2>1, Zenon DEF Tried
    <2> QED BY <2>2, <2>3
<1>3. ASSUME NEW S, At(S), "fail" \notin S, Goes PROVE \E o, fault \in BOOLEAN : Tried(o, fault)
    <2>1. Now.op # "fail"
        BY <1>1, <1>3
    <2>2. Tried(TRUE, FALSE)
        BY <1>3, <2>1, Zenon DEF Tried, Goes
    <2> QED BY <2>2
<1>4. CASE Write
    <2>1. At({"write", "tag", "length", "siglength", "sigbody"}) /\ op' = op /\ \E ok \in Outcomes : After(ok, ~ok)
        BY <1>4, Zenon DEF Write
    <2> QED BY <1>1, <1>2, <2>1
<1>5. CASE PacketDone
    <2>1. At({"packet"}) /\ op' = op /\ Goes
        BY <1>5, Zenon DEF PacketDone
    <2> QED BY <1>1, <1>3, <2>1
<1>6. CASE Attempt
    <2>1. At({"try"}) /\ op' = op /\ \E ok \in Outcomes : After(ok, ~ok)
        BY <1>6, Zenon DEF Attempt
    <2> QED BY <1>1, <1>2, <2>1
<1>7. CASE Unsupported
    <2>1. At({"fail"}) /\ op' = op /\ After(FALSE, FALSE)
        BY <1>7, Zenon DEF Unsupported
    <2>2. todo # <<>> /\ Now.op = "fail"
        BY <1>1, <2>1
    <2>3. Tried(FALSE, FALSE)
        BY <2>1, <2>2, Zenon DEF Tried
    <2> QED BY <2>1, <2>2, <2>3
<1>8. CASE pgp_writer_push
    <2>1. At({"push"}) /\ op' = op /\ \E ok \in Outcomes : After(ok, ~ok)
        BY <1>8, Zenon DEF pgp_writer_push
    <2> QED BY <1>1, <1>2, <2>1
<1>9. CASE pgp_writer_pop
    <2>1. At({"pop"}) /\ op' = op /\ Goes
        BY <1>9, Zenon DEF pgp_writer_pop
    <2> QED BY <1>1, <1>3, <2>1
<1>10. CASE Setup
    <2>1. At({"open", "memory"}) /\ op' = op /\ \E ok \in Outcomes : After(ok, ~ok)
        BY <1>10, Zenon DEF Setup
    <2> QED BY <1>1, <1>2, <2>1
<1>11. CASE SigMemory
    <2>1. At({"sigmem"}) /\ op' = op /\ \E ok \in Outcomes : After(ok, ~ok)
        BY <1>11, Zenon DEF SigMemory
    <2> QED BY <1>1, <1>2, <2>1
<1>12. CASE SigWrite
    <2>1. At({"sig"}) /\ op' = op /\ \E ok \in Outcomes : After(ok, ~ok)
        BY <1>12, Zenon DEF SigWrite
    <2> QED BY <1>1, <1>2, <2>1
<1>13. CASE SigNote
    <2>1. At({"signew", "hashoff", "hashlen", "unhashed", "hash"}) /\ op' = op
        BY <1>13, Zenon DEF SigNote
    <2>2. PICK ok : ok = ~(Now.op = "unhashed" /\ sig.hashlen = -1)
        OBVIOUS
    <2>3. After(ok, FALSE) /\ ok \in BOOLEAN
        BY <1>13, <2>2, Zenon DEF SigNote
    <2>4. todo # <<>> /\ Now.op # "fail" /\ Now.op # "pop"
        BY <1>1, <2>1
    <2>5. Tried(ok, FALSE)
        BY <2>3, <2>4, Zenon DEF Tried
    <2> QED BY <2>1, <2>3, <2>4, <2>5
<1>14. CASE PlainWrite
    <2>1. At({"data"}) /\ op' = op /\ \E ok \in Outcomes : After(ok, ~ok)
        BY <1>14, Zenon DEF PlainWrite
    <2> QED BY <1>1, <1>2, <2>1
<1>15. CASE TeardownFile
    <2>1. At({"closefd"}) /\ op' = op /\ Goes
        BY <1>15, Zenon DEF TeardownFile
    <2> QED BY <1>1, <1>3, <2>1
<1>16. CASE pgp_memory_free
    <2>1. At({"free"}) /\ op' = op /\ Goes
        BY <1>16, Zenon DEF pgp_memory_free
    <2> QED BY <1>1, <1>3, <2>1
<1>17. CASE Loaded
    <2>1. At({"loaded"}) /\ op' = op /\ Goes
        BY <1>17, Zenon DEF Loaded
    <2> QED BY <1>1, <1>3, <2>1
<1>18. CASE pgp_key_free_data
    <2>1. At({"freekeys"}) /\ op' = op /\ Goes
        BY <1>18, Zenon DEF pgp_key_free_data
    <2> QED BY <1>1, <1>3, <2>1
<1> QED BY <1>4, <1>5, <1>6, <1>7, <1>8, <1>9, <1>10, <1>11, <1>12, <1>13, <1>14, <1>15, <1>16, <1>17, <1>18, Zenon
        DEF AfterStep

\* Pieces of data that an ignored failure of their packets excuses.
LEMMA DataExcused ==
    ASSUME PassInv, HeldInv, result = "none", At({"data"}), Top # "dash"
    PROVE  Gives(Now) \cap Asked(op) \subseteq {"data"} /\ ~(Now.drop >= 0) /\ todo # <<>> /\ Now.op = "data"
<1>1. PICK a, e : Live(a, e)
    BY DEF HeldInv
<1>2. todo # <<>> /\ Now.op = "data" /\ ~(Now.drop >= 0) /\ Encrypts(op)
    BY <1>1, DataIs
<1>3. Now.what \in {"data", "text"}
    <2>1. Ends(todo) /\ 1 \in DOMAIN todo /\ Now = todo[1]
        BY <1>2, PassNow
    <2>2. Now.op # "ok"
        BY <1>2
    <2>3. Proper(Now)
        BY <2>1, <2>2 DEF Ends
    <2> QED BY <1>2, <2>3 DEF Proper
<1>4. Gives(Now) \subseteq {"data", "text"}
    BY <1>2, <1>3 DEF Gives
<1>5. Asked(op) \subseteq {"session key", "cipher", "data"}
    BY <1>2 DEF Encrypts, Asked
<1> QED BY <1>2, <1>4, <1>5

\* Data that goes out under a cipher: its pieces are there, or its failure passes for them.
LEMMA PassData ==
    ASSUME PassInv, HeldInv, result = "none", At({"data"}), Top # "dash", op' = op, NEW ok \in BOOLEAN, NEW fault,
           Proceed(ok, fault), made \subseteq made', lost \subseteq lost',
           ok => Gives(Now) \subseteq made' \/ \E w \in lost' : "data" \in Excused(w)
    PROVE  PassInv'
<1>1. Gives(Now) \cap Asked(op) \subseteq {"data"} /\ ~(Now.drop >= 0) /\ todo # <<>> /\ Now.op # "fail"
    BY DataExcused
<1>2. /\ todo' = IF ok THEN Tail(todo)
                 ELSE IF Now.drop >= 0 THEN SubSeq(todo, Now.drop + 2, Len(todo)) ELSE Pops(Now.pops) \o AtEnd(FALSE)
      /\ result' = IF ok \/ Now.drop >= 0 \/ result # "none" THEN result ELSE "failed"
    BY Zenon DEF Proceed
<1>3. CASE ok
    <2>1. todo' = Tail(todo) /\ result' = "none"
        BY <1>2, <1>3, Zenon
    <2>2. Kept' = made' \cup UNION {Excused(w) : w \in lost'}
        BY DEF Kept, Excused
    <2>3. Gives(Now) \cap Asked(op) \subseteq Kept'
        BY <1>1, <1>3, <2>2
    <2> QED BY <1>1, <2>1, <2>3, PassDone
<1>4. CASE ~ok
    <2>1. result' = "failed"
        BY <1>1, <1>2, <1>4, Zenon
    <2> QED BY <2>1 DEF PassInv
<1> QED BY <1>3, <1>4

\* What a stream may lose is data.
LEMMA LostIsData == \A w \in {"literal", "encrypted", "stream write", "rng", "file name"} : "data" \in Excused(w)
BY DEF Excused

\* A packet that is written at once.
LEMMA PassSeIp == ASSUME PassInv, HeldInv, result = "none", encrypt_se_ip_writer PROVE PassInv'
<1>1. At({"data"}) /\ Top = "se_ip" /\ op' = op
    BY Zenon DEF encrypt_se_ip_writer
<1>2. PICK f, lit, z, local : SeIpWritten(f, lit, z, local)
    BY Zenon DEF encrypt_se_ip_writer
<1> DEFINE ok == f # "memory" /\ lit > Now.n /\ local > z
           whole == ok /\ f \notin {"literal", "encrypted"}
<1>3. /\ Proceed(ok, f # "none") /\ ok \in BOOLEAN
      /\ lost' = IF ok /\ f # "none" THEN lost \cup {f} ELSE lost
      /\ made' = IF whole THEN made \cup Gives(Now) ELSE made
    BY <1>2, Zenon DEF SeIpWritten
<1>4. whole <=> ok /\ f \notin {"literal", "encrypted"}
    OBVIOUS
<1> HIDE DEF ok, whole
<1>5. made \subseteq made' /\ lost \subseteq lost'
    BY <1>3
<1>6. ASSUME ok PROVE Gives(Now) \subseteq made' \/ \E w \in lost' : "data" \in Excused(w)
    <2>1. CASE whole
        BY <1>3, <2>1
    <2>2. CASE ~whole
        <3>1. f \in {"literal", "encrypted"}
            BY <1>4, <1>6, <2>2
        <3>2. f \in lost'
            BY <1>3, <1>6, <3>1
        <3> QED BY <3>1, <3>2, LostIsData
    <2> QED BY <2>1, <2>2
<1>7. Top # "dash"
    BY <1>1
<1> QED BY <1>1, <1>3, <1>5, <1>6, <1>7, PassData

\* Data in parts.
LEMMA PassStream == ASSUME PassInv, HeldInv, result = "none", StreamWrite PROVE PassInv'
<1>1. At({"data"}) /\ Top = "stream" /\ op' = op
    BY Zenon DEF StreamWrite
<1> DEFINE Ignored2(f) ==
             (IF f \in {"none", "memory"} THEN {} ELSE {f}) \cup (IF FirstParts /\ NameTooLong THEN {"file name"} ELSE {})
<1>2. PICK f \in Faults(StreamFaults) :
        /\ Proceed(f # "memory", f # "none")
        /\ lost' = IF f = "memory" THEN lost ELSE lost \cup Ignored2(f)
        /\ made' = IF f # "memory" /\ Ignored2(f) \subseteq {"crypt"} THEN made \cup Gives(Now) ELSE made
    BY Zenon DEF StreamWrite
<1>3. f \in {"none", "memory", "crypt", "stream write", "rng"}
    BY <1>2 DEF Faults, StreamFaults
<1>4. Ignored2(f) \subseteq {"crypt", "stream write", "rng", "file name"}
    BY <1>3
<1> HIDE DEF Ignored2
<1>5. made \subseteq made' /\ lost \subseteq lost'
    BY <1>2
<1>6. ASSUME f # "memory" PROVE Gives(Now) \subseteq made' \/ \E w \in lost' : "data" \in Excused(w)
    <2>1. CASE Ignored2(f) \subseteq {"crypt"}
        BY <1>2, <1>6, <2>1
    <2>2. CASE ~(Ignored2(f) \subseteq {"crypt"})
        <3>1. PICK w \in Ignored2(f) : w # "crypt"
            BY <2>2
        <3>2. w \in {"stream write", "rng", "file name"} /\ w \in lost'
            BY <1>2, <1>4, <1>6, <3>1
        <3> QED BY <3>2, LostIsData
    <2> QED BY <2>1, <2>2
<1>7. Top # "dash" /\ (f # "memory") \in BOOLEAN
    BY <1>1
<1> QED BY <1>1, <1>2, <1>5, <1>6, <1>7, PassData

\* The finalisers give nothing that is asked for.
LEMMA FinalisedKeeps == ASSUME Finalised PROVE todo' = Tail(todo) /\ made \subseteq made' /\ lost \subseteq lost'
<1>1. todo' = Tail(todo)
    BY Zenon DEF Finalised
<1>2. made \subseteq made'
    BY DEF Finalised
<1>3. lost \subseteq lost'
    BY DEF Finalised
<1> QED BY <1>1, <1>2, <1>3

\* Nothing that was written or lost is forgotten.
LEMMA NextKeeps == ASSUME Next PROVE op' = op /\ made \subseteq made' /\ lost \subseteq lost'
<1>1. ASSUME AfterStep PROVE op' = op /\ made \subseteq made' /\ lost \subseteq lost'
    <2>1. op' = op /\ \E ok, fault \in BOOLEAN : Tried(ok, fault)
        BY <1>1, AfterSteps
    <2>2. PICK ok, fault \in BOOLEAN : After(ok, fault)
        BY <2>1 DEF Tried
    <2>3. /\ lost' = (IF ok \/ Now.drop < 0 THEN lost ELSE lost \cup {Now.what})
          /\ made' = (IF ok THEN made \cup Gives(Now) ELSE made)
        BY <2>2, Zenon DEF After
    <2> QED BY <2>1, <2>3, Zenon
<1>2. ASSUME Succeed \/ NullWrite \/ Done PROVE op' = op /\ made \subseteq made' /\ lost \subseteq lost'
    BY <1>2 DEF Succeed, NullWrite, Done, vars
<1>3. ASSUME encrypt_se_ip_writer PROVE op' = op /\ made \subseteq made' /\ lost \subseteq lost'
    <2>1. PICK f, lit, z, local : SeIpWritten(f, lit, z, local)
        BY <1>3, Zenon DEF encrypt_se_ip_writer
    <2>2. made \subseteq made' /\ lost \subseteq lost'
        BY <2>1, Zenon DEF SeIpWritten
    <2>3. op' = op
        BY <1>3, Zenon DEF encrypt_se_ip_writer
    <2> QED BY <2>2, <2>3
<1>4. ASSUME StreamWrite PROVE op' = op /\ made \subseteq made' /\ lost \subseteq lost'
    BY <1>4, Zenon DEF StreamWrite
<1>5. ASSUME pgp_writer_info_finalise \/ pgp_writer_close PROVE op' = op /\ made \subseteq made' /\ lost \subseteq lost'
    <2>1. Finalised /\ op' = op
        BY <1>5, Zenon DEF pgp_writer_info_finalise, pgp_writer_close
    <2> QED BY <2>1, FinalisedKeeps
<1> QED BY <1>1, <1>2, <1>3, <1>4, <1>5, Zenon DEF Next, AfterStep

\* A step of an operation that goes on.
LEMMA PassLive == ASSUME PassInv, HeldInv, result = "none", Next PROVE PassInv'
<1>1. op' = op /\ made \subseteq made' /\ lost \subseteq lost'
    BY NextKeeps
<1>2. CASE AfterStep
    <2>1. todo # <<>> /\ \E ok, fault \in BOOLEAN : Tried(ok, fault)
        BY <1>2, AfterSteps
    <2>2. PICK ok, fault \in BOOLEAN : After(ok, fault) /\ (ok => Now.op # "fail") /\ (~ok => Now.op # "pop")
        BY <2>1 DEF Tried
    <2> QED BY <1>1, <2>1, <2>2, PassAfter
<1>3. CASE encrypt_se_ip_writer \/ StreamWrite
    BY <1>3, PassSeIp, PassStream
<1>4. CASE Succeed
    <2>1. todo # <<>> /\ Now.op = "ok" /\ result' = "ok" /\ made' = made /\ lost' = lost
        BY <1>4 DEF Succeed, At, Now
    <2>2. /\ IsProgram(todo) /\ Ends(todo) /\ 1 \in DOMAIN todo /\ Now = todo[1]
          /\ \A x \in Asked(op) : Has(todo, x) \/ x \in Kept
        BY <2>1, PassNow
    <2>3. Len(todo) = 1 /\ DOMAIN todo = 1 .. Len(todo)
        BY <2>1, <2>2, ProgramIs DEF Ends
    <2>4. \A i \in DOMAIN todo : todo[i] = Now
        BY <2>2, <2>3
    <2>5. Gives(Now) = {}
        BY <2>1 DEF Gives
    <2>6. \A x : ~Has(todo, x)
        BY <2>1, <2>4, <2>5 DEF Has
    <2>7. Asked(op)' \subseteq Kept'
        BY <1>1, <2>2, <2>6, AskedSame, KeptGrows
    <2> QED BY <2>1, <2>7 DEF PassInv
<1>5. CASE NullWrite
    BY <1>5 DEF NullWrite, PassInv
<1>6. CASE pgp_writer_info_finalise \/ pgp_writer_close
    <2>1. todo # <<>> /\ Now.op \in {"finalise", "close"} /\ Finalised /\ result' = "none"
        BY <1>6, Zenon DEF pgp_writer_info_finalise, pgp_writer_close, At, Now
    <2>2. Gives(Now) = {} /\ Now.op # "fail"
        BY <2>1 DEF Gives
    <2>3. todo' = Tail(todo)
        BY <2>1, FinalisedKeeps
    <2> QED BY <1>1, <2>1, <2>2, <2>3, PassDone
<1>7. CASE Done
    <2>1. todo # <<>>
        <3>1. PICK a, e : Live(a, e)
            BY DEF HeldInv
        <3> QED BY <3>1, LiveGoesOn
    <2> QED BY <1>7, <2>1 DEF Done
<1> QED BY <1>2, <1>3, <1>4, <1>5, <1>6, <1>7, Zenon DEF Next, AfterStep

\* After the end the result stays.
LEMMA PassPost == ASSUME PassInv, HeldInv, result \in {"ok", "failed"}, Next PROVE PassInv'
<1>1. op' = op /\ made \subseteq made' /\ lost \subseteq lost'
    BY NextKeeps
<1>2. PICK n : Post(n)
    BY DEF HeldInv
<1>3. result' = result
    <2>1. ~Succeed /\ ~NullWrite
        <3>1. ASSUME At({"ok", "sig"}) PROVE FALSE
            <4>1. todo # <<>> /\ Now.op \in {"ok", "sig"}
                BY <3>1 DEF At, Now
            <4>2. Now.op \in EndOps \cup {"pop"}
                BY <1>2, <4>1, PostNow
            <4> QED BY <4>1, <4>2 DEF EndOps
        <3> QED BY <3>1 DEF Succeed, NullWrite, At
    <2>2. ASSUME AfterStep PROVE result' = result
        <3>1. \E ok, fault \in BOOLEAN : Tried(ok, fault)
            BY <2>2, AfterSteps
        <3>2. PICK ok, fault \in BOOLEAN : Proceed(ok, fault)
            BY <3>1 DEF Tried, After
        <3>3. result' = IF ok \/ Now.drop >= 0 \/ result # "none" THEN result ELSE "failed"
            BY <3>2, Zenon DEF Proceed
        <3>4. result # "none"
            OBVIOUS
        <3> QED BY <3>3, <3>4, Zenon
    <2>3. ASSUME encrypt_se_ip_writer \/ StreamWrite PROVE FALSE
        <3>1. At({"data"})
            BY <2>3, Zenon DEF encrypt_se_ip_writer, StreamWrite
        <3>2. todo # <<>> /\ Now.op = "data"
            BY <3>1 DEF At, Now
        <3>3. Now.op \in EndOps \cup {"pop"}
            BY <1>2, <3>2, PostNow
        <3> QED BY <3>2, <3>3 DEF EndOps
    <2>4. ASSUME pgp_writer_info_finalise \/ pgp_writer_close \/ Done PROVE result' = result
        BY <2>4, Zenon DEF pgp_writer_info_finalise, pgp_writer_close, Done, vars
    <2> QED BY <2>1, <2>2, <2>3, <2>4, Zenon DEF Next, AfterStep
<1>4. result = "ok" => Asked(op)' \subseteq Kept'
    BY <1>1, AskedSame, KeptGrows DEF PassInv
<1> QED BY <1>3, <1>4 DEF PassInv

\* Every step keeps the invariant.
LEMMA NextPassInv == ASSUME PassInv, HeldInv, [Next]_vars PROVE PassInv'
<1>1. CASE UNCHANGED vars
    <2>1. todo' = todo /\ op' = op /\ result' = result /\ made' = made /\ lost' = lost
        BY <1>1, Zenon DEF vars
    <2>2. Kept' = Kept /\ Asked(op)' = Asked(op)
        BY <2>1, AskedSame DEF Kept, Excused
    <2>3. IsProgram(todo)' = IsProgram(todo) /\ Lets(todo)' = Lets(todo) /\ Ends(todo)' = Ends(todo)
        BY <2>1, Zenon
    <2>4. \A x : Has(todo, x)' = Has(todo, x)
        BY <2>1, Zenon
    <2> QED BY <2>1, <2>2, <2>3, <2>4, Zenon DEF PassInv
<1>2. CASE Next
    <2>1. CASE result = "crashed"
        <3>1. todo = <<>>
            BY <2>1 DEF HeldInv
        <3>2. result' = result
            BY <1>2, <3>1, CrashedNext DEF vars
        <3> QED BY <2>1, <3>2 DEF PassInv
    <2> QED BY <1>2, <2>1, PassLive, PassPost DEF HeldInv
<1> QED BY <1>1, <1>2

\* An operation that reports success has written every piece it was asked for, for every
\* key, text, setting and choice of failures: packets, signatures, keys, and the data that
\* were to be signed or encrypted.  What may be missing is what Excused names for a failure
\* that the code passes over there, and no failure excuses a session key or a signature.
THEOREM SuccessMeansWritten == Spec => []PiecesWritten
<1>1. Init => HeldInv /\ PassInv
    BY InitHeldInv, InitPassInv
<1>2. HeldInv /\ PassInv /\ [Next]_vars => HeldInv' /\ PassInv'
    BY NextHeldInv, NextPassInv
<1>3. PassInv => PiecesWritten
    BY DEF PassInv, PiecesWritten, Kept
<1> QED BY <1>1, <1>2, <1>3, PTL DEF Spec
=============================================================================
