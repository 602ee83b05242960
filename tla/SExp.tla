-------------------------------- MODULE SExp --------------------------------
(***************************************************************************)
(* The s-expressions of G10 key files (key_store_g10.c).  A file is a      *)
(* sequence of tokens: the two parentheses, blocks with their length in    *)
(* front, and bytes that are neither (the padding).  A list is a sequence  *)
(* of elements that are blocks or lists.                                   *)
(*                                                                         *)
(* A block has a kind and a value.  Names of one letter and numbers are    *)
(* bytes, and may be equal; the kind of a long word is the word; salts,    *)
(* vectors, times, check sums and encrypted data have kinds of their own,  *)
(* which stand for their lengths.                                          *)
(***************************************************************************)
EXTENDS Integers, Sequences, SequencesExt, FiniteSetsExt

Open == [t |-> "("]
Close == [t |-> ")"]
Pad == [t |-> "X"]
Bytes(v) == [kind |-> "bytes", v |-> v]
Word(w) == [kind |-> w, v |-> <<1>>]

Block(b) == [blk |-> TRUE, b |-> b]
List(s) == [blk |-> FALSE, s |-> s]

\* Equal bytes of equal length; check sums and encrypted data are never beside others.
SameBlock(a, b) ==
    a.kind = b.kind /\ a.kind \notin {"digest", "cipher"} /\ a.v = b.v

\* A block that the list has already is not added again.
add_block_to_sexp(e, b) ==
    IF \E i \in DOMAIN e : e[i].blk /\ SameBlock(e[i].b, b) THEN e ELSE Append(e, Block(b))
add_sub_sexp_to_sexp(e, s) == Append(e, List(s))
Blocks(bs) == FoldLeft(add_block_to_sexp, <<>>, bs)

RECURSIVE write_sexp(_)
write_sexp(e) ==
    <<Open>> \o FlattenSeq([i \in DOMAIN e |-> IF e[i].blk THEN <<[t |-> "b", b |-> e[i].b]>>
                                               ELSE write_sexp(e[i].s)]) \o <<Close>>

(***************************************************************************)
(* Parsing from token i on.  The byte behind the data, which is looked at  *)
(* when they end behind an inner list, is the zero at the end of a mapped  *)
(* file; the data that are decrypted always end with padding.              *)
(***************************************************************************)
Malformed == [ok |-> FALSE, e |-> <<>>, next |-> 0]
EmptyBlock(b) == b.kind = "bytes" /\ b.v = <<>>

RECURSIVE ParseList(_, _, _)
ParseRest(s, i, e) ==
    IF i <= Len(s) /\ s[i].t = ")" THEN [ok |-> TRUE, e |-> e, next |-> i + 1]
    ELSE ParseList(s, i, e)
ParseInner(s, e, sub) ==
    IF sub.ok THEN ParseRest(s, sub.next, add_sub_sexp_to_sexp(e, sub.e)) ELSE Malformed
ParseList(s, i, e) ==
    IF i > Len(s) THEN Malformed
    ELSE IF s[i].t = "(" THEN ParseInner(s, e, ParseList(s, i + 1, <<>>))
    ELSE IF s[i].t # "b" THEN Malformed
    ELSE IF EmptyBlock(s[i].b) \/ i = Len(s) THEN Malformed
    ELSE ParseRest(s, i + 1, add_block_to_sexp(e, s[i].b))

parse_sexp(s) ==
    IF s = <<>> THEN [ok |-> TRUE, e |-> <<>>, next |-> 1]
    ELSE IF s[1].t # "(" THEN Malformed
    ELSE ParseList(s, 2, <<>>)

(***************************************************************************)
(* Variables: the first inner list that begins with the name.  A list with *)
(* less than two elements, or that begins with a list, ends the search.    *)
(***************************************************************************)
Unnamed(s) == Len(s) < 2 \/ ~s[1].blk
lookup_variable(e, name) ==
    LET subs == SelectSeq(e, LAMBDA x : ~x.blk)
        stops == {i \in DOMAIN subs : Unnamed(subs[i].s) \/ SameBlock(subs[i].s[1].b, name)}
    IN  IF stops = {} \/ Unnamed(subs[Min(stops)].s) THEN <<>> ELSE subs[Min(stops)].s
=============================================================================
