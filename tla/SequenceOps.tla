----------------------------- MODULE SequenceOps -----------------------------
(***************************************************************************)
(* Two operators on sequences in a form that can be reasoned about.  Only  *)
(* is SelectSeq with the test as a set; the proof system has no definition *)
(* of SelectSeq to expand, and no lemma can quantify over a test that is   *)
(* an operator.  Flat is FlattenSeq of the community modules, defined for  *)
(* the empty sequence by the same recursion.                               *)
(***************************************************************************)
EXTENDS Integers, Sequences

\* OnlyUpTo(s, S)[i]: the elements of S among the first i of s.
OnlyUpTo(s, S) ==
    LET only[i \in 0..Len(s)] ==
            IF i = 0 THEN <<>>
            ELSE IF s[i] \in S THEN Append(only[i - 1], s[i])
            ELSE only[i - 1]
    IN  only

Only(s, S) == OnlyUpTo(s, S)[Len(s)]

\* FlatUpTo(ss)[i]: the first i sequences of ss, one after the other.
FlatUpTo(ss) ==
    LET flat[i \in 0..Len(ss)] == IF i = 0 THEN <<>> ELSE flat[i - 1] \o ss[i]
    IN  flat

Flat(ss) == FlatUpTo(ss)[Len(ss)]
=============================================================================
