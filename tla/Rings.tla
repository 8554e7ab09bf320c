------------------------------- MODULE Rings --------------------------------
(***************************************************************************)
(* VecDeque and Vec as sequences: an iterator folded from the front, and   *)
(* rev.  Only these operators of sequences are needed, and every other one *)
(* in reach would slow the provers down.                                   *)
(***************************************************************************)
EXTENDS Sequences, FiniteSetsExt

FoldLeft(op(_, _), base, s) ==
    MapThenFoldSet(LAMBDA e, acc : op(acc, e), base, LAMBDA i : s[i], Max, DOMAIN s)

Reverse(s) == [i \in DOMAIN s |-> s[Len(s) + 1 - i]]

Last(s) == s[Len(s)]
=============================================================================
