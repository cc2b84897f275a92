---------------------------- MODULE Collections ----------------------------
(***************************************************************************)
(* What the loops of the code compute of a collection: the bytes of a set  *)
(* of leases or pods (`for _, l := range leases { total += l.Size }`), and *)
(* a list without some of its elements, or the first of them.              *)
(***************************************************************************)
EXTENDS Integers, Sequences

(***************************************************************************)
(* The sum of f[x] for x in the finite set S.                              *)
(***************************************************************************)
SumOver(f, S) ==
  LET sum[T \in SUBSET S] ==
        IF T = {} THEN 0
        ELSE LET one == CHOOSE y \in T : TRUE
             IN  f[one] + sum[T \ {one}]
  IN  sum[S]

(***************************************************************************)
(* The elements of the sequence s that are in S, in the order of s.        *)
(***************************************************************************)
Kept(s, S) ==
  LET kept[i \in 0 .. Len(s)] ==
        IF i = 0 THEN <<>>
        ELSE IF s[i] \in S THEN Append(kept[i - 1], s[i]) ELSE kept[i - 1]
  IN  kept[Len(s)]

(***************************************************************************)
(* The first element of the sequence s that is in S, which has one.        *)
(***************************************************************************)
FirstOf(s, S) ==
  s[CHOOSE i \in DOMAIN s : s[i] \in S /\ \A j \in 1 .. i - 1 : s[j] \notin S]

(* The larger and the smaller of two numbers.                              *)
Larger(a, b) == IF a > b THEN a ELSE b
Smaller(a, b) == IF a < b THEN a ELSE b
=============================================================================
