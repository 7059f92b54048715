----------------------------- MODULE Selection ------------------------------
(***************************************************************************)
(* The elements of a sequence that pass a test, in their order: what a     *)
(* filter over an iterator returns. SelectSeq of the standard module,      *)
(* written over the places of the elements so that TLAPS can unfold it.    *)
(***************************************************************************)
EXTENDS Naturals, Sequences

\* The numbers of I up to n, in their order.
Places(n, I) ==
  LET P[i \in 0 .. n] ==
        IF i = 0 THEN <<>> ELSE IF i \in I THEN Append(P[i - 1], i) ELSE P[i - 1]
  IN  P[n]

Chosen(s, I) == LET places == Places(Len(s), I) IN [j \in DOMAIN places |-> s[places[j]]]
Filtered(s, Test(_)) == Chosen(s, {i \in DOMAIN s : Test(s[i])})
=============================================================================
