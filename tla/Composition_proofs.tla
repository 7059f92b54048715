--------------------------- MODULE Composition_proofs ---------------------------
(***************************************************************************)
(* What composing keeps: every mark is on a letter of the composition, no  *)
(* two transformations are taken for each other, and a key is remembered   *)
(* as it was typed.                                                        *)
(***************************************************************************)
EXTENDS Composition, SequenceTheorems, FiniteSetTheorems, WellFoundedInduction, TLAPS

\* The key nobody typed. (The provers have no way to write an empty string;
\* where it is named they need not.)
NoKey == ""

-----------------------------------------------------------------------------
(***************************************************************************)
(* Induction, and functions defined by it.                                 *)
(***************************************************************************)
\* Every set of numbers that is not empty has a least one.
LEMMA LeastNumber ==
  ASSUME NEW R \in SUBSET Nat, R # {}
  PROVE  \E i \in R : \A j \in R : i <= j
<1>1. PICK i \in R : \A j \in R : ~ (<<j, i>> \in OpToRel(<, Nat))
  BY NatLessThanWellFounded, WFMin
<1>2. \A j \in R : ~ (j < i)
  BY <1>1, Zenon DEF OpToRel
<1>. QED  BY <1>2

\* A set that has 0, and with each number the next, has all numbers.
LEMMA Induction ==
  ASSUME NEW S, 0 \in S, \A n \in Nat : n \in S => n + 1 \in S
  PROVE  \A n \in Nat : n \in S
<1>. DEFINE R == Nat \ S
<1>1. SUFFICES ASSUME R # {}
               PROVE  FALSE
  OBVIOUS
<1>2. PICK i \in R : \A j \in R : i <= j
  BY <1>1, LeastNumber
<1>. QED  BY <1>2

\* A function may be defined step by step.
StepsWithin(op, n, X) == \A i \in 1 .. n : \A x \in X : op[i][x] \in X

LEMMA Recursion ==
  ASSUME NEW n \in Nat, NEW X, NEW b \in X, NEW op, StepsWithin(op, n, X)
  PROVE  \E f \in [0 .. n -> X] : f[0] = b /\ \A i \in 1 .. n : f[i] = op[i][f[i - 1]]
<1>. DEFINE Good(k, f) == f[0] = b /\ \A i \in 1 .. k : f[i] = op[i][f[i - 1]]
            Some(k) == \E f \in [0 .. k -> X] : Good(k, f)
            S == {k \in Nat : k <= n => Some(k)}
<1>1. 0 \in S
  <2>. DEFINE f == [i \in 0 .. 0 |-> b]
  <2>1. f \in [0 .. 0 -> X] /\ f[0] = b
    OBVIOUS
  <2>2. \A i \in 1 .. 0 : FALSE
    OBVIOUS
  <2>. HIDE DEF f
  <2>3. Good(0, f)
    BY <2>1, <2>2
  <2>. QED  BY <2>1, <2>3
<1>2. ASSUME NEW k \in Nat, k \in S
      PROVE  k + 1 \in S
  <2>1. SUFFICES ASSUME k + 1 <= n
                 PROVE  Some(k + 1)
    <3>. HIDE DEF Some
    <3>. QED  OBVIOUS
  <2>2. PICK f \in [0 .. k -> X] : Good(k, f)
    <3>1. Some(k)
      <4>. HIDE DEF Some
      <4>. QED  BY <1>2, <2>1
    <3>. QED  BY <3>1
  <2>. DEFINE last == op[k + 1][f[k]]
              g == [i \in 0 .. k + 1 |-> IF i <= k THEN f[i] ELSE last]
  <2>3. last \in X
    <3>1. k + 1 \in 1 .. n /\ f[k] \in X
      BY <2>1
    <3>. QED  BY <3>1 DEF StepsWithin
  <2>. HIDE DEF last
  <2>4. /\ g \in [0 .. k + 1 -> X]
        /\ \A i \in 0 .. k : g[i] = f[i]
        /\ g[k + 1] = last
    BY <2>3
  <2>. HIDE DEF g
  <2>5. g[0] = b
    BY <2>2, <2>4
  <2>6. ASSUME NEW i \in 1 .. k + 1
        PROVE  g[i] = op[i][g[i - 1]]
    <3>1. CASE i \in 1 .. k
      <4>1. g[i] = f[i] /\ g[i - 1] = f[i - 1]
        BY <3>1, <2>4
      <4>. QED  BY <3>1, <4>1, <2>2
    <3>2. CASE i = k + 1
      <4>1. g[i - 1] = f[k] /\ g[i] = last
        BY <3>2, <2>4
      <4>. QED  BY <3>2, <4>1 DEF last
    <3>. QED  BY <3>1, <3>2
  <2>. QED  BY <2>4, <2>5, <2>6
<1>. HIDE DEF S
<1>3. n \in S
  BY <1>1, <1>2, Induction
<1>. QED  BY <1>3 DEF S

\* And there is only one.
LEMMA RecursionUnique ==
  ASSUME NEW n \in Nat, NEW f, NEW g, f[0] = g[0],
         \A i \in 1 .. n : f[i - 1] = g[i - 1] => f[i] = g[i]
  PROVE  \A i \in 0 .. n : f[i] = g[i]
<1>. DEFINE S == {k \in Nat : k <= n => f[k] = g[k]}
<1>1. 0 \in S
  OBVIOUS
<1>2. ASSUME NEW k \in Nat, k \in S
      PROVE  k + 1 \in S
  BY <1>2
<1>. HIDE DEF S
<1>3. \A k \in Nat : k \in S
  BY <1>1, <1>2, Induction
<1>. QED  BY <1>3 DEF S

(***************************************************************************)
(* Places, Chosen: a filter.                                               *)
(***************************************************************************)
PlacesUpTo(P, n, I) ==
  P = [i \in 0 .. n |-> IF i = 0 THEN <<>>
                        ELSE IF i \in I THEN Append(P[i - 1], i) ELSE P[i - 1]]

LEMMA PlacesFunction ==
  ASSUME NEW n \in Nat, NEW I
  PROVE  \E P : PlacesUpTo(P, n, I) /\ Places(n, I) = P[n]
<1>. DEFINE op == [i \in 1 .. n |-> [p \in Seq(Nat) |-> IF i \in I THEN Append(p, i) ELSE p]]
<1>1. \A i \in 1 .. n : \A p \in Seq(Nat) :
        op[i][p] = (IF i \in I THEN Append(p, i) ELSE p) /\ op[i][p] \in Seq(Nat)
  BY AppendProperties
<1>2. <<>> \in Seq(Nat) /\ StepsWithin(op, n, Seq(Nat))
  BY <1>1 DEF StepsWithin
<1>. HIDE DEF op
<1>3. PICK f \in [0 .. n -> Seq(Nat)] :
        f[0] = <<>> /\ \A i \in 1 .. n : f[i] = op[i][f[i - 1]]
  <2>. DEFINE X == Seq(Nat)
  <2>. HIDE DEF X
  <2>1. <<>> \in X /\ StepsWithin(op, n, X)
    BY <1>2 DEF X
  <2>2. \E f \in [0 .. n -> X] : f[0] = <<>> /\ \A i \in 1 .. n : f[i] = op[i][f[i - 1]]
    BY <2>1, Recursion, Z3
  <2>. QED  BY <2>2 DEF X
<1>4. ASSUME NEW i \in 1 .. n
      PROVE  f[i] = IF i \in I THEN Append(f[i - 1], i) ELSE f[i - 1]
  <2>1. f[i - 1] \in Seq(Nat)
    OBVIOUS
  <2>. QED  BY <2>1, <1>3, <1>1
<1>5. PlacesUpTo(f, n, I)
  <2>. DEFINE g == [i \in 0 .. n |-> IF i = 0 THEN <<>>
                                     ELSE IF i \in I THEN Append(f[i - 1], i) ELSE f[i - 1]]
  <2>1. ASSUME NEW i \in 0 .. n
        PROVE  f[i] = g[i]
    <3>1. CASE i = 0
      BY <3>1, <1>3
    <3>2. CASE i \in 1 .. n
      <4>1. i # 0 /\ g[i] = IF i \in I THEN Append(f[i - 1], i) ELSE f[i - 1]
        BY <3>2
      <4>. HIDE DEF g
      <4>. QED  BY <4>1, <3>2, <1>4, Zenon
    <3>. QED  BY <3>1, <3>2, SMTT(30)
  <2>2. DOMAIN g = 0 .. n /\ g = [i \in DOMAIN g |-> g[i]]
    OBVIOUS
  <2>3. f = g
    <3>1. DOMAIN f = 0 .. n /\ f = [i \in DOMAIN f |-> f[i]]
      OBVIOUS
    <3>. HIDE DEF g
    <3>. QED  BY <2>1, <2>2, <3>1, Zenon
  <2>. QED  BY <2>3 DEF PlacesUpTo
<1>. DEFINE P == CHOOSE P : PlacesUpTo(P, n, I)
<1>6. PlacesUpTo(P, n, I)
  BY <1>5
<1>7. Places(n, I) = P[n]
  BY DEF Places, PlacesUpTo
<1>. QED  BY <1>6, <1>7

LEMMA PlacesRecursion ==
  ASSUME NEW n \in Nat, NEW I, NEW P, PlacesUpTo(P, n, I)
  PROVE  /\ P[0] = <<>>
         /\ \A i \in 1 .. n : P[i] = IF i \in I THEN Append(P[i - 1], i) ELSE P[i - 1]
<1>. DEFINE step(Q) == [i \in 0 .. n |-> IF i = 0 THEN <<>>
                                     ELSE IF i \in I THEN Append(Q[i - 1], i) ELSE Q[i - 1]]
<1>1. P = step(P)
  BY DEF PlacesUpTo
<1>2. step(P)[0] = <<>>
  OBVIOUS
<1>3. ASSUME NEW i \in 1 .. n
      PROVE  step(P)[i] = IF i \in I THEN Append(P[i - 1], i) ELSE P[i - 1]
  <2>1. i \in 0 .. n /\ i # 0
    OBVIOUS
  <2>. QED  BY <2>1, Zenon
<1>. HIDE DEF step
<1>. QED  BY <1>1, <1>2, <1>3

LEMMA PlacesStep ==
  ASSUME NEW n \in Nat, NEW I
  PROVE  /\ Places(0, I) = <<>>
         /\ Places(n + 1, I) = IF n + 1 \in I THEN Append(Places(n, I), n + 1) ELSE Places(n, I)
<1>1. PICK P : PlacesUpTo(P, n, I) /\ Places(n, I) = P[n]
  BY PlacesFunction
<1>2. PICK Q : PlacesUpTo(Q, n + 1, I) /\ Places(n + 1, I) = Q[n + 1]
  BY PlacesFunction
<1>3. PICK R : PlacesUpTo(R, 0, I) /\ Places(0, I) = R[0]
  BY PlacesFunction
<1>4. R[0] = <<>>
  BY <1>3, PlacesRecursion
<1>5. P[0] = <<>> /\ \A i \in 1 .. n : P[i] = IF i \in I THEN Append(P[i - 1], i) ELSE P[i - 1]
  BY <1>1, PlacesRecursion
<1>6. /\ Q[0] = <<>>
      /\ \A i \in 1 .. n + 1 : Q[i] = IF i \in I THEN Append(Q[i - 1], i) ELSE Q[i - 1]
  BY <1>2, PlacesRecursion
<1>7. \A i \in 0 .. n : P[i] = Q[i]
  <2>1. \A i \in 1 .. n : P[i - 1] = Q[i - 1] => P[i] = Q[i]
    BY <1>5, <1>6
  <2>. QED  BY <2>1, <1>5, <1>6, RecursionUnique, SMTT(30)
<1>8. Q[n + 1] = IF n + 1 \in I THEN Append(Q[n], n + 1) ELSE Q[n]
  BY <1>6
<1>. QED  BY <1>1, <1>2, <1>3, <1>4, <1>7, <1>8

\* They are the numbers of I up to n, each once, in their order.
Enumerates(p, n, I) ==
  /\ p \in Seq(1 .. n)
  /\ \A j \in DOMAIN p : p[j] \in I
  /\ \A j, k \in DOMAIN p : j < k => p[j] < p[k]
  /\ \A i \in 1 .. n : i \in I => \E j \in DOMAIN p : p[j] = i

LEMMA PlacesEnumerate ==
  ASSUME NEW n \in Nat, NEW I
  PROVE  Enumerates(Places(n, I), n, I)
<1>. DEFINE S == {k \in Nat : Enumerates(Places(k, I), k, I)}
<1>1. 0 \in S
  <2>1. Places(0, I) = <<>> /\ <<>> \in Seq(1 .. 0) /\ DOMAIN <<>> = {}
    BY PlacesStep
  <2>2. Enumerates(<<>>, 0, I)
    BY <2>1 DEF Enumerates
  <2>. QED  BY <2>1, <2>2
<1>2. ASSUME NEW k \in Nat, Enumerates(Places(k, I), k, I)
      PROVE  Enumerates(Places(k + 1, I), k + 1, I)
  <2>. DEFINE p == Places(k, I)
              q == Places(k + 1, I)
  <2>1. q = IF k + 1 \in I THEN Append(p, k + 1) ELSE p
    BY PlacesStep
  <2>2. /\ p \in Seq(1 .. k) /\ Len(p) \in Nat /\ DOMAIN p = 1 .. Len(p)
        /\ \A j \in DOMAIN p : p[j] \in 1 .. k /\ p[j] \in I
    BY <1>2, LenProperties, ElementOfSeq DEF Enumerates
  <2>3. \A i, j \in DOMAIN p : i < j => p[i] < p[j]
    BY <1>2 DEF Enumerates
  <2>4. \A i \in 1 .. k : i \in I => \E j \in DOMAIN p : p[j] = i
    BY <1>2 DEF Enumerates
  <2>. HIDE DEF p, q
  <2>5. p \in Seq(1 .. k + 1)
    <3>1. (1 .. k) \subseteq (1 .. k + 1)
      OBVIOUS
    <3>. QED  BY <2>2, <3>1
  <2>6. CASE k + 1 \notin I
    <3>1. \A i \in 1 .. k + 1 : i \in I => i \in 1 .. k
      BY <2>6
    <3>. QED  BY <3>1, <2>1, <2>2, <2>3, <2>4, <2>5, <2>6 DEF Enumerates, q
  <2>7. CASE k + 1 \in I
    <3>1. /\ q \in Seq(1 .. k + 1) /\ Len(q) = Len(p) + 1 /\ DOMAIN q = 1 .. Len(p) + 1
          /\ \A i \in 1 .. Len(p) : q[i] = p[i]
          /\ q[Len(p) + 1] = k + 1
      BY <2>1, <2>2, <2>5, <2>7, AppendProperties, LenProperties
    <3>2. ASSUME NEW j \in DOMAIN q
          PROVE  \/ j \in DOMAIN p /\ q[j] = p[j]
                 \/ j = Len(p) + 1 /\ q[j] = k + 1
      BY <3>1, <2>2
    <3>3. \A j \in DOMAIN q : q[j] \in I
      BY <3>2, <2>2, <2>7
    <3>4. \A i, j \in DOMAIN q : i < j => q[i] < q[j]
      <4>1. TAKE i, j \in DOMAIN q
      <4>2. HAVE i < j
      <4>3. i \in DOMAIN p /\ q[i] = p[i] /\ p[i] \in 1 .. k
        BY <4>2, <3>1, <2>2
      <4>4. CASE j \in DOMAIN p /\ q[j] = p[j]
        BY <4>2, <4>3, <4>4, <2>3
      <4>5. CASE j = Len(p) + 1 /\ q[j] = k + 1
        BY <4>3, <4>5
      <4>. QED  BY <4>4, <4>5, <3>2
    <3>5. ASSUME NEW i \in 1 .. k + 1, i \in I
          PROVE  \E j \in DOMAIN q : q[j] = i
      <4>1. CASE i = k + 1
        BY <4>1, <3>1, <2>2, SMTT(30)
      <4>2. CASE i \in 1 .. k
        <5>1. PICK j \in DOMAIN p : p[j] = i
          BY <4>2, <3>5, <2>4
        <5>2. j \in DOMAIN q /\ q[j] = p[j]
          BY <3>1, <2>2
        <5>. QED  BY <5>1, <5>2
      <4>. QED  BY <4>1, <4>2
    <3>. QED  BY <3>1, <3>3, <3>4, <3>5 DEF Enumerates, q
  <2>. QED  BY <2>6, <2>7
<1>. HIDE DEF S
<1>3. \A k \in Nat : k \in S
  <2>1. \A k \in Nat : k \in S => k + 1 \in S
    BY <1>2 DEF S
  <2>. QED  BY <1>1, <2>1, Induction
<1>. QED  BY <1>3 DEF S

\* What lies behind n does not matter.
LEMMA PlacesLocal ==
  ASSUME NEW n \in Nat, NEW I, NEW J, \A i \in 1 .. n : i \in I <=> i \in J
  PROVE  Places(n, I) = Places(n, J)
<1>. DEFINE S == {k \in Nat : k <= n => Places(k, I) = Places(k, J)}
<1>1. 0 \in S
  BY PlacesStep
<1>2. ASSUME NEW k \in Nat, k \in S
      PROVE  k + 1 \in S
  <2>1. k + 1 <= n => (k + 1 \in I <=> k + 1 \in J) /\ Places(k, I) = Places(k, J)
    BY <1>2
  <2>. QED  BY <2>1, PlacesStep
<1>. HIDE DEF S
<1>3. \A k \in Nat : k \in S
  BY <1>1, <1>2, Induction
<1>. QED  BY <1>3 DEF S

LEMMA FunctionIsSeq ==
  ASSUME NEW S, NEW n \in Nat, NEW f \in [1 .. n -> S]
  PROVE  f \in Seq(S) /\ Len(f) = n /\ DOMAIN f = 1 .. n
OBVIOUS

Shifted(p, m) == [j \in DOMAIN p |-> m + p[j]]

LEMMA ShiftedIsSeq ==
  ASSUME NEW m \in Nat, NEW p \in Seq(Nat)
  PROVE  /\ Shifted(p, m) \in Seq(Nat) /\ Len(Shifted(p, m)) = Len(p)
         /\ \A j \in 1 .. Len(p) : Shifted(p, m)[j] = m + p[j]
<1>1. Len(p) \in Nat /\ DOMAIN p = 1 .. Len(p) /\ \A j \in 1 .. Len(p) : p[j] \in Nat
  BY LenProperties, ElementOfSeq
<1>2. Shifted(p, m) \in [1 .. Len(p) -> Nat]
  BY <1>1 DEF Shifted
<1>3. \A j \in 1 .. Len(p) : Shifted(p, m)[j] = m + p[j]
  BY <1>1 DEF Shifted
<1>. QED  BY <1>1, <1>2, <1>3, FunctionIsSeq

LEMMA ShiftedAppend ==
  ASSUME NEW m \in Nat, NEW p \in Seq(Nat), NEW x \in Nat
  PROVE  Shifted(Append(p, x), m) = Append(Shifted(p, m), m + x)
<1>. DEFINE q == Append(p, x)
            s == Shifted(q, m)
            t == Append(Shifted(p, m), m + x)
<1>1. /\ q \in Seq(Nat) /\ Len(q) = Len(p) + 1 /\ q[Len(p) + 1] = x
      /\ \A j \in 1 .. Len(p) : q[j] = p[j]
  BY AppendProperties
<1>. HIDE DEF q
<1>2. /\ s \in Seq(Nat) /\ Len(s) = Len(p) + 1
      /\ \A j \in 1 .. Len(p) + 1 : s[j] = m + q[j]
  BY <1>1, ShiftedIsSeq
<1>3. /\ Shifted(p, m) \in Seq(Nat) /\ Len(Shifted(p, m)) = Len(p) /\ Len(p) \in Nat
      /\ \A j \in 1 .. Len(p) : Shifted(p, m)[j] = m + p[j]
  BY ShiftedIsSeq, LenProperties
<1>4. /\ t \in Seq(Nat) /\ Len(t) = Len(p) + 1 /\ t[Len(p) + 1] = m + x
      /\ \A j \in 1 .. Len(p) : t[j] = m + p[j]
  BY <1>3, AppendProperties
<1>. HIDE DEF s, t
<1>5. ASSUME NEW j \in 1 .. Len(p) + 1
      PROVE  s[j] = t[j]
  <2>1. CASE j = Len(p) + 1
    BY <2>1, <1>1, <1>2, <1>3, <1>4
  <2>2. CASE j \in 1 .. Len(p)
    <3>1. s[j] = m + q[j] /\ q[j] = p[j] /\ t[j] = m + p[j]
      BY <2>2, <1>1, <1>2, <1>4
    <3>. QED  BY <3>1
  <2>. QED  BY <2>1, <2>2, <1>3
<1>6. s = t
  BY <1>2, <1>4, <1>5, SeqEqual
<1>. QED  BY <1>6 DEF s, t, q

\* The places in two sequences one behind the other.
LEMMA PlacesConcat ==
  ASSUME NEW m \in Nat, NEW n \in Nat, NEW I, NEW J, \A i \in 1 .. n : i \in J <=> m + i \in I
  PROVE  Places(m + n, I) = Places(m, I) \o Shifted(Places(n, J), m)
<1>. DEFINE S == {k \in Nat : k <= n => Places(m + k, I) = Places(m, I) \o Shifted(Places(k, J), m)}
<1>1. ASSUME NEW k \in Nat, NEW K
      PROVE  Places(k, K) \in Seq(Nat)
  <2>1. Places(k, K) \in Seq(1 .. k) /\ (1 .. k) \subseteq Nat
    BY PlacesEnumerate DEF Enumerates
  <2>. QED  BY <2>1, SeqMonotonic
<1>2. Places(m + 0, I) = Places(m, I) \o Shifted(Places(0, J), m)
  <2>1. Places(0, J) = <<>> /\ m + 0 = m
    BY PlacesStep
  <2>2. Shifted(<<>>, m) = <<>>
    BY DEF Shifted
  <2>. QED  BY <2>1, <2>2, <1>1, ConcatEmptySeq
<1>3. ASSUME NEW k \in Nat, k + 1 <= n,
             Places(m + k, I) = Places(m, I) \o Shifted(Places(k, J), m)
      PROVE  Places(m + (k + 1), I) = Places(m, I) \o Shifted(Places(k + 1, J), m)
  <2>. DEFINE p == Places(k, J)
              q == Places(k + 1, J)
  <2>1. q = IF k + 1 \in J THEN Append(p, k + 1) ELSE p
    BY PlacesStep
  <2>2. Places((m + k) + 1, I)
          = IF (m + k) + 1 \in I THEN Append(Places(m + k, I), (m + k) + 1) ELSE Places(m + k, I)
    BY PlacesStep
  <2>3. (m + k) + 1 = m + (k + 1) /\ k + 1 \in 1 .. n
    BY <1>3
  <2>4. k + 1 \in J <=> m + (k + 1) \in I
    BY <2>3
  <2>5. p \in Seq(Nat) /\ Shifted(p, m) \in Seq(Nat) /\ Places(m, I) \in Seq(Nat)
    BY <1>1, ShiftedIsSeq
  <2>. HIDE DEF p, q
  <2>6. CASE k + 1 \in J
    <3>1. Shifted(q, m) = Append(Shifted(p, m), m + (k + 1))
      BY <2>1, <2>5, <2>6, ShiftedAppend
    <3>2. Append(Places(m, I) \o Shifted(p, m), m + (k + 1))
            = Places(m, I) \o Append(Shifted(p, m), m + (k + 1))
      <4>. DEFINE x == m + (k + 1)
      <4>1. x \in Nat
        OBVIOUS
      <4>. HIDE DEF x
      <4>2. <<x>> \in Seq(Nat)
        BY <4>1
      <4>3. Places(m, I) \o Shifted(p, m) \in Seq(Nat)
        BY <2>5, ConcatProperties
      <4>4. Append(Places(m, I) \o Shifted(p, m), x) = (Places(m, I) \o Shifted(p, m)) \o <<x>>
        BY <4>1, <4>3, AppendIsConcat
      <4>5. Append(Shifted(p, m), x) = Shifted(p, m) \o <<x>>
        BY <4>1, <2>5, AppendIsConcat
      <4>6. (Places(m, I) \o Shifted(p, m)) \o <<x>> = Places(m, I) \o (Shifted(p, m) \o <<x>>)
        <5>1. \A a, b, c \in Seq(Nat) : (a \o b) \o c = a \o (b \o c)
          BY ConcatAssociative, SMTT(30)
        <5>. DEFINE a == Places(m, I)
                    b == Shifted(p, m)
                    c == <<x>>
        <5>2. a \in Seq(Nat) /\ b \in Seq(Nat) /\ c \in Seq(Nat)
          BY <4>2, <2>5
        <5>. HIDE DEF a, b, c
        <5>3. (a \o b) \o c = a \o (b \o c)
          BY <5>1, <5>2
        <5>. QED  BY <5>3 DEF a, b, c
      <4>. QED  BY <4>4, <4>5, <4>6 DEF x
    <3>. QED  BY <3>1, <3>2, <2>2, <2>3, <2>4, <2>6, <1>3 DEF p, q
  <2>7. CASE k + 1 \notin J
    BY <2>1, <2>2, <2>3, <2>4, <2>7, <1>3 DEF p, q
  <2>. QED  BY <2>6, <2>7 DEF q
<1>4. 0 \in S
  BY <1>2
<1>5. ASSUME NEW k \in Nat, k \in S
      PROVE  k + 1 \in S
  <2>1. SUFFICES ASSUME k + 1 <= n
                 PROVE  Places(m + (k + 1), I) = Places(m, I) \o Shifted(Places(k + 1, J), m)
    OBVIOUS
  <2>2. Places(m + k, I) = Places(m, I) \o Shifted(Places(k, J), m)
    BY <1>5, <2>1
  <2>. QED  BY <2>1, <2>2, <1>3
<1>. HIDE DEF S
<1>6. n \in S
  BY <1>4, <1>5, Induction
<1>. QED  BY <1>6 DEF S

LEMMA ChosenPlaces ==
  ASSUME NEW S, NEW s \in Seq(S), NEW I
  PROVE  LET p == Places(Len(s), I)
             c == Chosen(s, I)
         IN  /\ Len(p) \in Nat /\ DOMAIN p = 1 .. Len(p) /\ Enumerates(p, Len(s), I)
             /\ \A j \in 1 .. Len(p) : p[j] \in 1 .. Len(s) /\ p[j] \in I
             /\ c \in Seq(S) /\ Len(c) = Len(p)
             /\ \A j \in 1 .. Len(p) : c[j] = s[p[j]]
<1>. DEFINE p == Places(Len(s), I)
            c == Chosen(s, I)
<1>1. Len(s) \in Nat
  BY LenProperties
<1>2. Enumerates(p, Len(s), I)
  BY <1>1, PlacesEnumerate
<1>3. /\ p \in Seq(1 .. Len(s)) /\ Len(p) \in Nat /\ DOMAIN p = 1 .. Len(p)
      /\ \A j \in 1 .. Len(p) : p[j] \in 1 .. Len(s) /\ p[j] \in I
  BY <1>2, LenProperties, ElementOfSeq DEF Enumerates
<1>4. c = [j \in 1 .. Len(p) |-> s[p[j]]]
  BY <1>3 DEF Chosen
<1>. HIDE DEF p, c
<1>5. \A j \in 1 .. Len(p) : s[p[j]] \in S
  BY <1>3, ElementOfSeq
<1>6. c \in [1 .. Len(p) -> S]
  BY <1>4, <1>5
<1>7. \A j \in 1 .. Len(p) : c[j] = s[p[j]]
  BY <1>4
<1>8. c \in Seq(S) /\ Len(c) = Len(p)
  BY <1>3, <1>6, FunctionIsSeq
<1>. QED  BY <1>2, <1>3, <1>7, <1>8 DEF p, c

LEMMA ChosenConcat ==
  ASSUME NEW S, NEW s \in Seq(S), NEW t \in Seq(S), NEW I, NEW J, NEW K,
         \A i \in 1 .. Len(s) : i \in I <=> i \in K,
         \A i \in 1 .. Len(t) : i \in J <=> Len(s) + i \in K
  PROVE  Chosen(s \o t, K) = Chosen(s, I) \o Chosen(t, J)
<1>. DEFINE u == s \o t
            p == Places(Len(s), I)
            q == Places(Len(t), J)
            r == Places(Len(u), K)
            a == Chosen(s, I)
            b == Chosen(t, J)
            c == Chosen(u, K)
<1>1. Len(s) \in Nat /\ Len(t) \in Nat
  BY LenProperties
<1>2. /\ u \in Seq(S) /\ Len(u) = Len(s) + Len(t)
      /\ \A i \in 1 .. Len(s) + Len(t) : u[i] = IF i <= Len(s) THEN s[i] ELSE t[i - Len(s)]
  BY ConcatProperties
<1>3. r = p \o Shifted(q, Len(s))
  <2>1. Places(Len(s), K) = p
    BY <1>1, PlacesLocal
  <2>2. Places(Len(s) + Len(t), K) = Places(Len(s), K) \o Shifted(q, Len(s))
    BY <1>1, PlacesConcat
  <2>. QED  BY <2>1, <2>2, <1>2
<1>4. /\ Len(p) \in Nat /\ a \in Seq(S) /\ Len(a) = Len(p)
      /\ \A j \in 1 .. Len(p) : p[j] \in 1 .. Len(s) /\ a[j] = s[p[j]]
  BY ChosenPlaces
<1>5. /\ Len(q) \in Nat /\ b \in Seq(S) /\ Len(b) = Len(q)
      /\ \A j \in 1 .. Len(q) : q[j] \in 1 .. Len(t) /\ b[j] = t[q[j]]
  BY ChosenPlaces
<1>. HIDE DEF u, c, r
<1>6. /\ c \in Seq(S) /\ Len(c) = Len(r)
      /\ \A j \in 1 .. Len(r) : c[j] = u[r[j]]
  <2>1. u \in Seq(S)
    BY <1>2
  <2>. QED  BY <2>1, ChosenPlaces DEF c, r
<1>7. p \in Seq(Nat) /\ q \in Seq(Nat)
  <2>1. p \in Seq(1 .. Len(s)) /\ q \in Seq(1 .. Len(t))
    BY <1>1, PlacesEnumerate DEF Enumerates
  <2>2. (1 .. Len(s)) \subseteq Nat /\ (1 .. Len(t)) \subseteq Nat
    OBVIOUS
  <2>. QED  BY <2>1, <2>2, SeqMonotonic
<1>. HIDE DEF a, b, c, p, q, r
<1>8. /\ Shifted(q, Len(s)) \in Seq(Nat) /\ Len(Shifted(q, Len(s))) = Len(q)
      /\ \A j \in 1 .. Len(q) : Shifted(q, Len(s))[j] = Len(s) + q[j]
  BY <1>1, <1>7, ShiftedIsSeq
<1>9. /\ Len(r) = Len(p) + Len(q)
      /\ \A j \in 1 .. Len(p) + Len(q) :
           r[j] = IF j <= Len(p) THEN p[j] ELSE Shifted(q, Len(s))[j - Len(p)]
  <2>. DEFINE h == Shifted(q, Len(s))
  <2>1. h \in Seq(Nat) /\ Len(h) = Len(q)
    BY <1>8
  <2>. HIDE DEF h
  <2>2. /\ Len(p \o h) = Len(p) + Len(h)
        /\ \A j \in 1 .. Len(p) + Len(h) : (p \o h)[j] = IF j <= Len(p) THEN p[j] ELSE h[j - Len(p)]
    BY <1>7, <2>1, ConcatProperties
  <2>. QED  BY <1>3, <2>1, <2>2 DEF h
<1>10. /\ a \o b \in Seq(S) /\ Len(a \o b) = Len(p) + Len(q)
       /\ \A j \in 1 .. Len(p) + Len(q) :
            (a \o b)[j] = IF j <= Len(p) THEN a[j] ELSE b[j - Len(p)]
  <2>0. a \in Seq(S) /\ b \in Seq(S)
    BY <1>4, <1>5
  <2>1. /\ a \o b \in Seq(S) /\ Len(a \o b) = Len(a) + Len(b)
        /\ \A j \in 1 .. Len(a) + Len(b) : (a \o b)[j] = IF j <= Len(a) THEN a[j] ELSE b[j - Len(a)]
    BY <2>0, ConcatProperties
  <2>. QED  BY <2>1, <1>4, <1>5
<1>11. ASSUME NEW j \in 1 .. Len(p) + Len(q)
       PROVE  c[j] = (a \o b)[j]
  <2>0. c[j] = u[r[j]]
    BY <1>6, <1>9
  <2>1. CASE j <= Len(p)
    <3>1. j \in 1 .. Len(p)
      BY <2>1, <1>4
    <3>2. r[j] = p[j] /\ p[j] \in 1 .. Len(s) /\ a[j] = s[p[j]] /\ (a \o b)[j] = a[j]
      BY <3>1, <2>1, <1>4, <1>9, <1>10
    <3>3. u[p[j]] = s[p[j]]
      BY <3>2, <1>1, <1>2
    <3>. QED  BY <2>0, <3>2, <3>3
  <2>2. CASE ~(j <= Len(p))
    <3>. DEFINE i == j - Len(p)
    <3>1. i \in 1 .. Len(q)
      BY <2>2, <1>4, <1>5
    <3>2. r[j] = Shifted(q, Len(s))[i] /\ (a \o b)[j] = b[i]
      BY <2>2, <1>9, <1>10
    <3>. HIDE DEF i
    <3>3. r[j] = Len(s) + q[i] /\ q[i] \in 1 .. Len(t) /\ b[i] = t[q[i]]
      BY <3>1, <3>2, <1>5, <1>8
    <3>4. u[Len(s) + q[i]] = t[q[i]]
      <4>. DEFINE k == Len(s) + q[i]
      <4>1. k \in 1 .. Len(s) + Len(t) /\ ~(k <= Len(s)) /\ k - Len(s) = q[i]
        <5>1. \A x, y, z \in Nat : x \in 1 .. y => /\ z + x \in 1 .. z + y /\ ~(z + x <= z)
                                                   /\ z + x - z = x
          OBVIOUS
        <5>2. q[i] \in Nat
          BY <3>3
        <5>. QED  BY <5>1, <5>2, <3>3, <1>1
      <4>. HIDE DEF k
      <4>3. u[k] = t[k - Len(s)]
        BY <4>1, <1>2
      <4>. QED  BY <4>1, <4>3 DEF k
    <3>. QED  BY <2>0, <3>2, <3>3, <3>4
  <2>. QED  BY <2>1, <2>2
<1>12. c = a \o b
  BY <1>6, <1>9, <1>10, <1>11, SeqEqual
<1>. QED  BY <1>12 DEF a, b, c, u

(***************************************************************************)
(* A filter by a set of elements.                                          *)
(***************************************************************************)
Sel(s, P) == Chosen(s, {i \in DOMAIN s : s[i] \in P})

LEMMA SelPlaces ==
  ASSUME NEW S, NEW s \in Seq(S), NEW P
  PROVE  \E p \in [1 .. Len(Sel(s, P)) -> 1 .. Len(s)] :
           /\ \A j \in 1 .. Len(Sel(s, P)) : Sel(s, P)[j] = s[p[j]] /\ s[p[j]] \in P
           /\ \A j, k \in 1 .. Len(Sel(s, P)) : j < k => p[j] < p[k]
           /\ \A i \in 1 .. Len(s) : s[i] \in P => \E j \in 1 .. Len(Sel(s, P)) : p[j] = i
<1>. DEFINE I == {i \in DOMAIN s : s[i] \in P}
            p == Places(Len(s), I)
            c == Chosen(s, I)
<1>1. /\ Len(p) \in Nat /\ DOMAIN p = 1 .. Len(p) /\ Enumerates(p, Len(s), I)
      /\ \A j \in 1 .. Len(p) : p[j] \in 1 .. Len(s) /\ p[j] \in I
      /\ Len(c) = Len(p)
      /\ \A j \in 1 .. Len(p) : c[j] = s[p[j]]
  BY ChosenPlaces
<1>2. DOMAIN s = 1 .. Len(s)
  BY LenProperties
<1>3. c = Sel(s, P)
  BY DEF Sel
<1>. HIDE DEF p, c
<1>4. p \in [1 .. Len(c) -> 1 .. Len(s)]
  <2>1. p \in Seq(1 .. Len(s))
    BY <1>1 DEF Enumerates
  <2>. QED  BY <2>1, <1>1, LenProperties
<1>5. \A j \in 1 .. Len(c) : c[j] = s[p[j]] /\ s[p[j]] \in P
  BY <1>1
<1>6. \A j, k \in 1 .. Len(c) : j < k => p[j] < p[k]
  BY <1>1 DEF Enumerates
<1>7. \A i \in 1 .. Len(s) : s[i] \in P => \E j \in 1 .. Len(c) : p[j] = i
  BY <1>1, <1>2 DEF Enumerates
<1>. QED  BY <1>3, <1>4, <1>5, <1>6, <1>7

LEMMA SelType ==
  ASSUME NEW S, NEW s \in Seq(S), NEW P
  PROVE  /\ Sel(s, P) \in Seq(S) /\ Len(Sel(s, P)) \in Nat
         /\ DOMAIN Sel(s, P) = 1 .. Len(Sel(s, P))
         /\ \A j \in 1 .. Len(Sel(s, P)) :
              Sel(s, P)[j] \in P /\ \E i \in 1 .. Len(s) : Sel(s, P)[j] = s[i]
         /\ \A i \in 1 .. Len(s) : s[i] \in P => \E j \in 1 .. Len(Sel(s, P)) : Sel(s, P)[j] = s[i]
<1>1. Sel(s, P) \in Seq(S)
  BY ChosenPlaces DEF Sel
<1>. DEFINE c == Sel(s, P)
<1>2. PICK p \in [1 .. Len(c) -> 1 .. Len(s)] :
           /\ \A j \in 1 .. Len(c) : c[j] = s[p[j]] /\ s[p[j]] \in P
           /\ \A j, k \in 1 .. Len(c) : j < k => p[j] < p[k]
           /\ \A i \in 1 .. Len(s) : s[i] \in P => \E j \in 1 .. Len(c) : p[j] = i
  BY SelPlaces
<1>. HIDE DEF c
<1>3. c \in Seq(S) /\ Len(c) \in Nat /\ DOMAIN c = 1 .. Len(c)
  BY <1>1, LenProperties DEF c
<1>4. \A j \in 1 .. Len(c) : c[j] \in P /\ \E i \in 1 .. Len(s) : c[j] = s[i]
  BY <1>2
<1>5. \A i \in 1 .. Len(s) : s[i] \in P => \E j \in 1 .. Len(c) : c[j] = s[i]
  BY <1>2
<1>. QED  BY <1>3, <1>4, <1>5 DEF c

LEMMA SelNamed ==
  ASSUME NEW S, NEW s \in Seq(S), NEW P, NEW r, r = Sel(s, P)
  PROVE  /\ r \in Seq(S)
         /\ \A j \in 1 .. Len(r) : r[j] \in P /\ \E i \in 1 .. Len(s) : r[j] = s[i]
         /\ \A i \in 1 .. Len(s) : s[i] \in P => \E j \in 1 .. Len(r) : r[j] = s[i]
<1>1. \A j \in 1 .. Len(Sel(s, P)) : Sel(s, P)[j] \in P
  BY SelType
<1>2. \A j \in 1 .. Len(Sel(s, P)) : \E i \in 1 .. Len(s) : Sel(s, P)[j] = s[i]
  BY SelType
<1>3. \A i \in 1 .. Len(s) : s[i] \in P => \E j \in 1 .. Len(Sel(s, P)) : Sel(s, P)[j] = s[i]
  BY SelType, SMTT(30)
<1>4. Sel(s, P) \in Seq(S)
  BY SelType
<1>. QED  BY <1>1, <1>2, <1>3, <1>4

LEMMA SelConcat ==
  ASSUME NEW S, NEW s \in Seq(S), NEW t \in Seq(S), NEW P
  PROVE  Sel(s \o t, P) = Sel(s, P) \o Sel(t, P)
<1>. DEFINE u == s \o t
            I == {i \in DOMAIN s : s[i] \in P}
            J == {i \in DOMAIN t : t[i] \in P}
            K == {i \in DOMAIN u : u[i] \in P}
<1>1. /\ Len(s) \in Nat /\ Len(t) \in Nat /\ DOMAIN s = 1 .. Len(s) /\ DOMAIN t = 1 .. Len(t)
  BY LenProperties
<1>2. /\ u \in Seq(S) /\ Len(u) = Len(s) + Len(t)
      /\ \A i \in 1 .. Len(s) + Len(t) : u[i] = IF i <= Len(s) THEN s[i] ELSE t[i - Len(s)]
  BY ConcatProperties
<1>. HIDE DEF u
<1>3. DOMAIN u = 1 .. Len(s) + Len(t)
  BY <1>2, LenProperties
<1>4. ASSUME NEW i \in 1 .. Len(s)
      PROVE  i \in I <=> i \in K
  <2>1. i \in 1 .. Len(s) + Len(t) /\ i <= Len(s)
    BY <1>1
  <2>2. u[i] = s[i]
    BY <2>1, <1>2
  <2>. QED  BY <2>1, <2>2, <1>1, <1>3
<1>5. ASSUME NEW i \in 1 .. Len(t)
      PROVE  i \in J <=> Len(s) + i \in K
  <2>. DEFINE k == Len(s) + i
  <2>1. k \in 1 .. Len(s) + Len(t) /\ ~(k <= Len(s)) /\ k - Len(s) = i
    BY <1>1
  <2>. HIDE DEF k
  <2>2. u[k] = t[i]
    BY <2>1, <1>2
  <2>3. k \in K <=> i \in J
    BY <2>1, <2>2, <1>1, <1>3
  <2>. QED  BY <2>3 DEF k
<1>. HIDE DEF I, J, K
<1>6. Chosen(s \o t, K) = Chosen(s, I) \o Chosen(t, J)
  BY <1>4, <1>5, ChosenConcat
<1>. QED  BY <1>6 DEF Sel, I, J, K, u

LEMMA SelSingle ==
  ASSUME NEW x, NEW P
  PROVE  /\ Sel(<<x>>, P) = IF x \in P THEN <<x>> ELSE <<>>
         /\ Sel(<<>>, P) = <<>>
<1>1. ASSUME NEW I
      PROVE  Places(1, I) = IF 1 \in I THEN <<1>> ELSE <<>>
  <2>1. Places(0 + 1, I) = IF 0 + 1 \in I THEN Append(Places(0, I), 0 + 1) ELSE Places(0, I)
    BY PlacesStep
  <2>2. Places(0, I) = <<>> /\ 0 + 1 = 1 /\ Append(<<>>, 1) = <<1>>
    BY PlacesStep
  <2>. QED  BY <2>1, <2>2
<1>2. Sel(<<>>, P) = <<>>
  <2>1. Len(<<>>) = 0
    OBVIOUS
  <2>2. \A I : Places(0, I) = <<>>
    BY PlacesStep
  <2>. QED  BY <2>1, <2>2 DEF Sel, Chosen
<1>3. CASE x \in P
  <2>1. 1 \in {i \in DOMAIN <<x>> : <<x>>[i] \in P}
    BY <1>3
  <2>2. Places(Len(<<x>>), {i \in DOMAIN <<x>> : <<x>>[i] \in P}) = <<1>>
    BY <2>1, <1>1
  <2>3. [j \in DOMAIN <<1>> |-> <<x>>[<<1>>[j]]] = <<x>>
    OBVIOUS
  <2>. QED  BY <2>2, <2>3, <1>2, <1>3 DEF Sel, Chosen
<1>4. CASE x \notin P
  <2>1. 1 \notin {i \in DOMAIN <<x>> : <<x>>[i] \in P}
    BY <1>4
  <2>2. Places(Len(<<x>>), {i \in DOMAIN <<x>> : <<x>>[i] \in P}) = <<>>
    BY <2>1, <1>1
  <2>3. [j \in DOMAIN <<>> |-> <<x>>[<<>>[j]]] = <<>>
    OBVIOUS
  <2>. QED  BY <2>2, <2>3, <1>2, <1>4 DEF Sel, Chosen
<1>. QED  BY <1>2, <1>3, <1>4

LEMMA SelAppend ==
  ASSUME NEW S, NEW s \in Seq(S), NEW x \in S, NEW P
  PROVE  Sel(Append(s, x), P) = IF x \in P THEN Append(Sel(s, P), x) ELSE Sel(s, P)
<1>1. <<x>> \in Seq(S) /\ Append(s, x) = s \o <<x>>
  BY AppendIsConcat
<1>2. Sel(s \o <<x>>, P) = Sel(s, P) \o Sel(<<x>>, P)
  <2>. DEFINE u == <<x>>
  <2>1. u \in Seq(S)
    BY <1>1
  <2>. HIDE DEF u
  <2>2. Sel(s \o u, P) = Sel(s, P) \o Sel(u, P)
    BY <2>1, SelConcat
  <2>. QED  BY <2>2 DEF u
<1>3. Sel(s, P) \in Seq(S)
  BY SelType
<1>4. Append(Sel(s, P), x) = Sel(s, P) \o <<x>> /\ Sel(s, P) \o <<>> = Sel(s, P)
  BY <1>3, AppendIsConcat, ConcatEmptySeq
<1>. QED  BY <1>1, <1>2, <1>4, SelSingle

LEMMA SelEmpty ==
  ASSUME NEW S, NEW s \in Seq(S), NEW P
  PROVE  Sel(s, P) = <<>> <=> \A i \in 1 .. Len(s) : s[i] \notin P
<1>. DEFINE c == Sel(s, P)
<1>1. /\ c \in Seq(S) /\ Len(c) \in Nat
      /\ \A j \in 1 .. Len(c) : c[j] \in P /\ \E i \in 1 .. Len(s) : c[j] = s[i]
      /\ \A i \in 1 .. Len(s) : s[i] \in P => \E j \in 1 .. Len(c) : c[j] = s[i]
  BY SelType
<1>. HIDE DEF c
<1>2. ASSUME c = <<>>, NEW i \in 1 .. Len(s)
      PROVE  s[i] \notin P
  <2>1. 1 .. Len(c) = {}
    BY <1>2
  <2>. QED  BY <2>1, <1>1
<1>3. ASSUME \A i \in 1 .. Len(s) : s[i] \notin P
      PROVE  c = <<>>
  <2>1. \A j \in 1 .. Len(c) : FALSE
    BY <1>1, <1>3
  <2>2. Len(c) = 0
    BY <2>1, <1>1
  <2>. QED  BY <2>2, <1>1, EmptySeq
<1>. QED  BY <1>2, <1>3 DEF c

\* Where two sequences agree on what passes, the same places pass.
LEMMA SelAlike ==
  ASSUME NEW S, NEW s \in Seq(S), NEW t \in Seq(S), NEW P, NEW Q, Len(s) = Len(t),
         \A i \in 1 .. Len(s) : s[i] \in P <=> t[i] \in Q
  PROVE  /\ Len(Sel(s, P)) = Len(Sel(t, Q))
         /\ \E p \in [1 .. Len(Sel(s, P)) -> 1 .. Len(s)] :
              \A j \in 1 .. Len(Sel(s, P)) : Sel(s, P)[j] = s[p[j]] /\ Sel(t, Q)[j] = t[p[j]]
<1>. DEFINE I == {i \in DOMAIN s : s[i] \in P}
            J == {i \in DOMAIN t : t[i] \in Q}
            p == Places(Len(s), I)
<1>1. DOMAIN s = 1 .. Len(s) /\ DOMAIN t = 1 .. Len(s)
  BY LenProperties
<1>2. I = J
  BY <1>1
<1>3. /\ Len(p) \in Nat /\ DOMAIN p = 1 .. Len(p) /\ Enumerates(p, Len(s), I)
      /\ Len(Chosen(s, I)) = Len(p)
      /\ \A j \in 1 .. Len(p) : Chosen(s, I)[j] = s[p[j]]
  BY ChosenPlaces
<1>4. /\ Len(Chosen(t, J)) = Len(p)
      /\ \A j \in 1 .. Len(p) : Chosen(t, J)[j] = t[p[j]]
  <2>1. p = Places(Len(t), J)
    BY <1>2
  <2>. HIDE DEF p, I, J
  <2>. QED  BY <2>1, ChosenPlaces
<1>. HIDE DEF p
<1>5. p \in [1 .. Len(p) -> 1 .. Len(s)]
  <2>1. p \in Seq(1 .. Len(s))
    BY <1>3 DEF Enumerates
  <2>. QED  BY <2>1, <1>3, LenProperties
<1>. QED  BY <1>3, <1>4, <1>5 DEF Sel

(***************************************************************************)
(* The first and the last place of a kind.                                 *)
(***************************************************************************)
MaxOrZero(I) == IF I # {} THEN Max(I) ELSE 0
MinOrZero(I) == IF I # {} THEN Min(I) ELSE 0

LEMMA MaxOfPlaces ==
  ASSUME NEW n \in Nat, NEW I \in SUBSET (1 .. n)
  PROVE  /\ I = {} => MaxOrZero(I) = 0
         /\ I # {} => MaxOrZero(I) \in I /\ MaxOrZero(I) = Max(I)
         /\ \A i \in I : i <= MaxOrZero(I)
<1>1. CASE I = {}
  BY <1>1 DEF MaxOrZero
<1>2. CASE I # {}
  <2>. DEFINE R == {k \in Nat : \A i \in I : i <= k}
  <2>1. n \in R
    OBVIOUS
  <2>2. PICK k \in R : \A j \in R : k <= j
    <3>1. R \in SUBSET Nat /\ R # {}
      BY <2>1
    <3>. HIDE DEF R
    <3>. QED  BY <3>1, LeastNumber
  <2>3. k \in I
    <3>1. SUFFICES ASSUME k \notin I
                   PROVE  FALSE
      OBVIOUS
    <3>2. PICK i \in I : TRUE
      BY <1>2
    <3>3. i <= k /\ i \in 1 .. n
      BY <2>2
    <3>4. k \in Nat /\ k - 1 \in Nat /\ \A j \in I : j <= k - 1
      BY <2>2, <3>1, <3>3
    <3>5. k - 1 \in R
      BY <3>4
    <3>. HIDE DEF R
    <3>. QED  BY <2>2, <3>4, <3>5
  <2>4. \A i \in I : k >= i
    BY <2>2
  <2>5. Max(I) \in I /\ \A i \in I : Max(I) >= i
    BY <2>3, <2>4 DEF Max
  <2>. QED  BY <1>2, <2>5 DEF MaxOrZero
<1>. QED  BY <1>1, <1>2

LEMMA MinOfPlaces ==
  ASSUME NEW n \in Nat, NEW I \in SUBSET (1 .. n)
  PROVE  /\ I = {} => MinOrZero(I) = 0
         /\ I # {} => MinOrZero(I) \in I
<1>1. CASE I = {}
  BY <1>1 DEF MinOrZero
<1>2. CASE I # {}
  <2>1. PICK i \in I : \A j \in I : i <= j
    <3>1. I \in SUBSET Nat
      OBVIOUS
    <3>. QED  BY <1>2, <3>1, LeastNumber
  <2>2. Min(I) \in I
    BY <2>1 DEF Min
  <2>. QED  BY <1>2, <2>2 DEF MinOrZero
<1>. QED  BY <1>1, <1>2

(***************************************************************************)
(* FoldLeft: the community module folds over the set of the places, which  *)
(* it takes from the last one down.                                        *)
(***************************************************************************)
IsFold(g, n, b, op) ==
  /\ g[{}] = b
  /\ \A I \in SUBSET (1 .. n) : I # {} => g[I] = op[Max(I)][g[I \ {Max(I)}]]

FoldExists(k, X, b, op) == \E g \in [SUBSET (1 .. k) -> X] : IsFold(g, k, b, op)

LEMMA FoldOfNothing ==
  ASSUME NEW X, NEW b \in X, NEW op
  PROVE  FoldExists(0, X, b, op)
<1>. DEFINE g == [I \in SUBSET (1 .. 0) |-> b]
<1>1. g \in [SUBSET (1 .. 0) -> X] /\ g[{}] = b
  OBVIOUS
<1>2. \A I \in SUBSET (1 .. 0) : I = {}
  OBVIOUS
<1>. HIDE DEF g
<1>3. IsFold(g, 0, b, op)
  BY <1>1, <1>2 DEF IsFold
<1>. QED  BY <1>1, <1>3 DEF FoldExists

LEMMA FoldOfMore ==
  ASSUME NEW X, NEW b \in X, NEW op, NEW k \in Nat, FoldExists(k, X, b, op),
         \A x \in X : op[k + 1][x] \in X
  PROVE  FoldExists(k + 1, X, b, op)
<1>1. PICK g \in [SUBSET (1 .. k) -> X] : IsFold(g, k, b, op)
  BY DEF FoldExists
<1>. DEFINE step(x) == op[k + 1][x]
            h == [I \in SUBSET (1 .. k + 1) |->
                    IF k + 1 \in I THEN step(g[I \ {k + 1}]) ELSE g[I]]
<1>2. \A x \in X : step(x) \in X
  OBVIOUS
<1>3. ASSUME NEW I \in SUBSET (1 .. k + 1)
      PROVE  /\ I \ {k + 1} \in SUBSET (1 .. k)
             /\ k + 1 \notin I => I \in SUBSET (1 .. k)
  OBVIOUS
<1>. HIDE DEF step
<1>4. h \in [SUBSET (1 .. k + 1) -> X]
  BY <1>2, <1>3
<1>5. \A I \in SUBSET (1 .. k) : h[I] = g[I]
  <2>1. \A I \in SUBSET (1 .. k) : I \in SUBSET (1 .. k + 1) /\ k + 1 \notin I
    OBVIOUS
  <2>. QED  BY <2>1
<1>6. \A I \in SUBSET (1 .. k + 1) : k + 1 \in I => h[I] = step(g[I \ {k + 1}])
  OBVIOUS
<1>. HIDE DEF h
<1>7. h[{}] = b
  BY <1>1, <1>5 DEF IsFold
<1>8. ASSUME NEW I \in SUBSET (1 .. k + 1), I # {}
      PROVE  h[I] = op[Max(I)][h[I \ {Max(I)}]]
  <2>1. Max(I) \in I /\ \A i \in I : i <= Max(I)
    <3>1. k + 1 \in Nat
      OBVIOUS
    <3>. QED  BY <1>8, <3>1, MaxOfPlaces
  <2>2. CASE k + 1 \in I
    <3>1. Max(I) = k + 1
      <4>1. Max(I) \in 1 .. k + 1 /\ k + 1 <= Max(I)
        BY <2>1, <2>2
      <4>. QED  BY <4>1
    <3>2. h[I \ {k + 1}] = g[I \ {k + 1}]
      BY <1>3, <1>5
    <3>. QED  BY <2>2, <3>1, <3>2, <1>6 DEF step
  <2>3. CASE k + 1 \notin I
    <3>1. I \in SUBSET (1 .. k)
      BY <2>3, <1>3
    <3>4. I \ {Max(I)} \in SUBSET (1 .. k)
      BY <3>1
    <3>2. h[I] = g[I] /\ h[I \ {Max(I)}] = g[I \ {Max(I)}]
      BY <3>1, <3>4, <1>5
    <3>. QED  BY <3>1, <3>2, <1>1, <1>8 DEF IsFold
  <2>. QED  BY <2>2, <2>3
<1>9. IsFold(h, k + 1, b, op)
  BY <1>7, <1>8 DEF IsFold
<1>. QED  BY <1>4, <1>9 DEF FoldExists

LEMMA FoldTotal ==
  ASSUME NEW n \in Nat, NEW X, NEW b \in X, NEW op, StepsWithin(op, n, X)
  PROVE  FoldExists(n, X, b, op)
<1>. DEFINE S == {k \in Nat : k <= n => FoldExists(k, X, b, op)}
<1>1. 0 \in S
  BY FoldOfNothing
<1>2. ASSUME NEW k \in Nat, k \in S
      PROVE  k + 1 \in S
  <2>1. SUFFICES ASSUME k + 1 <= n PROVE FoldExists(k + 1, X, b, op)
    OBVIOUS
  <2>2. FoldExists(k, X, b, op)
    BY <1>2, <2>1
  <2>3. \A x \in X : op[k + 1][x] \in X
    BY <2>1 DEF StepsWithin
  <2>. QED  BY <2>2, <2>3, FoldOfMore
<1>3. n \in S
  <2>. HIDE DEF S
  <2>. QED  BY <1>1, <1>2, Induction
<1>. QED  BY <1>3

\* What each step keeps, the fold keeps.
LEMMA FoldKeeps ==
  ASSUME NEW n \in Nat, NEW X, NEW g, g[{}] \in X,
         \A k \in 1 .. n : g[(1 .. k) \ {k}] \in X => g[1 .. k] \in X
  PROVE  g[1 .. n] \in X
<1>. DEFINE S == {k \in Nat : k <= n => g[1 .. k] \in X}
<1>1. 0 \in S
  <2>1. 1 .. 0 = {}
    OBVIOUS
  <2>. QED  BY <2>1
<1>2. ASSUME NEW k \in Nat, k \in S
      PROVE  k + 1 \in S
  <2>1. (1 .. k + 1) \ {k + 1} = 1 .. k
    OBVIOUS
  <2>2. SUFFICES ASSUME k + 1 <= n
                 PROVE  g[1 .. k + 1] \in X
    OBVIOUS
  <2>3. g[1 .. k] \in X /\ k + 1 \in 1 .. n
    BY <1>2, <2>2
  <2>. QED  BY <2>1, <2>3
<1>. HIDE DEF S
<1>3. n \in S
  BY <1>1, <1>2, Induction
<1>. QED  BY <1>3 DEF S

\* The filter of a sequence all of whose elements pass is the sequence.
LEMMA PlacesOfAll ==
  ASSUME NEW n \in Nat, NEW I, 1 .. n \subseteq I
  PROVE  Places(n, I) = [i \in 1 .. n |-> i]
<1>. DEFINE id(k) == [i \in 1 .. k |-> i]
            S == {k \in Nat : k <= n => Places(k, I) = id(k)}
<1>1. 0 \in S
  <2>1. Places(0, I) = <<>> /\ id(0) = <<>>
    BY PlacesStep
  <2>. QED  BY <2>1
<1>2. ASSUME NEW k \in Nat, k \in S
      PROVE  k + 1 \in S
  <2>1. SUFFICES ASSUME k + 1 <= n
                 PROVE  Places(k + 1, I) = id(k + 1)
    OBVIOUS
  <2>2. k + 1 \in I /\ Places(k, I) = id(k)
    BY <1>2, <2>1
  <2>3. Places(k + 1, I) = Append(id(k), k + 1)
    <3>. HIDE DEF id
    <3>. QED  BY <2>2, PlacesStep
  <2>4. Append(id(k), k + 1) = id(k + 1)
    OBVIOUS
  <2>. QED  BY <2>3, <2>4
<1>3. n \in S
  <2>. HIDE DEF S
  <2>. QED  BY <1>1, <1>2, Induction
<1>. QED  BY <1>3

LEMMA SelAll ==
  ASSUME NEW S, NEW s \in Seq(S), NEW P, \A i \in 1 .. Len(s) : s[i] \in P
  PROVE  Sel(s, P) = s
<1>1. Len(s) \in Nat /\ DOMAIN s = 1 .. Len(s) /\ s = [i \in 1 .. Len(s) |-> s[i]]
  BY LenProperties
<1>. DEFINE I == {i \in DOMAIN s : s[i] \in P}
            p == Places(Len(s), I)
<1>2. p = [i \in 1 .. Len(s) |-> i]
  <2>1. 1 .. Len(s) \subseteq I
    BY <1>1
  <2>. HIDE DEF I
  <2>. QED  BY <1>1, <2>1, PlacesOfAll DEF p
<1>3. Sel(s, P) = [j \in DOMAIN p |-> s[p[j]]]
  BY DEF Sel, Chosen
<1>. HIDE DEF p
<1>4. DOMAIN p = 1 .. Len(s) /\ \A i \in 1 .. Len(s) : p[i] = i
  BY <1>2
<1>. QED  BY <1>1, <1>3, <1>4

\* What a filter returns is a sequence of what passes.
LEMMA SelWithin ==
  ASSUME NEW S, NEW s \in Seq(S), NEW P
  PROVE  Sel(s, P) \in Seq(S \cap P)
<1>. DEFINE c == Sel(s, P)
<1>1. c \in Seq(S) /\ \A j \in 1 .. Len(c) : c[j] \in P
  BY SelType
<1>. HIDE DEF c
<1>2. Len(c) \in Nat /\ c = [j \in 1 .. Len(c) |-> c[j]] /\ \A j \in 1 .. Len(c) : c[j] \in S
  BY <1>1, LenProperties, ElementOfSeq
<1>3. c \in [1 .. Len(c) -> S \cap P]
  BY <1>1, <1>2
<1>4. c \in Seq(S \cap P)
  BY <1>2, <1>3
<1>. QED  BY <1>4 DEF c

\* A sequence all of whose elements are in a set is one over that set.
LEMMA SeqOver ==
  ASSUME NEW S, NEW s \in Seq(S), NEW P, \A i \in 1 .. Len(s) : s[i] \in P
  PROVE  s \in Seq(P)
<1>1. Len(s) \in Nat /\ s = [j \in 1 .. Len(s) |-> s[j]]
  BY LenProperties
<1>2. s \in [1 .. Len(s) -> P]
  BY <1>1
<1>. QED  BY <1>1, <1>2

\* A list of sequences is put together one after the other.
Joined(s, h) ==
  /\ h[1] = s[1] /\ \A i \in 2 .. Len(s) : h[i] = h[i - 1] \o s[i]
  /\ FlattenSeq(s) = h[Len(s)]

LEMMA FlattenSteps ==
  ASSUME NEW S, NEW s \in Seq(Seq(S))
  PROVE  Len(s) = 0 \/ \E h : Joined(s, h) /\ \A i \in 1 .. Len(s) : h[i] \in Seq(S)
<1>1. Len(s) \in Nat /\ DOMAIN s = 1 .. Len(s) /\ \A i \in 1 .. Len(s) : s[i] \in Seq(S)
  BY LenProperties, ElementOfSeq
<1>3. CASE Len(s) # 0
  <2>. DEFINE n == Len(s) - 1
              X == Seq(S)
              step(f) == [i \in 1 .. Len(s) |-> IF i = 1 THEN s[i] ELSE f[i - 1] \o s[i]]
              op == [i \in 1 .. n |-> [x \in X |-> x \o s[i + 1]]]
  <2>1. n \in Nat /\ s[1] \in X /\ Len(s) = n + 1
    BY <1>1, <1>3
  <2>2. \A i \in 1 .. n : \A x \in X : op[i][x] = x \o s[i + 1] /\ op[i][x] \in X
    <3>1. \A i \in 1 .. n : \A x \in X : x \o s[i + 1] \in X
      <4>1. \A i \in 1 .. n : i + 1 \in 1 .. Len(s)
        BY <2>1
      <4>. QED  BY <4>1, <1>1, ConcatProperties
    <3>. QED  BY <3>1
  <2>3. StepsWithin(op, n, X)
    BY <2>2 DEF StepsWithin
  <2>. HIDE DEF op, X
  <2>4. PICK g \in [0 .. n -> X] : g[0] = s[1] /\ \A i \in 1 .. n : g[i] = op[i][g[i - 1]]
    <3>. DEFINE b == s[1]
    <3>. HIDE DEF n
    <3>1. b \in X /\ n \in Nat
      BY <2>1
    <3>. HIDE DEF b
    <3>2. \E g \in [0 .. n -> X] : g[0] = b /\ \A i \in 1 .. n : g[i] = op[i][g[i - 1]]
      BY <2>3, <3>1, Recursion, Z3
    <3>. QED  BY <3>2 DEF b
  <2>. DEFINE f == [i \in 1 .. Len(s) |-> g[i - 1]]
  <2>5. f = step(f)
    <3>1. \A i \in 1 .. Len(s) : f[i] = step(f)[i]
      <4>1. \A i \in 1 .. Len(s) : i # 1 => i - 1 \in 1 .. n /\ i - 1 - 1 = i - 2 /\ i - 1 + 1 = i
                                           /\ i - 2 \in 0 .. n /\ i - 1 \in 1 .. Len(s)
        BY <2>1
      <4>2. \A i \in 1 .. Len(s) : i # 1 => g[i - 1] = g[i - 2] \o s[i]
        <5>1. ASSUME NEW i \in 1 .. Len(s), i # 1
              PROVE  g[i - 1] = g[i - 2] \o s[i]
          <6>. DEFINE j == i - 1
          <6>1. j \in 1 .. n /\ j - 1 = i - 2 /\ j + 1 = i /\ i - 2 \in 0 .. n
            BY <4>1, <5>1
          <6>. HIDE DEF j, n
          <6>2. g[j] = op[j][g[j - 1]] /\ g[j - 1] \in X
            BY <6>1, <2>4
          <6>3. g[j] = g[j - 1] \o s[j + 1]
            BY <6>1, <6>2, <2>2
          <6>. QED  BY <6>1, <6>3 DEF j
        <5>. QED  BY <5>1
      <4>3. \A i \in 1 .. Len(s) : i # 1 => f[i - 1] = g[i - 2]
        BY <4>1
      <4>4. f[1] = s[1]
        BY <2>4, <2>1
      <4>. QED  BY <4>2, <4>3, <4>4
    <3>2. DOMAIN step(f) = 1 .. Len(s) /\ step(f) = [i \in 1 .. Len(s) |-> step(f)[i]]
      OBVIOUS
    <3>3. DOMAIN f = 1 .. Len(s) /\ f = [i \in 1 .. Len(s) |-> f[i]]
      OBVIOUS
    <3>. HIDE DEF f, step
    <3>. QED  BY <3>1, <3>2, <3>3, Zenon
  <2>. DEFINE h == CHOOSE h : h = step(h)
  <2>6. h = step(h)
    <3>. HIDE DEF step, f
    <3>. QED  BY <2>5, Zenon
  <2>7. FlattenSeq(s) = h[Len(s)]
    BY <1>3 DEF FlattenSeq
  <2>. HIDE DEF h
  <2>. DEFINE H == {k \in Nat : k + 1 <= Len(s) => h[k + 1] \in X}
  <2>8. h[1] = s[1] /\ \A i \in 2 .. Len(s) : h[i] = h[i - 1] \o s[i]
    <3>1. 1 \in 1 .. Len(s) /\ \A i \in 2 .. Len(s) : i \in 1 .. Len(s) /\ i # 1
      BY <2>1
    <3>2. \A i \in 1 .. Len(s) : step(h)[i] = IF i = 1 THEN s[i] ELSE h[i - 1] \o s[i]
      OBVIOUS
    <3>. HIDE DEF step
    <3>. QED  BY <3>1, <3>2, <2>6
  <2>9. 0 \in H
    BY <2>1, <2>8
  <2>10. ASSUME NEW k \in Nat, k \in H
         PROVE  k + 1 \in H
    <3>1. SUFFICES ASSUME k + 1 + 1 <= Len(s)
                   PROVE  h[k + 1 + 1] \in X
      OBVIOUS
    <3>2. k + 2 \in 2 .. Len(s) /\ k + 2 - 1 = k + 1 /\ k + 1 + 1 = k + 2 /\ h[k + 1] \in X
      BY <2>10, <3>1, <1>1
    <3>3. h[k + 2] = h[k + 1] \o s[k + 2] /\ s[k + 2] \in X
      <4>. DEFINE j == k + 2
      <4>. HIDE DEF j
      <4>1. j \in 2 .. Len(s) /\ j - 1 = k + 1
        BY <3>2 DEF j
      <4>2. h[j] = h[j - 1] \o s[j]
        BY <4>1, <2>8
      <4>3. s[j] \in Seq(S)
        BY <4>1, <1>1
      <4>. QED  BY <4>1, <4>2, <4>3 DEF j, X
    <3>. DEFINE x == h[k + 1]
                y == s[k + 2]
    <3>4. x \in Seq(S) /\ y \in Seq(S) /\ h[k + 1 + 1] = x \o y
      BY <3>2, <3>3 DEF X
    <3>. HIDE DEF x, y
    <3>5. x \o y \in Seq(S)
      BY <3>4, ConcatProperties
    <3>. QED  BY <3>4, <3>5 DEF X
  <2>12. \A k \in Nat : k \in H
    <3>. HIDE DEF H
    <3>. QED  BY <2>9, <2>10, Induction
  <2>13. \A i \in 1 .. Len(s) : h[i] \in X
    <3>1. ASSUME NEW i \in 1 .. Len(s)
          PROVE  h[i] \in X
      <4>. DEFINE k == i - 1
      <4>1. k \in Nat /\ k + 1 = i /\ k + 1 <= Len(s)
        BY <1>1
      <4>. HIDE DEF k
      <4>2. k \in H
        BY <4>1, <2>12
      <4>. QED  BY <4>1, <4>2
    <3>. QED  BY <3>1
  <2>14. Joined(s, h)
    BY <2>7, <2>8 DEF Joined
  <2>. QED  BY <2>13, <2>14 DEF X
<1>. QED  BY <1>3

LEMMA FlattenSeqType ==
  ASSUME NEW S, NEW s \in Seq(Seq(S))
  PROVE  FlattenSeq(s) \in Seq(S)
<1>1. Len(s) \in Nat
  BY LenProperties
<1>2. CASE Len(s) = 0
  <2>1. s = <<>>
    BY <1>2, EmptySeq
  <2>. QED  BY <1>2, <2>1, EmptySeq DEF FlattenSeq
<1>3. CASE Len(s) # 0
  <2>1. PICK h : Joined(s, h) /\ \A i \in 1 .. Len(s) : h[i] \in Seq(S)
    BY <1>3, FlattenSteps
  <2>2. Len(s) \in 1 .. Len(s)
    BY <1>1, <1>3
  <2>. QED  BY <2>1, <2>2 DEF Joined
<1>. QED  BY <1>2, <1>3


\* Lists whose members look alike through a filter look alike put together.
LEMMA SelFlatten ==
  ASSUME NEW S, NEW f \in Seq(Seq(S)), NEW g \in Seq(Seq(S)), Len(f) = Len(g), NEW P,
         \A i \in 1 .. Len(f) : Sel(f[i], P) = Sel(g[i], P)
  PROVE  Sel(FlattenSeq(f), P) = Sel(FlattenSeq(g), P)
<1>1. /\ Len(f) \in Nat
      /\ \A i \in 1 .. Len(f) : f[i] \in Seq(S) /\ g[i] \in Seq(S)
  BY LenProperties, ElementOfSeq
<1>2. CASE Len(f) = 0
  <2>1. f = <<>> /\ g = <<>>
    BY <1>2, EmptySeq
  <2>. QED  BY <2>1
<1>3. CASE Len(f) # 0
  <2>1. PICK h : Joined(f, h) /\ \A i \in 1 .. Len(f) : h[i] \in Seq(S)
    BY <1>3, FlattenSteps
  <2>2. PICK k : Joined(g, k) /\ \A i \in 1 .. Len(g) : k[i] \in Seq(S)
    BY <1>3, FlattenSteps
  <2>. DEFINE G == {n \in Nat : n + 1 <= Len(f) => Sel(h[n + 1], P) = Sel(k[n + 1], P)}
  <2>3. 0 \in G
    <3>1. h[1] = f[1] /\ k[1] = g[1] /\ 1 \in 1 .. Len(f) /\ 0 + 1 = 1
      BY <2>1, <2>2, <1>1, <1>3 DEF Joined
    <3>. QED  BY <3>1
  <2>4. ASSUME NEW n \in Nat, n \in G
        PROVE  n + 1 \in G
    <3>1. SUFFICES ASSUME n + 1 + 1 <= Len(f)
                   PROVE  Sel(h[n + 1 + 1], P) = Sel(k[n + 1 + 1], P)
      OBVIOUS
    <3>. DEFINE i == n + 1 + 1
                j == n + 1
    <3>2. i \in 2 .. Len(f) /\ i \in 1 .. Len(f) /\ j \in 1 .. Len(f) /\ i - 1 = j /\ j <= Len(f)
      BY <1>1, <3>1, SMTT(30)
    <3>3. Sel(h[j], P) = Sel(k[j], P)
      BY <2>4, <3>2
    <3>. HIDE DEF i, j
    <3>4. h[i] = h[j] \o f[i] /\ k[i] = k[j] \o g[i]
      BY <2>1, <2>2, <3>2 DEF Joined
    <3>5. /\ h[j] \in Seq(S) /\ k[j] \in Seq(S) /\ f[i] \in Seq(S) /\ g[i] \in Seq(S)
          /\ Sel(f[i], P) = Sel(g[i], P)
      BY <2>1, <2>2, <3>2, <1>1
    <3>. DEFINE a == h[j]
                b == k[j]
                c == f[i]
                d == g[i]
    <3>6. a \in Seq(S) /\ b \in Seq(S) /\ c \in Seq(S) /\ d \in Seq(S)
      BY <3>5
    <3>. HIDE DEF a, b, c, d
    <3>7. \A u, v \in Seq(S) : Sel(u \o v, P) = Sel(u, P) \o Sel(v, P)
      BY SelConcat
    <3>8. Sel(h[i], P) = Sel(k[i], P)
      <4>1. Sel(a \o c, P) = Sel(a, P) \o Sel(c, P)
        BY <3>6, <3>7
      <4>2. Sel(b \o d, P) = Sel(b, P) \o Sel(d, P)
        BY <3>6, <3>7
      <4>. QED  BY <3>3, <3>4, <3>5, <4>1, <4>2 DEF a, b, c, d
    <3>. QED  BY <3>8 DEF i
  <2>5. \A n \in Nat : n \in G
    <3>. HIDE DEF G
    <3>. QED  BY <2>3, <2>4, Induction
  <2>. DEFINE n == Len(f) - 1
  <2>6. n \in Nat /\ n + 1 = Len(f) /\ n + 1 <= Len(f)
    BY <1>1, <1>3
  <2>7. n \in G
    <3>. HIDE DEF G, n
    <3>. QED  BY <2>5, <2>6
  <2>8. Sel(h[Len(f)], P) = Sel(k[Len(f)], P)
    <3>. HIDE DEF n
    <3>. QED  BY <2>6, <2>7
  <2>. QED  BY <2>1, <2>2, <2>8 DEF Joined
<1>. QED  BY <1>2, <1>3

LEMMA FlattenOfNothing == FlattenSeq(<<>>) = <<>>
BY DEF FlattenSeq

(***************************************************************************)
(* Fresh numbers.                                                          *)
(***************************************************************************)
LEMMA MaxOfBounded ==
  ASSUME NEW b \in Nat, NEW I \in SUBSET (0 .. b), I # {}
  PROVE  Max(I) \in I /\ \A i \in I : i <= Max(I)
<1>. DEFINE J == {j \in 1 .. b + 1 : j - 1 \in I}
<1>0. \A i \in I : i \in 0 .. b /\ i + 1 \in 1 .. b + 1 /\ i + 1 - 1 = i
  OBVIOUS
<1>1. J \in SUBSET (1 .. b + 1) /\ b + 1 \in Nat /\ J # {}
  <2>1. PICK i \in I : TRUE
    OBVIOUS
  <2>2. i + 1 \in J
    BY <1>0, <2>1
  <2>3. J \in SUBSET (1 .. b + 1)
    OBVIOUS
  <2>4. J # {}
    BY <2>2
  <2>. HIDE DEF J
  <2>. QED  BY <2>3, <2>4
<1>2. PICK k \in J : \A j \in J : j <= k
  <2>1. MaxOrZero(J) \in J /\ \A j \in J : j <= MaxOrZero(J)
    <3>. HIDE DEF J
    <3>. QED  BY <1>1, MaxOfPlaces
  <2>. HIDE DEF J
  <2>. QED  BY <2>1
<1>3. PICK m \in I : k = m + 1
  <2>1. k - 1 \in I /\ k = k - 1 + 1
    BY <1>2
  <2>. QED  BY <2>1
<1>4. \A i \in I : i <= m
  <2>1. \A i \in I : i + 1 \in J /\ i \in Nat
    BY <1>0
  <2>. HIDE DEF J
  <2>2. \A i \in I : i + 1 <= m + 1
    BY <2>1, <1>2, <1>3
  <2>. QED  BY <2>1, <2>2
<1>5. \A i \in I : m >= i
  BY <1>4
<1>. QED  BY <1>5 DEF Max

LEMMA Bounded ==
  ASSUME NEW s \in Seq(Nat)
  PROVE  \E b \in Nat : \A i \in 1 .. Len(s) : s[i] <= b
<1>1. Len(s) \in Nat /\ \A i \in 1 .. Len(s) : s[i] \in Nat
  BY LenProperties, ElementOfSeq
<1>. DEFINE S == {k \in Nat : k <= Len(s) => \E b \in Nat : \A i \in 1 .. k : s[i] <= b}
<1>2. 0 \in S
  OBVIOUS
<1>3. ASSUME NEW k \in Nat, k \in S
      PROVE  k + 1 \in S
  <2>1. SUFFICES ASSUME k + 1 <= Len(s)
                 PROVE  \E b \in Nat : \A i \in 1 .. k + 1 : s[i] <= b
    OBVIOUS
  <2>2. PICK b \in Nat : \A i \in 1 .. k : s[i] <= b
    BY <1>3, <2>1, <1>1
  <2>3. s[k + 1] \in Nat
    BY <1>1, <2>1
  <2>. DEFINE c == b + s[k + 1]
  <2>4. c \in Nat /\ \A i \in 1 .. k : s[i] <= c
    <3>1. \A i \in 1 .. k : s[i] \in Nat
      BY <1>1, <2>1
    <3>. QED  BY <2>2, <2>3, <3>1
  <2>5. s[k + 1] <= c
    BY <2>3
  <2>6. \A i \in 1 .. k + 1 : i \in 1 .. k \/ i = k + 1
    OBVIOUS
  <2>. HIDE DEF c
  <2>. QED  BY <2>4, <2>5, <2>6
<1>4. Len(s) \in S
  <2>. HIDE DEF S
  <2>. QED  BY <1>1, <1>2, <1>3, Induction
<1>. QED  BY <1>1, <1>4

LEMMA ElementsOf ==
  ASSUME NEW comp \in Seq(Transformation), NEW i \in 1 .. Len(comp)
  PROVE  comp[i] \in Transformation
BY ElementOfSeq

\* A new transformation is taken for no other, neither for one that is there
\* nor for one that a mark still points to (same, ptr_id).
THEOREM FreshIdIsFresh ==
  ASSUME NEW comp \in Seq(Transformation)
  PROVE  /\ FreshId(comp) \in Nat \ {0}
         /\ \A i \in 1 .. Len(comp) : comp[i].id < FreshId(comp) /\ comp[i].target < FreshId(comp)
<1>1. /\ Len(comp) \in Nat /\ DOMAIN comp = 1 .. Len(comp)
      /\ \A i \in 1 .. Len(comp) : comp[i].id \in Nat /\ comp[i].target \in Nat
  <2>1. \A i \in 1 .. Len(comp) : comp[i] \in Transformation
    BY ElementsOf
  <2>. QED  BY <2>1, LenProperties DEF TransformationFields, Transformation
<1>2. CASE comp = <<>>
  <2>1. Len(comp) = 0
    BY <1>2
  <2>. QED  BY <1>2, <2>1 DEF FreshId
<1>3. CASE comp # <<>>
  <2>. DEFINE ids == [i \in 1 .. Len(comp) |-> comp[i].id]
              targets == [i \in 1 .. Len(comp) |-> comp[i].target]
              I == {comp[i].id : i \in DOMAIN comp} \cup {comp[i].target : i \in DOMAIN comp}
  <2>1. PICK a \in Nat : \A i \in 1 .. Len(comp) : comp[i].id <= a
    <3>1. ids \in Seq(Nat) /\ Len(ids) = Len(comp) /\ \A i \in 1 .. Len(comp) : ids[i] = comp[i].id
      BY <1>1
    <3>. HIDE DEF ids
    <3>2. PICK a \in Nat : \A i \in 1 .. Len(ids) : ids[i] <= a
      BY <3>1, Bounded
    <3>. QED  BY <3>1, <3>2
  <2>2. PICK b \in Nat : \A i \in 1 .. Len(comp) : comp[i].target <= b
    <3>1. /\ targets \in Seq(Nat) /\ Len(targets) = Len(comp)
          /\ \A i \in 1 .. Len(comp) : targets[i] = comp[i].target
      BY <1>1
    <3>. HIDE DEF targets
    <3>2. PICK b \in Nat : \A i \in 1 .. Len(targets) : targets[i] <= b
      BY <3>1, Bounded
    <3>. QED  BY <3>1, <3>2
  <2>. DEFINE c == a + b
  <2>3. c \in Nat /\ I \in SUBSET (0 .. c)
    BY <1>1, <2>1, <2>2
  <2>5. \A i \in 1 .. Len(comp) : comp[i].id \in I /\ comp[i].target \in I
    BY <1>1
  <2>4. I # {}
    <3>1. 1 \in 1 .. Len(comp)
      BY <1>1, <1>3, EmptySeq
    <3>. HIDE DEF I
    <3>. QED  BY <2>5, <3>1
  <2>6. FreshId(comp) = 1 + Max(I)
    BY <1>3 DEF FreshId
  <2>. HIDE DEF I, c
  <2>7. Max(I) \in I /\ \A i \in I : i <= Max(I)
    BY <2>3, <2>4, MaxOfBounded
  <2>8. Max(I) \in Nat /\ \A i \in I : i \in Nat
    <3>1. \A i \in 0 .. c : i \in Nat
      BY <2>3
    <3>. QED  BY <2>3, <2>7, <3>1
  <2>. QED  BY <2>5, <2>6, <2>7, <2>8
<1>. QED  BY <1>2, <1>3

\* A composition is what comes before a place and what comes from there on.
LEMMA Cut ==
  ASSUME NEW S, NEW s \in Seq(S), NEW start \in 1 .. Len(s) + 1
  PROVE  LET before == SubSeq(s, 1, start - 1)
             rest == SubSeq(s, start, Len(s))
         IN  /\ before \in Seq(S) /\ rest \in Seq(S) /\ s = before \o rest
             /\ Len(before) = start - 1 /\ Len(rest) = Len(s) - start + 1
             /\ \A i \in 1 .. Len(before) : before[i] = s[i]
             /\ \A i \in 1 .. Len(rest) : rest[i] = s[start - 1 + i]
<1>. DEFINE before == SubSeq(s, 1, start - 1)
            rest == SubSeq(s, start, Len(s))
<1>1. Len(s) \in Nat /\ start \in Nat /\ \A i \in 1 .. Len(s) : s[i] \in S
  BY LenProperties, ElementOfSeq
<1>2. /\ before \in Seq(S)
      /\ Len(before) = start - 1
      /\ \A i \in 1 .. start - 1 : before[i] = s[i]
  <2>1. \A i \in 1 .. start - 1 : s[i] \in S
    BY <1>1
  <2>2. 1 \in Int /\ start - 1 \in Int
    BY <1>1
  <2>3. /\ before \in Seq(S)
        /\ Len(before) = IF 1 <= start - 1 THEN start - 1 - 1 + 1 ELSE 0
        /\ \A i \in 1 .. start - 1 - 1 + 1 : before[i] = s[1 + i - 1]
    BY <2>1, <2>2, SubSeqProperties
  <2>4. start - 1 - 1 + 1 = start - 1 /\ \A i \in 1 .. start - 1 : 1 + i - 1 = i
    BY <1>1
  <2>. QED  BY <2>3, <2>4, <1>1
<1>3. /\ rest \in Seq(S)
      /\ Len(rest) = Len(s) - start + 1
      /\ \A i \in 1 .. Len(s) - start + 1 : rest[i] = s[start - 1 + i]
  <2>1. \A i \in start .. Len(s) : s[i] \in S
    BY <1>1
  <2>2. start \in Int /\ Len(s) \in Int
    BY <1>1
  <2>3. /\ rest \in Seq(S)
        /\ Len(rest) = IF start <= Len(s) THEN Len(s) - start + 1 ELSE 0
        /\ \A i \in 1 .. Len(s) - start + 1 : rest[i] = s[start + i - 1]
    BY <2>1, <2>2, SubSeqProperties
  <2>4. \A i \in 1 .. Len(s) - start + 1 : start + i - 1 = start - 1 + i
    BY <1>1
  <2>. QED  BY <2>3, <2>4, <1>1
<1>4. before \o rest = s
  <2>1. 1 \in 1 .. Len(s) + 1 /\ start - 1 \in 1 - 1 .. Len(s) /\ Len(s) \in start - 1 .. Len(s)
    BY <1>1
  <2>2. SubSeq(s, 1, start - 1) \o SubSeq(s, start - 1 + 1, Len(s)) = SubSeq(s, 1, Len(s))
    BY <2>1, ConcatAdjacentSubSeq
  <2>3. start - 1 + 1 = start
    BY <1>1
  <2>. QED  BY <2>2, <2>3, SubSeqFull
<1>. HIDE DEF before, rest
<1>5. QED  BY <1>2, <1>3, <1>4 DEF before, rest

(***************************************************************************)
(* Letters: a mark changes neither the family of a letter nor whether it   *)
(* is a vowel.                                                             *)
(***************************************************************************)
RowA == <<"a", "a^", "a(", "_", "_">>
RowE == <<"e", "e^", "_", "_", "_">>
RowO == <<"o", "o^", "_", "o+", "_">>
RowU == <<"u", "_", "_", "u+", "_">>
RowD == <<"d", "_", "_", "_", "d-">>

LEMMA RowValues ==
  /\ RowA[1] = "a" /\ RowA[2] = "a^" /\ RowA[3] = "a(" /\ RowA[4] = "_" /\ RowA[5] = "_"
  /\ RowE[1] = "e" /\ RowE[2] = "e^" /\ RowE[3] = "_" /\ RowE[4] = "_" /\ RowE[5] = "_"
  /\ RowO[1] = "o" /\ RowO[2] = "o^" /\ RowO[3] = "_" /\ RowO[4] = "o+" /\ RowO[5] = "_"
  /\ RowU[1] = "u" /\ RowU[2] = "_" /\ RowU[3] = "_" /\ RowU[4] = "u+" /\ RowU[5] = "_"
  /\ RowD[1] = "d" /\ RowD[2] = "_" /\ RowD[3] = "_" /\ RowD[4] = "_" /\ RowD[5] = "d-"
BY DEF RowA, RowE, RowO, RowU, RowD

LEMMA LettersOf5 ==
  ASSUME NEW row
  PROVE  RowLetters(row) = {row[1], row[2], row[3], row[4], row[5]} \ {"_"}
<1>1. 1 .. 5 = {1, 2, 3, 4, 5}
  OBVIOUS
<1>2. {row[i] : i \in {1, 2, 3, 4, 5}} = {row[1], row[2], row[3], row[4], row[5]}
  OBVIOUS
<1>. QED  BY <1>1, <1>2, Zenon DEF RowLetters

LEMMA LettersOfRows ==
  /\ RowLetters(RowA) = {"a", "a^", "a("} /\ RowLetters(RowE) = {"e", "e^"}
  /\ RowLetters(RowO) = {"o", "o^", "o+"} /\ RowLetters(RowU) = {"u", "u+"}
  /\ RowLetters(RowD) = {"d", "d-"}
<1>1. RowLetters(RowA) = {"a", "a^", "a("}
  BY RowValues, LettersOf5, ZenonT(30)
<1>2. RowLetters(RowE) = {"e", "e^"}
  BY RowValues, LettersOf5, ZenonT(30)
<1>3. RowLetters(RowO) = {"o", "o^", "o+"}
  BY RowValues, LettersOf5, ZenonT(30)
<1>4. RowLetters(RowU) = {"u", "u+"}
  BY RowValues, LettersOf5, ZenonT(30)
<1>5. RowLetters(RowD) = {"d", "d-"}
  BY RowValues, LettersOf5, ZenonT(30)
<1>. QED  BY <1>1, <1>2, <1>3, <1>4, <1>5

LEMMA Rows == MarkRows = {RowA, RowE, RowO, RowU, RowD}
BY DEF MarkRows, RowA, RowE, RowO, RowU, RowD

LEMMA RowUnique ==
  ASSUME NEW l \in Markable, NEW row \in MarkRows, l \in RowLetters(row)
  PROVE  RowOf[l] = row
<1>1. \A r \in MarkRows : l \in RowLetters(r) => r = row
  BY Rows, LettersOfRows
<1>2. RowOf[l] = CHOOSE r \in MarkRows : l \in RowLetters(r)
  BY DEF RowOf
<1>. QED  BY <1>1, <1>2

LEMMA RowOfLetter ==
  ASSUME NEW l \in Markable
  PROVE  RowOf[l] \in MarkRows /\ l \in RowLetters(RowOf[l])
<1>1. PICK row \in MarkRows : l \in RowLetters(row)
  BY DEF Markable
<1>. QED  BY <1>1, RowUnique

LEMMA RowEntries ==
  ASSUME NEW row \in MarkRows
  PROVE  /\ row[1] # "_" /\ row[1] \in Alpha
         /\ \A i \in 1 .. 5 : row[i] # "_" => row[i] \in RowLetters(row)
<1>1. row[1] # "_" /\ row[1] \in Alpha
  BY Rows, RowValues DEF Alpha
<1>2. \A i \in 1 .. 5 : row[i] # "_" => row[i] \in RowLetters(row)
  BY DEF RowLetters
<1>. QED  BY <1>1, <1>2

LEMMA AddMarkFamily ==
  ASSUME NEW l, NEW m \in Nat
  PROVE  /\ l \notin Markable => AddMark(l, m) = l
         /\ l \in Markable => AddMark(l, m) \in Markable /\ RowOf[AddMark(l, m)] = RowOf[l]
<1>1. CASE l \in Markable /\ m < 5 /\ RowOf[l][m + 1] # "_"
  <2>1. AddMark(l, m) = RowOf[l][m + 1] /\ m + 1 \in 1 .. 5
    <3>1. AddMark(l, m) = RowOf[l][m + 1]
      BY <1>1, Zenon DEF AddMark
    <3>2. m < 5
      BY <1>1, Zenon
    <3>3. m + 1 \in 1 .. 5
      BY <3>2
    <3>. QED  BY <3>1, <3>3
  <2>2. RowOf[l] \in MarkRows
    BY <1>1, RowOfLetter
  <2>3. AddMark(l, m) \in RowLetters(RowOf[l])
    BY <1>1, <2>1, <2>2, RowEntries
  <2>4. AddMark(l, m) \in Markable
    BY <2>2, <2>3 DEF Markable
  <2>. QED  BY <1>1, <2>2, <2>3, <2>4, RowUnique
<1>2. CASE ~(l \in Markable /\ m < 5 /\ RowOf[l][m + 1] # "_")
  BY <1>2 DEF AddMark
<1>. QED  BY <1>1, <1>2

LEMMA UnmarkedOf ==
  ASSUME NEW l
  PROVE  /\ l \notin Markable => Unmarked(l) = l
         /\ l \in Markable => Unmarked(l) = RowOf[l][1] /\ Unmarked(l) \in Alpha
<1>1. 0 + 1 = 1 /\ 0 < 5
  OBVIOUS
<1>2. l \in Markable => RowOf[l][1] # "_" /\ RowOf[l][1] \in Alpha
  BY RowOfLetter, RowEntries
<1>. QED  BY <1>1, <1>2 DEF Unmarked, AddMark, None

LEMMA MarkKeepsFamily ==
  ASSUME NEW l, NEW m \in Nat
  PROVE  Unmarked(AddMark(l, m)) = Unmarked(l)
<1>1. CASE l \in Markable
  <2>1. AddMark(l, m) \in Markable /\ RowOf[AddMark(l, m)] = RowOf[l]
    BY <1>1, AddMarkFamily
  <2>. QED  BY <1>1, <2>1, UnmarkedOf
<1>2. CASE l \notin Markable
  BY <1>2, AddMarkFamily
<1>. QED  BY <1>1, <1>2

LEMMA VowelLetters ==
  VowelSet = {"a", "a^", "a(", "e", "e^", "o", "o^", "o+", "u", "u+", "i", "y"}
<1>1. {r \in MarkRows : r[1] # "d"} = {RowA, RowE, RowO, RowU}
  BY Rows, RowValues
<1>2. UNION {RowLetters(row) : row \in {RowA, RowE, RowO, RowU}}
        = {"a", "a^", "a(", "e", "e^", "o", "o^", "o+", "u", "u+"}
  <2>1. {RowLetters(row) : row \in {RowA, RowE, RowO, RowU}}
          = {RowLetters(RowA), RowLetters(RowE), RowLetters(RowO), RowLetters(RowU)}
    OBVIOUS
  <2>. QED  BY <2>1, LettersOfRows
<1>. QED  BY <1>1, <1>2 DEF VowelSet

LEMMA VowelsOfMarkable ==
  ASSUME NEW l \in Markable
  PROVE  IsVowel(l) <=> RowOf[l] # RowD
<1>1. RowOf[l] \in MarkRows /\ l \in RowLetters(RowOf[l])
  BY RowOfLetter
<1>2. \A r \in MarkRows : (\A x \in RowLetters(r) : x \in VowelSet <=> r # RowD)
  <2>1. RowA # RowD /\ RowE # RowD /\ RowO # RowD /\ RowU # RowD
    BY RowValues
  <2>. QED  BY <2>1, Rows, LettersOfRows, VowelLetters
<1>. QED  BY <1>1, <1>2 DEF IsVowel

LEMMA MarkKeepsVowel ==
  ASSUME NEW l, NEW m \in Nat
  PROVE  IsVowel(AddMark(l, m)) <=> IsVowel(l)
<1>1. CASE l \in Markable
  <2>1. AddMark(l, m) \in Markable /\ RowOf[AddMark(l, m)] = RowOf[l]
    BY <1>1, AddMarkFamily
  <2>. QED  BY <1>1, <2>1, VowelsOfMarkable
<1>2. CASE l \notin Markable
  BY <1>2, AddMarkFamily
<1>. QED  BY <1>1, <1>2

LEMMA MarkedIsSymbol ==
  ASSUME NEW l \in Symbols, NEW m \in Nat
  PROVE  AddMark(l, m) \in Symbols
<1>1. CASE l \in Markable
  BY <1>1, AddMarkFamily DEF Symbols
<1>2. CASE l \notin Markable
  BY <1>2, AddMarkFamily
<1>. QED  BY <1>1, <1>2

\* Every key that can be composed is a symbol, and the letter without its mark
\* is one of the keys of a word.
LEMMA ProcessableKey ==
  ASSUME NEW im, MethodOK(im), NEW key, CanProcessKey(key, im.keys)
  PROVE  /\ key \in Symbols \ {NoKey}
         /\ ~Separates(Unmarked(key), im.keys)
         /\ key \notin {" ", ":", "BackSpace", "Tab", "Paste", "Escape", "Return", "page", "click", "reset", "leave"}
<1>1. im.keys \subseteq (Alpha \cup Punctuation \cup Digits) \ {" ", ":"}
  BY DEF MethodOK
<1>2. key \in Markable => Unmarked(key) \in Alpha
  BY UnmarkedOf
<1>3. key \notin Markable => Unmarked(key) = key
  BY UnmarkedOf
<1>4. Markable \subseteq {"a", "a^", "a(", "e", "e^", "o", "o^", "o+", "u", "u+", "d", "d-"}
  BY Rows, LettersOfRows DEF Markable
<1>5. CASE key \in Markable
  BY <1>2, <1>4, <1>5 DEF Separates, Symbols, IsAlpha, NoKey
<1>6. CASE key \notin Markable
  <2>1. IsAlpha(key) \/ key \in im.keys
    BY <1>3, <1>6 DEF CanProcessKey, IsVietnamese, None
  <2>2. key \in Symbols /\ ~Separates(Unmarked(key), im.keys)
    BY <1>1, <1>3, <1>6, <2>1 DEF Separates, Symbols, IsAlpha
  <2>3. key \in Alpha \cup ((Punctuation \cup Digits) \ {" ", ":"})
    BY <1>1, <2>1 DEF IsAlpha
  <2>4. key \notin {NoKey, " ", ":", "BackSpace", "Tab", "Paste", "Escape", "Return", "page", "click", "reset", "leave"}
    BY <2>3 DEF Alpha, Punctuation, Digits, NoKey
  <2>. QED  BY <2>2, <2>4
<1>. QED  BY <1>5, <1>6

(***************************************************************************)
(* What a composition is made of: letters, whose ids are in A, and marks   *)
(* and tones on the letters of A.                                          *)
(***************************************************************************)
Ids == Nat \ {0}
Letter(im, t) ==
  /\ t.target = 0 /\ t.key # NoKey /\ t.on = t.gives
  /\ \/ t.on = t.key
     \/ t.key \in im.appending /\ Unmarked(t.on) \in Alpha /\ (IsVowel(t.key) => IsVowel(t.on))
On(im, A) ==
  {t \in Transformation : IF t.kind = "append" THEN t.id \in A /\ Letter(im, t) ELSE t.target \in A}

Appended == {t \in Transformation : t.kind = "append"}
EffectsOn(id) == {t \in Transformation : t.kind # "append" /\ t.target = id}
Keyed == {t \in Transformation : t.key # NoKey}

LEMMA OnIsTransformation ==
  ASSUME NEW im, NEW A, NEW s \in Seq(On(im, A))
  PROVE  s \in Seq(Transformation)
<1>1. On(im, A) \subseteq Transformation
  BY DEF On
<1>. QED  BY <1>1, SeqMonotonic

LEMMA OnMore ==
  ASSUME NEW im, NEW A, NEW B, A \subseteq B
  PROVE  On(im, A) \subseteq On(im, B)
BY DEF On

LEMMA FilterAppended ==
  ASSUME NEW s \in Seq(Transformation)
  PROVE  AppendedOf(s) = Sel(s, Appended)
<1>1. DOMAIN s = 1 .. Len(s) /\ \A i \in 1 .. Len(s) : s[i] \in Transformation
  BY LenProperties, ElementOfSeq
<1>2. {i \in DOMAIN s : s[i].kind = "append"} = {i \in DOMAIN s : s[i] \in Appended}
  BY <1>1 DEF Appended
<1>. QED  BY <1>2 DEF AppendedOf, Filtered, Sel

LEMMA FilterVisible ==
  ASSUME NEW im, NEW A, NEW s \in Seq(On(im, A))
  PROVE  Filtered(s, Visible) = Sel(s, Appended)
<1>1. DOMAIN s = 1 .. Len(s) /\ \A i \in 1 .. Len(s) : s[i] \in On(im, A)
  BY LenProperties, ElementOfSeq
<1>2. {i \in DOMAIN s : Visible(s[i])} = {i \in DOMAIN s : s[i] \in Appended}
  BY <1>1 DEF Appended, Visible, On, Letter, NoKey
<1>. QED  BY <1>2 DEF Filtered, Sel

LEMMA FilterEffects ==
  ASSUME NEW s \in Seq(Transformation), NEW id
  PROVE  Effects(s, id) = Sel(s, EffectsOn(id))
<1>1. DOMAIN s = 1 .. Len(s) /\ \A i \in 1 .. Len(s) : s[i] \in Transformation
  BY LenProperties, ElementOfSeq
<1>2. {i \in DOMAIN s : s[i].kind # "append" /\ s[i].target = id}
        = {i \in DOMAIN s : s[i] \in EffectsOn(id)}
  BY <1>1 DEF EffectsOn
<1>. QED  BY <1>2 DEF Effects, Filtered, Sel

LEMMA FilterKeyed ==
  ASSUME NEW s \in Seq(Transformation)
  PROVE  Filtered(s, LAMBDA t : t.key # "") = Sel(s, Keyed)
<1>1. DOMAIN s = 1 .. Len(s) /\ \A i \in 1 .. Len(s) : s[i] \in Transformation
  BY LenProperties, ElementOfSeq
<1>2. {i \in DOMAIN s : s[i].key # ""} = {i \in DOMAIN s : s[i] \in Keyed}
  BY <1>1 DEF Keyed, NoKey
<1>. QED  BY <1>2 DEF Filtered, Sel

(***************************************************************************)
(* Rendered: the letter, and the marks on it in turn.                      *)
(***************************************************************************)
ApplyTo(t, ch, e) ==
  CASE e.kind = "mark" /\ e.effect = Raw -> PlainChar(t.key, t.upper)
    [] e.kind = "mark" /\ e.effect # Raw -> <<AddMark(ch[1], e.effect), ch[2], ch[3]>>
    [] e.kind = "tone" -> IF IsVowel(ch[1]) THEN <<ch[1], e.effect, ch[3]>> ELSE ch

LEMMA RenderedStep ==
  ASSUME NEW s, NEW t
  PROVE  LET e == Effects(s, t.id)
             h == CHOOSE h : h = [I \in SUBSET (DOMAIN e) |->
                                    IF I = {} THEN PlainChar(t.on, t.upper)
                                    ELSE ApplyTo(t, h[I \ {Max(I)}], e[Max(I)])]
         IN  Rendered(s, t) = h[DOMAIN e]
BY DEF Rendered, FoldLeft, MapThenFoldSet, ApplyTo

\* What becomes of a letter, effect by effect.
Takes(t, e, f) == /\ f[0] = PlainChar(t.on, t.upper)
                  /\ \A i \in 1 .. Len(e) : f[i] = ApplyTo(t, f[i - 1], e[i])

LEMMA RenderedSteps ==
  ASSUME NEW s \in Seq(Transformation), NEW t, NEW X, PlainChar(t.on, t.upper) \in X,
         \A ch \in X : \A e \in EffectsOn(t.id) : ApplyTo(t, ch, e) \in X
  PROVE  \E f : /\ Takes(t, Sel(s, EffectsOn(t.id)), f) /\ f[Len(Sel(s, EffectsOn(t.id)))] = Rendered(s, t)
                /\ \A i \in 0 .. Len(Sel(s, EffectsOn(t.id))) : f[i] \in X
<1>. DEFINE e == Effects(s, t.id)
            b == PlainChar(t.on, t.upper)
            n == Len(e)
            step(h) == [I \in SUBSET (DOMAIN e) |->
                          IF I = {} THEN b ELSE ApplyTo(t, h[I \ {Max(I)}], e[Max(I)])]
            h == CHOOSE h : h = step(h)
            op == [i \in 1 .. n |-> [ch \in X |-> ApplyTo(t, ch, e[i])]]
<1>1. Rendered(s, t) = h[DOMAIN e]
  BY RenderedStep
<1>2. e = Sel(s, EffectsOn(t.id))
  BY FilterEffects
<1>3. n \in Nat /\ DOMAIN e = 1 .. n /\ \A i \in 1 .. n : e[i] \in EffectsOn(t.id)
  <2>. HIDE DEF e
  <2>. QED  BY <1>2, SelType
<1>. HIDE DEF e, n, b
<1>4. b \in X
  BY DEF b
<1>5. \A i \in 1 .. n : \A ch \in X : op[i][ch] = ApplyTo(t, ch, e[i]) /\ op[i][ch] \in X
  BY <1>3
<1>6. StepsWithin(op, n, X)
  BY <1>5 DEF StepsWithin
<1>. HIDE DEF op
<1>7. PICK g \in [SUBSET (1 .. n) -> X] : IsFold(g, n, b, op)
  BY <1>3, <1>4, <1>6, FoldTotal DEF FoldExists
<1>8. g = step(g)
  <2>1. ASSUME NEW I \in SUBSET (1 .. n)
        PROVE  g[I] = step(g)[I]
    <3>1. CASE I = {}
      BY <3>1, <1>3, <1>7 DEF IsFold
    <3>2. CASE I # {}
      <4>1. Max(I) \in 1 .. n /\ I \ {Max(I)} \in SUBSET (1 .. n)
        <5>1. Max(I) \in I
          BY <3>2, <1>3, MaxOfPlaces
        <5>. QED  BY <5>1
      <4>2. g[I] = op[Max(I)][g[I \ {Max(I)}]] /\ g[I \ {Max(I)}] \in X
        BY <3>2, <4>1, <1>7 DEF IsFold
      <4>3. g[I] = ApplyTo(t, g[I \ {Max(I)}], e[Max(I)])
        BY <4>1, <4>2, <1>5
      <4>4. step(g)[I] = ApplyTo(t, g[I \ {Max(I)}], e[Max(I)])
        BY <3>2, <1>3
      <4>. QED  BY <4>3, <4>4
    <3>. QED  BY <3>1, <3>2
  <2>2. DOMAIN step(g) = SUBSET (1 .. n) /\ step(g) = [I \in SUBSET (1 .. n) |-> step(g)[I]]
    BY <1>3
  <2>3. g = [I \in SUBSET (1 .. n) |-> g[I]]
    OBVIOUS
  <2>. HIDE DEF step
  <2>. QED  BY <2>1, <2>2, <2>3, Zenon
<1>9. h = step(h)
  <2>. HIDE DEF step
  <2>. QED  BY <1>8, Zenon
<1>. HIDE DEF h
<1>10. h[{}] = b
  <2>1. {} \in SUBSET (DOMAIN e)
    OBVIOUS
  <2>2. step(h)[{}] = b
    BY <2>1
  <2>. HIDE DEF step
  <2>. QED  BY <2>2, <1>9
<1>11. ASSUME NEW k \in 1 .. n
       PROVE  h[1 .. k] = ApplyTo(t, h[1 .. k - 1], e[k])
  <2>. DEFINE I == 1 .. k
  <2>1. I \in SUBSET (DOMAIN e) /\ I # {} /\ I \in SUBSET (1 .. n)
    <3>1. k \in I /\ I \in SUBSET (1 .. n)
      BY <1>3
    <3>2. DOMAIN e = 1 .. n
      BY <1>3
    <3>. HIDE DEF I
    <3>. QED  BY <3>1, <3>2
  <2>2. Max(I) = k
    <3>1. Max(I) \in I /\ \A i \in I : i <= Max(I)
      <4>. HIDE DEF I
      <4>. QED  BY <2>1, <1>3, MaxOfPlaces
    <3>. QED  BY <3>1, <1>3
  <2>3. step(h)[I] = ApplyTo(t, h[I \ {Max(I)}], e[Max(I)])
    <3>. HIDE DEF I
    <3>. QED  BY <2>1
  <2>4. h[I] = ApplyTo(t, h[I \ {k}], e[k])
    <3>. HIDE DEF step, I
    <3>. QED  BY <2>2, <2>3, <1>9
  <2>5. I \ {k} = 1 .. k - 1
    BY <1>3
  <2>. QED  BY <2>4, <2>5
<1>. DEFINE f == [i \in 0 .. n |-> h[1 .. i]]
<1>12. \A i \in 1 .. n : f[i] = ApplyTo(t, f[i - 1], e[i])
  BY <1>3, <1>11
<1>13. f[0] = b /\ f[n] = h[DOMAIN e]
  <2>1. 1 .. 0 = {} /\ 0 \in 0 .. n /\ n \in 0 .. n
    BY <1>3
  <2>. QED  BY <2>1, <1>3, <1>10
<1>. HIDE DEF f
<1>14. \A i \in 0 .. n : f[i] \in X
  <2>. DEFINE S == {k \in Nat : k <= n => f[k] \in X}
  <2>1. 0 \in S
    BY <1>4, <1>13
  <2>2. ASSUME NEW k \in Nat, k \in S
        PROVE  k + 1 \in S
    <3>1. SUFFICES ASSUME k + 1 <= n
                   PROVE  f[k + 1] \in X
      OBVIOUS
    <3>2. k + 1 \in 1 .. n /\ k + 1 - 1 = k /\ f[k] \in X
      BY <1>3, <2>2, <3>1
    <3>3. f[k + 1] = ApplyTo(t, f[k + 1 - 1], e[k + 1])
      BY <1>12, <3>2
    <3>. QED  BY <1>3, <3>2, <3>3
  <2>. HIDE DEF S
  <2>3. \A k \in Nat : k \in S
    BY <2>1, <2>2, Induction
  <2>. QED  BY <1>3, <2>3 DEF S
<1>15. n = Len(Sel(s, EffectsOn(t.id)))
  BY <1>2 DEF n
<1>. QED  BY <1>1, <1>2, <1>12, <1>13, <1>14, <1>15 DEF Takes, b

LEMMA RenderedWithin ==
  ASSUME NEW s \in Seq(Transformation), NEW t, NEW X, PlainChar(t.on, t.upper) \in X,
         \A ch \in X : \A e \in EffectsOn(t.id) : ApplyTo(t, ch, e) \in X
  PROVE  /\ Rendered(s, t) \in X
         /\ Sel(s, EffectsOn(t.id)) = <<>> => Rendered(s, t) = PlainChar(t.on, t.upper)
<1>. DEFINE e == Sel(s, EffectsOn(t.id))
            b == PlainChar(t.on, t.upper)
<1>1. PICK f : Takes(t, e, f) /\ f[Len(e)] = Rendered(s, t) /\ \A i \in 0 .. Len(e) : f[i] \in X
  BY RenderedSteps
<1>2. Len(e) \in Nat /\ Len(e) \in 0 .. Len(e)
  BY SelType
<1>3. e = <<>> => Len(e) = 0
  OBVIOUS
<1>. HIDE DEF e
<1>4. f[0] = b
  BY <1>1 DEF Takes
<1>. QED  BY <1>1, <1>2, <1>3, <1>4 DEF e

\* The letter that is seen is of the family of the letter or of its key, and a
\* vowel only where the letter is one.
Looks(t) == {ch \in Char : /\ Unmarked(ch[1]) \in {Unmarked(t.on), Unmarked(t.key)}
                           /\ IsVowel(ch[1]) => IsVowel(t.on)}

LEMMA RenderedLooks ==
  ASSUME NEW im, NEW A, NEW s \in Seq(Transformation), NEW t \in On(im, A), t.kind = "append"
  PROVE  /\ Rendered(s, t) \in Looks(t)
         /\ Sel(s, EffectsOn(t.id)) = <<>> => Rendered(s, t) = PlainChar(t.on, t.upper)
<1>. DEFINE X == Looks(t)
<1>1. t \in Transformation /\ Letter(im, t)
  BY DEF On
<1>2. t.on \in Symbols /\ t.key \in Symbols /\ t.upper \in BOOLEAN /\ (IsVowel(t.key) => IsVowel(t.on))
  BY <1>1 DEF TransformationFields, Transformation, Letter
<1>3. PlainChar(t.on, t.upper) \in X /\ PlainChar(t.key, t.upper) \in X
  BY <1>2 DEF PlainChar, None, Char, Looks
<1>4. ASSUME NEW ch \in X, NEW e \in EffectsOn(t.id)
      PROVE  ApplyTo(t, ch, e) \in X
  <2>1. /\ ch[1] \in Symbols /\ ch[2] \in Nat /\ ch[3] \in BOOLEAN /\ ch \in X
        /\ Unmarked(ch[1]) \in {Unmarked(t.on), Unmarked(t.key)}
        /\ IsVowel(ch[1]) => IsVowel(t.on)
    BY DEF Looks, Char
  <2>2. e.kind \in {"mark", "tone"} /\ e.effect \in Nat
    BY DEF EffectsOn, TransformationFields, Transformation
  <2>3. CASE e.kind = "mark" /\ e.effect = Raw
    BY <2>3, <1>3 DEF ApplyTo
  <2>4. CASE e.kind = "mark" /\ e.effect # Raw
    <3>. DEFINE l == AddMark(ch[1], e.effect)
    <3>1. l \in Symbols /\ Unmarked(l) = Unmarked(ch[1]) /\ (IsVowel(l) <=> IsVowel(ch[1]))
      BY <2>1, <2>2, MarkedIsSymbol, MarkKeepsFamily, MarkKeepsVowel
    <3>. HIDE DEF l
    <3>2. <<l, ch[2], ch[3]>> \in X
      BY <2>1, <3>1 DEF Looks, Char
    <3>. QED  BY <2>4, <3>2 DEF ApplyTo, l
  <2>5. CASE e.kind = "tone"
    <3>1. <<ch[1], e.effect, ch[3]>> \in X
      BY <2>1, <2>2 DEF Looks, Char
    <3>. QED  BY <2>5, <3>1 DEF ApplyTo
  <2>. QED  BY <2>2, <2>3, <2>4, <2>5
<1>. HIDE DEF X
<1>5. /\ Rendered(s, t) \in X
      /\ Sel(s, EffectsOn(t.id)) = <<>> => Rendered(s, t) = PlainChar(t.on, t.upper)
  BY <1>3, <1>4, RenderedWithin
<1>. QED  BY <1>5 DEF X

(***************************************************************************)
(* Flatten: what is seen of a composition.                                 *)
(***************************************************************************)
LEMMA FlattenOf ==
  ASSUME NEW im, NEW A, NEW s \in Seq(On(im, A))
  PROVE  LET v == Sel(s, Appended)
         IN  /\ v \in Seq(On(im, A)) /\ Len(v) \in Nat /\ DOMAIN v = 1 .. Len(v)
             /\ Flatten(s) \in Seq(Char) /\ Len(Flatten(s)) = Len(v)
             /\ \A i \in 1 .. Len(v) :
                  v[i] \in Appended /\ Flatten(s)[i] = Rendered(s, v[i]) /\ Flatten(s)[i] \in Looks(v[i])
<1>. DEFINE v == Sel(s, Appended)
            f == [i \in DOMAIN v |-> Rendered(s, v[i])]
<1>1. Flatten(s) = f
  BY FilterVisible DEF Flatten
<1>2. /\ v \in Seq(On(im, A)) /\ Len(v) \in Nat /\ DOMAIN v = 1 .. Len(v)
      /\ \A i \in 1 .. Len(v) : v[i] \in Appended /\ v[i] \in On(im, A)
  <2>1. /\ v \in Seq(On(im, A)) /\ Len(v) \in Nat /\ DOMAIN v = 1 .. Len(v)
        /\ \A i \in 1 .. Len(v) : v[i] \in Appended
    BY SelType
  <2>. HIDE DEF v
  <2>. QED  BY <2>1, ElementOfSeq
<1>. HIDE DEF v
<1>3. ASSUME NEW i \in 1 .. Len(v)
      PROVE  Rendered(s, v[i]) \in Looks(v[i])
  <2>1. s \in Seq(Transformation)
    BY OnIsTransformation
  <2>. DEFINE t == v[i]
  <2>2. t \in On(im, A) /\ t.kind = "append"
    BY <1>2 DEF Appended
  <2>. HIDE DEF t
  <2>3. Rendered(s, t) \in Looks(t)
    BY <2>1, <2>2, RenderedLooks
  <2>. QED  BY <2>3 DEF t
<1>4. \A i \in 1 .. Len(v) : f[i] = Rendered(s, v[i]) /\ f[i] \in Looks(v[i]) /\ f[i] \in Char
  BY <1>2, <1>3 DEF Looks
<1>5. f \in Seq(Char) /\ Len(f) = Len(v)
  <2>1. f \in [1 .. Len(v) -> Char]
    BY <1>2, <1>3 DEF Looks
  <2>. HIDE DEF f
  <2>. QED  BY <2>1, <1>2, FunctionIsSeq
<1>. HIDE DEF f
<1>. QED  BY <1>1, <1>2, <1>4, <1>5 DEF v

LEMMA TonelessOf ==
  ASSUME NEW im, NEW A, NEW s \in Seq(On(im, A))
  PROVE  /\ DOMAIN Toneless(s) = 1 .. Len(Sel(s, Appended))
         /\ Len(Toneless(s)) = Len(Sel(s, Appended)) /\ Len(Sel(s, Appended)) \in Nat
         /\ \A i \in 1 .. Len(Sel(s, Appended)) : Toneless(s)[i] = Flatten(s)[i][1]
<1>1. /\ Flatten(s) \in Seq(Char) /\ Len(Flatten(s)) = Len(Sel(s, Appended))
      /\ Len(Sel(s, Appended)) \in Nat
  BY FlattenOf
<1>2. DOMAIN Flatten(s) = 1 .. Len(Sel(s, Appended))
  BY <1>1, LenProperties
<1>. DEFINE f == Flatten(s)
            n == Len(Sel(s, Appended))
<1>. HIDE DEF f, n
<1>3. LettersOf(f) = [i \in 1 .. n |-> f[i][1]]
  BY <1>2 DEF LettersOf, f, n
<1>4. n \in Nat
  BY <1>1 DEF n
<1>5. Toneless(s) = LettersOf(f)
  BY DEF Toneless, f
<1>6. DOMAIN LettersOf(f) = 1 .. n /\ Len(LettersOf(f)) = n /\ \A i \in 1 .. n : LettersOf(f)[i] = f[i][1]
  BY <1>3, <1>4
<1>. QED  BY <1>4, <1>5, <1>6 DEF f, n

LEMMA RenderedSame ==
  ASSUME NEW s, NEW r, NEW t, Effects(s, t.id) = Effects(r, t.id)
  PROVE  Rendered(s, t) = Rendered(r, t)
<1>. DEFINE value(e) == LET h == CHOOSE h : h = [I \in SUBSET (DOMAIN e) |->
                                    IF I = {} THEN PlainChar(t.on, t.upper)
                                    ELSE ApplyTo(t, h[I \ {Max(I)}], e[Max(I)])]
                        IN  h[DOMAIN e]
<1>1. Rendered(s, t) = value(Effects(s, t.id)) /\ Rendered(r, t) = value(Effects(r, t.id))
  BY RenderedStep
<1>. HIDE DEF value
<1>. QED  BY <1>1

\* A letter appended leaves the others as they were and is seen as itself.
LEMMA FlattenAppend ==
  ASSUME NEW im, NEW A, NEW s \in Seq(On(im, A)), NEW x \in On(im, A), x.kind = "append",
         \A i \in 1 .. Len(s) : s[i].target # x.id
  PROVE  Flatten(Append(s, x)) = Append(Flatten(s), PlainChar(x.on, x.upper))
<1>. DEFINE r == Append(s, x)
            v == Sel(s, Appended)
            w == Sel(r, Appended)
<1>1. s \in Seq(Transformation) /\ x \in Transformation /\ x \in Appended
  BY OnIsTransformation DEF On, Appended
<1>2. r \in Seq(On(im, A)) /\ r \in Seq(Transformation)
  BY <1>1, AppendProperties
<1>3. w = Append(v, x)
  BY <1>1, SelAppend
<1>4. /\ v \in Seq(On(im, A)) /\ Len(v) \in Nat /\ DOMAIN v = 1 .. Len(v)
      /\ Flatten(s) \in Seq(Char) /\ Len(Flatten(s)) = Len(v)
      /\ \A i \in 1 .. Len(v) :
           v[i] \in Appended /\ Flatten(s)[i] = Rendered(s, v[i]) /\ Flatten(s)[i] \in Looks(v[i])
  BY FlattenOf
<1>5. /\ Len(w) \in Nat /\ Flatten(r) \in Seq(Char) /\ Len(Flatten(r)) = Len(w)
      /\ \A i \in 1 .. Len(w) : Flatten(r)[i] = Rendered(r, w[i])
  <2>. HIDE DEF r
  <2>. QED  BY <1>2, FlattenOf
<1>6. \A id : Effects(r, id) = Effects(s, id)
  <2>1. ASSUME NEW id
        PROVE  Effects(r, id) = Effects(s, id)
    <3>1. x \notin EffectsOn(id)
      BY <1>1 DEF Appended, EffectsOn
    <3>2. Sel(r, EffectsOn(id)) = Sel(s, EffectsOn(id))
      BY <1>1, <3>1, SelAppend
    <3>. HIDE DEF r
    <3>. QED  BY <3>2, <1>1, <1>2, FilterEffects
  <2>. QED  BY <2>1
<1>7. Rendered(r, x) = PlainChar(x.on, x.upper)
  <2>1. Sel(s, EffectsOn(x.id)) = <<>>
    <3>1. \A i \in 1 .. Len(s) : s[i] \notin EffectsOn(x.id)
      BY DEF EffectsOn
    <3>. QED  BY <1>1, <3>1, SelEmpty
  <2>2. Rendered(s, x) = PlainChar(x.on, x.upper)
    BY <1>1, <2>1, RenderedLooks
  <2>3. Rendered(r, x) = Rendered(s, x)
    <3>. HIDE DEF r
    <3>. QED  BY <1>6, RenderedSame
  <2>. QED  BY <2>2, <2>3
<1>. DEFINE c == PlainChar(x.on, x.upper)
            f == Append(Flatten(s), c)
<1>8. c \in Char
  BY <1>1 DEF PlainChar, Char, TransformationFields, Transformation, None
<1>9. /\ f \in Seq(Char) /\ Len(f) = Len(v) + 1 /\ f[Len(v) + 1] = c
      /\ \A i \in 1 .. Len(v) : f[i] = Flatten(s)[i]
  <2>. HIDE DEF c
  <2>. QED  BY <1>4, <1>8, AppendProperties
<1>10. Len(w) = Len(v) + 1 /\ w[Len(v) + 1] = x /\ \A i \in 1 .. Len(v) : w[i] = v[i]
  <2>. HIDE DEF v, w, r
  <2>. QED  BY <1>3, <1>4, AppendProperties
<1>11. ASSUME NEW i \in 1 .. Len(v)
       PROVE  Flatten(r)[i] = f[i]
  <2>. HIDE DEF f, c, v, w, r
  <2>1. i \in 1 .. Len(w)
    BY <1>4, <1>10
  <2>2. Flatten(r)[i] = Rendered(r, v[i])
    BY <1>5, <1>10, <2>1
  <2>3. Rendered(r, v[i]) = Rendered(s, v[i])
    BY <1>6, RenderedSame
  <2>. QED  BY <2>2, <2>3, <1>4, <1>9
<1>12. Flatten(r)[Len(v) + 1] = f[Len(v) + 1]
  <2>. HIDE DEF f, v, w, r
  <2>1. Len(v) + 1 \in 1 .. Len(w)
    BY <1>4, <1>10
  <2>2. Flatten(r)[Len(v) + 1] = Rendered(r, x)
    BY <1>5, <1>10, <2>1
  <2>. QED  BY <2>2, <1>7, <1>9
<1>13. Flatten(r) = f
  <2>. HIDE DEF f, c, v, w, r
  <2>1. \A i \in 1 .. Len(v) + 1 : i \in 1 .. Len(v) \/ i = Len(v) + 1
    BY <1>4
  <2>. QED  BY <1>5, <1>9, <1>10, <1>11, <1>12, <2>1, SeqEqual
<1>. QED  BY <1>13

(***************************************************************************)
(* Typed: the keys of a composition.                                       *)
(***************************************************************************)
KeyChars(s) == [i \in DOMAIN s |-> PlainChar(s[i].key, s[i].upper)]

LEMMA KeyCharsType ==
  ASSUME NEW s \in Seq(Transformation)
  PROVE  /\ KeyChars(s) \in Seq(Char) /\ Len(KeyChars(s)) = Len(s) /\ Len(s) \in Nat
         /\ \A i \in 1 .. Len(s) : KeyChars(s)[i] = PlainChar(s[i].key, s[i].upper)
<1>1. /\ DOMAIN s = 1 .. Len(s) /\ Len(s) \in Nat
      /\ \A i \in 1 .. Len(s) : s[i].key \in Symbols /\ s[i].upper \in BOOLEAN
  <2>1. \A i \in 1 .. Len(s) : s[i] \in Transformation
    BY ElementOfSeq
  <2>. QED  BY <2>1, LenProperties DEF TransformationFields, Transformation
<1>2. \A i \in 1 .. Len(s) : PlainChar(s[i].key, s[i].upper) \in Char
  BY <1>1 DEF PlainChar, Char, None
<1>3. KeyChars(s) \in [1 .. Len(s) -> Char]
  BY <1>1, <1>2 DEF KeyChars
<1>4. \A i \in 1 .. Len(s) : KeyChars(s)[i] = PlainChar(s[i].key, s[i].upper)
  BY <1>1 DEF KeyChars
<1>. DEFINE k == KeyChars(s)
<1>. HIDE DEF k
<1>5. k \in Seq(Char) /\ Len(k) = Len(s)
  BY <1>1, <1>3, FunctionIsSeq DEF k
<1>. QED  BY <1>1, <1>4, <1>5 DEF k

LEMMA TypedKeys ==
  ASSUME NEW s \in Seq(Transformation)
  PROVE  /\ Typed(s) = KeyChars(Sel(s, Keyed))
         /\ Sel(s, Keyed) \in Seq(Transformation)
         /\ Typed(s) \in Seq(Char)
         /\ Len(Typed(s)) = Len(Sel(s, Keyed))
<1>1. Typed(s) = KeyChars(Sel(s, Keyed))
  BY FilterKeyed DEF Typed, KeyChars
<1>2. Sel(s, Keyed) \in Seq(Transformation)
  BY SelType
<1>. DEFINE k == Sel(s, Keyed)
<1>. HIDE DEF k
<1>3. KeyChars(k) \in Seq(Char) /\ Len(KeyChars(k)) = Len(k)
  BY <1>2, KeyCharsType DEF k
<1>. QED  BY <1>1, <1>2, <1>3 DEF k

LEMMA TypedConcat ==
  ASSUME NEW s \in Seq(Transformation), NEW t \in Seq(Transformation)
  PROVE  Typed(s \o t) = Typed(s) \o Typed(t)
<1>. DEFINE r == s \o t
            a == Sel(s, Keyed)
            b == Sel(t, Keyed)
            c == Sel(r, Keyed)
<1>1. r \in Seq(Transformation) /\ c = a \o b
  BY ConcatProperties, SelConcat
<1>2. Typed(s) = KeyChars(a) /\ a \in Seq(Transformation)
  BY TypedKeys
<1>3. Typed(t) = KeyChars(b) /\ b \in Seq(Transformation)
  BY TypedKeys
<1>4. Typed(r) = KeyChars(c)
  <2>. HIDE DEF r
  <2>. QED  BY <1>1, TypedKeys
<1>. HIDE DEF a, b, c, r
<1>5. /\ c \in Seq(Transformation) /\ Len(c) = Len(a) + Len(b) /\ Len(a) \in Nat /\ Len(b) \in Nat
      /\ \A i \in 1 .. Len(a) + Len(b) : c[i] = IF i <= Len(a) THEN a[i] ELSE b[i - Len(a)]
  BY <1>1, <1>2, <1>3, ConcatProperties, LenProperties
<1>. DEFINE f == KeyChars(a)
            g == KeyChars(b)
            h == KeyChars(c)
<1>6. /\ f \in Seq(Char) /\ Len(f) = Len(a) /\ g \in Seq(Char) /\ Len(g) = Len(b)
      /\ h \in Seq(Char) /\ Len(h) = Len(c)
      /\ \A i \in 1 .. Len(a) : f[i] = PlainChar(a[i].key, a[i].upper)
      /\ \A i \in 1 .. Len(b) : g[i] = PlainChar(b[i].key, b[i].upper)
      /\ \A i \in 1 .. Len(c) : h[i] = PlainChar(c[i].key, c[i].upper)
  BY <1>2, <1>3, <1>5, KeyCharsType
<1>. HIDE DEF f, g, h
<1>7. /\ f \o g \in Seq(Char) /\ Len(f \o g) = Len(f) + Len(g)
      /\ \A i \in 1 .. Len(f) + Len(g) : (f \o g)[i] = IF i <= Len(f) THEN f[i] ELSE g[i - Len(f)]
  <2>1. f \in Seq(Char) /\ g \in Seq(Char)
    BY <1>6
  <2>. QED  BY <2>1, ConcatProperties
<1>8. ASSUME NEW i \in 1 .. Len(h)
      PROVE  h[i] = (f \o g)[i]
  <2>1. CASE i <= Len(a)
    <3>1. i \in 1 .. Len(a) /\ i \in 1 .. Len(f) + Len(g) /\ i \in 1 .. Len(c) /\ i \in 1 .. Len(a) + Len(b)
      BY <2>1, <1>5, <1>6
    <3>2. h[i] = PlainChar(a[i].key, a[i].upper)
      BY <2>1, <3>1, <1>5, <1>6
    <3>. QED  BY <2>1, <3>1, <3>2, <1>6, <1>7
  <2>2. CASE ~(i <= Len(a))
    <3>1. i - Len(a) \in 1 .. Len(b) /\ i \in 1 .. Len(f) + Len(g) /\ i \in 1 .. Len(c) /\ i \in 1 .. Len(a) + Len(b)
      BY <2>2, <1>5, <1>6
    <3>. DEFINE j == i - Len(a)
    <3>. HIDE DEF j
    <3>2. h[i] = PlainChar(b[j].key, b[j].upper)
      BY <2>2, <3>1, <1>5, <1>6 DEF j
    <3>3. g[j] = PlainChar(b[j].key, b[j].upper)
      BY <3>1, <1>6 DEF j
    <3>. QED  BY <2>2, <3>1, <3>2, <3>3, <1>6, <1>7 DEF j
  <2>. QED  BY <2>1, <2>2
<1>9. h = f \o g
  BY <1>5, <1>6, <1>7, <1>8, SeqEqual
<1>. QED  BY <1>2, <1>3, <1>4, <1>9 DEF f, g, h, r

\* Two compositions with the same keys.
LEMMA TypedSame ==
  ASSUME NEW s \in Seq(Transformation), NEW t \in Seq(Transformation), Len(s) = Len(t),
         \A i \in 1 .. Len(s) : s[i].key = t[i].key /\ s[i].upper = t[i].upper
  PROVE  Typed(s) = Typed(t)
<1>. DEFINE a == Sel(s, Keyed)
            b == Sel(t, Keyed)
<1>0. \A i \in 1 .. Len(s) : s[i] \in Transformation /\ t[i] \in Transformation
  BY ElementOfSeq
<1>1. \A i \in 1 .. Len(s) : s[i] \in Keyed <=> t[i] \in Keyed
  BY <1>0 DEF Keyed
<1>2. /\ Len(a) = Len(b)
      /\ \E p \in [1 .. Len(a) -> 1 .. Len(s)] : \A j \in 1 .. Len(a) : a[j] = s[p[j]] /\ b[j] = t[p[j]]
  <2>. DEFINE P == Keyed
  <2>. HIDE DEF P
  <2>1. \A i \in 1 .. Len(s) : s[i] \in P <=> t[i] \in P
    BY <1>1 DEF P
  <2>2. /\ Len(Sel(s, P)) = Len(Sel(t, P))
        /\ \E p \in [1 .. Len(Sel(s, P)) -> 1 .. Len(s)] :
             \A j \in 1 .. Len(Sel(s, P)) : Sel(s, P)[j] = s[p[j]] /\ Sel(t, P)[j] = t[p[j]]
    BY <2>1, SelAlike
  <2>. QED  BY <2>2 DEF P
<1>3. a \in Seq(Transformation) /\ b \in Seq(Transformation) /\ Typed(s) = KeyChars(a) /\ Typed(t) = KeyChars(b)
  BY TypedKeys
<1>. HIDE DEF a, b
<1>4. PICK p \in [1 .. Len(a) -> 1 .. Len(s)] : \A j \in 1 .. Len(a) : a[j] = s[p[j]] /\ b[j] = t[p[j]]
  BY <1>2
<1>5. \A j \in 1 .. Len(a) : a[j].key = b[j].key /\ a[j].upper = b[j].upper
  BY <1>4
<1>. DEFINE f == KeyChars(a)
            g == KeyChars(b)
<1>6. /\ f \in Seq(Char) /\ Len(f) = Len(a) /\ g \in Seq(Char) /\ Len(g) = Len(b)
      /\ \A i \in 1 .. Len(a) : f[i] = PlainChar(a[i].key, a[i].upper)
      /\ \A i \in 1 .. Len(b) : g[i] = PlainChar(b[i].key, b[i].upper)
  BY <1>3, KeyCharsType
<1>. HIDE DEF f, g
<1>7. f = g
  <2>1. \A i \in 1 .. Len(f) : f[i] = g[i]
    BY <1>2, <1>5, <1>6
  <2>. QED  BY <2>1, <1>2, <1>6, SeqEqual
<1>. QED  BY <1>3, <1>7 DEF f, g

LEMMA TypedNothing ==
  ASSUME NEW s \in Seq(Transformation), \A i \in 1 .. Len(s) : s[i].key = NoKey
  PROVE  Typed(s) = <<>>
<1>1. Sel(s, Keyed) = <<>>
  <2>1. \A i \in 1 .. Len(s) : s[i] \notin Keyed
    BY DEF Keyed
  <2>. QED  BY <2>1, SelEmpty
<1>2. KeyChars(<<>>) = <<>>
  <2>1. <<>> \in Seq(Transformation) /\ Len(<<>>) = 0
    BY EmptySeq
  <2>2. KeyChars(<<>>) \in Seq(Char) /\ Len(KeyChars(<<>>)) = 0
    BY <2>1, KeyCharsType
  <2>. QED  BY <2>2, EmptySeq
<1>. QED  BY <1>1, <1>2, TypedKeys

LEMMA SingletonSeq ==
  ASSUME NEW S, NEW x \in S
  PROVE  <<x>> \in Seq(S) /\ Len(<<x>>) = 1 /\ <<x>>[1] = x
OBVIOUS

LEMMA OneUpTo == \A n : n = 1 => 1 .. n = {1}
OBVIOUS

LEMMA TypedSingle ==
  ASSUME NEW x \in Transformation, x.key # NoKey
  PROVE  Typed(<<x>>) = <<PlainChar(x.key, x.upper)>>
<1>. DEFINE s == <<x>>
<1>1. s \in Seq(Transformation) /\ Len(s) = 1 /\ s[1] = x
  BY SingletonSeq
<1>2. Sel(s, Keyed) = s
  BY SelSingle DEF Keyed
<1>3. Typed(s) = KeyChars(s)
  <2>. HIDE DEF s
  <2>. QED  BY <1>1, <1>2, TypedKeys
<1>4. KeyChars(s) = <<PlainChar(x.key, x.upper)>>
  <2>. HIDE DEF s
  <2>1. /\ KeyChars(s) \in Seq(Char) /\ Len(KeyChars(s)) = 1
        /\ KeyChars(s)[1] = PlainChar(x.key, x.upper)
    <3>1. /\ KeyChars(s) \in Seq(Char) /\ Len(KeyChars(s)) = Len(s)
          /\ \A i \in 1 .. Len(s) : KeyChars(s)[i] = PlainChar(s[i].key, s[i].upper)
      BY <1>1, KeyCharsType
    <3>2. 1 \in 1 .. Len(s)
      BY <1>1, OneUpTo
    <3>3. KeyChars(s)[1] = PlainChar(s[1].key, s[1].upper)
      BY <3>1, <3>2
    <3>. QED  BY <3>1, <3>3, <1>1
  <2>2. PlainChar(x.key, x.upper) \in Char
    BY DEF TransformationFields, Transformation, PlainChar, Char, None
  <2>. DEFINE c == PlainChar(x.key, x.upper)
  <2>. HIDE DEF c
  <2>3. <<c>> \in Seq(Char) /\ Len(<<c>>) = 1 /\ <<c>>[1] = c
    BY <2>2, SingletonSeq DEF c
  <2>. DEFINE k == KeyChars(s)
              d == <<c>>
  <2>4. k \in Seq(Char) /\ d \in Seq(Char) /\ Len(k) = 1 /\ Len(d) = 1 /\ k[1] = d[1]
    BY <2>1, <2>3 DEF c
  <2>. HIDE DEF k, d
  <2>5. \A i \in 1 .. Len(k) : k[i] = d[i]
    BY <2>4, OneUpTo
  <2>6. k = d
    BY <2>4, <2>5, SeqEqual
  <2>. QED  BY <2>6 DEF c, k, d
<1>. QED  BY <1>3, <1>4

(***************************************************************************)
(* Split: the parts of a syllable.                                         *)
(***************************************************************************)
LettersIn(im, A) == On(im, A) \cap Appended
MarksIn(im, A) == {t \in On(im, A) : t.kind # "append"}

LEMMA FilterLetters ==
  ASSUME NEW im, NEW A \in SUBSET Ids, NEW s \in Seq(On(im, A))
  PROVE  /\ Filtered(s, LAMBDA t : t.target = 0) = Sel(s, Appended)
         /\ Sel(s, Appended) \in Seq(LettersIn(im, A))
<1>1. DOMAIN s = 1 .. Len(s) /\ \A i \in 1 .. Len(s) : s[i] \in On(im, A)
  BY LenProperties, ElementOfSeq
<1>2. {i \in DOMAIN s : s[i].target = 0} = {i \in DOMAIN s : s[i] \in Appended}
  BY <1>1 DEF Appended, On, Letter, Ids
<1>3. Sel(s, Appended) \in Seq(On(im, A) \cap Appended)
  BY SelWithin
<1>. QED  BY <1>2, <1>3 DEF Filtered, Sel, LettersIn

LEMMA SubSeqType ==
  ASSUME NEW S, NEW s \in Seq(S), NEW m \in 1 .. Len(s) + 1, NEW n \in 0 .. Len(s)
  PROVE  /\ SubSeq(s, m, n) \in Seq(S)
         /\ Len(SubSeq(s, m, n)) = IF m <= n THEN n - m + 1 ELSE 0
         /\ \A i \in 1 .. n - m + 1 : SubSeq(s, m, n)[i] = s[m + i - 1]
<1>1. Len(s) \in Nat /\ \A i \in 1 .. Len(s) : s[i] \in S
  BY LenProperties, ElementOfSeq
<1>2. m \in Int /\ n \in Int /\ \A i \in m .. n : s[i] \in S
  BY <1>1
<1>. QED  BY <1>2, SubSeqProperties

LEMMA RegroupedType ==
  ASSUME NEW L, NEW fc \in Seq(L), NEW vo \in Seq(L), NEW lc \in Seq(L), vo # <<>>
  PROVE  LET g == Regrouped(Parts(fc, vo, lc))
         IN  /\ g.fc \in Seq(L) /\ g.vo \in Seq(L) /\ g.lc \in Seq(L)
             /\ Len(fc) # 1 \/ Len(vo) > 1 => g.vo # <<>>
<1>. DEFINE s == Parts(fc, vo, lc)
<1>0. s.fc = fc /\ s.vo = vo /\ s.lc = lc
  BY DEF Parts
<1>1. vo[1] \in L /\ Tail(vo) \in Seq(L) /\ Len(vo) \in Nat \ {0} /\ Len(Tail(vo)) = Len(vo) - 1
  BY EmptySeq, HeadTailProperties, ElementOfSeq
<1>2. CASE Len(fc) = 1 /\ Glides(s)
  <2>. DEFINE x == vo[1]
              f == fc \o <<x>>
  <2>1. f \in Seq(L)
    <3>1. x \in L
      BY <1>1
    <3>. HIDE DEF x
    <3>. DEFINE u == <<x>>
    <3>2. u \in Seq(L)
      BY <3>1, SingletonSeq
    <3>. HIDE DEF u
    <3>3. fc \o u \in Seq(L)
      BY <3>2, ConcatProperties
    <3>. QED  BY <3>3 DEF u
  <2>2. Regrouped(s) = Parts(f, Tail(vo), lc)
    BY <1>0, <1>2 DEF Regrouped
  <2>3. Len(vo) > 1 => Tail(vo) # <<>>
    <3>1. SUFFICES ASSUME Len(vo) > 1, Tail(vo) = <<>>
                   PROVE  FALSE
      OBVIOUS
    <3>2. Len(Tail(vo)) = 0
      BY <3>1, EmptySeq
    <3>3. Len(Tail(vo)) = Len(vo) - 1 /\ Len(vo) \in Nat
      BY <1>1
    <3>. DEFINE a == Len(Tail(vo))
                b == Len(vo)
    <3>4. a = 0 /\ a = b - 1 /\ b \in Nat /\ b > 1
      BY <3>1, <3>2, <3>3
    <3>. HIDE DEF a, b
    <3>. QED  BY <3>4
  <2>. HIDE DEF f, s
  <2>. DEFINE w == Tail(vo)
  <2>4. w \in Seq(L) /\ (Len(vo) > 1 => w # <<>>)
    BY <1>1, <2>3
  <2>5. Regrouped(s) = Parts(f, w, lc)
    BY <2>2
  <2>. HIDE DEF w
  <2>6. Parts(f, w, lc).fc = f /\ Parts(f, w, lc).vo = w /\ Parts(f, w, lc).lc = lc
    BY DEF Parts
  <2>7. /\ Regrouped(s).fc \in Seq(L) /\ Regrouped(s).vo \in Seq(L) /\ Regrouped(s).lc \in Seq(L)
        /\ Regrouped(s).vo = w
    BY <2>1, <2>4, <2>5, <2>6
  <2>. QED  BY <1>2, <2>4, <2>7 DEF s
<1>3. CASE ~(Len(fc) = 1 /\ Glides(s))
  <2>1. Regrouped(s) = s
    BY <1>0, <1>3 DEF Regrouped
  <2>. HIDE DEF s
  <2>. QED  BY <2>1, <1>0 DEF s
<1>. QED  BY <1>2, <1>3

\* Two vowels one behind the other leave a vowel part.
LEMMA SplitLettersType ==
  ASSUME NEW L, NEW l \in Seq(L)
  PROVE  LET s == SplitLetters(l)
         IN  /\ s.fc \in Seq(L) /\ s.vo \in Seq(L) /\ s.lc \in Seq(L)
             /\ (\E i \in 1 .. Len(l) - 1 : IsVowel(l[i].gives) /\ IsVowel(l[i + 1].gives)) => s.vo # <<>>
<1>. DEFINE N == {i \in 1 .. Len(l) : IsVowel(l[i].gives)}
            n == MaxOrZero(N)
            M == {i \in 1 .. n : ~IsVowel(l[i].gives)}
            m == MaxOrZero(M)
<1>0. Len(l) \in Nat
  BY LenProperties
<1>1. /\ N = {} => n = 0
      /\ N # {} => n \in N /\ n = Max(N)
      /\ \A i \in N : i <= n
  <2>1. N \in SUBSET (1 .. Len(l))
    OBVIOUS
  <2>. HIDE DEF N
  <2>. QED  BY <1>0, <2>1, MaxOfPlaces
<1>2. n \in 0 .. Len(l) /\ (n # 0 => n \in N /\ IsVowel(l[n].gives))
  <2>1. \A i \in N : i \in 0 .. Len(l) /\ IsVowel(l[i].gives)
    BY <1>0
  <2>. HIDE DEF N, n
  <2>2. CASE N = {}
    BY <1>1, <1>0, <2>2
  <2>3. CASE N # {}
    BY <1>1, <2>1, <2>3
  <2>. QED  BY <2>2, <2>3
<1>3. SelectLastInSeq(l, LAMBDA t : IsVowel(t.gives)) = n
  BY DEF SelectLastInSeq, MaxOrZero
<1>. HIDE DEF n
<1>4. /\ M = {} => m = 0
      /\ M # {} => m \in M /\ m = Max(M)
      /\ \A i \in M : i <= m
  <2>1. M \in SUBSET (1 .. n) /\ n \in Nat
    BY <1>2
  <2>. HIDE DEF M
  <2>. QED  BY <2>1, MaxOfPlaces
<1>5. SelectLastInSubSeq(l, 1, n, LAMBDA t : ~IsVowel(t.gives)) = m
  BY DEF SelectLastInSubSeq, MaxOrZero
<1>6. m \in 0 .. n /\ (m # 0 => m \in M) /\ (n # 0 => m < n) /\ (m # 0 => ~IsVowel(l[m].gives))
  <2>1. \A i \in M : i \in 0 .. n /\ ~IsVowel(l[i].gives)
    BY <1>2
  <2>. HIDE DEF M, m, N
  <2>2. m \in 0 .. n /\ (m # 0 => m \in M) /\ (m # 0 => ~IsVowel(l[m].gives))
    <3>1. CASE M = {}
      BY <1>4, <1>2, <3>1
    <3>2. CASE M # {}
      BY <1>4, <2>1, <3>2
    <3>. QED  BY <3>1, <3>2
  <2>3. n # 0 => m # n
    BY <1>2, <2>2
  <2>. QED  BY <2>2, <2>3, <1>2
<1>7. SplitLetters(l) = CutAt(l, m, n)
  BY <1>3, <1>5 DEF SplitLetters, CutBefore
<1>. HIDE DEF M, m
<1>8. CASE n = 0
  <2>1. SplitLetters(l) = Parts(l, <<>>, <<>>)
    BY <1>7, <1>8 DEF CutAt
  <2>2. \A i \in 1 .. Len(l) - 1 : i \in 1 .. Len(l)
    BY <1>0
  <2>3. N = {}
    <3>1. \A i \in N : i <= 0 /\ i \in 1 .. Len(l)
      BY <1>1, <1>8
    <3>2. ~ \E i \in 1 .. Len(l) : i <= 0
      BY <1>0
    <3>. QED  BY <3>1, <3>2
  <2>4. \A i \in 1 .. Len(l) - 1 : ~IsVowel(l[i].gives)
    BY <2>2, <2>3
  <2>. QED  BY <2>1, <2>4, EmptySeq DEF Parts
<1>9. CASE n # 0
  <2>. DEFINE fc == SubSeq(l, 1, m)
              vo == SubSeq(l, m + 1, n)
              lc == SubSeq(l, n + 1, Len(l))
  <2>1. SplitLetters(l) = Regrouped(Parts(fc, vo, lc))
    BY <1>7, <1>9 DEF CutAt
  <2>2. fc \in Seq(L) /\ Len(fc) = m
    <3>1. 1 \in 1 .. Len(l) + 1 /\ m \in 0 .. Len(l) /\ (IF 1 <= m THEN m - 1 + 1 ELSE 0) = m
      BY <1>0, <1>2, <1>6
    <3>2. SubSeq(l, 1, m) \in Seq(L) /\ Len(SubSeq(l, 1, m)) = IF 1 <= m THEN m - 1 + 1 ELSE 0
      BY <3>1, SubSeqType
    <3>. QED  BY <3>1, <3>2
  <2>3. vo \in Seq(L) /\ Len(vo) = n - m /\ vo # <<>>
    <3>1. m + 1 \in 1 .. Len(l) + 1 /\ n \in 0 .. Len(l) /\ m + 1 <= n /\ n - (m + 1) + 1 = n - m /\ n - m # 0
      BY <1>0, <1>2, <1>6, <1>9
    <3>2. SubSeq(l, m + 1, n) \in Seq(L) /\ Len(SubSeq(l, m + 1, n)) = IF m + 1 <= n THEN n - (m + 1) + 1 ELSE 0
      BY <3>1, SubSeqType
    <3>. QED  BY <3>1, <3>2, EmptySeq
  <2>4. lc \in Seq(L)
    <3>1. n + 1 \in 1 .. Len(l) + 1 /\ Len(l) \in 0 .. Len(l)
      BY <1>0, <1>2
    <3>. QED  BY <3>1, SubSeqType
  <2>. HIDE DEF fc, vo, lc
  <2>. DEFINE g == Regrouped(Parts(fc, vo, lc))
  <2>5. /\ g.fc \in Seq(L) /\ g.vo \in Seq(L) /\ g.lc \in Seq(L)
        /\ Len(fc) # 1 \/ Len(vo) > 1 => g.vo # <<>>
    BY <2>2, <2>3, <2>4, RegroupedType
  <2>. HIDE DEF g
  <2>6. ASSUME NEW i \in 1 .. Len(l) - 1, IsVowel(l[i].gives), IsVowel(l[i + 1].gives)
        PROVE  Len(fc) # 1 \/ Len(vo) > 1
    <3>1. SUFFICES ASSUME m = 1
                   PROVE  n > 2
      BY <2>2, <2>3, <1>2
    <3>2. ~IsVowel(l[1].gives)
      BY <1>6, <3>1
    <3>3. i # 1 /\ i \in Nat
      BY <2>6, <3>2, <1>0
    <3>4. i + 1 \in N
      BY <2>6, <1>0
    <3>5. i + 1 <= n
      BY <3>4, <1>1
    <3>. QED  BY <3>3, <3>5, <2>6, <1>0, <1>2
  <2>. QED  BY <2>1, <2>5, <2>6 DEF g
<1>. QED  BY <1>8, <1>9

\* The letters of a part, and the marks on them behind.
LEMMA WithEffectsOf ==
  ASSUME NEW im, NEW A \in SUBSET Ids, NEW s \in Seq(On(im, A)), NEW l \in Seq(LettersIn(im, A))
  PROVE  /\ WithEffects(s, l) \in Seq(On(im, A))
         /\ Sel(WithEffects(s, l), Appended) = l
         /\ l = <<>> => WithEffects(s, l) = <<>>
<1>. DEFINE F(i) == Filtered(s, LAMBDA t : t.target = l[i].id)
            f == [i \in DOMAIN l |-> F(i)]
            e == FlattenSeq(f)
            E == MarksIn(im, A)
<1>1. /\ DOMAIN l = 1 .. Len(l) /\ Len(l) \in Nat
      /\ \A i \in 1 .. Len(l) : l[i] \in LettersIn(im, A)
  BY LenProperties, ElementOfSeq
<1>2. ASSUME NEW i \in 1 .. Len(l)
      PROVE  F(i) \in Seq(E)
  <2>. DEFINE id == l[i].id
  <2>1. id # 0
    BY <1>1 DEF LettersIn, On, Appended, Ids
  <2>. HIDE DEF id
  <2>2. DOMAIN s = 1 .. Len(s) /\ \A j \in 1 .. Len(s) : s[j] \in On(im, A)
    BY LenProperties, ElementOfSeq
  <2>3. {j \in DOMAIN s : s[j].target = id} = {j \in DOMAIN s : s[j] \in EffectsOn(id)}
    BY <2>1, <2>2 DEF EffectsOn, On, Letter
  <2>4. F(i) = Sel(s, EffectsOn(id))
    BY <2>3 DEF Filtered, Sel, id
  <2>5. Sel(s, EffectsOn(id)) \in Seq(On(im, A) \cap EffectsOn(id))
    BY SelWithin
  <2>6. On(im, A) \cap EffectsOn(id) \subseteq E
    BY DEF EffectsOn, MarksIn
  <2>. QED  BY <2>4, <2>5, <2>6, SeqMonotonic
<1>3. f \in Seq(Seq(E))
  <2>. HIDE DEF F, E
  <2>. QED  BY <1>1, <1>2
<1>4. e \in Seq(E)
  <2>. HIDE DEF f, E
  <2>. QED  BY <1>3, FlattenSeqType
<1>5. WithEffects(s, l) = l \o e
  BY DEF WithEffects
<1>6. l = <<>> => f = <<>>
  OBVIOUS
<1>7. l = <<>> => e = <<>>
  <2>. HIDE DEF f
  <2>. QED  BY <1>6, FlattenOfNothing
<1>. HIDE DEF e, E
<1>8. l \in Seq(On(im, A)) /\ e \in Seq(On(im, A))
  <2>1. LettersIn(im, A) \subseteq On(im, A) /\ E \subseteq On(im, A)
    BY DEF LettersIn, MarksIn, E
  <2>. QED  BY <2>1, <1>4, SeqMonotonic
<1>9. Sel(l \o e, Appended) = Sel(l, Appended) \o Sel(e, Appended)
  BY <1>8, SelConcat
<1>10. Sel(l, Appended) = l
  <2>1. \A i \in 1 .. Len(l) : l[i] \in Appended
    BY <1>1 DEF LettersIn
  <2>. QED  BY <2>1, SelAll
<1>11. Sel(e, Appended) = <<>>
  <2>1. \A i \in 1 .. Len(e) : e[i] \notin Appended
    <3>1. \A i \in 1 .. Len(e) : e[i] \in E
      BY <1>4, ElementOfSeq
    <3>. QED  BY <3>1 DEF MarksIn, Appended, E
  <2>. QED  BY <2>1, <1>8, SelEmpty
<1>12. l \o e \in Seq(On(im, A)) /\ l \o <<>> = l /\ (l = <<>> => l \o <<>> = <<>>)
  BY <1>8, ConcatProperties, ConcatEmptySeq
<1>. QED  BY <1>5, <1>7, <1>9, <1>10, <1>11, <1>12

LEMMA SplitOf ==
  ASSUME NEW im, NEW A \in SUBSET Ids, NEW s \in Seq(On(im, A))
  PROVE  LET v == Sel(s, Appended)
             p == Split(s)
         IN  /\ p.fc \in Seq(On(im, A)) /\ p.vo \in Seq(On(im, A)) /\ p.lc \in Seq(On(im, A))
             /\ AppendedOf(p.vo) \in Seq(LettersIn(im, A))
             /\ Sel(p.vo, Appended) = AppendedOf(p.vo)
             /\ p.vo # <<>> => AppendedOf(p.vo) # <<>>
             /\ (\E i \in 1 .. Len(v) - 1 : IsVowel(v[i].gives) /\ IsVowel(v[i + 1].gives))
                  => AppendedOf(p.vo) # <<>>
<1>. DEFINE v == Sel(s, Appended)
            q == SplitLetters(v)
            p == Split(s)
<1>1. v \in Seq(LettersIn(im, A)) /\ p = TakeEffects(s, q)
  BY FilterLetters DEF Split
<1>2. /\ q.fc \in Seq(LettersIn(im, A)) /\ q.vo \in Seq(LettersIn(im, A)) /\ q.lc \in Seq(LettersIn(im, A))
      /\ (\E i \in 1 .. Len(v) - 1 : IsVowel(v[i].gives) /\ IsVowel(v[i + 1].gives)) => q.vo # <<>>
  <2>. HIDE DEF v
  <2>. QED  BY <1>1, SplitLettersType
<1>3. p.fc = WithEffects(s, q.fc) /\ p.vo = WithEffects(s, q.vo) /\ p.lc = WithEffects(s, q.lc)
  BY <1>1 DEF TakeEffects
<1>. HIDE DEF q, p
<1>4. /\ p.fc \in Seq(On(im, A)) /\ p.vo \in Seq(On(im, A)) /\ p.lc \in Seq(On(im, A))
      /\ Sel(p.vo, Appended) = q.vo
      /\ q.vo = <<>> => p.vo = <<>>
  <2>1. \A l \in Seq(LettersIn(im, A)) :
          /\ WithEffects(s, l) \in Seq(On(im, A))
          /\ Sel(WithEffects(s, l), Appended) = l
          /\ l = <<>> => WithEffects(s, l) = <<>>
    BY WithEffectsOf
  <2>. DEFINE f == q.fc
              o == q.vo
              l == q.lc
  <2>2. /\ f \in Seq(LettersIn(im, A)) /\ o \in Seq(LettersIn(im, A)) /\ l \in Seq(LettersIn(im, A))
        /\ p.fc = WithEffects(s, f) /\ p.vo = WithEffects(s, o) /\ p.lc = WithEffects(s, l)
    BY <1>2, <1>3
  <2>. HIDE DEF f, o, l
  <2>3. /\ p.fc \in Seq(On(im, A)) /\ p.vo \in Seq(On(im, A)) /\ p.lc \in Seq(On(im, A))
        /\ Sel(p.vo, Appended) = o
        /\ o = <<>> => p.vo = <<>>
    BY <2>1, <2>2
  <2>. QED  BY <2>3 DEF o
<1>5. AppendedOf(p.vo) = q.vo
  <2>1. p.vo \in Seq(Transformation)
    BY <1>4, OnIsTransformation
  <2>. QED  BY <1>4, <2>1, FilterAppended
<1>. QED  BY <1>2, <1>4, <1>5 DEF p, v

(***************************************************************************)
(* Where a mark or a tone goes.                                            *)
(***************************************************************************)
\* The list of letters and their numbers.
AppendIds(s) == {s[i].id : i \in {j \in DOMAIN s : s[j].kind = "append"}}

LEMMA RootIn ==
  ASSUME NEW im, NEW A \in SUBSET Ids, NEW t \in On(im, A)
  PROVE  Root(t) \in A
BY DEF Root, On, Letter, Ids

LEMMA LetterId ==
  ASSUME NEW im, NEW A, NEW t \in LettersIn(im, A)
  PROVE  t.id \in A
BY DEF LettersIn, On, Appended

\* The last and the first place of an element of P (0: none).
LastOf(s, P) == MaxOrZero({i \in 1 .. Len(s) : s[i] \in P})
FirstOf(s, P) == MinOrZero({i \in 1 .. Len(s) : s[i] \in P})

LEMMA LastPlace ==
  ASSUME NEW S, NEW s \in Seq(S), NEW P
  PROVE  /\ LastOf(s, P) = 0 \/ (LastOf(s, P) \in 1 .. Len(s) /\ s[LastOf(s, P)] \in P)
         /\ \A i \in 1 .. Len(s) : s[i] \in P => i <= LastOf(s, P)
<1>. DEFINE I == {i \in 1 .. Len(s) : s[i] \in P}
<1>1. I \in SUBSET (1 .. Len(s)) /\ Len(s) \in Nat /\ \A i \in 1 .. Len(s) : i \in I <=> s[i] \in P
  BY LenProperties
<1>2. LastOf(s, P) = MaxOrZero(I)
  BY DEF LastOf
<1>. HIDE DEF I
<1>3. /\ I = {} => MaxOrZero(I) = 0
      /\ I # {} => MaxOrZero(I) \in I
      /\ \A i \in I : i <= MaxOrZero(I)
  BY <1>1, MaxOfPlaces
<1>. QED  BY <1>1, <1>2, <1>3

LEMMA FirstPlace ==
  ASSUME NEW S, NEW s \in Seq(S), NEW P
  PROVE  FirstOf(s, P) = 0 \/ (FirstOf(s, P) \in 1 .. Len(s) /\ s[FirstOf(s, P)] \in P)
<1>. DEFINE I == {i \in 1 .. Len(s) : s[i] \in P}
<1>1. I \in SUBSET (1 .. Len(s)) /\ Len(s) \in Nat /\ \A i \in I : i \in 1 .. Len(s) /\ s[i] \in P
  BY LenProperties
<1>2. FirstOf(s, P) = MinOrZero(I)
  BY DEF FirstOf
<1>. HIDE DEF I
<1>3. (I = {} => MinOrZero(I) = 0) /\ (I # {} => MinOrZero(I) \in I)
  BY <1>1, MinOfPlaces
<1>. QED  BY <1>1, <1>2, <1>3

LEMMA ToneVowelIn ==
  ASSUME NEW im, NEW A \in SUBSET Ids, NEW s \in Seq(On(im, A)), NEW std
  PROVE  LET v == AppendedOf(Split(s).vo)
         IN  /\ FindToneTarget(Split(s), std) \in A \cup {0}
             /\ Len(v) \in 1 .. 3 => FindToneTarget(Split(s), std) # 0
<1>. DEFINE p == Split(s)
            v == AppendedOf(p.vo)
            o == p.vo
            m == SelectLastInSeq(o, LAMBDA t : t.gives \in {"o+", "e^"})
<1>1. o \in Seq(On(im, A)) /\ v \in Seq(LettersIn(im, A))
  BY SplitOf
<1>2. FindToneTarget(p, std) = ToneVowel(p, v, m, std)
  BY DEF FindToneTarget
<1>. HIDE DEF v
<1>3. m = 0 \/ m \in 1 .. Len(o)
  <2>. DEFINE P == {t \in On(im, A) : t.gives \in {"o+", "e^"}}
  <2>1. \A i \in 1 .. Len(o) : o[i] \in On(im, A)
    BY <1>1, ElementOfSeq
  <2>. HIDE DEF o
  <2>2. {i \in 1 .. Len(o) : o[i].gives \in {"o+", "e^"}} = {i \in 1 .. Len(o) : o[i] \in P}
    BY <2>1
  <2>3. m = LastOf(o, P)
    BY <2>2 DEF SelectLastInSeq, LastOf, MaxOrZero
  <2>. HIDE DEF m, P
  <2>. QED  BY <1>1, <2>3, LastPlace
<1>. HIDE DEF m
<1>4. m # 0 => Root(o[m]) \in A
  <2>1. \A i \in 1 .. Len(o) : o[i] \in On(im, A)
    BY <1>1, ElementOfSeq
  <2>. QED  BY <1>3, <2>1, RootIn
<1>5. \A i \in 1 .. Len(v) : v[i].id \in A
  BY <1>1, ElementOfSeq, LetterId
<1>6. /\ Len(v) = 1 => v[1].id \in A
      /\ Len(v) = 2 => v[1].id \in A /\ v[2].id \in A
      /\ Len(v) = 3 => v[2].id \in A /\ v[3].id \in A
  <2>1. Len(v) \in Nat
    BY <1>1, LenProperties
  <2>. QED  BY <1>5, <2>1
<1>7. ToneVowel(p, v, m, std) \in A \cup {0}
  BY <1>4, <1>6 DEF ToneVowel
<1>8. ASSUME Len(v) \in 1 .. 3
      PROVE  ToneVowel(p, v, m, std) \in A
  <2>1. Len(v) = 1 \/ Len(v) = 2 \/ Len(v) = 3
    BY <1>8
  <2>. QED  BY <1>4, <1>6, <2>1 DEF ToneVowel
<1>9. 0 \notin A
  BY DEF Ids
<1>. QED  BY <1>2, <1>7, <1>8, <1>9 DEF v

\* No vowel part of a syllable has more than three vowels.
Short == {w \in Seq(Symbols) : Len(w) \in 1 .. 3}

LEMMA ShortWords ==
  /\ \A x \in Symbols : <<x>> \in Short
  /\ \A x, y \in Symbols : <<x, y>> \in Short
  /\ \A x, y, z \in Symbols : <<x, y, z>> \in Short
<1>1. ASSUME NEW x \in Symbols
      PROVE  <<x>> \in Short
  BY DEF Short
<1>2. ASSUME NEW x \in Symbols, NEW y \in Symbols
      PROVE  <<x, y>> \in Short
  BY DEF Short
<1>3. ASSUME NEW x \in Symbols, NEW y \in Symbols, NEW z \in Symbols
      PROVE  <<x, y, z>> \in Short
  BY DEF Short
<1>. QED  BY <1>1, <1>2, <1>3

LEMMA VowelsShort == \A r \in DOMAIN Vowels : Vowels[r] \subseteq Short
<1>0. /\ "a" \in Symbols /\ "a^" \in Symbols /\ "a(" \in Symbols /\ "e" \in Symbols /\ "e^" \in Symbols
      /\ "o" \in Symbols /\ "o^" \in Symbols /\ "o+" \in Symbols /\ "u" \in Symbols /\ "u+" \in Symbols
      /\ "i" \in Symbols /\ "y" \in Symbols
  <2>1. VowelSet \subseteq Symbols
    <3>1. \A row \in MarkRows : RowLetters(row) \subseteq Markable
      BY DEF Markable
    <3>2. {"a", "a^", "a(", "e", "e^", "o", "o^", "o+", "u", "u+"} \subseteq Markable
      BY <3>1, Rows, LettersOfRows
    <3>3. {"i", "y"} \subseteq Alpha
      BY DEF Alpha
    <3>. QED  BY <3>2, <3>3, VowelLetters DEF Symbols
  <2>. QED  BY <2>1, VowelLetters
<1>1. Vowels[1] \subseteq Short
  <2>1. {<<"e^">>, <<"i">>, <<"u","a">>, <<"u","e^">>, <<"u","y">>} \subseteq Short
    BY <1>0, ShortWords
  <2>2. {<<"y">>} \subseteq Short
    BY <1>0, ShortWords
  <2>. QED  BY <2>1, <2>2 DEF Vowels
<1>2. Vowels[2] \subseteq Short
  <2>1. {<<"a">>, <<"i","e^">>, <<"o","a">>, <<"u","y","e^">>, <<"y","e^">>} \subseteq Short
    BY <1>0, ShortWords
  <2>. QED  BY <2>1 DEF Vowels
<1>3. Vowels[3] \subseteq Short
  <2>1. {<<"a^">>, <<"a(">>, <<"e">>, <<"o">>, <<"o","o">>} \subseteq Short
    BY <1>0, ShortWords
  <2>2. {<<"o^">>, <<"o+">>, <<"o","e">>, <<"u">>, <<"u+">>} \subseteq Short
    BY <1>0, ShortWords
  <2>3. {<<"u","a^">>, <<"u","o^">>, <<"u+","o+">>} \subseteq Short
    BY <1>0, ShortWords
  <2>. QED  BY <2>1, <2>2, <2>3 DEF Vowels
<1>4. Vowels[4] \subseteq Short
  BY <1>0, ShortWords DEF Vowels
<1>5. Vowels[5] \subseteq Short
  BY <1>0, ShortWords DEF Vowels
<1>6. Vowels[6] \subseteq Short
  <2>1. {<<"a","i">>, <<"a","o">>, <<"a","u">>, <<"a^","u">>, <<"a","y">>} \subseteq Short
    BY <1>0, ShortWords
  <2>2. {<<"a^","y">>, <<"e","o">>, <<"e^","u">>, <<"i","a">>, <<"i","e^","u">>} \subseteq Short
    BY <1>0, ShortWords
  <2>3. {<<"i","u">>, <<"o","a","i">>, <<"o","a","o">>, <<"o","a","y">>, <<"o","e","o">>} \subseteq Short
    BY <1>0, ShortWords
  <2>4. {<<"o","i">>, <<"o^","i">>, <<"o+","i">>, <<"u+","a">>, <<"u","a^","y">>} \subseteq Short
    BY <1>0, ShortWords
  <2>5. {<<"u","i">>, <<"u+","i">>, <<"u","o^","i">>, <<"u+","o+","i">>, <<"u+","o+","u">>} \subseteq Short
    BY <1>0, ShortWords
  <2>6. {<<"u+","u">>, <<"u","y","a">>, <<"u","y","u">>, <<"y","e^","u">>} \subseteq Short
    BY <1>0, ShortWords
  <2>. QED  BY <2>1, <2>2, <2>3, <2>4, <2>5, <2>6 DEF Vowels
<1>7. Vowels[7] \subseteq Short
  BY <1>0, ShortWords DEF Vowels
<1>8. Vowels[8] \subseteq Short
  BY <1>0, ShortWords DEF Vowels
<1>9. DOMAIN Vowels = 1 .. 8 /\ \A r \in 1 .. 8 : r \in {1, 2, 3, 4, 5, 6, 7, 8}
  BY DEF Vowels
<1>. QED  BY <1>1, <1>2, <1>3, <1>4, <1>5, <1>6, <1>7, <1>8, <1>9

\* The tone of a possible syllable has a vowel to go to (find_tone_target): no
\* tone is lost when it moves.
THEOREM ValidHasToneTarget ==
  ASSUME NEW im, NEW A \in SUBSET Ids, NEW s \in Seq(On(im, A)), NEW std,
         IsValid(s, FALSE), Split(s).vo # <<>>, LastTone(s) # 0
  PROVE  FindToneTarget(Split(s), std) \in A
<1>. DEFINE p == Split(s)
            o == p.vo
            v == AppendedOf(o)
            w == Toneless(o)
<1>1. o \in Seq(On(im, A)) /\ v \in Seq(LettersIn(im, A)) /\ Sel(o, Appended) = v /\ v # <<>> /\ o # <<>>
  BY SplitOf
<1>2. Len(v) \in Nat \ {0}
  <2>. HIDE DEF v
  <2>. QED  BY <1>1, EmptySeq, LenProperties
<1>3. Len(w) = Len(v)
  <2>. HIDE DEF o, v
  <2>. QED  BY <1>1, TonelessOf
<1>4. w # <<>>
  <2>. HIDE DEF w, v
  <2>1. Len(<<>>) = 0
    OBVIOUS
  <2>. QED  BY <1>2, <1>3, <2>1
<1>5. Len(s) \in Nat /\ \A i \in 1 .. Len(s) : s[i] \in On(im, A)
  BY LenProperties, ElementOfSeq
<1>6. Len(s) > 1
  <2>1. LastTone(s) \in 1 .. Len(s) /\ s[LastTone(s)].kind = "tone"
    <3>. DEFINE P == {t \in On(im, A) : t.kind = "tone" /\ t.target # 0}
    <3>1. {i \in 1 .. Len(s) : s[i].kind = "tone" /\ s[i].target # 0} = {i \in 1 .. Len(s) : s[i] \in P}
      BY <1>5
    <3>2. LastTone(s) = LastOf(s, P)
      BY <3>1 DEF LastTone, SelectLastInSeq, LastOf, MaxOrZero
    <3>3. LastTone(s) \in 1 .. Len(s) /\ s[LastTone(s)] \in P
      <4>. HIDE DEF P
      <4>. QED  BY <3>2, LastPlace
    <3>. QED  BY <3>3
  <2>2. Sel(s, Appended) # <<>>
    <3>1. SUFFICES ASSUME Sel(s, Appended) = <<>>
                   PROVE  o = <<>>
      BY <1>1
    <3>2. SplitLetters(<<>>).vo \in Seq({})
      <4>1. <<>> \in Seq({})
        OBVIOUS
      <4>. QED  BY <4>1, SplitLettersType
    <3>3. SplitLetters(<<>>).vo = <<>>
      BY <3>2, LenProperties, ElementOfSeq, EmptySeq
    <3>4. o = WithEffects(s, SplitLetters(<<>>).vo)
      BY <3>1, FilterLetters DEF Split, TakeEffects
    <3>5. <<>> \in Seq(LettersIn(im, A))
      OBVIOUS
    <3>6. \A l \in Seq(LettersIn(im, A)) : l = <<>> => WithEffects(s, l) = <<>>
      BY WithEffectsOf
    <3>7. WithEffects(s, <<>>) = <<>>
      BY <3>5, <3>6
    <3>. HIDE DEF o
    <3>. QED  BY <3>3, <3>4, <3>7
  <2>3. \E i \in 1 .. Len(s) : s[i] \in Appended
    BY <2>2, SelEmpty
  <2>4. PICK i \in 1 .. Len(s) : s[i].kind = "append"
    BY <2>3 DEF Appended
  <2>5. i # LastTone(s)
    BY <2>1, <2>4
  <2>. QED  BY <2>1, <2>5, <1>5
<1>7. \E r \in DOMAIN Vowels : \E x \in Vowels[r] : Len(x) >= Len(w)
  <2>1. IsValidCVC(Toneless(p.fc), w, Toneless(p.lc), FALSE)
    <3>1. ~(Len(s) <= 1)
      BY <1>5, <1>6
    <3>2. IsSyllable(Split(s), Filtered(s, LAMBDA t : t.kind = "tone"), FALSE)
      BY <3>1 DEF IsValid
    <3>. QED  BY <3>2 DEF IsSyllable
  <2>2. Lookup(Vowels, w, FALSE \/ Toneless(p.lc) # <<>>, FALSE) # {}
    <3>. HIDE DEF w, p
    <3>. QED  BY <2>1, <1>4 DEF IsValidCVC, Agree
  <2>3. PICK r \in DOMAIN Vowels : \E x \in Vowels[r] : Len(x) = Len(w) \/ Len(x) >= Len(w)
    <3>. HIDE DEF w, p
    <3>. QED  BY <2>2 DEF Lookup
  <2>. HIDE DEF w
  <2>. QED  BY <2>3, <1>2, <1>3
<1>8. Len(v) <= 3
  <2>1. PICK r \in DOMAIN Vowels : \E x \in Vowels[r] : Len(x) >= Len(w)
    BY <1>7
  <2>2. PICK x \in Vowels[r] : Len(x) >= Len(w)
    BY <2>1
  <2>3. Len(x) \in 1 .. 3
    BY VowelsShort DEF Short
  <2>4. Len(w) \in Nat
    BY <1>2, <1>3
  <2>. DEFINE a == Len(x)
              b == Len(w)
  <2>5. a >= b /\ a \in 1 .. 3 /\ b \in Nat
    BY <2>2, <2>3, <2>4
  <2>6. b <= 3
    <3>. HIDE DEF a, b
    <3>. QED  BY <2>5
  <2>. QED  BY <2>6, <1>3
<1>9. FindToneTarget(p, std) \in A \cup {0} /\ (Len(v) \in 1 .. 3 => FindToneTarget(p, std) # 0)
  BY ToneVowelIn
<1>10. Len(v) \in 1 .. 3
  <2>. DEFINE a == Len(v)
  <2>1. a \in Nat \ {0} /\ a <= 3
    BY <1>2, <1>8
  <2>2. a \in 1 .. 3
    <3>. HIDE DEF a
    <3>. QED  BY <2>1
  <2>. QED  BY <2>2
<1>. QED  BY <1>9, <1>10

LEMMA LastAppendedOf ==
  ASSUME NEW im, NEW A, NEW s \in Seq(On(im, A))
  PROVE  /\ LastAppended(s) = LastOf(s, Appended)
         /\ LastAppended(s) = 0 \/ (LastAppended(s) \in 1 .. Len(s) /\ s[LastAppended(s)] \in LettersIn(im, A))
         /\ \A i \in 1 .. Len(s) : s[i] \in Appended => i <= LastAppended(s)
<1>1. \A i \in 1 .. Len(s) : s[i] \in On(im, A)
  BY ElementOfSeq
<1>2. {i \in 1 .. Len(s) : s[i].kind = "append"} = {i \in 1 .. Len(s) : s[i] \in Appended}
  BY <1>1 DEF Appended, On
<1>3. LastAppended(s) = LastOf(s, Appended)
  BY <1>2 DEF LastAppended, SelectLastInSeq, LastOf, MaxOrZero
<1>4. /\ LastOf(s, Appended) = 0 \/ (LastOf(s, Appended) \in 1 .. Len(s) /\ s[LastOf(s, Appended)] \in Appended)
      /\ \A i \in 1 .. Len(s) : s[i] \in Appended => i <= LastOf(s, Appended)
  BY LastPlace
<1>. QED  BY <1>1, <1>3, <1>4 DEF LettersIn

LEMMA ToneTargetIn ==
  ASSUME NEW im, NEW A \in SUBSET Ids, NEW s \in Seq(On(im, A)), NEW tone
  PROVE  ToneTarget(im, s, tone) \in A \cup {0}
<1>1. FindToneTarget(Split(s), im.std) \in A \cup {0}
  BY ToneVowelIn
<1>2. FreeTone(Split(s), tone, im.std) \in A \cup {0}
  BY <1>1 DEF FreeTone
<1>3. LastVowel(s, LastAppended(s)) \in A \cup {0}
  BY LastAppendedOf, LetterId DEF LastVowel
<1>. QED  BY <1>2, <1>3 DEF ToneTarget

\* What is found is no target, or a letter and a rule of the key for it.
Landing(A, rules) ==
  [target : A \cup {0},
   rule : {r \in RuleSet : r.kind # "append" /\ \E i \in 1 .. Len(rules) : r = rules[i]}]

LEMMA ToneChangesIn ==
  ASSUME NEW im, NEW A \in SUBSET Ids, NEW s \in Seq(On(im, A)), NEW rules \in Seq(RuleSet), NEW now
  PROVE  ToneChanges(im, s, rules, now) \in Seq(Landing(A, rules))
<1>. DEFINE P == {r \in RuleSet : r.kind = "tone"}
            f == Filtered(rules, LAMBDA r : r.kind = "tone")
            L == Landing(A, rules)
<1>0. DOMAIN rules = 1 .. Len(rules) /\ \A i \in 1 .. Len(rules) : rules[i] \in RuleSet
  BY LenProperties, ElementOfSeq
<1>1. {i \in DOMAIN rules : rules[i].kind = "tone"} = {i \in DOMAIN rules : rules[i] \in P}
  BY <1>0
<1>2. f = Sel(rules, P)
  BY <1>1 DEF Filtered, Sel
<1>3. /\ f \in Seq(RuleSet) /\ Len(f) \in Nat /\ DOMAIN f = 1 .. Len(f)
      /\ \A j \in 1 .. Len(f) : f[j] \in P /\ \E i \in 1 .. Len(rules) : f[j] = rules[i]
  <2>. HIDE DEF P, f
  <2>. QED  BY <1>2, SelType
<1>. HIDE DEF f
<1>4. \A j \in 1 .. Len(f) : /\ f[j] \in RuleSet /\ f[j].kind # "append"
                             /\ \E i \in 1 .. Len(rules) : f[j] = rules[i]
  BY <1>3
<1>5. ASSUME NEW j \in 1 .. Len(f)
      PROVE  [target |-> ToneTarget(im, s, f[j].effect), rule |-> f[j]] \in L
  <2>1. ToneTarget(im, s, f[j].effect) \in A \cup {0}
    BY ToneTargetIn
  <2>. QED  BY <2>1, <1>4 DEF Landing
<1>6. ToneTries(im, s, f) \in [1 .. Len(f) -> L]
  <2>. HIDE DEF L
  <2>. QED  BY <1>3, <1>5 DEF ToneTries
<1>. DEFINE tries == ToneTries(im, s, f)
<1>7. tries \in Seq(L)
  <2>. HIDE DEF L, tries
  <2>1. tries \in [1 .. Len(f) -> L]
    BY <1>6 DEF tries
  <2>. QED  BY <2>1, <1>3, FunctionIsSeq
<1>8. \E I : ToneChanges(im, s, rules, now) = Chosen(tries, I)
  BY DEF ToneChanges, Filtered, f
<1>. HIDE DEF tries, L
<1>9. \A I : Chosen(tries, I) \in Seq(L)
  BY <1>7, ChosenPlaces
<1>. QED  BY <1>8, <1>9 DEF L

LEMMA MarkTargetIn ==
  ASSUME NEW im, NEW A \in SUBSET Ids, NEW s \in Seq(On(im, A)), NEW rules \in Seq(RuleSet), NEW now
  PROVE  LET f == MarkTarget(s, rules, FittingRules(s, rules, now))
         IN  f = NoTarget \/ f \in Landing(A, rules)
<1>. DEFINE P == {r \in RuleSet : r.kind = "mark"}
            fits == FittingRules(s, rules, now)
<1>0. /\ DOMAIN s = 1 .. Len(s) /\ Len(s) \in Nat /\ \A i \in 1 .. Len(s) : s[i] \in On(im, A)
      /\ \A i \in 1 .. Len(rules) : rules[i] \in RuleSet
  BY LenProperties, ElementOfSeq
<1>1. ASSUME NEW i \in 1 .. Len(s)
      PROVE  fits[i] = 0 \/ (fits[i] \in 1 .. Len(rules) /\ rules[fits[i]].kind = "mark")
  <2>. DEFINE Q == {r \in RuleSet : /\ r.kind = "mark" /\ r.effect > 0 /\ s[i].gives = r.on
                                    /\ Fits(s, now, Append(s, Trans(r, Root(s[i]), Trial)))}
  <2>1. fits[i] = SelectInSeq(rules, LAMBDA r :
                    /\ r.kind = "mark" /\ r.effect > 0 /\ s[i].gives = r.on
                    /\ Fits(s, now, Append(s, Trans(r, Root(s[i]), Trial))))
    BY <1>0 DEF FittingRules
  <2>2. {j \in 1 .. Len(rules) :
           /\ rules[j].kind = "mark" /\ rules[j].effect > 0 /\ s[i].gives = rules[j].on
           /\ Fits(s, now, Append(s, Trans(rules[j], Root(s[i]), Trial)))}
        = {j \in 1 .. Len(rules) : rules[j] \in Q}
    BY <1>0
  <2>3. fits[i] = FirstOf(rules, Q)
    BY <2>1, <2>2 DEF SelectInSeq, FirstOf, MinOrZero
  <2>4. FirstOf(rules, Q) = 0 \/ (FirstOf(rules, Q) \in 1 .. Len(rules) /\ rules[FirstOf(rules, Q)] \in Q)
    <3>. HIDE DEF Q
    <3>. QED  BY FirstPlace
  <2>. QED  BY <2>3, <2>4
<1>2. DOMAIN fits = 1 .. Len(s) /\ fits = [i \in 1 .. Len(s) |-> fits[i]]
  BY <1>0 DEF FittingRules
<1>. HIDE DEF fits
<1>3. fits \in Seq(Nat) /\ Len(fits) = Len(s)
  <2>1. \A i \in 1 .. Len(s) : fits[i] \in Nat
    BY <1>1, LenProperties
  <2>2. fits \in [1 .. Len(s) -> Nat]
    BY <1>2, <2>1
  <2>. QED  BY <2>2, <1>0, FunctionIsSeq
<1>. DEFINE m == SelectLastInSeq(fits, LAMBDA r : r # 0)
<1>4. m = 0 \/ (m \in 1 .. Len(s) /\ fits[m] # 0)
  <2>1. {i \in 1 .. Len(fits) : fits[i] # 0} = {i \in 1 .. Len(fits) : fits[i] \in Ids}
    BY <1>3, ElementOfSeq DEF Ids
  <2>2. m = LastOf(fits, Ids)
    BY <2>1 DEF SelectLastInSeq, LastOf, MaxOrZero
  <2>3. m = 0 \/ (m \in 1 .. Len(fits) /\ fits[m] \in Ids)
    <3>. HIDE DEF m
    <3>. QED  BY <2>2, <1>3, LastPlace
  <2>. QED  BY <2>3, <1>3 DEF Ids
<1>5. MarkTarget(s, rules, fits) = LatestFit(s, rules, fits, m)
  BY DEF MarkTarget
<1>. HIDE DEF m
<1>6. CASE m = 0
  BY <1>5, <1>6 DEF LatestFit, fits
<1>7. CASE m # 0
  <2>1. fits[m] \in 1 .. Len(rules) /\ rules[fits[m]].kind = "mark" /\ rules[fits[m]] \in RuleSet
    BY <1>0, <1>1, <1>4, <1>7
  <2>2. Root(s[m]) \in A
    BY <1>0, <1>4, <1>7, RootIn
  <2>3. MarkTarget(s, rules, fits) = [target |-> Root(s[m]), rule |-> rules[fits[m]]]
    BY <1>5, <1>7 DEF LatestFit
  <2>. DEFINE r == rules[fits[m]]
  <2>4. r \in RuleSet /\ r.kind # "append" /\ \E i \in 1 .. Len(rules) : r = rules[i]
    BY <2>1
  <2>. HIDE DEF r
  <2>5. [target |-> Root(s[m]), rule |-> r] \in Landing(A, rules)
    BY <2>2, <2>4 DEF Landing
  <2>. QED  BY <2>3, <2>5 DEF r, fits
<1>. QED  BY <1>6, <1>7

\* find_target finds a letter of the composition, or nothing.
LEMMA FindTargetIn ==
  ASSUME NEW im, NEW A \in SUBSET Ids, NEW s \in Seq(On(im, A)), NEW rules \in Seq(RuleSet)
  PROVE  LET f == FindTarget(im, s, rules)
         IN  /\ f.target \in A \cup {0}
             /\ f.target # 0 => f \in Landing(A, rules)
<1>. DEFINE f == FindTarget(im, s, rules)
            tones == ToneChanges(im, s, rules, Flatten(s))
            mark == MarkTarget(s, rules, FittingRules(s, rules, Flatten(s)))
<1>1. tones \in Seq(Landing(A, rules)) /\ (mark = NoTarget \/ mark \in Landing(A, rules))
  BY ToneChangesIn, MarkTargetIn
<1>2. f = IF tones # <<>> THEN Head(tones) ELSE mark
  BY DEF FindTarget, FindTargetFrom, ToneOrMark
<1>. HIDE DEF tones, mark
<1>3. tones # <<>> => Head(tones) \in Landing(A, rules)
  BY <1>1, HeadTailProperties
<1>4. f = NoTarget \/ f \in Landing(A, rules)
  BY <1>1, <1>2, <1>3
<1>5. NoTarget.target = 0
  BY DEF NoTarget
<1>6. \A x \in Landing(A, rules) : x.target \in A \cup {0}
  BY DEF Landing
<1>. QED  BY <1>4, <1>5, <1>6

\* A rule put on a letter is a mark on that letter.
LEMMA MarkOn ==
  ASSUME NEW im, NEW A \in SUBSET Ids, NEW r \in RuleSet, r.kind # "append", NEW target \in A,
         NEW id \in Nat
  PROVE  /\ Trans(r, target, id) \in MarksIn(im, A)
         /\ Trans(r, target, id).key = r.key /\ Trans(r, target, id).id = id
<1>1. target \in Nat
  BY DEF Ids
<1>2. Trans(r, target, id) \in Transformation
  BY <1>1 DEF Trans, TransformationFields, Transformation, RuleFields, RuleSet
<1>. QED  BY <1>1, <1>2 DEF Trans, TransformationFields, Transformation, RuleFields, RuleSet, MarksIn, On

LEMMA CasedMark ==
  ASSUME NEW im, NEW A, NEW t \in MarksIn(im, A), NEW upper \in BOOLEAN
  PROVE  /\ Cased(t, upper) \in MarksIn(im, A)
         /\ Cased(t, upper).key = t.key /\ Cased(t, upper).id = t.id
         /\ Cased(t, upper).upper = upper
<1>1. Cased(t, upper) \in Transformation
  BY DEF Cased, TransformationFields, Transformation, MarksIn, On
<1>. QED  BY <1>1 DEF TransformationFields, Transformation, Cased, MarksIn, On

LEMMA VirtualRules ==
  ASSUME NEW effect \in Nat
  PROVE  /\ VirtualMark(effect) \in RuleSet /\ VirtualMark(effect).kind = "mark" /\ VirtualMark(effect).key = NoKey
         /\ VirtualTone(effect) \in RuleSet /\ VirtualTone(effect).kind = "tone" /\ VirtualTone(effect).key = NoKey
         /\ VirtualTone(effect).effect = effect
BY DEF VirtualMark, VirtualTone, Rule, RuleFields, RuleSet, NoLetter, Symbols, NoKey

LEMMA UntypedRule ==
  ASSUME NEW r \in RuleSet
  PROVE  Untyped(r) \in RuleSet /\ Untyped(r).kind = r.kind /\ Untyped(r).key = NoKey
BY DEF Untyped, RuleFields, RuleSet, Symbols, NoKey

(***************************************************************************)
(* The transformations a key makes. A batch has the ids from n on, and its *)
(* marks are on letters that were there or on its own.                     *)
(***************************************************************************)
Batch(im, A, n, new) ==
  /\ new # <<>> /\ new \in Seq(On(im, A \cup AppendIds(new)))
  /\ \A i \in 1 .. Len(new) : new[i].id = n + i - 1
Keys(new, key, upper) == Typed(new) = <<PlainChar(key, upper)>>
VirtualsIn(im, A) == {t \in MarksIn(im, A) : t.key = NoKey}

LEMMA OwnLetter ==
  ASSUME NEW new, NEW i \in DOMAIN new, new[i].kind = "append"
  PROVE  new[i].id \in AppendIds(new)
BY DEF AppendIds

LEMMA MarksAreOn ==
  ASSUME NEW im, NEW A, NEW B
  PROVE  MarksIn(im, A) \subseteq On(im, A \cup B) /\ VirtualsIn(im, A) \subseteq On(im, A \cup B)
         /\ VirtualsIn(im, A) \subseteq Transformation
BY DEF MarksIn, VirtualsIn, On

LEMMA Pairs ==
  ASSUME NEW S, NEW x \in S, NEW y \in S
  PROVE  /\ <<x, y>> \in Seq(S) /\ Len(<<x, y>>) = 2 /\ <<x, y>>[1] = x /\ <<x, y>>[2] = y
         /\ <<x>> \o <<y>> = <<x, y>>
<1>1. <<x, y>> \in Seq(S) /\ Len(<<x, y>>) = 2
  OBVIOUS
<1>2. <<x, y>>[1] = x /\ <<x, y>>[2] = y
  OBVIOUS
<1>3. <<x>> \o <<y>> = <<x, y>>
  <2>. DEFINE u == <<x>>
              w == <<y>>
              p == <<x, y>>
  <2>1. /\ u \in Seq(S) /\ w \in Seq(S) /\ p \in Seq(S) /\ Len(u) = 1 /\ Len(w) = 1 /\ Len(p) = 2
        /\ u[1] = x /\ w[1] = y /\ p[1] = x /\ p[2] = y
    BY <1>1, <1>2, SingletonSeq
  <2>. HIDE DEF u, w, p
  <2>2. \A i \in 1 .. 2 : i = 1 \/ i = 2
    OBVIOUS
  <2>3. u \o w = p
    <3>1. u \o w \in Seq(S) /\ Len(u \o w) = 2 /\ (u \o w)[1] = x /\ (u \o w)[2] = y
      BY <2>1, ConcatProperties
    <3>. DEFINE c == u \o w
    <3>2. c \in Seq(S) /\ Len(c) = Len(p) /\ \A i \in 1 .. 2 : c[i] = p[i]
      BY <2>1, <2>2, <3>1
    <3>. HIDE DEF c
    <3>3. c = p
      BY <2>1, <3>2, SeqEqual
    <3>. QED  BY <3>3 DEF c
  <2>. QED  BY <2>3 DEF u, w, p
<1>. QED  BY <1>1, <1>2, <1>3

LEMMA NothingMore == \A z : <<>> \o <<z>> = <<z>> /\ <<z>> \o <<>> = <<z>>
OBVIOUS

LEMMA TypedPair ==
  ASSUME NEW x \in Transformation, NEW y \in Transformation
  PROVE  /\ x.key # NoKey /\ y.key = NoKey => Typed(<<x, y>>) = <<PlainChar(x.key, x.upper)>>
         /\ x.key = NoKey /\ y.key # NoKey => Typed(<<x, y>>) = <<PlainChar(y.key, y.upper)>>
<1>1. <<x>> \in Seq(Transformation) /\ <<y>> \in Seq(Transformation) /\ <<x, y>> = <<x>> \o <<y>>
  <2>1. <<x>> \in Seq(Transformation) /\ <<y>> \in Seq(Transformation)
    BY SingletonSeq
  <2>2. <<x>> \o <<y>> = <<x, y>>
    BY Pairs
  <2>. QED  BY <2>1, <2>2
<1>2. Typed(<<x, y>>) = Typed(<<x>>) \o Typed(<<y>>)
  <2>. DEFINE u == <<x>>
              w == <<y>>
  <2>1. u \in Seq(Transformation) /\ w \in Seq(Transformation)
    BY <1>1
  <2>. HIDE DEF u, w
  <2>2. Typed(u \o w) = Typed(u) \o Typed(w)
    BY <2>1, TypedConcat
  <2>. QED  BY <2>2, <1>1 DEF u, w
<1>3. ASSUME NEW z \in Transformation
      PROVE  /\ z.key # NoKey => Typed(<<z>>) = <<PlainChar(z.key, z.upper)>>
             /\ z.key = NoKey => Typed(<<z>>) = <<>>
  <2>1. CASE z.key # NoKey
    BY <2>1, TypedSingle
  <2>2. CASE z.key = NoKey
    <3>. DEFINE u == <<z>>
    <3>1. u \in Seq(Transformation) /\ \A i \in 1 .. Len(u) : u[i].key = NoKey
      <4>1. u \in Seq(Transformation) /\ Len(u) = 1 /\ u[1] = z
        BY SingletonSeq
      <4>. HIDE DEF u
      <4>. QED  BY <4>1, <2>2, OneUpTo
    <3>2. Typed(u) = <<>>
      <4>. HIDE DEF u
      <4>. QED  BY <3>1, TypedNothing
    <3>. QED  BY <2>2, <3>2
  <2>. QED  BY <2>1, <2>2
<1>. QED  BY <1>2, <1>3, NothingMore

\* One mark, or a mark and a mark.
LEMMA BatchOfMarks ==
  ASSUME NEW im, NEW A \in SUBSET Ids, NEW n \in Nat, NEW x \in MarksIn(im, A), x.id = n
  PROVE  /\ Batch(im, A, n, <<x>>)
         /\ \A y \in MarksIn(im, A) : y.id = n + 1 => Batch(im, A, n, <<x, y>>)
<1>1. \A B : \A y \in MarksIn(im, A) : y \in On(im, A \cup B)
  BY MarksAreOn
<1>2. Batch(im, A, n, <<x>>)
  <2>. DEFINE u == <<x>>
  <2>1. u \in Seq(On(im, A \cup AppendIds(u))) /\ Len(u) = 1 /\ u[1] = x /\ u # <<>>
    BY <1>1, SingletonSeq
  <2>. HIDE DEF u
  <2>2. \A i \in 1 .. Len(u) : u[i].id = n + i - 1
    BY <2>1
  <2>. QED  BY <2>1, <2>2 DEF u, Batch
<1>3. ASSUME NEW y \in MarksIn(im, A), y.id = n + 1
      PROVE  Batch(im, A, n, <<x, y>>)
  <2>. DEFINE u == <<x, y>>
  <2>1. u \in Seq(On(im, A \cup AppendIds(u))) /\ Len(u) = 2 /\ u[1] = x /\ u[2] = y /\ u # <<>>
    BY <1>1, Pairs
  <2>. HIDE DEF u
  <2>2. \A i \in 1 .. Len(u) : u[i].id = n + i - 1
    BY <2>1, <1>3
  <2>. QED  BY <2>1, <2>2 DEF u, Batch
<1>. QED  BY <1>2, <1>3

LEMMA RulesOf ==
  ASSUME NEW im, MethodOK(im), NEW key
  PROVE  /\ ApplicableRules(im, key) \in Seq(RuleSet)
         /\ \A i \in 1 .. Len(ApplicableRules(im, key)) :
              /\ ApplicableRules(im, key)[i].key = key
              /\ ApplicableRules(im, key)[i].kind = "append"
                   => key \in im.appending /\ Appends(ApplicableRules(im, key)[i])
<1>1. CASE key \in im.keys
  <2>. DEFINE r == im.rules[key]
  <2>1. /\ r \in Seq(RuleSet) /\ \A i \in DOMAIN r : r[i].key = key
        /\ \A i \in DOMAIN r : r[i].kind = "append" => key \in im.appending /\ Appends(r[i])
    BY <1>1 DEF MethodOK
  <2>2. ApplicableRules(im, key) = r
    BY <1>1 DEF ApplicableRules
  <2>. HIDE DEF r
  <2>3. DOMAIN r = 1 .. Len(r)
    BY <2>1, LenProperties
  <2>. QED  BY <2>1, <2>2, <2>3
<1>2. CASE key \notin im.keys
  BY <1>2 DEF ApplicableRules
<1>. QED  BY <1>1, <1>2

\* A second mark that the first one calls for is nobody's key.
LEMMA SupplementIn ==
  ASSUME NEW im, MethodOK(im), NEW A \in SUBSET Ids, NEW s \in Seq(On(im, A)), NEW key, NEW n \in Nat
  PROVE  LET u == Supplement(FindTarget(im, s, ApplicableRules(im, key)), n)
         IN  u = <<>> \/ \E y \in VirtualsIn(im, A) : y.id = n /\ u = <<y>>
<1>. DEFINE rules == ApplicableRules(im, key)
            f == FindTarget(im, s, rules)
            y == Trans(Untyped(f.rule), f.target, n)
<1>1. f.target \in A \cup {0} /\ (f.target # 0 => f \in Landing(A, rules))
  BY RulesOf, FindTargetIn
<1>. HIDE DEF f
<1>2. CASE f.target = 0
  BY <1>2 DEF Supplement, f
<1>3. CASE f.target # 0
  <2>1. f.rule \in RuleSet /\ f.rule.kind # "append" /\ f.target \in A
    BY <1>1, <1>3 DEF Landing
  <2>2. Untyped(f.rule) \in RuleSet /\ Untyped(f.rule).kind # "append" /\ Untyped(f.rule).key = NoKey
    BY <2>1, UntypedRule
  <2>3. y \in MarksIn(im, A) /\ y.key = NoKey /\ y.id = n
    <3>. DEFINE r == Untyped(f.rule)
                a == f.target
    <3>1. r \in RuleSet /\ r.kind # "append" /\ r.key = NoKey /\ a \in A
      BY <2>1, <2>2
    <3>2. Trans(r, a, n) \in MarksIn(im, A) /\ Trans(r, a, n).key = NoKey /\ Trans(r, a, n).id = n
      <4>. HIDE DEF r, a
      <4>. QED  BY <3>1, MarkOn
    <3>. QED  BY <3>2
  <2>4. y \in VirtualsIn(im, A)
    BY <2>3 DEF VirtualsIn
  <2>5. Supplement(f, n) = <<y>>
    BY <1>3 DEF Supplement
  <2>. QED  BY <2>3, <2>4, <2>5 DEF f
<1>. QED  BY <1>2, <1>3

\* A mark, and perhaps a second one that it calls for.
LEMMA CompletedBatch ==
  ASSUME NEW im, MethodOK(im), NEW A \in SUBSET Ids, NEW s \in Seq(On(im, A)), NEW key,
         NEW x \in MarksIn(im, A), x.key # NoKey
  PROVE  LET new == Completed(im, s, ApplicableRules(im, key), x)
         IN  Batch(im, A, x.id, new) /\ Keys(new, x.key, x.upper)
<1>. DEFINE rules == ApplicableRules(im, key)
            w == Append(s, x)
            n == x.id
            u == Supplement(FindTarget(im, w, rules), n + 1)
            new == Completed(im, s, rules, x)
<1>1. x \in Transformation /\ x \in On(im, A) /\ n \in Nat /\ n + 1 \in Nat
  BY DEF MarksIn, On, TransformationFields, Transformation
<1>2. new = <<x>> \o IF x.kind = "tone" \/ IsValid(Append(s, x), TRUE) THEN <<>> ELSE u
  BY DEF Completed
<1>3. w \in Seq(On(im, A))
  BY <1>1, AppendProperties
<1>. HIDE DEF w
<1>4. u = <<>> \/ \E y \in VirtualsIn(im, A) : y.id = n + 1 /\ u = <<y>>
  <2>. HIDE DEF n
  <2>. QED  BY <1>1, <1>3, SupplementIn
<1>5. \/ new = <<x>>
      \/ \E y \in VirtualsIn(im, A) : y.id = n + 1 /\ new = <<x>> \o <<y>>
  <2>1. <<x>> \o <<>> = <<x>>
    BY NothingMore
  <2>. HIDE DEF u, new
  <2>. QED  BY <1>2, <1>4, <2>1
<1>. HIDE DEF new, u
<1>6. CASE new = <<x>>
  <2>1. Batch(im, A, n, <<x>>)
    BY <1>1, BatchOfMarks
  <2>2. Keys(<<x>>, x.key, x.upper)
    BY <1>1, TypedSingle DEF Keys
  <2>. QED  BY <1>6, <2>1, <2>2 DEF new
<1>7. CASE \E y \in VirtualsIn(im, A) : y.id = n + 1 /\ new = <<x>> \o <<y>>
  <2>1. PICK y \in VirtualsIn(im, A) : y.id = n + 1 /\ new = <<x>> \o <<y>>
    BY <1>7
  <2>2. y \in MarksIn(im, A) /\ y.key = NoKey /\ y \in Transformation
    BY DEF VirtualsIn, MarksIn, On
  <2>3. new = <<x, y>>
    <3>1. <<x>> \o <<y>> = <<x, y>>
      BY <2>2, <1>1, Pairs
    <3>. QED  BY <2>1, <3>1
  <2>4. Batch(im, A, n, <<x, y>>)
    BY <1>1, <2>1, <2>2, BatchOfMarks
  <2>5. Keys(<<x, y>>, x.key, x.upper)
    BY <1>1, <2>2, TypedPair DEF Keys
  <2>. QED  BY <2>3, <2>4, <2>5 DEF new
<1>. QED  BY <1>5, <1>6, <1>7

\* A rule that was found, on the letter it was found for.
LEMMA FoundMark ==
  ASSUME NEW im, NEW A \in SUBSET Ids, NEW rules, NEW f \in Landing(A, rules), f.target # 0,
         NEW upper \in BOOLEAN, NEW n \in Nat
  PROVE  LET x == Cased(Trans(f.rule, f.target, n), upper)
         IN  x \in MarksIn(im, A) /\ x.key = f.rule.key /\ x.id = n /\ x.upper = upper
<1>. DEFINE r == f.rule
            a == f.target
            c == Trans(r, a, n)
<1>1. r \in RuleSet /\ r.kind # "append" /\ a \in A
  BY DEF Landing
<1>. HIDE DEF r, a
<1>2. c \in MarksIn(im, A) /\ c.key = r.key /\ c.id = n
  BY <1>1, MarkOn
<1>. HIDE DEF c
<1>3. Cased(c, upper) \in MarksIn(im, A) /\ Cased(c, upper).key = c.key /\ Cased(c, upper).id = c.id
      /\ Cased(c, upper).upper = upper
  BY <1>2, CasedMark
<1>. QED  BY <1>2, <1>3 DEF c, r, a

\* The key's rule finds a letter: the mark on it, and perhaps a second one.
LEMMA FoundBatch ==
  ASSUME NEW im, MethodOK(im), NEW A \in SUBSET Ids, NEW s \in Seq(On(im, A)), NEW key, key # NoKey,
         NEW upper \in BOOLEAN, NEW n \in Nat
  PROVE  LET rules == ApplicableRules(im, key)
             new == Found(im, s, rules, FindTarget(im, s, rules), upper, n)
         IN  new = <<>> \/ (Batch(im, A, n, new) /\ Keys(new, key, upper))
<1>. DEFINE rules == ApplicableRules(im, key)
            f == FindTarget(im, s, rules)
            x == Cased(Trans(f.rule, f.target, n), upper)
            new == Found(im, s, rules, f, upper, n)
<1>1. f.target \in A \cup {0} /\ (f.target # 0 => f \in Landing(A, rules))
  BY RulesOf, FindTargetIn
<1>. HIDE DEF f
<1>2. CASE f.target = 0
  BY <1>2 DEF Found, f
<1>3. CASE f.target # 0
  <2>1. f.rule.key = key
    <3>1. \A i \in 1 .. Len(rules) : rules[i].key = key
      BY RulesOf
    <3>2. \E i \in 1 .. Len(rules) : f.rule = rules[i]
      BY <1>1, <1>3 DEF Landing
    <3>. HIDE DEF rules
    <3>. QED  BY <3>1, <3>2
  <2>2. x \in MarksIn(im, A) /\ x.key = key /\ x.id = n /\ x.upper = upper
    <3>1. f \in Landing(A, rules) /\ f.target # 0
      BY <1>1, <1>3
    <3>. HIDE DEF rules
    <3>2. x \in MarksIn(im, A) /\ x.key = f.rule.key /\ x.id = n /\ x.upper = upper
      <4>1. \A g \in Landing(A, rules) : g.target # 0 =>
              LET c == Cased(Trans(g.rule, g.target, n), upper)
              IN  c \in MarksIn(im, A) /\ c.key = g.rule.key /\ c.id = n /\ c.upper = upper
        BY FoundMark
      <4>. QED  BY <3>1, <4>1
    <3>. HIDE DEF x
    <3>. QED  BY <3>2, <2>1
  <2>3. new = Completed(im, s, rules, x)
    BY <1>3 DEF Found
  <2>. HIDE DEF x
  <2>4. x.key # NoKey
    BY <2>2
  <2>5. Batch(im, A, x.id, new) /\ Keys(new, x.key, x.upper)
    BY <2>2, <2>3, <2>4, CompletedBatch
  <2>. QED  BY <2>2, <2>5 DEF f
<1>. QED  BY <1>2, <1>3

LEMMA UnmarkOn ==
  ASSUME NEW im, NEW A \in SUBSET Ids, NEW a \in A, NEW n \in Nat
  PROVE  /\ Unmark(a, n) \in VirtualsIn(im, A) /\ Unmark(a, n).id = n /\ Unmark(a, n).key = NoKey
         /\ Trans(VirtualTone(None), a, n) \in VirtualsIn(im, A)
         /\ Trans(VirtualMark(Raw), a, n) \in VirtualsIn(im, A) /\ Trans(VirtualMark(Raw), a, n).id = n
<1>1. None \in Nat /\ Raw \in Nat
  BY DEF None, Raw
<1>. DEFINE r == VirtualMark(None)
            q == VirtualTone(None)
            w == VirtualMark(Raw)
<1>2. /\ r \in RuleSet /\ r.kind # "append" /\ r.key = NoKey
      /\ q \in RuleSet /\ q.kind # "append" /\ q.key = NoKey
      /\ w \in RuleSet /\ w.kind # "append" /\ w.key = NoKey
  BY <1>1, VirtualRules
<1>3. Unmark(a, n) = Trans(r, a, n)
  BY DEF Unmark
<1>. HIDE DEF r, q, w
<1>4. Trans(r, a, n) \in MarksIn(im, A) /\ Trans(r, a, n).key = NoKey /\ Trans(r, a, n).id = n
  BY <1>2, MarkOn
<1>5. Trans(q, a, n) \in MarksIn(im, A) /\ Trans(q, a, n).key = NoKey
  BY <1>2, MarkOn
<1>6. Trans(w, a, n) \in MarksIn(im, A) /\ Trans(w, a, n).key = NoKey /\ Trans(w, a, n).id = n
  BY <1>2, MarkOn
<1>. QED  BY <1>3, <1>4, <1>5, <1>6 DEF VirtualsIn, q, w

LEMMA UndoToneIn ==
  ASSUME NEW im, NEW A \in SUBSET Ids, NEW a \in A \cup {0}
  PROVE  Filtered(<<Trans(VirtualTone(None), a, Trial)>>, LAMBDA t : t.target # 0) \in Seq(VirtualsIn(im, A))
<1>. DEFINE x == Trans(VirtualTone(None), a, Trial)
            P == IF a = 0 THEN {} ELSE {x}
            u == <<x>>
<1>1. x.target = a
  BY DEF Trans
<1>2. a # 0 => x \in VirtualsIn(im, A)
  BY UnmarkOn DEF Trial
<1>. HIDE DEF x
<1>3. {i \in DOMAIN u : u[i].target # 0} = {i \in DOMAIN u : u[i] \in P}
  BY <1>1
<1>4. Filtered(u, LAMBDA t : t.target # 0) = Sel(u, P)
  BY <1>3 DEF Filtered, Sel
<1>5. Sel(u, P) = IF x \in P THEN <<x>> ELSE <<>>
  <2>. HIDE DEF P
  <2>. QED  BY SelSingle
<1>6. x \in P => <<x>> \in Seq(VirtualsIn(im, A))
  BY <1>2, SingletonSeq
<1>7. <<>> \in Seq(VirtualsIn(im, A))
  OBVIOUS
<1>. HIDE DEF P
<1>. QED  BY <1>4, <1>5, <1>6, <1>7 DEF x, u

LEMMA ReverseType ==
  ASSUME NEW S, NEW s \in Seq(S)
  PROVE  Reverse(s) \in Seq(S)
<1>1. Len(s) \in Nat /\ \A i \in 1 .. Len(s) : s[i] \in S
  BY LenProperties, ElementOfSeq
<1>2. \A i \in 1 .. Len(s) : (Len(s) - i) + 1 \in 1 .. Len(s)
  BY <1>1
<1>3. [i \in 1 .. Len(s) |-> s[(Len(s) - i) + 1]] \in [1 .. Len(s) -> S]
  BY <1>1, <1>2
<1>. DEFINE f == [i \in 1 .. Len(s) |-> s[(Len(s) - i) + 1]]
<1>4. Reverse(s) = f
  BY DEF Reverse
<1>. HIDE DEF f
<1>. QED  BY <1>1, <1>3, <1>4, FunctionIsSeq DEF f

LEMMA UndoRuleIn ==
  ASSUME NEW im, NEW A \in SUBSET Ids, NEW s \in Seq(On(im, A)), NEW rule, NEW now
  PROVE  UndoRule(im, s, rule, now) \in Seq(VirtualsIn(im, A))
<1>. DEFINE V == VirtualsIn(im, A)
<1>1. CASE rule.kind = "tone"
  <2>1. ToneTarget(im, s, rule.effect) \in A \cup {0}
    BY ToneTargetIn
  <2>2. UndoRule(im, s, rule, now)
          = Filtered(<<Trans(VirtualTone(None), ToneTarget(im, s, rule.effect), Trial)>>, LAMBDA t : t.target # 0)
    BY <1>1 DEF UndoRule
  <2>. QED  BY <2>1, <2>2, UndoToneIn
<1>2. CASE rule.kind = "mark"
  <2>. DEFINE f == Filtered(Reverse(s), LAMBDA t :
                     t.gives = rule.on /\ Toneless(Append(s, Unmark(Root(t), Trial))) # now)
  <2>1. UndoRule(im, s, rule, now) = UnmarkAll(f)
    BY <1>2 DEF UndoRule
  <2>2. f \in Seq(On(im, A))
    <3>1. Reverse(s) \in Seq(On(im, A))
      BY ReverseType
    <3>2. \E I : f = Chosen(Reverse(s), I)
      BY DEF Filtered
    <3>. HIDE DEF f
    <3>. QED  BY <3>1, <3>2, ChosenPlaces
  <2>. HIDE DEF f
  <2>3. Len(f) \in Nat /\ DOMAIN f = 1 .. Len(f) /\ \A i \in 1 .. Len(f) : f[i] \in On(im, A)
    BY <2>2, LenProperties, ElementOfSeq
  <2>4. \A i \in 1 .. Len(f) : Unmark(Root(f[i]), Trial) \in V
    <3>1. Trial \in Nat
      BY DEF Trial
    <3>2. \A i \in 1 .. Len(f) : Root(f[i]) \in A
      BY <2>3, RootIn
    <3>. QED  BY <3>1, <3>2, UnmarkOn
  <2>5. UnmarkAll(f) \in [1 .. Len(f) -> V]
    BY <2>3, <2>4 DEF UnmarkAll
  <2>6. UnmarkAll(f) \in Seq(V)
    BY <2>3, <2>5, FunctionIsSeq
  <2>. QED  BY <2>1, <2>6
<1>3. CASE rule.kind # "tone" /\ rule.kind # "mark"
  <2>1. UndoRule(im, s, rule, now) = <<>>
    BY <1>3 DEF UndoRule
  <2>. QED  BY <2>1
<1>. QED  BY <1>1, <1>2, <1>3

LEMMA NumberedOf ==
  ASSUME NEW im, NEW A, NEW ts \in Seq(VirtualsIn(im, A)), NEW n \in Nat
  PROVE  LET u == Numbered(ts, n)
         IN  /\ u \in Seq(VirtualsIn(im, A)) /\ Len(u) = Len(ts) /\ Len(u) \in Nat
             /\ \A i \in 1 .. Len(u) : u[i].id = n + i - 1
<1>. DEFINE V == VirtualsIn(im, A)
            u == Numbered(ts, n)
<1>1. Len(ts) \in Nat /\ DOMAIN ts = 1 .. Len(ts) /\ \A i \in 1 .. Len(ts) : ts[i] \in V
  BY LenProperties, ElementOfSeq
<1>2. \A i \in 1 .. Len(ts) : n + i - 1 \in Nat
  BY <1>1
<1>3. \A t \in V : \A id \in Nat : [t EXCEPT !.id = id] \in V /\ [t EXCEPT !.id = id].id = id
  <2>. SUFFICES ASSUME NEW t \in V, NEW id \in Nat
                PROVE  [t EXCEPT !.id = id] \in V /\ [t EXCEPT !.id = id].id = id
    OBVIOUS
  <2>1. t \in Transformation /\ t.kind # "append" /\ t.target \in A /\ t.key = NoKey
    BY DEF VirtualsIn, MarksIn, On
  <2>. DEFINE w == [t EXCEPT !.id = id]
  <2>2. w \in Transformation /\ w.kind = t.kind /\ w.target = t.target /\ w.key = t.key /\ w.id = id
    BY <2>1 DEF TransformationFields, Transformation
  <2>. HIDE DEF w
  <2>3. w \in V /\ w.id = id
    BY <2>1, <2>2 DEF VirtualsIn, MarksIn, On
  <2>. QED  BY <2>3 DEF w
<1>4. \A i \in 1 .. Len(ts) : u[i] = [ts[i] EXCEPT !.id = n + i - 1]
  BY <1>1 DEF Numbered
<1>5. u = [i \in 1 .. Len(ts) |-> u[i]]
  BY <1>1 DEF Numbered
<1>. HIDE DEF u, V
<1>6. ASSUME NEW i \in 1 .. Len(ts)
      PROVE  u[i] \in V /\ u[i].id = n + i - 1
  <2>. DEFINE k == n + i - 1
              t == ts[i]
  <2>1. k \in Nat /\ t \in V /\ u[i] = [t EXCEPT !.id = k]
    BY <1>1, <1>2, <1>4
  <2>. HIDE DEF k, t
  <2>2. u[i] \in V /\ u[i].id = k
    BY <2>1, <1>3
  <2>. QED  BY <2>2 DEF k
<1>7. u \in [1 .. Len(ts) -> V]
  BY <1>5, <1>6
<1>8. u \in Seq(V) /\ Len(u) = Len(ts)
  BY <1>1, <1>7, FunctionIsSeq
<1>. QED  BY <1>1, <1>6, <1>8 DEF u, V

LEMMA UndoIn ==
  ASSUME NEW im, NEW A \in SUBSET Ids, NEW s \in Seq(On(im, A)), NEW rules \in Seq(RuleSet), NEW now, NEW n \in Nat
  PROVE  LET u == UndoTransformations(im, s, rules, now, n)
         IN  /\ u \in Seq(VirtualsIn(im, A)) /\ Len(u) \in Nat
             /\ \A i \in 1 .. Len(u) : u[i].id = n + i - 1
<1>. DEFINE V == VirtualsIn(im, A)
            f == [r \in DOMAIN rules |-> UndoRule(im, s, rules[r], now)]
            ts == FlattenSeq(f)
<1>1. Len(rules) \in Nat /\ DOMAIN rules = 1 .. Len(rules)
  BY LenProperties
<1>2. \A r \in 1 .. Len(rules) : UndoRule(im, s, rules[r], now) \in Seq(V)
  BY UndoRuleIn
<1>3. f \in [1 .. Len(rules) -> Seq(V)]
  <2>. HIDE DEF V
  <2>. QED  BY <1>1, <1>2
<1>. HIDE DEF f
<1>4. f \in Seq(Seq(V))
  <2>. HIDE DEF V
  <2>. QED  BY <1>1, <1>3, FunctionIsSeq
<1>5. ts \in Seq(V)
  <2>. HIDE DEF V
  <2>. QED  BY <1>4, FlattenSeqType
<1>6. UndoTransformations(im, s, rules, now, n) = Numbered(ts, n)
  BY DEF UndoTransformations, f
<1>. HIDE DEF ts
<1>. QED  BY <1>5, <1>6, NumberedOf

\* The letter a key types.
LEMMA AppendingIs ==
  ASSUME NEW im, NEW A, NEW key \in Symbols, key # NoKey, NEW upper \in BOOLEAN, NEW n \in Ids, n \in A
  PROVE  LET x == Appending(key, upper, n)
         IN  /\ x \in LettersIn(im, A) /\ x.id = n /\ x.key = key /\ x.upper = upper
             /\ x.on = key /\ x.gives = key /\ x.kind = "append" /\ x.target = 0
<1>. DEFINE x == Appending(key, upper, n)
<1>1. n \in Nat
  BY DEF Ids
<1>2. /\ x.id = n /\ x.key = key /\ x.upper = upper
      /\ x.on = key /\ x.gives = key /\ x.kind = "append" /\ x.target = 0
  BY DEF Appending, Cased, Trans, Rule
<1>3. x \in Transformation
  BY <1>1 DEF Appending, Cased, Trans, Rule, TransformationFields, Transformation
<1>. HIDE DEF x
<1>4. Letter(im, x)
  BY <1>2 DEF Letter
<1>5. x \in LettersIn(im, A)
  BY <1>2, <1>3, <1>4 DEF LettersIn, On, Appended
<1>. QED  BY <1>2, <1>5 DEF x

\* A letter, and perhaps a mark it calls for.
LEMMA BatchOfLetter ==
  ASSUME NEW im, NEW A \in SUBSET Ids, NEW x, x \in LettersIn(im, A \cup {x.id}), x.id \in Ids
  PROVE  /\ Batch(im, A, x.id, <<x>>)
         /\ \A y \in VirtualsIn(im, A \cup {x.id}) : y.id = x.id + 1 => Batch(im, A, x.id, <<x, y>>)
<1>. DEFINE n == x.id
            B == A \cup {n}
<1>0. n \in Nat /\ x.kind = "append" /\ x \in On(im, B)
  BY DEF Ids, LettersIn, Appended
<1>1. \A C : n \in C => B \subseteq A \cup C
  OBVIOUS
<1>2. Batch(im, A, n, <<x>>)
  <2>. DEFINE u == <<x>>
  <2>1. u \in Seq(On(im, B)) /\ Len(u) = 1 /\ u[1] = x /\ u # <<>> /\ 1 \in DOMAIN u
    <3>. HIDE DEF B
    <3>. QED  BY <1>0, SingletonSeq
  <2>. HIDE DEF u
  <2>2. n \in AppendIds(u)
    BY <1>0, <2>1, OwnLetter
  <2>3. On(im, B) \subseteq On(im, A \cup AppendIds(u))
    BY <1>1, <2>2, OnMore
  <2>4. u \in Seq(On(im, A \cup AppendIds(u)))
    <3>. DEFINE S == On(im, B)
                T == On(im, A \cup AppendIds(u))
    <3>1. Seq(S) \subseteq Seq(T)
      <4>1. S \subseteq T
        BY <2>3
      <4>. HIDE DEF S, T
      <4>. QED  BY <4>1, SeqMonotonic
    <3>. QED  BY <2>1, <3>1
  <2>. HIDE DEF n
  <2>5. \A i \in 1 .. Len(u) : u[i].id = n + i - 1
    <3>1. \A i \in 1 .. Len(u) : i = 1
      BY <2>1
    <3>2. u[1].id = n
      BY <2>1 DEF n
    <3>. QED  BY <3>1, <3>2, <1>0
  <2>. QED  BY <2>1, <2>4, <2>5 DEF u, Batch
<1>3. ASSUME NEW y \in VirtualsIn(im, B), y.id = n + 1
      PROVE  Batch(im, A, n, <<x, y>>)
  <2>. DEFINE u == <<x, y>>
  <2>1. u \in Seq(On(im, B)) /\ Len(u) = 2 /\ u[1] = x /\ u[2] = y /\ u # <<>> /\ 1 \in DOMAIN u
    <3>1. y \in On(im, B)
      BY DEF VirtualsIn, MarksIn
    <3>. HIDE DEF B
    <3>2. u \in Seq(On(im, B)) /\ Len(u) = 2 /\ u[1] = x /\ u[2] = y
      BY <1>0, <3>1, Pairs
    <3>. QED  BY <3>2
  <2>. HIDE DEF u
  <2>2. n \in AppendIds(u)
    BY <1>0, <2>1, OwnLetter
  <2>3. On(im, B) \subseteq On(im, A \cup AppendIds(u))
    BY <1>1, <2>2, OnMore
  <2>4. u \in Seq(On(im, A \cup AppendIds(u)))
    <3>. DEFINE S == On(im, B)
                T == On(im, A \cup AppendIds(u))
    <3>1. Seq(S) \subseteq Seq(T)
      <4>1. S \subseteq T
        BY <2>3
      <4>. HIDE DEF S, T
      <4>. QED  BY <4>1, SeqMonotonic
    <3>. QED  BY <2>1, <3>1
  <2>5. \A i \in 1 .. Len(u) : u[i].id = n + i - 1
    <3>1. \A i \in 1 .. Len(u) : i = 1 \/ i = 2
      BY <2>1
    <3>2. u[1].id = n /\ u[2].id = n + 1
      BY <2>1, <1>3
    <3>. HIDE DEF n
    <3>. QED  BY <3>1, <3>2, <1>0
  <2>. QED  BY <2>1, <2>4, <2>5 DEF u, Batch
<1>. QED  BY <1>2, <1>3

\* What the key's rules may have put there is taken away, and the key follows.
LEMMA UndoBatch ==
  ASSUME NEW im, NEW A \in SUBSET Ids, NEW u \in Seq(VirtualsIn(im, A)), NEW n \in Ids,
         \A i \in 1 .. Len(u) : u[i].id = n + i - 1,
         NEW key \in Symbols, key # NoKey, NEW upper \in BOOLEAN
  PROVE  LET new == UndoAndAppend(u, key, upper, n)
         IN  new = <<>> \/ (Batch(im, A, n, new) /\ Keys(new, key, upper))
<1>1. CASE u = <<>>
  BY <1>1 DEF UndoAndAppend
<1>2. CASE u # <<>>
  <2>. DEFINE k == n + Len(u)
              x == Appending(key, upper, k)
              new == Append(u, x)
              B == A \cup {k}
  <2>0. n \in Nat /\ n # 0 /\ Len(u) \in Nat /\ \A i \in 1 .. Len(u) : u[i] \in VirtualsIn(im, A)
    BY LenProperties, ElementOfSeq DEF Ids
  <2>1. k \in Ids /\ k \in B
    BY <2>0 DEF Ids
  <2>. HIDE DEF k
  <2>2. x \in LettersIn(im, B) /\ x.id = k /\ x.key = key /\ x.upper = upper /\ x.kind = "append"
    <3>. HIDE DEF B
    <3>. QED  BY <2>1, AppendingIs
  <2>. HIDE DEF x
  <2>3. x \in On(im, B) /\ x \in Transformation
    BY <2>2 DEF LettersIn, On
  <2>4. VirtualsIn(im, A) \subseteq On(im, B) /\ VirtualsIn(im, A) \subseteq Transformation
    BY MarksAreOn
  <2>5. u \in Seq(On(im, B)) /\ u \in Seq(Transformation)
    BY <2>4, SeqMonotonic
  <2>6. /\ new \in Seq(On(im, B)) /\ new # <<>> /\ Len(new) = Len(u) + 1
        /\ (\A i \in 1 .. Len(u) : new[i] = u[i]) /\ new[Len(u) + 1] = x
    <3>. HIDE DEF B
    <3>. QED  BY <2>3, <2>5, AppendProperties
  <2>7. new = u \o <<x>>
    BY <2>3, <2>5, AppendIsConcat
  <2>. HIDE DEF new
  <2>8. Len(u) + 1 \in DOMAIN new
    BY <2>0, <2>6, LenProperties
  <2>9. k \in AppendIds(new)
    BY <2>2, <2>6, <2>8, OwnLetter
  <2>10. new \in Seq(On(im, A \cup AppendIds(new)))
    <3>1. On(im, B) \subseteq On(im, A \cup AppendIds(new))
      BY <2>9, OnMore
    <3>. QED  BY <2>6, <3>1, SeqMonotonic
  <2>11. \A i \in 1 .. Len(new) : new[i].id = n + i - 1
    <3>. SUFFICES ASSUME NEW i \in 1 .. Len(new)
                  PROVE  new[i].id = n + i - 1
      OBVIOUS
    <3>1. CASE i \in 1 .. Len(u)
      BY <3>1, <2>6
    <3>2. CASE i = Len(u) + 1
      <4>1. new[i].id = k
        BY <2>2, <2>6, <3>2
      <4>2. k = n + i - 1
        BY <3>2, <2>0 DEF k
      <4>. QED  BY <4>1, <4>2
    <3>3. i \in 1 .. Len(u) \/ i = Len(u) + 1
      BY <2>0, <2>6
    <3>. QED  BY <3>1, <3>2, <3>3
  <2>12. Typed(new) = <<PlainChar(key, upper)>>
    <3>1. Typed(u) = <<>>
      <4>1. \A i \in 1 .. Len(u) : u[i].key = NoKey
        BY <2>0 DEF VirtualsIn
      <4>. QED  BY <2>5, <4>1, TypedNothing
    <3>2. Typed(<<x>>) = <<PlainChar(key, upper)>>
      BY <2>2, <2>3, TypedSingle
    <3>. DEFINE w == <<x>>
    <3>3. w \in Seq(Transformation) /\ new = u \o w
      BY <2>3, <2>7, SingletonSeq
    <3>. HIDE DEF w
    <3>4. Typed(new) = Typed(u) \o Typed(w)
      BY <2>5, <3>3, TypedConcat
    <3>. QED  BY <3>1, <3>2, <3>4, NothingMore DEF w
  <2>13. UndoAndAppend(u, key, upper, n) = new
    BY <1>2 DEF UndoAndAppend, new, x, k
  <2>. QED  BY <2>6, <2>10, <2>11, <2>12, <2>13 DEF Batch, Keys
<1>. QED  BY <1>1, <1>2

\* The letter of a key.
LEMMA KeyLetterIs ==
  ASSUME NEW im, MethodOK(im), NEW A, NEW key \in Symbols, key # NoKey, NEW upper \in BOOLEAN,
         NEW n \in Ids, n \in A
  PROVE  LET x == KeyLetter(Filtered(ApplicableRules(im, key), LAMBDA r : r.kind = "append"), key, upper, n)
         IN  x \in LettersIn(im, A) /\ x.id = n /\ x.key = key /\ x.upper = upper
<1>. DEFINE rules == ApplicableRules(im, key)
            P == {r \in RuleSet : r.kind = "append"}
            f == Filtered(rules, LAMBDA r : r.kind = "append")
            x == KeyLetter(f, key, upper, n)
<1>1. /\ rules \in Seq(RuleSet)
      /\ \A i \in 1 .. Len(rules) :
           rules[i].key = key /\ (rules[i].kind = "append" => key \in im.appending /\ Appends(rules[i]))
  BY RulesOf
<1>. HIDE DEF rules
<1>2. f = Sel(rules, P)
  <2>1. DOMAIN rules = 1 .. Len(rules) /\ \A i \in 1 .. Len(rules) : rules[i] \in RuleSet
    BY <1>1, LenProperties, ElementOfSeq
  <2>2. {i \in DOMAIN rules : rules[i].kind = "append"} = {i \in DOMAIN rules : rules[i] \in P}
    BY <2>1
  <2>. QED  BY <2>2 DEF Filtered, Sel
<1>3. /\ f \in Seq(RuleSet) /\ Len(f) \in Nat
      /\ \A j \in 1 .. Len(f) : f[j] \in P /\ \E i \in 1 .. Len(rules) : f[j] = rules[i]
  <2>. HIDE DEF P, f
  <2>. QED  BY <1>1, <1>2, SelType
<1>. HIDE DEF f
<1>4. CASE f = <<>>
  <2>1. x = Appending(key, upper, n)
    BY <1>4 DEF KeyLetter
  <2>. QED  BY <2>1, AppendingIs DEF f, rules
<1>5. CASE f # <<>>
  <2>. DEFINE r == f[1]
  <2>1. r \in RuleSet /\ r.kind = "append" /\ r.key = key /\ key \in im.appending /\ Appends(r)
    <3>1. 1 \in 1 .. Len(f)
      BY <1>3, <1>5, EmptySeq
    <3>2. f[1] \in P /\ \E i \in 1 .. Len(rules) : f[1] = rules[i]
      BY <1>3, <3>1
    <3>. QED  BY <1>1, <3>2
  <2>2. x = Cased(Trans(r, 0, n), upper)
    BY <1>5 DEF KeyLetter
  <2>. HIDE DEF r
  <2>3. n \in Nat
    BY DEF Ids
  <2>4. x \in Transformation
    BY <2>1, <2>2, <2>3 DEF Cased, Trans, TransformationFields, Transformation, RuleFields, RuleSet
  <2>5. /\ x.id = n /\ x.key = r.key /\ x.upper = upper /\ x.on = r.on /\ x.gives = r.gives
        /\ x.kind = r.kind /\ x.target = 0
    BY <2>2 DEF Cased, Trans
  <2>. HIDE DEF x
  <2>6. Letter(im, x)
    BY <2>1, <2>5 DEF Letter, Appends
  <2>7. x \in LettersIn(im, A)
    BY <2>1, <2>4, <2>5, <2>6 DEF LettersIn, On, Appended
  <2>. QED  BY <2>1, <2>5, <2>7 DEF x, f, rules
<1>. QED  BY <1>4, <1>5

\* generate_fallback_transformations
LEMMA FallbackBatch ==
  ASSUME NEW im, MethodOK(im), NEW A \in SUBSET Ids, NEW s \in Seq(On(im, A)),
         NEW key \in Symbols, key # NoKey, NEW upper \in BOOLEAN, NEW n \in Ids
  PROVE  LET new == Fallback(im, s, key, upper, n)
         IN  Batch(im, A, n, new) /\ Keys(new, key, upper)
<1>. DEFINE B == A \cup {n}
            x == KeyLetter(Filtered(ApplicableRules(im, key), LAMBDA r : r.kind = "append"), key, upper, n)
            w == Append(s, x)
            u == Supplement(FindTarget(im, w, ApplicableRules(im, im.super)), n + 1)
            new == Fallback(im, s, key, upper, n)
<1>0. n \in B /\ B \in SUBSET Ids /\ n \in Nat /\ n + 1 \in Nat
  BY DEF Ids
<1>1. x \in LettersIn(im, B) /\ x.id = n /\ x.key = key /\ x.upper = upper
  <2>. HIDE DEF B
  <2>. QED  BY <1>0, KeyLetterIs
<1>2. new = <<x>> \o IF im.super = "" \/ ~LacksHorn(Toneless(Append(s, x))) THEN <<>> ELSE u
  <2>1. new = WithHorn(im, s, x)
    BY DEF Fallback
  <2>2. x.id + 1 = n + 1
    BY <1>1
  <2>. HIDE DEF x, new
  <2>. QED  BY <2>1, <2>2 DEF WithHorn
<1>. HIDE DEF x
<1>3. x \in On(im, B) /\ x \in Transformation
  BY <1>1 DEF LettersIn, On
<1>4. w \in Seq(On(im, B))
  <2>1. On(im, A) \subseteq On(im, B)
    BY OnMore
  <2>2. s \in Seq(On(im, B))
    <3>. DEFINE S == On(im, A)
                T == On(im, B)
    <3>1. Seq(S) \subseteq Seq(T)
      <4>1. S \subseteq T
        BY <2>1
      <4>. HIDE DEF S, T
      <4>. QED  BY <4>1, SeqMonotonic
    <3>. QED  BY <3>1
  <2>. HIDE DEF B
  <2>. QED  BY <1>3, <2>2, AppendProperties
<1>. HIDE DEF w, new
<1>5. u = <<>> \/ \E y \in VirtualsIn(im, B) : y.id = n + 1 /\ u = <<y>>
  <2>. HIDE DEF B
  <2>. QED  BY <1>0, <1>4, SupplementIn
<1>. HIDE DEF u
<1>6. new = <<x>> \/ \E y \in VirtualsIn(im, B) : y.id = n + 1 /\ new = <<x>> \o <<y>>
  <2>1. <<x>> \o <<>> = <<x>>
    BY NothingMore
  <2>2. new = <<x>> \o <<>> \/ new = <<x>> \o u
    BY <1>2
  <2>. HIDE DEF B
  <2>. QED  BY <1>5, <2>1, <2>2
<1>7. x \in LettersIn(im, A \cup {x.id}) /\ x.id \in Ids
  BY <1>1
<1>8. /\ Batch(im, A, x.id, <<x>>)
      /\ \A y \in VirtualsIn(im, A \cup {x.id}) : y.id = x.id + 1 => Batch(im, A, x.id, <<x, y>>)
  <2>. HIDE DEF B
  <2>. QED  BY <1>7, BatchOfLetter
<1>9. CASE new = <<x>>
  <2>1. Keys(<<x>>, key, upper)
    BY <1>1, <1>3, TypedSingle DEF Keys
  <2>2. Batch(im, A, n, <<x>>)
    BY <1>1, <1>8
  <2>. QED  BY <1>9, <2>1, <2>2 DEF new
<1>10. CASE \E y \in VirtualsIn(im, B) : y.id = n + 1 /\ new = <<x>> \o <<y>>
  <2>1. PICK y \in VirtualsIn(im, B) : y.id = n + 1 /\ new = <<x>> \o <<y>>
    BY <1>10
  <2>2. y.key = NoKey /\ y \in Transformation
    BY DEF VirtualsIn, MarksIn, On
  <2>3. new = <<x, y>>
    <3>1. <<x>> \o <<y>> = <<x, y>>
      BY <2>2, <1>3, Pairs
    <3>. QED  BY <2>1, <3>1
  <2>4. Batch(im, A, n, <<x, y>>)
    <3>1. y \in VirtualsIn(im, A \cup {x.id}) /\ y.id = x.id + 1
      BY <2>1, <1>1
    <3>. QED  BY <3>1, <1>8, <1>1
  <2>5. Keys(<<x, y>>, key, upper)
    BY <1>1, <1>3, <2>2, TypedPair DEF Keys
  <2>. QED  BY <2>3, <2>4, <2>5 DEF new
<1>. QED  BY <1>6, <1>9, <1>10

\* Where the horns give way to a hat there is a vowel part, so the first letter
\* of it that the code takes by its index is there (vowels[0] in
\* generate_transformations).
THEOREM HornsHaveVowels ==
  ASSUME NEW im, NEW A \in SUBSET Ids, NEW s \in Seq(On(im, A)),
         ShowsSeq(Toneless(s), {<<"u+", "o">>, <<"u+", "o+">>}) # {}
  PROVE  /\ AppendedOf(Split(s).vo) # <<>>
         /\ AppendedOf(Split(s).vo)[1].id \in A
<1>. DEFINE v == Sel(s, Appended)
            t == Toneless(s)
            o == AppendedOf(Split(s).vo)
<1>1. Len(t) = Len(v) /\ Len(v) \in Nat /\ \A i \in 1 .. Len(v) : t[i] = Flatten(s)[i][1]
  BY TonelessOf
<1>2. \A i \in 1 .. Len(v) : v[i] \in On(im, A) /\ v[i] \in Appended /\ Flatten(s)[i] \in Looks(v[i])
  <2>1. v \in Seq(On(im, A)) /\ \A i \in 1 .. Len(v) : v[i] \in Appended /\ Flatten(s)[i] \in Looks(v[i])
    BY FlattenOf
  <2>. HIDE DEF v
  <2>. QED  BY <2>1, ElementOfSeq
<1>3. PICK i \in 1 .. Len(t) - 1 : <<t[i], t[i + 1]>> \in {<<"u+", "o">>, <<"u+", "o+">>}
  BY DEF ShowsSeq
<1>4. IsVowel(t[i]) /\ IsVowel(t[i + 1])
  <2>1. t[i] = "u+" /\ t[i + 1] \in {"o", "o+"}
    <3>. HIDE DEF t
    <3>. QED  BY <1>3
  <2>2. \A x \in {"u+", "o", "o+"} : IsVowel(x)
    BY VowelLetters DEF IsVowel
  <2>. QED  BY <2>1, <2>2
<1>. HIDE DEF t, v
<1>5. \A j \in 1 .. Len(v) : IsVowel(t[j]) => IsVowel(v[j].gives)
  BY <1>1, <1>2 DEF Looks, On, Letter, Appended
<1>6. i \in 1 .. Len(v) - 1 /\ i \in 1 .. Len(v) /\ i + 1 \in 1 .. Len(v)
  BY <1>1, <1>3
<1>7. IsVowel(v[i].gives) /\ IsVowel(v[i + 1].gives)
  BY <1>4, <1>5, <1>6
<1>8. o \in Seq(LettersIn(im, A)) /\ o # <<>>
  <2>1. \E j \in 1 .. Len(v) - 1 : IsVowel(v[j].gives) /\ IsVowel(v[j + 1].gives)
    BY <1>6, <1>7
  <2>. QED  BY <2>1, SplitOf DEF v
<1>. HIDE DEF o
<1>9. o[1].id \in A
  <2>1. o[1] \in LettersIn(im, A)
    <3>1. Len(o) \in Nat /\ Len(o) # 0
      BY <1>8, LenProperties, EmptySeq
    <3>2. 1 \in 1 .. Len(o)
      BY <3>1
    <3>. QED  BY <1>8, <3>2, ElementOfSeq
  <2>. QED  BY <2>1, LetterId
<1>. QED  BY <1>8, <1>9 DEF o

LEMMA FoundMarks ==
  ASSUME NEW im, NEW A \in SUBSET Ids, NEW rules, NEW f \in Landing(A, rules), f.target # 0,
         NEW upper \in BOOLEAN
  PROVE  \A m \in Nat :
           LET x == Cased(Trans(f.rule, f.target, m), upper)
           IN  x \in MarksIn(im, A) /\ x.key = f.rule.key /\ x.id = m /\ x.upper = upper
BY FoundMark

LEMMA TakeHatBatch ==
  ASSUME NEW im, MethodOK(im), NEW A \in SUBSET Ids, NEW s \in Seq(On(im, A)), NEW key, key # NoKey,
         NEW upper \in BOOLEAN, NEW n \in Nat
  PROVE  LET new == TakeHat(im, s, ApplicableRules(im, key), Toneless(s), upper, n)
         IN  new = <<>> \/ (Batch(im, A, n, new) /\ Keys(new, key, upper))
<1>. DEFINE rules == ApplicableRules(im, key)
            now == Toneless(s)
            new == TakeHat(im, s, rules, now, upper, n)
            a == AppendedOf(Split(s).vo)[1].id
            x == Unmark(a, n)
            w == Append(s, x)
            f == FindTarget(im, w, rules)
            y == Cased(Trans(f.rule, f.target, n + 1), upper)
<1>1. CASE ShowsSeq(now, {<<"u+", "o">>, <<"u+", "o+">>}) = {}
  BY <1>1 DEF TakeHat
<1>2. CASE ShowsSeq(now, {<<"u+", "o">>, <<"u+", "o+">>}) # {}
  <2>1. a \in A
    BY <1>2, HornsHaveVowels
  <2>2. new = HatAfter(f, x, upper, n + 1)
    BY <1>2 DEF TakeHat, HatInstead
  <2>. HIDE DEF a
  <2>3. x \in VirtualsIn(im, A) /\ x.id = n /\ x.key = NoKey
    BY <2>1, UnmarkOn
  <2>. HIDE DEF x
  <2>4. x \in MarksIn(im, A) /\ x \in On(im, A) /\ x \in Transformation
    BY <2>3 DEF VirtualsIn, MarksIn, On
  <2>5. w \in Seq(On(im, A))
    BY <2>4, AppendProperties
  <2>. HIDE DEF w
  <2>6. f.target \in A \cup {0} /\ (f.target # 0 => f \in Landing(A, rules))
    BY <2>5, RulesOf, FindTargetIn
  <2>. HIDE DEF f
  <2>7. CASE f.target \in {0, x.target}
    <3>1. new = <<>>
      BY <2>2, <2>7 DEF HatAfter
    <3>. QED  BY <3>1
  <2>8. CASE f.target \notin {0, x.target}
    <3>1. new = <<x, y>>
      BY <2>2, <2>8 DEF HatAfter
    <3>3. y \in MarksIn(im, A) /\ y.key = key /\ y.id = n + 1 /\ y.upper = upper
      <4>1. f \in Landing(A, rules) /\ f.target # 0
        BY <2>6, <2>8
      <4>2. f.rule.key = key
        <5>1. \A i \in 1 .. Len(rules) : rules[i].key = key
          BY RulesOf
        <5>. HIDE DEF rules
        <5>. QED  BY <4>1, <5>1 DEF Landing
      <4>. HIDE DEF rules
      <4>3. \A m \in Nat :
              LET c == Cased(Trans(f.rule, f.target, m), upper)
              IN  c \in MarksIn(im, A) /\ c.key = f.rule.key /\ c.id = m /\ c.upper = upper
        BY <4>1, FoundMarks, SMTT(30)
      <4>4. n + 1 \in Nat
        OBVIOUS
      <4>5. y \in MarksIn(im, A) /\ y.key = f.rule.key /\ y.id = n + 1 /\ y.upper = upper
        BY <4>3, <4>4, Zenon DEF y
      <4>. HIDE DEF y
      <4>. QED  BY <4>2, <4>5
    <3>. HIDE DEF y
    <3>4. Batch(im, A, n, <<x, y>>)
      BY <2>3, <2>4, <3>3, BatchOfMarks
    <3>5. y \in Transformation
      BY <3>3 DEF MarksIn, On
    <3>6. Keys(<<x, y>>, key, upper)
      BY <2>3, <2>4, <3>3, <3>5, TypedPair DEF Keys
    <3>. QED  BY <3>1, <3>4, <3>6
  <2>. QED  BY <2>7, <2>8
<1>. QED  BY <1>1, <1>2

LEMMA LastIn ==
  ASSUME NEW S, NEW s \in Seq(S), s # <<>>
  PROVE  /\ Last(s) \in S /\ Len(s) \in 1 .. Len(s) /\ Last(s) = s[Len(s)] /\ Len(s) \in Nat \ {0}
<1>1. Len(s) \in Nat /\ Len(s) # 0
  BY LenProperties, EmptySeq
<1>2. Len(s) \in 1 .. Len(s)
  BY <1>1
<1>3. s[Len(s)] \in S
  BY <1>2, ElementOfSeq
<1>. QED  BY <1>1, <1>2, <1>3 DEF Last

\* An effect key typed twice undoes itself: its letter is shown as it was typed.
LEMMA RepeatBatch ==
  ASSUME NEW im, MethodOK(im), NEW A \in SUBSET Ids, NEW s \in Seq(On(im, A)), NEW key, NEW n \in Ids,
         Repeats(s, key)
  PROVE  LET new == <<Trans(VirtualMark(Raw), Last(s).id, n)>>
         IN  Batch(im, A, n, new) /\ Typed(new) = <<>> /\ key \in im.appending
<1>1. s # <<>> /\ Last(s).kind = "append" /\ Last(s).key = key /\ Last(s).gives # key
  BY DEF Repeats
<1>. DEFINE l == Last(s)
<1>2. l \in On(im, A)
  BY <1>1, LastIn
<1>3. l.kind = "append" /\ l.key = key /\ l.gives # key
  BY <1>1
<1>. HIDE DEF l
<1>4. l.id \in A /\ Letter(im, l)
  BY <1>2, <1>3 DEF On
<1>5. key \in im.appending
  BY <1>3, <1>4 DEF Letter
<1>. DEFINE a == l.id
            x == Trans(VirtualMark(Raw), a, n)
<1>6. a \in A /\ n \in Nat
  BY <1>4 DEF Ids
<1>. HIDE DEF a
<1>7. x \in VirtualsIn(im, A) /\ x.id = n
  BY <1>6, UnmarkOn
<1>. HIDE DEF x
<1>8. x \in MarksIn(im, A)
  BY <1>7 DEF VirtualsIn
<1>9. Batch(im, A, n, <<x>>)
  BY <1>6, <1>7, <1>8, BatchOfMarks
<1>10. Typed(<<x>>) = <<>>
  <2>1. x.key = NoKey /\ x \in Transformation
    BY <1>7 DEF VirtualsIn, MarksIn, On
  <2>2. <<x>> \in Seq(Transformation) /\ Len(<<x>>) = 1 /\ <<x>>[1] = x
    BY <2>1, SingletonSeq
  <2>3. \A i \in 1 .. Len(<<x>>) : <<x>>[i].key = NoKey
    BY <2>1, <2>2, OneUpTo
  <2>. QED  BY <2>2, <2>3, TypedNothing
<1>. QED  BY <1>5, <1>9, <1>10 DEF x, a, l

\* Every key makes a batch, and but for one that appends a letter of its own
\* the batch remembers it.
Remembers(im, new, key, upper) ==
  Keys(new, key, upper) \/ (key \in im.appending /\ Typed(new) = <<>>)
LEMMA ExtendedBatch ==
  ASSUME NEW im, MethodOK(im), NEW A \in SUBSET Ids, NEW s \in Seq(On(im, A)),
         NEW key \in Symbols, key # NoKey, NEW upper \in BOOLEAN, NEW n \in Ids
  PROVE  \E new : /\ Extended(im, s, key, upper, n) = s \o new
                  /\ Batch(im, A, n, new)
                  /\ Remembers(im, new, key, upper)
<1>. DEFINE t == Transformations(im, s, key, upper, n)
            f == Fallback(im, s, key, upper, n)
            rules == ApplicableRules(im, key)
            now == Toneless(s)
            found == Found(im, s, rules, FindTarget(im, s, rules), upper, n)
            hat == TakeHat(im, s, rules, now, upper, n)
            u == UndoTransformations(im, s, rules, now, n)
            undo == UndoAndAppend(u, key, upper, n)
            Good(new) == Batch(im, A, n, new) /\ Remembers(im, new, key, upper)
<1>0. n \in Nat
  BY DEF Ids
<1>1. Good(f)
  BY FallbackBatch DEF Remembers
<1>2. CASE Repeats(s, key)
  <2>1. t = <<Trans(VirtualMark(Raw), Last(s).id, n)>>
    BY <1>2 DEF Transformations
  <2>2. Good(t)
    BY <1>2, <2>1, RepeatBatch DEF Remembers
  <2>3. t # <<>>
    BY <2>1
  <2>. HIDE DEF t, f, Good
  <2>4. OrElse(t, f) = t
    BY <2>3 DEF OrElse
  <2>5. Extended(im, s, key, upper, n) = s \o t
    BY <2>4 DEF Extended, t, f
  <2>. QED  BY <2>2, <2>5 DEF Good
<1>3. CASE ~Repeats(s, key)
  <2>1. t = OrElse(found, OrElse(hat, undo))
    BY <1>3 DEF Transformations, ApplyRules
  <2>2. found = <<>> \/ Good(found)
    BY <1>0, FoundBatch DEF Remembers
  <2>3. hat = <<>> \/ Good(hat)
    BY <1>0, TakeHatBatch DEF Remembers
  <2>4. undo = <<>> \/ Good(undo)
    <3>1. rules \in Seq(RuleSet)
      BY RulesOf
    <3>. HIDE DEF rules, now
    <3>2. u \in Seq(VirtualsIn(im, A)) /\ \A i \in 1 .. Len(u) : u[i].id = n + i - 1
      BY <1>0, <3>1, UndoIn
    <3>. HIDE DEF u
    <3>. QED  BY <3>2, UndoBatch DEF Remembers
  <2>. HIDE DEF t, found, hat, undo, f, Good
  <2>5. OrElse(t, f) \in {found, hat, undo, f} /\ Good(OrElse(t, f))
    BY <1>1, <2>1, <2>2, <2>3, <2>4 DEF OrElse
  <2>6. Extended(im, s, key, upper, n) = s \o OrElse(t, f)
    BY DEF Extended, t, f
  <2>. QED  BY <2>5, <2>6 DEF Good
<1>. QED  BY <1>2, <1>3

(***************************************************************************)
(* Where the last word and its last syllable begin.                        *)
(***************************************************************************)
\* A sequence ends with its last element of a kind, or one begins at once.
LEMMA WordStartIn ==
  ASSUME NEW S, NEW s \in Seq(S), NEW keys
  PROVE  WordStart(s, keys) \in 1 .. Len(s) + 1
<1>1. Len(s) \in Nat
  BY LenProperties
<1>2. \E I \in SUBSET (1 .. Len(s)) : WordStart(s, keys) = 1 + MaxOrZero(I)
  <2>. DEFINE I == {i \in 1 .. Len(s) : Visible(s[i]) /\ Separates(Unmarked(Rendered(s, s[i])[1]), keys)}
  <2>1. WordStart(s, keys) = 1 + MaxOrZero(I)
    BY DEF WordStart, SelectLastInSeq, MaxOrZero
  <2>. QED  BY <2>1
<1>3. PICK I \in SUBSET (1 .. Len(s)) : WordStart(s, keys) = 1 + MaxOrZero(I)
  BY <1>2
<1>4. MaxOrZero(I) \in 0 .. Len(s)
  <2>. DEFINE n == Len(s)
  <2>1. n \in Nat /\ I \in SUBSET (1 .. n)
    BY <1>1
  <2>. HIDE DEF n
  <2>2. MaxOrZero(I) = 0 \/ MaxOrZero(I) \in I
    BY <2>1, MaxOfPlaces
  <2>3. MaxOrZero(I) \in 0 .. n
    <3>. DEFINE m == MaxOrZero(I)
    <3>1. m = 0 \/ m \in 1 .. n
      BY <2>1, <2>2
    <3>. HIDE DEF m
    <3>2. m \in 0 .. n
      BY <2>1, <3>1
    <3>. QED  BY <3>2 DEF m
  <2>. QED  BY <2>3 DEF n
<1>. QED  BY <1>1, <1>3, <1>4

AnchorAt(s, w, a, i) == IF i < w \/ IsValid(SubSeq(s, a, i), FALSE) THEN a ELSE i
LEMMA SyllableStep ==
  ASSUME NEW s, NEW w
  PROVE  LET d == [i \in DOMAIN s |-> i]
             h == CHOOSE h : h = [I \in SUBSET (DOMAIN d) |->
                                    IF I = {} THEN w
                                    ELSE AnchorAt(s, w, h[I \ {Max(I)}], d[Max(I)])]
         IN  SyllableFrom(s, w) = h[DOMAIN d]
BY DEF SyllableFrom, FoldLeft, MapThenFoldSet, AnchorAt

LEMMA SyllableStartIn ==
  ASSUME NEW S, NEW s \in Seq(S)
  PROVE  SyllableStart(s) \in 1 .. Len(s) + 1
<1>. DEFINE w == WordStart(s, {})
            n == Len(s)
            d == [i \in DOMAIN s |-> i]
            X == 1 .. n + 1
            step(h) == [I \in SUBSET (DOMAIN d) |->
                          IF I = {} THEN w ELSE AnchorAt(s, w, h[I \ {Max(I)}], d[Max(I)])]
            h == CHOOSE h : h = step(h)
            op == [i \in 1 .. n |-> [a \in X |-> AnchorAt(s, w, a, d[i])]]
<1>1. SyllableStart(s) = h[DOMAIN d]
  BY SyllableStep DEF SyllableStart
<1>2. w \in X
  BY WordStartIn
<1>3. n \in Nat /\ DOMAIN d = 1 .. n
  BY LenProperties
<1>12. \A i \in 1 .. n : d[i] \in X
  BY <1>3
<1>13. \A i \in 1 .. n : \A a \in X : AnchorAt(s, w, a, d[i]) \in X
  <2>. HIDE DEF d, w, X
  <2>. QED  BY <1>12 DEF AnchorAt
<1>. HIDE DEF d, w, X
<1>4. \A i \in 1 .. n : \A a \in X : op[i][a] = AnchorAt(s, w, a, d[i]) /\ op[i][a] \in X
  BY <1>13
<1>5. StepsWithin(op, n, X)
  BY <1>4 DEF StepsWithin
<1>. HIDE DEF op, n
<1>6. PICK g \in [SUBSET (1 .. n) -> X] : IsFold(g, n, w, op)
  BY <1>3, <1>2, <1>5, FoldTotal DEF FoldExists
<1>7. g = step(g)
  <2>1. ASSUME NEW I \in SUBSET (1 .. n)
        PROVE  g[I] = step(g)[I]
    <3>1. CASE I = {}
      BY <3>1, <1>3, <1>6 DEF IsFold
    <3>2. CASE I # {}
      <4>1. Max(I) \in 1 .. n /\ I \ {Max(I)} \in SUBSET (1 .. n)
        <5>1. Max(I) \in I
          BY <3>2, <1>3, MaxOfPlaces
        <5>. QED  BY <5>1
      <4>2. g[I] = op[Max(I)][g[I \ {Max(I)}]] /\ g[I \ {Max(I)}] \in X
        BY <3>2, <4>1, <1>6 DEF IsFold
      <4>3. g[I] = AnchorAt(s, w, g[I \ {Max(I)}], d[Max(I)])
        BY <4>1, <4>2, <1>4
      <4>4. step(g)[I] = AnchorAt(s, w, g[I \ {Max(I)}], d[Max(I)])
        BY <3>2, <1>3
      <4>. QED  BY <4>3, <4>4
    <3>. QED  BY <3>1, <3>2
  <2>2. DOMAIN step(g) = SUBSET (1 .. n) /\ step(g) = [I \in SUBSET (1 .. n) |-> step(g)[I]]
    BY <1>3
  <2>3. g = [I \in SUBSET (1 .. n) |-> g[I]]
    OBVIOUS
  <2>. HIDE DEF step
  <2>. QED  BY <2>1, <2>2, <2>3, Zenon
<1>8. h = step(h)
  <2>. HIDE DEF step
  <2>. QED  BY <1>7, Zenon
<1>. HIDE DEF h
<1>9. h[{}] \in X
  <2>1. {} \in SUBSET (DOMAIN d)
    OBVIOUS
  <2>2. step(h)[{}] = w
    BY <2>1
  <2>. HIDE DEF step
  <2>. QED  BY <2>2, <1>8, <1>2
<1>10. ASSUME NEW k \in 1 .. n, h[(1 .. k) \ {k}] \in X
       PROVE  h[1 .. k] \in X
  <2>. DEFINE I == 1 .. k
  <2>1. I \in SUBSET (DOMAIN d) /\ I # {} /\ I \in SUBSET (1 .. n)
    <3>1. k \in I /\ I \in SUBSET (1 .. n)
      BY <1>3
    <3>2. DOMAIN d = 1 .. n
      BY <1>3
    <3>. HIDE DEF I
    <3>. QED  BY <3>1, <3>2
  <2>2. Max(I) = k
    <3>1. Max(I) \in I /\ \A i \in I : i <= Max(I)
      <4>. HIDE DEF I
      <4>. QED  BY <2>1, <1>3, MaxOfPlaces
    <3>. QED  BY <3>1, <1>3
  <2>3. step(h)[I] = AnchorAt(s, w, h[I \ {Max(I)}], d[Max(I)])
    <3>. HIDE DEF I
    <3>. QED  BY <2>1
  <2>4. h[I] = AnchorAt(s, w, h[I \ {k}], d[k])
    <3>. HIDE DEF step, I
    <3>. QED  BY <2>2, <2>3, <1>8
  <2>. QED  BY <2>4, <1>10, <1>13
<1>11. h[1 .. n] \in X
  BY <1>3, <1>9, <1>10, FoldKeeps
<1>. QED  BY <1>1, <1>3, <1>11 DEF X, n

(***************************************************************************)
(* refresh_last_tone_target: the tone moves, and nothing else does.        *)
(***************************************************************************)
\* The same list but for what marks are on, with at most two marks behind it.
Follows(s, r, n) ==
  /\ Len(r) \in {Len(s), Len(s) + 2}
  /\ \A i \in 1 .. Len(s) : r[i].id = s[i].id /\ r[i].kind = s[i].kind
  /\ \A i \in Len(s) + 1 .. Len(r) : r[i].kind # "append" /\ r[i].id = n + (i - Len(s) - 1)

LEMMA FollowsItself ==
  ASSUME NEW S, NEW s \in Seq(S), NEW n
  PROVE  Follows(s, s, n)
<1>1. Len(s) \in Nat
  BY LenProperties
<1>. DEFINE m == Len(s)
<1>2. Len(s) + 1 .. Len(s) = {}
  <2>1. m \in Nat
    BY <1>1
  <2>. HIDE DEF m
  <2>2. m + 1 .. m = {}
    BY <2>1
  <2>. QED  BY <2>2 DEF m
<1>. QED  BY <1>2 DEF Follows

\* A mark put on another letter.
Moved(s, k, a) == [s EXCEPT ![k].target = a]

LEMMA MarkMoved ==
  ASSUME NEW im, NEW A \in SUBSET Ids, NEW s \in Seq(On(im, A)), NEW k \in 1 .. Len(s),
         s[k].kind # "append", NEW a \in A, NEW r, r = Moved(s, k, a)
  PROVE  /\ r \in Seq(On(im, A)) /\ Len(r) = Len(s)
         /\ \A i \in 1 .. Len(s) : r[i].id = s[i].id /\ r[i].kind = s[i].kind
         /\ Typed(r) = Typed(s)
<1>. DEFINE n == Len(s)
            x == [s[k] EXCEPT !.target = a]
<1>1. n \in Nat /\ DOMAIN s = 1 .. n /\ \A i \in 1 .. n : s[i] \in On(im, A)
  BY LenProperties, ElementOfSeq
<1>2. s[k] \in On(im, A)
  BY ElementOfSeq
<1>3. x \in On(im, A) /\ x.id = s[k].id /\ x.kind = s[k].kind /\ x.key = s[k].key /\ x.upper = s[k].upper
  <2>1. s[k] \in Transformation /\ s[k].kind # "append" /\ a \in Nat
    BY <1>2 DEF On, Ids
  <2>. DEFINE e == s[k]
  <2>. HIDE DEF e
  <2>2. [e EXCEPT !.target = a] \in Transformation
    BY <2>1 DEF TransformationFields, Transformation, e
  <2>3. [e EXCEPT !.target = a].kind = e.kind /\ [e EXCEPT !.target = a].target = a
        /\ [e EXCEPT !.target = a].id = e.id /\ [e EXCEPT !.target = a].key = e.key
        /\ [e EXCEPT !.target = a].upper = e.upper
    BY <2>1 DEF TransformationFields, Transformation, e
  <2>. QED  BY <2>1, <2>2, <2>3 DEF On, e
<1>4. r = [i \in 1 .. n |-> IF i = k THEN x ELSE s[i]]
  BY <1>1 DEF Moved
<1>. HIDE DEF x, n
<1>5. r \in [1 .. n -> On(im, A)]
  BY <1>1, <1>3, <1>4
<1>6. r \in Seq(On(im, A)) /\ Len(r) = n
  BY <1>1, <1>5, FunctionIsSeq
<1>7. \A i \in 1 .. n : r[i] = s[i] \/ (i = k /\ r[i] = x)
  BY <1>4
<1>8. \A i \in 1 .. n : r[i].id = s[i].id /\ r[i].kind = s[i].kind /\ r[i].key = s[i].key /\ r[i].upper = s[i].upper
  BY <1>3, <1>7
<1>9. Typed(r) = Typed(s)
  <2>1. r \in Seq(Transformation) /\ s \in Seq(Transformation)
    BY <1>6, OnIsTransformation
  <2>. QED  BY <2>1, <1>6, <1>8, TypedSame DEF n
<1>. QED  BY <1>1, <1>6, <1>8, <1>9 DEF n

LEMMA LastToneIs ==
  ASSUME NEW im, NEW A, NEW s \in Seq(On(im, A))
  PROVE  LastTone(s) = 0 \/ (LastTone(s) \in 1 .. Len(s) /\ s[LastTone(s)].kind = "tone" /\ s[LastTone(s)] \in On(im, A))
<1>. DEFINE P == {t \in On(im, A) : t.kind = "tone" /\ t.target # 0}
<1>1. \A i \in 1 .. Len(s) : s[i] \in On(im, A)
  BY ElementOfSeq
<1>2. {i \in 1 .. Len(s) : s[i].kind = "tone" /\ s[i].target # 0} = {i \in 1 .. Len(s) : s[i] \in P}
  BY <1>1
<1>3. LastTone(s) = LastOf(s, P)
  BY <1>2 DEF LastTone, SelectLastInSeq, LastOf, MaxOrZero
<1>4. \A t \in P : t.kind = "tone" /\ t \in On(im, A)
  OBVIOUS
<1>5. LastOf(s, P) = 0 \/ (LastOf(s, P) \in 1 .. Len(s) /\ s[LastOf(s, P)] \in P)
  <2>. HIDE DEF P
  <2>. QED  BY LastPlace
<1>. QED  BY <1>3, <1>4, <1>5

\* Two more elements behind a sequence.
LEMMA ConcatOfTwo ==
  ASSUME NEW S, NEW r \in Seq(S), NEW w \in Seq(S), Len(w) = 2
  PROVE  /\ r \o w \in Seq(S) /\ Len(r \o w) = Len(r) + 2
         /\ \A i \in 1 .. Len(r) + 2 : (r \o w)[i] = IF i <= Len(r) THEN r[i] ELSE w[i - Len(r)]
<1>1. r \o w \in Seq(S) /\ Len(r \o w) = Len(r) + Len(w)
      /\ \A i \in 1 .. Len(r) + Len(w) : (r \o w)[i] = IF i <= Len(r) THEN r[i] ELSE w[i - Len(r)]
  BY ConcatProperties
<1>. QED  BY <1>1

\* Two marks nobody typed, behind the list.
LEMMA TwoMore ==
  ASSUME NEW im, NEW A \in SUBSET Ids, NEW s \in Seq(On(im, A)), NEW r \in Seq(On(im, A)),
         Len(r) = Len(s), \A i \in 1 .. Len(s) : r[i].id = s[i].id /\ r[i].kind = s[i].kind,
         NEW n \in Nat, NEW x \in VirtualsIn(im, A), NEW y \in VirtualsIn(im, A), x.id = n, y.id = n + 1
  PROVE  LET z == r \o <<x, y>>
         IN  /\ z \in Seq(On(im, A)) /\ Typed(z) = Typed(r) /\ Follows(s, z, n)
<1>. DEFINE w == <<x, y>>
            z == r \o w
            m == Len(s)
<1>1. x \in On(im, A) /\ y \in On(im, A) /\ x \in Transformation /\ y \in Transformation
      /\ x.key = NoKey /\ y.key = NoKey /\ x.kind # "append" /\ y.kind # "append"
  BY DEF VirtualsIn, MarksIn, On
<1>2. w \in Seq(On(im, A)) /\ Len(w) = 2 /\ w[1] = x /\ w[2] = y /\ w \in Seq(Transformation)
  BY <1>1, Pairs
<1>3. m \in Nat
  BY LenProperties
<1>. HIDE DEF w
<1>4. z \in Seq(On(im, A)) /\ Len(z) = Len(r) + 2
      /\ \A i \in 1 .. Len(r) + 2 : z[i] = IF i <= Len(r) THEN r[i] ELSE w[i - Len(r)]
  <2>1. w \in Seq(On(im, A)) /\ Len(w) = 2
    BY <1>2
  <2>. HIDE DEF w
  <2>. QED  BY <2>1, ConcatOfTwo
<1>5. Typed(w) = <<>>
  <2>1. \A i \in 1 .. Len(w) : w[i].key = NoKey
    BY <1>1, <1>2
  <2>. QED  BY <1>2, <2>1, TypedNothing
<1>6. Typed(z) = Typed(r)
  <2>1. r \in Seq(Transformation)
    BY OnIsTransformation
  <2>2. Typed(z) = Typed(r) \o Typed(w)
    <3>1. w \in Seq(Transformation)
      BY <1>2
    <3>. QED  BY <2>1, <3>1, TypedConcat
  <2>3. Typed(r) \in Seq(Char)
    BY <2>1, TypedKeys
  <2>. HIDE DEF z
  <2>. QED  BY <1>5, <2>2, <2>3, ConcatEmptySeq
<1>. HIDE DEF z, m
<1>7. \A i \in 1 .. m : z[i] = r[i]
  BY <1>3, <1>4 DEF m
<1>8. z[m + 1] = x /\ z[m + 2] = y /\ Len(z) = m + 2
  <2>1. m + 1 \in 1 .. m + 2 /\ ~(m + 1 <= m) /\ m + 1 - m = 1 /\ m + 2 \in 1 .. m + 2 /\ ~(m + 2 <= m) /\ m + 2 - m = 2
    BY <1>3
  <2>2. Len(r) = m
    BY DEF m
  <2>. QED  BY <1>2, <1>4, <2>1, <2>2, SMTT(30)
<1>9. \A i \in m + 1 .. m + 2 : z[i].kind # "append" /\ z[i].id = n + (i - m - 1)
  <2>1. \A i \in m + 1 .. m + 2 : i = m + 1 \/ i = m + 2
    BY <1>3
  <2>5. SUFFICES ASSUME NEW i \in m + 1 .. m + 2
                 PROVE  z[i].kind # "append" /\ z[i].id = n + (i - m - 1)
    OBVIOUS
  <2>6. CASE i = m + 1
    <3>1. z[i].kind # "append" /\ z[i].id = n
      BY <1>1, <1>8, <2>6
    <3>2. n + (i - m - 1) = n
      BY <1>3, <2>6
    <3>. QED  BY <3>1, <3>2
  <2>7. CASE i = m + 2
    <3>1. z[i].kind # "append" /\ z[i].id = n + 1
      BY <1>1, <1>8, <2>7
    <3>2. n + (i - m - 1) = n + 1
      BY <1>3, <2>7
    <3>. QED  BY <3>1, <3>2
  <2>. QED  BY <2>1, <2>6, <2>7
<1>10. Follows(s, z, n)
  <2>1. \A i \in 1 .. m : z[i].id = s[i].id /\ z[i].kind = s[i].kind
    BY <1>7 DEF m
  <2>. QED  BY <1>8, <1>9, <2>1 DEF Follows, m
<1>. QED  BY <1>4, <1>6, <1>10 DEF z, w

LEMMA MoveToneIs ==
  ASSUME NEW im, NEW A \in SUBSET Ids, NEW s \in Seq(On(im, A)), NEW k \in 1 .. Len(s), s[k] \in On(im, A),
         s[k].kind # "append", NEW a \in A, NEW n \in Nat
  PROVE  LET r == MoveTone(s, k, a, n)
         IN  r \in Seq(On(im, A)) /\ Typed(r) = Typed(s) /\ Follows(s, r, n)
<1>1. CASE k = 0 \/ s[k].target = a
  <2>1. MoveTone(s, k, a, n) = s
    BY <1>1 DEF MoveTone
  <2>. QED  BY <2>1, FollowsItself
<1>2. CASE ~(k = 0 \/ s[k].target = a)
  <2>. DEFINE t == [s EXCEPT ![k].target = a]
              e == s[k].effect
              x == Trans(VirtualTone(None), a, n)
              y == Trans(VirtualTone(e), a, n + 1)
  <2>1. MoveTone(s, k, a, n) = t \o <<x, y>>
    BY <1>2 DEF MoveTone
  <2>2. /\ t \in Seq(On(im, A)) /\ Len(t) = Len(s)
        /\ \A i \in 1 .. Len(s) : t[i].id = s[i].id /\ t[i].kind = s[i].kind
        /\ Typed(t) = Typed(s)
    <3>1. t = Moved(s, k, a)
      BY DEF Moved
    <3>. HIDE DEF t
    <3>. QED  BY <3>1, MarkMoved
  <2>3. e \in Nat /\ None \in Nat /\ n + 1 \in Nat
    BY DEF On, TransformationFields, Transformation, None
  <2>. HIDE DEF t, e
  <2>4. /\ VirtualTone(None) \in RuleSet /\ VirtualTone(None).kind = "tone" /\ VirtualTone(None).key = NoKey
        /\ VirtualTone(e) \in RuleSet /\ VirtualTone(e).kind = "tone" /\ VirtualTone(e).key = NoKey
    BY <2>3, VirtualRules
  <2>5. x \in VirtualsIn(im, A) /\ x.id = n
    <3>. DEFINE v == VirtualTone(None)
    <3>1. v \in RuleSet /\ v.kind # "append" /\ v.key = NoKey
      BY <2>4
    <3>. HIDE DEF v
    <3>2. Trans(v, a, n) \in MarksIn(im, A) /\ Trans(v, a, n).key = NoKey /\ Trans(v, a, n).id = n
      BY <3>1, MarkOn
    <3>. QED  BY <3>2 DEF VirtualsIn, v
  <2>6. y \in VirtualsIn(im, A) /\ y.id = n + 1
    <3>. DEFINE v == VirtualTone(e)
    <3>1. v \in RuleSet /\ v.kind # "append" /\ v.key = NoKey
      BY <2>4
    <3>. HIDE DEF v
    <3>. DEFINE m == n + 1
    <3>2. m \in Nat
      BY <2>3
    <3>. HIDE DEF m
    <3>3. Trans(v, a, m) \in MarksIn(im, A) /\ Trans(v, a, m).key = NoKey /\ Trans(v, a, m).id = m
      BY <3>1, <3>2, MarkOn
    <3>4. Trans(v, a, m) \in VirtualsIn(im, A) /\ Trans(v, a, m).id = m
      BY <3>3 DEF VirtualsIn
    <3>. QED  BY <3>4 DEF v, m
  <2>. HIDE DEF x, y
  <2>7. LET z == t \o <<x, y>>
        IN  z \in Seq(On(im, A)) /\ Typed(z) = Typed(t) /\ Follows(s, z, n)
    BY <2>2, <2>5, <2>6, TwoMore, Z3T(30)
  <2>. QED  BY <2>1, <2>2, <2>7
<1>. QED  BY <1>1, <1>2

LEMMA RefreshToneIs ==
  ASSUME NEW im, NEW A \in SUBSET Ids, NEW s \in Seq(On(im, A)), NEW n \in Nat
  PROVE  LET r == RefreshTone(im, s, n)
         IN  r \in Seq(On(im, A)) /\ Typed(r) = Typed(s) /\ Follows(s, r, n)
<1>. DEFINE r == RefreshTone(im, s, n)
            p == Split(s)
            k == LastTone(s)
            a == FindToneTarget(p, im.std)
<1>1. CASE r = s
  BY <1>1, FollowsItself
<1>2. CASE r # s
  <2>1. IsValid(s, FALSE) /\ p.vo # <<>> /\ r = MoveTone(s, k, a, n)
    BY <1>2 DEF RefreshTone, RefreshIn
  <2>2. k # 0
    BY <2>1, <1>2 DEF MoveTone
  <2>3. a \in A
    BY <2>1, <2>2, ValidHasToneTarget
  <2>4. k \in 1 .. Len(s) /\ s[k].kind = "tone" /\ s[k] \in On(im, A)
    BY <2>2, LastToneIs
  <2>. HIDE DEF a, k
  <2>5. LET z == MoveTone(s, k, a, n)
        IN  z \in Seq(On(im, A)) /\ Typed(z) = Typed(s) /\ Follows(s, z, n)
    BY <2>3, <2>4, MoveToneIs
  <2>. QED  BY <2>1, <2>5
<1>. QED  BY <1>1, <1>2

\* Behind another list.
LEMMA FollowsBehind ==
  ASSUME NEW S, NEW b \in Seq(S), NEW s \in Seq(S), NEW r \in Seq(S), NEW n \in Nat, Follows(s, r, n)
  PROVE  Follows(b \o s, b \o r, n)
<1>. DEFINE k == Len(b)
            m == Len(s)
            l == Len(r)
            x == b \o s
            y == b \o r
<1>1. k \in Nat /\ m \in Nat /\ l \in Nat /\ l \in {m, m + 2}
  BY LenProperties DEF Follows
<1>2. Len(x) = k + m /\ \A i \in 1 .. k + m : x[i] = IF i <= k THEN b[i] ELSE s[i - k]
  BY ConcatProperties
<1>3. Len(y) = k + l /\ \A i \in 1 .. k + l : y[i] = IF i <= k THEN b[i] ELSE r[i - k]
  BY ConcatProperties
<1>4. \A i \in 1 .. m : r[i].id = s[i].id /\ r[i].kind = s[i].kind
  BY DEF Follows
<1>5. \A i \in m + 1 .. l : r[i].kind # "append" /\ r[i].id = n + (i - m - 1)
  BY DEF Follows
<1>. HIDE DEF k, m, l, x, y
<1>6. Len(y) \in {Len(x), Len(x) + 2}
  BY <1>1, <1>2, <1>3
<1>7. ASSUME NEW i \in 1 .. Len(x)
      PROVE  y[i].id = x[i].id /\ y[i].kind = x[i].kind
  <2>1. i \in 1 .. k + m /\ i \in 1 .. k + l
    BY <1>1, <1>2
  <2>2. CASE i <= k
    BY <2>1, <2>2, <1>2, <1>3
  <2>3. CASE ~(i <= k)
    <3>1. i - k \in 1 .. m
      BY <2>1, <2>3, <1>1
    <3>2. x[i] = s[i - k] /\ y[i] = r[i - k]
      BY <2>1, <2>3, <1>2, <1>3
    <3>. QED  BY <3>1, <3>2, <1>4
  <2>. QED  BY <2>2, <2>3
<1>8. ASSUME NEW i \in Len(x) + 1 .. Len(y)
      PROVE  y[i].kind # "append" /\ y[i].id = n + (i - Len(x) - 1)
  <2>. DEFINE j == i - k
  <2>1. i \in 1 .. k + l /\ ~(i <= k) /\ j \in m + 1 .. l /\ i - Len(x) - 1 = j - m - 1
    BY <1>1, <1>2, <1>3
  <2>2. y[i] = r[j]
    BY <2>1, <1>3
  <2>. HIDE DEF j
  <2>3. r[j].kind # "append" /\ r[j].id = n + (j - m - 1)
    BY <2>1, <1>5
  <2>. QED  BY <2>1, <2>2, <2>3
<1>. QED  BY <1>6, <1>7, <1>8 DEF Follows, x, y

LEMMA RefreshedIs ==
  ASSUME NEW im, NEW A \in SUBSET Ids, NEW b \in Seq(On(im, A)), NEW s \in Seq(On(im, A))
  PROVE  LET c == b \o s
             r == Refreshed(im, b, s)
         IN  /\ r \in Seq(On(im, A)) /\ c \in Seq(On(im, A))
             /\ Typed(r) = Typed(c) /\ Follows(c, r, FreshId(c))
<1>. DEFINE c == b \o s
            n == FreshId(c)
            t == RefreshTone(im, s, n)
            S == On(im, A)
<1>1. c \in Seq(S)
  <2>. HIDE DEF S
  <2>1. b \in Seq(S) /\ s \in Seq(S)
    BY DEF S
  <2>. QED  BY <2>1, ConcatProperties
<1>2. n \in Nat
  <2>1. c \in Seq(Transformation)
    BY <1>1, OnIsTransformation
  <2>. HIDE DEF c
  <2>. QED  BY <2>1, FreshIdIsFresh
<1>. HIDE DEF n
<1>3. t \in Seq(S) /\ Typed(t) = Typed(s) /\ Follows(s, t, n)
  BY <1>2, RefreshToneIs
<1>4. Refreshed(im, b, s) = b \o t
  BY DEF Refreshed, n
<1>. HIDE DEF t
<1>5. b \o t \in Seq(S) /\ Follows(c, b \o t, n)
  <2>1. b \in Seq(S) /\ s \in Seq(S)
    OBVIOUS
  <2>. HIDE DEF S
  <2>. QED  BY <2>1, <1>2, <1>3, ConcatProperties, FollowsBehind
<1>6. Typed(b \o t) = Typed(c)
  <2>1. b \in Seq(Transformation) /\ s \in Seq(Transformation) /\ t \in Seq(Transformation)
    BY <1>3, OnIsTransformation
  <2>2. Typed(b \o t) = Typed(b) \o Typed(t)
    BY <2>1, TypedConcat
  <2>3. Typed(c) = Typed(b) \o Typed(s)
    BY <2>1, TypedConcat
  <2>. QED  BY <2>2, <2>3, <1>3
<1>. QED  BY <1>1, <1>4, <1>5, <1>6 DEF n

(***************************************************************************)
(* The list as a whole.                                                    *)
(***************************************************************************)
\* No two transformations have one id.
Distinct(s) == \A i, j \in 1 .. Len(s) : s[i].id = s[j].id => i = j

LEMMA AppendIdsOf ==
  ASSUME NEW S, NEW s \in Seq(S)
  PROVE  /\ \A a : a \in AppendIds(s) <=> \E i \in 1 .. Len(s) : s[i].kind = "append" /\ a = s[i].id
<1>1. DOMAIN s = 1 .. Len(s)
  BY LenProperties
<1>. QED  BY <1>1 DEF AppendIds

LEMMA FollowsDistinct ==
  ASSUME NEW s \in Seq(Transformation), NEW r \in Seq(Transformation), Distinct(s),
         Follows(s, r, FreshId(s))
  PROVE  Distinct(r) /\ AppendIds(r) = AppendIds(s)
<1>. DEFINE m == Len(s)
            l == Len(r)
            n == FreshId(s)
<1>1. m \in Nat /\ l \in Nat /\ l \in {m, m + 2} /\ n \in Nat
      /\ \A i \in 1 .. m : s[i].id < n /\ s[i] \in Transformation
  BY LenProperties, FreshIdIsFresh, ElementOfSeq DEF Follows
<1>2. /\ \A i \in 1 .. m : r[i].id = s[i].id /\ r[i].kind = s[i].kind
      /\ \A i \in m + 1 .. l : r[i].kind # "append" /\ r[i].id = n + (i - m - 1)
  BY DEF Follows
<1>3. \A i, j \in 1 .. m : s[i].id = s[j].id => i = j
  BY DEF Distinct
<1>4. \A a : a \in AppendIds(s) <=> \E i \in 1 .. m : s[i].kind = "append" /\ a = s[i].id
  BY AppendIdsOf
<1>5. \A a : a \in AppendIds(r) <=> \E i \in 1 .. l : r[i].kind = "append" /\ a = r[i].id
  BY AppendIdsOf
<1>. HIDE DEF m, l, n
<1>6. \A i \in 1 .. l : i \in 1 .. m \/ i \in m + 1 .. l
  BY <1>1
<1>7. \A i \in 1 .. m : i \in 1 .. l
  BY <1>1
<1>8. \A i \in 1 .. m : s[i].id \in Nat
  BY <1>1 DEF TransformationFields, Transformation
<1>9. ASSUME NEW i \in 1 .. l, NEW j \in 1 .. l, r[i].id = r[j].id
      PROVE  i = j
  <2>1. CASE i \in 1 .. m /\ j \in 1 .. m
    BY <2>1, <1>9, <1>2, <1>3
  <2>2. CASE i \in 1 .. m /\ j \in m + 1 .. l
    <3>1. s[i].id < n /\ s[i].id = n + (j - m - 1) /\ s[i].id \in Nat
      BY <2>2, <1>9, <1>1, <1>2, <1>8
    <3>2. j - m - 1 >= 0 /\ j - m - 1 \in Int
      BY <2>2, <1>1
    <3>. QED  BY <3>1, <3>2, <1>1
  <2>3. CASE i \in m + 1 .. l /\ j \in 1 .. m
    <3>1. s[j].id < n /\ s[j].id = n + (i - m - 1) /\ s[j].id \in Nat
      BY <2>3, <1>9, <1>1, <1>2, <1>8
    <3>2. i - m - 1 >= 0 /\ i - m - 1 \in Int
      BY <2>3, <1>1
    <3>. QED  BY <3>1, <3>2, <1>1
  <2>4. CASE i \in m + 1 .. l /\ j \in m + 1 .. l
    <3>1. n + (i - m - 1) = n + (j - m - 1)
      BY <2>4, <1>9, <1>2
    <3>. QED  BY <2>4, <3>1, <1>1
  <2>. QED  BY <1>6, <2>1, <2>2, <2>3, <2>4
<1>10. \A a : a \in AppendIds(r) <=> a \in AppendIds(s)
  BY <1>2, <1>4, <1>5, <1>6, <1>7
<1>. QED  BY <1>9, <1>10 DEF Distinct, l

\* A batch behind the list.
LEMMA BatchBehind ==
  ASSUME NEW im, NEW A \in SUBSET Ids, NEW s \in Seq(On(im, A)), Distinct(s),
         NEW new, Batch(im, A, FreshId(s), new), NEW B, B = A \cup AppendIds(new)
  PROVE  /\ s \o new \in Seq(On(im, B)) /\ new \in Seq(On(im, B)) /\ B \in SUBSET Ids
         /\ Distinct(s \o new)
         /\ AppendIds(s \o new) = AppendIds(s) \cup AppendIds(new)
         /\ Typed(s \o new) = Typed(s) \o Typed(new)
<1>. DEFINE S == On(im, B)
            c == s \o new
            m == Len(s)
            l == Len(new)
            n == FreshId(s)
<1>1. new \in Seq(S) /\ \A i \in 1 .. l : new[i].id = n + i - 1
  BY DEF Batch
<1>2. s \in Seq(S)
  <2>. DEFINE T == On(im, A)
  <2>1. Seq(T) \subseteq Seq(S)
    <3>1. T \subseteq S
      BY OnMore
    <3>. HIDE DEF S, T
    <3>. QED  BY <3>1, SeqMonotonic
  <2>. QED  BY <2>1
<1>3. s \in Seq(Transformation) /\ new \in Seq(Transformation)
  BY <1>1, OnIsTransformation
<1>4. /\ m \in Nat /\ l \in Nat /\ n \in Nat \ {0}
      /\ \A i \in 1 .. m : s[i].id < n /\ s[i].id \in Nat
  <2>1. \A i \in 1 .. m : s[i] \in Transformation
    BY <1>3, ElementOfSeq
  <2>. QED  BY <1>3, <2>1, LenProperties, FreshIdIsFresh DEF TransformationFields, Transformation
<1>5. c \in Seq(S) /\ Len(c) = m + l /\ \A i \in 1 .. m + l : c[i] = IF i <= m THEN s[i] ELSE new[i - m]
  <2>. HIDE DEF S
  <2>. QED  BY <1>1, <1>2, ConcatProperties
<1>6. Typed(c) = Typed(s) \o Typed(new)
  BY <1>3, TypedConcat
<1>7. \A a : a \in AppendIds(s) <=> \E i \in 1 .. m : s[i].kind = "append" /\ a = s[i].id
  BY AppendIdsOf
<1>8. \A a : a \in AppendIds(new) <=> \E i \in 1 .. l : new[i].kind = "append" /\ a = new[i].id
  BY <1>1, AppendIdsOf
<1>9. \A a : a \in AppendIds(c) <=> \E i \in 1 .. Len(c) : c[i].kind = "append" /\ a = c[i].id
  BY <1>5, AppendIdsOf
<1>10. \A i, j \in 1 .. m : s[i].id = s[j].id => i = j
  BY DEF Distinct
<1>11. B \in SUBSET Ids
  <2>. HIDE DEF m, n
  <2>1. \A i \in 1 .. l : n + i - 1 \in Ids
    BY <1>4 DEF Ids
  <2>2. \A a \in AppendIds(new) : a \in Ids
    BY <1>1, <1>8, <2>1
  <2>. QED  BY <2>2
<1>. HIDE DEF S, c, m, l, n
<1>12. /\ \A i \in 1 .. m : i \in 1 .. m + l /\ c[i] = s[i]
       /\ \A i \in 1 .. l : m + i \in 1 .. m + l /\ c[m + i] = new[i]
  <2>1. \A i \in 1 .. m : i \in 1 .. m + l /\ i <= m
    BY <1>4
  <2>2. \A i \in 1 .. l : m + i \in 1 .. m + l /\ ~(m + i <= m) /\ m + i - m = i
    BY <1>4
  <2>3. ASSUME NEW i \in 1 .. m
        PROVE  i \in 1 .. m + l /\ c[i] = s[i]
    BY <2>1, <1>5
  <2>4. ASSUME NEW i \in 1 .. l
        PROVE  m + i \in 1 .. m + l /\ c[m + i] = new[i]
    <3>. DEFINE k == m + i
    <3>1. k \in 1 .. m + l /\ ~(k <= m) /\ k - m = i
      BY <1>4
    <3>. HIDE DEF k
    <3>2. c[k] = new[k - m]
      BY <3>1, <1>5
    <3>. QED  BY <3>1, <3>2 DEF k
  <2>. QED  BY <2>3, <2>4
<1>13. \A i \in 1 .. m + l : i \in 1 .. m \/ \E j \in 1 .. l : i = m + j
  <2>1. ASSUME NEW i \in 1 .. m + l, i \notin 1 .. m
        PROVE  i - m \in 1 .. l /\ i = m + (i - m)
    BY <2>1, <1>4
  <2>. QED  BY <2>1
<1>14. AppendIds(c) = AppendIds(s) \cup AppendIds(new)
  <2>1. ASSUME NEW a \in AppendIds(c)
        PROVE  a \in AppendIds(s) \/ a \in AppendIds(new)
    <3>1. PICK i \in 1 .. m + l : c[i].kind = "append" /\ a = c[i].id
      BY <2>1, <1>5, <1>9
    <3>2. CASE i \in 1 .. m
      BY <3>1, <3>2, <1>7, <1>12
    <3>3. CASE \E j \in 1 .. l : i = m + j
      BY <3>1, <3>3, <1>8, <1>12
    <3>. QED  BY <3>1, <3>2, <3>3, <1>13
  <2>2. ASSUME NEW a \in AppendIds(s)
        PROVE  a \in AppendIds(c)
    BY <2>2, <1>5, <1>7, <1>9, <1>12
  <2>3. ASSUME NEW a \in AppendIds(new)
        PROVE  a \in AppendIds(c)
    <3>1. PICK j \in 1 .. l : new[j].kind = "append" /\ a = new[j].id
      BY <2>3, <1>8
    <3>2. m + j \in 1 .. m + l /\ c[m + j] = new[j]
      BY <1>12
    <3>. QED  BY <3>1, <3>2, <1>5, <1>9
  <2>. QED  BY <2>1, <2>2, <2>3
<1>15. ASSUME NEW i \in 1 .. m + l, NEW j \in 1 .. m + l, c[i].id = c[j].id
       PROVE  i = j
  <2>1. CASE i \in 1 .. m /\ j \in 1 .. m
    BY <2>1, <1>15, <1>10, <1>12
  <2>2. CASE i \in 1 .. m /\ \E b \in 1 .. l : j = m + b
    <3>1. PICK b \in 1 .. l : j = m + b
      BY <2>2
    <3>2. s[i].id < n /\ s[i].id = n + b - 1 /\ s[i].id \in Nat
      BY <2>2, <3>1, <1>15, <1>12, <1>1, <1>4
    <3>. QED  BY <3>2, <1>4
  <2>3. CASE j \in 1 .. m /\ \E b \in 1 .. l : i = m + b
    <3>1. PICK b \in 1 .. l : i = m + b
      BY <2>3
    <3>2. s[j].id < n /\ s[j].id = n + b - 1 /\ s[j].id \in Nat
      BY <2>3, <3>1, <1>15, <1>12, <1>1, <1>4
    <3>. QED  BY <3>2, <1>4
  <2>4. CASE (\E a \in 1 .. l : i = m + a) /\ (\E b \in 1 .. l : j = m + b)
    <3>1. PICK a \in 1 .. l : i = m + a
      BY <2>4
    <3>2. PICK b \in 1 .. l : j = m + b
      BY <2>4
    <3>3. n + a - 1 = n + b - 1
      BY <3>1, <3>2, <1>15, <1>12, <1>1
    <3>. QED  BY <3>1, <3>2, <3>3, <1>4
  <2>. QED  BY <1>13, <2>1, <2>2, <2>3, <2>4
<1>16. Distinct(c)
  BY <1>15, <1>5 DEF Distinct
<1>. QED  BY <1>1, <1>5, <1>6, <1>11, <1>14, <1>16 DEF S, c

(***************************************************************************)
(* The keys of a list.                                                     *)
(***************************************************************************)
LEMMA TypedHas ==
  ASSUME NEW s \in Seq(Transformation)
  PROVE  /\ \A i \in 1 .. Len(s) : s[i].key # NoKey =>
              \E j \in 1 .. Len(Typed(s)) : Typed(s)[j] = PlainChar(s[i].key, s[i].upper)
         /\ \A j \in 1 .. Len(Typed(s)) : \E i \in 1 .. Len(s) :
              s[i].key # NoKey /\ Typed(s)[j] = PlainChar(s[i].key, s[i].upper)
<1>. DEFINE v == Sel(s, Keyed)
<1>1. Typed(s) = KeyChars(v) /\ v \in Seq(Transformation) /\ Len(Typed(s)) = Len(v)
  BY TypedKeys
<1>2. /\ \A j \in 1 .. Len(v) : v[j] \in Keyed /\ \E i \in 1 .. Len(s) : v[j] = s[i]
      /\ \A i \in 1 .. Len(s) : s[i] \in Keyed => \E j \in 1 .. Len(v) : v[j] = s[i]
  BY SelType
<1>3. \A i \in 1 .. Len(s) : s[i] \in Transformation
  BY ElementOfSeq
<1>. HIDE DEF v
<1>4. \A j \in 1 .. Len(v) : Typed(s)[j] = PlainChar(v[j].key, v[j].upper)
  BY <1>1, KeyCharsType
<1>5. ASSUME NEW i \in 1 .. Len(s), s[i].key # NoKey
      PROVE  \E j \in 1 .. Len(Typed(s)) : Typed(s)[j] = PlainChar(s[i].key, s[i].upper)
  <2>1. s[i] \in Keyed
    BY <1>3, <1>5 DEF Keyed
  <2>2. PICK j \in 1 .. Len(v) : v[j] = s[i]
    BY <1>2, <2>1
  <2>. QED  BY <2>2, <1>1, <1>4
<1>6. ASSUME NEW j \in 1 .. Len(Typed(s))
      PROVE  \E i \in 1 .. Len(s) : s[i].key # NoKey /\ Typed(s)[j] = PlainChar(s[i].key, s[i].upper)
  <2>1. j \in 1 .. Len(v)
    BY <1>1
  <2>2. PICK i \in 1 .. Len(s) : v[j] = s[i]
    BY <1>2, <2>1
  <2>3. s[i].key # NoKey
    BY <1>2, <2>1, <2>2 DEF Keyed
  <2>. QED  BY <2>1, <2>2, <2>3, <1>4
<1>. QED  BY <1>5, <1>6

\* Only keys of K were typed.
OnlyKeys(s, K) == \A i \in 1 .. Len(s) : s[i].key \in K \cup {NoKey}

LEMMA OnlyKeysTyped ==
  ASSUME NEW s \in Seq(Transformation), NEW K, NoKey \notin K
  PROVE  OnlyKeys(s, K) <=> \A j \in 1 .. Len(Typed(s)) : Typed(s)[j][1] \in K
<1>1. \A k, u : PlainChar(k, u)[1] = k
  BY DEF PlainChar
<1>2. ASSUME OnlyKeys(s, K), NEW j \in 1 .. Len(Typed(s))
      PROVE  Typed(s)[j][1] \in K
  <2>1. PICK i \in 1 .. Len(s) : s[i].key # NoKey /\ Typed(s)[j] = PlainChar(s[i].key, s[i].upper)
    BY TypedHas
  <2>2. s[i].key \in K
    BY <2>1, <1>2 DEF OnlyKeys
  <2>. QED  BY <2>1, <2>2, <1>1
<1>3. ASSUME \A j \in 1 .. Len(Typed(s)) : Typed(s)[j][1] \in K, NEW i \in 1 .. Len(s), s[i].key # NoKey
      PROVE  s[i].key \in K
  <2>1. PICK j \in 1 .. Len(Typed(s)) : Typed(s)[j] = PlainChar(s[i].key, s[i].upper)
    BY <1>3, TypedHas
  <2>. QED  BY <2>1, <1>1, <1>3
<1>. QED  BY <1>2, <1>3 DEF OnlyKeys

\* What a batch remembers is its own key.
LEMMA RemembersOnly ==
  ASSUME NEW im, NEW new \in Seq(Transformation), NEW key, key # NoKey, NEW upper, Remembers(im, new, key, upper)
  PROVE  OnlyKeys(new, {key})
<1>1. CASE Typed(new) = <<>>
  <2>1. \A j \in 1 .. Len(Typed(new)) : Typed(new)[j][1] \in {key}
    BY <1>1
  <2>. QED  BY <2>1, OnlyKeysTyped
<1>2. CASE Typed(new) = <<PlainChar(key, upper)>>
  <2>. DEFINE x == PlainChar(key, upper)
  <2>1. x[1] = key
    BY DEF PlainChar
  <2>. HIDE DEF x
  <2>2. Len(<<x>>) = 1 /\ <<x>>[1] = x
    OBVIOUS
  <2>3. \A j \in 1 .. Len(Typed(new)) : Typed(new)[j][1] \in {key}
    BY <1>2, <2>1, <2>2, OneUpTo DEF x
  <2>. QED  BY <2>3, OnlyKeysTyped
<1>. QED  BY <1>1, <1>2 DEF Remembers, Keys

LEMMA OnlyKeysConcat ==
  ASSUME NEW s \in Seq(Transformation), NEW t \in Seq(Transformation), NEW K,
         OnlyKeys(s, K), OnlyKeys(t, K)
  PROVE  OnlyKeys(s \o t, K)
<1>. DEFINE m == Len(s)
            l == Len(t)
<1>1. m \in Nat /\ l \in Nat
  BY LenProperties
<1>2. Len(s \o t) = m + l /\ \A i \in 1 .. m + l : (s \o t)[i] = IF i <= m THEN s[i] ELSE t[i - m]
  BY ConcatProperties
<1>3. (\A i \in 1 .. m : s[i].key \in K \cup {NoKey}) /\ (\A i \in 1 .. l : t[i].key \in K \cup {NoKey})
  BY DEF OnlyKeys
<1>. HIDE DEF m, l
<1>4. ASSUME NEW i \in 1 .. m + l
      PROVE  (s \o t)[i].key \in K \cup {NoKey}
  <2>1. CASE i <= m
    BY <2>1, <1>1, <1>2, <1>3
  <2>2. CASE ~(i <= m)
    <3>. DEFINE j == i - m
    <3>1. j \in 1 .. l
      BY <2>2, <1>1
    <3>2. (s \o t)[i] = t[j]
      BY <2>2, <1>2
    <3>. HIDE DEF j
    <3>. QED  BY <3>1, <3>2, <1>3
  <2>. QED  BY <2>1, <2>2
<1>. QED  BY <1>2, <1>4 DEF OnlyKeys

(***************************************************************************)
(* A key, and what the list has become.                                    *)
(***************************************************************************)
\* The list r is s and a batch, but for tones that moved.
Grows(im, A, s, r, key, upper) ==
  \E new, B :
           /\ Batch(im, A, FreshId(s), new) /\ Remembers(im, new, key, upper)
           /\ B = A \cup AppendIds(new) /\ B \in SUBSET Ids
           /\ r \in Seq(On(im, B)) /\ new \in Seq(Transformation)
           /\ Distinct(r) /\ AppendIds(r) = AppendIds(s) \cup AppendIds(new)
           /\ Typed(r) = Typed(s) \o Typed(new)

LEMMA NewCompositionGrows ==
  ASSUME NEW im, MethodOK(im), NEW A \in SUBSET Ids, NEW s \in Seq(On(im, A)), Distinct(s),
         NEW key \in Symbols, key # NoKey, NEW upper \in BOOLEAN
  PROVE  Grows(im, A, s, NewComposition(im, s, key, upper), key, upper)
<1>. DEFINE start == SyllableStart(s)
            b == SubSeq(s, 1, start - 1)
            t == SubSeq(s, start, Len(s))
            n == FreshId(s)
            e == Extended(im, t, key, upper, n)
            r == NewComposition(im, s, key, upper)
<1>1. start \in 1 .. Len(s) + 1
  BY SyllableStartIn
<1>. HIDE DEF start
<1>2. b \in Seq(On(im, A)) /\ t \in Seq(On(im, A)) /\ s = b \o t
  BY <1>1, Cut
<1>3. s \in Seq(Transformation) /\ b \in Seq(Transformation) /\ t \in Seq(Transformation)
  BY <1>2, OnIsTransformation
<1>4. n \in Ids
  BY <1>3, FreshIdIsFresh DEF Ids
<1>5. r = Refreshed(im, b, e)
  BY DEF NewComposition, NewSyllable, start
<1>. HIDE DEF b, t, r
<1>6. PICK new : e = t \o new /\ Batch(im, A, n, new) /\ Remembers(im, new, key, upper)
  <2>1. t \in Seq(On(im, A)) /\ n \in Ids
    BY <1>2, <1>4
  <2>. HIDE DEF n
  <2>2. \E new : /\ Extended(im, t, key, upper, n) = t \o new
                 /\ Batch(im, A, n, new)
                 /\ Remembers(im, new, key, upper)
    BY <2>1, ExtendedBatch
  <2>. QED  BY <2>2
<1>. HIDE DEF e
<1>. DEFINE B == A \cup AppendIds(new)
            c == s \o new
<1>. HIDE DEF B
<1>15. B = A \cup AppendIds(new)
  BY DEF B
<1>7. /\ c \in Seq(On(im, B)) /\ new \in Seq(On(im, B)) /\ B \in SUBSET Ids /\ Distinct(c)
      /\ AppendIds(c) = AppendIds(s) \cup AppendIds(new) /\ Typed(c) = Typed(s) \o Typed(new)
  <2>1. Batch(im, A, FreshId(s), new)
    BY <1>6
  <2>. QED  BY <2>1, <1>15, BatchBehind, Z3
<1>8. new \in Seq(Transformation) /\ c \in Seq(Transformation)
  BY <1>7, OnIsTransformation
<1>9. b \in Seq(On(im, B)) /\ t \in Seq(On(im, B))
  <2>. DEFINE S == On(im, A)
              T == On(im, B)
  <2>1. Seq(S) \subseteq Seq(T)
    <3>1. S \subseteq T
      BY <1>15, OnMore
    <3>. HIDE DEF S, T
    <3>. QED  BY <3>1, SeqMonotonic
  <2>. QED  BY <1>2, <2>1
<1>10. b \o e = c
  BY <1>2, <1>3, <1>6, <1>8, ConcatAssociative, SMTT(30)
<1>. HIDE DEF c
<1>11. e \in Seq(On(im, B))
  <2>. DEFINE S == On(im, B)
  <2>1. t \in Seq(S) /\ new \in Seq(S)
    BY <1>7, <1>9
  <2>. HIDE DEF S
  <2>2. t \o new \in Seq(S)
    BY <2>1, ConcatProperties
  <2>. QED  BY <2>2, <1>6 DEF S
<1>12. r \in Seq(On(im, B)) /\ Typed(r) = Typed(c) /\ Follows(c, r, FreshId(c))
  <2>1. LET d == b \o e
             q == Refreshed(im, b, e)
         IN  /\ q \in Seq(On(im, B)) /\ d \in Seq(On(im, B))
             /\ Typed(q) = Typed(d) /\ Follows(d, q, FreshId(d))
    BY <1>7, <1>9, <1>11, RefreshedIs
  <2>. QED  BY <2>1, <1>5, <1>10
<1>13. r \in Seq(Transformation)
  BY <1>12, OnIsTransformation
<1>14. Distinct(r) /\ AppendIds(r) = AppendIds(c)
  BY <1>7, <1>8, <1>12, <1>13, FollowsDistinct
<1>. QED  BY <1>6, <1>7, <1>8, <1>12, <1>14, <1>15 DEF Grows, r, n

LEMMA ProcessEnglishGrows ==
  ASSUME NEW im, NEW A \in SUBSET Ids, NEW s \in Seq(On(im, A)), Distinct(s),
         NEW key \in Symbols, key # NoKey, NEW upper \in BOOLEAN
  PROVE  Grows(im, A, s, ProcessEnglish(s, key, upper), key, upper)
<1>. DEFINE n == FreshId(s)
            x == Appending(key, upper, n)
            new == <<x>>
            r == ProcessEnglish(s, key, upper)
<1>1. s \in Seq(Transformation) /\ n \in Ids
  BY OnIsTransformation, FreshIdIsFresh DEF Ids
<1>. HIDE DEF n
<1>2. x \in LettersIn(im, A \cup {n}) /\ x.id = n /\ x.key = key /\ x.upper = upper
  <2>. DEFINE C == A \cup {n}
  <2>1. n \in C
    OBVIOUS
  <2>. HIDE DEF C
  <2>2. x \in LettersIn(im, C) /\ x.id = n /\ x.key = key /\ x.upper = upper
    BY <1>1, <2>1, AppendingIs
  <2>. QED  BY <2>2 DEF C
<1>. HIDE DEF x
<1>3. Batch(im, A, n, new)
  BY <1>1, <1>2, BatchOfLetter
<1>4. x \in Transformation
  BY <1>2 DEF LettersIn, On
<1>5. Remembers(im, new, key, upper)
  BY <1>2, <1>4, TypedSingle DEF Remembers, Keys
<1>6. r = s \o new
  BY <1>1, <1>4, AppendIsConcat DEF ProcessEnglish, x, n
<1>. HIDE DEF new, r
<1>. DEFINE B == A \cup AppendIds(new)
<1>9. B = A \cup AppendIds(new)
  OBVIOUS
<1>. HIDE DEF B
<1>7. /\ r \in Seq(On(im, B)) /\ new \in Seq(On(im, B)) /\ B \in SUBSET Ids /\ Distinct(r)
      /\ AppendIds(r) = AppendIds(s) \cup AppendIds(new) /\ Typed(r) = Typed(s) \o Typed(new)
  <2>1. Batch(im, A, FreshId(s), new)
    BY <1>3 DEF n
  <2>2. /\ s \o new \in Seq(On(im, B)) /\ new \in Seq(On(im, B)) /\ B \in SUBSET Ids
        /\ Distinct(s \o new)
        /\ AppendIds(s \o new) = AppendIds(s) \cup AppendIds(new)
        /\ Typed(s \o new) = Typed(s) \o Typed(new)
    BY <1>9, <2>1, BatchBehind, Z3
  <2>. QED  BY <1>6, <2>2
<1>8. new \in Seq(Transformation)
  BY <1>7, OnIsTransformation
<1>. QED  BY <1>3, <1>5, <1>7, <1>8, <1>9 DEF Grows, n, r

LEMMA ProcessKeyGrows ==
  ASSUME NEW im, MethodOK(im), NEW A \in SUBSET Ids, NEW s \in Seq(On(im, A)), Distinct(s),
         NEW key \in Symbols, key # NoKey, NEW upper \in BOOLEAN
  PROVE  Grows(im, A, s, ProcessKey(im, s, key, upper), key, upper)
BY NewCompositionGrows, ProcessEnglishGrows DEF ProcessKey

(***************************************************************************)
(* remove_last_char: a letter goes, and the marks on it.                   *)
(***************************************************************************)
Others(id) == {t \in Transformation : t.id # id /\ t.target # id}

LEMMA FilterOthers ==
  ASSUME NEW s \in Seq(Transformation), NEW id
  PROVE  Without(s, id) = Sel(s, Others(id))
<1>1. \A i \in DOMAIN s : s[i] \in Transformation
  BY LenProperties, ElementOfSeq
<1>2. {i \in DOMAIN s : s[i].id # id /\ s[i].target # id} = {i \in DOMAIN s : s[i] \in Others(id)}
  BY <1>1 DEF Others
<1>. QED  BY <1>2 DEF Without, Filtered, Sel

LEMMA SelDistinct ==
  ASSUME NEW s \in Seq(Transformation), NEW P, Distinct(s)
  PROVE  Distinct(Sel(s, P))
<1>. DEFINE r == Sel(s, P)
<1>1. PICK p \in [1 .. Len(r) -> 1 .. Len(s)] :
        /\ \A j \in 1 .. Len(r) : r[j] = s[p[j]] /\ s[p[j]] \in P
        /\ \A j, k \in 1 .. Len(r) : j < k => p[j] < p[k]
  BY SelPlaces
<1>2. Len(r) \in Nat
  BY SelType
<1>. HIDE DEF r
<1>3. ASSUME NEW j \in 1 .. Len(r), NEW k \in 1 .. Len(r), r[j].id = r[k].id
      PROVE  j = k
  <2>1. p[j] = p[k]
    <3>1. p[j] \in 1 .. Len(s) /\ p[k] \in 1 .. Len(s) /\ s[p[j]].id = s[p[k]].id
      BY <1>1, <1>3
    <3>. QED  BY <3>1 DEF Distinct
  <2>2. ~(j < k) /\ ~(k < j)
    <3>1. p[j] \in Int /\ p[k] \in Int
      BY <1>1, LenProperties
    <3>. QED  BY <3>1, <1>1, <2>1
  <2>. QED  BY <2>2
<1>. QED  BY <1>3 DEF Distinct, r

LEMMA WithoutIs ==
  ASSUME NEW im, NEW A \in SUBSET Ids, NEW s \in Seq(On(im, A)), Distinct(s), NEW id \in Ids,
         NEW r, r = Without(s, id)
  PROVE  /\ r \in Seq(On(im, A)) /\ Distinct(r)
         /\ \A K : OnlyKeys(s, K) => OnlyKeys(r, K)
<1>1. s \in Seq(Transformation)
  BY OnIsTransformation
<1>2. r = Sel(s, Others(id))
  BY <1>1, FilterOthers
<1>3. Distinct(r)
  BY <1>1, <1>2, SelDistinct
<1>4. /\ r \in Seq(On(im, A))
      /\ \A j \in 1 .. Len(r) : r[j] \in Others(id) /\ \E i \in 1 .. Len(s) : r[j] = s[i]
      /\ \A i \in 1 .. Len(s) : s[i] \in Others(id) => \E j \in 1 .. Len(r) : r[j] = s[i]
  <2>. DEFINE S == On(im, A)
              P == Others(id)
  <2>1. s \in Seq(S) /\ r = Sel(s, P)
    BY <1>2
  <2>. HIDE DEF S, P
  <2>2. /\ r \in Seq(S)
        /\ \A j \in 1 .. Len(r) : r[j] \in P /\ \E i \in 1 .. Len(s) : r[j] = s[i]
        /\ \A i \in 1 .. Len(s) : s[i] \in P => \E j \in 1 .. Len(r) : r[j] = s[i]
    BY <2>1, SelNamed, SMTT(30)
  <2>. QED  BY <2>2 DEF S, P
<1>10. ASSUME NEW K, OnlyKeys(s, K)
       PROVE  OnlyKeys(r, K)
  BY <1>4, <1>10 DEF OnlyKeys
<1>. QED  BY <1>3, <1>4, <1>10

LEMMA WithoutIds ==
  ASSUME NEW im, NEW A \in SUBSET Ids, NEW s \in Seq(On(im, A)), NEW id \in Ids,
         NEW r, r = Without(s, id)
  PROVE  \A a : a \in AppendIds(r) <=> a \in AppendIds(s) /\ a # id
<1>1. s \in Seq(Transformation)
  BY OnIsTransformation
<1>2. r = Sel(s, Others(id))
  BY <1>1, FilterOthers
<1>4. /\ r \in Seq(On(im, A))
      /\ \A j \in 1 .. Len(r) : r[j] \in Others(id) /\ \E i \in 1 .. Len(s) : r[j] = s[i]
      /\ \A i \in 1 .. Len(s) : s[i] \in Others(id) => \E j \in 1 .. Len(r) : r[j] = s[i]
  <2>. DEFINE S == On(im, A)
              P == Others(id)
  <2>1. s \in Seq(S) /\ r = Sel(s, P)
    BY <1>2
  <2>. HIDE DEF S, P
  <2>2. /\ r \in Seq(S)
        /\ \A j \in 1 .. Len(r) : r[j] \in P /\ \E i \in 1 .. Len(s) : r[j] = s[i]
        /\ \A i \in 1 .. Len(s) : s[i] \in P => \E j \in 1 .. Len(r) : r[j] = s[i]
    BY <2>1, SelNamed, SMTT(30)
  <2>. QED  BY <2>2 DEF S, P
<1>5. \A i \in 1 .. Len(s) : s[i] \in On(im, A) /\ s[i] \in Transformation
  BY <1>1, ElementOfSeq
<1>7. \A a : a \in AppendIds(s) <=> \E i \in 1 .. Len(s) : s[i].kind = "append" /\ a = s[i].id
  BY AppendIdsOf
<1>8. \A a : a \in AppendIds(r) <=> \E i \in 1 .. Len(r) : r[i].kind = "append" /\ a = r[i].id
  BY <1>4, AppendIdsOf, SMTT(30)
<1>9. \A a : a \in AppendIds(r) <=> a \in AppendIds(s) /\ a # id
  <2>1. ASSUME NEW a \in AppendIds(r)
        PROVE  a \in AppendIds(s) /\ a # id
    <3>1. PICK j \in 1 .. Len(r) : r[j].kind = "append" /\ a = r[j].id
      BY <2>1, <1>8
    <3>2. r[j] \in Others(id) /\ \E i \in 1 .. Len(s) : r[j] = s[i]
      BY <1>4
    <3>. QED  BY <3>1, <3>2, <1>7 DEF Others
  <2>2. ASSUME NEW a \in AppendIds(s), a # id
        PROVE  a \in AppendIds(r)
    <3>1. PICK i \in 1 .. Len(s) : s[i].kind = "append" /\ a = s[i].id
      BY <2>2, <1>7
    <3>2. s[i].target = 0
      BY <3>1, <1>5 DEF On, Letter
    <3>3. s[i] \in Others(id)
      BY <3>1, <3>2, <2>2, <1>5 DEF Others, Ids
    <3>. QED  BY <3>1, <3>3, <1>4, <1>8
  <2>. QED  BY <2>1, <2>2
<1>. QED  BY <1>9

\* Nothing left points to the letter taken away.
LEMMA WithoutOn ==
  ASSUME NEW im, NEW A \in SUBSET Ids, NEW s \in Seq(On(im, A)), NEW id \in Ids,
         NEW B, B = A \ {id}, NEW r, r = Without(s, id)
  PROVE  r \in Seq(On(im, B))
<1>5. /\ r \in Seq(On(im, A))
      /\ \A j \in 1 .. Len(r) : r[j] \in Others(id) /\ \E i \in 1 .. Len(s) : r[j] = s[i]
  <2>. DEFINE S == On(im, A)
              P == Others(id)
  <2>1. s \in Seq(S) /\ r = Sel(s, P)
    BY OnIsTransformation, FilterOthers
  <2>. HIDE DEF S, P
  <2>2. /\ r \in Seq(S)
        /\ \A j \in 1 .. Len(r) : r[j] \in P /\ \E i \in 1 .. Len(s) : r[j] = s[i]
    BY <2>1, SelNamed, SMTT(30)
  <2>. QED  BY <2>2 DEF S, P
<1>6. \A i \in 1 .. Len(s) : s[i] \in On(im, A)
  BY ElementOfSeq
<1>. DEFINE S == On(im, A)
            T == On(im, B)
<1>1. \A t \in S : t \in Others(id) => t \in T
  BY DEF On, Others
<1>2. \A j \in 1 .. Len(r) : r[j] \in T
  BY <1>5, <1>6, <1>1
<1>. HIDE DEF S, T
<1>3. r \in Seq(S)
  BY <1>5 DEF S
<1>4. r \in Seq(T)
  BY <1>2, <1>3, SeqOver
<1>. QED  BY <1>4 DEF T

\* Where every key can be composed the whole list is the last word.
Composable(im) == {k \in Symbols \ {NoKey} : CanProcessKey(k, im.keys)}

\* A letter whose key can be composed ends no word.
LEMMA NoSeparator ==
  ASSUME NEW im, MethodOK(im), NEW A, NEW s \in Seq(Transformation), NEW t \in On(im, A), t.kind = "append",
         t.key \in Composable(im)
  PROVE  ~Separates(Unmarked(Rendered(s, t)[1]), im.keys)
<1>. DEFINE ch == Rendered(s, t)
<1>1. ch \in Looks(t)
  BY RenderedLooks
<1>. HIDE DEF ch
<1>2. ~Separates(Unmarked(t.key), im.keys)
  BY ProcessableKey DEF Composable
<1>3. Unmarked(t.on) = Unmarked(t.key) \/ Unmarked(t.on) \in Alpha
  BY DEF On, Letter
<1>4. Unmarked(ch[1]) \in {Unmarked(t.on), Unmarked(t.key)}
  BY <1>1 DEF Looks
<1>5. \A l \in Alpha : ~Separates(l, im.keys)
  BY DEF Separates, IsAlpha
<1>6. ~Separates(Unmarked(ch[1]), im.keys)
  BY <1>2, <1>3, <1>4, <1>5
<1>. QED  BY <1>6 DEF ch

LEMMA WholeWord ==
  ASSUME NEW im, MethodOK(im), NEW A \in SUBSET Ids, NEW s \in Seq(On(im, A)), OnlyKeys(s, Composable(im))
  PROVE  WordStart(s, im.keys) = 1 /\ LastWord(im, s) = s
<1>1. s \in Seq(Transformation) /\ Len(s) \in Nat /\ \A i \in 1 .. Len(s) : s[i] \in On(im, A)
  BY OnIsTransformation, LenProperties, ElementOfSeq
<1>2. ASSUME NEW i \in 1 .. Len(s), Visible(s[i])
      PROVE  ~Separates(Unmarked(Rendered(s, s[i])[1]), im.keys)
  <2>. DEFINE t == s[i]
  <2>1. t \in On(im, A) /\ t.kind = "append"
    BY <1>1, <1>2 DEF Visible
  <2>2. t.key \in Composable(im)
    <3>1. t.key \in Composable(im) \cup {NoKey}
      BY DEF OnlyKeys
    <3>2. t.key # NoKey
      BY <2>1 DEF On, Letter
    <3>. QED  BY <3>1, <3>2
  <2>. HIDE DEF t
  <2>3. ~Separates(Unmarked(Rendered(s, t)[1]), im.keys)
    BY <1>1, <2>1, <2>2, NoSeparator
  <2>. QED  BY <2>3 DEF t
<1>3. {i \in 1 .. Len(s) : Visible(s[i]) /\ Separates(Unmarked(Rendered(s, s[i])[1]), im.keys)} = {}
  BY <1>2
<1>4. WordStart(s, im.keys) = 1 + 0
  BY <1>3 DEF WordStart, SelectLastInSeq
<1>5. WordStart(s, im.keys) = 1
  BY <1>4
<1>6. SubSeq(s, 1, Len(s)) = s
  BY SubSeqFull
<1>. QED  BY <1>5, <1>6 DEF LastWord

\* The elements of two sequences one behind the other.
LEMMA ConcatElements ==
  ASSUME NEW S, NEW b \in Seq(S), NEW w \in Seq(S)
  PROVE  LET c == b \o w
             m == Len(b)
         IN  /\ c \in Seq(S) /\ Len(c) = m + Len(w) /\ m \in Nat /\ Len(w) \in Nat
             /\ \A i \in 1 .. m : i \in 1 .. Len(c) /\ c[i] = b[i]
             /\ \A j \in 1 .. Len(w) : m + j \in 1 .. Len(c) /\ c[m + j] = w[j]
             /\ \A i \in 1 .. Len(c) : i \in 1 .. m \/ \E j \in 1 .. Len(w) : i = m + j
<1>. DEFINE c == b \o w
            m == Len(b)
            l == Len(w)
<1>1. m \in Nat /\ l \in Nat
  BY LenProperties
<1>2. c \in Seq(S) /\ Len(c) = m + l /\ \A i \in 1 .. m + l : c[i] = IF i <= m THEN b[i] ELSE w[i - m]
  BY ConcatProperties
<1>. HIDE DEF c, m, l
<1>3. ASSUME NEW i \in 1 .. m
      PROVE  i \in 1 .. m + l /\ c[i] = b[i]
  <2>1. i \in 1 .. m + l /\ i <= m
    BY <1>1
  <2>. QED  BY <2>1, <1>2
<1>4. ASSUME NEW j \in 1 .. l
      PROVE  m + j \in 1 .. m + l /\ c[m + j] = w[j]
  <2>. DEFINE k == m + j
  <2>1. k \in 1 .. m + l /\ ~(k <= m) /\ k - m = j
    BY <1>1
  <2>. HIDE DEF k
  <2>2. c[k] = w[k - m]
    BY <2>1, <1>2
  <2>. QED  BY <2>1, <2>2 DEF k
<1>5. ASSUME NEW i \in 1 .. m + l, i \notin 1 .. m
      PROVE  i - m \in 1 .. l /\ i = m + (i - m)
  BY <1>1, <1>5
<1>6. \A i \in 1 .. m + l : i \in 1 .. m \/ \E j \in 1 .. l : i = m + j
  BY <1>5
<1>. QED  BY <1>1, <1>2, <1>3, <1>4, <1>6 DEF c, m, l

LEMMA DistinctBehind ==
  ASSUME NEW b \in Seq(Transformation), NEW t \in Seq(Transformation), NEW w \in Seq(Transformation),
         Distinct(b \o t), Distinct(w), \A j \in 1 .. Len(w) : \E i \in 1 .. Len(t) : w[j] = t[i]
  PROVE  Distinct(b \o w)
<1>. DEFINE s == b \o t
            c == b \o w
            m == Len(b)
<1>1. /\ \A i \in 1 .. m : i \in 1 .. Len(s) /\ s[i] = b[i]
      /\ \A j \in 1 .. Len(t) : m + j \in 1 .. Len(s) /\ s[m + j] = t[j]
      /\ m \in Nat /\ Len(t) \in Nat
  BY ConcatElements
<1>2. /\ \A i \in 1 .. m : i \in 1 .. Len(c) /\ c[i] = b[i]
      /\ \A j \in 1 .. Len(w) : m + j \in 1 .. Len(c) /\ c[m + j] = w[j]
      /\ \A i \in 1 .. Len(c) : i \in 1 .. m \/ \E j \in 1 .. Len(w) : i = m + j
  BY ConcatElements
<1>3. \A i, j \in 1 .. Len(s) : s[i].id = s[j].id => i = j
  BY DEF Distinct
<1>4. \A i, j \in 1 .. Len(w) : w[i].id = w[j].id => i = j
  BY DEF Distinct
<1>. HIDE DEF s, c, m
<1>5. ASSUME NEW i \in 1 .. m, NEW j \in 1 .. Len(w)
      PROVE  b[i].id # w[j].id
  <2>1. PICK k \in 1 .. Len(t) : w[j] = t[k]
    OBVIOUS
  <2>2. s[i] = b[i] /\ s[m + k] = w[j] /\ i \in 1 .. Len(s) /\ m + k \in 1 .. Len(s)
    BY <2>1, <1>1
  <2>3. i # m + k
    BY <1>1
  <2>. DEFINE l == m + k
  <2>. HIDE DEF l
  <2>4. s[i].id # s[l].id
    BY <2>2, <2>3, <1>3 DEF l
  <2>. QED  BY <2>2, <2>4 DEF l
<1>6. \A i \in 1 .. Len(c) : (i \in 1 .. m /\ c[i] = b[i]) \/ \E k \in 1 .. Len(w) : i = m + k /\ c[i] = w[k]
  BY <1>2
<1>7. ASSUME NEW i \in 1 .. Len(c), NEW j \in 1 .. Len(c), c[i].id = c[j].id
      PROVE  i = j
  <2>1. CASE i \in 1 .. m /\ c[i] = b[i] /\ j \in 1 .. m /\ c[j] = b[j]
    BY <2>1, <1>7, <1>1, <1>3, SMTT(30)
  <2>2. CASE i \in 1 .. m /\ c[i] = b[i] /\ \E k \in 1 .. Len(w) : j = m + k /\ c[j] = w[k]
    <3>1. PICK k \in 1 .. Len(w) : j = m + k /\ c[j] = w[k]
      BY <2>2
    <3>2. b[i].id # w[k].id
      BY <2>2, <1>5
    <3>. QED  BY <2>2, <3>1, <3>2, <1>7
  <2>3. CASE j \in 1 .. m /\ c[j] = b[j] /\ \E k \in 1 .. Len(w) : i = m + k /\ c[i] = w[k]
    <3>1. PICK k \in 1 .. Len(w) : i = m + k /\ c[i] = w[k]
      BY <2>3
    <3>2. b[j].id # w[k].id
      BY <2>3, <1>5
    <3>. QED  BY <2>3, <3>1, <3>2, <1>7
  <2>4. CASE /\ \E k \in 1 .. Len(w) : i = m + k /\ c[i] = w[k]
             /\ \E k \in 1 .. Len(w) : j = m + k /\ c[j] = w[k]
    <3>1. PICK k \in 1 .. Len(w) : i = m + k /\ c[i] = w[k]
      BY <2>4
    <3>2. PICK l \in 1 .. Len(w) : j = m + l /\ c[j] = w[l]
      BY <2>4
    <3>3. k = l
      BY <3>1, <3>2, <1>7, <1>4
    <3>. QED  BY <3>1, <3>2, <3>3
  <2>. QED  BY <1>6, <2>1, <2>2, <2>3, <2>4
<1>. QED  BY <1>7 DEF Distinct, c

LEMMA AppendIdsConcat ==
  ASSUME NEW S, NEW b \in Seq(S), NEW t \in Seq(S)
  PROVE  AppendIds(b \o t) = AppendIds(b) \cup AppendIds(t)
<1>. DEFINE s == b \o t
            m == Len(b)
<1>1. /\ \A i \in 1 .. m : i \in 1 .. Len(s) /\ s[i] = b[i]
      /\ \A j \in 1 .. Len(t) : m + j \in 1 .. Len(s) /\ s[m + j] = t[j]
      /\ \A i \in 1 .. Len(s) : i \in 1 .. m \/ \E j \in 1 .. Len(t) : i = m + j
      /\ s \in Seq(S)
  BY ConcatElements
<1>2. \A a : a \in AppendIds(s) <=> \E i \in 1 .. Len(s) : s[i].kind = "append" /\ a = s[i].id
  BY <1>1, AppendIdsOf
<1>3. \A a : a \in AppendIds(b) <=> \E i \in 1 .. m : b[i].kind = "append" /\ a = b[i].id
  BY AppendIdsOf
<1>4. \A a : a \in AppendIds(t) <=> \E i \in 1 .. Len(t) : t[i].kind = "append" /\ a = t[i].id
  BY AppendIdsOf
<1>. HIDE DEF s, m
<1>5. ASSUME NEW a, a \in AppendIds(s)
      PROVE  a \in AppendIds(b) \/ a \in AppendIds(t)
  <2>1. PICK i \in 1 .. Len(s) : s[i].kind = "append" /\ a = s[i].id
    BY <1>2, <1>5
  <2>2. CASE i \in 1 .. m
    BY <2>1, <2>2, <1>1, <1>3
  <2>3. CASE \E j \in 1 .. Len(t) : i = m + j
    BY <2>1, <2>3, <1>1, <1>4, SMTT(30)
  <2>. QED  BY <2>2, <2>3, <1>1
<1>6. ASSUME NEW a, a \in AppendIds(b)
      PROVE  a \in AppendIds(s)
  BY <1>1, <1>2, <1>3, <1>6
<1>7. ASSUME NEW a, a \in AppendIds(t)
      PROVE  a \in AppendIds(s)
  <2>1. PICK j \in 1 .. Len(t) : t[j].kind = "append" /\ a = t[j].id
    BY <1>4, <1>7
  <2>. DEFINE k == m + j
  <2>2. k \in 1 .. Len(s) /\ s[k] = t[j]
    BY <1>1
  <2>. HIDE DEF k
  <2>. QED  BY <2>1, <2>2, <1>2
<1>. QED  BY <1>5, <1>6, <1>7 DEF s

\* The list r is s without one letter and the marks on it, but for a tone that
\* moved.
Lacks(im, A, s, id, r) ==
  /\ r \in Seq(On(im, A)) /\ Distinct(r) /\ AppendIds(r) = AppendIds(s) \ {id}
  /\ \A K : NoKey \notin K /\ OnlyKeys(s, K) => OnlyKeys(r, K)
Shrinks(im, A, s, r) == \E id \in AppendIds(s) : Lacks(im, A, s, id, r)

\* From a place on, and then the tone moves.
LEMMA LessFrom ==
  ASSUME NEW im, NEW A \in SUBSET Ids, NEW s \in Seq(On(im, A)), Distinct(s),
         NEW start \in 1 .. Len(s) + 1, NEW id \in Ids,
         id \notin AppendIds(SubSeq(s, 1, start - 1)), NEW B, B = A \ {id},
         NEW r, r = Refreshed(im, SubSeq(s, 1, start - 1), Without(SubSeq(s, start, Len(s)), id))
  PROVE  /\ Lacks(im, A, s, id, r)
         /\ start = 1 => r \in Seq(On(im, B))
<1>. DEFINE b == SubSeq(s, 1, start - 1)
            t == SubSeq(s, start, Len(s))
            w == Without(t, id)
            c == b \o w
<1>1. b \in Seq(On(im, A)) /\ t \in Seq(On(im, A)) /\ s = b \o t
      /\ Len(b) = start - 1
      /\ (\A i \in 1 .. Len(b) : b[i] = s[i]) /\ (\A i \in 1 .. Len(t) : t[i] = s[start - 1 + i])
  BY Cut
<1>16. r = Refreshed(im, b, w)
  OBVIOUS
<1>2. start = 1 => b = <<>>
  BY <1>1, EmptySeq
<1>3. b \in Seq(Transformation) /\ t \in Seq(Transformation) /\ s \in Seq(Transformation)
  BY <1>1, OnIsTransformation
<1>4. id \notin AppendIds(b)
  OBVIOUS
<1>. HIDE DEF b, t
<1>5. Distinct(t)
  <2>. DEFINE k == start - 1
  <2>1. t \in Seq(Transformation) /\ k = Len(b) /\ s = b \o t
    BY <1>1, <1>3
  <2>. HIDE DEF k
  <2>2. \A j \in 1 .. Len(t) : k + j \in 1 .. Len(s) /\ s[k + j] = t[j]
    BY <2>1, <1>3, ConcatElements
  <2>3. k \in Nat
    BY <2>1, <1>3, LenProperties
  <2>4. ASSUME NEW i \in 1 .. Len(t), NEW j \in 1 .. Len(t), t[i].id = t[j].id
        PROVE  i = j
    <3>1. s[k + i].id = s[k + j].id /\ k + i \in 1 .. Len(s) /\ k + j \in 1 .. Len(s)
      BY <2>2, <2>4
    <3>2. k + i = k + j
      <4>. DEFINE x == k + i
                  y == k + j
      <4>1. s[x].id = s[y].id /\ x \in 1 .. Len(s) /\ y \in 1 .. Len(s)
        BY <3>1
      <4>. HIDE DEF x, y
      <4>2. x = y
        BY <4>1 DEF Distinct
      <4>. QED  BY <4>2 DEF x, y
    <3>. QED  BY <3>2, <2>3
  <2>. QED  BY <2>4 DEF Distinct
<1>6. /\ w \in Seq(On(im, A)) /\ w \in Seq(On(im, B)) /\ Distinct(w)
      /\ \A a : a \in AppendIds(w) <=> a \in AppendIds(t) /\ a # id
      /\ \A K : OnlyKeys(t, K) => OnlyKeys(w, K)
  <2>1. w = Without(t, id)
    OBVIOUS
  <2>. HIDE DEF w
  <2>2. w \in Seq(On(im, B))
    BY <1>1, <2>1, WithoutOn
  <2>3. w \in Seq(On(im, A)) /\ Distinct(w)
    BY <1>1, <1>5, <2>1, WithoutIs
  <2>4. \A a : a \in AppendIds(w) <=> a \in AppendIds(t) /\ a # id
    BY <1>1, <2>1, WithoutIds
  <2>5. \A K : OnlyKeys(t, K) => OnlyKeys(w, K)
    BY <1>1, <1>5, <2>1, WithoutIs, Zenon
  <2>. QED  BY <2>2, <2>3, <2>4, <2>5
<1>7. \A j \in 1 .. Len(w) : \E i \in 1 .. Len(t) : w[j] = t[i]
  <2>1. w = Sel(t, Others(id))
    BY <1>3, FilterOthers
  <2>2. \A j \in 1 .. Len(Sel(t, Others(id))) : \E i \in 1 .. Len(t) : Sel(t, Others(id))[j] = t[i]
    BY <1>3, SelType
  <2>. HIDE DEF w
  <2>. QED  BY <2>1, <2>2
<1>. HIDE DEF w
<1>8. w \in Seq(Transformation)
  BY <1>6, OnIsTransformation
<1>9. c \in Seq(On(im, A)) /\ r \in Seq(On(im, A)) /\ Typed(r) = Typed(c) /\ Follows(c, r, FreshId(c))
  BY <1>1, <1>6, <1>16, RefreshedIs
<1>10. Distinct(c)
  BY <1>1, <1>3, <1>6, <1>7, <1>8, DistinctBehind
<1>11. \A a : a \in AppendIds(c) <=> a \in AppendIds(s) /\ a # id
  <2>1. AppendIds(c) = AppendIds(b) \cup AppendIds(w)
    BY <1>3, <1>8, AppendIdsConcat
  <2>2. AppendIds(s) = AppendIds(b) \cup AppendIds(t)
    <3>1. AppendIds(b \o t) = AppendIds(b) \cup AppendIds(t)
      BY <1>3, AppendIdsConcat
    <3>. QED  BY <3>1, <1>1
  <2>. HIDE DEF c
  <2>. QED  BY <2>1, <2>2, <1>4, <1>6
<1>12. r \in Seq(Transformation) /\ c \in Seq(Transformation)
  BY <1>9, OnIsTransformation
<1>13. Distinct(r) /\ AppendIds(r) = AppendIds(c)
  <2>. HIDE DEF c
  <2>. QED  BY <1>9, <1>10, <1>12, FollowsDistinct
<1>14. ASSUME NEW K, NoKey \notin K, OnlyKeys(s, K)
       PROVE  OnlyKeys(r, K)
  <2>1. OnlyKeys(t, K) /\ OnlyKeys(b, K)
    <3>1. /\ \A i \in 1 .. Len(b) : i \in 1 .. Len(b \o t) /\ (b \o t)[i] = b[i]
          /\ \A j \in 1 .. Len(t) : Len(b) + j \in 1 .. Len(b \o t) /\ (b \o t)[Len(b) + j] = t[j]
      BY <1>3, ConcatElements
    <3>2. \A i \in 1 .. Len(b) : b[i].key \in K \cup {NoKey}
      BY <3>1, <1>1, <1>14 DEF OnlyKeys
    <3>3. ASSUME NEW j \in 1 .. Len(t)
          PROVE  t[j].key \in K \cup {NoKey}
      <4>. DEFINE i == Len(b) + j
      <4>1. i \in 1 .. Len(s) /\ s[i] = t[j]
        BY <3>1, <1>1
      <4>. HIDE DEF i
      <4>. QED  BY <4>1, <1>14 DEF OnlyKeys
    <3>. QED  BY <3>2, <3>3 DEF OnlyKeys
  <2>2. OnlyKeys(w, K)
    BY <2>1, <1>6
  <2>3. OnlyKeys(c, K)
    BY <2>1, <2>2, <1>3, <1>8, OnlyKeysConcat
  <2>. HIDE DEF c
  <2>. QED  BY <2>3, <1>9, <1>12, <1>14, OnlyKeysTyped
<1>15. ASSUME start = 1
       PROVE  r \in Seq(On(im, B))
  <2>1. B \in SUBSET Ids /\ w \in Seq(On(im, B))
    BY <1>6
  <2>2. <<>> \in Seq(On(im, B))
    OBVIOUS
  <2>3. Refreshed(im, <<>>, w) \in Seq(On(im, B))
    BY <2>1, <2>2, RefreshedIs
  <2>. QED  BY <2>3, <1>2, <1>15, <1>16
<1>17. AppendIds(r) = AppendIds(s) \ {id}
  <2>. HIDE DEF c
  <2>. QED  BY <1>11, <1>13
<1>. QED  BY <1>9, <1>13, <1>14, <1>15, <1>17 DEF Lacks

\* The last word begins where or before the last letter does, unless that
\* letter ends it.
LEMMA LastLetterInWord ==
  ASSUME NEW im, MethodOK(im), NEW A \in SUBSET Ids, NEW s \in Seq(On(im, A)),
         LastAppended(s) # 0, s[LastAppended(s)].key \in Composable(im)
  PROVE  WordStart(s, im.keys) <= LastAppended(s)
<1>. DEFINE n == Len(s)
            I == {i \in 1 .. n : Visible(s[i]) /\ Separates(Unmarked(Rendered(s, s[i])[1]), im.keys)}
            q == MaxOrZero(I)
            p == LastAppended(s)
<1>1. n \in Nat /\ s \in Seq(Transformation) /\ \A i \in 1 .. n : s[i] \in On(im, A)
  BY OnIsTransformation, LenProperties, ElementOfSeq
<1>2. WordStart(s, im.keys) = 1 + q
  BY DEF WordStart, SelectLastInSeq, MaxOrZero
<1>3. p \in 1 .. n /\ s[p].kind = "append" /\ s[p] \in On(im, A)
      /\ \A i \in 1 .. n : s[i] \in Appended => i <= p
  BY LastAppendedOf DEF LettersIn, Appended
<1>4. ~Separates(Unmarked(Rendered(s, s[p])[1]), im.keys)
  <2>. DEFINE t == s[p]
  <2>1. t \in On(im, A) /\ t.kind = "append" /\ t.key \in Composable(im)
    BY <1>3
  <2>. HIDE DEF t
  <2>2. ~Separates(Unmarked(Rendered(s, t)[1]), im.keys)
    BY <1>1, <2>1, NoSeparator
  <2>. QED  BY <2>2 DEF t
<1>5. p \notin I /\ \A i \in I : i <= p
  <2>1. \A i \in I : s[i] \in Appended
    BY <1>1 DEF Visible, Appended, On
  <2>. HIDE DEF p
  <2>. QED  BY <1>3, <1>4, <2>1
<1>6. q = 0 \/ q \in I
  <2>1. I \in SUBSET (1 .. n)
    OBVIOUS
  <2>. HIDE DEF I, n
  <2>. QED  BY <1>1, <2>1, MaxOfPlaces
<1>7. I \in SUBSET (1 .. n)
  OBVIOUS
<1>. HIDE DEF I, q, p, n
<1>8. 1 + q <= p
  <2>1. CASE q = 0
    BY <2>1, <1>1, <1>3
  <2>2. CASE q \in I
    <3>1. q <= p /\ q # p /\ q \in 1 .. n
      BY <2>2, <1>5, <1>7
    <3>. QED  BY <3>1, <1>1, <1>3
  <2>. QED  BY <1>6, <2>1, <2>2
<1>. QED  BY <1>2, <1>8 DEF p

LEMMA NotBefore ==
  ASSUME NEW s \in Seq(Transformation), Distinct(s), NEW start \in 1 .. Len(s) + 1, NEW p \in 1 .. Len(s), start <= p
  PROVE  s[p].id \notin AppendIds(SubSeq(s, 1, start - 1))
<1>. DEFINE b == SubSeq(s, 1, start - 1)
<1>1. b \in Seq(Transformation) /\ Len(b) = start - 1 /\ \A i \in 1 .. Len(b) : b[i] = s[i]
  BY Cut
<1>2. Len(s) \in Nat
  BY LenProperties
<1>. HIDE DEF b
<1>3. SUFFICES ASSUME s[p].id \in AppendIds(b)
               PROVE  FALSE
  BY DEF b
<1>4. PICK i \in 1 .. Len(b) : b[i].kind = "append" /\ s[p].id = b[i].id
  BY <1>1, <1>3, AppendIdsOf
<1>5. i \in 1 .. Len(s) /\ s[i].id = s[p].id /\ i < p
  BY <1>1, <1>2, <1>4
<1>. QED  BY <1>5, <1>2 DEF Distinct

\* remove_last_char
LEMMA RemoveShrinks ==
  ASSUME NEW im, MethodOK(im), NEW A \in SUBSET Ids, NEW s \in Seq(On(im, A)), Distinct(s),
         LastAppended(s) # 0, NEW r, r = RemoveLastChar(im, s, TRUE)
  PROVE  /\ Shrinks(im, A, s, r)
         /\ WordStart(s, im.keys) = 1 /\ A = AppendIds(s) => r \in Seq(On(im, AppendIds(r)))
<1>. DEFINE p == LastAppended(s)
            id == s[p].id
            start == WordStart(s, im.keys)
<1>1. p \in 1 .. Len(s) /\ s[p] \in LettersIn(im, A)
  BY LastAppendedOf
<1>2. id \in A /\ id \in Ids /\ s[p].key # NoKey /\ s[p].key \in Symbols /\ s[p].kind = "append"
  BY <1>1 DEF LettersIn, On, Letter, Appended, TransformationFields, Transformation
<1>3. id \in AppendIds(s)
  BY <1>1, <1>2, AppendIdsOf
<1>4. s \in Seq(Transformation)
  BY OnIsTransformation
<1>5. start \in 1 .. Len(s) + 1
  BY WordStartIn
<1>6. r = RemoveLetter(im, s, s[p], start, TRUE)
  BY DEF RemoveLastChar
<1>7. CASE ~CanProcessKey(s[p].key, im.keys)
  <2>1. r = Without(s, id)
    BY <1>6, <1>7 DEF RemoveLetter
  <2>. HIDE DEF id
  <2>. DEFINE B == A \ {id}
  <2>3. B = A \ {id}
    OBVIOUS
  <2>. HIDE DEF B
  <2>2. r \in Seq(On(im, A)) /\ Distinct(r) /\ \A K : OnlyKeys(s, K) => OnlyKeys(r, K)
    BY <1>2, <2>1, WithoutIs
  <2>4. \A a : a \in AppendIds(r) <=> a \in AppendIds(s) /\ a # id
    <3>. DEFINE w == Without(s, id)
    <3>1. w = Without(s, id) /\ id \in Ids
      BY <1>2
    <3>. HIDE DEF w
    <3>2. \A a : a \in AppendIds(w) <=> a \in AppendIds(s) /\ a # id
      BY <3>1, WithoutIds
    <3>. QED  BY <2>1, <3>1, <3>2
  <2>5. r \in Seq(On(im, B))
    BY <1>2, <2>1, <2>3, WithoutOn
  <2>6. AppendIds(r) = AppendIds(s) \ {id}
    BY <2>4
  <2>7. A = AppendIds(s) => r \in Seq(On(im, AppendIds(r)))
    BY <2>3, <2>5, <2>6
  <2>. QED  BY <1>3, <2>2, <2>6, <2>7 DEF Shrinks, Lacks
<1>8. CASE CanProcessKey(s[p].key, im.keys)
  <2>1. r = Refreshed(im, SubSeq(s, 1, start - 1), Without(SubSeq(s, start, Len(s)), id))
    BY <1>6, <1>8 DEF RemoveLetter, RestOfWord
  <2>2. start <= p
    BY <1>2, <1>8, LastLetterInWord DEF Composable
  <2>3. id \notin AppendIds(SubSeq(s, 1, start - 1))
    <3>. HIDE DEF p, start
    <3>. QED  BY <1>1, <1>4, <1>5, <2>2, NotBefore
  <2>. HIDE DEF id, start
  <2>. DEFINE B == A \ {id}
  <2>5. B = A \ {id}
    OBVIOUS
  <2>. HIDE DEF B
  <2>4. Lacks(im, A, s, id, r) /\ (start = 1 => r \in Seq(On(im, B)))
    BY <1>2, <1>5, <2>1, <2>3, <2>5, LessFrom
  <2>6. start = 1 /\ A = AppendIds(s) => r \in Seq(On(im, AppendIds(r)))
    BY <2>4, <2>5 DEF Lacks
  <2>. QED  BY <1>3, <2>4, <2>6 DEF Shrinks, start
<1>. QED  BY <1>7, <1>8

LEMMA NothingToRemove ==
  ASSUME NEW im, NEW A, NEW s \in Seq(On(im, A)), LastAppended(s) = 0
  PROVE  RemoveLastChar(im, s, TRUE) = s /\ AppendIds(s) = {}
<1>1. \A i \in 1 .. Len(s) : s[i] \in Appended => i <= 0
  BY LastAppendedOf
<1>2. \A i \in 1 .. Len(s) : s[i] \in Transformation
  BY OnIsTransformation, ElementOfSeq
<1>3. \A a : a \in AppendIds(s) <=> \E i \in 1 .. Len(s) : s[i].kind = "append" /\ a = s[i].id
  BY AppendIdsOf
<1>4. AppendIds(s) = {}
  BY <1>1, <1>2, <1>3 DEF Appended
<1>. QED  BY <1>4 DEF RemoveLastChar

\* What is shown of a list and what was typed: nothing only where it holds no
\* letter.
LEMMA FlattenSome ==
  ASSUME NEW im, NEW A, NEW s \in Seq(On(im, A))
  PROVE  /\ Flatten(s) \in Seq(Char)
         /\ Flatten(s) = <<>> <=> AppendIds(s) = {}
<1>. DEFINE v == Sel(s, Appended)
            f == Flatten(s)
<1>1. /\ v \in Seq(On(im, A)) /\ Len(v) \in Nat
      /\ f \in Seq(Char) /\ Len(f) = Len(v)
  BY FlattenOf
<1>2. v = <<>> <=> \A i \in 1 .. Len(s) : s[i] \notin Appended
  BY SelEmpty
<1>3. \A i \in 1 .. Len(s) : s[i] \in Transformation
  BY OnIsTransformation, ElementOfSeq
<1>4. \A a : a \in AppendIds(s) <=> \E i \in 1 .. Len(s) : s[i].kind = "append" /\ a = s[i].id
  BY AppendIdsOf
<1>5. AppendIds(s) = {} <=> \A i \in 1 .. Len(s) : s[i] \notin Appended
  BY <1>3, <1>4 DEF Appended
<1>. HIDE DEF v, f
<1>6. f = <<>> <=> v = <<>>
  BY <1>1, EmptySeq
<1>. QED  BY <1>1, <1>2, <1>5, <1>6 DEF v, f

LEMMA TypedSome ==
  ASSUME NEW im, NEW A, NEW s \in Seq(On(im, A)), AppendIds(s) # {}
  PROVE  Typed(s) # <<>>
<1>1. s \in Seq(Transformation) /\ \A i \in 1 .. Len(s) : s[i] \in On(im, A)
  BY OnIsTransformation, ElementOfSeq
<1>2. PICK i \in 1 .. Len(s) : s[i].kind = "append"
  BY <1>1, AppendIdsOf
<1>3. s[i].key # NoKey
  BY <1>1, <1>2 DEF On, Letter
<1>4. PICK j \in 1 .. Len(Typed(s)) : TRUE
  BY <1>1, <1>3, TypedHas
<1>5. Typed(s) \in Seq(Char)
  BY <1>1, TypedKeys
<1>. DEFINE w == Typed(s)
<1>. HIDE DEF w
<1>6. w # <<>>
  BY <1>4, <1>5, EmptySeq DEF w
<1>. QED  BY <1>6 DEF w

\* A mark is on a letter of the list.
LEMMA ClosedHasLetter ==
  ASSUME NEW im, NEW s, s \in Seq(On(im, AppendIds(s))), s # <<>>
  PROVE  AppendIds(s) # {}
<1>. DEFINE A == AppendIds(s)
<1>1. s[1] \in On(im, A)
  BY LastIn, ElementOfSeq, LenProperties
<1>. HIDE DEF A
<1>2. A # {}
  BY <1>1 DEF On
<1>. QED  BY <1>2 DEF A

\* Where two letters are seen, one is left when one goes.
LEMMA TwoLetters ==
  ASSUME NEW im, NEW A, NEW s \in Seq(On(im, A)), Distinct(s), Len(Flatten(s)) \notin {0, 1}, NEW id
  PROVE  \E a \in AppendIds(s) : a # id
<1>. DEFINE v == Sel(s, Appended)
            m == Len(v)
<1>1. v \in Seq(On(im, A)) /\ m \in Nat /\ Len(Flatten(s)) = m
  BY FlattenOf
<1>2. s \in Seq(Transformation)
  BY OnIsTransformation
<1>3. PICK p \in [1 .. m -> 1 .. Len(s)] :
        /\ \A j \in 1 .. m : v[j] = s[p[j]] /\ s[p[j]] \in Appended
        /\ \A j, k \in 1 .. m : j < k => p[j] < p[k]
  BY <1>2, SelPlaces
<1>. HIDE DEF v, m
<1>4. 1 \in 1 .. m /\ 2 \in 1 .. m
  BY <1>1
<1>5. p[1] < p[2] /\ p[1] \in 1 .. Len(s) /\ p[2] \in 1 .. Len(s)
  BY <1>3, <1>4
<1>6. s[p[1]].id # s[p[2]].id
  BY <1>2, <1>5, LenProperties DEF Distinct
<1>7. \A i \in {1, 2} : s[p[i]].kind = "append"
  BY <1>3, <1>4 DEF Appended
<1>8. s[p[1]].id \in AppendIds(s) /\ s[p[2]].id \in AppendIds(s)
  BY <1>2, <1>5, <1>7, AppendIdsOf
<1>. QED  BY <1>6, <1>8

\* restore_last_word(false): the keys of the word, as they were typed, are
\* what is shown.
KeyTexts(K) == {ch \in Char : ch[1] \in K /\ ch = PlainChar(ch[1], ch[3])}

LEMMA RetypedFlat ==
  ASSUME NEW im, NEW K \in SUBSET (Symbols \ {NoKey}), NEW keys \in Seq(KeyTexts(K)), NEW n \in Ids
  PROVE  /\ Retyped(keys, n) \in Seq(On(im, Ids))
         /\ \A i \in 1 .. Len(keys) : Retyped(keys, n)[i].key = keys[i][1]
         /\ Len(Retyped(keys, n)) = Len(keys)
         /\ Flatten(Retyped(keys, n)) = keys
<1>. DEFINE T == On(im, Ids)
            s == Retyped(keys, n)
            m == Len(keys)
<1>1. m \in Nat /\ DOMAIN keys = 1 .. m /\ \A i \in 1 .. m : keys[i] \in KeyTexts(K)
  BY LenProperties, ElementOfSeq
<1>2. ASSUME NEW i \in 1 .. m
      PROVE  /\ s[i] \in LettersIn(im, Ids) /\ s[i] = Appending(keys[i][1], keys[i][3], n + i)
             /\ s[i].key = keys[i][1] /\ s[i].on = keys[i][1] /\ s[i].upper = keys[i][3]
             /\ s[i].target = 0
  <2>1. s[i] = Appending(keys[i][1], keys[i][3], n + i)
    BY <1>1 DEF Retyped
  <2>2. keys[i][1] \in Symbols /\ keys[i][1] # NoKey /\ keys[i][3] \in BOOLEAN
    BY <1>1 DEF KeyTexts, Char
  <2>. DEFINE k == n + i
              c == keys[i][1]
              u == keys[i][3]
              x == Appending(c, u, k)
  <2>3. k \in Ids /\ c \in Symbols /\ c # NoKey /\ u \in BOOLEAN
    BY <1>1, <2>2 DEF Ids
  <2>. HIDE DEF k, c, u
  <2>4. /\ x \in LettersIn(im, Ids) /\ x.key = c /\ x.upper = u
        /\ x.on = c /\ x.target = 0
    BY <2>3, AppendingIs
  <2>5. s[i] = x
    BY <2>1 DEF k, c, u
  <2>. HIDE DEF x
  <2>. QED  BY <2>1, <2>4, <2>5 DEF c, u
<1>3. \A i \in 1 .. m : s[i] \in T /\ s[i] \in Appended
  BY <1>2 DEF LettersIn
<1>4. s \in Seq(T) /\ Len(s) = m
  <2>1. s = [i \in 1 .. m |-> s[i]]
    BY <1>1 DEF Retyped
  <2>. HIDE DEF s, T
  <2>2. s \in [1 .. m -> T]
    BY <2>1, <1>3
  <2>. QED  BY <1>1, <2>2, FunctionIsSeq
<1>5. Sel(s, Appended) = s
  <2>. HIDE DEF s, T
  <2>. QED  BY <1>3, <1>4, SelAll
<1>6. Flatten(s) \in Seq(Char) /\ Len(Flatten(s)) = m
      /\ \A i \in 1 .. m : Flatten(s)[i] = Rendered(s, s[i])
  <2>. HIDE DEF s, m
  <2>. QED  BY <1>4, <1>5, FlattenOf
<1>7. ASSUME NEW i \in 1 .. m
      PROVE  Flatten(s)[i] = keys[i]
  <2>1. s \in Seq(Transformation)
    BY <1>4, OnIsTransformation
  <2>2. \A j \in 1 .. Len(s) : s[j] \notin EffectsOn(s[i].id)
    BY <1>3, <1>4 DEF EffectsOn, Appended
  <2>3. Sel(s, EffectsOn(s[i].id)) = <<>>
    <3>. HIDE DEF s
    <3>. QED  BY <2>1, <2>2, SelEmpty
  <2>4. s[i] \in T /\ s[i].kind = "append"
    BY <1>3 DEF Appended
  <2>5. Rendered(s, s[i]) = PlainChar(s[i].on, s[i].upper)
    <3>. DEFINE t == s[i]
    <3>1. t \in On(im, Ids) /\ t.kind = "append" /\ Sel(s, EffectsOn(t.id)) = <<>>
      BY <2>3, <2>4
    <3>. HIDE DEF s, t
    <3>2. Rendered(s, t) = PlainChar(t.on, t.upper)
      BY <2>1, <3>1, RenderedLooks
    <3>. QED  BY <3>2 DEF t
  <2>6. PlainChar(s[i].on, s[i].upper) = keys[i]
    BY <1>1, <1>2 DEF KeyTexts
  <2>. QED  BY <1>6, <2>5, <2>6
<1>8. keys \in Seq(Char)
  <2>1. \A i \in 1 .. m : keys[i] \in Char
    BY <1>1 DEF KeyTexts
  <2>. QED  BY <2>1, SeqOver
<1>9. Flatten(s) = keys
  <2>. DEFINE f == Flatten(s)
  <2>1. f \in Seq(Char) /\ Len(f) = Len(keys) /\ \A i \in 1 .. Len(f) : f[i] = keys[i]
    BY <1>6, <1>7
  <2>. HIDE DEF f
  <2>2. f = keys
    BY <1>8, <2>1, SeqEqual
  <2>. QED  BY <2>2 DEF f
<1>. QED  BY <1>2, <1>4, <1>9

\* The keys of a list, as characters.
LEMMA TypedTexts ==
  ASSUME NEW s \in Seq(Transformation), NEW K, OnlyKeys(s, K)
  PROVE  Typed(s) \in Seq(KeyTexts(K))
<1>1. Typed(s) \in Seq(Char)
  BY TypedKeys
<1>2. \A i \in 1 .. Len(s) : s[i].key \in Symbols /\ s[i].upper \in BOOLEAN
  <2>1. \A i \in 1 .. Len(s) : s[i] \in Transformation
    BY ElementOfSeq
  <2>. QED  BY <2>1 DEF TransformationFields, Transformation
<1>3. ASSUME NEW j \in 1 .. Len(Typed(s))
      PROVE  Typed(s)[j] \in KeyTexts(K)
  <2>1. PICK i \in 1 .. Len(s) : s[i].key # NoKey /\ Typed(s)[j] = PlainChar(s[i].key, s[i].upper)
    BY TypedHas
  <2>2. s[i].key \in K
    BY <2>1 DEF OnlyKeys
  <2>. QED  BY <2>1, <2>2, <1>2 DEF KeyTexts, PlainChar, Char, None
<1>. DEFINE w == Typed(s)
            T == KeyTexts(K)
<1>. HIDE DEF w, T
<1>4. w \in Seq(T)
  BY <1>1, <1>3, SeqOver DEF w, T
<1>. QED  BY <1>4 DEF w, T

-----------------------------------------------------------------------------
(***************************************************************************)
(* One word, whatever was typed and taken back.                            *)
(***************************************************************************)
\* The composition of a word: every mark and tone is on a letter that is still
\* there, no two transformations have one number, and all keys are of the kind
\* that can be composed.
Sound(im, s) ==
  /\ AppendIds(s) \subseteq Ids
  /\ s \in Seq(On(im, AppendIds(s))) /\ Distinct(s)
  /\ OnlyKeys(s, Composable(im))

LEMMA SoundIs ==
  ASSUME NEW im, NEW s, Sound(im, s)
  PROVE  /\ s \in Seq(Transformation) /\ AppendIds(s) \in SUBSET Ids /\ NoKey \notin Composable(im)
<1>1. s \in Seq(On(im, AppendIds(s)))
  BY DEF Sound
<1>2. s \in Seq(Transformation)
  BY <1>1, OnIsTransformation
<1>3. AppendIds(s) \in SUBSET Ids
  BY DEF Sound
<1>6. NoKey \notin Composable(im)
  BY DEF Composable, NoKey
<1>. QED  BY <1>2, <1>3, <1>6

\* process_key: whichever rule a key takes, the word it leaves is sound, no
\* letter is gone, and the key is remembered behind the others; only a key that
\* appends a letter of its own may leave no trace.
THEOREM KeyIsAdded ==
  ASSUME NEW im, MethodOK(im), NEW s, Sound(im, s), NEW k \in Composable(im), NEW upper \in BOOLEAN,
         NEW r, r = ProcessKey(im, s, k, upper)
  PROVE  /\ Sound(im, r) /\ AppendIds(s) \subseteq AppendIds(r)
         /\ \/ Typed(r) = Typed(s) \o <<PlainChar(k, upper)>>
            \/ k \in im.appending /\ Typed(r) = Typed(s)
<1>. DEFINE A == AppendIds(s)
            K == Composable(im)
<1>1. /\ A \in SUBSET Ids /\ s \in Seq(On(im, A)) /\ Distinct(s) /\ OnlyKeys(s, K)
      /\ s \in Seq(Transformation) /\ NoKey \notin K
  BY SoundIs DEF Sound
<1>2. k \in Symbols /\ k # NoKey
  BY DEF Composable
<1>3. Grows(im, A, s, r, k, upper)
  <2>. HIDE DEF A
  <2>. QED  BY <1>1, <1>2, ProcessKeyGrows
<1>4. PICK new, B :
        /\ Remembers(im, new, k, upper) /\ B = A \cup AppendIds(new) /\ B \in SUBSET Ids
        /\ r \in Seq(On(im, B)) /\ new \in Seq(Transformation)
        /\ Distinct(r) /\ AppendIds(r) = AppendIds(s) \cup AppendIds(new)
        /\ Typed(r) = Typed(s) \o Typed(new)
  BY <1>3 DEF Grows
<1>5. r \in Seq(On(im, AppendIds(r))) /\ AppendIds(s) \subseteq AppendIds(r)
  BY <1>4
<1>8. AppendIds(r) \subseteq Ids
  BY <1>4
<1>6. OnlyKeys(r, K)
  <2>. HIDE DEF A, K
  <2>0. r \in Seq(Transformation)
    BY <1>4, OnIsTransformation
  <2>1. OnlyKeys(new, {k})
    BY <1>2, <1>4, RemembersOnly
  <2>2. OnlyKeys(new, K)
    BY <2>1 DEF OnlyKeys, K
  <2>3. OnlyKeys(s \o new, K)
    BY <1>1, <1>4, <2>2, OnlyKeysConcat
  <2>4. s \o new \in Seq(Transformation)
    BY <1>1, <1>4, ConcatProperties
  <2>5. Typed(s \o new) = Typed(s) \o Typed(new)
    BY <1>1, <1>4, TypedConcat
  <2>6. \A j \in 1 .. Len(Typed(r)) : Typed(r)[j][1] \in K
    BY <1>1, <1>4, <2>3, <2>4, <2>5, OnlyKeysTyped
  <2>. QED  BY <1>1, <2>0, <2>6, OnlyKeysTyped
<1>7. \/ Typed(r) = Typed(s) \o <<PlainChar(k, upper)>>
      \/ k \in im.appending /\ Typed(r) = Typed(s)
  <2>1. CASE Typed(new) = <<PlainChar(k, upper)>>
    BY <1>4, <2>1
  <2>2. CASE k \in im.appending /\ Typed(new) = <<>>
    <3>1. Typed(s) \in Seq(Char)
      BY <1>1, TypedKeys
    <3>. DEFINE w == Typed(s)
    <3>. HIDE DEF w
    <3>2. w \o <<>> = w
      BY <3>1, ConcatEmptySeq DEF w
    <3>. QED  BY <1>4, <2>2, <3>2 DEF w
  <2>. QED  BY <1>4, <2>1, <2>2 DEF Remembers, Keys
<1>. QED  BY <1>4, <1>5, <1>6, <1>7, <1>8 DEF Sound

\* remove_last_char: one letter goes, with every mark that was on it, and what
\* is left is a word again.
THEOREM LetterIsTaken ==
  ASSUME NEW im, MethodOK(im), NEW s, Sound(im, s), NEW r, r = RemoveLastChar(im, s, TRUE)
  PROVE  /\ Sound(im, r)
         /\ AppendIds(s) # {} => \E id \in AppendIds(s) : AppendIds(r) = AppendIds(s) \ {id}
<1>. DEFINE A == AppendIds(s)
            K == Composable(im)
<1>1. /\ A \in SUBSET Ids /\ s \in Seq(On(im, A)) /\ Distinct(s) /\ OnlyKeys(s, K) /\ NoKey \notin K
  BY SoundIs DEF Sound
<1>. HIDE DEF K
<1>2. CASE LastAppended(s) = 0
  <2>1. r = s /\ AppendIds(s) = {}
    BY <1>1, <1>2, NothingToRemove
  <2>. QED  BY <2>1
<1>3. CASE LastAppended(s) # 0
  <2>1. WordStart(s, im.keys) = 1
    BY <1>1, WholeWord DEF K
  <2>3. A = AppendIds(s)
    OBVIOUS
  <2>. HIDE DEF A
  <2>2. Shrinks(im, A, s, r) /\ r \in Seq(On(im, AppendIds(r)))
    BY <1>1, <1>3, <2>1, <2>3, RemoveShrinks
  <2>4. PICK id \in AppendIds(s) : Lacks(im, A, s, id, r)
    BY <2>2 DEF Shrinks
  <2>5. OnlyKeys(r, K) /\ Distinct(r) /\ AppendIds(r) = AppendIds(s) \ {id}
    BY <1>1, <2>4 DEF Lacks
  <2>6. AppendIds(r) \subseteq Ids
    BY <1>1, <2>3, <2>5
  <2>. QED  BY <2>2, <2>5, <2>6 DEF Sound, K
<1>. QED  BY <1>2, <1>3

\* Whatever is typed and taken back from nothing on, key by key, the word is
\* sound at every moment.
THEOREM AnyWordIsSound ==
  ASSUME NEW im, MethodOK(im), NEW w, w[0] = <<>>,
         \A i \in Nat : \/ \E k \in Composable(im), upper \in BOOLEAN : w[i + 1] = ProcessKey(im, w[i], k, upper)
                        \/ w[i + 1] = RemoveLastChar(im, w[i], TRUE)
  PROVE  \A i \in Nat : Sound(im, w[i])
<1>. DEFINE S == {i \in Nat : Sound(im, w[i])}
<1>1. 0 \in S
  <2>1. <<>> \in Seq(On(im, AppendIds(<<>>))) /\ Len(<<>>) = 0
    OBVIOUS
  <2>3. AppendIds(<<>>) = {}
    BY DEF AppendIds
  <2>2. Sound(im, <<>>)
    BY <2>1, <2>3 DEF Sound, Distinct, OnlyKeys
  <2>. QED  BY <2>2
<1>2. ASSUME NEW i \in Nat, Sound(im, w[i])
      PROVE  Sound(im, w[i + 1])
  <2>1. CASE \E k \in Composable(im), upper \in BOOLEAN : w[i + 1] = ProcessKey(im, w[i], k, upper)
    BY <1>2, <2>1, KeyIsAdded
  <2>2. CASE w[i + 1] = RemoveLastChar(im, w[i], TRUE)
    BY <1>2, <2>2, LetterIsTaken
  <2>. QED  BY <2>1, <2>2
<1>3. \A i \in Nat : i \in S => i + 1 \in S
  BY <1>2
<1>4. \A i \in Nat : i \in S
  <2>. HIDE DEF S
  <2>. QED  BY <1>1, <1>3, Induction
<1>. QED  BY <1>4

-----------------------------------------------------------------------------
(***************************************************************************)
(* The tone of a word, moved, is where the word it leaves wants it. Which  *)
(* vowel that is depends on the letters and on the horns and hats on them, *)
(* never on the tones.                                                     *)
(***************************************************************************)
\* A sequence that is not empty is one of its length less one, and an element.
LEMMA LastApart ==
  ASSUME NEW S, NEW s \in Seq(S), NEW n \in Nat, Len(s) = n + 1
  PROVE  \E b \in Seq(S), x \in S : s = Append(b, x) /\ Len(b) = n
<1>. DEFINE b == SubSeq(s, 1, n)
            x == s[n + 1]
<1>1. n + 1 \in 1 .. Len(s) /\ 1 \in 1 .. Len(s) /\ n + 1 - 1 = n /\ n \in 0 .. Len(s) /\ 1 \in 1 .. Len(s) + 1
  OBVIOUS
<1>2. b \in Seq(S) /\ Len(b) = n
  <2>1. b \in Seq(S) /\ Len(b) = IF 1 <= n THEN n - 1 + 1 ELSE 0
    BY <1>1, SubSeqType
  <2>. QED  BY <2>1
<1>3. x \in S
  BY <1>1, ElementOfSeq
<1>4. s = b \o <<x>>
  <2>1. n + 1 \in 1 .. Len(s)
    BY <1>1
  <2>2. SubSeq(s, 1, n + 1) = SubSeq(s, 1, n + 1 - 1) \o <<s[n + 1]>>
    BY <1>1, SubSeqRecursiveSecond
  <2>3. SubSeq(s, 1, Len(s)) = s
    BY SubSeqFull
  <2>. QED  BY <1>1, <2>2, <2>3
<1>. HIDE DEF b, x
<1>5. Append(b, x) = b \o <<x>>
  BY <1>2, <1>3, AppendIsConcat
<1>. QED  BY <1>2, <1>3, <1>4, <1>5

\* A filter of a filter is one filter.
LEMMA SelSel ==
  ASSUME NEW S, NEW s \in Seq(S), NEW P, NEW Q
  PROVE  Sel(Sel(s, P), Q) = Sel(s, P \cap Q)
<1>. DEFINE Twice(b) == Sel(Sel(b, P), Q) = Sel(b, P \cap Q)
            G == {n \in Nat : \A b \in Seq(S) : Len(b) = n => Twice(b)}
<1>1. 0 \in G
  <2>1. \A b \in Seq(S) : Len(b) = 0 => b = <<>>
    BY EmptySeq
  <2>2. Twice(<<>>)
    BY SelSingle
  <2>. HIDE DEF Twice
  <2>. QED  BY <2>1, <2>2
<1>2. ASSUME NEW n \in Nat, n \in G
      PROVE  n + 1 \in G
  <2>1. SUFFICES ASSUME NEW c \in Seq(S), Len(c) = n + 1
                 PROVE  Twice(c)
    <3>. HIDE DEF Twice
    <3>. QED  OBVIOUS
  <2>2. PICK b \in Seq(S), x \in S : c = Append(b, x) /\ Len(b) = n
    BY <2>1, LastApart
  <2>3. Twice(b)
    BY <1>2, <2>2
  <2>4. /\ Sel(c, P) = IF x \in P THEN Append(Sel(b, P), x) ELSE Sel(b, P)
        /\ Sel(c, P \cap Q) = IF x \in P \cap Q THEN Append(Sel(b, P \cap Q), x) ELSE Sel(b, P \cap Q)
    BY <2>2, SelAppend
  <2>5. Sel(b, P) \in Seq(S)
    BY SelType
  <2>6. Sel(Append(Sel(b, P), x), Q) = IF x \in Q THEN Append(Sel(Sel(b, P), Q), x) ELSE Sel(Sel(b, P), Q)
    BY <2>5, SelAppend
  <2>7. Sel(Sel(c, P), Q) = Sel(c, P \cap Q)
    <3>1. Sel(Sel(b, P), Q) = Sel(b, P \cap Q)
      BY <2>3
    <3>. DEFINE u == Sel(b, P)
                v == Sel(b, P \cap Q)
                w == Sel(c, P \cap Q)
    <3>2. w = IF x \in P \cap Q THEN Append(v, x) ELSE v
      BY <2>4
    <3>3. Sel(u, Q) = v
      BY <3>1
    <3>4. Sel(c, P) = IF x \in P THEN Append(u, x) ELSE u
      BY <2>4
    <3>5. Sel(Append(u, x), Q) = IF x \in Q THEN Append(v, x) ELSE v
      BY <2>6, <3>3
    <3>. HIDE DEF u, v, w
    <3>6. CASE x \in P
      <4>1. Sel(c, P) = Append(u, x) /\ (x \in P \cap Q <=> x \in Q)
        BY <3>4, <3>6
      <4>. QED  BY <4>1, <3>2, <3>5 DEF w
    <3>7. CASE x \notin P
      <4>1. Sel(c, P) = u /\ w = v
        BY <3>2, <3>4, <3>7
      <4>. QED  BY <4>1, <3>3 DEF w
    <3>. QED  BY <3>6, <3>7
  <2>. QED  BY <2>7
<1>3. \A n \in Nat : n \in G
  <2>. HIDE DEF G
  <2>. QED  BY <1>1, <1>2, Induction
<1>4. Len(s) \in Nat
  BY LenProperties
<1>. HIDE DEF Twice
<1>5. Twice(s)
  BY <1>3, <1>4
<1>. QED  BY <1>5 DEF Twice

\* The last element of a kind is the last of those a filter returns.
LEMMA LastOfSel ==
  ASSUME NEW S, NEW s \in Seq(S), NEW P
  PROVE  /\ LastOf(s, P) = 0 <=> Sel(s, P) = <<>>
         /\ LastOf(s, P) # 0 => s[LastOf(s, P)] = Sel(s, P)[Len(Sel(s, P))]
<1>. DEFINE m == LastOf(s, P)
            c == Sel(s, P)
            k == Len(c)
<1>1. /\ m = 0 \/ (m \in 1 .. Len(s) /\ s[m] \in P)
      /\ \A i \in 1 .. Len(s) : s[i] \in P => i <= m
  BY LastPlace
<1>2. c = <<>> <=> \A i \in 1 .. Len(s) : s[i] \notin P
  BY SelEmpty
<1>3. PICK p \in [1 .. Len(c) -> 1 .. Len(s)] :
           /\ \A j \in 1 .. Len(c) : c[j] = s[p[j]] /\ s[p[j]] \in P
           /\ \A i, j \in 1 .. Len(c) : i < j => p[i] < p[j]
           /\ \A i \in 1 .. Len(s) : s[i] \in P => \E j \in 1 .. Len(c) : p[j] = i
  BY SelPlaces
<1>4. Len(c) \in Nat /\ Len(s) \in Nat
  BY SelType, LenProperties
<1>. HIDE DEF m, c
<1>5. m = 0 <=> c = <<>>
  BY <1>1, <1>2, <1>4
<1>6. ASSUME m # 0
      PROVE  s[m] = c[Len(c)]
  <2>1. PICK j \in 1 .. Len(c) : p[j] = m
    BY <1>1, <1>3, <1>6
  <2>2. Len(c) \in 1 .. Len(c) /\ j \in Nat
    BY <2>1, <1>4
  <2>3. p[Len(c)] \in 1 .. Len(s) /\ s[p[Len(c)]] \in P
    BY <2>2, <1>3
  <2>4. p[Len(c)] <= m
    BY <2>3, <1>1
  <2>5. ~(j < Len(c))
    <3>1. j < Len(c) => p[j] < p[Len(c)]
      BY <2>2, <1>3
    <3>2. m \in Nat /\ p[Len(c)] \in Nat
      BY <1>1, <1>4, <2>3
    <3>. QED  BY <3>1, <3>2, <2>1, <2>4
  <2>6. j = Len(c)
    BY <2>2, <2>5, <1>4
  <2>. QED  BY <2>1, <2>6, <1>3
<1>. QED  BY <1>5, <1>6 DEF m, c

\* What is put behind each letter of l.
EffectsOfEach(s, l) == [i \in 1 .. Len(l) |-> Sel(s, EffectsOn(l[i].id))]
EffectsAgree(A, s, r, P) == \A id \in A : Sel(r, EffectsOn(id) \cap P) = Sel(s, EffectsOn(id) \cap P)

\* The letters of a part, and filter by filter the marks on each.
LEMMA EffectsBehind ==
  ASSUME NEW im, NEW A \in SUBSET Ids, NEW s \in Seq(On(im, A)), NEW l \in Seq(LettersIn(im, A))
  PROVE  /\ WithEffects(s, l) = l \o FlattenSeq(EffectsOfEach(s, l))
         /\ EffectsOfEach(s, l) \in Seq(Seq(On(im, A))) /\ Len(EffectsOfEach(s, l)) = Len(l)
<1>. DEFINE F(i) == Filtered(s, LAMBDA t : t.target = l[i].id)
            g == [i \in DOMAIN l |-> F(i)]
            f == [i \in 1 .. Len(l) |-> Sel(s, EffectsOn(l[i].id))]
<1>1. /\ DOMAIN l = 1 .. Len(l) /\ Len(l) \in Nat
      /\ \A i \in 1 .. Len(l) : l[i] \in LettersIn(im, A)
  BY LenProperties, ElementOfSeq
<1>2. ASSUME NEW i \in 1 .. Len(l)
      PROVE  F(i) = Sel(s, EffectsOn(l[i].id)) /\ Sel(s, EffectsOn(l[i].id)) \in Seq(On(im, A))
  <2>. DEFINE id == l[i].id
  <2>1. id # 0
    BY <1>1 DEF LettersIn, On, Appended, Ids
  <2>. HIDE DEF id
  <2>2. DOMAIN s = 1 .. Len(s) /\ \A j \in 1 .. Len(s) : s[j] \in On(im, A)
    BY LenProperties, ElementOfSeq
  <2>3. {j \in DOMAIN s : s[j].target = id} = {j \in DOMAIN s : s[j] \in EffectsOn(id)}
    BY <2>1, <2>2 DEF EffectsOn, On, Letter
  <2>4. F(i) = Sel(s, EffectsOn(id))
    BY <2>3 DEF Filtered, Sel, id
  <2>5. Sel(s, EffectsOn(id)) \in Seq(On(im, A))
    BY SelType
  <2>. QED  BY <2>4, <2>5 DEF id
<1>. HIDE DEF F
<1>3. g = f
  BY <1>1, <1>2
<1>4. f \in Seq(Seq(On(im, A))) /\ Len(f) = Len(l)
  <2>1. f \in [1 .. Len(l) -> Seq(On(im, A))]
    BY <1>2
  <2>2. DOMAIN f = 1 .. Len(l)
    OBVIOUS
  <2>. HIDE DEF f
  <2>. QED  BY <2>1, <1>1, FunctionIsSeq
<1>5. WithEffects(s, l) = l \o FlattenSeq(g)
  BY DEF WithEffects, F
<1>. HIDE DEF f, g
<1>6. WithEffects(s, l) = l \o FlattenSeq(f) /\ f \in Seq(Seq(On(im, A))) /\ Len(f) = Len(l)
  BY <1>3, <1>4, <1>5
<1>7. f = EffectsOfEach(s, l)
  BY DEF f, EffectsOfEach
<1>. HIDE DEF f
<1>. QED  BY <1>6, <1>7

LEMMA EffectsAlike ==
  ASSUME NEW im, NEW A \in SUBSET Ids, NEW s \in Seq(On(im, A)), NEW r \in Seq(On(im, A)),
         NEW l \in Seq(LettersIn(im, A)), NEW P, EffectsAgree(A, s, r, P)
  PROVE  Sel(WithEffects(r, l), P) = Sel(WithEffects(s, l), P)
<1>. DEFINE f == EffectsOfEach(s, l)
            g == EffectsOfEach(r, l)
            S == On(im, A)
<1>. HIDE DEF f, g, S
<1>1. WithEffects(s, l) = l \o FlattenSeq(f) /\ f \in Seq(Seq(S)) /\ Len(f) = Len(l)
  BY EffectsBehind DEF f, S
<1>2. WithEffects(r, l) = l \o FlattenSeq(g) /\ g \in Seq(Seq(S)) /\ Len(g) = Len(l)
  BY EffectsBehind DEF g, S
<1>3. ASSUME NEW i \in 1 .. Len(l)
      PROVE  Sel(f[i], P) = Sel(g[i], P)
  <2>. DEFINE id == l[i].id
  <2>1. id \in A
    BY ElementOfSeq, LetterId
  <2>2. f[i] = Sel(s, EffectsOn(id)) /\ g[i] = Sel(r, EffectsOn(id))
    BY DEF f, g, EffectsOfEach
  <2>. HIDE DEF id
  <2>3. Sel(Sel(s, EffectsOn(id)), P) = Sel(s, EffectsOn(id) \cap P)
    BY SelSel
  <2>4. Sel(Sel(r, EffectsOn(id)), P) = Sel(r, EffectsOn(id) \cap P)
    BY SelSel
  <2>. QED  BY <2>1, <2>2, <2>3, <2>4 DEF EffectsAgree
<1>4. Sel(FlattenSeq(f), P) = Sel(FlattenSeq(g), P)
  BY <1>1, <1>2, <1>3, SelFlatten
<1>5. l \in Seq(S)
  <2>1. LettersIn(im, A) \subseteq S
    BY DEF LettersIn, S
  <2>. QED  BY <2>1, SeqMonotonic
<1>6. FlattenSeq(f) \in Seq(S) /\ FlattenSeq(g) \in Seq(S)
  BY <1>1, <1>2, FlattenSeqType
<1>. DEFINE u == FlattenSeq(f)
            v == FlattenSeq(g)
<1>. HIDE DEF u, v
<1>7. u \in Seq(S) /\ v \in Seq(S)
  BY <1>6 DEF u, v
<1>8. Sel(l \o u, P) = Sel(l, P) \o Sel(u, P)
  BY <1>5, <1>7, SelConcat
<1>9. Sel(l \o v, P) = Sel(l, P) \o Sel(v, P)
  BY <1>5, <1>7, SelConcat
<1>. QED  BY <1>1, <1>2, <1>4, <1>8, <1>9 DEF u, v

LEMMA NoLetterNoEffects ==
  ASSUME NEW im, NEW A \in SUBSET Ids, NEW s \in Seq(On(im, A)), NEW l \in Seq(LettersIn(im, A))
  PROVE  WithEffects(s, l) = <<>> <=> l = <<>>
<1>1. Sel(WithEffects(s, l), Appended) = l /\ (l = <<>> => WithEffects(s, l) = <<>>)
  BY WithEffectsOf
<1>2. Sel(<<>>, Appended) = <<>>
  BY SelSingle
<1>. QED  BY <1>1, <1>2

\* The vowel for the tone is found by the letters, and the horns and hats.
HornsAndHats == {t \in Transformation : t.gives \in {"o+", "e^"}}

SameLetters(A, s, r) ==
  /\ Sel(r, Appended) = Sel(s, Appended)
  /\ EffectsAgree(A, s, r, HornsAndHats)

LEMMA SameVowel ==
  ASSUME NEW im, NEW A \in SUBSET Ids, NEW s \in Seq(On(im, A)), NEW r \in Seq(On(im, A)), NEW std,
         SameLetters(A, s, r)
  PROVE  /\ FindToneTarget(Split(r), std) = FindToneTarget(Split(s), std)
         /\ Split(r).vo = <<>> <=> Split(s).vo = <<>>
<1>. DEFINE L == LettersIn(im, A)
            q == SplitLetters(Sel(s, Appended))
            Last1(x) == SelectLastInSeq(x, LAMBDA t : t.gives \in {"o+", "e^"})
<1>0. /\ Sel(r, Appended) = Sel(s, Appended)
      /\ EffectsAgree(A, s, r, HornsAndHats)
  BY DEF SameLetters
<1>1. q.fc \in Seq(L) /\ q.vo \in Seq(L) /\ q.lc \in Seq(L)
  <2>. DEFINE v == Sel(s, Appended)
  <2>1. v \in Seq(L)
    BY FilterLetters
  <2>. HIDE DEF v, L
  <2>2. SplitLetters(v).fc \in Seq(L) /\ SplitLetters(v).vo \in Seq(L) /\ SplitLetters(v).lc \in Seq(L)
    BY <2>1, SplitLettersType
  <2>. QED  BY <2>2 DEF v
<1>2. Split(s) = TakeEffects(s, q) /\ Split(r) = TakeEffects(r, q)
  BY <1>0, FilterLetters DEF Split
<1>. HIDE DEF q
<1>. DEFINE o == q.vo
            c == q.lc
<1>3. /\ Split(s).vo = WithEffects(s, o) /\ Split(r).vo = WithEffects(r, o)
      /\ Split(s).lc = WithEffects(s, c) /\ Split(r).lc = WithEffects(r, c)
  BY <1>2 DEF TakeEffects
<1>4. o \in Seq(L) /\ c \in Seq(L)
  BY <1>1
<1>. HIDE DEF o, c
<1>5. (Split(r).vo = <<>> <=> Split(s).vo = <<>>) /\ (Split(r).lc = <<>> <=> Split(s).lc = <<>>)
  BY <1>3, <1>4, NoLetterNoEffects
<1>. DEFINE x == Split(s).vo
            y == Split(r).vo
<1>6. AppendedOf(x) = o /\ AppendedOf(y) = o /\ x \in Seq(On(im, A)) /\ y \in Seq(On(im, A))
  <2>1. \A z \in Seq(On(im, A)) : WithEffects(z, o) \in Seq(On(im, A)) /\ Sel(WithEffects(z, o), Appended) = o
    BY <1>4, WithEffectsOf
  <2>2. x \in Seq(On(im, A)) /\ y \in Seq(On(im, A)) /\ Sel(x, Appended) = o /\ Sel(y, Appended) = o
    BY <1>3, <2>1
  <2>. HIDE DEF x, y
  <2>3. x \in Seq(Transformation) /\ y \in Seq(Transformation)
    BY <2>2, OnIsTransformation
  <2>. QED  BY <2>2, <2>3, FilterAppended
<1>7. Sel(y, HornsAndHats) = Sel(x, HornsAndHats)
  <2>1. Sel(WithEffects(r, o), HornsAndHats) = Sel(WithEffects(s, o), HornsAndHats)
    <3>1. o \in Seq(LettersIn(im, A))
      BY <1>4
    <3>2. EffectsAgree(A, s, r, HornsAndHats)
      BY <1>0
    <3>. HIDE DEF L
    <3>. QED  BY <3>1, <3>2, EffectsAlike
  <2>. QED  BY <1>3, <2>1
<1>. HIDE DEF x, y
<1>8. Last1(x) = LastOf(x, HornsAndHats) /\ Last1(y) = LastOf(y, HornsAndHats)
  <2>1. ASSUME NEW z \in Seq(On(im, A))
        PROVE  Last1(z) = LastOf(z, HornsAndHats)
    <3>1. \A i \in 1 .. Len(z) : z[i] \in Transformation
      BY ElementOfSeq DEF On
    <3>2. {i \in 1 .. Len(z) : z[i].gives \in {"o+", "e^"}} = {i \in 1 .. Len(z) : z[i] \in HornsAndHats}
      BY <3>1 DEF HornsAndHats
    <3>. QED  BY <3>2 DEF SelectLastInSeq, LastOf, MaxOrZero
  <2>. QED  BY <1>6, <2>1
<1>9. /\ Last1(x) = 0 <=> Last1(y) = 0
      /\ Last1(x) # 0 => x[Last1(x)] = y[Last1(y)]
  <2>1. /\ LastOf(x, HornsAndHats) = 0 <=> Sel(x, HornsAndHats) = <<>>
        /\ LastOf(x, HornsAndHats) # 0 => x[LastOf(x, HornsAndHats)] = Sel(x, HornsAndHats)[Len(Sel(x, HornsAndHats))]
    BY <1>6, LastOfSel
  <2>2. /\ LastOf(y, HornsAndHats) = 0 <=> Sel(y, HornsAndHats) = <<>>
        /\ LastOf(y, HornsAndHats) # 0 => y[LastOf(y, HornsAndHats)] = Sel(y, HornsAndHats)[Len(Sel(y, HornsAndHats))]
    BY <1>6, LastOfSel
  <2>. HIDE DEF Last1
  <2>. QED  BY <1>7, <1>8, <2>1, <2>2
<1>10. /\ FindToneTarget(Split(s), std) = ToneVowel(Split(s), o, Last1(x), std)
       /\ FindToneTarget(Split(r), std) = ToneVowel(Split(r), o, Last1(y), std)
  BY <1>6 DEF FindToneTarget, x, y
<1>. HIDE DEF Last1
<1>. DEFINE m == Last1(x)
            k == Last1(y)
<1>11. TonesSecond(Split(s), o, std) <=> TonesSecond(Split(r), o, std)
  BY <1>5 DEF TonesSecond
<1>12. m # 0 => Root(Split(s).vo[m]) = Root(Split(r).vo[k])
  BY <1>9 DEF x, y
<1>13. m = 0 <=> k = 0
  BY <1>9
<1>. HIDE DEF m, k
<1>14. ToneVowel(Split(s), o, m, std) = ToneVowel(Split(r), o, k, std)
  BY <1>11, <1>12, <1>13 DEF ToneVowel
<1>. QED  BY <1>5, <1>10, <1>14 DEF m, k

\* Lists that differ only where the filter takes nothing.
SameWithin(s, t, P) == \A i \in 1 .. Len(s) : s[i] = t[i] \/ (s[i] \notin P /\ t[i] \notin P)

LEMMA SelSame ==
  ASSUME NEW S, NEW s \in Seq(S), NEW t \in Seq(S), Len(s) = Len(t), NEW P, SameWithin(s, t, P)
  PROVE  Sel(t, P) = Sel(s, P)
<1>. DEFINE I == {i \in DOMAIN s : s[i] \in P}
            J == {i \in DOMAIN t : t[i] \in P}
            p == Places(Len(s), I)
<1>1. DOMAIN s = 1 .. Len(s) /\ DOMAIN t = 1 .. Len(s)
  BY LenProperties
<1>2. I = J
  BY <1>1 DEF SameWithin
<1>3. DOMAIN p = 1 .. Len(p) /\ \A j \in 1 .. Len(p) : p[j] \in I
  BY ChosenPlaces
<1>4. Sel(s, P) = [j \in DOMAIN p |-> s[p[j]]]
  BY DEF Sel, Chosen
<1>5. Sel(t, P) = [j \in DOMAIN p |-> t[p[j]]]
  BY <1>2 DEF Sel, Chosen
<1>6. \A i \in I : s[i] = t[i]
  BY <1>1 DEF SameWithin
<1>. HIDE DEF p, I
<1>. QED  BY <1>3, <1>4, <1>5, <1>6

\* A tone moved leaves everything as it was but the tones, and is the last one.
LEMMA ToneMoved ==
  ASSUME NEW im, NEW A \in SUBSET Ids, NEW s \in Seq(On(im, A)), NEW k \in 1 .. Len(s),
         s[k].kind = "tone", NEW a \in A, NEW n \in Nat, s[k].target # a, NEW r, r = MoveTone(s, k, a, n)
  PROVE  /\ \A P : (\A t \in On(im, A) : t.kind = "tone" => t \notin P) => Sel(r, P) = Sel(s, P)
         /\ LastTone(r) \in 1 .. Len(r) /\ r[LastTone(r)].target = a
<1>. DEFINE S == On(im, A)
            t == Moved(s, k, a)
            e == s[k].effect
            x == Trans(VirtualTone(None), a, n)
            y == Trans(VirtualTone(e), a, n + 1)
            w == <<x, y>>
<1>1. r = t \o w
  <2>1. k # 0
    OBVIOUS
  <2>. QED  BY <2>1 DEF MoveTone, Moved
<1>2. s[k] \in S /\ e \in Nat /\ None \in Nat /\ n + 1 \in Nat /\ a # 0
  <2>1. s[k] \in S
    BY ElementOfSeq
  <2>. QED  BY <2>1 DEF On, TransformationFields, Transformation, None, Ids
<1>3. /\ t \in Seq(S) /\ Len(t) = Len(s)
      /\ \A i \in 1 .. Len(s) : t[i].id = s[i].id /\ t[i].kind = s[i].kind
  <2>. HIDE DEF t
  <2>. QED  BY MarkMoved DEF t
<1>4. Len(s) \in Nat /\ DOMAIN s = 1 .. Len(s)
  BY LenProperties
<1>5. \A i \in 1 .. Len(s) : i # k => t[i] = s[i]
  BY <1>4 DEF Moved
<1>6. /\ x \in S /\ y \in S /\ x.kind = "tone" /\ y.kind = "tone" /\ x.target = a /\ y.target = a
  <2>1. /\ VirtualTone(None) \in RuleSet /\ VirtualTone(None).kind = "tone"
        /\ VirtualTone(e) \in RuleSet /\ VirtualTone(e).kind = "tone"
    BY <1>2, VirtualRules
  <2>2. \A v \in RuleSet, m \in Nat : v.kind = "tone" => Trans(v, a, m) \in MarksIn(im, A)
    BY MarkOn
  <2>3. \A v, m : Trans(v, a, m).target = a /\ Trans(v, a, m).kind = v.kind
    BY DEF Trans
  <2>4. MarksIn(im, A) \subseteq S
    BY DEF MarksIn
  <2>5. x \in S
    BY <2>1, <2>2, <2>4
  <2>6. y \in S
    BY <2>1, <2>2, <2>4, <1>2
  <2>. QED  BY <2>1, <2>3, <2>5, <2>6
<1>. HIDE DEF t, x, y
<1>7. w \in Seq(S) /\ Len(w) = 2 /\ w[1] = x /\ w[2] = y
  <2>. HIDE DEF S
  <2>. QED  BY <1>6, Pairs
<1>. HIDE DEF w
<1>8. /\ r \in Seq(S) /\ Len(r) = Len(s) + 2
      /\ \A i \in 1 .. Len(s) + 2 : r[i] = IF i <= Len(s) THEN t[i] ELSE w[i - Len(s)]
  <2>. HIDE DEF S
  <2>. QED  BY <1>1, <1>3, <1>7, ConcatOfTwo
<1>9. ASSUME NEW P, \A u \in S : u.kind = "tone" => u \notin P
      PROVE  Sel(r, P) = Sel(s, P)
  <2>1. Sel(w, P) = <<>>
    <3>1. \A i \in 1 .. Len(w) : i = 1 \/ i = 2
      BY <1>7
    <3>2. \A i \in 1 .. Len(w) : w[i] \notin P
      BY <3>1, <1>6, <1>7, <1>9
    <3>. HIDE DEF S
    <3>. QED  BY <3>2, <1>7, SelEmpty
  <2>2. t[k] \in S /\ t[k] \notin P /\ s[k] \notin P
    <3>1. t[k] \in S
      BY <1>3, ElementOfSeq
    <3>2. t[k].kind = "tone"
      BY <1>3
    <3>. QED  BY <3>1, <3>2, <1>2, <1>9
  <2>3. \A i \in 1 .. Len(s) : s[i] = t[i] \/ (s[i] \notin P /\ t[i] \notin P)
    BY <2>2, <1>5
  <2>12. SameWithin(s, t, P)
    BY <2>3 DEF SameWithin
  <2>. DEFINE c == Sel(t, P)
              d == Sel(s, P)
  <2>11. s \in Seq(S) /\ t \in Seq(S) /\ Len(s) = Len(t)
    BY <1>3
  <2>8. c = d
    <3>. HIDE DEF S
    <3>. QED  BY <2>11, <2>12, SelSame
  <2>6. c \in Seq(S)
    <3>. HIDE DEF S
    <3>. QED  BY <2>11, SelType
  <2>. HIDE DEF c, d
  <2>9. Sel(r, P) = c \o Sel(w, P)
    <3>. HIDE DEF S
    <3>. QED  BY <1>1, <1>3, <1>7, SelConcat DEF c
  <2>10. c \o <<>> = c
    <3>. HIDE DEF S
    <3>. QED  BY <2>6, ConcatEmptySeq
  <2>. QED  BY <2>1, <2>8, <2>9, <2>10 DEF d
<1>10. r[Len(r)] = y /\ Len(r) \in 1 .. Len(r)
  <2>. DEFINE m == Len(s)
  <2>1. m + 2 \in 1 .. m + 2 /\ ~(m + 2 <= m) /\ m + 2 - m = 2
    BY <1>4
  <2>2. r[m + 2] = w[2]
    BY <2>1, <1>8
  <2>. QED  BY <2>1, <2>2, <1>7, <1>8
<1>11. LastTone(r) = Len(r)
  <2>. DEFINE Q == {u \in S : u.kind = "tone" /\ u.target # 0}
  <2>1. \A i \in 1 .. Len(r) : r[i] \in S
    BY <1>8, ElementOfSeq
  <2>2. {i \in 1 .. Len(r) : r[i].kind = "tone" /\ r[i].target # 0} = {i \in 1 .. Len(r) : r[i] \in Q}
    BY <2>1
  <2>3. LastTone(r) = LastOf(r, Q)
    BY <2>2 DEF LastTone, SelectLastInSeq, LastOf, MaxOrZero
  <2>4. r[Len(r)] \in Q
    BY <1>2, <1>6, <1>10
  <2>. HIDE DEF Q, S
  <2>5. /\ LastOf(r, Q) = 0 \/ (LastOf(r, Q) \in 1 .. Len(r) /\ r[LastOf(r, Q)] \in Q)
        /\ \A i \in 1 .. Len(r) : r[i] \in Q => i <= LastOf(r, Q)
    BY <1>8, LastPlace
  <2>6. Len(r) <= LastOf(r, Q) /\ Len(r) \in Nat
    BY <2>4, <2>5, <1>10
  <2>. QED  BY <2>3, <2>5, <2>6, <1>10
<1>. QED  BY <1>6, <1>9, <1>10, <1>11

LEMMA TonesMakeNoLetter ==
  ASSUME NEW im, NEW A, NEW t \in On(im, A), t.kind = "tone"
  PROVE  t \notin Appended /\ \A id : t \notin EffectsOn(id) \cap HornsAndHats
<1>1. t.gives = NoLetter
  BY DEF On, Transformation
<1>2. NoLetter \notin {"o+", "e^"}
  BY Zenon DEF NoLetter
<1>. QED  BY <1>1, <1>2 DEF Appended, HornsAndHats

\* Where the tone of a word should be.
TonePlaced(im, word) ==
  Split(word).vo # <<>> /\ LastTone(word) # 0 /\ IsValid(word, FALSE)
    => word[LastTone(word)].target = FindToneTarget(Split(word), im.std)

\* refresh_last_tone_target puts it there, whether it moves the tone or not.
LEMMA RefreshPlaces ==
  ASSUME NEW im, NEW A \in SUBSET Ids, NEW s \in Seq(On(im, A)), NEW n \in Nat, im.free,
         NEW r, r = RefreshTone(im, s, n)
  PROVE  TonePlaced(im, r)
<1>. DEFINE p == Split(s)
            k == LastTone(s)
            a == FindToneTarget(p, im.std)
<1>1. CASE r = s
  <2>1. SUFFICES ASSUME p.vo # <<>>, k # 0, IsValid(s, FALSE)
                 PROVE  s[k].target = a
    BY <1>1 DEF TonePlaced
  <2>2. r = MoveTone(s, k, a, n)
    BY <2>1 DEF RefreshTone, RefreshIn
  <2>3. SUFFICES ASSUME s[k].target # a
                 PROVE  FALSE
    OBVIOUS
  <2>4. a \in A
    BY <2>1, ValidHasToneTarget
  <2>5. k \in 1 .. Len(s) /\ s[k].kind = "tone"
    BY <2>1, LastToneIs
  <2>. HIDE DEF a, k
  <2>6. LastTone(r) \in 1 .. Len(r) /\ r[LastTone(r)].target = a
    BY <2>2, <2>3, <2>4, <2>5, ToneMoved
  <2>7. LastTone(r) = k
    BY <1>1 DEF k
  <2>. QED  BY <2>3, <2>6, <2>7, <1>1
<1>2. CASE r # s
  <2>1. IsValid(s, FALSE) /\ p.vo # <<>> /\ r = MoveTone(s, k, a, n)
    BY <1>2 DEF RefreshTone, RefreshIn
  <2>2. k # 0 /\ s[k].target # a
    BY <2>1, <1>2 DEF MoveTone
  <2>3. a \in A
    BY <2>1, <2>2, ValidHasToneTarget
  <2>4. k \in 1 .. Len(s) /\ s[k].kind = "tone" /\ s[k] \in On(im, A)
    BY <2>2, LastToneIs
  <2>5. r \in Seq(On(im, A))
    BY RefreshToneIs
  <2>. HIDE DEF a, k
  <2>6. /\ \A P : (\A t \in On(im, A) : t.kind = "tone" => t \notin P) => Sel(r, P) = Sel(s, P)
        /\ r[LastTone(r)].target = a
    BY <2>1, <2>2, <2>3, <2>4, ToneMoved
  <2>7. Sel(r, Appended) = Sel(s, Appended)
    BY <2>6, TonesMakeNoLetter
  <2>8. \A id \in A : Sel(r, EffectsOn(id) \cap HornsAndHats) = Sel(s, EffectsOn(id) \cap HornsAndHats)
    <3>1. ASSUME NEW id \in A
          PROVE  Sel(r, EffectsOn(id) \cap HornsAndHats) = Sel(s, EffectsOn(id) \cap HornsAndHats)
      <4>. DEFINE P == EffectsOn(id) \cap HornsAndHats
      <4>1. \A t \in On(im, A) : t.kind = "tone" => t \notin P
        BY TonesMakeNoLetter
      <4>. HIDE DEF P
      <4>2. Sel(r, P) = Sel(s, P)
        BY <4>1, <2>6
      <4>. QED  BY <4>2 DEF P
    <3>. QED  BY <3>1
  <2>. DEFINE std == im.std
  <2>. HIDE DEF std
  <2>9. FindToneTarget(Split(r), std) = FindToneTarget(Split(s), std)
    <3>. DEFINE S == On(im, A)
    <3>. HIDE DEF S
    <3>1. SameLetters(A, s, r)
      BY <2>7, <2>8 DEF SameLetters, EffectsAgree
    <3>. QED  BY <2>5, <3>1, SameVowel
  <2>. QED  BY <2>6, <2>9 DEF TonePlaced, a, std
<1>. QED  BY <1>1, <1>2

\* What is left of a word, refreshed, has its tone in place.
LEMMA LessPlaces ==
  ASSUME NEW im, im.free, NEW A \in SUBSET Ids, NEW s \in Seq(On(im, A)), Distinct(s), NEW id \in Ids,
         NEW r, r = Refreshed(im, SubSeq(s, 1, 0), Without(SubSeq(s, 1, Len(s)), id))
  PROVE  TonePlaced(im, r)
<1>. DEFINE w == Without(s, id)
            S == On(im, A)
            b == SubSeq(s, 1, 0)
            n == FreshId(b \o w)
<1>1. SubSeq(s, 1, Len(s)) = s
  BY SubSeqFull
<1>2. w \in Seq(S)
  <2>. HIDE DEF w
  <2>1. w = Without(s, id)
    BY DEF w
  <2>. QED  BY <2>1, WithoutIs
<1>3. b = <<>>
  <2>1. b \in Seq(S) /\ Len(b) = 0
    OBVIOUS
  <2>. HIDE DEF b, S
  <2>. QED  BY <2>1, EmptySeq
<1>. HIDE DEF w, b
<1>4. b \o w = w
  <2>. HIDE DEF S
  <2>. QED  BY <1>2, <1>3, ConcatEmptySeq
<1>5. n \in Nat
  <2>1. w \in Seq(Transformation)
    BY <1>2, OnIsTransformation
  <2>. QED  BY <1>4, <2>1, FreshIdIsFresh
<1>6. r = b \o RefreshTone(im, w, n)
  BY <1>1 DEF Refreshed, w, b
<1>. HIDE DEF n
<1>. DEFINE t == RefreshTone(im, w, n)
<1>7. t \in Seq(S)
  BY <1>2, <1>5, RefreshToneIs
<1>8. TonePlaced(im, t)
  <2>. HIDE DEF t
  <2>1. t = RefreshTone(im, w, n)
    BY DEF t
  <2>. QED  BY <1>2, <1>5, <2>1, RefreshPlaces
<1>. HIDE DEF t
<1>9. b \o t = t
  <2>. HIDE DEF S
  <2>. QED  BY <1>3, <1>7, ConcatEmptySeq
<1>. QED  BY <1>6, <1>8, <1>9 DEF t

\* remove_last_char: after a letter is taken away the last tone is on the vowel
\* that the word left wants it on.
THEOREM BackspacePlacesTone ==
  ASSUME NEW im, MethodOK(im), im.free, NEW s, Sound(im, s), AppendIds(s) # {},
         NEW r, r = RemoveLastChar(im, s, TRUE)
  PROVE  LastWord(im, r) = r /\ TonePlaced(im, r)
<1>. DEFINE A == AppendIds(s)
            K == Composable(im)
<1>1. /\ A \in SUBSET Ids /\ s \in Seq(On(im, A)) /\ Distinct(s) /\ OnlyKeys(s, K) /\ NoKey \notin K
  BY SoundIs DEF Sound
<1>2. WordStart(s, im.keys) = 1
  BY <1>1, WholeWord
<1>3. Sound(im, r)
  BY LetterIsTaken
<1>4. LastWord(im, r) = r
  <2>. DEFINE B == AppendIds(r)
  <2>1. B \in SUBSET Ids /\ r \in Seq(On(im, B)) /\ OnlyKeys(r, K)
    BY <1>3, SoundIs DEF Sound
  <2>. HIDE DEF B
  <2>. QED  BY <2>1, WholeWord
<1>. HIDE DEF A, K
<1>5. LastAppended(s) # 0
  BY <1>1, NothingToRemove DEF A
<1>. DEFINE p == LastAppended(s)
            id == s[p].id
<1>6. p \in 1 .. Len(s) /\ s[p] \in LettersIn(im, A)
  BY <1>1, <1>5, LastAppendedOf
<1>7. id \in Ids /\ s[p].key # NoKey
  BY <1>1, <1>6 DEF LettersIn, On, Letter, Appended
<1>8. CanProcessKey(s[p].key, im.keys)
  BY <1>1, <1>6, <1>7 DEF OnlyKeys, K, Composable
<1>10. r = Refreshed(im, SubSeq(s, 1, 0), Without(SubSeq(s, 1, Len(s)), id))
  <2>. DEFINE start == WordStart(s, im.keys)
  <2>1. r = RemoveLetter(im, s, s[p], start, TRUE)
    BY <1>5 DEF RemoveLastChar
  <2>. HIDE DEF start, p
  <2>2. r = Refreshed(im, SubSeq(s, 1, start - 1), Without(SubSeq(s, start, Len(s)), s[p].id))
    BY <1>8, <2>1 DEF RemoveLetter, RestOfWord
  <2>3. start = 1 /\ start - 1 = 0
    BY <1>2 DEF start
  <2>. QED  BY <2>2, <2>3, Zenon
<1>. HIDE DEF id
<1>11. TonePlaced(im, r)
  BY <1>1, <1>7, <1>10, LessPlaces
<1>. QED  BY <1>4, <1>11

\* process_key: the syllable the key was typed into has its last tone on the
\* vowel that it wants it on, whatever the key did.
THEOREM KeyPlacesTone ==
  ASSUME NEW im, MethodOK(im), im.free, NEW s, Sound(im, s), NEW k \in Composable(im), NEW upper \in BOOLEAN,
         NEW r, r = ProcessKey(im, s, k, upper)
  PROVE  \E start \in 1 .. Len(s) + 1 :
           /\ start = SyllableStart(s) /\ IsPrefix(SubSeq(s, 1, start - 1), r)
           /\ TonePlaced(im, SubSeq(r, start, Len(r)))
<1>. DEFINE A == AppendIds(s)
            start == SyllableStart(s)
            b == SubSeq(s, 1, start - 1)
            t == SubSeq(s, start, Len(s))
            n == FreshId(s)
            e == Extended(im, t, k, upper, n)
<1>0. /\ A \in SUBSET Ids /\ s \in Seq(On(im, A)) /\ k # NoKey /\ k \in Symbols
  BY SoundIs DEF Sound, Composable
<1>1. start \in 1 .. Len(s) + 1 /\ Len(s) \in Nat
  BY <1>0, SyllableStartIn, LenProperties
<1>5. r = Refreshed(im, b, e)
  BY DEF ProcessKey, NewComposition, NewSyllable, Composable
<1>15. start = SyllableStart(s)
  OBVIOUS
<1>. HIDE DEF start, A
<1>2. b \in Seq(On(im, A)) /\ t \in Seq(On(im, A)) /\ s = b \o t
  BY <1>0, <1>1, Cut
<1>16. Len(b) = start - 1
  BY <1>0, <1>1, SubSeqType
<1>3. s \in Seq(Transformation) /\ b \in Seq(Transformation) /\ t \in Seq(Transformation)
  BY <1>0, <1>2, OnIsTransformation
<1>4. n \in Ids
  BY <1>3, FreshIdIsFresh DEF Ids
<1>. HIDE DEF b, t
<1>6. PICK new : e = t \o new /\ Batch(im, A, n, new) /\ Remembers(im, new, k, upper)
  <2>. HIDE DEF n
  <2>1. t \in Seq(On(im, A)) /\ A \in SUBSET Ids /\ k \in Symbols /\ k # NoKey /\ n \in Ids
    BY <1>0, <1>2, <1>4
  <2>2. \E new : /\ Extended(im, t, k, upper, n) = t \o new
                 /\ Batch(im, A, n, new)
                 /\ Remembers(im, new, k, upper)
    BY <2>1, ExtendedBatch
  <2>. QED  BY <2>2
<1>. HIDE DEF e
<1>. DEFINE B == A \cup AppendIds(new)
            S == On(im, B)
<1>. HIDE DEF B
<1>17. B = A \cup AppendIds(new)
  BY DEF B
<1>7. new \in Seq(S) /\ B \in SUBSET Ids
  <2>1. Batch(im, A, FreshId(s), new)
    BY <1>6
  <2>2. Distinct(s)
    BY DEF Sound
  <2>. QED  BY <1>0, <2>1, <2>2, <1>17, BatchBehind, Z3
<1>9. b \in Seq(S) /\ t \in Seq(S)
  <2>. DEFINE T == On(im, A)
  <2>1. Seq(T) \subseteq Seq(S)
    <3>1. T \subseteq S
      BY <1>17, OnMore
    <3>. HIDE DEF S, T
    <3>. QED  BY <3>1, SeqMonotonic
  <2>. QED  BY <1>2, <2>1
<1>11. e \in Seq(S)
  <2>. HIDE DEF S
  <2>2. t \o new \in Seq(S)
    BY <1>7, <1>9, ConcatProperties
  <2>. QED  BY <2>2, <1>6
<1>. DEFINE m == FreshId(b \o e)
            w == RefreshTone(im, e, m)
<1>12. m \in Nat
  <2>1. e \in Seq(Transformation)
    BY <1>11, OnIsTransformation
  <2>2. b \o e \in Seq(Transformation)
    BY <1>3, <2>1, ConcatProperties
  <2>. QED  BY <2>2, FreshIdIsFresh
<1>13. r = b \o w
  BY <1>5 DEF Refreshed
<1>. HIDE DEF m
<1>14. w \in Seq(S) /\ TonePlaced(im, w)
  <2>1. w \in Seq(S)
    BY <1>7, <1>11, <1>12, RefreshToneIs
  <2>2. w = RefreshTone(im, e, m)
    OBVIOUS
  <2>. HIDE DEF w
  <2>3. TonePlaced(im, w)
    BY <1>7, <1>11, <1>12, <2>2, RefreshPlaces
  <2>. QED  BY <2>1, <2>3
<1>. HIDE DEF w, S
<1>18. SubSeq(r, start, Len(r)) = w /\ IsPrefix(b, r)
  <2>. DEFINE l == Len(b)
              j == Len(w)
  <2>1. l \in Nat /\ j \in Nat /\ start = l + 1
    BY <1>1, <1>9, <1>14, <1>16, LenProperties
  <2>2. /\ r \in Seq(S) /\ Len(r) = l + j /\ \A i \in 1 .. l + j : r[i] = IF i <= l THEN b[i] ELSE w[i - l]
    BY <1>9, <1>13, <1>14, ConcatProperties
  <2>. DEFINE q == SubSeq(r, start, Len(r))
  <2>3. q \in Seq(S) /\ Len(q) = j /\ \A i \in 1 .. j : q[i] = r[l + i]
    <3>. HIDE DEF l, j
    <3>. DEFINE h == Len(r)
    <3>1. h \in Int /\ start \in Int /\ h - start + 1 = j /\ h = l + j
      BY <2>1, <2>2
    <3>2. \A i \in start .. h : r[i] \in S
      <4>1. \A i \in start .. h : i \in 1 .. Len(r)
        BY <2>1
      <4>. QED  BY <4>1, <2>2, ElementOfSeq
    <3>. HIDE DEF h, q
    <3>3. /\ q \in Seq(S) /\ Len(q) = (IF start <= h THEN h - start + 1 ELSE 0)
          /\ \A i \in 1 .. h - start + 1 : q[i] = r[start + i - 1]
      BY <3>1, <3>2, SubSeqProperties DEF h, q
    <3>4. \A i \in 1 .. j : start + i - 1 = l + i
      BY <2>1
    <3>5. Len(q) = j
      BY <2>1, <3>1, <3>3
    <3>. QED  BY <3>1, <3>3, <3>4, <3>5
  <2>4. \A i \in 1 .. j : q[i] = w[i]
    <3>1. \A i \in 1 .. j : l + i \in 1 .. l + j /\ ~(l + i <= l) /\ l + i - l = i
      BY <2>1
    <3>. HIDE DEF q
    <3>2. \A i \in 1 .. j : r[l + i] = w[i]
      BY <3>1, <2>2
    <3>. QED  BY <3>2, <2>3
  <2>5. q = w
    <3>1. q \in Seq(S) /\ w \in Seq(S) /\ Len(q) = Len(w) /\ \A i \in 1 .. Len(w) : q[i] = w[i]
      BY <1>14, <2>3, <2>4
    <3>. HIDE DEF q
    <3>. QED  BY <3>1, SeqEqual
  <2>6. IsPrefix(b, r)
    BY <1>9, <1>13, <1>14 DEF IsPrefix
  <2>. QED  BY <2>5, <2>6
<1>. QED  BY <1>1, <1>14, <1>15, <1>18 DEF b

(***************************************************************************)
(* Which letter is seen is a matter of the marks on it, never of the       *)
(* tones: a Backspace takes the last letter of the text and changes no     *)
(* other.                                                                  *)
(***************************************************************************)
MarksOn(id) == {t \in EffectsOn(id) : t.kind = "mark"}

\* A tone changes no letter, a mark changes it whatever its tone is.
LEMMA LetterApplied ==
  ASSUME NEW t, NEW id, NEW e \in EffectsOn(id), NEW a, NEW b, a[1] = b[1]
  PROVE  /\ e.kind = "tone" => ApplyTo(t, a, e)[1] = a[1]
         /\ e.kind = "mark" => ApplyTo(t, a, e)[1] = ApplyTo(t, b, e)[1]
<1>1. CASE e.kind = "tone"
  <2>1. ApplyTo(t, a, e) = IF IsVowel(a[1]) THEN <<a[1], e.effect, a[3]>> ELSE a
    BY <1>1 DEF ApplyTo
  <2>. QED  BY <1>1, <2>1
<1>2. CASE e.kind = "mark" /\ e.effect = Raw
  BY <1>2 DEF ApplyTo
<1>3. CASE e.kind = "mark" /\ e.effect # Raw
  <2>1. \A c : ApplyTo(t, c, e) = <<AddMark(c[1], e.effect), c[2], c[3]>>
    BY <1>3 DEF ApplyTo
  <2>2. \A c : ApplyTo(t, c, e)[1] = AddMark(c[1], e.effect)
    BY <2>1
  <2>. QED  BY <1>3, <2>2
<1>. QED  BY <1>1, <1>2, <1>3

\* The effects less the last one.
LEMMA TakesLess ==
  ASSUME NEW t, NEW S, NEW d \in Seq(S), NEW x \in S, NEW f, Takes(t, Append(d, x), f)
  PROVE  /\ Takes(t, d, f) /\ f[Len(d) + 1] = ApplyTo(t, f[Len(d)], x)
         /\ Len(Append(d, x)) = Len(d) + 1 /\ Len(d) \in Nat
<1>. DEFINE e == Append(d, x)
            m == Len(d)
<1>1. m \in Nat /\ Len(e) = m + 1 /\ (\A i \in 1 .. m : e[i] = d[i]) /\ e[m + 1] = x
  BY AppendProperties, LenProperties
<1>2. f[0] = PlainChar(t.on, t.upper) /\ \A i \in 1 .. Len(e) : f[i] = ApplyTo(t, f[i - 1], e[i])
  BY DEF Takes
<1>. HIDE DEF e, m
<1>3. \A i \in 1 .. m : f[i] = ApplyTo(t, f[i - 1], d[i])
  <2>1. \A i \in 1 .. m : i \in 1 .. m + 1
    BY <1>1
  <2>. QED  BY <1>1, <1>2, <2>1
<1>4. f[m + 1] = ApplyTo(t, f[m], x)
  <2>1. m + 1 \in 1 .. m + 1 /\ m + 1 - 1 = m
    BY <1>1
  <2>2. f[m + 1] = ApplyTo(t, f[m + 1 - 1], e[m + 1])
    BY <1>1, <1>2, <2>1
  <2>. QED  BY <1>1, <2>1, <2>2
<1>. QED  BY <1>1, <1>2, <1>3, <1>4 DEF Takes, e, m

\* The letter after some effects is the letter after the marks among them.
SameLetter(t, e, P) ==
  \A f, g : Takes(t, e, f) /\ Takes(t, Sel(e, P), g) => f[Len(e)][1] = g[Len(Sel(e, P))][1]

LEMMA LetterOfMarks ==
  ASSUME NEW t, NEW id, NEW e \in Seq(EffectsOn(id))
  PROVE  SameLetter(t, e, MarksOn(id))
<1>. DEFINE S == EffectsOn(id)
            P == MarksOn(id)
            G == {n \in Nat : \A d \in Seq(S) : Len(d) = n => SameLetter(t, d, P)}
<1>1. 0 \in G
  <2>1. ASSUME NEW d \in Seq(S), Len(d) = 0
        PROVE  SameLetter(t, d, P)
    <3>1. d = <<>> /\ Sel(d, P) = <<>>
      <4>. HIDE DEF S, P
      <4>. QED  BY <2>1, EmptySeq, SelSingle
    <3>2. Len(Sel(d, P)) = 0
      BY <3>1
    <3>. HIDE DEF P
    <3>. QED  BY <2>1, <3>2 DEF SameLetter, Takes
  <2>. QED  BY <2>1
<1>2. ASSUME NEW n \in Nat, n \in G
      PROVE  n + 1 \in G
  <2>1. SUFFICES ASSUME NEW c \in Seq(S), Len(c) = n + 1
                 PROVE  SameLetter(t, c, P)
    OBVIOUS
  <2>2. PICK d \in Seq(S), x \in S : c = Append(d, x) /\ Len(d) = n
    <3>. HIDE DEF S
    <3>. QED  BY <2>1, LastApart
  <2>3. SameLetter(t, d, P)
    BY <1>2, <2>2
  <2>4. x.kind \in {"mark", "tone"} /\ (x \in P <=> x.kind = "mark")
    BY DEF EffectsOn, TransformationFields, Transformation, MarksOn
  <2>5. Sel(c, P) = IF x \in P THEN Append(Sel(d, P), x) ELSE Sel(d, P)
    <3>. HIDE DEF S, P
    <3>. QED  BY <2>2, SelAppend
  <2>6. SUFFICES ASSUME NEW f, NEW g, Takes(t, c, f), Takes(t, Sel(c, P), g)
                 PROVE  f[Len(c)][1] = g[Len(Sel(c, P))][1]
    BY DEF SameLetter
  <2>7. /\ Takes(t, d, f) /\ f[n + 1] = ApplyTo(t, f[n], x)
    <3>. HIDE DEF S, P
    <3>. QED  BY <2>2, <2>6, TakesLess
  <2>8. CASE x.kind = "tone"
    <3>1. Sel(c, P) = Sel(d, P)
      BY <2>4, <2>5, <2>8
    <3>2. f[n][1] = g[Len(Sel(d, P))][1]
      <4>. HIDE DEF P
      <4>. QED  BY <2>2, <2>3, <2>6, <2>7, <3>1 DEF SameLetter
    <3>3. ApplyTo(t, f[n], x)[1] = f[n][1]
      BY <2>8, LetterApplied
    <3>. HIDE DEF P, S
    <3>. QED  BY <2>1, <2>7, <3>1, <3>2, <3>3
  <2>9. CASE x.kind = "mark"
    <3>. DEFINE v == Sel(d, P)
    <3>1. Sel(c, P) = Append(v, x) /\ v \in Seq(S)
      <4>1. v \in Seq(S)
        <5>. HIDE DEF P, S
        <5>. QED  BY SelType
      <4>. QED  BY <2>4, <2>5, <2>9, <4>1
    <3>. HIDE DEF v
    <3>2. Takes(t, v, g) /\ g[Len(v) + 1] = ApplyTo(t, g[Len(v)], x) /\ Len(Sel(c, P)) = Len(v) + 1
      <4>. HIDE DEF P, S
      <4>. QED  BY <2>6, <3>1, TakesLess
    <3>3. f[n][1] = g[Len(v)][1]
      <4>. HIDE DEF P
      <4>. QED  BY <2>2, <2>3, <2>7, <3>2 DEF SameLetter, v
    <3>4. ApplyTo(t, f[n], x)[1] = ApplyTo(t, g[Len(v)], x)[1]
      BY <2>9, <3>3, LetterApplied
    <3>. HIDE DEF P, S
    <3>. QED  BY <2>1, <2>7, <3>2, <3>4
  <2>. QED  BY <2>4, <2>8, <2>9
<1>3. \A n \in Nat : n \in G
  <2>. HIDE DEF G
  <2>. QED  BY <1>1, <1>2, Induction
<1>4. Len(e) \in Nat
  BY LenProperties
<1>. HIDE DEF P
<1>. QED  BY <1>3, <1>4 DEF P

\* The letter is seen as the marks on it alone would show it.
LEMMA LetterSeen ==
  ASSUME NEW im, NEW A, NEW s \in Seq(Transformation), NEW t \in On(im, A), t.kind = "append",
         NEW m, m = Sel(s, MarksOn(t.id))
  PROVE  Rendered(s, t)[1] = Rendered(m, t)[1]
<1>. DEFINE id == t.id
            E == EffectsOn(id)
            M == MarksOn(id)
            e == Sel(s, E)
<1>1. /\ PlainChar(t.on, t.upper) \in Char /\ PlainChar(t.key, t.upper) \in Char
  BY DEF On, TransformationFields, Transformation, PlainChar, Char, None
<1>2. \A ch \in Char : \A x \in E : ApplyTo(t, ch, x) \in Char
  <2>1. ASSUME NEW ch \in Char, NEW x \in E
        PROVE  ApplyTo(t, ch, x) \in Char
    <3>1. ch[1] \in Symbols /\ ch[2] \in Nat /\ ch[3] \in BOOLEAN
      BY DEF Char
    <3>2. x.kind \in {"mark", "tone"} /\ x.effect \in Nat
      BY DEF EffectsOn, TransformationFields, Transformation
    <3>3. CASE x.kind = "tone"
      <4>1. <<ch[1], x.effect, ch[3]>> \in Char
        BY <3>1, <3>2 DEF Char
      <4>. QED  BY <3>3, <4>1 DEF ApplyTo
    <3>4. CASE x.kind = "mark" /\ x.effect = Raw
      BY <3>4, <1>1 DEF ApplyTo
    <3>5. CASE x.kind = "mark" /\ x.effect # Raw
      <4>1. AddMark(ch[1], x.effect) \in Symbols
        BY <3>1, <3>2, MarkedIsSymbol
      <4>2. <<AddMark(ch[1], x.effect), ch[2], ch[3]>> \in Char
        BY <3>1, <4>1 DEF Char
      <4>. QED  BY <3>5, <4>2 DEF ApplyTo
    <3>. QED  BY <3>2, <3>3, <3>4, <3>5
  <2>. QED  BY <2>1
<1>3. /\ m \in Seq(Transformation) /\ e \in Seq(Transformation)
      /\ \A j \in 1 .. Len(e) : e[j] \in E
      /\ \A j \in 1 .. Len(m) : m[j] \in M
  <2>. DEFINE T == Transformation
  <2>. HIDE DEF E, M, T
  <2>1. s \in Seq(T) /\ m = Sel(s, M)
    BY DEF T, M
  <2>2. m \in Seq(T) /\ e \in Seq(T) /\ (\A j \in 1 .. Len(e) : e[j] \in E) /\ \A j \in 1 .. Len(m) : m[j] \in M
    BY <2>1, SelType
  <2>. QED  BY <2>2 DEF T
<1>4. M \subseteq E
  BY DEF MarksOn
<1>5. Sel(m, E) = m /\ Sel(e, M) = m /\ e \in Seq(E)
  <2>1. M = E \cap M
    BY <1>4
  <2>. DEFINE T == Transformation
  <2>. HIDE DEF E, M, T
  <2>2. Sel(m, E) = m
    <3>1. \A j \in 1 .. Len(m) : m[j] \in E
      BY <1>3, <1>4
    <3>. QED  BY <1>3, <3>1, SelAll
  <2>3. Sel(e, M) = Sel(s, E \cap M)
    BY SelSel
  <2>4. e \in Seq(E)
    BY <1>3, SeqOver
  <2>. QED  BY <2>1, <2>2, <2>3, <2>4 DEF M
<1>6. PICK f : Takes(t, e, f) /\ f[Len(e)] = Rendered(s, t)
  BY <1>1, <1>2, RenderedSteps
<1>7. PICK g : Takes(t, Sel(m, E), g) /\ g[Len(Sel(m, E))] = Rendered(m, t)
  BY <1>1, <1>2, <1>3, RenderedSteps
<1>. HIDE DEF e
<1>8. SameLetter(t, e, M)
  BY <1>5, LetterOfMarks
<1>. HIDE DEF E, M
<1>. QED  BY <1>5, <1>6, <1>7, <1>8 DEF SameLetter

\* Lists with the same letters and, on each of those, the same marks look the
\* same but for tones.
Reads(s, r, l) ==
  /\ l = Len(Sel(r, Appended)) /\ l <= Len(Sel(s, Appended))
  /\ \A i \in 1 .. l : /\ Sel(r, Appended)[i] = Sel(s, Appended)[i]
                      /\ Sel(r, MarksOn(Sel(r, Appended)[i].id)) = Sel(s, MarksOn(Sel(r, Appended)[i].id))

LEMMA SameText ==
  ASSUME NEW im, NEW A, NEW s \in Seq(On(im, A)), NEW r \in Seq(On(im, A)), NEW l, Reads(s, r, l)
  PROVE  /\ DOMAIN Toneless(r) = 1 .. l /\ Len(Toneless(r)) = l /\ l \in Nat
         /\ \A i \in 1 .. l : Toneless(r)[i] = Toneless(s)[i]
<1>. DEFINE v == Sel(s, Appended)
            w == Sel(r, Appended)
            n == Len(v)
<1>0. /\ l = Len(w) /\ l <= n
      /\ \A i \in 1 .. l : w[i] = v[i] /\ Sel(r, MarksOn(w[i].id)) = Sel(s, MarksOn(w[i].id))
  BY DEF Reads
<1>1. /\ l \in Nat /\ w \in Seq(On(im, A)) /\ \A i \in 1 .. l : Flatten(r)[i] = Rendered(r, w[i]) /\ w[i] \in Appended
  BY <1>0, FlattenOf
<1>2. /\ n \in Nat /\ \A i \in 1 .. n : Flatten(s)[i] = Rendered(s, v[i])
  BY FlattenOf
<1>3. DOMAIN Toneless(r) = 1 .. l /\ Len(Toneless(r)) = l /\ \A i \in 1 .. l : Toneless(r)[i] = Flatten(r)[i][1]
  BY <1>0, TonelessOf
<1>4. \A i \in 1 .. n : Toneless(s)[i] = Flatten(s)[i][1]
  BY TonelessOf
<1>5. s \in Seq(Transformation) /\ r \in Seq(Transformation)
  BY OnIsTransformation
<1>6. \A i \in 1 .. l : i \in 1 .. n /\ w[i] = v[i]
  BY <1>0, <1>1, <1>2
<1>. HIDE DEF v, n
<1>7. ASSUME NEW i \in 1 .. l
      PROVE  Toneless(r)[i] = Toneless(s)[i]
  <2>. DEFINE t == w[i]
  <2>1. t \in On(im, A) /\ t.kind = "append"
    <3>. DEFINE S == On(im, A)
    <3>0. w \in Seq(S) /\ i \in 1 .. Len(w)
      BY <1>0, <1>1
    <3>1. t \in S
      <4>. HIDE DEF S, w
      <4>. QED  BY <3>0, ElementOfSeq
    <3>2. t.kind = "append"
      BY <1>1 DEF Appended
    <3>. QED  BY <3>1, <3>2
  <2>2. Sel(r, MarksOn(t.id)) = Sel(s, MarksOn(t.id))
    BY <1>0
  <2>3. v[i] = t /\ i \in 1 .. n
    BY <1>6
  <2>4. Flatten(r)[i] = Rendered(r, t)
    BY <1>1
  <2>. HIDE DEF t, w
  <2>5. Flatten(s)[i] = Rendered(s, t)
    BY <1>2, <2>3
  <2>. DEFINE m == Sel(s, MarksOn(t.id))
  <2>6. m = Sel(s, MarksOn(t.id)) /\ m = Sel(r, MarksOn(t.id))
    BY <2>2
  <2>. HIDE DEF m
  <2>7. \A q \in Seq(Transformation) : m = Sel(q, MarksOn(t.id)) => Rendered(q, t)[1] = Rendered(m, t)[1]
    BY <2>1, LetterSeen
  <2>8. Rendered(s, t)[1] = Rendered(m, t)[1] /\ Rendered(r, t)[1] = Rendered(m, t)[1]
    BY <1>5, <2>6, <2>7
  <2>. QED  BY <1>3, <1>4, <2>3, <2>4, <2>5, <2>7, <2>8
<1>. QED  BY <1>1, <1>3, <1>7

\* Toneless texts of one length that agree at every place are one text.
LEMMA TonelessEqual ==
  ASSUME NEW s, NEW r, DOMAIN Toneless(s) = DOMAIN Toneless(r),
         \A i \in DOMAIN Toneless(s) : Toneless(r)[i] = Toneless(s)[i]
  PROVE  Toneless(r) = Toneless(s)
<1>. DEFINE a == Toneless(s)
            b == Toneless(r)
<1>1. a = [i \in DOMAIN a |-> a[i]] /\ b = [i \in DOMAIN b |-> b[i]]
  BY DEF Toneless, LettersOf
<1>. HIDE DEF a, b
<1>2. DOMAIN a = DOMAIN b /\ \A i \in DOMAIN a : b[i] = a[i]
  BY DEF a, b
<1>3. a = b
  BY <1>1, <1>2
<1>. QED  BY <1>3 DEF a, b

\* A tone that moves changes no letter.
LEMMA RefreshKeepsText ==
  ASSUME NEW im, NEW A \in SUBSET Ids, NEW s \in Seq(On(im, A)), NEW n \in Nat,
         NEW r, r = RefreshTone(im, s, n)
  PROVE  Toneless(r) = Toneless(s)
<1>. DEFINE p == Split(s)
            k == LastTone(s)
            a == FindToneTarget(p, im.std)
<1>1. SUFFICES ASSUME r # s
               PROVE  Toneless(r) = Toneless(s)
  OBVIOUS
<1>2. IsValid(s, FALSE) /\ p.vo # <<>> /\ r = MoveTone(s, k, a, n)
  BY <1>1 DEF RefreshTone, RefreshIn
<1>3. k # 0 /\ s[k].target # a
  BY <1>2, <1>1 DEF MoveTone
<1>4. a \in A
  BY <1>2, <1>3, ValidHasToneTarget
<1>5. k \in 1 .. Len(s) /\ s[k].kind = "tone"
  BY <1>3, LastToneIs
<1>6. r \in Seq(On(im, A))
  BY RefreshToneIs
<1>. HIDE DEF a, k
<1>7. \A P : (\A t \in On(im, A) : t.kind = "tone" => t \notin P) => Sel(r, P) = Sel(s, P)
  BY <1>2, <1>3, <1>4, <1>5, ToneMoved
<1>8. Sel(r, Appended) = Sel(s, Appended)
  <2>1. \A t \in On(im, A) : t.kind = "tone" => t \notin Appended
    BY DEF Appended
  <2>. QED  BY <1>7, <2>1
<1>9. \A id : Sel(r, MarksOn(id)) = Sel(s, MarksOn(id))
  <2>1. ASSUME NEW id
        PROVE  Sel(r, MarksOn(id)) = Sel(s, MarksOn(id))
    <3>. DEFINE P == MarksOn(id)
    <3>1. \A t \in On(im, A) : t.kind = "tone" => t \notin P
      BY DEF MarksOn
    <3>. HIDE DEF P
    <3>2. Sel(r, P) = Sel(s, P)
      BY <3>1, <1>7
    <3>. QED  BY <3>2 DEF P
  <2>. QED  BY <2>1
<1>. DEFINE l == Len(Sel(r, Appended))
<1>11. l = Len(Sel(s, Appended)) /\ Reads(s, r, l)
  <2>1. Len(Sel(s, Appended)) \in Nat
    BY FlattenOf
  <2>. QED  BY <1>8, <1>9, <2>1 DEF Reads
<1>. HIDE DEF l
<1>12. DOMAIN Toneless(r) = 1 .. l /\ \A i \in 1 .. l : Toneless(r)[i] = Toneless(s)[i]
  BY <1>6, <1>11, SameText
<1>13. DOMAIN Toneless(s) = 1 .. l
  BY <1>11, TonelessOf
<1>. QED  BY <1>12, <1>13, TonelessEqual

\* Without its last letter.
OneLetterLess(s, r, l) ==
  /\ DOMAIN Toneless(r) = 1 .. l /\ l \in Nat /\ Len(Toneless(s)) = l + 1
  /\ \A i \in 1 .. l : Toneless(r)[i] = Toneless(s)[i]

LEMMA WithoutText ==
  ASSUME NEW im, NEW A \in SUBSET Ids, NEW s \in Seq(On(im, A)), Distinct(s), LastAppended(s) # 0,
         NEW id, id = s[LastAppended(s)].id, NEW r, r = Without(s, id), NEW l, l = Len(Toneless(r))
  PROVE  OneLetterLess(s, r, l)
<1>. DEFINE p == LastAppended(s)
            S == On(im, A)
            P == Appended
            O == Others(id)
            v == Sel(s, P)
            w == Sel(r, P)
<1>1. /\ p = LastOf(s, P) /\ p \in 1 .. Len(s) /\ s[p] \in LettersIn(im, A)
  BY LastAppendedOf
<1>2. id \in Ids /\ s[p].kind = "append" /\ s \in Seq(Transformation) /\ s \in Seq(S)
  BY <1>1, OnIsTransformation DEF LettersIn, On, Letter, Appended
<1>3. r = Sel(s, O)
  BY <1>2, FilterOthers
<1>4. r \in Seq(S)
  <2>. HIDE DEF S, O
  <2>. QED  BY <1>2, <1>3, SelType
<1>5. \A i \in 1 .. Len(s) : s[i] \in S /\ s[i] \in Transformation
  BY <1>2, ElementOfSeq
<1>6. v # <<>> /\ v[Len(v)] = s[p] /\ v \in Seq(S) /\ Len(v) \in Nat /\ \A j \in 1 .. Len(v) : v[j] \in P
  <2>. HIDE DEF S, P, p
  <2>1. LastOf(s, P) # 0 /\ LastOf(s, P) = p
    BY <1>1 DEF p
  <2>2. v # <<>> /\ v[Len(v)] = s[p]
    BY <1>2, <2>1, LastOfSel
  <2>3. v \in Seq(S) /\ Len(v) \in Nat /\ \A j \in 1 .. Len(v) : v[j] \in P
    BY <1>2, SelType
  <2>. QED  BY <2>2, <2>3
<1>7. Distinct(v)
  BY <1>2, SelDistinct
<1>. HIDE DEF v
<1>8. PICK u \in Seq(S), x \in S : v = Append(u, x) /\ Len(v) = Len(u) + 1 /\ Len(u) \in Nat
  <2>. DEFINE m == Len(v) - 1
  <2>1. m \in Nat /\ Len(v) = m + 1
    BY <1>6, EmptySeq
  <2>. HIDE DEF m, S
  <2>2. \E u \in Seq(S), x \in S : v = Append(u, x) /\ Len(u) = m
    BY <1>6, <2>1, LastApart
  <2>. QED  BY <2>1, <2>2
<1>9. (\A i \in 1 .. Len(u) : u[i] = v[i]) /\ x = s[p]
  <2>. HIDE DEF S, p
  <2>1. (\A i \in 1 .. Len(u) : u[i] = v[i]) /\ v[Len(u) + 1] = x
    BY <1>8, AppendProperties
  <2>. QED  BY <1>6, <1>8, <2>1
<1>10. w = u
  <2>1. w = Sel(v, O)
    <3>1. O \cap P = P \cap O
      OBVIOUS
    <3>. HIDE DEF S, P, O
    <3>2. Sel(Sel(s, O), P) = Sel(s, O \cap P) /\ Sel(Sel(s, P), O) = Sel(s, P \cap O)
      BY <1>2, SelSel
    <3>. QED  BY <1>3, <3>1, <3>2 DEF v
  <2>2. x \notin O
    BY <1>9 DEF Others, p
  <2>3. Sel(v, O) = Sel(u, O)
    <3>. HIDE DEF S, O
    <3>. QED  BY <1>8, <2>2, SelAppend
  <2>4. \A i \in 1 .. Len(u) : u[i] \in O
    <3>1. ASSUME NEW i \in 1 .. Len(u)
          PROVE  u[i] \in O
      <4>1. u[i] = v[i] /\ i \in 1 .. Len(v) /\ i # Len(v) /\ Len(v) \in 1 .. Len(v)
        BY <1>8, <1>9
      <4>2. u[i] \in S /\ u[i] \in P
        <5>. HIDE DEF S
        <5>. QED  BY <1>6, <4>1, ElementOfSeq
      <4>3. u[i].id # id
        BY <1>6, <1>7, <4>1 DEF Distinct, p
      <4>4. u[i].target = 0 /\ u[i] \in Transformation
        BY <4>2 DEF On, Letter, Appended
      <4>. QED  BY <1>2, <4>3, <4>4 DEF Others, Ids
    <3>. QED  BY <3>1
  <2>5. Sel(u, O) = u
    <3>. HIDE DEF S, O
    <3>. QED  BY <1>8, <2>4, SelAll
  <2>. QED  BY <2>1, <2>3, <2>5
<1>. DEFINE n == Len(u)
<1>11. ASSUME NEW a, a \in {w[i].id : i \in 1 .. n}
       PROVE  Sel(r, MarksOn(a)) = Sel(s, MarksOn(a))
  <2>. DEFINE M == MarksOn(a)
  <2>1. a # id
    <3>1. PICK i \in 1 .. n : a = u[i].id
      BY <1>10, <1>11
    <3>2. u[i] = v[i] /\ i \in 1 .. Len(v) /\ i # Len(v) /\ Len(v) \in 1 .. Len(v)
      BY <1>8, <1>9
    <3>. QED  BY <1>6, <1>7, <3>1, <3>2 DEF Distinct, p
  <2>2. ASSUME NEW i \in 1 .. Len(s), s[i] \in M
        PROVE  s[i] \in O
    <3>1. s[i].target = a /\ s[i].kind = "mark" /\ s[i] \in Transformation
      BY <2>2 DEF MarksOn, EffectsOn
    <3>2. i # p
      BY <1>2, <3>1
    <3>3. s[i].id # id
      BY <1>1, <3>2 DEF Distinct, p
    <3>. QED  BY <2>1, <3>1, <3>3 DEF Others
  <2>3. {i \in DOMAIN s : s[i] \in O \cap M} = {i \in DOMAIN s : s[i] \in M}
    <3>1. DOMAIN s = 1 .. Len(s)
      BY <1>2, LenProperties
    <3>. HIDE DEF O, M
    <3>. QED  BY <2>2, <3>1
  <2>. HIDE DEF O, M, S
  <2>4. Sel(Sel(s, O), M) = Sel(s, O \cap M)
    BY <1>2, SelSel
  <2>5. Sel(s, O \cap M) = Sel(s, M)
    BY <2>3 DEF Sel
  <2>. QED  BY <1>3, <2>4, <2>5 DEF M
<1>12. Len(Sel(s, Appended)) = n + 1 /\ Reads(s, r, n)
  <2>1. n = Len(Sel(r, Appended)) /\ n <= Len(Sel(s, Appended)) /\ Len(Sel(s, Appended)) = n + 1
    BY <1>8, <1>10 DEF v
  <2>2. \A i \in 1 .. n : Sel(r, Appended)[i] = Sel(s, Appended)[i]
    BY <1>9, <1>10 DEF v
  <2>3. \A i \in 1 .. n : Sel(r, MarksOn(Sel(r, Appended)[i].id)) = Sel(s, MarksOn(Sel(r, Appended)[i].id))
    BY <1>11
  <2>. HIDE DEF n
  <2>. QED  BY <2>1, <2>2, <2>3 DEF Reads
<1>13. DOMAIN Toneless(r) = 1 .. n /\ Len(Toneless(r)) = n /\ \A i \in 1 .. n : Toneless(r)[i] = Toneless(s)[i]
  <2>. HIDE DEF n
  <2>. QED  BY <1>4, <1>12, SameText
<1>14. Len(Toneless(s)) = n + 1
  BY <1>12, TonelessOf
<1>. HIDE DEF n
<1>15. l = n
  BY <1>13
<1>. QED  BY <1>8, <1>13, <1>14, <1>15 DEF OneLetterLess, n

\* A text but for its last letter.
LEMMA FrontText ==
  ASSUME NEW s, NEW r, NEW l \in Nat, DOMAIN Toneless(r) = 1 .. l, Len(Toneless(s)) = l + 1,
         \A i \in 1 .. l : Toneless(r)[i] = Toneless(s)[i]
  PROVE  Toneless(r) = Front(Toneless(s))
<1>. DEFINE a == Toneless(s)
            b == Toneless(r)
            S == {a[i] : i \in 1 .. l}
            q == SubSeq(a, 1, l)
<1>1. b = [i \in DOMAIN b |-> b[i]]
  BY DEF Toneless, LettersOf
<1>2. DOMAIN b = 1 .. l /\ Len(a) = l + 1 /\ \A i \in 1 .. l : b[i] = a[i]
  OBVIOUS
<1>3. \A i \in 1 .. l : a[i] \in S
  OBVIOUS
<1>. HIDE DEF a, b, S
<1>4. b \in Seq(S) /\ Len(b) = l
  <2>1. b \in [1 .. l -> S]
    BY <1>1, <1>2, <1>3
  <2>. QED  BY <2>1, FunctionIsSeq
<1>5. /\ q \in Seq(S) /\ Len(q) = (IF 1 <= l THEN l - 1 + 1 ELSE 0)
      /\ \A i \in 1 .. l - 1 + 1 : q[i] = a[1 + i - 1]
  BY <1>3, SubSeqProperties
<1>6. Front(a) = q
  <2>1. Len(a) - 1 = l
    BY <1>2
  <2>. QED  BY <2>1 DEF Front
<1>. HIDE DEF q
<1>7. Len(q) = l
  BY <1>5
<1>8. \A i \in 1 .. l : q[i] = b[i]
  <2>1. \A i \in 1 .. l : i \in 1 .. l - 1 + 1 /\ 1 + i - 1 = i
    OBVIOUS
  <2>. QED  BY <1>2, <1>5, <2>1
<1>9. q = b
  BY <1>4, <1>5, <1>7, <1>8, SeqEqual
<1>. QED  BY <1>6, <1>9 DEF a, b

\* remove_last_char: the text loses its last letter, and the others stay as the
\* marks on them have made them; only tones may move.
THEOREM BackspaceTakesLetter ==
  ASSUME NEW im, MethodOK(im), NEW s, Sound(im, s), AppendIds(s) # {},
         NEW r, r = RemoveLastChar(im, s, TRUE)
  PROVE  Toneless(r) = Front(Toneless(s))
<1>. DEFINE A == AppendIds(s)
            K == Composable(im)
            p == LastAppended(s)
            id == s[p].id
            w == Without(s, id)
            b == SubSeq(s, 1, 0)
            n == FreshId(b \o w)
<1>1. /\ A \in SUBSET Ids /\ s \in Seq(On(im, A)) /\ Distinct(s) /\ OnlyKeys(s, K) /\ NoKey \notin K
  BY SoundIs DEF Sound
<1>. HIDE DEF A, K
<1>2. p # 0
  BY <1>1, NothingToRemove DEF A
<1>3. p \in 1 .. Len(s) /\ s[p] \in LettersIn(im, A)
  BY <1>1, <1>2, LastAppendedOf
<1>4. id \in Ids /\ s[p].key # NoKey
  BY <1>1, <1>3 DEF LettersIn, On, Letter, Appended
<1>5. w \in Seq(On(im, A))
  <2>. HIDE DEF w, id
  <2>1. w = Without(s, id)
    BY DEF w
  <2>. QED  BY <1>1, <1>4, <2>1, WithoutIs
<1>6. Toneless(w) = Front(Toneless(s))
  <2>. DEFINE l == Len(Toneless(w))
  <2>1. /\ DOMAIN Toneless(w) = 1 .. l /\ l \in Nat /\ Len(Toneless(s)) = l + 1
        /\ \A i \in 1 .. l : Toneless(w)[i] = Toneless(s)[i]
    <3>1. id = s[LastAppended(s)].id /\ w = Without(s, id) /\ l = Len(Toneless(w)) /\ LastAppended(s) # 0
      BY <1>2
    <3>. HIDE DEF w, id, l, p
    <3>2. OneLetterLess(s, w, l)
      BY <1>1, <3>1, WithoutText
    <3>. QED  BY <3>2 DEF OneLetterLess
  <2>. HIDE DEF w, l
  <2>. QED  BY <2>1, FrontText
<1>7. b = <<>> /\ b \o w = w /\ n \in Nat
  <2>. DEFINE S == On(im, A)
  <2>1. b \in Seq(S) /\ Len(b) = 0
    BY <1>1
  <2>2. w \in Seq(S) /\ w \in Seq(Transformation)
    BY <1>5, OnIsTransformation
  <2>. HIDE DEF b, S, w
  <2>3. b = <<>>
    BY <2>1, EmptySeq
  <2>4. b \o w = w
    BY <2>2, <2>3, ConcatEmptySeq
  <2>. QED  BY <2>2, <2>3, <2>4, FreshIdIsFresh
<1>8. CanProcessKey(s[p].key, im.keys) /\ WordStart(s, im.keys) = 1 /\ SubSeq(s, 1, Len(s)) = s
  <2>1. CanProcessKey(s[p].key, im.keys)
    BY <1>1, <1>3, <1>4 DEF OnlyKeys, K, Composable
  <2>2. WordStart(s, im.keys) = 1
    BY <1>1, WholeWord DEF K
  <2>3. SubSeq(s, 1, Len(s)) = s
    BY <1>1, SubSeqFull
  <2>. QED  BY <2>1, <2>2, <2>3
<1>9. r = b \o RefreshTone(im, w, n)
  <2>. DEFINE start == WordStart(s, im.keys)
  <2>1. r = RemoveLetter(im, s, s[p], start, TRUE)
    BY <1>2 DEF RemoveLastChar
  <2>. HIDE DEF start, p
  <2>2. r = Refreshed(im, SubSeq(s, 1, start - 1), Without(SubSeq(s, start, Len(s)), s[p].id))
    BY <1>8, <2>1 DEF RemoveLetter, RestOfWord
  <2>3. start = 1 /\ start - 1 = 0
    BY <1>8 DEF start
  <2>4. r = Refreshed(im, SubSeq(s, 1, 0), Without(SubSeq(s, 1, Len(s)), s[p].id))
    BY <2>2, <2>3, Zenon
  <2>5. r = Refreshed(im, b, w)
    BY <1>8, <2>4
  <2>. QED  BY <2>5 DEF Refreshed
<1>. HIDE DEF n, w, b
<1>. DEFINE t == RefreshTone(im, w, n)
<1>10. t \in Seq(On(im, A))
  BY <1>1, <1>5, <1>7, RefreshToneIs
<1>11. Toneless(t) = Toneless(w)
  <2>1. t = RefreshTone(im, w, n)
    OBVIOUS
  <2>. HIDE DEF t
  <2>. QED  BY <1>1, <1>5, <1>7, <2>1, RefreshKeepsText
<1>. HIDE DEF t
<1>12. b \o t = t
  <2>. DEFINE S == On(im, A)
  <2>1. t \in Seq(S)
    BY <1>10
  <2>. HIDE DEF S
  <2>. QED  BY <1>7, <2>1, ConcatEmptySeq
<1>. QED  BY <1>6, <1>9, <1>11, <1>12 DEF t

\* Where one key is left there is one letter.
LEMMA OneKeyOneLetter ==
  ASSUME NEW im, NEW s, Sound(im, s), AppendIds(s) # {}, Len(Typed(s)) = 1
  PROVE  Len(Flatten(s)) = 1
<1>. DEFINE A == AppendIds(s)
            S == On(im, A)
            P == Appended
            Q == Keyed
            y == Sel(s, Q)
            v == Sel(s, P)
<1>1. s \in Seq(S) /\ s \in Seq(Transformation) /\ \A i \in 1 .. Len(s) : s[i] \in S
  <2>1. s \in Seq(S)
    BY DEF Sound
  <2>. HIDE DEF S
  <2>2. \A i \in 1 .. Len(s) : s[i] \in S
    BY <2>1, ElementOfSeq
  <2>. QED  BY <2>1, <2>2, SoundIs
<1>2. Len(Flatten(s)) = Len(v) /\ Flatten(s) # <<>> /\ Flatten(s) \in Seq(Char)
  <2>. HIDE DEF A
  <2>1. s \in Seq(On(im, A)) /\ (A = AppendIds(s))
    BY <1>1 DEF A
  <2>2. Len(Flatten(s)) = Len(v) /\ Flatten(s) \in Seq(Char)
    BY <2>1, FlattenOf
  <2>3. Flatten(s) # <<>>
    BY <2>1, FlattenSome
  <2>. QED  BY <2>2, <2>3
<1>3. y \in Seq(S) /\ Len(y) = 1
  <2>1. y \in Seq(S) /\ Len(y) \in Nat /\ DOMAIN y = 1 .. Len(y)
    <3>. HIDE DEF S, Q
    <3>. QED  BY <1>1, SelType
  <2>2. Typed(s) = [i \in DOMAIN y |-> PlainChar(y[i].key, y[i].upper)]
    BY <1>1, FilterKeyed DEF Typed
  <2>. HIDE DEF y
  <2>3. Len(Typed(s)) = Len(y)
    BY <2>1, <2>2
  <2>. QED  BY <2>1, <2>3
<1>4. PICK z \in S : y = <<z>>
  <2>. HIDE DEF S, y
  <2>1. y[1] \in S /\ y = <<y[1]>>
    <3>1. 1 \in 1 .. Len(y)
      BY <1>3
    <3>2. y = [i \in 1 .. Len(y) |-> y[i]]
      BY <1>3, LenProperties
    <3>. QED  BY <1>3, <3>1, <3>2, ElementOfSeq
  <2>. QED  BY <2>1
<1>5. v = Sel(y, P)
  <2>1. {i \in DOMAIN s : s[i] \in Q \cap P} = {i \in DOMAIN s : s[i] \in P}
    <3>1. \A i \in 1 .. Len(s) : s[i] \in P => s[i] \in Q
      BY <1>1 DEF On, Letter, Appended, Keyed
    <3>2. DOMAIN s = 1 .. Len(s)
      BY <1>1, LenProperties
    <3>. HIDE DEF P, Q
    <3>. QED  BY <3>1, <3>2
  <2>. HIDE DEF S, P, Q
  <2>2. Sel(Sel(s, Q), P) = Sel(s, Q \cap P)
    BY <1>1, SelSel
  <2>. QED  BY <2>1, <2>2 DEF Sel
<1>6. v = <<z>> \/ v = <<>>
  <2>. HIDE DEF P, y, v, S
  <2>. QED  BY <1>4, <1>5, SelSingle
<1>7. Len(v) # 0
  <2>1. Len(Flatten(s)) # 0
    BY <1>2, EmptySeq
  <2>. QED  BY <1>2, <2>1
<1>. HIDE DEF v
<1>8. Len(v) = 1
  BY <1>6, <1>7
<1>. QED  BY <1>2, <1>8
=============================================================================
