----------------------- MODULE UinputAckRefines_proofs -----------------------
(***************************************************************************)
(* The acknowledgement protocol implements the editor in which every edit  *)
(* is atomic, for every number of keys and every size of the buffer.       *)
(***************************************************************************)
EXTENDS UinputAckRefines, UinputAck_proofs

(***************************************************************************)
(* The user's keys in an input stream: what an event at the end adds, and  *)
(* what the event at the head takes away.                                  *)
(***************************************************************************)
UpTo(w, i) == {j \in UserPlaces(w) : j <= i}

LEMMA UserPlacesFinite ==
  ASSUME NEW w \in Seq(Event)
  PROVE  /\ UserPlaces(w) \in SUBSET (1 .. Len(w))
         /\ IsFiniteSet(UserPlaces(w)) /\ Cardinality(UserPlaces(w)) \in Nat
         /\ \A i : /\ IsFiniteSet(UpTo(w, i)) /\ Rank(w, i) = Cardinality(UpTo(w, i))
                   /\ Rank(w, i) \in 0 .. Cardinality(UserPlaces(w))
<1>1. Len(w) \in Nat /\ DOMAIN w = 1 .. Len(w)
  BY LenProperties
<1>2. UserPlaces(w) \in SUBSET (1 .. Len(w))
  BY <1>1 DEF UserPlaces
<1>3. IsFiniteSet(UserPlaces(w)) /\ Cardinality(UserPlaces(w)) \in Nat
  <2>1. IsFiniteSet(1 .. Len(w))
    BY <1>1, FS_Interval
  <2>. QED  BY <1>2, <2>1, FS_Subset, FS_CardinalityType
<1>4. ASSUME NEW i
      PROVE  /\ IsFiniteSet(UpTo(w, i)) /\ Rank(w, i) = Cardinality(UpTo(w, i))
             /\ Rank(w, i) \in 0 .. Cardinality(UserPlaces(w))
  <2>1. UpTo(w, i) \in SUBSET UserPlaces(w) /\ Rank(w, i) = Cardinality(UpTo(w, i))
    BY DEF UpTo, Rank
  <2>2. /\ IsFiniteSet(UpTo(w, i)) /\ Cardinality(UpTo(w, i)) \in Nat
        /\ Cardinality(UpTo(w, i)) <= Cardinality(UserPlaces(w))
    BY <1>3, <2>1, FS_Subset, FS_CardinalityType
  <2>. QED  BY <1>3, <2>1, <2>2
<1>. QED  BY <1>2, <1>3, <1>4

\* The rank numbers the places from 1 without a gap.
LEMMA RankNumbers ==
  ASSUME NEW w \in Seq(Event)
  PROVE  /\ \A i \in UserPlaces(w) : Rank(w, i) \in 1 .. Cardinality(UserPlaces(w))
         /\ \A i, j \in UserPlaces(w) : Rank(w, i) = Rank(w, j) => i = j
         /\ \A n \in 1 .. Cardinality(UserPlaces(w)) : \E i \in UserPlaces(w) : Rank(w, i) = n
<1>. DEFINE P == UserPlaces(w)
            m == Cardinality(P)
            f == [i \in P |-> Rank(w, i)]
<1>1. P \in SUBSET (1 .. Len(w)) /\ P \in SUBSET Int /\ IsFiniteSet(P) /\ m \in Nat
  BY UserPlacesFinite, LenProperties
<1>2. \A i : IsFiniteSet(UpTo(w, i)) /\ Rank(w, i) = Cardinality(UpTo(w, i)) /\ Rank(w, i) \in 0 .. m
  BY UserPlacesFinite
<1>3. ASSUME NEW i \in P
      PROVE  Rank(w, i) \in 1 .. m
  <2>1. i \in UpTo(w, i)
    BY <1>1 DEF UpTo
  <2>2. Cardinality(UpTo(w, i)) # 0
    BY <1>2, <2>1, FS_EmptySet
  <2>. QED  BY <1>2, <2>2
<1>4. ASSUME NEW i \in P, NEW j \in P, i < j
      PROVE  Rank(w, i) < Rank(w, j)
  <2>1. j \notin UpTo(w, i) /\ UpTo(w, i) \cup {j} \in SUBSET UpTo(w, j)
    BY <1>1, <1>4 DEF UpTo
  <2>2. Cardinality(UpTo(w, i) \cup {j}) = Cardinality(UpTo(w, i)) + 1
    BY <1>2, <2>1, FS_AddElement
  <2>3. Cardinality(UpTo(w, i) \cup {j}) <= Cardinality(UpTo(w, j))
    BY <1>2, <2>1, FS_Subset
  <2>. QED  BY <1>2, <2>2, <2>3
<1>5. \A i, j \in P : Rank(w, i) = Rank(w, j) => i = j
  <2>1. SUFFICES ASSUME NEW i \in P, NEW j \in P, i # j
                 PROVE  Rank(w, i) # Rank(w, j)
    OBVIOUS
  <2>2. i < j \/ j < i
    BY <1>1, <2>1
  <2>. QED  BY <1>2, <1>4, <2>2
<1>. HIDE DEF P, m
<1>6. f \in [P -> 1 .. m] /\ \A i, j \in P : f[i] = f[j] => i = j
  BY <1>3, <1>5
<1>7. f \in Injection(P, 1 .. m)
  BY <1>6 DEF Injection, IsInjective
<1>8. IsFiniteSet(1 .. m) /\ Cardinality(1 .. m) = m
  BY <1>1, FS_Interval
<1>9. f \in Surjection(P, 1 .. m)
  BY <1>7, <1>8, FS_Injection DEF m
<1>10. \A n \in 1 .. m : \E i \in P : f[i] = n
  BY <1>9 DEF Surjection
<1>. QED  BY <1>3, <1>5, <1>10 DEF P, m

\* The user's keys are the sequence that has each at its rank.
LEMMA UserKeysAtRank ==
  ASSUME NEW w \in Seq(Event)
  PROVE  /\ UserKeys(w) \in Seq(Event)
         /\ Len(UserKeys(w)) = Cardinality(UserPlaces(w))
         /\ \A i \in UserPlaces(w) : UserKeys(w)[Rank(w, i)] = w[i]
         /\ \A s \in Seq(Event) :
              Len(s) = Cardinality(UserPlaces(w)) /\ (\A i \in UserPlaces(w) : s[Rank(w, i)] = w[i])
                => s = UserKeys(w)
<1>. DEFINE P == UserPlaces(w)
            m == Cardinality(P)
            at(n) == CHOOSE i \in P : Rank(w, i) = n
<1>1. P \in SUBSET (1 .. Len(w)) /\ m \in Nat
  BY UserPlacesFinite
<1>2. /\ \A i \in P : Rank(w, i) \in 1 .. m
      /\ \A i, j \in P : Rank(w, i) = Rank(w, j) => i = j
      /\ \A n \in 1 .. m : \E i \in P : Rank(w, i) = n
  BY RankNumbers
<1>3. UserKeys(w) = [n \in 1 .. m |-> w[at(n)]]
  BY DEF UserKeys
<1>. HIDE DEF P, m
<1>4. ASSUME NEW n \in 1 .. m
      PROVE  at(n) \in P /\ Rank(w, at(n)) = n
  BY <1>2
<1>5. \A i \in P : at(Rank(w, i)) = i
  BY <1>2, <1>4
<1>. HIDE DEF at
<1>6. \A i \in P : w[i] \in Event
  BY <1>1, ElementOfSeq
<1>7. UserKeys(w) \in [1 .. m -> Event]
  BY <1>3, <1>4, <1>6
<1>8. UserKeys(w) \in Seq(Event) /\ Len(UserKeys(w)) = m
  <2>1. UserKeys(w) \in Seq(Event)
    BY <1>1, <1>7, SeqDef
  <2>2. DOMAIN UserKeys(w) = 1 .. m
    BY <1>7
  <2>3. Len(UserKeys(w)) \in Nat /\ DOMAIN UserKeys(w) = 1 .. Len(UserKeys(w))
    BY <2>1, LenProperties
  <2>. QED  BY <1>1, <2>1, <2>2, <2>3
<1>9. \A i \in P : UserKeys(w)[Rank(w, i)] = w[i]
  BY <1>2, <1>3, <1>5
<1>10. ASSUME NEW s \in Seq(Event), Len(s) = m, \A i \in P : s[Rank(w, i)] = w[i]
       PROVE  s = UserKeys(w)
  <2>1. \A n \in 1 .. m : s[n] = UserKeys(w)[n]
    BY <1>4, <1>9, <1>10
  <2>. QED  BY <1>8, <1>10, <2>1, SeqEqual
<1>. QED  BY <1>8, <1>9, <1>10 DEF P, m

LEMMA UserKeysAppend ==
  ASSUME NEW w \in Seq(Event), NEW e \in Event
  PROVE  UserKeys(Append(w, e)) = IF e = Injected THEN UserKeys(w) ELSE Append(UserKeys(w), e)
<1>. DEFINE v == Append(w, e)
            P == UserPlaces(w)
            m == Cardinality(P)
<1>1. /\ Len(w) \in Nat /\ DOMAIN w = 1 .. Len(w)
      /\ v \in Seq(Event) /\ DOMAIN v = 1 .. Len(w) + 1
      /\ \A i \in 1 .. Len(w) : v[i] = w[i]
      /\ v[Len(w) + 1] = e
  BY LenProperties, AppendProperties
<1>. HIDE DEF v
<1>2. UserPlaces(v) = IF e = Injected THEN P ELSE P \cup {Len(w) + 1}
  BY <1>1 DEF UserPlaces
<1>3. P \in SUBSET (1 .. Len(w)) /\ IsFiniteSet(P) /\ m \in Nat
  BY UserPlacesFinite
<1>4. ASSUME NEW i \in P
      PROVE  Rank(v, i) = Rank(w, i)
  <2>1. {j \in UserPlaces(v) : j <= i} = {j \in P : j <= i}
    BY <1>1, <1>2, <1>3
  <2>. QED  BY <2>1 DEF Rank
<1>5. /\ UserKeys(w) \in Seq(Event) /\ Len(UserKeys(w)) = m
      /\ \A i \in P : UserKeys(w)[Rank(w, i)] = w[i]
      /\ \A i \in P : Rank(w, i) \in 1 .. m
  BY UserKeysAtRank, RankNumbers
<1>6. \A s \in Seq(Event) :
         Len(s) = Cardinality(UserPlaces(v)) /\ (\A i \in UserPlaces(v) : s[Rank(v, i)] = v[i])
           => s = UserKeys(v)
  BY <1>1, UserKeysAtRank
<1>7. CASE e = Injected
  <2>1. \A i \in UserPlaces(v) : UserKeys(w)[Rank(v, i)] = v[i]
    BY <1>1, <1>2, <1>3, <1>4, <1>5, <1>7
  <2>. QED  BY <1>2, <1>5, <1>6, <1>7, <2>1 DEF v
<1>8. CASE e # Injected
  <2>. DEFINE s == Append(UserKeys(w), e)
  <2>1. /\ s \in Seq(Event) /\ Len(s) = m + 1 /\ s[m + 1] = e
        /\ \A n \in 1 .. m : s[n] = UserKeys(w)[n]
    BY <1>5, AppendProperties
  <2>. HIDE DEF s
  <2>2. Len(w) + 1 \notin P
    BY <1>1, <1>3
  <2>3. Cardinality(UserPlaces(v)) = m + 1
    BY <1>2, <1>3, <1>8, <2>2, FS_AddElement
  <2>4. Rank(v, Len(w) + 1) = m + 1
    <3>1. {j \in UserPlaces(v) : j <= Len(w) + 1} = UserPlaces(v)
      BY <1>1, <1>2, <1>3
    <3>. QED  BY <2>3, <3>1 DEF Rank
  <2>5. ASSUME NEW i \in UserPlaces(v)
        PROVE  s[Rank(v, i)] = v[i]
    <3>1. CASE i \in P
      BY <1>1, <1>3, <1>4, <1>5, <2>1, <3>1
    <3>2. CASE i = Len(w) + 1
      BY <1>1, <2>1, <2>4, <3>2
    <3>. QED  BY <1>2, <1>8, <3>1, <3>2
  <2>6. s = UserKeys(v)
    BY <1>6, <2>1, <2>3, <2>5
  <2>. QED  BY <1>8, <2>6 DEF s, v
<1>. QED  BY <1>7, <1>8

\* Moving every place one to the right changes none of their number.
LEMMA ShiftedPlaces ==
  ASSUME NEW S \in SUBSET Int, IsFiniteSet(S)
  PROVE  /\ IsFiniteSet({i + 1 : i \in S})
         /\ Cardinality({i + 1 : i \in S}) = Cardinality(S)
<1>. DEFINE T == {i + 1 : i \in S}
            f == [i \in S |-> i + 1]
<1>1. f \in [S -> T] /\ (\A t \in T : \E i \in S : f[i] = t)
  OBVIOUS
<1>2. \A i, j \in S : f[i] = f[j] => i = j
  OBVIOUS
<1>3. f \in Bijection(S, T)
  BY <1>1, <1>2 DEF Bijection, Injection, Surjection, IsInjective
<1>. QED  BY <1>3, FS_Bijection DEF ExistsBijection

LEMMA UserKeysTail ==
  ASSUME NEW w \in Seq(Event), w # <<>>
  PROVE  UserKeys(w) = IF Head(w) = Injected THEN UserKeys(Tail(w))
                       ELSE <<Head(w)>> \o UserKeys(Tail(w))
<1>. DEFINE v == Tail(w)
            Q == UserPlaces(v)
            m == Cardinality(Q)
            n == IF Head(w) = Injected THEN 0 ELSE 1
<1>1. /\ Len(w) \in Nat /\ Len(w) >= 1 /\ DOMAIN w = 1 .. Len(w) /\ Head(w) = w[1]
      /\ v \in Seq(Event) /\ DOMAIN v = 1 .. Len(w) - 1 /\ Head(w) \in Event
      /\ \A i \in 1 .. Len(w) - 1 : v[i] = w[i + 1]
  BY LenProperties, EmptySeq, HeadTailProperties
<1>. HIDE DEF v
<1>2. /\ Q \in SUBSET (1 .. Len(w) - 1) /\ Q \in SUBSET Int /\ IsFiniteSet(Q) /\ m \in Nat
      /\ 1 \notin {i + 1 : i \in Q}
  <2>1. Q \in SUBSET (1 .. Len(w) - 1)
    BY <1>1 DEF UserPlaces
  <2>2. IsFiniteSet(Q) /\ m \in Nat
    BY <1>1, UserPlacesFinite
  <2>. QED  BY <1>1, <2>1, <2>2
<1>3. UserPlaces(w) = {i + 1 : i \in Q} \cup (IF Head(w) = Injected THEN {} ELSE {1})
  <2>1. ASSUME NEW i \in UserPlaces(w), i # 1
        PROVE  i - 1 \in Q /\ i = (i - 1) + 1
    BY <1>1, <2>1 DEF UserPlaces
  <2>2. ASSUME NEW i \in Q
        PROVE  i + 1 \in UserPlaces(w)
    BY <1>1, <2>2 DEF UserPlaces
  <2>3. 1 \in UserPlaces(w) <=> Head(w) # Injected
    BY <1>1 DEF UserPlaces
  <2>. QED  BY <2>1, <2>2, <2>3
<1>. HIDE DEF Q
<1>4. Cardinality(UserPlaces(w)) = m + n
  <2>1. IsFiniteSet({i + 1 : i \in Q}) /\ Cardinality({i + 1 : i \in Q}) = m
    BY <1>2, ShiftedPlaces
  <2>2. CASE Head(w) = Injected
    <3>1. UserPlaces(w) = {i + 1 : i \in Q}
      BY <1>3, <2>2
    <3>. QED  BY <1>2, <2>1, <2>2, <3>1
  <2>3. CASE Head(w) # Injected
    <3>1. UserPlaces(w) = {i + 1 : i \in Q} \cup {1}
      BY <1>3, <2>3
    <3>2. Cardinality({i + 1 : i \in Q} \cup {1}) = m + 1
      BY <1>2, <2>1, FS_AddElement
    <3>. QED  BY <2>3, <3>1, <3>2
  <2>. QED  BY <2>2, <2>3
<1>5. ASSUME NEW i \in Q
      PROVE  Rank(w, i + 1) = Rank(v, i) + n
  <2>. DEFINE A == {j \in Q : j <= i}
  <2>1. A \in SUBSET Int /\ A \in SUBSET Q
    BY <1>2
  <2>2. IsFiniteSet(A) /\ Rank(v, i) = Cardinality(A)
    BY <1>2, <2>1, FS_Subset DEF Rank, Q
  <2>3. {j \in UserPlaces(w) : j <= i + 1}
          = {j + 1 : j \in A} \cup (IF Head(w) = Injected THEN {} ELSE {1})
    <3>1. ASSUME NEW j \in Q
          PROVE  j + 1 <= i + 1 <=> j \in A
      BY <1>2
    <3>2. 1 <= i + 1
      BY <1>2
    <3>. HIDE DEF A
    <3>3. {j \in {l + 1 : l \in Q} : j <= i + 1} = {j + 1 : j \in A}
      BY <2>1, <3>1
    <3>. QED  BY <1>3, <3>2, <3>3
  <2>4. 1 \notin {j + 1 : j \in A}
    BY <1>2
  <2>. HIDE DEF A
  <2>5. /\ IsFiniteSet({j + 1 : j \in A}) /\ Cardinality({j + 1 : j \in A}) = Cardinality(A)
        /\ Cardinality(A) \in Nat
    BY <2>1, <2>2, ShiftedPlaces, FS_CardinalityType
  <2>6. CASE Head(w) = Injected
    <3>1. Rank(w, i + 1) = Cardinality({j + 1 : j \in A})
      BY <2>3, <2>6 DEF Rank
    <3>. QED  BY <2>2, <2>5, <2>6, <3>1
  <2>7. CASE Head(w) # Injected
    <3>1. Rank(w, i + 1) = Cardinality({j + 1 : j \in A} \cup {1})
      BY <2>3, <2>7 DEF Rank
    <3>2. Cardinality({j + 1 : j \in A} \cup {1}) = Cardinality(A) + 1
      BY <2>4, <2>5, FS_AddElement
    <3>. QED  BY <2>2, <2>7, <3>1, <3>2
  <2>. QED  BY <2>6, <2>7
<1>6. /\ UserKeys(v) \in Seq(Event) /\ Len(UserKeys(v)) = m
      /\ \A i \in Q : UserKeys(v)[Rank(v, i)] = v[i]
      /\ \A i \in Q : Rank(v, i) \in 1 .. m
  BY <1>1, UserKeysAtRank, RankNumbers DEF Q
<1>7. \A s \in Seq(Event) :
         Len(s) = Cardinality(UserPlaces(w)) /\ (\A i \in UserPlaces(w) : s[Rank(w, i)] = w[i])
           => s = UserKeys(w)
  BY UserKeysAtRank
<1>8. CASE Head(w) = Injected
  <2>1. ASSUME NEW i \in UserPlaces(w)
        PROVE  UserKeys(v)[Rank(w, i)] = w[i]
    <3>1. PICK j \in Q : i = j + 1
      BY <1>3, <1>8
    <3>2. Rank(w, i) = Rank(v, j) /\ w[i] = v[j]
      BY <1>1, <1>2, <1>5, <1>6, <1>8, <3>1
    <3>. QED  BY <1>6, <3>2
  <2>. QED  BY <1>2, <1>4, <1>6, <1>7, <1>8, <2>1 DEF v
<1>9. CASE Head(w) # Injected
  <2>. DEFINE s == <<Head(w)>> \o UserKeys(v)
  <2>1. <<Head(w)>> \in Seq(Event) /\ Len(<<Head(w)>>) = 1 /\ <<Head(w)>>[1] = Head(w)
    BY <1>1
  <2>2. /\ s \in Seq(Event) /\ Len(s) = m + 1
        /\ \A i \in 1 .. m + 1 : s[i] = IF i <= 1 THEN Head(w) ELSE UserKeys(v)[i - 1]
    <3>1. /\ s \in Seq(Event) /\ Len(s) = 1 + m
          /\ \A i \in 1 .. 1 + m : s[i] = IF i <= 1 THEN <<Head(w)>>[i] ELSE UserKeys(v)[i - 1]
      BY <1>6, <2>1, ConcatProperties
    <3>. QED  BY <1>2, <2>1, <3>1
  <2>. HIDE DEF s
  <2>3. Rank(w, 1) = 1
    <3>1. {j \in UserPlaces(w) : j <= 1} = {1}
      BY <1>2, <1>3, <1>9
    <3>2. Cardinality({1}) = 1
      BY FS_Singleton
    <3>. QED  BY <3>1, <3>2 DEF Rank
  <2>4. ASSUME NEW i \in UserPlaces(w)
        PROVE  s[Rank(w, i)] = w[i]
    <3>1. CASE i = 1
      BY <1>1, <1>2, <2>2, <2>3, <3>1
    <3>2. CASE i # 1
      <4>1. PICK j \in Q : i = j + 1
        BY <1>3, <3>2
      <4>2. Rank(w, i) = Rank(v, j) + 1 /\ w[i] = v[j] /\ Rank(v, j) \in 1 .. m
        BY <1>1, <1>2, <1>5, <1>6, <1>9, <4>1
      <4>3. s[Rank(v, j) + 1] = UserKeys(v)[Rank(v, j)]
        BY <1>2, <2>2, <4>2
      <4>. QED  BY <1>6, <4>2, <4>3
    <3>. QED  BY <3>1, <3>2
  <2>5. s = UserKeys(w)
    BY <1>2, <1>4, <1>7, <1>9, <2>2, <2>4
  <2>. QED  BY <1>9, <2>5 DEF s, v
<1>. QED  BY <1>8, <1>9

-----------------------------------------------------------------------------
(***************************************************************************)
(* The steps of the atomic editor.                                         *)
(***************************************************************************)
\* The editor's copy of KeyEngine is KeyEngine.
LEMMA EditorOperators ==
  /\ \A w, k : Editor!EngineStep(w, k) = EngineStep(w, k)
  /\ \A s, t : Editor!DiffReplace(s, t) = DiffReplace(s, t)
  /\ \A d, n : Editor!DropLast(d, n) = DropLast(d, n)
  /\ \A d, k : Editor!Deliver(d, k) = Deliver(d, k)
<1>1. \A w, k : Editor!EngineStep(w, k) = EngineStep(w, k)
  BY Zenon DEF Editor!EngineStep, EngineStep, Editor!Compose, Compose, Editor!Mark, Mark,
         Editor!WordAtBreak, WordAtBreak, Editor!Composed, Composed, Editor!NotVietnamese,
         NotVietnamese, Editor!RawKeys, RawKeys, Editor!IsMacro, IsMacro, Editor!Breaks, Breaks,
         Editor!Ignored, Ignored, Editor!Letter, Letter, Editor!Space, Space, Editor!Backspace,
         Backspace, Editor!Tab, Tab, Editor!Enter, Enter
<1>2. \A s, t : Editor!DiffReplace(s, t) = DiffReplace(s, t)
  BY DEF Editor!DiffReplace, DiffReplace, Editor!CommonPrefix, CommonPrefix, Editor!ScanStops,
         ScanStops, Editor!MinLen, MinLen
<1>3. \A d, n : Editor!DropLast(d, n) = DropLast(d, n)
  BY DEF Editor!DropLast, DropLast
<1>4. \A d, k : Editor!Deliver(d, k) = Deliver(d, k)
  BY DEF Editor!Deliver, Deliver, Editor!DropLast, DropLast, Editor!Backspace, Backspace,
         Editor!Paste, Paste, Editor!Shift, Shift
<1>. QED  BY <1>1, <1>2, <1>3, <1>4

\* The key the editor takes up next is handled whole, or goes out raw.
Handles(k) ==
  \/ Visible' = AtomicText(Visible, core.word, k) /\ core'.word = EngineStep(core.word, k).word
  \/ Visible' = Deliver(Visible, k) /\ core'.word = <<>>

LEMMA EditorHandles ==
  ASSUME Unhandled # <<>>, Unhandled' = Tail(Unhandled), Handles(Head(Unhandled))
  PROVE  Editor!Next
<1>. DEFINE k == Head(Unhandled)
<1>1. CASE Visible' = AtomicText(Visible, core.word, k) /\ core'.word = EngineStep(core.word, k).word
  <2>1. Editor!Process
    BY <1>1, EditorOperators DEF Editor!Process, AtomicText
  <2>. QED  BY <2>1 DEF Editor!Next
<1>2. CASE Visible' = Deliver(Visible, k) /\ core'.word = <<>>
  <2>1. Editor!ProcessRaw
    BY <1>2, EditorOperators DEF Editor!ProcessRaw
  <2>. QED  BY <2>1 DEF Editor!Next
<1>. QED  BY <1>1, <1>2 DEF Handles

LEMMA EditorTypes ==
  ASSUME NEW k \in Keys, Unhandled' = Append(Unhandled, k), Visible' = Visible, core' = core
  PROVE  Editor!Next
<1>1. Editor!Type(k)
  BY DEF Editor!Type
<1>. QED  BY <1>1 DEF Editor!Next

LEMMA EditorStutters ==
  ASSUME Unhandled' = Unhandled, Visible' = Visible, core'.word = core.word
  PROVE  UNCHANGED Editor!vars
  BY DEF Editor!vars

-----------------------------------------------------------------------------
(***************************************************************************)
(* Where the refinement holds.                                             *)
(*                                                                         *)
(* Nothing times out, is lost or is reset; the daemon may be out of reach. *)
(* A key that the core both edits for and leaves to the application (Enter *)
(* after a macro) overtakes its own edit: it is excluded, as are the keys  *)
(* that leave the word behind in the core (Ctrl+V, a lone modifier hides   *)
(* the preedit).  The user's own Backspace is not mistaken for the         *)
(* daemon's, and the buffer holds what is typed.                           *)
(***************************************************************************)
Calm ==
  /\ WholeKeys(Keys)
  /\ Faults \subseteq {"unreachable"}
  /\ QuietBackspace
  /\ MaxKeys <= BufferCap

\* What the addon waits for is exactly what is on its way.
NothingLate ==
  /\ stale = FALSE /\ orphans = 0 /\ held = NoKey /\ pendingForward = NoKey
  /\ owed + InjectedCount(wire) = expected - current

\* Keys and Backspaces can be told apart, and no key is dropped.
KeysTyped ==
  /\ wire \in Seq(Keys \cup {Injected}) /\ buffered \in Seq(Keys)
  /\ \A i \in DOMAIN wire : wire[i] = Backspace => i = 1 /\ ~deleting /\ pc = "idle"
  /\ Len(Unhandled) <= typed /\ typed <= MaxKeys

\* The word being composed is the end of what the user is bound to see.
WordShown ==
  /\ ShownAt(core, panel) /\ EndsIn(Visible, core.word)
  /\ deleting \/ pc # "idle" => panel = <<>>
  /\ link \in {"closed", "throttled"} => core.prev = <<>> /\ core.preedit = core.word
  /\ pc = "flush" => core = FreshCore /\ ~deleting

RInv == IInv /\ NothingLate /\ KeysTyped /\ WordShown

LEMMA UnhandledIs ==
  ASSUME TypeOK, held = NoKey
  PROVE  /\ Unhandled = buffered \o UserKeys(wire) /\ Unhandled \in Seq(Event)
         /\ buffered \in Seq(Event) /\ UserKeys(wire) \in Seq(Event)
<1>1. buffered \in Seq(Event) /\ wire \in Seq(Event)
  BY SeqMonotonic DEF TypeOK, Event
<1>2. UserKeys(wire) \in Seq(Event)
  BY <1>1, UserKeysAtRank
<1>3. buffered \o <<>> = buffered
  BY <1>1, ConcatEmptySeq
<1>4. Unhandled = buffered \o UserKeys(wire)
  BY <1>3 DEF Unhandled
<1>. QED  BY <1>1, <1>2, <1>4, ConcatProperties

LEMMA UnhandledNext ==
  ASSUME TypeOK', held' = NoKey
  PROVE  Unhandled' = buffered' \o UserKeys(wire')
<1>1. buffered' \in Seq(Event)
  BY SeqMonotonic DEF TypeOK, Event
<1>2. buffered' \o <<>> = buffered'
  BY <1>1, ConcatEmptySeq
<1>. QED  BY <1>2 DEF Unhandled

LEMMA VisibleIs ==
  ASSUME TypeOK, ~deleting
  PROVE  Visible = doc \o panel /\ Visible \in Text /\ doc \in Text /\ panel \in Text /\ doc \o <<>> = doc
  BY ConcatText, ConcatEmptySeq DEF Visible, Settled, TypeOK, Text

\* A key that goes through process_key_replace, typed or replayed: what it
\* does to the document, the panel, the core, the socket and the chain.
Replaced(r, o, k) ==
  /\ doc' = IF r.handled /\ o.sent THEN Inserted(r) ELSE Deliver(Inserted(r), k)
  /\ panel' = <<>>
  /\ core' = CoreAfterSend(r, o)
  /\ link' = o.link
  /\ TrackChain(r, o)

LEMMA ReplacedShown ==
  ASSUME WholeKeys(Keys), TypeOK, ChainWellFormed, ~deleting, ShownAt(core, panel),
         EndsIn(Visible, core.word), pendingForward' = NoKey,
         NEW k \in Keys, NEW l \in {"up", "broken"},
         NEW o \in StartUinputReplace(ProcessKeyReplace(core, k), l),
         Replaced(ProcessKeyReplace(core, k), o, k)
  PROVE  /\ Handles(k)
         /\ ShownAt(core', panel') /\ panel' = <<>>
         /\ link' \in {"closed", "throttled"} => core' = FreshCore
         /\ ~o.sent => core' = FreshCore /\ ~deleting'
<1>. DEFINE r == ProcessKeyReplace(core, k)
<1>1. /\ core \in Core /\ doc \in Text /\ panel \in Text /\ k \in Key /\ l \in Link
      /\ Visible = doc \o panel /\ Visible \in Text /\ doc \o <<>> = doc
      /\ core.word \in Text
  BY VisibleIs DEF TypeOK, Core, WholeKeys, Link
<1>2. /\ r.handled \in BOOLEAN /\ r.delete \in Nat /\ r.insert \in Text /\ r.core \in Core
      /\ r.handled => DropLast(doc, r.delete) \o r.insert = AtomicText(Visible, core.word, k)
      /\ ~r.handled => r.delete = 0 /\ Deliver(doc \o r.insert, k) = AtomicText(Visible, core.word, k)
      /\ r.delete > 0 => panel = <<>>
      /\ r.core.word = EngineStep(core.word, k).word /\ r.core.prev = r.core.word
  <2>1. EndsIn(doc \o panel, core.word)
    BY <1>1
  <2>2. core \in Core /\ doc \in Text /\ ShownAt(core, panel) /\ r = ProcessKeyReplace(core, k)
    BY <1>1
  <2>. HIDE DEF r
  <2>3. EditIsAtomic(r, core, doc, panel, k)
    BY <2>1, <2>2, ReplaceIsAtomic
  <2>. QED  BY <1>1, <2>3 DEF EditIsAtomic
<1>3. /\ AtomicText(Visible, core.word, k) \in Text /\ Deliver(Visible, k) \in Text
      /\ AtomicText(Visible, core.word, k) \o <<>> = AtomicText(Visible, core.word, k)
      /\ Deliver(Visible, k) \o <<>> = Deliver(Visible, k)
  <2>1. AtomicText(Visible, core.word, k) \in Text
    BY <1>1, AtomicTextEnds
  <2>2. Deliver(Visible, k) \in Text
    BY <1>1, DeliverText
  <2>. QED  BY <2>1, <2>2, ConcatEmptySeq DEF Text
<1>. HIDE DEF r
<1>4. /\ o.sent \in BOOLEAN /\ o.link \in Link
      /\ Opens(r, o) => o.sent /\ o.link = "up"
      /\ ~o.sent => ~Opens(r, o)
      /\ o.sent /\ ~Opens(r, o) => o.link = l
  BY <1>1, <1>2, StartOutcomes DEF r
<1>5. /\ doc' = IF r.handled /\ o.sent THEN Inserted(r) ELSE Deliver(Inserted(r), k)
      /\ panel' = <<>> /\ core' = CoreAfterSend(r, o) /\ link' = o.link /\ TrackChain(r, o)
  BY DEF Replaced, r
<1>6. CASE Opens(r, o)
  <2>1. o.sent /\ r.delete > 0 /\ r.delete # 0 /\ r.handled /\ panel = <<>>
    BY <1>2, <1>6 DEF Opens
  <2>2. /\ doc' = doc /\ core' = r.core
        /\ deleting' = TRUE /\ expected' = r.delete + 1 /\ current' = 0 /\ pendingCommit' = r.insert
    BY <1>5, <1>6, <2>1 DEF Inserted, CoreAfterSend, TrackChain
  <2>3. expected' - 1 - current' = r.delete
    BY <1>2, <2>2
  <2>4. Settled' = DropLast(doc, r.delete) \o r.insert
    BY <2>2, <2>3 DEF Settled, Completed
  <2>5. Visible' = AtomicText(Visible, core.word, k)
    BY <1>2, <1>3, <1>5, <2>1, <2>4 DEF Visible
  <2>6. link' = "up"
    BY <1>4, <1>5, <1>6
  <2>. QED  BY <1>2, <1>5, <2>1, <2>2, <2>5, <2>6 DEF Handles, ShownAt
<1>7. CASE o.sent /\ ~Opens(r, o)
  <2>1. r.delete = 0 /\ o.link = l /\ deleting' = deleting /\ Inserted(r) = doc \o r.insert
    BY <1>2, <1>4, <1>5, <1>7 DEF Opens, TrackChain, chainVars, Inserted
  <2>2. core' = r.core /\ link' \in {"up", "broken"}
    BY <1>5, <1>7, <2>1 DEF CoreAfterSend
  <2>3. doc' = AtomicText(Visible, core.word, k)
    <3>1. DropLast(doc, 0) = doc
      BY <1>1, DropNothing
    <3>. QED  BY <1>2, <1>5, <1>7, <2>1, <3>1
  <2>4. Visible' = AtomicText(Visible, core.word, k)
    BY <1>3, <1>5, <2>1, <2>3 DEF Visible, Settled
  <2>. QED  BY <1>2, <1>5, <1>7, <2>2, <2>4 DEF Handles, ShownAt
<1>8. CASE ~o.sent
  <2>1. r.delete # 0
    <3>1. ASSUME r.delete = 0 PROVE FALSE
      <4>1. o = [sent |-> TRUE, link |-> l]
        BY <3>1 DEF StartUinputReplace, r
      <4>. QED  BY <1>8, <4>1
    <3>. QED  BY <3>1
  <2>2. panel = <<>> /\ Inserted(r) = doc /\ deleting' = deleting
    BY <1>2, <1>4, <1>5, <1>8, <2>1 DEF TrackChain, chainVars, Inserted
  <2>3. Visible' = Deliver(Visible, k)
    BY <1>1, <1>3, <1>5, <1>8, <2>2 DEF Visible, Settled
  <2>4. core' = FreshCore
    BY <1>5, <1>8 DEF CoreAfterSend
  <2>. QED  BY <1>5, <2>2, <2>3, <2>4 DEF Handles, ShownAt, FreshCore
<1>. QED  BY <1>4, <1>6, <1>7, <1>8

\* A key that goes through process_key, with the word in the panel.
LEMMA PreeditShown ==
  ASSUME WholeKeys(Keys), TypeOK, ~deleting, WordShown, NEW k \in Keys, DispatchPreedit(k)
  PROVE  /\ Handles(k)
         /\ ShownAt(core', panel')
         /\ core'.prev = <<>> /\ core'.preedit = core'.word
         /\ UNCHANGED chainVars
<1>. DEFINE r == ProcessKey(core, k)
<1>1. /\ core \in Core /\ doc \in Text /\ k \in Key /\ link \in Link /\ Visible = doc \o panel
  BY VisibleIs DEF TypeOK, WholeKeys
<1>2. /\ doc' = IF r.handled THEN doc \o r.commit ELSE Deliver(doc \o r.commit, k)
      /\ panel' = r.core.preedit /\ core' = r.core
      /\ "throttled" \in AvailableOutcomes(link) /\ UNCHANGED chainVars
  BY DEF DispatchPreedit
<1>3. link \in {"closed", "throttled"}
  BY <1>1, <1>2, LinkOutcomes
<1>4. core.prev = <<>> /\ core.preedit = core.word /\ panel = core.word
  BY <1>3 DEF WordShown, ShownAt
<1>5. /\ (IF r.handled THEN doc \o r.commit ELSE Deliver(doc \o r.commit, k)) \o r.core.preedit
           = AtomicText(Visible, core.word, k)
      /\ r.core.word = EngineStep(core.word, k).word
      /\ r.core.preedit = r.core.word
  BY <1>1, <1>4, PreeditIsAtomic
<1>6. r.core.prev = <<>>
  BY <1>1, <1>4, ProcessKeyType
<1>. HIDE DEF r
<1>7. Visible' = AtomicText(Visible, core.word, k)
  BY <1>2, <1>5 DEF Visible, Settled, chainVars
<1>. QED  BY <1>2, <1>5, <1>6, <1>7 DEF Handles, ShownAt

-----------------------------------------------------------------------------
(***************************************************************************)
(* Every step keeps the invariant and is a step of the editor.             *)
(***************************************************************************)
Advances ==
  /\ NothingLate' /\ KeysTyped' /\ WordShown'
  /\ Editor!Next \/ UNCHANGED Editor!vars

LEMMA HandledShown ==
  ASSUME WholeKeys(Keys), TypeOK, ~deleting, EndsIn(Visible, core.word), NEW k \in Keys, Handles(k)
  PROVE  EndsIn(Visible', core'.word)
<1>1. Visible \in Text /\ core.word \in Text /\ k \in Key
  BY VisibleIs DEF TypeOK, Core, WholeKeys
<1>2. CASE Visible' = AtomicText(Visible, core.word, k) /\ core'.word = EngineStep(core.word, k).word
  BY <1>1, <1>2, AtomicTextEnds
<1>3. CASE Visible' = Deliver(Visible, k) /\ core'.word = <<>>
  <2>1. Deliver(Visible, k) \in Text
    BY <1>1, DeliverText
  <2>2. Deliver(Visible, k) \o <<>> = Deliver(Visible, k)
    BY <2>1, ConcatEmptySeq DEF Text
  <2>. QED  BY <1>3, <2>1, <2>2 DEF EndsIn
<1>. QED  BY <1>2, <1>3 DEF Handles

\* The head of the stream, and what is left behind it.
LEMMA ReceivedKey ==
  ASSUME Calm, RInv, NEW e, Arrives(e)
  PROVE  /\ e \in Keys \cup {Injected} /\ pc = "idle" /\ Injected \notin Keys
         /\ wire' \in Seq(Keys \cup {Injected})
         /\ UserKeys(wire) = IF e = Injected THEN UserKeys(wire') ELSE <<e>> \o UserKeys(wire')
         /\ \A i \in DOMAIN wire' : wire'[i] # Backspace
         /\ e = Backspace => ~deleting
         /\ InjectedCount(wire') = InjectedCount(wire) - (IF e = Injected THEN 1 ELSE 0)
         /\ InjectedCount(wire) \in Nat /\ InjectedCount(wire') \in Nat
<1>. DEFINE W == Keys \cup {Injected}
<1>1. /\ wire \in Seq(Event) /\ wire \in Seq(W) /\ wire # <<>> /\ e = Head(wire) /\ wire' = Tail(wire)
      /\ pc = "idle" /\ wire' \in Seq(Event)
  BY Arrival DEF RInv, IInv, TypeOK, KeysTyped
<1>2. /\ Len(wire) \in Nat /\ Len(wire) >= 1 /\ DOMAIN wire = 1 .. Len(wire) /\ Head(wire) = wire[1]
      /\ wire' \in Seq(W) /\ DOMAIN wire' = 1 .. Len(wire) - 1 /\ Head(wire) \in W
      /\ \A i \in 1 .. Len(wire) - 1 : wire'[i] = wire[i + 1]
  BY <1>1, LenProperties, EmptySeq, HeadTailProperties
<1>3. \A i \in DOMAIN wire : wire[i] = Backspace => i = 1 /\ ~deleting
  BY DEF RInv, KeysTyped
<1>4. \A i \in DOMAIN wire' : wire'[i] # Backspace
  BY <1>2, <1>3, SMTT(30)
<1>5. e = Backspace => ~deleting
  BY <1>1, <1>2, <1>3
<1>6. Injected \notin Keys
  BY DEF Calm, WholeKeys, Key, Letter, Space, Backspace, Enter, Tab, Paste, Shift, Injected
<1>7. UserKeys(wire) = IF e = Injected THEN UserKeys(wire') ELSE <<e>> \o UserKeys(wire')
  BY <1>1, UserKeysTail
<1>8. InjectedCount(wire') = InjectedCount(wire) - (IF e = Injected THEN 1 ELSE 0)
  BY ReceivedCounts DEF RInv, IInv
<1>9. InjectedCount(wire) \in Nat /\ InjectedCount(wire') \in Nat
  BY <1>1, InjectedFinite DEF InjectedCount
<1>. QED  BY <1>1, <1>2, <1>4, <1>5, <1>6, <1>7, <1>8, <1>9

\* A Backspace of the chain deletes what was bound to be deleted.
LEMMA AckPassesStep ==
  ASSUME Calm, RInv, IInv', NEW e, AckPasses(e)
  PROVE  Advances
<1>1. /\ Arrives(e) /\ orphans' = OrphansLeft /\ deleting /\ IsBackspaceSym(e) /\ current + 1 < expected
      /\ current' = current + 1 /\ doc' = DropLast(doc, 1)
      /\ UNCHANGED <<panel, core, link, owed, deleting, stale, expected, pendingCommit, buffered,
                     pendingForward, pc, held, typed>>
  BY DEF AckPasses, PastOrphans, SettleOrphans, daemonVars, handlerVars
<1>2. /\ TypeOK /\ TypeOK' /\ NothingLate /\ KeysTyped /\ WordShown
  BY DEF RInv, IInv
<1>3. e = Injected
  BY <1>1, ReceivedKey DEF IsBackspaceSym
<1>4. /\ pc = "idle" /\ wire' \in Seq(Keys \cup {Injected}) /\ UserKeys(wire) = UserKeys(wire')
      /\ \A i \in DOMAIN wire' : wire'[i] # Backspace
      /\ InjectedCount(wire') = InjectedCount(wire) - 1
      /\ InjectedCount(wire) \in Nat /\ InjectedCount(wire') \in Nat
  BY <1>1, <1>3, ReceivedKey
<1>5. Unhandled' = Unhandled
  BY <1>1, <1>2, <1>4, UnhandledIs, UnhandledNext DEF NothingLate
<1>6. Visible' = Visible
  <2>1. /\ doc \in Text /\ expected \in Nat /\ current \in Nat
        /\ expected - 1 - current' \in Nat /\ (expected - 1 - current') + 1 = expected - 1 - current
    BY <1>1, <1>2 DEF TypeOK
  <2>2. DropLast(doc', expected - 1 - current') = DropLast(doc, expected - 1 - current)
    BY <1>1, <2>1, DropOneMore
  <2>. QED  BY <1>1, <2>2 DEF Visible, Settled, Completed
<1>7. NothingLate'
  BY <1>1, <1>2, <1>4 DEF NothingLate, OrphansLeft, TypeOK, InjectedCount
<1>8. KeysTyped' /\ WordShown'
  BY <1>1, <1>2, <1>4, <1>5, <1>6 DEF KeysTyped, WordShown
<1>. QED  BY <1>1, <1>5, <1>6, <1>7, <1>8, EditorStutters DEF Advances

\* The acknowledgement commits what was bound to be committed.
LEMMA AckCompletesStep ==
  ASSUME Calm, RInv, IInv', NEW e, AckCompletes(e)
  PROVE  Advances
<1>1. /\ Arrives(e) /\ orphans' = OrphansLeft /\ deleting /\ IsBackspaceSym(e)
      /\ current + 1 >= expected
      /\ doc' = Completed(doc) /\ EndChain /\ pendingForward' = NoKey /\ pc' = "replay"
      /\ UNCHANGED <<panel, core, link, owed, buffered, held, typed>>
  BY DEF AckCompletes, PastOrphans, SettleOrphans, daemonVars
<1>2. TypeOK /\ TypeOK' /\ ChainWellFormed /\ NothingLate /\ KeysTyped /\ WordShown
  BY DEF RInv, IInv
<1>3. e = Injected
  BY <1>1, ReceivedKey DEF IsBackspaceSym
<1>4. /\ pc = "idle" /\ wire' \in Seq(Keys \cup {Injected}) /\ UserKeys(wire) = UserKeys(wire')
      /\ \A i \in DOMAIN wire' : wire'[i] # Backspace
      /\ InjectedCount(wire') = InjectedCount(wire) - 1
      /\ InjectedCount(wire) \in Nat /\ InjectedCount(wire') \in Nat
  BY <1>1, <1>3, ReceivedKey
<1>5. Unhandled' = Unhandled
  BY <1>1, <1>2, <1>4, UnhandledIs, UnhandledNext DEF NothingLate
<1>6. deleting' = FALSE /\ stale' = FALSE /\ expected' = 0 /\ current' = 0
  BY <1>1, EndedChain
<1>7. expected - current = 1 /\ expected - 1 - current = 0
  BY <1>1, <1>2 DEF ChainWellFormed, TypeOK
<1>8. Visible' = Visible
  <2>1. DropLast(doc, expected - 1 - current) = doc
    BY <1>2, <1>7, DropNothing DEF TypeOK
  <2>. QED  BY <1>1, <1>6, <2>1 DEF Visible, Settled
<1>9. NothingLate'
  BY <1>1, <1>2, <1>4, <1>6, <1>7 DEF NothingLate, OrphansLeft, TypeOK, InjectedCount
<1>10. KeysTyped' /\ WordShown'
  BY <1>1, <1>2, <1>4, <1>5, <1>6, <1>8 DEF KeysTyped, WordShown
<1>. QED  BY <1>1, <1>5, <1>8, <1>9, <1>10, EditorStutters DEF Advances

\* A key typed during a chain finds room in the buffer.
LEMMA BufferKeyStep ==
  ASSUME Calm, RInv, IInv', NEW e, BufferKey(e)
  PROVE  Advances
<1>1. /\ Arrives(e) /\ orphans' = OrphansLeft /\ deleting /\ ~IsBackspaceSym(e)
      /\ buffered' = Buffer(e)
      /\ UNCHANGED <<doc, panel, core, link, owed, deleting, stale, expected, current, pendingCommit,
                     pendingForward, pc, held, typed>>
  BY DEF BufferKey, PastOrphans, SettleOrphans, daemonVars, chainVars, handlerVars
<1>2. TypeOK /\ TypeOK' /\ NothingLate /\ KeysTyped /\ WordShown
  BY DEF RInv, IInv
<1>3. /\ e \in Keys /\ e # Shift /\ e \in Event /\ e # Injected
  BY <1>1, ReceivedKey, ParameterAssumption DEF IsBackspaceSym, Calm, WholeKeys, Event
<1>4. /\ pc = "idle" /\ wire' \in Seq(Keys \cup {Injected})
      /\ UserKeys(wire) = <<e>> \o UserKeys(wire')
      /\ \A i \in DOMAIN wire' : wire'[i] # Backspace
      /\ InjectedCount(wire') = InjectedCount(wire)
      /\ InjectedCount(wire) \in Nat
  BY <1>1, <1>3, ReceivedKey
<1>5. /\ Unhandled = buffered \o UserKeys(wire) /\ Unhandled' = buffered' \o UserKeys(wire')
      /\ buffered \in Seq(Event) /\ UserKeys(wire) \in Seq(Event) /\ UserKeys(wire') \in Seq(Event)
      /\ <<e>> \in Seq(Event)
  <2>1. wire' \in Seq(Event)
    BY <1>2 DEF TypeOK
  <2>2. UserKeys(wire') \in Seq(Event)
    BY <2>1, UserKeysAtRank
  <2>3. <<e>> \in Seq(Event)
    BY <1>3
  <2>. QED  BY <1>1, <1>2, <2>2, <2>3, UnhandledIs, UnhandledNext DEF NothingLate
<1>6. Len(buffered) < BufferCap
  <2>1. /\ Len(Unhandled) = Len(buffered) + (1 + Len(UserKeys(wire')))
        /\ Len(buffered) \in Nat /\ Len(UserKeys(wire')) \in Nat
    BY <1>4, <1>5, ConcatProperties, LenProperties
  <2>2. Len(Unhandled) <= typed /\ typed <= MaxKeys /\ MaxKeys <= BufferCap
        /\ typed \in Nat /\ MaxKeys \in Nat /\ BufferCap \in Nat
    BY <1>2, ParameterAssumption DEF KeysTyped, Calm, TypeOK
  <2>. QED  BY <2>1, <2>2
<1>7. buffered' = Append(buffered, e) /\ buffered' = buffered \o <<e>> /\ buffered' \in Seq(Keys)
  <2>1. buffered' = Append(buffered, e)
    BY <1>1, <1>3, <1>6 DEF Buffer
  <2>. QED  BY <1>2, <1>3, <2>1, AppendProperties, AppendIsConcat DEF KeysTyped
<1>8. Unhandled' = Unhandled
  <2>1. (buffered \o <<e>>) \o UserKeys(wire') = buffered \o (<<e>> \o UserKeys(wire'))
    BY <1>5, ConcatAssociative
  <2>. QED  BY <1>4, <1>5, <1>7, <2>1
<1>9. Visible' = Visible
  BY <1>1 DEF Visible, Settled, Completed
<1>10. NothingLate'
  BY <1>1, <1>2, <1>4 DEF NothingLate, OrphansLeft, TypeOK, InjectedCount
<1>11. KeysTyped' /\ WordShown'
  BY <1>1, <1>2, <1>4, <1>7, <1>8, <1>9 DEF KeysTyped, WordShown
<1>. QED  BY <1>1, <1>8, <1>9, <1>10, <1>11, EditorStutters DEF Advances

-----------------------------------------------------------------------------
(***************************************************************************)
(* The head of a queue.                                                    *)
(***************************************************************************)
LEMMA HeadOfConcat ==
  ASSUME NEW S, NEW s \in Seq(S), s # <<>>, NEW t \in Seq(S)
  PROVE  /\ s \o t # <<>> /\ Head(s \o t) = Head(s) /\ Tail(s \o t) = Tail(s) \o t
         /\ Len(Tail(s) \o t) = Len(s \o t) - 1 /\ Len(s \o t) \in Nat
<1>1. /\ Len(s) \in Nat /\ Len(s) >= 1 /\ Len(t) \in Nat /\ Head(s) = s[1]
      /\ Tail(s) \in Seq(S) /\ Len(Tail(s)) = Len(s) - 1
      /\ \A i \in 1 .. Len(s) - 1 : Tail(s)[i] = s[i + 1]
  BY LenProperties, EmptySeq, HeadTailProperties
<1>2. /\ s \o t \in Seq(S) /\ Len(s \o t) = Len(s) + Len(t)
      /\ \A i \in 1 .. Len(s) + Len(t) :
           (s \o t)[i] = IF i <= Len(s) THEN s[i] ELSE t[i - Len(s)]
  BY ConcatProperties
<1>3. s \o t # <<>>
  BY <1>1, <1>2, EmptySeq
<1>4. /\ Tail(s \o t) \in Seq(S) /\ Len(Tail(s \o t)) = Len(s) + Len(t) - 1
      /\ \A i \in 1 .. Len(s) + Len(t) - 1 : Tail(s \o t)[i] = (s \o t)[i + 1]
      /\ Head(s \o t) = (s \o t)[1]
  BY <1>2, <1>3, HeadTailProperties
<1>5. /\ Tail(s) \o t \in Seq(S) /\ Len(Tail(s) \o t) = Len(s) - 1 + Len(t)
      /\ \A i \in 1 .. Len(s) - 1 + Len(t) :
           (Tail(s) \o t)[i] = IF i <= Len(s) - 1 THEN Tail(s)[i] ELSE t[i - (Len(s) - 1)]
  <2>1. /\ Tail(s) \o t \in Seq(S) /\ Len(Tail(s) \o t) = Len(Tail(s)) + Len(t)
        /\ \A i \in 1 .. Len(Tail(s)) + Len(t) :
             (Tail(s) \o t)[i] = IF i <= Len(Tail(s)) THEN Tail(s)[i] ELSE t[i - Len(Tail(s))]
    BY <1>1, ConcatProperties
  <2>. QED  BY <1>1, <2>1
<1>6. ASSUME NEW i \in 1 .. Len(s) + Len(t) - 1
      PROVE  Tail(s \o t)[i] = (Tail(s) \o t)[i]
  <2>1. Tail(s \o t)[i] = IF i + 1 <= Len(s) THEN s[i + 1] ELSE t[i + 1 - Len(s)]
    BY <1>1, <1>2, <1>4
  <2>2. CASE i <= Len(s) - 1
    BY <1>1, <1>5, <2>1, <2>2
  <2>3. CASE ~(i <= Len(s) - 1)
    <3>1. i - (Len(s) - 1) = i + 1 - Len(s)
      BY <1>1
    <3>. QED  BY <1>1, <1>5, <2>1, <2>3, <3>1
  <2>. QED  BY <2>2, <2>3
<1>7. Tail(s \o t) = Tail(s) \o t
  <2>1. Len(Tail(s \o t)) = Len(Tail(s) \o t)
    BY <1>1, <1>4, <1>5
  <2>2. \A i \in 1 .. Len(Tail(s \o t)) : Tail(s \o t)[i] = (Tail(s) \o t)[i]
    BY <1>4, <1>6
  <2>. QED  BY <1>4, <1>5, <2>1, <2>2, SeqEqual
<1>8. Head(s \o t) = Head(s)
  BY <1>1, <1>2, <1>4
<1>. QED  BY <1>1, <1>2, <1>3, <1>5, <1>7, <1>8

LEMMA ConsProperties ==
  ASSUME NEW S, NEW x \in S, NEW t \in Seq(S)
  PROVE  /\ <<x>> \o t # <<>> /\ Head(<<x>> \o t) = x /\ Tail(<<x>> \o t) = t
         /\ Len(t) = Len(<<x>> \o t) - 1 /\ Len(<<x>> \o t) \in Nat
<1>1. <<x>> \in Seq(S) /\ <<x>> # <<>> /\ Head(<<x>>) = x /\ Tail(<<x>>) = <<>>
  OBVIOUS
<1>2. <<>> \o t = t
  BY ConcatEmptySeq
<1>. QED  BY <1>1, <1>2, HeadOfConcat

\* A chain that is opened now is young.
LEMMA DispatchKeepsAge ==
  ASSUME NEW e, Dispatch(e), stale = FALSE
  PROVE  stale' = FALSE
<1>1. ASSUME NEW r, NEW o, TrackChain(r, o)
      PROVE  stale' = FALSE
  BY <1>1 DEF TrackChain, chainVars
<1>2. CASE DispatchUinput(Sym(e))
  BY <1>1, <1>2 DEF DispatchUinput
<1>3. CASE DispatchPreedit(Sym(e))
  BY <1>3 DEF DispatchPreedit, chainVars
<1>. QED  BY <1>2, <1>3 DEF Dispatch

\* A key that no chain holds back goes to the core.
LEMMA HandleKeyStep ==
  ASSUME Calm, RInv, IInv', NEW e \in Event, HandleKey(e)
  PROVE  Advances
<1>1. /\ Arrives(e) /\ orphans' = OrphansLeft /\ ~deleting /\ Dispatch(e)
      /\ UNCHANGED <<buffered, pendingForward, pc, held, typed>>
  BY DEF HandleKey, PastOrphans, SettleOrphans, handlerVars
<1>2. /\ TypeOK /\ TypeOK' /\ ChainWellFormed /\ ChainWellFormed' /\ NothingStranded
      /\ NothingLate /\ KeysTyped /\ WordShown /\ WholeKeys(Keys)
  BY DEF RInv, IInv, Calm
<1>3. /\ e \in Keys \cup {Injected} /\ pc = "idle"
      /\ wire' \in Seq(Keys \cup {Injected}) /\ wire' \in Seq(Event)
      /\ \A i \in DOMAIN wire' : wire'[i] # Backspace
      /\ InjectedCount(wire) \in Nat /\ InjectedCount(wire') \in Nat
      /\ InjectedCount(wire') = InjectedCount(wire) - (IF e = Injected THEN 1 ELSE 0)
      /\ UserKeys(wire) = IF e = Injected THEN UserKeys(wire') ELSE <<e>> \o UserKeys(wire')
  BY <1>1, <1>2, ReceivedKey DEF TypeOK
<1>4. expected = 0 /\ current = 0 /\ owed = 0 /\ InjectedCount(wire) = 0 /\ buffered = <<>>
  <2>1. owed \in Nat /\ expected = 0 /\ current = 0 /\ owed + InjectedCount(wire) = expected - current
    BY <1>1, <1>2 DEF TypeOK, ChainWellFormed, NothingLate
  <2>. QED  BY <1>1, <1>2, <1>3, <2>1 DEF NothingStranded
<1>5. e # Injected /\ e \in Keys /\ Sym(e) = e
  BY <1>3, <1>4 DEF Sym
<1>6. /\ Unhandled = <<e>> \o UserKeys(wire') /\ Unhandled' = UserKeys(wire')
      /\ UserKeys(wire') \in Seq(Event) /\ <<e>> \in Seq(Event)
  <2>1. UserKeys(wire') \in Seq(Event)
    BY <1>3, UserKeysAtRank
  <2>2. <<e>> \in Seq(Event)
    OBVIOUS
  <2>3. Unhandled = <<>> \o (<<e>> \o UserKeys(wire')) /\ Unhandled' = <<>> \o UserKeys(wire')
    BY <1>1, <1>2, <1>3, <1>4, <1>5, UnhandledIs, UnhandledNext DEF NothingLate
  <2>4. <<e>> \o UserKeys(wire') \in Seq(Event)
    BY <2>1, <2>2, ConcatProperties
  <2>. QED  BY <2>1, <2>2, <2>3, <2>4, ConcatEmptySeq
<1>7. /\ Unhandled # <<>> /\ Head(Unhandled) = e /\ Unhandled' = Tail(Unhandled)
      /\ Len(Unhandled') = Len(Unhandled) - 1 /\ Len(Unhandled) \in Nat
  BY <1>6, ConsProperties
<1>8. /\ Handles(e) /\ ShownAt(core', panel')
      /\ deleting' => panel' = <<>>
      /\ link' \in {"closed", "throttled"} => core'.prev = <<>> /\ core'.preedit = core'.word
  <2>1. CASE DispatchUinput(e)
    <3>. DEFINE r == ProcessKeyReplace(core, e)
    <3>1. PICK l \in UsableLinks(link) : \E o \in StartUinputReplace(r, l) :
               /\ doc' = IF r.handled /\ o.sent THEN Inserted(r) ELSE Deliver(Inserted(r), e)
               /\ panel' = <<>>
               /\ core' = CoreAfterSend(r, o)
               /\ link' = o.link
               /\ TrackChain(r, o)
      BY <2>1 DEF DispatchUinput
    <3>2. PICK o \in StartUinputReplace(r, l) :
               /\ doc' = IF r.handled /\ o.sent THEN Inserted(r) ELSE Deliver(Inserted(r), e)
               /\ panel' = <<>>
               /\ core' = CoreAfterSend(r, o)
               /\ link' = o.link
               /\ TrackChain(r, o)
      BY <3>1
    <3>3. Replaced(r, o, e)
      BY <3>2 DEF Replaced
    <3>4. l \in {"up", "broken"}
      BY <1>2, LinkOutcomes DEF TypeOK
    <3>5. pendingForward' = NoKey /\ ShownAt(core, panel) /\ EndsIn(Visible, core.word)
      BY <1>1, <1>2 DEF NothingLate, WordShown
    <3>6. /\ Handles(e) /\ ShownAt(core', panel') /\ panel' = <<>>
          /\ link' \in {"closed", "throttled"} => core' = FreshCore
      BY <1>1, <1>2, <1>5, <3>3, <3>4, <3>5, ReplacedShown
    <3>. QED  BY <3>6 DEF FreshCore
  <2>2. CASE DispatchPreedit(e)
    <3>1. /\ Handles(e) /\ ShownAt(core', panel')
          /\ core'.prev = <<>> /\ core'.preedit = core'.word /\ UNCHANGED chainVars
      BY <1>1, <1>2, <1>5, <2>2, PreeditShown
    <3>. QED  BY <1>1, <3>1 DEF chainVars
  <2>. QED  BY <1>1, <1>5, <2>1, <2>2 DEF Dispatch
<1>9. EndsIn(Visible', core'.word)
  BY <1>1, <1>2, <1>5, <1>8, HandledShown DEF WordShown
<1>10. NothingLate'
  <2>1. PICK n \in Nat : expected' = expected + n /\ owed' = owed + n /\ current' = current
    BY <1>1, DispatchedDebt DEF RInv, AsksAndExpects
  <2>2. owed' + InjectedCount(wire') = expected' - current'
    BY <1>3, <1>4, <1>5, <2>1
  <2>3. stale' = FALSE
    BY <1>1, <1>2, DispatchKeepsAge DEF NothingLate
  <2>. QED  BY <1>1, <1>2, <2>2, <2>3 DEF NothingLate, OrphansLeft, InjectedCount
<1>11. KeysTyped'
  <2>1. Len(Unhandled') <= typed' /\ typed' <= MaxKeys
    BY <1>1, <1>2, <1>7, ParameterAssumption DEF KeysTyped, TypeOK
  <2>. QED  BY <1>1, <1>2, <1>3, <2>1 DEF KeysTyped
<1>12. WordShown'
  BY <1>1, <1>3, <1>8, <1>9 DEF WordShown
<1>. QED  BY <1>7, <1>8, <1>10, <1>11, <1>12, EditorHandles DEF Advances

LEMMA KeyEventAdvances ==
  ASSUME Calm, RInv, IInv', KeyEvent
  PROVE  Advances
<1>1. PICK e \in Event : \/ SwallowOrphan(e) \/ AckPasses(e) \/ AckCompletes(e)
                         \/ ChainTimesOut(e) \/ BufferKey(e) \/ HandleKey(e)
  BY DEF KeyEvent
<1>2. ~SwallowOrphan(e) /\ ~ChainTimesOut(e)
  BY DEF RInv, NothingLate, SwallowOrphan, OrphansLeft, ChainTimesOut, Expired
<1>. QED  BY <1>1, <1>2, AckPassesStep, AckCompletesStep, BufferKeyStep, HandleKeyStep

\* The next buffered key is replayed as if it were typed now.
LEMMA ReplayTurnStep ==
  ASSUME Calm, RInv, IInv', ReplayTurn
  PROVE  Advances
<1>. DEFINE k == Head(buffered)
            r == ProcessKeyReplace(core, k)
            literal(o) == IsText(k) /\ ~(r.handled /\ o.sent)
            forward(o) == ~IsText(k) /\ ~(r.handled /\ o.sent)
<1>1. PICK o \in StartUinputReplace(r, link) :
        /\ doc' = IF literal(o) \/ (forward(o) /\ ForwardsNow(r, o))
                  THEN Deliver(Inserted(r), k) ELSE Inserted(r)
        /\ pendingForward' = IF forward(o) /\ ~ForwardsNow(r, o) THEN k ELSE pendingForward
        /\ core' = CoreAfterSend(r, o)
        /\ link' = o.link
        /\ TrackChain(r, o)
        /\ pc' = IF o.sent THEN "replay" ELSE "flush"
  BY DEF ReplayTurn
<1>2. /\ pc = "replay" /\ buffered # <<>> /\ ~deleting /\ buffered' = Tail(buffered)
      /\ panel' = <<>> /\ UNCHANGED <<wire, orphans, held, typed>>
  BY DEF ReplayTurn, orphanVars
<1>3. /\ TypeOK /\ TypeOK' /\ ChainWellFormed /\ ChainHoldsLink
      /\ NothingLate /\ KeysTyped /\ WordShown /\ WholeKeys(Keys) /\ panel = <<>>
  BY <1>2 DEF RInv, IInv, Calm, WordShown
<1>4. k \in Keys /\ k \in Key /\ buffered' \in Seq(Keys) /\ link \in {"up", "broken"}
  BY <1>2, <1>3, HeadTailProperties DEF KeysTyped, ChainHoldsLink, WholeKeys
<1>5. ShownAt(core, panel) /\ EndsIn(Visible, core.word)
  BY <1>3 DEF WordShown
<1>6. /\ r.handled \in BOOLEAN /\ r.delete \in Nat
      /\ ~r.handled => r.delete = 0
  <2>1. core \in Core /\ doc \in Text /\ Visible = doc \o panel
    BY <1>2, <1>3, VisibleIs DEF TypeOK
  <2>2. EditIsAtomic(r, core, doc, panel, k)
    <3>1. r = ProcessKeyReplace(core, k) /\ EndsIn(doc \o panel, core.word)
      BY <1>5, <2>1
    <3>. HIDE DEF r, k
    <3>. QED  BY <1>3, <1>4, <1>5, <2>1, <3>1, ReplaceIsAtomic
  <2>. QED  BY <2>2 DEF EditIsAtomic
<1>7. /\ o.sent \in BOOLEAN /\ (Opens(r, o) => o.sent)
  <2>1. r.delete \in Nat /\ link \in Link
    BY <1>4, <1>6 DEF Link
  <2>. QED  BY <2>1, StartOutcomes
<1>8. ~(forward(o) /\ ~ForwardsNow(r, o))
  BY <1>6, <1>7 DEF ForwardsNow, Opens
<1>9. pendingForward' = NoKey
  BY <1>1, <1>3, <1>8 DEF NothingLate
<1>10. Replaced(r, o, k)
  <2>1. doc' = IF r.handled /\ o.sent THEN Inserted(r) ELSE Deliver(Inserted(r), k)
    BY <1>1, <1>8
  <2>. QED  BY <1>1, <1>2, <2>1 DEF Replaced
<1>11. /\ Handles(k) /\ ShownAt(core', panel') /\ panel' = <<>>
       /\ link' \in {"closed", "throttled"} => core' = FreshCore
       /\ ~o.sent => core' = FreshCore /\ ~deleting'
  BY <1>2, <1>3, <1>4, <1>5, <1>9, <1>10, ReplacedShown
<1>12. EndsIn(Visible', core'.word)
  BY <1>2, <1>3, <1>4, <1>5, <1>11, HandledShown
<1>13. /\ Unhandled # <<>> /\ Head(Unhandled) = k /\ Unhandled' = Tail(Unhandled)
       /\ Len(Unhandled') = Len(Unhandled) - 1 /\ Len(Unhandled) \in Nat
  <2>1. /\ Unhandled = buffered \o UserKeys(wire) /\ Unhandled' = Tail(buffered) \o UserKeys(wire)
        /\ buffered \in Seq(Event) /\ UserKeys(wire) \in Seq(Event)
    BY <1>2, <1>3, UnhandledIs, UnhandledNext DEF NothingLate
  <2>. QED  BY <1>2, <2>1, HeadOfConcat
<1>14. NothingLate'
  <2>1. AsksAndExpects
    BY ReplayAsks DEF RInv, Replay
  <2>2. PICK n \in Nat : expected' = expected + n /\ owed' = owed + n /\ current' = current
    BY <2>1 DEF AsksAndExpects
  <2>3. owed \in Nat /\ expected \in Nat /\ current \in Nat /\ InjectedCount(wire) \in Nat
    BY <1>3, AccountNumbers
  <2>4. owed' + InjectedCount(wire') = expected' - current'
    BY <1>2, <1>3, <2>2, <2>3 DEF NothingLate, InjectedCount
  <2>5. stale' = FALSE
    BY <1>1, <1>3 DEF TrackChain, chainVars, NothingLate
  <2>. QED  BY <1>2, <1>3, <1>9, <2>4, <2>5 DEF NothingLate, InjectedCount
<1>15. KeysTyped'
  <2>1. Len(Unhandled') <= typed' /\ typed' <= MaxKeys
    BY <1>2, <1>3, <1>13 DEF KeysTyped, TypeOK
  <2>2. \A i \in DOMAIN wire : wire[i] # Backspace
    BY <1>2, <1>3 DEF KeysTyped
  <2>. QED  BY <1>2, <1>3, <1>4, <2>1, <2>2 DEF KeysTyped
<1>16. WordShown'
  BY <1>1, <1>7, <1>11, <1>12 DEF WordShown, FreshCore
<1>. QED  BY <1>11, <1>13, <1>14, <1>15, <1>16, EditorHandles DEF Advances

\* The daemon has failed: the buffered key goes out as it is.
LEMMA FlushTurnStep ==
  ASSUME Calm, RInv, IInv', FlushTurn
  PROVE  Advances
<1>. DEFINE k == Head(buffered)
<1>1. /\ pc = "flush" /\ buffered # <<>> /\ doc' = Deliver(doc, k) /\ buffered' = Tail(buffered)
      /\ UNCHANGED <<panel, core, link, owed, wire, deleting, stale, expected, current,
                     pendingForward, orphans, pc, held, typed>>
  BY DEF FlushTurn, daemonVars, chainVars, orphanVars, handlerVars
<1>2. /\ TypeOK /\ TypeOK' /\ NothingLate /\ KeysTyped /\ WordShown /\ WholeKeys(Keys)
      /\ panel = <<>> /\ core = FreshCore /\ ~deleting
  BY <1>1 DEF RInv, IInv, Calm, WordShown
<1>3. k \in Keys /\ buffered' \in Seq(Keys)
  BY <1>1, <1>2, HeadTailProperties DEF KeysTyped
<1>4. Visible = doc /\ Visible' = Deliver(doc, k) /\ core'.word = <<>>
  <2>1. Visible = doc
    BY <1>2, VisibleIs
  <2>2. doc' \in Text
    BY <1>2 DEF TypeOK
  <2>3. Visible' = doc' \o <<>>
    BY <1>1, <1>2 DEF Visible, Settled
  <2>4. doc' \o <<>> = doc'
    BY <2>2, ConcatEmptySeq DEF Text
  <2>. QED  BY <1>1, <1>2, <2>1, <2>3, <2>4 DEF FreshCore
<1>5. Handles(k)
  BY <1>4 DEF Handles
<1>6. EndsIn(Visible', core'.word)
  BY <1>2, <1>3, <1>5, HandledShown DEF WordShown
<1>7. /\ Unhandled # <<>> /\ Head(Unhandled) = k /\ Unhandled' = Tail(Unhandled)
      /\ Len(Unhandled') = Len(Unhandled) - 1 /\ Len(Unhandled) \in Nat
  <2>1. /\ Unhandled = buffered \o UserKeys(wire) /\ Unhandled' = Tail(buffered) \o UserKeys(wire)
        /\ buffered \in Seq(Event) /\ UserKeys(wire) \in Seq(Event)
    BY <1>1, <1>2, UnhandledIs, UnhandledNext DEF NothingLate
  <2>. QED  BY <1>1, <2>1, HeadOfConcat
<1>8. NothingLate'
  BY <1>1, <1>2 DEF NothingLate, InjectedCount
<1>9. KeysTyped'
  <2>1. Len(Unhandled') <= typed' /\ typed' <= MaxKeys
    BY <1>1, <1>2, <1>7 DEF KeysTyped, TypeOK
  <2>. QED  BY <1>1, <1>2, <1>3, <2>1 DEF KeysTyped
<1>10. WordShown'
  BY <1>1, <1>2, <1>6 DEF WordShown
<1>. QED  BY <1>5, <1>7, <1>8, <1>9, <1>10, EditorHandles DEF Advances

\* The end of the loop is nothing the user can see.
LEMMA ReplayStopsStep ==
  ASSUME Calm, RInv, IInv', FlushEnds \/ ReplayEnds
  PROVE  Advances
<1>1. TypeOK /\ TypeOK' /\ NothingLate /\ KeysTyped /\ WordShown
  BY DEF RInv, IInv
<1>2. /\ UNCHANGED <<doc, panel, link, owed, wire, deleting, stale, expected, current, pendingCommit,
                     buffered, pendingForward, orphans, held, typed>>
      /\ core' = core /\ pc # "idle" /\ pc' \in {"idle", "replay"}
  <2>1. CASE FlushEnds
    BY <1>1, <2>1 DEF FlushEnds, WordShown, daemonVars, chainVars, orphanVars
  <2>2. CASE ReplayEnds
    BY <1>1, <2>2 DEF ReplayEnds, NothingLate, chainVars, orphanVars
  <2>. QED  BY <2>1, <2>2
<1>3. Visible' = Visible /\ Unhandled' = Unhandled
  BY <1>2 DEF Visible, Settled, Completed, Unhandled
<1>4. NothingLate'
  BY <1>1, <1>2 DEF NothingLate, InjectedCount
<1>5. KeysTyped'
  BY <1>1, <1>2, <1>3 DEF KeysTyped
<1>6. WordShown'
  BY <1>1, <1>2, <1>3 DEF WordShown
<1>. QED  BY <1>2, <1>3, <1>4, <1>5, <1>6, EditorStutters DEF Advances

\* A key that is typed waits behind all the others.
LEMMA TypeStep ==
  ASSUME Calm, RInv, IInv', NEW k \in Keys, Type(k)
  PROVE  Advances
<1>1. /\ typed < MaxKeys /\ typed' = typed + 1 /\ wire' = Append(wire, k)
      /\ k = Backspace => wire = <<>> /\ ~deleting /\ pc = "idle"
      /\ UNCHANGED <<doc, panel, core, link, owed, deleting, stale, expected, current, pendingCommit,
                     buffered, pendingForward, orphans, pc, held>>
  BY DEF Calm, Type, Quiet, daemonVars, chainVars, orphanVars, handlerVars
<1>2. TypeOK /\ TypeOK' /\ NothingLate /\ KeysTyped /\ WordShown /\ WholeKeys(Keys)
  BY DEF RInv, IInv, Calm
<1>3. k \in Event /\ k # Injected /\ wire \in Seq(Event)
  BY <1>2 DEF WholeKeys, Event, Key, Letter, Space, Backspace, Enter, Tab, Paste, Shift,
              Injected, TypeOK
<1>4. /\ Unhandled' = Append(Unhandled, k) /\ Len(Unhandled') = Len(Unhandled) + 1
      /\ Len(Unhandled) \in Nat
  <2>1. UserKeys(wire') = Append(UserKeys(wire), k)
    BY <1>1, <1>3, UserKeysAppend
  <2>2. /\ Unhandled = buffered \o UserKeys(wire) /\ Unhandled' = buffered \o Append(UserKeys(wire), k)
        /\ buffered \in Seq(Event) /\ UserKeys(wire) \in Seq(Event) /\ Unhandled \in Seq(Event)
    BY <1>1, <1>2, <2>1, UnhandledIs, UnhandledNext DEF NothingLate
  <2>3. buffered \o Append(UserKeys(wire), k) = Append(buffered \o UserKeys(wire), k)
    <3>1. /\ Append(UserKeys(wire), k) = UserKeys(wire) \o <<k>>
          /\ Append(buffered \o UserKeys(wire), k) = (buffered \o UserKeys(wire)) \o <<k>>
      BY <1>3, <2>2, AppendIsConcat
    <3>2. <<k>> \in Seq(Event)
      BY <1>3
    <3>3. (buffered \o UserKeys(wire)) \o <<k>> = buffered \o (UserKeys(wire) \o <<k>>)
      BY <2>2, <3>2, ConcatAssociative
    <3>. QED  BY <3>1, <3>3
  <2>. QED  BY <1>3, <2>2, <2>3, AppendProperties, LenProperties
<1>5. Visible' = Visible
  BY <1>1 DEF Visible, Settled, Completed
<1>6. NothingLate'
  <2>1. InjectedCount(wire') = InjectedCount(wire)
    <3>1. InjectedCount(wire') = InjectedCount(wire) + 0
      BY <1>1, <1>3, InjectedAppend DEF InjectedCount
    <3>2. InjectedCount(wire) \in Nat
      BY <1>3, InjectedFinite DEF InjectedCount
    <3>. QED  BY <3>1, <3>2
  <2>. QED  BY <1>1, <1>2, <2>1 DEF NothingLate, InjectedCount
<1>7. KeysTyped'
  <2>1. Len(Unhandled') <= typed' /\ typed' <= MaxKeys
    BY <1>1, <1>2, <1>4, ParameterAssumption DEF KeysTyped, TypeOK
  <2>2. wire' \in Seq(Keys \cup {Injected})
    BY <1>1, <1>2, AppendProperties DEF KeysTyped
  <2>3. ASSUME NEW i \in DOMAIN wire', wire'[i] = Backspace
        PROVE  i = 1 /\ ~deleting /\ pc = "idle"
    <3>1. /\ Len(wire) \in Nat /\ DOMAIN wire = 1 .. Len(wire) /\ DOMAIN wire' = 1 .. Len(wire) + 1
          /\ \A j \in 1 .. Len(wire) : wire'[j] = wire[j]
          /\ wire'[Len(wire) + 1] = k
      BY <1>1, <1>3, LenProperties, AppendProperties
    <3>2. CASE i \in 1 .. Len(wire)
      BY <1>2, <2>3, <3>1, <3>2 DEF KeysTyped
    <3>3. CASE i = Len(wire) + 1
      <4>1. wire = <<>> /\ ~deleting /\ pc = "idle"
        BY <1>1, <2>3, <3>1, <3>3
      <4>. QED  BY <3>3, <4>1, EmptySeq
    <3>. QED  BY <3>1, <3>2, <3>3
  <2>. QED  BY <1>1, <1>2, <2>1, <2>2, <2>3 DEF KeysTyped
<1>8. WordShown'
  BY <1>1, <1>2, <1>5 DEF WordShown
<1>. QED  BY <1>1, <1>4, <1>5, <1>6, <1>7, <1>8, EditorTypes DEF Advances

\* The daemon presses a key, and none of the user's.
LEMMA InjectStep ==
  ASSUME Calm, RInv, IInv', Inject
  PROVE  Advances
<1>1. /\ owed > 0 /\ owed' = owed - 1 /\ wire' = Append(wire, Injected)
      /\ UNCHANGED <<doc, panel, core, link, deleting, stale, expected, current, pendingCommit,
                     buffered, pendingForward, orphans, pc, held, typed>>
  BY DEF Inject, chainVars, orphanVars, handlerVars
<1>2. TypeOK /\ TypeOK' /\ NothingLate /\ KeysTyped /\ WordShown
  BY DEF RInv, IInv
<1>3. Injected \in Event /\ wire \in Seq(Event) /\ Injected # Backspace
  BY <1>2 DEF Event, TypeOK, Injected, Backspace
<1>4. Unhandled' = Unhandled
  <2>1. UserKeys(wire') = UserKeys(wire)
    BY <1>1, <1>3, UserKeysAppend
  <2>. QED  BY <1>1, <2>1 DEF Unhandled
<1>5. Visible' = Visible
  BY <1>1 DEF Visible, Settled, Completed
<1>6. NothingLate'
  <2>1. InjectedCount(wire') = InjectedCount(wire) + 1 /\ InjectedCount(wire) \in Nat
    BY <1>1, <1>3, InjectedAppend, InjectedFinite DEF InjectedCount
  <2>2. owed' + InjectedCount(wire') = owed + InjectedCount(wire)
    BY <1>1, <1>2, <2>1 DEF TypeOK
  <2>. QED  BY <1>1, <1>2, <2>2 DEF NothingLate, InjectedCount
<1>7. KeysTyped'
  <2>1. wire' \in Seq(Keys \cup {Injected})
    BY <1>1, <1>2, AppendProperties DEF KeysTyped
  <2>2. /\ Len(wire) \in Nat /\ DOMAIN wire = 1 .. Len(wire) /\ DOMAIN wire' = 1 .. Len(wire) + 1
        /\ \A j \in 1 .. Len(wire) : wire'[j] = wire[j]
        /\ wire'[Len(wire) + 1] = Injected
    BY <1>1, <1>3, LenProperties, AppendProperties
  <2>3. ASSUME NEW i \in DOMAIN wire', wire'[i] = Backspace
        PROVE  i = 1 /\ ~deleting /\ pc = "idle"
    <3>1. i \in DOMAIN wire /\ wire[i] = Backspace
      BY <1>3, <2>2, <2>3
    <3>. QED  BY <1>2, <3>1 DEF KeysTyped
  <2>. QED  BY <1>1, <1>2, <1>4, <2>1, <2>3 DEF KeysTyped
<1>8. WordShown'
  BY <1>1, <1>2, <1>5 DEF WordShown
<1>. QED  BY <1>1, <1>4, <1>5, <1>6, <1>7, <1>8, EditorStutters DEF Advances

LEMMA OtherAdvances ==
  ASSUME Calm, RInv, IInv',
         \/ Reset \/ \E imSwitch \in BOOLEAN : Deactivate(imSwitch)
         \/ Environment \/ UNCHANGED vars
  PROVE  Advances
<1>1. /\ ~Reset /\ ~(\E imSwitch \in BOOLEAN : Deactivate(imSwitch))
      /\ ~LoseBackspace /\ ~DaemonStops /\ ~ChainGrowsOld
  BY DEF Calm, Reset, Deactivate, LoseBackspace, DaemonStops, ChainGrowsOld
<1>2. ~OrphansGrowOld
  BY DEF RInv, NothingLate, OrphansGrowOld
<1>3. CASE RetryIntervalPasses \/ UNCHANGED vars
  <2>1. /\ UNCHANGED <<doc, panel, core, owed, wire, deleting, stale, expected, current,
                       pendingCommit, buffered, pendingForward, orphans, pc, held, typed>>
        /\ link' = link \/ (link = "throttled" /\ link' = "closed")
    BY <1>3 DEF RetryIntervalPasses, vars, chainVars, orphanVars, handlerVars
  <2>2. Visible' = Visible /\ Unhandled' = Unhandled
    BY <2>1 DEF Visible, Settled, Completed, Unhandled
  <2>3. NothingLate'
    BY <2>1 DEF RInv, NothingLate, InjectedCount
  <2>4. KeysTyped'
    BY <2>1, <2>2 DEF RInv, KeysTyped
  <2>5. WordShown'
    BY <2>1, <2>2 DEF RInv, WordShown
  <2>. QED  BY <2>1, <2>2, <2>3, <2>4, <2>5, EditorStutters DEF Advances
<1>. QED  BY <1>1, <1>2, <1>3, TypeStep, InjectStep DEF Environment

LEMMA InitAtomic ==
  ASSUME Calm, Init
  PROVE  NothingLate /\ KeysTyped /\ WordShown /\ Editor!Init
<1>1. InjectedCount(<<>>) = 0 /\ UserPlaces(<<>>) = {}
  BY FS_EmptySet DEF InjectedCount, InjectedIn, UserPlaces
<1>2. UserKeys(<<>>) = <<>>
  <2>1. <<>> \in Seq(Event)
    BY EmptySeq
  <2>2. UserKeys(<<>>) \in Seq(Event) /\ Len(UserKeys(<<>>)) = 0
    BY <1>1, <2>1, UserKeysAtRank, FS_EmptySet
  <2>. QED  BY <2>2, EmptySeq
<1>3. <<>> \in Seq(Event) /\ <<>> \o <<>> = <<>>
  BY EmptySeq, ConcatEmptySeq
<1>4. Unhandled = <<>> /\ Visible = <<>>
  BY <1>2, <1>3 DEF Init, Unhandled, Visible, Settled
<1>5. NothingLate
  BY <1>1 DEF Init, NothingLate, InjectedCount
<1>6. KeysTyped
  BY <1>4, EmptySeq, ParameterAssumption DEF Init, KeysTyped
<1>7. WordShown
  BY <1>3, <1>4, EmptyText DEF Init, WordShown, ShownAt, EndsIn, FreshCore
<1>8. Editor!Init
  BY <1>4 DEF Init, Editor!Init, FreshCore
<1>. QED  BY <1>5, <1>6, <1>7, <1>8

\* As long as nothing is late or lost, and whether the daemon is in reach or
\* not, what the user is bound to see goes through exactly the states of the
\* editor that handles one key at a time: no text at another place, no key
\* twice, out of order or before the text it follows.
THEOREM Refinement ==
  ASSUME Calm
  PROVE  Spec => AtomicEdits
<1>1. ASSUME Init
      PROVE  NothingLate /\ KeysTyped /\ WordShown /\ Editor!Init
  BY <1>1, InitAtomic
<1>2. ASSUME IInv, IInv', NothingLate, KeysTyped, WordShown, [Next]_vars
      PROVE  Advances
  <2>1. RInv
    BY <1>2 DEF RInv
  <2>2. CASE Replay
    BY <1>2, <2>1, <2>2, ReplayTurnStep, FlushTurnStep, ReplayStopsStep DEF Replay
  <2>. QED  BY <1>2, <2>1, <2>2, KeyEventAdvances, OtherAdvances DEF Next
<1>3. ASSUME IInv, IInv', NothingLate, KeysTyped, WordShown, [Next]_vars
      PROVE  NothingLate' /\ KeysTyped' /\ WordShown' /\ [Editor!Next]_(Editor!vars)
  BY <1>2, <1>3 DEF Advances
<1>. QED  BY <1>1, <1>3, Invariance, PTL DEF Spec, AtomicEdits, Editor!Spec
==============================================================================
