--------------------------- MODULE KeyEngine_proofs ---------------------------
(***************************************************************************)
(* What the operators of KeyEngine return: their types, and that the edit  *)
(* diff_replace asks for turns the old text into the new one.              *)
(***************************************************************************)
EXTENDS KeyEngine, SequenceTheorems, WellFoundedInduction, TLAPS

\* Every nonempty set of natural numbers has a least element.
LEMMA LeastNatural ==
  ASSUME NEW S \in SUBSET Nat, S # {}
  PROVE  \E i \in S : \A j \in S : i <= j
<1>1. PICK i \in S : \A j \in S : ~ (<<j, i>> \in OpToRel(<, Nat))
  BY NatLessThanWellFounded, WFMin
<1>2. \A j \in S : ~ (j < i)
  BY <1>1, Zenon DEF OpToRel
<1>. QED  BY <1>2

\* The scan of diff_replace stops within both texts, and all it has passed
\* is common to them.
LEMMA CommonPrefixIsCommon ==
  ASSUME NEW s \in Text, NEW t \in Text
  PROVE  /\ CommonPrefix(s, t) \in Nat
         /\ CommonPrefix(s, t) <= Len(s) /\ CommonPrefix(s, t) <= Len(t)
         /\ \A i \in 1 .. CommonPrefix(s, t) : s[i] = t[i]
<1>1. Len(s) \in Nat /\ Len(t) \in Nat
  BY LenProperties DEF Text
<1>2. MinLen(s, t) \in Nat /\ MinLen(s, t) <= Len(s) /\ MinLen(s, t) <= Len(t)
  BY <1>1 DEF MinLen
<1>3. ScanStops(s, t) \in SUBSET Nat /\ MinLen(s, t) \in ScanStops(s, t)
  BY <1>2 DEF ScanStops
<1>4. \E i \in ScanStops(s, t) : \A j \in ScanStops(s, t) : i <= j
  <2>1. ScanStops(s, t) # {}
    BY <1>3
  <2>. QED  BY <2>1, <1>3, LeastNatural
<1>5. /\ CommonPrefix(s, t) \in ScanStops(s, t)
      /\ \A j \in ScanStops(s, t) : CommonPrefix(s, t) <= j
  BY <1>4 DEF CommonPrefix
<1>6. CommonPrefix(s, t) \in 0 .. MinLen(s, t)
  BY <1>5 DEF ScanStops
<1>7. ASSUME NEW i \in 1 .. CommonPrefix(s, t)
      PROVE  s[i] = t[i]
  <2>1. i - 1 \in 0 .. MinLen(s, t) /\ i - 1 # MinLen(s, t)
    BY <1>2, <1>6
  <2>2. i - 1 \notin ScanStops(s, t)
    BY <1>5, <1>3, <1>6
  <2>3. s[(i - 1) + 1] = t[(i - 1) + 1]
    BY <2>1, <2>2 DEF ScanStops
  <2>. QED  BY <2>3, <1>6
<1>. QED  BY <1>2, <1>6, <1>7

LEMMA DiffReplaceType ==
  ASSUME NEW old \in Text, NEW new \in Text
  PROVE  /\ DiffReplace(old, new).delete \in Nat
         /\ DiffReplace(old, new).delete <= Len(old)
         /\ DiffReplace(old, new).insert \in Text
<1>. DEFINE n == CommonPrefix(old, new)
<1>1. /\ n \in Nat /\ n <= Len(old) /\ n <= Len(new)
      /\ Len(old) \in Nat /\ Len(new) \in Nat
  BY CommonPrefixIsCommon, LenProperties DEF Text
<1>2. \A i \in n + 1 .. Len(new) : new[i] \in Char
  BY <1>1, ElementOfSeq DEF Text
<1>3. SubSeq(new, n + 1, Len(new)) \in Seq(Char)
  <2>. HIDE DEF n
  <2>. QED  BY <1>1, <1>2, SubSeqProperties
<1>. QED  BY <1>1, <1>3 DEF DiffReplace, Text

\* The edit is exact: deleting and inserting as diff_replace says turns a
\* document that ends with the old text into one that ends with the new
\* text, and leaves all that stands before it alone.
THEOREM DiffReplaceIsExact ==
  ASSUME NEW before \in Text, NEW old \in Text, NEW new \in Text
  PROVE  DropLast(before \o old, DiffReplace(old, new).delete) \o DiffReplace(old, new).insert
           = before \o new
<1>. DEFINE n   == CommonPrefix(old, new)
            doc == before \o old
            kept == SubSeq(doc, 1, Len(before) + n)
            added == SubSeq(new, n + 1, Len(new))
<1>1. /\ n \in Nat /\ n <= Len(old) /\ n <= Len(new)
      /\ Len(before) \in Nat /\ Len(old) \in Nat /\ Len(new) \in Nat
      /\ \A i \in 1 .. n : old[i] = new[i]
  BY CommonPrefixIsCommon, LenProperties DEF Text
<1>2. /\ doc \in Seq(Char) /\ Len(doc) = Len(before) + Len(old)
      /\ \A i \in 1 .. Len(before) + Len(old) :
           doc[i] = IF i <= Len(before) THEN before[i] ELSE old[i - Len(before)]
  BY ConcatProperties DEF Text
<1>. HIDE DEF n, doc
<1>3. DropLast(doc, Len(old) - n) = kept
  <2>1. CASE Len(old) - n < Len(doc)
    <3>1. Len(doc) - (Len(old) - n) = Len(before) + n
      BY <1>1, <1>2
    <3>. QED  BY <3>1, <2>1 DEF DropLast
  <2>2. CASE ~(Len(old) - n < Len(doc))
    <3>1. Len(before) + n = 0
      BY <1>1, <1>2, <2>2
    <3>. QED  BY <3>1, <2>2 DEF DropLast
  <2>. QED  BY <2>1, <2>2
<1>4. /\ kept \in Seq(Char) /\ Len(kept) = Len(before) + n
      /\ \A i \in 1 .. Len(before) + n : kept[i] = doc[i]
  <2>1. \A i \in 1 .. Len(before) + n : doc[i] \in Char
    BY <1>1, <1>2, ElementOfSeq
  <2>2. /\ kept \in Seq(Char)
        /\ Len(kept) = IF 1 <= Len(before) + n THEN Len(before) + n - 1 + 1 ELSE 0
        /\ \A i \in 1 .. Len(before) + n - 1 + 1 : kept[i] = doc[1 + i - 1]
    BY <1>1, <2>1, SubSeqProperties
  <2>. HIDE DEF kept
  <2>. QED  BY <1>1, <2>2
<1>5. /\ added \in Seq(Char) /\ Len(added) = Len(new) - n
      /\ \A i \in 1 .. Len(new) - n : added[i] = new[n + i]
  <2>1. \A i \in n + 1 .. Len(new) : new[i] \in Char
    BY <1>1, ElementOfSeq DEF Text
  <2>2. /\ added \in Seq(Char)
        /\ Len(added) = IF n + 1 <= Len(new) THEN Len(new) - (n + 1) + 1 ELSE 0
        /\ \A i \in 1 .. Len(new) - (n + 1) + 1 : added[i] = new[n + 1 + i - 1]
    BY <1>1, <2>1, SubSeqProperties
  <2>. HIDE DEF added
  <2>. QED  BY <1>1, <2>2
<1>. HIDE DEF kept, added
<1>6. /\ kept \o added \in Seq(Char) /\ Len(kept \o added) = Len(before) + Len(new)
      /\ \A i \in 1 .. Len(before) + Len(new) :
           (kept \o added)[i] = IF i <= Len(before) + n THEN kept[i]
                                ELSE added[i - (Len(before) + n)]
  <2>1. /\ kept \o added \in Seq(Char) /\ Len(kept \o added) = Len(kept) + Len(added)
        /\ \A i \in 1 .. Len(kept) + Len(added) :
             (kept \o added)[i] = IF i <= Len(kept) THEN kept[i] ELSE added[i - Len(kept)]
    BY <1>4, <1>5, ConcatProperties
  <2>2. Len(kept) + Len(added) = Len(before) + Len(new)
    BY <1>1, <1>4, <1>5
  <2>. QED  BY <2>1, <2>2, <1>4
<1>7. /\ before \o new \in Seq(Char) /\ Len(before \o new) = Len(before) + Len(new)
      /\ \A i \in 1 .. Len(before) + Len(new) :
           (before \o new)[i] = IF i <= Len(before) THEN before[i] ELSE new[i - Len(before)]
  BY ConcatProperties DEF Text
<1>8. ASSUME NEW i \in 1 .. Len(before) + Len(new)
      PROVE  (kept \o added)[i] = (before \o new)[i]
  <2>1. CASE i <= Len(before)
    BY <1>1, <1>2, <1>4, <1>6, <1>7, <2>1
  <2>2. CASE Len(before) < i /\ i <= Len(before) + n
    <3>1. i - Len(before) \in 1 .. n
      BY <1>1, <2>2
    <3>2. (kept \o added)[i] = old[i - Len(before)]
      BY <1>1, <1>2, <1>4, <1>6, <2>2
    <3>. QED  BY <1>1, <1>7, <2>2, <3>1, <3>2
  <2>3. CASE Len(before) + n < i
    <3>1. /\ i - (Len(before) + n) \in 1 .. Len(new) - n
          /\ n + (i - (Len(before) + n)) = i - Len(before)
      BY <1>1, <2>3
    <3>2. (kept \o added)[i] = added[i - (Len(before) + n)]
      BY <1>1, <1>6, <2>3
    <3>3. added[i - (Len(before) + n)] = new[i - Len(before)]
      BY <1>5, <3>1
    <3>4. (before \o new)[i] = new[i - Len(before)]
      BY <1>1, <1>7, <2>3
    <3>. QED  BY <3>2, <3>3, <3>4
  <2>4. i <= Len(before) \/ (Len(before) < i /\ i <= Len(before) + n) \/ Len(before) + n < i
    BY <1>1
  <2>. QED  BY <2>1, <2>2, <2>3, <2>4
<1>9. kept \o added = before \o new
  BY <1>6, <1>7, <1>8, SeqEqual
<1>. QED  BY <1>3, <1>9 DEF DiffReplace, n, doc, added

-----------------------------------------------------------------------------
\* Every operator of KeyEngine stays within its types.
LEMMA EmptyText == <<>> \in Text
  BY EmptySeq DEF Text

LEMMA SingletonText ==
  ASSUME NEW c \in Char
  PROVE  <<c>> \in Text
<1>1. <<c>> \in [1 .. 1 -> Char]
  OBVIOUS
<1>. QED  BY <1>1, SeqDef DEF Text

LEMMA ConcatText ==
  ASSUME NEW s \in Text, NEW t \in Text
  PROVE  s \o t \in Text
  BY ConcatProperties DEF Text

LEMMA AppendText ==
  ASSUME NEW s \in Text, NEW c \in Char
  PROVE  Append(s, c) \in Text
  BY AppendProperties DEF Text

LEMMA PrefixText ==
  ASSUME NEW s \in Text, NEW n \in Int, n <= Len(s)
  PROVE  SubSeq(s, 1, n) \in Text
<1>1. \A i \in 1 .. n : s[i] \in Char
  BY ElementOfSeq, LenProperties DEF Text
<1>. QED  BY <1>1, SubSeqProperties DEF Text

LEMMA DropLastText ==
  ASSUME NEW s \in Text, NEW n \in Nat
  PROVE  DropLast(s, n) \in Text
<1>1. Len(s) \in Nat
  BY LenProperties DEF Text
<1>. QED  BY <1>1, PrefixText DEF DropLast

LEMMA DeliverText ==
  ASSUME NEW s \in Text, NEW k \in Key
  PROVE  Deliver(s, k) \in Text
<1>1. CASE k = Backspace
  <2>1. Deliver(s, k) = DropLast(s, 1)
    BY <1>1 DEF Deliver, Backspace, Paste, Shift
  <2>. QED  BY <2>1, DropLastText
<1>2. CASE k = Paste
  <2>1. Deliver(s, k) = Append(s, "P")
    BY <1>2 DEF Deliver, Backspace, Paste, Shift
  <2>. QED  BY <2>1, AppendText DEF Char
<1>3. CASE k = Shift
  <2>1. Deliver(s, k) = s
    BY <1>3 DEF Deliver, Backspace, Paste, Shift
  <2>. QED  BY <2>1
<1>4. CASE k \notin {Backspace, Paste, Shift}
  <2>1. Deliver(s, k) = Append(s, k)
    BY <1>4 DEF Deliver
  <2>2. k \in Char
    BY <1>4 DEF Key, Letter, Space, Backspace, Enter, Tab, Paste, Shift, Char
  <2>. QED  BY <2>1, <2>2, AppendText
<1>. QED  BY <1>1, <1>2, <1>3, <1>4

LEMMA WordAtBreakText ==
  ASSUME NEW w \in Text
  PROVE  WordAtBreak(w) \in Text
<1>1. <<"m">> \in Text /\ <<"a">> \in Text
  BY SingletonText DEF Char
<1>2. ASSUME NotVietnamese(w)
      PROVE  RawKeys(w) \in Text
  <2>1. w # <<>>
    BY <1>2, EmptySeq DEF NotVietnamese, Text
  <2>2. Append(Tail(w), "s") \in Text
    BY <2>1, HeadTailProperties, AppendText DEF Text, Char
  <2>. QED  BY <1>1, <2>2, ConcatText DEF RawKeys
<1>3. Composed(w) \in Text
  BY <1>2 DEF Composed
<1>. QED  BY <1>1, <1>3 DEF WordAtBreak

LEMMA ComposeText ==
  ASSUME NEW w \in Text, NEW k \in Letter
  PROVE  Compose(w, k) \in Text
<1>1. Append(w, k) \in Text
  BY AppendText DEF Letter, Char
<1>2. ASSUME w # <<>>
      PROVE  Mark(w) \in Text
  <2>1. Tail(w) \in Text /\ <<"A">> \in Text
    BY <1>2, HeadTailProperties, SingletonText DEF Text, Char
  <2>. QED  BY <2>1, ConcatText DEF Mark
<1>. QED  BY <1>1, <1>2 DEF Compose

LEMMA EngineStepType ==
  ASSUME NEW w \in Text, NEW k \in Key
  PROVE  /\ EngineStep(w, k).handled \in BOOLEAN /\ EngineStep(w, k).acted \in BOOLEAN
         /\ EngineStep(w, k).commit \in Text /\ EngineStep(w, k).word \in Text
<1>1. CASE k \in Letter
  <2>1. EngineStep(w, k) =
          [handled |-> TRUE, acted |-> TRUE, commit |-> <<>>, word |-> Compose(w, k)]
    BY <1>1 DEF EngineStep, Letter, Backspace, Space, Tab, Enter
  <2>. QED  BY <2>1, <1>1, ComposeText, EmptyText
<1>2. CASE k = Backspace /\ w # <<>>
  <2>1. EngineStep(w, k) =
          [handled |-> TRUE, acted |-> TRUE, commit |-> <<>>, word |-> SubSeq(w, 1, Len(w) - 1)]
    BY <1>2 DEF EngineStep, Letter, Backspace, Space, Tab, Enter
  <2>2. Len(w) \in Nat
    BY LenProperties DEF Text
  <2>. QED  BY <2>1, <2>2, PrefixText, EmptyText
<1>3. CASE k = Space /\ Breaks(w)
  <2>1. EngineStep(w, k) = [handled |-> TRUE, acted |-> TRUE,
                            commit |-> Append(WordAtBreak(w), Space), word |-> <<>>]
    BY <1>3 DEF EngineStep, Letter, Backspace, Space, Tab, Enter
  <2>2. Space \in Char
    BY DEF Space, Char
  <2>3. Append(WordAtBreak(w), Space) \in Text
    BY <2>2, WordAtBreakText, AppendText
  <2>. QED  BY <2>1, <2>3, EmptyText
<1>4. CASE k \in {Tab, Enter} /\ Breaks(w)
  <2>1. EngineStep(w, k) = [handled |-> k = Tab /\ IsMacro(w), acted |-> TRUE,
                            commit |-> WordAtBreak(w), word |-> <<>>]
    BY <1>4 DEF EngineStep, Letter, Backspace, Space, Tab, Enter
  <2>. QED  BY <2>1, WordAtBreakText, EmptyText
<1>5. CASE ~(k \in Letter \/ (k = Backspace /\ w # <<>>)
               \/ (k = Space /\ Breaks(w)) \/ (k \in {Tab, Enter} /\ Breaks(w)))
  <2>1. EngineStep(w, k) = Ignored(w)
    BY <1>5 DEF EngineStep
  <2>. QED  BY <2>1, EmptyText DEF Ignored
<1>. QED  BY <1>1, <1>2, <1>3, <1>4, <1>5

LEMMA ProcessKeyReplaceType ==
  ASSUME NEW c \in Core, NEW k \in Key
  PROVE  /\ ProcessKeyReplace(c, k).handled \in BOOLEAN
         /\ ProcessKeyReplace(c, k).delete \in Nat
         /\ ProcessKeyReplace(c, k).insert \in Text
         /\ ProcessKeyReplace(c, k).core \in Core
<1>. DEFINE r == EngineStep(c.word, k)
            d == DiffReplace(c.prev, r.commit \o r.word)
<1>1. c.word \in Text /\ c.prev \in Text /\ c.preedit \in Text
  BY DEF Core
<1>2. r.handled \in BOOLEAN /\ r.acted \in BOOLEAN /\ r.commit \in Text /\ r.word \in Text
  BY <1>1, EngineStepType
<1>. HIDE DEF r
<1>3. d.delete \in Nat /\ d.insert \in Text
  BY <1>1, <1>2, ConcatText, DiffReplaceType
<1>. HIDE DEF d
<1>4. CASE r.acted
  <2>1. ProcessKeyReplace(c, k) =
          [handled |-> r.handled, delete |-> d.delete, insert |-> d.insert,
           core |-> [word |-> r.word, prev |-> r.word, preedit |-> c.preedit]]
    BY <1>4 DEF ProcessKeyReplace, r, d
  <2>. QED  BY <2>1, <1>1, <1>2, <1>3 DEF Core
<1>5. CASE ~r.acted
  <2>1. ProcessKeyReplace(c, k) = [handled |-> r.handled, delete |-> 0, insert |-> <<>>, core |-> c]
    BY <1>5 DEF ProcessKeyReplace, r
  <2>. QED  BY <2>1, <1>2, EmptyText
<1>. QED  BY <1>4, <1>5

LEMMA ProcessKeyType ==
  ASSUME NEW c \in Core, NEW k \in Key
  PROVE  /\ ProcessKey(c, k).handled \in BOOLEAN
         /\ ProcessKey(c, k).commit \in Text
         /\ ProcessKey(c, k).core \in Core
         /\ ProcessKey(c, k).core.prev = c.prev
<1>. DEFINE r == EngineStep(c.word, k)
<1>1. c.word \in Text /\ c.prev \in Text /\ c.preedit \in Text
  BY DEF Core
<1>2. r.handled \in BOOLEAN /\ r.acted \in BOOLEAN /\ r.commit \in Text /\ r.word \in Text
  BY <1>1, EngineStepType
<1>. DEFINE e == [c EXCEPT !.word = r.word, !.preedit = r.word]
<1>3. ProcessKey(c, k) =
        [handled |-> r.handled, commit |-> r.commit, core |-> IF r.acted THEN e ELSE c]
  BY DEF ProcessKey
<1>. HIDE DEF r
<1>4. e \in Core /\ e.prev = c.prev
  BY <1>2 DEF Core
<1>. HIDE DEF e
<1>5. CASE r.acted
  BY <1>2, <1>3, <1>4, <1>5
<1>6. CASE ~r.acted
  BY <1>2, <1>3, <1>6
<1>. QED  BY <1>5, <1>6

-----------------------------------------------------------------------------
(***************************************************************************)
(* The edit of one key, taken whole.                                       *)
(***************************************************************************)
\* Nothing is deleted of a text that stays, nor of an empty one.
LEMMA DiffWithItself ==
  ASSUME NEW s \in Text
  PROVE  DiffReplace(s, s).delete = 0 /\ DiffReplace(s, s).insert = <<>>
<1>1. Len(s) \in Nat
  BY LenProperties DEF Text
<1>2. ScanStops(s, s) = {Len(s)}
  BY <1>1 DEF ScanStops, MinLen
<1>3. CommonPrefix(s, s) = Len(s)
  BY <1>1, <1>2 DEF CommonPrefix
<1>4. SubSeq(s, Len(s) + 1, Len(s)) = <<>>
  BY <1>1, SubSeqEmpty
<1>. QED  BY <1>1, <1>3, <1>4 DEF DiffReplace

LEMMA DiffFromNothing ==
  ASSUME NEW t \in Text
  PROVE  DiffReplace(<<>>, t).delete = 0 /\ DiffReplace(<<>>, t).insert = t
<1>1. Len(t) \in Nat /\ Len(<<>>) = 0
  BY LenProperties, EmptySeq DEF Text
<1>2. CommonPrefix(<<>>, t) = 0
  BY <1>1, EmptyText, CommonPrefixIsCommon
<1>3. SubSeq(t, 0 + 1, Len(t)) = t
  BY SubSeqFull DEF Text
<1>. QED  BY <1>1, <1>2, <1>3 DEF DiffReplace

LEMMA DropNothing ==
  ASSUME NEW s \in Text
  PROVE  DropLast(s, 0) = s
<1>1. Len(s) \in Nat /\ SubSeq(s, 1, Len(s)) = s
  BY LenProperties, SubSeqFull DEF Text
<1>2. CASE 0 < Len(s)
  BY <1>1, <1>2 DEF DropLast
<1>3. CASE Len(s) = 0
  BY <1>1, <1>3 DEF DropLast
<1>. QED  BY <1>1, <1>2, <1>3

\* One Backspace, and then n more.
LEMMA DropOneMore ==
  ASSUME NEW s \in Text, NEW n \in Nat
  PROVE  DropLast(DropLast(s, 1), n) = DropLast(s, n + 1)
<1>. DEFINE m == IF 1 < Len(s) THEN Len(s) - 1 ELSE 0
            t == DropLast(s, 1)
            l == IF n < Len(t) THEN Len(t) - n ELSE 0
<1>1. Len(s) \in Nat /\ m \in Nat /\ m <= Len(s) /\ t = SubSeq(s, 1, m)
  BY LenProperties DEF Text, DropLast
<1>. HIDE DEF m
<1>2. /\ t \in Text /\ Len(t) = m /\ \A i \in 1 .. m : t[i] = s[i]
  <2>1. \A i \in 1 .. m : s[i] \in Char
    BY <1>1, ElementOfSeq DEF Text
  <2>2. /\ SubSeq(s, 1, m) \in Seq(Char)
        /\ Len(SubSeq(s, 1, m)) = IF 1 <= m THEN m - 1 + 1 ELSE 0
        /\ \A i \in 1 .. m - 1 + 1 : SubSeq(s, 1, m)[i] = s[1 + i - 1]
    BY <1>1, <2>1, SubSeqProperties
  <2>. QED  BY <1>1, <2>2 DEF Text
<1>. HIDE DEF t
<1>3. DropLast(t, n) = SubSeq(t, 1, l) /\ DropLast(s, n + 1) = SubSeq(s, 1, l)
  <2>1. CASE n < Len(t)
    BY <1>1, <1>2, <2>1 DEF DropLast, m
  <2>2. CASE ~(n < Len(t))
    BY <1>1, <1>2, <2>2 DEF DropLast, m
  <2>. QED  BY <2>1, <2>2
<1>4. l \in Nat /\ l <= m
  BY <1>1, <1>2
<1>. HIDE DEF l
<1>5. SubSeq(t, 1, l) = SubSeq(s, 1, l)
  <2>1. \A i \in 1 .. l : t[i] \in Char /\ s[i] \in Char /\ t[i] = s[i]
    BY <1>1, <1>2, <1>4, ElementOfSeq DEF Text
  <2>2. /\ SubSeq(t, 1, l) \in Seq(Char) /\ SubSeq(s, 1, l) \in Seq(Char)
        /\ Len(SubSeq(t, 1, l)) = IF 1 <= l THEN l - 1 + 1 ELSE 0
        /\ Len(SubSeq(s, 1, l)) = IF 1 <= l THEN l - 1 + 1 ELSE 0
        /\ \A i \in 1 .. l - 1 + 1 : /\ SubSeq(t, 1, l)[i] = t[1 + i - 1]
                                    /\ SubSeq(s, 1, l)[i] = s[1 + i - 1]
    BY <1>4, <2>1, SubSeqProperties
  <2>. QED  BY <1>4, <2>1, <2>2, SeqEqual
<1>. QED  BY <1>3, <1>5 DEF t

\* Keys the core never half-handles: it does not delete on account of a key
\* that it then leaves to the application, and a key it ignores finds no word.
WholeKeys(K) ==
  /\ K \subseteq Key \ {Paste, Shift}
  /\ Tab \in K => ~AutoRestore
  /\ Enter \in K => ~AutoRestore /\ ~MacroEnabled

\* What the screen shows after a key that takes effect all at once.
AtomicText(text, w, k) ==
  LET r == EngineStep(w, k)
      d == IF r.acted THEN DiffReplace(w, r.commit \o r.word)
                      ELSE [delete |-> 0, insert |-> <<>>]
      edited == DropLast(text, d.delete) \o d.insert
  IN  IF r.handled THEN edited ELSE Deliver(edited, k)

EndsIn(text, w) == \E before \in Text : text = before \o w

LEMMA WholeStep ==
  ASSUME NEW K, WholeKeys(K), NEW k \in K, NEW w \in Text
  PROVE  /\ EngineStep(w, k).handled => EngineStep(w, k).acted
         /\ ~EngineStep(w, k).acted => w = <<>>
         /\ ~EngineStep(w, k).handled => EngineStep(w, k).commit = w /\ EngineStep(w, k).word = <<>>
<1>1. k \in Key /\ k # Paste /\ k # Shift
  BY DEF WholeKeys
<1>2. CASE k \in Letter
  <2>1. EngineStep(w, k) =
          [handled |-> TRUE, acted |-> TRUE, commit |-> <<>>, word |-> Compose(w, k)]
    BY <1>2 DEF EngineStep, Letter, Backspace, Space, Tab, Enter
  <2>. QED  BY <2>1
<1>3. CASE k = Backspace /\ w # <<>>
  <2>1. EngineStep(w, k) =
          [handled |-> TRUE, acted |-> TRUE, commit |-> <<>>, word |-> SubSeq(w, 1, Len(w) - 1)]
    BY <1>3 DEF EngineStep, Letter, Backspace, Space, Tab, Enter
  <2>. QED  BY <2>1
<1>4. CASE k = Space /\ Breaks(w)
  <2>1. EngineStep(w, k) = [handled |-> TRUE, acted |-> TRUE,
                            commit |-> Append(WordAtBreak(w), Space), word |-> <<>>]
    BY <1>4 DEF EngineStep, Letter, Backspace, Space, Tab, Enter
  <2>. QED  BY <2>1
<1>5. CASE k \in {Tab, Enter} /\ Breaks(w)
  <2>. DEFINE h == k = Tab /\ IsMacro(w)
  <2>1. EngineStep(w, k) = [handled |-> h, acted |-> TRUE,
                            commit |-> WordAtBreak(w), word |-> <<>>]
    BY <1>5 DEF EngineStep, Letter, Backspace, Space, Tab, Enter
  <2>2. ~AutoRestore /\ (k = Tab \/ ~MacroEnabled)
    BY <1>5 DEF WholeKeys
  <2>3. ~h => WordAtBreak(w) = w
    BY <2>2 DEF WordAtBreak, Composed, NotVietnamese, IsMacro
  <2>. HIDE DEF h
  <2>4. /\ EngineStep(w, k).handled = h /\ EngineStep(w, k).acted
        /\ EngineStep(w, k).commit = WordAtBreak(w) /\ EngineStep(w, k).word = <<>>
    BY <2>1
  <2>. QED  BY <2>3, <2>4
<1>6. CASE ~(k \in Letter \/ (k = Backspace /\ w # <<>>)
               \/ (k = Space /\ Breaks(w)) \/ (k \in {Tab, Enter} /\ Breaks(w)))
  <2>1. EngineStep(w, k) = Ignored(w)
    BY <1>6 DEF EngineStep
  <2>2. w = <<>>
    BY <1>1, <1>6 DEF Key, Letter, Breaks
  <2>. QED  BY <2>1, <2>2 DEF Ignored
<1>. QED  BY <1>2, <1>3, <1>4, <1>5, <1>6

\* A key that the core does not pass over turns the word at the end of the
\* text into what it commits and the word it goes on with, also where the
\* application gets the key after that.
LEMMA KeyTakesEffect ==
  ASSUME NEW k \in Key \ {Paste, Shift}, NEW w \in Text, NEW before \in Text
  PROVE  LET r == EngineStep(w, k)
             whole == before \o (r.commit \o r.word)
         IN  /\ ~r.acted => w = <<>> /\ r.commit = <<>> /\ r.word = <<>> /\ ~r.handled
             /\ ~r.handled => r.word = <<>>
             /\ AtomicText(before \o w, w, k) = IF r.handled THEN whole ELSE Deliver(whole, k)
<1>. DEFINE r == EngineStep(w, k)
            n == r.commit \o r.word
            d == IF r.acted THEN DiffReplace(w, n) ELSE [delete |-> 0, insert |-> <<>>]
            edited == DropLast(before \o w, d.delete) \o d.insert
<1>1. /\ r.handled \in BOOLEAN /\ r.acted \in BOOLEAN /\ r.commit \in Text /\ r.word \in Text
      /\ n \in Text
  BY EngineStepType, ConcatText
<1>2. /\ ~r.acted => w = <<>> /\ r.commit = <<>> /\ r.word = <<>> /\ ~r.handled
      /\ ~r.handled => r.word = <<>>
  <2>1. CASE k \in Letter \/ (k = Backspace /\ w # <<>>) \/ (k = Space /\ Breaks(w))
    <3>1. r.acted /\ r.handled
      BY <2>1 DEF EngineStep, Letter, Backspace, Space, Tab, Enter
    <3>. QED  BY <3>1
  <2>2. CASE k \in {Tab, Enter} /\ Breaks(w)
    <3>1. r = [handled |-> k = Tab /\ IsMacro(w), acted |-> TRUE,
               commit |-> WordAtBreak(w), word |-> <<>>]
      BY <2>2 DEF EngineStep, Letter, Backspace, Space, Tab, Enter
    <3>2. r.acted /\ r.word = <<>>
      BY <3>1
    <3>. QED  BY <3>2
  <2>3. CASE ~(k \in Letter \/ (k = Backspace /\ w # <<>>)
                 \/ (k = Space /\ Breaks(w)) \/ (k \in {Tab, Enter} /\ Breaks(w)))
    <3>1. r = Ignored(w)
      BY <2>3 DEF EngineStep
    <3>2. w = <<>>
      BY <2>3 DEF Key, Letter, Breaks
    <3>. QED  BY <3>1, <3>2 DEF Ignored
  <2>. QED  BY <2>1, <2>2, <2>3
<1>3. AtomicText(before \o w, w, k) = IF r.handled THEN edited ELSE Deliver(edited, k)
  BY DEF AtomicText
<1>. HIDE DEF r, n
<1>4. edited = before \o n
  <2>1. CASE r.acted
    <3>1. DropLast(before \o w, DiffReplace(w, n).delete) \o DiffReplace(w, n).insert = before \o n
      BY <1>1, DiffReplaceIsExact
    <3>. QED  BY <2>1, <3>1
  <2>2. CASE ~r.acted
    <3>1. n = <<>> /\ w = <<>> /\ before \o w = before /\ before \o n = before
      BY <1>1, <1>2, <2>2, ConcatEmptySeq DEF n, Text
    <3>2. edited = DropLast(before, 0) \o <<>>
      BY <2>2, <3>1
    <3>. QED  BY <3>1, <3>2, DropNothing, ConcatEmptySeq DEF Text
  <2>. QED  BY <1>1, <2>1, <2>2
<1>. QED  BY <1>2, <1>3, <1>4 DEF r, n

\* Of a key that takes effect all at once, the application gets only what the
\* core does nothing for.
LEMMA AtomicTextIs ==
  ASSUME NEW K, WholeKeys(K), NEW k \in K, NEW w \in Text, NEW before \in Text
  PROVE  LET r == EngineStep(w, k)
         IN  AtomicText(before \o w, w, k) = IF r.handled THEN before \o (r.commit \o r.word)
                                             ELSE Deliver(before \o w, k)
<1>. DEFINE r == EngineStep(w, k)
            whole == before \o (r.commit \o r.word)
<1>1. k \in Key \ {Paste, Shift}
  BY DEF WholeKeys
<1>2. AtomicText(before \o w, w, k) = IF r.handled THEN whole ELSE Deliver(whole, k)
  BY <1>1, KeyTakesEffect
<1>3. ASSUME ~r.handled
      PROVE  whole = before \o w
  <2>1. r.commit = w /\ r.word = <<>>
    BY <1>3, WholeStep
  <2>. QED  BY <2>1, ConcatEmptySeq DEF Text
<1>. HIDE DEF whole
<1>4. r.handled \in BOOLEAN
  BY <1>1, EngineStepType
<1>. HIDE DEF r
<1>. QED  BY <1>2, <1>3, <1>4 DEF whole, r

LEMMA ConcatTextAssociative ==
  ASSUME NEW s \in Text, NEW t \in Text, NEW u \in Text
  PROVE  s \o (t \o u) = (s \o t) \o u
<1>1. s \in Seq(Char) /\ t \in Seq(Char) /\ u \in Seq(Char)
  BY DEF Text
<1>2. (s \o t) \o u = s \o (t \o u)
  BY <1>1, ConcatAssociative
<1>. QED  BY <1>2

LEMMA AtomicTextEnds ==
  ASSUME NEW K, WholeKeys(K), NEW k \in K, NEW w \in Text, NEW text \in Text, EndsIn(text, w)
  PROVE  /\ AtomicText(text, w, k) \in Text
         /\ EndsIn(AtomicText(text, w, k), EngineStep(w, k).word)
<1>. DEFINE r == EngineStep(w, k)
<1>1. PICK before \in Text : text = before \o w
  BY DEF EndsIn
<1>2. /\ r.handled \in BOOLEAN /\ r.commit \in Text /\ r.word \in Text
      /\ ~r.handled => r.word = <<>>
      /\ AtomicText(text, w, k) = IF r.handled THEN before \o (r.commit \o r.word)
                                  ELSE Deliver(text, k)
  <2>1. k \in Key
    BY DEF WholeKeys
  <2>2. r.handled \in BOOLEAN /\ r.commit \in Text /\ r.word \in Text
    BY <2>1, EngineStepType
  <2>3. ~r.handled => r.word = <<>>
    BY WholeStep
  <2>4. AtomicText(text, w, k) = IF r.handled THEN before \o (r.commit \o r.word)
                                 ELSE Deliver(text, k)
    BY <1>1, AtomicTextIs
  <2>. QED  BY <2>2, <2>3, <2>4
<1>. HIDE DEF r
<1>3. CASE r.handled
  <2>1. r.commit \o r.word \in Text
    BY <1>2, ConcatText
  <2>2. before \o r.commit \in Text /\ before \o (r.commit \o r.word) \in Text
    BY <1>2, <2>1, ConcatText
  <2>3. before \o (r.commit \o r.word) = (before \o r.commit) \o r.word
    BY <1>2, ConcatTextAssociative
  <2>. QED  BY <1>2, <1>3, <2>2, <2>3 DEF EndsIn, r
<1>4. CASE ~r.handled
  <2>1. Deliver(text, k) \in Text
    BY DeliverText DEF WholeKeys
  <2>2. Deliver(text, k) \o <<>> = Deliver(text, k)
    BY <2>1, ConcatEmptySeq DEF Text
  <2>. QED  BY <1>2, <1>4, <2>1, <2>2 DEF EndsIn, r
<1>. QED  BY <1>3, <1>4

\* Where the word may be shown: in the document, where process_key_replace
\* keeps it, or in a panel behind the document, where process_key shows it.
ShownAt(c, panel) ==
  \/ panel = <<>> /\ c.prev = c.word
  \/ panel = c.word /\ c.prev = <<>>

\* Wherever the word is shown, the edit of process_key_replace, applied to
\* the document, is the whole effect of the key.
EditIsAtomic(r, c, doc, panel, k) ==
  /\ r.handled \in BOOLEAN /\ r.delete \in Nat /\ r.insert \in Text /\ r.core \in Core
  /\ r.handled => DropLast(doc, r.delete) \o r.insert = AtomicText(doc \o panel, c.word, k)
  /\ ~r.handled => /\ r.delete = 0
                   /\ Deliver(doc \o r.insert, k) = AtomicText(doc \o panel, c.word, k)
  /\ r.delete > 0 => panel = <<>>
  /\ r.core.word = EngineStep(c.word, k).word
  /\ r.core.prev = r.core.word
  /\ r.core.preedit = c.preedit

LEMMA ReplaceIsAtomic ==
  ASSUME NEW K, WholeKeys(K), NEW k \in K, NEW c \in Core,
         NEW doc \in Text, NEW panel, ShownAt(c, panel), EndsIn(doc \o panel, c.word),
         NEW r, r = ProcessKeyReplace(c, k)
  PROVE  EditIsAtomic(r, c, doc, panel, k)
<1>. DEFINE w == c.word
            e == EngineStep(w, k)
            d == DiffReplace(c.prev, e.commit \o e.word)
            n == e.commit \o e.word
<1>1. /\ w \in Text /\ c.prev \in Text /\ panel \in Text
      /\ c.prev = w \/ c.prev = <<>>
      /\ k \in Key
  BY EmptyText DEF Core, ShownAt, WholeKeys
<1>2. /\ e.handled \in BOOLEAN /\ e.acted \in BOOLEAN /\ e.commit \in Text /\ e.word \in Text
      /\ e.handled => e.acted
      /\ ~e.acted => w = <<>>
      /\ ~e.handled => e.commit = w /\ e.word = <<>>
  BY <1>1, EngineStepType, WholeStep
<1>3. /\ r.handled \in BOOLEAN /\ r.delete \in Nat /\ r.insert \in Text /\ r.core \in Core
  BY <1>1, ProcessKeyReplaceType
<1>4. /\ e.acted => r = [handled |-> e.handled, delete |-> d.delete, insert |-> d.insert,
                         core |-> [word |-> e.word, prev |-> e.word, preedit |-> c.preedit]]
      /\ ~e.acted => r = [handled |-> e.handled, delete |-> 0, insert |-> <<>>, core |-> c]
  BY DEF ProcessKeyReplace
<1>5. PICK before \in Text : /\ doc \o panel = before \o w
                             /\ panel = w /\ c.prev = <<>> => before = doc
  <2>1. PICK before \in Text : doc \o panel = before \o w
    BY DEF EndsIn
  <2>2. CASE panel = w /\ c.prev = <<>>
    BY <2>2
  <2>3. CASE ~(panel = w /\ c.prev = <<>>)
    BY <2>1, <2>3
  <2>. QED  BY <2>2, <2>3
<1>6. /\ AtomicText(before \o w, w, k) = IF e.handled THEN before \o n ELSE Deliver(before \o w, k)
  BY <1>1, AtomicTextIs
<1>7. n \in Text /\ (e.word = <<>> => n = e.commit)
  BY <1>2, ConcatText, ConcatEmptySeq DEF Text
<1>8. doc \o <<>> = doc /\ DropLast(doc, 0) = doc
  BY DropNothing, ConcatEmptySeq DEF Text
<1>. HIDE DEF e, n
<1>9. /\ r.handled = e.handled /\ r.core.word = e.word /\ r.core.prev = r.core.word
      /\ r.core.preedit = c.preedit
  <2>1. CASE e.acted
    BY <1>4, <2>1
  <2>2. CASE ~e.acted
    <3>1. r.handled = e.handled /\ r.core = c
      BY <1>4, <2>2
    <3>2. ~e.handled /\ w = <<>> /\ e.word = <<>>
      BY <1>2, <2>2
    <3>3. c.prev = <<>>
      BY <1>1, <3>2
    <3>. QED  BY <3>1, <3>2, <3>3
  <2>. QED  BY <1>2, <2>1, <2>2
<1>10. ASSUME panel = w, c.prev = <<>>
       PROVE  /\ r.handled => DropLast(doc, r.delete) \o r.insert = AtomicText(doc \o panel, w, k)
              /\ ~r.handled => /\ r.delete = 0
                               /\ Deliver(doc \o r.insert, k) = AtomicText(doc \o panel, w, k)
              /\ r.delete > 0 => panel = <<>>
  <2>1. d.delete = 0 /\ d.insert = n
    BY <1>7, <1>10, DiffFromNothing DEF n
  <2>2. r.delete = 0 /\ r.insert = n
    <3>1. CASE e.acted
      BY <1>4, <2>1, <3>1
    <3>2. CASE ~e.acted
      <4>1. n = <<>>
        BY <1>2, <1>7, <3>2
      <4>. QED  BY <1>4, <3>2, <4>1
    <3>. QED  BY <1>2, <3>1, <3>2
  <2>3. before = doc /\ doc \o panel = before \o w
    BY <1>5, <1>10
  <2>4. ~e.handled => n = w
    BY <1>2, <1>7
  <2>5. ~e.handled => doc \o r.insert = before \o w
    BY <2>2, <2>3, <2>4
  <2>6. r.handled => DropLast(doc, r.delete) \o r.insert = AtomicText(doc \o panel, w, k)
    BY <1>6, <1>8, <1>9, <2>2, <2>3
  <2>7. ~r.handled => Deliver(doc \o r.insert, k) = AtomicText(doc \o panel, w, k)
    BY <1>6, <1>9, <2>3, <2>5
  <2>8. ~(r.delete > 0)
    BY <2>2
  <2>. QED  BY <2>2, <2>6, <2>7, <2>8
<1>11. ASSUME panel = <<>>, c.prev = w
       PROVE  /\ r.handled => DropLast(doc, r.delete) \o r.insert = AtomicText(doc \o panel, w, k)
              /\ ~r.handled => /\ r.delete = 0
                               /\ Deliver(doc \o r.insert, k) = AtomicText(doc \o panel, w, k)
  <2>1. doc = before \o w
    BY <1>5, <1>8, <1>11
  <2>2. CASE e.handled
    <3>1. r.delete = d.delete /\ r.insert = d.insert
      BY <1>2, <1>4, <2>2
    <3>2. DropLast(before \o w, d.delete) \o d.insert = before \o n
      <4>1. DropLast(before \o w, DiffReplace(w, n).delete) \o DiffReplace(w, n).insert = before \o n
        BY <1>1, <1>7, DiffReplaceIsExact
      <4>2. d = DiffReplace(w, n)
        BY <1>11 DEF n
      <4>. QED  BY <4>1, <4>2
    <3>. QED  BY <1>5, <1>6, <1>9, <2>1, <2>2, <3>1, <3>2
  <2>3. CASE ~e.handled
    <3>1. r.delete = 0 /\ r.insert = <<>>
      <4>1. CASE e.acted
        <5>1. d.delete = 0 /\ d.insert = <<>>
          BY <1>1, <1>2, <1>7, <1>11, <2>3, DiffWithItself DEF n
        <5>. QED  BY <1>4, <4>1, <5>1
      <4>2. CASE ~e.acted
        BY <1>4, <4>2
      <4>. QED  BY <1>2, <4>1, <4>2
    <3>. QED  BY <1>5, <1>6, <1>8, <1>9, <2>1, <2>3, <3>1
  <2>. QED  BY <1>2, <2>2, <2>3
<1>. QED  BY <1>3, <1>9, <1>10, <1>11 DEF ShownAt, EditIsAtomic, e

\* The same of process_key and the preedit.
LEMMA PreeditIsAtomic ==
  ASSUME NEW K, WholeKeys(K), NEW k \in K, NEW c \in Core, c.preedit = c.word, NEW doc \in Text
  PROVE  LET r == ProcessKey(c, k)
         IN  /\ (IF r.handled THEN doc \o r.commit ELSE Deliver(doc \o r.commit, k)) \o r.core.preedit
                   = AtomicText(doc \o c.word, c.word, k)
             /\ r.core.word = EngineStep(c.word, k).word
             /\ r.core.preedit = r.core.word
<1>. DEFINE w == c.word
            e == EngineStep(w, k)
            r == ProcessKey(c, k)
            x == [c EXCEPT !.word = e.word, !.preedit = e.word]
<1>1. w \in Text /\ k \in Key
  BY DEF Core, WholeKeys
<1>2. /\ e.handled \in BOOLEAN /\ e.acted \in BOOLEAN /\ e.commit \in Text /\ e.word \in Text
      /\ e.handled => e.acted
      /\ ~e.acted => w = <<>>
      /\ ~e.handled => e.commit = w /\ e.word = <<>>
  BY <1>1, EngineStepType, WholeStep
<1>3. r = [handled |-> e.handled, commit |-> e.commit, core |-> IF e.acted THEN x ELSE c]
  BY DEF ProcessKey
<1>4. AtomicText(doc \o w, w, k) = IF e.handled THEN doc \o (e.commit \o e.word)
                                   ELSE Deliver(doc \o w, k)
  BY <1>1, AtomicTextIs
<1>. HIDE DEF e
<1>5. x.word = e.word /\ x.preedit = e.word
  BY DEF Core
<1>. HIDE DEF x
<1>6. r.handled = e.handled /\ r.commit = e.commit
  BY <1>3
<1>7. r.core.word = e.word /\ r.core.preedit = e.word
  <2>1. CASE e.acted
    BY <1>3, <1>5, <2>1
  <2>2. CASE ~e.acted
    <3>1. r.core = c
      BY <1>3, <2>2
    <3>2. w = <<>> /\ e.word = <<>>
      BY <1>2, <2>2
    <3>. QED  BY <3>1, <3>2
  <2>. QED  BY <1>2, <2>1, <2>2
<1>. HIDE DEF r
<1>8. CASE e.handled
  <2>1. (doc \o e.commit) \o e.word = doc \o (e.commit \o e.word)
    BY <1>2, ConcatTextAssociative
  <2>. QED  BY <1>4, <1>6, <1>7, <1>8, <2>1 DEF e, r
<1>9. CASE ~e.handled
  <2>1. doc \o w \in Text
    BY <1>1, ConcatText
  <2>2. Deliver(doc \o w, k) \in Text
    BY <1>1, <2>1, DeliverText
  <2>3. Deliver(doc \o w, k) \o <<>> = Deliver(doc \o w, k)
    BY <2>2, ConcatEmptySeq DEF Text
  <2>. QED  BY <1>2, <1>4, <1>6, <1>7, <1>9, <2>3 DEF e, r
<1>. QED  BY <1>2, <1>8, <1>9
==============================================================================
