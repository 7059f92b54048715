---------------------------- MODULE Typing_proofs ----------------------------
(***************************************************************************)
(* Typing keeps its promises in every configuration: no mark is left       *)
(* behind by its letter, the panel shows what would be committed, the keys *)
(* are remembered, a word is committed as it was shown or as it was typed. *)
(*                                                                         *)
(* The composition is what the proofs are about (WordOK, Display); the     *)
(* lemmas of Composition_proofs say what a key and Backspace make of it.   *)
(***************************************************************************)
EXTENDS Typing, Composition_proofs

(***************************************************************************)
(* The inductive invariant.                                                *)
(***************************************************************************)
OneWord(cfg) == \A m \in cfg.macros : \A i \in DOMAIN m.key : m.key[i][1] # Space

\* The keys that a composition may hold.
WordKeys(cfg) ==
  IF ~MacrosOn(cfg) THEN Composable(cfg.im) \cap Typeable
  ELSE IF OneWord(cfg) THEN Typeable \ {Space} ELSE Typeable

\* Every mark points to some letter, of the list where no macro is; numbers
\* are not used twice; a list is never left with marks alone.
WordOK(cfg, comp) ==
  /\ comp \in Seq(On(cfg.im, Ids)) /\ Distinct(comp)
  /\ OnlyKeys(comp, WordKeys(cfg))
  /\ ~MacrosOn(cfg) => comp \in Seq(On(cfg.im, AppendIds(comp)))
  /\ OneWord(cfg) /\ comp # <<>> => AppendIds(comp) # {}

\* The panel and the composition.
Display(cfg, comp, text) ==
  /\ cfg.im.appending = {} /\ OneWord(cfg) => text = Preedit(cfg, comp)
  /\ OneWord(cfg) => (text = <<>> <=> comp = <<>>)
  /\ ~MacrosOn(cfg) => \/ text = Preedit(cfg, comp)
                       \/ cfg.restore /\ Preedit(cfg, comp) = Typed(comp)
  /\ text \in Seq(Char)

Text(x) == x \in Seq(Range(x))

\* The lookup is a query, a list and a page of it.
EmojiOK(e) ==
  /\ e = [open |-> e.open, query |-> e.query, found |-> e.found, page |-> e.page]
  /\ e.open \in BOOLEAN /\ Text(e.query)
  /\ e.page = 0 \/ e.page \in Pages(e)

LookupOK == EmojiOK(em) /\ (OneWord(conf) /\ em.open => shown = <<>>)

CoreOK(core1) ==
  core1 \in [comp : Seq(Transformation), sentence : {"idle", "punct", "ready"}, armed : BOOLEAN]

IInv ==
  /\ conf \in Configs /\ n \in 0 .. conf.budget
  /\ CoreOK(core) /\ WordOK(conf, core.comp) /\ Display(conf, core.comp, shown)
  /\ LookupOK
  /\ Text(recent) /\ Len(recent) <= RecentCap
  /\ Text(doc)

-----------------------------------------------------------------------------
LEMMA TypeableIs == Typeable \subseteq Symbols \ {NoKey}
<1>1. Typeable \subseteq Symbols
  BY Zenon DEF Typeable, Symbols
<1>2. NoKey \notin Typeable
  BY Zenon DEF Typeable, Alpha, Digits, Punctuation, NoKey
<1>. QED  BY <1>1, <1>2

LEMMA WordKeysAre ==
  ASSUME NEW cfg, MethodOK(cfg.im)
  PROVE  /\ WordKeys(cfg) \subseteq Typeable /\ WordKeys(cfg) \subseteq Symbols \ {NoKey}
         /\ NoKey \notin WordKeys(cfg)
         /\ ~MacrosOn(cfg) => WordKeys(cfg) \subseteq Composable(cfg.im) /\ OneWord(cfg)
         /\ OneWord(cfg) => Space \notin WordKeys(cfg)
<1>1. WordKeys(cfg) \subseteq Typeable
  BY DEF WordKeys
<1>2. ~MacrosOn(cfg) => WordKeys(cfg) \subseteq Composable(cfg.im) /\ OneWord(cfg)
  BY DEF WordKeys, OneWord, MacrosOn
<1>3. ASSUME NEW k \in Composable(cfg.im)
      PROVE  k # Space
  <2>1. CanProcessKey(k, cfg.im.keys)
    BY DEF Composable
  <2>2. k \notin {" ", ":", "BackSpace", "Tab", "Paste", "Escape", "Return", "page", "click", "reset", "leave"}
    BY <2>1, ProcessableKey
  <2>. QED  BY <2>2 DEF Space
<1>4. OneWord(cfg) => Space \notin WordKeys(cfg)
  BY <1>3 DEF WordKeys
<1>. QED  BY <1>1, <1>2, <1>4, TypeableIs

LEMMA WholeSubSeq ==
  ASSUME NEW S, NEW s \in Seq(S)
  PROVE  SubSeq(s, 1, Len(s)) = s /\ SubSeq(s, 1, 0) = <<>>
<1>. DEFINE m == Len(s)
            r == SubSeq(s, 1, m)
            e == SubSeq(s, 1, 0)
<1>1. m \in Nat /\ \A i \in 1 .. m : s[i] \in S
  BY LenProperties, ElementOfSeq
<1>2. r \in Seq(S) /\ Len(r) = m /\ \A i \in 1 .. m : r[i] = s[i]
  BY <1>1, SubSeqProperties
<1>3. e \in Seq(S) /\ Len(e) = 0
  BY <1>1, SubSeqProperties
<1>4. r = s
  <2>. HIDE DEF r
  <2>. QED  BY <1>2, SeqEqual
<1>5. e = <<>>
  <2>. HIDE DEF e
  <2>. QED  BY <1>3, EmptySeq
<1>. QED  BY <1>4, <1>5

\* Without a space in the list, what is shown since the last one is all.
LEMMA SinceSpaceAll ==
  ASSUME NEW s \in Seq(Transformation), NEW K, OnlyKeys(s, K), Space \notin K, NoKey \notin K
  PROVE  SinceSpace(s) = Flatten(s)
<1>1. Space # NoKey
  BY Zenon DEF Space, NoKey
<1>2. \A i \in 1 .. Len(s) : s[i].key # Space
  BY <1>1 DEF OnlyKeys
<1>3. SelectLastInSeq(s, LAMBDA t : t.key = Space) = 0
  BY <1>2 DEF SelectLastInSeq
<1>4. SinceSpace(s) = Flatten(SubSeq(s, 1, Len(s)))
  BY <1>3 DEF SinceSpace
<1>. QED  BY <1>4, WholeSubSeq

LEMMA EmptyShown ==
  /\ Flatten(<<>>) = <<>> /\ Typed(<<>>) = <<>> /\ AppendIds(<<>>) = {}
<1>1. <<>> \in Seq(On([appending |-> {}], {})) /\ <<>> \in Seq(Transformation)
  OBVIOUS
<1>2. AppendIds(<<>>) = {}
  BY DEF AppendIds
<1>3. Flatten(<<>>) = <<>>
  BY <1>1, <1>2, FlattenSome
<1>4. Typed(<<>>) = <<>>
  <2>. DEFINE e == <<>>
  <2>1. e \in Seq(Transformation) /\ Len(e) = 0
    BY <1>1
  <2>. HIDE DEF e
  <2>3. \A i \in 1 .. Len(e) : e[i].key = NoKey
    BY <2>1
  <2>2. Typed(e) = <<>>
    BY <2>1, <2>3, TypedNothing
  <2>. QED  BY <2>2 DEF e
<1>. QED  BY <1>2, <1>3, <1>4

LEMMA EmptyWordOK ==
  ASSUME NEW cfg
  PROVE  WordOK(cfg, <<>>)
<1>1. Len(<<>>) = 0
  OBVIOUS
<1>2. <<>> \in Seq(On(cfg.im, Ids)) /\ <<>> \in Seq(On(cfg.im, AppendIds(<<>>)))
  OBVIOUS
<1>. QED  BY <1>1, <1>2 DEF WordOK, Distinct, OnlyKeys

\* Where no macro is, the composition is one word.
LEMMA OneWordIs ==
  ASSUME NEW cfg, MethodOK(cfg.im), NEW comp, WordOK(cfg, comp), ~MacrosOn(cfg)
  PROVE  /\ WordStart(comp, cfg.im.keys) = 1 /\ LastWord(cfg.im, comp) = comp
         /\ Vietnamese(cfg, comp) = Flatten(comp) /\ English(cfg, comp) = Typed(comp)
<1>1. comp \in Seq(On(cfg.im, Ids)) /\ OnlyKeys(comp, WordKeys(cfg))
  BY DEF WordOK
<1>2. WordKeys(cfg) \subseteq Composable(cfg.im)
  BY WordKeysAre
<1>3. OnlyKeys(comp, Composable(cfg.im))
  BY <1>1, <1>2 DEF OnlyKeys
<1>4. WordStart(comp, cfg.im.keys) = 1 /\ LastWord(cfg.im, comp) = comp
  BY <1>1, <1>3, WholeWord
<1>. QED  BY <1>4 DEF Vietnamese, English

\* What the engine shows of a composition.
LEMMA PreeditIs ==
  ASSUME NEW cfg, MethodOK(cfg.im), NEW comp, WordOK(cfg, comp), OneWord(cfg)
  PROVE  /\ MacrosOn(cfg) => Preedit(cfg, comp) = Flatten(comp)
         /\ ~MacrosOn(cfg) => \/ Preedit(cfg, comp) = Flatten(comp)
                              \/ cfg.restore /\ Preedit(cfg, comp) = Typed(comp)
         /\ Preedit(cfg, comp) \in Seq(Char)
         /\ Preedit(cfg, comp) = <<>> <=> comp = <<>>
<1>1. /\ comp \in Seq(On(cfg.im, Ids)) /\ OnlyKeys(comp, WordKeys(cfg))
      /\ comp # <<>> => AppendIds(comp) # {}
  BY DEF WordOK
<1>2. comp \in Seq(Transformation)
  BY <1>1, OnIsTransformation
<1>3. Space \notin WordKeys(cfg) /\ NoKey \notin WordKeys(cfg)
  BY WordKeysAre
<1>4. MacrosOn(cfg) => Preedit(cfg, comp) = Flatten(comp)
  BY <1>1, <1>2, <1>3, SinceSpaceAll DEF Preedit
<1>5. ~MacrosOn(cfg) => \/ Preedit(cfg, comp) = Flatten(comp)
                        \/ cfg.restore /\ Preedit(cfg, comp) = Typed(comp)
  BY OneWordIs DEF Preedit, ShouldFallback, FallsBack
<1>6. Flatten(comp) \in Seq(Char) /\ Typed(comp) \in Seq(Char)
  BY <1>1, <1>2, FlattenSome, TypedKeys
<1>7. comp # <<>> => Flatten(comp) # <<>> /\ Typed(comp) # <<>>
  BY <1>1, FlattenSome, TypedSome
<1>8. comp = <<>> => Flatten(comp) = <<>> /\ Typed(comp) = <<>>
  BY EmptyShown
<1>. QED  BY <1>4, <1>5, <1>6, <1>7, <1>8

\* A key makes the composition longer and is remembered, unless it is one that
\* appends a letter of its own.
LEMMA GrowsWordOK ==
  ASSUME NEW cfg, MethodOK(cfg.im), NEW comp, WordOK(cfg, comp), NEW k \in WordKeys(cfg),
         NEW upper \in BOOLEAN, NEW r,
         \A A \in SUBSET Ids : comp \in Seq(On(cfg.im, A)) => Grows(cfg.im, A, comp, r, k, upper)
  PROVE  /\ WordOK(cfg, r)
         /\ OneWord(cfg) => r # <<>>
         /\ k \notin cfg.im.appending => Typed(r) = Append(Typed(comp), PlainChar(k, upper))
<1>. DEFINE im == cfg.im
            K == WordKeys(cfg)
            A == IF MacrosOn(cfg) THEN Ids ELSE AppendIds(comp)
<1>1. /\ comp \in Seq(On(im, Ids)) /\ Distinct(comp) /\ OnlyKeys(comp, K)
      /\ ~MacrosOn(cfg) => comp \in Seq(On(im, AppendIds(comp)))
      /\ OneWord(cfg) /\ comp # <<>> => AppendIds(comp) # {}
  BY DEF WordOK
<1>2. comp \in Seq(Transformation) /\ \A i \in 1 .. Len(comp) : comp[i] \in On(im, Ids)
  BY <1>1, OnIsTransformation, ElementOfSeq
<1>3. AppendIds(comp) \subseteq Ids
  <2>1. \A a : a \in AppendIds(comp) <=> \E i \in 1 .. Len(comp) : comp[i].kind = "append" /\ a = comp[i].id
    BY <1>2, AppendIdsOf
  <2>. QED  BY <1>2, <2>1 DEF On
<1>4. A \in SUBSET Ids /\ comp \in Seq(On(im, A))
  BY <1>1, <1>3
<1>5. K \subseteq Symbols \ {NoKey} /\ NoKey \notin K
  BY WordKeysAre
<1>. HIDE DEF A
<1>6. PICK new, B :
           /\ Batch(im, A, FreshId(comp), new) /\ Remembers(im, new, k, upper)
           /\ B = A \cup AppendIds(new) /\ B \in SUBSET Ids
           /\ r \in Seq(On(im, B)) /\ new \in Seq(Transformation)
           /\ Distinct(r) /\ AppendIds(r) = AppendIds(comp) \cup AppendIds(new)
           /\ Typed(r) = Typed(comp) \o Typed(new)
  BY <1>4 DEF Grows
<1>7. r \in Seq(On(im, Ids)) /\ r \in Seq(Transformation)
  <2>. DEFINE S == On(im, B)
              T == On(im, Ids)
  <2>1. S \subseteq T
    BY <1>6, OnMore
  <2>. HIDE DEF S, T
  <2>2. r \in Seq(S)
    BY <1>6 DEF S
  <2>3. r \in Seq(T)
    BY <2>1, <2>2, SeqMonotonic
  <2>4. r \in Seq(On(im, Ids))
    BY <2>3 DEF T
  <2>. QED  BY <2>4, OnIsTransformation
<1>8. OnlyKeys(r, K)
  <2>1. OnlyKeys(new, {k})
    BY <1>5, <1>6, RemembersOnly
  <2>2. OnlyKeys(new, K)
    BY <2>1 DEF OnlyKeys
  <2>3. OnlyKeys(comp \o new, K)
    BY <1>1, <1>2, <1>6, <2>2, OnlyKeysConcat
  <2>. DEFINE c == comp \o new
  <2>4. c \in Seq(Transformation) /\ Typed(c) = Typed(r)
    BY <1>2, <1>6, TypedConcat
  <2>5. OnlyKeys(c, K)
    BY <2>3
  <2>. HIDE DEF c, K
  <2>. QED  BY <1>5, <1>7, <2>4, <2>5, OnlyKeysTyped
<1>9. ASSUME ~MacrosOn(cfg)
      PROVE  r \in Seq(On(im, AppendIds(r)))
  <2>1. B = AppendIds(r)
    BY <1>6, <1>9 DEF A
  <2>. QED  BY <1>6, <2>1
<1>10. ASSUME OneWord(cfg)
       PROVE  AppendIds(r) # {}
  <2>1. CASE comp # <<>>
    BY <1>1, <1>6, <1>10, <2>1
  <2>2. CASE comp = <<>>
    <3>1. {} \in SUBSET Ids /\ comp \in Seq(On(im, {}))
      BY <2>2
    <3>2. PICK m, C :
             /\ Batch(im, {}, FreshId(comp), m) /\ C = {} \cup AppendIds(m)
             /\ AppendIds(r) = AppendIds(comp) \cup AppendIds(m)
      BY <3>1 DEF Grows
    <3>3. m # <<>> /\ m \in Seq(On(im, {} \cup AppendIds(m)))
      BY <3>2 DEF Batch
    <3>4. {} \cup AppendIds(m) = AppendIds(m)
      OBVIOUS
    <3>5. m \in Seq(On(im, AppendIds(m)))
      BY <3>3, <3>4
    <3>6. AppendIds(m) # {}
      BY <3>3, <3>5, ClosedHasLetter
    <3>. QED  BY <3>2, <3>6
  <2>. QED  BY <2>1, <2>2
<1>11. OneWord(cfg) => r # <<>>
  BY <1>10, EmptyShown
<1>12. ASSUME k \notin im.appending
       PROVE  Typed(r) = Append(Typed(comp), PlainChar(k, upper))
  <2>. DEFINE ch == PlainChar(k, upper)
  <2>1. Typed(new) = <<ch>>
    BY <1>6, <1>12 DEF Remembers, Keys
  <2>2. ch \in Char /\ Typed(comp) \in Seq(Char)
    BY <1>2, <1>5, TypedKeys DEF PlainChar, Char, None
  <2>. HIDE DEF ch
  <2>3. Append(Typed(comp), ch) = Typed(comp) \o <<ch>>
    BY <2>2, AppendIsConcat
  <2>. QED  BY <1>6, <2>1, <2>3 DEF ch
<1>. QED  BY <1>6, <1>7, <1>8, <1>9, <1>10, <1>11, <1>12 DEF WordOK

LEMMA WordGrows ==
  ASSUME NEW cfg, MethodOK(cfg.im), NEW comp, WordOK(cfg, comp), NEW k \in WordKeys(cfg),
         NEW upper \in BOOLEAN,
         NEW r \in {ProcessEnglish(comp, k, upper), ProcessKey(cfg.im, comp, k, upper)}
  PROVE  /\ WordOK(cfg, r)
         /\ OneWord(cfg) => r # <<>>
         /\ k \notin cfg.im.appending => Typed(r) = Append(Typed(comp), PlainChar(k, upper))
<1>1. Distinct(comp) /\ k \in Symbols /\ k # NoKey
  BY WordKeysAre DEF WordOK
<1>2. \A A \in SUBSET Ids : comp \in Seq(On(cfg.im, A)) => Grows(cfg.im, A, comp, r, k, upper)
  BY <1>1, ProcessEnglishGrows, ProcessKeyGrows
<1>. QED  BY <1>2, GrowsWordOK

\* Backspace makes it shorter.
LEMMA WordShrinks ==
  ASSUME NEW cfg, MethodOK(cfg.im), NEW comp, WordOK(cfg, comp),
         MacrosOn(cfg) /\ OneWord(cfg) => Len(Flatten(comp)) \notin {0, 1}
  PROVE  WordOK(cfg, RemoveLastChar(cfg.im, comp, TRUE))
<1>. DEFINE im == cfg.im
            K == WordKeys(cfg)
            r == RemoveLastChar(im, comp, TRUE)
            A == IF MacrosOn(cfg) THEN Ids ELSE AppendIds(comp)
<1>1. /\ comp \in Seq(On(im, Ids)) /\ Distinct(comp) /\ OnlyKeys(comp, K)
      /\ ~MacrosOn(cfg) => comp \in Seq(On(im, AppendIds(comp)))
      /\ OneWord(cfg) /\ comp # <<>> => AppendIds(comp) # {}
  BY DEF WordOK
<1>2. comp \in Seq(Transformation) /\ \A i \in 1 .. Len(comp) : comp[i] \in On(im, Ids)
  BY <1>1, OnIsTransformation, ElementOfSeq
<1>3. AppendIds(comp) \subseteq Ids
  <2>1. \A a : a \in AppendIds(comp) <=> \E i \in 1 .. Len(comp) : comp[i].kind = "append" /\ a = comp[i].id
    BY <1>2, AppendIdsOf
  <2>. QED  BY <1>2, <2>1 DEF On
<1>4. A \in SUBSET Ids /\ comp \in Seq(On(im, A))
  BY <1>1, <1>3
<1>5. NoKey \notin K
  BY WordKeysAre
<1>6. r = RemoveLastChar(im, comp, TRUE)
  OBVIOUS
<1>. HIDE DEF r
<1>7. CASE LastAppended(comp) = 0
  <2>1. r = comp
    BY <1>4, <1>6, <1>7, NothingToRemove
  <2>. QED  BY <2>1 DEF r
<1>8. CASE LastAppended(comp) # 0
  <2>. HIDE DEF A
  <2>1. Shrinks(im, A, comp, r)
    BY <1>1, <1>4, <1>6, <1>8, RemoveShrinks
  <2>2. WordStart(comp, im.keys) = 1 /\ A = AppendIds(comp) => r \in Seq(On(im, AppendIds(r)))
    BY <1>1, <1>4, <1>6, <1>8, RemoveShrinks
  <2>3. PICK id \in AppendIds(comp) : Lacks(im, A, comp, id, r)
    BY <2>1 DEF Shrinks
  <2>4. /\ r \in Seq(On(im, A)) /\ Distinct(r) /\ AppendIds(r) = AppendIds(comp) \ {id}
        /\ OnlyKeys(r, K)
    BY <1>1, <1>5, <2>3 DEF Lacks
  <2>5. r \in Seq(On(im, Ids))
    <3>. DEFINE S == On(im, A)
                T == On(im, Ids)
    <3>1. S \subseteq T
      BY <1>4, OnMore
    <3>2. r \in Seq(S)
      BY <2>4
    <3>. HIDE DEF S, T
    <3>3. r \in Seq(T)
      BY <3>1, <3>2, SeqMonotonic
    <3>. QED  BY <3>3 DEF T
  <2>6. ~MacrosOn(cfg) => r \in Seq(On(im, AppendIds(r)))
    BY <2>2, OneWordIs DEF A
  <2>7. ASSUME OneWord(cfg), r # <<>>
        PROVE  AppendIds(r) # {}
    <3>1. CASE MacrosOn(cfg)
      <4>1. \E a \in AppendIds(comp) : a # id
        BY <1>1, <2>7, <3>1, TwoLetters
      <4>. QED  BY <4>1, <2>4
    <3>2. CASE ~MacrosOn(cfg)
      BY <2>6, <2>7, <3>2, ClosedHasLetter
    <3>. QED  BY <3>1, <3>2
  <2>8. WordOK(cfg, r)
    BY <2>4, <2>5, <2>6, <2>7 DEF WordOK
  <2>. QED  BY <2>8 DEF r
<1>. QED  BY <1>7, <1>8

\* handle_non_vn_word: the restored keys are the keys that were typed.
LEMMA RestoredKeys ==
  ASSUME NEW cfg, MethodOK(cfg.im), NEW comp, WordOK(cfg, comp), ~MacrosOn(cfg)
  PROVE  /\ SinceSpace(RestoreKeys(cfg.im, comp)) = Typed(comp)
         /\ Typed(comp) \in Seq(KeyTexts(WordKeys(cfg)))
<1>. DEFINE K == WordKeys(cfg)
            w == Typed(comp)
            f == FreshId(comp)
            r == Retyped(w, f)
<1>1. comp \in Seq(On(cfg.im, Ids)) /\ comp \in Seq(Transformation) /\ OnlyKeys(comp, K)
  BY OnIsTransformation DEF WordOK
<1>2. WordStart(comp, cfg.im.keys) = 1 /\ LastWord(cfg.im, comp) = comp
  BY OneWordIs
<1>3. K \in SUBSET (Symbols \ {NoKey}) /\ NoKey \notin K /\ Space \notin K
  BY WordKeysAre
<1>4. w \in Seq(KeyTexts(K))
  BY <1>1, TypedTexts
<1>5. f \in Ids
  BY <1>1, FreshIdIsFresh DEF Ids
<1>6. SubSeq(comp, 1, WordStart(comp, cfg.im.keys) - 1) = <<>>
  <2>1. SubSeq(comp, 1, 0) = <<>>
    BY <1>1, WholeSubSeq
  <2>. QED  BY <1>2, <2>1
<1>7. RestoreKeys(cfg.im, comp) = <<>> \o r
  BY <1>2, <1>6 DEF RestoreKeys
<1>. HIDE DEF w, f, K
<1>8. /\ r \in Seq(On(cfg.im, Ids)) /\ \A i \in 1 .. Len(w) : r[i].key = w[i][1]
      /\ Len(r) = Len(w) /\ Flatten(r) = w
  BY <1>3, <1>4, <1>5, RetypedFlat
<1>9. OnlyKeys(r, K)
  <2>1. \A i \in 1 .. Len(w) : w[i] \in KeyTexts(K)
    BY <1>4, ElementOfSeq
  <2>. HIDE DEF r
  <2>. QED  BY <1>8, <2>1 DEF OnlyKeys, KeyTexts
<1>. HIDE DEF r
<1>10. r \in Seq(Transformation) /\ <<>> \o r = r
  BY <1>8, OnIsTransformation, ConcatEmptySeq
<1>11. SinceSpace(r) = Flatten(r)
  BY <1>3, <1>9, <1>10, SinceSpaceAll
<1>12. w = Typed(comp) /\ K = WordKeys(cfg)
  BY DEF w, K
<1>. QED  BY <1>4, <1>7, <1>8, <1>10, <1>11, <1>12

\* A letter put at the end as it is typed is seen at the end.
LEMMA LetterShown ==
  ASSUME NEW cfg, MethodOK(cfg.im), NEW comp, WordOK(cfg, comp), OneWord(cfg),
         MacrosOn(cfg) \/ comp = <<>>, NEW k \in WordKeys(cfg), NEW upper \in BOOLEAN
  PROVE  Preedit(cfg, ProcessEnglish(comp, k, upper)) = Append(Preedit(cfg, comp), PlainChar(k, upper))
<1>. DEFINE n1 == FreshId(comp)
            x == Appending(k, upper, n1)
            r == ProcessEnglish(comp, k, upper)
            T == On(cfg.im, Ids)
<1>1. comp \in Seq(T) /\ comp \in Seq(Transformation)
  BY OnIsTransformation DEF WordOK
<1>2. k \in Symbols /\ k # NoKey
  BY WordKeysAre
<1>3. n1 \in Ids /\ \A i \in 1 .. Len(comp) : comp[i].target < n1
  BY <1>1, FreshIdIsFresh DEF Ids
<1>. HIDE DEF n1
<1>4. /\ x \in LettersIn(cfg.im, Ids) /\ x.id = n1 /\ x.key = k /\ x.upper = upper
      /\ x.on = k /\ x.kind = "append"
  BY <1>2, <1>3, AppendingIs
<1>5. x \in T
  BY <1>4 DEF LettersIn
<1>6. r = Append(comp, x)
  BY DEF ProcessEnglish, n1
<1>. HIDE DEF x
<1>7. \A i \in 1 .. Len(comp) : comp[i].target # x.id
  <2>1. \A i \in 1 .. Len(comp) : comp[i] \in Transformation
    BY <1>1, ElementOfSeq
  <2>. QED  BY <1>3, <1>4, <2>1 DEF Transformation, Ids
<1>8. Flatten(Append(comp, x)) = Append(Flatten(comp), PlainChar(x.on, x.upper))
  BY <1>1, <1>4, <1>5, <1>7, FlattenAppend
<1>9. Flatten(r) = Append(Flatten(comp), PlainChar(k, upper))
  BY <1>4, <1>6, <1>8
<1>10. WordOK(cfg, r)
  BY WordGrows
<1>. HIDE DEF r
<1>11. CASE MacrosOn(cfg)
  <2>1. Preedit(cfg, r) = Flatten(r) /\ Preedit(cfg, comp) = Flatten(comp)
    BY <1>10, <1>11, PreeditIs
  <2>. QED  BY <1>9, <2>1 DEF r
<1>12. CASE ~MacrosOn(cfg)
  <2>1. comp = <<>> /\ Flatten(comp) = <<>> /\ Typed(comp) = <<>>
    BY <1>12, EmptyShown
  <2>2. Typed(r) = Append(Typed(comp), PlainChar(k, upper))
    <3>1. r = comp \o <<x>>
      BY <1>1, <1>5, <1>6, AppendIsConcat
    <3>2. <<x>> \in Seq(Transformation) /\ x \in Transformation
      BY <1>5 DEF On
    <3>3. Typed(comp \o <<x>>) = Typed(comp) \o Typed(<<x>>)
      BY <1>1, <3>2, TypedConcat
    <3>4. Typed(<<x>>) = <<PlainChar(k, upper)>>
      BY <1>2, <1>4, <3>2, TypedSingle
    <3>. DEFINE ch == PlainChar(k, upper)
    <3>5. ch \in Char /\ Typed(comp) \in Seq(Char)
      BY <1>1, <1>2, TypedKeys DEF PlainChar, Char, None
    <3>. HIDE DEF ch
    <3>6. Append(Typed(comp), ch) = Typed(comp) \o <<ch>>
      BY <3>5, AppendIsConcat
    <3>. QED  BY <3>1, <3>3, <3>4, <3>6 DEF ch
  <2>3. Preedit(cfg, r) \in {Flatten(r), Typed(r)}
    BY <1>10, <1>12, PreeditIs
  <2>4. Preedit(cfg, comp) = <<>>
    BY <2>1, PreeditIs
  <2>. QED  BY <1>9, <2>1, <2>2, <2>3, <2>4 DEF r
<1>. QED  BY <1>11, <1>12

\* Where a macro is, what is shown is what stands behind the last space.
LEMMA SpaceText ==
  ASSUME NEW im, NEW s \in Seq(On(im, Ids))
  PROVE  SinceSpace(s) \in Seq(Char)
<1>. DEFINE I == {i \in 1 .. Len(s) : s[i].key = Space}
            start == 1 + MaxOrZero(I)
            rest == SubSeq(s, start, Len(s))
<1>1. Len(s) \in Nat
  BY LenProperties
<1>2. SinceSpace(s) = Flatten(rest)
  BY DEF SinceSpace, SelectLastInSeq, MaxOrZero
<1>3. I \in SUBSET (1 .. Len(s))
  OBVIOUS
<1>. HIDE DEF I
<1>4. MaxOrZero(I) \in 0 .. Len(s)
  <2>1. I = {} => MaxOrZero(I) = 0
    BY <1>1, <1>3, MaxOfPlaces
  <2>2. I # {} => MaxOrZero(I) \in I
    BY <1>1, <1>3, MaxOfPlaces
  <2>3. MaxOrZero(I) = 0 \/ MaxOrZero(I) \in 1 .. Len(s)
    BY <1>3, <2>1, <2>2
  <2>. QED  BY <1>1, <2>3
<1>5. start \in 1 .. Len(s) + 1
  BY <1>1, <1>4
<1>. HIDE DEF start
<1>6. rest \in Seq(On(im, Ids))
  BY <1>5, Cut
<1>. HIDE DEF rest
<1>7. Flatten(rest) \in Seq(Char)
  BY <1>6, FlattenSome
<1>. QED  BY <1>2, <1>7

\* The keys of the last word, and the composition with them put back.
LEMMA LastWordText ==
  ASSUME NEW im, NEW s \in Seq(On(im, Ids)), NEW K \in SUBSET (Symbols \ {NoKey}), OnlyKeys(s, K)
  PROVE  /\ Typed(LastWord(im, s)) \in Seq(Char)
         /\ RestoreKeys(im, s) \in Seq(On(im, Ids))
<1>. DEFINE start == WordStart(s, im.keys)
            before == SubSeq(s, 1, start - 1)
            w == LastWord(im, s)
<1>1. start \in 1 .. Len(s) + 1
  BY WordStartIn
<1>2. w = SubSeq(s, start, Len(s))
  BY DEF LastWord
<1>. HIDE DEF start
<1>3. /\ before \in Seq(On(im, Ids)) /\ SubSeq(s, start, Len(s)) \in Seq(On(im, Ids))
      /\ \A i \in 1 .. Len(SubSeq(s, start, Len(s))) : SubSeq(s, start, Len(s))[i] = s[start - 1 + i]
      /\ Len(SubSeq(s, start, Len(s))) = Len(s) - start + 1
  BY <1>1, Cut
<1>. HIDE DEF w
<1>4. /\ w \in Seq(On(im, Ids)) /\ Len(w) = Len(s) - start + 1
      /\ \A i \in 1 .. Len(w) : w[i] = s[start - 1 + i]
  BY <1>2, <1>3
<1>5. OnlyKeys(w, K)
  <2>1. Len(s) \in Nat
    BY LenProperties
  <2>2. \A i \in 1 .. Len(w) : start - 1 + i \in 1 .. Len(s)
    BY <1>1, <1>4, <2>1
  <2>. QED  BY <1>4, <2>2 DEF OnlyKeys
<1>6. w \in Seq(Transformation)
  BY <1>4, OnIsTransformation
<1>7. Typed(w) \in Seq(Char) /\ Typed(w) \in Seq(KeyTexts(K))
  BY <1>5, <1>6, TypedKeys, TypedTexts
<1>. DEFINE f == FreshId(s)
            r == Retyped(Typed(w), f)
<1>8. f \in Ids
  <2>1. s \in Seq(Transformation)
    BY OnIsTransformation
  <2>. QED  BY <2>1, FreshIdIsFresh DEF Ids
<1>. HIDE DEF f
<1>9. r \in Seq(On(im, Ids))
  BY <1>7, <1>8, RetypedFlat
<1>. HIDE DEF r, before
<1>10. before \o r \in Seq(On(im, Ids))
  BY <1>3, <1>9, ConcatProperties
<1>11. RestoreKeys(im, s) = before \o r
  BY DEF RestoreKeys, w, r, f, before, start
<1>. QED  BY <1>7, <1>10, <1>11 DEF w

\* What the engine shows is a text.
LEMMA PreeditText ==
  ASSUME NEW cfg, MethodOK(cfg.im), NEW comp, WordOK(cfg, comp)
  PROVE  Preedit(cfg, comp) \in Seq(Char)
<1>1. CASE MacrosOn(cfg)
  BY <1>1, SpaceText DEF WordOK, Preedit
<1>2. CASE ~MacrosOn(cfg)
  <2>1. OneWord(cfg)
    BY <1>2, WordKeysAre
  <2>. QED  BY <2>1, PreeditIs
<1>. QED  BY <1>1, <1>2

(***************************************************************************)
(* One key.                                                                *)
(***************************************************************************)
LEMMA PreeditDisplay ==
  ASSUME NEW cfg, MethodOK(cfg.im), NEW comp, WordOK(cfg, comp)
  PROVE  Display(cfg, comp, Preedit(cfg, comp))
BY PreeditIs, PreeditText DEF Display

LEMMA EmptyDisplay ==
  ASSUME NEW cfg, MethodOK(cfg.im)
  PROVE  Display(cfg, <<>>, <<>>)
<1>1. WordOK(cfg, <<>>)
  BY EmptyWordOK
<1>2. OneWord(cfg) => Preedit(cfg, <<>>) = <<>>
  BY <1>1, PreeditIs
<1>3. ~MacrosOn(cfg) => OneWord(cfg)
  BY WordKeysAre
<1>4. <<>> \in Seq(Char)
  OBVIOUS
<1>. QED  BY <1>2, <1>3, <1>4 DEF Display

\* What a key leaves of the core, and of the panel that showed text.
Keeps(cfg, text, r) ==
  /\ CoreOK(r.core) /\ WordOK(cfg, r.core.comp)
  /\ Display(cfg, r.core.comp, IF r.shows = <<>> THEN text ELSE r.shows[1])

LEMMA IgnoredKeeps ==
  ASSUME NEW cfg, NEW c, CoreOK(c), WordOK(cfg, c.comp), NEW text, Display(cfg, c.comp, text)
  PROVE  Keeps(cfg, text, Ignored(c))
BY DEF Keeps, Ignored, Result

LEMMA CommitOK ==
  ASSUME NEW cfg, NEW c, CoreOK(c), NEW text
  PROVE  CoreOK(Commit(cfg, c, text)) /\ Commit(cfg, c, text).comp = <<>>
<1>1. <<>> \in Seq(Transformation)
  OBVIOUS
<1>2. CASE text = <<>>
  <2>1. Commit(cfg, c, text) = [c EXCEPT !.comp = <<>>]
    BY <1>2 DEF Commit
  <2>. QED  BY <1>1, <2>1 DEF CoreOK
<1>3. CASE text # <<>>
  <2>1. Commit(cfg, c, text) = [comp |-> <<>>, sentence |-> TrackSentence(cfg, c.sentence, text),
                                armed |-> Arms(cfg, c.armed, text)]
    BY <1>3 DEF Commit
  <2>2. TrackSentence(cfg, c.sentence, text) \in {"idle", "punct", "ready"}
    BY DEF TrackSentence, CoreOK
  <2>3. Arms(cfg, c.armed, text) \in BOOLEAN
    BY DEF Arms, EndsWord, CoreOK
  <2>. QED  BY <1>1, <2>1, <2>2, <2>3 DEF CoreOK
<1>. QED  BY <1>2, <1>3

LEMMA CommittedKeeps ==
  ASSUME NEW cfg, MethodOK(cfg.im), NEW c, CoreOK(c), NEW text, NEW handled, NEW out
  PROVE  Keeps(cfg, text, Committed(cfg, c, handled, out))
<1>. DEFINE r == Committed(cfg, c, handled, out)
            d == Commit(cfg, c, out)
<1>1. r.core = d /\ r.shows = <<<<>>>>
  BY DEF Committed, Result
<1>2. CoreOK(d) /\ d.comp = <<>>
  BY CommitOK
<1>3. r.shows # <<>> /\ r.shows[1] = <<>>
  BY <1>1
<1>. HIDE DEF r, d
<1>. QED  BY <1>1, <1>2, <1>3, EmptyWordOK, EmptyDisplay DEF Keeps, r

LEMMA ShowingKeeps ==
  ASSUME NEW cfg, NEW c, CoreOK(c), NEW text, NEW handled, NEW comp, NEW out,
         WordOK(cfg, comp), Display(cfg, comp, out)
  PROVE  Keeps(cfg, text, Showing(c, handled, comp, out))
<1>. DEFINE r == Showing(c, handled, comp, out)
<1>1. r.core = [c EXCEPT !.comp = comp] /\ r.shows = <<out>>
  BY DEF Showing, Result
<1>2. comp \in Seq(Transformation)
  BY OnIsTransformation DEF WordOK
<1>3. CoreOK(r.core) /\ r.core.comp = comp
  BY <1>1, <1>2 DEF CoreOK
<1>4. r.shows # <<>> /\ r.shows[1] = out
  BY <1>1
<1>. HIDE DEF r
<1>. QED  BY <1>3, <1>4 DEF Keeps, r

OutcomeOK(cfg, next) == ~next.breaks => WordOK(cfg, next.comp) /\ Display(cfg, next.comp, next.text)

LEMMA OutcomesKeeps ==
  ASSUME NEW cfg, MethodOK(cfg.im), NEW c, CoreOK(c), NEW text, NEW printable, NEW next, OutcomeOK(cfg, next)
  PROVE  Keeps(cfg, text, Outcomes(cfg, c, printable, next))
<1>1. CASE next.breaks
  BY <1>1, CommittedKeeps DEF Outcomes
<1>2. CASE ~next.breaks
  BY <1>2, ShowingKeeps DEF Outcomes, OutcomeOK
<1>. QED  BY <1>1, <1>2

\* The text with a letter more is not empty, and is a text.
LEMMA OneMore ==
  ASSUME NEW old \in Seq(Char), NEW k \in Symbols, NEW upper \in BOOLEAN
  PROVE  Append(old, PlainChar(k, upper)) \in Seq(Char) /\ Append(old, PlainChar(k, upper)) # <<>>
<1>1. PlainChar(k, upper) \in Char
  BY DEF PlainChar, Char, None
<1>. QED  BY <1>1, AppendProperties

\* The key as it is typed, where it is composed with nothing or is one of a
\* macro's.
LEMMA AsIsOK ==
  ASSUME NEW cfg, MethodOK(cfg.im), NEW comp, WordOK(cfg, comp), NEW k \in WordKeys(cfg),
         NEW upper \in BOOLEAN, MacrosOn(cfg) \/ comp = <<>>
  PROVE  OutcomeOK(cfg, TypedAsIs(comp, k, upper, Preedit(cfg, comp)))
<1>. DEFINE r == ProcessEnglish(comp, k, upper)
            t == Append(Preedit(cfg, comp), PlainChar(k, upper))
<1>1. WordOK(cfg, r)
  BY WordGrows
<1>2. OneWord(cfg) => Preedit(cfg, r) = t
  BY LetterShown
<1>3. Display(cfg, r, Preedit(cfg, r))
  BY <1>1, PreeditDisplay
<1>4. ~MacrosOn(cfg) => OneWord(cfg)
  BY WordKeysAre
<1>6. t \in Seq(Char)
  <2>1. k \in Symbols
    BY WordKeysAre
  <2>. QED  BY <2>1, PreeditText, OneMore
<1>. HIDE DEF t
<1>5. Display(cfg, r, t)
  BY <1>2, <1>3, <1>4, <1>6 DEF Display
<1>. QED  BY <1>1, <1>5 DEF OutcomeOK, TypedAsIs, Outcome, t

\* A key that appends a letter of its own may show the key instead, where the
\* word has fallen back to its keys.
LEMMA AppendedTextOK ==
  ASSUME NEW cfg, MethodOK(cfg.im), NEW comp, WordOK(cfg, comp), NEW r, WordOK(cfg, r),
         OneWord(cfg) => r # <<>>, NEW k \in WordKeys(cfg), k \in cfg.im.appending
  PROVE  OutcomeOK(cfg, AppendedText(cfg, r, k, Preedit(cfg, comp), Vietnamese(cfg, r), Preedit(cfg, r)))
<1>. DEFINE ch == PlainChar(k, FALSE)
            old == Preedit(cfg, comp)
            now == Preedit(cfg, r)
            vn == Vietnamese(cfg, r)
            seen == IF ShouldFallback(cfg, r, TRUE) THEN English(cfg, r) ELSE vn
            next == AppendedText(cfg, r, k, old, vn, now)
<1>1. Display(cfg, r, now)
  BY PreeditDisplay
<1>2. CASE EndsWith(vn, ch)
  <2>1. next = Outcome(r, now, now # <<>> /\ IsWordBreak(Last(now)[1]))
    BY <1>2 DEF AppendedText, BreaksAfter
  <2>. HIDE DEF now
  <2>2. next.comp = r /\ next.text = now
    BY <2>1 DEF Outcome
  <2>. HIDE DEF next
  <2>3. OutcomeOK(cfg, next)
    BY <1>1, <2>2 DEF OutcomeOK
  <2>. QED  BY <2>3 DEF next, now
<1>3. CASE ~EndsWith(vn, ch) /\ EndsWith(seen, ch)
  <2>1. next = Outcome(r, Append(old, ch), IsWordBreak(k))
    BY <1>3 DEF AppendedText
  <2>2. ShouldFallback(cfg, r, TRUE)
    BY <1>3
  <2>3. ~MacrosOn(cfg) => cfg.restore /\ now = Typed(r)
    BY <2>2, OneWordIs DEF Preedit, ShouldFallback, FallsBack
  <2>4. k \in Symbols
    BY WordKeysAre
  <2>5. Append(old, ch) \in Seq(Char) /\ Append(old, ch) # <<>>
    BY <2>4, PreeditText, OneMore
  <2>. HIDE DEF old, ch
  <2>6. Display(cfg, r, Append(old, ch))
    BY <2>3, <2>5 DEF Display
  <2>7. next.comp = r /\ next.text = Append(old, ch)
    BY <2>1 DEF Outcome
  <2>. HIDE DEF next
  <2>8. OutcomeOK(cfg, next)
    BY <2>6, <2>7 DEF OutcomeOK
  <2>. QED  BY <2>8 DEF next, old
<1>4. CASE ~EndsWith(vn, ch) /\ ~EndsWith(seen, ch)
  <2>1. next = Outcome(r, now, FALSE)
    BY <1>4 DEF AppendedText
  <2>. HIDE DEF now
  <2>2. next.comp = r /\ next.text = now
    BY <2>1 DEF Outcome
  <2>. HIDE DEF next
  <2>3. OutcomeOK(cfg, next)
    BY <1>1, <2>2 DEF OutcomeOK
  <2>. QED  BY <2>3 DEF next, now
<1>. QED  BY <1>2, <1>3, <1>4

LEMMA ComposedOK ==
  ASSUME NEW cfg, MethodOK(cfg.im), NEW comp, WordOK(cfg, comp), NEW r, WordOK(cfg, r),
         OneWord(cfg) => r # <<>>, NEW k \in WordKeys(cfg), NEW upper \in BOOLEAN
  PROVE  OutcomeOK(cfg, Composed(cfg, r, k, upper, Preedit(cfg, comp)))
<1>. DEFINE next == Composed(cfg, r, k, upper, Preedit(cfg, comp))
            now == Preedit(cfg, r)
<1>1. CASE upper \/ k \notin cfg.im.appending
  <2>1. next = Outcome(r, now, FALSE)
    BY <1>1 DEF Composed, ShownText
  <2>2. Display(cfg, r, now)
    BY PreeditDisplay
  <2>. HIDE DEF now
  <2>3. next.comp = r /\ next.text = now
    BY <2>1 DEF Outcome
  <2>. HIDE DEF next
  <2>4. OutcomeOK(cfg, next)
    BY <2>2, <2>3 DEF OutcomeOK
  <2>. QED  BY <2>4 DEF next
<1>2. CASE ~upper /\ k \in cfg.im.appending
  <2>1. next = AppendedText(cfg, r, k, Preedit(cfg, comp), Vietnamese(cfg, r), Preedit(cfg, r))
    BY <1>2 DEF Composed, ShownText
  <2>2. OutcomeOK(cfg, AppendedText(cfg, r, k, Preedit(cfg, comp), Vietnamese(cfg, r), Preedit(cfg, r)))
    BY <1>2, AppendedTextOK
  <2>. HIDE DEF next
  <2>3. OutcomeOK(cfg, next)
    BY <2>1, <2>2
  <2>. QED  BY <2>3 DEF next
<1>. QED  BY <1>1, <1>2

\* The keys a composition may hold: those that can be composed.
LEMMA ProcessableIsWordKey ==
  ASSUME NEW cfg, MethodOK(cfg.im), NEW k \in Typeable, CanProcess(cfg, k)
  PROVE  k \in WordKeys(cfg)
<1>1. k \in Symbols \ {NoKey} /\ k # Space
  BY ProcessableKey DEF CanProcess, Space
<1>2. k \in Composable(cfg.im)
  BY <1>1 DEF Composable, CanProcess
<1>. QED  BY <1>1, <1>2 DEF WordKeys

\* get_commit_text, for a key that can be composed.
LEMMA ComposeKeyOK ==
  ASSUME NEW cfg, MethodOK(cfg.im), NEW comp, WordOK(cfg, comp), NEW k \in Typeable, CanProcess(cfg, k),
         NEW upper \in BOOLEAN
  PROVE  OutcomeOK(cfg, ComposeKey(cfg, comp, k, upper, Preedit(cfg, comp)))
<1>1. k \in WordKeys(cfg)
  BY ProcessableIsWordKey
<1>2. CASE WSuppressed(cfg, comp, k)
  <2>1. MacrosOn(cfg) \/ comp = <<>>
    <3>1. SUFFICES ASSUME ~MacrosOn(cfg), comp # <<>>
                   PROVE  FALSE
      OBVIOUS
    <3>2. Typed(comp) = <<>>
      BY <1>2, <3>1, OneWordIs DEF WSuppressed
    <3>3. AppendIds(comp) # {} /\ comp \in Seq(On(cfg.im, Ids))
      BY <3>1, WordKeysAre DEF WordOK
    <3>. QED  BY <3>2, <3>3, TypedSome
  <2>2. OutcomeOK(cfg, TypedAsIs(comp, k, upper, Preedit(cfg, comp)))
    BY <1>1, <2>1, AsIsOK
  <2>. QED  BY <1>2, <2>2 DEF ComposeKey
<1>3. CASE ~WSuppressed(cfg, comp, k)
  <2>. DEFINE r == IF ShouldFallback(cfg, comp, FALSE) THEN ProcessEnglish(comp, k, upper)
                   ELSE ProcessKey(cfg.im, comp, k, upper)
  <2>1. ComposeKey(cfg, comp, k, upper, Preedit(cfg, comp)) = Composed(cfg, r, k, upper, Preedit(cfg, comp))
    BY <1>3 DEF ComposeKey
  <2>2. r \in {ProcessEnglish(comp, k, upper), ProcessKey(cfg.im, comp, k, upper)}
    OBVIOUS
  <2>. HIDE DEF r
  <2>3. WordOK(cfg, r) /\ (OneWord(cfg) => r # <<>>)
    BY <1>1, <2>2, WordGrows
  <2>4. OutcomeOK(cfg, Composed(cfg, r, k, upper, Preedit(cfg, comp)))
    BY <1>1, <2>3, ComposedOK
  <2>. QED  BY <2>1, <2>4
<1>. QED  BY <1>2, <1>3

LEMMA PrefixAgrees ==
  ASSUME NEW S, NEW s \in Seq(S), NEW T, NEW t \in Seq(T), IsPrefix(s, t)
  PROVE  \A i \in 1 .. Len(s) : i \in 1 .. Len(t) /\ t[i] = s[i]
<1>. DEFINE m == Len(s)
            l == Len(t)
            p == SubSeq(s, 1, m)
            q == SubSeq(t, 1, m)
<1>1. m \in Nat /\ l \in Nat /\ m <= l /\ p = q
  BY LenProperties DEF IsPrefix
<1>2. \A i \in 1 .. m : s[i] \in S /\ i \in 1 .. l
  BY <1>1, ElementOfSeq
<1>3. \A i \in 1 .. m : t[i] \in T
  <2>1. \A i \in 1 .. l : t[i] \in T
    BY ElementOfSeq
  <2>. QED  BY <1>2, <2>1
<1>. HIDE DEF m, l
<1>4. \A i \in 1 .. m : p[i] = s[i]
  BY <1>1, <1>2, SubSeqProperties
<1>5. \A i \in 1 .. m : q[i] = t[i]
  BY <1>1, <1>3, SubSeqProperties
<1>. HIDE DEF p, q
<1>6. \A i \in 1 .. m : i \in 1 .. l /\ t[i] = s[i]
  BY <1>1, <1>2, <1>4, <1>5
<1>. QED  BY <1>6 DEF m, l

\* A space begins no macro of one word.
LEMMA NoMacroSpace ==
  ASSUME NEW cfg, \A m \in cfg.macros : m.key \in Seq(Char), OneWord(cfg),
         NEW old \in Seq(Char), NEW upper \in BOOLEAN
  PROVE  ~HasMacroPrefix(cfg, old \o <<PlainChar(Space, upper)>>)
<1>. DEFINE ch == PlainChar(Space, upper)
            text == old \o <<ch>>
            low == LowerCase(text)
            i == Len(old) + 1
<1>1. Space \in Symbols
  BY Zenon DEF Space, Symbols, Punctuation
<1>2. ch \in Char /\ ch[1] = Space /\ <<ch>> \in Seq(Char)
  BY <1>1 DEF PlainChar, Char, None
<1>3. Len(<<ch>>) = 1 /\ <<ch>>[1] = ch
  OBVIOUS
<1>. HIDE DEF ch
<1>4. text \in Seq(Char) /\ Len(text) = i /\ i \in 1 .. i /\ text[i] = ch /\ i \in Nat
  <2>. DEFINE w == <<ch>>
  <2>1. w \in Seq(Char) /\ Len(w) = 1 /\ w[1] = ch
    BY <1>2, <1>3
  <2>. HIDE DEF w
  <2>2. text \in Seq(Char) /\ Len(text) = Len(old) + 1 /\ Len(old) \in Nat
        /\ \A j \in 1 .. Len(old) + 1 : text[j] = IF j <= Len(old) THEN old[j] ELSE w[j - Len(old)]
    BY <2>1, ConcatProperties, LenProperties DEF w
  <2>3. text[i] = w[1]
    BY <2>2
  <2>. QED  BY <2>1, <2>2, <2>3
<1>. HIDE DEF text, i
<1>5. DOMAIN text = 1 .. i /\ \A j \in 1 .. i : text[j] \in Char
  BY <1>4, LenProperties, ElementOfSeq
<1>6. low \in Seq(Char) /\ Len(low) = i /\ low[i][1] = Space
  <2>1. low = [j \in 1 .. i |-> <<text[j][1], text[j][2], FALSE>>]
    BY <1>5 DEF LowerCase
  <2>2. \A j \in 1 .. i : <<text[j][1], text[j][2], FALSE>> \in Char
    BY <1>5 DEF Char
  <2>. HIDE DEF low
  <2>3. low \in [1 .. i -> Char]
    BY <2>1, <2>2
  <2>4. low[i] = <<text[i][1], text[i][2], FALSE>>
    BY <1>4, <2>1
  <2>5. low[i][1] = Space
    BY <1>2, <1>4, <2>4
  <2>. QED  BY <1>4, <2>3, <2>5, FunctionIsSeq
<1>. HIDE DEF low
<1>7. SUFFICES ASSUME NEW m \in cfg.macros, IsPrefix(low, m.key)
               PROVE  FALSE
  BY DEF HasMacroPrefix, low, text, ch
<1>8. m.key \in Seq(Char) /\ DOMAIN m.key = 1 .. Len(m.key)
  BY LenProperties
<1>9. i \in 1 .. Len(m.key) /\ m.key[i] = low[i]
  BY <1>4, <1>6, <1>7, <1>8, PrefixAgrees
<1>. QED  BY <1>6, <1>8, <1>9 DEF OneWord

\* get_commit_text, for a key that breaks the word.
LEMMA BreakKeyOK ==
  ASSUME NEW cfg, MethodOK(cfg.im), \A m \in cfg.macros : m.key \in Seq(Char),
         NEW comp, WordOK(cfg, comp), NEW k, ~CanProcess(cfg, k), k \notin {"BackSpace", "Tab"},
         NEW upper \in BOOLEAN
  PROVE  OutcomeOK(cfg, BreakKey(cfg, comp, k, upper, Preedit(cfg, comp), IsPrintable(cfg, comp, k)))
<1>. DEFINE old == Preedit(cfg, comp)
            printable == IsPrintable(cfg, comp, k)
            typed == IF printable THEN <<PlainChar(k, upper)>> ELSE <<>>
            next == BreakText(cfg, comp, k, upper, old, typed)
<1>1. CASE HasMacroPrefix(cfg, old \o typed) /\ typed # <<>>
  <2>1. printable /\ typed = <<PlainChar(k, upper)>>
    BY <1>1
  <2>2. IsWordBreak(k)
    BY <2>1 DEF IsPrintable
  <2>3. k \in Typeable
    BY <2>2 DEF IsWordBreak, Typeable
  <2>4. MacrosOn(cfg)
    BY <1>1 DEF HasMacroPrefix, MacrosOn
  <2>5. ASSUME OneWord(cfg)
        PROVE  k # Space
    <3>1. old \in Seq(Char)
      BY <2>5, PreeditIs
    <3>2. ~HasMacroPrefix(cfg, old \o <<PlainChar(Space, upper)>>)
      BY <2>5, <3>1, NoMacroSpace
    <3>. QED  BY <1>1, <2>1, <3>2
  <2>6. k \in WordKeys(cfg)
    BY <2>3, <2>4, <2>5 DEF WordKeys
  <2>7. OutcomeOK(cfg, TypedAsIs(comp, k, upper, old))
    BY <2>4, <2>6, AsIsOK
  <2>8. next = TypedAsIs(comp, k, upper, old)
    BY <1>1 DEF BreakText
  <2>. HIDE DEF next, old
  <2>9. OutcomeOK(cfg, next)
    BY <2>7, <2>8
  <2>. QED  BY <2>9 DEF next, old, BreakKey
<1>2. CASE ~(HasMacroPrefix(cfg, old \o typed) /\ typed # <<>>)
  <2>1. next.breaks
    BY <1>2 DEF BreakText, Outcome
  <2>2. OutcomeOK(cfg, next)
    <3>. HIDE DEF next
    <3>. QED  BY <2>1 DEF OutcomeOK
  <2>. QED  BY <2>2 DEF BreakKey
<1>. QED  BY <1>1, <1>2

LEMMA KeysThatCannot ==
  ASSUME NEW cfg, MethodOK(cfg.im), NEW k, CanProcess(cfg, k)
  PROVE  k \notin {" ", ":", "BackSpace", "Tab", "Paste", "Escape", "Return", "page", "click", "reset", "leave"}
BY ProcessableKey DEF CanProcess

LEMMA CharacterKeeps ==
  ASSUME NEW cfg, MethodOK(cfg.im), \A m \in cfg.macros : m.key \in Seq(Char),
         NEW c, CoreOK(c), WordOK(cfg, c.comp), NEW k, CanProcess(cfg, k) => k \in Typeable,
         k \notin {"BackSpace", "Tab"}, NEW upper \in BOOLEAN, NEW text
  PROVE  Keeps(cfg, text, CharacterKey(cfg, c, k, upper, Preedit(cfg, c.comp), IsPrintable(cfg, c.comp, k)))
<1>. DEFINE old == Preedit(cfg, c.comp)
            p == IsPrintable(cfg, c.comp, k)
            next == IF CanProcess(cfg, k) THEN ComposeKey(cfg, c.comp, k, upper, old)
                    ELSE BreakKey(cfg, c.comp, k, upper, old, p)
<1>1. OutcomeOK(cfg, next)
  <2>1. CASE CanProcess(cfg, k)
    BY <2>1, ComposeKeyOK
  <2>2. CASE ~CanProcess(cfg, k)
    BY <2>2, BreakKeyOK
  <2>. QED  BY <2>1, <2>2
<1>2. CharacterKey(cfg, c, k, upper, old, p) = Outcomes(cfg, c, p, next)
  BY DEF CharacterKey
<1>. HIDE DEF next
<1>3. Keeps(cfg, text, Outcomes(cfg, c, p, next))
  BY <1>1, OutcomesKeeps
<1>. QED  BY <1>2, <1>3

LEMMA BackSpaceKeeps ==
  ASSUME NEW cfg, MethodOK(cfg.im), NEW c, CoreOK(c), WordOK(cfg, c.comp),
         NEW text, Display(cfg, c.comp, text)
  PROVE  Keeps(cfg, text, BackSpaceKey(cfg, c, Preedit(cfg, c.comp)))
<1>. DEFINE old == Preedit(cfg, c.comp)
            r == RemoveLastChar(cfg.im, c.comp, TRUE)
<1>1. CASE Len(old) = 1
  BY <1>1, CommittedKeeps DEF BackSpaceKey
<1>2. CASE Len(old) # 1 /\ Typed(c.comp) = <<>>
  BY <1>2, IgnoredKeeps DEF BackSpaceKey
<1>3. CASE Len(old) # 1 /\ Typed(c.comp) # <<>>
  <2>1. BackSpaceKey(cfg, c, old) = Showing(c, TRUE, r, Preedit(cfg, r))
    BY <1>3 DEF BackSpaceKey, ShorterWord
  <2>2. ASSUME MacrosOn(cfg), OneWord(cfg)
        PROVE  Len(Flatten(c.comp)) \notin {0, 1}
    <3>1. old = Flatten(c.comp) /\ old \in Seq(Char) /\ (old = <<>> <=> c.comp = <<>>)
      BY <2>2, PreeditIs
    <3>2. c.comp # <<>>
      BY <1>3, EmptyShown
    <3>. HIDE DEF old
    <3>3. Len(old) # 0
      BY <3>1, <3>2, EmptySeq
    <3>4. Len(old) # 1
      BY <1>3 DEF old
    <3>. QED  BY <3>1, <3>3, <3>4
  <2>3. WordOK(cfg, r)
    BY <2>2, WordShrinks
  <2>. HIDE DEF r
  <2>4. Display(cfg, r, Preedit(cfg, r))
    BY <2>3, PreeditDisplay
  <2>5. Keeps(cfg, text, Showing(c, TRUE, r, Preedit(cfg, r)))
    BY <2>3, <2>4, ShowingKeeps
  <2>. QED  BY <2>1, <2>5
<1>. QED  BY <1>1, <1>2, <1>3

\* preedit_process_key_event
LEMMA PreeditKeyKeeps ==
  ASSUME NEW cfg, MethodOK(cfg.im), \A m \in cfg.macros : m.key \in Seq(Char),
         NEW c, CoreOK(c), WordOK(cfg, c.comp), NEW k, CanProcess(cfg, k) => k \in Typeable,
         NEW upper \in BOOLEAN, NEW text, Display(cfg, c.comp, text)
  PROVE  Keeps(cfg, text, ProcessPreedit(cfg, c, k, upper))
<1>. DEFINE old == Preedit(cfg, c.comp)
            active == MacrosOn(cfg) \/ Typed(c.comp) # <<>>
            r == ProcessPreedit(cfg, c, k, upper)
<1>1. k \in {"BackSpace", "Tab"} => ~CanProcess(cfg, k)
  BY KeysThatCannot
<1>2. CASE ~CanProcess(cfg, k) /\ ~active
  <2>1. r = Ignored(c)
    BY <1>2 DEF ProcessPreedit, PreeditKey
  <2>. QED  BY <2>1, IgnoredKeeps
<1>3. CASE k = "BackSpace" /\ active
  <2>1. r = BackSpaceKey(cfg, c, old)
    BY <1>1, <1>3 DEF ProcessPreedit, PreeditKey
  <2>. QED  BY <2>1, BackSpaceKeeps
<1>4. CASE k = "Tab" /\ active
  <2>1. r = TabKey(cfg, c, old, IsMacro(cfg, c.comp))
    BY <1>1, <1>4 DEF ProcessPreedit, PreeditKey
  <2>. QED  BY <2>1, CommittedKeeps DEF TabKey
<1>5. CASE ~(~CanProcess(cfg, k) /\ ~active) /\ ~(k = "BackSpace" /\ active) /\ ~(k = "Tab" /\ active)
  <2>1. r = CharacterKey(cfg, c, k, upper, old, IsPrintable(cfg, c.comp, k))
    BY <1>5 DEF ProcessPreedit, PreeditKey
  <2>2. k \notin {"BackSpace", "Tab"}
    BY <1>1, <1>5
  <2>. QED  BY <2>1, <2>2, CharacterKeeps
<1>. QED  BY <1>2, <1>3, <1>4, <1>5

\* process_key_event
LEMMA KeyEventKeeps ==
  ASSUME NEW cfg, MethodOK(cfg.im), \A m \in cfg.macros : m.key \in Seq(Char),
         NEW c, CoreOK(c), WordOK(cfg, c.comp), NEW k, CanProcess(cfg, k) => k \in Typeable,
         NEW text, Display(cfg, c.comp, text)
  PROVE  Keeps(cfg, text, ProcessKeyEvent(cfg, c, k))
<1>1. CASE k = "Paste"
  <2>. DEFINE d == [c EXCEPT !.armed = FALSE, !.sentence = "idle"]
  <2>1. CoreOK(d) /\ d.comp = c.comp
    BY DEF CoreOK
  <2>2. ProcessKeyEvent(cfg, c, k) = Ignored(d)
    BY <1>1 DEF ProcessKeyEvent
  <2>. HIDE DEF d
  <2>3. Keeps(cfg, text, Ignored(d))
    BY <2>1, IgnoredKeeps
  <2>. QED  BY <2>2, <2>3
<1>2. CASE k # "Paste"
  <2>. DEFINE s == Sentence(cfg, c.sentence, k)
              d == [c EXCEPT !.armed = FALSE, !.sentence = s.next]
              u == s.upper
  <2>1. u \in BOOLEAN /\ s.next \in {"idle", "punct", "ready"}
    BY DEF Sentence, CoreOK
  <2>2. ProcessKeyEvent(cfg, c, k) = ProcessPreedit(cfg, d, k, u)
    BY <1>2 DEF ProcessKeyEvent, AfterSentence
  <2>. HIDE DEF s, u
  <2>3. CoreOK(d) /\ d.comp = c.comp
    BY <2>1 DEF CoreOK
  <2>. HIDE DEF d
  <2>4. Keeps(cfg, text, ProcessPreedit(cfg, d, k, u))
    BY <2>1, <2>3, PreeditKeyKeeps
  <2>. QED  BY <2>2, <2>4
<1>. QED  BY <1>1, <1>2

\* Whatever the key does, it is remembered.
LEMMA KeyRemembered ==
  ASSUME NEW cfg, MethodOK(cfg.im), NEW c, CoreOK(c), WordOK(cfg, c.comp), NEW k \in Typeable,
         CanProcess(cfg, k), k \notin cfg.im.appending, NEW upper \in BOOLEAN
  PROVE  Typed(ProcessPreedit(cfg, c, k, upper).core.comp) = Append(Typed(c.comp), PlainChar(k, upper))
<1>. DEFINE old == Preedit(cfg, c.comp)
            next == ComposeKey(cfg, c.comp, k, upper, old)
            p == IsPrintable(cfg, c.comp, k)
<1>1. k \in WordKeys(cfg) /\ k \notin {"BackSpace", "Tab"}
  BY ProcessableIsWordKey, KeysThatCannot
<1>2. ProcessPreedit(cfg, c, k, upper) = Outcomes(cfg, c, p, next)
  BY <1>1 DEF ProcessPreedit, PreeditKey, CharacterKey
<1>3. PICK r \in {ProcessEnglish(c.comp, k, upper), ProcessKey(cfg.im, c.comp, k, upper)} :
        \E text : next = Outcome(r, text, FALSE)
  <2>1. CASE WSuppressed(cfg, c.comp, k)
    BY <2>1 DEF ComposeKey, TypedAsIs
  <2>2. CASE ~WSuppressed(cfg, c.comp, k)
    <3>. DEFINE r == IF ShouldFallback(cfg, c.comp, FALSE) THEN ProcessEnglish(c.comp, k, upper)
                     ELSE ProcessKey(cfg.im, c.comp, k, upper)
    <3>1. next = Composed(cfg, r, k, upper, old)
      BY <2>2 DEF ComposeKey
    <3>2. Composed(cfg, r, k, upper, old) = Outcome(r, Preedit(cfg, r), FALSE)
      BY DEF Composed, ShownText
    <3>3. r \in {ProcessEnglish(c.comp, k, upper), ProcessKey(cfg.im, c.comp, k, upper)}
      OBVIOUS
    <3>. HIDE DEF r, next
    <3>. QED  BY <3>1, <3>2, <3>3
  <2>. QED  BY <2>1, <2>2
<1>. HIDE DEF next
<1>4. Typed(r) = Append(Typed(c.comp), PlainChar(k, upper))
  BY <1>1, WordGrows
<1>5. ~next.breaks /\ next.comp = r
  BY <1>3 DEF Outcome
<1>. HIDE DEF p
<1>6. Outcomes(cfg, c, p, next).core = [c EXCEPT !.comp = next.comp]
  BY <1>5 DEF Outcomes, Showing, Result, CoreOK
<1>. QED  BY <1>2, <1>4, <1>5, <1>6

(***************************************************************************)
(* Texts.                                                                  *)
(***************************************************************************)
LEMMA TextOf ==
  ASSUME NEW S, NEW x \in Seq(S)
  PROVE  Text(x)
<1>. DEFINE P == {x[i] : i \in DOMAIN x}
<1>1. DOMAIN x = 1 .. Len(x)
  BY LenProperties
<1>2. \A i \in 1 .. Len(x) : x[i] \in P
  BY <1>1
<1>. HIDE DEF P
<1>3. x \in Seq(P)
  BY <1>2, SeqOver
<1>. QED  BY <1>3 DEF Text, Range, P

\* Two texts, as sequences over one set.
LEMMA TextsTogether ==
  ASSUME NEW a, Text(a), NEW b, Text(b)
  PROVE  \E S : a \in Seq(S) /\ b \in Seq(S)
<1>. DEFINE A == {a[i] : i \in DOMAIN a}
            B == {b[i] : i \in DOMAIN b}
            S == A \cup B
<1>1. a \in Seq(A) /\ b \in Seq(B) /\ A \subseteq S /\ B \subseteq S
  BY DEF Text, Range
<1>. HIDE DEF A, B, S
<1>2. a \in Seq(S) /\ b \in Seq(S)
  BY <1>1, SeqMonotonic
<1>. QED  BY <1>2

LEMMA TextConcat ==
  ASSUME NEW a, Text(a), NEW b, Text(b)
  PROVE  /\ Text(a \o b) /\ IsPrefix(a, a \o b) /\ Len(a \o b) = Len(a) + Len(b)
         /\ Len(a) \in Nat /\ Len(b) \in Nat
<1>1. PICK S : a \in Seq(S) /\ b \in Seq(S)
  BY TextsTogether
<1>. DEFINE c == a \o b
<1>2. /\ c \in Seq(S) /\ Len(c) = Len(a) + Len(b) /\ Len(a) \in Nat /\ Len(b) \in Nat
      /\ \A i \in 1 .. Len(a) : i \in 1 .. Len(c) /\ c[i] = a[i]
  BY <1>1, ConcatElements
<1>. HIDE DEF c
<1>. DEFINE m == Len(a)
            p == SubSeq(a, 1, m)
            q == SubSeq(c, 1, m)
<1>3. p = a
  BY <1>1, WholeSubSeq
<1>4. q \in Seq(S) /\ Len(q) = m /\ \A i \in 1 .. m : q[i] = c[i]
  <2>1. 1 \in 1 .. Len(c) + 1 /\ m \in 0 .. Len(c)
    BY <1>2
  <2>2. /\ q \in Seq(S) /\ Len(q) = IF 1 <= m THEN m - 1 + 1 ELSE 0
        /\ \A i \in 1 .. m - 1 + 1 : q[i] = c[1 + i - 1]
    BY <1>2, <2>1, SubSeqType
  <2>. HIDE DEF q, m
  <2>3. m \in Nat
    BY <1>2 DEF m
  <2>4. Len(q) = m
    BY <2>2, <2>3
  <2>5. \A i \in 1 .. m : i \in 1 .. m - 1 + 1 /\ 1 + i - 1 = i
    BY <2>3
  <2>. QED  BY <2>2, <2>4, <2>5
<1>5. q = a
  <2>1. \A i \in 1 .. m : q[i] = a[i]
    BY <1>2, <1>4
  <2>. HIDE DEF q
  <2>. QED  BY <1>1, <1>4, <2>1, SeqEqual
<1>6. IsPrefix(a, c)
  <2>1. m <= Len(c)
    BY <1>2
  <2>2. p = q
    BY <1>3, <1>5
  <2>. QED  BY <2>1, <2>2 DEF IsPrefix
<1>. QED  BY <1>2, <1>6, TextOf DEF c

LEMMA TextAppend ==
  ASSUME NEW a, Text(a), NEW x
  PROVE  /\ Text(Append(a, x)) /\ Append(a, x) = a \o <<x>> /\ Append(a, x) # <<>>
         /\ Text(<<x>>) /\ Len(<<x>>) = 1
<1>1. <<x>> \in Seq({x}) /\ Len(<<x>>) = 1
  OBVIOUS
<1>2. Text(<<x>>)
  BY <1>1, TextOf
<1>. DEFINE S == {a[i] : i \in DOMAIN a} \cup {x}
            P == {a[i] : i \in DOMAIN a}
<1>3. a \in Seq(P) /\ P \subseteq S /\ x \in S
  BY DEF Text, Range
<1>. HIDE DEF P, S
<1>4. a \in Seq(S)
  BY <1>3, SeqMonotonic
<1>5. Append(a, x) = a \o <<x>>
  BY <1>3, <1>4, AppendIsConcat
<1>6. Append(a, x) \in Seq(S) /\ Append(a, x) # <<>>
  BY <1>3, <1>4, AppendProperties
<1>. QED  BY <1>1, <1>2, <1>5, <1>6, TextOf

LEMMA TextSub ==
  ASSUME NEW a, Text(a), NEW n1 \in Int, n1 <= Len(a)
  PROVE  Text(SubSeq(a, 1, n1)) /\ Len(SubSeq(a, 1, n1)) = IF 1 <= n1 THEN n1 ELSE 0
<1>. DEFINE S == {a[i] : i \in DOMAIN a}
            p == SubSeq(a, 1, n1)
<1>1. a \in Seq(S)
  BY DEF Text, Range
<1>. HIDE DEF S
<1>2. Len(a) \in Nat /\ \A i \in 1 .. Len(a) : a[i] \in S
  BY <1>1, LenProperties, ElementOfSeq
<1>3. \A i \in 1 .. n1 : a[i] \in S
  BY <1>2
<1>4. p \in Seq(S) /\ Len(p) = IF 1 <= n1 THEN n1 - 1 + 1 ELSE 0
  BY <1>3, SubSeqProperties
<1>. HIDE DEF p
<1>5. Text(p)
  BY <1>4, TextOf
<1>6. Len(p) = IF 1 <= n1 THEN n1 ELSE 0
  BY <1>4
<1>. QED  BY <1>5, <1>6 DEF p

LEMMA TextFront ==
  ASSUME NEW a, Text(a)
  PROVE  Text(Front(a))
<1>1. Len(a) \in Nat
  BY TextConcat
<1>2. Len(a) - 1 \in Int /\ Len(a) - 1 <= Len(a)
  BY <1>1
<1>. QED  BY <1>2, TextSub DEF Front

LEMMA EmptyText == Text(<<>>)
<1>1. <<>> \in Seq({})
  OBVIOUS
<1>. QED  BY <1>1, TextOf

LEMMA CharsText ==
  ASSUME NEW letters, Text(letters)
  PROVE  Text(Chars(letters))
<1>. DEFINE m == Len(letters)
            S == {PlainChar(letters[i], FALSE) : i \in DOMAIN letters}
            c == Chars(letters)
<1>1. m \in Nat /\ DOMAIN letters = 1 .. m
  BY LenProperties DEF Text, Range
<1>2. c \in [1 .. m -> S]
  BY <1>1 DEF Chars
<1>. HIDE DEF c, S, m
<1>3. c \in Seq(S)
  BY <1>1, <1>2, FunctionIsSeq
<1>4. Text(c)
  BY <1>3, TextOf
<1>. QED  BY <1>4 DEF c

(***************************************************************************)
(* The text of a macro (expand_placeholders).                              *)
(***************************************************************************)
\* A function may be defined from its last place, each place by one behind it.
LaterPlaces(nx, n1) == \A i \in 1 .. n1 : nx[i] \in i + 1 .. n1 + 1
Unfolds(f, n1, b, op, nx) == f[n1 + 1] = b /\ \A i \in 1 .. n1 : f[i] = op[i][f[nx[i]]]

LEMMA Backwards ==
  ASSUME NEW n1 \in Nat, NEW X, NEW b \in X, NEW op, StepsWithin(op, n1, X),
         NEW nx, LaterPlaces(nx, n1)
  PROVE  \E f \in [1 .. n1 + 1 -> X] : Unfolds(f, n1, b, op, nx)
<1>0. \A i \in 1 .. n1 : nx[i] \in i + 1 .. n1 + 1
  BY DEF LaterPlaces
<1>. DEFINE Good(k, f) == f[n1 + 1] = b /\ \A i \in n1 + 1 - k .. n1 : f[i] = op[i][f[nx[i]]]
            Some(k) == \E f \in [n1 + 1 - k .. n1 + 1 -> X] : Good(k, f)
            S == {k \in Nat : k <= n1 => Some(k)}
<1>1. 0 \in S
  <2>. DEFINE f == [i \in n1 + 1 - 0 .. n1 + 1 |-> b]
  <2>1. f \in [n1 + 1 - 0 .. n1 + 1 -> X] /\ f[n1 + 1] = b
    OBVIOUS
  <2>2. \A i \in n1 + 1 - 0 .. n1 : FALSE
    OBVIOUS
  <2>. HIDE DEF f
  <2>3. Good(0, f)
    BY <2>1, <2>2
  <2>. QED  BY <2>1, <2>3
<1>2. ASSUME NEW k \in Nat, k \in S
      PROVE  k + 1 \in S
  <2>1. SUFFICES ASSUME k + 1 <= n1
                 PROVE  Some(k + 1)
    <3>. HIDE DEF Some
    <3>. QED  OBVIOUS
  <2>2. PICK f \in [n1 + 1 - k .. n1 + 1 -> X] : Good(k, f)
    <3>1. Some(k)
      <4>. HIDE DEF Some
      <4>. QED  BY <1>2, <2>1
    <3>. QED  BY <3>1
  <2>. DEFINE m == n1 + 1 - (k + 1)
              new == op[m][f[nx[m]]]
              g == [i \in m .. n1 + 1 |-> IF i = m THEN new ELSE f[i]]
  <2>0. m \in 1 .. n1 /\ n1 + 1 - k = m + 1
    BY <2>1
  <2>3. new \in X
    <3>1. nx[m] \in m + 1 .. n1 + 1
      BY <1>0, <2>0
    <3>2. f[nx[m]] \in X
      BY <2>0, <3>1
    <3>. QED  BY <2>0, <3>2 DEF StepsWithin
  <2>. HIDE DEF new, m
  <2>4. /\ g \in [m .. n1 + 1 -> X]
        /\ \A i \in m + 1 .. n1 + 1 : g[i] = f[i]
        /\ g[m] = new
    BY <2>0, <2>3
  <2>. HIDE DEF g
  <2>5. g[n1 + 1] = b
    BY <2>0, <2>2, <2>4
  <2>6. ASSUME NEW i \in m .. n1
        PROVE  g[i] = op[i][g[nx[i]]]
    <3>0. i \in 1 .. n1
      BY <2>0
    <3>1. nx[i] \in m + 1 .. n1 + 1
      BY <1>0, <2>0, <3>0
    <3>2. g[nx[i]] = f[nx[i]]
      BY <2>4, <3>1
    <3>3. CASE i # m
      <4>1. i \in m + 1 .. n1 + 1 /\ i \in n1 + 1 - k .. n1
        BY <2>0, <3>3
      <4>. QED  BY <2>2, <2>4, <3>2, <4>1
    <3>4. CASE i = m
      BY <2>4, <3>2, <3>4 DEF new
    <3>. QED  BY <3>3, <3>4
  <2>7. Good(k + 1, g)
    BY <2>5, <2>6 DEF m
  <2>8. g \in [n1 + 1 - (k + 1) .. n1 + 1 -> X]
    BY <2>4 DEF m
  <2>. QED  BY <2>7, <2>8
<1>. HIDE DEF S
<1>3. n1 \in S
  BY <1>1, <1>2, Induction
<1>4. Some(n1)
  <2>. HIDE DEF Some
  <2>. QED  BY <1>3 DEF S
<1>5. n1 + 1 - n1 = 1
  OBVIOUS
<1>. QED  BY <1>4, <1>5 DEF Unfolds

\* What holds at the last place, and with the places behind one also there,
\* holds everywhere.
LEMMA BackwardsKeeps ==
  ASSUME NEW n1 \in Nat, NEW X, NEW e, e[n1 + 1] \in X,
         NEW nx, \A i \in 1 .. n1 : nx[i] \in i + 1 .. n1 + 1,
         \A i \in 1 .. n1 : e[nx[i]] \in X => e[i] \in X
  PROVE  e[1] \in X
<1>. DEFINE S == {k \in Nat : k <= n1 => \A i \in n1 + 1 - k .. n1 + 1 : e[i] \in X}
<1>1. 0 \in S
  <2>1. n1 + 1 - 0 .. n1 + 1 = {n1 + 1}
    OBVIOUS
  <2>. QED  BY <2>1
<1>2. ASSUME NEW k \in Nat, k \in S
      PROVE  k + 1 \in S
  <2>1. SUFFICES ASSUME k + 1 <= n1, NEW i \in n1 + 1 - (k + 1) .. n1 + 1
                 PROVE  e[i] \in X
    OBVIOUS
  <2>2. \A j \in n1 + 1 - k .. n1 + 1 : e[j] \in X
    BY <1>2, <2>1
  <2>3. CASE i \in n1 + 1 - k .. n1 + 1
    BY <2>2, <2>3
  <2>4. CASE i \notin n1 + 1 - k .. n1 + 1
    <3>1. i \in 1 .. n1 /\ i + 1 = n1 + 1 - k
      BY <2>1, <2>4
    <3>2. nx[i] \in n1 + 1 - k .. n1 + 1
      BY <3>1
    <3>. QED  BY <2>2, <3>1, <3>2
  <2>. QED  BY <2>3, <2>4
<1>. HIDE DEF S
<1>3. n1 \in S
  BY <1>1, <1>2, Induction
<1>4. \A i \in n1 + 1 - n1 .. n1 + 1 : e[i] \in X
  BY <1>3 DEF S
<1>. QED  BY <1>4

\* What is put in for $DATE and $TIME is a text, and so is the whole.
LEMMA ExpandText ==
  ASSUME NEW text, Text(text), NEW clock, {DateFormat, TimeFormat} \subseteq DOMAIN clock,
         \A f \in DOMAIN clock : Text(clock[f]), NEW df, NEW tf
  PROVE  Text(ExpandPlaceholders(text, clock, df, tf))
<1>. DEFINE m == Len(text)
            S == Range(text) \cup UNION {Range(clock[f]) : f \in DOMAIN clock}
            X == Seq(S)
            Put(i) == Expansion(text, i, clock, df, tf)
            op == [i \in 1 .. m |-> [x \in X |-> Put(i) \o x]]
            nx == [i \in 1 .. m |-> Rest(text, i)]
<1>1. m \in Nat /\ \A i \in 1 .. m : text[i] \in S
  BY LenProperties, ElementOfSeq DEF Text
<1>2. ASSUME NEW f \in DOMAIN clock
      PROVE  clock[f] \in X
  <2>1. clock[f] \in Seq(Range(clock[f])) /\ Range(clock[f]) \subseteq S
    BY DEF Text
  <2>. HIDE DEF S
  <2>. QED  BY <2>1, SeqMonotonic
<1>. HIDE DEF S
<1>3. ASSUME NEW i \in 1 .. m
      PROVE  Put(i) \in X
  <2>1. <<text[i]>> \in X
    BY <1>1
  <2>2. Formatted(clock, df, DateFormat) \in X /\ Formatted(clock, tf, TimeFormat) \in X
    BY <1>2 DEF Formatted
  <2>. QED  BY <2>1, <2>2 DEF Expansion
<1>4. \A i \in 1 .. m : nx[i] \in i + 1 .. m + 1
  <2>1. SUFFICES ASSUME NEW i \in 1 .. m
                 PROVE  Rest(text, i) \in i + 1 .. m + 1
    OBVIOUS
  <2>2. TwoDollars(text, i) => i + 2 \in i + 1 .. m + 1
    BY <1>1 DEF TwoDollars
  <2>3. Date(text, i) \/ Time(text, i) => i + 5 \in i + 1 .. m + 1
    <3>1. Len(<<"d", "a", "t", "e">>) = 4 /\ Len(<<"t", "i", "m", "e">>) = 4
      OBVIOUS
    <3>2. Date(text, i) \/ Time(text, i) => i + 1 + 4 - 1 <= m
      BY <3>1, Zenon DEF Date, Time, Says
    <3>. QED  BY <1>1, <3>2
  <2>4. i + 1 \in i + 1 .. m + 1
    BY <1>1
  <2>. QED  BY <2>2, <2>3, <2>4 DEF Rest
<1>5. StepsWithin(op, m, X) /\ <<>> \in X
  <2>1. \A i \in 1 .. m : \A x \in X : Put(i) \o x \in X
    <3>. HIDE DEF Put
    <3>. QED  BY <1>3, ConcatProperties
  <2>2. <<>> \in X
    OBVIOUS
  <2>. HIDE DEF Put, X
  <2>. QED  BY <2>1, <2>2 DEF StepsWithin
<1>6. \A i \in 1 .. m : \A x \in X : op[i][x] = Put(i) \o x
  OBVIOUS
<1>. HIDE DEF op, X
<1>7. PICK f \in [1 .. m + 1 -> X] : f[m + 1] = <<>> /\ \A i \in 1 .. m : f[i] = op[i][f[nx[i]]]
  <2>. DEFINE b == <<>>
  <2>1. b \in X /\ StepsWithin(op, m, X) /\ m \in Nat
    BY <1>1, <1>5
  <2>. HIDE DEF nx
  <2>2. LaterPlaces(nx, m)
    BY <1>4 DEF LaterPlaces
  <2>. HIDE DEF b, m
  <2>3. \E f \in [1 .. m + 1 -> X] : Unfolds(f, m, b, op, nx)
    BY <2>1, <2>2, Backwards
  <2>. QED  BY <2>3 DEF b, Unfolds
<1>. DEFINE Step(g) == [i \in 1 .. m + 1 |-> IF i > m THEN <<>> ELSE Put(i) \o g[Rest(text, i)]]
<1>8. f = Step(f)
  <2>1. ASSUME NEW i \in 1 .. m + 1
        PROVE  f[i] = Step(f)[i]
    <3>1. CASE i = m + 1
      <4>1. i > m
        BY <1>1, <3>1
      <4>2. Step(f)[i] = <<>>
        BY <4>1
      <4>. QED  BY <1>7, <3>1, <4>2
    <3>2. CASE i # m + 1
      <4>1. i \in 1 .. m /\ ~(i > m)
        BY <1>1, <3>2
      <4>2. Step(f)[i] = Put(i) \o f[Rest(text, i)]
        <5>. HIDE DEF Put
        <5>. QED  BY <4>1
      <4>3. nx[i] = Rest(text, i) /\ nx[i] \in 1 .. m + 1
        BY <1>1, <1>4, <4>1
      <4>4. f[Rest(text, i)] \in X
        BY <4>3
      <4>5. op[i][f[Rest(text, i)]] = Put(i) \o f[Rest(text, i)]
        <5>. HIDE DEF Put
        <5>. QED  BY <1>6, <4>1, <4>4
      <4>. QED  BY <1>7, <4>1, <4>2, <4>3, <4>5
    <3>. QED  BY <3>1, <3>2
  <2>2. DOMAIN Step(f) = 1 .. m + 1 /\ Step(f) = [i \in DOMAIN Step(f) |-> Step(f)[i]]
    OBVIOUS
  <2>3. DOMAIN f = 1 .. m + 1 /\ f = [i \in DOMAIN f |-> f[i]]
    OBVIOUS
  <2>. HIDE DEF Step
  <2>. QED  BY <2>1, <2>2, <2>3, Zenon
<1>. DEFINE e == CHOOSE g : g = Step(g)
<1>9. e = Step(e)
  <2>. HIDE DEF Step
  <2>. QED  BY <1>8
<1>10. ExpandPlaceholders(text, clock, df, tf) = e[1]
  BY DEF ExpandPlaceholders
<1>. HIDE DEF e
<1>11. e[m + 1] = <<>> /\ \A i \in 1 .. m : e[i] = Put(i) \o e[nx[i]]
  <2>1. Step(e)[m + 1] = <<>>
    BY <1>1
  <2>2. ASSUME NEW i \in 1 .. m
        PROVE  Step(e)[i] = Put(i) \o e[nx[i]]
    <3>1. i \in 1 .. m + 1 /\ ~(i > m) /\ nx[i] = Rest(text, i)
      BY <1>1
    <3>. HIDE DEF Put, nx
    <3>. QED  BY <3>1
  <2>. HIDE DEF Step, nx
  <2>. QED  BY <1>9, <2>1, <2>2
<1>12. \A i \in 1 .. m : e[nx[i]] \in X => e[i] \in X
  <2>. HIDE DEF Put, nx
  <2>. QED  BY <1>3, <1>11, ConcatProperties, ZenonT(30) DEF X
<1>13. e[1] \in X
  <2>1. e[m + 1] \in X /\ m \in Nat /\ \A i \in 1 .. m : nx[i] \in i + 1 .. m + 1
    BY <1>1, <1>4, <1>5, <1>11
  <2>2. \A i \in 1 .. m : e[nx[i]] \in X => e[i] \in X
    BY <1>12
  <2>. HIDE DEF nx, m
  <2>. QED  BY <2>1, <2>2, BackwardsKeeps
<1>. QED  BY <1>10, <1>13, TextOf DEF X

(***************************************************************************)
(* The emoji lookup and the recent emoji.                                  *)
(***************************************************************************)
LEMMA TakeOf ==
  ASSUME NEW a, Text(a), NEW cap \in Nat
  PROVE  /\ Text(Take(a, cap)) /\ Len(Take(a, cap)) <= cap
         /\ a # <<>> /\ cap # 0 => Take(a, cap) # <<>> /\ Take(a, cap)[1] = a[1]
<1>. DEFINE m == IF cap < Len(a) THEN cap ELSE Len(a)
            t == SubSeq(a, 1, m)
            S == {a[i] : i \in DOMAIN a}
<1>1. a \in Seq(S) /\ Len(a) \in Nat
  BY LenProperties DEF Text, Range
<1>. HIDE DEF S
<1>2. m \in Int /\ m \in Nat /\ m <= Len(a) /\ m <= cap /\ (Len(a) # 0 /\ cap # 0 => m >= 1)
  BY <1>1
<1>3. Take(a, cap) = t
  BY DEF Take
<1>. HIDE DEF m
<1>4. Text(t) /\ Len(t) = IF 1 <= m THEN m ELSE 0
  BY <1>2, TextSub
<1>5. Len(t) <= cap
  <2>. HIDE DEF t
  <2>. QED  BY <1>2, <1>4
<1>6. ASSUME a # <<>>, cap # 0
      PROVE  t # <<>> /\ t[1] = a[1]
  <2>1. Len(a) # 0
    BY <1>1, <1>6, EmptySeq
  <2>2. 1 <= m /\ 1 \in 1 .. Len(a) + 1 /\ m \in 0 .. Len(a)
    BY <1>1, <1>2, <1>6, <2>1
  <2>3. /\ t \in Seq(S) /\ Len(t) = IF 1 <= m THEN m - 1 + 1 ELSE 0
        /\ \A i \in 1 .. m - 1 + 1 : t[i] = a[1 + i - 1]
    BY <1>1, <2>2, SubSeqType
  <2>. HIDE DEF t
  <2>4. 1 \in 1 .. m - 1 + 1 /\ 1 + 1 - 1 = 1
    BY <1>2, <2>2
  <2>5. t[1] = a[1]
    BY <2>3, <2>4
  <2>6. Len(t) = m
    BY <1>2, <2>2, <2>3
  <2>. QED  BY <2>2, <2>5, <2>6
<1>. QED  BY <1>3, <1>4, <1>5, <1>6

LEMMA ChosenText ==
  ASSUME NEW a, Text(a), NEW I
  PROVE  Text(Chosen(a, I))
<1>. DEFINE S == {a[i] : i \in DOMAIN a}
<1>1. a \in Seq(S)
  BY DEF Text, Range
<1>. HIDE DEF S
<1>2. Chosen(a, I) \in Seq(S)
  BY <1>1, ChosenPlaces
<1>. QED  BY <1>2, TextOf

LEMMA LoadedOK ==
  ASSUME NEW file, Text(file)
  PROVE  Text(LoadRecent(file)) /\ Len(LoadRecent(file)) <= RecentCap
<1>1. \E I : LoadRecent(file) = Take(Chosen(file, I), RecentCap)
  BY Zenon DEF LoadRecent, Filtered
<1>2. RecentCap \in Nat
  BY EmojiAssumption
<1>. QED  BY <1>1, <1>2, ChosenText, TakeOf

\* A picked emoji is the first one.
LEMMA RecordedOK ==
  ASSUME NEW list, Text(list), NEW e
  PROVE  /\ Text(Record(list, e)) /\ Len(Record(list, e)) <= RecentCap
         /\ Record(list, e) # <<>> /\ Record(list, e)[1] = e
<1>. DEFINE rest == Filtered(list, LAMBDA x : x # e)
            w == <<e>> \o rest
<1>1. Text(rest)
  BY ChosenText DEF Filtered
<1>2. RecentCap \in Nat /\ RecentCap # 0
  BY EmojiAssumption
<1>3. Record(list, e) = Take(w, RecentCap)
  BY DEF Record
<1>. HIDE DEF rest
<1>4. Text(<<e>>) /\ Len(<<e>>) = 1 /\ <<e>>[1] = e
  BY EmptyText, TextAppend
<1>5. Text(w) /\ w # <<>> /\ w[1] = e
  <2>. DEFINE h == <<e>>
  <2>1. PICK S : h \in Seq(S) /\ rest \in Seq(S)
    BY <1>1, <1>4, TextsTogether
  <2>2. Len(h) = 1 /\ h[1] = e
    BY <1>4
  <2>. HIDE DEF h
  <2>. DEFINE c == h \o rest
  <2>3. /\ c \in Seq(S) /\ Len(c) = Len(h) + Len(rest) /\ Len(rest) \in Nat
        /\ \A i \in 1 .. Len(h) : i \in 1 .. Len(c) /\ c[i] = h[i]
    BY <2>1, ConcatElements
  <2>4. c[1] = e /\ Len(c) # 0
    <3>. HIDE DEF c
    <3>. QED  BY <2>2, <2>3
  <2>5. Text(c) /\ c # <<>>
    <3>. HIDE DEF c
    <3>. QED  BY <2>3, <2>4, TextOf
  <2>6. w = c
    BY DEF h
  <2>. QED  BY <2>4, <2>5, <2>6
<1>. HIDE DEF w
<1>. QED  BY <1>2, <1>3, <1>5, TakeOf

LEMMA ClosedOK == EmojiOK(Closed) /\ ~Closed.open
BY EmptyText DEF EmojiOK, Closed

LEMMA UpdateOK ==
  ASSUME NEW query, Text(query), NEW list
  PROVE  EmojiOK(Update(query, list)) /\ Update(query, list).open
<1>1. \E found : Update(query, list) = [open |-> TRUE, query |-> query, page |-> 0, found |-> found]
  BY DEF Update
<1>2. PICK found : Update(query, list) = [open |-> TRUE, query |-> query, page |-> 0, found |-> found]
  BY <1>1
<1>. DEFINE u == [open |-> TRUE, query |-> query, page |-> 0, found |-> found]
<1>3. u.open = TRUE /\ u.query = query /\ u.found = found /\ u.page = 0
  OBVIOUS
<1>4. u = [open |-> u.open, query |-> u.query, found |-> u.found, page |-> u.page]
  OBVIOUS
<1>5. Update(query, list) = u
  BY <1>2
<1>. HIDE DEF u
<1>. QED  BY <1>3, <1>4, <1>5 DEF EmojiOK

LEMMA AfterKeyOK ==
  ASSUME NEW e, EmojiOK(e), NEW k, NEW list
  PROVE  EmojiOK(AfterKey(e, k, list))
<1>. DEFINE shorter == k = "BackSpace" /\ Len(e.query) > 1
            longer == EmojiText(k) /\ ~Picks(e, k)
<1>1. shorter => ~longer
  BY DEF EmojiText
<1>2. CASE shorter
  <2>1. AfterKey(e, k, list) = Update(Front(e.query), list)
    BY <1>1, <1>2 DEF AfterKey
  <2>2. Text(Front(e.query))
    BY TextFront DEF EmojiOK
  <2>. QED  BY <2>1, <2>2, UpdateOK
<1>3. CASE longer
  <2>1. AfterKey(e, k, list) = Update(Append(e.query, k), list)
    BY <1>1, <1>3 DEF AfterKey
  <2>2. Text(Append(e.query, k))
    BY TextAppend DEF EmojiOK
  <2>. QED  BY <2>1, <2>2, UpdateOK
<1>4. CASE ~shorter /\ ~longer
  BY <1>4, ClosedOK DEF AfterKey
<1>. QED  BY <1>2, <1>3, <1>4

(***************************************************************************)
(* What a word break commits, where no macro is.                           *)
(***************************************************************************)
\* handle_non_vn_word, composed_string: the word as shown or as typed.
KeptWord(cfg, comp, old) == IF Foreign(cfg, comp, old) THEN Typed(comp) ELSE old

LEMMA KeptText ==
  ASSUME NEW cfg, MethodOK(cfg.im), NEW comp, WordOK(cfg, comp), ~MacrosOn(cfg)
  PROVE  KeptWord(cfg, comp, Preedit(cfg, comp)) \in Seq(Char) /\ Text(KeptWord(cfg, comp, Preedit(cfg, comp)))
<1>1. OneWord(cfg)
  BY WordKeysAre
<1>2. Preedit(cfg, comp) \in Seq(Char)
  BY <1>1, PreeditIs
<1>3. Typed(comp) \in Seq(Char)
  BY TypedKeys, OnIsTransformation DEF WordOK
<1>4. KeptWord(cfg, comp, Preedit(cfg, comp)) \in Seq(Char)
  BY <1>2, <1>3 DEF KeptWord
<1>. QED  BY <1>4, TextOf

LEMMA BreakKeyIs ==
  ASSUME NEW cfg, MethodOK(cfg.im), ~MacrosOn(cfg), NEW comp, WordOK(cfg, comp), NEW k,
         NEW upper, NEW p
  PROVE  BreakKey(cfg, comp, k, upper, Preedit(cfg, comp), p)
         = Outcome(comp, KeptWord(cfg, comp, Preedit(cfg, comp))
                         \o (IF p THEN <<PlainChar(k, upper)>> ELSE <<>>), TRUE)
<1>. DEFINE old == Preedit(cfg, comp)
            typed == IF p THEN <<PlainChar(k, upper)>> ELSE <<>>
<1>1. ~HasMacroPrefix(cfg, old \o typed) /\ ~HasMacro(cfg, old)
  BY DEF MacrosOn, HasMacroPrefix, HasMacro
<1>2. BreakKey(cfg, comp, k, upper, old, p) = Outcome(comp, NonVnWord(cfg, comp, old, typed), TRUE)
  BY <1>1 DEF BreakKey, BreakText
<1>3. NonVnWord(cfg, comp, old, typed) = KeptWord(cfg, comp, old) \o typed
  BY RestoredKeys DEF NonVnWord, KeptWord
<1>. HIDE DEF old, typed
<1>4. BreakKey(cfg, comp, k, upper, old, p) = Outcome(comp, KeptWord(cfg, comp, old) \o typed, TRUE)
  BY <1>2, <1>3
<1>. QED  BY <1>4 DEF old, typed

\* preedit_process_key_event, for a key that breaks the word.
LEMMA BreakCommits ==
  ASSUME NEW cfg, MethodOK(cfg.im), ~MacrosOn(cfg), NEW c, WordOK(cfg, c.comp), c.comp # <<>>,
         NEW k, ~CanProcess(cfg, k), k \notin {"BackSpace", "Tab"}, NEW upper
  PROVE  LET r == ProcessPreedit(cfg, c, k, upper)
             p == IsPrintable(cfg, c.comp, k)
         IN  /\ r.handled = p
             /\ r.commit = KeptWord(cfg, c.comp, Preedit(cfg, c.comp))
                           \o (IF p THEN <<PlainChar(k, upper)>> ELSE <<>>)
<1>. DEFINE old == Preedit(cfg, c.comp)
            p == IsPrintable(cfg, c.comp, k)
            w == KeptWord(cfg, c.comp, old) \o (IF p THEN <<PlainChar(k, upper)>> ELSE <<>>)
<1>1. Typed(c.comp) # <<>>
  BY TypedSome, WordKeysAre DEF WordOK
<1>2. ProcessPreedit(cfg, c, k, upper) = Outcomes(cfg, c, p, BreakKey(cfg, c.comp, k, upper, old, p))
  BY <1>1 DEF ProcessPreedit, PreeditKey, CharacterKey
<1>3. BreakKey(cfg, c.comp, k, upper, old, p) = Outcome(c.comp, w, TRUE)
  BY BreakKeyIs
<1>. HIDE DEF w, p, old
<1>4. Outcomes(cfg, c, p, Outcome(c.comp, w, TRUE)) = Committed(cfg, c, p, w)
  BY DEF Outcomes, Outcome
<1>5. Committed(cfg, c, p, w).handled = p /\ Committed(cfg, c, p, w).commit = w
  BY DEF Committed, Result
<1>6. ProcessPreedit(cfg, c, k, upper).handled = p /\ ProcessPreedit(cfg, c, k, upper).commit = w
  BY <1>2, <1>3, <1>4, <1>5
<1>. QED  BY <1>6 DEF w, p, old

LEMMA TabCommits ==
  ASSUME NEW cfg, MethodOK(cfg.im), ~MacrosOn(cfg), NEW c, WordOK(cfg, c.comp), c.comp # <<>>,
         NEW upper
  PROVE  LET r == ProcessPreedit(cfg, c, "Tab", upper)
         IN  ~r.handled /\ r.commit = KeptWord(cfg, c.comp, Preedit(cfg, c.comp))
<1>. DEFINE old == Preedit(cfg, c.comp)
            w == KeptWord(cfg, c.comp, old)
<1>1. Typed(c.comp) # <<>>
  BY TypedSome, WordKeysAre DEF WordOK
<1>2. ~CanProcess(cfg, "Tab")
  BY KeysThatCannot
<1>3. ProcessPreedit(cfg, c, "Tab", upper) = TabKey(cfg, c, old, IsMacro(cfg, c.comp))
  BY <1>1, <1>2 DEF ProcessPreedit, PreeditKey
<1>4. ~IsMacro(cfg, c.comp)
  BY DEF IsMacro, HasMacro, MacrosOn
<1>5. ComposedString(cfg, c.comp, old) = w
  BY OneWordIs DEF ComposedString, KeptWord
<1>6. TabKey(cfg, c, old, IsMacro(cfg, c.comp)) = Committed(cfg, c, FALSE, w)
  <2>1. IsMacro(cfg, c.comp) = FALSE
    BY <1>4 DEF IsMacro, HasMacro
  <2>. QED  BY <1>5, <2>1 DEF TabKey
<1>. HIDE DEF w, old
<1>7. Committed(cfg, c, FALSE, w).handled = FALSE /\ Committed(cfg, c, FALSE, w).commit = w
  BY DEF Committed, Result
<1>8. ProcessPreedit(cfg, c, "Tab", upper).handled = FALSE /\ ProcessPreedit(cfg, c, "Tab", upper).commit = w
  BY <1>3, <1>6, <1>7
<1>. QED  BY <1>8 DEF w, old

BreaksWord == {" ", ".", "Tab", "Return"}

\* The text after a key that breaks the word: the word and the key, whoever
\* writes the key.
LEMMA WordCommitted ==
  ASSUME NEW cfg, MethodOK(cfg.im), ~MacrosOn(cfg), NEW c, CoreOK(c), WordOK(cfg, c.comp), c.comp # <<>>,
         NEW k \in BreaksWord, ~CanProcess(cfg, k), NEW text, Text(text)
  PROVE  LET r == ProcessKeyEvent(cfg, c, k)
             new == IF r.handled THEN text \o r.commit ELSE Delivered(text \o r.commit, k)
         IN  \E upper \in BOOLEAN :
               new = (text \o KeptWord(cfg, c.comp, Preedit(cfg, c.comp))) \o <<PlainChar(k, upper)>>
<1>. DEFINE s == Sentence(cfg, c.sentence, k)
            d == [c EXCEPT !.armed = FALSE, !.sentence = s.next]
            u == s.upper
            r == ProcessKeyEvent(cfg, c, k)
            w == KeptWord(cfg, c.comp, Preedit(cfg, c.comp))
            new == IF r.handled THEN text \o r.commit ELSE Delivered(text \o r.commit, k)
<1>1. u \in BOOLEAN
  BY DEF Sentence
<1>2. r = ProcessPreedit(cfg, d, k, u) /\ k \notin {"BackSpace", "Paste", "Escape"}
  BY DEF ProcessKeyEvent, AfterSentence, BreaksWord
<1>3. d.comp = c.comp
  BY DEF CoreOK
<1>. HIDE DEF s, u, d
<1>4. Text(w)
  BY KeptText
<1>5. CASE k = "Tab"
  <2>1. ProcessPreedit(cfg, d, "Tab", u).handled = FALSE
        /\ ProcessPreedit(cfg, d, "Tab", u).commit = KeptWord(cfg, d.comp, Preedit(cfg, d.comp))
    BY <1>3, TabCommits
  <2>2. r.handled = FALSE /\ r.commit = w
    BY <1>2, <1>3, <1>5, <2>1
  <2>. HIDE DEF r, w
  <2>3. Text(text \o w)
    BY <1>4, TextConcat
  <2>4. Delivered(text \o w, k) = Append(text \o w, PlainChar(k, FALSE))
    BY <1>2 DEF Delivered
  <2>5. Append(text \o w, PlainChar(k, FALSE)) = (text \o w) \o <<PlainChar(k, FALSE)>>
    BY <2>3, TextAppend
  <2>6. new = (text \o w) \o <<PlainChar(k, FALSE)>>
    BY <2>2, <2>4, <2>5
  <2>. QED  BY <2>6 DEF w, r
<1>6. CASE k # "Tab"
  <2>. DEFINE p == IsPrintable(cfg, d.comp, k)
              t == IF p THEN <<PlainChar(k, u)>> ELSE <<>>
  <2>1. ProcessPreedit(cfg, d, k, u).handled = p
        /\ ProcessPreedit(cfg, d, k, u).commit = KeptWord(cfg, d.comp, Preedit(cfg, d.comp)) \o t
    BY <1>2, <1>3, <1>6, BreakCommits
  <2>2. r.handled = p /\ r.commit = w \o t
    BY <1>2, <1>3, <2>1
  <2>. HIDE DEF r, w
  <2>3. CASE p
    <3>. DEFINE one == <<PlainChar(k, u)>>
    <3>1. Text(one)
      BY EmptyText, TextAppend
    <3>2. t = one /\ r.handled
      BY <2>2, <2>3
    <3>. HIDE DEF one, t, p
    <3>3. PICK S : w \in Seq(S) /\ one \in Seq(S) /\ text \in Seq(S)
      <4>1. Text(w \o one) /\ Text(text)
        BY <1>4, <3>1, TextConcat
      <4>2. PICK A : w \in Seq(A) /\ one \in Seq(A)
        BY <1>4, <3>1, TextsTogether
      <4>3. PICK B : text \in Seq(B) /\ w \in Seq(B)
        BY <1>4, TextsTogether
      <4>. DEFINE S == A \cup B
      <4>4. A \subseteq S /\ B \subseteq S
        OBVIOUS
      <4>. HIDE DEF S
      <4>5. w \in Seq(S) /\ one \in Seq(S) /\ text \in Seq(S)
        BY <4>2, <4>3, <4>4, SeqMonotonic
      <4>. QED  BY <4>5
    <3>4. text \o (w \o one) = (text \o w) \o one
      BY <3>3, ConcatAssociative, SMTT(30)
    <3>5. new = (text \o w) \o one
      BY <2>2, <3>2, <3>4
    <3>. QED  BY <1>1, <3>5 DEF w, r, one
  <2>4. CASE ~p
    <3>1. t = <<>> /\ r.handled = FALSE
      BY <2>2, <2>4 DEF IsPrintable
    <3>. HIDE DEF t, p
    <3>2. w \o <<>> = w
      BY <1>4, ConcatEmptySeq DEF Text, Range
    <3>3. r.commit = w
      BY <2>2, <3>1, <3>2
    <3>4. Text(text \o w)
      BY <1>4, TextConcat
    <3>5. Delivered(text \o w, k) = Append(text \o w, PlainChar(k, FALSE))
      BY <1>2, <1>6 DEF Delivered
    <3>6. Append(text \o w, PlainChar(k, FALSE)) = (text \o w) \o <<PlainChar(k, FALSE)>>
      BY <3>4, TextAppend
    <3>7. new = (text \o w) \o <<PlainChar(k, FALSE)>>
      BY <3>1, <3>3, <3>5, <3>6
    <3>. QED  BY <3>7 DEF w, r
  <2>. QED  BY <2>3, <2>4
<1>. QED  BY <1>5, <1>6

(***************************************************************************)
(* What a key commits is a text, macros or not.                            *)
(***************************************************************************)
LEMMA CaseText ==
  ASSUME NEW text, NEW found, Text(found)
  PROVE  Text(InCaseOf(text, found))
<1>. DEFINE m == Len(found)
            S == {<<found[i][1], found[i][2], FALSE>> : i \in DOMAIN found}
                   \cup {<<found[i][1], found[i][2], TRUE>> : i \in DOMAIN found}
            lower == LowerCase(found)
            upper == UpperCase(found)
<1>1. m \in Nat /\ DOMAIN found = 1 .. m
  BY LenProperties DEF Text
<1>2. lower \in [1 .. m -> S] /\ upper \in [1 .. m -> S]
  <2>1. /\ lower = [i \in 1 .. m |-> <<found[i][1], found[i][2], FALSE>>]
        /\ upper = [i \in 1 .. m |-> <<found[i][1], found[i][2], TRUE>>]
    BY <1>1 DEF LowerCase, UpperCase
  <2>2. \A i \in 1 .. m : <<found[i][1], found[i][2], FALSE>> \in S /\ <<found[i][1], found[i][2], TRUE>> \in S
    BY <1>1
  <2>. HIDE DEF S, lower, upper
  <2>. QED  BY <2>1, <2>2
<1>. HIDE DEF lower, upper, S, m
<1>3. Text(lower) /\ Text(upper)
  BY <1>1, <1>2, FunctionIsSeq, TextOf
<1>. QED  BY <1>3 DEF InCaseOf, lower, upper

\* The files the user wrote, and the clock.
MacrosAreTexts(cfg) ==
  /\ \A m \in cfg.macros : Text(m.text)
  /\ {DateFormat, TimeFormat} \subseteq DOMAIN cfg.clock
  /\ \A f \in DOMAIN cfg.clock : Text(cfg.clock[f])

LEMMA ExpandMacroText ==
  ASSUME NEW cfg, MacrosAreTexts(cfg), NEW text, HasMacro(cfg, text)
  PROVE  Text(ExpandMacro(cfg, text))
<1>. DEFINE found == MacroText(cfg, text)
            put == ExpandPlaceholders(found, cfg.clock, cfg.dateFormat, cfg.timeFormat)
<1>1. \E m \in cfg.macros : m.key = LowerCase(text)
  BY DEF HasMacro
<1>2. (CHOOSE m \in cfg.macros : m.key = LowerCase(text)) \in cfg.macros
  BY <1>1
<1>3. Text(found)
  BY <1>2 DEF MacroText, MacrosAreTexts
<1>. HIDE DEF found
<1>4. Text(put)
  BY <1>3, ExpandText DEF MacrosAreTexts
<1>5. ExpandMacro(cfg, text) = InCaseOf(text, put)
  BY DEF ExpandMacro, found
<1>. HIDE DEF put
<1>. QED  BY <1>4, <1>5, CaseText

\* A key that breaks the word commits a text.
LEMMA BreakTextText ==
  ASSUME NEW cfg, MethodOK(cfg.im), MacrosAreTexts(cfg), NEW comp, WordOK(cfg, comp), NEW k,
         NEW upper, NEW p, BreakKey(cfg, comp, k, upper, Preedit(cfg, comp), p).breaks
  PROVE  Text(BreakKey(cfg, comp, k, upper, Preedit(cfg, comp), p).text)
<1>. DEFINE old == Preedit(cfg, comp)
            typed == IF p THEN <<PlainChar(k, upper)>> ELSE <<>>
            keys == SinceSpace(RestoreKeys(cfg.im, comp))
            word == IF Foreign(cfg, comp, old) THEN keys ELSE old
            next == BreakText(cfg, comp, k, upper, old, typed)
<1>1. BreakKey(cfg, comp, k, upper, old, p) = next
  BY DEF BreakKey
<1>2. Text(typed)
  BY EmptyText, TextAppend
<1>3. Text(old)
  BY PreeditText, TextOf
<1>4. Text(keys)
  <2>1. comp \in Seq(On(cfg.im, Ids)) /\ OnlyKeys(comp, WordKeys(cfg))
    BY DEF WordOK
  <2>2. WordKeys(cfg) \in SUBSET (Symbols \ {NoKey})
    BY WordKeysAre
  <2>3. RestoreKeys(cfg.im, comp) \in Seq(On(cfg.im, Ids))
    BY <2>1, <2>2, LastWordText
  <2>. QED  BY <2>3, SpaceText, TextOf
<1>. HIDE DEF old, typed, keys
<1>5. Text(word \o typed)
  <2>1. Text(word)
    BY <1>3, <1>4
  <2>. HIDE DEF word
  <2>. QED  BY <1>2, <2>1, TextConcat
<1>6. HasMacro(cfg, old) => Text(ExpandMacro(cfg, old) \o typed)
  BY <1>2, ExpandMacroText, TextConcat
<1>7. NonVnWord(cfg, comp, old, typed) = word \o typed
  BY DEF NonVnWord, keys
<1>. HIDE DEF word
<1>8. CASE HasMacroPrefix(cfg, old \o typed) /\ typed # <<>>
  <2>1. ~next.breaks
    BY <1>8 DEF BreakText, TypedAsIs, Outcome
  <2>. HIDE DEF next
  <2>. QED  BY <1>1, <2>1 DEF old
<1>9. CASE ~(HasMacroPrefix(cfg, old \o typed) /\ typed # <<>>) /\ HasMacro(cfg, old)
  <2>1. next.text = ExpandMacro(cfg, old) \o typed
    BY <1>9 DEF BreakText, Outcome
  <2>. HIDE DEF next
  <2>. QED  BY <1>1, <1>6, <1>9, <2>1 DEF old
<1>10. CASE ~(HasMacroPrefix(cfg, old \o typed) /\ typed # <<>>) /\ ~HasMacro(cfg, old)
  <2>1. next.text = word \o typed
    BY <1>7, <1>10 DEF BreakText, Outcome
  <2>. HIDE DEF next
  <2>. QED  BY <1>1, <1>5, <2>1 DEF old
<1>. QED  BY <1>8, <1>9, <1>10

\* Tab commits a text.
LEMMA TabText ==
  ASSUME NEW cfg, MethodOK(cfg.im), MacrosAreTexts(cfg), NEW c, WordOK(cfg, c.comp)
  PROVE  Text(TabKey(cfg, c, Preedit(cfg, c.comp), IsMacro(cfg, c.comp)).commit)
<1>. DEFINE old == Preedit(cfg, c.comp)
            macro == IsMacro(cfg, c.comp)
            word == IF macro THEN ExpandMacro(cfg, SinceSpace(c.comp)) ELSE ComposedString(cfg, c.comp, old)
<1>1. TabKey(cfg, c, old, macro).commit = word
  BY DEF TabKey, Committed, Result
<1>2. Text(old)
  BY PreeditText, TextOf
<1>3. Text(English(cfg, c.comp))
  <2>1. c.comp \in Seq(On(cfg.im, Ids)) /\ OnlyKeys(c.comp, WordKeys(cfg))
    BY DEF WordOK
  <2>2. WordKeys(cfg) \in SUBSET (Symbols \ {NoKey})
    BY WordKeysAre
  <2>3. Typed(LastWord(cfg.im, c.comp)) \in Seq(Char)
    BY <2>1, <2>2, LastWordText
  <2>. QED  BY <2>3, TextOf DEF English
<1>4. macro => Text(ExpandMacro(cfg, SinceSpace(c.comp)))
  BY ExpandMacroText DEF IsMacro
<1>5. Text(ComposedString(cfg, c.comp, old))
  BY <1>2, <1>3 DEF ComposedString
<1>. QED  BY <1>1, <1>4, <1>5

LEMMA CommitText ==
  ASSUME NEW cfg, MethodOK(cfg.im), MacrosAreTexts(cfg), NEW c, CoreOK(c), WordOK(cfg, c.comp), NEW k,
         CanProcess(cfg, k) => k \in Typeable
  PROVE  Text(ProcessKeyEvent(cfg, c, k).commit)
<1>. DEFINE s == Sentence(cfg, c.sentence, k)
            d == [c EXCEPT !.armed = FALSE, !.sentence = s.next]
            u == s.upper
            old == Preedit(cfg, d.comp)
            p == IsPrintable(cfg, d.comp, k)
            active == MacrosOn(cfg) \/ Typed(d.comp) # <<>>
            r == ProcessPreedit(cfg, d, k, u)
<1>1. CASE k = "Paste"
  <2>1. ProcessKeyEvent(cfg, c, k).commit = <<>>
    BY <1>1 DEF ProcessKeyEvent, Ignored, Result
  <2>. QED  BY <2>1, EmptyText
<1>2. CASE k # "Paste"
  <2>1. ProcessKeyEvent(cfg, c, k) = r
    BY <1>2 DEF ProcessKeyEvent, AfterSentence
  <2>2. CoreOK(d) /\ d.comp = c.comp /\ u \in BOOLEAN
    BY DEF CoreOK, Sentence
  <2>. HIDE DEF s, u, d
  <2>3. WordOK(cfg, d.comp)
    BY <2>2
  <2>4. k \in {"BackSpace", "Tab"} => ~CanProcess(cfg, k)
    BY KeysThatCannot
  <2>5. CASE ~active /\ ~CanProcess(cfg, k)
    <3>1. r = Ignored(d)
      BY <2>5 DEF ProcessPreedit, PreeditKey
    <3>2. r.commit = <<>>
      BY <3>1 DEF Ignored, Result
    <3>. QED  BY <2>1, <3>2, EmptyText
  <2>6. CASE active /\ k = "BackSpace"
    <3>1. r = BackSpaceKey(cfg, d, old)
      BY <2>4, <2>6 DEF ProcessPreedit, PreeditKey
    <3>2. BackSpaceKey(cfg, d, old).commit = <<>>
      BY DEF BackSpaceKey, Committed, Ignored, ShorterWord, Showing, Result
    <3>. QED  BY <2>1, <3>1, <3>2, EmptyText
  <2>7. CASE active /\ k = "Tab"
    <3>1. r = TabKey(cfg, d, old, IsMacro(cfg, d.comp))
      BY <2>4, <2>7 DEF ProcessPreedit, PreeditKey
    <3>2. Text(TabKey(cfg, d, old, IsMacro(cfg, d.comp)).commit)
      BY <2>3, TabText
    <3>. QED  BY <2>1, <3>1, <3>2
  <2>8. CASE CanProcess(cfg, k)
    <3>. DEFINE next == ComposeKey(cfg, d.comp, k, u, old)
    <3>1. k \notin {"BackSpace", "Tab"}
      BY <2>8, KeysThatCannot
    <3>2. r = Outcomes(cfg, d, p, next)
      BY <2>8, <3>1 DEF ProcessPreedit, PreeditKey, CharacterKey
    <3>3. next.breaks => Text(next.text)
      <4>. DEFINE w == WSuppressed(cfg, d.comp, k)
                  new == IF ShouldFallback(cfg, d.comp, FALSE) THEN ProcessEnglish(d.comp, k, u)
                         ELSE ProcessKey(cfg.im, d.comp, k, u)
                  now == Preedit(cfg, new)
                  ch == PlainChar(k, FALSE)
      <4>1. CASE w
        BY <4>1 DEF ComposeKey, TypedAsIs, Outcome
      <4>2. CASE ~w
        <5>1. next = ShownText(cfg, new, k, u, old, now)
          BY <4>2 DEF ComposeKey, Composed
        <5>2. k \in WordKeys(cfg)
          BY <2>8, ProcessableIsWordKey
        <5>3. new \in {ProcessEnglish(d.comp, k, u), ProcessKey(cfg.im, d.comp, k, u)}
          OBVIOUS
        <5>. HIDE DEF new
        <5>4. WordOK(cfg, new)
          BY <2>2, <2>3, <5>2, <5>3, WordGrows
        <5>5. now \in Seq(Char) /\ old \in Seq(Char)
          BY <2>3, <5>4, PreeditText
        <5>. HIDE DEF now, old, ch, next
        <5>6. Text(now) /\ Text(Append(old, ch))
          BY <5>5, TextOf, TextAppend
        <5>7. next.text \in {now, Append(old, ch)}
          BY <5>1 DEF ShownText, AppendedText, BreaksAfter, Outcome, ch
        <5>. QED  BY <5>6, <5>7
      <4>. QED  BY <4>1, <4>2
    <3>. HIDE DEF next, p
    <3>4. r.commit = IF next.breaks THEN next.text ELSE <<>>
      BY <3>2 DEF Outcomes, Committed, Showing, Result
    <3>. QED  BY <2>1, <3>3, <3>4, EmptyText
  <2>9. CASE active /\ ~CanProcess(cfg, k) /\ k \notin {"BackSpace", "Tab"}
    <3>. DEFINE next == BreakKey(cfg, d.comp, k, u, old, p)
    <3>1. r = Outcomes(cfg, d, p, next)
      BY <2>9 DEF ProcessPreedit, PreeditKey, CharacterKey
    <3>. HIDE DEF p
    <3>2. next.breaks => Text(next.text)
      BY <2>3, BreakTextText
    <3>. HIDE DEF next
    <3>3. r.commit = IF next.breaks THEN next.text ELSE <<>>
      BY <3>1 DEF Outcomes, Committed, Showing, Result
    <3>. QED  BY <2>1, <3>2, <3>3, EmptyText
  <2>. QED  BY <2>5, <2>6, <2>7, <2>8, <2>9
<1>. QED  BY <1>1, <1>2

(***************************************************************************)
(* The invariant.                                                          *)
(***************************************************************************)
LEMMA ConfIs ==
  ASSUME conf \in Configs
  PROVE  /\ MethodOK(conf.im) /\ "." \notin conf.im.appending
         /\ \A m \in conf.macros : m.key \in Seq(Char)
         /\ MacrosAreTexts(conf)
         /\ conf.budget \in Nat /\ Text(conf.doc) /\ Text(conf.recent)
         /\ \A k \in conf.keys : CanProcess(conf, k) => k \in Typeable
         /\ conf.macros = {} => ~MacrosOn(conf) /\ OneWord(conf)
<1>1. /\ MethodOK(conf.im) /\ "." \notin conf.im.appending
      /\ \A m \in conf.macros : m.key \in Seq(Char)
      /\ conf.budget \in Nat /\ conf.doc \in Seq(Char) /\ conf.recent \in Seq(STRING)
      /\ conf.keys \subseteq Typeable \cup KeyNames
  BY ConfigsAssumption
<1>2. Text(conf.doc) /\ Text(conf.recent)
  BY <1>1, TextOf
<1>3. \A k \in conf.keys : CanProcess(conf, k) => k \in Typeable
  BY <1>1, KeysThatCannot DEF KeyNames
<1>4. conf.macros = {} => ~MacrosOn(conf) /\ OneWord(conf)
  BY DEF MacrosOn, OneWord
<1>5. MacrosAreTexts(conf)
  BY ConfigsAssumption DEF MacrosAreTexts, Text
<1>. QED  BY <1>1, <1>2, <1>3, <1>4, <1>5

LEMMA InitInv == Init => IInv
<1>. SUFFICES ASSUME Init
              PROVE  IInv
  OBVIOUS
<1>1. conf \in Configs /\ n = 0
  BY DEF Init
<1>2. MethodOK(conf.im) /\ conf.budget \in Nat /\ Text(conf.doc) /\ Text(conf.recent)
  BY <1>1, ConfIs
<1>3. n \in 0 .. conf.budget
  BY <1>1, <1>2
<1>4. CoreOK(core) /\ core.comp = <<>>
  <2>1. <<>> \in Seq(Transformation)
    OBVIOUS
  <2>. QED  BY <2>1 DEF Init, CoreOK, FreshCore
<1>5. WordOK(conf, core.comp) /\ Display(conf, core.comp, shown)
  BY <1>2, <1>4, EmptyWordOK, EmptyDisplay DEF Init
<1>6. LookupOK
  BY ClosedOK DEF Init, LookupOK
<1>7. Text(recent) /\ Len(recent) <= RecentCap
  BY <1>2, LoadedOK DEF Init
<1>8. Text(doc)
  BY <1>2 DEF Init
<1>. QED  BY <1>1, <1>3, <1>4, <1>5, <1>6, <1>7, <1>8 DEF IInv

LEMMA Counted ==
  ASSUME IInv, NEW k, Happens(k)
  PROVE  n' \in 0 .. conf'.budget /\ conf' = conf /\ conf' \in Configs
<1>1. n < conf.budget /\ n' = n + 1 /\ conf' = conf /\ n \in 0 .. conf.budget /\ conf \in Configs
  BY DEF Happens, IInv
<1>2. conf.budget \in Nat
  BY <1>1, ConfIs
<1>. QED  BY <1>1, <1>2

LEMMA FreshOK ==
  /\ CoreOK(FreshCore) /\ FreshCore.comp = <<>>
<1>1. <<>> \in Seq(Transformation)
  OBVIOUS
<1>. QED  BY <1>1 DEF CoreOK, FreshCore

LEMMA LiteralText ==
  ASSUME NEW e, EmojiOK(e), NEW k
  PROVE  Text(Literal(e, k)) /\ Text(Chars(Literal(e, k)))
<1>1. Text(Literal(e, k))
  BY EmptyText DEF Literal, EmojiOK
<1>. QED  BY <1>1, CharsText

LEMMA LeftText ==
  ASSUME IInv, NEW k
  PROVE  Text(Left(k))
<1>1. Text(doc) /\ EmojiOK(em)
  BY DEF IInv, LookupOK
<1>2. Text(doc \o Chars(Literal(em, k)))
  BY <1>1, LiteralText, TextConcat
<1>. QED  BY <1>1, <1>2 DEF Left

LEMMA DeliveredText ==
  ASSUME NEW text, Text(text), NEW k
  PROVE  Text(Delivered(text, k))
<1>1. Text(Front(text)) /\ Text(Append(text, PlainChar("p", FALSE))) /\ Text(Append(text, PlainChar(k, FALSE)))
  BY TextFront, TextAppend
<1>2. Delivered(text, k) \in {text, Front(text), Append(text, PlainChar("p", FALSE)), Append(text, PlainChar(k, FALSE))}
  BY DEF Delivered
<1>. QED  BY <1>1, <1>2

LEMMA EmojiKeyInv ==
  ASSUME IInv, NEW k, EmojiKey(k)
  PROVE  IInv'
<1>1. conf' \in Configs /\ conf' = conf /\ n' \in 0 .. conf'.budget
  BY Counted DEF EmojiKey
<1>2. core' = core /\ shown' = shown /\ em.open
  BY DEF EmojiKey
<1>3. CoreOK(core') /\ WordOK(conf', core'.comp) /\ Display(conf', core'.comp, shown')
  BY <1>1, <1>2 DEF IInv
<1>4. LookupOK'
  <2>1. EmojiOK(em)
    BY DEF IInv, LookupOK
  <2>2. EmojiOK(em')
    BY <2>1, ClosedOK, AfterKeyOK DEF EmojiKey
  <2>3. OneWord(conf) => shown = <<>>
    BY <1>2 DEF IInv, LookupOK
  <2>. QED  BY <1>1, <1>2, <2>2, <2>3 DEF LookupOK
<1>5. Text(recent') /\ Len(recent') <= RecentCap
  BY RecordedOK DEF IInv, EmojiKey
<1>6. Text(doc')
  <2>. DEFINE letters == IF Picks(em, k) THEN <<Picked(em, k)>> ELSE Literal(em, k)
  <2>1. Text(letters)
    BY LiteralText, EmptyText, TextAppend DEF IInv, LookupOK
  <2>2. doc' = doc \o Chars(letters)
    BY DEF EmojiKey, Write
  <2>. HIDE DEF letters
  <2>3. Text(Chars(letters)) /\ Text(doc)
    BY <2>1, CharsText DEF IInv
  <2>. QED  BY <2>2, <2>3, TextConcat
<1>. QED  BY <1>1, <1>3, <1>4, <1>5, <1>6 DEF IInv

LEMMA DoubleSpaceInv ==
  ASSUME IInv, NEW k, DoubleSpace(k)
  PROVE  IInv'
<1>1. conf' \in Configs /\ conf' = conf /\ n' \in 0 .. conf'.budget
  BY Counted DEF DoubleSpace
<1>2. core' = ConsumeDoubleSpace(conf, core) /\ shown' = shown /\ em' = Closed /\ recent' = recent
  BY DEF DoubleSpace
<1>3. CoreOK(core') /\ core'.comp = core.comp
  BY <1>2 DEF IInv, ConsumeDoubleSpace, CoreOK
<1>4. WordOK(conf', core'.comp) /\ Display(conf', core'.comp, shown')
  BY <1>1, <1>2, <1>3 DEF IInv
<1>5. LookupOK'
  BY <1>2, ClosedOK DEF LookupOK
<1>6. Text(doc')
  <2>1. Text(Front(Left(k))) /\ Text(FullStop)
    <3>1. FullStop \in Seq({PlainChar(".", FALSE), PlainChar(Space, FALSE)})
      BY DEF FullStop
    <3>. QED  BY <3>1, LeftText, TextFront, TextOf
  <2>2. doc' = Front(Left(k)) \o FullStop
    BY DEF DoubleSpace, Write
  <2>. QED  BY <2>1, <2>2, TextConcat
<1>. QED  BY <1>1, <1>2, <1>3, <1>4, <1>5, <1>6 DEF IInv

LEMMA ComposeInv ==
  ASSUME IInv, NEW k \in conf.keys, ComposeOrPass(k)
  PROVE  IInv'
<1>1. conf' \in Configs /\ conf' = conf /\ n' \in 0 .. conf'.budget
  BY Counted DEF ComposeOrPass
<1>2. em' = Closed /\ recent' = recent
  BY DEF ComposeOrPass
<1>. DEFINE r == ProcessKeyEvent(conf, core, k)
<1>3. /\ doc' = IF r.handled THEN Left(k) \o r.commit ELSE Delivered(Left(k) \o r.commit, k)
      /\ core' = r.core
      /\ shown' = IF r.shows = <<>> THEN shown ELSE r.shows[1]
  BY DEF ComposeOrPass, Write
<1>4. /\ MethodOK(conf.im) /\ \A m \in conf.macros : m.key \in Seq(Char)
      /\ CanProcess(conf, k) => k \in Typeable
      /\ MacrosAreTexts(conf)
  BY <1>1, ConfIs
<1>5. CoreOK(core) /\ WordOK(conf, core.comp) /\ Display(conf, core.comp, shown)
  BY DEF IInv
<1>6. Keeps(conf, shown, r)
  BY <1>4, <1>5, KeyEventKeeps
<1>7. Text(r.commit)
  BY <1>4, <1>5, CommitText
<1>. HIDE DEF r
<1>8. CoreOK(core') /\ WordOK(conf', core'.comp) /\ Display(conf', core'.comp, shown')
  BY <1>1, <1>3, <1>6 DEF Keeps
<1>9. LookupOK'
  BY <1>2, ClosedOK DEF LookupOK
<1>10. Text(doc')
  <2>1. Text(Left(k) \o r.commit)
    BY <1>7, LeftText, TextConcat
  <2>. QED  BY <1>3, <2>1, DeliveredText
<1>. QED  BY <1>1, <1>2, <1>8, <1>9, <1>10 DEF IInv

LEMMA OpenEmojiInv ==
  ASSUME IInv, OpenEmoji
  PROVE  IInv'
<1>1. conf' \in Configs /\ conf' = conf /\ n' \in 0 .. conf'.budget
  BY Counted DEF OpenEmoji
<1>2. core' = core /\ shown' = shown /\ recent' = recent /\ doc' = doc /\ shown = <<>>
  BY DEF OpenEmoji
<1>3. EmojiOK(em')
  <2>1. Text(<<":">>)
    BY EmptyText, TextAppend
  <2>2. em' = Update(<<":">>, recent)
    BY DEF OpenEmoji, StartEmoji
  <2>. QED  BY <2>1, <2>2, UpdateOK
<1>. QED  BY <1>1, <1>2, <1>3 DEF IInv, LookupOK

LEMMA TurnPageInv ==
  ASSUME IInv, TurnPage
  PROVE  IInv'
<1>1. conf' \in Configs /\ conf' = conf /\ n' \in 0 .. conf'.budget
  BY Counted DEF TurnPage
<1>2. core' = core /\ shown' = shown /\ recent' = recent /\ doc' = doc /\ em.open
  BY DEF TurnPage
<1>3. PICK p \in Pages(em) : em' = [em EXCEPT !.page = p]
  BY DEF TurnPage
<1>4. EmojiOK(em)
  BY DEF IInv, LookupOK
<1>5. em' = [open |-> em.open, query |-> em.query, found |-> em.found, page |-> p]
  BY <1>3, <1>4 DEF EmojiOK
<1>6. Pages(em') = Pages(em)
  BY <1>5 DEF Pages
<1>7. EmojiOK(em') /\ em'.open
  BY <1>2, <1>3, <1>4, <1>5, <1>6 DEF EmojiOK
<1>8. OneWord(conf) => shown = <<>>
  BY <1>2 DEF IInv, LookupOK
<1>. QED  BY <1>1, <1>2, <1>7, <1>8 DEF IInv, LookupOK

LEMMA ClickInv ==
  ASSUME IInv, Click
  PROVE  IInv'
<1>1. conf' \in Configs /\ conf' = conf /\ n' \in 0 .. conf'.budget
  BY Counted DEF Click
<1>2. core' = core /\ shown' = shown /\ recent' = recent /\ em' = em
  BY DEF Click
<1>3. Text(doc')
  <2>1. PICK i \in 0 .. Len(doc) - 1 : doc' = SubSeq(doc, 1, i)
    BY DEF Click
  <2>2. Text(doc)
    BY DEF IInv
  <2>3. Len(doc) \in Nat
    BY <2>2, TextConcat
  <2>4. i \in Int /\ i <= Len(doc)
    BY <2>3
  <2>. QED  BY <2>1, <2>2, <2>4, TextSub
<1>. QED  BY <1>1, <1>2, <1>3 DEF IInv, LookupOK

LEMMA ResetInv ==
  ASSUME IInv, Reset
  PROVE  IInv'
<1>1. conf' \in Configs /\ conf' = conf /\ n' \in 0 .. conf'.budget
  BY Counted DEF Reset
<1>2. core' = FreshCore /\ shown' = <<>> /\ em' = Closed /\ recent' = recent /\ doc' = doc
  BY DEF Reset
<1>3. MethodOK(conf.im)
  BY <1>1, ConfIs
<1>4. CoreOK(core') /\ WordOK(conf', core'.comp) /\ Display(conf', core'.comp, shown')
  BY <1>1, <1>2, <1>3, FreshOK, EmptyWordOK, EmptyDisplay
<1>5. LookupOK'
  BY <1>2, ClosedOK DEF LookupOK
<1>. QED  BY <1>1, <1>2, <1>4, <1>5 DEF IInv

LEMMA DeactivateInv ==
  ASSUME IInv, Deactivate
  PROVE  IInv'
<1>1. conf' \in Configs /\ conf' = conf /\ n' \in 0 .. conf'.budget
  BY Counted DEF Deactivate
<1>2. /\ core' = FreshCore /\ shown' = <<>> /\ em' = Closed /\ recent' = recent
      /\ doc' = doc \o Chars(em.query) \o shown
  BY DEF Deactivate
<1>3. MethodOK(conf.im)
  BY <1>1, ConfIs
<1>4. CoreOK(core') /\ WordOK(conf', core'.comp) /\ Display(conf', core'.comp, shown')
  BY <1>1, <1>2, <1>3, FreshOK, EmptyWordOK, EmptyDisplay
<1>5. LookupOK'
  BY <1>2, ClosedOK DEF LookupOK
<1>6. Text(doc')
  <2>1. Text(doc) /\ Text(em.query) /\ shown \in Seq(Char)
    BY DEF IInv, LookupOK, EmojiOK, Display
  <2>2. Text(Chars(em.query)) /\ Text(shown)
    BY <2>1, CharsText, TextOf
  <2>3. Text(doc \o Chars(em.query))
    BY <2>1, <2>2, TextConcat
  <2>. QED  BY <1>2, <2>2, <2>3, TextConcat
<1>. QED  BY <1>1, <1>2, <1>4, <1>5, <1>6 DEF IInv

LEMMA StepInv ==
  ASSUME IInv, [Next]_vars
  PROVE  IInv'
<1>1. ASSUME NEW k \in conf.keys, EmojiKey(k)
      PROVE  IInv'
  BY <1>1, EmojiKeyInv
<1>2. ASSUME NEW k \in conf.keys, DoubleSpace(k)
      PROVE  IInv'
  BY <1>2, DoubleSpaceInv
<1>3. ASSUME NEW k \in conf.keys, ComposeOrPass(k)
      PROVE  IInv'
  BY <1>3, ComposeInv
<1>4. CASE OpenEmoji
  BY <1>4, OpenEmojiInv
<1>5. CASE TurnPage
  BY <1>5, TurnPageInv
<1>6. CASE Click
  BY <1>6, ClickInv
<1>7. CASE Reset
  BY <1>7, ResetInv
<1>8. CASE Deactivate
  BY <1>8, DeactivateInv
<1>9. CASE Report
  BY <1>9 DEF Report, IInv, LookupOK
<1>10. CASE UNCHANGED vars
  BY <1>10 DEF vars, IInv, LookupOK
<1>. QED  BY <1>1, <1>2, <1>3, <1>4, <1>5, <1>6, <1>7, <1>8, <1>9, <1>10 DEF Next, Press

\* The invariant holds in every configuration and of every text.
THEOREM Invariant == Spec => []IInv
<1>1. IInv /\ [Next]_vars => IInv'
  BY StepInv
<1>. QED  BY <1>1, InitInv, PTL DEF Spec

LEMMA MarksSound ==
  ASSUME NEW cfg, MethodOK(cfg.im), NEW comp, WordOK(cfg, comp), cfg.macros = {}
  PROVE  \A i \in DOMAIN comp : comp[i].kind # "append" =>
           \E j \in DOMAIN comp : comp[j].kind = "append" /\ comp[j].id = comp[i].target
<1>1. comp \in Seq(On(cfg.im, AppendIds(comp))) /\ comp \in Seq(Transformation)
  BY OnIsTransformation DEF WordOK, MacrosOn
<1>2. DOMAIN comp = 1 .. Len(comp)
  BY <1>1, LenProperties
<1>3. \A a : a \in AppendIds(comp) <=> \E i \in 1 .. Len(comp) : comp[i].kind = "append" /\ a = comp[i].id
  <2>1. \A i \in 1 .. Len(comp) : comp[i] \in Transformation
    BY <1>1, ElementOfSeq
  <2>. QED  BY <1>1, AppendIdsOf
<1>4. ASSUME NEW i \in 1 .. Len(comp), comp[i].kind # "append"
      PROVE  comp[i].target \in AppendIds(comp)
  <2>1. comp[i] \in On(cfg.im, AppendIds(comp))
    BY <1>1, ElementOfSeq
  <2>. QED  BY <1>4, <2>1 DEF On
<1>. QED  BY <1>2, <1>3, <1>4

\* TypeOK: among other things, no mark is left behind by its letter and no two
\* changes have one number (RemoveLastChar, refresh_last_tone_target), the page
\* of the lookup is one of its list and the recent emoji are no more than nine.
THEOREM TypeCorrect == Spec => []TypeOK
<1>1. ASSUME IInv
      PROVE  TypeOK
  <2>1. conf \in Configs /\ n \in 0 .. conf.budget /\ CoreOK(core) /\ WordOK(conf, core.comp)
    BY <1>1 DEF IInv
  <2>2. MethodOK(conf.im)
    BY <2>1, ConfIs
  <2>3. IsInjective([i \in DOMAIN core.comp |-> core.comp[i].id])
    <3>1. Distinct(core.comp)
      BY <2>1 DEF WordOK
    <3>2. DOMAIN core.comp = 1 .. Len(core.comp)
      BY <2>1, LenProperties DEF CoreOK
    <3>. QED  BY <3>1, <3>2 DEF IsInjective, Distinct
  <2>4. conf.macros = {} => MarksAreOnLetters
    BY <2>1, <2>2, MarksSound DEF MarksAreOnLetters
  <2>5. core.sentence \in {"idle", "punct", "ready"} /\ core.armed \in BOOLEAN
    BY <2>1 DEF CoreOK
  <2>6. em.open \in BOOLEAN /\ (em.page = 0 \/ em.page \in Pages(em)) /\ Len(recent) <= RecentCap
    BY <1>1 DEF IInv, LookupOK, EmojiOK
  <2>. QED  BY <2>1, <2>3, <2>4, <2>5, <2>6 DEF TypeOK
<1>. QED  BY <1>1, Invariant, PTL

\* ShownIsComposed: whatever was typed, deleted or left, the panel shows what
\* would be committed (pk_engine's apply).
THEOREM PanelIsCurrent == Spec => []ShownIsComposed
<1>1. ASSUME IInv
      PROVE  ShownIsComposed
  BY <1>1 DEF IInv, ShownIsComposed, Display, OneWord, OneWordMacros, Plain
<1>. QED  BY <1>1, Invariant, PTL

\* LookupIsAlone: no open lookup stands over a word that is being composed.
THEOREM LookupAlone == Spec => []LookupIsAlone
<1>1. ASSUME IInv
      PROVE  LookupIsAlone
  BY <1>1 DEF IInv, LookupIsAlone, LookupOK, Display, OneWord, OneWordMacros
<1>. QED  BY <1>1, Invariant, PTL

\* KeysKept: a key that can be composed is remembered behind the others,
\* whatever it does to the word.
THEOREM KeysAreKept == Spec => KeysKept
<1>1. ASSUME IInv, [Next]_vars, NEW k \in conf.keys, Pressed(k), Composes(k), ~em.open
      PROVE  LettersOf(Typed(core'.comp)) = Append(LettersOf(Typed(core.comp)), k)
  <2>1. /\ MethodOK(conf.im) /\ CoreOK(core) /\ WordOK(conf, core.comp)
        /\ CanProcess(conf, k) /\ k \in Typeable /\ k \notin conf.im.appending
    BY <1>1, ConfIs DEF IInv, Composes
  <2>2. k \notin {Space, ":", "Paste", "page", "click", "reset", "leave"}
    BY <2>1, KeysThatCannot DEF Space
  <2>3. ComposeOrPass(k)
    <3>1. key' = k /\ n' # n
      BY <1>1 DEF Pressed
    <3>2. \A x : EmojiKey(x) => em.open
      BY DEF EmojiKey
    <3>3. \A x : DoubleSpace(x) => x = Space /\ key' = x
      BY DEF DoubleSpace, Doubles, Happens
    <3>4. \A x : ComposeOrPass(x) => key' = x
      BY DEF ComposeOrPass, Happens
    <3>5. OpenEmoji => key' = ":"
      BY DEF OpenEmoji, Happens
    <3>6. /\ TurnPage => key' = "page"
          /\ Click => key' = "click"
          /\ Reset => key' = "reset"
          /\ Deactivate => key' = "leave"
      BY DEF TurnPage, Click, Reset, Deactivate, Happens
    <3>7. (Report => n' = n) /\ (UNCHANGED vars => n' = n)
      BY DEF Report, vars
    <3>. QED  BY <1>1, <2>2, <3>1, <3>2, <3>3, <3>4, <3>5, <3>6, <3>7 DEF Next, Press
  <2>. DEFINE s == Sentence(conf, core.sentence, k)
              d == [core EXCEPT !.armed = FALSE, !.sentence = s.next]
              u == s.upper
  <2>4. core' = ProcessPreedit(conf, d, k, u).core
    BY <2>2, <2>3 DEF ComposeOrPass, ProcessKeyEvent, AfterSentence
  <2>5. CoreOK(d) /\ d.comp = core.comp /\ u \in BOOLEAN
    BY <2>1 DEF CoreOK, Sentence
  <2>. HIDE DEF s, d, u
  <2>6. Typed(core'.comp) = Append(Typed(core.comp), PlainChar(k, u))
    BY <2>1, <2>4, <2>5, KeyRemembered
  <2>. DEFINE t == Typed(core.comp)
              ch == PlainChar(k, u)
              a == Append(t, ch)
              m == Len(t)
  <2>7. t \in Seq(Char) /\ ch[1] = k
    BY <2>1, TypedKeys DEF CoreOK, PlainChar
  <2>. HIDE DEF t, ch
  <2>8. DOMAIN t = 1 .. m /\ m \in Nat
    BY <2>7, LenProperties
  <2>. HIDE DEF m
  <2>. DEFINE S == {t[i] : i \in 1 .. m} \cup {ch}
  <2>9. t \in Seq(S) /\ ch \in S
    <3>1. \A i \in 1 .. Len(t) : t[i] \in S
      BY DEF m
    <3>. HIDE DEF S
    <3>2. t \in Seq(S)
      BY <2>7, <3>1, SeqOver
    <3>. QED  BY <3>2 DEF S
  <2>. HIDE DEF S
  <2>10. DOMAIN a = 1 .. m + 1 /\ (\A i \in 1 .. m : a[i] = t[i]) /\ a[m + 1] = ch
    BY <2>8, <2>9, AppendProperties DEF m
  <2>. HIDE DEF a
  <2>. DEFINE l == LettersOf(t)
              b == LettersOf(a)
              L == {t[i][1] : i \in 1 .. m} \cup {k}
              c == Append(l, k)
  <2>11. l = [i \in 1 .. m |-> t[i][1]] /\ b = [i \in 1 .. m + 1 |-> a[i][1]]
    BY <2>8, <2>10 DEF LettersOf
  <2>12. l \in Seq(L) /\ Len(l) = m /\ k \in L
    <3>1. l \in [1 .. m -> L]
      BY <2>11
    <3>. HIDE DEF l, L
    <3>2. l \in Seq(L) /\ Len(l) = m
      BY <2>8, <3>1, FunctionIsSeq
    <3>. QED  BY <3>2 DEF L
  <2>13. b \in Seq(L) /\ Len(b) = m + 1
    <3>1. b \in [1 .. m + 1 -> L]
      BY <2>7, <2>8, <2>10, <2>11
    <3>. HIDE DEF b, L
    <3>2. m + 1 \in Nat
      BY <2>8
    <3>. QED  BY <3>1, <3>2, FunctionIsSeq
  <2>14. (\A i \in 1 .. m : l[i] = t[i][1]) /\ (\A i \in 1 .. m + 1 : b[i] = a[i][1])
    BY <2>11
  <2>. HIDE DEF l, b, L
  <2>15. c \in Seq(L) /\ Len(c) = m + 1 /\ (\A i \in 1 .. m : c[i] = l[i]) /\ c[m + 1] = k
    BY <2>8, <2>12, AppendProperties
  <2>. HIDE DEF c
  <2>16. \A i \in 1 .. m + 1 : b[i] = c[i]
    <3>1. \A i \in 1 .. m + 1 : i \in 1 .. m \/ i = m + 1
      BY <2>8
    <3>. QED  BY <2>7, <2>10, <2>14, <2>15, <3>1
  <2>17. b = c
    BY <2>13, <2>15, <2>16, SeqEqual
  <2>. QED  BY <2>6, <2>17 DEF a, b, c, l, t, ch
<1>2. IInv /\ [Next]_vars
        => [\A k \in conf.keys : Pressed(k) /\ Composes(k) /\ ~em.open
              => LettersOf(Typed(core'.comp)) = Append(LettersOf(Typed(core.comp)), k)]_vars
  BY <1>1
<1>. QED  BY <1>2, Invariant, PTL DEF Spec, KeysKept

\* A key after which a word is gone: the word and the key are in the text.
LEMMA BreakStep ==
  ASSUME IInv, [Next]_vars, NEW k \in BreakKeys, Breaks(k)
  PROVE  /\ ~MacrosOn(conf) /\ OneWord(conf) /\ MethodOK(conf.im)
         /\ CoreOK(core) /\ WordOK(conf, core.comp) /\ core.comp # <<>> /\ Text(doc)
         /\ \E upper \in BOOLEAN :
              doc' = (doc \o KeptWord(conf, core.comp, Preedit(conf, core.comp))) \o <<PlainChar(k, upper)>>
<1>1. /\ k \in conf.keys /\ k \in BreaksWord
      /\ n' # n /\ key' = k /\ shown # <<>> /\ core'.comp = <<>> /\ conf.macros = {}
  BY DEF BreakKeys, Breaks, Pressed, BreaksWord
<1>2. conf \in Configs
  BY DEF IInv
<1>3. /\ ~MacrosOn(conf) /\ OneWord(conf) /\ MethodOK(conf.im) /\ "." \notin conf.im.appending
      /\ CanProcess(conf, k) => k \in Typeable
  BY <1>1, <1>2, ConfIs
<1>4. CoreOK(core) /\ WordOK(conf, core.comp) /\ Text(doc)
  BY <1>1 DEF IInv
<1>5. core.comp # <<>> /\ ~em.open
  BY <1>1, <1>3 DEF IInv, Display, LookupOK
<1>6. ComposeOrPass(k)
  <2>1. ASSUME NEW x, EmojiKey(x)
        PROVE  FALSE
    BY <1>5, <2>1 DEF EmojiKey
  <2>2. ASSUME NEW x, DoubleSpace(x)
        PROVE  FALSE
    BY <1>1, <1>4, <1>5, <2>2 DEF DoubleSpace, ConsumeDoubleSpace, CoreOK
  <2>3. \A x : ComposeOrPass(x) => key' = x
    BY DEF ComposeOrPass, Happens
  <2>4. OpenEmoji => key' = ":"
    BY DEF OpenEmoji, Happens
  <2>5. /\ TurnPage => key' = "page"
        /\ Click => key' = "click"
        /\ Reset => key' = "reset"
        /\ Deactivate => key' = "leave"
    BY DEF TurnPage, Click, Reset, Deactivate, Happens
  <2>6. (Report => n' = n) /\ (UNCHANGED vars => n' = n)
    BY DEF Report, vars
  <2>7. k \notin {":", "page", "click", "reset", "leave"}
    BY <1>1 DEF BreaksWord
  <2>. QED  BY <1>1, <2>1, <2>2, <2>3, <2>4, <2>5, <2>6, <2>7 DEF Next, Press
<1>. DEFINE r == ProcessKeyEvent(conf, core, k)
<1>7. /\ doc' = IF r.handled THEN doc \o r.commit ELSE Delivered(doc \o r.commit, k)
      /\ core' = r.core
  BY <1>5, <1>6 DEF ComposeOrPass, Write, Left
<1>8. ~CanProcess(conf, k)
  <2>1. SUFFICES ASSUME CanProcess(conf, k)
                 PROVE  FALSE
    OBVIOUS
  <2>2. k \notin {" ", "Tab", "Return", "Paste"}
    BY <1>3, <2>1, KeysThatCannot
  <2>3. k \in Typeable /\ k \notin conf.im.appending
    BY <1>1, <1>3, <2>1, <2>2 DEF BreaksWord
  <2>. DEFINE s == Sentence(conf, core.sentence, k)
              d == [core EXCEPT !.armed = FALSE, !.sentence = s.next]
              u == s.upper
  <2>4. core' = ProcessPreedit(conf, d, k, u).core
    BY <1>7, <2>2 DEF ProcessKeyEvent, AfterSentence
  <2>5. CoreOK(d) /\ d.comp = core.comp /\ u \in BOOLEAN
    BY <1>4 DEF CoreOK, Sentence
  <2>. HIDE DEF s, d, u, r
  <2>6. Typed(core'.comp) = Append(Typed(core.comp), PlainChar(k, u))
    BY <1>3, <1>4, <2>1, <2>3, <2>4, <2>5, KeyRemembered
  <2>7. Text(Typed(core.comp))
    BY <1>4, TypedKeys, TextOf DEF CoreOK
  <2>8. Append(Typed(core.comp), PlainChar(k, u)) # <<>>
    BY <2>7, TextAppend
  <2>. QED  BY <1>1, <2>6, <2>8, EmptyShown
<1>9. \E upper \in BOOLEAN :
        doc' = (doc \o KeptWord(conf, core.comp, Preedit(conf, core.comp))) \o <<PlainChar(k, upper)>>
  BY <1>1, <1>3, <1>4, <1>5, <1>7, <1>8, WordCommitted, ZenonT(30)
<1>. QED  BY <1>3, <1>4, <1>5, <1>9

\* CommitsWhatIsShown: a word break commits the word as the panel shows it or,
\* with restoring on, the keys that were typed (handle_non_vn_word).
THEOREM CommitIsShown == Spec => CommitsWhatIsShown
<1>1. ASSUME IInv, [Next]_vars, NEW k \in BreakKeys, Breaks(k)
      PROVE  \E word \in {shown} \cup (IF conf.restore THEN {Typed(core.comp)} ELSE {}) :
               IsPrefix(doc \o word, doc') /\ Len(doc') <= Len(doc \o word) + 1
  <2>. DEFINE old == Preedit(conf, core.comp)
              w == KeptWord(conf, core.comp, old)
              text == doc \o w
  <2>1. /\ ~MacrosOn(conf) /\ OneWord(conf) /\ MethodOK(conf.im)
        /\ WordOK(conf, core.comp) /\ Text(doc)
    BY <1>1, BreakStep
  <2>2. PICK upper \in BOOLEAN : doc' = text \o <<PlainChar(k, upper)>>
    BY <1>1, BreakStep
  <2>3. w \in {shown} \cup (IF conf.restore THEN {Typed(core.comp)} ELSE {})
    <3>1. shown = old \/ (conf.restore /\ old = Typed(core.comp))
      <4>1. Display(conf, core.comp, shown)
        BY <1>1 DEF IInv
      <4>. QED  BY <2>1, <4>1 DEF Display
    <3>2. Foreign(conf, core.comp, old) => conf.restore
      BY DEF Foreign, MustFallback, IsForeign
    <3>. QED  BY <3>1, <3>2 DEF KeptWord
  <2>4. Text(w)
    BY <2>1, KeptText
  <2>. HIDE DEF w
  <2>5. Text(text)
    BY <2>1, <2>4, TextConcat
  <2>. DEFINE one == <<PlainChar(k, upper)>>
  <2>6. Text(one) /\ Len(one) = 1
    BY EmptyText, TextAppend
  <2>. HIDE DEF one, text
  <2>7. doc' = text \o one
    BY <2>2 DEF one
  <2>8. IsPrefix(text, doc') /\ Len(doc') = Len(text) + 1 /\ Len(text) \in Nat
    BY <2>5, <2>6, <2>7, TextConcat
  <2>9. IsPrefix(text, doc') /\ Len(doc') <= Len(text) + 1
    BY <2>8
  <2>. QED  BY <2>3, <2>9 DEF text
<1>2. IInv /\ [Next]_vars
        => [\A k \in BreakKeys : Breaks(k)
              => \E word \in {shown} \cup (IF conf.restore THEN {Typed(core.comp)} ELSE {}) :
                   IsPrefix(doc \o word, doc') /\ Len(doc') <= Len(doc \o word) + 1]_vars
  BY <1>1
<1>. QED  BY <1>2, Invariant, PTL DEF Spec, CommitsWhatIsShown

\* What a key types bears no mark.
LEMMA TypedIsPlain ==
  ASSUME NEW l \in Typeable \cup BreaksWord, NEW upper
  PROVE  ~IsVietnamese(PlainChar(l, upper)[1], PlainChar(l, upper)[2])
<1>1. Unmarked(l) = l
  <2>1. CASE l \notin Markable
    BY <2>1, UnmarkedOf
  <2>2. CASE l \in Markable
    <3>1. PICK row \in {RowA, RowE, RowO, RowU, RowD} : RowOf[l] = row /\ l \in RowLetters(row)
      BY <2>2, RowOfLetter, Rows
    <3>2. l \notin {"a^", "a(", "e^", "o^", "o+", "u+", "d-"}
      BY DEF Typeable, Alpha, Digits, Punctuation, BreaksWord
    <3>3. l = row[1]
      <4>1. CASE row = RowA
        BY <3>1, <3>2, <4>1, LettersOfRows, RowValues, ZenonT(30)
      <4>2. CASE row = RowE
        BY <3>1, <3>2, <4>2, LettersOfRows, RowValues, ZenonT(30)
      <4>3. CASE row = RowO
        BY <3>1, <3>2, <4>3, LettersOfRows, RowValues, ZenonT(30)
      <4>4. CASE row = RowU
        BY <3>1, <3>2, <4>4, LettersOfRows, RowValues, ZenonT(30)
      <4>5. CASE row = RowD
        BY <3>1, <3>2, <4>5, LettersOfRows, RowValues, ZenonT(30)
      <4>. QED  BY <3>1, <4>1, <4>2, <4>3, <4>4, <4>5
    <3>. QED  BY <2>2, <3>1, <3>3, UnmarkedOf
  <2>. QED  BY <2>1, <2>2
<1>. QED  BY <1>1 DEF IsVietnamese, PlainChar

\* What stands behind a text.
LEMMA Behind ==
  ASSUME NEW a, Text(a), NEW b, Text(b), NEW x
  PROVE  LET whole == (a \o b) \o <<x>>
             new == SubSeq(whole, Len(a) + 1, Len(whole))
             m == Len(b)
         IN  /\ DOMAIN new = 1 .. m + 1 /\ m \in Nat
             /\ \A i \in 1 .. m : new[i] = b[i]
             /\ new[m + 1] = x
<1>. DEFINE one == <<x>>
            c == a \o b
            whole == c \o one
            l == Len(a)
            m == Len(b)
            start == l + 1
            new == SubSeq(whole, start, Len(whole))
<1>1. Text(one) /\ Len(one) = 1 /\ one[1] = x
  BY EmptyText, TextAppend
<1>. HIDE DEF one
<1>2. PICK S : a \in Seq(S) /\ b \in Seq(S) /\ one \in Seq(S)
  <2>1. PICK A : a \in Seq(A) /\ b \in Seq(A)
    BY TextsTogether
  <2>2. PICK B : b \in Seq(B) /\ one \in Seq(B)
    BY <1>1, TextsTogether
  <2>. DEFINE S == A \cup B
  <2>3. A \subseteq S /\ B \subseteq S
    OBVIOUS
  <2>. HIDE DEF S
  <2>4. a \in Seq(S) /\ b \in Seq(S) /\ one \in Seq(S)
    BY <2>1, <2>2, <2>3, SeqMonotonic
  <2>. QED  BY <2>4
<1>3. /\ c \in Seq(S) /\ Len(c) = l + m /\ l \in Nat /\ m \in Nat
      /\ \A j \in 1 .. m : l + j \in 1 .. Len(c) /\ c[l + j] = b[j]
  BY <1>2, ConcatElements
<1>. HIDE DEF c, l, m
<1>4. /\ whole \in Seq(S) /\ Len(whole) = Len(c) + Len(one)
      /\ \A i \in 1 .. Len(c) : i \in 1 .. Len(whole) /\ whole[i] = c[i]
      /\ \A j \in 1 .. Len(one) : Len(c) + j \in 1 .. Len(whole) /\ whole[Len(c) + j] = one[j]
  <2>1. c \in Seq(S) /\ one \in Seq(S)
    BY <1>2, <1>3
  <2>. QED  BY <2>1, ConcatElements
<1>. HIDE DEF whole
<1>5. Len(whole) = l + m + 1
  BY <1>1, <1>3, <1>4
<1>6. /\ new \in Seq(S) /\ Len(new) = Len(whole) - start + 1
      /\ \A i \in 1 .. Len(new) : new[i] = whole[start - 1 + i]
  <2>1. start \in 1 .. Len(whole) + 1
    BY <1>3, <1>5
  <2>. HIDE DEF start
  <2>. QED  BY <1>4, <2>1, Cut
<1>. HIDE DEF new, start
<1>7. DOMAIN new = 1 .. m + 1 /\ Len(new) = m + 1
  <2>1. DOMAIN new = 1 .. Len(new)
    BY <1>6, LenProperties
  <2>. QED  BY <1>3, <1>5, <1>6, <2>1 DEF start
<1>8. ASSUME NEW i \in 1 .. m
      PROVE  new[i] = b[i]
  <2>1. new[i] = whole[l + i]
    <3>1. i \in 1 .. Len(new) /\ start - 1 + i = l + i
      BY <1>3, <1>7 DEF start
    <3>. QED  BY <1>6, <3>1
  <2>2. whole[l + i] = c[l + i] /\ c[l + i] = b[i]
    BY <1>3, <1>4
  <2>. QED  BY <2>1, <2>2
<1>9. new[m + 1] = x
  <2>1. m + 1 \in 1 .. Len(new) /\ start - 1 + (m + 1) = Len(c) + 1
    BY <1>3, <1>7 DEF start
  <2>2. whole[Len(c) + 1] = x
    BY <1>1, <1>4
  <2>. QED  BY <1>6, <2>1, <2>2
<1>10. /\ DOMAIN new = 1 .. m + 1 /\ m \in Nat
       /\ \A i \in 1 .. m : new[i] = b[i]
       /\ new[m + 1] = x
  BY <1>3, <1>7, <1>8, <1>9
<1>. QED  BY <1>10 DEF new, whole, c, one, l, m, start

\* The keys of a word bear no mark, so that a word put back to its keys has none.
LEMMA KeysArePlain ==
  ASSUME NEW cfg, MethodOK(cfg.im), NEW comp, WordOK(cfg, comp)
  PROVE  ~HasVietnamese(Typed(comp))
<1>1. Typed(comp) \in Seq(KeyTexts(WordKeys(cfg)))
  BY TypedTexts, OnIsTransformation DEF WordOK
<1>. DEFINE w == Typed(comp)
<1>2. DOMAIN w = 1 .. Len(w) /\ \A i \in 1 .. Len(w) : w[i] \in KeyTexts(WordKeys(cfg))
  BY <1>1, LenProperties, ElementOfSeq
<1>. HIDE DEF w
<1>3. ASSUME NEW i \in DOMAIN w
      PROVE  ~IsVietnamese(w[i][1], w[i][2])
  <2>. DEFINE l == w[i][1]
              u == w[i][3]
  <2>1. l \in WordKeys(cfg) /\ w[i] = PlainChar(l, u)
    BY <1>2 DEF KeyTexts
  <2>2. l \in Typeable
    BY <2>1, WordKeysAre
  <2>. HIDE DEF l, u
  <2>3. ~IsVietnamese(PlainChar(l, u)[1], PlainChar(l, u)[2])
    BY <2>2, TypedIsPlain
  <2>. QED  BY <2>1, <2>3
<1>. QED  BY <1>3 DEF HasVietnamese, w

\* A word that is kept with its marks is a Vietnamese one, one of the
\* dictionary, or has a free dd.
LEMMA MarksOfKept ==
  ASSUME NEW cfg, MethodOK(cfg.im), NEW comp, WordOK(cfg, comp), comp # <<>>, ~MacrosOn(cfg), cfg.restore,
         NEW w, w = KeptWord(cfg, comp, Preedit(cfg, comp)), HasVietnamese(w)
  PROVE  \/ IsValid(LastWord(cfg.im, comp), TRUE)
         \/ LowerCase(Vietnamese(cfg, comp)) \in cfg.dict
         \/ \E i \in DOMAIN w : w[i][1] = "d-"
<1>. DEFINE old == Preedit(cfg, comp)
            vn == Vietnamese(cfg, comp)
<1>1. ~HasVietnamese(Typed(comp))
  BY KeysArePlain
<1>2. ~Foreign(cfg, comp, old) /\ w = old
  BY <1>1 DEF KeptWord
<1>3. ~MustFallback(cfg, vn, LastWord(cfg.im, comp))
  BY <1>2 DEF Foreign
<1>4. OneWord(cfg)
  BY WordKeysAre
<1>5. vn = Flatten(comp)
  BY OneWordIs
<1>6. w = vn
  <2>1. old = Flatten(comp) \/ old = Typed(comp)
    BY <1>4, PreeditIs
  <2>. QED  BY <1>1, <1>2, <1>5, <2>1
<1>7. vn # <<>>
  <2>1. comp \in Seq(On(cfg.im, Ids)) /\ AppendIds(comp) # {}
    BY <1>4 DEF WordOK
  <2>. QED  BY <1>5, <2>1, FlattenSome
<1>. HIDE DEF vn, old
<1>8. \/ IsValid(LastWord(cfg.im, comp), TRUE)
      \/ LowerCase(vn) \in cfg.dict
      \/ \E i \in DOMAIN vn : vn[i][1] = "d-"
  BY <1>3, <1>7 DEF MustFallback, IsForeign
<1>. QED  BY <1>6, <1>8 DEF vn

\* OnlyWordsKeepMarks: with restoring on, what reaches the text with
\* Vietnamese letters is a possible Vietnamese word, a word of the dictionary
\* or has a free dd (must_fallback_to_english).
THEOREM MarksAreOfWords == Spec => OnlyWordsKeepMarks
<1>1. ASSUME IInv, [Next]_vars, NEW k \in BreakKeys, Breaks(k), conf.restore,
             HasVietnamese(SubSeq(doc', Len(doc) + 1, Len(doc')))
      PROVE  \/ IsValid(WordNow, TRUE)
             \/ LowerCase(Vietnamese(conf, core.comp)) \in conf.dict
             \/ \E i \in DOMAIN SubSeq(doc', Len(doc) + 1, Len(doc')) :
                  SubSeq(doc', Len(doc) + 1, Len(doc'))[i][1] = "d-"
  <2>. DEFINE w == KeptWord(conf, core.comp, Preedit(conf, core.comp))
  <2>1. /\ ~MacrosOn(conf) /\ MethodOK(conf.im)
        /\ WordOK(conf, core.comp) /\ core.comp # <<>> /\ Text(doc)
    BY <1>1, BreakStep
  <2>2. PICK upper \in BOOLEAN : doc' = (doc \o w) \o <<PlainChar(k, upper)>>
    BY <1>1, BreakStep
  <2>3. Text(w)
    BY <2>1, KeptText
  <2>4. w = KeptWord(conf, core.comp, Preedit(conf, core.comp))
    OBVIOUS
  <2>. HIDE DEF w
  <2>. DEFINE ch == PlainChar(k, upper)
              whole == (doc \o w) \o <<ch>>
              new == SubSeq(whole, Len(doc) + 1, Len(whole))
              m == Len(w)
  <2>5. /\ DOMAIN new = 1 .. m + 1 /\ m \in Nat
        /\ \A i \in 1 .. m : new[i] = w[i]
        /\ new[m + 1] = ch
    <3>. HIDE DEF ch
    <3>. QED  BY <2>1, <2>3, Behind, SMTT(30)
  <2>6. DOMAIN w = 1 .. m
    BY <2>3, LenProperties DEF Text, Range
  <2>7. new = SubSeq(doc', Len(doc) + 1, Len(doc'))
    BY <2>2
  <2>8. ~IsVietnamese(ch[1], ch[2])
    <3>1. k \in BreaksWord
      BY DEF BreakKeys, BreaksWord
    <3>. QED  BY <3>1, TypedIsPlain
  <2>. HIDE DEF new, ch, m
  <2>9. HasVietnamese(w)
    <3>1. PICK i \in DOMAIN new : IsVietnamese(new[i][1], new[i][2])
      BY <1>1, <2>7 DEF HasVietnamese
    <3>2. i # m + 1
      BY <2>5, <2>8, <3>1
    <3>3. i \in 1 .. m
      BY <2>5, <3>1, <3>2
    <3>4. i \in DOMAIN w /\ IsVietnamese(w[i][1], w[i][2])
      BY <2>5, <2>6, <3>1, <3>3
    <3>. QED  BY <3>4 DEF HasVietnamese
  <2>10. \/ IsValid(WordNow, TRUE)
         \/ LowerCase(Vietnamese(conf, core.comp)) \in conf.dict
         \/ \E i \in DOMAIN w : w[i][1] = "d-"
    BY <1>1, <2>1, <2>4, <2>9, MarksOfKept DEF WordNow
  <2>11. ASSUME NEW i \in DOMAIN w, w[i][1] = "d-"
         PROVE  \E j \in DOMAIN new : new[j][1] = "d-"
    <3>1. i \in 1 .. m + 1 /\ new[i] = w[i]
      BY <2>5, <2>6
    <3>. QED  BY <2>5, <2>11, <3>1
  <2>. QED  BY <2>7, <2>10, <2>11
<1>2. IInv /\ [Next]_vars
        => [\A k \in BreakKeys : Breaks(k) /\ conf.restore
              => LET new == SubSeq(doc', Len(doc) + 1, Len(doc'))
                 IN  HasVietnamese(new) => \/ IsValid(WordNow, TRUE)
                                           \/ LowerCase(Vietnamese(conf, core.comp)) \in conf.dict
                                           \/ \E i \in DOMAIN new : new[i][1] = "d-"]_vars
  BY <1>1
<1>. QED  BY <1>2, Invariant, PTL DEF Spec, OnlyWordsKeepMarks

\* A text and more of it.
LEMMA PrefixMore ==
  ASSUME NEW a, Text(a), NEW b, Text(b), NEW x
  PROVE  IsPrefix(a, a) /\ IsPrefix(a, a \o b) /\ IsPrefix(a, Append(a \o b, x))
<1>1. IsPrefix(a, a \o b) /\ Text(a \o b)
  BY TextConcat
<1>2. IsPrefix(a, a)
  <2>1. a \in Seq(Range(a))
    BY DEF Text
  <2>2. Len(a) \in Nat
    BY <2>1, LenProperties
  <2>. QED  BY <2>2 DEF IsPrefix
<1>3. IsPrefix(a, a \o (b \o <<x>>))
  <2>1. Text(b \o <<x>>)
    BY EmptyText, TextAppend, TextConcat
  <2>. DEFINE c == b \o <<x>>
  <2>. HIDE DEF c
  <2>. QED  BY <2>1, TextConcat DEF c
<1>4. Append(a \o b, x) = a \o (b \o <<x>>)
  <2>1. PICK S : a \in Seq(S) /\ b \in Seq(S)
    BY TextsTogether
  <2>. DEFINE T == S \cup {x}
  <2>2. a \in Seq(T) /\ b \in Seq(T) /\ <<x>> \in Seq(T)
    <3>1. a \in Seq(T) /\ b \in Seq(T)
      BY <2>1, SeqMonotonic
    <3>. QED  BY <3>1
  <2>. HIDE DEF T
  <2>3. (a \o b) \o <<x>> = a \o (b \o <<x>>)
    BY <2>2, ConcatAssociative
  <2>. DEFINE c == a \o b
  <2>4. Text(c)
    BY <1>1
  <2>. HIDE DEF c
  <2>5. Append(c, x) = c \o <<x>>
    BY <2>4, TextAppend
  <2>. QED  BY <2>3, <2>5 DEF c
<1>. QED  BY <1>1, <1>2, <1>3, <1>4

LEMMA LookupStep ==
  ASSUME IInv, [Next]_vars, LookupEnds, ~(Pressed(Space) /\ core.armed)
  PROVE  LeavesText
<1>. DEFINE q == doc \o Chars(em.query)
<1>1. em.open /\ ~em'.open /\ key' \notin {"BackSpace", "reset"}
  BY DEF LookupEnds
<1>2. Text(doc) /\ Text(recent) /\ EmojiOK(em) /\ Text(em.query)
  BY DEF IInv, LookupOK, EmojiOK
<1>3. Text(q)
  BY <1>2, CharsText, TextConcat
<1>. HIDE DEF q
<1>4. ASSUME NEW k \in conf.keys, EmojiKey(k)
      PROVE  LeavesText
  <2>1. key' = k /\ ~Leaves(em, k)
    BY <1>4 DEF EmojiKey, Happens
  <2>2. CASE Picks(em, k)
    <3>1. recent' = Record(recent, Picked(em, k)) /\ doc' = doc \o Chars(<<Picked(em, k)>>)
      BY <1>4, <2>2 DEF EmojiKey, Write
    <3>2. recent' # <<>> /\ recent'[1] = Picked(em, k)
      BY <1>2, <3>1, RecordedOK
    <3>. QED  BY <3>1, <3>2 DEF LeavesText
  <2>3. CASE ~Picks(em, k)
    <3>1. em' = AfterKey(em, k, recent) /\ doc' = doc \o Chars(Literal(em, k))
      BY <1>4, <2>3 DEF EmojiKey, Write
    <3>2. ~EmojiText(k)
      <4>1. SUFFICES ASSUME EmojiText(k)
                     PROVE  FALSE
        OBVIOUS
      <4>2. AfterKey(em, k, recent) = Update(Append(em.query, k), recent)
        BY <1>1, <2>1, <2>3, <4>1 DEF AfterKey
      <4>3. Text(Append(em.query, k))
        BY <1>2, TextAppend
      <4>4. Update(Append(em.query, k), recent).open
        BY <4>3, UpdateOK
      <4>. QED  BY <1>1, <3>1, <4>2, <4>4
    <3>3. k = "Escape"
      BY <1>1, <2>1, <2>3, <3>2 DEF EmojiText, Leaves
    <3>4. doc' = q
      BY <3>1, <3>3 DEF Literal, q
    <3>5. IsPrefix(q, q)
      BY <1>3, EmptyText, PrefixMore
    <3>. QED  BY <3>4, <3>5 DEF LeavesText, q
  <2>. QED  BY <2>2, <2>3
<1>5. ASSUME NEW k \in conf.keys, DoubleSpace(k)
      PROVE  LeavesText
  <2>1. key' = k /\ n' = n + 1 /\ k = Space /\ core.armed
    BY <1>5 DEF DoubleSpace, Happens, Doubles
  <2>2. n' # n
    <3>1. conf \in Configs /\ n \in 0 .. conf.budget
      BY DEF IInv
    <3>2. conf.budget \in Nat
      BY <3>1, ConfIs
    <3>. QED  BY <2>1, <3>1, <3>2
  <2>. QED  BY <2>1, <2>2 DEF Pressed
<1>6. ASSUME NEW k \in conf.keys, ComposeOrPass(k)
      PROVE  LeavesText
  <2>. DEFINE r == ProcessKeyEvent(conf, core, k)
              c == r.commit
  <2>1. /\ Leaves(em, k) /\ Left(k) = q
        /\ doc' = IF r.handled THEN Left(k) \o c ELSE Delivered(Left(k) \o c, k)
    BY <1>1, <1>6 DEF ComposeOrPass, GoesOn, Left, Literal, Write, q
  <2>2. Text(c)
    <3>1. conf \in Configs /\ CoreOK(core) /\ WordOK(conf, core.comp)
      BY DEF IInv
    <3>2. MethodOK(conf.im) /\ MacrosAreTexts(conf) /\ (CanProcess(conf, k) => k \in Typeable)
      BY <3>1, ConfIs
    <3>. QED  BY <3>1, <3>2, CommitText
  <2>3. k \notin {"BackSpace"}
    BY <2>1 DEF Leaves
  <2>. HIDE DEF r, c
  <2>4. doc' \in {q \o c, Append(q \o c, PlainChar("p", FALSE)), Append(q \o c, PlainChar(k, FALSE))}
    BY <2>1, <2>3 DEF Delivered
  <2>5. IsPrefix(q, doc')
    BY <1>3, <2>2, <2>4, PrefixMore
  <2>. QED  BY <2>5 DEF LeavesText, q
<1>7. CASE OpenEmoji
  BY <1>1, <1>7 DEF OpenEmoji
<1>8. CASE TurnPage
  <2>1. PICK p \in Pages(em) : em' = [em EXCEPT !.page = p]
    BY <1>8 DEF TurnPage
  <2>2. em' = [open |-> em.open, query |-> em.query, found |-> em.found, page |-> p]
    BY <1>2, <2>1 DEF EmojiOK
  <2>. QED  BY <1>1, <2>2
<1>9. CASE Click
  BY <1>1, <1>9 DEF Click
<1>10. CASE Reset
  BY <1>1, <1>10 DEF Reset, Happens
<1>11. CASE Deactivate
  <2>1. doc' = q \o shown
    BY <1>11 DEF Deactivate, q
  <2>2. Text(shown)
    BY TextOf DEF IInv, Display
  <2>3. IsPrefix(q, doc')
    BY <1>3, <2>1, <2>2, PrefixMore
  <2>. QED  BY <2>3 DEF LeavesText, q
<1>12. CASE Report
  BY <1>1, <1>12 DEF Report
<1>13. CASE UNCHANGED vars
  BY <1>1, <1>13 DEF vars
<1>. QED  BY <1>4, <1>5, <1>6, <1>7, <1>8, <1>9, <1>10, <1>11, <1>12, <1>13 DEF Next, Press

\* LookupLeavesText: however a lookup ends, it leaves an emoji, or what was
\* typed into it and nothing of the text before is touched; only the space that
\* is taken for a double space, and Backspace and a reset, may take it away.
THEOREM LookupIsLeft == Spec => LookupLeavesText
<1>1. IInv /\ [Next]_vars => [LookupEnds /\ ~(Pressed(Space) /\ core.armed) => LeavesText]_vars
  BY LookupStep
<1>. QED  BY <1>1, Invariant, PTL DEF Spec, LookupLeavesText

(***************************************************************************)
(* A space keeps the text.                                                 *)
(***************************************************************************)
LEMMA PrefixBy ==
  ASSUME NEW a, Text(a), NEW w, Text(w), Len(a) <= Len(w), \A i \in 1 .. Len(a) : w[i] = a[i]
  PROVE  IsPrefix(a, w)
<1>. DEFINE m == Len(a)
            p == SubSeq(a, 1, m)
            q == SubSeq(w, 1, m)
<1>1. a \in Seq(Range(a)) /\ w \in Seq(Range(w))
  BY DEF Text
<1>2. m \in Nat /\ Len(w) \in Nat /\ 1 \in 1 .. Len(w) + 1 /\ m \in 0 .. Len(w)
  BY <1>1, LenProperties
<1>3. p = a
  BY <1>1, WholeSubSeq
<1>4. /\ q \in Seq(Range(w)) /\ Len(q) = IF 1 <= m THEN m - 1 + 1 ELSE 0
      /\ \A i \in 1 .. m - 1 + 1 : q[i] = w[1 + i - 1]
  BY <1>1, <1>2, SubSeqType
<1>. HIDE DEF q, p
<1>5. Len(q) = m /\ \A i \in 1 .. m : q[i] = a[i]
  <2>1. Len(q) = m
    BY <1>2, <1>4
  <2>2. \A i \in 1 .. m : i \in 1 .. m - 1 + 1 /\ 1 + i - 1 = i
    BY <1>2
  <2>. QED  BY <1>4, <2>1, <2>2
<1>6. q = a
  <2>1. Text(q)
    BY <1>4, TextOf
  <2>2. PICK S : a \in Seq(S) /\ q \in Seq(S)
    BY <2>1, TextsTogether
  <2>. QED  BY <1>5, <2>2, SeqEqual
<1>7. p = q
  BY <1>3, <1>6
<1>. QED  BY <1>7 DEF IsPrefix, p, q

LEMMA TextElements ==
  ASSUME NEW a, Text(a), NEW b, Text(b)
  PROVE  /\ Text(a \o b) /\ Len(a \o b) = Len(a) + Len(b) /\ Len(a) \in Nat /\ Len(b) \in Nat
         /\ \A i \in 1 .. Len(a) : (a \o b)[i] = a[i]
         /\ \A j \in 1 .. Len(b) : (a \o b)[Len(a) + j] = b[j]
<1>1. PICK S : a \in Seq(S) /\ b \in Seq(S)
  BY TextsTogether
<1>. DEFINE c == a \o b
<1>2. /\ c \in Seq(S) /\ Len(c) = Len(a) + Len(b) /\ Len(a) \in Nat /\ Len(b) \in Nat
      /\ \A i \in 1 .. Len(a) : i \in 1 .. Len(c) /\ c[i] = a[i]
      /\ \A j \in 1 .. Len(b) : Len(a) + j \in 1 .. Len(c) /\ c[Len(a) + j] = b[j]
  BY <1>1, ConcatElements
<1>. HIDE DEF c
<1>3. Text(c)
  BY <1>2, TextOf
<1>. QED  BY <1>2, <1>3 DEF c

LEMMA FrontOf ==
  ASSUME NEW w, Text(w), w # <<>>
  PROVE  /\ Len(w) \in Nat /\ Len(w) >= 1 /\ Text(Front(w)) /\ Len(Front(w)) = Len(w) - 1
         /\ \A i \in 1 .. Len(w) - 1 : Front(w)[i] = w[i]
         /\ Last(w) = w[Len(w)]
<1>. DEFINE m == Len(w)
            l == m - 1
            q == SubSeq(w, 1, l)
<1>1. w \in Seq(Range(w))
  BY DEF Text
<1>2. m \in Nat /\ m # 0
  BY <1>1, LenProperties, EmptySeq
<1>3. 1 \in 1 .. m + 1 /\ l \in 0 .. m /\ l \in Nat
  BY <1>2
<1>. HIDE DEF l
<1>4. /\ q \in Seq(Range(w)) /\ Len(q) = IF 1 <= l THEN l - 1 + 1 ELSE 0
      /\ \A i \in 1 .. l - 1 + 1 : q[i] = w[1 + i - 1]
  BY <1>1, <1>3, SubSeqType
<1>. HIDE DEF q
<1>5. Len(q) = l
  BY <1>3, <1>4
<1>6. \A i \in 1 .. l : i \in 1 .. l - 1 + 1 /\ 1 + i - 1 = i
  BY <1>3
<1>7. Text(q) /\ \A i \in 1 .. l : q[i] = w[i]
  BY <1>4, <1>6, TextOf
<1>8. Front(w) = q /\ Last(w) = w[m]
  BY DEF Front, Last, q, l
<1>. QED  BY <1>2, <1>5, <1>7, <1>8 DEF l

\* The last character but one of the letters, and a text put behind the rest.
LEMMA FrontKeeps ==
  ASSUME NEW a, Text(a), NEW b, Text(b), b # <<>>, NEW c, Text(c)
  PROVE  IsPrefix(a, Front(a \o b) \o c)
<1>. DEFINE w == a \o b
            f == Front(w)
            g == f \o c
<1>1. /\ Text(w) /\ Len(w) = Len(a) + Len(b) /\ Len(a) \in Nat /\ Len(b) \in Nat
      /\ \A i \in 1 .. Len(a) : w[i] = a[i]
  BY TextElements
<1>2. Len(b) >= 1
  BY FrontOf
<1>. HIDE DEF w
<1>3. w # <<>>
  <2>1. Len(w) # 0
    BY <1>1, <1>2
  <2>. QED  BY <2>1
<1>4. /\ Text(f) /\ Len(f) = Len(w) - 1
      /\ \A i \in 1 .. Len(w) - 1 : f[i] = w[i]
  BY <1>1, <1>3, FrontOf
<1>. HIDE DEF f
<1>5. /\ Text(g) /\ Len(g) = Len(f) + Len(c) /\ Len(c) \in Nat
      /\ \A i \in 1 .. Len(f) : g[i] = f[i]
  BY <1>4, TextElements
<1>. HIDE DEF g
<1>6. Len(a) <= Len(f) /\ Len(a) <= Len(g)
  BY <1>1, <1>2, <1>4, <1>5
<1>7. \A i \in 1 .. Len(a) : g[i] = a[i]
  BY <1>1, <1>2, <1>4, <1>5, <1>6
<1>8. IsPrefix(a, g)
  BY <1>5, <1>6, <1>7, PrefixBy
<1>. QED  BY <1>8 DEF g, f, w

LEMMA LastBehind ==
  ASSUME NEW a, Text(a), NEW b, Text(b), b # <<>>
  PROVE  (a \o b) # <<>> /\ Last(a \o b) = Last(b)
<1>. DEFINE w == a \o b
<1>1. /\ Text(w) /\ Len(w) = Len(a) + Len(b) /\ Len(a) \in Nat /\ Len(b) \in Nat
      /\ \A j \in 1 .. Len(b) : w[Len(a) + j] = b[j]
  BY TextElements
<1>2. Len(b) >= 1 /\ Last(b) = b[Len(b)]
  BY FrontOf
<1>. HIDE DEF w
<1>3. w # <<>>
  <2>1. Len(w) # 0
    BY <1>1, <1>2
  <2>. QED  BY <2>1
<1>4. w[Len(a) + Len(b)] = b[Len(b)]
  BY <1>1, <1>2
<1>5. Last(w) = w[Len(w)]
  BY <1>1, <1>3, FrontOf
<1>. QED  BY <1>1, <1>2, <1>3, <1>4, <1>5 DEF w

\* No letter of a word is a space.
LEMMA NoSpaceIn ==
  ASSUME NEW cfg, MethodOK(cfg.im), NEW comp, WordOK(cfg, comp), ~MacrosOn(cfg)
  PROVE  LET word == KeptWord(cfg, comp, Preedit(cfg, comp))
         IN  \A i \in 1 .. Len(word) : word[i][1] # Space
<1>1. comp \in Seq(On(cfg.im, Ids)) /\ comp \in Seq(Transformation) /\ OnlyKeys(comp, WordKeys(cfg))
  BY OnIsTransformation DEF WordOK
<1>2. OneWord(cfg) /\ Space \notin WordKeys(cfg) /\ WordKeys(cfg) \subseteq Composable(cfg.im)
  BY WordKeysAre
<1>3. ASSUME NEW i \in 1 .. Len(Typed(comp))
      PROVE  Typed(comp)[i][1] # Space
  <2>1. Typed(comp) \in Seq(KeyTexts(WordKeys(cfg)))
    BY <1>1, TypedTexts
  <2>2. Typed(comp)[i] \in KeyTexts(WordKeys(cfg))
    BY <2>1, ElementOfSeq
  <2>. QED  BY <1>2, <2>2 DEF KeyTexts
<1>4. ASSUME NEW i \in 1 .. Len(Flatten(comp))
      PROVE  Flatten(comp)[i][1] # Space
  <2>. DEFINE v == Sel(comp, Appended)
              t == v[i]
              ch == Flatten(comp)[i]
  <2>1. /\ v \in Seq(On(cfg.im, Ids)) /\ Len(Flatten(comp)) = Len(v)
        /\ \A j \in 1 .. Len(v) : v[j] \in Appended /\ Flatten(comp)[j] = Rendered(comp, v[j])
    BY <1>1, FlattenOf
  <2>2. t \in On(cfg.im, Ids) /\ t.kind = "append" /\ ch = Rendered(comp, t)
    <3>1. i \in 1 .. Len(v)
      BY <2>1
    <3>. QED  BY <2>1, <3>1, ElementOfSeq DEF Appended
  <2>3. t.key \in WordKeys(cfg)
    <3>1. i \in 1 .. Len(v)
      BY <2>1
    <3>2. \A j \in 1 .. Len(v) : \E m \in 1 .. Len(comp) : v[j] = comp[m]
      BY <1>1, SelType
    <3>3. \E m \in 1 .. Len(comp) : t = comp[m]
      BY <3>1, <3>2
    <3>4. t.key # NoKey
      BY <2>2 DEF On, Letter
    <3>. HIDE DEF t
    <3>. QED  BY <1>1, <3>3, <3>4 DEF OnlyKeys
  <2>. HIDE DEF t, ch
  <2>4. ~Separates(Unmarked(Rendered(comp, t)[1]), cfg.im.keys)
    BY <1>1, <1>2, <2>2, <2>3, NoSeparator
  <2>5. Unmarked(Space) = Space
    <3>1. Markable \subseteq {"a", "a^", "a(", "e", "e^", "o", "o^", "o+", "u", "u+", "d", "d-"}
      BY Rows, LettersOfRows DEF Markable
    <3>2. Space \notin Markable
      BY <3>1 DEF Space
    <3>. QED  BY <3>2, UnmarkedOf
  <2>6. ~IsAlpha(Space) /\ Space \notin cfg.im.keys
    BY DEF MethodOK, IsAlpha, Space, Alpha
  <2>7. ch[1] # Space
    BY <2>2, <2>4, <2>5, <2>6 DEF Separates
  <2>. QED  BY <2>7 DEF ch
<1>5. Preedit(cfg, comp) \in {Flatten(comp), Typed(comp)}
  BY <1>2, PreeditIs
<1>6. KeptWord(cfg, comp, Preedit(cfg, comp)) \in {Flatten(comp), Typed(comp)}
  BY <1>5 DEF KeptWord
<1>. QED  BY <1>3, <1>4, <1>6

LEMMA CommitArms ==
  ASSUME NEW cfg, NEW c, CoreOK(c), ~c.armed, NEW text, Commit(cfg, c, text).armed
  PROVE  text # <<>> /\ Last(text)[1] = Space
<1>1. CASE text = <<>>
  <2>1. Commit(cfg, c, text) = [c EXCEPT !.comp = <<>>]
    BY <1>1 DEF Commit
  <2>. QED  BY <2>1 DEF CoreOK
<1>2. CASE text # <<>>
  <2>1. Commit(cfg, c, text).armed = Arms(cfg, c.armed, text)
    BY <1>2 DEF Commit
  <2>2. EndsWord(text)
    BY <2>1 DEF Arms
  <2>. QED  BY <1>2, <2>2 DEF EndsWord
<1>. QED  BY <1>1, <1>2

\* The window of the double space opens with a text that goes in front of the
\* cursor as it is and ends in a space.
Opens(r) == r.core.armed => r.handled /\ r.commit # <<>> /\ Last(r.commit)[1] = Space

LEMMA CommittedOpens ==
  ASSUME NEW cfg, NEW c, CoreOK(c), ~c.armed, NEW handled, NEW text,
         text # <<>> /\ Last(text)[1] = Space => handled
  PROVE  Opens(Committed(cfg, c, handled, text))
<1>. DEFINE r == Committed(cfg, c, handled, text)
            d == Commit(cfg, c, text)
<1>1. r.core = d /\ r.handled = handled /\ r.commit = text
  BY DEF Committed, Result
<1>2. d.armed => text # <<>> /\ Last(text)[1] = Space
  BY CommitArms
<1>. HIDE DEF r, d
<1>. QED  BY <1>1, <1>2 DEF Opens, r

LEMMA QuietOpens ==
  ASSUME NEW cfg, NEW c, CoreOK(c), ~c.armed, NEW handled, NEW comp, NEW text
  PROVE  Opens(Ignored(c)) /\ Opens(Showing(c, handled, comp, text))
<1>1. Ignored(c).core = c
  BY DEF Ignored, Result
<1>2. Showing(c, handled, comp, text).core = [c EXCEPT !.comp = comp]
  BY DEF Showing, Result
<1>3. ~[c EXCEPT !.comp = comp].armed
  BY DEF CoreOK
<1>. QED  BY <1>1, <1>2, <1>3 DEF Opens

LEMMA OutcomesOpen ==
  ASSUME NEW cfg, NEW c, CoreOK(c), ~c.armed, NEW printable, NEW next,
         next.text # <<>> /\ Last(next.text)[1] = Space => printable
  PROVE  Opens(Outcomes(cfg, c, printable, next))
<1>1. CASE next.breaks
  BY <1>1, CommittedOpens DEF Outcomes
<1>2. CASE ~next.breaks
  BY <1>2, QuietOpens DEF Outcomes
<1>. QED  BY <1>1, <1>2

LEMMA KeyOpens ==
  ASSUME NEW cfg, MethodOK(cfg.im), ~MacrosOn(cfg), NEW c, CoreOK(c), ~c.armed, WordOK(cfg, c.comp),
         NEW k, NEW upper
  PROVE  Opens(ProcessPreedit(cfg, c, k, upper))
<1>. DEFINE old == Preedit(cfg, c.comp)
            word == KeptWord(cfg, c.comp, old)
            p == IsPrintable(cfg, c.comp, k)
            active == Typed(c.comp) # <<>>
            r == ProcessPreedit(cfg, c, k, upper)
<1>1. k \in {"BackSpace", "Tab"} => ~CanProcess(cfg, k)
  BY KeysThatCannot
<1>2. ~(word # <<>> /\ Last(word)[1] = Space)
  <2>1. SUFFICES ASSUME word # <<>>
                 PROVE  Last(word)[1] # Space
    OBVIOUS
  <2>2. \A i \in 1 .. Len(word) : word[i][1] # Space
    BY NoSpaceIn
  <2>3. Text(word)
    BY KeptText
  <2>. HIDE DEF word
  <2>4. Len(word) \in Nat /\ Len(word) >= 1 /\ Last(word) = word[Len(word)]
    BY <2>1, <2>3, FrontOf
  <2>5. Len(word) \in 1 .. Len(word)
    BY <2>4
  <2>. QED  BY <2>2, <2>4, <2>5
<1>3. CASE ~CanProcess(cfg, k) /\ ~active
  <2>1. r = Ignored(c)
    BY <1>3 DEF ProcessPreedit, PreeditKey
  <2>. QED  BY <2>1, QuietOpens
<1>4. CASE k = "BackSpace" /\ active
  <2>1. r = BackSpaceKey(cfg, c, old)
    BY <1>1, <1>4 DEF ProcessPreedit, PreeditKey
  <2>2. Opens(Committed(cfg, c, TRUE, <<>>)) /\ Opens(Ignored(c))
    BY CommittedOpens, QuietOpens
  <2>3. Opens(ShorterWord(cfg, c, RemoveLastChar(cfg.im, c.comp, TRUE)))
    BY QuietOpens DEF ShorterWord
  <2>4. BackSpaceKey(cfg, c, old) \in {Committed(cfg, c, TRUE, <<>>), Ignored(c),
                                       ShorterWord(cfg, c, RemoveLastChar(cfg.im, c.comp, TRUE))}
    BY DEF BackSpaceKey
  <2>. QED  BY <2>1, <2>2, <2>3, <2>4
<1>5. CASE k = "Tab" /\ active
  <2>1. r = TabKey(cfg, c, old, IsMacro(cfg, c.comp))
    BY <1>1, <1>5 DEF ProcessPreedit, PreeditKey
  <2>2. IsMacro(cfg, c.comp) = FALSE
    BY DEF IsMacro, HasMacro, MacrosOn
  <2>3. ComposedString(cfg, c.comp, old) = word
    BY OneWordIs DEF ComposedString, KeptWord
  <2>4. TabKey(cfg, c, old, IsMacro(cfg, c.comp)) = Committed(cfg, c, FALSE, word)
    BY <2>2, <2>3 DEF TabKey
  <2>. HIDE DEF word
  <2>5. Opens(Committed(cfg, c, FALSE, word))
    BY <1>2, CommittedOpens
  <2>. QED  BY <2>1, <2>4, <2>5
<1>6. CASE CanProcess(cfg, k)
  <2>1. r = Outcomes(cfg, c, p, ComposeKey(cfg, c.comp, k, upper, old))
    BY <1>1, <1>6 DEF ProcessPreedit, PreeditKey, CharacterKey
  <2>2. p
    BY <1>6 DEF IsPrintable
  <2>. HIDE DEF p
  <2>3. Opens(Outcomes(cfg, c, p, ComposeKey(cfg, c.comp, k, upper, old)))
    BY <2>2, OutcomesOpen
  <2>. QED  BY <2>1, <2>3
<1>7. CASE active /\ ~CanProcess(cfg, k) /\ k \notin {"BackSpace", "Tab"}
  <2>. DEFINE t == IF p THEN <<PlainChar(k, upper)>> ELSE <<>>
  <2>1. r = Outcomes(cfg, c, p, BreakKey(cfg, c.comp, k, upper, old, p))
    BY <1>7 DEF ProcessPreedit, PreeditKey, CharacterKey
  <2>2. BreakKey(cfg, c.comp, k, upper, old, p) = Outcome(c.comp, word \o t, TRUE)
    BY BreakKeyIs
  <2>3. ~p => word \o t = word
    <3>1. word \in Seq(Char)
      BY KeptText
    <3>. HIDE DEF word
    <3>. QED  BY <3>1, ConcatEmptySeq
  <2>. HIDE DEF p, word, t
  <2>. DEFINE next == Outcome(c.comp, word \o t, TRUE)
  <2>4. next.text = word \o t
    BY DEF Outcome
  <2>. HIDE DEF next
  <2>5. next.text # <<>> /\ Last(next.text)[1] = Space => p
    BY <1>2, <2>3, <2>4
  <2>6. Opens(Outcomes(cfg, c, p, next))
    BY <2>5, OutcomesOpen
  <2>. QED  BY <2>1, <2>2, <2>6 DEF next
<1>. QED  BY <1>3, <1>4, <1>5, <1>6, <1>7

LEMMA KeyEventOpens ==
  ASSUME NEW cfg, MethodOK(cfg.im), ~MacrosOn(cfg), NEW c, CoreOK(c), WordOK(cfg, c.comp), NEW k
  PROVE  Opens(ProcessKeyEvent(cfg, c, k))
<1>1. CASE k = "Paste"
  <2>. DEFINE d == [c EXCEPT !.armed = FALSE, !.sentence = "idle"]
  <2>1. CoreOK(d) /\ ~d.armed
    BY DEF CoreOK
  <2>2. ProcessKeyEvent(cfg, c, k) = Ignored(d)
    BY <1>1 DEF ProcessKeyEvent
  <2>. HIDE DEF d
  <2>. QED  BY <2>1, <2>2, QuietOpens
<1>2. CASE k # "Paste"
  <2>. DEFINE s == Sentence(cfg, c.sentence, k)
              d == [c EXCEPT !.armed = FALSE, !.sentence = s.next]
              u == s.upper
  <2>1. s.next \in {"idle", "punct", "ready"}
    BY DEF Sentence, CoreOK
  <2>2. ProcessKeyEvent(cfg, c, k) = ProcessPreedit(cfg, d, k, u)
    BY <1>2 DEF ProcessKeyEvent, AfterSentence
  <2>. HIDE DEF s, u
  <2>3. CoreOK(d) /\ d.comp = c.comp /\ ~d.armed
    BY <2>1 DEF CoreOK
  <2>. HIDE DEF d
  <2>4. WordOK(cfg, d.comp)
    BY <2>3
  <2>5. Opens(ProcessPreedit(cfg, d, k, u))
    BY <2>3, <2>4, KeyOpens
  <2>. QED  BY <2>2, <2>5
<1>. QED  BY <1>1, <1>2

\* What the second space is measured against: a client that reports at once has
\* no older text, and behind one that reports late the window was opened by the
\* commit of a space.
SpaceInv ==
  /\ ~conf.late => cache \in {<<>>, doc}
  /\ ":" \notin conf.keys => ~em.open
  /\ conf.macros = {} /\ conf.late /\ ":" \notin conf.keys /\ core.armed =>
       cache = doc \/ (doc # <<>> /\ Last(doc)[1] = Space)

LEMMA SpaceInvInit == Init => SpaceInv
<1>. SUFFICES ASSUME Init
              PROVE  SpaceInv
  OBVIOUS
<1>1. cache = doc /\ ~em.open
  BY DEF Init, Closed
<1>. QED  BY <1>1 DEF SpaceInv

LEMMA SpaceInvStep ==
  ASSUME IInv, SpaceInv, [Next]_vars
  PROVE  SpaceInv'
<1>1. CoreOK(core) /\ WordOK(conf, core.comp) /\ conf \in Configs /\ Text(doc)
  BY DEF IInv
<1>2. ASSUME NEW k \in conf.keys, EmojiKey(k)
      PROVE  SpaceInv'
  <2>1. conf' = conf /\ em.open
    BY <1>2 DEF EmojiKey, Happens
  <2>2. ~conf.late => cache' = doc'
    BY <1>2 DEF EmojiKey, Write
  <2>3. ":" \in conf.keys
    BY <2>1 DEF SpaceInv
  <2>. QED  BY <2>1, <2>2, <2>3 DEF SpaceInv
<1>3. ASSUME NEW k \in conf.keys, DoubleSpace(k)
      PROVE  SpaceInv'
  <2>1. conf' = conf /\ core' = ConsumeDoubleSpace(conf, core) /\ em' = Closed
    BY <1>3 DEF DoubleSpace, Happens
  <2>2. ~conf.late => cache' = doc'
    BY <1>3 DEF DoubleSpace, Write
  <2>3. ~core'.armed
    BY <1>1, <2>1 DEF CoreOK, ConsumeDoubleSpace
  <2>4. ~em'.open
    BY <2>1 DEF Closed
  <2>. QED  BY <2>1, <2>2, <2>3, <2>4 DEF SpaceInv
<1>4. ASSUME NEW k \in conf.keys, ComposeOrPass(k)
      PROVE  SpaceInv'
  <2>. DEFINE r == ProcessKeyEvent(conf, core, k)
              c == r.commit
              l == Left(k)
  <2>1. /\ conf' = conf /\ core' = r.core /\ em' = Closed
        /\ doc' = IF r.handled THEN l \o c ELSE Delivered(l \o c, k)
    BY <1>4 DEF ComposeOrPass, Happens, Write
  <2>2. ~conf.late => cache' = doc'
    BY <1>4 DEF ComposeOrPass, Write
  <2>3. ~em'.open
    BY <2>1 DEF Closed
  <2>4. MethodOK(conf.im) /\ MacrosAreTexts(conf) /\ (CanProcess(conf, k) => k \in Typeable)
    BY <1>1, ConfIs
  <2>5. Text(l) /\ Text(c)
    BY <1>1, <2>4, LeftText, CommitText
  <2>6. ASSUME conf.macros = {}
        PROVE  Opens(r)
    <3>1. ~MacrosOn(conf)
      BY <2>6 DEF MacrosOn
    <3>. QED  BY <1>1, <2>4, <3>1, KeyEventOpens
  <2>. HIDE DEF r, l
  <2>7. ASSUME conf.macros = {}, core'.armed
        PROVE  doc' # <<>> /\ Last(doc')[1] = Space
    <3>1. r.handled /\ c # <<>> /\ Last(c)[1] = Space
      BY <2>1, <2>6, <2>7 DEF Opens
    <3>2. doc' = l \o c
      BY <2>1, <3>1
    <3>. HIDE DEF c
    <3>3. doc' # <<>> /\ Last(doc') = Last(c)
      BY <2>5, <3>1, <3>2, LastBehind
    <3>. QED  BY <3>1, <3>3
  <2>. QED  BY <2>1, <2>2, <2>3, <2>7 DEF SpaceInv
<1>5. CASE ":" \in conf.keys /\ OpenEmoji
  <2>1. UNCHANGED <<conf, core, doc, cache>>
    BY <1>5 DEF OpenEmoji, Happens
  <2>. QED  BY <1>5, <2>1 DEF SpaceInv
<1>6. CASE TurnPage
  <2>1. UNCHANGED <<conf, core, doc, cache>> /\ em.open
    BY <1>6 DEF TurnPage, Happens
  <2>. QED  BY <2>1 DEF SpaceInv
<1>7. CASE Click
  <2>1. UNCHANGED <<conf, core, em>> /\ cache' = doc'
    BY <1>7 DEF Click, Happens
  <2>. QED  BY <2>1 DEF SpaceInv
<1>8. CASE Reset
  <2>1. UNCHANGED <<conf, doc, cache>> /\ core' = FreshCore /\ em' = Closed
    BY <1>8 DEF Reset, Happens
  <2>2. ~core'.armed /\ ~em'.open
    BY <2>1 DEF FreshCore, Closed
  <2>. QED  BY <2>1, <2>2 DEF SpaceInv
<1>9. CASE Deactivate
  <2>1. UNCHANGED conf /\ core' = FreshCore /\ em' = Closed
    BY <1>9 DEF Deactivate, Happens
  <2>2. ~core'.armed /\ ~em'.open
    BY <2>1 DEF FreshCore, Closed
  <2>3. ~conf.late => cache' \in {<<>>, doc'}
    BY <1>9 DEF Deactivate
  <2>. QED  BY <2>1, <2>2, <2>3 DEF SpaceInv
<1>10. CASE Report
  <2>1. UNCHANGED <<conf, core, em, doc>> /\ cache' = doc
    BY <1>10 DEF Report
  <2>. QED  BY <2>1 DEF SpaceInv
<1>11. CASE UNCHANGED vars
  BY <1>11 DEF vars, SpaceInv
<1>. QED  BY <1>2, <1>3, <1>4, <1>5, <1>6, <1>7, <1>8, <1>9, <1>10, <1>11 DEF Next, Press

LEMMA PrefixTwice ==
  ASSUME NEW a, Text(a), NEW b, Text(b), NEW c, Text(c), NEW x
  PROVE  IsPrefix(a, a \o c) /\ IsPrefix(a, (a \o b) \o c) /\ IsPrefix(a, Append(a \o c, x))
         /\ IsPrefix(a, Append((a \o b) \o c, x))
<1>. DEFINE d == b \o c
            S == (Range(a) \cup Range(b)) \cup Range(c)
<1>1. Text(d)
  BY TextConcat
<1>2. a \in Seq(S) /\ b \in Seq(S) /\ c \in Seq(S)
  <2>1. a \in Seq(Range(a)) /\ b \in Seq(Range(b)) /\ c \in Seq(Range(c))
    BY DEF Text
  <2>2. Range(a) \subseteq S /\ Range(b) \subseteq S /\ Range(c) \subseteq S
    OBVIOUS
  <2>. HIDE DEF S
  <2>. QED  BY <2>1, <2>2, SeqMonotonic
<1>. HIDE DEF S
<1>3. (a \o b) \o c = a \o d
  BY <1>2, ConcatAssociative
<1>. HIDE DEF d
<1>. QED  BY <1>1, <1>3, PrefixMore

LEMMA SpaceStep ==
  ASSUME IInv, SpaceInv, [Next]_vars, Pressed(Space), Settled
  PROVE  IsPrefix(doc, doc') \/ (doc # <<>> /\ Last(doc)[1] = Space /\ IsPrefix(Front(doc), doc'))
<1>1. CoreOK(core) /\ WordOK(conf, core.comp) /\ conf \in Configs /\ Text(doc)
  BY DEF IInv
<1>2. EmojiOK(em) /\ key' = Space /\ n' # n
  BY DEF IInv, LookupOK, Pressed
<1>3. ASSUME NEW k \in conf.keys, EmojiKey(k)
      PROVE  IsPrefix(doc, doc')
  <2>. DEFINE q == Chars(IF Picks(em, k) THEN <<Picked(em, k)>> ELSE Literal(em, k))
  <2>1. doc' = doc \o q
    BY <1>3 DEF EmojiKey, Write
  <2>2. Text(<<Picked(em, k)>>) /\ Text(Literal(em, k))
    BY <1>2, EmptyText, TextAppend, LiteralText
  <2>3. Text(q)
    BY <2>2, CharsText
  <2>. HIDE DEF q
  <2>. QED  BY <1>1, <2>1, <2>3, TextConcat
<1>4. ASSUME NEW k \in conf.keys, DoubleSpace(k)
      PROVE  IsPrefix(doc, doc') \/ (doc # <<>> /\ Last(doc)[1] = Space /\ IsPrefix(Front(doc), doc'))
  <2>. DEFINE l == Left(k)
              q == Chars(Literal(em, k))
  <2>1. core.armed /\ EndsWithWordSpace(cache) /\ doc' = Front(l) \o FullStop
    BY <1>4 DEF DoubleSpace, Doubles, Write
  <2>2. Text(FullStop) /\ Text(q)
    <3>1. Text(<<PlainChar(".", FALSE), PlainChar(Space, FALSE)>>)
      <4>. DEFINE f == <<PlainChar(".", FALSE), PlainChar(Space, FALSE)>>
                  F == {PlainChar(".", FALSE), PlainChar(Space, FALSE)}
      <4>1. f \in Seq(F)
        OBVIOUS
      <4>. QED  BY <4>1, TextOf
    <3>. QED  BY <1>2, <3>1, LiteralText DEF FullStop
  <2>3. Len(cache) > 1 /\ Last(cache)[1] = Space
    BY <2>1 DEF EndsWithWordSpace
  <2>4. cache # <<>>
    BY <2>3
  <2>5. doc # <<>> /\ Last(doc)[1] = Space
    BY <2>1, <2>3, <2>4 DEF SpaceInv, Settled
  <2>6. CASE q # <<>> /\ em.open
    <3>1. l = doc \o q
      BY <2>6 DEF Left
    <3>. HIDE DEF l, q
    <3>2. IsPrefix(doc, Front(doc \o q) \o FullStop)
      BY <1>1, <2>2, <2>6, FrontKeeps
    <3>. QED  BY <2>1, <3>1, <3>2
  <2>7. CASE q = <<>> \/ ~em.open
    <3>1. l = doc
      <4>1. doc \in Seq(Range(doc))
        BY <1>1 DEF Text
      <4>2. doc \o <<>> = doc
        BY <4>1, ConcatEmptySeq
      <4>. QED  BY <2>7, <4>2 DEF Left
    <3>2. Text(Front(doc))
      BY <1>1, <2>5, FrontOf
    <3>. HIDE DEF l
    <3>3. IsPrefix(Front(doc), Front(doc) \o FullStop)
      BY <2>2, <3>2, TextConcat
    <3>. QED  BY <2>1, <2>5, <3>1, <3>3
  <2>. QED  BY <2>6, <2>7
<1>5. ASSUME NEW k \in conf.keys, ComposeOrPass(k)
      PROVE  IsPrefix(doc, doc')
  <2>. DEFINE r == ProcessKeyEvent(conf, core, k)
              c == r.commit
              l == Left(k)
              q == Chars(Literal(em, k))
              x == PlainChar(k, FALSE)
  <2>1. key' = k /\ doc' = IF r.handled THEN l \o c ELSE Delivered(l \o c, k)
    BY <1>5 DEF ComposeOrPass, Happens, Write
  <2>2. MethodOK(conf.im) /\ MacrosAreTexts(conf) /\ (CanProcess(conf, k) => k \in Typeable)
    BY <1>1, ConfIs
  <2>3. Text(c) /\ Text(q)
    BY <1>1, <1>2, <2>2, CommitText, LiteralText
  <2>4. l \in {doc, doc \o q}
    BY DEF Left
  <2>5. k \notin {"BackSpace", "Escape", "Paste"}
    BY <1>2, <2>1 DEF Space
  <2>. HIDE DEF r, c, l, q
  <2>6. doc' \in {l \o c, Append(l \o c, x)}
    BY <2>1, <2>5 DEF Delivered
  <2>. HIDE DEF x
  <2>7. /\ IsPrefix(doc, doc \o c) /\ IsPrefix(doc, (doc \o q) \o c)
        /\ IsPrefix(doc, Append(doc \o c, x)) /\ IsPrefix(doc, Append((doc \o q) \o c, x))
    BY <1>1, <2>3, PrefixTwice
  <2>. QED  BY <2>4, <2>6, <2>7
<1>6. ~OpenEmoji /\ ~TurnPage /\ ~Click /\ ~Reset /\ ~Deactivate
  BY <1>2 DEF OpenEmoji, TurnPage, Click, Reset, Deactivate, Happens, Space
<1>7. ~Report /\ ~UNCHANGED vars
  BY <1>2 DEF Report, vars
<1>. QED  BY <1>3, <1>4, <1>5, <1>6, <1>7 DEF Next, Press

\* SpaceKeepsText: where fcitx5 may remember an older text, too, a space takes
\* nothing away but the space that becomes a full stop.
THEOREM SpaceKeeps == Spec => SpaceKeepsText
<1>1. IInv /\ SpaceInv /\ [Next]_vars => SpaceInv'
  BY SpaceInvStep
<1>2. Spec => []SpaceInv
  BY <1>1, SpaceInvInit, Invariant, PTL DEF Spec
<1>3. IInv /\ SpaceInv /\ [Next]_vars =>
        [Pressed(Space) /\ Settled
          => \/ IsPrefix(doc, doc')
             \/ doc # <<>> /\ Last(doc)[1] = Space /\ IsPrefix(Front(doc), doc')]_vars
  BY SpaceStep
<1>. QED  BY <1>2, <1>3, Invariant, PTL DEF Spec, SpaceKeepsText

(***************************************************************************)
(* Capitals.                                                               *)
(***************************************************************************)
\* No key of the list was a capital.
SmallKeys(s) == \A i \in 1 .. Len(s) : s[i].key # NoKey => ~s[i].upper

LEMMA SmallTyped ==
  ASSUME NEW s \in Seq(Transformation)
  PROVE  SmallKeys(s) <=> ~HasCapital(Typed(s))
<1>1. \A k, u : PlainChar(k, u)[3] = u
  BY DEF PlainChar
<1>2. Typed(s) \in Seq(Char)
  BY TypedKeys
<1>3. DOMAIN Typed(s) = 1 .. Len(Typed(s))
  BY <1>2, LenProperties
<1>4. /\ \A i \in 1 .. Len(s) : s[i].key # NoKey =>
              \E j \in 1 .. Len(Typed(s)) : Typed(s)[j] = PlainChar(s[i].key, s[i].upper)
      /\ \A j \in 1 .. Len(Typed(s)) : \E i \in 1 .. Len(s) :
              s[i].key # NoKey /\ Typed(s)[j] = PlainChar(s[i].key, s[i].upper)
  BY TypedHas
<1>5. ASSUME SmallKeys(s), NEW j \in 1 .. Len(Typed(s))
      PROVE  ~Typed(s)[j][3]
  <2>1. PICK i \in 1 .. Len(s) : s[i].key # NoKey /\ Typed(s)[j] = PlainChar(s[i].key, s[i].upper)
    BY <1>4
  <2>2. ~s[i].upper
    BY <1>5, <2>1 DEF SmallKeys
  <2>. QED  BY <1>1, <2>1, <2>2
<1>6. ASSUME ~HasCapital(Typed(s)), NEW i \in 1 .. Len(s), s[i].key # NoKey
      PROVE  ~s[i].upper
  <2>1. PICK j \in 1 .. Len(Typed(s)) : Typed(s)[j] = PlainChar(s[i].key, s[i].upper)
    BY <1>4, <1>6
  <2>2. ~Typed(s)[j][3]
    BY <1>3, <1>6 DEF HasCapital
  <2>. QED  BY <1>1, <2>1, <2>2
<1>. QED  BY <1>3, <1>5, <1>6 DEF SmallKeys, HasCapital

LEMMA SmallConcat ==
  ASSUME NEW s \in Seq(Transformation), NEW t \in Seq(Transformation), SmallKeys(s), SmallKeys(t)
  PROVE  SmallKeys(s \o t)
<1>. DEFINE m == Len(s)
            r == s \o t
<1>1. /\ r \in Seq(Transformation) /\ Len(r) = m + Len(t) /\ m \in Nat /\ Len(t) \in Nat
      /\ \A i \in 1 .. m + Len(t) : r[i] = IF i <= m THEN s[i] ELSE t[i - m]
  BY ConcatProperties, LenProperties
<1>. HIDE DEF r
<1>2. ASSUME NEW i \in 1 .. Len(r), r[i].key # NoKey
      PROVE  ~r[i].upper
  <2>1. CASE i <= m
    BY <1>1, <1>2, <2>1 DEF SmallKeys
  <2>2. CASE i > m
    <3>1. i - m \in 1 .. Len(t) /\ r[i] = t[i - m]
      BY <1>1, <2>2
    <3>. QED  BY <1>2, <3>1 DEF SmallKeys
  <2>. QED  BY <1>1, <2>1, <2>2
<1>. QED  BY <1>2 DEF SmallKeys, r

LEMMA WithoutSmall ==
  ASSUME NEW s \in Seq(Transformation), NEW id, SmallKeys(s), NEW r, r = Without(s, id)
  PROVE  r \in Seq(Transformation) /\ SmallKeys(r)
<1>1. r = Sel(s, Others(id))
  BY FilterOthers
<1>. DEFINE P == Others(id)
<1>. HIDE DEF P
<1>2. r \in Seq(Transformation) /\ \A j \in 1 .. Len(r) : \E i \in 1 .. Len(s) : r[j] = s[i]
  BY <1>1, SelNamed DEF P
<1>. QED  BY <1>2 DEF SmallKeys

LEMMA RemoveSmall ==
  ASSUME NEW im, MethodOK(im), NEW A \in SUBSET Ids, NEW s \in Seq(On(im, A)), SmallKeys(s),
         NEW r, r = RemoveLastChar(im, s, TRUE)
  PROVE  SmallKeys(r)
<1>. DEFINE p == LastAppended(s)
            id == s[p].id
            start == WordStart(s, im.keys)
            b == SubSeq(s, 1, start - 1)
            t == SubSeq(s, start, Len(s))
<1>1. s \in Seq(Transformation)
  BY OnIsTransformation
<1>2. start \in 1 .. Len(s) + 1
  BY WordStartIn
<1>3. b \in Seq(On(im, A)) /\ t \in Seq(On(im, A))
      /\ (\A i \in 1 .. Len(b) : b[i] = s[i]) /\ (\A i \in 1 .. Len(t) : t[i] = s[start - 1 + i])
      /\ Len(b) = start - 1 /\ Len(t) = Len(s) - start + 1
  BY <1>2, Cut
<1>4. Len(s) \in Nat
  BY LenProperties
<1>5. r \in {s, Without(s, id), Refreshed(im, b, Without(t, id))}
  BY DEF RemoveLastChar, RemoveLetter, RestOfWord
<1>. HIDE DEF b, t, id, start
<1>6. SmallKeys(b)
  <2>1. \A i \in 1 .. Len(b) : i \in 1 .. Len(s)
    BY <1>2, <1>3, <1>4
  <2>. QED  BY <1>3, <2>1 DEF SmallKeys
<1>7. SmallKeys(t)
  <2>1. \A i \in 1 .. Len(t) : start - 1 + i \in 1 .. Len(s)
    BY <1>2, <1>3, <1>4
  <2>. QED  BY <1>3, <2>1 DEF SmallKeys
<1>. DEFINE w == Without(t, id)
<1>8. b \in Seq(Transformation) /\ t \in Seq(Transformation)
  BY <1>3, OnIsTransformation
<1>9. w \in Seq(Transformation) /\ SmallKeys(w)
  BY <1>7, <1>8, WithoutSmall
<1>10. w \in Seq(On(im, A))
  <2>. DEFINE S == On(im, A)
              P == Others(id)
  <2>1. t \in Seq(S) /\ w = Sel(t, P)
    BY <1>3, <1>8, FilterOthers
  <2>. HIDE DEF S, P, w
  <2>2. w \in Seq(S)
    BY <2>1, SelNamed
  <2>. QED  BY <2>2 DEF S
<1>. HIDE DEF w
<1>11. SmallKeys(Refreshed(im, b, w))
  <2>. DEFINE c == b \o w
              q == Refreshed(im, b, w)
  <2>1. c \in Seq(On(im, A)) /\ q \in Seq(On(im, A)) /\ Typed(q) = Typed(c)
    BY <1>3, <1>10, RefreshedIs
  <2>2. SmallKeys(c)
    BY <1>6, <1>8, <1>9, SmallConcat
  <2>. HIDE DEF c, q
  <2>3. c \in Seq(Transformation) /\ q \in Seq(Transformation)
    BY <2>1, OnIsTransformation
  <2>4. SmallKeys(q)
    BY <2>1, <2>2, <2>3, SmallTyped
  <2>. QED  BY <2>4 DEF q
<1>12. SmallKeys(Without(s, id))
  BY <1>1, WithoutSmall
<1>. QED  BY <1>5, <1>11, <1>12 DEF w

LEMMA GrowsSmall ==
  ASSUME NEW cfg, MethodOK(cfg.im), NEW comp, WordOK(cfg, comp), NEW k \in WordKeys(cfg), SmallKeys(comp),
         NEW r \in {ProcessEnglish(comp, k, FALSE), ProcessKey(cfg.im, comp, k, FALSE)}
  PROVE  SmallKeys(r)
<1>. DEFINE im == cfg.im
<1>1. Distinct(comp) /\ k \in Symbols /\ k # NoKey /\ comp \in Seq(On(im, Ids)) /\ Ids \in SUBSET Ids
  BY WordKeysAre DEF WordOK
<1>2. \A A \in SUBSET Ids : comp \in Seq(On(im, A)) => Grows(im, A, comp, r, k, FALSE)
  BY <1>1, ProcessEnglishGrows, ProcessKeyGrows
<1>3. Grows(im, Ids, comp, r, k, FALSE)
  BY <1>1, <1>2
<1>4. PICK new, B : /\ Remembers(im, new, k, FALSE) /\ new \in Seq(Transformation)
                    /\ r \in Seq(On(im, B)) /\ Typed(r) = Typed(comp) \o Typed(new)
  BY <1>3, Zenon DEF Grows
<1>5. comp \in Seq(Transformation) /\ r \in Seq(Transformation)
  BY <1>1, <1>4, OnIsTransformation
<1>6. SmallKeys(new)
  <2>1. Typed(new) = <<>> \/ Typed(new) = <<PlainChar(k, FALSE)>>
    BY <1>4 DEF Remembers, Keys
  <2>2. ~HasCapital(Typed(new))
    <3>1. ~PlainChar(k, FALSE)[3]
      BY DEF PlainChar
    <3>2. CASE Typed(new) = <<>>
      BY <3>2 DEF HasCapital
    <3>3. CASE Typed(new) = <<PlainChar(k, FALSE)>>
      <4>. DEFINE x == PlainChar(k, FALSE)
                  w == <<x>>
      <4>1. DOMAIN w = {1} /\ w[1] = x
        OBVIOUS
      <4>. HIDE DEF w
      <4>2. ~HasCapital(w)
        BY <3>1, <4>1 DEF HasCapital
      <4>. QED  BY <3>3, <4>2 DEF w
    <3>. QED  BY <2>1, <3>2, <3>3
  <2>. QED  BY <1>4, <2>2, SmallTyped
<1>7. SmallKeys(comp \o new)
  BY <1>4, <1>5, <1>6, SmallConcat
<1>. DEFINE c == comp \o new
<1>8. c \in Seq(Transformation) /\ Typed(c) = Typed(r)
  BY <1>4, <1>5, TypedConcat
<1>9. SmallKeys(c)
  BY <1>7
<1>. HIDE DEF c
<1>. QED  BY <1>5, <1>8, <1>9, SmallTyped

\* What a key does to the sentence: a committed text is tracked; a text that the
\* key does not end is followed by a blank or nothing; a blank that the engine
\* takes is committed.
Told(cfg, c, k, r) ==
  /\ r.core.sentence = IF r.commit = <<>> THEN c.sentence ELSE TrackSentence(cfg, c.sentence, r.commit)
  /\ r.commit = <<>> \/ r.handled \/ k \in {"Return", "Tab", "Escape"}
  /\ k \in {Space, "Return"} /\ r.commit = <<>> => ~r.handled

LEMMA CommittedTold ==
  ASSUME NEW cfg, NEW c, CoreOK(c), NEW k, NEW h, NEW text,
         text = <<>> \/ h \/ k \in {"Return", "Tab", "Escape"},
         k \in {Space, "Return"} /\ text = <<>> => ~h
  PROVE  Told(cfg, c, k, Committed(cfg, c, h, text)) /\ Committed(cfg, c, h, text).core.comp = <<>>
<1>. DEFINE d == Commit(cfg, c, text)
            r == Committed(cfg, c, h, text)
<1>1. r.core = d /\ r.commit = text /\ r.handled = h
  BY DEF Committed, Result
<1>2. CASE text = <<>>
  <2>1. d = [c EXCEPT !.comp = <<>>]
    BY <1>2 DEF Commit
  <2>2. d.sentence = c.sentence /\ d.comp = <<>>
    BY <2>1 DEF CoreOK
  <2>. HIDE DEF d, r
  <2>. QED  BY <1>1, <1>2, <2>2 DEF Told, r
<1>3. CASE text # <<>>
  <2>1. d.sentence = TrackSentence(cfg, c.sentence, text) /\ d.comp = <<>>
    BY <1>3 DEF Commit
  <2>. HIDE DEF d, r
  <2>. QED  BY <1>1, <1>3, <2>1 DEF Told, r
<1>. QED  BY <1>2, <1>3

LEMMA QuietTold ==
  ASSUME NEW cfg, NEW c, CoreOK(c), NEW k, NEW h, NEW comp, NEW text
  PROVE  /\ Told(cfg, c, k, Ignored(c)) /\ Ignored(c).core.comp = c.comp
         /\ (k \in {Space, "Return"} => ~h) => Told(cfg, c, k, Showing(c, h, comp, text))
         /\ Showing(c, h, comp, text).core.comp = comp
<1>1. Ignored(c).core = c /\ Ignored(c).commit = <<>> /\ Ignored(c).handled = FALSE
  BY DEF Ignored, Result
<1>. DEFINE r == Showing(c, h, comp, text)
            d == [c EXCEPT !.comp = comp]
<1>2. r.core = d /\ r.commit = <<>> /\ r.handled = h
  BY DEF Showing, Result
<1>3. d.sentence = c.sentence /\ d.comp = comp
  BY DEF CoreOK
<1>. HIDE DEF r, d
<1>4. (k \in {Space, "Return"} => ~h) => Told(cfg, c, k, r)
  BY <1>2, <1>3 DEF Told
<1>. QED  BY <1>1, <1>2, <1>3, <1>4 DEF Told, r

LEMMA NotPrintable ==
  ASSUME NEW cfg, NEW comp, NEW k \in Typeable \cup KeyNames, ~IsPrintable(cfg, comp, k), k # "Paste"
  PROVE  k \in {"Return", "Tab", "Escape"}
<1>1. k \notin Punctuation \cup Digits /\ ~CanProcess(cfg, k) /\ k # "BackSpace"
  BY DEF IsPrintable, IsWordBreak
<1>2. k \notin Alpha
  BY <1>1 DEF CanProcess, CanProcessKey, IsAlpha
<1>. QED  BY <1>1, <1>2 DEF Typeable, KeyNames

LEMMA BreaksSome ==
  ASSUME NEW cfg, MethodOK(cfg.im), MacrosAreTexts(cfg), NEW comp, WordOK(cfg, comp), NEW k, NEW upper,
         BreakKey(cfg, comp, k, upper, Preedit(cfg, comp), TRUE).breaks
  PROVE  BreakKey(cfg, comp, k, upper, Preedit(cfg, comp), TRUE).text # <<>>
<1>. DEFINE old == Preedit(cfg, comp)
            typed == <<PlainChar(k, upper)>>
            keys == SinceSpace(RestoreKeys(cfg.im, comp))
            word == IF Foreign(cfg, comp, old) THEN keys ELSE old
            next == BreakText(cfg, comp, k, upper, old, typed)
<1>1. BreakKey(cfg, comp, k, upper, old, TRUE) = next
  BY DEF BreakKey
<1>2. Text(typed) /\ typed # <<>>
  BY EmptyText, TextAppend
<1>3. Text(old)
  BY PreeditText, TextOf
<1>4. Text(keys)
  <2>1. comp \in Seq(On(cfg.im, Ids)) /\ OnlyKeys(comp, WordKeys(cfg))
    BY DEF WordOK
  <2>2. WordKeys(cfg) \in SUBSET (Symbols \ {NoKey})
    BY WordKeysAre
  <2>3. RestoreKeys(cfg.im, comp) \in Seq(On(cfg.im, Ids))
    BY <2>1, <2>2, LastWordText
  <2>. QED  BY <2>3, SpaceText, TextOf
<1>. HIDE DEF old, typed, keys
<1>5. (word \o typed) # <<>>
  <2>1. Text(word)
    BY <1>3, <1>4
  <2>. HIDE DEF word
  <2>. QED  BY <1>2, <2>1, LastBehind
<1>6. HasMacro(cfg, old) => (ExpandMacro(cfg, old) \o typed) # <<>>
  BY <1>2, ExpandMacroText, LastBehind
<1>7. NonVnWord(cfg, comp, old, typed) = word \o typed
  BY DEF NonVnWord, keys
<1>. HIDE DEF word
<1>8. next.text # <<>>
  <2>1. ~HasMacroPrefix(cfg, old \o typed)
    <3>1. SUFFICES ASSUME HasMacroPrefix(cfg, old \o typed)
                   PROVE  FALSE
      OBVIOUS
    <3>2. ~next.breaks
      BY <1>2, <3>1 DEF BreakText, TypedAsIs, Outcome
    <3>. HIDE DEF next
    <3>. QED  BY <1>1, <3>2 DEF old
  <2>2. CASE HasMacro(cfg, old)
    <3>1. next.text = ExpandMacro(cfg, old) \o typed
      BY <2>1, <2>2 DEF BreakText, Outcome
    <3>. HIDE DEF next
    <3>. QED  BY <1>6, <2>2, <3>1
  <2>3. CASE ~HasMacro(cfg, old)
    <3>1. next.text = word \o typed
      BY <1>7, <2>1, <2>3 DEF BreakText, Outcome
    <3>. HIDE DEF next
    <3>. QED  BY <1>5, <3>1
  <2>. QED  BY <2>2, <2>3
<1>. HIDE DEF next
<1>. QED  BY <1>1, <1>8 DEF old

LEMMA OutcomesTold ==
  ASSUME NEW cfg, NEW c, CoreOK(c), NEW k, NEW p, NEW next,
         next.breaks => (p \/ k \in {"Return", "Tab", "Escape"}) /\ (p => next.text # <<>>),
         ~next.breaks /\ k \in {Space, "Return"} => ~p
  PROVE  /\ Told(cfg, c, k, Outcomes(cfg, c, p, next))
         /\ Outcomes(cfg, c, p, next).core.comp = IF next.breaks THEN <<>> ELSE next.comp
<1>1. CASE next.breaks
  <2>1. Outcomes(cfg, c, p, next) = Committed(cfg, c, p, next.text)
    BY <1>1 DEF Outcomes
  <2>2. Told(cfg, c, k, Committed(cfg, c, p, next.text)) /\ Committed(cfg, c, p, next.text).core.comp = <<>>
    BY <1>1, CommittedTold
  <2>. QED  BY <1>1, <2>1, <2>2
<1>2. CASE ~next.breaks
  <2>1. Outcomes(cfg, c, p, next) = Showing(c, p, next.comp, next.text)
    BY <1>2 DEF Outcomes
  <2>2. Told(cfg, c, k, Showing(c, p, next.comp, next.text)) /\ Showing(c, p, next.comp, next.text).core.comp = next.comp
    BY <1>2, QuietTold
  <2>. QED  BY <1>2, <2>1, <2>2
<1>. QED  BY <1>1, <1>2

LEMMA ComposeKeyComp ==
  ASSUME NEW cfg, NEW comp, NEW k, NEW upper, NEW old
  PROVE  ComposeKey(cfg, comp, k, upper, old).comp \in
           {ProcessEnglish(comp, k, upper), ProcessKey(cfg.im, comp, k, upper)}
<1>. DEFINE new == IF ShouldFallback(cfg, comp, FALSE) THEN ProcessEnglish(comp, k, upper)
                   ELSE ProcessKey(cfg.im, comp, k, upper)
            now == Preedit(cfg, new)
<1>1. CASE WSuppressed(cfg, comp, k)
  BY <1>1 DEF ComposeKey, TypedAsIs, Outcome
<1>2. CASE ~WSuppressed(cfg, comp, k)
  <2>1. ComposeKey(cfg, comp, k, upper, old) = ShownText(cfg, new, k, upper, old, now)
    BY <1>2 DEF ComposeKey, Composed
  <2>2. new \in {ProcessEnglish(comp, k, upper), ProcessKey(cfg.im, comp, k, upper)}
    OBVIOUS
  <2>. HIDE DEF new, now
  <2>3. ShownText(cfg, new, k, upper, old, now).comp = new
    BY DEF ShownText, AppendedText, BreaksAfter, Outcome
  <2>. QED  BY <2>1, <2>2, <2>3
<1>. QED  BY <1>1, <1>2

LEMMA ComposeKeySome ==
  ASSUME NEW cfg, MethodOK(cfg.im), NEW comp, WordOK(cfg, comp), NEW k, CanProcess(cfg, k), NEW upper,
         NEW old, old \in Seq(Char), ComposeKey(cfg, comp, k, upper, old).breaks
  PROVE  ComposeKey(cfg, comp, k, upper, old).text # <<>>
<1>. DEFINE new == IF ShouldFallback(cfg, comp, FALSE) THEN ProcessEnglish(comp, k, upper)
                   ELSE ProcessKey(cfg.im, comp, k, upper)
            now == Preedit(cfg, new)
            ch == PlainChar(k, FALSE)
            next == ComposeKey(cfg, comp, k, upper, old)
<1>1. ~WSuppressed(cfg, comp, k)
  BY DEF ComposeKey, TypedAsIs, Outcome
<1>2. next = ShownText(cfg, new, k, upper, old, now)
  BY <1>1 DEF ComposeKey, Composed
<1>. HIDE DEF new, now, ch
<1>3. Append(old, ch) # <<>>
  BY TextOf, TextAppend
<1>4. ShownText(cfg, new, k, upper, old, now).breaks => ShownText(cfg, new, k, upper, old, now).text # <<>>
  BY <1>3 DEF ShownText, AppendedText, BreaksAfter, Outcome, ch
<1>. QED  BY <1>2, <1>4

LEMMA KeyTold ==
  ASSUME NEW cfg, MethodOK(cfg.im), MacrosAreTexts(cfg), \A m \in cfg.macros : m.key \in Seq(Char),
         OneWord(cfg), NEW c, CoreOK(c), WordOK(cfg, c.comp),
         NEW k \in Typeable \cup KeyNames, k # "Paste", NEW u \in BOOLEAN
  PROVE  LET r == ProcessPreedit(cfg, c, k, u)
         IN  Told(cfg, c, k, r) /\ (~u /\ SmallKeys(c.comp) => SmallKeys(r.core.comp))
<1>. DEFINE old == Preedit(cfg, c.comp)
            p == IsPrintable(cfg, c.comp, k)
            active == MacrosOn(cfg) \/ Typed(c.comp) # <<>>
            r == ProcessPreedit(cfg, c, k, u)
            short == RemoveLastChar(cfg.im, c.comp, TRUE)
<1>1. k \in {"BackSpace", "Tab", Space, "Return"} => ~CanProcess(cfg, k)
  BY KeysThatCannot DEF Space
<1>2. "BackSpace" # Space /\ "Tab" # Space
  BY DEF Space
<1>3. SmallKeys(<<>>)
  BY DEF SmallKeys
<1>4. CASE ~CanProcess(cfg, k) /\ ~active
  <2>1. r = Ignored(c)
    BY <1>4 DEF ProcessPreedit, PreeditKey
  <2>. QED  BY <2>1, QuietTold
<1>5. CASE k = "BackSpace" /\ active
  <2>1. r = BackSpaceKey(cfg, c, old)
    BY <1>1, <1>5 DEF ProcessPreedit, PreeditKey
  <2>2. r \in {Committed(cfg, c, TRUE, <<>>), Ignored(c), Showing(c, TRUE, short, Preedit(cfg, short))}
    BY <2>1 DEF BackSpaceKey, ShorterWord
  <2>3. k \notin {Space, "Return"}
    BY <1>2, <1>5
  <2>. DEFINE none == <<>>
              all == Preedit(cfg, short)
  <2>4. Told(cfg, c, k, Committed(cfg, c, TRUE, none)) /\ Committed(cfg, c, TRUE, none).core.comp = <<>>
    <3>1. none = <<>>
      OBVIOUS
    <3>. HIDE DEF none
    <3>2. /\ none = <<>> \/ TRUE \/ k \in {"Return", "Tab", "Escape"}
          /\ k \in {Space, "Return"} /\ none = <<>> => ~TRUE
      BY <2>3
    <3>. QED  BY <3>2, CommittedTold
  <2>. HIDE DEF short
  <2>5. /\ Told(cfg, c, k, Ignored(c)) /\ Ignored(c).core.comp = c.comp
        /\ Told(cfg, c, k, Showing(c, TRUE, short, Preedit(cfg, short)))
        /\ Showing(c, TRUE, short, Preedit(cfg, short)).core.comp = short
    <3>. DEFINE yes == TRUE
    <3>1. k \in {Space, "Return"} => ~yes
      BY <2>3
    <3>. HIDE DEF all, yes
    <3>2. Told(cfg, c, k, Showing(c, yes, short, all)) /\ Showing(c, yes, short, all).core.comp = short
      BY <3>1, QuietTold
    <3>3. Told(cfg, c, k, Ignored(c)) /\ Ignored(c).core.comp = c.comp
      BY QuietTold
    <3>. QED  BY <3>2, <3>3 DEF all, yes
  <2>6. SmallKeys(c.comp) => SmallKeys(short)
    <3>1. c.comp \in Seq(On(cfg.im, Ids)) /\ Ids \in SUBSET Ids
      BY DEF WordOK
    <3>. QED  BY <3>1, RemoveSmall DEF short
  <2>. HIDE DEF r, short
  <2>. QED  BY <1>3, <2>2, <2>4, <2>5, <2>6 DEF r
<1>6. CASE k = "Tab" /\ active
  <2>. DEFINE macro == IsMacro(cfg, c.comp)
              text == IF macro THEN ExpandMacro(cfg, SinceSpace(c.comp)) ELSE ComposedString(cfg, c.comp, old)
  <2>1. r = Committed(cfg, c, macro, text)
    BY <1>1, <1>6 DEF ProcessPreedit, PreeditKey, TabKey
  <2>2. k \notin {Space, "Return"}
    BY <1>2, <1>6
  <2>. HIDE DEF macro, text
  <2>3. Told(cfg, c, k, Committed(cfg, c, macro, text)) /\ Committed(cfg, c, macro, text).core.comp = <<>>
    BY <1>6, <2>2, CommittedTold
  <2>. QED  BY <1>3, <2>1, <2>3
<1>7. CASE CanProcess(cfg, k)
  <2>. DEFINE next == ComposeKey(cfg, c.comp, k, u, old)
  <2>1. r = Outcomes(cfg, c, p, next)
    BY <1>1, <1>7 DEF ProcessPreedit, PreeditKey, CharacterKey
  <2>2. p /\ k \notin {Space, "Return"}
    BY <1>1, <1>7 DEF IsPrintable
  <2>3. next.breaks => next.text # <<>>
    <3>1. old \in Seq(Char)
      BY PreeditIs
    <3>. HIDE DEF old, next
    <3>. QED  BY <1>7, <3>1, ComposeKeySome DEF next
  <2>4. next.comp \in {ProcessEnglish(c.comp, k, u), ProcessKey(cfg.im, c.comp, k, u)}
    BY ComposeKeyComp
  <2>5. ~u /\ SmallKeys(c.comp) => SmallKeys(next.comp)
    <3>1. k \in Typeable
      BY <1>7, KeysThatCannot DEF KeyNames
    <3>2. k \in WordKeys(cfg)
      BY <1>7, <3>1, ProcessableIsWordKey
    <3>. HIDE DEF next
    <3>. QED  BY <2>4, <3>2, GrowsSmall
  <2>. HIDE DEF next, p
  <2>6. Told(cfg, c, k, Outcomes(cfg, c, p, next))
        /\ Outcomes(cfg, c, p, next).core.comp = IF next.breaks THEN <<>> ELSE next.comp
    <3>1. next.breaks => (p \/ k \in {"Return", "Tab", "Escape"}) /\ (p => next.text # <<>>)
      BY <2>2, <2>3
    <3>2. ~next.breaks /\ k \in {Space, "Return"} => ~p
      BY <2>2
    <3>. QED  BY <3>1, <3>2, OutcomesTold
  <2>. QED  BY <1>3, <2>1, <2>5, <2>6
<1>8. CASE active /\ ~CanProcess(cfg, k) /\ k \notin {"BackSpace", "Tab"}
  <2>. DEFINE next == BreakKey(cfg, c.comp, k, u, old, p)
              typed == IF p THEN <<PlainChar(k, u)>> ELSE <<>>
  <2>1. r = Outcomes(cfg, c, p, next)
    BY <1>8 DEF ProcessPreedit, PreeditKey, CharacterKey
  <2>2. p \/ k \in {"Return", "Tab", "Escape"}
    BY NotPrintable
  <2>3. next.breaks => (p => next.text # <<>>)
    <3>1. SUFFICES ASSUME p, next.breaks
                   PROVE  next.text # <<>>
      OBVIOUS
    <3>2. p = TRUE
      BY <3>1 DEF IsPrintable, IsWordBreak, CanProcess, CanProcessKey, IsAlpha, IsMacro, HasMacro
    <3>. HIDE DEF p
    <3>. QED  BY <3>1, <3>2, BreaksSome
  <2>4. ~next.breaks => p /\ typed # <<>> /\ HasMacroPrefix(cfg, old \o typed) /\ next.comp = ProcessEnglish(c.comp, k, u)
    BY DEF BreakKey, BreakText, TypedAsIs, Outcome
  <2>5. p => IsWordBreak(k)
    BY <1>8 DEF IsPrintable
  <2>6. ~next.breaks => k # Space
    <3>1. SUFFICES ASSUME ~next.breaks, k = Space
                   PROVE  FALSE
      OBVIOUS
    <3>2. old \in Seq(Char)
      BY PreeditIs
    <3>3. ~HasMacroPrefix(cfg, old \o <<PlainChar(Space, u)>>)
      BY <3>2, NoMacroSpace
    <3>. HIDE DEF old, next, p
    <3>. QED  BY <2>4, <3>1, <3>3
  <2>7. ~next.breaks => k # "Return"
    BY <2>4, <2>5 DEF IsWordBreak, Punctuation, Digits
  <2>8. ~next.breaks /\ ~u /\ SmallKeys(c.comp) => SmallKeys(next.comp)
    <3>1. SUFFICES ASSUME ~next.breaks, ~u, SmallKeys(c.comp)
                   PROVE  SmallKeys(next.comp)
      OBVIOUS
    <3>2. MacrosOn(cfg)
      BY <2>4, <3>1 DEF HasMacroPrefix, MacrosOn
    <3>3. k \in Typeable
      BY <2>4, <2>5, <3>1 DEF IsWordBreak, Typeable
    <3>4. k \in WordKeys(cfg)
      BY <2>6, <3>1, <3>2, <3>3 DEF WordKeys
    <3>. HIDE DEF next
    <3>5. next.comp \in {ProcessEnglish(c.comp, k, u), ProcessKey(cfg.im, c.comp, k, u)}
      BY <2>4, <3>1
    <3>. QED  BY <3>1, <3>4, <3>5, GrowsSmall
  <2>. HIDE DEF next, p
  <2>9. Told(cfg, c, k, Outcomes(cfg, c, p, next))
        /\ Outcomes(cfg, c, p, next).core.comp = IF next.breaks THEN <<>> ELSE next.comp
    BY <2>2, <2>3, <2>6, <2>7, OutcomesTold
  <2>. QED  BY <1>3, <2>1, <2>8, <2>9
<1>. QED  BY <1>4, <1>5, <1>6, <1>7, <1>8

EndsSentence(text) ==
  \E j \in 1 .. Len(text) : /\ text[j][1] \in SentenceEnd
                            /\ \A m \in j + 1 .. Len(text) : text[m][1] \in Blanks

LEMMA SentenceBehind ==
  ASSUME NEW a, Text(a), NEW b, Text(b)
  PROVE  /\ EndsSentence(b) => EndsSentence(a \o b)
         /\ StartsSentence(b) => StartsSentence(a \o b)
<1>. DEFINE w == a \o b
            n1 == Len(a)
            n2 == Len(b)
<1>1. Len(w) = n1 + n2 /\ n1 \in Nat /\ n2 \in Nat /\ \A j \in 1 .. n2 : w[n1 + j] = b[j]
  BY TextElements
<1>. HIDE DEF w, n1, n2
<1>2. ASSUME NEW j \in 1 .. n2, b[j][1] \in SentenceEnd, \A m \in j + 1 .. n2 : b[m][1] \in Blanks
      PROVE  w[n1 + j][1] \in SentenceEnd /\ \A m \in n1 + j + 1 .. n1 + n2 : w[m][1] \in Blanks
  <2>1. w[n1 + j] = b[j]
    BY <1>1
  <2>2. ASSUME NEW m \in n1 + j + 1 .. n1 + n2
        PROVE  w[m][1] \in Blanks
    <3>1. m - n1 \in j + 1 .. n2 /\ m - n1 \in 1 .. n2 /\ n1 + (m - n1) = m
      BY <1>1
    <3>2. w[m] = b[m - n1]
      BY <1>1, <3>1
    <3>. QED  BY <1>2, <3>1, <3>2
  <2>. QED  BY <1>2, <2>1, <2>2
<1>3. EndsSentence(b) => EndsSentence(w)
  <2>1. SUFFICES ASSUME EndsSentence(b)
                 PROVE  EndsSentence(w)
    OBVIOUS
  <2>2. PICK j \in 1 .. n2 : b[j][1] \in SentenceEnd /\ \A m \in j + 1 .. n2 : b[m][1] \in Blanks
    BY <2>1 DEF EndsSentence, n2
  <2>3. n1 + j \in 1 .. n1 + n2
    BY <1>1
  <2>. QED  BY <1>1, <1>2, <2>2, <2>3 DEF EndsSentence
<1>4. StartsSentence(b) => StartsSentence(w)
  <2>1. SUFFICES ASSUME StartsSentence(b)
                 PROVE  StartsSentence(w)
    OBVIOUS
  <2>2. PICK j \in 1 .. n2 - 1 : b[j][1] \in SentenceEnd /\ \A m \in j + 1 .. n2 : b[m][1] \in Blanks
    BY <2>1 DEF StartsSentence, n2
  <2>3. n1 + j \in 1 .. n1 + n2 - 1 /\ j \in 1 .. n2
    BY <1>1
  <2>. QED  BY <1>1, <1>2, <2>2, <2>3 DEF StartsSentence
<1>. QED  BY <1>3, <1>4 DEF w

LEMMA BlankBehind ==
  ASSUME NEW a, Text(a), NEW x, x[1] \in Blanks
  PROVE  /\ EndsSentence(a) => EndsSentence(Append(a, x)) /\ StartsSentence(Append(a, x))
         /\ StartsSentence(a) => StartsSentence(Append(a, x))
<1>. DEFINE w == Append(a, x)
            n1 == Len(a)
<1>1. n1 \in Nat /\ Len(w) = n1 + 1 /\ w[n1 + 1] = x /\ \A i \in 1 .. n1 : w[i] = a[i]
  <2>1. a \in Seq(Range(a) \cup {x})
    <3>1. a \in Seq(Range(a)) /\ Range(a) \subseteq Range(a) \cup {x}
      BY DEF Text
    <3>. QED  BY <3>1, SeqMonotonic
  <2>. QED  BY <2>1, AppendProperties, LenProperties
<1>. HIDE DEF w, n1
<1>2. ASSUME NEW j \in 1 .. n1, a[j][1] \in SentenceEnd, \A m \in j + 1 .. n1 : a[m][1] \in Blanks
      PROVE  j \in 1 .. n1 + 1 - 1 /\ w[j][1] \in SentenceEnd /\ \A m \in j + 1 .. n1 + 1 : w[m][1] \in Blanks
  <2>1. ASSUME NEW m \in j + 1 .. n1 + 1
        PROVE  w[m][1] \in Blanks
    <3>1. CASE m = n1 + 1
      BY <1>1, <3>1
    <3>2. CASE m # n1 + 1
      <4>1. m \in j + 1 .. n1 /\ m \in 1 .. n1
        BY <1>1, <3>2
      <4>. QED  BY <1>1, <1>2, <4>1
    <3>. QED  BY <3>1, <3>2
  <2>. QED  BY <1>1, <1>2, <2>1
<1>3. ASSUME EndsSentence(a)
      PROVE  EndsSentence(w) /\ StartsSentence(w)
  <2>1. PICK j \in 1 .. n1 : a[j][1] \in SentenceEnd /\ \A m \in j + 1 .. n1 : a[m][1] \in Blanks
    BY <1>3 DEF EndsSentence, n1
  <2>2. j \in 1 .. n1 + 1 - 1 /\ w[j][1] \in SentenceEnd /\ \A m \in j + 1 .. n1 + 1 : w[m][1] \in Blanks
    BY <1>2, <2>1
  <2>3. j \in 1 .. n1 + 1
    BY <1>1
  <2>. QED  BY <1>1, <2>2, <2>3 DEF EndsSentence, StartsSentence
<1>4. StartsSentence(a) => EndsSentence(a)
  <2>1. 1 .. n1 - 1 \subseteq 1 .. n1
    BY <1>1
  <2>. QED  BY <2>1 DEF StartsSentence, EndsSentence, n1
<1>. QED  BY <1>3, <1>4 DEF w

\* Where the sentence stands is where the text does.
Stands(cfg, s, text) ==
  /\ ~cfg.capitalize => s = "idle"
  /\ s = "punct" => EndsSentence(text)
  /\ s = "ready" => StartsSentence(text)

LEMMA Tracked ==
  ASSUME NEW cfg, NEW s, ~cfg.capitalize => s = "idle", NEW text, Text(text)
  PROVE  Stands(cfg, TrackSentence(cfg, s, text), text)
<1>. DEFINE n1 == Len(text)
            I == {i \in 1 .. n1 : text[i][1] # Space}
            m == SelectLastInSeq(text, LAMBDA ch : ch[1] # Space)
            t == TrackSentence(cfg, s, text)
<1>1. n1 \in Nat /\ m = MaxOrZero(I)
  BY LenProperties DEF Text, SelectLastInSeq, MaxOrZero, Max
<1>2. /\ I = {} => m = 0
      /\ I # {} => m \in I
      /\ \A i \in I : i <= m
  <2>1. I \in SUBSET (1 .. n1)
    OBVIOUS
  <2>. HIDE DEF I, m
  <2>. QED  BY <1>1, <2>1, MaxOfPlaces
<1>3. t = IF ~cfg.capitalize THEN s
          ELSE IF m = 0 \/ text[m][1] \notin SentenceEnd THEN "idle"
          ELSE IF m < n1 THEN "ready" ELSE "punct"
  BY DEF TrackSentence
<1>4. CASE ~cfg.capitalize \/ m = 0 \/ text[m][1] \notin SentenceEnd
  <2>. HIDE DEF t, m
  <2>1. t = "idle"
    BY <1>3, <1>4
  <2>. QED  BY <2>1 DEF Stands, t
<1>5. CASE cfg.capitalize /\ m # 0 /\ text[m][1] \in SentenceEnd
  <2>. HIDE DEF t, m
  <2>1. m \in 1 .. n1
    BY <1>2, <1>5
  <2>2. ASSUME NEW i \in m + 1 .. n1
        PROVE  text[i][1] \in Blanks
    <3>1. i \in 1 .. n1 /\ ~(i <= m)
      BY <1>1, <2>1
    <3>2. i \notin I
      BY <1>2, <3>1
    <3>3. text[i][1] = Space
      BY <3>1, <3>2
    <3>. QED  BY <3>3 DEF Blanks
  <2>3. EndsSentence(text)
    BY <1>5, <2>1, <2>2 DEF EndsSentence
  <2>4. m < n1 => StartsSentence(text)
    <3>1. m < n1 => m \in 1 .. n1 - 1
      BY <1>1, <2>1
    <3>. QED  BY <1>5, <2>2, <3>1 DEF StartsSentence
  <2>5. t = IF m < n1 THEN "ready" ELSE "punct"
    BY <1>3, <1>5
  <2>. QED  BY <1>5, <2>3, <2>4, <2>5 DEF Stands, t
<1>. QED  BY <1>4, <1>5

\* What the application gets of a key the engine was asked about.
Arrives(text, k, r) == IF r.handled THEN text \o r.commit ELSE Delivered(text \o r.commit, k)

LEMMA StandsBehind ==
  ASSUME NEW cfg, NEW text, Text(text), NEW s, Stands(cfg, s, text), NEW k, k # "Paste", NEW c, CoreOK(c),
         c.sentence = Sentence(cfg, s, k).next, NEW r, Told(cfg, c, k, r), Text(r.commit)
  PROVE  Stands(cfg, r.core.sentence, Arrives(text, k, r))
<1>. DEFINE w == r.commit
            t == r.core.sentence
            x == PlainChar(k, FALSE)
            gap == k \in {Space, "Return"}
<1>1. x[1] = k /\ {Space, "Return"} \subseteq Blanks /\ {"Return", "Tab"} \subseteq Blanks
  BY DEF PlainChar, Blanks
<1>2. ~cfg.capitalize => s = "idle" /\ c.sentence = "idle"
  BY DEF Stands, Sentence
<1>3. /\ t = IF w = <<>> THEN c.sentence ELSE TrackSentence(cfg, c.sentence, w)
      /\ w = <<>> \/ r.handled \/ k \in {"Return", "Tab", "Escape"}
      /\ gap /\ w = <<>> => ~r.handled
  BY DEF Told
<1>4. Arrives(text, k, r) = IF r.handled THEN text \o w ELSE Delivered(text \o w, k)
  BY DEF Arrives
<1>5. CASE w # <<>>
  <2>. DEFINE all == text \o w
  <2>1. Text(all)
    BY TextConcat
  <2>2. Stands(cfg, t, w)
    BY <1>2, <1>3, <1>5, Tracked
  <2>3. Stands(cfg, t, all)
    BY <2>2, SentenceBehind DEF Stands
  <2>. HIDE DEF all, t, x
  <2>4. Stands(cfg, t, Append(all, x)) \/ x[1] \notin Blanks
    BY <2>1, <2>3, BlankBehind DEF Stands
  <2>5. CASE r.handled
    BY <1>4, <2>3, <2>5 DEF all, t
  <2>6. CASE ~r.handled /\ k = "Escape"
    <3>1. Delivered(all, k) = all
      BY <2>6 DEF Delivered
    <3>. QED  BY <1>4, <2>3, <2>6, <3>1 DEF all, t
  <2>7. CASE ~r.handled /\ k \in {"Return", "Tab"}
    <3>1. Delivered(all, k) = Append(all, x)
      BY <2>7 DEF Delivered, x
    <3>. QED  BY <1>1, <1>4, <2>4, <2>7, <3>1 DEF all, t, x
  <2>. QED  BY <1>3, <1>5, <2>5, <2>6, <2>7
<1>6. CASE w = <<>>
  <2>1. t = c.sentence
    BY <1>3, <1>6
  <2>2. text \o w = text
    BY <1>6, ConcatEmptySeq DEF Text
  <2>3. CASE ~gap \/ s = "idle"
    <3>1. c.sentence = "idle"
      BY <1>2, <2>3 DEF Sentence
    <3>. QED  BY <2>1, <3>1 DEF Stands
  <2>4. CASE gap /\ s # "idle"
    <3>1. ~r.handled
      BY <1>3, <1>6, <2>4
    <3>2. cfg.capitalize /\ c.sentence \in {"ready", "idle"} /\ (s # "punct" => (c.sentence = "ready" => s = "ready"))
      BY <1>2, <2>4 DEF Sentence
    <3>3. c.sentence = "ready" => s \in {"punct", "ready"}
      BY <3>2
    <3>. HIDE DEF x
    <3>4. c.sentence = "ready" => StartsSentence(Append(text, x))
      BY <1>1, <2>4, <3>3, BlankBehind DEF Stands
    <3>5. Delivered(text, k) = Append(text, x)
      <4>1. k \notin {"BackSpace", "Escape", "Paste"}
        BY <2>4 DEF Space
      <4>. QED  BY <4>1 DEF Delivered, x
    <3>6. Arrives(text, k, r) = Append(text, x)
      BY <1>4, <2>2, <3>1, <3>5
    <3>7. Stands(cfg, c.sentence, Append(text, x))
      BY <3>2, <3>4 DEF Stands
    <3>. QED  BY <2>1, <3>6, <3>7
  <2>. QED  BY <2>3, <2>4
<1>. QED  BY <1>5, <1>6

LEMMA KeyStands ==
  ASSUME NEW cfg, MethodOK(cfg.im), MacrosAreTexts(cfg), \A m \in cfg.macros : m.key \in Seq(Char),
         OneWord(cfg), NEW c, CoreOK(c), WordOK(cfg, c.comp), NEW k \in Typeable \cup KeyNames,
         NEW text, Text(text), Stands(cfg, c.sentence, text), NEW r, r = ProcessKeyEvent(cfg, c, k)
  PROVE  /\ Stands(cfg, r.core.sentence, Arrives(text, k, r))
         /\ SmallKeys(c.comp) /\ ~SmallKeys(r.core.comp) => StartsSentence(text)
<1>1. CASE k = "Paste"
  <2>. DEFINE d == [c EXCEPT !.armed = FALSE, !.sentence = "idle"]
  <2>1. CoreOK(d) /\ d.comp = c.comp /\ d.sentence = "idle"
    BY DEF CoreOK
  <2>2. r = Ignored(d)
    BY <1>1 DEF ProcessKeyEvent
  <2>. HIDE DEF d
  <2>3. r.core = d
    BY <2>2 DEF Ignored, Result
  <2>. QED  BY <2>1, <2>3 DEF Stands
<1>2. CASE k # "Paste"
  <2>. DEFINE s == Sentence(cfg, c.sentence, k)
              d == [c EXCEPT !.armed = FALSE, !.sentence = s.next]
              u == s.upper
  <2>1. u \in BOOLEAN /\ s.next \in {"idle", "punct", "ready"}
    BY DEF Sentence, CoreOK
  <2>2. u => c.sentence = "ready"
    BY DEF Sentence
  <2>3. r = ProcessPreedit(cfg, d, k, u)
    BY <1>2 DEF ProcessKeyEvent, AfterSentence
  <2>4. Text(r.commit)
    <3>1. CanProcess(cfg, k) => k \in Typeable
      BY KeysThatCannot DEF KeyNames
    <3>. QED  BY <3>1, CommitText
  <2>5. CoreOK(d) /\ d.comp = c.comp /\ d.sentence = s.next
    BY <2>1 DEF CoreOK
  <2>. HIDE DEF s, u, d
  <2>6. Told(cfg, d, k, r) /\ (~u /\ SmallKeys(d.comp) => SmallKeys(r.core.comp))
    BY <1>2, <2>1, <2>3, <2>5, KeyTold
  <2>7. Stands(cfg, r.core.sentence, Arrives(text, k, r))
    BY <1>2, <2>4, <2>5, <2>6, StandsBehind DEF s
  <2>8. u => StartsSentence(text)
    BY <2>2 DEF Stands
  <2>. QED  BY <2>5, <2>6, <2>7, <2>8
<1>. QED  BY <1>1, <1>2

\* What the engine remembers of the sentence is true of the text: nothing but
\* keys has changed it.
CapitalInv == Unmoved => ~em.open /\ Stands(conf, core.sentence, doc)

LEMMA CapitalInvInit == Init => CapitalInv
<1>. SUFFICES ASSUME Init
              PROVE  CapitalInv
  OBVIOUS
<1>1. core.sentence = "idle" /\ ~em.open
  BY DEF Init, FreshCore, Closed
<1>. QED  BY <1>1 DEF CapitalInv, Stands

LEMMA FullStopStarts ==
  ASSUME NEW a, Text(a)
  PROVE  StartsSentence(a \o FullStop)
<1>. DEFINE x == PlainChar(".", FALSE)
            y == PlainChar(Space, FALSE)
            e == <<x>>
<1>1. x[1] = "." /\ y[1] = Space
  BY DEF PlainChar
<1>2. FullStop = Append(e, y)
  <2>1. \A f, g : <<f, g>> = Append(<<f>>, g)
    OBVIOUS
  <2>2. FullStop = <<x, y>>
    BY DEF FullStop
  <2>. HIDE DEF x, y
  <2>. QED  BY <2>1, <2>2
<1>3. Text(e) /\ Len(e) = 1 /\ e[1] = x
  BY EmptyText, TextAppend
<1>4. Text(FullStop)
  BY <1>2, <1>3, TextAppend
<1>. HIDE DEF e, x, y
<1>5. EndsSentence(e)
  <2>1. 1 \in 1 .. 1 /\ 1 + 1 .. 1 = {}
    OBVIOUS
  <2>2. e[1][1] \in SentenceEnd
    BY <1>1, <1>3 DEF SentenceEnd
  <2>. QED  BY <1>3, <2>1, <2>2 DEF EndsSentence
<1>6. y[1] \in Blanks
  BY <1>1 DEF Blanks
<1>7. StartsSentence(FullStop)
  BY <1>2, <1>3, <1>5, <1>6, BlankBehind
<1>. QED  BY <1>4, <1>7, SentenceBehind

LEMMA CapitalStep ==
  ASSUME IInv, CapitalInv, [Next]_vars
  PROVE  /\ CapitalInv'
         /\ Unmoved /\ SmallKeys(core.comp) /\ ~SmallKeys(core'.comp) => StartsSentence(doc)
<1>. USE DEF CapitalInv
<1>1. CoreOK(core) /\ WordOK(conf, core.comp) /\ conf \in Configs /\ Text(doc)
  BY DEF IInv
<1>. DEFINE Goal == /\ CapitalInv'
                    /\ Unmoved /\ SmallKeys(core.comp) /\ ~SmallKeys(core'.comp) => StartsSentence(doc)
<1>2. conf' = conf => (Unmoved' <=> Unmoved)
  BY DEF Unmoved, OneWordMacros
<1>3. ASSUME conf' = conf, ~Unmoved
      PROVE  Goal
  BY <1>2, <1>3
<1>4. ASSUME conf' = conf, core' = core, doc' = doc, em'.open = em.open
      PROVE  Goal
  <2>1. core'.sentence = core.sentence /\ core'.comp = core.comp
    BY <1>4
  <2>. QED  BY <1>2, <1>4, <2>1 DEF Stands
<1>5. ASSUME NEW k \in conf.keys, EmojiKey(k)
      PROVE  Goal
  <2>1. conf' = conf /\ em.open
    BY <1>5 DEF EmojiKey, Happens
  <2>. QED  BY <1>3, <2>1
<1>6. ASSUME NEW k \in conf.keys, DoubleSpace(k)
      PROVE  Goal
  <2>. DEFINE l == Left(k)
  <2>1. conf' = conf /\ core' = ConsumeDoubleSpace(conf, core) /\ em' = Closed /\ doc' = Front(l) \o FullStop
    BY <1>6 DEF DoubleSpace, Happens, Write
  <2>2. Text(Front(l))
    BY LeftText, TextFront
  <2>. HIDE DEF l
  <2>3. StartsSentence(doc')
    BY <2>1, <2>2, FullStopStarts
  <2>4. ~em'.open
    BY <2>1 DEF Closed
  <2>5. core'.comp = core.comp /\ core'.sentence = IF conf.capitalize THEN "ready" ELSE core.sentence
    BY <1>1, <2>1 DEF CoreOK, ConsumeDoubleSpace
  <2>6. ASSUME Stands(conf, core.sentence, doc)
        PROVE  Stands(conf', core'.sentence, doc')
    BY <2>1, <2>3, <2>5, <2>6 DEF Stands
  <2>. QED  BY <1>2, <2>1, <2>4, <2>5, <2>6
<1>7. ASSUME NEW k \in conf.keys, ComposeOrPass(k)
      PROVE  Goal
  <2>. DEFINE r == ProcessKeyEvent(conf, core, k)
  <2>1. /\ conf' = conf /\ core' = r.core /\ em' = Closed
        /\ doc' = IF r.handled THEN Left(k) \o r.commit ELSE Delivered(Left(k) \o r.commit, k)
    BY <1>7 DEF ComposeOrPass, Happens, Write
  <2>2. ~em'.open
    BY <2>1 DEF Closed
  <2>3. CASE Unmoved
    <3>1. ~em.open /\ Stands(conf, core.sentence, doc) /\ OneWord(conf)
      BY <2>3 DEF Unmoved, OneWordMacros, OneWord
    <3>2. Left(k) = doc
      BY <3>1 DEF Left
    <3>3. MethodOK(conf.im) /\ MacrosAreTexts(conf) /\ (\A m \in conf.macros : m.key \in Seq(Char))
          /\ k \in Typeable \cup KeyNames
      BY <1>1, ConfIs, ConfigsAssumption
    <3>. HIDE DEF r
    <3>4. doc' = Arrives(doc, k, r)
      BY <2>1, <3>2 DEF Arrives
    <3>5. /\ Stands(conf, r.core.sentence, Arrives(doc, k, r))
          /\ SmallKeys(core.comp) /\ ~SmallKeys(r.core.comp) => StartsSentence(doc)
      BY <1>1, <3>1, <3>3, KeyStands DEF r
    <3>6. Stands(conf', core'.sentence, doc')
      BY <2>1, <3>4, <3>5
    <3>. QED  BY <2>1, <2>2, <3>5, <3>6
  <2>. QED  BY <1>3, <2>1, <2>3
<1>8. CASE ":" \in conf.keys /\ OpenEmoji
  <2>1. conf' = conf /\ ~Unmoved
    BY <1>8 DEF OpenEmoji, Happens, Unmoved
  <2>. QED  BY <1>3, <2>1
<1>9. CASE TurnPage
  <2>1. UNCHANGED <<conf, core, doc>> /\ em.open
    BY <1>9 DEF TurnPage, Happens
  <2>2. ~Unmoved
    BY <2>1
  <2>. QED  BY <1>3, <2>1, <2>2
<1>10. CASE Click \/ Reset \/ Deactivate
  <2>1. conf' = conf /\ conf.mouse
    BY <1>10 DEF Click, Reset, Deactivate, Happens
  <2>2. ~Unmoved
    BY <2>1 DEF Unmoved
  <2>. QED  BY <1>3, <2>1, <2>2
<1>11. CASE Report
  <2>1. UNCHANGED <<conf, core, em, doc>>
    BY <1>11 DEF Report
  <2>. QED  BY <1>4, <2>1
<1>12. CASE UNCHANGED vars
  <2>1. UNCHANGED <<conf, core, em, doc>>
    BY <1>12 DEF vars
  <2>. QED  BY <1>4, <2>1
<1>. QED  BY <1>5, <1>6, <1>7, <1>8, <1>9, <1>10, <1>11, <1>12 DEF Next, Press

\* CapitalStartsSentence: whatever is typed, however often a word is taken back
\* or expanded, a capital the user did not type begins a sentence.
THEOREM CapitalIsEarned == Spec => CapitalStartsSentence
<1>1. ASSUME IInv, CapitalInv, [Next]_vars
      PROVE  Unmoved /\ HasCapital(Typed(core'.comp)) /\ ~HasCapital(Typed(core.comp)) => StartsSentence(doc)
  <2>1. IInv'
    BY <1>1, StepInv
  <2>2. core.comp \in Seq(Transformation) /\ core'.comp \in Seq(Transformation)
    BY <1>1, <2>1 DEF IInv, CoreOK
  <2>3. /\ SmallKeys(core.comp) <=> ~HasCapital(Typed(core.comp))
        /\ SmallKeys(core'.comp) <=> ~HasCapital(Typed(core'.comp))
    BY <2>2, SmallTyped
  <2>4. Unmoved /\ SmallKeys(core.comp) /\ ~SmallKeys(core'.comp) => StartsSentence(doc)
    BY <1>1, CapitalStep
  <2>. QED  BY <2>3, <2>4
<1>2. IInv /\ CapitalInv /\ [Next]_vars => CapitalInv'
  BY CapitalStep
<1>3. IInv /\ CapitalInv /\ [Next]_vars
        => [Unmoved /\ HasCapital(Typed(core'.comp)) /\ ~HasCapital(Typed(core.comp))
              => StartsSentence(doc)]_vars
  BY <1>1
<1>. QED  BY <1>2, <1>3, Invariant, CapitalInvInit, PTL DEF Spec, CapitalStartsSentence

-----------------------------------------------------------------------------
(***************************************************************************)
(* The list of the lookup: a search answers with a sequence, so that the   *)
(* pages of the list are what they are taken for.                          *)
(***************************************************************************)
LEMMA ImageFinite ==
  ASSUME NEW S, IsFiniteSet(S), NEW f
  PROVE  IsFiniteSet({f[x] : x \in S})
<1>. DEFINE T == {f[x] : x \in S}
            g == [x \in S |-> f[x]]
<1>1. g \in Surjection(S, T)
  BY DEF Surjection
<1>. HIDE DEF T, g
<1>2. IsFiniteSet(T)
  BY <1>1, FS_Surjection
<1>. QED  BY <1>2 DEF T

OfPairs(T, f, D) == \A w \in T : \E i, j \in D : w = f[<<i, j>>]

LEMMA PairsFinite ==
  ASSUME NEW D, IsFiniteSet(D), NEW f, NEW T, OfPairs(T, f, D)
  PROVE  IsFiniteSet(T)
<1>. DEFINE P == D \X D
            F == {f[p] : p \in P}
<1>1. IsFiniteSet(P)
  BY FS_Product
<1>2. \A i, j \in D : <<i, j>> \in P
  OBVIOUS
<1>. HIDE DEF P
<1>3. T \in SUBSET F
  BY <1>2 DEF OfPairs
<1>4. IsFiniteSet(F)
  BY <1>1, ImageFinite
<1>. HIDE DEF F
<1>. QED  BY <1>3, <1>4, FS_Subset

LEMMA NamesFinite ==
  ASSUME NEW name, IsFiniteSet(DOMAIN name)
  PROVE  IsFiniteSet(WithoutColons(name))
<1>. DEFINE D == DOMAIN name
            f == [p \in D \X D |-> SubSeq(name, p[1], p[2])]
            T == WithoutColons(name)
<1>1. \A i, j \in D : f[<<i, j>>] = SubSeq(name, i, j)
  OBVIOUS
<1>2. \A w \in T : \E i, j \in D : w = SubSeq(name, i, j)
  BY DEF WithoutColons
<1>3. IsFiniteSet(D)
  OBVIOUS
<1>. HIDE DEF D, f, T
<1>4. OfPairs(T, f, D)
  <2>1. SUFFICES ASSUME NEW w \in T
                 PROVE  \E i, j \in D : w = f[<<i, j>>]
    BY DEF OfPairs
  <2>2. PICK i \in D, j \in D : w = SubSeq(name, i, j)
    BY <1>2
  <2>3. w = f[<<i, j>>]
    BY <1>1, <2>2
  <2>. QED  BY <2>3
<1>5. IsFiniteSet(T)
  BY <1>3, <1>4, PairsFinite
<1>. QED  BY <1>5 DEF T

LEMMA IndexFinite == IsFiniteSet(Index)
<1>1. ASSUME NEW e \in EmojiOne
      PROVE  IsFiniteSet(KeysOf(e))
  <2>. DEFINE N == {WithoutColons(name) : name \in e.names}
              f == [name \in e.names |-> WithoutColons(name)]
  <2>1. IsFiniteSet(e.names) /\ IsFiniteSet(e.words) /\ \A name \in e.names : IsFiniteSet(DOMAIN name)
    BY DictionaryAssumption
  <2>2. N = {f[name] : name \in e.names}
    OBVIOUS
  <2>. HIDE DEF f
  <2>3. IsFiniteSet(N)
    BY <2>1, <2>2, ImageFinite, ZenonT(30)
  <2>4. \A T \in N : IsFiniteSet(T)
    BY <2>1, NamesFinite
  <2>5. IsFiniteSet(e.words \ {<<>>})
    <3>1. e.words \ {<<>>} \in SUBSET e.words
      OBVIOUS
    <3>. QED  BY <2>1, <3>1, FS_Subset
  <2>. DEFINE U == UNION N
              W == e.words \ {<<>>}
  <2>6. IsFiniteSet(U)
    <3>. HIDE DEF N
    <3>. QED  BY <2>3, <2>4, FS_UNION
  <2>7. KeysOf(e) = U \cup W
    BY DEF KeysOf
  <2>. HIDE DEF U, W
  <2>8. IsFiniteSet(W)
    BY <2>5 DEF W
  <2>. QED  BY <2>6, <2>7, <2>8, FS_Union
<1>. DEFINE D == {x \in EmojiOne : x.emoji # ""}
            f == [e \in D |-> {[key |-> k, emoji |-> e.emoji] : k \in KeysOf(e)}]
            A == {f[e] : e \in D}
<1>2. Index = UNION A
  BY ZenonT(30) DEF Index
<1>3. ASSUME NEW e \in D
      PROVE  IsFiniteSet(f[e])
  <2>. DEFINE g == [k \in KeysOf(e) |-> [key |-> k, emoji |-> e.emoji]]
  <2>1. f[e] = {g[k] : k \in KeysOf(e)}
    OBVIOUS
  <2>. DEFINE K == KeysOf(e)
  <2>2. IsFiniteSet(K)
    BY <1>1
  <2>. HIDE DEF g, f, K
  <2>3. IsFiniteSet({g[k] : k \in K})
    BY <2>2, ImageFinite
  <2>. QED  BY <2>1, <2>3 DEF K
<1>4. IsFiniteSet(D)
  <2>1. D \in SUBSET EmojiOne
    OBVIOUS
  <2>. HIDE DEF D
  <2>. QED  BY <2>1, FS_Subset, DictionaryAssumption
<1>. HIDE DEF f, D
<1>5. IsFiniteSet(A)
  BY <1>4, ImageFinite
<1>6. \A T \in A : IsFiniteSet(T)
  BY <1>3
<1>. HIDE DEF A
<1>. QED  BY <1>2, <1>5, <1>6, FS_UNION

LEMMA RankedText ==
  ASSUME NEW q
  PROVE  Text(Ranked(q))
<1>. DEFINE F == {e \in Index : Matches(q, e.key)}
            m == Cardinality(F)
            r == Ranked(q)
            R == {r[i] : i \in 1 .. m}
<1>1. m \in Nat
  <2>1. F \in SUBSET Index
    OBVIOUS
  <2>. HIDE DEF F
  <2>. QED  BY <2>1, IndexFinite, FS_Subset, FS_CardinalityType
<1>2. DOMAIN r = 1 .. m /\ r = [i \in 1 .. m |-> r[i]]
  <2>. DEFINE rank(i) == CHOOSE e \in F : Cardinality({x \in F : Before(q, x, e)}) + 1 = i
  <2>1. r = [i \in 1 .. m |-> rank(i)]
    BY DEF Ranked
  <2>. HIDE DEF r, m, rank
  <2>. QED  BY <2>1
<1>. HIDE DEF r, m
<1>3. r \in [1 .. m -> R]
  BY <1>2
<1>. HIDE DEF R
<1>4. r \in Seq(R)
  BY <1>1, <1>3, FunctionIsSeq
<1>5. Text(r)
  BY <1>4, TextOf
<1>. QED  BY <1>5 DEF r

\* The next emoji of the answer.
Answered(found, e) == IF Contains(found, e.emoji) THEN found ELSE Append(found, e.emoji)

LEMMA AnswersStep ==
  ASSUME NEW q
  PROVE  LET r == Ranked(q)
             h == CHOOSE h : h = [I \in SUBSET (DOMAIN r) |->
                                    IF I = {} THEN <<>> ELSE Answered(h[I \ {Max(I)}], r[Max(I)])]
             each == h[DOMAIN r]
         IN  FuzzyQuery(q) = SubSeq(each, 1, IF MaxAnswers < Len(each) THEN MaxAnswers ELSE Len(each))
BY Zenon DEF FuzzyQuery, FoldLeft, MapThenFoldSet, Answered

LEMMA AnswersText ==
  ASSUME NEW q
  PROVE  Text(FuzzyQuery(q))
<1>. DEFINE r == Ranked(q)
            m == Len(r)
            E == {r[i].emoji : i \in 1 .. m}
            X == Seq(E)
            step(h) == [I \in SUBSET (DOMAIN r) |->
                          IF I = {} THEN <<>> ELSE Answered(h[I \ {Max(I)}], r[Max(I)])]
            h == CHOOSE h : h = step(h)
            op == [i \in 1 .. m |-> [x \in X |-> Answered(x, r[i])]]
            each == h[DOMAIN r]
<1>1. FuzzyQuery(q) = SubSeq(each, 1, IF MaxAnswers < Len(each) THEN MaxAnswers ELSE Len(each))
  BY AnswersStep
<1>2. m \in Nat /\ DOMAIN r = 1 .. m
  <2>1. r \in Seq(Range(r))
    BY RankedText DEF Text
  <2>. HIDE DEF r
  <2>. QED  BY <2>1, LenProperties
<1>. HIDE DEF r
<1>3. ASSUME NEW i \in 1 .. m, NEW x \in X
      PROVE  Answered(x, r[i]) \in X
  <2>1. r[i].emoji \in E
    OBVIOUS
  <2>. HIDE DEF E
  <2>2. Append(x, r[i].emoji) \in Seq(E)
    BY <2>1, AppendProperties
  <2>. QED  BY <2>2 DEF Answered
<1>4. \A i \in 1 .. m : \A x \in X : op[i][x] = Answered(x, r[i]) /\ op[i][x] \in X
  BY <1>3
<1>5. <<>> \in X
  <2>. HIDE DEF E
  <2>. QED  OBVIOUS
<1>. HIDE DEF m, X
<1>6. StepsWithin(op, m, X)
  BY <1>4 DEF StepsWithin
<1>. HIDE DEF op
<1>. DEFINE b == <<>>
<1>7. b \in X
  BY <1>5
<1>. HIDE DEF b
<1>8. PICK g \in [SUBSET (1 .. m) -> X] : IsFold(g, m, b, op)
  BY <1>2, <1>7, <1>6, FoldTotal DEF FoldExists
<1>9. g = step(g)
  <2>1. ASSUME NEW I \in SUBSET (1 .. m)
        PROVE  g[I] = step(g)[I]
    <3>1. CASE I = {}
      BY <3>1, <1>2, <1>8 DEF IsFold, b
    <3>2. CASE I # {}
      <4>1. Max(I) \in 1 .. m /\ I \ {Max(I)} \in SUBSET (1 .. m)
        <5>1. Max(I) \in I
          BY <3>2, <1>2, MaxOfPlaces
        <5>. QED  BY <5>1
      <4>2. g[I] = op[Max(I)][g[I \ {Max(I)}]] /\ g[I \ {Max(I)}] \in X
        BY <3>2, <4>1, <1>8 DEF IsFold
      <4>3. g[I] = Answered(g[I \ {Max(I)}], r[Max(I)])
        BY <4>1, <4>2, <1>4
      <4>4. step(g)[I] = Answered(g[I \ {Max(I)}], r[Max(I)])
        BY <3>2, <1>2
      <4>. QED  BY <4>3, <4>4
    <3>. QED  BY <3>1, <3>2
  <2>2. DOMAIN step(g) = SUBSET (1 .. m) /\ step(g) = [I \in SUBSET (1 .. m) |-> step(g)[I]]
    BY <1>2
  <2>3. g = [I \in SUBSET (1 .. m) |-> g[I]]
    OBVIOUS
  <2>. HIDE DEF step
  <2>. QED  BY <2>1, <2>2, <2>3, Zenon
<1>10. h = step(h)
  <2>. HIDE DEF step
  <2>. QED  BY <1>9, Zenon
<1>. HIDE DEF h
<1>11. h[{}] \in X
  <2>1. {} \in SUBSET (DOMAIN r)
    OBVIOUS
  <2>2. step(h)[{}] = b
    BY <2>1 DEF b
  <2>. HIDE DEF step
  <2>. QED  BY <2>2, <1>10, <1>7
<1>12. ASSUME NEW k \in 1 .. m, h[(1 .. k) \ {k}] \in X
       PROVE  h[1 .. k] \in X
  <2>. DEFINE I == 1 .. k
  <2>1. I \in SUBSET (DOMAIN r) /\ I # {} /\ I \in SUBSET (1 .. m)
    <3>1. k \in I /\ I \in SUBSET (1 .. m)
      BY <1>2
    <3>. HIDE DEF I
    <3>. QED  BY <3>1, <1>2
  <2>2. Max(I) = k
    <3>1. Max(I) \in I /\ \A i \in I : i <= Max(I)
      <4>. HIDE DEF I
      <4>. QED  BY <2>1, <1>2, MaxOfPlaces
    <3>. QED  BY <3>1, <1>2
  <2>3. step(h)[I] = Answered(h[I \ {Max(I)}], r[Max(I)])
    <3>. HIDE DEF I
    <3>. QED  BY <2>1
  <2>4. h[I] = Answered(h[I \ {k}], r[k])
    <3>. HIDE DEF step, I
    <3>. QED  BY <2>2, <2>3, <1>10
  <2>. QED  BY <2>4, <1>12, <1>3
<1>13. h[1 .. m] \in X
  BY <1>2, <1>11, <1>12, FoldKeeps
<1>14. Text(each) /\ Len(each) \in Nat
  <2>1. each \in Seq(E)
    BY <1>2, <1>13 DEF X
  <2>. HIDE DEF each, E
  <2>. QED  BY <2>1, TextOf, LenProperties
<1>. HIDE DEF each
<1>15. (IF MaxAnswers < Len(each) THEN MaxAnswers ELSE Len(each)) \in Int
       /\ (IF MaxAnswers < Len(each) THEN MaxAnswers ELSE Len(each)) <= Len(each)
  BY <1>14 DEF MaxAnswers
<1>. QED  BY <1>1, <1>14, <1>15, TextSub

LEMMA ChosenOnce ==
  ASSUME NEW a, Text(a), IsInjective(a), NEW I
  PROVE  IsInjective(Chosen(a, I))
<1>. DEFINE p == Places(Len(a), I)
            c == Chosen(a, I)
            S == {a[i] : i \in DOMAIN a}
<1>1. a \in Seq(S) /\ Len(a) \in Nat /\ DOMAIN a = 1 .. Len(a)
  BY LenProperties DEF Text, Range
<1>. HIDE DEF S
<1>2. /\ Len(p) \in Nat /\ Enumerates(p, Len(a), I)
      /\ \A j \in 1 .. Len(p) : p[j] \in 1 .. Len(a)
      /\ c \in Seq(S) /\ Len(c) = Len(p)
      /\ \A j \in 1 .. Len(p) : c[j] = a[p[j]]
  BY <1>1, ChosenPlaces
<1>. HIDE DEF p, c
<1>3. DOMAIN c = 1 .. Len(p)
  BY <1>2, LenProperties
<1>4. ASSUME NEW x \in 1 .. Len(p), NEW y \in 1 .. Len(p), c[x] = c[y]
      PROVE  x = y
  <2>1. p[x] = p[y]
    BY <1>1, <1>2, <1>4 DEF IsInjective
  <2>2. p[x] \in Nat /\ p[y] \in Nat
    BY <1>2
  <2>3. DOMAIN p = 1 .. Len(p) /\ \A j, l \in DOMAIN p : j < l => p[j] < p[l]
    <3>1. p \in Seq(1 .. Len(a)) /\ \A j, l \in DOMAIN p : j < l => p[j] < p[l]
      BY <1>2 DEF Enumerates
    <3>. QED  BY <3>1, LenProperties
  <2>4. ~(x < y) /\ ~(y < x)
    <3>1. ~(p[x] < p[y]) /\ ~(p[y] < p[x])
      BY <2>1, <2>2
    <3>. QED  BY <2>3, <3>1
  <2>. QED  BY <1>2, <2>4
<1>. QED  BY <1>3, <1>4 DEF IsInjective, c

LEMMA TakeOnce ==
  ASSUME NEW a, Text(a), IsInjective(a), NEW cap \in Nat
  PROVE  IsInjective(Take(a, cap))
<1>. DEFINE m == IF cap < Len(a) THEN cap ELSE Len(a)
            t == SubSeq(a, 1, m)
            S == {a[i] : i \in DOMAIN a}
<1>1. a \in Seq(S) /\ Len(a) \in Nat /\ DOMAIN a = 1 .. Len(a)
  BY LenProperties DEF Text, Range
<1>. HIDE DEF S
<1>2. m \in 0 .. Len(a) /\ 1 \in 1 .. Len(a) + 1
  BY <1>1
<1>3. Take(a, cap) = t
  BY DEF Take
<1>. HIDE DEF m
<1>4. /\ t \in Seq(S) /\ Len(t) = IF 1 <= m THEN m - 1 + 1 ELSE 0
      /\ \A i \in 1 .. m - 1 + 1 : t[i] = a[1 + i - 1]
  BY <1>1, <1>2, SubSeqType
<1>. HIDE DEF t
<1>5. DOMAIN t = 1 .. m
  <2>1. DOMAIN t = 1 .. Len(t) /\ Len(t) = m
    BY <1>1, <1>2, <1>4, LenProperties
  <2>. QED  BY <2>1
<1>6. \A i \in 1 .. m : t[i] = a[i] /\ i \in 1 .. Len(a)
  BY <1>1, <1>2, <1>4
<1>. QED  BY <1>1, <1>3, <1>5, <1>6 DEF IsInjective

LEMMA RecordOnce ==
  ASSUME NEW list, Text(list), IsInjective(list), NEW e
  PROVE  IsInjective(Record(list, e))
<1>. DEFINE I == {i \in DOMAIN list : list[i] # e}
            rest == Chosen(list, I)
            h == <<e>>
            w == h \o rest
            S == {list[i] : i \in DOMAIN list}
<1>1. Record(list, e) = Take(w, RecentCap) /\ RecentCap \in Nat
  BY EmojiAssumption DEF Record, Filtered
<1>2. Text(rest) /\ IsInjective(rest)
  BY ChosenText, ChosenOnce
<1>3. list \in Seq(S) /\ DOMAIN list = 1 .. Len(list)
  BY LenProperties DEF Text, Range
<1>. HIDE DEF S
<1>4. \A j \in 1 .. Len(rest) : rest[j] # e
  <2>. DEFINE p == Places(Len(list), I)
  <2>1. /\ \A j \in 1 .. Len(p) : p[j] \in I
        /\ Len(rest) = Len(p) /\ \A j \in 1 .. Len(p) : rest[j] = list[p[j]]
    <3>. HIDE DEF I
    <3>. QED  BY <1>3, ChosenPlaces
  <2>. HIDE DEF p, rest
  <2>2. \A i \in I : list[i] # e
    OBVIOUS
  <2>. HIDE DEF I
  <2>. QED  BY <2>1, <2>2
<1>. HIDE DEF rest
<1>5. Text(h) /\ Len(h) = 1 /\ h[1] = e
  BY EmptyText, TextAppend
<1>. HIDE DEF h
<1>6. /\ Text(w) /\ Len(w) = 1 + Len(rest) /\ Len(rest) \in Nat
      /\ w[1] = e /\ \A j \in 1 .. Len(rest) : w[1 + j] = rest[j]
  <2>1. /\ Text(w) /\ Len(w) = Len(h) + Len(rest) /\ Len(h) \in Nat /\ Len(rest) \in Nat
        /\ \A i \in 1 .. Len(h) : w[i] = h[i]
        /\ \A j \in 1 .. Len(rest) : w[Len(h) + j] = rest[j]
    <3>1. Text(h) /\ Text(rest)
      BY <1>2, <1>5
    <3>. QED  BY <3>1, TextElements
  <2>. HIDE DEF w
  <2>. QED  BY <1>5, <2>1
<1>. HIDE DEF w
<1>7. DOMAIN w = 1 .. Len(w) /\ DOMAIN rest = 1 .. Len(rest)
  BY <1>2, <1>6, LenProperties DEF Text
<1>8. \A i \in 1 .. Len(w) : i = 1 \/ (i - 1 \in 1 .. Len(rest) /\ w[i] = rest[i - 1])
  BY <1>6
<1>9. ASSUME NEW x \in 1 .. Len(w), NEW y \in 1 .. Len(w), w[x] = w[y]
      PROVE  x = y
  <2>1. CASE x = 1 \/ y = 1
    BY <1>4, <1>6, <1>8, <1>9, <2>1
  <2>2. CASE x # 1 /\ y # 1
    <3>1. rest[x - 1] = rest[y - 1] /\ x - 1 \in DOMAIN rest /\ y - 1 \in DOMAIN rest
      BY <1>7, <1>8, <1>9, <2>2
    <3>2. x - 1 = y - 1
      BY <1>2, <3>1 DEF IsInjective
    <3>. QED  BY <1>6, <3>2
  <2>. QED  BY <2>1, <2>2
<1>10. IsInjective(w)
  BY <1>7, <1>9 DEF IsInjective
<1>. QED  BY <1>1, <1>6, <1>10, TakeOnce

LEMMA UpdateFound ==
  ASSUME NEW query, NEW list, Text(list)
  PROVE  Text(Update(query, list).found)
<1>. DEFINE q == Tail(query)
            hex == IF HexMode(query) /\ Tail(q) \in DOMAIN Hex THEN <<Hex[Tail(q)]>> ELSE <<>>
            found == EmojiQuery(q, list)
<1>1. Update(query, list).found = Take(hex \o found, MaxFound)
  BY DEF Update
<1>2. Text(hex)
  BY EmptyText, TextAppend
<1>3. Text(found)
  BY AnswersText DEF EmojiQuery
<1>. HIDE DEF hex, found
<1>4. Text(hex \o found) /\ MaxFound \in Nat
  BY <1>2, <1>3, TextConcat, EmojiAssumption
<1>. QED  BY <1>1, <1>4, TakeOf

LEMMA NoLabel ==
  ASSUME NEW k, k \notin Digits
  PROVE  LabelOf(k) = 0
<1>. DEFINE I == {i \in 1 .. Len(DigitKeys) : DigitKeys[i] = k}
<1>1. DigitKeys \in Seq(Digits)
  BY DEF DigitKeys, Digits
<1>2. \A i \in 1 .. Len(DigitKeys) : DigitKeys[i] \in Digits
  BY <1>1, LenProperties
<1>3. I = {}
  BY <1>2
<1>. QED  BY <1>3 DEF LabelOf, SelectInSeq

LEMMA PickedOnPage ==
  ASSUME NEW e, Text(e.found), e.page = 0 \/ e.page \in Pages(e), NEW k, Picks(e, k)
  PROVE  \E i \in DOMAIN Page(e) : Page(e)[i] = Picked(e, k)
<1>. DEFINE f == e.found
            m == Len(f)
            S == {f[i] : i \in DOMAIN f}
            from == e.page * PageSize
            next == (e.page + 1) * PageSize
            hi == IF next < m THEN next ELSE m
            p == Page(e)
            label == LabelOf(k)
<1>1. f \in Seq(S) /\ m \in Nat /\ DOMAIN f = 1 .. m
  BY LenProperties DEF Text, Range
<1>. HIDE DEF S
<1>2. PageSize \in Nat /\ PageSize # 0 /\ e.page \in Nat
  BY <1>1, EmojiAssumption DEF Pages
<1>3. from \in Nat /\ next = from + PageSize /\ (e.page = 0 => from = 0)
  BY <1>2
<1>4. from < m \/ (from = 0 /\ m = 0)
  BY <1>1, <1>3 DEF Pages
<1>5. p = SubSeq(f, from + 1, hi)
  BY DEF Page
<1>. HIDE DEF from, next, m, f
<1>6. from + 1 \in 1 .. m + 1 /\ hi \in 0 .. m /\ from <= hi /\ (m # 0 => from < hi)
  BY <1>1, <1>2, <1>3, <1>4
<1>. HIDE DEF hi
<1>7. p \in Seq(S) /\ Len(p) = IF from + 1 <= hi THEN hi - (from + 1) + 1 ELSE 0
  BY <1>1, <1>5, <1>6, SubSeqType DEF m
<1>. HIDE DEF p
<1>8. DOMAIN p = 1 .. Len(p) /\ Len(p) \in Nat
  BY <1>7, LenProperties
<1>9. Picked(e, k) = p[IF label = 0 THEN 1 ELSE label]
  BY DEF Picked, p
<1>10. CASE label \in 1 .. Len(p)
  <2>1. label # 0
    BY <1>8, <1>10
  <2>. HIDE DEF label
  <2>. QED  BY <1>8, <1>9, <1>10, <2>1 DEF p
<1>11. CASE label \notin 1 .. Len(p)
  <2>1. k \in {"Return", " "} /\ f # <<>>
    BY <1>11 DEF Picks, p, f
  <2>2. k \notin Digits
    BY <2>1, Zenon DEF Digits
  <2>4. label = 0
    BY <2>2, NoLabel
  <2>5. m # 0
    BY <1>1, <2>1, EmptySeq DEF m
  <2>3. 1 \in 1 .. Len(p)
    BY <1>1, <1>3, <1>6, <1>7, <2>5
  <2>. HIDE DEF label
  <2>. QED  BY <1>8, <1>9, <2>4, <2>3 DEF p
<1>. QED  BY <1>10, <1>11

\* What is typed into the lookup is on the keyboard, and no emoji.
Typeables(q) == q # <<>> /\ \A i \in 1 .. Len(q) : q[i] \in Typeable

ListOK(e) == Text(e.found) /\ (e.open => Typeables(e.query))

PickInv ==
  /\ ListOK(em)
  /\ IsInjective(conf.recent) => IsInjective(recent)

LEMMA NoEmoji ==
  ASSUME NEW k \in Typeable
  PROVE  ~IsEmoji(PlainChar(k, FALSE))
<1>1. PlainChar(k, FALSE)[1] = k
  BY DEF PlainChar
<1>2. CASE k \in Alpha
  <2>1. Unmarked(k) \in Alpha
    BY <1>2, UnmarkedOf
  <2>. QED  BY <1>1, <2>1 DEF IsEmoji, IsWordChar, IsAlpha
<1>3. CASE k \in Digits \cup Punctuation
  BY <1>1, <1>3 DEF IsEmoji, IsWordChar
<1>. QED  BY <1>2, <1>3 DEF Typeable

LEMMA ListClosed == ListOK(Closed)
<1>1. Closed.found = <<>> /\ ~Closed.open
  BY DEF Closed
<1>. QED  BY <1>1, EmptyText DEF ListOK

LEMMA ListUpdated ==
  ASSUME NEW query, Text(query), Typeables(query), NEW list, Text(list)
  PROVE  ListOK(Update(query, list))
<1>1. Update(query, list).query = query
  BY DEF Update
<1>. QED  BY <1>1, UpdateFound DEF ListOK

LEMMA ListStarted ==
  ASSUME NEW list, Text(list)
  PROVE  ListOK(StartEmoji(list))
<1>. DEFINE x == ":"
            q == <<x>>
<1>1. x \in Typeable
  BY Zenon DEF Typeable, Punctuation
<1>2. StartEmoji(list) = Update(q, list)
  BY DEF StartEmoji
<1>. HIDE DEF x
<1>3. Text(q) /\ Len(q) = 1 /\ q # <<>> /\ q[1] = x
  BY EmptyText, TextAppend
<1>. HIDE DEF q
<1>4. Typeables(q)
  BY <1>1, <1>3 DEF Typeables
<1>. QED  BY <1>2, <1>3, <1>4, ListUpdated

LEMMA ListAfter ==
  ASSUME NEW e, EmojiOK(e), ListOK(e), e.open, NEW k \in Typeable \cup KeyNames, NEW list, Text(list)
  PROVE  ListOK(AfterKey(e, k, list))
<1>. DEFINE q == e.query
            shorter == k = "BackSpace" /\ Len(q) > 1
            longer == EmojiText(k) /\ ~Picks(e, k)
<1>1. shorter => ~longer
  BY DEF EmojiText
<1>2. Text(q) /\ Typeables(q)
  BY DEF EmojiOK, ListOK
<1>3. CASE shorter
  <2>1. AfterKey(e, k, list) = Update(Front(q), list)
    BY <1>1, <1>3 DEF AfterKey
  <2>. DEFINE f == Front(q)
  <2>2. /\ Len(q) \in Nat /\ Text(f) /\ Len(f) = Len(q) - 1
        /\ \A i \in 1 .. Len(q) - 1 : f[i] = q[i]
    BY <1>2, FrontOf DEF Typeables
  <2>3. Len(q) > 1
    BY <1>3
  <2>. HIDE DEF f, q
  <2>4. Typeables(f)
    <3>1. f # <<>>
      BY <2>2, <2>3
    <3>2. \A i \in 1 .. Len(f) : i \in 1 .. Len(q) /\ f[i] = q[i]
      BY <2>2, <2>3
    <3>. QED  BY <1>2, <3>1, <3>2 DEF Typeables
  <2>. QED  BY <2>1, <2>2, <2>4, ListUpdated DEF f
<1>4. CASE longer
  <2>. DEFINE w == Append(q, k)
  <2>1. AfterKey(e, k, list) = Update(w, list)
    BY <1>1, <1>4 DEF AfterKey
  <2>2. k \in Typeable
    BY <1>4, Zenon DEF EmojiText, KeyNames
  <2>3. Text(w) /\ w # <<>>
    BY <1>2, TextAppend
  <2>4. Typeables(w)
    <3>1. q \in Seq(Range(q)) /\ q \in Seq(Typeable)
      <4>1. q \in Seq(Range(q))
        BY <1>2 DEF Text
      <4>2. \A i \in 1 .. Len(q) : q[i] \in Typeable
        BY <1>2 DEF Typeables
      <4>. HIDE DEF q
      <4>3. DOMAIN q = 1 .. Len(q) /\ Len(q) \in Nat
        BY <4>1, LenProperties
      <4>4. q \in [1 .. Len(q) -> Typeable]
        BY <4>1, <4>2, <4>3, SeqOver
      <4>. QED  BY <4>1, <4>3, <4>4, FunctionIsSeq
    <3>2. w \in Seq(Typeable)
      BY <2>2, <3>1, AppendProperties
    <3>. HIDE DEF w
    <3>. QED  BY <2>3, <3>2, LenProperties DEF Typeables
  <2>. QED  BY <2>1, <2>3, <2>4, ListUpdated
<1>5. CASE ~shorter /\ ~longer
  <2>1. AfterKey(e, k, list) = Closed
    BY <1>5 DEF AfterKey
  <2>. QED  BY <2>1, ListClosed
<1>. QED  BY <1>3, <1>4, <1>5

LEMMA QueryBehind ==
  ASSUME NEW a, Text(a), NEW q, Text(q), Typeables(q)
  PROVE  LET w == a \o Chars(q)
         IN  /\ Text(w) /\ Len(w) = Len(a) + Len(q) /\ Len(a) \in Nat /\ Len(q) \in Nat /\ Len(q) >= 1
             /\ w # <<>> /\ ~IsEmoji(Last(w))
<1>. DEFINE c == Chars(q)
            m == Len(q)
            w == a \o c
<1>1. m \in Nat /\ m >= 1 /\ DOMAIN q = 1 .. m /\ q[m] \in Typeable
  <2>1. m \in Nat /\ DOMAIN q = 1 .. m /\ q # <<>>
    BY LenProperties DEF Text, Typeables
  <2>2. m # 0
    BY <2>1, EmptySeq DEF Text
  <2>3. m \in 1 .. m
    BY <2>1, <2>2
  <2>. QED  BY <2>1, <2>2, <2>3 DEF Typeables
<1>2. Text(c)
  BY CharsText
<1>3. DOMAIN c = 1 .. m /\ c[m] = PlainChar(q[m], FALSE)
  BY <1>1 DEF Chars
<1>. HIDE DEF c, m
<1>4. Len(c) = m
  <2>1. Len(c) \in Nat /\ DOMAIN c = 1 .. Len(c)
    BY <1>2, LenProperties DEF Text
  <2>. QED  BY <1>1, <1>3, <2>1
<1>5. c # <<>>
  BY <1>1, <1>4
<1>6. Last(c) = c[m]
  BY <1>2, <1>4, <1>5, FrontOf
<1>7. ~IsEmoji(c[m])
  BY <1>1, <1>3, NoEmoji
<1>8. /\ Text(w) /\ Len(w) = Len(a) + Len(c) /\ Len(a) \in Nat
      /\ w # <<>> /\ Last(w) = Last(c)
  BY <1>2, <1>5, TextElements, LastBehind
<1>. QED  BY <1>1, <1>4, <1>6, <1>7, <1>8 DEF c, m

LEMMA PickInvInit == Init => PickInv
<1>. SUFFICES ASSUME Init
              PROVE  PickInv
  OBVIOUS
<1>1. em = Closed /\ recent = LoadRecent(conf.recent) /\ conf \in Configs
  BY DEF Init
<1>2. Text(conf.recent)
  BY <1>1, ConfIs
<1>3. \E I : LoadRecent(conf.recent) = Take(Chosen(conf.recent, I), RecentCap)
  BY Zenon DEF LoadRecent, Filtered
<1>4. RecentCap \in Nat
  BY EmojiAssumption
<1>5. IsInjective(conf.recent) => IsInjective(LoadRecent(conf.recent))
  BY <1>2, <1>3, <1>4, ChosenText, ChosenOnce, TakeOnce
<1>. QED  BY <1>1, <1>5, ListClosed DEF PickInv

LEMMA PickInvStep ==
  ASSUME IInv, PickInv, [Next]_vars
  PROVE  PickInv'
<1>1. conf \in Configs /\ EmojiOK(em) /\ Text(recent)
  BY DEF IInv, LookupOK
<1>. DEFINE Same == conf' = conf /\ recent' = recent
<1>2. ASSUME Same, em'.found = em.found, em'.query = em.query, em'.open = em.open
      PROVE  PickInv'
  BY <1>2 DEF PickInv, ListOK
<1>3. ASSUME Same, em' = Closed
      PROVE  PickInv'
  BY <1>3, ListClosed DEF PickInv
<1>4. ASSUME NEW k \in conf.keys, EmojiKey(k)
      PROVE  PickInv'
  <2>1. /\ conf' = conf /\ em.open
        /\ em' = IF Picks(em, k) THEN Closed ELSE AfterKey(em, k, recent)
        /\ recent' = IF Picks(em, k) THEN Record(recent, Picked(em, k)) ELSE recent
    BY <1>4 DEF EmojiKey, Happens
  <2>2. k \in Typeable \cup KeyNames
    BY <1>1, ConfigsAssumption
  <2>3. ListOK(em')
    BY <1>1, <2>1, <2>2, ListClosed, ListAfter DEF PickInv
  <2>4. IsInjective(recent) => IsInjective(recent')
    BY <1>1, <2>1, RecordOnce
  <2>. QED  BY <2>1, <2>3, <2>4 DEF PickInv
<1>5. ASSUME NEW k \in conf.keys, DoubleSpace(k) \/ ComposeOrPass(k)
      PROVE  PickInv'
  BY <1>3, <1>5 DEF DoubleSpace, ComposeOrPass, Happens
<1>6. CASE OpenEmoji
  <2>1. Same /\ em' = StartEmoji(recent)
    BY <1>6 DEF OpenEmoji, Happens
  <2>. QED  BY <1>1, <2>1, ListStarted DEF PickInv
<1>7. CASE TurnPage
  <2>1. Same /\ \E p : em' = [em EXCEPT !.page = p]
    BY <1>7 DEF TurnPage, Happens
  <2>2. PICK p : em' = [em EXCEPT !.page = p]
    BY <2>1
  <2>. DEFINE r == [open |-> em.open, query |-> em.query, found |-> em.found, page |-> em.page]
  <2>3. em = r
    BY <1>1 DEF EmojiOK
  <2>4. em' = [r EXCEPT !.page = p]
    BY <2>2, <2>3
  <2>5. em'.found = em.found /\ em'.query = em.query /\ em'.open = em.open
    BY <2>4
  <2>. QED  BY <1>2, <2>1, <2>5
<1>8. CASE Click
  BY <1>2, <1>8 DEF Click, Happens
<1>9. CASE Reset \/ Deactivate
  BY <1>3, <1>9 DEF Reset, Deactivate, Happens
<1>10. CASE Report
  BY <1>2, <1>10 DEF Report
<1>11. CASE UNCHANGED vars
  BY <1>2, <1>11 DEF vars
<1>. QED  BY <1>4, <1>5, <1>6, <1>7, <1>8, <1>9, <1>10, <1>11 DEF Next, Press

LEMMA PickStep ==
  ASSUME IInv, IInv', PickInv, PickInv', [Next]_vars, em.open, doc' # <<>>, Front(doc') = doc, IsEmoji(Last(doc'))
  PROVE  /\ \E i \in DOMAIN Page(em) : Page(em)[i] = Last(doc')[1]
         /\ recent'[1] = Last(doc')[1]
<1>. DEFINE q == em.query
            l == doc \o Chars(q)
<1>1. /\ CoreOK(core) /\ WordOK(conf, core.comp) /\ conf \in Configs
      /\ Text(doc) /\ Text(doc') /\ EmojiOK(em) /\ Text(recent) /\ Text(shown)
  <2>1. shown \in Seq(Char)
    BY DEF IInv, Display
  <2>. QED  BY <2>1, TextOf DEF IInv, LookupOK
<1>2. Text(q) /\ Typeables(q) /\ Text(em.found) /\ (em.page = 0 \/ em.page \in Pages(em))
  BY <1>1 DEF PickInv, ListOK, EmojiOK
<1>3. /\ Text(l) /\ Len(l) = Len(doc) + Len(q) /\ Len(doc) \in Nat /\ Len(q) \in Nat /\ Len(q) >= 1
      /\ l # <<>> /\ ~IsEmoji(Last(l))
  BY <1>1, <1>2, QueryBehind
<1>4. Len(doc') = Len(doc) + 1
  <2>1. Len(doc') \in Nat /\ Len(Front(doc')) = Len(doc') - 1
    BY <1>1, FrontOf
  <2>. QED  BY <1>3, <2>1
<1>5. doc' # doc /\ doc' # l
  <2>1. Len(doc') # Len(doc)
    BY <1>3, <1>4
  <2>2. ~IsEmoji(Last(l)) /\ IsEmoji(Last(doc'))
    BY <1>3
  <2>. QED  BY <2>1, <2>2
<1>6. ASSUME NEW w, Text(w), doc' = l \o w
      PROVE  FALSE
  <2>1. Len(doc') = Len(l) + Len(w) /\ Len(w) \in Nat
    <3>. HIDE DEF l
    <3>. QED  BY <1>3, <1>6, TextElements
  <2>2. Len(w) = 0
    BY <1>3, <1>4, <2>1
  <2>3. w = <<>>
    BY <1>6, <2>2, EmptySeq DEF Text
  <2>4. l \o <<>> = l
    BY <1>3, ConcatEmptySeq DEF Text
  <2>. QED  BY <1>5, <1>6, <2>3, <2>4
<1>7. ASSUME NEW k \in conf.keys, EmojiKey(k)
      PROVE  /\ \E i \in DOMAIN Page(em) : Page(em)[i] = Last(doc')[1]
             /\ recent'[1] = Last(doc')[1]
  <2>. DEFINE x == Picked(em, k)
              one == <<x>>
              c == Chars(one)
  <2>1. doc' = doc \o Chars(IF Picks(em, k) THEN one ELSE Literal(em, k))
        /\ (Picks(em, k) => recent' = Record(recent, x))
    BY <1>7 DEF EmojiKey, Write
  <2>2. CASE ~Picks(em, k)
    <3>1. doc' = doc \o Chars(Literal(em, k))
      BY <2>1, <2>2
    <3>2. Literal(em, k) = q \/ Literal(em, k) = <<>>
      BY DEF Literal
    <3>3. doc \o Chars(<<>>) = doc
      <4>1. Chars(<<>>) = <<>>
        BY DEF Chars
      <4>. QED  BY <1>1, <4>1, ConcatEmptySeq DEF Text
    <3>. QED  BY <1>5, <3>1, <3>2, <3>3
  <2>3. CASE Picks(em, k)
    <3>. HIDE DEF x
    <3>1. Text(one) /\ Len(one) = 1 /\ one[1] = x /\ DOMAIN one = {1}
      BY EmptyText, TextAppend
    <3>. HIDE DEF one
    <3>2. Text(c) /\ DOMAIN c = {1} /\ c[1] = PlainChar(x, FALSE)
      BY <3>1, CharsText DEF Chars
    <3>3. doc' = doc \o c
      BY <2>1, <2>3
    <3>. HIDE DEF c
    <3>4. c # <<>> /\ Len(c) = 1
      <4>1. Len(c) \in Nat /\ DOMAIN c = 1 .. Len(c)
        BY <3>2, LenProperties DEF Text
      <4>2. 1 \in 1 .. Len(c) /\ (2 \in 1 .. Len(c) => 2 \in {1})
        BY <3>2, <4>1
      <4>3. Len(c) = 1
        BY <4>1, <4>2
      <4>. QED  BY <4>3
    <3>5. Last(doc') = c[1]
      <4>1. Last(doc \o c) = Last(c)
        BY <1>1, <3>2, <3>4, LastBehind
      <4>2. Last(c) = c[Len(c)]
        BY <3>2, <3>4, FrontOf
      <4>. QED  BY <3>3, <3>4, <4>1, <4>2
    <3>6. Last(doc')[1] = x
      BY <3>2, <3>5 DEF PlainChar
    <3>7. recent'[1] = x
      BY <1>1, <2>1, <2>3, RecordedOK
    <3>8. \E i \in DOMAIN Page(em) : Page(em)[i] = x
      BY <1>2, <2>3, PickedOnPage DEF x
    <3>. QED  BY <3>6, <3>7, <3>8
  <2>. QED  BY <2>2, <2>3
<1>8. ASSUME NEW k \in conf.keys, DoubleSpace(k)
      PROVE  FALSE
  <2>. DEFINE f == Front(Left(k))
  <2>1. doc' = f \o FullStop
    BY <1>8 DEF DoubleSpace, Write
  <2>2. Text(f)
    BY LeftText, TextFront
  <2>. HIDE DEF f
  <2>3. Text(FullStop) /\ FullStop # <<>> /\ Last(FullStop) = PlainChar(Space, FALSE)
    <3>. DEFINE x == PlainChar(".", FALSE)
                y == PlainChar(Space, FALSE)
    <3>1. FullStop = <<x, y>>
      BY DEF FullStop
    <3>2. \A a, b : Text(<<a, b>>) /\ <<a, b>> # <<>> /\ Last(<<a, b>>) = b
      <4>1. \A a, b : <<a, b>> \in Seq({a, b}) /\ <<a, b>> # <<>> /\ Len(<<a, b>>) = 2 /\ <<a, b>>[2] = b
        OBVIOUS
      <4>. QED  BY <4>1, TextOf DEF Last
    <3>. HIDE DEF x
    <3>. QED  BY <3>1, <3>2
  <2>4. Last(doc') = PlainChar(Space, FALSE)
    BY <2>1, <2>2, <2>3, LastBehind
  <2>5. Space \in Typeable
    BY Zenon DEF Space, Typeable, Punctuation
  <2>. QED  BY <2>4, <2>5, NoEmoji
<1>9. ASSUME NEW k \in conf.keys, ComposeOrPass(k)
      PROVE  FALSE
  <2>. DEFINE r == ProcessKeyEvent(conf, core, k)
              c == r.commit
  <2>1. /\ GoesOn(k)
        /\ doc' = IF r.handled THEN Left(k) \o c ELSE Delivered(Left(k) \o c, k)
    BY <1>9 DEF ComposeOrPass, Write
  <2>2. Leaves(em, k)
    BY <2>1 DEF GoesOn
  <2>3. Left(k) = l
    BY <2>2 DEF Left, Literal
  <2>4. MethodOK(conf.im) /\ MacrosAreTexts(conf) /\ (CanProcess(conf, k) => k \in Typeable)
    BY <1>1, ConfIs
  <2>5. Text(c)
    BY <1>1, <2>4, CommitText
  <2>. HIDE DEF r, l
  <2>6. CASE r.handled
    BY <1>6, <2>1, <2>3, <2>5, <2>6
  <2>7. CASE ~r.handled
    <3>. DEFINE w == l \o c
    <3>1. Text(w) /\ Len(w) = Len(l) + Len(c) /\ Len(c) \in Nat
      BY <1>3, <2>5, TextElements
    <3>2. doc' = Delivered(w, k)
      BY <2>1, <2>3, <2>7
    <3>. HIDE DEF w
    <3>3. k \notin {"BackSpace", "Escape"}
      BY <2>2, Zenon DEF Leaves
    <3>4. \E x : doc' = Append(w, x)
      BY <3>2, <3>3 DEF Delivered
    <3>5. PICK x : doc' = Append(w, x)
      BY <3>4
    <3>6. Len(doc') = Len(w) + 1
      <4>. DEFINE o == <<x>>
      <4>1. Text(o) /\ Len(o) = 1 /\ doc' = w \o o
        BY <3>1, <3>5, EmptyText, TextAppend
      <4>. HIDE DEF o
      <4>2. Len(w \o o) = Len(w) + Len(o)
        BY <3>1, <4>1, TextConcat
      <4>. QED  BY <4>1, <4>2
    <3>7. Len(l) = Len(doc) + Len(q) /\ Len(w) = Len(l) + Len(c)
      BY <1>3, <3>1 DEF l
    <3>8. Len(doc) \in Nat /\ Len(q) \in Nat /\ Len(q) >= 1 /\ Len(c) \in Nat
      BY <1>3, <3>1
    <3>. HIDE DEF q, c
    <3>9. Len(doc') = Len(doc) + Len(q) + Len(c) + 1
      BY <3>6, <3>7, <3>8
    <3>. QED  BY <1>4, <3>8, <3>9
  <2>. QED  BY <2>6, <2>7
<1>10. ~OpenEmoji /\ ~Click
  BY DEF OpenEmoji, Click
<1>11. CASE Deactivate
  <2>1. doc' = l \o shown
    BY <1>11 DEF Deactivate
  <2>. HIDE DEF l
  <2>. QED  BY <1>1, <1>6, <2>1
<1>12. CASE TurnPage \/ Reset \/ Report \/ UNCHANGED vars
  BY <1>5, <1>12 DEF TurnPage, Reset, Report, vars
<1>. QED  BY <1>7, <1>8, <1>9, <1>10, <1>11, <1>12 DEF Next, Press

\* PickIsShown: whatever was typed and whatever the list holds, the emoji that
\* is picked is on the page the user looks at, and becomes the most recent one.
THEOREM PickShown == Spec => PickIsShown
<1>1. IInv /\ PickInv /\ [Next]_vars => PickInv'
  BY PickInvStep
<1>2. ASSUME IInv, PickInv, [Next]_vars, em.open, doc' # <<>>, Front(doc') = doc, IsEmoji(Last(doc'))
      PROVE  /\ \E i \in DOMAIN Page(em) : Page(em)[i] = Last(doc')[1]
             /\ recent'[1] = Last(doc')[1]
             /\ IsInjective(conf.recent) => IsInjective(recent')
  <2>1. IInv' /\ PickInv'
    BY <1>2, StepInv, PickInvStep
  <2>2. conf' = conf
    BY <1>2 DEF Next, Press, EmojiKey, DoubleSpace, ComposeOrPass, OpenEmoji, TurnPage, Click, Reset,
                Deactivate, Report, Happens, vars
  <2>. QED  BY <1>2, <2>1, <2>2, PickStep DEF PickInv
<1>3. IInv /\ PickInv /\ [Next]_vars =>
        [em.open /\ doc' # <<>> /\ Front(doc') = doc /\ IsEmoji(Last(doc'))
           => /\ \E i \in DOMAIN Page(em) : Page(em)[i] = Last(doc')[1]
              /\ recent'[1] = Last(doc')[1]
              /\ IsInjective(conf.recent) => IsInjective(recent')]_vars
  BY <1>2
<1>. QED  BY <1>1, <1>3, Invariant, PickInvInit, PTL DEF Spec, PickIsShown

\* A word of the engine is one the composition's theorems are about.
LEMMA WordIsSound ==
  ASSUME NEW cfg, MethodOK(cfg.im), NEW s, WordOK(cfg, s), ~MacrosOn(cfg)
  PROVE  Sound(cfg.im, s)
<1>. DEFINE im == cfg.im
<1>1. WordKeys(cfg) \subseteq Composable(im)
  BY WordKeysAre
<1>2. /\ s \in Seq(On(im, Ids)) /\ Distinct(s) /\ OnlyKeys(s, WordKeys(cfg))
      /\ s \in Seq(On(im, AppendIds(s)))
  BY DEF WordOK
<1>3. \A i \in 1 .. Len(s) : s[i] \in On(im, Ids) /\ s[i] \in Transformation
  BY <1>2, OnIsTransformation, ElementOfSeq
<1>4. s \in Seq(Transformation)
  BY <1>2, OnIsTransformation
<1>5. \A a : a \in AppendIds(s) <=> \E i \in 1 .. Len(s) : s[i].kind = "append" /\ a = s[i].id
  BY <1>4, AppendIdsOf
<1>6. AppendIds(s) \subseteq Ids
  BY <1>3, <1>5 DEF On
<1>7. OnlyKeys(s, Composable(im))
  BY <1>1, <1>2 DEF OnlyKeys
<1>. QED  BY <1>2, <1>6, <1>7 DEF Sound

\* remove_last_char, in the word that is being composed.
LEMMA ShorterPlaces ==
  ASSUME NEW cfg, MethodOK(cfg.im), cfg.im.free, NEW c, CoreOK(c), WordOK(cfg, c.comp),
         ~MacrosOn(cfg), c.comp # <<>>,
         NEW r, r = BackSpaceKey(cfg, c, Preedit(cfg, c.comp)).core.comp
  PROVE  TonePlaced(cfg.im, LastWord(cfg.im, r))
<1>. DEFINE old == Preedit(cfg, c.comp)
            im == cfg.im
            s == c.comp
            w == RemoveLastChar(im, s, TRUE)
<1>1. WordKeys(cfg) \subseteq Composable(im) /\ OneWord(cfg)
  BY WordKeysAre
<1>2. /\ s \in Seq(On(im, Ids)) /\ Distinct(s) /\ OnlyKeys(s, WordKeys(cfg))
      /\ s \in Seq(On(im, AppendIds(s))) /\ AppendIds(s) # {}
  BY <1>1 DEF WordOK
<1>3. Sound(im, s)
  BY WordIsSound
<1>4. Typed(s) # <<>>
  BY <1>2, TypedSome
<1>5. CASE Len(old) = 1
  <2>1. r = <<>>
    BY <1>5 DEF BackSpaceKey, Committed, Result, Commit, CoreOK
  <2>. DEFINE e == LastWord(im, <<>>)
  <2>2. e = <<>>
    <3>1. <<>> \in Seq(On(im, {})) /\ OnlyKeys(<<>>, Composable(im))
      BY DEF OnlyKeys
    <3>2. {} \in SUBSET Ids
      OBVIOUS
    <3>. QED  BY <3>1, <3>2, WholeWord
  <2>. HIDE DEF e
  <2>3. LastTone(e) = 0
    <3>1. \A A : e \in Seq(On(im, A))
      BY <2>2
    <3>2. LastTone(e) = 0 \/ LastTone(e) \in 1 .. Len(e)
      BY <3>1, LastToneIs
    <3>3. Len(e) = 0
      BY <2>2
    <3>. QED  BY <3>2, <3>3
  <2>4. TonePlaced(im, e)
    BY <2>3 DEF TonePlaced
  <2>. QED  BY <2>1, <2>4 DEF e
<1>6. CASE Len(old) # 1
  <2>1. BackSpaceKey(cfg, c, old) = Showing(c, TRUE, w, Preedit(cfg, w))
    BY <1>4, <1>6 DEF BackSpaceKey, ShorterWord
  <2>. HIDE DEF w, old
  <2>2. r = w
    BY <2>1 DEF Showing, Result, CoreOK, old
  <2>. HIDE DEF im, s
  <2>3. w = RemoveLastChar(im, s, TRUE)
    BY DEF w
  <2>4. LastWord(im, w) = w /\ TonePlaced(im, w)
    BY <1>2, <1>3, <2>3, BackspacePlacesTone DEF im
  <2>. QED  BY <2>2, <2>4 DEF im
<1>. QED  BY <1>5, <1>6

\* What the two theorems below know of a step that is a Backspace in a word.
BackspaceIn(c) ==
  /\ CoreOK(c) /\ c.comp = core.comp
  /\ core' = BackSpaceKey(conf, c, Preedit(conf, c.comp)).core

LEMMA BackspaceStep ==
  ASSUME IInv, [Next]_vars, Pressed("BackSpace"), conf.macros = {}, shown # <<>>
  PROVE  /\ MethodOK(conf.im) /\ WordOK(conf, core.comp) /\ ~MacrosOn(conf) /\ core.comp # <<>>
         /\ conf' = conf
         /\ \E c : BackspaceIn(c)
<1>1. /\ MethodOK(conf.im) /\ CoreOK(core) /\ WordOK(conf, core.comp)
      /\ ~MacrosOn(conf) /\ OneWord(conf)
  BY ConfIs DEF IInv
<1>2. core.comp # <<>> /\ ~em.open
  BY <1>1 DEF IInv, Display, LookupOK
<1>3. ComposeOrPass("BackSpace")
  <2>1. key' = "BackSpace" /\ n' # n
    BY DEF Pressed
  <2>2. \A x : EmojiKey(x) => em.open
    BY DEF EmojiKey
  <2>3. \A x : DoubleSpace(x) => x = Space /\ key' = x
    BY DEF DoubleSpace, Doubles, Happens
  <2>4. \A x : ComposeOrPass(x) => key' = x
    BY DEF ComposeOrPass, Happens
  <2>5. /\ OpenEmoji => key' = ":"
        /\ TurnPage => key' = "page"
        /\ Click => key' = "click"
        /\ Reset => key' = "reset"
        /\ Deactivate => key' = "leave"
    BY DEF OpenEmoji, TurnPage, Click, Reset, Deactivate, Happens
  <2>6. (Report => n' = n) /\ (UNCHANGED vars => n' = n)
    BY DEF Report, vars
  <2>7. "BackSpace" \notin {Space, ":", "page", "click", "reset", "leave"}
    BY DEF Space
  <2>. QED  BY <1>2, <2>1, <2>2, <2>3, <2>4, <2>5, <2>6, <2>7 DEF Next, Press
<1>4. conf' = conf
  BY <1>3 DEF ComposeOrPass, Happens
<1>. DEFINE k == "BackSpace"
            s == Sentence(conf, core.sentence, k)
            c == [core EXCEPT !.armed = FALSE, !.sentence = s.next]
            u == s.upper
<1>5. core' = ProcessPreedit(conf, c, k, u).core
  BY <1>3 DEF ComposeOrPass, ProcessKeyEvent, AfterSentence
<1>6. CoreOK(c) /\ c.comp = core.comp
  BY <1>1 DEF CoreOK, Sentence
<1>7. ~CanProcess(conf, k)
  BY <1>1, KeysThatCannot
<1>8. Typed(core.comp) # <<>>
  <2>1. AppendIds(core.comp) # {} /\ core.comp \in Seq(On(conf.im, Ids))
    BY <1>1, <1>2 DEF WordOK
  <2>. QED  BY <2>1, TypedSome
<1>. HIDE DEF c, u
<1>9. core' = BackSpaceKey(conf, c, Preedit(conf, c.comp)).core
  BY <1>5, <1>6, <1>7, <1>8 DEF ProcessPreedit, PreeditKey
<1>10. BackspaceIn(c)
  BY <1>6, <1>9 DEF BackspaceIn
<1>. QED  BY <1>1, <1>2, <1>4, <1>10

\* A Backspace that takes a letter of a word leaves the tone on the vowel that
\* what is left of the word wants it on (remove_last_char behind
\* preedit_process_key_event).
THEOREM BackspaceLeavesToneInPlace ==
  Spec => [][Pressed("BackSpace") /\ conf.macros = {} /\ shown # <<>> => LastToneInPlace']_vars
<1>1. ASSUME IInv, [Next]_vars, Pressed("BackSpace"), conf.macros = {}, shown # <<>>
      PROVE  LastToneInPlace'
  <2>1. /\ MethodOK(conf.im) /\ WordOK(conf, core.comp) /\ ~MacrosOn(conf) /\ core.comp # <<>>
        /\ conf' = conf
    BY <1>1, BackspaceStep
  <2>2. PICK c : BackspaceIn(c)
    BY <1>1, BackspaceStep
  <2>. DEFINE r == core'.comp
  <2>3. r = BackSpaceKey(conf, c, Preedit(conf, c.comp)).core.comp
    BY <2>2 DEF BackspaceIn
  <2>. HIDE DEF r
  <2>4. conf.im.free => TonePlaced(conf.im, LastWord(conf.im, r))
    BY <2>1, <2>2, <2>3, ShorterPlaces DEF BackspaceIn
  <2>. QED  BY <2>1, <2>4 DEF LastToneInPlace, ToneInPlace, WordNow, TonePlaced, r
<1>2. IInv /\ [Next]_vars
        => [Pressed("BackSpace") /\ conf.macros = {} /\ shown # <<>> => LastToneInPlace']_vars
  BY <1>1
<1>. QED  BY <1>2, Invariant, PTL DEF Spec

\* Texts of one letter or none.
LEMMA OneLetterFront ==
  ASSUME NEW s, NEW e, Flatten(s) \in Seq(Char), Len(Flatten(s)) = 1, Flatten(e) = <<>>
  PROVE  Toneless(e) = Front(Toneless(s))
<1>. DEFINE f == Flatten(s)
<1>1. DOMAIN f = 1 .. 1
  BY LenProperties
<1>2. Toneless(e) = <<>>
  BY DEF Toneless, LettersOf
<1>. HIDE DEF f
<1>3. Toneless(s) = [i \in 1 .. 1 |-> f[i][1]]
  BY <1>1 DEF Toneless, LettersOf, f
<1>4. Toneless(s) = <<f[1][1]>>
  BY <1>3
<1>5. Front(<<f[1][1]>>) = <<>>
  BY DEF Front
<1>. QED  BY <1>2, <1>4, <1>5

\* remove_last_char, what is seen of the word: both ways a Backspace can go.
LEMMA ShorterReads ==
  ASSUME NEW cfg, MethodOK(cfg.im), NEW c, CoreOK(c), WordOK(cfg, c.comp),
         ~MacrosOn(cfg), c.comp # <<>>,
         NEW r, r = BackSpaceKey(cfg, c, Preedit(cfg, c.comp)).core.comp
  PROVE  LettersOf(Vietnamese(cfg, r)) = Front(LettersOf(Vietnamese(cfg, c.comp)))
<1>. DEFINE old == Preedit(cfg, c.comp)
            im == cfg.im
            s == c.comp
            w == RemoveLastChar(im, s, TRUE)
<1>1. OneWord(cfg)
  BY WordKeysAre
<1>2. s \in Seq(On(im, Ids)) /\ AppendIds(s) # {}
  BY <1>1 DEF WordOK
<1>3. Sound(im, s) /\ Vietnamese(cfg, s) = Flatten(s)
  BY WordIsSound, OneWordIs
<1>4. Typed(s) # <<>>
  BY <1>2, TypedSome
<1>5. CASE Len(old) = 1
  <2>1. r = <<>>
    BY <1>5 DEF BackSpaceKey, Committed, Result, Commit, CoreOK
  <2>. HIDE DEF s, old
  <2>2. old = Flatten(s) \/ old = Typed(s)
    BY <1>1, PreeditIs DEF old, s
  <2>3. Len(Flatten(s)) = 1
    BY <1>2, <1>3, <1>5, <2>2, OneKeyOneLetter
  <2>4. Flatten(s) \in Seq(Char)
    BY <1>2, FlattenOf
  <2>5. Vietnamese(cfg, <<>>) = <<>> /\ Flatten(<<>>) = <<>>
    <3>. DEFINE e == <<>>
    <3>1. e \in Seq(On(im, {})) /\ OnlyKeys(e, Composable(im)) /\ {} \in SUBSET Ids
      BY DEF OnlyKeys
    <3>2. LastWord(im, e) = e
      BY <3>1, WholeWord DEF im
    <3>. HIDE DEF e
    <3>4. Flatten(e) = <<>>
      BY EmptyShown DEF e
    <3>5. Vietnamese(cfg, e) = <<>>
      BY <3>2, <3>4 DEF Vietnamese, im
    <3>. QED  BY <3>4, <3>5 DEF e
  <2>. DEFINE e == <<>>
  <2>. HIDE DEF e
  <2>6. Toneless(e) = Front(Toneless(s))
    BY <2>3, <2>4, <2>5, OneLetterFront DEF e
  <2>7. Vietnamese(cfg, r) = Flatten(e)
    BY <2>1, <2>5 DEF e
  <2>. QED  BY <1>3, <2>6, <2>7 DEF Toneless, s
<1>6. CASE Len(old) # 1
  <2>1. BackSpaceKey(cfg, c, old) = Showing(c, TRUE, w, Preedit(cfg, w))
    BY <1>4, <1>6 DEF BackSpaceKey, ShorterWord
  <2>. HIDE DEF w, old
  <2>2. r = w
    BY <2>1 DEF Showing, Result, CoreOK, old
  <2>3. WordOK(cfg, w)
    BY WordShrinks DEF w
  <2>4. Vietnamese(cfg, w) = Flatten(w)
    BY <2>3, OneWordIs
  <2>. HIDE DEF im, s
  <2>5. w = RemoveLastChar(im, s, TRUE)
    BY DEF w
  <2>6. Toneless(w) = Front(Toneless(s))
    BY <1>2, <1>3, <2>5, BackspaceTakesLetter DEF im
  <2>. QED  BY <1>3, <2>2, <2>4, <2>6 DEF Toneless, s
<1>. QED  BY <1>5, <1>6

\* Where words are not restored the panel shows their letters.
LEMMA LettersShown ==
  ASSUME NEW cfg, MethodOK(cfg.im), NEW s, WordOK(cfg, s), ~MacrosOn(cfg), ~cfg.restore,
         NEW text, Display(cfg, s, text)
  PROVE  text = Flatten(s) /\ Vietnamese(cfg, s) = Flatten(s)
         /\ text \in Seq(Char) /\ Len(LettersOf(Vietnamese(cfg, s))) = Len(text)
<1>1. OneWord(cfg)
  BY WordKeysAre
<1>2. text = Flatten(s)
  BY <1>1, PreeditIs DEF Display
<1>3. Vietnamese(cfg, s) = Flatten(s)
  BY OneWordIs
<1>4. text \in Seq(Char)
  BY DEF Display
<1>5. Len(text) \in Nat /\ DOMAIN text = 1 .. Len(text)
  BY <1>4, LenProperties
<1>6. Len(LettersOf(text)) = Len(text)
  BY <1>5 DEF LettersOf
<1>. QED  BY <1>2, <1>3, <1>4, <1>6

\* A word less its last letter is shorter.
LEMMA FrontShorter ==
  ASSUME NEW text, NEW new, text \in Seq(Char), new \in Seq(Char), text # <<>>,
         NEW a, NEW b, Len(a) = Len(text), Len(b) = Len(new), b = Front(a)
  PROVE  Len(new) < Len(text)
<1>1. Len(text) \in Nat /\ Len(text) # 0
  BY EmptySeq, LenProperties
<1>. DEFINE m == Len(a) - 1
<1>2. m \in Nat /\ 1 + m = Len(text) /\ m - 1 + 1 = m
  BY <1>1
<1>3. b = [i \in 1 .. m |-> a[1 + i - 1]]
  BY <1>2 DEF Front, SubSeq
<1>4. Len(b) = m
  BY <1>2, <1>3
<1>. QED  BY <1>2, <1>4

\* Where no macro is on, a Backspace in a word takes its last letter, with the
\* marks on it and none of another letter's, in the order remove_last_char
\* filters and refreshes: only tones may move. What is shown gets shorter where
\* the raw keys are not shown instead of the word.
THEOREM BackspaceTakesOneLetter ==
  Spec => [][Pressed("BackSpace") /\ conf.macros = {} /\ shown # <<>>
               => /\ LettersOf(Vietnamese(conf, core'.comp))
                       = Front(LettersOf(Vietnamese(conf, core.comp)))
                  /\ ~conf.restore => Len(shown') < Len(shown)]_vars
<1>1. ASSUME IInv, [Next]_vars, Pressed("BackSpace"), conf.macros = {}, shown # <<>>
      PROVE  LettersOf(Vietnamese(conf, core'.comp)) = Front(LettersOf(Vietnamese(conf, core.comp)))
  <2>1. MethodOK(conf.im) /\ WordOK(conf, core.comp) /\ ~MacrosOn(conf) /\ core.comp # <<>>
    BY <1>1, BackspaceStep
  <2>2. PICK c : BackspaceIn(c)
    BY <1>1, BackspaceStep
  <2>. DEFINE r == core'.comp
  <2>3. r = BackSpaceKey(conf, c, Preedit(conf, c.comp)).core.comp
    BY <2>2 DEF BackspaceIn
  <2>. HIDE DEF r
  <2>4. LettersOf(Vietnamese(conf, r)) = Front(LettersOf(Vietnamese(conf, c.comp)))
    BY <2>1, <2>2, <2>3, ShorterReads DEF BackspaceIn
  <2>. QED  BY <2>2, <2>4 DEF BackspaceIn, r
<1>2. ASSUME IInv, IInv', [Next]_vars, Pressed("BackSpace"), conf.macros = {}, shown # <<>>,
             ~conf.restore
      PROVE  Len(shown') < Len(shown)
  <2>. DEFINE old == LettersOf(Vietnamese(conf, core.comp))
              s == core'.comp
              new == LettersOf(Vietnamese(conf, s))
              text == shown'
  <2>1. /\ MethodOK(conf.im) /\ ~MacrosOn(conf) /\ conf' = conf /\ WordOK(conf, core.comp)
    BY <1>2, BackspaceStep
  <2>2. Display(conf, core.comp, shown)
    BY <1>2 DEF IInv
  <2>3. WordOK(conf, s) /\ Display(conf, s, text)
    BY <1>2, <2>1 DEF IInv
  <2>4. new = Front(old)
    BY <1>1, <1>2
  <2>. HIDE DEF s, text
  <2>5. shown \in Seq(Char) /\ Len(old) = Len(shown)
    BY <1>2, <2>1, <2>2, LettersShown
  <2>6. text \in Seq(Char) /\ Len(new) = Len(text)
    BY <1>2, <2>1, <2>3, LettersShown
  <2>. HIDE DEF old, new
  <2>7. Len(text) < Len(shown)
    BY <1>2, <2>4, <2>5, <2>6, FrontShorter
  <2>. QED  BY <2>7 DEF text
<1>3. IInv /\ IInv' /\ [Next]_vars
        => [Pressed("BackSpace") /\ conf.macros = {} /\ shown # <<>>
               => /\ LettersOf(Vietnamese(conf, core'.comp))
                       = Front(LettersOf(Vietnamese(conf, core.comp)))
                  /\ ~conf.restore => Len(shown') < Len(shown)]_vars
  BY <1>1, <1>2
<1>. QED  BY <1>3, Invariant, PTL DEF Spec
=============================================================================
