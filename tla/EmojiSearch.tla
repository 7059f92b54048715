---------------------------- MODULE EmojiSearch -----------------------------
(***************************************************************************)
(* Which emoji a query finds (pinakey-emoji fuzzy.rs): those with a name   *)
(* in which the characters of the query stand in order, the best first. A  *)
(* name is a sequence of characters; upper case is left out, the code      *)
(* folds it away.                                                          *)
(***************************************************************************)
EXTENDS Selection, Integers, SequencesExt

CONSTANTS
  EmojiOne,    \* the dictionary: [emoji, names, words] for every emoji
  CodePoint    \* the order of characters and emoji

\* A file of a few thousand lines.
ASSUME DictionaryAssumption ==
  /\ IsFiniteSet(EmojiOne)
  /\ \A e \in EmojiOne : /\ IsFiniteSet(e.names) /\ IsFiniteSet(e.words)
                        /\ \A name \in e.names : IsFiniteSet(DOMAIN name)

MaxAnswers == 60    \* pk_emoji_query

\* fuzzy_score goes through the name once and takes the first character that
\* fits; "found" counts those of the query found so far, and once all are,
\* the rest of the name changes nothing.
WordGap == {"_", "-", " "}
Bonus(s) == (CASE s.last = "" -> 26 [] s.last \in WordGap -> 10 [] OTHER -> 0)
            + (IF s.run THEN 8 ELSE 0)
Scan(query, s, ch) ==
  IF s.found = Len(query) THEN s
  ELSE IF ch # query[s.found + 1] THEN [s EXCEPT !.last = ch, !.run = FALSE]
  ELSE [last |-> ch, run |-> TRUE, found |-> s.found + 1, score |-> s.score + Bonus(s)]
Scanned(query, name) ==
  FoldLeft(LAMBDA s, ch : Scan(query, s, ch),
           [last |-> "", run |-> FALSE, found |-> 0, score |-> 0], name)
Matches(query, name) == query # <<>> /\ Scanned(query, name).found = Len(query)
Score(query, name) == Scanned(query, name).score - Len(name)

\* from_emojione_str: short names without their colons, keywords and ascii as
\* they are; an emoji none of whose code points exists is left out.
WithoutColons(name) ==
  LET letters == {i \in DOMAIN name : name[i] # ":"}
  IN  {SubSeq(name, i, j) : i \in {m \in letters : \A x \in letters : m <= x},
                            j \in {m \in letters : \A x \in letters : x <= m}}
KeysOf(entry) == (UNION {WithoutColons(name) : name \in entry.names}) \cup (entry.words \ {<<>>})
Index == UNION {{[key |-> k, emoji |-> e.emoji] : k \in KeysOf(e)} :
                  e \in {x \in EmojiOne : x.emoji # ""}}

\* The better score first, then the smaller name, then the smaller emoji.
SmallerName(a, b) ==
  \/ IsStrictPrefix(a, b)
  \/ \E i \in DOMAIN a \cap DOMAIN b :
       /\ SubSeq(a, 1, i - 1) = SubSeq(b, 1, i - 1)
       /\ CodePoint[a[i]] < CodePoint[b[i]]
Before(query, a, b) ==
  \/ Score(query, a.key) > Score(query, b.key)
  \/ /\ Score(query, a.key) = Score(query, b.key)
     /\ \/ SmallerName(a.key, b.key)
        \/ a.key = b.key /\ CodePoint[a.emoji] < CodePoint[b.emoji]
Ranked(query) ==
  LET found == {e \in Index : Matches(query, e.key)}
      Rank(e) == Cardinality({x \in found : Before(query, x, e)}) + 1
  IN  [i \in 1 .. Cardinality(found) |-> CHOOSE e \in found : Rank(e) = i]

\* fuzzy_query: each emoji once, where its best name puts it.
FuzzyQuery(query) ==
  LET each == FoldLeft(LAMBDA found, e : IF Contains(found, e.emoji) THEN found
                                         ELSE Append(found, e.emoji), <<>>, Ranked(query))
  IN  SubSeq(each, 1, IF MaxAnswers < Len(each) THEN MaxAnswers ELSE Len(each))
==============================================================================
