------------------------------- MODULE Letters -------------------------------
(***************************************************************************)
(* The alphabet of the composition (pinakey-core utils.rs, rules.rs).      *)
(*                                                                         *)
(* A letter is written without its tone, a diacritic mark by the sign      *)
(* VIQR gives it: "a^" is the a with a hat, "a(" with a breve, "o+" with a *)
(* horn, "d-" the crossed d. A character is <<letter, tone, upper>>.       *)
(***************************************************************************)
EXTENDS Selection, FiniteSets

\* Tone and Mark, as the numbers Rule.effect stores.
None == 0
Grave == 1
Acute == 2
Hook == 3
Tilde == 4
Dot == 5
Raw == 5

\* MARKS_MAPS: one row for each family, indexed by mark (None, Hat, Breve,
\* Horn, Dash); "_" where the family has no such letter.
MarkRows == { <<"a", "a^", "a(", "_", "_">>, <<"e", "e^", "_", "_", "_">>,
              <<"o", "o^", "_", "o+", "_">>, <<"u", "_", "_", "u+", "_">>,
              <<"d", "_", "_", "_", "d-">> }

RowLetters(row) == {row[i] : i \in 1 .. 5} \ {"_"}
Markable == UNION {RowLetters(row) : row \in MarkRows}
RowOf == [l \in Markable |-> CHOOSE row \in MarkRows : l \in RowLetters(row)]

\* The letters of l's family in the order of the row, and the mark l carries.
FamilyOf(l) == IF l \in Markable THEN SelectSeq(RowOf[l], LAMBDA x : x # "_") ELSE <<>>
MarkOf(l) == (CHOOSE i \in 1 .. 5 : RowOf[l][i] = l) - 1

AddMark(l, mark) ==
  IF l \in Markable /\ mark < 5 /\ RowOf[l][mark + 1] # "_" THEN RowOf[l][mark + 1] ELSE l

Unmarked(l) == AddMark(l, None)

VowelSet == (UNION {RowLetters(row) : row \in {r \in MarkRows : r[1] # "d"}}) \cup {"i", "y"}
IsVowel(l) == l \in VowelSet

Alpha == {"a", "b", "c", "d", "e", "f", "g", "h", "i", "j", "k", "l", "m",
          "n", "o", "p", "q", "r", "s", "t", "u", "v", "w", "x", "y", "z"}
Digits == {"0", "1", "2", "3", "4", "5", "6", "7", "8", "9"}
Punctuation == {" ", ".", ",", ":", ";", "!", "?", "'", "backtick", "~", "[", "]", "{", "}", "^", "+",
                "*", "(", ")", "-", "=", "/", "\\", "@", "#", "$", "%", "&", "<", ">", "|"}
Symbols == Alpha \cup Digits \cup Punctuation \cup Markable \cup {""}
IsAlpha(l) == l \in Alpha
IsWordBreak(l) == l \in Punctuation \cup Digits

IsVietnamese(l, tone) == tone # None \/ l # Unmarked(l)

\* can_process_key: the keys that take part in composing a word.
CanProcessKey(key, keys) ==
  \/ IsAlpha(key)
  \/ key \in keys
  \/ ~IsWordBreak(key) /\ IsVietnamese(key, None)

\* The character a key types, and what the predicates over a text look at.
Char == Symbols \X Nat \X BOOLEAN
PlainChar(key, upper) == <<key, None, upper>>
LettersOf(text) == [i \in DOMAIN text |-> text[i][1]]
HasVietnamese(text) == \E i \in DOMAIN text : IsVietnamese(text[i][1], text[i][2])
HasVowel(text) == \E i \in DOMAIN text : IsVowel(text[i][1])
==============================================================================
