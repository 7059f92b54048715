----------------------------- MODULE WordFiles ------------------------------
(***************************************************************************)
(* The two files of the user's own words: the macros (pinakey-emoji        *)
(* mactab.rs) and the dictionary (pinakey-core dict.rs). A file is a       *)
(* sequence of lines, a line a text; EngineCore uses what they come to.    *)
(***************************************************************************)
EXTENDS Letters, Naturals, SequencesExt

LowerCase(text) == [i \in DOMAIN text |-> <<text[i][1], text[i][2], FALSE>>]
UpperCase(text) == [i \in DOMAIN text |-> <<text[i][1], text[i][2], TRUE>>]

Trimmed(line) ==
  LET Solid(ch) == ch[1] # " "
  IN  IF SelectInSeq(line, Solid) = 0 THEN <<>>
      ELSE SubSeq(line, SelectInSeq(line, Solid), SelectLastInSeq(line, Solid))
Lines(file, comment) ==
  SelectSeq([i \in DOMAIN file |-> Trimmed(file[i])],
            LAMBDA l : l # <<>> /\ l[1][1] \notin comment)

(***************************************************************************)
(* Macros: key, colon, text. The key ends at the first colon, and of two   *)
(* lines with one key the later one holds.                                 *)
(***************************************************************************)
MacroOf(line, fold) ==
  LET n == SelectInSeq(line, LAMBDA ch : ch[1] = ":")
      key == Trimmed(SubSeq(line, 1, n - 1))
  IN  IF n = 0 THEN {}
      ELSE {[key |-> IF fold THEN LowerCase(key) ELSE key,
             text |-> Trimmed(SubSeq(line, n + 1, Len(line)))]}
MacroTable(file, fold) ==
  FoldLeft(LAMBDA table, line :
             LET new == MacroOf(line, fold)
             IN  {m \in table : \A x \in new : x.key # m.key} \cup new,
           {}, Lines(file, {";", "#"}))

\* build_macro_table: no file is no macros.
BuildMacroTable(enabled, fold, file) == IF enabled THEN MacroTable(file, fold) ELSE {}

\* $DATE and $TIME in a macro's text, at the moment it is expanded; $$ is a
\* dollar. "clock" is the moment: how it reads in every format that is one.
DateFormat == "%d/%m/%Y"
TimeFormat == "%H:%M"
Formatted(clock, format, fallback) ==
  clock[IF format \in DOMAIN clock THEN format ELSE fallback]
Says(text, i, letters) ==
  /\ i + Len(letters) - 1 <= Len(text)
  /\ \A j \in DOMAIN letters : text[i + j - 1] = PlainChar(letters[j], TRUE)
TwoDollars(text, i) == text[i][1] = "$" /\ i < Len(text) /\ text[i + 1][1] = "$"
Date(text, i) == text[i][1] = "$" /\ Says(text, i + 1, <<"d", "a", "t", "e">>)
Time(text, i) == text[i][1] = "$" /\ Says(text, i + 1, <<"t", "i", "m", "e">>)
Expansion(text, i, clock, dateFormat, timeFormat) ==
  IF Date(text, i) THEN Formatted(clock, dateFormat, DateFormat)
  ELSE IF Time(text, i) THEN Formatted(clock, timeFormat, TimeFormat)
  ELSE <<text[i]>>
Rest(text, i) ==
  IF TwoDollars(text, i) THEN i + 2 ELSE IF Date(text, i) \/ Time(text, i) THEN i + 5 ELSE i + 1
ExpandPlaceholders(text, clock, dateFormat, timeFormat) ==
  LET Expanded[i \in 1 .. Len(text) + 1] ==
        IF i > Len(text) THEN <<>>
        ELSE Expansion(text, i, clock, dateFormat, timeFormat) \o Expanded[Rest(text, i)]
  IN  Expanded[1]

(***************************************************************************)
(* The dictionary: one word to a line, in whatever case.                   *)
(***************************************************************************)
Words(file) == {LowerCase(line) : line \in ToSet(Lines(file, {"#"}))}
LoadDictionary(checked, bundled, file) ==
  IF checked THEN Words(bundled) \cup Words(file) ELSE {}
==============================================================================
