------------------------------ MODULE MCTyping ------------------------------
(***************************************************************************)
(* Instances of Typing for TLC. Each configuration comes with the keys the *)
(* user strikes, how many events there are (budget) and what happens       *)
(* besides: the application has surrounding text, reports it late, is      *)
(* clicked into, reset and left.                                           *)
(***************************************************************************)
EXTENDS Typing, CompositionVectors, WordVectors, TLC

Small(letters) == [i \in DOMAIN letters |-> PlainChar(letters[i], FALSE)]

\* The user's files: "vn: v$DATE", and a word that no rule of spelling allows.
MacroFile == << Small(<<"#", "v", ":", "v">>),
                Small(<<"v", "n", ":", " ", "v", "$">>)
                  \o [i \in 1 .. 4 |-> PlainChar(<<"d", "a", "t", "e">>[i], TRUE)] >>
DictFile == << <<>>, <<PlainChar(" ", FALSE), <<"u", Acute, TRUE>>, <<"o", None, FALSE>>>> >>
Clock == DateFormat :> Small(<<"2", "/", "7">>) @@ TimeFormat :> Small(<<"1", ":", "5">>)

Base ==
  [ im |-> InputMethod("Telex", 0, TRUE), restore |-> TRUE, ddFree |-> TRUE,
    dict |-> {}, macros |-> {}, clock |-> Clock, dateFormat |-> "%!", timeFormat |-> TimeFormat, capitalize |-> FALSE, doubleSpace |-> FALSE,
    wShortcut |-> 0, recent |-> <<>>, doc |-> <<>>, budget |-> 5,
    surrounding |-> FALSE, late |-> FALSE, mouse |-> FALSE, keys |-> {} ]

MCConfigs ==
  { \* Telex: a horn on two vowels, a tone on a closed syllable, words taken back.
    [Base EXCEPT !.keys = {"u", "o", "w", "s", "t", "BackSpace"}],
    \* VNI, modern tone position, nothing restored.
    [Base EXCEPT !.im = InputMethod("VNI", 0, FALSE), !.restore = FALSE, !.budget = 6,
                 !.keys = {"o", "a", "n", "1"}],
    \* VIQR: a full stop may be a tone, and a plus a mark.
    [Base EXCEPT !.im = InputMethod("VIQR", 0, TRUE), !.budget = 6,
                 !.keys = {"u", "o", "+", ".", "BackSpace"}],
    \* Simple Telex: no free marking; words restored at a space.
    [Base EXCEPT !.im = InputMethod("Telex simple", 0, FALSE), !.budget = 6,
                 !.keys = {"o", "a", "s", " "}],
    \* A word only the dictionary knows.
    [Base EXCEPT !.dict = LoadDictionary(TRUE, <<>>, DictFile),
                 !.keys = {"u", "o", "s", "Return"}],
    \* Telex 2: keys that append a letter, the w at the start of a word, a free dd.
    [Base EXCEPT !.im = InputMethod("Telex 2", 1, TRUE), !.wShortcut = 1, !.budget = 6,
                 !.keys = {"d", "w", "[", "."}],
    \* Capitals after a sentence, full stop for two spaces.
    [Base EXCEPT !.capitalize = TRUE, !.doubleSpace = TRUE, !.surrounding = TRUE,
                 !.late = TRUE, !.keys = {"a", ".", " ", "BackSpace", "Paste"}],
    [Base EXCEPT !.doubleSpace = TRUE, !.surrounding = TRUE, !.mouse = TRUE,
                 !.keys = {"a", " ", "Return"}],
    \* A macro.
    [Base EXCEPT !.macros = BuildMacroTable(TRUE, TRUE, MacroFile),
                 !.keys = {"v", "n", " ", "Tab", "BackSpace"}],
    \* The emoji lookup, by name and by code point, with two spaces around it.
    [Base EXCEPT !.recent = <<"E1", "", "E2", "E3">>, !.doubleSpace = TRUE, !.surrounding = TRUE,
                 !.budget = 4, !.mouse = TRUE,
                 !.keys = {"a", "1", "2", " ", "Escape", "BackSpace", "u", ":"}] }

\* A word, a space and ":" with the option of the double space on.
ColonConfigs ==
  {[Base EXCEPT !.doubleSpace = TRUE, !.surrounding = TRUE, !.keys = {"a", "1", " ", ":"}]}

\* Names that a query finds at their start, at a word's start and inside.
MCEmojiOne ==
  { [emoji |-> "E1", names |-> {<<":", "a", "_", "u", ":">>}, words |-> {<<"a">>}],
    [emoji |-> "E2", names |-> {<<":", "b", "_", "a", ":">>}, words |-> {}],
    [emoji |-> "E3", names |-> {<<"b", "u", "a", "a">>}, words |-> {<<"u">>, <<>>}],
    [emoji |-> "", names |-> {<<":", "a", ":">>}, words |-> {}] }
MCCodePoint == "_" :> 0 @@ "a" :> 1 @@ "b" :> 2 @@ "u" :> 3 @@ "E1" :> 4 @@ "E2" :> 5 @@ "E3" :> 6
MCHex == <<"1">> :> "E4" @@ <<"1", "a">> :> "E5"
=============================================================================
