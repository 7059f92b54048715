----------------------------- MODULE EngineCore ------------------------------
(***************************************************************************)
(* What EngineCore makes of one key (pinakey-engine engine.rs): which keys *)
(* go into the composition, what is shown of it, what is committed at a    *)
(* word break and in which form, the capital at the start of a sentence    *)
(* and the window in which a second space becomes a full stop.             *)
(*                                                                         *)
(* cfg is the configuration: the input method (im) and the options         *)
(*   restore     IB_AUTO_NON_VN_RESTORE   capitalize  IB_CAPITALIZE_SENTENCE *)
(*   ddFree      IB_DD_FREE_STYLE         doubleSpace IB_DOUBLE_SPACE_PERIOD *)
(*   wShortcut   w_shortcut               dict, macros the words loaded      *)
(*   dateFormat, timeFormat               clock  what time it is             *)
(* A macro is [key, text]; {} stands for IB_MACRO_ENABLED off. The output  *)
(* charset is Unicode, whose encoding is the text itself.                  *)
(***************************************************************************)
EXTENDS Composition, WordFiles

Space == " "
FreshCore == [comp |-> <<>>, sentence |-> "idle", armed |-> FALSE]

(***************************************************************************)
(* Reading the composition.                                                *)
(***************************************************************************)
Vietnamese(cfg, comp) == Flatten(LastWord(cfg.im, comp))
English(cfg, comp) == Typed(LastWord(cfg.im, comp))

\* mode::PUNCTUATION: everything since the last space.
SinceSpace(comp) ==
  Flatten(SubSeq(comp, 1 + SelectLastInSeq(comp, LAMBDA t : t.key = Space), Len(comp)))

IsLower(ch) == ~ch[3] /\ (ch[2] # None \/ IsAlpha(Unmarked(ch[1])))

\* macro_table, with IB_AUTO_CAPITALIZE_MACRO: keys are compared in lower case
\* and the text takes the case of what was typed.
MacrosOn(cfg) == cfg.macros # {}
HasMacro(cfg, text) == \E m \in cfg.macros : m.key = LowerCase(text) /\ m.text # <<>>
HasMacroPrefix(cfg, text) == \E m \in cfg.macros : IsPrefix(LowerCase(text), m.key)
InCaseOf(text, found) ==
  IF IsLower(text[1]) THEN LowerCase(found)
  ELSE IF \A i \in 2 .. Len(text) : ~IsLower(text[i]) /\ ~IsWordBreak(text[i][1])
  THEN UpperCase(found) ELSE found
MacroText(cfg, text) == (CHOOSE m \in cfg.macros : m.key = LowerCase(text)).text
ExpandMacro(cfg, text) ==
  InCaseOf(text, ExpandPlaceholders(MacroText(cfg, text), cfg.clock, cfg.dateFormat, cfg.timeFormat))
IsMacro(cfg, comp) == HasMacro(cfg, SinceSpace(comp))

\* should_fallback_to_english: this word will not become Vietnamese any more.
FreeDd(vn) == ~HasVowel(vn) /\ (Last(vn)[1] = "d" \/ \E i \in DOMAIN vn : vn[i][1] = "d-")
FallsBack(cfg, comp, vn, checkRune) ==
  /\ cfg.restore /\ vn # <<>>
  /\ ~IsMacro(cfg, comp) /\ ~(cfg.ddFree /\ FreeDd(vn))
  /\ checkRune => HasVietnamese(vn)
  /\ ~IsValid(LastWord(cfg.im, comp), FALSE)
ShouldFallback(cfg, comp, checkRune) == FallsBack(cfg, comp, Vietnamese(cfg, comp), checkRune)

\* must_fallback_to_english: as it stands this word is not Vietnamese.
IsForeign(cfg, vn, word, full) ==
  cfg.restore /\ vn # <<>> /\ LowerCase(vn) \notin cfg.dict /\ ~IsValid(word, full)

\* Mutant: a word that may still become Vietnamese passes for one.
PartlyValid(cfg, vn, word) ==
  /\ ~(cfg.ddFree /\ \E i \in DOMAIN vn : vn[i][1] = "d-")
  /\ IsForeign(cfg, vn, word, FALSE)

MustFallback(cfg, vn, word) ==
  /\ ~(cfg.ddFree /\ \E i \in DOMAIN vn : vn[i][1] = "d-")
  /\ IsForeign(cfg, vn, word, TRUE)
Foreign(cfg, comp, old) ==
  HasVietnamese(old) /\ MustFallback(cfg, Vietnamese(cfg, comp), LastWord(cfg.im, comp))

Preedit(cfg, comp) ==
  IF MacrosOn(cfg) THEN SinceSpace(comp)
  ELSE IF ShouldFallback(cfg, comp, TRUE) THEN English(cfg, comp) ELSE Vietnamese(cfg, comp)

ComposedString(cfg, comp, old) == IF Foreign(cfg, comp, old) THEN English(cfg, comp) ELSE old

(***************************************************************************)
(* Sentence capitals and the double space.                                 *)
(***************************************************************************)
\* apply_sentence_capitalize: the state after key, and whether key becomes a capital.
Sentence(cfg, sentence, key) ==
  LET ready == sentence = "ready"
      gap == key \in {Space, "Return"}
  IN  [upper |-> cfg.capitalize /\ ready /\ IsAlpha(key),
       next |-> IF ~cfg.capitalize \/ (ready /\ gap) THEN sentence
                ELSE IF sentence = "punct" /\ gap THEN "ready" ELSE "idle"]

\* Mutant: a full stop ends a sentence with no space behind it.
ReadyAtOnce(cfg, sentence, text) ==
  IF cfg.capitalize /\ text # <<>> /\ Last(text)[1] = "." THEN "ready" ELSE "idle"

\* track_sentence_commit
SentenceEnd == {".", "!", "?"}
TrackSentence(cfg, sentence, text) ==
  LET n == SelectLastInSeq(text, LAMBDA ch : ch[1] # Space)
  IN  IF ~cfg.capitalize THEN sentence
      ELSE IF n = 0 \/ text[n][1] \notin SentenceEnd THEN "idle"
      ELSE IF n < Len(text) THEN "ready" ELSE "punct"

\* track_double_space_commit
IsWordChar(ch) == IsAlpha(Unmarked(ch[1])) \/ ch[1] \in Digits
EndsWord(text) == /\ Len(text) > 1 /\ Last(text)[1] = Space
                  /\ IsWordChar(text[Len(text) - 1])
Arms(cfg, armed, text) == IF cfg.doubleSpace THEN EndsWord(text) ELSE armed

\* Mutant: the preeditor is not reset.
CommitOnly(cfg, core, text) ==
  IF text = <<>> THEN core
  ELSE [core EXCEPT !.sentence = TrackSentence(cfg, @, text), !.armed = Arms(cfg, @, text)]

\* commit_text, then the preeditor is reset.
Commit(cfg, core, text) ==
  IF text = <<>> THEN [core EXCEPT !.comp = <<>>]
  ELSE [comp |-> <<>>, sentence |-> TrackSentence(cfg, core.sentence, text),
        armed |-> Arms(cfg, core.armed, text)]

\* double_space_consume
ConsumeDoubleSpace(cfg, core) ==
  [core EXCEPT !.armed = FALSE, !.sentence = IF cfg.capitalize THEN "ready" ELSE @]

(***************************************************************************)
(* One key.                                                                *)
(***************************************************************************)
CanProcess(cfg, key) == CanProcessKey(key, cfg.im.keys)
IsPrintable(cfg, comp, key) ==
  \/ key = "BackSpace" \/ IsWordBreak(key) \/ CanProcess(cfg, key)
  \/ key = "Tab" /\ IsMacro(cfg, comp)

WSuppressed(cfg, comp, key) == cfg.wShortcut = 1 /\ key = "w" /\ English(cfg, comp) = <<>>

\* get_commit_text: the new composition and what is shown of it, which was
\* old; "breaks": the text is committed at once.
Outcome(comp, text, breaks) == [comp |-> comp, text |-> text, breaks |-> breaks]
TypedAsIs(comp, key, upper, old) ==
  Outcome(ProcessEnglish(comp, key, upper), Append(old, PlainChar(key, upper)), FALSE)

\* A key that appends a letter of its own: whether that letter is what is
\* seen, or the word shows its keys and so the key.
EndsWith(text, ch) == text # <<>> /\ Last(text) = ch
BreaksAfter(new, now) == Outcome(new, now, now # <<>> /\ IsWordBreak(Last(now)[1]))
AppendedText(cfg, new, key, old, vn, now) ==
  LET ch == PlainChar(key, FALSE)
  IN  IF EndsWith(vn, ch) THEN BreaksAfter(new, now)
      ELSE IF EndsWith(IF ShouldFallback(cfg, new, TRUE) THEN English(cfg, new) ELSE vn, ch)
      THEN Outcome(new, Append(old, ch), IsWordBreak(key))
      ELSE Outcome(new, now, FALSE)
ShownText(cfg, new, key, upper, old, now) ==
  IF upper \/ key \notin cfg.im.appending THEN Outcome(new, now, FALSE)
  ELSE AppendedText(cfg, new, key, old, Vietnamese(cfg, new), now)
Composed(cfg, new, key, upper, old) == ShownText(cfg, new, key, upper, old, Preedit(cfg, new))
ComposeKey(cfg, comp, key, upper, old) ==
  IF WSuppressed(cfg, comp, key) THEN TypedAsIs(comp, key, upper, old)
  ELSE Composed(cfg, IF ShouldFallback(cfg, comp, FALSE) THEN ProcessEnglish(comp, key, upper)
                     ELSE ProcessKey(cfg.im, comp, key, upper), key, upper, old)

\* Mutant: the key alone.
KeyOnly(cfg, comp, old, typed) == typed

\* handle_non_vn_word
NonVnWord(cfg, comp, old, typed) ==
  (IF Foreign(cfg, comp, old) THEN SinceSpace(RestoreKeys(cfg.im, comp)) ELSE old) \o typed

BreakText(cfg, comp, key, upper, old, typed) ==
  IF HasMacroPrefix(cfg, old \o typed) /\ typed # <<>> THEN TypedAsIs(comp, key, upper, old)
  ELSE IF HasMacro(cfg, old) THEN Outcome(comp, ExpandMacro(cfg, old) \o typed, TRUE)
  ELSE Outcome(comp, NonVnWord(cfg, comp, old, typed), TRUE)
BreakKey(cfg, comp, key, upper, old, printable) ==
  BreakText(cfg, comp, key, upper, old, IF printable THEN <<PlainChar(key, upper)>> ELSE <<>>)

\* preedit_process_key_event. "shows" is <<>> when what is shown stays as it
\* is, else <<the text to show>>.
Result(handled, commit, shows, core) ==
  [handled |-> handled, commit |-> commit, shows |-> shows, core |-> core]
Ignored(core) == Result(FALSE, <<>>, <<>>, core)
Committed(cfg, core, handled, text) == Result(handled, text, <<<<>>>>, Commit(cfg, core, text))
Showing(core, handled, comp, text) == Result(handled, <<>>, <<text>>, [core EXCEPT !.comp = comp])

Outcomes(cfg, core, printable, next) ==
  IF next.breaks THEN Committed(cfg, core, printable, next.text)
  ELSE Showing(core, printable, next.comp, next.text)
CharacterKey(cfg, core, key, upper, old, printable) ==
  Outcomes(cfg, core, printable,
           IF CanProcess(cfg, key) THEN ComposeKey(cfg, core.comp, key, upper, old)
           ELSE BreakKey(cfg, core.comp, key, upper, old, printable))
\* Mutant: what is shown was read before the letter went.
StaleWord(cfg, core, comp) == Showing(core, TRUE, comp, Preedit(cfg, core.comp))

ShorterWord(cfg, core, comp) == Showing(core, TRUE, comp, Preedit(cfg, comp))
BackSpaceKey(cfg, core, old) ==
  IF Len(old) = 1 THEN Committed(cfg, core, TRUE, <<>>)
  ELSE IF Typed(core.comp) = <<>> THEN Ignored(core)
  ELSE ShorterWord(cfg, core, RemoveLastChar(cfg.im, core.comp, TRUE))
TabKey(cfg, core, old, macro) ==
  Committed(cfg, core, macro, IF macro THEN ExpandMacro(cfg, SinceSpace(core.comp))
                              ELSE ComposedString(cfg, core.comp, old))

PreeditKey(cfg, core, key, upper, old) ==
  LET active == MacrosOn(cfg) \/ Typed(core.comp) # <<>>
  IN  CASE ~CanProcess(cfg, key) /\ ~active -> Ignored(core)
        [] key = "BackSpace" /\ active -> BackSpaceKey(cfg, core, old)
        [] key = "Tab" /\ active -> TabKey(cfg, core, old, IsMacro(cfg, core.comp))
        [] OTHER -> CharacterKey(cfg, core, key, upper, old, IsPrintable(cfg, core.comp, key))
ProcessPreedit(cfg, core, key, upper) ==
  PreeditKey(cfg, core, key, upper, Preedit(cfg, core.comp))

\* process_key_event: any key closes the double-space window; a shortcut is
\* left to the application and forgets where the sentence was.
AfterSentence(cfg, core, key, s) ==
  ProcessPreedit(cfg, [core EXCEPT !.armed = FALSE, !.sentence = s.next], key, s.upper)
ProcessKeyEvent(cfg, core, key) ==
  IF key = "Paste" THEN Ignored([core EXCEPT !.armed = FALSE, !.sentence = "idle"])
  ELSE AfterSentence(cfg, core, key, Sentence(cfg, core.sentence, key))
==============================================================================
