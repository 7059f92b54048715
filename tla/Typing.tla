------------------------------- MODULE Typing -------------------------------
(***************************************************************************)
(* One input context typing in a preedit: PinaKeyState::keyEvent (pinakey. *)
(* cpp) over the real composition, with the emoji lookup and the double    *)
(* space, and the application that receives the commits and tells fcitx5   *)
(* late what its text has become.                                          *)
(***************************************************************************)
EXTENDS EngineCore, EmojiMode

CONSTANT Configs   \* the configurations, each with the scenario around it

\* A key types a character of the keyboard, or nothing. No built-in method
\* appends a letter with the full stop. A macro may be any text, and the
\* moment can be told in the two formats the program falls back to.
KeyNames == {"BackSpace", "Tab", "Return", "Escape", "Paste"}
Typeable == Alpha \cup Digits \cup Punctuation
ASSUME ConfigsAssumption ==
  \A c \in Configs :
    /\ MethodOK(c.im) /\ "." \notin c.im.appending
    /\ c.keys \subseteq Typeable \cup KeyNames
    /\ c.budget \in Nat
    /\ c.doc \in Seq(Char) /\ c.recent \in Seq(STRING)
    /\ \A m \in c.macros : m.key \in Seq(Char) /\ m.text \in Seq(Range(m.text))
    /\ {DateFormat, TimeFormat} \subseteq DOMAIN c.clock
    /\ \A f \in DOMAIN c.clock : c.clock[f] \in Seq(Range(c.clock[f]))

VARIABLES
  conf,     \* the configuration and the scenario around it, chosen once
  core,     \* EngineCore: composition, sentence state, double-space window
  shown,    \* PkEngine.preedit: what the panel shows of the composition
  em,       \* the emoji lookup
  recent,   \* EMOJI_RECENT
  doc,      \* the application's text before the cursor
  cache,    \* the surrounding text fcitx5 remembers
  key,      \* history: the last key, or what happened instead
  n         \* history: the events so far, bounded by conf.budget

vars == <<conf, core, shown, em, recent, doc, cache, key, n>>

Chars(letters) == [i \in DOMAIN letters |-> PlainChar(letters[i], FALSE)]

Init == /\ conf \in Configs
        /\ core = FreshCore /\ shown = <<>> /\ em = Closed
        /\ recent = LoadRecent(conf.recent)
        /\ doc = conf.doc /\ cache = doc
        /\ key = "none" /\ n = 0

Happens(k) == /\ n < conf.budget
              /\ n' = n + 1 /\ key' = k /\ UNCHANGED conf

\* The text is written by the addon; the cache follows only when the client reports.
Write(text) == doc' = text /\ cache' = IF conf.late THEN cache ELSE text

(***************************************************************************)
(* PinaKeyState::keyEvent                                                  *)
(***************************************************************************)
\* The lookup takes the key.
EmojiKey(k) ==
  /\ Happens(k)
  /\ em.open /\ ~Leaves(em, k)
  /\ em' = IF Picks(em, k) THEN Closed ELSE AfterKey(em, k, recent)
  /\ recent' = IF Picks(em, k) THEN Record(recent, Picked(em, k)) ELSE recent
  /\ Write(doc \o Chars(IF Picks(em, k) THEN <<Picked(em, k)>> ELSE Literal(em, k)))
  /\ UNCHANGED <<core, shown>>

\* Mutant: in the middle of a word, too.
OpenAnyTime ==
  /\ Happens(":")
  /\ ~em.open
  /\ em' = StartEmoji(recent)
  /\ UNCHANGED <<core, shown, recent, doc, cache>>

\* ":" opens the lookup when nothing is being composed.
OpenEmoji ==
  /\ Happens(":")
  /\ ~em.open /\ shown = <<>>
  /\ em' = StartEmoji(recent)
  /\ UNCHANGED <<core, shown, recent, doc, cache>>

\* The text once a lookup that the key leaves has committed its literal.
Left(k) == IF em.open THEN doc \o Chars(Literal(em, k)) ELSE doc
GoesOn(k) == IF em.open THEN Leaves(em, k) ELSE k # ":" \/ shown # <<>>

\* surroundingEndsWithWordSpace reads what the client reported before this key:
\* no report comes in while a handler runs. An emoji counts as a word's character.
IsEmoji(ch) == ~IsWordChar(ch) /\ ch[1] \notin Punctuation \cup {"Return", "Tab"}
\* Mutant: the window the engine holds open is enough.
AnyText(text) == text # <<>>

EndsWithWordSpace(text) ==
  /\ Len(text) > 1 /\ Last(text)[1] = Space
  /\ IsWordChar(text[Len(text) - 1]) \/ IsEmoji(text[Len(text) - 1])
Doubles(k) == k = Space /\ core.armed /\ conf.surrounding /\ EndsWithWordSpace(cache)

FullStop == <<PlainChar(".", FALSE), PlainChar(Space, FALSE)>>
DoubleSpace(k) ==
  /\ Happens(k)
  /\ GoesOn(k) /\ Doubles(k)
  /\ Write(Front(Left(k)) \o FullStop)
  /\ core' = ConsumeDoubleSpace(conf, core)
  /\ em' = Closed
  /\ UNCHANGED <<shown, recent>>

\* The engine takes the key; one it does not want is the application's.
Delivered(text, k) ==
  CASE k = "BackSpace" -> IF text = <<>> THEN text ELSE Front(text)
    [] k = "Escape" -> text
    [] k = "Paste" -> Append(text, PlainChar("p", FALSE))
    [] OTHER -> Append(text, PlainChar(k, FALSE))
ComposeOrPass(k) ==
  /\ Happens(k)
  /\ GoesOn(k) /\ ~Doubles(k)
  /\ em' = Closed /\ UNCHANGED recent
  /\ \E r \in {ProcessKeyEvent(conf, core, k)} :
       /\ Write(IF r.handled THEN Left(k) \o r.commit ELSE Delivered(Left(k) \o r.commit, k))
       /\ core' = r.core
       /\ shown' = IF r.shows = <<>> THEN shown ELSE r.shows[1]

Press(k) == EmojiKey(k) \/ DoubleSpace(k) \/ ComposeOrPass(k)

(***************************************************************************)
(* What else happens.                                                      *)
(***************************************************************************)
\* The user turns the pages of the list with the mouse.
TurnPage ==
  /\ Happens("page")
  /\ em.open /\ \E p \in Pages(em) \ {em.page} : em' = [em EXCEPT !.page = p]
  /\ UNCHANGED <<core, shown, recent, doc, cache>>

\* A click moves the cursor back; this application sends no reset.
Click ==
  /\ Happens("click")
  /\ conf.mouse /\ shown = <<>> /\ ~em.open /\ doc # <<>>
  /\ \E i \in 0 .. Len(doc) - 1 : doc' = SubSeq(doc, 1, i)
  /\ cache' = doc'
  /\ UNCHANGED <<core, shown, em, recent>>

\* PinaKeyState::reset: what is being composed is dropped.
Reset ==
  /\ Happens("reset")
  /\ conf.mouse
  /\ core' = FreshCore /\ shown' = <<>> /\ em' = Closed
  /\ UNCHANGED <<recent, doc, cache>>

\* PinaKeyState::deactivate: somebody commits what is shown, the addon or
\* fcitx5, and the engine starts afresh. Unless the user only changes the
\* input method, the remembered text is dropped.
Deactivate ==
  /\ Happens("leave")
  /\ conf.mouse
  /\ doc' = doc \o Chars(em.query) \o shown
  /\ core' = FreshCore /\ shown' = <<>> /\ em' = Closed
  /\ cache' \in {<<>>, IF conf.late THEN cache ELSE doc'}
  /\ UNCHANGED recent

\* The client sends its text.
Report ==
  /\ conf.late /\ conf.surrounding /\ cache # doc
  /\ cache' = doc
  /\ UNCHANGED <<conf, core, shown, em, recent, doc, key, n>>

Next ==
  \/ \E k \in conf.keys : Press(k)
  \/ ":" \in conf.keys /\ OpenEmoji
  \/ TurnPage
  \/ Click
  \/ Reset
  \/ Deactivate
  \/ Report

Spec == Init /\ [][Next]_vars

-----------------------------------------------------------------------------
(***************************************************************************)
(* What typing promises.                                                   *)
(***************************************************************************)
\* No mark is left behind by the letter it was put on.
MarksAreOnLetters ==
  \A i \in DOMAIN core.comp : core.comp[i].kind # "append" =>
    \E j \in DOMAIN core.comp : /\ core.comp[j].kind = "append"
                                /\ core.comp[j].id = core.comp[i].target

TypeOK ==
  /\ n \in 0 .. conf.budget
  /\ IsInjective([i \in DOMAIN core.comp |-> core.comp[i].id])
  /\ conf.macros = {} => MarksAreOnLetters
  /\ core.sentence \in {"idle", "punct", "ready"} /\ core.armed \in BOOLEAN
  /\ em.open \in BOOLEAN /\ (em.page = 0 \/ em.page \in Pages(em))
  /\ Len(recent) <= RecentCap

\* A method none of whose keys appends a letter of its own; the others show
\* the key where the engine has already fallen back (engine.rs, "f] => f]").
Plain == conf.im.appending = {}

\* A macro whose key has a space in it is composed over several words, of
\* which the engine shows the last one only.
OneWordMacros == \A m \in conf.macros : \A i \in DOMAIN m.key : m.key[i][1] # Space

\* What the panel shows is what the engine would commit, whatever was typed,
\* deleted or left since it was shown: the folding of actions in pk_engine's
\* apply keeps the display when a key does not say.
ShownIsComposed == Plain /\ OneWordMacros => shown = Preedit(conf, core.comp)

WordNow == LastWord(conf.im, core.comp)
ToneInPlace(word, s) ==
  s.vo # <<>> /\ LastTone(word) # 0 /\ IsValid(word, FALSE)
    => word[LastTone(word)].target = FindToneTarget(s, conf.im.std)

\* The last tone of a word is on the vowel that should carry it, after every
\* letter typed behind it and every letter taken away (refresh_last_tone_target).
LastToneInPlace == conf.im.free => ToneInPlace(WordNow, Split(WordNow))

\* No key is swallowed by an invisible lookup: while one is open, nothing is
\* being composed (#11).
LookupIsAlone == em.open /\ OneWordMacros => shown = <<>> /\ core.comp = <<>>

Pressed(k) == n' # n /\ key' = k
Composes(k) == k \in conf.keys \ conf.im.appending /\ CanProcess(conf, k)

\* Whatever a key does to the word, it is remembered as typed, so that the
\* raw keys can be restored: tones moved, marks undone and the fallback to
\* English included. Only the appended letter typed twice (ww) forgets one.
KeysKept ==
  [][\A k \in conf.keys : Pressed(k) /\ Composes(k) /\ ~em.open
       => LettersOf(Typed(core'.comp)) = Append(LettersOf(Typed(core.comp)), k)]_vars

\* Backspace in a word takes its last letter with the marks on it, and no mark
\* of another letter; what is shown gets shorter.
BackspaceTakesLastLetter ==
  [][Pressed("BackSpace") /\ shown # <<>>
       => /\ LettersOf(Vietnamese(conf, core'.comp)) = Front(LettersOf(Vietnamese(conf, core.comp)))
          /\ Len(shown') < Len(shown)]_vars

Breaks(k) == Pressed(k) /\ shown # <<>> /\ core'.comp = <<>> /\ conf.macros = {}
BreakKeys == {" ", ".", "Tab", "Return"} \cap conf.keys

\* A word goes into the text as it was shown or, with restoring on, as the
\* keys that were typed; nothing before it is touched.
CommitsWhatIsShown ==
  [][\A k \in BreakKeys : Breaks(k)
       => \E word \in {shown} \cup (IF conf.restore THEN {Typed(core.comp)} ELSE {}) :
            IsPrefix(doc \o word, doc') /\ Len(doc') <= Len(doc \o word) + 1]_vars

\* With restoring on, what reaches the text with Vietnamese letters is a
\* possible Vietnamese word, a word of the dictionary or has a free dd.
OnlyWordsKeepMarks ==
  [][\A k \in BreakKeys : Breaks(k) /\ conf.restore
       => LET new == SubSeq(doc', Len(doc) + 1, Len(doc'))
          IN  HasVietnamese(new) => \/ IsValid(WordNow, TRUE)
                                    \/ LowerCase(Vietnamese(conf, core.comp)) \in conf.dict
                                    \/ \E i \in DOMAIN new : new[i][1] = "d-"]_vars

\* The user types small letters only. A capital begins to be composed behind the
\* end of a sentence and a blank (#65, #160), unless the cursor was moved or a
\* lookup has written something the engine was not told of.
Blanks == {Space, "Return", "Tab"}
StartsSentence(text) ==
  \E j \in 1 .. Len(text) - 1 : /\ text[j][1] \in SentenceEnd
                                /\ \A m \in j + 1 .. Len(text) : text[m][1] \in Blanks
HasCapital(text) == \E i \in DOMAIN text : text[i][3]
Unmoved == ~conf.mouse /\ ":" \notin conf.keys /\ OneWordMacros
CapitalStartsSentence ==
  [][Unmoved /\ HasCapital(Typed(core'.comp)) /\ ~HasCapital(Typed(core.comp))
       => StartsSentence(doc)]_vars

\* A space never deletes anything but a space (pinakey.cpp 241: never where
\* the text does not end in a word and a space), though what fcitx5 remembers
\* may be older than the text. An emoji picked while the window is open and not
\* yet reported would be deleted, and so would the Return behind a macro that
\* ends in a space.
Settled == conf.macros = {} /\ (conf.late => ":" \notin conf.keys)
SpaceKeepsText ==
  [][Pressed(Space) /\ Settled
       => \/ IsPrefix(doc, doc')
          \/ doc # <<>> /\ Last(doc)[1] = Space /\ IsPrefix(Front(doc), doc')]_vars

\* A lookup that ends leaves an emoji or what was typed into it, unless the
\* user takes the ":" back or the application resets the context
\* (pinakey.cpp 1166-1167: a ":" and a space in plain text stay a ":").
LookupEnds == em.open /\ ~em'.open /\ key' \notin {"BackSpace", "reset"}
LeavesText == \/ recent' # <<>> /\ doc' = doc \o Chars(<<recent'[1]>>)
              \/ IsPrefix(doc \o Chars(em.query), doc')
ColonStays == [][LookupEnds => LeavesText]_vars

\* It does, except where the double space was still open when the lookup
\* began: a space that ends the lookup is then measured against the text as
\* it was reported before the ":" was committed, and takes the ":" for a space.
LookupLeavesText == [][LookupEnds /\ ~(Pressed(Space) /\ core.armed) => LeavesText]_vars

\* What a lookup puts into the text as one emoji is one the user sees, on the
\* page turned to (#97, #127), and becomes the most recent one; none is there
\* twice, if none was in the file.
PickIsShown ==
  [][em.open /\ doc' # <<>> /\ Front(doc') = doc /\ IsEmoji(Last(doc'))
       => /\ \E i \in DOMAIN Page(em) : Page(em)[i] = Last(doc')[1]
          /\ recent'[1] = Last(doc')[1]
          /\ IsInjective(conf.recent) => IsInjective(recent')]_vars
==============================================================================
