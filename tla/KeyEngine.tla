------------------------------ MODULE KeyEngine ------------------------------
(***************************************************************************)
(* What the Rust core promises the fcitx5 addon for one key: the control   *)
(* of EngineCore::process_key_event (which keys it consumes, what it       *)
(* commits, what is left being composed) and the two ways pinakey-ffi      *)
(* hands the result over, as a preedit (process_key) or as "delete n       *)
(* characters, insert this text" (process_key_replace).                    *)
(*                                                                         *)
(* The Vietnamese tables are abstracted to one vowel "a", one tone key "s" *)
(* that turns a leading "a" into the accented "A", a word that is not      *)
(* Vietnamese (an accented vowel followed by anything), and one macro.     *)
(* That is enough to make every kind of edit the core asks for: append,    *)
(* rewrite of one or several characters, deletion, restoration of the raw  *)
(* keys at a word break, expansion.                                        *)
(***************************************************************************)
EXTENDS Integers, Sequences

CONSTANTS
  AutoRestore,   \* IB_AUTO_NON_VN_RESTORE: a non-Vietnamese word goes back to its raw keys
  MacroEnabled   \* IB_MACRO_ENABLED

ASSUME ConfigAssumption == AutoRestore \in BOOLEAN /\ MacroEnabled \in BOOLEAN

\* Keys, by the classes the code distinguishes.
Letter    == {"a", "s"}
Space     == "_"
Backspace == "B"
Enter     == "R"
Tab       == "T"
Paste     == "V"      \* Ctrl+V: a key with a real modifier
Shift     == "M"      \* a modifier pressed on its own
Key == Letter \cup {Space, Backspace, Enter, Tab, Paste, Shift}

\* Characters of a document: "A" is the accented vowel, "m" the macro's text,
\* "R" and "T" the newline and the tab an application inserts, "P" pasted text.
Char == {"a", "A", "s", "_", "m", "R", "T", "P"}
Text == Seq(Char)

(***************************************************************************)
(* EngineCore: the word being composed.                                    *)
(***************************************************************************)
Mark(w) == <<"A">> \o Tail(w)

Compose(w, k) ==
  IF k = "s" /\ w # <<>> /\ Head(w) = "a" THEN Mark(w) ELSE Append(w, k)

\* must_fallback_to_english: the word shows a Vietnamese letter yet is no Vietnamese word.
NotVietnamese(w) == AutoRestore /\ Len(w) >= 2 /\ Head(w) = "A"

\* restore_last_word: the keys as they were typed.
RawKeys(w) == <<"a">> \o Append(Tail(w), "s")

IsMacro(w) == MacroEnabled /\ w = <<"a">>

Composed(w) == IF NotVietnamese(w) THEN RawKeys(w) ELSE w

WordAtBreak(w) == IF IsMacro(w) THEN <<"m">> ELSE Composed(w)

Ignored(w) == [handled |-> FALSE, acted |-> FALSE, commit |-> <<>>, word |-> w]

\* A word break commits something when a word is open, or when macros make
\* the core look at every break.
Breaks(w) == w # <<>> \/ MacroEnabled

\* "acted": some Action was produced; "handled": the key is consumed.
EngineStep(w, k) ==
  CASE k \in Letter ->
         [handled |-> TRUE, acted |-> TRUE, commit |-> <<>>, word |-> Compose(w, k)]
    [] k = Backspace /\ w # <<>> ->
         [handled |-> TRUE, acted |-> TRUE, commit |-> <<>>, word |-> SubSeq(w, 1, Len(w) - 1)]
    [] k = Space /\ Breaks(w) ->
         [handled |-> TRUE, acted |-> TRUE,
          commit |-> Append(WordAtBreak(w), Space), word |-> <<>>]
    [] k \in {Tab, Enter} /\ Breaks(w) ->
         [handled |-> k = Tab /\ IsMacro(w), acted |-> TRUE,
          commit |-> WordAtBreak(w), word |-> <<>>]
    [] OTHER -> Ignored(w)

(***************************************************************************)
(* pinakey-ffi: what the addon sees of the core.                           *)
(***************************************************************************)
\* PkEngine: the core's word, the segment the document is known to show
\* (prev_displayed) and the preedit of the last process_key.
Core == [word : Text, prev : Text, preedit : Text]
FreshCore == [word |-> <<>>, prev |-> <<>>, preedit |-> <<>>]

MinLen(s, t) == IF Len(s) < Len(t) THEN Len(s) ELSE Len(t)

\* The places where the scan of diff_replace may stop: the end of either
\* text, or the first difference.
ScanStops(s, t) == {i \in 0 .. MinLen(s, t) : i = MinLen(s, t) \/ s[i + 1] # t[i + 1]}

CommonPrefix(s, t) == CHOOSE i \in ScanStops(s, t) : \A j \in ScanStops(s, t) : i <= j

DiffReplace(old, new) ==
  [delete |-> Len(old) - CommonPrefix(old, new),
   insert |-> SubSeq(new, CommonPrefix(old, new) + 1, Len(new))]

ProcessKeyReplace(c, k) ==
  LET r == EngineStep(c.word, k)
      d == DiffReplace(c.prev, r.commit \o r.word)
  IN  IF r.acted
      THEN [handled |-> r.handled, delete |-> d.delete, insert |-> d.insert,
            core |-> [word |-> r.word, prev |-> r.word, preedit |-> c.preedit]]
      ELSE [handled |-> r.handled, delete |-> 0, insert |-> <<>>, core |-> c]

ProcessKey(c, k) ==
  LET r == EngineStep(c.word, k)
  IN  [handled |-> r.handled, commit |-> r.commit,
       core |-> IF r.acted THEN [c EXCEPT !.word = r.word, !.preedit = r.word] ELSE c]

(***************************************************************************)
(* The document an edit is applied to.                                     *)
(***************************************************************************)
DropLast(doc, n) == SubSeq(doc, 1, IF n < Len(doc) THEN Len(doc) - n ELSE 0)

\* The application receives key k itself.
Deliver(doc, k) ==
  CASE k = Backspace -> DropLast(doc, 1)
    [] k = Paste -> Append(doc, "P")
    [] k = Shift -> doc
    [] OTHER -> Append(doc, k)
==============================================================================
