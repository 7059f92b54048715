---------------------------- MODULE Composition -----------------------------
(***************************************************************************)
(* How keys become Vietnamese (pinakey-core transform_utils.rs,            *)
(* flattener.rs, engine.rs). A composition is the list of transformations  *)
(* the keys caused: a letter appended, a mark or a tone put on an earlier  *)
(* one. The text is what the list looks like when it is flattened; the     *)
(* keys themselves are never lost.                                         *)
(*                                                                         *)
(* Left out: upper case where a rule compares texts, and the key of a      *)
(* transformation no built-in definition can make (an appended rule with   *)
(* several letters).                                                       *)
(***************************************************************************)
EXTENDS InputMethods, Spelling

\* A transformation. "id" stands for the Rc's address, "target" for the Rc it
\* points to (0: none); "key" is "" where the code writes '\0': nobody typed it.
Trans(rule, target, id) ==
  [key |-> rule.key, kind |-> rule.kind, on |-> rule.on, effect |-> rule.effect,
   gives |-> rule.gives, target |-> target, upper |-> FALSE, id |-> id]
TransformationFields ==
  [key : Symbols, kind : {"append", "mark", "tone"}, on : Symbols, effect : Nat, gives : Symbols,
   target : Nat, upper : BOOLEAN, id : Nat]
Transformation == {t \in TransformationFields : t.kind = "tone" => t.gives = NoLetter}
Cased(trans, upper) == [trans EXCEPT !.upper = upper]
Appending(key, upper, id) == Cased(Trans(Rule(key, "append", key, 0, key), 0, id), upper)
\* Mutant: a mark the engine adds by itself counts as a key.
Kept(rule) == rule

Untyped(rule) == [rule EXCEPT !.key = ""]
VirtualMark(mark) == Rule("", "mark", "", mark, "")
VirtualTone(tone) == Rule("", "tone", "", tone, NoLetter)

FreshId(comp) == IF comp = <<>> THEN 1 ELSE 1 + Max({comp[i].id : i \in DOMAIN comp}
                                                  \cup {comp[i].target : i \in DOMAIN comp})

(***************************************************************************)
(* flattener.rs: what a composition looks like.                            *)
(***************************************************************************)
Effects(comp, id) == Filtered(comp, LAMBDA t : t.kind # "append" /\ t.target = id)
Visible(t) == t.kind = "append" /\ t.key # ""
Rendered(comp, t) ==
  LET Apply(ch, e) ==
        CASE e.kind = "mark" /\ e.effect = Raw -> PlainChar(t.key, t.upper)
          [] e.kind = "mark" /\ e.effect # Raw -> <<AddMark(ch[1], e.effect), ch[2], ch[3]>>
          [] e.kind = "tone" -> IF IsVowel(ch[1]) THEN <<ch[1], e.effect, ch[3]>> ELSE ch
  IN  FoldLeft(Apply, PlainChar(t.on, t.upper), Effects(comp, t.id))

Flatten(comp) ==
  LET shown == Filtered(comp, Visible)
  IN  [i \in DOMAIN shown |-> Rendered(comp, shown[i])]
Toneless(comp) == LettersOf(Flatten(comp))

\* mode::ENGLISH: the keys as they were typed.
Typed(comp) ==
  LET keys == Filtered(comp, LAMBDA t : t.key # "")
  IN  [i \in DOMAIN keys |-> PlainChar(keys[i].key, keys[i].upper)]

(***************************************************************************)
(* The parts of a syllable.                                                *)
(***************************************************************************)
\* extract_cvc_trans: the appended letters fall into first consonant, vowel
\* and last consonant; the u of "qu" and the i of "gi" before another vowel
\* belong to the first consonant. Each part takes its marks and tones along.
Parts(fc, vo, lc) == [fc |-> fc, vo |-> vo, lc |-> lc]
Glides(s) == \/ s.fc[1].gives = "q" /\ s.vo[1].gives = "u"
             \/ /\ s.fc[1].gives = "g" /\ s.vo[1].gives = "i" /\ Len(s.vo) > 1
                /\ s.vo[2].gives = "e" => s.lc = <<>>
Regrouped(s) ==
  IF Len(s.fc) = 1 /\ Glides(s) THEN Parts(s.fc \o <<s.vo[1]>>, Tail(s.vo), s.lc) ELSE s

\* n is the last vowel, m the last consonant before it.
CutAt(letters, m, n) ==
  IF n = 0 THEN Parts(letters, <<>>, <<>>)
  ELSE Regrouped(Parts(SubSeq(letters, 1, m), SubSeq(letters, m + 1, n),
                       SubSeq(letters, n + 1, Len(letters))))
CutBefore(letters, n) ==
  CutAt(letters, SelectLastInSubSeq(letters, 1, n, LAMBDA t : ~IsVowel(t.gives)), n)
SplitLetters(letters) ==
  CutBefore(letters, SelectLastInSeq(letters, LAMBDA t : IsVowel(t.gives)))

WithEffects(comp, letters) ==
  letters \o FlattenSeq([i \in DOMAIN letters |->
                          Filtered(comp, LAMBDA t : t.target = letters[i].id)])
TakeEffects(comp, s) == [p \in {"fc", "vo", "lc"} |-> WithEffects(comp, s[p])]
Split(comp) == TakeEffects(comp, SplitLetters(Filtered(comp, LAMBDA t : t.target = 0)))

AppendedOf(comp) == Filtered(comp, LAMBDA t : t.kind = "append")
LastAppended(comp) == SelectLastInSeq(comp, LAMBDA t : t.kind = "append")

\* A syllable closed by a stop takes no tone but the acute and the dot.
HasValidTone(s, tone) ==
  \/ tone \in {None, Acute, Dot}
  \/ LettersOf(Typed(s.lc)) \notin {<<"c">>, <<"k">>, <<"p">>, <<"t">>, <<"c", "h">>}

IsSyllable(s, tones, full) ==
  /\ tones # <<>> => HasValidTone(s, Last(tones).effect)
  /\ IsValidCVC(Toneless(s.fc), Toneless(s.vo), Toneless(s.lc), full)
IsValid(comp, full) ==
  Len(comp) <= 1 \/ IsSyllable(Split(comp), Filtered(comp, LAMBDA t : t.kind = "tone"), full)

\* find_root_target
Root(t) == IF t.target = 0 THEN t.id ELSE t.target

\* find_tone_target: the vowel that carries the tone (0: none), of the vowels
\* v; marked is the last transformation that gives an o+ or e^ (0: none).
UnmarkedKeys(v) == [i \in DOMAIN v |-> Unmarked(v[i].key)]
TonesSecond(s, v, std) ==
  \/ s.lc # <<>>
  \/ ~std /\ UnmarkedKeys(v) \in {<<"o","a">>, <<"o","e">>, <<"u","y">>, <<"u","e">>, <<"u","o">>}
ToneVowel(s, v, marked, std) ==
  CASE Len(v) = 1 -> v[1].id
    [] Len(v) = 2 /\ std /\ marked # 0 -> Root(s.vo[marked])
    [] Len(v) = 2 /\ ~(std /\ marked # 0) -> IF TonesSecond(s, v, std) THEN v[2].id ELSE v[1].id
    [] Len(v) = 3 -> IF UnmarkedKeys(v) = <<"u","y","e">> THEN v[3].id ELSE v[2].id
    [] OTHER -> 0
FindToneTarget(s, std) ==
  ToneVowel(s, AppendedOf(s.vo), SelectLastInSeq(s.vo, LAMBDA t : t.gives \in {"o+", "e^"}), std)

(***************************************************************************)
(* What a key does to a syllable.                                          *)
(***************************************************************************)
\* The id of a transformation that is only tried.
Trial == 0
NoTarget == [target |-> 0, rule |-> VirtualMark(None)]

\* Where a tone rule lands: the vowel that carries the tone, or, without free
\* marking, the last letter if it is a vowel.
FreeTone(s, tone, std) == IF HasValidTone(s, tone) THEN FindToneTarget(s, std) ELSE 0
LastVowel(comp, last) == IF last # 0 /\ IsVowel(comp[last].on) THEN comp[last].id ELSE 0
ToneTarget(im, comp, tone) ==
  IF im.free THEN FreeTone(Split(comp), tone, im.std) ELSE LastVowel(comp, LastAppended(comp))

\* The latest place a mark rule changes the text at and leaves a possible
\* syllable, with the first rule that does: fits has it, or 0, for each place.
Fits(comp, now, trial) == Flatten(trial) # now /\ IsValid(trial, FALSE)
FittingRules(comp, rules, now) ==
  [i \in DOMAIN comp |-> SelectInSeq(rules, LAMBDA r :
     /\ r.kind = "mark" /\ r.effect > 0 /\ comp[i].gives = r.on
     /\ Fits(comp, now, Append(comp, Trans(r, Root(comp[i]), Trial))))]
LatestFit(comp, rules, fits, i) ==
  IF i = 0 THEN NoTarget ELSE [target |-> Root(comp[i]), rule |-> rules[fits[i]]]
MarkTarget(comp, rules, fits) ==
  LatestFit(comp, rules, fits, SelectLastInSeq(fits, LAMBDA r : r # 0))

\* find_target: the first tone rule that changes the text, else a mark rule.
ToneTries(im, comp, rules) ==
  [r \in DOMAIN rules |-> [target |-> ToneTarget(im, comp, rules[r].effect), rule |-> rules[r]]]
ToneChanges(im, comp, rules, now) ==
  Filtered(ToneTries(im, comp, Filtered(rules, LAMBDA r : r.kind = "tone")),
            LAMBDA try : Flatten(Append(comp, Trans(try.rule, try.target, Trial))) # now)
ToneOrMark(comp, rules, tones, now) ==
  IF tones # <<>> THEN Head(tones) ELSE MarkTarget(comp, rules, FittingRules(comp, rules, now))
FindTargetFrom(im, comp, rules, now) ==
  ToneOrMark(comp, rules, ToneChanges(im, comp, rules, now), now)
FindTarget(im, comp, rules) == FindTargetFrom(im, comp, rules, Flatten(comp))

\* generate_undo_transformations: nothing to add, so what the key's rules may
\* have put there is taken away.
Unmark(id, n) == Trans(VirtualMark(None), id, n)
UnmarkAll(ts) == [i \in DOMAIN ts |-> Unmark(Root(ts[i]), Trial)]
UndoRule(im, comp, rule, now) ==
  CASE rule.kind = "tone" ->
         Filtered(<<Trans(VirtualTone(None), ToneTarget(im, comp, rule.effect), Trial)>>,
                   LAMBDA t : t.target # 0)
    [] rule.kind = "mark" ->
         UnmarkAll(Filtered(Reverse(comp), LAMBDA t :
           t.gives = rule.on /\ Toneless(Append(comp, Unmark(Root(t), Trial))) # now))
    [] OTHER -> <<>>
Numbered(ts, n) == [i \in DOMAIN ts |-> [ts[i] EXCEPT !.id = n + i - 1]]
UndoTransformations(im, comp, rules, now, n) ==
  Numbered(FlattenSeq([r \in DOMAIN rules |-> UndoRule(im, comp, rules[r], now)]), n)
UndoAndAppend(undo, key, upper, n) ==
  IF undo = <<>> THEN <<>> ELSE Append(undo, Appending(key, upper, n + Len(undo)))

ShowsSeq(letters, pairs) ==
  {i \in 1 .. Len(letters) - 1 : <<letters[i], letters[i + 1]>> \in pairs}

\* uo with one horn or two, then o: the horns give way to a hat.
HatAfter(found, unmark, upper, n) ==
  IF found.target \in {0, unmark.target} THEN <<>>
  ELSE <<unmark, Cased(Trans(found.rule, found.target, n), upper)>>
HatInstead(im, comp, rules, unmark, upper, n) ==
  HatAfter(FindTarget(im, Append(comp, unmark), rules), unmark, upper, n + 1)
TakeHat(im, comp, rules, now, upper, n) ==
  IF ShowsSeq(now, {<<"u+", "o">>, <<"u+", "o+">>}) = {} THEN <<>>
  ELSE HatInstead(im, comp, rules, Unmark(AppendedOf(Split(comp).vo)[1].id, n), upper, n)

\* What a target found makes: its transformation, and for a mark that leaves
\* the syllable incomplete (u+o) another one, on the other vowel.
OrElse(s, otherwise) == IF s # <<>> THEN s ELSE otherwise
Supplement(found, n) ==
  IF found.target = 0 THEN <<>> ELSE <<Trans(Untyped(found.rule), found.target, n)>>
Completed(im, comp, rules, first) ==
  <<first>> \o IF first.kind = "tone" \/ IsValid(Append(comp, first), TRUE) THEN <<>>
               ELSE Supplement(FindTarget(im, Append(comp, first), rules), first.id + 1)
Found(im, comp, rules, found, upper, n) ==
  IF found.target = 0 THEN <<>>
  ELSE Completed(im, comp, rules, Cased(Trans(found.rule, found.target, n), upper))

\* generate_transformations. An effect key typed twice undoes itself.
Repeats(comp, key) == /\ comp # <<>> /\ Last(comp).kind = "append"
                      /\ Last(comp).key = key /\ Last(comp).gives # key
ApplyRules(im, comp, rules, now, key, upper, n) ==
  OrElse(Found(im, comp, rules, FindTarget(im, comp, rules), upper, n),
         OrElse(TakeHat(im, comp, rules, now, upper, n),
                UndoAndAppend(UndoTransformations(im, comp, rules, now, n), key, upper, n)))
Transformations(im, comp, key, upper, n) ==
  IF Repeats(comp, key) THEN <<Trans(VirtualMark(Raw), Last(comp).id, n)>>
  ELSE ApplyRules(im, comp, ApplicableRules(im, key), Toneless(comp), key, upper, n)

\* generate_fallback_transformations: the letter the key's rule appends, or
\* the key itself; then the horn missing in "uo" with a tail.
KeyLetter(rules, key, upper, n) ==
  IF rules = <<>> THEN Appending(key, upper, n) ELSE Cased(Trans(rules[1], 0, n), upper)
LacksHorn(shown) ==
  \E i \in ShowsSeq(shown, {<<"u", "o+">>, <<"u+", "o">>}) :
    i + 2 <= Len(shown) /\ (IsAlpha(shown[i+2]) \/ IsVietnamese(shown[i+2], None))
WithHorn(im, comp, new) ==
  <<new>> \o IF im.super = "" \/ ~LacksHorn(Toneless(Append(comp, new))) THEN <<>>
             ELSE Supplement(FindTarget(im, Append(comp, new), ApplicableRules(im, im.super)), new.id + 1)
Fallback(im, comp, key, upper, n) ==
  WithHorn(im, comp,
    KeyLetter(Filtered(ApplicableRules(im, key), LAMBDA r : r.kind = "append"), key, upper, n))

\* refresh_last_tone_target: the tone follows the vowel that should carry it.
\* The transformation that holds it is changed in place.
MoveTone(comp, tone, vowel, n) ==
  IF tone = 0 \/ comp[tone].target = vowel THEN comp
  ELSE [comp EXCEPT ![tone].target = vowel]
         \o << Trans(VirtualTone(None), vowel, n), Trans(VirtualTone(comp[tone].effect), vowel, n + 1) >>
LastTone(comp) == SelectLastInSeq(comp, LAMBDA t : t.kind = "tone" /\ t.target # 0)
RefreshIn(im, comp, s, n) ==
  IF s.vo = <<>> THEN comp ELSE MoveTone(comp, LastTone(comp), FindToneTarget(s, im.std), n)
RefreshTone(im, comp, n) ==
  IF im.free /\ IsValid(comp, FALSE) THEN RefreshIn(im, comp, Split(comp), n) ELSE comp

(***************************************************************************)
(* The whole composition (engine.rs).                                      *)
(***************************************************************************)
\* extract_last_word: everything after the last character that is neither a
\* letter nor one of keys.
Separates(letter, keys) == ~IsAlpha(letter) /\ letter \notin keys
WordStart(comp, keys) ==
  1 + SelectLastInSeq(comp, LAMBDA t :
        Visible(t) /\ Separates(Unmarked(Rendered(comp, t)[1]), keys))
LastWord(im, comp) == SubSeq(comp, WordStart(comp, im.keys), Len(comp))

\* extract_last_syllable: the longest run of the last word that can be one.
SyllableFrom(comp, w) ==
  LET Anchor(a, i) == IF i < w \/ IsValid(SubSeq(comp, a, i), FALSE) THEN a ELSE i
  IN  FoldLeft(Anchor, w, [i \in DOMAIN comp |-> i])
SyllableStart(comp) == SyllableFrom(comp, WordStart(comp, {}))

Extended(im, syl, key, upper, n) ==
  syl \o OrElse(Transformations(im, syl, key, upper, n), Fallback(im, syl, key, upper, n))
Refreshed(im, before, syl) == before \o RefreshTone(im, syl, FreshId(before \o syl))
NewSyllable(im, comp, start, key, upper) ==
  Refreshed(im, SubSeq(comp, 1, start - 1),
            Extended(im, SubSeq(comp, start, Len(comp)), key, upper, FreshId(comp)))
NewComposition(im, comp, key, upper) == NewSyllable(im, comp, SyllableStart(comp), key, upper)

ProcessEnglish(comp, key, upper) == Append(comp, Appending(key, upper, FreshId(comp)))
ProcessKey(im, comp, key, upper) ==
  IF CanProcessKey(key, im.keys) THEN NewComposition(im, comp, key, upper)
  ELSE ProcessEnglish(comp, key, upper)

Without(comp, id) == Filtered(comp, LAMBDA t : t.id # id /\ t.target # id)

\* remove_last_char: the last letter goes, and all that was put on it.
\* Mutant: the tone stays where the longer word had it.
ToneStays(im, before, word, refresh) == before \o word

RestOfWord(im, before, word, refresh) ==
  IF refresh THEN Refreshed(im, before, word) ELSE before \o word
RemoveLetter(im, comp, letter, start, refresh) ==
  IF ~CanProcessKey(letter.key, im.keys) THEN Without(comp, letter.id)
  ELSE RestOfWord(im, SubSeq(comp, 1, start - 1),
                  Without(SubSeq(comp, start, Len(comp)), letter.id), refresh)
RemoveLastChar(im, comp, refresh) ==
  IF LastAppended(comp) = 0 THEN comp
  ELSE RemoveLetter(im, comp, comp[LastAppended(comp)], WordStart(comp, im.keys), refresh)

\* restore_last_word(false): the keys of the last word instead of the word.
Retyped(keys, n) == [i \in DOMAIN keys |-> Appending(keys[i][1], keys[i][3], n + i)]
RestoreKeys(im, comp) ==
  SubSeq(comp, 1, WordStart(comp, im.keys) - 1) \o Retyped(Typed(LastWord(im, comp)), FreshId(comp))
==============================================================================
