---------------------------- MODULE InputMethods ----------------------------
(***************************************************************************)
(* The built-in input methods and the rules their definitions are parsed   *)
(* into (pinakey-core input_method_def.rs, rules_parser.rs).               *)
(***************************************************************************)
EXTENDS Letters, SequencesExt

\* A line of a definition: a tone key ("DauSac"), a mark key ("AEO_...": each
\* letter of "on" becomes the letter of "gives") and the letter the key may
\* append on its own ("__...", "" for none).
ToneLine(key, tone) == [key |-> key, tone |-> tone, on |-> <<>>, gives |-> <<>>, app |-> ""]
MarkLine(key, on, gives) == [key |-> key, tone |-> 9, on |-> on, gives |-> gives, app |-> ""]
AppendLine(key, letter) == [key |-> key, tone |-> 9, on |-> <<>>, gives |-> <<>>, app |-> letter]

TelexTones == << ToneLine("z", None), ToneLine("s", Acute), ToneLine("f", Grave),
                 ToneLine("r", Hook), ToneLine("x", Tilde), ToneLine("j", Dot) >>
TelexHats == << MarkLine("a", <<"a">>, <<"a^">>), MarkLine("e", <<"e">>, <<"e^">>),
                MarkLine("o", <<"o">>, <<"o^">>) >>
TelexW == MarkLine("w", <<"u", "o", "a">>, <<"u+", "o+", "a(">>)
TelexD == MarkLine("d", <<"d">>, <<"d-">>)
Telex == TelexTones \o TelexHats \o <<TelexW, TelexD>>

VniTones == << ToneLine("0", None), ToneLine("1", Acute), ToneLine("2", Grave),
               ToneLine("3", Hook), ToneLine("4", Tilde), ToneLine("5", Dot) >>
VniMarks == << MarkLine("6", <<"a", "e", "o">>, <<"a^", "e^", "o^">>),
               MarkLine("7", <<"u", "o">>, <<"u+", "o+">>),
               MarkLine("8", <<"a">>, <<"a(">>), MarkLine("9", <<"d">>, <<"d-">>) >>
Vni == VniTones \o VniMarks

TelexWithU == TelexTones \o TelexHats \o <<[TelexW EXCEPT !.app = "u+"], TelexD>>
\* The shifted keys, which append the capitals, are left out here and below.
Brackets == << AppendLine("]", "u+"), AppendLine("[", "o+") >>

ViqrTones == << ToneLine("'", Acute), ToneLine("backtick", Grave), ToneLine("?", Hook),
                ToneLine("~", Tilde), ToneLine(".", Dot) >>
ViqrMarks == << MarkLine("^", <<"a", "e", "o">>, <<"a^", "e^", "o^">>),
                MarkLine("+", <<"u", "o">>, <<"u+", "o+">>),
                MarkLine("*", <<"u", "o">>, <<"u+", "o+">>), MarkLine("(", <<"a">>, <<"a(">>) >>
Viqr == <<ToneLine("0", None)>> \o ViqrTones \o ViqrMarks \o <<TelexD>>

MicrosoftLayout ==
  << ToneLine("8", Acute), ToneLine("5", Grave), ToneLine("6", Hook), ToneLine("7", Tilde),
     ToneLine("9", Dot), AppendLine("1", "a("), AppendLine("2", "a^"), AppendLine("3", "e^"),
     AppendLine("4", "o^"), AppendLine("0", "d-"), AppendLine("[", "u+"), AppendLine("]", "o+") >>

\* Left out: the VNI of the French keyboard, whose keys carry marks themselves.
InputMethodDefinitions ==
  [ n \in {"Telex", "Telex simple", "VNI", "VIQR", "Microsoft layout", "Telex 2",
           "Telex + VNI", "Telex + VNI + VIQR", "Telex W"} |->
      CASE n = "VNI" -> Vni
        [] n = "VIQR" -> Viqr
        [] n = "Microsoft layout" -> MicrosoftLayout
        [] n = "Telex + VNI + VIQR" ->
             Telex \o Vni \o ViqrTones \o ViqrMarks \o <<[TelexD EXCEPT !.key = "\\"]>>
        [] n = "Telex 2" -> TelexWithU \o Brackets
        [] n = "Telex + VNI" -> Telex \o Vni
        [] n = "Telex W" -> TelexWithU
        [] OTHER -> Telex ]

\* The letter a rule makes that makes none ('\0' in the code).
NoLetter == ""

\* A rule: what key does, to which letter (on), with which effect (a tone or a
\* mark) and which letter it makes (gives).
Rule(key, kind, on, effect, gives) ==
  [key |-> key, kind |-> kind, on |-> on, effect |-> effect, gives |-> gives]

\* Every letter of the family takes the mark; the one that has it already
\* loses it (effect None).
MarkRule(key, on, gives, member) ==
  IF member = gives THEN Rule(key, "mark", gives, None, on)
  ELSE Rule(key, "mark", member, MarkOf(gives), gives)
FamilyRules(key, on, gives, family) ==
  [i \in DOMAIN family |-> MarkRule(key, on, gives, family[i])]
MarkRules(key, on, gives) == FamilyRules(key, on, gives, FamilyOf(on))

ParseRules(line) ==
  IF line.tone # 9 THEN <<Rule(line.key, "tone", "", line.tone, NoLetter)>>
  ELSE FlattenSeq([i \in DOMAIN line.on |-> MarkRules(line.key, line.on[i], line.gives[i])])
       \o IF line.app = "" THEN <<>> ELSE <<Rule(line.key, "append", line.app, 0, line.app)>>

\* build_preeditor: w_shortcut adds the appended letter to a w that has none;
\* the simple Telex gives up free tone marking.
TakesShortcut(line) == line.key = "w" /\ line.app = "" /\ line.tone = 9
WithShortcut(lines, wShortcut) ==
  [i \in DOMAIN lines |-> IF wShortcut > 0 /\ TakesShortcut(lines[i])
                         THEN [lines[i] EXCEPT !.app = "u+"] ELSE lines[i]]
MovesHorns(line) == Len(line.on) > 1 /\ SubSeq(line.on, 1, 2) = <<"u", "o">>

ParseLines(lines) == FlattenSeq([i \in DOMAIN lines |-> ParseRules(lines[i])])
Parsed(lines, rules, super, free, std) ==
  LET keys == {lines[i].key : i \in DOMAIN lines}
  IN  [ keys |-> keys,
        rules |-> [k \in keys |-> SelectSeq(rules, LAMBDA r : r.key = k)],
        appending |-> {rules[i].key : i \in {j \in DOMAIN rules : rules[j].kind = "append"}},
        super |-> IF super = 0 THEN "" ELSE lines[super].key,
        free |-> free, std |-> std ]
MethodOf(lines, free, std) ==
  Parsed(lines, ParseLines(lines), SelectInSeq(lines, MovesHorns), free, std)
InputMethod(name, wShortcut, stdStyle) ==
  MethodOf(WithShortcut(InputMethodDefinitions[name], wShortcut), name # "Telex simple", stdStyle)

ApplicableRules(im, key) == IF key \in im.keys THEN im.rules[key] ELSE <<>>

\* What a method is made of: a key is a character, never the space or the
\* colon, and has the rules of its own lines; a tone makes no letter; a letter
\* a key appends is one of the alphabet, and a vowel where the key itself is.
RuleFields ==
  [key : Symbols, kind : {"append", "mark", "tone"}, on : Symbols, effect : Nat, gives : Symbols]
RuleSet == {r \in RuleFields : r.kind = "tone" => r.gives = NoLetter}
Appends(r) == Unmarked(r.on) \in Alpha /\ r.on = r.gives /\ (IsVowel(r.key) => IsVowel(r.on))
MethodOK(im) ==
  /\ im.keys \subseteq (Alpha \cup Punctuation \cup Digits) \ {" ", ":"}
  /\ \A k \in im.keys :
       /\ im.rules[k] \in Seq(RuleSet)
       /\ \A i \in DOMAIN im.rules[k] : im.rules[k][i].key = k
       /\ \A i \in DOMAIN im.rules[k] :
            im.rules[k][i].kind = "append" => k \in im.appending /\ Appends(im.rules[k][i])
  /\ im.appending \subseteq im.keys
  /\ im.super \in im.keys \cup {""}
  /\ im.free \in BOOLEAN /\ im.std \in BOOLEAN
==============================================================================
