---------------------------- MODULE WordVectors -----------------------------
(***************************************************************************)
(* What the repository's tests expect of the macro file, the dictionary    *)
(* and the emoji search (mactab.rs 152-250, dict.rs 70-110, fuzzy.rs       *)
(* 149-190), and what the search is to mean, checked over small words.     *)
(***************************************************************************)
EXTENDS WordFiles, EmojiSearch

Said(letters) == [i \in DOMAIN letters |-> PlainChar(letters[i], FALSE)]
Shouted(letters) == [i \in DOMAIN letters |-> PlainChar(letters[i], TRUE)]
Dollar == Said(<<"$">>)
DATE == Shouted(<<"d", "a", "t", "e">>)
TIME == Shouted(<<"t", "i", "m", "e">>)

Now == [f \in {DateFormat, TimeFormat, "%Y"} |->
          CASE f = DateFormat -> Said(<<"2", "/", "7">>)
            [] f = TimeFormat -> Said(<<"1", "4", ":", "3">>)
            [] OTHER -> Said(<<"2", "6">>)]
Expands(text, result) == ExpandPlaceholders(text, Now, DateFormat, TimeFormat) = result

\* $DATE and $TIME are replaced, next to each other too, $$ is a dollar, any
\* other dollar stays, and a format that is none is not used.
ASSUME PlaceholderVectors ==
  /\ Expands(Dollar \o DATE \o Said(<<" ">>) \o Dollar \o TIME,
             Now[DateFormat] \o Said(<<" ">>) \o Now[TimeFormat])
  /\ Expands(Dollar \o TIME \o Dollar \o DATE, Now[TimeFormat] \o Now[DateFormat])
  /\ Expands(Dollar \o Dollar \o TIME \o Dollar \o TIME, Dollar \o TIME \o Now[TimeFormat])
  /\ \A text \in {Dollar \o Said(<<"5">>), Said(<<"x">>) \o Dollar, Dollar \o Shouted(<<"f">>),
                  Dollar \o LowerCase(TIME), <<>>} : Expands(text, text)
  /\ ExpandPlaceholders(Dollar \o DATE, Now, "%Y", TimeFormat) = Now["%Y"]
  /\ ExpandPlaceholders(Dollar \o DATE, Now, "%!", TimeFormat) = Now[DateFormat]
  /\ ExpandPlaceholders(Dollar \o TIME, Now, DateFormat, "%!") = Now[TimeFormat]

\* Blank lines and comments are skipped, spaces around a word do not count,
\* nor does its case; of two macros with one key the later one holds.
ASSUME FileVectors ==
  LET file == << Said(<<"#", "a">>), Said(<<" ", "n", "a", " ">>), <<>>, Shouted(<<"v">>) >>
      key == Said(<<"v", "n">>)
      macros == << Shouted(<<"v", "n", ":", "x">>), Said(<<";", "a", ":", "b">>),
                   Said(<<"v", "n", " ", ":", " ", "y", ":", "z">>), Said(<<"o">>) >>
  IN  /\ Words(file) = {Said(<<"n", "a">>), Said(<<"v">>)}
      /\ LoadDictionary(FALSE, file, file) = {}
      /\ MacroTable(macros, TRUE) = {[key |-> key, text |-> Said(<<"y", ":", "z">>)]}
      /\ MacroTable(macros, FALSE) = MacroTable(macros, TRUE)
           \cup {[key |-> Shouted(<<"v", "n">>), text |-> Shouted(<<"x">>)]}
      /\ BuildMacroTable(FALSE, TRUE, macros) = {}

\* A run from the start beats scattered letters, the start of a word its
\* middle, the shorter name the longer.
ASSUME ScoreVectors ==
  LET grin == <<"g", "r", "i", "n">>
      he == <<"h", "e">>
      cat == <<"c", "a", "t">>
  IN  /\ Score(grin, grin \o <<"n", "i", "n", "g">>)
           > Score(grin, <<"g", "r", "e", "e", "n", "_", "r", "u", "n", "n", "i", "n", "g">>)
      /\ Score(he, <<"x", "_", "h", "e", "a", "d">>) > Score(he, <<"a", "s", "h", "e", "a", "d">>)
      /\ Score(cat, cat) > Score(cat, cat \o <<"_", "w", "i", "t", "h">>)
      /\ ~Matches(<<"h", "e", "a", "r", "t", "s">>, <<"h", "e", "a", "r", "t">>)

\* Going through the name once finds a query exactly when its characters can
\* be found in order at all.
InOrder(query, name) ==
  \E at \in [DOMAIN query -> DOMAIN name] :
    /\ \A i \in DOMAIN query : name[at[i]] = query[i]
    /\ \A i, j \in DOMAIN query : i < j => at[i] < at[j]
ASSUME ScanFindsAll ==
  \A query \in BoundedSeq({"a", "b", "_"}, 3) \ {<<>>}, name \in BoundedSeq({"a", "b", "_"}, 4) :
    Matches(query, name) <=> InOrder(query, name)

\* Each emoji is found once, by its best name, and none without a match.
ASSUME FoundOnce ==
  \A query \in BoundedSeq({"a", "b", "u", "_"}, 2) :
    /\ IsInjective(FuzzyQuery(query))
    /\ ToSet(FuzzyQuery(query)) = {e.emoji : e \in {x \in Index : Matches(query, x.key)}}
    /\ \A i, j \in DOMAIN FuzzyQuery(query) : i < j =>
         \E x \in Index : /\ x.emoji = FuzzyQuery(query)[i] /\ Matches(query, x.key)
                          /\ \A y \in Index : y.emoji = FuzzyQuery(query)[j] /\ Matches(query, y.key)
                                => Score(query, x.key) >= Score(query, y.key)
==============================================================================
