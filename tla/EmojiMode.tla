----------------------------- MODULE EmojiMode ------------------------------
(***************************************************************************)
(* Looking up an emoji (PinaKeyState::handleEmojiKey and what it calls,    *)
(* pinakey-ffi's pk_emoji_query and pk_emoji_record_use, RecentEmoji).     *)
(* A query is the text typed since ":" and the ":" itself.                 *)
(***************************************************************************)
EXTENDS EmojiSearch

CONSTANTS
  Hex,          \* parseHexCodepoint: a function from digits to the character
  PageSize,     \* candidates on one page of the list; 9 in the code
  MaxFound,     \* candidates in the list; 30 in the code
  RecentCap     \* EMOJI_RECENT_CAP; 9 in the code

ASSUME EmojiAssumption == /\ PageSize \in Nat \ {0}
                          /\ MaxFound \in Nat
                          /\ RecentCap \in 1 .. PageSize

Closed == [open |-> FALSE, query |-> <<>>, found |-> <<>>, page |-> 0]

Take(s, n) == SubSeq(s, 1, IF n < Len(s) THEN n ELSE Len(s))

\* RecentEmoji::load_from_file: one to a line, the latest first.
LoadRecent(file) == Take(Filtered(file, LAMBDA e : e # ""), RecentCap)

\* Mutant: the list is not cut.
RecordAll(recent, e) == <<e>> \o Filtered(recent, LAMBDA x : x # e)

\* RecentEmoji::record
Record(recent, e) ==
  Take(<<e>> \o Filtered(recent, LAMBDA x : x # e), RecentCap)

\* pk_emoji_query: the recent ones when nothing is asked.
EmojiQuery(q, recent) ==
  IF q = <<>> THEN recent ELSE FuzzyQuery(q)

\* updateEmojiUI: a new list, at its first page.
HexMode(query) == Len(query) >= 2 /\ query[2] = "u"
Update(query, recent) ==
  LET q == Tail(query)
      hex == IF HexMode(query) /\ Tail(q) \in DOMAIN Hex THEN <<Hex[Tail(q)]>> ELSE <<>>
  IN  [open |-> TRUE, query |-> query, page |-> 0,
       found |-> Take(hex \o EmojiQuery(q, recent), MaxFound)]
StartEmoji(recent) == Update(<<":">>, recent)

\* The candidates on the page the user looks at.
Page(em) == SubSeq(em.found, em.page * PageSize + 1,
                   IF (em.page + 1) * PageSize < Len(em.found)
                   THEN (em.page + 1) * PageSize ELSE Len(em.found))
Pages(em) == {p \in 0 .. Len(em.found) : p * PageSize < Len(em.found)}

DigitKeys == << "1", "2", "3", "4", "5", "6", "7", "8", "9" >>
LabelOf(key) == SelectInSeq(DigitKeys, LAMBDA d : d = key)
Picks(em, key) ==
  \/ ~HexMode(em.query) /\ LabelOf(key) \in 1 .. Len(Page(em))
  \/ key \in {"Return", " "} /\ Len(em.query) > 1 /\ em.found # <<>>
\* Mutant: labels count from the start of the list (#97).
PickedFromStart(em, key) == em.found[IF LabelOf(key) = 0 THEN 1 ELSE LabelOf(key)]

Picked(em, key) == Page(em)[IF LabelOf(key) = 0 THEN 1 ELSE LabelOf(key)]

\* Keys that leave the lookup and go on to the application or the engine.
Leaves(em, key) == /\ ~Picks(em, key)
                   /\ key \in {"Return", " ", "Tab", "Paste"}
EmojiText(key) == key \notin {"Return", " ", "Tab", "Paste", "Escape", "BackSpace"}

\* handleEmojiKey: what is left of the lookup, and the literal it commits.
AfterKey(em, key, recent) ==
  CASE key = "BackSpace" /\ Len(em.query) > 1 -> Update(Front(em.query), recent)
    [] EmojiText(key) /\ ~Picks(em, key) -> Update(Append(em.query, key), recent)
    [] OTHER -> Closed
\* Mutant: Escape throws away what was typed.
LiteralOnLeave(em, key) == IF Leaves(em, key) THEN em.query ELSE <<>>

Literal(em, key) ==
  IF Leaves(em, key) \/ key = "Escape" THEN em.query ELSE <<>>
==============================================================================
