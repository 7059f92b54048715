------------------------------ MODULE Spelling ------------------------------
(***************************************************************************)
(* Which (first consonant, vowel, last consonant) a Vietnamese syllable    *)
(* may have, or may still become (pinakey-core spelling.rs).               *)
(***************************************************************************)
EXTENDS Letters

FirstConsonants == <<
  { <<"b">>, <<"d">>, <<"d-">>, <<"g">>, <<"g","h">>, <<"m">>, <<"n">>, <<"n","h">>, <<"p">>,
    <<"p","h">>, <<"r">>, <<"s">>, <<"t">>, <<"t","r">>, <<"v">>, <<"z">> },
  { <<"c">>, <<"h">>, <<"k">>, <<"k","h">>, <<"q","u">>, <<"t","h">> },
  { <<"c","h">>, <<"g","i">>, <<"l">>, <<"n","g">>, <<"n","g","h">>, <<"x">> },
  { <<"d-">>, <<"l">> },
  { <<"h">> } >>

Vowels == <<
  { <<"e^">>, <<"i">>, <<"u","a">>, <<"u","e^">>, <<"u","y">>, <<"y">> },
  { <<"a">>, <<"i","e^">>, <<"o","a">>, <<"u","y","e^">>, <<"y","e^">> },
  { <<"a^">>, <<"a(">>, <<"e">>, <<"o">>, <<"o","o">>, <<"o^">>, <<"o+">>, <<"o","e">>, <<"u">>,
    <<"u+">>, <<"u","a^">>, <<"u","o^">>, <<"u+","o+">> },
  { <<"o","a(">> },
  { <<"u","o+">> },
  { <<"a","i">>, <<"a","o">>, <<"a","u">>, <<"a^","u">>, <<"a","y">>, <<"a^","y">>, <<"e","o">>,
    <<"e^","u">>, <<"i","a">>, <<"i","e^","u">>, <<"i","u">>, <<"o","a","i">>, <<"o","a","o">>,
    <<"o","a","y">>, <<"o","e","o">>, <<"o","i">>, <<"o^","i">>, <<"o+","i">>, <<"u+","a">>,
    <<"u","a^","y">>, <<"u","i">>, <<"u+","i">>, <<"u","o^","i">>, <<"u+","o+","i">>,
    <<"u+","o+","u">>, <<"u+","u">>, <<"u","y","a">>, <<"u","y","u">>, <<"y","e^","u">> },
  { <<"a(">> },
  { <<"i">> } >>

LastConsonants == << { <<"c","h">>, <<"n","h">> }, { <<"c">>, <<"n","g">> },
                     { <<"m">>, <<"n">>, <<"p">>, <<"t">> }, { <<"k">> }, { <<"c">> } >>

\* The rows of vowels a row of first consonants goes with, and the rows of
\* last consonants a row of vowels does.
CV == << {1, 2, 3, 6}, {1, 2, 3, 4, 5, 6}, {1, 2, 3, 4, 6}, {7}, {8} >>
VC == << {1, 3}, {1, 2, 3}, {2, 3}, {2, 3}, {}, {}, {4}, {5} >>

\* lookup: the rows with a word that s is (full) or begins; an incomplete
\* input may still lack the word's marks.
Lookup(rows, s, full, complete) ==
  {r \in DOMAIN rows : \E w \in rows[r] :
     /\ IF full THEN Len(w) = Len(s) ELSE Len(w) >= Len(s)
     /\ \A k \in DOMAIN s : s[k] = w[k] \/ (~complete /\ s[k] = Unmarked(w[k]))}

Agree(fc, vo, lc, fcRows, voRows, lcRows) ==
  /\ fc = <<>> \/ fcRows # {}
  /\ vo = <<>> \/ voRows # {}
  /\ lc = <<>> \/ lcRows # {}
  /\ IF vo = <<>> THEN fc # <<>>
     ELSE /\ fc = <<>> \/ \E r \in fcRows : CV[r] \cap voRows # {}
          /\ lc = <<>> \/ \E r \in voRows : VC[r] \cap lcRows # {}
IsValidCVC(fc, vo, lc, full) ==
  Agree(fc, vo, lc, Lookup(FirstConsonants, fc, full \/ vo # <<>>, TRUE),
        Lookup(Vowels, vo, full \/ lc # <<>>, full), Lookup(LastConsonants, lc, full, TRUE))
==============================================================================
