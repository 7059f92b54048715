------------------------ MODULE CompositionVectors ------------------------
(***************************************************************************)
(* What the repository's own tests expect of the composition               *)
(* (pinakey-core tests/transformation.rs), checked of the operators of     *)
(* Composition whenever a module that extends this one is run.             *)
(***************************************************************************)
EXTENDS Composition

TestMethod == InputMethod("Telex 2", 0, TRUE)
Strike(im, keys) == FoldLeft(LAMBDA comp, key : ProcessKey(im, comp, key, FALSE), <<>>, keys)
After(keys) == Strike(TestMethod, keys)

\* What the proofs assume of a method, every built-in one has.
ASSUME BuiltInMethods ==
  \A name \in DOMAIN InputMethodDefinitions, wShortcut \in 0 .. 2, std \in BOOLEAN :
    MethodOK(InputMethod(name, wShortcut, std))

\* A vector: the keys, the letters they make and the tones on them.
Vector(keys, letters, tones) == [keys |-> keys, letters |-> letters, tones |-> tones]
Shows(comp, v) ==
  LET text == Flatten(LastWord(TestMethod, comp))
  IN  /\ LettersOf(text) = v.letters
      /\ [i \in DOMAIN text |-> text[i][2]] = v.tones

Compositions == {
  Vector(<<"a","w">>, <<"a(">>, <<0>>),
  Vector(<<"u","w","o","w">>, <<"u+","o+">>, <<0, 0>>),
  Vector(<<"c","h","u","a","a","r","n">>, <<"c","h","u","a^","n">>, <<0, 0, 0, Hook, 0>>),
  Vector(<<"g","i","a","m","a","f">>, <<"g","i","a^","m">>, <<0, 0, Grave, 0>>),
  Vector(<<"d","d","a","f","i">>, <<"d-","a","i">>, <<0, Grave, 0>>),
  Vector(<<"m","o","o","t","j">>, <<"m","o^","t">>, <<0, Dot, 0>>),
  Vector(<<"h","o","a","s","n">>, <<"h","o","a","n">>, <<0, 0, Acute, 0>>),
  Vector(<<"n","o","w","w">>, <<"n","o","w">>, <<0, 0, 0>>),
  Vector(<<"s","a","w","s","s">>, <<"s","a(","s">>, <<0, 0, 0>>),
  Vector(<<"w","o","w","f","i">>, <<"u+","o+","i">>, <<0, Grave, 0>>),
  Vector(<<"c","a","t","r">>, <<"c","a","t","r">>, <<0, 0, 0, 0>>),
  Vector(<<"t","o","o","w","i">>, <<"t","o+","i">>, <<0, 0, 0>>),
  Vector(<<"a","l","o","o">>, <<"a","l","o^">>, <<0, 0, 0>>),
  Vector(<<"t","o","o","s","s">>, <<"t","o^","s">>, <<0, 0, 0>>),
  Vector(<<"t","o","s","o","s">>, <<"t","o^","s">>, <<0, 0, 0>>),
  Vector(<<"w","w">>, <<"w">>, <<0>>),
  Vector(<<"w","i","w">>, <<"u","i","w">>, <<0, 0, 0>>),
  Vector(<<"]","]","a">>, <<"]","a">>, <<0, 0>>),
  Vector(<<"d","u","w","o","i">>, <<"d","u+","o+","i">>, <<0, 0, 0, 0>>) }

\* The same after the last letter is taken away.
Shortened == {
  Vector(<<"t","h","u","o","w">>, <<"t","h","u">>, <<0, 0, 0>>),
  Vector(<<"h","a","n","h","j">>, <<"h","a","n">>, <<0, Dot, 0>>) }

ASSUME RepositoryVectors ==
  /\ \A v \in Compositions : Shows(After(v.keys), v)
  /\ \A v \in Shortened : Shows(RemoveLastChar(TestMethod, After(v.keys), TRUE), v)

\* Spelling: what may still become a syllable, and the keys behind a word.
ASSUME RepositoryWords ==
  /\ IsValid(After(<<"d","d">>), FALSE) /\ IsValid(After(<<"g","i","w">>), FALSE)
  /\ LettersOf(Typed(After(<<"s","a","w","s","s">>))) = <<"s","a","w","s","s">>
  /\ LettersOf(Typed(After(<<"w","w">>))) = <<"w">>

\* Keys that are digits or punctuation: the Microsoft layout of the tests, and
\* VIQR after its definition.
ASSUME RepositoryLayouts ==
  LET ms == InputMethod("Microsoft layout", 0, TRUE)
      viqr == InputMethod("VIQR", 0, TRUE)
      all == InputMethod("Telex + VNI + VIQR", 0, TRUE)
      digits == Strike(ms, <<"1","1","2">>)
      word == RestoreKeys(ms, Strike(ms, <<"d","[","]","n","g","9"," ","t","4","i">>))
      Text(im, keys) == Flatten(Strike(im, keys))
  IN  /\ LettersOf(Flatten(LastWord(ms, digits))) = <<"1","a^">>
      /\ LettersOf(Typed(LastWord(ms, RestoreKeys(ms, digits)))) = <<"1","2">>
      /\ LettersOf(Flatten(LastWord(ms, word))) = <<"t","4","i">>
      /\ Text(viqr, <<"d","d","u","o","+","n","g",".">>) = Text(all, <<"d","\\","u","w","o","n","g","5">>)
==============================================================================
