---------------------------- MODULE AtomicEditor ----------------------------
(***************************************************************************)
(* What the user is promised: keys take effect one at a time, in the order *)
(* typed, each edit whole.  There is no daemon, no acknowledgement, no     *)
(* preedit here; only the text on the screen, the word being composed at   *)
(* its end and the keys not yet processed.                                 *)
(***************************************************************************)
EXTENDS KeyEngine

CONSTANT Keys   \* the keys the user types

VARIABLES
  text,    \* what the screen shows
  word,    \* the word being composed
  queue    \* keys typed and not yet processed

vars == <<text, word, queue>>

Init == text = <<>> /\ word = <<>> /\ queue = <<>>

Type(k) ==
  /\ queue' = Append(queue, k)
  /\ UNCHANGED <<text, word>>

\* The edit the core asks for, and then the key itself if the core left it.
Process ==
  /\ queue # <<>>
  /\ LET k == Head(queue)
         r == EngineStep(word, k)
         d == IF r.acted THEN DiffReplace(word, r.commit \o r.word)
                         ELSE [delete |-> 0, insert |-> <<>>]
         edited == DropLast(text, d.delete) \o d.insert
     IN  /\ text' = IF r.handled THEN edited ELSE Deliver(edited, k)
         /\ word' = r.word
  /\ queue' = Tail(queue)

\* Without a way to delete, the key reaches the application as it is.
ProcessRaw ==
  /\ queue # <<>>
  /\ text' = Deliver(text, Head(queue))
  /\ word' = <<>>
  /\ queue' = Tail(queue)

Next ==
  \/ \E k \in Keys : Type(k)
  \/ Process
  \/ ProcessRaw

Spec == Init /\ [][Next]_vars
==============================================================================
