-------------------------- MODULE UinputAckRefines --------------------------
(***************************************************************************)
(* The acknowledgement protocol implements the editor in which every edit  *)
(* is atomic: as long as no chain times out and nothing is lost, the text  *)
(* on the screen goes through exactly the states of AtomicEditor, whether  *)
(* a word is edited through the daemon or composed in a preedit, and       *)
(* whatever is typed while a chain is open.                                *)
(***************************************************************************)
EXTENDS UinputAck

\* The document once the open chain has run to its end.
Settled ==
  IF deleting THEN Completed(DropLast(doc, expected - 1 - current)) ELSE doc

\* What the user is bound to see: the preedit counts, it stands at the cursor.
Visible == Settled \o panel

\* The user's keys in an input stream, in their order: the n-th stands at the
\* place that has n of them up to it.
UserPlaces(w) == {i \in DOMAIN w : w[i] # Injected}

Rank(w, i) == Cardinality({j \in UserPlaces(w) : j <= i})

UserKeys(w) ==
  [n \in 1 .. Cardinality(UserPlaces(w)) |-> w[CHOOSE i \in UserPlaces(w) : Rank(w, i) = n]]

\* The keys the user typed that no step has handled yet.
Unhandled ==
  buffered \o (IF held = NoKey THEN <<>> ELSE <<held>>) \o UserKeys(wire)

Editor == INSTANCE AtomicEditor
            WITH text <- Visible, word <- core.word, queue <- Unhandled

\* Every step of the protocol is a step of the atomic editor, or changes
\* nothing the user can see.
AtomicEdits == Editor!Spec
==============================================================================
