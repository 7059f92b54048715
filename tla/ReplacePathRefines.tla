-------------------------- MODULE ReplacePathRefines --------------------------
(***************************************************************************)
(* Editing in place implements the editor in which every key is atomic,    *)
(* for an application that deletes and commits as it is told and reports   *)
(* its text when it finds the time, even if the first report comes in the  *)
(* middle of a word and the word moves from the preedit to the document.   *)
(***************************************************************************)
EXTENDS ReplacePath

Visible == doc \o panel

Editor == INSTANCE AtomicEditor
            WITH text <- Visible, word <- core.word, queue <- wire

\* Every step is a step of the atomic editor, or changes nothing visible.
AtomicEdits == Editor!Spec
==============================================================================
