----------------------------- MODULE AtomicFile ------------------------------
(***************************************************************************)
(* What a configuration file promises its readers: it holds, at any time,  *)
(* something that was written as a whole, and a power failure brings back  *)
(* nothing but what has stood there since it was last made durable.        *)
(***************************************************************************)
CONSTANT Values

VARIABLES
  now,    \* what a reader finds
  kept    \* what a reader may find after a power failure

Init == now \in Values /\ kept = {now}

Put(v) == now' = v /\ kept' = kept \cup {v}
Flush == kept' = {now} /\ UNCHANGED now
PowerFails == now' \in kept /\ kept' = {now'}

Next == (\E v \in Values : Put(v)) \/ Flush \/ PowerFails

Spec == Init /\ [][Next]_<<now, kept>>
==============================================================================
