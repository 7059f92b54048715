--------------------------- MODULE MCUinputDaemon ----------------------------
(* Two daemons at the same time or one after the other. Either the lock file *)
(* is removed once, or fcitx5 is restarted once and sends two requests: one   *)
(* Backspace, or more than the daemon serves at once.                         *)
EXTENDS UinputDaemon

MCBudgets == {[locks |-> 2, requests |-> 0, restarts |-> 0],
              [locks |-> 1, requests |-> 2, restarts |-> 1]}
==============================================================================
