------------------------------ MODULE MCSession ------------------------------
(***************************************************************************)
(* Instances of Session for TLC.                                           *)
(***************************************************************************)
EXTENDS Session

MCConfigs == [im : {"Telex", "VNI"}, macros : {TRUE}]
MCDefault == [im |-> "Telex", macros |-> TRUE]
MCEdits == {Bad}
==============================================================================
