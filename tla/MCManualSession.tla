--------------------------- MODULE MCManualSession ---------------------------
(***************************************************************************)
(* Instances of ManualSession for TLC: which disturbances a run allows,    *)
(* and how often.                                                          *)
(***************************************************************************)
EXTENDS ManualSession

CONSTANTS Submits, Sends, Others

McBudget == [submit |-> Submits, send |-> Sends, other |-> Others]
=============================================================================
