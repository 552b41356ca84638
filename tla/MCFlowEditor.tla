---------------------------- MODULE MCFlowEditor ----------------------------
(***************************************************************************)
(* Instances of FlowEditor for TLC: a flow that passes a transition twice, *)
(* one with an action that cannot be executed and a transition that the    *)
(* graph does not have any more, and an empty one; and which disturbances  *)
(* a run allows, and how often.                                            *)
(***************************************************************************)
EXTENDS FlowEditor

CONSTANTS Sends, Troubles

McBudget == [send |-> Sends, trouble |-> Troubles]

Typing == <<[type |-> "type", selector |-> "#q"], [type |-> "press", selector |-> ""]>>

McGraph ==
  [search |-> [value |-> Typing, type |-> "press", selector |-> "#q"],
   back |-> [value |-> <<[type |-> "", selector |-> "#back"]>>, type |-> "click", selector |-> "#back"],
   drag |-> [value |-> <<[type |-> "hover", selector |-> ""], [type |-> "click", selector |-> ""]>>,
             type |-> "click", selector |-> ""]]

McFlows == {<<"search", "back", "search">>, <<"drag", "lost">>, <<>>}
=============================================================================
