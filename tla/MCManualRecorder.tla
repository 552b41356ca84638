-------------------------- MODULE MCManualRecorder --------------------------
(***************************************************************************)
(* Instances of ManualRecorder for TLC: a page a with a field and a        *)
(* button, which may become b under another url, and from there a again.   *)
(***************************************************************************)
EXTENDS ManualRecorder

CONSTANT Together    \* how much of what may happen happens in one session

Click(el) == [on |-> el, by |-> "click"]
Type(el) == [on |-> el, by |-> "type"]
Press(el) == [on |-> el, by |-> "press"]

McPages == {"a", "b"}
McElements == {"go", "field", "back"}
McUrl == [a |-> "/", b |-> "/b"]
McLeads == [a |-> {"b"}, b |-> {"a"}]
McOffers == [a |-> {Click("go"), Press("field")}, b |-> {Type("field"), Click("back")}]

(* What the user, the page and the client do, and every irregularity but   *)
(* a failed request, which is one of the requests already.  TLC looks at   *)
(* the behaviours in which it does not come to more than Together: it      *)
(* would report, not hide, a fair step that leads only beyond.             *)
AsExpected ==
  MaxActs + MaxDrifts + MaxRequests + Cardinality(slips \ {"failed"})
    <= Together + budget.act + budget.drift + budget.request
=============================================================================
