--------------------------- MODULE MCPageExploration ---------------------------
(***************************************************************************)
(* A site of four pages for TLC: h with a login form and a button that     *)
(* opens a popup, p under the same url with the same button and a search   *)
(* box, q with a list to select from and a button "wipe" with a            *)
(* destructive keyword, and behind it r.  Elements that are disabled,      *)
(* belong to a form, are no links to pages or come too late are on the     *)
(* pages, too.                                                             *)
(***************************************************************************)
EXTENDS PageExploration, TLC

CONSTANTS
  Kills, Cancels, Replays, Faults,
  Together    \* how many of these one session suffers

McBudget == [kill |-> Kills, cancel |-> Cancels, replay |-> Replays, fault |-> Faults]

(* What an element is when nothing else is said.                           *)
Element(key, tag, type, flags) ==
  [key |-> key, selector |-> "#" \o key, tag |-> tag, type |-> type, href |-> NoText,
   group |-> NoText, options |-> <<>>, fill |-> "test", flags |-> flags]

Link(key, href) == [Element(key, "a", NoText, {}) EXCEPT !.href = href]
List(key, options) == [Element(key, "select", "select-one", {}) EXCEPT !.options = options]
Button(key) == Element(key, "button", "submit", {})

LoginForm ==
  [id |-> "form-0", submit |-> Button("enter"),
   fields |-> <<Element("user", "input", "text", {"required"}),
                Element("secret", "input", "password", {}),
                Element("remember", "input", "checkbox", {})>>]

DeadForm ==
  [id |-> "form-1", submit |-> [Button("none") EXCEPT !.selector = NoText], fields |-> <<>>]

DeepStates == {"h", "p", "q", "r"}

DeepPage ==
  [h |-> [elements |-> <<Element("user", "input", "text", {"in_form"}), Button("act"),
                         Element("off", "button", "submit", {"disabled"})>>,
          forms |-> <<LoginForm>>],
   p |-> [elements |-> <<Link("write", "mailto:"), Element("search", "input", "search", {}),
                         Button("act"), Link("more", "/more")>>,
          forms |-> <<DeadForm>>],
   q |-> [elements |-> <<List("goto", <<NoText, "r", "q">>), Button("wipe"),
                         List("empty", <<NoText>>)>>,
          forms |-> <<>>],
   r |-> [elements |-> <<[Button("lost") EXCEPT !.selector = NoText]>>, forms |-> <<>>]]

(* What is planned for these pages, and where it leads to.  Written out,   *)
(* for TLC computes it again and again when it checks liveness;            *)
(* PageAssumption compares it with the plans.                              *)
DeepActions ==
  {"click enter ", "click act ", "type search test", "press search Enter", "click wipe ",
   "select goto r", "navigate"}
DeepOffered ==
  [h |-> {"click enter ", "click act "},
   p |-> {"type search test", "press search Enter", "click act "},
   q |-> {"select goto r", "click wipe "}, r |-> {}]
DeepRisky == {"click wipe "}
DeepLogin == "click enter "

DeepTargets ==
  [h |-> "click enter " :> {"p"} @@ "click act " :> {"h"} @@ "navigate" :> {"q"},
   p |-> "type search test" :> {"p"} @@ "press search Enter" :> {"h", "q"} @@ "click act " :> {"r"},
   q |-> "select goto r" :> {"r"}, r |-> "" :> {}]
DeepLeads ==
  [s \in DeepStates |-> [a \in DeepActions |->
     IF a \in DOMAIN DeepTargets[s] THEN DeepTargets[s][a] ELSE {}]]
DeepPopups == [a \in DeepActions |-> IF a = "click act " THEN {"navigate"} ELSE {}]
DeepUrl == [h |-> "/", p |-> "/", q |-> "/q", r |-> "/q"]

(* A short text that tells identities apart.                               *)
McHash(i) == i.type \o " " \o i.key \o " " \o i.value

(* Forms of up to three radio buttons and checkboxes.                      *)
Box(i, type, group, flags) ==
  [Element(<<"1", "2", "3">>[i], "input", type, flags) EXCEPT !.group = group]

Boxes(i) ==
  {Box(i, "radio", group, flags) : group \in {"a", "b"}, flags \in SUBSET {"checked", "disabled"}}
    \union {Box(i, "checkbox", "a", flags) : flags \in SUBSET {"checked", "disabled", "required"}}

OneChecked(fields) ==
  \A f, g \in {fields[i] : i \in DOMAIN fields} :
    /\ f # g /\ f.type = "radio" /\ g.type = "radio" /\ f.group = g.group
    => ~("checked" \in f.flags /\ "checked" \in g.flags)

SmallForms ==
  {[id |-> "form-2", submit |-> Button("send"), fields |-> fields] :
     fields \in {f \in {<<x, y, z>> : x \in Boxes(1), y \in Boxes(2), z \in Boxes(3)} : OneChecked(f)}}

(* A constraint on what is left of the budget.  It cuts off nothing but    *)
(* disturbances, which no fairness condition asks for, so it leaves out    *)
(* behaviours and makes none: liveness may be checked under it.            *)
AsDisturbed ==
  Kills + Cancels + Replays + Faults
    <= Together + budget.kill + budget.cancel + budget.replay + budget.fault
=============================================================================
