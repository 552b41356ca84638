--------------------------- MODULE MCCrawlFrontier ---------------------------
(***************************************************************************)
(* Instances of CrawlFrontier for TLC: a small site with a home page h, a  *)
(* page p under the same url and a page q under another one.  Action "nav" *)
(* is a link all pages share, "act" a button of h and p that may do        *)
(* nothing, and opens a popup on h; "login" is the login form of h.        *)
(***************************************************************************)
EXTENDS CrawlFrontier, TLC

CONSTANTS
  Kills, Cancels, Replays, Faults,
  Together    \* how many of these one session suffers

McBudget == [kill |-> Kills, cancel |-> Cancels, replay |-> Replays, fault |-> Faults]

McStates == {"h", "p", "q"}
McActions == {"nav", "act", "popup", "login"}
McOffered == [h |-> {"nav", "act", "login"}, p |-> {"nav", "act"}, q |-> {"nav"}]
McLeads ==
  [h |-> [nav |-> {"p"}, act |-> {"h"}, popup |-> {"q"}, login |-> {"p"}],
   p |-> [nav |-> {"h"}, act |-> {"p", "q"}, popup |-> {"q"}, login |-> {}],
   q |-> [nav |-> {"p"}, act |-> {}, popup |-> {}, login |-> {}]]
McPopups == [nav |-> {}, act |-> {"popup"}, popup |-> {}, login |-> {}]
McUrl == [h |-> "/", p |-> "/", q |-> "/q"]

(* A smaller site, for crawlers that overlap: p shows one link only.       *)
SmallStates == {"h", "p"}
SmallActions == {"nav", "act", "popup"}
SmallOffered == [h |-> {"nav", "act"}, p |-> {"nav"}]
SmallLeads ==
  [h |-> [nav |-> {"p"}, act |-> {"h"}, popup |-> {"p"}],
   p |-> [nav |-> {"h"}, act |-> {}, popup |-> {}]]
SmallPopups == [nav |-> {}, act |-> {"popup"}, popup |-> {}]
SmallUrl == [h |-> "/", p |-> "/"]

(* A constraint on what is left of the budget.  It cuts off nothing but    *)
(* disturbances, which no fairness condition asks for, so it leaves out    *)
(* behaviours and makes none: liveness may be checked under it.            *)
AsDisturbed ==
  Kills + Cancels + Replays + Faults
    <= Together + budget.kill + budget.cancel + budget.replay + budget.fault

McSymmetry == Permutations(Crawlers)
=============================================================================
