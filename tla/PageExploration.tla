---------------------------- MODULE PageExploration ----------------------------
(***************************************************************************)
(* CrawlFrontier over pages that are made of elements and forms: its       *)
(* actions are the identities of the sequences that ActionPlanning plans.  *)
(***************************************************************************)
EXTENDS CrawlFrontier, ActionPlanning

CONSTANTS
  Page,       \* Page[s]: the elements and forms the state s shows
  Forms,      \* further forms, for their plans alone
  Hash(_)     \* sha256 of an identity

(* The keys of the actions (action_key_fingerprint).                       *)
OfferedBy == [s \in States |-> {Hash(i) : i \in Identities(Page[s])}]

RiskyBy == {Hash(i) : i \in UNION {RiskyIdentities(Page[s]) : s \in States}}

(* _plan_login_actions.                                                    *)
LoginBy ==
  LET forms == LoginForms(Page[Home].forms) IN
    IF forms = <<>> THEN NoLogin ELSE Hash(Identity(PlanFormSubmission(forms[1])))

(* What the scripts in the page report (get_interactable_elements.js,      *)
(* get_forms.js): an element is listed once, under the selector that is    *)
(* part of its key; a form has an id of its own, or a number; its submit   *)
(* element is reported without a path in the document, so that no element  *)
(* has its key.                                                            *)
ToldApart(page) ==
  /\ \A e, f \in Range(page.elements) : e.key = f.key /\ e.selector = f.selector => e = f
  /\ \A f, g \in Range(page.forms) : f.id = g.id => f = g
  /\ \A e \in Range(page.elements), f \in Range(page.forms) : e.key # f.submit.key

(* ... and what a browser makes of the fields of a form: only boxes and    *)
(* buttons are checked, of the buttons of a group one at most.             *)
WellFormed(form) ==
  LET fields == form.fields IN
    /\ \A i, j \in DOMAIN fields : fields[i].key = fields[j].key => i = j
    /\ \A f \in Range(fields) :
         /\ f.type \in {"radio", "checkbox"} => f.tag = "input"
         /\ "checked" \in f.flags => f.type \in {"radio", "checkbox"}
    /\ \A f, g \in {h \in Range(fields) : h.type = "radio" /\ "checked" \in h.flags} :
         f.group = g.group => f = g

ASSUME PageAssumption ==
  /\ Page \in [States -> APage] /\ \A s \in States : ToldApart(Page[s])
  /\ \A f \in Forms : f \in AForm /\ WellFormed(f)
  /\ Offered = OfferedBy /\ Risky = RiskyBy /\ Login = LoginBy

(* A hash stands for one identity, on a page.                              *)
ASSUME HashAssumption ==
  \A s \in States : \A i, j \in Identities(Page[s]) : Hash(i) = Hash(j) => i = j

-----------------------------------------------------------------------------
Tried(s) == {a \in Offered[s] : <<s, a>> \in attempted \/ deferred[<<s, a>>] # "none"}

(* The elements that some of these actions are performed on.               *)
KeysOf ==
  [s \in States |-> [a \in Offered[s] |->
     {p[2].key : p \in {q \in Planned(Page[s]) : Hash(Identity(q[1])) = a}}]]

(* What a reader of the page would try, and how much the code plans for.   *)
(* An element counts against MAX_ELEMENTS_PER_STATE when it is taken up,   *)
(* and may turn out to offer nothing to try.                               *)
TakenUp(e) ==
  /\ e.flags \cap {"disabled", "in_form"} = {}
  /\ e.tag = "a" => ClickNonHttpLinks \/ e.href \notin NonHttp

Usable(e) ==
  /\ TakenUp(e) /\ e.selector # NoText
  /\ e.tag = "select" => MaxSelectOptions > 0 /\ Range(e.options) \ {NoText} # {}

InTime(elements, i) ==
  Cardinality({j \in 1 .. i - 1 : TakenUp(elements[j])}) < MaxElementsPerState

UsableKeys ==
  [s \in States |->
     LET elements == Page[s].elements IN
       {elements[i].key : i \in {i \in DOMAIN elements : Usable(elements[i]) /\ InTime(elements, i)}}]

SubmitKeys ==
  [s \in States |->
     {f.submit.key : f \in {g \in Range(Page[s].forms) : g.submit.selector # NoText}}]

PlannedCount == [s \in States |-> Cardinality({p[1] : p \in Planned(Page[s])})]

(* Nothing on an explored page is overlooked.  A sequence is attempted     *)
(* once per fingerprint, so two that share one would count as one: each    *)
(* planned sequence has an attempt, or deferred work, of its own, and each *)
(* usable element (up to MAX_ELEMENTS_PER_STATE) and each form has one.    *)
EverythingIsTried ==
  \A s \in States \ excused : frontier[s] = "explored" =>
    LET keys == UNION {KeysOf[s][a] : a \in Tried(s)} IN
      /\ Cardinality(Tried(s)) = PlannedCount[s]
      /\ UsableKeys[s] \union SubmitKeys[s] \subseteq keys

Clickable(f) == f.flags \cap {"disabled", "readonly"} = {} /\ f.selector # NoText

(* The forms that would not be submitted the way their page wants it.      *)
BadForms ==
  {form \in {f \in Forms : f.submit.selector # NoText} :
    LET fields == Range(form.fields)
        after == CheckedAfter(form)
        Group(f) == {g \in fields : g.type = "radio" /\ g.group = f.group}
        First(f) == form.fields[CHOOSE i \in DOMAIN form.fields :
                      /\ form.fields[i] \in Group(f)
                      /\ \A j \in 1 .. i - 1 : form.fields[j] \notin Group(f)]
    IN  \E f \in fields :
          \/ "checked" \in f.flags /\ f \notin after
          \/ f.type = "checkbox" /\ "required" \in f.flags /\ Clickable(f) /\ f \notin after
          \/ /\ f.type = "radio"
             /\ \/ Cardinality(Group(f) \cap after) > 1
                \/ Clickable(First(f)) /\ Group(f) \cap after = {}}

(* A crawler that explores a page submits forms the way the page wants it: *)
(* nothing that was checked is undone, no group has two buttons checked,   *)
(* what is required is checked, and so is one button of every group;       *)
(* unless the first of the group cannot be clicked, for then the code      *)
(* leaves the group alone (_choose_radio_defaults).                        *)
FormsAreFilled == (\E c \in Crawlers : pc[c] = "explore") => BadForms = {}

(* A page is explored as far as the limits allow, and no further: all its  *)
(* elements and forms are tried, forms the way the page wants it.          *)
ExplorationIsThorough == EverythingIsTried /\ FormsAreFilled /\ LimitsHold
=============================================================================
