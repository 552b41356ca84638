---------------------------- MODULE ActionPlanning ----------------------------
(***************************************************************************)
(* What the crawler tries on a page: the sequences of actions planned for  *)
(* its elements (crawler/session/explore.py) and for its forms             *)
(* (EventExecutor.plan_form_submission of crawler/executor.py), which of   *)
(* them are risky, which form is the login form, and the identity under    *)
(* which an action is attempted once (crawler/fingerprints.py).            *)
(*                                                                         *)
(* Pure operators.  An element is what get_interactable_elements.js and    *)
(* get_forms.js report of it:                                              *)
(*   key       element_identity_key; stands for its text, name and label   *)
(*   selector  of get_selector_for_element, or NoText                      *)
(*   tag, type, href, group (the name of a radio button)                   *)
(*   options   the values of a select in order, NoText where there is none *)
(*   fill      what InputValueResolver makes of it                         *)
(*   flags     a set of "disabled", "readonly", "in_form", "editable",     *)
(*             "checked", "required"                                       *)
(* A form has an id, a sequence of fields and a submit element, whose      *)
(* selector is NoText if there is none.  Frames are part of the key.       *)
(***************************************************************************)
EXTENDS Naturals, Sequences, FiniteSets, Functions

CONSTANTS
  MaxElementsPerState,   \* MAX_ELEMENTS_PER_STATE
  MaxSelectOptions,      \* MAX_SELECT_OPTIONS_PER_ELEMENT
  ClickNonHttpLinks,     \* CLICK_NON_HTTP_LINKS
  NonHttp,               \* hrefs like mailto:
  Keyworded,             \* texts with one of DESTRUCTIVE_KEYWORDS
  NoText

ASSUME PlanningAssumption ==
  /\ MaxElementsPerState \in Nat /\ MaxSelectOptions \in Nat
  /\ ClickNonHttpLinks \in BOOLEAN
  /\ NoText \in STRING \ (NonHttp \union Keyworded)

-----------------------------------------------------------------------------
Flag == {"disabled", "readonly", "in_form", "editable", "checked", "required"}

AnElement ==
  [key : STRING, selector : STRING, tag : STRING, type : STRING, href : STRING,
   group : STRING, options : Seq(STRING), fill : STRING, flags : SUBSET Flag]

AForm == [id : STRING, fields : Seq(AnElement), submit : AnElement]

APage == [elements : Seq(AnElement), forms : Seq(AForm)]

(* The first n members of a sequence that are wanted: a loop with a count  *)
(* of those that it has taken.                                             *)
FirstOf(s, wanted, n) ==
  LET upto[k \in 0 .. Len(s)] ==
        IF k = 0 THEN <<>>
        ELSE IF s[k] \in wanted /\ Len(upto[k - 1]) < n THEN Append(upto[k - 1], s[k])
        ELSE upto[k - 1]
  IN  upto[Len(s)]

Has(e, flag) == flag \in e.flags

(* An action on an element; about is the rest of its metadata.             *)
Action(kind, e, value, about) ==
  [type |-> kind, selector |-> e.selector, value |-> value, key |-> e.key, about |-> about]

Click(e, about) == Action("click", e, NoText, about)

-----------------------------------------------------------------------------
(* utils/dom.py.  An input is a text input whatever its type.              *)

IsToggle(e) == e.tag = "input" /\ e.type \in {"checkbox", "radio"}

IsTextInput(e) == e.tag \in {"input", "textarea"} \/ Has(e, "editable")

SupportsEnterSubmission(e) ==
  e.tag = "input" /\ e.type \in {"text", "search", "email", "tel", "url", "number"}

(* _is_blocked_anchor.                                                     *)
IsBlockedAnchor(e) == e.tag = "a" /\ ~ClickNonHttpLinks /\ e.href \in NonHttp

(* _should_process_element: what belongs to a form is left to the form.    *)
ShouldProcess(e) == ~Has(e, "disabled") /\ ~Has(e, "in_form") /\ ~IsBlockedAnchor(e)

(* _build_select_sequences: one for each of the first options.             *)
SelectSequences(e) ==
  {<<Action("select", e, v, {v})>> :
     v \in Range(FirstOf(e.options, Range(e.options) \ {NoText}, MaxSelectOptions))}

(* _build_toggle_sequences.                                                *)
ToggleSequences(e) == {<<Click(e, {e.type})>>}

(* _build_text_sequences: typing, and typing followed by Enter.            *)
TextSequences(e) ==
  LET typing == Action("type", e, e.fill, {e.type})
      enter == Action("press", e, "Enter", {})
  IN  {<<typing>>} \union (IF SupportsEnterSubmission(e) THEN {<<typing, enter>>} ELSE {})

(* _build_anchor_sequences, _build_button_sequences and                    *)
(* _build_generic_click_sequences differ in their descriptions only.       *)
ClickSequences(e) == {<<Click(e, {})>>}

(* _process_element and _plan_element_sequences: none without a selector.  *)
PlanElementSequences(e) ==
  IF e.selector = NoText THEN {}
  ELSE IF e.tag = "select" THEN SelectSequences(e)
  ELSE IF IsToggle(e) THEN ToggleSequences(e)
  ELSE IF IsTextInput(e) THEN TextSequences(e)
  ELSE ClickSequences(e)

-----------------------------------------------------------------------------
(* EventExecutor.plan_form_submission.                                     *)

(* A mistake: the first of a group is chosen although another is checked.  *)
ChooseRadiosAnyway(form) ==
  {form.fields[i] : i \in {j \in DOMAIN form.fields :
     /\ form.fields[j].type = "radio"
     /\ \A k \in 1 .. j - 1 :
          form.fields[k].type = "radio" => form.fields[k].group # form.fields[j].group}}

(* _choose_radio_defaults: the first radio button of each group that has   *)
(* none checked, whether it can be clicked or not.                         *)
ChooseRadioDefaults(form) ==
  LET radios == {i \in DOMAIN form.fields : form.fields[i].type = "radio"}
      Same(i) == {j \in radios : form.fields[j].group = form.fields[i].group}
  IN  {form.fields[i] : i \in {j \in radios :
         \A k \in Same(j) : j <= k /\ ~Has(form.fields[k], "checked")}}

ShouldSkipField(f) ==
  \/ f.selector = NoText
  \/ Has(f, "disabled") \/ Has(f, "readonly")
  \/ f.type \in {"submit", "button", "reset", "hidden", "image", "file"}

(* The actions for a field: at most one, as a sequence.                    *)
SelectActions(f, form) ==
  LET first == FirstOf(f.options, Range(f.options) \ {NoText}, 1) IN
    [i \in DOMAIN first |-> Action("select", f, first[i], {form.id})]

CheckboxActions(f, form) ==
  IF Has(f, "required") /\ ~Has(f, "checked") THEN <<Click(f, {form.id})>> ELSE <<>>

RadioActions(f, form, chosen) == IF f \in chosen THEN <<Click(f, {form.id})>> ELSE <<>>

TextActions(f, form) == <<Action("type", f, f.fill, {form.id, f.type})>>

(* _build_field_action.                                                    *)
FieldActions(f, form, chosen) ==
  IF ShouldSkipField(f) THEN <<>>
  ELSE IF f.tag = "select" THEN SelectActions(f, form)
  ELSE IF f.type = "checkbox" THEN CheckboxActions(f, form)
  ELSE IF f.type = "radio" THEN RadioActions(f, form, chosen)
  ELSE IF f.tag \in {"input", "textarea"} THEN TextActions(f, form)
  ELSE <<>>

(* _build_submit_action.                                                   *)
SubmitAction(form) == Click(form.submit, {form.id})

(* The empty sequence stands for None: without a submit element there is   *)
(* nothing to plan.                                                        *)
PlanFormSubmission(form) ==
  LET chosen == ChooseRadioDefaults(form)
      upto[k \in 0 .. Len(form.fields)] ==
        IF k = 0 THEN <<>> ELSE upto[k - 1] \o FieldActions(form.fields[k], form, chosen)
  IN  IF form.submit.selector = NoText THEN <<>>
      ELSE Append(upto[Len(form.fields)], SubmitAction(form))

(* _is_login_form and _select_login_form.                                  *)
IsLoginForm(form) ==
  /\ \E f \in Range(form.fields) : f.type = "password"
  /\ form.submit.selector # NoText

LoginForms(forms) == FirstOf(forms, {f \in Range(forms) : IsLoginForm(f)}, 1)

-----------------------------------------------------------------------------
(* RiskClassifier.is_risky: any text of the action or of its element.      *)
IsRisky(action, e) ==
  ({action.type, action.selector, action.value} \union action.about
     \union {e.key, e.tag, e.type, e.href}) \cap Keyworded # {}

(* action_identity_payload of the last action of a sequence, to which      *)
(* _execute_action_sequence has added the sequence's digest and length.    *)
(* The element's key is never empty, so its selector is blanked.           *)
Identity(actions) ==
  LET last == actions[Len(actions)] IN
    [type |-> last.type, key |-> last.key, value |-> last.value, about |-> last.about,
     digest |-> [i \in DOMAIN actions |->
                   <<actions[i].type, actions[i].selector, actions[i].value>>]]

(* What is planned for a page: sequences of actions, each with the element *)
(* its risk is judged by.                                                  *)
PlannedForms(page) ==
  {<<PlanFormSubmission(f), f.submit>> : f \in {g \in Range(page.forms) : PlanFormSubmission(g) # <<>>}}

ProcessedElements(page) ==
  Range(FirstOf(page.elements, {e \in Range(page.elements) : ShouldProcess(e)},
                MaxElementsPerState))

PlannedElements(page) ==
  UNION {PlanElementSequences(e) \X {e} : e \in ProcessedElements(page)}

Planned(page) == PlannedForms(page) \union PlannedElements(page)

Identities(page) == {Identity(p[1]) : p \in Planned(page)}

RiskyIdentities(page) ==
  {Identity(p[1]) : p \in {q \in Planned(page) : IsRisky(q[1][Len(q[1])], q[2])}}

(* The browser (external): which boxes and buttons of a form are checked   *)
(* after the actions planned for it.                                       *)
CheckedAfter(form) ==
  LET actions == PlanFormSubmission(form)
      Clicked(f) == \E i \in 1 .. Len(actions) - 1 :
                      actions[i].type = "click" /\ actions[i].key = f.key
      Replaced(f) == \E g \in Range(form.fields) :
                       g.type = "radio" /\ g.group = f.group /\ Clicked(g)
  IN  {f \in Range(form.fields) :
         \/ f.type = "radio" /\ (Clicked(f) \/ (Has(f, "checked") /\ ~Replaced(f)))
         \/ f.type = "checkbox" /\ ~(Clicked(f) <=> Has(f, "checked"))}
=============================================================================
