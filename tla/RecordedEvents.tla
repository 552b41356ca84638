--------------------------- MODULE RecordedEvents ---------------------------
(***************************************************************************)
(* How the DOM events of a user become the actions of a step: the pure     *)
(* functions of src/src/workers/jobs/manual_record_session.py and          *)
(* manual_crawl/recording_mapper.py.                                       *)
(*                                                                         *)
(* An event is [on |-> element, by |-> "click" | "type" | "press"].  Values *)
(* typed, labels and selectors are left out: two events have the same      *)
(* selector if they are on the same element, and an element without a      *)
(* usable selector resolves on no page.  "press" stands for key presses    *)
(* and hovers.                                                             *)
(***************************************************************************)
EXTENDS Integers, SequencesExt

Typing(e) == e.by = "type"

OnSame(e, f) == e.on = f.on

(* Typing takes the place of the click that gave the field its focus, and  *)
(* of what was typed into the same field before.                           *)
Compacted(before, e) ==
  LET focused == before # <<>> /\ Last(before).by = "click" /\ OnSame(Last(before), e)
      rest == IF Typing(e) /\ focused THEN Front(before) ELSE before
  IN  IF Typing(e) /\ rest # <<>> /\ Typing(Last(rest)) /\ OnSame(Last(rest), e)
        THEN Append(Front(rest), e)
        ELSE Append(rest, e)

Compact(events) ==
  LET upto[k \in 0 .. Len(events)] ==
        IF k = 0 THEN <<>> ELSE Compacted(upto[k - 1], events[k])
  IN  upto[Len(events)]

(* The actions the events map to on a page where these elements resolve.   *)
ActionsOf(events, found) ==
  LET compact == Compact(events)
      upto[k \in 0 .. Len(compact)] ==
        IF k = 0 THEN <<>>
        ELSE IF compact[k].on \in found THEN Append(upto[k - 1], compact[k]) ELSE upto[k - 1]
  IN  upto[Len(compact)]

(* All of the actions type into the element el.                            *)
TypesOnlyInto(acts, el) ==
  acts # <<>> /\ \A k \in DOMAIN acts : Typing(acts[k]) /\ acts[k].on = el

(* The single action is a click on el, which may only have focused it.     *)
IsFocusClick(acts, el) ==
  Len(acts) = 1 /\ acts[1].by = "click" /\ acts[1].on = el

(* Events that a pause in the input is enough to report.                   *)
Flushable(events) ==
  events # <<>> /\ \A k \in DOMAIN events : events[k].by \in {"type", "press"}
=============================================================================
