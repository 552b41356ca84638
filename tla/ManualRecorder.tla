--------------------------- MODULE ManualRecorder ---------------------------
(***************************************************************************)
(* A manual recording: the user acts in a remote browser, and the recorder *)
(* (ManualSegmentRecorder in src/src/workers/jobs/                         *)
(* manual_record_session.py) turns what happens on the page into the steps *)
(* of a test flow, which the user may rewind, finish or report as a bug.   *)
(*                                                                         *)
(* Who moves: the page and its user; the event sender, which hands DOM     *)
(* events to the recorder; the state monitor, which looks at the page ten  *)
(* times a second; the step sender; and the message loop, which serves one *)
(* request of the client at a time.  All methods of the recorder hold one  *)
(* lock, also over awaits.                                                 *)
(*                                                                         *)
(* A page is what its state hash tells apart.  Sequences start at 1 here   *)
(* and at 0 in the code; segment.base, an index there, is the number of    *)
(* transitions before the segment.  A session begins here when             *)
(* initialize() has taken the first snapshot.                              *)
(***************************************************************************)
EXTENDS RecordedEvents, FiniteSets

CONSTANTS
  Pages, Home, NoPage,
  Url,          \* the url of a page
  Leads,        \* the pages that may follow a page
  Elements,
  Offers,       \* the events a user can cause on a page
  Nameless,     \* elements without a selector that resolves
  MaxActs, MaxDrifts, MaxRequests    \* bounds on what user and page do

(* What may go wrong: an event comes after the change it explains, or is   *)
(* caused before the last one is dealt with; an event maps to no action,   *)
(* or its selector does not resolve; the page changes by itself, and a     *)
(* flow that starts after that does not show how; a flush raises; a        *)
(* request is refused or fails, or stops half-way through activating a     *)
(* page; a flow row is not written.                                        *)
SlipKind == {"late", "hasty", "unmapped", "unresolved", "unexplained",
             "lost", "failed", "halfway", "unstored"}

ASSUME RecorderAssumption ==
  /\ Home \in Pages /\ NoPage \notin Pages
  /\ Nameless \subseteq Elements
  /\ DOMAIN Url = Pages /\ Leads \in [Pages -> SUBSET Pages]
  /\ Offers \in [Pages -> SUBSET [on : Elements, by : {"click", "type", "press"}]]
  /\ MaxActs \in Nat /\ MaxDrifts \in Nat /\ MaxRequests \in Nat

VARIABLES
  page,         \* what the browser shows
  arriving,     \* DOM events on their way: the bindings and event_queue
  waiting,      \* a browser input came less than 0.25 s ago
  pending,      \* _pending_events
  states,       \* _states
  transitions,  \* _transitions
  current,      \* _current_state_idx
  candidate,    \* _checkpoint_candidate_idx
  segment,      \* _active, the start of the segment, the flow revision
  rewinding,    \* _rewinding
  flush,        \* the flush in progress, which holds the lock
  monitor,      \* the state monitor: asleep, or about to force a flush
  loop,         \* the message loop: the request it serves, and where it is
  plan,         \* local of flow.rewind
  refs,         \* local of _finish: transition_refs
  outbox,       \* step_queue
  sending,      \* the step the step sender is about to send, if any
  graph,        \* the session's states and transitions in Neo4j
  flows,        \* test_flows of the session
  made,         \* step ids given out
  told,         \* history: steps the client got at the latest revision
  trail,        \* history: the user's last event, and the pages it was on
  shown,        \* history: <<page, event, page that followed>>
  slips,        \* history: the irregularities that happened
  budget

browser == <<page, arriving, waiting>>
recording == <<states, transitions, current, candidate, segment, made>>
client == <<outbox, sending, told>>
stored == <<graph, flows>>
history == <<trail, shown, slips, budget>>

vars == <<browser, pending, recording, rewinding, flush, monitor, loop, plan, refs,
          client, stored, history>>

Found(p) == {e.on : e \in Offers[p]} \ Nameless

NoFlush == [by |-> "nobody", events |-> <<>>, changed |-> FALSE]
AtRest == [op |-> "none", at |-> "idle"]
NoEvent == [on |-> "nothing", by |-> "click"]
NoPlan == [keep |-> 0, target |-> 0, page |-> NoPage]

Init ==
  /\ page = Home /\ arriving = <<>> /\ waiting = FALSE /\ pending = <<>>
  /\ states = <<Home>> /\ transitions = <<>> /\ current = 1 /\ candidate = 1 /\ made = 0
  /\ segment = [active |-> FALSE, first |-> 0, base |-> 0, checkpoint |-> NoPage, revision |-> 0]
  /\ rewinding = FALSE /\ flush = NoFlush /\ monitor = "asleep"
  /\ loop = AtRest /\ plan = NoPlan /\ refs = <<>> /\ outbox = <<>> /\ sending = <<>>
  /\ graph = [states |-> {}, transitions |-> {}] /\ flows = {}
  /\ told = {} /\ slips = {}
  /\ trail = [on |-> NoEvent, from |-> {}] /\ shown = {}
  /\ budget = [act |-> MaxActs, drift |-> MaxDrifts, request |-> MaxRequests]

Spend(kind) ==
  budget[kind] > 0 /\ budget' = [budget EXCEPT ![kind] = @ - 1]

(* Circumstances that a property makes an exception for.                   *)
Slip(kinds) == slips' = slips \union kinds

(* A failure of each kind happens once.                                    *)
Failure(kind) == kind \notin slips

-----------------------------------------------------------------------------
(* The user and the page.                                                  *)

ShownAfter(p) == {<<q, trail.on, p>> : q \in trail.from}

(* browser.input: a DOM event is on its way, and the page may be another   *)
(* one now or later.  Events in one field continue each other.  The user   *)
(* is hasty if the recorder has not caught up.                             *)
UserActs(e) ==
  /\ loop.at = "idle"
  /\ e \in Offers[page]
  /\ Spend("act")
  /\ Slip(IF page # states[current] \/ arriving # <<>> \/ flush # NoFlush
            THEN {"hasty"} ELSE {})
  /\ arriving' = Append(arriving, e)
  /\ waiting' = TRUE
  /\ page' \in Leads[page] \union {page}
  /\ LET continues == trail.from # {} /\ OnSame(trail.on, e)
         from == {page} \union (IF continues THEN trail.from ELSE {})
     IN  /\ trail' = [on |-> e, from |-> from]
         /\ shown' = shown \union {<<q, e, page'>> : q \in from}
  /\ UNCHANGED <<pending, recording, rewinding, flush, monitor, loop, plan, refs, client, stored>>

(* The page changes late, or on its own.                                   *)
Drift ==
  /\ Spend("drift")
  /\ page' \in Leads[page]
  /\ shown' = shown \union ShownAfter(page')
  /\ UNCHANGED <<arriving, waiting, pending, recording, rewinding, flush, monitor, loop, plan,
                 refs, client, stored, trail, slips>>

(* 0.25 s pass after mark_browser_input.                                   *)
WaitEnds ==
  /\ waiting
  /\ waiting' = FALSE
  /\ UNCHANGED <<page, arriving, pending, recording, rewinding, flush, monitor, loop, plan, refs,
                 client, stored, history>>

-----------------------------------------------------------------------------
(* The event sender and the step sender.                                   *)

RecordEvent ==
  /\ arriving # <<>>
  /\ flush = NoFlush
  /\ pending' = Append(pending, Head(arriving))
  /\ arriving' = Tail(arriving)
  /\ UNCHANGED <<page, waiting, recording, rewinding, flush, monitor, loop, plan, refs, client,
                 stored, history>>

(* The idle time is reset between taking a step and sending it.            *)
TakeStep ==
  /\ sending = <<>> /\ outbox # <<>>
  /\ sending' = <<Head(outbox)>>
  /\ outbox' = Tail(outbox)
  /\ UNCHANGED <<browser, pending, recording, rewinding, flush, monitor, loop, plan, refs, told,
                 stored, history>>

SendStep ==
  /\ sending # <<>>
  /\ LET m == Head(sending) IN
       told' = IF m.revision = segment.revision THEN told \union {m.id} ELSE told
  /\ sending' = <<>>
  /\ UNCHANGED <<browser, pending, recording, rewinding, flush, monitor, loop, plan, refs, outbox,
                 stored, history>>

-----------------------------------------------------------------------------
(* The segment.                                                            *)

Entries == IF segment.active
             THEN SubSeq(transitions, segment.base + 1, Len(transitions))
             ELSE <<>>

Ids(entries) == {entries[k].id : k \in DOMAIN entries}

LastTransition == transitions[Len(transitions)]

(* The last transition belongs to the segment.                             *)
LastIsActive == segment.active /\ Len(transitions) > segment.base

(* _first_transition_index_at_or_after: how many come before it.           *)
CountBefore(i) ==
  LET later == {k \in DOMAIN transitions : transitions[k].source >= i} IN
  IF later = {} THEN Len(transitions) ELSE (CHOOSE k \in later : \A l \in later : k <= l) - 1

SetLast(t) == [transitions EXCEPT ![Len(transitions)] = t]

-----------------------------------------------------------------------------
(* flush_current_state.                                                    *)

Changed == page # states[current]

(* Nothing is flushed: during a rewind; while the event that explains a    *)
(* change may still come; when there is neither a change nor something to  *)
(* force out.                                                              *)
Declines(force) ==
  \/ rewinding
  \/ Changed /\ pending = <<>> /\ ~force /\ waiting
  \/ ~Changed /\ ~(force /\ pending # <<>>)

(* The state hash is read, the pending events are taken; the lock is kept. *)
(* (Typing into one field may also wait until 0.25 s have passed: then the *)
(* flush happens at a later look.)                                         *)
Look(who, force) ==
  /\ flush = NoFlush
  /\ ~Declines(force)
  /\ flush' = [by |-> who, events |-> pending, changed |-> Changed]
  /\ pending' = <<>>
  /\ Slip(IF Changed /\ arriving # <<>> THEN {"late"} ELSE {})

(* A mistake: only the first condition of the coalescing is tested.        *)
CoalescesAnything(source, acts) ==
  /\ LastIsActive
  /\ LastTransition.target = source
  /\ \E el \in Elements : TypesOnlyInto(acts, el)

(* _coalesce_input_transition: typing goes on in the same field, or starts *)
(* in the field that was just clicked.                                     *)
Coalesces(source, acts) ==
  /\ LastIsActive
  /\ LastTransition.target = source
  /\ \E el \in Elements :
       /\ TypesOnlyInto(acts, el)
       /\ \/ TypesOnlyInto(LastTransition.acts, el)
          \/ /\ IsFocusClick(LastTransition.acts, el)
             /\ LastTransition.source = LastTransition.target

(* _append_transition, when there are actions.                             *)
Extended(source, target, acts) ==
  IF Coalesces(source, acts)
    THEN SetLast([LastTransition EXCEPT !.target = target, !.acts = acts])
    ELSE Append(transitions,
                [id |-> made + 1, source |-> source, target |-> target, acts |-> acts])

(* _merge_implicit_state_change: the change belongs to the last step, if   *)
(* that led to the state that changed.                                     *)
Merges(source) == transitions # <<>> /\ LastTransition.target = source

(* A mistake: the checkpoint follows the page even when no flow is active. *)
AdvancedAlways(target, hash) ==
  IF Entries = <<>>
    THEN [segment EXCEPT !.first = target, !.base = Len(transitions), !.checkpoint = hash]
    ELSE segment

(* _advance_empty_active_segment_checkpoint.                               *)
Advanced(target, hash) ==
  IF segment.active /\ Entries = <<>>
    THEN [segment EXCEPT !.first = target, !.base = Len(transitions), !.checkpoint = hash]
    ELSE segment

(* The state monitor and flow.publish_pending queue the step; the others   *)
(* go on with their request and drop it.                                   *)
Flushed(who, steps) ==
  /\ outbox' = IF who = "monitor" \/ loop.op = "publish" THEN outbox \o steps ELSE outbox
  /\ loop' = IF who = "monitor" THEN loop
             ELSE IF loop.op = "publish" THEN AtRest ELSE [loop EXCEPT !.at = "body"]

(* The step of the last transition, as the client will get it.             *)
Payload(entries) ==
  <<[id |-> entries[Len(entries)].id, revision |-> segment.revision]>>

(* The snapshot is taken and the change attributed: to the flushed events, *)
(* or to the last step when there are none.  Resolving a selector may fail *)
(* without notice.                                                         *)
TakeSnapshot ==
  LET source == current
      grown == IF flush.changed THEN Append(states, page) ELSE states
      target == IF flush.changed THEN Len(grown) ELSE source
      moved == flush.changed /\ ~segment.active /\ Url[page] # Url[states[source]]
      actions == ActionsOf(flush.events, Found(states[source]))
  IN
  /\ flush # NoFlush
  /\ states' = grown
  /\ current' = target
  /\ candidate' = IF moved THEN source ELSE candidate
  /\ \E acts \in {actions, <<>>} :
       LET implicit == flush.changed /\ flush.events = <<>>
           touched == IF implicit THEN Merges(source) ELSE acts # <<>>
           step == touched /\ segment.active
       IN
       /\ Slip((IF acts # actions THEN {"unresolved"} ELSE {})
               \union (IF Len(actions) < Len(Compact(flush.events)) THEN {"unmapped"} ELSE {})
               \union (IF implicit /\ ~segment.active
                            /\ ~(touched /\ LastTransition.source >= candidate')
                         THEN {"unexplained"} ELSE {}))
       /\ transitions' =
            IF ~touched THEN transitions
            ELSE IF implicit THEN SetLast([LastTransition EXCEPT !.target = target])
            ELSE Extended(source, target, acts)
       /\ made' = IF Len(transitions') > Len(transitions) THEN made + 1 ELSE made
       /\ LET announced == step /\ Len(transitions') > segment.base IN
          /\ segment' = IF flush.changed /\ ~announced
                          THEN Advanced(target, grown[target]) ELSE segment
          /\ Flushed(flush.by, IF announced THEN Payload(transitions') ELSE <<>>)
  /\ flush' = NoFlush
  /\ UNCHANGED <<browser, pending, rewinding, monitor, plan, refs, sending, told, stored, trail,
                 shown, budget>>

(* An exception: the events are gone, and the snapshot may have been       *)
(* added already, and the candidate moved.  Only in flow.start does it end *)
(* the session.                                                            *)
FlushFails ==
  /\ flush # NoFlush
  /\ Failure("lost")
  /\ \/ UNCHANGED <<states, candidate>>
     \/ /\ flush.changed /\ flush.events # <<>>
        /\ states' = Append(states, page)
        /\ candidate' = IF ~segment.active /\ Url[page] # Url[states[current]]
                          THEN current ELSE candidate
  /\ loop' = IF flush.by = "monitor" THEN loop
             ELSE IF loop.op = "start" THEN [loop EXCEPT !.at = "ended"] ELSE AtRest
  /\ slips' = slips \union {"lost"}
               \union (IF flush.by = "loop" /\ segment.active THEN {"failed"} ELSE {})
  /\ flush' = NoFlush
  /\ UNCHANGED <<browser, pending, transitions, current, segment, made, rewinding, monitor,
                 plan, refs, client, stored, trail, shown, budget>>

-----------------------------------------------------------------------------
(* _state_monitor: the decision to force is taken before the lock is.      *)

MonitorDecides ==
  /\ monitor = "asleep"
  /\ Flushable(pending)
  /\ monitor' = "forcing"
  /\ UNCHANGED <<browser, pending, recording, rewinding, flush, loop, plan, refs, client,
                 stored, history>>

MonitorLooks ==
  /\ \/ Look("monitor", monitor = "forcing")
     \/ /\ monitor = "forcing" /\ flush = NoFlush /\ Declines(TRUE)
        /\ UNCHANGED <<flush, pending, slips>>
  /\ monitor' = "asleep"
  /\ UNCHANGED <<browser, recording, rewinding, loop, plan, refs, client, stored, trail, shown,
                 budget>>

-----------------------------------------------------------------------------
(* The message loop.  Every request of a flow first forces a flush.        *)

Serve(op) ==
  /\ loop = AtRest
  /\ CASE op = "start" -> ~segment.active
       [] op = "publish" -> segment.active
       [] op \in {"finish", "rewind"} -> TRUE
  /\ Spend("request")
  /\ loop' = [op |-> op, at |-> "flush"]
  /\ UNCHANGED <<browser, pending, recording, rewinding, flush, monitor, plan, refs, client,
                 stored, trail, shown, slips>>

LoopLooks ==
  /\ loop.at = "flush"
  /\ \/ Look("loop", TRUE) /\ loop' = [loop EXCEPT !.at = "flushing"]
     \/ /\ flush = NoFlush /\ Declines(TRUE)
        /\ loop' = IF loop.op = "publish" THEN AtRest ELSE [loop EXCEPT !.at = "body"]
        /\ UNCHANGED <<flush, pending, slips>>
  /\ UNCHANGED <<browser, recording, rewinding, monitor, plan, refs, client, stored, trail,
                 shown, budget>>

InBody(op) == loop = [op |-> op, at |-> "body"] /\ flush = NoFlush

(* An error is sent to the client.  What the flush had found for an active *)
(* segment is not sent.                                                    *)
Refuse ==
  /\ loop' = AtRest
  /\ Slip(IF segment.active THEN {"failed"} ELSE {})

(* start: the flow begins before the last change of url, so that it shows  *)
(* how one gets to this page.                                              *)
StartFlow ==
  LET first == IF candidate < current THEN candidate ELSE current IN
  /\ InBody("start")
  /\ segment' = [active |-> TRUE, first |-> first, base |-> CountBefore(first),
                 checkpoint |-> states[first], revision |-> segment.revision + 1]
  /\ told' = {transitions[k].id : k \in CountBefore(first) + 1 .. Len(transitions)}
  /\ Slip(IF pending # <<>> THEN {"lost"} ELSE {})
  /\ pending' = <<>>
  /\ loop' = AtRest
  /\ UNCHANGED <<browser, states, transitions, current, candidate, made, rewinding, flush,
                 monitor, plan, refs, outbox, sending, stored, trail, shown, budget>>

-----------------------------------------------------------------------------
(* _finish, for finish_manual_flow and report_bug.                         *)

Ref(t) == <<states[t.source], t.acts, states[t.target]>>
RefsOf(entries) == [k \in DOMAIN entries |-> Ref(entries[k])]

WithoutOne(s) ==
  {SubSeq(s, 1, k - 1) \o SubSeq(s, k + 1, Len(s)) : k \in DOMAIN s}

(* verify_bdd_flow.                                                        *)
IsPath(checkpoint, steps) ==
  /\ steps # <<>> /\ steps[1][1] = checkpoint
  /\ \A k \in 1 .. Len(steps) - 1 : steps[k][3] = steps[k + 1][1]

Persisted(entries) ==
  [states |-> graph.states \union {states[segment.first]}
                \union UNION {{states[entries[k].source], states[entries[k].target]} :
                                k \in DOMAIN entries},
   transitions |-> graph.transitions \union {Ref(entries[k]) : k \in DOMAIN entries}]

RefuseFinish ==
  /\ InBody("finish")
  /\ Entries = <<>>
  /\ Refuse
  /\ UNCHANGED <<browser, pending, recording, rewinding, flush, monitor, plan, refs, client,
                 stored, trail, shown, budget>>

(* The segment is projected, persisted and verified, under the lock.  A    *)
(* step whose selector does not resolve now is left out.                   *)
FinishSegment ==
  /\ InBody("finish")
  /\ Entries # <<>>
  /\ \E projected \in {Entries} \union WithoutOne(Entries) :
       LET steps == RefsOf(projected)
           skipped == IF projected # Entries THEN {"unresolved"} ELSE {}
       IN
       /\ graph' = IF projected = <<>> THEN graph ELSE Persisted(projected)
       /\ IF IsPath(segment.checkpoint, steps)
            THEN /\ refs' = steps
                 /\ segment' = [segment EXCEPT !.active = FALSE, !.first = 0,
                                               !.base = Len(transitions)]
                 /\ candidate' = IF current = 1 THEN candidate ELSE current
                 /\ loop' = [loop EXCEPT !.at = "store"]
                 /\ Slip(skipped)
            ELSE /\ loop' = AtRest
                 /\ Slip(skipped \union {"failed"})
                 /\ UNCHANGED <<refs, segment, candidate>>
  /\ UNCHANGED <<browser, pending, states, transitions, current, made, rewinding, flush, monitor,
                 plan, client, flows, trail, shown, budget>>

(* A statement fails half-way: some of it stays.                           *)
PersistFails ==
  /\ InBody("finish")
  /\ Entries # <<>>
  /\ \E k \in DOMAIN Entries : graph' = Persisted(SubSeq(Entries, 1, k))
  /\ Refuse
  /\ UNCHANGED <<browser, pending, recording, rewinding, flush, monitor, plan, refs, client, flows,
                 trail, shown, budget>>

(* create_test_flow, when the lock is free again.  The segment is closed   *)
(* already: if this fails, it is lost.                                     *)
StoreFlow ==
  /\ loop.at = "store"
  /\ \/ /\ flows' = flows \union {[checkpoint |-> segment.checkpoint, steps |-> refs]}
        /\ UNCHANGED slips
     \/ /\ Failure("unstored") /\ slips' = slips \union {"unstored"}
        /\ UNCHANGED flows
  /\ refs' = <<>>
  /\ loop' = AtRest
  /\ UNCHANGED <<browser, pending, recording, rewinding, flush, monitor, plan, client, graph,
                 trail, shown, budget>>

-----------------------------------------------------------------------------
(* flow.rewind.                                                            *)

(* prepare_rewind refuses: no flow, or no such step.                       *)
RefuseRewind ==
  /\ InBody("rewind")
  /\ Refuse
  /\ UNCHANGED <<browser, pending, recording, rewinding, flush, monitor, plan, refs, client,
                 stored, trail, shown, budget>>

(* prepare_rewind, begin_rewind, and the queue of steps is drained.        *)
PrepareRewind ==
  /\ InBody("rewind")
  /\ segment.active
  /\ \E keep \in 0 .. Len(Entries) :
       plan' = [keep |-> keep, page |-> NoPage,
                target |-> IF keep = 0 THEN segment.first ELSE Entries[keep].target]
  /\ rewinding' = TRUE
  /\ outbox' = <<>>
  /\ loop' = [loop EXCEPT !.at = "replay"]
  /\ UNCHANGED <<browser, pending, recording, flush, monitor, refs, sending, told, stored,
                 history>>

(* A mistake: the rewind is not cancelled.                                 *)
GiveUpSilently == loop' = AtRest /\ plan' = NoPlan /\ UNCHANGED rewinding

GiveUp == loop' = AtRest /\ plan' = NoPlan /\ rewinding' = FALSE

(* _replay_manual_path: the kept actions, on a page of a new context.  It  *)
(* may end on another page than before; then that is what happened.        *)
Replay ==
  /\ loop.at = "replay"
  /\ \/ /\ \E p \in Pages : plan' = [plan EXCEPT !.page = p]
        /\ loop' = [loop EXCEPT !.at = "activate"]
        /\ UNCHANGED <<rewinding, slips>>
     \/ Slip({"failed"}) /\ GiveUp
  /\ UNCHANGED <<browser, pending, recording, flush, monitor, refs, client, stored, trail, shown,
                 budget>>

(* The last action of the replayed path, and the page it was performed on. *)
Replayed ==
  IF plan.keep = 0 THEN [on |-> NoEvent, from |-> {}]
  ELSE LET t == Entries[plan.keep] IN
       [on |-> t.acts[Len(t.acts)], from |-> {states[t.source]}]

(* activate_replayed_page: the recorder looks at the new page from here    *)
(* on, even if the rest fails.                                             *)
Activate ==
  /\ loop.at = "activate"
  /\ page' = plan.page
  /\ trail' = Replayed
  /\ shown' = shown \union {<<q, trail'.on, page'>> : q \in trail'.from}
  /\ \/ /\ loop' = [loop EXCEPT !.at = "commit"]
        /\ UNCHANGED <<rewinding, plan, slips>>
     \/ /\ Failure("halfway")
        /\ slips' = slips \union {"halfway", "failed"}
        /\ GiveUp
  /\ UNCHANGED <<arriving, waiting, pending, recording, flush, monitor, refs, client, stored, budget>>

(* A mistake: the revision stays.                                          *)
SameRevision(first, base, checkpoint) ==
  [segment EXCEPT !.first = first, !.base = base, !.checkpoint = checkpoint]

NextRevision(first, base, checkpoint) ==
  [segment EXCEPT !.first = first, !.base = base, !.checkpoint = checkpoint,
                  !.revision = @ + 1]

(* A mistake: the state rewound to is cut off as well.                     *)
UpToBefore(target) == SubSeq(states, 1, target - 1)

UpTo(target) == SubSeq(states, 1, target)

(* commit_rewind: what comes after the target is forgotten.  If the replay *)
(* ended elsewhere, the page is a new state, where the last kept step now  *)
(* leads, or where the flow starts.  Queued steps are drained.             *)
CommitRewind ==
  LET cut == segment.base + plan.keep
      kept == SubSeq(transitions, 1, cut)
      matched == plan.page = states[plan.target]
      rest == IF matched THEN UpTo(plan.target) ELSE Append(UpTo(plan.target), plan.page)
      last == Len(rest)
  IN
  /\ loop.at = "commit"
  /\ flush = NoFlush
  /\ states' = rest
  /\ current' = last
  /\ transitions' = IF plan.keep > 0 THEN [kept EXCEPT ![cut].target = last] ELSE kept
  /\ segment' = IF plan.keep > 0
                  THEN NextRevision(segment.first, segment.base, segment.checkpoint)
                  ELSE NextRevision(last, cut, plan.page)
  /\ pending' = <<>>
  /\ outbox' = <<>>
  /\ told' = {kept[k].id : k \in segment.base + 1 .. cut}
  /\ Slip(IF arriving # <<>> THEN {"late"} ELSE {})
  /\ GiveUp
  /\ UNCHANGED <<browser, candidate, made, flush, monitor, refs, sending, stored, trail, shown,
                 budget>>

-----------------------------------------------------------------------------
LoopSteps ==
  \/ LoopLooks \/ StartFlow
  \/ RefuseFinish \/ FinishSegment \/ PersistFails \/ StoreFlow
  \/ RefuseRewind \/ PrepareRewind \/ Replay \/ Activate \/ CommitRewind

Next ==
  /\ loop.at # "ended"
  /\ \/ \E e \in UNION {Offers[p] : p \in Pages} : UserActs(e)
     \/ Drift \/ WaitEnds
     \/ RecordEvent \/ TakeStep \/ SendStep
     \/ MonitorDecides \/ MonitorLooks
     \/ TakeSnapshot \/ FlushFails
     \/ \E op \in {"start", "publish", "finish", "rewind"} : Serve(op)
     \/ LoopSteps

Spec == Init /\ [][Next]_vars

(* The event loop runs every task.  The lock is taken and released again   *)
(* and again by the monitor; asyncio.Lock serves those who wait in order.  *)
FairSpec == Spec /\ WF_vars(TakeSnapshot) /\ SF_vars(LoopSteps)

-----------------------------------------------------------------------------
Event == [on : Elements, by : {"click", "type", "press"}]
Step == Pages \X Seq(Event) \X Pages
Transition == [id : Nat, source : Nat, target : Nat, acts : Seq(Event)]

TypeOK ==
  /\ page \in Pages /\ arriving \in Seq(Event) /\ waiting \in BOOLEAN
  /\ pending \in Seq(Event)
  /\ states \in Seq(Pages) /\ transitions \in Seq(Transition)
  /\ current \in Nat /\ candidate \in Nat /\ made \in Nat
  /\ segment \in [active : BOOLEAN, first : Nat, base : Nat,
                  checkpoint : Pages \union {NoPage}, revision : Nat]
  /\ rewinding \in BOOLEAN
  /\ flush \in [by : {"nobody", "monitor", "loop"}, events : Seq(Event), changed : BOOLEAN]
  /\ monitor \in {"asleep", "forcing"}
  /\ loop \in [op : {"none", "start", "publish", "finish", "rewind"},
               at : {"idle", "flush", "flushing", "body", "store", "replay", "activate", "commit",
                     "ended"}]
  /\ plan \in [keep : Nat, target : Nat, page : Pages \union {NoPage}]
  /\ refs \in Seq(Step)
  /\ outbox \in Seq([id : Nat, revision : Nat]) /\ sending \in Seq([id : Nat, revision : Nat])
  /\ Len(sending) <= 1 /\ told \subseteq Nat
  /\ graph.states \subseteq Pages /\ graph.transitions \subseteq Step
  /\ flows \subseteq [checkpoint : Pages, steps : Seq(Step)]
  /\ slips \subseteq SlipKind

(* No index dangles where it is used: the start of the segment, the page   *)
(* shown and all ends of active steps are recorded states, in the order    *)
(* in which things happened, whatever was rewound (commit_rewind cuts both *)
(* lists; _step_payload and prepare_rewind look indexes up).               *)
SegmentInBounds ==
  /\ candidate <= current /\ current <= Len(states)
  /\ segment.base <= Len(transitions)
  /\ segment.active =>
       /\ candidate <= segment.first /\ segment.first <= current
       /\ segment.checkpoint = states[segment.first]
       /\ \A k \in DOMAIN Entries :
            /\ Entries[k].source <= Entries[k].target /\ Entries[k].target <= current
            /\ Entries[k].source >= IF k = 1 THEN segment.first ELSE Entries[k - 1].target

(* The active steps lead from the checkpoint to the page shown, one after  *)
(* the other, so that the segment can be finished (verify_bdd_flow), as    *)
(* long as every change was attributed to a step and the page did not      *)
(* change by itself before the flow began.                                 *)
SegmentIsAPath ==
  segment.active /\ slips \intersect {"unmapped", "unresolved", "unexplained"} = {} =>
    LET ends == <<segment.first>> \o [k \in DOMAIN Entries |-> Entries[k].target] IN
    /\ \A k \in DOMAIN Entries : Entries[k].source = ends[k]
    /\ ends[Len(ends)] = current

(* What is stored as a flow is a path of the graph from its checkpoint,    *)
(* although the row is written after the lock was released (_finish).      *)
FlowsArePaths ==
  \A f \in flows :
    /\ IsPath(f.checkpoint, f.steps)
    /\ f.checkpoint \in graph.states
    /\ \A k \in DOMAIN f.steps : f.steps[k] \in graph.transitions

(* What is stored happened: where a step leads was shown after its last    *)
(* event and before the next one, which was caused on the page the step    *)
(* starts from.  This needs events that come in time and one at a time.    *)
FlowsHappened ==
  slips \intersect {"late", "hasty", "unmapped", "unresolved", "lost", "halfway"} = {} =>
    \A f \in flows : \A k \in DOMAIN f.steps :
      LET s == f.steps[k] IN <<s[1], s[2][Len(s[2])], s[3]>> \in shown

(* The recorder's view of the flow is true: well typed, a path to the page *)
(* shown, and a sequence of things that happened.                          *)
RecordingIsTrue == TypeOK /\ SegmentIsAPath /\ FlowsHappened

ToSend == {outbox[k] : k \in DOMAIN outbox} \union {sending[k] : k \in DOMAIN sending}

(* A step that is still to be sent is a step of the flow, or carries an    *)
(* older revision, by which the client can tell (commit_rewind, start).    *)
StaleStepsAreMarked ==
  segment.active =>
    \A m \in ToSend : m.revision = segment.revision => m.id \in Ids(Entries)

(* Between requests the client has been sent every active step, or will be *)
(* (step_queue), unless one of its requests has failed: those drop what    *)
(* they flush.                                                             *)
ClientIsCaughtUp ==
  segment.active /\ loop = AtRest /\ "failed" \notin slips =>
    Ids(Entries) \subseteq told \union {m.id : m \in ToSend}

(* The client's view follows the recorder's, across rewinds: it gets every *)
(* step of the flow, and can tell the ones that are not in it any more.    *)
ClientFollows == ClientIsCaughtUp /\ StaleStepsAreMarked

(* A rewind, however it goes, ends, and recording goes on (cancel_rewind). *)
RecordingResumes == rewinding ~> ~rewinding

(* Every request of the client is answered, though the monitor competes    *)
(* for the lock.                                                           *)
RequestsAreAnswered == (loop.at = "flush") ~> (loop.at \in {"idle", "ended"})

(* Nothing that the client asks for hangs, or leaves the recorder hanging. *)
RequestsEnd == RequestsAreAnswered /\ RecordingResumes
=============================================================================
