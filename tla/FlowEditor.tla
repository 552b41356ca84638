------------------------------ MODULE FlowEditor ------------------------------
(***************************************************************************)
(* The editor of a test flow: the coroutine flow_editor_session of         *)
(* workers/jobs/flow_editor_session.py.  The user opens positions of a     *)
(* flow, which the worker reaches by replaying the transitions before it   *)
(* in a new browser context, looks at a screencast of the page, and picks  *)
(* elements of it.                                                         *)
(***************************************************************************)
EXTENDS Naturals, FiniteSets, Sequences

CONSTANTS
  Flows,    \* the flows there may be, each the ids of its transitions
  Graph,    \* Graph[id]: what the graph keeps of a transition
  Waiting,  \* messages that may wait in the websocket (bounds the model)
  Frames,   \* frames that may be under way at once (bounds the model)
  Budget    \* how often each disturbance may happen (bounds the model)

(* Messages of the user, and anything that goes wrong.                     *)
Disturbance == {"send", "trouble"}

Ids == UNION {{f[i] : i \in DOMAIN f} : f \in Flows}

ASSUME EditorAssumption ==
  /\ \A f \in Flows : f \in Seq(Ids)
  /\ Waiting \in Nat /\ Frames \in Nat
  /\ Budget \in [Disturbance -> Nat]

VARIABLES
  job,       \* where the coroutine is
  flow,      \* the transitions of the flow
  opening,   \* the position that is being opened
  serving,   \* does it serve a message, or open the first position?
  ws,        \* none, open, gone (the user hung up), closed (by the worker)
  inbox,     \* messages that were not received yet
  contexts,  \* browser contexts that are open
  context,   \* the variable context: the newest one, 0 for None
  page,      \* the variable page: the context it was opened in, 0 for None
  at,        \* what was performed on page: n transitions, and i actions of the next
  cast,      \* the variable cdp: the context whose frames arrive, 0 for None
  frames,    \* frames whose sending is under way: where they were taken
  unstopped, \* screencasts that could not be stopped: context and place
  told,      \* the position the user was last told is ready
  seen,      \* the last frame the user got since then, or told
  asked,     \* requests received that are to be answered
  answered,  \* answers that were sent
  confused,  \* has a request failed since?
  leaked,    \* contexts that could not be closed
  budget     \* disturbances that may still happen

jobVars == <<job, flow, opening, serving>>
wsVars == <<ws, inbox>>
browserVars == <<contexts, context, page, at>>
castVars == <<cast, frames, unstopped>>
userVars == <<told, seen, asked, answered, confused>>
vars == <<jobVars, wsVars, browserVars, castVars, userVars, leaked, budget>>

-----------------------------------------------------------------------------
(* A transition is kept with a list of actions, which may be missing, and  *)
(* with the type and the selector of the last one.                         *)
TransitionActions(id) ==
  LET t == Graph[id]
      Typed(a) == a.type # ""
      listed == SelectSeq(t.value, Typed)
  IN  IF listed # <<>> THEN listed
      ELSE IF t.type # "" THEN <<[type |-> t.type, selector |-> t.selector]>> ELSE <<>>

(* _execute_editor_action: what is not understood, or lacks what it acts   *)
(* on, raises; a hover or a navigation without a target does nothing.      *)
Executable(a) ==
  \/ a.type \in {"type", "fill", "press", "navigate", "hover"}
  \/ a.type \in {"click", "select"} /\ a.selector # ""

(* Positions: before or after a transition, of any flow, or the beginning. *)
Start == [id |-> "", edge |-> "before"]
Position == [id : Ids, edge : {"before", "after"}]
InFlow(p) == p = Start \/ \E i \in DOMAIN flow : flow[i] = p.id

(* _transition_index: the first one with that id, though a flow may pass   *)
(* a transition twice.                                                     *)
TransitionIndex(id) == CHOOSE i \in DOMAIN flow : flow[i] = id /\ \A j \in 1 .. i - 1 : flow[j] # id

(* _replay_count_for_position.                                             *)
ReplayCount(p) ==
  IF p = Start THEN 0
  ELSE IF p.edge = "before" THEN TransitionIndex(p.id) - 1 ELSE TransitionIndex(p.id)

Beginning == [n |-> 0, i |-> 0]
Nowhere == [n |-> 0, i |-> 99]   \* no page, no position

OpenPc == {"stop", "drain", "close", "context", "page", "replay", "cast", "ready"}
TryPc == {"launch", "connect", "loop", "inspect", "scroll", "sorry", "goodbye"} \union OpenPc
Pc == {"fetch", "resolve", "failing", "over", "clean", "done"} \union TryPc

(* inspect stands for inspector.hover and inspector.pick, other for what   *)
(* is not JSON or lacks its position.                                      *)
Message == {[type |-> "open", to |-> p] : p \in Position}
           \union {[type |-> t, to |-> Start] : t \in {"inspect", "scroll", "other", "leave"}}

Disturb(d) ==
  /\ budget[d] > 0
  /\ budget' = [budget EXCEPT ![d] = @ - 1]

Goto(label) == job' = label /\ UNCHANGED <<flow, opening, serving, budget>>
HangUp == ws' = (IF ws = "none" THEN "none" ELSE "closed") /\ inbox' = <<>>

Init ==
  /\ job = "fetch" /\ flow = <<>> /\ opening = Start /\ serving = FALSE
  /\ ws = "none" /\ inbox = <<>>
  /\ contexts = {} /\ context = 0 /\ page = 0 /\ at = Nowhere
  /\ cast = 0 /\ frames = {} /\ unstopped = {}
  /\ told = Start /\ seen = Nowhere /\ asked = 0 /\ answered = 0 /\ confused = FALSE
  /\ leaked = {} /\ budget = Budget

-----------------------------------------------------------------------------
(* Starting: the flow's row ...                                            *)
Fetch ==
  /\ job = "fetch"
  /\ \/ \E f \in Flows : flow' = f /\ job' = "resolve" /\ UNCHANGED budget
     \/ Disturb("trouble") /\ job' = "done" /\ UNCHANGED flow
  /\ UNCHANGED <<opening, serving, wsVars, browserVars, castVars, userVars, leaked>>

(* GET_DATA_FROM_FLOW_QUERY: the places of the transitions that the graph  *)
(* still has; none if it does not know the checkpoint.                     *)
Rows(checkpoint) == {i \in DOMAIN flow : checkpoint /\ flow[i] \in DOMAIN Graph}

(* ... and what the graph has of its checkpoint and its transitions.  A    *)
(* flow that does not resolve completely raises before the try block.      *)
Resolve ==
  /\ job = "resolve"
  /\ \E checkpoint \in BOOLEAN :
       job' = IF Cardinality(Rows(checkpoint)) = Len(flow) THEN "launch" ELSE "done"
  /\ UNCHANGED <<flow, opening, serving, wsVars, browserVars, castVars, userVars, leaked, budget>>

Launch ==
  /\ job = "launch"
  /\ Goto("connect")
  /\ UNCHANGED <<wsVars, browserVars, castVars, userVars, leaked>>

(* The websocket, editor.ready, and the first position.                    *)
Connect ==
  /\ job = "connect"
  /\ job' = "stop" /\ opening' = Start /\ serving' = FALSE
  /\ ws' = "open" /\ inbox' = <<>>
  /\ UNCHANGED <<flow, browserVars, castVars, userVars, leaked, budget>>

-----------------------------------------------------------------------------
(* open_position.                                                          *)

(* _stop_screencast: no more frames arrive, and those under way are waited *)
(* for.  An exception here is ignored, and frames arrive until the context *)
(* is closed; those that come during the wait are not waited for.          *)
StopScreencast ==
  /\ job = "stop"
  /\ cast' = 0
  /\ \/ Goto("drain") /\ UNCHANGED unstopped
     \/ /\ cast # 0 /\ Disturb("trouble")
        /\ unstopped' = unstopped \union {[context |-> cast, at |-> at]}
        /\ job' = "drain"
        /\ UNCHANGED <<flow, opening, serving>>
  /\ UNCHANGED <<wsVars, browserVars, frames, userVars, leaked>>

(* A mistake: the frames under way are forgotten, not waited for.          *)
DrainInVain ==
  /\ job = "drain"
  /\ Goto("close")
  /\ UNCHANGED <<wsVars, browserVars, castVars, userVars, leaked>>

Drain ==
  /\ job = "drain" /\ (frames = {} \/ unstopped # {})
  /\ Goto("close")
  /\ UNCHANGED <<wsVars, browserVars, castVars, userVars, leaked>>

(* A mistake: the old context stays open.                                  *)
CloseNothing ==
  /\ job = "close"
  /\ Goto("context")
  /\ UNCHANGED <<wsVars, browserVars, castVars, userVars, leaked>>

(* An exception here is ignored, and the context stays open.               *)
CloseContext ==
  /\ job = "close"
  /\ \/ contexts' = contexts \ {context} /\ Goto("context") /\ UNCHANGED leaked
     \/ /\ context \in contexts /\ Disturb("trouble")
        /\ leaked' = leaked \union {context}
        /\ job' = "context"
        /\ UNCHANGED <<contexts, flow, opening, serving>>
  /\ UNCHANGED <<wsVars, context, page, at, castVars, userVars>>

NewContext ==
  /\ job = "context"
  /\ context' = context + 1 /\ contexts' = contexts \union {context + 1}
  /\ Goto("page")
  /\ UNCHANGED <<wsVars, page, at, castVars, userVars, leaked>>

(* A new page, which loads the checkpoint.                                 *)
NewPage ==
  /\ job = "page"
  /\ page' = context /\ at' = Beginning
  /\ Goto("replay")
  /\ UNCHANGED <<wsVars, contexts, context, castVars, userVars, leaked>>

(* The next action of the transition that is being replayed.               *)
Actions == TransitionActions(flow[at.n + 1])

ReplayUpTo(count) ==
  /\ IF at.n = count THEN Goto("cast") /\ UNCHANGED at
     ELSE /\ IF at.i = Len(Actions)
               THEN at' = [n |-> at.n + 1, i |-> 0]
               ELSE Executable(Actions[at.i + 1]) /\ at' = [at EXCEPT !.i = @ + 1]
          /\ Goto("replay")
  /\ UNCHANGED <<wsVars, contexts, context, page, castVars, userVars, leaked>>

(* A mistake: the last transition with that id is meant.                   *)
ReplayToLast ==
  /\ job = "replay" /\ InFlow(opening)
  /\ ReplayUpTo(IF opening = Start THEN 0
                ELSE LET last == CHOOSE i \in DOMAIN flow :
                           flow[i] = opening.id /\ \A j \in i + 1 .. Len(flow) : flow[j] # opening.id
                     IN  IF opening.edge = "before" THEN last - 1 ELSE last)

Replay ==
  /\ job = "replay" /\ InFlow(opening)
  /\ ReplayUpTo(ReplayCount(opening))

StartScreencast ==
  /\ job = "cast"
  /\ cast' = page
  /\ Goto("ready")
  /\ UNCHANGED <<wsVars, browserVars, frames, unstopped, userVars, leaked>>

Answer == answered' = IF serving THEN answered + 1 ELSE answered

(* position.ready                                                          *)
Ready ==
  /\ job = "ready"
  /\ told' = opening /\ seen' = at /\ confused' = FALSE
  /\ Answer
  /\ Goto("loop")
  /\ UNCHANGED <<wsVars, browserVars, castVars, asked, leaked>>

(* An exception half-way ends the session if it opens the first position,  *)
(* and is reported otherwise; page and context stay as they are then.      *)
OpenFails ==
  /\ job \in OpenPc \ {"stop", "drain", "close"}
  /\ \/ job = "replay" /\ ~InFlow(opening) /\ UNCHANGED budget
     \/ /\ job = "replay" /\ InFlow(opening) /\ at.n < ReplayCount(opening)
        /\ at.i < Len(Actions) /\ ~Executable(Actions[at.i + 1])
        /\ UNCHANGED budget
     \/ Disturb("trouble")
  /\ job' = IF serving THEN "sorry" ELSE "failing"
  /\ IF serving THEN UNCHANGED wsVars ELSE HangUp
  /\ UNCHANGED <<flow, opening, serving, browserVars, castVars, userVars, leaked>>

-----------------------------------------------------------------------------
(* The message loop, lines 298-344.                                        *)

Receive ==
  /\ job = "loop" /\ ws # "closed" /\ inbox # <<>>
  /\ inbox' = Tail(inbox)
  /\ LET m == Head(inbox)
     IN  /\ job' = CASE m.type = "open" -> "stop" [] m.type = "leave" -> "goodbye"
                     [] m.type = "other" -> "sorry" [] OTHER -> m.type
         /\ IF m.type = "open" THEN opening' = m.to ELSE UNCHANGED opening
         /\ asked' = IF m.type \in {"open", "inspect", "other"} THEN asked + 1 ELSE asked
  /\ serving' = TRUE
  /\ UNCHANGED <<flow, ws, browserVars, castVars, told, seen, answered, confused, leaked, budget>>

LoopEnds ==
  /\ job = "loop" /\ ws = "gone" /\ inbox = <<>>
  /\ Goto("goodbye")
  /\ UNCHANGED <<wsVars, browserVars, castVars, userVars, leaked>>

(* _inspect_at asks whatever page there is, which may be closed.           *)
CanInspect == page \in contexts

(* inspector.hovered, inspector.selected.                                  *)
Inspect ==
  /\ job = "inspect"
  /\ IF CanInspect THEN Answer /\ Goto("loop") ELSE Goto("sorry") /\ UNCHANGED answered
  /\ UNCHANGED <<wsVars, browserVars, castVars, told, seen, asked, confused, leaked>>

(* viewport.scroll has neither an answer nor a try of its own.             *)
Scroll ==
  /\ job = "scroll"
  /\ IF page \in contexts THEN Goto("loop") /\ UNCHANGED wsVars ELSE Goto("failing") /\ HangUp
  /\ UNCHANGED <<browserVars, castVars, userVars, leaked>>

SayError ==
  /\ job = "sorry"
  /\ confused' = TRUE
  /\ Answer
  /\ Goto("loop")
  /\ UNCHANGED <<wsVars, browserVars, castVars, told, seen, asked, leaked>>

-----------------------------------------------------------------------------
(* The end.                                                                *)

Goodbye ==
  /\ job = "goodbye"
  /\ HangUp
  /\ Goto("over")
  /\ UNCHANGED <<browserVars, castVars, userVars, leaked>>

(* except Exception: its messages come after the websocket was closed.     *)
HandleFailure ==
  /\ job = "failing"
  /\ Goto("over")
  /\ UNCHANGED <<wsVars, browserVars, castVars, userVars, leaked>>

(* A mistake: the screencast goes on, as long as there are frames to wait  *)
(* for.                                                                    *)
FinallyWait ==
  /\ job = "over"
  /\ Goto("clean")
  /\ UNCHANGED <<wsVars, browserVars, castVars, userVars, leaked>>

(* finally: the screencast is stopped and its frames are waited for.  If   *)
(* it cannot be stopped, there is nobody left to see them.                 *)
FinallyStop ==
  /\ job = "over"
  /\ cast' = 0
  /\ Goto("clean")
  /\ UNCHANGED <<wsVars, browserVars, frames, unstopped, userVars, leaked>>

(* The context, and the browser with all of them.                          *)
Clean ==
  /\ job = "clean" /\ (frames = {} \/ unstopped # {})
  /\ contexts' = {}
  /\ Goto("done")
  /\ UNCHANGED <<wsVars, context, page, at, castVars, userVars, leaked>>

(* handle_frame: the user gets the frame, or the sending fails.            *)
SendFrame(f) ==
  /\ f \in frames
  /\ frames' = frames \ {f}
  /\ seen' = IF ws = "open" /\ seen # Nowhere THEN f ELSE seen
  /\ UNCHANGED <<jobVars, wsVars, browserVars, cast, unstopped, told, asked, answered,
                 confused, leaked, budget>>

-----------------------------------------------------------------------------
(* Failures and the environment.                                           *)

(* Sending to a user who has hung up may raise.                            *)
SendFails ==
  /\ ws = "gone" /\ job \in {"ready", "inspect", "sorry", "goodbye"}
  /\ Goto("failing")
  /\ HangUp
  /\ UNCHANGED <<browserVars, castVars, userVars, leaked>>

Raise ==
  /\ job \in {"launch", "connect", "scroll"}
  /\ Disturb("trouble")
  /\ job' = "failing"
  /\ HangUp
  /\ UNCHANGED <<flow, opening, serving, browserVars, castVars, userVars, leaked>>

(* arq cancels the job: the handler passes it on.                          *)
Cancel ==
  /\ job \in TryPc
  /\ Disturb("trouble")
  /\ job' = "over"
  /\ HangUp
  /\ UNCHANGED <<flow, opening, serving, browserVars, castVars, userVars, leaked>>

Send(m) ==
  /\ ws = "open" /\ Len(inbox) < Waiting
  /\ Disturb("send")
  /\ inbox' = Append(inbox, m)
  /\ UNCHANGED <<jobVars, ws, browserVars, castVars, userVars, leaked>>

UserHangsUp ==
  /\ ws = "open"
  /\ Disturb("trouble")
  /\ ws' = "gone"
  /\ UNCHANGED <<jobVars, inbox, browserVars, castVars, userVars, leaked>>

(* A frame of the page arrives: on_frame starts a task for it.             *)
Frame ==
  /\ Cardinality(frames) < Frames
  /\ \/ cast # 0 /\ cast \in contexts /\ frames' = frames \union {at}
     \/ \E u \in unstopped : u.context \in contexts /\ frames' = frames \union {u.at}
  /\ UNCHANGED <<jobVars, wsVars, browserVars, cast, unstopped, userVars, leaked, budget>>

-----------------------------------------------------------------------------
Open ==
  \/ StopScreencast \/ Drain \/ CloseContext \/ NewContext \/ NewPage \/ Replay
  \/ StartScreencast \/ Ready \/ OpenFails

Job ==
  \/ Fetch \/ Resolve \/ Launch \/ Connect \/ Open
  \/ Receive \/ LoopEnds \/ Inspect \/ Scroll \/ SayError
  \/ Goodbye \/ HandleFailure \/ FinallyStop \/ Clean

Sending == \E f \in frames : SendFrame(f)

Environment ==
  SendFails \/ Raise \/ Cancel \/ UserHangsUp \/ Frame \/ \E m \in Message : Send(m)

Next == Job \/ Sending \/ Environment

(* The worker does what is ready, and the frames that it waits for are     *)
(* sent.  Nobody else has to do anything.                                  *)
Spec == Init /\ [][Next]_vars /\ WF_vars(Job) /\ WF_vars(Sending)

-----------------------------------------------------------------------------
Shown == [n : Nat, i : Nat]

TypeOK ==
  /\ job \in Pc /\ flow \in Seq(Ids) /\ opening \in Position \union {Start} /\ serving \in BOOLEAN
  /\ ws \in {"none", "open", "gone", "closed"} /\ inbox \in Seq(Message)
  /\ contexts \subseteq 1 .. context /\ context \in Nat /\ page \in 0 .. context
  /\ at \in Shown
  /\ cast \in {0, page} /\ frames \subseteq Shown
  /\ unstopped \subseteq [context : Nat, at : Shown]
  /\ told \in Position \union {Start} /\ seen \in Shown
  /\ asked \in Nat /\ answered \in Nat /\ confused \in BOOLEAN
  /\ leaked \subseteq 1 .. context /\ budget \in [Disturbance -> Nat]

Idling == job \in {"loop", "inspect", "scroll"} /\ ~confused

(* What the user picks elements from is the position he was told is ready, *)
(* and is there to be picked from: all transitions up to the first one     *)
(* with its id, and this one only for the position after it, with all of   *)
(* their actions.  Only an error message may put that in doubt: opening a  *)
(* position closes the old one first, and may then end in a closed page,   *)
(* in the checkpoint, or half-way (lines 203-241).                         *)
ToldIsShown ==
  Idling =>
    /\ page \in contexts /\ cast = page /\ at.i = 0
    /\ told = Start => at.n = 0
    /\ told # Start /\ told.edge = "before" => flow[at.n + 1] = told.id
    /\ told # Start /\ told.edge = "after" => flow[at.n] = told.id
    /\ \A k \in 1 .. at.n : flow[k] = told.id => told.edge = "after" /\ k = at.n

(* After position.ready the user sees no frame of the page before, since   *)
(* the screencast is stopped and the frames under way are waited for --    *)
(* unless one could not be stopped: _stop_screencast ignores that.         *)
FramesAreCurrent == Idling /\ unstopped = {} => frames \union {seen} \subseteq {at}

(* Every request is answered once, by what was asked for or by an error.   *)
RequestsAreAnswered ==
  job = "loop" => answered = asked

(* The user knows where he is: he is told the truth or of an error.        *)
UserIsAnswered == TypeOK /\ ToldIsShown /\ RequestsAreAnswered

(* Only one context is open at a time, except for those that could not be  *)
(* closed; and none when the job is over.                                  *)
NothingPilesUp ==
  /\ contexts \subseteq {context} \union leaked
  /\ job = "done" => contexts = {} /\ cast = 0

(* An editor whose user is gone ends.                                      *)
EditorEnds == ws = "gone" ~> job = "done"
=============================================================================
