---------------------------- MODULE ManualSession ----------------------------
(***************************************************************************)
(* The life of a manual recording: the coroutine manual_record_session of  *)
(* workers/jobs/manual_record_session.py, run by arq, with the websocket   *)
(* through which the user works, the idle time limit that closes a         *)
(* recording nobody works on, the browser contexts that rewinds replace,   *)
(* and the row of the session.                                             *)
(*                                                                         *)
(* What the recorder records is the subject of ManualRecorder; here a      *)
(* request takes its time, and then succeeds or fails.  Time passes in     *)
(* ticks of the environment, at any moment; diligent and prompt remember   *)
(* whether it has passed too fast for the user or for the worker.          *)
(***************************************************************************)
EXTENDS CrawlRow, Sequences, FiniteSetsExt

CONSTANTS
  Ttl,      \* MANUAL_SESSION_IDLE_TTL_SECONDS, in ticks
  Gap,      \* a diligent user pauses for no more ticks than this
  Work,     \* a prompt worker needs no more ticks than this for a request
  Waiting,  \* messages that may wait in the websocket (bounds the model)
  Budget    \* how often each disturbance may happen (bounds the model)

(* What may happen: submissions, messages of the user, and any other       *)
(* event: the page acts, the user hangs up, the API aborts the session,    *)
(* arq cancels the job, the worker is killed, something raises.            *)
Disturbance == {"submit", "send", "other"}

ASSUME SessionAssumption ==
  /\ Ttl \in Nat \ {0} /\ Gap \in Nat /\ Work \in Nat /\ Waiting \in Nat
  /\ Gap + Work < Ttl
  /\ Budget \in [Disturbance -> Nat]

VARIABLES
  row,       \* the crawl_sessions row
  job,       \* where the coroutine is
  rerun,     \* will arq run this job again?
  request,   \* the message that is being served
  outcome,   \* close_outcome
  (* The websocket and the user behind it *)
  ws,        \* none, open, gone (the user hung up), closed (by the worker)
  inbox,     \* messages that were not received yet
  told,      \* what the user was last told of the session
  (* The idle time limit *)
  monitor,   \* where ManualSessionIdleTTL.monitor is
  idle,      \* ticks since the last reset, at most Ttl
  expired,   \* ttl_timeout_event
  (* The browser *)
  contexts,  \* the contexts that are open
  page,      \* the context whose page the user works on
  (* The flows of this recording *)
  active,    \* is a flow being recorded?
  stored,    \* flows that were written to test_flows
  announced, \* flows whose completion the user was sent
  states,    \* State nodes of the session's graph
  counted,   \* recorder.state_count
  (* The environment *)
  quiet,     \* ticks since the user last sent something, at most Gap
  busy,      \* ticks the worker has owed the user something, at most Work
  budget,    \* disturbances that may still happen
  (* History *)
  diligent,  \* has the user never been quiet for more than Gap ticks?
  prompt,    \* has the worker never been busy for more than Work ticks?
  stranded,  \* was the job cancelled, or did its last handler fail?
  unsaid,    \* was a request cut short after it had stored its flow?
  again,     \* did the session run before?
  late       \* was the user leaving while the time limit ran out?

jobVars == <<job, rerun, request, outcome>>
wsVars == <<ws, inbox, told>>
ttlVars == <<monitor, idle, expired>>
browserVars == <<contexts, page>>
flowVars == <<active, stored, announced, states, counted>>
clockVars == <<quiet, busy, diligent, prompt>>
history == <<stranded, unsaid, again, late>>
session == <<wsVars, ttlVars, browserVars, flowVars>>
vars == <<row, jobVars, wsVars, ttlVars, browserVars, flowVars, clockVars, budget, history>>

-----------------------------------------------------------------------------
(* Control points.  "serve": in the handler of request; "reply": about to  *)
(* answer it; "replay", "activate": inside flow.rewind; "mark", "tell":    *)
(* after the message loop; "clean": the finally block.                     *)
StartPc == {"queued", "ensure", "claim", "recheck"}
SetupPc == {"inputs", "connect", "starting"}
ServePc == {"serve", "reply", "replay", "activate"}
TryPc == SetupPc \union {"loop"} \union ServePc \union {"mark", "tell"}
HandlerPc == {"cancelled", "failing", "stampFailed", "sayFailed"}
Pc == {"none", "stamp", "clean"} \union StartPc \union TryPc \union HandlerPc

(* Requests by what can become of them: input stands for browser.input,    *)
(* whose exceptions end the session, and for flow.publish_pending; leave   *)
(* and leaveEarly are session.disconnect with its two kinds of reason.     *)
Message == {"input", "start", "finish", "report", "rewind", "leave", "leaveEarly"}
NoRequest == "nothing"
Storing == request \in {"finish", "report"}

Notice == {"nothing", "running", "completed", "aborted", "failed"}
MonitorPc == {"off", "sleep", "expire", "close"}

Disturb(d) ==
  /\ budget[d] > 0
  /\ budget' = [budget EXCEPT ![d] = @ - 1]

(* The coroutine comes to its next await.                                  *)
Goto(label) == job' = label /\ UNCHANGED <<rerun, request, clockVars, budget>>

(* ManualSessionIdleTTL.reset                                              *)
Reset == idle' = 0

(* _send_ws does nothing once the worker has closed the websocket; the     *)
(* user hears what is sent while he is there.                              *)
Heard == ws = "open"

Say(notice) == told' = IF Heard THEN notice ELSE told

(* The worker leaves the block that holds the websocket, which closes it.  *)
HangUp == ws' = (IF ws = "none" THEN "none" ELSE "closed") /\ inbox' = <<>>

Init ==
  /\ row = NewRow
  /\ job = "none" /\ rerun = FALSE /\ request = NoRequest /\ outcome = "aborted"
  /\ ws = "none" /\ inbox = <<>> /\ told = "nothing"
  /\ monitor = "off" /\ idle = 0 /\ expired = FALSE
  /\ contexts = {} /\ page = 1
  /\ active = FALSE /\ stored = 0 /\ announced = 0 /\ states = 0 /\ counted = 0
  /\ quiet = 0 /\ busy = 0 /\ budget = Budget
  /\ diligent = TRUE /\ prompt = TRUE
  /\ stranded = FALSE /\ unsaid = FALSE /\ again = FALSE /\ late = FALSE

-----------------------------------------------------------------------------
(* Starting, lines 1729-1876.                                              *)

(* ensure_started_or_skip_aborted: its first read, its claim, its second   *)
(* read, which raises out of the job for any other status.                 *)
EnsureNotAborted ==
  /\ job = "ensure"
  /\ Goto(IF row.status = "ABORTED" THEN "stamp" ELSE "claim")
  /\ UNCHANGED <<row, outcome, session, history>>

Claim ==
  /\ job = "claim"
  /\ row' = MarkQueuedRunning(row)
  /\ Goto(IF row.status = "QUEUED" THEN "inputs" ELSE "recheck")
  /\ UNCHANGED <<outcome, session, history>>

Recheck ==
  /\ job = "recheck"
  /\ Goto(CASE row.status = "ABORTED" -> "stamp"
            [] row.status \in Active -> "inputs"
            [] OTHER -> "clean")
  /\ UNCHANGED <<row, outcome, session, history>>

(* A mistake: the session is completed however its loop ends.              *)
TakeUpCompleting ==
  /\ job = "queued"
  /\ Goto("ensure")
  /\ outcome' = "completed" /\ expired' = FALSE /\ active' = FALSE /\ counted' = 0
  /\ again' = (again \/ states > 0)
  /\ UNCHANGED <<row, wsVars, monitor, idle, browserVars, stored, announced,
                 states, stranded, unsaid, late>>

(* arq takes the job up, with fresh local variables.                       *)
TakeUp ==
  /\ job = "queued"
  /\ Goto("ensure")
  /\ outcome' = "aborted" /\ expired' = FALSE /\ active' = FALSE /\ counted' = 0
  /\ again' = (again \/ states > 0)
  /\ UNCHANGED <<row, wsVars, monitor, idle, browserVars, stored, announced,
                 states, stranded, unsaid, late>>

(* fetch_job_inputs and the start of the browser with its first context.   *)
Launch ==
  /\ job = "inputs"
  /\ Goto("connect")
  /\ contexts' = {1} /\ page' = 1
  /\ UNCHANGED <<row, outcome, wsVars, ttlVars, flowVars, history>>

(* The websocket, the recorder and the tasks.                              *)
Connect ==
  /\ job = "connect"
  /\ job' = "starting"
  /\ ws' = "open" /\ inbox' = <<>> /\ told' = "nothing"
  /\ monitor' = "sleep" /\ Reset
  /\ quiet' = 0 /\ busy' = 0
  /\ UNCHANGED <<row, rerun, request, outcome, expired, browserVars, flowVars,
                 diligent, prompt, budget, history>>

(* The first page is loaded and captured; the user may begin.              *)
Ready ==
  /\ job = "starting"
  /\ job' = "loop"
  /\ Say("running") /\ Reset
  /\ busy' = 0
  /\ UNCHANGED <<row, rerun, request, outcome, ws, inbox, monitor, expired,
                 browserVars, flowVars, quiet, diligent, prompt, budget,
                 history>>

-----------------------------------------------------------------------------
(* The message loop, lines 1878-2031.                                      *)

(* A mistake: serving a message does not restart the time limit.           *)
ReceiveUnnoticed ==
  /\ job = "loop" /\ ws # "closed" /\ inbox # <<>>
  /\ inbox' = Tail(inbox)
  /\ busy' = 0
  /\ job' = "serve" /\ request' = Head(inbox)
  /\ UNCHANGED <<row, rerun, outcome, ws, told, ttlVars, browserVars,
                 flowVars, quiet, diligent, prompt, budget, history>>

(* Every message in the list of line 1890 restarts the time limit before   *)
(* it is served; a disconnect ends the loop.                               *)
Receive ==
  /\ job = "loop" /\ ws # "closed" /\ inbox # <<>>
  /\ inbox' = Tail(inbox)
  /\ Reset /\ busy' = 0
  /\ IF Head(inbox) \in {"leave", "leaveEarly"}
       THEN /\ job' = "mark"
            /\ outcome' = IF Head(inbox) = "leave" THEN "completed" ELSE "aborted"
            /\ late' = (late \/ monitor # "sleep")
            /\ UNCHANGED request
       ELSE job' = "serve" /\ request' = Head(inbox) /\ UNCHANGED <<outcome, late>>
  /\ UNCHANGED <<row, rerun, ws, told, monitor, expired, browserVars,
                 flowVars, quiet, diligent, prompt, budget, stranded,
                 unsaid, again>>

(* The iteration ends when the worker has closed the websocket, or when    *)
(* the user has hung up and everything he sent was received.               *)
LoopEnds ==
  /\ job = "loop"
  /\ \/ ws = "closed"
     \/ ws = "gone" /\ inbox = <<>>
  /\ Goto("mark")
  /\ UNCHANGED <<row, outcome, session, history>>

(* The handler is done.  What the user sent meanwhile is owed to him.      *)
BackToLoop ==
  /\ job' = "loop" /\ request' = NoRequest
  /\ busy' = IF inbox = <<>> THEN 0 ELSE busy
  /\ UNCHANGED <<row, rerun, outcome, quiet, diligent, prompt, budget>>

(* browser.input has no answer; flow.publish_pending stores nothing.       *)
ServeInput ==
  /\ job = "serve" /\ request = "input"
  /\ BackToLoop
  /\ UNCHANGED <<session, history>>

(* A request that the recorder refuses, or that raises inside the try of   *)
(* its handler before it has changed anything, is answered by an error,    *)
(* which does not restart the limit.                                       *)
Refuse ==
  /\ job = "serve" /\ request \in {"start", "finish", "report", "rewind"}
  /\ request = "start" => active
  /\ BackToLoop
  /\ UNCHANGED <<session, history>>

StartFlow ==
  /\ job = "serve" /\ request = "start" /\ ~active
  /\ active' = TRUE
  /\ Goto("reply")
  /\ UNCHANGED <<row, outcome, wsVars, ttlVars, browserVars, stored,
                 announced, states, counted, history>>

(* _finish: the segment goes to the graph, then its flow to test_flows.    *)
StoreFlow ==
  /\ job = "serve" /\ Storing /\ active
  /\ active' = FALSE /\ stored' = stored + 1
  /\ \E n \in 0 .. 1 : states' = states + n /\ counted' = counted + n
  /\ Goto("reply")
  /\ UNCHANGED <<row, outcome, wsVars, ttlVars, browserVars, announced,
                 history>>

(* _finish fails: the segment's states may be in the graph by then, and the *)
(* segment closed, before its row is written.                              *)
StoreFails ==
  /\ job = "serve" /\ Storing /\ active
  /\ active' \in BOOLEAN
  /\ \E n \in 0 .. 1 : states' = states + n /\ counted' = counted + n
  /\ BackToLoop
  /\ UNCHANGED <<wsVars, ttlVars, browserVars, stored, announced, history>>

(* report_bug: the report to the API fails after its flow was stored.      *)
ReportFails ==
  /\ job = "reply" /\ request = "report"
  /\ unsaid' = TRUE
  /\ BackToLoop
  /\ UNCHANGED <<session, stranded, again, late>>

(* The answer to a request that succeeded.                                 *)
Reply ==
  /\ job = "reply"
  /\ Reset
  /\ announced' = IF Heard /\ Storing THEN announced + 1 ELSE announced
  /\ unsaid' = (unsaid \/ (~Heard /\ Storing))
  /\ BackToLoop
  /\ UNCHANGED <<wsVars, monitor, expired, browserVars, active, stored,
                 states, counted, stranded, again, late>>

-----------------------------------------------------------------------------
(* flow.rewind, lines 1947-2015: the page is replaced by a replayed one.   *)

Newest == Max(contexts)

(* prepare_rewind, then _replay_manual_path opens a context of its own;    *)
(* progress is reported, which restarts the limit.                         *)
OpenReplay ==
  /\ job = "serve" /\ request = "rewind" /\ active
  /\ contexts' = contexts \union {Newest + 1}
  /\ Goto("replay")
  /\ Reset
  /\ UNCHANGED <<row, outcome, wsVars, monitor, expired, page, flowVars,
                 history>>

ReplayFails ==
  /\ job = "replay"
  /\ contexts' = contexts \ {Newest}
  /\ BackToLoop
  /\ UNCHANGED <<wsVars, ttlVars, page, flowVars, history>>

ReplayEnds ==
  /\ job = "replay"
  /\ Goto("activate")
  /\ Reset
  /\ UNCHANGED <<row, outcome, wsVars, monitor, expired, browserVars,
                 flowVars, history>>

(* activate_replayed_page and commit_rewind.                               *)
Activate ==
  /\ job = "activate"
  /\ page' = Newest /\ contexts' = contexts \ {page}
  /\ Goto("reply")
  /\ Reset
  /\ UNCHANGED <<row, outcome, wsVars, monitor, expired, flowVars, history>>

(* An exception half-way: the page is the new one in any case, and the old *)
(* context stays open if it was not closed yet.                            *)
ActivateFails ==
  /\ job = "activate"
  /\ page' = Newest /\ contexts' \in {contexts, contexts \ {page}}
  /\ BackToLoop
  /\ UNCHANGED <<wsVars, ttlVars, flowVars, history>>

-----------------------------------------------------------------------------
(* The end, lines 2033-2104.                                               *)

(* A mistake: completion without the condition on the row's status.        *)
MarkAnyway ==
  /\ job = "mark"
  /\ row' = IF outcome = "completed" THEN MarkCompletedAnyway(row, counted)
                                     ELSE MarkAbortedIfActive(row)
  /\ Goto("tell")
  /\ UNCHANGED <<outcome, session, history>>

Mark ==
  /\ job = "mark"
  /\ row' = IF outcome = "completed" THEN MarkCompletedIfRunning(row, counted)
                                     ELSE MarkAbortedIfActive(row)
  /\ Goto("tell")
  /\ UNCHANGED <<outcome, session, history>>

(* session.closed, unless the time limit has said so already; returning    *)
(* closes the websocket.                                                   *)
Tell ==
  /\ job = "tell"
  /\ IF expired THEN UNCHANGED told ELSE Say(outcome)
  /\ HangUp
  /\ Goto("clean")
  /\ UNCHANGED <<row, outcome, ttlVars, browserVars, flowVars, history>>

(* except CancelledError, which an abort through arq raises as well.       *)
HandleCancelled ==
  /\ job = "cancelled"
  /\ row' = MarkFinishedAtIfAborted(row)
  /\ Goto("clean")
  /\ UNCHANGED <<outcome, session, history>>

(* A mistake: a failure is treated like a cancellation.                    *)
HandleFailureAsCancelled ==
  /\ job = "failing"
  /\ row' = MarkFinishedAtIfAborted(row)
  /\ Goto("sayFailed")
  /\ UNCHANGED <<outcome, session, history>>

(* except Exception.                                                       *)
HandleFailure ==
  /\ job = "failing"
  /\ row' = MarkFailedIfRunning(row)
  /\ Goto(IF row.status \in Active THEN "sayFailed" ELSE "stampFailed")
  /\ UNCHANGED <<outcome, session, history>>

StampFailed ==
  /\ job = "stampFailed"
  /\ row' = MarkFinishedAtIfAborted(row)
  /\ Goto("sayFailed")
  /\ UNCHANGED <<outcome, session, history>>

(* The websocket is closing by now: the message may be lost with it.       *)
SayFailed ==
  /\ job = "sayFailed"
  /\ told' \in IF ws = "none" THEN {told} ELSE {told, "failed"}
  /\ Goto("clean")
  /\ UNCHANGED <<row, outcome, ws, inbox, ttlVars, browserVars, flowVars,
                 history>>

(* A session that was aborted before it began is not begun.                *)
StampAborted ==
  /\ job = "stamp"
  /\ row' = MarkFinishedAtIfAborted(row)
  /\ Goto("clean")
  /\ UNCHANGED <<outcome, session, history>>

(* finally: the tasks are cancelled, the browser closes all its contexts.  *)
Clean ==
  /\ job = "clean"
  /\ job' = IF rerun THEN "queued" ELSE "none"
  /\ rerun' = FALSE /\ request' = NoRequest
  /\ monitor' = "off" /\ contexts' = {}
  /\ UNCHANGED <<row, outcome, wsVars, idle, expired, page, flowVars,
                 clockVars, budget, history>>

-----------------------------------------------------------------------------
(* The idle time limit, ManualSessionIdleTTL.monitor.                      *)

(* The verdict is reached under the lock, and acted upon after a send.     *)
MonitorLooks ==
  /\ monitor = "sleep" /\ idle = Ttl
  /\ monitor' = "expire"
  /\ late' = (late \/ job \in {"mark", "tell"})
  /\ UNCHANGED <<row, jobVars, wsVars, idle, expired, browserVars, flowVars,
                 clockVars, budget, stranded, unsaid, again>>

MonitorExpires ==
  /\ monitor = "expire"
  /\ expired' = TRUE
  /\ Say("aborted")
  /\ monitor' = "close"
  /\ UNCHANGED <<row, jobVars, ws, inbox, idle, browserVars, flowVars,
                 clockVars, budget, history>>

(* A mistake: the user is told, but the websocket stays open.              *)
MonitorForgetsToClose ==
  /\ monitor = "close"
  /\ monitor' = "off"
  /\ UNCHANGED <<row, jobVars, wsVars, idle, expired, browserVars, flowVars,
                 clockVars, budget, history>>

MonitorCloses ==
  /\ monitor = "close"
  /\ HangUp
  /\ monitor' = "off"
  /\ UNCHANGED <<row, jobVars, told, idle, expired, browserVars, flowVars,
                 clockVars, budget, history>>

(* Sending to a user who has hung up may raise, which ends the monitor...  *)
MonitorDies ==
  /\ monitor # "off" /\ ws = "gone"
  /\ monitor' = "off"
  /\ UNCHANGED <<row, jobVars, wsVars, idle, expired, browserVars, flowVars,
                 clockVars, budget, history>>

-----------------------------------------------------------------------------
(* Failures.                                                               *)

(* What is cut short after it stored its flow is never answered.           *)
CutShort == unsaid' = (unsaid \/ (job = "reply" /\ Storing))

(* ...or the session, since no handler guards its own error message.       *)
SendFails ==
  /\ ws = "gone" /\ job \in {"starting", "serve", "reply", "replay", "activate", "tell"}
  /\ Goto("failing")
  /\ HangUp
  /\ CutShort
  /\ UNCHANGED <<row, outcome, told, ttlVars, browserVars, flowVars, stranded,
                 again, late>>

(* An exception outside the handlers' own try blocks.                      *)
Raise ==
  /\ \/ job \in SetupPc \union {"mark", "tell"}
     \/ job = "serve" /\ request \in {"input", "start"}
  /\ Disturb("other")
  /\ job' = "failing"
  /\ HangUp
  /\ UNCHANGED <<row, rerun, request, outcome, told, ttlVars, browserVars,
                 flowVars, clockVars, history>>

(* An exception before the try block, or in a handler after it.            *)
RaiseUnhandled ==
  /\ job \in (StartPc \ {"queued"}) \union {"stamp", "cancelled", "failing", "stampFailed"}
  /\ Disturb("other")
  /\ job' = "clean"
  /\ stranded' = TRUE
  /\ UNCHANGED <<row, rerun, request, outcome, session, clockVars, unsaid,
                 again, late>>

(* arq cancels the job: its time is over, it was aborted, or the worker    *)
(* shuts down, and then another one runs it again.                         *)
CancelJob ==
  /\ job \in TryPc
  /\ Disturb("other")
  /\ job' = "cancelled"
  /\ rerun' \in BOOLEAN
  /\ stranded' = (stranded \/ ~rerun')
  /\ HangUp
  /\ CutShort
  /\ UNCHANGED <<row, request, outcome, told, ttlVars, browserVars, flowVars,
                 clockVars, again, late>>

(* The worker process and its browser are killed; arq delivers the job     *)
(* again.                                                                  *)
Crash ==
  /\ job \notin {"none", "queued"}
  /\ Disturb("other")
  /\ job' = "queued" /\ rerun' = FALSE /\ request' = NoRequest
  /\ HangUp
  /\ monitor' = "off" /\ contexts' = {}
  /\ CutShort
  /\ UNCHANGED <<row, outcome, told, idle, expired, page, flowVars, clockVars,
                 stranded, again, late>>

-----------------------------------------------------------------------------
(* The user, the page, the clock, the API.                                 *)

(* The API submits a session that has no job.                              *)
Submit ==
  /\ job = "none" /\ row.status \in {"NEW", "FAILED", "ABORTED"}
  /\ Disturb("submit")
  /\ row' = MarkQueued(row)
  /\ job' = "queued"
  /\ told' = "nothing" /\ stranded' = FALSE
  /\ UNCHANGED <<rerun, request, outcome, ws, inbox, ttlVars, browserVars,
                 flowVars, clockVars, unsaid, again, late>>

(* It aborts one, with or without a finish time, and arq may be told too   *)
(* (allow_abort_jobs), which is a CancelJob.                               *)
AbortSession ==
  /\ row.status \in {"NEW", "QUEUED"} \union Active
  /\ Disturb("other")
  /\ row' \in {MarkAbortedIfActive(row), [row EXCEPT !.status = "ABORTED"]}
  /\ UNCHANGED <<jobVars, session, clockVars, history>>

Send(m) ==
  /\ ws = "open" /\ Len(inbox) < Waiting
  /\ Disturb("send")
  /\ inbox' = Append(inbox, m)
  /\ quiet' = 0
  /\ UNCHANGED <<row, jobVars, ws, told, ttlVars, browserVars, flowVars, busy,
                 diligent, prompt, history>>

UserHangsUp ==
  /\ ws = "open"
  /\ Disturb("other")
  /\ ws' = "gone"
  /\ UNCHANGED <<row, jobVars, inbox, told, ttlVars, browserVars, flowVars,
                 clockVars, history>>

(* Recorded events and navigations of the page restart the limit too.      *)
PageActs ==
  /\ job \in {"starting", "loop"} \union ServePc
  /\ Disturb("other")
  /\ Reset
  /\ UNCHANGED <<row, jobVars, wsVars, monitor, expired, browserVars,
                 flowVars, clockVars, history>>

(* What has the worker to do for the user?                                 *)
Owing == job # "loop" \/ inbox # <<>>

UpTo(n, limit) == IF n < limit THEN n + 1 ELSE limit

Tick ==
  /\ ws \in {"open", "gone"} /\ job \in TryPc
  /\ idle' = UpTo(idle, Ttl)
  /\ quiet' = UpTo(quiet, Gap) /\ diligent' = (diligent /\ quiet < Gap)
  /\ IF Owing THEN busy' = UpTo(busy, Work) /\ prompt' = (prompt /\ busy < Work)
              ELSE UNCHANGED <<busy, prompt>>
  /\ UNCHANGED <<row, jobVars, wsVars, monitor, expired, browserVars,
                 flowVars, budget, history>>

-----------------------------------------------------------------------------
Starting ==
  TakeUp \/ EnsureNotAborted \/ Claim \/ Recheck \/ Launch \/ Connect \/ Ready

Serving ==
  \/ Receive \/ LoopEnds \/ ServeInput \/ Refuse \/ StartFlow \/ StoreFlow
  \/ StoreFails \/ ReportFails \/ Reply
  \/ OpenReplay \/ ReplayFails \/ ReplayEnds \/ Activate \/ ActivateFails

Ending ==
  \/ Mark \/ Tell \/ HandleCancelled \/ HandleFailure \/ StampFailed \/ SayFailed
  \/ StampAborted \/ Clean

Job == Starting \/ Serving \/ Ending

Monitor == MonitorLooks \/ MonitorExpires \/ MonitorCloses

Failure == MonitorDies \/ SendFails \/ Raise \/ RaiseUnhandled \/ CancelJob \/ Crash

Environment ==
  \/ Submit \/ AbortSession \/ UserHangsUp \/ PageActs \/ Tick
  \/ \E m \in Message : Send(m)

Next == Job \/ Monitor \/ Failure \/ Environment

(* The worker does what is ready, and time passes.  Nobody else has to do  *)
(* anything: neither the user, nor the page, nor failures.                 *)
Spec == Init /\ [][Next]_vars /\ WF_vars(Job) /\ WF_vars(Monitor) /\ WF_vars(Tick)

-----------------------------------------------------------------------------
TypeOK ==
  /\ row \in Row
  /\ job \in Pc /\ rerun \in BOOLEAN /\ request \in Message \union {NoRequest}
  /\ outcome \in {"completed", "aborted"}
  /\ ws \in {"none", "open", "gone", "closed"} /\ inbox \in Seq(Message)
  /\ told \in Notice
  /\ monitor \in MonitorPc /\ idle \in 0 .. Ttl /\ expired \in BOOLEAN
  /\ contexts \subseteq Nat /\ page \in Nat
  /\ active \in BOOLEAN /\ stored \in Nat /\ announced \in Nat
  /\ states \in Nat /\ counted \in Nat
  /\ quiet \in 0 .. Gap /\ busy \in 0 .. Work /\ budget \in [Disturbance -> Nat]
  /\ diligent \in BOOLEAN /\ prompt \in BOOLEAN
  /\ stranded \in BOOLEAN /\ unsaid \in BOOLEAN /\ again \in BOOLEAN /\ late \in BOOLEAN

(* A recording whose row says RUNNING has a job that will settle it, after *)
(* whatever failure, redelivery or abort, unless arq cancelled the job     *)
(* without running it again, or a handler failed: lines 2051-2054 look     *)
(* after aborted sessions only, where crawl_session fails a running one.   *)
RunningIsServed ==
  row.status = "RUNNING" /\ ~stranded =>
    \/ rerun
    \/ job \in StartPc \union (TryPc \ {"tell"}) \union {"failing"}

(* What the user was told when his session closed is what its row says     *)
(* once the job is gone: the loop, the time limit and the handlers close   *)
(* it in different orders (lines 1262-1285, 2034-2048).  An abort through  *)
(* the API overrules all; a failure while the row is written turns aborted *)
(* into failed; and a user who leaves while the limit runs out completes a *)
(* session that he is told is aborted, since the verdict stands whatever   *)
(* comes between it and the closing.                                       *)
ClosedIsTrue ==
  job = "none" /\ ~stranded =>
    /\ told = "completed" => row.status \in {"COMPLETED", "ABORTED"}
    /\ told = "aborted" /\ ~late => row.status \in {"ABORTED", "FAILED"}
    /\ told = "failed" => row.status # "RUNNING"

(* The user learns of every flow that is stored, as long as his websocket  *)
(* is there to tell him, the report of a bug reaches the API after its     *)
(* flow was stored (report_bug), and nothing stops the request.            *)
StoredIsAnnounced ==
  ~unsaid =>
    \/ announced = stored
    \/ job = "reply" /\ announced + 1 = stored

(* A user who acts often enough is never thrown out by the idle limit, if  *)
(* the worker is fast enough: the limit is restarted when a message is     *)
(* received, not when it is sent (lines 1890-1899).                        *)
DiligentIsServed == expired => ~diligent \/ ~prompt

(* The page the user works on is open whatever a rewind ran into           *)
(* (_replay_manual_path opens a context before the old one is closed).     *)
PageIsOpen == job \in {"loop"} \union ServePc => page \in contexts

(* No browser context outlives the job, those that a failed rewind forgot  *)
(* included (lines 2068-2104).                                             *)
NothingStaysOpen == job \in {"none", "queued"} => contexts = {} /\ monitor = "off"

(* A recording that ran in one go completes with the number of its states. *)
CountIsComplete ==
  row.status = "COMPLETED" /\ ~again => row.count = states

(* What the user hears of the session and of its flows is true.            *)
UserIsTold == ClosedIsTrue /\ StoredIsAnnounced

(* The user can work as long as he does: on an open page, and without      *)
(* being thrown out.                                                       *)
UserCanWork == PageIsOpen /\ DiligentIsServed

(* However the job ends, it leaves a row that is settled or will be, with  *)
(* the right count, and no browser behind.                                 *)
NothingIsLeft == TypeOK /\ RunningIsServed /\ CountIsComplete /\ NothingStaysOpen

(* What the row tells its readers is the abstract life of a session.       *)
Life == INSTANCE SessionStatus WITH
          status <- row.status, finished <- row.finished, count <- row.count
LifeSpec == Life!Spec

(* However long a user stays away, and whatever fails, a recording ends.   *)
RecordingEnds == row.status = "RUNNING" ~> row.status # "RUNNING" \/ stranded
=============================================================================
