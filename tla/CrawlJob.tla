------------------------------ MODULE CrawlJob ------------------------------
(***************************************************************************)
(* One crawl session as its worker jobs see it: the coroutine              *)
(* crawl_session(ctx, session_id) of workers/jobs/crawl_session.py, run by *)
(* arq once per time slice, next to its crawl task and its abort poller,   *)
(* against the session's row in Postgres, the session's frontier in Neo4j  *)
(* and the arq queue in Redis.                                             *)
(*                                                                         *)
(* A slice reads the row, crawls until its deadline, and then either       *)
(* completes the session, stops because the session was paused or aborted, *)
(* or hands over to a continuation job that it enqueues itself.  Every     *)
(* database, graph or queue access is an action, because another job, the  *)
(* API or a failure may come between any two of them.                      *)
(*                                                                         *)
(* What happens inside one state's exploration is the subject of           *)
(* CrawlFrontier; here it discovers at most one new state.  Deferred work  *)
(* counts as pending (DEFER_DESTRUCTIVE_ACTIONS is on), and only states    *)
(* that are new to the graph are queued.                                   *)
(***************************************************************************)
EXTENDS CrawlRow, FiniteSets

CONSTANTS
  Jobs,           \* arq job ids that may be in use at the same time
  Main,           \* the job the API enqueues: its id is the session id
  MaxStates,      \* the session's max_states limit
  Foreign,        \* states other sessions have put in the same graph
  GenerateFlows,  \* the session's generateTestFlows setting
  Budget          \* how often each disturbance may happen (bounds the model)

(* What may disturb a session: the API (requests, pauses and aborts),      *)
(* arq (job timeouts and worker shutdowns cancel a job), a killed worker,  *)
(* and exceptions.                                                         *)
Disturbance == {"request", "pause", "abort", "cancel", "crash", "fault"}

ASSUME ConstantsAssumption ==
  /\ Main \in Jobs
  /\ MaxStates \in Nat \ {0}
  /\ Foreign \in Nat
  /\ GenerateFlows \in BOOLEAN
  /\ Budget \in [Disturbance -> Nat]

VARIABLES
  (* Shared state *)
  row,        \* the crawl_sessions row
  created,    \* number of State nodes this session has added to the graph
  pending,    \* number of its frontier entries with status 'pending'
  seeded,     \* does the frontier know the initial state?
  flowsOf,    \* the start whose end last generated test flows (0: none yet)
  (* The jobs *)
  pc,         \* where each job is; "idle": no such job in arq
  slice,      \* the local variables of each job
  rerun,      \* jobs whose worker shuts down: arq runs them again
  orphan,     \* crawls that outlived their job: their state counters
  (* The environment *)
  requested,  \* the API has updated the row and not yet enqueued the job
  budget,     \* disturbances that may still happen
  (* History *)
  doubled,    \* was the session ever driven by two jobs through a disturbance?
  stale,      \* did a slice start from a counter that was not up to date?
  dropped     \* did an exception escape where no handler updates the row?

jobVars == <<pc, slice, rerun, orphan>>
dataVars == <<created, pending, seeded, flowsOf>>
history == <<doubled, stale, dropped>>
vars == <<row, dataVars, jobVars, requested, budget, history>>

-----------------------------------------------------------------------------
(* Control points of the coroutine, in the order of the code.              *)
StartPc == {"queued", "ensure", "claim", "recheck"}       \* before the try
SlicePc == {"inputs", "progress", "wait", "aborting", "reap", "settled", "decide"}
FinishPc == {"complete", "flows", "mark"}                 \* _complete_crawl_session
HandlerPc == {"cancelled", "cancelFail", "raised", "stamp"}
Pc == {"idle"} \union StartPc \union SlicePc \union FinishPc \union HandlerPc
        \union {"enqueue", "report", "pauseReport", "abortReport"}

(* The awaits of the try block at which an exception may surface.          *)
TryPc == {"inputs", "progress", "settled", "decide", "enqueue"} \union FinishPc
           \union {"report", "pauseReport", "abortReport"}

(* The crawl task: not created; before the seed; between two states; in a  *)
(* state; between two states, one explored at least; ended in some way.    *)
CrawlPhase == {"none", "seed", "ready", "busy", "yielding", "done", "failed", "cancelled"}
Crawling == {"seed", "ready", "busy", "yielding"}

(* What the poller has done: nothing yet, set abort_event or pause_event,  *)
(* or died of an exception of its own.                                     *)
Event == {"none", "abort", "pause", "dead"}

Slice == [crawl : CrawlPhase, event : Event, discovered : Nat, counter : Nat,
          started : Nat, more : BOOLEAN]

NoSlice == [crawl |-> "none", event |-> "none", discovered |-> 0, counter |-> 0,
            started |-> 0, more |-> FALSE]

Live(j) == pc[j] # "idle"
Found == created + Foreign
Larger(m, n) == IF m > n THEN m ELSE n

Goto(j, label) == pc' = [pc EXCEPT ![j] = label]

Becomes(j, locals) == slice' = [slice EXCEPT ![j] = locals]

(* The coroutine ends: arq forgets the job, unless it is to run again.     *)
End(j) ==
  /\ Goto(j, IF j \in rerun THEN "queued" ELSE "idle")
  /\ Becomes(j, NoSlice)
  /\ rerun' = rerun \ {j}

Disturb(d) ==
  /\ budget[d] > 0
  /\ budget' = [budget EXCEPT ![d] = @ - 1]

Init ==
  /\ row = NewRow
  /\ created = 0 /\ pending = 0 /\ seeded = FALSE /\ flowsOf = 0
  /\ pc = [j \in Jobs |-> "idle"]
  /\ slice = [j \in Jobs |-> NoSlice]
  /\ rerun = {}
  /\ orphan = {}
  /\ requested = FALSE
  /\ budget = Budget
  /\ doubled = FALSE /\ stale = FALSE /\ dropped = FALSE

-----------------------------------------------------------------------------
(* Lines 294-300: decide whether this run of the job may start.            *)

(* A paused session is left alone.                                         *)
CheckPaused(j) ==
  /\ pc[j] = "queued"
  /\ IF row.status = "PAUSED"
       THEN End(j)
       ELSE Goto(j, "ensure") /\ UNCHANGED <<slice, rerun>>
  /\ UNCHANGED <<row, dataVars, orphan, requested, budget, history>>

(* ensure_started_or_skip_aborted: its first read.                         *)
EnsureNotAborted(j) ==
  /\ pc[j] = "ensure"
  /\ Goto(j, IF row.status = "ABORTED" THEN "stamp" ELSE "claim")
  /\ UNCHANGED <<row, dataVars, slice, rerun, orphan, requested, budget, history>>

Claim(j) ==
  /\ pc[j] = "claim"
  /\ Goto(j, IF row.status = "QUEUED" THEN "inputs" ELSE "recheck")
  /\ row' = MarkQueuedRunning(row)
  /\ UNCHANGED <<dataVars, slice, rerun, orphan, requested, budget, history>>

(* Its second read; any other status raises RuntimeError out of the job.   *)
Recheck(j) ==
  /\ pc[j] = "recheck"
  /\ \/ /\ row.status = "ABORTED"
        /\ Goto(j, "stamp") /\ UNCHANGED <<slice, rerun>>
     \/ /\ row.status \in Active
        /\ Goto(j, "inputs") /\ UNCHANGED <<slice, rerun>>
     \/ /\ row.status \notin Active \union {"ABORTED"}
        /\ End(j)
  /\ UNCHANGED <<row, dataVars, orphan, requested, budget, history>>

-----------------------------------------------------------------------------
(* Lines 328-391: one slice, next to its crawl task and its poller.        *)

(* A job that has read the counters and whose own discoveries are not in   *)
(* the row yet.                                                            *)
Unreported(j) ==
  pc[j] \in (SlicePc \ {"inputs"}) \union FinishPc \union {"enqueue", "report", "pauseReport"}

(* fetch_job_inputs and fetch_started_at.                                  *)
FetchInputs(j) ==
  /\ pc[j] = "inputs"
  /\ Goto(j, "progress")
  /\ Becomes(j, [slice[j] EXCEPT !.discovered = row.count, !.started = row.started])
  /\ stale' = (stale \/ row.count # created \/ orphan # {}
                     \/ \E k \in Jobs \ {j} : Unreported(k))
  /\ UNCHANGED <<row, dataVars, rerun, orphan, requested, budget, doubled, dropped>>

(* _crawl_progress, then either no time is left for another slice, and the *)
(* session is completed with the larger of the two counters, or the crawl  *)
(* task and the poller are created.                                        *)
(* Whether time is left is a choice: no property depends on the clock.     *)
ReadProgress(j) ==
  /\ pc[j] = "progress"
  /\ \/ /\ Goto(j, "complete")
        /\ Becomes(j, [slice[j] EXCEPT !.discovered = Larger(@, Found)])
     \/ /\ Goto(j, "wait")
        /\ Becomes(j, [slice[j] EXCEPT !.counter = Found, !.crawl = "seed"])
  /\ UNCHANGED <<row, dataVars, rerun, orphan, requested, budget, history>>

(* abort_poller reads the status once a second until it has something to   *)
(* tell.  What it tells after "decide" nobody listens to.                  *)
PollerListens(j) ==
  /\ pc[j] \in {"wait", "reap", "settled", "decide"}
  /\ slice[j].event = "none"

Poll(j) ==
  /\ PollerListens(j)
  /\ \/ /\ row.status = "ABORTED"
        /\ Becomes(j, [slice[j] EXCEPT !.event = "abort"])
     \/ /\ row.status = "PAUSED"
        /\ Becomes(j, [slice[j] EXCEPT !.event = "pause"])
  /\ UNCHANGED <<row, dataVars, pc, rerun, orphan, requested, budget, history>>

(* The wait loop: an abort cancels the crawl task, a pause leaves it to    *)
(* end by itself, and so does a dead poller.                               *)
WaitLoop(j) ==
  /\ pc[j] = "wait"
  /\ \/ /\ slice[j].event = "abort"
        /\ Goto(j, "aborting")
        /\ Becomes(j, [slice[j] EXCEPT !.crawl = IF @ \in Crawling THEN "cancelled" ELSE @])
     \/ /\ slice[j].event = "pause"
        /\ Goto(j, "reap") /\ UNCHANGED slice
     \/ /\ slice[j].event \in {"none", "dead"}
        /\ slice[j].crawl \notin Crawling
        /\ Goto(j, "reap") /\ UNCHANGED slice
  /\ UNCHANGED <<row, dataVars, rerun, orphan, requested, budget, history>>

(* Lines 393-400: await the cancelled crawl task; its CancelledError is    *)
(* swallowed, any other exception is not.                                  *)
AwaitCancelled(j) ==
  /\ pc[j] = "aborting"
  /\ Goto(j, IF slice[j].crawl = "failed" THEN "raised" ELSE "abortReport")
  /\ UNCHANGED <<row, dataVars, slice, rerun, orphan, requested, budget, history>>

(* Line 402: await the crawl task for its counters.                        *)
Reap(j) ==
  /\ pc[j] = "reap"
  /\ slice[j].crawl \notin Crawling
  /\ Goto(j, IF slice[j].crawl = "failed" THEN "raised" ELSE "settled")
  /\ UNCHANGED <<row, dataVars, slice, rerun, orphan, requested, budget, history>>

-----------------------------------------------------------------------------
(* The crawl task, CrawlSession.run_crawl.                                 *)

CrawlMoves(j, phase) == Becomes(j, [slice[j] EXCEPT !.crawl = phase])

(* add_to_queue creates new states, and counts them if the node is new.    *)
Discovers(j, n, phase) ==
  /\ created' = created + n
  /\ Becomes(j, [slice[j] EXCEPT !.crawl = phase, !.discovered = @ + n, !.counter = @ + n])

(* _seed_initial_state: the initial page is new to an empty graph; later   *)
(* it may have changed into a new state once more.  No limit is checked.   *)
Seed(j) ==
  /\ slice[j].crawl = "seed"
  /\ \E n \in IF Found = 0 THEN {1} ELSE {0, 1} :
       /\ Discovers(j, n, "ready")
       /\ pending' = pending + (IF seeded THEN n ELSE 1)
  /\ seeded' = TRUE
  /\ UNCHANGED <<row, flowsOf, pc, rerun, orphan, requested, budget, history>>

WithinLimits(j) == slice[j].counter < MaxStates
BetweenStates(j) == slice[j].crawl \in {"ready", "yielding"}
StopRequested(j) == slice[j].event \in {"abort", "pause"}

(* A mistake: claiming without looking whether anything is pending.        *)
ClaimStateBlindly(j) ==
  /\ BetweenStates(j)
  /\ WithinLimits(j) /\ ~StopRequested(j)
  /\ pending' = pending - 1
  /\ CrawlMoves(j, "busy")
  /\ UNCHANGED <<row, created, seeded, flowsOf, pc, rerun, orphan, requested, budget, history>>

(* claim_next_pending_state.                                               *)
ClaimState(j) ==
  /\ BetweenStates(j)
  /\ WithinLimits(j) /\ ~StopRequested(j)
  /\ pending > 0
  /\ pending' = pending - 1
  /\ CrawlMoves(j, "busy")
  /\ UNCHANGED <<row, created, seeded, flowsOf, pc, rerun, orphan, requested, budget, history>>

(* _explore_state ends; a stop requested meanwhile does not interrupt it.  *)
FinishState(j) ==
  /\ slice[j].crawl = "busy"
  /\ \E n \in 0 .. 1 :
       /\ n = 1 => WithinLimits(j)
       /\ Discovers(j, n, "yielding")
       /\ pending' = pending + n
  /\ UNCHANGED <<row, seeded, flowsOf, pc, rerun, orphan, requested, budget, history>>

(* The loop of run_crawl ends: nothing is pending, a limit is reached, a   *)
(* stop was requested, or the slice's deadline has passed.  That a slice   *)
(* lasts until one state at least is explored is an assumption: its        *)
(* default is ten minutes (CRAWLER_JOB_SLICE_SECONDS).                     *)
CrawlEnds(j) ==
  /\ BetweenStates(j)
  /\ \/ pending = 0
     \/ ~WithinLimits(j)
     \/ StopRequested(j)
     \/ slice[j].crawl = "yielding"
  /\ CrawlMoves(j, "done")
  /\ UNCHANGED <<row, dataVars, pc, rerun, orphan, requested, budget, history>>

(* An orphan goes on like any crawl until its loop ends; its counters are  *)
(* lost.                                                                   *)
OrphanExplores ==
  \E c \in orphan :
    /\ pending > 0 /\ c < MaxStates
    /\ \E n \in 0 .. 1 :
         /\ orphan' = (orphan \ {c}) \union {c + n}
         /\ created' = created + n
         /\ pending' = pending - 1 + n
    /\ UNCHANGED <<row, seeded, flowsOf, pc, slice, rerun, requested, budget, history>>

OrphanEnds ==
  \E c \in orphan :
    /\ orphan' = orphan \ {c}
    /\ UNCHANGED <<row, dataVars, pc, slice, rerun, requested, budget, history>>

-----------------------------------------------------------------------------
(* Lines 403-468: what becomes of the session after the slice.             *)

(* A mistake: continuing below the limits with nothing pending.            *)
ReadSettledByLimits(j) ==
  /\ pc[j] = "settled"
  /\ Becomes(j, [slice[j] EXCEPT !.more = (Found < MaxStates)])
  /\ Goto(j, "decide")
  /\ UNCHANGED <<row, dataVars, rerun, orphan, requested, budget, history>>

(* _crawl_progress and _should_continue_crawl.                             *)
ReadSettled(j) ==
  /\ pc[j] = "settled"
  /\ Becomes(j, [slice[j] EXCEPT !.more = (pending > 0 /\ Found < MaxStates)])
  /\ Goto(j, "decide")
  /\ UNCHANGED <<row, dataVars, rerun, orphan, requested, budget, history>>

(* The status is read and acted upon.  With work left there is a           *)
(* continuation, unless no time is left for it.                            *)
Decide(j) ==
  /\ pc[j] = "decide"
  /\ \/ /\ slice[j].event = "pause" \/ row.status = "PAUSED"
        /\ Goto(j, "pauseReport")
     \/ /\ slice[j].event # "pause" /\ row.status = "ABORTED"
        /\ Goto(j, "abortReport")
     \/ /\ slice[j].event # "pause" /\ row.status \notin {"PAUSED", "ABORTED"}
        /\ \/ slice[j].more /\ Goto(j, "enqueue")
           \/ Goto(j, "complete")
  /\ UNCHANGED <<row, dataVars, slice, rerun, orphan, requested, budget, history>>

(* A mistake: no return after the continuation is enqueued.                *)
EnqueueAndComplete(j) ==
  /\ pc[j] = "enqueue"
  /\ \E k \in Jobs \ {Main} :
       /\ ~Live(k)
       /\ pc' = [pc EXCEPT ![j] = "complete", ![k] = "queued"]
  /\ UNCHANGED <<row, dataVars, slice, rerun, orphan, requested, budget, history>>

(* _enqueue_continuation: a new job id, a uuid, of the ids not in use.     *)
EnqueueContinuation(j) ==
  /\ pc[j] = "enqueue"
  /\ \E k \in Jobs \ {Main} :
       /\ ~Live(k)
       /\ pc' = [pc EXCEPT ![j] = "report", ![k] = "queued"]
  /\ UNCHANGED <<row, dataVars, slice, rerun, orphan, requested, budget, history>>

(* update_counts_if_active and return, continued or paused.                *)
Report(j) ==
  /\ pc[j] \in {"report", "pauseReport"}
  /\ row' = UpdateCountsIfActive(row, slice[j].discovered)
  /\ End(j)
  /\ UNCHANGED <<dataVars, orphan, requested, budget, history>>

(* A mistake: a session that runs is completed without its flows.          *)
CompleteWithoutFlows(j) ==
  /\ pc[j] = "complete"
  /\ Goto(j, CASE row.status = "PAUSED" -> "pauseReport"
               [] row.status = "ABORTED" -> "abortReport"
               [] OTHER -> "mark")
  /\ UNCHANGED <<row, dataVars, slice, rerun, orphan, requested, budget, history>>

(* _complete_crawl_session: the status is read once more.                  *)
Complete(j) ==
  /\ pc[j] = "complete"
  /\ Goto(j, CASE row.status = "PAUSED" -> "pauseReport"
               [] row.status = "ABORTED" -> "abortReport"
               [] row.status = "RUNNING" /\ GenerateFlows -> "flows"
               [] OTHER -> "mark")
  /\ UNCHANGED <<row, dataVars, slice, rerun, orphan, requested, budget, history>>

(* run_find_all_flows persists the flows it selects, which may be none.    *)
PersistFlows(j) ==
  /\ pc[j] = "flows"
  /\ flowsOf' = slice[j].started
  /\ Goto(j, "mark")
  /\ UNCHANGED <<row, created, pending, seeded, slice, rerun, orphan, requested, budget, history>>

(* mark_completed_if_running; if no row was updated, the session must have *)
(* been aborted.                                                           *)
MarkCompleted(j) ==
  /\ pc[j] = "mark"
  /\ row' = MarkCompletedIfRunning(row, slice[j].discovered)
  /\ IF row.status \in Active
       THEN End(j)
       ELSE Goto(j, "abortReport") /\ UNCHANGED <<slice, rerun>>
  /\ UNCHANGED <<dataVars, orphan, requested, budget, history>>

(* mark_finished_at_if_aborted, and return: inside the try block, where an *)
(* exception gets it called once more, or outside.                         *)
StampAborted(j) ==
  /\ pc[j] \in {"abortReport", "stamp"}
  /\ row' = MarkFinishedAtIfAborted(row)
  /\ End(j)
  /\ UNCHANGED <<dataVars, orphan, requested, budget, history>>

-----------------------------------------------------------------------------
(* Lines 470-486: the handlers.  Each ends the job.                        *)

(* A mistake: only an aborted session is looked after.                     *)
HandleCancelledIfAborted(j) ==
  /\ pc[j] = "cancelled"
  /\ IF row.status = "ABORTED"
       THEN Goto(j, "stamp") /\ UNCHANGED <<slice, rerun>>
       ELSE End(j)
  /\ UNCHANGED <<row, dataVars, orphan, requested, budget, history>>

(* except CancelledError: reads the status; a paused session stays so.     *)
HandleCancelled(j) ==
  /\ pc[j] = "cancelled"
  /\ \/ /\ row.status = "ABORTED"
        /\ Goto(j, "stamp") /\ UNCHANGED <<slice, rerun>>
     \/ /\ row.status = "RUNNING"
        /\ Goto(j, "cancelFail") /\ UNCHANGED <<slice, rerun>>
     \/ /\ row.status \notin {"ABORTED", "RUNNING"}
        /\ End(j)
  /\ UNCHANGED <<row, dataVars, orphan, requested, budget, history>>

CancelFail(j) ==
  /\ pc[j] = "cancelFail"
  /\ row' = MarkFailedIfRunning(row)
  /\ End(j)
  /\ UNCHANGED <<dataVars, orphan, requested, budget, history>>

(* A mistake: not asking whether the session was aborted meanwhile.        *)
HandleRaisedUnstamped(j) ==
  /\ pc[j] = "raised"
  /\ row' = MarkFailedIfRunning(row)
  /\ End(j)
  /\ UNCHANGED <<dataVars, orphan, requested, budget, history>>

(* except Exception.                                                       *)
HandleRaised(j) ==
  /\ pc[j] = "raised"
  /\ row' = MarkFailedIfRunning(row)
  /\ IF row.status \in Active
       THEN End(j)
       ELSE Goto(j, "stamp") /\ UNCHANGED <<slice, rerun>>
  /\ UNCHANGED <<dataVars, orphan, requested, budget, history>>

-----------------------------------------------------------------------------
(* The environment: failures.                                              *)

(* A disturbance of a job that has enqueued its continuation and not yet   *)
(* returned: from here on the session may have two jobs.                   *)
AfterHandOver(j) == doubled' = (doubled \/ pc[j] = "report")

(* arq cancels the job at an await of the try block, because its timeout   *)
(* has passed or because the worker shuts down; in the second case arq     *)
(* runs it again and the event loop ends, with every task.  asyncio.wait   *)
(* does not cancel the tasks it waits for, awaiting a task does: a timeout *)
(* leaves the crawl task running when it hits the wait loop.  In           *)
(* "aborting" the cancellation is swallowed with the crawl task's own.     *)
CancelJob(j) ==
  /\ pc[j] \in TryPc \union {"wait", "reap"}
  /\ Disturb("cancel")
  /\ Goto(j, "cancelled")
  /\ \/ rerun' = rerun \union {j} /\ UNCHANGED orphan
     \/ /\ UNCHANGED rerun
        /\ orphan' = IF pc[j] = "wait" /\ slice[j].crawl \in Crawling
                       THEN orphan \union {slice[j].counter} ELSE orphan
  /\ Becomes(j, NoSlice)
  /\ AfterHandOver(j)
  /\ UNCHANGED <<row, dataVars, requested, stale, dropped>>

(* The worker process is killed: its tasks are gone, and arq delivers the  *)
(* job again once its in-progress mark has expired.  A shutdown before the *)
(* try block has the same effect.                                          *)
Crash(j) ==
  /\ pc[j] \notin {"idle", "queued"}
  /\ Disturb("crash")
  /\ Goto(j, "queued")
  /\ Becomes(j, NoSlice)
  /\ rerun' = rerun \ {j}
  /\ AfterHandOver(j)
  /\ UNCHANGED <<row, dataVars, orphan, requested, stale, dropped>>

(* An exception inside the try block: database, graph, queue, flows.       *)
Raise(j) ==
  /\ pc[j] \in TryPc
  /\ Disturb("fault")
  /\ Goto(j, "raised")
  /\ AfterHandOver(j)
  /\ UNCHANGED <<row, dataVars, slice, rerun, orphan, requested, stale, dropped>>

(* An exception of the crawl task, kept until the task is awaited.         *)
CrawlFails(j) ==
  /\ slice[j].crawl \in Crawling
  /\ Disturb("fault")
  /\ CrawlMoves(j, "failed")
  /\ UNCHANGED <<row, dataVars, pc, rerun, orphan, requested, history>>

PollerDies(j) ==
  /\ PollerListens(j)
  /\ Disturb("fault")
  /\ Becomes(j, [slice[j] EXCEPT !.event = "dead"])
  /\ UNCHANGED <<row, dataVars, pc, rerun, orphan, requested, history>>

(* An exception before the try block or inside a handler ends the job and  *)
(* leaves the row as it is.                                                *)
RaiseUnhandled(j) ==
  /\ pc[j] \in StartPc \union HandlerPc
  /\ Disturb("fault")
  /\ End(j)
  /\ dropped' = TRUE
  /\ UNCHANGED <<row, dataVars, orphan, requested, doubled, stale>>

-----------------------------------------------------------------------------
(* The environment: the API.                                               *)

(* A session is submitted in two steps, scripts/probe_crawl_pipeline.py:   *)
(* the row, then the job with the session's own id, unless there is one.   *)
RequestCrawl ==
  /\ ~requested
  /\ row.status \in {"NEW", "FAILED", "ABORTED"}
  /\ Disturb("request")
  /\ row' = MarkQueued(row)
  /\ requested' = TRUE
  /\ UNCHANGED <<dataVars, jobVars, history>>

EnqueueRequested ==
  /\ requested
  /\ requested' = FALSE
  /\ IF Live(Main) THEN UNCHANGED <<pc, doubled>>
     ELSE /\ Goto(Main, "queued")
          /\ doubled' = (doubled \/ \E j \in Jobs : Live(j))
  /\ UNCHANGED <<row, dataVars, slice, rerun, orphan, budget, stale, dropped>>

PauseSession ==
  /\ row.status = "RUNNING"
  /\ Disturb("pause")
  /\ row' = [row EXCEPT !.status = "PAUSED"]
  /\ UNCHANGED <<dataVars, jobVars, requested, history>>

(* A job returns from a paused session for good, so whoever resumes the    *)
(* session has to enqueue a new one; jobs accept RUNNING and QUEUED.       *)
ResumeSession ==
  /\ row.status = "PAUSED"
  /\ \E s \in {"RUNNING", "QUEUED"} : row' = [row EXCEPT !.status = s]
  /\ \E k \in Jobs : ~Live(k) /\ Goto(k, "queued")
  /\ doubled' = (doubled \/ \E j \in Jobs : Live(j))
  /\ UNCHANGED <<dataVars, slice, rerun, orphan, requested, budget, stale, dropped>>

(* The worker's own mark_aborted_if_active sets finished_at; a writer that *)
(* does not is why the jobs set it.                                        *)
AbortSession ==
  /\ row.status \in {"NEW", "QUEUED"} \union Active
  /\ Disturb("abort")
  /\ row' \in {MarkAbortedIfActive(row), [row EXCEPT !.status = "ABORTED"]}
  /\ UNCHANGED <<dataVars, jobVars, requested, history>>

-----------------------------------------------------------------------------
Job(j) ==
  \/ CheckPaused(j) \/ EnsureNotAborted(j) \/ Claim(j) \/ Recheck(j)
  \/ FetchInputs(j) \/ ReadProgress(j) \/ WaitLoop(j)
  \/ AwaitCancelled(j) \/ Reap(j) \/ ReadSettled(j) \/ Decide(j)
  \/ EnqueueContinuation(j) \/ Report(j)
  \/ Complete(j) \/ PersistFlows(j) \/ MarkCompleted(j) \/ StampAborted(j)
  \/ HandleCancelled(j) \/ CancelFail(j) \/ HandleRaised(j)

Crawl(j) == Seed(j) \/ ClaimState(j) \/ FinishState(j) \/ CrawlEnds(j)

Failure(j) ==
  \/ CancelJob(j) \/ Crash(j) \/ Raise(j)
  \/ CrawlFails(j) \/ PollerDies(j) \/ RaiseUnhandled(j)

Api == RequestCrawl \/ EnqueueRequested \/ PauseSession \/ ResumeSession \/ AbortSession

Next ==
  \/ \E j \in Jobs : Job(j) \/ Crawl(j) \/ Poll(j) \/ Failure(j)
  \/ OrphanExplores \/ OrphanEnds
  \/ Api

Spec == Init /\ [][Next]_vars

(* The event loop runs every ready task, arq every queued job, and the API *)
(* enqueues what it has requested.  Nobody has to disturb anything.        *)
Fairness ==
  /\ \A j \in Jobs : WF_vars(Job(j)) /\ WF_vars(Crawl(j)) /\ WF_vars(Poll(j))
  /\ WF_vars(EnqueueRequested)

FairSpec == Spec /\ Fairness

-----------------------------------------------------------------------------
TypeOK ==
  /\ row \in Row
  /\ created \in Nat /\ pending \in Nat /\ seeded \in BOOLEAN /\ flowsOf \in Nat
  /\ pc \in [Jobs -> Pc]
  /\ slice \in [Jobs -> Slice]
  /\ rerun \subseteq Jobs
  /\ orphan \subseteq Nat
  /\ requested \in BOOLEAN
  /\ budget \in [Disturbance -> Nat]
  /\ doubled \in BOOLEAN /\ stale \in BOOLEAN /\ dropped \in BOOLEAN

(* A job that will, unless disturbed, settle the session or hand it over:  *)
(* it has not been told to stop and is on no way out.                      *)
Responsible(j) ==
  /\ pc[j] \in StartPc \union TryPc \union {"wait", "reap", "cancelled", "cancelFail", "raised"}
  /\ pc[j] \notin {"report", "pauseReport", "abortReport"}
  /\ pc[j] \in {"wait", "reap", "settled", "decide"} => ~StopRequested(j)

(* A session whose row says RUNNING is never forgotten: some job is there  *)
(* to finish it, whatever the interleaving of pauses, resumes, aborts,     *)
(* restarts, hand-overs, crashes and failures, as long as no exception     *)
(* escaped outside the try block (crawl_session.py:294-300, 470-486).      *)
RunningIsDriven ==
  row.status = "RUNNING" /\ ~dropped => \E j \in Jobs : Responsible(j)

(* A job between its enqueue and its last statement drives nothing.        *)
Driver(j) == pc[j] \notin {"idle", "report"}

(* One job at a time drives a session: continuations, retries after a      *)
(* crash or a shutdown, and new requests never overlap, unless a job is    *)
(* disturbed between enqueueing its continuation and returning (lines      *)
(* 443-444), or the API enqueues a job while another one is there.         *)
OneDriver ==
  ~doubled => \A j, k \in Jobs : Driver(j) /\ Driver(k) => j = k

(* A completed session is quiet: no job of it is left that could crawl,    *)
(* generate flows or write to its row (mark_completed_if_running is the    *)
(* last thing the last job does).  A request that came late may have left  *)
(* a job that will find that it cannot start.                              *)
CompletedIsQuiet ==
  ~doubled /\ row.status = "COMPLETED" =>
    \A j \in Jobs : pc[j] \in {"idle", "report"} \union StartPc
                     /\ slice[j].crawl \notin Crawling

(* The row never claims more states than the graph holds, however many     *)
(* slices, retries and overlapping jobs counted them.                      *)
CountIsBounded == row.count <= Found

(* No state is lost from the count of a completed session, provided that   *)
(* one job at a time drove it and each slice started from counters that    *)
(* were up to date: lines 443-444 enqueue the continuation before they     *)
(* write them, and lines 328-345 of the continuation read them.            *)
CountIsComplete ==
  ~stale /\ ~doubled /\ row.status = "COMPLETED" => row.count >= created

(* A session completes with the test flows of the run that completed it    *)
(* (_complete_crawl_session, 266-276).                                     *)
CompletedHasFlows ==
  GenerateFlows /\ ~doubled /\ row.status = "COMPLETED" => flowsOf = row.started

(* Slices hand a session over to each other so that it always has one job  *)
(* to drive it, not two, and nothing that one of them found is lost.       *)
HandOverIsSafe == RunningIsDriven /\ OneDriver /\ CountIsComplete

(* However jobs end, are repeated or fail, none drives the session next    *)
(* to another, and a completed session has its flows, is left alone, and   *)
(* never counts too much.                                                  *)
CompletedIsFinal == OneDriver /\ CompletedIsQuiet /\ CompletedHasFlows /\ CountIsBounded

(* What the row tells its readers is the abstract life of a session.       *)
Life == INSTANCE SessionStatus WITH
          status <- row.status, finished <- row.finished, count <- row.count
LifeSpec == Life!Spec

(* A running session settles: it completes, fails, is paused or aborted.   *)
RunningSettles == row.status = "RUNNING" /\ ~dropped ~> row.status # "RUNNING" \/ dropped

(* A job that has still to read the row when the session is aborted sees   *)
(* to it that the session gets its finish time.  Three kinds of job do     *)
(* not: one that was told to pause before, one that is about to return,    *)
(* and one that the abort meets between the two statements of the          *)
(* CancelledError handler (lines 472-476).                                 *)
WillNotice(j) ==
  /\ Responsible(j) \/ pc[j] \in {"aborting", "abortReport", "stamp"}
  /\ pc[j] # "cancelFail" /\ slice[j].event # "pause"

AbortIsStamped ==
  row.status = "ABORTED" /\ ~dropped /\ (\E j \in Jobs : WillNotice(j))
    ~> row.finished \/ row.status # "ABORTED" \/ dropped
=============================================================================
