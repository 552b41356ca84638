# Formal models of the CoverIt crawler

TLA+ models of the crawler worker: the jobs that drive a crawl session, the
exploration of a site over the slices of that session and what is tried on its
pages, the state graph and the bank of semantic profiles that sessions share,
the generation of test flows, and the sessions in which a user records a flow by
hand or edits one. TLC checks them on small instances; TLAPS proves every
invariant and action property of the runs for every instance. Paths below are relative
to the repository, whose Python package is itself called `src`.

## The system

The worker takes crawl sessions from an arq queue in Redis. A session is a row
of the Postgres table `crawl_sessions`; what a crawl finds, and what it still has
to do, are nodes of a Neo4j graph, one graph per application version. An API
outside this repository creates, submits, pauses, resumes and aborts sessions.

| component | state it keeps | operations | hard because |
|---|---|---|---|
| **Crawl jobs** `src/workers/jobs/crawl_session.py`, `flows_job.py` | locals of the coroutine, its crawl task, its poller; jobs in Redis | one time slice: start, crawl, settle, hand over to a continuation or complete, handlers for cancellation and exceptions | awaits everywhere; jobs overlap; arq cancels, shuts down and redelivers; status read, then acted upon |
| **Session row** `src/db/repositories/crawl_sessions.py`, `src/db/services/crawl_sessions.py` | status, counters, start and finish time | conditional `UPDATE`s, `ensure_started_or_skip_aborted` | several writers, no locks held over awaits |
| **Frontier and exploration** `src/crawler/session/*.py` | counters of the slice; the browser's page | seed, login, claim, explore, execute, defer | the deadline, a stop, a crash or a failing statement may come at any await |
| **Graph store** `src/graph/repository.py`, `queries.py`, `schema.py` | State, StateFrontier, ActionAttempt, ActionRepeatCounter, DeferredWork, TRANSITION, SemanticProfile | one Cypher statement per operation (two in `add_transition`) | read-committed isolation, several sessions on one graph |
| **Replay** `src/crawler/replay/*.py` | recipes, as properties of State | register (if better), get, replay with retries and a fallback | recipes age; an upsert keeps old fields |
| **Action planning** `src/crawler/executor.py`, `session/explore.py`, `utils/dom.py`, `risk.py`, `fingerprints.py` | none | the action sequences for elements and forms, their identities | many kinds of fields; caps; one identity for two sequences |
| **Semantic engine** `src/crawler/semantic_engine/*.py` | profiles in the graph, trained classifiers | register: get, page through, compare, store | shared through the graph; numerical |
| **Test flow generation** `src/graph/test_flow_generation/*.py` | the candidates, a stack, a queue, a heap | candidate flows, merging, prefixes, then a covering selection | cycles, length limits, coverage |
| **Test flow storage** `src/db/repositories/test_flows.py` | rows of `test_flows` | create, create a batch | partial failure |
| **Manual recording** `src/workers/jobs/manual_record_session.py` | segment, checkpoints, states, flows so far, idle timer | start, stop, rewind, finish, report, end | pollers, a websocket, a lock, events queued from an old page |
| **Flow editor** `src/workers/jobs/flow_editor_session.py` | position in a flow, browser context, a screencast | open a position, inspect, scroll, leave | an error half-way through re-opening; frames under way |
| **Page recorder** `src/crawler/session/manual_crawl/*` | input not yet reported | map DOM events to actions | debouncing, navigation |
| **Browser layer** `src/browser/*`, `src/crawler/executor.py` | contexts and pages | navigate, act, settle, capture | I/O |
| **Inputs, utilities, replay assertions** | none | pure functions | |
| **Workers, configuration, probe script** | | start, stop; submit a session by hand | the two steps of a submission |
| **Semantic training pipeline** `src/scripts/semantic_pipeline/*` | files | collect, label, train | offline |

How they interact: the API (or `scripts/probe_crawl_pipeline.py`) updates the
row and then enqueues a job whose id is the session id. The job claims the row,
creates the crawl task (`CrawlerWorker.process`, `CrawlSession.run_crawl`) and
an abort poller, and waits for either. The crawl task reads and writes the graph
only. When it has ended the job reads the graph's progress and the row's status,
and enqueues a continuation, completes the session (generating flows first) or
stops. Pauses and aborts reach a slice through the row and the poller.

A manual session has no crawl task: its job keeps a browser page, a websocket to
the user, and a `ManualSegmentRecorder`. The user's input goes to the page, the
page's DOM events come back through a queue, a monitor compares the page with the
last recorded state, and what the recorder makes of both is sent as steps.

What makes each part correct is stated as properties, which the runs below check.

## Modules

How the modules build on each other:

    SessionStatus  <-refined by-  CrawlRow <- CrawlJob            (jobs)
                   <-refined by-  CrawlRow <- ManualSession       (manual jobs)
    CrawlFrontier, ActionPlanning  <- PageExploration             (crawling)
    SharedGraph, SemanticBank                                     (what sessions share)
    RecordedEvents <- ManualRecorder                              (recording)
    FlowGeneration, FlowEditor                                    (test flows)

**`CrawlRow`**: the row as a record, one function per `UPDATE`. Kept are status,
whether `finished_at` is set, `state_count`, and the number of starts
(`started_at`). Everything else in the row is written along with these.

**`SessionStatus`**: the abstract life of a session, as one who only reads the
row sees it. `CrawlJob` and `ManualSession` implement it (`LifeSpec`, a refinement
mapping from the row's fields).

**`CrawlJob`**: the job protocol. Variables: the row; `created`, `pending`,
`seeded`, `flowsOf` for what the graph and the flow table contribute; `pc`,
`slice`, `rerun`, `orphan` for the jobs; `requested` for the API between its two
steps; `budget`, the disturbances left; and the history variables `doubled`,
`stale`, `dropped`, which say in which executions a property makes its promise. A
value of `pc` is a point of the coroutine between two awaits, so each database,
graph or queue access is an action of its own. The crawl task moves on its own,
next to the job (`Seed`, `ClaimState`, `FinishState`, `CrawlEnds`), as does the
poller (`Poll`). Failures: `CancelJob` (job timeout, or worker shutdown after
which arq runs the job again; a timeout during `asyncio.wait` leaves the crawl
task running as an *orphan*), `Crash` (killed worker, redelivery), `Raise` (an
exception in the try block), `CrawlFails`, `PollerDies`, `RaiseUnhandled` (an
exception where no handler looks after the row). `mark_finished_at_if_aborted` is
called inside the try block (`abortReport`: an exception there goes to the handler,
which calls it again) and in the handlers (`stamp`).

**`CrawlFrontier`**: `run_crawl` against the statements of `graph/queries.py`.
A crawler is one run of `run_crawl`; several may overlap, and slices start at
any time, so the module does not depend on what `CrawlJob` shows. Variables: the
graph (`known`, `seen`, `recipes`, `transitions`), the session's work
(`frontier`, `attempted`, `repeats`, `deferred`), `pc` and `run` for the
crawlers, and a history of what was performed, cut short, or done after a failed
replay. The site is given by constants: which actions a page offers, where they
may lead, which popups they open. `CrawlJob` counts what `CrawlFrontier` looks
into; both share the meaning of "pending work" and of the limits.

**`ActionPlanning`**: pure operators. What `explore.py` and `EventExecutor` plan
for the elements and forms of a page: one sequence per option of a list, fill and
press Enter for a search box, fill, choose and submit for a form, nothing for a
field of a form or a disabled element; the defaults of radio groups; the login
form; the keywords of `risk.py`; and the identity a fingerprint is made of. Its
loops are recursive functions over the positions of a list (`FirstOf`, the actions
of a form's fields in order).

**`PageExploration`**: `CrawlFrontier` over such pages. The site's constants
`Offered`, `Risky` and `Login` are what `ActionPlanning` plans for its pages
(`PageAssumption`, which TLC evaluates; they are written out in the instance
because TLC computes constants anew while it checks liveness). The fingerprint is
a constant, `Hash`, of which only `HashAssumption` is known: on one page it tells
identities apart. What else the pages are assumed to be is what the scripts in
the browser report:

- `ToldApart`: no two elements of a page have the same key and selector, because
  `get_interactable_elements.js` lists an element once per frame and selector
  (`signature`, lines 240-244); forms differ in their ids (`form.id`, which a
  document gives once, or a number, `get_forms.js:225`); and no element has the key
  of a submit button, because `get_forms.js` reports that one without the path in the
  document that is part of every element's key (`dom.py:94`).
- `WellFormed`, for forms: fields have keys of their own, only inputs that are
  boxes and buttons are checked, and of a group of buttons one at most, as
  browsers have it.

**`SharedGraph`**: the graph as two sessions use it, statement by statement:
recipes (built in `_build_replay_info`, stored by `upsert_replay_info_if_better`
and once more by `set_state_properties`, replayed by `replay_to` with its
fallback) and transitions (`add_transition`: find an equivalent one, update it or
merge one's own). A page is a state and an address; `Load` says what loading an
address shows. After an action a session replays its state (`ReplayAgain`); if
that fails (`ReplayFails`), only the sequences of the element end
(`explore.py:148-149`): the session goes on with the next one, wherever the browser
is, and what it finds there is stored as if it had been found at its state. A
replay fails if the recipe does not lead there, and may fail at any state of the
constant `Flaky`. `late`, `drifted`, `raced`, `origin` (where the action of a
transition was last performed) and `doubted` (states that were given a recipe that
was not `sure`) are histories that say in which executions a property makes its
promise.

**`SemanticBank`**: `StateComparisonBank.register` over the graph: get the stored
profile, page through those of the session's explored states while other sessions
store theirs, compare, store; and the frontier, whose priorities depend on it.
States are met in an exploration (`Meet`) and by deferred work (`RunDeferred`).

**`FlowGeneration`**: `find_all_flows` from the query to the stored rows. One
action per iteration of each loop: the walk of stage 1 (`PopStart`, `WalkOn`,
`EndWalk`), merging (`MergeShort`), the breadth-first search for prefixes
(`Search`), prefixing (`AppendCheckpoints`, `AppendLogin`), and the selection
(`PopStale`, `SelectTop`), whose heap is a function from candidates to the gain
they are filed under; `Store` writes the rows.

**`RecordedEvents`**: the pure functions that turn DOM events into actions
(`_compact_manual_events`, `map_steps_to_actions` and the tests on actions).

**`ManualRecorder`**: `ManualSegmentRecorder` and the tasks that call it. The
variables after `pending` carry the names of its fields (`segment` groups those
of the active flow; `told` and the other histories are marked). `flush` is the
flush in progress: it holds the lock from the reading of the hash (`Look`) to the
attribution of the change (`TakeSnapshot`) over an await, while events and input
go on arriving. `loop` is the message loop, which serves one request at a time:
`flow.start`, `flow.publish_pending`, `flow.finish` (with `bug.report`, which
finishes the flow first), `flow.rewind`. `monitor` decides whether to force a flush
before it waits for the lock. `TakeStep` and `SendStep` are the two sides of the
await in `_step_sender`. The user (`UserActs`) acts while the loop is idle, since
the same loop serves `browser.input`; the page (`Drift`) changes when it likes.

**`ManualSession`**: the coroutine `manual_record_session` around the recorder:
the row, the websocket with messages that wait in it, the idle time limit and its
monitor, the contexts that a rewind opens and closes, the handlers and the
`finally` block, cancellation and redelivery by arq. A request takes time and
succeeds or fails, and a `_finish` that fails may have stored states and closed the
segment (`StoreFails`); what it records is `ManualRecorder`'s subject. Time passes in
ticks; `diligent` and `prompt` remember whether user and worker kept up with it.

**`FlowEditor`**: `flow_editor_session`. `open_position` is one action per await
(`StopScreencast`, `Drain`, `CloseContext`, `NewContext`, `NewPage`, `Replay`,
`StartScreencast`, `Ready`); `at` counts the transitions and the actions of the
next one that were performed on the page; frames are tasks of their own. A
screencast that the browser does not stop (`unstopped`) sends frames until its
context is closed.

**`CrawlJobProofs`**, **`CrawlFrontierProofs`**, **`ManualRecorderProofs`**,
**`ManualSessionProofs`**, **`FlowEditorProofs`**, **`SharedGraphProofs`**,
**`SemanticBankProofs`**, **`FlowGenerationProofs`**: theorems.
Modules whose names begin with `MC` are instances for TLC.

A definition introduced by "A mistake:" is not part of a model: it is the
variant of the definition after it that a plausible bug would give, kept to
show that each property would catch one.

## Runs

| run | instance | checks |
|---|---|---|
| `job_crawls` | 4 job ids, limit of 3 states, so that a slice may leave work behind; 2 requests, a pause | `TypeOK` `HandOverIsSafe` `LifeSpec` |
| `job_faults` | fair; 2 job ids, limit of 3 states, one foreign; three of a request, an abort, a cancellation, a crash, a fault | `RunningIsDriven` `CompletedIsFinal` `RunningSettles` `AbortIsStamped` `LifeSpec` |
| `frontier_overlap` | 2 crawlers, 2 pages, 3 actions, a kill, one page known before | `TypeOK` `AtMostOnce` `NothingIsLost` |
| `page_slices` | fair; 1 crawler, 4 pages of 9 elements and 2 forms, a login, a risky action, a popup; caps of 3 states, 2 elements, 1 option, 1 repeat; two of a kill, a cancellation, a failing replay, a failing statement | `RepeatsAreCapped` `NothingIsLost` `TransitionsAreReal` `ExplorationIsThorough` `CrawlIsExhausted` `ExploredStays` |
| `frontier_popups` | login, risky action, popup, `DEFER_DESTRUCTIVE_ACTIONS` off | `CrawlIsExhausted`, **violated** |
| `recorder_flows` | fair; 2 pages, 3 elements; 2 inputs, a change by itself, 3 requests; irregularities | `SegmentInBounds` `FlowsArePaths` `RecordingIsTrue` `ClientFollows` `RequestsEnd` |
| `manual_session` | fair; time limit of 2 ticks, 3 messages, 2 disturbances of any kind | `UserIsTold` `UserCanWork` `NothingIsLeft` `LifeSpec` `RecordingEnds` |
| `flows_generated` | fair; all graphs of 3 states and up to 4 transitions, parts of one of 5 states, with and without a login; 5 settings | `FlowsCover` `FlowsReplay` `SelectionIsGreedy` `WithoutCutsItEnds` |
| `flows_cut` | fair; graphs of 3 states and up to 3 transitions; flows are cut after 2 or 3 states | `GenerationEndsAlways`, **violated** |
| `flow_editor` | fair; 3 flows (a transition twice, one missing, none); 3 messages, 2 troubles (an exception at any await, a screencast that does not stop, a user who leaves), 2 frames under way | `UserIsAnswered` `FramesAreCurrent` `NothingPilesUp` `EditorEnds` |
| `shared_graph` | 2 sessions with 2 and 1 actions, 4 states, one of them flaky, 4 addresses, 8 actions | `RecipesAreGood` `EdgesAreTrue` `RecipesImprove` |
| `semantic_bank` | 2 sessions, 5 states, pages of one profile, a bank of 2, deferred work, a failing statement | `VerdictsAreRight` `PenaltyIsKept` |

Several properties are conjunctions of parts that have names and comments of
their own in the modules; the text below speaks of the parts:

| property | is the conjunction of |
|---|---|
| `HandOverIsSafe` | `RunningIsDriven` `OneDriver` `CountIsComplete` |
| `CompletedIsFinal` | `OneDriver` `CompletedIsQuiet` `CompletedHasFlows` `CountIsBounded` |
| `NothingIsLost` | `NoStateIsLost` `ExploredThoroughly` `NoDeferredIsLost` |
| `ExplorationIsThorough` | `EverythingIsTried` `FormsAreFilled` `LimitsHold` |
| `RecordingIsTrue` | `TypeOK` `SegmentIsAPath` `FlowsHappened` |
| `ClientFollows` | `ClientIsCaughtUp` `StaleStepsAreMarked` |
| `RequestsEnd` | `RequestsAreAnswered` `RecordingResumes` |
| `UserIsTold` | `ClosedIsTrue` `StoredIsAnnounced` |
| `UserCanWork` | `PageIsOpen` `DiligentIsServed` |
| `NothingIsLeft` | `TypeOK` `RunningIsServed` `CountIsComplete` `NothingStaysOpen` |
| `FlowsCover` | `NothingIsMissed` `CoverageIsComplete` `StopsForAReason` |
| `FlowsReplay` | `TypeOK` `PrefixIsShortest` `StoredIsReplayable` |
| `UserIsAnswered` | `TypeOK` `ToldIsShown` `RequestsAreAnswered` |
| `RecipesAreGood` | `RecipesReplay` `ScoreDescribesRecipe` |
| `EdgesAreTrue` | `TypeOK` `EdgesHappened` `RefsResolve` `NoTwins` |
| `VerdictsAreRight` | `TypeOK` `DuplicatesHaveOriginals` `NothingIsSkipped` `ExploredIsComparable` |

A mistake that is kept in a module breaks one part of such a property.

What they show. *Jobs*: a session that is RUNNING always has a job that will
settle it; jobs drive a session one at a time, except through a disturbance
between the enqueue of the continuation and the return of the job, or a request
while a job lives (`doubled`); a completed session is quiet, has its flows, and
counts every state, provided no slice started from counters that were out of
date (`stale`); it never counts too many. The two provisos are real: lines
442-444 enqueue the continuation before the counts are stored. An aborted session
gets its finish time from a job that can still notice (`WillNotice`). Two kinds of
job cannot, and then nobody does: one that has seen a pause and is winding down
while the session is resumed and aborted (line 408), and one that the abort meets
between the two statements of the CancelledError handler (lines 472-476). A pause
that arrives while flows are generated is overwritten by COMPLETED (line 276), as
`SessionStatus` allows because the `UPDATE` does. Pauses and resumes are in
`job_crawls`; the run with liveness has none.

*Frontier and pages*: no action is performed twice for a state, nor more often
than allowed on a url; no state and no deferred work is lost, except what a
killed or cancelled crawler held (`excused`) - the code has no recovery for a
state left `exploring`; a state marked explored was explored in full, which
means that each usable element and form of the page was tried, and each planned
sequence under a fingerprint of its own; transitions start where they say, as
long as replays work (`SharedGraph` says what is stored when they do not);
limits hold for one crawler at a time (`OneAtATime`; two
do not see each other's states); explored states stay so;
and the crawl of a finite site ends. Three things about planning that surprised
us, which no document speaks about: an `input` of type `submit` or `button`
outside a form is typed into and never clicked, since `is_text_input` is asked
before `is_button` (`explore.py:176-187`; the instance has none); a radio group whose first button is
disabled stays unset (`executor.py:134`; `FormsAreFilled` excuses it); and
nothing beyond `MAX_ELEMENTS_PER_STATE` is ever tried on a state.

*First finding* (`frontier_popups`): a popup becomes deferred work whatever the
setting (`sequence.py:81`), deferred work is claimed only with it on
(`base.py:209`), and it counts as pending work in any case
(`crawl_session.py:91`). With the setting off, a session whose site opens a
popup asks for continuations for ever, unless it has a timeout.

*Shared graph*: a recipe leads back to its state, by its checkpoint or its
fallback; a better recipe is not replaced by a worse one, and its score is its
own; transitions happened and are not doubled; an id once given out names a
transition. Each of these has exceptions, which the properties name, and TLC finds
a counterexample without each:

- `set_state_properties` after the upsert overwrites what another session has
  improved, while the score stays (`sequence.py:246-248`; `raced`).
- Two sessions between the two statements of `add_transition` both add theirs
  (`late`), and an update that changes the key or the locator of a transition may
  make it like another one (`drifted`).
- Three ways of building a recipe give one that does not lead back, and is not
  `sure`: the fallback of a second action after a checkpoint repeats actions
  (`sequence.py:235`); a recipe built at a state that only its fallback reached
  cannot be replayed once an address changes; and a recipe built from that of its
  state by a session that is somewhere else.
- A session is somewhere else after a failed replay: it performs the remaining
  elements there and stores their transitions with its state as the source
  (`explore.py:82-95`, `148-149`; `sequence.py:157`). Such a transition did not
  happen from its source. `EdgesHappened` says that its action led to its target
  from the place where it was performed (`origin`), and at which sources it can be
  found: a flaky one, or one that was once given a recipe that was not sure. As
  long as recipes are sure and pages answer, stored transitions happened.

*Semantic bank*: no equivalent explored state is passed over, although pages
shift under the reader; duplicates have an explored original; penalties are kept.
A comparison that fails resets the penalty of a state to none (so would an engine
whose artifacts are not there, `engine.py:96-116`, for which no penalty is ever
given); and a state that another session of the graph registered first is `already_registered` here, and
gets no penalty whatever it resembles.

*Flow generation*: stage 1 takes every transition the root leads to, prefixes are
shortest, stored flows can be replayed from where they begin, the selection is
greedy in spite of its lazy heap, and stops for one of its reasons. Three things
to know: `min_num_of_states_per_tf` filters by transitions in stage 2 (line 32)
and merges by states in stage 1; the maximum is not enforced again after merging
and prefixing; and the navigate transitions of a login count as covered without
being part of the total (line 67), so a threshold may be met early.

*Second finding* (`flows_cut`): when a candidate reaches
`max_num_of_states_per_tf`, it is cut and `visited_nodes` starts anew
(`stage1_preproccessing.py:69-71`). On a cycle with at least as many states as
the limit the walk then goes round for ever and appends candidates.
`WithoutCutsItEnds` says that this is the only way not to end. In other settings a
candidate found twice stays in the code's list, and a copy of it may be selected at
gain 0 to meet `min_num_of_tf`; the model lists it once. `WithLogin` would store a
navigation to no address for a start that is no checkpoint (`stage1:231`); it does
not arise, since the first state of a session is a checkpoint (`base.py:249-260`).

*Recorder*: whatever happens, indexes stay in bounds after rewinds, a stored flow
is a path of the graph that starts at its checkpoint, and a step that comes too
late carries an old revision; the active segment leads from the checkpoint to the
page shown, so that it can be finished; a stored step happened; the client is
sent every step; rewinds end; requests are answered. Three of these make
exceptions, named in `SlipKind`, and each exception is necessary (without it TLC
finds a counterexample). They describe limits of the recorder that no document of
the repository speaks about:

- A page that changed by itself before `flow.start` may leave a flow that cannot
  be finished: `start` goes back to the state before the last change of url, and
  no step explains the change in between (`unexplained`).
- An event whose selector does not map or resolve on the source page leaves a gap
  after earlier steps, which `verify_bdd_flow` refuses (`unmapped`, `unresolved`).
- An event that arrives later than 0.25 s after the input is attributed to no
  change, its change to the step before (`late`, `hasty`).
- A finish or rewind sends no step for what its own flush recorded, so a client
  whose request is then refused has missed it (`failed`); a flow whose row
  cannot be written is lost, for its segment is closed by then (`unstored`).
- The steps of a finished flow that started and ended at the state where it
  finished come back in the next flow: `start` takes every transition from the
  candidate state on.

*Manual sessions*: what the user is told at the end is what the row says; a
stored flow is announced; a user who acts often enough is not thrown out; the
page he works on is open and nothing stays open after the job; the row is settled
and its count is right; and every recording ends. The exceptions: after a
cancellation that arq does not repeat, the row of a recording stays RUNNING, for
the handler looks after aborted sessions only (`stranded`, lines 2051-2054); a
user who leaves between the verdict of the time limit and the closing of the
websocket is told "aborted" while his session becomes COMPLETED (`late`); a bug
report that fails after its flow was stored ends in an error (`unsaid`). A manual
session has no abort poller: an abort through the API is noticed at the end. The
messages about a failure are never heard, since the block that opened the
websocket has closed it by then.

*Flow editor*: the user picks elements from the position he was told is ready and
sees no older frame (unless the browser did not stop a screencast, which
`_stop_screencast` ignores), every request is answered, contexts do not pile up, and an
editor whose user has left ends. Between an error and the next `position.ready`
nothing is promised: opening closes the old position first. A position names a
transition by its id only, so the second pass of a repeated transition cannot be
opened (`flow_editor_session.py:156`).

### Bounds, and why they are enough

Four job ids let a job, its continuations and a redelivered or resumed job be
alive together, which is where overlaps can go wrong. Under a limit of three
states a slice may end with a state pending, and a continuation follows; there
the ids suffice for every continuation that is asked for (four with a pause and a
resume, two without). The disturbances are bounded by `Budget`, one or two of
each, so that different ones may meet. In `CrawlFrontier` two pages share a
url, so that the repeat counter is shared, and a third has its own; a popup, a
risky action, a login and a page that may lead back to itself are each present
once; the fourth page lets several actions be taken before a limit is met, and
one page has more usable elements than the cap allows. `FormsAreFilled` takes all
forms of up to three radio buttons and checkboxes, checked, disabled or required.
Continuation ids and crawlers are symmetric; liveness runs use no symmetry.
In `ManualRecorder` the user acts twice, so that a second input can overlap
the flush of the first, and continue it in one field; the page may change once by
itself, which is what the attribution of changes depends on; three requests allow
start, rewind and finish, or a second flow after a first, or a retry. Two pages
under different urls let the checkpoint candidate move.
In `ManualSession` the time limit is longer than the pause of a diligent user by
just one tick; three messages allow a flow to be started, replayed and finished.
Graphs of three states have every shape of short cycle, parallel edges and loops
that stage 1 tells apart; the part of five states has ways from two starts that
meet, which merging and the heap need. In `SharedGraph` an address changes, a
loaded address shows another state, buttons share keys or locators, and states
share a button with different effects, so that a session that went astray stores
what is not so; one session takes the two actions that going astray needs, the other
interferes; three are enough for each exception of the properties to be necessary.
How often a replay fails is not bounded. In `SemanticBank` the bank is smaller than
the number of profiles, and a page holds one profile, so that every page may shift.

The constraints `AsDisturbed` and `AsExpected` bound how many disturbances one
execution combines. They cut off nothing else, and no fairness asks for a
disturbance: every fair execution with so many disturbances is kept whole, so
liveness under the constraint says what it says for those executions.

Deadlock is checked in the runs of the frontier, where a slice may always
start. The other systems may really stop (a settled session, a recording, an
editor or a generation that has ended), so their cfgs switch the check off.

### Fairness, and why the code justifies it

Weak fairness of each job, crawl task and poller: the event loop runs what is
ready and arq runs what is queued. Weak fairness of the second half of a
submission: the script does not stop between its two statements. No fairness of
requests, pauses, resumes, aborts or failures. In `CrawlJob` a slice is assumed
to explore at least one state unless it is stopped (slices last ten minutes by
default); in `CrawlFrontier` a slice may end before it claims anything, and
strong fairness says that not every slice does so.

For the recorder: weak fairness of the flush in progress, which ends in a
snapshot or an exception, and strong fairness of the message loop's step:
the lock is taken and released over and over by the monitor, and `asyncio.Lock`
wakes its waiters in the order in which they came. For the manual session: its
job, its monitor, and time. For the editor: its job and the sending of frames,
which it waits for. Flow generation is sequential: it takes its next step. None
of the user, the page, or failures.

### Abstractions

- Time: whether a deadline or the session's timeout has passed is a choice; only
  the idle limit of a recording counts ticks.
- `CrawlJob` takes the exploration of a state as one step that finds at most one
  new state, does not requeue known ones, and counts states only; transition
  counters and limits behave alike. Deferred work counts as pending work.
- In `CrawlJob` flow generation is one step; one that selects nothing counts too.
- An action sequence is performed as one action. Priorities of
  the frontier only order claims, and any pending state may be claimed.
- The value a field is filled with is one value of the element (`fill`); fields
  are told apart by their keys, and fingerprints tell the identities of a page apart.
- In `CrawlFrontier` a replay reaches its state or fails; its retry and its
  fallback are in `SharedGraph`, which leaves out frontier and limits in turn.
- The initial page does not change between slices in `CrawlFrontier`.
- Neo4j: a statement that merges a node under a uniqueness constraint is atomic
  (`graph/schema.py`); a claim reads committed data and may meet another claim.
- `SharedGraph` leaves out the storage state kept with a recipe; an exploration
  reads the recipe of its state once, as the code does. It goes through the
  elements that its state has (`explore.py:80` reads them again if there were none,
  which is left out), performs no deferred work, and takes the replay of a sequence
  that failed and the one after it (`sequence.py:164`, `explore.py:148`) as one.
- `SemanticBank`: how confident the classifier is of a pair is a constant. Left out
  are the login sequence, which registers one more state when a session begins, and
  a crawler that is killed.
- `FlowGeneration`: a candidate found a second time is listed once.
- Redelivery is bounded by the budget, and not by arq's number of tries.
- A page is what its state hash tells apart, and a snapshot shows one page: the
  hash, the html and the storage of a snapshot are read in three awaits in the
  code. A page that changes between hash and snapshot is covered, since
  `TakeSnapshot` records the page of its own moment.
- Indexes of the recorder start at 1; the code's `current or candidate` in
  `_finish` treats index 0 as unset, and so does the model.
- Events the recorder ignores (untrusted ones, hidden fields) do not occur. The
  values typed are left out; a step keeps the last actions, as coalescing does.
- A step is a transition's source, actions and target. The graph finds equivalent
  transitions by the key of the last action only; that is left to `SharedGraph`.
- Of the steps of a segment, `_projectable_active_segment` may leave out one.

External, modelled from how the code uses it: arq, the API, Neo4j's isolation,
the browser and the site.

## Proofs

TLAPS checks every theorem for all values of the constants that satisfy the
module's assumption; budgets, numbers of jobs, crawlers, sessions, states and
messages are among them, so what TLC shows for two of each is shown here for any
number. No theorem assumes fairness or that disturbances are few. An invariant
that a run checks is seldom inductive; the text says what had to be added.

### `CrawlJobProofs`

- `TypeCorrect`: `Spec => []TypeOK`. One lemma per group of actions; each update
  of the row keeps it a row, each update of a slice keeps it a slice. That
  `pending` stays a natural number is where guards matter.
- `RunningSessionsAreDriven`: `Spec => []RunningIsDriven`. The inductive
  invariant `Driven` is `TypeOK`, `RunningIsDriven` and `NotToldYet` (a job that
  has not created its poller yet has been told nothing): without the last, a job
  could start its crawl with a stop already requested, and would not be
  responsible. A responsible job stays so until the row is not RUNNING any more,
  a continuation is responsible before its predecessor stops being so, and only
  `Claim` makes a row RUNNING, by a job that is then responsible.
- `JobsImplementTheLife`: `Spec => LifeSpec`, the refinement of `SessionStatus`.
  `RowChanges`: whatever the step, the row is left alone or changed by one of the
  statements of `CrawlRow` or by the API; each of these is a step of the life.
- `HandOversAreSafe`: `Spec => []HandOverIsSafe`. `OneDriver` is inductive
  together with `Orderly` (a job that runs again is in a handler, a crawl that
  goes on has a job that waits for it) because no job becomes a driver by a step
  of its own (`NewDrivers`), unless it was disturbed after its hand-over. For the
  count, `Counted` adds that a job's counter never runs ahead of the graph
  and, while slices start from counters that are up to date, that only one job
  has discoveries to report and no orphan adds to them.
- `CompletedSessionsAreFinal`: `Spec => []CompletedIsFinal`. `Flowed`: the driver
  knows the start it works for, and before the last statement the flows are those
  of that start.

### `CrawlFrontierProofs`

For every finite site (`SiteAssumption`) and any number of overlapping crawlers.
The last theorem is about `PageExploration` and uses `PageAssumption` and
`HashAssumption` as well.

- `FrontierTypeCorrect`: `Spec => []TypeOK`, through `Typed`, which adds what
  each control point needs of the locals it is about to use (`Fits`): an item to
  attempt, a page to take up, a node to write to.
- `ExploredStateStays`: `Spec => ExploredStays`, from `Typed`: every write to the
  frontier is one of `Enqueued`, a claim of something not explored, and the
  marking of the `finally` block.
- `PerformedAtMostOnce`: `Spec => []AtMostOnce`. `AtMostOnce` is not inductive;
  `Once` adds that a crawler between the attempt node and the action has an item
  that is marked, was not performed, and is no other crawler's. So overlapping
  slices are safe because the mark precedes the action, and the price is that an
  action whose crawler dies in between is never performed.
- `RepeatsStayCapped`: `Spec => []RepeatsAreCapped`. `Counted`: the states of a
  url for which an action was performed, or is about to be, are no more than its
  counter says. The counter may be too high (a crawler died), never too low.
- `TransitionsStartAtTheirSource`: `Spec => []TransitionsAreReal`. `Real`: while
  no replay has failed, a crawler that may act is on the page it acts for.
- `NothingIsEverLost`: `Spec => []NothingIsLost`. `Kept` says in whose hands
  everything is: a state that is `exploring`, and deferred work that is
  `processing`, has a crawler that holds it (`StatesAreHeld`, `ItemsAreHeld`); a
  home page that was seen and is not enqueued is a login's; and a crawler that
  explores a state has on its list all that is neither attempted nor deferred
  (`InHand`). A step has to pass on what it lets go of (`KeepsStates`,
  `KeepsItems`), and only an error, a limit or a stop excuses it.

- `PagesAreExploredThoroughly`: `Spec => []ExplorationIsThorough`, for all pages,
  forms and fingerprints. It has three parts.
  The *limits* need an invariant (`Within`, on top of `Typed` and `Kept`): a crawler
  that is alone has counted all states of the graph (`Counts`), it has looked at the
  limit before it acts, unless it logs in, and until the login was tried, nothing is
  known but what is exempt (`LoginFirst`). So only the home page and one login get
  past the limit, and each addition after it meets a limit that was looked at.
  *Everything is tried*: by `Kept`, each action of an explored state has an attempt or
  deferred work; what remains is about plans. No two sequences of a page have the
  same identity (`IdentitiesDiffer`), so there are as many actions as sequences, and
  each element that is usable and taken up in time, and each form, has a sequence
  (`UsableIsPlanned`, `FirstOptionTaken`, `ProcessedAre`).
  *Forms are filled*: which buttons and boxes a plan clicks (`ClickedIs`), what is
  then checked (`CheckedIs`), and that the defaults choose the first of a group that
  has none (`ChosenAre`, `FirstIsChosen`).
  Under these are what the recursive functions return: `Recursion` (a function
  defined step by step along a list exists and satisfies its equations, by
  `LeastOf`), `FirstOfIs` (the first members that are wanted, and when one is among
  them), `PlanIs` (the actions of all fields, then the submission).

Most actions neither attempt nor perform anything; `Quiet` says so once, and the
proofs of `AtMostOnce`, `RepeatsAreCapped` and `TransitionsAreReal` treat those
actions as one case.

### `ManualRecorderProofs`

For all pages, elements, events and bounds (`RecorderAssumption`).

- `SegmentStaysInBounds`: `Spec => []SegmentInBounds`. The inductive invariant
  `Bounded` speaks of all transitions, not only of those of the segment, because
  the next flow may begin with earlier ones: those that start at the candidate or
  later are in order (`InOrder`), and those before the segment start before the
  candidate. `flow.start` cuts the list at the first transition that starts at
  the candidate or later, and the order says that all after it do as well. The
  order survives a rewind because the candidate never moves back while a flow is
  active. `PlanFits` carries what `prepare_rewind` returned to `commit_rewind`:
  nothing is flushed in between, so its indexes are still those of the segment.
- `StoredFlowsArePaths`: `Spec => []FlowsArePaths`. `PathIsReady`: between
  closing the segment and writing the row, what is to be written is a path, and
  its ends are in the graph. It uses `Bounded` for the checkpoint.
- `ClientsFollow`: `Spec => []ClientFollows`. `Viewed`: a message of the current
  revision is about a step of the flow (`Marked`), each step is told or waits to
  be sent (`CaughtUp`), and a flush is the monitor's or that of the request that
  is served (`Served`). While a request other than `flow.publish_pending` is
  served, its flush drops the step, so `CaughtUp` is silent until it is over:
  then the flow has ended, a new revision makes up for what was dropped, or the
  request has failed.
- `RecordingsAreTrue`: `Spec => []RecordingIsTrue`. `Linked`: the active steps are
  a chain of transitions of the graph from the checkpoint on, and end at the page
  that the recorder believes in, if every change had a cause (`slips`); what a
  rewind keeps of a chain is one, and so is what a flow starts with. `Happened`
  follows an event until it is stored: an event that is held back was caused on
  the page the next step starts from (`HeldFits`), the last event of a step that a
  flush builds, or may still replace, led where the step leads (`LastFits`), and a
  replayed step leads where it was recorded to lead (`ReplayFits`). It rests on
  lemmas about `Compact` and `ActionsOf`, by induction over the events: neither
  loses the last event, and neither makes one up.

### `ManualSessionProofs`

For every time limit, pause, number of waiting messages and budget
(`SessionAssumption`: a diligent user's pause and the worker's share fit into the
limit, which is the case that `UserCanWork` is about).

- `NothingStaysBehind`: `Spec => []NothingIsLeft`. The page is one of the open
  contexts, also while a rewind has opened one after it; each control point
  determines which contexts and monitors there are and what status the row can
  have, whatever the API does meanwhile; and the recorder's count is that of the
  graph if it counts from the beginning.
- `RecordingsImplementTheLife`: `Spec => LifeSpec`, as for crawl jobs.
- `UsersHearTheTruth`: `Spec => []UserIsTold`. What was said agrees with the row
  or the job has still to make it so (`ToldFits`), the outcome of the loop fits
  what ended it (`OutcomeFits`), and at most one flow waits to be announced.
- `UsersCanWork`: `Spec => []UserCanWork`. `Clocks`: while nothing waits, the
  limit was restarted after a diligent user last sent something; while something
  does, no longer before that than a pause lasts.

### `FlowEditorProofs`

For any flows, graph, and numbers of messages, frames and disturbances
(`EditorAssumption` gives the constants their types).

- `ContextsDoNotPileUp`: `Spec => []NothingPilesUp`. `OneAtATime` adds that when a
  new context is about to be opened, every open one has leaked, and that nothing
  is open, and no screencast runs, before the first and after the last step.
- `FramesStayCurrent`: `Spec => []FramesAreCurrent`. `Drained`: from the draining
  of the frames to the start of the new screencast none runs and none is under
  way, so the first frame the user gets after `position.ready` shows the page as
  it stays. Both need `Inbox`: a received message is one of the five kinds.
- `UsersAreAnswered`: `Spec => []UserIsAnswered`. `OnItsWay`: a replay on its way
  to a position passes no transition that the position means, and stops there; it
  is the first of its id, by a well-founded induction over places. `Owed`:
  requests that were received and not answered are at most the one that is served.

### `SharedGraphProofs`

For any site, any number of sessions and of actions (`SharedGraphAssumption`: an
action has a key and a locator and leads to a page of the site).

The inductive invariant `Sound` (`AlwaysSound`) is `Typed`; `Places`, what each
control point needs of its locals; `Recipes`, what a stored recipe was built of;
`Edges`, what a transition is and under which id; and `Finds`, what a session
between the two statements of `add_transition` knows of what others did.

- `TransitionsAreTrue`: `Spec => []EdgesAreTrue`. `Places` keeps that a session is
  where it thinks to be, or its state is flaky or has been doubted: a replay of a
  state that neither is nor was succeeds, by `RecipesReplay`. So this theorem rests on
  the next one.
- `RecipesLeadBack`: `Spec => []RecipesAreGood`. A replay (`Run`) of some actions
  followed by one more is the replay of the longer list, by induction over its
  length, so what `_build_replay_info` appends to a recipe that led to its state
  leads on; a fallback is judged by what is stored, whoever stored it.
- `RecipesOnlyImprove`: `Spec => RecipesImprove`. The proof corrected the
  property: we had stated that a replaced recipe is itself better, and a recipe
  without a fallback keeps the older fallback, so that it may end up only as good
  while the score improves.

### `SemanticBankProofs`

For any states and profiles, any number of sessions, and pages and banks of any
size (`SemanticBankAssumption`).

`Sound` says of each session what it has compared (`Matched`): its best match is
among those that suit, no other one is better, and the verdict is that on the
best match; and what it has read (`Read`): of the list of those that suit, all that were
there when it began and come before where it is. A profile that another session
stores comes first and moves the others on by one (`OneMore`), so a page shifts
towards what is still to be read: some are compared twice, none is passed over.

- `VerdictsHold`: `Spec => []VerdictsAreRight`.
- `PenaltiesLast`: `Spec => PenaltyIsKept`.

The proof corrected the model here: it had two branches for the penalty that
overlapped. The code looks at the registration first
(`semantic_engine/state.py:86-95`), and the model now does as well.

### `FlowGenerationProofs`

For every graph, with any cycles, checkpoints, login page and navigate transitions
of earlier generations, and for all settings (`GenerationAssumption`: edges lead
from state to state, a flow may have as many states as it must have, and what is
unset is no number).

The inductive invariant `IInv` has a part for each stage. TLC checked it on all
graphs of up to three edges before it was proved.

- `Typed`: candidates are ways through the graph (`Walks`) from states that the
  root leads to (`Found`), after prefixing from a valid start (`Begun`), and after
  that from the login page, if there is one, with no other navigate transition
  (`Complete`).
- `Thorough`: whatever a walk has passed, each edge that leaves it is taken or due
  (`Due`), but for the end of the walk that goes on. That the seeded edges are due
  is what allows a walk to leave them to others. `Covered` is what follows when
  the walks are over and short candidates are not an exception.
- `Searched`: the queue is in layers that differ by one (`InLayers`), what is seen
  is what as many steps reach, and what is seen and not in the queue leads to
  nothing unseen (`IsSearched`). `Near` keeps of it that found prefixes are shortest.
- `Selecting`: what is left is in the heap under a gain that it cannot exceed any
  more, since gains only fall. So the top, once up to date, is right.
  `StopsForAReason` and `Stores` speak of the end.

The theorems:

- `NothingIsLeftUncovered`: `Spec => []FlowsCover`. From `Thorough`, when nothing
  is due, all that is reached is taken, by an induction over the number of steps
  from the root (`Within`, a recursive function). The selection keeps it unless a
  limit, a threshold or the least length gives something up.
- `StoredFlowsAreWays`: `Spec => []FlowsReplay`.
- `GreedIsRight`: `Spec => SelectionIsGreedy`, that a lazy heap chooses what
  looking through all candidates would choose.

For the proofs the model's lists are built by recursive functions (`Only`,
`ListedOnce`) where it had folds, which the prover cannot see into.

### What stays with TLC

Every invariant and every action property that a passing run checks is proved.

Liveness under fairness (`RunningSettles`, `AbortIsStamped`, `CrawlIsExhausted`,
`RequestsEnd`, `RecordingEnds`, `WithoutCutsItEnds`, `EditorEnds`), with the
`ENABLED` that fairness stands for, is out of the prover's reach. So are the
library's theorems of induction, which take an operator as a parameter.
Induction over sets of numbers is not: a set of naturals that is not empty has a
least member (`LeastNumber`, `LeastOf`, from `WFMin`), and recursive functions are
reasoned about in this way (`Run`, `Compare`, `TransitionIndex`, `FirstOf`, and
`Within` of `FlowGeneration`). Folds of
the community modules are defined by recursive operators and remain opaque.

## Plan

The modules of the plan are written, and their invariants and action properties
are proved. Two extensions would say more:

1. `SharedGraph` and `CrawlFrontier` composed, so that a replay that fails is one
   whose recipe has aged.
2. Conditions under which two crawlers stay within the limits, which `OneAtATime`
   leaves out.

## Not modelled

- The browser layer (`src/browser/*`) drives Playwright: what a page does is the
  environment of the models.
- The scripts that run in the page (`action_recorder.js`, `inspect_element.js`):
  their events reach `ManualRecorder` in any order relative to their effects.
- Input values (`input_defaults.py`, `input_resolver.py`), utilities, replay
  assertions: sequential look-ups without state.
- Features, classifiers, topics and vectors of the semantic engine, and the
  offline pipeline that trains them: numerical code without control to check. The
  in-memory bank (`_register_local`) is never built by the crawler.
- `graph/flow_finder.py`, an earlier flow search that only example scripts call.
- `ActionRepeatLimiter`: the crawler uses the counters in the graph.
- Starting processes, configuration, logging, connecting to the databases.
