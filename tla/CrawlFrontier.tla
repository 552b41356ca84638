---------------------------- MODULE CrawlFrontier ----------------------------
(***************************************************************************)
(* The exploration of a web site by the slices of one crawl session:       *)
(* CrawlSession.run_crawl of crawler/session/base.py with its explore and  *)
(* sequence mixins, against the session's frontier, action attempts,       *)
(* repeat counters and deferred work in Neo4j (graph/queries.py), which is *)
(* all that survives a slice.                                              *)
(*                                                                         *)
(* A crawler is one run of run_crawl with its browser.  CrawlJob says when *)
(* slices start; here one may start whenever a crawler is free, so that    *)
(* retries, resubmissions and overlapping slices are all covered.  Every   *)
(* Cypher statement is one action.  The site is external: constants say    *)
(* which elements a page offers and where they may lead.                   *)
(***************************************************************************)
EXTENDS Integers, FiniteSets

CONSTANTS
  Crawlers,        \* runs of run_crawl that may overlap
  States,          \* state hashes the site can show
  Home,            \* the state at the base url
  Actions,         \* action keys (action_key_fingerprint)
  Offered,         \* Offered[s]: the actions of the usable elements and forms of s
  Leads,           \* Leads[s][a]: the states a may lead to from s
  Popups,          \* Popups[a]: navigations a may open in new pages
  Url,             \* Url[s]: the normalized url of s
  Risky,           \* actions with a destructive keyword
  Login,           \* submitting the login form of Home, or NoLogin
  NoLogin,
  KnownBefore,     \* states other sessions have put in the same graph
  MaxStates,
  MaxTransitions,
  MaxRepeats,      \* MAX_ACTION_REPEATS_PER_URL
  DeferRisky,      \* DEFER_DESTRUCTIVE_ACTIONS
  Nowhere,         \* the browser shows another site, an error, or a failed replay
  Budget           \* how often each disturbance may happen (bounds the model)

Disturbance == {"kill", "cancel", "replay", "fault"}

ASSUME SiteAssumption ==
  /\ IsFiniteSet(States) /\ IsFiniteSet(Actions)
  /\ Home \in States /\ Nowhere \notin States
  /\ Offered \in [States -> SUBSET Actions]
  /\ Leads \in [States -> [Actions -> SUBSET States]]
  /\ Popups \in [Actions -> SUBSET Actions]
  /\ Risky \subseteq Actions
  /\ Login \in Actions \union {NoLogin} /\ NoLogin \notin Actions
  /\ KnownBefore \subseteq States
  /\ MaxStates \in Nat /\ MaxTransitions \in Nat /\ MaxRepeats \in Nat
  /\ DeferRisky \in BOOLEAN
  /\ Budget \in [Disturbance -> Nat]

VARIABLES
  (* The graph of this session *)
  known,        \* State nodes of the graph
  seen,         \* those with this session in their session_ids
  recipes,      \* State nodes with a replay recipe
  transitions,  \* TRANSITION relationships, as <<source, action, target>>
  frontier,     \* StateFrontier entries: their status ("none": no entry)
  attempted,    \* ActionAttempt nodes, as <<state, action>>
  repeats,      \* ActionRepeatCounter nodes: their count
  deferred,     \* DeferredWork nodes: their status
  (* The crawlers *)
  pc,
  run,          \* the attributes and local variables of each run
  (* The environment *)
  budget,
  (* History *)
  performed,    \* how often an action was performed for a source state
  excused,      \* states whose exploration was cut short, and not by a slice's end
  strayed,      \* did a crawler go on after a replay that failed?
  bogus         \* was a transition recorded that started somewhere else?

nodes == <<known, seen, recipes, transitions>>
work == <<frontier, attempted, repeats, deferred>>
history == <<performed, excused, strayed, bogus>>
vars == <<nodes, work, pc, run, budget, history>>

-----------------------------------------------------------------------------
Urls == {Url[s] : s \in States}
Items == States \X Actions

Pc == {"idle", "seed", "home", "loop", "replay", "explore", "attempt", "repeat", "act",
       "add", "register", "record", "return", "pending", "explored",
       "deferredClaim", "deferred", "processed"}

(* What a run is doing: logging in, exploring a state, or a deferred item. *)
Mode == {"login", "state", "deferred"}

Run == [mode : Mode, source : States, item : Actions \union {NoLogin},
        todo : SUBSET Actions, at : States \union {Nowhere}, astray : BOOLEAN,
        states : Nat, transitions : Nat]

Idle == [mode |-> "login", source |-> Home, item |-> NoLogin, todo |-> {},
         at |-> Nowhere, astray |-> FALSE,
         states |-> 0, transitions |-> 0]

(* The locals between two items of work: the counters are all that is left *)
Fresh(c) ==
  [Idle EXCEPT !.states = run[c].states, !.transitions = run[c].transitions]

Goto(c, label) == pc' = [pc EXCEPT ![c] = label]
Becomes(c, locals) == run' = [run EXCEPT ![c] = locals]

(* A run ends; nothing of it is left.                                      *)
Ends(c) == Goto(c, "idle") /\ Becomes(c, Idle)

Disturb(d) == budget[d] > 0 /\ budget' = [budget EXCEPT ![d] = @ - 1]

Item(c) == <<run[c].source, run[c].item>>

WithinLimits(c) == run[c].states < MaxStates /\ run[c].transitions < MaxTransitions

Pending == {s \in States : frontier[s] = "pending"}
PendingDeferred == {i \in Items : deferred[i] = "pending"}

(* get_crawl_progress and _should_continue_crawl of the job.               *)
HasPendingWork == Pending # {} \/ PendingDeferred # {}
WithinGraphLimits ==
  Cardinality(known) < MaxStates /\ Cardinality(transitions) < MaxTransitions

Init ==
  /\ known = KnownBefore /\ seen = {} /\ recipes = KnownBefore /\ transitions = {}
  /\ frontier = [s \in States |-> "none"]
  /\ attempted = {}
  /\ repeats = [u \in Urls |-> [a \in Actions |-> 0]]
  /\ deferred = [i \in Items |-> "none"]
  /\ pc = [c \in Crawlers |-> "idle"]
  /\ run = [c \in Crawlers |-> Idle]
  /\ budget = Budget
  /\ performed = [i \in Items |-> 0]
  /\ excused = {} /\ strayed = FALSE /\ bogus = FALSE

-----------------------------------------------------------------------------
(* Statements of graph/queries.py.                                         *)

(* ADD_STATE with $enqueue, on the frontier: what is explored stays so.    *)
Enqueued(f, s) == [f EXCEPT ![s] = IF @ = "explored" THEN @ ELSE "pending"]

(* ADD_DEFERRED_WORK, for several items of one source: ON CREATE only.     *)
WithDeferred(d, items) ==
  [i \in Items |-> IF i \in items /\ d[i] = "none" THEN "pending" ELSE d[i]]

(* A mistake: only states that are new to the graph are enqueued.          *)
AddNewToQueue(c, s, enqueue, locals) ==
  /\ known' = known \union {s}
  /\ seen' = seen \union {s}
  /\ frontier' = IF enqueue /\ s \notin known THEN Enqueued(frontier, s) ELSE frontier
  /\ Becomes(c, [locals EXCEPT !.states = @ + (IF s \in known THEN 0 ELSE 1)])

(* add_to_queue: the counters count the nodes that are new.                *)
AddToQueue(c, s, enqueue, locals) ==
  /\ known' = known \union {s}
  /\ seen' = seen \union {s}
  /\ frontier' = IF enqueue THEN Enqueued(frontier, s) ELSE frontier
  /\ Becomes(c, [locals EXCEPT !.states = @ + (IF s \in known THEN 0 ELSE 1)])

-----------------------------------------------------------------------------
(* The beginning of a slice.                                               *)

StartSlice(c) ==
  /\ pc[c] = "idle"
  /\ Goto(c, "seed")
  /\ Becomes(c, [Idle EXCEPT !.states = Cardinality(known),
                             !.transitions = Cardinality(transitions)])
  /\ UNCHANGED <<nodes, work, budget, history>>

(* _seed_initial_state: the home page, enqueued unless it has a login form *)
SeedInitialState(c) ==
  /\ pc[c] = "seed"
  /\ AddToQueue(c, Home, Login = NoLogin, [run[c] EXCEPT !.at = Home])
  /\ Goto(c, "home")
  /\ UNCHANGED <<recipes, transitions, attempted, repeats, deferred, budget, history>>

(* ... its recipe; then the login is attempted first.                      *)
RegisterHome(c) ==
  /\ pc[c] = "home"
  /\ recipes' = recipes \union {Home}
  /\ IF Login = NoLogin
       THEN Goto(c, "loop") /\ UNCHANGED run
       ELSE Goto(c, "attempt") /\ Becomes(c, [run[c] EXCEPT !.item = Login])
  /\ UNCHANGED <<known, seen, transitions, work, budget, history>>

(* A mistake: an explored home page is put back.                           *)
MarkStatePendingAgain(c) ==
  /\ pc[c] = "pending"
  /\ frontier' = [frontier EXCEPT ![Home] = "pending"]
  /\ Goto(c, "loop")
  /\ UNCHANGED <<nodes, attempted, repeats, deferred, run, budget, history>>

(* mark_state_pending: a login that reached nothing, or was attempted in   *)
(* an earlier slice, leaves the home page to be explored.                  *)
MarkStatePending(c) ==
  /\ pc[c] = "pending"
  /\ frontier' = Enqueued(frontier, Home)
  /\ Goto(c, "loop")
  /\ UNCHANGED <<nodes, attempted, repeats, deferred, run, budget, history>>

-----------------------------------------------------------------------------
(* The loop of run_crawl.                                                  *)

(* Two statements that overlap may claim the same entry: Neo4j reads       *)
(* committed data and locks only what it writes, so a claim may also find  *)
(* the entry whose claim by another crawler is just being committed.       *)
JustClaimed(c, s) ==
  \E d \in Crawlers \ {c} : pc[d] = "replay" /\ run[d].source = s

(* claim_next_pending_state; any pending state may have the best priority. *)
ClaimNextPendingState(c) ==
  /\ pc[c] = "loop" /\ WithinLimits(c)
  /\ \E s \in States :
       /\ \/ frontier[s] = "pending"
          \/ frontier[s] = "exploring" /\ JustClaimed(c, s)
       /\ frontier' = [frontier EXCEPT ![s] = "exploring"]
       /\ Becomes(c, [Fresh(c) EXCEPT !.mode = "state", !.source = s])
  /\ Goto(c, "replay")
  /\ UNCHANGED <<nodes, attempted, repeats, deferred, budget, history>>

NothingPending(c) ==
  /\ pc[c] = "loop" /\ WithinLimits(c)
  /\ Pending = {}
  /\ IF DeferRisky THEN Goto(c, "deferredClaim") /\ UNCHANGED run ELSE Ends(c)
  /\ UNCHANGED <<nodes, work, budget, history>>

(* A mistake: the actions of the item are not restored.                    *)
ClaimWithoutActions(c) ==
  /\ pc[c] = "deferredClaim"
  /\ \/ \E i \in Items :
          /\ deferred[i] = "pending"
          /\ deferred' = [deferred EXCEPT ![i] = "processing"]
          /\ Becomes(c, [Fresh(c) EXCEPT !.mode = "deferred", !.source = i[1],
                                         !.item = NoLogin])
          /\ Goto(c, "deferred")
     \/ PendingDeferred = {} /\ Ends(c) /\ UNCHANGED deferred
  /\ UNCHANGED <<nodes, frontier, attempted, repeats, budget, history>>

(* claim_deferred_work; nothing to claim ends the loop.                    *)
ClaimDeferredWork(c) ==
  /\ pc[c] = "deferredClaim"
  /\ \/ \E i \in Items :
          /\ \/ deferred[i] = "pending"
             \/ /\ deferred[i] = "processing"
                /\ \E d \in Crawlers \ {c} : pc[d] = "deferred" /\ Item(d) = i
          /\ deferred' = [deferred EXCEPT ![i] = "processing"]
          /\ Becomes(c, [Fresh(c) EXCEPT !.mode = "deferred", !.source = i[1],
                                         !.item = i[2]])
          /\ Goto(c, "deferred")
     \/ PendingDeferred = {} /\ Ends(c) /\ UNCHANGED deferred
  /\ UNCHANGED <<nodes, frontier, attempted, repeats, budget, history>>

(* A limit is reached, the slice's deadline has passed, or a stop was      *)
(* requested: any of them may be the case whenever the loop looks.         *)
Yield(c) ==
  /\ pc[c] = "loop"
  /\ Ends(c)
  /\ UNCHANGED <<nodes, work, budget, history>>

-----------------------------------------------------------------------------
(* _explore_state.                                                         *)

(* replay_to(source): the browser ends up in the source state, or, when    *)
(* there is no recipe or it does not work any more, anywhere.              *)
Replay(c, label, todo, elsewhere) ==
  \/ /\ run[c].source \in recipes
     /\ Goto(c, label)
     /\ Becomes(c, [run[c] EXCEPT !.at = run[c].source, !.todo = todo])
     /\ UNCHANGED <<budget, excused, strayed>>
  \/ /\ IF run[c].source \in recipes THEN Disturb("replay") ELSE UNCHANGED budget
     /\ Goto(c, elsewhere)
     /\ \E s \in States \union {Nowhere}, rest \in SUBSET run[c].todo :
          Becomes(c, [run[c] EXCEPT !.at = s, !.todo = rest])
     /\ excused' = excused \union {run[c].source}
     /\ strayed' = TRUE

ReplayState(c) ==
  /\ pc[c] = "replay"
  /\ Replay(c, "explore", Offered[run[c].source], "explored")
  /\ UNCHANGED <<nodes, work, performed, bogus>>

(* _explore_forms and _explore_elements: the next action, deferred or      *)
(* executed, until none is left or a limit is reached.  Neither the        *)
(* deadline nor a stop is looked at.  After a form there is always a       *)
(* replay, after an element only if its action was executed.               *)
Explore(c) ==
  /\ pc[c] = "explore"
  /\ \/ \E a \in run[c].todo :
          /\ WithinLimits(c)
          /\ IF DeferRisky /\ a \in Risky
               THEN /\ deferred' = WithDeferred(deferred, {<<run[c].source, a>>})
                    /\ UNCHANGED pc \/ Goto(c, "return")
               ELSE Goto(c, "attempt") /\ UNCHANGED deferred
          /\ Becomes(c, [run[c] EXCEPT !.item = a, !.todo = @ \ {a}])
          /\ UNCHANGED excused
     \/ /\ run[c].todo = {} \/ ~WithinLimits(c)
        /\ Goto(c, "explored")
        /\ excused' = IF run[c].todo = {} THEN excused ELSE excused \union {run[c].source}
        /\ UNCHANGED <<run, deferred>>
  /\ UNCHANGED <<nodes, frontier, attempted, repeats, budget, performed, strayed, bogus>>

(* _replay_after_action: back to the source.  If that fails, the rest of   *)
(* the forms or of the element's sequences is dropped, and the remaining   *)
(* elements are tried wherever the browser is.                             *)
ReplayAfterAction(c) ==
  /\ pc[c] = "return"
  /\ Replay(c, "explore", run[c].todo, "explore")
  /\ UNCHANGED <<nodes, work, performed, bogus>>

(* The finally of _explore_state.                                          *)
MarkStateExplored(c) ==
  /\ pc[c] = "explored"
  /\ frontier' = [frontier EXCEPT ![run[c].source] = "explored"]
  /\ Goto(c, "loop")
  /\ UNCHANGED <<nodes, attempted, repeats, deferred, run, budget, history>>

-----------------------------------------------------------------------------
(* _execute_action_sequence: the sequence is one action here.              *)

(* Mistakes: a deferred item that reached nothing is forgotten; the next   *)
(* action follows without a replay.                                        *)
AfterWithoutFinally(c, reached) ==
  CASE run[c].mode = "state" -> "return"
    [] run[c].mode = "deferred" -> IF reached THEN "processed" ELSE "loop"
    [] run[c].mode = "login" -> IF reached THEN "loop" ELSE "pending"

AfterInPlace(c, reached) ==
  CASE run[c].mode = "state" -> "explore"
    [] run[c].mode = "deferred" -> "processed"
    [] run[c].mode = "login" -> IF reached THEN "loop" ELSE "pending"

(* Where the code goes on after the sequence: a login that reached nothing *)
(* leaves the home page pending.                                           *)
After(c, reached) ==
  CASE run[c].mode = "state" -> "return"
    [] run[c].mode = "deferred" -> "processed"
    [] run[c].mode = "login" -> IF reached THEN "loop" ELSE "pending"

(* A mistake: the attempt is looked up and not marked.                     *)
LookUpAttempt(c) ==
  /\ pc[c] = "attempt"
  /\ Goto(c, IF Item(c) \in attempted THEN After(c, FALSE) ELSE "repeat")
  /\ UNCHANGED <<nodes, work, run, budget, history>>

(* mark_action_attempted: once per session, state and action.              *)
MarkActionAttempted(c) ==
  /\ pc[c] = "attempt"
  /\ Goto(c, IF Item(c) \in attempted THEN After(c, FALSE) ELSE "repeat")
  /\ attempted' = attempted \union {Item(c)}
  /\ UNCHANGED <<nodes, frontier, repeats, deferred, run, budget, history>>

(* A mistake: the cap is one too high.                                     *)
TryIncrementOnceMore(c) ==
  /\ pc[c] = "repeat"
  /\ LET u == Url[run[c].source]  a == run[c].item IN
       IF repeats[u][a] <= MaxRepeats
         THEN /\ repeats' = [repeats EXCEPT ![u][a] = @ + 1]
              /\ Goto(c, "act")
         ELSE Goto(c, After(c, FALSE)) /\ UNCHANGED repeats
  /\ UNCHANGED <<nodes, frontier, attempted, deferred, run, budget, history>>

(* try_increment_action_repeat.                                            *)
TryIncrementActionRepeat(c) ==
  /\ pc[c] = "repeat"
  /\ LET u == Url[run[c].source]  a == run[c].item IN
       IF repeats[u][a] < MaxRepeats
         THEN /\ repeats' = [repeats EXCEPT ![u][a] = @ + 1]
              /\ Goto(c, "act")
         ELSE Goto(c, After(c, FALSE)) /\ UNCHANGED repeats
  /\ UNCHANGED <<nodes, frontier, attempted, deferred, run, budget, history>>

(* The action is performed where the browser is.  Popups of the same site  *)
(* become deferred work.  The new state is taken up if it differs from the *)
(* source in its hash or in its url.  An error or another site is left by  *)
(* a replay; wherever that ends, another replay precedes the next action.  *)
ExecuteAction(c) ==
  /\ pc[c] = "act"
  /\ performed' = [performed EXCEPT ![Item(c)] = @ + 1]
  /\ \/ /\ \E opened \in SUBSET Popups[run[c].item] :
             deferred' = WithDeferred(deferred, {run[c].source} \X opened)
        /\ Goto(c, After(c, FALSE))
        /\ Becomes(c, [run[c] EXCEPT !.at = Nowhere])
     \/ /\ run[c].at # Nowhere
        /\ deferred' = WithDeferred(deferred, {run[c].source} \X Popups[run[c].item])
        /\ \E s \in Leads[run[c].at][run[c].item] :
             /\ \/ Goto(c, "add")
                \/ s = run[c].source /\ Goto(c, After(c, FALSE))
             /\ Becomes(c, [run[c] EXCEPT !.at = s, !.astray = (run[c].at # run[c].source)])
  /\ UNCHANGED <<nodes, frontier, attempted, repeats, budget, excused, strayed, bogus>>

AddState(c) ==
  /\ pc[c] = "add"
  /\ AddToQueue(c, run[c].at, TRUE, run[c])
  /\ Goto(c, "register")
  /\ UNCHANGED <<recipes, transitions, attempted, repeats, deferred, budget, history>>

(* StateReplayer.register and the artifacts; recipes are ReplayRecipe's.   *)
Register(c) ==
  /\ pc[c] = "register"
  /\ recipes' = recipes \union {run[c].at}
  /\ Goto(c, "record")
  /\ UNCHANGED <<known, seen, transitions, work, run, budget, history>>

(* add_transition.                                                         *)
AddTransition(c) ==
  LET t == <<run[c].source, run[c].item, run[c].at>> IN
  /\ pc[c] = "record"
  /\ transitions' = transitions \union {t}
  /\ Becomes(c, [run[c] EXCEPT !.transitions = @ + (IF t \in transitions THEN 0 ELSE 1)])
  /\ bogus' = (bogus \/ run[c].astray)
  /\ Goto(c, After(c, TRUE))
  /\ UNCHANGED <<known, seen, recipes, work, budget, performed, excused, strayed>>

-----------------------------------------------------------------------------
(* _run_deferred_item.                                                     *)

RunDeferredItem(c) ==
  /\ pc[c] = "deferred"
  /\ Replay(c, "attempt", {}, "processed")
  /\ UNCHANGED <<nodes, work, performed, bogus>>

(* Its finally, mark_deferred_work_processed.                              *)
MarkDeferredWorkProcessed(c) ==
  /\ pc[c] = "processed"
  /\ deferred' = [deferred EXCEPT ![Item(c)] = "processed"]
  /\ Goto(c, "loop")
  /\ UNCHANGED <<nodes, frontier, attempted, repeats, run, budget, history>>

-----------------------------------------------------------------------------
(* The environment.                                                        *)

(* A crawler that holds a state or a deferred item.                        *)
Holding(c) == pc[c] \in {"replay", "explore", "attempt", "repeat", "act", "add", "register",
                         "record", "return", "explored", "deferred", "processed"}

(* The worker is killed: what was claimed stays claimed.                   *)
Kill(c) ==
  /\ pc[c] # "idle"
  /\ Disturb("kill")
  /\ Ends(c)
  /\ excused' = IF Holding(c) \/ pc[c] \in {"home", "pending"}
                  THEN excused \union {run[c].source} ELSE excused
  /\ UNCHANGED <<nodes, work, performed, strayed, bogus>>

(* An abort or a shutdown cancels the crawl task, or a statement outside   *)
(* of a sequence fails: the finally blocks settle what was claimed.        *)
Cancel(c) ==
  /\ pc[c] # "idle"
  /\ Disturb("cancel")
  /\ Ends(c)
  /\ frontier' = IF Holding(c) /\ run[c].mode = "state"
                   THEN [frontier EXCEPT ![run[c].source] = "explored"] ELSE frontier
  /\ deferred' = IF Holding(c) /\ run[c].mode = "deferred"
                   THEN [deferred EXCEPT ![Item(c)] = "processed"] ELSE deferred
  /\ excused' = IF Holding(c) \/ pc[c] \in {"home", "pending"}
                  THEN excused \union {run[c].source} ELSE excused
  /\ UNCHANGED <<nodes, attempted, repeats, performed, strayed, bogus>>

(* A statement inside a sequence fails: what it found is dropped.          *)
Fault(c) ==
  /\ pc[c] \in {"add", "register", "record"}
  /\ Disturb("fault")
  /\ Goto(c, After(c, FALSE))
  /\ Becomes(c, [run[c] EXCEPT !.at = Nowhere])
  /\ UNCHANGED <<nodes, work, history>>

-----------------------------------------------------------------------------
Slice(c) ==
  \/ SeedInitialState(c) \/ RegisterHome(c) \/ MarkStatePending(c)
  \/ ClaimNextPendingState(c) \/ NothingPending(c) \/ ClaimDeferredWork(c) \/ Yield(c)
  \/ ReplayState(c) \/ Explore(c) \/ ReplayAfterAction(c) \/ MarkStateExplored(c)
  \/ MarkActionAttempted(c) \/ TryIncrementActionRepeat(c) \/ ExecuteAction(c)
  \/ AddState(c) \/ Register(c) \/ AddTransition(c)
  \/ RunDeferredItem(c) \/ MarkDeferredWorkProcessed(c)

Failure(c) == Kill(c) \/ Cancel(c) \/ Fault(c)

Next == \E c \in Crawlers : StartSlice(c) \/ Slice(c) \/ Failure(c)

Spec == Init /\ [][Next]_vars

(* The event loop runs every slice, and as long as _should_continue_crawl  *)
(* says so there is a next slice.  A slice lasts for minutes: it does not  *)
(* happen every time that the deadline passes before anything is claimed.  *)
Continues(c) == HasPendingWork /\ WithinGraphLimits /\ StartSlice(c)

Claims(c) == ClaimNextPendingState(c) \/ NothingPending(c)

Fairness ==
  /\ \A c \in Crawlers : WF_vars(Slice(c)) /\ SF_vars(Claims(c))
  /\ WF_vars(\E c \in Crawlers : Continues(c))

FairSpec == Spec /\ Fairness

-----------------------------------------------------------------------------
TypeOK ==
  /\ known \subseteq States /\ seen \subseteq known /\ recipes \subseteq known
  /\ transitions \subseteq States \X Actions \X States
  /\ frontier \in [States -> {"none", "pending", "exploring", "explored"}]
  /\ attempted \subseteq Items
  /\ repeats \in [Urls -> [Actions -> 0 .. MaxRepeats]]
  /\ deferred \in [Items -> {"none", "pending", "processing", "processed"}]
  /\ pc \in [Crawlers -> Pc]
  /\ run \in [Crawlers -> Run]
  /\ budget \in [Disturbance -> Nat]
  /\ performed \in [Items -> Nat]
  /\ excused \subseteq States /\ strayed \in BOOLEAN /\ bogus \in BOOLEAN

(* An action is performed at most once for a state, over all slices,       *)
(* restarts and overlapping crawlers (mark_action_attempted).  Otherwise   *)
(* a crawl would submit the same form again and again.                     *)
AtMostOnce == \A i \in Items : performed[i] <= 1

(* ... and at most MaxRepeats times on one url, whatever states it shows   *)
(* (try_increment_action_repeat).                                          *)
RepeatsAreCapped ==
  \A u \in Urls, a \in Actions :
    Cardinality({s \in States : Url[s] = u /\ performed[<<s, a>>] > 0}) <= MaxRepeats

LoggingIn(c) == run[c].mode = "login" /\ pc[c] \notin {"idle", "seed", "loop"}

(* No state is lost: what the session has seen is waiting, explored, or in *)
(* the hands of a crawler.  Only the page with the login form may be left  *)
(* alone, while the login is tried or when it led somewhere.               *)
NoStateIsLost ==
  \A s \in seen \ excused :
    \/ frontier[s] \in {"pending", "explored"}
    \/ \E c \in Crawlers : Holding(c) /\ run[c].mode = "state" /\ run[c].source = s
    \/ /\ s = Home /\ Login # NoLogin /\ frontier[s] = "none"
       /\ \/ \E c \in Crawlers : LoggingIn(c)
          \/ \E s2 \in States : <<Home, Login, s2>> \in transitions

(* A state counts as explored when each of its actions was attempted or    *)
(* deferred, in whichever slices; a deadline or a pause cuts none short    *)
(* (_explore_state, whose finally marks the state in any case).            *)
ExploredThoroughly ==
  \A s \in States \ excused :
    frontier[s] = "explored" =>
      \A a \in Offered[s] : <<s, a>> \in attempted \/ deferred[<<s, a>>] # "none"

(* Deferred work is not lost either: what was claimed is in the hands of a *)
(* crawler, and what is processed was attempted.                           *)
NoDeferredIsLost ==
  \A i \in Items : i[1] \notin excused =>
    /\ deferred[i] = "processing" =>
         \E c \in Crawlers : Holding(c) /\ run[c].mode = "deferred" /\ Item(c) = i
    /\ deferred[i] = "processed" => i \in attempted

(* Whatever ends a slice, nothing that it found, claimed or put off is     *)
(* lost on the way to the next one.                                        *)
NothingIsLost == NoStateIsLost /\ ExploredThoroughly /\ NoDeferredIsLost

(* A transition is recorded for the state its action was performed in: the *)
(* browser is brought back after every action, and as long as that works   *)
(* none is attributed to a page it does not start from.                    *)
TransitionsAreReal == ~strayed => ~bogus

(* A crawl stops at its limits; only the home page and what the login      *)
(* reaches are not subject to them.  Holds for one crawler at a time: two  *)
(* do not see each other's states.                                         *)
OneAtATime == \A c, d \in Crawlers : c = d

LimitsHold ==
  OneAtATime =>
  LET unchecked == IF Login = NoLogin THEN 1 ELSE 2
      before == Cardinality(KnownBefore) + unchecked
  IN  Cardinality(known) <= IF before > MaxStates THEN before ELSE MaxStates

(* What is explored is not explored again (ADD_STATE, MARK_STATE_PENDING). *)
ExploredStays ==
  [][\A s \in States : frontier[s] = "explored" => frontier'[s] = "explored"]_frontier

(* The crawl of a finite site comes to an end: the session runs out of     *)
(* pending work or reaches a limit, and needs no further slice.            *)
CrawlIsExhausted == <>[](~HasPendingWork \/ ~WithinGraphLimits)
=============================================================================
