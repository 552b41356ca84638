----------------------------- MODULE SharedGraph -----------------------------
(***************************************************************************)
(* The state graph of an application version, which every crawl session of *)
(* that version reads and writes: how to get back to a state (its recipe:  *)
(* crawler/replay, _build_replay_info), and the transitions between the    *)
(* states (add_transition).  A statement of the graph database is one      *)
(* action, and the sessions' statements interleave as they may.            *)
(*                                                                         *)
(* The site is taken to show the same state for the same URL, and to react *)
(* to an action by the state it shows.  The frontier of a session, its     *)
(* limits, and the storage state kept next to a recipe are left out: a     *)
(* session explores any state that has a recipe.  The elements it goes     *)
(* through are those that the state showed at first; explore.py:80 reads   *)
(* them again if there were none, which is left out.                       *)
(***************************************************************************)
EXTENDS Integers, FiniteSets, Sequences

CONSTANTS
  Session,
  Hash,     \* states, by their hashes
  Url,      \* addresses, ordered as strings are
  Base,     \* where a session starts
  Load,     \* the state that an address shows when it is loaded
  Effect,   \* by state and action offered there: the state and the address
            \* it leads to, Stay if it stays at the same address
  Stay,
  None,     \* no value
  Flaky,    \* states of which a replay may fail although the recipe leads there
  Actions   \* how many actions each session performs (bounds the model)

ASSUME SharedGraphAssumption ==
  /\ Url \subseteq Nat \ {0} /\ Base \in Url /\ Load \in [Url -> Hash]
  /\ DOMAIN Effect = Hash /\ Actions \in [Session -> Nat]
  /\ None \notin Hash /\ Flaky \subseteq Hash
  /\ \A h \in Hash : \A a \in DOMAIN Effect[h] :
       /\ Effect[h][a].hash \in Hash /\ Effect[h][a].url \in Url \union {Stay}
       /\ a = [key |-> a.key, locator |-> a.locator] /\ a # None
       /\ \A g, e \in Hash : None # <<g, e, a.key>>

VARIABLES
  urls,     \* State nodes: the address each was last seen at
  recipes,  \* their recipes, of those that have one
  scores,   \* and the scores stored with them
  edges,    \* TRANSITION relationships, in the order of first_seen
  at,       \* where each session is, and its local variables
  left,     \* actions it may still perform
  \* history:
  writer,   \* the session that last improved each recipe
  raced,    \* recipes overwritten by one that had lost already
  drifted,  \* transitions that changed their key or locator
  late,     \* transitions added while another session wrote
  origin,   \* the state that the action of each was last performed in
  doubted   \* states that were given a recipe that was not sure

graph == <<urls, recipes, scores, edges>>
history == <<writer, raced, drifted, late, origin, doubted>>
vars == <<graph, at, left, history>>

-----------------------------------------------------------------------------
(* Pages, and replaying.                                                   *)

Lost == [url |-> 0, hash |-> None]

Step(page, a) ==
  IF page = Lost \/ a \notin DOMAIN Effect[page.hash] THEN Lost
  ELSE LET e == Effect[page.hash][a]
       IN  [url |-> IF e.url = Stay THEN page.url ELSE e.url, hash |-> e.hash]

Run(url, actions) ==
  LET page[i \in 0 .. Len(actions)] ==
        IF i = 0 THEN [url |-> url, hash |-> Load[url]] ELSE Step(page[i - 1], actions[i])
  IN  page[Len(actions)]

(* Where the attempts of replay_to end: at the state, or nowhere.          *)
ByCheckpoint(h, r) == Run(r.url, r.actions).hash = h
ByFallback(h, r) == r.fallbackUrl # 0 /\ Run(r.fallbackUrl, r.fallbackActions).hash = h

ReplayTo(h) ==
  LET r == recipes[h]
  IN  CASE ByCheckpoint(h, r) -> Run(r.url, r.actions)
        [] ~ByCheckpoint(h, r) /\ ByFallback(h, r) -> Run(r.fallbackUrl, r.fallbackActions)
        [] OTHER -> Lost

(* Where a replay that fails leaves the browser: on a page that one of the *)
(* attempts came to, or on none.                                           *)
Passed(h) ==
  LET r == recipes[h]
  IN  {Run(r.url, SubSeq(r.actions, 1, i)) : i \in 0 .. Len(r.actions)}
      \union (IF r.fallbackUrl = 0 THEN {}
              ELSE {Run(r.fallbackUrl, SubSeq(r.fallbackActions, 1, i)) :
                      i \in 0 .. Len(r.fallbackActions)})
      \union {Lost}

-----------------------------------------------------------------------------
(* Recipes.                                                                *)

InitialRecipe(page) ==
  [url |-> page.url, hash |-> page.hash, initial |-> TRUE, actions |-> <<>>,
   fallbackUrl |-> 0, fallbackActions |-> <<>>, sure |-> TRUE]

(* A mistake: the recipe of a page further on forgets how to get there.    *)
BuildWithoutFallback(source, info, a, page) ==
  IF page.url # info.url
  THEN [InitialRecipe(page) EXCEPT !.initial = FALSE]
  ELSE [info EXCEPT !.actions = Append(@, a), !.sure = ByCheckpoint(source, info)]

(* _build_replay_info: a change of the address makes a checkpoint of the   *)
(* state reached, with the way that led there to fall back on.  Else the   *)
(* fallback gets every action since the checkpoint, also those it has.     *)
(*                                                                         *)
(* sure is not part of the code: the recipe was built, at its source, from *)
(* one that was followed from its checkpoint, or whose fallback led to the *)
(* checkpoint.                                                             *)
BuildReplayInfo(source, info, a, page) ==
  LET actions == Append(info.actions, a)
  IN  IF page.url # info.url
      THEN [url |-> page.url, hash |-> page.hash, initial |-> FALSE, actions |-> <<>>,
            fallbackUrl |-> info.url, fallbackActions |-> actions,
            sure |-> ByCheckpoint(source, info)]
      ELSE [info EXCEPT
              !.actions = actions,
              !.fallbackActions = IF info.fallbackUrl = 0 THEN <<>> ELSE @ \o actions,
              !.sure = \/ ByCheckpoint(source, info)
                       \/ info.actions = <<>> /\ ByFallback(source, info)]

(* The offer of a session: not sure if it was not at the state any more.   *)
Offered(l, a, page) ==
  [BuildReplayInfo(l.source, l.info, a, page) EXCEPT !.sure = @ /\ l.page.hash = l.source]

(* score_for_state: smaller is better, as UPSERT_REPLAY_INFO_IF_BETTER     *)
(* compares.                                                               *)
Score(h, r) ==
  << IF r.hash = h THEN 0 ELSE 1, Len(r.actions), Len(r.fallbackActions),
     IF r.initial THEN 0 ELSE 1, r.url >>

Better(s, t) ==
  \E i \in 1 .. 5 : s[i] < t[i] /\ \A j \in 1 .. i - 1 : s[j] = t[j]

(* SET s += props, with the fallback's only if there is one.               *)
Added(h, r) ==
  IF h \in DOMAIN recipes /\ r.fallbackUrl = 0
  THEN [r EXCEPT !.fallbackUrl = recipes[h].fallbackUrl,
                 !.fallbackActions = recipes[h].fallbackActions]
  ELSE r

With(f, x, v) == [y \in DOMAIN f \union {x} |-> IF y = x THEN v ELSE f[y]]

-----------------------------------------------------------------------------
(* Transitions.  The identifier is the fingerprint of the states and the   *)
(* action's identity, which is its key.                                    *)

Id(l) == <<l.source, l.target, l.action.key>>

NewEdge(l) ==
  [id |-> Id(l), source |-> l.source, target |-> l.target,
   key |-> l.action.key, locator |-> l.action.locator]

(* SET t += props: the identifier and the ends stay.                       *)
Updated(id, l) ==
  [i \in DOMAIN edges |->
     IF edges[i].id = id
     THEN [edges[i] EXCEPT !.key = l.action.key, !.locator = l.action.locator]
     ELSE edges[i]]

(* FIND_EQUIVALENT_TRANSITION, of which the oldest is taken.               *)
Equivalent(e, l) ==
  /\ e.source = l.source /\ e.target = l.target
  /\ e.key = l.action.key \/ e.locator = l.action.locator

-----------------------------------------------------------------------------
(* What a session does.                                                    *)

Nowhere ==
  [pc |-> "idle", source |-> None, url |-> 0, info |-> None, page |-> Lost,
   from |-> None, action |-> None, target |-> None, offer |-> None,
   found |-> None, overtaken |-> FALSE, ref |-> None]

Init ==
  /\ urls = <<>> /\ recipes = <<>> /\ scores = <<>> /\ edges = <<>>
  /\ at = [s \in Session |-> [Nowhere EXCEPT !.pc = "seed"]]
  /\ left = Actions
  /\ writer = <<>> /\ raced = {} /\ drifted = {} /\ late = {}
  /\ origin = <<>> /\ doubted = {}

Becomes(s, locals) == at' = [at EXCEPT ![s] = locals]

(* The locals after a sequence, whether it came to its end or failed.      *)
Settled(l) ==
  [l EXCEPT !.pc = "again", !.from = None, !.action = None, !.target = None,
            !.offer = None, !.found = None, !.overtaken = FALSE]

(* _seed_initial_state: the first state and its recipe.                    *)
Seed(s) ==
  LET page == [url |-> Base, hash |-> Load[Base]]
  IN  /\ at[s].pc = "seed"
      /\ urls' = With(urls, page.hash, Base)
      /\ Becomes(s, [at[s] EXCEPT !.pc = "register", !.target = page.hash,
                                  !.offer = InitialRecipe(page)])
      /\ UNCHANGED <<recipes, scores, edges, left, history>>

(* _explore_state claims a state and replays it,                           *)
Explore(s, h) ==
  /\ at[s].pc = "idle" /\ left[s] > 0
  /\ h \in DOMAIN recipes /\ ReplayTo(h) # Lost
  /\ Becomes(s, [at[s] EXCEPT !.pc = "info", !.source = h, !.url = urls[h],
                              !.page = ReplayTo(h)])
  /\ UNCHANGED <<graph, left, history>>

(* and reads its recipe once more, for the whole exploration.              *)
GetInfo(s) ==
  /\ at[s].pc = "info"
  /\ Becomes(s, [at[s] EXCEPT !.pc = "explore", !.info = recipes[at[s].source]])
  /\ UNCHANGED <<graph, left, history>>

(* _execute_action_sequence up to add_to_queue.  The elements are those of *)
(* the state, but the action is performed on the page that is shown; if it *)
(* does not have the element, an exception ends the sequence.  from is not *)
(* part of the code: the state in which the action is performed.           *)
Act(s, a) ==
  LET l == at[s]
      page == Step(l.page, a)
  IN  /\ l.pc = "explore" /\ left[s] > 0 /\ a \in DOMAIN Effect[l.source]
      /\ left' = [left EXCEPT ![s] = @ - 1]
      /\ \/ /\ page = Lost
            /\ Becomes(s, [l EXCEPT !.pc = "again"]) /\ UNCHANGED urls
         \/ /\ page.hash = l.source /\ page.url = l.url
            /\ Becomes(s, [l EXCEPT !.pc = "again", !.page = page]) /\ UNCHANGED urls
         \/ /\ page # Lost /\ ~(page.hash = l.source /\ page.url = l.url)
            /\ urls' = With(urls, page.hash, page.url)
            /\ Becomes(s, [l EXCEPT !.pc = "register", !.from = l.page.hash, !.page = page,
                                    !.action = a, !.target = page.hash,
                                    !.offer = Offered(l, a, page)])
      /\ UNCHANGED <<recipes, scores, edges, history>>

Doubting(h, r) == IF r.sure THEN doubted ELSE doubted \union {h}

AfterRecipe(s) == IF at[s].action = None THEN "idle" ELSE "find"

(* A mistake: a recipe that is as good replaces the one there is.          *)
RegisterAsGood(s) ==
  LET h == at[s].target
      r == at[s].offer
  IN  /\ at[s].pc = "register"
      /\ IF h \notin DOMAIN scores \/ ~Better(scores[h], Score(h, r))
         THEN /\ recipes' = With(recipes, h, Added(h, r))
              /\ scores' = With(scores, h, Score(h, r))
              /\ writer' = With(writer, h, s) /\ raced' = raced \ {h}
              /\ doubted' = Doubting(h, r)
              /\ Becomes(s, [at[s] EXCEPT !.pc = "persist"])
         ELSE /\ Becomes(s, [at[s] EXCEPT !.pc = AfterRecipe(s)])
              /\ UNCHANGED <<recipes, scores, writer, raced, doubted>>
      /\ UNCHANGED <<urls, edges, left, drifted, late, origin>>

(* StateReplayer.register: one statement compares and sets.                *)
Register(s) ==
  LET h == at[s].target
      r == at[s].offer
  IN  /\ at[s].pc = "register"
      /\ IF h \notin DOMAIN scores \/ Better(Score(h, r), scores[h])
         THEN /\ recipes' = With(recipes, h, Added(h, r))
              /\ scores' = With(scores, h, Score(h, r))
              /\ writer' = With(writer, h, s) /\ raced' = raced \ {h}
              /\ doubted' = Doubting(h, r)
              /\ Becomes(s, [at[s] EXCEPT !.pc = "persist"])
         ELSE /\ Becomes(s, [at[s] EXCEPT !.pc = AfterRecipe(s)])
              /\ UNCHANGED <<recipes, scores, writer, raced, doubted>>
      /\ UNCHANGED <<urls, edges, left, drifted, late, origin>>

(* _persist_replay_artifacts sets the recipe again, whatever the score.    *)
Persist(s) ==
  LET h == at[s].target
  IN  /\ at[s].pc = "persist"
      /\ recipes' = [recipes EXCEPT ![h] = Added(h, at[s].offer)]
      /\ raced' = IF writer[h] = s THEN raced ELSE raced \union {h}
      /\ Becomes(s, [at[s] EXCEPT !.pc = AfterRecipe(s)])
      /\ doubted' = Doubting(h, at[s].offer)
      /\ UNCHANGED <<urls, scores, edges, left, writer, drifted, late, origin>>

(* add_transition looks for an equivalent one,                             *)
Find(s) ==
  LET found == {i \in DOMAIN edges : Equivalent(edges[i], at[s])}
      oldest == CHOOSE i \in found : \A j \in found : i <= j
  IN  /\ at[s].pc = "find"
      /\ Becomes(s, [at[s] EXCEPT !.pc = "merge", !.overtaken = FALSE,
                                  !.found = IF found = {} THEN None ELSE edges[oldest].id])
      /\ UNCHANGED <<graph, left, history>>

(* The caller's transition gets the identifier; other sessions that are    *)
(* between the two statements have been overtaken.                         *)
Return(s, id) ==
  at' = [t \in Session |->
           IF t = s
           THEN [Settled(at[s]) EXCEPT
                   !.ref = [id |-> id, source |-> at[s].source, target |-> at[s].target]]
           ELSE [at[t] EXCEPT !.overtaken = @ \/ at[t].pc = "merge"]]

(* A mistake: the caller keeps the identifier it proposed.                 *)
UpdateFoundOnly(s) ==
  LET l == at[s]
  IN  /\ l.pc = "merge" /\ l.found # None
      /\ edges' = Updated(l.found, l)
      /\ origin' = With(origin, l.found, l.from)
      /\ Return(s, Id(l))
      /\ UNCHANGED <<urls, recipes, scores, left, writer, raced, drifted, late, doubted>>

(* and updates that,                                                       *)
UpdateFound(s) ==
  LET l == at[s]
  IN  /\ l.pc = "merge" /\ l.found # None
      /\ edges' = Updated(l.found, l)
      /\ drifted' = IF edges' = edges THEN drifted ELSE drifted \union {l.found}
      /\ origin' = With(origin, l.found, l.from)
      /\ Return(s, l.found)
      /\ UNCHANGED <<urls, recipes, scores, left, writer, raced, late, doubted>>

(* or merges its own: it may have been added under that identifier before. *)
MergeOwn(s) ==
  LET l == at[s]
      known == \E i \in DOMAIN edges : edges[i].id = Id(l)
  IN  /\ l.pc = "merge" /\ l.found = None
      /\ IF known
         THEN /\ edges' = Updated(Id(l), l)
              /\ drifted' = IF edges' = edges THEN drifted ELSE drifted \union {Id(l)}
              /\ UNCHANGED late
         ELSE /\ edges' = Append(edges, NewEdge(l))
              /\ late' = IF l.overtaken THEN late \union {Id(l)} ELSE late
              /\ UNCHANGED drifted
      /\ origin' = With(origin, Id(l), l.from)
      /\ Return(s, Id(l))
      /\ UNCHANGED <<urls, recipes, scores, left, writer, raced, doubted>>

(* _replay_after_action: back to the state, by the recipe it has now.      *)
(* After the last action it makes no difference.                           *)
Again(s, page) ==
  Becomes(s, IF left[s] = 0 THEN [Nowhere EXCEPT !.ref = at[s].ref]
             ELSE [at[s] EXCEPT !.pc = "explore", !.page = page])

ReplayAgain(s) ==
  /\ at[s].pc = "again" /\ ReplayTo(at[s].source) # Lost
  /\ Again(s, ReplayTo(at[s].source))
  /\ UNCHANGED <<graph, left, history>>

(* A replay fails if the recipe does not lead to the state, or if a page   *)
(* does not load or an element does not answer.  Nothing but the sequences *)
(* of the element ends with it (explore.py:148-149): the session goes on   *)
(* with the next element of its state, on the page that the browser shows. *)
ReplayFails(s) ==
  LET h == at[s].source
  IN  /\ at[s].pc = "again"
      /\ ReplayTo(h) = Lost \/ h \in Flaky
      /\ \E page \in Passed(h) \union {at[s].page} : Again(s, page)
      /\ UNCHANGED <<graph, left, history>>

(* The state is explored: on to the next one.                              *)
Leave(s) ==
  /\ at[s].pc = "explore"
  /\ Becomes(s, [Nowhere EXCEPT !.ref = at[s].ref])
  /\ UNCHANGED <<graph, left, history>>

(* A statement fails: _execute_action_sequence gives up, and the rest of   *)
(* what it had to write is never written.  Before the first action, the    *)
(* crawl fails.                                                            *)
Fail(s) ==
  /\ at[s].pc \in {"register", "persist", "find", "merge"}
  /\ Becomes(s, IF at[s].action = None THEN [Nowhere EXCEPT !.pc = "failed"]
                ELSE Settled(at[s]))
  /\ UNCHANGED <<graph, left, history>>

Next ==
  \E s \in Session :
    \/ Seed(s) \/ GetInfo(s) \/ Register(s) \/ Persist(s) \/ Find(s)
    \/ UpdateFound(s) \/ MergeOwn(s) \/ ReplayAgain(s) \/ ReplayFails(s)
    \/ Leave(s) \/ Fail(s)
    \/ \E h \in Hash : Explore(s, h)
    \/ \E a \in UNION {DOMAIN Effect[h] : h \in Hash} : Act(s, a)

Spec == Init /\ [][Next]_vars

-----------------------------------------------------------------------------
TypeOK ==
  /\ DOMAIN recipes = DOMAIN scores /\ DOMAIN recipes = DOMAIN writer
  /\ DOMAIN recipes \subseteq DOMAIN urls /\ DOMAIN urls \subseteq Hash
  /\ \A h \in DOMAIN urls : urls[h] \in Url
  /\ \A h \in DOMAIN recipes :
       LET r == recipes[h]
       IN  /\ r.url \in Url /\ r.hash \in Hash /\ r.fallbackUrl \in Url \union {0}
           /\ r.fallbackUrl = 0 <=> r.fallbackActions = <<>>
  /\ \A i, j \in DOMAIN edges : edges[i].id = edges[j].id => i = j
  /\ \A s \in Session : left[s] \in 0 .. Actions[s]
  /\ \A s \in Session :
       at[s].page # Lost => at[s].page.url \in Url /\ at[s].page.hash \in Hash

(* A recipe leads back to its state, by the checkpoint or by the fallback, *)
(* whatever the sessions have put together of it -- except for the three   *)
(* ways to build one that does not.  From a state that only the fallback   *)
(* led to, _build_replay_info does so by a change of the address (the      *)
(* fallback of the new one starts from a checkpoint that shows something   *)
(* else), or by a second action since the checkpoint (the fallback repeats *)
(* actions); and it does so for a session that a replay left elsewhere.    *)
RecipesReplay ==
  \A h \in DOMAIN recipes :
    recipes[h].sure => ByCheckpoint(h, recipes[h]) \/ ByFallback(h, recipes[h])

(* The stored score is that of the stored recipe, so that the comparison   *)
(* keeps the better one; only a session that sets its recipe again after   *)
(* another one has improved it can separate them (sequence.py:246-248).    *)
(* The fallback's length is left out, as an older fallback is kept next to *)
(* a recipe without one.                                                   *)
ScoreDescribesRecipe ==
  \A h \in DOMAIN recipes \ raced :
    LET own == Score(h, recipes[h])
    IN  \A i \in {1, 2, 4, 5} : scores[h][i] = own[i]

(* A transition that is stored happened, whatever was updated by whom: its *)
(* action leads to its target, from its source -- or from another state, if *)
(* a replay left a session there that went on as if it were at the source. *)
(* That happens only at a source that is flaky, or that was given a recipe *)
(* once that was not sure.                                                 *)
EdgesHappened ==
  \A i \in DOMAIN edges :
    LET e == edges[i]
        a == [key |-> e.key, locator |-> e.locator]
        h == origin[e.id]
    IN  /\ a \in DOMAIN Effect[h] /\ Effect[h][a].hash = e.target
        /\ h = e.source \/ e.source \in doubted \union Flaky

(* The identifier that a session was given names the transition in the     *)
(* graph, from then on: a recorded flow refers to it.                      *)
RefsResolve ==
  \A s \in Session : at[s].ref # None =>
    \E i \in DOMAIN edges :
      /\ edges[i].id = at[s].ref.id
      /\ edges[i].source = at[s].ref.source /\ edges[i].target = at[s].ref.target

(* Between two states no action has two transitions, unless two sessions   *)
(* added theirs at once (the two statements at repository.py:245-269), or  *)
(* an update has changed the key or the locator that are compared.         *)
NoTwins ==
  \A i, j \in DOMAIN edges :
    LET e == edges[i]
        f == edges[j]
    IN  i < j /\ e.source = f.source /\ e.target = f.target
          /\ (e.key = f.key \/ e.locator = f.locator)
          => {e.id, f.id} \intersect (late \union drifted) # {}

(* Whatever sessions share and overwrite, recipes lead to their states and *)
(* are compared by what they are.                                          *)
RecipesAreGood == RecipesReplay /\ ScoreDescribesRecipe

(* Transitions are what happened, once each, and can be referred to.       *)
EdgesAreTrue == TypeOK /\ EdgesHappened /\ RefsResolve /\ NoTwins

(* If nobody raced, scores only get better, and a recipe is only replaced  *)
(* with a better score and by one that is no worse.  It need not be better *)
(* itself: a recipe without a fallback keeps that of the one it replaces.  *)
RecipesImprove ==
  [][\A h \in DOMAIN recipes \ (raced \union raced') :
       /\ ~Better(scores[h], scores'[h])
       /\ recipes'[h] # recipes[h] =>
            /\ Better(scores'[h], scores[h])
            /\ ~Better(Score(h, recipes[h]), Score(h, recipes'[h]))]_vars
=============================================================================
