---------------------------- MODULE FlowGeneration ----------------------------
(***************************************************************************)
(* How test flows are generated from the graph of a crawl: find_all_flows  *)
(* of graph/test_flow_generation, with its candidate search (stage 1), the *)
(* merging of short candidates, the prefixes that lead to them from a      *)
(* checkpoint and from the login page, the greedy selection (stage 2), and *)
(* the storing of what was selected.                                       *)
(*                                                                         *)
(* A state of the crawl is a natural number, a transition the position of  *)
(* its edge in the list that Neo4j returns.  Stage 1 lists a candidate it  *)
(* finds a second time once only: a copy gains nothing over the original.  *)
(***************************************************************************)
EXTENDS Integers, FiniteSets, SequencesExt

CONSTANTS
  Inputs,   \* graphs: [root, login, checkpoints, edges, navigates]
  Options,  \* the settings: [minStates, maxStates, threshold, minFlows, maxFlows]
  Unset,    \* None: a setting or a state that is not there
  MaxTaken  \* MAX_TF_TAKEN

(* Edges lead from a state to a state; the navigate transitions of earlier *)
(* generations are among them.                                             *)
IsGraph(g) ==
  /\ {g.root, g.login} \subseteq (Nat \ {0}) \union {Unset}
  /\ g.checkpoints \subseteq Nat \ {0} /\ IsFiniteSet(g.checkpoints)
  /\ g.edges \in Seq((Nat \ {0}) \X (Nat \ {0}))
  /\ g.navigates \subseteq DOMAIN g.edges

ASSUME GenerationAssumption ==
  /\ Unset \notin Int /\ Unset \notin [ids : Seq(Int), path : Seq(Int)]
  /\ \A g \in Inputs : IsGraph(g)
  /\ MaxTaken \in Nat \ {0}
  /\ \A o \in Options :
       /\ o.minStates \in 1 .. o.maxStates /\ o.maxStates \in Nat
       /\ o.threshold \in (0 .. 100) \union {Unset}
       /\ o.minFlows \in (1 .. MaxTaken) \union {Unset}
       /\ o.maxFlows \in (1 .. MaxTaken) \union {Unset}

VARIABLES
  graph,      \* what get_lightweight_flow_graph returned
  options,    \* the keyword arguments of find_all_flows
  phase,      \* which step of find_all_flows comes next
  starts,     \* pending_starts, a stack of edges; Unset is the root's
  flow,       \* tf, the flow that is being walked; Unset between two
  seeded,     \* seeded_transitions
  candidates, \* the candidates; in merge_short_tfs, the long ones
  short,      \* short candidates that are still to be merged
  merged,     \* what became of those that were
  queue,      \* the search for prefixes: walks from a valid start
  visited,    \* the states it has seen
  prefixes,   \* found_prefixes
  heap,       \* select_tfs: the gain each candidate in the heap is filed under
  selected,   \* positions in candidates
  stored      \* rows of test_flows

walkVars == <<starts, flow, seeded>>
mergeVars == <<short, merged>>
searchVars == <<queue, visited, prefixes>>
selectVars == <<heap, selected>>
input == <<graph, options>>
vars == <<input, phase, walkVars, candidates, mergeVars, searchVars, selectVars, stored>>

-----------------------------------------------------------------------------
Edge == DOMAIN graph.edges
Source(e) == graph.edges[e][1]
Target(e) == graph.edges[e][2]

(* A flow is the sequence of its transitions and the states it passes.     *)
Start(n) == [ids |-> <<>>, path |-> <<n>>]
Step(f, e) == [ids |-> Append(f.ids, e), path |-> Append(f.path, Target(e))]
Joined(f, g) == [ids |-> f.ids \o g.ids, path |-> Front(f.path) \o g.path]
Part(f, i, j) == [ids |-> SubSeq(f.ids, i, j - 1), path |-> SubSeq(f.path, i, j)]

(* What a list comprehension with a condition keeps, in order.             *)
Only(s, kept) ==
  LET upto[k \in 0 .. Len(s)] ==
        IF k = 0 THEN <<>>
        ELSE IF s[k] \in kept THEN Append(upto[k - 1], s[k]) ELSE upto[k - 1]
  IN  upto[Len(s)]

(* build_flow_graph: the edges that leave a state, in the list's order.    *)
Leaving(n) == {e \in Edge : Source(e) = n}
InOrder(edges) == Only([e \in Edge |-> e], edges)

Init ==
  /\ graph \in Inputs /\ options \in Options
  /\ phase = IF graph.root = Unset THEN "done" ELSE "generate"
  /\ starts = <<Unset>> /\ flow = Unset /\ seeded = {}
  /\ candidates = <<>> /\ short = <<>> /\ merged = <<>>
  /\ queue = <<>> /\ visited = {} /\ prefixes = <<>>
  /\ heap = <<>> /\ selected = <<>> /\ stored = <<>>

-----------------------------------------------------------------------------
(* Stage 1, generate_candidate_tfs: walks from the root and from every     *)
(* edge that a walk left behind.                                           *)

Add(list, f) == IF Contains(list, f) THEN list ELSE Append(list, f)
ListedOnce(flows, more) ==
  LET upto[k \in 0 .. Len(more)] == IF k = 0 THEN flows ELSE Add(upto[k - 1], more[k])
  IN  upto[Len(more)]

PopStart ==
  /\ phase = "generate" /\ flow = Unset /\ starts # <<>>
  /\ starts' = Front(starts)
  /\ LET e == Last(starts)
     IN  flow' = IF e = Unset THEN Start(graph.root) ELSE Step(Start(Source(e)), e)
  /\ UNCHANGED <<input, phase, seeded, candidates, mergeVars, searchVars, selectVars, stored>>

Here == Last(flow.path)
Returns(e) == Target(e) \in ToSet(flow.path)
Loops == LET back == InOrder({e \in Leaving(Here) : Returns(e)})
         IN  [i \in DOMAIN back |-> Step(flow, back[i])]
Forward == InOrder({e \in Leaving(Here) : ~Returns(e)})

(* A mistake: a flow that is cut is forgotten.                             *)
WalkOnForgetting ==
  /\ phase = "generate" /\ flow # Unset /\ Forward # <<>>
  /\ LET first == Head(Forward)
         spawned == InOrder(ToSet(Tail(Forward)) \ seeded)
         longer == Step(flow, first)
     IN  /\ starts' = starts \o Reverse(spawned)
         /\ seeded' = seeded \union ToSet(spawned) \union {first}
         /\ flow' = IF Len(longer.path) >= options.maxStates THEN Start(Target(first)) ELSE longer
         /\ candidates' = ListedOnce(candidates, Loops)
  /\ UNCHANGED <<input, phase, mergeVars, searchVars, selectVars, stored>>

(* The walk follows its first edge to a state it has not passed; the edges *)
(* back make a candidate each, the others are walked later.  A flow that   *)
(* is long enough is cut, and forgets what it has passed.                  *)
WalkOn ==
  /\ phase = "generate" /\ flow # Unset /\ Forward # <<>>
  /\ LET first == Head(Forward)
         spawned == InOrder(ToSet(Tail(Forward)) \ seeded)
         longer == Step(flow, first)
         full == Len(longer.path) >= options.maxStates
     IN  /\ starts' = starts \o Reverse(spawned)
         /\ seeded' = seeded \union ToSet(spawned) \union {first}
         /\ flow' = IF full THEN Start(Target(first)) ELSE longer
         /\ candidates' = ListedOnce(candidates, Loops \o (IF full THEN <<longer>> ELSE <<>>))
  /\ UNCHANGED <<input, phase, mergeVars, searchVars, selectVars, stored>>

EndWalk ==
  /\ phase = "generate" /\ flow # Unset /\ Forward = <<>>
  /\ candidates' = ListedOnce(candidates,
                              Loops \o (IF flow.ids # <<>> THEN <<flow>> ELSE <<>>))
  /\ flow' = Unset
  /\ UNCHANGED <<input, phase, starts, seeded, mergeVars, searchVars, selectVars, stored>>

LongEnough(flows) == {f \in flows : Len(f.path) >= options.minStates}

(* merge_short_tfs tells the long candidates from the short ones.          *)
GenerationEnds ==
  /\ phase = "generate" /\ flow = Unset /\ starts = <<>>
  /\ phase' = "merge"
  /\ LET all == ToSet(candidates)
     IN  /\ candidates' = Only(candidates, LongEnough(all))
         /\ short' = Only(candidates, all \ LongEnough(all))
  /\ UNCHANGED <<input, walkVars, merged, searchVars, selectVars, stored>>

-----------------------------------------------------------------------------
(* merge_short_tfs: a short candidate is continued by the rest of a long   *)
(* one from the state it ends in, or else led to by the beginning of one.  *)

Continuations(f) ==
  LongEnough(UNION {
    {Joined(f, Part(g, k, Len(g.path))) :
       k \in {k \in 1 .. Len(g.path) - 1 : g.path[k] = Last(f.path)}} : g \in ToSet(candidates)})

(* A mistake: one transition too many is kept of the beginning.            *)
BeginningsAndOne(f) ==
  LongEnough(UNION {
    {[ids |-> SubSeq(g.ids, 1, k) \o f.ids, path |-> SubSeq(g.path, 1, k) \o f.path] :
       k \in {k \in 2 .. Len(g.path) - 1 : g.path[k] = Head(f.path)}} : g \in ToSet(candidates)})

Beginnings(f) ==
  LongEnough(UNION {
    {Joined(Part(g, 1, k), f) :
       k \in {k \in 2 .. Len(g.path) : g.path[k] = Head(f.path)}} : g \in ToSet(candidates)})

(* min(valid_merges): of several shortest ones any may come first.         *)
Shortest(flows) == {f \in flows : \A g \in flows : Len(f.path) <= Len(g.path)}

Fixed(f) ==
  Shortest(IF Continuations(f) # {} THEN Continuations(f) ELSE Beginnings(f))

(* A short candidate that fits nowhere is thrown away.                     *)
MergeShort ==
  /\ phase = "merge" /\ short # <<>>
  /\ short' = Tail(short)
  /\ LET fixed == Fixed(Head(short))
     IN  IF fixed = {} THEN UNCHANGED merged
                       ELSE \E f \in fixed : merged' = Append(merged, f)
  /\ UNCHANGED <<input, phase, walkVars, candidates, searchVars, selectVars, stored>>

-----------------------------------------------------------------------------
(* append_checkpoints_to_tfs: a breadth-first search from all valid starts *)
(* at once, for the states that candidates begin with.                     *)

ValidStarts == graph.checkpoints \union {graph.root}
Targets == {Head(f.path) : f \in ToSet(candidates)} \ ValidStarts

(* The order of the starts is that of a set of strings: any.               *)
MergeEnds ==
  /\ phase = "merge" /\ short = <<>>
  /\ phase' = "prefix"
  /\ candidates' = candidates \o merged /\ merged' = <<>>
  /\ visited' = ValidStarts
  /\ \E order \in SetToSeqs(ValidStarts) : queue' = [i \in DOMAIN order |-> Start(order[i])]
  /\ UNCHANGED <<input, walkVars, short, prefixes, selectVars, stored>>

SearchIsOver == queue = <<>> \/ DOMAIN prefixes = Targets

(* The edges from the head of the queue to states that were not seen yet.  *)
Discoveries ==
  LET out == Leaving(Last(Head(queue).path))
      found == InOrder({e \in out : /\ Target(e) \notin visited
                                    /\ \A d \in out : d < e => Target(d) # Target(e)})
  IN  [i \in DOMAIN found |-> Step(Head(queue), found[i])]

Ends(walks) == {Last(w.path) : w \in ToSet(walks)}

Search ==
  /\ phase = "prefix" /\ ~SearchIsOver
  /\ queue' = Tail(queue) \o Discoveries
  /\ visited' = visited \union Ends(Discoveries)
  /\ prefixes' = [n \in DOMAIN prefixes \union (Ends(Discoveries) \intersect Targets) |->
                   IF n \in Ends(Discoveries)
                     THEN CHOOSE w \in ToSet(Discoveries) : Last(w.path) = n
                     ELSE prefixes[n]]
  /\ UNCHANGED <<input, phase, walkVars, candidates, mergeVars, selectVars, stored>>

WithPrefix(f) ==
  IF Head(f.path) \in DOMAIN prefixes THEN Joined(prefixes[Head(f.path)], f) ELSE f

AppendCheckpoints ==
  /\ phase = "prefix" /\ SearchIsOver
  /\ phase' = "login"
  /\ candidates' = [i \in DOMAIN candidates |-> WithPrefix(candidates[i])]
  /\ UNCHANGED <<input, walkVars, mergeVars, searchVars, selectVars, stored>>

-----------------------------------------------------------------------------
(* append_login_to_tfs: a navigate transition from the login page to the   *)
(* start of every other candidate, which add_transition puts into the      *)
(* graph, or finds there from an earlier generation.  A new one has the    *)
(* number of its target, negated.                                          *)
Navigate(n) ==
  LET known == {e \in graph.navigates : Source(e) = graph.login /\ Target(e) = n}
  IN  IF known = {} THEN -n ELSE CHOOSE e \in known : TRUE

WithLogin(f) ==
  IF graph.login = Unset \/ Head(f.path) = graph.login THEN f
  ELSE Joined([ids |-> <<Navigate(Head(f.path))>>, path |-> <<graph.login, Head(f.path)>>], f)

(* The candidates of at least minStates transitions go into the heap.      *)
AppendLogin ==
  /\ phase = "login"
  /\ phase' = "select"
  /\ candidates' = [i \in DOMAIN candidates |-> WithLogin(candidates[i])]
  /\ heap' = [i \in {i \in DOMAIN candidates' : Len(candidates'[i].ids) >= options.minStates} |->
               Cardinality(ToSet(candidates'[i].ids))]
  /\ UNCHANGED <<input, walkVars, mergeVars, searchVars, selected, stored>>

-----------------------------------------------------------------------------
(* Stage 2, select_tfs: a greedy choice over a heap whose entries are      *)
(* brought up to date only when they come to its top.                      *)

Chosen == {candidates[i] : i \in ToSet(selected)}
Union(flows) == UNION {ToSet(f.ids) : f \in flows}
Gain(i) == Cardinality(ToSet(candidates[i].ids) \ Union(Chosen))

Top == CHOOSE i \in DOMAIN heap :
         \A j \in DOMAIN heap : heap[i] > heap[j] \/ (heap[i] = heap[j] /\ i <= j)

AtLeast(n) == options.minFlows # Unset => n >= options.minFlows
MaxFlows ==
  IF options.maxFlows # Unset /\ options.maxFlows < MaxTaken THEN options.maxFlows ELSE MaxTaken

(* Is coverage, the navigate transitions included, at the threshold?       *)
Converged(flows) ==
  100 * Cardinality(Union(flows)) >= options.threshold * Len(graph.edges)

Enough(n, flows) ==
  \/ n >= MaxFlows
  \/ /\ AtLeast(n)
     /\ IF options.threshold # Unset THEN Converged(flows) ELSE options.minFlows # Unset

(* A mistake: a candidate that gains less is put back as it was.           *)
PopStaleInVain ==
  /\ phase = "select" /\ heap # <<>> /\ Gain(Top) # heap[Top]
  /\ UNCHANGED vars

PopStale ==
  /\ phase = "select" /\ heap # <<>> /\ Gain(Top) # heap[Top]
  /\ heap' = [heap EXCEPT ![Top] = Gain(Top)]
  /\ UNCHANGED <<input, phase, walkVars, candidates, mergeVars, searchVars, selected, stored>>

SelectionEnds ==
  /\ phase = "select"
  /\ \/ heap = <<>>
     \/ heap # <<>> /\ heap[Top] = 0 /\ Gain(Top) = 0 /\ AtLeast(Len(selected))
  /\ phase' = "store"
  /\ UNCHANGED <<input, walkVars, candidates, mergeVars, searchVars, selectVars, stored>>

(* A mistake: the gain under which a candidate was filed is believed.      *)
SelectTopBlindly ==
  /\ phase = "select" /\ heap # <<>>
  /\ heap[Top] = 0 => ~AtLeast(Len(selected))
  /\ selected' = Append(selected, Top)
  /\ heap' = [i \in DOMAIN heap \ {Top} |-> heap[i]]
  /\ phase' = IF Enough(Len(selected'), Chosen \union {candidates[Top]}) THEN "store" ELSE "select"
  /\ UNCHANGED <<input, walkVars, candidates, mergeVars, searchVars, stored>>

SelectTop ==
  /\ phase = "select" /\ heap # <<>> /\ Gain(Top) = heap[Top]
  /\ heap[Top] = 0 => ~AtLeast(Len(selected))
  /\ selected' = Append(selected, Top)
  /\ heap' = [i \in DOMAIN heap \ {Top} |-> heap[i]]
  /\ phase' = IF Enough(Len(selected'), Chosen \union {candidates[Top]}) THEN "store" ELSE "select"
  /\ UNCHANGED <<input, walkVars, candidates, mergeVars, searchVars, stored>>

(* get_payload and process_incoming_flow_payload: all rows in one commit.  *)
Store ==
  /\ phase = "store"
  /\ phase' = "done"
  /\ LET Row(i) == [checkpoint |-> Head(candidates[i].path), ids |-> candidates[i].ids]
     IN  stored' = [k \in DOMAIN selected |-> Row(selected[k])]
  /\ UNCHANGED <<input, walkVars, candidates, mergeVars, searchVars, selectVars>>

-----------------------------------------------------------------------------
Next ==
  \/ PopStart \/ WalkOn \/ EndWalk \/ GenerationEnds
  \/ MergeShort \/ MergeEnds
  \/ Search \/ AppendCheckpoints \/ AppendLogin
  \/ PopStale \/ SelectionEnds \/ SelectTop \/ Store

(* One coroutine, which nothing interrupts for good.                       *)
Spec == Init /\ [][Next]_vars /\ WF_vars(Next)

-----------------------------------------------------------------------------
(* Reference definitions: the states that can be reached from some in at   *)
(* most k steps, and in any number of steps.                               *)
State == graph.checkpoints \union {Source(e) : e \in Edge} \union {Target(e) : e \in Edge}
         \union ({graph.root} \ {Unset})

OneMore(states) == states \union {Target(e) : e \in {e \in Edge : Source(e) \in states}}
Within(from, k) ==
  LET upto[i \in 0 .. k] == IF i = 0 THEN from ELSE OneMore(upto[i - 1])
  IN  upto[k]

Reachable(n) == Within({n}, Cardinality(State))
ReachableEdges == {e \in Edge : Source(e) \in Reachable(graph.root)}
Acyclic == \A e \in Edge : Source(e) \notin Reachable(Target(e))

(* The two ends of a transition, navigate transitions included.            *)
From(id) == IF id > 0 THEN Source(id) ELSE graph.login
To(id) == IF id > 0 THEN Target(id) ELSE -id

Eligible == {i \in DOMAIN candidates : Len(candidates[i].ids) >= options.minStates}
Left == Eligible \ ToSet(selected)

IsFlow(f) ==
  /\ f.path # <<>> /\ Len(f.path) = Len(f.ids) + 1
  /\ \A i \in DOMAIN f.ids : f.ids[i] \in Int \ {0}
  /\ ToSet(f.path) \subseteq State \union {graph.login}

TypeOK ==
  /\ phase \in {"generate", "merge", "prefix", "login", "select", "store", "done"}
  /\ ToSet(starts) \subseteq Edge \union {Unset} /\ seeded \subseteq Edge
  /\ flow # Unset => IsFlow(flow)
  /\ \A f \in ToSet(candidates) \union ToSet(short) \union ToSet(merged) : IsFlow(f)
  /\ \A w \in ToSet(queue) \union {prefixes[n] : n \in DOMAIN prefixes} : IsFlow(w)
  /\ visited \subseteq State /\ DOMAIN prefixes \subseteq State
  /\ DOMAIN heap \subseteq DOMAIN candidates /\ \A i \in DOMAIN heap : heap[i] \in Nat
  /\ ToSet(selected) \subseteq DOMAIN candidates
  /\ \A r \in ToSet(stored) : r.ids \in Seq(Int)

(* Stage 1 misses nothing that the root leads to: a walk passes over an    *)
(* edge only if another walk has taken or will take it.  The code can only *)
(* log the contrary (_assert_full_coverage).                               *)
NothingIsMissed ==
  phase = "generate" /\ flow = Unset /\ starts = <<>> =>
    ReachableEdges \subseteq UNION {ToSet(f.ids) : f \in ToSet(candidates)}

(* A prefix is a shortest way from a checkpoint or the root, although the  *)
(* search starts from all of them at once, in any order, and stops early.  *)
PrefixIsShortest ==
  \A n \in DOMAIN prefixes :
    /\ Head(prefixes[n].path) \in ValidStarts /\ Last(prefixes[n].path) = n
    /\ n \notin Within(ValidStarts, Len(prefixes[n].ids) - 1)

(* A stored flow can be replayed: its transitions follow one another, from *)
(* a checkpoint that it is possible to begin at, however often it was cut, *)
(* merged, and prefixed before (get_payload keeps no path).                *)
StoredIsReplayable ==
  \A r \in ToSet(stored) :
    /\ r.ids # <<>> /\ From(Head(r.ids)) = r.checkpoint
    /\ \A i \in 1 .. Len(r.ids) - 1 : To(r.ids[i]) = From(r.ids[i + 1])
    /\ r.checkpoint \in (IF graph.login = Unset THEN ValidStarts ELSE {graph.login})
    /\ r.checkpoint = graph.login => \A i \in 2 .. Len(r.ids) : r.ids[i] > 0

(* The selection stops only for a reason: the greatest number of flows, no *)
(* candidate left, or the least number and then the threshold, or nothing  *)
(* to gain from any other candidate.                                       *)
StopsForAReason ==
  phase \in {"store", "done"} =>
    /\ Len(selected) <= MaxFlows
    /\ \/ Len(selected) = MaxFlows
       \/ Left = {}
       \/ /\ AtLeast(Len(selected))
          /\ \/ IF options.threshold # Unset THEN Converged(Chosen)
                                            ELSE options.minFlows # Unset
             \/ \A i \in Left : Gain(i) = 0

(* From end to end: without a limit, or with a threshold of 100 % and no   *)
(* login, the stored flows take every transition the root leads to.  The   *)
(* navigate transitions of a login count as covered, but not as part of    *)
(* the graph (stage 2, line 67), so that the threshold may be met early.   *)
CoverageIsComplete ==
  /\ phase = "done" /\ graph.root # Unset
  /\ options.minStates = 1 /\ Len(selected) < MaxFlows
  /\ \/ options.threshold = Unset /\ options.minFlows = Unset
     \/ options.threshold = 100 /\ graph.login = Unset
  => ReachableEdges \subseteq UNION {ToSet(r.ids) : r \in ToSet(stored)}

(* Nothing goes missing between the graph and the rows but what a limit    *)
(* or a threshold asks for.                                                *)
FlowsCover == NothingIsMissed /\ CoverageIsComplete /\ StopsForAReason

(* Flows are ways through the graph, from the candidates to the rows, and  *)
(* begin as near as possible to what they test.                            *)
FlowsReplay == TypeOK /\ PrefixIsShortest /\ StoredIsReplayable

(* Whatever is selected gains as much as any other candidate would, though *)
(* the heap is out of date after every choice.                             *)
SelectionIsGreedy ==
  [][Len(selected') > Len(selected) => \A i \in Left : Gain(i) <= Gain(Last(selected'))]_vars

(* Generation ends if no flow is ever cut, or the graph has no cycle.      *)
WithoutCutsItEnds ==
  (options.maxStates > Cardinality(State) \/ Acyclic) ~> phase = "done"

(* Generation ends and returns what it found ("generate candidate flows,   *)
(* and select optimal subset", test_flow_gen.py:24).                       *)
GenerationEndsAlways == <>(phase = "done")
=============================================================================
