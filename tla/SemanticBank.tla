---------------------------- MODULE SemanticBank ----------------------------
(***************************************************************************)
(* The bank of semantic profiles of an application version and what the    *)
(* crawl sessions of that version make of it: StateComparisonBank of       *)
(* crawler/semantic_engine/state.py over the graph database.  A session    *)
(* that meets a state compares its profile with those of the states that   *)
(* it has explored itself, and puts off the states that look like one of   *)
(* them.  Each statement of the database is an action.                     *)
(*                                                                         *)
(* How alike two profiles are is a constant: the encoder, the topic model  *)
(* and the pair classifier are numeric code and trained artifacts.         *)
(***************************************************************************)
EXTENDS Naturals, Sequences

CONSTANTS
  Session,
  State,
  Initial,     \* where the sessions start
  Links,       \* the states that are met when a state is explored
  Deferred,    \* the states that deferred work leads to
  Blank,       \* states without a usable profile
  Confidence,  \* that two profiles are equivalent, by the classifier: 0 .. Top
  Alike,       \* pairs that pass all minimums of the high similarity
  Top,         \* SEMANTIC_PRIORITY_EQUIVALENT
  Bar,         \* threshold plus uncertainty margin
  MaxSize,     \* of the bank: profiles that are compared at most
  Batch,       \* profiles read by one statement
  Failures,    \* statements that may fail (bounds the model)
  None         \* no value

ASSUME SemanticBankAssumption ==
  /\ Initial \in State /\ Blank \subseteq State /\ None \notin State
  /\ Links \in [State -> SUBSET State] /\ Deferred \subseteq State
  /\ Top \in Nat /\ Bar \in 1 .. Top /\ MaxSize \in Nat \ {0} /\ Batch \in Nat \ {0}
  /\ Confidence \in [State -> [State -> 0 .. Top]] /\ Alike \subseteq State \X State
  /\ Failures \in Nat

VARIABLES
  profiles,  \* SemanticProfile nodes, the newest first
  status,    \* StateFrontier nodes: none, pending, exploring, explored
  penalty,   \* their semantic_priority_penalty
  original,  \* their semantic_duplicate_of
  current,   \* the state that a session explores
  todo,      \* what it has still to meet there
  deferred,  \* what the deferred work of its frontier leads to
  at,        \* where its registration of a state is, and its variables
  failures,  \* statements that may still fail
  known,     \* history: what the state being registered is to be compared with
  failed     \* history: registrations that failed open

graph == <<profiles, status, penalty, original>>
session == <<current, todo, deferred>>
history == <<known, failed>>
vars == <<graph, session, at, failures, history>>

-----------------------------------------------------------------------------
Idle == [pc |-> "idle", state |-> None, skip |-> 0, seen |-> 0, best |-> None,
         confidence |-> 0, reason |-> "none"]

Reason == {"none", "already_registered", "comparison_error", "empty_or_unusable_profile",
           "confident_equivalence", "high_similarity_equivalence", "no_equivalence"}

Becomes(s, locals) == at' = [at EXCEPT ![s] = locals]

Registering(h) == [Idle EXCEPT !.pc = "get", !.state = h]

Bank == {profiles[i] : i \in DOMAIN profiles}

(* ITER_SEMANTIC_PROFILES, without SKIP and LIMIT.                         *)
Suits(s, h, k) == k # h /\ status[s][k] \in {"exploring", "explored"}

Comparable(s, h) ==
  LET list[n \in 0 .. Len(profiles)] ==
        IF n = 0 THEN <<>>
        ELSE IF Suits(s, h, profiles[n]) THEN Append(list[n - 1], profiles[n]) ELSE list[n - 1]
  IN  list[Len(profiles)]

Listed(s, h) == {Comparable(s, h)[i] : i \in DOMAIN Comparable(s, h)}

Init ==
  /\ profiles = <<>>
  /\ status = [s \in Session |-> [h \in State |-> "none"]]
  /\ penalty = [s \in Session |-> [h \in State |-> 0]]
  /\ original = [s \in Session |-> [h \in State |-> None]]
  /\ current = [s \in Session |-> None] /\ todo = [s \in Session |-> {}]
  /\ deferred = [s \in Session |-> Deferred]
  /\ at = [s \in Session |-> Registering(Initial)]
  /\ failures = Failures
  /\ known = [s \in Session |-> {}] /\ failed = [s \in Session |-> {}]

-----------------------------------------------------------------------------
(* Registering a state: _register_persisted.                               *)

Get(s) ==
  LET h == at[s].state
  IN  /\ at[s].pc = "get"
      /\ \/ /\ h \in Bank
            /\ Becomes(s, [at[s] EXCEPT !.pc = "done", !.reason = "already_registered"])
         \/ /\ h \notin Bank /\ h \in Blank
            /\ Becomes(s, [at[s] EXCEPT !.pc = "store", !.reason = "empty_or_unusable_profile"])
         \/ /\ h \notin Bank /\ h \notin Blank
            /\ Becomes(s, [at[s] EXCEPT !.pc = "page"])
      /\ known' = [known EXCEPT ![s] = Listed(s, h)]
      /\ UNCHANGED <<graph, session, failures, failed>>

(* One profile of a page is compared with the candidate.                   *)
Compare(l, k) ==
  IF l.seen >= MaxSize THEN [l EXCEPT !.seen = MaxSize + 1]
  ELSE IF Confidence[l.state][k] > l.confidence
       THEN [l EXCEPT !.seen = @ + 1, !.best = k, !.confidence = Confidence[l.state][k]]
       ELSE [l EXCEPT !.seen = @ + 1]

CompareAll(l, list, last) ==
  LET after[n \in l.skip .. last] ==
        IF n = l.skip THEN l ELSE Compare(after[n - 1], list[n])
  IN  after[last]

(* The verdict on the best match.  uncertain_comparison and novel_state    *)
(* are one reason here: nothing depends on which it is.                    *)
Verdict(l) ==
  CASE l.best # None /\ l.confidence >= Bar -> "confident_equivalence"
    [] l.best # None /\ l.confidence < Bar /\ <<l.state, l.best>> \in Alike ->
         "high_similarity_equivalence"
    [] OTHER -> "no_equivalence"

Decided(l) == [l EXCEPT !.pc = "store", !.reason = Verdict(l)]

(* The last profile of the page that starts after the first skip ones.     *)
PageEnd(list, skip) == IF skip + Batch <= Len(list) THEN skip + Batch ELSE Len(list)

(* A mistake: the first page is all there is.                              *)
FirstPage(s) ==
  LET l == at[s]
      list == Comparable(s, l.state)
  IN  /\ l.pc = "page"
      /\ Becomes(s, Decided(CompareAll(l, list, PageEnd(list, l.skip))))
      /\ UNCHANGED <<graph, session, failures, history>>

(* iter_semantic_profiles reads the next page, which is compared; the last *)
(* page, or more than MaxSize profiles, end the comparison.                *)
Page(s) ==
  LET l == at[s]
      list == Comparable(s, l.state)
      last == PageEnd(list, l.skip)
      compared == CompareAll(l, list, last)
  IN  /\ l.pc = "page"
      /\ Becomes(s, IF last < l.skip + Batch \/ compared.seen > MaxSize THEN Decided(compared)
                    ELSE [compared EXCEPT !.skip = @ + Batch])
      /\ UNCHANGED <<graph, session, failures, history>>

(* UPSERT_SEMANTIC_PROFILE: of an equivalent state as well.                *)
Store(s) ==
  LET h == at[s].state
  IN  /\ at[s].pc = "store"
      /\ profiles' = IF h \in Bank THEN profiles ELSE <<h>> \o profiles
      /\ Becomes(s, [at[s] EXCEPT !.pc = "done"])
      /\ UNCHANGED <<status, penalty, original, session, failures, history>>

(* A statement fails: SemanticEngine.register_state fails open.            *)
FailOpen(s) ==
  /\ at[s].pc \in {"get", "page", "store"} /\ failures > 0
  /\ failures' = failures - 1
  /\ Becomes(s, [Idle EXCEPT !.pc = "done", !.state = at[s].state,
                             !.reason = "comparison_error"])
  /\ failed' = [failed EXCEPT ![s] = @ \union {at[s].state}]
  /\ UNCHANGED <<graph, session, known>>

-----------------------------------------------------------------------------
(* The crawl.                                                              *)

(* The first state of a session is queued whatever the comparison says.    *)
IsFirst(s) == \A h \in State : status[s][h] = "none"

(* semantic_priority_penalty, and None if the comparison is not used.      *)
Penalty(s) ==
  IF at[s].reason = "already_registered" \/ IsFirst(s) THEN None
  ELSE IF at[s].reason \in {"confident_equivalence", "high_similarity_equivalence"} THEN Top
  ELSE at[s].confidence

(* A mistake: a state that is met again loses what was found out before.   *)
EnqueueAfresh(s) ==
  LET h == at[s].state
  IN  /\ at[s].pc = "done" /\ h # current[s]
      /\ status' = [status EXCEPT ![s][h] = IF @ = "explored" THEN @ ELSE "pending"]
      /\ penalty' = [penalty EXCEPT ![s][h] = IF Penalty(s) = None THEN 0 ELSE Penalty(s)]
      /\ original' = [original EXCEPT ![s][h] = at[s].best]
      /\ Becomes(s, Idle)
      /\ UNCHANGED <<profiles, session, failures, history>>

(* add_to_queue: ADD_STATE keeps what it is not given.                     *)
Enqueue(s) ==
  LET h == at[s].state
  IN  /\ at[s].pc = "done" /\ h # current[s]
      /\ status' = [status EXCEPT ![s][h] = IF @ = "explored" THEN @ ELSE "pending"]
      /\ penalty' = [penalty EXCEPT ![s][h] = IF Penalty(s) = None THEN @ ELSE Penalty(s)]
      /\ original' = [original EXCEPT ![s][h] =
                        IF Penalty(s) = None \/ at[s].best = None THEN @ ELSE at[s].best]
      /\ Becomes(s, Idle)
      /\ UNCHANGED <<profiles, session, failures, history>>

(* get_next_state takes the least penalty (the order among equals is left  *)
(* open here), and _explore_state registers the state first.               *)
Claim(s, h) ==
  /\ at[s].pc = "idle" /\ current[s] = None
  /\ status[s][h] = "pending"
  /\ \A k \in State : status[s][k] = "pending" => penalty[s][h] <= penalty[s][k]
  /\ status' = [status EXCEPT ![s][h] = "exploring"]
  /\ current' = [current EXCEPT ![s] = h] /\ todo' = [todo EXCEPT ![s] = Links[h]]
  /\ Becomes(s, Registering(h))
  /\ UNCHANGED <<profiles, penalty, original, deferred, failures, history>>

(* The comparison of the state explored is not used.                       *)
Explore(s) ==
  /\ at[s].pc = "done" /\ at[s].state = current[s]
  /\ Becomes(s, Idle)
  /\ UNCHANGED <<graph, session, failures, history>>

(* An action leads to another state, or fails.                             *)
Meet(s, h) ==
  /\ at[s].pc = "idle" /\ h \in todo[s]
  /\ todo' = [todo EXCEPT ![s] = @ \ {h}]
  /\ Becomes(s, Registering(h))
  /\ UNCHANGED <<graph, current, deferred, failures, history>>

(* _run_deferred_item: when nothing is pending, an action that was put off *)
(* is performed at its state, which is not explored by that.               *)
RunDeferred(s, h) ==
  /\ at[s].pc = "idle" /\ current[s] = None /\ h \in deferred[s]
  /\ \A k \in State : status[s][k] # "pending"
  /\ deferred' = [deferred EXCEPT ![s] = @ \ {h}]
  /\ Becomes(s, Registering(h))
  /\ UNCHANGED <<graph, current, todo, failures, history>>

MarkExplored(s) ==
  /\ at[s].pc = "idle" /\ current[s] # None
  /\ status' = [status EXCEPT ![s][current[s]] = "explored"]
  /\ current' = [current EXCEPT ![s] = None] /\ todo' = [todo EXCEPT ![s] = {}]
  /\ UNCHANGED <<profiles, penalty, original, deferred, at, failures, history>>

Next ==
  \E s \in Session :
    \/ Get(s) \/ Page(s) \/ Store(s) \/ FailOpen(s)
    \/ Enqueue(s) \/ Explore(s) \/ MarkExplored(s)
    \/ \E h \in State : Claim(s, h) \/ Meet(s, h) \/ RunDeferred(s, h)

Spec == Init /\ [][Next]_vars

-----------------------------------------------------------------------------
Equivalent(h, k) == Confidence[h][k] >= Bar \/ <<h, k>> \in Alike

TypeOK ==
  /\ \A i, j \in DOMAIN profiles : profiles[i] = profiles[j] => i = j
  /\ status \in [Session -> [State -> {"none", "pending", "exploring", "explored"}]]
  /\ penalty \in [Session -> [State -> 0 .. Top]]
  /\ original \in [Session -> [State -> State \union {None}]]
  /\ \A s \in Session :
       /\ at[s].reason \in Reason /\ at[s].seen \in 0 .. MaxSize + 1
       /\ at[s].best = None => at[s].confidence = 0

(* A state is put off as a duplicate only for a state that the session has *)
(* explored, or is exploring, and that it is equivalent to: the pending    *)
(* states are never put off for each other.                                *)
DuplicatesHaveOriginals ==
  \A s \in Session, h \in State :
    penalty[s][h] = Top =>
      LET k == original[s][h]
      IN  /\ k # None /\ (k = current[s] \/ status[s][k] \in {"exploring", "explored"})
          /\ Equivalent(h, k)

(* When a state is found to be new, it was compared with every state whose *)
(* profile was there when its registration began, except for those that    *)
(* are not among the newest MaxSize any more -- although the pages shift   *)
(* while they are read, as other sessions add profiles at the front.       *)
NothingIsSkipped ==
  \A s \in Session :
    at[s].pc = "done" /\ at[s].reason = "no_equivalence" =>
      LET list == Comparable(s, at[s].state)
      IN  \A k \in known[s] :
            Confidence[at[s].state][k] >= Bar =>
              \E i \in DOMAIN list : list[i] = k /\ i > MaxSize

(* The bank holds the profile of every state that a session explores, so   *)
(* that later ones are compared with it; unless its registration failed.   *)
ExploredIsComparable ==
  \A s \in Session, h \in State :
    /\ h \notin failed[s] /\ status[s][h] \in {"exploring", "explored"}
    /\ h = current[s] => at[s].pc = "idle"
    => h \in Bank

(* A verdict rests on all there is to compare with, and on nothing else:   *)
(* what is explored is in the bank, is read, and is what duplicates point  *)
(* to.                                                                     *)
VerdictsAreRight ==
  /\ TypeOK /\ DuplicatesHaveOriginals
  /\ NothingIsSkipped /\ ExploredIsComparable

(* A penalty, once given, is not lost when the state is met again, except  *)
(* when the comparison fails and the state is taken for new.               *)
PenaltyIsKept ==
  [][\A s \in Session, h \in State :
       penalty'[s][h] < penalty[s][h] => at[s].reason = "comparison_error"]_vars
=============================================================================
