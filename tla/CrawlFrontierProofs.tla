------------------------- MODULE CrawlFrontierProofs -------------------------
(***************************************************************************)
(* Theorems about CrawlFrontier, for every finite site, every number of    *)
(* crawlers, every limit and every budget of disturbances: its types, and  *)
(* what rests on them: what is explored stays explored, no action is       *)
(* performed twice for a state, the repeat cap holds, no transition starts *)
(* from the wrong page, and nothing that was found, claimed or put off is  *)
(* lost.                                                                   *)
(*                                                                         *)
(* The last theorem is about PageExploration, where what a site offers is  *)
(* what ActionPlanning plans for its pages: a page is explored as far as   *)
(* the limits allow, and no further.  It comes in three parts, on limits,  *)
(* on forms and on plans; it alone uses the assumptions on pages.          *)
(***************************************************************************)
EXTENDS PageExploration, FiniteSetTheorems, FunctionTheorems, TLAPS

(* What TypeOK needs to be inductive: at each control point the locals     *)
(* that are about to be used have been set.                                *)
Fits(label, r, nodesKnown) ==
  /\ label \in {"attempt", "repeat", "act", "add", "register", "record", "deferred"}
       => r.item \in Actions
  /\ label = "add" => r.at \in States
  /\ label \in {"register", "record"} => r.at \in nodesKnown
  /\ label = "home" => Home \in nodesKnown
  /\ label = "pending" => Home \in States

LocalsFit == \A c \in Crawlers : Fits(pc[c], run[c], known)

Typed == TypeOK /\ LocalsFit

-----------------------------------------------------------------------------
LEMMA IdleType == Idle \in Run
  BY SiteAssumption DEF Idle, Run, Mode, SiteAssumption

LEMMA FreshType ==
  ASSUME TypeOK, NEW c \in Crawlers
  PROVE  Fresh(c) \in Run
<1>1. run[c] \in Run
  BY DEF TypeOK
<1> QED
  BY <1>1, IdleType DEF Fresh, Run, Idle

LEMMA CountsAreNat ==
  TypeOK => Cardinality(known) \in Nat /\ Cardinality(transitions) \in Nat
<1> SUFFICES ASSUME TypeOK
    PROVE Cardinality(known) \in Nat /\ Cardinality(transitions) \in Nat
  OBVIOUS
<1>1. IsFiniteSet(States) /\ IsFiniteSet(Actions)
  BY SiteAssumption DEF SiteAssumption
<1>2. IsFiniteSet(States \X Actions \X States)
  <2>1. IsFiniteSet((States \X Actions) \X States)
    BY <1>1, FS_Product
  <2> DEFINE f == [t \in (States \X Actions) \X States |-> <<t[1][1], t[1][2], t[2]>>]
  <2>2. f \in Surjection((States \X Actions) \X States, States \X Actions \X States)
    <3>1. \A t \in (States \X Actions) \X States : f[t] \in States \X Actions \X States
      OBVIOUS
    <3>2. ASSUME NEW u \in States \X Actions \X States
          PROVE  \E t \in (States \X Actions) \X States : f[t] = u
      <4>1. <<<<u[1], u[2]>>, u[3]>> \in (States \X Actions) \X States
        OBVIOUS
      <4>2. f[<<<<u[1], u[2]>>, u[3]>>] = u
        BY <4>1
      <4> QED
        BY <4>1, <4>2
    <3> QED
      BY <3>1, <3>2 DEF Surjection
  <2> QED
    BY <2>1, <2>2, FS_Surjection
<1> QED
  BY <1>1, <1>2, FS_Subset, FS_CardinalityType DEF TypeOK

(* One crawler moves, the others stay where they are.                      *)
LEMMA OneMoves ==
  ASSUME Typed, NEW c \in Crawlers, NEW label \in Pc, NEW locals \in Run,
         Goto(c, label), Becomes(c, locals),
         known \subseteq known', Fits(label, locals, known')
  PROVE  pc' \in [Crawlers -> Pc] /\ run' \in [Crawlers -> Run] /\ LocalsFit'
<1>1. pc' \in [Crawlers -> Pc] /\ run' \in [Crawlers -> Run]
  BY DEF Typed, TypeOK, Goto, Becomes
<1>2. ASSUME NEW d \in Crawlers
      PROVE  Fits(pc'[d], run'[d], known')
  <2>1. CASE d = c
    BY <2>1 DEF Typed, TypeOK, Goto, Becomes
  <2>2. CASE d # c
    <3>1. pc'[d] = pc[d] /\ run'[d] = run[d] /\ Fits(pc[d], run[d], known)
      BY <2>2 DEF Typed, TypeOK, LocalsFit, Goto, Becomes
    <3> QED
      BY <3>1 DEF Fits
  <2> QED
    BY <2>1, <2>2
<1> QED
  BY <1>1, <1>2 DEF LocalsFit

(* ... to another control point, with the locals it had.                   *)
LEMMA OneGoes ==
  ASSUME Typed, NEW c \in Crawlers, NEW label \in Pc,
         Goto(c, label), UNCHANGED run,
         known \subseteq known', Fits(label, run[c], known')
  PROVE  pc' \in [Crawlers -> Pc] /\ run' \in [Crawlers -> Run] /\ LocalsFit'
<1>1. run[c] \in Run /\ Becomes(c, run[c])
  BY DEF Typed, TypeOK, Becomes
<1> QED
  BY <1>1, OneMoves

(* ... or it ends.                                                         *)
LEMMA OneEnds ==
  ASSUME Typed, NEW c \in Crawlers, Ends(c), known \subseteq known'
  PROVE  pc' \in [Crawlers -> Pc] /\ run' \in [Crawlers -> Run] /\ LocalsFit'
<1>1. "idle" \in Pc /\ Fits("idle", Idle, known')
  BY DEF Pc, Fits
<1> QED
  BY <1>1, IdleType, OneMoves DEF Ends

LEMMA DisturbType ==
  ASSUME TypeOK, NEW d \in Disturbance, Disturb(d)
  PROVE  budget' \in [Disturbance -> Nat]
  BY DEF TypeOK, Disturb

LEMMA EnqueuedType ==
  ASSUME TypeOK, NEW s \in States
  PROVE  Enqueued(frontier, s) \in [States -> {"none", "pending", "exploring", "explored"}]
  BY DEF TypeOK, Enqueued

LEMMA WithDeferredType ==
  ASSUME TypeOK, NEW items
  PROVE  WithDeferred(deferred, items) \in [Items -> {"none", "pending", "processing", "processed"}]
  BY DEF TypeOK, WithDeferred

(* Where a sequence returns to is a control point that needs no locals.    *)
LEMMA AfterType ==
  ASSUME TypeOK, NEW c \in Crawlers, NEW b \in BOOLEAN
  PROVE  After(c, b) \in {"return", "processed", "loop", "pending"}
  BY DEF TypeOK, Run, Mode, After

LEMMA AfterFits ==
  ASSUME NEW label \in {"return", "processed", "loop", "pending"}, NEW r, NEW k
  PROVE  label \in Pc /\ Fits(label, r, k)
  BY SiteAssumption DEF Pc, Fits, SiteAssumption

LEMMA InitTyped == Init => Typed
<1> SUFFICES ASSUME Init PROVE Typed
  OBVIOUS
<1>1. pc \in [Crawlers -> Pc] /\ run \in [Crawlers -> Run]
  BY IdleType DEF Init, Pc
<1>2. repeats \in [Urls -> [Actions -> 0 .. MaxRepeats]]
  BY SiteAssumption DEF Init, SiteAssumption
<1>3. known \subseteq States /\ seen \subseteq known /\ recipes \subseteq known
  BY SiteAssumption DEF Init, SiteAssumption
<1>4. frontier \in [States -> {"none", "pending", "exploring", "explored"}]
  BY DEF Init
<1>5. deferred \in [Items -> {"none", "pending", "processing", "processed"}]
      /\ performed \in [Items -> Nat]
  BY DEF Init
<1>6. budget \in [Disturbance -> Nat]
  BY SiteAssumption DEF Init, SiteAssumption
<1>7. LocalsFit
  BY DEF Init, LocalsFit, Fits
<1> QED
  BY <1>1, <1>2, <1>3, <1>4, <1>5, <1>6, <1>7 DEF Typed, TypeOK, Init

-----------------------------------------------------------------------------
(* The steps keep the types.                                               *)

LEMMA AddToQueueType ==
  ASSUME Typed, NEW c \in Crawlers, NEW s \in States, NEW enqueue \in BOOLEAN, NEW r \in Run,
         AddToQueue(c, s, enqueue, r)
  PROVE  /\ known' \subseteq States /\ seen' \subseteq known'
         /\ known \subseteq known' /\ s \in known'
         /\ frontier' \in [States -> {"none", "pending", "exploring", "explored"}]
         /\ \E n \in Nat : /\ [r EXCEPT !.states = n] \in Run
                           /\ Becomes(c, [r EXCEPT !.states = n])
<1>1. known' \subseteq States /\ seen' \subseteq known' /\ known \subseteq known' /\ s \in known'
  BY DEF Typed, TypeOK, AddToQueue
<1>2. frontier' \in [States -> {"none", "pending", "exploring", "explored"}]
  BY EnqueuedType DEF Typed, TypeOK, AddToQueue
<1>3. r.states + (IF s \in known THEN 0 ELSE 1) \in Nat
  BY DEF Run
<1>4. ASSUME NEW n \in Nat
      PROVE  [r EXCEPT !.states = n] \in Run
  BY <1>4 DEF Run
<1> QED
  BY <1>1, <1>2, <1>3, <1>4 DEF AddToQueue

LEMMA SeedType ==
  ASSUME Typed, NEW c \in Crawlers,
         StartSlice(c) \/ SeedInitialState(c) \/ RegisterHome(c) \/ MarkStatePending(c)
  PROVE  Typed'
<1> USE DEF nodes, work, history
<1>r. run[c] \in Run
  BY DEF Typed, TypeOK
<1>h. Home \in States
  BY SiteAssumption DEF SiteAssumption
<1>1. CASE StartSlice(c)
  <2> DEFINE r == [Idle EXCEPT !.states = Cardinality(known),
                               !.transitions = Cardinality(transitions)]
  <2>1. r \in Run
    BY IdleType, CountsAreNat DEF Typed, Run, Idle
  <2>2. Goto(c, "seed") /\ Becomes(c, r) /\ known \subseteq known'
    BY <1>1 DEF StartSlice
  <2>3. "seed" \in Pc /\ Fits("seed", r, known')
    BY DEF Pc, Fits
  <2>4. pc' \in [Crawlers -> Pc] /\ run' \in [Crawlers -> Run] /\ LocalsFit'
    BY <2>1, <2>2, <2>3, OneMoves
  <2> QED
    BY <1>1, <2>4 DEF Typed, TypeOK, StartSlice
<1>2. CASE SeedInitialState(c)
  <2> DEFINE r == [run[c] EXCEPT !.at = Home]
  <2>1. r \in Run
    BY <1>r, <1>h DEF Run
  <2>2. (Login = NoLogin) \in BOOLEAN
    OBVIOUS
  <2>3. AddToQueue(c, Home, Login = NoLogin, r)
    BY <1>2 DEF SeedInitialState
  <2>4. /\ known' \subseteq States /\ seen' \subseteq known'
        /\ known \subseteq known' /\ Home \in known'
        /\ frontier' \in [States -> {"none", "pending", "exploring", "explored"}]
        /\ \E n \in Nat : /\ [r EXCEPT !.states = n] \in Run
                          /\ Becomes(c, [r EXCEPT !.states = n])
    BY <1>h, <2>1, <2>2, <2>3, AddToQueueType
  <2>5. PICK n \in Nat : [r EXCEPT !.states = n] \in Run /\ Becomes(c, [r EXCEPT !.states = n])
    BY <2>4
  <2>6. Goto(c, "home") /\ "home" \in Pc
    BY <1>2 DEF SeedInitialState, Pc
  <2>7. Fits("home", [r EXCEPT !.states = n], known')
    BY <2>4 DEF Fits
  <2>8. pc' \in [Crawlers -> Pc] /\ run' \in [Crawlers -> Run] /\ LocalsFit'
    BY <2>4, <2>5, <2>6, <2>7, OneMoves
  <2> QED
    BY <1>2, <2>4, <2>8 DEF Typed, TypeOK, SeedInitialState
<1>3. CASE RegisterHome(c)
  <2>1. recipes' \subseteq known'
    BY <1>3 DEF RegisterHome, Typed, TypeOK, LocalsFit, Fits
  <2>2. pc' \in [Crawlers -> Pc] /\ run' \in [Crawlers -> Run] /\ LocalsFit'
    <3>1. CASE Login = NoLogin
      <4>1. Goto(c, "loop") /\ UNCHANGED run /\ known \subseteq known'
        BY <1>3, <3>1 DEF RegisterHome
      <4>2. "loop" \in Pc /\ Fits("loop", run[c], known')
        BY DEF Pc, Fits
      <4> QED
        BY <4>1, <4>2, OneGoes
    <3>2. CASE Login # NoLogin
      <4> DEFINE r == [run[c] EXCEPT !.item = Login]
      <4>1. Goto(c, "attempt") /\ Becomes(c, r) /\ known \subseteq known'
        BY <1>3, <3>2 DEF RegisterHome
      <4>2. r \in Run /\ r.item \in Actions
        BY <1>r, <3>2, SiteAssumption DEF Run, SiteAssumption
      <4>3. "attempt" \in Pc /\ Fits("attempt", r, known')
        BY <4>2 DEF Pc, Fits
      <4> QED
        BY <4>1, <4>2, <4>3, OneMoves
    <3> QED
      BY <3>1, <3>2
  <2> QED
    BY <1>3, <2>1, <2>2 DEF Typed, TypeOK, RegisterHome
<1>4. CASE MarkStatePending(c)
  <2>1. Goto(c, "loop") /\ UNCHANGED run /\ known \subseteq known'
    BY <1>4 DEF MarkStatePending
  <2>2. "loop" \in Pc /\ Fits("loop", run[c], known')
    BY DEF Pc, Fits
  <2>3. pc' \in [Crawlers -> Pc] /\ run' \in [Crawlers -> Run] /\ LocalsFit'
    BY <2>1, <2>2, OneGoes
  <2>4. frontier' \in [States -> {"none", "pending", "exploring", "explored"}]
    BY <1>4, <1>h, EnqueuedType DEF MarkStatePending, Typed
  <2> QED
    BY <1>4, <2>3, <2>4 DEF Typed, TypeOK, MarkStatePending
<1> QED
  BY <1>1, <1>2, <1>3, <1>4

LEMMA LoopType ==
  ASSUME Typed, NEW c \in Crawlers,
         ClaimNextPendingState(c) \/ NothingPending(c) \/ ClaimDeferredWork(c) \/ Yield(c)
  PROVE  Typed'
<1> USE DEF nodes, work, history
<1>f. Fresh(c) \in Run
  BY FreshType DEF Typed
<1>p. {"replay", "deferredClaim", "deferred"} \subseteq Pc
  BY DEF Pc
<1>1. CASE ClaimNextPendingState(c)
  <2>1. PICK s \in States :
          /\ frontier' = [frontier EXCEPT ![s] = "exploring"]
          /\ Becomes(c, [Fresh(c) EXCEPT !.mode = "state", !.source = s])
    BY <1>1 DEF ClaimNextPendingState
  <2> DEFINE r == [Fresh(c) EXCEPT !.mode = "state", !.source = s]
  <2>2. r \in Run
    BY <1>f DEF Run, Mode
  <2>3. Fits("replay", r, known')
    BY DEF Fits
  <2>4. Goto(c, "replay") /\ known \subseteq known'
    BY <1>1 DEF ClaimNextPendingState
  <2>5. pc' \in [Crawlers -> Pc] /\ run' \in [Crawlers -> Run] /\ LocalsFit'
    BY <1>p, <2>1, <2>2, <2>3, <2>4, OneMoves
  <2>6. frontier' \in [States -> {"none", "pending", "exploring", "explored"}]
    BY <2>1 DEF Typed, TypeOK
  <2> QED
    BY <1>1, <2>5, <2>6 DEF Typed, TypeOK, ClaimNextPendingState
<1>2. CASE NothingPending(c)
  <2>1. pc' \in [Crawlers -> Pc] /\ run' \in [Crawlers -> Run] /\ LocalsFit'
    <3>1. CASE Goto(c, "deferredClaim") /\ UNCHANGED run
      <4>1. Fits("deferredClaim", run[c], known') /\ known \subseteq known'
        BY <1>2 DEF Fits, NothingPending
      <4> QED
        BY <1>p, <3>1, <4>1, OneGoes
    <3>2. CASE Ends(c)
      BY <1>2, <3>2, OneEnds DEF NothingPending
    <3> QED
      BY <1>2, <3>1, <3>2 DEF NothingPending
  <2> QED
    BY <1>2, <2>1 DEF Typed, TypeOK, NothingPending
<1>3. CASE ClaimDeferredWork(c)
  <2>1. /\ pc' \in [Crawlers -> Pc] /\ run' \in [Crawlers -> Run] /\ LocalsFit'
        /\ deferred' \in [Items -> {"none", "pending", "processing", "processed"}]
    <3>1. ASSUME NEW i \in Items,
                 deferred' = [deferred EXCEPT ![i] = "processing"],
                 Becomes(c, [Fresh(c) EXCEPT !.mode = "deferred", !.source = i[1], !.item = i[2]]),
                 Goto(c, "deferred")
          PROVE  /\ pc' \in [Crawlers -> Pc] /\ run' \in [Crawlers -> Run] /\ LocalsFit'
                 /\ deferred' \in [Items -> {"none", "pending", "processing", "processed"}]
      <4> DEFINE r == [Fresh(c) EXCEPT !.mode = "deferred", !.source = i[1], !.item = i[2]]
      <4>1. r \in Run /\ r.item \in Actions
        BY <1>f DEF Run, Mode, Items
      <4>2. Fits("deferred", r, known') /\ known \subseteq known'
        BY <1>3, <4>1 DEF Fits, ClaimDeferredWork
      <4>3. deferred' \in [Items -> {"none", "pending", "processing", "processed"}]
        BY <3>1 DEF Typed, TypeOK
      <4> QED
        BY <1>p, <3>1, <4>1, <4>2, <4>3, OneMoves
    <3>2. CASE Ends(c) /\ UNCHANGED deferred
      BY <1>3, <3>2, OneEnds DEF ClaimDeferredWork, Typed, TypeOK
    <3> QED
      BY <1>3, <3>1, <3>2 DEF ClaimDeferredWork
  <2> QED
    BY <1>3, <2>1 DEF Typed, TypeOK, ClaimDeferredWork
<1>4. CASE Yield(c)
  <2>1. pc' \in [Crawlers -> Pc] /\ run' \in [Crawlers -> Run] /\ LocalsFit'
    BY <1>4, OneEnds DEF Yield
  <2> QED
    BY <1>4, <2>1 DEF Typed, TypeOK, Yield
<1> QED
  BY <1>1, <1>2, <1>3, <1>4

(* A replay leads to one of its two control points, neither of which needs *)
(* locals, except that a deferred item has its action.                     *)
LEMMA ReplayType ==
  ASSUME Typed, NEW c \in Crawlers, NEW label \in Pc, NEW elsewhere \in Pc,
         NEW todo \in SUBSET Actions,
         known \subseteq known', Replay(c, label, todo, elsewhere),
         label \in {"explore", "attempt"}, elsewhere \in {"explore", "explored", "processed"},
         label = "attempt" => run[c].item \in Actions
  PROVE  /\ pc' \in [Crawlers -> Pc] /\ run' \in [Crawlers -> Run] /\ LocalsFit'
         /\ budget' \in [Disturbance -> Nat]
         /\ excused' \subseteq States /\ strayed' \in BOOLEAN
<1>r. run[c] \in Run
  BY DEF Typed, TypeOK
<1>1. CASE /\ Goto(c, label)
           /\ Becomes(c, [run[c] EXCEPT !.at = run[c].source, !.todo = todo])
           /\ UNCHANGED <<budget, excused, strayed>>
  <2> DEFINE r == [run[c] EXCEPT !.at = run[c].source, !.todo = todo]
  <2>1. r \in Run /\ r.item = run[c].item
    BY <1>r DEF Run
  <2>2. Fits(label, r, known')
    BY <2>1 DEF Fits
  <2>3. pc' \in [Crawlers -> Pc] /\ run' \in [Crawlers -> Run] /\ LocalsFit'
    BY <1>1, <2>1, <2>2, OneMoves
  <2> QED
    BY <1>1, <2>3 DEF Typed, TypeOK
<1>2. CASE /\ IF run[c].source \in recipes THEN Disturb("replay") ELSE UNCHANGED budget
           /\ Goto(c, elsewhere)
           /\ \E s \in States \union {Nowhere}, rest \in SUBSET run[c].todo :
                Becomes(c, [run[c] EXCEPT !.at = s, !.todo = rest])
           /\ excused' = excused \union {run[c].source}
           /\ strayed' = TRUE
  <2>1. PICK s \in States \union {Nowhere}, rest \in SUBSET run[c].todo :
          Becomes(c, [run[c] EXCEPT !.at = s, !.todo = rest])
    BY <1>2
  <2> DEFINE r == [run[c] EXCEPT !.at = s, !.todo = rest]
  <2>2. r \in Run
    BY <1>r DEF Run
  <2>3. Fits(elsewhere, r, known')
    BY DEF Fits
  <2>4. pc' \in [Crawlers -> Pc] /\ run' \in [Crawlers -> Run] /\ LocalsFit'
    BY <1>2, <2>1, <2>2, <2>3, OneMoves
  <2>5. budget' \in [Disturbance -> Nat]
    BY <1>2, DisturbType DEF Typed, TypeOK, Disturbance
  <2>6. run[c].source \in States
    BY <1>r DEF Run
  <2> QED
    BY <1>2, <2>4, <2>5, <2>6 DEF Typed, TypeOK
<1> QED
  BY <1>1, <1>2 DEF Replay

LEMMA ExploreType ==
  ASSUME Typed, NEW c \in Crawlers,
         ReplayState(c) \/ Explore(c) \/ ReplayAfterAction(c) \/ MarkStateExplored(c)
  PROVE  Typed'
<1> USE DEF nodes, work
<1>r. run[c] \in Run /\ run[c].source \in States /\ run[c].todo \subseteq Actions
  BY DEF Typed, TypeOK, Run
<1>p. {"explore", "explored", "attempt", "return", "loop"} \subseteq Pc
  BY DEF Pc
<1>1. CASE ReplayState(c)
  <2>1. Offered[run[c].source] \in SUBSET Actions
    BY <1>r, SiteAssumption DEF SiteAssumption
  <2>2. Replay(c, "explore", Offered[run[c].source], "explored") /\ known \subseteq known'
    BY <1>1 DEF ReplayState
  <2>3. /\ pc' \in [Crawlers -> Pc] /\ run' \in [Crawlers -> Run] /\ LocalsFit'
        /\ budget' \in [Disturbance -> Nat]
        /\ excused' \subseteq States /\ strayed' \in BOOLEAN
    BY <1>p, <2>1, <2>2, ReplayType
  <2> QED
    BY <1>1, <2>3 DEF Typed, TypeOK, ReplayState
<1>2. CASE Explore(c)
  <2>1. /\ pc' \in [Crawlers -> Pc] /\ run' \in [Crawlers -> Run] /\ LocalsFit'
        /\ deferred' \in [Items -> {"none", "pending", "processing", "processed"}]
        /\ excused' \subseteq States
    <3>1. CASE \E a \in run[c].todo :
                 /\ WithinLimits(c)
                 /\ IF DeferRisky /\ a \in Risky
                      THEN /\ deferred' = WithDeferred(deferred, {<<run[c].source, a>>})
                           /\ UNCHANGED pc \/ Goto(c, "return")
                      ELSE Goto(c, "attempt") /\ UNCHANGED deferred
                 /\ Becomes(c, [run[c] EXCEPT !.item = a, !.todo = @ \ {a}])
                 /\ UNCHANGED excused
      <4>1. PICK a \in run[c].todo :
                 /\ IF DeferRisky /\ a \in Risky
                      THEN /\ deferred' = WithDeferred(deferred, {<<run[c].source, a>>})
                           /\ UNCHANGED pc \/ Goto(c, "return")
                      ELSE Goto(c, "attempt") /\ UNCHANGED deferred
                 /\ Becomes(c, [run[c] EXCEPT !.item = a, !.todo = @ \ {a}])
        BY <3>1
      <4> DEFINE r == [run[c] EXCEPT !.item = a, !.todo = @ \ {a}]
      <4>2. r \in Run /\ r.item \in Actions
        BY <1>r DEF Run
      <4>3. PICK label \in {"explore", "return", "attempt"} : Goto(c, label)
        BY <1>2, <4>1 DEF Explore, Goto, Typed, TypeOK
      <4>4. Fits(label, r, known') /\ known \subseteq known'
        BY <1>2, <4>2 DEF Fits, Explore
      <4>5. pc' \in [Crawlers -> Pc] /\ run' \in [Crawlers -> Run] /\ LocalsFit'
        BY <1>p, <4>1, <4>2, <4>3, <4>4, OneMoves
      <4>6. deferred' \in [Items -> {"none", "pending", "processing", "processed"}]
        BY <4>1, WithDeferredType DEF Typed, TypeOK
      <4> QED
        BY <3>1, <4>5, <4>6 DEF Typed, TypeOK
    <3>2. CASE /\ Goto(c, "explored")
               /\ excused' = IF run[c].todo = {} THEN excused ELSE excused \union {run[c].source}
               /\ UNCHANGED <<run, deferred>>
      <4>1. Fits("explored", run[c], known') /\ known \subseteq known'
        BY <1>2 DEF Fits, Explore
      <4>2. pc' \in [Crawlers -> Pc] /\ run' \in [Crawlers -> Run] /\ LocalsFit'
        BY <1>p, <3>2, <4>1, OneGoes
      <4> QED
        BY <1>r, <3>2, <4>2 DEF Typed, TypeOK
    <3> QED
      BY <1>2, <3>1, <3>2 DEF Explore
  <2> QED
    BY <1>2, <2>1 DEF Typed, TypeOK, Explore
<1>3. CASE ReplayAfterAction(c)
  <2>1. Replay(c, "explore", run[c].todo, "explore") /\ known \subseteq known'
    BY <1>3 DEF ReplayAfterAction
  <2>2. /\ pc' \in [Crawlers -> Pc] /\ run' \in [Crawlers -> Run] /\ LocalsFit'
        /\ budget' \in [Disturbance -> Nat]
        /\ excused' \subseteq States /\ strayed' \in BOOLEAN
    BY <1>p, <1>r, <2>1, ReplayType
  <2> QED
    BY <1>3, <2>2 DEF Typed, TypeOK, ReplayAfterAction
<1>4. CASE MarkStateExplored(c)
  <2>1. Goto(c, "loop") /\ UNCHANGED run /\ known \subseteq known'
    BY <1>4 DEF MarkStateExplored
  <2>2. Fits("loop", run[c], known')
    BY DEF Fits
  <2>3. pc' \in [Crawlers -> Pc] /\ run' \in [Crawlers -> Run] /\ LocalsFit'
    BY <1>p, <2>1, <2>2, OneGoes
  <2>4. frontier' \in [States -> {"none", "pending", "exploring", "explored"}]
    BY <1>4 DEF MarkStateExplored, Typed, TypeOK
  <2> QED
    BY <1>4, <2>3, <2>4, Zenon DEF Typed, TypeOK, MarkStateExplored, history
<1> QED
  BY <1>1, <1>2, <1>3, <1>4

LEMMA SequenceType ==
  ASSUME Typed, NEW c \in Crawlers,
         \/ MarkActionAttempted(c) \/ TryIncrementActionRepeat(c) \/ ExecuteAction(c)
         \/ AddState(c) \/ Register(c) \/ AddTransition(c)
  PROVE  Typed'
<1> USE DEF nodes, work, history
<1>r. /\ run[c] \in Run /\ run[c].source \in States
      /\ pc[c] \in {"attempt", "repeat", "act", "add", "register", "record"}
      /\ run[c].item \in Actions
  <2>1. run[c] \in Run /\ run[c].source \in States
    BY DEF Typed, TypeOK, Run
  <2>2. pc[c] \in {"attempt", "repeat", "act", "add", "register", "record"}
    BY DEF MarkActionAttempted, TryIncrementActionRepeat, ExecuteAction, AddState, Register,
           AddTransition
  <2> QED
    BY <2>1, <2>2 DEF Typed, LocalsFit, Fits
<1>i. Item(c) \in Items
  BY <1>r DEF Item, Items
<1>p. {"repeat", "act", "add", "register", "record"} \subseteq Pc
  BY DEF Pc
<1>a. ASSUME NEW b \in BOOLEAN, NEW r
      PROVE  After(c, b) \in Pc /\ Fits(After(c, b), r, known')
  BY AfterType, AfterFits DEF Typed
<1>1. CASE MarkActionAttempted(c)
  <2>1. PICK label \in {"repeat", After(c, FALSE)} : Goto(c, label) /\ UNCHANGED run
    BY <1>1 DEF MarkActionAttempted
  <2>2. label \in Pc /\ Fits(label, run[c], known') /\ known \subseteq known'
    BY <1>1, <1>a, <1>p, <1>r DEF Fits, MarkActionAttempted
  <2>3. pc' \in [Crawlers -> Pc] /\ run' \in [Crawlers -> Run] /\ LocalsFit'
    BY <2>1, <2>2, OneGoes
  <2>4. attempted' \subseteq Items
    BY <1>1, <1>i DEF MarkActionAttempted, Typed, TypeOK
  <2> QED
    BY <1>1, <2>3, <2>4 DEF Typed, TypeOK, MarkActionAttempted
<1>2. CASE TryIncrementActionRepeat(c)
  <2> DEFINE u == Url[run[c].source]
             a == run[c].item
  <2>1. PICK label \in {"act", After(c, FALSE)} : Goto(c, label) /\ UNCHANGED run
    BY <1>2 DEF TryIncrementActionRepeat
  <2>2. label \in Pc /\ Fits(label, run[c], known') /\ known \subseteq known'
    BY <1>2, <1>a, <1>p, <1>r DEF Fits, TryIncrementActionRepeat
  <2>3. pc' \in [Crawlers -> Pc] /\ run' \in [Crawlers -> Run] /\ LocalsFit'
    BY <2>1, <2>2, OneGoes
  <2>4. repeats' \in [Urls -> [Actions -> 0 .. MaxRepeats]]
    <3>1. u \in Urls /\ a \in Actions
      BY <1>r DEF Urls
    <3>2. repeats \in [Urls -> [Actions -> 0 .. MaxRepeats]] /\ MaxRepeats \in Nat
      BY SiteAssumption DEF Typed, TypeOK, SiteAssumption
    <3>3. CASE repeats[u][a] < MaxRepeats
      <4>1. repeats[u][a] + 1 \in 0 .. MaxRepeats
        BY <3>1, <3>2, <3>3
      <4>2. repeats' = [repeats EXCEPT ![u][a] = @ + 1]
        BY <1>2, <3>3 DEF TryIncrementActionRepeat
      <4> HIDE DEF u, a
      <4> QED
        BY <3>1, <3>2, <4>1, <4>2
    <3>4. CASE ~(repeats[u][a] < MaxRepeats)
      BY <1>2, <3>2, <3>4 DEF TryIncrementActionRepeat
    <3> QED
      BY <3>3, <3>4
  <2> QED
    BY <1>2, <2>3, <2>4 DEF Typed, TypeOK, TryIncrementActionRepeat
<1>3. CASE ExecuteAction(c)
  <2>1. performed' \in [Items -> Nat]
    <3>1. performed \in [Items -> Nat]
      BY DEF Typed, TypeOK
    <3>2. performed' = [performed EXCEPT ![Item(c)] = @ + 1]
      BY <1>3 DEF ExecuteAction
    <3>3. performed[Item(c)] + 1 \in Nat
      BY <1>i, <3>1
    <3> QED
      BY <1>i, <3>1, <3>2, <3>3
  <2>2. deferred' \in [Items -> {"none", "pending", "processing", "processed"}]
    <3>1. PICK items : deferred' = WithDeferred(deferred, items)
      BY <1>3 DEF ExecuteAction
    <3> QED
      BY <3>1, WithDeferredType DEF Typed
  <2>k. known \subseteq known'
    BY <1>3 DEF ExecuteAction
  <2>3. pc' \in [Crawlers -> Pc] /\ run' \in [Crawlers -> Run] /\ LocalsFit'
    <3>1. CASE Goto(c, After(c, FALSE)) /\ Becomes(c, [run[c] EXCEPT !.at = Nowhere])
      <4>1. [run[c] EXCEPT !.at = Nowhere] \in Run
        BY <1>r DEF Run
      <4> QED
        BY <1>a, <2>k, <3>1, <4>1, OneMoves
    <3>2. ASSUME run[c].at # Nowhere,
                 NEW s \in Leads[run[c].at][run[c].item],
                 Goto(c, "add") \/ Goto(c, After(c, FALSE)),
                 Becomes(c, [run[c] EXCEPT !.at = s, !.astray = (run[c].at # run[c].source)])
          PROVE  pc' \in [Crawlers -> Pc] /\ run' \in [Crawlers -> Run] /\ LocalsFit'
      <4> DEFINE r == [run[c] EXCEPT !.at = s, !.astray = (run[c].at # run[c].source)]
      <4>1. s \in States
        <5>1. run[c].at \in States
          BY <1>r, <3>2 DEF Run
        <5>2. Leads[run[c].at] \in [Actions -> SUBSET States]
          BY <5>1, SiteAssumption DEF SiteAssumption
        <5> QED
          BY <1>r, <3>2, <5>2
      <4>2. r \in Run /\ r.item = run[c].item /\ r.at = s
        BY <1>r, <4>1 DEF Run
      <4>3. Fits("add", r, known')
        BY <1>r, <4>1, <4>2 DEF Fits
      <4> QED
        BY <1>a, <1>p, <2>k, <3>2, <4>2, <4>3, OneMoves
    <3> QED
      BY <1>3, <3>1, <3>2 DEF ExecuteAction
  <2> QED
    BY <1>3, <2>1, <2>2, <2>3 DEF Typed, TypeOK, ExecuteAction
<1>4. CASE AddState(c)
  <2>1. run[c].at \in States
    BY <1>4 DEF AddState, Typed, LocalsFit, Fits
  <2>2. AddToQueue(c, run[c].at, TRUE, run[c])
    BY <1>4 DEF AddState
  <2>3. /\ known' \subseteq States /\ seen' \subseteq known'
        /\ known \subseteq known' /\ run[c].at \in known'
        /\ frontier' \in [States -> {"none", "pending", "exploring", "explored"}]
        /\ \E n \in Nat : /\ [run[c] EXCEPT !.states = n] \in Run
                          /\ Becomes(c, [run[c] EXCEPT !.states = n])
    BY <1>r, <2>1, <2>2, AddToQueueType
  <2>4. PICK n \in Nat : /\ [run[c] EXCEPT !.states = n] \in Run
                         /\ Becomes(c, [run[c] EXCEPT !.states = n])
    BY <2>3
  <2>5. Fits("register", [run[c] EXCEPT !.states = n], known')
    BY <1>r, <2>3 DEF Fits, Run
  <2>6. Goto(c, "register")
    BY <1>4 DEF AddState
  <2>7. pc' \in [Crawlers -> Pc] /\ run' \in [Crawlers -> Run] /\ LocalsFit'
    BY <1>p, <2>3, <2>4, <2>5, <2>6, OneMoves
  <2> QED
    BY <1>4, <2>3, <2>7 DEF Typed, TypeOK, AddState
<1>5. CASE Register(c)
  <2>1. Goto(c, "record") /\ UNCHANGED run /\ known \subseteq known'
    BY <1>5 DEF Register
  <2>2. run[c].at \in known
    BY <1>5 DEF Register, Typed, LocalsFit, Fits
  <2>3. Fits("record", run[c], known')
    BY <1>r, <2>1, <2>2 DEF Fits
  <2>4. pc' \in [Crawlers -> Pc] /\ run' \in [Crawlers -> Run] /\ LocalsFit'
    BY <1>p, <2>1, <2>3, OneGoes
  <2> QED
    BY <1>5, <2>2, <2>4 DEF Typed, TypeOK, Register
<1>6. CASE AddTransition(c)
  <2> DEFINE t == <<run[c].source, run[c].item, run[c].at>>
             n == run[c].transitions + (IF t \in transitions THEN 0 ELSE 1)
             r == [run[c] EXCEPT !.transitions = n]
  <2>1. run[c].at \in known /\ known \subseteq States
    BY <1>6 DEF AddTransition, Typed, TypeOK, LocalsFit, Fits
  <2>2. n \in Nat /\ r \in Run
    BY <1>r DEF Run
  <2>3. Goto(c, After(c, TRUE)) /\ Becomes(c, r) /\ known \subseteq known'
    BY <1>6 DEF AddTransition
  <2>4. pc' \in [Crawlers -> Pc] /\ run' \in [Crawlers -> Run] /\ LocalsFit'
    BY <1>a, <2>2, <2>3, OneMoves
  <2>5. transitions' \subseteq States \X Actions \X States
    BY <1>6, <1>r, <2>1 DEF AddTransition, Typed, TypeOK
  <2>6. bogus' \in BOOLEAN
    BY <1>6 DEF AddTransition
  <2> QED
    BY <1>6, <2>4, <2>5, <2>6 DEF Typed, TypeOK, AddTransition
<1> QED
  BY <1>1, <1>2, <1>3, <1>4, <1>5, <1>6

LEMMA DeferredType ==
  ASSUME Typed, NEW c \in Crawlers,
         RunDeferredItem(c) \/ MarkDeferredWorkProcessed(c)
  PROVE  Typed'
<1> USE DEF nodes, work
<1>p. {"attempt", "processed", "loop"} \subseteq Pc
  BY DEF Pc
<1>1. CASE RunDeferredItem(c)
  <2>1. Replay(c, "attempt", {}, "processed") /\ known \subseteq known'
    BY <1>1 DEF RunDeferredItem
  <2>2. run[c].item \in Actions
    BY <1>1 DEF RunDeferredItem, Typed, LocalsFit, Fits
  <2>3. /\ pc' \in [Crawlers -> Pc] /\ run' \in [Crawlers -> Run] /\ LocalsFit'
        /\ budget' \in [Disturbance -> Nat]
        /\ excused' \subseteq States /\ strayed' \in BOOLEAN
    BY <1>p, <2>1, <2>2, ReplayType
  <2> QED
    BY <1>1, <2>3 DEF Typed, TypeOK, RunDeferredItem
<1>2. CASE MarkDeferredWorkProcessed(c)
  <2>1. Goto(c, "loop") /\ UNCHANGED run /\ known \subseteq known'
    BY <1>2 DEF MarkDeferredWorkProcessed
  <2>2. Fits("loop", run[c], known')
    BY DEF Fits
  <2>3. pc' \in [Crawlers -> Pc] /\ run' \in [Crawlers -> Run] /\ LocalsFit'
    BY <1>p, <2>1, <2>2, OneGoes
  <2>4. deferred' \in [Items -> {"none", "pending", "processing", "processed"}]
    BY <1>2 DEF MarkDeferredWorkProcessed, Typed, TypeOK
  <2> QED
    BY <1>2, <2>3, <2>4 DEF Typed, TypeOK, MarkDeferredWorkProcessed, history
<1> QED
  BY <1>1, <1>2

LEMMA FailureType ==
  ASSUME Typed, NEW c \in Crawlers, Failure(c)
  PROVE  Typed'
<1> USE DEF nodes, work
<1>d. {"kill", "cancel", "fault"} \subseteq Disturbance
  BY DEF Disturbance
<1>r. run[c] \in Run /\ run[c].source \in States
  BY DEF Typed, TypeOK, Run
<1>1. CASE Kill(c)
  <2>1. pc' \in [Crawlers -> Pc] /\ run' \in [Crawlers -> Run] /\ LocalsFit'
    BY <1>1, OneEnds DEF Kill
  <2>2. budget' \in [Disturbance -> Nat] /\ excused' \subseteq States
    BY <1>1, <1>d, <1>r, DisturbType DEF Kill, Typed, TypeOK
  <2> QED
    BY <1>1, <2>1, <2>2 DEF Typed, TypeOK, Kill
<1>2. CASE Cancel(c)
  <2>1. pc' \in [Crawlers -> Pc] /\ run' \in [Crawlers -> Run] /\ LocalsFit'
    BY <1>2, OneEnds DEF Cancel
  <2>2. budget' \in [Disturbance -> Nat] /\ excused' \subseteq States
    BY <1>2, <1>d, <1>r, DisturbType DEF Cancel, Typed, TypeOK
  <2>3. frontier' \in [States -> {"none", "pending", "exploring", "explored"}]
    BY <1>2 DEF Cancel, Typed, TypeOK
  <2>4. deferred' \in [Items -> {"none", "pending", "processing", "processed"}]
    BY <1>2 DEF Cancel, Typed, TypeOK
  <2> QED
    BY <1>2, <2>1, <2>2, <2>3, <2>4 DEF Typed, TypeOK, Cancel
<1>3. CASE Fault(c)
  <2>1. [run[c] EXCEPT !.at = Nowhere] \in Run
    BY <1>r DEF Run
  <2>2. /\ Goto(c, After(c, FALSE)) /\ Becomes(c, [run[c] EXCEPT !.at = Nowhere])
        /\ known \subseteq known'
    BY <1>3 DEF Fault
  <2>3. After(c, FALSE) \in Pc /\ Fits(After(c, FALSE), [run[c] EXCEPT !.at = Nowhere], known')
    BY AfterType, AfterFits DEF Typed
  <2>4. pc' \in [Crawlers -> Pc] /\ run' \in [Crawlers -> Run] /\ LocalsFit'
    BY <2>1, <2>2, <2>3, OneMoves
  <2>5. budget' \in [Disturbance -> Nat]
    BY <1>3, <1>d, DisturbType DEF Fault, Typed
  <2> QED
    BY <1>3, <2>4, <2>5 DEF Typed, TypeOK, Fault, history
<1> QED
  BY <1>1, <1>2, <1>3 DEF Failure

LEMMA StepTyped == Typed /\ [Next]_vars => Typed'
<1> SUFFICES ASSUME Typed, [Next]_vars PROVE Typed'
  OBVIOUS
<1>1. CASE UNCHANGED vars
  BY <1>1 DEF Typed, TypeOK, LocalsFit, vars, nodes, work, history
<1>2. CASE Next
  BY <1>2, SeedType, LoopType, ExploreType, SequenceType, DeferredType, FailureType
     DEF Next, Slice
<1> QED
  BY <1>1, <1>2

LEMMA AlwaysTyped == Spec => []Typed
<1>1. Init => Typed
  BY InitTyped
<1>2. Typed /\ [Next]_vars => Typed'
  BY StepTyped
<1> QED
  BY <1>1, <1>2, PTL DEF Spec

(* Every variable keeps its type: the graph has no recipe and no session   *)
(* mark without a node, transitions join states of the site, and the       *)
(* repeat counters stay within their cap.                                  *)
THEOREM FrontierTypeCorrect == Spec => []TypeOK
<1>1. Typed => TypeOK
  BY DEF Typed
<1> QED
  BY <1>1, AlwaysTyped, PTL

-----------------------------------------------------------------------------
(* Safety.                                                                 *)

(* One crawler moves at a time; the others keep their place and locals.    *)
OthersStay(c) ==
  \A d \in Crawlers \ {c} : pc'[d] = pc[d] /\ run'[d] = run[d]

LEMMA GoesAlone ==
  ASSUME TypeOK, NEW c \in Crawlers, NEW label, Goto(c, label)
  PROVE  pc'[c] = label /\ \A d \in Crawlers \ {c} : pc'[d] = pc[d]
  BY DEF TypeOK, Goto

LEMMA BecomesAlone ==
  ASSUME TypeOK, NEW c \in Crawlers, NEW r, Becomes(c, r)
  PROVE  run'[c] = r /\ \A d \in Crawlers \ {c} : run'[d] = run[d]
  BY DEF TypeOK, Becomes

LEMMA ReplayAlone ==
  ASSUME TypeOK, NEW c \in Crawlers, NEW label, NEW todo, NEW elsewhere,
         Replay(c, label, todo, elsewhere)
  PROVE  OthersStay(c) /\ pc'[c] \in {label, elsewhere}
<1>1. ASSUME NEW r, Becomes(c, r), Goto(c, label) \/ Goto(c, elsewhere)
      PROVE  OthersStay(c) /\ pc'[c] \in {label, elsewhere}
  BY <1>1, GoesAlone, BecomesAlone DEF OthersStay
<1> QED
  BY <1>1 DEF Replay

LEMMA AfterIsAway ==
  ASSUME TypeOK, NEW c \in Crawlers, NEW reached \in BOOLEAN
  PROVE  After(c, reached) \in {"return", "processed", "loop", "pending"}
<1>1. run[c].mode \in Mode
  BY DEF TypeOK, Run
<1> QED
  BY <1>1 DEF After, Mode

-----------------------------------------------------------------------------
(* A step that neither attempts nor performs anything.                     *)
Quiet(c) ==
  /\ OthersStay(c)
  /\ pc'[c] \notin {"repeat", "act"}
  /\ UNCHANGED <<attempted, repeats, performed>>

LEMMA SeedQuiet ==
  ASSUME TypeOK, NEW c \in Crawlers,
         StartSlice(c) \/ SeedInitialState(c) \/ RegisterHome(c) \/ MarkStatePending(c)
  PROVE  Quiet(c)
<1> USE DEF nodes, work, history
<1>1. CASE StartSlice(c)
  BY <1>1, GoesAlone, BecomesAlone DEF StartSlice, Quiet, OthersStay
<1>2. CASE SeedInitialState(c)
  BY <1>2, GoesAlone, BecomesAlone DEF SeedInitialState, AddToQueue, Quiet, OthersStay
<1>3. CASE RegisterHome(c)
  <2>1. CASE Goto(c, "loop") /\ UNCHANGED run
    BY <1>3, <2>1, GoesAlone DEF RegisterHome, Quiet, OthersStay
  <2>2. CASE Goto(c, "attempt") /\ Becomes(c, [run[c] EXCEPT !.item = Login])
    BY <1>3, <2>2, GoesAlone, BecomesAlone DEF RegisterHome, Quiet, OthersStay
  <2> QED
    BY <1>3, <2>1, <2>2 DEF RegisterHome
<1>4. CASE MarkStatePending(c)
  BY <1>4, GoesAlone DEF MarkStatePending, Quiet, OthersStay
<1> QED
  BY <1>1, <1>2, <1>3, <1>4

LEMMA LoopQuiet ==
  ASSUME TypeOK, NEW c \in Crawlers,
         ClaimNextPendingState(c) \/ NothingPending(c) \/ ClaimDeferredWork(c) \/ Yield(c)
  PROVE  Quiet(c)
<1> USE DEF nodes, work, history
<1>e. ASSUME Ends(c)
      PROVE  OthersStay(c) /\ pc'[c] = "idle"
  BY <1>e, GoesAlone, BecomesAlone DEF Ends, OthersStay
<1>1. CASE ClaimNextPendingState(c)
  <2>1. PICK s \in States : Becomes(c, [Fresh(c) EXCEPT !.mode = "state", !.source = s])
    BY <1>1 DEF ClaimNextPendingState
  <2>2. OthersStay(c) /\ pc'[c] = "replay"
    BY <1>1, <2>1, GoesAlone, BecomesAlone DEF ClaimNextPendingState, OthersStay
  <2> QED
    BY <1>1, <2>2 DEF ClaimNextPendingState, Quiet
<1>2. CASE NothingPending(c)
  <2>1. CASE Goto(c, "deferredClaim") /\ UNCHANGED run
    BY <1>2, <2>1, GoesAlone DEF NothingPending, Quiet, OthersStay
  <2>2. CASE Ends(c)
    BY <1>2, <1>e, <2>2 DEF NothingPending, Quiet
  <2> QED
    BY <1>2, <2>1, <2>2 DEF NothingPending
<1>3. CASE ClaimDeferredWork(c)
  <2>1. ASSUME NEW i \in Items, Goto(c, "deferred"),
               Becomes(c, [Fresh(c) EXCEPT !.mode = "deferred", !.source = i[1], !.item = i[2]])
        PROVE  OthersStay(c) /\ pc'[c] = "deferred"
    BY <2>1, GoesAlone, BecomesAlone DEF OthersStay
  <2> QED
    BY <1>3, <1>e, <2>1 DEF ClaimDeferredWork, Quiet
<1>4. CASE Yield(c)
  BY <1>4, <1>e DEF Yield, Quiet
<1> QED
  BY <1>1, <1>2, <1>3, <1>4

LEMMA ExploreQuiet ==
  ASSUME TypeOK, NEW c \in Crawlers,
         \/ ReplayState(c) \/ Explore(c) \/ ReplayAfterAction(c) \/ MarkStateExplored(c)
         \/ RunDeferredItem(c) \/ MarkDeferredWorkProcessed(c)
  PROVE  Quiet(c)
<1> USE DEF nodes, work
<1>1. CASE ReplayState(c)
  <2>1. OthersStay(c) /\ pc'[c] \in {"explore", "explored"}
    BY <1>1, ReplayAlone DEF ReplayState
  <2> QED
    BY <1>1, <2>1 DEF ReplayState, Quiet
<1>2. CASE Explore(c)
  <2>1. ASSUME NEW a, Becomes(c, [run[c] EXCEPT !.item = a, !.todo = @ \ {a}]),
               UNCHANGED pc \/ Goto(c, "return") \/ Goto(c, "attempt")
        PROVE  OthersStay(c) /\ pc'[c] \notin {"repeat", "act"}
    <3>1. pc[c] = "explore"
      BY <1>2 DEF Explore
    <3> QED
      BY <2>1, <3>1, GoesAlone, BecomesAlone DEF OthersStay
  <2>2. ASSUME Goto(c, "explored"), UNCHANGED run
        PROVE  OthersStay(c) /\ pc'[c] \notin {"repeat", "act"}
    BY <2>2, GoesAlone DEF OthersStay
  <2>3. OthersStay(c) /\ pc'[c] \notin {"repeat", "act"}
    BY <1>2, <2>1, <2>2 DEF Explore
  <2> QED
    BY <1>2, <2>3 DEF Explore, Quiet
<1>3. CASE ReplayAfterAction(c)
  <2>1. OthersStay(c) /\ pc'[c] \in {"explore"}
    BY <1>3, ReplayAlone DEF ReplayAfterAction
  <2> QED
    BY <1>3, <2>1 DEF ReplayAfterAction, Quiet
<1>4. CASE MarkStateExplored(c)
  BY <1>4, GoesAlone DEF MarkStateExplored, Quiet, OthersStay, history
<1>5. CASE RunDeferredItem(c)
  <2>1. OthersStay(c) /\ pc'[c] \in {"attempt", "processed"}
    BY <1>5, ReplayAlone DEF RunDeferredItem
  <2> QED
    BY <1>5, <2>1 DEF RunDeferredItem, Quiet
<1>6. CASE MarkDeferredWorkProcessed(c)
  BY <1>6, GoesAlone DEF MarkDeferredWorkProcessed, Quiet, OthersStay, history
<1> QED
  BY <1>1, <1>2, <1>3, <1>4, <1>5, <1>6

LEMMA RecordQuiet ==
  ASSUME TypeOK, NEW c \in Crawlers, AddState(c) \/ Register(c) \/ AddTransition(c)
  PROVE  Quiet(c)
<1> USE DEF nodes, work, history
<1>1. CASE AddState(c)
  BY <1>1, GoesAlone, BecomesAlone DEF AddState, AddToQueue, Quiet, OthersStay
<1>2. CASE Register(c)
  BY <1>2, GoesAlone DEF Register, Quiet, OthersStay
<1>3. CASE AddTransition(c)
  <2>1. After(c, TRUE) \notin {"repeat", "act"}
    BY AfterIsAway
  <2> QED
    BY <1>3, <2>1, GoesAlone, BecomesAlone DEF AddTransition, Quiet, OthersStay
<1> QED
  BY <1>1, <1>2, <1>3

LEMMA FailureQuiet ==
  ASSUME TypeOK, NEW c \in Crawlers, Failure(c)
  PROVE  Quiet(c)
<1> USE DEF nodes, work
<1>e. ASSUME Ends(c)
      PROVE  OthersStay(c) /\ pc'[c] = "idle"
  BY <1>e, GoesAlone, BecomesAlone DEF Ends, OthersStay
<1>1. CASE Kill(c)
  BY <1>1, <1>e DEF Kill, Quiet
<1>2. CASE Cancel(c)
  BY <1>2, <1>e DEF Cancel, Quiet
<1>3. CASE Fault(c)
  <2>1. After(c, FALSE) \notin {"repeat", "act"}
    BY AfterIsAway
  <2> QED
    BY <1>3, <2>1, GoesAlone, BecomesAlone DEF Fault, Quiet, OthersStay, history
<1> QED
  BY <1>1, <1>2, <1>3 DEF Failure

(* Every other step is one of the three that attempt and perform.          *)
LEMMA QuietOrSequence ==
  ASSUME TypeOK, Next
  PROVE  \E c \in Crawlers :
           Quiet(c) \/ MarkActionAttempted(c) \/ TryIncrementActionRepeat(c) \/ ExecuteAction(c)
  BY SeedQuiet, LoopQuiet, ExploreQuiet, RecordQuiet, FailureQuiet DEF Next, Slice

-----------------------------------------------------------------------------
(* What is explored.                                                       *)

LEMMA EnqueuedKeeps ==
  ASSUME TypeOK, NEW s \in States, NEW t \in States, frontier[t] = "explored"
  PROVE  Enqueued(frontier, s)[t] = "explored"
  BY DEF TypeOK, Enqueued

LEMMA ExploredKept ==
  ASSUME Typed, NEW c \in Crawlers, StartSlice(c) \/ Slice(c) \/ Failure(c),
         NEW t \in States, frontier[t] = "explored"
  PROVE  frontier'[t] = "explored"
<1> USE DEF nodes, work
<1>h. Home \in States
  BY SiteAssumption DEF SiteAssumption
<1>f. frontier \in [States -> {"none", "pending", "exploring", "explored"}]
  BY DEF Typed, TypeOK
<1>1. CASE UNCHANGED frontier
  BY <1>1
<1>2. CASE SeedInitialState(c) \/ MarkStatePending(c)
  BY <1>2, <1>h, EnqueuedKeeps DEF SeedInitialState, MarkStatePending, AddToQueue, Typed
<1>3. CASE AddState(c)
  <2>1. run[c].at \in States
    BY <1>3 DEF AddState, Typed, LocalsFit, Fits
  <2> QED
    BY <1>3, <2>1, EnqueuedKeeps DEF AddState, AddToQueue, Typed
<1>4. CASE ClaimNextPendingState(c)
  BY <1>4, <1>f DEF ClaimNextPendingState
<1>5. CASE MarkStateExplored(c)
  BY <1>5, <1>f DEF MarkStateExplored
<1>6. CASE Cancel(c)
  BY <1>6, <1>f DEF Cancel
<1>7. CASE \/ StartSlice(c) \/ RegisterHome(c) \/ NothingPending(c) \/ ClaimDeferredWork(c)
           \/ Yield(c) \/ ReplayState(c) \/ Explore(c) \/ ReplayAfterAction(c)
           \/ MarkActionAttempted(c) \/ TryIncrementActionRepeat(c) \/ ExecuteAction(c)
           \/ Register(c) \/ AddTransition(c) \/ RunDeferredItem(c)
           \/ MarkDeferredWorkProcessed(c) \/ Kill(c) \/ Fault(c)
  BY <1>1, <1>7 DEF StartSlice, RegisterHome, NothingPending, ClaimDeferredWork, Yield,
                    ReplayState, Explore, ReplayAfterAction, MarkActionAttempted,
                    TryIncrementActionRepeat, ExecuteAction, Register, AddTransition,
                    RunDeferredItem, MarkDeferredWorkProcessed, Kill, Fault
<1> QED
  BY <1>2, <1>3, <1>4, <1>5, <1>6, <1>7 DEF Slice, Failure

(* An explored state is never put back into the frontier: not by a state   *)
(* that reaches it again (ADD_STATE), not by the home page of a later      *)
(* slice (MARK_STATE_PENDING), and not by two claims that overlap.         *)
THEOREM ExploredStateStays == Spec => ExploredStays
<1>1. ASSUME Typed, [Next]_vars
      PROVE  [\A s \in States : frontier[s] = "explored" => frontier'[s] = "explored"]_frontier
  BY <1>1, ExploredKept DEF Next, vars, work
<1> QED
  BY <1>1, AlwaysTyped, PTL DEF Spec, ExploredStays

-----------------------------------------------------------------------------
(* What is performed.                                                      *)

About(c) == pc[c] \in {"repeat", "act"}

(* The action that a crawler is about to perform is marked as attempted,   *)
(* was not performed, and is no other crawler's.                           *)
Once ==
  /\ \A i \in Items : performed[i] <= 1 /\ (performed[i] > 0 => i \in attempted)
  /\ \A c \in Crawlers : About(c) => Item(c) \in attempted /\ performed[Item(c)] = 0
  /\ \A c, d \in Crawlers : About(c) /\ About(d) /\ Item(c) = Item(d) => c = d

LEMMA QuietOnce ==
  ASSUME Typed, Once, NEW c \in Crawlers, Quiet(c)
  PROVE  Once'
<1>1. ~About(c)' /\ \A d \in Crawlers \ {c} : (About(d)' <=> About(d)) /\ Item(d)' = Item(d)
  BY DEF Quiet, OthersStay, About, Item
<1> QED
  BY <1>1 DEF Once, Quiet

LEMMA AttemptOnce ==
  ASSUME Typed, Once, NEW c \in Crawlers, MarkActionAttempted(c)
  PROVE  Once'
<1> USE DEF work, history
<1>i. pc[c] = "attempt" /\ Item(c) \in Items
  BY DEF MarkActionAttempted, Typed, TypeOK, LocalsFit, Fits, Run, Item, Items
<1>p. performed \in [Items -> Nat]
  BY DEF Typed, TypeOK
<1>1. UNCHANGED <<run, performed>> /\ attempted' = attempted \union {Item(c)}
  BY DEF MarkActionAttempted
<1>2. \A d \in Crawlers : Item(d)' = Item(d)
  BY <1>1 DEF Item
<1>3. \A d \in Crawlers \ {c} : About(d)' <=> About(d)
  BY GoesAlone DEF MarkActionAttempted, About, Typed
<1>4. About(c)' => Item(c) \notin attempted
  <2>1. Item(c) \in attempted => pc'[c] = After(c, FALSE)
    BY GoesAlone DEF MarkActionAttempted, Typed
  <2> QED
    BY <2>1, AfterIsAway DEF About, Typed
<1>5. About(c)' => performed[Item(c)] = 0
  BY <1>4, <1>i, <1>p DEF Once
<1>6. \A d \in Crawlers \ {c} : About(d)' /\ About(c)' => Item(d) # Item(c)
  BY <1>3, <1>4 DEF Once
<1> QED
  BY <1>1, <1>2, <1>3, <1>5, <1>6 DEF Once

LEMMA IncrementOnce ==
  ASSUME Typed, Once, NEW c \in Crawlers, TryIncrementActionRepeat(c)
  PROVE  Once'
<1> USE DEF work, history
<1>1. UNCHANGED <<run, performed, attempted>> /\ About(c)
  BY DEF TryIncrementActionRepeat, About
<1>2. \A d \in Crawlers : Item(d)' = Item(d)
  BY <1>1 DEF Item
<1>3. \A d \in Crawlers : About(d)' => About(d)
  <2>1. \A d \in Crawlers \ {c} : pc'[d] = pc[d]
    BY GoesAlone DEF TryIncrementActionRepeat, Typed
  <2> QED
    BY <1>1, <2>1 DEF About
<1> QED
  BY <1>1, <1>2, <1>3 DEF Once

LEMMA PerformOnce ==
  ASSUME Typed, Once, NEW c \in Crawlers, ExecuteAction(c)
  PROVE  Once'
<1> USE DEF work, history
<1>i. pc[c] = "act" /\ Item(c) \in Items
  BY DEF ExecuteAction, Typed, TypeOK, LocalsFit, Fits, Run, Item, Items
<1>p. performed \in [Items -> Nat]
  BY DEF Typed, TypeOK
<1>1. attempted' = attempted /\ performed' = [performed EXCEPT ![Item(c)] = @ + 1]
  BY DEF ExecuteAction
<1>2. OthersStay(c) /\ ~About(c)'
  <2>1. ASSUME NEW label \in {"return", "processed", "loop", "pending", "add"}, NEW r,
               Goto(c, label), Becomes(c, r)
        PROVE  OthersStay(c) /\ ~About(c)'
    BY <2>1, GoesAlone, BecomesAlone DEF OthersStay, About, Typed
  <2>2. After(c, FALSE) \in {"return", "processed", "loop", "pending", "add"}
    BY AfterIsAway DEF Typed
  <2> QED
    BY <2>1, <2>2 DEF ExecuteAction
<1>3. \A d \in Crawlers \ {c} : (About(d)' <=> About(d)) /\ Item(d)' = Item(d)
  BY <1>2 DEF OthersStay, About, Item
<1>4. performed[Item(c)] = 0 /\ Item(c) \in attempted
  BY <1>i DEF Once, About
<1>5. \A d \in Crawlers \ {c} : About(d) => Item(d) # Item(c)
  BY <1>i DEF Once, About
<1>6. \A i \in Items : performed'[i] = IF i = Item(c) THEN 1 ELSE performed[i]
  BY <1>1, <1>4, <1>p
<1>7. \A d \in Crawlers : About(d)' => Item(d)' \in attempted' /\ performed'[Item(d)'] = 0
  <2> SUFFICES ASSUME NEW d \in Crawlers, About(d)'
               PROVE  Item(d)' \in attempted' /\ performed'[Item(d)'] = 0
    OBVIOUS
  <2>1. d # c /\ About(d) /\ Item(d)' = Item(d) /\ Item(d) # Item(c)
    BY <1>2, <1>3, <1>5
  <2>2. Item(d) \in attempted /\ performed[Item(d)] = 0 /\ Item(d) \in Items
    BY <2>1 DEF Once, Typed, TypeOK
  <2> QED
    BY <1>1, <1>6, <2>1, <2>2
<1>8. \A i \in Items : performed'[i] <= 1 /\ (performed'[i] > 0 => i \in attempted')
  BY <1>1, <1>4, <1>6 DEF Once
<1>9. \A d, e \in Crawlers : About(d)' /\ About(e)' /\ Item(d)' = Item(e)' => d = e
  BY <1>2, <1>3 DEF Once
<1> QED
  BY <1>7, <1>8, <1>9 DEF Once

LEMMA AlwaysOnce == Spec => []Once
<1>1. Init => Once
  BY DEF Init, Once, About
<1>2. Typed /\ Once /\ [Next]_vars => Once'
  <2> SUFFICES ASSUME Typed, Once, [Next]_vars PROVE Once'
    OBVIOUS
  <2>1. CASE UNCHANGED vars
    BY <2>1 DEF Once, About, Item, vars, work, history
  <2>2. CASE Next
    BY <2>2, QuietOrSequence, QuietOnce, AttemptOnce, IncrementOnce, PerformOnce DEF Typed
  <2> QED
    BY <2>1, <2>2
<1> QED
  BY <1>1, <1>2, AlwaysTyped, PTL DEF Spec

(* No action is performed twice for a state in a session, however many     *)
(* slices, restarts and overlapping crawlers there are: the attempt node   *)
(* decides who performs it (MARK_ACTION_ATTEMPTED).                        *)
THEOREM PerformedAtMostOnce == Spec => []AtMostOnce
<1>1. Once => AtMostOnce
  BY DEF Once, AtMostOnce
<1> QED
  BY <1>1, AlwaysOnce, PTL

-----------------------------------------------------------------------------
(* Where actions are performed.                                            *)

(* A crawler that is about to act is on the page it acts for.              *)
Placed(label, r) ==
  /\ label \in {"home", "explore", "attempt", "repeat", "act"} => r.at = r.source
  /\ label \in {"add", "register", "record"} => ~r.astray
  /\ label = "seed" => r.source = Home

Real == ~strayed => ~bogus /\ \A c \in Crawlers : Placed(pc[c], run[c])

LEMMA OneIsPlaced ==
  ASSUME Real, NEW c \in Crawlers, OthersStay(c),
         strayed => strayed', bogus' => bogus \/ strayed',
         ~strayed' => Placed(pc'[c], run'[c])
  PROVE  Real'
<1>1. ASSUME ~strayed', NEW d \in Crawlers
      PROVE  Placed(pc'[d], run'[d])
  BY <1>1 DEF Real, OthersStay
<1> QED
  BY <1>1 DEF Real

(* As long as no replay has failed, the crawler is where it belongs.       *)
LEMMA PlaceOf ==
  ASSUME Typed, Real, NEW c \in Crawlers
  PROVE  /\ run[c] \in Run
         /\ ~strayed => Placed(pc[c], run[c])
  BY DEF Typed, TypeOK, Real

LEMMA ReplayPlaces ==
  ASSUME Typed, Real, NEW c \in Crawlers, NEW label, NEW todo, NEW elsewhere,
         Replay(c, label, todo, elsewhere), label \in {"explore", "attempt"}, UNCHANGED bogus
  PROVE  Real'
<1>r. run[c] \in Run
  BY PlaceOf
<1>o. OthersStay(c)
  BY ReplayAlone DEF Typed
<1>1. CASE /\ Goto(c, label) /\ UNCHANGED strayed
           /\ Becomes(c, [run[c] EXCEPT !.at = run[c].source, !.todo = todo])
  <2> DEFINE r == [run[c] EXCEPT !.at = run[c].source, !.todo = todo]
  <2>1. r.at = r.source
    BY <1>r DEF Run
  <2>2. Placed(label, r)
    BY <2>1 DEF Placed
  <2> HIDE DEF r
  <2>3. pc'[c] = label /\ run'[c] = r
    BY <1>1, GoesAlone, BecomesAlone DEF r, Typed
  <2> QED
    BY <1>1, <1>o, <2>2, <2>3, OneIsPlaced
<1>2. CASE strayed'
  BY <1>2 DEF Real
<1> QED
  BY <1>1, <1>2 DEF Replay

LEMMA SeedPlaces ==
  ASSUME Typed, Real, NEW c \in Crawlers,
         StartSlice(c) \/ SeedInitialState(c) \/ RegisterHome(c) \/ MarkStatePending(c)
  PROVE  Real'
<1> USE DEF nodes, work, history
<1>r. run[c] \in Run /\ (~strayed => Placed(pc[c], run[c]))
  BY PlaceOf
<1>o. OthersStay(c)
  BY SeedQuiet DEF Quiet, Typed
<1>u. UNCHANGED <<strayed, bogus>>
  BY DEF StartSlice, SeedInitialState, RegisterHome, MarkStatePending
<1>s. ~strayed => Placed(pc'[c], run'[c])
  <2>1. CASE StartSlice(c)
    <3>1. pc'[c] = "seed" /\ run'[c] = [Idle EXCEPT !.states = Cardinality(known),
                                                    !.transitions = Cardinality(transitions)]
      BY <2>1, GoesAlone, BecomesAlone DEF StartSlice, Typed
    <3> QED
      BY <3>1 DEF Placed, Idle
  <2>2. CASE SeedInitialState(c)
    <3>1. pc'[c] = "home" /\ pc[c] = "seed"
      BY <2>2, GoesAlone DEF SeedInitialState, Typed
    <3>2. run'[c] = [[run[c] EXCEPT !.at = Home]
                       EXCEPT !.states = @ + (IF Home \in known THEN 0 ELSE 1)]
      BY <2>2, BecomesAlone DEF SeedInitialState, AddToQueue, Typed
    <3>3. run'[c].at = Home /\ run'[c].source = run[c].source
      BY <1>r, <3>2 DEF Run
    <3> QED
      BY <1>r, <3>1, <3>3 DEF Placed
  <2>3. CASE RegisterHome(c)
    <3>1. CASE Goto(c, "loop")
      BY <3>1, GoesAlone DEF Placed, Typed
    <3>2. CASE Goto(c, "attempt") /\ Becomes(c, [run[c] EXCEPT !.item = Login])
      <4>1. pc'[c] = "attempt" /\ run'[c] = [run[c] EXCEPT !.item = Login] /\ pc[c] = "home"
        BY <2>3, <3>2, GoesAlone, BecomesAlone DEF RegisterHome, Typed
      <4>2. run'[c].at = run[c].at /\ run'[c].source = run[c].source
        BY <1>r, <4>1 DEF Run
      <4> QED
        BY <1>r, <4>1, <4>2 DEF Placed
    <3> QED
      BY <2>3, <3>1, <3>2 DEF RegisterHome
  <2>4. CASE MarkStatePending(c)
    BY <2>4, GoesAlone DEF MarkStatePending, Placed, Typed
  <2> QED
    BY <2>1, <2>2, <2>3, <2>4
<1> QED
  BY <1>o, <1>u, <1>s, OneIsPlaced

LEMMA LoopPlaces ==
  ASSUME Typed, Real, NEW c \in Crawlers,
         \/ ClaimNextPendingState(c) \/ NothingPending(c) \/ ClaimDeferredWork(c) \/ Yield(c)
         \/ MarkStateExplored(c) \/ MarkDeferredWorkProcessed(c)
  PROVE  Real'
<1> USE DEF nodes, work, history
<1>o. OthersStay(c)
  BY LoopQuiet, ExploreQuiet DEF Quiet, Typed
<1>u. UNCHANGED <<strayed, bogus>>
  BY DEF ClaimNextPendingState, NothingPending, ClaimDeferredWork, Yield, MarkStateExplored,
         MarkDeferredWorkProcessed
<1>1. pc'[c] \in {"replay", "deferredClaim", "idle", "deferred", "loop"}
  BY GoesAlone DEF ClaimNextPendingState, NothingPending, ClaimDeferredWork, Yield, Ends,
                   MarkStateExplored, MarkDeferredWorkProcessed, Typed
<1>2. Placed(pc'[c], run'[c])
  BY <1>1 DEF Placed
<1> QED
  BY <1>o, <1>u, <1>2, OneIsPlaced

LEMMA ExplorePlaces ==
  ASSUME Typed, Real, NEW c \in Crawlers, Explore(c)
  PROVE  Real'
<1> USE DEF nodes, work
<1>r. run[c] \in Run /\ (~strayed => Placed(pc[c], run[c]))
  BY PlaceOf
<1>o. OthersStay(c)
  BY ExploreQuiet DEF Quiet, Typed
<1>u. UNCHANGED <<strayed, bogus>> /\ pc[c] = "explore"
  BY DEF Explore
<1>1. ASSUME NEW a, Becomes(c, [run[c] EXCEPT !.item = a, !.todo = @ \ {a}]),
             UNCHANGED pc \/ Goto(c, "return") \/ Goto(c, "attempt")
      PROVE  ~strayed => Placed(pc'[c], run'[c])
  <2>1. run'[c] = [run[c] EXCEPT !.item = a, !.todo = @ \ {a}]
    BY <1>1, BecomesAlone DEF Typed
  <2>2. run'[c].at = run[c].at /\ run'[c].source = run[c].source
    BY <1>r, <2>1 DEF Run
  <2>3. pc'[c] \in {"explore", "return", "attempt"}
    BY <1>1, <1>u, GoesAlone DEF Typed
  <2> QED
    BY <1>r, <1>u, <2>2, <2>3 DEF Placed
<1>2. ASSUME Goto(c, "explored")
      PROVE  Placed(pc'[c], run'[c])
  BY <1>2, GoesAlone DEF Placed, Typed
<1>3. ~strayed => Placed(pc'[c], run'[c])
  BY <1>1, <1>2 DEF Explore
<1> QED
  BY <1>o, <1>u, <1>3, OneIsPlaced

LEMMA AttemptPlaces ==
  ASSUME Typed, Real, NEW c \in Crawlers,
         MarkActionAttempted(c) \/ TryIncrementActionRepeat(c)
  PROVE  Real'
<1> USE DEF nodes, work, history
<1>r. (~strayed => Placed(pc[c], run[c])) /\ pc[c] \in {"attempt", "repeat"}
  BY PlaceOf DEF MarkActionAttempted, TryIncrementActionRepeat
<1>u. UNCHANGED <<strayed, bogus, run>>
  BY DEF MarkActionAttempted, TryIncrementActionRepeat
<1>1. pc'[c] \in {"repeat", "act"} \union {After(c, FALSE)} /\ OthersStay(c)
  BY <1>u, GoesAlone DEF MarkActionAttempted, TryIncrementActionRepeat, OthersStay, Typed
<1>2. After(c, FALSE) \in {"return", "processed", "loop", "pending"}
  BY AfterIsAway DEF Typed
<1>3. ~strayed => Placed(pc'[c], run'[c])
  BY <1>r, <1>u, <1>1, <1>2 DEF Placed
<1> QED
  BY <1>u, <1>1, <1>3, OneIsPlaced

LEMMA PerformPlaces ==
  ASSUME Typed, Real, NEW c \in Crawlers, ExecuteAction(c)
  PROVE  Real'
<1>r. run[c] \in Run /\ (~strayed => Placed(pc[c], run[c])) /\ pc[c] = "act"
  BY PlaceOf DEF ExecuteAction
<1>u. UNCHANGED <<strayed, bogus>>
  BY DEF ExecuteAction
<1>a. After(c, FALSE) \in {"return", "processed", "loop", "pending"}
  BY AfterIsAway DEF Typed
<1>1. ASSUME Goto(c, After(c, FALSE)), NEW r, Becomes(c, r)
      PROVE  Real'
  <2>1. pc'[c] = After(c, FALSE) /\ OthersStay(c)
    BY <1>1, GoesAlone, BecomesAlone DEF OthersStay, Typed
  <2>2. Placed(pc'[c], run'[c])
    BY <1>a, <2>1 DEF Placed
  <2> QED
    BY <1>u, <2>1, <2>2, OneIsPlaced
<1>2. ASSUME Goto(c, "add"), NEW s,
             Becomes(c, [run[c] EXCEPT !.at = s, !.astray = (run[c].at # run[c].source)])
      PROVE  Real'
  <2>1. OthersStay(c) /\ pc'[c] = "add"
    BY <1>2, GoesAlone, BecomesAlone DEF OthersStay, Typed
  <2>2. run'[c] = [run[c] EXCEPT !.at = s, !.astray = (run[c].at # run[c].source)]
    BY <1>2, BecomesAlone DEF Typed
  <2>3. run'[c].astray = (run[c].at # run[c].source)
    BY <1>r, <2>2 DEF Run
  <2>4. ~strayed => Placed(pc'[c], run'[c])
    BY <1>r, <2>1, <2>3 DEF Placed
  <2> QED
    BY <1>u, <2>1, <2>4, OneIsPlaced
<1> QED
  BY <1>1, <1>2 DEF ExecuteAction

LEMMA RecordPlaces ==
  ASSUME Typed, Real, NEW c \in Crawlers, AddState(c) \/ Register(c) \/ AddTransition(c)
  PROVE  Real'
<1> USE DEF nodes, work, history
<1>r. run[c] \in Run /\ (~strayed => Placed(pc[c], run[c]))
  BY PlaceOf
<1>o. OthersStay(c)
  BY RecordQuiet DEF Quiet, Typed
<1>1. CASE AddState(c)
  <2>1. pc[c] = "add" /\ pc'[c] = "register" /\ UNCHANGED <<strayed, bogus>>
    BY <1>1, GoesAlone DEF AddState, Typed
  <2>2. run'[c] = [run[c] EXCEPT !.states = @ + (IF run[c].at \in known THEN 0 ELSE 1)]
    BY <1>1, BecomesAlone DEF AddState, AddToQueue, Typed
  <2>3. run'[c].astray = run[c].astray
    BY <1>r, <2>2 DEF Run
  <2>4. ~strayed => Placed(pc'[c], run'[c])
    BY <1>r, <2>1, <2>3 DEF Placed
  <2> QED
    BY <1>o, <2>1, <2>4, OneIsPlaced
<1>2. CASE Register(c)
  <2>1. pc[c] = "register" /\ pc'[c] = "record" /\ UNCHANGED <<strayed, bogus, run>>
    BY <1>2, GoesAlone DEF Register, Typed
  <2>2. ~strayed => Placed(pc'[c], run'[c])
    BY <1>r, <2>1 DEF Placed
  <2> QED
    BY <1>o, <2>1, <2>2, OneIsPlaced
<1>3. CASE AddTransition(c)
  <2>1. pc[c] = "record" /\ pc'[c] = After(c, TRUE) /\ UNCHANGED strayed
    BY <1>3, GoesAlone DEF AddTransition, Typed
  <2>2. bogus' = (bogus \/ run[c].astray)
    BY <1>3 DEF AddTransition
  <2>3. bogus' => bogus \/ strayed'
    BY <1>r, <2>1, <2>2 DEF Placed
  <2>4. After(c, TRUE) \in {"return", "processed", "loop", "pending"}
    BY AfterIsAway DEF Typed
  <2>5. Placed(pc'[c], run'[c])
    BY <2>1, <2>4 DEF Placed
  <2> QED
    BY <1>o, <2>1, <2>3, <2>5, OneIsPlaced
<1> QED
  BY <1>1, <1>2, <1>3

LEMMA FailurePlaces ==
  ASSUME Typed, Real, NEW c \in Crawlers, Failure(c)
  PROVE  Real'
<1>o. OthersStay(c)
  BY FailureQuiet DEF Quiet, Typed
<1>u. UNCHANGED <<strayed, bogus>>
  BY DEF Failure, Kill, Cancel, Fault, history
<1>1. pc'[c] \in {"idle"} \union {After(c, FALSE)}
  BY GoesAlone DEF Failure, Kill, Cancel, Fault, Ends, Typed
<1>2. After(c, FALSE) \in {"return", "processed", "loop", "pending"}
  BY AfterIsAway DEF Typed
<1>3. Placed(pc'[c], run'[c])
  BY <1>1, <1>2 DEF Placed
<1> QED
  BY <1>o, <1>u, <1>3, OneIsPlaced

LEMMA StepReal == Typed /\ Real /\ [Next]_vars => Real'
<1> SUFFICES ASSUME Typed, Real, [Next]_vars PROVE Real'
  OBVIOUS
<1>1. CASE UNCHANGED vars
  BY <1>1 DEF Real, vars, history
<1>2. ASSUME NEW c \in Crawlers, ReplayState(c) \/ ReplayAfterAction(c) \/ RunDeferredItem(c)
      PROVE  Real'
  BY <1>2, ReplayPlaces DEF ReplayState, ReplayAfterAction, RunDeferredItem
<1>3. CASE Next
  BY <1>2, <1>3, SeedPlaces, LoopPlaces, ExplorePlaces, AttemptPlaces, PerformPlaces,
     RecordPlaces, FailurePlaces DEF Next, Slice
<1> QED
  BY <1>1, <1>3

(* As long as every replay succeeds, a transition is recorded only for the *)
(* state its action was performed in: every path from one action to the    *)
(* next goes through a replay (_replay_after_action, _run_deferred_item).  *)
THEOREM TransitionsStartAtTheirSource == Spec => []TransitionsAreReal
<1>1. Init => Real
  BY DEF Init, Real, Placed
<1>2. Typed /\ Real /\ [Next]_vars => Real'
  BY StepReal
<1>3. Real => TransitionsAreReal
  BY DEF Real, TransitionsAreReal
<1> QED
  BY <1>1, <1>2, <1>3, AlwaysTyped, PTL DEF Spec

-----------------------------------------------------------------------------
(* How often a url sees an action.                                         *)

(* An action that was performed, or is about to be, has been counted.      *)
Taken(i) ==
  performed[i] > 0 \/ \E c \in Crawlers : pc[c] = "act" /\ Item(c) = i

TakenAt(u, a) == {s \in States : Url[s] = u /\ Taken(<<s, a>>)}

Counted ==
  \A u \in Urls, a \in Actions : Cardinality(TakenAt(u, a)) <= repeats[u][a]

LEMMA TakenAtIsFinite ==
  ASSUME NEW u, NEW a
  PROVE  IsFiniteSet(TakenAt(u, a)) /\ Cardinality(TakenAt(u, a)) \in Nat
<1>1. IsFiniteSet(States) /\ TakenAt(u, a) \subseteq States
  BY SiteAssumption DEF SiteAssumption, TakenAt
<1> QED
  BY <1>1, FS_Subset, FS_CardinalityType

(* A step that counts nothing may take nothing new.                        *)
LEMMA NothingTaken ==
  ASSUME Typed, Counted, UNCHANGED repeats,
         \A i \in Items : Taken(i)' => Taken(i)
  PROVE  Counted'
<1> SUFFICES ASSUME NEW u \in Urls, NEW a \in Actions
             PROVE  Cardinality(TakenAt(u, a)') <= repeats[u][a]
  BY DEF Counted
<1>1. TakenAt(u, a)' \subseteq TakenAt(u, a)
  BY DEF TakenAt, Items
<1>2. Cardinality(TakenAt(u, a)') <= Cardinality(TakenAt(u, a))
  BY <1>1, TakenAtIsFinite, FS_Subset
<1>3. Cardinality(TakenAt(u, a)') \in Nat /\ Cardinality(TakenAt(u, a)) \in Nat
  BY <1>1, TakenAtIsFinite, FS_Subset, FS_CardinalityType
<1>4. Cardinality(TakenAt(u, a)) <= repeats[u][a] /\ repeats[u][a] \in Nat
  BY SiteAssumption DEF Counted, Typed, TypeOK, SiteAssumption
<1> QED
  BY <1>2, <1>3, <1>4

LEMMA QuietCounted ==
  ASSUME Typed, Counted, NEW c \in Crawlers, Quiet(c)
  PROVE  Counted'
<1>1. \A d \in Crawlers : pc'[d] = "act" => pc[d] = "act" /\ Item(d)' = Item(d)
  BY DEF Quiet, OthersStay, Item
<1>2. \A i \in Items : Taken(i)' => Taken(i)
  BY <1>1 DEF Taken, Quiet
<1> QED
  BY <1>2, NothingTaken DEF Quiet

LEMMA AttemptCounted ==
  ASSUME Typed, Counted, NEW c \in Crawlers, MarkActionAttempted(c)
  PROVE  Counted'
<1> USE DEF work, history
<1>1. pc'[c] # "act" /\ UNCHANGED <<run, repeats, performed>>
  <2>1. pc'[c] \in {"repeat", After(c, FALSE)} /\ UNCHANGED <<run, repeats, performed>>
    BY GoesAlone DEF MarkActionAttempted, Typed
  <2>2. After(c, FALSE) # "act"
    BY AfterIsAway DEF Typed
  <2> QED
    BY <2>1, <2>2
<1>2. \A d \in Crawlers : pc'[d] = "act" => pc[d] = "act" /\ Item(d)' = Item(d)
  BY <1>1, GoesAlone DEF MarkActionAttempted, Typed, Item
<1>3. \A i \in Items : Taken(i)' => Taken(i)
  BY <1>1, <1>2 DEF Taken
<1> QED
  BY <1>1, <1>3, NothingTaken

LEMMA PerformCounted ==
  ASSUME Typed, Counted, NEW c \in Crawlers, ExecuteAction(c)
  PROVE  Counted'
<1> USE DEF work, history
<1>1. pc[c] = "act" /\ UNCHANGED repeats /\ performed' = [performed EXCEPT ![Item(c)] = @ + 1]
  BY DEF ExecuteAction
<1>2. OthersStay(c) /\ pc'[c] # "act"
  <2>1. ASSUME NEW label \in {"return", "processed", "loop", "pending", "add"}, NEW r,
               Goto(c, label), Becomes(c, r)
        PROVE  OthersStay(c) /\ pc'[c] # "act"
    BY <2>1, GoesAlone, BecomesAlone DEF OthersStay, Typed
  <2>2. After(c, FALSE) \in {"return", "processed", "loop", "pending", "add"}
    BY AfterIsAway DEF Typed
  <2> QED
    BY <2>1, <2>2 DEF ExecuteAction
<1>3. \A d \in Crawlers : pc'[d] = "act" => pc[d] = "act" /\ Item(d)' = Item(d)
  BY <1>2 DEF OthersStay, Item
<1>4. \A i \in Items : i # Item(c) => performed'[i] = performed[i]
  BY <1>1 DEF Typed, TypeOK
<1>5. \A i \in Items : Taken(i)' => Taken(i)
  BY <1>1, <1>3, <1>4 DEF Taken
<1> QED
  BY <1>1, <1>5, NothingTaken

LEMMA IncrementCounted ==
  ASSUME Typed, Counted, NEW c \in Crawlers, TryIncrementActionRepeat(c)
  PROVE  Counted'
<1> USE DEF work, history
<1> DEFINE s == run[c].source
           b == run[c].item
<1>i. pc[c] = "repeat" /\ s \in States /\ b \in Actions /\ Url[s] \in Urls
  BY DEF TryIncrementActionRepeat, Typed, TypeOK, LocalsFit, Fits, Run, Urls
<1>u. UNCHANGED <<run, performed>> /\ \A d \in Crawlers \ {c} : pc'[d] = pc[d]
  BY GoesAlone DEF TryIncrementActionRepeat, Typed
<1>m. \A d \in Crawlers : Item(d)' = Item(d)
  BY <1>u DEF Item
<1>1. CASE ~(repeats[Url[s]][b] < MaxRepeats)
  <2>1. UNCHANGED repeats /\ pc'[c] = After(c, FALSE)
    BY <1>1, GoesAlone DEF TryIncrementActionRepeat, Typed
  <2>2. pc'[c] # "act"
    BY <2>1, AfterIsAway DEF Typed
  <2>3. \A i \in Items : Taken(i)' => Taken(i)
    BY <1>u, <1>m, <2>2 DEF Taken
  <2> QED
    BY <2>1, <2>3, NothingTaken
<1>2. CASE repeats[Url[s]][b] < MaxRepeats
  <2>1. repeats' = [repeats EXCEPT ![Url[s]][b] = @ + 1]
    BY <1>2 DEF TryIncrementActionRepeat
  <2>2. \A i \in Items : Taken(i)' => Taken(i) \/ i = <<s, b>>
    BY <1>u, <1>m DEF Taken, Item
  <2>r. repeats \in [Urls -> [Actions -> Nat]]
    BY SiteAssumption DEF Typed, TypeOK, SiteAssumption
  <2> SUFFICES ASSUME NEW u \in Urls, NEW a \in Actions
               PROVE  Cardinality(TakenAt(u, a)') <= repeats'[u][a]
    BY DEF Counted
  <2>c. Cardinality(TakenAt(u, a)) <= repeats[u][a] /\ repeats[u][a] \in Nat
    BY <2>r DEF Counted
  <2>3. CASE u = Url[s] /\ a = b
    <3>1. TakenAt(u, a)' \subseteq TakenAt(u, a) \union {s}
      BY <2>2, <2>3 DEF TakenAt, Items
    <3>2. /\ IsFiniteSet(TakenAt(u, a) \union {s})
          /\ \/ Cardinality(TakenAt(u, a) \union {s}) = Cardinality(TakenAt(u, a))
             \/ Cardinality(TakenAt(u, a) \union {s}) = Cardinality(TakenAt(u, a)) + 1
      BY TakenAtIsFinite, FS_AddElement
    <3>3. /\ Cardinality(TakenAt(u, a)') <= Cardinality(TakenAt(u, a) \union {s})
          /\ Cardinality(TakenAt(u, a)') \in Nat
      BY <3>1, <3>2, FS_Subset, FS_CardinalityType
    <3>4. repeats'[u][a] = repeats[u][a] + 1
      BY <1>i, <2>1, <2>3, <2>r
    <3> QED
      BY <2>c, <3>2, <3>3, <3>4, TakenAtIsFinite
  <2>4. CASE ~(u = Url[s] /\ a = b)
    <3>1. TakenAt(u, a)' \subseteq TakenAt(u, a)
      BY <2>2, <2>4 DEF TakenAt, Items
    <3>2. /\ Cardinality(TakenAt(u, a)') <= Cardinality(TakenAt(u, a))
          /\ Cardinality(TakenAt(u, a)') \in Nat
      BY <3>1, TakenAtIsFinite, FS_Subset, FS_CardinalityType
    <3>3. repeats'[u][a] = repeats[u][a]
      BY <1>i, <2>1, <2>4, <2>r
    <3> QED
      BY <2>c, <3>2, <3>3, TakenAtIsFinite
  <2> QED
    BY <2>3, <2>4
<1> QED
  BY <1>1, <1>2

LEMMA AlwaysCounted == Spec => []Counted
<1>1. Init => Counted
  <2> SUFFICES ASSUME Init, NEW u \in Urls, NEW a \in Actions
               PROVE  Cardinality(TakenAt(u, a)) <= repeats[u][a]
    BY DEF Counted
  <2>1. TakenAt(u, a) = {}
    BY DEF Init, TakenAt, Taken, Items
  <2>2. repeats[u][a] = 0
    BY DEF Init
  <2> QED
    BY <2>1, <2>2, FS_EmptySet
<1>2. Typed /\ Counted /\ [Next]_vars => Counted'
  <2> SUFFICES ASSUME Typed, Counted, [Next]_vars PROVE Counted'
    OBVIOUS
  <2>1. CASE UNCHANGED vars
    <3>1. UNCHANGED repeats /\ \A i \in Items : Taken(i)' => Taken(i)
      BY <2>1 DEF Taken, Item, vars, work, history
    <3> QED
      BY <3>1, NothingTaken
  <2>2. CASE Next
    BY <2>2, QuietOrSequence, QuietCounted, AttemptCounted, IncrementCounted, PerformCounted
       DEF Typed
  <2> QED
    BY <2>1, <2>2
<1> QED
  BY <1>1, <1>2, AlwaysTyped, PTL DEF Spec

(* On one url an action is performed for at most MaxRepeats states, also   *)
(* when overlapping crawlers count at once: the counter is incremented     *)
(* before the action, and only below the cap (TRY_INCREMENT_ACTION_REPEAT) *)
THEOREM RepeatsStayCapped == Spec => []RepeatsAreCapped
<1>1. Typed /\ Counted => RepeatsAreCapped
  <2> SUFFICES ASSUME Typed, Counted, NEW u \in Urls, NEW a \in Actions
               PROVE  Cardinality({s \in States : Url[s] = u /\ performed[<<s, a>>] > 0})
                        <= MaxRepeats
    BY DEF RepeatsAreCapped
  <2> DEFINE done == {s \in States : Url[s] = u /\ performed[<<s, a>>] > 0}
  <2>1. done \subseteq TakenAt(u, a)
    BY DEF TakenAt, Taken
  <2>2. Cardinality(done) <= Cardinality(TakenAt(u, a)) /\ Cardinality(done) \in Nat
    BY <2>1, TakenAtIsFinite, FS_Subset, FS_CardinalityType
  <2>3. Cardinality(TakenAt(u, a)) <= repeats[u][a]
    BY DEF Counted
  <2>4. repeats[u][a] \in 0 .. MaxRepeats /\ MaxRepeats \in Nat
    BY SiteAssumption DEF Typed, TypeOK, SiteAssumption
  <2> QED
    BY <2>2, <2>3, <2>4, TakenAtIsFinite
<1> QED
  BY <1>1, AlwaysTyped, AlwaysCounted, PTL
-----------------------------------------------------------------------------
(* What is in the hands of a crawler.                                      *)

(* The control points of _execute_action_sequence, and of a login.         *)
Sequence == {"attempt", "repeat", "act", "add", "register", "record"}
LoginPlaces == Sequence \union {"home", "pending"}

TriesLogin(c) == run[c].mode = "login" /\ pc[c] \in LoginPlaces
HoldsState(c, s) == Holding(c) /\ run[c].mode = "state" /\ run[c].source = s
HoldsItem(c, i) == Holding(c) /\ run[c].mode = "deferred" /\ Item(c) = i

(* An action of a state that need not be tried again.                      *)
Settled(i) == i \in attempted \/ deferred[i] # "none"

(* What a run is doing can be told from where it is.                       *)
InMode(label, r) ==
  /\ label \in {"replay", "explore", "return", "explored"} => r.mode = "state"
  /\ label \in {"deferred", "processed"} => r.mode = "deferred"
  /\ label \in {"seed", "home", "pending"} => r.mode = "login"
  /\ label \in LoginPlaces \union {"seed"} /\ r.mode = "login" => r.source = Home
  /\ label \in LoginPlaces \ {"home"} /\ r.mode = "login" => r.item = Login /\ Login # NoLogin

(* A crawler that explores a state has yet to try what is not settled.     *)
Covered(c) ==
  pc[c] \in Sequence \union {"explore", "return", "explored"} /\ run[c].mode = "state"
    /\ run[c].source \notin excused =>
      /\ \A a \in Offered[run[c].source] :
           \/ a \in run[c].todo \/ Settled(<<run[c].source, a>>)
           \/ pc[c] = "attempt" /\ run[c].item = a
      /\ pc[c] = "explored" => run[c].todo = {}

(* A deferred item is attempted before it is processed.                    *)
SequenceFits(c) ==
  pc[c] \in (Sequence \ {"attempt"}) \union {"processed"} /\ run[c].mode = "deferred"
    /\ run[c].source \notin excused => Item(c) \in attempted

InHand == \A c \in Crawlers : InMode(pc[c], run[c]) /\ Covered(c) /\ SequenceFits(c)

(* What is claimed has a holder; a home page that is not enqueued has a    *)
(* crawler that logs in, or is behind.                                     *)
StatesAreHeld ==
  \A s \in States \ excused :
    /\ frontier[s] = "exploring" => \E c \in Crawlers : HoldsState(c, s)
    /\ s \in seen /\ frontier[s] = "none" =>
         /\ s = Home /\ Login # NoLogin
         /\ \/ \E c \in Crawlers : TriesLogin(c)
            \/ \E s2 \in States : <<Home, Login, s2>> \in transitions

ItemsAreHeld ==
  \A i \in Items : i[1] \notin excused =>
    /\ deferred[i] = "processing" => \E c \in Crawlers : HoldsItem(c, i)
    /\ deferred[i] = "processed" => i \in attempted

Kept == InHand /\ ExploredThoroughly /\ StatesAreHeld /\ ItemsAreHeld

-----------------------------------------------------------------------------
(* What a step has to see to, for nothing to be lost in it.                *)

KeepsStates(c) ==
  /\ \A s \in States : frontier'[s] = "none" => frontier[s] = "none"
  /\ \A s \in States \ excused' :
       /\ frontier'[s] = "exploring" =>
            HoldsState(c, s)' \/ (frontier[s] = "exploring" /\ ~HoldsState(c, s))
       /\ frontier'[s] = "explored" =>
            frontier[s] = "explored" \/ \A a \in Offered[s] : Settled(<<s, a>>)'
       /\ s \in seen' /\ frontier'[s] = "none" =>
            s \in seen \/ (s = Home /\ Login # NoLogin /\ TriesLogin(c)')
  /\ Login # NoLogin /\ TriesLogin(c) =>
       \/ TriesLogin(c)' \/ Home \in excused' \/ frontier'[Home] # "none"
       \/ \E s2 \in States : <<Home, Login, s2>> \in transitions'

KeepsItems(c) ==
  \A i \in Items :
    /\ deferred'[i] = "none" => deferred[i] = "none"
    /\ i[1] \notin excused' =>
         /\ deferred'[i] = "processing" =>
              HoldsItem(c, i)' \/ (deferred[i] = "processing" /\ ~HoldsItem(c, i))
         /\ deferred'[i] = "processed" => deferred[i] = "processed" \/ i \in attempted'

KeepsPlace(c) == (InMode(pc[c], run[c]) /\ Covered(c) /\ SequenceFits(c))'

Adds ==
  /\ attempted \subseteq attempted' /\ excused \subseteq excused'
  /\ transitions \subseteq transitions'

Careful(c) ==
  OthersStay(c) /\ Adds /\ KeepsStates(c) /\ KeepsItems(c) /\ KeepsPlace(c)

LEMMA OfferedItems ==
  ASSUME NEW s \in States, NEW a \in Offered[s]
  PROVE  <<s, a>> \in Items /\ a \in Actions
  BY SiteAssumption DEF SiteAssumption, Items

LEMMA SettledStays ==
  ASSUME Adds, NEW c, KeepsItems(c), NEW i \in Items, Settled(i)
  PROVE  Settled(i)'
  BY DEF Adds, KeepsItems, Settled

LEMMA CarefulKeeps ==
  ASSUME Typed, Kept, NEW c \in Crawlers, Careful(c)
  PROVE  Kept'
<1>e. excused \subseteq excused' /\ attempted \subseteq attempted'
      /\ transitions \subseteq transitions'
  BY DEF Careful, Adds
<1>o. \A d \in Crawlers \ {c} : pc'[d] = pc[d] /\ run'[d] = run[d]
  BY DEF Careful, OthersStay
<1>s. ASSUME NEW s \in States, NEW a \in Offered[s], Settled(<<s, a>>)
      PROVE  Settled(<<s, a>>)'
  BY <1>s, OfferedItems, SettledStays DEF Careful
<1>t. \A d \in Crawlers : run[d].source \in States
  BY DEF Typed, TypeOK, Run
<1>1. InHand'
  <2> SUFFICES ASSUME NEW d \in Crawlers
               PROVE  (InMode(pc[d], run[d]) /\ Covered(d) /\ SequenceFits(d))'
    BY DEF InHand
  <2>1. CASE d = c
    BY <2>1 DEF Careful, KeepsPlace
  <2>2. CASE d # c
    <3>1. pc'[d] = pc[d] /\ run'[d] = run[d] /\ run[d].source \in States
      BY <1>o, <1>t, <2>2
    <3>2. InMode(pc[d], run[d]) /\ Covered(d) /\ SequenceFits(d)
      BY DEF Kept, InHand
    <3>3. Covered(d)'
      BY <1>e, <1>s, <3>1, <3>2 DEF Covered
    <3>4. SequenceFits(d)'
      BY <1>e, <3>1, <3>2 DEF SequenceFits, Item
    <3> QED
      BY <3>1, <3>2, <3>3, <3>4
  <2> QED
    BY <2>1, <2>2
<1>2. ExploredThoroughly'
  <2> SUFFICES ASSUME NEW s \in States, s \notin excused', frontier'[s] = "explored",
                      NEW a \in Offered[s]
               PROVE  Settled(<<s, a>>)'
    BY DEF ExploredThoroughly, Settled
  <2>1. CASE frontier[s] = "explored"
    <3>1. Settled(<<s, a>>)
      BY <1>e, <2>1 DEF Kept, ExploredThoroughly, Settled
    <3> QED
      BY <1>s, <3>1
  <2>2. CASE frontier[s] # "explored"
    BY <2>2 DEF Careful, KeepsStates
  <2> QED
    BY <2>1, <2>2
<1>3. StatesAreHeld'
  <2> SUFFICES ASSUME NEW s \in States, s \notin excused'
      PROVE  /\ frontier'[s] = "exploring" => \E d \in Crawlers : HoldsState(d, s)'
             /\ s \in seen' /\ frontier'[s] = "none" =>
                  /\ s = Home /\ Login # NoLogin
                  /\ \/ \E d \in Crawlers : TriesLogin(d)'
                     \/ \E s2 \in States : <<Home, Login, s2>> \in transitions'
    BY DEF StatesAreHeld
  <2>n. s \notin excused
    BY <1>e
  <2>1. ASSUME frontier'[s] = "exploring"
        PROVE  \E d \in Crawlers : HoldsState(d, s)'
    <3>1. CASE HoldsState(c, s)'
      BY <3>1
    <3>2. CASE frontier[s] = "exploring" /\ ~HoldsState(c, s)
      <4>1. PICK d \in Crawlers : HoldsState(d, s)
        BY <2>n, <3>2 DEF Kept, StatesAreHeld
      <4>2. d # c
        BY <3>2, <4>1
      <4>3. HoldsState(d, s)'
        BY <1>o, <4>1, <4>2 DEF HoldsState, Holding
      <4> QED
        BY <4>3
    <3> QED
      BY <2>1, <3>1, <3>2 DEF Careful, KeepsStates
  <2>2. ASSUME s \in seen', frontier'[s] = "none"
        PROVE  /\ s = Home /\ Login # NoLogin
               /\ \/ \E d \in Crawlers : TriesLogin(d)'
                  \/ \E s2 \in States : <<Home, Login, s2>> \in transitions'
    <3>1. CASE s = Home /\ Login # NoLogin /\ TriesLogin(c)'
      BY <3>1
    <3>2. CASE s \in seen
      <4>1. frontier[s] = "none"
        BY <2>2 DEF Careful, KeepsStates
      <4>2. /\ s = Home /\ Login # NoLogin
            /\ \/ \E d \in Crawlers : TriesLogin(d)
               \/ \E s2 \in States : <<Home, Login, s2>> \in transitions
        BY <2>n, <3>2, <4>1 DEF Kept, StatesAreHeld
      <4>3. \A d \in Crawlers \ {c} : TriesLogin(d) => TriesLogin(d)'
        BY <1>o DEF TriesLogin
      <4>4. TriesLogin(c) => \/ TriesLogin(c)'
                             \/ \E s2 \in States : <<Home, Login, s2>> \in transitions'
        BY <2>2, <4>2 DEF Careful, KeepsStates
      <4> QED
        BY <1>e, <4>2, <4>3, <4>4
    <3> QED
      BY <2>2, <3>1, <3>2 DEF Careful, KeepsStates
  <2> QED
    BY <2>1, <2>2
<1>4. ItemsAreHeld'
  <2> SUFFICES ASSUME NEW i \in Items, i[1] \notin excused'
      PROVE  /\ deferred'[i] = "processing" => \E d \in Crawlers : HoldsItem(d, i)'
             /\ deferred'[i] = "processed" => i \in attempted'
    BY DEF ItemsAreHeld
  <2>n. i[1] \notin excused
    BY <1>e
  <2>1. ASSUME deferred'[i] = "processing"
        PROVE  \E d \in Crawlers : HoldsItem(d, i)'
    <3>1. CASE HoldsItem(c, i)'
      BY <3>1
    <3>2. CASE deferred[i] = "processing" /\ ~HoldsItem(c, i)
      <4>1. PICK d \in Crawlers : HoldsItem(d, i)
        BY <2>n, <3>2 DEF Kept, ItemsAreHeld
      <4>2. d # c
        BY <3>2, <4>1
      <4>3. HoldsItem(d, i)'
        BY <1>o, <4>1, <4>2 DEF HoldsItem, Holding, Item
      <4> QED
        BY <4>3
    <3> QED
      BY <2>1, <3>1, <3>2 DEF Careful, KeepsItems
  <2>2. ASSUME deferred'[i] = "processed"
        PROVE  i \in attempted'
    <3>1. deferred[i] = "processed" \/ i \in attempted'
      BY <2>2 DEF Careful, KeepsItems
    <3>2. deferred[i] = "processed" => i \in attempted
      BY <2>n DEF Kept, ItemsAreHeld
    <3> QED
      BY <1>e, <3>1, <3>2
  <2> QED
    BY <2>1, <2>2
<1> QED
  BY <1>1, <1>2, <1>3, <1>4 DEF Kept

-----------------------------------------------------------------------------
(* Every step sees to it.                                                  *)

LEMMA WhereItIs ==
  ASSUME Typed, Kept, NEW c \in Crawlers
  PROVE  /\ InMode(pc[c], run[c]) /\ Covered(c) /\ SequenceFits(c)
         /\ run[c] \in Run /\ run[c].source \in States /\ run[c].mode \in Mode
         /\ pc[c] \in Pc
  BY DEF Typed, TypeOK, Run, Kept, InHand

(* A step that leaves the frontier and the deferred work as they are may   *)
(* not let go of anything.                                                 *)
LEMMA NothingSettled ==
  ASSUME NEW c \in Crawlers, Adds, UNCHANGED <<frontier, seen, deferred>>,
         \A s \in States \ excused' : HoldsState(c, s) => HoldsState(c, s)',
         \A i \in Items : i[1] \notin excused' /\ HoldsItem(c, i) => HoldsItem(c, i)',
         TriesLogin(c) => TriesLogin(c)' \/ Home \in excused'
  PROVE  KeepsStates(c) /\ KeepsItems(c)
<1>1. frontier' = frontier /\ seen' = seen /\ deferred' = deferred
  OBVIOUS
<1>2. \A s \in States \ excused' :
        /\ frontier'[s] = "exploring" =>
             HoldsState(c, s)' \/ (frontier[s] = "exploring" /\ ~HoldsState(c, s))
        /\ frontier'[s] = "explored" => frontier[s] = "explored"
        /\ s \in seen' => s \in seen
  BY <1>1
<1>3. \A i \in Items :
        i[1] \notin excused' /\ deferred'[i] = "processing" =>
          HoldsItem(c, i)' \/ (deferred[i] = "processing" /\ ~HoldsItem(c, i))
  BY <1>1
<1>4. KeepsStates(c)
  BY <1>1, <1>2 DEF KeepsStates
<1>5. KeepsItems(c)
  BY <1>1, <1>3 DEF KeepsItems
<1> QED
  BY <1>4, <1>5

(* The control points at which a crawler has nothing in its hands.         *)
EmptyHanded(label) == label \in {"idle", "seed", "loop", "deferredClaim"}

LEMMA EmptyHandedHolds ==
  ASSUME NEW c, EmptyHanded(pc[c])
  PROVE  /\ ~Holding(c) /\ ~TriesLogin(c) /\ Covered(c) /\ SequenceFits(c)
         /\ \A s : ~HoldsState(c, s)
         /\ \A i : ~HoldsItem(c, i)
  BY DEF EmptyHanded, Holding, TriesLogin, LoginPlaces, Sequence, HoldsState, HoldsItem, Covered,
         SequenceFits

LEMMA EmptyHandedPlace ==
  ASSUME NEW c, EmptyHanded(pc'[c]),
         pc'[c] = "seed" => run'[c].mode = "login" /\ run'[c].source = Home
  PROVE  /\ KeepsPlace(c) /\ ~TriesLogin(c)'
         /\ \A s : ~HoldsState(c, s)'
         /\ \A i : ~HoldsItem(c, i)'
<1>1. InMode(pc[c], run[c])'
  BY DEF EmptyHanded, InMode, LoginPlaces, Sequence
<1>2. Covered(c)' /\ SequenceFits(c)' /\ ~TriesLogin(c)'
  BY DEF EmptyHanded, TriesLogin, LoginPlaces, Sequence, Covered, SequenceFits
<1>3. (\A s : ~HoldsState(c, s)') /\ (\A i : ~HoldsItem(c, i)')
  BY DEF EmptyHanded, Holding, HoldsState, HoldsItem
<1> QED
  BY <1>1, <1>2, <1>3 DEF KeepsPlace

LEMMA EndsAlone ==
  ASSUME TypeOK, NEW c \in Crawlers, Ends(c)
  PROVE  OthersStay(c) /\ pc'[c] = "idle" /\ run'[c] = Idle
  BY GoesAlone, BecomesAlone DEF Ends, OthersStay

LEMMA StartCareful ==
  ASSUME Typed, Kept, NEW c \in Crawlers, StartSlice(c)
  PROVE  Careful(c)
<1> USE DEF nodes, work, history
<1>o. OthersStay(c)
  BY SeedQuiet DEF Quiet, Typed
<1>1. pc[c] = "idle" /\ pc'[c] = "seed" /\ run'[c].mode = "login" /\ run'[c].source = Home
  <2>1. pc[c] = "idle" /\ pc'[c] = "seed"
    BY GoesAlone DEF StartSlice, Typed
  <2>2. run'[c] = [Idle EXCEPT !.states = Cardinality(known),
                               !.transitions = Cardinality(transitions)]
    BY BecomesAlone DEF StartSlice, Typed
  <2> QED
    BY <2>1, <2>2 DEF Idle
<1>2. Adds /\ UNCHANGED <<frontier, seen, deferred>>
  BY DEF StartSlice, Adds
<1>3. KeepsPlace(c)
  BY <1>1, EmptyHandedPlace DEF EmptyHanded
<1>4. KeepsStates(c) /\ KeepsItems(c)
  BY <1>1, <1>2, EmptyHandedHolds, NothingSettled DEF EmptyHanded
<1> QED
  BY <1>o, <1>2, <1>3, <1>4 DEF Careful

LEMMA SeedCareful ==
  ASSUME Typed, Kept, NEW c \in Crawlers, SeedInitialState(c)
  PROVE  Careful(c)
<1>o. OthersStay(c)
  BY SeedQuiet DEF Quiet, Typed
<1>h. Home \in States
  BY SiteAssumption DEF SiteAssumption
<1>1. pc[c] = "seed" /\ pc'[c] = "home"
  BY GoesAlone DEF SeedInitialState, Typed
<1>2. run[c].mode = "login" /\ run[c].source = Home /\ run[c] \in Run
  BY <1>1, WhereItIs DEF InMode
<1>3. run'[c].mode = "login" /\ run'[c].source = run[c].source
  <2>1. \E n : run'[c] = [[run[c] EXCEPT !.at = Home] EXCEPT !.states = n]
    BY BecomesAlone DEF SeedInitialState, AddToQueue, Typed
  <2> QED
    BY <1>2, <2>1 DEF Run
<1>4. Adds /\ UNCHANGED deferred /\ seen' = seen \union {Home}
  BY DEF SeedInitialState, AddToQueue, Adds, history
<1>5. frontier' = IF Login = NoLogin THEN Enqueued(frontier, Home) ELSE frontier
  BY DEF SeedInitialState, AddToQueue
<1>6. ~Holding(c) /\ ~TriesLogin(c) /\ (\A s : ~HoldsState(c, s)) /\ (\A i : ~HoldsItem(c, i))
  BY <1>1, EmptyHandedHolds DEF EmptyHanded
<1>7. KeepsPlace(c) /\ TriesLogin(c)'
  <2>1. InMode(pc[c], run[c])'
    BY <1>1, <1>2, <1>3 DEF InMode, LoginPlaces, Sequence
  <2>2. Covered(c)' /\ SequenceFits(c)' /\ TriesLogin(c)'
    BY <1>1, <1>3 DEF Covered, SequenceFits, Sequence, TriesLogin, LoginPlaces
  <2> QED
    BY <2>1, <2>2 DEF KeepsPlace
<1>8. \A s \in States : frontier'[s] \in {frontier[s], "pending"}
  BY <1>5, <1>h DEF Enqueued, Typed, TypeOK
<1>9. KeepsStates(c)
  <2>1. Login = NoLogin => frontier'[Home] # "none"
    BY <1>5, <1>h DEF Enqueued, Typed, TypeOK
  <2>2. \A s \in States : s \in seen' /\ frontier'[s] = "none" =>
                          s \in seen \/ (s = Home /\ Login # NoLogin)
    BY <1>4, <2>1
  <2>3. \A s \in States :
          /\ frontier'[s] = "none" => frontier[s] = "none"
          /\ frontier'[s] = "exploring" => frontier[s] = "exploring"
          /\ frontier'[s] = "explored" => frontier[s] = "explored"
    BY <1>8
  <2> QED
    BY <1>4, <1>6, <1>7, <1>8, <2>1, <2>2, <2>3 DEF KeepsStates
<1>10. KeepsItems(c)
  BY <1>4, <1>6 DEF KeepsItems
<1> QED
  BY <1>o, <1>4, <1>7, <1>9, <1>10 DEF Careful

LEMMA RegisterHomeCareful ==
  ASSUME Typed, Kept, NEW c \in Crawlers, RegisterHome(c)
  PROVE  Careful(c)
<1> USE DEF nodes, work, history
<1>o. OthersStay(c)
  BY SeedQuiet DEF Quiet, Typed
<1>1. pc[c] = "home" /\ Adds /\ UNCHANGED <<frontier, seen, deferred>>
  BY DEF RegisterHome, Adds
<1>2. run[c].mode = "login" /\ run[c].source = Home /\ run[c] \in Run
  BY <1>1, WhereItIs DEF InMode, LoginPlaces
<1>3. ~Holding(c) /\ (\A s : ~HoldsState(c, s)) /\ (\A i : ~HoldsItem(c, i))
  BY <1>1 DEF Holding, HoldsState, HoldsItem
<1>4. CASE Login = NoLogin
  <2>1. pc'[c] = "loop"
    BY <1>4, GoesAlone DEF RegisterHome, Typed
  <2>2. KeepsPlace(c)
    BY <2>1, EmptyHandedPlace DEF EmptyHanded
  <2>3. KeepsItems(c)
    BY <1>1, <1>3 DEF KeepsItems
  <2>4. KeepsStates(c)
    BY <1>1, <1>3, <1>4 DEF KeepsStates
  <2> QED
    BY <1>o, <1>1, <2>2, <2>3, <2>4 DEF Careful
<1>5. CASE Login # NoLogin
  <2>1. pc'[c] = "attempt"
    BY <1>5, GoesAlone DEF RegisterHome, Typed
  <2>2. run'[c] = [run[c] EXCEPT !.item = Login]
    BY <1>5, BecomesAlone DEF RegisterHome, Typed
  <2>3. run'[c].mode = "login" /\ run'[c].source = Home /\ run'[c].item = Login
    BY <1>2, <2>2 DEF Run
  <2>4. TriesLogin(c)'
    BY <2>1, <2>3 DEF TriesLogin, LoginPlaces, Sequence
  <2>5. InMode(pc[c], run[c])'
    BY <1>5, <2>1, <2>3 DEF InMode
  <2>6. Covered(c)' /\ SequenceFits(c)'
    BY <2>3 DEF Covered, SequenceFits
  <2>7. KeepsStates(c) /\ KeepsItems(c)
    BY <1>1, <1>3, <2>4, NothingSettled
  <2> QED
    BY <1>o, <1>1, <2>5, <2>6, <2>7 DEF Careful, KeepsPlace
<1> QED
  BY <1>4, <1>5

LEMMA MarkPendingCareful ==
  ASSUME Typed, Kept, NEW c \in Crawlers, MarkStatePending(c)
  PROVE  Careful(c)
<1> USE DEF nodes, work, history
<1>o. OthersStay(c)
  BY SeedQuiet DEF Quiet, Typed
<1>h. Home \in States
  BY SiteAssumption DEF SiteAssumption
<1>1. pc[c] = "pending" /\ pc'[c] = "loop"
  BY GoesAlone DEF MarkStatePending, Typed
<1>2. Adds /\ UNCHANGED <<seen, deferred>> /\ frontier' = Enqueued(frontier, Home)
  BY DEF MarkStatePending, Adds
<1>3. /\ \A s \in States : frontier'[s] \in {frontier[s], "pending"}
      /\ frontier'[Home] # "none"
  BY <1>2, <1>h DEF Enqueued, Typed, TypeOK
<1>4. ~Holding(c) /\ (\A s : ~HoldsState(c, s)) /\ (\A i : ~HoldsItem(c, i))
  BY <1>1 DEF Holding, HoldsState, HoldsItem
<1>5. KeepsPlace(c)
  BY <1>1, EmptyHandedPlace DEF EmptyHanded
<1>6. KeepsStates(c)
  BY <1>2, <1>3, <1>4 DEF KeepsStates
<1>7. KeepsItems(c)
  BY <1>2, <1>4 DEF KeepsItems
<1> QED
  BY <1>o, <1>2, <1>5, <1>6, <1>7 DEF Careful

LEMMA ClaimCareful ==
  ASSUME Typed, Kept, NEW c \in Crawlers, ClaimNextPendingState(c)
  PROVE  Careful(c)
<1> USE DEF nodes, history
<1>o. OthersStay(c)
  BY LoopQuiet DEF Quiet, Typed
<1>1. pc[c] = "loop" /\ pc'[c] = "replay" /\ Adds /\ UNCHANGED <<seen, deferred>>
  BY GoesAlone DEF ClaimNextPendingState, Adds, Typed
<1>2. PICK s \in States :
        /\ frontier' = [frontier EXCEPT ![s] = "exploring"]
        /\ Becomes(c, [Fresh(c) EXCEPT !.mode = "state", !.source = s])
  BY DEF ClaimNextPendingState
<1>3. run'[c].mode = "state" /\ run'[c].source = s
  <2>1. run'[c] = [Fresh(c) EXCEPT !.mode = "state", !.source = s] /\ Fresh(c) \in Run
    BY <1>2, BecomesAlone, FreshType DEF Typed
  <2> QED
    BY <2>1 DEF Run
<1>4. ~TriesLogin(c) /\ (\A t : ~HoldsState(c, t)) /\ (\A i : ~HoldsItem(c, i))
  BY <1>1, EmptyHandedHolds DEF EmptyHanded
<1>5. HoldsState(c, s)'
  BY <1>1, <1>3 DEF HoldsState, Holding
<1>6. \A t \in States : frontier'[t] = IF t = s THEN "exploring" ELSE frontier[t]
  BY <1>2 DEF Typed, TypeOK
<1>7. KeepsStates(c)
  BY <1>1, <1>4, <1>5, <1>6 DEF KeepsStates
<1>8. KeepsItems(c)
  BY <1>1, <1>4 DEF KeepsItems
<1>9. KeepsPlace(c)
  BY <1>1, <1>3 DEF KeepsPlace, InMode, Covered, SequenceFits, Sequence, LoginPlaces
<1> QED
  BY <1>o, <1>1, <1>7, <1>8, <1>9 DEF Careful

(* A slice ends between two items of work, or looks for deferred work.     *)
LEMMA LetsGoCareful ==
  ASSUME Typed, Kept, NEW c \in Crawlers, OthersStay(c), EmptyHanded(pc[c]),
         pc'[c] \in {"idle", "deferredClaim"}, Adds, UNCHANGED <<frontier, seen, deferred>>
  PROVE  Careful(c)
<1>1. KeepsStates(c) /\ KeepsItems(c)
  BY EmptyHandedHolds, NothingSettled
<1>2. KeepsPlace(c)
  BY EmptyHandedPlace DEF EmptyHanded
<1> QED
  BY <1>1, <1>2 DEF Careful

LEMMA YieldCareful ==
  ASSUME Typed, Kept, NEW c \in Crawlers, NothingPending(c) \/ Yield(c)
  PROVE  Careful(c)
<1> USE DEF nodes, work, history
<1>o. OthersStay(c)
  BY LoopQuiet DEF Quiet, Typed
<1>1. pc[c] = "loop" /\ pc'[c] \in {"idle", "deferredClaim"}
  BY GoesAlone, EndsAlone DEF NothingPending, Yield, Typed
<1>2. Adds /\ UNCHANGED <<frontier, seen, deferred>>
  BY DEF NothingPending, Yield, Adds
<1> QED
  BY <1>o, <1>1, <1>2, LetsGoCareful DEF EmptyHanded

LEMMA ClaimDeferredCareful ==
  ASSUME Typed, Kept, NEW c \in Crawlers, ClaimDeferredWork(c)
  PROVE  Careful(c)
<1> USE DEF nodes, history
<1>o. OthersStay(c)
  BY LoopQuiet DEF Quiet, Typed
<1>1. pc[c] = "deferredClaim" /\ Adds /\ UNCHANGED <<seen, frontier>>
  BY DEF ClaimDeferredWork, Adds
<1>2. CASE PendingDeferred = {} /\ Ends(c) /\ UNCHANGED deferred
  <2>1. pc'[c] = "idle" /\ UNCHANGED <<frontier, seen, deferred>>
    BY <1>1, <1>2, EndsAlone DEF Typed
  <2> QED
    BY <1>o, <1>1, <2>1, LetsGoCareful DEF EmptyHanded
<1>3. ASSUME NEW i \in Items,
             deferred' = [deferred EXCEPT ![i] = "processing"],
             Becomes(c, [Fresh(c) EXCEPT !.mode = "deferred", !.source = i[1], !.item = i[2]]),
             Goto(c, "deferred")
      PROVE  Careful(c)
  <2>1. run'[c].mode = "deferred" /\ run'[c].source = i[1] /\ run'[c].item = i[2]
    <3>1. /\ run'[c] = [Fresh(c) EXCEPT !.mode = "deferred", !.source = i[1], !.item = i[2]]
          /\ Fresh(c) \in Run
      BY <1>3, BecomesAlone, FreshType DEF Typed
    <3> QED
      BY <3>1 DEF Run
  <2>2. pc'[c] = "deferred"
    BY <1>3, GoesAlone DEF Typed
  <2>3. ~TriesLogin(c) /\ (\A t : ~HoldsState(c, t)) /\ (\A j : ~HoldsItem(c, j))
    BY <1>1, EmptyHandedHolds DEF EmptyHanded
  <2>4. HoldsItem(c, i)'
    BY <2>1, <2>2 DEF HoldsItem, Holding, Item, Items
  <2>5. \A j \in Items : deferred'[j] = IF j = i THEN "processing" ELSE deferred[j]
    BY <1>3 DEF Typed, TypeOK
  <2>6. KeepsItems(c)
    BY <2>3, <2>4, <2>5 DEF KeepsItems
  <2>7. KeepsStates(c)
    BY <1>1, <2>3 DEF KeepsStates
  <2>8. KeepsPlace(c)
    BY <2>1, <2>2 DEF KeepsPlace, InMode, Covered, SequenceFits, Sequence, LoginPlaces
  <2> QED
    BY <1>o, <1>1, <2>6, <2>7, <2>8 DEF Careful
<1> QED
  BY <1>2, <1>3 DEF ClaimDeferredWork

(* The control points at which something is held.                          *)
HoldingPlaces == Sequence \union {"replay", "explore", "return", "explored", "deferred", "processed"}

(* A crawler that goes on with what it has.                                *)
GoesOn(c) ==
  /\ pc[c] \in HoldingPlaces /\ pc'[c] \in HoldingPlaces
  /\ run'[c].mode = run[c].mode /\ run'[c].source = run[c].source

LEMMA GoesOnHolds ==
  ASSUME NEW c, GoesOn(c)
  PROVE  /\ \A s : HoldsState(c, s) => HoldsState(c, s)'
         /\ run'[c].item = run[c].item => \A i : HoldsItem(c, i) => HoldsItem(c, i)'
         /\ run[c].mode # "deferred" => \A i : ~HoldsItem(c, i)
<1>1. Holding(c)'
  BY DEF GoesOn, HoldingPlaces, Sequence, Holding
<1> QED
  BY <1>1 DEF GoesOn, HoldsState, HoldsItem, Item

LEMMA ReplayCareful ==
  ASSUME Typed, Kept, NEW c \in Crawlers, NEW label, NEW todo, NEW elsewhere,
         UNCHANGED <<nodes, work>>, Replay(c, label, todo, elsewhere),
         label \in HoldingPlaces, elsewhere \in HoldingPlaces, pc[c] \in {"replay", "return", "deferred"}
  PROVE  /\ OthersStay(c) /\ Adds /\ KeepsStates(c) /\ KeepsItems(c)
         /\ run'[c].mode = run[c].mode /\ run'[c].source = run[c].source
         /\ run'[c].item = run[c].item
         /\ \/ pc'[c] = label /\ run'[c].todo = todo
            \/ pc'[c] = elsewhere /\ run[c].source \in excused'
<1> USE DEF nodes, work
<1>r. run[c] \in Run
  BY WhereItIs
<1>o. OthersStay(c) /\ pc'[c] \in HoldingPlaces
  BY ReplayAlone DEF Typed
<1>1. /\ run'[c].mode = run[c].mode /\ run'[c].source = run[c].source
      /\ run'[c].item = run[c].item
      /\ \/ pc'[c] = label /\ run'[c].todo = todo
         \/ pc'[c] = elsewhere /\ run[c].source \in excused'
  <2>1. CASE Goto(c, label) /\ Becomes(c, [run[c] EXCEPT !.at = run[c].source, !.todo = todo])
    <3>1. /\ pc'[c] = label
          /\ run'[c] = [run[c] EXCEPT !.at = run[c].source, !.todo = todo]
      BY <2>1, GoesAlone, BecomesAlone DEF Typed
    <3> QED
      BY <1>r, <3>1 DEF Run
  <2>2. ASSUME NEW s, NEW rest, Goto(c, elsewhere), excused' = excused \union {run[c].source},
               Becomes(c, [run[c] EXCEPT !.at = s, !.todo = rest])
        PROVE  /\ run'[c].mode = run[c].mode /\ run'[c].source = run[c].source
               /\ run'[c].item = run[c].item
               /\ pc'[c] = elsewhere /\ run[c].source \in excused'
    <3>1. pc'[c] = elsewhere /\ run'[c] = [run[c] EXCEPT !.at = s, !.todo = rest]
      BY <2>2, GoesAlone, BecomesAlone DEF Typed
    <3> QED
      BY <1>r, <2>2, <3>1 DEF Run
  <2> QED
    BY <2>1, <2>2 DEF Replay
<1>2. Adds
  BY DEF Replay, Adds
<1>3. GoesOn(c)
  BY <1>o, <1>1 DEF GoesOn, HoldingPlaces
<1>4. ~TriesLogin(c)
  BY DEF TriesLogin, LoginPlaces, Sequence
<1>5. KeepsStates(c) /\ KeepsItems(c)
  BY <1>1, <1>2, <1>3, <1>4, GoesOnHolds, NothingSettled
<1> QED
  BY <1>o, <1>1, <1>2, <1>5

LEMMA ReplayStateCareful ==
  ASSUME Typed, Kept, NEW c \in Crawlers, ReplayState(c)
  PROVE  Careful(c)
<1>1. pc[c] = "replay" /\ Replay(c, "explore", Offered[run[c].source], "explored")
  BY DEF ReplayState
<1>2. UNCHANGED <<nodes, work>>
  BY DEF ReplayState
<1>3. "explore" \in HoldingPlaces /\ "explored" \in HoldingPlaces
  BY DEF HoldingPlaces
<1>4. /\ OthersStay(c) /\ Adds /\ KeepsStates(c) /\ KeepsItems(c)
      /\ run'[c].mode = run[c].mode /\ run'[c].source = run[c].source
      /\ \/ pc'[c] = "explore" /\ run'[c].todo = Offered[run[c].source]
         \/ pc'[c] = "explored" /\ run[c].source \in excused'
  BY <1>1, <1>2, <1>3, ReplayCareful
<1>5. run[c].mode = "state"
  BY <1>1, WhereItIs DEF InMode
<1>6. InMode(pc[c], run[c])' /\ Covered(c)' /\ SequenceFits(c)'
  BY <1>4, <1>5 DEF InMode, LoginPlaces, Sequence, Covered, SequenceFits
<1> QED
  BY <1>4, <1>6 DEF Careful, KeepsPlace

LEMMA ReplayAfterActionCareful ==
  ASSUME Typed, Kept, NEW c \in Crawlers, ReplayAfterAction(c)
  PROVE  Careful(c)
<1>1. pc[c] = "return" /\ Replay(c, "explore", run[c].todo, "explore")
  BY DEF ReplayAfterAction
<1>2. UNCHANGED <<nodes, work>>
  BY DEF ReplayAfterAction
<1>3. "explore" \in HoldingPlaces
  BY DEF HoldingPlaces
<1>4. /\ OthersStay(c) /\ Adds /\ KeepsStates(c) /\ KeepsItems(c)
      /\ run'[c].mode = run[c].mode /\ run'[c].source = run[c].source
      /\ pc'[c] = "explore" /\ (run'[c].todo = run[c].todo \/ run[c].source \in excused')
  BY <1>1, <1>2, <1>3, ReplayCareful
<1>5. run[c].mode = "state" /\ Covered(c) /\ run[c].source \in States
  BY <1>1, WhereItIs DEF InMode
<1>6. InMode(pc[c], run[c])' /\ SequenceFits(c)'
  BY <1>4, <1>5 DEF InMode, LoginPlaces, Sequence, SequenceFits
<1>7. Covered(c)'
  <2>1. ASSUME run[c].source \notin excused', NEW a \in Offered[run[c].source]
        PROVE  a \in run'[c].todo \/ Settled(<<run[c].source, a>>)'
    <3>1. run[c].source \notin excused /\ run'[c].todo = run[c].todo
      BY <1>4, <2>1 DEF Adds
    <3>2. a \in run[c].todo \/ Settled(<<run[c].source, a>>)
      BY <1>1, <1>5, <3>1 DEF Covered
    <3>3. <<run[c].source, a>> \in Items
      BY <1>5, OfferedItems
    <3> QED
      BY <1>4, <3>1, <3>2, <3>3, SettledStays
  <2> QED
    BY <1>4, <2>1 DEF Covered
<1> QED
  BY <1>4, <1>6, <1>7 DEF Careful, KeepsPlace

LEMMA RunDeferredCareful ==
  ASSUME Typed, Kept, NEW c \in Crawlers, RunDeferredItem(c)
  PROVE  Careful(c)
<1>1. pc[c] = "deferred" /\ Replay(c, "attempt", {}, "processed")
  BY DEF RunDeferredItem
<1>2. UNCHANGED <<nodes, work>>
  BY DEF RunDeferredItem
<1>3. "attempt" \in HoldingPlaces /\ "processed" \in HoldingPlaces
  BY DEF HoldingPlaces, Sequence
<1>4. /\ OthersStay(c) /\ Adds /\ KeepsStates(c) /\ KeepsItems(c)
      /\ run'[c].mode = run[c].mode /\ run'[c].source = run[c].source
      /\ \/ pc'[c] = "attempt"
         \/ pc'[c] = "processed" /\ run[c].source \in excused'
  BY <1>1, <1>2, <1>3, ReplayCareful
<1>5. run[c].mode = "deferred"
  BY <1>1, WhereItIs DEF InMode
<1>6. InMode(pc[c], run[c])' /\ Covered(c)' /\ SequenceFits(c)'
  BY <1>4, <1>5 DEF InMode, LoginPlaces, Sequence, Covered, SequenceFits
<1> QED
  BY <1>4, <1>6 DEF Careful, KeepsPlace

LEMMA ExploreCareful ==
  ASSUME Typed, Kept, NEW c \in Crawlers, Explore(c)
  PROVE  Careful(c)
<1> USE DEF nodes, work
<1>o. OthersStay(c)
  BY ExploreQuiet DEF Quiet, Typed
<1>1. pc[c] = "explore" /\ UNCHANGED <<frontier, seen, attempted, transitions>>
  BY DEF Explore
<1>2. /\ run[c].mode = "state" /\ Covered(c) /\ run[c] \in Run /\ run[c].source \in States
  BY <1>1, WhereItIs DEF InMode
<1>3. ASSUME NEW a \in run[c].todo,
             IF DeferRisky /\ a \in Risky
               THEN /\ deferred' = WithDeferred(deferred, {<<run[c].source, a>>})
                    /\ UNCHANGED pc \/ Goto(c, "return")
               ELSE Goto(c, "attempt") /\ UNCHANGED deferred,
             Becomes(c, [run[c] EXCEPT !.item = a, !.todo = @ \ {a}]),
             UNCHANGED excused
      PROVE  Careful(c)
  <2>1. run'[c] = [run[c] EXCEPT !.item = a, !.todo = @ \ {a}]
    BY <1>3, BecomesAlone DEF Typed
  <2>2. /\ run'[c].mode = run[c].mode /\ run'[c].source = run[c].source
        /\ run'[c].item = a /\ run'[c].todo = run[c].todo \ {a}
    BY <1>2, <2>1 DEF Run
  <2>3. pc'[c] \in {"explore", "return", "attempt"}
    BY <1>1, <1>3, GoesAlone DEF Typed
  <2>4. a \in Actions /\ <<run[c].source, a>> \in Items
    BY <1>2, <1>3 DEF Run, Items
  <2>5. \A i \in Items : \/ deferred'[i] = deferred[i]
                         \/ deferred[i] = "none" /\ deferred'[i] = "pending"
    BY <1>3 DEF WithDeferred, Typed, TypeOK
  <2>6. pc'[c] = "attempt" \/ Settled(<<run[c].source, a>>)'
    <3>1. CASE DeferRisky /\ a \in Risky
      <4>1. deferred' = WithDeferred(deferred, {<<run[c].source, a>>})
        BY <1>3, <3>1
      <4>2. deferred'[<<run[c].source, a>>] # "none"
        BY <2>4, <4>1 DEF WithDeferred
      <4> QED
        BY <2>2, <4>2 DEF Settled
    <3>2. CASE ~(DeferRisky /\ a \in Risky)
      BY <1>3, <3>2, GoesAlone DEF Typed
    <3> QED
      BY <3>1, <3>2
  <2>7. Adds
    BY <1>1, <1>3 DEF Adds
  <2>8. GoesOn(c) /\ ~TriesLogin(c)
    BY <1>1, <1>2, <2>2, <2>3 DEF GoesOn, HoldingPlaces, Sequence, TriesLogin
  <2>9. KeepsStates(c)
    BY <1>1, <2>8, GoesOnHolds DEF KeepsStates
  <2>10. KeepsItems(c)
    BY <1>2, <2>5, <2>8, GoesOnHolds DEF KeepsItems
  <2>11. Covered(c)'
    <3>1. ASSUME run[c].source \notin excused', NEW b \in Offered[run[c].source]
          PROVE  \/ b \in run'[c].todo \/ Settled(<<run[c].source, b>>)'
                 \/ pc'[c] = "attempt" /\ b = a
      <4>1. b \in run[c].todo \/ Settled(<<run[c].source, b>>)
        BY <1>1, <1>2, <1>3, <3>1 DEF Covered
      <4>2. <<run[c].source, b>> \in Items
        BY <1>2, OfferedItems
      <4>3. Settled(<<run[c].source, b>>) => Settled(<<run[c].source, b>>)'
        BY <2>2, <2>7, <2>10, <4>2, SettledStays
      <4>4. b \in run[c].todo => b = a \/ b \in run'[c].todo
        BY <2>2
      <4> QED
        BY <2>6, <4>1, <4>3, <4>4
    <3> QED
      BY <2>2, <2>3, <3>1 DEF Covered
  <2>12. InMode(pc[c], run[c])' /\ SequenceFits(c)'
    BY <1>2, <2>2, <2>3 DEF InMode, LoginPlaces, Sequence, SequenceFits
  <2> QED
    BY <1>o, <2>7, <2>9, <2>10, <2>11, <2>12 DEF Careful, KeepsPlace
<1>4. ASSUME Goto(c, "explored"), UNCHANGED <<run, deferred>>,
             excused' = IF run[c].todo = {} THEN excused ELSE excused \union {run[c].source}
      PROVE  Careful(c)
  <2>1. pc'[c] = "explored" /\ run' = run
    BY <1>4, GoesAlone DEF Typed
  <2>2. Adds /\ UNCHANGED <<frontier, seen, deferred>>
    BY <1>1, <1>4 DEF Adds
  <2>3. GoesOn(c) /\ ~TriesLogin(c)
    BY <1>1, <1>2, <2>1 DEF GoesOn, HoldingPlaces, Sequence, TriesLogin
  <2>4. KeepsStates(c) /\ KeepsItems(c)
    BY <2>1, <2>2, <2>3, GoesOnHolds, NothingSettled
  <2>5. Covered(c)'
    <3>1. ASSUME run[c].source \notin excused'
          PROVE  run[c].todo = {} /\ \A a \in Offered[run[c].source] : Settled(<<run[c].source, a>>)
      BY <1>1, <1>2, <1>4, <3>1 DEF Covered
    <3>2. \A a \in Offered[run[c].source] :
            Settled(<<run[c].source, a>>) => Settled(<<run[c].source, a>>)'
      BY <1>2, <2>1, <2>2, <2>4, OfferedItems, SettledStays
    <3> QED
      BY <2>1, <3>1, <3>2 DEF Covered
  <2>6. InMode(pc[c], run[c])' /\ SequenceFits(c)'
    BY <1>2, <2>1 DEF InMode, LoginPlaces, Sequence, SequenceFits
  <2> QED
    BY <1>o, <2>2, <2>4, <2>5, <2>6 DEF Careful, KeepsPlace
<1> QED
  BY <1>3, <1>4 DEF Explore

LEMMA MarkExploredCareful ==
  ASSUME Typed, Kept, NEW c \in Crawlers, MarkStateExplored(c)
  PROVE  Careful(c)
<1> USE DEF nodes, history
<1>o. OthersStay(c)
  BY ExploreQuiet DEF Quiet, Typed
<1>1. pc[c] = "explored" /\ pc'[c] = "loop"
  BY GoesAlone DEF MarkStateExplored, Typed
<1>2. /\ UNCHANGED <<seen, deferred, run, excused, attempted>> /\ Adds
      /\ frontier' = [frontier EXCEPT ![run[c].source] = "explored"]
  BY DEF MarkStateExplored, Adds
<1>3. run[c].mode = "state" /\ Covered(c) /\ run[c].source \in States
  BY <1>1, WhereItIs DEF InMode
<1>4. \A s \in States : frontier'[s] = IF s = run[c].source THEN "explored" ELSE frontier[s]
  BY <1>2 DEF Typed, TypeOK
<1>5. ~TriesLogin(c) /\ (\A i : ~HoldsItem(c, i))
      /\ \A s : HoldsState(c, s) => s = run[c].source
  BY <1>1, <1>3 DEF TriesLogin, HoldsItem, HoldsState
<1>6. run[c].source \notin excused' =>
        \A a \in Offered[run[c].source] : Settled(<<run[c].source, a>>)'
  BY <1>1, <1>2, <1>3 DEF Covered, Settled
<1>7. KeepsStates(c)
  BY <1>2, <1>4, <1>5, <1>6 DEF KeepsStates
<1>8. KeepsItems(c)
  BY <1>2, <1>5 DEF KeepsItems
<1>9. KeepsPlace(c)
  BY <1>1, EmptyHandedPlace DEF EmptyHanded
<1> QED
  BY <1>o, <1>2, <1>7, <1>8, <1>9 DEF Careful

LEMMA MarkProcessedCareful ==
  ASSUME Typed, Kept, NEW c \in Crawlers, MarkDeferredWorkProcessed(c)
  PROVE  Careful(c)
<1> USE DEF nodes, history
<1>o. OthersStay(c)
  BY ExploreQuiet DEF Quiet, Typed
<1>1. pc[c] = "processed" /\ pc'[c] = "loop"
  BY GoesAlone DEF MarkDeferredWorkProcessed, Typed
<1>2. /\ UNCHANGED <<seen, frontier, run, excused, attempted>> /\ Adds
      /\ deferred' = [deferred EXCEPT ![Item(c)] = "processed"]
  BY DEF MarkDeferredWorkProcessed, Adds
<1>3. run[c].mode = "deferred" /\ SequenceFits(c)
  BY <1>1, WhereItIs DEF InMode
<1>4. \A i \in Items : deferred'[i] = IF i = Item(c) THEN "processed" ELSE deferred[i]
  BY <1>2 DEF Typed, TypeOK
<1>5. ~TriesLogin(c) /\ (\A s : ~HoldsState(c, s))
      /\ \A i : HoldsItem(c, i) => i = Item(c)
  BY <1>1, <1>3 DEF TriesLogin, HoldsItem, HoldsState
<1>6. Item(c)[1] \notin excused' => Item(c) \in attempted'
  BY <1>1, <1>2, <1>3 DEF SequenceFits, Item
<1>7. KeepsItems(c)
  BY <1>2, <1>4, <1>5, <1>6 DEF KeepsItems
<1>8. KeepsStates(c)
  BY <1>2, <1>5 DEF KeepsStates
<1>9. KeepsPlace(c)
  BY <1>1, EmptyHandedPlace DEF EmptyHanded
<1> QED
  BY <1>o, <1>2, <1>7, <1>8, <1>9 DEF Careful

(* A step of an action sequence: on to the next control point, or back to  *)
(* where the sequence was started, and there only with its attempt marked. *)
LEMMA SequenceCareful ==
  ASSUME Typed, Kept, NEW c \in Crawlers, pc[c] \in Sequence, OthersStay(c), Adds,
         run'[c].mode = run[c].mode, run'[c].source = run[c].source,
         run'[c].item = run[c].item, run'[c].todo = run[c].todo,
         \/ pc'[c] \in Sequence \ {"attempt"}
         \/ pc'[c] = After(c, FALSE)
         \/ /\ pc'[c] = After(c, TRUE)
            /\ \E s2 \in States : <<run[c].source, run[c].item, s2>> \in transitions',
         pc[c] = "attempt" => Item(c) \in attempted',
         \A s \in States : frontier'[s] \in {frontier[s], "pending"},
         \A s \in seen' : s \in seen \/ frontier'[s] # "none",
         \A i \in Items : deferred'[i] \in {deferred[i], "pending"}
  PROVE  Careful(c)
<1>1. /\ InMode(pc[c], run[c]) /\ Covered(c) /\ SequenceFits(c)
      /\ run[c].source \in States /\ run[c].mode \in Mode
  BY WhereItIs
<1>2. Item(c) = <<run[c].source, run[c].item>> /\ Item(c)' = Item(c)
  BY DEF Item
<1>3. /\ run[c].mode = "state" => pc'[c] \in (Sequence \ {"attempt"}) \union {"return"}
      /\ run[c].mode = "deferred" => pc'[c] \in (Sequence \ {"attempt"}) \union {"processed"}
      /\ run[c].mode = "login" =>
           \/ pc'[c] \in (Sequence \ {"attempt"}) \union {"pending"}
           \/ /\ pc'[c] = "loop"
              /\ \E s2 \in States : <<run[c].source, run[c].item, s2>> \in transitions'
  BY DEF After
<1>4. /\ \A s \in States : HoldsState(c, s) => HoldsState(c, s)'
      /\ \A i \in Items : HoldsItem(c, i) => HoldsItem(c, i)'
  <2>1. CASE run[c].mode = "login"
    BY <2>1 DEF HoldsState, HoldsItem
  <2>2. CASE run[c].mode # "login"
    <3>1. GoesOn(c)
      BY <1>1, <1>3, <2>2 DEF GoesOn, HoldingPlaces, Mode
    <3> QED
      BY <3>1, GoesOnHolds
  <2> QED
    BY <2>1, <2>2
<1>5. TriesLogin(c) => \/ TriesLogin(c)'
                       \/ \E s2 \in States : <<Home, Login, s2>> \in transitions'
  <2> SUFFICES ASSUME run[c].mode = "login", ~TriesLogin(c)'
               PROVE  \E s2 \in States : <<Home, Login, s2>> \in transitions'
    BY DEF TriesLogin
  <2>1. run[c].source = Home /\ run[c].item = Login
    BY <1>1 DEF InMode, LoginPlaces, Sequence
  <2>2. pc'[c] \notin LoginPlaces
    BY DEF TriesLogin
  <2> QED
    BY <1>3, <2>1, <2>2 DEF LoginPlaces
<1>6. KeepsStates(c)
  <2>1. \A s \in States : /\ frontier'[s] = "none" => frontier[s] = "none"
                          /\ frontier'[s] = "exploring" => frontier[s] = "exploring"
                          /\ frontier'[s] = "explored" => frontier[s] = "explored"
    OBVIOUS
  <2> QED
    BY <1>4, <1>5, <2>1 DEF KeepsStates
<1>7. KeepsItems(c)
  <2>1. \A i \in Items : /\ deferred'[i] = "none" => deferred[i] = "none"
                         /\ deferred'[i] = "processing" => deferred[i] = "processing"
                         /\ deferred'[i] = "processed" => deferred[i] = "processed"
    OBVIOUS
  <2> QED
    BY <1>4, <2>1 DEF KeepsItems
<1>8. InMode(pc[c], run[c])'
  <2>1. CASE run[c].mode = "state"
    BY <1>3, <2>1 DEF InMode, LoginPlaces, Sequence
  <2>2. CASE run[c].mode = "deferred"
    BY <1>3, <2>2 DEF InMode, LoginPlaces, Sequence
  <2>3. CASE run[c].mode = "login"
    <3>1. run[c].source = Home /\ run[c].item = Login /\ Login # NoLogin
      BY <1>1, <2>3 DEF InMode, LoginPlaces, Sequence
    <3> QED
      BY <1>3, <2>3, <3>1 DEF InMode, LoginPlaces, Sequence
  <2> QED
    BY <1>1, <2>1, <2>2, <2>3 DEF Mode
<1>9. Covered(c)'
  <2> SUFFICES ASSUME run[c].mode = "state", run[c].source \notin excused'
               PROVE  Covered(c)'
    BY DEF Covered
  <2>1. run[c].source \notin excused /\ pc'[c] \notin {"attempt", "explored"}
    BY <1>3 DEF Adds, Sequence
  <2>2. ASSUME NEW a \in Offered[run[c].source]
        PROVE  a \in run[c].todo \/ Settled(<<run[c].source, a>>)'
    <3>1. \/ a \in run[c].todo \/ Settled(<<run[c].source, a>>)
          \/ pc[c] = "attempt" /\ run[c].item = a
      BY <1>1, <2>1 DEF Covered
    <3>2. Settled(<<run[c].source, a>>) => Settled(<<run[c].source, a>>)'
      BY <1>1, <1>7, OfferedItems, SettledStays
    <3>3. pc[c] = "attempt" /\ run[c].item = a => Settled(<<run[c].source, a>>)'
      BY <1>2 DEF Settled
    <3> QED
      BY <3>1, <3>2, <3>3
  <2> QED
    BY <2>1, <2>2 DEF Covered
<1>10. SequenceFits(c)'
  <2>1. ASSUME run[c].mode = "deferred", run[c].source \notin excused'
        PROVE  Item(c) \in attempted'
    <3>1. CASE pc[c] = "attempt"
      BY <3>1
    <3>2. CASE pc[c] # "attempt"
      <4>1. Item(c) \in attempted
        BY <1>1, <2>1, <3>2 DEF SequenceFits, Adds
      <4> QED
        BY <4>1 DEF Adds
    <3> QED
      BY <3>1, <3>2
  <2> QED
    BY <1>2, <2>1 DEF SequenceFits
<1> QED
  BY <1>6, <1>7, <1>8, <1>9, <1>10 DEF Careful, KeepsPlace

LEMMA PerformCareful ==
  ASSUME Typed, Kept, NEW c \in Crawlers,
         MarkActionAttempted(c) \/ TryIncrementActionRepeat(c) \/ ExecuteAction(c)
  PROVE  Careful(c)
<1> USE DEF nodes, history
<1>r. run[c] \in Run
  BY WhereItIs
<1>1. CASE MarkActionAttempted(c)
  <2>1. /\ pc[c] = "attempt" /\ pc'[c] \in {"repeat", After(c, FALSE)}
        /\ attempted' = attempted \union {Item(c)}
        /\ UNCHANGED <<run, frontier, seen, deferred>> /\ Adds
    BY <1>1, GoesAlone DEF MarkActionAttempted, Adds, Typed
  <2>2. OthersStay(c)
    BY <1>1, GoesAlone DEF MarkActionAttempted, OthersStay, Typed
  <2>3. "repeat" \in Sequence \ {"attempt"} /\ "attempt" \in Sequence
    BY DEF Sequence
  <2> QED
    BY <2>1, <2>2, <2>3, SequenceCareful
<1>2. CASE TryIncrementActionRepeat(c)
  <2>1. /\ pc[c] = "repeat" /\ pc'[c] \in {"act", After(c, FALSE)}
        /\ UNCHANGED <<run, frontier, seen, deferred>> /\ Adds
    BY <1>2, GoesAlone DEF TryIncrementActionRepeat, Adds, Typed
  <2>2. OthersStay(c)
    BY <1>2, GoesAlone DEF TryIncrementActionRepeat, OthersStay, Typed
  <2>3. "act" \in Sequence \ {"attempt"} /\ "repeat" \in Sequence
    BY DEF Sequence
  <2> QED
    BY <2>1, <2>2, <2>3, SequenceCareful
<1>3. CASE ExecuteAction(c)
  <2>1. pc[c] = "act" /\ UNCHANGED <<frontier, seen>> /\ Adds
    BY <1>3 DEF ExecuteAction, Adds
  <2>2. PICK items : deferred' = WithDeferred(deferred, items)
    BY <1>3 DEF ExecuteAction
  <2>3. \A i \in Items : deferred'[i] \in {deferred[i], "pending"}
    BY <2>2 DEF WithDeferred
  <2>4. /\ OthersStay(c) /\ pc'[c] \in {"add", After(c, FALSE)}
        /\ run'[c].mode = run[c].mode /\ run'[c].source = run[c].source
        /\ run'[c].item = run[c].item /\ run'[c].todo = run[c].todo
    <3>1. CASE Goto(c, After(c, FALSE)) /\ Becomes(c, [run[c] EXCEPT !.at = Nowhere])
      <4>1. OthersStay(c) /\ pc'[c] = After(c, FALSE) /\ run'[c] = [run[c] EXCEPT !.at = Nowhere]
        BY <3>1, GoesAlone, BecomesAlone DEF OthersStay, Typed
      <4> QED
        BY <1>r, <4>1 DEF Run
    <3>2. ASSUME NEW s, Goto(c, "add") \/ Goto(c, After(c, FALSE)),
                 Becomes(c, [run[c] EXCEPT !.at = s, !.astray = (run[c].at # run[c].source)])
          PROVE  /\ OthersStay(c) /\ pc'[c] \in {"add", After(c, FALSE)}
                 /\ run'[c].mode = run[c].mode /\ run'[c].source = run[c].source
                 /\ run'[c].item = run[c].item /\ run'[c].todo = run[c].todo
      <4>1. /\ OthersStay(c) /\ pc'[c] \in {"add", After(c, FALSE)}
            /\ run'[c] = [run[c] EXCEPT !.at = s, !.astray = (run[c].at # run[c].source)]
        BY <3>2, GoesAlone, BecomesAlone DEF OthersStay, Typed
      <4> QED
        BY <1>r, <4>1 DEF Run
    <3> QED
      BY <1>3, <3>1, <3>2 DEF ExecuteAction
  <2>5. "add" \in Sequence \ {"attempt"} /\ "act" \in Sequence
    BY DEF Sequence
  <2> QED
    BY <2>1, <2>3, <2>4, <2>5, SequenceCareful
<1> QED
  BY <1>1, <1>2, <1>3

LEMMA RecordCareful ==
  ASSUME Typed, Kept, NEW c \in Crawlers,
         AddState(c) \/ Register(c) \/ AddTransition(c) \/ Fault(c)
  PROVE  Careful(c)
<1> USE DEF nodes, history
<1>r. run[c] \in Run
  BY WhereItIs
<1>s. {"add", "register", "record"} \subseteq Sequence \ {"attempt"}
  BY DEF Sequence
<1>1. CASE AddState(c)
  <2>1. run[c].at \in States
    BY <1>1 DEF AddState, Typed, LocalsFit, Fits
  <2>2. /\ pc[c] = "add" /\ pc'[c] = "register" /\ OthersStay(c)
        /\ run'[c] = [run[c] EXCEPT !.states = @ + (IF run[c].at \in known THEN 0 ELSE 1)]
    BY <1>1, GoesAlone, BecomesAlone DEF AddState, AddToQueue, OthersStay, Typed
  <2>3. /\ seen' = seen \union {run[c].at} /\ frontier' = Enqueued(frontier, run[c].at)
        /\ UNCHANGED deferred /\ Adds
    BY <1>1 DEF AddState, AddToQueue, Adds
  <2>4. /\ run'[c].mode = run[c].mode /\ run'[c].source = run[c].source
        /\ run'[c].item = run[c].item /\ run'[c].todo = run[c].todo
    BY <1>r, <2>2 DEF Run
  <2>5. /\ \A s \in States : frontier'[s] \in {frontier[s], "pending"}
        /\ frontier'[run[c].at] # "none"
    BY <2>1, <2>3 DEF Enqueued, Typed, TypeOK
  <2> QED
    BY <1>s, <2>2, <2>3, <2>4, <2>5, SequenceCareful
<1>2. CASE Register(c)
  <2>1. pc[c] = "register" /\ pc'[c] = "record" /\ OthersStay(c)
    BY <1>2, GoesAlone DEF Register, OthersStay, Typed
  <2>2. UNCHANGED <<run, frontier, seen, deferred>> /\ Adds
    BY <1>2 DEF Register, Adds, work
  <2> QED
    BY <1>s, <2>1, <2>2, SequenceCareful
<1>3. CASE AddTransition(c)
  <2> DEFINE t == <<run[c].source, run[c].item, run[c].at>>
  <2>1. run[c].at \in States
    BY <1>3 DEF AddTransition, Typed, TypeOK, LocalsFit, Fits
  <2>2. /\ pc[c] = "record" /\ pc'[c] = After(c, TRUE) /\ OthersStay(c)
        /\ run'[c] = [run[c] EXCEPT !.transitions = @ + (IF t \in transitions THEN 0 ELSE 1)]
    BY <1>3, GoesAlone, BecomesAlone DEF AddTransition, OthersStay, Typed
  <2>3. UNCHANGED <<frontier, seen, deferred>> /\ Adds /\ t \in transitions'
    BY <1>3 DEF AddTransition, Adds, work
  <2>4. /\ run'[c].mode = run[c].mode /\ run'[c].source = run[c].source
        /\ run'[c].item = run[c].item /\ run'[c].todo = run[c].todo
    BY <1>r, <2>2 DEF Run
  <2>5. \E s2 \in States : <<run[c].source, run[c].item, s2>> \in transitions'
    BY <2>1, <2>3
  <2> QED
    BY <1>s, <2>2, <2>3, <2>4, <2>5, SequenceCareful
<1>4. CASE Fault(c)
  <2>1. /\ pc[c] \in {"add", "register", "record"} /\ pc'[c] = After(c, FALSE) /\ OthersStay(c)
        /\ run'[c] = [run[c] EXCEPT !.at = Nowhere]
    BY <1>4, GoesAlone, BecomesAlone DEF Fault, OthersStay, Typed
  <2>2. UNCHANGED <<frontier, seen, deferred>> /\ Adds
    BY <1>4 DEF Fault, Adds, work
  <2>3. /\ run'[c].mode = run[c].mode /\ run'[c].source = run[c].source
        /\ run'[c].item = run[c].item /\ run'[c].todo = run[c].todo
    BY <1>r, <2>1 DEF Run
  <2> QED
    BY <1>s, <2>1, <2>2, <2>3, SequenceCareful
<1> QED
  BY <1>1, <1>2, <1>3, <1>4

(* A crawler that is killed or cancelled cuts short what it had in hand,   *)
(* and that is all that is cut short.                                      *)
LEMMA StopCareful ==
  ASSUME Typed, Kept, NEW c \in Crawlers, Kill(c) \/ Cancel(c)
  PROVE  Careful(c)
<1> USE DEF nodes, work
<1>o. OthersStay(c) /\ pc'[c] = "idle"
  BY EndsAlone DEF Kill, Cancel, Typed
<1>1. /\ Adds /\ UNCHANGED seen
      /\ Holding(c) \/ pc[c] \in {"home", "pending"} => run[c].source \in excused'
  BY DEF Kill, Cancel, Adds
<1>2. TriesLogin(c) => Home \in excused'
  <2>1. TriesLogin(c) => run[c].source = Home
    BY WhereItIs DEF InMode, TriesLogin
  <2>2. TriesLogin(c) => Holding(c) \/ pc[c] \in {"home", "pending"}
    BY DEF TriesLogin, LoginPlaces, Sequence, Holding
  <2> QED
    BY <1>1, <2>1, <2>2
<1>3. /\ \A s : HoldsState(c, s) => s \in excused'
      /\ \A i : HoldsItem(c, i) => i[1] \in excused'
  BY <1>1 DEF HoldsState, HoldsItem, Item
<1>4. \A s \in States \ excused' : frontier'[s] = frontier[s]
  BY <1>1 DEF Kill, Cancel, Typed, TypeOK
<1>5. \A i \in Items : i[1] \notin excused' => deferred'[i] = deferred[i]
  <2>1. Item(c)[1] = run[c].source
    BY DEF Item
  <2> QED
    BY <1>1, <2>1 DEF Kill, Cancel, Typed, TypeOK
<1>6. /\ \A s \in States : frontier'[s] = "none" => frontier[s] = "none"
      /\ \A i \in Items : deferred'[i] = "none" => deferred[i] = "none"
  BY DEF Kill, Cancel, Typed, TypeOK
<1>7. KeepsStates(c)
  BY <1>1, <1>2, <1>3, <1>4, <1>6 DEF KeepsStates
<1>8. KeepsItems(c)
  BY <1>3, <1>5, <1>6 DEF KeepsItems
<1>9. KeepsPlace(c)
  BY <1>o, EmptyHandedPlace DEF EmptyHanded
<1> QED
  BY <1>o, <1>1, <1>7, <1>8, <1>9 DEF Careful

LEMMA StepKeeps == Typed /\ Kept /\ [Next]_vars => Kept'
<1> SUFFICES ASSUME Typed, Kept, [Next]_vars PROVE Kept'
  OBVIOUS
<1>1. CASE UNCHANGED vars
  BY <1>1 DEF Kept, InHand, InMode, Covered, SequenceFits, Settled, ExploredThoroughly, StatesAreHeld,
              ItemsAreHeld, HoldsState, HoldsItem, TriesLogin, Holding, Item, vars, nodes, work,
              history
<1>2. ASSUME NEW c \in Crawlers, StartSlice(c) \/ Slice(c) \/ Failure(c)
      PROVE  Careful(c)
  BY <1>2, StartCareful, SeedCareful, RegisterHomeCareful, MarkPendingCareful, ClaimCareful,
     YieldCareful, ClaimDeferredCareful, ReplayStateCareful, ReplayAfterActionCareful,
     RunDeferredCareful, ExploreCareful, MarkExploredCareful, MarkProcessedCareful,
     PerformCareful, RecordCareful, StopCareful DEF Slice, Failure
<1>3. CASE Next
  BY <1>2, <1>3, CarefulKeeps DEF Next
<1> QED
  BY <1>1, <1>3

LEMMA AlwaysKept == Spec => []Kept
<1>1. Init => Kept
  BY DEF Init, Kept, InHand, InMode, LoginPlaces, Sequence, Covered, SequenceFits,
         ExploredThoroughly, StatesAreHeld, ItemsAreHeld
<1> QED
  BY <1>1, StepKeeps, AlwaysTyped, PTL DEF Spec

(* Whatever ends a slice, and however slices overlap: what was claimed is  *)
(* in somebody's hands, what counts as explored or processed was tried,    *)
(* and what was seen waits for the next slice.  The exceptions are the     *)
(* states in excused, whose replay failed, whose limit was reached or      *)
(* whose crawler was stopped.                                              *)
THEOREM NothingIsEverLost == Spec => []NothingIsLost
<1>1. Typed /\ Kept => NothingIsLost
  <2> SUFFICES ASSUME Typed, Kept PROVE NothingIsLost
    OBVIOUS
  <2>1. NoStateIsLost
    <3> SUFFICES ASSUME NEW s \in seen \ excused
        PROVE  \/ frontier[s] \in {"pending", "explored"}
               \/ \E c \in Crawlers : HoldsState(c, s)
               \/ /\ s = Home /\ Login # NoLogin /\ frontier[s] = "none"
                  /\ \/ \E c \in Crawlers : LoggingIn(c)
                     \/ \E s2 \in States : <<Home, Login, s2>> \in transitions
      BY DEF NoStateIsLost, HoldsState
    <3>1. /\ s \in States \ excused
          /\ frontier[s] \in {"none", "pending", "exploring", "explored"}
      BY DEF Typed, TypeOK
    <3>2. \A c \in Crawlers : TriesLogin(c) => LoggingIn(c)
      BY DEF TriesLogin, LoginPlaces, Sequence, LoggingIn
    <3> QED
      BY <3>1, <3>2 DEF Kept, StatesAreHeld
  <2>2. NoDeferredIsLost
    BY DEF Kept, ItemsAreHeld, NoDeferredIsLost, HoldsItem
  <2> QED
    BY <2>1, <2>2 DEF Kept, NothingIsLost
<1> QED
  BY <1>1, AlwaysKept, AlwaysTyped, PTL

-----------------------------------------------------------------------------
(* The limits, for one crawler at a time.                                  *)

(* What no limit keeps out: what was known before, and the home page.      *)
Given == KnownBefore \union {Home}
LoginItem == <<Home, Login>>
Acting == {"attempt", "repeat", "act", "add"}

(* A crawler has counted all states, and has looked at the limit before it *)
(* acts, unless it logs in.                                                *)
Counts(c) ==
  /\ pc[c] # "idle" => run[c].states = Cardinality(known)
  /\ pc[c] \in {"deferredClaim", "deferred"} \/ (pc[c] \in Acting /\ run[c].mode # "login")
       => run[c].states < MaxStates

(* Until the login was tried, nothing but what is given is known.          *)
LoginFirst(c) ==
  /\ pc[c] \notin {"idle", "seed"} => Home \in known
  /\ pc[c] \in Acting \ {"attempt"} /\ run[c].mode = "login" => known \subseteq Given
  /\ Login # NoLogin /\ LoginItem \notin attempted =>
       /\ pc[c] \in {"idle", "seed", "home"} \/ (pc[c] = "attempt" /\ run[c].mode = "login")
       /\ known \subseteq Given

Unchecked == Cardinality(KnownBefore) + (IF Login = NoLogin THEN 1 ELSE 2)
Limit == IF Unchecked > MaxStates THEN Unchecked ELSE MaxStates

Limited ==
  /\ Home \notin known => known = KnownBefore
  /\ Cardinality(known) <= Limit

InLimits(c) == Limited /\ Counts(c) /\ LoginFirst(c)

Within == OneAtATime => Limited /\ \A c \in Crawlers : InLimits(c)

LEMMA LimitIs ==
  /\ Cardinality(KnownBefore) \in Nat /\ MaxStates \in Nat /\ Limit \in Nat
  /\ Unchecked \in Nat /\ Unchecked <= Limit /\ MaxStates <= Limit
  /\ IsFiniteSet(KnownBefore) /\ IsFiniteSet(States)
<1>1. IsFiniteSet(States) /\ KnownBefore \subseteq States /\ MaxStates \in Nat
  BY SiteAssumption DEF SiteAssumption
<1>2. IsFiniteSet(KnownBefore) /\ Cardinality(KnownBefore) \in Nat
  BY <1>1, FS_Subset, FS_CardinalityType
<1> QED
  BY <1>1, <1>2 DEF Limit, Unchecked

LEMMA GivenIs ==
  ASSUME NEW S, S \subseteq Given
  PROVE  IsFiniteSet(S) /\ Cardinality(S) \in Nat /\ Cardinality(S) <= Cardinality(KnownBefore) + 1
<1>1. IsFiniteSet(Given) /\ Cardinality(Given) <= Cardinality(KnownBefore) + 1
  <2>1. /\ IsFiniteSet(KnownBefore \union {Home})
        /\ \/ Cardinality(KnownBefore \union {Home}) = Cardinality(KnownBefore)
           \/ Cardinality(KnownBefore \union {Home}) = Cardinality(KnownBefore) + 1
    BY LimitIs, FS_AddElement
  <2> QED
    BY <2>1, LimitIs DEF Given
<1>2. IsFiniteSet(S) /\ Cardinality(S) <= Cardinality(Given)
  BY <1>1, FS_Subset
<1>3. Cardinality(S) \in Nat /\ Cardinality(Given) \in Nat
  BY <1>1, <1>2, FS_CardinalityType
<1> QED
  BY <1>1, <1>2, <1>3, LimitIs

(* A step that adds no state.                                              *)
LEMMA StillWithin ==
  ASSUME NEW c \in Crawlers, InLimits(c), known' = known, attempted \subseteq attempted',
         pc[c] \notin {"idle", "seed"}, pc'[c] # "seed",
         pc'[c] # "idle" => run'[c].states = run[c].states,
         pc'[c] \in {"deferredClaim", "deferred"} \/ (pc'[c] \in Acting /\ run'[c].mode # "login")
           => run[c].states < MaxStates,
         pc'[c] \in Acting \ {"attempt"} /\ run'[c].mode = "login" => known \subseteq Given,
         Login # NoLogin /\ LoginItem \notin attempted' =>
           pc'[c] \in {"idle", "home"} \/ (pc'[c] = "attempt" /\ run'[c].mode = "login")
  PROVE  InLimits(c)'
<1>1. Limited'
  BY DEF InLimits, Limited, Limit, Unchecked
<1>2. Counts(c)'
  BY DEF InLimits, Counts, Acting
<1>3. LoginFirst(c)'
  BY DEF InLimits, LoginFirst, Given
<1> QED
  BY <1>1, <1>2, <1>3 DEF InLimits

LEMMA OneMore ==
  ASSUME NEW S, IsFiniteSet(S), NEW x
  PROVE  Cardinality(S \union {x}) = Cardinality(S) + (IF x \in S THEN 0 ELSE 1)
<1>1. Cardinality(S \union {x}) = IF x \in S THEN Cardinality(S) ELSE Cardinality(S) + 1
  BY FS_AddElement, Zenon
<1>2. Cardinality(S) \in Nat
  BY FS_CardinalityType
<1> QED
  BY <1>1, <1>2

LEMMA SeedWithin ==
  ASSUME Typed, Kept, NEW c \in Crawlers, InLimits(c),
         StartSlice(c) \/ SeedInitialState(c) \/ RegisterHome(c) \/ MarkStatePending(c)
  PROVE  InLimits(c)'
<1> USE DEF nodes, work, history
<1>k. TypeOK /\ run[c] \in Run /\ InMode(pc[c], run[c]) /\ Cardinality(known) \in Nat
      /\ IsFiniteSet(known)
  BY WhereItIs, CountsAreNat, LimitIs, FS_Subset DEF Typed, TypeOK
<1>1. CASE StartSlice(c)
  <2>1. pc[c] = "idle" /\ pc'[c] = "seed" /\ UNCHANGED <<known, attempted>>
    BY <1>1, <1>k, GoesAlone DEF StartSlice
  <2>2. run'[c] = [Idle EXCEPT !.states = Cardinality(known),
                               !.transitions = Cardinality(transitions)]
    BY <1>1, <1>k, BecomesAlone DEF StartSlice
  <2>3. run'[c].states = Cardinality(known)
    BY <2>2 DEF Idle
  <2>4. Limited'
    BY <2>1 DEF InLimits, Limited, Limit, Unchecked
  <2>5. Counts(c)'
    BY <2>1, <2>3 DEF Counts, Acting
  <2>6. LoginFirst(c)'
    BY <2>1 DEF InLimits, LoginFirst, Given, Acting
  <2> QED
    BY <2>4, <2>5, <2>6 DEF InLimits
<1>2. CASE SeedInitialState(c)
  <2>1. pc[c] = "seed" /\ pc'[c] = "home" /\ known' = known \union {Home} /\ attempted' = attempted
    BY <1>2, <1>k, GoesAlone DEF SeedInitialState, AddToQueue
  <2>2. run'[c] = [[run[c] EXCEPT !.at = Home] EXCEPT
                     !.states = @ + (IF Home \in known THEN 0 ELSE 1)]
    BY <1>2, <1>k, BecomesAlone DEF SeedInitialState, AddToQueue
  <2>3. run'[c].states = run[c].states + (IF Home \in known THEN 0 ELSE 1)
    BY <1>k, <2>2 DEF Run
  <2>4. Cardinality(known') = Cardinality(known) + (IF Home \in known THEN 0 ELSE 1)
    BY <1>k, <2>1, OneMore
  <2>5. Home \notin known => known' \subseteq Given
    BY <2>1 DEF InLimits, Limited, Given
  <2>6. Limited'
    <3>1. Cardinality(known') <= Limit
      <4>1. CASE Home \in known
        BY <1>k, <2>4, <4>1 DEF InLimits, Limited
      <4>2. CASE Home \notin known
        <5>1. Cardinality(known') \in Nat /\ Cardinality(known') <= Cardinality(KnownBefore) + 1
          BY <2>5, <4>2, GivenIs
        <5> QED
          BY <5>1, LimitIs DEF Unchecked
      <4> QED
        BY <4>1, <4>2
    <3> QED
      BY <2>1, <3>1 DEF Limited, Limit, Unchecked
  <2>7. Counts(c)'
    BY <2>1, <2>3, <2>4 DEF InLimits, Counts, Acting
  <2>8. LoginFirst(c)'
    BY <2>1, <2>5 DEF InLimits, LoginFirst, Given, Acting
  <2> QED
    BY <2>6, <2>7, <2>8 DEF InLimits
<1>3. CASE RegisterHome(c)
  <2>1. pc[c] = "home" /\ UNCHANGED <<known, attempted>> /\ run[c].mode = "login"
    BY <1>3, <1>k DEF RegisterHome, InMode
  <2>2. CASE Login = NoLogin
    <3>1. pc'[c] = "loop" /\ run' = run
      BY <1>3, <1>k, <2>2, GoesAlone DEF RegisterHome
    <3> QED
      BY <2>1, <2>2, <3>1, StillWithin DEF Acting
  <2>3. CASE Login # NoLogin
    <3>1. pc'[c] = "attempt" /\ run'[c] = [run[c] EXCEPT !.item = Login]
      BY <1>3, <1>k, <2>3, GoesAlone, BecomesAlone DEF RegisterHome
    <3>2. run'[c].states = run[c].states /\ run'[c].mode = "login"
      BY <1>k, <2>1, <3>1 DEF Run
    <3> QED
      BY <2>1, <2>3, <3>1, <3>2, StillWithin DEF Acting
  <2> QED
    BY <2>2, <2>3
<1>4. CASE MarkStatePending(c)
  <2>1. pc[c] = "pending" /\ pc'[c] = "loop" /\ UNCHANGED <<known, attempted, run>>
    BY <1>4, <1>k, GoesAlone DEF MarkStatePending
  <2>2. Login # NoLogin => LoginItem \in attempted
    BY <2>1 DEF InLimits, LoginFirst
  <2> QED
    BY <2>1, <2>2, StillWithin DEF Acting
<1> QED
  BY <1>1, <1>2, <1>3, <1>4

(* Whoever is in the loop or beyond has tried the login.                   *)
LEMMA LoginTried ==
  ASSUME NEW c, InLimits(c), pc[c] \notin {"idle", "seed", "home", "attempt"}
  PROVE  Login # NoLogin => LoginItem \in attempted
  BY DEF InLimits, LoginFirst

LEMMA LoopWithin ==
  ASSUME Typed, Kept, NEW c \in Crawlers, InLimits(c),
         ClaimNextPendingState(c) \/ NothingPending(c) \/ ClaimDeferredWork(c) \/ Yield(c)
  PROVE  InLimits(c)'
<1> USE DEF nodes, work, history
<1>k. TypeOK /\ run[c] \in Run
  BY WhereItIs DEF Typed
<1>u. UNCHANGED <<known, attempted>> /\ pc[c] \in {"loop", "deferredClaim"}
  BY DEF ClaimNextPendingState, NothingPending, ClaimDeferredWork, Yield
<1>l. Login # NoLogin => LoginItem \in attempted'
  BY <1>u, LoginTried
<1>e. ASSUME Ends(c) PROVE InLimits(c)'
  <2>1. pc'[c] = "idle"
    BY <1>e, <1>k, EndsAlone
  <2> QED
    BY <1>u, <1>l, <2>1, StillWithin DEF Acting
<1>1. CASE ClaimNextPendingState(c)
  <2>1. pc'[c] = "replay"
    BY <1>1, <1>k, GoesAlone DEF ClaimNextPendingState
  <2>2. \E s : run'[c] = [Fresh(c) EXCEPT !.mode = "state", !.source = s]
    BY <1>1, <1>k, BecomesAlone DEF ClaimNextPendingState
  <2>3. run'[c].states = run[c].states
    BY <2>2 DEF Fresh, Idle
  <2> QED
    BY <1>u, <1>l, <2>1, <2>3, StillWithin DEF Acting
<1>2. CASE NothingPending(c)
  <2>1. WithinLimits(c) /\ (Ends(c) \/ (Goto(c, "deferredClaim") /\ UNCHANGED run))
    BY <1>2 DEF NothingPending
  <2>2. ASSUME Goto(c, "deferredClaim"), UNCHANGED run PROVE InLimits(c)'
    <3>1. pc'[c] = "deferredClaim" /\ run[c].states < MaxStates
      BY <1>k, <2>1, <2>2, GoesAlone DEF WithinLimits
    <3> QED
      BY <1>u, <1>l, <2>2, <3>1, StillWithin DEF Acting
  <2> QED
    BY <1>e, <2>1, <2>2
<1>3. CASE ClaimDeferredWork(c)
  <2>1. ASSUME NEW i, Goto(c, "deferred"),
               Becomes(c, [Fresh(c) EXCEPT !.mode = "deferred", !.source = i[1], !.item = i[2]])
        PROVE  InLimits(c)'
    <3>1. /\ pc'[c] = "deferred"
          /\ run'[c] = [Fresh(c) EXCEPT !.mode = "deferred", !.source = i[1], !.item = i[2]]
      BY <1>k, <2>1, GoesAlone, BecomesAlone
    <3>2. run'[c].states = run[c].states
      BY <3>1 DEF Fresh, Idle
    <3>3. run[c].states < MaxStates
      BY <1>3 DEF ClaimDeferredWork, InLimits, Counts
    <3> QED
      BY <1>u, <1>l, <3>1, <3>2, <3>3, StillWithin DEF Acting
  <2> QED
    BY <1>3, <1>e, <2>1 DEF ClaimDeferredWork
<1>4. CASE Yield(c)
  BY <1>4, <1>e DEF Yield
<1> QED
  BY <1>1, <1>2, <1>3, <1>4

LEMMA ReplayCounts ==
  ASSUME TypeOK, NEW c \in Crawlers, run[c] \in Run, NEW label, NEW todo, NEW elsewhere,
         Replay(c, label, todo, elsewhere)
  PROVE  run'[c].states = run[c].states /\ run'[c].mode = run[c].mode
<1>1. ASSUME NEW at, NEW rest, Becomes(c, [run[c] EXCEPT !.at = at, !.todo = rest])
      PROVE  run'[c].states = run[c].states /\ run'[c].mode = run[c].mode
  <2>1. run'[c] = [run[c] EXCEPT !.at = at, !.todo = rest]
    BY <1>1, BecomesAlone
  <2> QED
    BY <2>1 DEF Run
<1> QED
  BY <1>1 DEF Replay

LEMMA ExploreWithin ==
  ASSUME Typed, Kept, NEW c \in Crawlers, InLimits(c),
         \/ ReplayState(c) \/ Explore(c) \/ ReplayAfterAction(c) \/ MarkStateExplored(c)
         \/ RunDeferredItem(c) \/ MarkDeferredWorkProcessed(c)
  PROVE  InLimits(c)'
<1> USE DEF nodes, work, history
<1>k. TypeOK /\ run[c] \in Run /\ InMode(pc[c], run[c])
  BY WhereItIs DEF Typed
<1>u. /\ UNCHANGED <<known, attempted>>
      /\ pc[c] \in {"replay", "explore", "return", "explored", "deferred", "processed"}
  BY DEF ReplayState, Explore, ReplayAfterAction, MarkStateExplored, RunDeferredItem,
         MarkDeferredWorkProcessed
<1>l. Login # NoLogin => LoginItem \in attempted'
  BY <1>u, LoginTried
<1>1. CASE ReplayState(c) \/ ReplayAfterAction(c)
  <2>1. pc'[c] \in {"explore", "explored"} /\ run'[c].states = run[c].states
    BY <1>1, <1>k, ReplayAlone, ReplayCounts DEF ReplayState, ReplayAfterAction
  <2> QED
    BY <1>u, <1>l, <2>1, StillWithin DEF Acting
<1>2. CASE Explore(c)
  <2>1. pc[c] = "explore" /\ run[c].mode = "state"
    BY <1>2, <1>k DEF Explore, InMode
  <2>2. CASE Goto(c, "explored") /\ UNCHANGED run
    <3>1. pc'[c] = "explored" /\ run' = run
      BY <1>k, <2>2, GoesAlone
    <3> QED
      BY <1>u, <1>l, <3>1, StillWithin DEF Acting
  <2>3. ASSUME NEW a, WithinLimits(c), UNCHANGED pc \/ Goto(c, "return") \/ Goto(c, "attempt"),
               Becomes(c, [run[c] EXCEPT !.item = a, !.todo = @ \ {a}])
        PROVE  InLimits(c)'
    <3>1. pc'[c] \in {"explore", "return", "attempt"}
      BY <1>k, <2>1, <2>3, GoesAlone
    <3>2. run'[c] = [run[c] EXCEPT !.item = a, !.todo = @ \ {a}]
      BY <1>k, <2>3, BecomesAlone
    <3>3. run'[c].states = run[c].states /\ run'[c].mode = "state" /\ run[c].states < MaxStates
      BY <1>k, <2>1, <2>3, <3>2 DEF Run, WithinLimits
    <3> QED
      BY <1>u, <1>l, <3>1, <3>3, StillWithin DEF Acting
  <2> QED
    BY <1>2, <2>2, <2>3 DEF Explore
<1>3. CASE MarkStateExplored(c) \/ MarkDeferredWorkProcessed(c)
  <2>1. pc'[c] = "loop" /\ run' = run
    BY <1>3, <1>k, GoesAlone DEF MarkStateExplored, MarkDeferredWorkProcessed
  <2> QED
    BY <1>u, <1>l, <2>1, StillWithin DEF Acting
<1>4. CASE RunDeferredItem(c)
  <2>1. pc[c] = "deferred" /\ run[c].mode = "deferred" /\ run[c].states < MaxStates
    BY <1>4, <1>k DEF RunDeferredItem, InMode, InLimits, Counts
  <2>2. /\ pc'[c] \in {"attempt", "processed"}
        /\ run'[c].states = run[c].states /\ run'[c].mode = run[c].mode
    BY <1>4, <1>k, ReplayAlone, ReplayCounts DEF RunDeferredItem
  <2> QED
    BY <1>u, <1>l, <2>1, <2>2, StillWithin DEF Acting
<1> QED
  BY <1>1, <1>2, <1>3, <1>4

LEMMA SequenceWithin ==
  ASSUME Typed, Kept, NEW c \in Crawlers, InLimits(c),
         \/ MarkActionAttempted(c) \/ TryIncrementActionRepeat(c) \/ ExecuteAction(c)
         \/ Register(c) \/ AddTransition(c) \/ Fault(c)
  PROVE  InLimits(c)'
<1> USE DEF nodes, work, history
<1>k. TypeOK /\ run[c] \in Run /\ InMode(pc[c], run[c])
  BY WhereItIs DEF Typed
<1>a. After(c, TRUE) \in {"return", "processed", "loop", "pending"}
      /\ After(c, FALSE) \in {"return", "processed", "loop", "pending"}
  BY <1>k, AfterIsAway
<1>1. CASE MarkActionAttempted(c)
  <2>1. /\ pc[c] = "attempt" /\ UNCHANGED <<known, run>>
        /\ attempted' = attempted \union {Item(c)}
        /\ pc'[c] = IF Item(c) \in attempted THEN After(c, FALSE) ELSE "repeat"
    BY <1>1, <1>k, GoesAlone DEF MarkActionAttempted
  <2>2. run[c].mode = "login" => Login # NoLogin /\ Item(c) = LoginItem
    BY <1>k, <2>1 DEF InMode, LoginPlaces, Sequence, Item, LoginItem
  <2>3. Login # NoLogin => LoginItem \in attempted'
    BY <2>1, <2>2 DEF InLimits, LoginFirst
  <2>4. pc'[c] \in Acting \ {"attempt"} /\ run'[c].mode = "login" => known \subseteq Given
    BY <1>a, <2>1, <2>2 DEF InLimits, LoginFirst, Acting
  <2>5. run[c].mode # "login" => run[c].states < MaxStates
    BY <2>1 DEF InLimits, Counts, Acting
  <2> QED
    BY <1>a, <2>1, <2>3, <2>4, <2>5, StillWithin
<1>2. CASE TryIncrementActionRepeat(c) \/ ExecuteAction(c)
  <2>1. pc[c] \in {"repeat", "act"} /\ UNCHANGED <<known, attempted>>
    BY <1>2 DEF TryIncrementActionRepeat, ExecuteAction
  <2>2. /\ pc'[c] \in {"act", "add", After(c, FALSE)}
        /\ run'[c].states = run[c].states /\ run'[c].mode = run[c].mode
    <3>1. CASE TryIncrementActionRepeat(c)
      BY <1>k, <3>1, GoesAlone DEF TryIncrementActionRepeat
    <3>2. CASE ExecuteAction(c)
      <4>1. ASSUME NEW at, NEW astray, Goto(c, After(c, FALSE)) \/ Goto(c, "add"),
                   \/ Becomes(c, [run[c] EXCEPT !.at = at])
                   \/ Becomes(c, [run[c] EXCEPT !.at = at, !.astray = astray])
            PROVE  /\ pc'[c] \in {"add", After(c, FALSE)}
                   /\ run'[c].states = run[c].states /\ run'[c].mode = run[c].mode
        <5>1. \/ run'[c] = [run[c] EXCEPT !.at = at]
              \/ run'[c] = [run[c] EXCEPT !.at = at, !.astray = astray]
          BY <1>k, <4>1, BecomesAlone
        <5>2. run'[c].states = run[c].states /\ run'[c].mode = run[c].mode
          BY <1>k, <5>1 DEF Run
        <5> QED
          BY <1>k, <4>1, <5>2, GoesAlone
      <4> QED
        BY <3>2, <4>1 DEF ExecuteAction
    <3> QED
      BY <1>2, <3>1, <3>2
  <2>3. Login # NoLogin => LoginItem \in attempted'
    BY <2>1, LoginTried
  <2>4. run[c].mode = "login" => known \subseteq Given
    BY <2>1 DEF InLimits, LoginFirst, Acting
  <2>5. run[c].mode # "login" => run[c].states < MaxStates
    BY <2>1 DEF InLimits, Counts, Acting
  <2> QED
    BY <1>a, <2>1, <2>2, <2>3, <2>4, <2>5, StillWithin
<1>3. CASE Register(c) \/ AddTransition(c) \/ Fault(c)
  <2>1. pc[c] \in {"add", "register", "record"} /\ UNCHANGED <<known, attempted>>
    BY <1>3 DEF Register, AddTransition, Fault
  <2>2. /\ pc'[c] \in {"record", After(c, TRUE), After(c, FALSE)}
        /\ run'[c].states = run[c].states
    <3>1. CASE Register(c)
      BY <1>k, <3>1, GoesAlone DEF Register
    <3>2. CASE AddTransition(c)
      <4> DEFINE t == <<run[c].source, run[c].item, run[c].at>>
      <4>1. run'[c] = [run[c] EXCEPT !.transitions = @ + (IF t \in transitions THEN 0 ELSE 1)]
        BY <1>k, <3>2, BecomesAlone DEF AddTransition
      <4>2. run'[c].states = run[c].states
        BY <1>k, <4>1 DEF Run
      <4> QED
        BY <1>k, <3>2, <4>2, GoesAlone DEF AddTransition
    <3>3. CASE Fault(c)
      <4>1. run'[c] = [run[c] EXCEPT !.at = Nowhere]
        BY <1>k, <3>3, BecomesAlone DEF Fault
      <4>2. run'[c].states = run[c].states
        BY <1>k, <4>1 DEF Run
      <4> QED
        BY <1>k, <3>3, <4>2, GoesAlone DEF Fault
    <3> QED
      BY <1>3, <3>1, <3>2, <3>3
  <2>3. Login # NoLogin => LoginItem \in attempted'
    BY <2>1, LoginTried
  <2> QED
    BY <1>a, <2>1, <2>2, <2>3, StillWithin DEF Acting
<1> QED
  BY <1>1, <1>2, <1>3

(* A state is added when the limit was not reached, or by the login, which *)
(* starts from what is given.                                              *)
LEMMA AddWithin ==
  ASSUME Typed, Kept, NEW c \in Crawlers, InLimits(c), AddState(c)
  PROVE  InLimits(c)'
<1>k. TypeOK /\ run[c] \in Run /\ Cardinality(known) \in Nat /\ IsFiniteSet(known)
      /\ InMode(pc[c], run[c])
  BY WhereItIs, CountsAreNat, LimitIs, FS_Subset DEF Typed, TypeOK
<1>1. /\ pc[c] = "add" /\ pc'[c] = "register" /\ attempted' = attempted
      /\ known' = known \union {run[c].at}
  BY <1>k, GoesAlone DEF AddState, AddToQueue
<1>2. run'[c] = [run[c] EXCEPT !.states = @ + (IF run[c].at \in known THEN 0 ELSE 1)]
  BY <1>k, BecomesAlone DEF AddState, AddToQueue
<1>3. run'[c].states = run[c].states + (IF run[c].at \in known THEN 0 ELSE 1)
  BY <1>k, <1>2 DEF Run
<1>4. Cardinality(known') = Cardinality(known) + (IF run[c].at \in known THEN 0 ELSE 1)
  BY <1>k, <1>1, OneMore
<1>5. Home \in known /\ (Login # NoLogin => LoginItem \in attempted)
  BY <1>1, LoginTried DEF InLimits, LoginFirst
<1>6. Cardinality(known') <= Limit
  <2>1. CASE run[c].mode = "login"
    <3>1. known \subseteq Given /\ Login # NoLogin
      BY <1>k, <1>1, <2>1 DEF InLimits, LoginFirst, Acting, InMode, LoginPlaces, Sequence
    <3>2. Cardinality(known) <= Cardinality(KnownBefore) + 1
      BY <3>1, GivenIs
    <3> QED
      BY <1>k, <1>4, <3>1, <3>2, LimitIs DEF Unchecked
  <2>2. CASE run[c].mode # "login"
    <3>1. Cardinality(known) < MaxStates
      BY <1>1, <2>2 DEF InLimits, Counts, Acting
    <3> QED
      BY <1>k, <1>4, <3>1, LimitIs
  <2> QED
    BY <2>1, <2>2
<1>7. Limited'
  BY <1>1, <1>5, <1>6 DEF Limited, Limit, Unchecked
<1>8. Counts(c)'
  BY <1>1, <1>3, <1>4 DEF InLimits, Counts, Acting
<1>9. LoginFirst(c)'
  BY <1>1, <1>5 DEF LoginFirst, Acting
<1> QED
  BY <1>7, <1>8, <1>9 DEF InLimits

LEMMA StopWithin ==
  ASSUME Typed, Kept, NEW c \in Crawlers, InLimits(c), Kill(c) \/ Cancel(c)
  PROVE  InLimits(c)'
<1>1. pc'[c] = "idle" /\ UNCHANGED <<known, attempted>>
  BY EndsAlone DEF Kill, Cancel, Typed, nodes, work
<1>2. Limited' /\ Counts(c)' /\ LoginFirst(c)'
  BY <1>1 DEF InLimits, Limited, Limit, Unchecked, Counts, LoginFirst, Given, Acting
<1> QED
  BY <1>2 DEF InLimits

LEMMA StepWithin == Typed /\ Kept /\ Within /\ [Next]_vars => Within'
<1> SUFFICES ASSUME Typed, Kept, Within, [Next]_vars, OneAtATime
             PROVE  Limited' /\ \A c \in Crawlers : InLimits(c)'
  BY DEF Within, OneAtATime
<1>1. Limited /\ \A c \in Crawlers : InLimits(c)
  BY DEF Within
<1>2. CASE UNCHANGED vars
  BY <1>1, <1>2 DEF InLimits, Limited, Limit, Unchecked, Counts, LoginFirst, Given, vars, nodes, work
<1>3. CASE Next
  <2>1. PICK c \in Crawlers : StartSlice(c) \/ Slice(c) \/ Failure(c)
    BY <1>3 DEF Next
  <2>2. InLimits(c)'
    BY <1>1, <2>1, SeedWithin, LoopWithin, ExploreWithin, SequenceWithin, AddWithin, StopWithin
    DEF Slice, Failure
  <2>3. \A d \in Crawlers : d = c
    BY DEF OneAtATime
  <2> QED
    BY <2>2, <2>3 DEF InLimits
<1> QED
  BY <1>2, <1>3

LEMMA AlwaysWithin == Spec => [](Typed /\ Kept /\ Within)
<1>1. Init => Within
  <2> SUFFICES ASSUME Init PROVE Limited /\ \A c \in Crawlers : Counts(c) /\ LoginFirst(c)
    BY DEF Within, InLimits
  <2>1. known = KnownBefore /\ \A c \in Crawlers : pc[c] = "idle"
    BY DEF Init
  <2>2. Limited
    BY <2>1, LimitIs DEF Limited, Unchecked
  <2> QED
    BY <2>1, <2>2 DEF Counts, LoginFirst, Given, Acting
<1> QED
  BY <1>1, StepWithin, AlwaysKept, AlwaysTyped, PTL DEF Spec

LEMMA WithinHolds ==
  ASSUME Within
  PROVE  LimitsHold
<1>1. OneAtATime => Cardinality(known) <= Limit
  BY DEF Within, Limited
<1> QED
  BY <1>1 DEF LimitsHold, Limit, Unchecked

-----------------------------------------------------------------------------
(* Induction over numbers, and functions defined by it.                    *)
LEMMA LeastOf ==
  ASSUME NEW T, T \subseteq Nat, T # {}
  PROVE  \E x \in T : \A y \in T : x <= y
<1>1. IsWellFoundedOn(OpToRel(<, Nat), Nat)
  BY NatLessThanWellFounded
<1>2. PICK x \in T : \A y \in T : ~(<<y, x>> \in OpToRel(<, Nat))
  BY <1>1, WFMin, Zenon
<1>3. ASSUME NEW y \in T PROVE x <= y
  <2>1. x \in Nat /\ y \in Nat
    OBVIOUS
  <2>2. <<y, x>> \notin OpToRel(<, Nat)
    BY <1>2, Zenon
  <2>3. ~(y < x)
    BY <2>1, <2>2 DEF OpToRel
  <2> QED
    BY <2>1, <2>3
<1> QED
  BY <1>3

LEMMA NumbersFromZero ==
  ASSUME NEW S \in SUBSET Nat, 0 \in S, \A n \in S : n + 1 \in S
  PROVE  \A n \in Nat : n \in S
<1> SUFFICES ASSUME NEW m \in Nat, m \notin S PROVE FALSE
  OBVIOUS
<1>1. PICK n \in Nat \ S : \A k \in Nat \ S : n <= k
  <2>1. Nat \ S \subseteq Nat /\ Nat \ S # {}
    OBVIOUS
  <2> QED
    BY <2>1, LeastOf
<1>2. n - 1 \in Nat /\ ~(n <= n - 1)
  BY <1>1
<1>3. n - 1 \in S
  BY <1>1, <1>2
<1> QED
  BY <1>1, <1>3

(* What a sequence of steps, a function each, makes of a value.            *)
Steps(step, X, n) == step \in [1 .. n -> [X -> X]]
Follows(f, x, step, X, n) ==
  f \in [0 .. n -> X] /\ f[0] = x /\ \A k \in 1 .. n : f[k] = step[k][f[k - 1]]

LEMMA Recursion ==
  ASSUME NEW X, NEW x \in X, NEW n \in Nat, NEW step, Steps(step, X, n)
  PROVE  \E f : Follows(f, x, step, X, n)
<1> USE DEF Steps
<1> DEFINE Matches(m, f) == f[0] = x /\ \A k \in 1 .. m : f[k] = step[k][f[k - 1]]
           S == {m \in Nat : m <= n => \E f \in [0 .. m -> X] : Matches(m, f)}
<1>1. 0 \in S
  <2> DEFINE f == [k \in 0 .. 0 |-> x]
  <2>1. f \in [0 .. 0 -> X] /\ f[0] = x /\ 1 .. 0 = {}
    OBVIOUS
  <2> HIDE DEF f
  <2> QED
    BY <2>1
<1>2. ASSUME NEW m \in S PROVE m + 1 \in S
  <2> SUFFICES ASSUME m + 1 <= n PROVE \E g \in [0 .. m + 1 -> X] : Matches(m + 1, g)
    OBVIOUS
  <2>1. PICK f \in [0 .. m -> X] : Matches(m, f)
    OBVIOUS
  <2> DEFINE g == [k \in 0 .. m + 1 |-> IF k = m + 1 THEN step[m + 1][f[m]] ELSE f[k]]
  <2>2. m \in 0 .. m /\ m \in Nat /\ m + 1 \in 1 .. n /\ m + 1 \in 0 .. m + 1 /\ 0 # m + 1
    OBVIOUS
  <2>3. f[m] \in X /\ step[m + 1] \in [X -> X]
    BY <2>2
  <2>4. step[m + 1][f[m]] \in X
    BY <2>3
  <2>5. g \in [0 .. m + 1 -> X]
    BY <2>4
  <2>6. g[0] = x
    BY <2>1, <2>2
  <2>7. ASSUME NEW k \in 1 .. m + 1 PROVE g[k] = step[k][g[k - 1]]
    <3>1. CASE k = m + 1
      <4>1. g[k] = step[m + 1][f[m]] /\ k - 1 = m /\ g[m] = f[m]
        BY <3>1, <2>2
      <4> QED
        BY <3>1, <4>1
    <3>2. CASE k # m + 1
      <4>1. k \in 1 .. m /\ k - 1 \in 0 .. m /\ k - 1 # m + 1
        BY <3>2
      <4>2. g[k] = f[k] /\ g[k - 1] = f[k - 1]
        BY <4>1, <3>2
      <4> QED
        BY <2>1, <4>1, <4>2
    <3> QED
      BY <3>1, <3>2
  <2> QED
    BY <2>5, <2>6, <2>7
<1>3. S \in SUBSET Nat
  OBVIOUS
<1>4. n \in S
  <2> HIDE DEF S
  <2> QED
    BY <1>1, <1>2, <1>3, NumbersFromZero
<1> QED
  BY <1>4 DEF Follows

-----------------------------------------------------------------------------
(* Sequences, and what is in them.                                         *)
LEMMA ElementsAre ==
  ASSUME NEW S, NEW s \in Seq(S)
  PROVE  /\ Len(s) \in Nat /\ DOMAIN s = 1 .. Len(s) /\ Range(s) \subseteq S
         /\ Range(s) = {s[i] : i \in 1 .. Len(s)}
         /\ (s = <<>> <=> Len(s) = 0) /\ (s = <<>> <=> Range(s) = {})
<1>1. Len(s) \in Nat /\ DOMAIN s = 1 .. Len(s) /\ \A i \in 1 .. Len(s) : s[i] \in S
  OBVIOUS
<1>2. s = <<>> <=> Len(s) = 0
  OBVIOUS
<1>3. Range(s) = {s[i] : i \in 1 .. Len(s)}
  BY <1>1 DEF Range
<1>4. Len(s) # 0 => 1 \in 1 .. Len(s)
  BY <1>1
<1> QED
  BY <1>1, <1>2, <1>3, <1>4

LEMMA AppendedIs ==
  ASSUME NEW S, NEW s \in Seq(S), NEW x \in S
  PROVE  /\ Append(s, x) \in Seq(S) /\ Range(Append(s, x)) = Range(s) \union {x}
         /\ Len(Append(s, x)) = Len(s) + 1 /\ Append(s, x)[Len(s) + 1] = x
         /\ \A i \in 1 .. Len(s) : Append(s, x)[i] = s[i]
<1>1. /\ Append(s, x) \in Seq(S) /\ Len(s) \in Nat
      /\ Len(Append(s, x)) = Len(s) + 1 /\ Append(s, x)[Len(s) + 1] = x
      /\ \A i \in 1 .. Len(s) : Append(s, x)[i] = s[i]
  OBVIOUS
<1>2. Range(s) = {s[i] : i \in 1 .. Len(s)}
  BY ElementsAre, Zenon
<1>3. Range(Append(s, x)) = {Append(s, x)[i] : i \in 1 .. Len(s) + 1}
  <2>1. Range(Append(s, x)) = {Append(s, x)[i] : i \in 1 .. Len(Append(s, x))}
    BY <1>1, ElementsAre, Zenon
  <2> QED
    BY <1>1, <2>1, Zenon
<1> DEFINE t == Append(s, x)
<1> HIDE DEF t
<1>4. ASSUME NEW i \in 1 .. Len(s) + 1 PROVE i \in 1 .. Len(s) \/ i = Len(s) + 1
  BY <1>1
<1>5. \A i \in 1 .. Len(s) : i \in 1 .. Len(s) + 1
  BY <1>1
<1>6. Len(s) + 1 \in 1 .. Len(s) + 1
  BY <1>1
<1>7. Range(t) = {t[i] : i \in 1 .. Len(s) + 1} /\ t[Len(s) + 1] = x
      /\ \A i \in 1 .. Len(s) : t[i] = s[i]
  BY <1>1, <1>3, Zenon DEF t
<1>8. Range(t) = Range(s) \union {x}
  BY <1>2, <1>4, <1>5, <1>6, <1>7
<1> QED
  BY <1>1, <1>8, Zenon DEF t

(* r is s with t appended.                                                 *)
IsBoth(r, s, t) ==
  /\ Len(s) \in Nat /\ Len(t) \in Nat /\ Len(r) = Len(s) + Len(t)
  /\ \A i \in 1 .. Len(s) : r[i] = s[i]
  /\ \A i \in 1 .. Len(t) : r[Len(s) + i] = t[i]

LEMMA JoinedIs ==
  ASSUME NEW S, NEW s \in Seq(S), NEW t \in Seq(S)
  PROVE  /\ s \o t \in Seq(S) /\ Range(s \o t) = Range(s) \union Range(t)
         /\ IsBoth(s \o t, s, t)
<1>1. /\ s \o t \in Seq(S) /\ Len(s) \in Nat /\ Len(t) \in Nat
      /\ Len(s \o t) = Len(s) + Len(t)
      /\ \A i \in 1 .. Len(s) : (s \o t)[i] = s[i]
  OBVIOUS
<1>2. \A i \in 1 .. Len(t) : (s \o t)[Len(s) + i] = t[i]
  <2> SUFFICES ASSUME NEW i \in 1 .. Len(t) PROVE (s \o t)[Len(s) + i] = t[i]
    OBVIOUS
  <2>1. Len(s) + i \in 1 .. Len(s) + Len(t) /\ Len(s) + i > Len(s) /\ (Len(s) + i) - Len(s) = i
    BY <1>1
  <2> QED
    BY <1>1, <2>1
<1>3. /\ Range(s) = {s[i] : i \in 1 .. Len(s)} /\ Range(t) = {t[i] : i \in 1 .. Len(t)}
      /\ Range(s \o t) = {(s \o t)[i] : i \in 1 .. Len(s \o t)}
  BY <1>1, ElementsAre, Zenon
<1> DEFINE both == s \o t
           m == Len(s)
           n == Len(t)
<1>4. /\ m \in Nat /\ n \in Nat /\ Range(both) = {both[i] : i \in 1 .. m + n}
      /\ \A i \in 1 .. m : both[i] = s[i]
      /\ \A i \in 1 .. n : both[m + i] = t[i]
      /\ Range(s) = {s[i] : i \in 1 .. m} /\ Range(t) = {t[i] : i \in 1 .. n}
  BY <1>1, <1>2, <1>3
<1> HIDE DEF both, m, n
<1>5. ASSUME NEW i \in 1 .. m + n PROVE i \in 1 .. m \/ \E j \in 1 .. n : i = m + j
  <2>1. CASE i > m
    <3>1. i - m \in 1 .. n /\ i = m + (i - m)
      BY <1>4, <2>1
    <3> QED
      BY <3>1
  <2>2. CASE ~(i > m)
    BY <1>4, <2>2
  <2> QED
    BY <2>1, <2>2
<1>6. (\A i \in 1 .. m : i \in 1 .. m + n) /\ (\A i \in 1 .. n : m + i \in 1 .. m + n)
  BY <1>4
<1>7. Range(both) = Range(s) \union Range(t)
  BY <1>4, <1>5, <1>6
<1>8. IsBoth(s \o t, s, t)
  BY <1>1, <1>2 DEF IsBoth
<1> QED
  BY <1>1, <1>7, <1>8, Zenon DEF both

(* The loop that takes the first n members that are wanted: it takes no    *)
(* others, and each that has fewer than n wanted ones before it.           *)
LEMMA FirstOfIs ==
  ASSUME NEW S, NEW s \in Seq(S), NEW wanted, NEW n \in Nat
  PROVE  /\ FirstOf(s, wanted, n) \in Seq(S)
         /\ Range(FirstOf(s, wanted, n)) \subseteq wanted \intersect Range(s)
         /\ Len(FirstOf(s, wanted, n)) <= n
         /\ \A i \in 1 .. Len(s) :
              s[i] \in wanted /\ Cardinality({j \in 1 .. i - 1 : s[j] \in wanted}) < n
                => s[i] \in Range(FirstOf(s, wanted, n))
<1> DEFINE m == Len(s)
           Next1(x, k) == IF s[k] \in wanted /\ Len(x) < n THEN Append(x, s[k]) ELSE x
           step == [k \in 1 .. m |-> [x \in Seq(S) |-> Next1(x, k)]]
           Upto(f) == f = [k \in 0 .. m |->
                             IF k = 0 THEN <<>>
                             ELSE IF s[k] \in wanted /\ Len(f[k - 1]) < n
                                    THEN Append(f[k - 1], s[k])
                             ELSE f[k - 1]]
           f == CHOOSE f : Upto(f)
<1>1. m \in Nat /\ \A k \in 1 .. m : s[k] \in S
  OBVIOUS
<1>2. ASSUME NEW x \in Seq(S), NEW k \in 1 .. m PROVE Next1(x, k) \in Seq(S)
  BY <1>1
<1>3. step \in [1 .. m -> [Seq(S) -> Seq(S)]]
  BY <1>2
<1>4. <<>> \in Seq(S)
  OBVIOUS
<1>5. \E g : Upto(g)
  <2> HIDE DEF step, m
  <2>1. PICK g \in [0 .. m -> Seq(S)] :
          g[0] = <<>> /\ \A k \in 1 .. m : g[k] = step[k][g[k - 1]]
    <3> DEFINE X == Seq(S)
    <3>1. m \in Nat /\ Steps(step, X, m) /\ <<>> \in X
      BY <1>1, <1>3, <1>4 DEF Steps
    <3>2. PICK g : Follows(g, <<>>, step, X, m)
      <4> HIDE DEF X
      <4> QED
        BY <3>1, Recursion, Zenon
    <3> QED
      BY <3>2 DEF Follows
  <2>2. ASSUME NEW k \in 0 .. m
        PROVE  g[k] = IF k = 0 THEN <<>>
                      ELSE IF s[k] \in wanted /\ Len(g[k - 1]) < n THEN Append(g[k - 1], s[k])
                      ELSE g[k - 1]
    <3>1. CASE k = 0
      BY <2>1, <3>1
    <3>2. CASE k # 0
      <4>1. k \in 1 .. m /\ k - 1 \in 0 .. m
        BY <3>2, <1>1
      <4>2. g[k - 1] \in Seq(S)
        BY <4>1
      <4>3. step[k][g[k - 1]] = Next1(g[k - 1], k)
        BY <4>1, <4>2 DEF step
      <4>4. g[k] = step[k][g[k - 1]]
        BY <2>1, <4>1
      <4> QED
        BY <3>2, <4>3, <4>4
    <3> QED
      BY <3>1, <3>2
  <2>3. Upto(g)
    BY <2>1, <2>2
  <2> QED
    BY <2>3
<1>6. Upto(f)
  <2> HIDE DEF Upto
  <2> QED
    BY <1>5
<1>7. FirstOf(s, wanted, n) = f[m]
  BY DEF FirstOf
<1> HIDE DEF f
<1> DEFINE W(k) == {j \in 1 .. k : s[j] \in wanted}
           Good(k) == /\ f[k] \in Seq(S) /\ Range(f[k]) \subseteq wanted \intersect {s[i] : i \in 1 .. k}
                      /\ Len(f[k]) <= n
                      /\ Len(f[k]) < n => Cardinality(W(k)) = Len(f[k])
                      /\ Len(f[k]) = n => Cardinality(W(k)) >= n
                      /\ \A i \in 1 .. k : s[i] \in wanted /\ Cardinality(W(i - 1)) < n
                                             => s[i] \in Range(f[k])
           T == {k \in Nat : k <= m => Good(k)}
<1>w. ASSUME NEW k \in Nat
      PROVE  /\ IsFiniteSet(W(k)) /\ Cardinality(W(k)) \in Nat
             /\ s[k + 1] \in wanted => Cardinality(W(k + 1)) = Cardinality(W(k)) + 1
             /\ s[k + 1] \notin wanted => W(k + 1) = W(k)
  <2>1. IsFiniteSet(1 .. k)
    BY FS_Interval
  <2>2. W(k) \subseteq 1 .. k
    OBVIOUS
  <2>3. IsFiniteSet(W(k)) /\ Cardinality(W(k)) \in Nat
    <3> HIDE DEF W
    <3> QED
      BY <2>1, <2>2, FS_Subset, FS_CardinalityType
  <2>4. \A i : i \in 1 .. k + 1 <=> i \in 1 .. k \/ i = k + 1
    OBVIOUS
  <2>5. s[k + 1] \in wanted => W(k + 1) = W(k) \union {k + 1}
    BY <2>4
  <2>6. k + 1 \notin W(k)
    OBVIOUS
  <2>7. s[k + 1] \notin wanted => W(k + 1) = W(k)
    BY <2>4
  <2>8. Cardinality(W(k) \union {k + 1}) = Cardinality(W(k)) + 1
    <3> HIDE DEF W
    <3>1. Cardinality(W(k) \union {k + 1}) = Cardinality(W(k)) + (IF k + 1 \in W(k) THEN 0 ELSE 1)
      BY <2>3, OneMore
    <3> QED
      BY <2>3, <2>6, <3>1
  <2> HIDE DEF W
  <2> QED
    BY <2>3, <2>5, <2>7, <2>8
<1>8. 0 \in T
  <2>1. f[0] = <<>> /\ 1 .. 0 = {}
    BY <1>1, <1>6
  <2>2. Range(<<>>) = {} /\ Len(<<>>) = 0
    BY <1>4, ElementsAre
  <2>3. Cardinality(W(0)) = 0
    <3>1. W(0) = {}
      BY <2>1
    <3> HIDE DEF W
    <3> QED
      BY <3>1, FS_EmptySet
  <2>4. Range(f[0]) = {} /\ Len(f[0]) = 0 /\ f[0] \in Seq(S)
    BY <1>4, <2>1, <2>2
  <2>5. \A i \in 1 .. 0 : FALSE
    BY <2>1
  <2> HIDE DEF W
  <2>6. Good(0)
    BY <2>3, <2>4, <2>5
  <2> QED
    BY <2>6
<1>9. ASSUME NEW k \in T PROVE k + 1 \in T
  <2> SUFFICES ASSUME k + 1 <= m PROVE Good(k + 1)
    OBVIOUS
  <2>1. k \in Nat /\ k + 1 # 0 /\ k + 1 \in 0 .. m /\ (k + 1) - 1 = k /\ k <= m /\ k + 1 \in 1 .. m
    BY <1>1
  <2>2. f[k + 1] = Next1(f[k], k + 1)
    BY <1>6, <2>1
  <2>3. Good(k)
    BY <2>1
  <2>4. {s[i] : i \in 1 .. k + 1} = {s[i] : i \in 1 .. k} \union {s[k + 1]}
    <3>1. \A i : i \in 1 .. k + 1 <=> i \in 1 .. k \/ i = k + 1
      OBVIOUS
    <3> QED
      BY <3>1
  <2>5. s[k + 1] \in S
    BY <1>1, <2>1
  <2>6. /\ Append(f[k], s[k + 1]) \in Seq(S)
        /\ Range(Append(f[k], s[k + 1])) = Range(f[k]) \union {s[k + 1]}
        /\ Len(Append(f[k], s[k + 1])) = Len(f[k]) + 1 /\ Len(f[k]) \in Nat
    BY <2>3, <2>5, AppendedIs, ElementsAre
  <2>7. /\ Cardinality(W(k)) \in Nat
        /\ s[k + 1] \in wanted => Cardinality(W(k + 1)) = Cardinality(W(k)) + 1
        /\ s[k + 1] \notin wanted => W(k + 1) = W(k)
    BY <1>w, <2>1
  <2>8. /\ f[k + 1] \in Seq(S) /\ Range(f[k]) \subseteq Range(f[k + 1])
        /\ Range(f[k + 1]) \subseteq wanted \intersect {s[i] : i \in 1 .. k + 1}
    BY <2>2, <2>3, <2>4, <2>6
  <2>9. /\ Len(f[k + 1]) <= n
        /\ Len(f[k + 1]) < n => Cardinality(W(k + 1)) = Len(f[k + 1])
        /\ Len(f[k + 1]) = n => Cardinality(W(k + 1)) >= n
    <3>1. CASE s[k + 1] \in wanted /\ Len(f[k]) < n
      <4>1. f[k + 1] = Append(f[k], s[k + 1])
        BY <2>2, <3>1
      <4>2. Cardinality(W(k)) = Len(f[k]) /\ Len(f[k + 1]) = Len(f[k]) + 1
            /\ Cardinality(W(k + 1)) = Cardinality(W(k)) + 1
        BY <2>3, <2>6, <2>7, <3>1, <4>1
      <4> HIDE DEF W
      <4> QED
        BY <2>6, <2>7, <3>1, <4>2
    <3>2. CASE ~(s[k + 1] \in wanted /\ Len(f[k]) < n)
      <4>1. f[k + 1] = f[k]
        BY <2>2, <3>2
      <4> HIDE DEF W
      <4> QED
        BY <2>3, <2>6, <2>7, <3>2, <4>1
    <3> QED
      BY <3>1, <3>2
  <2>10. ASSUME NEW i \in 1 .. k + 1, s[i] \in wanted, Cardinality(W(i - 1)) < n
         PROVE  s[i] \in Range(f[k + 1])
    <3>1. CASE i = k + 1
      <4>1. Cardinality(W(k)) < n
        BY <2>1, <2>10, <3>1
      <4> HIDE DEF W
      <4> QED
        BY <2>2, <2>3, <2>6, <2>7, <2>10, <3>1, <4>1
    <3>2. CASE i # k + 1
      <4>1. i \in 1 .. k
        BY <2>1, <3>2
      <4> HIDE DEF W
      <4> QED
        BY <2>3, <2>8, <2>10, <4>1
    <3> QED
      BY <3>1, <3>2
  <2> HIDE DEF W
  <2> QED
    BY <2>8, <2>9, <2>10
<1>10. T \in SUBSET Nat
  OBVIOUS
<1>11. m \in T
  <2> HIDE DEF T, m
  <2> QED
    BY <1>1, <1>8, <1>9, <1>10, NumbersFromZero
<1>12. Good(m)
  BY <1>1, <1>11
<1>13. Range(s) = {s[i] : i \in 1 .. m}
  BY ElementsAre, Zenon
<1> QED
  BY <1>7, <1>12, <1>13

-----------------------------------------------------------------------------
(* What is planned for a form.                                             *)
Kinds == {"click", "type", "select", "press"}

AnAction ==
  [type : Kinds, selector : STRING, value : STRING, key : STRING, about : SUBSET STRING]

LEMMA ActionIs ==
  ASSUME NEW kind \in Kinds, NEW e \in AnElement, NEW value \in STRING,
         NEW about \in SUBSET STRING
  PROVE  /\ Action(kind, e, value, about) \in AnAction
         /\ Action(kind, e, value, about).type = kind
         /\ Action(kind, e, value, about).selector = e.selector
         /\ Action(kind, e, value, about).value = value
         /\ Action(kind, e, value, about).key = e.key
         /\ Action(kind, e, value, about).about = about
<1>1. e.selector \in STRING /\ e.key \in STRING
  BY DEF AnElement
<1> QED
  BY <1>1 DEF Action, AnAction

LEMMA ClickIs ==
  ASSUME NEW e \in AnElement, NEW about \in SUBSET STRING
  PROVE  /\ Click(e, about) \in AnAction /\ Click(e, about).type = "click"
         /\ Click(e, about).selector = e.selector /\ Click(e, about).value = NoText
         /\ Click(e, about).key = e.key /\ Click(e, about).about = about
<1>1. NoText \in STRING
  BY PlanningAssumption DEF PlanningAssumption
<1>2. "click" \in Kinds
  BY DEF Kinds
<1> QED
  BY <1>1, <1>2, ActionIs DEF Click

LEMMA OnlyOne ==
  ASSUME NEW S, NEW x \in S
  PROVE  /\ <<x>> \in Seq(S) /\ Range(<<x>>) = {x} /\ Len(<<x>>) = 1 /\ <<x>>[1] = x
         /\ DOMAIN <<x>> = 1 .. 1
<1>1. <<x>> \in Seq(S) /\ Len(<<x>>) = 1 /\ <<x>>[1] = x /\ DOMAIN <<x>> = 1 .. 1
  OBVIOUS
<1>2. Range(<<x>>) = {<<x>>[i] : i \in 1 .. 1} /\ \A i \in 1 .. 1 : i = 1
  BY <1>1 DEF Range
<1> QED
  BY <1>1, <1>2

LEMMA NoneAtAll ==
  ASSUME NEW S
  PROVE  <<>> \in Seq(S) /\ Range(<<>>) = {} /\ Len(<<>>) = 0
<1>1. <<>> \in Seq(S)
  OBVIOUS
<1> QED
  BY <1>1, ElementsAre

(* The fields that are clicked.                                            *)
ClicksOn(f, chosen) ==
  /\ ~ShouldSkipField(f) /\ f.tag # "select"
  /\ \/ f.type = "checkbox" /\ Has(f, "required") /\ ~Has(f, "checked")
     \/ f.type = "radio" /\ f \in chosen

(* The actions for a field are actions on it.                              *)
LEMMA FieldActionsAre ==
  ASSUME NEW form \in AForm, NEW f \in AnElement, NEW chosen
  PROVE  /\ FieldActions(f, form, chosen) \in Seq(AnAction)
         /\ \A a \in Range(FieldActions(f, form, chosen)) :
              a.key = f.key /\ (a.type = "click" => ClicksOn(f, chosen))
         /\ ClicksOn(f, chosen) =>
              \E a \in Range(FieldActions(f, form, chosen)) : a.type = "click" /\ a.key = f.key
<1> DEFINE r == FieldActions(f, form, chosen)
           Good(s) == /\ s \in Seq(AnAction)
                      /\ \A a \in Range(s) : a.key = f.key /\ (a.type = "click" => ClicksOn(f, chosen))
                      /\ ClicksOn(f, chosen) => \E a \in Range(s) : a.type = "click" /\ a.key = f.key
<1>1. form.id \in STRING /\ f.type \in STRING /\ f.fill \in STRING /\ f.options \in Seq(STRING)
  BY DEF AForm, AnElement
<1>k. /\ "select" \in Kinds /\ "type" \in Kinds
      /\ {form.id} \in SUBSET STRING /\ {form.id, f.type} \in SUBSET STRING
  BY <1>1 DEF Kinds
<1>n. ~ClicksOn(f, chosen) => Good(<<>>)
  BY NoneAtAll
<1>c. ClicksOn(f, chosen) => Good(<<Click(f, {form.id})>>)
  <2> SUFFICES ASSUME ClicksOn(f, chosen) PROVE Good(<<Click(f, {form.id})>>)
    OBVIOUS
  <2> DEFINE a == Click(f, {form.id})
  <2>1. a \in AnAction /\ a.type = "click" /\ a.key = f.key
    BY <1>1, ClickIs
  <2>2. <<a>> \in Seq(AnAction) /\ Range(<<a>>) = {a}
    BY <2>1, OnlyOne
  <2>3. ASSUME NEW x, x.type = "click", x.key = f.key, <<x>> \in Seq(AnAction), Range(<<x>>) = {x}
        PROVE  Good(<<x>>)
    BY <2>3
  <2> HIDE DEF a, Good
  <2>4. Good(<<a>>)
    BY <2>1, <2>2, <2>3
  <2> QED
    BY <2>4 DEF a, Good
<1>2. CASE ShouldSkipField(f)
  <2>1. r = <<>> /\ ~ClicksOn(f, chosen)
    BY <1>2 DEF FieldActions, ClicksOn
  <2> QED
    BY <1>n, <2>1
<1>3. CASE ~ShouldSkipField(f) /\ f.tag = "select"
  <2> DEFINE first == FirstOf(f.options, Range(f.options) \ {NoText}, 1)
             s == [i \in DOMAIN first |-> Action("select", f, first[i], {form.id})]
  <2>1. r = s /\ ~ClicksOn(f, chosen)
    BY <1>3 DEF FieldActions, SelectActions, ClicksOn
  <2>2. first \in Seq(STRING)
    BY <1>1, FirstOfIs
  <2>3. Len(first) \in Nat /\ DOMAIN first = 1 .. Len(first) /\ \A i \in DOMAIN first : first[i] \in STRING
    <3> HIDE DEF first
    <3> QED
      BY <2>2
  <2> HIDE DEF first
  <2>4. \A i \in DOMAIN first : /\ s[i] \in AnAction /\ s[i].key = f.key
                                /\ s[i].type = "select"
    <3>1. \A i \in DOMAIN first : s[i] = Action("select", f, first[i], {form.id})
      OBVIOUS
    <3>2. ASSUME NEW v \in STRING
          PROVE  /\ Action("select", f, v, {form.id}) \in AnAction
                 /\ Action("select", f, v, {form.id}).key = f.key
                 /\ Action("select", f, v, {form.id}).type = "select"
      <4>1. Action("select", f, v, {form.id}) \in AnAction
        BY <1>k, ActionIs
      <4> QED
        BY <4>1 DEF Action
    <3> HIDE DEF s
    <3> QED
      BY <1>k, <2>3, <3>1, <3>2
  <2>5. s \in [1 .. Len(first) -> AnAction] /\ DOMAIN s = DOMAIN first
    BY <2>3, <2>4
  <2> HIDE DEF s
  <2>6. s \in Seq(AnAction)
    BY <2>3, <2>5
  <2>7. \A a \in Range(s) : a.key = f.key /\ a.type # "click"
    BY <2>4, <2>5 DEF Range
  <2> QED
    BY <2>1, <2>6, <2>7
<1>4. CASE ~ShouldSkipField(f) /\ f.tag # "select" /\ f.type = "checkbox"
  <2>1. r = CheckboxActions(f, form)
    BY <1>4 DEF FieldActions
  <2>2. r = IF ClicksOn(f, chosen) THEN <<Click(f, {form.id})>> ELSE <<>>
    BY <1>4, <2>1 DEF CheckboxActions, ClicksOn
  <2> HIDE DEF Good, r
  <2> QED
    BY <1>n, <1>c, <2>2 DEF Good, r
<1>5. CASE ~ShouldSkipField(f) /\ f.tag # "select" /\ f.type = "radio"
  <2>1. r = RadioActions(f, form, chosen)
    BY <1>5 DEF FieldActions
  <2>2. r = IF ClicksOn(f, chosen) THEN <<Click(f, {form.id})>> ELSE <<>>
    BY <1>5, <2>1 DEF RadioActions, ClicksOn
  <2> QED
    BY <1>n, <1>c, <2>2
<1>6. CASE ~ShouldSkipField(f) /\ f.tag # "select" /\ f.type \notin {"checkbox", "radio"}
  <2>1. r = <<Action("type", f, f.fill, {form.id, f.type})>> \/ r = <<>>
    BY <1>6 DEF FieldActions, TextActions
  <2>2. ~ClicksOn(f, chosen)
    BY <1>6 DEF ClicksOn
  <2> DEFINE a == Action("type", f, f.fill, {form.id, f.type})
  <2>3. a \in AnAction /\ a.type = "type" /\ a.key = f.key
    <3>1. a \in AnAction
      BY <1>1, <1>k, ActionIs
    <3> QED
      BY <3>1 DEF Action
  <2>4. <<a>> \in Seq(AnAction) /\ Range(<<a>>) = {a}
    BY <2>3, OnlyOne
  <2>5. Good(<<a>>)
    <3> HIDE DEF a
    <3> QED
      BY <2>2, <2>3, <2>4
  <2> QED
    BY <1>n, <2>1, <2>2, <2>5
<1> QED
  BY <1>2, <1>3, <1>4, <1>5, <1>6

(* ... and a form's plan is made of them, and of its submission.           *)
LEMMA PlanIs ==
  ASSUME NEW form \in AForm, form.submit.selector # NoText
  PROVE  \E u \in Seq(AnAction) :
           /\ PlanFormSubmission(form) = Append(u, SubmitAction(form))
           /\ \A a : a \in Range(u) <=>
                \E k \in 1 .. Len(form.fields) :
                  a \in Range(FieldActions(form.fields[k], form, ChooseRadioDefaults(form)))
<1> DEFINE n == Len(form.fields)
           X == Seq(AnAction)
           FA(k) == FieldActions(form.fields[k], form, ChooseRadioDefaults(form))
           Next1(x, k) == x \o FA(k)
           step == [k \in 1 .. n |-> [x \in X |-> Next1(x, k)]]
           Upto(f) == f = [k \in 0 .. n |-> IF k = 0 THEN <<>> ELSE Next1(f[k - 1], k)]
           f == CHOOSE f : Upto(f)
<1>1. n \in Nat /\ \A k \in 1 .. n : form.fields[k] \in AnElement
  <2>1. form.fields \in Seq(AnElement)
    BY DEF AForm
  <2> QED
    BY <2>1
<1>2. \A k \in 1 .. n : FA(k) \in Seq(AnAction)
  BY <1>1, FieldActionsAre
<1> HIDE DEF FA
<1>3. ASSUME NEW x \in X, NEW k \in 1 .. n
      PROVE  Next1(x, k) \in X /\ Range(Next1(x, k)) = Range(x) \union Range(FA(k))
  BY <1>2, JoinedIs
<1>4. <<>> \in X
  OBVIOUS
<1>5. PlanFormSubmission(form) = Append(f[n], SubmitAction(form))
  BY DEF PlanFormSubmission, FA
<1> HIDE DEF Next1, n
<1>6. step \in [1 .. n -> [X -> X]]
  <2> HIDE DEF X
  <2> QED
    BY <1>3
<1>7. \E g : Upto(g)
  <2> HIDE DEF step, X
  <2>1. n \in Nat /\ Steps(step, X, n) /\ <<>> \in X
    BY <1>1, <1>4, <1>6 DEF Steps
  <2>2. PICK g : Follows(g, <<>>, step, X, n)
    BY <2>1, Recursion, Zenon
  <2>3. /\ g \in [0 .. n -> X] /\ g[0] = <<>> /\ \A k \in 1 .. n : g[k] = step[k][g[k - 1]]
    BY <2>2 DEF Follows
  <2>4. ASSUME NEW k \in 0 .. n
        PROVE  g[k] = IF k = 0 THEN <<>> ELSE Next1(g[k - 1], k)
    <3>1. CASE k = 0
      BY <2>3, <3>1
    <3>2. CASE k # 0
      <4>1. k \in 1 .. n /\ k - 1 \in 0 .. n
        BY <3>2, <1>1
      <4>2. g[k - 1] \in X
        BY <2>3, <4>1
      <4>3. step[k][g[k - 1]] = Next1(g[k - 1], k)
        BY <4>1, <4>2 DEF step
      <4> QED
        BY <2>3, <3>2, <4>1, <4>3
    <3> QED
      BY <3>1, <3>2
  <2> QED
    BY <2>3, <2>4
<1>8. Upto(f)
  <2> HIDE DEF Upto
  <2> QED
    BY <1>7
<1> HIDE DEF f, X
<1> DEFINE Good(k) == /\ f[k] \in X
                      /\ \A a : a \in Range(f[k]) <=> \E i \in 1 .. k : a \in Range(FA(i))
           T == {k \in Nat : k <= n => Good(k)}
<1>9. 0 \in T
  <2>1. f[0] = <<>> /\ 1 .. 0 = {}
    BY <1>1, <1>8
  <2>2. Range(<<>>) = {}
    BY NoneAtAll
  <2> QED
    BY <1>4, <2>1, <2>2
<1>10. ASSUME NEW k \in T PROVE k + 1 \in T
  <2> SUFFICES ASSUME k + 1 <= n PROVE Good(k + 1)
    OBVIOUS
  <2>1. k \in Nat /\ k + 1 # 0 /\ k + 1 \in 0 .. n /\ (k + 1) - 1 = k /\ k <= n /\ k + 1 \in 1 .. n
    BY <1>1
  <2>2. f[k + 1] = Next1(f[k], k + 1)
    BY <1>8, <2>1
  <2>3. Good(k)
    BY <2>1
  <2>4. f[k + 1] \in X /\ Range(f[k + 1]) = Range(f[k]) \union Range(FA(k + 1))
    BY <1>3, <2>1, <2>2, <2>3
  <2>5. \A i : i \in 1 .. k + 1 <=> i \in 1 .. k \/ i = k + 1
    BY <2>1
  <2> QED
    BY <2>3, <2>4, <2>5
<1>11. T \in SUBSET Nat
  OBVIOUS
<1>12. n \in T
  <2> HIDE DEF T
  <2> QED
    BY <1>1, <1>9, <1>10, <1>11, NumbersFromZero
<1>13. f[n] \in X /\ \A a : a \in Range(f[n]) <=> \E i \in 1 .. n : a \in Range(FA(i))
  BY <1>1, <1>12
<1> QED
  BY <1>5, <1>13 DEF X, FA, n

-----------------------------------------------------------------------------
(* Forms are filled the way their page wants it.                           *)

(* A box or a button is clicked when there is an action for it.            *)
LEMMA ClickedIs ==
  ASSUME NEW form \in AForm, WellFormed(form), form.submit.selector # NoText,
         NEW f \in Range(form.fields)
  PROVE  (\E i \in 1 .. Len(PlanFormSubmission(form)) - 1 :
            /\ PlanFormSubmission(form)[i].type = "click"
            /\ PlanFormSubmission(form)[i].key = f.key)
           <=> ClicksOn(f, ChooseRadioDefaults(form))
<1> DEFINE chosen == ChooseRadioDefaults(form)
           FA(k) == FieldActions(form.fields[k], form, chosen)
           p == PlanFormSubmission(form)
           fields == form.fields
<1>1. fields \in Seq(AnElement) /\ form.submit \in AnElement /\ form.id \in STRING
  BY DEF AForm
<1>2. /\ Len(fields) \in Nat /\ DOMAIN fields = 1 .. Len(fields)
      /\ \A k \in 1 .. Len(fields) : fields[k] \in AnElement
      /\ Range(fields) = {fields[k] : k \in 1 .. Len(fields)}
  BY <1>1, ElementsAre
<1>3. PICK u \in Seq(AnAction) :
        p = Append(u, SubmitAction(form))
        /\ \A a : a \in Range(u) <=> \E k \in 1 .. Len(fields) : a \in Range(FA(k))
  BY PlanIs
<1>4. SubmitAction(form) \in AnAction
  <2>1. {form.id} \in SUBSET STRING
    BY <1>1
  <2> QED
    BY <1>1, <2>1, ClickIs DEF SubmitAction
<1>5. /\ Len(u) \in Nat /\ Range(u) = {u[i] : i \in 1 .. Len(u)}
      /\ Len(p) = Len(u) + 1 /\ \A i \in 1 .. Len(u) : p[i] = u[i]
  BY <1>3, <1>4, ElementsAre, AppendedIs
<1>6. PICK n \in 1 .. Len(fields) : fields[n] = f
  BY <1>2
<1>7. \A k \in 1 .. Len(fields) :
        /\ \A a \in Range(FA(k)) : a.key = fields[k].key /\ (a.type = "click" => ClicksOn(fields[k], chosen))
        /\ ClicksOn(fields[k], chosen) => \E a \in Range(FA(k)) : a.type = "click" /\ a.key = fields[k].key
  BY <1>2, FieldActionsAre
<1>8. \A k \in 1 .. Len(fields) : fields[k].key = f.key => k = n
  BY <1>2, <1>6 DEF WellFormed
<1> HIDE DEF chosen, FA, p, fields
<1>9. (\E i \in 1 .. Len(u) : u[i].type = "click" /\ u[i].key = f.key)
        <=> \E a \in Range(u) : a.type = "click" /\ a.key = f.key
  BY <1>5
<1>10. (\E a \in Range(u) : a.type = "click" /\ a.key = f.key) <=> ClicksOn(f, chosen)
  BY <1>3, <1>6, <1>7, <1>8
<1>11. Len(p) - 1 = Len(u)
  BY <1>5
<1>12. (\E i \in 1 .. Len(p) - 1 : p[i].type = "click" /\ p[i].key = f.key)
         <=> ClicksOn(f, chosen)
  BY <1>5, <1>9, <1>10, <1>11
<1> QED
  BY <1>12 DEF p, chosen

Chosen(form, f) == ClicksOn(f, ChooseRadioDefaults(form))
GroupOf(form, f) == {g \in Range(form.fields) : g.type = "radio" /\ g.group = f.group}

LEMMA CheckedIs ==
  ASSUME NEW form \in AForm, WellFormed(form), form.submit.selector # NoText,
         NEW f \in Range(form.fields)
  PROVE  f \in CheckedAfter(form) <=>
           \/ /\ f.type = "radio"
              /\ \/ Chosen(form, f)
                 \/ Has(f, "checked") /\ \A g \in GroupOf(form, f) : ~Chosen(form, g)
           \/ f.type = "checkbox" /\ ~(Chosen(form, f) <=> Has(f, "checked"))
<1> DEFINE Clicked(g) == \E i \in 1 .. Len(PlanFormSubmission(form)) - 1 :
                            /\ PlanFormSubmission(form)[i].type = "click"
                            /\ PlanFormSubmission(form)[i].key = g.key
<1>1. \A g \in Range(form.fields) : Clicked(g) <=> Chosen(form, g)
  BY ClickedIs DEF Chosen
<1>2. f \in CheckedAfter(form) <=>
        \/ /\ f.type = "radio"
           /\ \/ Clicked(f)
              \/ /\ Has(f, "checked")
                 /\ ~ \E g \in Range(form.fields) : g.type = "radio" /\ g.group = f.group /\ Clicked(g)
        \/ f.type = "checkbox" /\ ~(Clicked(f) <=> Has(f, "checked"))
  BY DEF CheckedAfter
<1> HIDE DEF Clicked
<1> QED
  BY <1>1, <1>2 DEF GroupOf

(* Of a group that has none checked the first button is chosen, and no     *)
(* other.                                                                  *)
LEMMA FirstIsChosen ==
  ASSUME NEW form \in AForm, NEW f \in Range(form.fields), f.type = "radio",
         \A g \in GroupOf(form, f) : ~Has(g, "checked")
  PROVE  LET i == CHOOSE i \in DOMAIN form.fields :
                    /\ form.fields[i] \in GroupOf(form, f)
                    /\ \A j \in 1 .. i - 1 : form.fields[j] \notin GroupOf(form, f)
         IN  form.fields[i] \in GroupOf(form, f) /\ form.fields[i] \in ChooseRadioDefaults(form)
<1> DEFINE fields == form.fields
           Is(i) == /\ fields[i] \in GroupOf(form, f)
                    /\ \A j \in 1 .. i - 1 : fields[j] \notin GroupOf(form, f)
           i == CHOOSE i \in DOMAIN fields : Is(i)
<1>1. fields \in Seq(AnElement)
  BY DEF AForm
<1>2. /\ Len(fields) \in Nat /\ DOMAIN fields = 1 .. Len(fields)
      /\ Range(fields) = {fields[k] : k \in 1 .. Len(fields)}
  BY <1>1, ElementsAre
<1>3. \E k \in DOMAIN fields : Is(k)
  <2> DEFINE T == {k \in DOMAIN fields : fields[k] \in GroupOf(form, f)}
  <2>1. f \in GroupOf(form, f)
    BY DEF GroupOf
  <2>2. T # {} /\ T \subseteq Nat
    BY <1>2, <2>1
  <2>3. PICK k \in T : \A j \in T : k <= j
    <3> HIDE DEF T
    <3> QED
      BY <2>2, LeastOf
  <2>4. ASSUME NEW j \in 1 .. k - 1 PROVE fields[j] \notin GroupOf(form, f)
    <3>1. j \in DOMAIN fields /\ ~(k <= j)
      BY <1>2
    <3> QED
      BY <2>3, <3>1
  <2> QED
    BY <2>4
<1>4. i \in DOMAIN fields /\ Is(i)
  <2> HIDE DEF Is
  <2> QED
    BY <1>3
<1> HIDE DEF i
<1>5. fields[i] \in GroupOf(form, f)
  BY <1>4
<1>6. /\ fields[i].type = "radio" /\ fields[i].group = f.group
      /\ \A k \in DOMAIN fields : fields[k].type = "radio" /\ fields[k].group = f.group
                                    => fields[k] \in GroupOf(form, f)
  BY <1>2, <1>5 DEF GroupOf
<1>7. ASSUME NEW k \in DOMAIN fields, fields[k].type = "radio", fields[k].group = fields[i].group
      PROVE  i <= k /\ ~Has(fields[k], "checked")
  <2>1. fields[k] \in GroupOf(form, f)
    BY <1>6, <1>7
  <2>2. ~(k \in 1 .. i - 1) /\ k \in 1 .. Len(fields) /\ i \in 1 .. Len(fields)
    BY <1>2, <1>4, <2>1
  <2> QED
    BY <1>2, <2>1, <2>2
<1>8. fields[i] \in ChooseRadioDefaults(form)
  BY <1>4, <1>6, <1>7 DEF ChooseRadioDefaults
<1> QED
  BY <1>5, <1>8 DEF i

LEMMA ChosenAre ==
  ASSUME NEW form \in AForm, NEW f \in ChooseRadioDefaults(form)
  PROVE  /\ \A g \in GroupOf(form, f) : ~Has(g, "checked")
         /\ \A g \in ChooseRadioDefaults(form) : g.group = f.group => g = f
<1> DEFINE fields == form.fields
<1>1. fields \in Seq(AnElement)
  BY DEF AForm
<1>2. /\ Len(fields) \in Nat /\ DOMAIN fields = 1 .. Len(fields)
      /\ Range(fields) = {fields[k] : k \in 1 .. Len(fields)}
  BY <1>1, ElementsAre
<1>3. ASSUME NEW g \in ChooseRadioDefaults(form)
      PROVE  \E j \in DOMAIN fields :
               /\ fields[j] = g /\ g.type = "radio"
               /\ \A k \in DOMAIN fields :
                    fields[k].type = "radio" /\ fields[k].group = g.group
                      => j <= k /\ ~Has(fields[k], "checked")
  BY DEF ChooseRadioDefaults
<1>4. PICK i \in DOMAIN fields :
        /\ fields[i] = f /\ f.type = "radio"
        /\ \A k \in DOMAIN fields :
             fields[k].type = "radio" /\ fields[k].group = f.group
               => i <= k /\ ~Has(fields[k], "checked")
  BY <1>3
<1>5. \A g \in GroupOf(form, f) : ~Has(g, "checked")
  BY <1>2, <1>4 DEF GroupOf
<1>6. ASSUME NEW g \in ChooseRadioDefaults(form), g.group = f.group PROVE g = f
  <2>1. PICK j \in DOMAIN fields :
        /\ fields[j] = g /\ g.type = "radio"
        /\ \A k \in DOMAIN fields :
             fields[k].type = "radio" /\ fields[k].group = g.group => j <= k
    BY <1>3
  <2>2. i <= j /\ j <= i
    BY <1>4, <1>6, <2>1
  <2>3. i = j
    BY <1>2, <2>2
  <2> QED
    BY <1>4, <2>1, <2>3
<1> QED
  BY <1>5, <1>6

LEMMA AtMostOneOf ==
  ASSUME NEW S, \A x, y \in S : x = y
  PROVE  Cardinality(S) \in {0, 1}
<1>1. CASE S = {}
  BY <1>1, FS_EmptySet
<1>2. CASE S # {}
  <2>1. PICK x : x \in S
    BY <1>2
  <2>2. S = {x}
    BY <2>1
  <2> QED
    BY <2>2, FS_Singleton
<1> QED
  BY <1>1, <1>2

LEMMA FormIsFilled ==
  ASSUME NEW form \in AForm, WellFormed(form)
  PROVE  form \notin BadForms
<1> SUFFICES ASSUME form.submit.selector # NoText, form \in Forms PROVE form \notin BadForms
  BY DEF BadForms
<1> DEFINE fields == Range(form.fields)
           after == CheckedAfter(form)
           Group(f) == GroupOf(form, f)
           First(f) == form.fields[CHOOSE i \in DOMAIN form.fields :
                         /\ form.fields[i] \in Group(f)
                         /\ \A j \in 1 .. i - 1 : form.fields[j] \notin Group(f)]
<1>1. \A f \in fields : f \in AnElement
  <2>1. form.fields \in Seq(AnElement)
    BY DEF AForm
  <2> QED
    BY <2>1, ElementsAre
<1>2. \A f \in fields :
        f \in after <=>
           \/ /\ f.type = "radio"
              /\ \/ Chosen(form, f)
                 \/ Has(f, "checked") /\ \A g \in Group(f) : ~Chosen(form, g)
           \/ f.type = "checkbox" /\ ~(Chosen(form, f) <=> Has(f, "checked"))
  BY CheckedIs
<1>3. /\ \A f \in fields : /\ f.type \in {"radio", "checkbox"} => f.tag = "input"
                           /\ "checked" \in f.flags => f.type \in {"radio", "checkbox"}
      /\ \A f, g \in fields :
           f.type = "radio" /\ "checked" \in f.flags /\ g.type = "radio" /\ "checked" \in g.flags
             /\ f.group = g.group => f = g
  <2> DEFINE ticked == {h \in Range(form.fields) : h.type = "radio" /\ "checked" \in h.flags}
  <2>1. \A f, g \in ticked : f.group = g.group => f = g
    BY DEF WellFormed
  <2>2. \A f \in fields : /\ f.type \in {"radio", "checkbox"} => f.tag = "input"
                          /\ "checked" \in f.flags => f.type \in {"radio", "checkbox"}
    BY DEF WellFormed
  <2>3. \A f \in fields : f.type = "radio" /\ "checked" \in f.flags => f \in ticked
    OBVIOUS
  <2> HIDE DEF ticked
  <2>4. ASSUME NEW f \in fields, NEW g \in fields,
               f.type = "radio", "checked" \in f.flags, g.type = "radio", "checked" \in g.flags,
               f.group = g.group
        PROVE  f = g
    <3>1. f \in ticked /\ g \in ticked
      BY <2>3, <2>4
    <3> QED
      BY <2>1, <2>4, <3>1
  <2> QED
    BY <2>2, <2>4
<1>4. \A f \in fields :
        /\ f.type = "radio" => (Chosen(form, f) <=> Clickable(f) /\ f \in ChooseRadioDefaults(form))
        /\ f.type = "checkbox" =>
             (Chosen(form, f) <=> Clickable(f) /\ Has(f, "required") /\ ~Has(f, "checked"))
  BY <1>3 DEF Chosen, ClicksOn, ShouldSkipField, Clickable, Has
<1>5. ASSUME NEW f \in fields, "checked" \in f.flags PROVE f \in after
  <2>1. CASE f.type = "checkbox"
    BY <1>2, <1>4, <1>5, <2>1 DEF Has
  <2>2. CASE f.type = "radio"
    <3>1. ASSUME NEW g \in Group(f) PROVE ~Chosen(form, g)
      <4>1. g \in fields /\ g.type = "radio" /\ g.group = f.group
        BY DEF GroupOf
      <4>2. f \in GroupOf(form, g)
        BY <2>2, <4>1 DEF GroupOf
      <4>3. g \notin ChooseRadioDefaults(form)
        BY <1>5, <4>2, ChosenAre DEF Has
      <4> QED
        BY <1>4, <4>1, <4>3
    <3> QED
      BY <1>2, <1>5, <2>2, <3>1 DEF Has
  <2> QED
    BY <1>3, <1>5, <2>1, <2>2
<1>6. ASSUME NEW f \in fields, f.type = "checkbox", "required" \in f.flags, Clickable(f)
      PROVE  f \in after
  BY <1>2, <1>4, <1>5, <1>6 DEF Has
<1>7. ASSUME NEW f \in fields PROVE ~(Cardinality(Group(f) \cap after) > 1)
  <2>1. ASSUME NEW g \in Group(f) \cap after, NEW h \in Group(f) \cap after PROVE g = h
    <3>1. /\ g \in fields /\ g.type = "radio" /\ g.group = f.group
          /\ h \in fields /\ h.type = "radio" /\ h.group = f.group
      BY DEF GroupOf
    <3>2. g \in Group(h) /\ h \in Group(g)
      BY <3>1 DEF GroupOf
    <3>3. CASE Chosen(form, g) /\ Chosen(form, h)
      <4>1. g \in ChooseRadioDefaults(form) /\ h \in ChooseRadioDefaults(form)
        BY <1>4, <3>1, <3>3
      <4> QED
        BY <3>1, <4>1, ChosenAre
    <3>4. CASE ~Chosen(form, g)
      <4>1. Has(g, "checked") /\ ~Chosen(form, h)
        BY <1>2, <2>1, <3>1, <3>2, <3>4
      <4>2. Has(h, "checked")
        BY <1>2, <2>1, <3>1, <4>1
      <4> QED
        BY <1>3, <3>1, <4>1, <4>2 DEF Has
    <3>5. CASE ~Chosen(form, h)
      <4>1. Has(h, "checked") /\ ~Chosen(form, g)
        BY <1>2, <2>1, <3>1, <3>2, <3>5
      <4>2. Has(g, "checked")
        BY <1>2, <2>1, <3>1, <4>1
      <4> QED
        BY <1>3, <3>1, <4>1, <4>2 DEF Has
    <3> QED
      BY <3>3, <3>4, <3>5
  <2> DEFINE G == Group(f) \cap after
  <2>2. \A x, y \in G : x = y
    BY <2>1
  <2> HIDE DEF G
  <2>3. Cardinality(G) \in {0, 1}
    BY <2>2, AtMostOneOf
  <2>4. ~(Cardinality(G) > 1)
    BY <2>3
  <2> QED
    BY <2>4 DEF G
<1>8. ASSUME NEW f \in fields, f.type = "radio", Clickable(First(f)), Group(f) \cap after = {}
      PROVE  FALSE
  <2>1. \A g \in Group(f) : g \in fields /\ g.type = "radio" /\ ~Has(g, "checked")
    BY <1>5, <1>8 DEF GroupOf, Has
  <2> DEFINE first == First(f)
  <2>2. first \in Group(f) /\ first \in ChooseRadioDefaults(form)
    BY <1>8, <2>1, FirstIsChosen
  <2>3. Clickable(first)
    BY <1>8
  <2> HIDE DEF first
  <2>4. first \in after
    BY <1>2, <1>4, <2>1, <2>2, <2>3
  <2> QED
    BY <1>8, <2>2, <2>4
<1> QED
  BY <1>5, <1>6, <1>7, <1>8 DEF BadForms, GroupOf

LEMMA FormsAlwaysFilled == FormsAreFilled
<1>1. ASSUME NEW form \in BadForms PROVE FALSE
  <2>1. form \in AForm /\ WellFormed(form)
    BY PageAssumption DEF BadForms, PageAssumption
  <2> QED
    BY <2>1, FormIsFilled
<1> QED
  BY <1>1 DEF FormsAreFilled

-----------------------------------------------------------------------------
(* Everything that a page offers is tried.                                 *)

(* What is planned for an element is one action on it, or typing and then  *)
(* Enter.                                                                  *)
Alone(e, p) == \E kind, value, about : p = <<Action(kind, e, value, about)>>
Typing(e) == Action("type", e, e.fill, {e.type})
Enter(e) == Action("press", e, "Enter", {})

LEMMA ElementPlanIs ==
  ASSUME NEW e \in AnElement, NEW p \in PlanElementSequences(e)
  PROVE  \/ p = <<Typing(e), Enter(e)>>
         \/ Alone(e, p)
<1>1. CASE p \in SelectSequences(e)
  BY <1>1 DEF SelectSequences, Alone
<1>2. CASE p \in ToggleSequences(e)
  BY <1>2 DEF ToggleSequences, Click, Alone
<1>3. CASE p \in TextSequences(e)
  BY <1>3 DEF TextSequences, Typing, Enter, Alone
<1>4. CASE p \in ClickSequences(e)
  BY <1>4 DEF ClickSequences, Click, Alone
<1> QED
  BY <1>1, <1>2, <1>3, <1>4 DEF PlanElementSequences

(* So it can be told from its identity.                                    *)
LEMMA AloneIs ==
  ASSUME NEW e, NEW p, Alone(e, p)
  PROVE  /\ Len(p) = 1 /\ DOMAIN p = 1 .. 1 /\ p = <<p[1]>>
         /\ p[1] = [type |-> p[1].type, selector |-> e.selector, value |-> p[1].value,
                    key |-> e.key, about |-> p[1].about]
         /\ Identity(p).type = p[1].type /\ Identity(p).value = p[1].value
         /\ Identity(p).about = p[1].about /\ Identity(p).key = e.key
         /\ DOMAIN Identity(p).digest = 1 .. 1 /\ Identity(p).digest[1][2] = e.selector
<1>1. PICK kind, value, about : p = <<Action(kind, e, value, about)>>
  BY DEF Alone
<1> DEFINE a == Action(kind, e, value, about)
<1>2. /\ a = [type |-> a.type, selector |-> e.selector, value |-> a.value, key |-> e.key,
              about |-> a.about]
      /\ a.selector = e.selector /\ a.key = e.key
  BY DEF Action
<1> HIDE DEF a
<1>3. Len(p) = 1 /\ DOMAIN p = 1 .. 1 /\ p[1] = a /\ p = <<a>>
  BY <1>1 DEF a
<1>4. /\ Identity(p).type = a.type /\ Identity(p).value = a.value
      /\ Identity(p).about = a.about /\ Identity(p).key = a.key
      /\ Identity(p).digest = [i \in 1 .. 1 |-> <<p[i].type, p[i].selector, p[i].value>>]
  BY <1>3 DEF Identity
<1>5. DOMAIN Identity(p).digest = 1 .. 1 /\ Identity(p).digest[1][2] = e.selector
  BY <1>2, <1>3, <1>4
<1> QED
  BY <1>2, <1>3, <1>4, <1>5

LEMMA TwoAre ==
  ASSUME NEW e
  PROVE  LET p == <<Typing(e), Enter(e)>> IN
           /\ Identity(p).key = e.key /\ DOMAIN Identity(p).digest = 1 .. 2
           /\ Identity(p).digest[1][2] = e.selector
<1> DEFINE a == Typing(e)
           b == Enter(e)
           p == <<a, b>>
<1>1. a.selector = e.selector /\ b.key = e.key
  BY DEF Typing, Enter, Action
<1> HIDE DEF a, b
<1>2. Len(p) = 2 /\ DOMAIN p = 1 .. 2 /\ p[1] = a /\ p[2] = b
  OBVIOUS
<1> HIDE DEF p
<1>3. /\ Identity(p).key = b.key
      /\ Identity(p).digest = [i \in 1 .. 2 |-> <<p[i].type, p[i].selector, p[i].value>>]
  BY <1>2 DEF Identity
<1>4. DOMAIN Identity(p).digest = 1 .. 2 /\ Identity(p).digest[1][2] = e.selector
  BY <1>1, <1>2, <1>3
<1>5. Identity(p).key = e.key
  BY <1>1, <1>3
<1> QED
  BY <1>4, <1>5 DEF p, a, b

LEMMA SameElementPlan ==
  ASSUME NEW e \in AnElement, NEW f \in AnElement,
         e.key = f.key /\ e.selector = f.selector => e = f,
         NEW p \in PlanElementSequences(e), NEW q \in PlanElementSequences(f),
         Identity(p) = Identity(q)
  PROVE  p = q
<1>1. p = <<Typing(e), Enter(e)>> \/ Alone(e, p)
  BY ElementPlanIs
<1>2. q = <<Typing(f), Enter(f)>> \/ Alone(f, q)
  BY ElementPlanIs
<1>3. /\ Alone(e, p) => /\ Identity(p).key = e.key /\ DOMAIN Identity(p).digest = 1 .. 1
                        /\ Identity(p).digest[1][2] = e.selector
      /\ Alone(f, q) => /\ Identity(q).key = f.key /\ DOMAIN Identity(q).digest = 1 .. 1
                        /\ Identity(q).digest[1][2] = f.selector
  BY AloneIs
<1>4. /\ ~Alone(e, p) => /\ Identity(p).key = e.key /\ DOMAIN Identity(p).digest = 1 .. 2
                         /\ Identity(p).digest[1][2] = e.selector
      /\ ~Alone(f, q) => /\ Identity(q).key = f.key /\ DOMAIN Identity(q).digest = 1 .. 2
                         /\ Identity(q).digest[1][2] = f.selector
  BY <1>1, <1>2, TwoAre
<1>5. e = f
  BY <1>3, <1>4
<1>6. 1 .. 1 # 1 .. 2
  <2>1. 2 \in 1 .. 2 /\ 2 \notin 1 .. 1
    OBVIOUS
  <2> QED
    BY <2>1
<1>7. Alone(e, p) <=> Alone(f, q)
  BY <1>3, <1>4, <1>6
<1>8. CASE Alone(e, p)
  <2>1. /\ p = <<p[1]>>
        /\ p[1] = [type |-> p[1].type, selector |-> e.selector, value |-> p[1].value,
                   key |-> e.key, about |-> p[1].about]
        /\ Identity(p).type = p[1].type /\ Identity(p).value = p[1].value
        /\ Identity(p).about = p[1].about
    BY <1>8, AloneIs
  <2>2. /\ q = <<q[1]>>
        /\ q[1] = [type |-> q[1].type, selector |-> e.selector, value |-> q[1].value,
                   key |-> e.key, about |-> q[1].about]
        /\ Identity(q).type = q[1].type /\ Identity(q).value = q[1].value
        /\ Identity(q).about = q[1].about
    BY <1>5, <1>7, <1>8, AloneIs
  <2>3. p[1].type = q[1].type /\ p[1].value = q[1].value /\ p[1].about = q[1].about
    BY <2>1, <2>2
  <2>4. p[1] = q[1]
    BY <2>1, <2>2, <2>3
  <2> QED
    BY <2>1, <2>2, <2>4
<1>9. CASE ~Alone(e, p)
  BY <1>1, <1>2, <1>5, <1>7, <1>9
<1> QED
  BY <1>8, <1>9

(* A form's plan ends with its submission.                                 *)
LEMMA FormPlanIs ==
  ASSUME NEW form \in AForm
  PROVE  /\ PlanFormSubmission(form) # <<>> <=> form.submit.selector # NoText
         /\ PlanFormSubmission(form) # <<>> =>
              /\ Identity(PlanFormSubmission(form)).key = form.submit.key
              /\ Identity(PlanFormSubmission(form)).about = {form.id}
<1> DEFINE p == PlanFormSubmission(form)
           a == SubmitAction(form)
<1>1. form.submit \in AnElement /\ form.id \in STRING
  BY DEF AForm
<1>2. a.key = form.submit.key /\ a.about = {form.id} /\ a \in AnAction
  <2>1. {form.id} \in SUBSET STRING
    BY <1>1
  <2> QED
    BY <1>1, <2>1, ClickIs DEF SubmitAction
<1>3. CASE form.submit.selector = NoText
  BY <1>3 DEF PlanFormSubmission
<1>4. CASE form.submit.selector # NoText
  <2>1. PICK u \in Seq(AnAction) : p = Append(u, a)
    BY <1>4, PlanIs
  <2> HIDE DEF a, p
  <2>2. Len(p) = Len(u) + 1 /\ Len(u) \in Nat /\ p[Len(u) + 1] = a
    BY <1>2, <2>1, AppendedIs, ElementsAre
  <2>3. p # <<>> /\ p[Len(p)] = a
    <3>1. Len(p) # 0 /\ Len(<<>>) = 0
      BY <2>2
    <3> QED
      BY <2>2, <3>1
  <2>4. Identity(p).key = a.key /\ Identity(p).about = a.about
    BY <2>3 DEF Identity
  <2> QED
    BY <1>2, <1>4, <2>3, <2>4 DEF p
<1> QED
  BY <1>3, <1>4

LEMMA PageIs ==
  ASSUME NEW s \in States
  PROVE  /\ Page[s].elements \in Seq(AnElement) /\ Page[s].forms \in Seq(AForm)
         /\ ToldApart(Page[s])
         /\ \A e \in Range(Page[s].elements) : e \in AnElement
         /\ \A f \in Range(Page[s].forms) : f \in AForm
<1>1. Page[s].elements \in Seq(AnElement) /\ Page[s].forms \in Seq(AForm) /\ ToldApart(Page[s])
  BY PageAssumption DEF PageAssumption, APage
<1> QED
  BY <1>1, ElementsAre

LEMMA ProcessedAre ==
  ASSUME NEW s \in States
  PROVE  /\ ProcessedElements(Page[s]) \subseteq Range(Page[s].elements)
         /\ \A i \in DOMAIN Page[s].elements :
              TakenUp(Page[s].elements[i]) /\ InTime(Page[s].elements, i)
                => Page[s].elements[i] \in ProcessedElements(Page[s])
<1> DEFINE elements == Page[s].elements
           wanted == {e \in Range(elements) : ShouldProcess(e)}
<1>1. /\ elements \in Seq(AnElement) /\ DOMAIN elements = 1 .. Len(elements)
      /\ Range(elements) = {elements[i] : i \in 1 .. Len(elements)}
      /\ MaxElementsPerState \in Nat
  BY PageIs, ElementsAre, PlanningAssumption DEF PlanningAssumption
<1>2. ProcessedElements(Page[s]) = Range(FirstOf(elements, wanted, MaxElementsPerState))
  BY DEF ProcessedElements
<1>3. \A e : ShouldProcess(e) <=> TakenUp(e)
  BY DEF ShouldProcess, TakenUp, IsBlockedAnchor, Has
<1>4. \A i \in 1 .. Len(elements) : elements[i] \in wanted <=> TakenUp(elements[i])
  BY <1>1, <1>3
<1>5. ASSUME NEW i \in DOMAIN elements
      PROVE  {j \in 1 .. i - 1 : elements[j] \in wanted} = {j \in 1 .. i - 1 : TakenUp(elements[j])}
  <2>1. \A j \in 1 .. i - 1 : j \in 1 .. Len(elements)
    BY <1>1
  <2> HIDE DEF wanted
  <2> QED
    BY <1>4, <2>1
<1> HIDE DEF wanted
<1>6. /\ Range(FirstOf(elements, wanted, MaxElementsPerState)) \subseteq wanted \intersect Range(elements)
      /\ \A i \in 1 .. Len(elements) :
           elements[i] \in wanted
             /\ Cardinality({j \in 1 .. i - 1 : elements[j] \in wanted}) < MaxElementsPerState
             => elements[i] \in Range(FirstOf(elements, wanted, MaxElementsPerState))
  BY <1>1, FirstOfIs
<1>7. ASSUME NEW i \in DOMAIN elements, TakenUp(elements[i]), InTime(elements, i)
      PROVE  elements[i] \in ProcessedElements(Page[s])
  <2>1. Cardinality({j \in 1 .. i - 1 : elements[j] \in wanted}) < MaxElementsPerState
    BY <1>5, <1>7 DEF InTime
  <2> QED
    BY <1>1, <1>2, <1>4, <1>6, <1>7, <2>1
<1> QED
  BY <1>2, <1>6, <1>7

(* Two sequences planned for a page never share an identity.               *)
LEMMA IdentitiesDiffer ==
  ASSUME NEW s \in States, NEW p \in Planned(Page[s]), NEW q \in Planned(Page[s]),
         Identity(p[1]) = Identity(q[1])
  PROVE  p[1] = q[1]
<1> DEFINE page == Page[s]
<1>1. /\ ToldApart(page)
      /\ \A e \in Range(page.elements) : e \in AnElement
      /\ \A f \in Range(page.forms) : f \in AForm
  BY PageIs
<1>2. ASSUME NEW r \in PlannedForms(page)
      PROVE  \E f \in Range(page.forms) :
               /\ r[1] = PlanFormSubmission(f) /\ Identity(r[1]).key = f.submit.key
               /\ Identity(r[1]).about = {f.id}
  <2>1. PICK f \in Range(page.forms) :
          r = <<PlanFormSubmission(f), f.submit>> /\ PlanFormSubmission(f) # <<>>
    BY DEF PlannedForms
  <2> QED
    BY <1>1, <2>1, FormPlanIs
<1>3. ASSUME NEW r \in PlannedElements(page)
      PROVE  \E e \in Range(page.elements) : r[1] \in PlanElementSequences(e)
  <2>1. PICK e \in ProcessedElements(page) : r \in PlanElementSequences(e) \X {e}
    BY DEF PlannedElements
  <2> QED
    BY <2>1, ProcessedAre
<1>4. ASSUME NEW e \in Range(page.elements), NEW r \in PlanElementSequences(e)
      PROVE  Identity(r).key = e.key
  <2>1. r = <<Typing(e), Enter(e)>> \/ Alone(e, r)
    BY <1>1, ElementPlanIs
  <2> QED
    BY <2>1, AloneIs, TwoAre
<1>5. ASSUME NEW f \in Range(page.forms), NEW e \in Range(page.elements)
      PROVE  f.submit.key # e.key
  BY <1>1 DEF ToldApart
<1>6. CASE p \in PlannedForms(page) /\ q \in PlannedForms(page)
  <2>1. PICK f \in Range(page.forms) :
          p[1] = PlanFormSubmission(f) /\ Identity(p[1]).about = {f.id}
    BY <1>2, <1>6
  <2>2. PICK g \in Range(page.forms) :
          q[1] = PlanFormSubmission(g) /\ Identity(q[1]).about = {g.id}
    BY <1>2, <1>6
  <2>3. f.id = g.id
    BY <2>1, <2>2
  <2>4. f = g
    BY <1>1, <2>3 DEF ToldApart
  <2> QED
    BY <2>1, <2>2, <2>4
<1>7. CASE p \in PlannedElements(page) /\ q \in PlannedElements(page)
  <2>1. PICK e \in Range(page.elements) : p[1] \in PlanElementSequences(e)
    BY <1>3, <1>7
  <2>2. PICK f \in Range(page.elements) : q[1] \in PlanElementSequences(f)
    BY <1>3, <1>7
  <2>3. e.key = f.key /\ e.selector = f.selector => e = f
    BY <1>1 DEF ToldApart
  <2>4. e \in AnElement /\ f \in AnElement
    BY <1>1
  <2> QED
    BY <2>1, <2>2, <2>3, <2>4, SameElementPlan
<1>8. ASSUME NEW x \in PlannedForms(page), NEW y \in PlannedElements(page)
      PROVE  Identity(x[1]) # Identity(y[1])
  <2>1. PICK f \in Range(page.forms) : Identity(x[1]).key = f.submit.key
    BY <1>2
  <2>2. PICK e \in Range(page.elements) : y[1] \in PlanElementSequences(e)
    BY <1>3
  <2>3. Identity(y[1]).key = e.key
    BY <1>4, <2>2
  <2> QED
    BY <1>5, <2>1, <2>3
<1> QED
  BY <1>6, <1>7, <1>8 DEF Planned

(* There is a planned sequence for every usable element and every form.    *)
LEMMA FirstOptionTaken ==
  ASSUME NEW options \in Seq(STRING), NEW n \in Nat \ {0}, Range(options) \ {NoText} # {}
  PROVE  Range(FirstOf(options, Range(options) \ {NoText}, n)) # {}
<1> DEFINE wanted == Range(options) \ {NoText}
           T == {i \in 1 .. Len(options) : options[i] \in wanted}
<1>1. Len(options) \in Nat /\ Range(options) = {options[i] : i \in 1 .. Len(options)}
  BY ElementsAre
<1>2. T # {} /\ T \subseteq Nat
  BY <1>1
<1>3. PICK i \in T : \A j \in T : i <= j
  <2> HIDE DEF T
  <2> QED
    BY <1>2, LeastOf
<1>4. {j \in 1 .. i - 1 : options[j] \in wanted} = {}
  <2>1. ASSUME NEW j \in 1 .. i - 1, options[j] \in wanted PROVE FALSE
    <3>1. j \in T /\ ~(i <= j)
      BY <1>1, <2>1
    <3> QED
      BY <1>3, <3>1
  <2> QED
    BY <2>1
<1>5. i \in 1 .. Len(options) /\ options[i] \in wanted
  BY <1>3
<1> HIDE DEF wanted
<1>6. Cardinality({j \in 1 .. i - 1 : options[j] \in wanted}) < n
  <2> DEFINE before == {j \in 1 .. i - 1 : options[j] \in wanted}
  <2>1. before = {}
    BY <1>4
  <2> HIDE DEF before
  <2>2. Cardinality(before) = 0
    BY <2>1, FS_EmptySet
  <2>3. Cardinality(before) < n
    BY <2>2
  <2> QED
    BY <2>3 DEF before
<1>7. options[i] \in Range(FirstOf(options, wanted, n))
  BY <1>5, <1>6, FirstOfIs
<1> QED
  BY <1>7 DEF wanted

LEMMA UsableIsPlanned ==
  ASSUME NEW e \in AnElement, Usable(e)
  PROVE  PlanElementSequences(e) # {}
<1>1. e.selector # NoText
  BY DEF Usable
<1>2. CASE e.tag = "select"
  <2>1. /\ e.options \in Seq(STRING) /\ MaxSelectOptions \in Nat \ {0}
        /\ Range(e.options) \ {NoText} # {}
    BY <1>2, PlanningAssumption DEF Usable, AnElement, PlanningAssumption
  <2>2. PICK v : v \in Range(FirstOf(e.options, Range(e.options) \ {NoText}, MaxSelectOptions))
    BY <2>1, FirstOptionTaken
  <2>3. <<Action("select", e, v, {v})>> \in PlanElementSequences(e)
    BY <1>1, <1>2, <2>2 DEF PlanElementSequences, SelectSequences
  <2> QED
    BY <2>3
<1>3. CASE e.tag # "select"
  BY <1>1, <1>3
  DEF PlanElementSequences, ToggleSequences, TextSequences, ClickSequences
<1> QED
  BY <1>2, <1>3

LEMMA UsableKeysArePlanned ==
  ASSUME NEW s \in States, NEW k \in UsableKeys[s] \union SubmitKeys[s]
  PROVE  \E p \in Planned(Page[s]) : p[2].key = k
<1> DEFINE page == Page[s]
           elements == page.elements
<1>1. /\ elements \in Seq(AnElement) /\ DOMAIN elements = 1 .. Len(elements)
      /\ \A i \in DOMAIN elements : elements[i] \in AnElement
      /\ \A f \in Range(page.forms) : f \in AForm
  <2>1. elements \in Seq(AnElement) /\ \A f \in Range(page.forms) : f \in AForm
    BY PageIs
  <2> QED
    BY <2>1
<1>2. CASE k \in UsableKeys[s]
  <2>1. PICK i \in DOMAIN elements : Usable(elements[i]) /\ InTime(elements, i) /\ elements[i].key = k
    BY <1>2 DEF UsableKeys
  <2> DEFINE e == elements[i]
  <2>2. e \in ProcessedElements(page)
    BY <2>1, ProcessedAre DEF Usable
  <2>3. e \in AnElement /\ Usable(e) /\ e.key = k
    BY <1>1, <2>1
  <2> HIDE DEF e
  <2>4. PICK p : p \in PlanElementSequences(e)
    BY <2>3, UsableIsPlanned
  <2>5. <<p, e>> \in Planned(page)
    BY <2>2, <2>4 DEF Planned, PlannedElements
  <2>6. <<p, e>>[2].key = k
    BY <2>3
  <2> QED
    BY <2>5, <2>6
<1>3. CASE k \in SubmitKeys[s]
  <2>1. PICK f \in Range(page.forms) : f.submit.selector # NoText /\ f.submit.key = k
    BY <1>3 DEF SubmitKeys
  <2>2. PlanFormSubmission(f) # <<>>
    BY <1>1, <2>1, FormPlanIs
  <2>3. <<PlanFormSubmission(f), f.submit>> \in Planned(page)
    BY <2>1, <2>2 DEF Planned, PlannedForms
  <2>4. <<PlanFormSubmission(f), f.submit>>[2].key = k
    BY <2>1
  <2> QED
    BY <2>3, <2>4
<1> QED
  BY <1>2, <1>3

LEMMA OfferedAre ==
  ASSUME NEW s \in States
  PROVE  /\ Offered[s] = {Hash(Identity(p[1])) : p \in Planned(Page[s])}
         /\ IsFiniteSet(Offered[s])
<1>1. Offered[s] = {Hash(i) : i \in Identities(Page[s])}
  BY PageAssumption DEF PageAssumption, OfferedBy
<1>2. IsFiniteSet(Actions) /\ Offered[s] \subseteq Actions
  BY SiteAssumption DEF SiteAssumption
<1>3. Identities(Page[s]) = {Identity(p[1]) : p \in Planned(Page[s])}
  BY DEF Identities
<1>4. Offered[s] = {Hash(Identity(p[1])) : p \in Planned(Page[s])}
  BY <1>1, <1>3
<1> QED
  BY <1>2, <1>4, FS_Subset

LEMMA PlannedAreCounted ==
  ASSUME NEW s \in States
  PROVE  Cardinality(Offered[s]) = PlannedCount[s]
<1> DEFINE P == {p[1] : p \in Planned(Page[s])}
           key == [q \in P |-> Hash(Identity(q))]
<1>1. \A p, q \in P : Identity(p) = Identity(q) => p = q
  BY IdentitiesDiffer
<1>2. \A p \in P : Identity(p) \in Identities(Page[s])
  BY DEF Identities
<1>3. Offered[s] = {Hash(Identity(q)) : q \in P} /\ IsFiniteSet(Offered[s])
  BY OfferedAre
<1> HIDE DEF P
<1>4. \A p, q \in P : Hash(Identity(p)) = Hash(Identity(q)) => p = q
  BY <1>1, <1>2, HashAssumption DEF HashAssumption
<1>5. key \in Bijection(P, Offered[s])
  <2>1. \A q \in P : key[q] = Hash(Identity(q)) /\ key[q] \in Offered[s]
    BY <1>3
  <2>2. key \in [P -> Offered[s]] /\ \A p, q \in P : key[p] = key[q] => p = q
    BY <1>4, <2>1
  <2>3. \A a \in Offered[s] : \E q \in P : key[q] = a
    BY <1>3, <2>1
  <2> HIDE DEF key
  <2> QED
    BY <2>2, <2>3 DEF Bijection, Injection, Surjection, IsInjective
<1>6. ExistsBijection(P, Offered[s])
  BY <1>5 DEF ExistsBijection
<1>7. Cardinality(P) = Cardinality(Offered[s])
  <2>1. ExistsBijection(Offered[s], P)
    BY <1>6, Fun_ExistsBijSymmetric
  <2> QED
    BY <1>3, <2>1, FS_Bijection
<1> QED
  BY <1>7 DEF PlannedCount, P

LEMMA EverythingTried ==
  ASSUME ExploredThoroughly
  PROVE  EverythingIsTried
<1> SUFFICES ASSUME NEW s \in States \ excused, frontier[s] = "explored"
    PROVE  LET keys == UNION {KeysOf[s][a] : a \in Tried(s)} IN
             /\ Cardinality(Tried(s)) = PlannedCount[s]
             /\ UsableKeys[s] \union SubmitKeys[s] \subseteq keys
  BY DEF EverythingIsTried
<1>1. Tried(s) = Offered[s]
  BY DEF Tried, ExploredThoroughly
<1>2. Cardinality(Tried(s)) = PlannedCount[s]
  BY <1>1, PlannedAreCounted
<1>3. ASSUME NEW k \in UsableKeys[s] \union SubmitKeys[s]
      PROVE  \E a \in Tried(s) : k \in KeysOf[s][a]
  <2>1. PICK p \in Planned(Page[s]) : p[2].key = k
    BY <1>3, UsableKeysArePlanned
  <2>2. Hash(Identity(p[1])) \in Offered[s]
    BY OfferedAre
  <2>3. k \in KeysOf[s][Hash(Identity(p[1]))]
    BY <2>1, <2>2 DEF KeysOf
  <2> QED
    BY <1>1, <2>2, <2>3
<1> QED
  BY <1>2, <1>3

(* What counts as explored was explored to the end: every sequence that    *)
(* the planning finds for a page has an attempt or deferred work of its    *)
(* own, and there is one for every usable element that is taken up in time *)
(* and for every form; forms are filled the way their page wants it; and   *)
(* one crawler at a time keeps the graph within max_states (_explore_state *)
(* with plan_form_submission, _plan_element_sequences and                  *)
(* action_key_fingerprint, and the limits of run_crawl), for every site,   *)
(* all pages, all forms and every fault.                                   *)
THEOREM PagesAreExploredThoroughly == Spec => []ExplorationIsThorough
<1>1. Typed /\ Kept /\ Within => ExplorationIsThorough
  <2> SUFFICES ASSUME Kept, Within PROVE ExplorationIsThorough
    OBVIOUS
  <2>1. EverythingIsTried
    BY EverythingTried DEF Kept
  <2> QED
    BY <2>1, FormsAlwaysFilled, WithinHolds DEF ExplorationIsThorough
<1> QED
  BY <1>1, AlwaysWithin, PTL
=============================================================================
