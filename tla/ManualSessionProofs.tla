------------------------ MODULE ManualSessionProofs ------------------------
(***************************************************************************)
(* Theorems about ManualSession, for every time limit, every pause that a  *)
(* diligent user makes, every number of waiting messages and every budget  *)
(* of disturbances.                                                        *)
(***************************************************************************)
EXTENDS ManualSession, TLAPS

(* From the websocket's opening to its closing, and until the row is       *)
(* settled.                                                                *)
Begun == {"starting", "loop"} \union ServePc \union {"mark", "tell"}
AtWork == TryPc \ {"tell"}

-----------------------------------------------------------------------------
(* Types, and the contexts of the browser: that the page exists needs both *)
(* of them.                                                                *)

HasNewest(S) == \E n \in S : \A m \in S : m <= n

(* The page is open, also while a rewind has opened a context after it.    *)
Pages ==
  /\ job \in {"connect"} \union Begun => page \in contexts /\ HasNewest(contexts)
  /\ job \in {"replay", "activate"} =>
       page \in contexts \ {Newest} /\ HasNewest(contexts \ {Newest})

LEMMA NewestIsOne ==
  ASSUME contexts \subseteq Nat, HasNewest(contexts)
  PROVE  /\ Newest \in contexts /\ Newest \in Nat
         /\ \A m \in contexts : m <= Newest
<1>1. PICK n \in contexts : \A m \in contexts : m <= n
  BY DEF HasNewest
<1>2. \A m \in contexts : n >= m
  BY <1>1
<1>3. Newest \in contexts /\ \A m \in contexts : Newest >= m
  BY <1>2 DEF Newest, Max
<1> QED
  BY <1>3

(* What opening and closing a context does to the newest one.              *)
LEMMA NewestOfOther ==
  ASSUME contexts \subseteq Nat, NEW n \in Nat, contexts' = contexts \union {n},
         \A m \in contexts : m < n
  PROVE  Newest' = n /\ HasNewest(contexts')
<1>1. contexts' \subseteq Nat /\ HasNewest(contexts')
  BY DEF HasNewest
<1>2. Newest' \in contexts' /\ \A m \in contexts' : m <= Newest'
  <2>1. \A m \in contexts' : n >= m
    OBVIOUS
  <2>2. Newest' \in contexts' /\ \A m \in contexts' : Newest' >= m
    BY <2>1 DEF Newest, Max
  <2> QED
    BY <2>2, <1>1
<1> QED
  BY <1>1, <1>2

LEMMA RowUpdates ==
  ASSUME NEW r \in Row, NEW n \in Nat
  PROVE  /\ MarkQueuedRunning(r) \in Row
         /\ MarkCompletedIfRunning(r, n) \in Row
         /\ MarkFailedIfRunning(r) \in Row
         /\ MarkAbortedIfActive(r) \in Row
         /\ MarkFinishedAtIfAborted(r) \in Row
         /\ MarkQueued(r) \in Row
<1> USE DEF Row, Status, Where
<1>1. MarkQueuedRunning(r) \in Row
  <2>1. r.started + 1 \in Nat
    OBVIOUS
  <2> QED
    BY <2>1 DEF MarkQueuedRunning
<1>2. MarkCompletedIfRunning(r, n) \in Row
  BY DEF MarkCompletedIfRunning
<1>3. MarkFailedIfRunning(r) \in Row
  BY DEF MarkFailedIfRunning
<1>4. MarkAbortedIfActive(r) \in Row
  BY DEF MarkAbortedIfActive
<1>5. MarkFinishedAtIfAborted(r) \in Row
  BY DEF MarkFinishedAtIfAborted
<1>6. MarkQueued(r) \in Row
  BY DEF MarkQueued
<1> QED
  BY <1>1, <1>2, <1>3, <1>4, <1>5, <1>6

LEMMA InitType == Init => TypeOK
<1> SUFFICES ASSUME Init PROVE TypeOK
  OBVIOUS
<1>1. row \in Row
  BY DEF Init, NewRow, Row, Status
<1>2. inbox \in Seq(Message)
  BY DEF Init
<1>3. /\ {rerun, expired, active, diligent, prompt} \subseteq BOOLEAN
      /\ {stranded, unsaid, again, late} \subseteq BOOLEAN
  BY DEF Init
<1> QED
  BY <1>1, <1>2, <1>3, SessionAssumption
  DEF Init, TypeOK, Pc, Notice, NoRequest, MonitorPc, SessionAssumption

LEMMA DisturbType ==
  ASSUME TypeOK, NEW d \in Disturbance, Disturb(d)
  PROVE  budget' \in [Disturbance -> Nat]
  BY DEF TypeOK, Disturb

LEMMA TypeStep == TypeOK /\ Pages /\ [Next]_vars => TypeOK'
<1> SUFFICES ASSUME TypeOK, Pages, [Next]_vars PROVE TypeOK'
  OBVIOUS
<1> USE DEF Goto, BackToLoop, HangUp, Say, Heard, Reset, CutShort,
       jobVars, session, history, wsVars, ttlVars, browserVars, flowVars, clockVars
<1> USE DEF TypeOK, Pc, StartPc, SetupPc, ServePc, TryPc, HandlerPc, Message,
       NoRequest, Notice, MonitorPc
<1>1. CASE TakeUp
  <2>1. again' \in BOOLEAN
    BY <1>1 DEF TakeUp
  <2>2. expired' \in BOOLEAN /\ active' \in BOOLEAN
    BY <1>1 DEF TakeUp
  <2> QED
    BY <1>1, <2>1, <2>2 DEF TakeUp
<1>2. CASE EnsureNotAborted
  BY <1>2 DEF EnsureNotAborted
<1>3. CASE Claim
  BY <1>3, RowUpdates DEF Claim
<1>4. CASE Recheck
  BY <1>4 DEF Recheck
<1>5. CASE Launch
  BY <1>5 DEF Launch
<1>6. CASE Connect
  BY <1>6, SessionAssumption DEF Connect, SessionAssumption
<1>7. CASE Ready
  BY <1>7, SessionAssumption DEF Ready, SessionAssumption
<1>8. CASE Receive
  <2>1. inbox' \in Seq(Message) /\ Head(inbox) \in Message
    BY <1>8 DEF Receive
  <2>2. late' \in BOOLEAN
    BY <1>8 DEF Receive
  <2> QED
    BY <1>8, <2>1, <2>2, SessionAssumption DEF Receive, SessionAssumption
<1>9. CASE LoopEnds
  <2>1. inbox' \in Seq(Message)
    BY <1>9 DEF LoopEnds
  <2> QED
    BY <1>9, <2>1 DEF LoopEnds
<1>10. CASE ServeInput
  BY <1>10, SessionAssumption DEF ServeInput, SessionAssumption
<1>11. CASE Refuse
  BY <1>11, SessionAssumption DEF Refuse, SessionAssumption
<1>12. CASE StartFlow
  BY <1>12 DEF StartFlow
<1>13. CASE StoreFlow
  <2>1. stored' \in Nat /\ states' \in Nat /\ counted' \in Nat
    BY <1>13 DEF StoreFlow
  <2>2. active' \in BOOLEAN
    BY <1>13 DEF StoreFlow
  <2> QED
    BY <1>13, <2>1, <2>2 DEF StoreFlow
<1>13a. CASE StoreFails
  <2>1. states' \in Nat /\ counted' \in Nat /\ active' \in BOOLEAN
    BY <1>13a DEF StoreFails
  <2> QED
    BY <1>13a, <2>1, SessionAssumption DEF StoreFails, SessionAssumption
<1>14. CASE ReportFails
  BY <1>14, SessionAssumption DEF ReportFails, SessionAssumption
<1>15. CASE Reply
  BY <1>15, SessionAssumption, SessionAssumption DEF Reply, SessionAssumption,
     SessionAssumption
<1>16. CASE OpenReplay
  <2>1. contexts \subseteq Nat /\ HasNewest(contexts)
    BY <1>16 DEF OpenReplay, Pages, Begun
  <2>2. Newest + 1 \in Nat
    BY <2>1, NewestIsOne
  <2>3. contexts' \subseteq Nat
    BY <1>16, <2>1, <2>2 DEF OpenReplay
  <2> QED
    BY <1>16, <2>3, SessionAssumption DEF OpenReplay, SessionAssumption
<1>17. CASE ReplayFails
  <2>1. contexts' \subseteq Nat
    BY <1>17 DEF ReplayFails
  <2> QED
    BY <1>17, <2>1, SessionAssumption DEF ReplayFails, SessionAssumption
<1>18. CASE ReplayEnds
  BY <1>18, SessionAssumption DEF ReplayEnds, SessionAssumption
<1>19. CASE Activate
  BY <1>19, NewestIsOne, SessionAssumption DEF Activate, Pages, Begun,
     SessionAssumption
<1>20. CASE ActivateFails
  BY <1>20, NewestIsOne, SessionAssumption DEF ActivateFails, Pages, Begun,
     SessionAssumption
<1>21. CASE Mark
  <2>1. row' \in Row
    BY <1>21, RowUpdates DEF Mark
  <2> QED
    BY <1>21, <2>1 DEF Mark
<1>22. CASE Tell
  BY <1>22 DEF Tell
<1>23. CASE HandleCancelled
  BY <1>23, RowUpdates DEF HandleCancelled
<1>24. CASE HandleFailure
  BY <1>24, RowUpdates DEF HandleFailure
<1>25. CASE StampFailed
  BY <1>25, RowUpdates DEF StampFailed
<1>26. CASE SayFailed
  BY <1>26 DEF SayFailed
<1>27. CASE StampAborted
  BY <1>27, RowUpdates DEF StampAborted
<1>28. CASE Clean
  <2>1. rerun' \in BOOLEAN
    BY <1>28 DEF Clean
  <2>2. contexts' \subseteq Nat
    BY <1>28 DEF Clean
  <2> QED
    BY <1>28, <2>1, <2>2 DEF Clean
<1>29. CASE MonitorLooks
  BY <1>29 DEF MonitorLooks
<1>30. CASE MonitorExpires
  BY <1>30 DEF MonitorExpires
<1>31. CASE MonitorCloses
  BY <1>31 DEF MonitorCloses
<1>32. CASE MonitorDies
  BY <1>32 DEF MonitorDies
<1>33. CASE SendFails
  BY <1>33 DEF SendFails
<1>34. CASE Raise
  BY <1>34, DisturbType DEF Raise, Disturbance
<1>35. CASE RaiseUnhandled
  BY <1>35, DisturbType DEF RaiseUnhandled, Disturbance
<1>36. CASE CancelJob
  BY <1>36, DisturbType DEF CancelJob, Disturbance
<1>37. CASE Crash
  <2>1. inbox' \in Seq(Message) /\ contexts' \subseteq Nat
    BY <1>37 DEF Crash
  <2>2. rerun' \in BOOLEAN /\ unsaid' \in BOOLEAN
    BY <1>37 DEF Crash
  <2> QED
    BY <1>37, <2>1, <2>2, DisturbType DEF Crash, Disturbance
<1>38. CASE Submit
  <2>1. row' \in Row
    BY <1>38, RowUpdates DEF Submit
  <2>2. stranded' \in BOOLEAN
    BY <1>38 DEF Submit
  <2> QED
    BY <1>38, <2>1, <2>2, DisturbType DEF Submit, Disturbance
<1>39. CASE AbortSession
  <2>1. row' \in Row
    BY <1>39, RowUpdates DEF AbortSession, Row, Status
  <2> QED
    BY <1>39, <2>1, DisturbType DEF AbortSession, Disturbance
<1>40. CASE UserHangsUp
  BY <1>40, DisturbType DEF UserHangsUp, Disturbance
<1>41. CASE PageActs
  BY <1>41, SessionAssumption, DisturbType DEF PageActs, SessionAssumption,
     Disturbance
<1>42. CASE Tick
  <2>1. idle' \in 0 .. Ttl /\ quiet' \in 0 .. Gap /\ busy' \in 0 .. Work
    BY <1>42, SessionAssumption DEF Tick, UpTo, SessionAssumption
  <2>2. diligent' \in BOOLEAN
    BY <1>42 DEF Tick
  <2>3. prompt' \in BOOLEAN
    BY <1>42 DEF Tick
  <2> QED
    BY <1>42, <2>1, <2>2, <2>3 DEF Tick
<1>43. ASSUME NEW m \in Message, Send(m)
      PROVE  TypeOK'
  BY <1>43, SessionAssumption, DisturbType DEF Send, SessionAssumption,
     Disturbance
<1>44. CASE UNCHANGED vars
  BY <1>44 DEF vars
<1> QED
  BY <1>1, <1>2, <1>3, <1>4, <1>5, <1>6, <1>7, <1>8, <1>9, <1>10, <1>11,
     <1>12, <1>13, <1>13a, <1>14, <1>15, <1>16, <1>17, <1>18, <1>19, <1>20, <1>21,
     <1>22, <1>23, <1>24, <1>25, <1>26, <1>27, <1>28, <1>29, <1>30, <1>31,
     <1>32, <1>33, <1>34, <1>35, <1>36, <1>37, <1>38, <1>39, <1>40, <1>41,
     <1>42, <1>43, <1>44
  DEF Next, Job, Starting, Serving, Ending, Monitor, Failure, Environment

(* Opening, replacing and closing contexts keeps the page among them.      *)
LEMMA PagesStep == TypeOK /\ Pages /\ [Next]_vars => Pages'
<1> SUFFICES ASSUME TypeOK, Pages, [Next]_vars PROVE Pages'
  OBVIOUS
<1>0. contexts' = contexts => Newest' = Newest
  BY DEF Newest
<1> USE DEF Goto, BackToLoop, HangUp, Say, Heard, Reset, CutShort,
       jobVars, session, history, wsVars, ttlVars, browserVars, flowVars, clockVars
<1> USE DEF Pages, Begun, Pc, StartPc, SetupPc, ServePc, TryPc, HandlerPc
<1>1. CASE TakeUp
  BY <1>1, <1>0 DEF TakeUp
<1>2. CASE EnsureNotAborted
  BY <1>2, <1>0 DEF EnsureNotAborted
<1>3. CASE Claim
  BY <1>3, <1>0 DEF Claim
<1>4. CASE Recheck
  BY <1>4, <1>0 DEF Recheck
<1>5. CASE Launch
  <2>1. HasNewest({1})
    BY DEF HasNewest
  <2> QED
    BY <1>5, <2>1 DEF Launch
<1>6. CASE Connect
  BY <1>6, <1>0 DEF Connect
<1>7. CASE Ready
  BY <1>7, <1>0 DEF Ready
<1>8. CASE Receive
  BY <1>8, <1>0 DEF Receive
<1>9. CASE LoopEnds
  BY <1>9, <1>0 DEF LoopEnds
<1>10. CASE ServeInput
  BY <1>10, <1>0 DEF ServeInput
<1>11. CASE Refuse
  BY <1>11, <1>0 DEF Refuse
<1>12. CASE StartFlow
  BY <1>12, <1>0 DEF StartFlow
<1>13. CASE StoreFlow
  BY <1>13, <1>0 DEF StoreFlow
<1>13a. CASE StoreFails
  BY <1>13a, <1>0 DEF StoreFails
<1>14. CASE ReportFails
  BY <1>14, <1>0 DEF ReportFails
<1>15. CASE Reply
  BY <1>15, <1>0 DEF Reply
<1>16. CASE OpenReplay
  <2>1. contexts \subseteq Nat /\ HasNewest(contexts) /\ page \in contexts
    BY <1>16 DEF OpenReplay, TypeOK
  <2>2. Newest + 1 \in Nat /\ \A m \in contexts : m < Newest + 1
    BY <2>1, NewestIsOne
  <2>3. contexts' = contexts \union {Newest + 1}
    BY <1>16 DEF OpenReplay
  <2>4. Newest' = Newest + 1 /\ HasNewest(contexts')
    BY <2>1, <2>2, <2>3, NewestOfOther
  <2>5. contexts' \ {Newest'} = contexts /\ page \in contexts' /\ page # Newest'
    BY <2>1, <2>2, <2>3, <2>4
  <2> QED
    BY <1>16, <2>1, <2>4, <2>5 DEF OpenReplay
<1>17. CASE ReplayFails
  BY <1>17, <1>0 DEF ReplayFails
<1>18. CASE ReplayEnds
  BY <1>18, <1>0 DEF ReplayEnds
<1>19. CASE Activate
  <2>1. contexts \subseteq Nat /\ HasNewest(contexts) /\ page # Newest
    BY <1>19 DEF Activate, TypeOK
  <2>2. Newest \in contexts \ {page} /\ \A m \in contexts : m <= Newest
    BY <2>1, NewestIsOne
  <2>3. HasNewest(contexts \ {page})
    BY <2>2 DEF HasNewest
  <2> QED
    BY <1>19, <2>2, <2>3 DEF Activate
<1>20. CASE ActivateFails
  <2>1. contexts \subseteq Nat /\ HasNewest(contexts) /\ page # Newest
    BY <1>20 DEF ActivateFails, TypeOK
  <2>2. Newest \in contexts \ {page} /\ \A m \in contexts : m <= Newest
    BY <2>1, NewestIsOne
  <2>3. HasNewest(contexts \ {page})
    BY <2>2 DEF HasNewest
  <2> QED
    BY <1>20, <2>2, <2>3 DEF ActivateFails
<1>21. CASE Mark
  BY <1>21, <1>0 DEF Mark
<1>22. CASE Tell
  BY <1>22, <1>0 DEF Tell
<1>23. CASE HandleCancelled
  BY <1>23, <1>0 DEF HandleCancelled
<1>24. CASE HandleFailure
  BY <1>24, <1>0 DEF HandleFailure
<1>25. CASE StampFailed
  BY <1>25, <1>0 DEF StampFailed
<1>26. CASE SayFailed
  BY <1>26, <1>0 DEF SayFailed
<1>27. CASE StampAborted
  BY <1>27, <1>0 DEF StampAborted
<1>28. CASE Clean
  BY <1>28, <1>0 DEF Clean
<1>29. CASE MonitorLooks
  BY <1>29, <1>0 DEF MonitorLooks
<1>30. CASE MonitorExpires
  BY <1>30, <1>0 DEF MonitorExpires
<1>31. CASE MonitorCloses
  BY <1>31, <1>0 DEF MonitorCloses
<1>32. CASE MonitorDies
  BY <1>32, <1>0 DEF MonitorDies
<1>33. CASE SendFails
  BY <1>33, <1>0 DEF SendFails
<1>34. CASE Raise
  BY <1>34, <1>0 DEF Raise
<1>35. CASE RaiseUnhandled
  BY <1>35, <1>0 DEF RaiseUnhandled
<1>36. CASE CancelJob
  BY <1>36, <1>0 DEF CancelJob
<1>37. CASE Crash
  BY <1>37, <1>0 DEF Crash
<1>38. CASE Submit
  BY <1>38, <1>0 DEF Submit
<1>39. CASE AbortSession
  BY <1>39, <1>0 DEF AbortSession
<1>40. CASE UserHangsUp
  BY <1>40, <1>0 DEF UserHangsUp
<1>41. CASE PageActs
  BY <1>41, <1>0 DEF PageActs
<1>42. CASE Tick
  BY <1>42, <1>0 DEF Tick
<1>43. ASSUME NEW m \in Message, Send(m)
      PROVE  Pages'
  BY <1>43, <1>0 DEF Send
<1>44. CASE UNCHANGED vars
  BY <1>44, <1>0 DEF vars
<1> QED
  BY <1>1, <1>2, <1>3, <1>4, <1>5, <1>6, <1>7, <1>8, <1>9, <1>10, <1>11,
     <1>12, <1>13, <1>13a, <1>14, <1>15, <1>16, <1>17, <1>18, <1>19, <1>20, <1>21,
     <1>22, <1>23, <1>24, <1>25, <1>26, <1>27, <1>28, <1>29, <1>30, <1>31,
     <1>32, <1>33, <1>34, <1>35, <1>36, <1>37, <1>38, <1>39, <1>40, <1>41,
     <1>42, <1>43, <1>44
  DEF Next, Job, Starting, Serving, Ending, Monitor, Failure, Environment

(* Every state is typed, and the user's page is open.                      *)
LEMMA TypedPages == Spec => [](TypeOK /\ Pages)
<1>1. Init => TypeOK /\ Pages
  BY InitType DEF Init, Pages, Begun, ServePc
<1>2. TypeOK /\ Pages /\ [Next]_vars => (TypeOK /\ Pages)'
  BY TypeStep, PagesStep
<1> QED
  BY <1>1, <1>2, PTL DEF Spec

-----------------------------------------------------------------------------
(* What the job does to the row.                                           *)

Settled == {"COMPLETED", "ABORTED", "FAILED"}

(* The row has the status that the job's place requires, whatever the API  *)
(* does meanwhile.                                                         *)
StatusFits ==
  /\ job = "stamp" => row.status = "ABORTED"
  /\ job \in AtWork => row.status \in Active \union {"ABORTED"}
  /\ job = "tell" => \/ row.status = "ABORTED"
                     \/ row.status = "COMPLETED" /\ outcome = "completed"
  /\ job = "failing" => row.status \in Active \union {"ABORTED", "COMPLETED"}
  /\ job \in {"stampFailed", "sayFailed"} => row.status \in Settled

(* The websocket is there while the job works, a rewind is a request, and  *)
(* arq runs a job again that it has cancelled.                             *)
Connected ==
  /\ ws \in {"open", "gone"} => job \in Begun
  /\ job \in {"replay", "activate"} => request = "rewind"
  /\ rerun => job \in {"cancelled", "clean"}

Ordered == StatusFits /\ Connected /\ RunningIsServed /\ NothingStaysOpen

LEMMA StatusAfter ==
  ASSUME NEW r \in Row, NEW n \in Nat
  PROVE  /\ MarkQueuedRunning(r).status = IF r.status = "QUEUED" THEN "RUNNING" ELSE r.status
         /\ MarkCompletedIfRunning(r, n).status =
              IF r.status \in Active THEN "COMPLETED" ELSE r.status
         /\ MarkFailedIfRunning(r).status =
              IF r.status \in Active THEN "FAILED" ELSE r.status
         /\ MarkAbortedIfActive(r).status =
              IF r.status \in {"NEW", "QUEUED"} \union Active THEN "ABORTED" ELSE r.status
         /\ MarkFinishedAtIfAborted(r).status = r.status
         /\ MarkQueued(r).status =
              IF r.status \in {"NEW", "FAILED", "ABORTED"} THEN "QUEUED" ELSE r.status
<1> USE DEF Row, Where
<1>1. MarkQueuedRunning(r).status = IF r.status = "QUEUED" THEN "RUNNING" ELSE r.status
  BY DEF MarkQueuedRunning
<1>2. MarkCompletedIfRunning(r, n).status =
        IF r.status \in Active THEN "COMPLETED" ELSE r.status
  BY DEF MarkCompletedIfRunning
<1>3. MarkFailedIfRunning(r).status = IF r.status \in Active THEN "FAILED" ELSE r.status
  BY DEF MarkFailedIfRunning
<1>4. MarkAbortedIfActive(r).status =
        IF r.status \in {"NEW", "QUEUED"} \union Active THEN "ABORTED" ELSE r.status
  BY DEF MarkAbortedIfActive
<1>5. MarkFinishedAtIfAborted(r).status = r.status
  BY DEF MarkFinishedAtIfAborted
<1>6. MarkQueued(r).status =
        IF r.status \in {"NEW", "FAILED", "ABORTED"} THEN "QUEUED" ELSE r.status
  BY DEF MarkQueued
<1> QED
  BY <1>1, <1>2, <1>3, <1>4, <1>5, <1>6

(* The API aborts what is not over.                                        *)
LEMMA StatusAfterAbort ==
  ASSUME TypeOK, AbortSession
  PROVE  row'.status = "ABORTED"
  BY StatusAfter DEF AbortSession, TypeOK, Row


LEMMA OrderedStep == TypeOK /\ Ordered /\ [Next]_vars => Ordered'
<1> SUFFICES ASSUME TypeOK, Ordered, [Next]_vars PROVE Ordered'
  OBVIOUS
<1>0. /\ row \in Row /\ counted \in Nat /\ rerun \in BOOLEAN
      /\ outcome \in {"completed", "aborted"}
  BY DEF TypeOK
<1> USE DEF Goto, BackToLoop, HangUp, Say, Heard, Disturb, Reset, CutShort,
       jobVars, session, history, wsVars, ttlVars, browserVars, flowVars, clockVars
<1> USE DEF Begun, AtWork, Pc, StartPc, SetupPc, ServePc, TryPc, HandlerPc
<1> USE DEF Ordered, StatusFits, Connected, RunningIsServed, NothingStaysOpen,
       Active, Settled
<1>1. CASE TakeUp
  BY <1>1, <1>0 DEF TakeUp
<1>2. CASE EnsureNotAborted
  BY <1>2, <1>0 DEF EnsureNotAborted
<1>3. CASE Claim
  BY <1>3, <1>0, StatusAfter DEF Claim
<1>4. CASE Recheck
  BY <1>4, <1>0 DEF Recheck
<1>5. CASE Launch
  BY <1>5, <1>0 DEF Launch
<1>6. CASE Connect
  BY <1>6, <1>0 DEF Connect
<1>7. CASE Ready
  BY <1>7, <1>0 DEF Ready
<1>8. CASE Receive
  BY <1>8, <1>0 DEF Receive
<1>9. CASE LoopEnds
  BY <1>9, <1>0 DEF LoopEnds
<1>10. CASE ServeInput
  BY <1>10, <1>0 DEF ServeInput
<1>11. CASE Refuse
  BY <1>11, <1>0 DEF Refuse
<1>12. CASE StartFlow
  BY <1>12, <1>0 DEF StartFlow
<1>13. CASE StoreFlow
  BY <1>13, <1>0 DEF StoreFlow
<1>13a. CASE StoreFails
  BY <1>13a, <1>0 DEF StoreFails
<1>14. CASE ReportFails
  BY <1>14, <1>0 DEF ReportFails
<1>15. CASE Reply
  BY <1>15, <1>0 DEF Reply
<1>16. CASE OpenReplay
  BY <1>16, <1>0 DEF OpenReplay
<1>17. CASE ReplayFails
  BY <1>17, <1>0 DEF ReplayFails
<1>18. CASE ReplayEnds
  BY <1>18, <1>0 DEF ReplayEnds
<1>19. CASE Activate
  BY <1>19, <1>0 DEF Activate
<1>20. CASE ActivateFails
  BY <1>20, <1>0 DEF ActivateFails
<1>21. CASE Mark
  BY <1>21, <1>0, StatusAfter DEF Mark
<1>22. CASE Tell
  BY <1>22, <1>0 DEF Tell
<1>23. CASE HandleCancelled
  BY <1>23, <1>0, StatusAfter DEF HandleCancelled
<1>24. CASE HandleFailure
  BY <1>24, <1>0, StatusAfter DEF HandleFailure
<1>25. CASE StampFailed
  BY <1>25, <1>0, StatusAfter DEF StampFailed
<1>26. CASE SayFailed
  BY <1>26, <1>0 DEF SayFailed
<1>27. CASE StampAborted
  BY <1>27, <1>0, StatusAfter DEF StampAborted
<1>28. CASE Clean
  BY <1>28, <1>0 DEF Clean
<1>29. CASE MonitorLooks
  BY <1>29, <1>0 DEF MonitorLooks
<1>30. CASE MonitorExpires
  BY <1>30, <1>0 DEF MonitorExpires
<1>31. CASE MonitorCloses
  BY <1>31, <1>0 DEF MonitorCloses
<1>32. CASE MonitorDies
  BY <1>32, <1>0 DEF MonitorDies
<1>33. CASE SendFails
  BY <1>33, <1>0 DEF SendFails
<1>34. CASE Raise
  BY <1>34, <1>0 DEF Raise
<1>35. CASE RaiseUnhandled
  BY <1>35, <1>0 DEF RaiseUnhandled
<1>36. CASE CancelJob
  BY <1>36, <1>0 DEF CancelJob
<1>37. CASE Crash
  BY <1>37, <1>0 DEF Crash
<1>38. CASE Submit
  BY <1>38, <1>0, StatusAfter DEF Submit
<1>39. CASE AbortSession
  BY <1>39, <1>0, StatusAfterAbort DEF AbortSession
<1>40. CASE UserHangsUp
  BY <1>40, <1>0 DEF UserHangsUp
<1>41. CASE PageActs
  BY <1>41, <1>0 DEF PageActs
<1>42. CASE Tick
  BY <1>42, <1>0 DEF Tick
<1>43. ASSUME NEW m \in Message, Send(m)
      PROVE  Ordered'
  BY <1>43, <1>0 DEF Send
<1>44. CASE UNCHANGED vars
  BY <1>44, <1>0 DEF vars
<1> QED
  BY <1>1, <1>2, <1>3, <1>4, <1>5, <1>6, <1>7, <1>8, <1>9, <1>10, <1>11,
     <1>12, <1>13, <1>13a, <1>14, <1>15, <1>16, <1>17, <1>18, <1>19, <1>20, <1>21,
     <1>22, <1>23, <1>24, <1>25, <1>26, <1>27, <1>28, <1>29, <1>30, <1>31,
     <1>32, <1>33, <1>34, <1>35, <1>36, <1>37, <1>38, <1>39, <1>40, <1>41,
     <1>42, <1>43, <1>44
  DEF Next, Job, Starting, Serving, Ending, Monitor, Failure, Environment

LEMMA OrderedCorrect == Spec => []Ordered
<1>1. Init => Ordered
  BY DEF Init, Ordered, StatusFits, Connected, RunningIsServed, NothingStaysOpen,
     NewRow, Begun, AtWork, Pc, StartPc, SetupPc, ServePc, TryPc, HandlerPc
<1> QED
  BY <1>1, OrderedStep, TypedPages, PTL DEF Spec

-----------------------------------------------------------------------------
(* Counting states.                                                        *)

(* The recorder counts what it adds to the graph, if it does so from the   *)
(* beginning.                                                              *)
Counted == (~again => counted = states) /\ CountIsComplete

LEMMA CountedStep == TypeOK /\ Ordered /\ Counted /\ [Next]_vars => Counted'
<1> SUFFICES ASSUME TypeOK, Ordered, Counted, [Next]_vars PROVE Counted'
  OBVIOUS
<1>0. /\ row \in Row /\ row.status \in Status /\ states \in Nat /\ counted \in Nat
      /\ outcome \in {"completed", "aborted"}
  BY DEF TypeOK, Row
<1> USE DEF Counted, CountIsComplete
<1>1. CASE Mark
  <2>1. UNCHANGED <<counted, states, again>>
    BY <1>1 DEF Mark, session, flowVars, history
  <2>2. row'.status = "COMPLETED" => row'.count = counted \/ row' = row
    BY <1>0, <1>1 DEF Mark, MarkCompletedIfRunning, MarkAbortedIfActive, Where, Row, Active
  <2> QED
    BY <2>1, <2>2
<1>2. CASE StoreFlow
  <2>1. row.status # "COMPLETED" /\ UNCHANGED row
    BY <1>2 DEF StoreFlow, Ordered, StatusFits, AtWork, TryPc, ServePc, Active
  <2>2. PICK n \in 0 .. 1 : states' = states + n /\ counted' = counted + n
    BY <1>2 DEF StoreFlow
  <2>3. UNCHANGED again
    BY <1>2 DEF StoreFlow, history
  <2>4. ~again => counted' = states'
    BY <2>2
  <2> QED
    BY <2>1, <2>3, <2>4
<1>2a. CASE StoreFails
  <2>1. row.status # "COMPLETED" /\ UNCHANGED row
    BY <1>2a DEF StoreFails, BackToLoop, Ordered, StatusFits, AtWork, TryPc, ServePc, Active
  <2>2. PICK n \in 0 .. 1 : states' = states + n /\ counted' = counted + n
    BY <1>2a DEF StoreFails
  <2>3. UNCHANGED again
    BY <1>2a DEF StoreFails, history
  <2>4. ~again => counted' = states'
    BY <2>2
  <2> QED
    BY <2>1, <2>3, <2>4
<1>3. CASE TakeUp
  <2>1. UNCHANGED <<row, states>> /\ counted' = 0 /\ again' = (again \/ states > 0)
    BY <1>3 DEF TakeUp
  <2>2. CASE again'
    BY <2>2
  <2>3. CASE ~again'
    <3>1. ~again /\ ~(states > 0)
      BY <2>1, <2>3, Zenon
    <3>2. counted' = 0 /\ states' = 0 /\ UNCHANGED <<row, states>>
      BY <1>0, <2>1, <3>1
    <3> QED
      BY <3>1, <3>2
  <2> QED
    BY <2>2, <2>3
<1>4. CASE UNCHANGED <<counted, states, again>> /\ (UNCHANGED row \/ row'.status # "COMPLETED")
  BY <1>4
<1>5. CASE /\ UNCHANGED <<counted, states, again>>
           /\ row'.status = row.status /\ row'.count = row.count
  BY <1>5
<1>6. CASE Starting
  <2>1. CASE Claim
    BY <1>0, <2>1, <1>4 DEF Claim, MarkQueuedRunning, Where, Row, session, flowVars, history
  <2> QED
    BY <2>1, <1>3, <1>4, <1>6 DEF Starting, EnsureNotAborted, Recheck, Launch, Connect, Ready,
       session, flowVars, history
<1>7. CASE Serving
  BY <1>2, <1>2a, <1>4, <1>7 DEF Serving, Receive, LoopEnds, ServeInput, Refuse, StartFlow,
     ReportFails, Reply, OpenReplay, ReplayFails, ReplayEnds, Activate, ActivateFails,
     BackToLoop, session, flowVars, history
<1>8. CASE Ending
  <2>1. CASE HandleCancelled \/ StampFailed \/ StampAborted
    <3>1. row'.status = row.status /\ row'.count = row.count
      BY <1>0, <2>1 DEF HandleCancelled, StampFailed, StampAborted,
         MarkFinishedAtIfAborted, Where, Row
    <3> QED
      BY <2>1, <3>1, <1>5 DEF HandleCancelled, StampFailed, StampAborted, session,
         flowVars, history
  <2>2. CASE HandleFailure
    <3>1. UNCHANGED row \/ row'.status # "COMPLETED"
      BY <1>0, <2>2 DEF HandleFailure, MarkFailedIfRunning, Where, Row
    <3> QED
      BY <2>2, <3>1, <1>4 DEF HandleFailure, session, flowVars, history
  <2> QED
    BY <1>1, <2>1, <2>2, <1>4, <1>8 DEF Ending, Tell, SayFailed, Clean, flowVars, history
<1>9. CASE Monitor
  BY <1>4, <1>9 DEF Monitor, MonitorLooks, MonitorExpires, MonitorCloses, flowVars, history
<1>10. CASE Failure
  BY <1>4, <1>10 DEF Failure, MonitorDies, SendFails, Raise, RaiseUnhandled, CancelJob,
     Crash, Goto, session, flowVars, history
<1>11. CASE Submit \/ AbortSession
  <2>1. UNCHANGED row \/ row'.status # "COMPLETED"
    BY <1>0, <1>11 DEF Submit, AbortSession, MarkQueued, MarkAbortedIfActive, Where, Row
  <2> QED
    BY <1>11, <2>1, <1>4 DEF Submit, AbortSession, session, flowVars, history
<1>12. CASE UserHangsUp \/ PageActs \/ Tick \/ \E m \in Message : Send(m)
  BY <1>4, <1>12 DEF UserHangsUp, PageActs, Tick, Send, flowVars, history
<1>13. CASE UNCHANGED vars
  BY <1>4, <1>13 DEF vars, flowVars, history
<1> QED
  BY <1>6, <1>7, <1>8, <1>9, <1>10, <1>11, <1>12, <1>13 DEF Next, Job, Environment

(* However the job ends, after whatever failures, aborts and redeliveries, *)
(* it leaves a row that is settled or will be, with the right count, and   *)
(* neither a browser context nor the monitor behind.                       *)
THEOREM NothingStaysBehind == Spec => []NothingIsLeft
<1>1. Init => Counted
  BY DEF Init, Counted, CountIsComplete, NewRow
<1>2. Spec => []Counted
  BY <1>1, CountedStep, TypedPages, OrderedCorrect, PTL DEF Spec
<1>3. TypeOK /\ Ordered /\ Counted => NothingIsLeft
  BY DEF Ordered, Counted, NothingIsLeft
<1> QED
  BY <1>2, <1>3, TypedPages, OrderedCorrect, PTL

-----------------------------------------------------------------------------
(* What the row's readers may rely on.                                     *)

ByStatement(n) ==
  \/ row' = MarkQueuedRunning(row)
  \/ row' = MarkCompletedIfRunning(row, n)
  \/ row' = MarkFailedIfRunning(row)
  \/ row' = MarkAbortedIfActive(row)
  \/ row' = MarkFinishedAtIfAborted(row)
  \/ row' = MarkQueued(row)

(* The API aborts a session without its finish time.                       *)
ByTheApi ==
  /\ row.status \in {"NEW", "QUEUED"} \union Active
  /\ row' = [row EXCEPT !.status = "ABORTED"]

LEMMA StatementsAreLife ==
  ASSUME row \in Row, NEW n \in Nat, ByStatement(n)
  PROVE  [Life!Next]_(Life!sessionVars)
<1> USE DEF Where, Active, Row, Life!Next, Life!sessionVars, Life!Open
<1>1. CASE row' = MarkQueuedRunning(row)
  BY <1>1 DEF MarkQueuedRunning, Life!Start
<1>2. CASE row' = MarkCompletedIfRunning(row, n)
  BY <1>2 DEF MarkCompletedIfRunning, Life!Complete
<1>3. CASE row' = MarkFailedIfRunning(row)
  BY <1>3 DEF MarkFailedIfRunning, Life!Fail
<1>4. CASE row' = MarkAbortedIfActive(row)
  BY <1>4 DEF MarkAbortedIfActive, Life!Abort
<1>5. CASE row' = MarkFinishedAtIfAborted(row)
  BY <1>5 DEF MarkFinishedAtIfAborted, Life!StampAborted
<1>6. CASE row' = MarkQueued(row)
  BY <1>6 DEF MarkQueued, Life!Submit
<1> QED
  BY <1>1, <1>2, <1>3, <1>4, <1>5, <1>6 DEF ByStatement

LEMMA RowChanges ==
  ASSUME TypeOK, [Next]_vars
  PROVE  UNCHANGED row \/ ByTheApi \/ ByStatement(counted)
<1>1. CASE Starting
  BY <1>1 DEF Starting, TakeUp, EnsureNotAborted, Claim, Recheck, Launch, Connect,
     Ready, ByStatement
<1>2. CASE Serving
  BY <1>2 DEF Serving, Receive, LoopEnds, ServeInput, Refuse, StartFlow, StoreFlow,
     StoreFails, ReportFails, Reply, OpenReplay, ReplayFails, ReplayEnds, Activate, ActivateFails,
     BackToLoop
<1>3. CASE Ending
  BY <1>3 DEF Ending, Mark, Tell, HandleCancelled, HandleFailure, StampFailed,
     SayFailed, StampAborted, Clean, ByStatement
<1>4. CASE Monitor \/ Failure
  BY <1>4 DEF Monitor, MonitorLooks, MonitorExpires, MonitorCloses, Failure,
     MonitorDies, SendFails, Raise, RaiseUnhandled, CancelJob, Crash
<1>5. CASE Environment
  BY <1>5 DEF Environment, Submit, AbortSession, UserHangsUp, PageActs, Tick, Send,
     ByStatement, ByTheApi
<1>6. CASE UNCHANGED vars
  BY <1>6 DEF vars
<1> QED
  BY <1>1, <1>2, <1>3, <1>4, <1>5, <1>6 DEF Next, Job

(* A recording lets its row live the life that SessionStatus promises, as  *)
(* a crawl does, whatever the job, the API, failures and redeliveries do   *)
(* to it.                                                                  *)
THEOREM RecordingsImplementTheLife == Spec => LifeSpec
<1>1. Init => Life!Init
  BY DEF Init, NewRow, Life!Init
<1>2. TypeOK /\ [Next]_vars => [Life!Next]_(Life!sessionVars)
  <2> SUFFICES ASSUME TypeOK, [Next]_vars
               PROVE  [Life!Next]_(Life!sessionVars)
    OBVIOUS
  <2>1. row \in Row /\ counted \in Nat
    BY DEF TypeOK
  <2>2. CASE UNCHANGED row
    BY <2>2 DEF Life!sessionVars
  <2>3. CASE ByTheApi
    BY <2>1, <2>3 DEF ByTheApi, Active, Row, Life!Next, Life!sessionVars, Life!Abort,
       Life!Open
  <2> QED
    BY <2>1, <2>2, <2>3, RowChanges, StatementsAreLife
<1> QED
  BY <1>1, <1>2, TypedPages, PTL DEF Spec, LifeSpec, Life!Spec

-----------------------------------------------------------------------------
(* What the user hears.                                                    *)

(* A recording that the user leaves as completed while its time limit runs *)
(* out is late; any other whose limit ran out is aborted.                  *)
OutcomeFits ==
  /\ outcome = "completed" =>
       job \notin {"ensure", "claim", "recheck"} \union (TryPc \ {"mark", "tell"})
  /\ outcome = "completed" /\ job \in {"mark", "tell"} /\ monitor \in {"expire", "close"}
       => late
  /\ told = "aborted" /\ ~late /\ job \in Begun =>
       /\ monitor # "sleep"
       /\ job \in {"mark", "tell"} => outcome = "aborted"

(* What was said holds of the row, or the job has still to make it so.     *)
ToldFits ==
  /\ told = "completed" => row.status \in {"COMPLETED", "ABORTED"}
  /\ told = "aborted" /\ ~late /\ ~stranded =>
       \/ row.status \in {"ABORTED", "FAILED"}
       \/ /\ row.status \in Active
          /\ rerun \/ job \in StartPc \union AtWork \union {"failing"}
  /\ told = "failed" => row.status \in Settled

(* One flow at most waits to be announced.                                 *)
Answered ==
  ~unsaid => /\ job = "reply" /\ Storing => stored = announced + 1
             /\ ~(job = "reply" /\ Storing) => stored = announced

LEMMA OutcomeFitsStep == TypeOK /\ Ordered /\ OutcomeFits /\ [Next]_vars => OutcomeFits'
<1> SUFFICES ASSUME TypeOK, Ordered, OutcomeFits, [Next]_vars PROVE OutcomeFits'
  OBVIOUS
<1>0. outcome \in {"completed", "aborted"}
  BY DEF TypeOK
<1> USE DEF Goto, BackToLoop, HangUp, Say, Heard, Disturb, Reset, CutShort,
       jobVars, session, history, wsVars, ttlVars, browserVars, flowVars, clockVars
<1> USE DEF Begun, AtWork, Pc, StartPc, SetupPc, ServePc, TryPc, HandlerPc
<1> USE DEF OutcomeFits, Ordered, Connected
<1>1. CASE TakeUp
  BY <1>1, <1>0 DEF TakeUp
<1>2. CASE EnsureNotAborted
  BY <1>2, <1>0 DEF EnsureNotAborted
<1>3. CASE Claim
  BY <1>3, <1>0 DEF Claim
<1>4. CASE Recheck
  BY <1>4, <1>0 DEF Recheck
<1>5. CASE Launch
  BY <1>5, <1>0 DEF Launch
<1>6. CASE Connect
  BY <1>6, <1>0 DEF Connect
<1>7. CASE Ready
  BY <1>7, <1>0 DEF Ready
<1>8. CASE Receive
  BY <1>8, <1>0 DEF Receive
<1>9. CASE LoopEnds
  BY <1>9, <1>0 DEF LoopEnds
<1>10. CASE ServeInput
  BY <1>10, <1>0 DEF ServeInput
<1>11. CASE Refuse
  BY <1>11, <1>0 DEF Refuse
<1>12. CASE StartFlow
  BY <1>12, <1>0 DEF StartFlow
<1>13. CASE StoreFlow
  BY <1>13, <1>0 DEF StoreFlow
<1>13a. CASE StoreFails
  BY <1>13a, <1>0 DEF StoreFails
<1>14. CASE ReportFails
  BY <1>14, <1>0 DEF ReportFails
<1>15. CASE Reply
  BY <1>15, <1>0 DEF Reply
<1>16. CASE OpenReplay
  BY <1>16, <1>0 DEF OpenReplay
<1>17. CASE ReplayFails
  BY <1>17, <1>0 DEF ReplayFails
<1>18. CASE ReplayEnds
  BY <1>18, <1>0 DEF ReplayEnds
<1>19. CASE Activate
  BY <1>19, <1>0 DEF Activate
<1>20. CASE ActivateFails
  BY <1>20, <1>0 DEF ActivateFails
<1>21. CASE Mark
  BY <1>21, <1>0 DEF Mark
<1>22. CASE Tell
  BY <1>22, <1>0 DEF Tell
<1>23. CASE HandleCancelled
  BY <1>23, <1>0 DEF HandleCancelled
<1>24. CASE HandleFailure
  BY <1>24, <1>0 DEF HandleFailure
<1>25. CASE StampFailed
  BY <1>25, <1>0 DEF StampFailed
<1>26. CASE SayFailed
  BY <1>26, <1>0 DEF SayFailed
<1>27. CASE StampAborted
  BY <1>27, <1>0 DEF StampAborted
<1>28. CASE Clean
  BY <1>28, <1>0 DEF Clean
<1>29. CASE MonitorLooks
  BY <1>29, <1>0 DEF MonitorLooks
<1>30. CASE MonitorExpires
  BY <1>30, <1>0 DEF MonitorExpires
<1>31. CASE MonitorCloses
  BY <1>31, <1>0 DEF MonitorCloses
<1>32. CASE MonitorDies
  BY <1>32, <1>0 DEF MonitorDies
<1>33. CASE SendFails
  BY <1>33, <1>0 DEF SendFails
<1>34. CASE Raise
  BY <1>34, <1>0 DEF Raise
<1>35. CASE RaiseUnhandled
  BY <1>35, <1>0 DEF RaiseUnhandled
<1>36. CASE CancelJob
  BY <1>36, <1>0 DEF CancelJob
<1>37. CASE Crash
  BY <1>37, <1>0 DEF Crash
<1>38. CASE Submit
  BY <1>38, <1>0 DEF Submit
<1>39. CASE AbortSession
  BY <1>39, <1>0 DEF AbortSession
<1>40. CASE UserHangsUp
  BY <1>40, <1>0 DEF UserHangsUp
<1>41. CASE PageActs
  BY <1>41, <1>0 DEF PageActs
<1>42. CASE Tick
  BY <1>42, <1>0 DEF Tick
<1>43. ASSUME NEW m \in Message, Send(m)
      PROVE  OutcomeFits'
  BY <1>43, <1>0 DEF Send
<1>44. CASE UNCHANGED vars
  BY <1>44, <1>0 DEF vars
<1> QED
  BY <1>1, <1>2, <1>3, <1>4, <1>5, <1>6, <1>7, <1>8, <1>9, <1>10, <1>11,
     <1>12, <1>13, <1>13a, <1>14, <1>15, <1>16, <1>17, <1>18, <1>19, <1>20, <1>21,
     <1>22, <1>23, <1>24, <1>25, <1>26, <1>27, <1>28, <1>29, <1>30, <1>31,
     <1>32, <1>33, <1>34, <1>35, <1>36, <1>37, <1>38, <1>39, <1>40, <1>41,
     <1>42, <1>43, <1>44
  DEF Next, Job, Starting, Serving, Ending, Monitor, Failure, Environment

LEMMA ToldFitsStep == TypeOK /\ Ordered /\ OutcomeFits /\ ToldFits /\ [Next]_vars => ToldFits'
<1> SUFFICES ASSUME TypeOK, Ordered, OutcomeFits, ToldFits, [Next]_vars PROVE ToldFits'
  OBVIOUS
<1>0. /\ row \in Row /\ counted \in Nat /\ rerun \in BOOLEAN
      /\ outcome \in {"completed", "aborted"}
  BY DEF TypeOK
<1> USE DEF Goto, BackToLoop, HangUp, Say, Heard, Disturb, Reset, CutShort,
       jobVars, session, history, wsVars, ttlVars, browserVars, flowVars, clockVars
<1> USE DEF Begun, AtWork, Pc, StartPc, SetupPc, ServePc, TryPc, HandlerPc
<1> USE DEF ToldFits, OutcomeFits, Ordered, StatusFits, Connected, Active,
   Settled
<1>1. CASE TakeUp
  BY <1>1, <1>0 DEF TakeUp
<1>2. CASE EnsureNotAborted
  BY <1>2, <1>0 DEF EnsureNotAborted
<1>3. CASE Claim
  BY <1>3, <1>0, StatusAfter DEF Claim
<1>4. CASE Recheck
  BY <1>4, <1>0 DEF Recheck
<1>5. CASE Launch
  BY <1>5, <1>0 DEF Launch
<1>6. CASE Connect
  BY <1>6, <1>0 DEF Connect
<1>7. CASE Ready
  BY <1>7, <1>0 DEF Ready
<1>8. CASE Receive
  BY <1>8, <1>0 DEF Receive
<1>9. CASE LoopEnds
  BY <1>9, <1>0 DEF LoopEnds
<1>10. CASE ServeInput
  BY <1>10, <1>0 DEF ServeInput
<1>11. CASE Refuse
  BY <1>11, <1>0 DEF Refuse
<1>12. CASE StartFlow
  BY <1>12, <1>0 DEF StartFlow
<1>13. CASE StoreFlow
  BY <1>13, <1>0 DEF StoreFlow
<1>13a. CASE StoreFails
  BY <1>13a, <1>0 DEF StoreFails
<1>14. CASE ReportFails
  BY <1>14, <1>0 DEF ReportFails
<1>15. CASE Reply
  BY <1>15, <1>0 DEF Reply
<1>16. CASE OpenReplay
  BY <1>16, <1>0 DEF OpenReplay
<1>17. CASE ReplayFails
  BY <1>17, <1>0 DEF ReplayFails
<1>18. CASE ReplayEnds
  BY <1>18, <1>0 DEF ReplayEnds
<1>19. CASE Activate
  BY <1>19, <1>0 DEF Activate
<1>20. CASE ActivateFails
  BY <1>20, <1>0 DEF ActivateFails
<1>21. CASE Mark
  BY <1>21, <1>0, StatusAfter DEF Mark
<1>22. CASE Tell
  BY <1>22, <1>0 DEF Tell
<1>23. CASE HandleCancelled
  BY <1>23, <1>0, StatusAfter DEF HandleCancelled
<1>24. CASE HandleFailure
  BY <1>24, <1>0, StatusAfter DEF HandleFailure
<1>25. CASE StampFailed
  BY <1>25, <1>0, StatusAfter DEF StampFailed
<1>26. CASE SayFailed
  BY <1>26, <1>0 DEF SayFailed
<1>27. CASE StampAborted
  BY <1>27, <1>0, StatusAfter DEF StampAborted
<1>28. CASE Clean
  BY <1>28, <1>0 DEF Clean
<1>29. CASE MonitorLooks
  BY <1>29, <1>0 DEF MonitorLooks
<1>30. CASE MonitorExpires
  BY <1>30, <1>0 DEF MonitorExpires
<1>31. CASE MonitorCloses
  BY <1>31, <1>0 DEF MonitorCloses
<1>32. CASE MonitorDies
  BY <1>32, <1>0 DEF MonitorDies
<1>33. CASE SendFails
  BY <1>33, <1>0 DEF SendFails
<1>34. CASE Raise
  BY <1>34, <1>0 DEF Raise
<1>35. CASE RaiseUnhandled
  BY <1>35, <1>0 DEF RaiseUnhandled
<1>36. CASE CancelJob
  BY <1>36, <1>0 DEF CancelJob
<1>37. CASE Crash
  BY <1>37, <1>0 DEF Crash
<1>38. CASE Submit
  BY <1>38, <1>0, StatusAfter DEF Submit
<1>39. CASE AbortSession
  BY <1>39, <1>0, StatusAfterAbort DEF AbortSession
<1>40. CASE UserHangsUp
  BY <1>40, <1>0 DEF UserHangsUp
<1>41. CASE PageActs
  BY <1>41, <1>0 DEF PageActs
<1>42. CASE Tick
  BY <1>42, <1>0 DEF Tick
<1>43. ASSUME NEW m \in Message, Send(m)
      PROVE  ToldFits'
  BY <1>43, <1>0 DEF Send
<1>44. CASE UNCHANGED vars
  BY <1>44, <1>0 DEF vars
<1> QED
  BY <1>1, <1>2, <1>3, <1>4, <1>5, <1>6, <1>7, <1>8, <1>9, <1>10, <1>11,
     <1>12, <1>13, <1>13a, <1>14, <1>15, <1>16, <1>17, <1>18, <1>19, <1>20, <1>21,
     <1>22, <1>23, <1>24, <1>25, <1>26, <1>27, <1>28, <1>29, <1>30, <1>31,
     <1>32, <1>33, <1>34, <1>35, <1>36, <1>37, <1>38, <1>39, <1>40, <1>41,
     <1>42, <1>43, <1>44
  DEF Next, Job, Starting, Serving, Ending, Monitor, Failure, Environment

LEMMA AnsweredStep == TypeOK /\ Ordered /\ Answered /\ [Next]_vars => Answered'
<1> SUFFICES ASSUME TypeOK, Ordered, Answered, [Next]_vars PROVE Answered'
  OBVIOUS
<1>0. stored \in Nat /\ announced \in Nat
  BY DEF TypeOK
<1> USE DEF Goto, BackToLoop, HangUp, Say, Heard, Disturb, Reset, CutShort,
       jobVars, session, history, wsVars, ttlVars, browserVars, flowVars, clockVars
<1> USE DEF Begun, AtWork, Pc, StartPc, SetupPc, ServePc, TryPc, HandlerPc
<1> USE DEF Answered, Ordered, Connected, Storing, NoRequest
<1>1. CASE TakeUp
  BY <1>1, <1>0 DEF TakeUp
<1>2. CASE EnsureNotAborted
  BY <1>2, <1>0 DEF EnsureNotAborted
<1>3. CASE Claim
  BY <1>3, <1>0 DEF Claim
<1>4. CASE Recheck
  BY <1>4, <1>0 DEF Recheck
<1>5. CASE Launch
  BY <1>5, <1>0 DEF Launch
<1>6. CASE Connect
  BY <1>6, <1>0 DEF Connect
<1>7. CASE Ready
  BY <1>7, <1>0 DEF Ready
<1>8. CASE Receive
  BY <1>8, <1>0 DEF Receive
<1>9. CASE LoopEnds
  BY <1>9, <1>0 DEF LoopEnds
<1>10. CASE ServeInput
  BY <1>10, <1>0 DEF ServeInput
<1>11. CASE Refuse
  BY <1>11, <1>0 DEF Refuse
<1>12. CASE StartFlow
  BY <1>12, <1>0 DEF StartFlow
<1>13. CASE StoreFlow
  BY <1>13, <1>0 DEF StoreFlow
<1>13a. CASE StoreFails
  BY <1>13a, <1>0 DEF StoreFails
<1>14. CASE ReportFails
  BY <1>14, <1>0 DEF ReportFails
<1>15. CASE Reply
  BY <1>15, <1>0 DEF Reply
<1>16. CASE OpenReplay
  BY <1>16, <1>0 DEF OpenReplay
<1>17. CASE ReplayFails
  BY <1>17, <1>0 DEF ReplayFails
<1>18. CASE ReplayEnds
  BY <1>18, <1>0 DEF ReplayEnds
<1>19. CASE Activate
  BY <1>19, <1>0 DEF Activate
<1>20. CASE ActivateFails
  BY <1>20, <1>0 DEF ActivateFails
<1>21. CASE Mark
  BY <1>21, <1>0 DEF Mark
<1>22. CASE Tell
  BY <1>22, <1>0 DEF Tell
<1>23. CASE HandleCancelled
  BY <1>23, <1>0 DEF HandleCancelled
<1>24. CASE HandleFailure
  BY <1>24, <1>0 DEF HandleFailure
<1>25. CASE StampFailed
  BY <1>25, <1>0 DEF StampFailed
<1>26. CASE SayFailed
  BY <1>26, <1>0 DEF SayFailed
<1>27. CASE StampAborted
  BY <1>27, <1>0 DEF StampAborted
<1>28. CASE Clean
  BY <1>28, <1>0 DEF Clean
<1>29. CASE MonitorLooks
  BY <1>29, <1>0 DEF MonitorLooks
<1>30. CASE MonitorExpires
  BY <1>30, <1>0 DEF MonitorExpires
<1>31. CASE MonitorCloses
  BY <1>31, <1>0 DEF MonitorCloses
<1>32. CASE MonitorDies
  BY <1>32, <1>0 DEF MonitorDies
<1>33. CASE SendFails
  BY <1>33, <1>0 DEF SendFails
<1>34. CASE Raise
  BY <1>34, <1>0 DEF Raise
<1>35. CASE RaiseUnhandled
  BY <1>35, <1>0 DEF RaiseUnhandled
<1>36. CASE CancelJob
  BY <1>36, <1>0 DEF CancelJob
<1>37. CASE Crash
  BY <1>37, <1>0 DEF Crash
<1>38. CASE Submit
  BY <1>38, <1>0 DEF Submit
<1>39. CASE AbortSession
  BY <1>39, <1>0 DEF AbortSession
<1>40. CASE UserHangsUp
  BY <1>40, <1>0 DEF UserHangsUp
<1>41. CASE PageActs
  BY <1>41, <1>0 DEF PageActs
<1>42. CASE Tick
  BY <1>42, <1>0 DEF Tick
<1>43. ASSUME NEW m \in Message, Send(m)
      PROVE  Answered'
  BY <1>43, <1>0 DEF Send
<1>44. CASE UNCHANGED vars
  BY <1>44, <1>0 DEF vars
<1> QED
  BY <1>1, <1>2, <1>3, <1>4, <1>5, <1>6, <1>7, <1>8, <1>9, <1>10, <1>11,
     <1>12, <1>13, <1>13a, <1>14, <1>15, <1>16, <1>17, <1>18, <1>19, <1>20, <1>21,
     <1>22, <1>23, <1>24, <1>25, <1>26, <1>27, <1>28, <1>29, <1>30, <1>31,
     <1>32, <1>33, <1>34, <1>35, <1>36, <1>37, <1>38, <1>39, <1>40, <1>41,
     <1>42, <1>43, <1>44
  DEF Next, Job, Starting, Serving, Ending, Monitor, Failure, Environment

(* What the user hears when his session closes is what its row says once   *)
(* the job is gone, and he hears of every flow that is stored, however the *)
(* loop, the time limit, the failures and the API's aborts interleave; the *)
(* exceptions are those that the definitions name.                         *)
THEOREM UsersHearTheTruth == Spec => []UserIsTold
<1>1. Init => OutcomeFits /\ ToldFits /\ Answered
  BY DEF Init, OutcomeFits, ToldFits, Answered, TryPc, SetupPc, ServePc, Begun
<1>2. Spec => []OutcomeFits
  BY <1>1, OutcomeFitsStep, TypedPages, OrderedCorrect, PTL DEF Spec
<1>3. Spec => [](ToldFits /\ Answered)
  BY <1>1, <1>2, ToldFitsStep, AnsweredStep, TypedPages, OrderedCorrect, PTL DEF Spec
<1>4. TypeOK /\ Ordered /\ ToldFits /\ Answered => UserIsTold
  <2> SUFFICES ASSUME TypeOK, Ordered, ToldFits, Answered PROVE ClosedIsTrue /\ StoredIsAnnounced
    BY DEF UserIsTold
  <2>1. ClosedIsTrue
    BY DEF ClosedIsTrue, ToldFits, Settled, StartPc, AtWork, TryPc, SetupPc, ServePc,
       Ordered, Connected
  <2>2. StoredIsAnnounced
    BY DEF StoredIsAnnounced, Answered, TypeOK
  <2> QED
    BY <2>1, <2>2
<1> QED
  BY <1>3, <1>4, TypedPages, OrderedCorrect, PTL

-----------------------------------------------------------------------------
(* The time limit.                                                         *)

(* Of a diligent user and a prompt worker: while nothing waits, the limit  *)
(* was restarted after the user last sent something; while something does, *)
(* it was restarted no longer before that than a pause lasts.              *)
Clocks ==
  diligent /\ prompt =>
    /\ idle < Ttl /\ monitor # "expire" /\ ~expired
    /\ ws \in {"open", "gone"} /\ inbox = <<>> => idle <= quiet
    /\ ws \in {"open", "gone"} /\ inbox # <<>> => idle <= Gap + busy

LEMMA ClocksStep == TypeOK /\ Clocks /\ [Next]_vars => Clocks'
<1> SUFFICES ASSUME TypeOK, Clocks, [Next]_vars PROVE Clocks'
  OBVIOUS
<1>0. /\ SessionAssumption /\ inbox \in Seq(Message)
      /\ idle \in 0 .. Ttl /\ quiet \in 0 .. Gap /\ busy \in 0 .. Work
  BY SessionAssumption DEF TypeOK
<1> USE DEF Goto, BackToLoop, HangUp, Say, Heard, Disturb, Reset, CutShort,
       jobVars, session, history, wsVars, ttlVars, browserVars, flowVars, clockVars
<1> USE DEF Begun, AtWork, Pc, StartPc, SetupPc, ServePc, TryPc, HandlerPc
<1> USE DEF Clocks, SessionAssumption
<1>1. CASE TakeUp
  BY <1>1, <1>0 DEF TakeUp
<1>2. CASE EnsureNotAborted
  BY <1>2, <1>0 DEF EnsureNotAborted
<1>3. CASE Claim
  BY <1>3, <1>0 DEF Claim
<1>4. CASE Recheck
  BY <1>4, <1>0 DEF Recheck
<1>5. CASE Launch
  BY <1>5, <1>0 DEF Launch
<1>6. CASE Connect
  BY <1>6, <1>0 DEF Connect
<1>7. CASE Ready
  BY <1>7, <1>0 DEF Ready
<1>8. CASE Receive
  BY <1>8, <1>0 DEF Receive
<1>9. CASE LoopEnds
  BY <1>9, <1>0 DEF LoopEnds
<1>10. CASE ServeInput
  BY <1>10, <1>0 DEF ServeInput
<1>11. CASE Refuse
  BY <1>11, <1>0 DEF Refuse
<1>12. CASE StartFlow
  BY <1>12, <1>0 DEF StartFlow
<1>13. CASE StoreFlow
  BY <1>13, <1>0 DEF StoreFlow
<1>13a. CASE StoreFails
  BY <1>13a, <1>0 DEF StoreFails
<1>14. CASE ReportFails
  BY <1>14, <1>0 DEF ReportFails
<1>15. CASE Reply
  BY <1>15, <1>0 DEF Reply
<1>16. CASE OpenReplay
  BY <1>16, <1>0 DEF OpenReplay
<1>17. CASE ReplayFails
  BY <1>17, <1>0 DEF ReplayFails
<1>18. CASE ReplayEnds
  BY <1>18, <1>0 DEF ReplayEnds
<1>19. CASE Activate
  BY <1>19, <1>0 DEF Activate
<1>20. CASE ActivateFails
  BY <1>20, <1>0 DEF ActivateFails
<1>21. CASE Mark
  BY <1>21, <1>0 DEF Mark
<1>22. CASE Tell
  BY <1>22, <1>0 DEF Tell
<1>23. CASE HandleCancelled
  BY <1>23, <1>0 DEF HandleCancelled
<1>24. CASE HandleFailure
  BY <1>24, <1>0 DEF HandleFailure
<1>25. CASE StampFailed
  BY <1>25, <1>0 DEF StampFailed
<1>26. CASE SayFailed
  BY <1>26, <1>0 DEF SayFailed
<1>27. CASE StampAborted
  BY <1>27, <1>0 DEF StampAborted
<1>28. CASE Clean
  BY <1>28, <1>0 DEF Clean
<1>29. CASE MonitorLooks
  BY <1>29, <1>0 DEF MonitorLooks
<1>30. CASE MonitorExpires
  BY <1>30, <1>0 DEF MonitorExpires
<1>31. CASE MonitorCloses
  BY <1>31, <1>0 DEF MonitorCloses
<1>32. CASE MonitorDies
  BY <1>32, <1>0 DEF MonitorDies
<1>33. CASE SendFails
  BY <1>33, <1>0 DEF SendFails
<1>34. CASE Raise
  BY <1>34, <1>0 DEF Raise
<1>35. CASE RaiseUnhandled
  BY <1>35, <1>0 DEF RaiseUnhandled
<1>36. CASE CancelJob
  BY <1>36, <1>0 DEF CancelJob
<1>37. CASE Crash
  BY <1>37, <1>0 DEF Crash
<1>38. CASE Submit
  BY <1>38, <1>0 DEF Submit
<1>39. CASE AbortSession
  BY <1>39, <1>0 DEF AbortSession
<1>40. CASE UserHangsUp
  BY <1>40, <1>0 DEF UserHangsUp
<1>41. CASE PageActs
  BY <1>41, <1>0 DEF PageActs
<1>42. CASE Tick
  <2>1. SessionAssumption /\ UNCHANGED <<ws, inbox, monitor, expired>>
    BY <1>0, <1>42 DEF Tick
  <2>2. SUFFICES ASSUME diligent', prompt'
                 PROVE  /\ idle' < Ttl /\ monitor # "expire" /\ ~expired
                        /\ inbox = <<>> => idle' <= quiet'
                        /\ inbox # <<>> => idle' <= Gap + busy'
    BY <2>1
  <2>3. diligent /\ quiet < Gap /\ quiet' = quiet + 1
    <3>1. diligent /\ quiet < Gap
      BY <1>42, <2>2, Zenon DEF Tick
    <3> QED
      BY <1>42, <3>1 DEF Tick, UpTo
  <2>4. prompt /\ (inbox # <<>> => busy < Work /\ busy' = busy + 1)
    <3>1. CASE Owing
      <4>1. prompt' = (prompt /\ busy < Work) /\ busy' = UpTo(busy, Work)
        BY <1>42, <3>1 DEF Tick
      <4>2. prompt /\ busy < Work
        BY <4>1, <2>2, Zenon
      <4> QED
        BY <4>1, <4>2 DEF UpTo
    <3>2. CASE ~Owing
      BY <1>42, <2>2, <3>2 DEF Tick, Owing
    <3> QED
      BY <3>1, <3>2
  <2>5. ws \in {"open", "gone"} /\ idle' = UpTo(idle, Ttl)
    BY <1>42 DEF Tick
  <2>6. idle < Ttl /\ idle' = idle + 1
    BY <1>0, <2>3, <2>4, <2>5 DEF UpTo
  <2>7. CASE inbox = <<>>
    BY <1>0, <2>3, <2>4, <2>5, <2>6, <2>7
  <2>8. CASE inbox # <<>>
    BY <1>0, <2>3, <2>4, <2>5, <2>6, <2>8
  <2> QED
    BY <2>7, <2>8
<1>43. ASSUME NEW m \in Message, Send(m)
      PROVE  Clocks'
  BY <1>43, <1>0 DEF Send
<1>44. CASE UNCHANGED vars
  BY <1>44, <1>0 DEF vars
<1> QED
  BY <1>1, <1>2, <1>3, <1>4, <1>5, <1>6, <1>7, <1>8, <1>9, <1>10, <1>11,
     <1>12, <1>13, <1>13a, <1>14, <1>15, <1>16, <1>17, <1>18, <1>19, <1>20, <1>21,
     <1>22, <1>23, <1>24, <1>25, <1>26, <1>27, <1>28, <1>29, <1>30, <1>31,
     <1>32, <1>33, <1>34, <1>35, <1>36, <1>37, <1>38, <1>39, <1>40, <1>41,
     <1>42, <1>43, <1>44
  DEF Next, Job, Starting, Serving, Ending, Monitor, Failure, Environment

(* Whatever a rewind runs into, the user works on an open page; and if he  *)
(* acts often enough and the worker is fast enough, for whatever the       *)
(* limits are, the idle limit never throws him out.                        *)
THEOREM UsersCanWork == Spec => []UserCanWork
<1>1. Init => Clocks
  BY SessionAssumption DEF Init, Clocks, SessionAssumption
<1>2. Spec => []Clocks
  BY <1>1, ClocksStep, TypedPages, PTL DEF Spec
<1>3. Pages /\ Clocks => UserCanWork
  BY DEF Pages, Clocks, UserCanWork, PageIsOpen, DiligentIsServed, Begun
<1> QED
  BY <1>2, <1>3, TypedPages, PTL

=============================================================================
