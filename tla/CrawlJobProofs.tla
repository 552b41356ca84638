--------------------------- MODULE CrawlJobProofs ---------------------------
(***************************************************************************)
(* Theorems about CrawlJob, for every set of jobs, every limit and every   *)
(* budget of disturbances.                                                 *)
(***************************************************************************)
EXTENDS CrawlJob, TLAPS

(* The statements keep a row a row.                                        *)
LEMMA RowUpdates ==
  ASSUME NEW r \in Row, NEW n \in Nat
  PROVE  /\ MarkQueuedRunning(r) \in Row
         /\ MarkCompletedIfRunning(r, n) \in Row
         /\ UpdateCountsIfActive(r, n) \in Row
         /\ MarkFailedIfRunning(r) \in Row
         /\ MarkAbortedIfActive(r) \in Row
         /\ MarkFinishedAtIfAborted(r) \in Row
         /\ MarkQueued(r) \in Row
<1> USE DEF Row, Status, Where
<1>1. MarkQueuedRunning(r) \in Row
  <2>1. r.started + 1 \in Nat
    OBVIOUS
  <2> QED
    BY <2>1 DEF MarkQueuedRunning
<1>2. MarkCompletedIfRunning(r, n) \in Row
  BY DEF MarkCompletedIfRunning
<1>3. UpdateCountsIfActive(r, n) \in Row
  BY DEF UpdateCountsIfActive
<1>4. MarkFailedIfRunning(r) \in Row
  BY DEF MarkFailedIfRunning
<1>5. MarkAbortedIfActive(r) \in Row
  BY DEF MarkAbortedIfActive
<1>6. MarkFinishedAtIfAborted(r) \in Row
  BY DEF MarkFinishedAtIfAborted
<1>7. MarkQueued(r) \in Row
  BY DEF MarkQueued
<1> QED
  BY <1>1, <1>2, <1>3, <1>4, <1>5, <1>6, <1>7

LEMMA NoSliceType == NoSlice \in Slice
  BY DEF NoSlice, Slice, CrawlPhase, Event

LEMMA BecomesType ==
  ASSUME TypeOK, NEW j \in Jobs, NEW locals \in Slice, Becomes(j, locals)
  PROVE  slice' \in [Jobs -> Slice]
  BY DEF TypeOK, Becomes

LEMMA FoundType == TypeOK => Found \in Nat
  BY ConstantsAssumption DEF TypeOK, Found, ConstantsAssumption

LEMMA InitType == Init => TypeOK
<1> SUFFICES ASSUME Init PROVE TypeOK
  OBVIOUS
<1>1. row \in Row
  BY DEF Init, NewRow, Row, Status
<1>2. pc \in [Jobs -> Pc]
  BY DEF Init, Pc
<1>3. slice \in [Jobs -> Slice]
  BY NoSliceType DEF Init
<1>4. budget \in [Disturbance -> Nat]
  BY ConstantsAssumption DEF Init, ConstantsAssumption
<1> QED
  BY <1>1, <1>2, <1>3, <1>4 DEF Init, TypeOK

(* A job's control point stays one, and an ending job leaves no locals.    *)
LEMMA GotoType ==
  ASSUME TypeOK, NEW j \in Jobs, NEW label \in Pc, Goto(j, label)
  PROVE  pc' \in [Jobs -> Pc]
  BY DEF TypeOK, Goto

LEMMA EndType ==
  ASSUME TypeOK, NEW j \in Jobs, End(j)
  PROVE  /\ pc' \in [Jobs -> Pc]
         /\ slice' \in [Jobs -> Slice]
         /\ rerun' \subseteq Jobs
<1>1. pc' \in [Jobs -> Pc]
  BY DEF TypeOK, End, Goto, Pc, StartPc
<1> QED
  BY <1>1, NoSliceType, BecomesType DEF TypeOK, End

LEMMA LabelsAreControlPoints ==
  StartPc \union SlicePc \union FinishPc \union HandlerPc
    \union {"idle", "enqueue", "report", "pauseReport"} \subseteq Pc
  BY DEF Pc

LEMMA JobType ==
  ASSUME TypeOK, NEW j \in Jobs, Job(j)
  PROVE  TypeOK'
<1> USE DEF dataVars, history
<1>1. CASE CheckPaused(j)
  BY <1>1, RowUpdates, GotoType, EndType DEF TypeOK, CheckPaused, Goto, Pc, StartPc, SlicePc, FinishPc, HandlerPc
<1>2. CASE EnsureNotAborted(j)
  BY <1>2, RowUpdates, GotoType, EndType DEF TypeOK, EnsureNotAborted, Goto, Pc, StartPc, SlicePc, FinishPc, HandlerPc
<1>3. CASE Claim(j)
  BY <1>3, RowUpdates, GotoType, EndType DEF TypeOK, Claim, Goto, Pc, StartPc, SlicePc, FinishPc, HandlerPc
<1>4. CASE Recheck(j)
  BY <1>4, RowUpdates, GotoType, EndType DEF TypeOK, Recheck, Goto, Pc, StartPc, SlicePc, FinishPc, HandlerPc
<1>5. CASE FetchInputs(j)
  <2> DEFINE s == [slice[j] EXCEPT !.discovered = row.count, !.started = row.started]
  <2>1. s \in Slice
    BY DEF TypeOK, Row, Slice
  <2>2. Becomes(j, s) /\ Goto(j, "progress") /\ "progress" \in Pc
    BY <1>5 DEF FetchInputs, Pc, SlicePc
  <2>3. stale' \in BOOLEAN
    BY <1>5 DEF FetchInputs
  <2> QED
    BY <1>5, <2>1, <2>2, <2>3, BecomesType, GotoType DEF TypeOK, FetchInputs
<1>6. CASE ReadProgress(j)
  <2> DEFINE t == [slice[j] EXCEPT !.discovered = Larger(@, Found)]
             u == [slice[j] EXCEPT !.counter = Found, !.crawl = "seed"]
  <2>1. t \in Slice /\ u \in Slice
    BY FoundType DEF TypeOK, Slice, Larger, CrawlPhase
  <2>2. \/ Becomes(j, t) /\ Goto(j, "complete")
        \/ Becomes(j, u) /\ Goto(j, "wait")
    BY <1>6 DEF ReadProgress
  <2>3. "complete" \in Pc /\ "wait" \in Pc
    BY DEF Pc, SlicePc, FinishPc
  <2>4. slice' \in [Jobs -> Slice] /\ pc' \in [Jobs -> Pc]
    BY <2>1, <2>2, <2>3, BecomesType, GotoType
  <2> QED
    BY <1>6, <2>4 DEF TypeOK, ReadProgress
<1>7. CASE WaitLoop(j)
  <2> DEFINE s == [slice[j] EXCEPT !.crawl = IF @ \in Crawling THEN "cancelled" ELSE @]
  <2>1. s \in Slice
    BY DEF TypeOK, Slice, CrawlPhase
  <2>2. UNCHANGED slice \/ Becomes(j, s)
    BY <1>7 DEF WaitLoop
  <2>3. slice' \in [Jobs -> Slice]
    BY <2>1, <2>2, BecomesType DEF TypeOK
  <2>4. pc' \in [Jobs -> Pc]
    BY <1>7, GotoType DEF WaitLoop, Pc, SlicePc
  <2> QED
    BY <1>7, <2>3, <2>4 DEF TypeOK, WaitLoop
<1>8. CASE AwaitCancelled(j)
  BY <1>8, RowUpdates, GotoType, EndType DEF TypeOK, AwaitCancelled, Goto, Pc, StartPc, SlicePc, FinishPc, HandlerPc
<1>9. CASE Reap(j)
  BY <1>9, RowUpdates, GotoType, EndType DEF TypeOK, Reap, Goto, Pc, StartPc, SlicePc, FinishPc, HandlerPc
<1>10. CASE ReadSettled(j)
  <2> DEFINE s == [slice[j] EXCEPT !.more = (pending > 0 /\ Found < MaxStates)]
  <2>1. s \in Slice
    BY DEF TypeOK, Slice
  <2>2. Becomes(j, s) /\ Goto(j, "decide") /\ "decide" \in Pc
    BY <1>10 DEF ReadSettled, Pc, SlicePc
  <2> QED
    BY <1>10, <2>1, <2>2, BecomesType, GotoType DEF TypeOK, ReadSettled
<1>11. CASE Decide(j)
  BY <1>11, RowUpdates, GotoType, EndType DEF TypeOK, Decide, Goto, Pc, StartPc, SlicePc, FinishPc, HandlerPc
<1>12. CASE EnqueueContinuation(j)
  BY <1>12, RowUpdates, GotoType, EndType DEF TypeOK, EnqueueContinuation, Goto, Pc, StartPc, SlicePc, FinishPc, HandlerPc
<1>13. CASE Report(j)
  <2>1. slice[j].discovered \in Nat
    BY DEF TypeOK, Slice
  <2>2. row' \in Row
    BY <1>13, <2>1, RowUpdates DEF TypeOK, Report
  <2>3. pc' \in [Jobs -> Pc] /\ slice' \in [Jobs -> Slice] /\ rerun' \subseteq Jobs
    BY <1>13, EndType, GotoType DEF TypeOK, Report, Pc, HandlerPc
  <2> QED
    BY <1>13, <2>2, <2>3 DEF TypeOK, Report
<1>14. CASE Complete(j)
  BY <1>14, RowUpdates, GotoType, EndType DEF TypeOK, Complete, Goto, Pc, StartPc, SlicePc, FinishPc, HandlerPc
<1>15. CASE PersistFlows(j)
  <2>1. slice[j].started \in Nat
    BY DEF TypeOK, Slice
  <2>2. pc' \in [Jobs -> Pc]
    BY <1>15, GotoType DEF PersistFlows, Pc, FinishPc
  <2> QED
    BY <1>15, <2>1, <2>2 DEF TypeOK, PersistFlows
<1>16. CASE MarkCompleted(j)
  <2>1. slice[j].discovered \in Nat
    BY DEF TypeOK, Slice
  <2>2. row' \in Row
    BY <1>16, <2>1, RowUpdates DEF TypeOK, MarkCompleted
  <2>3. pc' \in [Jobs -> Pc] /\ slice' \in [Jobs -> Slice] /\ rerun' \subseteq Jobs
    BY <1>16, EndType, GotoType DEF TypeOK, MarkCompleted, Pc, HandlerPc
  <2> QED
    BY <1>16, <2>2, <2>3 DEF TypeOK, MarkCompleted
<1>17. CASE StampAborted(j)
  BY <1>17, RowUpdates, GotoType, EndType DEF TypeOK, StampAborted, Goto, Pc, StartPc, SlicePc, FinishPc, HandlerPc
<1>18. CASE HandleCancelled(j)
  BY <1>18, RowUpdates, GotoType, EndType DEF TypeOK, HandleCancelled, Goto, Pc, StartPc, SlicePc, FinishPc, HandlerPc
<1>19. CASE CancelFail(j)
  BY <1>19, RowUpdates, GotoType, EndType DEF TypeOK, CancelFail, Goto, Pc, StartPc, SlicePc, FinishPc, HandlerPc
<1>20. CASE HandleRaised(j)
  BY <1>20, RowUpdates, GotoType, EndType DEF TypeOK, HandleRaised, Goto, Pc, StartPc, SlicePc, FinishPc, HandlerPc
<1> QED
  BY <1>1, <1>2, <1>3, <1>4, <1>5, <1>6, <1>7, <1>8, <1>9, <1>10, <1>11, <1>12, <1>13, <1>14, <1>15, <1>16, <1>17, <1>18, <1>19, <1>20 DEF Job

LEMMA DiscoversType ==
  ASSUME TypeOK, NEW j \in Jobs, NEW n \in Nat, NEW phase \in CrawlPhase,
         Discovers(j, n, phase)
  PROVE  created' \in Nat /\ slice' \in [Jobs -> Slice]
<1> DEFINE s == [slice[j] EXCEPT !.crawl = phase, !.discovered = @ + n, !.counter = @ + n]
<1>1. s \in Slice
  <2>1. slice[j] \in Slice
    BY DEF TypeOK
  <2>2. slice[j].discovered + n \in Nat /\ slice[j].counter + n \in Nat
    BY <2>1 DEF Slice
  <2> QED
    BY <2>1, <2>2 DEF Slice
<1>2. Becomes(j, s)
  BY DEF Discovers
<1> QED
  BY <1>1, <1>2, BecomesType DEF TypeOK, Discovers

LEMMA CrawlMovesType ==
  ASSUME TypeOK, NEW j \in Jobs, NEW phase \in CrawlPhase, CrawlMoves(j, phase)
  PROVE  slice' \in [Jobs -> Slice]
<1>1. [slice[j] EXCEPT !.crawl = phase] \in Slice
  BY DEF TypeOK, Slice
<1> QED
  BY <1>1, BecomesType DEF CrawlMoves

LEMMA CrawlType ==
  ASSUME TypeOK, NEW j \in Jobs, Crawl(j)
  PROVE  TypeOK'
<1> USE DEF dataVars, history
<1>0. {"ready", "busy", "yielding", "done"} \subseteq CrawlPhase
  BY DEF CrawlPhase
<1>1. CASE Seed(j)
  <2>1. PICK n \in {0, 1} : Discovers(j, n, "ready")
                            /\ pending' = pending + (IF seeded THEN n ELSE 1)
    BY <1>1 DEF Seed
  <2> QED
    BY <1>0, <1>1, <2>1, DiscoversType DEF TypeOK, Seed
<1>2. CASE ClaimState(j)
  <2>1. pending' \in Nat
    BY <1>2 DEF TypeOK, ClaimState
  <2>2. slice' \in [Jobs -> Slice]
    BY <1>0, <1>2, CrawlMovesType DEF ClaimState
  <2> QED
    BY <1>2, <2>1, <2>2 DEF TypeOK, ClaimState
<1>3. CASE FinishState(j)
  <2>1. PICK n \in 0 .. 1 : Discovers(j, n, "yielding") /\ pending' = pending + n
    BY <1>3 DEF FinishState
  <2> QED
    BY <1>0, <1>3, <2>1, DiscoversType DEF TypeOK, FinishState
<1>4. CASE CrawlEnds(j)
  <2>1. slice' \in [Jobs -> Slice]
    BY <1>0, <1>4, CrawlMovesType DEF CrawlEnds
  <2> QED
    BY <1>4, <2>1 DEF TypeOK, CrawlEnds
<1> QED
  BY <1>1, <1>2, <1>3, <1>4 DEF Crawl

LEMMA EventType ==
  ASSUME TypeOK, NEW j \in Jobs, NEW e \in Event,
         Becomes(j, [slice[j] EXCEPT !.event = e])
  PROVE  slice' \in [Jobs -> Slice]
<1>1. [slice[j] EXCEPT !.event = e] \in Slice
  BY DEF TypeOK, Slice
<1> QED
  BY <1>1, BecomesType

LEMMA PollType ==
  ASSUME TypeOK, NEW j \in Jobs, Poll(j)
  PROVE  TypeOK'
<1>1. {"abort", "pause"} \subseteq Event
  BY DEF Event
<1>2. slice' \in [Jobs -> Slice]
  BY <1>1, EventType DEF Poll
<1> QED
  BY <1>2 DEF TypeOK, Poll, dataVars, history

LEMMA DisturbType ==
  ASSUME TypeOK, NEW d \in Disturbance, Disturb(d)
  PROVE  budget' \in [Disturbance -> Nat]
  BY DEF TypeOK, Disturb

LEMMA FailureType ==
  ASSUME TypeOK, NEW j \in Jobs, Failure(j)
  PROVE  TypeOK'
<1> USE DEF dataVars, history
<1>0. {"cancel", "crash", "fault"} \subseteq Disturbance
  BY DEF Disturbance
<1>1. CASE CancelJob(j)
  <2>1. budget' \in [Disturbance -> Nat] /\ slice' \in [Jobs -> Slice]
    BY <1>0, <1>1, DisturbType, BecomesType, NoSliceType DEF CancelJob
  <2>2. pc' \in [Jobs -> Pc]
    BY <1>1, GotoType DEF CancelJob, Pc, HandlerPc
  <2>3. orphan' \subseteq Nat
    <3>1. slice[j].counter \in Nat
      BY DEF TypeOK, Slice
    <3>2. orphan' \in {orphan, orphan \union {slice[j].counter}}
      BY <1>1 DEF CancelJob
    <3> QED
      BY <3>1, <3>2 DEF TypeOK
  <2>4. rerun' \subseteq Jobs
    BY <1>1 DEF CancelJob, TypeOK
  <2>5. doubled' \in BOOLEAN
    BY <1>1 DEF CancelJob, AfterHandOver
  <2> QED
    BY <1>1, <2>1, <2>2, <2>3, <2>4, <2>5 DEF TypeOK, CancelJob
<1>2. CASE Crash(j)
  <2>1. budget' \in [Disturbance -> Nat] /\ slice' \in [Jobs -> Slice]
    BY <1>0, <1>2, DisturbType, BecomesType, NoSliceType DEF Crash
  <2>2. pc' \in [Jobs -> Pc]
    BY <1>2, GotoType DEF Crash, Pc, StartPc
  <2>3. doubled' \in BOOLEAN
    BY <1>2 DEF Crash, AfterHandOver
  <2> QED
    BY <1>2, <2>1, <2>2, <2>3 DEF TypeOK, Crash
<1>3. CASE Raise(j)
  <2>1. budget' \in [Disturbance -> Nat]
    BY <1>0, <1>3, DisturbType DEF Raise
  <2>2. pc' \in [Jobs -> Pc]
    BY <1>3, GotoType DEF Raise, Pc, HandlerPc
  <2>3. doubled' \in BOOLEAN
    BY <1>3 DEF Raise, AfterHandOver
  <2> QED
    BY <1>3, <2>1, <2>2, <2>3 DEF TypeOK, Raise
<1>4. CASE CrawlFails(j)
  <2>1. budget' \in [Disturbance -> Nat]
    BY <1>0, <1>4, DisturbType DEF CrawlFails
  <2>2. slice' \in [Jobs -> Slice]
    BY <1>4, CrawlMovesType DEF CrawlFails, CrawlPhase
  <2> QED
    BY <1>4, <2>1, <2>2 DEF TypeOK, CrawlFails
<1>5. CASE PollerDies(j)
  <2>1. budget' \in [Disturbance -> Nat]
    BY <1>0, <1>5, DisturbType DEF PollerDies
  <2>2. slice' \in [Jobs -> Slice]
    BY <1>5, EventType DEF PollerDies, Event
  <2> QED
    BY <1>5, <2>1, <2>2 DEF TypeOK, PollerDies
<1>6. CASE RaiseUnhandled(j)
  <2>1. budget' \in [Disturbance -> Nat]
    BY <1>0, <1>6, DisturbType DEF RaiseUnhandled
  <2> QED
    BY <1>6, <2>1, EndType DEF TypeOK, RaiseUnhandled
<1> QED
  BY <1>1, <1>2, <1>3, <1>4, <1>5, <1>6 DEF Failure

LEMMA OrphanType ==
  ASSUME TypeOK, OrphanExplores \/ OrphanEnds
  PROVE  TypeOK'
<1>1. CASE OrphanExplores
  <2>1. PICK c \in orphan, n \in 0 .. 1 :
          /\ pending > 0
          /\ orphan' = (orphan \ {c}) \union {c + n}
          /\ created' = created + n
          /\ pending' = pending - 1 + n
    BY <1>1 DEF OrphanExplores
  <2>2. c + n \in Nat /\ created' \in Nat /\ pending' \in Nat
    BY <2>1 DEF TypeOK
  <2>3. orphan' \subseteq Nat
    BY <2>1, <2>2 DEF TypeOK
  <2> QED
    <3>1. UNCHANGED <<row, seeded, flowsOf, pc, slice, rerun, requested, budget, history>>
      BY <1>1 DEF OrphanExplores
    <3> QED
      BY <2>2, <2>3, <3>1 DEF TypeOK, history
<1>2. CASE OrphanEnds
  BY <1>2 DEF TypeOK, OrphanEnds, dataVars, history
<1> QED
  BY <1>1, <1>2

LEMMA ApiType ==
  ASSUME TypeOK, Api
  PROVE  TypeOK'
<1> USE DEF dataVars, jobVars, history
<1>0. {"request", "pause", "abort"} \subseteq Disturbance
  BY DEF Disturbance
<1>1. CASE RequestCrawl
  BY <1>0, <1>1, DisturbType, RowUpdates DEF TypeOK, RequestCrawl
<1>2. CASE EnqueueRequested
  <2>1. Main \in Jobs
    BY ConstantsAssumption DEF ConstantsAssumption
  <2>2. pc' \in [Jobs -> Pc]
    BY <1>2, <2>1, GotoType DEF TypeOK, EnqueueRequested, Pc, StartPc
  <2>3. doubled' \in BOOLEAN
    BY <1>2 DEF TypeOK, EnqueueRequested
  <2> QED
    BY <1>2, <2>2, <2>3 DEF TypeOK, EnqueueRequested
<1>3. CASE PauseSession
  <2>1. row' \in Row
    BY <1>3 DEF TypeOK, PauseSession, Row, Status
  <2> QED
    BY <1>0, <1>3, <2>1, DisturbType DEF TypeOK, PauseSession
<1>4. CASE ResumeSession
  <2>1. row' \in Row
    BY <1>4 DEF TypeOK, ResumeSession, Row, Status
  <2>2. pc' \in [Jobs -> Pc]
    BY <1>4, GotoType DEF ResumeSession, Pc, StartPc
  <2>3. doubled' \in BOOLEAN
    BY <1>4 DEF ResumeSession
  <2> QED
    BY <1>4, <2>1, <2>2, <2>3 DEF TypeOK, ResumeSession
<1>5. CASE AbortSession
  <2>1. row' \in Row
    <3>1. [row EXCEPT !.status = "ABORTED"] \in Row
      BY DEF TypeOK, Row, Status
    <3> QED
      BY <1>5, <3>1, RowUpdates DEF TypeOK, AbortSession
  <2> QED
    BY <1>0, <1>5, <2>1, DisturbType DEF TypeOK, AbortSession
<1> QED
  BY <1>1, <1>2, <1>3, <1>4, <1>5 DEF Api

LEMMA StepType == TypeOK /\ [Next]_vars => TypeOK'
<1> SUFFICES ASSUME TypeOK, [Next]_vars PROVE TypeOK'
  OBVIOUS
<1>1. CASE UNCHANGED vars
  BY <1>1 DEF TypeOK, vars, dataVars, jobVars, history
<1>2. CASE Next
  BY <1>2, JobType, CrawlType, PollType, FailureType, OrphanType, ApiType DEF Next
<1> QED
  BY <1>1, <1>2

(* Every variable keeps its type, whatever the constants are.              *)
THEOREM TypeCorrect == Spec => []TypeOK
<1>1. Init => TypeOK
  BY InitType
<1>2. TypeOK /\ [Next]_vars => TypeOK'
  BY StepType
<1> QED
  BY <1>1, <1>2, PTL DEF Spec

-----------------------------------------------------------------------------
(* A session that runs is driven.  RunningIsDriven is inductive: a job     *)
(* stops being responsible only in a step that also takes the row out of   *)
(* RUNNING, or that finds it out of RUNNING, or that hands over.           *)

Untouched(i) == pc'[i] = pc[i] /\ slice'[i] = slice[i]

(* What RunningIsDriven needs to be inductive: a job that has not created  *)
(* its poller has been told nothing.                                       *)
NotToldYet ==
  \A j \in Jobs : pc[j] \in StartPc \union {"idle", "inputs", "progress"} =>
                    slice[j].event = "none"

LEMMA InitNotToldYet == Init => NotToldYet
  BY DEF Init, NotToldYet, NoSlice

LEMMA StaysResponsible ==
  ASSUME NEW i \in Jobs, Responsible(i), Untouched(i)
  PROVE  Responsible(i)'
  BY DEF Untouched, Responsible, StopRequested

(* When the acting job was not needed, whoever drove the session does.     *)
LEMMA AnotherDrives ==
  ASSUME RunningIsDriven, row.status = "RUNNING", ~dropped,
         NEW j \in Jobs, ~Responsible(j), \A i \in Jobs \ {j} : Responsible(i) => Untouched(i)
  PROVE  \E i \in Jobs : Responsible(i)'
<1>1. PICK i \in Jobs : Responsible(i)
  BY DEF RunningIsDriven
<1> QED
  BY <1>1, StaysResponsible

(* A step of a job, of its crawl task or its poller, or a failure of these. *)
Step(j) == Job(j) \/ Crawl(j) \/ Poll(j) \/ Failure(j)

(* Every other job stays as it is; only a continuation comes to life.      *)
LEMMA Elsewhere ==
  ASSUME TypeOK, NEW j \in Jobs, NEW i \in Jobs, i # j, Step(j)
  PROVE  /\ slice'[i] = slice[i]
         /\ \/ pc'[i] = pc[i]
            \/ EnqueueContinuation(j) /\ pc[i] = "idle" /\ pc'[i] = "queued"
<1> USE DEF TypeOK, Goto, Becomes, End
<1>1. CASE CheckPaused(j)
  BY <1>1 DEF CheckPaused
<1>2. CASE EnsureNotAborted(j)
  BY <1>2 DEF EnsureNotAborted
<1>3. CASE Claim(j)
  BY <1>3 DEF Claim
<1>4. CASE Recheck(j)
  BY <1>4 DEF Recheck
<1>5. CASE FetchInputs(j)
  BY <1>5 DEF FetchInputs
<1>6. CASE ReadProgress(j)
  BY <1>6 DEF ReadProgress
<1>7. CASE WaitLoop(j)
  BY <1>7 DEF WaitLoop
<1>8. CASE AwaitCancelled(j)
  BY <1>8 DEF AwaitCancelled
<1>9. CASE Reap(j)
  BY <1>9 DEF Reap
<1>10. CASE ReadSettled(j)
  BY <1>10 DEF ReadSettled
<1>11. CASE Decide(j)
  BY <1>11 DEF Decide
<1>12. CASE EnqueueContinuation(j)
  BY <1>12 DEF EnqueueContinuation, Live
<1>13. CASE Report(j)
  BY <1>13 DEF Report
<1>14. CASE Complete(j)
  BY <1>14 DEF Complete
<1>15. CASE PersistFlows(j)
  BY <1>15 DEF PersistFlows
<1>16. CASE MarkCompleted(j)
  BY <1>16 DEF MarkCompleted
<1>17. CASE StampAborted(j)
  BY <1>17 DEF StampAborted
<1>18. CASE HandleCancelled(j)
  BY <1>18 DEF HandleCancelled
<1>19. CASE CancelFail(j)
  BY <1>19 DEF CancelFail
<1>20. CASE HandleRaised(j)
  BY <1>20 DEF HandleRaised
<1>21. CASE Seed(j)
  BY <1>21 DEF Seed, Discovers
<1>22. CASE ClaimState(j)
  BY <1>22 DEF ClaimState, CrawlMoves
<1>23. CASE FinishState(j)
  BY <1>23 DEF FinishState, Discovers
<1>24. CASE CrawlEnds(j)
  BY <1>24 DEF CrawlEnds, CrawlMoves
<1>25. CASE Poll(j)
  BY <1>25 DEF Poll, PollerListens
<1>26. CASE CancelJob(j)
  BY <1>26 DEF CancelJob
<1>27. CASE Crash(j)
  BY <1>27 DEF Crash
<1>28. CASE Raise(j)
  BY <1>28 DEF Raise
<1>29. CASE CrawlFails(j)
  BY <1>29 DEF CrawlFails, CrawlMoves
<1>30. CASE PollerDies(j)
  BY <1>30 DEF PollerDies, PollerListens
<1>31. CASE RaiseUnhandled(j)
  BY <1>31 DEF RaiseUnhandled
<1> QED
  BY <1>1, <1>2, <1>3, <1>4, <1>5, <1>6, <1>7, <1>8, <1>9, <1>10, <1>11,
     <1>12, <1>13, <1>14, <1>15, <1>16, <1>17, <1>18, <1>19, <1>20, <1>21,
     <1>22, <1>23, <1>24, <1>25, <1>26, <1>27, <1>28, <1>29, <1>30, <1>31 DEF
     Step, Job, Crawl, Failure

LEMMA OthersUntouched ==
  ASSUME TypeOK, NEW j \in Jobs, NEW i \in Jobs, i # j, Step(j), Responsible(i)
  PROVE  Untouched(i)
<1>1. pc[i] # "idle"
  BY DEF Responsible, StartPc, TryPc, FinishPc
<1> QED
  BY <1>1, Elsewhere DEF Untouched

(* The acting job still drives the session, or it did not before.          *)
LEMMA HandsOnOrDrives ==
  ASSUME TypeOK, NotToldYet, NEW j \in Jobs,
         Step(j),
         row'.status = "RUNNING", ~dropped'
  PROVE  \/ \E i \in Jobs : Responsible(i)'
         \/ row.status = "RUNNING" /\ ~dropped /\ ~Responsible(j)
<1> USE DEF TypeOK, Responsible, StopRequested, StartPc, TryPc, FinishPc, HandlerPc,
            Goto, Becomes, End, history, dataVars
<1>1. CASE CheckPaused(j)
  BY <1>1 DEF CheckPaused
<1>2. CASE EnsureNotAborted(j)
  BY <1>2 DEF EnsureNotAborted
<1>3. CASE Claim(j)
  BY <1>3 DEF Claim, MarkQueuedRunning, Where
<1>4. CASE Recheck(j)
  BY <1>4 DEF Recheck, Active
<1>5. CASE FetchInputs(j)
  BY <1>5 DEF FetchInputs
<1>6. CASE ReadProgress(j)
  <2>1. slice[j].event = "none"
    BY <1>6 DEF ReadProgress, NotToldYet
  <2>2. slice'[j].event = slice[j].event
    <3>1. slice \in [Jobs -> Slice] /\ slice[j] \in Slice
      OBVIOUS
    <3>2. \/ \E d : Becomes(j, [slice[j] EXCEPT !.discovered = d])
          \/ Becomes(j, [slice[j] EXCEPT !.counter = Found, !.crawl = "seed"])
      BY <1>6 DEF ReadProgress
    <3> HIDE DEF TypeOK
    <3>3. CASE \E d : Becomes(j, [slice[j] EXCEPT !.discovered = d])
      BY <3>1, <3>3 DEF Slice
    <3>4. CASE Becomes(j, [slice[j] EXCEPT !.counter = Found, !.crawl = "seed"])
      BY <3>1, <3>4 DEF Slice
    <3> QED
      BY <3>2, <3>3, <3>4
  <2>3. pc'[j] \in {"complete", "wait"}
    BY <1>6 DEF ReadProgress
  <2> QED
    BY <2>1, <2>2, <2>3
<1>7. CASE WaitLoop(j)
  BY <1>7 DEF WaitLoop
<1>8. CASE AwaitCancelled(j)
  BY <1>8 DEF AwaitCancelled
<1>9. CASE Reap(j)
  BY <1>9 DEF Reap
<1>10. CASE ReadSettled(j)
  BY <1>10 DEF ReadSettled
<1>11. CASE Decide(j)
  BY <1>11 DEF Decide
<1>12. CASE EnqueueContinuation(j)
  <2>1. PICK k \in Jobs \ {Main} : pc' = [pc EXCEPT ![j] = "report", ![k] = "queued"]
    BY <1>12 DEF EnqueueContinuation
  <2>2. pc'[k] = "queued"
    BY <2>1
  <2>3. Responsible(k)'
    BY <2>2
  <2> QED
    BY <2>3
<1>13. CASE Report(j)
  BY <1>13 DEF Report, UpdateCountsIfActive, Where
<1>14. CASE Complete(j)
  BY <1>14 DEF Complete
<1>15. CASE PersistFlows(j)
  BY <1>15 DEF PersistFlows
<1>16. CASE MarkCompleted(j)
  BY <1>16 DEF MarkCompleted, MarkCompletedIfRunning, Where, Active
<1>17. CASE StampAborted(j)
  BY <1>17 DEF StampAborted, MarkFinishedAtIfAborted, Where
<1>18. CASE HandleCancelled(j)
  BY <1>18 DEF HandleCancelled
<1>19. CASE CancelFail(j)
  BY <1>19 DEF CancelFail, MarkFailedIfRunning, Where, Active
<1>20. CASE HandleRaised(j)
  BY <1>20 DEF HandleRaised, MarkFailedIfRunning, Where, Active
<1>21. CASE Seed(j)
  BY <1>21 DEF Seed, Discovers
<1>22. CASE ClaimState(j)
  BY <1>22 DEF ClaimState, CrawlMoves
<1>23. CASE FinishState(j)
  BY <1>23 DEF FinishState, Discovers
<1>24. CASE CrawlEnds(j)
  BY <1>24 DEF CrawlEnds, CrawlMoves
<1>25. CASE Poll(j)
  BY <1>25 DEF Poll, PollerListens
<1>26. CASE CancelJob(j)
  BY <1>26 DEF CancelJob
<1>27. CASE Crash(j)
  BY <1>27 DEF Crash
<1>28. CASE Raise(j)
  BY <1>28 DEF Raise
<1>29. CASE CrawlFails(j)
  BY <1>29 DEF CrawlFails, CrawlMoves
<1>30. CASE PollerDies(j)
  BY <1>30 DEF PollerDies, PollerListens
<1>31. CASE RaiseUnhandled(j)
  BY <1>31 DEF RaiseUnhandled
<1> QED
  BY <1>1, <1>2, <1>3, <1>4, <1>5, <1>6, <1>7, <1>8, <1>9, <1>10, <1>11, <1>12, <1>13, <1>14, <1>15, <1>16, <1>17, <1>18, <1>19, <1>20, <1>21, <1>22, <1>23, <1>24, <1>25, <1>26, <1>27, <1>28, <1>29, <1>30, <1>31 DEF Step, Job, Crawl, Failure

LEMMA NotToldYetKept ==
  ASSUME TypeOK, NotToldYet, NEW j \in Jobs,
         Step(j)
  PROVE  NotToldYet'
<1> USE DEF TypeOK, NotToldYet, NoSlice, StartPc, TryPc, FinishPc, HandlerPc,
            Goto, Becomes, End
<1>1. CASE CheckPaused(j)
  BY <1>1 DEF CheckPaused
<1>2. CASE EnsureNotAborted(j)
  BY <1>2 DEF EnsureNotAborted
<1>3. CASE Claim(j)
  BY <1>3 DEF Claim
<1>4. CASE Recheck(j)
  BY <1>4 DEF Recheck
<1>5. CASE FetchInputs(j)
  BY <1>5 DEF FetchInputs
<1>6. CASE ReadProgress(j)
  BY <1>6 DEF ReadProgress
<1>7. CASE WaitLoop(j)
  BY <1>7 DEF WaitLoop
<1>8. CASE AwaitCancelled(j)
  BY <1>8 DEF AwaitCancelled
<1>9. CASE Reap(j)
  BY <1>9 DEF Reap
<1>10. CASE ReadSettled(j)
  BY <1>10 DEF ReadSettled
<1>11. CASE Decide(j)
  BY <1>11 DEF Decide
<1>12. CASE EnqueueContinuation(j)
  BY <1>12 DEF EnqueueContinuation, Live
<1>13. CASE Report(j)
  BY <1>13 DEF Report
<1>14. CASE Complete(j)
  BY <1>14 DEF Complete
<1>15. CASE PersistFlows(j)
  BY <1>15 DEF PersistFlows
<1>16. CASE MarkCompleted(j)
  BY <1>16 DEF MarkCompleted
<1>17. CASE StampAborted(j)
  BY <1>17 DEF StampAborted
<1>18. CASE HandleCancelled(j)
  BY <1>18 DEF HandleCancelled
<1>19. CASE CancelFail(j)
  BY <1>19 DEF CancelFail
<1>20. CASE HandleRaised(j)
  BY <1>20 DEF HandleRaised
<1>21. CASE Seed(j)
  BY <1>21 DEF Seed, Discovers
<1>22. CASE ClaimState(j)
  BY <1>22 DEF ClaimState, CrawlMoves
<1>23. CASE FinishState(j)
  BY <1>23 DEF FinishState, Discovers
<1>24. CASE CrawlEnds(j)
  BY <1>24 DEF CrawlEnds, CrawlMoves
<1>25. CASE Poll(j)
  BY <1>25 DEF Poll, PollerListens
<1>26. CASE CancelJob(j)
  BY <1>26 DEF CancelJob
<1>27. CASE Crash(j)
  BY <1>27 DEF Crash
<1>28. CASE Raise(j)
  BY <1>28 DEF Raise
<1>29. CASE CrawlFails(j)
  BY <1>29 DEF CrawlFails, CrawlMoves
<1>30. CASE PollerDies(j)
  BY <1>30 DEF PollerDies, PollerListens
<1>31. CASE RaiseUnhandled(j)
  BY <1>31 DEF RaiseUnhandled
<1> QED
  BY <1>1, <1>2, <1>3, <1>4, <1>5, <1>6, <1>7, <1>8, <1>9, <1>10, <1>11, <1>12, <1>13, <1>14, <1>15, <1>16, <1>17, <1>18, <1>19, <1>20, <1>21, <1>22, <1>23, <1>24, <1>25, <1>26, <1>27, <1>28, <1>29, <1>30, <1>31 DEF Step, Job, Crawl, Failure

Driven == TypeOK /\ NotToldYet /\ RunningIsDriven

LEMMA InitDriven == Init => Driven
<1>1. Init => RunningIsDriven
  BY DEF Init, RunningIsDriven, NewRow
<1> QED
  BY <1>1, InitType, InitNotToldYet DEF Driven

LEMMA JobStepDriven ==
  ASSUME Driven, NEW j \in Jobs,
         Step(j)
  PROVE  RunningIsDriven'
<1> SUFFICES ASSUME row'.status = "RUNNING", ~dropped'
             PROVE  \E i \in Jobs : Responsible(i)'
  BY DEF RunningIsDriven
<1>1. CASE row.status = "RUNNING" /\ ~dropped /\ ~Responsible(j)
  <2>1. \A i \in Jobs \ {j} : Responsible(i) => Untouched(i)
    BY OthersUntouched DEF Driven
  <2> QED
    BY <1>1, <2>1, AnotherDrives DEF Driven
<1> QED
  BY <1>1, HandsOnOrDrives DEF Driven

(* A step that lets every job be, and does not start the session, keeps    *)
(* its driver.                                                             *)
LEMMA BystanderDriven ==
  ASSUME Driven, UNCHANGED slice,
         \A i \in Jobs : pc'[i] = pc[i] \/ pc'[i] = "queued",
         row'.status = "RUNNING" => \/ row.status = "RUNNING"
                                   \/ \E i \in Jobs : pc[i] = "idle" /\ pc'[i] = "queued",
         dropped' = dropped
  PROVE  RunningIsDriven'
<1> SUFFICES ASSUME row'.status = "RUNNING", ~dropped'
             PROVE  \E i \in Jobs : Responsible(i)'
  BY DEF RunningIsDriven
<1>1. ASSUME NEW i \in Jobs, pc'[i] = "queued" PROVE Responsible(i)'
  BY <1>1 DEF Responsible, StartPc
<1>2. CASE row.status = "RUNNING"
  <2>1. PICK i \in Jobs : Responsible(i)
    BY <1>2 DEF Driven, RunningIsDriven
  <2>2. CASE pc'[i] = pc[i]
    BY <2>1, <2>2, StaysResponsible DEF Untouched
  <2> QED
    BY <1>1, <2>2
<1> QED
  BY <1>1, <1>2

LEMMA StepDriven == Driven /\ [Next]_vars => Driven'
<1> SUFFICES ASSUME Driven, [Next]_vars PROVE NotToldYet' /\ RunningIsDriven'
  BY StepType DEF Driven
<1> USE DEF dataVars, jobVars, history
<1>1. CASE \E j \in Jobs : Job(j) \/ Crawl(j) \/ Poll(j) \/ Failure(j)
  BY <1>1, NotToldYetKept, JobStepDriven DEF Driven, Step
<1>2. CASE OrphanExplores \/ OrphanEnds
  <2>1. UNCHANGED <<row, pc, slice, dropped>>
    BY <1>2 DEF OrphanExplores, OrphanEnds
  <2> QED
    BY <2>1, BystanderDriven DEF Driven, NotToldYet
<1>3. CASE Api
  <2>1. UNCHANGED <<slice, dropped>>
    BY <1>3 DEF Api, RequestCrawl, EnqueueRequested, PauseSession, ResumeSession, AbortSession
  <2>2. \A i \in Jobs : pc'[i] = pc[i] \/ (pc[i] = "idle" /\ pc'[i] = "queued")
    BY <1>3 DEF Driven, TypeOK, Api, RequestCrawl, EnqueueRequested, PauseSession,
                ResumeSession, AbortSession, Goto, Live
  <2>3. row'.status = "RUNNING" => \/ row.status = "RUNNING"
                                  \/ \E i \in Jobs : pc[i] = "idle" /\ pc'[i] = "queued"
    <3>1. CASE RequestCrawl
      BY <3>1 DEF RequestCrawl, MarkQueued, Where, Driven, TypeOK, Row
    <3>2. CASE EnqueueRequested
      BY <3>2 DEF EnqueueRequested
    <3>3. CASE PauseSession
      BY <3>3 DEF PauseSession
    <3>4. CASE ResumeSession
      <4>1. PICK k \in Jobs : ~Live(k) /\ Goto(k, "queued")
        BY <3>4 DEF ResumeSession
      <4> QED
        BY <4>1 DEF Goto, Live, Driven, TypeOK
    <3>5. CASE AbortSession
      BY <3>5 DEF AbortSession, MarkAbortedIfActive, Where, Driven, TypeOK, Row
    <3> QED
      BY <1>3, <3>1, <3>2, <3>3, <3>4, <3>5 DEF Api
  <2>4. RunningIsDriven'
    BY <2>1, <2>2, <2>3, BystanderDriven
  <2>5. NotToldYet'
    BY <2>1, <2>2 DEF Driven, NotToldYet
  <2> QED
    BY <2>4, <2>5
<1>4. CASE UNCHANGED vars
  <2>1. UNCHANGED <<row, pc, slice, dropped>>
    BY <1>4 DEF vars
  <2> QED
    BY <2>1, BystanderDriven DEF Driven, NotToldYet
<1> QED
  BY <1>1, <1>2, <1>3, <1>4 DEF Next

(* No session is forgotten: while its row says RUNNING and no exception    *)
(* has escaped, some job is there to finish it.                            *)
THEOREM RunningSessionsAreDriven == Spec => []RunningIsDriven
<1>1. Driven => RunningIsDriven
  BY DEF Driven
<1> QED
  BY <1>1, InitDriven, StepDriven, PTL DEF Spec
-----------------------------------------------------------------------------
(* The refinement.  Whoever changes the row does so by one of the          *)
(* statements of CrawlRow, or is the API; each is a step of SessionStatus. *)

ByStatement(n) ==
  \/ row' = MarkQueuedRunning(row)
  \/ row' = MarkCompletedIfRunning(row, n)
  \/ row' = UpdateCountsIfActive(row, n)
  \/ row' = MarkFailedIfRunning(row)
  \/ row' = MarkAbortedIfActive(row)
  \/ row' = MarkFinishedAtIfAborted(row)
  \/ row' = MarkQueued(row)

ByTheApi ==
  \/ row.status = "RUNNING" /\ row' = [row EXCEPT !.status = "PAUSED"]
  \/ row.status = "PAUSED" /\ \E s \in {"RUNNING", "QUEUED"} : row' = [row EXCEPT !.status = s]
  \/ /\ row.status \in {"NEW", "QUEUED"} \union Active
     /\ row' = [row EXCEPT !.status = "ABORTED"]

LEMMA StatementsAreLife ==
  ASSUME row \in Row, NEW n \in Nat, ByStatement(n)
  PROVE  [Life!Next]_(Life!sessionVars)
<1> USE DEF Where, Active, Row, Life!Next, Life!sessionVars, Life!Open
<1>1. CASE row' = MarkQueuedRunning(row)
  BY <1>1 DEF MarkQueuedRunning, Life!Start
<1>2. CASE row' = MarkCompletedIfRunning(row, n)
  BY <1>2 DEF MarkCompletedIfRunning, Life!Complete
<1>3. CASE row' = UpdateCountsIfActive(row, n)
  BY <1>3 DEF UpdateCountsIfActive, Life!Report
<1>4. CASE row' = MarkFailedIfRunning(row)
  BY <1>4 DEF MarkFailedIfRunning, Life!Fail
<1>5. CASE row' = MarkAbortedIfActive(row)
  BY <1>5 DEF MarkAbortedIfActive, Life!Abort
<1>6. CASE row' = MarkFinishedAtIfAborted(row)
  BY <1>6 DEF MarkFinishedAtIfAborted, Life!StampAborted
<1>7. CASE row' = MarkQueued(row)
  BY <1>7 DEF MarkQueued, Life!Submit
<1> QED
  BY <1>1, <1>2, <1>3, <1>4, <1>5, <1>6, <1>7 DEF ByStatement

LEMMA ApiIsLife ==
  ASSUME row \in Row, ByTheApi
  PROVE  [Life!Next]_(Life!sessionVars)
<1> USE DEF Active, Row, Life!Next, Life!sessionVars, Life!Open
<1>1. CASE row.status = "RUNNING" /\ row' = [row EXCEPT !.status = "PAUSED"]
  BY <1>1 DEF Life!Pause
<1>2. CASE /\ row.status = "PAUSED"
           /\ \E s \in {"RUNNING", "QUEUED"} : row' = [row EXCEPT !.status = s]
  BY <1>2 DEF Life!Resume
<1>3. CASE /\ row.status \in {"NEW", "QUEUED"} \union Active
           /\ row' = [row EXCEPT !.status = "ABORTED"]
  BY <1>3 DEF Life!Abort
<1> QED
  BY <1>1, <1>2, <1>3 DEF ByTheApi

LEMMA RowChanges ==
  ASSUME TypeOK, [Next]_vars
  PROVE  UNCHANGED row \/ ByTheApi \/ \E n \in Nat : ByStatement(n)
<1>1. ASSUME NEW j \in Jobs, Job(j)
      PROVE  UNCHANGED row \/ \E n \in Nat : ByStatement(n)
  <2>1. slice[j].discovered \in Nat
    BY DEF TypeOK, Slice
  <2>2. UNCHANGED row \/ ByStatement(slice[j].discovered)
    BY <1>1 DEF ByStatement, Job, CheckPaused, EnsureNotAborted, Claim, Recheck,
       FetchInputs, ReadProgress, WaitLoop, AwaitCancelled, Reap, ReadSettled,
       Decide, EnqueueContinuation, Report, Complete, PersistFlows, MarkCompleted,
       StampAborted, HandleCancelled, CancelFail, HandleRaised
  <2> QED
    BY <2>1, <2>2
<1>2. ASSUME NEW j \in Jobs, Crawl(j) \/ Poll(j) \/ Failure(j)
      PROVE  UNCHANGED row
  BY <1>2 DEF Crawl, Seed, ClaimState, FinishState, CrawlEnds, Poll, Failure, CancelJob,
     Crash, Raise, CrawlFails, PollerDies, RaiseUnhandled
<1>3. ASSUME OrphanExplores \/ OrphanEnds
      PROVE  UNCHANGED row
  BY <1>3 DEF OrphanExplores, OrphanEnds
<1>4. ASSUME Api
      PROVE  UNCHANGED row \/ ByTheApi \/ ByStatement(0)
  BY <1>4 DEF Api, RequestCrawl, EnqueueRequested, PauseSession, ResumeSession,
     AbortSession, ByTheApi, ByStatement
<1>5. ASSUME UNCHANGED vars
      PROVE  UNCHANGED row
  BY <1>5 DEF vars
<1> QED
  BY <1>1, <1>2, <1>3, <1>4, <1>5 DEF Next

(* What the jobs, the API and the failures do to the row, in whatever      *)
(* order, is the life of a session that SessionStatus promises to its      *)
(* readers: nothing leaves a final status except a new submission, the     *)
(* finish time is set with it, and no other write gets through.            *)
THEOREM JobsImplementTheLife == Spec => LifeSpec
<1>1. Init => Life!Init
  BY DEF Init, NewRow, Life!Init
<1>2. TypeOK /\ [Next]_vars => [Life!Next]_(Life!sessionVars)
  <2> SUFFICES ASSUME TypeOK, [Next]_vars
               PROVE  [Life!Next]_(Life!sessionVars)
    OBVIOUS
  <2>1. row \in Row
    BY DEF TypeOK
  <2>2. CASE UNCHANGED row
    BY <2>2 DEF Life!sessionVars
  <2> QED
    BY <2>1, <2>2, RowChanges, StatementsAreLife, ApiIsLife
<1> QED
  BY <1>1, <1>2, TypeCorrect, PTL DEF Spec, LifeSpec, Life!Spec

-----------------------------------------------------------------------------
(* One driver at a time.  What is said here of one step of a job is used   *)
(* by all the proofs below.                                                *)

(* Shared state that only some of a job's steps touch.                     *)
LEMMA SharedChanges ==
  ASSUME TypeOK, NEW j \in Jobs, Step(j)
  PROVE  /\ doubled => doubled'
         /\ stale' = stale \/ FetchInputs(j)
         /\ stale => stale'
         /\ flowsOf' = flowsOf \/ PersistFlows(j)
         /\ orphan' = orphan \/ (CancelJob(j) /\ pc[j] = "wait")
         /\ created' = created \/ Seed(j) \/ FinishState(j)
         /\ \/ UNCHANGED row
            \/ Claim(j) \/ Report(j) \/ MarkCompleted(j)
            \/ StampAborted(j) \/ CancelFail(j) \/ HandleRaised(j)
<1> USE DEF dataVars, history, AfterHandOver
<1>1. CASE CheckPaused(j)
  BY <1>1 DEF CheckPaused
<1>2. CASE EnsureNotAborted(j)
  BY <1>2 DEF EnsureNotAborted
<1>3. CASE Claim(j)
  BY <1>3 DEF Claim
<1>4. CASE Recheck(j)
  BY <1>4 DEF Recheck
<1>5. CASE FetchInputs(j)
  BY <1>5 DEF FetchInputs
<1>6. CASE ReadProgress(j)
  BY <1>6 DEF ReadProgress
<1>7. CASE WaitLoop(j)
  BY <1>7 DEF WaitLoop
<1>8. CASE AwaitCancelled(j)
  BY <1>8 DEF AwaitCancelled
<1>9. CASE Reap(j)
  BY <1>9 DEF Reap
<1>10. CASE ReadSettled(j)
  BY <1>10 DEF ReadSettled
<1>11. CASE Decide(j)
  BY <1>11 DEF Decide
<1>12. CASE EnqueueContinuation(j)
  BY <1>12 DEF EnqueueContinuation
<1>13. CASE Report(j)
  BY <1>13 DEF Report
<1>14. CASE Complete(j)
  BY <1>14 DEF Complete
<1>15. CASE PersistFlows(j)
  BY <1>15 DEF PersistFlows
<1>16. CASE MarkCompleted(j)
  BY <1>16 DEF MarkCompleted
<1>17. CASE StampAborted(j)
  BY <1>17 DEF StampAborted
<1>18. CASE HandleCancelled(j)
  BY <1>18 DEF HandleCancelled
<1>19. CASE CancelFail(j)
  BY <1>19 DEF CancelFail
<1>20. CASE HandleRaised(j)
  BY <1>20 DEF HandleRaised
<1>21. CASE Seed(j)
  BY <1>21 DEF Seed, Discovers
<1>22. CASE ClaimState(j)
  BY <1>22 DEF ClaimState, CrawlMoves
<1>23. CASE FinishState(j)
  BY <1>23 DEF FinishState, Discovers
<1>24. CASE CrawlEnds(j)
  BY <1>24 DEF CrawlEnds, CrawlMoves
<1>25. CASE Poll(j)
  BY <1>25 DEF Poll, PollerListens
<1>26. CASE CancelJob(j)
  BY <1>26 DEF CancelJob
<1>27. CASE Crash(j)
  BY <1>27 DEF Crash
<1>28. CASE Raise(j)
  BY <1>28 DEF Raise
<1>29. CASE CrawlFails(j)
  BY <1>29 DEF CrawlFails, CrawlMoves
<1>30. CASE PollerDies(j)
  BY <1>30 DEF PollerDies, PollerListens
<1>31. CASE RaiseUnhandled(j)
  BY <1>31 DEF RaiseUnhandled
<1> QED
  BY <1>1, <1>2, <1>3, <1>4, <1>5, <1>6, <1>7, <1>8, <1>9, <1>10, <1>11,
     <1>12, <1>13, <1>14, <1>15, <1>16, <1>17, <1>18, <1>19, <1>20, <1>21,
     <1>22, <1>23, <1>24, <1>25, <1>26, <1>27, <1>28, <1>29, <1>30, <1>31 DEF
     Step, Job, Crawl, Failure

(* Jobs that run again are in a handler, and a crawl that goes on has a    *)
(* job that waits for it.                                                  *)
Fit(j) ==
  /\ j \in rerun => pc[j] \in HandlerPc
  /\ slice[j].crawl \in Crawling => pc[j] \in {"wait", "reap"}

LEMMA FitKept ==
  ASSUME TypeOK, NEW j \in Jobs, Fit(j), Step(j)
  PROVE  Fit(j)'
<1> USE DEF TypeOK, Fit, Goto, Becomes, End, NoSlice, Crawling, HandlerPc, StartPc,
            TryPc, FinishPc
<1>1. CASE CheckPaused(j)
  BY <1>1 DEF CheckPaused
<1>2. CASE EnsureNotAborted(j)
  BY <1>2 DEF EnsureNotAborted
<1>3. CASE Claim(j)
  BY <1>3 DEF Claim
<1>4. CASE Recheck(j)
  BY <1>4 DEF Recheck
<1>5. CASE FetchInputs(j)
  BY <1>5 DEF FetchInputs
<1>6. CASE ReadProgress(j)
  BY <1>6 DEF ReadProgress, Slice
<1>7. CASE WaitLoop(j)
  BY <1>7 DEF WaitLoop, Slice
<1>8. CASE AwaitCancelled(j)
  BY <1>8 DEF AwaitCancelled
<1>9. CASE Reap(j)
  BY <1>9 DEF Reap
<1>10. CASE ReadSettled(j)
  BY <1>10 DEF ReadSettled
<1>11. CASE Decide(j)
  BY <1>11 DEF Decide
<1>12. CASE EnqueueContinuation(j)
  BY <1>12 DEF EnqueueContinuation
<1>13. CASE Report(j)
  BY <1>13 DEF Report
<1>14. CASE Complete(j)
  BY <1>14 DEF Complete
<1>15. CASE PersistFlows(j)
  BY <1>15 DEF PersistFlows
<1>16. CASE MarkCompleted(j)
  BY <1>16 DEF MarkCompleted
<1>17. CASE StampAborted(j)
  BY <1>17 DEF StampAborted
<1>18. CASE HandleCancelled(j)
  BY <1>18 DEF HandleCancelled
<1>19. CASE CancelFail(j)
  BY <1>19 DEF CancelFail
<1>20. CASE HandleRaised(j)
  BY <1>20 DEF HandleRaised
<1>21. CASE Seed(j)
  BY <1>21 DEF Seed, Discovers
<1>22. CASE ClaimState(j)
  BY <1>22 DEF ClaimState, CrawlMoves, BetweenStates
<1>23. CASE FinishState(j)
  BY <1>23 DEF FinishState, Discovers
<1>24. CASE CrawlEnds(j)
  BY <1>24 DEF CrawlEnds, CrawlMoves
<1>25. CASE Poll(j)
  BY <1>25 DEF Poll, PollerListens, Slice
<1>26. CASE CancelJob(j)
  BY <1>26 DEF CancelJob
<1>27. CASE Crash(j)
  BY <1>27 DEF Crash
<1>28. CASE Raise(j)
  BY <1>28 DEF Raise
<1>29. CASE CrawlFails(j)
  BY <1>29 DEF CrawlFails, CrawlMoves
<1>30. CASE PollerDies(j)
  BY <1>30 DEF PollerDies, PollerListens
<1>31. CASE RaiseUnhandled(j)
  BY <1>31 DEF RaiseUnhandled
<1> QED
  BY <1>1, <1>2, <1>3, <1>4, <1>5, <1>6, <1>7, <1>8, <1>9, <1>10, <1>11,
     <1>12, <1>13, <1>14, <1>15, <1>16, <1>17, <1>18, <1>19, <1>20, <1>21,
     <1>22, <1>23, <1>24, <1>25, <1>26, <1>27, <1>28, <1>29, <1>30, <1>31 DEF
     Step, Job, Crawl, Failure

LEMMA FitElsewhere ==
  ASSUME TypeOK, NEW j \in Jobs, NEW i \in Jobs, i # j, Fit(i), Step(j)
  PROVE  Fit(i)'
<1>1. i \in rerun' => i \in rerun
  BY DEF Step, Job, Crawl, Failure, End, CheckPaused, EnsureNotAborted, Claim, Recheck,
     FetchInputs, ReadProgress, WaitLoop, AwaitCancelled, Reap, ReadSettled, Decide,
     EnqueueContinuation, Report, Complete, PersistFlows, MarkCompleted, StampAborted,
     HandleCancelled, CancelFail, HandleRaised, Seed, ClaimState, FinishState, CrawlEnds,
     Poll, CancelJob, Crash, Raise, CrawlFails, PollerDies, RaiseUnhandled
<1>2. slice'[i] = slice[i] /\ (pc'[i] = pc[i] \/ (pc[i] = "idle" /\ pc'[i] = "queued"))
  BY Elsewhere
<1> QED
  BY <1>1, <1>2 DEF Fit, HandlerPc

(* No job becomes a driver by a step of its own, unless it was disturbed   *)
(* after its hand-over.                                                    *)
LEMMA DriverWas ==
  ASSUME TypeOK, NEW j \in Jobs, Fit(j), Step(j), ~doubled', Driver(j)'
  PROVE  Driver(j)
<1> USE DEF TypeOK, Fit, Driver, Goto, Becomes, End, AfterHandOver, HandlerPc, StartPc,
            TryPc, FinishPc, Crawling, BetweenStates
<1>1. CASE CheckPaused(j)
  BY <1>1 DEF CheckPaused
<1>2. CASE EnsureNotAborted(j)
  BY <1>2 DEF EnsureNotAborted
<1>3. CASE Claim(j)
  BY <1>3 DEF Claim
<1>4. CASE Recheck(j)
  BY <1>4 DEF Recheck
<1>5. CASE FetchInputs(j)
  BY <1>5 DEF FetchInputs
<1>6. CASE ReadProgress(j)
  BY <1>6 DEF ReadProgress
<1>7. CASE WaitLoop(j)
  BY <1>7 DEF WaitLoop
<1>8. CASE AwaitCancelled(j)
  BY <1>8 DEF AwaitCancelled
<1>9. CASE Reap(j)
  BY <1>9 DEF Reap
<1>10. CASE ReadSettled(j)
  BY <1>10 DEF ReadSettled
<1>11. CASE Decide(j)
  BY <1>11 DEF Decide
<1>12. CASE EnqueueContinuation(j)
  BY <1>12 DEF EnqueueContinuation
<1>13. CASE Report(j)
  BY <1>13 DEF Report
<1>14. CASE Complete(j)
  BY <1>14 DEF Complete
<1>15. CASE PersistFlows(j)
  BY <1>15 DEF PersistFlows
<1>16. CASE MarkCompleted(j)
  BY <1>16 DEF MarkCompleted
<1>17. CASE StampAborted(j)
  BY <1>17 DEF StampAborted
<1>18. CASE HandleCancelled(j)
  BY <1>18 DEF HandleCancelled
<1>19. CASE CancelFail(j)
  BY <1>19 DEF CancelFail
<1>20. CASE HandleRaised(j)
  BY <1>20 DEF HandleRaised
<1>21. CASE Seed(j)
  BY <1>21 DEF Seed, Discovers
<1>22. CASE ClaimState(j)
  BY <1>22 DEF ClaimState, CrawlMoves
<1>23. CASE FinishState(j)
  BY <1>23 DEF FinishState, Discovers
<1>24. CASE CrawlEnds(j)
  BY <1>24 DEF CrawlEnds, CrawlMoves
<1>25. CASE Poll(j)
  BY <1>25 DEF Poll, PollerListens
<1>26. CASE CancelJob(j)
  BY <1>26 DEF CancelJob
<1>27. CASE Crash(j)
  BY <1>27 DEF Crash
<1>28. CASE Raise(j)
  BY <1>28 DEF Raise
<1>29. CASE CrawlFails(j)
  BY <1>29 DEF CrawlFails, CrawlMoves
<1>30. CASE PollerDies(j)
  BY <1>30 DEF PollerDies, PollerListens
<1>31. CASE RaiseUnhandled(j)
  BY <1>31 DEF RaiseUnhandled
<1> QED
  BY <1>1, <1>2, <1>3, <1>4, <1>5, <1>6, <1>7, <1>8, <1>9, <1>10, <1>11,
     <1>12, <1>13, <1>14, <1>15, <1>16, <1>17, <1>18, <1>19, <1>20, <1>21,
     <1>22, <1>23, <1>24, <1>25, <1>26, <1>27, <1>28, <1>29, <1>30, <1>31 DEF
     Step, Job, Crawl, Failure

LEMMA StepOneDriver ==
  ASSUME TypeOK, OneDriver, NEW j \in Jobs, Fit(j), Step(j)
  PROVE  OneDriver'
<1> SUFFICES ASSUME ~doubled', NEW i \in Jobs, NEW k \in Jobs, Driver(i)', Driver(k)'
             PROVE  i = k
  BY DEF OneDriver
<1>1. \A m, n \in Jobs : Driver(m) /\ Driver(n) => m = n
  BY SharedChanges DEF OneDriver
<1>2. CASE EnqueueContinuation(j)
  <2>1. PICK new \in Jobs : pc' = [pc EXCEPT ![j] = "report", ![new] = "queued"]
    BY <1>2 DEF EnqueueContinuation
  <2>2. \A m \in Jobs : Driver(m)' => m = new
    <3> SUFFICES ASSUME NEW m \in Jobs, Driver(m)', m # new
                 PROVE  FALSE
      OBVIOUS
    <3>1. m # j /\ pc'[m] = pc[m]
      BY <2>1 DEF TypeOK, Driver
    <3>2. Driver(m) /\ Driver(j)
      BY <1>2, <3>1 DEF Driver, EnqueueContinuation
    <3> QED
      BY <1>1, <3>1, <3>2
  <2> QED
    BY <2>2
<1>3. CASE ~EnqueueContinuation(j)
  <2>1. \A m \in Jobs : Driver(m)' => Driver(m)
    <3> SUFFICES ASSUME NEW m \in Jobs, Driver(m)'
                 PROVE  Driver(m)
      OBVIOUS
    <3>1. CASE m = j
      BY <3>1, DriverWas
    <3>2. CASE m # j
      BY <1>3, <3>2, Elsewhere DEF Driver
    <3> QED
      BY <3>1, <3>2
  <2> QED
    BY <1>1, <2>1
<1> QED
  BY <1>2, <1>3

(* A job that finds its session completed stays where it can do no harm.   *)
LEMMA StaysQuiet ==
  ASSUME TypeOK, NEW j \in Jobs, Step(j), row.status = "COMPLETED", ~doubled',
         pc[j] \in {"idle", "report"} \union StartPc, slice[j].crawl \notin Crawling
  PROVE  pc'[j] \in {"idle", "report"} \union StartPc /\ slice'[j].crawl \notin Crawling
<1> USE DEF TypeOK, StartPc, TryPc, FinishPc, HandlerPc, Goto, Becomes, End, NoSlice,
            AfterHandOver, Crawling, BetweenStates, Active
<1>1. CASE CheckPaused(j)
  BY <1>1 DEF CheckPaused
<1>2. CASE EnsureNotAborted(j)
  BY <1>2 DEF EnsureNotAborted
<1>3. CASE Claim(j)
  BY <1>3 DEF Claim
<1>4. CASE Recheck(j)
  BY <1>4 DEF Recheck
<1>5. CASE FetchInputs(j)
  BY <1>5 DEF FetchInputs
<1>6. CASE ReadProgress(j)
  BY <1>6 DEF ReadProgress
<1>7. CASE WaitLoop(j)
  BY <1>7 DEF WaitLoop
<1>8. CASE AwaitCancelled(j)
  BY <1>8 DEF AwaitCancelled
<1>9. CASE Reap(j)
  BY <1>9 DEF Reap
<1>10. CASE ReadSettled(j)
  BY <1>10 DEF ReadSettled
<1>11. CASE Decide(j)
  BY <1>11 DEF Decide
<1>12. CASE EnqueueContinuation(j)
  BY <1>12 DEF EnqueueContinuation
<1>13. CASE Report(j)
  BY <1>13 DEF Report
<1>14. CASE Complete(j)
  BY <1>14 DEF Complete
<1>15. CASE PersistFlows(j)
  BY <1>15 DEF PersistFlows
<1>16. CASE MarkCompleted(j)
  BY <1>16 DEF MarkCompleted
<1>17. CASE StampAborted(j)
  BY <1>17 DEF StampAborted
<1>18. CASE HandleCancelled(j)
  BY <1>18 DEF HandleCancelled
<1>19. CASE CancelFail(j)
  BY <1>19 DEF CancelFail
<1>20. CASE HandleRaised(j)
  BY <1>20 DEF HandleRaised
<1>21. CASE Seed(j)
  BY <1>21 DEF Seed, Discovers
<1>22. CASE ClaimState(j)
  BY <1>22 DEF ClaimState, CrawlMoves
<1>23. CASE FinishState(j)
  BY <1>23 DEF FinishState, Discovers
<1>24. CASE CrawlEnds(j)
  BY <1>24 DEF CrawlEnds, CrawlMoves
<1>25. CASE Poll(j)
  BY <1>25 DEF Poll, PollerListens
<1>26. CASE CancelJob(j)
  BY <1>26 DEF CancelJob
<1>27. CASE Crash(j)
  BY <1>27 DEF Crash
<1>28. CASE Raise(j)
  BY <1>28 DEF Raise
<1>29. CASE CrawlFails(j)
  BY <1>29 DEF CrawlFails, CrawlMoves
<1>30. CASE PollerDies(j)
  BY <1>30 DEF PollerDies, PollerListens
<1>31. CASE RaiseUnhandled(j)
  BY <1>31 DEF RaiseUnhandled
<1> QED
  BY <1>1, <1>2, <1>3, <1>4, <1>5, <1>6, <1>7, <1>8, <1>9, <1>10, <1>11,
     <1>12, <1>13, <1>14, <1>15, <1>16, <1>17, <1>18, <1>19, <1>20, <1>21,
     <1>22, <1>23, <1>24, <1>25, <1>26, <1>27, <1>28, <1>29, <1>30, <1>31 DEF
     Step, Job, Crawl, Failure

Quiet(j) == pc[j] \in {"idle", "report"} \union StartPc /\ slice[j].crawl \notin Crawling

LEMMA StepQuiet ==
  ASSUME TypeOK, OneDriver, CompletedIsQuiet, \A i \in Jobs : Fit(i),
         NEW j \in Jobs, Step(j)
  PROVE  CompletedIsQuiet'
<1> SUFFICES ASSUME ~doubled', row'.status = "COMPLETED", NEW i \in Jobs
             PROVE  Quiet(i)'
  BY DEF CompletedIsQuiet, Quiet
<1>0. ~doubled
  BY SharedChanges
<1>1. CASE row.status = "COMPLETED"
  <2>1. Quiet(i) /\ Quiet(j)
    BY <1>0, <1>1 DEF CompletedIsQuiet, Quiet
  <2>2. CASE i = j
    BY <1>1, <2>1, <2>2, StaysQuiet DEF Quiet
  <2>3. CASE i # j
    BY <2>1, <2>3, Elsewhere DEF Quiet, StartPc
  <2> QED
    BY <2>2, <2>3
<1>2. CASE row.status # "COMPLETED"
  <2>1. MarkCompleted(j) /\ row.status \in Active
    <3> USE DEF Where, TypeOK, Row
    <3>1. ~Claim(j) /\ ~Report(j) /\ ~StampAborted(j) /\ ~CancelFail(j) /\ ~HandleRaised(j)
      BY <1>2 DEF Claim, Report, StampAborted, CancelFail, HandleRaised, MarkQueuedRunning,
         UpdateCountsIfActive, MarkFinishedAtIfAborted, MarkFailedIfRunning
    <3>2. MarkCompleted(j)
      BY <1>2, <3>1, SharedChanges
    <3> QED
      BY <1>2, <3>2 DEF MarkCompleted, MarkCompletedIfRunning
  <2>2. CASE i = j
    <3>1. End(j) /\ j \notin rerun
      BY <2>1 DEF MarkCompleted, Fit, HandlerPc
    <3> QED
      BY <2>2, <3>1 DEF TypeOK, End, Goto, Becomes, NoSlice, Quiet, Crawling
  <2>3. CASE i # j
    <3>1. ~Driver(i)
      BY <1>0, <2>1, <2>3 DEF OneDriver, Driver, MarkCompleted
    <3>2. slice[i].crawl \notin Crawling
      BY <3>1 DEF Fit, Driver
    <3> QED
      BY <2>3, <3>1, <3>2, Elsewhere DEF Driver, Quiet, StartPc
  <2> QED
    BY <2>2, <2>3
<1> QED
  BY <1>1, <1>2

Orderly == TypeOK /\ (\A j \in Jobs : Fit(j)) /\ OneDriver /\ CompletedIsQuiet

LEMMA InitOrderly == Init => Orderly
<1> SUFFICES ASSUME Init PROVE Orderly
  OBVIOUS
<1>1. \A j \in Jobs : Fit(j) /\ ~Driver(j)
  BY DEF Init, Fit, NoSlice, Crawling, Driver
<1> QED
  BY <1>1, InitType DEF Init, NewRow, Orderly, OneDriver, CompletedIsQuiet

(* The API lets every job be, except the one it enqueues, and knows when   *)
(* that one is not alone.                                                  *)
LEMMA ApiSteps ==
  ASSUME TypeOK, Api
  PROVE  /\ UNCHANGED <<dataVars, slice, rerun, orphan, stale>>
         /\ doubled => doubled'
         /\ \/ UNCHANGED <<pc, doubled>>
            \/ \E k \in Jobs : /\ pc[k] = "idle" /\ pc' = [pc EXCEPT ![k] = "queued"]
                               /\ doubled' = (doubled \/ \E j \in Jobs : Live(j))
         /\ row'.count = row.count /\ row'.started = row.started
         /\ row'.status = "COMPLETED" => row.status = "COMPLETED"
         /\ row'.status \in Active => row.status \in Active
         /\ row.status = "COMPLETED" => row' = row
<1> USE DEF TypeOK, Row, jobVars, history, Active, Where
<1>1. CASE RequestCrawl
  BY <1>1 DEF RequestCrawl, MarkQueued
<1>2. CASE EnqueueRequested
  BY <1>2, ConstantsAssumption DEF EnqueueRequested, Goto, Live, ConstantsAssumption
<1>3. CASE PauseSession
  BY <1>3 DEF PauseSession
<1>4. CASE ResumeSession
  BY <1>4 DEF ResumeSession, Goto, Live
<1>5. CASE AbortSession
  BY <1>5 DEF AbortSession, MarkAbortedIfActive
<1> QED
  BY <1>1, <1>2, <1>3, <1>4, <1>5 DEF Api

LEMMA ApiOrderly ==
  ASSUME Orderly, Api
  PROVE  Orderly'
<1>0. TypeOK
  BY DEF Orderly
<1>1. TypeOK'
  BY <1>0, ApiType
<1>2. \A j \in Jobs : pc'[j] = pc[j] \/ (pc[j] = "idle" /\ pc'[j] = "queued")
  BY <1>0, ApiSteps DEF TypeOK
<1>3. \A j \in Jobs : Fit(j)'
  BY <1>0, <1>2, ApiSteps DEF Orderly, Fit, HandlerPc
<1>4. OneDriver'
  <2>1. CASE UNCHANGED <<pc, doubled>>
    BY <2>1 DEF Orderly, OneDriver, Driver
  <2>2. ASSUME NEW k \in Jobs, pc' = [pc EXCEPT ![k] = "queued"],
               doubled' = (doubled \/ \E j \in Jobs : Live(j))
        PROVE  OneDriver'
    BY <1>0, <2>2 DEF TypeOK, OneDriver, Driver, Live
  <2> QED
    BY <1>0, <2>1, <2>2, ApiSteps
<1>5. CompletedIsQuiet'
  BY <1>0, <1>2, ApiSteps DEF Orderly, CompletedIsQuiet, StartPc
<1> QED
  BY <1>1, <1>3, <1>4, <1>5 DEF Orderly

(* Orphans belong to nobody.                                               *)
LEMMA OrphanSteps ==
  ASSUME OrphanExplores \/ OrphanEnds
  PROVE  UNCHANGED <<row, pc, slice, rerun, flowsOf, doubled, stale>>
  BY DEF OrphanExplores, OrphanEnds, dataVars, history

LEMMA StepOrderly == Orderly /\ [Next]_vars => Orderly'
<1> SUFFICES ASSUME Orderly, [Next]_vars PROVE Orderly'
  OBVIOUS
<1>0. TypeOK /\ TypeOK'
  BY StepType DEF Orderly
<1>1. ASSUME NEW j \in Jobs, Step(j) PROVE Orderly'
  <2>1. \A i \in Jobs : Fit(i)'
    BY <1>0, <1>1, FitKept, FitElsewhere DEF Orderly
  <2>2. OneDriver'
    BY <1>0, <1>1, StepOneDriver DEF Orderly
  <2>3. CompletedIsQuiet'
    BY <1>0, <1>1, StepQuiet DEF Orderly
  <2> QED
    BY <1>0, <2>1, <2>2, <2>3 DEF Orderly
<1>2. CASE UNCHANGED <<row, pc, slice, rerun, doubled>>
  BY <1>0, <1>2 DEF Orderly, Fit, OneDriver, Driver, CompletedIsQuiet
<1>3. CASE UNCHANGED vars
  BY <1>2, <1>3 DEF vars, jobVars, history
<1> QED
  BY <1>0, <1>1, <1>2, <1>3, OrphanSteps, ApiOrderly DEF Next, Step

-----------------------------------------------------------------------------
(* What a completed session has: its flows, and its count.                 *)

(* The job has read the row's start time, and still drives the session.    *)
Started(j) == Unreported(j) /\ pc[j] # "report"

(* How a step of a job changes what the job knows.                         *)
LEMMA LocalChanges ==
  ASSUME TypeOK, NEW j \in Jobs, Step(j), Fit(j)
  PROVE  \/ ~Unreported(j)'
         \/ FetchInputs(j)
         \/ /\ Unreported(j)
            /\ pc[j] = "report" => pc'[j] = "report"
            /\ slice'[j].started = slice[j].started
            /\ \/ slice'[j].discovered = slice[j].discovered /\ created' = created
               \/ /\ slice'[j].discovered = Larger(slice[j].discovered, Found)
                  /\ created' = created
               \/ \E n \in Nat : /\ created' = created + n
                                 /\ slice'[j].discovered = slice[j].discovered + n
<1> USE DEF TypeOK, Slice, Fit, Unreported, Goto, Becomes, End, StartPc, SlicePc, TryPc,
            FinishPc, HandlerPc, dataVars, Crawling
<1>1. CASE CheckPaused(j)
  BY <1>1 DEF CheckPaused
<1>2. CASE EnsureNotAborted(j)
  BY <1>2 DEF EnsureNotAborted
<1>3. CASE Claim(j)
  BY <1>3 DEF Claim
<1>4. CASE Recheck(j)
  BY <1>4 DEF Recheck
<1>5. CASE FetchInputs(j)
  BY <1>5 DEF FetchInputs
<1>6. CASE ReadProgress(j)
  <2>1. CASE Becomes(j, [slice[j] EXCEPT !.discovered = Larger(@, Found)])
    BY <1>6, <2>1 DEF ReadProgress
  <2>2. CASE Becomes(j, [slice[j] EXCEPT !.counter = Found, !.crawl = "seed"])
    BY <1>6, <2>2 DEF ReadProgress
  <2> QED
    BY <1>6, <2>1, <2>2 DEF ReadProgress
<1>7. CASE WaitLoop(j)
  BY <1>7 DEF WaitLoop
<1>8. CASE AwaitCancelled(j)
  BY <1>8 DEF AwaitCancelled
<1>9. CASE Reap(j)
  BY <1>9 DEF Reap
<1>10. CASE ReadSettled(j)
  BY <1>10 DEF ReadSettled
<1>11. CASE Decide(j)
  BY <1>11 DEF Decide
<1>12. CASE EnqueueContinuation(j)
  BY <1>12 DEF EnqueueContinuation
<1>13. CASE Report(j)
  BY <1>13 DEF Report
<1>14. CASE Complete(j)
  BY <1>14 DEF Complete
<1>15. CASE PersistFlows(j)
  BY <1>15 DEF PersistFlows
<1>16. CASE MarkCompleted(j)
  BY <1>16 DEF MarkCompleted
<1>17. CASE StampAborted(j)
  BY <1>17 DEF StampAborted
<1>18. CASE HandleCancelled(j)
  BY <1>18 DEF HandleCancelled
<1>19. CASE CancelFail(j)
  BY <1>19 DEF CancelFail
<1>20. CASE HandleRaised(j)
  BY <1>20 DEF HandleRaised
<1>21. CASE Seed(j)
  BY <1>21 DEF Seed, Discovers
<1>22. CASE ClaimState(j)
  BY <1>22 DEF ClaimState, CrawlMoves, BetweenStates
<1>23. CASE FinishState(j)
  BY <1>23 DEF FinishState, Discovers
<1>24. CASE CrawlEnds(j)
  BY <1>24 DEF CrawlEnds, CrawlMoves, BetweenStates
<1>25. CASE Poll(j)
  BY <1>25 DEF Poll, PollerListens
<1>26. CASE CancelJob(j)
  BY <1>26 DEF CancelJob
<1>27. CASE Crash(j)
  BY <1>27 DEF Crash
<1>28. CASE Raise(j)
  BY <1>28 DEF Raise
<1>29. CASE CrawlFails(j)
  BY <1>29 DEF CrawlFails, CrawlMoves
<1>30. CASE PollerDies(j)
  BY <1>30 DEF PollerDies, PollerListens
<1>31. CASE RaiseUnhandled(j)
  BY <1>31 DEF RaiseUnhandled
<1> QED
  BY <1>1, <1>2, <1>3, <1>4, <1>5, <1>6, <1>7, <1>8, <1>9, <1>10, <1>11,
     <1>12, <1>13, <1>14, <1>15, <1>16, <1>17, <1>18, <1>19, <1>20, <1>21,
     <1>22, <1>23, <1>24, <1>25, <1>26, <1>27, <1>28, <1>29, <1>30, <1>31 DEF
     Step, Job, Crawl, Failure

LEMMA RowSteps ==
  ASSUME TypeOK, NEW j \in Jobs, Step(j)
  PROVE  /\ row'.started = row.started \/ (Claim(j) /\ row.status = "QUEUED")
         /\ row'.status \in Active => row.status \in Active \/ (Claim(j) /\ row.status = "QUEUED")
         /\ row'.status = "COMPLETED" =>
              \/ row.status = "COMPLETED"
              \/ /\ MarkCompleted(j) /\ row.status \in Active
                 /\ row'.count = slice[j].discovered
         /\ \/ row'.count = row.count
            \/ /\ row.status \in Active /\ Unreported(j)
               /\ row'.count = slice[j].discovered
<1> USE DEF TypeOK, Row, Where, Active
<1>1. CASE UNCHANGED row
  BY <1>1
<1>2. CASE Claim(j)
  BY <1>2 DEF Claim, MarkQueuedRunning
<1>3. CASE Report(j)
  BY <1>3 DEF Report, UpdateCountsIfActive, Unreported
<1>4. CASE MarkCompleted(j)
  BY <1>4 DEF MarkCompleted, MarkCompletedIfRunning, Unreported, FinishPc
<1>5. CASE StampAborted(j)
  BY <1>5 DEF StampAborted, MarkFinishedAtIfAborted
<1>6. CASE CancelFail(j)
  BY <1>6 DEF CancelFail, MarkFailedIfRunning
<1>7. CASE HandleRaised(j)
  BY <1>7 DEF HandleRaised, MarkFailedIfRunning
<1> QED
  BY <1>1, <1>2, <1>3, <1>4, <1>5, <1>6, <1>7, SharedChanges

(* A job is about to complete the session after it has looked at its       *)
(* status, and seen to the flows if the session runs.                      *)
LEMMA ComesToMark ==
  ASSUME TypeOK, NEW j \in Jobs, Step(j), pc'[j] = "mark"
  PROVE  \/ pc[j] = "mark" /\ UNCHANGED row /\ UNCHANGED flowsOf
         \/ Complete(j)
         \/ PersistFlows(j)
<1> USE DEF TypeOK, Goto, Becomes, End, dataVars
<1>1. CASE CheckPaused(j)
  BY <1>1 DEF CheckPaused
<1>2. CASE EnsureNotAborted(j)
  BY <1>2 DEF EnsureNotAborted
<1>3. CASE Claim(j)
  BY <1>3 DEF Claim
<1>4. CASE Recheck(j)
  BY <1>4 DEF Recheck
<1>5. CASE FetchInputs(j)
  BY <1>5 DEF FetchInputs
<1>6. CASE ReadProgress(j)
  BY <1>6 DEF ReadProgress
<1>7. CASE WaitLoop(j)
  BY <1>7 DEF WaitLoop
<1>8. CASE AwaitCancelled(j)
  BY <1>8 DEF AwaitCancelled
<1>9. CASE Reap(j)
  BY <1>9 DEF Reap
<1>10. CASE ReadSettled(j)
  BY <1>10 DEF ReadSettled
<1>11. CASE Decide(j)
  BY <1>11 DEF Decide
<1>12. CASE EnqueueContinuation(j)
  BY <1>12 DEF EnqueueContinuation
<1>13. CASE Report(j)
  BY <1>13 DEF Report
<1>14. CASE Complete(j)
  BY <1>14 DEF Complete
<1>15. CASE PersistFlows(j)
  BY <1>15 DEF PersistFlows
<1>16. CASE MarkCompleted(j)
  BY <1>16 DEF MarkCompleted
<1>17. CASE StampAborted(j)
  BY <1>17 DEF StampAborted
<1>18. CASE HandleCancelled(j)
  BY <1>18 DEF HandleCancelled
<1>19. CASE CancelFail(j)
  BY <1>19 DEF CancelFail
<1>20. CASE HandleRaised(j)
  BY <1>20 DEF HandleRaised
<1>21. CASE Seed(j)
  BY <1>21 DEF Seed, Discovers
<1>22. CASE ClaimState(j)
  BY <1>22 DEF ClaimState, CrawlMoves
<1>23. CASE FinishState(j)
  BY <1>23 DEF FinishState, Discovers
<1>24. CASE CrawlEnds(j)
  BY <1>24 DEF CrawlEnds, CrawlMoves
<1>25. CASE Poll(j)
  BY <1>25 DEF Poll, PollerListens
<1>26. CASE CancelJob(j)
  BY <1>26 DEF CancelJob
<1>27. CASE Crash(j)
  BY <1>27 DEF Crash
<1>28. CASE Raise(j)
  BY <1>28 DEF Raise
<1>29. CASE CrawlFails(j)
  BY <1>29 DEF CrawlFails, CrawlMoves
<1>30. CASE PollerDies(j)
  BY <1>30 DEF PollerDies, PollerListens
<1>31. CASE RaiseUnhandled(j)
  BY <1>31 DEF RaiseUnhandled
<1> QED
  BY <1>1, <1>2, <1>3, <1>4, <1>5, <1>6, <1>7, <1>8, <1>9, <1>10, <1>11,
     <1>12, <1>13, <1>14, <1>15, <1>16, <1>17, <1>18, <1>19, <1>20, <1>21,
     <1>22, <1>23, <1>24, <1>25, <1>26, <1>27, <1>28, <1>29, <1>30, <1>31 DEF
     Step, Job, Crawl, Failure

(* The job that drives the session knows when it was started.              *)
StartIsKnown ==
  ~doubled => \A j \in Jobs : Started(j) => slice[j].started = row.started

(* Before the last statement the flows are those of this start.            *)
FlowsAreReady ==
  GenerateFlows /\ ~doubled =>
    \A j \in Jobs : pc[j] = "mark" /\ row.status \in Active => flowsOf = row.started

Flowed == Orderly /\ StartIsKnown /\ FlowsAreReady /\ CompletedHasFlows

LEMMA StepFlowed ==
  ASSUME Flowed, NEW j \in Jobs, Step(j)
  PROVE  StartIsKnown' /\ FlowsAreReady' /\ CompletedHasFlows'
<1> SUFFICES ASSUME ~doubled' PROVE StartIsKnown' /\ FlowsAreReady' /\ CompletedHasFlows'
  BY DEF StartIsKnown, FlowsAreReady, CompletedHasFlows
<1>0. TypeOK /\ ~doubled /\ \A i \in Jobs : Fit(i)
  BY SharedChanges DEF Flowed, Orderly
<1>1. \A i, k \in Jobs : Driver(i) /\ Driver(k) => i = k
  BY <1>0 DEF Flowed, Orderly, OneDriver
<1>2. StartIsKnown'
  <2> SUFFICES ASSUME NEW i \in Jobs, Started(i)'
               PROVE  slice'[i].started = row'.started
    BY DEF StartIsKnown
  <2>1. CASE i # j
    <3>1. Started(i) /\ Driver(i) /\ slice'[i] = slice[i]
      BY <1>0, <2>1, Elsewhere DEF Started, Unreported, Driver, SlicePc, FinishPc
    <3>2. ~Claim(j)
      BY <1>1, <2>1, <3>1 DEF Claim, Driver
    <3> QED
      BY <1>0, <3>1, <3>2, RowSteps DEF Flowed, StartIsKnown
  <2>2. CASE i = j /\ FetchInputs(j)
    BY <1>0, <2>2 DEF FetchInputs, Becomes, TypeOK, Slice
  <2>3. CASE i = j /\ ~FetchInputs(j)
    <3>1. Started(j) /\ slice'[j].started = slice[j].started
      BY <1>0, <2>3, LocalChanges DEF Started
    <3>2. ~Claim(j)
      BY <3>1 DEF Claim, Started, Unreported, SlicePc, FinishPc
    <3> QED
      BY <1>0, <2>3, <3>1, <3>2, RowSteps DEF Flowed, StartIsKnown
  <2> QED
    BY <2>1, <2>2, <2>3
<1>3. FlowsAreReady'
  <2> SUFFICES ASSUME GenerateFlows, NEW i \in Jobs, pc'[i] = "mark", row'.status \in Active
               PROVE  flowsOf' = row'.started
    BY DEF FlowsAreReady
  <2>1. CASE i # j
    <3>1. pc[i] = "mark"
      BY <1>0, <2>1, Elsewhere
    <3>2. ~Claim(j) /\ ~PersistFlows(j)
      BY <1>1, <2>1, <3>1 DEF Claim, PersistFlows, Driver
    <3> QED
      BY <1>0, <3>1, <3>2, RowSteps, SharedChanges DEF Flowed, FlowsAreReady
  <2>2. CASE i = j
    <3>1. CASE pc[j] = "mark" /\ UNCHANGED row /\ UNCHANGED flowsOf
      BY <1>0, <2>2, <3>1 DEF Flowed, FlowsAreReady
    <3>2. CASE Complete(j)
      BY <1>0, <2>2, <3>2 DEF Complete, Goto, TypeOK, Active
    <3>3. CASE PersistFlows(j)
      BY <1>0, <3>3 DEF PersistFlows, Flowed, StartIsKnown, Started, Unreported, FinishPc
    <3> QED
      BY <1>0, <2>2, <3>1, <3>2, <3>3, ComesToMark
  <2> QED
    BY <2>1, <2>2
<1>4. CompletedHasFlows'
  <2> SUFFICES ASSUME GenerateFlows, row'.status = "COMPLETED"
               PROVE  flowsOf' = row'.started
    BY DEF CompletedHasFlows
  <2>1. CASE row.status = "COMPLETED"
    <3>1. ~PersistFlows(j)
      BY <1>0, <2>1 DEF Flowed, Orderly, CompletedIsQuiet, PersistFlows, StartPc
    <3> QED
      BY <1>0, <2>1, <3>1, RowSteps, SharedChanges DEF Flowed, CompletedHasFlows
  <2>2. CASE row.status # "COMPLETED"
    <3>1. MarkCompleted(j) /\ row.status \in Active
      BY <1>0, <2>2, RowSteps
    <3>2. flowsOf = row.started
      BY <1>0, <3>1 DEF MarkCompleted, Flowed, FlowsAreReady
    <3>3. row'.started = row.started /\ flowsOf' = flowsOf
      BY <1>0, <3>1, RowSteps DEF MarkCompleted, Claim, dataVars
    <3> QED
      BY <3>2, <3>3
  <2> QED
    BY <2>1, <2>2
<1> QED
  BY <1>2, <1>3, <1>4

LEMMA ApiFlowed ==
  ASSUME Flowed, Api
  PROVE  StartIsKnown' /\ FlowsAreReady' /\ CompletedHasFlows'
<1>0. TypeOK
  BY DEF Flowed, Orderly
<1>1. \A j \in Jobs : pc'[j] = pc[j] \/ pc'[j] = "queued"
  BY <1>0, ApiSteps DEF TypeOK
<1>2. UNCHANGED <<slice, flowsOf>> /\ row'.started = row.started /\ (doubled => doubled')
  BY <1>0, ApiSteps DEF dataVars
<1>3. /\ row'.status = "COMPLETED" => row.status = "COMPLETED"
      /\ row'.status \in Active => row.status \in Active
  BY <1>0, ApiSteps
<1>4. StartIsKnown'
  BY <1>1, <1>2 DEF Flowed, StartIsKnown, Started, Unreported, SlicePc, FinishPc
<1>5. FlowsAreReady' /\ CompletedHasFlows'
  BY <1>1, <1>2, <1>3 DEF Flowed, FlowsAreReady, CompletedHasFlows
<1> QED
  BY <1>4, <1>5

LEMMA AlwaysFlowed == Init /\ [][Next]_vars => []Flowed
<1>1. Init => Flowed
  <2> SUFFICES ASSUME Init PROVE Flowed
    OBVIOUS
  <2>1. \A j \in Jobs : ~Started(j) /\ pc[j] # "mark"
    BY DEF Init, Started, Unreported, SlicePc, FinishPc
  <2> QED
    BY <2>1, InitOrderly DEF Init, NewRow, Flowed, StartIsKnown, FlowsAreReady, CompletedHasFlows
<1>2. Flowed /\ [Next]_vars => Flowed'
  <2> SUFFICES ASSUME Flowed, [Next]_vars
               PROVE  StartIsKnown' /\ FlowsAreReady' /\ CompletedHasFlows'
    BY StepOrderly DEF Flowed
  <2>1. CASE UNCHANGED <<row, pc, slice, flowsOf, doubled>>
    BY <2>1 DEF Flowed, StartIsKnown, Started, Unreported, FlowsAreReady, CompletedHasFlows
  <2>2. CASE UNCHANGED vars
    BY <2>1, <2>2 DEF vars, jobVars, dataVars, history
  <2> QED
    BY <2>1, <2>2, StepFlowed, ApiFlowed, OrphanSteps DEF Next, Step
<1> QED
  BY <1>1, <1>2, PTL

-----------------------------------------------------------------------------
(* A job's counter, and hence the row's, never runs ahead of the graph.    *)
Bounded(j) == Unreported(j) => slice[j].discovered <= Found

(* As long as slices start from counters that are up to date, one job at   *)
(* a time has discoveries to report, no orphan adds to them, and the job   *)
(* has counted all there is.                                               *)
CountsAreCurrent ==
  ~stale =>
    /\ \A j, k \in Jobs : Unreported(j) /\ Unreported(k) => j = k
    /\ \A j \in Jobs : Unreported(j) => orphan = {} /\ slice[j].discovered >= created

(* Nothing can add to the states of a completed session.                   *)
CompletedIsCounted ==
  ~stale /\ ~doubled /\ row.status = "COMPLETED" => orphan = {} /\ row.count >= created

Counted ==
  /\ Orderly /\ CountIsBounded /\ \A j \in Jobs : Bounded(j)
  /\ CountsAreCurrent /\ CompletedIsCounted

LEMMA CreatedGrows ==
  ASSUME TypeOK, NEW j \in Jobs, Step(j)
  PROVE  created' \in Nat /\ created' >= created
<1>1. CASE Seed(j)
  BY <1>1 DEF Seed, Discovers, TypeOK
<1>2. CASE FinishState(j)
  BY <1>2 DEF FinishState, Discovers, TypeOK
<1> QED
  BY <1>1, <1>2, SharedChanges DEF TypeOK

LEMMA Numbers ==
  ASSUME TypeOK
  PROVE  /\ created \in Nat /\ Foreign \in Nat /\ row.count \in Nat
         /\ \A j \in Jobs : slice[j].discovered \in Nat
  BY ConstantsAssumption DEF ConstantsAssumption, TypeOK, Row, Slice

(* A job that adds states to the graph has them to report.                 *)
LEMMA CreatorReports ==
  ASSUME TypeOK, NEW j \in Jobs, Step(j), Fit(j), created' # created
  PROVE  Unreported(j) /\ slice[j].crawl \in Crawling
  BY SharedChanges DEF Seed, FinishState, Fit, Crawling, Unreported, SlicePc

LEMMA StepBounded ==
  ASSUME Counted, NEW j \in Jobs, Step(j)
  PROVE  CountIsBounded' /\ \A i \in Jobs : Bounded(i)'
<1>0. TypeOK /\ Fit(j) /\ Bounded(j) /\ row.count <= created + Foreign
  BY DEF Counted, Orderly, CountIsBounded, Found
<1>1. created' \in Nat /\ created' >= created
  BY <1>0, CreatedGrows
<1>2. CountIsBounded'
  BY <1>0, <1>1, Numbers, RowSteps DEF CountIsBounded, Found, Bounded
<1>3. ASSUME NEW i \in Jobs PROVE Bounded(i)'
  <2>1. CASE i # j
    <3>1. slice'[i] = slice[i] /\ (Unreported(i)' => Unreported(i))
      BY <1>0, <2>1, Elsewhere DEF Unreported, SlicePc, FinishPc
    <3>2. Bounded(i) /\ slice[i].discovered \in Nat
      BY <1>0, Numbers DEF Counted
    <3> QED
      BY <1>0, <1>1, <3>1, <3>2, Numbers DEF Bounded, Found
  <2>2. CASE i = j /\ FetchInputs(j)
    BY <1>0, <2>2 DEF FetchInputs, Becomes, TypeOK, Slice, Bounded, Found, dataVars
  <2>3. CASE i = j /\ ~FetchInputs(j)
    <3>1. CASE ~Unreported(j)'
      BY <2>3, <3>1 DEF Bounded
    <3>2. CASE Unreported(j)'
      BY <1>0, <2>3, <3>2, LocalChanges, Numbers DEF Bounded, Found, Larger
    <3> QED
      BY <3>1, <3>2
  <2> QED
    BY <2>1, <2>2, <2>3
<1> QED
  BY <1>2, <1>3

LEMMA StepCurrent ==
  ASSUME Counted, NEW j \in Jobs, Step(j)
  PROVE  CountsAreCurrent'
<1> SUFFICES ASSUME ~stale' PROVE CountsAreCurrent'
  BY DEF CountsAreCurrent
<1>0. TypeOK /\ Fit(j) /\ ~stale
  BY SharedChanges DEF Counted, Orderly, FetchInputs
<1>1. ASSUME NEW i \in Jobs, Unreported(i)'
      PROVE  Unreported(i) \/ (i = j /\ FetchInputs(j))
  <2>1. CASE i = j
    BY <1>0, <1>1, <2>1, LocalChanges
  <2>2. CASE i # j
    BY <1>0, <1>1, <2>2, Elsewhere DEF Unreported, SlicePc, FinishPc
  <2> QED
    BY <2>1, <2>2
<1>2. CASE FetchInputs(j)
  <2>1. /\ row.count = created /\ orphan = {} /\ \A k \in Jobs \ {j} : ~Unreported(k)
        /\ created' = created /\ orphan' = orphan /\ slice'[j].discovered = row.count
    BY <1>0, <1>2 DEF FetchInputs, dataVars, Becomes, TypeOK, Slice
  <2>2. \A i \in Jobs : Unreported(i)' => i = j
    BY <1>1, <2>1
  <2> QED
    BY <1>0, <2>1, <2>2, Numbers DEF CountsAreCurrent
<1>3. CASE ~FetchInputs(j)
  <2>1. \A i \in Jobs : Unreported(i)' => Unreported(i)
    BY <1>1, <1>3
  <2>2. \A i, k \in Jobs : Unreported(i) /\ Unreported(k) => i = k
    BY <1>0 DEF Counted, CountsAreCurrent
  <2>3. ASSUME NEW i \in Jobs, Unreported(i)'
        PROVE  orphan' = {} /\ slice'[i].discovered >= created'
    <3>1. Unreported(i) /\ orphan = {} /\ slice[i].discovered >= created
      BY <1>0, <2>1, <2>3 DEF Counted, CountsAreCurrent
    <3>2. orphan' = {}
      <4>1. CASE CancelJob(j) /\ pc[j] = "wait"
        <5>1. i = j
          BY <2>2, <3>1, <4>1 DEF Unreported, SlicePc
        <5> QED
          BY <1>0, <2>3, <4>1, <5>1 DEF CancelJob, Goto, TypeOK, Unreported, SlicePc, FinishPc
      <4> QED
        BY <1>0, <3>1, <4>1, SharedChanges
    <3>3. CASE i # j
      <4>1. created' = created
        BY <1>0, <2>2, <3>1, <3>3, CreatorReports
      <4> QED
        BY <1>0, <3>1, <3>2, <3>3, <4>1, Elsewhere
    <3>4. CASE i = j
      BY <1>0, <1>3, <2>3, <3>1, <3>2, <3>4, LocalChanges, Numbers DEF Larger, Found
    <3> QED
      BY <3>3, <3>4
  <2> QED
    BY <2>1, <2>2, <2>3 DEF CountsAreCurrent
<1> QED
  BY <1>2, <1>3

LEMMA StepCompletedCounted ==
  ASSUME Counted, NEW j \in Jobs, Step(j)
  PROVE  CompletedIsCounted'
<1> SUFFICES ASSUME ~stale', ~doubled', row'.status = "COMPLETED"
             PROVE  orphan' = {} /\ row'.count >= created'
  BY DEF CompletedIsCounted
<1>0. TypeOK /\ Fit(j) /\ ~stale /\ ~doubled
  BY SharedChanges DEF Counted, Orderly, FetchInputs
<1>1. CASE row.status = "COMPLETED"
  <2>1. pc[j] # "wait" /\ slice[j].crawl \notin Crawling
    BY <1>0, <1>1 DEF Counted, Orderly, CompletedIsQuiet, StartPc
  <2>2. created' = created
    BY <1>0, <2>1, CreatorReports
  <2>3. orphan' = orphan
    BY <1>0, <2>1, SharedChanges
  <2>4. row'.count = row.count
    BY <1>0, <1>1, RowSteps DEF Active
  <2> QED
    BY <1>0, <1>1, <2>2, <2>3, <2>4 DEF Counted, CompletedIsCounted
<1>2. CASE row.status # "COMPLETED"
  <2>1. MarkCompleted(j) /\ row'.count = slice[j].discovered
    BY <1>0, <1>2, RowSteps
  <2>2. Unreported(j) /\ orphan' = orphan /\ created' = created
    BY <2>1 DEF MarkCompleted, Unreported, FinishPc, dataVars
  <2> QED
    BY <1>0, <2>1, <2>2 DEF Counted, CountsAreCurrent
<1> QED
  BY <1>1, <1>2

LEMMA ApiCounted ==
  ASSUME Counted, Api
  PROVE  /\ CountIsBounded' /\ \A j \in Jobs : Bounded(j)'
         /\ CountsAreCurrent' /\ CompletedIsCounted'
<1>0. TypeOK
  BY DEF Counted, Orderly
<1>1. \A j \in Jobs : Unreported(j)' => Unreported(j)
  BY <1>0, ApiSteps DEF TypeOK, Unreported, SlicePc, FinishPc
<1>2. UNCHANGED <<created, slice, orphan, stale>> /\ row'.count = row.count
  BY <1>0, ApiSteps DEF dataVars
<1>3. (doubled => doubled') /\ (row'.status = "COMPLETED" => row.status = "COMPLETED")
  BY <1>0, ApiSteps
<1>4. CountIsBounded' /\ \A j \in Jobs : Bounded(j)'
  BY <1>1, <1>2 DEF Counted, CountIsBounded, Bounded, Found
<1>5. CountsAreCurrent'
  BY <1>1, <1>2 DEF Counted, CountsAreCurrent
<1>6. CompletedIsCounted'
  BY <1>2, <1>3 DEF Counted, CompletedIsCounted
<1> QED
  BY <1>4, <1>5, <1>6

LEMMA OrphanCounted ==
  ASSUME Counted, OrphanExplores \/ OrphanEnds
  PROVE  /\ CountIsBounded' /\ \A j \in Jobs : Bounded(j)'
         /\ CountsAreCurrent' /\ CompletedIsCounted'
<1>0. TypeOK
  BY DEF Counted, Orderly
<1>1. UNCHANGED <<row, pc, slice, stale, doubled>>
  BY OrphanSteps
<1>2. orphan # {} /\ created' \in Nat /\ created' >= created
  BY <1>0 DEF TypeOK, OrphanExplores, OrphanEnds, dataVars
<1>3. CountIsBounded'
  BY <1>0, <1>1, <1>2, Numbers DEF Counted, CountIsBounded, Found
<1>4. ASSUME NEW j \in Jobs PROVE Bounded(j)'
  <2>1. Bounded(j) /\ slice[j].discovered \in Nat /\ (Unreported(j)' <=> Unreported(j))
    BY <1>0, <1>1, Numbers DEF Counted, Unreported
  <2> QED
    BY <1>0, <1>1, <1>2, <2>1, Numbers DEF Bounded, Found
<1>5. ~stale => \A j \in Jobs : ~Unreported(j)
  BY <1>2 DEF Counted, CountsAreCurrent
<1>6. CountsAreCurrent'
  BY <1>1, <1>5 DEF CountsAreCurrent, Unreported
<1>7. CompletedIsCounted'
  BY <1>1, <1>2 DEF Counted, CompletedIsCounted
<1> QED
  BY <1>3, <1>4, <1>6, <1>7

LEMMA AlwaysCounted == Init /\ [][Next]_vars => []Counted
<1>1. Init => Counted
  <2> SUFFICES ASSUME Init PROVE Counted
    OBVIOUS
  <2>1. \A j \in Jobs : ~Unreported(j)
    BY DEF Init, Unreported, SlicePc, FinishPc
  <2>2. row.count = 0 /\ Found \in Nat /\ row.status = "NEW"
    BY InitType, FoundType DEF Init, NewRow
  <2> QED
    BY <2>1, <2>2, InitOrderly
       DEF Counted, CountIsBounded, Bounded, CountsAreCurrent, CompletedIsCounted
<1>2. Counted /\ [Next]_vars => Counted'
  <2> SUFFICES ASSUME Counted, [Next]_vars
               PROVE  /\ CountIsBounded' /\ \A j \in Jobs : Bounded(j)'
                      /\ CountsAreCurrent' /\ CompletedIsCounted'
    BY StepOrderly DEF Counted
  <2>1. ASSUME NEW j \in Jobs, Step(j)
        PROVE  /\ CountIsBounded' /\ \A i \in Jobs : Bounded(i)'
               /\ CountsAreCurrent' /\ CompletedIsCounted'
    BY <2>1, StepBounded, StepCurrent, StepCompletedCounted
  <2>2. CASE UNCHANGED vars
    BY <2>2 DEF vars, jobVars, dataVars, history, Counted, CountIsBounded, Bounded,
       CountsAreCurrent, CompletedIsCounted, Unreported, Found
  <2> QED
    BY <2>1, <2>2, ApiCounted, OrphanCounted DEF Next, Step
<1> QED
  BY <1>1, <1>2, PTL

(* While the slices of a session hand it over to each other, it always has *)
(* a job to drive it, never two, and no state is missing from the count    *)
(* that its completion reports; the exceptions are stated in the parts.    *)
THEOREM HandOversAreSafe == Spec => []HandOverIsSafe
<1>1. Driven => RunningIsDriven
  BY DEF Driven
<1>2. Counted => OneDriver /\ CountIsComplete
  BY DEF Counted, Orderly, CompletedIsCounted, CountIsComplete
<1> QED
  BY <1>1, <1>2, InitDriven, StepDriven, AlwaysCounted, PTL DEF Spec, HandOverIsSafe

(* However its jobs ended, were repeated or failed, a completed session is *)
(* left alone, has the flows of the start that completed it, and counts no *)
(* state that is not in the graph.                                         *)
THEOREM CompletedSessionsAreFinal == Spec => []CompletedIsFinal
<1>1. Flowed /\ Counted => CompletedIsFinal
  BY DEF Flowed, Counted, Orderly, CompletedIsFinal
<1> QED
  BY <1>1, AlwaysFlowed, AlwaysCounted, PTL DEF Spec
=============================================================================
