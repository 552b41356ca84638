---------------------------- MODULE SessionStatus ----------------------------
(***************************************************************************)
(* What a client that only reads the crawl_sessions row may rely on: the   *)
(* life of one crawl session, whatever jobs, pollers, crashes and retries  *)
(* produce it.  CrawlJob and ManualSession are shown to implement this     *)
(* specification.                                                          *)
(***************************************************************************)
EXTENDS Integers

VARIABLES
  status,     \* the status column
  finished,   \* is finished_at set?
  count       \* state_count

sessionVars == <<status, finished, count>>

Open == {"RUNNING", "PAUSED"}

Init == status = "NEW" /\ finished = FALSE /\ count = 0

(* A session that is new, failed or aborted is submitted (again).          *)
Submit ==
  /\ status \in {"NEW", "FAILED", "ABORTED"}
  /\ status' = "QUEUED"
  /\ finished' = FALSE
  /\ UNCHANGED count

Start ==
  /\ status = "QUEUED"
  /\ status' = "RUNNING"
  /\ UNCHANGED <<finished, count>>

Pause ==
  /\ status = "RUNNING"
  /\ status' = "PAUSED"
  /\ UNCHANGED <<finished, count>>

Resume ==
  /\ status = "PAUSED"
  /\ status' \in {"QUEUED", "RUNNING"}
  /\ UNCHANGED <<finished, count>>

(* Aborting may leave the finish time to whoever notices the abort.        *)
Abort ==
  /\ status \in Open \union {"NEW", "QUEUED"}
  /\ status' = "ABORTED"
  /\ finished' \in {finished, TRUE}
  /\ UNCHANGED count

StampAborted ==
  /\ status = "ABORTED"
  /\ finished' = TRUE
  /\ UNCHANGED <<status, count>>

Report ==
  /\ status \in Open
  /\ count' \in Nat
  /\ UNCHANGED <<status, finished>>

Complete ==
  /\ status \in Open
  /\ status' = "COMPLETED"
  /\ finished' = TRUE
  /\ count' \in Nat

Fail ==
  /\ status \in Open
  /\ status' = "FAILED"
  /\ finished' = TRUE
  /\ UNCHANGED count

Next ==
  \/ Submit \/ Start \/ Pause \/ Resume
  \/ Abort \/ StampAborted
  \/ Report \/ Complete \/ Fail

Spec == Init /\ [][Next]_sessionVars
=============================================================================
