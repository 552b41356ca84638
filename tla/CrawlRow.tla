------------------------------ MODULE CrawlRow ------------------------------
(***************************************************************************)
(* One row of the Postgres table crawl_sessions and the conditional UPDATE *)
(* statements of src/src/db/repositories/crawl_sessions.py.  Every         *)
(* statement is one "UPDATE ... WHERE crawl_session_id = :id AND status IN *)
(* (...)", committed at once, so each is a function from the row before it *)
(* to the row after it.                                                    *)
(*                                                                         *)
(* Kept of the row: its status, whether finished_at is set, the state      *)
(* counter, and started_at, which is the number of times the session was   *)
(* started (0 while started_at is null).  The error text and the           *)
(* transition counter, written by the same statements, are left out, and   *)
(* so is the status UNSPECIFIED, which nothing sets.                       *)
(***************************************************************************)
EXTENDS Integers

Status == {"NEW", "QUEUED", "RUNNING", "PAUSED", "COMPLETED", "FAILED", "ABORTED"}

Row == [status : Status, finished : BOOLEAN, count : Nat, started : Nat]

NewRow == [status |-> "NEW", finished |-> FALSE, count |-> 0, started |-> 0]

(* UPDATE ... SET row = new WHERE status IN statuses                       *)
Where(r, statuses, new) == IF r.status \in statuses THEN new ELSE r

(* The statuses a worker may still write to.                               *)
Active == {"RUNNING", "PAUSED"}

MarkQueuedRunning(r) ==
  Where(r, {"QUEUED"}, [r EXCEPT !.status = "RUNNING", !.started = @ + 1])

(* A mistake: the statement without its status condition.                  *)
MarkCompletedAnyway(r, n) ==
  [r EXCEPT !.status = "COMPLETED", !.finished = TRUE, !.count = n]

MarkCompletedIfRunning(r, n) ==
  Where(r, Active, [r EXCEPT !.status = "COMPLETED", !.finished = TRUE, !.count = n])

UpdateCountsIfActive(r, n) ==
  Where(r, Active, [r EXCEPT !.count = n])

MarkFailedIfRunning(r) ==
  Where(r, Active, [r EXCEPT !.status = "FAILED", !.finished = TRUE])

MarkAbortedIfActive(r) ==
  Where(r, {"NEW", "QUEUED"} \union Active,
        [r EXCEPT !.status = "ABORTED", !.finished = TRUE])

MarkFinishedAtIfAborted(r) ==
  Where(r, {"ABORTED"}, [r EXCEPT !.finished = TRUE])

(* The statement with which a session is (re)submitted, of                 *)
(* src/scripts/probe_crawl_pipeline.py.                                    *)
MarkQueued(r) ==
  Where(r, {"NEW", "FAILED", "ABORTED"},
        [r EXCEPT !.status = "QUEUED", !.finished = FALSE])
=============================================================================
