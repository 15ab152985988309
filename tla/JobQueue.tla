------------------------------ MODULE JobQueue ------------------------------
(***************************************************************************)
(* One job of a BullMQ queue, as QueueService and WorkerFactory use it.    *)
(* Jobs have deterministic ids, so a module that uses this one keeps one   *)
(* record per thing that can be enqueued.                                  *)
(***************************************************************************)
EXTENDS Naturals

CONSTANT Attempts   \* DEFAULT_JOB_OPTIONS.attempts

ASSUME AttemptsAssumption == Attempts \in Nat \ {0}

\* FAILED is an exhausted job, RECORDED one that job_failure mirrors.  Both stay
\* in Redis for good (removeOnFail: false).
JobState == {"NONE", "WAITING", "ACTIVE", "DONE", "FAILED", "RECORDED"}
Job == [state : JobState, tries : 0 .. Attempts]

NoJob == [state |-> "NONE", tries |-> 0]

\* enqueue: "re-adding an existing job id is a no-op".
Added(j) == IF j.state = "NONE" THEN [state |-> "WAITING", tries |-> 0] ELSE j

Taken(j) == [j EXCEPT !.state = "ACTIVE"]
Completed(j) == [j EXCEPT !.state = "DONE"]

\* removeOnComplete: a completed job is forgotten after an hour or a thousand jobs.
Forgotten(j) == IF j.state = "DONE" THEN NoJob ELSE j

\* A retry policy that never gives up.
ThrownAgain(j) == [state |-> "WAITING", tries |-> j.tries + 1]

\* The processor threw: back off and try again, or give up.
LastTry(j) == j.tries + 1 >= Attempts
Thrown(j) ==
  [state |-> IF LastTry(j) THEN "FAILED" ELSE "WAITING", tries |-> j.tries + 1]

\* onFailed, once no attempts are left: one job_failure row.
Recorded(j) == [j EXCEPT !.state = "RECORDED"]

\* The worker died with the job in its hands: it is delivered again.
Stalled(j) == IF j.state = "ACTIVE" THEN [j EXCEPT !.state = "WAITING"] ELSE j

GivenUp(j) == j.state \in {"FAILED", "RECORDED"}
=============================================================================
