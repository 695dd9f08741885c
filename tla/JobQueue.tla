------------------------------ MODULE JobQueue ------------------------------
(***************************************************************************)
(* The part of BullMQ that src/ relies on, as operators on the record that *)
(* Redis keeps for one job.  BullMQ is a library outside src/: what is     *)
(* written here is how mail.service.ts and worker.service.ts use it        *)
(* (queue.add, one Worker per process with concurrency 1, attempts,        *)
(* backoff, removeOnComplete).  A transition is one Lua script in Redis    *)
(* and therefore atomic.                                                   *)
(*                                                                         *)
(* A worker that takes a job holds a lock on it.  When the lock is not     *)
(* renewed (the process died, or lost Redis for too long) the job is       *)
(* stalled: it goes back to the waiting list, at most MaxStalled times.    *)
(* A result reported by a worker that no longer owns the lock is ignored.  *)
(***************************************************************************)
EXTENDS Naturals

CONSTANTS Workers,      \* the processes that run a BullMQ Worker
          NoWorker,     \* nobody holds the lock
          MaxStalled    \* BullMQ's maxStalledCount, 1 unless configured

ASSUME JobQueueAssumption == /\ NoWorker \notin Workers
                             /\ MaxStalled \in Nat

(* "none": never added.  "completed": done; the record is then removed,    *)
(* since the callers pass removeOnComplete.  "failed": given up.           *)
JobState == {"none", "waiting", "active", "delayed", "completed", "failed"}

Job == [state        : JobState,
        lock         : Workers \cup {NoWorker},
        attemptsMade : Nat,
        stalled      : Nat,
        failedReason : BOOLEAN,    \* some attempt, or the job, has failed
        processedOn  : BOOLEAN,    \* some worker has taken the job
        finishedOn   : BOOLEAN]    \* the job will not run again

NoJob == [state |-> "none", lock |-> NoWorker, attemptsMade |-> 0,
          stalled |-> 0, failedReason |-> FALSE, processedOn |-> FALSE,
          finishedOn |-> FALSE]

Holds(q, w) == q.state = "active" /\ q.lock = w
Final(q) == q.state \in {"completed", "failed"}

Added(q) == [q EXCEPT !.state = "waiting"]

Taken(q, w) == [q EXCEPT !.state = "active", !.lock = w, !.processedOn = TRUE]

Completed(q) == [q EXCEPT !.state = "completed", !.lock = NoWorker,
                          !.attemptsMade = @ + 1, !.finishedOn = TRUE]

GivenUp(q) == [q EXCEPT !.state = "failed", !.lock = NoWorker,
                        !.failedReason = TRUE, !.finishedOn = TRUE]

(* The attempt threw: wait out the backoff and try again, or give up once  *)
(* the attempts the job was added with are used.                           *)
AttemptFailed(q, attempts) ==
  LET counted == [q EXCEPT !.attemptsMade = @ + 1]
  IN  IF counted.attemptsMade < attempts
      THEN [counted EXCEPT !.state = "delayed", !.lock = NoWorker,
                           !.failedReason = TRUE]
      ELSE GivenUp(counted)

Promoted(q) == [q EXCEPT !.state = "waiting"]

(* The stalled-jobs check on a job whose lock has expired.                 *)
StallChecked(q) ==
  LET counted == [q EXCEPT !.stalled = @ + 1]
  IN  IF counted.stalled > MaxStalled
      THEN GivenUp(counted)
      ELSE [counted EXCEPT !.state = "waiting", !.lock = NoWorker]
=============================================================================
