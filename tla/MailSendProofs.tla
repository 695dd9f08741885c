--------------------------- MODULE MailSendProofs ---------------------------
(***************************************************************************)
(* For every set of jobs, workers and mailboxes, every number of attempts  *)
(* and every bound: every invariant TLC checks of MailSend, and that it    *)
(* implements SendLedger's safety part.                                    *)
(***************************************************************************)
EXTENDS MailSend, FiniteSetTheorems, TLAPS

USE JobQueueAssumption, MailSendAssumption
    DEF JobQueueAssumption, MailSendAssumption

(* The queue's operators map job records to job records, and reach the     *)
(* state "completed" only by Completed.                                    *)
LEMMA GivenUpJob ==
  ASSUME NEW q \in Job
  PROVE  GivenUp(q) \in Job /\ GivenUp(q).state = "failed"
BY DEF Job, JobState, GivenUp

LEMMA AddedJob ==
  ASSUME NEW q \in Job
  PROVE  Added(q) \in Job /\ Added(q).state = "waiting"
BY DEF Job, JobState, Added

LEMMA PromotedJob ==
  ASSUME NEW q \in Job
  PROVE  Promoted(q) \in Job /\ Promoted(q).state = "waiting"
BY DEF Job, JobState, Promoted

LEMMA TakenJob ==
  ASSUME NEW q \in Job, NEW w \in Workers
  PROVE  Taken(q, w) \in Job /\ Taken(q, w).state = "active"
BY DEF Job, JobState, Taken

LEMMA CompletedJob ==
  ASSUME NEW q \in Job
  PROVE  Completed(q) \in Job /\ Completed(q).state = "completed"
<1> DEFINE counted == [q EXCEPT !.attemptsMade = @ + 1]
<1>1. counted \in Job
  BY DEF Job
<1>2. Completed(q) = [counted EXCEPT !.state = "completed",
                                     !.lock = NoWorker, !.finishedOn = TRUE]
  BY DEF Completed, Job
<1> QED
  BY <1>1, <1>2 DEF Job, JobState

LEMMA AttemptFailedJob ==
  ASSUME NEW q \in Job
  PROVE  /\ AttemptFailed(q, Attempts) \in Job
         /\ AttemptFailed(q, Attempts).state \in {"delayed", "failed"}
<1> DEFINE counted == [q EXCEPT !.attemptsMade = @ + 1]
<1>1. counted \in Job
  BY DEF Job
<1>2. GivenUp(counted) \in Job /\ GivenUp(counted).state = "failed"
  BY <1>1, GivenUpJob
<1>3. [counted EXCEPT !.state = "delayed", !.lock = NoWorker,
                      !.failedReason = TRUE] \in Job
  BY <1>1 DEF Job, JobState
<1>4. [counted EXCEPT !.state = "delayed", !.lock = NoWorker,
                      !.failedReason = TRUE].state = "delayed"
  BY <1>1 DEF Job
<1> QED
  BY <1>2, <1>3, <1>4 DEF AttemptFailed

LEMMA StallCheckedJob ==
  ASSUME NEW q \in Job
  PROVE  StallChecked(q) \in Job /\ StallChecked(q).state \in {"waiting", "failed"}
<1> DEFINE counted == [q EXCEPT !.stalled = @ + 1]
<1>1. counted \in Job
  BY DEF Job
<1>2. GivenUp(counted) \in Job /\ GivenUp(counted).state = "failed"
  BY <1>1, GivenUpJob
<1>3. [counted EXCEPT !.state = "waiting", !.lock = NoWorker] \in Job
  BY <1>1 DEF Job, JobState
<1>4. [counted EXCEPT !.state = "waiting", !.lock = NoWorker].state = "waiting"
  BY <1>1 DEF Job
<1> QED
  BY <1>2, <1>3, <1>4 DEF StallChecked

-----------------------------------------------------------------------------
(* A worker past its save has left a row of its job.                       *)
SavedIsLogged ==
  \A w \in Workers : pc[w] \in {"emit", "done"} => rows[task[w]] # <<>>

(* A running worker's job has been added.                                  *)
RunningIsAdded == \A w \in Workers : pc[w] # "idle" => job[task[w]].state # "none"

(* What is about to be read, or was read, justifies the verdict to come.   *)
ReadIsJustified ==
  \A w \in Workers :
    /\ pc[w] = "find" /\ ~IsExpired(MailboxFor(w), now) => usable[w]
    /\ pc[w] = "decide" /\ ~IsExpired(snap[w], now) => usable[w]

IInv == /\ TypeOK
        /\ SavedIsLogged
        /\ RunningIsAdded
        /\ ReadIsJustified
        /\ CompletedIsLogged
        /\ OkVerdictJustified

LEMMA InitIInv == Init => IInv
<1> SUFFICES ASSUME Init PROVE IInv
  OBVIOUS
<1>1. NoTask \in Jobs
  BY DEF NoTask
<1>2. NoJob \in Job
  BY DEF NoJob, Job, JobState
<1>3. TypeOK
  <2>1. rows \in [Jobs -> Seq(Status)] /\ announced \in [Jobs -> Nat]
    BY DEF Init
  <2>2. mailbox \in [Mailboxes -> Token]
    BY DEF Init, Token
  <2>3. job \in [Jobs -> Job] /\ task \in [Workers -> Jobs]
    BY <1>1, <1>2 DEF Init
  <2> QED
    BY <2>1, <2>2, <2>3 DEF Init, TypeOK, PC, Token, Branch
<1>4. SavedIsLogged /\ RunningIsAdded /\ ReadIsJustified
  BY DEF Init, SavedIsLogged, RunningIsAdded, ReadIsJustified
<1>5. CompletedIsLogged /\ OkVerdictJustified
  BY DEF Init, CompletedIsLogged, OkVerdictJustified, NoJob
<1> QED
  BY <1>3, <1>4, <1>5 DEF IInv

LEMMA NoTaskType == NoTask \in Jobs
BY DEF NoTask

(* Writing a row only makes the log longer.                                *)
LEMMA AppendedRow ==
  ASSUME TypeOK, NEW w \in Workers, AppendRow(w)
  PROVE  /\ rows' \in [Jobs -> Seq(Status)]
         /\ rows'[task[w]] # <<>>
         /\ \A j \in Jobs : rows[j] # <<>> => rows'[j] # <<>>
<1> DEFINE s == StatusOf(branch[w])
<1>1. s \in Status /\ task[w] \in Jobs
  BY DEF TypeOK, StatusOf, Status
<1>2. \A r \in Seq(Status) : Append(r, s) \in Seq(Status) /\ Append(r, s) # <<>>
  BY <1>1
<1>3. rows' = [rows EXCEPT ![task[w]] = Append(@, s)]
  BY DEF AppendRow
<1> QED
  BY <1>1, <1>2, <1>3 DEF TypeOK

LEMMA EnqueueKeepsIInv ==
  ASSUME IInv, NEW j \in Jobs, Enqueue(j)
  PROVE  IInv'
<1> USE DEF IInv, Enqueue
<1>1. TypeOK'
  BY AddedJob DEF TypeOK, db, worker, log, history, PC, Branch
<1>2. SavedIsLogged'
  BY AddedJob DEF TypeOK, SavedIsLogged, MailboxFor, db, worker, log, history
<1>3. RunningIsAdded'
  BY AddedJob DEF TypeOK, RunningIsAdded, MailboxFor, db, worker, log, history
<1>4. ReadIsJustified'
  BY AddedJob DEF TypeOK, ReadIsJustified, MailboxFor, db, worker, log, history
<1>5. CompletedIsLogged'
  BY AddedJob DEF TypeOK, CompletedIsLogged, MailboxFor, db, worker, log, history
<1>6. OkVerdictJustified'
  BY AddedJob DEF TypeOK, OkVerdictJustified, MailboxFor, db, worker, log, history
<1> QED
  BY <1>1, <1>2, <1>3, <1>4, <1>5, <1>6

LEMMA PromoteKeepsIInv ==
  ASSUME IInv, NEW j \in Jobs, Promote(j)
  PROVE  IInv'
<1> USE DEF IInv, Promote
<1>1. TypeOK'
  BY PromotedJob DEF TypeOK, db, worker, log, history, PC, Branch
<1>2. SavedIsLogged'
  BY PromotedJob DEF TypeOK, SavedIsLogged, MailboxFor, db, worker, log, history
<1>3. RunningIsAdded'
  BY PromotedJob DEF TypeOK, RunningIsAdded, MailboxFor, db, worker, log, history
<1>4. ReadIsJustified'
  BY PromotedJob DEF TypeOK, ReadIsJustified, MailboxFor, db, worker, log, history
<1>5. CompletedIsLogged'
  BY PromotedJob DEF TypeOK, CompletedIsLogged, MailboxFor, db, worker, log, history
<1>6. OkVerdictJustified'
  BY PromotedJob DEF TypeOK, OkVerdictJustified, MailboxFor, db, worker, log, history
<1> QED
  BY <1>1, <1>2, <1>3, <1>4, <1>5, <1>6

LEMMA TakeKeepsIInv ==
  ASSUME IInv, NEW j \in Jobs, NEW w \in Workers, Take(w, j)
  PROVE  IInv'
<1> USE DEF IInv, Take
<1>1. TypeOK'
  BY TakenJob DEF TypeOK, db, worker, log, history, PC, Branch
<1>2. SavedIsLogged'
  BY TakenJob DEF TypeOK, SavedIsLogged, MailboxFor, db, worker, log, history
<1>3. RunningIsAdded'
  BY TakenJob DEF TypeOK, RunningIsAdded, MailboxFor, db, worker, log, history
<1>4. ReadIsJustified'
  BY TakenJob DEF TypeOK, ReadIsJustified, MailboxFor, db, worker, log, history
<1>5. CompletedIsLogged'
  BY TakenJob DEF TypeOK, CompletedIsLogged, MailboxFor, db, worker, log, history
<1>6. OkVerdictJustified'
  BY TakenJob DEF TypeOK, OkVerdictJustified, MailboxFor, db, worker, log, history
<1> QED
  BY <1>1, <1>2, <1>3, <1>4, <1>5, <1>6

LEMMA StallKeepsIInv ==
  ASSUME IInv, NEW j \in Jobs, StallAbandoned(j) \/ StallRunning(j)
  PROVE  IInv'
<1> USE DEF IInv
<1>step. /\ job' = [job EXCEPT ![j] = StallChecked(@)]
      /\ job[j].state = "active"
      /\ UNCHANGED <<db, worker, log, history>>
      /\ faults' \in [Jobs -> Nat]
  BY DEF TypeOK, StallAbandoned, StallRunning, Fault
<1>1. TypeOK'
  BY <1>step, StallCheckedJob DEF TypeOK, db, worker, log, history, PC, Branch
<1>2. SavedIsLogged'
  BY <1>step, StallCheckedJob DEF TypeOK, SavedIsLogged, MailboxFor, db, worker, log, history
<1>3. RunningIsAdded'
  BY <1>step, StallCheckedJob DEF TypeOK, RunningIsAdded, MailboxFor, db, worker, log, history
<1>4. ReadIsJustified'
  BY <1>step, StallCheckedJob DEF TypeOK, ReadIsJustified, MailboxFor, db, worker, log, history
<1>5. CompletedIsLogged'
  BY <1>step, StallCheckedJob DEF TypeOK, CompletedIsLogged, MailboxFor, db, worker, log, history
<1>6. OkVerdictJustified'
  BY <1>step, StallCheckedJob DEF TypeOK, OkVerdictJustified, MailboxFor, db, worker, log, history
<1> QED
  BY <1>1, <1>2, <1>3, <1>4, <1>5, <1>6

LEMMA FindMailboxKeepsIInv ==
  ASSUME IInv, NEW w \in Workers, FindMailbox(w)
  PROVE  IInv'
<1> USE DEF IInv, FindMailbox, Goto
<1>step. MailboxFor(w) \in Token
  BY DEF TypeOK, MailboxFor
<1>1. TypeOK'
  BY <1>step DEF TypeOK, db, worker, log, history, PC, Branch
<1>2. SavedIsLogged'
  BY DEF TypeOK, SavedIsLogged, MailboxFor, db, worker, log, history
<1>3. RunningIsAdded'
  BY DEF TypeOK, RunningIsAdded, MailboxFor, db, worker, log, history
<1>4. ReadIsJustified'
  BY DEF TypeOK, ReadIsJustified, MailboxFor, db, worker, log, history
<1>5. CompletedIsLogged'
  BY DEF TypeOK, CompletedIsLogged, MailboxFor, db, worker, log, history
<1>6. OkVerdictJustified'
  BY DEF TypeOK, OkVerdictJustified, MailboxFor, db, worker, log, history
<1> QED
  BY <1>1, <1>2, <1>3, <1>4, <1>5, <1>6

LEMMA FindFailsKeepsIInv ==
  ASSUME IInv, NEW w \in Workers, FindFails(w)
  PROVE  IInv'
<1> USE DEF IInv, FindFails, Goto, Fault
<1>1. TypeOK'
  BY DEF TypeOK, db, worker, log, history, PC, Branch
<1>2. SavedIsLogged'
  BY DEF TypeOK, SavedIsLogged, MailboxFor, db, worker, log, history
<1>3. RunningIsAdded'
  BY DEF TypeOK, RunningIsAdded, MailboxFor, db, worker, log, history
<1>4. ReadIsJustified'
  BY DEF TypeOK, ReadIsJustified, MailboxFor, db, worker, log, history
<1>5. CompletedIsLogged'
  BY DEF TypeOK, CompletedIsLogged, MailboxFor, db, worker, log, history
<1>6. OkVerdictJustified'
  BY DEF TypeOK, OkVerdictJustified, MailboxFor, db, worker, log, history
<1> QED
  BY <1>1, <1>2, <1>3, <1>4, <1>5, <1>6

LEMMA DecideKeepsIInv ==
  ASSUME IInv, NEW w \in Workers, Decide(w)
  PROVE  IInv'
<1> USE DEF IInv, Decide, Goto
<1>1. TypeOK'
  BY DEF TypeOK, db, worker, log, history, PC, Branch
<1>2. SavedIsLogged'
  BY DEF TypeOK, SavedIsLogged, MailboxFor, db, worker, log, history
<1>3. RunningIsAdded'
  BY DEF TypeOK, RunningIsAdded, MailboxFor, db, worker, log, history
<1>4. ReadIsJustified'
  BY DEF TypeOK, ReadIsJustified, MailboxFor, db, worker, log, history
<1>5. CompletedIsLogged'
  BY DEF TypeOK, CompletedIsLogged, MailboxFor, db, worker, log, history
<1>step. branch'[w] = "ok" => ~IsExpired(snap[w], now)
  BY DEF TypeOK
<1>6. OkVerdictJustified'
  <2> SUFFICES ASSUME NEW v \in Workers, branch'[v] = "ok",
                      pc'[v] \in {"save", "emit", "done"}
               PROVE  usable'[v]
    BY DEF OkVerdictJustified
  <2>1. usable' = usable /\ pc[w] = "decide"
    BY DEF history
  <2>2. CASE v = w
    BY <1>step, <2>1, <2>2 DEF ReadIsJustified
  <2>3. CASE v # w
    <3>1. pc'[v] = pc[v] /\ branch'[v] = branch[v]
      BY <2>3 DEF TypeOK
    <3> QED
      BY <2>1, <3>1 DEF OkVerdictJustified
  <2> QED
    BY <2>2, <2>3
<1> QED
  BY <1>1, <1>2, <1>3, <1>4, <1>5, <1>6

LEMMA SaveKeepsIInv ==
  ASSUME IInv, NEW w \in Workers, Save(w)
  PROVE  IInv'
<1> USE DEF IInv, Save, Goto
<1>step. /\ rows' \in [Jobs -> Seq(Status)]
      /\ rows'[task[w]] # <<>>
      /\ \A j \in Jobs : rows[j] # <<>> => rows'[j] # <<>>
  BY AppendedRow DEF Save
<1>1. TypeOK'
  BY <1>step DEF TypeOK, db, worker, log, history, PC, Branch
<1>2. SavedIsLogged'
  BY <1>step DEF TypeOK, SavedIsLogged, MailboxFor, db, worker, log, history
<1>3. RunningIsAdded'
  BY DEF TypeOK, RunningIsAdded, MailboxFor, db, worker, log, history
<1>4. ReadIsJustified'
  BY DEF TypeOK, ReadIsJustified, MailboxFor, db, worker, log, history
<1>5. CompletedIsLogged'
  BY <1>step DEF TypeOK, CompletedIsLogged, MailboxFor, db, worker, log, history
<1>6. OkVerdictJustified'
  BY DEF TypeOK, OkVerdictJustified, MailboxFor, db, worker, log, history
<1> QED
  BY <1>1, <1>2, <1>3, <1>4, <1>5, <1>6

LEMMA RejectionKeepsIInv ==
  ASSUME IInv, NEW w \in Workers, SaveViolatesForeignKey(w) \/ SaveFails(w)
  PROVE  IInv'
<1> USE DEF IInv, SaveViolatesForeignKey, SaveFails, Rejected, Goto, Fault
<1>step. pc' \in [Workers -> PC] /\ branch' \in [Workers -> Branch]
  BY DEF TypeOK, PC, Branch
<1>types. faults' \in [Jobs -> Nat]
  BY DEF TypeOK
<1>1. TypeOK'
  BY <1>step, <1>types DEF TypeOK, db, worker, log, history
<1>2. SavedIsLogged'
  BY DEF TypeOK, SavedIsLogged, MailboxFor, db, worker, log, history
<1>3. RunningIsAdded'
  BY DEF TypeOK, RunningIsAdded, MailboxFor, db, worker, log, history
<1>4. ReadIsJustified'
  BY DEF TypeOK, ReadIsJustified, MailboxFor, db, worker, log, history
<1>5. CompletedIsLogged'
  BY DEF TypeOK, CompletedIsLogged, MailboxFor, db, worker, log, history
<1>6. OkVerdictJustified'
  BY DEF TypeOK, OkVerdictJustified, MailboxFor, db, worker, log, history
<1> QED
  BY <1>1, <1>2, <1>3, <1>4, <1>5, <1>6

LEMMA SaveLosesAckKeepsIInv ==
  ASSUME IInv, NEW w \in Workers, SaveLosesAck(w)
  PROVE  IInv'
<1> USE DEF IInv, SaveLosesAck, Rejected, Goto, Fault
<1>step. /\ rows' \in [Jobs -> Seq(Status)]
      /\ rows'[task[w]] # <<>>
      /\ \A j \in Jobs : rows[j] # <<>> => rows'[j] # <<>>
  BY AppendedRow DEF SaveLosesAck
<1>fault. faults' \in [Jobs -> Nat]
  BY DEF TypeOK
<1>types. pc' \in [Workers -> PC] /\ branch' \in [Workers -> Branch]
  BY DEF TypeOK, PC, Branch
<1>1. TypeOK'
  BY <1>step, <1>types, <1>fault DEF TypeOK, db, worker, log, history
<1>2. SavedIsLogged'
  BY <1>step DEF TypeOK, SavedIsLogged, MailboxFor, db, worker, log, history
<1>3. RunningIsAdded'
  BY DEF TypeOK, RunningIsAdded, MailboxFor, db, worker, log, history
<1>4. ReadIsJustified'
  BY DEF TypeOK, ReadIsJustified, MailboxFor, db, worker, log, history
<1>5. CompletedIsLogged'
  BY <1>step DEF TypeOK, CompletedIsLogged, MailboxFor, db, worker, log, history
<1>6. OkVerdictJustified'
  BY DEF TypeOK, OkVerdictJustified, MailboxFor, db, worker, log, history
<1> QED
  BY <1>1, <1>2, <1>3, <1>4, <1>5, <1>6

LEMMA EmitKeepsIInv ==
  ASSUME IInv, NEW w \in Workers, Emit(w)
  PROVE  IInv'
<1> USE DEF IInv, Emit, Goto
<1>1. TypeOK'
  BY DEF TypeOK, db, worker, log, history, PC, Branch
<1>2. SavedIsLogged'
  BY DEF TypeOK, SavedIsLogged, MailboxFor, db, worker, log, history
<1>3. RunningIsAdded'
  BY DEF TypeOK, RunningIsAdded, MailboxFor, db, worker, log, history
<1>4. ReadIsJustified'
  BY DEF TypeOK, ReadIsJustified, MailboxFor, db, worker, log, history
<1>5. CompletedIsLogged'
  BY DEF TypeOK, CompletedIsLogged, MailboxFor, db, worker, log, history
<1>6. OkVerdictJustified'
  BY DEF TypeOK, OkVerdictJustified, MailboxFor, db, worker, log, history
<1> QED
  BY <1>1, <1>2, <1>3, <1>4, <1>5, <1>6

LEMMA FinishKeepsIInv ==
  ASSUME IInv, NEW w \in Workers, Finish(w)
  PROVE  IInv'
<1> USE DEF IInv, Finish, Leave, Goto, Holds
<1>types. /\ pc' \in [Workers -> PC] /\ task' \in [Workers -> Jobs]
       /\ snap' \in [Workers -> Token] /\ branch' \in [Workers -> Branch]
       /\ usable' \in [Workers -> BOOLEAN]
  BY NoTaskType DEF TypeOK, PC, Branch, Token
<1>step. job' \in [Jobs -> Job]
  BY CompletedJob, AttemptFailedJob DEF TypeOK
<1>1. TypeOK'
  BY <1>types, <1>step DEF TypeOK, db, log
<1>2. SavedIsLogged'
  BY NoTaskType, CompletedJob, AttemptFailedJob DEF TypeOK, SavedIsLogged, MailboxFor, db, worker, log, history
<1>3. RunningIsAdded'
  BY NoTaskType, CompletedJob, AttemptFailedJob DEF TypeOK, RunningIsAdded, MailboxFor, db, worker, log, history
<1>4. ReadIsJustified'
  BY NoTaskType, CompletedJob, AttemptFailedJob DEF TypeOK, ReadIsJustified, MailboxFor, db, worker, log, history
<1>5. CompletedIsLogged'
  <2> SUFFICES ASSUME NEW j \in Jobs, job'[j].state = "completed"
               PROVE  rows[j] # <<>>
    BY DEF CompletedIsLogged, log
  <2>1. CASE job[j].state = "completed"
    BY <2>1 DEF CompletedIsLogged
  <2>2. CASE job[j].state # "completed"
    <3>1. j = task[w] /\ pc[w] = "done"
      BY <2>2, AttemptFailedJob DEF TypeOK
    <3> QED
      BY <3>1 DEF SavedIsLogged
  <2> QED
    BY <2>1, <2>2
<1>6. OkVerdictJustified'
  BY NoTaskType, CompletedJob, AttemptFailedJob DEF TypeOK, OkVerdictJustified, MailboxFor, db, worker, log, history
<1> QED
  BY <1>1, <1>2, <1>3, <1>4, <1>5, <1>6

LEMMA CrashKeepsIInv ==
  ASSUME IInv, NEW w \in Workers, Crash(w)
  PROVE  IInv'
<1> USE DEF IInv, Crash, Leave, Goto, Fault
<1>types. /\ pc' \in [Workers -> PC] /\ task' \in [Workers -> Jobs]
       /\ snap' \in [Workers -> Token] /\ branch' \in [Workers -> Branch]
       /\ usable' \in [Workers -> BOOLEAN]
  BY NoTaskType DEF TypeOK, PC, Branch, Token
<1>1. TypeOK'
  BY <1>types DEF TypeOK, db, log
<1>2. SavedIsLogged'
  BY NoTaskType DEF TypeOK, SavedIsLogged, MailboxFor, db, worker, log, history
<1>3. RunningIsAdded'
  BY NoTaskType DEF TypeOK, RunningIsAdded, MailboxFor, db, worker, log, history
<1>4. ReadIsJustified'
  BY NoTaskType DEF TypeOK, ReadIsJustified, MailboxFor, db, worker, log, history
<1>5. CompletedIsLogged'
  BY NoTaskType DEF TypeOK, CompletedIsLogged, MailboxFor, db, worker, log, history
<1>6. OkVerdictJustified'
  BY NoTaskType DEF TypeOK, OkVerdictJustified, MailboxFor, db, worker, log, history
<1> QED
  BY <1>1, <1>2, <1>3, <1>4, <1>5, <1>6

LEMMA SetTokenKeepsIInv ==
  ASSUME IInv, NEW m \in Mailboxes, SetToken(m)
  PROVE  IInv'
<1> USE DEF IInv, SetToken
<1>step. mailbox' \in [Mailboxes -> Token]
  BY DEF TypeOK, Token
<1>types. usable' \in [Workers -> BOOLEAN]
  BY DEF TypeOK
<1>1. TypeOK'
  BY <1>step, <1>types DEF TypeOK, worker, log
<1>2. SavedIsLogged'
  BY DEF TypeOK, SavedIsLogged, MailboxFor, db, worker, log, history
<1>3. RunningIsAdded'
  BY DEF TypeOK, RunningIsAdded, MailboxFor, db, worker, log, history
<1>4. ReadIsJustified'
  BY DEF TypeOK, ReadIsJustified, MailboxFor, db, worker, log, history
<1>5. CompletedIsLogged'
  BY DEF TypeOK, CompletedIsLogged, MailboxFor, db, worker, log, history
<1>6. OkVerdictJustified'
  BY DEF TypeOK, OkVerdictJustified, MailboxFor, db, worker, log, history
<1> QED
  BY <1>1, <1>2, <1>3, <1>4, <1>5, <1>6

LEMMA TickKeepsIInv ==
  ASSUME IInv, Tick
  PROVE  IInv'
<1> USE DEF IInv, Tick, IsExpired
<1>1. TypeOK'
  BY DEF TypeOK, db, worker, log, history, PC, Branch
<1>2. SavedIsLogged'
  BY DEF TypeOK, SavedIsLogged, MailboxFor, db, worker, log, history
<1>3. RunningIsAdded'
  BY DEF TypeOK, RunningIsAdded, MailboxFor, db, worker, log, history
<1>4. ReadIsJustified'
  BY DEF TypeOK, ReadIsJustified, MailboxFor, db, worker, log, history
<1>5. CompletedIsLogged'
  BY DEF TypeOK, CompletedIsLogged, MailboxFor, db, worker, log, history
<1>6. OkVerdictJustified'
  BY DEF TypeOK, OkVerdictJustified, MailboxFor, db, worker, log, history
<1> QED
  BY <1>1, <1>2, <1>3, <1>4, <1>5, <1>6

-----------------------------------------------------------------------------
LEMMA NextIInv == IInv /\ [Next]_vars => IInv'
<1> SUFFICES ASSUME IInv, [Next]_vars PROVE IInv'
  OBVIOUS
<1>1. ASSUME NEW j \in Jobs, Enqueue(j) \/ QueueStep(j) \/ StallRunning(j)
      PROVE  IInv'
  BY <1>1, EnqueueKeepsIInv, TakeKeepsIInv, PromoteKeepsIInv, StallKeepsIInv
     DEF QueueStep
<1>2. ASSUME NEW w \in Workers, SendStep(w)
      PROVE  IInv'
  BY <1>2, FindMailboxKeepsIInv, DecideKeepsIInv, SaveKeepsIInv,
     RejectionKeepsIInv, EmitKeepsIInv, FinishKeepsIInv DEF SendStep
<1>3. ASSUME NEW w \in Workers, FaultStep(w)
      PROVE  IInv'
  BY <1>3, FindFailsKeepsIInv, RejectionKeepsIInv, SaveLosesAckKeepsIInv,
     CrashKeepsIInv DEF FaultStep
<1>4. ASSUME NEW m \in Mailboxes, SetToken(m)
      PROVE  IInv'
  BY <1>4, SetTokenKeepsIInv
<1>5. CASE Tick
  BY <1>5, TickKeepsIInv
<1>6. CASE UNCHANGED vars
  BY <1>6 DEF vars, db, worker, log, history, IInv, TypeOK, SavedIsLogged,
              RunningIsAdded, ReadIsJustified, CompletedIsLogged,
              OkVerdictJustified, MailboxFor
<1> QED
  BY <1>1, <1>2, <1>3, <1>4, <1>5, <1>6 DEF Next

LEMMA SpecIInv == Spec => []IInv
  BY InitIInv, NextIInv, PTL DEF Spec

(* Every variable of MailSend keeps its type.                              *)
THEOREM TypeCorrect == Spec => []TypeOK
<1>1. IInv => TypeOK
  BY DEF IInv
<1> QED
  BY SpecIInv, <1>1, PTL

(* No send is completed without a row in the event log, whatever fails.    *)
THEOREM NoSilentCompletion == Spec => []CompletedIsLogged
<1>1. IInv => CompletedIsLogged
  BY DEF IInv
<1> QED
  BY SpecIInv, <1>1, PTL

(* An 'ok' row is only ever written for a token that was usable during the *)
(* attempt, whatever happens between reading it and writing the row.       *)
THEOREM OkIsJustified == Spec => []OkVerdictJustified
<1>1. IInv => OkVerdictJustified
  BY DEF IInv
<1> QED
  BY SpecIInv, <1>1, PTL

-----------------------------------------------------------------------------
(* Refinement of SendLedger.                                               *)

phases == [j \in Jobs |-> Phase(job[j])]

LEMMA PhaseOfStep ==
  ASSUME TypeOK, NEW j \in Jobs, NEW q \in Job, job' = [job EXCEPT ![j] = q]
  PROVE  phases' = [phases EXCEPT ![j] = Phase(q)]
BY DEF TypeOK, phases

LEMMA PhaseValues ==
  ASSUME NEW q \in Job
  PROVE  /\ q.state = "none" => Phase(q) = "new"
         /\ q.state \in {"waiting", "active", "delayed"} => Phase(q) = "accepted"
         /\ q.state = "completed" => Phase(q) = "done"
         /\ q.state = "failed" => Phase(q) = "lost"
         /\ Phase(q) = "new" => q.state = "none"
BY DEF Phase, Job, JobState

(* A step that changes only one job's record, between states of the same   *)
(* phase, is invisible; from an open phase to "failed" it loses the job.   *)
LEMMA QueueMove ==
  ASSUME TypeOK, NEW j \in Jobs, NEW q \in Job, job' = [job EXCEPT ![j] = q],
         job[j].state \in {"waiting", "active", "delayed"},
         q.state \in {"waiting", "active", "delayed", "failed"}, rows' = rows
  PROVE  [Ledger!Next]_(Ledger!vars)
<1>1. job[j] \in Job /\ phases[j] = Phase(job[j]) /\ phases \in [Jobs -> {Phase(job[i]) : i \in Jobs}]
  BY DEF TypeOK, phases
<1>2. phases[j] = "accepted"
  BY <1>1, PhaseValues
<1>3. phases' = [phases EXCEPT ![j] = Phase(q)]
  BY PhaseOfStep
<1>4. CASE q.state = "failed"
  <2>1. Phase(q) = "lost"
    BY <1>4, PhaseValues
  <2>2. Ledger!Lose(j)
    BY <1>2, <1>3, <2>1 DEF Ledger!Lose, Ledger!Move, phases
  <2> QED
    BY <2>2 DEF Ledger!Next, Ledger!Decide
<1>5. CASE q.state # "failed"
  <2>1. Phase(q) = "accepted"
    BY <1>5, PhaseValues
  <2>2. phases' = phases
    BY <1>1, <1>2, <1>3, <2>1
  <2> QED
    BY <2>2 DEF Ledger!vars, phases
<1> QED
  BY <1>4, <1>5

(* Neither the phases nor the rows change.                                 *)
LEMMA Invisible ==
  ASSUME job' = job, rows' = rows
  PROVE  [Ledger!Next]_(Ledger!vars)
BY DEF Ledger!vars

LEMMA WriteIsLog ==
  ASSUME IInv, NEW w \in Workers, pc[w] # "idle", AppendRow(w), job' = job
  PROVE  [Ledger!Next]_(Ledger!vars)
<1> DEFINE j == task[w]
           s == StatusOf(branch[w])
<1>1. j \in Jobs /\ job[j] \in Job /\ job[j].state # "none"
  BY DEF IInv, TypeOK, RunningIsAdded
<1>2. phases[j] # "new" /\ phases' = phases
  BY <1>1, PhaseValues DEF phases
<1>3. s \in Ledger!Status
  BY DEF StatusOf, Ledger!Status
<1>4. rows' = [rows EXCEPT ![j] = Append(@, s)]
  BY DEF AppendRow
<1>5. Ledger!Log(j)
  BY <1>2, <1>3, <1>4 DEF Ledger!Log, phases
<1> QED
  BY <1>1, <1>5 DEF Ledger!Next

LEMMA FinishIsDecide ==
  ASSUME IInv, NEW w \in Workers, Finish(w)
  PROVE  [Ledger!Next]_(Ledger!vars)
<1> DEFINE j == task[w]
<1>1. j \in Jobs /\ job[j] \in Job /\ rows' = rows
  BY DEF IInv, TypeOK, Finish, log
<1>2. CASE ~Holds(job[j], w)
  BY <1>1, <1>2, Invisible DEF Finish
<1>3. CASE Holds(job[j], w) /\ pc[w] = "thrown"
  <2>1. job' = [job EXCEPT ![j] = AttemptFailed(job[j], Attempts)]
    BY <1>3 DEF Finish
  <2>2. job[j].state = "active"
    BY <1>3 DEF Holds
  <2> QED
    BY <1>1, <2>1, <2>2, AttemptFailedJob, QueueMove DEF IInv
<1>4. CASE Holds(job[j], w) /\ pc[w] = "done"
  <2>1. job' = [job EXCEPT ![j] = Completed(job[j])]
    BY <1>4 DEF Finish
  <2>2. phases' = [phases EXCEPT ![j] = "done"]
    <3>1. Completed(job[j]) \in Job /\ Phase(Completed(job[j])) = "done"
      BY <1>1, CompletedJob, PhaseValues
    <3> QED
      BY <1>1, <2>1, <3>1, PhaseOfStep DEF IInv
  <2>3. phases[j] = "accepted"
    BY <1>1, <1>4, PhaseValues DEF phases, Holds
  <2>4. rows[j] # <<>>
    BY <1>4 DEF IInv, SavedIsLogged
  <2>5. Ledger!Done(j)
    BY <1>1, <2>2, <2>3, <2>4 DEF Ledger!Done, Ledger!Move, phases
  <2> QED
    BY <1>1, <2>5 DEF Ledger!Next, Ledger!Decide
<1> QED
  BY <1>2, <1>3, <1>4 DEF Finish

LEMMA QueueStepLedger ==
  ASSUME IInv, NEW j \in Jobs, Enqueue(j) \/ QueueStep(j) \/ StallRunning(j)
  PROVE  [Ledger!Next]_(Ledger!vars)
<1>1. job[j] \in Job /\ TypeOK
  BY DEF IInv, TypeOK
<1>2. CASE Enqueue(j)
  <2>1. job' = [job EXCEPT ![j] = Added(job[j])] /\ rows' = rows
    BY <1>2 DEF Enqueue, log
  <2>2. phases' = [phases EXCEPT ![j] = "accepted"]
    <3>1. Added(job[j]) \in Job /\ Phase(Added(job[j])) = "accepted"
      BY <1>1, AddedJob, PhaseValues
    <3> QED
      BY <1>1, <2>1, <3>1, PhaseOfStep
  <2>3. phases[j] = "new"
    BY <1>1, <1>2, PhaseValues DEF phases, Enqueue
  <2>4. Ledger!Accept(j)
    BY <2>1, <2>2, <2>3 DEF Ledger!Accept, Ledger!Move, phases
  <2> QED
    BY <2>4 DEF Ledger!Next
<1>3. ASSUME NEW w \in Workers, Take(w, j)
      PROVE  [Ledger!Next]_(Ledger!vars)
  <2>1. job' = [job EXCEPT ![j] = Taken(job[j], w)] /\ rows' = rows
        /\ job[j].state = "waiting"
    BY <1>3 DEF Take, log
  <2> QED
    BY <1>1, <2>1, TakenJob, QueueMove
<1>4. CASE Promote(j)
  <2>1. job' = [job EXCEPT ![j] = Promoted(job[j])] /\ rows' = rows
        /\ job[j].state = "delayed"
    BY <1>4 DEF Promote, log
  <2> QED
    BY <1>1, <2>1, PromotedJob, QueueMove
<1>5. CASE StallAbandoned(j) \/ StallRunning(j)
  <2>1. job' = [job EXCEPT ![j] = StallChecked(job[j])] /\ rows' = rows
        /\ job[j].state = "active"
    BY <1>5 DEF StallAbandoned, StallRunning, log
  <2> QED
    BY <1>1, <2>1, StallCheckedJob, QueueMove
<1> QED
  BY <1>2, <1>3, <1>4, <1>5 DEF QueueStep

LEMMA NextLedger == IInv /\ [Next]_vars => [Ledger!Next]_(Ledger!vars)
<1> SUFFICES ASSUME IInv, [Next]_vars PROVE [Ledger!Next]_(Ledger!vars)
  OBVIOUS
<1>1. ASSUME NEW j \in Jobs, Enqueue(j) \/ QueueStep(j) \/ StallRunning(j)
      PROVE  [Ledger!Next]_(Ledger!vars)
  BY <1>1, QueueStepLedger
<1>2. ASSUME NEW w \in Workers, Save(w) \/ SaveLosesAck(w)
      PROVE  [Ledger!Next]_(Ledger!vars)
  BY <1>2, WriteIsLog DEF Save, SaveLosesAck
<1>3. ASSUME NEW w \in Workers, Finish(w)
      PROVE  [Ledger!Next]_(Ledger!vars)
  BY <1>3, FinishIsDecide
<1>4. ASSUME NEW w \in Workers,
             \/ FindMailbox(w) \/ FindFails(w) \/ Decide(w) \/ Emit(w)
             \/ SaveViolatesForeignKey(w) \/ SaveFails(w) \/ Crash(w)
      PROVE  [Ledger!Next]_(Ledger!vars)
  <2>1. job' = job /\ rows' = rows
    BY <1>4 DEF FindMailbox, FindFails, Decide, Emit, SaveViolatesForeignKey,
                SaveFails, Crash, log
  <2> QED
    BY <2>1, Invisible
<1>5. ASSUME NEW m \in Mailboxes, SetToken(m)
      PROVE  [Ledger!Next]_(Ledger!vars)
  BY <1>5, Invisible DEF SetToken, log
<1>6. CASE Tick \/ UNCHANGED vars
  BY <1>6, Invisible DEF Tick, vars, log
<1> QED
  BY <1>1, <1>2, <1>3, <1>4, <1>5, <1>6 DEF Next, SendStep, FaultStep

(* The queue and its workers implement the ledger's safety part.           *)
THEOREM ImplementsLedgerSafety == Spec => Ledger!Safety
<1>1. Init => Ledger!Init
  BY DEF Init, Ledger!Init, Phase, NoJob
<1> QED
  BY SpecIInv, <1>1, NextLedger, PTL DEF Spec, Ledger!Safety
-----------------------------------------------------------------------------
(* What the attempts cost, and what they leave.                            *)

(* Where worker w is in its attempt: it may still write two rows, or one   *)
(* from the catch block, announce one, or report that it threw.            *)
Kind(w) == IF pc[w] \in {"find", "decide"} \/ (pc[w] = "save" /\ branch[w] # "caught")
           THEN "fresh" ELSE IF pc[w] = "save" THEN "retrying" ELSE pc[w]
Kinds == {"fresh", "retrying", "emit", "thrown"}

Crew(k, j) == {w \in Workers : task[w] = j /\ Kind(w) = k}
N(k, j) == Cardinality(Crew(k, j))

(* The job's worker is gone, and the stalled check has yet to come.        *)
Left(j) == job[j].state = "active" /\ Abandoned(j)

(* How often processSend was started on the job.                           *)
Starts(q) == q.attemptsMade + q.stalled + (IF q.state = "active" THEN 1 ELSE 0)

AttemptsOK(q) ==
  /\ q.state = "none" => q.attemptsMade = 0 /\ q.stalled = 0
  /\ q.state \notin {"completed", "failed"} => q.attemptsMade < Attempts
  /\ IF q.state = "failed"
     THEN \/ q.attemptsMade = Attempts /\ q.stalled <= MaxStalled
          \/ q.attemptsMade < Attempts /\ q.stalled = MaxStalled + 1
     ELSE q.attemptsMade <= Attempts /\ q.stalled <= MaxStalled

(* The accounts of a job q with r rows, a of them announced, x fresh and   *)
(* s retrying workers, p about to announce and t that threw; l: it was     *)
(* left, k: its mailbox is known; n failures struck the work on it so far. *)
Balance(q, r, a, x, s, p, t, l, k, n) ==
  /\ r + 2 * x + s <= 2 * Starts(q)
  /\ r + x + s + t
       + (IF q.state \in {"none", "waiting", "delayed"} \/ l THEN 1 ELSE 0) <= 1 + n
  /\ a + p <= r /\ r <= a + p + n
  /\ k /\ q.state # "completed" =>
       q.attemptsMade + t + q.stalled + (IF l THEN 1 ELSE 0) <= n
  /\ AttemptsOK(q)

Balanced(j) ==
  Balance(job[j], Len(rows[j]), announced[j], N("fresh", j), N("retrying", j),
          N("emit", j), N("thrown", j), Left(j), known[j], faults[j])

CountInv == /\ \A j \in Jobs : /\ Balanced(j)
                               /\ \A k \in Kinds : IsFiniteSet(Crew(k, j))
                               /\ known[j] => mailbox[MailboxOf[j]] # Missing

(* Putting w in the set or out of it, as B says.                           *)
LEMMA Recount ==
  ASSUME NEW S, IsFiniteSet(S), NEW w, NEW B \in BOOLEAN
  PROVE  LET T == (S \ {w}) \cup (IF B THEN {w} ELSE {})
         IN  /\ IsFiniteSet(T) /\ Cardinality(T) \in Nat /\ Cardinality(S) \in Nat
             /\ Cardinality(T) = Cardinality(S) - (IF w \in S THEN 1 ELSE 0)
                                                + (IF B THEN 1 ELSE 0)
<1>1. IsFiniteSet(S \ {w}) /\ Cardinality(S) \in Nat
      /\ Cardinality(S \ {w}) = IF w \in S THEN Cardinality(S) - 1 ELSE Cardinality(S)
  BY FS_RemoveElement, FS_CardinalityType
<1>2. Cardinality(S \ {w}) \in Nat
  BY <1>1, FS_CardinalityType
<1>3. CASE B
  <2>1. /\ IsFiniteSet((S \ {w}) \cup {w})
        /\ Cardinality((S \ {w}) \cup {w}) = Cardinality(S \ {w}) + 1
    BY <1>1, FS_AddElement
  <2> QED
    BY <1>1, <1>2, <1>3, <2>1
<1>4. CASE ~B
  <2>1. (S \ {w}) \cup (IF B THEN {w} ELSE {}) = S \ {w}
    BY <1>4
  <2> QED
    BY <1>1, <1>2, <1>4, <2>1
<1> QED
  BY <1>3, <1>4

(* A step of worker w changes a crew by w's leaving and entering.          *)
LEMMA CrewStep ==
  ASSUME CountInv, NEW w \in Workers, NEW j \in Jobs, NEW k \in Kinds,
         \A v \in Workers :
           v # w => pc'[v] = pc[v] /\ task'[v] = task[v] /\ branch'[v] = branch[v]
  PROVE  /\ IsFiniteSet(Crew(k, j))' /\ N(k, j)' \in Nat /\ N(k, j) \in Nat
         /\ N(k, j)' = N(k, j) - (IF task[w] = j /\ Kind(w) = k THEN 1 ELSE 0)
                               + (IF task'[w] = j /\ Kind(w)' = k THEN 1 ELSE 0)
<1> DEFINE B == task'[w] = j /\ Kind(w)' = k
           S == Crew(k, j)
<1>1. Crew(k, j)' = (S \ {w}) \cup (IF B THEN {w} ELSE {})
  BY DEF Crew, Kind
<1>2. IsFiniteSet(S) /\ B \in BOOLEAN
  BY DEF CountInv
<1>3. w \in S <=> task[w] = j /\ Kind(w) = k
  BY DEF Crew
<1> HIDE DEF B, S
<1> DEFINE T == (S \ {w}) \cup (IF B THEN {w} ELSE {})
<1>4. /\ IsFiniteSet(T) /\ Cardinality(T) \in Nat /\ Cardinality(S) \in Nat
      /\ Cardinality(T) = Cardinality(S) - (IF w \in S THEN 1 ELSE 0)
                                         + (IF B THEN 1 ELSE 0)
  BY <1>2, Recount
<1>5. Crew(k, j)' = T
  BY <1>1
<1> HIDE DEF T
<1> QED
  BY <1>3, <1>4, <1>5 DEF B, S, N

LEMMA BalancedPrime ==
  ASSUME NEW j \in Jobs,
         Balance(job'[j], Len(rows'[j]), announced'[j], N("fresh", j)',
                 N("retrying", j)', N("emit", j)', N("thrown", j)', Left(j)',
                 known'[j], faults'[j])
  PROVE  Balanced(j)'
BY DEF Balanced, Balance, Starts, AttemptsOK

(* The types that the arithmetic needs.                                    *)
LEMMA CountTypes ==
  ASSUME IInv, CountInv, NEW j \in Jobs
  PROVE  /\ job[j] \in Job /\ Len(rows[j]) \in Nat /\ announced[j] \in Nat
         /\ known[j] \in BOOLEAN /\ Left(j) \in BOOLEAN /\ faults[j] \in Nat
         /\ \A k \in Kinds : N(k, j) \in Nat
         /\ Balance(job[j], Len(rows[j]), announced[j], N("fresh", j),
                    N("retrying", j), N("emit", j), N("thrown", j), Left(j),
                    known[j], faults[j])
<1>1. job[j] \in Job /\ rows[j] \in Seq(Status) /\ announced[j] \in Nat
      /\ known[j] \in BOOLEAN /\ faults[j] \in Nat
  BY DEF IInv, TypeOK
<1>2. Left(j) \in BOOLEAN
  BY DEF Left, Abandoned
<1>3. \A k \in Kinds : N(k, j) \in Nat
  BY FS_CardinalityType DEF CountInv, N
<1> QED
  BY <1>1, <1>2, <1>3 DEF CountInv, Balanced

-----------------------------------------------------------------------------
(* The arithmetic of an attempt that goes on: what each step of processSend*)
(* moves from one account of job j to another.                             *)
Moved(j) ==
  LET r == Len(rows[j])
      a == announced[j]
      x == N("fresh", j)
      s == N("retrying", j)
      p == N("emit", j)
      t == N("thrown", j)
      n == faults[j]
  IN  \* a step elsewhere, or one that moves nothing
      \/ r' = r /\ a' = a /\ p' = p /\ x' = x /\ s' = s /\ t' = t /\ n' = n
      \* FindFails, or a rejection that leaves the catch block
      \/ /\ n' = n + 1 /\ r' = r /\ a' = a /\ p' = p /\ t' = t + 1
         /\ (x' = x - 1 /\ s' = s) \/ (x' = x /\ s' = s - 1)
      \* a rejection that enters the catch block
      \/ /\ n' \in {n, n + 1} /\ r' = r /\ a' = a /\ p' = p /\ t' = t
         /\ x' = x - 1 /\ s' = s + 1
      \* the row's mailbox is missing, in the catch block too
      \/ /\ ~known[j] /\ n' = n /\ r' = r /\ a' = a /\ p' = p /\ t' = t + 1
         /\ x' = x /\ s' = s - 1
      \* the row is saved
      \/ /\ n' = n /\ r' = r + 1 /\ a' = a /\ p' = p + 1 /\ t' = t
         /\ (x' = x - 1 /\ s' = s) \/ (x' = x /\ s' = s - 1)
      \* the row is saved, and the acknowledgement lost
      \/ /\ n' = n + 1 /\ r' = r + 1 /\ a' = a /\ p' = p
         /\ (x' = x - 1 /\ s' = s + 1 /\ t' = t) \/ (x' = x /\ s' = s - 1 /\ t' = t + 1)
      \* the row is announced
      \/ /\ n' = n /\ r' = r /\ a' = a + 1 /\ p' = p - 1
         /\ x' = x /\ s' = s /\ t' = t

LEMMA JobKept ==
  ASSUME IInv, IInv', CountInv, NEW j \in Jobs, job'[j] = job[j],
         known'[j] = known[j], Left(j)' <=> Left(j),
         \A k \in Kinds : N(k, j)' \in Nat, Moved(j)
  PROVE  Balanced(j)'
<1> DEFINE r == Len(rows[j])
           a == announced[j]
           x == N("fresh", j)
           s == N("retrying", j)
           p == N("emit", j)
           t == N("thrown", j)
           n == faults[j]
           r2 == Len(rows'[j])
           a2 == announced'[j]
           x2 == N("fresh", j)'
           s2 == N("retrying", j)'
           p2 == N("emit", j)'
           t2 == N("thrown", j)'
           n2 == faults'[j]
           q == job[j]
           S == Starts(q)
           o == IF q.state \in {"none", "waiting", "delayed"} \/ Left(j) THEN 1 ELSE 0
           h == IF Left(j) THEN 1 ELSE 0
           m == q.attemptsMade
           c == q.stalled
           k == known[j]
<1>1. /\ r \in Nat /\ a \in Nat /\ x \in Nat /\ s \in Nat /\ p \in Nat /\ t \in Nat
      /\ n \in Nat /\ q \in Job
      /\ Balance(q, r, a, x, s, p, t, Left(j), k, n)
  BY CountTypes DEF Kinds
<1>2. /\ r2 \in Nat /\ a2 \in Nat /\ x2 \in Nat /\ s2 \in Nat /\ p2 \in Nat
      /\ t2 \in Nat /\ n2 \in Nat
  BY DEF Kinds, IInv, TypeOK
<1>3. m \in Nat /\ c \in Nat /\ S \in Nat /\ o \in Nat /\ h \in Nat
  BY <1>1 DEF Job, Starts
<1>4. /\ r + 2 * x + s <= 2 * S
      /\ r + x + s + t + o <= 1 + n
      /\ a + p <= r /\ r <= a + p + n
      /\ k /\ q.state # "completed" => m + t + c + h <= n
      /\ AttemptsOK(q)
  BY <1>1 DEF Balance
<1>5. \/ r2 = r /\ a2 = a /\ p2 = p /\ x2 = x /\ s2 = s /\ t2 = t /\ n2 = n
      \/ /\ n2 = n + 1 /\ r2 = r /\ a2 = a /\ p2 = p /\ t2 = t + 1
         /\ (x2 = x - 1 /\ s2 = s) \/ (x2 = x /\ s2 = s - 1)
      \/ /\ n2 \in {n, n + 1} /\ r2 = r /\ a2 = a /\ p2 = p /\ t2 = t
         /\ x2 = x - 1 /\ s2 = s + 1
      \/ /\ ~k /\ n2 = n /\ r2 = r /\ a2 = a /\ p2 = p /\ t2 = t + 1
         /\ x2 = x /\ s2 = s - 1
      \/ /\ n2 = n /\ r2 = r + 1 /\ a2 = a /\ p2 = p + 1 /\ t2 = t
         /\ (x2 = x - 1 /\ s2 = s) \/ (x2 = x /\ s2 = s - 1)
      \/ /\ n2 = n + 1 /\ r2 = r + 1 /\ a2 = a /\ p2 = p
         /\ (x2 = x - 1 /\ s2 = s + 1 /\ t2 = t) \/ (x2 = x /\ s2 = s - 1 /\ t2 = t + 1)
      \/ /\ n2 = n /\ r2 = r /\ a2 = a + 1 /\ p2 = p - 1
         /\ x2 = x /\ s2 = s /\ t2 = t
  BY DEF Moved
<1>6. Left(j)' = Left(j)
  BY DEF Left, Abandoned
<1> HIDE DEF r, a, x, s, p, t, n, r2, a2, x2, s2, p2, t2, n2, S, o, h, m, c, k
<1>7. /\ r2 + 2 * x2 + s2 <= 2 * S
      /\ r2 + x2 + s2 + t2 + o <= 1 + n2
  BY <1>1, <1>2, <1>3, <1>4, <1>5
<1>8. a2 + p2 <= r2 /\ r2 <= a2 + p2 + n2
  BY <1>1, <1>2, <1>3, <1>4, <1>5
<1>9. k /\ q.state # "completed" => m + t2 + c + h <= n2
  BY <1>1, <1>2, <1>3, <1>4, <1>5
<1>10. Balance(q, r2, a2, x2, s2, p2, t2, Left(j), k, n2)
  BY <1>4, <1>7, <1>8, <1>9 DEF Balance, S, o, h, m, c
<1> QED
  BY <1>6, <1>10, BalancedPrime DEF r2, a2, x2, s2, p2, t2, n2, k

(* The queue's operators on the fields that count.                         *)
LEMMA QueueFields ==
  ASSUME NEW q \in Job
  PROVE  /\ q.attemptsMade \in Nat /\ q.stalled \in Nat
         /\ Added(q).attemptsMade = q.attemptsMade /\ Added(q).stalled = q.stalled
         /\ Added(q).state = "waiting"
         /\ Promoted(q).attemptsMade = q.attemptsMade /\ Promoted(q).stalled = q.stalled
         /\ Promoted(q).state = "waiting"
         /\ \A w \in Workers : /\ Taken(q, w).attemptsMade = q.attemptsMade
                               /\ Taken(q, w).stalled = q.stalled
                               /\ Taken(q, w).state = "active" /\ Taken(q, w).lock = w
         /\ Completed(q).attemptsMade = q.attemptsMade + 1
         /\ Completed(q).stalled = q.stalled /\ Completed(q).state = "completed"
         /\ AttemptFailed(q, Attempts).attemptsMade = q.attemptsMade + 1
         /\ AttemptFailed(q, Attempts).stalled = q.stalled
         /\ AttemptFailed(q, Attempts).state =
              IF q.attemptsMade + 1 < Attempts THEN "delayed" ELSE "failed"
         /\ StallChecked(q).attemptsMade = q.attemptsMade
         /\ StallChecked(q).stalled = q.stalled + 1
         /\ StallChecked(q).state =
              IF q.stalled + 1 > MaxStalled THEN "failed" ELSE "waiting"
<1>1. /\ q.attemptsMade \in Nat /\ q.stalled \in Nat
      /\ Added(q).attemptsMade = q.attemptsMade /\ Added(q).stalled = q.stalled
      /\ Added(q).state = "waiting"
      /\ Promoted(q).attemptsMade = q.attemptsMade /\ Promoted(q).stalled = q.stalled
      /\ Promoted(q).state = "waiting"
  BY DEF Job, Added, Promoted
<1>2. \A w \in Workers : /\ Taken(q, w).attemptsMade = q.attemptsMade
                         /\ Taken(q, w).stalled = q.stalled
                         /\ Taken(q, w).state = "active" /\ Taken(q, w).lock = w
  BY DEF Job, Taken
<1>3. /\ Completed(q).attemptsMade = q.attemptsMade + 1
      /\ Completed(q).stalled = q.stalled /\ Completed(q).state = "completed"
  BY DEF Job, Completed
<1>4. /\ AttemptFailed(q, Attempts).attemptsMade = q.attemptsMade + 1
      /\ AttemptFailed(q, Attempts).stalled = q.stalled
      /\ AttemptFailed(q, Attempts).state =
           IF q.attemptsMade + 1 < Attempts THEN "delayed" ELSE "failed"
  <2> DEFINE counted == [q EXCEPT !.attemptsMade = @ + 1]
             delayed == [counted EXCEPT !.state = "delayed", !.lock = NoWorker,
                                        !.failedReason = TRUE]
  <2>1. counted \in Job /\ counted.attemptsMade = q.attemptsMade + 1
        /\ counted.stalled = q.stalled
    BY DEF Job
  <2>2. AttemptFailed(q, Attempts) =
          IF counted.attemptsMade < Attempts THEN delayed ELSE GivenUp(counted)
    BY DEF AttemptFailed
  <2> HIDE DEF counted
  <2>3. /\ delayed.attemptsMade = counted.attemptsMade
        /\ delayed.stalled = counted.stalled /\ delayed.state = "delayed"
        /\ GivenUp(counted).attemptsMade = counted.attemptsMade
        /\ GivenUp(counted).stalled = counted.stalled
        /\ GivenUp(counted).state = "failed"
    BY <2>1 DEF Job, GivenUp
  <2> HIDE DEF delayed
  <2> QED
    BY <2>1, <2>2, <2>3
<1>5. /\ StallChecked(q).attemptsMade = q.attemptsMade
      /\ StallChecked(q).stalled = q.stalled + 1
      /\ StallChecked(q).state =
           IF q.stalled + 1 > MaxStalled THEN "failed" ELSE "waiting"
  <2> DEFINE counted == [q EXCEPT !.stalled = @ + 1]
             back == [counted EXCEPT !.state = "waiting", !.lock = NoWorker]
  <2>1. counted \in Job /\ counted.attemptsMade = q.attemptsMade
        /\ counted.stalled = q.stalled + 1
    BY DEF Job
  <2>2. StallChecked(q) = IF counted.stalled > MaxStalled THEN GivenUp(counted) ELSE back
    BY DEF StallChecked
  <2> HIDE DEF counted
  <2>3. /\ back.attemptsMade = counted.attemptsMade
        /\ back.stalled = counted.stalled /\ back.state = "waiting"
        /\ GivenUp(counted).attemptsMade = counted.attemptsMade
        /\ GivenUp(counted).stalled = counted.stalled
        /\ GivenUp(counted).state = "failed"
    BY <2>1 DEF Job, GivenUp
  <2> HIDE DEF back
  <2> QED
    BY <2>1, <2>2, <2>3
<1> QED
  BY <1>1, <1>2, <1>3, <1>4, <1>5

(* A worker's step leaves the accounts of the other jobs alone.            *)
LEMMA OtherJobs ==
  ASSUME IInv, IInv', CountInv, NEW w \in Workers, SendStep(w) \/ FaultStep(w)
  PROVE  /\ pc[w] # "idle" /\ UNCHANGED <<known, mailbox>>
         /\ \A e \in Jobs : e # task[w] => faults'[e] = faults[e]
         /\ \A v \in Workers : v # w =>
              pc'[v] = pc[v] /\ task'[v] = task[v] /\ branch'[v] = branch[v]
         /\ \A e \in Jobs : e # task[w] => Balanced(e)'
<1>1. /\ pc[w] # "idle" /\ UNCHANGED <<known, mailbox>>
      /\ \A e \in Jobs : e # task[w] => faults'[e] = faults[e]
      /\ \A v \in Workers : v # w =>
           pc'[v] = pc[v] /\ task'[v] = task[v] /\ branch'[v] = branch[v]
      /\ task'[w] = task[w] \/ pc'[w] = "idle"
  BY DEF SendStep, FaultStep, FindMailbox, Decide, Save, SaveViolatesForeignKey, Emit,
         Finish, FindFails, SaveFails, SaveLosesAck, Crash, Rejected, Leave, Goto,
         Fault, db, worker, history, IInv, TypeOK
<1>2. \A e \in Jobs : e # task[w] =>
        job'[e] = job[e] /\ rows'[e] = rows[e] /\ announced'[e] = announced[e]
  <2>1. CASE Finish(w)
    BY <2>1 DEF Finish, log, IInv, TypeOK
  <2>2. CASE Save(w) \/ SaveLosesAck(w)
    BY <2>2 DEF Save, SaveLosesAck, AppendRow, log, IInv, TypeOK
  <2>3. CASE Emit(w)
    BY <2>3 DEF Emit, log, IInv, TypeOK
  <2> QED
    BY <2>1, <2>2, <2>3 DEF SendStep, FaultStep, FindMailbox, Decide,
       SaveViolatesForeignKey, FindFails, SaveFails, Crash, log
<1>3. ASSUME NEW e \in Jobs, e # task[w] PROVE Balanced(e)'
  <2>1. \A k \in Kinds : Kind(w)' = k => task'[w] # e
    BY <1>1, <1>3 DEF Kind, Kinds
  <2>2. \A k \in Kinds : N(k, e)' = N(k, e) /\ N(k, e)' \in Nat
    <3>1. ASSUME NEW k \in Kinds PROVE N(k, e)' = N(k, e) /\ N(k, e)' \in Nat
      BY <1>1, <1>3, <2>1, CrewStep
    <3> QED
      BY <3>1
  <2>3. Left(e)' <=> Left(e)
    <3>1. \A v \in Workers : (pc'[v] # "idle" /\ task'[v] = e)
                               <=> (pc[v] # "idle" /\ task[v] = e)
      BY <1>1, <1>3
    <3>2. job'[e] = job[e]
      BY <1>2, <1>3
    <3> QED
      BY <3>1, <3>2 DEF Left, Abandoned
  <2>4. Moved(e)
    BY <1>1, <1>2, <1>3, <2>2 DEF Moved, Kinds
  <2> QED
    BY <1>1, <1>2, <1>3, <2>2, <2>3, <2>4, JobKept
<1> QED
  BY <1>1, <1>3

(* What a step of processSend does to the accounts of its own job.         *)
LEMMA AttemptKeepsBalance ==
  ASSUME IInv, IInv', CountInv, NEW w \in Workers, NEW j \in Jobs, j = task[w],
         \/ FindMailbox(w) \/ FindFails(w) \/ Decide(w) \/ Save(w)
         \/ SaveViolatesForeignKey(w) \/ SaveFails(w) \/ SaveLosesAck(w) \/ Emit(w)
  PROVE  Balanced(j)'
<1>1. /\ UNCHANGED <<job, task, known>> /\ pc[w] # "idle" /\ pc'[w] # "idle"
      /\ \A v \in Workers : v # w =>
           pc'[v] = pc[v] /\ task'[v] = task[v] /\ branch'[v] = branch[v]
  BY DEF FindMailbox, Decide, Save, SaveViolatesForeignKey, Emit, FindFails, SaveFails,
         SaveLosesAck, Rejected, Goto, db, worker, history, IInv, TypeOK
<1>2. Left(j)' <=> Left(j)
  <2>1. \A v \in Workers : (pc'[v] # "idle" /\ task'[v] = j)
                             <=> (pc[v] # "idle" /\ task[v] = j)
    BY <1>1
  <2> QED
    BY <1>1, <2>1 DEF Left, Abandoned
<1>3. ASSUME NEW k \in Kinds
      PROVE  /\ N(k, j)' \in Nat /\ N(k, j) \in Nat
             /\ N(k, j)' = N(k, j) - (IF Kind(w) = k THEN 1 ELSE 0)
                                   + (IF Kind(w)' = k THEN 1 ELSE 0)
  BY <1>1, CrewStep
<1>4. /\ pc \in [Workers -> PC] /\ branch \in [Workers -> Branch]
      /\ rows[j] \in Seq(Status) /\ rows \in [Jobs -> Seq(Status)]
      /\ announced \in [Jobs -> Nat] /\ faults \in [Jobs -> Nat]
  BY DEF IInv, TypeOK
<1>5. AppendRow(w) => Len(rows'[j]) = Len(rows[j]) + 1
  BY <1>4 DEF AppendRow
<1>6. Moved(j)
  <2>1. CASE FindMailbox(w) \/ Decide(w)
    <3>1. Kind(w) = "fresh" /\ Kind(w)' = "fresh" /\ UNCHANGED <<log, faults>>
      BY <1>4, <2>1 DEF FindMailbox, Decide, Goto, Kind, Branch
    <3> QED
      BY <1>3, <3>1 DEF Moved, Kinds, log
  <2>2. CASE FindFails(w)
    <3>1. /\ Kind(w) = "fresh" /\ Kind(w)' = "thrown" /\ UNCHANGED log
          /\ faults'[j] = faults[j] + 1
      BY <1>4, <2>2 DEF FindFails, Goto, Kind, Fault
    <3> QED
      BY <1>3, <3>1 DEF Moved, Kinds, log
  <2>3. CASE Save(w)
    <3>1. /\ Kind(w) \in {"fresh", "retrying"} /\ Kind(w)' = "emit"
          /\ UNCHANGED <<announced, faults>> /\ AppendRow(w)
      BY <1>4, <2>3 DEF Save, Goto, Kind
    <3> QED
      BY <1>3, <1>5, <3>1 DEF Moved, Kinds
  <2>4. CASE Emit(w)
    <3>1. /\ Kind(w) = "emit" /\ Kind(w)' = "done" /\ UNCHANGED <<rows, faults>>
          /\ announced'[j] = announced[j] + 1
      BY <1>4, <2>4 DEF Emit, Goto, Kind
    <3> QED
      BY <1>3, <3>1 DEF Moved, Kinds
  <2>5. Rejected(w) /\ pc[w] = "save" =>
          \/ Kind(w) = "fresh" /\ Kind(w)' = "retrying"
          \/ Kind(w) = "retrying" /\ Kind(w)' = "thrown"
    BY <1>4 DEF Rejected, Goto, Kind, Branch
  <2>6. CASE SaveViolatesForeignKey(w)
    <3>1. UNCHANGED <<log, faults>> /\ pc[w] = "save" /\ Rejected(w) /\ ~known[j]
      BY <2>6 DEF SaveViolatesForeignKey, MailboxFor, CountInv
    <3> QED
      BY <1>3, <2>5, <3>1 DEF Moved, Kinds, log
  <2>7. CASE SaveFails(w)
    <3>1. UNCHANGED log /\ pc[w] = "save" /\ Rejected(w) /\ faults'[j] = faults[j] + 1
      BY <1>4, <2>7 DEF SaveFails, Fault
    <3> QED
      BY <1>3, <2>5, <3>1 DEF Moved, Kinds, log
  <2>8. CASE SaveLosesAck(w)
    <3>1. /\ UNCHANGED announced /\ pc[w] = "save" /\ Rejected(w)
          /\ faults'[j] = faults[j] + 1 /\ AppendRow(w)
      BY <1>4, <2>8 DEF SaveLosesAck, Fault
    <3> QED
      BY <1>3, <1>5, <2>5, <3>1 DEF Moved, Kinds
  <2> QED
    BY <2>1, <2>2, <2>3, <2>4, <2>6, <2>7, <2>8
<1>7. \A k \in Kinds : N(k, j)' \in Nat
  BY <1>3
<1> QED
  BY <1>1, <1>2, <1>6, <1>7, JobKept

(* The end of an attempt: BullMQ records it, or the worker is lost.        *)
LEMMA EndKeepsBalance ==
  ASSUME IInv, IInv', CountInv, NEW w \in Workers, NEW j \in Jobs, j = task[w],
         Finish(w) \/ Crash(w)
  PROVE  Balanced(j)'
<1>1. /\ UNCHANGED <<known, log>> /\ pc[w] # "idle" /\ pc'[w] = "idle"
      /\ \A v \in Workers : v # w =>
           pc'[v] = pc[v] /\ task'[v] = task[v] /\ branch'[v] = branch[v]
  BY DEF Finish, Crash, Leave, Goto, IInv, TypeOK
<1> DEFINE q == job[j]
           q2 == job'[j]
<1>2. \/ /\ Finish(w) /\ ~Holds(q, w) /\ q2 = q /\ faults'[j] = faults[j] /\ (Left(j)' <=> Left(j))
      \/ /\ Finish(w) /\ Holds(q, w) /\ pc[w] = "done" /\ q2 = Completed(q)
         /\ faults'[j] = faults[j]
      \/ /\ Finish(w) /\ Holds(q, w) /\ pc[w] = "thrown"
         /\ q2 = AttemptFailed(q, Attempts) /\ faults'[j] = faults[j]
      \/ Crash(w) /\ q2 = q /\ faults'[j] = faults[j] + 1
  <2>1. CASE Crash(w)
    BY <2>1 DEF Crash, Fault, IInv, TypeOK
  <2>2. CASE Finish(w) /\ Holds(q, w)
    BY <2>2 DEF Finish, IInv, TypeOK
  <2>3. CASE Finish(w) /\ ~Holds(q, w)
    <3>1. UNCHANGED <<job, faults>>
      BY <2>3 DEF Finish
    <3>2. \A v \in Workers : Holds(q, v) => pc'[v] = pc[v] /\ task'[v] = task[v]
      BY <1>1, <2>3
    <3> QED
      BY <2>3, <3>1, <3>2 DEF Left, Abandoned
  <2> QED
    BY <2>1, <2>2, <2>3
<1>3. Holds(q, w) => ~Left(j)
  BY <1>1 DEF Left, Abandoned
<1>4. Left(j)' => q2.state = "active"
  BY DEF Left
<1>5. ASSUME NEW k \in Kinds
      PROVE  /\ N(k, j)' \in Nat /\ N(k, j) \in Nat
             /\ N(k, j)' = N(k, j) - (IF Kind(w) = k THEN 1 ELSE 0)
  <2>1. Kind(w)' # k
    BY <1>1 DEF Kind, Kinds
  <2> QED
    BY <1>1, <2>1, CrewStep
<1> DEFINE r == Len(rows[j])
           a == announced[j]
           x == N("fresh", j)
           s == N("retrying", j)
           p == N("emit", j)
           t == N("thrown", j)
           n == faults[j]
           x2 == N("fresh", j)'
           s2 == N("retrying", j)'
           p2 == N("emit", j)'
           t2 == N("thrown", j)'
           n2 == faults'[j]
           m == q.attemptsMade
           c == q.stalled
           k == known[j]
<1>6. /\ r \in Nat /\ a \in Nat /\ x \in Nat /\ s \in Nat /\ p \in Nat /\ t \in Nat
      /\ n \in Nat /\ q \in Job /\ m \in Nat /\ c \in Nat
      /\ Balance(q, r, a, x, s, p, t, Left(j), k, n)
  BY CountTypes DEF Kinds, Job
<1>7. /\ x2 \in Nat /\ s2 \in Nat /\ p2 \in Nat /\ t2 \in Nat
      /\ x2 = x - (IF Kind(w) = "fresh" THEN 1 ELSE 0)
      /\ s2 = s - (IF Kind(w) = "retrying" THEN 1 ELSE 0)
      /\ p2 = p - (IF Kind(w) = "emit" THEN 1 ELSE 0)
      /\ t2 = t - (IF Kind(w) = "thrown" THEN 1 ELSE 0)
  BY <1>5 DEF Kinds
<1>8. /\ r + 2 * x + s <= 2 * Starts(q)
      /\ r + x + s + t + (IF q.state \in {"none", "waiting", "delayed"} \/ Left(j)
                          THEN 1 ELSE 0) <= 1 + n
      /\ a + p <= r /\ r <= a + p + n
      /\ k /\ q.state # "completed" => m + t + c + (IF Left(j) THEN 1 ELSE 0) <= n
      /\ AttemptsOK(q)
  BY <1>6 DEF Balance
<1>9. /\ Kind(w) = "done" <=> pc[w] = "done"
      /\ Kind(w) = "thrown" <=> pc[w] = "thrown"
  BY DEF Kind
<1>10. Finish(w) => pc[w] \in {"done", "thrown"}
  BY DEF Finish
<1>11. Holds(q, w) => q.state = "active"
  BY DEF Holds
<1>12. /\ Len(rows'[j]) = r /\ announced'[j] = a /\ known'[j] = k
  BY <1>1 DEF log
<1> HIDE DEF q2, r, a, x, s, p, t, n, x2, s2, p2, t2, n2, m, c, k
<1>13. Balance(q2, r, a, x2, s2, p2, t2, Left(j)', k, n2)
  <2>1. CASE Finish(w) /\ ~Holds(q, w) /\ q2 = q /\ n2 = n /\ (Left(j)' <=> Left(j))
    <3>1. x2 = x /\ s2 = s /\ p2 = p /\ t2 <= t
      BY <1>6, <1>7, <1>9, <1>10, <2>1
    <3>2. /\ r + x2 + s2 + t2
               + (IF q2.state \in {"none", "waiting", "delayed"} \/ Left(j)' THEN 1 ELSE 0)
               <= 1 + n2
      <4>1. (IF q2.state \in {"none", "waiting", "delayed"} \/ Left(j)' THEN 1 ELSE 0)
            = (IF q.state \in {"none", "waiting", "delayed"} \/ Left(j) THEN 1 ELSE 0)
        BY <2>1
      <4> DEFINE o == IF q.state \in {"none", "waiting", "delayed"} \/ Left(j) THEN 1 ELSE 0
      <4>2. o \in Nat
        OBVIOUS
      <4>3. r + x + s + t + o <= 1 + n
        BY <1>8
      <4> HIDE DEF o
      <4>4. r + x2 + s2 + t2 + o <= 1 + n2
        BY <1>6, <1>7, <2>1, <3>1, <4>2, <4>3
      <4> QED
        BY <4>1, <4>4 DEF o
    <3>3. k /\ q2.state # "completed" => m + t2 + c + (IF Left(j)' THEN 1 ELSE 0) <= n2
      <4> DEFINE h == IF Left(j) THEN 1 ELSE 0
      <4>1. h \in Nat /\ (k /\ q2.state # "completed" => m + t + c + h <= n)
        BY <1>8, <2>1
      <4>2. (IF Left(j)' THEN 1 ELSE 0) = h
        BY <2>1
      <4> HIDE DEF h
      <4>3. k /\ q2.state # "completed" => m + t2 + c + h <= n2
        BY <1>6, <1>7, <2>1, <3>1, <4>1
      <4> QED
        BY <4>2, <4>3
    <3> QED
      BY <1>8, <2>1, <3>1, <3>2, <3>3 DEF Balance, m, c
  <2>2. CASE Holds(q, w) /\ Kind(w) = "done" /\ q2 = Completed(q) /\ n2 = n
    <3>1. /\ q2.attemptsMade = m + 1 /\ q2.stalled = c /\ q2.state = "completed"
      BY <1>6, <2>2, QueueFields DEF m, c
    <3>2. x2 = x /\ s2 = s /\ p2 = p /\ t2 = t /\ q.state = "active"
      BY <1>6, <1>7, <1>11, <2>2
    <3>3. ~Left(j)' /\ ~Left(j)
      BY <1>3, <1>4, <2>2, <3>1
    <3>4. Starts(q2) = Starts(q) /\ AttemptsOK(q2)
      <4>1. m < Attempts /\ c <= MaxStalled
        BY <1>6, <1>8, <3>2 DEF AttemptsOK, m, c
      <4>2. AttemptsOK(q2)
        BY <1>6, <3>1, <4>1 DEF AttemptsOK
      <4> QED
        BY <1>6, <3>1, <3>2, <4>2 DEF Starts, m, c
    <3>5. r + x2 + s2 + t2 + 0 <= 1 + n2
      BY <1>6, <1>8, <2>2, <3>2, <3>3
    <3> QED
      BY <1>6, <1>8, <2>2, <3>1, <3>2, <3>3, <3>4, <3>5 DEF Balance
  <2>3. CASE Holds(q, w) /\ Kind(w) = "thrown" /\ q2 = AttemptFailed(q, Attempts)
             /\ n2 = n
    <3>1. /\ q2.attemptsMade = m + 1 /\ q2.stalled = c
          /\ q2.state = IF m + 1 < Attempts THEN "delayed" ELSE "failed"
      BY <1>6, <2>3, QueueFields DEF m, c
    <3>2. x2 = x /\ s2 = s /\ p2 = p /\ t2 = t - 1 /\ q.state = "active"
      BY <1>6, <1>7, <1>11, <2>3
    <3>3. ~Left(j)' /\ ~Left(j)
      BY <1>3, <1>4, <2>3, <3>1
    <3>4. Starts(q2) = Starts(q) /\ AttemptsOK(q2)
      BY <1>6, <1>8, <3>1, <3>2 DEF Starts, AttemptsOK, m, c
    <3>5. r + x2 + s2 + t2 + 1 <= 1 + n2
      BY <1>6, <1>7, <1>8, <2>3, <3>2, <3>3
    <3>6. r + x2 + s2 + t2
            + (IF q2.state \in {"none", "waiting", "delayed"} \/ Left(j)' THEN 1 ELSE 0)
            <= 1 + n2
      BY <1>6, <1>7, <2>3, <3>5
    <3>7. k /\ q2.state # "completed" => q2.attemptsMade + t2 + c + 0 <= n2
      BY <1>6, <1>7, <1>8, <2>3, <3>1, <3>2, <3>3
    <3> QED
      BY <1>8, <2>3, <3>1, <3>2, <3>3, <3>4, <3>5, <3>6, <3>7 DEF Balance
  <2>4. CASE Crash(w) /\ q2 = q /\ n2 = n + 1
    <3>1. x2 <= x /\ s2 <= s /\ t2 <= t /\ (p2 = p \/ p2 = p - 1)
      BY <1>6, <1>7
    <3>2. r + 2 * x2 + s2 <= 2 * Starts(q)
      <4>1. Starts(q) \in Nat
        BY <1>6 DEF Starts, m, c
      <4> QED
        BY <1>6, <1>7, <1>8, <3>1, <4>1
    <3>3. r + x2 + s2 + t2
            + (IF q2.state \in {"none", "waiting", "delayed"} \/ Left(j)' THEN 1 ELSE 0)
            <= 1 + n2
      <4>1. r + x2 + s2 + t2 <= 1 + n
        BY <1>6, <1>7, <1>8, <3>1
      <4> QED
        BY <1>6, <1>7, <2>4, <4>1
    <3>4. a + p2 <= r /\ r <= a + p2 + n2
      BY <1>6, <1>7, <1>8, <2>4, <3>1
    <3>5. k /\ q2.state # "completed" => m + t2 + c + (IF Left(j)' THEN 1 ELSE 0) <= n2
      <4>1. k /\ q2.state # "completed" => m + t + c <= n
        BY <1>6, <1>8, <2>4
      <4>2. k /\ q2.state # "completed" => m + t2 + c + 1 <= n2
        BY <1>6, <1>7, <2>4, <3>1, <4>1
      <4> QED
        BY <1>6, <1>7, <2>4, <4>2
    <3> QED
      BY <1>8, <2>4, <3>2, <3>3, <3>4, <3>5 DEF Balance, m, c
  <2> QED
    BY <1>2, <1>9, <2>1, <2>2, <2>3, <2>4 DEF n2, n
<1> QED
  BY <1>12, <1>13, BalancedPrime DEF q2, x2, s2, p2, t2, n2

LEMMA WorkerKeepsCount ==
  ASSUME IInv, IInv', CountInv, NEW w \in Workers, SendStep(w) \/ FaultStep(w)
  PROVE  CountInv'
<1>1. /\ UNCHANGED <<known, mailbox>>
      /\ \A v \in Workers : v # w =>
           pc'[v] = pc[v] /\ task'[v] = task[v] /\ branch'[v] = branch[v]
      /\ \A e \in Jobs : e # task[w] => Balanced(e)'
  BY OtherJobs
<1>2. ASSUME NEW j \in Jobs, j = task[w] PROVE Balanced(j)'
  BY <1>2, AttemptKeepsBalance, EndKeepsBalance DEF SendStep, FaultStep
<1>3. ASSUME NEW e \in Jobs, NEW k \in Kinds PROVE IsFiniteSet(Crew(k, e))'
  BY <1>1, CrewStep
<1> QED
  BY <1>1, <1>2, <1>3 DEF CountInv

(* The queue moves job j; no worker moves but one that takes it.           *)
LEMMA QueueKeepsCount ==
  ASSUME IInv, IInv', CountInv, NEW j \in Jobs,
         Enqueue(j) \/ QueueStep(j) \/ StallRunning(j)
  PROVE  CountInv'
<1> DEFINE q == job[j]
           q2 == job'[j]
<1>1. /\ UNCHANGED <<mailbox, log>>
      /\ \A e \in Jobs : e # j => job'[e] = job[e] /\ known'[e] = known[e]
                                  /\ faults'[e] = faults[e]
  BY DEF Enqueue, QueueStep, Take, Promote, StallAbandoned, StallRunning, Fault, db,
         history, IInv, TypeOK
<1>2. \/ UNCHANGED worker
      \/ \E w \in Workers :
           /\ Take(w, j) /\ pc[w] = "idle" /\ pc'[w] = "find" /\ task'[w] = j
           /\ \A v \in Workers : v # w =>
                pc'[v] = pc[v] /\ task'[v] = task[v] /\ branch'[v] = branch[v]
  <2>1. ASSUME NEW w \in Workers, Take(w, j)
        PROVE  /\ pc[w] = "idle" /\ pc'[w] = "find" /\ task'[w] = j
               /\ \A v \in Workers : v # w =>
                    pc'[v] = pc[v] /\ task'[v] = task[v] /\ branch'[v] = branch[v]
    BY <2>1 DEF Take, IInv, TypeOK
  <2> QED
    BY <2>1 DEF Enqueue, QueueStep, Promote, StallAbandoned, StallRunning
<1>3. ASSUME NEW e \in Jobs, NEW k \in Kinds
      PROVE  /\ N(k, e)' \in Nat /\ N(k, e) \in Nat /\ IsFiniteSet(Crew(k, e))'
             /\ N(k, e)' = N(k, e) + (IF ~(UNCHANGED worker) /\ e = j /\ k = "fresh"
                                      THEN 1 ELSE 0)
  <2>1. CASE UNCHANGED worker
    <3>1. Crew(k, e)' = Crew(k, e)
      BY <2>1 DEF Crew, Kind, worker
    <3>2. IsFiniteSet(Crew(k, e))' /\ N(k, e)' = N(k, e) /\ N(k, e) \in Nat
      BY <3>1, FS_CardinalityType DEF N, CountInv
    <3> QED
      BY <2>1, <3>2
  <2>2. CASE ~(UNCHANGED worker)
    <3>1. PICK w \in Workers :
            /\ pc[w] = "idle" /\ pc'[w] = "find" /\ task'[w] = j
            /\ \A v \in Workers : v # w =>
                 pc'[v] = pc[v] /\ task'[v] = task[v] /\ branch'[v] = branch[v]
      BY <1>2, <2>2
    <3>2. Kind(w) # k /\ Kind(w)' = "fresh"
      BY <3>1 DEF Kind, Kinds
    <3> QED
      BY <2>2, <3>1, <3>2, CrewStep
  <2> QED
    BY <2>1, <2>2
<1>4. ASSUME NEW e \in Jobs, e # j PROVE Balanced(e)'
  <2>1. \A v \in Workers : pc'[v] # "idle" /\ task'[v] = e <=> pc[v] # "idle" /\ task[v] = e
    BY <1>2, <1>4 DEF worker
  <2>2. Left(e)' <=> Left(e)
    BY <1>1, <1>4, <2>1 DEF Left, Abandoned
  <2>3. \A k \in Kinds : N(k, e)' = N(k, e) /\ N(k, e)' \in Nat
    BY <1>3, <1>4
  <2>4. Moved(e)
    BY <1>1, <1>4, <2>3 DEF Moved, Kinds, log
  <2> QED
    BY <1>1, <1>4, <2>2, <2>3, <2>4, JobKept
<1>5. Balanced(j)'
  <2> DEFINE r == Len(rows[j])
             a == announced[j]
             x == N("fresh", j)
             s == N("retrying", j)
             p == N("emit", j)
             t == N("thrown", j)
             n == faults[j]
             x2 == N("fresh", j)'
             n2 == faults'[j]
             m == q.attemptsMade
             c == q.stalled
             k == known[j]
             k2 == known'[j]
  <2>1. /\ r \in Nat /\ a \in Nat /\ x \in Nat /\ s \in Nat /\ p \in Nat /\ t \in Nat
        /\ n \in Nat /\ q \in Job /\ m \in Nat /\ c \in Nat
        /\ Balance(q, r, a, x, s, p, t, Left(j), k, n)
    BY CountTypes DEF Kinds, Job
  <2>2. /\ N("retrying", j)' = s /\ N("emit", j)' = p /\ N("thrown", j)' = t
        /\ UNCHANGED worker => x2 = x
        /\ ~(UNCHANGED worker) => x2 = x + 1
    BY <1>3 DEF Kinds
  <2>3. /\ r + 2 * x + s <= 2 * Starts(q)
        /\ r + x + s + t + (IF q.state \in {"none", "waiting", "delayed"} \/ Left(j)
                            THEN 1 ELSE 0) <= 1 + n
        /\ a + p <= r /\ r <= a + p + n
        /\ k /\ q.state # "completed" => m + t + c + (IF Left(j) THEN 1 ELSE 0) <= n
        /\ AttemptsOK(q)
    BY <2>1 DEF Balance
  <2>4. Len(rows'[j]) = r /\ announced'[j] = a
    BY <1>1 DEF log
  <2>5. Left(j)' => q2.state = "active"
    BY DEF Left
  <2>6. Left(j) => q.state = "active"
    BY DEF Left
  <2>7. job \in [Jobs -> Job]
    BY DEF IInv, TypeOK
  <2>8. \/ /\ UNCHANGED worker /\ q.state \in {"none", "delayed"} /\ n2 = n
           /\ (k2 = k \/ q.state = "none")
           /\ q2.attemptsMade = m /\ q2.stalled = c /\ q2.state = "waiting"
        \/ /\ ~(UNCHANGED worker) /\ q.state = "waiting" /\ n2 = n /\ k2 = k
           /\ q2.attemptsMade = m /\ q2.stalled = c /\ q2.state = "active"
           /\ ~Left(j)'
        \/ /\ UNCHANGED worker /\ q.state = "active" /\ k2 = k
           /\ (Left(j) /\ n2 = n) \/ n2 = n + 1
           /\ q2.attemptsMade = m /\ q2.stalled = c + 1
           /\ q2.state = IF c + 1 > MaxStalled THEN "failed" ELSE "waiting"
    <3>1. CASE Enqueue(j)
      BY <2>1, <2>7, <3>1, QueueFields DEF Enqueue
    <3>2. CASE Promote(j)
      BY <2>1, <2>7, <3>2, QueueFields DEF Promote, history
    <3>3. CASE StallAbandoned(j) \/ StallRunning(j)
      <4>1. q2 = StallChecked(q) /\ q.state = "active" /\ UNCHANGED <<worker, known>>
        BY <2>7, <3>3 DEF StallAbandoned, StallRunning, history
      <4>2. (Left(j) /\ n2 = n) \/ n2 = n + 1
        BY <3>3 DEF StallAbandoned, StallRunning, Left, Fault, IInv, TypeOK
      <4>3. /\ q2.attemptsMade = m /\ q2.stalled = c + 1
            /\ q2.state = IF c + 1 > MaxStalled THEN "failed" ELSE "waiting"
        BY <2>1, <4>1, QueueFields
      <4> QED
        BY <4>1, <4>2, <4>3
    <3>4. ASSUME NEW w \in Workers, Take(w, j)
          PROVE  /\ ~(UNCHANGED worker) /\ q.state = "waiting" /\ n2 = n /\ k2 = k
                 /\ q2.attemptsMade = m /\ q2.stalled = c /\ q2.state = "active"
                 /\ ~Left(j)'
      <4>1. /\ q.state = "waiting" /\ n2 = n /\ k2 = k /\ q2 = Taken(q, w)
            /\ pc[w] = "idle" /\ pc'[w] = "find" /\ task'[w] = j
        BY <2>7, <3>4 DEF Take, IInv, TypeOK
      <4>2. /\ q2.attemptsMade = m /\ q2.stalled = c /\ q2.state = "active"
            /\ q2.lock = w
        BY <2>1, <4>1, QueueFields
      <4>3. ~Left(j)'
        BY <4>1, <4>2 DEF Left, Abandoned, Holds
      <4> QED
        BY <4>1, <4>2, <4>3 DEF worker
    <3> QED
      BY <3>1, <3>2, <3>3, <3>4 DEF QueueStep
  <2>9. q.state = "none" => t = 0
    <3>1. ASSUME q.state = "none" PROVE Crew("thrown", j) = {}
      BY <3>1 DEF Crew, Kind, IInv, RunningIsAdded
    <3> QED
      BY <3>1, FS_EmptySet DEF N
  <2> HIDE DEF q2, r, a, x, s, p, t, n, x2, n2, m, c, k, k2
  <2>10. Balance(q2, r, a, x2, s, p, t, Left(j)', k2, n2)
    <3>1. CASE /\ UNCHANGED worker /\ q.state \in {"none", "delayed"} /\ n2 = n
               /\ (k2 = k \/ q.state = "none")
               /\ q2.attemptsMade = m /\ q2.stalled = c /\ q2.state = "waiting"
      <4>1. ~Left(j)' /\ ~Left(j) /\ x2 = x
        BY <2>2, <2>5, <2>6, <3>1
      <4>2. Starts(q2) = Starts(q) /\ AttemptsOK(q2)
        <5>1. m < Attempts /\ c <= MaxStalled
          BY <2>1, <2>3, <3>1 DEF AttemptsOK, m, c
        <5>2. AttemptsOK(q2)
          BY <2>1, <3>1, <5>1 DEF AttemptsOK
        <5> QED
          BY <2>1, <3>1, <5>2 DEF Starts, m, c
      <4>3. k2 /\ q2.state # "completed" => m + t + c + 0 <= n
        <5>1. CASE q.state = "none"
          <6>1. m = 0 /\ t = 0 /\ c = 0
            BY <2>3, <2>9, <5>1 DEF AttemptsOK, m, c
          <6> QED
            BY <2>1, <6>1
        <5>2. CASE k2 = k
          BY <2>3, <3>1, <4>1, <5>2
        <5> QED
          BY <3>1, <5>1, <5>2
      <4> QED
        BY <2>3, <3>1, <4>1, <4>2, <4>3 DEF Balance
    <3>2. CASE /\ ~(UNCHANGED worker) /\ q.state = "waiting" /\ n2 = n /\ k2 = k
               /\ q2.attemptsMade = m /\ q2.stalled = c /\ q2.state = "active"
               /\ ~Left(j)'
      <4>1. ~Left(j) /\ x2 = x + 1
        BY <2>2, <2>6, <3>2
      <4>2. Starts(q2) = Starts(q) + 1 /\ AttemptsOK(q2) /\ Starts(q) \in Nat
        <5>1. m < Attempts /\ c <= MaxStalled
          BY <2>1, <2>3, <3>2 DEF AttemptsOK, m, c
        <5>2. AttemptsOK(q2)
          BY <2>1, <3>2, <5>1 DEF AttemptsOK
        <5> QED
          BY <2>1, <3>2, <5>2 DEF Starts, m, c
      <4>3. r + 2 * x2 + s <= 2 * Starts(q2)
        <5> DEFINE S == Starts(q)
                   S2 == Starts(q2)
        <5>1. r + 2 * x + s <= 2 * S /\ S \in Nat /\ S2 = S + 1
          BY <2>3, <4>2
        <5> HIDE DEF S, S2
        <5>2. r + 2 * x2 + s <= 2 * S2
          BY <2>1, <4>1, <5>1
        <5> QED
          BY <5>2 DEF S2
      <4>4. r + x2 + s + t + 0 <= 1 + n2
        BY <2>1, <2>3, <3>2, <4>1
      <4>5. k2 /\ q2.state # "completed" => m + t + c + 0 <= n2
        BY <2>3, <3>2, <4>1
      <4> QED
        BY <2>3, <3>2, <4>2, <4>3, <4>4, <4>5 DEF Balance
    <3>3. CASE /\ UNCHANGED worker /\ q.state = "active" /\ k2 = k
               /\ (Left(j) /\ n2 = n) \/ n2 = n + 1
               /\ q2.attemptsMade = m /\ q2.stalled = c + 1
               /\ q2.state = IF c + 1 > MaxStalled THEN "failed" ELSE "waiting"
      <4>1. ~Left(j)' /\ x2 = x
        BY <2>2, <2>5, <3>3
      <4>2. Starts(q2) = Starts(q) /\ AttemptsOK(q2)
        <5>1. m < Attempts /\ c <= MaxStalled
          BY <2>1, <2>3, <3>3 DEF AttemptsOK, m, c
        <5>2. AttemptsOK(q2)
          BY <2>1, <3>3, <5>1 DEF AttemptsOK
        <5> QED
          BY <2>1, <3>3, <5>2 DEF Starts, m, c
      <4>3. r + x2 + s + t + 1 <= 1 + n2
        <5>1. CASE Left(j) /\ n2 = n
          BY <2>1, <2>3, <4>1, <5>1
        <5>2. CASE n2 = n + 1
          <6>1. r + x + s + t <= 1 + n
            BY <2>1, <2>3
          <6> QED
            BY <2>1, <4>1, <5>2, <6>1
        <5> QED
          BY <3>3, <5>1, <5>2
      <4>4. n <= n2 /\ n2 \in Nat
        BY <2>1, <3>3
      <4>5. r + x2 + s + t
              + (IF q2.state \in {"none", "waiting", "delayed"} \/ Left(j)' THEN 1 ELSE 0)
              <= 1 + n2
        BY <2>1, <4>1, <4>3, <4>4
      <4>6. k2 /\ q2.state # "completed" => m + t + (c + 1) + 0 <= n2
        <5>1. CASE Left(j) /\ n2 = n
          BY <2>1, <2>3, <3>3, <5>1
        <5>2. CASE n2 = n + 1
          <6>1. k => m + t + c <= n
            BY <2>1, <2>3, <3>3
          <6> QED
            BY <2>1, <3>3, <5>2, <6>1
        <5> QED
          BY <3>3, <5>1, <5>2
      <4>7. a + p <= r /\ r <= a + p + n2
        BY <2>1, <2>3, <4>4
      <4> QED
        BY <2>3, <3>3, <4>1, <4>2, <4>3, <4>5, <4>6, <4>7 DEF Balance
    <3> QED
      BY <2>8, <3>1, <3>2, <3>3
  <2> QED
    BY <2>2, <2>4, <2>10, BalancedPrime DEF q2, r, a, x2, s, p, t, n2, k2
<1>6. ASSUME NEW e \in Jobs, known'[e] PROVE mailbox'[MailboxOf[e]] # Missing
  <2>1. CASE known[e]
    BY <1>1, <2>1 DEF CountInv
  <2>2. CASE Enqueue(j)
    BY <1>1, <1>6, <2>1, <2>2 DEF Enqueue, IInv, TypeOK
  <2>3. CASE ~Enqueue(j)
    BY <1>6, <2>1, <2>3 DEF QueueStep, Take, Promote, StallAbandoned, StallRunning, history
  <2> QED
    BY <2>2, <2>3
<1> QED
  BY <1>3, <1>4, <1>5, <1>6 DEF CountInv

LEMMA NextKeepsCount == IInv /\ IInv' /\ CountInv /\ [Next]_vars => CountInv'
<1> SUFFICES ASSUME IInv, IInv', CountInv, [Next]_vars PROVE CountInv'
  OBVIOUS
<1>1. ASSUME UNCHANGED <<job, worker, log, known, faults>>,
             \A m \in Mailboxes : mailbox[m] # Missing => mailbox'[m] # Missing
      PROVE  CountInv'
  <2>1. ASSUME NEW j \in Jobs
        PROVE  /\ Balanced(j)' /\ (known'[j] => mailbox'[MailboxOf[j]] # Missing)
               /\ \A k \in Kinds : IsFiniteSet(Crew(k, j))'
    <3>1. \A k \in Kinds : Crew(k, j)' = Crew(k, j)
      BY <1>1 DEF Crew, Kind, worker
    <3>2. \A k \in Kinds : N(k, j)' = N(k, j) /\ N(k, j)' \in Nat /\ IsFiniteSet(Crew(k, j))'
      BY <3>1, FS_CardinalityType DEF N, CountInv
    <3>3. Left(j)' <=> Left(j)
      BY <1>1 DEF Left, Abandoned, worker
    <3>4. Moved(j)
      BY <1>1, <3>2 DEF Moved, Kinds, log
    <3>5. Balanced(j)'
      BY <1>1, <3>2, <3>3, <3>4, JobKept
    <3> QED
      BY <1>1, <3>2, <3>5 DEF CountInv
  <2> QED
    BY <2>1 DEF CountInv
<1>2. ASSUME NEW m \in Mailboxes, SetToken(m) PROVE CountInv'
  <2>1. UNCHANGED <<job, worker, log, known, faults>>
    BY <1>2 DEF SetToken
  <2>2. \A b \in Mailboxes : mailbox[b] # Missing => mailbox'[b] # Missing
    BY <1>2 DEF SetToken, IInv, TypeOK
  <2> QED
    BY <1>1, <2>1, <2>2
<1>3. CASE Tick \/ UNCHANGED vars
  BY <1>1, <1>3 DEF Tick, history, vars, db
<1> QED
  BY <1>2, <1>3, WorkerKeepsCount, QueueKeepsCount DEF Next

LEMMA InitCount == Init => CountInv
<1> SUFFICES ASSUME Init, NEW j \in Jobs
             PROVE  Balanced(j) /\ ~known[j] /\ \A k \in Kinds : IsFiniteSet(Crew(k, j))
  BY DEF CountInv
<1>1. \A k \in Kinds : Crew(k, j) = {}
  BY DEF Init, Crew, Kind, Kinds
<1>2. \A k \in Kinds : N(k, j) = 0 /\ IsFiniteSet(Crew(k, j))
  BY <1>1, FS_EmptySet DEF N
<1>3. /\ job[j] = NoJob /\ Len(rows[j]) = 0 /\ announced[j] = 0 /\ ~known[j]
      /\ faults[j] = 0
  BY DEF Init
<1>4. job[j].state = "none" /\ job[j].attemptsMade = 0 /\ job[j].stalled = 0
  BY <1>3 DEF NoJob
<1>5. ~Left(j)
  BY <1>4 DEF Left
<1> QED
  BY <1>2, <1>3, <1>4, <1>5 DEF Balanced, Balance, Starts, AttemptsOK, Kinds

LEMMA SpecCount == Spec => [](IInv /\ CountInv)
<1>1. Init => IInv /\ CountInv
  BY InitIInv, InitCount
<1>2. IInv /\ CountInv /\ [Next]_vars => (IInv /\ CountInv)'
  BY NextIInv, NextKeepsCount
<1> QED
  BY <1>1, <1>2, PTL DEF Spec

(* Every row of a send beyond its first is paid for by a failure, a crash  *)
(* or a lost lock in the work on it; and each start of processSend writes  *)
(* at most two.                                                            *)
THEOREM RepeatsAreCaused == Spec => []RepeatedRowsHaveCause
<1>1. IInv /\ CountInv => RepeatedRowsHaveCause
  <2> SUFFICES ASSUME IInv, CountInv, NEW j \in Jobs
               PROVE  /\ Len(rows[j]) <= 1 + faults[j]
                      /\ Len(rows[j]) <= 2 * (Attempts + MaxStalled)
    BY DEF RepeatedRowsHaveCause
  <2> DEFINE r == Len(rows[j])
             x == N("fresh", j)
             s == N("retrying", j)
             t == N("thrown", j)
             q == job[j]
             m == q.attemptsMade
             c == q.stalled
             S == Starts(q)
             o == IF q.state \in {"none", "waiting", "delayed"} \/ Left(j) THEN 1 ELSE 0
  <2>1. /\ q \in Job /\ r \in Nat /\ faults[j] \in Nat /\ m \in Nat /\ c \in Nat
        /\ x \in Nat /\ s \in Nat /\ t \in Nat /\ o \in Nat
    BY CountTypes DEF Kinds, Job
  <2>2. r + 2 * x + s <= 2 * S /\ r + x + s + t + o <= 1 + faults[j] /\ AttemptsOK(q)
    BY CountTypes DEF Balance
  <2> HIDE DEF r, x, s, t, m, c, o
  <2>3. S <= Attempts + MaxStalled /\ S \in Nat
    BY <2>1, <2>2 DEF Starts, AttemptsOK, m, c
  <2> HIDE DEF S
  <2>4. r <= 2 * S /\ r <= 1 + faults[j]
    BY <2>1, <2>2, <2>3
  <2> QED
    BY <2>1, <2>3, <2>4 DEF r
<1> QED
  BY <1>1, SpecCount, PTL

(* A send for an existing mailbox is given up only when its attempts are   *)
(* used or its lock was lost more than MaxStalled times, and each of its   *)
(* failed attempts and lost locks was due to a fault of its own.           *)
THEOREM LossIsEarned == Spec => []LossNeedsRepeatedFaults
<1>1. IInv /\ CountInv => LossNeedsRepeatedFaults
  <2> SUFFICES ASSUME IInv, CountInv, NEW j \in Jobs, job[j].state = "failed", known[j]
               PROVE  /\ job[j].attemptsMade = Attempts \/ job[j].stalled > MaxStalled
                      /\ job[j].attemptsMade + job[j].stalled <= faults[j]
    BY DEF LossNeedsRepeatedFaults
  <2> DEFINE m == job[j].attemptsMade
             c == job[j].stalled
             t == N("thrown", j)
  <2>1. m \in Nat /\ c \in Nat /\ t \in Nat /\ faults[j] \in Nat
    BY CountTypes DEF Kinds, Job
  <2>2. m + t + c + 0 <= faults[j] /\ AttemptsOK(job[j])
    BY CountTypes DEF Balance, Left
  <2>3. m = Attempts \/ c = MaxStalled + 1
    BY <2>2 DEF AttemptsOK
  <2> HIDE DEF m, c, t
  <2>4. (m = Attempts \/ c > MaxStalled) /\ m + c <= faults[j]
    BY <2>1, <2>2, <2>3
  <2> QED
    BY <2>4 DEF m, c
<1> QED
  BY <1>1, SpecCount, PTL

(* Dashboards are told of a row only after it is committed, and a row they *)
(* are never told of is due to a failure between the save and the emit.    *)
THEOREM AnnouncementsAddUp == Spec => []AnnouncementsAccounted
<1>1. IInv /\ CountInv => AnnouncementsAccounted
  <2> SUFFICES ASSUME IInv, CountInv, NEW j \in Jobs
               PROVE  LET pending == {w \in Workers : pc[w] = "emit" /\ task[w] = j}
                      IN  /\ announced[j] + Cardinality(pending) <= Len(rows[j])
                          /\ Len(rows[j]) <= announced[j] + Cardinality(pending) + faults[j]
    BY DEF AnnouncementsAccounted
  <2>1. Crew("emit", j) = {w \in Workers : pc[w] = "emit" /\ task[w] = j}
    BY DEF Crew, Kind
  <2>2. /\ announced[j] + N("emit", j) <= Len(rows[j])
        /\ Len(rows[j]) <= announced[j] + N("emit", j) + faults[j]
    BY CountTypes DEF Balance
  <2> QED
    BY <2>1, <2>2 DEF N
<1> QED
  BY <1>1, SpecCount, PTL
=============================================================================
