------------------------------ MODULE MailSend ------------------------------
(***************************************************************************)
(* Outbound mail: POST /mail/send puts a job on the BullMQ queue           *)
(* 'send-email'; the worker of some process runs processSend on it, which  *)
(* decides from the mailbox's token whether the send is 'ok' or 'error'    *)
(* and writes an Event row (MailService and EventsService.createNormalized *)
(* of nest-email-gateway/src).                                             *)
(*                                                                         *)
(* Every await of processSend is a boundary between two steps, so other    *)
(* workers, token refreshes, the clock, crashes and the stalled-jobs check *)
(* interleave there.  A database call may fail; a save may also commit and *)
(* lose its acknowledgement.                                               *)
(***************************************************************************)
EXTENDS JobQueue, Sequences, FiniteSets

CONSTANTS Jobs, Mailboxes,
          MailboxOf,        \* the mailboxId each request names
          Attempts,         \* enqueueSend adds every job with attempts: 3
          Missing,          \* no row with that mailbox id
          Never,            \* tokenExpiresAt is null
          NewTokens,        \* the token expiries a mailbox row may be given
          MaxTime,          \* bound: the clock stops here
          MaxFaults         \* bound: how many failures and crashes strike a job

ASSUME MailSendAssumption ==
  /\ Jobs # {} /\ MailboxOf \in [Jobs -> Mailboxes]
  /\ Attempts \in Nat \ {0}
  /\ Missing \notin Nat /\ Never \notin Nat /\ Missing # Never
  /\ NewTokens \subseteq Nat \cup {Never}
  /\ MaxTime \in Nat /\ MaxFaults \in Nat

VARIABLES
  job,        \* job[j]: the record BullMQ keeps for request j
  mailbox,    \* mailbox[m]: token expiry of row m, Never, or Missing
  now,        \* the clock
  pc,         \* pc[w]: where worker w is in processSend
  task,       \* task[w]: the job w works on, or worked on last
  snap,       \* snap[w]: the mailbox as findOne returned it
  branch,     \* branch[w]: which of its three payloads w is writing
  rows,       \* rows[j]: statuses of the Event rows written for j
  announced,  \* announced[j]: how many of them were emitted as 'email_event'
  usable,     \* history: was the token usable at some moment of w's attempt
  known,      \* history: did the mailbox exist when j was accepted
  faults      \* faults[j]: how many failures and crashes struck work on j

db == <<mailbox, now>>
worker == <<pc, task, snap, branch>>
log == <<rows, announced>>
history == <<usable, known>>
vars == <<job, db, worker, log, history, faults>>

PC == {"idle", "find", "decide", "save", "emit", "done", "thrown"}
Branch == {"ok", "expired", "caught"}
Token == Nat \cup {Missing, Never}
Status == {"ok", "error"}

TypeOK == /\ job \in [Jobs -> Job]
          /\ mailbox \in [Mailboxes -> Token]
          /\ now \in Nat
          /\ pc \in [Workers -> PC]
          /\ task \in [Workers -> Jobs]
          /\ snap \in [Workers -> Token]
          /\ branch \in [Workers -> Branch]
          /\ rows \in [Jobs -> Seq(Status)]
          /\ announced \in [Jobs -> Nat]
          /\ usable \in [Workers -> BOOLEAN]
          /\ known \in [Jobs -> BOOLEAN]
          /\ faults \in [Jobs -> Nat]

MailboxFor(w) == mailbox[MailboxOf[task[w]]]

(* isExpired of processSend: no row, or an expiry strictly in the past.    *)
IsExpired(token, t) ==
  \/ token = Missing
  \/ token \in Nat /\ token < t

(* Value of task[w] while w works on nothing.                              *)
NoTask == CHOOSE j \in Jobs : TRUE

(* Mutated form: the branch itself is written as the status.               *)
StatusIsBranch(b) == b

StatusOf(b) == IF b = "ok" THEN "ok" ELSE "error"

Init == /\ job = [j \in Jobs |-> NoJob]
        /\ mailbox \in [Mailboxes -> NewTokens \cup {Missing}]
        /\ now = 0
        /\ pc = [w \in Workers |-> "idle"]
        /\ task = [w \in Workers |-> NoTask]
        /\ snap = [w \in Workers |-> Missing]
        /\ branch = [w \in Workers |-> "ok"]
        /\ rows = [j \in Jobs |-> <<>>]
        /\ announced = [j \in Jobs |-> 0]
        /\ usable = [w \in Workers |-> FALSE]
        /\ known = [j \in Jobs |-> FALSE]
        /\ faults = [j \in Jobs |-> 0]

(* A failure of the environment strikes the work on job j.                 *)
Fault(j) == /\ faults[j] < MaxFaults
            /\ faults' = [faults EXCEPT ![j] = @ + 1]

-----------------------------------------------------------------------------
(* The API and the queue.                                                  *)

(* POST /mail/send.                                                        *)
Enqueue(j) == /\ job[j].state = "none"
              /\ job' = [job EXCEPT ![j] = Added(@)]
              /\ known' = [known EXCEPT ![j] = mailbox[MailboxOf[j]] # Missing]
              /\ UNCHANGED <<db, worker, log, usable, faults>>

(* The worker fetches the next job and calls processSend.                  *)
Take(w, j) ==
  /\ pc[w] = "idle"
  /\ job[j].state = "waiting"
  /\ job' = [job EXCEPT ![j] = Taken(@, w)]
  /\ pc' = [pc EXCEPT ![w] = "find"]
  /\ task' = [task EXCEPT ![w] = j]
  /\ usable' = [usable EXCEPT ![w] = ~IsExpired(mailbox[MailboxOf[j]], now)]
  /\ UNCHANGED <<db, snap, branch, log, known, faults>>

(* The backoff of a retried job is over.                                   *)
Promote(j) == /\ job[j].state = "delayed"
              /\ job' = [job EXCEPT ![j] = Promoted(@)]
              /\ UNCHANGED <<db, worker, log, history, faults>>

Abandoned(j) == \A w \in Workers : ~(Holds(job[j], w) /\ pc[w] # "idle" /\ task[w] = j)

(* The stalled check finds a job whose worker died.                        *)
StallAbandoned(j) == /\ job[j].state = "active"
                     /\ Abandoned(j)
                     /\ job' = [job EXCEPT ![j] = StallChecked(@)]
                     /\ UNCHANGED <<db, worker, log, history, faults>>

(* The worker is alive but could not renew its lock in time: the job goes  *)
(* back to the queue while processSend is still running.                   *)
StallRunning(j) == /\ job[j].state = "active"
                   /\ ~Abandoned(j)
                   /\ Fault(j)
                   /\ job' = [job EXCEPT ![j] = StallChecked(@)]
                   /\ UNCHANGED <<db, worker, log, history>>

-----------------------------------------------------------------------------
(* processSend.                                                            *)

Goto(w, l) == pc' = [pc EXCEPT ![w] = l]

FindMailbox(w) == /\ pc[w] = "find"
                  /\ snap' = [snap EXCEPT ![w] = MailboxFor(w)]
                  /\ Goto(w, "decide")
                  /\ UNCHANGED <<job, db, task, branch, log, history, faults>>

(* findOne stands before the try, so its rejection fails the attempt.      *)
FindFails(w) == /\ pc[w] = "find"
                /\ Fault(task[w])
                /\ Goto(w, "thrown")
                /\ UNCHANGED <<job, db, task, snap, branch, log, history>>

(* Mutated form: an unknown mailbox is not taken for an expired one.       *)
DecideWithoutRowCheck(w) ==
  /\ pc[w] = "decide"
  /\ branch' = [branch EXCEPT ![w] = IF snap[w] \in Nat /\ snap[w] < now
                                     THEN "expired" ELSE "ok"]
  /\ Goto(w, "save")
  /\ UNCHANGED <<job, db, task, snap, log, history, faults>>

(* Mutated form: an unknown mailbox makes processSend return at once.      *)
DecideReturnsEarly(w) ==
  /\ pc[w] = "decide"
  /\ branch' = [branch EXCEPT ![w] = IF IsExpired(snap[w], now)
                                     THEN "expired" ELSE "ok"]
  /\ Goto(w, IF snap[w] = Missing THEN "done" ELSE "save")
  /\ UNCHANGED <<job, db, task, snap, log, history, faults>>

(* `now` is read here, after findOne resolved.                             *)
Decide(w) ==
  /\ pc[w] = "decide"
  /\ branch' = [branch EXCEPT ![w] = IF IsExpired(snap[w], now)
                                     THEN "expired" ELSE "ok"]
  /\ Goto(w, "save")
  /\ UNCHANGED <<job, db, task, snap, log, history, faults>>

AppendRow(w) ==
  rows' = [rows EXCEPT ![task[w]] = Append(@, StatusOf(branch[w]))]

(* Mutated form: the expired branch goes on to write 'ok' (no return).     *)
SaveWithoutReturn(w) ==
  /\ pc[w] = "save"
  /\ MailboxFor(w) # Missing
  /\ AppendRow(w)
  /\ IF branch[w] = "expired"
     THEN branch' = [branch EXCEPT ![w] = "ok"] /\ pc' = pc
     ELSE Goto(w, "emit") /\ branch' = branch
  /\ UNCHANGED <<job, db, task, snap, announced, history, faults>>

(* repo.save inserts the row: Event.mailboxId references Mailbox.          *)
Save(w) == /\ pc[w] = "save"
           /\ MailboxFor(w) # Missing
           /\ AppendRow(w)
           /\ Goto(w, "emit")
           /\ UNCHANGED <<job, db, task, snap, branch, announced, history, faults>>

(* Mutated form: a failure inside the catch block is swallowed.            *)
RejectedIsSwallowed(w) ==
  IF branch[w] = "caught"
  THEN Goto(w, "done") /\ branch' = branch
  ELSE branch' = [branch EXCEPT ![w] = "caught"] /\ pc' = pc

(* repo.save rejects: the catch block writes an 'error' row; a rejection   *)
(* inside the catch block leaves processSend.                              *)
Rejected(w) ==
  IF branch[w] = "caught"
  THEN Goto(w, "thrown") /\ branch' = branch
  ELSE branch' = [branch EXCEPT ![w] = "caught"] /\ pc' = pc

SaveViolatesForeignKey(w) ==
  /\ pc[w] = "save"
  /\ MailboxFor(w) = Missing
  /\ Rejected(w)
  /\ UNCHANGED <<job, db, task, snap, log, history, faults>>

(* Mutated form: the row was announced before it was saved.                *)
SaveFailsAfterEmit(w) ==
  /\ pc[w] = "save"
  /\ Fault(task[w])
  /\ announced' = [announced EXCEPT ![task[w]] = @ + 1]
  /\ Rejected(w)
  /\ UNCHANGED <<job, db, task, snap, rows, history>>

SaveFails(w) == /\ pc[w] = "save"
                /\ Fault(task[w])
                /\ Rejected(w)
                /\ UNCHANGED <<job, db, task, snap, log, history>>

(* The row is committed but the connection breaks before the answer.       *)
SaveLosesAck(w) == /\ pc[w] = "save"
                   /\ MailboxFor(w) # Missing
                   /\ Fault(task[w])
                   /\ AppendRow(w)
                   /\ Rejected(w)
                   /\ UNCHANGED <<job, db, task, snap, announced, history>>

(* createNormalized hands the row to the WebSocket gateway and returns.    *)
Emit(w) == /\ pc[w] = "emit"
           /\ announced' = [announced EXCEPT ![task[w]] = @ + 1]
           /\ Goto(w, "done")
           /\ UNCHANGED <<job, db, task, snap, branch, rows, history, faults>>

(* The locals of processSend are gone.                                     *)
Leave(w) == /\ Goto(w, "idle")
            /\ task' = [task EXCEPT ![w] = NoTask]
            /\ snap' = [snap EXCEPT ![w] = Missing]
            /\ branch' = [branch EXCEPT ![w] = "ok"]
            /\ usable' = [usable EXCEPT ![w] = FALSE]

(* Mutated form: the job was added without its attempts option.            *)
FinishWithoutRetry(w) ==
  /\ pc[w] \in {"done", "thrown"}
  /\ job' = IF ~Holds(job[task[w]], w) THEN job
            ELSE [job EXCEPT ![task[w]] = IF pc[w] = "done" THEN Completed(@)
                                          ELSE AttemptFailed(@, 1)]
  /\ Leave(w)
  /\ UNCHANGED <<db, log, known, faults>>

(* BullMQ records the outcome of the attempt, unless the lock was lost.    *)
Finish(w) ==
  /\ pc[w] \in {"done", "thrown"}
  /\ job' = IF ~Holds(job[task[w]], w) THEN job
            ELSE [job EXCEPT ![task[w]] = IF pc[w] = "done" THEN Completed(@)
                                          ELSE AttemptFailed(@, Attempts)]
  /\ Leave(w)
  /\ UNCHANGED <<db, log, known, faults>>

-----------------------------------------------------------------------------
(* The environment.                                                        *)

(* The process dies and is restarted; its job stays active in Redis.       *)
Crash(w) == /\ pc[w] # "idle"
            /\ Fault(task[w])
            /\ Leave(w)
            /\ UNCHANGED <<job, db, log, known>>

(* MailboxesService inserts the row, or saves a new expiry in it.          *)
SetToken(m) == /\ \E e \in NewTokens :
                    mailbox' = [mailbox EXCEPT ![m] = e]
               /\ usable' = [w \in Workers |->
                    usable[w] \/ (pc[w] # "idle" /\ ~IsExpired(mailbox'[MailboxOf[task[w]]], now))]
               /\ UNCHANGED <<job, now, worker, log, known, faults>>

(* A token that was usable later was usable before: usable[w] stands.      *)
Tick == /\ now < MaxTime
        /\ now' = now + 1
        /\ UNCHANGED <<job, mailbox, worker, log, history, faults>>

-----------------------------------------------------------------------------
SendStep(w) == \/ FindMailbox(w) \/ Decide(w) \/ Save(w)
               \/ SaveViolatesForeignKey(w) \/ Emit(w) \/ Finish(w)
FaultStep(w) == FindFails(w) \/ SaveFails(w) \/ SaveLosesAck(w) \/ Crash(w)
QueueStep(j) == (\E w \in Workers : Take(w, j)) \/ Promote(j) \/ StallAbandoned(j)

Next == \/ \E j \in Jobs : Enqueue(j) \/ QueueStep(j) \/ StallRunning(j)
        \/ \E w \in Workers : SendStep(w) \/ FaultStep(w)
        \/ \E m \in Mailboxes : SetToken(m)
        \/ Tick

(* A worker that runs goes on running; BullMQ fetches waiting jobs, ends   *)
(* backoffs and looks for stalled jobs on its own timers.  No fairness for *)
(* requests, token changes, the clock or failures.                         *)
Fairness == /\ \A w \in Workers : WF_vars(SendStep(w))
            /\ \A j \in Jobs : WF_vars(QueueStep(j))

Spec == Init /\ [][Next]_vars /\ Fairness
-----------------------------------------------------------------------------
(* Properties.                                                             *)

(* A job that BullMQ completed, and removed, left at least one Event row:  *)
(* the catch block of processSend may not lose the send silently, whatever *)
(* fails and whoever else worked on the job.                               *)
CompletedIsLogged ==
  \A j \in Jobs : job[j].state = "completed" => rows[j] # <<>>

(* The row 'ok' is written only if at some moment of this attempt the      *)
(* mailbox existed with a token that had not expired, although the token   *)
(* is read before an await and judged and used after it.                   *)
OkVerdictJustified ==
  \A w \in Workers :
    pc[w] \in {"save", "emit", "done"} /\ branch[w] = "ok" => usable[w]

(* Every row beyond a send's first has a failure, a crash or a lost lock   *)
(* in the work on this very send to answer for it: whatever the            *)
(* interleaving of workers, retries and token changes, a send that met     *)
(* none is logged once.  And each start of processSend writes at most two  *)
(* rows, of at most Attempts + MaxStalled.                                 *)
RepeatedRowsHaveCause ==
  \A j \in Jobs : /\ Len(rows[j]) <= 1 + faults[j]
                  /\ Len(rows[j]) <= 2 * (Attempts + MaxStalled)

(* A request for an existing mailbox is given up only when its attempts    *)
(* are used, or its lock was lost more often than MaxStalled; and every    *)
(* failed attempt and every lost lock of it had a fault of its own, so     *)
(* that no fault is counted against a send twice.                          *)
LossNeedsRepeatedFaults ==
  \A j \in Jobs :
    job[j].state = "failed" /\ known[j]
      => /\ job[j].attemptsMade = Attempts \/ job[j].stalled > MaxStalled
         /\ job[j].attemptsMade + job[j].stalled <= faults[j]

(* Dashboards are told of a row only after it is committed, and every row  *)
(* they are not told of is about to be announced or is due to a fault in   *)
(* the work on its send.                                                   *)
AnnouncementsAccounted ==
  \A j \in Jobs :
    LET pending == {w \in Workers : pc[w] = "emit" /\ task[w] = j}
    IN  /\ announced[j] + Cardinality(pending) <= Len(rows[j])
        /\ Len(rows[j]) <= announced[j] + Cardinality(pending) + faults[j]

Phase(q) == CASE q.state = "none" -> "new"
              [] q.state \in {"waiting", "active", "delayed"} -> "accepted"
              [] q.state = "completed" -> "done"
              [] q.state = "failed" -> "lost"

Ledger == INSTANCE SendLedger WITH phase <- [j \in Jobs |-> Phase(job[j])]

(* The queue and its workers implement the ledger: a request is done only  *)
(* with a row in the log, decisions are final, rows are never withdrawn,   *)
(* and every accepted request is eventually decided.                       *)
ImplementsLedger == Ledger!Spec

-----------------------------------------------------------------------------
(* GET /mail/queue: what listQueue reports of a job getJobs returned.      *)
Listed == {j \in Jobs : job[j].state \in {"waiting", "delayed", "active", "failed"}}

ReportedState(j) == IF job[j].finishedOn THEN "completed"
                    ELSE IF job[j].failedReason THEN "failed"
                    ELSE IF job[j].processedOn THEN "active"
                    ELSE "waiting"

(* The listing of queued jobs reports a given-up job as 'failed', the      *)
(* state listQueue has for it and asked getJobs for.                       *)
ListingIsTruthful ==
  \A j \in Listed : job[j].state = "failed" => ReportedState(j) = "failed"
=============================================================================
