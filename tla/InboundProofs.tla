--------------------------- MODULE InboundProofs ----------------------------
(***************************************************************************)
(* For every set of deliveries, repetitions, mailboxes and workers, and    *)
(* every bound: Inbound is type correct, what a provider was answered is   *)
(* what the log says, and a delivery is logged once but for what failed.   *)
(***************************************************************************)
EXTENDS Inbound, FiniteSetTheorems, TLAPS

USE JobQueueAssumption, InboundAssumption
    DEF JobQueueAssumption, InboundAssumption

(* The queue's operators map job records to job records.                   *)
LEMMA AddedJob ==
  ASSUME NEW q \in Job
  PROVE  Added(q) \in Job /\ Added(q).state = "waiting"
BY DEF Job, JobState, Added

LEMMA TakenJob ==
  ASSUME NEW q \in Job, NEW w \in Workers
  PROVE  Taken(q, w) \in Job /\ Taken(q, w).state = "active"
BY DEF Job, JobState, Taken

LEMMA CompletedJob ==
  ASSUME NEW q \in Job
  PROVE  Completed(q) \in Job /\ Completed(q).state = "completed"
<1> DEFINE counted == [q EXCEPT !.attemptsMade = @ + 1]
<1>1. counted \in Job
  BY DEF Job
<1>2. Completed(q) = [counted EXCEPT !.state = "completed",
                                     !.lock = NoWorker, !.finishedOn = TRUE]
  BY DEF Completed, Job
<1> QED
  BY <1>1, <1>2 DEF Job, JobState

LEMMA StallCheckedJob ==
  ASSUME NEW q \in Job
  PROVE  StallChecked(q) \in Job /\ StallChecked(q).state \in {"waiting", "failed"}
<1> DEFINE counted == [q EXCEPT !.stalled = @ + 1]
<1>1. counted \in Job
  BY DEF Job
<1>2. GivenUp(counted) \in Job /\ GivenUp(counted).state = "failed"
  BY <1>1 DEF Job, JobState, GivenUp
<1>3. [counted EXCEPT !.state = "waiting", !.lock = NoWorker] \in Job
  BY <1>1 DEF Job, JobState
<1>4. [counted EXCEPT !.state = "waiting", !.lock = NoWorker].state = "waiting"
  BY <1>1 DEF Job
<1> QED
  BY <1>2, <1>3, <1>4 DEF StallChecked

-----------------------------------------------------------------------------
(* The inductive invariant: the verdict is settled before the job is       *)
(* added, only an added job is run, and only a job that is run is logged.  *)
Answered ==
  \A d \in Deliveries :
    /\ hook[d].answer # "none" => hook[d].pc = "over"
    /\ hook[d].answer = "success" => hook[d].verdict = "ok"
    /\ hook[d].answer = "expired" => hook[d].verdict = "fail"
    /\ hook[d].pc # "new" /\ hook[d].answer # "refused" => hook[d].box \in Mailboxes

AddedIsJudged ==
  \A d \in Deliveries : job[d].state # "none" =>
    hook[d].pc \in {"reply", "over"} /\ hook[d].answer # "refused"

RunningIsAdded ==
  \A w \in Workers : pc[w] # "idle" =>
    task[w] \in Deliveries /\ job[task[w]].state # "none"

RowsAreVerdicts ==
  \A d \in Deliveries : \A k \in DOMAIN rows[d] :
    job[d].state # "none" /\ rows[d][k] = hook[d].verdict

IInv == TypeOK /\ Answered /\ AddedIsJudged /\ RunningIsAdded /\ RowsAreVerdicts

LEMMA IInvMatches == IInv => AnswerMatchesLog
<1> SUFFICES ASSUME IInv, NEW d \in Deliveries, NEW k \in DOMAIN rows[d],
                    hook[d].answer # "none"
             PROVE  rows[d][k] = CASE hook[d].answer = "success" -> "ok"
                        [] hook[d].answer = "expired" -> "fail"
                        [] hook[d].answer = "refused" -> "no row"
  BY DEF AnswerMatchesLog
<1>1. hook[d].answer \in {"success", "expired", "refused"}
  BY DEF IInv, TypeOK, Hook
<1>2. rows[d][k] = hook[d].verdict /\ hook[d].answer # "refused"
  BY DEF IInv, RowsAreVerdicts, AddedIsJudged
<1>3. CASE hook[d].answer = "success"
  BY <1>2, <1>3 DEF IInv, Answered
<1>4. CASE hook[d].answer = "expired"
  BY <1>2, <1>4 DEF IInv, Answered
<1> QED
  BY <1>1, <1>2, <1>3, <1>4

LEMMA InitIInv == Init => IInv
<1> SUFFICES ASSUME Init PROVE IInv
  OBVIOUS
<1>1. NoJob \in Job /\ NoJob.state = "none"
  BY DEF NoJob, Job, JobState
<1>2. [pc |-> "new", box |-> Nobody, snap |-> Missing, verdict |-> "ok",
       answer |-> "none"] \in Hook
  BY DEF Hook
<1>3. <<>> \in Seq({"ok", "fail"})
  OBVIOUS
<1>4. TypeOK
  BY <1>1, <1>2, <1>3 DEF Init, TypeOK
<1>5. Answered /\ AddedIsJudged
  BY <1>1 DEF Init, Answered, AddedIsJudged
<1>6. RunningIsAdded /\ RowsAreVerdicts
  BY DEF Init, RunningIsAdded, RowsAreVerdicts
<1> QED
  BY <1>4, <1>5, <1>6 DEF IInv

-----------------------------------------------------------------------------
(* A step of one handler whose job is not added yet, or that only answers. *)
LEMMA HookKeepsIInv ==
  ASSUME IInv, NEW d \in Deliveries, NEW h \in Hook,
         hook' = [hook EXCEPT ![d] = h],
         UNCHANGED <<db, job, worker, log>>, faults' \in [Deliveries -> Nat],
         h.answer # "none" => h.pc = "over",
         h.answer = "success" => h.verdict = "ok",
         h.answer = "expired" => h.verdict = "fail",
         h.pc # "new" /\ h.answer # "refused" => h.box \in Mailboxes,
         job[d].state # "none" =>
           /\ h.pc \in {"reply", "over"} /\ h.answer # "refused"
           /\ h.verdict = hook[d].verdict
  PROVE  IInv'
<1> USE DEF IInv
<1>1. TypeOK'
  BY DEF TypeOK, db, worker, log
<1>2. Answered'
  BY DEF TypeOK, Answered
<1>3. AddedIsJudged'
  BY DEF TypeOK, AddedIsJudged
<1>4. RunningIsAdded'
  BY DEF RunningIsAdded, worker
<1>5. RowsAreVerdicts'
  BY DEF TypeOK, RowsAreVerdicts, log
<1> QED
  BY <1>1, <1>2, <1>3, <1>4, <1>5

LEMMA ReceiveKeepsIInv ==
  ASSUME IInv, NEW d \in Deliveries, NEW m \in Mailboxes \cup {Nobody}, Receive(d, m)
  PROVE  IInv'
<1> DEFINE refused == [hook[d] EXCEPT !.pc = "over", !.answer = "refused"]
           heard == [hook[d] EXCEPT !.pc = "find", !.box = m]
<1>1. hook[d] \in Hook /\ hook[d].answer = "none" /\ job[d].state = "none"
  BY DEF IInv, TypeOK, Answered, AddedIsJudged, Hook, Receive
<1>2. UNCHANGED <<db, job, worker, log>> /\ faults' \in [Deliveries -> Nat]
  BY DEF IInv, TypeOK, Receive
<1>3. CASE m = Nobody
  <2>1. refused \in Hook /\ hook' = [hook EXCEPT ![d] = refused]
    BY <1>1, <1>3 DEF Hook, Receive, Answer, IInv, TypeOK
  <2>2. refused.answer = "refused" /\ refused.pc = "over"
    BY <1>1 DEF Hook
  <2> HIDE DEF refused
  <2> QED
    BY <1>1, <1>2, <2>1, <2>2, HookKeepsIInv
<1>4. CASE m # Nobody
  <2>1. heard \in Hook /\ hook' = [hook EXCEPT ![d] = heard]
    BY <1>1, <1>4 DEF Hook, Receive, IInv, TypeOK
  <2>2. heard.answer = "none" /\ heard.box \in Mailboxes
    BY <1>1, <1>4 DEF Hook
  <2> HIDE DEF heard
  <2> QED
    BY <1>1, <1>2, <2>1, <2>2, HookKeepsIInv
<1> QED
  BY <1>3, <1>4

LEMMA RedeliverKeepsIInv ==
  ASSUME IInv, NEW d \in Deliveries, Redeliver(d)
  PROVE  IInv'
<1> DEFINE o == RepeatOf[d]
           heard == [hook[d] EXCEPT !.pc = "find", !.box = hook[o].box]
<1>1. o \in Deliveries
  BY DEF Redeliver
<1>2. hook[d] \in Hook /\ hook[o] \in Hook /\ hook[d].answer = "none"
      /\ job[d].state = "none"
  BY <1>1 DEF IInv, TypeOK, Answered, AddedIsJudged, Redeliver
<1>3. UNCHANGED <<db, job, worker, log>> /\ faults' \in [Deliveries -> Nat]
  BY DEF IInv, TypeOK, Redeliver
<1>4. heard \in Hook /\ hook' = [hook EXCEPT ![d] = heard]
  BY <1>2 DEF Hook, Redeliver, IInv, TypeOK
<1>5. heard.answer = "none" /\ heard.box \in Mailboxes
  BY <1>1, <1>2 DEF Hook, IInv, Answered, Redeliver, Unanswered
<1> HIDE DEF heard
<1> QED
  BY <1>2, <1>3, <1>4, <1>5, HookKeepsIInv

LEMMA FindMailboxKeepsIInv ==
  ASSUME IInv, NEW d \in Deliveries, FindMailbox(d)
  PROVE  IInv'
<1> DEFINE t == token[hook[d].box]
           refused == [hook[d] EXCEPT !.pc = "over", !.answer = "refused"]
           found == [hook[d] EXCEPT !.pc = "judge", !.snap = t]
<1>1. hook[d] \in Hook /\ hook[d].answer = "none" /\ job[d].state = "none"
  BY DEF IInv, TypeOK, Answered, AddedIsJudged, FindMailbox
<1>2. UNCHANGED <<db, job, worker, log>> /\ faults' \in [Deliveries -> Nat]
  BY DEF IInv, TypeOK, FindMailbox
<1>3. CASE t = Missing
  <2>1. refused \in Hook /\ hook' = [hook EXCEPT ![d] = refused]
    BY <1>1, <1>3 DEF Hook, FindMailbox, Answer, IInv, TypeOK
  <2>2. refused.answer = "refused" /\ refused.pc = "over"
    BY <1>1 DEF Hook
  <2> HIDE DEF refused
  <2> QED
    BY <1>1, <1>2, <2>1, <2>2, HookKeepsIInv
<1>4. CASE t # Missing
  <2>1. t \in Nat \cup {Missing, Never}
    BY DEF IInv, TypeOK, Answered, FindMailbox
  <2>2. found \in Hook /\ hook' = [hook EXCEPT ![d] = found]
    BY <1>1, <1>4, <2>1 DEF Hook, FindMailbox, IInv, TypeOK
  <2>3. found.answer = "none" /\ found.box \in Mailboxes
    BY <1>1 DEF Hook, IInv, Answered, FindMailbox
  <2> HIDE DEF found
  <2> QED
    BY <1>1, <1>2, <2>2, <2>3, HookKeepsIInv
<1> QED
  BY <1>3, <1>4

LEMMA JudgeKeepsIInv ==
  ASSUME IInv, NEW d \in Deliveries, Judge(d)
  PROVE  IInv'
<1> DEFINE judged == [hook[d] EXCEPT !.pc = "enqueue", !.verdict =
                        IF IsExpired(hook[d].snap, now) THEN "fail" ELSE "ok"]
<1>1. hook[d] \in Hook /\ hook[d].answer = "none" /\ job[d].state = "none"
  BY DEF IInv, TypeOK, Answered, AddedIsJudged, Judge
<1>2. UNCHANGED <<db, job, worker, log>> /\ faults' \in [Deliveries -> Nat]
  BY DEF IInv, TypeOK, Judge
<1>3. judged \in Hook /\ hook' = [hook EXCEPT ![d] = judged]
  BY <1>1 DEF Hook, Judge, IInv, TypeOK
<1>4. judged.answer = "none" /\ judged.box \in Mailboxes
  BY <1>1 DEF Hook, IInv, Answered, Judge
<1> HIDE DEF judged
<1> QED
  BY <1>1, <1>2, <1>3, <1>4, HookKeepsIInv

LEMMA ReplyKeepsIInv ==
  ASSUME IInv, NEW d \in Deliveries, Reply(d)
  PROVE  IInv'
<1> DEFINE a == IF hook[d].verdict = "ok" THEN "success" ELSE "expired"
           told == [hook[d] EXCEPT !.pc = "over", !.answer = a]
<1>1. hook[d] \in Hook
  BY DEF IInv, TypeOK
<1>2. UNCHANGED <<db, job, worker, log>> /\ faults' \in [Deliveries -> Nat]
  BY DEF IInv, TypeOK, Reply
<1>3. told \in Hook /\ hook' = [hook EXCEPT ![d] = told]
  BY <1>1 DEF Hook, Reply, Answer, IInv, TypeOK
<1>4. /\ told.answer = a /\ told.pc = "over" /\ told.verdict = hook[d].verdict
      /\ told.box \in Mailboxes
  BY <1>1 DEF Hook, IInv, Answered, Reply
<1>5. hook[d].verdict \in {"ok", "fail"}
  BY <1>1 DEF Hook
<1> HIDE DEF told
<1> QED
  BY <1>2, <1>3, <1>4, <1>5, HookKeepsIInv

LEMMA HookFailsKeepsIInv ==
  ASSUME IInv, NEW d \in Deliveries, HookFails(d)
  PROVE  IInv'
<1> DEFINE failed == [hook[d] EXCEPT !.pc = "over"]
<1>1. hook[d] \in Hook /\ hook[d].answer = "none"
  BY DEF IInv, TypeOK, Answered, HookFails
<1>2. UNCHANGED <<db, job, worker, log>> /\ faults' \in [Deliveries -> Nat]
  BY DEF IInv, TypeOK, HookFails, Fault
<1>3. failed \in Hook /\ hook' = [hook EXCEPT ![d] = failed]
  BY <1>1 DEF Hook, HookFails, Advance, IInv, TypeOK
<1>4. /\ failed.answer = "none" /\ failed.pc = "over"
      /\ failed.verdict = hook[d].verdict /\ failed.box \in Mailboxes
  BY <1>1 DEF Hook, IInv, Answered, HookFails
<1> HIDE DEF failed
<1> QED
  BY <1>1, <1>2, <1>3, <1>4, HookKeepsIInv

LEMMA EnqueueKeepsIInv ==
  ASSUME IInv, NEW d \in Deliveries, Enqueue(d)
  PROVE  IInv'
<1> USE DEF IInv, Enqueue
<1> DEFINE advanced == [hook[d] EXCEPT !.pc = "reply"]
<1>1. hook[d] \in Hook /\ hook[d].answer = "none" /\ job[d] \in Job
  BY DEF TypeOK, Answered
<1>2. advanced \in Hook /\ hook' = [hook EXCEPT ![d] = advanced]
  BY <1>1 DEF Hook, Advance, TypeOK
<1>3. advanced.pc = "reply" /\ advanced.answer = "none"
      /\ advanced.verdict = hook[d].verdict /\ advanced.box \in Mailboxes
  BY <1>1 DEF Hook, Answered
<1>4. Added(job[d]) \in Job /\ Added(job[d]).state = "waiting"
  BY <1>1, AddedJob
<1>5. job' = [job EXCEPT ![d] = Added(job[d])]
  OBVIOUS
<1> HIDE DEF advanced
<1>6. TypeOK'
  BY <1>2, <1>4, <1>5 DEF TypeOK, db, worker, log
<1>7. Answered'
  BY <1>2, <1>3 DEF TypeOK, Answered
<1>8. AddedIsJudged'
  BY <1>2, <1>3, <1>5 DEF TypeOK, AddedIsJudged
<1>9. RunningIsAdded'
  BY <1>4, <1>5 DEF TypeOK, RunningIsAdded, worker
<1>10. RowsAreVerdicts'
  BY <1>2, <1>3, <1>4, <1>5 DEF TypeOK, RowsAreVerdicts, log
<1> QED
  BY <1>6, <1>7, <1>8, <1>9, <1>10

(* A step that moves an added job to another place in the queue, and       *)
(* perhaps a worker.                                                       *)
LEMMA JobKeepsIInv ==
  ASSUME IInv, NEW d \in Deliveries, NEW q \in Job, job[d].state # "none",
         q.state # "none", job' = [job EXCEPT ![d] = q],
         UNCHANGED <<db, hook, log>>, faults' \in [Deliveries -> Nat],
         pc' \in [Workers -> {"idle", "find", "save", "emit", "done"}],
         task' \in [Workers -> Deliveries \cup {Nobody}],
         \A w \in Workers : pc'[w] # "idle" =>
           task'[w] \in Deliveries /\ job[task'[w]].state # "none"
  PROVE  IInv'
<1> USE DEF IInv
<1>1. TypeOK'
  BY DEF TypeOK, db, log
<1>2. Answered' /\ AddedIsJudged'
  BY DEF TypeOK, Answered, AddedIsJudged
<1>3. RunningIsAdded'
  BY DEF TypeOK, RunningIsAdded
<1>4. RowsAreVerdicts'
  BY DEF TypeOK, RowsAreVerdicts, log
<1> QED
  BY <1>1, <1>2, <1>3, <1>4

LEMMA TakeKeepsIInv ==
  ASSUME IInv, NEW d \in Deliveries, NEW w \in Workers, Take(w, d)
  PROVE  IInv'
<1> USE DEF IInv, Take, Goto
<1>1. job[d] \in Job /\ job[d].state # "none"
  BY DEF TypeOK
<1>2. Taken(job[d], w) \in Job /\ Taken(job[d], w).state # "none"
  BY <1>1, TakenJob
<1>3. pc' \in [Workers -> {"idle", "find", "save", "emit", "done"}]
  BY DEF TypeOK
<1>4. task' \in [Workers -> Deliveries \cup {Nobody}]
  BY DEF TypeOK
<1>5. \A v \in Workers : pc'[v] # "idle" =>
        task'[v] \in Deliveries /\ job[task'[v]].state # "none"
  BY <1>1 DEF TypeOK, RunningIsAdded
<1>6. faults' \in [Deliveries -> Nat]
  BY DEF TypeOK
<1> QED
  BY <1>1, <1>2, <1>3, <1>4, <1>5, <1>6, JobKeepsIInv

LEMMA StallKeepsIInv ==
  ASSUME IInv, NEW d \in Deliveries, StallAbandoned(d) \/ StallRunning(d)
  PROVE  IInv'
<1> USE DEF IInv
<1>1. /\ job' = [job EXCEPT ![d] = StallChecked(job[d])]
      /\ job[d].state = "active"
      /\ UNCHANGED <<db, hook, worker, log>>
      /\ faults' \in [Deliveries -> Nat]
  BY DEF TypeOK, StallAbandoned, StallRunning, Fault
<1>2. job[d] \in Job
  BY DEF TypeOK
<1>3. StallChecked(job[d]) \in Job /\ StallChecked(job[d]).state # "none"
  BY <1>2, StallCheckedJob
<1>4. pc' = pc /\ task' = task
  BY <1>1 DEF worker
<1> QED
  BY <1>1, <1>3, <1>4, JobKeepsIInv DEF TypeOK, RunningIsAdded

LEMMA FinishKeepsIInv ==
  ASSUME IInv, NEW w \in Workers, Finish(w)
  PROVE  IInv'
<1> USE DEF IInv, Finish, Leave, Goto
<1>1. task[w] \in Deliveries /\ job[task[w]].state # "none"
  BY DEF RunningIsAdded
<1>2. job[task[w]] \in Job
  BY <1>1 DEF TypeOK
<1>3. Completed(job[task[w]]) \in Job /\ Completed(job[task[w]]).state # "none"
  BY <1>2, CompletedJob
<1>4. job' = [job EXCEPT ![task[w]] = Completed(job[task[w]])]
      \/ job' = [job EXCEPT ![task[w]] = job[task[w]]]
  BY <1>1 DEF TypeOK
<1>5. pc' \in [Workers -> {"idle", "find", "save", "emit", "done"}]
  BY DEF TypeOK
<1>6. task' \in [Workers -> Deliveries \cup {Nobody}]
  BY DEF TypeOK
<1>7. \A v \in Workers : pc'[v] # "idle" =>
        task'[v] \in Deliveries /\ job[task'[v]].state # "none"
  BY DEF TypeOK, RunningIsAdded
<1>8. faults' \in [Deliveries -> Nat] /\ UNCHANGED <<db, hook, log>>
  BY DEF TypeOK
<1> QED
  BY <1>1, <1>2, <1>3, <1>4, <1>5, <1>6, <1>7, <1>8, JobKeepsIInv

(* A step of a worker that leaves the queue alone and writes no row or one *)
(* of its job.                                                             *)
LEMMA AppendedRow ==
  ASSUME IInv, NEW w \in Workers, pc[w] # "idle", AppendRow(w)
  PROVE  /\ rows' \in [Deliveries -> Seq({"ok", "fail"})]
         /\ \A d \in Deliveries : \A k \in DOMAIN rows'[d] :
               job[d].state # "none" /\ rows'[d][k] = hook[d].verdict
<1> USE DEF IInv
<1> DEFINE d == task[w]
           v == hook[d].verdict
<1>1. d \in Deliveries /\ job[d].state # "none"
  BY DEF RunningIsAdded
<1>2. v \in {"ok", "fail"} /\ rows[d] \in Seq({"ok", "fail"})
  BY <1>1 DEF TypeOK, Hook
<1>3. rows' = [rows EXCEPT ![d] = Append(rows[d], v)]
  BY DEF AppendRow
<1>4. \A k \in DOMAIN rows[d] : rows[d][k] = v
  BY <1>1 DEF RowsAreVerdicts
<1> HIDE DEF v
<1>5. /\ Append(rows[d], v) \in Seq({"ok", "fail"})
      /\ \A k \in DOMAIN Append(rows[d], v) : Append(rows[d], v)[k] = v
  BY <1>2, <1>4
<1>6. rows'[d] = Append(rows[d], v)
  BY <1>1, <1>3 DEF TypeOK
<1>7. rows' \in [Deliveries -> Seq({"ok", "fail"})]
  BY <1>3, <1>5 DEF TypeOK
<1>8. ASSUME NEW e \in Deliveries, NEW k \in DOMAIN rows'[e]
      PROVE  job[e].state # "none" /\ rows'[e][k] = hook[e].verdict
  <2>1. CASE e = d
    BY <1>1, <1>5, <1>6, <2>1 DEF v
  <2>2. CASE e # d
    <3>1. rows'[e] = rows[e]
      BY <1>3, <2>2 DEF TypeOK
    <3> QED
      BY <3>1 DEF RowsAreVerdicts
  <2> QED
    BY <2>1, <2>2
<1> QED
  BY <1>7, <1>8

LEMMA WorkerKeepsIInv ==
  ASSUME IInv, NEW w \in Workers, pc[w] # "idle",
         UNCHANGED <<db, hook, job>>,
         NEW l \in {"save", "emit", "done"}, pc' = [pc EXCEPT ![w] = l],
         UNCHANGED task, UNCHANGED rows \/ AppendRow(w),
         announced' \in [Deliveries -> Nat], faults' \in [Deliveries -> Nat]
  PROVE  IInv'
<1> USE DEF IInv
<1>1. rows' \in [Deliveries -> Seq({"ok", "fail"})] /\ RowsAreVerdicts'
  <2>1. CASE UNCHANGED rows
    BY <2>1 DEF TypeOK, RowsAreVerdicts
  <2>2. CASE AppendRow(w)
    BY <2>2, AppendedRow DEF RowsAreVerdicts
  <2> QED
    BY <2>1, <2>2
<1>2. TypeOK'
  BY <1>1 DEF TypeOK, db
<1>3. Answered' /\ AddedIsJudged'
  BY DEF Answered, AddedIsJudged
<1>4. RunningIsAdded'
  BY DEF TypeOK, RunningIsAdded
<1> QED
  BY <1>1, <1>2, <1>3, <1>4

LEMMA WorkerStepKeepsIInv ==
  ASSUME IInv, NEW w \in Workers, LookUp(w) \/ Save(w) \/ Emit(w) \/ Swallow(w)
  PROVE  IInv'
<1> USE DEF Goto
<1>1. announced \in [Deliveries -> Nat] /\ faults \in [Deliveries -> Nat]
  BY DEF IInv, TypeOK
<1>2. CASE LookUp(w)
  BY <1>1, <1>2, WorkerKeepsIInv DEF LookUp, log
<1>3. CASE Save(w)
  BY <1>1, <1>3, WorkerKeepsIInv DEF Save
<1>4. CASE Emit(w)
  <2>0. task[w] \in Deliveries
    BY <1>4 DEF Emit, IInv, RunningIsAdded
  <2>1. announced' \in [Deliveries -> Nat]
    BY <1>1, <1>4, <2>0 DEF Emit
  <2>2. /\ pc[w] # "idle" /\ pc' = [pc EXCEPT ![w] = "done"]
        /\ UNCHANGED <<db, hook, job>> /\ UNCHANGED task /\ UNCHANGED rows
        /\ faults' \in [Deliveries -> Nat]
    BY <1>1, <1>4 DEF Emit
  <2> QED
    BY <2>1, <2>2, WorkerKeepsIInv
<1>5. CASE Swallow(w)
  <2>1. faults' \in [Deliveries -> Nat]
    BY <1>1, <1>5 DEF Swallow, Fault, IInv, RunningIsAdded
  <2> QED
    BY <1>1, <1>5, <2>1, WorkerKeepsIInv DEF Swallow
<1> QED
  BY <1>2, <1>3, <1>4, <1>5

LEMMA CrashKeepsIInv ==
  ASSUME IInv, NEW w \in Workers, Crash(w)
  PROVE  IInv'
<1> USE DEF IInv, Crash, Leave, Goto
<1>fault. faults' \in [Deliveries -> Nat]
  BY DEF TypeOK, RunningIsAdded, Fault
<1>1. TypeOK'
  BY <1>fault DEF TypeOK, db, log
<1>2. Answered' /\ AddedIsJudged'
  BY DEF Answered, AddedIsJudged
<1>3. RunningIsAdded'
  BY DEF TypeOK, RunningIsAdded
<1>4. RowsAreVerdicts'
  BY DEF RowsAreVerdicts, log
<1> QED
  BY <1>1, <1>2, <1>3, <1>4

(* The clock and the tokens matter to no part of the invariant but TypeOK. *)
LEMMA EnvironmentKeepsIInv ==
  ASSUME IInv, Tick \/ \E m \in Mailboxes : SetToken(m)
  PROVE  IInv'
<1> USE DEF IInv
<1>1. UNCHANGED <<hook, job, worker, log, faults>>
  BY DEF Tick, SetToken
<1>2. token' \in [Mailboxes -> Nat \cup {Missing, Never}] /\ now' \in Nat
  <2>1. CASE Tick
    BY <2>1 DEF TypeOK, Tick
  <2>2. ASSUME NEW m \in Mailboxes, SetToken(m)
        PROVE  token' \in [Mailboxes -> Nat \cup {Missing, Never}] /\ now' \in Nat
    <3>1. PICK e \in NewTokens : token' = [token EXCEPT ![m] = e]
      BY <2>2 DEF SetToken
    <3> QED
      BY <2>2, <3>1 DEF TypeOK, SetToken
  <2> QED
    BY <2>1, <2>2
<1>3. TypeOK'
  BY <1>1, <1>2 DEF TypeOK, worker, log
<1>4. Answered' /\ AddedIsJudged'
  BY <1>1 DEF Answered, AddedIsJudged
<1>5. RunningIsAdded'
  BY <1>1 DEF RunningIsAdded, worker
<1>6. RowsAreVerdicts'
  BY <1>1 DEF RowsAreVerdicts, log
<1> QED
  BY <1>3, <1>4, <1>5, <1>6

LEMMA StutterKeepsIInv ==
  ASSUME IInv, UNCHANGED vars
  PROVE  IInv'
<1> USE DEF IInv, vars
<1>1. TypeOK'
  BY DEF TypeOK, db, worker, log
<1>2. Answered' /\ AddedIsJudged'
  BY DEF Answered, AddedIsJudged
<1>3. RunningIsAdded'
  BY DEF RunningIsAdded, worker
<1>4. RowsAreVerdicts'
  BY DEF RowsAreVerdicts, log
<1> QED
  BY <1>1, <1>2, <1>3, <1>4

LEMMA NextIInv == IInv /\ [Next]_vars => IInv'
<1> SUFFICES ASSUME IInv, [Next]_vars PROVE IInv'
  OBVIOUS
<1>1. ASSUME NEW d \in Deliveries,
             \/ \E m \in Mailboxes \cup {Nobody} : Receive(d, m)
             \/ Redeliver(d) \/ HookStep(d) \/ HookFails(d)
      PROVE  IInv'
  BY <1>1, ReceiveKeepsIInv, RedeliverKeepsIInv, FindMailboxKeepsIInv,
     JudgeKeepsIInv, EnqueueKeepsIInv, ReplyKeepsIInv, HookFailsKeepsIInv DEF HookStep
<1>2. ASSUME NEW d \in Deliveries, QueueStep(d) \/ StallRunning(d)
      PROVE  IInv'
  BY <1>2, TakeKeepsIInv, StallKeepsIInv DEF QueueStep
<1>3. ASSUME NEW w \in Workers, WorkerStep(w) \/ Swallow(w) \/ Crash(w)
      PROVE  IInv'
  BY <1>3, WorkerStepKeepsIInv, FinishKeepsIInv, CrashKeepsIInv DEF WorkerStep
<1> QED
  BY <1>1, <1>2, <1>3, EnvironmentKeepsIInv, StutterKeepsIInv DEF Next

LEMMA AlwaysIInv == Spec => []IInv
BY InitIInv, NextIInv, PTL DEF Spec

-----------------------------------------------------------------------------
(* The handlers, jobs, workers and rows keep their types.                  *)
THEOREM TypeCorrect == Spec => []TypeOK
<1>1. IInv => TypeOK
  BY DEF IInv
<1> QED
  BY <1>1, AlwaysIInv, PTL

(* What the provider was told is what the log says: the verdict of gmail   *)
(* and microsoft (webhooks.controller.ts) travels in the job, and process  *)
(* (worker.service.ts) writes it, however late and however often it runs.  *)
THEOREM AnswersMatchTheLog == Spec => []AnswerMatchesLog
BY IInvMatches, AlwaysIInv, PTL

-----------------------------------------------------------------------------
(* How often a delivery was run, and what that costs.                      *)

(* The workers that have still to write the row, or to announce it.        *)
Writing(d) == {w \in Workers : task[w] = d /\ pc[w] \in {"find", "save"}}
Emitting(d) == {w \in Workers : task[w] = d /\ pc[w] = "emit"}

(* How often the job was taken: once, and once more for every stall that   *)
(* put it back.                                                            *)
Takes(q) == q.stalled + (IF q.state \in {"active", "completed"} THEN 1 ELSE 0)

StallsOK(q) ==
  /\ q.state = "none" => q.stalled = 0
  /\ IF q.state = "failed" THEN q.stalled = MaxStalled + 1 ELSE q.stalled <= MaxStalled

Counted(d) ==
  /\ IsFiniteSet(Writing(d)) /\ IsFiniteSet(Emitting(d))
  /\ Len(rows[d]) + Cardinality(Writing(d)) <= Takes(job[d])
  /\ announced[d] + Cardinality(Emitting(d)) <= Len(rows[d])
  /\ StallsOK(job[d])

CountInv == /\ \A d \in Deliveries : Counted(d)
            /\ \A w \in Workers : pc[w] = "idle" => task[w] = Nobody

(* Putting w in the set or out of it, as B says.                           *)
LEMMA Recount ==
  ASSUME NEW S, IsFiniteSet(S), NEW w, NEW B \in BOOLEAN
  PROVE  LET T == (S \ {w}) \cup (IF B THEN {w} ELSE {})
         IN  /\ IsFiniteSet(T) /\ Cardinality(T) \in Nat /\ Cardinality(S) \in Nat
             /\ Cardinality(T) = Cardinality(S) - (IF w \in S THEN 1 ELSE 0)
                                                + (IF B THEN 1 ELSE 0)
<1>1. IsFiniteSet(S \ {w}) /\ Cardinality(S) \in Nat
      /\ Cardinality(S \ {w}) = IF w \in S THEN Cardinality(S) - 1 ELSE Cardinality(S)
  BY FS_RemoveElement, FS_CardinalityType
<1>2. Cardinality(S \ {w}) \in Nat
  BY <1>1, FS_CardinalityType
<1>3. CASE B
  <2>1. /\ IsFiniteSet((S \ {w}) \cup {w})
        /\ Cardinality((S \ {w}) \cup {w}) = Cardinality(S \ {w}) + 1
    BY <1>1, FS_AddElement
  <2> QED
    BY <1>1, <1>2, <1>3, <2>1
<1>4. CASE ~B
  <2>1. (S \ {w}) \cup (IF B THEN {w} ELSE {}) = S \ {w}
    BY <1>4
  <2> QED
    BY <1>1, <1>2, <1>4, <2>1
<1> QED
  BY <1>3, <1>4

(* A step of worker w changes the counts by w's leaving and entering.      *)
LEMMA WorkerCounts ==
  ASSUME IInv, CountInv, NEW w \in Workers, NEW d \in Deliveries,
         \A v \in Workers : v # w => pc'[v] = pc[v] /\ task'[v] = task[v]
  PROVE  /\ IsFiniteSet(Writing(d))' /\ IsFiniteSet(Emitting(d))'
         /\ Cardinality(Writing(d)) \in Nat /\ Cardinality(Emitting(d)) \in Nat
         /\ Cardinality(Writing(d))' =
              Cardinality(Writing(d))
              - (IF task[w] = d /\ pc[w] \in {"find", "save"} THEN 1 ELSE 0)
              + (IF task'[w] = d /\ pc'[w] \in {"find", "save"} THEN 1 ELSE 0)
         /\ Cardinality(Emitting(d))' =
              Cardinality(Emitting(d))
              - (IF task[w] = d /\ pc[w] = "emit" THEN 1 ELSE 0)
              + (IF task'[w] = d /\ pc'[w] = "emit" THEN 1 ELSE 0)
<1> DEFINE A == task'[w] = d /\ pc'[w] \in {"find", "save"}
           B == task'[w] = d /\ pc'[w] = "emit"
           S == Writing(d)
           E == Emitting(d)
<1>1. /\ Writing(d)' = (S \ {w}) \cup (IF A THEN {w} ELSE {})
      /\ Emitting(d)' = (E \ {w}) \cup (IF B THEN {w} ELSE {})
  BY DEF Writing, Emitting
<1>2. IsFiniteSet(S) /\ IsFiniteSet(E) /\ A \in BOOLEAN /\ B \in BOOLEAN
  BY DEF CountInv, Counted
<1>3. /\ w \in S <=> task[w] = d /\ pc[w] \in {"find", "save"}
      /\ w \in E <=> task[w] = d /\ pc[w] = "emit"
  BY DEF Writing, Emitting
<1> HIDE DEF A, B, S, E
<1> DEFINE WT == (S \ {w}) \cup (IF A THEN {w} ELSE {})
           ET == (E \ {w}) \cup (IF B THEN {w} ELSE {})
<1>4. /\ IsFiniteSet(WT) /\ Cardinality(S) \in Nat
      /\ Cardinality(WT) = Cardinality(S) - (IF w \in S THEN 1 ELSE 0)
                                          + (IF A THEN 1 ELSE 0)
  BY <1>2, Recount
<1>5. /\ IsFiniteSet(ET) /\ Cardinality(E) \in Nat
      /\ Cardinality(ET) = Cardinality(E) - (IF w \in E THEN 1 ELSE 0)
                                          + (IF B THEN 1 ELSE 0)
  BY <1>2, Recount
<1>6. Writing(d)' = WT /\ Emitting(d)' = ET
  BY <1>1
<1> HIDE DEF WT, ET
<1> QED
  BY <1>3, <1>4, <1>5, <1>6 DEF A, B, S, E

(* What the queue's operators do to the counts.                            *)
LEMMA QueueCounts ==
  ASSUME NEW q \in Job, StallsOK(q)
  PROVE  /\ Takes(q) \in Nat
         /\ q.state = "none" => StallsOK(Added(q)) /\ Takes(Added(q)) = Takes(q)
                                /\ Added(q).stalled = q.stalled
         /\ \A w \in Workers : q.state = "waiting" =>
              /\ StallsOK(Taken(q, w)) /\ Takes(Taken(q, w)) = Takes(q) + 1
              /\ Taken(q, w).stalled = q.stalled /\ Holds(Taken(q, w), w)
         /\ q.state = "active" =>
              /\ StallsOK(Completed(q)) /\ Takes(Completed(q)) = Takes(q)
              /\ Completed(q).stalled = q.stalled
              /\ StallsOK(StallChecked(q)) /\ Takes(StallChecked(q)) = Takes(q)
              /\ StallChecked(q).stalled = q.stalled + 1
<1>1. q.stalled \in Nat /\ Takes(q) \in Nat
  BY DEF Job, Takes
<1>2. q.state = "none" => StallsOK(Added(q)) /\ Takes(Added(q)) = Takes(q)
                          /\ Added(q).stalled = q.stalled
  BY <1>1 DEF StallsOK, Takes, Added, Job
<1>3. \A w \in Workers : q.state = "waiting" =>
        /\ StallsOK(Taken(q, w)) /\ Takes(Taken(q, w)) = Takes(q) + 1
        /\ Taken(q, w).stalled = q.stalled /\ Holds(Taken(q, w), w)
  BY <1>1 DEF StallsOK, Takes, Taken, Job, Holds
<1>4. ASSUME q.state = "active"
      PROVE  /\ StallsOK(Completed(q)) /\ Takes(Completed(q)) = Takes(q)
             /\ Completed(q).stalled = q.stalled
  <2>1. Completed(q).stalled = q.stalled /\ Completed(q).state = "completed"
    BY DEF Completed, Job
  <2> QED
    BY <1>1, <1>4, <2>1 DEF StallsOK, Takes
<1>5. ASSUME q.state = "active"
      PROVE  /\ StallsOK(StallChecked(q)) /\ Takes(StallChecked(q)) = Takes(q)
             /\ StallChecked(q).stalled = q.stalled + 1
  <2> DEFINE counted == [q EXCEPT !.stalled = @ + 1]
  <2>1. counted \in Job /\ counted.stalled = q.stalled + 1
    BY DEF Job
  <2> HIDE DEF counted
  <2>2. /\ GivenUp(counted).stalled = counted.stalled
        /\ GivenUp(counted).state = "failed"
        /\ [counted EXCEPT !.state = "waiting", !.lock = NoWorker].stalled = counted.stalled
        /\ [counted EXCEPT !.state = "waiting", !.lock = NoWorker].state = "waiting"
    BY <2>1 DEF GivenUp, Job
  <2>3. StallChecked(q) = IF counted.stalled > MaxStalled THEN GivenUp(counted)
                          ELSE [counted EXCEPT !.state = "waiting", !.lock = NoWorker]
    BY DEF StallChecked, counted
  <2>4. /\ StallChecked(q).stalled = q.stalled + 1
        /\ StallChecked(q).state = IF q.stalled + 1 > MaxStalled THEN "failed" ELSE "waiting"
    BY <2>1, <2>2, <2>3
  <2> QED
    BY <1>1, <1>5, <2>4 DEF StallsOK, Takes
<1> QED
  BY <1>1, <1>2, <1>3, <1>4, <1>5

(* What the counts of a delivery need to stay as they are.                 *)
LEMMA CountedKept ==
  ASSUME IInv, CountInv, NEW d \in Deliveries, UNCHANGED worker,
         rows'[d] = rows[d], announced'[d] = announced[d],
         StallsOK(job'[d]), Takes(job'[d]) = Takes(job[d])
  PROVE  Counted(d)'
<1>1. Writing(d)' = Writing(d) /\ Emitting(d)' = Emitting(d)
  BY DEF Writing, Emitting, worker
<1>2. Counted(d)
  BY DEF CountInv
<1>3. Takes(job[d])' = Takes(job[d]) /\ StallsOK(job[d])'
  BY DEF Takes, StallsOK
<1> QED
  BY <1>1, <1>2, <1>3 DEF Counted

(* The types that the arithmetic needs.                                    *)
LEMMA CountTypes ==
  ASSUME IInv, CountInv, NEW d \in Deliveries
  PROVE  /\ job[d] \in Job /\ rows[d] \in Seq({"ok", "fail"}) /\ Len(rows[d]) \in Nat
         /\ announced[d] \in Nat /\ Takes(job[d]) \in Nat /\ Counted(d)
         /\ Cardinality(Writing(d)) \in Nat /\ Cardinality(Emitting(d)) \in Nat
<1>1. job[d] \in Job /\ rows[d] \in Seq({"ok", "fail"}) /\ announced[d] \in Nat
  BY DEF IInv, TypeOK
<1>2. Counted(d)
  BY DEF CountInv
<1>3. Takes(job[d]) \in Nat
  BY <1>1, <1>2, QueueCounts DEF Counted
<1>4. Cardinality(Writing(d)) \in Nat /\ Cardinality(Emitting(d)) \in Nat
  BY <1>2, FS_CardinalityType DEF Counted
<1> QED
  BY <1>1, <1>2, <1>3, <1>4

(* A handler adds its job, or leaves the queue and the log alone.          *)
LEMMA HookKeepsCount ==
  ASSUME IInv, CountInv, NEW d \in Deliveries,
         \/ \E m \in Mailboxes \cup {Nobody} : Receive(d, m)
         \/ Redeliver(d) \/ HookStep(d) \/ HookFails(d)
  PROVE  CountInv'
<1>1. UNCHANGED <<worker, log>>
  BY DEF Receive, Redeliver, HookStep, FindMailbox, Judge, Enqueue, Reply, HookFails
<1>2. ASSUME NEW e \in Deliveries PROVE Counted(e)'
  <2>1. job[e] \in Job /\ StallsOK(job[e])
    BY CountTypes DEF Counted
  <2>2. CASE job'[e] = job[e]
    BY <1>1, <2>1, <2>2, CountedKept DEF log
  <2>3. CASE Enqueue(d) /\ e = d
    <3>1. job'[d] = Added(job[d])
      BY <2>3 DEF Enqueue, IInv, TypeOK
    <3>2. job[d].state = "none"
      BY <2>1, <2>3 DEF Enqueue, IInv, AddedIsJudged
    <3>3. StallsOK(job'[e]) /\ Takes(job'[e]) = Takes(job[e])
      BY <2>1, <2>3, <3>1, <3>2, QueueCounts
    <3> QED
      BY <1>1, <3>3, CountedKept DEF log
  <2>4. job'[e] = job[e] \/ (Enqueue(d) /\ e = d)
    BY DEF Receive, Redeliver, HookStep, FindMailbox, Judge, Enqueue, Reply, HookFails,
           IInv, TypeOK
  <2> QED
    BY <2>2, <2>3, <2>4
<1> QED
  BY <1>1, <1>2 DEF CountInv, worker

(* The queue takes a stalled job back, or gives it up.                     *)
LEMMA StallKeepsCount ==
  ASSUME IInv, CountInv, NEW d \in Deliveries, StallAbandoned(d) \/ StallRunning(d)
  PROVE  CountInv'
<1>1. /\ UNCHANGED <<worker, log>> /\ job[d].state = "active"
      /\ job'[d] = StallChecked(job[d])
      /\ \A e \in Deliveries : e # d => job'[e] = job[e]
  BY DEF StallAbandoned, StallRunning, IInv, TypeOK
<1>2. ASSUME NEW e \in Deliveries PROVE Counted(e)'
  <2>1. job[e] \in Job /\ StallsOK(job[e])
    BY CountTypes DEF Counted
  <2>2. StallsOK(job'[e]) /\ Takes(job'[e]) = Takes(job[e])
    BY <1>1, <2>1, QueueCounts
  <2> QED
    BY <1>1, <2>2, CountedKept DEF log
<1> QED
  BY <1>1, <1>2 DEF CountInv, worker

(* A worker takes a job: one more run, and one more row to write.          *)
LEMMA TakeKeepsCount ==
  ASSUME IInv, CountInv, NEW d \in Deliveries, NEW w \in Workers, Take(w, d)
  PROVE  CountInv'
<1>1. /\ pc[w] = "idle" /\ task[w] = Nobody /\ pc'[w] = "find" /\ task'[w] = d
      /\ \A v \in Workers : v # w => pc'[v] = pc[v] /\ task'[v] = task[v]
      /\ UNCHANGED log /\ job[d].state = "waiting" /\ job'[d] = Taken(job[d], w)
      /\ \A e \in Deliveries : e # d => job'[e] = job[e]
  BY DEF Take, Goto, IInv, TypeOK, CountInv
<1>2. ASSUME NEW e \in Deliveries PROVE Counted(e)'
  <2>1. /\ job[e] \in Job /\ Counted(e) /\ Len(rows[e]) \in Nat /\ announced[e] \in Nat
        /\ Takes(job[e]) \in Nat
    BY CountTypes
  <2>2. /\ IsFiniteSet(Writing(e))' /\ IsFiniteSet(Emitting(e))'
        /\ Cardinality(Writing(e)) \in Nat /\ Cardinality(Emitting(e)) \in Nat
        /\ Cardinality(Writing(e))' = Cardinality(Writing(e)) + (IF e = d THEN 1 ELSE 0)
        /\ Cardinality(Emitting(e))' = Cardinality(Emitting(e))
    BY <1>1, WorkerCounts
  <2>3. /\ StallsOK(job'[e])
        /\ Takes(job'[e]) = Takes(job[e]) + (IF e = d THEN 1 ELSE 0)
    BY <1>1, <2>1, QueueCounts DEF Counted
  <2>4. Takes(job[e])' = Takes(job'[e]) /\ StallsOK(job[e])' = StallsOK(job'[e])
    BY DEF Takes, StallsOK
  <2>5. rows'[e] = rows[e] /\ announced'[e] = announced[e]
    BY <1>1 DEF log
  <2> QED
    BY <2>1, <2>2, <2>3, <2>4, <2>5 DEF Counted
<1> QED
  BY <1>1, <1>2 DEF CountInv

(* A worker goes on, writes or announces, finishes or is lost.             *)
LEMMA RunKeepsCount ==
  ASSUME IInv, CountInv, NEW w \in Workers, WorkerStep(w) \/ Swallow(w) \/ Crash(w)
  PROVE  CountInv'
<1> DEFINE d == task[w]
<1>1. /\ d \in Deliveries /\ pc[w] # "idle"
      /\ \A v \in Workers : v # w => pc'[v] = pc[v] /\ task'[v] = task[v]
  BY DEF WorkerStep, LookUp, Save, Emit, Finish, Swallow, Crash, Goto, Leave, worker,
         IInv, TypeOK, RunningIsAdded
<1>2. \/ /\ LookUp(w) /\ pc[w] = "find" /\ pc'[w] = "save" /\ task'[w] = d
         /\ UNCHANGED <<rows, announced>>
      \/ /\ Save(w) /\ pc[w] = "save" /\ pc'[w] = "emit" /\ task'[w] = d
         /\ AppendRow(w) /\ UNCHANGED announced
      \/ /\ Emit(w) /\ pc[w] = "emit" /\ pc'[w] = "done" /\ task'[w] = d
         /\ UNCHANGED rows /\ announced' = [announced EXCEPT ![d] = @ + 1]
      \/ /\ Swallow(w) /\ pc[w] \in {"find", "save"} /\ pc'[w] = "done" /\ task'[w] = d
         /\ UNCHANGED rows \/ AppendRow(w)
         /\ UNCHANGED announced
      \/ /\ Finish(w) \/ Crash(w)
         /\ pc'[w] = "idle" /\ task'[w] = Nobody /\ UNCHANGED <<rows, announced>>
  BY DEF WorkerStep, LookUp, Save, Emit, Finish, Swallow, Crash, Goto, Leave, log,
         IInv, TypeOK
<1>3. \/ UNCHANGED job
      \/ /\ job[d].state = "active" /\ job'[d] = Completed(job[d])
         /\ \A e \in Deliveries : e # d => job'[e] = job[e]
  <2>1. CASE Finish(w)
    BY <1>1, <2>1 DEF Finish, Holds, IInv, TypeOK
  <2> QED
    BY <2>1 DEF WorkerStep, LookUp, Save, Emit, Swallow, Crash
<1>4. ASSUME AppendRow(w)
      PROVE  \A e \in Deliveries :
               Len(rows'[e]) = Len(rows[e]) + (IF e = d THEN 1 ELSE 0)
  <2>1. \A e \in Deliveries : rows[e] \in Seq({"ok", "fail"})
    BY DEF IInv, TypeOK
  <2>2. rows' = [rows EXCEPT ![d] = Append(rows[d], hook[d].verdict)]
    BY <1>4 DEF AppendRow
  <2>3. rows \in [Deliveries -> Seq({"ok", "fail"})]
    BY DEF IInv, TypeOK
  <2>4. Len(Append(rows[d], hook[d].verdict)) = Len(rows[d]) + 1
    BY <1>1, <2>1
  <2>5. \A e \in Deliveries : Len(rows[e]) \in Nat
    BY <2>1
  <2> QED
    BY <1>1, <2>2, <2>3, <2>4, <2>5
<1>5. announced \in [Deliveries -> Nat]
  BY DEF IInv, TypeOK
<1> HIDE DEF d
<1>6. ASSUME NEW e \in Deliveries PROVE Counted(e)'
  <2>1. /\ job[e] \in Job /\ Counted(e) /\ Len(rows[e]) \in Nat /\ announced[e] \in Nat
        /\ Takes(job[e]) \in Nat
    BY CountTypes
  <2>2. /\ IsFiniteSet(Writing(e))' /\ IsFiniteSet(Emitting(e))'
        /\ Cardinality(Writing(e)) \in Nat /\ Cardinality(Emitting(e)) \in Nat
        /\ Cardinality(Writing(e))' =
             Cardinality(Writing(e))
             - (IF d = e /\ pc[w] \in {"find", "save"} THEN 1 ELSE 0)
             + (IF task'[w] = e /\ pc'[w] \in {"find", "save"} THEN 1 ELSE 0)
        /\ Cardinality(Emitting(e))' =
             Cardinality(Emitting(e))
             - (IF d = e /\ pc[w] = "emit" THEN 1 ELSE 0)
             + (IF task'[w] = e /\ pc'[w] = "emit" THEN 1 ELSE 0)
    BY <1>1, WorkerCounts DEF d
  <2>3. StallsOK(job'[e]) /\ Takes(job'[e]) = Takes(job[e])
    BY <1>3, <2>1, QueueCounts DEF Counted
  <2>4. Takes(job[e])' = Takes(job'[e]) /\ StallsOK(job[e])' = StallsOK(job'[e])
    BY DEF Takes, StallsOK
  <2>5. /\ Len(rows[e]) + Cardinality(Writing(e)) <= Takes(job[e])
        /\ announced[e] + Cardinality(Emitting(e)) <= Len(rows[e])
    BY <2>1 DEF Counted
  <2>6. /\ Len(rows'[e]) + Cardinality(Writing(e))' <= Takes(job[e])
        /\ announced'[e] + Cardinality(Emitting(e))' <= Len(rows'[e])
    <3>1. CASE e # d
      <4>1. task'[w] # e
        <5>1. task'[w] \in {d, Nobody}
          BY <1>2
        <5> QED
          BY <3>1, <5>1
      <4>2. Cardinality(Writing(e))' = Cardinality(Writing(e))
            /\ Cardinality(Emitting(e))' = Cardinality(Emitting(e))
        BY <2>2, <3>1, <4>1
      <4>3. /\ UNCHANGED rows \/ AppendRow(w)
            /\ UNCHANGED announced \/ announced' = [announced EXCEPT ![d] = @ + 1]
        BY <1>2
      <4>4. announced'[e] = announced[e]
        BY <1>5, <3>1, <4>3
      <4>5. Len(rows'[e]) = Len(rows[e])
        <5>1. CASE UNCHANGED rows
          BY <5>1
        <5>2. CASE AppendRow(w)
          <6>1. Len(rows'[e]) = Len(rows[e]) + (IF e = d THEN 1 ELSE 0)
            BY <1>4, <5>2
          <6> QED
            BY <2>1, <3>1, <6>1
        <5> QED
          BY <4>3, <5>1, <5>2
      <4> QED
        BY <2>5, <4>2, <4>4, <4>5
    <3>2. CASE e = d
      <4>1. CASE LookUp(w) /\ pc[w] = "find" /\ pc'[w] = "save" /\ task'[w] = d
                 /\ UNCHANGED <<rows, announced>>
        BY <2>2, <2>5, <3>2, <4>1
      <4>2. CASE Save(w) /\ pc[w] = "save" /\ pc'[w] = "emit" /\ task'[w] = d
                 /\ AppendRow(w) /\ UNCHANGED announced
        <5>1. Len(rows'[e]) = Len(rows[e]) + 1
          BY <1>4, <3>2, <4>2
        <5>2. Cardinality(Writing(e))' = Cardinality(Writing(e)) - 1
              /\ Cardinality(Emitting(e))' = Cardinality(Emitting(e)) + 1
          BY <2>2, <3>2, <4>2
        <5> QED
          BY <2>1, <2>2, <2>5, <4>2, <5>1, <5>2
      <4>3. CASE Emit(w) /\ pc[w] = "emit" /\ pc'[w] = "done" /\ task'[w] = d
                 /\ UNCHANGED rows /\ announced' = [announced EXCEPT ![d] = @ + 1]
        <5>1. announced'[e] = announced[e] + 1
          BY <1>5, <3>2, <4>3
        <5>2. Cardinality(Writing(e))' = Cardinality(Writing(e))
              /\ Cardinality(Emitting(e))' = Cardinality(Emitting(e)) - 1
          BY <2>2, <3>2, <4>3
        <5> QED
          BY <2>1, <2>2, <2>5, <4>3, <5>1, <5>2
      <4>4. CASE Swallow(w) /\ pc[w] \in {"find", "save"} /\ pc'[w] = "done"
                 /\ task'[w] = d /\ (UNCHANGED rows \/ AppendRow(w)) /\ UNCHANGED announced
        <5>1. Len(rows'[e]) \in {Len(rows[e]), Len(rows[e]) + 1}
          BY <1>4, <3>2, <4>4
        <5>2. Cardinality(Writing(e))' = Cardinality(Writing(e)) - 1
              /\ Cardinality(Emitting(e))' = Cardinality(Emitting(e))
          BY <2>2, <3>2, <4>4
        <5>3. announced'[e] = announced[e]
          BY <4>4
        <5>4. CASE Len(rows'[e]) = Len(rows[e])
          BY <2>1, <2>2, <2>5, <5>2, <5>3, <5>4
        <5>5. CASE Len(rows'[e]) = Len(rows[e]) + 1
          BY <2>1, <2>2, <2>5, <5>2, <5>3, <5>5
        <5> QED
          BY <5>1, <5>4, <5>5
      <4>5. CASE (Finish(w) \/ Crash(w)) /\ pc'[w] = "idle" /\ task'[w] = Nobody
                 /\ UNCHANGED <<rows, announced>>
        <5>1. /\ Cardinality(Writing(e))' \in {Cardinality(Writing(e)),
                                               Cardinality(Writing(e)) - 1}
              /\ Cardinality(Emitting(e))' \in {Cardinality(Emitting(e)),
                                                Cardinality(Emitting(e)) - 1}
          <6>1. pc'[w] \notin {"find", "save", "emit"}
            BY <4>5
          <6> QED
            BY <2>2, <6>1
        <5> QED
          BY <2>1, <2>2, <2>5, <4>5, <5>1
      <4> QED
        BY <1>2, <4>1, <4>2, <4>3, <4>4, <4>5
    <3> QED
      BY <3>1, <3>2
  <2> QED
    BY <2>2, <2>3, <2>4, <2>6 DEF Counted
<1>7. \A v \in Workers : pc'[v] = "idle" => task'[v] = Nobody
  BY <1>1, <1>2 DEF CountInv
<1> QED
  BY <1>6, <1>7 DEF CountInv

LEMMA NextKeepsCount == IInv /\ CountInv /\ [Next]_vars => CountInv'
<1> SUFFICES ASSUME IInv, CountInv, [Next]_vars PROVE CountInv'
  OBVIOUS
<1>1. CASE UNCHANGED <<job, worker, log>>
  <2>1. \A d \in Deliveries : Counted(d)'
    BY <1>1 DEF CountInv, Counted, Writing, Emitting, worker, log
  <2> QED
    BY <1>1, <2>1 DEF CountInv, worker
<1>2. ASSUME NEW d \in Deliveries, QueueStep(d) \/ StallRunning(d) PROVE CountInv'
  BY <1>2, TakeKeepsCount, StallKeepsCount DEF QueueStep
<1> QED
  BY <1>1, <1>2, HookKeepsCount, RunKeepsCount DEF Next, Tick, SetToken, vars

LEMMA InitCount == Init => CountInv
<1> SUFFICES ASSUME Init PROVE CountInv
  OBVIOUS
<1>1. ASSUME NEW d \in Deliveries PROVE Counted(d)
  <2>1. Writing(d) = {} /\ Emitting(d) = {}
    BY DEF Init, Writing, Emitting
  <2>2. job[d] = NoJob /\ rows[d] = <<>> /\ announced[d] = 0
    BY DEF Init
  <2>3. StallsOK(job[d]) /\ Takes(job[d]) = 0
    BY <2>2 DEF NoJob, StallsOK, Takes
  <2> QED
    BY <2>1, <2>2, <2>3, FS_EmptySet DEF Counted
<1> QED
  BY <1>1 DEF CountInv, Init

-----------------------------------------------------------------------------
(* What the counts cost: every stall, every job left by its worker and     *)
(* every answer lost is paid for by a fault that struck this delivery.     *)
Left(d) == job[d].state = "active" /\ Abandoned(d)

Cost(d) == job[d].stalled + (IF Left(d) THEN 1 ELSE 0) + (IF Unanswered(d) THEN 1 ELSE 0)

Paid(d) == Cost(d) <= faults[d]

PaidInv == \A d \in Deliveries : Paid(d)

(* A step that costs delivery d nothing leaves it paid.                    *)
LEMMA PaidStays ==
  ASSUME IInv, IInv', NEW d \in Deliveries, Paid(d),
         faults'[d] \in {faults[d], faults[d] + 1},
         job'[d].stalled = job[d].stalled,
         Left(d)' => Left(d), Unanswered(d)' => Unanswered(d)
  PROVE  Paid(d)'
<1> DEFINE l == IF Left(d) THEN 1 ELSE 0
           m == IF Left(d)' THEN 1 ELSE 0
           x == IF Unanswered(d) THEN 1 ELSE 0
           y == IF Unanswered(d)' THEN 1 ELSE 0
           s == job[d].stalled
           f == faults[d]
           g == faults'[d]
<1>1. s \in Nat /\ f \in Nat /\ g \in {f, f + 1}
  BY DEF IInv, TypeOK, Job
<1>2. s + l + x <= f
  BY DEF Paid, Cost
<1>3. l \in Nat /\ m \in Nat /\ x \in Nat /\ y \in Nat /\ m <= l /\ y <= x
  OBVIOUS
<1>4. s + m + y <= g
  <2> HIDE DEF l, m, x, y, s, f, g
  <2> QED
    BY <1>1, <1>2, <1>3
<1> QED
  BY <1>4 DEF Paid, Cost

(* A step that costs delivery d one thing more is a fault of its own.      *)
LEMMA PaidNow ==
  ASSUME IInv, IInv', NEW d \in Deliveries, Paid(d),
         faults'[d] = faults[d] + 1,
         NEW l \in {0, 1}, NEW m \in {0, 1}, NEW x \in {0, 1}, NEW y \in {0, 1},
         l = (IF Left(d) THEN 1 ELSE 0), m = (IF Left(d)' THEN 1 ELSE 0),
         x = (IF Unanswered(d) THEN 1 ELSE 0), y = (IF Unanswered(d)' THEN 1 ELSE 0),
         job'[d].stalled + m + y <= job[d].stalled + l + x + 1
  PROVE  Paid(d)'
<1> DEFINE s == job[d].stalled
           t == job'[d].stalled
           f == faults[d]
           g == faults'[d]
<1>1. s \in Nat /\ t \in Nat /\ f \in Nat /\ g = f + 1
  BY DEF IInv, TypeOK, Job
<1>2. s + l + x <= f
  BY DEF Paid, Cost
<1>3. t + m + y <= s + l + x + 1
  OBVIOUS
<1>4. t + m + y <= g
  <2> HIDE DEF s, t, f, g
  <2> QED
    BY <1>1, <1>2, <1>3
<1> QED
  BY <1>4 DEF Paid, Cost

(* What one handler does to what was lost.                                 *)
LEMMA HookKeepsPaid ==
  ASSUME IInv, IInv', PaidInv, NEW d \in Deliveries,
         \/ \E m \in Mailboxes \cup {Nobody} : Receive(d, m)
         \/ Redeliver(d) \/ HookStep(d)
  PROVE  PaidInv'
<1>1. /\ UNCHANGED <<worker, faults>> /\ hook[d].pc # "over"
      /\ \A e \in Deliveries : e # d => hook'[e] = hook[e]
  BY DEF Receive, Redeliver, HookStep, FindMailbox, Judge, Enqueue, Reply,
         Advance, Answer, IInv, TypeOK, worker
<1>2. hook'[d].pc = "over" => hook'[d].answer # "none"
  <2>1. hook \in [Deliveries -> Hook]
    BY DEF IInv, TypeOK
  <2>2. CASE \E m \in Mailboxes \cup {Nobody} : Receive(d, m)
    BY <2>1, <2>2 DEF Receive, Answer, Hook
  <2>3. CASE Redeliver(d)
    BY <2>1, <2>3 DEF Redeliver, Hook
  <2>4. CASE FindMailbox(d) \/ Judge(d) \/ Enqueue(d)
    BY <2>1, <2>4 DEF FindMailbox, Judge, Enqueue, Advance, Answer, Hook
  <2>5. CASE Reply(d)
    BY <2>1, <2>5 DEF Reply, Answer, Hook
  <2> QED
    BY <2>2, <2>3, <2>4, <2>5 DEF HookStep
<1>3. \A e \in Deliveries : /\ job'[e].stalled = job[e].stalled
                            /\ job'[e].state = "active" => job'[e] = job[e]
  <2>1. job \in [Deliveries -> Job]
    BY DEF IInv, TypeOK
  <2>2. CASE Enqueue(d)
    <3>1. Added(job[d]).stalled = job[d].stalled /\ Added(job[d]).state = "waiting"
      BY <2>1 DEF Added, Job
    <3>2. job' = [job EXCEPT ![d] = Added(job[d])]
      BY <2>2 DEF Enqueue
    <3> QED
      BY <2>1, <3>1, <3>2
  <2>3. CASE UNCHANGED job
    BY <2>3
  <2> QED
    BY <2>2, <2>3 DEF Receive, Redeliver, HookStep, FindMailbox, Judge, Reply
<1>4. \A e \in Deliveries : (Left(e)' => Left(e)) /\ (Unanswered(e)' => Unanswered(e))
  BY <1>1, <1>2, <1>3 DEF Left, Unanswered, Abandoned, worker
<1> QED
  BY <1>1, <1>3, <1>4, PaidStays DEF PaidInv

(* A handler that stops without an answer is paid for.                     *)
LEMMA HookFailsKeepsPaid ==
  ASSUME IInv, IInv', PaidInv, NEW d \in Deliveries, HookFails(d)
  PROVE  PaidInv'
<1>1. /\ UNCHANGED <<worker, job>> /\ hook[d].pc # "over"
      /\ faults'[d] = faults[d] + 1
      /\ \A e \in Deliveries : e # d => hook'[e] = hook[e] /\ faults'[e] = faults[e]
  BY DEF HookFails, Fault, Advance, IInv, TypeOK, worker
<1>2. \A e \in Deliveries : Left(e)' <=> Left(e)
  BY <1>1 DEF Left, Abandoned, worker
<1>3. ASSUME NEW e \in Deliveries, e # d PROVE Paid(e)'
  <2>1. Unanswered(e)' => Unanswered(e)
    BY <1>1, <1>3 DEF Unanswered
  <2> QED
    BY <1>1, <1>2, <1>3, <2>1, PaidStays DEF PaidInv
<1>4. Paid(d)'
  <2>1. job[d].stalled \in Nat /\ job'[d].stalled = job[d].stalled
    BY <1>1 DEF IInv, TypeOK, Job
  <2>2. ~Unanswered(d)
    BY <1>1 DEF Unanswered
  <2> QED
    BY <1>1, <1>2, <2>1, <2>2, PaidNow DEF PaidInv
<1> QED
  BY <1>3, <1>4 DEF PaidInv

(* A run that ends leaves no job behind, but for a worker that is lost.    *)
LEMMA RunKeepsPaid ==
  ASSUME IInv, IInv', PaidInv, NEW w \in Workers,
         WorkerStep(w) \/ Swallow(w)
  PROVE  PaidInv'
<1>1. /\ UNCHANGED hook
      /\ \A e \in Deliveries : faults'[e] \in {faults[e], faults[e] + 1}
  BY DEF WorkerStep, LookUp, Save, Emit, Finish, Swallow, Fault, IInv, TypeOK
<1>2. \A e \in Deliveries : job'[e].stalled = job[e].stalled /\ (Left(e)' => Left(e))
  <2>1. CASE UNCHANGED <<job, task>>
    BY <2>1 DEF Left, Abandoned
  <2>2. CASE Finish(w) /\ Holds(job[task[w]], w)
    <3> DEFINE d == task[w]
    <3>1. d \in Deliveries /\ job[d] \in Job
      BY <2>2 DEF Finish, IInv, TypeOK, RunningIsAdded
    <3>2. job'[d] = Completed(job[d]) /\ \A e \in Deliveries : e # d => job'[e] = job[e]
      BY <2>2, <3>1 DEF Finish, IInv, TypeOK
    <3>3. job'[d].stalled = job[d].stalled /\ job'[d].state = "completed"
      BY <3>1, <3>2 DEF Completed, Job
    <3>4. \A v \in Workers : task'[v] # task[v] => v = w
      BY <2>2 DEF Finish, Leave, IInv, TypeOK
    <3>5. ASSUME NEW e \in Deliveries, Left(e)' PROVE Left(e)
      <4>1. e # d /\ job'[e] = job[e]
        BY <3>2, <3>3, <3>5 DEF Left
      <4>2. \A v \in Workers : task'[v] = task[v] \/ task[v] # e
        BY <3>4, <4>1
      <4> QED
        <5>1. \A v \in Workers : Holds(job[e], v) /\ task[v] = e =>
                                   Holds(job'[e], v) /\ task'[v] = e
          BY <4>1, <4>2
        <5> QED
          BY <3>5, <4>1, <5>1 DEF Left, Abandoned
    <3> QED
      BY <3>2, <3>3, <3>5
  <2>3. CASE Finish(w) /\ ~Holds(job[task[w]], w)
    <3>1. UNCHANGED job /\ \A v \in Workers : task'[v] # task[v] => v = w
      BY <2>3 DEF Finish, Leave, IInv, TypeOK
    <3>2. ASSUME NEW e \in Deliveries, NEW v \in Workers,
                 Holds(job[e], v), task[v] = e
          PROVE  task'[v] = e
      BY <2>3, <3>1, <3>2
    <3> QED
      BY <3>1, <3>2 DEF Left, Abandoned
  <2> QED
    BY <2>1, <2>2, <2>3 DEF WorkerStep, LookUp, Save, Emit, Swallow
<1>3. \A e \in Deliveries : Unanswered(e)' <=> Unanswered(e)
  BY <1>1 DEF Unanswered
<1> QED
  BY <1>1, <1>2, <1>3, PaidStays DEF PaidInv

(* A worker that is lost leaves its own job at most.                       *)
LEMMA CrashKeepsPaid ==
  ASSUME IInv, IInv', PaidInv, NEW w \in Workers, Crash(w)
  PROVE  PaidInv'
<1> SUFFICES ASSUME NEW d \in Deliveries, d = task[w] PROVE PaidInv'
  BY DEF Crash, IInv, RunningIsAdded
<1>1. /\ UNCHANGED <<hook, job>> /\ faults'[d] = faults[d] + 1
      /\ \A e \in Deliveries : e # d => faults'[e] = faults[e]
      /\ \A v \in Workers : task'[v] # task[v] => v = w
  BY DEF Crash, Leave, Fault, IInv, TypeOK, RunningIsAdded
<1>2. \A e \in Deliveries : Unanswered(e)' <=> Unanswered(e)
  BY <1>1 DEF Unanswered
<1>3. ASSUME NEW e \in Deliveries, e # d PROVE Paid(e)'
  <2>1. \A v \in Workers : task[v] = e => task'[v] = e
    BY <1>1, <1>3
  <2>2. Left(e)' => Left(e)
    BY <1>1, <2>1 DEF Left, Abandoned
  <2> QED
    BY <1>1, <1>2, <1>3, <2>2, PaidStays DEF PaidInv
<1>4. Paid(d)'
  <2>1. job[d].stalled \in Nat /\ job'[d].stalled = job[d].stalled
    BY <1>1 DEF IInv, TypeOK, Job
  <2> QED
    BY <1>1, <1>2, <2>1, PaidNow DEF PaidInv
<1> QED
  BY <1>3, <1>4 DEF PaidInv

(* A worker that takes a job leaves none.                                  *)
LEMMA TakeKeepsPaid ==
  ASSUME IInv, IInv', CountInv, PaidInv, NEW d \in Deliveries, NEW w \in Workers,
         Take(w, d)
  PROVE  PaidInv'
<1>1. /\ UNCHANGED <<hook, faults>> /\ job'[d] = Taken(job[d], w) /\ task'[w] = d
      /\ \A e \in Deliveries : e # d => job'[e] = job[e]
      /\ \A v \in Workers : v # w => task'[v] = task[v]
      /\ task[w] = Nobody
  BY DEF Take, Goto, IInv, TypeOK, CountInv
<1>2. job'[d].stalled = job[d].stalled /\ Holds(job'[d], w)
  <2>1. job[d] \in Job
    BY DEF IInv, TypeOK
  <2> QED
    BY <1>1, <2>1 DEF Taken, Job, Holds
<1>3. ASSUME NEW e \in Deliveries
      PROVE  job'[e].stalled = job[e].stalled /\ (Left(e)' => Left(e))
  <2>1. CASE e = d
    BY <1>1, <1>2, <2>1 DEF Left, Abandoned
  <2>2. CASE e # d
    <3>1. job'[e] = job[e] /\ \A v \in Workers : task[v] = e => task'[v] = e
      BY <1>1, <2>2
    <3> QED
      BY <3>1 DEF Left, Abandoned
  <2> QED
    BY <2>1, <2>2
<1>4. \A e \in Deliveries : Unanswered(e)' <=> Unanswered(e)
  BY <1>1 DEF Unanswered
<1> QED
  BY <1>1, <1>3, <1>4, PaidStays DEF PaidInv

(* A stall was paid for when the job was left, or is paid for now.         *)
LEMMA StallKeepsPaid ==
  ASSUME IInv, IInv', CountInv, PaidInv, NEW d \in Deliveries,
         StallAbandoned(d) \/ StallRunning(d)
  PROVE  PaidInv'
<1>1. /\ UNCHANGED <<hook, worker>> /\ job[d].state = "active"
      /\ job'[d] = StallChecked(job[d])
      /\ \A e \in Deliveries : e # d => job'[e] = job[e] /\ faults'[e] = faults[e]
      /\ \/ faults'[d] = faults[d] /\ Left(d)
         \/ faults'[d] = faults[d] + 1 /\ ~Left(d)
  BY DEF StallAbandoned, StallRunning, Fault, Left, IInv, TypeOK
<1>2. job'[d].stalled = job[d].stalled + 1 /\ job'[d].state # "active"
  <2>1. job[d] \in Job /\ StallsOK(job[d])
    BY CountTypes DEF Counted
  <2> QED
    BY <1>1, <2>1, QueueCounts, StallCheckedJob
<1>3. \A e \in Deliveries : Unanswered(e)' <=> Unanswered(e)
  BY <1>1 DEF Unanswered
<1>4. ASSUME NEW e \in Deliveries, e # d PROVE Paid(e)'
  <2>1. Left(e)' <=> Left(e)
    BY <1>1, <1>4 DEF Left, Abandoned, worker
  <2> QED
    BY <1>1, <1>3, <1>4, <2>1, PaidStays DEF PaidInv
<1>5. Paid(d)'
  <2>1. job[d].stalled \in Nat /\ faults[d] \in Nat
    BY DEF IInv, TypeOK, Job
  <2>2. ~Left(d)'
    BY <1>2 DEF Left
  <2>3. CASE Left(d)
    <3>1. Cost(d)' = Cost(d)
      BY <1>2, <1>3, <2>1, <2>2, <2>3 DEF Cost
    <3> QED
      BY <1>1, <2>3, <3>1 DEF PaidInv, Paid
  <2>4. CASE ~Left(d)
    BY <1>1, <1>2, <1>3, <2>1, <2>2, <2>4, PaidNow DEF PaidInv
  <2> QED
    BY <2>3, <2>4
<1> QED
  BY <1>4, <1>5 DEF PaidInv

LEMMA NextKeepsPaid == IInv /\ IInv' /\ CountInv /\ PaidInv /\ [Next]_vars => PaidInv'
<1> SUFFICES ASSUME IInv, IInv', CountInv, PaidInv, [Next]_vars PROVE PaidInv'
  OBVIOUS
<1>1. CASE UNCHANGED <<hook, job, worker, faults>>
  <2>1. \A e \in Deliveries : /\ Left(e)' <=> Left(e)
                              /\ Unanswered(e)' <=> Unanswered(e)
                              /\ job'[e].stalled = job[e].stalled
    BY <1>1 DEF Left, Unanswered, Abandoned, worker
  <2> QED
    BY <1>1, <2>1, PaidStays DEF PaidInv
<1>2. ASSUME NEW d \in Deliveries, QueueStep(d) \/ StallRunning(d) PROVE PaidInv'
  BY <1>2, TakeKeepsPaid, StallKeepsPaid DEF QueueStep
<1> QED
  BY <1>1, <1>2, HookKeepsPaid, HookFailsKeepsPaid, RunKeepsPaid, CrashKeepsPaid
     DEF Next, Tick, SetToken, vars

LEMMA InitPaid == Init => PaidInv
<1> SUFFICES ASSUME Init, NEW d \in Deliveries PROVE Paid(d)
  BY DEF PaidInv
<1>1. /\ hook[d].pc = "new" /\ job[d].stalled = 0 /\ job[d].state = "none"
      /\ faults[d] = 0
  BY DEF Init, NoJob
<1> QED
  BY <1>1 DEF Paid, Cost, Left, Unanswered

-----------------------------------------------------------------------------
(* While nothing has failed in the work on a delivery, the log says where  *)
(* the worker is.                                                          *)
Logged(d, r, a) == Len(rows[d]) = r /\ announced[d] = a

Running(w, d) ==
  task[w] = d /\ pc[w] # "idle"
    => /\ Holds(job[d], w)
       /\ Logged(d, IF pc[w] \in {"find", "save"} THEN 0 ELSE 1,
                    IF pc[w] = "done" THEN 1 ELSE 0)

Resting(d) == /\ job[d].state \in {"none", "waiting"} => Logged(d, 0, 0)
              /\ job[d].state = "completed" => Logged(d, 1, 1)

Calm(d) == faults[d] = 0 => Resting(d) /\ \A w \in Workers : Running(w, d)

CalmInv == \A d \in Deliveries : Calm(d)

(* A step that leaves the job and the rows of delivery e alone, and in     *)
(* which no worker goes on with e, leaves e calm.                          *)
LEMMA FarKeepsCalm ==
  ASSUME NEW e \in Deliveries, Calm(e), faults'[e] = 0 => faults[e] = 0,
         job'[e] = job[e], rows'[e] = rows[e], announced'[e] = announced[e],
         \A v \in Workers : task'[v] = e /\ pc'[v] # "idle" =>
                              task[v] = e /\ pc'[v] = pc[v]
  PROVE  Calm(e)'
<1> SUFFICES ASSUME faults'[e] = 0
             PROVE  Resting(e)' /\ \A w \in Workers : Running(w, e)'
  BY DEF Calm
<1>1. Resting(e) /\ \A w \in Workers : Running(w, e)
  BY DEF Calm
<1>2. \A r, a : Logged(e, r, a)' <=> Logged(e, r, a)
  BY DEF Logged
<1>3. Resting(e)'
  BY <1>1, <1>2 DEF Resting
<1>4. ASSUME NEW w \in Workers PROVE Running(w, e)'
  BY <1>1, <1>2 DEF Running, Holds
<1> QED
  BY <1>3, <1>4

(* A delivery that has met a failure is calm whatever happened.            *)
LEMMA StruckIsCalm ==
  ASSUME IInv, NEW d \in Deliveries, faults'[d] = faults[d] + 1
  PROVE  Calm(d)'
<1>1. faults'[d] # 0
  BY DEF IInv, TypeOK
<1> QED
  BY <1>1 DEF Calm

(* What is done for one delivery leaves the others calm.                   *)
LEMMA OthersStayCalm ==
  ASSUME IInv, CalmInv, NEW d \in Deliveries,
         \/ \E m \in Mailboxes \cup {Nobody} : Receive(d, m)
         \/ Redeliver(d) \/ HookStep(d) \/ HookFails(d)
         \/ QueueStep(d) \/ StallRunning(d)
         \/ \E w \in Workers : task[w] = d /\ (WorkerStep(w) \/ Swallow(w) \/ Crash(w)),
         NEW e \in Deliveries, e # d
  PROVE  Calm(e)'
<1>1. /\ job'[e] = job[e] /\ rows'[e] = rows[e] /\ announced'[e] = announced[e]
      /\ faults'[e] = faults[e]
  BY DEF Receive, Redeliver, HookStep, FindMailbox, Judge, Enqueue, Reply, HookFails,
         QueueStep, Take, StallAbandoned, StallRunning, WorkerStep, LookUp, Save,
         AppendRow, Emit, Finish, Swallow, Crash, Fault, log, IInv, TypeOK
<1>2. \A v \in Workers : task'[v] = e /\ pc'[v] # "idle" => task[v] = e /\ pc'[v] = pc[v]
  <2>1. CASE UNCHANGED worker
    BY <2>1 DEF worker
  <2>2. ASSUME NEW w \in Workers, Take(w, d)
        PROVE  \A v \in Workers : task'[v] = e => task[v] = e /\ pc'[v] = pc[v]
    BY <2>2 DEF Take, Goto, IInv, TypeOK
  <2>3. ASSUME NEW w \in Workers, task[w] = d, WorkerStep(w) \/ Swallow(w) \/ Crash(w)
        PROVE  \A v \in Workers : task'[v] = e /\ pc'[v] # "idle" =>
                                    task[v] = e /\ pc'[v] = pc[v]
    BY <2>3 DEF WorkerStep, LookUp, Save, Emit, Finish, Swallow, Crash, Leave, Goto,
                IInv, TypeOK
  <2> QED
    BY <2>1, <2>2, <2>3 DEF Receive, Redeliver, HookStep, FindMailbox, Judge, Enqueue,
       Reply, HookFails, QueueStep, StallAbandoned, StallRunning
<1> QED
  BY <1>1, <1>2, FarKeepsCalm DEF CalmInv

LEMMA EnqueueKeepsCalm ==
  ASSUME IInv, CalmInv, NEW d \in Deliveries, Enqueue(d)
  PROVE  Calm(d)'
<1> SUFFICES ASSUME faults[d] = 0
             PROVE  Resting(d)' /\ \A w \in Workers : Running(w, d)'
  BY DEF Calm, Enqueue
<1>1. Resting(d) /\ \A w \in Workers : Running(w, d)
  BY DEF CalmInv, Calm
<1>2. \A r, a : Logged(d, r, a)' <=> Logged(d, r, a)
  BY DEF Logged, Enqueue, log
<1>3. job[d].state = "none" /\ job'[d].state = "waiting" /\ UNCHANGED worker
  BY AddedJob DEF Enqueue, IInv, TypeOK, AddedIsJudged
<1>4. Resting(d)'
  BY <1>1, <1>2, <1>3 DEF Resting
<1>5. ASSUME NEW w \in Workers PROVE Running(w, d)'
  BY <1>1, <1>3 DEF Running, Holds, worker
<1> QED
  BY <1>4, <1>5

LEMMA TakeKeepsCalm ==
  ASSUME IInv, CalmInv, NEW d \in Deliveries, NEW w \in Workers, Take(w, d)
  PROVE  Calm(d)'
<1> SUFFICES ASSUME faults[d] = 0
             PROVE  Resting(d)' /\ \A v \in Workers : Running(v, d)'
  BY DEF Calm, Take
<1>1. Resting(d) /\ \A v \in Workers : Running(v, d)
  BY DEF CalmInv, Calm
<1>2. /\ job[d].state = "waiting" /\ job'[d] = Taken(job[d], w)
      /\ task'[w] = d /\ pc'[w] = "find"
      /\ \A v \in Workers : v # w => task'[v] = task[v] /\ pc'[v] = pc[v]
      /\ UNCHANGED log
  BY DEF Take, Goto, IInv, TypeOK
<1>3. Holds(job'[d], w)
  BY <1>2 DEF Taken, Job, Holds, IInv, TypeOK
<1>4. Logged(d, 0, 0)'
  BY <1>1, <1>2 DEF Resting, Logged, log
<1>5. \A v \in Workers : v # w => ~(task'[v] = d /\ pc'[v] # "idle")
  BY <1>1, <1>2 DEF Running, Holds
<1> QED
  BY <1>2, <1>3, <1>4, <1>5 DEF Resting, Running, Holds

(* A worker that goes on holds the job alone, so its rows are the only.    *)
LEMMA RunKeepsCalm ==
  ASSUME IInv, CalmInv, NEW w \in Workers, WorkerStep(w), NEW d \in Deliveries, d = task[w]
  PROVE  Calm(d)'
<1> SUFFICES ASSUME faults[d] = 0
             PROVE  Resting(d)' /\ \A v \in Workers : Running(v, d)'
  BY DEF Calm, WorkerStep, LookUp, Save, Emit, Finish
<1>1. Resting(d) /\ \A v \in Workers : Running(v, d)
  BY DEF CalmInv, Calm
<1>2. /\ pc[w] # "idle" /\ Holds(job[d], w) /\ job[d].state = "active"
      /\ Logged(d, IF pc[w] \in {"find", "save"} THEN 0 ELSE 1,
                   IF pc[w] = "done" THEN 1 ELSE 0)
  BY <1>1 DEF Running, Holds, WorkerStep, LookUp, Save, Emit, Finish
<1>3. \A v \in Workers : v # w /\ task[v] = d => pc[v] = "idle"
  BY <1>1, <1>2 DEF Running, Holds
<1>4. \A v \in Workers : v # w => task'[v] = task[v] /\ pc'[v] = pc[v]
  BY DEF WorkerStep, LookUp, Save, Emit, Finish, Goto, Leave, IInv, TypeOK
<1>5. /\ rows \in [Deliveries -> Seq({"ok", "fail"})]
      /\ announced \in [Deliveries -> Nat] /\ job \in [Deliveries -> Job]
      /\ pc \in [Workers -> {"idle", "find", "save", "emit", "done"}]
      /\ task \in [Workers -> Deliveries \cup {Nobody}]
  BY DEF IInv, TypeOK
<1>6. CASE LookUp(w)
  <2>1. pc[w] = "find" /\ pc'[w] = "save" /\ UNCHANGED <<job, task, log>>
    BY <1>5, <1>6 DEF LookUp, Goto
  <2>2. \A r, a : Logged(d, r, a)' <=> Logged(d, r, a)
    BY <2>1 DEF Logged, log
  <2> QED
    BY <1>1, <1>4, <2>1, <2>2 DEF Resting, Running
<1>7. CASE Save(w)
  <2>1. /\ pc[w] = "save" /\ pc'[w] = "emit" /\ UNCHANGED <<job, task, announced>>
        /\ rows' = [rows EXCEPT ![d] = Append(rows[d], hook[d].verdict)]
    BY <1>5, <1>7 DEF Save, Goto, AppendRow
  <2>2. Logged(d, 0, 0)
    BY <1>2, <2>1
  <2>3. Len(rows'[d]) = 1 /\ announced'[d] = 0
    <3>1. Len(Append(rows[d], hook[d].verdict)) = Len(rows[d]) + 1
      BY <1>5
    <3> QED
      BY <1>5, <2>1, <2>2, <3>1 DEF Logged
  <2>4. Logged(d, 1, 0)'
    BY <2>3 DEF Logged
  <2> QED
    BY <1>2, <1>3, <1>4, <2>1, <2>4 DEF Resting, Running
<1>8. CASE Emit(w)
  <2>1. /\ pc[w] = "emit" /\ pc'[w] = "done" /\ UNCHANGED <<job, task, rows>>
        /\ announced' = [announced EXCEPT ![d] = announced[d] + 1]
    BY <1>5, <1>8 DEF Emit, Goto
  <2>2. Logged(d, 1, 0)
    BY <1>2, <2>1
  <2>3. Logged(d, 1, 1)'
    BY <1>5, <2>1, <2>2 DEF Logged
  <2> QED
    BY <1>2, <1>3, <1>4, <2>1, <2>3 DEF Resting, Running
<1>9. CASE Finish(w)
  <2>1. /\ pc[w] = "done" /\ pc'[w] = "idle" /\ UNCHANGED log
        /\ job' = [job EXCEPT ![d] = Completed(job[d])]
    BY <1>2, <1>5, <1>9 DEF Finish, Leave, Goto
  <2>2. Logged(d, 1, 1)'
    BY <1>2, <2>1 DEF Logged, log
  <2>3. job'[d].state = "completed"
    BY <1>5, <2>1, CompletedJob
  <2> QED
    BY <1>3, <1>4, <2>1, <2>2, <2>3 DEF Resting, Running
<1> QED
  BY <1>6, <1>7, <1>8, <1>9 DEF WorkerStep

LEMMA NextKeepsCalm == IInv /\ PaidInv /\ CalmInv /\ [Next]_vars => CalmInv'
<1> SUFFICES ASSUME IInv, PaidInv, CalmInv, [Next]_vars, NEW e \in Deliveries
             PROVE  Calm(e)'
  BY DEF CalmInv
<1>1. CASE UNCHANGED <<job, worker, log, faults>>
  BY <1>1, FarKeepsCalm DEF CalmInv, worker, log
<1>2. ASSUME NEW d \in Deliveries,
             \/ \E m \in Mailboxes \cup {Nobody} : Receive(d, m)
             \/ Redeliver(d) \/ HookStep(d) \/ HookFails(d)
      PROVE  Calm(e)'
  <2>1. CASE e # d
    BY <1>2, <2>1, OthersStayCalm
  <2>2. CASE HookFails(e)
    <3>1. faults'[e] = faults[e] + 1
      BY <2>2 DEF HookFails, Fault, IInv, TypeOK
    <3> QED
      BY <3>1, StruckIsCalm
  <2>3. CASE e = d /\ ~HookFails(d)
    BY <1>1, <1>2, <2>3, EnqueueKeepsCalm
       DEF Receive, Redeliver, HookStep, FindMailbox, Judge, Reply
  <2> QED
    BY <2>1, <2>2, <2>3
<1>3. ASSUME NEW d \in Deliveries, QueueStep(d) \/ StallRunning(d) PROVE Calm(e)'
  <2>1. CASE e # d
    BY <1>3, <2>1, OthersStayCalm
  <2>2. CASE StallRunning(e)
    <3>1. faults'[e] = faults[e] + 1
      BY <2>2 DEF StallRunning, Fault, IInv, TypeOK
    <3> QED
      BY <3>1, StruckIsCalm
  <2>3. CASE StallAbandoned(e)
    <3>1. Left(e) /\ faults'[e] = faults[e]
      BY <2>3 DEF StallAbandoned, Left
    <3>2. job[e].stalled \in Nat /\ faults[e] \in Nat /\ Cost(e) <= faults[e]
      BY DEF PaidInv, Paid, IInv, TypeOK, Job
    <3>3. faults[e] # 0
      BY <3>1, <3>2 DEF Cost
    <3> QED
      BY <3>1, <3>3 DEF Calm
  <2> QED
    BY <1>3, <2>1, <2>2, <2>3, TakeKeepsCalm DEF QueueStep
<1>4. ASSUME NEW w \in Workers, WorkerStep(w) \/ Swallow(w) \/ Crash(w) PROVE Calm(e)'
  <2>1. task[w] \in Deliveries
    BY <1>4 DEF WorkerStep, LookUp, Save, Emit, Finish, Swallow, Crash, IInv, RunningIsAdded
  <2>2. CASE e # task[w]
    BY <1>4, <2>1, <2>2, OthersStayCalm
  <2>3. CASE e = task[w] /\ (Swallow(w) \/ Crash(w))
    <3>1. faults'[e] = faults[e] + 1
      BY <2>3 DEF Swallow, Crash, Fault, IInv, TypeOK
    <3> QED
      BY <3>1, StruckIsCalm
  <2> QED
    BY <1>4, <2>2, <2>3, RunKeepsCalm
<1> QED
  BY <1>1, <1>2, <1>3, <1>4 DEF Next, Tick, SetToken, vars

LEMMA InitCalm == Init => CalmInv
<1> SUFFICES ASSUME Init, NEW d \in Deliveries
             PROVE  Resting(d) /\ \A w \in Workers : Running(w, d)
  BY DEF CalmInv, Calm
<1>1. /\ job[d].state = "none" /\ Len(rows[d]) = 0 /\ announced[d] = 0
      /\ \A w \in Workers : pc[w] = "idle"
  BY DEF Init, NoJob
<1> QED
  BY <1>1 DEF Resting, Running, Logged

RowsInv == IInv /\ CountInv /\ PaidInv /\ CalmInv

LEMMA RowsInvRows == RowsInv => RowsHaveCause
<1> SUFFICES ASSUME RowsInv, NEW d \in Deliveries
             PROVE  /\ Len(rows[d]) <= 1 + MaxStalled
                    /\ Len(rows[d]) + (IF Unanswered(d) THEN 1 ELSE 0) <= 1 + faults[d]
                    /\ announced[d] <= Len(rows[d])
                    /\ Final(job[d]) /\ faults[d] = 0 => Len(rows[d]) = 1 /\ announced[d] = 1
  BY DEF RowsHaveCause
<1> DEFINE s == job[d].stalled
           n == Len(rows[d])
           u == IF Unanswered(d) THEN 1 ELSE 0
           l == IF Left(d) THEN 1 ELSE 0
           f == faults[d]
<1>1. /\ n \in Nat /\ announced[d] \in Nat /\ s \in Nat
      /\ n <= 1 + s /\ n <= 1 + MaxStalled /\ announced[d] <= n
      /\ job[d].state = "failed" => s # 0
  <2>1. /\ job[d] \in Job /\ n \in Nat /\ announced[d] \in Nat
        /\ Cardinality(Writing(d)) \in Nat /\ Cardinality(Emitting(d)) \in Nat
        /\ Counted(d)
    BY CountTypes DEF RowsInv
  <2>2. s \in Nat
    BY <2>1 DEF Job
  <2>3. /\ n <= Takes(job[d]) /\ announced[d] <= n
        /\ StallsOK(job[d])
    <3>1. Takes(job[d]) \in Nat
      BY <2>2 DEF Takes
    <3> QED
      BY <2>1, <3>1 DEF Counted
  <2> QED
    BY <2>1, <2>2, <2>3 DEF Takes, StallsOK
<1>2. /\ u \in {0, 1} /\ l \in {0, 1} /\ f \in Nat
      /\ s + l + u <= f
  BY DEF RowsInv, PaidInv, Paid, Cost, IInv, TypeOK
<1>3. n + u <= 1 + f /\ (f = 0 => s = 0)
  <2> HIDE DEF n, u, l, f, s
  <2> QED
    BY <1>1, <1>2
<1>4. ASSUME Final(job[d]), f = 0 PROVE n = 1 /\ announced[d] = 1
  <2>1. job[d].state = "completed"
    BY <1>1, <1>3, <1>4 DEF Final
  <2> QED
    BY <1>4, <2>1 DEF RowsInv, CalmInv, Calm, Resting, Logged
<1> QED
  BY <1>1, <1>3, <1>4

(* A delivery is logged once, and once more for every failure that makes   *)
(* the queue run process (worker.service.ts) again; a failure of its own   *)
(* also pays for an answer it owes the provider, and so for the row of the *)
(* delivery that repeats it; and where nothing failed in the work on a     *)
(* delivery, its finished job has exactly one row, announced.              *)
THEOREM RowsNeedCause == Spec => []RowsHaveCause
<1>1. Init => RowsInv
  BY InitIInv, InitCount, InitPaid, InitCalm DEF RowsInv
<1>2. RowsInv /\ [Next]_vars => RowsInv'
  BY NextIInv, NextKeepsCount, NextKeepsPaid, NextKeepsCalm DEF RowsInv
<1> QED
  BY <1>1, <1>2, RowsInvRows, PTL DEF Spec
=============================================================================
