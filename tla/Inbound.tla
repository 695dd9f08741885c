------------------------------ MODULE Inbound -------------------------------
(***************************************************************************)
(* Inbound mail: a provider calls POST /webhook/gmail or /microsoft; the   *)
(* handler judges the mailbox's token and puts a job with that verdict on  *)
(* the queue 'inbound-email-jobs'; a worker writes the Event row.  The job *)
(* is added without options, so it has one attempt, and WorkerService      *)
(* swallows every exception, so the attempt always succeeds.               *)
(*                                                                         *)
(* A delivery is one HTTP call.  A provider that got no answer repeats its *)
(* notification in another one, and nothing recognises the repetition.     *)
(***************************************************************************)
EXTENDS JobQueue, Sequences, FiniteSets

CONSTANTS Deliveries,
          RepeatOf,      \* the delivery that d would repeat, or NoDelivery
          NoDelivery, Mailboxes,
          Nobody,        \* the body names no mailbox
          Missing, Never,
          EnvExpiry,     \* GMAIL_TOKEN_EXPIRY or OUTLOOK_TOKEN_EXPIRY, or Never
          NewTokens, MaxTime, MaxFaults     \* bounds, as in MailSend

ASSUME InboundAssumption ==
  /\ Nobody \notin Mailboxes \cup Deliveries /\ NoDelivery \notin Deliveries
  /\ RepeatOf \in [Deliveries -> Deliveries \cup {NoDelivery}]
  /\ Missing \notin Nat /\ Never \notin Nat /\ Missing # Never
  /\ EnvExpiry \in Nat \cup {Never}
  /\ NewTokens \subseteq Nat \cup {Never}
  /\ MaxTime \in Nat /\ MaxFaults \in Nat

VARIABLES
  token,      \* token[m]: expiry of mailbox row m, Never, or Missing
  now,
  hook,       \* hook[d]: the handler of delivery d
  job,        \* job[d]: the job it enqueued
  pc, task,   \* the workers, as in MailSend
  rows,       \* rows[d]: statuses of the Event rows written for d
  announced,  \* announced[d]: how many were emitted to the dashboards
  faults      \* faults[d]: how many failures and crashes struck work on d

db == <<token, now>>
worker == <<pc, task>>
log == <<rows, announced>>
vars == <<db, hook, job, worker, log, faults>>

Hook == [pc      : {"new", "find", "judge", "enqueue", "reply", "over"},
         box     : Mailboxes \cup {Nobody},
         snap    : Nat \cup {Missing, Never},
         verdict : {"ok", "fail"},
         answer  : {"none", "success", "expired", "refused"}]

TypeOK == /\ token \in [Mailboxes -> Nat \cup {Missing, Never}]
          /\ now \in Nat
          /\ hook \in [Deliveries -> Hook]
          /\ job \in [Deliveries -> Job]
          /\ pc \in [Workers -> {"idle", "find", "save", "emit", "done"}]
          /\ task \in [Workers -> Deliveries \cup {Nobody}]
          /\ rows \in [Deliveries -> Seq({"ok", "fail"})]
          /\ announced \in [Deliveries -> Nat]
          /\ faults \in [Deliveries -> Nat]

(* isExpired: here a token expires at its very expiry time, and a mailbox  *)
(* without one falls back on the environment.                              *)
IsExpired(tok, t) == LET e == IF tok = Never THEN EnvExpiry ELSE tok
                     IN  e \in Nat /\ e <= t

Init == /\ token \in [Mailboxes -> NewTokens \cup {Missing}]
        /\ now = 0
        /\ hook = [d \in Deliveries |-> [pc |-> "new", box |-> Nobody,
                     snap |-> Missing, verdict |-> "ok", answer |-> "none"]]
        /\ job = [d \in Deliveries |-> NoJob]
        /\ pc = [w \in Workers |-> "idle"]
        /\ task = [w \in Workers |-> Nobody]
        /\ rows = [d \in Deliveries |-> <<>>]
        /\ announced = [d \in Deliveries |-> 0]
        /\ faults = [d \in Deliveries |-> 0]

Fault(d) == /\ faults[d] < MaxFaults
            /\ faults' = [faults EXCEPT ![d] = @ + 1]

-----------------------------------------------------------------------------
(* The webhook handler.                                                    *)

Advance(d, l) == hook' = [hook EXCEPT ![d].pc = l]
Answer(d, a) == hook' = [hook EXCEPT ![d].pc = "over", ![d].answer = a]

(* A body without a mailbox id, or a wrong secret, is refused at once.     *)
Receive(d, m) ==
  /\ hook[d].pc = "new" /\ RepeatOf[d] = NoDelivery
  /\ IF m = Nobody THEN Answer(d, "refused")
     ELSE hook' = [hook EXCEPT ![d].pc = "find", ![d].box = m]
  /\ UNCHANGED <<db, job, worker, log, faults>>

(* The provider got no answer to d.                                         *)
Unanswered(d) == hook[d].pc = "over" /\ hook[d].answer = "none"

(* The provider repeats a notification to which it got no answer, whether  *)
(* its job was added by then or not.                                       *)
Redeliver(d) ==
  /\ hook[d].pc = "new" /\ RepeatOf[d] # NoDelivery
  /\ Unanswered(RepeatOf[d])
  /\ hook' = [hook EXCEPT ![d].pc = "find", ![d].box = hook[RepeatOf[d]].box]
  /\ UNCHANGED <<db, job, worker, log, faults>>

FindMailbox(d) ==
  /\ hook[d].pc = "find"
  /\ LET t == token[hook[d].box]
     IN  IF t = Missing THEN Answer(d, "refused")
         ELSE hook' = [hook EXCEPT ![d].pc = "judge", ![d].snap = t]
  /\ UNCHANGED <<db, job, worker, log, faults>>

Judge(d) == /\ hook[d].pc = "judge"
            /\ hook' = [hook EXCEPT ![d].pc = "enqueue", ![d].verdict =
                          IF IsExpired(hook[d].snap, now) THEN "fail" ELSE "ok"]
            /\ UNCHANGED <<db, job, worker, log, faults>>

Enqueue(d) == /\ hook[d].pc = "enqueue"
              /\ job' = [job EXCEPT ![d] = Added(@)]
              /\ Advance(d, "reply")
              /\ UNCHANGED <<db, worker, log, faults>>

Reply(d) == /\ hook[d].pc = "reply"
            /\ Answer(d, IF hook[d].verdict = "ok" THEN "success" ELSE "expired")
            /\ UNCHANGED <<db, job, worker, log, faults>>

(* A query fails or the process stops: the provider gets no answer.        *)
HookFails(d) == /\ hook[d].pc \notin {"new", "over"}
                /\ Fault(d)
                /\ Advance(d, "over")
                /\ UNCHANGED <<db, job, worker, log>>

-----------------------------------------------------------------------------
(* The queue and WorkerService.process.                                    *)

Goto(w, l) == pc' = [pc EXCEPT ![w] = l]

Take(w, d) == /\ pc[w] = "idle"
              /\ job[d].state = "waiting"
              /\ job' = [job EXCEPT ![d] = Taken(@, w)]
              /\ Goto(w, "find")
              /\ task' = [task EXCEPT ![w] = d]
              /\ UNCHANGED <<db, hook, log, faults>>

Abandoned(d) == \A w \in Workers : ~(Holds(job[d], w) /\ task[w] = d)

StallAbandoned(d) == /\ job[d].state = "active" /\ Abandoned(d)
                     /\ job' = [job EXCEPT ![d] = StallChecked(@)]
                     /\ UNCHANGED <<db, hook, worker, log, faults>>

StallRunning(d) == /\ job[d].state = "active" /\ ~Abandoned(d)
                   /\ Fault(d)
                   /\ job' = [job EXCEPT ![d] = StallChecked(@)]
                   /\ UNCHANGED <<db, hook, worker, log>>

(* Mutated form: the worker drops what the handler judged expired.         *)
LookUpDropsExpired(w) ==
  /\ pc[w] = "find"
  /\ Goto(w, IF hook[task[w]].verdict = "fail" THEN "done" ELSE "save")
  /\ UNCHANGED <<db, hook, job, task, log, faults>>

(* findOne; what it returns decides nothing, the mailbox exists.           *)
LookUp(w) == /\ pc[w] = "find"
             /\ Goto(w, "save")
             /\ UNCHANGED <<db, hook, job, task, log, faults>>

(* Mutated form: the worker judges the token again.                        *)
AppendRowRejudged(w) ==
  LET t == token[hook[task[w]].box]
  IN  rows' = [rows EXCEPT ![task[w]] =
                 Append(@, IF IsExpired(t, now) THEN "fail" ELSE "ok")]

AppendRow(w) == rows' = [rows EXCEPT ![task[w]] = Append(@, hook[task[w]].verdict)]

Save(w) == /\ pc[w] = "save"
           /\ AppendRow(w)
           /\ Goto(w, "emit")
           /\ UNCHANGED <<db, hook, job, task, announced, faults>>

Emit(w) == /\ pc[w] = "emit"
           /\ announced' = [announced EXCEPT ![task[w]] = @ + 1]
           /\ Goto(w, "done")
           /\ UNCHANGED <<db, hook, job, task, rows, faults>>

(* Mutated form: a save that fails is tried again.                         *)
SwallowAndRetry(w) == /\ pc[w] = "save"
                      /\ Fault(task[w])
                      /\ UNCHANGED rows \/ AppendRow(w)
                      /\ Goto(w, "save")
                      /\ UNCHANGED <<db, hook, job, task, announced>>

(* findOne or save rejects, the row committed or not: the error is logged  *)
(* and swallowed.                                                          *)
Swallow(w) == /\ \/ pc[w] \in {"find", "save"} /\ UNCHANGED rows
                 \/ pc[w] = "save" /\ AppendRow(w)
              /\ Fault(task[w])
              /\ Goto(w, "done")
              /\ UNCHANGED <<db, hook, job, task, announced>>

Leave(w) == Goto(w, "idle") /\ task' = [task EXCEPT ![w] = Nobody]

Finish(w) ==
  /\ pc[w] = "done"
  /\ job' = IF Holds(job[task[w]], w)
            THEN [job EXCEPT ![task[w]] = Completed(@)] ELSE job
  /\ Leave(w)
  /\ UNCHANGED <<db, hook, log, faults>>

Crash(w) == /\ pc[w] # "idle"
            /\ Fault(task[w])
            /\ Leave(w)
            /\ UNCHANGED <<db, hook, job, log>>

-----------------------------------------------------------------------------
(* The environment, as in MailSend.                                        *)
SetToken(m) == /\ \E e \in NewTokens : token' = [token EXCEPT ![m] = e]
               /\ UNCHANGED <<now, hook, job, worker, log, faults>>

Tick == /\ now < MaxTime
        /\ now' = now + 1
        /\ UNCHANGED <<token, hook, job, worker, log, faults>>

HookStep(d) == FindMailbox(d) \/ Judge(d) \/ Enqueue(d) \/ Reply(d)
WorkerStep(w) == LookUp(w) \/ Save(w) \/ Emit(w) \/ Finish(w)
QueueStep(d) == (\E w \in Workers : Take(w, d)) \/ StallAbandoned(d)

Next == \/ \E d \in Deliveries :
             \/ \E m \in Mailboxes \cup {Nobody} : Receive(d, m)
             \/ Redeliver(d) \/ HookStep(d) \/ HookFails(d) \/ QueueStep(d) \/ StallRunning(d)
        \/ \E w \in Workers : WorkerStep(w) \/ Swallow(w) \/ Crash(w)
        \/ \E m \in Mailboxes : SetToken(m)
        \/ Tick

Fairness == /\ \A d \in Deliveries : WF_vars(QueueStep(d))
            /\ \A w \in Workers : WF_vars(WorkerStep(w))

Spec == Init /\ [][Next]_vars /\ Fairness

-----------------------------------------------------------------------------
(* Properties.                                                             *)

(* What the provider was told is what the log says: 'success' only for     *)
(* rows 'ok' and 'token expired' only for rows 'fail', whatever happened   *)
(* to the token between the answer and the processing of the job; and a    *)
(* delivery that was refused leaves no row.                                *)
AnswerMatchesLog ==
  \A d \in Deliveries : \A k \in DOMAIN rows[d] :
    hook[d].answer # "none"
      => rows[d][k] = CASE hook[d].answer = "success" -> "ok"
                        [] hook[d].answer = "expired" -> "fail"
                        [] hook[d].answer = "refused" -> "no row"

(* A delivery is logged once, and once more for every failure that makes   *)
(* the queue hand its job to another worker, which it forgives MaxStalled  *)
(* times.  Its failures pay for those rows and for the answer that was     *)
(* lost, each for one of them only: a notification delivered n times, each *)
(* time but the last without an answer, has one row and at most one more   *)
(* for each failure that struck one of the n.  A job that ended without a  *)
(* row, or without its announcement, met a failure itself: one is enough,  *)
(* since unlike in MailSend nothing retries.                               *)
RowsHaveCause ==
  \A d \in Deliveries :
    /\ Len(rows[d]) <= 1 + MaxStalled
    /\ Len(rows[d]) + (IF Unanswered(d) THEN 1 ELSE 0) <= 1 + faults[d]
    /\ announced[d] <= Len(rows[d])
    /\ Final(job[d]) /\ faults[d] = 0 => Len(rows[d]) = 1 /\ announced[d] = 1

(* An enqueued delivery is eventually logged, unless a failure struck the  *)
(* work on this very delivery: what fails elsewhere does not hold it up.   *)
EventuallyLogged ==
  \A d \in Deliveries :
    job[d].state = "waiting" ~> (rows[d] # <<>> \/ faults[d] > 0)
=============================================================================
