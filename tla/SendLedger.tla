----------------------------- MODULE SendLedger -----------------------------
(***************************************************************************)
(* What POST /mail/send promises, seen from outside: a request that was    *)
(* accepted is eventually decided.  It is either done, and then the event  *)
(* log holds at least one outbound row for it, or lost.  The decision is   *)
(* final and the log only grows.  MailSend implements this.                *)
(***************************************************************************)
EXTENDS Sequences

CONSTANTS Jobs

VARIABLES phase,    \* phase[j]: how far request j is
          rows      \* rows[j]: the event rows written for j, oldest first

Phase == {"new", "accepted", "done", "lost"}
Status == {"ok", "error"}

vars == <<phase, rows>>

TypeOK == /\ phase \in [Jobs -> Phase]
          /\ rows \in [Jobs -> Seq(Status)]

Init == /\ phase = [j \in Jobs |-> "new"]
        /\ rows = [j \in Jobs |-> <<>>]

Move(j, from, to) == /\ phase[j] = from
                     /\ phase' = [phase EXCEPT ![j] = to]
                     /\ rows' = rows

Accept(j) == Move(j, "new", "accepted")

(* A worker that lost its lock may still write after the decision.         *)
Log(j) == /\ phase[j] # "new"
          /\ \E s \in Status : rows' = [rows EXCEPT ![j] = Append(@, s)]
          /\ phase' = phase

Done(j) == rows[j] # <<>> /\ Move(j, "accepted", "done")
Lose(j) == Move(j, "accepted", "lost")
Decide(j) == Done(j) \/ Lose(j)

Next == \E j \in Jobs : Accept(j) \/ Log(j) \/ Decide(j)

Safety == Init /\ [][Next]_vars
Spec == Safety /\ \A j \in Jobs : WF_vars(Decide(j))
=============================================================================
