-------------------------------- MODULE Auth --------------------------------
(***************************************************************************)
(* AuthService: every instance of the backend bootstraps the administrator *)
(* when it starts and resets the password when it is told to, while        *)
(* requests of others change passwords.  Each statement is a transaction   *)
(* of its own, so two instances of a rolling update, and requests, meet    *)
(* between any two awaits.                                                 *)
(*                                                                         *)
(* A hash is the password it verifies; a fresh hash always differs from    *)
(* the stored one, since its salt does.  An account is known by its e-mail *)
(* address, which is unique and never changes; accounts are never deleted. *)
(***************************************************************************)
EXTENDS Naturals

CONSTANTS Instances,
          Requests,      \* bound: requests under way at once
          Emails,
          Strong, Weak,  \* passwords that isStrongPassword accepts, and not
          Generated,     \* the random first password, which nobody is told
          Absent,        \* no such account
          Settings,      \* the environments an instance may start with
          MaxFaults      \* bound: restarts and failed statements

Environments == [email : Emails, password : Strong \cup Weak, reset : BOOLEAN]
Row == [password : Strong \cup {Generated}, mustChange : BOOLEAN]
Entity == [email : Emails, password : Strong, mustChange : BOOLEAN]

ASSUME AuthAssumption ==
  /\ Instances \cap Requests = {}
  /\ Generated \notin Strong \cup Weak
  /\ Settings \subseteq Environments
  /\ Absent \notin Row \cup Entity
  /\ MaxFaults \in Nat

VARIABLES
  users,     \* users[e]: the row of table user, or Absent
  pc,        \* pc[w]: the await an instance or a request is at
  setting,   \* setting[i]: process.env of instance i
  entity,    \* entity[w]: the object given to repo.save
  dirty,     \* dirty[w]: the save will update mustChangePassword
  host,      \* host[r]: the instance that handles request r
  tokens,    \* the accounts someone holds a valid token of
  origin,    \* history: who chose the password, "operator" or "user"
  overtaken, \* history: writers whose row was written since they read it
  torn,      \* history: the accounts last written by such a writer
  faults

history == <<origin, overtaken, torn>>
vars == <<users, pc, setting, entity, dirty, host, tokens, history, faults>>

Writers == Instances \cup Requests
Booting == {"count", "create", "find", "insert", "reload", "write"}

TypeOK ==
  /\ users \in [Emails -> Row \cup {Absent}]
  /\ pc \in [Writers -> Booting \cup {"off", "failed", "up", "idle"}]
  /\ \A r \in Requests : pc[r] \in {"idle", "reload", "write"}
  /\ setting \in [Instances -> Settings]
  /\ entity \in [Writers -> Entity \cup {Absent}]
  /\ \A w \in Writers : pc[w] \in {"reload", "write"} => entity[w] # Absent
  /\ dirty \in [Writers -> BOOLEAN]
  /\ host \in [Requests -> Instances]
  /\ tokens \subseteq Emails
  /\ origin \in [Emails -> {"operator", "user"}]
  /\ overtaken \subseteq Writers /\ torn \subseteq Emails
  /\ faults \in Nat

Init == /\ users = [e \in Emails |-> Absent]
        /\ pc = [w \in Writers |-> IF w \in Instances THEN "off" ELSE "idle"]
        /\ setting \in [Instances -> Settings]
        /\ entity = [w \in Writers |-> Absent]
        /\ dirty = [w \in Writers |-> FALSE]
        /\ host \in [Requests -> Instances]
        /\ tokens = {}
        /\ origin = [e \in Emails |-> "operator"]
        /\ overtaken = {} /\ torn = {}
        /\ faults = 0

Resets(s) == s.reset /\ s.password \in Strong

(* Mutated form: the first password is not checked.                        *)
UncheckedPassword(s) == s.password

(* A weak or missing DEFAULT_ADMIN_PASSWORD is replaced by random bytes.   *)
FirstPassword(s) == IF s.password \in Strong THEN s.password ELSE Generated

(* What follows once there is an account.  A reset to a weak password is   *)
(* skipped.                                                                *)
AfterBootstrap(i) == IF Resets(setting[i]) THEN "find" ELSE "up"

(* The writers that have read the row of e in a save and not yet written.  *)
Holders(e) == {w \in Writers : pc[w] = "write" /\ entity[w].email = e}

(* The history of a write of e by w on behalf of by.                       *)
Record(w, e, by) ==
  /\ origin' = [origin EXCEPT ![e] = by]
  /\ torn' = IF w \in overtaken THEN torn \cup {e} ELSE torn \ {e}
  /\ overtaken' = (overtaken \cup Holders(e)) \ {w}

Goto(w, label) == pc' = [pc EXCEPT ![w] = label]

(* The locals of the writers in gone are lost.                             *)
Forget(gone) ==
  /\ entity' = [w \in Writers |-> IF w \in gone THEN Absent ELSE entity[w]]
  /\ dirty' = [w \in Writers |-> w \notin gone /\ dirty[w]]

(* The container is started in some environment.                           *)
Start(i) == /\ pc[i] = "off"
            /\ Goto(i, "count")
            /\ \E s \in Settings : setting' = [setting EXCEPT ![i] = s]
            /\ UNCHANGED <<users, entity, dirty, host, tokens, history, faults>>

(* Mutated form: the number of accounts is not looked at.                  *)
CountUnused(i) ==
  /\ pc[i] = "count"
  /\ Goto(i, "create")
  /\ UNCHANGED <<users, setting, entity, dirty, host, tokens, history, faults>>

(* Mutated form: with an account there, bootstrap is over.                 *)
CountAndReturn(i) ==
  /\ pc[i] = "count"
  /\ Goto(i, IF \A e \in Emails : users[e] = Absent THEN "create" ELSE "up")
  /\ UNCHANGED <<users, setting, entity, dirty, host, tokens, history, faults>>

(* userRepo.count(): the first account is created if there is none.        *)
Count(i) ==
  /\ pc[i] = "count"
  /\ Goto(i, IF \A e \in Emails : users[e] = Absent THEN "create"
             ELSE AfterBootstrap(i))
  /\ UNCHANGED <<users, setting, entity, dirty, host, tokens, history, faults>>

(* save of a new object inserts a row; the unique constraint may reject it *)
(* because another instance was faster, and then onModuleInit rejects.     *)
InsertRow(i, password, next) ==
  LET e == setting[i].email
  IN  \/ /\ users[e] = Absent
         /\ users' = [users EXCEPT ![e] = [password |-> password,
                                           mustChange |-> TRUE]]
         /\ Record(i, e, "operator")
         /\ Goto(i, next)
      \/ /\ users[e] # Absent
         /\ Goto(i, "failed")
         /\ UNCHANGED <<users, history>>

Create(i) == /\ pc[i] = "create"
             /\ InsertRow(i, FirstPassword(setting[i]), AfterBootstrap(i))
             /\ UNCHANGED <<setting, entity, dirty, host, tokens, faults>>

(* findOne of the account to reset.                                        *)
Find(i) ==
  /\ pc[i] = "find"
  /\ LET s == setting[i]
     IN  IF users[s.email] = Absent
         THEN Goto(i, "insert") /\ UNCHANGED entity
         ELSE /\ Goto(i, "reload")
              /\ entity' = [entity EXCEPT ![i] =
                   [email |-> s.email, password |-> s.password,
                    mustChange |-> TRUE]]
  /\ UNCHANGED <<users, setting, dirty, host, tokens, history, faults>>

(* The account to reset does not exist.                                    *)
Insert(i) == /\ pc[i] = "insert"
             /\ InsertRow(i, setting[i].password, "up")
             /\ UNCHANGED <<setting, entity, dirty, host, tokens, faults>>

(* save of a loaded object first reads the row, to find what differs ...   *)
Reload(w) ==
  /\ pc[w] = "reload"
  /\ Goto(w, "write")
  /\ dirty' = [dirty EXCEPT ![w] =
       entity[w].mustChange # users[entity[w].email].mustChange]
  /\ UNCHANGED <<users, setting, entity, host, tokens, history, faults>>

(* ... and then updates that: always the hash, the flag if it differed.    *)
Write(w) ==
  /\ pc[w] = "write"
  /\ LET e == entity[w].email
     IN  /\ users' = [users EXCEPT ![e] =
              [password |-> entity[w].password,
               mustChange |-> IF dirty[w] THEN entity[w].mustChange
                              ELSE users[e].mustChange]]
         /\ Record(w, e, IF w \in Requests THEN "user" ELSE "operator")
  /\ Goto(w, IF w \in Requests THEN "idle" ELSE "up")
  /\ Forget({w})
  /\ UNCHANGED <<setting, host, tokens, faults>>

(* Someone who knows the password logs in and gets a token.  Nobody knows  *)
(* a generated one.                                                        *)
Login(i, e, password) ==
  /\ pc[i] = "up"
  /\ users[e] # Absent /\ users[e].password = password
  /\ tokens' = tokens \cup {e}
  /\ UNCHANGED <<users, pc, setting, entity, dirty, host, history, faults>>

(* A token expires; until then it survives any change of the password.     *)
Expire(e) == /\ e \in tokens
             /\ tokens' = tokens \ {e}
             /\ UNCHANGED <<users, pc, setting, entity, dirty, host, history,
                            faults>>

(* Mutated form: the flag is not cleared.                                  *)
ChangeKeepsFlag(r, i, e, current, new) ==
  /\ pc[r] = "idle" /\ pc[i] = "up" /\ e \in tokens
  /\ users[e] # Absent /\ users[e].password = current /\ new \in Strong
  /\ Goto(r, "reload")
  /\ host' = [host EXCEPT ![r] = i]
  /\ entity' = [entity EXCEPT ![r] = [email |-> e, password |-> new,
                                      mustChange |-> users[e].mustChange]]
  /\ UNCHANGED <<users, setting, dirty, tokens, history, faults>>

(* changePassword up to its save.  The refusals change nothing.            *)
ChangePassword(r, i, e, current, new) ==
  /\ pc[r] = "idle" /\ pc[i] = "up" /\ e \in tokens
  /\ users[e] # Absent /\ users[e].password = current /\ new \in Strong
  /\ Goto(r, "reload")
  /\ host' = [host EXCEPT ![r] = i]
  /\ entity' = [entity EXCEPT ![r] = [email |-> e, password |-> new,
                                      mustChange |-> FALSE]]
  /\ UNCHANGED <<users, setting, dirty, tokens, history, faults>>

Fault == faults < MaxFaults /\ faults' = faults + 1

(* A statement fails: onModuleInit rejects, and the instance does not      *)
(* listen; a request answers 500.                                          *)
Reject(w) == /\ Fault
             /\ pc[w] \in Booting
             /\ Goto(w, IF w \in Requests THEN "idle" ELSE "failed")
             /\ overtaken' = overtaken \ {w}
             /\ Forget({w})
             /\ UNCHANGED <<users, setting, host, tokens, origin, torn>>

(* An instance stops, and the requests it handled with it.                 *)
Stop(i) ==
  LET mine == {r \in Requests : host[r] = i}
  IN  /\ pc' = [w \in Writers |-> IF w = i THEN "off"
                                  ELSE IF w \in mine THEN "idle" ELSE pc[w]]
      /\ overtaken' = overtaken \ (mine \cup {i})
      /\ Forget(mine \cup {i})
      /\ UNCHANGED <<users, setting, host, tokens, origin, torn>>

Crash(i) == pc[i] # "off" /\ Fault /\ Stop(i)

(* bootstrap() only logs the error, so the process stays; as it does not   *)
(* listen, the liveness probe restarts its container.                      *)
Probe(i) == pc[i] = "failed" /\ Stop(i) /\ UNCHANGED faults

Boot(i) == \/ Start(i) \/ Count(i) \/ Create(i) \/ Find(i) \/ Insert(i)
           \/ Reload(i) \/ Write(i) \/ Probe(i)

Next == \/ \E i \in Instances : Boot(i) \/ Crash(i)
        \/ \E r \in Requests : Reload(r) \/ Write(r)
        \/ \E w \in Writers : Reject(w)
        \/ \E i \in Instances, e \in Emails, current \in Strong \cup Weak :
             \/ Login(i, e, current)
             \/ \E r \in Requests, new \in Strong \cup Weak :
                  ChangePassword(r, i, e, current, new)
        \/ \E e \in Emails : Expire(e)

(* A starting instance goes on, and the orchestrator and its probe act.    *)
(* Nothing is assumed of users, of requests or of faults.                  *)
Spec == Init /\ [][Next]_vars /\ \A i \in Instances : WF_vars(Boot(i))

-----------------------------------------------------------------------------
(* Properties.                                                             *)

(* The flag that asks for a new password is set exactly when the operator  *)
(* chose the present one, unless the row was last written by a save that   *)
(* was overtaken between its SELECT and its UPDATE: each save writes the   *)
(* hash, but the flag only if it differed before.                          *)
FlagMatchesPassword ==
  \A e \in Emails :
    users[e] # Absent /\ e \notin torn
      => (users[e].mustChange <=> origin[e] = "operator")

(* An instance that was told to reset the password and came up has ended   *)
(* the lockout: the account exists and its password is not the random one, *)
(* whatever other instances did meanwhile to bootstrap it.                 *)
ResetEndsLockout ==
  \A i \in Instances :
    pc[i] = "up" /\ Resets(setting[i])
      => LET e == setting[i].email
         IN  users[e] # Absent /\ users[e].password # Generated

(* Every instance comes up in the end, also one that lost the race for the *)
(* first account or whose database failed while it started.                *)
InstancesComeUp == \A i \in Instances : []<>(pc[i] = "up")
=============================================================================
