----------------------------- MODULE AuthProofs -----------------------------
(***************************************************************************)
(* For any number of instances, requests, accounts and faults, and any     *)
(* environments: type correctness of Auth, FlagMatchesPassword and         *)
(* ResetEndsLockout.                                                       *)
(***************************************************************************)
EXTENDS Auth, TLAPS

USE AuthAssumption DEF AuthAssumption

(* A save works on an account that exists.  The saves of an instance reset *)
(* its own administrator and set the flag; those of a request clear it.    *)
SavesInOrder ==
  \A w \in Writers : pc[w] \in {"reload", "write"} =>
    /\ users[entity[w].email] # Absent
    /\ w \in Instances => /\ entity[w].mustChange = TRUE
                          /\ entity[w].email = setting[w].email
    /\ w \in Requests => entity[w].mustChange = FALSE

(* Only an instance told to reset, to a strong password, looks for whom.   *)
OnlyResetsFind ==
  \A i \in Instances : pc[i] \in {"find", "insert"} => Resets(setting[i])

(* What a save found to differ still differs, unless it was overtaken.     *)
DirtyIsExact ==
  \A w \in Writers : pc[w] = "write" /\ w \notin overtaken =>
    dirty[w] = (entity[w].mustChange # users[entity[w].email].mustChange)

IInv == /\ TypeOK
        /\ SavesInOrder
        /\ OnlyResetsFind
        /\ DirtyIsExact
        /\ FlagMatchesPassword
        /\ ResetEndsLockout

LEMMA InitIInv == Init => IInv
<1> SUFFICES ASSUME Init PROVE IInv
  OBVIOUS
<1>1. \A w \in Writers : pc[w] \in {"off", "idle"}
  BY DEF Init
<1>2. TypeOK
  <2>1. pc \in [Writers -> Booting \cup {"off", "failed", "up", "idle"}]
    BY DEF Init
  <2>2. \A r \in Requests : pc[r] \in {"idle", "reload", "write"}
    BY DEF Init, Writers
  <2>3. \A w \in Writers : pc[w] \notin {"reload", "write"}
    BY <1>1
  <2> QED
    BY <2>1, <2>2, <2>3 DEF Init, TypeOK
<1>3. SavesInOrder /\ OnlyResetsFind /\ DirtyIsExact
  BY <1>1 DEF SavesInOrder, OnlyResetsFind, DirtyIsExact, Writers
<1>4. FlagMatchesPassword /\ ResetEndsLockout
  BY <1>1 DEF FlagMatchesPassword, ResetEndsLockout, Writers, Init
<1> QED
  BY <1>2, <1>3, <1>4 DEF IInv

(* The table and the locals of all writers but w stay as they are.         *)
Quiet(w) ==
  /\ UNCHANGED <<users, origin, torn>>
  /\ \A v \in Writers : v # w =>
       /\ pc'[v] = pc[v] /\ entity'[v] = entity[v] /\ dirty'[v] = dirty[v]
       /\ v \in overtaken' <=> v \in overtaken
  /\ \A i \in Instances : i # w => setting'[i] = setting[i]

(* A step of w that leaves the table and the histories alone, and after    *)
(* which w itself is in order.                                             *)
LEMMA QuietKeepsIInv ==
  ASSUME IInv, TypeOK', NEW w \in Writers,
         Quiet(w),
         pc'[w] \in {"reload", "write"} =>
           /\ users[entity'[w].email] # Absent
           /\ w \in Instances => /\ entity'[w].mustChange = TRUE
                                 /\ entity'[w].email = setting'[w].email
           /\ w \in Requests => entity'[w].mustChange = FALSE,
         w \in Instances /\ pc'[w] \in {"find", "insert"} => Resets(setting'[w]),
         pc'[w] = "write" => 
           dirty'[w] = (entity'[w].mustChange # users[entity'[w].email].mustChange),
         w \in Instances /\ pc'[w] = "up" /\ Resets(setting'[w]) =>
           pc[w] = "up" /\ setting'[w] = setting[w]
  PROVE  IInv'
<1>1. SavesInOrder'
  BY DEF IInv, SavesInOrder, Writers, Quiet
<1>2. OnlyResetsFind'
  BY DEF IInv, OnlyResetsFind, Writers, Resets, Quiet
<1>3. DirtyIsExact'
  BY DEF IInv, DirtyIsExact, Quiet
<1>4. FlagMatchesPassword'
  BY DEF IInv, FlagMatchesPassword, Quiet
<1>5. ResetEndsLockout'
  BY DEF IInv, ResetEndsLockout, Writers, Resets, Quiet
<1> QED
  BY <1>1, <1>2, <1>3, <1>4, <1>5 DEF IInv

-----------------------------------------------------------------------------
(* Steps that write nothing.                                               *)

LEMMA StartKeepsIInv ==
  ASSUME IInv, NEW i \in Instances, Start(i)
  PROVE  IInv'
<1>1. TypeOK'
  BY DEF IInv, TypeOK, Start, Goto, Writers, Booting, history
<1>2. Quiet(i) /\ pc'[i] = "count"
  BY DEF Quiet, Start, Goto, Writers, IInv, TypeOK, history
<1> QED
  BY <1>1, <1>2, QuietKeepsIInv DEF Writers

LEMMA CountKeepsIInv ==
  ASSUME IInv, NEW i \in Instances, Count(i)
  PROVE  IInv'
<1>1. TypeOK'
  BY DEF IInv, TypeOK, Count, Goto, AfterBootstrap, Writers, Booting, history
<1>2. Quiet(i)
  BY DEF Quiet, Count, Goto, Writers, IInv, TypeOK, history
<1>3. \/ pc'[i] = "create"
      \/ pc'[i] = "find" /\ Resets(setting[i])
      \/ pc'[i] = "up" /\ ~Resets(setting[i])
  BY DEF Count, Goto, AfterBootstrap, IInv, TypeOK, Writers
<1>4. Resets(setting'[i]) <=> Resets(setting[i])
  BY DEF Count, Resets
<1> QED
  BY <1>1, <1>2, <1>3, <1>4, QuietKeepsIInv DEF Writers

LEMMA FindKeepsIInv ==
  ASSUME IInv, NEW i \in Instances, Find(i)
  PROVE  IInv'
<1> DEFINE new == [email |-> setting[i].email, password |-> setting[i].password,
                   mustChange |-> TRUE]
<1>1. Resets(setting[i]) /\ setting[i] \in Environments
  BY DEF IInv, OnlyResetsFind, TypeOK, Find
<1>2. new \in Entity
  BY <1>1 DEF Resets, Environments, Entity
<1>3. i \in Writers /\ i \notin Requests /\ setting' = setting
  BY DEF Writers, Find
<1>4. CASE users[setting[i].email] = Absent
  <2>1. pc' = [pc EXCEPT ![i] = "insert"] /\ entity' = entity
    BY <1>4 DEF Find, Goto
  <2>2. TypeOK'
    BY <1>3, <2>1 DEF IInv, TypeOK, Find, Writers, Booting, history
  <2>3. Quiet(i) /\ pc'[i] = "insert"
    BY <1>3, <2>1 DEF Quiet, Find, Writers, IInv, TypeOK, history
  <2>4. Resets(setting'[i])
    BY <1>1, <1>3
  <2> QED
    BY <1>3, <2>2, <2>3, <2>4, QuietKeepsIInv
<1>5. CASE users[setting[i].email] # Absent
  <2>1. pc' = [pc EXCEPT ![i] = "reload"] /\ entity' = [entity EXCEPT ![i] = new]
    BY <1>5 DEF Find, Goto
  <2>2. TypeOK'
    BY <1>2, <1>3, <2>1 DEF IInv, TypeOK, Find, Writers, Booting, history
  <2>3. Quiet(i) /\ pc'[i] = "reload" /\ entity'[i] = new
    BY <1>3, <2>1 DEF Quiet, Find, Writers, IInv, TypeOK, history
  <2>4. /\ entity'[i].mustChange = TRUE
        /\ entity'[i].email = setting'[i].email
        /\ users[entity'[i].email] # Absent
    BY <1>3, <1>5, <2>3
  <2> HIDE DEF new
  <2> QED
    BY <1>3, <2>2, <2>3, <2>4, QuietKeepsIInv
<1> QED
  BY <1>4, <1>5

LEMMA ChangePasswordKeepsIInv ==
  ASSUME IInv, NEW r \in Requests, NEW i \in Instances, NEW e \in Emails,
         NEW current \in Strong \cup Weak, NEW new \in Strong \cup Weak,
         ChangePassword(r, i, e, current, new)
  PROVE  IInv'
<1> DEFINE ent == [email |-> e, password |-> new, mustChange |-> FALSE]
<1>1. r \in Writers /\ r \notin Instances /\ ent \in Entity
  BY DEF ChangePassword, Entity, Writers
<1>2. TypeOK'
  BY <1>1 DEF IInv, TypeOK, ChangePassword, Goto, Writers, Booting, history
<1>3. Quiet(r) /\ pc'[r] = "reload" /\ entity'[r] = ent
  BY <1>1 DEF Quiet, ChangePassword, Goto, IInv, TypeOK, Writers, history
<1>4. entity'[r].mustChange = FALSE /\ users[entity'[r].email] # Absent
  BY <1>3 DEF ChangePassword
<1> HIDE DEF ent
<1> QED
  BY <1>1, <1>2, <1>3, <1>4, QuietKeepsIInv

LEMMA ReloadKeepsIInv ==
  ASSUME IInv, NEW w \in Writers, Reload(w)
  PROVE  IInv'
<1>1. entity[w] \in Entity /\ users[entity[w].email] \in Row
  BY DEF IInv, TypeOK, SavesInOrder, Reload, Entity
<1> DEFINE differs == entity[w].mustChange # users[entity[w].email].mustChange
<1>2. TypeOK'
  BY <1>1 DEF IInv, TypeOK, Reload, Goto, Writers, Booting, history
<1>3. Quiet(w) /\ pc'[w] = "write" /\ dirty'[w] = differs
  BY DEF Quiet, Reload, Goto, IInv, TypeOK, history
<1>4. entity' = entity /\ setting' = setting /\ pc[w] = "reload"
  BY DEF Reload
<1> QED
  BY <1>2, <1>3, <1>4, QuietKeepsIInv DEF IInv, SavesInOrder

LEMMA TokensKeepIInv ==
  ASSUME IInv, tokens' \subseteq Emails,
         UNCHANGED <<users, pc, setting, entity, dirty, host, history, faults>>
  PROVE  IInv'
BY DEF IInv, TypeOK, SavesInOrder, OnlyResetsFind, DirtyIsExact, history,
       FlagMatchesPassword, ResetEndsLockout

LEMMA RejectKeepsIInv ==
  ASSUME IInv, NEW w \in Writers, Reject(w)
  PROVE  IInv'
<1>1. TypeOK'
  BY DEF IInv, TypeOK, Reject, Goto, Forget, Fault, Writers, Booting
<1>2. Quiet(w) /\ pc'[w] \in {"idle", "failed"}
  BY DEF Quiet, Reject, Goto, Forget, IInv, TypeOK
<1> QED
  BY <1>1, <1>2, QuietKeepsIInv

LEMMA StopKeepsIInv ==
  ASSUME IInv, NEW i \in Instances, Stop(i), faults' \in Nat
  PROVE  IInv'
<1> DEFINE gone == {r \in Requests : host[r] = i} \cup {i}
<1>1. \A w \in Writers : \/ pc'[w] \in {"off", "idle"}
                         \/ /\ pc'[w] = pc[w] /\ entity'[w] = entity[w]
                            /\ dirty'[w] = dirty[w]
                            /\ w \in overtaken' <=> w \in overtaken
  BY DEF Stop, Forget, IInv, TypeOK
<1>2. TypeOK'
  BY DEF IInv, TypeOK, Stop, Forget, Writers, Booting
<1>3. SavesInOrder'
  BY <1>1 DEF Stop, IInv, SavesInOrder
<1>4. OnlyResetsFind'
  BY <1>1 DEF Stop, IInv, OnlyResetsFind, Resets, Writers
<1>5. DirtyIsExact'
  BY <1>1 DEF Stop, IInv, DirtyIsExact
<1>6. FlagMatchesPassword' /\ ResetEndsLockout'
  BY <1>1 DEF Stop, IInv, FlagMatchesPassword, ResetEndsLockout, Resets, Writers
<1> QED
  BY <1>2, <1>3, <1>4, <1>5, <1>6 DEF IInv

-----------------------------------------------------------------------------
(* Steps that write the table.                                             *)

(* An insert succeeds only where there was no account, so it disturbs no   *)
(* save and no instance that is up.                                        *)
LEMMA InsertKeepsIInv ==
  ASSUME IInv, NEW i \in Instances, pc[i] \in {"create", "insert"},
         NEW password \in Strong \cup {Generated},
         NEW next \in {"find", "up"},
         next = "find" => Resets(setting[i]),
         next = "up" /\ Resets(setting[i]) => password # Generated,
         InsertRow(i, password, next),
         UNCHANGED <<setting, entity, dirty, host, tokens, faults>>
  PROVE  IInv'
<1> DEFINE e == setting[i].email
           row == [password |-> password, mustChange |-> TRUE]
<1>1. i \in Writers /\ i \notin Requests /\ e \in Emails /\ row \in Row
  BY DEF Writers, IInv, TypeOK, Environments, Row
<1>2. CASE users[e] # Absent
  <2>1. pc' = [pc EXCEPT ![i] = "failed"] /\ UNCHANGED <<users, history>>
    BY <1>2 DEF InsertRow, Goto
  <2>2. TypeOK'
    BY <1>1, <2>1 DEF IInv, TypeOK, Writers, Booting, history
  <2>3. Quiet(i) /\ pc'[i] = "failed"
    BY <1>1, <2>1 DEF Quiet, IInv, TypeOK, history
  <2> QED
    BY <1>1, <2>2, <2>3, QuietKeepsIInv
<1>3. CASE users[e] = Absent
  <2>1. /\ users' = [users EXCEPT ![e] = row]
        /\ pc' = [pc EXCEPT ![i] = next]
        /\ Record(i, e, "operator")
    BY <1>3 DEF InsertRow, Goto
  <2>2. row # Absent /\ users'[e] = row
    BY <1>1, <2>1 DEF IInv, TypeOK
  <2>3. \A x \in Emails : /\ x # e => users'[x] = users[x]
                          /\ users[x] # Absent => x # e
    BY <1>3, <2>1 DEF IInv, TypeOK
  <2>4. \A w \in Writers : pc'[w] = IF w = i THEN next ELSE pc[w]
    BY <2>1 DEF IInv, TypeOK
  <2>5. TypeOK'
    <3>1. Holders(e) \subseteq Writers
      BY DEF Holders
    <3> QED
      BY <1>1, <2>1, <3>1 DEF IInv, TypeOK, Record, Writers, Booting
  <2>6. \A w \in Writers : pc'[w] \in {"reload", "write"} =>
          /\ pc'[w] = pc[w] /\ entity[w].email \in Emails
          /\ users[entity[w].email] # Absent
          /\ users'[entity[w].email] = users[entity[w].email]
    BY <2>3, <2>4 DEF IInv, TypeOK, SavesInOrder, Entity
  <2>7. SavesInOrder'
    BY <2>6 DEF IInv, SavesInOrder
  <2>8. OnlyResetsFind'
    BY <2>4 DEF IInv, OnlyResetsFind, Resets, Writers
  <2>9. DirtyIsExact'
    <3>1. \A w \in Writers : pc'[w] = "write" =>
            w \in overtaken' <=> w \in overtaken
      BY <2>1, <2>4, <2>6, <1>3 DEF Record, Holders
    <3> QED
      BY <2>6, <3>1 DEF IInv, DirtyIsExact
  <2>10. FlagMatchesPassword'
    <3>1. \A x \in Emails :
            /\ x = e => origin'[x] = "operator"
            /\ x # e => origin'[x] = origin[x] /\ (x \in torn' <=> x \in torn)
      BY <2>1 DEF Record, IInv, TypeOK
    <3> QED
      BY <2>2, <2>3, <3>1 DEF IInv, FlagMatchesPassword
  <2>11. ResetEndsLockout'
    <3> SUFFICES ASSUME NEW k \in Instances, pc'[k] = "up", Resets(setting[k])
                 PROVE  /\ users'[setting[k].email] # Absent
                        /\ users'[setting[k].email].password # Generated
      BY DEF ResetEndsLockout, Resets
    <3>1. CASE k = i
      BY <2>2, <2>4, <3>1, <1>1
    <3>2. CASE k # i
      <4>1. setting[k].email \in Emails /\ pc[k] = "up"
        BY <2>4, <3>2 DEF IInv, TypeOK, Environments, Writers
      <4> QED
        BY <4>1, <2>3 DEF IInv, ResetEndsLockout
    <3> QED
      BY <3>1, <3>2
  <2> QED
    BY <2>5, <2>7, <2>8, <2>9, <2>10, <2>11 DEF IInv
<1> QED
  BY <1>2, <1>3

(* An update leaves the account of a save that was not overtaken with the  *)
(* flag of that save, and marks every other save of it as overtaken.       *)
LEMMA WriteKeepsIInv ==
  ASSUME IInv, NEW w \in Writers, Write(w)
  PROVE  IInv'
<1> DEFINE e == entity[w].email
           flag == IF dirty[w] THEN entity[w].mustChange ELSE users[e].mustChange
           row == [password |-> entity[w].password, mustChange |-> flag]
           end == IF w \in Requests THEN "idle" ELSE "up"
           by == IF w \in Requests THEN "user" ELSE "operator"
<1>1. entity[w] \in Entity /\ e \in Emails /\ users[e] \in Row /\ row \in Row
  BY DEF Write, IInv, TypeOK, SavesInOrder, Entity, Row
<1>2. /\ users' = [users EXCEPT ![e] = row]
      /\ pc' = [pc EXCEPT ![w] = end]
      /\ Record(w, e, by)
      /\ UNCHANGED <<setting, host, tokens, faults>>
  BY DEF Write, Goto
<1>3. row # Absent /\ users'[e] = row
  BY <1>1, <1>2 DEF IInv, TypeOK
<1>4. \A x \in Emails : x # e => users'[x] = users[x]
  BY <1>2 DEF IInv, TypeOK
<1>5. \A v \in Writers : v # w => /\ pc'[v] = pc[v]
                                  /\ entity'[v] = entity[v]
                                  /\ dirty'[v] = dirty[v]
  BY <1>2 DEF Write, Forget, IInv, TypeOK
<1>6. pc'[w] = end /\ end \in {"idle", "up"} /\ (end = "idle" <=> w \in Requests)
  BY <1>2 DEF IInv, TypeOK
<1> HIDE DEF row, flag, end
<1>7. TypeOK'
  <2>1. Holders(e) \subseteq Writers
    BY DEF Holders
  <2>2. overtaken' \subseteq Writers /\ torn' \subseteq Emails
    BY <1>1, <1>2, <2>1 DEF Record, IInv, TypeOK
  <2>3. origin' \in [Emails -> {"operator", "user"}]
    BY <1>2 DEF Record, IInv, TypeOK
  <2>4. pc' \in [Writers -> Booting \cup {"off", "failed", "up", "idle"}]
    BY <1>2, <1>6 DEF IInv, TypeOK
  <2>5. \A r \in Requests : pc'[r] \in {"idle", "reload", "write"}
    BY <1>5, <1>6 DEF IInv, TypeOK, Writers
  <2>6. /\ entity' \in [Writers -> Entity \cup {Absent}]
        /\ dirty' \in [Writers -> BOOLEAN]
    BY DEF Write, Forget, IInv, TypeOK
  <2>7. \A v \in Writers : pc'[v] \in {"reload", "write"} => entity'[v] # Absent
    BY <1>5, <1>6 DEF IInv, TypeOK
  <2>8. users' \in [Emails -> Row \cup {Absent}]
    BY <1>1, <1>2 DEF IInv, TypeOK
  <2> QED
    BY <1>2, <2>2, <2>3, <2>4, <2>5, <2>6, <2>7, <2>8 DEF IInv, TypeOK
<1>8. \A v \in Writers : pc'[v] \in {"reload", "write"} =>
        v # w /\ pc'[v] = pc[v] /\ entity'[v] = entity[v]
          /\ dirty'[v] = dirty[v] /\ entity[v].email \in Emails
  BY <1>5, <1>6 DEF IInv, TypeOK, Entity
<1>9. SavesInOrder'
  BY <1>2, <1>3, <1>4, <1>8 DEF IInv, SavesInOrder
<1>10. OnlyResetsFind'
  BY <1>2, <1>5, <1>6 DEF IInv, OnlyResetsFind, Resets, Writers
<1>11. DirtyIsExact'
  <2> SUFFICES ASSUME NEW v \in Writers, pc'[v] = "write", v \notin overtaken'
               PROVE  dirty'[v] =
                        (entity'[v].mustChange # users'[entity'[v].email].mustChange)
    BY DEF DirtyIsExact
  <2>1. entity[v].email # e /\ v \notin overtaken
    BY <1>2, <1>8 DEF Record, Holders
  <2> QED
    BY <1>4, <1>8, <2>1 DEF IInv, DirtyIsExact
<1>12. FlagMatchesPassword'
  <2> SUFFICES ASSUME NEW x \in Emails, users'[x] # Absent, x \notin torn'
               PROVE  users'[x].mustChange <=> origin'[x] = "operator"
    BY DEF FlagMatchesPassword
  <2>1. CASE x # e
    <3>1. origin'[x] = origin[x] /\ x \notin torn
      BY <1>2, <2>1 DEF Record, IInv, TypeOK
    <3> QED
      BY <1>4, <2>1, <3>1 DEF IInv, FlagMatchesPassword
  <2>2. CASE x = e
    <3>1. w \notin overtaken /\ origin'[x] = by
      BY <1>1, <1>2, <2>2 DEF Record, IInv, TypeOK
    <3>2. dirty[w] = (entity[w].mustChange # users[e].mustChange)
      BY <3>1 DEF Write, IInv, DirtyIsExact
    <3>3. flag = entity[w].mustChange
      BY <1>1, <3>2 DEF flag, Row, Entity
    <3>4. users'[x].mustChange = entity[w].mustChange
      BY <1>3, <2>2, <3>3 DEF row
    <3> QED
      BY <3>1, <3>4 DEF IInv, SavesInOrder, Write, Writers
  <2> QED
    BY <2>1, <2>2
<1>13. ResetEndsLockout'
  <2> SUFFICES ASSUME NEW k \in Instances, pc'[k] = "up", Resets(setting[k])
               PROVE  /\ users'[setting[k].email] # Absent
                      /\ users'[setting[k].email].password # Generated
    BY <1>2 DEF ResetEndsLockout, Resets
  <2>1. row.password # Generated
    BY <1>1 DEF row, Entity
  <2>2. setting[k].email \in Emails /\ k \in Writers
    BY DEF IInv, TypeOK, Environments, Writers
  <2>3. CASE setting[k].email = e
    BY <1>3, <2>1, <2>3
  <2>4. CASE setting[k].email # e
    <3>1. k # w
      BY <2>4 DEF IInv, SavesInOrder, Write
    <3> QED
      BY <1>4, <1>5, <2>2, <2>4, <3>1 DEF IInv, ResetEndsLockout
  <2> QED
    BY <2>3, <2>4
<1> QED
  BY <1>7, <1>9, <1>10, <1>11, <1>12, <1>13 DEF IInv

-----------------------------------------------------------------------------
LEMMA NextIInv == IInv /\ [Next]_vars => IInv'
<1> SUFFICES ASSUME IInv, [Next]_vars PROVE IInv'
  OBVIOUS
<1>1. ASSUME NEW i \in Instances, Start(i) PROVE IInv'
  BY <1>1, StartKeepsIInv
<1>2. ASSUME NEW i \in Instances, Count(i) PROVE IInv'
  BY <1>2, CountKeepsIInv
<1>3. ASSUME NEW i \in Instances, Create(i) PROVE IInv'
  <2>1. setting[i] \in Environments
    BY DEF IInv, TypeOK
  <2>2. FirstPassword(setting[i]) \in Strong \cup {Generated}
    BY DEF FirstPassword
  <2>3. /\ AfterBootstrap(i) \in {"find", "up"}
        /\ AfterBootstrap(i) = "find" <=> Resets(setting[i])
    BY DEF AfterBootstrap
  <2> QED
    BY <1>3, <2>2, <2>3, InsertKeepsIInv DEF Create
<1>4. ASSUME NEW i \in Instances, Find(i) PROVE IInv'
  BY <1>4, FindKeepsIInv
<1>5. ASSUME NEW i \in Instances, Insert(i) PROVE IInv'
  <2>1. setting[i].password \in Strong
    BY <1>5 DEF Insert, IInv, OnlyResetsFind, Resets
  <2> QED
    BY <1>5, <2>1, InsertKeepsIInv DEF Insert
<1>6. ASSUME NEW w \in Writers, Reload(w) PROVE IInv'
  BY <1>6, ReloadKeepsIInv
<1>7. ASSUME NEW w \in Writers, Write(w) PROVE IInv'
  BY <1>7, WriteKeepsIInv
<1>8. ASSUME NEW i \in Instances, Probe(i) \/ Crash(i) PROVE IInv'
  <2>1. Stop(i) /\ faults' \in Nat
    BY <1>8 DEF Probe, Crash, Fault, IInv, TypeOK
  <2> QED
    BY <2>1, StopKeepsIInv
<1>9. ASSUME NEW w \in Writers, Reject(w) PROVE IInv'
  BY <1>9, RejectKeepsIInv
<1>10. ASSUME NEW i \in Instances, NEW e \in Emails, NEW p, Login(i, e, p)
       PROVE  IInv'
  BY <1>10, TokensKeepIInv DEF Login, IInv, TypeOK
<1>11. ASSUME NEW e \in Emails, Expire(e) PROVE IInv'
  BY <1>11, TokensKeepIInv DEF Expire, IInv, TypeOK
<1>12. ASSUME NEW r \in Requests, NEW i \in Instances, NEW e \in Emails,
              NEW current \in Strong \cup Weak, NEW new \in Strong \cup Weak,
              ChangePassword(r, i, e, current, new)
       PROVE  IInv'
  BY <1>12, ChangePasswordKeepsIInv
<1>13. CASE UNCHANGED vars
  BY <1>13, TokensKeepIInv DEF vars, IInv, TypeOK
<1> QED
  BY <1>1, <1>2, <1>3, <1>4, <1>5, <1>6, <1>7, <1>8, <1>9, <1>10, <1>11, <1>12,
     <1>13 DEF Next, Boot, Writers

LEMMA SpecIInv == Spec => []IInv
BY InitIInv, NextIInv, PTL DEF Spec

(* Type correctness: no account ever has a weak password, and a save never *)
(* works on an account that is not there.                                  *)
THEOREM TypeCorrect == Spec => []TypeOK
<1>1. IInv => TypeOK
  BY DEF IInv
<1> QED
  BY SpecIInv, <1>1, PTL

(* The flag asks for a new password exactly when the operator chose the    *)
(* present one, but for accounts last written by an overtaken save.        *)
THEOREM FlagBelongsToPassword == Spec => []FlagMatchesPassword
<1>1. IInv => FlagMatchesPassword
  BY DEF IInv
<1> QED
  BY SpecIInv, <1>1, PTL

(* An instance told to reset a password has, once up, ended any lockout.   *)
THEOREM ResetsEndLockouts == Spec => []ResetEndsLockout
<1>1. IInv => ResetEndsLockout
  BY DEF IInv
<1> QED
  BY SpecIInv, <1>1, PTL
=============================================================================
