-------------------------- MODULE MailboxesProofs ---------------------------
(***************************************************************************)
(* For any number of requests, clients and e-mail addresses, any bounds,   *)
(* with or without the unique constraint: type correctness of Mailboxes,   *)
(* what it says of announcements and of tokens that are replaced, that     *)
(* clients who own mailboxes stay bound and tokens are filed where they    *)
(* were granted for, and that a client with two providers or a key with    *)
(* two mailboxes takes two requests that ran at the same time.             *)
(***************************************************************************)
EXTENDS Mailboxes, TLAPS

USE MailboxesAssumption DEF MailboxesAssumption

LEMMA IdleType == Idle \in Request
BY DEF Idle, Request, PC, Grant, NoRow, TokenColumns

(* The rows a request computes are rows.                                   *)
LEMMA SuppliedType ==
  ASSUME NEW r \in Requests, NEW row \in Row, req[r] \in Request
  PROVE  Supplied(r, row) \in Row
BY DEF Supplied, Row, Request, Grant

LEMMA NewRowType ==
  ASSUME NEW r \in Requests, req[r] \in Request, req[r].email # None,
         req[r].client # UnknownClient
  PROVE  NewRow(r) \in Row
BY DEF NewRow, Row, Request, Grant

(* Updating token columns keeps a row a row, and keeps its key.            *)
LEMMA UpdatedType ==
  ASSUME NEW row \in Row, NEW q \in Request, q.entity \in Row
  PROVE  Updated(row, q) \in Row /\ SameKey(Updated(row, q), row)
<1>1. q.dirty \subseteq TokenColumns
  BY DEF Request
<1>2. DOMAIN row = {"email", "prov", "client", "access", "refresh", "expiry"}
  BY DEF Row
<1>3. Updated(row, q) = [email   |-> row.email,
                         prov    |-> row.prov,
                         client  |-> row.client,
                         access  |-> IF "access" \in q.dirty THEN q.entity.access ELSE row.access,
                         refresh |-> IF "refresh" \in q.dirty THEN q.entity.refresh ELSE row.refresh,
                         expiry  |-> IF "expiry" \in q.dirty THEN q.entity.expiry ELSE row.expiry]
  BY <1>1, <1>2 DEF Updated, TokenColumns
<1> QED
  BY <1>3 DEF Row, SameKey

-----------------------------------------------------------------------------
(* What holds of a request q, given the clients table p and n rows.        *)
ReqOK(q, p, n) ==
  /\ q.op = "save" => /\ q.email \in Emails /\ q.prov \in Providers \cup {Blank}
                      /\ q.client \in Clients => p[q.client] # Absent
  /\ q.pc \in {"client", "bind", "insert"} => q.op = "save"
  /\ q.pc = "bind" => q.client \in Clients
  /\ q.pc \in {"reload", "write", "emit"} => q.entity \in Row
  /\ q.pc \in {"reload", "write", "reread", "emit"} => q.id \in 1 .. n

(* A client that owns a row was created.                                   *)
OwnersExist ==
  \A i \in DOMAIN boxes :
    boxes[i].client # NoClient => provider[boxes[i].client] # Absent

IInv == /\ TypeOK
        /\ \A r \in Requests : ReqOK(req[r], provider, Len(boxes))
        /\ OwnersExist

(* Clients are never deleted, rows never removed.                          *)
Grows == /\ provider' \in [Clients -> Providers \cup {Blank, Absent}]
         /\ \A c \in Clients : provider[c] # Absent => provider'[c] # Absent
         /\ boxes' \in Seq(Row)
         /\ Len(boxes) <= Len(boxes')
         /\ \A i \in 1 .. Len(boxes) : boxes'[i].client = boxes[i].client
         /\ \A i \in 1 .. Len(boxes') :
              i > Len(boxes) /\ boxes'[i].client # NoClient
                => provider'[boxes'[i].client] # Absent
         /\ told' \subseteq (Nat \X Row)
         /\ faults' \in Nat
         /\ overlaps' \subseteq SUBSET Requests

(* A step that lets the tables grow keeps the invariant if every request   *)
(* it changes is in order afterwards.                                      *)
LEMMA GrowthKeepsIInv ==
  ASSUME IInv, Grows, req' \in [Requests -> Request],
         \A s \in Requests : \/ req'[s] = req[s]
                             \/ ReqOK(req'[s], provider', Len(boxes'))
  PROVE  IInv'
<1>1. Len(boxes) \in Nat /\ Len(boxes') \in Nat
  BY DEF IInv, TypeOK, Grows
<1>2. req' \in [Requests -> Request]
  OBVIOUS
<1>3. ASSUME NEW s \in Requests
      PROVE  ReqOK(req'[s], provider', Len(boxes'))
  <2> SUFFICES ASSUME req'[s] = req[s]
               PROVE  ReqOK(req[s], provider', Len(boxes'))
    OBVIOUS
  <2>1. req[s] \in Request /\ ReqOK(req[s], provider, Len(boxes))
    BY DEF IInv, TypeOK
  <2>2. req[s].id \in 1 .. Len(boxes) => req[s].id \in 1 .. Len(boxes')
    BY <1>1, <2>1 DEF Grows, Request
  <2> QED
    BY <2>1, <2>2 DEF ReqOK, Grows
<1>4. TypeOK'
  <2>1. \A s \in Requests : req'[s].pc \in {"reload", "write", "reread", "emit"}
                              => req'[s].id \in DOMAIN boxes'
    BY <1>3 DEF ReqOK, Grows
  <2> QED
    BY <1>2, <2>1 DEF TypeOK, Grows
<1>5. OwnersExist'
  <2> SUFFICES ASSUME NEW i \in 1 .. Len(boxes'), boxes'[i].client # NoClient
               PROVE  provider'[boxes'[i].client] # Absent
    BY DEF OwnersExist, Grows
  <2>1. CASE i \in 1 .. Len(boxes)
    <3>1. boxes[i] \in Row /\ i \in DOMAIN boxes
      BY <2>1 DEF IInv, TypeOK
    <3>2. boxes[i].client = boxes'[i].client
      BY <2>1 DEF Grows
    <3>3. boxes[i].client \in Clients
      BY <3>1, <3>2 DEF Row
    <3>4. provider[boxes[i].client] # Absent
      BY <3>1, <3>2 DEF IInv, OwnersExist
    <3> QED
      BY <3>2, <3>3, <3>4 DEF Grows
  <2>2. CASE i \notin 1 .. Len(boxes)
    BY <1>1, <2>2 DEF Grows
  <2> QED
    BY <2>1, <2>2
<1> QED
  BY <1>3, <1>4, <1>5 DEF IInv

(* The form that the steps of one request r have: its record becomes q.    *)
LEMMA StepKeepsIInv ==
  ASSUME IInv, Grows, NEW r \in Requests, NEW q \in Request,
         req' = [req EXCEPT ![r] = q], ReqOK(q, provider', Len(boxes'))
  PROVE  IInv'
<1>1. req \in [Requests -> Request]
  BY DEF IInv, TypeOK
<1>2. \A s \in Requests : req'[s] = IF s = r THEN q ELSE req[s]
  BY <1>1
<1> QED
  BY <1>1, <1>2, GrowthKeepsIInv

(* Leaving the clients and the rows alone is growth.                       *)
LEMMA SameTablesGrow ==
  ASSUME IInv, UNCHANGED <<provider, boxes>>,
         told' \subseteq (Nat \X Row), faults' \in Nat,
         overlaps' \subseteq SUBSET Requests
  PROVE  Grows
BY DEF IInv, TypeOK, Grows

(* What Start adds to the history is pairs of requests.                    *)
LEMMA StartType ==
  ASSUME IInv, NEW r \in Requests, Start(r)
  PROVE  overlaps' \subseteq SUBSET Requests
BY DEF Start, InFlight, IInv, TypeOK

(* A request may always end.                                               *)
LEMMA EndKeepsIInv ==
  ASSUME IInv, Grows, NEW r \in Requests, NEW l \in Over, Goto(r, l)
  PROVE  IInv'
<1>1. req[r] \in Request /\ ReqOK(req[r], provider, Len(boxes))
  BY DEF IInv, TypeOK
<1>2. [req[r] EXCEPT !.pc = l] \in Request
  BY <1>1 DEF Request, PC, Over
<1>3. ReqOK([req[r] EXCEPT !.pc = l], provider', Len(boxes'))
  BY <1>1 DEF ReqOK, Request, Over, Grows
<1>4. req' = [req EXCEPT ![r] = [req[r] EXCEPT !.pc = l]]
  BY DEF Goto
<1> QED
  BY <1>2, <1>3, <1>4, StepKeepsIInv

(* A write after which r goes on as q.                                     *)
LEMMA WrittenKeepsIInv ==
  ASSUME IInv, NEW r \in Requests, NEW q \in Request, Written(r, q),
         faults' \in Nat => Grows, ReqOK(q, provider', Len(boxes'))
  PROVE  IInv'
<1>1. faults' \in Nat
  BY DEF IInv, TypeOK, Written, Fault
<1>2. Grows
  BY <1>1
<1>3. CASE req' = [req EXCEPT ![r] = q]
  BY <1>2, <1>3, StepKeepsIInv
<1>4. CASE Goto(r, "failed")
  BY <1>2, <1>4, EndKeepsIInv DEF Over
<1> QED
  BY <1>3, <1>4 DEF Written

-----------------------------------------------------------------------------
(* One lemma per action.                                                   *)
LEMMA InitIInv == Init => IInv
<1> SUFFICES ASSUME Init PROVE IInv
  OBVIOUS
<1>1. req \in [Requests -> Request]
  BY IdleType DEF Init
<1>2. TypeOK
  <2>1. \A r \in Requests : req[r].pc = "new"
    BY DEF Init, Idle
  <2>2. /\ boxes \in Seq(Row) /\ told \subseteq (Nat \X Row)
        /\ faults \in Nat /\ overlaps \subseteq SUBSET Requests
    BY DEF Init
  <2>3. provider \in [Clients -> Providers \cup {Blank, Absent}]
    BY DEF Init
  <2> QED
    BY <1>1, <2>1, <2>2, <2>3 DEF TypeOK
<1>3. \A r \in Requests : ReqOK(req[r], provider, Len(boxes))
  BY DEF Init, Idle, ReqOK
<1> QED
  BY <1>2, <1>3 DEF IInv, Init, OwnersExist

LEMMA CreateClientKeepsIInv ==
  ASSUME IInv, NEW c \in Clients, CreateClient(c)
  PROVE  IInv'
<1>1. Grows
  BY DEF CreateClient, Grows, IInv, TypeOK
<1>2. req' \in [Requests -> Request] /\ req' = req
  BY DEF CreateClient, IInv, TypeOK
<1> QED
  BY <1>1, <1>2, GrowthKeepsIInv

LEMMA AskKeepsIInv ==
  ASSUME IInv, NEW r \in Requests,
         NEW p \in Asked, NEW g \in Grants, Start(r), Ask(r, p, g),
         UNCHANGED <<provider, boxes, told, faults>>
  PROVE  IInv'
<1>1. PICK e \in Emails, c \in KnownClients \cup {NoClient, UnknownClient} :
        req' = [req EXCEPT ![r] =
                  [Idle EXCEPT !.pc = IF c = NoClient THEN "find" ELSE "client",
                               !.op = "save", !.email = e, !.prov = p,
                               !.client = c, !.grant = g]]
  BY DEF Ask
<1> DEFINE q == [Idle EXCEPT !.pc = IF c = NoClient THEN "find" ELSE "client",
                             !.op = "save", !.email = e, !.prov = p,
                             !.client = c, !.grant = g]
<1>2. q \in Request
  BY IdleType DEF Idle, Request, PC, KnownClients
<1>3. ReqOK(q, provider, Len(boxes))
  BY DEF ReqOK, Idle, KnownClients
<1>4. Grows
  BY StartType, SameTablesGrow DEF IInv, TypeOK
<1>5. ReqOK(q, provider', Len(boxes'))
  BY <1>3
<1> QED
  BY <1>1, <1>2, <1>4, <1>5, StepKeepsIInv

LEMMA StartRefreshKeepsIInv ==
  ASSUME IInv, NEW r \in Requests, StartRefresh(r)
  PROVE  IInv'
<1>1. PICK i \in 1 .. Len(boxes) + 1 :
        req' = [req EXCEPT ![r] = [Idle EXCEPT !.pc = "find", !.op = "refresh",
                                               !.id = i]]
  BY DEF StartRefresh
<1> DEFINE q == [Idle EXCEPT !.pc = "find", !.op = "refresh", !.id = i]
<1>2. i \in Nat
  BY DEF IInv, TypeOK
<1>3. q \in Request
  BY <1>2, IdleType DEF Idle, Request, PC
<1>4. ReqOK(q, provider', Len(boxes'))
  BY DEF ReqOK, Idle
<1>5. Grows
  BY StartType, SameTablesGrow DEF StartRefresh, IInv, TypeOK
<1> QED
  BY <1>1, <1>3, <1>4, <1>5, StepKeepsIInv

LEMMA FindClientKeepsIInv ==
  ASSUME IInv, NEW r \in Requests, FindClient(r)
  PROVE  IInv'
<1> DEFINE c == req[r].client
           p == IF c \in Clients THEN provider[c] ELSE Absent
           q(l) == [req[r] EXCEPT !.pc = l]
<1>1. /\ req[r] \in Request
      /\ ReqOK(req[r], provider, Len(boxes))
      /\ req[r].op = "save"
  BY DEF IInv, TypeOK, ReqOK, FindClient
<1>2. Grows /\ provider' = provider /\ boxes' = boxes
  BY SameTablesGrow DEF FindClient, IInv, TypeOK
<1>3. CASE Goto(r, "find") /\ p \in {Absent, req[r].prov} \ {Blank}
  <2>1. q("find") \in Request
    BY <1>1 DEF Request, PC
  <2>2. ReqOK(q("find"), provider', Len(boxes'))
    BY <1>1, <1>2 DEF ReqOK, Request
  <2> QED
    BY <1>2, <1>3, <2>1, <2>2, StepKeepsIInv DEF Goto
<1>4. CASE Goto(r, "bind") /\ p = Blank
  <2>1. q("bind") \in Request
    BY <1>1 DEF Request, PC
  <2>2. ReqOK(q("bind"), provider', Len(boxes'))
    BY <1>1, <1>2, <1>4 DEF ReqOK, Request
  <2> QED
    BY <1>2, <1>4, <2>1, <2>2, StepKeepsIInv DEF Goto
<1>5. CASE Goto(r, "conflict")
  BY <1>2, <1>5, EndKeepsIInv DEF Over
<1> QED
  BY <1>3, <1>4, <1>5 DEF FindClient

LEMMA BindKeepsIInv ==
  ASSUME IInv, NEW r \in Requests, Bind(r)
  PROVE  IInv'
<1> DEFINE q == [req[r] EXCEPT !.pc = "find"]
<1>1. /\ req[r] \in Request
      /\ ReqOK(req[r], provider, Len(boxes))
      /\ req[r].op = "save" /\ req[r].client \in Clients
      /\ req[r].prov \in Providers \cup {Blank}
  BY DEF IInv, TypeOK, ReqOK, Bind
<1>2. provider' = [provider EXCEPT ![req[r].client] = req[r].prov]
  BY DEF Bind
<1>3. faults' \in Nat => Grows
  BY <1>1, <1>2 DEF Bind, Grows, IInv, TypeOK
<1>4. provider'[req[r].client] = req[r].prov
  BY <1>1, <1>2 DEF IInv, TypeOK
<1>5. q \in Request
  BY <1>1 DEF Request, PC
<1>6. ReqOK(q, provider', Len(boxes'))
  BY <1>1, <1>4 DEF ReqOK, Request
<1>7. Written(r, q)
  BY DEF Bind
<1> QED
  BY <1>3, <1>5, <1>6, <1>7, WrittenKeepsIInv

LEMMA FindMailboxKeepsIInv ==
  ASSUME IInv, NEW r \in Requests, FindMailbox(r)
  PROVE  IInv'
<1>1. /\ req[r] \in Request
      /\ ReqOK(req[r], provider, Len(boxes))
      /\ req[r].op = "save" /\ req[r].pc = "find"
  BY DEF IInv, TypeOK, FindMailbox
<1>2. Grows /\ provider' = provider /\ boxes' = boxes
  BY SameTablesGrow DEF FindMailbox, IInv, TypeOK
<1>3. CASE \E i \in Matching(req[r]) :
             req' = [req EXCEPT ![r].pc = "reload", ![r].id = i,
                                ![r].entity = Supplied(r, boxes[i])]
  <2>1. PICK i \in Matching(req[r]) :
               req' = [req EXCEPT ![r].pc = "reload", ![r].id = i,
                                  ![r].entity = Supplied(r, boxes[i])]
    BY <1>3
  <2>2. i \in 1 .. Len(boxes) /\ i \in Nat /\ boxes[i] \in Row
    BY DEF Matching, IInv, TypeOK
  <2>3. Supplied(r, boxes[i]) \in Row
    BY <1>1, <2>2, SuppliedType
  <2> DEFINE q == [req[r] EXCEPT !.pc = "reload", !.id = i,
                                 !.entity = Supplied(r, boxes[i])]
  <2>4. q \in Request
    BY <1>1, <2>2, <2>3 DEF Request, PC
  <2>5. ReqOK(q, provider', Len(boxes'))
    BY <1>1, <1>2, <2>2, <2>3 DEF ReqOK, Request
  <2>6. req' = [req EXCEPT ![r] = q]
    BY <2>1
  <2> QED
    BY <1>2, <2>4, <2>5, <2>6, StepKeepsIInv
<1>4. CASE Goto(r, "insert")
  <2> DEFINE q == [req[r] EXCEPT !.pc = "insert"]
  <2>1. q \in Request
    BY <1>1 DEF Request, PC
  <2>2. ReqOK(q, provider', Len(boxes'))
    BY <1>1, <1>2 DEF ReqOK, Request
  <2> QED
    BY <1>2, <1>4, <2>1, <2>2, StepKeepsIInv DEF Goto
<1> QED
  BY <1>3, <1>4 DEF FindMailbox

LEMMA FindToRefreshKeepsIInv ==
  ASSUME IInv, NEW r \in Requests, FindToRefresh(r)
  PROVE  IInv'
<1>1. /\ req[r] \in Request
      /\ ReqOK(req[r], provider, Len(boxes))
      /\ req[r].op = "refresh"
  BY DEF IInv, TypeOK, FindToRefresh
<1>2. Grows /\ provider' = provider /\ boxes' = boxes
  BY SameTablesGrow DEF FindToRefresh, IInv, TypeOK
<1>3. CASE req[r].id \in DOMAIN boxes
  <2> DEFINE e == [boxes[req[r].id] EXCEPT !.expiry = r]
             q == [req[r] EXCEPT !.pc = "reload", !.entity = e]
  <2>1. boxes[req[r].id] \in Row /\ req[r].id \in 1 .. Len(boxes)
    BY <1>3 DEF IInv, TypeOK
  <2>2. e \in Row
    BY <2>1 DEF Row
  <2>3. q \in Request
    BY <1>1, <2>2 DEF Request, PC
  <2>4. ReqOK(q, provider', Len(boxes'))
    BY <1>1, <1>2, <2>1, <2>2 DEF ReqOK, Request
  <2>5. req' = [req EXCEPT ![r] = q]
    BY <1>3 DEF FindToRefresh
  <2> QED
    BY <1>2, <2>3, <2>4, <2>5, StepKeepsIInv
<1>4. CASE Goto(r, "failed")
  BY <1>2, <1>4, EndKeepsIInv DEF Over
<1> QED
  BY <1>3, <1>4 DEF FindToRefresh

(* The inserted row is the only one whose client may be new to the table.  *)
LEMMA InsertKeepsIInv ==
  ASSUME IInv, NEW r \in Requests, Insert(r)
  PROVE  IInv'
<1> DEFINE q == [req[r] EXCEPT !.pc = "reread", !.id = Len(boxes) + 1]
<1>1. /\ req[r] \in Request
      /\ ReqOK(req[r], provider, Len(boxes))
      /\ req[r].op = "save" /\ req[r].pc = "insert"
      /\ req[r].email \in Emails
  BY DEF IInv, TypeOK, ReqOK, Insert
<1>2. req[r].client # UnknownClient
  BY DEF Insert, Insertable, NewRow
<1>3. NewRow(r) \in Row /\ NewRow(r).client = req[r].client
  BY <1>1, <1>2, NewRowType DEF NewRow
<1>4. boxes \in Seq(Row) /\ Len(boxes) \in Nat
  BY DEF IInv, TypeOK
<1>5. /\ boxes' \in Seq(Row) /\ Len(boxes') = Len(boxes) + 1
      /\ \A i \in 1 .. Len(boxes) : boxes'[i] = boxes[i]
      /\ boxes'[Len(boxes) + 1] = NewRow(r)
  BY <1>3, <1>4 DEF Insert
<1>6. ASSUME NEW i \in 1 .. Len(boxes'), i > Len(boxes), boxes'[i].client # NoClient
      PROVE  provider[boxes'[i].client] # Absent
  <2>1. i = Len(boxes) + 1
    BY <1>4, <1>5, <1>6
  <2>2. boxes'[i].client = req[r].client /\ req[r].client \in Clients
    BY <1>1, <1>2, <1>3, <1>5, <1>6, <2>1 DEF Request
  <2> QED
    BY <1>1, <1>6, <2>2 DEF ReqOK
<1>7. faults' \in Nat => Grows
  <2>1. \A i \in 1 .. Len(boxes) : boxes'[i].client = boxes[i].client
    BY <1>5
  <2>2. provider' = provider /\ told' = told /\ overlaps' = overlaps
    BY DEF Insert
  <2> QED
    BY <1>4, <1>5, <1>6, <2>1, <2>2 DEF Grows, IInv, TypeOK
<1>8. q \in Request
  <2>1. Len(boxes) + 1 \in Nat
    BY <1>4
  <2> QED
    BY <1>1, <2>1 DEF Request, PC
<1>9. ReqOK(q, provider', Len(boxes'))
  BY <1>1, <1>4, <1>5 DEF ReqOK, Request, Insert
<1>10. Written(r, q)
  BY DEF Insert
<1> QED
  BY <1>7, <1>8, <1>9, <1>10, WrittenKeepsIInv

LEMMA ReloadKeepsIInv ==
  ASSUME IInv, NEW r \in Requests, Reload(r)
  PROVE  IInv'
<1> DEFINE d == {k \in TokenColumns : req[r].entity[k] # boxes[req[r].id][k]}
           q == [req[r] EXCEPT !.pc = "write", !.dirty = d]
<1>1. /\ req[r] \in Request
      /\ ReqOK(req[r], provider, Len(boxes))
      /\ req[r].pc = "reload"
  BY DEF IInv, TypeOK, Reload
<1>2. Grows /\ provider' = provider /\ boxes' = boxes
  BY SameTablesGrow DEF Reload, IInv, TypeOK
<1>3. d \in SUBSET TokenColumns
  OBVIOUS
<1> HIDE DEF d
<1>4. q \in Request
  BY <1>1, <1>3 DEF Request, PC
<1>5. ReqOK(q, provider', Len(boxes'))
  BY <1>1, <1>2 DEF ReqOK, Request
<1>6. req' = [req EXCEPT ![r] = q]
  BY DEF Reload, d
<1> QED
  BY <1>2, <1>4, <1>5, <1>6, StepKeepsIInv

(* The UPDATE changes token columns of one row, never its client.          *)
LEMMA WriteKeepsIInv ==
  ASSUME IInv, NEW r \in Requests, Write(r)
  PROVE  IInv'
<1> DEFINE k == req[r].id
           q == [req[r] EXCEPT !.pc = "reread"]
<1>1. /\ req[r] \in Request
      /\ ReqOK(req[r], provider, Len(boxes))
      /\ req[r].pc = "write"
  BY DEF IInv, TypeOK, Write
<1>2. /\ boxes \in Seq(Row) /\ Len(boxes) \in Nat
      /\ k \in 1 .. Len(boxes) /\ boxes[k] \in Row
      /\ req[r].entity \in Row
  BY <1>1 DEF IInv, TypeOK, ReqOK
<1>3. /\ Updated(boxes[k], req[r]) \in Row
      /\ Updated(boxes[k], req[r]).client = boxes[k].client
  BY <1>1, <1>2, UpdatedType DEF SameKey
<1>4. boxes' = [boxes EXCEPT ![k] = Updated(boxes[k], req[r])]
  BY DEF Write
<1>5. /\ boxes' \in Seq(Row) /\ Len(boxes') = Len(boxes)
      /\ \A i \in 1 .. Len(boxes) : boxes'[i].client = boxes[i].client
  BY <1>2, <1>3, <1>4
<1>6. faults' \in Nat => Grows
  BY <1>2, <1>5 DEF Grows, Write, IInv, TypeOK
<1>7. q \in Request
  BY <1>1 DEF Request, PC
<1>8. ReqOK(q, provider', Len(boxes'))
  BY <1>1, <1>5 DEF ReqOK, Request, Write
<1>9. Written(r, q)
  BY DEF Write
<1> QED
  BY <1>6, <1>7, <1>8, <1>9, WrittenKeepsIInv

LEMMA RereadKeepsIInv ==
  ASSUME IInv, NEW r \in Requests, Reread(r)
  PROVE  IInv'
<1> DEFINE q == [req[r] EXCEPT !.pc = "emit", !.entity = boxes[req[r].id]]
<1>1. /\ req[r] \in Request
      /\ ReqOK(req[r], provider, Len(boxes))
      /\ req[r].pc = "reread"
  BY DEF IInv, TypeOK, Reread
<1>2. Grows /\ provider' = provider /\ boxes' = boxes
  BY SameTablesGrow DEF Reread, IInv, TypeOK
<1>3. boxes[req[r].id] \in Row
  BY <1>1 DEF IInv, TypeOK, ReqOK
<1>4. q \in Request
  BY <1>1, <1>3 DEF Request, PC
<1>5. ReqOK(q, provider', Len(boxes'))
  BY <1>1, <1>2, <1>3 DEF ReqOK, Request
<1>6. req' = [req EXCEPT ![r] = q]
  BY DEF Reread
<1> QED
  BY <1>2, <1>4, <1>5, <1>6, StepKeepsIInv

LEMMA EmitKeepsIInv ==
  ASSUME IInv, NEW r \in Requests, Emit(r)
  PROVE  IInv'
<1>1. /\ req[r] \in Request
      /\ ReqOK(req[r], provider, Len(boxes))
      /\ req[r].pc = "emit"
  BY DEF IInv, TypeOK, Emit
<1>2. <<req[r].id, req[r].entity>> \in Nat \X Row
  BY <1>1 DEF ReqOK, Request
<1>3. told' \subseteq (Nat \X Row)
  BY <1>2 DEF Emit, IInv, TypeOK
<1>4. Grows
  BY <1>3, SameTablesGrow DEF Emit, IInv, TypeOK
<1> QED
  BY <1>4, EndKeepsIInv DEF Emit, Over

LEMMA EndingsKeepIInv ==
  ASSUME IInv, NEW r \in Requests, InsertRejected(r) \/ Fail(r)
  PROVE  IInv'
<1>1. Grows
  BY SameTablesGrow DEF InsertRejected, Fail, Fault, IInv, TypeOK
<1> QED
  BY <1>1, EndKeepsIInv DEF InsertRejected, Fail, Over

-----------------------------------------------------------------------------
LEMMA NextKeepsIInv == IInv /\ [Next]_vars => IInv'
<1> SUFFICES ASSUME IInv, [Next]_vars PROVE IInv'
  OBVIOUS
<1>1. ASSUME NEW c \in Clients, CreateClient(c) PROVE IInv'
  BY <1>1, CreateClientKeepsIInv
<1>2. ASSUME NEW r \in Requests,
             SaveTokensJson(r) \/ Callback(r) \/ StartRefresh(r)
      PROVE  IInv'
  BY <1>2, AskKeepsIInv, StartRefreshKeepsIInv DEF SaveTokensJson, Callback, Redirectable
<1>3. ASSUME NEW r \in Requests, SaveStep(r) PROVE IInv'
  BY <1>3, FindClientKeepsIInv, BindKeepsIInv, FindMailboxKeepsIInv,
     InsertKeepsIInv, EndingsKeepIInv DEF SaveStep
<1>4. ASSUME NEW r \in Requests, CommonStep(r) PROVE IInv'
  BY <1>4, FindToRefreshKeepsIInv, ReloadKeepsIInv, WriteKeepsIInv,
     RereadKeepsIInv, EmitKeepsIInv DEF CommonStep
<1>5. ASSUME NEW r \in Requests, Fail(r) PROVE IInv'
  BY <1>5, EndingsKeepIInv
<1>6. CASE UNCHANGED vars
  <2>1. Grows /\ req' \in [Requests -> Request] /\ req' = req
    BY <1>6 DEF vars, Grows, IInv, TypeOK
  <2> QED
    BY <2>1, GrowthKeepsIInv
<1> QED
  BY <1>1, <1>2, <1>3, <1>4, <1>5, <1>6 DEF Next

(* Whatever requests overlap and wherever they fail, the clients, the rows,*)
(* the requests and the announcements are of their types: a row has no     *)
(* UnknownClient, and a request works on a row that is there.              *)
THEOREM TypeCorrect == Spec => []TypeOK
<1>1. IInv => TypeOK
  BY DEF IInv
<1> QED
  BY <1>1, InitIInv, NextKeepsIInv, PTL DEF Spec

-----------------------------------------------------------------------------
(* Request r has still to announce row i as it is now.                     *)
Announcing(r, i) ==
  req[r].id = i /\ \/ req[r].pc = "reread"
                   \/ req[r].pc = "emit" /\ req[r].entity = boxes[i]

Announced(i) == \/ <<i, boxes[i]>> \in told
                \/ \E r \in Requests : Announcing(r, i)

(* Until a database failure every row was announced as it is, or will be.  *)
AnnounceInv == faults = 0 => \A i \in DOMAIN boxes : Announced(i)

(* What the steps of a request in flight leave to the others, and where    *)
(* they lead it.                                                           *)
LEMMA OthersRest ==
  ASSUME IInv, NEW r \in Requests, SaveStep(r) \/ CommonStep(r) \/ Fail(r)
  PROVE  /\ r \in InFlight /\ req[r] \in Request
         /\ req'[r].pc # "new" /\ SameKey(req'[r], req[r])
         /\ \A s \in Requests : s # r => req'[s] = req[s]
         /\ UNCHANGED overlaps
<1>1. req \in [Requests -> Request] /\ req[r] \in Request
  BY DEF IInv, TypeOK
<1>2. /\ r \in InFlight /\ UNCHANGED overlaps
  BY DEF SaveStep, CommonStep, FindClient, Bind, FindMailbox, Insert, InsertRejected,
         FindToRefresh, Reload, Write, Reread, Emit, Fail, InFlight, Over
<1>3. ASSUME NEW q, q.pc # "new", SameKey(q, req[r]), req' = [req EXCEPT ![r] = q]
      PROVE  /\ req'[r].pc # "new" /\ SameKey(req'[r], req[r])
             /\ \A s \in Requests : s # r => req'[s] = req[s]
  BY <1>1, <1>3
<1>4. ASSUME NEW l \in PC \ {"new"}, Goto(r, l)
      PROVE  /\ req'[r].pc # "new" /\ SameKey(req'[r], req[r])
             /\ \A s \in Requests : s # r => req'[s] = req[s]
  <2> DEFINE q == [req[r] EXCEPT !.pc = l]
  <2>1. q.pc # "new" /\ SameKey(q, req[r])
    BY <1>1 DEF Request, SameKey
  <2>2. req' = [req EXCEPT ![r] = q]
    BY <1>4 DEF Goto
  <2> HIDE DEF q
  <2> QED
    BY <1>3, <2>1, <2>2
<1>5. ASSUME NEW q, q.pc # "new", SameKey(q, req[r]), Written(r, q)
      PROVE  /\ req'[r].pc # "new" /\ SameKey(req'[r], req[r])
             /\ \A s \in Requests : s # r => req'[s] = req[s]
  BY <1>3, <1>4, <1>5 DEF Written, PC
<1>6. ASSUME FindClient(r) \/ InsertRejected(r) \/ Emit(r) \/ Fail(r)
      PROVE  \E l \in PC \ {"new"} : Goto(r, l)
  <2>1. CASE FindClient(r)
    BY <2>1 DEF FindClient, PC
  <2> QED
    BY <1>6, <2>1 DEF InsertRejected, Emit, Fail, PC
<1>7. CASE Bind(r)
  <2>1. [req[r] EXCEPT !.pc = "find"].pc # "new"
        /\ SameKey([req[r] EXCEPT !.pc = "find"], req[r])
    BY <1>1 DEF Request, SameKey
  <2> QED
    BY <1>2, <1>1, <1>5, <1>7, <2>1 DEF Bind
<1>8. CASE FindMailbox(r)
  <2>1. ASSUME NEW i, NEW e
        PROVE  LET q == [req[r] EXCEPT !.pc = "reload", !.id = i, !.entity = e]
               IN  q.pc # "new" /\ SameKey(q, req[r])
    BY <1>1 DEF Request, SameKey
  <2>2. \/ Goto(r, "insert")
        \/ \E i \in Matching(req[r]) :
             req' = [req EXCEPT ![r] = [req[r] EXCEPT !.pc = "reload", !.id = i,
                                          !.entity = Supplied(r, boxes[i])]]
    BY <1>8 DEF FindMailbox
  <2> QED
    BY <1>1, <1>2, <1>3, <1>4, <2>1, <2>2 DEF PC
<1>9. CASE Insert(r)
  <2>1. LET q == [req[r] EXCEPT !.pc = "reread", !.id = Len(boxes) + 1]
        IN  q.pc # "new" /\ SameKey(q, req[r])
    BY <1>1 DEF Request, SameKey
  <2> QED
    BY <1>1, <1>2, <1>5, <1>9, <2>1 DEF Insert
<1>10. CASE FindToRefresh(r)
  <2>1. ASSUME NEW e
        PROVE  LET q == [req[r] EXCEPT !.pc = "reload", !.entity = e]
               IN  q.pc # "new" /\ SameKey(q, req[r])
    BY <1>1 DEF Request, SameKey
  <2>2. \/ Goto(r, "failed")
        \/ req' = [req EXCEPT ![r] = [req[r] EXCEPT !.pc = "reload",
                     !.entity = [boxes[req[r].id] EXCEPT !.expiry = r]]]
    BY <1>10 DEF FindToRefresh
  <2> QED
    BY <1>1, <1>2, <1>3, <1>4, <2>1, <2>2 DEF PC
<1>11. CASE Reload(r)
  <2>1. ASSUME NEW d
        PROVE  LET q == [req[r] EXCEPT !.pc = "write", !.dirty = d]
               IN  q.pc # "new" /\ SameKey(q, req[r])
    BY <1>1 DEF Request, SameKey
  <2> QED
    BY <1>1, <1>2, <1>3, <1>11, <2>1 DEF Reload
<1>12. CASE Write(r)
  <2>1. [req[r] EXCEPT !.pc = "reread"].pc # "new"
        /\ SameKey([req[r] EXCEPT !.pc = "reread"], req[r])
    BY <1>1 DEF Request, SameKey
  <2> QED
    BY <1>1, <1>2, <1>5, <1>12, <2>1 DEF Write
<1>13. CASE Reread(r)
  <2>1. ASSUME NEW e
        PROVE  LET q == [req[r] EXCEPT !.pc = "emit", !.entity = e]
               IN  q.pc # "new" /\ SameKey(q, req[r])
    BY <1>1 DEF Request, SameKey
  <2> QED
    BY <1>1, <1>2, <1>3, <1>13, <2>1 DEF Reread
<1> QED
  BY <1>1, <1>2, <1>4, <1>6, <1>7, <1>8, <1>9, <1>10, <1>11, <1>12, <1>13
     DEF SaveStep, CommonStep

(* A row that is left alone stays announced if a request that was to       *)
(* announce it still is.                                                   *)
LEMMA AnnouncedKept ==
  ASSUME NEW i \in DOMAIN boxes, Announced(i), boxes'[i] = boxes[i], told \subseteq told',
         NEW r \in Requests, \A s \in Requests : s # r => req'[s] = req[s],
         Announcing(r, i) => Announcing(r, i)' \/ <<i, boxes[i]>> \in told'
  PROVE  Announced(i)'
BY DEF Announced, Announcing

LEMMA InitAnnounce == Init => AnnounceInv
BY DEF Init, AnnounceInv

LEMMA StepKeepsAnnounce ==
  ASSUME IInv, AnnounceInv, NEW r \in Requests, SaveStep(r) \/ CommonStep(r) \/ Fail(r)
  PROVE  AnnounceInv'
<1> SUFFICES ASSUME faults' = 0 PROVE \A i \in DOMAIN boxes' : Announced(i)'
  BY DEF AnnounceInv
<1>1. /\ req[r] \in Request /\ ReqOK(req[r], provider, Len(boxes))
      /\ \A s \in Requests : s # r => req'[s] = req[s]
      /\ boxes \in Seq(Row) /\ faults \in Nat
  BY OthersRest DEF IInv, TypeOK
<1>2. ~Fault
  BY <1>1 DEF Fault
<1>3. \A i \in DOMAIN boxes : Announced(i)
  BY <1>1, <1>2 DEF AnnounceInv, SaveStep, CommonStep, FindClient, Bind, FindMailbox,
       Insert, InsertRejected, FindToRefresh, Reload, Write, Reread, Emit, Fail, Written
<1>4. CASE FindClient(r) \/ Bind(r) \/ FindMailbox(r) \/ InsertRejected(r)
           \/ FindToRefresh(r) \/ Reload(r)
  <2>1. /\ UNCHANGED <<boxes, told>>
        /\ req[r].pc \notin {"reread", "emit"}
    BY <1>4 DEF FindClient, Bind, FindMailbox, InsertRejected, FindToRefresh, Reload
  <2>2. \A i \in DOMAIN boxes : ~Announcing(r, i)
    BY <2>1 DEF Announcing
  <2> QED
    BY <1>1, <1>3, <2>1, <2>2, AnnouncedKept
<1>5. CASE Insert(r)
  <2> DEFINE n == Len(boxes) + 1
             q == [req[r] EXCEPT !.pc = "reread", !.id = n]
  <2>1. req' = [req EXCEPT ![r] = q] /\ UNCHANGED told /\ req[r].pc = "insert"
    BY <1>2, <1>5 DEF Insert, Written
  <2>2. /\ DOMAIN boxes' = DOMAIN boxes \cup {n}
        /\ \A i \in DOMAIN boxes : boxes'[i] = boxes[i]
    BY <1>1, <1>5 DEF Insert
  <2>3. q.pc = "reread" /\ q.id = n
    BY <1>1 DEF Request
  <2>4. req'[r] = q
    BY <2>1 DEF IInv, TypeOK
  <2> HIDE DEF n, q
  <2>5. ASSUME NEW i, i = n PROVE Announced(i)'
    BY <2>3, <2>4, <2>5 DEF Announced, Announcing
  <2>6. \A i \in DOMAIN boxes : Announced(i)'
    <3>1. \A i \in DOMAIN boxes : ~Announcing(r, i)
      BY <2>1 DEF Announcing
    <3> QED
      BY <1>1, <1>3, <2>1, <2>2, <3>1, AnnouncedKept
  <2> QED
    BY <2>2, <2>5, <2>6
<1>6. CASE Write(r)
  <2> DEFINE n == req[r].id
             q == [req[r] EXCEPT !.pc = "reread"]
  <2>1. req' = [req EXCEPT ![r] = q] /\ UNCHANGED told /\ req[r].pc = "write"
    BY <1>2, <1>6 DEF Write, Written
  <2>2. /\ DOMAIN boxes' = DOMAIN boxes
        /\ \A i \in DOMAIN boxes : i # n => boxes'[i] = boxes[i]
    BY <1>1, <1>6 DEF Write
  <2>3. q.pc = "reread" /\ q.id = n
    BY <1>1 DEF Request
  <2>4. req'[r] = q
    BY <2>1 DEF IInv, TypeOK
  <2> HIDE DEF n, q
  <2>5. ASSUME NEW i, i = n PROVE Announced(i)'
    BY <2>3, <2>4, <2>5 DEF Announced, Announcing
  <2>6. \A i \in DOMAIN boxes : i # n => Announced(i)'
    <3>1. \A i \in DOMAIN boxes : ~Announcing(r, i)
      BY <2>1 DEF Announcing
    <3> QED
      BY <1>1, <1>3, <2>1, <2>2, <3>1, AnnouncedKept
  <2> QED
    BY <2>2, <2>5, <2>6
<1>7. CASE Reread(r)
  <2> DEFINE q == [req[r] EXCEPT !.pc = "emit", !.entity = boxes[req[r].id]]
  <2>1. req' = [req EXCEPT ![r] = q] /\ UNCHANGED <<boxes, told>> /\ req[r].pc = "reread"
    BY <1>7 DEF Reread
  <2>2. q.pc = "emit" /\ q.id = req[r].id /\ q.entity = boxes[req[r].id]
    BY <1>1 DEF Request
  <2>3. req'[r] = q
    BY <2>1 DEF IInv, TypeOK
  <2> HIDE DEF q
  <2>4. \A i \in DOMAIN boxes : Announcing(r, i) => Announcing(r, i)'
    BY <2>1, <2>2, <2>3 DEF Announcing
  <2> QED
    BY <1>1, <1>3, <2>1, <2>4, AnnouncedKept
<1>8. CASE Emit(r)
  <2>1. /\ told' = told \cup {<<req[r].id, req[r].entity>>} /\ UNCHANGED boxes
        /\ req[r].pc = "emit"
    BY <1>8 DEF Emit
  <2>2. \A i \in DOMAIN boxes : Announcing(r, i) => <<i, boxes[i]>> \in told'
    BY <2>1 DEF Announcing
  <2> QED
    BY <1>1, <1>3, <2>1, <2>2, AnnouncedKept
<1> QED
  BY <1>2, <1>4, <1>5, <1>6, <1>7, <1>8 DEF SaveStep, CommonStep, Fail

LEMMA NextKeepsAnnounce == IInv /\ AnnounceInv /\ [Next]_vars => AnnounceInv'
<1> SUFFICES ASSUME IInv, AnnounceInv, [Next]_vars PROVE AnnounceInv'
  OBVIOUS
<1>1. ASSUME NEW c \in Clients, CreateClient(c) PROVE AnnounceInv'
  BY <1>1 DEF CreateClient, AnnounceInv, Announced, Announcing
<1>2. ASSUME NEW r \in Requests,
             SaveTokensJson(r) \/ Callback(r) \/ StartRefresh(r)
      PROVE  AnnounceInv'
  <2>1. UNCHANGED <<boxes, told, faults>> /\ req[r].pc = "new"
    BY <1>2 DEF SaveTokensJson, Callback, StartRefresh, Start
  <2>2. \A s \in Requests : s # r => req'[s] = req[s]
    BY <1>2 DEF SaveTokensJson, Callback, StartRefresh, Ask, IInv, TypeOK
  <2>3. \A i \in DOMAIN boxes : ~Announcing(r, i)
    BY <2>1 DEF Announcing
  <2> QED
    BY <2>1, <2>2, <2>3, AnnouncedKept DEF AnnounceInv
<1>3. CASE UNCHANGED vars
  BY <1>3 DEF vars, AnnounceInv, Announced, Announcing
<1> QED
  BY <1>1, <1>2, <1>3, StepKeepsAnnounce DEF Next

(* When no request runs and no query failed, some announcement carried the *)
(* final state of every mailbox: a request reads its row again after its   *)
(* write, so that the last of two overlapping writers announces what both  *)
(* of them made of it.                                                     *)
THEOREM LastWordIsTrue == Spec => []FinalStateAnnounced
<1>1. AnnounceInv => FinalStateAnnounced
  BY DEF AnnounceInv, Announced, Announcing, FinalStateAnnounced, InFlight, Over
<1> QED
  BY <1>1, InitIInv, NextKeepsIInv, InitAnnounce, NextKeepsAnnounce, PTL DEF Spec

-----------------------------------------------------------------------------
(* Two requests for client c overlapped and named different providers.     *)
Raced(c) == \E r, s \in Requests : /\ {r, s} \in overlaps
                                   /\ req[r].client = c /\ req[s].client = c
                                   /\ req[r].prov # req[s].prov

Tokens(row) == {row.access, row.refresh} \ {None}

(* A request that waits to bind its client read it unbound: if it is bound *)
(* by now, then by a request that overlapped.                              *)
BindRace(r) ==
  req[r].pc = "bind" =>
    \/ provider[req[r].client] = Blank
    \/ \E s \in Requests : /\ {r, s} \in overlaps
                           /\ req[s].client = req[r].client
                           /\ req[s].prov = provider[req[r].client]

(* A request past the check of its client has the client's provider.       *)
CheckRace(r) ==
  req[r].op = "save" /\ req[r].pc \in {"find", "insert"} /\ req[r].client \in Clients =>
    provider[req[r].client] = req[r].prov \/ Raced(req[r].client)

(* A request that waits to insert found no mailbox of its key: if there is *)
(* one by now, then a request that overlapped asked for it.                *)
InsertRace(r) ==
  req[r].pc = "insert" =>
    \A i \in DOMAIN boxes : SameKey(boxes[i], req[r]) =>
      \E s \in Requests : {r, s} \in overlaps /\ SameKey(req[s], boxes[i])

(* The entity in memory holds tokens for the row it will be saved to.      *)
EntityFiled(r) ==
  req[r].pc \in {"reload", "write"} =>
    \A t \in Tokens(req[r].entity) : req[r].id \in Matching(req[t])

RequestOK(r) == BindRace(r) /\ CheckRace(r) /\ InsertRace(r) /\ EntityFiled(r)

(* overlaps has every two requests in flight, and only started requests;   *)
(* one that is not started asks for no address.                            *)
Overlapping ==
  /\ \A r, s \in InFlight : r # s => {r, s} \in overlaps
  /\ \A e \in overlaps : \A r \in e : req[r].pc # "new"
  /\ \A r \in Requests : req[r].pc = "new" => req[r].email = None

Filed == \A i \in DOMAIN boxes : \A t \in Tokens(boxes[i]) : i \in Matching(req[t])

OneProvider ==
  \A i \in DOMAIN boxes :
    boxes[i].client # NoClient /\ boxes[i].prov # Blank =>
      provider[boxes[i].client] = boxes[i].prov \/ Raced(boxes[i].client)

RaceInv == /\ IInv
           /\ Overlapping
           /\ \A r \in Requests : RequestOK(r)
           /\ Filed
           /\ OneProvider
           /\ OneMailboxUnlessRaced

-----------------------------------------------------------------------------
(* What no step undoes: the keys of rows and of started requests, and the  *)
(* history.                                                                *)
Kept == /\ \A i \in DOMAIN boxes : i \in DOMAIN boxes' /\ SameKey(boxes'[i], boxes[i])
        /\ \A s \in Requests : req[s].pc # "new" =>
             req'[s].pc # "new" /\ SameKey(req'[s], req[s])
        /\ overlaps \subseteq overlaps'

LEMMA PairKept ==
  ASSUME Overlapping, Kept, NEW r \in Requests, NEW s \in Requests, {r, s} \in overlaps
  PROVE  /\ {r, s} \in overlaps'
         /\ SameKey(req'[r], req[r]) /\ SameKey(req'[s], req[s])
<1>1. req[r].pc # "new" /\ req[s].pc # "new"
  BY DEF Overlapping
<1> QED
  BY <1>1 DEF Kept

LEMMA RacedKept ==
  ASSUME Overlapping, Kept, NEW c, Raced(c)
  PROVE  Raced(c)'
<1>1. PICK r \in Requests, s \in Requests :
        /\ {r, s} \in overlaps
        /\ req[r].client = c /\ req[s].client = c /\ req[r].prov # req[s].prov
  BY DEF Raced
<1>2. {r, s} \in overlaps' /\ SameKey(req'[r], req[r]) /\ SameKey(req'[s], req[s])
  BY <1>1, PairKept
<1> QED
  BY <1>1, <1>2 DEF Raced, SameKey

LEMMA MatchingKept ==
  ASSUME IInv, Overlapping, Kept, NEW t \in Requests, NEW i \in Matching(req[t])
  PROVE  i \in Matching(req[t])'
<1>1. i \in DOMAIN boxes /\ boxes[i].email = req[t].email
  BY DEF Matching
<1>2. boxes[i] \in Row
  BY <1>1 DEF IInv, TypeOK
<1>3. req[t].pc # "new"
  BY <1>1, <1>2 DEF Row, Overlapping
<1>4. SameKey(req'[t], req[t]) /\ SameKey(boxes'[i], boxes[i]) /\ i \in DOMAIN boxes'
  BY <1>1, <1>3 DEF Kept
<1> QED
  BY <1>1, <1>4 DEF Matching, SameKey

(* Tokens are named after requests.                                        *)
LEMMA TokensType ==
  ASSUME NEW row \in Row
  PROVE  Tokens(row) \subseteq Requests
BY DEF Tokens, Row

(* What the rows say of the history stays true as long as the step leaves  *)
(* the rows' keys alone; for OneProvider also the clients' providers.      *)
LEMMA OneProviderKept ==
  ASSUME RaceInv, Kept, DOMAIN boxes' = DOMAIN boxes,
         \A i \in DOMAIN boxes : boxes[i].client # NoClient =>
           provider'[boxes[i].client] = provider[boxes[i].client]
  PROVE  OneProvider'
<1> USE DEF RaceInv
<1>0. \A i \in DOMAIN boxes : SameKey(boxes'[i], boxes[i])
  BY DEF Kept
<1>1. ASSUME NEW i \in DOMAIN boxes, boxes'[i].client # NoClient,
             boxes'[i].prov # Blank,
             provider'[boxes'[i].client] # boxes'[i].prov
      PROVE  \E r, s \in Requests : /\ {r, s} \in overlaps'
                                    /\ req'[r].client = boxes'[i].client
                                    /\ req'[s].client = boxes'[i].client
                                    /\ req'[r].prov # req'[s].prov
  <2>1. SameKey(boxes'[i], boxes[i])
    BY <1>0
  <2>2. PICK r \in Requests, s \in Requests :
          /\ {r, s} \in overlaps
          /\ req[r].client = boxes[i].client /\ req[s].client = boxes[i].client
          /\ req[r].prov # req[s].prov
    BY <1>1, <2>1 DEF OneProvider, Raced, SameKey
  <2>3. {r, s} \in overlaps' /\ SameKey(req'[r], req[r]) /\ SameKey(req'[s], req[s])
    BY <2>2, PairKept
  <2> QED
    BY <2>1, <2>2, <2>3 DEF SameKey
<1> QED
  BY <1>1 DEF OneProvider, Raced

LEMMA OldPairsKept ==
  ASSUME RaceInv, Kept, NEW i \in DOMAIN boxes, NEW k \in DOMAIN boxes,
         SameKey(boxes'[i], boxes'[k]), i # k
  PROVE  /\ UniqueConstraint => boxes'[i].client = NoClient
         /\ \E r, s \in Requests : /\ {r, s} \in overlaps'
                                   /\ SameKey(req'[r], boxes'[i])
                                   /\ SameKey(req'[s], boxes'[i])
<1> USE DEF RaceInv
<1>0. \A n \in DOMAIN boxes : SameKey(boxes'[n], boxes[n])
  BY DEF Kept
<1>1. SameKey(boxes'[i], boxes[i]) /\ SameKey(boxes'[k], boxes[k])
  BY <1>0
<1>2. SameKey(boxes[i], boxes[k])
  BY <1>1 DEF SameKey
<1>3. UniqueConstraint => boxes[i].client = NoClient
  BY <1>2 DEF OneMailboxUnlessRaced
<1>4. PICK r \in Requests, s \in Requests :
        {r, s} \in overlaps /\ SameKey(req[r], boxes[i]) /\ SameKey(req[s], boxes[i])
  BY <1>2 DEF OneMailboxUnlessRaced
<1>5. {r, s} \in overlaps' /\ SameKey(req'[r], req[r]) /\ SameKey(req'[s], req[s])
  BY <1>4, PairKept
<1> QED
  BY <1>1, <1>3, <1>4, <1>5 DEF SameKey

LEMMA OneMailboxKept ==
  ASSUME RaceInv, Kept, DOMAIN boxes' = DOMAIN boxes
  PROVE  OneMailboxUnlessRaced'
BY OldPairsKept DEF OneMailboxUnlessRaced

(* ... and the tokens stay filed in rows that it leaves alone.             *)
LEMMA FiledKept ==
  ASSUME RaceInv, Kept, NEW i \in DOMAIN boxes, NEW t \in Tokens(boxes[i])
  PROVE  i \in Matching(req[t])'
<1>1. boxes[i] \in Row
  BY DEF RaceInv, IInv, TypeOK
<1> QED
  BY <1>1, TokensType, MatchingKept DEF RaceInv, Filed

(* A request that the step leaves alone.                                   *)
LEMMA BindRaceKept ==
  ASSUME RaceInv, Kept, NEW r \in Requests, req'[r] = req[r],
         req[r].pc = "bind" => provider'[req[r].client] = provider[req[r].client]
  PROVE  BindRace(r)'
<1> SUFFICES ASSUME req[r].pc = "bind", provider[req[r].client] # Blank
             PROVE  \E s \in Requests : /\ {r, s} \in overlaps'
                                        /\ req'[s].client = req[r].client
                                        /\ req'[s].prov = provider[req[r].client]
  BY DEF BindRace
<1>1. PICK s \in Requests : /\ {r, s} \in overlaps
                            /\ req[s].client = req[r].client
                            /\ req[s].prov = provider[req[r].client]
  BY DEF RaceInv, RequestOK, BindRace
<1>2. {r, s} \in overlaps' /\ SameKey(req'[s], req[s])
  BY <1>1, PairKept DEF RaceInv
<1> QED
  BY <1>1, <1>2 DEF SameKey

LEMMA CheckRaceKept ==
  ASSUME RaceInv, Kept, NEW r \in Requests, req'[r] = req[r],
         req[r].client \in Clients => provider'[req[r].client] = provider[req[r].client]
  PROVE  CheckRace(r)'
BY RacedKept DEF RaceInv, RequestOK, CheckRace

LEMMA OldRowsRaced ==
  ASSUME RaceInv, Kept, NEW r \in Requests, req[r].pc = "insert",
         NEW i \in DOMAIN boxes, SameKey(boxes'[i], req[r])
  PROVE  \E s \in Requests : {r, s} \in overlaps' /\ SameKey(req'[s], boxes'[i])
<1>1. SameKey(boxes'[i], boxes[i])
  BY DEF Kept
<1>2. SameKey(boxes[i], req[r])
  BY <1>1 DEF SameKey
<1>3. PICK s \in Requests : {r, s} \in overlaps /\ SameKey(req[s], boxes[i])
  BY <1>2 DEF RaceInv, RequestOK, InsertRace
<1>4. {r, s} \in overlaps' /\ SameKey(req'[s], req[s])
  BY <1>3, PairKept DEF RaceInv
<1> QED
  BY <1>1, <1>3, <1>4 DEF SameKey

LEMMA InsertRaceKept ==
  ASSUME RaceInv, Kept, NEW r \in Requests, req'[r] = req[r],
         DOMAIN boxes' = DOMAIN boxes
  PROVE  InsertRace(r)'
BY OldRowsRaced DEF InsertRace

LEMMA EntityFiledKept ==
  ASSUME RaceInv, Kept, NEW r \in Requests, req'[r] = req[r]
  PROVE  EntityFiled(r)'
<1> SUFFICES ASSUME req[r].pc \in {"reload", "write"}, NEW t \in Tokens(req[r].entity)
             PROVE  req[r].id \in Matching(req[t])'
  BY DEF EntityFiled
<1>1. req[r].entity \in Row
  BY DEF RaceInv, IInv, ReqOK
<1>2. t \in Requests
  BY <1>1, TokensType
<1>3. req[r].id \in Matching(req[t])
  BY DEF RaceInv, RequestOK, EntityFiled
<1> QED
  BY <1>2, <1>3, MatchingKept DEF RaceInv

(* A step of request r that leaves the tables alone.                       *)
LEMMA QuietKeepsRaceInv ==
  ASSUME RaceInv, IInv', Kept, UNCHANGED <<provider, boxes>>, NEW r \in Requests,
         \A s \in Requests : s # r => req'[s] = req[s],
         Overlapping', RequestOK(r)'
  PROVE  RaceInv'
<1>1. OneProvider' /\ OneMailboxUnlessRaced'
  BY OneProviderKept, OneMailboxKept
<1>2. Filed'
  BY FiledKept DEF Filed
<1>3. ASSUME NEW s \in Requests PROVE RequestOK(s)'
  <2>1. CASE s = r
    BY <2>1
  <2>2. CASE s # r
    <3>1. BindRace(s)' /\ CheckRace(s)' /\ InsertRace(s)' /\ EntityFiled(s)'
      BY <2>2, BindRaceKept, CheckRaceKept, InsertRaceKept, EntityFiledKept
    <3> QED
      BY <3>1 DEF RequestOK
  <2> QED
    BY <2>1, <2>2
<1> QED
  BY <1>1, <1>2, <1>3 DEF RaceInv
-----------------------------------------------------------------------------
(* Starting a request r, and going on with one.                            *)
LEMMA StartOverlaps ==
  ASSUME IInv, Overlapping, NEW r \in Requests, NEW q \in Request, Start(r), q.pc # "new",
         req' = [req EXCEPT ![r] = q], UNCHANGED boxes
  PROVE  Overlapping' /\ Kept
<1> USE DEF Overlapping
<1>1. req \in [Requests -> Request] /\ req[r].pc = "new"
  BY DEF IInv, TypeOK, Start
<1>2. req'[r] = q /\ \A s \in Requests : s # r => req'[s] = req[s]
  BY <1>1
<1>3. overlaps' = overlaps \cup {{r, s} : s \in InFlight}
  BY DEF Start
<1>4. InFlight \subseteq Requests /\ InFlight' \subseteq InFlight \cup {r}
  BY <1>2 DEF InFlight
<1>5. ASSUME NEW x \in InFlight', NEW y \in InFlight', x # y
      PROVE  {x, y} \in overlaps'
  <2>1. CASE x = r
    <3>1. y \in InFlight
      BY <1>4, <1>5, <2>1
    <3> QED
      BY <1>3, <2>1, <3>1
  <2>2. CASE y = r
    <3>1. x \in InFlight /\ {x, y} = {r, x}
      BY <1>4, <1>5, <2>2
    <3> QED
      BY <1>3, <3>1
  <2>3. CASE x # r /\ y # r
    BY <1>3, <1>4, <1>5, <2>3
  <2> QED
    BY <2>1, <2>2, <2>3
<1>6. ASSUME NEW e \in overlaps', NEW x \in e
      PROVE  req'[x].pc # "new"
  <2>1. CASE e \in overlaps
    <3>1. x \in Requests
      BY <2>1 DEF IInv, TypeOK
    <3> QED
      BY <1>2, <2>1, <3>1
  <2>2. ASSUME NEW s \in InFlight, e = {r, s}
        PROVE  req'[x].pc # "new"
    <3>1. s \in Requests /\ req[s].pc # "new"
      BY <2>2 DEF InFlight
    <3> QED
      BY <1>2, <2>2, <3>1
  <2> QED
    BY <1>3, <2>1, <2>2
<1>7. \A s \in Requests : req'[s].pc = "new" => req'[s].email = None
  BY <1>2
<1>8. Kept
  BY <1>1, <1>2, <1>3 DEF Kept, SameKey
<1> QED
  BY <1>5, <1>6, <1>7, <1>8

LEMMA GoOnOverlaps ==
  ASSUME IInv, Overlapping, NEW r \in InFlight, NEW q \in Request, q.pc # "new",
         SameKey(q, req[r]), req' = [req EXCEPT ![r] = q], UNCHANGED overlaps,
         \A i \in DOMAIN boxes : i \in DOMAIN boxes' /\ SameKey(boxes'[i], boxes[i])
  PROVE  /\ Overlapping' /\ Kept
         /\ req'[r] = q /\ \A s \in Requests : s # r => req'[s] = req[s]
<1> USE DEF Overlapping
<1>1. req \in [Requests -> Request] /\ r \in Requests
  BY DEF IInv, TypeOK, InFlight
<1>2. req'[r] = q /\ \A s \in Requests : s # r => req'[s] = req[s]
  BY <1>1
<1>3. InFlight' \subseteq InFlight
  BY <1>1, <1>2 DEF InFlight
<1>4. \A e \in overlaps : \A x \in e : x \in Requests
  BY DEF IInv, TypeOK
<1>5. Overlapping'
  BY <1>1, <1>2, <1>3, <1>4
<1>6. \A s \in Requests : SameKey(req[s], req[s])
  BY DEF SameKey
<1>7. Kept
  BY <1>1, <1>2, <1>6 DEF Kept
<1> QED
  BY <1>2, <1>5, <1>7

(* A request of a place where nothing is asked of it.                      *)
Carefree == PC \ {"bind", "find", "insert", "reload", "write"}

LEMMA CarefreeIsOK ==
  ASSUME NEW r \in Requests, req'[r].pc \in Carefree
  PROVE  RequestOK(r)'
BY DEF Carefree, RequestOK, BindRace, CheckRace, InsertRace, EntityFiled

(* Rows that stay the same keep their keys.                                *)
LEMMA SameRowsSameKeys ==
  ASSUME UNCHANGED boxes
  PROVE  \A i \in DOMAIN boxes : i \in DOMAIN boxes' /\ SameKey(boxes'[i], boxes[i])
BY DEF SameKey

(* A step of request r to a carefree place, the tables unchanged.          *)
LEMMA CarefreeKeepsRaceInv ==
  ASSUME RaceInv, IInv', UNCHANGED <<provider, boxes, overlaps>>, NEW r \in InFlight,
         NEW q \in Request, q.pc \in Carefree \ {"new"}, SameKey(q, req[r]),
         req' = [req EXCEPT ![r] = q]
  PROVE  RaceInv'
<1>1. /\ Overlapping' /\ Kept
      /\ req'[r] = q /\ \A s \in Requests : s # r => req'[s] = req[s]
  BY SameRowsSameKeys, GoOnOverlaps DEF RaceInv
<1>2. r \in Requests
  BY DEF InFlight
<1>3. RequestOK(r)'
  BY <1>1, <1>2, CarefreeIsOK
<1> QED
  BY <1>1, <1>2, <1>3, QuietKeepsRaceInv

-----------------------------------------------------------------------------
(* One lemma per action.                                                   *)
LEMMA InitRaceInv == Init => RaceInv
<1> SUFFICES ASSUME Init PROVE RaceInv
  OBVIOUS
<1>1. \A r \in Requests : req[r].pc = "new" /\ req[r].email = None
  BY DEF Init, Idle
<1>2. InFlight = {} /\ overlaps = {} /\ boxes = <<>>
  BY <1>1 DEF Init, InFlight
<1>3. \A r \in Requests : RequestOK(r)
  BY <1>1 DEF RequestOK, BindRace, CheckRace, InsertRace, EntityFiled
<1>4. Filed /\ OneProvider /\ OneMailboxUnlessRaced
  BY <1>2 DEF Filed, OneProvider, OneMailboxUnlessRaced
<1> QED
  BY <1>1, <1>2, <1>3, <1>4, InitIInv DEF RaceInv, Overlapping

(* A new client has no rows and no requests.                               *)
LEMMA CreateClientKeepsRaceInv ==
  ASSUME RaceInv, NEW c \in Clients, CreateClient(c)
  PROVE  RaceInv'
<1>1. IInv'
  BY CreateClientKeepsIInv DEF RaceInv
<1>2. /\ UNCHANGED <<boxes, req, overlaps>> /\ provider[c] = Absent
      /\ \A d \in Clients : d # c => provider'[d] = provider[d]
  BY DEF CreateClient, RaceInv, IInv, TypeOK
<1>3. Overlapping' /\ Kept
  BY <1>2 DEF RaceInv, Overlapping, InFlight, Kept, SameKey
<1>4. ASSUME NEW r \in Requests
      PROVE  RequestOK(r)'
  <2>1. req[r].op = "save" /\ req[r].client \in Clients => req[r].client # c
    BY <1>2 DEF RaceInv, IInv, ReqOK
  <2>2. req[r].pc = "bind" => req[r].op = "save" /\ req[r].client \in Clients
    BY DEF RaceInv, IInv, ReqOK
  <2>3. BindRace(r)'
    BY <1>2, <1>3, <2>1, <2>2, BindRaceKept
  <2>4. CheckRace(r)'
    <3>1. Raced(req[r].client) => Raced(req[r].client)'
      BY <1>2 DEF Raced
    <3> QED
      BY <1>2, <2>1, <3>1 DEF RaceInv, RequestOK, CheckRace
  <2>5. InsertRace(r)' /\ EntityFiled(r)'
    BY <1>2, <1>3, InsertRaceKept, EntityFiledKept
  <2> QED
    BY <2>3, <2>4, <2>5 DEF RequestOK
<1>5. OneProvider'
  <2>1. ASSUME NEW i \in DOMAIN boxes, boxes[i].client # NoClient
        PROVE  boxes[i].client \in Clients /\ boxes[i].client # c
    <3>1. boxes[i] \in Row
      BY DEF RaceInv, IInv, TypeOK
    <3>2. provider[boxes[i].client] # Absent
      BY <2>1 DEF RaceInv, IInv, OwnersExist
    <3> QED
      BY <1>2, <2>1, <3>1, <3>2 DEF Row
  <2> QED
    BY <1>2, <1>3, <2>1, OneProviderKept
<1>6. OneMailboxUnlessRaced'
  BY <1>2, <1>3, OneMailboxKept
<1>7. Filed'
  BY <1>2, <1>3, FiledKept DEF Filed
<1> QED
  BY <1>1, <1>3, <1>4, <1>5, <1>6, <1>7 DEF RaceInv

LEMMA AskKeepsRaceInv ==
  ASSUME RaceInv, NEW r \in Requests,
         NEW p \in Asked, NEW g \in Grants, Start(r), Ask(r, p, g),
         UNCHANGED <<provider, boxes, told, faults>>
  PROVE  RaceInv'
<1>1. IInv'
  BY AskKeepsIInv DEF RaceInv
<1>2. PICK e \in Emails, c \in KnownClients \cup {NoClient, UnknownClient} :
        req' = [req EXCEPT ![r] =
                  [Idle EXCEPT !.pc = IF c = NoClient THEN "find" ELSE "client",
                               !.op = "save", !.email = e, !.prov = p,
                               !.client = c, !.grant = g]]
  BY DEF Ask
<1> DEFINE q == [Idle EXCEPT !.pc = IF c = NoClient THEN "find" ELSE "client",
                             !.op = "save", !.email = e, !.prov = p,
                             !.client = c, !.grant = g]
<1>3. q \in Request
  BY IdleType DEF Idle, Request, PC, KnownClients
<1>4. q.pc \in {"find", "client"} /\ (q.pc = "find" => q.client \notin Clients)
  BY DEF Idle
<1>5. req' = [req EXCEPT ![r] = q]
  BY <1>2
<1> HIDE DEF q
<1>6. Overlapping' /\ Kept
  BY <1>3, <1>4, <1>5, StartOverlaps DEF RaceInv
<1>7. req'[r] = q /\ \A s \in Requests : s # r => req'[s] = req[s]
  BY <1>5 DEF RaceInv, IInv, TypeOK
<1>8. RequestOK(r)'
  BY <1>4, <1>7 DEF RequestOK, BindRace, CheckRace, InsertRace, EntityFiled
<1> QED
  BY <1>1, <1>6, <1>7, <1>8, QuietKeepsRaceInv

LEMMA StartRefreshKeepsRaceInv ==
  ASSUME RaceInv, NEW r \in Requests, StartRefresh(r)
  PROVE  RaceInv'
<1>1. IInv'
  BY StartRefreshKeepsIInv DEF RaceInv
<1>2. PICK i \in 1 .. Len(boxes) + 1 :
        req' = [req EXCEPT ![r] = [Idle EXCEPT !.pc = "find", !.op = "refresh",
                                               !.id = i]]
  BY DEF StartRefresh
<1> DEFINE q == [Idle EXCEPT !.pc = "find", !.op = "refresh", !.id = i]
<1>3. i \in Nat
  BY DEF RaceInv, IInv, TypeOK
<1>4. q \in Request
  BY <1>3, IdleType DEF Idle, Request, PC
<1>5. q.pc = "find" /\ q.op = "refresh"
  BY DEF Idle
<1>6. req' = [req EXCEPT ![r] = q]
  BY <1>2
<1> HIDE DEF q
<1>7. Start(r) /\ UNCHANGED <<provider, boxes>>
  BY DEF StartRefresh
<1>8. Overlapping' /\ Kept
  BY <1>4, <1>5, <1>6, <1>7, StartOverlaps DEF RaceInv
<1>9. req'[r] = q /\ \A s \in Requests : s # r => req'[s] = req[s]
  BY <1>6 DEF RaceInv, IInv, TypeOK
<1>10. RequestOK(r)'
  BY <1>5, <1>9 DEF RequestOK, BindRace, CheckRace, InsertRace, EntityFiled
<1> QED
  BY <1>1, <1>7, <1>8, <1>9, <1>10, QuietKeepsRaceInv

(* What the actions on a request in flight may take for granted of it.     *)
LEMMA InFlightType ==
  ASSUME RaceInv, NEW r \in Requests, req[r].pc \notin {"new"} \cup Over
  PROVE  /\ r \in InFlight /\ req[r] \in Request
         /\ ReqOK(req[r], provider, Len(boxes)) /\ RequestOK(r)
BY DEF RaceInv, IInv, TypeOK, InFlight

(* Moving on to l leaves the key alone.                                    *)
LEMMA MovedType ==
  ASSUME NEW q \in Request, NEW l \in PC
  PROVE  /\ [q EXCEPT !.pc = l] \in Request
         /\ [q EXCEPT !.pc = l].pc = l
         /\ SameKey([q EXCEPT !.pc = l], q)
         /\ [q EXCEPT !.pc = l].op = q.op
BY DEF Request, SameKey

LEMMA MoveKeepsRaceInv ==
  ASSUME RaceInv, IInv', UNCHANGED <<provider, boxes, overlaps>>, NEW r \in InFlight,
         NEW l \in Carefree \ {"new"}, Goto(r, l)
  PROVE  RaceInv'
<1> DEFINE q == [req[r] EXCEPT !.pc = l]
<1>1. req[r] \in Request
  BY DEF RaceInv, IInv, TypeOK, InFlight
<1>2. q \in Request /\ q.pc = l /\ SameKey(q, req[r])
  BY <1>1, MovedType DEF Carefree
<1>3. req' = [req EXCEPT ![r] = q]
  BY DEF Goto
<1> HIDE DEF q
<1> QED
  BY <1>2, <1>3, CarefreeKeepsRaceInv

(* A step of request r that leaves the tables alone and stays in flight.   *)
LEMMA GoOnKeepsRaceInv ==
  ASSUME RaceInv, IInv', UNCHANGED <<provider, boxes, overlaps>>, NEW r \in InFlight,
         NEW q \in Request, q.pc # "new", SameKey(q, req[r]),
         req' = [req EXCEPT ![r] = q],
         Kept /\ req'[r] = q => RequestOK(r)'
  PROVE  RaceInv'
<1>1. /\ Overlapping' /\ Kept
      /\ req'[r] = q /\ \A s \in Requests : s # r => req'[s] = req[s]
  BY SameRowsSameKeys, GoOnOverlaps DEF RaceInv
<1>2. r \in Requests
  BY DEF InFlight
<1> QED
  BY <1>1, <1>2, QuietKeepsRaceInv

LEMMA FindClientKeepsRaceInv ==
  ASSUME RaceInv, NEW r \in Requests, FindClient(r)
  PROVE  RaceInv'
<1> DEFINE c == req[r].client
           p == IF c \in Clients THEN provider[c] ELSE Absent
           q(l) == [req[r] EXCEPT !.pc = l]
<1>1. /\ r \in InFlight /\ req[r] \in Request /\ req[r].op = "save"
      /\ c \in Clients => provider[c] # Absent
  BY InFlightType DEF FindClient, ReqOK, Over
<1>2. IInv'
  BY FindClientKeepsIInv DEF RaceInv
<1>3. UNCHANGED <<provider, boxes, overlaps>>
  BY DEF FindClient
<1>4. CASE Goto(r, "find") /\ p \in {Absent, req[r].prov} \ {Blank}
  <2>1. q("find") \in Request /\ q("find").pc = "find" /\ SameKey(q("find"), req[r])
    BY <1>1, MovedType DEF PC
  <2>2. c \in Clients => provider[c] = req[r].prov
    BY <1>1, <1>4
  <2>3. req'[r] = q("find") => RequestOK(r)'
    BY <1>3, <2>1, <2>2
       DEF RequestOK, BindRace, CheckRace, InsertRace, EntityFiled, SameKey
  <2> QED
    BY <1>1, <1>2, <1>3, <1>4, <2>1, <2>3, GoOnKeepsRaceInv DEF Goto
<1>5. CASE Goto(r, "bind") /\ p = Blank
  <2>1. q("bind") \in Request /\ q("bind").pc = "bind" /\ SameKey(q("bind"), req[r])
    BY <1>1, MovedType DEF PC
  <2>2. provider[c] = Blank
    BY <1>5
  <2>3. req'[r] = q("bind") => RequestOK(r)'
    BY <1>3, <2>1, <2>2
       DEF RequestOK, BindRace, CheckRace, InsertRace, EntityFiled, SameKey
  <2> QED
    BY <1>1, <1>2, <1>3, <1>5, <2>1, <2>3, GoOnKeepsRaceInv DEF Goto
<1>6. CASE Goto(r, "conflict")
  BY <1>1, <1>2, <1>3, <1>6, MoveKeepsRaceInv DEF Carefree, PC
<1> QED
  BY <1>4, <1>5, <1>6 DEF FindClient

(* The row found matches the request, and holds only filed tokens.         *)
LEMMA FindMailboxKeepsRaceInv ==
  ASSUME RaceInv, NEW r \in Requests, FindMailbox(r)
  PROVE  RaceInv'
<1>1. /\ r \in InFlight /\ req[r] \in Request /\ RequestOK(r)
      /\ req[r].op = "save" /\ req[r].pc = "find"
  BY InFlightType DEF FindMailbox, Over
<1>2. IInv'
  BY FindMailboxKeepsIInv DEF RaceInv
<1>3. UNCHANGED <<provider, boxes, overlaps>>
  BY DEF FindMailbox
<1>4. ASSUME NEW i \in Matching(req[r]),
             req' = [req EXCEPT ![r].pc = "reload", ![r].id = i,
                                ![r].entity = Supplied(r, boxes[i])]
      PROVE  RaceInv'
  <2> DEFINE q == [req[r] EXCEPT !.pc = "reload", !.id = i,
                                 !.entity = Supplied(r, boxes[i])]
  <2>1. i \in DOMAIN boxes /\ i \in Nat /\ boxes[i] \in Row
    BY DEF Matching, RaceInv, IInv, TypeOK
  <2>2. Supplied(r, boxes[i]) \in Row
    BY <1>1, <2>1, SuppliedType
  <2>3. /\ q \in Request /\ q.pc = "reload" /\ q.id = i
        /\ q.entity = Supplied(r, boxes[i]) /\ SameKey(q, req[r])
    BY <1>1, <2>1, <2>2 DEF Request, PC, SameKey
  <2>4. Tokens(Supplied(r, boxes[i])) \subseteq {r} \cup Tokens(boxes[i])
    BY <2>1 DEF Tokens, Supplied, Row
  <2>5. ASSUME Kept, NEW t \in Tokens(Supplied(r, boxes[i]))
        PROVE  i \in Matching(req[t])'
    BY <2>1, <2>4, <2>5, MatchingKept, FiledKept DEF RaceInv
  <2>6. req' = [req EXCEPT ![r] = q]
    BY <1>4
  <2> HIDE DEF q
  <2>7. Kept /\ req'[r] = q => RequestOK(r)'
    BY <2>3, <2>5 DEF RequestOK, BindRace, CheckRace, InsertRace, EntityFiled
  <2> QED
    BY <1>1, <1>2, <1>3, <2>3, <2>6, <2>7, GoOnKeepsRaceInv
<1>5. CASE Matching(req[r]) = {} /\ Goto(r, "insert")
  <2> DEFINE q == [req[r] EXCEPT !.pc = "insert"]
  <2>1. q \in Request /\ q.pc = "insert" /\ SameKey(q, req[r])
    BY <1>1, MovedType DEF PC
  <2>2. \A i \in DOMAIN boxes : ~SameKey(boxes[i], req[r])
    BY <1>5 DEF Matching, SameKey
  <2>3. ASSUME Kept, req'[r] = q
        PROVE  RequestOK(r)'
    <3>1. Raced(req[r].client) => Raced(req[r].client)'
      <4>1. Raced(q.client) => Raced(q.client)'
        BY <2>3, RacedKept DEF RaceInv
      <4> QED
        BY <2>1, <2>3, <4>1 DEF SameKey
    <3>2. CheckRace(r)'
      BY <1>1, <1>3, <2>1, <2>3, <3>1 DEF RequestOK, CheckRace, SameKey
    <3>3. InsertRace(r)'
      BY <1>3, <2>1, <2>2, <2>3 DEF InsertRace, SameKey
    <3> QED
      BY <2>1, <2>3, <3>2, <3>3 DEF RequestOK, BindRace, EntityFiled
  <2> QED
    BY <1>1, <1>2, <1>3, <1>5, <2>1, <2>3, GoOnKeepsRaceInv DEF Goto
<1> QED
  BY <1>4, <1>5 DEF FindMailbox

LEMMA FindToRefreshKeepsRaceInv ==
  ASSUME RaceInv, NEW r \in Requests, FindToRefresh(r)
  PROVE  RaceInv'
<1>1. /\ r \in InFlight /\ req[r] \in Request
  BY InFlightType DEF FindToRefresh, Over
<1>2. IInv'
  BY FindToRefreshKeepsIInv DEF RaceInv
<1>3. UNCHANGED <<provider, boxes, overlaps>>
  BY DEF FindToRefresh
<1>4. CASE req[r].id \in DOMAIN boxes
  <2> DEFINE i == req[r].id
             e == [boxes[i] EXCEPT !.expiry = r]
             q == [req[r] EXCEPT !.pc = "reload", !.entity = e]
  <2>1. boxes[i] \in Row
    BY <1>4 DEF RaceInv, IInv, TypeOK
  <2>2. e \in Row /\ Tokens(e) = Tokens(boxes[i])
    BY <2>1 DEF Row, Tokens
  <2>3. /\ q \in Request /\ q.pc = "reload" /\ q.id = i
        /\ q.entity = e /\ SameKey(q, req[r])
    BY <1>1, <2>2 DEF Request, PC, SameKey
  <2>4. ASSUME Kept, NEW t \in Tokens(e)
        PROVE  i \in Matching(req[t])'
    <3>1. \A k \in DOMAIN boxes : k = i => k \in Matching(req[t])'
      BY <2>2, <2>4, FiledKept
    <3> QED
      BY <1>4, <3>1
  <2>5. req' = [req EXCEPT ![r] = q]
    BY <1>4 DEF FindToRefresh
  <2> HIDE DEF q, e
  <2>6. Kept /\ req'[r] = q => RequestOK(r)'
    BY <2>3, <2>4 DEF RequestOK, BindRace, CheckRace, InsertRace, EntityFiled
  <2> QED
    BY <1>1, <1>2, <1>3, <2>3, <2>5, <2>6, GoOnKeepsRaceInv
<1>5. CASE Goto(r, "failed")
  BY <1>1, <1>2, <1>3, <1>5, MoveKeepsRaceInv DEF Carefree, PC
<1> QED
  BY <1>4, <1>5 DEF FindToRefresh

LEMMA ReloadKeepsRaceInv ==
  ASSUME RaceInv, NEW r \in Requests, Reload(r)
  PROVE  RaceInv'
<1> DEFINE d == {k \in TokenColumns : req[r].entity[k] # boxes[req[r].id][k]}
           q == [req[r] EXCEPT !.pc = "write", !.dirty = d]
<1>1. /\ r \in InFlight /\ req[r] \in Request /\ RequestOK(r)
      /\ req[r].pc = "reload" /\ req[r].entity \in Row
  BY InFlightType DEF Reload, Over, ReqOK
<1>2. IInv'
  BY ReloadKeepsIInv DEF RaceInv
<1>3. d \in SUBSET TokenColumns
  OBVIOUS
<1>4. UNCHANGED <<provider, boxes, overlaps>> /\ req' = [req EXCEPT ![r] = q]
  BY DEF Reload
<1> HIDE DEF d
<1>5. /\ q \in Request /\ q.pc = "write" /\ q.id = req[r].id
      /\ q.entity = req[r].entity /\ SameKey(q, req[r])
  BY <1>1, <1>3 DEF Request, PC, SameKey
<1> HIDE DEF q
<1>6. ASSUME Kept, NEW t \in Tokens(req[r].entity)
      PROVE  q.id \in Matching(req[t])'
  <2>1. t \in Requests /\ q.id \in Matching(req[t])
    BY <1>1, <1>5, TokensType DEF RequestOK, EntityFiled
  <2> QED
    BY <1>6, <2>1, MatchingKept DEF RaceInv
<1>7. Kept /\ req'[r] = q => RequestOK(r)'
  BY <1>5, <1>6 DEF RequestOK, BindRace, CheckRace, InsertRace, EntityFiled
<1> QED
  BY <1>1, <1>2, <1>4, <1>5, <1>7, GoOnKeepsRaceInv

LEMMA RereadKeepsRaceInv ==
  ASSUME RaceInv, NEW r \in Requests, Reread(r)
  PROVE  RaceInv'
<1> DEFINE q == [req[r] EXCEPT !.pc = "emit", !.entity = boxes[req[r].id]]
<1>1. r \in InFlight /\ req[r] \in Request /\ req[r].id \in 1 .. Len(boxes)
  BY InFlightType DEF Reread, Over, ReqOK
<1>2. boxes[req[r].id] \in Row
  BY <1>1 DEF RaceInv, IInv, TypeOK
<1>3. q \in Request /\ q.pc \in Carefree \ {"new"} /\ SameKey(q, req[r])
  BY <1>1, <1>2 DEF Request, PC, SameKey, Carefree
<1> QED
  BY <1>1, <1>3, RereadKeepsIInv, CarefreeKeepsRaceInv DEF Reread, RaceInv

LEMMA EndingsKeepRaceInv ==
  ASSUME RaceInv, NEW r \in Requests, Emit(r) \/ InsertRejected(r) \/ Fail(r)
  PROVE  RaceInv'
<1>1. IInv'
  BY EmitKeepsIInv, EndingsKeepIInv DEF RaceInv
<1>2. /\ UNCHANGED <<provider, boxes, overlaps>>
      /\ Goto(r, "done") \/ Goto(r, "failed")
  BY DEF Emit, InsertRejected, Fail
<1>3. r \in InFlight
  BY InFlightType DEF Emit, InsertRejected, Fail, Over
<1> QED
  BY <1>1, <1>2, <1>3, MoveKeepsRaceInv DEF Carefree, PC

(* A request that writes goes on with q or is lost, with the same key.     *)
LEMMA WrittenOverlaps ==
  ASSUME IInv, Overlapping, NEW r \in InFlight, NEW q \in Request, q.pc # "new",
         SameKey(q, req[r]), Written(r, q), UNCHANGED overlaps,
         \A i \in DOMAIN boxes : i \in DOMAIN boxes' /\ SameKey(boxes'[i], boxes[i])
  PROVE  /\ Overlapping' /\ Kept
         /\ SameKey(req'[r], req[r])
         /\ req'[r] = q \/ req'[r].pc = "failed"
         /\ \A s \in Requests : s # r => req'[s] = req[s]
<1>1. CASE req' = [req EXCEPT ![r] = q]
  BY <1>1, GoOnOverlaps
<1>2. CASE Goto(r, "failed")
  <2> DEFINE p == [req[r] EXCEPT !.pc = "failed"]
  <2>1. req[r] \in Request
    BY DEF RaceInv, IInv, TypeOK, InFlight
  <2>2. p \in Request /\ p.pc = "failed" /\ SameKey(p, req[r])
    BY <2>1, MovedType DEF PC
  <2>3. req' = [req EXCEPT ![r] = p]
    BY <1>2 DEF Goto
  <2> HIDE DEF p
  <2> QED
    BY <2>2, <2>3, GoOnOverlaps
<1> QED
  BY <1>1, <1>2 DEF Written

(* Raced, of the state after the step and a client of the state before.    *)
RacedNext(c) == \E r, s \in Requests : /\ {r, s} \in overlaps'
                                       /\ req'[r].client = c /\ req'[s].client = c
                                       /\ req'[r].prov # req'[s].prov

LEMMA RacedAfter ==
  /\ (\A s \in Requests :
        req'[s].op = "save" /\ req'[s].pc \in {"find", "insert"} /\ req'[s].client \in Clients
          => provider'[req'[s].client] = req'[s].prov \/ RacedNext(req'[s].client))
       => \A s \in Requests : CheckRace(s)'
  /\ (\A i \in DOMAIN boxes' :
        boxes'[i].client # NoClient /\ boxes'[i].prov # Blank
          => provider'[boxes'[i].client] = boxes'[i].prov \/ RacedNext(boxes'[i].client))
       => OneProvider'
BY DEF CheckRace, OneProvider, Raced, RacedNext

LEMMA RacedBefore ==
  ASSUME RaceInv, Kept, NEW c, Raced(c)
  PROVE  RacedNext(c)
BY RacedKept DEF RaceInv, Raced, RacedNext

(* The provider that a bind replaces is the new one too, or a racer's.     *)
LEMMA BindRaces ==
  ASSUME RaceInv, Kept, NEW r \in Requests, req[r].pc = "bind",
         provider[req[r].client] # Blank
  PROVE  provider[req[r].client] = req[r].prov \/ RacedNext(req[r].client)
<1>1. PICK s \in Requests : /\ {r, s} \in overlaps
                            /\ req[s].client = req[r].client
                            /\ req[s].prov = provider[req[r].client]
  BY DEF RaceInv, RequestOK, BindRace
<1>2. CASE req[s].prov # req[r].prov
  <2>1. Raced(req[r].client)
    BY <1>1, <1>2 DEF Raced
  <2> QED
    BY <2>1, RacedBefore
<1> QED
  BY <1>1, <1>2

LEMMA BindKeepsRaceInv ==
  ASSUME RaceInv, NEW r \in Requests, Bind(r)
  PROVE  RaceInv'
<1> DEFINE c == req[r].client
           q == [req[r] EXCEPT !.pc = "find"]
<1>1. /\ r \in InFlight /\ req[r] \in Request /\ req[r].pc = "bind"
      /\ c \in Clients /\ req[r].op = "save" /\ req[r].prov \in Providers \cup {Blank}
  BY InFlightType DEF Bind, ReqOK, Over
<1>2. IInv'
  BY BindKeepsIInv DEF RaceInv
<1>3. /\ UNCHANGED <<boxes, overlaps>>
      /\ provider'[c] = req[r].prov
      /\ \A d \in Clients : d # c => provider'[d] = provider[d]
  BY <1>1 DEF Bind, RaceInv, IInv, TypeOK
<1>4. q \in Request /\ q.pc = "find" /\ SameKey(q, req[r])
  BY <1>1, MovedType DEF PC
<1>5. /\ Overlapping' /\ Kept
      /\ SameKey(req'[r], req[r])
      /\ req'[r] = q \/ req'[r].pc = "failed"
      /\ \A s \in Requests : s # r => req'[s] = req[s]
  BY <1>1, <1>3, <1>4, SameRowsSameKeys, WrittenOverlaps DEF Bind, RaceInv
<1>6. provider[c] # Blank => provider[c] = req[r].prov \/ RacedNext(c)
  BY <1>1, <1>5, BindRaces
<1> HIDE DEF q
<1>7. ASSUME NEW s \in Requests, req'[s].op = "save",
             req'[s].pc \in {"find", "insert"}, req'[s].client \in Clients
      PROVE  provider'[req'[s].client] = req'[s].prov \/ RacedNext(req'[s].client)
  <2>1. CASE s = r
    BY <1>3, <1>5, <2>1 DEF SameKey
  <2>2. CASE s # r
    <3>1. /\ req'[s] = req[s] /\ RequestOK(s)
          /\ ReqOK(req[s], provider, Len(boxes))
      BY <1>5, <2>2 DEF RaceInv, IInv
    <3>2. CASE req[s].client = c
      <4>1. s \in InFlight
        BY <1>7, <3>1 DEF InFlight, Over
      <4>2. {s, r} \in overlaps'
        BY <1>1, <1>3, <2>2, <4>1 DEF RaceInv, Overlapping
      <4>3. req'[r].client = c /\ req'[r].prov = req[r].prov
        BY <1>5 DEF SameKey
      <4>4. req[s].prov # req[r].prov => RacedNext(c)
        BY <3>1, <3>2, <4>2, <4>3 DEF RacedNext
      <4> QED
        BY <1>3, <3>1, <3>2, <4>4
    <3>3. CASE req[s].client # c
      <4>1. provider[req[s].client] = req[s].prov \/ RacedNext(req[s].client)
        BY <1>5, <1>7, <3>1, RacedBefore DEF RequestOK, CheckRace
      <4> QED
        BY <1>3, <1>7, <3>1, <3>3, <4>1
    <3> QED
      BY <3>2, <3>3
  <2> QED
    BY <2>1, <2>2
<1>8. ASSUME NEW s \in Requests
      PROVE  RequestOK(s)'
  <2>0. CheckRace(s)'
    BY <1>7, RacedAfter
  <2> SUFFICES ASSUME s # r PROVE RequestOK(s)'
    BY <1>4, <1>5, <2>0 DEF RequestOK, BindRace, InsertRace, EntityFiled
  <2>1. req'[s] = req[s] /\ RequestOK(s)
        /\ ReqOK(req[s], provider, Len(boxes))
    BY <1>5 DEF RaceInv, IInv
  <2>2. BindRace(s)'
    <3>1. CASE req[s].pc = "bind" /\ req[s].client = c
      <4>1. s \in InFlight
        BY <3>1 DEF InFlight, Over
      <4>2. {s, r} \in overlaps'
        BY <1>1, <1>3, <4>1 DEF RaceInv, Overlapping
      <4> QED
        BY <1>3, <1>5, <2>1, <3>1, <4>2 DEF BindRace, SameKey
    <3>2. CASE req[s].pc = "bind" /\ req[s].client # c
      BY <1>3, <1>5, <2>1, <3>2, BindRaceKept DEF ReqOK
    <3>3. CASE req[s].pc # "bind"
      BY <2>1, <3>3 DEF BindRace
    <3> QED
      BY <3>1, <3>2, <3>3
  <2> QED
    BY <1>3, <1>5, <2>0, <2>1, <2>2, InsertRaceKept, EntityFiledKept DEF RequestOK
<1>9. OneProvider'
  <2>1. ASSUME NEW i \in DOMAIN boxes, boxes[i].client # NoClient, boxes[i].prov # Blank
        PROVE  \/ provider'[boxes[i].client] = boxes[i].prov
               \/ RacedNext(boxes[i].client)
    <3>1. boxes[i].client \in Clients
      <4>1. boxes[i] \in Row
        BY DEF RaceInv, IInv, TypeOK
      <4> QED
        BY <2>1, <4>1 DEF Row
    <3>2. provider[boxes[i].client] = boxes[i].prov \/ RacedNext(boxes[i].client)
      BY <1>5, <2>1, RacedBefore DEF RaceInv, OneProvider
    <3> QED
      BY <1>3, <1>6, <2>1, <3>1, <3>2
  <2> QED
    BY <1>3, <2>1, RacedAfter
<1>10. OneMailboxUnlessRaced'
  BY <1>3, <1>5, OneMailboxKept
<1>11. Filed'
  BY <1>3, <1>5, FiledKept DEF Filed
<1> QED
  BY <1>2, <1>5, <1>8, <1>9, <1>10, <1>11 DEF RaceInv

(* The new row has the key of a request that found the client its own and  *)
(* no mailbox of that key; whatever came between overlapped with it.       *)
LEMMA InsertKeepsRaceInv ==
  ASSUME RaceInv, NEW r \in Requests, Insert(r)
  PROVE  RaceInv'
<1> DEFINE n == Len(boxes) + 1
           q == [req[r] EXCEPT !.pc = "reread", !.id = n]
<1>1. /\ r \in InFlight /\ req[r] \in Request /\ RequestOK(r)
      /\ req[r].pc = "insert" /\ req[r].op = "save" /\ req[r].email \in Emails
  BY InFlightType DEF Insert, ReqOK, Over
<1>2. IInv'
  BY InsertKeepsIInv DEF RaceInv
<1>3. UNCHANGED <<provider, overlaps>> /\ Insertable(NewRow(r))
  BY DEF Insert
<1>4. NewRow(r) \in Row /\ SameKey(NewRow(r), req[r]) /\ Tokens(NewRow(r)) \subseteq {r}
  <2>1. req[r].client # UnknownClient
    BY <1>3 DEF Insertable, NewRow
  <2> QED
    BY <1>1, <2>1, NewRowType DEF NewRow, SameKey, Tokens
<1>5. /\ n \in Nat /\ DOMAIN boxes = 1 .. Len(boxes) /\ DOMAIN boxes' = DOMAIN boxes \cup {n}
      /\ n \notin DOMAIN boxes /\ boxes'[n] = NewRow(r)
      /\ \A i \in DOMAIN boxes : boxes'[i] = boxes[i]
  BY <1>4 DEF Insert, RaceInv, IInv, TypeOK
<1> HIDE DEF n
<1>6. \A i \in DOMAIN boxes : i \in DOMAIN boxes' /\ SameKey(boxes'[i], boxes[i])
  BY <1>5 DEF SameKey
<1>7. q \in Request /\ q.pc = "reread" /\ SameKey(q, req[r])
  BY <1>1, <1>5 DEF Request, PC, SameKey
<1>8. Written(r, q)
  BY DEF Insert, n
<1> HIDE DEF q
<1>9. /\ Overlapping' /\ Kept
      /\ SameKey(req'[r], req[r])
      /\ req'[r] = q \/ req'[r].pc = "failed"
      /\ \A s \in Requests : s # r => req'[s] = req[s]
  BY <1>1, <1>3, <1>6, <1>7, <1>8, WrittenOverlaps DEF RaceInv
<1>10. SameKey(boxes'[n], req'[r])
  BY <1>4, <1>5, <1>9 DEF SameKey
<1>11. ASSUME NEW s \in Requests
       PROVE  RequestOK(s)'
  <2>1. CASE s = r
    BY <1>7, <1>9, <2>1, CarefreeIsOK DEF Carefree, PC
  <2>2. CASE s # r
    <3>1. req'[s] = req[s]
      BY <1>9, <2>2
    <3>2. BindRace(s)' /\ CheckRace(s)' /\ EntityFiled(s)'
      BY <1>3, <1>9, <3>1, BindRaceKept, CheckRaceKept, EntityFiledKept
    <3>3. ASSUME req[s].pc = "insert", NEW i \in DOMAIN boxes', SameKey(boxes'[i], req[s])
          PROVE  \E x \in Requests : {s, x} \in overlaps' /\ SameKey(req'[x], boxes'[i])
      <4>1. CASE i \in DOMAIN boxes
        BY <1>9, <3>3, <4>1, OldRowsRaced
      <4>2. CASE i = n
        <5>1. s \in InFlight
          BY <3>3 DEF InFlight, Over
        <5>2. {s, r} \in overlaps'
          BY <1>1, <1>3, <2>2, <5>1 DEF RaceInv, Overlapping
        <5> QED
          BY <1>10, <4>2, <5>2 DEF SameKey
      <4> QED
        BY <1>5, <4>1, <4>2
    <3>4. InsertRace(s)'
      BY <3>1, <3>3 DEF InsertRace
    <3> QED
      BY <3>2, <3>4 DEF RequestOK
  <2> QED
    BY <2>1, <2>2
<1>12. OneProvider'
  <2>1. ASSUME NEW i \in DOMAIN boxes', boxes'[i].client # NoClient,
               boxes'[i].prov # Blank
        PROVE  \/ provider'[boxes'[i].client] = boxes'[i].prov
               \/ RacedNext(boxes'[i].client)
    <3>1. CASE i \in DOMAIN boxes
      <4>1. \/ provider[boxes[i].client] = boxes[i].prov
            \/ RacedNext(boxes[i].client)
        BY <1>5, <1>9, <2>1, <3>1, RacedBefore DEF RaceInv, OneProvider
      <4> QED
        BY <1>3, <1>5, <3>1, <4>1
    <3>2. CASE i = n
      <4>1. boxes'[i].client = req[r].client /\ boxes'[i].prov = req[r].prov
            /\ req[r].client \in Clients
        BY <1>4, <1>5, <2>1, <3>2 DEF Row, SameKey
      <4>2. provider[req[r].client] = req[r].prov \/ RacedNext(req[r].client)
        BY <1>1, <1>9, <4>1, RacedBefore DEF RequestOK, CheckRace
      <4> QED
        BY <1>3, <4>1, <4>2
    <3> QED
      BY <1>5, <3>1, <3>2
  <2> QED
    BY <2>1, RacedAfter
<1>13. ASSUME NEW i \in DOMAIN boxes, SameKey(boxes'[n], boxes'[i])
       PROVE  /\ UniqueConstraint => boxes'[i].client = NoClient
              /\ \E x, y \in Requests : /\ {x, y} \in overlaps'
                                        /\ SameKey(req'[x], boxes'[i])
                                        /\ SameKey(req'[y], boxes'[i])
  <2>1. SameKey(boxes[i], NewRow(r)) /\ SameKey(boxes'[i], req[r]) /\ boxes'[i] = boxes[i]
    BY <1>4, <1>5, <1>13 DEF SameKey
  <2>2. UniqueConstraint => boxes'[i].client = NoClient
    BY <1>3, <2>1 DEF Insertable, SameKey
  <2>3. PICK s \in Requests : {r, s} \in overlaps' /\ SameKey(req'[s], boxes'[i])
    BY <1>1, <1>9, <2>1, OldRowsRaced
  <2>4. SameKey(req'[r], boxes'[i])
    BY <1>9, <2>1 DEF SameKey
  <2> QED
    BY <2>2, <2>3, <2>4
<1>14. OneMailboxUnlessRaced'
  <2>1. ASSUME NEW i \in DOMAIN boxes', NEW k \in DOMAIN boxes',
               SameKey(boxes'[i], boxes'[k]), i # k
        PROVE  /\ UniqueConstraint => boxes'[i].client = NoClient
               /\ \E x, y \in Requests : /\ {x, y} \in overlaps'
                                         /\ SameKey(req'[x], boxes'[i])
                                         /\ SameKey(req'[y], boxes'[i])
    <3>1. CASE i \in DOMAIN boxes /\ k \in DOMAIN boxes
      BY <1>9, <2>1, <3>1, OldPairsKept
    <3>2. CASE i \in DOMAIN boxes /\ k = n
      <4>1. SameKey(boxes'[n], boxes'[i])
        BY <2>1, <3>2 DEF SameKey
      <4> QED
        BY <1>13, <3>2, <4>1
    <3>3. CASE i = n /\ k \in DOMAIN boxes
      <4>1. /\ UniqueConstraint => boxes'[k].client = NoClient
            /\ \E x, y \in Requests : /\ {x, y} \in overlaps'
                                      /\ SameKey(req'[x], boxes'[k])
                                      /\ SameKey(req'[y], boxes'[k])
        BY <1>13, <2>1, <3>3
      <4> QED
        BY <2>1, <4>1 DEF SameKey
    <3> QED
      BY <1>5, <2>1, <3>1, <3>2, <3>3
  <2> QED
    BY <2>1 DEF OneMailboxUnlessRaced
<1>15. Filed'
  <2>1. ASSUME NEW i \in DOMAIN boxes', NEW t \in Tokens(boxes'[i])
        PROVE  i \in Matching(req[t])'
    <3>1. CASE i \in DOMAIN boxes
      BY <1>5, <1>9, <2>1, <3>1, FiledKept
    <3>2. CASE i = n
      <4>1. t = r
        BY <1>4, <1>5, <2>1, <3>2
      <4> QED
        BY <1>5, <1>10, <3>2, <4>1 DEF Matching, SameKey
    <3> QED
      BY <1>5, <3>1, <3>2
  <2> QED
    BY <2>1 DEF Filed, Tokens
<1> QED
  BY <1>2, <1>9, <1>11, <1>12, <1>14, <1>15 DEF RaceInv

(* The columns written come from the row or from the entity.               *)
LEMMA WriteKeepsRaceInv ==
  ASSUME RaceInv, NEW r \in Requests, Write(r)
  PROVE  RaceInv'
<1> DEFINE k == req[r].id
           q == [req[r] EXCEPT !.pc = "reread"]
<1>1. /\ r \in InFlight /\ req[r] \in Request /\ RequestOK(r)
      /\ req[r].pc = "write" /\ req[r].entity \in Row /\ k \in 1 .. Len(boxes)
  BY InFlightType DEF Write, ReqOK, Over
<1>2. IInv'
  BY WriteKeepsIInv DEF RaceInv
<1>3. boxes \in Seq(Row) /\ k \in DOMAIN boxes /\ boxes[k] \in Row
  BY <1>1 DEF RaceInv, IInv, TypeOK
<1>4. /\ UNCHANGED <<provider, overlaps>> /\ DOMAIN boxes' = DOMAIN boxes
      /\ boxes'[k] = Updated(boxes[k], req[r])
      /\ \A i \in DOMAIN boxes : i # k => boxes'[i] = boxes[i]
  BY <1>3 DEF Write
<1>5. SameKey(boxes'[k], boxes[k])
  BY <1>1, <1>3, <1>4, UpdatedType
<1>6. Tokens(boxes'[k]) \subseteq Tokens(boxes[k]) \cup Tokens(req[r].entity)
  <2>1. DOMAIN boxes[k] = {"email", "prov", "client", "access", "refresh", "expiry"}
    BY <1>3 DEF Row
  <2> QED
    BY <1>4, <2>1 DEF Tokens, Updated
<1>7. \A i \in DOMAIN boxes : i \in DOMAIN boxes' /\ SameKey(boxes'[i], boxes[i])
  BY <1>4, <1>5 DEF SameKey
<1>8. q \in Request /\ q.pc = "reread" /\ SameKey(q, req[r])
  BY <1>1, MovedType DEF PC
<1>9. Written(r, q)
  BY DEF Write
<1> HIDE DEF k, q
<1>10. /\ Overlapping' /\ Kept
       /\ req'[r] = q \/ req'[r].pc = "failed"
       /\ \A s \in Requests : s # r => req'[s] = req[s]
  BY <1>1, <1>4, <1>7, <1>8, <1>9, WrittenOverlaps DEF RaceInv
<1>11. ASSUME NEW s \in Requests
       PROVE  RequestOK(s)'
  <2>1. CASE s = r
    BY <1>8, <1>10, <2>1, CarefreeIsOK DEF Carefree, PC
  <2>2. CASE s # r
    BY <1>4, <1>10, <2>2, BindRaceKept, CheckRaceKept, InsertRaceKept, EntityFiledKept
       DEF RequestOK
  <2> QED
    BY <2>1, <2>2
<1>12. OneProvider' /\ OneMailboxUnlessRaced'
  <2>1. \A i \in DOMAIN boxes : boxes[i].client # NoClient =>
          provider'[boxes[i].client] = provider[boxes[i].client]
    BY <1>4
  <2> QED
    BY <1>4, <1>10, <2>1, OneProviderKept, OneMailboxKept
<1>13. ASSUME NEW i \in DOMAIN boxes', NEW t \in Tokens(boxes'[i])
       PROVE  i \in Matching(req[t])'
  <2>1. CASE t \in Tokens(boxes[i])
    BY <1>4, <1>10, <1>13, <2>1, FiledKept
  <2>2. CASE i = k /\ t \in Tokens(req[r].entity)
    <3>1. t \in Requests /\ k \in Matching(req[t])
      BY <1>1, <2>2, TokensType DEF RequestOK, EntityFiled, k
    <3> QED
      BY <1>10, <2>2, <3>1, MatchingKept DEF RaceInv
  <2> QED
    BY <1>4, <1>6, <1>13, <2>1, <2>2
<1>14. Filed'
  BY <1>13 DEF Filed, Tokens
<1> QED
  BY <1>2, <1>10, <1>11, <1>12, <1>14 DEF RaceInv

-----------------------------------------------------------------------------
LEMMA NextKeepsRaceInv == RaceInv /\ [Next]_vars => RaceInv'
<1> SUFFICES ASSUME RaceInv, [Next]_vars PROVE RaceInv'
  OBVIOUS
<1>1. ASSUME NEW c \in Clients, CreateClient(c) PROVE RaceInv'
  BY <1>1, CreateClientKeepsRaceInv
<1>2. ASSUME NEW r \in Requests,
             SaveTokensJson(r) \/ Callback(r) \/ StartRefresh(r)
      PROVE  RaceInv'
  BY <1>2, AskKeepsRaceInv, StartRefreshKeepsRaceInv
     DEF SaveTokensJson, Callback, Redirectable
<1>3. ASSUME NEW r \in Requests, SaveStep(r) PROVE RaceInv'
  BY <1>3, FindClientKeepsRaceInv, BindKeepsRaceInv, FindMailboxKeepsRaceInv,
     InsertKeepsRaceInv, EndingsKeepRaceInv DEF SaveStep
<1>4. ASSUME NEW r \in Requests, CommonStep(r) PROVE RaceInv'
  BY <1>4, FindToRefreshKeepsRaceInv, ReloadKeepsRaceInv, WriteKeepsRaceInv,
     RereadKeepsRaceInv, EndingsKeepRaceInv DEF CommonStep
<1>5. ASSUME NEW r \in Requests, Fail(r) PROVE RaceInv'
  BY <1>5, EndingsKeepRaceInv
<1>6. CASE UNCHANGED vars
  <2>1. IInv'
    BY <1>6, NextKeepsIInv DEF RaceInv
  <2>2. /\ UNCHANGED <<provider, boxes, overlaps>> /\ req' = req
        /\ Overlapping' /\ Kept
    BY <1>6 DEF vars, RaceInv, Overlapping, InFlight, Kept, SameKey
  <2>3. ASSUME NEW s \in Requests PROVE RequestOK(s)'
    BY <2>2, BindRaceKept, CheckRaceKept, InsertRaceKept, EntityFiledKept DEF RequestOK
  <2>4. OneProvider' /\ OneMailboxUnlessRaced' /\ Filed'
    BY <2>2, OneProviderKept, OneMailboxKept, FiledKept DEF Filed
  <2> QED
    BY <2>1, <2>2, <2>3, <2>4 DEF RaceInv
<1> QED
  BY <1>1, <1>2, <1>3, <1>4, <1>5, <1>6 DEF Next

LEMMA RaceInvHolds == Spec => []RaceInv
<1>1. RaceInv /\ [Next]_vars => RaceInv'
  BY NextKeepsRaceInv
<1> QED
  BY <1>1, InitRaceInv, PTL DEF Spec

(* However many requests run at the same time and fail half way, a stored  *)
(* token came from a request for the address, provider and client of the   *)
(* mailbox it is stored in: no stale entity carries one to another's row.  *)
THEOREM TokensStayFiled == Spec => []TokensMatchMailbox
<1>1. RaceInv => TokensMatchMailbox
  BY DEF RaceInv, Filed, Tokens, TokensMatchMailbox
<1> QED
  BY <1>1, RaceInvHolds, PTL

(* A mailbox at another provider than its client's was stored without a    *)
(* provider, or two requests for the client with different providers ran   *)
(* at the same time: one after the other, the second meets the 409 of      *)
(* saveTokens.                                                             *)
THEOREM OnlyRacesSplitClients == Spec => []SingleProviderUnlessRaced
<1>1. RaceInv => SingleProviderUnlessRaced
  <2> SUFFICES ASSUME RaceInv, NEW i \in DOMAIN boxes,
                      boxes[i].client # NoClient, boxes[i].prov # Blank,
                      provider[boxes[i].client] # boxes[i].prov
               PROVE  \E p, q \in Providers \cup {Blank} :
                        p # q /\ Race(boxes[i].client, p, q)
    BY DEF SingleProviderUnlessRaced
  <2>1. PICK r \in Requests, s \in Requests :
          /\ {r, s} \in overlaps
          /\ req[r].client = boxes[i].client /\ req[s].client = boxes[i].client
          /\ req[r].prov # req[s].prov
    BY DEF RaceInv, OneProvider, Raced
  <2>2. req[r].prov \in Providers \cup {Blank} /\ req[s].prov \in Providers \cup {Blank}
    BY DEF RaceInv, IInv, TypeOK, Request
  <2>3. Race(boxes[i].client, req[r].prov, req[s].prov)
    BY <2>1 DEF Race
  <2> QED
    BY <2>1, <2>2, <2>3
<1> QED
  BY <1>1, RaceInvHolds, PTL

(* Two mailboxes have the same address, provider and client only if two    *)
(* requests for just those ran at the same time; with the unique key in    *)
(* place, only if they belong to no client.                                *)
THEOREM OnlyRacesDuplicate == Spec => []OneMailboxUnlessRaced
<1>1. RaceInv => OneMailboxUnlessRaced
  BY DEF RaceInv
<1> QED
  BY <1>1, RaceInvHolds, PTL

-----------------------------------------------------------------------------
(* Client c is bound, or was unbound again by a request that names no      *)
(* provider and overlapped with one that names one.                        *)
IsBound(c) == provider[c] \in Providers \/ \E q \in Providers : Race(c, Blank, q)

(* A request that names a provider is past the check of its client only if *)
(* the client is bound.                                                    *)
PastCheckBound(r) ==
  req[r].op = "save" /\ req[r].pc \in {"find", "insert"} /\ req[r].client \in Clients
    => req[r].prov = Blank \/ IsBound(req[r].client)

BoundInv == /\ RaceInv
            /\ \A r \in Requests : PastCheckBound(r)
            /\ MailboxClientIsBound

(* IsBound, of the state after the step and a client of the state before.  *)
BoundNext(c) ==
  \/ provider'[c] \in Providers
  \/ \E q \in Providers : \E r, s \in Requests :
       /\ {r, s} \in overlaps'
       /\ req'[r].client = c /\ req'[s].client = c
       /\ req'[r].prov = Blank /\ req'[s].prov = q

(* No step changes whom a started request is for, nor the history.         *)
RequestsKept == /\ overlaps \subseteq overlaps'
                /\ \A s \in Requests : req[s].pc # "new" =>
                     req'[s].client = req[s].client /\ req'[s].prov = req[s].prov

LEMMA BlankRaceKept ==
  ASSUME RaceInv, RequestsKept, NEW c, NEW q \in Providers, Race(c, Blank, q)
  PROVE  BoundNext(c)
<1>1. PICK r \in Requests, s \in Requests :
        /\ {r, s} \in overlaps
        /\ req[r].client = c /\ req[s].client = c
        /\ req[r].prov = Blank /\ req[s].prov = q
  BY DEF Race
<1>2. req[r].pc # "new" /\ req[s].pc # "new"
  BY <1>1 DEF RaceInv, Overlapping
<1> QED
  BY <1>1, <1>2 DEF BoundNext, RequestsKept

(* The step keeps c bound if it leaves its provider alone.                 *)
LEMMA BoundStays ==
  ASSUME RaceInv, RequestsKept, NEW c, IsBound(c), provider'[c] = provider[c]
  PROVE  BoundNext(c)
BY BlankRaceKept DEF IsBound, BoundNext

LEMMA StepKeepsRequests ==
  ASSUME RaceInv, NEW r \in Requests, SaveStep(r) \/ CommonStep(r) \/ Fail(r)
  PROVE  /\ RequestsKept
         /\ req'[r].client = req[r].client /\ req'[r].prov = req[r].prov
BY OthersRest DEF RaceInv, RequestsKept, SameKey

(* A client that was bound stays so: a bind without a provider was decided *)
(* before the client was bound, by a request that overlapped.              *)
LEMMA BindKeepsBound ==
  ASSUME RaceInv, NEW r \in Requests, Bind(r), NEW c \in Clients, IsBound(c)
  PROVE  BoundNext(c)
<1>1. /\ req[r] \in Request /\ req[r].client \in Clients /\ req[r].pc = "bind"
      /\ req[r].prov \in Providers \cup {Blank}
  BY InFlightType DEF Bind, ReqOK, Over, Request
<1>2. /\ provider'[req[r].client] = req[r].prov
      /\ \A d \in Clients : d # req[r].client => provider'[d] = provider[d]
  BY <1>1 DEF Bind, RaceInv, IInv, TypeOK
<1>3. RequestsKept
  BY StepKeepsRequests DEF SaveStep
<1>4. CASE c # req[r].client
  BY <1>2, <1>3, <1>4, BoundStays
<1>5. CASE req[r].prov \in Providers /\ c = req[r].client
  BY <1>2, <1>5 DEF BoundNext
<1>6. CASE req[r].prov = Blank /\ c = req[r].client /\ provider[c] \in Providers
  <2>1. PICK s \in Requests : /\ {r, s} \in overlaps
                              /\ req[s].client = req[r].client
                              /\ req[s].prov = provider[req[r].client]
    BY <1>1, <1>6 DEF RaceInv, RequestOK, BindRace
  <2>2. Race(c, Blank, provider[c])
    BY <1>6, <2>1 DEF Race
  <2> QED
    BY <1>3, <1>6, <2>2, BlankRaceKept
<1>7. CASE provider[c] \notin Providers
  BY <1>3, <1>7, BlankRaceKept DEF IsBound
<1> QED
  BY <1>1, <1>4, <1>5, <1>6, <1>7

(* After FindClient or Bind, and before the insert.                        *)
LEMMA CheckBinds ==
  ASSUME BoundInv, NEW r \in Requests, SaveStep(r) \/ CommonStep(r) \/ Fail(r),
         \A c \in Clients : IsBound(c) => BoundNext(c),
         req'[r].op = "save", req'[r].pc \in {"find", "insert"},
         req'[r].client \in Clients, req'[r].prov # Blank
  PROVE  BoundNext(req'[r].client)
<1>1. /\ req \in [Requests -> Request] /\ req[r] \in Request
      /\ ReqOK(req[r], provider, Len(boxes))
  BY DEF BoundInv, RaceInv, IInv, TypeOK
<1>2. req[r].client = req'[r].client /\ req[r].prov = req'[r].prov
  BY StepKeepsRequests DEF BoundInv
<1>3. CASE FindClient(r)
  <2>1. provider[req[r].client] = req[r].prov /\ UNCHANGED provider
    BY <1>1, <1>2, <1>3 DEF FindClient, Goto, Request, ReqOK
  <2>2. req[r].prov \in Providers
    BY <1>1, <1>2 DEF Request
  <2> QED
    BY <1>2, <2>1, <2>2 DEF BoundNext
<1>4. CASE Bind(r)
  <2>1. provider'[req[r].client] = req[r].prov /\ req[r].prov \in Providers
    BY <1>1, <1>2, <1>4 DEF Bind, BoundInv, RaceInv, IInv, TypeOK, Request
  <2> QED
    BY <1>2, <2>1 DEF BoundNext
<1>5. CASE FindMailbox(r)
  <2>1. req[r].pc = "find" /\ req[r].op = "save"
    BY <1>5 DEF FindMailbox
  <2> QED
    BY <1>2, <2>1 DEF BoundInv, PastCheckBound
<1>6. CASE ~(FindClient(r) \/ Bind(r) \/ FindMailbox(r))
  <2>1. CASE Insert(r)
    <3> DEFINE q == [req[r] EXCEPT !.pc = "reread", !.id = Len(boxes) + 1]
    <3>1. q.pc = "reread" /\ [req[r] EXCEPT !.pc = "failed"].pc = "failed"
      BY <1>1 DEF Request
    <3>2. Written(r, q)
      BY <2>1 DEF Insert
    <3> HIDE DEF q
    <3> QED
      BY <1>1, <3>1, <3>2 DEF Written, Goto
  <2>2. CASE Write(r)
    BY <1>1, <2>2 DEF Write, Written, Goto, Request
  <2>3. CASE FindToRefresh(r)
    BY <1>1, <2>3 DEF FindToRefresh, Goto, Request
  <2>4. CASE Reload(r) \/ Reread(r)
    BY <1>1, <2>4 DEF Reload, Reread, Request
  <2>5. CASE InsertRejected(r) \/ Emit(r) \/ Fail(r)
    BY <1>1, <2>5 DEF InsertRejected, Emit, Fail, Goto, Request
  <2> QED
    BY <1>6, <2>1, <2>2, <2>3, <2>4, <2>5 DEF SaveStep, CommonStep
<1> QED
  BY <1>3, <1>4, <1>5, <1>6

(* A mailbox is new in an insert only, and keeps its client and provider.  *)
LEMMA RowsKept ==
  ASSUME RaceInv, NEW r \in Requests, SaveStep(r) \/ CommonStep(r) \/ Fail(r),
         NEW i \in DOMAIN boxes'
  PROVE  \/ /\ i \in DOMAIN boxes
            /\ boxes'[i].client = boxes[i].client /\ boxes'[i].prov = boxes[i].prov
         \/ /\ Insert(r) /\ UNCHANGED provider
            /\ boxes'[i].client = req[r].client /\ boxes'[i].prov = req[r].prov
<1>1. boxes \in Seq(Row) /\ req[r] \in Request
  BY DEF RaceInv, IInv, TypeOK
<1>2. CASE Insert(r)
  <2>1. boxes' = Append(boxes, NewRow(r)) /\ UNCHANGED provider
    BY <1>2 DEF Insert
  <2>2. NewRow(r).client = req[r].client /\ NewRow(r).prov = req[r].prov
    BY DEF NewRow
  <2> HIDE DEF NewRow
  <2>3. CASE i \in 1 .. Len(boxes)
    BY <1>1, <2>1, <2>3
  <2>4. CASE i = Len(boxes) + 1
    BY <1>1, <1>2, <2>1, <2>2, <2>4
  <2> QED
    BY <1>1, <2>1, <2>3, <2>4
<1>3. CASE Write(r)
  <2>1. /\ DOMAIN boxes' = DOMAIN boxes /\ req[r].id \in DOMAIN boxes
        /\ \A k \in DOMAIN boxes : k # req[r].id => boxes'[k] = boxes[k]
        /\ boxes'[req[r].id] = Updated(boxes[req[r].id], req[r])
    BY <1>1, <1>3, InFlightType DEF Write, ReqOK, Over
  <2>2. SameKey(Updated(boxes[req[r].id], req[r]), boxes[req[r].id])
    BY <1>1, <1>3, <2>1, InFlightType, UpdatedType DEF Write, ReqOK, Over
  <2> QED
    BY <2>1, <2>2 DEF SameKey
<1>4. CASE ~Insert(r) /\ ~Write(r)
  BY <1>4 DEF SaveStep, CommonStep, FindClient, Bind, FindMailbox, InsertRejected,
       FindToRefresh, Reload, Reread, Emit, Fail
<1> QED
  BY <1>2, <1>3, <1>4

(* The parts of BoundInv, of the state after the step.                     *)
LEMMA BoundAfter ==
  /\ (\A s \in Requests :
        req'[s].op = "save" /\ req'[s].pc \in {"find", "insert"} /\ req'[s].client \in Clients
          => req'[s].prov = Blank \/ BoundNext(req'[s].client))
       => \A s \in Requests : PastCheckBound(s)'
  /\ (\A i \in DOMAIN boxes' :
        boxes'[i].client # NoClient /\ boxes'[i].prov # Blank
          => BoundNext(boxes'[i].client))
       => MailboxClientIsBound'
BY DEF PastCheckBound, MailboxClientIsBound, IsBound, BoundNext, Race

LEMMA StepKeepsBoundInv ==
  ASSUME BoundInv, NEW r \in Requests, SaveStep(r) \/ CommonStep(r) \/ Fail(r)
  PROVE  BoundInv'
<1>1. RaceInv' /\ RaceInv
  BY NextKeepsRaceInv DEF BoundInv, Next
<1>2. RequestsKept
  BY StepKeepsRequests DEF BoundInv
<1>3. ASSUME NEW c \in Clients, IsBound(c)
      PROVE  BoundNext(c)
  <2>1. CASE Bind(r)
    BY <1>1, <1>3, <2>1, BindKeepsBound
  <2>2. CASE ~Bind(r)
    <3>1. UNCHANGED provider
      BY <2>2 DEF SaveStep, CommonStep, FindClient, FindMailbox, Insert, InsertRejected,
           FindToRefresh, Reload, Write, Reread, Emit, Fail
    <3> QED
      BY <1>1, <1>2, <1>3, <3>1, BoundStays
  <2> QED
    BY <2>1, <2>2
<1>4. ASSUME NEW s \in Requests, req'[s].op = "save", req'[s].pc \in {"find", "insert"},
             req'[s].client \in Clients, req'[s].prov # Blank
      PROVE  BoundNext(req'[s].client)
  <2>1. CASE s = r
    BY <1>3, <1>4, <2>1, CheckBinds
  <2>2. CASE s # r
    <3>1. req'[s] = req[s]
      BY <1>1, <2>2, OthersRest DEF RaceInv
    <3>2. IsBound(req[s].client)
      BY <1>4, <3>1 DEF BoundInv, PastCheckBound
    <3> QED
      BY <1>3, <1>4, <3>1, <3>2
  <2> QED
    BY <2>1, <2>2
<1>5. ASSUME NEW i \in DOMAIN boxes', boxes'[i].client # NoClient, boxes'[i].prov # Blank
      PROVE  BoundNext(boxes'[i].client)
  <2>1. boxes'[i].client \in Clients
    <3>1. boxes'[i] \in Row
      BY <1>1, <1>5 DEF RaceInv, IInv, TypeOK
    <3> QED
      BY <1>5, <3>1 DEF Row
  <2>2. CASE i \in DOMAIN boxes /\ boxes'[i].client = boxes[i].client
             /\ boxes'[i].prov = boxes[i].prov
    BY <1>3, <1>5, <2>1, <2>2 DEF BoundInv, MailboxClientIsBound, IsBound
  <2>3. CASE /\ Insert(r)
             /\ boxes'[i].client = req[r].client /\ boxes'[i].prov = req[r].prov
    <3>1. req[r].pc = "insert" /\ req[r].op = "save"
      BY <1>1, <2>3, InFlightType DEF Insert, ReqOK, Over
    <3> QED
      BY <1>3, <1>5, <2>1, <2>3, <3>1 DEF BoundInv, PastCheckBound
  <2> QED
    BY <1>1, <1>5, <2>2, <2>3, RowsKept
<1> QED
  BY <1>1, <1>4, <1>5, BoundAfter DEF BoundInv

(* A request that starts is not past the check of its client.              *)
LEMMA StartedRequest ==
  ASSUME IInv, NEW r \in Requests, SaveTokensJson(r) \/ Callback(r) \/ StartRefresh(r)
  PROVE  \E q \in Request :
           /\ req' = [req EXCEPT ![r] = q]
           /\ q.op = "save" /\ q.pc \in {"find", "insert"} => q.client \notin Clients
<1>1. CASE StartRefresh(r)
  <2>1. PICK i \in 1 .. Len(boxes) + 1 :
          req' = [req EXCEPT ![r] = [Idle EXCEPT !.pc = "find", !.op = "refresh",
                                                 !.id = i]]
    BY <1>1 DEF StartRefresh
  <2>2. i \in Nat
    BY DEF IInv, TypeOK
  <2> DEFINE q == [Idle EXCEPT !.pc = "find", !.op = "refresh", !.id = i]
  <2>3. q \in Request /\ q.op = "refresh"
    BY <2>2, IdleType DEF Idle, Request, PC
  <2> HIDE DEF q
  <2> QED
    BY <2>1, <2>3 DEF q
<1>2. CASE SaveTokensJson(r) \/ Callback(r)
  <2>1. PICK p \in Asked, g \in Grants : Ask(r, p, g)
    BY <1>2 DEF SaveTokensJson, Callback, Redirectable
  <2>2. PICK e \in Emails, c \in KnownClients \cup {NoClient, UnknownClient} :
          req' = [req EXCEPT ![r] =
                    [Idle EXCEPT !.pc = IF c = NoClient THEN "find" ELSE "client",
                                 !.op = "save", !.email = e, !.prov = p,
                                 !.client = c, !.grant = g]]
    BY <2>1 DEF Ask
  <2> DEFINE q == [Idle EXCEPT !.pc = IF c = NoClient THEN "find" ELSE "client",
                               !.op = "save", !.email = e, !.prov = p,
                               !.client = c, !.grant = g]
  <2>3. q \in Request /\ (q.pc \in {"find", "insert"} => q.client \notin Clients)
    BY IdleType DEF Idle, Request, PC, KnownClients
  <2> HIDE DEF q
  <2> QED
    BY <2>2, <2>3 DEF q
<1> QED
  BY <1>1, <1>2

(* A client that has a mailbox at some provider is bound: every request    *)
(* that names a provider binds its client before it inserts, and only one  *)
(* that names none, and read the client before another bound it, can       *)
(* unbind it.                                                              *)
THEOREM ClientsStayBound == Spec => []MailboxClientIsBound
<1>1. Init => BoundInv
  <2>1. ASSUME Init PROVE BoundInv
    <3>1. RaceInv
      BY <2>1, InitRaceInv
    <3>2. \A r \in Requests : PastCheckBound(r)
      BY <2>1 DEF Init, Idle, PastCheckBound
    <3>3. MailboxClientIsBound
      BY <2>1 DEF Init, MailboxClientIsBound
    <3> QED
      BY <3>1, <3>2, <3>3 DEF BoundInv
  <2> QED
    BY <2>1
<1>2. BoundInv /\ [Next]_vars => BoundInv'
  <2> SUFFICES ASSUME BoundInv, [Next]_vars PROVE BoundInv'
    OBVIOUS
  <2>1. RaceInv /\ RaceInv'
    BY NextKeepsRaceInv DEF BoundInv
  <2>2. ASSUME NEW r \in Requests, SaveStep(r) \/ CommonStep(r) \/ Fail(r)
        PROVE  BoundInv'
    BY <2>2, StepKeepsBoundInv
  <2>3. ASSUME NEW r \in Requests,
               SaveTokensJson(r) \/ Callback(r) \/ StartRefresh(r)
        PROVE  BoundInv'
    <3>1. /\ UNCHANGED <<provider, boxes>> /\ req[r].pc = "new"
          /\ overlaps \subseteq overlaps'
      BY <2>3 DEF SaveTokensJson, Callback, StartRefresh, Start
    <3>2. PICK q \in Request :
            /\ req' = [req EXCEPT ![r] = q]
            /\ q.op = "save" /\ q.pc \in {"find", "insert"} => q.client \notin Clients
      BY <2>1, <2>3, StartedRequest DEF RaceInv
    <3>8. req'[r] = q /\ \A s \in Requests : s # r => req'[s] = req[s]
      BY <2>1, <3>2 DEF RaceInv, IInv, TypeOK
    <3>3. RequestsKept
      BY <3>1, <3>8 DEF RequestsKept
    <3>4. \A c : IsBound(c) => BoundNext(c)
      BY <2>1, <3>1, <3>3, BoundStays
    <3>5. \A s \in Requests :
            req'[s].op = "save" /\ req'[s].pc \in {"find", "insert"} /\ req'[s].client \in Clients
              => req'[s].prov = Blank \/ BoundNext(req'[s].client)
      BY <3>2, <3>8, <3>4 DEF BoundInv, PastCheckBound
    <3>6. \A i \in DOMAIN boxes' :
            boxes'[i].client # NoClient /\ boxes'[i].prov # Blank
              => BoundNext(boxes'[i].client)
      BY <3>1, <3>4 DEF BoundInv, MailboxClientIsBound, IsBound
    <3> QED
      BY <2>1, <3>5, <3>6, BoundAfter DEF BoundInv
  <2>4. ASSUME NEW d \in Clients, CreateClient(d)
        PROVE  BoundInv'
    <3>1. /\ UNCHANGED <<boxes, req, overlaps>>
          /\ \A c \in Clients : provider'[c] = provider[c] \/ provider[c] = Absent
      BY <2>1, <2>4 DEF CreateClient, RaceInv, IInv, TypeOK
    <3>2. RequestsKept
      BY <3>1 DEF RequestsKept
    <3>3. \A c \in Clients : IsBound(c) => BoundNext(c)
      BY <2>1, <3>1, <3>2, BoundStays, BlankRaceKept DEF IsBound
    <3>4. \A s \in Requests :
            req'[s].op = "save" /\ req'[s].pc \in {"find", "insert"} /\ req'[s].client \in Clients
              => req'[s].prov = Blank \/ BoundNext(req'[s].client)
      BY <3>1, <3>3 DEF BoundInv, PastCheckBound
    <3>5. \A i \in DOMAIN boxes' :
            boxes'[i].client # NoClient /\ boxes'[i].prov # Blank
              => BoundNext(boxes'[i].client)
      <4>1. \A i \in DOMAIN boxes : boxes[i] \in Row
        BY <2>1 DEF RaceInv, IInv, TypeOK
      <4>2. \A i \in DOMAIN boxes :
              boxes[i].client # NoClient => boxes[i].client \in Clients
        BY <4>1 DEF Row
      <4>3. \A i \in DOMAIN boxes :
              boxes[i].client # NoClient /\ boxes[i].prov # Blank
                => IsBound(boxes[i].client)
        BY DEF BoundInv, MailboxClientIsBound, IsBound
      <4> QED
        BY <3>1, <3>3, <4>2, <4>3
    <3> QED
      BY <2>1, <3>4, <3>5, BoundAfter DEF BoundInv
  <2>5. CASE UNCHANGED vars
    <3>1. UNCHANGED <<provider, boxes, req, overlaps>>
      BY <2>5 DEF vars
    <3>2. RequestsKept
      BY <3>1 DEF RequestsKept
    <3>3. \A c : IsBound(c) => BoundNext(c)
      BY <2>1, <3>1, <3>2, BoundStays
    <3>4. \A s \in Requests :
            req'[s].op = "save" /\ req'[s].pc \in {"find", "insert"} /\ req'[s].client \in Clients
              => req'[s].prov = Blank \/ BoundNext(req'[s].client)
      BY <3>1, <3>3 DEF BoundInv, PastCheckBound
    <3>5. \A i \in DOMAIN boxes' :
            boxes'[i].client # NoClient /\ boxes'[i].prov # Blank
              => BoundNext(boxes'[i].client)
      BY <3>1, <3>3 DEF BoundInv, MailboxClientIsBound, IsBound
    <3> QED
      BY <2>1, <3>4, <3>5, BoundAfter DEF BoundInv
  <2> QED
    BY <2>2, <2>3, <2>4, <2>5 DEF Next
<1>3. BoundInv => MailboxClientIsBound
  BY DEF BoundInv
<1> QED
  BY <1>1, <1>2, <1>3, PTL DEF Spec

-----------------------------------------------------------------------------
(* The entity of r has its own token in column k: it was given one.        *)
Own(r, k) == req[r].op = "save" /\ req[r].entity[k] = r

(* Any other token in the entity of r is the row's, and is not written, or *)
(* another request has written the column since.                           *)
Held(r) ==
  \A k \in {"access", "refresh"} :
    /\ req[r].pc = "reload" => \/ Own(r, k)
                               \/ req[r].entity[k] = boxes[req[r].id][k]
                               \/ Overtaken(r, req[r].id, k)
    /\ req[r].pc = "write" /\ k \in req[r].dirty
         => Own(r, k) \/ Overtaken(r, req[r].id, k)

HeldInv == /\ IInv
           /\ Overlapping
           /\ \A r \in Requests : Held(r)

(* A request stays overtaken: the id and the dirty columns of the one that *)
(* overtook it are not touched after its write.                            *)
LEMMA OvertakenKept ==
  ASSUME HeldInv, NEW r \in Requests, SaveStep(r) \/ CommonStep(r) \/ Fail(r),
         NEW x \in Requests, NEW i, NEW k, Overtaken(x, i, k)
  PROVE  Overtaken(x, i, k)'
<1>1. PICK s \in Requests : /\ {x, s} \in overlaps
                            /\ req[s].id = i /\ k \in req[s].dirty
                            /\ req[s].pc \in {"reread", "emit"} \cup Over
  BY DEF Overtaken
<1>2. /\ r \in InFlight /\ req[r] \in Request /\ UNCHANGED overlaps
      /\ \A y \in Requests : y # r => req'[y] = req[y]
  BY OthersRest DEF HeldInv
<1>3. CASE s # r
  BY <1>1, <1>2, <1>3 DEF Overtaken
<1>4. CASE s = r
  <2>1. req[r].pc \in {"reread", "emit"}
    BY <1>1, <1>2, <1>4 DEF InFlight
  <2>2. Reread(r) \/ Emit(r) \/ Fail(r)
    BY <2>1 DEF SaveStep, CommonStep, FindClient, Bind, FindMailbox, Insert,
         InsertRejected, FindToRefresh, Reload, Write
  <2>3. \/ Goto(r, "done") \/ Goto(r, "failed")
        \/ req' = [req EXCEPT ![r] = [req[r] EXCEPT !.pc = "emit",
                                                    !.entity = boxes[req[r].id]]]
    BY <2>2 DEF Reread, Emit, Fail
  <2>4. req \in [Requests -> Request]
    BY DEF HeldInv, IInv, TypeOK
  <2>5. \E l, e : req' = [req EXCEPT ![r] = [req[r] EXCEPT !.pc = l, !.entity = e]]
                  /\ l \in {"emit", "done", "failed"}
    <3>1. \A l : [req[r] EXCEPT !.pc = l] = [req[r] EXCEPT !.pc = l, !.entity = req[r].entity]
      BY <1>2 DEF Request
    <3>2. CASE Goto(r, "done") \/ Goto(r, "failed")
      BY <3>1, <3>2 DEF Goto
    <3> QED
      BY <2>3, <3>2
  <2>6. PICK l, e : req' = [req EXCEPT ![r] = [req[r] EXCEPT !.pc = l, !.entity = e]]
                    /\ l \in {"emit", "done", "failed"}
    BY <2>5
  <2>7. /\ req'[r].id = req[r].id /\ req'[r].dirty = req[r].dirty
        /\ req'[r].pc \in {"emit", "done", "failed"}
    BY <1>2, <2>4, <2>6 DEF Request
  <2> QED
    BY <1>1, <1>2, <1>4, <2>7 DEF Overtaken, Over
<1> QED
  BY <1>3, <1>4

LEMMA OverlapsKept ==
  ASSUME HeldInv, NEW r \in Requests, SaveStep(r) \/ CommonStep(r) \/ Fail(r)
  PROVE  Overlapping'
<1>1. /\ r \in InFlight /\ req'[r].pc # "new" /\ UNCHANGED overlaps
      /\ \A y \in Requests : y # r => req'[y] = req[y]
  BY OthersRest DEF HeldInv
<1>2. InFlight' \subseteq InFlight
  BY <1>1 DEF InFlight
<1>3. \A e \in overlaps : \A x \in e : x \in Requests
  BY DEF HeldInv, IInv, TypeOK
<1> QED
  BY <1>1, <1>2, <1>3 DEF HeldInv, Overlapping

(* What a write leaves behind: the row with the dirty columns replaced, a  *)
(* request past its write, and all other rows.                             *)
LEMMA WriteEffect ==
  ASSUME IInv, NEW r \in Requests, Write(r)
  PROVE  /\ req'[r].id = req[r].id /\ req'[r].dirty = req[r].dirty
         /\ req'[r].pc \in {"reread", "failed"}
         /\ req[r].id \in DOMAIN boxes /\ DOMAIN boxes' = DOMAIN boxes
         /\ \A i \in DOMAIN boxes : i # req[r].id => boxes'[i] = boxes[i]
         /\ \A k \in TokenColumns :
              boxes'[req[r].id][k] = IF k \in req[r].dirty THEN req[r].entity[k]
                                     ELSE boxes[req[r].id][k]
<1>1. /\ req \in [Requests -> Request] /\ req[r] \in Request
      /\ req[r].id \in DOMAIN boxes /\ boxes \in Seq(Row)
  BY DEF IInv, TypeOK, Write
<1>2. \E l \in {"reread", "failed"} : req' = [req EXCEPT ![r] = [req[r] EXCEPT !.pc = l]]
  BY DEF Write, Written, Goto
<1>3. /\ req'[r].id = req[r].id /\ req'[r].dirty = req[r].dirty
      /\ req'[r].pc \in {"reread", "failed"}
  BY <1>1, <1>2 DEF Request
<1>4. boxes[req[r].id] \in Row
  BY <1>1
<1>5. TokenColumns \subseteq DOMAIN boxes[req[r].id]
  BY <1>4 DEF Row, TokenColumns
<1>6. boxes' = [boxes EXCEPT ![req[r].id] = Updated(boxes[req[r].id], req[r])]
  BY DEF Write
<1> QED
  BY <1>1, <1>3, <1>5, <1>6 DEF Updated

(* While x is about to write row i, a step of another request leaves the   *)
(* column k of the row alone or overtakes x.                               *)
LEMMA ColumnKept ==
  ASSUME HeldInv, NEW r \in Requests, SaveStep(r) \/ CommonStep(r) \/ Fail(r),
         NEW x \in InFlight, x # r, NEW i \in DOMAIN boxes, NEW k \in TokenColumns
  PROVE  boxes'[i][k] = boxes[i][k] \/ Overtaken(x, i, k)'
<1>1. CASE Write(r)
  <2>1. CASE i = req[r].id /\ k \in req[r].dirty
    <3>1. x \in Requests /\ r \in InFlight /\ UNCHANGED overlaps
      BY OthersRest DEF InFlight, HeldInv
    <3>2. {x, r} \in overlaps
      BY <3>1 DEF HeldInv, Overlapping
    <3>3. req'[r].id = i /\ k \in req'[r].dirty /\ req'[r].pc \in {"reread", "failed"}
      BY <1>1, <2>1, WriteEffect DEF HeldInv
    <3> QED
      BY <3>1, <3>2, <3>3 DEF Overtaken, Over
  <2>2. CASE ~(i = req[r].id /\ k \in req[r].dirty)
    BY <1>1, <2>2, WriteEffect DEF HeldInv
  <2> QED
    BY <2>1, <2>2
<1>2. CASE Insert(r)
  BY <1>2 DEF Insert, HeldInv, IInv, TypeOK
<1>3. CASE ~Write(r) /\ ~Insert(r)
  BY <1>3 DEF SaveStep, CommonStep, FindClient, Bind, FindMailbox, InsertRejected,
       FindToRefresh, Reload, Reread, Emit, Fail
<1> QED
  BY <1>1, <1>2, <1>3

(* A request that the step leaves alone, and the one that takes it.        *)
LEMMA OthersHeld ==
  ASSUME HeldInv, NEW r \in Requests, SaveStep(r) \/ CommonStep(r) \/ Fail(r),
         NEW x \in Requests, x # r
  PROVE  Held(x)'
<1>1. req'[x] = req[x] /\ Held(x) /\ ReqOK(req[x], provider, Len(boxes))
  BY OthersRest DEF HeldInv, IInv
<1> SUFFICES ASSUME NEW k \in {"access", "refresh"}, req[x].pc \in {"reload", "write"}
             PROVE  /\ req[x].pc = "reload" =>
                         \/ Own(x, k)
                         \/ req[x].entity[k] = boxes'[req[x].id][k]
                         \/ Overtaken(x, req[x].id, k)'
                    /\ req[x].pc = "write" /\ k \in req[x].dirty
                         => Own(x, k) \/ Overtaken(x, req[x].id, k)'
  BY <1>1 DEF Held, Own, Overtaken
<1> DEFINE i == req[x].id
<1>2. x \in InFlight /\ i \in DOMAIN boxes /\ k \in TokenColumns
  BY <1>1 DEF InFlight, Over, ReqOK, HeldInv, IInv, TypeOK, TokenColumns
<1>3. \A n : n = i => (Overtaken(x, n, k) => Overtaken(x, n, k)')
  BY OvertakenKept
<1>4. \A n : n = i => boxes'[n][k] = boxes[n][k] \/ Overtaken(x, n, k)'
  BY <1>2, ColumnKept
<1> QED
  BY <1>1, <1>3, <1>4 DEF Held, Overtaken

LEMMA OwnHeld ==
  ASSUME HeldInv, NEW r \in Requests, SaveStep(r) \/ CommonStep(r) \/ Fail(r)
  PROVE  Held(r)'
<1>1. /\ req \in [Requests -> Request] /\ req[r] \in Request
      /\ boxes \in Seq(Row)
  BY DEF HeldInv, IInv, TypeOK
<1>2. CASE FindMailbox(r)
  <2>1. CASE Goto(r, "insert")
    BY <1>1, <2>1 DEF Goto, Held, Request
  <2>2. ASSUME NEW i \in Matching(req[r]),
               req' = [req EXCEPT ![r].pc = "reload", ![r].id = i,
                                  ![r].entity = Supplied(r, boxes[i])]
        PROVE  Held(r)'
    <3> DEFINE e == Supplied(r, boxes[i])
    <3>1. i \in DOMAIN boxes /\ boxes[i] \in Row
      BY <1>1 DEF Matching
    <3>2. e.access = r /\ e.refresh \in {r, boxes[i].refresh}
      BY <3>1 DEF Supplied, Row
    <3> HIDE DEF e
    <3>3. /\ req'[r].pc = "reload" /\ req'[r].op = "save"
          /\ req'[r].id = i /\ req'[r].entity = e
      BY <1>1, <1>2, <2>2 DEF Request, e, FindMailbox
    <3>4. UNCHANGED boxes
      BY <1>2 DEF FindMailbox
    <3> QED
      BY <3>2, <3>3, <3>4 DEF Held, Own
  <2> QED
    BY <1>2, <2>1, <2>2 DEF FindMailbox
<1>3. CASE FindToRefresh(r)
  <2>1. CASE Goto(r, "failed")
    BY <1>1, <2>1 DEF Goto, Held, Request
  <2>2. CASE /\ req[r].id \in DOMAIN boxes
             /\ req' = [req EXCEPT ![r].pc = "reload",
                          ![r].entity = [boxes[req[r].id] EXCEPT !.expiry = r]]
    <3> DEFINE e == [boxes[req[r].id] EXCEPT !.expiry = r]
    <3>1. boxes[req[r].id] \in Row
      BY <1>1, <2>2
    <3>2. e.access = boxes[req[r].id].access /\ e.refresh = boxes[req[r].id].refresh
      BY <3>1 DEF Row
    <3> HIDE DEF e
    <3>3. req'[r].pc = "reload" /\ req'[r].id = req[r].id /\ req'[r].entity = e
      BY <1>1, <2>2 DEF Request, e
    <3>4. UNCHANGED boxes
      BY <1>3 DEF FindToRefresh
    <3> QED
      BY <3>2, <3>3, <3>4 DEF Held
  <2> QED
    BY <1>3, <2>1, <2>2 DEF FindToRefresh
<1>4. CASE Reload(r)
  <2> DEFINE d == {k \in TokenColumns : req[r].entity[k] # boxes[req[r].id][k]}
  <2>1. /\ req'[r].pc = "write" /\ req'[r].op = req[r].op /\ req'[r].id = req[r].id
        /\ req'[r].entity = req[r].entity /\ req'[r].dirty = d
    BY <1>1, <1>4 DEF Reload, Request
  <2>2. ASSUME NEW k \in {"access", "refresh"}, k \in d
        PROVE  Own(r, k) \/ Overtaken(r, req[r].id, k)'
    <3>1. Own(r, k) \/ Overtaken(r, req[r].id, k)
      BY <1>4, <2>2 DEF HeldInv, Held, Reload
    <3>2. \A n : n = req[r].id => (Overtaken(r, n, k) => Overtaken(r, n, k)')
      BY OvertakenKept
    <3> HIDE DEF d
    <3> QED
      BY <2>1, <3>1, <3>2 DEF Overtaken
  <2> HIDE DEF d
  <2> QED
    BY <2>1, <2>2 DEF Held, Own, Overtaken
<1>5. CASE FindClient(r) \/ Bind(r) \/ Insert(r) \/ InsertRejected(r)
           \/ Write(r) \/ Reread(r) \/ Emit(r) \/ Fail(r)
  <2>1. req'[r].pc \notin {"reload", "write"}
    <3>1. CASE FindClient(r) \/ InsertRejected(r) \/ Emit(r) \/ Fail(r)
      <4>1. \E l \in {"find", "bind", "conflict", "failed", "done"} : Goto(r, l)
        <5>1. CASE FindClient(r)
          BY <5>1 DEF FindClient
        <5> QED
          BY <3>1, <5>1 DEF InsertRejected, Emit, Fail
      <4> QED
        BY <1>1, <4>1 DEF Goto, Request
    <3>2. CASE Bind(r)
      BY <1>1, <3>2 DEF Bind, Written, Goto, Request
    <3>3. CASE Insert(r)
      <4> DEFINE q == [req[r] EXCEPT !.pc = "reread", !.id = Len(boxes) + 1]
      <4>1. q.pc = "reread" /\ [req[r] EXCEPT !.pc = "failed"].pc = "failed"
        BY <1>1 DEF Request
      <4>2. Written(r, q)
        BY <3>3 DEF Insert
      <4> HIDE DEF q
      <4> QED
        BY <1>1, <4>1, <4>2 DEF Written, Goto
    <3>4. CASE Write(r)
      BY <3>4, WriteEffect DEF HeldInv
    <3>5. CASE Reread(r)
      BY <1>1, <3>5 DEF Reread, Request
    <3> QED
      BY <1>5, <3>1, <3>2, <3>3, <3>4, <3>5
  <2> QED
    BY <2>1 DEF Held
<1> QED
  BY <1>2, <1>3, <1>4, <1>5 DEF SaveStep, CommonStep

(* A request that starts holds nothing, and overtakes nobody.              *)
LEMMA StartKeepsHeld ==
  ASSUME HeldInv, NEW r \in Requests, SaveTokensJson(r) \/ Callback(r) \/ StartRefresh(r)
  PROVE  HeldInv'
<1>1. IInv' /\ Start(r) /\ UNCHANGED boxes
  BY NextKeepsIInv DEF HeldInv, Next, SaveTokensJson, Callback, StartRefresh
<1>2. PICK q \in Request : req' = [req EXCEPT ![r] = q] /\ q.pc \in {"find", "client"}
  <2>1. CASE StartRefresh(r)
    <3>1. PICK i \in 1 .. Len(boxes) + 1 :
            req' = [req EXCEPT ![r] = [Idle EXCEPT !.pc = "find", !.op = "refresh",
                                                   !.id = i]]
      BY <2>1 DEF StartRefresh
    <3>2. i \in Nat
      BY DEF HeldInv, IInv, TypeOK
    <3> DEFINE q == [Idle EXCEPT !.pc = "find", !.op = "refresh", !.id = i]
    <3>3. q \in Request /\ q.pc = "find"
      BY <3>2, IdleType DEF Idle, Request, PC
    <3> HIDE DEF q
    <3> QED
      BY <3>1, <3>3 DEF q
  <2>2. CASE SaveTokensJson(r) \/ Callback(r)
    <3>1. PICK p \in Asked, g \in Grants : Ask(r, p, g)
      BY <2>2 DEF SaveTokensJson, Callback, Redirectable
    <3>2. PICK e \in Emails, c \in KnownClients \cup {NoClient, UnknownClient} :
            req' = [req EXCEPT ![r] =
                      [Idle EXCEPT !.pc = IF c = NoClient THEN "find" ELSE "client",
                                   !.op = "save", !.email = e, !.prov = p,
                                   !.client = c, !.grant = g]]
      BY <3>1 DEF Ask
    <3> DEFINE q == [Idle EXCEPT !.pc = IF c = NoClient THEN "find" ELSE "client",
                                 !.op = "save", !.email = e, !.prov = p,
                                 !.client = c, !.grant = g]
    <3>3. q \in Request /\ q.pc \in {"find", "client"}
      BY IdleType DEF Idle, Request, PC, KnownClients
    <3> HIDE DEF q
    <3> QED
      BY <3>2, <3>3 DEF q
  <2> QED
    BY <2>1, <2>2
<1>3. Overlapping'
  BY <1>1, <1>2, StartOverlaps DEF HeldInv
<1>4. /\ req[r].pc = "new" /\ overlaps \subseteq overlaps' /\ req'[r] = q
      /\ \A s \in Requests : s # r => req'[s] = req[s]
  BY <1>1, <1>2 DEF Start, HeldInv, IInv, TypeOK
<1>5. \A x \in Requests : \A i, k : Overtaken(x, i, k) => Overtaken(x, i, k)'
  BY <1>4 DEF Overtaken, Over
<1>6. ASSUME NEW x \in Requests PROVE Held(x)'
  <2>1. CASE x = r
    BY <1>2, <1>4, <2>1 DEF Held
  <2>2. CASE x # r
    <3>1. req'[x] = req[x] /\ Held(x)
      BY <1>4, <2>2 DEF HeldInv
    <3>2. \A n, k : n = req[x].id => (Overtaken(x, n, k) => Overtaken(x, n, k)')
      BY <1>5
    <3> QED
      BY <1>1, <3>1, <3>2 DEF Held, Own, Overtaken
  <2> QED
    BY <2>1, <2>2
<1> QED
  BY <1>1, <1>3, <1>6 DEF HeldInv

LEMMA NextKeepsHeld == HeldInv /\ [Next]_vars => HeldInv'
<1> SUFFICES ASSUME HeldInv, [Next]_vars PROVE HeldInv'
  OBVIOUS
<1>1. IInv'
  BY NextKeepsIInv DEF HeldInv
<1>2. CASE (\E c \in Clients : CreateClient(c)) \/ UNCHANGED vars
  <2>1. UNCHANGED <<boxes, req, overlaps>>
    BY <1>2 DEF CreateClient, vars
  <2> QED
    BY <1>1, <2>1 DEF HeldInv, Overlapping, InFlight, Held, Own, Overtaken
<1>3. ASSUME NEW r \in Requests, SaveStep(r) \/ CommonStep(r) \/ Fail(r)
      PROVE  HeldInv'
  <2>1. \A x \in Requests : Held(x)'
    BY <1>3, OthersHeld, OwnHeld
  <2> QED
    BY <1>1, <1>3, <2>1, OverlapsKept DEF HeldInv
<1> QED
  BY <1>2, <1>3, StartKeepsHeld DEF Next

LEMMA HeldInvHolds == Spec => []HeldInv
<1>1. Init => HeldInv
  <2>1. ASSUME Init PROVE HeldInv
    <3>1. \A r \in Requests : req[r].pc = "new" /\ req[r].email = None
      BY <2>1 DEF Init, Idle
    <3>2. InFlight = {} /\ overlaps = {}
      BY <2>1, <3>1 DEF Init, InFlight
    <3> QED
      BY <2>1, <3>1, <3>2, InitIInv DEF HeldInv, Held, Overlapping
  <2> QED
    BY <2>1
<1> QED
  BY <1>1, NextKeepsHeld, PTL DEF Spec

(* A row changes only by the write of a request for it.                    *)
LEMMA OnlyWritesChange ==
  ASSUME HeldInv, [Next]_vars, NEW i \in DOMAIN boxes, boxes'[i] # boxes[i]
  PROVE  \E r \in Requests : Write(r) /\ req[r].id = i
<1>1. ~UNCHANGED boxes
  OBVIOUS
<1>2. PICK r \in Requests : Insert(r) \/ Write(r)
  BY <1>1 DEF Next, vars, CreateClient, SaveTokensJson, Callback, StartRefresh, SaveStep,
       CommonStep, FindClient, Bind, FindMailbox, InsertRejected, FindToRefresh, Reload,
       Reread, Emit, Fail
<1>3. ASSUME Insert(r) PROVE boxes'[i] = boxes[i]
  BY <1>3 DEF Insert, HeldInv, IInv, TypeOK
<1> QED
  BY <1>2, <1>3, WriteEffect DEF HeldInv

(* The write of a request changes a stored token to one of its own, unless *)
(* it was overtaken.                                                       *)
LEMMA WritesOwn ==
  ASSUME HeldInv, NEW r \in Requests, Write(r), NEW i \in DOMAIN boxes,
         NEW k \in {"access", "refresh"}, boxes'[i][k] # boxes[i][k]
  PROVE  (req[r].op = "save" /\ boxes'[i][k] = r) \/ Overtaken(r, i, k)
<1>1. /\ i = req[r].id /\ k \in req[r].dirty
      /\ boxes'[i][k] = req[r].entity[k]
  BY WriteEffect DEF HeldInv, TokenColumns
<1> QED
  BY <1>1 DEF HeldInv, Held, Own, Write

(* A stored refresh token disappears only in a write that was overtaken by *)
(* another request's write of that column: a grant without a refresh token *)
(* keeps the one that saveTokens read, and repo.save leaves it alone.      *)
THEOREM RefreshTokensStay == Spec => RefreshTokenKept
<1>1. HeldInv /\ [Next]_vars =>
        [\A i \in DOMAIN boxes :
           boxes[i].refresh # None /\ boxes'[i].refresh = None
             => \E r \in Requests : Write(r) /\ Overtaken(r, i, "refresh")]_vars
  <2> SUFFICES ASSUME HeldInv, [Next]_vars, NEW i \in DOMAIN boxes,
                      boxes[i].refresh # None, boxes'[i].refresh = None
               PROVE  \E r \in Requests : Write(r) /\ Overtaken(r, i, "refresh")
    OBVIOUS
  <2>1. PICK r \in Requests : Write(r) /\ req[r].id = i
    BY OnlyWritesChange
  <2>2. boxes'[i]["refresh"] # boxes[i]["refresh"] /\ boxes'[i]["refresh"] # r
    OBVIOUS
  <2> QED
    BY <2>1, <2>2, WritesOwn
<1> QED
  BY <1>1, HeldInvHolds, PTL DEF Spec, RefreshTokenKept

(* PATCH /mailboxes/:id/refresh leaves the stored tokens alone, unless the *)
(* request was overtaken by a write of the column: then it puts the older  *)
(* token back that its entity carries.                                     *)
THEOREM RefreshesExtend == Spec => RefreshExtendsUnlessRaced
<1>1. HeldInv /\ [Next]_vars =>
        [\A r \in Requests : req[r].op = "refresh" /\ Write(r)
           => \A i \in DOMAIN boxes, k \in {"access", "refresh"} :
                boxes'[i][k] = boxes[i][k] \/ Overtaken(r, i, k)]_vars
  <2>1. ASSUME HeldInv, NEW r \in Requests, req[r].op = "refresh", Write(r),
               NEW i \in DOMAIN boxes, NEW k \in {"access", "refresh"}
        PROVE  boxes'[i][k] = boxes[i][k] \/ Overtaken(r, i, k)
    BY <2>1, WritesOwn
  <2> QED
    BY <2>1
<1> QED
  BY <1>1, HeldInvHolds, PTL DEF Spec, RefreshExtendsUnlessRaced
=============================================================================
