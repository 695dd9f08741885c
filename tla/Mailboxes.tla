----------------------------- MODULE Mailboxes ------------------------------
(***************************************************************************)
(* Clients and their mailboxes: ClientsService.create, and the two         *)
(* operations of MailboxesService that write, saveTokens (the end of the   *)
(* OAuth callback and POST /mailboxes/tokens) and refreshTokenExpiry       *)
(* (PATCH /mailboxes/:id/refresh).                                         *)
(*                                                                         *)
(* Requests run concurrently and every await is a step.  Nothing locks:    *)
(* repo.save(entity) reads the row again, compares, and then updates the   *)
(* columns that differ from the entity read earlier (TypeORM), so a stale  *)
(* entity puts old column values back.                                     *)
(*                                                                         *)
(* Token values are abstracted to the request that supplied them, and      *)
(* provider names to what the normalisation in saveTokens makes of them    *)
(* ("gmail", "Google" and "google" are one value).                         *)
(***************************************************************************)
EXTENDS Naturals, Sequences, FiniteSets

CONSTANTS Requests,
          Clients,       \* the ids ClientsService.create will give out
          NoClient,      \* the request or the row names no client
          UnknownClient, \* an id of no client
          Absent,        \* client not created yet
          Emails,
          Providers,
          Blank,         \* emailProvider is null or empty: client not bound
          Asked,         \* the providers that requests name
          Grants,        \* what else they bring: see Grant
          None,          \* null refreshToken or tokenExpiresAt
          UniqueConstraint, \* does the table carry uq_mailbox_email_provider_client
          MaxInFlight,   \* bound: requests running at the same time
          MaxFaults      \* bound: database failures

(* A grant may come without a refresh token and without expires_in.        *)
Grant == [refresh : BOOLEAN, expires : BOOLEAN]

ASSUME MailboxesAssumption ==
  /\ NoClient \notin Clients /\ UnknownClient \notin Clients /\ NoClient # UnknownClient
  /\ Blank \notin Providers /\ Absent \notin Providers /\ Absent # Blank
  /\ Asked \subseteq Providers \cup {Blank}
  /\ Grants \subseteq Grant
  /\ None \notin Requests /\ None \notin Emails
  /\ UniqueConstraint \in BOOLEAN
  /\ MaxInFlight \in Nat /\ MaxFaults \in Nat

VARIABLES
  provider,   \* provider[c]: the emailProvider column of client c
  boxes,      \* the mailbox table: row i has id i
  req,        \* req[r]: what request r asks and where it stands
  told,       \* the 'mailboxAdded' and 'mailboxUpdated' payloads emitted
  faults,     \* database failures so far
  overlaps    \* history: the pairs of requests that ran at the same time

vars == <<provider, boxes, req, told, faults, overlaps>>

Row == [email    : Emails,
        prov     : Providers \cup {Blank},
        client   : Clients \cup {NoClient},
        access   : Requests,
        refresh  : Requests \cup {None},
        expiry   : Requests \cup {None}]
TokenColumns == {"access", "refresh", "expiry"}

PC == {"new", "client", "bind", "find", "insert", "reload", "write", "reread",
       "emit", "done", "conflict", "failed"}
Over == {"done", "conflict", "failed"}
NoRow == [none |-> TRUE]

Request == [pc     : PC,
            op     : {"none", "save", "refresh"},
            email  : Emails \cup {None},
            prov   : Providers \cup {Blank},
            client : Clients \cup {NoClient, UnknownClient},
            grant  : Grant,
            id     : Nat,                  \* the row worked on
            entity : Row \cup {NoRow},     \* the entity in memory
            dirty  : SUBSET TokenColumns]  \* columns repo.save will update

Idle == [pc |-> "new", op |-> "none", email |-> None, prov |-> Blank,
         client |-> NoClient, grant |-> [refresh |-> FALSE, expires |-> FALSE],
         id |-> 0, entity |-> NoRow, dirty |-> {}]

TypeOK == /\ provider \in [Clients -> Providers \cup {Blank, Absent}]
          /\ boxes \in Seq(Row)
          /\ req \in [Requests -> Request]
          /\ told \subseteq (Nat \X Row)
          /\ faults \in Nat
          /\ overlaps \subseteq SUBSET Requests
          /\ \A r \in Requests : req[r].pc \in {"reload", "write", "reread", "emit"}
                                   => req[r].id \in DOMAIN boxes

InFlight == {r \in Requests : req[r].pc \notin {"new"} \cup Over}

Init == /\ provider = [c \in Clients |-> Absent]
        /\ boxes = <<>>
        /\ req = [r \in Requests |-> Idle]
        /\ told = {}
        /\ faults = 0
        /\ overlaps = {}

-----------------------------------------------------------------------------
(* POST /clients, with or without a provider.                              *)
CreateClient(c) == /\ provider[c] = Absent
                   /\ \E p \in Providers \cup {Blank} :
                        provider' = [provider EXCEPT ![c] = p]
                   /\ UNCHANGED <<boxes, req, told, faults, overlaps>>

Start(r) == /\ req[r].pc = "new"
            /\ Cardinality(InFlight) < MaxInFlight
            /\ overlaps' = overlaps \cup {{r, s} : s \in InFlight}

KnownClients == {c \in Clients : provider[c] # Absent}

(* A client id the caller names was listed by GET /clients, or is nobody's. *)
Ask(r, p, g) ==
  \E e \in Emails, c \in KnownClients \cup {NoClient, UnknownClient} :
    req' = [req EXCEPT ![r] =
              [Idle EXCEPT !.pc = IF c = NoClient THEN "find" ELSE "client",
                           !.op = "save", !.email = e, !.prov = p,
                           !.client = c, !.grant = g]]

(* POST /mailboxes/tokens.                                                 *)
SaveTokensJson(r) == /\ Start(r)
                     /\ \E p \in Asked, g \in Grants : Ask(r, p, g)
                     /\ UNCHANGED <<provider, boxes, told, faults>>

(* GET /mailboxes/oauth/:provider sends the browser to a known provider    *)
(* only.  It keeps nothing: e-mail and client travel in the signed state.  *)
Redirectable == Asked \ {Blank}

(* GET /mailboxes/callback/:provider after the code was exchanged; e-mail  *)
(* and client come from the state, and expires_in defaults to an hour.     *)
Callback(r) == /\ Start(r)
               /\ \E p \in Redirectable, g \in Grants :
                    g.expires /\ Ask(r, p, g)
               /\ UNCHANGED <<provider, boxes, told, faults>>

StartRefresh(r) ==
  /\ Start(r)
  /\ \E i \in 1 .. Len(boxes) + 1 :
       req' = [req EXCEPT ![r] = [Idle EXCEPT !.pc = "find", !.op = "refresh",
                                              !.id = i]]
  /\ UNCHANGED <<provider, boxes, told, faults>>

Goto(r, l) == req' = [req EXCEPT ![r].pc = l]

Fault == faults < MaxFaults /\ faults' = faults + 1

(* A write took effect: the request goes on with q, or never hears of it.  *)
Written(r, q) == \/ req' = [req EXCEPT ![r] = q] /\ UNCHANGED faults
                 \/ Goto(r, "failed") /\ Fault

(* Mutated form: an unbound client is not bound.                           *)
FindClientWithoutBind(r) ==
  /\ req[r].pc = "client"
  /\ LET c == req[r].client
         p == IF c \in Clients THEN provider[c] ELSE Absent
     IN  Goto(r, IF p \in {Absent, Blank, req[r].prov} THEN "find" ELSE "conflict")
  /\ UNCHANGED <<provider, boxes, told, faults, overlaps>>

(* Mutated form: the client's provider is not compared.                    *)
FindClientWithoutCheck(r) ==
  /\ req[r].pc = "client"
  /\ LET c == req[r].client
     IN  Goto(r, IF c \in Clients /\ provider[c] = Blank THEN "bind" ELSE "find")
  /\ UNCHANGED <<provider, boxes, told, faults, overlaps>>

(* clients.findOne, and the check against the client's provider.           *)
FindClient(r) ==
  /\ req[r].pc = "client"
  /\ LET c == req[r].client
         p == IF c \in Clients THEN provider[c] ELSE Absent
     IN  Goto(r, CASE p \in {Absent, req[r].prov} \ {Blank} -> "find"
                   [] p = Blank -> "bind"
                   [] OTHER -> "conflict")
  /\ UNCHANGED <<provider, boxes, told, faults, overlaps>>

(* clients.save: binds the client that was unbound when it was read.       *)
Bind(r) == /\ req[r].pc = "bind"
           /\ provider' = [provider EXCEPT ![req[r].client] = req[r].prov]
           /\ Written(r, [req[r] EXCEPT !.pc = "find"])
           /\ UNCHANGED <<boxes, told, overlaps>>

(* Mutated form: clientId = NULL in the where clause, which matches no row. *)
MatchingNull(q) == {i \in DOMAIN boxes :
                      /\ boxes[i].email = q.email
                      /\ q.prov # Blank => boxes[i].prov = q.prov
                      /\ q.client # NoClient /\ boxes[i].client = q.client}

(* The rows that saveTokens' where clause matches: a provider or a client  *)
(* that is not given does not restrict it.                                 *)
Matching(q) == {i \in DOMAIN boxes :
                  /\ boxes[i].email = q.email
                  /\ q.prov # Blank => boxes[i].prov = q.prov
                  /\ q.client # NoClient => boxes[i].client = q.client}

(* Mutated form: an absent refresh token overwrites the stored one.        *)
SuppliedBlindly(r, row) ==
  [row EXCEPT !.access = r,
              !.refresh = IF req[r].grant.refresh THEN r ELSE None,
              !.expiry = IF req[r].grant.expires THEN r ELSE None]

(* Mutated form: an absent expiry leaves the stored one, as with refresh.  *)
SuppliedKeepingExpiry(r, row) ==
  [row EXCEPT !.access = r,
              !.refresh = IF req[r].grant.refresh THEN r ELSE @,
              !.expiry = IF req[r].grant.expires THEN r ELSE @]

(* The existing row with the tokens of request r in it.                    *)
Supplied(r, row) ==
  [row EXCEPT !.access = r,
              !.refresh = IF req[r].grant.refresh THEN r ELSE @,
              !.expiry = IF req[r].grant.expires THEN r ELSE None]

(* Mutated form: the mailbox is looked up by its address alone.            *)
FindMailboxByAddress(r) ==
  /\ req[r].pc = "find" /\ req[r].op = "save"
  /\ LET same == {i \in DOMAIN boxes : boxes[i].email = req[r].email}
     IN  \/ \E i \in same :
               req' = [req EXCEPT ![r].pc = "reload", ![r].id = i,
                                  ![r].entity = Supplied(r, boxes[i])]
         \/ same = {} /\ Goto(r, "insert")
  /\ UNCHANGED <<provider, boxes, told, faults, overlaps>>

FindMailbox(r) ==
  /\ req[r].pc = "find" /\ req[r].op = "save"
  /\ \/ \E i \in Matching(req[r]) :
          req' = [req EXCEPT ![r].pc = "reload", ![r].id = i,
                             ![r].entity = Supplied(r, boxes[i])]
     \/ Matching(req[r]) = {} /\ Goto(r, "insert")
  /\ UNCHANGED <<provider, boxes, told, faults, overlaps>>

(* Mutated form: the refresh also overwrites the access token.             *)
FindToRefreshAccess(r) ==
  /\ req[r].pc = "find" /\ req[r].op = "refresh"
  /\ IF req[r].id \in DOMAIN boxes
     THEN req' = [req EXCEPT ![r].pc = "reload", ![r].entity =
                    [boxes[req[r].id] EXCEPT !.expiry = r, !.access = r]]
     ELSE Goto(r, "failed")
  /\ UNCHANGED <<provider, boxes, told, faults, overlaps>>

(* refreshTokenExpiry: only the expiry is set in the entity.               *)
FindToRefresh(r) ==
  /\ req[r].pc = "find" /\ req[r].op = "refresh"
  /\ IF req[r].id \in DOMAIN boxes
     THEN req' = [req EXCEPT ![r].pc = "reload",
                    ![r].entity = [boxes[req[r].id] EXCEPT !.expiry = r]]
     ELSE Goto(r, "failed")
  /\ UNCHANGED <<provider, boxes, told, faults, overlaps>>

NewRow(r) == [email   |-> req[r].email,
              prov    |-> req[r].prov,
              client  |-> req[r].client,
              access  |-> r,
              refresh |-> IF req[r].grant.refresh THEN r ELSE None,
              expiry  |-> IF req[r].grant.expires THEN r ELSE None]

SameKey(a, b) == a.email = b.email /\ a.prov = b.prov /\ a.client = b.client

(* Mutated form: the table has no foreign key to the clients.              *)
InsertableWithoutForeignKey(row) ==
  UniqueConstraint /\ row.client # NoClient
    => \A i \in DOMAIN boxes : ~SameKey(boxes[i], row)

(* The foreign key, and the unique key if the table has it: to Postgres    *)
(* two NULL client ids differ.                                             *)
Insertable(row) ==
  /\ row.client # UnknownClient
  /\ UniqueConstraint /\ row.client # NoClient
       => \A i \in DOMAIN boxes : ~SameKey(boxes[i], row)

Insert(r) ==
  /\ req[r].pc = "insert"
  /\ Insertable(NewRow(r))
  /\ boxes' = Append(boxes, NewRow(r))
  /\ Written(r, [req[r] EXCEPT !.pc = "reread", !.id = Len(boxes) + 1])
  /\ UNCHANGED <<provider, told, overlaps>>

InsertRejected(r) == /\ req[r].pc = "insert"
                     /\ ~Insertable(NewRow(r))
                     /\ Goto(r, "failed")
                     /\ UNCHANGED <<provider, boxes, told, faults, overlaps>>

(* repo.save(existing), first half: which columns differ now?              *)
Reload(r) ==
  /\ req[r].pc = "reload"
  /\ req' = [req EXCEPT ![r].pc = "write",
               ![r].dirty = {k \in TokenColumns :
                               req[r].entity[k] # boxes[req[r].id][k]}]
  /\ UNCHANGED <<provider, boxes, told, faults, overlaps>>

Updated(row, q) == [k \in DOMAIN row |-> IF k \in q.dirty THEN q.entity[k] ELSE row[k]]

(* ... second half: update those, whatever they hold by now.               *)
Write(r) ==
  /\ req[r].pc = "write"
  /\ boxes' = [boxes EXCEPT ![req[r].id] = Updated(@, req[r])]
  /\ Written(r, [req[r] EXCEPT !.pc = "reread"])
  /\ UNCHANGED <<provider, told, overlaps>>

(* Mutated form: the saved entity is announced, not the row read again.    *)
RereadNothing(r) ==
  /\ req[r].pc = "reread"
  /\ req' = [req EXCEPT ![r].pc = "emit", ![r].entity =
               IF @ = NoRow THEN boxes[req[r].id] ELSE @]
  /\ UNCHANGED <<provider, boxes, told, faults, overlaps>>

Reread(r) == /\ req[r].pc = "reread"
             /\ req' = [req EXCEPT ![r].pc = "emit",
                                   ![r].entity = boxes[req[r].id]]
             /\ UNCHANGED <<provider, boxes, told, faults, overlaps>>

Emit(r) == /\ req[r].pc = "emit"
           /\ told' = told \cup {<<req[r].id, req[r].entity>>}
           /\ Goto(r, "done")
           /\ UNCHANGED <<provider, boxes, faults, overlaps>>

(* A query fails, or the process stops, before anything is written: the    *)
(* request ends with an error and nothing is undone.                       *)
Fail(r) == /\ r \in InFlight
           /\ Fault
           /\ Goto(r, "failed")
           /\ UNCHANGED <<provider, boxes, told, overlaps>>

SaveStep(r) == \/ FindClient(r) \/ Bind(r) \/ FindMailbox(r)
               \/ Insert(r) \/ InsertRejected(r)
CommonStep(r) == FindToRefresh(r) \/ Reload(r) \/ Write(r) \/ Reread(r) \/ Emit(r)

Next == \/ \E c \in Clients : CreateClient(c)
        \/ \E r \in Requests : \/ SaveTokensJson(r) \/ Callback(r) \/ StartRefresh(r)
                               \/ SaveStep(r) \/ CommonStep(r) \/ Fail(r)

Spec == Init /\ [][Next]_vars

-----------------------------------------------------------------------------
(* Properties.                                                             *)

(* Two requests for client c that ran at the same time asked for providers *)
(* p and q.                                                                *)
Race(c, p, q) == \E r, s \in Requests : /\ {r, s} \in overlaps
                                        /\ req[r].client = c /\ req[s].client = c
                                        /\ req[r].prov = p /\ req[s].prov = q

(* A client with a mailbox at some provider is bound: saveTokens binds it  *)
(* before it stores the mailbox.  Only a request that names no provider    *)
(* unbinds it again, with the client entity it read before another request *)
(* that ran at the same time bound the client.                             *)
MailboxClientIsBound ==
  \A i \in DOMAIN boxes :
    LET c == boxes[i].client
    IN  c # NoClient /\ boxes[i].prov # Blank
          => \/ provider[c] \in Providers
             \/ \E q \in Providers : Race(c, Blank, q)

(* Tokens are filed under the account they were granted for: whichever     *)
(* request a stored token came from asked for this e-mail address, and for *)
(* this provider and client if it named any.                               *)
TokensMatchMailbox ==
  \A i \in DOMAIN boxes :
    \A t \in {boxes[i].access, boxes[i].refresh} \ {None} :
      i \in Matching(req[t])

(* Once all requests are over without a failure, some announcement carried *)
(* the final state of every mailbox: a refetch after it shows the truth.   *)
FinalStateAnnounced ==
  InFlight = {} /\ faults = 0
    => \A i \in DOMAIN boxes : <<i, boxes[i]>> \in told

(* A client holds mailboxes of one provider only.                          *)
ClientSingleProvider ==
  \A i, k \in DOMAIN boxes :
    boxes[i].client = boxes[k].client /\ boxes[i].client # NoClient
      => boxes[i].prov = boxes[k].prov

(* A mailbox at another provider than its client is bound to takes two     *)
(* requests for the client and different providers that ran at the same    *)
(* time: one after the other, the second meets the 409.  That check is     *)
(* blind to a mailbox stored without a provider, which leaves the client   *)
(* unbound for any later request to bind.                                  *)
SingleProviderUnlessRaced ==
  \A i \in DOMAIN boxes :
    LET c == boxes[i].client
    IN  c # NoClient /\ boxes[i].prov # Blank
          => \/ provider[c] = boxes[i].prov
             \/ \E p, q \in Providers \cup {Blank} : p # q /\ Race(c, p, q)

(* There are two mailboxes of one e-mail address, provider and client only *)
(* if two overlapping requests asked for just those: then both may find no *)
(* row and insert one, which the unique key prevents for a client's        *)
(* mailbox but not for one without a client.                               *)
OneMailboxUnlessRaced ==
  \A i, k \in DOMAIN boxes :
    SameKey(boxes[i], boxes[k]) /\ i # k
      => /\ UniqueConstraint => boxes[i].client = NoClient
         /\ \E r, s \in Requests : /\ {r, s} \in overlaps
                                   /\ SameKey(req[r], boxes[i])
                                   /\ SameKey(req[s], boxes[i])

(* Another request, that ran at the same time as r, wrote column k of row i*)
(* (perhaps before r read it: what r read when is not remembered).         *)
Overtaken(r, i, k) ==
  \E s \in Requests : /\ {r, s} \in overlaps
                      /\ req[s].id = i /\ k \in req[s].dirty
                      /\ req[s].pc \in {"reread", "emit"} \cup Over

(* A stored refresh token is replaced but not lost: providers send it with *)
(* the first consent only, so a later grant without one keeps it.  The     *)
(* exception is a request that was overtaken by the one that stored it.    *)
RefreshTokenKept ==
  [][\A i \in DOMAIN boxes :
       boxes[i].refresh # None /\ boxes'[i].refresh = None
         => \E r \in Requests : Write(r) /\ Overtaken(r, i, "refresh")]_vars

(* The expiry in a row is that of its access token, unless it was extended *)
(* since: the grant's own, or none if it brought none.  The exception is a *)
(* request without an expiry that was overtaken by the one that wrote it.  *)
ExpiryBelongsToToken ==
  \A i \in DOMAIN boxes :
    LET a == boxes[i].access
        e == boxes[i].expiry
    IN  \/ e = IF req[a].grant.expires THEN a ELSE None
        \/ e # None /\ req[e].op = "refresh"
        \/ ~req[a].grant.expires /\ Overtaken(a, i, "expiry")

(* Refreshing extends a token's expiry and touches nothing else: the       *)
(* tokens in the row stay those that the last saveTokens stored.           *)
RefreshOnlyExtends ==
  [][\A r \in Requests : req[r].op = "refresh" /\ Write(r)
       => \A i \in DOMAIN boxes, k \in {"access", "refresh"} :
            boxes'[i][k] = boxes[i][k]]_vars

(* ... except that one that was overtaken puts the older tokens back.      *)
RefreshExtendsUnlessRaced ==
  [][\A r \in Requests : req[r].op = "refresh" /\ Write(r)
       => \A i \in DOMAIN boxes, k \in {"access", "refresh"} :
            boxes'[i][k] = boxes[i][k] \/ Overtaken(r, i, k)]_vars
=============================================================================
