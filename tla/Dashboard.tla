----------------------------- MODULE Dashboard ------------------------------
(***************************************************************************)
(* The mailboxes page and the clients page of the dashboard in one browser *)
(* tab, against the API.  Both pages keep a copy of a table, decide by it  *)
(* what the user may do, and fetch it again when the socket announces a    *)
(* change.  The fetches overlap, and nothing orders their answers.         *)
(*                                                                         *)
(* The tab does not check alone: everybody else who uses the gateway is    *)
(* OthersAdd, OthersConnect and OthersRefresh.  The handlers of the API    *)
(* are atomic here; module Mailboxes takes them apart.                     *)
(*                                                                         *)
(* Left out: banners, toasts and layout, the expiry of tokens, and the     *)
(* three seconds for which a refreshed row is marked.                      *)
(***************************************************************************)
EXTENDS Naturals, Sequences, FiniteSets

CONSTANTS Domains, Emails, Providers,
          Blank,      \* emailProvider is null: the client is not bound
          Slots,      \* bound: requests of the tab under way at one time
          ListLimit,  \* GET /mailboxes and GET /clients give the newest 100
          MaxClients, MaxBoxes, \* bounds: rows of the tables
          MaxClicks,  \* bound: what the users of all tabs do
          MaxFaults   \* bound: failed requests and lost connections

ASSUME DashboardAssumption ==
  /\ Blank \notin Providers
  /\ Cardinality(Slots) >= 2 \* a page mounts with two requests
  /\ ListLimit \in Nat /\ MaxClients \in Nat /\ MaxBoxes \in Nat
  /\ MaxClicks \in Nat /\ MaxFaults \in Nat

VARIABLES
  clients,    \* the client table, oldest first
  boxes,      \* the mailbox table: row i has id i
  page,       \* what the tab shows; "away" is the provider's consent screen
  trip,       \* the connection for which the user is away
  list,       \* the mailboxes page shows the table as of when it had so many rows
  names,      \* the clients the page has fetched
  loading,    \* the overlay or the spinner, under which nothing can be clicked
  refreshing, \* rows whose Refresh button is disabled
  busy,       \* connectLoading or isSubmitting
  req,        \* the tab's requests
  online,     \* the socket is connected
  news,       \* announcements on their way to the tab
  doubts,     \* history: why the page's copies may be old
  clicks, faults

database == <<clients, boxes>>
copies == <<list, names>>
flags == <<loading, refreshing, busy>>
socket == <<online, news>>
vars == <<database, page, trip, copies, flags, req, socket, doubts, clicks, faults>>

(* Who made a row: others, the tab, or the tab while its copy was in doubt. *)
Maker == {"others", "tab", "doubtful"}
Client == [domain : Domains, prov : Providers \cup {Blank}, by : Maker,
           binder : {"nobody", "tab", "others"}]
Box == [email : Emails, prov : Providers, client : Nat, by : Maker]
NoTrip == [none |-> TRUE]
Announcement == {"clientAdded", "mailboxAdded", "mailboxUpdated"}
Doubt == {"failed", "regressed", "missed", "left"}

(* A request: kind "mailboxes" and "clients" are the two GETs, then says   *)
(* what awaits the answer; wish is the row to be made, id the row to be    *)
(* refreshed; mine: the page that asked is still mounted.                  *)
Kind == {"idle", "mailboxes", "clients", "add", "connect", "refresh"}
Ask(k, awaiting, w, i) ==
  [kind |-> k, then |-> awaiting, at |-> "sent", mine |-> TRUE, wish |-> w,
   id |-> i, count |-> 0, answer |-> <<>>]
Idle == Ask("idle", "nothing", NoTrip, 0)
Request == [kind : Kind, then : {"nothing", "mount", "add", "refresh"},
            at : {"sent", "done", "failed"}, mine : BOOLEAN,
            wish : Client \cup Box \cup {NoTrip}, id : Nat, count : Nat,
            answer : Seq(Client)]

TypeOK == /\ clients \in Seq(Client) /\ boxes \in Seq(Box)
          /\ page \in {"mailboxes", "clients", "away"}
          /\ trip \in Box \cup {NoTrip}
          /\ page = "away" => trip \in Box /\ trip.client \in DOMAIN clients
          /\ list \in Nat /\ names \in Seq(Client)
          /\ loading \in BOOLEAN /\ refreshing \subseteq Nat /\ busy \in BOOLEAN
          /\ req \in [Slots -> Request]
          /\ online \in BOOLEAN /\ news \in Seq(Announcement)
          /\ doubts \subseteq Doubt
          /\ clicks \in Nat /\ faults \in Nat

-----------------------------------------------------------------------------
(* Requests of the tab.                                                    *)
Free(rs) == {s \in Slots : rs[s].kind = "idle"}
Sent(rs, q) == [rs EXCEPT ![CHOOSE s \in Free(rs) : TRUE] = q]
HasRoom(n) == Cardinality(Free(req)) >= n

Get(k, awaiting, i) == Ask(k, awaiting, NoTrip, i)

(* A page that is left no longer hears of its requests, but the server     *)
(* does, and the answer to a connect still moves the browser unless the    *)
(* whole document went.                                                    *)
Orphaned(rs, kept) ==
  [s \in Slots |-> IF rs[s].kind \in kept /\ rs[s].at = "sent"
                   THEN [rs[s] EXCEPT !.mine = FALSE] ELSE Idle]

MountRequests(p, rs) ==
  IF p = "mailboxes"
  THEN Sent(Sent(rs, Get("mailboxes", "mount", 0)), Get("clients", "mount", 0))
  ELSE Sent(rs, Get("clients", "mount", 0))

(* useState of a page just mounted and its effects; useSocket of the page  *)
(* before has disconnected.  rs: what is left of earlier requests.         *)
Mount(p, rs) ==
  /\ page' = p
  /\ list' = 0 /\ names' = <<>>
  /\ loading' = TRUE /\ refreshing' = {} /\ busy' = FALSE
  /\ Cardinality(Free(rs)) >= 2
  /\ req' = MountRequests(p, rs)
  /\ online' = FALSE /\ news' = <<>>
  /\ doubts' = IF \E s \in Slots : rs[s].kind = "add" THEN {"left"} ELSE {}

Foreign(d, p) == [domain |-> d, prov |-> p, by |-> "others", binder |-> "nobody"]

(* The gateway may have been in use before the tab was opened.             *)
Init == /\ \/ clients = <<>> /\ boxes = <<>>
           \/ \E d \in Domains, e \in Emails, p \in Providers :
                /\ clients = <<Foreign(d, p)>>
                /\ boxes = <<[email |-> e, prov |-> p, client |-> 1, by |-> "others"]>>
        /\ page \in {"mailboxes", "clients"} /\ trip = NoTrip
        /\ list = 0 /\ names = <<>>
        /\ loading = TRUE /\ refreshing = {} /\ busy = FALSE
        /\ req = MountRequests(page, [s \in Slots |-> Idle])
        /\ online = FALSE /\ news = <<>> /\ doubts = {}
        /\ clicks = 0 /\ faults = 0

Click == clicks < MaxClicks /\ clicks' = clicks + 1
Fault == faults < MaxFaults /\ faults' = faults + 1

(* The rows of a table with n rows that the API lists, and the rows that   *)
(* the two pages show.                                                     *)
Newest(n) == {i \in 1 .. n : i + ListLimit > n}
ShownBoxes == Newest(list)
ShownClients == Newest(Len(names))

(* WsGateway.emit, which a tab that is not connected does not hear.        *)
Tell(what) == IF online THEN news' = Append(news, what) /\ UNCHANGED doubts
              ELSE doubts' = doubts \cup {"missed"} /\ UNCHANGED news

Certain(n) == doubts = {} /\ n <= ListLimit
MakerNow(n) == IF Certain(n) THEN "tab" ELSE "doubtful"

-----------------------------------------------------------------------------
(* Everybody else, through other tabs.                                     *)
Pending(kind) == Cardinality({s \in Slots : req[s].kind = kind})
ClientsRoom == Len(clients) + Pending("add") < MaxClients
BoxesRoom == Len(boxes) + Pending("connect") + (IF page = "away" THEN 1 ELSE 0) < MaxBoxes

OthersAdd(d, p) ==
  /\ Click /\ ClientsRoom
  /\ clients' = Append(clients, Foreign(d, p))
  /\ Tell("clientAdded")
  /\ UNCHANGED <<boxes, page, trip, copies, flags, req, online, faults>>

(* saveTokens: the client must be free, or bound to this provider.         *)
Refused(w) == clients[w.client].prov \notin {Blank, w.prov}
Known(w) == \E i \in DOMAIN boxes : /\ boxes[i].email = w.email
                                   /\ boxes[i].prov = w.prov
                                   /\ boxes[i].client = w.client
Save(w, who) ==
  /\ ~Refused(w)
  /\ clients' = IF clients[w.client].prov # Blank THEN clients
                ELSE [clients EXCEPT ![w.client] =
                        [domain |-> @.domain, prov |-> w.prov, by |-> @.by,
                         binder |-> who]]
  /\ boxes' = IF Known(w) THEN boxes ELSE Append(boxes, w)

OthersConnect(e, p, c) ==
  LET w == [email |-> e, prov |-> p, client |-> c, by |-> "others"]
  IN  /\ Click /\ BoxesRoom
      /\ Save(w, "others")
      /\ Tell(IF Known(w) THEN "mailboxUpdated" ELSE "mailboxAdded")
      /\ UNCHANGED <<page, trip, copies, flags, req, online, faults>>

OthersRefresh(i) ==
  /\ Click
  /\ Tell("mailboxUpdated")
  /\ UNCHANGED <<database, page, trip, copies, flags, req, online, faults>>

-----------------------------------------------------------------------------
(* The socket.                                                             *)
Handshake ==
  /\ ~online /\ page # "away"
  /\ online' = TRUE
  /\ UNCHANGED <<database, page, trip, copies, flags, req, news, doubts, clicks, faults>>

LoseConnection ==
  /\ online /\ Fault
  /\ online' = FALSE /\ news' = <<>>
  /\ doubts' = doubts \cup (IF news = <<>> THEN {} ELSE {"missed"})
  /\ UNCHANGED <<database, page, trip, copies, flags, req, clicks>>

(* Mutated form: the clients page waits for 'clientAdded' only.            *)
HeedsClientsOnly(what) ==
  IF page = "mailboxes" THEN what \in {"mailboxAdded", "mailboxUpdated"}
  ELSE what = "clientAdded"

(* What the listener of the page fetches for.                              *)
Heeds(what) ==
  IF page = "mailboxes" THEN what \in {"mailboxAdded", "mailboxUpdated"}
  ELSE what \in {"clientAdded", "mailboxAdded"}

Deliver ==
  /\ news # <<>>
  /\ news' = Tail(news)
  /\ IF Heeds(Head(news))
     THEN /\ HasRoom(1)
          /\ req' = Sent(req, Get(page, "nothing", 0))
          /\ loading' = (loading \/ page = "mailboxes")
     ELSE UNCHANGED <<req, loading>>
  /\ UNCHANGED <<database, page, trip, copies, refreshing, busy, online, doubts,
                 clicks, faults>>

-----------------------------------------------------------------------------
(* The user of the tab.                                                    *)
GoTo(p) ==
  /\ page \notin {p, "away"}
  /\ Click
  /\ Mount(p, Orphaned(req, {"add", "connect", "refresh"}))
  /\ UNCHANGED <<database, trip, faults>>

(* handleAdd, with a form that the Add button accepts.                     *)
ClickAdd(d, p) ==
  /\ page = "clients" /\ ~loading /\ ~busy
  /\ \A i \in ShownClients : names[i].domain # d
  /\ Click /\ HasRoom(1) /\ ClientsRoom
  /\ busy' = TRUE
  /\ req' = Sent(req, Ask("add", "nothing",
                 [domain |-> d, prov |-> p, by |-> MakerNow(Len(names)),
                  binder |-> "nobody"], 0))
  /\ UNCHANGED <<database, page, trip, copies, loading, refreshing, socket,
                 doubts, faults>>

(* Mutated form: both Connect buttons are always enabled.                  *)
OfferedAlways(p, c) == c \in ShownClients

(* The client can be selected, and the button of the provider is enabled.  *)
Offered(p, c) == c \in ShownClients /\ names[c].prov \in {Blank, p}

(* openConnectModal and handleConnect.  names does not change between the  *)
(* two: the page fetches it once, and before that no client can be chosen. *)
ClickConnect(e, p, c) ==
  /\ page = "mailboxes" /\ ~loading /\ ~busy
  /\ Offered(p, c)
  /\ \A i \in ShownBoxes : boxes[i].email # e
  /\ Click /\ HasRoom(1) /\ BoxesRoom
  /\ busy' = TRUE
  /\ req' = Sent(req, Ask("connect", "nothing",
                 [email |-> e, prov |-> p, client |-> c, by |-> MakerNow(list)], 0))
  /\ UNCHANGED <<database, page, trip, copies, loading, refreshing, socket,
                 doubts, faults>>

(* Mutated form: the Refresh button stays enabled.                         *)
ClickRefreshAgain(i) ==
  /\ page = "mailboxes" /\ ~loading
  /\ i \in ShownBoxes
  /\ Click /\ HasRoom(1)
  /\ refreshing' = refreshing \cup {i}
  /\ req' = Sent(req, Ask("refresh", "nothing", NoTrip, i))
  /\ UNCHANGED <<database, page, trip, copies, loading, busy, socket, doubts, faults>>

ClickRefresh(i) ==
  /\ page = "mailboxes" /\ ~loading
  /\ i \in ShownBoxes \ refreshing
  /\ Click /\ HasRoom(1)
  /\ refreshing' = refreshing \cup {i}
  /\ req' = Sent(req, Ask("refresh", "nothing", NoTrip, i))
  /\ UNCHANGED <<database, page, trip, copies, loading, busy, socket, doubts, faults>>

-----------------------------------------------------------------------------
(* The API.                                                                *)
Done(s) == req' = [req EXCEPT ![s] =
                     IF req[s].mine THEN [req[s] EXCEPT !.at = "done"] ELSE Idle]

Serve(s) ==
  /\ req[s].kind \in {"mailboxes", "clients"} /\ req[s].at = "sent"
  /\ req' = [req EXCEPT ![s] =
       IF req[s].kind = "mailboxes"
       THEN [req[s] EXCEPT !.at = "done", !.count = Len(boxes)]
       ELSE [req[s] EXCEPT !.at = "done", !.answer = clients]]
  /\ UNCHANGED <<database, page, trip, copies, flags, socket, doubts, clicks, faults>>

(* POST /clients: nothing compares the domain.                             *)
ExecuteAdd(s) ==
  /\ req[s].kind = "add" /\ req[s].at = "sent"
  /\ clients' = Append(clients, req[s].wish)
  /\ Tell("clientAdded")
  /\ Done(s)
  /\ UNCHANGED <<boxes, page, trip, copies, flags, online, clicks, faults>>

(* PATCH /mailboxes/:id/refresh.                                           *)
ExecuteRefresh(s) ==
  /\ req[s].kind = "refresh" /\ req[s].at = "sent"
  /\ Tell("mailboxUpdated")
  /\ Done(s)
  /\ UNCHANGED <<database, page, trip, copies, flags, online, clicks, faults>>

(* A request fails before it does anything, or the answer of one that did  *)
(* something is lost.                                                      *)
Lose(s) ==
  /\ req[s].kind # "idle"
  /\ req[s].at \in IF req[s].kind \in {"add", "refresh"} THEN {"sent", "done"}
                    ELSE {"sent"}
  /\ Fault
  /\ req' = [req EXCEPT ![s] =
               IF req[s].mine THEN [req[s] EXCEPT !.at = "failed"] ELSE Idle]
  /\ UNCHANGED <<database, page, trip, copies, flags, socket, doubts, clicks>>

-----------------------------------------------------------------------------
(* Answers.                                                                *)
Over(s) == req' = [req EXCEPT ![s] = Idle]

(* Mutated form: setLoading(false) is not in the finally.                  *)
LandMailboxesHanging(s) ==
  /\ req[s].kind = "mailboxes" /\ req[s].at # "sent"
  /\ list' = IF req[s].at = "done" THEN req[s].count ELSE list
  /\ loading' = (loading /\ req[s].at = "failed")
  /\ refreshing' = IF req[s].then = "refresh" THEN refreshing \ {req[s].id}
                   ELSE refreshing
  /\ doubts' = doubts \cup IF req[s].at = "failed" THEN {"failed"}
                           ELSE IF req[s].count < list THEN {"regressed"} ELSE {}
  /\ Over(s)
  /\ UNCHANGED <<database, page, trip, names, busy, socket, clicks, faults>>

(* fetchMailboxes, and the end of refreshMailbox if that awaits it.        *)
LandMailboxes(s) ==
  /\ req[s].kind = "mailboxes" /\ req[s].at # "sent"
  /\ list' = IF req[s].at = "done" THEN req[s].count ELSE list
  /\ loading' = FALSE
  /\ refreshing' = IF req[s].then = "refresh" THEN refreshing \ {req[s].id}
                   ELSE refreshing
  /\ doubts' = doubts \cup IF req[s].at = "failed" THEN {"failed"}
                           ELSE IF req[s].count < list THEN {"regressed"} ELSE {}
  /\ Over(s)
  /\ UNCHANGED <<database, page, trip, names, busy, socket, clicks, faults>>

(* Is the copy a of the client table older than b?                         *)
Older(a, b) == \/ Len(a) < Len(b)
               \/ \E i \in DOMAIN b : a[i].prov = Blank /\ b[i].prov # Blank

(* fetchClients, or the fetch of the mailboxes page; the end of handleAdd. *)
LandClients(s) ==
  /\ req[s].kind = "clients" /\ req[s].at # "sent"
  /\ names' = IF req[s].at = "done" THEN req[s].answer ELSE names
  /\ loading' = (loading /\ ~(page = "clients" /\ req[s].then = "mount"))
  /\ busy' = (busy /\ req[s].then # "add")
  /\ doubts' = doubts \cup IF req[s].at = "failed" THEN {"failed"}
                           ELSE IF Older(req[s].answer, names) THEN {"regressed"} ELSE {}
  /\ Over(s)
  /\ UNCHANGED <<database, page, trip, list, refreshing, socket, clicks, faults>>

(* Mutated form: handleAdd does not await fetchClients.                    *)
AnswerAddUnawaited(s) ==
  /\ req[s].kind = "add" /\ req[s].at # "sent"
  /\ busy' = FALSE
  /\ IF req[s].at = "done"
     THEN req' = [req EXCEPT ![s] = Get("clients", "nothing", 0)] /\ UNCHANGED doubts
     ELSE Over(s) /\ doubts' = doubts \cup {"failed"}
  /\ UNCHANGED <<database, page, trip, copies, loading, refreshing, socket,
                 clicks, faults>>

(* handleAdd after its POST: fetch, or give up.                            *)
AnswerAdd(s) ==
  /\ req[s].kind = "add" /\ req[s].at # "sent"
  /\ IF req[s].at = "done"
     THEN /\ req' = [req EXCEPT ![s] = Get("clients", "add", 0)]
          /\ UNCHANGED <<busy, doubts>>
     ELSE /\ Over(s)
          /\ busy' = FALSE /\ doubts' = doubts \cup {"failed"}
  /\ UNCHANGED <<database, page, trip, copies, loading, refreshing, socket,
                 clicks, faults>>

(* refreshMailbox after its PATCH, whatever the answer was.                *)
AnswerRefresh(s) ==
  /\ req[s].kind = "refresh" /\ req[s].at # "sent"
  /\ req' = [req EXCEPT ![s] = Get("mailboxes", "refresh", req[s].id)]
  /\ loading' = TRUE
  /\ UNCHANGED <<database, page, trip, copies, refreshing, busy, socket, doubts,
                 clicks, faults>>

(* handleConnect got no redirectUrl.                                       *)
ConnectFails(s) ==
  /\ req[s].kind = "connect" /\ req[s].at = "failed"
  /\ busy' = FALSE
  /\ Over(s)
  /\ UNCHANGED <<database, page, trip, copies, loading, refreshing, socket, doubts,
                 clicks, faults>>

(* Mutated form: the redirect is asked for without the client's id.        *)
RedirectWithoutClient(s) ==
  /\ req[s].kind = "connect" /\ req[s].at = "sent"
  /\ page' = "away" /\ trip' = [req[s].wish EXCEPT !.client = 0]
  /\ req' = Orphaned(req, {"add", "refresh"})
  /\ list' = 0 /\ names' = <<>>
  /\ loading' = FALSE /\ refreshing' = {} /\ busy' = FALSE
  /\ online' = FALSE /\ news' = <<>>
  /\ UNCHANGED <<database, doubts, clicks, faults>>

(* ... or sends the browser to the provider: the document goes, whichever  *)
(* page it shows by now.                                                   *)
Redirect(s) ==
  /\ req[s].kind = "connect" /\ req[s].at = "sent"
  /\ page' = "away" /\ trip' = req[s].wish
  /\ req' = Orphaned(req, {"add", "refresh"})
  /\ list' = 0 /\ names' = <<>>
  /\ loading' = FALSE /\ refreshing' = {} /\ busy' = FALSE
  /\ online' = FALSE /\ news' = <<>>
  /\ UNCHANGED <<database, doubts, clicks, faults>>

(* The callback stores the mailbox and returns to the mailboxes page; or   *)
(* the user gives up, the exchange of the code fails, or saveTokens does.  *)
Return ==
  /\ page = "away"
  /\ Save(trip, "tab") \/ UNCHANGED database
  /\ trip' = NoTrip
  /\ Mount("mailboxes", req)
  /\ UNCHANGED <<clicks, faults>>

RequestStep(s) == \/ Serve(s) \/ ExecuteAdd(s) \/ ExecuteRefresh(s)
               \/ LandMailboxes(s) \/ LandClients(s) \/ AnswerAdd(s)
               \/ AnswerRefresh(s) \/ ConnectFails(s) \/ Redirect(s)
User == \/ \E d \in Domains, p \in Providers : ClickAdd(d, p)
        \/ \E e \in Emails, p \in Providers, c \in DOMAIN names : ClickConnect(e, p, c)
        \/ \E i \in 1 .. list : ClickRefresh(i)
        \/ \E p \in {"mailboxes", "clients"} : GoTo(p)
        \/ Return
Others == \/ \E d \in Domains, p \in Providers \cup {Blank} : OthersAdd(d, p)
          \/ \E e \in Emails, p \in Providers, c \in DOMAIN clients : OthersConnect(e, p, c)
          \/ \E i \in DOMAIN boxes : OthersRefresh(i)

Progress == Handshake \/ Deliver \/ \E s \in Slots : RequestStep(s)

Next == User \/ Others \/ Progress \/ LoseConnection \/ \E s \in Slots : Lose(s)

(* Requests are answered, the socket connects and delivers: as long as one *)
(* of these can happen, one of them does.  No fairness for users.          *)
Fairness == WF_vars(Progress)

Spec == Init /\ [][Next]_vars /\ Fairness

-----------------------------------------------------------------------------
(* Properties.                                                             *)

(* The tab never makes a client of the same domain or a mailbox of the     *)
(* same address twice, although only its copies keep it from doing so: it  *)
(* takes a copy that is in doubt at the second click (an overtaken or a    *)
(* failed fetch, a missed announcement, a page left before its request was *)
(* through) or one cut off at ListLimit.                                   *)
RepeatHasCause ==
  /\ \A i, k \in DOMAIN clients :
       clients[i].by = "tab" /\ clients[k].by = "tab"
         /\ clients[i].domain = clients[k].domain => i = k
  /\ \A i, k \in DOMAIN boxes :
       boxes[i].by = "tab" /\ boxes[k].by = "tab"
         /\ boxes[i].email = boxes[k].email => i = k

(* When nothing is under way the page shows the table, unless its copy is  *)
(* in doubt.  The clients page also shows the providers of the clients,    *)
(* although nothing announces that a client was bound.                     *)
QuietPageIsCurrent ==
  online /\ news = <<>> /\ doubts = {} /\ (\A s \in Slots : req[s].kind = "idle")
    => /\ page = "mailboxes" => list = Len(boxes)
       /\ page = "clients" => names = clients

(* A Refresh button is disabled exactly as long as one refresh of its row  *)
(* is under way on this page: the PATCH, or the fetch that follows it.     *)
Refreshes(i) == {s \in Slots : /\ req[s].id = i /\ req[s].mine
                              /\ "refresh" \in {req[s].kind, req[s].then}}
OneRefreshPerRow ==
  \A i \in 1 .. Len(boxes) :
    IF i \in refreshing THEN \E s \in Slots : Refreshes(i) = {s}
    ELSE Refreshes(i) = {}

(* A user is sent to a provider for a client that has another one only if  *)
(* somebody else bound the client meanwhile: the fetch after a return from *)
(* the provider comes before the next choice.                              *)
RefusalsAreForeign ==
  page = "away" /\ Refused(trip) => clients[trip.client].binder = "others"

(* Whatever fails and in whichever order answers come, in the end nothing  *)
(* keeps a page from being used: no overlay, no button disabled for good.  *)
NothingSticks ==
  <>[](page = "away" \/ (~loading /\ ~busy /\ refreshing = {}))
=============================================================================
