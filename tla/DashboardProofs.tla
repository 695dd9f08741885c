-------------------------- MODULE DashboardProofs --------------------------
(***************************************************************************)
(* For any domains, addresses, slots, limits and bounds: type correctness  *)
(* of Dashboard and the four invariants TLC checks of it.  Each builds on  *)
(* the one before:                                                         *)
(*   IInv      what the answer of a request may be used for (Sound), that  *)
(*             a tab without a connection or away at a provider has no     *)
(*             announcements waiting (Detached), and that a row's Refresh  *)
(*             button is disabled as long as one request works on it;      *)
(*   CopyInv   copies and answers are earlier versions of the tables;      *)
(*   RenewInv  the page is current, or will be fetched again, or in doubt; *)
(*   OnceInv   what the tab made once is on the copy by which it decides.  *)
(***************************************************************************)
EXTENDS Dashboard, FiniteSetTheorems, TLAPS

Gets == {"mailboxes", "clients"}

(* A request whose answer can be used with a client table of n rows.       *)
Sound(q, n) ==
  /\ q \in Request
  /\ Len(q.answer) <= n
  /\ q.kind = "add" => q.wish \in Client
  /\ q.kind = "connect" => q.wish \in Box /\ q.wish.client \in 1 .. n
  /\ q.then = "refresh" => q.kind = "mailboxes"
  /\ q.kind \in Gets \/ q.at # "sent" => q.mine

(* A table of n rows answers for all requests rs.                          *)
AllSound(rs, n) == rs \in [Slots -> Request] /\ \A s \in Slots : Sound(rs[s], n)

Detached == /\ ~online => news = <<>>
            /\ page = "away" => ~online /\ refreshing = {}

(* OneRefreshPerRow, also of rows that the table does not have.            *)
Works(q, i) == q.id = i /\ q.mine /\ "refresh" \in {q.kind, q.then}
Rows == \A i \in Nat : IF i \in refreshing THEN \E s \in Slots : Refreshes(i) = {s}
                       ELSE Refreshes(i) = {}

IInv == /\ TypeOK
        /\ AllSound(req, Len(clients))
        /\ Len(names) <= Len(clients)
        /\ Detached
        /\ Rows

-----------------------------------------------------------------------------
(* Requests.                                                               *)

LEMMA LenClients == TypeOK => Len(clients) \in Nat /\ DOMAIN clients = 1 .. Len(clients)
BY DEF TypeOK

LEMMA SoundGrows ==
  ASSUME NEW q, NEW n \in Nat, NEW m \in Nat, n <= m, Sound(q, n)
  PROVE  Sound(q, m)
<1>1. Len(q.answer) \in Nat
  BY DEF Sound, Request
<1> QED
  BY <1>1 DEF Sound

LEMMA AllSoundGrow ==
  ASSUME NEW rs, NEW n \in Nat, NEW m \in Nat, n <= m, AllSound(rs, n)
  PROVE  AllSound(rs, m)
BY SoundGrows DEF AllSound

LEMMA AskSound ==
  ASSUME NEW n \in Nat, NEW k \in Kind, NEW a \in {"nothing", "mount", "add", "refresh"},
         NEW w \in Client \cup Box \cup {NoTrip}, NEW i \in Nat,
         k = "add" => w \in Client,
         k = "connect" => w \in Box /\ w.client \in 1 .. n,
         a = "refresh" => k = "mailboxes"
  PROVE  Sound(Ask(k, a, w, i), n)
<1>1. <<>> \in Seq(Client) /\ Len(<<>>) = 0
  OBVIOUS
<1>2. Ask(k, a, w, i) \in Request
  BY <1>1 DEF Ask, Request
<1> QED
  BY <1>1, <1>2 DEF Ask, Sound, Gets

LEMMA IdleSound == ASSUME NEW n \in Nat PROVE Sound(Idle, n)
BY AskSound DEF Idle, Kind

LEMMA GetSound ==
  ASSUME NEW n \in Nat, NEW k \in Gets, NEW a \in {"nothing", "mount", "add", "refresh"},
         NEW i \in Nat, a = "refresh" => k = "mailboxes"
  PROVE  Sound(Get(k, a, i), n)
BY AskSound DEF Get, Gets, Kind

(* A new request takes a free slot.                                        *)
LEMMA SentTakesFree ==
  ASSUME NEW rs \in [Slots -> Request], NEW q, Free(rs) # {}
  PROVE  \E t \in Free(rs) : Sent(rs, q) = [rs EXCEPT ![t] = q]
BY DEF Sent

LEMMA RoomIsFree == ASSUME NEW rs, Cardinality(Free(rs)) >= 1 PROVE Free(rs) # {}
BY FS_EmptySet

LEMMA SoundExcept ==
  ASSUME NEW n \in Nat, NEW rs, AllSound(rs, n), NEW t \in Slots, NEW q, Sound(q, n)
  PROVE  AllSound([rs EXCEPT ![t] = q], n)
BY DEF AllSound, Sound

LEMMA SentSound ==
  ASSUME NEW n \in Nat, NEW rs, AllSound(rs, n), NEW q, Sound(q, n), Free(rs) # {}
  PROVE  AllSound(Sent(rs, q), n)
<1>1. PICK t \in Free(rs) : Sent(rs, q) = [rs EXCEPT ![t] = q]
  BY SentTakesFree DEF AllSound
<1>2. t \in Slots
  BY DEF Free
<1>3. AllSound([rs EXCEPT ![t] = q], n)
  BY <1>2, SoundExcept
<1> QED
  BY <1>1, <1>3

LEMMA OrphanedSound ==
  ASSUME NEW n \in Nat, NEW rs, AllSound(rs, n),
         NEW kept \in SUBSET {"add", "connect", "refresh"}
  PROVE  AllSound(Orphaned(rs, kept), n)
<1>1. ASSUME NEW s \in Slots, rs[s].kind \in kept, rs[s].at = "sent"
      PROVE  Sound([rs[s] EXCEPT !.mine = FALSE], n)
  <2>1. Sound(rs[s], n) /\ rs[s].kind \notin Gets
    BY <1>1 DEF AllSound, Gets
  <2> DEFINE q == [rs[s] EXCEPT !.mine = FALSE]
  <2>2. /\ q \in Request /\ q.mine = FALSE
        /\ q.answer = rs[s].answer /\ q.kind = rs[s].kind /\ q.wish = rs[s].wish
        /\ q.then = rs[s].then /\ q.at = rs[s].at
    BY <2>1 DEF Sound, Request
  <2> HIDE DEF q
  <2>3. Sound(q, n)
    BY <1>1, <2>1, <2>2 DEF Sound
  <2> QED
    BY <2>3 DEF q
<1>2. \A s \in Slots : Sound(Orphaned(rs, kept)[s], n)
  BY <1>1, IdleSound DEF Orphaned
<1>3. Orphaned(rs, kept) \in [Slots -> Request]
  BY <1>2 DEF Orphaned, Sound
<1> QED
  BY <1>2, <1>3 DEF AllSound

(* What a page leaves behind works on no row.                              *)
LEMMA OrphanedIdle ==
  ASSUME NEW rs, NEW n \in Nat, AllSound(rs, n), NEW kept, NEW s \in Slots, NEW i
  PROVE  ~Works(Orphaned(rs, kept)[s], i)
<1>1. rs[s] \in Request
  BY DEF AllSound
<1>2. [rs[s] EXCEPT !.mine = FALSE].mine = FALSE
  BY <1>1 DEF Request
<1> QED
  BY <1>2 DEF Orphaned, Works, Idle, Ask

LEMMA TwoFree ==
  ASSUME NEW rs \in [Slots -> Request], NEW q, NEW n \in Nat,
         Cardinality(Free(rs)) >= 2
  PROVE  Free(rs) # {} /\ Free(Sent(rs, q)) # {}
<1>1. Free(rs) # {}
  BY FS_EmptySet
<1>2. PICK t \in Free(rs) : Sent(rs, q) = [rs EXCEPT ![t] = q]
  BY <1>1, SentTakesFree
<1>3. \E u \in Free(rs) : u # t
  <2> SUFFICES ASSUME Free(rs) = {t} PROVE FALSE
    BY <1>2
  <2> QED
    BY FS_Singleton
<1>4. PICK u \in Free(rs) : u # t
  BY <1>3
<1>5. u \in Free(Sent(rs, q))
  BY <1>2, <1>4 DEF Free
<1> QED
  BY <1>1, <1>5

(* A page just mounted has sound requests, none of which works on a row.   *)
LEMMA MountSound ==
  ASSUME NEW n \in Nat, NEW rs, AllSound(rs, n), Cardinality(Free(rs)) >= 2,
         NEW p \in Gets
  PROVE  AllSound(MountRequests(p, rs), n)
<1> DEFINE a == Get("mailboxes", "mount", 0)
           b == Get("clients", "mount", 0)
<1>1. Sound(a, n) /\ Sound(b, n)
  BY GetSound DEF Gets
<1> HIDE DEF a, b
<1>2. Free(rs) # {} /\ Free(Sent(rs, a)) # {}
  BY TwoFree DEF AllSound
<1>3. AllSound(Sent(rs, a), n) /\ AllSound(Sent(rs, b), n)
  BY <1>1, <1>2, SentSound
<1>4. AllSound(Sent(Sent(rs, a), b), n)
  BY <1>1, <1>2, <1>3, SentSound
<1> QED
  BY <1>3, <1>4 DEF MountRequests, a, b

LEMMA SentIdle ==
  ASSUME NEW rs, NEW q, NEW s \in Slots, NEW i, DOMAIN rs = Slots,
         Free(rs) # {}, ~Works(q, i), ~Works(rs[s], i)
  PROVE  ~Works(Sent(rs, q)[s], i) /\ DOMAIN Sent(rs, q) = Slots
BY DEF Sent, Free

LEMMA GetIdle ==
  ASSUME NEW k, NEW a, NEW j, NEW i, k # "refresh", a # "refresh"
  PROVE  ~Works(Get(k, a, j), i)
BY DEF Get, Ask, Works

LEMMA MountIdle ==
  ASSUME NEW n \in Nat, NEW rs, AllSound(rs, n), Cardinality(Free(rs)) >= 2,
         NEW p, NEW s \in Slots, NEW i, ~Works(rs[s], i)
  PROVE  ~Works(MountRequests(p, rs)[s], i)
<1> DEFINE a == Get("mailboxes", "mount", 0)
           b == Get("clients", "mount", 0)
<1>1. ~Works(a, i) /\ ~Works(b, i)
  BY GetIdle
<1> HIDE DEF a, b
<1>2. Free(rs) # {} /\ Free(Sent(rs, a)) # {} /\ DOMAIN rs = Slots
  BY TwoFree DEF AllSound
<1>3. /\ ~Works(Sent(rs, a)[s], i) /\ DOMAIN Sent(rs, a) = Slots
      /\ ~Works(Sent(rs, b)[s], i)
  BY <1>1, <1>2, SentIdle
<1>4. ~Works(Sent(Sent(rs, a), b)[s], i)
  BY <1>1, <1>2, <1>3, SentIdle
<1> QED
  BY <1>3, <1>4 DEF MountRequests, a, b

-----------------------------------------------------------------------------
(* Rows.                                                                   *)

(* The buttons stay as they are, and so do the requests that work on rows. *)
LEMMA RowsKept ==
  ASSUME Rows, refreshing' = refreshing,
         \A s \in Slots, i \in Nat : Works(req[s], i)' = Works(req[s], i)
  PROVE  Rows'
<1>1. \A i \in Nat : Refreshes(i)' = Refreshes(i)
  BY DEF Refreshes, Works
<1> QED
  BY <1>1 DEF Rows

(* A new page: no button is disabled and no request works on a row.        *)
LEMMA RowsCleared ==
  ASSUME refreshing' = {}, \A s \in Slots, i \in Nat : ~Works(req'[s], i)
  PROVE  Rows'
<1>1. \A i \in Nat : Refreshes(i)' = {}
  BY DEF Refreshes, Works
<1> QED
  BY <1>1 DEF Rows

LEMMA RowsCount ==
  ASSUME NEW i \in Nat PROVE Refreshes(i) = {s \in Slots : Works(req[s], i)}
BY DEF Refreshes, Works

-----------------------------------------------------------------------------
(* The types of what everybody shares.                                     *)

LEMMA InitIInv == Init => IInv
<1> SUFFICES ASSUME Init PROVE IInv
  OBVIOUS
<1> DEFINE none == [s \in Slots |-> Idle]
<1>1. /\ clients \in Seq(Client) /\ boxes \in Seq(Box)
  <2>1. CASE clients = <<>> /\ boxes = <<>>
    BY <2>1
  <2>2. CASE \E d \in Domains, e \in Emails, p \in Providers :
               /\ clients = <<Foreign(d, p)>>
               /\ boxes = <<[email |-> e, prov |-> p, client |-> 1, by |-> "others"]>>
    <3>1. PICK d \in Domains, e \in Emails, p \in Providers :
               /\ clients = <<Foreign(d, p)>>
               /\ boxes = <<[email |-> e, prov |-> p, client |-> 1, by |-> "others"]>>
      BY <2>2
    <3>2. /\ Foreign(d, p) \in Client
          /\ [email |-> e, prov |-> p, client |-> 1, by |-> "others"] \in Box
      BY DEF Foreign, Client, Box, Maker
    <3> QED
      BY <3>1, <3>2
  <2> QED
    BY <2>1, <2>2 DEF Init
<1>2. Len(clients) \in Nat
  BY <1>1
<1>3. AllSound(none, Len(clients))
  BY <1>2, IdleSound DEF AllSound, Sound
<1>4. \A s \in Slots, i \in Nat : ~Works(none[s], i)
  BY DEF Works, Idle, Ask
<1>5. Free(none) = Slots
  BY DEF Free, Idle, Ask
<1>6. Cardinality(Free(none)) >= 2
  BY <1>5, DashboardAssumption
<1> HIDE DEF none
<1>7. page \in Gets /\ req = MountRequests(page, none) /\ refreshing = {}
  BY DEF Init, Gets, none
<1>8. AllSound(req, Len(clients))
  BY <1>2, <1>3, <1>6, <1>7, MountSound
<1>9. \A s \in Slots, i \in Nat : ~Works(req[s], i)
  BY <1>2, <1>3, <1>4, <1>6, <1>7, MountIdle
<1>10. Rows
  BY <1>7, <1>9, RowsCount DEF Rows
<1>11. TypeOK
  <2>1. names = <<>> /\ news = <<>> /\ list = 0 /\ doubts = {} /\ clicks = 0 /\ faults = 0
    BY DEF Init
  <2>2. names \in Seq(Client) /\ news \in Seq(Announcement)
    BY <2>1
  <2>3. trip = NoTrip /\ loading = TRUE /\ busy = FALSE /\ online = FALSE /\ page # "away"
    BY DEF Init
  <2> QED
    BY <1>1, <1>7, <1>8, <2>1, <2>2, <2>3 DEF TypeOK, AllSound, Gets
<1> QED
  BY <1>2, <1>8, <1>10, <1>11 DEF Init, IInv, Detached

(* Handlers that touch neither the requests nor the buttons.               *)
LEMMA TellType ==
  ASSUME TypeOK, Detached, NEW what \in Announcement, Tell(what),
         UNCHANGED <<online, page, refreshing>>
  PROVE  news' \in Seq(Announcement) /\ doubts' \subseteq Doubt /\ Detached'
<1>1. news \in Seq(Announcement) /\ Append(news, what) \in Seq(Announcement)
  BY DEF TypeOK
<1>2. doubts \subseteq Doubt /\ doubts \cup {"missed"} \subseteq Doubt
  BY DEF TypeOK, Doubt
<1> QED
  BY <1>1, <1>2 DEF Tell, Detached

LEMMA OthersAddKeepsIInv ==
  ASSUME IInv, NEW d \in Domains, NEW p \in Providers \cup {Blank}, OthersAdd(d, p)
  PROVE  IInv'
<1> USE DEF IInv
<1>1. Foreign(d, p) \in Client
  BY DEF Foreign, Client, Maker
<1>2. clients' \in Seq(Client) /\ Len(clients') = Len(clients) + 1 /\ Len(clients) \in Nat
  BY <1>1 DEF OthersAdd, TypeOK
<1>3. AllSound(req', Len(clients'))
  BY <1>2, AllSoundGrow DEF OthersAdd
<1>4. Rows'
  BY RowsKept DEF OthersAdd, flags
<1>5. news' \in Seq(Announcement) /\ doubts' \subseteq Doubt /\ Detached'
  BY TellType DEF OthersAdd, Announcement, flags
<1>6. page = "away" => trip.client \in DOMAIN clients'
  BY <1>2, LenClients DEF TypeOK
<1>7. TypeOK'
  BY <1>2, <1>5, <1>6, DashboardAssumption DEF TypeOK, OthersAdd, Click, copies, flags
<1> QED
  BY <1>2, <1>3, <1>4, <1>5, <1>7 DEF OthersAdd, copies, TypeOK

(* saveTokens keeps every client in its place.                             *)
LEMMA SaveType ==
  ASSUME TypeOK, NEW w \in Box, w.client \in DOMAIN clients,
         NEW who \in {"tab", "others"}, Save(w, who)
  PROVE  /\ clients' \in Seq(Client) /\ Len(clients') = Len(clients)
         /\ boxes' \in Seq(Box)
<1>1. clients[w.client] \in Client /\ w.prov \in Providers /\ clients \in Seq(Client)
  BY DEF TypeOK, Box
<1> DEFINE c == clients[w.client]
           bound == [domain |-> c.domain, prov |-> w.prov, by |-> c.by, binder |-> who]
<1>2. bound \in Client
  BY <1>1 DEF Client
<1>3. clients' = clients \/ clients' = [clients EXCEPT ![w.client] = bound]
  BY DEF Save
<1> HIDE DEF bound
<1>4. clients' \in Seq(Client) /\ Len(clients') = Len(clients)
  BY <1>1, <1>2, <1>3
<1>5. boxes' \in Seq(Box)
  BY DEF Save, TypeOK
<1> QED
  BY <1>4, <1>5

LEMMA OthersConnectKeepsIInv ==
  ASSUME IInv, NEW e \in Emails, NEW p \in Providers, NEW c \in DOMAIN clients,
         OthersConnect(e, p, c)
  PROVE  IInv'
<1> USE DEF IInv
<1> DEFINE w == [email |-> e, prov |-> p, client |-> c, by |-> "others"]
<1>1. w \in Box /\ w.client \in DOMAIN clients
  BY LenClients DEF Box, Maker
<1>2. Save(w, "others") /\ Tell(IF Known(w) THEN "mailboxUpdated" ELSE "mailboxAdded")
  BY DEF OthersConnect
<1> HIDE DEF w
<1>3. clients' \in Seq(Client) /\ Len(clients') = Len(clients) /\ boxes' \in Seq(Box)
  BY <1>1, <1>2, SaveType
<1>4. AllSound(req', Len(clients'))
  BY <1>3 DEF OthersConnect
<1>5. Rows'
  BY RowsKept DEF OthersConnect, flags
<1>6. news' \in Seq(Announcement) /\ doubts' \subseteq Doubt /\ Detached'
  BY <1>2, TellType DEF OthersConnect, Announcement, flags
<1>7. page = "away" => trip.client \in DOMAIN clients'
  BY <1>3 DEF TypeOK
<1>8. TypeOK'
  BY <1>3, <1>6, <1>7, DashboardAssumption DEF TypeOK, OthersConnect, Click, copies, flags
<1> QED
  BY <1>3, <1>4, <1>5, <1>6, <1>8 DEF OthersConnect, copies

LEMMA OthersRefreshKeepsIInv ==
  ASSUME IInv, NEW i \in DOMAIN boxes, OthersRefresh(i)
  PROVE  IInv'
<1> USE DEF IInv, OthersRefresh, database, copies, flags
<1>1. Rows'
  BY RowsKept
<1>2. news' \in Seq(Announcement) /\ doubts' \subseteq Doubt /\ Detached'
  BY TellType DEF Announcement
<1>3. TypeOK'
  BY <1>2, DashboardAssumption DEF TypeOK, Click
<1> QED
  BY <1>1, <1>2, <1>3

LEMMA HandshakeKeepsIInv == ASSUME IInv, Handshake PROVE IInv'
<1> USE DEF IInv, Handshake, database, copies, flags
<1>1. Rows'
  BY RowsKept
<1>2. TypeOK'
  BY DEF TypeOK
<1> QED
  BY <1>1, <1>2 DEF Detached

LEMMA LoseConnectionKeepsIInv == ASSUME IInv, LoseConnection PROVE IInv'
<1> USE DEF IInv, LoseConnection, database, copies, flags
<1>1. Rows'
  BY RowsKept
<1>2. TypeOK'
  <2>1. <<>> \in Seq(Announcement)
    OBVIOUS
  <2>2. doubts' \subseteq Doubt
    BY DEF TypeOK, Doubt
  <2>3. faults' \in Nat
    BY DEF TypeOK, Fault
  <2> QED
    BY <2>1, <2>2, <2>3 DEF TypeOK
<1> QED
  BY <1>1, <1>2 DEF Detached

-----------------------------------------------------------------------------
(* The user of the tab.                                                    *)

LEMMA RowsSent ==
  ASSUME Rows, NEW n, AllSound(req, n), Free(req) # {}, NEW q,
         \A i \in Nat : ~Works(q, i), req' = Sent(req, q), refreshing' = refreshing
  PROVE  Rows'
<1>1. PICK t \in Free(req) : req' = [req EXCEPT ![t] = q]
  BY SentTakesFree DEF AllSound
<1>2. \A i \in Nat : ~Works(req[t], i)
  BY DEF AllSound, Sound, Works, Free
<1>3. \A s \in Slots, i \in Nat : Works(req'[s], i) = Works(req[s], i)
  BY <1>1, <1>2 DEF AllSound, Free, Works
<1> QED
  BY <1>3, RowsKept DEF Works

LEMMA SlotTypes == ASSUME IInv PROVE req \in [Slots -> Request]
BY DEF IInv, TypeOK

LEMMA DeliverKeepsIInv == ASSUME IInv, Deliver PROVE IInv'
<1> USE DEF IInv
<1>1. page \in Gets /\ Len(clients) \in Nat
  BY LenClients DEF Deliver, Detached, TypeOK, Gets
<1> DEFINE q == Get(page, "nothing", 0)
<1>2. Sound(q, Len(clients)) /\ \A i \in Nat : ~Works(q, i)
  BY <1>1, GetSound, GetIdle DEF Gets
<1> HIDE DEF q
<1>3. \/ req' = req
      \/ Free(req) # {} /\ req' = Sent(req, q)
  BY RoomIsFree DEF Deliver, HasRoom, q
<1>4. AllSound(req', Len(clients)) /\ Rows'
  <2>1. CASE req' = req
    BY <2>1, RowsKept DEF Deliver
  <2>2. CASE Free(req) # {} /\ req' = Sent(req, q)
    BY <2>2, <1>1, <1>2, SentSound, RowsSent DEF Deliver
  <2> QED
    BY <1>3, <2>1, <2>2
<1>5. news' \in Seq(Announcement) /\ loading' \in BOOLEAN
  <2>1. Tail(news) \in Seq(Announcement)
    BY DEF Deliver, TypeOK
  <2>2. loading' = loading \/ loading' = TRUE \/ loading' = (page = "mailboxes")
    BY DEF Deliver, TypeOK
  <2> QED
    BY <2>1, <2>2 DEF Deliver, TypeOK
<1>6. TypeOK'
  BY <1>4, <1>5 DEF Deliver, TypeOK, AllSound, database, copies
<1> QED
  BY <1>4, <1>6 DEF Deliver, Detached, database, copies

(* A page mounted over the requests rs that the page before left.          *)
LEMMA MountKeeps ==
  ASSUME NEW n \in Nat, NEW rs, AllSound(rs, n), NEW p \in Gets, Mount(p, rs),
         \A s \in Slots, i \in Nat : ~Works(rs[s], i)
  PROVE  /\ AllSound(req', n) /\ Rows' /\ Detached'
         /\ page' \in Gets /\ list' \in Nat /\ names' = <<>> /\ news' = <<>>
         /\ loading' \in BOOLEAN /\ refreshing' \subseteq Nat /\ busy' \in BOOLEAN
         /\ online' \in BOOLEAN /\ doubts' \subseteq Doubt
<1>1. AllSound(req', n) /\ \A s \in Slots, i \in Nat : ~Works(req'[s], i)
  BY MountSound, MountIdle DEF Mount
<1>2. Rows'
  BY <1>1, RowsCleared DEF Mount
<1>3. doubts' \subseteq Doubt
  BY DEF Mount, Doubt
<1> QED
  BY <1>1, <1>2, <1>3 DEF Mount, Detached, Gets

LEMMA GoToKeepsIInv ==
  ASSUME IInv, NEW p \in {"mailboxes", "clients"}, GoTo(p)
  PROVE  IInv'
<1> USE DEF IInv
<1> DEFINE rs == Orphaned(req, {"add", "connect", "refresh"})
<1>1. Len(clients) \in Nat /\ p \in Gets
  BY LenClients DEF Gets
<1>2. AllSound(rs, Len(clients)) /\ \A s \in Slots, i \in Nat : ~Works(rs[s], i)
  BY <1>1, OrphanedSound, OrphanedIdle
<1>3. Mount(p, rs)
  BY DEF GoTo
<1> HIDE DEF rs
<1>4. /\ AllSound(req', Len(clients)) /\ Rows' /\ Detached'
      /\ page' \in Gets /\ list' \in Nat /\ names' = <<>> /\ news' = <<>>
      /\ loading' \in BOOLEAN /\ refreshing' \subseteq Nat /\ busy' \in BOOLEAN
      /\ online' \in BOOLEAN /\ doubts' \subseteq Doubt
  BY <1>1, <1>2, <1>3, MountKeeps
<1>5. names' \in Seq(Client) /\ news' \in Seq(Announcement) /\ Len(names') = 0
  BY <1>4
<1>6. TypeOK'
  BY <1>4, <1>5 DEF GoTo, Click, TypeOK, AllSound, database, Gets
<1> QED
  BY <1>1, <1>4, <1>5, <1>6 DEF GoTo, database

LEMMA ClickAddKeepsIInv ==
  ASSUME IInv, NEW d \in Domains, NEW p \in Providers, ClickAdd(d, p)
  PROVE  IInv'
<1> USE DEF IInv
<1> DEFINE w == [domain |-> d, prov |-> p, by |-> MakerNow(Len(names)), binder |-> "nobody"]
           q == Ask("add", "nothing", w, 0)
<1>1. Len(clients) \in Nat
  BY LenClients
<1>2. w \in Client
  BY DEF Client, Maker, MakerNow
<1> HIDE DEF w
<1>3. Sound(q, Len(clients)) /\ \A i \in Nat : ~Works(q, i)
  BY <1>1, <1>2, AskSound DEF Kind, Works, Ask
<1>4. Free(req) # {} /\ req' = Sent(req, q)
  BY RoomIsFree DEF ClickAdd, HasRoom, w
<1> HIDE DEF q
<1>5. AllSound(req', Len(clients))
  BY <1>1, <1>3, <1>4, SentSound
<1>6. Rows'
  BY <1>1, <1>3, <1>4, RowsSent DEF ClickAdd
<1>7. TypeOK'
  BY <1>5 DEF ClickAdd, Click, TypeOK, AllSound, database, copies, socket
<1> QED
  BY <1>5, <1>6, <1>7 DEF ClickAdd, Detached, database, copies, socket

LEMMA ClickConnectKeepsIInv ==
  ASSUME IInv, NEW e \in Emails, NEW p \in Providers, NEW c \in DOMAIN names,
         ClickConnect(e, p, c)
  PROVE  IInv'
<1> USE DEF IInv
<1> DEFINE w == [email |-> e, prov |-> p, client |-> c, by |-> MakerNow(list)]
           q == Ask("connect", "nothing", w, 0)
<1>1. Len(clients) \in Nat
  BY LenClients
<1>2. w \in Box /\ w.client \in 1 .. Len(clients)
  <2>1. c \in 1 .. Len(clients)
    BY <1>1 DEF TypeOK
  <2> QED
    BY <1>1, <2>1 DEF Box, Maker, MakerNow
<1> HIDE DEF w
<1>3. Sound(q, Len(clients)) /\ \A i \in Nat : ~Works(q, i)
  BY <1>1, <1>2, AskSound DEF Kind, Works, Ask
<1>4. Free(req) # {} /\ req' = Sent(req, q)
  BY RoomIsFree DEF ClickConnect, HasRoom, w
<1> HIDE DEF q
<1>5. AllSound(req', Len(clients))
  BY <1>1, <1>3, <1>4, SentSound
<1>6. Rows'
  BY <1>1, <1>3, <1>4, RowsSent DEF ClickConnect
<1>7. TypeOK'
  BY <1>5 DEF ClickConnect, Click, TypeOK, AllSound, database, copies, socket
<1> QED
  BY <1>5, <1>6, <1>7 DEF ClickConnect, Detached, database, copies, socket

(* The click that starts work on a row: nothing else works on it.          *)
LEMMA ClickRefreshKeepsIInv ==
  ASSUME IInv, NEW i \in 1 .. list, ClickRefresh(i)
  PROVE  IInv'
<1> USE DEF IInv
<1> DEFINE q == Ask("refresh", "nothing", NoTrip, i)
<1>1. Len(clients) \in Nat /\ i \in Nat
  BY LenClients DEF TypeOK
<1>2. Sound(q, Len(clients))
  BY <1>1, AskSound DEF Kind
<1>3. q.id = i /\ Works(q, i) /\ \A k \in Nat : k # i => ~Works(q, k)
  BY DEF Works, Ask
<1>4. Free(req) # {} /\ req' = Sent(req, q)
  BY RoomIsFree DEF ClickRefresh, HasRoom
<1> HIDE DEF q
<1>5. AllSound(req', Len(clients))
  BY <1>1, <1>2, <1>4, SentSound
<1>6. PICK t \in Free(req) : req' = [req EXCEPT ![t] = q]
  BY <1>4, SentTakesFree DEF AllSound
<1>7. t \in Slots /\ \A k \in Nat : ~Works(req[t], k)
  BY <1>6 DEF AllSound, Sound, Works, Free
<1>8. Rows'
  <2> SUFFICES ASSUME NEW k \in Nat
               PROVE  (IF k \in refreshing THEN \E s \in Slots : Refreshes(k) = {s}
                       ELSE Refreshes(k) = {})'
    BY DEF Rows
  <2>1. Refreshes(k) = {s \in Slots : Works(req[s], k)}
    BY RowsCount
  <2>2. Refreshes(k)' = {s \in Slots : Works(req'[s], k)}
    BY DEF Refreshes, Works
  <2>3. \A s \in Slots \ {t} : req'[s] = req[s]
    BY <1>6 DEF AllSound
  <2>4. req'[t] = q
    BY <1>6, <1>7 DEF AllSound
  <2>5. CASE k = i
    <3>1. Refreshes(i) = {}
      BY <1>1 DEF ClickRefresh, Rows
    <3>2. Refreshes(i)' = {t}
      BY <1>3, <1>7, <2>1, <2>2, <2>3, <2>4, <2>5, <3>1
    <3> QED
      BY <1>7, <2>5, <3>2 DEF ClickRefresh
  <2>6. CASE k # i
    <3>1. Refreshes(k)' = Refreshes(k)
      BY <1>3, <1>7, <2>1, <2>2, <2>3, <2>4, <2>6
    <3>2. k \in refreshing' <=> k \in refreshing
      BY <2>6 DEF ClickRefresh
    <3> QED
      BY <3>1, <3>2 DEF Rows
  <2> QED
    BY <2>5, <2>6
<1>9. TypeOK'
  BY <1>1, <1>5 DEF ClickRefresh, Click, TypeOK, AllSound, database, copies, socket
<1> QED
  BY <1>5, <1>8, <1>9 DEF ClickRefresh, Detached, database, copies, socket

-----------------------------------------------------------------------------
(* The API.                                                                *)

(* One request changes, and works on a row as it did.                      *)
LEMMA RowsReplaced ==
  ASSUME Rows, req \in [Slots -> Request], NEW s \in Slots, NEW q,
         req' = [req EXCEPT ![s] = q], refreshing' = refreshing,
         \A i \in Nat : Works(q, i) = Works(req[s], i)
  PROVE  Rows'
<1>1. \A t \in Slots, i \in Nat : Works(req'[t], i) = Works(req[t], i)
  BY DEF Works
<1> QED
  BY <1>1, RowsKept DEF Works

LEMMA AnsweredSound ==
  ASSUME NEW n \in Nat, NEW q, Sound(q, n), q.mine, NEW a \in {"done", "failed"}
  PROVE  /\ Sound([q EXCEPT !.at = a], n)
         /\ \A i \in Nat : Works([q EXCEPT !.at = a], i) = Works(q, i)
<1> DEFINE x == [q EXCEPT !.at = a]
<1>1. /\ x \in Request /\ x.mine = q.mine
      /\ x.answer = q.answer /\ x.kind = q.kind /\ x.wish = q.wish
      /\ x.then = q.then /\ x.id = q.id
  BY DEF Sound, Request
<1> HIDE DEF x
<1>2. Sound(x, n) /\ \A i \in Nat : Works(x, i) = Works(q, i)
  BY <1>1 DEF Sound, Works
<1> QED
  BY <1>2 DEF x

LEMMA CountedSound ==
  ASSUME NEW n \in Nat, NEW q, Sound(q, n), q.kind \in Gets, NEW c \in Nat
  PROVE  /\ Sound([q EXCEPT !.at = "done", !.count = c], n)
         /\ \A i \in Nat : Works([q EXCEPT !.at = "done", !.count = c], i) = Works(q, i)
<1> DEFINE x == [q EXCEPT !.at = "done", !.count = c]
<1>1. /\ x \in Request /\ x.mine = q.mine
      /\ x.answer = q.answer /\ x.kind = q.kind /\ x.wish = q.wish
      /\ x.then = q.then /\ x.id = q.id
  BY DEF Sound, Request
<1> HIDE DEF x
<1>2. Sound(x, n) /\ \A i \in Nat : Works(x, i) = Works(q, i)
  BY <1>1 DEF Sound, Works
<1> QED
  BY <1>2 DEF x

LEMMA ListedSound ==
  ASSUME NEW n \in Nat, NEW q, Sound(q, n), q.kind \in Gets,
         NEW cs \in Seq(Client), Len(cs) <= n
  PROVE  /\ Sound([q EXCEPT !.at = "done", !.answer = cs], n)
         /\ \A i \in Nat : Works([q EXCEPT !.at = "done", !.answer = cs], i) = Works(q, i)
<1> DEFINE x == [q EXCEPT !.at = "done", !.answer = cs]
<1>1. /\ x \in Request /\ x.mine = q.mine
      /\ x.answer = cs /\ x.kind = q.kind /\ x.wish = q.wish
      /\ x.then = q.then /\ x.id = q.id
  BY DEF Sound, Request
<1> HIDE DEF x
<1>2. Sound(x, n) /\ \A i \in Nat : Works(x, i) = Works(q, i)
  BY <1>1 DEF Sound, Works, Gets
<1> QED
  BY <1>2 DEF x

LEMMA IdleWorks == ASSUME NEW i PROVE ~Works(Idle, i)
BY DEF Works, Idle, Ask

(* One request changes and stays sound.                                    *)
LEMMA Replaced ==
  ASSUME NEW n \in Nat, AllSound(req, n), Rows, NEW s \in Slots, NEW q, Sound(q, n),
         req' = [req EXCEPT ![s] = q], refreshing' = refreshing,
         \A i \in Nat : Works(q, i) = Works(req[s], i)
  PROVE  AllSound(req', n) /\ Rows'
<1>1. req \in [Slots -> Request]
  BY DEF AllSound
<1>2. Rows'
  BY <1>1, RowsReplaced
<1>3. AllSound(req', n)
  BY SoundExcept
<1> QED
  BY <1>2, <1>3

LEMMA ServeKeepsIInv == ASSUME IInv, NEW s \in Slots, Serve(s) PROVE IInv'
<1> USE DEF IInv
<1> DEFINE n == Len(clients)
           q == req[s]
           x == IF q.kind = "mailboxes"
                THEN [q EXCEPT !.at = "done", !.count = Len(boxes)]
                ELSE [q EXCEPT !.at = "done", !.answer = clients]
<1>1. n \in Nat /\ Len(boxes) \in Nat /\ clients \in Seq(Client) /\ Len(clients) <= n
  BY LenClients DEF TypeOK
<1>2. AllSound(req, n) /\ Sound(q, n) /\ q.kind \in Gets
  BY DEF AllSound, Serve, Gets
<1>3. req' = [req EXCEPT ![s] = x] /\ refreshing' = refreshing
  BY DEF Serve, flags
<1>4. Sound(x, n) /\ \A i \in Nat : Works(x, i) = Works(q, i)
  <2> HIDE DEF n, q
  <2>1. CASE q.kind = "mailboxes"
    BY <1>1, <1>2, <2>1, CountedSound
  <2>2. CASE q.kind # "mailboxes"
    BY <1>1, <1>2, <2>2, ListedSound
  <2> QED
    BY <2>1, <2>2
<1> HIDE DEF n, x
<1>5. AllSound(req', n) /\ Rows'
  BY <1>1, <1>2, <1>3, <1>4, Replaced
<1>6. TypeOK'
  BY <1>5 DEF Serve, TypeOK, AllSound, database, copies, flags, socket
<1> QED
  BY <1>5, <1>6 DEF n, Serve, Detached, database, copies, flags, socket

(* A request that the server has executed, or that failed.                 *)
LEMMA Settled ==
  ASSUME IInv, NEW s \in Slots, NEW a \in {"done", "failed"}, refreshing' = refreshing,
         req' = [req EXCEPT ![s] = IF req[s].mine THEN [req[s] EXCEPT !.at = a] ELSE Idle]
  PROVE  AllSound(req', Len(clients)) /\ Rows'
<1> USE DEF IInv
<1> DEFINE n == Len(clients)
           q == req[s]
           x == IF q.mine THEN [q EXCEPT !.at = a] ELSE Idle
<1>1. n \in Nat /\ AllSound(req, n) /\ Sound(q, n)
  BY LenClients DEF AllSound
<1>2. req' = [req EXCEPT ![s] = x]
  OBVIOUS
<1>3. Sound(x, n) /\ \A i \in Nat : Works(x, i) = Works(q, i)
  <2> HIDE DEF n, q
  <2>1. CASE q.mine
    BY <1>1, <2>1, AnsweredSound
  <2>2. CASE ~q.mine
    BY <1>1, <2>2, IdleSound, IdleWorks DEF Works
  <2> QED
    BY <2>1, <2>2
<1> HIDE DEF n, x
<1>4. AllSound(req', n) /\ Rows'
  BY <1>1, <1>2, <1>3, Replaced
<1> QED
  BY <1>4 DEF n

LEMMA ExecuteAddKeepsIInv == ASSUME IInv, NEW s \in Slots, ExecuteAdd(s) PROVE IInv'
<1> USE DEF IInv
<1>1. req[s].wish \in Client
  BY DEF AllSound, Sound, ExecuteAdd
<1>2. clients' \in Seq(Client) /\ Len(clients') = Len(clients) + 1 /\ Len(clients) \in Nat
  BY <1>1 DEF ExecuteAdd, TypeOK
<1>3. AllSound(req', Len(clients)) /\ Rows'
  BY Settled DEF ExecuteAdd, Done, flags
<1>4. AllSound(req', Len(clients'))
  BY <1>2, <1>3, AllSoundGrow
<1>5. news' \in Seq(Announcement) /\ doubts' \subseteq Doubt /\ Detached'
  BY TellType DEF ExecuteAdd, Announcement, flags
<1>6. page = "away" => trip.client \in DOMAIN clients'
  BY <1>2, LenClients DEF TypeOK
<1>7. TypeOK'
  BY <1>2, <1>4, <1>5, <1>6 DEF TypeOK, ExecuteAdd, AllSound, copies, flags
<1> QED
  BY <1>2, <1>3, <1>4, <1>5, <1>7 DEF ExecuteAdd, copies, TypeOK

LEMMA ExecuteRefreshKeepsIInv ==
  ASSUME IInv, NEW s \in Slots, ExecuteRefresh(s)
  PROVE  IInv'
<1> USE DEF IInv
<1>1. AllSound(req', Len(clients)) /\ Rows'
  BY Settled DEF ExecuteRefresh, Done, flags
<1>2. news' \in Seq(Announcement) /\ doubts' \subseteq Doubt /\ Detached'
  BY TellType DEF ExecuteRefresh, Announcement, flags
<1>3. TypeOK'
  BY <1>1, <1>2 DEF TypeOK, ExecuteRefresh, AllSound, database, copies, flags
<1> QED
  BY <1>1, <1>2, <1>3 DEF ExecuteRefresh, database, copies

LEMMA LoseKeepsIInv == ASSUME IInv, NEW s \in Slots, Lose(s) PROVE IInv'
<1> USE DEF IInv
<1>1. AllSound(req', Len(clients)) /\ Rows'
  BY Settled DEF Lose, flags
<1>2. faults' \in Nat
  BY DEF Lose, Fault, TypeOK
<1>3. TypeOK'
  BY <1>1, <1>2 DEF TypeOK, Lose, AllSound, database, copies, flags, socket
<1> QED
  BY <1>1, <1>3 DEF Lose, Detached, database, copies, flags, socket

-----------------------------------------------------------------------------
(* Answers.                                                                *)

(* The fetch that ends the work on a row enables its button.               *)
LEMMA LandMailboxesKeepsRows ==
  ASSUME IInv, NEW s \in Slots, LandMailboxes(s)
  PROVE  Rows'
<1> USE DEF IInv
<1>1. /\ req \in [Slots -> Request] /\ Sound(req[s], Len(clients))
      /\ req' = [req EXCEPT ![s] = Idle]
      /\ req[s].kind = "mailboxes" /\ req[s].mine /\ req[s].id \in Nat
  BY DEF AllSound, LandMailboxes, Over, Sound, Request
<1>2. CASE req[s].then # "refresh"
  <2>1. \A i \in Nat : Works(Idle, i) = Works(req[s], i)
    BY <1>1, <1>2, IdleWorks DEF Works
  <2>2. refreshing' = refreshing
    BY <1>2 DEF LandMailboxes
  <2> QED
    BY <1>1, <2>1, <2>2, RowsReplaced
<1>3. CASE req[s].then = "refresh"
  <2> DEFINE r == req[s].id
  <2>1. r \in Nat /\ Works(req[s], r) /\ \A i \in Nat : i # r => ~Works(req[s], i)
    BY <1>1, <1>3 DEF Works
  <2>2. refreshing' = refreshing \ {r}
    BY <1>3 DEF LandMailboxes
  <2> HIDE DEF r
  <2>3. Refreshes(r) = {s}
    <3>1. s \in Refreshes(r)
      BY <2>1, RowsCount
    <3> QED
      BY <2>1, <3>1 DEF Rows
  <2> SUFFICES ASSUME NEW k \in Nat
               PROVE  (IF k \in refreshing THEN \E t \in Slots : Refreshes(k) = {t}
                       ELSE Refreshes(k) = {})'
    BY DEF Rows
  <2>4. Refreshes(k) = {t \in Slots : Works(req[t], k)}
    BY RowsCount
  <2>5. Refreshes(k)' = {t \in Slots : Works(req'[t], k)}
    BY DEF Refreshes, Works
  <2>6. ~Works(req'[s], k) /\ \A t \in Slots \ {s} : req'[t] = req[t]
    BY <1>1, IdleWorks
  <2>7. CASE k = r
    <3>1. Refreshes(k)' = {}
      BY <2>3, <2>4, <2>5, <2>6, <2>7
    <3> QED
      BY <2>2, <2>7, <3>1
  <2>8. CASE k # r
    <3>1. Refreshes(k)' = Refreshes(k)
      BY <2>1, <2>4, <2>5, <2>6, <2>8
    <3>2. k \in refreshing' <=> k \in refreshing
      BY <2>2, <2>8
    <3> QED
      BY <3>1, <3>2 DEF Rows
  <2> QED
    BY <2>7, <2>8
<1> QED
  BY <1>2, <1>3

LEMMA LandMailboxesKeepsIInv ==
  ASSUME IInv, NEW s \in Slots, LandMailboxes(s)
  PROVE  IInv'
<1> USE DEF IInv
<1>1. Rows'
  BY LandMailboxesKeepsRows
<1>2. Len(clients) \in Nat /\ req[s] \in Request
  BY LenClients DEF AllSound
<1>3. AllSound(req', Len(clients))
  BY <1>2, IdleSound, SoundExcept DEF LandMailboxes, Over
<1>4. list' \in Nat /\ doubts' \subseteq Doubt /\ refreshing' \subseteq Nat
  <2>1. req[s].count \in Nat
    BY <1>2 DEF Request
  <2>2. doubts' \subseteq doubts \cup {"failed", "regressed"}
    BY DEF LandMailboxes
  <2> QED
    BY <2>1, <2>2 DEF LandMailboxes, TypeOK, Doubt
<1>5. TypeOK'
  BY <1>3, <1>4 DEF LandMailboxes, TypeOK, AllSound, database, socket
<1> QED
  BY <1>1, <1>3, <1>5 DEF LandMailboxes, Detached, database, socket

(* A request that works on no row gives way to another one, or to none.    *)
LEMMA GivesWay ==
  ASSUME IInv, NEW s \in Slots, NEW q, Sound(q, Len(clients)),
         \A i \in Nat : ~Works(q, i) /\ ~Works(req[s], i),
         req' = [req EXCEPT ![s] = q], refreshing' = refreshing
  PROVE  AllSound(req', Len(clients)) /\ Rows'
<1> DEFINE n == Len(clients)
<1>1. n \in Nat /\ AllSound(req, n) /\ Rows /\ Sound(q, n)
  BY LenClients DEF IInv
<1>2. \A i \in Nat : Works(q, i) = Works(req[s], i)
  BY DEF Works
<1> HIDE DEF n
<1>3. AllSound(req', n) /\ Rows'
  BY <1>1, <1>2, Replaced
<1> QED
  BY <1>3 DEF n

LEMMA LandClientsKeepsIInv ==
  ASSUME IInv, NEW s \in Slots, LandClients(s)
  PROVE  IInv'
<1> USE DEF IInv
<1>1. Len(clients) \in Nat /\ Sound(req[s], Len(clients)) /\ Sound(Idle, Len(clients))
  BY LenClients, IdleSound DEF AllSound
<1>2. \A i \in Nat : ~Works(Idle, i) /\ ~Works(req[s], i)
  BY <1>1, IdleWorks DEF Works, Sound, LandClients
<1>3. req' = [req EXCEPT ![s] = Idle] /\ refreshing' = refreshing
  BY DEF LandClients, Over
<1>4. AllSound(req', Len(clients)) /\ Rows'
  BY <1>1, <1>2, <1>3, GivesWay
<1>5. names' \in Seq(Client) /\ Len(names') <= Len(clients)
  BY <1>1 DEF LandClients, Sound, Request, TypeOK
<1>6. doubts' \subseteq Doubt /\ loading' \in BOOLEAN /\ busy' \in BOOLEAN
  <2>1. doubts' \subseteq doubts \cup {"failed", "regressed"}
    BY DEF LandClients
  <2> QED
    BY <2>1 DEF LandClients, TypeOK, Doubt
<1>7. TypeOK'
  BY <1>4, <1>5, <1>6 DEF LandClients, TypeOK, AllSound, database, socket
<1> QED
  BY <1>4, <1>5, <1>7 DEF LandClients, Detached, database, socket

LEMMA AnswerAddKeepsIInv ==
  ASSUME IInv, NEW s \in Slots, AnswerAdd(s)
  PROVE  IInv'
<1> USE DEF IInv
<1> DEFINE get == Get("clients", "add", 0)
<1>1. Len(clients) \in Nat /\ Sound(req[s], Len(clients))
  BY LenClients DEF AllSound
<1>2. Sound(Idle, Len(clients)) /\ Sound(get, Len(clients))
  BY <1>1, IdleSound, GetSound DEF Gets
<1>3. \A i \in Nat : ~Works(Idle, i) /\ ~Works(get, i) /\ ~Works(req[s], i)
  BY <1>1, IdleWorks, GetIdle DEF Works, Sound, AnswerAdd
<1> HIDE DEF get
<1>4. /\ req' = [req EXCEPT ![s] = get] \/ req' = [req EXCEPT ![s] = Idle]
      /\ refreshing' = refreshing
  BY DEF AnswerAdd, Over, get
<1>5. AllSound(req', Len(clients)) /\ Rows'
  <2>1. CASE req' = [req EXCEPT ![s] = get]
    BY <1>2, <1>3, <1>4, <2>1, GivesWay
  <2>2. CASE req' = [req EXCEPT ![s] = Idle]
    BY <1>2, <1>3, <1>4, <2>2, GivesWay
  <2> QED
    BY <1>4, <2>1, <2>2
<1>6. doubts' \subseteq Doubt /\ busy' \in BOOLEAN
  BY DEF AnswerAdd, TypeOK, Doubt
<1>7. TypeOK'
  BY <1>5, <1>6 DEF AnswerAdd, TypeOK, AllSound, database, copies, socket
<1> QED
  BY <1>5, <1>7 DEF AnswerAdd, Detached, database, copies, socket

(* The PATCH hands its row over to the fetch that follows it.              *)
LEMMA AnswerRefreshKeepsIInv ==
  ASSUME IInv, NEW s \in Slots, AnswerRefresh(s)
  PROVE  IInv'
<1> USE DEF IInv
<1> DEFINE n == Len(clients)
           get == Get("mailboxes", "refresh", req[s].id)
<1>1. /\ n \in Nat /\ AllSound(req, n) /\ Sound(req[s], n) /\ req[s].id \in Nat
      /\ req[s].kind = "refresh" /\ req[s].mine
  BY LenClients DEF AllSound, AnswerRefresh, Sound, Request
<1>2. Sound(get, n)
  BY <1>1, GetSound DEF Gets
<1>3. \A i \in Nat : Works(get, i) = Works(req[s], i)
  BY <1>1 DEF Works, Get, Ask
<1>4. req' = [req EXCEPT ![s] = get] /\ refreshing' = refreshing
  BY DEF AnswerRefresh
<1> HIDE DEF n, get
<1>5. AllSound(req', n) /\ Rows'
  BY <1>1, <1>2, <1>3, <1>4, Replaced
<1>6. TypeOK'
  BY <1>5 DEF AnswerRefresh, TypeOK, AllSound, database, copies, socket
<1> QED
  BY <1>5, <1>6 DEF n, AnswerRefresh, Detached, database, copies, socket

LEMMA ConnectFailsKeepsIInv ==
  ASSUME IInv, NEW s \in Slots, ConnectFails(s)
  PROVE  IInv'
<1> USE DEF IInv
<1>1. Len(clients) \in Nat /\ Sound(req[s], Len(clients)) /\ Sound(Idle, Len(clients))
  BY LenClients, IdleSound DEF AllSound
<1>2. \A i \in Nat : ~Works(Idle, i) /\ ~Works(req[s], i)
  BY <1>1, IdleWorks DEF Works, Sound, ConnectFails
<1>3. req' = [req EXCEPT ![s] = Idle] /\ refreshing' = refreshing
  BY DEF ConnectFails, Over
<1>4. AllSound(req', Len(clients)) /\ Rows'
  BY <1>1, <1>2, <1>3, GivesWay
<1>5. TypeOK'
  BY <1>4 DEF ConnectFails, TypeOK, AllSound, database, copies, socket
<1> QED
  BY <1>4, <1>5 DEF ConnectFails, Detached, database, copies, socket

(* The client for which the user goes to the provider exists.              *)
LEMMA RedirectKeepsIInv ==
  ASSUME IInv, NEW s \in Slots, Redirect(s)
  PROVE  IInv'
<1> USE DEF IInv
<1>1. Len(clients) \in Nat /\ DOMAIN clients = 1 .. Len(clients)
  BY LenClients
<1>2. AllSound(req', Len(clients)) /\ \A t \in Slots, i \in Nat : ~Works(req'[t], i)
  BY <1>1, OrphanedSound, OrphanedIdle DEF Redirect
<1>3. Rows'
  BY <1>2, RowsCleared DEF Redirect
<1>4. trip' \in Box /\ trip'.client \in DOMAIN clients
  BY <1>1 DEF Redirect, AllSound, Sound
<1>5. names' = <<>> /\ news' = <<>> /\ Len(names') = 0
  BY DEF Redirect
<1>6. names' \in Seq(Client) /\ news' \in Seq(Announcement)
  BY <1>5
<1>7. TypeOK'
  BY <1>2, <1>4, <1>6 DEF Redirect, TypeOK, AllSound, database
<1> QED
  BY <1>1, <1>2, <1>3, <1>5, <1>7 DEF Redirect, Detached, database

LEMMA ReturnKeepsIInv == ASSUME IInv, Return PROVE IInv'
<1> USE DEF IInv
<1> DEFINE n == Len(clients)
<1>1. n \in Nat /\ "mailboxes" \in Gets /\ Mount("mailboxes", req)
  BY LenClients DEF Gets, Return
<1>2. clients' \in Seq(Client) /\ Len(clients') = Len(clients) /\ boxes' \in Seq(Box)
  BY SaveType DEF Return, TypeOK, database
<1>3. AllSound(req, n) /\ \A s \in Slots, i \in Nat : ~Works(req[s], i)
  <2>1. \A i \in Nat : Refreshes(i) = {}
    BY DEF Detached, Rows, Return
  <2> QED
    BY <2>1, RowsCount
<1> HIDE DEF n
<1>4. /\ AllSound(req', n) /\ Rows' /\ Detached'
      /\ page' \in Gets /\ list' \in Nat /\ names' = <<>> /\ news' = <<>>
      /\ loading' \in BOOLEAN /\ refreshing' \subseteq Nat /\ busy' \in BOOLEAN
      /\ online' \in BOOLEAN /\ doubts' \subseteq Doubt
  BY <1>1, <1>3, MountKeeps
<1>5. names' \in Seq(Client) /\ news' \in Seq(Announcement) /\ Len(names') = 0
  BY <1>4
<1>6. TypeOK'
  BY <1>2, <1>4, <1>5 DEF Return, TypeOK, AllSound, Gets
<1> QED
  BY <1>1, <1>2, <1>4, <1>5, <1>6 DEF n

-----------------------------------------------------------------------------
(* All steps.                                                              *)

LEMMA RequestStepKeepsIInv ==
  ASSUME IInv, NEW s \in Slots, RequestStep(s)
  PROVE  IInv'
BY ServeKeepsIInv, ExecuteAddKeepsIInv, ExecuteRefreshKeepsIInv, LandMailboxesKeepsIInv,
   LandClientsKeepsIInv, AnswerAddKeepsIInv, AnswerRefreshKeepsIInv,
   ConnectFailsKeepsIInv, RedirectKeepsIInv DEF RequestStep

LEMMA NextKeepsIInv == IInv /\ [Next]_vars => IInv'
<1> SUFFICES ASSUME IInv, [Next]_vars PROVE IInv'
  OBVIOUS
<1>1. CASE User
  BY <1>1, ClickAddKeepsIInv, ClickConnectKeepsIInv, ClickRefreshKeepsIInv,
     GoToKeepsIInv, ReturnKeepsIInv DEF User
<1>2. CASE Others
  BY <1>2, OthersAddKeepsIInv, OthersConnectKeepsIInv, OthersRefreshKeepsIInv DEF Others
<1>3. CASE Progress
  BY <1>3, HandshakeKeepsIInv, DeliverKeepsIInv, RequestStepKeepsIInv DEF Progress
<1>4. CASE LoseConnection
  BY <1>4, LoseConnectionKeepsIInv
<1>5. CASE \E s \in Slots : Lose(s)
  BY <1>5, LoseKeepsIInv
<1>6. CASE UNCHANGED vars
  <2> USE <1>6 DEF vars, database, copies, flags, socket
  <2>1. TypeOK' /\ Detached' /\ AllSound(req', Len(clients')) /\ Len(names') <= Len(clients')
    BY DEF IInv, TypeOK, Detached
  <2>2. Rows'
    BY RowsKept DEF IInv
  <2> QED
    BY <2>1, <2>2 DEF IInv
<1> QED
  BY <1>1, <1>2, <1>3, <1>4, <1>5, <1>6 DEF Next

LEMMA SpecKeepsIInv == Spec => []IInv
BY InitIInv, NextKeepsIInv, PTL DEF Spec

(* Every reachable state has the declared types; in particular the user is *)
(* never away for a client that does not exist.                            *)
THEOREM TypeCorrect == Spec => []TypeOK
<1>1. IInv => TypeOK
  BY DEF IInv
<1> QED
  BY <1>1, SpecKeepsIInv, PTL

(* However announcements and fetches of other rows interleave, fail and    *)
(* overtake each other, refreshMailbox has one request per row under way,  *)
(* and the button of the row is disabled just as long.                     *)
THEOREM RowsAreRefreshedOnce == Spec => []OneRefreshPerRow
<1>1. IInv => OneRefreshPerRow
  <2> SUFFICES ASSUME IInv, NEW i \in 1 .. Len(boxes)
               PROVE  IF i \in refreshing THEN \E s \in Slots : Refreshes(i) = {s}
                      ELSE Refreshes(i) = {}
    BY DEF OneRefreshPerRow
  <2>1. i \in Nat
    BY DEF IInv, TypeOK
  <2> QED
    BY <2>1 DEF IInv, Rows
<1> QED
  BY <1>1, SpecKeepsIInv, PTL

-----------------------------------------------------------------------------
(* Copies of the tables.  Between two returns from a provider a copy of    *)
(* the client table differs from the table only in rows added later and in *)
(* clients that others have bound since.                                   *)
Past(a, t) ==
  /\ Len(a) <= Len(t)
  /\ \A c \in DOMAIN a :
       \/ a[c] = t[c]
       \/ /\ a[c].domain = t[c].domain /\ a[c].by = t[c].by
          /\ a[c].prov = Blank /\ t[c].prov # Blank /\ t[c].binder = "others"

(* The client can be bound to the provider of w, unless others bound it.   *)
Fits(w, t) == t[w.client].prov \in {Blank, w.prov} \/ t[w.client].binder = "others"

(* What a request carries fits tables of which t has the clients and the   *)
(* other n rows.                                                           *)
Good(q, t, n) == /\ q.kind = "clients" => Past(q.answer, t)
                 /\ q.kind = "mailboxes" => q.count <= n
                 /\ q.kind = "connect" => Fits(q.wish, t)

Bound(bs, t) == \A i \in DOMAIN bs : /\ bs[i].client \in DOMAIN t
                                     /\ t[bs[i].client].prov = bs[i].prov

(* A request that the document has forgotten.                              *)
Forgotten(q) == q.kind = "idle" \/ (q.kind \in {"add", "refresh"} /\ ~q.mine)

CopyInv == /\ IInv
           /\ Bound(boxes, clients)
           /\ Past(names, clients) /\ list <= Len(boxes)
           /\ \A s \in Slots : Good(req[s], clients, Len(boxes))
           /\ page = "away" => Fits(trip, clients) /\ \A s \in Slots : Forgotten(req[s])

LEMMA PastOfItself ==
  ASSUME NEW t \in Seq(Client) PROVE Past(t, t) /\ Past(<<>>, t)
BY DEF Past

LEMMA PastOfPast ==
  ASSUME NEW a \in Seq(Client), NEW t \in Seq(Client), NEW u \in Seq(Client),
         Past(a, t), Past(t, u)
  PROVE  Past(a, u)
<1>1. /\ Len(a) \in Nat /\ Len(t) \in Nat /\ Len(u) \in Nat
      /\ DOMAIN a = 1 .. Len(a) /\ DOMAIN t = 1 .. Len(t)
  OBVIOUS
<1>2. Len(a) <= Len(u) /\ DOMAIN a \subseteq DOMAIN t
  BY <1>1 DEF Past
<1> QED
  BY <1>2 DEF Past

LEMMA AppendedPast ==
  ASSUME NEW t \in Seq(Client), NEW x \in Client
  PROVE  Past(t, Append(t, x))
BY DEF Past

LEMMA FitsLater ==
  ASSUME NEW t \in Seq(Client), NEW u \in Seq(Client), Past(t, u), NEW w,
         w.client \in DOMAIN t, Fits(w, t)
  PROVE  Fits(w, u)
BY DEF Past, Fits

LEMMA RowsAreBound ==
  ASSUME NEW bs \in Seq(Box), NEW i \in DOMAIN bs
  PROVE  bs[i] \in Box /\ bs[i].prov # Blank
<1>1. bs[i] \in Box
  OBVIOUS
<1> QED
  BY <1>1, DashboardAssumption DEF Box

LEMMA BoundLater ==
  ASSUME NEW t \in Seq(Client), NEW u \in Seq(Client), Past(t, u), NEW bs \in Seq(Box),
         Bound(bs, t)
  PROVE  Bound(bs, u)
<1>1. DOMAIN t \subseteq DOMAIN u
  BY DEF Past
<1>2. \A i \in DOMAIN bs : bs[i].prov # Blank
  BY RowsAreBound
<1> QED
  BY <1>1, <1>2 DEF Past, Bound

LEMMA GoodLater ==
  ASSUME NEW t \in Seq(Client), NEW u \in Seq(Client), Past(t, u),
         NEW n \in Nat, NEW m \in Nat, n <= m, NEW q, Sound(q, Len(t)), Good(q, t, n)
  PROVE  Good(q, u, m)
<1>1. q.answer \in Seq(Client) /\ q.count \in Nat
  BY DEF Sound, Request
<1>2. q.kind = "clients" => Past(q.answer, u)
  BY <1>1, PastOfPast DEF Good
<1>3. q.kind = "mailboxes" => q.count <= m
  BY <1>1 DEF Good
<1>4. q.kind = "connect" => Fits(q.wish, u)
  BY FitsLater DEF Good, Sound
<1> QED
  BY <1>2, <1>3, <1>4 DEF Good

LEMMA AskGood ==
  ASSUME NEW t \in Seq(Client), NEW n \in Nat, NEW k, NEW a, NEW w, NEW i,
         k = "connect" => Fits(w, t)
  PROVE  Good(Ask(k, a, w, i), t, n)
BY PastOfItself DEF Good, Ask

LEMMA GetGood ==
  ASSUME NEW t \in Seq(Client), NEW n \in Nat, NEW k \in Gets, NEW a, NEW i
  PROVE  Good(Get(k, a, i), t, n) /\ Good(Idle, t, n)
BY AskGood DEF Get, Idle, Gets

(* saveTokens finds the mailbox only if the client is already bound to its *)
(* provider, and otherwise adds it.                                        *)
LEMMA SaveBinds ==
  ASSUME TypeOK, Bound(boxes, clients), NEW w \in Box, w.client \in DOMAIN clients,
         NEW who \in {"tab", "others"}, Save(w, who)
  PROVE  /\ Bound(boxes', clients')
         /\ who = "others" => Past(clients, clients')
         /\ Known(w) => clients' = clients /\ boxes' = boxes
         /\ ~Known(w) => boxes' = Append(boxes, w)
         /\ DOMAIN clients' = DOMAIN clients
         /\ \A c \in DOMAIN clients : /\ clients'[c].domain = clients[c].domain
                                      /\ clients'[c].by = clients[c].by
<1>1. /\ clients \in Seq(Client) /\ boxes \in Seq(Box) /\ w.prov \in Providers
      /\ w.prov # Blank /\ clients[w.client] \in Client
  BY DashboardAssumption DEF TypeOK, Box
<1> DEFINE old == clients[w.client]
           new == [domain |-> old.domain, prov |-> w.prov, by |-> old.by, binder |-> who]
<1>2. new.domain = old.domain /\ new.prov = w.prov /\ new.by = old.by /\ new.binder = who
  OBVIOUS
<1>3. /\ old.prov \in {Blank, w.prov}
      /\ old.prov # Blank => clients' = clients
      /\ old.prov = Blank => clients' = [clients EXCEPT ![w.client] = new]
      /\ boxes' = IF Known(w) THEN boxes ELSE Append(boxes, w)
  BY DEF Save, Refused
<1>4. Known(w) => old.prov = w.prov
  BY DEF Known, Bound
<1> HIDE DEF new, old
<1>5. /\ DOMAIN clients' = DOMAIN clients /\ Len(clients') = Len(clients)
      /\ \A c \in DOMAIN clients : c # w.client => clients'[c] = clients[c]
      /\ clients'[w.client].prov = w.prov
      /\ old.prov = Blank => clients'[w.client] = new
      /\ old = clients[w.client] /\ Len(clients) \in Nat
  BY <1>1, <1>2, <1>3 DEF old
<1>6. \A c \in DOMAIN clients : /\ clients'[c].domain = clients[c].domain
                                /\ clients'[c].by = clients[c].by
  BY <1>2, <1>3, <1>5
<1>7. who = "others" => Past(clients, clients')
  BY <1>1, <1>2, <1>3, <1>5 DEF Past
<1>8. \A c \in DOMAIN clients : clients[c].prov # Blank => clients'[c].prov = clients[c].prov
  BY <1>3, <1>5
<1>9. Bound(boxes, clients')
  <2>1. \A i \in DOMAIN boxes : boxes[i].prov # Blank
    BY <1>1, RowsAreBound
  <2> QED
    BY <1>5, <1>8, <2>1 DEF Bound
<1>10. Bound(boxes', clients')
  <2>1. CASE Known(w)
    BY <1>3, <1>9, <2>1
  <2>2. CASE ~Known(w)
    <3>1. boxes' = Append(boxes, w)
      BY <1>3, <2>2
    <3>2. \A i \in DOMAIN boxes' : (i \in DOMAIN boxes /\ boxes'[i] = boxes[i]) \/ boxes'[i] = w
      BY <1>1, <3>1
    <3> QED
      BY <1>5, <1>9, <3>2 DEF Bound
  <2> QED
    BY <2>1, <2>2
<1> QED
  BY <1>1, <1>3, <1>4, <1>5, <1>6, <1>7, <1>10

-----------------------------------------------------------------------------
(* What becomes of the requests.                                           *)

LEMMA SentSlot ==
  ASSUME NEW rs \in [Slots -> Request], Free(rs) # {}, NEW q
  PROVE  \E t \in Slots : /\ rs[t].kind = "idle" /\ Sent(rs, q)[t] = q
                          /\ \A s \in Slots : s # t => Sent(rs, q)[s] = rs[s]
<1>1. PICK t \in Free(rs) : Sent(rs, q) = [rs EXCEPT ![t] = q]
  BY SentTakesFree
<1>2. t \in Slots /\ rs[t].kind = "idle"
  BY DEF Free
<1> QED
  BY <1>1, <1>2

(* The requests of a page just mounted: its own, and those that are left.  *)
LEMMA MountSlots ==
  ASSUME NEW n \in Nat, NEW rs, AllSound(rs, n), Cardinality(Free(rs)) >= 2, NEW p \in Gets
  PROVE  /\ \A s \in Slots :
              \/ MountRequests(p, rs)[s] = rs[s]
              \/ p = "mailboxes" /\ MountRequests(p, rs)[s] = Get("mailboxes", "mount", 0)
              \/ MountRequests(p, rs)[s] = Get("clients", "mount", 0)
         /\ \E s \in Slots : MountRequests(p, rs)[s] = Get(p, "mount", 0)
<1> DEFINE a == Get("mailboxes", "mount", 0)
           b == Get("clients", "mount", 0)
           ra == Sent(rs, a)
<1>1. Sound(a, n) /\ a.kind = "mailboxes"
  BY GetSound DEF Gets, Get, Ask
<1> HIDE DEF a, b
<1>2. Free(rs) # {} /\ Free(ra) # {} /\ rs \in [Slots -> Request]
  BY TwoFree DEF AllSound
<1>3. ra \in [Slots -> Request]
  BY <1>1, <1>2, SentSound DEF AllSound
<1> HIDE DEF ra
<1>4. CASE p = "mailboxes"
  <2>1. PICK t \in Slots : ra[t] = a /\ \A s \in Slots : s # t => ra[s] = rs[s]
    BY <1>2, SentSlot DEF ra
  <2>2. PICK u \in Slots : /\ ra[u].kind = "idle" /\ Sent(ra, b)[u] = b
                           /\ \A s \in Slots : s # u => Sent(ra, b)[s] = ra[s]
    BY <1>2, <1>3, SentSlot
  <2>3. Sent(ra, b)[t] = a
    BY <1>1, <2>1, <2>2
  <2>4. MountRequests(p, rs) = Sent(ra, b)
    BY <1>4 DEF MountRequests, a, b, ra
  <2> QED
    BY <1>4, <2>1, <2>2, <2>3, <2>4 DEF a, b
<1>5. CASE p = "clients"
  <2>1. PICK t \in Slots : Sent(rs, b)[t] = b /\ \A s \in Slots : s # t => Sent(rs, b)[s] = rs[s]
    BY <1>2, SentSlot
  <2>2. MountRequests(p, rs) = Sent(rs, b)
    BY <1>5 DEF MountRequests, b
  <2> QED
    BY <1>5, <2>1, <2>2 DEF b
<1> QED
  BY <1>4, <1>5 DEF Gets

(* The page that is left keeps nothing but calls that change something.    *)
LEMMA OrphanedSlots ==
  ASSUME NEW n \in Nat, NEW rs, AllSound(rs, n), NEW kept, NEW s \in Slots
  PROVE  \/ Orphaned(rs, kept)[s] = Idle
         \/ /\ Orphaned(rs, kept)[s].kind = rs[s].kind /\ rs[s].kind \in kept
            /\ Orphaned(rs, kept)[s].at = "sent" /\ rs[s].at = "sent"
            /\ Orphaned(rs, kept)[s].wish = rs[s].wish
            /\ Orphaned(rs, kept)[s].then = rs[s].then
            /\ ~Orphaned(rs, kept)[s].mine
<1>1. rs[s] \in Request
  BY DEF AllSound
<1>2. /\ [rs[s] EXCEPT !.mine = FALSE].kind = rs[s].kind
      /\ [rs[s] EXCEPT !.mine = FALSE].at = rs[s].at
      /\ [rs[s] EXCEPT !.mine = FALSE].wish = rs[s].wish
      /\ [rs[s] EXCEPT !.mine = FALSE].then = rs[s].then
      /\ [rs[s] EXCEPT !.mine = FALSE].mine = FALSE
  BY <1>1 DEF Request
<1> QED
  BY <1>2 DEF Orphaned

LEMMA AtFields ==
  ASSUME NEW q \in Request, NEW a
  PROVE  /\ [q EXCEPT !.at = a].kind = q.kind /\ [q EXCEPT !.at = a].then = q.then
         /\ [q EXCEPT !.at = a].wish = q.wish /\ [q EXCEPT !.at = a].id = q.id
         /\ [q EXCEPT !.at = a].count = q.count /\ [q EXCEPT !.at = a].answer = q.answer
         /\ [q EXCEPT !.at = a].mine = q.mine /\ [q EXCEPT !.at = a].at = a
BY DEF Request

(* One request changes.                                                    *)
Replaces(s, q) == req'[s] = q /\ \A t \in Slots : t # s => req'[t] = req[t]

LEMMA ReplacesExcept ==
  ASSUME IInv, NEW s \in Slots, NEW q, req' = [req EXCEPT ![s] = q]
  PROVE  Replaces(s, q)
BY SlotTypes DEF Replaces

(* An executed or failed request, or one that nobody waits for.            *)
LEMMA AnsweredSlot ==
  ASSUME IInv, NEW s \in Slots, NEW a,
         req' = [req EXCEPT ![s] = IF req[s].mine THEN [req[s] EXCEPT !.at = a] ELSE Idle]
  PROVE  \E q : /\ Replaces(s, q)
                /\ \/ q = Idle /\ ~req[s].mine
                   \/ /\ q.kind = req[s].kind /\ q.then = req[s].then /\ q.wish = req[s].wish
                      /\ q.id = req[s].id /\ q.count = req[s].count
                      /\ q.answer = req[s].answer /\ req[s].mine /\ q.mine /\ q.at = a
<1>1. req[s] \in Request
  BY SlotTypes
<1>2. CASE req[s].mine
  <2> DEFINE q == [req[s] EXCEPT !.at = a]
  <2>1. /\ q.kind = req[s].kind /\ q.then = req[s].then /\ q.wish = req[s].wish
        /\ q.id = req[s].id /\ q.count = req[s].count
        /\ q.answer = req[s].answer /\ q.mine = req[s].mine /\ q.at = a
    BY <1>1, AtFields
  <2>2. req' = [req EXCEPT ![s] = q]
    BY <1>2
  <2> HIDE DEF q
  <2>3. Replaces(s, q)
    BY <2>2, ReplacesExcept
  <2> QED
    BY <1>2, <2>1, <2>3
<1>3. CASE ~req[s].mine
  <2>1. Replaces(s, Idle)
    BY <1>3, ReplacesExcept
  <2> QED
    BY <1>3, <2>1
<1> QED
  BY <1>2, <1>3

LEMMA ServedSlot ==
  ASSUME IInv, NEW s \in Slots, Serve(s)
  PROVE  \E q : /\ Replaces(s, q)
                /\ q.kind = req[s].kind /\ q.then = req[s].then /\ q.at = "done"
                /\ q.wish = req[s].wish /\ q.mine = req[s].mine
                /\ q.kind = "mailboxes" => q.count = Len(boxes)
                /\ q.kind = "clients" => q.answer = clients
<1>1. req[s] \in Request /\ req[s].kind \in Gets
  BY SlotTypes DEF Serve, Gets
<1>2. CASE req[s].kind = "mailboxes"
  <2> DEFINE q == [req[s] EXCEPT !.at = "done", !.count = Len(boxes)]
  <2>1. /\ q.kind = req[s].kind /\ q.then = req[s].then /\ q.at = "done"
        /\ q.wish = req[s].wish /\ q.mine = req[s].mine /\ q.count = Len(boxes)
    BY <1>1 DEF Request
  <2>2. req' = [req EXCEPT ![s] = q]
    BY <1>2 DEF Serve
  <2> HIDE DEF q
  <2>3. Replaces(s, q)
    BY <2>2, ReplacesExcept
  <2> QED
    BY <1>2, <2>1, <2>3
<1>3. CASE req[s].kind = "clients"
  <2> DEFINE q == [req[s] EXCEPT !.at = "done", !.answer = clients]
  <2>1. /\ q.kind = req[s].kind /\ q.then = req[s].then /\ q.at = "done"
        /\ q.wish = req[s].wish /\ q.mine = req[s].mine /\ q.answer = clients
    BY <1>1 DEF Request
  <2>2. req' = [req EXCEPT ![s] = q]
    BY <1>3 DEF Serve
  <2> HIDE DEF q
  <2>3. Replaces(s, q)
    BY <2>2, ReplacesExcept
  <2> QED
    BY <1>3, <2>1, <2>3
<1> QED
  BY <1>1, <1>2, <1>3 DEF Gets

-----------------------------------------------------------------------------
(* The copies are copies.                                                  *)

LEMMA TableTypes ==
  ASSUME IInv
  PROVE  /\ clients \in Seq(Client) /\ boxes \in Seq(Box) /\ names \in Seq(Client)
         /\ Len(clients) \in Nat /\ Len(boxes) \in Nat /\ list \in Nat
         /\ Past(clients, clients) /\ Past(<<>>, clients)
         /\ \A s \in Slots : req[s] \in Request /\ Sound(req[s], Len(clients))
BY PastOfItself DEF IInv, TypeOK, AllSound

LEMMA CopyKept ==
  ASSUME CopyInv, IInv', Past(clients, clients'), Len(boxes) <= Len(boxes'),
         Bound(boxes', clients'),
         names' = names \/ Past(names', clients'),
         list' = list \/ list' <= Len(boxes'),
         \A s \in Slots : req'[s] = req[s] \/ Good(req'[s], clients', Len(boxes')),
         page' = "away" =>
           /\ page = "away" /\ trip' = trip
           /\ \A s \in Slots : req'[s] = req[s] \/ Forgotten(req'[s])
  PROVE  CopyInv'
<1> USE DEF CopyInv
<1>1. /\ clients \in Seq(Client) /\ names \in Seq(Client) /\ list \in Nat
      /\ Len(boxes) \in Nat /\ \A s \in Slots : Sound(req[s], Len(clients))
      /\ clients' \in Seq(Client) /\ Len(boxes') \in Nat /\ list' \in Nat
  <2>1. clients' \in Seq(Client) /\ Len(boxes') \in Nat /\ list' \in Nat
    BY DEF IInv, TypeOK
  <2> QED
    BY <2>1, TableTypes
<1>2. Past(names', clients')
  BY <1>1, PastOfPast
<1>3. list' <= Len(boxes')
  BY <1>1
<1>4. \A s \in Slots : Good(req'[s], clients', Len(boxes'))
  <2> SUFFICES ASSUME NEW s \in Slots PROVE Good(req[s], clients', Len(boxes'))
    OBVIOUS
  <2> DEFINE n == Len(boxes)
             m == Len(boxes')
  <2>1. n \in Nat /\ m \in Nat /\ n <= m /\ Good(req[s], clients, n)
    BY <1>1
  <2> HIDE DEF n, m
  <2>2. Good(req[s], clients', m)
    BY <1>1, <2>1, GoodLater
  <2> QED
    BY <2>2 DEF m
<1>5. page = "away" => Fits(trip, clients')
  <2>1. page = "away" => trip.client \in DOMAIN clients
    BY DEF IInv, TypeOK
  <2> QED
    BY <1>1, <2>1, FitsLater
<1> QED
  BY <1>2, <1>3, <1>4, <1>5

(* The tables stay as they are.                                            *)
LEMMA CopyKeptHere ==
  ASSUME CopyInv, IInv', UNCHANGED database,
         names' = names \/ Past(names', clients),
         list' = list \/ list' <= Len(boxes),
         \A s \in Slots : req'[s] = req[s] \/ Good(req'[s], clients, Len(boxes)),
         page' = "away" =>
           /\ page = "away" /\ trip' = trip
           /\ \A s \in Slots : req'[s] = req[s] \/ Forgotten(req'[s])
  PROVE  CopyInv'
<1>1. clients' = clients /\ boxes' = boxes
  BY DEF database
<1>2. Past(clients, clients) /\ Len(boxes) \in Nat /\ Bound(boxes, clients)
  BY TableTypes DEF CopyInv
<1> QED
  BY <1>1, <1>2, CopyKept

LEMMA OthersKeepCopies ==
  ASSUME CopyInv, IInv', Others
  PROVE  CopyInv'
<1> USE DEF CopyInv
<1>1. /\ clients \in Seq(Client) /\ boxes \in Seq(Box) /\ Len(boxes) \in Nat
      /\ Past(clients, clients)
  BY TableTypes
<1>2. ASSUME NEW d \in Domains, NEW p \in Providers \cup {Blank}, OthersAdd(d, p)
      PROVE  CopyInv'
  <2>1. Foreign(d, p) \in Client
    BY DEF Foreign, Client, Maker
  <2>2. Past(clients, clients') /\ boxes' = boxes
    BY <1>1, <1>2, <2>1, AppendedPast DEF OthersAdd
  <2>3. Bound(boxes', clients') /\ Len(boxes) <= Len(boxes')
    <3>1. clients' \in Seq(Client)
      BY DEF IInv, TypeOK
    <3> QED
      BY <1>1, <2>2, <3>1, BoundLater
  <2> QED
    BY <1>2, <2>2, <2>3, CopyKept DEF OthersAdd, copies
<1>3. ASSUME NEW e \in Emails, NEW p \in Providers, NEW c \in DOMAIN clients,
             OthersConnect(e, p, c)
      PROVE  CopyInv'
  <2> DEFINE w == [email |-> e, prov |-> p, client |-> c, by |-> "others"]
  <2>1. w \in Box /\ w.client \in DOMAIN clients
    BY <1>1 DEF Box, Maker
  <2>2. Save(w, "others")
    BY <1>3 DEF OthersConnect
  <2> HIDE DEF w
  <2>3. /\ Past(clients, clients') /\ Bound(boxes', clients')
        /\ boxes' = boxes \/ boxes' = Append(boxes, w)
    BY <2>1, <2>2, SaveBinds DEF IInv
  <2>4. Len(boxes) <= Len(boxes')
    BY <1>1, <2>1, <2>3
  <2> QED
    BY <1>3, <2>3, <2>4, CopyKept DEF OthersConnect, copies
<1>4. ASSUME NEW i \in DOMAIN boxes, OthersRefresh(i) PROVE CopyInv'
  BY <1>4, CopyKeptHere DEF OthersRefresh, copies
<1> QED
  BY <1>2, <1>3, <1>4 DEF Others

LEMMA SocketKeepsCopies ==
  ASSUME CopyInv, IInv', Handshake \/ LoseConnection \/ Deliver
  PROVE  CopyInv'
<1>1. CASE Handshake \/ LoseConnection
  BY <1>1, CopyKeptHere DEF Handshake, LoseConnection, copies
<1>2. CASE Deliver
  <2>1. page \in Gets /\ page # "away" /\ page' = page
    BY <1>2 DEF Deliver, CopyInv, IInv, Detached, TypeOK, Gets
  <2>2. Good(Get(page, "nothing", 0), clients, Len(boxes))
    BY <2>1, TableTypes, GetGood DEF CopyInv
  <2>3. \A s \in Slots : req'[s] = req[s] \/ Good(req'[s], clients, Len(boxes))
    <3>1. CASE req' = req
      BY <3>1
    <3>2. CASE Free(req) # {} /\ req' = Sent(req, Get(page, "nothing", 0))
      BY <2>2, <3>2, SlotTypes, SentSlot DEF CopyInv
    <3> QED
      BY <1>2, <3>1, <3>2, RoomIsFree DEF Deliver, HasRoom
  <2> QED
    BY <1>2, <2>1, <2>3, CopyKeptHere DEF Deliver, copies
<1> QED
  BY <1>1, <1>2

(* A client is offered by its copy; nobody but others can have bound it.   *)
LEMMA ClicksKeepCopies ==
  ASSUME CopyInv, IInv',
         \/ \E d \in Domains, p \in Providers : ClickAdd(d, p)
         \/ \E e \in Emails, p \in Providers, c \in DOMAIN names : ClickConnect(e, p, c)
         \/ \E i \in 1 .. list : ClickRefresh(i)
  PROVE  CopyInv'
<1>1. clients \in Seq(Client) /\ Len(boxes) \in Nat
  BY TableTypes DEF CopyInv
<1>2. ASSUME NEW q, Good(q, clients, Len(boxes)), Free(req) # {}, req' = Sent(req, q),
             UNCHANGED <<database, page, trip, copies>>, page # "away"
      PROVE  CopyInv'
  <2>1. \A s \in Slots : req'[s] = req[s] \/ Good(req'[s], clients, Len(boxes))
    BY <1>2, SlotTypes, SentSlot DEF CopyInv
  <2> QED
    BY <1>2, <2>1, CopyKeptHere DEF copies
<1>3. ASSUME NEW d \in Domains, NEW p \in Providers, ClickAdd(d, p) PROVE CopyInv'
  <2> DEFINE w == [domain |-> d, prov |-> p, by |-> MakerNow(Len(names)), binder |-> "nobody"]
             q == Ask("add", "nothing", w, 0)
  <2>1. Good(q, clients, Len(boxes))
    BY <1>1, AskGood
  <2>2. Free(req) # {} /\ req' = Sent(req, q) /\ page # "away"
        /\ UNCHANGED <<database, page, trip, copies>>
    BY <1>3, RoomIsFree DEF ClickAdd, HasRoom
  <2> HIDE DEF q
  <2> QED
    BY <1>2, <2>1, <2>2
<1>4. ASSUME NEW e \in Emails, NEW p \in Providers, NEW c \in DOMAIN names,
             ClickConnect(e, p, c)
      PROVE  CopyInv'
  <2> DEFINE w == [email |-> e, prov |-> p, client |-> c, by |-> MakerNow(list)]
             q == Ask("connect", "nothing", w, 0)
  <2>1. Fits(w, clients)
    <3>1. names[c].prov \in {Blank, p} /\ Past(names, clients)
      BY <1>4 DEF ClickConnect, Offered, CopyInv
    <3> QED
      BY <3>1 DEF Past, Fits
  <2>2. Good(q, clients, Len(boxes))
    BY <1>1, <2>1, AskGood
  <2>3. Free(req) # {} /\ req' = Sent(req, q) /\ page # "away"
        /\ UNCHANGED <<database, page, trip, copies>>
    BY <1>4, RoomIsFree DEF ClickConnect, HasRoom
  <2> HIDE DEF q
  <2> QED
    BY <1>2, <2>2, <2>3
<1>5. ASSUME NEW i \in 1 .. list, ClickRefresh(i) PROVE CopyInv'
  <2> DEFINE q == Ask("refresh", "nothing", NoTrip, i)
  <2>1. Good(q, clients, Len(boxes))
    BY <1>1, AskGood
  <2>2. Free(req) # {} /\ req' = Sent(req, q) /\ page # "away"
        /\ UNCHANGED <<database, page, trip, copies>>
    BY <1>5, RoomIsFree DEF ClickRefresh, HasRoom
  <2> HIDE DEF q
  <2> QED
    BY <1>2, <2>1, <2>2
<1> QED
  BY <1>3, <1>4, <1>5

LEMMA GoToKeepsCopies ==
  ASSUME CopyInv, IInv', NEW p \in {"mailboxes", "clients"}, GoTo(p)
  PROVE  CopyInv'
<1> USE DEF CopyInv
<1> DEFINE rs == Orphaned(req, {"add", "connect", "refresh"})
<1>1. /\ Len(clients) \in Nat /\ p \in Gets /\ AllSound(req, Len(clients))
      /\ clients \in Seq(Client) /\ Len(boxes) \in Nat /\ Past(<<>>, clients)
  BY TableTypes DEF Gets, IInv
<1>2. \A s \in Slots : Good(rs[s], clients, Len(boxes))
  <2> SUFFICES ASSUME NEW s \in Slots PROVE Good(rs[s], clients, Len(boxes))
    OBVIOUS
  <2>1. CASE rs[s] = Idle
    BY <1>1, <2>1, GetGood DEF Gets
  <2>2. CASE rs[s] # Idle
    <3>1. rs[s].kind = req[s].kind /\ rs[s].wish = req[s].wish /\ rs[s].kind \notin Gets
      BY <1>1, <2>2, OrphanedSlots DEF Gets
    <3> QED
      BY <3>1 DEF Good, Gets
  <2> QED
    BY <2>1, <2>2
<1>3. AllSound(rs, Len(clients)) /\ Cardinality(Free(rs)) >= 2 /\ req' = MountRequests(p, rs)
  BY <1>1, OrphanedSound DEF GoTo, Mount
<1>4. /\ UNCHANGED database /\ names' = <<>> /\ list' = 0 /\ page' # "away"
  BY <1>1 DEF GoTo, Mount, Gets
<1> HIDE DEF rs
<1>5. \A s \in Slots : Good(req'[s], clients, Len(boxes))
  BY <1>1, <1>2, <1>3, MountSlots, GetGood DEF Gets
<1> QED
  BY <1>1, <1>4, <1>5, CopyKeptHere

(* Only here the tab binds a client; no copy is left.                      *)
LEMMA ReturnKeepsCopies ==
  ASSUME CopyInv, IInv', Return
  PROVE  CopyInv'
<1> USE DEF CopyInv
<1>1. /\ AllSound(req, Len(clients)) /\ Len(clients) \in Nat /\ Len(boxes) \in Nat
      /\ trip \in Box /\ trip.client \in DOMAIN clients
  BY TableTypes DEF IInv, Return, TypeOK
<1>2. Bound(boxes', clients')
  BY <1>1, SaveBinds DEF Return, database, IInv
<1>3. /\ clients' \in Seq(Client) /\ Len(boxes') \in Nat
  BY DEF IInv, TypeOK
<1>4. /\ Cardinality(Free(req)) >= 2 /\ req' = MountRequests("mailboxes", req)
      /\ names' = <<>> /\ list' = 0 /\ page' # "away" /\ page = "away"
  BY DEF Return, Mount
<1>5. \A s \in Slots : Good(req'[s], clients', Len(boxes'))
  <2> DEFINE n == Len(boxes')
  <2>1. n \in Nat
    BY <1>3
  <2> HIDE DEF n
  <2>2. \A s \in Slots : Good(req[s], clients', n)
    BY <1>4 DEF Forgotten, Good
  <2>3. \A k \in Gets : Good(Get(k, "mount", 0), clients', n)
    BY <1>3, <2>1, GetGood
  <2>4. \A s \in Slots : Good(req'[s], clients', n)
    BY <1>1, <1>4, <2>2, <2>3, MountSlots DEF Gets
  <2> QED
    BY <2>4 DEF n
<1>6. Past(names', clients')
  BY <1>3, <1>4, PastOfItself
<1> QED
  BY <1>2, <1>3, <1>4, <1>5, <1>6

(* An executed or a failed request carries what it did before.             *)
LEMMA AnsweredGood ==
  ASSUME CopyInv, IInv', NEW s \in Slots, NEW a,
         req' = [req EXCEPT ![s] = IF req[s].mine THEN [req[s] EXCEPT !.at = a] ELSE Idle],
         NEW t \in Slots
  PROVE  /\ req'[t] = req[t] \/ Good(req'[t], clients, Len(boxes))
         /\ page = "away" => req'[t] = req[t] \/ Forgotten(req'[t])
<1>1. PICK q : /\ Replaces(s, q)
               /\ \/ q = Idle
                  \/ /\ q.kind = req[s].kind /\ q.wish = req[s].wish /\ q.count = req[s].count
                     /\ q.answer = req[s].answer /\ req[s].mine
  BY AnsweredSlot DEF CopyInv
<1>2. Good(req[s], clients, Len(boxes)) /\ Good(Idle, clients, Len(boxes))
  BY TableTypes, GetGood DEF CopyInv, Gets
<1>3. Good(q, clients, Len(boxes))
  BY <1>1, <1>2 DEF Good
<1>4. page = "away" => Forgotten(q)
  BY <1>1 DEF CopyInv, Forgotten, Idle, Ask
<1> QED
  BY <1>1, <1>3, <1>4 DEF Replaces

LEMMA ServersKeepCopies ==
  ASSUME CopyInv, IInv', NEW s \in Slots,
         Serve(s) \/ ExecuteAdd(s) \/ ExecuteRefresh(s) \/ Lose(s)
  PROVE  CopyInv'
<1>1. /\ clients \in Seq(Client) /\ boxes \in Seq(Box) /\ Len(boxes) \in Nat
      /\ Past(clients, clients) /\ Bound(boxes, clients)
  BY TableTypes DEF CopyInv
<1>2. CASE Serve(s)
  <2>1. PICK q : /\ Replaces(s, q) /\ q.kind \in Gets
                 /\ q.kind = "mailboxes" => q.count = Len(boxes)
                 /\ q.kind = "clients" => q.answer = clients
    BY <1>2, ServedSlot DEF CopyInv, Serve, Gets
  <2>2. Good(q, clients, Len(boxes))
    BY <1>1, <2>1 DEF Good, Gets
  <2>3. page # "away"
    BY <1>2 DEF Serve, CopyInv, Forgotten
  <2> QED
    BY <1>2, <2>1, <2>2, <2>3, CopyKeptHere DEF Serve, Replaces, copies
<1>3. CASE ExecuteAdd(s)
  <2>1. req[s].wish \in Client
    BY <1>3 DEF CopyInv, IInv, AllSound, Sound, ExecuteAdd
  <2>2. Past(clients, clients') /\ boxes' = boxes
    BY <1>1, <1>3, <2>1, AppendedPast DEF ExecuteAdd
  <2>3. clients' \in Seq(Client)
    BY DEF IInv, TypeOK
  <2>4. Bound(boxes', clients') /\ Len(boxes) <= Len(boxes')
    BY <1>1, <2>2, <2>3, BoundLater
  <2>5. PICK q : Replaces(s, q) /\ (q = Idle \/ (q.kind = "add" /\ req[s].mine))
    <3>1. req' = [req EXCEPT ![s] =
                    IF req[s].mine THEN [req[s] EXCEPT !.at = "done"] ELSE Idle]
      BY <1>3 DEF ExecuteAdd, Done
    <3>2. PICK q : /\ Replaces(s, q)
                   /\ q = Idle \/ (q.kind = req[s].kind /\ req[s].mine)
      BY <3>1, AnsweredSlot DEF CopyInv
    <3> QED
      BY <1>3, <3>2 DEF ExecuteAdd
  <2>6. Good(q, clients', Len(boxes')) /\ (page = "away" => Forgotten(q))
    BY <1>3, <2>5 DEF Good, Idle, Ask, CopyInv, Forgotten, ExecuteAdd
  <2> QED
    BY <1>3, <2>2, <2>4, <2>5, <2>6, CopyKept DEF ExecuteAdd, Replaces, copies
<1>4. CASE ExecuteRefresh(s)
  BY <1>4, AnsweredGood, CopyKeptHere DEF ExecuteRefresh, Done, copies
<1>5. CASE Lose(s)
  BY <1>5, AnsweredGood, CopyKeptHere DEF Lose, copies
<1> QED
  BY <1>2, <1>3, <1>4, <1>5

(* An answer becomes the copy, or gives way to the next request.           *)
LEMMA AnswersKeepCopies ==
  ASSUME CopyInv, IInv', NEW s \in Slots,
         \/ LandMailboxes(s) \/ LandClients(s) \/ AnswerAdd(s) \/ AnswerRefresh(s)
         \/ ConnectFails(s)
  PROVE  CopyInv'
<1>1. /\ clients \in Seq(Client) /\ Len(boxes) \in Nat /\ Good(req[s], clients, Len(boxes))
      /\ Sound(req[s], Len(clients)) /\ UNCHANGED <<database, page, trip>>
  BY TableTypes DEF CopyInv, LandMailboxes, LandClients, AnswerAdd, AnswerRefresh, ConnectFails
<1>2. page # "away"
  BY <1>1 DEF LandMailboxes, LandClients, AnswerAdd, AnswerRefresh, ConnectFails, CopyInv,
     Forgotten, Sound
<1>3. \E q : Replaces(s, q) /\ Good(q, clients, Len(boxes))
  <2>1. \/ req' = [req EXCEPT ![s] = Idle]
        \/ req' = [req EXCEPT ![s] = Get("clients", "add", 0)]
        \/ req' = [req EXCEPT ![s] = Get("mailboxes", "refresh", req[s].id)]
    BY DEF LandMailboxes, LandClients, AnswerAdd, AnswerRefresh, ConnectFails, Over
  <2>2. /\ Good(Idle, clients, Len(boxes)) /\ Good(Get("clients", "add", 0), clients, Len(boxes))
        /\ Good(Get("mailboxes", "refresh", req[s].id), clients, Len(boxes))
    BY <1>1, GetGood DEF Gets
  <2> QED
    BY <2>1, <2>2, ReplacesExcept DEF CopyInv
<1>4. \A t \in Slots : req'[t] = req[t] \/ Good(req'[t], clients, Len(boxes))
  BY <1>3 DEF Replaces
<1>5. names' = names \/ Past(names', clients)
  BY <1>1 DEF LandMailboxes, LandClients, AnswerAdd, AnswerRefresh, ConnectFails, copies, Good
<1>6. list' = list \/ list' <= Len(boxes)
  BY <1>1 DEF LandMailboxes, LandClients, AnswerAdd, AnswerRefresh, ConnectFails, copies, Good
<1> QED
  BY <1>1, <1>2, <1>4, <1>5, <1>6, CopyKeptHere

(* Away: the client fits the mailbox, and the document forgot its requests. *)
LEMMA RedirectKeepsCopies ==
  ASSUME CopyInv, IInv', NEW s \in Slots, Redirect(s)
  PROVE  CopyInv'
<1> USE DEF CopyInv
<1>1. /\ AllSound(req, Len(clients)) /\ Len(clients) \in Nat /\ Len(boxes) \in Nat
      /\ clients \in Seq(Client) /\ Past(<<>>, clients)
  BY TableTypes DEF IInv
<1>2. /\ req' = Orphaned(req, {"add", "refresh"}) /\ UNCHANGED database
      /\ names' = <<>> /\ list' = 0 /\ trip' = req[s].wish /\ req[s].kind = "connect"
  BY DEF Redirect
<1>3. Fits(trip', clients)
  BY <1>2 DEF Good
<1>4. \A t \in Slots : Forgotten(req'[t]) /\ req'[t].kind \notin Gets \cup {"connect"}
  <2> SUFFICES ASSUME NEW t \in Slots
               PROVE  Forgotten(req'[t]) /\ req'[t].kind \notin Gets \cup {"connect"}
    OBVIOUS
  <2>1. \/ req'[t] = Idle
        \/ req'[t].kind = req[t].kind /\ req[t].kind \in {"add", "refresh"} /\ ~req'[t].mine
    BY <1>1, <1>2, OrphanedSlots
  <2> QED
    BY <2>1 DEF Forgotten, Gets, Idle, Ask
<1>5. \A t \in Slots : Good(req'[t], clients', Len(boxes'))
  BY <1>4 DEF Good, Gets
<1> QED
  BY <1>1, <1>2, <1>3, <1>4, <1>5 DEF database

LEMMA NextKeepsCopyInv == CopyInv /\ [Next]_vars => CopyInv'
<1> SUFFICES ASSUME CopyInv, [Next]_vars PROVE CopyInv'
  OBVIOUS
<1>1. IInv'
  BY NextKeepsIInv DEF CopyInv
<1>2. CASE UNCHANGED vars
  BY <1>1, <1>2, CopyKeptHere DEF vars, copies
<1>3. CASE Next
  BY <1>1, <1>3, OthersKeepCopies, SocketKeepsCopies, ClicksKeepCopies, GoToKeepsCopies,
     ReturnKeepsCopies, ServersKeepCopies, AnswersKeepCopies, RedirectKeepsCopies
     DEF Next, User, Progress, RequestStep
<1> QED
  BY <1>2, <1>3

LEMMA InitCopyInv == Init => CopyInv
<1> SUFFICES ASSUME Init PROVE CopyInv
  OBVIOUS
<1>1. IInv
  BY InitIInv
<1> DEFINE none == [s \in Slots |-> Idle]
<1>2. AllSound(none, Len(clients)) /\ Cardinality(Free(none)) >= 2 /\ Len(clients) \in Nat
  <2>1. Len(clients) \in Nat
    BY <1>1, TableTypes
  <2>2. AllSound(none, Len(clients))
    BY <2>1, IdleSound DEF AllSound, Sound
  <2>3. Free(none) = Slots
    BY DEF Free, Idle, Ask
  <2> QED
    BY <2>1, <2>2, <2>3, DashboardAssumption
<1>3. /\ clients \in Seq(Client) /\ Len(boxes) \in Nat /\ Past(<<>>, clients)
      /\ page \in Gets /\ page # "away" /\ names = <<>> /\ list = 0
  BY <1>1, TableTypes DEF Init, Gets
<1>4. \A s \in Slots : Good(req[s], clients, Len(boxes))
  <2>1. req = MountRequests(page, none)
    BY DEF Init
  <2>2. \A s \in Slots : none[s] = Idle
    OBVIOUS
  <2> HIDE DEF none
  <2>3. Good(Idle, clients, Len(boxes)) /\ \A k \in Gets : Good(Get(k, "mount", 0), clients, Len(boxes))
    BY <1>3, GetGood DEF Gets
  <2> QED
    BY <1>2, <1>3, <2>1, <2>2, <2>3, MountSlots DEF Gets
<1>5. Bound(boxes, clients)
  <2>1. CASE boxes = <<>>
    BY <2>1 DEF Bound
  <2>2. CASE \E d \in Domains, e \in Emails, p \in Providers :
               /\ clients = <<Foreign(d, p)>>
               /\ boxes = <<[email |-> e, prov |-> p, client |-> 1, by |-> "others"]>>
    BY <2>2 DEF Bound, Foreign
  <2> QED
    BY <2>1, <2>2 DEF Init
<1> QED
  BY <1>1, <1>3, <1>4, <1>5 DEF CopyInv

LEMMA SpecKeepsCopyInv == Spec => []CopyInv
BY InitCopyInv, NextKeepsCopyInv, PTL DEF Spec

(* RefusalsAreForeign: saveTokens refuses the mailbox for which the user   *)
(* was sent to a provider only if others bound the client meanwhile; the   *)
(* tab itself offers a client for another provider only until it has seen  *)
(* that it is bound.                                                       *)
THEOREM RefusalsComeFromOthers == Spec => []RefusalsAreForeign
<1>1. CopyInv => RefusalsAreForeign
  BY DEF CopyInv, RefusalsAreForeign, Refused, Fits
<1> QED
  BY <1>1, SpecKeepsCopyInv, PTL

-----------------------------------------------------------------------------
(* The page is current, or a fetch or an announcement under way will make  *)
(* it so, or its copy is in doubt.                                         *)
Shows == /\ page = "mailboxes" => list = Len(boxes)
         /\ page = "clients" => names = clients
Renews(q) ==
  \/ page = "mailboxes" /\ q.kind = "mailboxes" /\ (q.at # "done" \/ q.count = Len(boxes))
  \/ page = "clients" /\ q.kind = "clients" /\ (q.at # "done" \/ q.answer = clients)
Heard == \E k \in DOMAIN news : Heeds(news[k])
Renewed == doubts = {} => Shows \/ Heard \/ \E s \in Slots : Renews(req[s])

RenewInv == CopyInv /\ Renewed

(* An answer that is not older than the table is the table.                *)
LEMMA PastNotOlder ==
  ASSUME NEW a \in Seq(Client), NEW t \in Seq(Client), Past(a, t), ~Older(a, t)
  PROVE  a = t
<1>1. /\ Len(a) \in Nat /\ Len(t) \in Nat /\ DOMAIN a = 1 .. Len(a) /\ DOMAIN t = 1 .. Len(t)
  OBVIOUS
<1>2. Len(a) = Len(t)
  <2>1. Len(a) <= Len(t)
    BY DEF Past
  <2>2. ~(Len(a) < Len(t))
    BY DEF Older
  <2>3. \A n, m \in Nat : n <= m /\ ~(n < m) => n = m
    OBVIOUS
  <2> QED
    BY <1>1, <2>1, <2>2, <2>3, Zenon
<1>3. \A c \in 1 .. Len(t) : a[c] = t[c]
  BY <1>1, <1>2 DEF Past, Older
<1> QED
  BY <1>2, <1>3

(* Nothing that makes the page current goes.                               *)
LEMMA RenewedKept ==
  ASSUME Renewed, UNCHANGED <<page, database, copies>>,
         doubts' = {} => doubts = {} /\ (Heard => Heard'),
         \A s \in Slots : Renews(req[s]) => Renews(req'[s])
  PROVE  Renewed'
<1>1. UNCHANGED <<clients, boxes, list, names>>
  BY DEF database, copies
<1>2. Shows => Shows'
  BY <1>1 DEF Shows
<1>3. \A s \in Slots : Renews(req'[s]) => Renews(req[s])'
  BY <1>1 DEF Renews
<1> QED
  BY <1>2, <1>3 DEF Renewed

(* An announcement to a connected tab is heard, another one raises doubts. *)
LEMMA TellHeard ==
  ASSUME TypeOK, NEW what \in Announcement, Tell(what), UNCHANGED page
  PROVE  doubts' = {} => doubts = {} /\ (Heard => Heard') /\ (Heeds(what) => Heard')
<1> SUFFICES ASSUME doubts' = {} PROVE doubts = {} /\ (Heard => Heard') /\ (Heeds(what) => Heard')
  OBVIOUS
<1>1. news' = Append(news, what) /\ doubts' = doubts
  BY DEF Tell
<1>2. /\ news \in Seq(Announcement) /\ Len(news) \in Nat /\ DOMAIN news = 1 .. Len(news)
      /\ DOMAIN news' = 1 .. (Len(news) + 1) /\ news'[Len(news) + 1] = what
      /\ \A k \in DOMAIN news : k \in DOMAIN news' /\ news'[k] = news[k]
  BY <1>1 DEF TypeOK
<1>3. Len(news) + 1 \in DOMAIN news'
  BY <1>2
<1>4. \A x : Heeds(x)' <=> Heeds(x)
  BY DEF Heeds
<1> QED
  BY <1>1, <1>2, <1>3 DEF Heard, Heeds

LEMMA OthersKeepRenewed ==
  ASSUME RenewInv, Others
  PROVE  Renewed'
<1> USE DEF RenewInv
<1>1. TypeOK /\ Bound(boxes, clients) /\ clients \in Seq(Client) /\ boxes \in Seq(Box)
  BY TableTypes DEF CopyInv, IInv
<1>2. ASSUME NEW d \in Domains, NEW p \in Providers \cup {Blank}, OthersAdd(d, p)
      PROVE  Renewed'
  <2>1. doubts' = {} => doubts = {} /\ (Heard => Heard') /\ (Heeds("clientAdded") => Heard')
    BY <1>1, <1>2, TellHeard DEF OthersAdd, Announcement
  <2>2. CASE page = "mailboxes"
    BY <1>2, <2>1, <2>2 DEF OthersAdd, copies, Renewed, Shows, Renews
  <2>3. CASE page # "mailboxes"
    BY <1>2, <2>1, <2>3 DEF Renewed, Heeds
  <2> QED
    BY <2>2, <2>3
<1>3. ASSUME NEW e \in Emails, NEW p \in Providers, NEW c \in DOMAIN clients,
             OthersConnect(e, p, c)
      PROVE  Renewed'
  <2> DEFINE w == [email |-> e, prov |-> p, client |-> c, by |-> "others"]
             what == IF Known(w) THEN "mailboxUpdated" ELSE "mailboxAdded"
  <2>1. w \in Box /\ w.client \in DOMAIN clients
    BY <1>1 DEF Box, Maker
  <2>2. Save(w, "others") /\ Tell(what)
    BY <1>3 DEF OthersConnect
  <2> HIDE DEF w
  <2>3. Known(w) => clients' = clients /\ boxes' = boxes
    BY <1>1, <2>1, <2>2, SaveBinds
  <2>4. doubts' = {} => doubts = {} /\ (Heard => Heard') /\ (Heeds(what) => Heard')
    BY <1>1, <1>3, <2>2, TellHeard DEF OthersConnect, Announcement
  <2>5. CASE Known(w)
    BY <1>3, <2>3, <2>4, <2>5, RenewedKept DEF OthersConnect, database, copies
  <2>6. CASE ~Known(w)
    BY <2>4, <2>6 DEF Renewed, Heeds
  <2> QED
    BY <2>5, <2>6
<1>4. ASSUME NEW i \in DOMAIN boxes, OthersRefresh(i) PROVE Renewed'
  <2>1. doubts' = {} => doubts = {} /\ (Heard => Heard')
    BY <1>1, <1>4, TellHeard DEF OthersRefresh, Announcement
  <2> QED
    BY <1>4, <2>1, RenewedKept DEF OthersRefresh
<1> QED
  BY <1>2, <1>3, <1>4 DEF Others

LEMMA SocketKeepsRenewed ==
  ASSUME RenewInv, Handshake \/ LoseConnection \/ Deliver
  PROVE  Renewed'
<1> USE DEF RenewInv
<1>1. CASE Handshake
  <2>1. Heard => Heard'
    BY <1>1 DEF Handshake, Heard, Heeds
  <2> QED
    BY <1>1, <2>1, RenewedKept DEF Handshake
<1>2. CASE LoseConnection
  <2>1. doubts' = {} => doubts = {} /\ ~Heard
    BY <1>2 DEF LoseConnection, Heard
  <2> QED
    BY <1>2, <2>1, RenewedKept DEF LoseConnection
<1>3. CASE Deliver
  <2>1. /\ news \in Seq(Announcement) /\ news # <<>> /\ news' = Tail(news) /\ doubts' = doubts
        /\ page \in Gets /\ page' = page /\ req \in [Slots -> Request]
    BY <1>3, SlotTypes DEF Deliver, CopyInv, IInv, Detached, TypeOK, Gets
  <2>2. CASE Heeds(Head(news))
    <3>1. Free(req) # {} /\ req' = Sent(req, Get(page, "nothing", 0))
      BY <1>3, <2>2, RoomIsFree DEF Deliver, HasRoom
    <3>2. PICK t \in Slots : req'[t] = Get(page, "nothing", 0)
      BY <2>1, <3>1, SentSlot
    <3>3. Renews(req[t])'
      BY <2>1, <3>2 DEF Renews, Get, Ask, Gets
    <3> QED
      BY <3>3 DEF Renewed
  <2>3. CASE ~Heeds(Head(news))
    <3>1. Heard => Heard'
      <4> SUFFICES ASSUME NEW k \in DOMAIN news, Heeds(news[k]) PROVE Heard'
        BY DEF Heard
      <4>1. k # 1 /\ k \in 1 .. Len(news) /\ Len(news) \in Nat
        BY <2>1, <2>3
      <4>2. k - 1 \in DOMAIN news' /\ news'[k - 1] = news[k]
        <5>1. k - 1 \in 1 .. (Len(news) - 1) /\ (k - 1) + 1 = k
          BY <4>1
        <5> QED
          BY <2>1, <5>1
      <4>3. Heeds(news[k - 1])'
        BY <2>1, <4>2 DEF Heeds
      <4> QED
        BY <4>2, <4>3 DEF Heard
    <3>2. req' = req /\ UNCHANGED <<page, database, copies>>
      BY <1>3, <2>3 DEF Deliver
    <3> QED
      BY <2>1, <3>1, <3>2, RenewedKept
  <2> QED
    BY <2>2, <2>3
<1> QED
  BY <1>1, <1>2, <1>3

LEMMA ClicksKeepRenewed ==
  ASSUME RenewInv,
         \/ \E d \in Domains, p \in Providers : ClickAdd(d, p)
         \/ \E e \in Emails, p \in Providers, c \in DOMAIN names : ClickConnect(e, p, c)
         \/ \E i \in 1 .. list : ClickRefresh(i)
  PROVE  Renewed'
<1>1. PICK q : Free(req) # {} /\ req' = Sent(req, q)
  BY RoomIsFree DEF ClickAdd, ClickConnect, ClickRefresh, HasRoom
<1>2. UNCHANGED <<page, database, copies, doubts, news>>
  BY DEF ClickAdd, ClickConnect, ClickRefresh, socket
<1>3. PICK t \in Slots : req[t].kind = "idle" /\ \A s \in Slots : s # t => req'[s] = req[s]
  BY <1>1, SlotTypes, SentSlot DEF RenewInv, CopyInv
<1>4. \A s \in Slots : Renews(req[s]) => Renews(req'[s])
  BY <1>3 DEF Renews
<1>5. Heard => Heard'
  BY <1>2 DEF Heard, Heeds
<1> QED
  BY <1>2, <1>4, <1>5, RenewedKept DEF RenewInv

(* A page just mounted fetches.                                            *)
LEMMA MountRenews ==
  ASSUME NEW n \in Nat, NEW rs, AllSound(rs, n), NEW p \in Gets, Mount(p, rs)
  PROVE  Renewed'
<1>1. /\ Cardinality(Free(rs)) >= 2 /\ req' = MountRequests(p, rs) /\ page' = p
  BY DEF Mount
<1>2. PICK s \in Slots : req'[s] = Get(p, "mount", 0)
  BY <1>1, MountSlots
<1>3. Renews(req[s])'
  BY <1>1, <1>2 DEF Renews, Get, Ask, Gets
<1> QED
  BY <1>3 DEF Renewed

LEMMA MountsKeepRenewed ==
  ASSUME RenewInv, (\E p \in {"mailboxes", "clients"} : GoTo(p)) \/ Return
  PROVE  Renewed'
<1>1. Len(clients) \in Nat /\ AllSound(req, Len(clients))
  BY TableTypes DEF RenewInv, CopyInv, IInv
<1>2. AllSound(Orphaned(req, {"add", "connect", "refresh"}), Len(clients))
  BY <1>1, OrphanedSound
<1> QED
  BY <1>1, <1>2, MountRenews DEF GoTo, Return, Gets

(* Requests that do not land.                                              *)
LEMMA ServersKeepRenewed ==
  ASSUME RenewInv, NEW s \in Slots,
         Serve(s) \/ ExecuteAdd(s) \/ ExecuteRefresh(s) \/ Lose(s)
  PROVE  Renewed'
<1> USE DEF RenewInv
<1>1. /\ IInv /\ TypeOK /\ req[s] \in Request /\ Sound(req[s], Len(clients))
  BY TableTypes DEF CopyInv, IInv
<1>2. CASE Serve(s)
  <2>1. PICK q : /\ Replaces(s, q) /\ q.kind = req[s].kind
                 /\ q.kind = "mailboxes" => q.count = Len(boxes)
                 /\ q.kind = "clients" => q.answer = clients
    BY <1>1, <1>2, ServedSlot
  <2>2. \A t \in Slots : Renews(req[t]) => Renews(req'[t])
    BY <2>1 DEF Replaces, Renews
  <2>3. UNCHANGED <<page, database, copies, doubts>> /\ (Heard => Heard')
    BY <1>2 DEF Serve, socket, Heard, Heeds
  <2> QED
    BY <2>2, <2>3, RenewedKept
<1>3. CASE Lose(s)
  <2>0. req' = [req EXCEPT ![s] = IF req[s].mine
                                  THEN [req[s] EXCEPT !.at = "failed"] ELSE Idle]
    BY <1>3 DEF Lose
  <2>1. PICK q : /\ Replaces(s, q)
                 /\ \/ q = Idle /\ ~req[s].mine
                    \/ q.kind = req[s].kind /\ q.at = "failed"
    BY <1>1, <2>0, AnsweredSlot
  <2>2. \A t \in Slots : Renews(req[t]) => Renews(req'[t])
    BY <1>1, <2>1 DEF Replaces, Renews, Sound, Gets
  <2>3. UNCHANGED <<page, database, copies, doubts>> /\ (Heard => Heard')
    BY <1>3 DEF Lose, socket, Heard, Heeds
  <2> QED
    BY <2>2, <2>3, RenewedKept
<1>4. ASSUME ExecuteAdd(s) \/ ExecuteRefresh(s)
      PROVE  \A t \in Slots : Renews(req[t]) => t # s /\ req'[t] = req[t]
  <2>1. req[s].kind \in {"add", "refresh"}
    BY <1>4 DEF ExecuteAdd, ExecuteRefresh
  <2>2. PICK q : req' = [req EXCEPT ![s] = q]
    BY <1>4 DEF ExecuteAdd, ExecuteRefresh, Done
  <2>3. Replaces(s, q)
    BY <1>1, <2>2, ReplacesExcept
  <2> QED
    BY <2>1, <2>3 DEF Replaces, Renews
<1>5. CASE ExecuteRefresh(s)
  <2>1. doubts' = {} => doubts = {} /\ (Heard => Heard')
    BY <1>1, <1>5, TellHeard DEF ExecuteRefresh, Announcement
  <2>2. \A t \in Slots : Renews(req[t]) => Renews(req'[t])
    BY <1>4, <1>5
  <2> QED
    BY <1>5, <2>1, <2>2, RenewedKept DEF ExecuteRefresh
<1>6. CASE ExecuteAdd(s)
  <2>1. doubts' = {} => doubts = {} /\ (Heard => Heard') /\ (Heeds("clientAdded") => Heard')
    BY <1>1, <1>6, TellHeard DEF ExecuteAdd, Announcement
  <2>2. CASE page = "mailboxes"
    <3>1. UNCHANGED <<page, boxes, list, names>>
      BY <1>6 DEF ExecuteAdd, copies
    <3>2. \A t \in Slots : Renews(req[t]) => Renews(req[t])'
      BY <1>4, <1>6, <2>2, <3>1 DEF Renews
    <3> QED
      BY <2>1, <2>2, <3>1, <3>2 DEF Renewed, Shows
  <2>3. CASE page # "mailboxes"
    BY <2>1, <2>3 DEF Renewed, Heeds
  <2> QED
    BY <2>2, <2>3
<1> QED
  BY <1>2, <1>3, <1>5, <1>6

(* A current answer makes the page current; an older one raises doubts if  *)
(* the page was, and a failed one does in any case.                        *)
LEMMA LandingKeepsRenewed ==
  ASSUME RenewInv, NEW s \in Slots, LandMailboxes(s) \/ LandClients(s)
  PROVE  Renewed'
<1> USE DEF RenewInv
<1>1. /\ req[s] \in Request /\ clients \in Seq(Client) /\ Len(boxes) \in Nat /\ list \in Nat
      /\ Good(req[s], clients, Len(boxes)) /\ UNCHANGED <<page, clients, boxes, news>>
      /\ names \in Seq(Client) /\ Past(names, clients) /\ list <= Len(boxes)
  BY TableTypes DEF CopyInv, LandMailboxes, LandClients, database, socket
<1>2. \A t \in Slots : t # s /\ Renews(req[t]) => Renews(req[t])'
  <2>1. Replaces(s, Idle)
    BY ReplacesExcept DEF CopyInv, LandMailboxes, LandClients, Over
  <2> QED
    BY <1>1, <2>1 DEF Replaces, Renews
<1>3. Heard => Heard'
  BY <1>1 DEF Heard, Heeds
<1>4. Shows \/ Renews(req[s]) => Shows' \/ doubts' # {}
  <2> SUFFICES ASSUME doubts' = {}, Shows \/ Renews(req[s]) PROVE Shows'
    OBVIOUS
  <2>1. CASE LandMailboxes(s)
    <3>1. /\ req[s].kind = "mailboxes" /\ req[s].at = "done" /\ names' = names
          /\ list' = req[s].count /\ ~(req[s].count < list) /\ req[s].count <= Len(boxes)
          /\ req[s].count \in Nat
      BY <1>1, <2>1 DEF LandMailboxes, Good, Request
    <3>2. CASE page = "mailboxes"
      <4>1. list = Len(boxes) \/ req[s].count = Len(boxes)
        BY <3>1, <3>2 DEF Shows, Renews
      <4>2. req[s].count = Len(boxes)
        <5> DEFINE c == req[s].count
                   n == Len(boxes)
        <5>1. c \in Nat /\ n \in Nat /\ list \in Nat /\ ~(c < list) /\ c <= n /\ (list = n \/ c = n)
          BY <1>1, <3>1, <4>1
        <5> HIDE DEF c, n
        <5>2. c = n
          BY <5>1
        <5> QED
          BY <5>2 DEF c, n
      <4> QED
        BY <1>1, <3>1, <3>2, <4>2 DEF Shows
    <3>3. CASE page # "mailboxes"
      BY <1>1, <3>1, <3>3 DEF Shows, Renews
    <3> QED
      BY <3>2, <3>3
  <2>2. CASE LandClients(s)
    <3>1. /\ req[s].kind = "clients" /\ req[s].at = "done" /\ list' = list
          /\ names' = req[s].answer /\ ~Older(req[s].answer, names)
          /\ Past(req[s].answer, clients) /\ req[s].answer \in Seq(Client)
      BY <1>1, <2>2 DEF LandClients, Good, Request
    <3>2. CASE page = "clients"
      BY <1>1, <3>1, <3>2, PastNotOlder DEF Shows, Renews
    <3>3. CASE page # "clients"
      BY <1>1, <3>1, <3>3 DEF Shows, Renews
    <3> QED
      BY <3>2, <3>3
  <2> QED
    BY <2>1, <2>2
<1>5. doubts' = {} => doubts = {}
  BY DEF LandMailboxes, LandClients
<1> QED
  BY <1>2, <1>3, <1>4, <1>5 DEF Renewed

LEMMA AnswersKeepRenewed ==
  ASSUME RenewInv, NEW s \in Slots, AnswerAdd(s) \/ AnswerRefresh(s) \/ ConnectFails(s)
  PROVE  Renewed'
<1>1. req[s].kind \in {"add", "refresh", "connect"} /\ \E q : req' = [req EXCEPT ![s] = q]
  BY DEF AnswerAdd, AnswerRefresh, ConnectFails, Over
<1>2. \A t \in Slots : Renews(req[t]) => Renews(req'[t])
  BY <1>1, ReplacesExcept DEF RenewInv, CopyInv, Replaces, Renews
<1>3. UNCHANGED <<page, database, copies, news>> /\ (doubts' = {} => doubts = {})
  BY DEF AnswerAdd, AnswerRefresh, ConnectFails, socket
<1>4. Heard => Heard'
  BY <1>3 DEF Heard, Heeds
<1> QED
  BY <1>2, <1>3, <1>4, RenewedKept DEF RenewInv

LEMMA NextKeepsRenewInv == RenewInv /\ [Next]_vars => RenewInv'
<1> SUFFICES ASSUME RenewInv, [Next]_vars PROVE Renewed'
  BY NextKeepsCopyInv DEF RenewInv
<1>1. CASE UNCHANGED vars
  BY <1>1 DEF RenewInv, Renewed, Shows, Heard, Heeds, Renews, vars, database, copies, socket
<1>2. ASSUME NEW s \in Slots, Redirect(s) PROVE Renewed'
  BY <1>2 DEF Redirect, Renewed, Shows
<1>3. CASE Next
  BY <1>2, <1>3, OthersKeepRenewed, SocketKeepsRenewed, ClicksKeepRenewed, MountsKeepRenewed,
     ServersKeepRenewed, LandingKeepsRenewed, AnswersKeepRenewed
     DEF Next, User, Progress, RequestStep
<1> QED
  BY <1>1, <1>3

LEMMA InitRenewInv == Init => RenewInv
<1> SUFFICES ASSUME Init PROVE Renewed
  BY InitCopyInv DEF RenewInv
<1> DEFINE none == [s \in Slots |-> Idle]
<1>1. AllSound(none, Len(clients)) /\ Cardinality(Free(none)) >= 2 /\ Len(clients) \in Nat
  <2>1. Len(clients) \in Nat
    BY InitIInv, TableTypes
  <2>2. AllSound(none, Len(clients))
    BY <2>1, IdleSound DEF AllSound, Sound
  <2>3. Free(none) = Slots
    BY DEF Free, Idle, Ask
  <2> QED
    BY <2>1, <2>2, <2>3, DashboardAssumption
<1>2. page \in Gets /\ req = MountRequests(page, none)
  BY DEF Init, Gets
<1> HIDE DEF none
<1>3. PICK s \in Slots : req[s] = Get(page, "mount", 0)
  BY <1>1, <1>2, MountSlots
<1>4. Renews(req[s])
  BY <1>2, <1>3 DEF Renews, Get, Ask, Gets
<1> QED
  BY <1>4 DEF Renewed

(* QuietPageIsCurrent: with nothing under way a connected page shows the   *)
(* table, unless a fetch failed or was overtaken by an older one, or an    *)
(* announcement was missed; the announcements that each page heeds are     *)
(* enough, although none says that a client was bound.                     *)
THEOREM QuietPagesAreCurrent == Spec => []QuietPageIsCurrent
<1>1. RenewInv => QuietPageIsCurrent
  BY DEF RenewInv, Renewed, Shows, Heard, Renews, QuietPageIsCurrent
<1> QED
  BY <1>1, InitRenewInv, NextKeepsRenewInv, PTL DEF Spec
-----------------------------------------------------------------------------
(* A row that the tab makes while its copy is not in doubt is unlike those *)
(* it made before, because its copy then has all of them.                  *)
OfTab(t) == {i \in DOMAIN t : t[i].by = "tab"}

(* A client or a mailbox that the tab is about to make.                    *)
Wishes(q, d) == q.kind = "add" /\ q.at = "sent" /\ q.wish.by = "tab" /\ q.wish.domain = d
Seeks(q, e) == q.kind = "connect" /\ q.wish.by = "tab" /\ q.wish.email = e

(* The POST of handleAdd and the fetch that it awaits; answers of fetches. *)
Adds(q) == "add" \in {q.kind, q.then}
Listed(q) == q.kind = "clients" /\ q.at = "done"
Counted(q) == q.kind = "mailboxes" /\ q.at = "done"

DomainsOnce ==
  /\ \A i, k \in OfTab(clients) : clients[i].domain = clients[k].domain => i = k
  /\ \A i \in OfTab(clients), s \in Slots : ~Wishes(req[s], clients[i].domain)
  /\ \A s, t \in Slots, d \in Domains : Wishes(req[s], d) /\ Wishes(req[t], d) => s = t

EmailsOnce ==
  /\ \A i, k \in OfTab(boxes) : boxes[i].email = boxes[k].email => i = k
  /\ \A i \in OfTab(boxes), s \in Slots : ~Seeks(req[s], boxes[i].email)
  /\ page = "away" /\ trip.by = "tab"
       => \A i \in OfTab(boxes) : boxes[i].email # trip.email

AddsFetch == \A s \in Slots : req[s].then = "add" => req[s].kind = "clients"

(* On the clients page nothing can be added until a fetch has brought all  *)
(* that the tab added: the first one, or the one that handleAdd awaits.    *)
ClientsPage ==
  /\ \A s \in Slots : /\ req[s].kind # "mailboxes"
                      /\ req[s].kind \in {"connect", "refresh"} => ~req[s].mine
  /\ doubts = {} =>
       /\ \A s, t \in Slots : Adds(req[s]) /\ Adds(req[t]) => s = t
       /\ busy \/ \A s \in Slots : ~Adds(req[s])
       /\ ~loading \/ ~busy
       /\ loading \/ busy \/ OfTab(clients) \subseteq DOMAIN names
       /\ \A s \in Slots : Listed(req[s]) /\ (loading \/ req[s].then = "add")
                             => OfTab(clients) \subseteq DOMAIN req[s].answer

(* The tab stores no mailbox while it shows the mailboxes page.            *)
MailboxesPage ==
  /\ \A s \in Slots : Counted(req[s]) => OfTab(boxes) \subseteq 1 .. req[s].count
  /\ doubts = {} => loading \/ OfTab(boxes) \subseteq 1 .. list

Once == /\ DomainsOnce /\ EmailsOnce /\ AddsFetch
        /\ page = "clients" => ClientsPage
        /\ page = "mailboxes" => MailboxesPage

OnceInv == CopyInv /\ Once

LEMMA DomainsKept ==
  ASSUME DomainsOnce,
         \A i \in OfTab(clients') : i \in OfTab(clients) /\ clients'[i].domain = clients[i].domain,
         \A s \in Slots : \A d : Wishes(req'[s], d) => Wishes(req[s], d)
  PROVE  DomainsOnce'
BY DEF DomainsOnce

LEMMA EmailsKept ==
  ASSUME EmailsOnce,
         \A i \in OfTab(boxes') : i \in OfTab(boxes) /\ boxes'[i] = boxes[i],
         \A s \in Slots : \A e : Seeks(req'[s], e) => Seeks(req[s], e),
         page' = "away" => \/ page = "away" /\ trip' = trip
                           \/ trip'.by = "tab" => \E s \in Slots : Seeks(req[s], trip'.email)
  PROVE  EmailsOnce'
BY DEF EmailsOnce

(* The request q becomes r, which wishes for nothing new.                  *)
Tame(q, r) ==
  /\ r.then = "add" => r.kind = "clients"
  /\ Adds(r) => Adds(q)
  /\ \A d : Wishes(r, d) => Wishes(q, d)
  /\ \A e : Seeks(r, e) => Seeks(q, e)
  /\ Listed(r) => r.answer = clients
  /\ Counted(r) => r.count = Len(boxes)
  /\ page = "clients" => /\ r.kind # "mailboxes"
                         /\ r.kind \in {"connect", "refresh"} => ~r.mine

LEMMA TameIdle == ASSUME NEW q PROVE Tame(q, Idle)
BY DEF Tame, Idle, Ask, Adds, Wishes, Seeks, Listed, Counted

LEMMA TameGet ==
  ASSUME NEW q, NEW k \in Gets, NEW a, NEW i,
         page = "clients" => k = "clients",
         a = "add" => k = "clients" /\ Adds(q)
  PROVE  Tame(q, Get(k, a, i))
BY DEF Tame, Get, Ask, Gets, Adds, Wishes, Seeks, Listed, Counted

LEMMA OnceKept ==
  ASSUME OnceInv, page' = page, page = "away" => trip' = trip,
         page = "clients" /\ doubts' = {} => UNCHANGED <<names, loading, busy>>,
         page = "mailboxes" /\ doubts' = {} => list' = list /\ (loading => loading'),
         doubts' = {} => doubts = {},
         \A i \in OfTab(clients') : i \in OfTab(clients) /\ clients'[i].domain = clients[i].domain,
         \A i \in OfTab(boxes') : i \in OfTab(boxes) /\ boxes'[i] = boxes[i],
         \A s \in Slots : req'[s] = req[s] \/ Tame(req[s], req'[s])
  PROVE  Once'
<1> USE DEF OnceInv, Once
<1>1. DomainsOnce'
  <2>1. \A s \in Slots : \A d : Wishes(req'[s], d) => Wishes(req[s], d)
    BY DEF Tame
  <2> QED
    BY <2>1, DomainsKept
<1>2. EmailsOnce'
  <2>1. \A s \in Slots : \A e : Seeks(req'[s], e) => Seeks(req[s], e)
    BY DEF Tame
  <2> QED
    BY <2>1, EmailsKept
<1>3. AddsFetch'
  BY DEF AddsFetch, Tame
<1>4. /\ OfTab(clients) \subseteq DOMAIN clients
      /\ OfTab(boxes) \subseteq 1 .. Len(boxes)
  BY TableTypes DEF CopyInv, OfTab
<1>5. ASSUME page = "clients" PROVE ClientsPage'
  <2>1. \A s \in Slots : /\ req'[s].kind # "mailboxes"
                         /\ req'[s].kind \in {"connect", "refresh"} => ~req'[s].mine
    BY <1>5 DEF ClientsPage, Tame
  <2>2. \A s \in Slots : Adds(req'[s]) => Adds(req[s])
    BY DEF Tame
  <2>3. \A s \in Slots : Listed(req'[s]) => req'[s] = req[s] \/ req'[s].answer = clients
    BY DEF Tame
  <2>4. OfTab(clients') \subseteq OfTab(clients)
    OBVIOUS
  <2> QED
    BY <1>4, <1>5, <2>1, <2>2, <2>3, <2>4 DEF ClientsPage
<1>6. ASSUME page = "mailboxes" PROVE MailboxesPage'
  <2>1. \A s \in Slots : Counted(req'[s]) => req'[s] = req[s] \/ req'[s].count = Len(boxes)
    BY DEF Tame
  <2>2. OfTab(boxes') \subseteq OfTab(boxes)
    OBVIOUS
  <2> QED
    BY <1>4, <1>6, <2>1, <2>2 DEF MailboxesPage
<1> QED
  BY <1>1, <1>2, <1>3, <1>5, <1>6

(* The tables stay as they are.                                            *)
LEMMA OnceKeptHere ==
  ASSUME OnceInv, UNCHANGED <<database, page, trip, list>>,
         page = "clients" /\ doubts' = {} => UNCHANGED <<names, loading, busy>>,
         page = "mailboxes" /\ doubts' = {} => (loading => loading'),
         doubts' = {} => doubts = {},
         \A s \in Slots : req'[s] = req[s] \/ Tame(req[s], req'[s])
  PROVE  Once'
<1>1. clients' = clients /\ boxes' = boxes
  BY DEF database
<1> QED
  BY <1>1, OnceKept

(* An executed or failed request that is no fetch with an answer.          *)
LEMMA TameAnswered ==
  ASSUME OnceInv, NEW s \in Slots, NEW a \in {"done", "failed"},
         a = "failed" \/ req[s].kind \notin Gets,
         req' = [req EXCEPT ![s] = IF req[s].mine THEN [req[s] EXCEPT !.at = a] ELSE Idle],
         NEW t \in Slots
  PROVE  req'[t] = req[t] \/ Tame(req[t], req'[t])
<1>0. IInv
  BY DEF OnceInv, CopyInv
<1>1. PICK q : /\ Replaces(s, q)
               /\ \/ q = Idle /\ ~req[s].mine
                  \/ /\ q.kind = req[s].kind /\ q.then = req[s].then /\ q.wish = req[s].wish
                     /\ q.id = req[s].id /\ q.count = req[s].count
                     /\ q.answer = req[s].answer /\ req[s].mine /\ q.mine /\ q.at = a
  BY <1>0, AnsweredSlot
<1> USE DEF OnceInv, Once
<1>2. CASE q = Idle
  BY <1>1, <1>2, TameIdle DEF Replaces
<1>3. CASE q # Idle
  <2>1. /\ q.kind = req[s].kind /\ q.then = req[s].then /\ q.wish = req[s].wish
        /\ q.mine /\ req[s].mine /\ q.at = a
    BY <1>1, <1>3
  <2>2. q.then = "add" => q.kind = "clients"
    BY <2>1 DEF AddsFetch
  <2>3. page = "clients" => q.kind \notin {"mailboxes", "connect", "refresh"}
    BY <2>1 DEF ClientsPage
  <2>4. Tame(req[s], q)
    BY <2>1, <2>2, <2>3 DEF Tame, Adds, Wishes, Seeks, Listed, Counted, Gets
  <2> QED
    BY <1>1, <2>4 DEF Replaces
<1> QED
  BY <1>2, <1>3

LEMMA OthersKeepOnce ==
  ASSUME OnceInv, Others
  PROVE  Once'
<1>1. TypeOK /\ Bound(boxes, clients) /\ clients \in Seq(Client) /\ boxes \in Seq(Box)
  BY TableTypes DEF OnceInv, CopyInv, IInv
<1>2. ASSUME NEW d \in Domains, NEW p \in Providers \cup {Blank}, OthersAdd(d, p)
      PROVE  Once'
  <2>1. clients' = Append(clients, Foreign(d, p)) /\ Foreign(d, p).by = "others"
    BY <1>2 DEF OthersAdd, Foreign
  <2>2. \A i \in OfTab(clients') : i \in OfTab(clients) /\ clients'[i].domain = clients[i].domain
    BY <1>1, <2>1 DEF OfTab
  <2>3. /\ UNCHANGED <<boxes, page, trip, list, names, loading, busy, req>>
        /\ doubts' = {} => doubts = {}
    BY <1>2 DEF OthersAdd, copies, flags, Tell
  <2> QED
    BY <2>2, <2>3, OnceKept
<1>3. ASSUME NEW e \in Emails, NEW p \in Providers, NEW c \in DOMAIN clients,
             OthersConnect(e, p, c)
      PROVE  Once'
  <2> DEFINE w == [email |-> e, prov |-> p, client |-> c, by |-> "others"]
  <2>1. w \in Box /\ w.client \in DOMAIN clients /\ w.by = "others"
    BY <1>1 DEF Box, Maker
  <2>2. Save(w, "others")
    BY <1>3 DEF OthersConnect
  <2> HIDE DEF w
  <2>3. /\ boxes' = boxes \/ boxes' = Append(boxes, w)
        /\ DOMAIN clients' = DOMAIN clients
        /\ \A i \in DOMAIN clients : /\ clients'[i].domain = clients[i].domain
                                     /\ clients'[i].by = clients[i].by
    BY <1>1, <2>1, <2>2, SaveBinds
  <2>4. \A i \in OfTab(clients') : i \in OfTab(clients) /\ clients'[i].domain = clients[i].domain
    BY <2>3 DEF OfTab
  <2>5. \A i \in OfTab(boxes') : i \in OfTab(boxes) /\ boxes'[i] = boxes[i]
    <3>1. CASE boxes' = boxes
      BY <3>1
    <3>2. CASE boxes' = Append(boxes, w)
      BY <1>1, <2>1, <3>2 DEF OfTab
    <3> QED
      BY <2>3, <3>1, <3>2
  <2>6. /\ UNCHANGED <<page, trip, list, names, loading, busy, req>>
        /\ doubts' = {} => doubts = {}
    BY <1>3 DEF OthersConnect, copies, flags, Tell
  <2> QED
    BY <2>4, <2>5, <2>6, OnceKept
<1>4. ASSUME NEW i \in DOMAIN boxes, OthersRefresh(i) PROVE Once'
  BY <1>4, OnceKeptHere DEF OthersRefresh, copies, flags, Tell
<1> QED
  BY <1>2, <1>3, <1>4 DEF Others

LEMMA SocketKeepsOnce ==
  ASSUME OnceInv, Handshake \/ LoseConnection \/ Deliver
  PROVE  Once'
<1>1. CASE Handshake \/ LoseConnection
  BY <1>1, OnceKeptHere DEF Handshake, LoseConnection, copies, flags
<1>2. CASE Deliver
  <2>1. page \in Gets /\ page' = page
    BY <1>2 DEF Deliver, OnceInv, CopyInv, IInv, Detached, TypeOK, Gets
  <2>2. \A s \in Slots : Tame(req[s], Get(page, "nothing", 0))
    BY <2>1, TameGet DEF Gets
  <2>3. \A s \in Slots : req'[s] = req[s] \/ Tame(req[s], req'[s])
    <3>1. CASE req' = req
      BY <3>1
    <3>2. CASE Free(req) # {} /\ req' = Sent(req, Get(page, "nothing", 0))
      BY <2>2, <3>2, SlotTypes, SentSlot DEF OnceInv, CopyInv
    <3> QED
      BY <1>2, <3>1, <3>2, RoomIsFree DEF Deliver, HasRoom
  <2>4. /\ UNCHANGED <<database, page, trip, list, names, busy, doubts>>
        /\ page = "clients" => loading' = loading
        /\ loading => loading'
    BY <1>2 DEF Deliver, copies, OnceInv, CopyInv, IInv, TypeOK
  <2> QED
    BY <2>3, <2>4, OnceKeptHere
<1> QED
  BY <1>1, <1>2

(* handleAdd is offered for a domain that is not on the list, and the list *)
(* is whole unless the copy is in doubt or cut off.                        *)
LEMMA ClickAddKeepsOnce ==
  ASSUME OnceInv, NEW d \in Domains, NEW p \in Providers, ClickAdd(d, p)
  PROVE  Once'
<1> USE DEF OnceInv, Once
<1> DEFINE w == [domain |-> d, prov |-> p, by |-> MakerNow(Len(names)), binder |-> "nobody"]
           q == Ask("add", "nothing", w, 0)
<1>1. /\ page = "clients" /\ ~loading /\ ~busy /\ busy' = TRUE
      /\ UNCHANGED <<clients, boxes, page, trip, names, list, loading, doubts>>
      /\ Free(req) # {} /\ req' = Sent(req, q)
      /\ \A i \in ShownClients : names[i].domain # d
  BY RoomIsFree DEF ClickAdd, HasRoom, database, copies
<1>2. /\ q.kind = "add" /\ q.then = "nothing" /\ q.at = "sent" /\ q.wish = w
      /\ w.by = MakerNow(Len(names)) /\ w.domain = d
  BY DEF Ask
<1> HIDE DEF q, w
<1>3. PICK t \in Slots : /\ req[t].kind = "idle" /\ req'[t] = q
                         /\ \A s \in Slots : s # t => req'[s] = req[s]
  BY <1>1, SlotTypes, SentSlot DEF CopyInv
<1>4. ASSUME w.by = "tab"
      PROVE  /\ \A i \in OfTab(clients) : clients[i].domain # d
             /\ \A s \in Slots : ~Wishes(req[s], d)
  <2>1. doubts = {} /\ Len(names) <= ListLimit
    BY <1>2, <1>4 DEF MakerNow, Certain
  <2>2. \A s \in Slots : ~Adds(req[s])
    BY <1>1, <2>1 DEF ClientsPage
  <2>3. OfTab(clients) \subseteq DOMAIN names
    BY <1>1, <2>1 DEF ClientsPage
  <2>4. DOMAIN names = ShownClients
    <3>1. names \in Seq(Client) /\ Len(names) \in Nat /\ DOMAIN names = 1 .. Len(names)
      BY TableTypes DEF CopyInv
    <3>2. \A i \in 1 .. Len(names) : i + ListLimit > Len(names)
      BY <2>1, <3>1, DashboardAssumption
    <3> QED
      BY <3>1, <3>2 DEF ShownClients, Newest
  <2>5. \A i \in DOMAIN names : clients[i].domain = names[i].domain
    BY DEF CopyInv, Past
  <2> QED
    BY <1>1, <2>2, <2>3, <2>4, <2>5 DEF Wishes, Adds
<1>5. DomainsOnce'
  <2>0. \A x : Wishes(q, x) => x = d /\ w.by = "tab"
    BY <1>2 DEF Wishes
  <2>1. \A s \in Slots : \A x : Wishes(req'[s], x) =>
          Wishes(req[s], x) \/ (s = t /\ x = d /\ w.by = "tab")
    BY <1>3, <2>0
  <2>2. CASE w.by # "tab"
    BY <1>1, <2>1, <2>2, DomainsKept
  <2>3. CASE w.by = "tab"
    BY <1>1, <1>4, <2>1, <2>3 DEF DomainsOnce
  <2> QED
    BY <2>2, <2>3
<1>6. EmailsOnce'
  <2>1. \A s \in Slots : \A e : Seeks(req'[s], e) => Seeks(req[s], e)
    BY <1>2, <1>3 DEF Seeks
  <2>2. page' # "away" /\ boxes' = boxes
    BY <1>1
  <2> QED
    BY <2>1, <2>2, EmailsKept
<1>7. AddsFetch'
  BY <1>2, <1>3 DEF AddsFetch
<1>8. ClientsPage'
  <2>1. ClientsPage /\ ~loading /\ ~busy /\ ~loading' /\ busy'
    BY <1>1
  <2>2. \A s \in Slots : /\ req'[s].kind # "mailboxes"
                         /\ req'[s].kind \in {"connect", "refresh"} => ~req'[s].mine
    BY <1>2, <1>3, <2>1 DEF ClientsPage
  <2>3. doubts = {} => \A s \in Slots : ~Adds(req[s])
    BY <2>1 DEF ClientsPage
  <2>4. doubts = {} => \A s \in Slots : Adds(req'[s]) => s = t
    BY <1>3, <2>3
  <2>5. \A s \in Slots : Listed(req'[s]) => s # t /\ req'[s] = req[s]
    BY <1>2, <1>3 DEF Listed
  <2>6. doubts = {} => \A s \in Slots : ~(Listed(req'[s]) /\ req'[s].then = "add")
    BY <2>3, <2>5 DEF Adds
  <2> QED
    BY <1>1, <2>1, <2>2, <2>4, <2>6 DEF ClientsPage
<1> QED
  BY <1>1, <1>5, <1>6, <1>7, <1>8

(* The same of handleConnect and the addresses on the mailboxes page.      *)
LEMMA ClickConnectKeepsOnce ==
  ASSUME OnceInv, NEW e \in Emails, NEW p \in Providers, NEW c \in DOMAIN names,
         ClickConnect(e, p, c)
  PROVE  Once'
<1> USE DEF OnceInv, Once
<1> DEFINE w == [email |-> e, prov |-> p, client |-> c, by |-> MakerNow(list)]
           q == Ask("connect", "nothing", w, 0)
<1>1. /\ page = "mailboxes" /\ ~loading
      /\ UNCHANGED <<clients, boxes, page, trip, names, list, loading, doubts>>
      /\ Free(req) # {} /\ req' = Sent(req, q)
      /\ \A i \in ShownBoxes : boxes[i].email # e
  BY RoomIsFree DEF ClickConnect, HasRoom, database, copies
<1>2. /\ q.kind = "connect" /\ q.then = "nothing" /\ q.wish = w
      /\ w.by = MakerNow(list) /\ w.email = e
  BY DEF Ask
<1> HIDE DEF q, w
<1>3. PICK t \in Slots : /\ req[t].kind = "idle" /\ req'[t] = q
                         /\ \A s \in Slots : s # t => req'[s] = req[s]
  BY <1>1, SlotTypes, SentSlot DEF CopyInv
<1>4. ASSUME w.by = "tab"
      PROVE  \A i \in OfTab(boxes) : boxes[i].email # e
  <2>1. doubts = {} /\ list <= ListLimit
    BY <1>2, <1>4 DEF MakerNow, Certain
  <2>2. OfTab(boxes) \subseteq 1 .. list
    BY <1>1, <2>1 DEF MailboxesPage
  <2>3. 1 .. list = ShownBoxes
    <3>1. list \in Nat
      BY TableTypes DEF CopyInv
    <3>2. \A i \in 1 .. list : i + ListLimit > list
      BY <2>1, <3>1, DashboardAssumption
    <3> QED
      BY <3>1, <3>2 DEF ShownBoxes, Newest
  <2> QED
    BY <1>1, <2>2, <2>3
<1>5. DomainsOnce'
  <2>1. \A s \in Slots : \A d : Wishes(req'[s], d) => Wishes(req[s], d)
    BY <1>2, <1>3 DEF Wishes
  <2> QED
    BY <1>1, <2>1, DomainsKept
<1>6. EmailsOnce'
  <2>0. \A x : Seeks(q, x) => x = e /\ w.by = "tab"
    BY <1>2 DEF Seeks
  <2>1. \A s \in Slots : \A x : Seeks(req'[s], x) =>
          Seeks(req[s], x) \/ (x = e /\ w.by = "tab")
    BY <1>3, <2>0
  <2>2. page' # "away" /\ boxes' = boxes
    BY <1>1
  <2> QED
    BY <1>4, <2>1, <2>2 DEF EmailsOnce
<1>7. AddsFetch'
  BY <1>2, <1>3 DEF AddsFetch
<1>8. MailboxesPage'
  <2>1. \A s \in Slots : Counted(req'[s]) => req'[s] = req[s]
    BY <1>2, <1>3 DEF Counted
  <2> QED
    BY <1>1, <2>1 DEF MailboxesPage
<1> QED
  BY <1>1, <1>5, <1>6, <1>7, <1>8

LEMMA ClickRefreshKeepsOnce ==
  ASSUME OnceInv, NEW i \in 1 .. list, ClickRefresh(i)
  PROVE  Once'
<1> DEFINE q == Ask("refresh", "nothing", NoTrip, i)
<1>1. /\ page = "mailboxes" /\ Free(req) # {} /\ req' = Sent(req, q)
      /\ UNCHANGED <<database, page, trip, list, names, loading, doubts>>
  BY RoomIsFree DEF ClickRefresh, HasRoom, copies
<1>2. \A s \in Slots : Tame(req[s], q)
  BY <1>1 DEF Tame, Ask, Adds, Wishes, Seeks, Listed, Counted
<1> HIDE DEF q
<1>3. \A s \in Slots : req'[s] = req[s] \/ Tame(req[s], req'[s])
  BY <1>1, <1>2, SlotTypes, SentSlot DEF OnceInv, CopyInv
<1> QED
  BY <1>1, <1>3, OnceKeptHere

(* What a page that is left keeps of its requests awaits no fetch.         *)
Rests(q) == /\ q.kind = "idle" \/ (q.kind \in {"add", "connect", "refresh"} /\ ~q.mine)
            /\ q.then # "add"

LEMMA OrphansRest ==
  ASSUME OnceInv, NEW kept \in SUBSET {"add", "connect", "refresh"}, NEW s \in Slots
  PROVE  /\ Rests(Orphaned(req, kept)[s])
         /\ \A d : Wishes(Orphaned(req, kept)[s], d) => Wishes(req[s], d)
         /\ \A e : Seeks(Orphaned(req, kept)[s], e) => Seeks(req[s], e)
<1> DEFINE r == Orphaned(req, kept)[s]
<1>1. AllSound(req, Len(clients)) /\ Len(clients) \in Nat
  BY TableTypes DEF OnceInv, CopyInv, IInv
<1>2. \/ r = Idle
      \/ /\ r.kind = req[s].kind /\ req[s].kind \in kept
         /\ r.at = "sent" /\ req[s].at = "sent" /\ r.wish = req[s].wish
         /\ r.then = req[s].then /\ ~r.mine
  BY <1>1, OrphanedSlots
<1> HIDE DEF r
<1>3. CASE r = Idle
  BY <1>3 DEF r, Rests, Wishes, Seeks, Idle, Ask
<1>4. CASE r # Idle
  <2>1. r.then # "add"
    BY <1>2, <1>4 DEF OnceInv, Once, AddsFetch
  <2> QED
    BY <1>2, <1>4, <2>1 DEF r, Rests, Wishes, Seeks
<1> QED
  BY <1>3, <1>4

(* A page just mounted allows nothing before its first fetch.              *)
LEMMA MountOnce ==
  ASSUME NEW n \in Nat, NEW rs, AllSound(rs, n), NEW p \in Gets, Mount(p, rs),
         \A s \in Slots : Rests(rs[s])
  PROVE  /\ AddsFetch' /\ page' # "away"
         /\ page' = "clients" => ClientsPage'
         /\ page' = "mailboxes" => MailboxesPage'
         /\ \A s \in Slots : \A d : Wishes(req'[s], d) => Wishes(rs[s], d)
         /\ \A s \in Slots : \A e : Seeks(req'[s], e) => Seeks(rs[s], e)
<1>1. /\ Cardinality(Free(rs)) >= 2 /\ req' = MountRequests(p, rs) /\ page' = p
      /\ loading' = TRUE /\ busy' = FALSE
      /\ doubts' = {} => \A s \in Slots : rs[s].kind # "add"
  BY DEF Mount
<1>2. \A s \in Slots : \/ req'[s] = rs[s]
                       \/ p = "mailboxes" /\ req'[s] = Get("mailboxes", "mount", 0)
                       \/ req'[s] = Get("clients", "mount", 0)
  BY <1>1, MountSlots
<1>3. \A k, a, i : /\ Get(k, a, i).kind = k /\ Get(k, a, i).then = a
                   /\ Get(k, a, i).at = "sent"
  BY DEF Get, Ask
<1>4. \A s \in Slots : req'[s] = rs[s] \/ (req'[s].then = "mount" /\ req'[s].at = "sent"
        /\ req'[s].kind \in Gets /\ (p = "clients" => req'[s].kind = "clients"))
  BY <1>2, <1>3 DEF Gets
<1>5. AddsFetch'
  BY <1>4 DEF AddsFetch, Rests
<1>6. /\ \A s \in Slots : \A d : Wishes(req'[s], d) => Wishes(rs[s], d)
      /\ \A s \in Slots : \A e : Seeks(req'[s], e) => Seeks(rs[s], e)
  BY <1>4 DEF Wishes, Seeks, Gets
<1>7. \A s \in Slots : ~Listed(req'[s]) /\ ~Counted(req'[s])
  BY <1>4 DEF Listed, Counted, Rests
<1>8. ASSUME p = "clients" PROVE ClientsPage'
  <2>1. \A s \in Slots : /\ req'[s].kind # "mailboxes"
                         /\ req'[s].kind \in {"connect", "refresh"} => ~req'[s].mine
    BY <1>4, <1>8 DEF Rests
  <2>2. doubts' = {} => \A s \in Slots : ~Adds(req'[s])
    BY <1>1, <1>4, <1>8 DEF Adds, Rests
  <2> QED
    BY <1>1, <1>7, <2>1, <2>2 DEF ClientsPage
<1>9. MailboxesPage'
  BY <1>1, <1>7 DEF MailboxesPage
<1> QED
  BY <1>1, <1>5, <1>6, <1>8, <1>9 DEF Gets

LEMMA GoToKeepsOnce ==
  ASSUME OnceInv, NEW p \in {"mailboxes", "clients"}, GoTo(p)
  PROVE  Once'
<1> DEFINE kept == {"add", "connect", "refresh"}
           rs == Orphaned(req, kept)
<1>1. AllSound(rs, Len(clients)) /\ Len(clients) \in Nat
  BY TableTypes, OrphanedSound DEF OnceInv, CopyInv, IInv
<1>2. Mount(p, rs) /\ UNCHANGED database /\ p \in Gets
  BY DEF GoTo, Gets
<1>3. \A s \in Slots : /\ Rests(rs[s])
                       /\ \A d : Wishes(rs[s], d) => Wishes(req[s], d)
                       /\ \A e : Seeks(rs[s], e) => Seeks(req[s], e)
  BY OrphansRest
<1> HIDE DEF rs
<1>4. /\ AddsFetch' /\ page' # "away"
      /\ page' = "clients" => ClientsPage'
      /\ page' = "mailboxes" => MailboxesPage'
      /\ \A s \in Slots : \A d : Wishes(req'[s], d) => Wishes(rs[s], d)
      /\ \A s \in Slots : \A e : Seeks(req'[s], e) => Seeks(rs[s], e)
  BY <1>1, <1>2, <1>3, MountOnce
<1>5. DomainsOnce'
  <2>1. \A s \in Slots : \A d : Wishes(req'[s], d) => Wishes(req[s], d)
    BY <1>3, <1>4
  <2> QED
    BY <1>2, <2>1, DomainsKept DEF database, OnceInv, Once
<1>6. EmailsOnce'
  <2>1. \A s \in Slots : \A e : Seeks(req'[s], e) => Seeks(req[s], e)
    BY <1>3, <1>4
  <2> QED
    BY <1>2, <1>4, <2>1, EmailsKept DEF database, OnceInv, Once
<1> QED
  BY <1>4, <1>5, <1>6 DEF Once

(* Only here the tab stores a mailbox, for which no other call is left.    *)
LEMMA ReturnKeepsOnce ==
  ASSUME OnceInv, Return
  PROVE  Once'
<1> USE DEF OnceInv, Once
<1>1. /\ AllSound(req, Len(clients)) /\ Len(clients) \in Nat /\ TypeOK
      /\ boxes \in Seq(Box) /\ trip \in Box /\ trip.client \in DOMAIN clients
      /\ page = "away" /\ Bound(boxes, clients)
  BY TableTypes DEF CopyInv, IInv, Return, TypeOK
<1>2. \A s \in Slots : Rests(req[s]) /\ \A e : ~Seeks(req[s], e)
  BY <1>1 DEF CopyInv, Forgotten, Rests, AddsFetch, Seeks
<1>3. /\ AddsFetch' /\ page' # "away"
      /\ page' = "clients" => ClientsPage'
      /\ page' = "mailboxes" => MailboxesPage'
      /\ \A s \in Slots : \A d : Wishes(req'[s], d) => Wishes(req[s], d)
      /\ \A s \in Slots : \A e : Seeks(req'[s], e) => Seeks(req[s], e)
  <2>1. Mount("mailboxes", req) /\ "mailboxes" \in Gets
    BY DEF Return, Gets
  <2> QED
    BY <1>1, <1>2, <2>1, MountOnce
<1>4. /\ boxes' = boxes \/ boxes' = Append(boxes, trip)
      /\ DOMAIN clients' = DOMAIN clients
      /\ \A i \in DOMAIN clients : /\ clients'[i].domain = clients[i].domain
                                   /\ clients'[i].by = clients[i].by
  <2>1. CASE Save(trip, "tab")
    BY <1>1, <2>1, SaveBinds
  <2>2. CASE UNCHANGED database
    BY <2>2 DEF database
  <2> QED
    BY <2>1, <2>2 DEF Return
<1>5. DomainsOnce'
  <2>1. \A i \in OfTab(clients') : i \in OfTab(clients) /\ clients'[i].domain = clients[i].domain
    BY <1>4 DEF OfTab
  <2> QED
    BY <1>3, <2>1, DomainsKept
<1>6. EmailsOnce'
  <2>1. \A s \in Slots : \A e : ~Seeks(req'[s], e)
    BY <1>2, <1>3
  <2>2. \A i, k \in OfTab(boxes') : boxes'[i].email = boxes'[k].email => i = k
    <3>1. CASE boxes' = boxes
      BY <3>1 DEF EmailsOnce
    <3>2. CASE boxes' = Append(boxes, trip)
      <4>1. \A i \in OfTab(boxes') : \/ i \in OfTab(boxes) /\ boxes'[i] = boxes[i]
                                     \/ i = Len(boxes) + 1 /\ boxes'[i] = trip /\ trip.by = "tab"
        BY <1>1, <3>2 DEF OfTab
      <4> QED
        BY <1>1, <4>1 DEF EmailsOnce
    <3> QED
      BY <1>4, <3>1, <3>2
  <2> QED
    BY <1>3, <2>1, <2>2 DEF EmailsOnce
<1> QED
  BY <1>3, <1>5, <1>6

LEMMA ServersKeepOnce ==
  ASSUME OnceInv, NEW s \in Slots, Serve(s) \/ ExecuteRefresh(s) \/ Lose(s)
  PROVE  Once'
<1>0. IInv
  BY DEF OnceInv, CopyInv
<1>1. CASE Serve(s)
  <2>1. PICK q : /\ Replaces(s, q) /\ q.kind = req[s].kind /\ q.then = req[s].then
                 /\ q.kind = "mailboxes" => q.count = Len(boxes)
                 /\ q.kind = "clients" => q.answer = clients
    BY <1>0, <1>1, ServedSlot
  <2>2. Tame(req[s], q)
    <3>1. q.kind \in Gets
      BY <1>1, <2>1 DEF Serve, Gets
    <3>2. page = "clients" => q.kind # "mailboxes"
      BY <2>1 DEF OnceInv, Once, ClientsPage
    <3>3. q.then = "add" => q.kind = "clients"
      BY <2>1 DEF OnceInv, Once, AddsFetch
    <3> QED
      BY <2>1, <3>1, <3>2, <3>3 DEF Tame, Adds, Wishes, Seeks, Listed, Counted, Gets
  <2>3. \A t \in Slots : req'[t] = req[t] \/ Tame(req[t], req'[t])
    BY <2>1, <2>2 DEF Replaces
  <2> QED
    BY <1>1, <2>3, OnceKeptHere DEF Serve, copies, flags
<1>2. CASE ExecuteRefresh(s)
  <2>1. \A t \in Slots : req'[t] = req[t] \/ Tame(req[t], req'[t])
    BY <1>2, TameAnswered DEF ExecuteRefresh, Done, Gets
  <2> QED
    BY <1>2, <2>1, OnceKeptHere DEF ExecuteRefresh, copies, flags, Tell
<1>3. CASE Lose(s)
  <2>1. \A t \in Slots : req'[t] = req[t] \/ Tame(req[t], req'[t])
    BY <1>3, TameAnswered DEF Lose
  <2> QED
    BY <1>3, <2>1, OnceKeptHere DEF Lose, copies, flags
<1> QED
  BY <1>1, <1>2, <1>3

(* A wish comes true, and is gone.                                         *)
LEMMA ExecuteAddKeepsOnce ==
  ASSUME OnceInv, NEW s \in Slots, ExecuteAdd(s)
  PROVE  Once'
<1> USE DEF OnceInv, Once
<1> DEFINE w == req[s].wish
           n == Len(clients) + 1
<1>1. /\ clients \in Seq(Client) /\ w \in Client /\ IInv /\ Len(clients) \in Nat
  BY TableTypes DEF CopyInv, Sound, ExecuteAdd
<1>2. /\ clients' = Append(clients, w) /\ req[s].kind = "add" /\ req[s].at = "sent"
      /\ UNCHANGED <<boxes, page, trip, list, names, loading, busy>>
      /\ doubts' = {} => doubts = {}
  BY DEF ExecuteAdd, copies, flags, Tell
<1>3. PICK q : /\ Replaces(s, q)
               /\ q = Idle \/ (q.kind = "add" /\ q.then = req[s].then /\ q.at = "done")
  <2>1. req' = [req EXCEPT ![s] =
                  IF req[s].mine THEN [req[s] EXCEPT !.at = "done"] ELSE Idle]
    BY DEF ExecuteAdd, Done
  <2>2. PICK q : /\ Replaces(s, q)
                 /\ q = Idle \/ (q.kind = req[s].kind /\ q.then = req[s].then /\ q.at = "done")
    BY <1>1, <2>1, AnsweredSlot
  <2> QED
    BY <1>2, <2>2
<1>4. /\ q.kind = "idle" \/ (q.kind = "add" /\ q.at # "sent")
      /\ q.then # "add"
  BY <1>2, <1>3 DEF Idle, Ask, AddsFetch
<1>5. /\ req'[s] = q /\ \A t \in Slots : t # s => req'[t] = req[t]
  BY <1>3 DEF Replaces
<1>6. \A t \in Slots : \A d : Wishes(req'[t], d) => t # s /\ Wishes(req[t], d)
  BY <1>4, <1>5 DEF Wishes
<1>7. DomainsOnce'
  <2>1. \A i \in OfTab(clients') :
          \/ i \in OfTab(clients) /\ clients'[i] = clients[i]
          \/ i = n /\ clients'[i] = w /\ Wishes(req[s], w.domain)
    BY <1>1, <1>2 DEF OfTab, Wishes
  <2>2. n \notin OfTab(clients) /\ w.domain \in Domains
    BY <1>1 DEF OfTab, Client
  <2> HIDE DEF w, n
  <2>3. \A i, k \in OfTab(clients') : clients'[i].domain = clients'[k].domain => i = k
    BY <2>1, <2>2 DEF DomainsOnce
  <2>4. \A i \in OfTab(clients'), t \in Slots : ~Wishes(req'[t], clients'[i].domain)
    <3> SUFFICES ASSUME NEW i \in OfTab(clients'), NEW t \in Slots,
                        Wishes(req'[t], clients'[i].domain)
                 PROVE  FALSE
      OBVIOUS
    <3>1. t # s /\ Wishes(req[t], clients'[i].domain)
      BY <1>6
    <3> QED
      BY <2>1, <2>2, <3>1 DEF DomainsOnce
  <2>5. \A t, u \in Slots, d \in Domains : Wishes(req'[t], d) /\ Wishes(req'[u], d) => t = u
    BY <1>6 DEF DomainsOnce
  <2> QED
    BY <2>3, <2>4, <2>5 DEF DomainsOnce
<1>8. EmailsOnce'
  <2>1. \A t \in Slots : \A e : Seeks(req'[t], e) => Seeks(req[t], e)
    BY <1>4, <1>5 DEF Seeks
  <2> QED
    BY <1>2, <2>1, EmailsKept
<1>9. AddsFetch'
  BY <1>4, <1>5 DEF AddsFetch
<1>10. ASSUME page = "clients" PROVE ClientsPage'
  <2>1. \A t \in Slots : /\ req'[t].kind # "mailboxes"
                         /\ req'[t].kind \in {"connect", "refresh"} => ~req'[t].mine
    BY <1>4, <1>5, <1>10 DEF ClientsPage
  <2>2. Adds(req[s])
    BY <1>2 DEF Adds
  <2>3. \A t \in Slots : Adds(req'[t]) => Adds(req[t])
    BY <1>5, <2>2
  <2>4. doubts = {} => busy /\ ~loading
    BY <1>10, <2>2 DEF ClientsPage
  <2>5. doubts = {} => \A t \in Slots : ~(Listed(req'[t]) /\ req'[t].then = "add")
    <3>1. doubts = {} => \A t \in Slots : Adds(req[t]) => t = s
      BY <1>10, <2>2 DEF ClientsPage
    <3> QED
      BY <1>4, <1>5, <3>1 DEF Listed, Adds
  <2> QED
    BY <1>2, <1>10, <2>1, <2>3, <2>4, <2>5 DEF ClientsPage
<1>11. ASSUME page = "mailboxes" PROVE MailboxesPage'
  <2>1. \A t \in Slots : Counted(req'[t]) => req'[t] = req[t]
    BY <1>4, <1>5 DEF Counted
  <2> QED
    BY <1>2, <1>11, <2>1 DEF MailboxesPage
<1> QED
  BY <1>2, <1>7, <1>8, <1>9, <1>10, <1>11

(* On the mailboxes page an answer has all rows that the tab made; of the  *)
(* clients page there are no such fetches.                                 *)
LEMMA LandMailboxesKeepsOnce ==
  ASSUME OnceInv, NEW s \in Slots, LandMailboxes(s)
  PROVE  Once'
<1> USE DEF OnceInv, Once
<1>1. Replaces(s, Idle)
  BY ReplacesExcept DEF CopyInv, LandMailboxes, Over
<1>2. \A t \in Slots : req'[t] = req[t] \/ Tame(req[t], req'[t])
  BY <1>1, TameIdle DEF Replaces
<1>3. /\ UNCHANGED <<database, page, trip, names, busy>> /\ req[s].kind = "mailboxes"
      /\ doubts' = {} => doubts = {} /\ Counted(req[s]) /\ list' = req[s].count
  BY TableTypes DEF LandMailboxes, Counted, CopyInv, Request
<1>4. page # "clients"
  BY <1>3 DEF ClientsPage
<1>5. CASE page # "mailboxes"
  BY <1>2, <1>3, <1>4, <1>5, OnceKept DEF database
<1>6. CASE page = "mailboxes"
  <2>1. /\ \A t \in Slots : \A d : Wishes(req'[t], d) => Wishes(req[t], d)
        /\ \A t \in Slots : \A e : Seeks(req'[t], e) => Seeks(req[t], e)
    BY <1>2 DEF Tame
  <2>2. DomainsOnce'
    BY <1>3, <2>1, DomainsKept DEF database
  <2>3. EmailsOnce'
    BY <1>3, <1>6, <2>1, EmailsKept DEF database
  <2>4. AddsFetch'
    BY <1>2 DEF AddsFetch, Tame
  <2>5. \A t \in Slots : Counted(req'[t]) => req'[t] = req[t]
    BY <1>1 DEF Replaces, Counted, Idle, Ask
  <2>6. MailboxesPage'
    BY <1>3, <1>6, <2>5 DEF MailboxesPage, database
  <2> QED
    BY <1>3, <1>6, <2>2, <2>3, <2>4, <2>6
<1> QED
  BY <1>5, <1>6

(* On the clients page an answer that re-enables the form has all rows     *)
(* that the tab made, and another one replaces no longer list.             *)
LEMMA LandClientsKeepsOnce ==
  ASSUME OnceInv, NEW s \in Slots, LandClients(s)
  PROVE  Once'
<1> DEFINE q == req[s]
<1>0. CopyInv /\ IInv /\ q \in Request
  BY TableTypes DEF OnceInv, CopyInv
<1>1. Replaces(s, Idle)
  BY <1>0, ReplacesExcept DEF LandClients, Over
<1>2. \A t \in Slots : req'[t] = req[t] \/ Tame(req[t], req'[t])
  BY <1>1, TameIdle DEF Replaces
<1>3. /\ UNCHANGED <<database, page, trip, list>>
      /\ doubts' = {} => doubts = {}
      /\ page # "clients" => loading' = loading
      /\ loading' => loading
  BY <1>0 DEF LandClients, IInv, TypeOK
<1>4. CASE page # "clients" \/ doubts' # {}
  <2>1. page = "mailboxes" => (loading => loading')
    BY <1>3
  <2>2. ~(page = "clients" /\ doubts' = {})
    BY <1>4
  <2> QED
    BY <1>2, <1>3, <2>1, <2>2, OnceKeptHere
<1>5. ASSUME page = "clients", doubts' = {} PROVE Once'
  <2>1. /\ q.kind = "clients" /\ q.at = "done" /\ names' = q.answer
        /\ ~Older(q.answer, names) /\ doubts = {}
        /\ q.then = "mount" => ~loading'
        /\ q.then # "mount" => (loading <=> loading')
        /\ q.then = "add" => ~busy'
        /\ q.then # "add" => (busy <=> busy')
        /\ busy' => busy
    BY <1>0, <1>5 DEF LandClients, Request
  <2>2. /\ names \in Seq(Client) /\ q.answer \in Seq(Client) /\ Listed(q)
    BY <1>0, <2>1, TableTypes DEF Request, Listed
  <2>3. DOMAIN names \subseteq DOMAIN q.answer
    <3>1. ~(Len(q.answer) < Len(names)) /\ Len(names) \in Nat /\ Len(q.answer) \in Nat
      BY <2>1, <2>2 DEF Older
    <3> QED
      BY <2>2, <3>1
  <2> HIDE DEF q
  <2>4. ClientsPage /\ q = req[s] /\ DomainsOnce /\ EmailsOnce /\ AddsFetch
    BY <1>5 DEF q, OnceInv, Once
  <2>5. \A t \in Slots : Adds(req'[t]) => t # s /\ Adds(req[t])
    BY <1>1 DEF Replaces, Idle, Ask, Adds
  <2>6. \A t \in Slots : Listed(req'[t]) => req'[t] = req[t]
    BY <1>1 DEF Replaces, Idle, Ask, Listed
  <2>7. \A t \in Slots : /\ req'[t].kind # "mailboxes"
                         /\ req'[t].kind \in {"connect", "refresh"} => ~req'[t].mine
    BY <1>1, <2>4 DEF Replaces, Idle, Ask, ClientsPage
  <2>8. busy' \/ \A t \in Slots : ~Adds(req'[t])
    <3>1. CASE q.then = "add"
      <4>1. Adds(req[s])
        BY <2>4, <3>1 DEF Adds
      <4>2. \A t \in Slots : Adds(req[t]) => t = s
        BY <2>1, <2>4, <4>1 DEF ClientsPage
      <4> QED
        BY <2>5, <4>2
    <3>2. CASE q.then # "add"
      BY <2>1, <2>4, <2>5, <3>2 DEF ClientsPage
    <3> QED
      BY <3>1, <3>2
  <2>9. ~loading' \/ ~busy'
    BY <1>3, <2>1, <2>4 DEF ClientsPage
  <2>10. loading' \/ busy' \/ OfTab(clients) \subseteq DOMAIN q.answer
    <3>1. CASE loading \/ q.then = "add"
      <4>1. OfTab(clients) \subseteq DOMAIN q.answer
        BY <2>1, <2>2, <2>4, <3>1 DEF ClientsPage
      <4> QED
        BY <4>1
    <3>2. CASE ~loading /\ q.then # "add"
      BY <2>1, <2>3, <2>4, <3>2 DEF ClientsPage
    <3> QED
      BY <3>1, <3>2
  <2>11. ClientsPage'
    <3>1. /\ clients' = clients /\ names' = q.answer
      BY <1>3, <2>1 DEF database
    <3>2. \A t, u \in Slots : Adds(req'[t]) /\ Adds(req'[u]) => t = u
      BY <2>1, <2>4, <2>5 DEF ClientsPage
    <3>3. \A t \in Slots : Listed(req'[t]) /\ (loading' \/ req'[t].then = "add")
                             => OfTab(clients) \subseteq DOMAIN req'[t].answer
      BY <1>3, <2>1, <2>4, <2>6 DEF ClientsPage
    <3> QED
      BY <2>7, <2>8, <2>9, <2>10, <3>1, <3>2, <3>3 DEF ClientsPage
  <2>12. /\ \A t \in Slots : \A d : Wishes(req'[t], d) => Wishes(req[t], d)
         /\ \A t \in Slots : \A e : Seeks(req'[t], e) => Seeks(req[t], e)
    BY <1>2 DEF Tame
  <2>13. clients' = clients /\ boxes' = boxes /\ page' = "clients"
    BY <1>3, <1>5 DEF database
  <2>14. DomainsOnce'
    BY <2>4, <2>12, <2>13, DomainsKept
  <2>15. EmailsOnce'
    BY <2>4, <2>12, <2>13, EmailsKept
  <2>16. AddsFetch'
    BY <1>2, <2>4 DEF AddsFetch, Tame
  <2> QED
    BY <2>11, <2>13, <2>14, <2>15, <2>16 DEF Once
<1> QED
  BY <1>4, <1>5

LEMMA AnswersKeepOnce ==
  ASSUME OnceInv, NEW s \in Slots, AnswerAdd(s) \/ AnswerRefresh(s) \/ ConnectFails(s)
  PROVE  Once'
<1>0. CopyInv /\ IInv
  BY DEF OnceInv, CopyInv
<1>1. /\ UNCHANGED <<database, page, trip, list, names>>
      /\ doubts' = {} => doubts = {}
      /\ loading => loading'
  BY <1>0 DEF AnswerAdd, AnswerRefresh, ConnectFails, copies, IInv, TypeOK
<1>2. req[s].mine \/ req[s].at = "sent"
  BY <1>0, TableTypes DEF Sound, AnswerAdd, AnswerRefresh, ConnectFails, Gets
<1>3. ASSUME NEW q, req' = [req EXCEPT ![s] = q], Tame(req[s], q),
             page = "clients" /\ doubts' = {} => UNCHANGED <<loading, busy>>
      PROVE  Once'
  <2>1. Replaces(s, q)
    BY <1>0, <1>3, ReplacesExcept
  <2>2. \A t \in Slots : req'[t] = req[t] \/ Tame(req[t], req'[t])
    BY <1>3, <2>1 DEF Replaces
  <2> QED
    BY <1>1, <1>3, <2>2, OnceKeptHere
<1>4. CASE AnswerAdd(s) /\ req[s].at = "done"
  <2>1. Tame(req[s], Get("clients", "add", 0))
    BY <1>4, TameGet DEF AnswerAdd, Adds, Gets
  <2> QED
    BY <1>3, <1>4, <2>1 DEF AnswerAdd
<1>5. CASE AnswerAdd(s) /\ req[s].at # "done"
  <2>1. req' = [req EXCEPT ![s] = Idle] /\ doubts' # {}
    BY <1>5 DEF AnswerAdd, Over
  <2> QED
    BY <1>3, <2>1, TameIdle
<1>6. CASE AnswerRefresh(s) \/ ConnectFails(s)
  <2>1. page # "clients"
    BY <1>2, <1>6 DEF OnceInv, Once, ClientsPage, AnswerRefresh, ConnectFails
  <2>2. Tame(req[s], Get("mailboxes", "refresh", req[s].id))
    BY <2>1, TameGet DEF Gets
  <2>3. CASE AnswerRefresh(s)
    BY <1>3, <2>1, <2>2, <2>3 DEF AnswerRefresh
  <2>4. CASE ConnectFails(s)
    BY <1>3, <2>1, <2>4, TameIdle DEF ConnectFails, Over
  <2> QED
    BY <1>6, <2>3, <2>4
<1> QED
  BY <1>4, <1>5, <1>6

LEMMA RedirectKeepsOnce ==
  ASSUME OnceInv, NEW s \in Slots, Redirect(s)
  PROVE  Once'
<1> USE DEF OnceInv, Once
<1> DEFINE kept == {"add", "refresh"}
<1>1. /\ page' = "away" /\ trip' = req[s].wish /\ req[s].kind = "connect"
      /\ req' = Orphaned(req, kept) /\ UNCHANGED database
  BY DEF Redirect
<1>2. \A t \in Slots : /\ Rests(req'[t])
                       /\ \A d : Wishes(req'[t], d) => Wishes(req[t], d)
                       /\ \A e : Seeks(req'[t], e) => Seeks(req[t], e)
  BY <1>1, OrphansRest
<1>3. DomainsOnce'
  <2>1. \A t \in Slots : \A d : Wishes(req'[t], d) => Wishes(req[t], d)
    BY <1>2
  <2> QED
    BY <1>1, <2>1, DomainsKept DEF database
<1>4. EmailsOnce'
  <2>1. \A t \in Slots : \A e : Seeks(req'[t], e) => Seeks(req[t], e)
    BY <1>2
  <2>2. trip'.by = "tab" => Seeks(req[s], trip'.email)
    BY <1>1 DEF Seeks
  <2> QED
    BY <1>1, <2>1, <2>2, EmailsKept DEF database
<1>5. AddsFetch'
  BY <1>2 DEF AddsFetch, Rests
<1> QED
  BY <1>1, <1>3, <1>4, <1>5

LEMMA NextKeepsOnceInv == OnceInv /\ [Next]_vars => OnceInv'
<1> SUFFICES ASSUME OnceInv, [Next]_vars PROVE Once'
  BY NextKeepsCopyInv DEF OnceInv
<1>1. CASE UNCHANGED vars
  BY <1>1, OnceKeptHere DEF vars, copies, flags
<1>2. CASE Next
  BY <1>2, OthersKeepOnce, SocketKeepsOnce, ClickAddKeepsOnce, ClickConnectKeepsOnce,
     ClickRefreshKeepsOnce, GoToKeepsOnce, ReturnKeepsOnce, ServersKeepOnce,
     ExecuteAddKeepsOnce, LandMailboxesKeepsOnce, LandClientsKeepsOnce, AnswersKeepOnce,
     RedirectKeepsOnce
     DEF Next, User, Progress, RequestStep
<1> QED
  BY <1>1, <1>2

LEMMA InitOnceInv == Init => OnceInv
<1> SUFFICES ASSUME Init PROVE Once
  BY InitCopyInv DEF OnceInv
<1> DEFINE none == [s \in Slots |-> Idle]
<1>1. AllSound(none, Len(clients)) /\ Cardinality(Free(none)) >= 2 /\ Len(clients) \in Nat
  <2>1. Len(clients) \in Nat
    BY InitIInv, TableTypes
  <2>2. AllSound(none, Len(clients))
    BY <2>1, IdleSound DEF AllSound, Sound
  <2>3. Free(none) = Slots
    BY DEF Free, Idle, Ask
  <2> QED
    BY <2>1, <2>2, <2>3, DashboardAssumption
<1>2. page \in Gets /\ req = MountRequests(page, none) /\ loading = TRUE /\ busy = FALSE
  BY DEF Init, Gets
<1>3. \A s \in Slots : none[s] = Idle
  OBVIOUS
<1> HIDE DEF none
<1>4. \A s \in Slots : /\ req[s].kind \in Gets \cup {"idle"} /\ req[s].at = "sent"
                       /\ req[s].then # "add"
                       /\ page = "clients" => req[s].kind # "mailboxes"
  BY <1>1, <1>2, <1>3, MountSlots DEF Get, Idle, Ask, Gets
<1>5. OfTab(clients) = {} /\ OfTab(boxes) = {}
  <2>1. CASE clients = <<>> /\ boxes = <<>>
    BY <2>1 DEF OfTab
  <2>2. CASE \E d \in Domains, e \in Emails, p \in Providers :
               /\ clients = <<Foreign(d, p)>>
               /\ boxes = <<[email |-> e, prov |-> p, client |-> 1, by |-> "others"]>>
    BY <2>2 DEF OfTab, Foreign
  <2> QED
    BY <2>1, <2>2 DEF Init
<1>6. DomainsOnce /\ EmailsOnce /\ AddsFetch
  BY <1>2, <1>4, <1>5 DEF DomainsOnce, EmailsOnce, AddsFetch, Wishes, Seeks, Gets
<1>7. page = "clients" => ClientsPage
  BY <1>2, <1>4, <1>5 DEF ClientsPage, Adds, Gets
<1>8. page = "mailboxes" => MailboxesPage
  BY <1>2, <1>5 DEF MailboxesPage
<1> QED
  BY <1>6, <1>7, <1>8 DEF Once

(* RepeatHasCause: the tab adds no domain and connects no address twice,   *)
(* unless at the second click its copy was in doubt or cut off; what keeps *)
(* it from doing so are the pages' copies alone.                           *)
THEOREM RepeatsNeedDoubt == Spec => []RepeatHasCause
<1>1. OnceInv => RepeatHasCause
  BY DEF OnceInv, Once, DomainsOnce, EmailsOnce, OfTab, RepeatHasCause
<1> QED
  BY <1>1, InitOnceInv, NextKeepsOnceInv, PTL DEF Spec
=============================================================================
