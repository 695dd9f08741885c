-------------------------- MODULE LiveLogsProofs ---------------------------
(***************************************************************************)
(* For any pages, events, dates and time zones: type correctness of        *)
(* LiveLogs, the unread badge is clear on the logs page, the provider of   *)
(* the badge is never left without a connection, and the list is the log's *)
(* unless one of the causes named in StaleListHasCause was met.            *)
(***************************************************************************)
EXTENDS LiveLogs, TLAPS

USE LiveLogsAssumption DEF LiveLogsAssumption

(* Responses leave the list of requests one by one.                        *)
LEMMA RemoveAtType ==
  ASSUME NEW S, NEW s \in Seq(S), NEW k \in DOMAIN s
  PROVE  RemoveAt(s, k) \in Seq(S)
<1>1. /\ Len(s) \in Nat /\ k \in 1 .. Len(s)
      /\ SubSeq(s, 1, k - 1) \in Seq(S)
      /\ SubSeq(s, k + 1, Len(s)) \in Seq(S)
  OBVIOUS
<1> QED
  BY <1>1 DEF RemoveAt

LEMMA ToSetType ==
  ASSUME NEW S, NEW s \in Seq(S)
  PROVE  ToSet(s) \subseteq S
BY DEF ToSet

LEMMA NewGetType ==
  ASSUME NEW f \in Filter
  PROVE  NewGet(f) \in Get
BY DEF NewGet, Get, NoAnswer

LEMMA NewHookType ==
  ASSUME page \in Pages, filter \in Filter
  PROVE  NewHook \in Hook
BY DEF NewHook, Hook

-----------------------------------------------------------------------------
(* What the badge and the connection depend on.  A commit that leaves the  *)
(* provider's effect alone is one of a page that calls useSocket, whose    *)
(* own effect connects again.                                              *)
Handlers == /\ path = "logs" => unread = 0
            /\ ~effects => path = page /\ conn # "off"
            /\ effects => path # page \/ page \in SocketPages

IInv == /\ TypeOK
        /\ Len(log) <= MaxEvents
        /\ Handlers

(* Events that are announced or fetched have an id: the log is bounded.    *)
LEMMA MatchingType ==
  ASSUME IInv, NEW f
  PROVE  Matching(f) \subseteq Ids
<1>1. Len(log) \in Nat /\ DOMAIN log = 1 .. Len(log)
  BY DEF IInv, TypeOK
<1> QED
  BY <1>1 DEF Matching, IInv, Ids

LEMMA InitIInv == Init => IInv
<1> SUFFICES ASSUME Init PROVE IInv
  OBVIOUS
<1>1. TypeOK
  <2>1. /\ filter \in Filter /\ hook \in Hook
        /\ path \in Pages \cup {"none"} /\ page \in Pages
    BY DEF Init, Filter, Hook
  <2>2. /\ log \in Seq(Instants) /\ announced \in 0 .. Len(log)
        /\ wire \in Seq(Ids) /\ requests \in Seq(Get)
    BY DEF Init
  <2>3. unread \in Nat /\ clicks \in Nat /\ faults \in Nat
    BY DEF Init
  <2> QED
    BY <2>1, <2>2, <2>3 DEF Init, TypeOK
<1>2. Len(log) <= MaxEvents
  BY DEF Init
<1>3. Handlers
  BY DEF Init, Handlers
<1> QED
  BY <1>1, <1>2, <1>3 DEF IInv

LEMMA SaveEventKeepsIInv ==
  ASSUME IInv, NEW t \in Instants, SaveEvent(t)
  PROVE  IInv'
<1>1. /\ log \in Seq(Instants) /\ Len(log) \in Nat
      /\ log' = Append(log, t) /\ Len(log) < MaxEvents
  BY DEF IInv, TypeOK, SaveEvent
<1>2. log' \in Seq(Instants) /\ Len(log') = Len(log) + 1
  BY <1>1
<1>3. announced' \in 0 .. Len(log')
  BY <1>1, <1>2 DEF IInv, TypeOK, SaveEvent
<1>4. TypeOK'
  BY <1>2, <1>3 DEF IInv, TypeOK, SaveEvent, socket, view, counter, history
<1>5. Len(log') <= MaxEvents
  BY <1>1, <1>2
<1>6. Handlers'
  BY DEF IInv, Handlers, SaveEvent, socket, view, counter
<1> QED
  BY <1>4, <1>5, <1>6 DEF IInv

LEMMA AnnounceKeepsIInv ==
  ASSUME IInv, Announce
  PROVE  IInv'
<1>1. /\ Len(log) \in Nat /\ Len(log) <= MaxEvents /\ announced \in 0 .. Len(log)
      /\ announced < Len(log) /\ announced' = announced + 1
  BY DEF IInv, TypeOK, Announce
<1>2. announced' \in 0 .. Len(log) /\ announced' \in Ids
  BY <1>1 DEF Ids
<1>3. wire' \in Seq(Ids) /\ missed' \subseteq Ids
  <2>1. wire \in Seq(Ids) /\ missed \subseteq Ids
    BY DEF IInv, TypeOK
  <2>2. Append(wire, announced') \in Seq(Ids)
    BY <1>2, <2>1
  <2> QED
    BY <1>2, <2>1, <2>2 DEF Announce
<1>4. TypeOK'
  BY <1>2, <1>3 DEF IInv, TypeOK, Announce, view, counter
<1>5. Handlers'
  BY DEF IInv, Handlers, Announce, view, counter
<1> QED
  BY <1>4, <1>5 DEF IInv, Announce

(* The connection goes on, or is lost and is made again.                   *)
LEMMA SocketKeepsIInv ==
  ASSUME IInv, Handshake \/ LoseConnection
  PROVE  IInv'
<1>1. CASE Handshake
  <2>1. TypeOK'
    BY <1>1 DEF IInv, TypeOK, Handshake, server, view, counter, history
  <2>2. Handlers'
    BY <1>1 DEF IInv, Handlers, Handshake, view, counter
  <2> QED
    BY <1>1, <2>1, <2>2 DEF IInv, Handshake, server
<1>2. CASE LoseConnection
  <2>1. wire' \in Seq(Ids) /\ missed' \subseteq Ids /\ conn' = "connecting"
    BY <1>2, ToSetType DEF IInv, TypeOK, LoseConnection, Reconnecting
  <2>2. faults' \in Nat
    BY <1>2 DEF IInv, TypeOK, LoseConnection, Fault
  <2>3. TypeOK'
    BY <1>2, <2>1, <2>2 DEF IInv, TypeOK, LoseConnection, server, view, counter
  <2>4. Handlers'
    BY <1>2, <2>1 DEF IInv, Handlers, LoseConnection, view, counter
  <2> QED
    BY <1>2, <2>3, <2>4 DEF IInv, LoseConnection, server
<1> QED
  BY <1>1, <1>2

(* The provider does not count while its handler belongs to the logs page. *)
LEMMA DeliverKeepsIInv ==
  ASSUME IInv, Deliver
  PROVE  IInv'
<1>1. Head(wire) \in Ids /\ Tail(wire) \in Seq(Ids)
  BY DEF IInv, TypeOK, Deliver
<1>2. /\ unread' \in Nat /\ seen' \subseteq Ids
      /\ path = "logs" => unread' = unread
  BY <1>1 DEF IInv, TypeOK, Deliver, Count, counter
<1>3. requests' \in Seq(Get)
  <2>1. CASE page = "logs" /\ hook.page = "logs"
    <3>1. hook \in Hook /\ hook.filter \in Filter
      BY DEF IInv, TypeOK, Hook, NoHook, Filter
    <3> QED
      BY <2>1, <3>1, NewGetType DEF IInv, TypeOK, Deliver, Refetch
  <2>2. CASE ~(page = "logs" /\ hook.page = "logs")
    BY <2>2 DEF IInv, TypeOK, Deliver, Refetch
  <2> QED
    BY <2>1, <2>2
<1>4. TypeOK'
  BY <1>1, <1>2, <1>3 DEF IInv, TypeOK, Deliver, server, view, history
<1>5. Handlers'
  BY <1>2 DEF IInv, Handlers, Deliver, view
<1> QED
  BY <1>4, <1>5 DEF IInv, Deliver, server

(* The new page differs from the one whose effects have run, so that the   *)
(* provider's effect will run, too.                                        *)
LEMMA GoToKeepsIInv ==
  ASSUME IInv, NEW p \in Pages, GoTo(p)
  PROVE  IInv'
<1>1. clicks' \in Nat
  BY DEF IInv, TypeOK, GoTo, Click
<1>2. filter' \in Filter /\ requests' \in Seq(Get) /\ logs' \subseteq Ids
  BY DEF GoTo, Filter
<1>3. TypeOK'
  BY <1>1, <1>2 DEF IInv, TypeOK, GoTo, server, socket, counter
<1>4. Handlers'
  BY DEF IInv, Handlers, GoTo, counter, socket
<1> QED
  BY <1>3, <1>4 DEF IInv, GoTo, server

LEMMA LogsPageKeepsIInv ==
  ASSUME IInv, (\E f \in Filter : SelectFilter(f)) \/ Refresh
  PROVE  IInv'
<1>1. ASSUME NEW f \in Filter, SelectFilter(f) PROVE IInv'
  <2>1. clicks' \in Nat
    BY <1>1 DEF IInv, TypeOK, SelectFilter, Click
  <2>2. TypeOK'
    BY <1>1, <2>1 DEF IInv, TypeOK, SelectFilter, server, socket, counter, history
  <2>3. Handlers'
    BY <1>1 DEF IInv, Handlers, SelectFilter, counter, socket
  <2> QED
    BY <1>1, <2>2, <2>3 DEF IInv, SelectFilter, server
<1>2. CASE Refresh
  <2>1. clicks' \in Nat
    BY <1>2 DEF IInv, TypeOK, Refresh, Click
  <2>2. requests' \in Seq(Get)
    BY <1>2, NewGetType DEF IInv, TypeOK, Refresh
  <2>3. TypeOK'
    BY <1>2, <2>1, <2>2 DEF IInv, TypeOK, Refresh, server, socket, view, counter, history
  <2>4. Handlers'
    BY <1>2 DEF IInv, Handlers, Refresh, counter, socket, view
  <2> QED
    BY <1>2, <2>3, <2>4 DEF IInv, Refresh, server
<1> QED
  BY <1>1, <1>2

(* Whatever the clean-up disconnects, one of the effects connects again:   *)
(* that of the provider, or that of a page that calls useSocket.           *)
LEMMA RunEffectsKeepsIInv ==
  ASSUME IInv, RunEffects
  PROVE  IInv'
<1>1. /\ page \in Pages /\ filter \in Filter /\ wire \in Seq(Ids)
      /\ conn \in {"off", "connecting", "up"} /\ missed \subseteq Ids
  BY DEF IInv, TypeOK
<1>2. hook' \in Hook
  BY <1>1, NewHookType DEF RunEffects
<1>3. /\ conn' \in {"connecting", "up"}
      /\ wire' \in Seq(Ids) /\ missed' \subseteq Ids
  <2>1. ToSet(wire) \subseteq Ids
    BY <1>1, ToSetType
  <2>2. NewHook # NoHook \/ ProviderConnects
    BY DEF IInv, Handlers, RunEffects, NewHook, NoHook, ProviderConnects
  <2>3. CASE conn = "up" /\ ~Disconnects
    BY <1>1, <2>3 DEF RunEffects, Connection, socket
  <2>4. CASE ~(conn = "up" /\ ~Disconnects)
    <3>1. conn' = "connecting" /\ wire' = <<>> /\ missed' = missed \cup ToSet(wire)
      BY <2>2, <2>4 DEF RunEffects, Connection
    <3>2. wire' \in Seq(Ids)
      BY <3>1
    <3> QED
      BY <1>1, <2>1, <3>1, <3>2
  <2> QED
    BY <2>3, <2>4
<1>4. requests' \in Seq(Get)
  BY <1>1, NewGetType DEF IInv, TypeOK, RunEffects
<1>5. unread' \in Nat /\ path' = page /\ page' = page /\ ~effects'
  BY DEF IInv, TypeOK, RunEffects, NewPath, view
<1>6. TypeOK'
  BY <1>1, <1>2, <1>3, <1>4, <1>5 DEF IInv, TypeOK, RunEffects, server, view
<1>7. page = "logs" => unread' = 0
  BY DEF IInv, Handlers, RunEffects
<1>8. Handlers'
  BY <1>3, <1>5, <1>7 DEF Handlers
<1> QED
  BY <1>6, <1>8 DEF IInv, RunEffects, server

LEMMA ResponsesKeepIInv ==
  ASSUME IInv, NEW k \in DOMAIN requests, Serve(k) \/ Respond(k) \/ RequestFails(k)
  PROVE  IInv'
<1>1. requests \in Seq(Get) /\ requests[k] \in Get
  BY DEF IInv, TypeOK
<1>2. CASE Serve(k)
  <2> DEFINE m == Matching(requests[k].filter)
  <2>1. m \subseteq Ids
    BY MatchingType
  <2> HIDE DEF m
  <2>2. [requests[k] EXCEPT !.answer = m] \in Get
    BY <1>1, <2>1 DEF Get
  <2>3. requests' = [requests EXCEPT ![k] = [requests[k] EXCEPT !.answer = m]]
    BY <1>2 DEF Serve, m
  <2>4. requests' \in Seq(Get)
    BY <1>1, <2>2, <2>3
  <2>5. TypeOK'
    BY <1>2, <2>4 DEF IInv, TypeOK, Serve, server, socket, view, counter, history
  <2>6. Handlers'
    BY <1>2 DEF IInv, Handlers, Serve, socket, view, counter
  <2> QED
    BY <1>2, <2>5, <2>6 DEF IInv, Serve, server
<1>3. CASE Respond(k)
  <2>1. requests' \in Seq(Get)
    BY <1>1, <1>3, RemoveAtType DEF Respond
  <2>2. logs' \subseteq Ids /\ overtaken' \in BOOLEAN
    BY <1>1, <1>3 DEF IInv, TypeOK, Respond, Get
  <2>3. TypeOK'
    BY <1>3, <2>1, <2>2 DEF IInv, TypeOK, Respond, server, socket, view, counter
  <2>4. Handlers'
    BY <1>3 DEF IInv, Handlers, Respond, socket, view, counter
  <2> QED
    BY <1>3, <2>3, <2>4 DEF IInv, Respond, server
<1>4. CASE RequestFails(k)
  <2>1. requests' \in Seq(Get) /\ faults' \in Nat
    BY <1>1, <1>4, RemoveAtType DEF IInv, TypeOK, RequestFails, Fault
  <2>2. TypeOK'
    BY <1>4, <2>1 DEF IInv, TypeOK, RequestFails, server, socket, view, counter
  <2>3. Handlers'
    BY <1>4 DEF IInv, Handlers, RequestFails, socket, view, counter
  <2> QED
    BY <1>4, <2>2, <2>3 DEF IInv, RequestFails, server
<1> QED
  BY <1>2, <1>3, <1>4

LEMMA NextKeepsIInv == IInv /\ [Next]_vars => IInv'
<1> SUFFICES ASSUME IInv, [Next]_vars PROVE IInv'
  OBVIOUS
<1>1. CASE UNCHANGED vars
  BY <1>1 DEF IInv, TypeOK, Handlers, vars, server, socket, view, counter, history
<1>2. CASE Next
  BY <1>2, SaveEventKeepsIInv, AnnounceKeepsIInv, SocketKeepsIInv, DeliverKeepsIInv,
     GoToKeepsIInv, LogsPageKeepsIInv, RunEffectsKeepsIInv, ResponsesKeepIInv DEF Next
<1> QED
  BY <1>1, <1>2

LEMMA SpecKeepsIInv == Spec => []IInv
BY InitIInv, NextKeepsIInv, PTL DEF Spec

(* The variables keep their types, whatever pages and dates are selected   *)
(* and however requests, announcements and effects interleave.             *)
THEOREM TypeCorrect == Spec => []TypeOK
<1>1. IInv => TypeOK
  BY DEF IInv
<1> QED
  BY <1>1, SpecKeepsIInv, PTL

(* No unread event is shown while the logs page is open: the effect that   *)
(* clears the count and the handler that stops counting come in one go,    *)
(* and a handler of an earlier page never runs after it.                   *)
THEOREM BadgeIsClear == Spec => []UnreadClearedOnLogs
<1>1. IInv => UnreadClearedOnLogs
  BY DEF IInv, Handlers, UnreadClearedOnLogs
<1> QED
  BY <1>1, SpecKeepsIInv, PTL

(* Whenever the effects have run the socket is connected or connecting,    *)
(* although useSocket disconnects it without asking whether the provider   *)
(* still listens: that clean-up is never the last effect to touch it.      *)
THEOREM ProviderStaysConnected == Spec => []ListenerIsConnected
<1>1. IInv => ListenerIsConnected
  BY DEF IInv, Handlers, ListenerIsConnected
<1> QED
  BY <1>1, SpecKeepsIInv, PTL

-----------------------------------------------------------------------------
(* The list.  Without a failed or overtaken response, the last request for *)
(* the list is for the filter selected, and what it answers, or what was   *)
(* answered last, lacks no event whose announcement has been handled.      *)
Due == {k \in 1 .. announced : k \notin ToSet(wire) \cup missed}
UpToDate(A) == A \subseteq Matching(filter) /\ Matching(filter) \cap Due \subseteq A
LastGet == requests[Len(requests)]

Listed == page = "logs" /\ ~effects =>
            /\ hook = [page |-> "logs", filter |-> filter]
            /\ ~overtaken /\ ~failed =>
                 IF requests = <<>> THEN UpToDate(logs)
                 ELSE /\ LastGet.filter = filter
                      /\ LastGet.answer # NoAnswer => UpToDate(LastGet.answer)

ListInv == IInv /\ Listed

LEMMA AppendLast ==
  ASSUME NEW S, NEW s \in Seq(S), NEW x \in S
  PROVE  Append(s, x) # <<>> /\ Append(s, x)[Len(Append(s, x))] = x
OBVIOUS

(* An answer stays up to date until an announcement is handled.            *)
LEMMA AnswersAge ==
  ASSUME IInv, IInv', filter' = filter, Due' \subseteq Due,
         log' = log \/ (\E t \in Instants : log' = Append(log, t))
  PROVE  \A A : UpToDate(A) => A \subseteq Matching(filter)' /\ Matching(filter)' \cap Due' \subseteq A
<1>1. /\ Due \subseteq DOMAIN log /\ DOMAIN log \subseteq DOMAIN log'
      /\ \A k \in DOMAIN log : log'[k] = log[k]
  <2>1. log \in Seq(Instants) /\ announced \in 0 .. Len(log)
    BY DEF IInv, TypeOK
  <2> QED
    BY <2>1 DEF Due
<1>2. Matching(filter) \subseteq Matching(filter)'
      /\ Matching(filter)' \cap DOMAIN log \subseteq Matching(filter)
  BY <1>1 DEF Matching
<1> QED
  BY <1>1, <1>2 DEF UpToDate

(* The list and its requests are left alone, and so are the announcements  *)
(* that have been handled.                                                 *)
LEMMA ListedKept ==
  ASSUME IInv, IInv', Listed, Due' \subseteq Due,
         log' = log \/ (\E t \in Instants : log' = Append(log, t)),
         UNCHANGED <<view, effects, hook, requests, logs, overtaken, failed>>
  PROVE  Listed'
<1>1. UNCHANGED <<page, filter>>
  BY DEF view
<1>2. \A A : UpToDate(A) => A \subseteq Matching(filter)' /\ Matching(filter)' \cap Due' \subseteq A
  BY <1>1, AnswersAge
<1>3. UpToDate(logs) => UpToDate(logs)'
  BY <1>2 DEF UpToDate
<1>4. UpToDate(LastGet.answer) => UpToDate(LastGet.answer)'
  BY <1>2 DEF UpToDate, LastGet
<1> QED
  BY <1>1, <1>3, <1>4 DEF Listed, LastGet

LEMMA DueKept ==
  ASSUME IInv, \/ \E t \in Instants : SaveEvent(t)
               \/ Announce \/ Handshake \/ LoseConnection
  PROVE  Due' \subseteq Due
<1>1. wire \in Seq(Ids) /\ announced \in Nat
  BY DEF IInv, TypeOK
<1>2. CASE \E t \in Instants : SaveEvent(t)
  BY <1>2 DEF SaveEvent, socket, history, Due
<1>3. CASE Announce
  <2>1. announced' = announced + 1
    BY <1>3 DEF Announce
  <2>2. CASE conn = "up"
    <3>1. wire' = Append(wire, announced') /\ missed' = missed
      BY <1>3, <2>2 DEF Announce
    <3>2. /\ Len(wire) \in Nat /\ DOMAIN wire = 1 .. Len(wire)
          /\ DOMAIN wire' = 1 .. (Len(wire) + 1)
          /\ \A k \in DOMAIN wire : wire'[k] = wire[k]
          /\ wire'[Len(wire) + 1] = announced'
      BY <1>1, <3>1
    <3>3. ToSet(wire) \subseteq ToSet(wire') /\ announced' \in ToSet(wire')
      BY <3>2 DEF ToSet
    <3> QED
      BY <1>1, <2>1, <3>1, <3>3 DEF Due
  <2>3. CASE conn # "up"
    <3>1. wire' = wire /\ missed' = missed \cup {announced'}
      BY <1>3, <2>3 DEF Announce
    <3> QED
      BY <1>1, <2>1, <3>1 DEF Due
  <2> QED
    BY <2>2, <2>3
<1>4. CASE Handshake
  BY <1>4 DEF Handshake, server, history, Due
<1>5. CASE LoseConnection
  BY <1>5 DEF LoseConnection, Reconnecting, server, Due
<1> QED
  BY <1>2, <1>3, <1>4, <1>5

LEMMA BackendKeepsListed ==
  ASSUME IInv, IInv', Listed,
         \/ \E t \in Instants : SaveEvent(t)
         \/ Announce \/ Handshake \/ LoseConnection
  PROVE  Listed'
<1>1. log' = log \/ (\E t \in Instants : log' = Append(log, t))
  BY DEF SaveEvent, Announce, Handshake, LoseConnection, server
<1>2. UNCHANGED <<view, effects, hook, requests, logs, overtaken, failed>>
  BY DEF SaveEvent, Announce, Handshake, LoseConnection, history
<1> QED
  BY <1>1, <1>2, DueKept, ListedKept

(* Whatever changes in the log, the newest request is still unanswered.    *)
LEMMA NewestIsUnanswered ==
  ASSUME IInv, Listed, hook' = [page |-> "logs", filter |-> filter'], filter' \in Filter,
         requests' = Append(requests, NewGet(filter'))
  PROVE  Listed'
<1>1. requests \in Seq(Get) /\ NewGet(filter') \in Get
  BY NewGetType DEF IInv, TypeOK
<1>2. requests' # <<>> /\ LastGet' = NewGet(filter')
  BY <1>1, AppendLast DEF LastGet
<1> QED
  BY <1>2 DEF Listed, NewGet

LEMMA RequestingKeepsListed ==
  ASSUME IInv, IInv', Listed, Deliver \/ Refresh \/ RunEffects
  PROVE  Listed'
<1>1. CASE ~(page' = "logs" /\ ~effects')
  BY <1>1 DEF Listed
<1>2. CASE page' = "logs" /\ ~effects'
  <2>1. page = "logs" /\ filter' = filter /\ filter \in Filter
    BY <1>2 DEF Deliver, Refresh, RunEffects, view, IInv, TypeOK
  <2>2. hook' = [page |-> "logs", filter |-> filter]
    BY <1>2, <2>1 DEF Deliver, Refresh, RunEffects, NewHook, Listed
  <2>3. requests' = Append(requests, NewGet(filter))
    BY <1>2, <2>1, <2>2 DEF Deliver, Refresh, RunEffects, Refetch
  <2> QED
    BY <2>1, <2>2, <2>3, NewestIsUnanswered
<1> QED
  BY <1>1, <1>2

(* The answer is read from the event table, and every event announced is   *)
(* there already.                                                          *)
LEMMA ServeKeepsListed ==
  ASSUME IInv, IInv', Listed, NEW k \in DOMAIN requests, Serve(k)
  PROVE  Listed'
<1>1. /\ requests \in Seq(Get) /\ Len(requests) \in Nat /\ DOMAIN requests = 1 .. Len(requests)
      /\ requests # <<>> /\ requests[k] \in Get
  BY DEF IInv, TypeOK
<1>2. /\ UNCHANGED <<page, filter, effects, hook, log, announced, wire, missed, overtaken,
                     failed>>
      /\ requests' = [requests EXCEPT ![k].answer = Matching(requests[k].filter)]
  BY DEF Serve, server, socket, view, history
<1>3. Due' = Due /\ Matching(filter)' = Matching(filter)
  BY <1>2 DEF Due, Matching
<1>4. Len(requests') = Len(requests) /\ requests' # <<>>
  BY <1>1, <1>2
<1>5. CASE k = Len(requests)
  <2> DEFINE A == Matching(requests[k].filter)
  <2>1. requests'[k] = [requests[k] EXCEPT !.answer = A]
    BY <1>1, <1>2
  <2> HIDE DEF A
  <2>2. LastGet'.filter = LastGet.filter /\ LastGet'.answer = A
    BY <1>1, <1>4, <1>5, <2>1 DEF LastGet, Get
  <2>3. LastGet.filter = filter => UpToDate(LastGet.answer)'
    BY <1>2, <1>3, <1>5, <2>2 DEF UpToDate, LastGet, A
  <2> QED
    BY <1>1, <1>2, <1>4, <2>2, <2>3 DEF Listed
<1>6. CASE k # Len(requests)
  <2>1. LastGet' = LastGet
    BY <1>1, <1>2, <1>4, <1>6 DEF LastGet
  <2>2. UpToDate(LastGet.answer) => UpToDate(LastGet.answer)'
    BY <1>2, <1>3, <2>1 DEF UpToDate
  <2> QED
    BY <1>1, <1>2, <1>4, <2>1, <2>2 DEF Listed
<1> QED
  BY <1>5, <1>6

(* Responses in their order: the list is that of the last request.         *)
LEMMA RespondKeepsListed ==
  ASSUME IInv, IInv', Listed, NEW k \in DOMAIN requests, Respond(k)
  PROVE  Listed'
<1>1. /\ requests \in Seq(Get) /\ Len(requests) \in Nat /\ DOMAIN requests = 1 .. Len(requests)
      /\ requests # <<>> /\ k \in 1 .. Len(requests)
  BY DEF IInv, TypeOK
<1>2. /\ UNCHANGED <<page, filter, effects, hook, log, announced, wire, missed, failed>>
      /\ requests' = RemoveAt(requests, k) /\ logs' = requests[k].answer
      /\ requests[k].answer # NoAnswer
      /\ overtaken' = (overtaken \/ k > 1)
  BY DEF Respond, server, socket, view
<1>3. Due' = Due /\ Matching(filter)' = Matching(filter)
  BY <1>2 DEF Due, Matching
<1>4. CASE overtaken'
  BY <1>2, <1>4 DEF Listed
<1>5. CASE ~overtaken'
  <2>1. ~overtaken /\ k = 1
    <3>1. ~overtaken /\ ~(k > 1)
      BY <1>2, <1>5, Zenon
    <3> QED
      BY <1>1, <3>1
  <2>2. requests' = SubSeq(requests, 1, 0) \o SubSeq(requests, 2, Len(requests))
    BY <1>2, <2>1 DEF RemoveAt
  <2>3. Len(requests') = Len(requests) - 1
        /\ \A l \in 1 .. (Len(requests) - 1) : requests'[l] = requests[l + 1]
    BY <1>1, <2>2
  <2>4. CASE Len(requests) = 1
    <3>1. requests' = <<>> /\ logs' = LastGet.answer
      BY <1>1, <1>2, <2>1, <2>2, <2>4 DEF LastGet
    <3>2. UpToDate(LastGet.answer) => UpToDate(logs)'
      BY <1>2, <1>3, <3>1 DEF UpToDate
    <3> QED
      BY <1>1, <1>2, <2>1, <2>4, <3>1, <3>2 DEF Listed, LastGet
  <2>5. CASE Len(requests) # 1
    <3>1. requests' # <<>> /\ LastGet' = LastGet
      BY <1>1, <2>3, <2>5 DEF LastGet
    <3>2. UpToDate(LastGet.answer) => UpToDate(LastGet.answer)'
      BY <1>2, <1>3, <3>1 DEF UpToDate
    <3> QED
      BY <1>1, <1>2, <2>1, <3>1, <3>2 DEF Listed
  <2> QED
    BY <2>4, <2>5
<1> QED
  BY <1>4, <1>5

LEMMA NextKeepsListInv == ListInv /\ [Next]_vars => ListInv'
<1> SUFFICES ASSUME ListInv, [Next]_vars PROVE ListInv'
  OBVIOUS
<1>1. IInv /\ IInv' /\ Listed
  BY NextKeepsIInv DEF ListInv
<1>2. CASE UNCHANGED vars
  <2>1. Due' = Due
    BY <1>2 DEF vars, server, socket, history, Due
  <2> QED
    BY <1>1, <1>2, <2>1, ListedKept DEF ListInv, vars, server, history
<1>3. ASSUME (\E p \in Pages : GoTo(p)) \/ (\E f \in Filter : SelectFilter(f)) PROVE Listed'
  BY <1>3 DEF GoTo, SelectFilter, Listed
<1>4. ASSUME NEW k \in DOMAIN requests, RequestFails(k) PROVE Listed'
  BY <1>1, <1>4 DEF RequestFails, Listed, view
<1> QED
  BY <1>1, <1>2, <1>3, <1>4, BackendKeepsListed, RequestingKeepsListed, ServeKeepsListed,
     RespondKeepsListed DEF ListInv, Next

LEMMA InitListInv == Init => ListInv
BY InitIInv DEF Init, ListInv, Listed

(* Dates: the day of an instant is the only one that contains it.          *)
LEMMA DivBounds ==
  ASSUME NEW d \in Nat \ {0}, NEW t \in Int
  PROVE  t \div d \in Int /\ d * (t \div d) <= t /\ t < d * (t \div d) + d
OBVIOUS

LEMMA DaysApart ==
  ASSUME NEW d \in Nat \ {0}, NEW q \in Int, NEW f \in Int, q < f
  PROVE  d * q + d <= d * f
OBVIOUS

LEMMA DayIsUnique ==
  ASSUME NEW d \in Nat \ {0}, NEW t \in Int, NEW f \in Int, d * f <= t, t < d * f + d
  PROVE  t \div d = f
BY DivBounds, DaysApart

LEMMA DayBefore ==
  ASSUME NEW d \in Nat \ {0}, NEW f \in Int
  PROVE  d * (f - 1) + d = d * f /\ d * (f + 1) = d * f + d /\ d * f \in Int
OBVIOUS

(* The browser compares the day of the event with the day on which the     *)
(* selected date begins in UTC: west of UTC that is the day before.        *)
LEMMA ZonesShiftDays ==
  ASSUME zone \in Zones, NEW f \in Days, NEW t \in Int
  PROVE  /\ zone >= 0 => LocalDay(DayLength * f) = f
         /\ zone < 0 => LocalDay(DayLength * f) = f - 1
         /\ zone = 0 => (LocalDay(t) = f <=> DayLength * f <= t /\ t < DayLength * (f + 1))
<1> DEFINE s == DayLength * f
<1>1. /\ f \in Int /\ DayLength \in Nat \ {0} /\ zone \in Int
      /\ 1 - DayLength <= zone /\ zone <= DayLength - 1
  OBVIOUS
<1>2. /\ s \in Int /\ DayLength * (f + 1) = s + DayLength
      /\ DayLength * (f - 1) + DayLength = s
      /\ DayLength * (f - 1) \in Int
  BY <1>1, DayBefore
<1>3. ASSUME zone >= 0 PROVE LocalDay(s) = f
  <2>1. s <= s + zone /\ s + zone < s + DayLength /\ s + zone \in Int
    BY <1>1, <1>2, <1>3
  <2> QED
    BY <1>1, <2>1, DayIsUnique DEF LocalDay
<1>4. ASSUME zone < 0 PROVE LocalDay(s) = f - 1
  <2> DEFINE p == DayLength * (f - 1)
  <2>1. p \in Int /\ p + DayLength = s
    BY <1>2
  <2> HIDE DEF p, s
  <2>2. p <= s + zone /\ s + zone < p + DayLength /\ s + zone \in Int
    BY <1>1, <1>2, <1>4, <2>1
  <2> USE DEF p
  <2>3. (s + zone) \div DayLength = f - 1
    BY <1>1, <2>2, DayIsUnique
  <2> QED
    BY <2>3 DEF LocalDay
<1>5. ASSUME zone = 0
      PROVE  LocalDay(t) = f <=> s <= t /\ t < s + DayLength
  <2>1. LocalDay(t) = t \div DayLength
    BY <1>5 DEF LocalDay
  <2>2. LocalDay(t) = f => s <= t /\ t < s + DayLength
    BY <1>1, <2>1, DivBounds
  <2>3. s <= t /\ t < s + DayLength => LocalDay(t) = f
    BY <1>1, <2>1, DayIsUnique
  <2> QED
    BY <2>2, <2>3
<1> QED
  BY <1>2, <1>3, <1>4, <1>5

(* StaleListHasCause: with nothing under way the logs page shows what the  *)
(* log holds for the selected day, but for events announced while the      *)
(* socket was down, unless a response failed or was overtaken or the       *)
(* browser is not on UTC; whatever the offset, less than a day, and        *)
(* however events, effects, clicks and responses interleave.               *)
THEOREM StaleListNeedsCause == Spec => []StaleListHasCause
<1>1. ListInv => StaleListHasCause
  <2> SUFFICES ASSUME ListInv, Settled, ~overtaken, ~failed
               PROVE  /\ zone = 0 \/ filter = All => Wanted \ missed \subseteq Shown
                      /\ zone >= 0 \/ filter = All => Shown \subseteq Wanted
                      /\ zone < 0 /\ filter # All =>
                           \A k \in Shown : LocalDay(log[k]) = filter - 1
    BY DEF StaleListHasCause
  <2>1. /\ log \in Seq(Instants) /\ announced = Len(log) /\ zone \in Zones
        /\ filter \in Filter /\ wire = <<>>
    BY DEF ListInv, IInv, TypeOK, Settled
  <2>2. UpToDate(logs)
    BY DEF ListInv, Listed, Settled
  <2>3. Due = DOMAIN log \ missed
    <3>1. ToSet(wire) = {} /\ DOMAIN log = 1 .. announced
      BY <2>1 DEF ToSet
    <3> QED
      BY <3>1 DEF Due
  <2>4. logs \subseteq Matching(filter) /\ Matching(filter) \ missed \subseteq logs
    BY <2>2, <2>3 DEF UpToDate, Matching
  <2>5. CASE filter = All
    BY <2>4, <2>5 DEF Matching, Shown, Wanted
  <2>6. CASE filter # All
    <3>1. filter \in Days
      BY <2>1, <2>6 DEF Filter
    <3>2. ASSUME NEW k \in DOMAIN log PROVE log[k] \in Int
      <4>1. log[k] \in Instants
        BY <2>1
      <4> QED
        BY <4>1
    <3>3. zone = 0 => Matching(filter) = Wanted
      BY <2>1, <2>6, <3>1, <3>2, ZonesShiftDays DEF Matching, Wanted
    <3>4. zone = 0 => Wanted \ missed \subseteq Shown
      <4> SUFFICES ASSUME zone = 0, NEW k \in Wanted, k \notin missed PROVE k \in Shown
        OBVIOUS
      <4>1. k \in logs
        BY <2>4, <3>3
      <4>2. LocalDay(log[k]) = filter
        BY <2>6 DEF Wanted
      <4>3. LocalDay(DayLength * filter) = filter
        BY <2>1, <3>1, ZonesShiftDays
      <4> QED
        BY <4>1, <4>2, <4>3 DEF Shown
    <3>5. zone >= 0 => Shown \subseteq Wanted
      <4> SUFFICES ASSUME zone >= 0, NEW k \in Shown PROVE k \in Wanted
        OBVIOUS
      <4>1. k \in logs /\ LocalDay(log[k]) = LocalDay(DayLength * filter)
        BY <2>6 DEF Shown
      <4>2. k \in DOMAIN log
        BY <2>4, <4>1 DEF Matching
      <4>3. LocalDay(DayLength * filter) = filter
        BY <2>1, <3>1, ZonesShiftDays
      <4> QED
        BY <4>1, <4>2, <4>3 DEF Wanted
    <3>6. zone < 0 => \A k \in Shown : LocalDay(log[k]) = filter - 1
      <4>1. zone < 0 => LocalDay(DayLength * filter) = filter - 1
        BY <2>1, <3>1, ZonesShiftDays
      <4> QED
        BY <2>6, <4>1 DEF Shown
    <3> QED
      BY <2>6, <3>4, <3>5, <3>6
  <2> QED
    BY <2>5, <2>6
<1> QED
  BY <1>1, InitListInv, NextKeepsListInv, PTL DEF Spec
=============================================================================
