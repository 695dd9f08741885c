------------------------------ MODULE LiveLogs ------------------------------
(***************************************************************************)
(* The email log in one browser tab: the logs page fetches GET /events and *)
(* fetches again on every 'email_event'; LogNotificationProvider counts    *)
(* the events that arrive while another page is open.  Both listen on one  *)
(* socket, which useSocket disconnects when its last user goes although    *)
(* the provider still listens.                                             *)
(*                                                                         *)
(* React commits a page or a filter first and runs the effects later, all  *)
(* of them in one go and before the next commit.  Handlers hold the        *)
(* pathname and the filter of the render that created them.                *)
(*                                                                         *)
(* An event is its place in the log; of its columns only the timestamp     *)
(* matters, and of the three filters the date: the API and the page select *)
(* a provider or a client in the same way, but not a day.  Instants and    *)
(* days count from midnight UTC of day 0; no clock is put back or forward. *)
(* Fewer than 100 events: GET /events is not truncated.                    *)
(***************************************************************************)
EXTENDS Integers, Sequences, FiniteSets, SequencesExt

CONSTANTS Instants,    \* timestamps that events may have
          DayLength,
          Days,        \* dates that the user may select
          All,         \* no date selected
          Zones,       \* how far the browser may be ahead of UTC: less than a day
          Pages,       \* all pages; the logs page is "logs"
          SocketPages, \* those that call useSocket
          MaxEvents,   \* bound: events logged
          MaxClicks,   \* bound: what the user does
          MaxFaults    \* bound: lost connections and failed requests

ASSUME LiveLogsAssumption ==
  /\ Instants \subseteq Int /\ DayLength \in Nat \ {0}
  /\ Days \subseteq Int /\ All \notin Int
  /\ Zones \subseteq (1 - DayLength) .. (DayLength - 1)
  /\ "logs" \in SocketPages /\ SocketPages \subseteq Pages /\ "none" \notin Pages
  /\ MaxEvents \in Nat /\ MaxClicks \in Nat /\ MaxFaults \in Nat

VARIABLES
  zone,       \* the browser's offset from UTC
  log,        \* the event table: log[k] is the timestamp of event k
  announced,  \* events 1 .. announced were broadcast to the sockets
  conn,       \* the socket: "off", "connecting" or "up"
  wire,       \* events on their way on the socket
  page,       \* the page shown
  filter,     \* selectedDate
  effects,    \* effects of the last commit are still to run
  hook,       \* useSocket's listener: page and filter it was created for
  path,       \* the pathname in the provider's handler
  requests,   \* GET /events under way, oldest first
  logs,       \* the page's state: the events of the last response
  unread,     \* unreadCount
  seen,       \* seenEventIdsRef
  clicks, faults,
  missed, overtaken, failed   \* history: events lost on the socket; a
                              \* response was overtaken, or failed, on this page
server == <<zone, log, announced>>
socket == <<conn, wire>>
view == <<page, filter>>
counter == <<unread, seen>>
history == <<missed, overtaken, failed>>
vars == <<server, socket, view, effects, hook, path, requests, logs, counter,
          clicks, faults, history>>

Filter == Days \cup {All}
Ids == 1 .. MaxEvents
NoAnswer == {0}
NoHook == [page |-> "none", filter |-> All]
Hook == [page : SocketPages, filter : Filter] \cup {NoHook}
Get == [filter : Filter, answer : (SUBSET Ids) \cup {NoAnswer}]

TypeOK == /\ zone \in Zones
          /\ log \in Seq(Instants)
          /\ announced \in 0 .. Len(log)
          /\ conn \in {"off", "connecting", "up"}
          /\ wire \in Seq(Ids)
          /\ page \in Pages /\ filter \in Filter
          /\ effects \in BOOLEAN
          /\ hook \in Hook
          /\ path \in Pages \cup {"none"}
          /\ requests \in Seq(Get)
          /\ logs \subseteq Ids
          /\ unread \in Nat /\ seen \subseteq Ids
          /\ clicks \in Nat /\ faults \in Nat
          /\ missed \subseteq Ids
          /\ overtaken \in BOOLEAN /\ failed \in BOOLEAN

(* A page load; the unread count is read back from localStorage.           *)
Init == /\ zone \in Zones
        /\ log = <<>> /\ announced = 0
        /\ conn = "off" /\ wire = <<>>
        /\ page \in Pages /\ filter = All
        /\ effects = TRUE
        /\ hook = NoHook /\ path = "none"
        /\ requests = <<>> /\ logs = {}
        /\ unread \in 0 .. 1 /\ seen = {}
        /\ clicks = 0 /\ faults = 0
        /\ missed = {} /\ overtaken = FALSE /\ failed = FALSE

(* EventsService.list: the selected day as new Date(date) reads it, UTC.   *)
Matching(f) ==
  {k \in DOMAIN log : f # All => DayLength * f <= log[k] /\ log[k] < DayLength * (f + 1)}

(* toDateString: the date at that instant where the browser is.            *)
LocalDay(t) == (t + zone) \div DayLength

(* filteredLogs: the response is filtered again by what is selected now,   *)
(* comparing local dates, that of midnight UTC of the selected day too.    *)
Shown == {k \in logs :
            filter # All => LocalDay(log[k]) = LocalDay(DayLength * filter)}

Click == clicks < MaxClicks /\ clicks' = clicks + 1
Fault == faults < MaxFaults /\ faults' = faults + 1

-----------------------------------------------------------------------------
(* The backend: POST /events or a queue has createNormalized save an event *)
(* and then announce it.                                                   *)
SaveEvent(t) == /\ Len(log) < MaxEvents
                /\ log' = Append(log, t)
                /\ UNCHANGED <<zone, announced, socket, view, effects, hook, path,
                               requests, logs, counter, clicks, faults, history>>

Announce == /\ announced < Len(log)
            /\ announced' = announced + 1
            /\ IF conn = "up"
               THEN wire' = Append(wire, announced') /\ missed' = missed
               ELSE missed' = missed \cup {announced'} /\ wire' = wire
            /\ UNCHANGED <<zone, log, conn, view, effects, hook, path, requests,
                           logs, counter, clicks, faults, overtaken, failed>>

-----------------------------------------------------------------------------
(* The socket.                                                             *)
Handshake == /\ conn = "connecting"
             /\ conn' = "up"
             /\ UNCHANGED <<server, wire, view, effects, hook, path, requests,
                            logs, counter, clicks, faults, history>>

(* What was on its way is lost, and reconnection starts.                   *)
Reconnecting == /\ conn' = "connecting"
                /\ wire' = <<>>
                /\ missed' = missed \cup ToSet(wire)

LoseConnection == /\ conn = "up"
                  /\ Fault
                  /\ Reconnecting
                  /\ UNCHANGED <<server, view, effects, hook, path, requests,
                                 logs, counter, clicks, overtaken, failed>>

NewGet(f) == [filter |-> f, answer |-> NoAnswer]

(* Mutated form: the page does not listen to email_event.                  *)
RefetchNever == UNCHANGED requests

(* The logs page's listener calls the fetchLogs of its own render.  After  *)
(* the page has gone its response changes nothing.                         *)
Refetch == requests' = IF page = "logs" /\ hook.page = "logs"
                       THEN Append(requests, NewGet(hook.filter)) ELSE requests

(* Handler of LogNotificationProvider.                                     *)
Count(k) == IF k \notin seen /\ path # "logs"
            THEN seen' = seen \cup {k} /\ unread' = unread + 1
            ELSE UNCHANGED counter

Deliver == /\ wire # <<>>
           /\ Count(Head(wire))
           /\ Refetch
           /\ wire' = Tail(wire)
           /\ UNCHANGED <<server, conn, view, effects, hook, path, logs, clicks,
                          faults, history>>

-----------------------------------------------------------------------------
(* The user.                                                               *)

(* Another page is mounted; the logs page loses its state.                 *)
GoTo(p) == /\ ~effects /\ p # page
           /\ Click
           /\ page' = p /\ filter' = All
           /\ requests' = <<>> /\ logs' = {}
           /\ overtaken' = FALSE /\ failed' = FALSE
           /\ effects' = TRUE
           /\ UNCHANGED <<server, socket, hook, path, counter, faults, missed>>

SelectFilter(f) == /\ ~effects /\ page = "logs" /\ f # filter
                   /\ Click
                   /\ filter' = f
                   /\ effects' = TRUE
                   /\ UNCHANGED <<server, socket, page, hook, path, requests,
                                  logs, counter, faults, history>>

(* The Refresh button.                                                     *)
Refresh == /\ ~effects /\ page = "logs"
           /\ Click
           /\ requests' = Append(requests, NewGet(filter))
           /\ UNCHANGED <<server, socket, view, effects, hook, path, logs,
                          counter, faults, history>>

-----------------------------------------------------------------------------
(* The effects of a commit, all clean-ups before them.                     *)

(* useSocket's listener is recreated with the page or with fetchLogs; its  *)
(* clean-up leaves no socket user, so it disconnects.                      *)
NewHook == IF page \in SocketPages THEN [page |-> page, filter |-> filter] ELSE NoHook
Disconnects == hook # NoHook

(* Mutated form: the provider connects when it is mounted only.            *)
ProviderConnectsOnce == path = "none"

(* The provider's effect has the pathname as its dependency.               *)
ProviderConnects == path # page

(* Mutated form: the provider's handler keeps the first pathname.          *)
KeepFirstPath == path' = IF path = "none" THEN page ELSE path

NewPath == path' = page

(* socket.disconnect() by the clean-up, then socket.connect() by whichever *)
(* effect finds the socket not connected.                                  *)
Connection ==
  LET asked == NewHook # NoHook \/ ProviderConnects
  IN  IF conn = "up" /\ ~Disconnects THEN UNCHANGED <<socket, missed>>
      ELSE /\ conn' = IF asked THEN "connecting" ELSE IF Disconnects THEN "off" ELSE conn
           /\ wire' = <<>> /\ missed' = missed \cup ToSet(wire)

RunEffects ==
  /\ effects
  /\ effects' = FALSE
  /\ hook' = NewHook
  /\ Connection
  /\ NewPath
  /\ requests' = IF page = "logs" THEN Append(requests, NewGet(filter)) ELSE requests
  /\ unread' = IF page = "logs" /\ path # page THEN 0 ELSE unread
  /\ UNCHANGED <<server, view, logs, seen, clicks, faults, overtaken, failed>>

-----------------------------------------------------------------------------
(* GET /events: requests overlap and their responses come in any order.    *)
Serve(k) == /\ requests[k].answer = NoAnswer
            /\ requests' = [requests EXCEPT ![k].answer = Matching(requests[k].filter)]
            /\ UNCHANGED <<server, socket, view, effects, hook, path, logs,
                           counter, clicks, faults, history>>

Respond(k) == /\ requests[k].answer # NoAnswer
              /\ logs' = requests[k].answer
              /\ requests' = RemoveAt(requests, k)
              /\ overtaken' = (overtaken \/ k > 1)
              /\ UNCHANGED <<server, socket, view, effects, hook, path, counter,
                             clicks, faults, missed, failed>>

(* The page keeps what it has and shows a toast.                           *)
RequestFails(k) == /\ Fault
                   /\ requests' = RemoveAt(requests, k)
                   /\ failed' = TRUE
                   /\ UNCHANGED <<server, socket, view, effects, hook, path,
                                  logs, counter, clicks, missed, overtaken>>

Next == \/ \E t \in Instants : SaveEvent(t)
        \/ Announce \/ Handshake \/ LoseConnection \/ Deliver
        \/ \E p \in Pages : GoTo(p)
        \/ \E f \in Filter : SelectFilter(f)
        \/ Refresh \/ RunEffects
        \/ \E k \in DOMAIN requests : Serve(k) \/ Respond(k) \/ RequestFails(k)

Spec == Init /\ [][Next]_vars

-----------------------------------------------------------------------------
(* Properties.                                                             *)

Settled == /\ page = "logs" /\ ~effects
           /\ requests = <<>> /\ wire = <<>> /\ announced = Len(log)

(* The events of the day that the user selected, where the user is.        *)
Wanted == {k \in DOMAIN log : filter # All => LocalDay(log[k]) = filter}

(* Once nothing is under way the logs page shows what the log holds for    *)
(* the selected day.  It lacks events whose announcement was lost while    *)
(* the socket was down; otherwise a response was overtaken by a later one, *)
(* or failed, or the browser is not on UTC: the API and the page then mean *)
(* different days.  East of UTC the list only lacks events, west of it it  *)
(* has none of the selected day and the last ones of the day before.       *)
StaleListHasCause ==
  Settled /\ ~overtaken /\ ~failed
    => /\ zone = 0 \/ filter = All => Wanted \ missed \subseteq Shown
       /\ zone >= 0 \/ filter = All => Shown \subseteq Wanted
       /\ zone < 0 /\ filter # All => \A k \in Shown : LocalDay(log[k]) = filter - 1

(* The badge is clear while the logs page is open, whichever handlers of   *)
(* earlier renders the events met.                                         *)
UnreadClearedOnLogs == page = "logs" /\ ~effects => unread = 0

(* useSocket disconnects without counting the provider among the users of  *)
(* the socket; still the provider is never left without a connection.      *)
ListenerIsConnected == ~effects => conn # "off"
=============================================================================
