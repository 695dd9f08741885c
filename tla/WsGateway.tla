----------------------------- MODULE WsGateway ------------------------------
(***************************************************************************)
(* WsGateway: events of one backend instance reach the browsers of all     *)
(* instances through the Redis channel 'ws-events', and a counter in Redis *)
(* numbers the notifications.  Each instance has three connections:        *)
(* redisClient (INCR and GET), redisPub and redisSub; each is FIFO, and    *)
(* nothing orders one connection against another.  A connection may break; *)
(* ioredis then connects again (retryStrategy, without end), subscribes    *)
(* again, and sends again, in their order, the commands without a reply.   *)
(* What Redis pushes while redisSub is away is lost, and a command whose   *)
(* reply was lost is executed twice.                                       *)
(*                                                                         *)
(* The branch of emit for an unset redisPub is left out: WsModule is       *)
(* initialised before every module that emits.                             *)
(***************************************************************************)
EXTENDS Naturals, Sequences, FiniteSets

CONSTANTS Instances,
          NoCount,       \* this server has not emitted a count
          MaxEvents,     \* bound: calls of emit
          MaxConnects,   \* bound: browser connections
          MaxFaults      \* bound: restarts and lost Redis connections

ASSUME WsGatewayAssumption ==
  /\ NoCount \notin Nat
  /\ MaxEvents \in Nat /\ MaxConnects \in Nat /\ MaxFaults \in Nat

VARIABLES
  phase,     \* phase[i]: "off", "subscribed" (no handler yet), "on", or
             \* "deaf" (as "on", but redisSub is not connected)
  counter,   \* Redis key ws:notifications:count
  cmds,      \* cmds[i]: commands sent on redisClient, not yet executed
  replies,   \* replies[i]: their replies, not yet handled
  pub,       \* pub[i]: messages sent on redisPub, not yet published
  acks,      \* acks[i]: published messages whose PUBLISH has no reply yet
  sub,       \* sub[i]: messages pushed to redisSub
  local,     \* local[i]: notificationCount
  told,      \* told[i]: the last notifications:count emitted to browsers
  shown,     \* shown[i]: the events emitted to browsers
  issued, connects, faults,     \* numbers of emits, connections, faults
  notifiers, \* history: the instances that called notify
  gap        \* history: the instances whose subscription was interrupted
             \* after they last emitted a count

redisClient == <<counter, cmds, replies>>
channel == <<pub, acks, sub>>
browser == <<told, shown, gap>>
counts == <<issued, connects, faults, notifiers>>
vars == <<phase, redisClient, channel, local, browser, counts>>

(* An event is identified by the order of the calls of emit.  (History:    *)
(* again, when its PUBLISH was sent a second time.)                        *)
Msg == [id : Nat, from : Instances, count : Nat \cup {NoCount}, again : BOOLEAN]
Cmd == [id : Nat, n : Nat]     \* id 0: GET; otherwise the INCR of event id

TypeOK == /\ phase \in [Instances -> {"off", "subscribed", "on", "deaf"}]
          /\ counter \in Nat
          /\ cmds \in [Instances -> Seq(Cmd)]
          /\ replies \in [Instances -> Seq(Cmd)]
          /\ pub \in [Instances -> Seq(Msg)]
          /\ acks \in [Instances -> Seq(Msg)]
          /\ sub \in [Instances -> Seq(Msg)]
          /\ local \in [Instances -> Nat]
          /\ told \in [Instances -> Nat \cup {NoCount}]
          /\ shown \in [Instances -> Seq(Msg)]
          /\ issued \in Nat /\ connects \in Nat /\ faults \in Nat
          /\ notifiers \subseteq Instances /\ gap \subseteq Instances

Init == /\ phase = [i \in Instances |-> "off"]
        /\ counter = 0
        /\ cmds = [i \in Instances |-> <<>>]
        /\ replies = [i \in Instances |-> <<>>]
        /\ pub = [i \in Instances |-> <<>>]
        /\ acks = [i \in Instances |-> <<>>]
        /\ sub = [i \in Instances |-> <<>>]
        /\ local = [i \in Instances |-> 0]
        /\ told = [i \in Instances |-> NoCount]
        /\ shown = [i \in Instances |-> <<>>]
        /\ issued = 0 /\ connects = 0 /\ faults = 0
        /\ notifiers = {} /\ gap = {}

Push(q, i, x) == [q EXCEPT ![i] = Append(@, x)]
Pop(q, i) == [q EXCEPT ![i] = Tail(@)]
Running(i) == phase[i] \in {"on", "deaf"}
Message(e, i, c) == [id |-> e, from |-> i, count |-> c, again |-> FALSE]

(* onModuleInit: Redis has the subscription ...                            *)
Subscribe(i) == /\ phase[i] = "off"
                /\ phase' = [phase EXCEPT ![i] = "subscribed"]
                /\ UNCHANGED <<redisClient, channel, local, browser, counts>>

(* ... and later the reply arrives and the message handler is attached.    *)
Listen(i) == /\ phase[i] = "subscribed"
             /\ phase' = [phase EXCEPT ![i] = "on"]
             /\ UNCHANGED <<redisClient, channel, local, browser, counts>>

(* handleConnection asks for the count.                                    *)
Connect(i) == /\ Running(i)
              /\ connects < MaxConnects
              /\ connects' = connects + 1
              /\ cmds' = Push(cmds, i, [id |-> 0, n |-> 0])
              /\ UNCHANGED <<phase, counter, replies, channel, local, browser,
                             issued, faults, notifiers>>

Issue(i) == Running(i) /\ issued < MaxEvents /\ issued' = issued + 1

(* Mutated form: the event is also shown to the own browsers at once.      *)
EmitEventTwice(i) ==
  /\ Issue(i)
  /\ LET m == Message(issued', i, NoCount)
     IN  pub' = Push(pub, i, m) /\ shown' = Push(shown, i, m)
  /\ UNCHANGED <<phase, redisClient, acks, sub, local, told, gap, connects,
                 faults, notifiers>>

(* emit of any event but notifications:new publishes at once.              *)
EmitEvent(i) ==
  /\ Issue(i)
  /\ pub' = Push(pub, i, Message(issued', i, NoCount))
  /\ UNCHANGED <<phase, redisClient, acks, sub, local, browser, connects,
                 faults, notifiers>>

(* notify: emit of notifications:new sends INCR and awaits its reply.      *)
Notify(i) == /\ Issue(i)
             /\ cmds' = Push(cmds, i, [id |-> issued', n |-> 0])
             /\ notifiers' = notifiers \cup {i}
             /\ UNCHANGED <<phase, counter, replies, channel, local, browser,
                            connects, faults>>

(* Redis executes the next command of the connection.                      *)
Execute(i) ==
  /\ cmds[i] # <<>>
  /\ LET c == Head(cmds[i])
     IN  /\ counter' = IF c.id = 0 THEN counter ELSE counter + 1
         /\ replies' = Push(replies, i, [c EXCEPT !.n = counter'])
  /\ cmds' = Pop(cmds, i)
  /\ UNCHANGED <<phase, channel, local, browser, counts>>

(* A count emitted while redisSub is connected ends the gap of i.          *)
Heard(i) == IF phase[i] = "on" THEN gap \ {i} ELSE gap

(* Mutated form: notifications are numbered from the instance's memory.    *)
HandleReplyFromMemory(i) ==
  /\ replies[i] # <<>>
  /\ LET c == Head(replies[i])
     IN  /\ local' = [local EXCEPT ![i] = IF c.id = 0 THEN c.n ELSE @ + 1]
         /\ \/ /\ c.id = 0
               /\ told' = [told EXCEPT ![i] = c.n]
               /\ gap' = Heard(i)
               /\ UNCHANGED pub
            \/ /\ c.id # 0
               /\ pub' = Push(pub, i, Message(c.id, i, local'[i]))
               /\ UNCHANGED <<told, gap>>
  /\ replies' = Pop(replies, i)
  /\ UNCHANGED <<phase, counter, cmds, acks, sub, shown, counts>>

(* The reply of GET goes to the browsers, that of INCR into the message.   *)
HandleReply(i) ==
  /\ replies[i] # <<>>
  /\ LET c == Head(replies[i])
     IN  /\ local' = [local EXCEPT ![i] = c.n]
         /\ \/ /\ c.id = 0
               /\ told' = [told EXCEPT ![i] = c.n]
               /\ gap' = Heard(i)
               /\ UNCHANGED pub
            \/ /\ c.id # 0
               /\ pub' = Push(pub, i, Message(c.id, i, c.n))
               /\ UNCHANGED <<told, gap>>
  /\ replies' = Pop(replies, i)
  /\ UNCHANGED <<phase, counter, cmds, acks, sub, shown, counts>>

(* Redis takes the next message and pushes it to the subscribers there are.*)
Publish(i) ==
  /\ pub[i] # <<>>
  /\ sub' = [k \in Instances |-> IF phase[k] \in {"subscribed", "on"}
                                 THEN Append(sub[k], Head(pub[i])) ELSE sub[k]]
  /\ pub' = Pop(pub, i)
  /\ acks' = Push(acks, i, Head(pub[i]))
  /\ UNCHANGED <<phase, redisClient, local, browser, counts>>

(* The reply to the oldest PUBLISH arrives; emit does not wait for it.     *)
Acknowledge(i) == /\ acks[i] # <<>>
                  /\ acks' = Pop(acks, i)
                  /\ UNCHANGED <<phase, redisClient, pub, sub, local, browser,
                                 counts>>

(* Mutated form: the count is not checked to be a number.                  *)
ReceiveUnchecked(i) ==
  /\ sub[i] # <<>> /\ phase[i] = "on"
  /\ LET m == Head(sub[i])
     IN  /\ shown' = Push(shown, i, m)
         /\ local' = [local EXCEPT ![i] = m.count]
         /\ told' = [told EXCEPT ![i] = m.count]
         /\ gap' = Heard(i)
  /\ sub' = Pop(sub, i)
  /\ UNCHANGED <<phase, redisClient, pub, acks, counts>>

(* Mutated form: the notification is shown, its count is not.              *)
ReceiveWithoutCount(i) ==
  /\ sub[i] # <<>> /\ phase[i] = "on"
  /\ shown' = Push(shown, i, Head(sub[i]))
  /\ sub' = Pop(sub, i)
  /\ UNCHANGED <<phase, redisClient, pub, acks, local, told, gap, counts>>

(* Mutated form: only numbered notifications are shown.                    *)
ReceiveNotificationsOnly(i) ==
  /\ sub[i] # <<>> /\ phase[i] = "on"
  /\ LET m == Head(sub[i])
     IN  IF m.count = NoCount
         THEN UNCHANGED <<shown, local, told, gap>>
         ELSE /\ shown' = Push(shown, i, m)
              /\ local' = [local EXCEPT ![i] = m.count]
              /\ told' = [told EXCEPT ![i] = m.count]
              /\ gap' = Heard(i)
  /\ sub' = Pop(sub, i)
  /\ UNCHANGED <<phase, redisClient, pub, acks, counts>>

(* The message handler: a numbered notification also sets the count.       *)
Receive(i) ==
  /\ sub[i] # <<>> /\ phase[i] = "on"
  /\ LET m == Head(sub[i])
     IN  /\ shown' = Push(shown, i, m)
         /\ IF m.count = NoCount
            THEN UNCHANGED <<local, told, gap>>
            ELSE /\ local' = [local EXCEPT ![i] = m.count]
                 /\ told' = [told EXCEPT ![i] = m.count]
                 /\ gap' = Heard(i)
  /\ sub' = Pop(sub, i)
  /\ UNCHANGED <<phase, redisClient, pub, acks, counts>>

(* A message that arrives before the handler is attached is dropped.       *)
Miss(i) == /\ sub[i] # <<>> /\ phase[i] = "subscribed"
           /\ sub' = Pop(sub, i)
           /\ UNCHANGED <<phase, redisClient, pub, acks, local, browser,
                          counts>>

Fault == faults < MaxFaults /\ faults' = faults + 1

(* redisSub breaks: an unfinished subscribe is sent again, ...             *)
BreakSub(i) ==
  /\ Fault
  /\ \/ /\ phase[i] = "subscribed"
        /\ phase' = [phase EXCEPT ![i] = "off"]
        /\ UNCHANGED gap
     \/ /\ phase[i] = "on"
        /\ phase' = [phase EXCEPT ![i] = "deaf"]
        /\ gap' = gap \cup {i}
  /\ sub' = [sub EXCEPT ![i] = <<>>]
  /\ UNCHANGED <<redisClient, pub, acks, local, told, shown, issued, connects,
                 notifiers>>

(* ... and a finished one is made again, the handler being still attached. *)
Resubscribe(i) == /\ phase[i] = "deaf"
                  /\ phase' = [phase EXCEPT ![i] = "on"]
                  /\ UNCHANGED <<redisClient, channel, local, browser, counts>>

Again(s) == [k \in DOMAIN s |-> [s[k] EXCEPT !.again = TRUE]]

(* redisPub breaks: the messages without a reply are published again.      *)
BreakPub(i) ==
  /\ Fault
  /\ acks[i] # <<>>
  /\ pub' = [pub EXCEPT ![i] = Again(acks[i]) \o @]
  /\ acks' = [acks EXCEPT ![i] = <<>>]
  /\ UNCHANGED <<phase, redisClient, sub, local, browser, issued, connects,
                 notifiers>>

(* redisClient breaks: the commands without a reply are executed again, an *)
(* INCR too: it takes the next number, and the first one is never used.    *)
BreakClient(i) ==
  /\ Fault
  /\ replies[i] # <<>>
  /\ cmds' = [cmds EXCEPT ![i] = replies[i] \o @]
  /\ replies' = [replies EXCEPT ![i] = <<>>]
  /\ UNCHANGED <<phase, counter, channel, local, browser, issued, connects,
                 notifiers>>

(* The process is restarted; its browsers will connect again.              *)
Crash(i) == /\ phase[i] # "off" /\ Fault
            /\ phase' = [phase EXCEPT ![i] = "off"]
            /\ cmds' = [cmds EXCEPT ![i] = <<>>]
            /\ replies' = [replies EXCEPT ![i] = <<>>]
            /\ pub' = [pub EXCEPT ![i] = <<>>]
            /\ acks' = [acks EXCEPT ![i] = <<>>]
            /\ sub' = [sub EXCEPT ![i] = <<>>]
            /\ local' = [local EXCEPT ![i] = 0]
            /\ told' = [told EXCEPT ![i] = NoCount]
            /\ shown' = [shown EXCEPT ![i] = <<>>]
            /\ gap' = gap \ {i}
            /\ UNCHANGED <<counter, issued, connects, notifiers>>

Next == \E i \in Instances :
          \/ Subscribe(i) \/ Listen(i) \/ Connect(i) \/ EmitEvent(i)
          \/ Notify(i) \/ Execute(i) \/ HandleReply(i) \/ Publish(i)
          \/ Receive(i) \/ Miss(i)
          \/ Acknowledge(i) \/ BreakSub(i) \/ Resubscribe(i) \/ BreakPub(i)
          \/ BreakClient(i) \/ Crash(i)

(* Redis and the event loops keep working, and retryStrategy never gives   *)
(* up a connection; calls and faults are not fair.                         *)
Fairness == \A i \in Instances :
  WF_vars(Execute(i) \/ HandleReply(i) \/ Publish(i) \/ Receive(i))

Spec == Init /\ [][Next]_vars /\ Fairness

-----------------------------------------------------------------------------
(* Properties.                                                             *)

Elements(s) == {s[k] : k \in DOMAIN s}
Notifications == {m \in UNION {Elements(pub[i]) \cup Elements(sub[i])
                                 \cup Elements(shown[i]) : i \in Instances} :
                    m.count # NoCount}

(* No two notifications carry the same number, and no instance tells its   *)
(* browsers a number Redis has not given out: the count never comes from   *)
(* the instance's own notificationCount.                                   *)
CountsAreRedis ==
  /\ \A m, n \in Notifications : m.count = n.count => m.id = n.id
  /\ \A i \in Instances : /\ local[i] <= counter
                          /\ told[i] # NoCount => told[i] <= counter

(* Browsers see the events of one instance in the order of the emits, and  *)
(* its notifications too, and each at most once, but for those that are    *)
(* published again after redisPub broke.  (A notification may be overtaken *)
(* by a later event, since it waits for its number.)                       *)
OrderPerPublisher ==
  \A i \in Instances : \A k, l \in DOMAIN shown[i] :
    /\ k < l
    /\ shown[i][k].from = shown[i][l].from
    /\ (shown[i][k].count = NoCount) = (shown[i][l].count = NoCount)
    => shown[i][k].id < shown[i][l].id \/ shown[i][l].again

Quiet(i) == /\ phase[i] = "on" /\ cmds[i] = <<>> /\ replies[i] = <<>>
            /\ pub[i] = <<>> /\ sub[i] = <<>>

(* When only instance i ever notified, the count its browsers saw last is  *)
(* the true one as soon as nothing is under way: a late GET reply cannot   *)
(* overwrite a newer number for good, nor can a command or a message sent  *)
(* twice.  Only an interrupted subscription leaves it stale, until the     *)
(* next count.                                                             *)
SoleNotifierCountSettles ==
  \A i \in Instances :
    notifiers \subseteq {i} /\ Quiet(i) /\ told[i] # NoCount /\ i \notin gap
    => told[i] = counter

(* An event that instance k has for publication is shown on every          *)
(* listening instance i, unless k restarts or i is restarted or loses its  *)
(* subscription first: nothing stays in a connection for ever.  (Instances *)
(* are interchangeable, so one of them stands for every i.)                *)
Watched == CHOOSE i \in Instances : TRUE

EventsAreShown ==
  \A k \in Instances : \A id \in 1 .. MaxEvents :
    (phase[Watched] = "on" /\ \E m \in Elements(pub[k]) : m.id = id)
      ~> \/ phase[Watched] # "on" \/ phase[k] = "off"
         \/ \E m \in Elements(shown[Watched]) : m.id = id
=============================================================================
