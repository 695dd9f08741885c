-------------------------- MODULE WsGatewayProofs ---------------------------
(***************************************************************************)
(* For any number of instances, events, connections, restarts and broken   *)
(* Redis connections: type correctness of WsGateway and the three          *)
(* invariants TLC checks of it, CountsAreRedis, OrderPerPublisher and      *)
(* SoleNotifierCountSettles.                                               *)
(***************************************************************************)
EXTENDS WsGateway, TLAPS

USE WsGatewayAssumption DEF WsGatewayAssumption

-----------------------------------------------------------------------------
(* The connections are queues.                                             *)
LEMMA PushType ==
  ASSUME NEW S, NEW q \in [Instances -> Seq(S)], NEW i \in Instances, NEW x \in S
  PROVE  /\ Push(q, i, x) \in [Instances -> Seq(S)]
         /\ Push(q, i, x)[i] = Append(q[i], x)
         /\ \A k \in Instances : k # i => Push(q, i, x)[k] = q[k]
         /\ \A k \in Instances : Elements(Push(q, i, x)[k]) \subseteq Elements(q[k]) \cup {x}
<1>1. q[i] \in Seq(S) /\ Append(q[i], x) \in Seq(S)
  OBVIOUS
<1>2. Elements(Append(q[i], x)) \subseteq Elements(q[i]) \cup {x}
  BY DEF Elements
<1> QED
  BY <1>1, <1>2 DEF Push

LEMMA PopType ==
  ASSUME NEW S, NEW q \in [Instances -> Seq(S)], NEW i \in Instances, q[i] # <<>>
  PROVE  /\ Pop(q, i) \in [Instances -> Seq(S)]
         /\ Pop(q, i)[i] = Tail(q[i])
         /\ \A k \in Instances : k # i => Pop(q, i)[k] = q[k]
         /\ \A k \in Instances : Elements(Pop(q, i)[k]) \subseteq Elements(q[k])
         /\ Head(q[i]) \in S /\ Head(q[i]) \in Elements(q[i])
<1>1. q[i] \in Seq(S) /\ Tail(q[i]) \in Seq(S) /\ Head(q[i]) = q[i][1] /\ 1 \in DOMAIN q[i]
  OBVIOUS
<1>2. Elements(Tail(q[i])) \subseteq Elements(q[i])
  BY DEF Elements
<1>3. Head(q[i]) \in S /\ Head(q[i]) \in Elements(q[i])
  BY <1>1 DEF Elements
<1> QED
  BY <1>1, <1>2, <1>3 DEF Pop

LEMMA ElementsType ==
  ASSUME NEW S, NEW s \in Seq(S)
  PROVE  Elements(s) \subseteq S
BY DEF Elements

LEMMA JoinType ==
  ASSUME NEW S, NEW s \in Seq(S), NEW t \in Seq(S)
  PROVE  /\ s \o t \in Seq(S)
         /\ Elements(s \o t) = Elements(s) \cup Elements(t)
<1>1. s \o t \in Seq(S) /\ Len(s \o t) = Len(s) + Len(t)
  OBVIOUS
<1>2. \A k \in 1 .. Len(s) : (s \o t)[k] = s[k]
  OBVIOUS
<1>3. \A k \in 1 .. Len(t) : (s \o t)[Len(s) + k] = t[k]
  OBVIOUS
<1>4. \A k \in 1 .. Len(s \o t) : k \in 1 .. Len(s) \/ k - Len(s) \in 1 .. Len(t)
  BY <1>1
<1>5. Elements(s \o t) \subseteq Elements(s) \cup Elements(t)
  <2> SUFFICES ASSUME NEW k \in 1 .. Len(s \o t)
               PROVE  (s \o t)[k] \in Elements(s) \cup Elements(t)
    BY <1>1 DEF Elements
  <2>1. CASE k \in 1 .. Len(s)
    BY <1>2, <2>1 DEF Elements
  <2>2. CASE k - Len(s) \in 1 .. Len(t)
    <3>1. (s \o t)[Len(s) + (k - Len(s))] = t[k - Len(s)]
      BY <1>3, <2>2
    <3>2. Len(s) + (k - Len(s)) = k
      OBVIOUS
    <3> QED
      BY <2>2, <3>1, <3>2 DEF Elements
  <2> QED
    BY <1>4, <2>1, <2>2
<1>6. Elements(s) \subseteq Elements(s \o t)
  BY <1>1, <1>2 DEF Elements
<1>7. Elements(t) \subseteq Elements(s \o t)
  <2> SUFFICES ASSUME NEW x \in Elements(t) PROVE x \in Elements(s \o t)
    OBVIOUS
  <2>0. PICK k \in 1 .. Len(t) : x = t[k]
    BY DEF Elements
  <2>1. Len(s) + k \in 1 .. Len(s \o t)
    BY <1>1
  <2> QED
    BY <1>1, <1>3, <2>0, <2>1 DEF Elements
<1> QED
  BY <1>1, <1>5, <1>6, <1>7

(* Messages that are sent again differ in nothing but that.                *)
LEMMA AgainType ==
  ASSUME NEW s \in Seq(Msg)
  PROVE  /\ Again(s) \in Seq(Msg) /\ Len(Again(s)) = Len(s)
         /\ \A k \in 1 .. Len(s) : /\ Again(s)[k].id = s[k].id
                                  /\ Again(s)[k].from = s[k].from
                                  /\ Again(s)[k].count = s[k].count
                                  /\ Again(s)[k].again
<1>1. DOMAIN s = 1 .. Len(s) /\ Len(s) \in Nat
  OBVIOUS
<1>2. \A k \in 1 .. Len(s) : s[k] \in Msg
  OBVIOUS
<1>3. \A m \in Msg : /\ [m EXCEPT !.again = TRUE] \in Msg
                     /\ [m EXCEPT !.again = TRUE].id = m.id
                     /\ [m EXCEPT !.again = TRUE].from = m.from
                     /\ [m EXCEPT !.again = TRUE].count = m.count
                     /\ [m EXCEPT !.again = TRUE].again
  BY DEF Msg
<1>4. Again(s) = [k \in 1 .. Len(s) |-> [s[k] EXCEPT !.again = TRUE]]
  BY <1>1 DEF Again
<1> DEFINE t == [k \in 1 .. Len(s) |-> [s[k] EXCEPT !.again = TRUE]]
<1>5. t \in Seq(Msg) /\ Len(t) = Len(s)
  BY <1>1, <1>2, <1>3
<1>6. \A k \in 1 .. Len(s) : t[k] = [s[k] EXCEPT !.again = TRUE]
  OBVIOUS
<1> HIDE DEF t
<1>7. Again(s) = t
  BY <1>4 DEF t
<1>8. ASSUME NEW k \in 1 .. Len(s)
      PROVE  /\ Again(s)[k].id = s[k].id
             /\ Again(s)[k].from = s[k].from
             /\ Again(s)[k].count = s[k].count
             /\ Again(s)[k].again
  <2>1. s[k] \in Msg /\ Again(s)[k] = [s[k] EXCEPT !.again = TRUE]
    BY <1>2, <1>6, <1>7
  <2> QED
    BY <1>3, <2>1
<1> QED
  BY <1>5, <1>7, <1>8

LEMMA NextKeepsType == TypeOK /\ [Next]_vars => TypeOK'
<1> SUFFICES ASSUME TypeOK, [Next]_vars PROVE TypeOK'
  OBVIOUS
<1> USE DEF TypeOK, redisClient, channel, browser, counts
<1>1. CASE UNCHANGED vars
  BY <1>1 DEF vars
<1>2. ASSUME NEW i \in Instances,
             Subscribe(i) \/ Listen(i) \/ Connect(i) \/ Notify(i) \/ EmitEvent(i)
      PROVE  TypeOK'
  <2>1. CASE Subscribe(i) \/ Listen(i)
    BY <2>1 DEF Subscribe, Listen
  <2>2. CASE Connect(i)
    <3> DEFINE x == [id |-> 0, n |-> 0]
    <3>1. x \in Cmd /\ cmds' = Push(cmds, i, x)
      BY <2>2 DEF Cmd, Connect
    <3> HIDE DEF x
    <3>2. cmds' \in [Instances -> Seq(Cmd)]
      BY <3>1, PushType
    <3> QED
      BY <2>2, <3>2 DEF Connect
  <2>3. CASE Notify(i)
    <3>1. issued' \in Nat /\ [id |-> issued', n |-> 0] \in Cmd
      BY <2>3 DEF Cmd, Notify, Issue
    <3> QED
      BY <2>3, <3>1, PushType DEF Notify
  <2>4. CASE EmitEvent(i)
    <3>1. issued' \in Nat /\ Message(issued', i, NoCount) \in Msg
      BY <2>4 DEF Msg, EmitEvent, Issue, Message
    <3> QED
      BY <2>4, <3>1, PushType DEF EmitEvent
  <2> QED
    BY <1>2, <2>1, <2>2, <2>3, <2>4
<1>3. ASSUME NEW i \in Instances, Execute(i)
      PROVE  TypeOK'
  <2>1. Head(cmds[i]) \in Cmd /\ cmds' \in [Instances -> Seq(Cmd)]
    BY <1>3, PopType DEF Execute
  <2>2. counter' \in Nat
    BY <1>3 DEF Execute
  <2> DEFINE c == [Head(cmds[i]) EXCEPT !.n = counter']
  <2>3. c \in Cmd /\ replies' = Push(replies, i, c)
    BY <1>3, <2>1, <2>2 DEF Execute, Cmd
  <2> HIDE DEF c
  <2>4. replies' \in [Instances -> Seq(Cmd)]
    BY <2>3, PushType
  <2> QED
    BY <1>3, <2>1, <2>2, <2>4 DEF Execute
<1>4. ASSUME NEW i \in Instances, HandleReply(i)
      PROVE  TypeOK'
  <2> DEFINE c == Head(replies[i])
             m == Message(c.id, i, c.n)
  <2>1. c \in Cmd /\ replies' \in [Instances -> Seq(Cmd)]
    BY <1>4, PopType DEF HandleReply
  <2>2. c.n \in Nat /\ m \in Msg
    BY <2>1 DEF Cmd, Msg, Message
  <2>3. pub' = pub \/ pub' = Push(pub, i, m)
    BY <1>4 DEF HandleReply
  <2> HIDE DEF m
  <2>4. pub' \in [Instances -> Seq(Msg)]
    <3>1. pub \in [Instances -> Seq(Msg)] /\ m \in Msg
      BY <2>2
    <3>2. Push(pub, i, m) \in [Instances -> Seq(Msg)]
      BY <3>1, PushType
    <3> QED
      BY <2>3, <3>1, <3>2
  <2>5. /\ local' \in [Instances -> Nat] /\ told' \in [Instances -> Nat \cup {NoCount}]
        /\ gap' \subseteq Instances
    BY <1>4, <2>2 DEF HandleReply, Heard
  <2>6. UNCHANGED <<phase, counter, cmds, acks, sub, shown, counts>>
    BY <1>4 DEF HandleReply
  <2> QED
    BY <2>1, <2>4, <2>5, <2>6
<1>5. ASSUME NEW i \in Instances, Publish(i)
      PROVE  TypeOK'
  <2>1. Head(pub[i]) \in Msg /\ pub' \in [Instances -> Seq(Msg)]
    BY <1>5, PopType DEF Publish
  <2>2. \A k \in Instances : Append(sub[k], Head(pub[i])) \in Seq(Msg)
    BY <2>1
  <2>3. sub' \in [Instances -> Seq(Msg)]
    BY <1>5, <2>2 DEF Publish
  <2>4. acks' \in [Instances -> Seq(Msg)]
    BY <1>5, <2>1, PushType DEF Publish
  <2> QED
    BY <1>5, <2>1, <2>3, <2>4 DEF Publish
<1>6. ASSUME NEW i \in Instances, Receive(i)
      PROVE  TypeOK'
  <2> DEFINE m == Head(sub[i])
  <2>1. m \in Msg /\ sub' \in [Instances -> Seq(Msg)]
    BY <1>6, PopType DEF Receive
  <2>2. shown' \in [Instances -> Seq(Msg)]
    BY <1>6, <2>1, PushType DEF Receive
  <2>3. m.count \in Nat \cup {NoCount}
    BY <2>1 DEF Msg
  <2>4. /\ local' \in [Instances -> Nat] /\ told' \in [Instances -> Nat \cup {NoCount}]
        /\ gap' \subseteq Instances
    BY <1>6, <2>3 DEF Receive, Heard
  <2> QED
    BY <1>6, <2>1, <2>2, <2>4 DEF Receive
<1>7. ASSUME NEW i \in Instances, Miss(i)
      PROVE  TypeOK'
  BY <1>7, PopType DEF Miss
<1>8. ASSUME NEW i \in Instances, Crash(i)
      PROVE  TypeOK'
  <2>1. <<>> \in Seq(Cmd) /\ <<>> \in Seq(Msg)
    OBVIOUS
  <2> QED
    BY <1>8, <2>1 DEF Crash, Fault
<1>9. ASSUME NEW i \in Instances, Acknowledge(i)
      PROVE  TypeOK'
  BY <1>9, PopType DEF Acknowledge
<1>10. ASSUME NEW i \in Instances, BreakSub(i)
       PROVE  TypeOK'
  <2>1. <<>> \in Seq(Msg) /\ sub' \in [Instances -> Seq(Msg)] /\ faults' \in Nat
    BY <1>10 DEF BreakSub, Fault
  <2> QED
    BY <1>10, <2>1 DEF BreakSub
<1>11. ASSUME NEW i \in Instances, Resubscribe(i)
       PROVE  TypeOK'
  BY <1>11 DEF Resubscribe
<1>12. ASSUME NEW i \in Instances, BreakPub(i)
       PROVE  TypeOK'
  <2>1. Again(acks[i]) \in Seq(Msg)
    BY AgainType
  <2>2. Again(acks[i]) \o pub[i] \in Seq(Msg)
    BY <2>1, JoinType
  <2>3. pub' \in [Instances -> Seq(Msg)] /\ acks' \in [Instances -> Seq(Msg)]
    BY <1>12, <2>2 DEF BreakPub
  <2> QED
    BY <1>12, <2>3 DEF BreakPub, Fault
<1>13. ASSUME NEW i \in Instances, BreakClient(i)
       PROVE  TypeOK'
  <2>1. replies[i] \o cmds[i] \in Seq(Cmd)
    BY JoinType
  <2>2. cmds' \in [Instances -> Seq(Cmd)] /\ replies' \in [Instances -> Seq(Cmd)]
    BY <1>13, <2>1 DEF BreakClient
  <2> QED
    BY <1>13, <2>2 DEF BreakClient, Fault
<1> QED
  BY <1>1, <1>2, <1>3, <1>4, <1>5, <1>6, <1>7, <1>8, <1>9, <1>10, <1>11, <1>12,
     <1>13 DEF Next

LEMMA InitType == Init => TypeOK
BY DEF Init, TypeOK

(* Every reachable state is a state of the declared types.                 *)
THEOREM TypeCorrect == Spec => []TypeOK
BY InitType, NextKeepsType, PTL DEF Spec

-----------------------------------------------------------------------------
(* The numbers: whatever carries one that Redis gave out.                  *)
Messages == UNION {Elements(pub[i]) \cup Elements(acks[i]) \cup Elements(sub[i])
                     \cup Elements(shown[i]) : i \in Instances}
Replies == UNION {Elements(replies[i]) : i \in Instances}

NumberInv ==
  /\ \A m \in Messages : m.count # NoCount => m.count <= counter
  /\ \A c \in Replies : c.n <= counter
  /\ \A m, n \in Messages : m.count # NoCount /\ m.count = n.count => m.id = n.id
  /\ \A m \in Messages, c \in Replies : c.id # 0 /\ m.count = c.n => m.id = c.id
  /\ \A c, d \in Replies : c.id # 0 /\ d.id # 0 /\ c.n = d.n => c.id = d.id
  /\ \A i \in Instances : /\ local[i] <= counter
                          /\ told[i] # NoCount => told[i] <= counter

CountInv == TypeOK /\ NumberInv

LEMMA MessagesType == TypeOK => Messages \subseteq Msg /\ Replies \subseteq Cmd
<1> SUFFICES ASSUME TypeOK PROVE Messages \subseteq Msg /\ Replies \subseteq Cmd
  OBVIOUS
<1>1. \A i \in Instances : /\ Elements(pub[i]) \subseteq Msg
                           /\ Elements(acks[i]) \subseteq Msg
                           /\ Elements(sub[i]) \subseteq Msg
                           /\ Elements(shown[i]) \subseteq Msg
                           /\ Elements(replies[i]) \subseteq Cmd
  BY ElementsType DEF TypeOK
<1> QED
  BY <1>1 DEF Messages, Replies

(* A message may take over the number of a reply; no other step but        *)
(* Execute brings a number into being.                                     *)
LEMMA NumbersKept ==
  ASSUME CountInv, TypeOK', counter' = counter,
         \A m \in Messages' : \/ m.count = NoCount
                              \/ \E n \in Messages : m.id = n.id /\ m.count = n.count
                              \/ \E c \in Replies : /\ c.id # 0 /\ m.id = c.id
                                                    /\ m.count = c.n,
         Replies' \subseteq Replies,
         \A i \in Instances : /\ local'[i] <= counter
                              /\ told'[i] # NoCount => told'[i] <= counter
  PROVE  CountInv'
<1>1. /\ Messages \subseteq Msg /\ Replies \subseteq Cmd
      /\ NumberInv
  BY MessagesType DEF CountInv
<1>2. \A c \in Replies : c.n \in Nat /\ c.n # NoCount
  BY <1>1 DEF Cmd
<1>3. \A m \in Messages' : m.count # NoCount => m.count <= counter
  BY <1>1, <1>2 DEF NumberInv
<1>4. ASSUME NEW m \in Messages', NEW n \in Messages', m.count # NoCount, m.count = n.count
      PROVE  m.id = n.id
  BY <1>1, <1>2, <1>4 DEF NumberInv
<1>5. ASSUME NEW m \in Messages', NEW c \in Replies, c.id # 0, m.count = c.n
      PROVE  m.id = c.id
  BY <1>1, <1>2, <1>5 DEF NumberInv
<1>6. NumberInv'
  BY <1>1, <1>3, <1>4, <1>5 DEF NumberInv
<1> QED
  BY <1>6 DEF CountInv

(* ... nor does one that only moves or loses messages and replies.         *)
LEMMA NumbersMoved ==
  ASSUME CountInv, TypeOK', UNCHANGED <<counter, local, told>>,
         \A m \in Messages' : \/ m.count = NoCount
                              \/ \E n \in Messages : m.id = n.id /\ m.count = n.count,
         Replies' \subseteq Replies
  PROVE  CountInv'
<1>1. \A i \in Instances : /\ local'[i] <= counter
                           /\ told'[i] # NoCount => told'[i] <= counter
  BY DEF CountInv, NumberInv
<1> QED
  BY <1>1, NumbersKept

(* The reply to an INCR has a number above all that are about.             *)
LEMMA ExecuteKeepsCountInv ==
  ASSUME CountInv, TypeOK', NEW i \in Instances, Execute(i)
  PROVE  CountInv'
<1> DEFINE c == [Head(cmds[i]) EXCEPT !.n = counter']
<1>1. /\ Head(cmds[i]) \in Cmd /\ counter \in Nat /\ counter' \in Nat
      /\ counter' = IF Head(cmds[i]).id = 0 THEN counter ELSE counter + 1
  <2>1. cmds \in [Instances -> Seq(Cmd)] /\ cmds[i] # <<>>
    BY DEF CountInv, TypeOK, Execute
  <2> QED
    BY <2>1, PopType DEF CountInv, TypeOK, Execute
<1>2. /\ c \in Cmd /\ c.n = counter' /\ c.id = Head(cmds[i]).id
      /\ replies' = Push(replies, i, c)
  BY <1>1 DEF Execute, Cmd
<1> HIDE DEF c
<1>3. Replies' \subseteq Replies \cup {c}
  <2>1. replies \in [Instances -> Seq(Cmd)] /\ c \in Cmd
    BY <1>2 DEF CountInv, TypeOK
  <2>2. \A k \in Instances : Elements(replies'[k]) \subseteq Elements(replies[k]) \cup {c}
    BY <1>2, <2>1, PushType
  <2> QED
    BY <2>2 DEF Replies
<1>4. Messages' = Messages /\ UNCHANGED <<local, told>>
  BY DEF Execute, Messages, channel, browser
<1>5. Messages \subseteq Msg /\ Replies \subseteq Cmd /\ NumberInv
  BY MessagesType DEF CountInv
<1>6. \A m \in Messages : m.count # NoCount => m.count \in Nat /\ m.count <= counter
  BY <1>5 DEF NumberInv, Msg
<1>7. \A d \in Replies : d.n \in Nat /\ d.n <= counter
  BY <1>5 DEF NumberInv, Cmd
<1>8. \A k \in Instances : /\ local[k] \in Nat /\ local[k] <= counter
                           /\ told[k] # NoCount => told[k] \in Nat /\ told[k] <= counter
  BY <1>5 DEF NumberInv, CountInv, TypeOK
<1>9. counter <= counter'
  BY <1>1
<1>10. \A m \in Messages : c.id # 0 /\ m.count = c.n => m.id = c.id
  BY <1>1, <1>2, <1>6
<1>11. \A d \in Replies : c.id # 0 /\ d.n = c.n => d.id = c.id
  BY <1>1, <1>2, <1>7
<1>12. \A m \in Messages : m.count # NoCount => m.count <= counter'
  BY <1>1, <1>6, <1>9
<1>13. \A d \in Replies' : d.n <= counter'
  BY <1>1, <1>2, <1>3, <1>7, <1>9
<1>14. \A k \in Instances : /\ local[k] <= counter'
                            /\ told[k] # NoCount => told[k] <= counter'
  BY <1>1, <1>8, <1>9
<1>15. \A m \in Messages, d \in Replies' : d.id # 0 /\ m.count = d.n => m.id = d.id
  BY <1>3, <1>5, <1>10 DEF NumberInv
<1>16. \A d, e \in Replies' : d.id # 0 /\ e.id # 0 /\ d.n = e.n => d.id = e.id
  BY <1>3, <1>5, <1>11 DEF NumberInv
<1>17. NumberInv'
  BY <1>4, <1>5, <1>12, <1>13, <1>14, <1>15, <1>16 DEF NumberInv
<1> QED
  BY <1>17 DEF CountInv

LEMMA HandleReplyKeepsCountInv ==
  ASSUME CountInv, TypeOK', NEW i \in Instances, HandleReply(i)
  PROVE  CountInv'
<1> DEFINE c == Head(replies[i])
           m == Message(c.id, i, c.n)
<1>1. replies \in [Instances -> Seq(Cmd)] /\ replies[i] # <<>>
  BY DEF CountInv, TypeOK, HandleReply
<1>2. /\ c \in Cmd /\ c \in Elements(replies[i])
      /\ \A k \in Instances : Elements(replies'[k]) \subseteq Elements(replies[k])
  BY <1>1, PopType DEF HandleReply
<1>3. c \in Replies /\ Replies' \subseteq Replies
  BY <1>2 DEF Replies
<1>4. m \in Msg /\ m.id = c.id /\ m.count = c.n
  BY <1>2 DEF Cmd, Msg, Message
<1>5. pub' = pub \/ (c.id # 0 /\ pub' = Push(pub, i, m))
  BY DEF HandleReply
<1> HIDE DEF m
<1>6. \A k \in Instances : \/ pub'[k] = pub[k]
                           \/ c.id # 0 /\ Elements(pub'[k]) \subseteq Elements(pub[k]) \cup {m}
  <2>1. pub \in [Instances -> Seq(Msg)] /\ m \in Msg
    BY <1>4 DEF CountInv, TypeOK
  <2>2. \A k \in Instances : Elements(Push(pub, i, m)[k]) \subseteq Elements(pub[k]) \cup {m}
    BY <2>1, PushType
  <2> QED
    BY <1>5, <2>2
<1>7. \A x \in Messages' : x \in Messages \/ (c.id # 0 /\ x = m)
  BY <1>6 DEF Messages, HandleReply
<1>8. c.n <= counter
  BY <1>3 DEF CountInv, NumberInv
<1>9. \A k \in Instances : /\ local'[k] <= counter
                           /\ told'[k] # NoCount => told'[k] <= counter
  BY <1>8 DEF HandleReply, CountInv, NumberInv, TypeOK
<1>10. counter' = counter
  BY DEF HandleReply
<1> QED
  BY <1>3, <1>4, <1>7, <1>9, <1>10, NumbersKept

LEMMA ReceiveKeepsCountInv ==
  ASSUME CountInv, TypeOK', NEW i \in Instances, Receive(i)
  PROVE  CountInv'
<1> DEFINE m == Head(sub[i])
<1>1. sub \in [Instances -> Seq(Msg)] /\ shown \in [Instances -> Seq(Msg)] /\ sub[i] # <<>>
  BY DEF CountInv, TypeOK, Receive
<1>2. /\ m \in Msg /\ m \in Elements(sub[i])
      /\ \A k \in Instances : Elements(sub'[k]) \subseteq Elements(sub[k])
  BY <1>1, PopType DEF Receive
<1>3. \A k \in Instances : Elements(shown'[k]) \subseteq Elements(shown[k]) \cup {m}
  BY <1>1, <1>2, PushType DEF Receive
<1>4. m \in Messages
  BY <1>2 DEF Messages
<1>5. UNCHANGED <<counter, replies, pub, acks>>
  BY DEF Receive, redisClient
<1>6. Messages' \subseteq Messages /\ Replies' = Replies
  BY <1>2, <1>3, <1>4, <1>5 DEF Messages, Replies
<1>7. m.count # NoCount => m.count <= counter
  BY <1>4 DEF CountInv, NumberInv
<1>8. \A k \in Instances : /\ local'[k] <= counter
                           /\ told'[k] # NoCount => told'[k] <= counter
  BY <1>7 DEF Receive, CountInv, NumberInv, TypeOK
<1> QED
  BY <1>5, <1>6, <1>8, NumbersKept

LEMMA PublishKeepsCountInv ==
  ASSUME CountInv, TypeOK', NEW i \in Instances, Publish(i)
  PROVE  CountInv'
<1> DEFINE m == Head(pub[i])
<1>1. pub \in [Instances -> Seq(Msg)] /\ sub \in [Instances -> Seq(Msg)] /\ pub[i] # <<>>
  BY DEF CountInv, TypeOK, Publish
<1>2. /\ m \in Msg /\ m \in Elements(pub[i])
      /\ \A k \in Instances : Elements(pub'[k]) \subseteq Elements(pub[k])
  BY <1>1, PopType DEF Publish
<1>3. \A k \in Instances : Elements(sub'[k]) \subseteq Elements(sub[k]) \cup {m}
  <2>1. \A k \in Instances : sub'[k] = sub[k] \/ sub'[k] = Append(sub[k], m)
    BY DEF Publish
  <2>2. \A k \in Instances : Elements(Append(sub[k], m)) \subseteq Elements(sub[k]) \cup {m}
    BY <1>1, <1>2 DEF Elements
  <2> QED
    BY <2>1, <2>2
<1>4. m \in Messages
  BY <1>2 DEF Messages
<1>5. UNCHANGED <<counter, replies, shown, local, told>>
  BY DEF Publish, redisClient, browser
<1>6. \A k \in Instances : Elements(acks'[k]) \subseteq Elements(acks[k]) \cup {m}
  <2>1. m \in Msg /\ acks \in [Instances -> Seq(Msg)] /\ acks' = Push(acks, i, m)
    BY <1>2 DEF Publish, CountInv, TypeOK
  <2> HIDE DEF m
  <2> QED
    BY <2>1, PushType
<1>7. Messages' \subseteq Messages /\ Replies' = Replies
  BY <1>2, <1>3, <1>4, <1>5, <1>6 DEF Messages, Replies
<1> QED
  BY <1>5, <1>7, NumbersMoved

LEMMA OthersKeepCountInv ==
  ASSUME CountInv, TypeOK', NEW i \in Instances,
         \/ Subscribe(i) \/ Listen(i) \/ Connect(i) \/ Notify(i) \/ EmitEvent(i)
         \/ Miss(i) \/ Acknowledge(i) \/ BreakSub(i) \/ Resubscribe(i)
  PROVE  CountInv'
<1>1. UNCHANGED <<counter, replies, shown, local, told>>
  BY DEF Subscribe, Listen, Connect, Notify, EmitEvent, Miss, Acknowledge, BreakSub,
     Resubscribe, redisClient, browser
<1>2. Replies' = Replies
  BY <1>1 DEF Replies
<1>3. CASE UNCHANGED <<pub, acks, sub>>
  <2>1. Messages' = Messages
    BY <1>1, <1>3 DEF Messages
  <2> QED
    BY <1>1, <1>2, <2>1, NumbersMoved
<1>4. CASE EmitEvent(i)
  <2> DEFINE m == Message(issued', i, NoCount)
  <2>1. /\ m \in Msg /\ m.count = NoCount /\ pub' = Push(pub, i, m)
        /\ UNCHANGED <<acks, sub>>
    BY <1>4 DEF Msg, EmitEvent, Issue, Message, CountInv, TypeOK
  <2> HIDE DEF m
  <2>2. \A k \in Instances : Elements(pub'[k]) \subseteq Elements(pub[k]) \cup {m}
    BY <2>1, PushType DEF CountInv, TypeOK
  <2>3. Messages' \subseteq Messages \cup {m}
    BY <1>1, <2>1, <2>2 DEF Messages
  <2> QED
    BY <1>1, <1>2, <2>1, <2>3, NumbersMoved
<1>5. CASE Miss(i) \/ Acknowledge(i) \/ BreakSub(i)
  <2>1. \A k \in Instances : /\ Elements(sub'[k]) \subseteq Elements(sub[k])
                             /\ Elements(acks'[k]) \subseteq Elements(acks[k])
    <3>1. CASE Miss(i)
      BY <3>1, PopType DEF Miss, CountInv, TypeOK
    <3>2. CASE Acknowledge(i)
      BY <3>2, PopType DEF Acknowledge, CountInv, TypeOK
    <3>3. CASE BreakSub(i)
      <4>1. \A k \in Instances : sub'[k] = sub[k] \/ sub'[k] = <<>>
        BY <3>3 DEF BreakSub, CountInv, TypeOK
      <4>2. Elements(<<>>) = {}
        BY DEF Elements
      <4> QED
        BY <3>3, <4>1, <4>2 DEF BreakSub
    <3> QED
      BY <1>5, <3>1, <3>2, <3>3
  <2>2. pub' = pub
    BY <1>5 DEF Miss, Acknowledge, BreakSub
  <2>3. Messages' \subseteq Messages
    BY <1>1, <2>1, <2>2 DEF Messages
  <2> QED
    BY <1>1, <1>2, <2>3, NumbersMoved
<1> QED
  BY <1>3, <1>4, <1>5 DEF Subscribe, Listen, Connect, Notify, Resubscribe, channel

(* A message sent again carries its old number; a command sent again gets  *)
(* another one.                                                            *)
LEMMA BreakKeepsCountInv ==
  ASSUME CountInv, TypeOK', NEW i \in Instances, BreakPub(i) \/ BreakClient(i)
  PROVE  CountInv'
<1>1. UNCHANGED <<counter, sub, shown, local, told>>
  BY DEF BreakPub, BreakClient, redisClient, channel, browser
<1>2. CASE BreakPub(i)
  <2>1. pub[i] \in Seq(Msg) /\ acks[i] \in Seq(Msg) /\ Replies' = Replies
    BY <1>2 DEF CountInv, TypeOK, BreakPub, redisClient, Replies
  <2>2. \A m \in Elements(Again(acks[i])) :
          \E n \in Elements(acks[i]) : m.id = n.id /\ m.count = n.count
    BY <2>1, AgainType DEF Elements
  <2>3. Elements(Again(acks[i]) \o pub[i]) = Elements(Again(acks[i])) \cup Elements(pub[i])
    BY <2>1, AgainType, JoinType
  <2>4. \A k \in Instances :
          /\ acks'[k] = acks[k] \/ acks'[k] = <<>>
          /\ pub'[k] = pub[k] \/ (k = i /\ pub'[k] = Again(acks[i]) \o pub[i])
    BY <1>2 DEF BreakPub, CountInv, TypeOK
  <2>5. Elements(<<>>) = {}
    BY DEF Elements
  <2>6. \A m \in Messages' : m \in Messages \/ m \in Elements(Again(acks[i]))
    <3>1. \A k \in Instances :
            /\ Elements(acks'[k]) \subseteq Elements(acks[k])
            /\ Elements(pub'[k]) \subseteq Elements(pub[k]) \cup Elements(Again(acks[i]))
      BY <2>3, <2>4, <2>5
    <3> QED
      BY <1>1, <3>1 DEF Messages
  <2>7. Elements(acks[i]) \subseteq Messages
    BY DEF Messages
  <2> QED
    BY <1>1, <2>1, <2>2, <2>6, <2>7, NumbersMoved
<1>3. CASE BreakClient(i)
  <2>1. Messages' = Messages
    BY <1>1, <1>3 DEF BreakClient, channel, Messages
  <2>2. \A k \in Instances : replies'[k] = replies[k] \/ replies'[k] = <<>>
    BY <1>3 DEF BreakClient, CountInv, TypeOK
  <2>3. Elements(<<>>) = {}
    BY DEF Elements
  <2>4. Replies' \subseteq Replies
    BY <2>2, <2>3 DEF Replies
  <2> QED
    BY <1>1, <2>1, <2>4, NumbersMoved
<1> QED
  BY <1>2, <1>3

LEMMA CrashKeepsCountInv ==
  ASSUME CountInv, TypeOK', NEW i \in Instances, Crash(i)
  PROVE  CountInv'
<1>1. \A k \in Instances : /\ pub'[k] = pub[k] \/ pub'[k] = <<>>
                           /\ acks'[k] = acks[k] \/ acks'[k] = <<>>
                           /\ sub'[k] = sub[k] \/ sub'[k] = <<>>
                           /\ shown'[k] = shown[k] \/ shown'[k] = <<>>
                           /\ replies'[k] = replies[k] \/ replies'[k] = <<>>
                           /\ local'[k] = local[k] \/ local'[k] = 0
                           /\ told'[k] = told[k] \/ told'[k] = NoCount
  BY DEF Crash, CountInv, TypeOK
<1>2. Elements(<<>>) = {}
  BY DEF Elements
<1>3. Messages' \subseteq Messages /\ Replies' \subseteq Replies
  BY <1>1, <1>2 DEF Messages, Replies
<1>4. counter' = counter /\ 0 <= counter
  BY DEF Crash, CountInv, TypeOK
<1>5. \A k \in Instances : /\ local'[k] <= counter
                           /\ told'[k] # NoCount => told'[k] <= counter
  BY <1>1, <1>4 DEF CountInv, NumberInv
<1> QED
  BY <1>3, <1>4, <1>5, NumbersKept

LEMMA NextKeepsCountInv == CountInv /\ [Next]_vars => CountInv'
<1> SUFFICES ASSUME CountInv, [Next]_vars PROVE CountInv'
  OBVIOUS
<1>1. TypeOK'
  BY NextKeepsType DEF CountInv
<1>2. CASE UNCHANGED vars
  BY <1>1, <1>2, NumbersMoved
     DEF vars, redisClient, channel, browser, Messages, Replies
<1>3. CASE Next
  BY <1>1, <1>3, ExecuteKeepsCountInv, HandleReplyKeepsCountInv, ReceiveKeepsCountInv,
     PublishKeepsCountInv, OthersKeepCountInv, BreakKeepsCountInv,
     CrashKeepsCountInv DEF Next
<1> QED
  BY <1>2, <1>3

LEMMA InitCountInv == Init => CountInv
<1> SUFFICES ASSUME Init PROVE CountInv
  OBVIOUS
<1>1. \A i \in Instances : /\ pub[i] = <<>> /\ acks[i] = <<>> /\ sub[i] = <<>>
                           /\ shown[i] = <<>> /\ replies[i] = <<>>
                           /\ local[i] = 0 /\ told[i] = NoCount
  BY DEF Init
<1>2. Messages = {} /\ Replies = {}
  BY <1>1 DEF Messages, Replies, Elements
<1> QED
  BY <1>1, <1>2, InitType DEF CountInv, NumberInv, Init

(* However the instances' connections interleave, restart or break, no two *)
(* notifications carry the same number and no browser is told a number     *)
(* that Redis has not given out: emit and the message handler take it from *)
(* Redis each time, notificationCount only remembers it.                   *)
THEOREM CountsComeFromRedis == Spec => []CountsAreRedis
<1>1. CountInv => CountsAreRedis
  BY DEF CountInv, NumberInv, CountsAreRedis, Notifications, Messages
<1> QED
  BY <1>1, InitCountInv, NextKeepsCountInv, PTL DEF Spec

-----------------------------------------------------------------------------
(* The order: what an instance published is, from the oldest on, shown, in *)
(* a subscription, on its redisPub, or still waits for its number.  What   *)
(* redisPub sends again may repeat what is before it.                      *)
Same(m, n) == m.from = n.from /\ (m.count = NoCount) = (n.count = NoCount)
Before(A, B) == \A m \in A, n \in B : Same(m, n) => m.id < n.id \/ n.again
Ascending(s) == \A k, l \in DOMAIN s :
                  k < l /\ Same(s[k], s[l]) => s[k].id < s[l].id \/ s[l].again

Rising(s) == \A k, l \in DOMAIN s :
               k < l /\ s[k].id # 0 /\ s[l].id # 0 => s[k].id < s[l].id
Pending(j) == Elements(replies[j]) \cup Elements(cmds[j])

CmdOrder ==
  /\ \A j \in Instances : /\ Rising(replies[j]) /\ Rising(cmds[j])
                          /\ \A c \in Elements(replies[j]), d \in Elements(cmds[j]) :
                               c.id # 0 /\ d.id # 0 => c.id < d.id
  /\ \A j \in Instances : \A c \in Pending(j) : c.id <= issued
  /\ \A j \in Instances : \A m \in Messages, c \in Pending(j) :
       m.from = j /\ m.count # NoCount /\ c.id # 0 => m.id < c.id

MsgOrder ==
  /\ \A m \in Messages : m.id <= issued
  /\ \A j \in Instances : /\ Ascending(pub[j])
                          /\ \A m \in Elements(pub[j]) : m.from = j
                          /\ \A m \in Elements(acks[j]) : m.from = j
                          /\ Before(Elements(acks[j]), Elements(pub[j]))
  /\ \A i \in Instances : /\ Ascending(shown[i]) /\ Ascending(sub[i])
                          /\ Before(Elements(shown[i]), Elements(sub[i]))
  /\ \A i, j \in Instances : /\ Before(Elements(shown[i]), Elements(pub[j]))
                             /\ Before(Elements(sub[i]), Elements(pub[j]))

OrderInv == TypeOK /\ CmdOrder /\ MsgOrder

(* Putting a later message at the end, and taking the first one away.      *)
LEMMA AscendingAppend ==
  ASSUME NEW s \in Seq(Msg), NEW m \in Msg, Ascending(s), Before(Elements(s), {m})
  PROVE  Ascending(Append(s, m))
<1>1. \A k \in DOMAIN s : Same(s[k], m) => s[k].id < m.id \/ m.again
  BY DEF Before, Elements
<1>2. /\ DOMAIN Append(s, m) = DOMAIN s \cup {Len(s) + 1}
      /\ DOMAIN s = 1 .. Len(s) /\ Len(s) \in Nat
      /\ \A k \in DOMAIN s : Append(s, m)[k] = s[k]
      /\ Append(s, m)[Len(s) + 1] = m
  OBVIOUS
<1> QED
  BY <1>1, <1>2 DEF Ascending

LEMMA AscendingTail ==
  ASSUME NEW s \in Seq(Msg), s # <<>>, Ascending(s)
  PROVE  Ascending(Tail(s)) /\ Before({Head(s)}, Elements(Tail(s)))
<1>1. /\ DOMAIN s = 1 .. Len(s) /\ Len(s) \in Nat \ {0}
      /\ DOMAIN Tail(s) = 1 .. Len(s) - 1
      /\ \A k \in DOMAIN Tail(s) : k + 1 \in DOMAIN s /\ Tail(s)[k] = s[k + 1]
      /\ Head(s) = s[1] /\ 1 \in DOMAIN s
  OBVIOUS
<1>2. Ascending(Tail(s))
  BY <1>1 DEF Ascending
<1>3. ASSUME NEW k \in DOMAIN Tail(s), Same(s[1], s[k + 1])
      PROVE  s[1].id < s[k + 1].id \/ s[k + 1].again
  BY <1>1, <1>3 DEF Ascending
<1> QED
  BY <1>1, <1>2, <1>3 DEF Before, Elements

LEMMA RisingAppend ==
  ASSUME NEW s \in Seq(Cmd), NEW c \in Cmd, Rising(s),
         \A d \in Elements(s) : d.id # 0 /\ c.id # 0 => d.id < c.id
  PROVE  Rising(Append(s, c))
<1>1. \A k \in DOMAIN s : s[k].id # 0 /\ c.id # 0 => s[k].id < c.id
  BY DEF Elements
<1>2. /\ DOMAIN Append(s, c) = DOMAIN s \cup {Len(s) + 1}
      /\ DOMAIN s = 1 .. Len(s) /\ Len(s) \in Nat
      /\ \A k \in DOMAIN s : Append(s, c)[k] = s[k]
      /\ Append(s, c)[Len(s) + 1] = c
  OBVIOUS
<1> QED
  BY <1>1, <1>2 DEF Rising

LEMMA RisingTail ==
  ASSUME NEW s \in Seq(Cmd), s # <<>>, Rising(s)
  PROVE  /\ Rising(Tail(s))
         /\ \A d \in Elements(Tail(s)) : d.id # 0 /\ Head(s).id # 0 => Head(s).id < d.id
<1>1. /\ DOMAIN s = 1 .. Len(s) /\ Len(s) \in Nat \ {0}
      /\ DOMAIN Tail(s) = 1 .. Len(s) - 1
      /\ \A k \in DOMAIN Tail(s) : k + 1 \in DOMAIN s /\ Tail(s)[k] = s[k + 1]
      /\ Head(s) = s[1] /\ 1 \in DOMAIN s
  OBVIOUS
<1>2. Rising(Tail(s))
  BY <1>1 DEF Rising
<1>3. ASSUME NEW k \in DOMAIN Tail(s), s[1].id # 0, s[k + 1].id # 0
      PROVE  s[1].id < s[k + 1].id
  BY <1>1, <1>3 DEF Rising
<1> QED
  BY <1>1, <1>2, <1>3 DEF Elements

LEMMA EmptyIsOrdered == /\ Ascending(<<>>) /\ Rising(<<>>) /\ Elements(<<>>) = {}
BY DEF Ascending, Rising, Elements

(* A step that leaves the messages alone, or the commands.                 *)
LEMMA MsgOrderKept ==
  ASSUME OrderInv, UNCHANGED <<channel, shown>>, issued' \in Nat, issued <= issued'
  PROVE  MsgOrder'
<1>1. Messages' = Messages /\ \A m \in Messages : m.id \in Nat
  BY MessagesType DEF OrderInv, Messages, Msg, channel
<1>2. \A m \in Messages' : m.id <= issued'
  BY <1>1 DEF OrderInv, MsgOrder, TypeOK
<1> QED
  BY <1>2 DEF OrderInv, MsgOrder, channel

LEMMA CmdOrderKept ==
  ASSUME OrderInv, issued' \in Nat, issued <= issued',
         \A j \in Instances : \/ replies'[j] = replies[j] /\ cmds'[j] = cmds[j]
                              \/ replies'[j] = <<>> /\ cmds'[j] = <<>>,
         \A m \in Messages' : m \in Messages \/ m.count = NoCount
  PROVE  CmdOrder'
<1>1. \A j \in Instances : /\ Rising(replies'[j]) /\ Rising(cmds'[j])
                           /\ \A c \in Elements(replies'[j]), d \in Elements(cmds'[j]) :
                                c.id # 0 /\ d.id # 0 => c.id < d.id
                           /\ Elements(replies'[j]) \subseteq Elements(replies[j])
                           /\ Elements(cmds'[j]) \subseteq Elements(cmds[j])
  BY EmptyIsOrdered DEF OrderInv, CmdOrder
<1>2. \A j \in Instances : Pending(j) \subseteq Cmd
  BY ElementsType DEF OrderInv, TypeOK, Pending
<1>3. \A j \in Instances : \A c \in Elements(replies'[j]) \cup Elements(cmds'[j]) :
        c \in Pending(j) /\ c.id <= issued'
  <2>1. \A j \in Instances : \A c \in Pending(j) : c.id <= issued /\ c.id \in Nat
    BY <1>2 DEF OrderInv, CmdOrder, Cmd
  <2>2. \A j \in Instances : Elements(replies'[j]) \cup Elements(cmds'[j]) \subseteq Pending(j)
    BY <1>1 DEF Pending
  <2> QED
    BY <2>1, <2>2 DEF OrderInv, TypeOK
<1>4. ASSUME NEW j \in Instances, NEW m \in Messages',
             NEW c \in Elements(replies'[j]) \cup Elements(cmds'[j]),
             m.from = j, m.count # NoCount, c.id # 0
      PROVE  m.id < c.id
  BY <1>3, <1>4 DEF OrderInv, CmdOrder
<1> QED
  BY <1>1, <1>3, <1>4 DEF CmdOrder, Pending

(* Instance j publishes a message later than any of its kind so far.       *)
LEMMA PushKeepsMsgOrder ==
  ASSUME OrderInv, NEW j \in Instances, NEW m \in Msg, m.from = j,
         pub' = Push(pub, j, m), UNCHANGED <<acks, sub, shown>>,
         issued' \in Nat, issued <= issued', m.id <= issued',
         \A x \in Messages : Same(x, m) => x.id < m.id
  PROVE  MsgOrder'
<1>1. /\ pub \in [Instances -> Seq(Msg)]
      /\ pub'[j] = Append(pub[j], m)
      /\ \A k \in Instances : k # j => pub'[k] = pub[k]
      /\ \A k \in Instances : Elements(pub'[k]) \subseteq Elements(pub[k]) \cup {m}
  <2>1. pub \in [Instances -> Seq(Msg)]
    BY DEF OrderInv, TypeOK
  <2>2. Push(pub, j, m)[j] = Append(pub[j], m)
    BY <2>1, PushType
  <2>3. \A k \in Instances : k # j => Push(pub, j, m)[k] = pub[k]
    BY <2>1, PushType
  <2>4. \A k \in Instances : Elements(Push(pub, j, m)[k]) \subseteq Elements(pub[k]) \cup {m}
    BY <2>1, PushType
  <2> QED
    BY <2>1, <2>2, <2>3, <2>4
<1>2. \A k \in Instances : /\ Elements(pub[k]) \subseteq Messages
                           /\ Elements(acks[k]) \subseteq Messages
                           /\ Elements(sub[k]) \subseteq Messages
                           /\ Elements(shown[k]) \subseteq Messages
  BY DEF Messages
<1>3. \A x \in Messages' : x \in Messages \/ x = m
  BY <1>1 DEF Messages
<1>4. \A x \in Messages : x.id \in Nat /\ x.id <= issued
  BY MessagesType DEF OrderInv, MsgOrder, Msg
<1>5. \A x \in Messages' : x.id <= issued'
  <2>1. issued \in Nat
    BY DEF OrderInv, TypeOK
  <2>2. \A x \in Messages : x.id <= issued'
    BY <1>4, <2>1
  <2> QED
    BY <1>3, <2>2
<1>6. ASSUME NEW k \in Instances
      PROVE  Ascending(pub'[k]) /\ \A x \in Elements(pub'[k]) : x.from = k
  <2>1. CASE k # j
    BY <1>1, <2>1 DEF OrderInv, MsgOrder
  <2>2. CASE k = j
    <3>1. Before(Elements(pub[j]), {m})
      BY <1>2 DEF Before
    <3>2. Ascending(Append(pub[j], m))
      BY <1>1, <3>1, AscendingAppend DEF OrderInv, MsgOrder
    <3> QED
      BY <1>1, <2>2, <3>2 DEF OrderInv, MsgOrder
  <2> QED
    BY <2>1, <2>2
<1>7. ASSUME NEW i \in Instances, NEW k \in Instances
      PROVE  /\ Before(Elements(shown[i]), Elements(pub'[k]))
             /\ Before(Elements(sub[i]), Elements(pub'[k]))
             /\ Before(Elements(acks[k]), Elements(pub'[k]))
  <2>1. ASSUME NEW x \in Elements(shown[i]) \cup Elements(sub[i]) \cup Elements(acks[k]),
               NEW y \in Elements(pub'[k]), Same(x, y)
        PROVE  x.id < y.id \/ y.again
    <3>1. x \in Messages
      BY <1>2
    <3>2. CASE y = m
      BY <2>1, <3>1, <3>2
    <3>3. CASE y \in Elements(pub[k])
      BY <2>1, <3>3 DEF OrderInv, MsgOrder, Before
    <3> QED
      BY <1>1, <3>2, <3>3
  <2> QED
    BY <2>1 DEF Before
<1> QED
  BY <1>5, <1>6, <1>7 DEF OrderInv, MsgOrder

(* One lemma per action, or for those alike.                               *)
LEMMA CommandKeepsOrder ==
  ASSUME OrderInv, TypeOK', NEW i \in Instances, Connect(i) \/ Notify(i)
  PROVE  OrderInv'
<1>1. /\ UNCHANGED <<replies, channel, shown>>
      /\ issued \in Nat /\ issued' \in Nat /\ issued <= issued'
  BY DEF Connect, Notify, Issue, browser, OrderInv, TypeOK
<1>2. PICK c \in Cmd : /\ cmds' = Push(cmds, i, c)
                       /\ c.id = 0 \/ (c.id = issued' /\ issued' = issued + 1)
  <2>1. CASE Connect(i)
    <3> DEFINE x == [id |-> 0, n |-> 0]
    <3>1. x \in Cmd /\ x.id = 0 /\ cmds' = Push(cmds, i, x)
      BY <2>1 DEF Connect, Cmd
    <3> HIDE DEF x
    <3> QED
      BY <3>1
  <2>2. CASE Notify(i)
    <3>1. /\ [id |-> issued', n |-> 0] \in Cmd
          /\ cmds' = Push(cmds, i, [id |-> issued', n |-> 0]) /\ issued' = issued + 1
      BY <1>1, <2>2 DEF Notify, Issue, Cmd
    <3> QED
      BY <3>1
  <2> QED
    BY <2>1, <2>2
<1>3. cmds \in [Instances -> Seq(Cmd)] /\ cmds[i] \in Seq(Cmd)
  BY DEF OrderInv, TypeOK
<1>4. cmds'[i] = Append(cmds[i], c)
  BY <1>2, <1>3, PushType
<1>5. \A k \in Instances : k # i => cmds'[k] = cmds[k]
  BY <1>2, <1>3, PushType
<1>6. \A k \in Instances : Elements(cmds'[k]) \subseteq Elements(cmds[k]) \cup {c}
  BY <1>2, <1>3, PushType
<1>7. \A k \in Instances : Pending(k) \subseteq Cmd /\ \A d \in Pending(k) : d.id <= issued
  BY ElementsType DEF Pending, OrderInv, TypeOK, CmdOrder
<1>8. \A k \in Instances : \A d \in Pending(k) : d.id \in Nat /\ d.id <= issued
  BY <1>7 DEF Cmd
<1>9. \A m \in Messages : m.id \in Nat /\ m.id <= issued
  BY MessagesType DEF OrderInv, MsgOrder, Msg
<1>10. Rising(cmds'[i])
  <2>1. \A d \in Elements(cmds[i]) : d.id # 0 /\ c.id # 0 => d.id < c.id
    BY <1>1, <1>2, <1>8 DEF Pending
  <2> QED
    BY <1>3, <1>4, <2>1, RisingAppend DEF OrderInv, CmdOrder
<1>11. ASSUME NEW k \in Instances, NEW d \in Elements(replies[k]),
              NEW e \in Elements(cmds'[k]), d.id # 0, e.id # 0
       PROVE  d.id < e.id
  <2>1. CASE e = c
    BY <1>1, <1>2, <1>8, <1>11, <2>1 DEF Pending
  <2>2. CASE e \in Elements(cmds[k])
    BY <1>11, <2>2 DEF OrderInv, CmdOrder
  <2> QED
    BY <1>6, <2>1, <2>2
<1>12. \A k \in Instances : \A d \in Pending(k)' : d \in Pending(k) \/ d = c
  BY <1>1, <1>6 DEF Pending
<1>13. ASSUME NEW k \in Instances, NEW d \in Pending(k)'
       PROVE  /\ d.id <= issued'
              /\ \A m \in Messages : m.from = k /\ m.count # NoCount /\ d.id # 0
                                       => m.id < d.id
  <2>1. CASE d = c
    BY <1>1, <1>2, <1>9, <2>1
  <2>2. CASE d \in Pending(k)
    BY <1>1, <1>8, <2>2 DEF OrderInv, CmdOrder
  <2> QED
    BY <1>12, <2>1, <2>2
<1>14. Messages' = Messages
  BY <1>1 DEF Messages, channel
<1>15. \A k \in Instances : Rising(replies'[k]) /\ Rising(cmds'[k])
  BY <1>1, <1>5, <1>10 DEF OrderInv, CmdOrder
<1>16. CmdOrder'
  BY <1>1, <1>11, <1>13, <1>14, <1>15 DEF CmdOrder
<1> QED
  BY <1>1, <1>16, MsgOrderKept DEF OrderInv

LEMMA ExecuteKeepsOrder ==
  ASSUME OrderInv, TypeOK', NEW i \in Instances, Execute(i)
  PROVE  OrderInv'
<1> DEFINE h == Head(cmds[i])
           c == [h EXCEPT !.n = counter']
<1>1. /\ UNCHANGED <<channel, shown, issued>> /\ issued \in Nat
      /\ cmds \in [Instances -> Seq(Cmd)] /\ cmds[i] # <<>>
      /\ replies \in [Instances -> Seq(Cmd)] /\ counter' \in Nat
  BY DEF Execute, browser, counts, OrderInv, TypeOK
<1>2. h \in Cmd /\ h \in Elements(cmds[i])
  BY <1>1, PopType
<1>3. c \in Cmd /\ c.id = h.id /\ replies' = Push(replies, i, c) /\ cmds' = Pop(cmds, i)
  BY <1>1, <1>2 DEF Execute, Cmd
<1> HIDE DEF c
<1>4. replies'[i] = Append(replies[i], c)
  <2>1. replies \in [Instances -> Seq(Cmd)] /\ c \in Cmd
    BY <1>1, <1>3
  <2>2. Push(replies, i, c)[i] = Append(replies[i], c)
    BY <2>1, PushType
  <2> QED
    BY <1>3, <2>2
<1>5. \A k \in Instances : k # i => replies'[k] = replies[k]
  <2>1. replies \in [Instances -> Seq(Cmd)] /\ c \in Cmd
    BY <1>1, <1>3
  <2>2. \A k \in Instances : k # i => Push(replies, i, c)[k] = replies[k]
    BY <2>1, PushType
  <2> QED
    BY <1>3, <2>2
<1>6. \A k \in Instances : Elements(replies'[k]) \subseteq Elements(replies[k]) \cup {c}
  <2>1. replies \in [Instances -> Seq(Cmd)] /\ c \in Cmd
    BY <1>1, <1>3
  <2>2. \A k \in Instances : Elements(Push(replies, i, c)[k]) \subseteq Elements(replies[k]) \cup {c}
    BY <2>1, PushType
  <2> QED
    BY <1>3, <2>2
<1>7. /\ cmds'[i] = Tail(cmds[i])
      /\ \A k \in Instances : k # i => cmds'[k] = cmds[k]
      /\ \A k \in Instances : Elements(cmds'[k]) \subseteq Elements(cmds[k])
  <2>1. cmds \in [Instances -> Seq(Cmd)] /\ cmds[i] # <<>>
    BY <1>1
  <2>2. /\ Pop(cmds, i)[i] = Tail(cmds[i])
        /\ \A k \in Instances : k # i => Pop(cmds, i)[k] = cmds[k]
        /\ \A k \in Instances : Elements(Pop(cmds, i)[k]) \subseteq Elements(cmds[k])
    BY <2>1, PopType
  <2> QED
    BY <1>3, <2>2
<1>8. cmds[i] \in Seq(Cmd) /\ replies[i] \in Seq(Cmd) /\ Rising(cmds[i]) /\ Rising(replies[i])
  BY <1>1 DEF OrderInv, CmdOrder
<1>9. /\ Rising(cmds'[i])
      /\ \A d \in Elements(cmds'[i]) : d.id # 0 /\ h.id # 0 => h.id < d.id
  BY <1>1, <1>7, <1>8, RisingTail
<1>10. Rising(replies'[i])
  <2>1. \A d \in Elements(replies[i]) : d.id # 0 /\ c.id # 0 => d.id < c.id
    BY <1>2, <1>3 DEF OrderInv, CmdOrder
  <2> QED
    BY <1>3, <1>4, <1>8, <2>1, RisingAppend
<1>11. ASSUME NEW k \in Instances, NEW d \in Elements(replies'[k]),
              NEW e \in Elements(cmds'[k]), d.id # 0, e.id # 0
       PROVE  d.id < e.id
  <2>1. CASE k = i /\ d = c
    BY <1>3, <1>9, <1>11, <2>1
  <2>2. CASE d \in Elements(replies[k])
    BY <1>7, <1>11, <2>2 DEF OrderInv, CmdOrder
  <2> QED
    BY <1>5, <1>6, <2>1, <2>2
<1>12. ASSUME NEW k \in Instances, NEW d \in Pending(k)'
       PROVE  \E e \in Pending(k) : e.id = d.id
  <2>1. CASE k = i /\ d = c
    BY <1>2, <1>3, <2>1 DEF Pending
  <2>2. CASE d \in Pending(k)
    BY <2>2
  <2> QED
    BY <1>5, <1>6, <1>7, <2>1, <2>2 DEF Pending
<1>13. Messages' = Messages
  BY <1>1 DEF Messages, channel
<1>14. \A k \in Instances : Rising(replies'[k]) /\ Rising(cmds'[k])
  BY <1>5, <1>7, <1>9, <1>10 DEF OrderInv, CmdOrder
<1>15. \A k \in Instances : \A d \in Pending(k)' :
         /\ d.id <= issued
         /\ \A m \in Messages : m.from = k /\ m.count # NoCount /\ d.id # 0 => m.id < d.id
  BY <1>12 DEF OrderInv, CmdOrder
<1>16. CmdOrder'
  BY <1>1, <1>11, <1>13, <1>14, <1>15 DEF CmdOrder
<1>17. MsgOrder'
  <2>1. issued' \in Nat /\ issued <= issued'
    BY <1>1
  <2> QED
    BY <1>1, <2>1, MsgOrderKept
<1> QED
  BY <1>16, <1>17 DEF OrderInv

LEMMA HandleReplyKeepsOrder ==
  ASSUME OrderInv, TypeOK', NEW i \in Instances, HandleReply(i)
  PROVE  OrderInv'
<1> DEFINE c == Head(replies[i])
           m == Message(c.id, i, c.n)
<1>1. /\ UNCHANGED <<cmds, acks, sub, shown, issued>> /\ issued \in Nat
      /\ replies \in [Instances -> Seq(Cmd)] /\ replies[i] # <<>>
      /\ replies' = Pop(replies, i)
  BY DEF HandleReply, counts, OrderInv, TypeOK
<1>2. /\ replies'[i] = Tail(replies[i])
      /\ \A k \in Instances : k # i => replies'[k] = replies[k]
      /\ \A k \in Instances : Elements(replies'[k]) \subseteq Elements(replies[k])
      /\ c \in Cmd /\ c \in Elements(replies[i])
  BY <1>1, PopType
<1>3. m \in Msg /\ m.id = c.id /\ m.from = i /\ m.count # NoCount
  BY <1>2 DEF Cmd, Msg, Message
<1>4. pub' = pub \/ (c.id # 0 /\ pub' = Push(pub, i, m))
  BY DEF HandleReply
<1> HIDE DEF m
<1>5. replies[i] \in Seq(Cmd) /\ Rising(replies[i])
  BY <1>1 DEF OrderInv, CmdOrder
<1>6. /\ Rising(replies'[i])
      /\ \A d \in Elements(replies'[i]) : d.id # 0 /\ c.id # 0 => c.id < d.id
  BY <1>1, <1>2, <1>5, RisingTail
<1>7. \A d \in Elements(cmds[i]) : d.id # 0 /\ c.id # 0 => c.id < d.id
  BY <1>2 DEF OrderInv, CmdOrder
<1>8. \A x \in Messages' : x \in Messages \/ (c.id # 0 /\ x = m)
  <2>1. pub \in [Instances -> Seq(Msg)]
    BY DEF OrderInv, TypeOK
  <2>2. \A k \in Instances : Elements(Push(pub, i, m)[k]) \subseteq Elements(pub[k]) \cup {m}
    BY <1>3, <2>1, PushType
  <2>3. \A k \in Instances : \A x \in Elements(pub'[k]) :
          x \in Elements(pub[k]) \/ (c.id # 0 /\ x = m)
    BY <1>4, <2>2
  <2>4. \A x \in Messages' : \E k \in Instances :
          \/ x \in Elements(pub'[k]) \/ x \in Elements(acks[k])
          \/ x \in Elements(sub[k]) \/ x \in Elements(shown[k])
    BY <1>1 DEF Messages
  <2> QED
    BY <2>3, <2>4 DEF Messages
<1>9. \A k \in Instances : Pending(k)' \subseteq Pending(k)
  BY <1>1, <1>2 DEF Pending
<1>10. ASSUME NEW k \in Instances, NEW x \in Messages', NEW d \in Pending(k)',
              x.from = k, x.count # NoCount, d.id # 0
       PROVE  x.id < d.id
  <2>1. CASE x \in Messages
    BY <1>9, <1>10, <2>1 DEF OrderInv, CmdOrder
  <2>2. CASE c.id # 0 /\ x = m
    <3>1. k = i /\ d \in Elements(replies'[i]) \cup Elements(cmds[i])
      BY <1>1, <1>3, <1>10, <2>2 DEF Pending
    <3> QED
      BY <1>3, <1>6, <1>7, <1>10, <2>2, <3>1
  <2> QED
    BY <1>8, <2>1, <2>2
<1>11. \A k \in Instances : /\ Rising(replies'[k]) /\ Rising(cmds'[k])
                            /\ \A d \in Elements(replies'[k]), e \in Elements(cmds'[k]) :
                                 d.id # 0 /\ e.id # 0 => d.id < e.id
  BY <1>1, <1>2, <1>6 DEF OrderInv, CmdOrder
<1>12. \A k \in Instances : \A d \in Pending(k)' : d.id <= issued'
  BY <1>1, <1>9 DEF OrderInv, CmdOrder
<1>13. CmdOrder'
  BY <1>10, <1>11, <1>12 DEF CmdOrder
<1>14. issued' \in Nat /\ issued <= issued'
  BY <1>1
<1>15. MsgOrder'
  <2>1. CASE pub' = pub
    BY <1>1, <1>14, <2>1, MsgOrderKept DEF channel
  <2>2. CASE c.id # 0 /\ pub' = Push(pub, i, m)
    <3>1. c \in Pending(i)
      BY <1>2 DEF Pending
    <3>2. \A x \in Messages : Same(x, m) => x.id < m.id
      BY <1>3, <2>2, <3>1 DEF OrderInv, CmdOrder, Same
    <3>3. m.id <= issued'
      BY <1>1, <1>3, <3>1 DEF OrderInv, CmdOrder
    <3> QED
      BY <1>1, <1>3, <1>14, <2>2, <3>2, <3>3, PushKeepsMsgOrder
  <2> QED
    BY <1>4, <2>1, <2>2
<1> QED
  BY <1>13, <1>15 DEF OrderInv

LEMMA EmitEventKeepsOrder ==
  ASSUME OrderInv, TypeOK', NEW i \in Instances, EmitEvent(i)
  PROVE  OrderInv'
<1> DEFINE m == Message(issued', i, NoCount)
<1>1. /\ UNCHANGED <<cmds, replies, acks, sub, shown>>
      /\ issued \in Nat /\ issued' = issued + 1
  BY DEF EmitEvent, Issue, redisClient, browser, OrderInv, TypeOK
<1>2. m \in Msg /\ m.id = issued' /\ m.from = i /\ m.count = NoCount /\ pub' = Push(pub, i, m)
  BY <1>1 DEF Msg, EmitEvent, Message
<1> HIDE DEF m
<1>3. issued' \in Nat /\ issued <= issued'
  BY <1>1
<1>4. \A x \in Messages : x.id \in Nat /\ x.id <= issued
  BY MessagesType DEF OrderInv, MsgOrder, Msg
<1>5. MsgOrder'
  BY <1>1, <1>2, <1>3, <1>4, PushKeepsMsgOrder
<1>6. \A x \in Messages' : x \in Messages \/ x.count = NoCount
  <2>1. pub \in [Instances -> Seq(Msg)]
    BY DEF OrderInv, TypeOK
  <2>2. \A k \in Instances : Elements(pub'[k]) \subseteq Elements(pub[k]) \cup {m}
    BY <1>2, <2>1, PushType
  <2> QED
    BY <1>1, <1>2, <2>2 DEF Messages
<1>7. CmdOrder'
  BY <1>1, <1>3, <1>6, CmdOrderKept
<1> QED
  BY <1>5, <1>7 DEF OrderInv

(* The head of redisPub i joins the subscriptions there are.               *)
LEMMA PublishKeepsOrder ==
  ASSUME OrderInv, TypeOK', NEW i \in Instances, Publish(i)
  PROVE  OrderInv'
<1> DEFINE m == Head(pub[i])
<1>1. /\ UNCHANGED <<cmds, replies, shown, issued>> /\ issued \in Nat
      /\ pub \in [Instances -> Seq(Msg)] /\ pub[i] # <<>>
      /\ sub \in [Instances -> Seq(Msg)] /\ pub' = Pop(pub, i)
      /\ \A k \in Instances : sub'[k] = sub[k] \/ sub'[k] = Append(sub[k], m)
  BY DEF Publish, redisClient, browser, counts, OrderInv, TypeOK
<1>2. /\ pub'[i] = Tail(pub[i])
      /\ \A k \in Instances : k # i => pub'[k] = pub[k]
      /\ \A k \in Instances : Elements(pub'[k]) \subseteq Elements(pub[k])
      /\ m \in Msg /\ m \in Elements(pub[i])
  BY <1>1, PopType
<1>3. acks \in [Instances -> Seq(Msg)] /\ m \in Msg /\ acks' = Push(acks, i, m)
  BY <1>2 DEF Publish, OrderInv, TypeOK
<1> HIDE DEF m
<1>4. \A k \in Instances : sub[k] \in Seq(Msg)
  BY <1>1
<1>5. \A k \in Instances : Elements(sub'[k]) \subseteq Elements(sub[k]) \cup {m}
  <2>1. \A k \in Instances : Elements(Append(sub[k], m)) \subseteq Elements(sub[k]) \cup {m}
    BY <1>2, <1>4 DEF Elements
  <2> QED
    BY <1>1, <2>1
<1>6. pub[i] \in Seq(Msg) /\ Ascending(pub[i]) /\ m.from = i
  BY <1>1, <1>2 DEF OrderInv, MsgOrder
<1>7. Ascending(pub'[i]) /\ Before({m}, Elements(pub'[i]))
  BY <1>1, <1>2, <1>6, AscendingTail DEF m
<1>8. \A k \in Instances : Ascending(sub[k]) /\ Before(Elements(sub[k]), {m})
                           /\ Before(Elements(shown[k]), {m})
  BY <1>2 DEF OrderInv, MsgOrder, Before
<1>9. \A k \in Instances : Ascending(sub'[k])
  BY <1>1, <1>2, <1>4, <1>8, AscendingAppend
<1>10. \A k \in Instances : Before(Elements(shown[k]), Elements(sub'[k]))
  BY <1>5, <1>8 DEF OrderInv, MsgOrder, Before
<1>11. \A k \in Instances : Before({m}, Elements(pub'[k]))
  <2>1. \A k \in Instances : \A x \in Elements(pub'[k]) : x.from = k
    BY <1>2 DEF OrderInv, MsgOrder
  <2> QED
    BY <1>6, <1>7, <2>1 DEF Before, Same
<1>12. \A j, k \in Instances : /\ Before(Elements(shown[j]), Elements(pub'[k]))
                               /\ Before(Elements(sub'[j]), Elements(pub'[k]))
  BY <1>2, <1>5, <1>11 DEF OrderInv, MsgOrder, Before
<1>13. \A k \in Instances : /\ Ascending(pub'[k])
                            /\ \A x \in Elements(pub'[k]) : x.from = k
  BY <1>2, <1>7 DEF OrderInv, MsgOrder
<1>14. /\ \A k \in Instances : k # i => acks'[k] = acks[k]
       /\ \A k \in Instances : Elements(acks'[k]) \subseteq Elements(acks[k]) \cup {m}
  <2>1. \A k \in Instances : k # i => Push(acks, i, m)[k] = acks[k]
    BY <1>3, PushType
  <2>2. \A k \in Instances : Elements(Push(acks, i, m)[k]) \subseteq Elements(acks[k]) \cup {m}
    BY <1>3, PushType
  <2> QED
    BY <1>3, <2>1, <2>2
<1>15. Messages' \subseteq Messages
  <2>1. m \in Messages
    BY <1>2 DEF Messages
  <2> QED
    <3>1. \A k \in Instances : /\ Elements(pub'[k]) \subseteq Messages
                               /\ Elements(acks'[k]) \subseteq Messages
                               /\ Elements(sub'[k]) \subseteq Messages
      BY <1>2, <1>5, <1>14, <2>1 DEF Messages
    <3>2. \A k \in Instances : Elements(shown'[k]) \subseteq Messages
      BY <1>1 DEF Messages
    <3> QED
      BY <3>1, <3>2 DEF Messages
<1>16. ASSUME NEW k \in Instances
       PROVE  /\ \A x \in Elements(acks'[k]) : x.from = k
              /\ Before(Elements(acks'[k]), Elements(pub'[k]))
  <2>1. \A x \in Elements(acks[k]) : x.from = k
    BY DEF OrderInv, MsgOrder
  <2>2. Before(Elements(acks[k]), Elements(pub'[k]))
    BY <1>2 DEF OrderInv, MsgOrder, Before
  <2>3. CASE k # i
    BY <1>14, <2>1, <2>2, <2>3
  <2>4. CASE k = i
    BY <1>6, <1>11, <1>14, <2>1, <2>2, <2>4 DEF Before
  <2> QED
    BY <2>3, <2>4
<1>17. MsgOrder'
  BY <1>1, <1>9, <1>10, <1>12, <1>13, <1>15, <1>16 DEF OrderInv, MsgOrder
<1>18. CmdOrder'
  <2>1. issued' \in Nat /\ issued <= issued'
    BY <1>1
  <2> QED
    BY <1>1, <1>15, <2>1, CmdOrderKept
<1> QED
  BY <1>17, <1>18 DEF OrderInv

(* The head of subscription i is shown, or dropped.                        *)
LEMMA TakeKeepsOrder ==
  ASSUME OrderInv, TypeOK', NEW i \in Instances, Receive(i) \/ Miss(i)
  PROVE  OrderInv'
<1> DEFINE m == Head(sub[i])
<1>1. /\ UNCHANGED <<cmds, replies, pub, acks, issued>> /\ issued \in Nat
      /\ sub \in [Instances -> Seq(Msg)] /\ sub[i] # <<>>
      /\ shown \in [Instances -> Seq(Msg)] /\ sub' = Pop(sub, i)
      /\ shown' = shown \/ shown' = Push(shown, i, m)
  BY DEF Receive, Miss, redisClient, browser, counts, OrderInv, TypeOK
<1>2. /\ sub'[i] = Tail(sub[i])
      /\ \A k \in Instances : k # i => sub'[k] = sub[k]
      /\ \A k \in Instances : Elements(sub'[k]) \subseteq Elements(sub[k])
      /\ m \in Msg /\ m \in Elements(sub[i])
  BY <1>1, PopType
<1> HIDE DEF m
<1>3. sub[i] \in Seq(Msg) /\ shown[i] \in Seq(Msg) /\ Ascending(sub[i])
  BY <1>1 DEF OrderInv, MsgOrder
<1>4. Ascending(sub'[i]) /\ Before({m}, Elements(sub'[i]))
  BY <1>1, <1>2, <1>3, AscendingTail DEF m
<1>5. \A k \in Instances :
        \/ shown'[k] = shown[k]
        \/ k = i /\ shown'[k] = Append(shown[i], m)
           /\ Elements(shown'[k]) \subseteq Elements(shown[k]) \cup {m}
  <2>0. shown \in [Instances -> Seq(Msg)] /\ m \in Msg
    BY <1>1, <1>2
  <2>1. Push(shown, i, m)[i] = Append(shown[i], m)
    BY <2>0, PushType
  <2>2. \A k \in Instances : k # i => Push(shown, i, m)[k] = shown[k]
    BY <2>0, PushType
  <2>3. \A k \in Instances : Elements(Push(shown, i, m)[k]) \subseteq Elements(shown[k]) \cup {m}
    BY <2>0, PushType
  <2> QED
    BY <1>1, <2>1, <2>2, <2>3
<1>6. Before(Elements(shown[i]), {m}) /\ \A k \in Instances : Before({m}, Elements(pub[k]))
  BY <1>2 DEF OrderInv, MsgOrder, Before
<1>7. \A k \in Instances : Ascending(shown'[k])
  <2>1. Ascending(Append(shown[i], m))
    BY <1>2, <1>3, <1>6, AscendingAppend DEF OrderInv, MsgOrder
  <2> QED
    BY <1>5, <2>1 DEF OrderInv, MsgOrder
<1>8. \A k \in Instances : Ascending(sub'[k])
  BY <1>2, <1>4 DEF OrderInv, MsgOrder
<1>9. \A k \in Instances : Before(Elements(shown'[k]), Elements(sub'[k]))
  <2>1. ASSUME NEW k \in Instances, NEW x \in Elements(shown'[k]),
               NEW y \in Elements(sub'[k]), Same(x, y)
        PROVE  x.id < y.id \/ y.again
    <3>1. CASE x \in Elements(shown[k])
      BY <1>2, <2>1, <3>1 DEF OrderInv, MsgOrder, Before
    <3>2. CASE k = i /\ x = m
      BY <1>4, <2>1, <3>2 DEF Before
    <3> QED
      BY <1>5, <2>1, <3>1, <3>2
  <2> QED
    BY <2>1 DEF Before
<1>10. \A j, k \in Instances : /\ Before(Elements(shown'[j]), Elements(pub[k]))
                               /\ Before(Elements(sub'[j]), Elements(pub[k]))
  <2>1. ASSUME NEW j \in Instances, NEW k \in Instances,
               NEW x \in Elements(shown'[j]), NEW y \in Elements(pub[k]), Same(x, y)
        PROVE  x.id < y.id \/ y.again
    <3>1. CASE x \in Elements(shown[j])
      BY <2>1, <3>1 DEF OrderInv, MsgOrder, Before
    <3>2. CASE x = m
      BY <1>6, <2>1, <3>2 DEF Before
    <3> QED
      BY <1>5, <2>1, <3>1, <3>2
  <2>2. \A j, k \in Instances : Before(Elements(sub'[j]), Elements(pub[k]))
    BY <1>2 DEF OrderInv, MsgOrder, Before
  <2> QED
    BY <2>1, <2>2 DEF Before
<1>11. Messages' \subseteq Messages
  <2>1. m \in Messages
    BY <1>2 DEF Messages
  <2> QED
    BY <1>1, <1>2, <1>5, <2>1 DEF Messages
<1>12. MsgOrder'
  BY <1>1, <1>7, <1>8, <1>9, <1>10, <1>11 DEF OrderInv, MsgOrder
<1>13. CmdOrder'
  <2>1. issued' \in Nat /\ issued <= issued'
    BY <1>1
  <2> QED
    BY <1>1, <1>11, <2>1, CmdOrderKept
<1> QED
  BY <1>12, <1>13 DEF OrderInv

(* A reply to a PUBLISH leaves acks.                                       *)
LEMMA AcknowledgeKeepsOrder ==
  ASSUME OrderInv, TypeOK', NEW i \in Instances, Acknowledge(i)
  PROVE  OrderInv'
<1>1. /\ UNCHANGED <<cmds, replies, pub, sub, shown, issued>>
      /\ acks \in [Instances -> Seq(Msg)] /\ acks[i] # <<>> /\ acks' = Pop(acks, i)
  BY DEF Acknowledge, redisClient, browser, counts, OrderInv, TypeOK
<1>2. \A k \in Instances : Elements(acks'[k]) \subseteq Elements(acks[k])
  BY <1>1, PopType
<1>3. Messages' \subseteq Messages
  BY <1>1, <1>2 DEF Messages
<1>4. MsgOrder'
  BY <1>1, <1>2, <1>3 DEF OrderInv, MsgOrder, Before
<1>5. issued' \in Nat /\ issued <= issued'
  BY <1>1 DEF OrderInv, TypeOK
<1>6. CmdOrder'
  BY <1>1, <1>3, <1>5, CmdOrderKept
<1> QED
  BY <1>4, <1>6 DEF OrderInv

(* One connection after another: s is handled before t.                    *)
LEMMA JoinIndex ==
  ASSUME NEW S, NEW s \in Seq(S), NEW t \in Seq(S), NEW l \in DOMAIN (s \o t)
  PROVE  \/ l \in DOMAIN s /\ (s \o t)[l] = s[l]
         \/ /\ l > Len(s) /\ l - Len(s) \in DOMAIN t
            /\ (s \o t)[l] = t[l - Len(s)]
OBVIOUS

LEMMA RisingJoin ==
  ASSUME NEW s \in Seq(Cmd), NEW t \in Seq(Cmd), Rising(s), Rising(t),
         \A c \in Elements(s), d \in Elements(t) : c.id # 0 /\ d.id # 0 => c.id < d.id
  PROVE  Rising(s \o t)
<1> DEFINE u == s \o t
<1> SUFFICES ASSUME NEW k \in DOMAIN u, NEW l \in DOMAIN u, k < l, u[k].id # 0, u[l].id # 0
             PROVE  u[k].id < u[l].id
  BY DEF Rising
<1>1. DOMAIN s = 1 .. Len(s) /\ DOMAIN t = 1 .. Len(t) /\ Len(s) \in Nat /\ k \in Nat /\ l \in Nat
  OBVIOUS
<1>2. \/ k \in DOMAIN s /\ u[k] = s[k]
      \/ k > Len(s) /\ k - Len(s) \in DOMAIN t /\ u[k] = t[k - Len(s)]
  BY JoinIndex
<1>3. \/ l \in DOMAIN s /\ u[l] = s[l]
      \/ l > Len(s) /\ l - Len(s) \in DOMAIN t /\ u[l] = t[l - Len(s)]
  BY JoinIndex
<1> HIDE DEF u
<1>4. CASE l \in DOMAIN s /\ u[l] = s[l]
  <2>1. k \in DOMAIN s /\ u[k] = s[k]
    BY <1>1, <1>2, <1>4
  <2> QED
    BY <1>4, <2>1 DEF Rising
<1>5. CASE l > Len(s) /\ l - Len(s) \in DOMAIN t /\ u[l] = t[l - Len(s)]
  <2>1. CASE k \in DOMAIN s /\ u[k] = s[k]
    BY <1>5, <2>1 DEF Elements
  <2>2. CASE k > Len(s) /\ k - Len(s) \in DOMAIN t /\ u[k] = t[k - Len(s)]
    <3>1. k - Len(s) < l - Len(s)
      BY <1>1
    <3> QED
      BY <1>5, <2>2, <3>1 DEF Rising
  <2> QED
    BY <1>2, <2>1, <2>2
<1> QED
  BY <1>3, <1>4, <1>5

LEMMA AscendingAgain ==
  ASSUME NEW s \in Seq(Msg), NEW t \in Seq(Msg), Ascending(t),
         Before(Elements(s), Elements(t))
  PROVE  Ascending(Again(s) \o t)
<1>1. /\ Again(s) \in Seq(Msg) /\ DOMAIN Again(s) = 1 .. Len(s) /\ Len(Again(s)) = Len(s)
      /\ DOMAIN t = 1 .. Len(t) /\ Len(s) \in Nat
  BY AgainType
<1> DEFINE a == Again(s)
           u == a \o t
<1> SUFFICES ASSUME NEW k \in DOMAIN u, NEW l \in DOMAIN u, k < l, Same(u[k], u[l])
             PROVE  u[k].id < u[l].id \/ u[l].again
  BY DEF Ascending
<1>2. \/ k \in DOMAIN a /\ u[k] = a[k]
      \/ k > Len(a) /\ k - Len(a) \in DOMAIN t /\ u[k] = t[k - Len(a)]
  BY <1>1, JoinIndex
<1>3. \/ l \in DOMAIN a /\ u[l] = a[l]
      \/ l > Len(a) /\ l - Len(a) \in DOMAIN t /\ u[l] = t[l - Len(a)]
  BY <1>1, JoinIndex
<1>4. k \in Nat /\ l \in Nat
  BY <1>1
<1>5. \A n \in DOMAIN a : /\ n \in 1 .. Len(s) /\ s[n] \in Elements(s)
                         /\ a[n].id = s[n].id /\ a[n].from = s[n].from
                         /\ a[n].count = s[n].count /\ a[n].again
  BY <1>1, AgainType DEF Elements
<1> HIDE DEF u, a
<1>6. CASE l \in DOMAIN a /\ u[l] = a[l]
  BY <1>5, <1>6
<1>7. CASE l > Len(a) /\ l - Len(a) \in DOMAIN t /\ u[l] = t[l - Len(a)]
  <2>1. CASE k \in DOMAIN a /\ u[k] = a[k]
    <3>1. t[l - Len(a)] \in Elements(t)
      BY <1>7 DEF Elements
    <3>2. Same(s[k], u[l])
      BY <1>5, <2>1 DEF Same
    <3> QED
      BY <1>5, <1>7, <2>1, <3>1, <3>2 DEF Before
  <2>2. CASE k > Len(a) /\ k - Len(a) \in DOMAIN t /\ u[k] = t[k - Len(a)]
    <3>1. Len(a) \in Nat
      BY <1>1 DEF a
    <3>2. k - Len(a) < l - Len(a)
      BY <1>4, <3>1
    <3> QED
      BY <1>7, <2>2, <3>2 DEF Ascending
  <2> QED
    BY <1>2, <2>1, <2>2
<1> QED
  BY <1>3, <1>6, <1>7

(* redisPub i sends acks[i] again, marked.                                 *)
LEMMA BreakPubKeepsOrder ==
  ASSUME OrderInv, TypeOK', NEW i \in Instances, BreakPub(i)
  PROVE  OrderInv'
<1> DEFINE a == Again(acks[i])
<1>1. /\ UNCHANGED <<cmds, replies, sub, shown, issued>>
      /\ pub[i] \in Seq(Msg) /\ acks[i] \in Seq(Msg)
      /\ acks'[i] = <<>> /\ pub'[i] = a \o pub[i]
      /\ \A k \in Instances : k # i => pub'[k] = pub[k] /\ acks'[k] = acks[k]
  BY DEF BreakPub, redisClient, browser, OrderInv, TypeOK
<1>2. \A m \in Elements(a) : /\ m.again
                            /\ \E n \in Elements(acks[i]) :
                                 m.id = n.id /\ m.from = n.from /\ m.count = n.count
  BY <1>1, AgainType DEF Elements
<1>3. Elements(pub'[i]) = Elements(a) \cup Elements(pub[i])
  BY <1>1, AgainType, JoinType
<1>4. Ascending(pub'[i])
  BY <1>1, AscendingAgain DEF OrderInv, MsgOrder
<1> HIDE DEF a
<1>5. \A k \in Instances : Elements(acks'[k]) \subseteq Elements(acks[k])
  BY <1>1, EmptyIsOrdered
<1>6. \A k \in Instances : \A m \in Elements(pub'[k]) :
        m \in Elements(pub[k]) \/ (k = i /\ m \in Elements(a))
  <2>1. \A k \in Instances : k # i => pub'[k] = pub[k]
    BY <1>1
  <2> QED
    BY <1>3, <2>1
<1>7. \A m \in Messages' : m \in Messages \/ m \in Elements(a)
  <2>1. \A k \in Instances : /\ Elements(pub'[k]) \subseteq Messages \cup Elements(a)
                             /\ Elements(acks'[k]) \subseteq Messages
    BY <1>5, <1>6 DEF Messages
  <2>2. \A k \in Instances : Elements(sub'[k]) \cup Elements(shown'[k]) \subseteq Messages
    BY <1>1 DEF Messages
  <2> QED
    BY <2>1, <2>2 DEF Messages
<1>8. Elements(acks[i]) \subseteq Messages
  BY DEF Messages
<1>9. \A m \in Messages' : \E n \in Messages :
        m.id = n.id /\ m.from = n.from /\ m.count = n.count
  BY <1>2, <1>7, <1>8
<1>10. \A k \in Instances : /\ Ascending(pub'[k])
                            /\ \A m \in Elements(pub'[k]) : m.from = k
                            /\ \A m \in Elements(acks'[k]) : m.from = k
  <2> SUFFICES ASSUME NEW k \in Instances
               PROVE  /\ Ascending(pub'[k])
                      /\ \A m \in Elements(pub'[k]) : m.from = k
                      /\ \A m \in Elements(acks'[k]) : m.from = k
    OBVIOUS
  <2>1. /\ Ascending(pub[k])
        /\ \A m \in Elements(pub[k]) : m.from = k
        /\ \A m \in Elements(acks[k]) : m.from = k
    BY DEF OrderInv, MsgOrder
  <2>2. Ascending(pub'[k])
    <3>1. k # i => pub'[k] = pub[k]
      BY <1>1
    <3> QED
      BY <1>4, <2>1, <3>1
  <2>3. k = i => \A m \in Elements(a) : m.from = k
    BY <1>2, <2>1
  <2> QED
    BY <1>5, <1>6, <2>1, <2>2, <2>3
<1>11. \A k \in Instances : Before(Elements(acks'[k]), Elements(pub'[k]))
  BY <1>2, <1>5, <1>6 DEF OrderInv, MsgOrder, Before
<1>12. \A j, k \in Instances : /\ Before(Elements(shown[j]), Elements(pub'[k]))
                               /\ Before(Elements(sub[j]), Elements(pub'[k]))
  BY <1>2, <1>6 DEF OrderInv, MsgOrder, Before
<1>13. \A m \in Messages' : m.id <= issued
  BY <1>9 DEF OrderInv, MsgOrder
<1>14. MsgOrder'
  BY <1>1, <1>10, <1>11, <1>12, <1>13 DEF OrderInv, MsgOrder
<1>15. CmdOrder'
  BY <1>1, <1>9 DEF OrderInv, CmdOrder, Pending
<1> QED
  BY <1>14, <1>15 DEF OrderInv

(* redisClient i sends its commands again in their order.                  *)
LEMMA BreakClientKeepsOrder ==
  ASSUME OrderInv, TypeOK', NEW i \in Instances, BreakClient(i)
  PROVE  OrderInv'
<1>1. /\ UNCHANGED <<channel, shown, issued>>
      /\ cmds[i] \in Seq(Cmd) /\ replies[i] \in Seq(Cmd)
      /\ replies'[i] = <<>> /\ cmds'[i] = replies[i] \o cmds[i]
      /\ \A k \in Instances : k # i => cmds'[k] = cmds[k] /\ replies'[k] = replies[k]
  BY DEF BreakClient, browser, OrderInv, TypeOK
<1>2. Elements(cmds'[i]) = Elements(replies[i]) \cup Elements(cmds[i])
  BY <1>1, JoinType
<1>3. Rising(cmds'[i])
  BY <1>1, RisingJoin DEF OrderInv, CmdOrder
<1>4. \A k \in Instances : Pending(k)' = Pending(k)
  BY <1>1, <1>2, EmptyIsOrdered DEF Pending
<1>5. \A k \in Instances : /\ Rising(replies'[k]) /\ Rising(cmds'[k])
                           /\ \A c \in Elements(replies'[k]), d \in Elements(cmds'[k]) :
                                c.id # 0 /\ d.id # 0 => c.id < d.id
  BY <1>1, <1>3, EmptyIsOrdered DEF OrderInv, CmdOrder
<1>6. Messages' = Messages
  BY <1>1 DEF Messages, channel
<1>7. CmdOrder'
  BY <1>1, <1>4, <1>5, <1>6 DEF OrderInv, CmdOrder
<1>8. issued' \in Nat /\ issued <= issued'
  BY <1>1 DEF OrderInv, TypeOK
<1> QED
  BY <1>1, <1>7, <1>8, MsgOrderKept DEF OrderInv

(* A restart empties queues, and a break that of redisSub.                 *)
LEMMA CrashKeepsOrder ==
  ASSUME OrderInv, TypeOK', NEW i \in Instances, Crash(i) \/ BreakSub(i)
  PROVE  OrderInv'
<1>1. \A k \in Instances : /\ pub'[k] = pub[k] \/ pub'[k] = <<>>
                           /\ acks'[k] = acks[k] \/ acks'[k] = <<>>
                           /\ sub'[k] = sub[k] \/ sub'[k] = <<>>
                           /\ shown'[k] = shown[k] \/ shown'[k] = <<>>
                           /\ \/ replies'[k] = replies[k] /\ cmds'[k] = cmds[k]
                              \/ replies'[k] = <<>> /\ cmds'[k] = <<>>
  <2>1. CASE Crash(i)
    BY <2>1 DEF Crash, OrderInv, TypeOK
  <2>2. CASE BreakSub(i)
    BY <2>2 DEF BreakSub, redisClient, OrderInv, TypeOK
  <2> QED
    BY <2>1, <2>2
<1>2. \A k \in Instances : /\ Elements(pub'[k]) \subseteq Elements(pub[k])
                           /\ Elements(acks'[k]) \subseteq Elements(acks[k])
                           /\ Elements(sub'[k]) \subseteq Elements(sub[k])
                           /\ Elements(shown'[k]) \subseteq Elements(shown[k])
                           /\ Ascending(pub'[k]) /\ Ascending(sub'[k]) /\ Ascending(shown'[k])
  BY <1>1, EmptyIsOrdered DEF OrderInv, MsgOrder
<1>3. Messages' \subseteq Messages
  BY <1>2 DEF Messages
<1>4. issued' = issued /\ issued' \in Nat /\ issued <= issued'
  BY DEF Crash, BreakSub, OrderInv, TypeOK
<1>5. MsgOrder'
  BY <1>2, <1>3, <1>4 DEF OrderInv, MsgOrder, Before
<1>6. CmdOrder'
  BY <1>1, <1>3, <1>4, CmdOrderKept
<1> QED
  BY <1>5, <1>6 DEF OrderInv

LEMMA NextKeepsOrderInv == OrderInv /\ [Next]_vars => OrderInv'
<1> SUFFICES ASSUME OrderInv, [Next]_vars PROVE OrderInv'
  OBVIOUS
<1>1. TypeOK'
  BY NextKeepsType DEF OrderInv
<1>2. ASSUME UNCHANGED <<cmds, replies, channel, shown, issued>>
      PROVE  OrderInv'
  <2>1. issued' \in Nat /\ issued <= issued' /\ Messages' = Messages
    BY <1>2 DEF OrderInv, TypeOK, Messages, channel
  <2> QED
    BY <1>1, <1>2, <2>1, MsgOrderKept, CmdOrderKept DEF OrderInv
<1>3. CASE UNCHANGED vars
  BY <1>2, <1>3 DEF vars, redisClient, browser, counts
<1>4. ASSUME NEW i \in Instances, Subscribe(i) \/ Listen(i) \/ Resubscribe(i)
      PROVE  OrderInv'
  BY <1>2, <1>4 DEF Subscribe, Listen, Resubscribe, redisClient, browser, counts
<1>5. CASE Next
  BY <1>1, <1>4, <1>5, CommandKeepsOrder, ExecuteKeepsOrder, HandleReplyKeepsOrder,
     EmitEventKeepsOrder, PublishKeepsOrder, TakeKeepsOrder, AcknowledgeKeepsOrder,
     BreakPubKeepsOrder, BreakClientKeepsOrder, CrashKeepsOrder DEF Next
<1> QED
  BY <1>3, <1>5

LEMMA InitOrderInv == Init => OrderInv
<1> SUFFICES ASSUME Init PROVE OrderInv
  OBVIOUS
<1>1. \A i \in Instances : /\ pub[i] = <<>> /\ acks[i] = <<>> /\ sub[i] = <<>>
                           /\ shown[i] = <<>> /\ replies[i] = <<>> /\ cmds[i] = <<>>
  BY DEF Init
<1>2. Messages = {} /\ \A i \in Instances : Pending(i) = {}
  BY <1>1, EmptyIsOrdered DEF Messages, Pending
<1>3. MsgOrder /\ CmdOrder
  BY <1>1, <1>2, EmptyIsOrdered DEF MsgOrder, CmdOrder, Before
<1> QED
  BY <1>3, InitType DEF OrderInv

(* The browsers of every instance see the events of one publisher in the   *)
(* order of its emits, and its notifications likewise, except those that   *)
(* are published again after redisPub broke: redisClient, redisPub and the *)
(* subscription each keep their order, also when they connect again, and a *)
(* notification is published when its number comes.                        *)
THEOREM OrderIsKept == Spec => []OrderPerPublisher
<1>1. OrderInv => OrderPerPublisher
  BY DEF OrderInv, MsgOrder, Ascending, Same, OrderPerPublisher
<1> QED
  BY <1>1, InitOrderInv, NextKeepsOrderInv, PTL DEF Spec

-----------------------------------------------------------------------------
(* The last word: with one notifier i, the last number on its way to i's   *)
(* browsers is the counter.  It is in the last reply of redisClient; when  *)
(* no INCR is answered there, in the last numbered message of redisPub;    *)
(* when there is none either, in the last of the subscription and of the   *)
(* messages redisPub may send again; and at last in told.                  *)
Incr(s) == \E k \in DOMAIN s : s[k].id # 0
Fresh(s, n) == \A k \in DOMAIN s :
                 s[k].n = n \/ \E l \in DOMAIN s : k < l /\ s[l].id # 0

Says(s) == \E k \in DOMAIN s : s[k].count # NoCount
LastIs(s, n) == \A k \in DOMAIN s :
                  \/ s[k].count \in {NoCount, n}
                  \/ \E l \in DOMAIN s : k < l /\ s[l].count # NoCount

(* Nobody else sends INCR, or publishes a number.                          *)
Foreign(i) == \A k \in Instances : k # i =>
                /\ ~Incr(cmds[k]) /\ ~Incr(replies[k])
                /\ ~Says(pub[k]) /\ ~Says(acks[k])

(* An INCR that is still to be executed will have the last word.           *)
Word(i) ==
  ~Incr(cmds[i]) =>
    /\ Fresh(replies[i], counter)
    /\ ~Incr(replies[i]) =>
         /\ LastIs(pub[i], counter)
         /\ ~Says(pub[i]) =>
              /\ LastIs(acks[i], counter) /\ LastIs(sub[i], counter)
              /\ ~Says(sub[i]) /\ i \notin gap => told[i] \in {NoCount, counter}

Silent(i) == /\ ~Running(i) => /\ told[i] = NoCount /\ replies[i] = <<>> /\ cmds[i] = <<>>
                               /\ ~Says(sub[i]) /\ ~Says(pub[i]) /\ ~Says(acks[i])
             /\ phase[i] = "deaf" => i \in gap /\ sub[i] = <<>>

Settling(i) == Foreign(i) /\ Word(i) /\ Silent(i)

SoleInv == TypeOK /\ \A i \in Instances : notifiers \subseteq {i} => Settling(i)

LEMMA NothingSaid ==
  /\ ~Incr(<<>>) /\ ~Says(<<>>)
  /\ \A n : Fresh(<<>>, n) /\ LastIs(<<>>, n)
BY DEF Incr, Says, Fresh, LastIs

(* A command or a message at the end of its connection ...                 *)
LEMMA CmdAppend ==
  ASSUME NEW s \in Seq(Cmd), NEW c \in Cmd
  PROVE  /\ Incr(Append(s, c)) <=> Incr(s) \/ c.id # 0
         /\ \A n : c.n = n /\ (c.id # 0 \/ Fresh(s, n)) => Fresh(Append(s, c), n)
<1> DEFINE t == Append(s, c)
<1>1. /\ DOMAIN t = DOMAIN s \cup {Len(s) + 1} /\ t[Len(s) + 1] = c
      /\ \A k \in DOMAIN s : t[k] = s[k] /\ k < Len(s) + 1
      /\ DOMAIN s = 1 .. Len(s) /\ Len(s) \in Nat
  OBVIOUS
<1> HIDE DEF t
<1>2. Incr(t) <=> Incr(s) \/ c.id # 0
  BY <1>1 DEF Incr
<1>3. ASSUME NEW n, c.n = n, c.id # 0 \/ Fresh(s, n), NEW k \in DOMAIN t
      PROVE  t[k].n = n \/ \E l \in DOMAIN t : k < l /\ t[l].id # 0
  BY <1>1, <1>3 DEF Fresh
<1> QED
  BY <1>2, <1>3 DEF t, Fresh

LEMMA MsgAppend ==
  ASSUME NEW s \in Seq(Msg), NEW m \in Msg
  PROVE  /\ Says(Append(s, m)) <=> Says(s) \/ m.count # NoCount
         /\ \A n \in Nat : \/ m.count = NoCount /\ LastIs(s, n)
                           \/ m.count = n
                           => LastIs(Append(s, m), n)
<1> DEFINE t == Append(s, m)
<1>1. /\ DOMAIN t = DOMAIN s \cup {Len(s) + 1} /\ t[Len(s) + 1] = m
      /\ \A k \in DOMAIN s : t[k] = s[k] /\ k < Len(s) + 1
      /\ DOMAIN s = 1 .. Len(s) /\ Len(s) \in Nat
  OBVIOUS
<1> HIDE DEF t
<1>2. Says(t) <=> Says(s) \/ m.count # NoCount
  BY <1>1 DEF Says
<1>3. ASSUME NEW n \in Nat, (m.count = NoCount /\ LastIs(s, n)) \/ m.count = n,
             NEW k \in DOMAIN t
      PROVE  \/ t[k].count \in {NoCount, n}
             \/ \E l \in DOMAIN t : k < l /\ t[l].count # NoCount
  <2>1. CASE k = Len(s) + 1
    BY <1>1, <1>3, <2>1
  <2>2. CASE k \in DOMAIN s /\ m.count = n
    <3>1. m.count # NoCount
      BY <1>3, <2>2
    <3> QED
      BY <1>1, <2>2, <3>1
  <2>3. CASE k \in DOMAIN s /\ m.count = NoCount /\ LastIs(s, n)
    BY <1>1, <2>3 DEF LastIs
  <2> QED
    BY <1>1, <1>3, <2>1, <2>2, <2>3
<1> QED
  BY <1>2, <1>3 DEF t, LastIs

(* ... and one that leaves at its front.                                   *)
LEMMA CmdTail ==
  ASSUME NEW s \in Seq(Cmd), s # <<>>
  PROVE  /\ Incr(s) <=> Incr(Tail(s)) \/ Head(s).id # 0
         /\ \A n : Fresh(s, n) => /\ Fresh(Tail(s), n)
                                  /\ ~Incr(Tail(s)) => Head(s).n = n
<1> DEFINE t == Tail(s)
           h == Head(s)
<1>1. /\ Len(s) \in Nat /\ DOMAIN s = 1 .. Len(s) /\ 1 \in DOMAIN s /\ h = s[1]
      /\ DOMAIN t = 1 .. (Len(s) - 1)
      /\ \A k \in DOMAIN t : t[k] = s[k + 1] /\ k + 1 \in DOMAIN s
  OBVIOUS
<1> HIDE DEF t, h
<1>2. \A k \in DOMAIN s : k = 1 \/ (k - 1 \in DOMAIN t /\ t[k - 1] = s[k])
  <2>1. ASSUME NEW k \in DOMAIN s, k # 1 PROVE k - 1 \in DOMAIN t /\ t[k - 1] = s[k]
    <3>1. k - 1 \in DOMAIN t /\ (k - 1) + 1 = k
      BY <1>1, <2>1
    <3> QED
      BY <1>1, <3>1
  <2> QED
    BY <2>1
<1>3. Incr(s) <=> Incr(t) \/ h.id # 0
  BY <1>1, <1>2 DEF Incr
<1>4. ASSUME NEW n, Fresh(s, n)
      PROVE  Fresh(t, n) /\ (~Incr(t) => h.n = n)
  <2>1. ASSUME NEW k \in DOMAIN t
        PROVE  t[k].n = n \/ \E l \in DOMAIN t : k < l /\ t[l].id # 0
    <3>1. k + 1 \in DOMAIN s /\ t[k] = s[k + 1] /\ k \in Nat
      BY <1>1
    <3>2. CASE s[k + 1].n = n
      BY <3>1, <3>2
    <3>3. ASSUME NEW l \in DOMAIN s, k + 1 < l, s[l].id # 0
          PROVE  l - 1 \in DOMAIN t /\ k < l - 1 /\ t[l - 1].id # 0
      <4>1. l # 1 /\ k < l - 1
        BY <1>1, <3>1, <3>3
      <4> QED
        BY <1>2, <3>3, <4>1
    <3> QED
      BY <1>4, <3>1, <3>2, <3>3 DEF Fresh
  <2>2. ASSUME ~Incr(t) PROVE h.n = n
    <3>1. \A l \in DOMAIN s : 1 < l => s[l].id = 0
      BY <1>1, <1>2, <2>2 DEF Incr
    <3> QED
      BY <1>1, <1>4, <3>1 DEF Fresh
  <2> QED
    BY <2>1, <2>2 DEF Fresh
<1> QED
  BY <1>3, <1>4 DEF t, h

LEMMA MsgTail ==
  ASSUME NEW s \in Seq(Msg), s # <<>>
  PROVE  /\ Says(s) <=> Says(Tail(s)) \/ Head(s).count # NoCount
         /\ \A n : LastIs(s, n) => /\ LastIs(Tail(s), n)
                                   /\ ~Says(Tail(s)) => Head(s).count \in {NoCount, n}
<1> DEFINE t == Tail(s)
           h == Head(s)
<1>1. /\ Len(s) \in Nat /\ DOMAIN s = 1 .. Len(s) /\ 1 \in DOMAIN s /\ h = s[1]
      /\ DOMAIN t = 1 .. (Len(s) - 1)
      /\ \A k \in DOMAIN t : t[k] = s[k + 1] /\ k + 1 \in DOMAIN s
  OBVIOUS
<1> HIDE DEF t, h
<1>2. \A k \in DOMAIN s : k = 1 \/ (k - 1 \in DOMAIN t /\ t[k - 1] = s[k])
  <2>1. ASSUME NEW k \in DOMAIN s, k # 1 PROVE k - 1 \in DOMAIN t /\ t[k - 1] = s[k]
    <3>1. k - 1 \in DOMAIN t /\ (k - 1) + 1 = k
      BY <1>1, <2>1
    <3> QED
      BY <1>1, <3>1
  <2> QED
    BY <2>1
<1>3. Says(s) <=> Says(t) \/ h.count # NoCount
  BY <1>1, <1>2 DEF Says
<1>4. ASSUME NEW n, LastIs(s, n)
      PROVE  LastIs(t, n) /\ (~Says(t) => h.count \in {NoCount, n})
  <2>1. ASSUME NEW k \in DOMAIN t
        PROVE  \/ t[k].count \in {NoCount, n}
               \/ \E l \in DOMAIN t : k < l /\ t[l].count # NoCount
    <3>1. k + 1 \in DOMAIN s /\ t[k] = s[k + 1] /\ k \in Nat
      BY <1>1
    <3>2. CASE s[k + 1].count \in {NoCount, n}
      BY <3>1, <3>2
    <3>3. ASSUME NEW l \in DOMAIN s, k + 1 < l, s[l].count # NoCount
          PROVE  l - 1 \in DOMAIN t /\ k < l - 1 /\ t[l - 1].count # NoCount
      <4>1. l # 1 /\ k < l - 1
        BY <1>1, <3>1, <3>3
      <4> QED
        BY <1>2, <3>3, <4>1
    <3> QED
      BY <1>4, <3>1, <3>2, <3>3 DEF LastIs
  <2>2. ASSUME ~Says(t) PROVE h.count \in {NoCount, n}
    <3>1. \A l \in DOMAIN s : 1 < l => s[l].count = NoCount
      BY <1>1, <1>2, <2>2 DEF Says
    <3> QED
      BY <1>1, <1>4, <3>1 DEF LastIs
  <2> QED
    BY <2>1, <2>2 DEF LastIs
<1> QED
  BY <1>3, <1>4 DEF t, h

(* Commands and messages that are sent again go before the others.         *)
LEMMA CmdJoin ==
  ASSUME NEW s \in Seq(Cmd), NEW t \in Seq(Cmd), Incr(s) \/ Incr(t)
  PROVE  Incr(s \o t)
<1> DEFINE u == s \o t
<1>1. /\ Len(s) \in Nat /\ DOMAIN s = 1 .. Len(s) /\ DOMAIN t = 1 .. Len(t) /\ Len(t) \in Nat
      /\ DOMAIN u = 1 .. (Len(s) + Len(t))
      /\ \A k \in DOMAIN s : u[k] = s[k]
      /\ \A k \in DOMAIN t : u[Len(s) + k] = t[k]
  OBVIOUS
<1> HIDE DEF u
<1>2. CASE Incr(s)
  BY <1>1, <1>2 DEF Incr, u
<1>3. CASE Incr(t)
  <2>1. PICK k \in DOMAIN t : t[k].id # 0
    BY <1>3 DEF Incr
  <2>2. Len(s) + k \in DOMAIN u
    BY <1>1
  <2> QED
    BY <1>1, <2>1, <2>2 DEF Incr, u
<1> QED
  BY <1>2, <1>3

LEMMA MsgJoin ==
  ASSUME NEW s \in Seq(Msg), NEW t \in Seq(Msg)
  PROVE  /\ Says(Again(s) \o t) <=> Says(s) \/ Says(t)
         /\ \A n : LastIs(t, n) /\ (~Says(t) => LastIs(s, n)) => LastIs(Again(s) \o t, n)
<1> DEFINE a == Again(s)
           u == a \o t
<1>1. a \in Seq(Msg) /\ Len(a) = Len(s) /\ \A k \in 1 .. Len(s) : a[k].count = s[k].count
  BY AgainType
<1> HIDE DEF a
<1>2. /\ Len(a) \in Nat /\ DOMAIN a = 1 .. Len(a) /\ DOMAIN t = 1 .. Len(t) /\ Len(t) \in Nat
      /\ DOMAIN s = 1 .. Len(s)
      /\ DOMAIN u = 1 .. (Len(a) + Len(t))
      /\ \A k \in DOMAIN a : u[k] = a[k]
      /\ \A k \in DOMAIN t : u[Len(a) + k] = t[k]
  <2>1. a \in Seq(Msg) /\ t \in Seq(Msg) /\ s \in Seq(Msg)
    BY <1>1
  <2>2. /\ Len(a) \in Nat /\ DOMAIN a = 1 .. Len(a) /\ DOMAIN t = 1 .. Len(t)
        /\ Len(t) \in Nat /\ DOMAIN s = 1 .. Len(s)
    BY <2>1
  <2>3. u \in Seq(Msg) /\ Len(u) = Len(a) + Len(t)
    BY <2>1
  <2>4. \A k \in 1 .. Len(a) : u[k] = a[k]
    BY <2>1
  <2>5. \A k \in 1 .. Len(t) : u[Len(a) + k] = t[k]
    BY <2>1
  <2>6. DOMAIN u = 1 .. Len(u)
    BY <2>3
  <2> QED
    BY <2>2, <2>3, <2>4, <2>5, <2>6
<1>3. \A k \in DOMAIN u : \/ k \in DOMAIN a /\ u[k] = a[k]
                          \/ /\ k > Len(a) /\ k - Len(a) \in DOMAIN t
                             /\ u[k] = t[k - Len(a)]
  BY <1>1, JoinIndex
<1> HIDE DEF u
<1>4. \A k \in DOMAIN s : k \in DOMAIN u /\ u[k].count = s[k].count
  BY <1>1, <1>2
<1>5. \A k \in DOMAIN t : Len(a) + k \in DOMAIN u /\ u[Len(a) + k].count = t[k].count
  BY <1>2
<1>6. \A k \in DOMAIN u :
        \/ k \in DOMAIN s /\ u[k].count = s[k].count
        \/ k > Len(a) /\ k - Len(a) \in DOMAIN t /\ u[k].count = t[k - Len(a)].count
  BY <1>1, <1>2, <1>3
<1>7. Says(u) <=> Says(s) \/ Says(t)
  BY <1>4, <1>5, <1>6 DEF Says
<1>8. ASSUME NEW n, LastIs(t, n), ~Says(t) => LastIs(s, n), NEW k \in DOMAIN u
      PROVE  \/ u[k].count \in {NoCount, n}
             \/ \E l \in DOMAIN u : k < l /\ u[l].count # NoCount
  <2>1. CASE k \in DOMAIN s /\ u[k].count = s[k].count /\ Says(t)
    <3>1. PICK l \in DOMAIN t : t[l].count # NoCount
      BY <2>1 DEF Says
    <3>2. Len(a) + l \in DOMAIN u /\ k < Len(a) + l /\ u[Len(a) + l].count # NoCount
      BY <1>1, <1>2, <1>5, <2>1, <3>1
    <3> QED
      BY <3>2
  <2>2. CASE k \in DOMAIN s /\ u[k].count = s[k].count /\ ~Says(t)
    BY <1>4, <1>8, <2>2 DEF LastIs
  <2>3. CASE k > Len(a) /\ k - Len(a) \in DOMAIN t /\ u[k].count = t[k - Len(a)].count
    <3>1. CASE t[k - Len(a)].count \in {NoCount, n}
      BY <2>3, <3>1
    <3>2. ASSUME NEW l \in DOMAIN t, k - Len(a) < l, t[l].count # NoCount
          PROVE  Len(a) + l \in DOMAIN u /\ k < Len(a) + l /\ u[Len(a) + l].count # NoCount
      BY <1>2, <1>5, <3>2
    <3> QED
      BY <1>8, <2>3, <3>1, <3>2 DEF LastIs
  <2> QED
    BY <1>6, <2>1, <2>2, <2>3
<1> QED
  BY <1>7, <1>8 DEF u, a, LastIs

(* A step without a number that concerns i.                                *)
LEMMA SettlingKept ==
  ASSUME NEW i \in Instances, Settling(i), Foreign(i)', counter' = counter,
         told'[i] = told[i], i \in gap' <=> i \in gap, replies'[i] = replies[i],
         Incr(cmds[i]) => Incr(cmds'[i]), ~Running(i) => cmds'[i] = cmds[i],
         Says(pub'[i]) <=> Says(pub[i]),
         LastIs(pub[i], counter) => LastIs(pub'[i], counter),
         Says(acks'[i]) => Says(acks[i]),
         LastIs(acks[i], counter) => LastIs(acks'[i], counter),
         Says(sub'[i]) <=> Says(sub[i]),
         LastIs(sub[i], counter) => LastIs(sub'[i], counter),
         Running(i) => Running(i)',
         phase'[i] = "deaf" => phase[i] = "deaf" /\ sub'[i] = sub[i]
  PROVE  Settling(i)'
<1>1. Word(i)'
  BY DEF Settling, Word
<1>2. Silent(i)'
  BY DEF Settling, Silent
<1> QED
  BY <1>1, <1>2 DEF Settling

(* Only i sends INCR and numbers messages, as long as only i notifies.     *)
LEMMA ForeignKept ==
  ASSUME TypeOK, NEW i \in Instances, Foreign(i), NEW k \in Instances,
         notifiers' \subseteq {i},
         \/ Subscribe(k) \/ Listen(k) \/ Connect(k) \/ EmitEvent(k) \/ Notify(k)
         \/ Execute(k) \/ HandleReply(k) \/ Publish(k) \/ Receive(k) \/ Miss(k)
         \/ Acknowledge(k) \/ BreakSub(k) \/ Resubscribe(k) \/ BreakPub(k)
         \/ BreakClient(k) \/ Crash(k)
  PROVE  Foreign(i)'
<1>1. /\ cmds \in [Instances -> Seq(Cmd)] /\ replies \in [Instances -> Seq(Cmd)]
      /\ pub \in [Instances -> Seq(Msg)] /\ acks \in [Instances -> Seq(Msg)]
      /\ issued \in Nat /\ counter \in Nat
  BY DEF TypeOK
<1>2. \A e \in Instances : e # k => /\ cmds'[e] = cmds[e] /\ replies'[e] = replies[e]
                                    /\ pub'[e] = pub[e] /\ acks'[e] = acks[e]
  BY <1>1 DEF Subscribe, Listen, Connect, EmitEvent, Notify, Execute, HandleReply, Publish,
     Receive, Miss, Acknowledge, BreakSub, Resubscribe, BreakPub, BreakClient, Crash, Push,
     Pop, redisClient, channel
<1>3. ASSUME k # i
      PROVE  /\ ~Incr(cmds'[k]) /\ ~Incr(replies'[k])
             /\ ~Says(pub'[k]) /\ ~Says(acks'[k])
  <2>1. /\ ~Incr(cmds[k]) /\ ~Incr(replies[k]) /\ ~Says(pub[k]) /\ ~Says(acks[k])
    BY <1>3 DEF Foreign
  <2>2. CASE UNCHANGED <<cmds, replies, pub, acks>>
    BY <2>1, <2>2
  <2>3. CASE Connect(k)
    <3> DEFINE x == [id |-> 0, n |-> 0]
    <3>1. x \in Cmd /\ x.id = 0
      BY DEF Cmd
    <3>2. cmds'[k] = Append(cmds[k], x) /\ cmds[k] \in Seq(Cmd) /\ UNCHANGED <<replies, pub, acks>>
      BY <1>1, <2>3 DEF Connect, Push, channel
    <3> HIDE DEF x
    <3>3. ~Incr(cmds'[k])
      BY <2>1, <3>1, <3>2, CmdAppend
    <3> QED
      BY <2>1, <3>2, <3>3
  <2>4. CASE EmitEvent(k)
    <3> DEFINE x == Message(issued', k, NoCount)
    <3>1. /\ UNCHANGED <<cmds, replies, acks>> /\ issued' \in Nat
          /\ pub'[k] = Append(pub[k], x) /\ pub[k] \in Seq(Msg)
      BY <1>1, <2>4 DEF EmitEvent, Issue, Push, redisClient
    <3>2. x \in Msg /\ x.count = NoCount
      BY <3>1 DEF Message, Msg
    <3> HIDE DEF x
    <3>3. ~Says(pub'[k])
      BY <2>1, <3>1, <3>2, MsgAppend
    <3> QED
      BY <2>1, <3>1, <3>3
  <2>5. CASE Notify(k)
    BY <1>3, <2>5 DEF Notify
  <2>6. CASE Execute(k)
    <3> DEFINE c == Head(cmds[k])
               x == [c EXCEPT !.n = counter']
    <3>1. /\ cmds[k] # <<>> /\ cmds[k] \in Seq(Cmd) /\ replies[k] \in Seq(Cmd)
          /\ replies'[k] = Append(replies[k], x) /\ cmds'[k] = Tail(cmds[k])
          /\ UNCHANGED <<pub, acks>> /\ counter' \in Nat
      BY <1>1, <2>6 DEF Execute, channel, Push, Pop
    <3>2. ~Incr(cmds'[k]) /\ c.id = 0
      BY <2>1, <3>1, CmdTail
    <3>3. c \in Cmd
      BY <3>1
    <3>4. x \in Cmd /\ x.id = 0
      BY <3>1, <3>2, <3>3 DEF Cmd
    <3>5. replies'[k] = Append(replies[k], x)
      BY <3>1
    <3> HIDE DEF x
    <3>6. ~Incr(replies'[k])
      BY <2>1, <3>1, <3>4, <3>5, CmdAppend
    <3> QED
      BY <2>1, <3>1, <3>2, <3>6
  <2>7. CASE HandleReply(k)
    <3>1. /\ replies[k] # <<>> /\ replies[k] \in Seq(Cmd)
          /\ replies'[k] = Tail(replies[k]) /\ UNCHANGED <<cmds, acks>>
      BY <1>1, <2>7 DEF HandleReply, Pop
    <3>2. ~Incr(replies'[k]) /\ Head(replies[k]).id = 0
      BY <2>1, <3>1, CmdTail
    <3>3. UNCHANGED pub
      BY <2>7, <3>2 DEF HandleReply
    <3> QED
      BY <2>1, <3>1, <3>2, <3>3
  <2>8. CASE Publish(k)
    <3> DEFINE m == Head(pub[k])
    <3>1. /\ pub[k] # <<>> /\ pub[k] \in Seq(Msg) /\ pub'[k] = Tail(pub[k])
          /\ acks[k] \in Seq(Msg) /\ acks'[k] = Append(acks[k], m)
          /\ UNCHANGED <<cmds, replies>>
      BY <1>1, <2>8 DEF Publish, Push, Pop, redisClient
    <3>2. ~Says(pub'[k]) /\ m.count = NoCount
      BY <2>1, <3>1, MsgTail
    <3>3. m \in Msg
      BY <3>1
    <3> HIDE DEF m
    <3>4. ~Says(acks'[k])
      BY <2>1, <3>1, <3>2, <3>3, MsgAppend
    <3> QED
      BY <2>1, <3>1, <3>2, <3>4
  <2>9. CASE Acknowledge(k)
    <3>1. /\ acks[k] # <<>> /\ acks[k] \in Seq(Msg) /\ acks'[k] = Tail(acks[k])
          /\ UNCHANGED <<cmds, replies, pub>>
      BY <1>1, <2>9 DEF Acknowledge, Pop, redisClient
    <3> QED
      BY <2>1, <3>1, MsgTail
  <2>10. CASE BreakPub(k)
    <3>1. /\ acks[k] \in Seq(Msg) /\ pub[k] \in Seq(Msg) /\ acks'[k] = <<>>
          /\ pub'[k] = Again(acks[k]) \o pub[k] /\ UNCHANGED <<cmds, replies>>
      BY <1>1, <2>10 DEF BreakPub, redisClient
    <3>2. ~Says(pub'[k])
      BY <2>1, <3>1, MsgJoin
    <3> QED
      BY <2>1, <3>1, <3>2, NothingSaid
  <2>11. CASE BreakClient(k)
    <3>1. /\ cmds[k] \in Seq(Cmd) /\ replies[k] \in Seq(Cmd) /\ replies'[k] = <<>>
          /\ cmds'[k] = replies[k] \o cmds[k] /\ UNCHANGED <<pub, acks>>
      BY <1>1, <2>11 DEF BreakClient, channel
    <3>2. \A l \in DOMAIN cmds'[k] : cmds'[k][l].id = 0
      <4> SUFFICES ASSUME NEW l \in DOMAIN (replies[k] \o cmds[k])
                   PROVE  (replies[k] \o cmds[k])[l].id = 0
        BY <3>1
      <4>1. \/ l \in DOMAIN replies[k] /\ (replies[k] \o cmds[k])[l] = replies[k][l]
            \/ /\ l > Len(replies[k]) /\ l - Len(replies[k]) \in DOMAIN cmds[k]
               /\ (replies[k] \o cmds[k])[l] = cmds[k][l - Len(replies[k])]
        BY <3>1, JoinIndex
      <4> QED
        BY <2>1, <4>1 DEF Incr
    <3> QED
      BY <2>1, <3>1, <3>2, NothingSaid DEF Incr
  <2>12. CASE Crash(k)
    <3>1. cmds'[k] = <<>> /\ replies'[k] = <<>> /\ pub'[k] = <<>> /\ acks'[k] = <<>>
      BY <1>1, <2>12 DEF Crash
    <3> QED
      BY <3>1, NothingSaid
  <2> QED
    BY <2>2, <2>3, <2>4, <2>5, <2>6, <2>7, <2>8, <2>9, <2>10, <2>11, <2>12
       DEF Subscribe, Listen, Receive, Miss, BreakSub, Resubscribe, redisClient, channel
<1> QED
  BY <1>2, <1>3 DEF Foreign

(* Redis answers i: an INCR has the last word, a GET is up to date.        *)
LEMMA ExecuteKeepsSettling ==
  ASSUME TypeOK, TypeOK', NEW i \in Instances, Settling(i), Foreign(i)', Execute(i)
  PROVE  Settling(i)'
<1> DEFINE c == Head(cmds[i])
           x == [c EXCEPT !.n = counter']
<1>1. /\ cmds[i] # <<>> /\ UNCHANGED <<phase, channel, browser>>
      /\ counter' = IF c.id = 0 THEN counter ELSE counter + 1
      /\ counter \in Nat /\ counter' \in Nat
      /\ cmds[i] \in Seq(Cmd) /\ replies[i] \in Seq(Cmd) /\ cmds'[i] = Tail(cmds[i])
      /\ replies'[i] = Append(replies[i], x)
  BY DEF Execute, TypeOK, Push, Pop
<1>2. Running(i) /\ c \in Cmd
  BY <1>1 DEF Settling, Silent
<1>3. x \in Cmd /\ x.id = c.id /\ x.n = counter'
  BY <1>1, <1>2 DEF Cmd
<1>4. Incr(cmds[i]) <=> Incr(cmds'[i]) \/ c.id # 0
  BY <1>1, CmdTail
<1>5. replies'[i] = Append(replies[i], x)
  BY <1>1
<1> HIDE DEF x, c
<1>6. /\ Incr(replies'[i]) <=> Incr(replies[i]) \/ c.id # 0
      /\ c.id # 0 \/ Fresh(replies[i], counter') => Fresh(replies'[i], counter')
  BY <1>1, <1>3, <1>5, CmdAppend
<1>7. Word(i)'
  <2>1. CASE c.id # 0
    BY <1>6, <2>1 DEF Word
  <2>2. CASE c.id = 0
    BY <1>1, <1>4, <1>6, <2>2 DEF Settling, Word, channel, browser
  <2> QED
    BY <2>1, <2>2
<1>8. Silent(i)'
  BY <1>1, <1>2 DEF Settling, Silent, Running, channel, browser
<1> QED
  BY <1>7, <1>8 DEF Settling

(* A reply of GET moves to the browsers, the number of an INCR to redisPub. *)
LEMMA HandleReplyKeepsSettling ==
  ASSUME TypeOK, TypeOK', NEW i \in Instances, Settling(i), Foreign(i)', HandleReply(i)
  PROVE  Settling(i)'
<1> DEFINE R == replies[i]
           c == Head(R)
           m == Message(c.id, i, c.n)
<1>1. /\ R # <<>> /\ R \in Seq(Cmd) /\ replies'[i] = Tail(R)
      /\ UNCHANGED <<phase, counter, acks, sub, cmds>> /\ counter \in Nat
      /\ pub[i] \in Seq(Msg)
  BY DEF HandleReply, TypeOK, Pop
<1>2. /\ c.id = 0 => told'[i] = c.n /\ gap' = Heard(i) /\ UNCHANGED pub
      /\ c.id # 0 => pub'[i] = Append(pub[i], m) /\ UNCHANGED <<told, gap>>
  BY DEF HandleReply, TypeOK, Push
<1>3. Running(i) /\ c \in Cmd
  BY <1>1 DEF Settling, Silent
<1>4. m \in Msg /\ m.count = c.n /\ c.n \in Nat
  BY <1>3 DEF Cmd, Msg, Message
<1>5. /\ Incr(R) <=> Incr(replies'[i]) \/ c.id # 0
      /\ Fresh(R, counter) => /\ Fresh(replies'[i], counter)
                              /\ ~Incr(replies'[i]) => c.n = counter
  BY <1>1, CmdTail
<1> HIDE DEF m, c
<1>6. Silent(i)'
  <2>1. CASE c.id = 0
    BY <1>1, <1>2, <1>3, <2>1 DEF Settling, Silent, Running, Heard
  <2>2. CASE c.id # 0
    BY <1>1, <1>2, <1>3, <2>2 DEF Settling, Silent, Running
  <2> QED
    BY <2>1, <2>2
<1>7. Word(i)'
  <2> SUFFICES ASSUME ~Incr(cmds[i])
               PROVE  /\ Fresh(replies'[i], counter)
                      /\ ~Incr(replies'[i]) =>
                           /\ LastIs(pub'[i], counter)
                           /\ ~Says(pub'[i]) =>
                                /\ LastIs(acks[i], counter) /\ LastIs(sub[i], counter)
                                /\ ~Says(sub[i]) /\ i \notin gap'
                                     => told'[i] \in {NoCount, counter}
    BY <1>1 DEF Word
  <2>1. Fresh(replies'[i], counter) /\ (~Incr(replies'[i]) => c.n = counter)
    BY <1>5 DEF Settling, Word
  <2>2. CASE c.id = 0
    BY <1>2, <1>5, <2>1, <2>2 DEF Settling, Word
  <2>3. CASE c.id # 0
    <3>1. /\ Says(pub'[i])
          /\ ~Incr(replies'[i]) => LastIs(pub'[i], counter)
      BY <1>1, <1>2, <1>4, <2>1, <2>3, MsgAppend
    <3> QED
      BY <2>1, <3>1
  <2> QED
    BY <2>2, <2>3
<1> QED
  BY <1>6, <1>7 DEF Settling

(* A message of any instance k is pushed to i: only i's own are numbered.  *)
LEMMA PublishKeepsSettling ==
  ASSUME TypeOK, NEW i \in Instances, NEW k \in Instances, Settling(i), Foreign(i)',
         Publish(k)
  PROVE  Settling(i)'
<1> DEFINE m == Head(pub[k])
<1>1. /\ pub[k] # <<>> /\ pub[k] \in Seq(Msg) /\ sub[i] \in Seq(Msg) /\ acks[k] \in Seq(Msg)
      /\ UNCHANGED <<phase, redisClient, browser>> /\ counter \in Nat
      /\ pub'[k] = Tail(pub[k]) /\ acks'[k] = Append(acks[k], m)
      /\ k # i => pub'[i] = pub[i] /\ acks'[i] = acks[i]
      /\ phase[i] \in {"off", "subscribed", "on", "deaf"}
  BY DEF Publish, TypeOK, Push, Pop
<1>2. sub'[i] = IF phase[i] \in {"subscribed", "on"} THEN Append(sub[i], m) ELSE sub[i]
  BY DEF Publish
<1>3. /\ Says(pub[k]) <=> Says(pub'[k]) \/ m.count # NoCount
      /\ LastIs(pub[k], counter) => /\ LastIs(pub'[k], counter)
                                    /\ ~Says(pub'[k]) => m.count \in {NoCount, counter}
  BY <1>1, MsgTail
<1>4. m \in Msg
  BY <1>1
<1> HIDE DEF m
<1>5. /\ Says(Append(sub[i], m)) <=> Says(sub[i]) \/ m.count # NoCount
      /\ (m.count = NoCount /\ LastIs(sub[i], counter)) \/ m.count = counter
           => LastIs(Append(sub[i], m), counter)
  BY <1>1, <1>4, MsgAppend
<1>6. /\ Says(acks'[k]) <=> Says(acks[k]) \/ m.count # NoCount
      /\ (m.count = NoCount /\ LastIs(acks[k], counter)) \/ m.count = counter
           => LastIs(acks'[k], counter)
  BY <1>1, <1>4, MsgAppend
<1>7. CASE m.count = NoCount
  <2>1. /\ Says(sub'[i]) <=> Says(sub[i])
        /\ LastIs(sub[i], counter) => LastIs(sub'[i], counter)
        /\ phase[i] = "deaf" => sub'[i] = sub[i]
    BY <1>2, <1>5, <1>7
  <2>2. /\ Says(pub'[i]) <=> Says(pub[i])
        /\ LastIs(pub[i], counter) => LastIs(pub'[i], counter)
        /\ Says(acks'[i]) => Says(acks[i])
        /\ LastIs(acks[i], counter) => LastIs(acks'[i], counter)
    BY <1>1, <1>3, <1>6, <1>7
  <2>3. /\ UNCHANGED <<counter, told, gap, replies, cmds, phase>>
        /\ Running(i) => Running(i)'
    BY <1>1 DEF redisClient, browser, Running
  <2> QED
    BY <2>1, <2>2, <2>3, SettlingKept
<1>8. CASE m.count # NoCount
  <2>1. k = i
    BY <1>3, <1>8 DEF Settling, Foreign
  <2>2. Running(i)
    BY <1>3, <1>8, <2>1 DEF Settling, Silent
  <2>3. UNCHANGED <<counter, told, gap, replies, cmds, phase>>
    BY <1>1 DEF redisClient, browser
  <2>4. Silent(i)'
    BY <1>2, <2>2, <2>3 DEF Settling, Silent, Running
  <2>5. ASSUME ~Incr(cmds[i]), ~Incr(replies[i])
        PROVE  /\ LastIs(pub'[i], counter)
               /\ ~Says(pub'[i]) =>
                    /\ LastIs(acks'[i], counter) /\ LastIs(sub'[i], counter)
                    /\ Says(sub'[i]) \/ i \in gap
    <3>1. LastIs(pub[i], counter)
      BY <2>5 DEF Settling, Word
    <3>2. LastIs(pub'[i], counter) /\ (~Says(pub'[i]) => m.count = counter)
      BY <1>3, <1>8, <2>1, <3>1
    <3>3. m.count = counter => LastIs(acks'[i], counter)
      BY <1>6, <2>1
    <3>4. CASE phase[i] = "on"
      BY <1>2, <1>5, <1>8, <3>2, <3>3, <3>4
    <3>5. CASE phase[i] = "deaf"
      BY <1>2, <3>2, <3>3, <3>5, NothingSaid DEF Settling, Silent
    <3> QED
      BY <2>2, <3>4, <3>5 DEF Running
  <2>6. Word(i)'
    BY <2>3, <2>5 DEF Settling, Word
  <2> QED
    BY <2>4, <2>6 DEF Settling
<1> QED
  BY <1>7, <1>8

(* A number that reaches i's browsers is the counter, or a newer follows.  *)
LEMMA ReceiveKeepsSettling ==
  ASSUME TypeOK, NEW i \in Instances, Settling(i), Foreign(i)', Receive(i)
  PROVE  Settling(i)'
<1> DEFINE m == Head(sub[i])
<1>1. /\ sub[i] # <<>> /\ phase[i] = "on" /\ sub[i] \in Seq(Msg) /\ sub'[i] = Tail(sub[i])
      /\ UNCHANGED <<phase, counter, cmds, replies, pub, acks>> /\ counter \in Nat
      /\ m.count = NoCount => UNCHANGED <<told, gap>>
      /\ m.count # NoCount => told'[i] = m.count
  BY DEF Receive, TypeOK, redisClient, Pop
<1>2. /\ Says(sub[i]) <=> Says(sub'[i]) \/ m.count # NoCount
      /\ LastIs(sub[i], counter) => /\ LastIs(sub'[i], counter)
                                    /\ ~Says(sub'[i]) => m.count \in {NoCount, counter}
  BY <1>1, MsgTail
<1> HIDE DEF m
<1>3. Word(i)'
  <2>1. CASE m.count = NoCount
    BY <1>1, <1>2, <2>1 DEF Settling, Word
  <2>2. CASE m.count # NoCount
    BY <1>1, <1>2, <2>2 DEF Settling, Word
  <2> QED
    BY <2>1, <2>2
<1>4. Silent(i)'
  BY <1>1 DEF Silent, Running
<1> QED
  BY <1>3, <1>4 DEF Settling

(* What another instance does, a GET or an event, does not change i's word. *)
LEMMA OthersKeepSettling ==
  ASSUME TypeOK, NEW i \in Instances, NEW k \in Instances, k # i, Settling(i),
         Foreign(i)', notifiers' \subseteq {i},
         \/ Subscribe(k) \/ Listen(k) \/ Connect(k) \/ EmitEvent(k) \/ Notify(k)
         \/ Execute(k) \/ HandleReply(k) \/ Receive(k) \/ Miss(k)
         \/ Acknowledge(k) \/ BreakSub(k) \/ Resubscribe(k) \/ BreakPub(k)
         \/ BreakClient(k) \/ Crash(k)
  PROVE  Settling(i)'
<1>1. /\ replies'[i] = replies[i] /\ told'[i] = told[i] /\ cmds'[i] = cmds[i]
      /\ phase'[i] = phase[i] /\ pub'[i] = pub[i] /\ acks'[i] = acks[i] /\ sub'[i] = sub[i]
  BY DEF TypeOK, Subscribe, Listen, Connect, EmitEvent, Notify, Execute, HandleReply,
     Receive, Miss, Acknowledge, BreakSub, Resubscribe, BreakPub, BreakClient, Crash, Push,
     Pop, redisClient, channel, browser
<1>2. i \in gap' <=> i \in gap
  BY DEF Subscribe, Listen, Connect, EmitEvent, Notify, Execute, HandleReply,
     Receive, Miss, Acknowledge, BreakSub, Resubscribe, BreakPub, BreakClient, Crash,
     Heard, browser
<1>3. counter' = counter
  <2>1. CASE Execute(k)
    <3>1. cmds[k] # <<>> /\ cmds[k] \in Seq(Cmd)
      BY <2>1 DEF Execute, TypeOK
    <3>2. ~Incr(cmds[k])
      BY DEF Settling, Foreign
    <3>3. Head(cmds[k]).id = 0
      BY <3>1, <3>2, CmdTail
    <3> QED
      BY <2>1, <3>3 DEF Execute
  <2> QED
    BY <2>1 DEF Subscribe, Listen, Connect, EmitEvent, Notify, HandleReply, Receive, Miss,
       Acknowledge, BreakSub, Resubscribe, BreakPub, BreakClient, Crash, redisClient
<1>4. Running(i)' <=> Running(i)
  BY <1>1 DEF Running
<1>5. phase'[i] = "deaf" => phase[i] = "deaf" /\ sub'[i] = sub[i]
  BY <1>1
<1> QED
  BY <1>1, <1>2, <1>3, <1>4, <1>5, SettlingKept

(* The steps of i's own that carry no number to its browsers.              *)
LEMMA OwnStepsKeepSettling ==
  ASSUME TypeOK, NEW i \in Instances, Settling(i), Foreign(i)',
         \/ Subscribe(i) \/ Listen(i) \/ Connect(i) \/ EmitEvent(i) \/ Notify(i)
         \/ Miss(i) \/ Acknowledge(i) \/ Resubscribe(i)
  PROVE  Settling(i)'
<1>1. /\ cmds[i] \in Seq(Cmd) /\ cmds \in [Instances -> Seq(Cmd)]
      /\ pub[i] \in Seq(Msg) /\ pub \in [Instances -> Seq(Msg)] /\ acks[i] \in Seq(Msg)
      /\ sub[i] \in Seq(Msg) /\ issued \in Nat
      /\ phase \in [Instances -> {"off", "subscribed", "on", "deaf"}]
  BY DEF TypeOK
<1>2. UNCHANGED <<counter, replies, told, gap>>
  BY DEF Subscribe, Listen, Connect, EmitEvent, Notify, Miss, Acknowledge, Resubscribe,
     redisClient, browser
<1>3. CASE Subscribe(i) \/ Listen(i) \/ Resubscribe(i)
  <2>1. UNCHANGED <<cmds, pub, acks, sub>>
    BY <1>3 DEF Subscribe, Listen, Resubscribe, redisClient, channel
  <2>2. phase'[i] # "deaf" /\ (Running(i) => Running(i)')
    BY <1>1, <1>3 DEF Subscribe, Listen, Resubscribe, Running
  <2> QED
    BY <1>2, <2>1, <2>2, SettlingKept
<1>4. CASE Connect(i) \/ Notify(i)
  <2>1. UNCHANGED <<pub, acks, sub, phase>> /\ Running(i) /\ Running(i)'
    BY <1>4 DEF Connect, Notify, Issue, channel, Running
  <2>2. Incr(cmds[i]) => Incr(cmds'[i])
    <3>1. PICK c \in Cmd : cmds' = Push(cmds, i, c)
      <4> DEFINE g == [id |-> 0, n |-> 0]
                 e == [id |-> issued', n |-> 0]
      <4>1. CASE Connect(i)
        <5>1. g \in Cmd /\ cmds' = Push(cmds, i, g)
          BY <4>1 DEF Cmd, Connect
        <5> HIDE DEF g
        <5> QED
          BY <5>1
      <4>2. CASE Notify(i)
        <5>1. e \in Cmd /\ cmds' = Push(cmds, i, e)
          BY <1>1, <4>2 DEF Cmd, Notify, Issue
        <5> HIDE DEF e
        <5> QED
          BY <5>1
      <4> QED
        BY <1>4, <4>1, <4>2
    <3>2. cmds'[i] = Append(cmds[i], c)
      BY <1>1, <3>1 DEF Push
    <3> QED
      BY <1>1, <3>2, CmdAppend
  <2> QED
    BY <1>2, <2>1, <2>2, SettlingKept
<1>5. CASE EmitEvent(i)
  <2> DEFINE x == Message(issued', i, NoCount)
  <2>1. /\ x \in Msg /\ x.count = NoCount /\ pub'[i] = Append(pub[i], x)
        /\ UNCHANGED <<cmds, acks, sub, phase>>
    BY <1>1, <1>5 DEF EmitEvent, Issue, Message, Msg, Push, redisClient
  <2> HIDE DEF x
  <2>2. counter \in Nat
    BY DEF TypeOK
  <2>3. /\ Says(pub'[i]) <=> Says(pub[i])
        /\ LastIs(pub[i], counter) => LastIs(pub'[i], counter)
    BY <1>1, <2>1, <2>2, MsgAppend
  <2>4. Running(i) => Running(i)'
    BY <2>1 DEF Running
  <2> QED
    BY <1>2, <2>1, <2>3, <2>4, SettlingKept
<1>6. CASE Miss(i)
  <2>1. /\ UNCHANGED <<cmds, pub, acks, phase>>
        /\ sub'[i] = Tail(sub[i]) /\ sub[i] # <<>> /\ phase[i] = "subscribed"
    BY <1>6 DEF Miss, redisClient, Pop, TypeOK
  <2>2. ~Running(i) /\ (Running(i) => Running(i)')
    BY <2>1 DEF Running
  <2>3. ~Says(sub[i])
    BY <2>2 DEF Settling, Silent
  <2>4. /\ Says(sub'[i]) <=> Says(sub[i])
        /\ LastIs(sub[i], counter) => LastIs(sub'[i], counter)
    BY <1>1, <2>1, <2>3, MsgTail
  <2> QED
    BY <1>2, <2>1, <2>2, <2>4, SettlingKept
<1>7. CASE Acknowledge(i)
  <2>1. /\ UNCHANGED <<cmds, pub, sub, phase>>
        /\ acks'[i] = Tail(acks[i]) /\ acks[i] # <<>>
    BY <1>7 DEF Acknowledge, redisClient, Pop, TypeOK
  <2>2. Running(i) => Running(i)'
    BY <2>1 DEF Running
  <2>3. /\ Says(acks'[i]) => Says(acks[i])
        /\ LastIs(acks[i], counter) => LastIs(acks'[i], counter)
    BY <1>1, <2>1, MsgTail
  <2> QED
    BY <1>2, <2>1, <2>2, <2>3, SettlingKept
<1> QED
  BY <1>3, <1>4, <1>5, <1>6, <1>7

(* A restart leaves nothing that could speak for i, a break of redisSub a  *)
(* gap, and what redisPub and redisClient send again ends as it did.       *)
LEMMA FaultsKeepSettling ==
  ASSUME TypeOK, NEW i \in Instances, Settling(i), Foreign(i)',
         Crash(i) \/ BreakSub(i) \/ BreakPub(i) \/ BreakClient(i)
  PROVE  Settling(i)'
<1>1. /\ cmds[i] \in Seq(Cmd) /\ replies[i] \in Seq(Cmd)
      /\ pub[i] \in Seq(Msg) /\ acks[i] \in Seq(Msg)
  BY DEF TypeOK
<1>2. CASE Crash(i)
  <2>1. /\ cmds'[i] = <<>> /\ replies'[i] = <<>> /\ pub'[i] = <<>> /\ sub'[i] = <<>>
        /\ acks'[i] = <<>> /\ told'[i] = NoCount /\ phase'[i] = "off"
    BY <1>2 DEF Crash, TypeOK
  <2> QED
    BY <2>1, NothingSaid DEF Settling, Word, Silent
<1>3. CASE BreakSub(i)
  <2>1. /\ UNCHANGED <<counter, cmds, replies, pub, acks, told>> /\ sub'[i] = <<>>
    BY <1>3 DEF BreakSub, redisClient, TypeOK
  <2>2. \/ phase[i] = "on" /\ phase'[i] = "deaf" /\ i \in gap'
        \/ phase[i] = "subscribed" /\ phase'[i] = "off" /\ gap' = gap
    BY <1>3 DEF BreakSub, TypeOK
  <2>3. CASE phase[i] = "on" /\ phase'[i] = "deaf" /\ i \in gap'
    BY <2>1, <2>3, NothingSaid DEF Settling, Word, Silent, Running
  <2>4. CASE phase[i] = "subscribed" /\ phase'[i] = "off" /\ gap' = gap
    BY <2>1, <2>4, NothingSaid DEF Settling, Word, Silent, Running
  <2> QED
    BY <2>2, <2>3, <2>4
<1>4. CASE BreakPub(i)
  <2>1. /\ UNCHANGED <<counter, cmds, replies, sub, told, gap, phase>> /\ acks'[i] = <<>>
        /\ pub'[i] = Again(acks[i]) \o pub[i]
    BY <1>4 DEF BreakPub, redisClient, browser, TypeOK
  <2>2. /\ Says(pub'[i]) <=> Says(acks[i]) \/ Says(pub[i])
        /\ LastIs(pub[i], counter) /\ (~Says(pub[i]) => LastIs(acks[i], counter))
             => LastIs(pub'[i], counter)
    BY <1>1, <2>1, MsgJoin
  <2>3. Word(i)'
    BY <2>1, <2>2, NothingSaid DEF Settling, Word
  <2>4. Silent(i)'
    BY <2>1, <2>2, NothingSaid DEF Settling, Silent, Running
  <2> QED
    BY <2>3, <2>4 DEF Settling
<1>5. CASE BreakClient(i)
  <2>1. /\ UNCHANGED <<counter, pub, acks, sub, told, gap, phase>> /\ replies'[i] = <<>>
        /\ cmds'[i] = replies[i] \o cmds[i] /\ replies[i] # <<>>
    BY <1>5 DEF BreakClient, channel, browser, TypeOK
  <2>2. Incr(replies[i]) \/ Incr(cmds[i]) => Incr(cmds'[i])
    BY <1>1, <2>1, CmdJoin
  <2>3. Word(i)'
    BY <2>1, <2>2, NothingSaid DEF Settling, Word
  <2>4. Silent(i)'
    BY <2>1 DEF Settling, Silent, Running
  <2> QED
    BY <2>3, <2>4 DEF Settling
<1> QED
  BY <1>2, <1>3, <1>4, <1>5

LEMMA NextKeepsSoleInv == SoleInv /\ [Next]_vars => SoleInv'
<1> SUFFICES ASSUME SoleInv, [Next]_vars PROVE SoleInv'
  OBVIOUS
<1>1. TypeOK /\ TypeOK'
  BY NextKeepsType DEF SoleInv
<1>2. CASE UNCHANGED vars
  BY <1>1, <1>2 DEF SoleInv, Settling, Foreign, Word, Silent, Running, vars,
     redisClient, channel, browser, counts
<1>3. ASSUME NEW k \in Instances,
             \/ Subscribe(k) \/ Listen(k) \/ Connect(k) \/ EmitEvent(k) \/ Notify(k)
             \/ Execute(k) \/ HandleReply(k) \/ Publish(k) \/ Receive(k) \/ Miss(k)
             \/ Acknowledge(k) \/ BreakSub(k) \/ Resubscribe(k) \/ BreakPub(k)
             \/ BreakClient(k) \/ Crash(k),
             NEW i \in Instances, notifiers' \subseteq {i}
      PROVE  Settling(i)'
  <2>1. notifiers \subseteq notifiers'
    BY <1>3 DEF Subscribe, Listen, Connect, EmitEvent, Notify, Execute, HandleReply,
       Publish, Receive, Miss, Acknowledge, BreakSub, Resubscribe, BreakPub, BreakClient,
       Crash, counts
  <2>2. Settling(i)
    BY <1>3, <2>1 DEF SoleInv
  <2>3. Foreign(i)'
    BY <1>1, <1>3, <2>2, ForeignKept DEF Settling
  <2>4. CASE Publish(k)
    BY <1>1, <1>3, <2>2, <2>3, <2>4, PublishKeepsSettling
  <2>5. CASE k = i
    BY <1>1, <1>3, <2>2, <2>3, <2>4, <2>5, ExecuteKeepsSettling, HandleReplyKeepsSettling,
       ReceiveKeepsSettling, OwnStepsKeepSettling, FaultsKeepSettling
  <2>6. CASE k # i
    BY <1>1, <1>3, <2>2, <2>3, <2>4, <2>6, OthersKeepSettling
  <2> QED
    BY <2>5, <2>6
<1> QED
  BY <1>1, <1>2, <1>3 DEF SoleInv, Next

LEMMA InitSoleInv == Init => SoleInv
<1> SUFFICES ASSUME Init, NEW i \in Instances PROVE Settling(i)
  BY InitType DEF SoleInv
<1>1. \A k \in Instances : /\ cmds[k] = <<>> /\ replies[k] = <<>> /\ pub[k] = <<>>
                           /\ acks[k] = <<>> /\ sub[k] = <<>> /\ told[k] = NoCount
                           /\ phase[k] = "off"
  BY DEF Init
<1>2. Foreign(i)
  BY <1>1, NothingSaid DEF Foreign
<1>3. Word(i) /\ Silent(i)
  BY <1>1, NothingSaid DEF Word, Silent
<1> QED
  BY <1>2, <1>3 DEF Settling

(* SoleNotifierCountSettles: when one instance ever notified and nothing   *)
(* of its is under way, the count its browsers saw last is Redis's, however *)
(* the replies of redisClient and the messages of redisSub interleaved, and *)
(* although INCR and PUBLISH may have been sent twice; only redisSub's own *)
(* absence can leave it stale.                                             *)
THEOREM SoleCountSettles == Spec => []SoleNotifierCountSettles
<1>1. SoleInv => SoleNotifierCountSettles
  <2> SUFFICES ASSUME SoleInv, NEW i \in Instances, notifiers \subseteq {i}, Quiet(i),
                      told[i] # NoCount, i \notin gap
               PROVE  told[i] = counter
    BY DEF SoleNotifierCountSettles
  <2>1. cmds[i] = <<>> /\ replies[i] = <<>> /\ pub[i] = <<>> /\ sub[i] = <<>>
    BY DEF Quiet
  <2>2. Word(i)
    BY DEF SoleInv, Settling
  <2> QED
    BY <2>1, <2>2, NothingSaid DEF Word
<1> QED
  BY <1>1, InitSoleInv, NextKeepsSoleInv, PTL DEF Spec
=============================================================================
