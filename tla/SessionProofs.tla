---------------------------- MODULE SessionProofs ----------------------------
(***************************************************************************)
(* Proofs about Communicator for applications that keep to some rules: the *)
(* broker sends what the map expects.  The rules are constant hypotheses   *)
(* of the theorems, about what the application calls and from which        *)
(* thread, and, in the second part, about what goes wrong.                 *)
(***************************************************************************)
EXTENDS CommunicatorProofs

(* The rule of both parts: add_subscription and remove_subscription are    *)
(* one thread's business.  Two threads may send SUBSCRIBE and UNSUBSCRIBE  *)
(* in another order than they change the map.                              *)
SubscriptionCalls == {"add", "remove"}

OneSubscriber ==
    \A way \in Operations : \A a, b \in Threads :
        way[a] \cap SubscriptionCalls # {} /\ way[b] \cap SubscriptionCalls # {} => a = b

(* Only this thread is in one of these calls.                              *)
SubscriberCalls ==
    \A a \in Threads :
        pc[a] \in {"addCheck", "addSend", "removeCheck", "removeSend"}
        => may[a] \cap SubscriptionCalls # {}

(* What is being removed has left the map, and nobody brings it back.      *)
RemovedIsGone ==
    \A a \in Threads : pc[a] \in {"removeCheck", "removeSend"} => topic[a] \notin subscriptions

(* What belongs to a connection goes with it.                              *)
GoesWithConnection ==
    /\ resubscribed => sock # "none"
    /\ ~session => granted = {}

(* resubscribe has something left to send only while a thread is in it.    *)
TodoIsAtHand == todo # {} => \E a \in Threads : pc[a] = "resubscribe"

SubscriberInv == SubscriberCalls /\ RemovedIsGone /\ GoesWithConnection /\ TodoIsAtHand

(* A thread has put t into the map and its SUBSCRIBE is still to come.     *)
Adding(t) == \E a \in Threads : pc[a] \in {"addCheck", "addSend"} /\ topic[a] = t

(* Once the queue is written the broker has t, unless the connection ends. *)
WillBeGranted(t) ==
    \/ \E i \in DOMAIN out :
          out[i] = Subscribe(t) /\ \A j \in DOMAIN out : j > i => out[j] # Unsubscribe(t)
    \/ t \in granted /\ ~Queued(Unsubscribe(t))

(* on_disconnect does not clear the flag while the loop thread works on a  *)
(* connection with the subscriptions.                                      *)
FlagOutlives == loop \in Working /\ resubscribed => connected

(* The inductive form of ResubscribedIsComplete. *)
NoneIsMissing ==
    loop \in Working /\ resubscribed /\ sock = "open"
    => \A t \in subscriptions : Adding(t) \/ t \in todo \/ WillBeGranted(t)

-----------------------------------------------------------------------------
(* The queue                                                               *)

LEMMA GrantedByTail ==
  ASSUME out \in Seq(Packets), out # <<>>, out' = Tail(out), NEW t, WillBeGranted(t),
         \/ Head(out) = Subscribe(t) /\ granted' = granted \cup {t}
         \/ Head(out) = Unsubscribe(t)
         \/ Head(out) # Subscribe(t) /\ (t \in granted => t \in granted')
  PROVE  WillBeGranted(t)'
<1>1. /\ 1 \in DOMAIN out /\ out[1] = Head(out) /\ DOMAIN out \subseteq Nat /\ DOMAIN out' \subseteq Nat
      /\ \A i \in DOMAIN out' : i + 1 \in DOMAIN out /\ out'[i] = out[i + 1]
      /\ \A i \in DOMAIN out : i # 1 => i - 1 \in DOMAIN out' /\ out[i] = out'[i - 1]
  OBVIOUS
<1>2. ASSUME NEW i \in DOMAIN out, out[i] = Subscribe(t),
             \A j \in DOMAIN out : j > i => out[j] # Unsubscribe(t)
      PROVE  WillBeGranted(t)'
  <2>1. CASE i = 1
    <3>1. t \in granted'
      BY <1>1, <1>2, <2>1 DEF Subscribe, Unsubscribe
    <3>2. ~Queued(Unsubscribe(t))'
      <4> SUFFICES ASSUME NEW j \in DOMAIN out', out'[j] = Unsubscribe(t) PROVE FALSE
        BY DEF Queued
      <4>1. j + 1 \in DOMAIN out /\ j + 1 > 1 /\ out[j + 1] = Unsubscribe(t)
        BY <1>1
      <4> QED
        BY <1>2, <2>1, <4>1
    <3> QED
      BY <3>1, <3>2 DEF WillBeGranted
  <2>2. CASE i # 1
    <3>1. i - 1 \in DOMAIN out' /\ out'[i - 1] = Subscribe(t)
      BY <1>1, <1>2, <2>2
    <3>2. \A j \in DOMAIN out' : j > i - 1 => out'[j] # Unsubscribe(t)
      BY <1>1, <1>2
    <3> QED
      BY <3>1, <3>2 DEF WillBeGranted
  <2> QED
    BY <2>1, <2>2
<1>3. CASE t \in granted /\ ~Queued(Unsubscribe(t))
  <2>1. ~Queued(Unsubscribe(t))'
    BY <1>1, <1>3 DEF Queued
  <2>2. t \in granted'
    BY <1>1, <1>3 DEF Queued
  <2> QED
    BY <2>1, <2>2 DEF WillBeGranted
<1> QED
  BY <1>2, <1>3 DEF WillBeGranted

(* What joins the queue. *)
LEMMA GrantedByConcat ==
  ASSUME out \in Seq(Packets), NEW s \in Seq(Packets), out' = out \o s, granted' = granted,
         NEW t, \A i \in DOMAIN s : s[i] # Unsubscribe(t),
         WillBeGranted(t) \/ \E i \in DOMAIN s : s[i] = Subscribe(t)
  PROVE  WillBeGranted(t)'
<1>1. /\ DOMAIN out \subseteq Nat /\ DOMAIN s \subseteq Nat /\ DOMAIN out' \subseteq Nat
      /\ \A i \in DOMAIN out : i \in DOMAIN out' /\ out'[i] = out[i]
      /\ \A i \in DOMAIN s : Len(out) + i \in DOMAIN out' /\ out'[Len(out) + i] = s[i]
      /\ \A i \in DOMAIN out' : i \in DOMAIN out \/ i - Len(out) \in DOMAIN s
      /\ \A i \in DOMAIN out' \ DOMAIN out : out'[i] = s[i - Len(out)]
      /\ \A i \in DOMAIN s, j \in DOMAIN out : j < Len(out) + i
  OBVIOUS
<1>2. \A i \in DOMAIN out' : out'[i] = Unsubscribe(t) => i \in DOMAIN out /\ out[i] = out'[i]
  BY <1>1
<1>3. CASE \E i \in DOMAIN s : s[i] = Subscribe(t)
  <2>1. PICK i \in DOMAIN s : s[i] = Subscribe(t)
    BY <1>3
  <2>2. /\ Len(out) + i \in DOMAIN out' /\ out'[Len(out) + i] = Subscribe(t)
        /\ \A j \in DOMAIN out' : j > Len(out) + i => out'[j] # Unsubscribe(t)
    BY <1>1, <1>2, <2>1
  <2> QED
    BY <2>2 DEF WillBeGranted
<1>4. CASE WillBeGranted(t)
  <2>1. ~Queued(Unsubscribe(t)) => ~Queued(Unsubscribe(t))'
    BY <1>2 DEF Queued
  <2>2. ASSUME NEW i \in DOMAIN out, out[i] = Subscribe(t),
               \A j \in DOMAIN out : j > i => out[j] # Unsubscribe(t)
        PROVE  WillBeGranted(t)'
    <3>1. i \in DOMAIN out' /\ out'[i] = Subscribe(t)
      BY <1>1, <2>2
    <3>2. \A j \in DOMAIN out' : j > i => out'[j] # Unsubscribe(t)
      BY <1>2, <2>2
    <3> QED
      BY <3>1, <3>2 DEF WillBeGranted
  <2> QED
    BY <1>4, <2>1, <2>2 DEF WillBeGranted
<1> QED
  BY <1>3, <1>4

LEMMA GrantedByAppend ==
  ASSUME out \in Seq(Packets), NEW p \in Packets, out' = Append(out, p), granted' = granted,
         NEW t, p # Unsubscribe(t), WillBeGranted(t) \/ p = Subscribe(t)
  PROVE  WillBeGranted(t)'
<1>1. <<p>> \in Seq(Packets) /\ out' = out \o <<p>>
  OBVIOUS
<1>2. DOMAIN <<p>> = {1} /\ <<p>>[1] = p
  OBVIOUS
<1> QED
  BY <1>1, <1>2, GrantedByConcat

LEMMA SameGranted ==
  ASSUME UNCHANGED <<out, granted>>, NEW t, WillBeGranted(t)
  PROVE  WillBeGranted(t)'
  BY DEF WillBeGranted, Queued

-----------------------------------------------------------------------------
(* The steps                                                               *)

LEMMA InitSubscriber == Init => SubscriberInv
  BY DEF Init, MosqInit, SubscriberInv, SubscriberCalls, RemovedIsGone, GoesWithConnection,
         TodoIsAtHand

LEMMA NextGoesWithConnection ==
  ASSUME TypeOK, GoesWithConnection, [Next]_vars
  PROVE  GoesWithConnection'
<1> USE DEF GoesWithConnection, TypeOK, MosqTypeOK, ClientTypeOK
<1>0. NoSession => session' = FALSE /\ granted' = {} /\ resubscribed' = FALSE
  BY DEF NoSession
<1>1. CASE LoopStep /\ UNCHANGED appVars
  <2>1. CASE LoopWrite
    <3>1. OnPacket(Head(out)) /\ resubscribed' = resubscribed
      BY <2>1 DEF LoopWrite
    <3>2. /\ sock' \in {sock, "dead"} /\ sock # "none"
          /\ ~session' => granted' = {}
      BY <2>1, <3>1 DEF LoopWrite, OnPacket, OnConnectPacket, AcceptConnect, RefuseConnect,
         OnSubscriptionPacket, OnMessagePacket, Drop
    <3> QED
      BY <3>1, <3>2
  <2>2. CASE LoopOpen
    BY <1>0, <2>2 DEF LoopOpen, OpenSucceeds, OpenFails
  <2>3. CASE LoopReset
    BY <1>0, <2>3 DEF LoopReset, Reset, CloseSocket
  <2>4. ASSUME NEW m \in Messages, LoopAnswer(m) \/ LoopRetry(m) PROVE GoesWithConnection'
    BY <2>4 DEF LoopAnswer, LoopRetry
  <2> QED
    BY <1>0, <1>1, <2>1, <2>2, <2>3, <2>4 DEF LoopStep, LoopNoConn, LoopTest, LoopStore,
       LoopWriteDisconnect, LoopNoticesLoss, LoopClose, CloseSocket, LoopCheck, LoopWake
<1>2. CASE LoopConnected \/ LoopRefused \/ LoopDisconnected
  BY <1>0, <1>2 DEF LoopConnected, LoopRefused, LoopDisconnected, LoopClose, CloseSocket
<1>3. CASE (ConnectionLoss /\ UNCHANGED appVars) \/ UNCHANGED vars
  BY <1>3 DEF ConnectionLoss, vars, mosqVars
<1>4. ASSUME NEW a \in Threads,
             Begin(a) \/ Continue(a) \/ SpuriousWakeup(a) \/ ConnectExpire(a)
      PROVE  GoesWithConnection'
  <2>1. CASE ConnectReset(a)
    BY <1>0, <2>1 DEF ConnectReset, Reset, CloseSocket
  <2>2. CASE ConnectOpen(a)
    BY <1>0, <2>2 DEF ConnectOpen, OpenSucceeds, OpenFails
  <2>3. CASE ConnectEstablished(a)
    BY <2>3 DEF ConnectEstablished, Resubscribe, CanSend
  <2>4. \/ ConnectReset(a) \/ ConnectOpen(a) \/ ConnectEstablished(a)
        \/ UNCHANGED <<sock, session, granted, resubscribed>>
    BY <1>4 DEF Begin, Continue, CallConnect, CallDisconnect, CallDestroy, CallAdd,
       CallRemove, CallSend, ConnectRetry, SendNext, ConnectReturn, ConnectSleep, ConnectThrow,
       DoDisconnect, EndDisconnect, Join, Check, SendPacket, DoPublish, SpuriousWakeup,
          ConnectExpire, mosqVars
  <2> QED
    BY <2>1, <2>2, <2>3, <2>4
<1> QED
  BY <1>1, <1>2, <1>3, <1>4 DEF Next, LoopThread, Rest

(* What a step of thread a changes about the calls of add and remove.      *)
LEMMA OtherStepsSubscriptions ==
  ASSUME TypeOK, [Next]_vars
  PROVE  \/ \E a \in Threads, t \in Topics : CallAdd(a, t) \/ CallRemove(a, t)
         \/ \E a \in Threads : Check(a) \/ SendPacket(a)
         \/ /\ UNCHANGED <<subscriptions, topic, may>>
            /\ \A b \in Threads :
                  \/ pc'[b] = pc[b]
                  \/ {pc[b], pc'[b]} \cap {"addCheck", "addSend", "removeCheck",
                     "removeSend"} = {}
<1> USE DEF TypeOK, AppTypeOK
<1>1. CASE LoopThread
  BY <1>1 DEF LoopThread, LoopConnected, LoopRefused, LoopDisconnected, OnConnect, Sleepers,
     Goto, appVars, callVars
<1>2. CASE (ConnectionLoss /\ UNCHANGED appVars) \/ UNCHANGED vars
  BY <1>2 DEF vars, appVars, callVars
<1>3. ASSUME NEW a \in Threads,
             Begin(a) \/ Continue(a) \/ SpuriousWakeup(a) \/ ConnectExpire(a),
             ~Check(a), ~SendPacket(a),
             \A t \in Topics : ~CallAdd(a, t) /\ ~CallRemove(a, t)
      PROVE  /\ UNCHANGED <<subscriptions, topic, may>>
             /\ \A b \in Threads :
                  \/ pc'[b] = pc[b]
                  \/ {pc[b], pc'[b]} \cap {"addCheck", "addSend", "removeCheck",
                     "removeSend"} = {}
  <2>1. UNCHANGED <<subscriptions, topic, may>>
    BY <1>3 DEF Begin, Continue, CallConnect, CallDisconnect, CallDestroy, CallSend,
       ConnectReset, ConnectOpen, ConnectRetry, ConnectEstablished, SendNext, ConnectReturn,
       ConnectSleep, ConnectThrow, DoDisconnect, EndDisconnect, Join, DoPublish,
       SpuriousWakeup, ConnectExpire, callVars
  <2>2. /\ pc[a] \notin {"addCheck", "addSend", "removeCheck", "removeSend"}
        /\ \/ pc' = pc
           \/ \E place \in Places \ {"addCheck", "addSend", "removeCheck", "removeSend"} :
                 pc' = [pc EXCEPT ![a] = place]
    BY <1>3 DEF Begin, Continue, CallConnect, CallDisconnect, CallDestroy, MayCall, CallSend,
       ConnectReset, ConnectOpen, ConnectRetry, ConnectEstablished, SendNext, ConnectReturn,
       ConnectSleep, ConnectThrow, DoDisconnect, EndDisconnect, Join, DoPublish,
       SpuriousWakeup, ConnectExpire, Goto, Places
  <2>3. \A b \in Threads :
          \/ pc'[b] = pc[b]
          \/ {pc[b], pc'[b]} \cap {"addCheck", "addSend", "removeCheck", "removeSend"} = {}
    BY <2>2
  <2> QED
    BY <2>1, <2>3
<1> QED
  BY <1>1, <1>2, <1>3 DEF Next, Rest

(* A step leaves what there is to send to the thread that sends it. *)
LEMMA NextTodoIsAtHand ==
  ASSUME TypeOK, TodoIsAtHand, [Next]_vars
  PROVE  TodoIsAtHand'
<1> USE DEF TodoIsAtHand, TypeOK, AppTypeOK
<1>1. ASSUME todo' = todo, \A b \in Threads : pc[b] = "resubscribe" => pc'[b] = pc[b]
      PROVE  TodoIsAtHand'
  BY <1>1
<1>2. CASE LoopThread
  BY <1>1, <1>2 DEF LoopThread, LoopConnected, LoopRefused, LoopDisconnected, OnConnect,
     Sleepers, Goto, appVars
<1>3. CASE (ConnectionLoss /\ UNCHANGED appVars) \/ UNCHANGED vars
  BY <1>1, <1>3 DEF vars, appVars
<1>4. ASSUME NEW a \in Threads,
             Begin(a) \/ Continue(a) \/ SpuriousWakeup(a) \/ ConnectExpire(a)
      PROVE  TodoIsAtHand'
  <2>1. CASE ConnectEstablished(a)
    BY <2>1 DEF ConnectEstablished, Goto
  <2>2. CASE SendNext(a)
    BY <2>2 DEF SendNext
  <2>3. CASE ConnectReturn(a)
    BY <2>3 DEF ConnectReturn
  <2>4. ASSUME ~ConnectEstablished(a), ~SendNext(a), ~ConnectReturn(a)
        PROVE  todo' = todo /\ pc[a] # "resubscribe" /\ \E place : pc' = [pc EXCEPT ![a] = place]
    BY <1>4, <2>4 DEF Begin, Continue, CallConnect, CallDisconnect, CallDestroy, MayCall,
       CallAdd, CallRemove, CallSend, ConnectReset, ConnectOpen, ConnectRetry, ConnectSleep,
       ConnectThrow, DoDisconnect, EndDisconnect, Join, Check, SendPacket, DoPublish,
       SpuriousWakeup, ConnectExpire, Goto
  <2>5. CASE ~ConnectEstablished(a) /\ ~SendNext(a) /\ ~ConnectReturn(a)
    BY <1>1, <2>4, <2>5
  <2> QED
    BY <2>1, <2>2, <2>3, <2>5
<1> QED
  BY <1>2, <1>3, <1>4 DEF Next, Rest

LEMMA NextSubscriber ==
  ASSUME OneSubscriber, TypeOK, SubscriberInv, [Next]_vars
  PROVE  SubscriberInv'
<1>1. GoesWithConnection' /\ TodoIsAtHand'
  BY NextGoesWithConnection, NextTodoIsAtHand DEF SubscriberInv
<1>2. SubscriberCalls' /\ RemovedIsGone'
  <2> USE DEF SubscriberInv, SubscriberCalls, RemovedIsGone, TypeOK, AppTypeOK
  <2>1. ASSUME NEW a \in Threads, NEW t \in Topics, CallAdd(a, t) \/ CallRemove(a, t)
        PROVE  SubscriberCalls' /\ RemovedIsGone'
    <3>1. /\ may[a] \cap SubscriptionCalls # {} /\ pc[a] = "idle"
          /\ may' = may /\ may \in Operations
          /\ topic' = [topic EXCEPT ![a] = t]
          /\ \/ pc' = [pc EXCEPT ![a] = "addCheck"]
             \/ pc' = [pc EXCEPT ![a] = "removeCheck"] /\ subscriptions' = subscriptions \ {t}
      BY <2>1 DEF CallAdd, CallRemove, MayCall, Goto, SubscriptionCalls, callVars, CallTypeOK
    <3>2. \A b \in Threads \ {a} :
            pc[b] \notin {"addCheck", "addSend", "removeCheck", "removeSend"}
      BY <3>1 DEF OneSubscriber
    <3> QED
      BY <3>1, <3>2
  <2>2. ASSUME NEW a \in Threads, Check(a) \/ SendPacket(a)
        PROVE  SubscriberCalls' /\ RemovedIsGone'
    BY <2>2 DEF Check, SendPacket, Goto, callVars
  <2> QED
    BY <2>1, <2>2, OtherStepsSubscriptions
<1> QED
  BY <1>1, <1>2 DEF SubscriberInv

(* A topic nobody touches keeps what it has: when the packet queue and the *)
(* broker's subscriptions stay, or a packet about something else joins it. *)
LEMMA QueueStepGranted ==
  ASSUME TypeOK, NEW t \in Topics, WillBeGranted(t),
         granted' = granted,
         \/ out' = out
         \/ \E p \in Packets \ {Unsubscribe(t)} : out' = Append(out, p)
  PROVE  WillBeGranted(t)'
  BY SameGranted, GrantedByAppend DEF TypeOK, MosqTypeOK, ClientTypeOK

(* The broker is told in the order of the queue. *)
LEMMA WriteGranted ==
  ASSUME TypeOK, GoesWithConnection, LoopWrite, sock' = "open",
         NEW t \in Topics, WillBeGranted(t)
  PROVE  WillBeGranted(t)'
<1>1. /\ out # <<>> /\ out' = Tail(out) /\ OnPacket(Head(out)) /\ out \in Seq(Packets)
      /\ Head(out) \in Packets
  BY HeadTailType DEF LoopWrite, TypeOK, MosqTypeOK, ClientTypeOK
<1> DEFINE p == Head(out)
<1> HIDE DEF p
<1>2. CASE p.type = "CONNECT" /\ OnConnectPacket
  <2>1. granted' = granted
    BY <1>2 DEF OnConnectPacket, AcceptConnect, RefuseConnect, Drop, GoesWithConnection
  <2>2. p # Subscribe(t)
    BY <1>2 DEF Subscribe
  <2> QED
    BY <1>1, <2>1, <2>2, GrantedByTail DEF p
<1>3. CASE p.type = "SUBSCRIBE" /\ OnSubscriptionPacket(granted \cup {p.topic})
  <2>1. granted' = granted \cup {p.topic}
    BY <1>3 DEF OnSubscriptionPacket, Drop
  <2>2. p = Subscribe(t) => p.topic = t
    BY DEF Subscribe
  <2> QED
    BY <1>1, <2>1, <2>2, GrantedByTail DEF p
<1>4. CASE p.type = "UNSUBSCRIBE" /\ OnSubscriptionPacket(granted \ {p.topic})
  <2>1. granted' = granted \ {p.topic}
    BY <1>4 DEF OnSubscriptionPacket, Drop
  <2>2. p = Unsubscribe(p.topic) /\ p # Subscribe(t)
    BY <1>1, <1>4 DEF p, Packets, Connect, Disconnect, Subscribe, Unsubscribe, Publish, Pubrel
  <2> QED
    BY <1>1, <2>1, <2>2, GrantedByTail DEF p
<1>5. CASE OnMessagePacket(p)
  <2>1. granted' = granted /\ p # Subscribe(t)
    BY <1>5 DEF OnMessagePacket, Drop, Subscribe
  <2> QED
    BY <1>1, <2>1, GrantedByTail DEF p
<1> QED
  BY <1>1, <1>2, <1>3, <1>4, <1>5 DEF p, OnPacket

(* The loop thread's steps on an open connection with the subscriptions.   *)
LEMMA LoopStepGranted ==
  ASSUME TypeOK, GoesWithConnection, LoopStep, loop' \in Working, resubscribed', sock' = "open",
         NEW t \in Topics, WillBeGranted(t)
  PROVE  WillBeGranted(t)'
<1>1. CASE LoopWrite
  BY <1>1, WriteGranted
<1>2. ASSUME NEW m \in Messages, LoopAnswer(m) \/ LoopRetry(m) PROVE WillBeGranted(t)'
  <2>1. granted' = granted
    BY <1>2 DEF LoopAnswer, LoopRetry
  <2>2. \A n \in Messages : Publish(n) # Unsubscribe(t) /\ Pubrel(n) # Unsubscribe(t)
    BY DEF Publish, Pubrel, Unsubscribe
  <2>3. CASE LoopAnswer(m)
    <3>1. PICK a \in answers :
            /\ a.message = m
            /\ out' = out \/ (a.type = "PUBREC" /\ out' = Append(out, Pubrel(m)))
      BY <2>3 DEF LoopAnswer
    <3>2. a.type = "PUBREC" => Pubrel(m) \in Packets
      BY <3>1, AnswerFields, PacketTypes DEF TypeOK, MosqTypeOK, MessagesTypeOK
    <3> QED
      BY <2>1, <2>2, <3>1, <3>2, QueueStepGranted
  <2>4. CASE LoopRetry(m)
    <3>1. Resent(m) \in Packets \ {Unsubscribe(t)}
      BY <2>2, PacketTypes, WaitTypes DEF Resent, TypeOK, MosqTypeOK, MessagesTypeOK
    <3> QED
      BY <2>1, <2>4, <3>1, QueueStepGranted DEF LoopRetry
  <2> QED
    BY <1>2, <2>3, <2>4
<1>3. NoSession => ~resubscribed'
  BY DEF NoSession
<1>4. CASE LoopTest \/ LoopStore
  BY <1>4, SameGranted DEF LoopTest, LoopStore
<1>6. ~(LoopWriteDisconnect \/ LoopNoticesLoss \/ LoopNoConn \/ LoopCheck \/ LoopWake)
  BY <1>3 DEF Working, LoopWriteDisconnect, LoopNoticesLoss, LoopNoConn, LoopCheck, LoopWake,
     LoopClose, CloseSocket
<1>5. ~(LoopReset \/ LoopOpen)
  BY <1>3 DEF LoopReset, Reset, CloseSocket, LoopOpen, OpenSucceeds, OpenFails, Working
<1> QED
  BY <1>1, <1>2, <1>4, <1>5, <1>6 DEF LoopStep

(* The steps of the threads. *)
LEMMA ThreadGranted ==
  ASSUME TypeOK, Handed, SubscriberInv, NEW a \in Threads,
         Begin(a) \/ Continue(a) \/ SpuriousWakeup(a) \/ ConnectExpire(a),
         ~ConnectEstablished(a), resubscribed', sock' = "open",
         NEW t \in subscriptions, WillBeGranted(t)
  PROVE  WillBeGranted(t)'
<1>1. t \in Topics
  BY DEF TypeOK, AppTypeOK
<1>2. CASE SendPacket(a)
  <2>1. PacketOf(a) \in Packets \ {Unsubscribe(t)}
    BY <1>2, PacketTypes DEF SendPacket, PacketOf, TypeOK, AppTypeOK, SubscriberInv,
       RemovedIsGone, Subscribe, Unsubscribe
  <2>2. out' = out \/ out' = Append(out, PacketOf(a))
    BY <1>2, <2>1 DEF SendPacket, Send, TypeOK, MosqTypeOK, ClientTypeOK
  <2> QED
    BY <1>1, <1>2, <2>1, <2>2, QueueStepGranted DEF SendPacket
<1>3. CASE EndDisconnect(a)
  <2>1. Disconnect # Unsubscribe(t)
    BY DEF Disconnect, Unsubscribe
  <2> QED
    BY <1>1, <1>3, <2>1, PacketTypes, QueueStepGranted DEF EndDisconnect, SendDisconnect
<1>4. CASE DoPublish(a)
  <2>1. Publish(message[a]) \in Packets \ {Unsubscribe(t)}
    BY <1>4, PacketTypes DEF DoPublish, Handed, Publish, Unsubscribe
  <2> QED
    BY <1>1, <1>4, <2>1, QueueStepGranted DEF DoPublish, RequestPublish
<1>5. NoSession => ~resubscribed'
  BY DEF NoSession
<1>6. ~ConnectReset(a)
  BY <1>5 DEF ConnectReset, Reset, CloseSocket
<1>7. CASE ConnectOpen(a)
  BY <1>1, <1>5, <1>7, QueueStepGranted DEF ConnectOpen, OpenSucceeds, OpenFails
<1>8. CASE SendNext(a)
  <2>1. PICK u \in todo : out' = out \/ out' = out \o <<Subscribe(u)>>
    BY <1>8 DEF SendNext, Send
  <2>2. Subscribe(u) \in Packets \ {Unsubscribe(t)}
    BY PacketTypes DEF TypeOK, AppTypeOK, Subscribe, Unsubscribe
  <2>3. out' = out \/ out' = Append(out, Subscribe(u))
    BY <2>1, <2>2 DEF TypeOK, MosqTypeOK, ClientTypeOK
  <2> QED
    BY <1>1, <1>8, <2>2, <2>3, QueueStepGranted DEF SendNext
<1>9. \/ SendPacket(a) \/ EndDisconnect(a) \/ DoPublish(a) \/ ConnectOpen(a) \/ SendNext(a)
      \/ UNCHANGED <<out, granted>>
  BY <1>6 DEF Begin, Continue, CallConnect, CallDisconnect, CallDestroy, CallAdd,
     CallRemove, CallSend, ConnectRetry, ConnectReturn, ConnectSleep, ConnectThrow,
     DoDisconnect, Join, Check, SpuriousWakeup, ConnectExpire, mosqVars
<1> QED
  BY <1>1, <1>2, <1>3, <1>4, <1>7, <1>8, <1>9, QueueStepGranted

(* What resubscribe has still to send it sends, on the socket there is.    *)
LEMMA TodoGoesOn ==
  ASSUME TypeOK, [Next]_vars, sock = "open", NEW t \in todo,
         \A a \in Threads : ~ConnectEstablished(a)
  PROVE  t \in todo' \/ WillBeGranted(t)'
<1>1. ASSUME NEW a \in Threads, SendNext(a) PROVE t \in todo' \/ WillBeGranted(t)'
  <2>1. PICK u \in todo : out' = out \o <<Subscribe(u)>> /\ todo' = todo \ {u}
    BY <1>1 DEF SendNext, Send, CanSend
  <2>2. CASE u = t
    <3>1. Subscribe(t) \in Packets /\ Subscribe(t) # Unsubscribe(t) /\ out \in Seq(Packets)
      BY PacketTypes DEF TypeOK, AppTypeOK, MosqTypeOK, ClientTypeOK, Subscribe, Unsubscribe
    <3>2. out' = Append(out, Subscribe(t)) /\ granted' = granted
      BY <1>1, <2>1, <2>2, <3>1 DEF SendNext
    <3> QED
      BY <3>1, <3>2, GrantedByAppend
  <2> QED
    BY <2>1, <2>2
<1>2. CASE \A a \in Threads : ~SendNext(a)
  <2>1. CASE LoopThread \/ (ConnectionLoss /\ UNCHANGED appVars) \/ UNCHANGED vars
    BY <2>1 DEF LoopThread, LoopConnected, LoopRefused, LoopDisconnected, vars, appVars
  <2>2. ASSUME NEW a \in Threads, Begin(a) PROVE todo' = todo
    BY <2>2 DEF Begin, CallConnect, CallDisconnect, CallDestroy, CallAdd, CallRemove, CallSend
  <2>3. ASSUME NEW a \in Threads, Continue(a) \/ SpuriousWakeup(a) \/ ConnectExpire(a)
        PROVE  todo' = todo
    BY <1>2, <2>3 DEF Continue, ConnectReset, ConnectOpen, ConnectRetry, ConnectReturn,
       ConnectSleep, ConnectThrow, DoDisconnect, EndDisconnect, Join, Check, SendPacket,
       DoPublish, SpuriousWakeup, ConnectExpire
  <2> QED
    BY <2>1, <2>2, <2>3 DEF Next, Rest
<1> QED
  BY <1>1, <1>2

(* A SUBSCRIBE that is to come is sent: the flag stays set meanwhile.      *)
LEMMA AddingGoesOn ==
  ASSUME TypeOK, [Next]_vars, NEW t \in subscriptions, Adding(t),
         FlagOutlives, loop \in Working, resubscribed, sock = "open", sock' = "open",
            t \in subscriptions'
  PROVE  Adding(t)' \/ WillBeGranted(t)'
<1>1. PICK b \in Threads : pc[b] \in {"addCheck", "addSend"} /\ topic[b] = t
  BY DEF Adding
<1> USE DEF TypeOK, AppTypeOK
<1>2. CASE UNCHANGED topic /\ pc'[b] = pc[b]
  BY <1>1, <1>2 DEF Adding
<1>3. ASSUME NEW a \in Threads, NEW u \in Topics, CallAdd(a, u) \/ CallRemove(a, u)
      PROVE  Adding(t)'
  <2>1. a # b
    BY <1>1, <1>3 DEF CallAdd, CallRemove, MayCall
  <2> QED
    BY <1>1, <1>3, <2>1 DEF CallAdd, CallRemove, Goto, Adding
<1>4. ASSUME NEW a \in Threads, Check(a) PROVE Adding(t)'
  <2>1. connected
    BY DEF FlagOutlives
  <2> QED
    BY <1>1, <1>4, <2>1 DEF Check, Goto, Adding
<1>5. ASSUME NEW a \in Threads, SendPacket(a) PROVE Adding(t)' \/ WillBeGranted(t)'
  <2>1. CASE a = b
    <3>1. pc[b] = "addSend" /\ PacketOf(a) = Subscribe(t) /\ granted' = granted
      BY <1>1, <1>5, <2>1 DEF SendPacket, PacketOf
    <3>2. Subscribe(t) \in Packets /\ Subscribe(t) # Unsubscribe(t) /\ out \in Seq(Packets)
      BY PacketTypes DEF Subscribe, Unsubscribe, MosqTypeOK, ClientTypeOK
    <3>3. out' = Append(out, Subscribe(t))
      BY <1>5, <3>1, <3>2 DEF SendPacket, CanSend, Send
    <3> QED
      BY <3>1, <3>2, <3>3, GrantedByAppend
  <2>2. CASE a # b
    BY <1>1, <1>5, <2>2 DEF SendPacket, Goto, Adding
  <2> QED
    BY <2>1, <2>2
<1> QED
  BY <1>1, <1>2, <1>3, <1>4, <1>5, OtherStepsSubscriptions

(* The loop thread's steps do not bring the subscriptions to a connection. *)
LEMMA LoopStepKeepsConnection ==
  ASSUME LoopStep, loop' \in Working, resubscribed', sock' = "open"
  PROVE  loop \in Working /\ resubscribed /\ sock = "open"
<1> USE DEF Working
<1>1. NoSession => ~resubscribed'
  BY DEF NoSession
<1>2. CASE LoopWrite
  BY <1>2 DEF LoopWrite
<1>3. ~(LoopReset \/ LoopOpen \/ LoopWriteDisconnect \/ LoopNoticesLoss)
  BY <1>1 DEF LoopReset, LoopOpen, OpenSucceeds, OpenFails, LoopWriteDisconnect,
     LoopNoticesLoss, LoopClose, CloseSocket
<1> QED
  BY <1>2, <1>3 DEF LoopStep, LoopNoConn, LoopTest, LoopStore, LoopCheck, LoopWake, LoopAnswer,
     LoopRetry

(* The flag is what the step after on_disconnect turns on. *)
LEMMA NextNoneIsMissing ==
  ASSUME TypeOK, Handed, SubscriberInv, FlagOutlives, FlagOutlives', NoneIsMissing, [Next]_vars
  PROVE  NoneIsMissing'
<1> SUFFICES ASSUME loop' \in Working, resubscribed', sock' = "open", NEW t \in subscriptions'
             PROVE  Adding(t)' \/ t \in todo' \/ WillBeGranted(t)'
  BY DEF NoneIsMissing
<1>1. CASE \E a \in Threads : ConnectEstablished(a)
  BY <1>1 DEF ConnectEstablished, Resubscribe
<1>2. ASSUME loop \in Working, resubscribed, sock = "open", t \in subscriptions,
             \A a \in Threads : ~ConnectEstablished(a),
             WillBeGranted(t) => WillBeGranted(t)'
      PROVE  Adding(t)' \/ t \in todo' \/ WillBeGranted(t)'
  BY <1>2, AddingGoesOn, TodoGoesOn DEF NoneIsMissing
<1>3. CASE LoopStep /\ UNCHANGED appVars
  <2>1. loop \in Working /\ resubscribed /\ sock = "open"
    BY <1>3, LoopStepKeepsConnection
  <2>2. t \in subscriptions /\ t \in Topics
    BY <1>3 DEF appVars, TypeOK, AppTypeOK
  <2>3. WillBeGranted(t) => WillBeGranted(t)'
    BY <1>3, <2>2, LoopStepGranted DEF SubscriberInv
  <2> QED
    BY <1>1, <1>2, <2>1, <2>2, <2>3
<1>4. CASE LoopConnected \/ LoopRefused \/ LoopDisconnected
  <2>1. ~LoopRefused
    BY DEF LoopRefused, LoopClose, CloseSocket, NoSession
  <2>2. ~LoopDisconnected
    BY DEF LoopDisconnected, ClearFlag, FlagOutlives
  <2>3. /\ loop \in Working /\ resubscribed /\ sock = "open" /\ t \in subscriptions
        /\ UNCHANGED <<out, granted>>
    BY <1>4, <2>1, <2>2 DEF LoopConnected, Working
  <2> QED
    BY <1>1, <1>2, <2>3, SameGranted
<1>5. CASE (ConnectionLoss /\ UNCHANGED appVars) \/ UNCHANGED vars
  <2>1. /\ loop \in Working /\ resubscribed /\ sock = "open" /\ t \in subscriptions
        /\ UNCHANGED <<out, granted>>
    BY <1>5 DEF ConnectionLoss, vars, mosqVars, appVars
  <2> QED
    BY <1>1, <1>2, <2>1, SameGranted
<1>6. ASSUME NEW a \in Threads,
             Begin(a) \/ Continue(a) \/ SpuriousWakeup(a) \/ ConnectExpire(a),
             \A b \in Threads : ~ConnectEstablished(b)
      PROVE  Adding(t)' \/ t \in todo' \/ WillBeGranted(t)'
  <2>1. loop \in Working /\ resubscribed /\ sock = "open"
    <3>1. NoSession => ~resubscribed'
      BY DEF NoSession
    <3>2. ~ConnectReset(a)
      BY <3>1 DEF ConnectReset, Reset, CloseSocket
    <3>3. CASE ConnectOpen(a)
      BY <3>1, <3>3 DEF ConnectOpen, OpenSucceeds, OpenFails
    <3> QED
      BY <1>6, <3>2, <3>3 DEF Begin, Continue, CallConnect, CallDisconnect, CallDestroy,
         CallAdd, CallRemove, CallSend, ConnectRetry, SendNext, ConnectReturn, ConnectSleep,
         ConnectThrow, DoDisconnect, EndDisconnect, Join, Check, SendPacket, DoPublish,
         SpuriousWakeup, ConnectExpire, mosqVars
  <2>2. CASE t \in subscriptions
    <3>1. WillBeGranted(t) => WillBeGranted(t)'
      BY <1>6, <2>2, ThreadGranted
    <3> QED
      BY <1>2, <1>6, <2>1, <2>2, <3>1
  <2>3. CASE t \notin subscriptions
    <3>1. CallAdd(a, t)
      BY <1>6, <2>3 DEF Begin, Continue, CallConnect, CallDisconnect, CallDestroy, CallAdd,
         CallRemove, CallSend, ConnectReset, ConnectOpen, ConnectRetry, SendNext,
         ConnectReturn, ConnectSleep, ConnectThrow, DoDisconnect, EndDisconnect, Join, Check,
         SendPacket, DoPublish, SpuriousWakeup, ConnectExpire
    <3> QED
      BY <3>1 DEF CallAdd, Goto, Adding, TypeOK, AppTypeOK
  <2> QED
    BY <2>2, <2>3
<1> QED
  BY <1>1, <1>3, <1>4, <1>5, <1>6 DEF Next, LoopThread, Rest

-----------------------------------------------------------------------------
(* CONNECT and DISCONNECT                                                  *)

(* Neither is queued but by mosquitto_reconnect and mosquitto_disconnect.  *)
Ends == {Connect, Disconnect}

LEMMA OtherPacketsThanEnds ==
  /\ \A t \in Topics : {Subscribe(t), Unsubscribe(t)} \subseteq Packets \ Ends
  /\ \A m \in Messages : Publish(m) \in Packets \ Ends
  /\ \A m \in Messages : Qos[m] = 2 => Pubrel(m) \in Packets \ Ends
<1>1. \A x : {Subscribe(x), Unsubscribe(x), Publish(x), Pubrel(x)} \cap Ends = {}
  BY DEF Ends, Connect, Disconnect, Subscribe, Unsubscribe, Publish, Pubrel
<1> QED
  BY <1>1, PacketTypes

(* A packet joins the queue of a socket. *)
Joins == sock # "none" /\ \E p \in Packets \ Ends : out' = Append(out, p)

LEMMA MessageJoins ==
  ASSUME TypeOK, NEW m \in Messages, LoopAnswer(m) \/ LoopRetry(m)
  PROVE  out' = out \/ Joins
<1>1. CASE LoopAnswer(m)
  <2>1. PICK a \in answers :
          /\ a.message = m
          /\ out' = out \/ (a.type = "PUBREC" /\ out' = Append(out, Pubrel(m)))
    BY <1>1 DEF LoopAnswer
  <2>2. a.type = "PUBREC" => Qos[m] = 2
    BY <2>1, AnswerFields DEF TypeOK, MosqTypeOK, MessagesTypeOK
  <2> QED
    BY <1>1, <2>1, <2>2, OtherPacketsThanEnds DEF LoopAnswer, Joins
<1>2. CASE LoopRetry(m)
  <2>1. Resent(m) \in Packets \ Ends
    BY OtherPacketsThanEnds, WaitTypes DEF Resent, TypeOK, MosqTypeOK, MessagesTypeOK
  <2> QED
    BY <1>2, <2>1 DEF LoopRetry, Joins
<1> QED
  BY <1>1, <1>2

LEMMA CallJoins ==
  ASSUME TypeOK, Handed, NEW a \in Threads, SendPacket(a) \/ DoPublish(a) \/ SendNext(a)
  PROVE  out' = out \/ Joins
<1>1. CASE SendPacket(a)
  <2>1. PacketOf(a) \in Packets \ Ends
    BY OtherPacketsThanEnds DEF PacketOf, TypeOK, AppTypeOK
  <2>2. out' = out \/ (sock # "none" /\ out' = Append(out, PacketOf(a)))
    BY <1>1, <2>1 DEF SendPacket, CanSend, Send, TypeOK, MosqTypeOK, ClientTypeOK
  <2> QED
    BY <2>1, <2>2 DEF Joins
<1>2. CASE DoPublish(a)
  BY <1>2, OtherPacketsThanEnds DEF DoPublish, RequestPublish, CanSend, Handed, Joins
<1>3. CASE SendNext(a)
  <2>1. PICK t \in todo : out' = out \/ (sock # "none" /\ out' = out \o <<Subscribe(t)>>)
    BY <1>3 DEF SendNext, CanSend, Send
  <2>2. Subscribe(t) \in Packets \ Ends /\ out \in Seq(Packets)
    BY OtherPacketsThanEnds DEF TypeOK, AppTypeOK, MosqTypeOK, ClientTypeOK
  <2>3. out' = out \/ (sock # "none" /\ out' = Append(out, Subscribe(t)))
    BY <2>1, <2>2
  <2> QED
    BY <2>2, <2>3 DEF Joins
<1> QED
  BY <1>1, <1>2, <1>3

LEMMA QueueSteps ==
  ASSUME TypeOK, Handed, [Next]_vars
  PROVE  \/ out' = out
         \/ out' = <<>>
         \/ out # <<>> /\ out' = Tail(out)
         \/ Joins
         \/ LoopOpen /\ OpenSucceeds
         \/ \E a \in Threads : ConnectOpen(a) /\ OpenSucceeds
         \/ \E a \in Threads : EndDisconnect(a)
<1>1. CASE LoopStep /\ UNCHANGED appVars
  BY <1>1, MessageJoins DEF LoopStep, LoopNoConn, LoopTest, LoopStore, LoopWrite,
     LoopWriteDisconnect,
     LoopNoticesLoss, LoopCheck, LoopWake, LoopReset, Reset, LoopOpen, OpenFails
<1>2. CASE LoopConnected \/ LoopRefused \/ LoopDisconnected
  BY <1>2 DEF LoopConnected, LoopRefused, LoopDisconnected
<1>3. CASE (ConnectionLoss /\ UNCHANGED appVars) \/ UNCHANGED vars
  BY <1>3 DEF ConnectionLoss, vars, mosqVars
<1>4. ASSUME NEW a \in Threads,
             Begin(a) \/ Continue(a) \/ SpuriousWakeup(a) \/ ConnectExpire(a),
             ~EndDisconnect(a), ~(ConnectOpen(a) /\ OpenSucceeds)
      PROVE  out' = out \/ out' = <<>> \/ Joins
  <2>1. \/ SendPacket(a) \/ DoPublish(a) \/ SendNext(a) \/ out' = out \/ out' = <<>>
    BY <1>4 DEF Begin, Continue, CallConnect, CallDisconnect, CallDestroy, CallAdd,
       CallRemove, CallSend, ConnectReset, Reset, ConnectOpen, OpenFails, ConnectRetry,
       ConnectEstablished, ConnectReturn, ConnectSleep, ConnectThrow, DoDisconnect, Join,
          Check, SpuriousWakeup, ConnectExpire, mosqVars
  <2> QED
    BY <2>1, CallJoins
<1> QED
  BY <1>1, <1>2, <1>3, <1>4 DEF Next, LoopThread, Rest

LEMMA JoinsKeepsEnds ==
  ASSUME out \in Seq(Packets), Joins, NEW p \in Ends, ~Queued(p)
  PROVE  ~Queued(p)'
<1>1. PICK q \in Packets \ Ends : out' = Append(out, q)
  BY DEF Joins
<1> QED
  BY <1>1 DEF Queued

LEMMA QueuedEnds ==
  ASSUME TypeOK, Handed, [Next]_vars, NEW p \in Ends, ~Queued(p)
  PROVE  \/ ~Queued(p)'
         \/ p = Connect /\ LoopOpen /\ OpenSucceeds
         \/ p = Connect /\ \E a \in Threads : ConnectOpen(a) /\ OpenSucceeds
         \/ p = Disconnect /\ \E a \in Threads : EndDisconnect(a)
<1>1. out \in Seq(Packets)
  BY DEF TypeOK, MosqTypeOK, ClientTypeOK
<1>2. out' = out \/ out' = <<>> => ~Queued(p)'
  BY DEF Queued
<1>3. out # <<>> /\ out' = Tail(out) => ~Queued(p)'
  BY <1>1 DEF Queued
<1>4. ASSUME NEW q \in Ends, out' = Append(out, q), q # p PROVE ~Queued(p)'
  BY <1>1, <1>4 DEF Queued
<1>5. {Connect, Disconnect} = Ends
  BY DEF Ends
<1>6. CASE OpenSucceeds /\ p # Connect
  BY <1>4, <1>5, <1>6 DEF OpenSucceeds
<1>7. ASSUME NEW a \in Threads, EndDisconnect(a), p # Disconnect PROVE ~Queued(p)'
  BY <1>2, <1>4, <1>5, <1>7 DEF EndDisconnect, SendDisconnect
<1> QED
  BY <1>1, <1>2, <1>3, <1>5, <1>6, <1>7, QueueSteps, JoinsKeepsEnds

-----------------------------------------------------------------------------
(* The first part: whatever goes wrong                                     *)

(* The application keeps its connection: it does not disconnect, and it    *)
(* does not destroy the communicator.                                      *)
KeepsConnection ==
    \A way \in Operations : \A a \in Threads : way[a] \cap {"disconnect", "destroy"} = {}

Leaving == {"disconnect", "disconnectSend", "leave", "leaveSend", "join"}

NobodyLeaves ==
    /\ state # "disconnecting"
    /\ loop \notin {"left", "exited"}
    /\ \A a \in Threads : pc[a] \notin Leaving
    /\ ~Queued(Disconnect)

LEMMA NextNobodyLeaves ==
  ASSUME KeepsConnection, TypeOK, Handed, NobodyLeaves, [Next]_vars
  PROVE  NobodyLeaves'
<1> USE DEF NobodyLeaves, Leaving
<1>0. \A a \in Threads : ~DoDisconnect(a) /\ ~EndDisconnect(a)
  BY DEF DoDisconnect, EndDisconnect
<1>1. ~Queued(Disconnect)'
  BY <1>0, QueuedEnds DEF Ends, Connect, Disconnect
<1>2. state' # "disconnecting" /\ loop' \notin {"left", "exited"}
  <2>1. CASE LoopStep
    <3>1. ~LoopWriteDisconnect
      <4>1. out # <<>> /\ Head(out).type = "DISCONNECT" => out[1] = Disconnect /\ 1 \in DOMAIN out
        BY DEF TypeOK, MosqTypeOK, ClientTypeOK, Packets, Connect, Disconnect, Subscribe,
           Unsubscribe, Publish, Pubrel
      <4> QED
        BY <4>1 DEF LoopWriteDisconnect, Queued
    <3> QED
      BY <2>1, <3>1 DEF LoopStep, LoopNoConn, LoopTest, LoopStore, LoopWrite,
         LoopNoticesLoss, LoopClose, LoopCheck,
         LoopWake, LoopReset, Reset, LoopOpen, OpenSucceeds, OpenFails, LoopAnswer, LoopRetry
  <2>2. CASE LoopConnected \/ LoopRefused \/ LoopDisconnected
    BY <2>2 DEF LoopConnected, LoopRefused, LoopDisconnected, LoopClose
  <2>3. CASE ConnectionLoss \/ UNCHANGED vars
    BY <2>3 DEF ConnectionLoss, vars, mosqVars
  <2>4. ASSUME NEW a \in Threads,
               Begin(a) \/ Continue(a) \/ SpuriousWakeup(a) \/ ConnectExpire(a)
        PROVE  state' \in {state, "new"} /\ loop' \in {loop, "run", "broken"}
    BY <1>0, <2>4 DEF Begin, Continue, CallConnect, CallDisconnect, CallDestroy, CallAdd,
       CallRemove, CallSend, ConnectReset, Reset, ConnectOpen, OpenSucceeds, OpenFails,
       ConnectRetry, ConnectEstablished, SendNext, ConnectReturn, ConnectSleep, ConnectThrow,
       Join, Check, SendPacket, DoPublish, SpuriousWakeup, ConnectExpire, mosqVars
  <2> QED
    BY <2>1, <2>2, <2>3, <2>4 DEF Next, LoopThread, Rest
<1>3. \A b \in Threads : pc'[b] \notin Leaving
  <2> USE DEF TypeOK, AppTypeOK
  <2>1. CASE LoopThread \/ (ConnectionLoss /\ UNCHANGED appVars) \/ UNCHANGED vars
    BY <2>1 DEF LoopThread, LoopConnected, LoopRefused, LoopDisconnected, OnConnect, Sleepers,
       Goto, vars, appVars
  <2>2. ASSUME NEW a \in Threads,
               Begin(a) \/ Continue(a) \/ SpuriousWakeup(a) \/ ConnectExpire(a)
        PROVE  \A b \in Threads : pc'[b] \notin Leaving
    <3>1. ~CallDisconnect(a) /\ ~CallDestroy(a)
      BY DEF CallDisconnect, CallDestroy, MayCall, KeepsConnection, CallTypeOK
    <3>2. pc' = pc \/ \E place \in Places \ Leaving : pc' = [pc EXCEPT ![a] = place]
      BY <1>0, <2>2, <3>1 DEF Begin, Continue, CallConnect, CallAdd, CallRemove, CallSend,
       ConnectReset, ConnectOpen, ConnectRetry, ConnectEstablished, SendNext, ConnectReturn,
       ConnectSleep, ConnectThrow, Join, Check, SendPacket, DoPublish, SpuriousWakeup,
       ConnectExpire, Goto, Places
    <3> QED
      BY <3>2
  <2> QED
    BY <2>1, <2>2 DEF Next, Rest
<1> QED
  BY <1>1, <1>2, <1>3

LEMMA ThreadFlagOutlives ==
  ASSUME FlagOutlives, NEW a \in Threads,
         Begin(a) \/ Continue(a) \/ SpuriousWakeup(a) \/ ConnectExpire(a)
  PROVE  FlagOutlives'
<1> USE DEF FlagOutlives, Working
<1>0. NoSession => ~resubscribed'
  BY DEF NoSession
<1>1. CASE ConnectReset(a)
  BY <1>0, <1>1 DEF ConnectReset, Reset, CloseSocket
<1>2. CASE ConnectOpen(a)
  BY <1>0, <1>2 DEF ConnectOpen, OpenSucceeds, OpenFails
<1>3. CASE ConnectEstablished(a)
  BY <1>3 DEF ConnectEstablished, Established
<1>4. \/ ConnectReset(a) \/ ConnectOpen(a) \/ ConnectEstablished(a)
      \/ UNCHANGED <<loop, connected, resubscribed>>
  BY DEF Begin, Continue, CallConnect, CallDisconnect, CallDestroy, CallAdd,
     CallRemove, CallSend, ConnectRetry, SendNext, ConnectReturn, ConnectSleep, ConnectThrow,
     DoDisconnect, EndDisconnect, Join, Check, SendPacket, DoPublish, SpuriousWakeup,
        ConnectExpire, mosqVars
<1> QED
  BY <1>1, <1>2, <1>3, <1>4

(* After on_disconnect the loop thread reconnects, and it begins a         *)
(* connection without the subscriptions - unless the connection was given  *)
(* up ("left").                                                            *)
LEMMA NextFlagOutlives ==
  ASSUME FlagOutlives, loop = "left" => ~resubscribed, [Next]_vars
  PROVE  FlagOutlives'
<1> USE DEF FlagOutlives, Working
<1>0. NoSession => ~resubscribed'
  BY DEF NoSession
<1>1. CASE LoopStep /\ UNCHANGED appVars
  BY <1>0, <1>1 DEF LoopStep, LoopNoConn, LoopTest, LoopStore, LoopWrite,
     LoopWriteDisconnect, LoopNoticesLoss,
     LoopClose, CloseSocket, LoopCheck, LoopWake, LoopReset, Reset, LoopOpen, OpenSucceeds,
     OpenFails, LoopAnswer, LoopRetry, appVars
<1>2. CASE LoopConnected \/ LoopRefused \/ LoopDisconnected
  BY <1>0, <1>2 DEF LoopConnected, OnConnect, LoopRefused, LoopDisconnected, LoopClose,
     CloseSocket
<1>3. CASE (ConnectionLoss /\ UNCHANGED appVars) \/ UNCHANGED vars
  BY <1>3 DEF ConnectionLoss, vars, mosqVars, appVars
<1> QED
  BY <1>1, <1>2, <1>3, ThreadFlagOutlives DEF Next, LoopThread, Rest

ResubscribedInv ==
    TypeOK /\ Handed /\ SubscriberInv /\ NobodyLeaves /\ FlagOutlives /\ NoneIsMissing

LEMMA InitResubscribed == Init => ResubscribedInv
<1> SUFFICES ASSUME Init PROVE ResubscribedInv
  OBVIOUS
<1>1. NobodyLeaves /\ FlagOutlives /\ NoneIsMissing
  BY DEF Init, MosqInit, NobodyLeaves, Leaving, Queued, FlagOutlives, NoneIsMissing
<1> QED
  BY <1>1, InitTypeOK, InitHanded, InitSubscriber DEF ResubscribedInv

(* Once connect_to_broker has resubscribed on a connection, the broker     *)
(* sends for every topic of the map when things have settled, as long as   *)
(* that connection lasts: whatever add_subscription and                    *)
(* remove_subscription did meanwhile, whatever has gone wrong before, and  *)
(* however many threads were in connect_to_broker at once.                 *)
THEOREM ResubscriptionIsComplete ==
  ASSUME OneSubscriber, KeepsConnection
  PROVE  Spec => []ResubscribedIsComplete
<1>1. ResubscribedInv /\ [Next]_vars => ResubscribedInv'
  <2> SUFFICES ASSUME ResubscribedInv, [Next]_vars PROVE ResubscribedInv'
    OBVIOUS
  <2> USE DEF ResubscribedInv
  <2>1. TypeOK' /\ Handed' /\ SubscriberInv' /\ NobodyLeaves' /\ FlagOutlives'
    BY NextTypeOK, NextHanded, NextSubscriber, NextNobodyLeaves, NextFlagOutlives
       DEF NobodyLeaves
  <2>2. NoneIsMissing'
    BY <2>1, NextNoneIsMissing
  <2> QED
    BY <2>1, <2>2
<1>2. ResubscribedInv => ResubscribedIsComplete
  BY DEF ResubscribedInv, NoneIsMissing, ResubscribedIsComplete, Settled, Adding,
     WillBeGranted, Working, SubscriberInv, TodoIsAtHand
<1> QED
  BY <1>1, <1>2, InitResubscribed, PTL DEF Spec

-----------------------------------------------------------------------------
(* The second part: nothing goes wrong                                     *)

(* The connection, too, is one thread's business, which waits for it as    *)
(* long as it takes, and the broker can be reached and keeps it up.        *)
ConnectionCalls == {"connect", "disconnect", "destroy"}

Calm ==
    /\ Faults = {} /\ Timeouts \subseteq {"max"} /\ ~Overlap
    /\ \A way \in Operations : \A a, b \in Threads :
          way[a] \cap ConnectionCalls # {} /\ way[b] \cap ConnectionCalls # {} => a = b

ConnectionPlaces ==
    {"reset", "open", "retry", "await", "asleep", "expired", "resubscribe",
     "disconnect", "disconnectSend", "leave", "leaveSend", "join", "gone"}

Somebody(places) == \E a \in Threads : pc[a] \in places

ConnectorCalls ==
    \A a \in Threads : pc[a] \in ConnectionPlaces => may[a] \cap ConnectionCalls # {}

NothingFails ==
    /\ \A a \in Threads : timeout[a] = "max"
    /\ ~Somebody({"retry", "expired"})
    /\ loop # "lost" /\ sock # "dead" /\ connack # "refused"

NoSessionYet == ~session /\ connack = "none"

(* Nobody waits for a connection and there is none: if there was one it    *)
(* was given up, and the loop thread is on its way out.                    *)
Closed ==
    /\ sock = "none" /\ NoSessionYet
    /\ loop \notin {"open", "left"}
    /\ host => loop \in {"run", "broken", "exited"} /\ state = "disconnecting"

(* Between the two halves of connect() or reconnect(). *)
Opening ==
    /\ ~connected /\ sock = "none" /\ NoSessionYet
    /\ out = <<>> /\ host /\ state = "new" /\ loop \notin {"open", "left"}

(* connect_to_broker waits.  The loop thread may just have woken up and    *)
(* replace the connection by its own; then CONNECT is to be written, then  *)
(* the CONNACK read.                                                       *)
Reconnecting == loop = "open" /\ sock = "none" /\ NoSessionYet /\ out = <<>>

ConnectFirst ==
    /\ loop # "open" /\ sock = "open" /\ NoSessionYet
    /\ out # <<>> /\ out[1] = Connect
    /\ \A i \in DOMAIN out : out[i] = Connect => i = 1

Accepted == loop = "run" /\ sock = "open" /\ session /\ connack = "accepted" /\ ~Queued(Connect)

Waiting ==
    /\ host /\ state = "new" /\ loop # "left" /\ ~Queued(Disconnect)
    /\ Reconnecting \/ ConnectFirst \/ Accepted

(* The flag is set: there is a session, or DISCONNECT has ended it and     *)
(* on_disconnect is about to be called.                                    *)
Connected ==
    /\ host /\ connack = "none" /\ ~Somebody({"reset", "open", "asleep"})
    /\ loop = "left" \/ Queued(Disconnect) => state = "disconnecting"
    /\ Somebody({"await", "resubscribe"}) => loop \in Working /\ state # "disconnecting"
    /\ \/ loop \in Working /\ sock = "open" /\ session /\ ~Queued(Connect)
       \/ loop = "left" /\ sock = "none" /\ ~session
    /\ loop \in Working /\ ~Somebody({"await"}) => resubscribed

Phases ==
    /\ Somebody({"open"}) => Opening
    /\ ~connected /\ Somebody({"await", "asleep"}) => Waiting
    /\ ~connected /\ ~Somebody({"open", "await", "asleep"}) => Closed
    /\ connected => Connected
    /\ loop \in {"test", "store"} \/ Somebody({"resubscribe"}) => connected
    /\ Somebody({"disconnectSend", "leaveSend"}) => state = "disconnecting"

CalmInv == ConnectorCalls /\ NothingFails /\ Phases

(* What cannot be excluded is that the loop thread, which calls on_connect *)
(* before it is done with the CONNACK, overwrites the disconnect of a      *)
(* caller that on_connect has woken up.                                    *)
CalmUnlessErased == erased \/ CalmInv

(* Where the one thread is is where somebody is. *)
LEMMA OnePlace ==
  ASSUME Calm, TypeOK, ConnectorCalls, NEW a \in Threads,
         pc[a] \in ConnectionPlaces \/ may[a] \cap ConnectionCalls # {},
         NEW place, pc' = [pc EXCEPT ![a] = place]
  PROVE  \A places \in SUBSET ConnectionPlaces :
            /\ Somebody(places) <=> pc[a] \in places
            /\ Somebody(places)' <=> place \in places
<1>1. \A b \in Threads \ {a} : pc[b] \notin ConnectionPlaces
  BY DEF Calm, ConnectorCalls, TypeOK, CallTypeOK
<1>2. pc'[a] = place /\ \A b \in Threads \ {a} : pc'[b] = pc[b]
  BY DEF TypeOK, AppTypeOK
<1> QED
  BY <1>1, <1>2 DEF Somebody

(* Steps of threads on other business. *)
LEMMA SamePlaces ==
  ASSUME \A b \in Threads : pc'[b] = pc[b] \/ {pc[b], pc'[b]} \cap ConnectionPlaces = {},
         NEW places \in SUBSET ConnectionPlaces
  PROVE  Somebody(places)' <=> Somebody(places)
  BY DEF Somebody

ThePlaces ==
    {{"open"}, {"await"}, {"await", "asleep"}, {"open", "await", "asleep"},
     {"reset", "open", "asleep"}, {"retry", "expired"}, {"resubscribe"},
     {"await", "resubscribe"}, {"disconnectSend", "leaveSend"}}

LEMMA PlacesOfInterest == ThePlaces \subseteq SUBSET ConnectionPlaces
  BY DEF ThePlaces, ConnectionPlaces

LEMMA InConnectPlaces ==
  Somebody({"open", "await", "asleep"}) <=> Somebody({"open"}) \/ Somebody({"await", "asleep"})
  BY DEF Somebody

(* Steps that keep the connection and only queue something on it.          *)
LEMMA QuietPhases ==
  ASSUME TypeOK, Phases, out' = out \/ Joins,
         UNCHANGED <<state, host, sock, loop, session, connack, connected, resubscribed>>,
         \A places \in ThePlaces : Somebody(places)' <=> Somebody(places)
  PROVE  Phases'
<1>1. out \in Seq(Packets)
  BY DEF TypeOK, MosqTypeOK, ClientTypeOK
<1>2. \A p \in Ends : ~Queued(p) => ~Queued(p)'
  BY <1>1, JoinsKeepsEnds DEF Queued
<1>3. sock = "none" => out' = out
  BY DEF Joins
<1>4. ConnectFirst => ConnectFirst'
  <2>1. CASE out' = out
    BY <2>1 DEF ConnectFirst, NoSessionYet
  <2>2. ASSUME NEW p \in Packets \ Ends, out' = Append(out, p), ConnectFirst
        PROVE  ConnectFirst'
    <3>1. /\ out' # <<>> /\ out'[1] = Connect
          /\ \A i \in DOMAIN out' : out'[i] = p \/ (i \in DOMAIN out /\ out'[i] = out[i])
      BY <1>1, <2>2 DEF ConnectFirst
    <3>2. p # Connect
      BY DEF Ends
    <3> QED
      BY <2>2, <3>1, <3>2 DEF ConnectFirst, NoSessionYet
  <2> QED
    BY <2>1, <2>2 DEF Joins
<1>5. Waiting => Waiting'
  BY <1>2, <1>3, <1>4 DEF Waiting, Reconnecting, Accepted, NoSessionYet, Ends
<1>6. Opening => Opening'
  BY <1>3 DEF Opening, NoSessionYet
<1>7. Closed => Closed'
  BY DEF Closed, NoSessionYet
<1>8. Connected => Connected'
  BY <1>2 DEF Connected, Ends, ThePlaces
<1> QED
  BY <1>5, <1>6, <1>7, <1>8 DEF Phases, ThePlaces

LEMMA NoFault == ASSUME Calm, NEW kind, Fault(kind) PROVE FALSE
  BY DEF Calm, Fault

(* The loop thread writes a packet. *)
LEMMA WritePhases ==
  ASSUME Calm, TypeOK, Handed, CalmInv, LoopWrite, UNCHANGED appVars, [Next]_vars
  PROVE  Phases' /\ sock' # "dead" /\ connack' # "refused"
<1>1. /\ out \in Seq(Packets) /\ Head(out) \in Packets /\ out # <<>> /\ out' = Tail(out)
      /\ 1 \in DOMAIN out /\ Head(out) = out[1]
      /\ loop = "run" /\ sock = "open" /\ OnPacket(Head(out))
      /\ UNCHANGED <<state, host, loop, resubscribed, connected, pc>>
  BY HeadTailType DEF LoopWrite, TypeOK, MosqTypeOK, ClientTypeOK, appVars
<1>2. \A p \in Ends : ~Queued(p) => ~Queued(p)'
  BY <1>1 DEF Queued
<1>3. \A places : Somebody(places)' <=> Somebody(places)
  BY <1>1 DEF Somebody
<1>4. CASE session
  <2>1. ~Queued(Connect) /\ (Accepted \/ Connected)
    BY <1>1, <1>4, InConnectPlaces DEF CalmInv, Phases, Opening, Waiting, Closed, Connected,
       Reconnecting,
       ConnectFirst, Accepted, NoSessionYet, Working
  <2>2. Head(out) # Connect
    BY <1>1, <2>1 DEF Queued
  <2>3. Head(out).type # "CONNECT"
    BY <1>1, <2>2 DEF Packets, Connect, Disconnect, Subscribe, Unsubscribe, Publish, Pubrel
  <2>4. UNCHANGED <<sock, session, connack>>
    BY <1>1, <1>4, <2>3 DEF OnPacket, OnSubscriptionPacket, OnMessagePacket
  <2>5. Accepted => Accepted'
    BY <1>1, <1>2, <2>4 DEF Accepted, Ends
  <2>6. Waiting => Waiting'
    BY <1>1, <1>2, <1>4, <2>4, <2>5
       DEF Waiting, Ends, Reconnecting, ConnectFirst, NoSessionYet
  <2>7. Connected => Connected'
    BY <1>1, <1>2, <1>3, <2>4 DEF Connected, Ends
  <2>8. ~Opening /\ ~Closed
    BY <1>1 DEF Opening, Closed
  <2> QED
    BY <1>1, <1>3, <2>4, <2>6, <2>7, <2>8 DEF CalmInv, Phases, NothingFails
<1>5. CASE ~session
  <2>1. ~connected /\ Waiting /\ ConnectFirst /\ Somebody({"await", "asleep"})
        /\ ~Somebody({"open"}) /\ ~Somebody({"resubscribe"})
        /\ (Somebody({"disconnectSend", "leaveSend"}) => state = "disconnecting")
    BY <1>1, <1>5, InConnectPlaces DEF CalmInv, Phases, Opening, Waiting, Closed, Connected,
       Reconnecting, Accepted, Working
  <2>2. Head(out) = Connect /\ session = FALSE /\ connack = "none"
    BY <1>1, <2>1 DEF ConnectFirst, NoSessionYet, TypeOK, MosqTypeOK, ClientTypeOK
  <2>3. OnConnectPacket
    BY <1>1, <2>2 DEF OnPacket, OnMessagePacket, Connect
  <2>4. session' = TRUE /\ connack' = "accepted" /\ sock' = sock
    BY <2>2, <2>3, NoFault DEF OnConnectPacket, AcceptConnect, RefuseConnect
  <2>5. ~Queued(Connect)'
    <3>1. \A i \in DOMAIN out' : i + 1 \in DOMAIN out /\ out'[i] = out[i + 1] /\ i + 1 # 1
      BY <1>1
    <3> QED
      BY <2>1, <3>1 DEF ConnectFirst, Queued
  <2>6. Waiting'
    BY <1>1, <1>2, <2>1, <2>4, <2>5 DEF Waiting, Accepted, Ends
  <2>7. /\ ~Somebody({"open"})' /\ Somebody({"await", "asleep"})' /\ ~connected'
        /\ ~Somebody({"resubscribe"})' /\ loop' = "run"
        /\ (Somebody({"disconnectSend", "leaveSend"})' => state' = "disconnecting")
    BY <1>1, <1>3, <2>1
  <2>8. ~Somebody({"open", "await", "asleep"})' => FALSE
    BY <2>7 DEF Somebody
  <2> QED
    BY <1>1, <2>4, <2>6, <2>7, <2>8 DEF Phases
<1> QED
  BY <1>4, <1>5

(* The loop thread replaces the connection, while connect_to_broker waits. *)
LEMMA ReplacePhases ==
  ASSUME Calm, TypeOK, CalmInv, LoopReset \/ LoopOpen, UNCHANGED appVars,
         loop = "reconnect" => MayReset
  PROVE  Phases' /\ sock' # "dead" /\ connack' # "refused" /\ loop' # "lost"
<1>1. UNCHANGED <<connected, pc, host>> /\ \A places : Somebody(places)' <=> Somebody(places)
  BY DEF appVars, Somebody, LoopReset, LoopOpen
<1>2. NoSession => NoSessionYet'
  BY DEF NoSession, NoSessionYet
<1>6. ~connected /\ ~Somebody({"resubscribe"})' /\ loop' \notin {"test", "store"}
  <2>1. ~connected
    BY DEF CalmInv, Phases, Connected, Working, LoopReset, LoopOpen
  <2>2. loop' \in {"open", "broken", "run"}
    BY DEF LoopReset, LoopOpen
  <2> QED
    BY <1>1, <2>1, <2>2 DEF CalmInv, Phases
<1>3. CASE LoopReset /\ host
  <2>1. /\ ~connected /\ ~Somebody({"open"}) /\ Somebody({"await", "asleep"}) /\ Waiting
    BY <1>3 DEF CalmInv, Phases, Closed, Connected, MayReset, Calm, Somebody, LoopReset, Working
  <2>2. /\ Reconnecting' /\ host' /\ state' = "new" /\ loop' = "open" /\ out' = <<>>
    BY <1>1, <1>2, <1>3 DEF LoopReset, Reset, CloseSocket, Reconnecting
  <2>3. Waiting'
    BY <2>2 DEF Waiting, Queued
  <2>4. /\ ~connected' /\ ~Somebody({"open"})' /\ Somebody({"await", "asleep"})'
        /\ Somebody({"open", "await", "asleep"})'
    BY <1>1, <2>1 DEF Somebody
  <2>5. ~Somebody({"disconnectSend", "leaveSend"})'
    BY <1>1, <2>1 DEF CalmInv, Phases, Waiting
  <2> QED
    BY <1>6, <2>2, <2>3, <2>4, <2>5 DEF Phases, Reconnecting, NoSessionYet
<1>4. CASE LoopReset /\ ~host
  <2>1. ~connected /\ ~Somebody({"open"}) /\ ~Somebody({"await", "asleep"}) /\ Closed
    BY <1>4 DEF CalmInv, Phases, Opening, Waiting, Connected, Somebody
  <2>2. Closed' /\ loop' = "broken" /\ UNCHANGED <<state, sock, connack>>
    BY <1>1, <1>4, <2>1 DEF LoopReset, Closed, NoSessionYet
  <2> QED
    BY <1>1, <1>6, <2>1, <2>2 DEF Phases, CalmInv, NothingFails
<1>5. CASE LoopOpen
  <2>1. /\ loop = "open" /\ OpenSucceeds /\ loop' = "run"
    BY <1>5, NoFault DEF LoopOpen, OpenFails
  <2>2. ~connected /\ ~Somebody({"open"}) /\ Somebody({"await",
     "asleep"}) /\ Waiting /\ Reconnecting
    BY <2>1 DEF CalmInv, Phases, Opening, Closed, Connected, Waiting, ConnectFirst, Accepted,
       Working, Somebody
  <2>3. out' = <<Connect>> /\ state' = "new" /\ sock' = "open" /\ NoSessionYet'
    BY <1>2, <2>1, <2>2 DEF OpenSucceeds, Reconnecting, Waiting
  <2>4. ConnectFirst' /\ ~Queued(Disconnect)'
    BY <2>1, <2>3 DEF ConnectFirst, Queued, Connect, Disconnect
  <2>5. Waiting'
    BY <1>1, <2>1, <2>2, <2>3, <2>4 DEF Waiting
  <2>6. /\ ~connected' /\ ~Somebody({"open"})' /\ Somebody({"await", "asleep"})'
        /\ Somebody({"open", "await", "asleep"})'
    BY <1>1, <2>2 DEF Somebody
  <2>7. ~Somebody({"disconnectSend", "leaveSend"})'
    BY <1>1, <2>2 DEF CalmInv, Phases, Waiting
  <2> QED
    BY <1>6, <2>1, <2>3, <2>5, <2>6, <2>7 DEF Phases, NoSessionYet
<1> QED
  BY <1>3, <1>4, <1>5

LEMMA LoopStepPhases ==
  ASSUME Calm, TypeOK, Handed, CalmInv, LoopStep, UNCHANGED appVars,
         loop = "reconnect" => MayReset, [Next]_vars, ~erased'
  PROVE  Phases' /\ sock' # "dead" /\ connack' # "refused" /\ loop' # "lost"
<1>1. UNCHANGED <<connected, pc>> /\ \A places : Somebody(places)' <=> Somebody(places)
  BY DEF appVars, Somebody
<1>2. CASE LoopNoConn \/ LoopCheck \/ LoopWake
  <2>1. /\ loop \notin {"open", "left"}
        /\ loop' \notin {"open", "left", "lost", "run", "test", "store"}
        /\ UNCHANGED <<state, host, sock, out, session, connack>>
        /\ state = "disconnecting" /\ loop # "sleep" => loop' \in {"broken", "exited"}
        /\ loop \in Working => sock = "none"
    BY <1>2 DEF LoopNoConn, LoopCheck, LoopWake, Working
  <2>2. Opening => Opening'
    BY <1>1, <2>1 DEF Opening, NoSessionYet
  <2>3. Waiting => Waiting'
    BY <2>1 DEF Waiting, Reconnecting, ConnectFirst, Accepted, NoSessionYet, Queued, Working
  <2>4. Closed => Closed'
    BY <2>1 DEF Closed, NoSessionYet
  <2>5. ~Connected
    BY <2>1 DEF Connected, Working
  <2> QED
    BY <1>1, <2>1, <2>2, <2>3, <2>4, <2>5 DEF Phases, CalmInv, NothingFails
<1>3. CASE LoopWrite
  BY <1>3, WritePhases DEF LoopWrite, CalmInv, NothingFails
<1>4. CASE LoopWriteDisconnect
  <2>1. Queued(Disconnect) /\ sock = "open" /\ loop = "run"
    BY <1>4 DEF LoopWriteDisconnect, Queued, TypeOK, MosqTypeOK, ClientTypeOK, Packets, Connect,
       Disconnect, Subscribe, Unsubscribe, Publish, Pubrel
  <2>2. connected /\ Connected
    BY <2>1 DEF CalmInv, Phases, Opening, Waiting, Closed, Somebody
  <2>6. state = "disconnecting" /\ ~Somebody({"resubscribe"})'
    BY <1>1, <2>1, <2>2 DEF Connected, Somebody
  <2>3. /\ loop' = "left" /\ sock' = "none" /\ ~session' /\ connack' = "none"
        /\ UNCHANGED <<state, host>>
    BY <1>4 DEF LoopWriteDisconnect, CloseSocket, NoSession
  <2>4. ~Somebody({"await", "resubscribe"})'
    BY <1>1, <2>2, <2>6 DEF Connected
  <2>7. Connected'
    BY <1>1, <2>1, <2>2, <2>3, <2>4, <2>6 DEF Connected, Working
  <2>5. ~Somebody({"open"})'
    BY <1>1, <2>2 DEF Connected, Somebody
  <2> QED
    BY <1>1, <2>2, <2>3, <2>5, <2>6, <2>7 DEF Phases
<1>5. ~LoopNoticesLoss
  BY DEF LoopNoticesLoss, CalmInv, NothingFails
<1>6. CASE LoopReset \/ LoopOpen
  BY <1>6, ReplacePhases
<1>7. ASSUME NEW m \in Messages, LoopAnswer(m) \/ LoopRetry(m)
      PROVE  Phases' /\ sock' # "dead" /\ connack' # "refused" /\ loop' # "lost"
  <2>1. UNCHANGED <<state, host, sock, loop, session, connack, resubscribed>>
    BY <1>7 DEF LoopAnswer, LoopRetry
  <2>2. out' = out \/ Joins
    BY <1>7, MessageJoins
  <2> QED
    BY <1>1, <2>1, <2>2, QuietPhases DEF CalmInv, NothingFails
<1>8. CASE LoopTest \/ LoopStore
  <2>1. /\ connected /\ Connected /\ loop \in Working /\ loop' \in Working
        /\ UNCHANGED <<host, sock, out, session, connack, resubscribed>>
    BY <1>8 DEF LoopTest, LoopStore, Working, CalmInv, Phases
  <2>2. state' = state \/ (state' = "connected" /\ state # "disconnecting")
    BY <1>8 DEF LoopTest, LoopStore
  <2>3. Connected'
    BY <1>1, <2>1, <2>2 DEF Connected, Working, Queued
  <2>4. ~Somebody({"open"})'
    BY <1>1, <2>1 DEF Connected, Somebody
  <2> QED
    BY <1>1, <2>1, <2>2, <2>3, <2>4 DEF CalmInv, Phases, NothingFails, Working
<1> QED
  BY <1>2, <1>3, <1>4, <1>5, <1>6, <1>7, <1>8 DEF LoopStep

(* The callbacks. *)
LEMMA CallbackCalm ==
  ASSUME Calm, TypeOK, CalmInv, LoopConnected \/ LoopRefused \/ LoopDisconnected
  PROVE  CalmInv'
<1>1. ~LoopRefused
  BY DEF LoopRefused, CalmInv, NothingFails
<1>2. CASE LoopConnected
  <2>1. /\ loop = "run" /\ connack = "accepted" /\ connected' = TRUE /\ connack' = "none"
        /\ loop' = "test" /\ UNCHANGED <<state, host, sock, out, session, timeout, may>>
    BY <1>2 DEF LoopConnected, OnConnect, callVars
  <2>2. /\ ~connected /\ Waiting /\ Accepted /\ Somebody({"await", "asleep"})
    BY <2>1, InConnectPlaces DEF CalmInv, Phases, Opening, Waiting, Closed, Connected,
       Reconnecting, ConnectFirst, NoSessionYet
  <2>3. PICK a \in Threads : pc[a] \in {"await", "asleep"}
    BY <2>2 DEF Somebody
  <2>4. pc' = [pc EXCEPT ![a] = "await"]
    <3>1. \A b \in Sleepers : b = a
      BY <2>3 DEF Sleepers, ConnectionPlaces, CalmInv, ConnectorCalls, Calm, TypeOK, CallTypeOK
    <3>2. CASE pc[a] = "asleep"
      BY <1>2, <3>1, <3>2 DEF LoopConnected, OnConnect, Sleepers, Goto
    <3>3. CASE pc[a] = "await"
      <4>1. Sleepers = {}
        BY <3>1, <3>3 DEF Sleepers
      <4>2. pc' = pc
        BY <1>2, <4>1 DEF LoopConnected, OnConnect
      <4> QED
        BY <3>3, <4>2 DEF TypeOK, AppTypeOK
    <3> QED
      BY <2>3, <3>2, <3>3
  <2>5. \A places \in SUBSET ConnectionPlaces : Somebody(places)' <=> "await" \in places
    BY <2>3, <2>4, OnePlace DEF CalmInv, ConnectionPlaces
  <2>6. /\ Somebody({"await"})' /\ ~Somebody({"reset", "open", "asleep"})'
        /\ ~Somebody({"open"})' /\ ~Somebody({"retry", "expired"})'
        /\ ~Somebody({"disconnectSend", "leaveSend"})'
    BY <2>5, PlacesOfInterest DEF ThePlaces
  <2>7. Connected'
    BY <2>1, <2>2, <2>6 DEF Waiting, Accepted, Connected, Queued, Working
  <2>8. ConnectorCalls'
    BY <2>1, <2>3, <2>4 DEF CalmInv, ConnectorCalls, ConnectionPlaces, TypeOK, AppTypeOK
  <2> QED
    BY <2>1, <2>6, <2>7, <2>8 DEF CalmInv, Phases, NothingFails
<1>3. CASE LoopDisconnected
  <2>1. /\ loop = "left" /\ loop' = "run" /\ ~connected'
        /\ UNCHANGED <<state, host, sock, session, connack, pc, timeout, may>>
    BY <1>3 DEF LoopDisconnected, ClearFlag, CalmInv, NothingFails, callVars
  <2>7. ~Somebody({"resubscribe"})
    BY <1>3 DEF LoopDisconnected, MutexesFree, Somebody
  <2>2. connected /\ Connected
    BY <2>1, InConnectPlaces DEF CalmInv, Phases, Opening, Waiting, Closed
  <2>3. Closed'
    BY <2>1, <2>2 DEF Connected, Closed, NoSessionYet, Working
  <2>4. \A places : Somebody(places)' <=> Somebody(places)
    BY <2>1 DEF Somebody
  <2>5. ~Somebody({"open"}) /\ ~Somebody({"await", "asleep"})
    BY <2>1, <2>2 DEF Connected, Somebody, Working
  <2>6. ConnectorCalls'
    BY <2>1 DEF CalmInv, ConnectorCalls
  <2> QED
    BY <2>1, <2>3, <2>4, <2>5, <2>6, <2>7 DEF CalmInv, Phases, NothingFails
<1> QED
  BY <1>1, <1>2, <1>3

(* A thread that is about the connection leaves the thread's places to it. *)
LEMMA StepPlaces ==
  ASSUME Calm, TypeOK, CalmInv, NEW a \in Threads,
         pc[a] \in ConnectionPlaces \/ may[a] \cap ConnectionCalls # {},
         NEW place, pc' = [pc EXCEPT ![a] = place], may' = may,
         place \notin {"retry", "expired"}
  PROVE  /\ ConnectorCalls' /\ ~Somebody({"retry", "expired"})'
         /\ \A places \in ThePlaces :
               /\ Somebody(places) <=> pc[a] \in places
               /\ Somebody(places)' <=> place \in places
<1>1. \A places \in ThePlaces :
         /\ Somebody(places) <=> pc[a] \in places
         /\ Somebody(places)' <=> place \in places
  BY OnePlace, PlacesOfInterest DEF CalmInv
<1>2. may[a] \cap ConnectionCalls # {}
  BY DEF CalmInv, ConnectorCalls
<1> QED
  BY <1>1, <1>2 DEF ThePlaces, CalmInv, ConnectorCalls, TypeOK, AppTypeOK

(* connect_to_broker *)
LEMMA ConnectCalm ==
  ASSUME Calm, TypeOK, Handed, CalmInv, NEW a \in Threads,
         \/ \E d \in Timeouts : CallConnect(a, d)
         \/ ConnectReset(a) \/ ConnectOpen(a) \/ ConnectRetry(a) \/ ConnectEstablished(a)
         \/ SendNext(a) \/ ConnectReturn(a) \/ ConnectSleep(a) \/ SpuriousWakeup(a)
         \/ ConnectExpire(a) \/ ConnectThrow(a)
  PROVE  CalmInv'
<1> USE DEF ThePlaces
<1>0. pc[a] # "retry" /\ pc[a] # "expired" /\ timeout[a] = "max"
  BY DEF CalmInv, NothingFails, Somebody
<1>1. ASSUME NEW d \in Timeouts, CallConnect(a, d) PROVE CalmInv'
  <2>1. /\ pc' = [pc EXCEPT ![a] = "reset"] /\ pc[a] = "idle" /\ ~connected /\ may' = may
        /\ may[a] \cap ConnectionCalls # {}
        /\ UNCHANGED <<mosqVars, connected>>
    BY <1>1 DEF CallConnect, MayCall, Goto, callVars, ConnectionCalls
  <2>2. /\ ConnectorCalls' /\ ~Somebody({"retry", "expired"})'
        /\ \A places \in ThePlaces :
              /\ Somebody(places) <=> "idle" \in places
              /\ Somebody(places)' <=> "reset" \in places
    <3> HIDE DEF ThePlaces
    <3> QED
      BY <2>1, StepPlaces
  <2>3. Closed'
    BY <2>1, <2>2 DEF CalmInv, Phases, Closed, NoSessionYet, mosqVars
  <2>4. \A b \in Threads : timeout'[b] = "max"
    BY <1>1 DEF CallConnect, Calm, CalmInv, NothingFails, TypeOK, AppTypeOK
  <2> QED
    BY <2>1, <2>2, <2>3, <2>4 DEF CalmInv, Phases, NothingFails, mosqVars
<1>2. CASE ConnectReset(a)
  <2>1. /\ pc[a] = "reset" /\ pc' = [pc EXCEPT ![a] = "open"] /\ may' = may
        /\ pc[a] \in ConnectionPlaces
    BY <1>2 DEF ConnectReset, Goto, callVars, ConnectionPlaces
  <2>2. /\ ConnectorCalls' /\ ~Somebody({"retry", "expired"})'
        /\ \A places \in ThePlaces :
              /\ Somebody(places) <=> "reset" \in places
              /\ Somebody(places)' <=> "open" \in places
    <3> HIDE DEF ThePlaces
    <3> QED
      BY <2>1, StepPlaces
  <2>3. Somebody({"reset", "open", "asleep"}) /\ ~Somebody({"open", "await", "asleep"})
    BY <2>2
  <2>4. ~connected /\ Closed
    BY <2>3 DEF CalmInv, Phases, Connected
  <2>5. Opening'
    BY <1>2, <2>4 DEF ConnectReset, Reset, CloseSocket, NoSession, Opening, Closed, NoSessionYet
  <2>6. ~Somebody({"await", "asleep"})' /\ Somebody({"open", "await", "asleep"})'
    BY <2>2
  <2>7. loop' \notin {"lost", "test", "store"} /\ UNCHANGED timeout
    BY <1>2, <2>4 DEF ConnectReset, CalmInv, NothingFails, Phases
  <2>8. ~Somebody({"resubscribe"})' /\ ~Somebody({"disconnectSend", "leaveSend"})'
    BY <2>2
  <2>9. Phases'
    BY <2>5, <2>6, <2>7, <2>8 DEF Phases, Opening
  <2> QED
    BY <2>2, <2>5, <2>7, <2>9 DEF CalmInv, NothingFails, Opening, NoSessionYet
<1>3. CASE ConnectOpen(a)
  <2>1. /\ pc[a] = "open" /\ pc' = [pc EXCEPT ![a] = "await"] /\ may' = may
        /\ pc[a] \in ConnectionPlaces /\ OpenSucceeds
        /\ UNCHANGED <<host, loop, connected, timeout>>
    BY <1>3, NoFault DEF ConnectOpen, OpenFails, Goto, callVars, ConnectionPlaces
  <2>2. /\ ConnectorCalls' /\ ~Somebody({"retry", "expired"})'
        /\ \A places \in ThePlaces :
              /\ Somebody(places) <=> "open" \in places
              /\ Somebody(places)' <=> "await" \in places
    <3> HIDE DEF ThePlaces
    <3> QED
      BY <2>1, StepPlaces
  <2>3. Opening
    BY <2>2 DEF CalmInv, Phases
  <2>4. out' = <<Connect>> /\ ConnectFirst' /\ ~Queued(Disconnect)'
    BY <2>1, <2>3 DEF OpenSucceeds, NoSession, Opening, ConnectFirst, NoSessionYet, Queued,
       Connect, Disconnect
  <2>5. Waiting' /\ ~connected'
    BY <2>1, <2>3, <2>4 DEF Waiting, Opening, OpenSucceeds
  <2>6. ~Somebody({"open"})' /\ Somebody({"open", "await", "asleep"})'
    BY <2>2
  <2> QED
    BY <2>1, <2>2, <2>4, <2>5, <2>6
       DEF CalmInv, Phases, NothingFails, ConnectFirst, NoSessionYet
<1>4. CASE ConnectEstablished(a)
  <2>1. /\ pc[a] = "await" /\ pc' = [pc EXCEPT ![a] = "resubscribe"] /\ may' = may
        /\ pc[a] \in ConnectionPlaces /\ connected /\ connected'
        /\ UNCHANGED <<state, host, sock, out, loop, session, connack, timeout>>
    BY <1>0, <1>4 DEF ConnectEstablished, Established, Goto, callVars, ConnectionPlaces
  <2>2. /\ ConnectorCalls' /\ ~Somebody({"retry", "expired"})'
        /\ \A places \in ThePlaces :
              /\ Somebody(places) <=> "await" \in places
              /\ Somebody(places)' <=> "resubscribe" \in places
    <3> HIDE DEF ThePlaces
    <3> QED
      BY <2>1, StepPlaces
  <2>3. Connected /\ loop \in Working /\ state # "disconnecting" /\ sock = "open"
    BY <2>1, <2>2 DEF CalmInv, Phases, Connected, Working
  <2>4. resubscribed'
    BY <1>4, <2>3 DEF ConnectEstablished, Resubscribe, CanSend
  <2>5. Connected'
    BY <2>1, <2>2, <2>3, <2>4 DEF Connected, Queued
  <2> QED
    BY <2>1, <2>2, <2>5 DEF CalmInv, Phases, NothingFails
<1>6. CASE SendNext(a)
  <2>1. Somebody({"resubscribe"})
    BY <1>6 DEF SendNext, Somebody
  <2>2. connected /\ Somebody({"await", "resubscribe"})
    BY <2>1 DEF CalmInv, Phases, Somebody
  <2>3. CanSend
    BY <2>2 DEF CalmInv, Phases, Connected, CanSend, Working
  <2>4. /\ UNCHANGED <<pc, may, timeout, connected, state, host, sock, loop, session, connack>>
        /\ resubscribed' = resubscribed /\ (out' = out \/ Joins)
    BY <1>6, <2>3, CallJoins DEF SendNext, callVars
  <2>5. \A places : Somebody(places)' <=> Somebody(places)
    BY <2>4 DEF Somebody
  <2> QED
    BY <2>4, <2>5, QuietPhases DEF CalmInv, ConnectorCalls, NothingFails
<1>7. CASE ConnectReturn(a)
  <2>1. /\ pc[a] = "resubscribe" /\ pc' = [pc EXCEPT ![a] = "idle"] /\ may' = may
        /\ pc[a] \in ConnectionPlaces /\ UNCHANGED <<mosqVars, connected, timeout>>
    BY <1>7 DEF ConnectReturn, Goto, callVars, ConnectionPlaces
  <2>2. /\ ConnectorCalls' /\ ~Somebody({"retry", "expired"})'
        /\ \A places \in ThePlaces :
              /\ Somebody(places) <=> "resubscribe" \in places
              /\ Somebody(places)' <=> "idle" \in places
    <3> HIDE DEF ThePlaces
    <3> QED
      BY <2>1, StepPlaces
  <2>3. connected /\ Connected
    BY <2>2 DEF CalmInv, Phases
  <2>4. Connected'
    BY <2>1, <2>2, <2>3 DEF Connected, Queued, mosqVars
  <2>5. ~Somebody({"open"})' /\ ~Somebody({"disconnectSend", "leaveSend"})'
    BY <2>2
  <2>6. Phases'
    BY <2>1, <2>3, <2>4, <2>5 DEF Phases
  <2> QED
    BY <2>1, <2>2, <2>6 DEF CalmInv, NothingFails, mosqVars
<1>5. CASE ConnectSleep(a) \/ SpuriousWakeup(a)
  <2>1. /\ pc[a] \in {"await", "asleep"}
        /\ \E place \in {"await", "asleep"} : pc' = [pc EXCEPT ![a] = place]
        /\ may' = may /\ UNCHANGED <<mosqVars, connected, timeout>>
        /\ pc[a] \in ConnectionPlaces
    BY <1>5 DEF ConnectSleep, SpuriousWakeup, Goto, callVars, ConnectionPlaces
  <2>2. /\ ConnectorCalls' /\ ~Somebody({"retry", "expired"})'
        /\ Somebody({"await", "asleep"}) /\ Somebody({"await", "asleep"})'
        /\ ~Somebody({"open"})' /\ Somebody({"open", "await", "asleep"})'
        /\ pc[a] = "asleep" => Somebody({"reset", "open", "asleep"})
    BY <2>1, StepPlaces
  <2>3. ~connected
    BY <1>5, <2>2 DEF ConnectSleep, SpuriousWakeup, CalmInv, Phases, Connected
  <2>4. Waiting'
    BY <2>1, <2>2, <2>3 DEF CalmInv, Phases, Waiting, Reconnecting, ConnectFirst, Accepted,
       NoSessionYet, Queued, mosqVars
  <2>5. ~Somebody({"resubscribe"})' /\ ~Somebody({"disconnectSend", "leaveSend"})'
    BY <2>1, StepPlaces
  <2>6. Phases'
    BY <2>1, <2>2, <2>3, <2>4, <2>5 DEF CalmInv, Phases, mosqVars
  <2> QED
    BY <2>1, <2>2, <2>6 DEF CalmInv, NothingFails, mosqVars
<1> QED
  BY <1>0, <1>1, <1>2, <1>3, <1>4, <1>5, <1>6, <1>7 DEF ConnectRetry, ConnectExpire,
     ConnectThrow

(* disconnect_from_broker and the destructor *)
LEMMA DisconnectCalm ==
  ASSUME Calm, TypeOK, CalmInv, NEW a \in Threads,
         CallDisconnect(a) \/ CallDestroy(a) \/ DoDisconnect(a) \/ EndDisconnect(a) \/ Join(a)
  PROVE  CalmInv'
<1> DEFINE sending == {"disconnectSend", "leaveSend"}
<1>1. /\ UNCHANGED <<host, sock, loop, session, connack, resubscribed, connected, timeout, may>>
      /\ pc[a] \in ConnectionPlaces \/ may[a] \cap ConnectionCalls # {}
  BY DEF CallDisconnect, CallDestroy, MayCall, DoDisconnect, EndDisconnect, Join, mosqVars,
         callVars, ConnectionCalls, ConnectionPlaces
<1>2. PICK place \in {"idle", "disconnect", "leave", "join", "gone"} \cup sending :
          pc' = [pc EXCEPT ![a] = place]
  BY DEF CallDisconnect, CallDestroy, DoDisconnect, EndDisconnect, Join, Goto
<1>3. /\ ConnectorCalls' /\ ~Somebody({"retry", "expired"})'
      /\ Somebody(sending) <=> pc[a] \in sending
      /\ Somebody(sending)' <=> place \in sending
      /\ \A places \in ThePlaces \ {sending} : ~Somebody(places) /\ ~Somebody(places)'
  <2>1. pc[a] \in {"idle", "disconnect", "leave", "join", "gone"} \cup sending
    BY DEF CallDisconnect, CallDestroy, MayCall, DoDisconnect, EndDisconnect, Join
  <2>2. \A places \in ThePlaces \ {sending} : pc[a] \notin places /\ place \notin places
    BY <2>1 DEF ThePlaces
  <2>3. place \notin {"retry", "expired"} /\ sending \in ThePlaces
    BY DEF ThePlaces
  <2> QED
    BY <1>1, <1>2, <2>2, <2>3, StepPlaces
<1>4. /\ state' \in {state, "disconnecting"}
      /\ Somebody(sending)' => state' = "disconnecting"
  <2>1. CASE DoDisconnect(a)
    BY <2>1 DEF DoDisconnect, RequestDisconnect
  <2>2. CASE ~DoDisconnect(a)
    <3>1. state' = state /\ pc'[a] \notin sending
      BY <2>2 DEF CallDisconnect, CallDestroy, EndDisconnect, Join, Goto, mosqVars, TypeOK,
         AppTypeOK
    <3> QED
      BY <1>2, <1>3, <3>1 DEF TypeOK, AppTypeOK
  <2> QED
    BY <2>1, <2>2
<1>5. \/ out' = out
      \/ state' = "disconnecting" /\ sock # "none" /\ out' = Append(out, Disconnect)
  <2>1. CASE EndDisconnect(a)
    <3>1. pc[a] \in sending /\ state' = state
      BY <2>1 DEF EndDisconnect
    <3>2. state = "disconnecting"
      BY <1>3, <3>1 DEF CalmInv, Phases
    <3> QED
      BY <2>1, <3>1, <3>2 DEF EndDisconnect, SendDisconnect, CanSend
  <2>2. CASE ~EndDisconnect(a)
    BY <2>2 DEF CallDisconnect, CallDestroy, DoDisconnect, Join, mosqVars
  <2> QED
    BY <2>1, <2>2
<1>6. Closed => Closed'
  BY <1>1, <1>4 DEF Closed, NoSessionYet
<1>7. ~Queued(Connect) => ~Queued(Connect)'
  <2>1. Connect # Disconnect /\ out \in Seq(Packets)
    BY DEF Connect, Disconnect, TypeOK, MosqTypeOK, ClientTypeOK
  <2> QED
    BY <1>5, <2>1 DEF Queued
<1>8. Queued(Disconnect)' => Queued(Disconnect) \/ state' = "disconnecting"
  BY <1>5 DEF Queued
<1>9. /\ ~Somebody({"open"})' /\ ~Somebody({"await"})' /\ ~Somebody({"await", "asleep"})'
      /\ ~Somebody({"await", "resubscribe"})' /\ ~Somebody({"resubscribe"})'
      /\ ~Somebody({"reset", "open", "asleep"})'
      /\ ~Somebody({"await"}) /\ ~Somebody({"open", "await", "asleep"})
  BY <1>3 DEF ThePlaces
<1>10. Connected => Connected'
  BY <1>1, <1>4, <1>7, <1>8, <1>9 DEF Connected
<1>11. Phases'
  BY <1>1, <1>4, <1>6, <1>9, <1>10 DEF CalmInv, Phases
<1> QED
  BY <1>1, <1>3, <1>11 DEF CalmInv, NothingFails

(* All other calls leave the connection alone. *)
LEMMA OtherCallsCalm ==
  ASSUME Calm, TypeOK, Handed, CalmInv, NEW a \in Threads,
         \/ \E t \in Topics : CallAdd(a, t) \/ CallRemove(a, t)
         \/ \E m \in Messages : CallSend(a, m)
         \/ Check(a) \/ SendPacket(a) \/ DoPublish(a)
  PROVE  CalmInv'
<1>1. /\ UNCHANGED <<state, host, sock, loop, session, connack, resubscribed, connected>>
      /\ UNCHANGED <<timeout, may>>
      /\ pc[a] \in Places \ ConnectionPlaces
      /\ \E place \in Places \ ConnectionPlaces : pc' = [pc EXCEPT ![a] = place]
  BY DEF CallAdd, CallRemove, CallSend, MayCall, Check, SendPacket, DoPublish, Goto, mosqVars,
         callVars, Places, ConnectionPlaces
<1>2. out' = out \/ Joins
  BY CallJoins DEF CallAdd, CallRemove, CallSend, Check, mosqVars
<1>3. \A b \in Threads : pc'[b] = pc[b] \/ {pc[b], pc'[b]} \cap ConnectionPlaces = {}
  BY <1>1 DEF TypeOK, AppTypeOK
<1>4. \A places \in ThePlaces : Somebody(places)' <=> Somebody(places)
  BY <1>3, SamePlaces, PlacesOfInterest
<1>5. Phases'
  BY <1>1, <1>2, <1>4, QuietPhases DEF CalmInv
<1>6. ConnectorCalls'
  BY <1>1, <1>3 DEF CalmInv, ConnectorCalls
<1> QED
  BY <1>1, <1>4, <1>5, <1>6 DEF CalmInv, NothingFails, ThePlaces

LEMMA InitCalm == ASSUME Calm, Init PROVE CalmInv
  BY DEF Init, MosqInit, CalmInv, ConnectorCalls, NothingFails, Phases, Somebody, Closed,
         NoSessionYet, ConnectionPlaces

LEMMA NextCalm ==
  ASSUME Calm, TypeOK, Handed, CalmInv, [Next]_vars, ~erased'
  PROVE  CalmInv'
<1>1. CASE LoopStep /\ (loop = "reconnect" => MayReset) /\ UNCHANGED appVars
  <2>1. Phases' /\ sock' # "dead" /\ connack' # "refused" /\ loop' # "lost"
    BY <1>1, LoopStepPhases
  <2> QED
    BY <1>1, <2>1 DEF CalmInv, NothingFails, ConnectorCalls, Somebody, appVars, callVars
<1>2. CASE LoopConnected \/ LoopRefused \/ LoopDisconnected
  BY <1>2, CallbackCalm
<1>3. ~ConnectionLoss
  BY NoFault DEF ConnectionLoss
<1>4. ASSUME NEW a \in Threads,
             Begin(a) \/ Continue(a) \/ SpuriousWakeup(a) \/ ConnectExpire(a)
      PROVE  CalmInv'
  BY <1>4, ConnectCalm, DisconnectCalm, OtherCallsCalm DEF Begin, Continue
<1>5. CASE UNCHANGED vars
  BY <1>5 DEF vars, mosqVars, appVars, callVars, CalmInv, ConnectorCalls, NothingFails, Phases,
     Somebody, Opening, Waiting, Closed, Connected, Reconnecting, ConnectFirst, Accepted,
     NoSessionYet, Queued
<1> QED
  BY <1>1, <1>2, <1>3, <1>4, <1>5 DEF Next, LoopThread, Rest

(* An overwritten disconnect is not forgotten.                             *)
LEMMA ErasedStays == ASSUME erased, [Next]_vars PROVE erased'
<1>1. CASE LoopStep
  BY <1>1 DEF LoopStep, LoopNoConn, LoopTest, LoopStore, LoopWrite, LoopWriteDisconnect,
     LoopNoticesLoss, LoopCheck, LoopWake, LoopReset, LoopOpen, LoopAnswer, LoopRetry
<1>2. CASE LoopConnected \/ LoopRefused \/ LoopDisconnected
  BY <1>2 DEF LoopConnected, LoopRefused, LoopDisconnected
<1>3. CASE ConnectionLoss \/ UNCHANGED vars
  BY <1>3 DEF ConnectionLoss, vars, mosqVars
<1>4. ASSUME NEW a \in Threads,
             Begin(a) \/ Continue(a) \/ SpuriousWakeup(a) \/ ConnectExpire(a)
      PROVE  erased'
  BY <1>4 DEF Begin, Continue, CallConnect, CallDisconnect, CallDestroy, CallAdd, CallRemove,
     CallSend, ConnectReset, ConnectOpen, ConnectRetry, ConnectEstablished, SendNext,
     ConnectReturn, ConnectSleep, ConnectThrow, DoDisconnect, EndDisconnect, Join, Check,
     SendPacket, DoPublish, SpuriousWakeup, ConnectExpire, mosqVars
<1> QED
  BY <1>1, <1>2, <1>3, <1>4 DEF Next, LoopThread, Rest

LEMMA NextCalmUnlessErased ==
  ASSUME Calm, TypeOK, Handed, CalmUnlessErased, [Next]_vars
  PROVE  CalmUnlessErased'
  BY ErasedStays, NextCalm DEF CalmUnlessErased

(* Between the session and the flag there is no on_disconnect but the one  *)
(* that is about to be called.                                             *)
LEMMA CalmFlag == CalmUnlessErased => FlagIsTruthful
  BY DEF CalmUnlessErased, CalmInv, Phases, Connected, FlagIsTruthful

LEMMA CalmLeft ==
  ASSUME CalmInv, GoesWithConnection PROVE loop = "left" => ~resubscribed
<1>1. loop = "left" => sock = "none"
  BY InConnectPlaces DEF CalmInv, Phases, Opening, Waiting, Closed, Connected, Working
<1> QED
  BY <1>1 DEF GoesWithConnection

(* is_connected tells the truth, up to the on_disconnect that is about to  *)
(* be called, in an application that leaves the connection to one thread   *)
(* and is not disturbed - until, if ever, the loop thread has overwritten  *)
(* a disconnect: on_connect and on_disconnect are called in the order of   *)
(* the connections they are about.                                         *)
THEOREM FlagStaysTruthful ==
  ASSUME Calm
  PROVE  Spec => []FlagIsTruthful
<1>1. Init => TypeOK /\ Handed /\ CalmUnlessErased
  BY InitTypeOK, InitHanded, InitCalm DEF CalmUnlessErased
<1>2. TypeOK /\ Handed /\ CalmUnlessErased /\ [Next]_vars
      => (TypeOK /\ Handed /\ CalmUnlessErased)'
  BY NextTypeOK, NextHanded, NextCalmUnlessErased
<1> QED
  BY <1>1, <1>2, CalmFlag, PTL DEF Spec

(* connect_to_broker never returns on a connection that is only coming up: *)
(* what the wait for on_connect is for.  Again until a disconnect has been *)
(* overwritten: after that the flag may be about a connection of the loop  *)
(* thread's that connect_to_broker has just replaced.                      *)
THEOREM ConnectReturnsEstablished ==
  ASSUME Calm
  PROVE  Spec => ReturnsEstablished
<1>1. Init => TypeOK /\ Handed /\ CalmUnlessErased
  BY InitTypeOK, InitHanded, InitCalm DEF CalmUnlessErased
<1>2. TypeOK /\ Handed /\ CalmUnlessErased /\ [Next]_vars
      => (TypeOK /\ Handed /\ CalmUnlessErased)'
  BY NextTypeOK, NextHanded, NextCalmUnlessErased
<1>3. CalmUnlessErased => \A a \in Threads : ConnectReturn(a) => session \/ erased
  <2> SUFFICES ASSUME CalmInv, NEW a \in Threads, ConnectReturn(a) PROVE session
    BY DEF CalmUnlessErased
  <2>1. Somebody({"resubscribe"}) /\ Somebody({"await", "resubscribe"})
    BY DEF ConnectReturn, Somebody
  <2> QED
    BY <2>1 DEF CalmInv, Phases, Connected, Working
<1> QED
  BY <1>1, <1>2, <1>3, PTL DEF Spec, ReturnsEstablished

CompleteInv ==
    /\ TypeOK /\ Handed /\ SubscriberInv
    /\ erased \/ (CalmInv /\ FlagOutlives /\ NoneIsMissing)

(* In such an application, with the subscriptions left to one thread too,  *)
(* the broker sends for every topic of the map when things have settled:   *)
(* connect_to_broker has always resubscribed by then, and what             *)
(* add_subscription was told while the connection came up is not lost      *)
(* between the map and the broker.  An overwritten disconnect ends this:   *)
(* the loop thread connects again, and does not resubscribe.               *)
THEOREM SubscriptionsAreComplete ==
  ASSUME OneSubscriber, Calm
  PROVE  Spec => []NoSubscriptionIsMissing
<1>1. Init => CompleteInv
  <2>1. Init => FlagOutlives /\ NoneIsMissing
    BY DEF Init, MosqInit, FlagOutlives, NoneIsMissing
  <2> QED
    BY <2>1, InitTypeOK, InitHanded, InitSubscriber, InitCalm DEF CompleteInv
<1>2. CompleteInv /\ [Next]_vars => CompleteInv'
  <2> SUFFICES ASSUME CompleteInv, [Next]_vars PROVE CompleteInv'
    OBVIOUS
  <2> USE DEF CompleteInv
  <2>1. TypeOK' /\ Handed' /\ SubscriberInv'
    BY NextTypeOK, NextHanded, NextSubscriber
  <2>2. CASE erased
    BY <2>1, <2>2, ErasedStays
  <2>3. CASE ~erased /\ ~erased'
    <3>1. CalmInv'
      BY <2>3, NextCalm
    <3>2. FlagOutlives'
      BY <2>3, CalmLeft, NextFlagOutlives DEF SubscriberInv
    <3>3. NoneIsMissing'
      BY <2>3, <3>2, NextNoneIsMissing
    <3> QED
      BY <2>1, <3>1, <3>2, <3>3
  <2> QED
    BY <2>1, <2>2, <2>3
<1>3. CompleteInv => NoSubscriptionIsMissing
  <2> SUFFICES ASSUME CompleteInv, ~erased, Settled PROVE subscriptions \subseteq granted
    BY DEF NoSubscriptionIsMissing
  <2>1. resubscribed /\ todo = {}
    BY DEF CompleteInv, CalmInv, Phases, Connected, Settled, Somebody, Working, SubscriberInv,
       TodoIsAtHand
  <2> QED
    BY <2>1 DEF CompleteInv, NoneIsMissing, Settled, Adding, WillBeGranted, Working
<1> QED
  BY <1>1, <1>2, <1>3, PTL DEF Spec

=============================================================================
