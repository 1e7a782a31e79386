------------------------- MODULE CommunicatorProofs -------------------------
(***************************************************************************)
(* Proofs about Communicator, for every set of application threads and     *)
(* whatever they may call, every set of topics, every choice and number of *)
(* faults, with finite timeouts and overlapping reconnects or without: an  *)
(* accepted session is always known to the application, or its CONNACK is  *)
(* on its way; the type invariant; a message of QoS 1 is kept until the    *)
(* broker has it, and one of QoS 0 or 2 is passed on at most once.         *)
(***************************************************************************)
EXTENDS Communicator, FiniteSetTheorems, SequenceTheorems, TLAPS

(* The loop thread is in mosquitto_loop, with a connection or without. *)
Working == {"run", "test", "store"}

(* Where a session can exist: on a socket, while the loop thread is in      *)
(* mosquitto_loop and nobody has refused it.  So the on_disconnect of an   *)
(* old connection, whose places are "lost" and "left", finds no session of *)
(* a newer one.                                                            *)
SessionPlaces ==
  session => sock # "none" /\ loop \in Working /\ connack # "refused"

IInv == SessionPlaces /\ SessionIsKnown

LEMMA InitIInv == Init => IInv
  BY DEF Init, MosqInit, IInv, SessionPlaces, SessionIsKnown, Working

(* Whatever closes or replaces a socket ends the session. *)
LEMMA NoSessionIInv == ASSUME NoSession PROVE IInv'
  BY DEF NoSession, IInv, SessionPlaces, SessionIsKnown

(* Only the step in which the broker accepts CONNECT begins a session. *)
LEMMA LoopStepIInv ==
  ASSUME IInv, LoopStep, UNCHANGED appVars
  PROVE  IInv'
<1> USE DEF IInv, SessionPlaces, SessionIsKnown, Working, appVars
<1>1. CASE LoopNoConn \/ LoopTest \/ LoopStore
  BY <1>1 DEF LoopNoConn, LoopTest, LoopStore
<1>2. CASE LoopWrite
  BY <1>2 DEF LoopWrite, OnPacket, OnMessagePacket, OnConnectPacket, AcceptConnect,
              RefuseConnect, OnSubscriptionPacket, Drop
<1>3. CASE LoopWriteDisconnect
  BY <1>3, NoSessionIInv DEF LoopWriteDisconnect, CloseSocket
<1>4. CASE LoopNoticesLoss
  BY <1>4, NoSessionIInv DEF LoopNoticesLoss, LoopClose, CloseSocket
<1>5. CASE LoopCheck
  BY <1>5 DEF LoopCheck
<1>6. CASE LoopWake
  BY <1>6 DEF LoopWake
<1>7. CASE LoopReset
  BY <1>7, NoSessionIInv DEF LoopReset, Reset, CloseSocket
<1>8. CASE LoopOpen
  BY <1>8, NoSessionIInv DEF LoopOpen, OpenSucceeds, OpenFails
<1>9. ASSUME NEW m \in Messages, LoopAnswer(m) \/ LoopRetry(m) PROVE IInv'
  BY <1>9 DEF LoopAnswer, LoopRetry, messageVars
<1> QED
  BY <1>1, <1>2, <1>3, <1>4, <1>5, <1>6, <1>7, <1>8, <1>9 DEF LoopStep

(* The callbacks: on_connect makes the flag true when the CONNACK is read; *)
(* on_disconnect clears it where no session can exist.                     *)
LEMMA CallbackIInv ==
  ASSUME IInv, LoopConnected \/ LoopRefused \/ LoopDisconnected
  PROVE  IInv'
<1> USE DEF IInv, SessionPlaces, SessionIsKnown, Working
<1>1. CASE LoopConnected
  BY <1>1 DEF LoopConnected, OnConnect
<1>2. CASE LoopRefused
  BY <1>2, NoSessionIInv DEF LoopRefused, LoopClose, CloseSocket
<1>3. CASE LoopDisconnected
  BY <1>3 DEF LoopDisconnected
<1> QED
  BY <1>1, <1>2, <1>3

(* Application threads touch the session only in connect() and reconnect(). *)
LEMMA ThreadIInv ==
  ASSUME IInv, NEW a \in Threads,
         Begin(a) \/ Continue(a) \/ SpuriousWakeup(a) \/ ConnectExpire(a)
  PROVE  IInv'
<1> USE DEF IInv, SessionPlaces, SessionIsKnown, Working
<1>1. CASE ConnectReset(a)
  BY <1>1, NoSessionIInv DEF ConnectReset, Reset, CloseSocket
<1>2. CASE ConnectOpen(a)
  BY <1>2, NoSessionIInv DEF ConnectOpen, OpenSucceeds, OpenFails
<1>3. CASE \/ ConnectEstablished(a) \/ SendNext(a) \/ DoDisconnect(a) \/ EndDisconnect(a)
            \/ SendPacket(a) \/ DoPublish(a)
  BY <1>3 DEF ConnectEstablished, SendNext, DoDisconnect, EndDisconnect, SendPacket, DoPublish
<1>4. CASE UNCHANGED <<mosqVars, connected>>
  BY <1>4 DEF mosqVars
<1>5. Begin(a) => UNCHANGED <<mosqVars, connected>>
  BY DEF Begin, CallConnect, CallDisconnect, CallDestroy, CallAdd, CallRemove,
         CallSend
<1>6. \/ ConnectRetry(a) \/ ConnectReturn(a) \/ ConnectSleep(a) \/ ConnectThrow(a)
      \/ Join(a) \/ Check(a) \/ SpuriousWakeup(a) \/ ConnectExpire(a)
      => UNCHANGED <<mosqVars, connected>>
  BY DEF ConnectRetry, ConnectReturn, ConnectSleep, ConnectThrow, Join, Check, SpuriousWakeup,
         ConnectExpire
<1> QED
  BY <1>1, <1>2, <1>3, <1>4, <1>5, <1>6 DEF Continue

LEMMA NextIInv == IInv /\ [Next]_vars => IInv'
<1> SUFFICES ASSUME IInv, [Next]_vars PROVE IInv'
  OBVIOUS
<1>1. CASE LoopThread
  BY <1>1, LoopStepIInv, CallbackIInv DEF LoopThread
<1>2. CASE ConnectionLoss /\ UNCHANGED appVars
  BY <1>2 DEF ConnectionLoss, appVars, IInv, SessionPlaces, SessionIsKnown
<1>3. ASSUME NEW a \in Threads,
             Begin(a) \/ Continue(a) \/ SpuriousWakeup(a) \/ ConnectExpire(a)
      PROVE  IInv'
  BY <1>3, ThreadIInv
<1>4. CASE UNCHANGED vars
  BY <1>4 DEF vars, mosqVars, appVars, IInv, SessionPlaces, SessionIsKnown
<1> QED
  BY <1>1, <1>2, <1>3, <1>4 DEF Next, Rest

(* A session the broker has accepted is known to the application, or its   *)
(* CONNACK is on its way: on_disconnect, called late for a connection that *)
(* connect() has already replaced, never makes the application blind to a  *)
(* live session (on_connect and on_disconnect, and the places where        *)
(* libmosquitto calls them).                                               *)
THEOREM SessionKnown == Spec => []SessionIsKnown
<1>1. IInv => SessionIsKnown
  BY DEF IInv
<1> QED
  BY InitIInv, NextIInv, <1>1, PTL DEF Spec

-----------------------------------------------------------------------------
(* Types                                                                   *)

(* A message of QoS 1 waits for one answer, one of QoS 2 for two.          *)
LEMMA WaitTypes ==
  ASSUME NEW m \in Messages
  PROVE  /\ "none" \in WaitsFor(m)
         /\ Qos[m] # 0 => FirstAnswer(m) \in WaitsFor(m)
         /\ "pubcomp" \in WaitsFor(m) <=> Qos[m] = 2
  BY QosAssumption DEF WaitsFor, FirstAnswer

LEMMA AppendType ==
  ASSUME ClientTypeOK, NEW p \in Packets
  PROVE  Append(out, p) \in Seq(Packets)
  BY AppendProperties DEF ClientTypeOK

(* The communicator's own variables, and what its calls of send_message    *)
(* keep, do not depend on the rest.                                        *)
LEMMA InitTypeOK == Init => TypeOK
<1> SUFFICES ASSUME Init PROVE TypeOK
  OBVIOUS
<1>1. (CHOOSE t \in Topics : TRUE) \in Topics
  BY TopicsAssumption
<1>2. ClientTypeOK
  <2>1. faults \in 0..MaxFaults
    BY MaxFaultsAssumption DEF Init, MosqInit
  <2>2. out \in Seq(Packets)
    BY DEF Init, MosqInit
  <2>3. granted \subseteq Topics
    BY DEF Init, MosqInit
  <2> QED
    BY <2>1, <2>2, <2>3 DEF Init, MosqInit, ClientTypeOK, LoopPlaces
<1>3. MessagesTypeOK /\ CallTypeOK
  BY WaitTypes DEF Init, MosqInit, MessagesTypeOK, CallTypeOK
<1>4. AppTypeOK
  BY <1>1 DEF Init, AppTypeOK, Places
<1> QED
  BY <1>2, <1>3, <1>4 DEF TypeOK, MosqTypeOK

(* What is queued are packets. *)
LEMMA QueueType ==
  ASSUME ClientTypeOK, NEW p \in Seq(Packets), out' = out \o p
  PROVE  out' \in Seq(Packets)
  BY DEF ClientTypeOK

LEMMA PacketTypes ==
  /\ Connect \in Packets /\ Disconnect \in Packets
  /\ \A t \in Topics : Subscribe(t) \in Packets /\ Unsubscribe(t) \in Packets
  /\ \A m \in Messages : Publish(m) \in Packets /\ (Qos[m] = 2 => Pubrel(m) \in Packets)
  BY DEF Packets

LEMMA AnswerTypes ==
  /\ \A m \in Messages : Qos[m] = 1 => Puback(m) \in Answers
  /\ \A m \in Messages : Qos[m] = 2 => Pubrec(m) \in Answers /\ Pubcomp(m) \in Answers
  BY DEF Answers

(* An answer tells the quality of service of its message. *)
LEMMA AnswerFields ==
  ASSUME NEW a \in Answers
  PROVE  /\ a.type = "PUBACK" => Qos[a.message] = 1
         /\ a.type = "PUBREC" => Qos[a.message] = 2
         /\ a.type = "PUBCOMP" => Qos[a.message] = 2
<1>1. CASE \E m \in Messages : Qos[m] = 1 /\ a = Puback(m)
  BY <1>1 DEF Puback
<1>2. CASE \E m \in Messages : Qos[m] = 2 /\ (a = Pubrec(m) \/ a = Pubcomp(m))
  BY <1>2 DEF Pubrec, Pubcomp
<1> QED
  BY <1>1, <1>2 DEF Answers

(* The names of the packets tell what they are about. *)
LEMMA PacketFields ==
  ASSUME NEW p \in Packets
  PROVE  /\ p.type \in {"SUBSCRIBE", "UNSUBSCRIBE"} => p.topic \in Topics
         /\ p.type \in {"PUBLISH", "PUBREL"} => p.message \in Messages
         /\ p.type = "PUBREL" => Qos[p.message] = 2
<1>1. CASE p \in {Connect, Disconnect}
  BY <1>1 DEF Connect, Disconnect
<1>2. CASE \E t \in Topics : p = Subscribe(t) \/ p = Unsubscribe(t)
  BY <1>2 DEF Subscribe, Unsubscribe
<1>3. CASE \E m \in Messages : p = Publish(m) \/ (Qos[m] = 2 /\ p = Pubrel(m))
  BY <1>3 DEF Publish, Pubrel
<1> QED
  BY <1>1, <1>2, <1>3 DEF Packets

LEMMA HeadTailType ==
  ASSUME ClientTypeOK, out # <<>>
  PROVE  Tail(out) \in Seq(Packets) /\ Head(out) \in Packets
<1>1. out \in Seq(Packets)
  BY DEF ClientTypeOK
<1> QED
  BY <1>1, HeadTailProperties

LEMMA ResetType == ASSUME ClientTypeOK, Reset
                   PROVE  /\ state' = "new" /\ out' = <<>> /\ sock' = "none"
                          /\ out' \in Seq(Packets)
                          /\ session' = FALSE /\ granted' = {} /\ connack' = "none"
                          /\ resubscribed' = FALSE
  BY DEF Reset, CloseSocket, NoSession

LEMMA FaultType == ASSUME ClientTypeOK, NEW kind, Fault(kind)
                   PROVE  faults' \in 0..MaxFaults
  BY MaxFaultsAssumption DEF Fault, ClientTypeOK

(* Every field of the client but loop and host after Open. *)
LEMMA OpenType ==
  ASSUME ClientTypeOK, OpenSucceeds \/ OpenFails
  PROVE  /\ state' \in {"new", "connected", "disconnecting"}
         /\ sock' \in {"none", "open", "dead"}
         /\ out' \in Seq(Packets)
         /\ session' \in BOOLEAN
         /\ granted' \subseteq Topics
         /\ connack' \in {"none", "accepted", "refused"}
         /\ faults' \in 0..MaxFaults
         /\ resubscribed' \in BOOLEAN
<1>1. CASE OpenSucceeds
  <2>1. Append(out, Connect) \in Seq(Packets)
    BY PacketTypes, AppendType
  <2> QED
    BY <1>1, <2>1 DEF OpenSucceeds, NoSession, ClientTypeOK
<1>2. CASE OpenFails
  BY <1>2, FaultType DEF OpenFails, ClientTypeOK
<1> QED
  BY <1>1, <1>2

(* What handling a packet does to the connection. *)
LEMMA OnPacketType ==
  ASSUME ClientTypeOK, NEW p \in Packets, OnPacket(p)
  PROVE  /\ sock' \in {sock, "dead"} /\ session' \in {session, TRUE}
         /\ granted' \subseteq Topics
         /\ connack' \in {connack, "accepted", "refused"}
         /\ faults' \in 0..MaxFaults
<1> USE DEF ClientTypeOK
<1>1. CASE p.type = "CONNECT" /\ OnConnectPacket
  <2>1. faults' = faults \/ Fault("refused")
    BY <1>1 DEF OnConnectPacket, AcceptConnect, RefuseConnect
  <2>2. faults' \in 0..MaxFaults
    BY <2>1, FaultType
  <2> QED
    BY <1>1, <2>2 DEF OnConnectPacket, AcceptConnect, RefuseConnect, Drop
<1>2. ASSUME NEW topics, topics \subseteq Topics, OnSubscriptionPacket(topics)
      PROVE  /\ sock' \in {sock, "dead"} /\ session' = session /\ connack' = connack
             /\ granted' \subseteq Topics /\ faults' \in 0..MaxFaults
  BY <1>2 DEF OnSubscriptionPacket, Drop
<1>3. CASE OnMessagePacket(p)
  BY <1>3 DEF OnMessagePacket, Drop
<1> QED
  BY <1>1, <1>2, <1>3, PacketFields DEF OnPacket

LEMMA LoopStepClientType ==
  ASSUME ClientTypeOK, MessagesTypeOK, LoopStep PROVE ClientTypeOK'
<1> USE DEF ClientTypeOK, LoopPlaces
<1>1. CASE LoopNoConn \/ LoopTest \/ LoopStore \/ LoopCheck \/ LoopWake
  BY <1>1 DEF LoopNoConn, LoopTest, LoopStore, LoopCheck, LoopWake
<1>2. CASE LoopWrite
  <2>1. out # <<>> /\ out' = Tail(out) /\ OnPacket(Head(out))
    BY <1>2 DEF LoopWrite
  <2>2. out' \in Seq(Packets) /\ Head(out) \in Packets
    BY <2>1, HeadTailType
  <2>3. /\ sock' \in {sock, "dead"} /\ session' \in {session, TRUE}
        /\ granted' \subseteq Topics
        /\ connack' \in {connack, "accepted", "refused"}
        /\ faults' \in 0..MaxFaults
    BY <2>1, <2>2, OnPacketType
  <2> QED
    BY <1>2, <2>2, <2>3 DEF LoopWrite
<1>3. CASE LoopWriteDisconnect
  <2>1. Tail(out) \in Seq(Packets)
    BY <1>3 DEF LoopWriteDisconnect
  <2>2. granted' \subseteq Topics /\ out' \in Seq(Packets)
    BY <1>3, <2>1 DEF LoopWriteDisconnect, CloseSocket, NoSession
  <2> QED
    BY <1>3, <2>2 DEF LoopWriteDisconnect, CloseSocket, NoSession
<1>4. CASE LoopNoticesLoss
  BY <1>4 DEF LoopNoticesLoss, LoopClose, CloseSocket, NoSession
<1>5. CASE LoopReset
  BY <1>5, ResetType DEF LoopReset
<1>6. CASE LoopOpen
  BY <1>6, OpenType DEF LoopOpen
<1>7. ASSUME NEW m \in Messages, LoopAnswer(m) \/ LoopRetry(m) PROVE ClientTypeOK'
  <2>1. out' \in Seq(Packets)
    <3>1. CASE LoopRetry(m)
      <4>1. Resent(m) \in Packets
        BY PacketTypes, WaitTypes DEF Resent, MessagesTypeOK
      <4> QED
        BY <3>1, <4>1, AppendType DEF LoopRetry
    <3>2. CASE LoopAnswer(m)
      <4>1. PICK a \in answers :
               /\ a.message = m
               /\ out' = out \/ (a.type = "PUBREC" /\ out' = Append(out, Pubrel(m)))
        BY <3>2 DEF LoopAnswer
      <4>2. a.type = "PUBREC" => Pubrel(m) \in Packets
        BY <4>1, AnswerFields, PacketTypes DEF MessagesTypeOK
      <4> QED
        BY <4>1, <4>2, AppendType
    <3> QED
      BY <1>7, <3>1, <3>2
  <2> QED
    BY <1>7, <2>1 DEF LoopAnswer, LoopRetry
<1> QED
  BY <1>1, <1>2, <1>3, <1>4, <1>5, <1>6, <1>7 DEF LoopStep

(* Most steps leave the messages alone, or end the session. *)
MessagesAlone ==
  /\ UNCHANGED <<waiting, delivered>>
  /\ (answers' = {} /\ stored' = {}) \/ UNCHANGED <<answers, stored>>

LEMMA MessagesAloneType == ASSUME MessagesTypeOK, MessagesAlone PROVE MessagesTypeOK'
  BY DEF MessagesTypeOK, MessagesAlone

LEMMA MosqVarsAlone == UNCHANGED mosqVars => MessagesAlone
  BY DEF mosqVars, messageVars, MessagesAlone

LEMMA LoopStepAlone ==
  ASSUME LoopStep
  PROVE  \/ MessagesAlone
         \/ LoopWrite
         \/ \E m \in Messages : LoopAnswer(m) \/ LoopRetry(m)
<1> USE DEF MessagesAlone, messageVars
<1>1. CASE LoopNoConn \/ LoopTest \/ LoopStore \/ LoopCheck \/ LoopWake
  BY <1>1 DEF LoopNoConn, LoopTest, LoopStore, LoopCheck, LoopWake
<1>2. CASE LoopWriteDisconnect
  BY <1>2 DEF LoopWriteDisconnect, CloseSocket, NoSession
<1>3. CASE LoopNoticesLoss
  BY <1>3 DEF LoopNoticesLoss, LoopClose, CloseSocket, NoSession
<1>4. CASE LoopReset
  BY <1>4 DEF LoopReset, Reset, CloseSocket, NoSession
<1>5. CASE LoopOpen
  BY <1>5 DEF LoopOpen, OpenSucceeds, OpenFails, NoSession
<1> QED
  BY <1>1, <1>2, <1>3, <1>4, <1>5 DEF LoopStep

LEMMA CallbackAlone ==
  ASSUME LoopConnected \/ LoopRefused \/ LoopDisconnected PROVE MessagesAlone
  BY DEF LoopConnected, LoopRefused, LoopDisconnected, LoopClose, CloseSocket,
         NoSession, MessagesAlone, messageVars

LEMMA ThreadAlone ==
  ASSUME NEW a \in Threads,
         Begin(a) \/ Continue(a) \/ SpuriousWakeup(a) \/ ConnectExpire(a)
  PROVE  MessagesAlone \/ DoPublish(a)
<1>1. CASE ConnectReset(a)
  BY <1>1 DEF ConnectReset, Reset, CloseSocket, NoSession, MessagesAlone
<1>2. CASE ConnectOpen(a)
  BY <1>2 DEF ConnectOpen, OpenSucceeds, OpenFails, NoSession, MessagesAlone, messageVars
<1>3. CASE \/ ConnectEstablished(a) \/ SendNext(a) \/ DoDisconnect(a) \/ EndDisconnect(a)
            \/ SendPacket(a)
  BY <1>3 DEF ConnectEstablished, SendNext, DoDisconnect, EndDisconnect, SendPacket,
     MessagesAlone, messageVars
<1>4. Begin(a) => UNCHANGED mosqVars
  BY DEF Begin, CallConnect, CallDisconnect, CallDestroy, CallAdd, CallRemove, CallSend
<1>5. \/ ConnectRetry(a) \/ ConnectReturn(a) \/ ConnectSleep(a) \/ ConnectThrow(a)
      \/ Join(a) \/ Check(a) \/ SpuriousWakeup(a) \/ ConnectExpire(a)
      => UNCHANGED mosqVars
  BY DEF ConnectRetry, ConnectReturn, ConnectSleep, ConnectThrow, Join, Check, SpuriousWakeup,
         ConnectExpire
<1> QED
  BY <1>1, <1>2, <1>3, <1>4, <1>5, MosqVarsAlone DEF Continue

LEMMA LoopStepMessagesType ==
  ASSUME ClientTypeOK, MessagesTypeOK, LoopStep PROVE MessagesTypeOK'
<1> USE DEF MessagesTypeOK
<1>1. CASE LoopWrite
  <2>1. OnPacket(Head(out)) /\ Head(out) \in Packets /\ waiting' = waiting
    BY <1>1, HeadTailType DEF LoopWrite
  <2>2. CASE UNCHANGED <<answers, stored, delivered>>
    BY <2>1, <2>2
  <2>3. ASSUME NEW m \in Messages,
               OnPublishPacket(m) \/ (Qos[m] = 2 /\ OnPubrelPacket(m))
        PROVE  MessagesTypeOK'
    <3>2. answers' \subseteq Answers /\ stored' \subseteq Messages
      BY <2>3, AnswerTypes DEF OnPublishPacket, OnPubrelPacket
    <3>3. delivered' = delivered \/ Deliver(m)
      BY <2>3 DEF OnPublishPacket, OnPubrelPacket
    <3>4. delivered' \in [Messages -> 0..2]
      BY <3>3 DEF Deliver
    <3> QED
      BY <2>1, <3>2, <3>4
  <2> QED
    BY <2>1, <2>2, <2>3, PacketFields DEF OnPacket, OnMessagePacket
<1>2. ASSUME NEW m \in Messages, LoopAnswer(m) PROVE MessagesTypeOK'
  <2>1. PICK a \in answers :
           /\ a.message = m
           /\ \/ waiting' = [waiting EXCEPT ![m] = "none"]
              \/ /\ a.type = "PUBREC"
                 /\ waiting' = [waiting EXCEPT ![m] = IF @ = "none" THEN @ ELSE "pubcomp"]
    BY <1>2 DEF LoopAnswer
  <2>2. a.type = "PUBREC" => "pubcomp" \in WaitsFor(m)
    BY <2>1, AnswerFields, WaitTypes
  <2>3. waiting' \in [Messages -> {"none", "puback", "pubrec", "pubcomp"}]
    BY <2>1
  <2>4. \A n \in Messages : waiting'[n] \in WaitsFor(n)
    BY <2>1, <2>2, WaitTypes
  <2> QED
    BY <1>2, <2>3, <2>4 DEF LoopAnswer
<1>3. ASSUME NEW m \in Messages, LoopRetry(m) PROVE MessagesTypeOK'
  BY <1>3 DEF LoopRetry, messageVars
<1> QED
  BY <1>1, <1>2, <1>3, LoopStepAlone, MessagesAloneType

(* What the callbacks and their surroundings do to the client. *)
LEMMA CallbackType ==
  ASSUME TypeOK, LoopConnected \/ LoopRefused \/ LoopDisconnected
  PROVE  TypeOK'
<1> USE DEF TypeOK, MosqTypeOK
<1>1. MessagesTypeOK'
  BY CallbackAlone, MessagesAloneType
<1>2. CallTypeOK'
  BY DEF CallTypeOK, LoopConnected, LoopRefused, LoopDisconnected, callVars, appVars
<1>3. AppTypeOK'
  BY DEF AppTypeOK, Places, LoopConnected, LoopRefused, LoopDisconnected, OnConnect,
         Sleepers, Goto, ClearFlag, appVars
<1>4. ClientTypeOK'
  <2> USE DEF ClientTypeOK, LoopPlaces
  <2>1. CASE LoopConnected
    BY <2>1 DEF LoopConnected
  <2>2. CASE LoopRefused
    <3>1. granted' \subseteq Topics
      BY <2>2 DEF LoopRefused, LoopClose, CloseSocket, NoSession
    <3> QED
      BY <2>2, <3>1 DEF LoopRefused, LoopClose, CloseSocket, NoSession
  <2>3. CASE LoopDisconnected
    BY <2>3 DEF LoopDisconnected
  <2> QED
    BY <2>1, <2>2, <2>3
<1> QED
  BY <1>1, <1>2, <1>3, <1>4

LEMMA BeginType == ASSUME TypeOK, NEW a \in Threads, Begin(a) PROVE TypeOK'
<1> USE DEF TypeOK, MosqTypeOK
<1>1. UNCHANGED mosqVars
  BY DEF Begin, CallConnect, CallDisconnect, CallDestroy, CallAdd, CallRemove, CallSend
<1>2. ClientTypeOK' /\ MessagesTypeOK'
  BY <1>1 DEF mosqVars, messageVars, ClientTypeOK, MessagesTypeOK
<1>3. AppTypeOK'
  <2> USE DEF AppTypeOK, Places, Goto
  <2>1. ASSUME NEW d \in Timeouts, CallConnect(a, d) PROVE AppTypeOK'
    <3>1. timeout' \in [Threads -> {"max", "finite"}]
      BY <2>1, TimeoutsAssumption DEF CallConnect
    <3> QED
      BY <2>1, <3>1 DEF CallConnect
  <2>2. CASE CallDisconnect(a) \/ CallDestroy(a)
    BY <2>2 DEF CallDisconnect, CallDestroy
  <2>3. ASSUME NEW t \in Topics, CallAdd(a, t) \/ CallRemove(a, t) PROVE AppTypeOK'
    BY <2>3 DEF CallAdd, CallRemove
  <2>4. ASSUME NEW m \in Messages, CallSend(a, m) PROVE AppTypeOK'
    BY <2>4 DEF CallSend
  <2> QED
    BY <2>1, <2>2, <2>3, <2>4 DEF Begin
<1>4. CallTypeOK'
  <2>1. CASE UNCHANGED callVars
    BY <2>1 DEF CallTypeOK, callVars
  <2>2. ASSUME NEW m \in Messages, CallSend(a, m) PROVE CallTypeOK'
    BY <2>2 DEF CallSend, CallTypeOK
  <2> QED
    BY <2>1, <2>2 DEF Begin, CallConnect, CallDisconnect, CallDestroy, CallAdd, CallRemove
<1> QED
  BY <1>2, <1>3, <1>4

(* The steps inside a call that send nothing. *)
LEMMA QuietStepType ==
  ASSUME TypeOK, NEW a \in Threads,
         \/ ConnectRetry(a) \/ ConnectReturn(a) \/ ConnectSleep(a) \/ ConnectThrow(a)
         \/ Join(a) \/ Check(a) \/ SpuriousWakeup(a) \/ ConnectExpire(a)
  PROVE  TypeOK'
<1>1. UNCHANGED <<mosqVars, connected, subscriptions, todo, topic, timeout, callVars>>
  BY DEF ConnectRetry, ConnectReturn, ConnectSleep, ConnectThrow, Join, Check, SpuriousWakeup,
         ConnectExpire
<1>2. pc' \in [Threads -> Places]
  BY DEF TypeOK, AppTypeOK, Places, Goto, ConnectRetry, ConnectReturn, ConnectSleep,
         ConnectThrow, Join, Check, SpuriousWakeup, ConnectExpire
<1>3. MosqTypeOK'
  BY <1>1 DEF TypeOK, MosqTypeOK, ClientTypeOK, MessagesTypeOK, mosqVars, messageVars
<1> QED
  BY <1>1, <1>2, <1>3 DEF TypeOK, AppTypeOK, CallTypeOK, callVars

(* Only a thread in send_message has a message in hand. *)
Handed == \A a \in Threads : pc[a] = "publish" => message[a] \in Messages

(* The steps of an application thread on the client object. *)
LEMMA ClientStepType ==
  ASSUME TypeOK, Handed, NEW a \in Threads,
         \/ ConnectReset(a) \/ ConnectOpen(a) \/ ConnectEstablished(a) \/ SendNext(a)
         \/ DoDisconnect(a) \/ EndDisconnect(a) \/ SendPacket(a) \/ DoPublish(a)
  PROVE  TypeOK'
<1>1. AppTypeOK'
  BY DEF TypeOK, AppTypeOK, Places, Goto, ConnectReset, ConnectOpen, ConnectEstablished,
         Resubscribe, SendNext, DoDisconnect, EndDisconnect, SendPacket, DoPublish
<1>2. CallTypeOK'
  <2>1. CASE DoPublish(a)
    BY <2>1 DEF DoPublish, TypeOK, CallTypeOK
  <2>2. CASE UNCHANGED callVars
    BY <2>2 DEF TypeOK, CallTypeOK, callVars
  <2> QED
    BY <2>1, <2>2 DEF ConnectReset, ConnectOpen, ConnectEstablished, SendNext, DoDisconnect,
       EndDisconnect, SendPacket
<1>3. MessagesTypeOK'
  <2>1. CASE DoPublish(a)
    <3>1. message[a] \in Messages
      BY <2>1 DEF DoPublish, Handed
    <3>2. waiting' \in [Messages -> {"none", "puback", "pubrec", "pubcomp"}]
      BY <2>1, <3>1 DEF DoPublish, RequestPublish, FirstAnswer, TypeOK, MosqTypeOK,
                        MessagesTypeOK
    <3>3. \A m \in Messages : waiting'[m] \in WaitsFor(m)
      BY <2>1, <3>1, WaitTypes DEF DoPublish, RequestPublish, TypeOK, MosqTypeOK,
                                   MessagesTypeOK
    <3> QED
      BY <2>1, <3>2, <3>3 DEF DoPublish, TypeOK, MosqTypeOK, MessagesTypeOK
  <2> QED
    BY <2>1, ThreadAlone, MessagesAloneType DEF TypeOK, MosqTypeOK, Continue
<1>4. ClientTypeOK'
  <2> USE DEF TypeOK, MosqTypeOK, ClientTypeOK
  <2>1. CASE ConnectReset(a)
    BY <2>1, ResetType DEF ConnectReset, LoopPlaces
  <2>2. CASE ConnectOpen(a)
    BY <2>2, OpenType DEF ConnectOpen
  <2>3. CASE ConnectEstablished(a) \/ DoDisconnect(a)
    BY <2>3 DEF ConnectEstablished, Resubscribe, CanSend, DoDisconnect, RequestDisconnect
  <2>4. CASE SendNext(a)
    <3>1. PICK t \in todo : out' = out \/ out' = out \o <<Subscribe(t)>>
      BY <2>4 DEF SendNext, Send
    <3>2. <<Subscribe(t)>> \in Seq(Packets)
      BY PacketTypes DEF AppTypeOK
    <3>3. out' \in Seq(Packets)
      BY <3>1, <3>2, QueueType
    <3> QED
      BY <2>4, <3>3 DEF SendNext
  <2>5. CASE EndDisconnect(a)
    <3>1. out' \in Seq(Packets)
      BY <2>5, PacketTypes, AppendType DEF EndDisconnect, SendDisconnect
    <3> QED
      BY <2>5, <3>1 DEF EndDisconnect
  <2>6. CASE SendPacket(a)
    <3>1. PacketOf(a) \in Packets
      BY PacketTypes DEF PacketOf, AppTypeOK
    <3>2. <<PacketOf(a)>> \in Seq(Packets)
      BY <3>1
    <3>3. out' \in Seq(Packets)
      BY <2>6, <3>2, QueueType DEF SendPacket, Send
    <3> QED
      BY <2>6, <3>3 DEF SendPacket
  <2>7. CASE DoPublish(a)
    <3>1. message[a] \in Messages
      BY <2>7 DEF DoPublish, Handed
    <3>2. out' \in Seq(Packets)
      BY <2>7, <3>1, PacketTypes, AppendType DEF DoPublish, RequestPublish
    <3> QED
      BY <2>7, <3>2 DEF DoPublish
  <2> QED
    BY <2>1, <2>2, <2>3, <2>4, <2>5, <2>6, <2>7
<1> QED
  BY <1>1, <1>2, <1>3, <1>4 DEF TypeOK, MosqTypeOK

LEMMA NextTypeOK == TypeOK /\ Handed /\ [Next]_vars => TypeOK'
<1> SUFFICES ASSUME TypeOK, Handed, [Next]_vars PROVE TypeOK'
  OBVIOUS
<1>1. CASE LoopStep /\ UNCHANGED appVars
  <2>1. MosqTypeOK'
    BY <1>1, LoopStepClientType, LoopStepMessagesType DEF TypeOK, MosqTypeOK
  <2> QED
    BY <1>1, <2>1 DEF appVars, callVars, TypeOK, AppTypeOK, CallTypeOK
<1>2. CASE LoopConnected \/ LoopRefused \/ LoopDisconnected
  BY <1>2, CallbackType
<1>3. CASE ConnectionLoss /\ UNCHANGED appVars
  BY <1>3, FaultType DEF ConnectionLoss, appVars, callVars, messageVars, TypeOK, AppTypeOK,
     CallTypeOK, MosqTypeOK, ClientTypeOK, MessagesTypeOK
<1>4. ASSUME NEW a \in Threads,
             Begin(a) \/ Continue(a) \/ SpuriousWakeup(a) \/ ConnectExpire(a)
      PROVE  TypeOK'
  BY <1>4, BeginType, QuietStepType, ClientStepType DEF Continue
<1>5. CASE UNCHANGED vars
  BY <1>5 DEF vars, mosqVars, messageVars, appVars, callVars, TypeOK, AppTypeOK, CallTypeOK,
     MosqTypeOK, ClientTypeOK, MessagesTypeOK
<1> QED
  BY <1>1, <1>2, <1>3, <1>4, <1>5 DEF Next, LoopThread, Rest

LEMMA InitHanded == Init => Handed
  BY DEF Init, Handed

LEMMA NextHanded == TypeOK /\ Handed /\ [Next]_vars => Handed'
<1> SUFFICES ASSUME TypeOK, Handed, [Next]_vars PROVE Handed'
  OBVIOUS
<1> USE DEF Handed, TypeOK, AppTypeOK, CallTypeOK
<1>1. CASE LoopThread
  BY <1>1 DEF LoopThread, LoopConnected, LoopRefused, LoopDisconnected, OnConnect,
     Sleepers, Goto, appVars, callVars
<1>2. CASE (ConnectionLoss /\ UNCHANGED appVars) \/ UNCHANGED vars
  BY <1>2 DEF vars, appVars, callVars
<1>3. ASSUME NEW a \in Threads, Begin(a) PROVE Handed'
  <2>1. ASSUME NEW m \in Messages, CallSend(a, m) PROVE Handed'
    BY <2>1 DEF CallSend, Goto
  <2> QED
    BY <1>3, <2>1 DEF Begin, CallConnect, CallDisconnect, CallDestroy, CallAdd,
       CallRemove, Goto, callVars
<1>4. ASSUME NEW a \in Threads, Continue(a) \/ SpuriousWakeup(a) \/ ConnectExpire(a)
      PROVE  Handed'
  <2>1. CASE DoPublish(a)
    BY <2>1 DEF DoPublish, Goto
  <2>2. ASSUME UNCHANGED callVars, NEW place \in Places \ {"publish"}, Goto(a, place)
        PROVE  Handed'
    BY <2>2 DEF Goto, callVars
  <2>3. CASE SendNext(a)
    <3>1. UNCHANGED pc \/ Goto(a, "idle")
      BY <2>3 DEF SendNext
    <3>2. UNCHANGED callVars
      BY <2>3 DEF SendNext
    <3>3. CASE UNCHANGED pc
      BY <3>2, <3>3 DEF callVars
    <3> QED
      BY <2>2, <3>1, <3>2, <3>3 DEF Places
  <2> QED
    BY <1>4, <2>1, <2>2, <2>3 DEF Continue, ConnectReset, ConnectOpen, ConnectRetry,
       ConnectEstablished, ConnectReturn, ConnectSleep, ConnectThrow, DoDisconnect,
       EndDisconnect, Join, Check, SendPacket, SpuriousWakeup, ConnectExpire, Places
<1> QED
  BY <1>1, <1>2, <1>3, <1>4 DEF Next, Rest

(* The client object, the broker's end of the connection and the           *)
(* communicator keep their types; in particular everything that is queued  *)
(* for the broker is a packet it knows.                                    *)
THEOREM TypeCorrect == Spec => []TypeOK
<1>1. Init => TypeOK /\ Handed
  BY InitTypeOK, InitHanded
<1>2. TypeOK /\ Handed /\ [Next]_vars => (TypeOK /\ Handed)'
  BY NextTypeOK, NextHanded
<1> QED
  BY <1>1, <1>2, PTL DEF Spec
-----------------------------------------------------------------------------
(* Messages of QoS 1                                                       *)

(* A PUBACK is under way only for what the broker has passed on, and what  *)
(* is being sent has not been sent before.                                 *)
AckedIsDelivered == \A a \in answers : a.type = "PUBACK" => delivered[a.message] > 0

KeptInv == TypeOK /\ Handed /\ AckedIsDelivered /\ AtLeastOnce

LEMMA InitKept == Init => AckedIsDelivered /\ AtLeastOnce
  BY DEF Init, MosqInit, AckedIsDelivered, AtLeastOnce

LEMMA AloneKept ==
  ASSUME KeptInv, MessagesAlone,
         outcome' = outcome \/ \E m \in Messages : outcome' = [outcome EXCEPT ![m] = "sending"]
  PROVE  (AckedIsDelivered /\ AtLeastOnce)'
<1>1. \A m \in Messages : outcome'[m] \in {"returned", "threw"} => outcome'[m] = outcome[m]
  BY DEF KeptInv, TypeOK, CallTypeOK
<1> QED
  BY <1>1 DEF KeptInv, MessagesAlone, AckedIsDelivered, AtLeastOnce

(* What has been passed on stays passed on. *)
LEMMA DeliverGrows ==
  ASSUME MessagesTypeOK, NEW m \in Messages, Deliver(m)
  PROVE  /\ delivered'[m] > 0
         /\ \A n \in Messages : delivered[n] > 0 => delivered'[n] > 0
  BY DEF MessagesTypeOK, Deliver

LEMMA WriteKept ==
  ASSUME KeptInv, LoopWrite, UNCHANGED appVars
  PROVE  (AckedIsDelivered /\ AtLeastOnce)'
<1>1. /\ OnPacket(Head(out)) /\ Head(out) \in Packets
      /\ waiting' = waiting /\ outcome' = outcome
  BY HeadTailType DEF LoopWrite, KeptInv, TypeOK, MosqTypeOK, appVars, callVars
<1>2. CASE UNCHANGED <<answers, stored, delivered>>
  BY <1>1, <1>2 DEF KeptInv, AckedIsDelivered, AtLeastOnce
<1>3. ASSUME NEW m \in Messages, OnPublishPacket(m) \/ OnPubrelPacket(m)
      PROVE  (AckedIsDelivered /\ AtLeastOnce)'
  <2>1. delivered' = delivered \/ Deliver(m)
    BY <1>3 DEF OnPublishPacket, OnPubrelPacket
  <2>2. \A n \in Messages : delivered[n] > 0 => delivered'[n] > 0
    BY <2>1, DeliverGrows DEF KeptInv, TypeOK, MosqTypeOK
  <2>3. \A a \in answers' : a.type = "PUBACK" =>
           a \in answers \/ (a.message = m /\ delivered'[m] > 0)
    BY <1>3, DeliverGrows
       DEF OnPublishPacket, OnPubrelPacket, Puback, Pubrec, Pubcomp, KeptInv, TypeOK, MosqTypeOK
  <2>4. \A a \in answers : a.message \in Messages
    <3>1. \A a \in Answers : a.message \in Messages
      BY DEF Answers, Puback, Pubrec, Pubcomp
    <3> QED
      BY <3>1 DEF KeptInv, TypeOK, MosqTypeOK, MessagesTypeOK
  <2> QED
    BY <1>1, <2>2, <2>3, <2>4 DEF KeptInv, AckedIsDelivered, AtLeastOnce
<1> QED
  BY <1>1, <1>2, <1>3, PacketFields DEF OnPacket, OnMessagePacket

(* The library forgets a message when its PUBACK arrives, and the PUBACK   *)
(* says that the broker has it.                                            *)
LEMMA AnswerKept ==
  ASSUME KeptInv, NEW m \in Messages, LoopAnswer(m), UNCHANGED appVars
  PROVE  (AckedIsDelivered /\ AtLeastOnce)'
<1>1. PICK a \in answers :
         /\ a.message = m
         /\ answers' = answers \ {a}
         /\ \/ /\ a.type \in {"PUBACK", "PUBCOMP"}
               /\ waiting' = [waiting EXCEPT ![m] = "none"]
            \/ /\ a.type = "PUBREC"
               /\ waiting' = [waiting EXCEPT ![m] = IF @ = "none" THEN @ ELSE "pubcomp"]
  BY DEF LoopAnswer
<1>2. delivered' = delivered /\ outcome' = outcome
  BY DEF LoopAnswer, appVars, callVars
<1>3. a.type = "PUBCOMP" => Qos[m] = 2
  BY <1>1, AnswerFields DEF KeptInv, TypeOK, MosqTypeOK, MessagesTypeOK
<1>4. a.type = "PUBACK" => delivered[m] > 0
  BY <1>1 DEF KeptInv, AckedIsDelivered
<1>5. \A n \in Messages :
         \/ waiting'[n] = "none" <=> waiting[n] = "none"
         \/ n = m /\ (Qos[m] = 2 \/ delivered[m] > 0)
  BY <1>1, <1>3, <1>4 DEF KeptInv, TypeOK, MosqTypeOK, MessagesTypeOK
<1>6. AckedIsDelivered'
  BY <1>1, <1>2 DEF KeptInv, AckedIsDelivered
<1>7. AtLeastOnce'
  BY <1>2, <1>5 DEF KeptInv, AtLeastOnce
<1> QED
  BY <1>6, <1>7

(* publish takes the message into out_messages, also if it then fails.     *)
LEMMA PublishKept ==
  ASSUME KeptInv, NEW a \in Threads, DoPublish(a)
  PROVE  (AckedIsDelivered /\ AtLeastOnce)'
<1> DEFINE m == message[a]
<1>1. m \in Messages
  BY DEF KeptInv, Handed, DoPublish
<1>2. /\ UNCHANGED <<answers, delivered>>
      /\ Qos[m] = 1 => waiting'[m] # "none"
      /\ \A n \in Messages \ {m} : waiting'[n] = waiting[n] /\ outcome'[n] = outcome[n]
  BY <1>1 DEF DoPublish, RequestPublish, FirstAnswer, KeptInv, TypeOK, MosqTypeOK,
              MessagesTypeOK, CallTypeOK
<1> QED
  BY <1>1, <1>2 DEF KeptInv, AckedIsDelivered, AtLeastOnce

LEMMA NextKept == KeptInv /\ [Next]_vars => KeptInv'
<1> SUFFICES ASSUME KeptInv, [Next]_vars PROVE (AckedIsDelivered /\ AtLeastOnce)'
  BY NextTypeOK, NextHanded DEF KeptInv
<1>1. CASE LoopStep /\ UNCHANGED appVars
  <2>1. ASSUME NEW m \in Messages, LoopRetry(m) PROVE MessagesAlone
    BY <2>1 DEF LoopRetry, MessagesAlone, messageVars
  <2> QED
    BY <1>1, <2>1, LoopStepAlone, WriteKept, AnswerKept, AloneKept DEF appVars, callVars
<1>2. CASE LoopConnected \/ LoopRefused \/ LoopDisconnected
  <2>1. outcome' = outcome
    BY <1>2 DEF LoopConnected, LoopRefused, LoopDisconnected, callVars, appVars
  <2> QED
    BY <1>2, <2>1, CallbackAlone, AloneKept
<1>3. CASE (ConnectionLoss /\ UNCHANGED appVars) \/ UNCHANGED vars
  BY <1>3, AloneKept DEF ConnectionLoss, vars, mosqVars, messageVars, appVars, callVars,
     MessagesAlone
<1>4. ASSUME NEW a \in Threads,
             Begin(a) \/ Continue(a) \/ SpuriousWakeup(a) \/ ConnectExpire(a)
      PROVE  (AckedIsDelivered /\ AtLeastOnce)'
  <2>1. CASE DoPublish(a)
    BY <2>1, PublishKept
  <2>2. \/ outcome' = outcome
        \/ \E m \in Messages : outcome' = [outcome EXCEPT ![m] = "sending"]
        \/ DoPublish(a)
    BY <1>4 DEF Begin, Continue, CallConnect, CallDisconnect, CallDestroy, CallAdd,
       CallRemove, CallSend, ConnectReset, ConnectOpen, ConnectRetry, ConnectEstablished,
       SendNext, ConnectReturn, ConnectSleep, ConnectThrow, DoDisconnect, EndDisconnect, Join,
       Check, SendPacket, SpuriousWakeup, ConnectExpire, callVars
  <2> QED
    BY <1>4, <2>1, <2>2, ThreadAlone, AloneKept
<1> QED
  BY <1>1, <1>2, <1>3, <1>4 DEF Next, LoopThread, Rest

(* send_message with QoS 1 is not in vain: until the broker has passed the *)
(* message on the library keeps it, over lost, refused and replaced        *)
(* connections and requested disconnects alike, and whether send_message   *)
(* has returned or thrown.                                                 *)
THEOREM KeptUntilDelivered == Spec => []AtLeastOnce
<1>1. Init => KeptInv
  BY InitTypeOK, InitHanded, InitKept DEF KeptInv
<1>2. KeptInv => AtLeastOnce
  BY DEF KeptInv
<1> QED
  BY <1>1, <1>2, NextKept, PTL DEF Spec
-----------------------------------------------------------------------------
(* Messages of QoS 0 and 2                                                 *)

Queued(p) == \E i \in DOMAIN out : out[i] = p

PacketsAbout(m) == {Publish(m), Pubrel(m)}

(* What has not been published yet. *)
Fresh(m) == outcome[m] \in {"unsent", "sending"}

(* A message is in the hands of one thread at most. *)
SentOnce ==
    /\ \A a \in Threads : pc[a] = "publish" => outcome[message[a]] = "sending"
    /\ \A a, b \in Threads :
          pc[a] = "publish" /\ pc[b] = "publish" /\ message[a] = message[b] => a = b

(* A message of QoS 0 is queued once and passed on when it leaves the      *)
(* queue.                                                                  *)
QueuedOnce(m) ==
    /\ Fresh(m) => ~Queued(Publish(m))
    /\ Fresh(m) \/ Queued(Publish(m)) => delivered[m] = 0
    /\ \A i, j \in DOMAIN out : out[i] = Publish(m) /\ out[j] = Publish(m) => i = j
    /\ delivered[m] <= 1

(* A message of QoS 2 is released only after its PUBREC, in the queue      *)
(* behind every copy of it, and never published again after that: so once  *)
(* the broker has passed it on, the broker does not get it again.          *)
ReleasedOnce(m) ==
    /\ Fresh(m) => /\ waiting[m] = "none" /\ ~Queued(Publish(m))
                   /\ \A a \in answers : a.message # m
    /\ Fresh(m) \/ waiting[m] = "pubrec" => delivered[m] = 0 /\ ~Queued(Pubrel(m))
    /\ \A i, j \in DOMAIN out : out[i] = Publish(m) /\ out[j] = Pubrel(m) => i < j
    /\ delivered[m] > 0 => m \notin stored /\ ~Queued(Publish(m))
    /\ delivered[m] <= 1

OnceFor(m) ==
    /\ Qos[m] = 0 => QueuedOnce(m)
    /\ Qos[m] = 2 => ReleasedOnce(m)

OnceInv == TypeOK /\ Handed /\ SentOnce /\ \A m \in Messages : OnceFor(m)

(* No packet about m joins the queue, and those in it keep their order. *)
QueueKept(m) ==
    \E k \in {0, 1} : \A i \in DOMAIN out' :
        out'[i] \in PacketsAbout(m) => i + k \in DOMAIN out /\ out'[i] = out[i + k]

(* A step that does nothing about m but, perhaps, end the session. *)
Passes(m) ==
    /\ QueueKept(m)
    /\ waiting'[m] = waiting[m] /\ delivered'[m] = delivered[m]
    /\ \A a \in answers' : a.message = m => a \in answers
    /\ m \in stored' => m \in stored
    /\ Fresh(m)' => Fresh(m)

LEMMA PassesOnce ==
  ASSUME NEW m, OnceFor(m), out \in Seq(Packets), out' \in Seq(Packets), Passes(m)
  PROVE  OnceFor(m)'
<1>1. PICK k \in {0, 1} : \A i \in DOMAIN out' :
         out'[i] \in PacketsAbout(m) => i + k \in DOMAIN out /\ out'[i] = out[i + k]
  BY DEF Passes, QueueKept
<1>2. \A p \in PacketsAbout(m) : Queued(p)' => Queued(p)
  BY <1>1 DEF Queued
<1>3. DOMAIN out \subseteq Nat /\ DOMAIN out' \subseteq Nat
  OBVIOUS
<1>4. Qos[m] = 0 => QueuedOnce(m)'
  <2>1. Qos[m] = 0 =>
          \A i, j \in DOMAIN out' : out'[i] = Publish(m) /\ out'[j] = Publish(m) => i = j
    <3> SUFFICES ASSUME Qos[m] = 0, NEW i \in DOMAIN out', NEW j \in DOMAIN out',
                        out'[i] = Publish(m), out'[j] = Publish(m)
                 PROVE  i = j
      OBVIOUS
    <3>1. i + k = j + k
      BY <1>1 DEF OnceFor, QueuedOnce, PacketsAbout
    <3> QED
      BY <1>3, <3>1
  <2> QED
    BY <1>2, <2>1 DEF OnceFor, QueuedOnce, Passes, PacketsAbout
<1>5. Qos[m] = 2 => ReleasedOnce(m)'
  <2>1. Qos[m] = 2 =>
          \A i, j \in DOMAIN out' : out'[i] = Publish(m) /\ out'[j] = Pubrel(m) => i < j
    <3> SUFFICES ASSUME Qos[m] = 2, NEW i \in DOMAIN out', NEW j \in DOMAIN out',
                        out'[i] = Publish(m), out'[j] = Pubrel(m)
                 PROVE  i < j
      OBVIOUS
    <3>1. i + k < j + k
      BY <1>1 DEF OnceFor, ReleasedOnce, PacketsAbout
    <3> QED
      BY <1>3, <3>1
  <2> QED
    BY <1>2, <2>1 DEF OnceFor, ReleasedOnce, Passes, PacketsAbout, Fresh
<1> QED
  BY <1>4, <1>5 DEF OnceFor

(* How the queue may change. *)
LEMMA QueueKeptWhen ==
  ASSUME NEW m, out \in Seq(Packets),
         \/ out' = out
         \/ out' = <<>>
         \/ out # <<>> /\ out' = Tail(out)
         \/ \E p \in Packets \ PacketsAbout(m) : out' = Append(out, p)
         \/ \E s \in Seq(Packets) :
               /\ out' = out \o s
               /\ \A i \in DOMAIN s : s[i] \notin PacketsAbout(m)
  PROVE  QueueKept(m)
<1>1. CASE out' = out \/ out' = <<>>
  <2>1. \A i \in DOMAIN out' : i + 0 \in DOMAIN out /\ out'[i] = out[i + 0]
    BY <1>1
  <2> QED
    BY <2>1 DEF QueueKept
<1>2. CASE out # <<>> /\ out' = Tail(out)
  <2>1. \A i \in DOMAIN out' : i + 1 \in DOMAIN out /\ out'[i] = out[i + 1]
    BY <1>2
  <2> QED
    BY <2>1 DEF QueueKept
<1>3. ASSUME NEW p \in Packets \ PacketsAbout(m), out' = Append(out, p)
      PROVE  QueueKept(m)
  <2>1. \A i \in DOMAIN out' :
          out'[i] \in PacketsAbout(m) => i + 0 \in DOMAIN out /\ out'[i] = out[i + 0]
    BY <1>3
  <2> QED
    BY <2>1 DEF QueueKept
<1>4. ASSUME NEW s \in Seq(Packets), out' = out \o s,
             \A i \in DOMAIN s : s[i] \notin PacketsAbout(m)
      PROVE  QueueKept(m)
  <2>1. \A i \in DOMAIN out' :
          out'[i] \in PacketsAbout(m) => i + 0 \in DOMAIN out /\ out'[i] = out[i + 0]
    <3> SUFFICES ASSUME NEW i \in DOMAIN out', out'[i] \in PacketsAbout(m)
                 PROVE  i \in DOMAIN out /\ out'[i] = out[i]
      OBVIOUS
    <3>1. i \in 1..(Len(out) + Len(s))
      BY <1>4
    <3>2. CASE i > Len(out)
      <4>1. i - Len(out) \in DOMAIN s /\ out'[i] = s[i - Len(out)]
        BY <1>4, <3>1, <3>2
      <4> QED
        BY <1>4, <4>1
    <3> QED
      BY <1>4, <3>1, <3>2
  <2> QED
    BY <2>1 DEF QueueKept
<1> QED
  BY <1>1, <1>2, <1>3, <1>4

LEMMA OtherPackets ==
  ASSUME NEW m
  PROVE  /\ Connect \notin PacketsAbout(m) /\ Disconnect \notin PacketsAbout(m)
         /\ \A t : Subscribe(t) \notin PacketsAbout(m) /\ Unsubscribe(t) \notin PacketsAbout(m)
         /\ \A n : n # m => Publish(n) \notin PacketsAbout(m) /\ Pubrel(n) \notin PacketsAbout(m)
         /\ Publish(m) # Pubrel(m)
  BY DEF PacketsAbout, Connect, Disconnect, Subscribe, Unsubscribe, Publish, Pubrel

LEMMA AlonePasses ==
  ASSUME NEW m, MessagesAlone, QueueKept(m), Fresh(m)' => Fresh(m)
  PROVE  Passes(m)
  BY DEF MessagesAlone, Passes

(* The loop thread's steps that concern m: it writes a packet about m,     *)
(* reads an answer about m, or sends m again.                              *)
LEMMA LoopStepPasses ==
  ASSUME TypeOK, NEW m \in Messages, LoopStep, UNCHANGED appVars
  PROVE  \/ Passes(m)
         \/ LoopWrite /\ Head(out) \in PacketsAbout(m)
         \/ LoopAnswer(m) \/ LoopRetry(m)
<1>1. out \in Seq(Packets) /\ (Fresh(m)' => Fresh(m))
  BY DEF TypeOK, MosqTypeOK, ClientTypeOK, appVars, callVars, Fresh
<1>2. CASE LoopNoConn \/ LoopTest \/ LoopStore \/ LoopNoticesLoss \/ LoopCheck \/ LoopWake
  <2>1. out' = out
    BY <1>2 DEF LoopNoConn, LoopTest, LoopStore, LoopNoticesLoss, LoopCheck, LoopWake
  <2>2. MessagesAlone
    BY <1>2 DEF LoopNoConn, LoopTest, LoopStore, LoopNoticesLoss, LoopClose, LoopCheck,
       LoopWake, CloseSocket, NoSession, MessagesAlone, messageVars
  <2> QED
    BY <1>1, <2>1, <2>2, QueueKeptWhen, AlonePasses
<1>3. CASE LoopWriteDisconnect
  <2>1. QueueKept(m)
    BY <1>1, <1>3, QueueKeptWhen DEF LoopWriteDisconnect
  <2>2. MessagesAlone
    BY <1>3 DEF LoopWriteDisconnect, CloseSocket, NoSession, MessagesAlone
  <2> QED
    BY <1>1, <2>1, <2>2, AlonePasses
<1>4. CASE LoopReset
  <2>1. out' = out \/ out' = <<>>
    BY <1>4 DEF LoopReset, Reset
  <2>2. MessagesAlone
    BY <1>4 DEF LoopReset, Reset, CloseSocket, NoSession, MessagesAlone, messageVars
  <2> QED
    BY <1>1, <2>1, <2>2, QueueKeptWhen, AlonePasses
<1>5. CASE LoopOpen
  <2>1. out' = out \/ out' = Append(out, Connect)
    BY <1>5 DEF LoopOpen, OpenSucceeds, OpenFails
  <2>2. QueueKept(m)
    BY <1>1, <2>1, QueueKeptWhen, PacketTypes, OtherPackets
  <2>3. MessagesAlone
    BY <1>5 DEF LoopOpen, OpenSucceeds, OpenFails, NoSession, MessagesAlone, messageVars
  <2> QED
    BY <1>1, <2>2, <2>3, AlonePasses
<1>6. CASE LoopWrite /\ Head(out) \notin PacketsAbout(m)
  <2>1. QueueKept(m) /\ OnPacket(Head(out)) /\ waiting' = waiting /\ Head(out) \in Packets
    BY <1>1, <1>6, QueueKeptWhen, HeadTailType DEF LoopWrite, TypeOK, MosqTypeOK
  <2>2. CASE UNCHANGED <<answers, stored, delivered>>
    BY <1>1, <2>1, <2>2 DEF Passes
  <2>3. ASSUME NEW n \in Messages \ {m}, OnPublishPacket(n) \/ OnPubrelPacket(n)
        PROVE  Passes(m)
    <3>1. delivered'[m] = delivered[m]
      BY <2>3 DEF OnPublishPacket, OnPubrelPacket, Deliver, TypeOK, MosqTypeOK, MessagesTypeOK
    <3>2. \A a \in answers' : a.message = m => a \in answers
      BY <2>3 DEF OnPublishPacket, OnPubrelPacket, Puback, Pubrec, Pubcomp
    <3>3. m \in stored' => m \in stored
      BY <2>3 DEF OnPublishPacket, OnPubrelPacket
    <3> QED
      BY <1>1, <2>1, <3>1, <3>2, <3>3 DEF Passes
  <2>4. /\ Head(out).type = "PUBLISH" => Head(out) = Publish(Head(out).message)
        /\ Head(out).type = "PUBREL" => Head(out) = Pubrel(Head(out).message)
    BY <2>1 DEF Packets, Connect, Disconnect, Subscribe, Unsubscribe, Publish, Pubrel
  <2> QED
    BY <1>6, <2>1, <2>2, <2>3, <2>4, PacketFields DEF OnPacket, OnMessagePacket, PacketsAbout
<1>7. ASSUME NEW n \in Messages \ {m}, LoopAnswer(n) PROVE Passes(m)
  <2>1. PICK a \in answers :
           /\ a.message = n
           /\ answers' = answers \ {a}
           /\ waiting'[m] = waiting[m]
           /\ out' = out \/ (a.type = "PUBREC" /\ out' = Append(out, Pubrel(n)))
    BY <1>7 DEF LoopAnswer, TypeOK, MosqTypeOK, MessagesTypeOK
  <2>2. a.type = "PUBREC" => Pubrel(n) \in Packets
    BY <2>1, AnswerFields, PacketTypes DEF TypeOK, MosqTypeOK, MessagesTypeOK
  <2>3. QueueKept(m)
    BY <1>1, <2>1, <2>2, OtherPackets, QueueKeptWhen
  <2> QED
    BY <1>1, <1>7, <2>1, <2>3 DEF LoopAnswer, Passes
<1>8. ASSUME NEW n \in Messages \ {m}, LoopRetry(n) PROVE Passes(m)
  <2>1. Resent(n) \in Packets \ PacketsAbout(m)
    BY PacketTypes, WaitTypes, OtherPackets DEF Resent, TypeOK, MosqTypeOK, MessagesTypeOK
  <2>2. QueueKept(m)
    BY <1>1, <1>8, <2>1, QueueKeptWhen DEF LoopRetry
  <2> QED
    BY <1>1, <1>8, <2>2 DEF LoopRetry, Passes, messageVars
<1> QED
  BY <1>2, <1>3, <1>4, <1>5, <1>6, <1>7, <1>8 DEF LoopStep

(* The threads' steps concern m only when m is published. *)
LEMMA ThreadPasses ==
  ASSUME TypeOK, Handed, NEW m \in Messages, NEW a \in Threads,
         Begin(a) \/ Continue(a) \/ SpuriousWakeup(a) \/ ConnectExpire(a)
  PROVE  Passes(m) \/ (DoPublish(a) /\ message[a] = m)
<1>1. out \in Seq(Packets)
  BY DEF TypeOK, MosqTypeOK, ClientTypeOK
<1>2. Fresh(m)' => Fresh(m)
  BY DEF Begin, Continue, CallConnect, CallDisconnect, CallDestroy, CallAdd,
     CallRemove, CallSend, ConnectReset, ConnectOpen, ConnectRetry, ConnectEstablished,
     SendNext, ConnectReturn, ConnectSleep, ConnectThrow, DoDisconnect, EndDisconnect, Join,
     Check, SendPacket, DoPublish, SpuriousWakeup, ConnectExpire, callVars, Fresh, TypeOK,
     CallTypeOK
<1>3. CASE DoPublish(a) /\ message[a] # m
  <2>1. message[a] \in Messages
    BY <1>3 DEF DoPublish, Handed
  <2>2. waiting'[m] = waiting[m]
    BY <1>3, <2>1 DEF DoPublish, RequestPublish, TypeOK, MosqTypeOK, MessagesTypeOK
  <2>3. QueueKept(m)
    BY <1>1, <1>3, <2>1, PacketTypes, OtherPackets, QueueKeptWhen
       DEF DoPublish, RequestPublish
  <2> QED
    BY <1>2, <1>3, <2>2, <2>3 DEF DoPublish, Passes
<1>4. CASE ~DoPublish(a)
  <2> SUFFICES QueueKept(m)
    BY <1>2, <1>4, ThreadAlone, AlonePasses
  <2>1. CASE ConnectReset(a)
    BY <1>1, <2>1, QueueKeptWhen DEF ConnectReset, Reset
  <2>2. CASE ConnectOpen(a)
    <3>1. out' = out \/ out' = Append(out, Connect)
      BY <2>2 DEF ConnectOpen, OpenSucceeds, OpenFails
    <3> QED
      BY <1>1, <3>1, QueueKeptWhen, PacketTypes, OtherPackets
  <2>3. CASE SendNext(a)
    <3>1. PICK t \in todo : out' = out \/ out' = out \o <<Subscribe(t)>>
      BY <2>3 DEF SendNext, Send
    <3>2. Subscribe(t) \in Packets \ PacketsAbout(m)
      BY PacketTypes, OtherPackets DEF TypeOK, AppTypeOK
    <3>3. out' = out \/ out' = Append(out, Subscribe(t))
      BY <1>1, <3>1, <3>2
    <3> QED
      BY <1>1, <3>2, <3>3, QueueKeptWhen
  <2>4. CASE EndDisconnect(a)
    BY <1>1, <2>4, PacketTypes, OtherPackets, QueueKeptWhen DEF EndDisconnect, SendDisconnect
  <2>5. CASE SendPacket(a)
    <3>1. PacketOf(a) \in Packets \ PacketsAbout(m)
      BY PacketTypes, OtherPackets DEF PacketOf, TypeOK, AppTypeOK
    <3>2. out' = out \/ out' = Append(out, PacketOf(a))
      BY <1>1, <2>5, <3>1 DEF SendPacket, Send
    <3> QED
      BY <1>1, <3>1, <3>2, QueueKeptWhen
  <2>6. \/ ConnectReset(a) \/ ConnectOpen(a) \/ SendNext(a) \/ EndDisconnect(a)
        \/ SendPacket(a) \/ out' = out
    BY <1>4 DEF Begin, Continue, CallConnect, CallDisconnect, CallDestroy, CallAdd,
       CallRemove, CallSend, ConnectRetry, ConnectEstablished, ConnectReturn, ConnectSleep,
       ConnectThrow, DoDisconnect, Join, Check, SpuriousWakeup, ConnectExpire, mosqVars
  <2> QED
    BY <1>1, <2>1, <2>2, <2>3, <2>4, <2>5, <2>6, QueueKeptWhen
<1> QED
  BY <1>3, <1>4

(* A packet about m reaches the broker. *)
LEMMA WriteOnce ==
  ASSUME OnceInv, NEW m \in Messages, LoopWrite, UNCHANGED appVars,
         Head(out) \in PacketsAbout(m), out' \in Seq(Packets)
  PROVE  OnceFor(m)'
<1>1. /\ out # <<>> /\ out \in Seq(Packets)
      /\ out' = Tail(out) /\ OnPacket(Head(out)) /\ waiting' = waiting
      /\ outcome' = outcome /\ 1 \in DOMAIN out /\ out[1] = Head(out)
      /\ delivered \in [Messages -> 0..2]
  BY DEF LoopWrite, OnceInv, TypeOK, MosqTypeOK, ClientTypeOK, MessagesTypeOK, appVars, callVars
<1>2. /\ QueueKept(m)
      /\ \A i \in DOMAIN out' : i + 1 \in DOMAIN out /\ out'[i] = out[i + 1]
  BY <1>1, QueueKeptWhen
<1>3. CASE UNCHANGED <<answers, stored, delivered>>
  <2>1. Passes(m)
    BY <1>1, <1>2, <1>3 DEF Passes, Fresh
  <2> QED
    BY <1>1, <2>1, PassesOnce DEF OnceInv
<1>4. CASE Head(out) = Publish(m) /\ OnPublishPacket(m) /\ Qos[m] = 0
  <2>1. ~Queued(Publish(m))'
    BY <1>1, <1>2, <1>4 DEF OnceInv, OnceFor, QueuedOnce, Queued
  <2>2. ~Fresh(m) /\ ~Fresh(m)' /\ delivered[m] = 0
    BY <1>1, <1>4 DEF OnceInv, OnceFor, QueuedOnce, Queued, Fresh
  <2>3. delivered'[m] = 1
    BY <1>1, <1>4, <2>2 DEF OnPublishPacket, Deliver
  <2> QED
    BY <1>4, <2>1, <2>2, <2>3 DEF OnceFor, QueuedOnce, Queued
<1>5. CASE Qos[m] = 2
  <2>0. ReleasedOnce(m)
    BY <1>5 DEF OnceInv, OnceFor
  <2>1. \A p \in PacketsAbout(m) : Queued(p)' => Queued(p)
    BY <1>2 DEF Queued
  <2>2. \A i, j \in DOMAIN out' : out'[i] = Publish(m) /\ out'[j] = Pubrel(m) => i < j
    <3> SUFFICES ASSUME NEW i \in DOMAIN out', NEW j \in DOMAIN out',
                        out'[i] = Publish(m), out'[j] = Pubrel(m)
                 PROVE  i < j
      OBVIOUS
    <3>1. i + 1 < j + 1
      BY <1>2, <2>0 DEF ReleasedOnce
    <3> QED
      BY <3>1
  <2>3. CASE Head(out) = Publish(m) /\ OnPublishPacket(m)
    <3>1. ~Fresh(m) /\ ~Fresh(m)' /\ delivered[m] = 0 /\ delivered' = delivered
      BY <1>1, <1>5, <2>0, <2>3 DEF ReleasedOnce, OnPublishPacket, Queued, Fresh
    <3>2. waiting'[m] = "pubrec" => ~Queued(Pubrel(m))
      BY <1>1, <2>0 DEF ReleasedOnce
    <3> QED
      BY <2>1, <2>2, <3>1, <3>2, <1>5 DEF OnceFor, ReleasedOnce, PacketsAbout
  <2>4. CASE Head(out) = Pubrel(m) /\ OnPubrelPacket(m)
    <3>1. ~Fresh(m) /\ ~Fresh(m)' /\ waiting'[m] # "pubrec"
      BY <1>1, <2>0, <2>4 DEF ReleasedOnce, Queued, Fresh
    <3>2. ~Queued(Publish(m))'
      BY <1>1, <1>2, <2>0, <2>4 DEF ReleasedOnce, Queued
    <3>3. m \notin stored' /\ delivered'[m] <= 1
      BY <1>1, <2>0, <2>4 DEF ReleasedOnce, OnPubrelPacket, Deliver
    <3> QED
      BY <2>2, <3>1, <3>2, <3>3, <1>5 DEF OnceFor, ReleasedOnce
  <2> QED
    BY <1>1, <1>3, <2>3, <2>4 DEF PacketsAbout, OnPacket, OnMessagePacket, Publish, Pubrel
<1>6. CASE Qos[m] = 1
  BY <1>6 DEF OnceFor
<1>7. Head(out) = Pubrel(m) => Qos[m] = 2
  BY <1>1, PacketFields DEF Pubrel
<1> QED
  BY <1>1, <1>3, <1>4, <1>5, <1>6, <1>7, QosAssumption
     DEF PacketsAbout, OnPacket, OnMessagePacket, Publish, Pubrel

(* A packet that joins the queue is its last. *)
LEMMA LastQueued ==
  ASSUME out \in Seq(Packets), NEW p \in Packets, out' = Append(out, p)
  PROVE  /\ DOMAIN out' = DOMAIN out \cup {Len(out) + 1}
         /\ \A i \in DOMAIN out : out'[i] = out[i] /\ i \in Nat /\ i < Len(out) + 1
         /\ out'[Len(out) + 1] = p
         /\ \A q \in Packets \ {p} : Queued(q)' => Queued(q)
<1>1. /\ DOMAIN out' = DOMAIN out \cup {Len(out) + 1}
      /\ \A i \in DOMAIN out : out'[i] = out[i] /\ i \in Nat /\ i < Len(out) + 1
      /\ out'[Len(out) + 1] = p
  OBVIOUS
<1> QED
  BY <1>1 DEF Queued

(* After PUBREC m is released, behind all that is queued. *)
LEMMA AnswerOnce ==
  ASSUME OnceInv, NEW m \in Messages, LoopAnswer(m), UNCHANGED appVars
  PROVE  OnceFor(m)'
<1>1. PICK a \in answers :
         /\ a.message = m
         /\ answers' = answers \ {a}
         /\ \/ waiting'[m] = "none" /\ out' = out
            \/ /\ a.type = "PUBREC"
               /\ waiting'[m] \in {"none", "pubcomp"}
               /\ waiting[m] = "none" => waiting'[m] = "none"
               /\ out' = Append(out, Pubrel(m))
  BY DEF LoopAnswer, OnceInv, TypeOK, MosqTypeOK, MessagesTypeOK
<1>2. /\ delivered' = delivered /\ stored' = stored /\ outcome' = outcome
      /\ out \in Seq(Packets)
  BY DEF LoopAnswer, appVars, callVars, OnceInv, TypeOK, MosqTypeOK, ClientTypeOK
<1>3. Qos[m] # 0 /\ (a.type = "PUBREC" => Qos[m] = 2)
  BY <1>1 DEF OnceInv, TypeOK, MosqTypeOK, MessagesTypeOK, Answers, Puback, Pubrec, Pubcomp
<1>4. CASE Qos[m] = 2
  <2>1. ReleasedOnce(m) /\ ~Fresh(m) /\ ~Fresh(m)'
    BY <1>1, <1>2, <1>4 DEF OnceInv, OnceFor, ReleasedOnce, Fresh
  <2>2. CASE out' = out
    BY <1>1, <1>2, <1>4, <2>1, <2>2 DEF OnceFor, ReleasedOnce, Queued
  <2>3. CASE out' = Append(out, Pubrel(m))
    <3>1. Pubrel(m) \in Packets /\ Publish(m) \in Packets \ {Pubrel(m)}
      BY <1>4, PacketTypes, OtherPackets
    <3>2. Queued(Publish(m))' => Queued(Publish(m))
      BY <1>2, <2>3, <3>1, LastQueued
    <3>3. \A i, j \in DOMAIN out' : out'[i] = Publish(m) /\ out'[j] = Pubrel(m) => i < j
      BY <1>2, <2>1, <2>3, <3>1, LastQueued, OtherPackets DEF ReleasedOnce
    <3>4. waiting'[m] # "pubrec"
      BY <1>1
    <3> QED
      BY <1>2, <1>4, <2>1, <3>2, <3>3, <3>4 DEF OnceFor, ReleasedOnce
  <2> QED
    BY <1>1, <2>2, <2>3
<1> QED
  BY <1>3, <1>4, QosAssumption DEF OnceFor

(* Sent again is what has not been released, or the release.               *)
LEMMA RetryOnce ==
  ASSUME OnceInv, NEW m \in Messages, LoopRetry(m), UNCHANGED appVars
  PROVE  OnceFor(m)'
<1>1. /\ UNCHANGED <<waiting, answers, stored, delivered, outcome>>
      /\ waiting[m] # "none" /\ out' = Append(out, Resent(m))
      /\ out \in Seq(Packets) /\ waiting[m] \in WaitsFor(m)
  BY DEF LoopRetry, messageVars, appVars, callVars, OnceInv, TypeOK, MosqTypeOK, ClientTypeOK,
     MessagesTypeOK
<1>2. CASE Qos[m] = 2
  <2>1. /\ ReleasedOnce(m) /\ ~Fresh(m) /\ ~Fresh(m)'
        /\ Pubrel(m) \in Packets /\ Publish(m) \in Packets /\ Publish(m) # Pubrel(m)
    BY <1>1, <1>2, PacketTypes, OtherPackets DEF OnceInv, OnceFor, ReleasedOnce, Fresh
  <2>2. CASE waiting[m] = "pubcomp"
    <3>1. out' = Append(out, Pubrel(m))
      BY <1>1, <2>2 DEF Resent
    <3>2. Queued(Publish(m))' => Queued(Publish(m))
      BY <1>1, <2>1, <3>1, LastQueued
    <3>3. \A i, j \in DOMAIN out' : out'[i] = Publish(m) /\ out'[j] = Pubrel(m) => i < j
      BY <1>1, <2>1, <3>1, LastQueued DEF ReleasedOnce
    <3> QED
      BY <1>1, <1>2, <2>1, <2>2, <3>2, <3>3 DEF OnceFor, ReleasedOnce
  <2>3. CASE waiting[m] = "pubrec"
    <3>1. out' = Append(out, Publish(m))
      BY <1>1, <2>3 DEF Resent
    <3>2. ~Queued(Pubrel(m))' /\ delivered'[m] = 0
      BY <1>1, <2>1, <2>3, <3>1, LastQueued DEF ReleasedOnce
    <3> QED
      BY <1>1, <1>2, <2>1, <2>3, <3>2 DEF OnceFor, ReleasedOnce, Queued
  <2> QED
    BY <1>1, <1>2, <2>2, <2>3 DEF WaitsFor
<1>3. Qos[m] # 0
  BY <1>1 DEF WaitsFor
<1> QED
  BY <1>2, <1>3, QosAssumption DEF OnceFor

LEMMA PublishOnce ==
  ASSUME OnceInv, NEW m \in Messages, NEW a \in Threads, DoPublish(a), message[a] = m
  PROVE  OnceFor(m)'
<1>1. /\ Fresh(m)
      /\ UNCHANGED <<answers, stored, delivered>>
      /\ out' = out \/ out' = Append(out, Publish(m))
      /\ outcome'[m] \in {"returned", "threw"}
      /\ out \in Seq(Packets)
  BY DEF DoPublish, RequestPublish, OnceInv, Handed, SentOnce, Fresh, TypeOK, MosqTypeOK,
     ClientTypeOK, CallTypeOK
<1>2. Publish(m) \in Packets /\ Publish(m) # Pubrel(m)
  BY <1>1, PacketTypes, OtherPackets
<1>3. /\ DOMAIN out \subseteq Nat
      /\ \A i \in DOMAIN out' : i \in DOMAIN out \/ i = Len(out) + 1
      /\ \A i \in DOMAIN out : out'[i] = out[i]
      /\ Pubrel(m) \in Packets /\ Queued(Pubrel(m))' => Queued(Pubrel(m))
  <2>1. CASE out' = out
    BY <1>1, <2>1 DEF Queued
  <2>2. CASE out' = Append(out, Publish(m))
    BY <1>1, <1>2, <2>2, LastQueued
  <2> QED
    BY <1>1, <2>1, <2>2
<1>4. Qos[m] = 0 => QueuedOnce(m)'
  <2>1. Qos[m] = 0 => ~Queued(Publish(m)) /\ delivered[m] = 0
    BY <1>1 DEF OnceInv, OnceFor, QueuedOnce
  <2>2. Qos[m] = 0 => \A i \in DOMAIN out' : out'[i] = Publish(m) => i = Len(out) + 1
    BY <1>3, <2>1 DEF Queued
  <2> QED
    BY <1>1, <2>1, <2>2 DEF QueuedOnce, Fresh
<1>5. Qos[m] = 2 => ReleasedOnce(m)'
  <2> SUFFICES ASSUME Qos[m] = 2 PROVE ReleasedOnce(m)'
    OBVIOUS
  <2>1. ReleasedOnce(m) /\ delivered'[m] = 0 /\ ~Queued(Pubrel(m))'
    BY <1>1, <1>3, PacketTypes DEF OnceInv, OnceFor, ReleasedOnce
  <2> QED
    BY <1>1, <2>1 DEF ReleasedOnce, Fresh, Queued
<1> QED
  BY <1>4, <1>5 DEF OnceFor

LEMMA NextSentOnce == TypeOK /\ SentOnce /\ [Next]_vars => SentOnce'
<1> SUFFICES ASSUME TypeOK, SentOnce, [Next]_vars PROVE SentOnce'
  OBVIOUS
<1> USE DEF SentOnce
<1>1. CASE UNCHANGED callVars /\ \A b \in Threads : pc'[b] = "publish" => pc[b] = "publish"
  BY <1>1 DEF callVars
<1>2. CASE LoopThread
  <2>1. \A b \in Threads : pc'[b] = "publish" => pc[b] = "publish"
    BY <1>2 DEF LoopThread, LoopConnected, LoopRefused, LoopDisconnected, OnConnect, Sleepers,
       Goto, appVars, TypeOK, AppTypeOK
  <2>2. UNCHANGED callVars
    BY <1>2 DEF LoopThread, LoopConnected, LoopRefused, LoopDisconnected, appVars
  <2> QED
    BY <1>1, <2>1, <2>2
<1>3. CASE (ConnectionLoss /\ UNCHANGED appVars) \/ UNCHANGED vars
  BY <1>1, <1>3 DEF vars, appVars
<1>4. ASSUME NEW a \in Threads, NEW m \in Messages, CallSend(a, m) PROVE SentOnce'
  <2>1. /\ outcome[m] = "unsent" /\ outcome' = [outcome EXCEPT ![m] = "sending"]
        /\ message' = [message EXCEPT ![a] = m] /\ pc' = [pc EXCEPT ![a] = "publish"]
    BY <1>4 DEF CallSend, Goto
  <2>2. \A b \in Threads \ {a} : pc'[b] = "publish" =>
           pc[b] = "publish" /\ message'[b] = message[b] /\ message[b] # m
    BY <2>1 DEF TypeOK, AppTypeOK, CallTypeOK
  <2>3. message'[a] = m /\ outcome'[m] = "sending"
    BY <2>1 DEF TypeOK, CallTypeOK
  <2>4. \A n : n # m => outcome'[n] = outcome[n]
    BY <2>1 DEF TypeOK, CallTypeOK
  <2> QED
    BY <2>2, <2>3, <2>4
<1>5. ASSUME NEW a \in Threads, DoPublish(a) PROVE SentOnce'
  <2>1. \A b \in Threads : pc'[b] = "publish" =>
           b # a /\ pc[b] = "publish" /\ message'[b] = message[b] /\ message[b] # message[a]
    BY <1>5 DEF DoPublish, Goto, TypeOK, AppTypeOK, CallTypeOK
  <2>2. \A n : n # message[a] => outcome'[n] = outcome[n]
    BY <1>5 DEF DoPublish, TypeOK, CallTypeOK
  <2> QED
    BY <2>1, <2>2
<1>6. ASSUME NEW a \in Threads,
             Begin(a) \/ Continue(a) \/ SpuriousWakeup(a) \/ ConnectExpire(a),
             ~DoPublish(a), \A m \in Messages : ~CallSend(a, m)
      PROVE  SentOnce'
  <2>1. /\ UNCHANGED callVars
        /\ UNCHANGED pc \/ \E place \in Places \ {"publish"} : Goto(a, place)
    BY <1>6 DEF Begin, Continue, CallConnect, CallDisconnect, CallDestroy, CallAdd,
       CallRemove, ConnectReset, ConnectOpen, ConnectRetry, ConnectEstablished, SendNext,
       ConnectReturn, ConnectSleep, ConnectThrow, DoDisconnect, EndDisconnect, Join, Check,
       SendPacket, SpuriousWakeup, ConnectExpire, Places
  <2>2. \A b \in Threads : pc'[b] = "publish" => pc[b] = "publish"
    BY <2>1 DEF Goto, TypeOK, AppTypeOK
  <2> QED
    BY <1>1, <2>1, <2>2
<1> QED
  BY <1>2, <1>3, <1>4, <1>5, <1>6 DEF Next, Rest

LEMMA InitOnce == Init => OnceInv
<1> SUFFICES ASSUME Init PROVE OnceInv
  OBVIOUS
<1>1. TypeOK /\ Handed
  BY InitTypeOK, InitHanded
<1>2. SentOnce /\ \A m \in Messages : OnceFor(m)
  BY DEF Init, MosqInit, SentOnce, OnceFor, QueuedOnce, ReleasedOnce, Queued
<1> QED
  BY <1>1, <1>2 DEF OnceInv

LEMMA NextOnce == OnceInv /\ [Next]_vars => OnceInv'
<1> SUFFICES ASSUME OnceInv, [Next]_vars PROVE OnceInv'
  OBVIOUS
<1>1. TypeOK' /\ Handed' /\ SentOnce'
  BY NextTypeOK, NextHanded, NextSentOnce DEF OnceInv
<1>2. out \in Seq(Packets) /\ out' \in Seq(Packets)
  BY <1>1 DEF OnceInv, TypeOK, MosqTypeOK, ClientTypeOK
<1>3. ASSUME NEW m \in Messages PROVE OnceFor(m)'
  <2>1. CASE Passes(m)
    BY <1>2, <2>1, PassesOnce DEF OnceInv
  <2>2. CASE LoopStep /\ UNCHANGED appVars
    BY <1>2, <2>1, <2>2, LoopStepPasses, WriteOnce, AnswerOnce, RetryOnce DEF OnceInv
  <2>3. CASE LoopConnected \/ LoopRefused \/ LoopDisconnected
    <3>1. out' = out /\ outcome' = outcome
      BY <2>3 DEF LoopConnected, LoopRefused, LoopDisconnected, callVars, appVars
    <3> QED
      BY <1>2, <2>1, <2>3, <3>1, QueueKeptWhen, CallbackAlone, AlonePasses DEF Fresh
  <2>4. CASE (ConnectionLoss /\ UNCHANGED appVars) \/ UNCHANGED vars
    <3>1. out' = out /\ outcome' = outcome /\ MessagesAlone
      BY <2>4 DEF ConnectionLoss, vars, mosqVars, messageVars, appVars, callVars, MessagesAlone
    <3> QED
      BY <1>2, <2>1, <3>1, QueueKeptWhen, AlonePasses DEF Fresh
  <2>5. ASSUME NEW a \in Threads,
               Begin(a) \/ Continue(a) \/ SpuriousWakeup(a) \/ ConnectExpire(a)
        PROVE  OnceFor(m)'
    BY <2>1, <2>5, ThreadPasses, PublishOnce DEF OnceInv
  <2> QED
    BY <2>2, <2>3, <2>4, <2>5 DEF Next, LoopThread, Rest
<1> QED
  BY <1>1, <1>3 DEF OnceInv

(* A message sent with QoS 2 is passed on by the broker at most once, over *)
(* all retransmissions, lost answers and reconnections, and one of QoS 0   *)
(* is never sent again: what send_message has handed over waits in         *)
(* out_messages, mosquitto_publish, the handlers of PUBREC and PUBCOMP and *)
(* _mosquitto_message_retry_check between them publish it again only       *)
(* before its PUBREC, and the broker keeps it no longer than its session.  *)
THEOREM NeverPassedOnTwice == Spec => []NeverTwice
<1>1. OnceInv => NeverTwice
  BY QosAssumption DEF OnceInv, OnceFor, QueuedOnce, ReleasedOnce, NeverTwice
<1> QED
  BY InitOnce, NextOnce, <1>1, PTL DEF Spec

=============================================================================
