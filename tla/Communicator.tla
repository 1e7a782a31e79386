---------------------------- MODULE Communicator ----------------------------
(***************************************************************************)
(* MQTT_communicator's connection and its subscriptions: application       *)
(* threads that connect, disconnect, add and remove subscriptions, send    *)
(* messages and destroy the object, and the callbacks on_connect and       *)
(* on_disconnect that the loop thread of module Mosquitto runs.            *)
(*                                                                         *)
(* connected is written by the callbacks under connected_mutex and read by *)
(* the application threads without it: each such read is a step.           *)
(* connect_to_broker still holds connected_mutex while it resubscribes,    *)
(* topic by topic, and resubscribe holds subscriptions_mutex; both mutexes *)
(* are guards of the steps that take them.                                 *)
(***************************************************************************)
EXTENDS Mosquitto

CONSTANTS
    Threads,    \* application threads
    Operations, \* the ways in which the threads share the calls among them
    Timeouts,   \* timeouts connect_to_broker is called with: "max", "finite"
    MaxOut,     \* bound: no call that sends starts with more packets waiting
    MaxSends,   \* bound: how many messages are sent
    Overlap     \* whether two threads may be in mosquitto_reconnect at once

OperationKinds == {"connect", "disconnect", "add", "remove", "send", "destroy"}

ASSUME OperationsAssumption == Operations \subseteq [Threads -> SUBSET OperationKinds]
ASSUME TimeoutsAssumption == Timeouts \subseteq {"max", "finite"}
ASSUME BoundsAssumption == MaxOut \in Nat /\ MaxSends \in Nat
ASSUME OverlapAssumption == Overlap \in BOOLEAN

VARIABLES
    connected,      \* the flag is_connected returns
    subscriptions,  \* the topics of the map
    todo,           \* the topics resubscribe has still to send
    pc,             \* pc[a]: where thread a is
    topic,          \* topic[a]: the topic of a's add or remove
    timeout,        \* timeout[a]: the timeout of a's connect_to_broker
    may,            \* may[a]: what thread a may call, in this application
    message,        \* message[a]: what a is sending, or "none"
    outcome         \* history, outcome[m]: how the send_message of m ended

callVars == <<may, message, outcome>>
appVars == <<connected, subscriptions, todo, pc, topic, timeout, callVars>>
vars == <<mosqVars, appVars>>

(* connect_to_broker: "reset", "open" are connect() or reconnect(), "retry" *)
(* the test of the timeout after a failure, "await" before the predicate of *)
(* the wait, "asleep" in the wait, "expired" after its timeout, and         *)
(* "resubscribe" in resubscribe.                                            *)
(* "disconnect", "leave": disconnect_from_broker, called by the user or by  *)
(* the destructor, before disconnect(); "disconnectSend", "leaveSend" in    *)
(* disconnect(), before the packet; "join": in loop_stop.                   *)
(* "addCheck", "addSend": add or remove, before the test of connected and before  *)
(* the packet; "removeCheck", "removeSend" for remove.  "publish": in       *)
(* send_message, after the test of connected.                              *)
Places == {"idle", "reset", "open", "retry", "await", "asleep", "expired", "resubscribe",
           "disconnect", "disconnectSend", "leave", "leaveSend", "join", "gone",
           "addCheck", "addSend", "removeCheck", "removeSend",
           "publish"}

AppTypeOK ==
    /\ connected \in BOOLEAN
    /\ subscriptions \subseteq Topics
    /\ todo \subseteq Topics
    /\ pc \in [Threads -> Places]
    /\ topic \in [Threads -> Topics]
    /\ timeout \in [Threads -> {"max", "finite"}]

CallTypeOK ==
    /\ may \in Operations
    /\ message \in [Threads -> Messages \cup {"none"}]
    /\ outcome \in [Messages -> {"unsent", "sending", "returned", "threw"}]

TypeOK == MosqTypeOK /\ AppTypeOK /\ CallTypeOK

(* After the constructor that only initialises the library and starts the  *)
(* loop.                                                                   *)
Init ==
    /\ MosqInit
    /\ connected = FALSE
    /\ subscriptions = {}
    /\ todo = {}
    /\ pc = [a \in Threads |-> "idle"]
    /\ topic \in [Threads -> {CHOOSE t \in Topics : TRUE}]
    /\ timeout = [a \in Threads |-> "max"]
    /\ may \in Operations
    /\ message = [a \in Threads |-> "none"]
    /\ outcome = [m \in Messages |-> "unsent"]

Goto(a, place) == pc' = [pc EXCEPT ![a] = place]

(* The object is not used after, or while, it is destroyed. *)
MayCall(a, operation) ==
    /\ operation \in may[a]
    /\ pc[a] = "idle"
    /\ operation \in {"add", "remove", "send", "disconnect"} => Len(out) <= MaxOut
    /\ \A b \in Threads : pc[b] \notin {"leave", "leaveSend", "join", "gone"}

(* connected_mutex and subscriptions_mutex: the only steps that keep them  *)
(* to themselves over another step are those of resubscribe.               *)
MutexesFree == \A b \in Threads : pc[b] # "resubscribe"

-----------------------------------------------------------------------------
(* connect_to_broker                                                       *)

(* "Already connected." is thrown otherwise. *)
CallConnect(a, d) ==
    /\ MayCall(a, "connect")
    /\ ~connected
    /\ Goto(a, "reset")
    /\ timeout' = [timeout EXCEPT ![a] = d]
    /\ UNCHANGED <<mosqVars, connected, subscriptions, todo, topic, callVars>>

(* Without Overlap nobody enters mosquitto_reconnect while another thread   *)
(* opens its TCP connection there.                                         *)
MayReset == Overlap \/ (loop # "open" /\ \A a \in Threads : pc[a] # "open")

(* connect(), later reconnect(): its first half.  If the loop thread is in *)
(* mosquitto_loop with the socket that is closed here, its select may fail. *)
ConnectReset(a) ==
    /\ pc[a] = "reset"
    /\ MayReset
    /\ host' = TRUE
    /\ Reset
    /\ loop' \in IF loop = "run" /\ sock # "none" THEN {"run", "broken"} ELSE {loop}
    /\ Goto(a, "open")
    /\ UNCHANGED <<faults, erased, connected, subscriptions, todo, topic, timeout, callVars>>

ConnectOpen(a) ==
    /\ pc[a] = "open"
    /\ \/ OpenSucceeds /\ Goto(a, "await")
       \/ OpenFails /\ Goto(a, "retry")
    /\ UNCHANGED <<host, loop, erased, connected, subscriptions, todo, topic, timeout, callVars>>

(* Sleep a second and call reconnect(), or throw when the time is over. *)
ConnectRetry(a) ==
    /\ pc[a] = "retry"
    /\ \/ Goto(a, "reset")
       \/ timeout[a] = "finite" /\ Goto(a, "idle")
    /\ UNCHANGED <<mosqVars, connected, subscriptions, todo, topic, timeout, callVars>>

(* Fault: the subscriptions made before are not sent. *)
NoResubscribe == todo' = {} /\ resubscribed' = CanSend

(* resubscribe begins: what it sends, it sends on the connection there is. *)
Resubscribe == todo' = subscriptions /\ resubscribed' = CanSend

(* Fault: a successful connect() is taken for an established connection. *)
AlwaysEstablished == TRUE

Established == connected

(* The wait's predicate holds, before the wait, after a wake-up or after   *)
(* the timeout.                                                            *)
ConnectEstablished(a) ==
    /\ pc[a] \in {"await", "expired"}
    /\ MutexesFree
    /\ Established
    /\ Resubscribe
    /\ Goto(a, "resubscribe")
    /\ UNCHANGED <<state, host, sock, out, loop, session, granted, connack, faults>>
    /\ UNCHANGED <<erased, messageVars, connected, subscriptions, topic, timeout, callVars>>

(* The next SUBSCRIBE, in the order of the hash map; without a socket it   *)
(* throws.                                                                 *)
SendNext(a) ==
    /\ pc[a] = "resubscribe"
    /\ \E t \in todo :
          \/ /\ CanSend
             /\ Send(<<Subscribe(t)>>)
             /\ todo' = todo \ {t}
             /\ UNCHANGED pc
          \/ /\ ~CanSend
             /\ todo' = {}
             /\ Goto(a, "idle")
             /\ UNCHANGED out
    /\ UNCHANGED <<state, host, sock, loop, session, granted, connack, faults, resubscribed>>
    /\ UNCHANGED <<erased, messageVars, connected, subscriptions, topic, timeout, callVars>>

ConnectReturn(a) ==
    /\ pc[a] = "resubscribe"
    /\ todo = {}
    /\ Goto(a, "idle")
    /\ UNCHANGED <<mosqVars, connected, subscriptions, todo, topic, timeout, callVars>>

ConnectSleep(a) ==
    /\ pc[a] = "await"
    /\ MutexesFree
    /\ ~connected
    /\ Goto(a, "asleep")
    /\ UNCHANGED <<mosqVars, connected, subscriptions, todo, topic, timeout, callVars>>

SpuriousWakeup(a) ==
    /\ pc[a] = "asleep"
    /\ Goto(a, "await")
    /\ UNCHANGED <<mosqVars, connected, subscriptions, todo, topic, timeout, callVars>>

ConnectExpire(a) ==
    /\ pc[a] = "asleep"
    /\ timeout[a] = "finite"
    /\ Goto(a, "expired")
    /\ UNCHANGED <<mosqVars, connected, subscriptions, todo, topic, timeout, callVars>>

ConnectThrow(a) ==
    /\ pc[a] = "expired"
    /\ MutexesFree
    /\ ~connected
    /\ Goto(a, "idle")
    /\ UNCHANGED <<mosqVars, connected, subscriptions, todo, topic, timeout, callVars>>

-----------------------------------------------------------------------------
(* disconnect_from_broker and the destructor                               *)

CallDisconnect(a) ==
    /\ MayCall(a, "disconnect")
    /\ connected
    /\ Goto(a, "disconnect")
    /\ UNCHANGED <<mosqVars, connected, subscriptions, todo, topic, timeout, callVars>>

(* The destructor asks for a disconnect only if connected.  Nobody else    *)
(* uses the object by then.                                                *)
CallDestroy(a) ==
    /\ MayCall(a, "destroy")
    /\ \A b \in Threads : pc[b] = "idle"
    /\ Goto(a, IF connected THEN "leave" ELSE "join")
    /\ UNCHANGED <<mosqVars, connected, subscriptions, todo, topic, timeout, callVars>>

DoDisconnect(a) ==
    /\ pc[a] \in {"disconnect", "leave"}
    /\ RequestDisconnect
    /\ Goto(a, IF pc[a] = "leave" THEN "leaveSend" ELSE "disconnectSend")
    /\ UNCHANGED <<host, sock, out, loop, session, granted, connack, faults, resubscribed>>
    /\ UNCHANGED <<erased, messageVars, connected, subscriptions, todo, topic, timeout, callVars>>

EndDisconnect(a) ==
    /\ pc[a] \in {"disconnectSend", "leaveSend"}
    /\ SendDisconnect
    /\ Goto(a, IF pc[a] = "leaveSend" THEN "join" ELSE "idle")
    /\ UNCHANGED <<state, host, sock, loop, session, granted, connack, faults, resubscribed>>
    /\ UNCHANGED <<erased, messageVars, connected, subscriptions, todo, topic, timeout, callVars>>

(* loop_stop joins the loop thread. *)
Join(a) ==
    /\ pc[a] = "join"
    /\ loop = "exited"
    /\ Goto(a, "gone")
    /\ UNCHANGED <<mosqVars, connected, subscriptions, todo, topic, timeout, callVars>>

-----------------------------------------------------------------------------
(* add_subscription and remove_subscription                                *)

CallAdd(a, t) ==
    /\ MayCall(a, "add")
    /\ MutexesFree
    /\ subscriptions' = subscriptions \cup {t}
    /\ topic' = [topic EXCEPT ![a] = t]
    /\ Goto(a, "addCheck")
    /\ UNCHANGED <<mosqVars, connected, todo, timeout, callVars>>

CallRemove(a, t) ==
    /\ MayCall(a, "remove")
    /\ MutexesFree
    /\ subscriptions' = subscriptions \ {t}
    /\ topic' = [topic EXCEPT ![a] = t]
    /\ Goto(a, "removeCheck")
    /\ UNCHANGED <<mosqVars, connected, todo, timeout, callVars>>

(* Without a connection the map is all there is to change. *)
Check(a) ==
    /\ \/ /\ pc[a] = "addCheck"
          /\ Goto(a, IF connected THEN "addSend" ELSE "idle")
       \/ /\ pc[a] = "removeCheck"
          /\ Goto(a, IF connected THEN "removeSend" ELSE "idle")
    /\ UNCHANGED <<mosqVars, connected, subscriptions, todo, topic, timeout, callVars>>

PacketOf(a) ==
    IF pc[a] = "addSend" THEN Subscribe(topic[a]) ELSE Unsubscribe(topic[a])

(* subscribe or unsubscribe; without a socket it throws, the map stays. *)
SendPacket(a) ==
    /\ pc[a] \in {"addSend", "removeSend"}
    /\ IF CanSend THEN Send(<<PacketOf(a)>>) ELSE UNCHANGED out
    /\ Goto(a, "idle")
    /\ UNCHANGED <<state, host, sock, loop, session, granted, connack, faults, resubscribed,
                   erased, messageVars>>
    /\ UNCHANGED <<connected, subscriptions, todo, topic, timeout, callVars>>

-----------------------------------------------------------------------------
(* send_message                                                            *)

(* "No connection established." is thrown otherwise. *)
CallSend(a, m) ==
    /\ MayCall(a, "send")
    /\ outcome[m] = "unsent"
    /\ Cardinality({n \in Messages : outcome[n] # "unsent"}) < MaxSends
    /\ connected
    /\ message' = [message EXCEPT ![a] = m]
    /\ outcome' = [outcome EXCEPT ![m] = "sending"]
    /\ Goto(a, "publish")
    /\ UNCHANGED <<mosqVars, connected, subscriptions, todo, topic, timeout, may>>

(* publish; without a socket it throws. *)
DoPublish(a) ==
    /\ pc[a] = "publish"
    /\ RequestPublish(message[a])
    /\ outcome' = [outcome EXCEPT ![message[a]] = IF CanSend THEN "returned" ELSE "threw"]
    /\ message' = [message EXCEPT ![a] = "none"]
    /\ Goto(a, "idle")
    /\ UNCHANGED <<state, host, sock, loop, session, granted, connack, faults, resubscribed>>
    /\ UNCHANGED <<erased, answers, stored, delivered>>
    /\ UNCHANGED <<connected, subscriptions, todo, topic, timeout, may>>

-----------------------------------------------------------------------------
(* Callbacks, run by the loop thread                                       *)

Sleepers == {a \in Threads : pc[a] = "asleep"}

(* Fault: the flag is set and nobody is notified. *)
NoNotify == connected' = TRUE /\ UNCHANGED pc

(* Fault: the flag is set only for a thread that waits for it. *)
FlagForWaiterOnly ==
    /\ connected' = (Sleepers # {})
    /\ IF Sleepers = {} THEN UNCHANGED pc ELSE \E a \in Sleepers : Goto(a, "await")

(* on_connect(0): set the flag, notify one thread in connect_to_broker. *)
OnConnect ==
    /\ connected' = TRUE
    /\ IF Sleepers = {} THEN UNCHANGED pc ELSE \E a \in Sleepers : Goto(a, "await")

(* CONNACK with code 0: on_connect takes connected_mutex.  What the loop   *)
(* thread does with state after it is LoopTest and LoopStore.              *)
LoopConnected ==
    /\ loop = "run" /\ sock # "none" /\ connack = "accepted"
    /\ MutexesFree
    /\ OnConnect
    /\ loop' = "test"
    /\ connack' = "none"
    /\ UNCHANGED <<state, host, sock, out, session, granted, faults, resubscribed, erased>>
    /\ UNCHANGED <<messageVars, subscriptions, todo, topic, timeout, callVars>>

(* CONNACK with another code: on_connect only logs; the socket is closed.  *)
LoopRefused ==
    /\ loop = "run" /\ sock # "none" /\ connack = "refused"
    /\ LoopClose
    /\ UNCHANGED <<state, host, out, faults, erased, waiting, delivered, appVars>>

(* Fault: on_disconnect leaves the flag set. *)
FlagStaysSet == UNCHANGED connected

ClearFlag == connected' = FALSE

(* Fault: on_disconnect takes connected_mutex twice and gets no further. *)
LockedTwice == loop \in {"lost", "left"} /\ UNCHANGED vars

(* on_disconnect(rc), after the socket has been closed: connected_mutex.   *)
LoopDisconnected ==
    /\ loop \in {"lost", "left"}
    /\ MutexesFree
    /\ ClearFlag
    /\ loop' = IF loop = "lost" THEN "broken" ELSE "run"
    /\ UNCHANGED <<state, host, sock, out, session, granted, connack, faults, resubscribed>>
    /\ UNCHANGED <<erased, messageVars, subscriptions, todo, pc, topic, timeout, callVars>>

-----------------------------------------------------------------------------
LoopThread ==
    \/ /\ LoopStep
       /\ loop = "reconnect" => MayReset
       /\ UNCHANGED appVars
    \/ LoopConnected
    \/ LoopRefused
    \/ LoopDisconnected

(* What a thread that is inside a call does next. *)
Continue(a) ==
    \/ ConnectReset(a)
    \/ ConnectOpen(a)
    \/ ConnectRetry(a)
    \/ ConnectEstablished(a)
    \/ SendNext(a)
    \/ ConnectReturn(a)
    \/ ConnectSleep(a)
    \/ ConnectThrow(a)
    \/ DoDisconnect(a)
    \/ EndDisconnect(a)
    \/ Join(a)
    \/ Check(a)
    \/ SendPacket(a)
    \/ DoPublish(a)

Begin(a) ==
    \/ \E d \in Timeouts : CallConnect(a, d)
    \/ CallDisconnect(a)
    \/ CallDestroy(a)
    \/ \E t \in Topics : CallAdd(a, t) \/ CallRemove(a, t)
    \/ \E m \in Messages : CallSend(a, m)

(* No thread is in a call, and none has to make another one. *)
Rest == (\A a \in Threads : pc[a] \in {"idle", "gone"}) /\ UNCHANGED vars

Next ==
    \/ LoopThread
    \/ ConnectionLoss /\ UNCHANGED appVars
    \/ \E a \in Threads :
          Begin(a) \/ Continue(a) \/ SpuriousWakeup(a) \/ ConnectExpire(a)
    \/ Rest

Spec == Init /\ [][Next]_vars

(* What mosquitto_loop reads from the socket. *)
LoopReads ==
    \/ LoopConnected
    \/ LoopRefused
    \/ \E m \in Messages : LoopAnswer(m) /\ UNCHANGED appVars

LoopRetries == \E m \in Messages : LoopRetry(m) /\ UNCHANGED appVars

(* Threads that can run do run, the network delivers.  Every round of the  *)
(* loop thread writes, reads and looks for messages that have waited long  *)
(* enough, so none of these can keep it from the others.  Nothing obliges  *)
(* a thread to make a call, a timeout to be short, or a fault to happen.   *)
Fairness ==
    /\ WF_vars(LoopThread) /\ WF_vars(LoopReads) /\ WF_vars(LoopRetries)
    /\ \A a \in Threads : WF_vars(Continue(a))

FairSpec == Spec /\ Fairness

-----------------------------------------------------------------------------
(* Safety                                                                  *)

(* Nobody is in a call, the client is connected and nothing is under way   *)
(* between it and the broker.                                              *)
Settled ==
    /\ \A a \in Threads : pc[a] = "idle"
    /\ connected
    /\ loop = "run" /\ sock = "open" /\ session
    /\ out = <<>> /\ connack = "none"

(* add_subscription promises that messages "can be retrieved by calling    *)
(* get_message": once things have settled, the broker sends what the map   *)
(* expects - also after disconnects and further connections, unless the    *)
(* loop thread has overwritten a requested disconnect and gone on to       *)
(* connect by itself.                                                      *)
NoSubscriptionIsMissing == Settled => subscriptions \subseteq granted \/ erased

(* The same, as far as the code keeps it whatever goes wrong: on a         *)
(* connection on which connect_to_broker has resubscribed and which has    *)
(* not been replaced since, no subscription of the map is missing - also   *)
(* those added while the connection came up.                               *)
ResubscribedIsComplete == Settled /\ resubscribed => subscriptions \subseteq granted

(* is_connected() is true only while a session exists or while the loop    *)
(* thread is about to call on_disconnect for it, unless a requested        *)
(* disconnect has been overwritten: then connect_to_broker may replace a   *)
(* connection of the loop thread's under a set flag.                       *)
FlagIsTruthful == connected => session \/ loop \in {"lost", "left"} \/ erased

(* A session the broker has accepted is known to the application or its    *)
(* CONNACK is still to be read: no on_disconnect that belongs to an older  *)
(* connection clears the flag of a newer one.                              *)
SessionIsKnown == session => connected \/ connack = "accepted"

(* A message published with QoS 1 reaches the broker "at least once": as   *)
(* long as it has not, the library keeps it, whatever happens to the       *)
(* connection - also a message whose send_message has thrown because the   *)
(* connection was gone.                                                    *)
AtLeastOnce ==
    \A m \in Messages :
        Qos[m] = 1 /\ outcome[m] \in {"returned", "threw"}
        => waiting[m] # "none" \/ delivered[m] > 0

(* QoS 2 is "exactly once" in MQTT.  The half of it that survives a        *)
(* reconnection with a clean session: however often the packets are sent   *)
(* again, the broker never passes on such a message twice; nor one of      *)
(* QoS 0.                                                                  *)
NeverTwice == \A m \in Messages : Qos[m] # 1 => delivered[m] <= 1

(* connect_to_broker returns only on an established connection: "(re-)connect *)
(* returning MOSQ_ERR_SUCCESS does not guarantee an fully established      *)
(* connection", which is why it waits for on_connect; unless a requested    *)
(* disconnect has been overwritten, and the flag that ends the wait may be *)
(* about the loop thread's own connection.                                 *)
ReturnsEstablished == [][\A a \in Threads : ConnectReturn(a) => session \/ erased]_vars

-----------------------------------------------------------------------------
(* Liveness                                                                *)

InConnect(a) ==
    pc[a] \in {"reset", "open", "retry", "await", "asleep", "expired", "resubscribe"}

(* connect_to_broker comes back. *)
ConnectReturns == \A a \in Threads : InConnect(a) ~> ~InConnect(a)

(* The destructor comes back. *)
DestructorReturns == \A a \in Threads : (pc[a] = "join") ~> (pc[a] = "gone")

(* The destructor of a connected communicator comes back. *)
ConnectedDestructorReturns ==
    \A a \in Threads : (pc[a] = "leave") ~> (pc[a] = "gone")

(* The same as far as the code keeps it: the join can only wait for ever   *)
(* because the disconnect it rests on has been overwritten by the loop     *)
(* thread, which was still busy with the CONNACK.                          *)
DestructorReturnsUnlessErased ==
    \A a \in Threads : (pc[a] = "leave") ~> (pc[a] = "gone" \/ erased)

(* connect_to_broker closes the connection there is or that is coming up;  *)
(* an application can keep the client from its work by calling it again    *)
(* and again.  What follows is for applications that stop doing so.        *)
LeftInPeace == <>[](\A a \in Threads : ~InConnect(a))

(* A lost connection is established again, unless it was given up. *)
Reconnects ==
    LeftInPeace => ((loop = "lost") ~> (connected \/ state = "disconnecting"))

(* A message of QoS 1 that send_message has taken is passed on in the end. *)
SentIsDelivered ==
    LeftInPeace => \A m \in Messages :
        (Qos[m] = 1 /\ outcome[m] = "returned")
        ~> (delivered[m] > 0 \/ state = "disconnecting")

(* A flag that claims a session which does not exist is put right: either  *)
(* the session comes or on_disconnect clears the flag.                     *)
FlagIsPutRight == (connected /\ ~session) ~> (connected => session)
=============================================================================
