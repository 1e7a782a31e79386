------------------------------ MODULE Mosquitto ------------------------------
(***************************************************************************)
(* The part of libmosquitto that MQTT_communicator stands on: the client   *)
(* object (its state word, socket and outgoing packets), the loop thread   *)
(* started by mosquitto_loop_start, and the broker at the other end of the *)
(* current connection.                                                     *)
(*                                                                         *)
(* Operations called by application threads are operators (Reset, Open,    *)
(* Send, Disconnect); steps of the loop thread that call no callback are   *)
(* actions of LoopStep.  The steps that end in a callback of               *)
(* MQTT_communicator are completed in module Communicator.                 *)
(*                                                                         *)
(* The application threads and the loop thread share the client object     *)
(* without a common lock, so mosquitto_reconnect is two steps, Reset and   *)
(* Open, that any other thread may fall between; so are the two halves of  *)
(* mosquitto_disconnect, and so is what the loop thread does with a        *)
(* CONNACK: the callback, a test, a store.  A packet is handled by         *)
(* the broker in the step that writes it; the CONNACK travels back as a    *)
(* step of its own, and so do the acknowledgements of published messages.  *)
(* A connection that is closed takes its session with it, the subscriptions *)
(* and the messages the broker keeps for it, because the client asks for   *)
(* clean sessions; the client keeps the messages it has not seen answered. *)
(***************************************************************************)
EXTENDS Naturals, Sequences, FiniteSets

CONSTANTS
    Topics,     \* topics that can be subscribed to
    Faults,     \* what can go wrong: see FaultKinds
    MaxFaults,  \* bound: how many times something goes wrong
    Messages,   \* messages that can be published
    Qos         \* Qos[m]: the quality of service m is published with

(* "loss": an open connection breaks.  "unreachable": a TCP connect fails. *)
(* "refused": the broker answers CONNECT with a non-zero code.             *)
FaultKinds == {"loss", "unreachable", "refused"}

ASSUME TopicsAssumption == IsFiniteSet(Topics) /\ Topics # {}
ASSUME FaultsAssumption == Faults \subseteq FaultKinds
ASSUME MaxFaultsAssumption == MaxFaults \in Nat
ASSUME MessagesAssumption == "none" \notin Messages
ASSUME QosAssumption == Qos \in [Messages -> 0..2]

VARIABLES
    state,    \* mosq->state
    host,     \* whether mosq->host is set
    sock,     \* mosq->sock: none, open, or dead (broken, not yet noticed)
    out,      \* the queue of outgoing packets
    loop,     \* where the loop thread is
    session,  \* the broker has accepted CONNECT on the current connection
    granted,  \* topics the broker has subscribed the current session to
    connack,  \* the broker's answer under way to the client
    faults,   \* faults so far
    resubscribed, \* history: connect_to_broker resubscribes on this connection
    erased,   \* history: LoopStore has overwritten a requested disconnect
    waiting,  \* waiting[m]: what m waits for in out_messages, or "none"
    answers,  \* acknowledgements under way to the client
    stored,   \* messages of QoS 2 the broker keeps for the session
    delivered \* history: how often the broker has passed m on, up to 2

messageVars == <<waiting, answers, stored, delivered>>
mosqVars ==
    <<state, host, sock, out, loop, session, granted, connack, faults, resubscribed,
      erased, messageVars>>

Connect == [type |-> "CONNECT"]
Disconnect == [type |-> "DISCONNECT"]
Subscribe(t) == [type |-> "SUBSCRIBE", topic |-> t]
Unsubscribe(t) == [type |-> "UNSUBSCRIBE", topic |-> t]

Publish(m) == [type |-> "PUBLISH", message |-> m]
Pubrel(m) == [type |-> "PUBREL", message |-> m]

(* Only a message of QoS 2 is released. *)
Packets ==
    {Connect, Disconnect} \cup {Subscribe(t) : t \in Topics}
                          \cup {Unsubscribe(t) : t \in Topics}
                          \cup {Publish(m) : m \in Messages}
                          \cup {Pubrel(m) : m \in {n \in Messages : Qos[n] = 2}}

Puback(m) == [type |-> "PUBACK", message |-> m]
Pubrec(m) == [type |-> "PUBREC", message |-> m]
Pubcomp(m) == [type |-> "PUBCOMP", message |-> m]

Answers ==
    {Puback(m) : m \in {n \in Messages : Qos[n] = 1}}
        \cup UNION {{Pubrec(m), Pubcomp(m)} : m \in {n \in Messages : Qos[n] = 2}}

(* What a message that has been published can wait for. *)
WaitsFor(m) ==
    CASE Qos[m] = 0 -> {"none"}
      [] Qos[m] = 1 -> {"none", "puback"}
      [] Qos[m] = 2 -> {"none", "pubrec", "pubcomp"}

(* "run": in or about to call mosquitto_loop.  "test", "store": in          *)
(* _mosquitto_handle_connack after on_connect, before the test of state    *)
(* and before the assignment to it.  "lost", "left": the socket             *)
(* is closed and on_disconnect is about to be called; after "left"         *)
(* mosquitto_loop returns success, after "lost" an error.  "broken":       *)
(* mosquitto_loop returned an error.  "sleep": the delay before a          *)
(* reconnect.  "reconnect", "open": in mosquitto_reconnect, before Reset   *)
(* and before Open.  "exited": _mosquitto_thread_main has returned.        *)
LoopPlaces ==
    {"run", "test", "store", "lost", "left", "broken", "sleep", "reconnect", "open", "exited"}

ClientTypeOK ==
    /\ state \in {"new", "connected", "disconnecting"}
    /\ host \in BOOLEAN
    /\ sock \in {"none", "open", "dead"}
    /\ out \in Seq(Packets)
    /\ loop \in LoopPlaces
    /\ session \in BOOLEAN
    /\ granted \subseteq Topics
    /\ connack \in {"none", "accepted", "refused"}
    /\ faults \in 0..MaxFaults
    /\ resubscribed \in BOOLEAN
    /\ erased \in BOOLEAN

MessagesTypeOK ==
    /\ waiting \in [Messages -> {"none", "puback", "pubrec", "pubcomp"}]
    /\ \A m \in Messages : waiting[m] \in WaitsFor(m)
    /\ answers \subseteq Answers
    /\ stored \subseteq Messages
    /\ delivered \in [Messages -> 0..2]

MosqTypeOK == ClientTypeOK /\ MessagesTypeOK

(* After mosquitto_new and mosquitto_loop_start. *)
MosqInit ==
    /\ state = "new"
    /\ host = FALSE
    /\ sock = "none"
    /\ out = <<>>
    /\ loop = "run"
    /\ session = FALSE
    /\ granted = {}
    /\ connack = "none"
    /\ faults = 0
    /\ resubscribed = FALSE
    /\ erased = FALSE
    /\ waiting = [m \in Messages |-> "none"]
    /\ answers = {}
    /\ stored = {}
    /\ delivered = [m \in Messages |-> 0]

Fault(kind) ==
    /\ kind \in Faults
    /\ faults < MaxFaults
    /\ faults' = faults + 1

-----------------------------------------------------------------------------
(* Operations on the client object                                         *)

NoSession ==
    /\ session' = FALSE
    /\ granted' = {}
    /\ connack' = "none"
    /\ resubscribed' = FALSE
    /\ answers' = {}
    /\ stored' = {}

CloseSocket == sock' = "none" /\ NoSession

(* Fault: what has not been acknowledged is forgotten with the connection. *)
ResetForgets ==
    /\ state' = "new"
    /\ out' = <<>>
    /\ CloseSocket
    /\ waiting' = [m \in Messages |-> "none"]
    /\ UNCHANGED delivered

(* First half of _mosquitto_reconnect: forget what was to be sent, close   *)
(* the old connection.  No callback is called.  Messages that wait for an  *)
(* acknowledgement stay in out_messages, as they are.                      *)
Reset ==
    /\ state' = "new"
    /\ out' = <<>>
    /\ CloseSocket
    /\ UNCHANGED <<waiting, delivered>>

(* Second half: a new TCP connection with CONNECT queued, or a failure. A   *)
(* socket another thread has opened in between is overwritten.             *)
OpenSucceeds ==
    /\ sock' = "open"
    /\ NoSession
    /\ out' = Append(out, Connect)
    /\ UNCHANGED <<state, faults, waiting, delivered>>

OpenFails ==
    /\ Fault("unreachable")
    /\ UNCHANGED <<state, sock, session, granted, connack, out, resubscribed>>
    /\ UNCHANGED messageVars

(* subscribe and unsubscribe fail without a socket, otherwise they queue.  *)
CanSend == sock # "none"

Send(packets) == out' = out \o packets

(* Fault: disconnect does not mark the client as disconnecting. *)
DisconnectUnmarked == state' = state

(* mosquitto_disconnect: mark the client, then send DISCONNECT if possible. *)
RequestDisconnect == state' = "disconnecting"

SendDisconnect == out' = IF CanSend THEN Append(out, Disconnect) ELSE out

(* Fault: QoS 2 is handled as QoS 1. *)
AlwaysPuback(m) == "puback"

FirstAnswer(m) == IF Qos[m] = 1 THEN "puback" ELSE "pubrec"

(* Fault: a message that could be queued counts as sent and is not kept.   *)
PublishUnkept(m) ==
    /\ waiting' = IF Qos[m] = 0 \/ CanSend
                  THEN waiting ELSE [waiting EXCEPT ![m] = FirstAnswer(m)]
    /\ out' = IF CanSend THEN Append(out, Publish(m)) ELSE out

(* mosquitto_publish: a message of QoS 1 or 2 is kept in out_messages, also *)
(* if the packet cannot be queued for want of a socket.                    *)
RequestPublish(m) ==
    /\ waiting' = IF Qos[m] = 0 THEN waiting
                                 ELSE [waiting EXCEPT ![m] = FirstAnswer(m)]
    /\ out' = IF CanSend THEN Append(out, Publish(m)) ELSE out

-----------------------------------------------------------------------------
(* The broker's handling of a packet that reaches it                       *)

Drop == sock' = "dead" /\ UNCHANGED <<session, granted, connack>>

(* The broker passes m on to the subscribers of its topic. *)
Deliver(m) == delivered' = [delivered EXCEPT ![m] = IF @ = 2 THEN 2 ELSE @ + 1]

AcceptConnect ==
    /\ session' = TRUE
    /\ granted' = {}
    /\ connack' = "accepted"
    /\ UNCHANGED <<sock, faults>>

RefuseConnect ==
    /\ Fault("refused")
    /\ connack' = "refused"
    /\ UNCHANGED <<sock, session, granted>>

(* A second CONNECT is an error. *)
OnConnectPacket ==
    \/ /\ session \/ connack # "none"
       /\ Drop
       /\ UNCHANGED faults
    \/ /\ ~session /\ connack = "none"
       /\ AcceptConnect \/ RefuseConnect

OnSubscriptionPacket(topics) ==
    /\ IF session
       THEN granted' = topics /\ UNCHANGED <<sock, session, connack>>
       ELSE Drop
    /\ UNCHANGED faults

(* QoS 0 and 1 are passed on at once; QoS 2 is kept until it is released.  *)
OnPublishPacket(m) ==
    \/ /\ Qos[m] < 2
       /\ Deliver(m)
       /\ answers' = IF Qos[m] = 1 THEN answers \cup {Puback(m)} ELSE answers
       /\ UNCHANGED stored
    \/ /\ Qos[m] = 2
       /\ stored' = stored \cup {m}
       /\ answers' = answers \cup {Pubrec(m)}
       /\ UNCHANGED delivered

(* A PUBREL for a message the session does not have is answered as well.   *)
OnPubrelPacket(m) ==
    /\ IF m \in stored THEN Deliver(m) ELSE UNCHANGED delivered
    /\ stored' = stored \ {m}
    /\ answers' = answers \cup {Pubcomp(m)}

(* Neither is accepted without a session. *)
OnMessagePacket(p) ==
    /\ \/ /\ session
          /\ \/ p.type = "PUBLISH" /\ OnPublishPacket(p.message)
             \/ p.type = "PUBREL" /\ OnPubrelPacket(p.message)
          /\ UNCHANGED <<sock, session, granted, connack>>
       \/ /\ ~session
          /\ p.type \in {"PUBLISH", "PUBREL"}
          /\ Drop
          /\ UNCHANGED <<answers, stored, delivered>>
    /\ UNCHANGED faults

OnPacket(p) ==
    \/ /\ \/ p.type = "CONNECT" /\ OnConnectPacket
          \/ /\ p.type = "SUBSCRIBE"
             /\ OnSubscriptionPacket(granted \cup {p.topic})
          \/ /\ p.type = "UNSUBSCRIBE"
             /\ OnSubscriptionPacket(granted \ {p.topic})
       /\ UNCHANGED <<answers, stored, delivered>>
    \/ OnMessagePacket(p)

-----------------------------------------------------------------------------
(* Steps of the loop thread that call no callback                          *)

(* mosquitto_loop finds no socket. *)
LoopNoConn ==
    /\ loop = "run" /\ sock = "none"
    /\ loop' = "broken"
    /\ UNCHANGED <<state, host, sock, out, session, granted, connack, faults, resubscribed,
                   erased, messageVars>>

(* _mosquitto_handle_connack, after on_connect: state is tested and then    *)
(* assigned, both without state_mutex.                                     *)
LoopTest ==
    /\ loop = "test"
    /\ loop' = IF state = "disconnecting" THEN "run" ELSE "store"
    /\ UNCHANGED <<state, host, sock, out, session, granted, connack, faults, resubscribed,
                   erased, messageVars>>

LoopStore ==
    /\ loop = "store"
    /\ loop' = "run"
    /\ state' = "connected"
    /\ erased' = (erased \/ state = "disconnecting")
    /\ UNCHANGED <<host, sock, out, session, granted, connack, faults, resubscribed,
                   messageVars>>

(* _mosquitto_packet_write: the first packet reaches the broker. *)
LoopWrite ==
    /\ loop = "run" /\ sock = "open" /\ out # <<>>
    /\ out' = Tail(out)
    /\ OnPacket(Head(out))
    /\ UNCHANGED <<state, host, loop, resubscribed, erased, waiting>>

(* DISCONNECT is the last packet of a connection: the client closes it.    *)
LoopWriteDisconnect ==
    /\ loop = "run" /\ sock = "open" /\ out # <<>>
    /\ Head(out).type = "DISCONNECT"
    /\ out' = Tail(out)
    /\ CloseSocket
    /\ loop' = "left"
    /\ UNCHANGED <<state, host, faults, erased, waiting, delivered>>

(* A read, a write or the keepalive check fails: _mosquitto_loop_rc_handle. *)
LoopClose ==
    /\ CloseSocket
    /\ loop' = IF state = "disconnecting" THEN "left" ELSE "lost"

LoopNoticesLoss ==
    /\ loop = "run" /\ sock = "dead"
    /\ LoopClose
    /\ UNCHANGED <<state, host, out, faults, erased, waiting, delivered>>

(* PUBACK and PUBCOMP take the message out of out_messages.  PUBREC has it *)
(* wait for PUBCOMP, if it is still there; a PUBREL is sent anyway.        *)
LoopAnswer(m) ==
    /\ loop = "run" /\ sock # "none" /\ connack = "none"
    /\ \E a \in answers :
          /\ a.message = m
          /\ answers' = answers \ {a}
          /\ \/ /\ a.type \in {"PUBACK", "PUBCOMP"}
                /\ waiting' = [waiting EXCEPT ![m] = "none"]
                /\ UNCHANGED out
             \/ /\ a.type = "PUBREC"
                /\ waiting' = [waiting EXCEPT ![m] = IF @ = "none" THEN @ ELSE "pubcomp"]
                /\ out' = Append(out, Pubrel(m))
    /\ UNCHANGED <<state, host, sock, loop, session, granted, connack, faults>>
    /\ UNCHANGED <<resubscribed, erased, stored, delivered>>

(* Fault: what has not been answered is sent from the beginning. *)
ResentFromStart(m) == Publish(m)

Resent(m) == IF waiting[m] = "pubcomp" THEN Pubrel(m) ELSE Publish(m)

(* _mosquitto_message_retry_check: a message that has waited for its        *)
(* answer for long, or that has been reset since it was sent, is sent       *)
(* again.  Bound: not while it is among the packets to be sent.            *)
LoopRetry(m) ==
    /\ loop = "run" /\ sock # "none"
    /\ waiting[m] # "none"
    /\ \A i \in 1..Len(out) : out[i] # Resent(m)
    /\ out' = Append(out, Resent(m))
    /\ UNCHANGED <<state, host, sock, loop, session, granted, connack, faults>>
    /\ UNCHANGED <<resubscribed, erased, messageVars>>

(* Fault: the loop thread gives up at the first error. *)
LoopGivesUp ==
    /\ loop = "broken"
    /\ loop' = "exited"
    /\ UNCHANGED <<state, host, sock, out, session, granted, connack, faults, resubscribed,
                   erased, messageVars>>

(* mosquitto_loop_forever after an error: leave, or wait for the delay. *)
LoopCheck ==
    /\ loop = "broken"
    /\ loop' = IF state = "disconnecting" THEN "exited" ELSE "sleep"
    /\ UNCHANGED <<state, host, sock, out, session, granted, connack, faults, resubscribed,
                   erased, messageVars>>

LoopWake ==
    /\ loop = "sleep"
    /\ loop' = IF state = "disconnecting" THEN "exited" ELSE "reconnect"
    /\ UNCHANGED <<state, host, sock, out, session, granted, connack, faults, resubscribed,
                   erased, messageVars>>

(* mosquitto_reconnect is an error before connect has ever been called.    *)
LoopReset ==
    /\ loop = "reconnect"
    /\ IF host
       THEN Reset /\ loop' = "open"
       ELSE /\ loop' = "broken"
            /\ UNCHANGED <<state, sock, out, session, granted, connack, resubscribed>>
            /\ UNCHANGED messageVars
    /\ UNCHANGED <<host, faults, erased>>

LoopOpen ==
    /\ loop = "open"
    /\ \/ OpenSucceeds /\ loop' = "run"
       \/ OpenFails /\ loop' = "broken"
    /\ UNCHANGED <<host, erased>>

LoopStep ==
    \/ LoopNoConn
    \/ LoopTest
    \/ LoopStore
    \/ LoopWrite
    \/ LoopWriteDisconnect
    \/ LoopNoticesLoss
    \/ LoopCheck
    \/ LoopWake
    \/ LoopReset
    \/ LoopOpen
    \/ \E m \in Messages : LoopAnswer(m) \/ LoopRetry(m)

(* The network or the broker breaks an open connection. *)
ConnectionLoss ==
    /\ sock = "open"
    /\ Fault("loss")
    /\ sock' = "dead"
    /\ UNCHANGED <<state, host, out, loop, session, granted, connack, resubscribed,
                   erased, messageVars>>
=============================================================================
