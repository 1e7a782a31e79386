-------------------------- MODULE MCMessageQueue --------------------------
(* MessageQueue for TLC, with one thread or several: see the .cfg file.    *)
EXTENDS MessageQueue

VARIABLE crew   \* the threads that call get_message on this subscription

Alone == Cardinality(crew) = 1

CrewInit == Init /\ crew \in {Consumers, {CHOOSE c \in Consumers : TRUE}}

CrewNext ==
    /\ Next
    /\ \A c \in Consumers \ crew : pc'[c] = "idle"
    /\ UNCHANGED crew

(* In addition every thread of the crew calls get_message again and again. *)
CrewSpec ==
    /\ CrewInit /\ [][CrewNext]_<<vars, crew>>
    /\ Fairness
    /\ \A c \in Consumers : WF_vars(c \in crew /\ \E d \in Durations : Call(c, d))

(* For a thread that has the subscription to itself get_message keeps the  *)
(* mailbox's whole promise: it does not sleep on while a message is queued *)
(* for it.                                                                 *)
LonePromiseIsFair == Alone => Promise!Fairness
=============================================================================
