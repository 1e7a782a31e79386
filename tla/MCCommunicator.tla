--------------------------- MODULE MCCommunicator ---------------------------
(* Communicator with the constants TLC needs: see the .cfg files. *)
EXTENDS Communicator

CONSTANTS t1, t2, main, worker, q0, q1, q2

OneTopic == {t1}
TwoTopics == {t1, t2}
OneThread == {main}
TwoThreads == {main, worker}

(* Nothing is sent, or one message of each quality of service. *)
NoMessages == {}
OneOfEach == {q0, q1, q2}
QosOfEach == [m \in Messages |-> CASE m = q0 -> 0 [] m = q1 -> 1 [] m = q2 -> 2]

(* One thread does everything, and gives a connection up or not. *)
Alone == [{main} -> {OperationKinds \ {"destroy"}}]
ConnectAndDestroy == [{main} -> {{"connect", "destroy"}}]
ConnectAndAdd == [{main} -> {{"connect", "add"}}]

(* One thread keeps the connection, the other the subscriptions - or, in   *)
(* an application of its own, sends: so the states of the two kinds of     *)
(* calls add up instead of multiplying.                                    *)
SharedOut(mainOperations, others) ==
    {[a \in {main, worker} |-> IF a = main THEN mainOperations ELSE o] : o \in others}

Divided == SharedOut({"connect", "disconnect", "destroy"}, {{"add", "remove"}})
DividedForGood == SharedOut({"connect"}, {{"add", "remove"}, {"send"}})
=============================================================================
