------------------------------ MODULE Mailbox ------------------------------
(***************************************************************************)
(* What MQTT_communicator::get_message promises to the threads that call   *)
(* it: one FIFO of delivered messages, from which each asking reader takes *)
(* the oldest one, and a timed reader gives up only when there is none.    *)
(* How a reader sleeps and is woken is left to the implementation          *)
(* (module MessageQueue).                                                  *)
(***************************************************************************)
EXTENDS Naturals, Sequences

CONSTANT Readers

VARIABLES
    inbox,   \* messages not yet taken, oldest first
    last,    \* the number of the last message that arrived
    asking,  \* readers inside a call that has not yet obtained a message
    taken    \* taken[r]: what the calls of r obtained, in order

vars == <<inbox, last, asking, taken>>

Init ==
    /\ inbox = <<>>
    /\ last = 0
    /\ asking = {}
    /\ taken = [r \in Readers |-> <<>>]

(* The next message arrives. *)
Deliver ==
    /\ last' = last + 1
    /\ inbox' = Append(inbox, last')
    /\ UNCHANGED <<asking, taken>>

(* The next message is lost for lack of memory. *)
Lose ==
    /\ last' = last + 1
    /\ UNCHANGED <<inbox, asking, taken>>

Ask(r) ==
    /\ r \notin asking
    /\ asking' = asking \cup {r}
    /\ UNCHANGED <<inbox, last, taken>>

Take(r) ==
    /\ r \in asking
    /\ inbox # <<>>
    /\ taken' = [taken EXCEPT ![r] = Append(@, Head(inbox))]
    /\ inbox' = Tail(inbox)
    /\ asking' = asking \ {r}
    /\ UNCHANGED last

(* The timeout of a timed call: only while there is nothing to take. *)
GiveUp(r) ==
    /\ r \in asking
    /\ inbox = <<>>
    /\ asking' = asking \ {r}
    /\ UNCHANGED <<inbox, last, taken>>

Next ==
    \/ Deliver
    \/ Lose
    \/ \E r \in Readers : Ask(r) \/ Take(r) \/ GiveUp(r)

Spec == Init /\ [][Next]_vars

(* The liveness half of the promise: a reader that keeps asking while the  *)
(* inbox is not empty is served.                                           *)
Fairness == \A r \in Readers : WF_vars(Take(r))

FairSpec == Spec /\ Fairness
=============================================================================
