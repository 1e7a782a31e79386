---------------------------- MODULE MessageQueue ----------------------------
(***************************************************************************)
(* MQTT_subscription_get: the queue of message copies of one subscription, *)
(* filled by the mosquitto loop thread (add_message) and emptied by the    *)
(* application threads that call get_message, with or without a timeout.   *)
(*                                                                         *)
(* Everything between the lock and the unlock (or the wait) of             *)
(* msg_queue_mutex is one step.  What happens outside the mutex is a step  *)
(* of its own: the allocation of the copy before add_message takes the     *)
(* lock, the wake-up of a sleeping thread, and the construction of the     *)
(* result and the release of the copy after get_message has unlocked.      *)
(*                                                                         *)
(* A message is its arrival number.  mosquitto_message_copy is assumed to  *)
(* succeed (the code ignores its result).                                  *)
(***************************************************************************)
EXTENDS Naturals, Sequences, FiniteSets

CONSTANTS
    Consumers,      \* threads that call get_message on this subscription
    MaxMessages,    \* bound: messages that arrive in a behaviour
    MallocMayFail,  \* whether the malloc in add_message may return null
    Durations       \* the kinds of duration get_message is called with

ASSUME ConsumersAssumption == Consumers # {}
ASSUME BoundAssumption == MaxMessages \in Nat
ASSUME MallocAssumption == MallocMayFail \in BOOLEAN
ASSUME DurationsAssumption == Durations \subseteq {"max", "finite"}

VARIABLES
    messages,  \* the std::queue, as a sequence of arrival numbers
    heap,      \* arrival numbers whose malloc'ed copy has not been freed
    arrived,   \* number of add_message calls so far
    buf,       \* the loop thread's allocated copy, not yet pushed
    pc,        \* pc[c]: where consumer c is in get_message
    duration,  \* duration[c]: the argument of the current call of c
    msg,       \* msg[c]: the copy c has popped and not yet freed
    taken      \* taken[c]: history of what c popped

vars == <<messages, heap, arrived, buf, pc, duration, msg, taken>>

Numbers == 1..MaxMessages
None == 0

(* "lock": about to take the mutex and test the predicate, on entry or     *)
(* after a wake-up.  "asleep": in the wait set of msg_queue_empty_cv.      *)
(* "expired": wait_for timed out, the predicate is still to be tested.     *)
(* "unlocked": has popped a copy and released the mutex.                   *)
Places == {"idle", "lock", "asleep", "expired", "unlocked"}

Asleep == {c \in Consumers : pc[c] = "asleep"}

TypeOK ==
    /\ messages \in Seq(Numbers)
    /\ heap \subseteq Numbers
    /\ arrived \in 0..MaxMessages
    /\ buf \in Numbers \cup {None}
    /\ pc \in [Consumers -> Places]
    /\ duration \in [Consumers -> {"max", "finite"}]
    /\ msg \in [Consumers -> Numbers \cup {None}]
    /\ taken \in [Consumers -> Seq(Numbers)]

Init ==
    /\ messages = <<>>
    /\ heap = {}
    /\ arrived = 0
    /\ buf = None
    /\ pc = [c \in Consumers |-> "idle"]
    /\ duration = [c \in Consumers |-> "max"]
    /\ msg = [c \in Consumers |-> None]
    /\ taken = [c \in Consumers |-> <<>>]

-----------------------------------------------------------------------------
(* add_message, run by the loop thread                                     *)

(* Fault: the null pointer is not tested and gets pushed. *)
NullIsPushed == messages' = Append(messages, None) /\ UNCHANGED <<buf, heap>>

(* malloc returned null: add_message throws and the message is lost. *)
MallocFails == UNCHANGED <<messages, buf, heap>>

(* malloc, before the lock. *)
Allocate ==
    /\ buf = None
    /\ arrived < MaxMessages
    /\ arrived' = arrived + 1
    /\ \/ /\ buf' = arrived + 1
          /\ heap' = heap \cup {arrived + 1}
          /\ UNCHANGED messages
       \/ MallocMayFail /\ MallocFails
    /\ UNCHANGED <<pc, duration, msg, taken>>

Wake(c) == pc' = [pc EXCEPT ![c] = "lock"]

(* Fault: the size is tested before the push. *)
NotifyTestsOldSize(size) ==
    IF size = 2 /\ Asleep # {}
    THEN \E c \in Asleep : Wake(c)
    ELSE UNCHANGED pc

(* notify_one, only when the queue has just become non-empty. *)
Notify(size) ==
    IF size = 1 /\ Asleep # {}
    THEN \E c \in Asleep : Wake(c)
    ELSE UNCHANGED pc

(* Fault: the newest copy is the first one out. *)
EnqueueInFront(q, m) == <<m>> \o q

Enqueue(q, m) == Append(q, m)

(* lock, push, notify, unlock. *)
Push ==
    /\ buf # None
    /\ messages' = Enqueue(messages, buf)
    /\ Notify(Len(messages'))
    /\ buf' = None
    /\ UNCHANGED <<heap, arrived, duration, msg, taken>>

-----------------------------------------------------------------------------
(* get_message, run by an application thread                               *)

Call(c, d) ==
    /\ pc[c] = "idle"
    /\ pc' = [pc EXCEPT ![c] = "lock"]
    /\ duration' = [duration EXCEPT ![c] = d]
    /\ UNCHANGED <<messages, heap, arrived, buf, msg, taken>>

(* Fault: front without pop. *)
NoPop(q) == q

Pop(q) == Tail(q)

(* The predicate holds: front, pop, unlock. *)
Take(c) ==
    /\ pc[c] \in {"lock", "expired"}
    /\ messages # <<>>
    /\ msg' = [msg EXCEPT ![c] = Head(messages)]
    /\ taken' = [taken EXCEPT ![c] = Append(@, Head(messages))]
    /\ messages' = Pop(messages)
    /\ pc' = [pc EXCEPT ![c] = "unlocked"]
    /\ UNCHANGED <<heap, arrived, buf, duration>>

(* The predicate fails: wait releases the mutex and sleeps in one step. *)
Sleep(c) ==
    /\ pc[c] = "lock"
    /\ messages = <<>>
    /\ pc' = [pc EXCEPT ![c] = "asleep"]
    /\ UNCHANGED <<messages, heap, arrived, buf, duration, msg, taken>>

(* A condition variable may wake a thread nobody notified. *)
SpuriousWakeup(c) ==
    /\ pc[c] = "asleep"
    /\ Wake(c)
    /\ UNCHANGED <<messages, heap, arrived, buf, duration, msg, taken>>

(* wait_for ran out of time; the mutex is not yet taken again. *)
Expire(c) ==
    /\ pc[c] = "asleep"
    /\ duration[c] = "finite"
    /\ pc' = [pc EXCEPT ![c] = "expired"]
    /\ UNCHANGED <<messages, heap, arrived, buf, duration, msg, taken>>

(* Fault: a timeout throws without looking at the queue again. *)
PredicateIgnored == TRUE

PredicateFails == messages = <<>>

(* wait_for tests the predicate a last time and returns false. *)
ThrowTimeout(c) ==
    /\ pc[c] = "expired"
    /\ PredicateFails
    /\ pc' = [pc EXCEPT ![c] = "idle"]
    /\ UNCHANGED <<messages, heap, arrived, buf, duration, msg, taken>>

(* The result is built, the copy freed and the call returns. *)
Return(c) ==
    /\ pc[c] = "unlocked"
    /\ heap' = heap \ {msg[c]}
    /\ msg' = [msg EXCEPT ![c] = None]
    /\ pc' = [pc EXCEPT ![c] = "idle"]
    /\ UNCHANGED <<messages, arrived, buf, duration, taken>>

-----------------------------------------------------------------------------
Consumer(c) ==
    Take(c) \/ Sleep(c) \/ ThrowTimeout(c) \/ Return(c)

Next ==
    \/ Allocate
    \/ Push
    \/ \E c \in Consumers :
          \/ \E d \in Durations : Call(c, d)
          \/ Consumer(c)
          \/ SpuriousWakeup(c)
          \/ Expire(c)

Spec == Init /\ [][Next]_vars

(* Runnable threads run: the loop thread pushes what it allocated, and a   *)
(* consumer that is not asleep takes the mutex and goes on.  Nothing       *)
(* obliges a message to arrive, an application thread to call get_message  *)
(* again, or the condition variable to wake anyone spuriously.             *)
Fairness == WF_vars(Push) /\ \A c \in Consumers : WF_vars(Consumer(c))

FairSpec == Spec /\ Fairness

-----------------------------------------------------------------------------
(* Safety                                                                  *)

InQueue == {messages[i] : i \in 1..Len(messages)}

Held == {msg[c] : c \in Consumers} \ {None}

(* Every live copy has exactly one owner - the loop thread, the queue or   *)
(* one consumer - and every owner's copy is live: get_message, which uses  *)
(* its copy after unlocking, never uses or frees one that another thread   *)
(* can still reach, and no copy is leaked while the subscription lives.    *)
Ownership ==
    /\ heap = ({buf} \ {None}) \cup InQueue \cup Held
    /\ buf \notin InQueue \cup Held
    /\ InQueue \cap Held = {}
    /\ \A i, j \in 1..Len(messages) : messages[i] = messages[j] => i = j
    /\ \A c, d \in Consumers : msg[c] = msg[d] /\ msg[c] # None => c = d

(* Messages leave in the order of arrival: what is queued is sorted by     *)
(* arrival, and everything any consumer ever took is older than everything *)
(* still queued; no consumer takes out of order.                           *)
ArrivalOrder ==
    /\ \A i, j \in 1..Len(messages) : i < j => messages[i] < messages[j]
    /\ \A c \in Consumers :
          /\ \A i, j \in 1..Len(taken[c]) : i < j => taken[c][i] < taken[c][j]
          /\ \A i \in 1..Len(taken[c]), j \in 1..Len(messages) :
                taken[c][i] < messages[j]

(* The queue is never non-empty with every consumer asleep: although       *)
(* add_message notifies only when the queue has just become non-empty, and *)
(* the notified thread may lose its message to a thread that had not       *)
(* slept, some thread is always left that has not gone to sleep.           *)
NeverAllAsleep == messages # <<>> => \E c \in Consumers : pc[c] # "asleep"

-----------------------------------------------------------------------------
(* Liveness                                                                *)

(* "This is a blocking method, which waits until a message is received":   *)
(* a caller does not stay asleep while a message stays in the queue.       *)
(* Holds for one consumer per subscription and fails for two.              *)
WaiterIsServed ==
    \A c \in Consumers :
        (pc[c] = "asleep" /\ messages # <<>>)
            ~> (pc[c] # "asleep" \/ messages = <<>>)

(* Consumers that call in a loop empty the queue again and again, however  *)
(* many of them share the subscription.                                    *)
QueueDrains == []<>(messages = <<>>)

-----------------------------------------------------------------------------
(* The promise of get_message, with the wake-up machinery hidden.          *)

Promise == INSTANCE Mailbox WITH
    Readers <- Consumers,
    inbox   <- messages,
    last    <- IF buf = None THEN arrived ELSE buf - 1,
    asking  <- {c \in Consumers : pc[c] \in {"lock", "asleep", "expired"}},
    taken   <- taken

(* get_message seen by its callers is a FIFO mailbox: a message is given   *)
(* to one caller, in order, and a call gives up only on an empty mailbox.  *)
KeepsPromise == Promise!Spec
=============================================================================
