------------------------- MODULE MessageQueueProofs -------------------------
(***************************************************************************)
(* Proofs about MessageQueue, for every set of consumers, every bound on   *)
(* the messages and with or without allocation failures:                   *)
(*   - the type invariant;                                                 *)
(*   - Ownership and ArrivalOrder, from one inductive invariant IInv;      *)
(*   - NeverAllAsleep, and that with one consumer no wake-up is lost;      *)
(*   - that the queue implements Mailbox.                                  *)
(***************************************************************************)
EXTENDS MessageQueue, TLAPS

-----------------------------------------------------------------------------
(* Sequences                                                               *)

(* What push does to the indices of the queue. *)
LEMMA AppendFacts ==
  ASSUME NEW S, NEW q \in Seq(S), NEW e \in S
  PROVE  /\ Append(q, e) \in Seq(S)
         /\ Len(Append(q, e)) = Len(q) + 1
         /\ Append(q, e) # <<>>
         /\ \A i \in 1..Len(q) : Append(q, e)[i] = q[i]
         /\ Append(q, e)[Len(q) + 1] = e
  OBVIOUS

(* What front and pop do to the indices of a queue that is not empty. *)
LEMMA PopFacts ==
  ASSUME NEW S, NEW q \in Seq(S), q # <<>>
  PROVE  /\ Len(q) \in Nat \ {0}
         /\ Head(q) = q[1]
         /\ Head(q) \in S
         /\ Tail(q) \in Seq(S)
         /\ Len(Tail(q)) = Len(q) - 1
         /\ \A i \in 1..Len(q) - 1 : Tail(q)[i] = q[i + 1]
  OBVIOUS

-----------------------------------------------------------------------------
(* Types                                                                   *)

LEMMA InitTypeOK == Init => TypeOK
  BY BoundAssumption DEF Init, TypeOK, Numbers, None, Places

LEMMA NextTypeOK == TypeOK /\ [Next]_vars => TypeOK'
<1> SUFFICES ASSUME TypeOK, [Next]_vars PROVE TypeOK'
  OBVIOUS
<1> USE BoundAssumption DEF TypeOK, Numbers, None, Places
<1>1. CASE Allocate
  <2>1. /\ arrived' \in Numbers
        /\ buf' = arrived' \/ buf' = buf
        /\ heap' = heap \cup {arrived'} \/ heap' = heap
        /\ UNCHANGED <<messages, pc, duration, msg, taken>>
    BY <1>1 DEF Allocate, MallocFails
  <2>2. buf' \in Numbers \cup {None} /\ heap' \subseteq Numbers
    BY <2>1
  <2>3. arrived' \in 0..MaxMessages
    BY <2>1
  <2> QED
    BY <2>1, <2>2, <2>3
<1>2. CASE Push
  <2>1. messages' \in Seq(Numbers)
    BY <1>2, AppendFacts DEF Push, Enqueue
  <2>2. pc' \in [Consumers -> Places]
    BY <1>2 DEF Push, Notify, Asleep, Wake
  <2> QED
    BY <1>2, <2>1, <2>2 DEF Push
<1>3. ASSUME NEW c \in Consumers, NEW d \in Durations, Call(c, d) PROVE TypeOK'
  BY <1>3, DurationsAssumption DEF Call
<1>4. ASSUME NEW c \in Consumers, Take(c) PROVE TypeOK'
  <2>1. /\ Head(messages) \in Numbers
        /\ messages' \in Seq(Numbers)
    BY <1>4, PopFacts DEF Take, Pop
  <2>2. Append(taken[c], Head(messages)) \in Seq(Numbers)
    BY <2>1, AppendFacts
  <2> QED
    BY <1>4, <2>1, <2>2 DEF Take
<1>5. ASSUME NEW c \in Consumers, Sleep(c) PROVE TypeOK'
  BY <1>5 DEF Sleep
<1>6. ASSUME NEW c \in Consumers, ThrowTimeout(c) PROVE TypeOK'
  BY <1>6 DEF ThrowTimeout
<1>7. ASSUME NEW c \in Consumers, Return(c) PROVE TypeOK'
  BY <1>7 DEF Return
<1>8. ASSUME NEW c \in Consumers, SpuriousWakeup(c) PROVE TypeOK'
  BY <1>8 DEF SpuriousWakeup, Wake
<1>9. ASSUME NEW c \in Consumers, Expire(c) PROVE TypeOK'
  BY <1>9 DEF Expire
<1>10. CASE UNCHANGED vars
  BY <1>10 DEF vars
<1> QED
  BY <1>1, <1>2, <1>3, <1>4, <1>5, <1>6, <1>7, <1>8, <1>9, <1>10
     DEF Next, Consumer

(* The queue, the consumers and the histories keep their types. *)
THEOREM TypeCorrect == Spec => []TypeOK
  BY InitTypeOK, NextTypeOK, PTL DEF Spec

-----------------------------------------------------------------------------
(* No wake-up leaves every consumer asleep                                 *)

LEMMA InitNeverAllAsleep == Init => NeverAllAsleep
  BY DEF Init, NeverAllAsleep

(* Only Sleep puts a consumer to sleep, and only when the queue is empty;  *)
(* only Push makes the queue non-empty, and if all sleep it wakes one.     *)
LEMMA NextNeverAllAsleep ==
  TypeOK /\ NeverAllAsleep /\ [Next]_vars => NeverAllAsleep'
<1> SUFFICES ASSUME TypeOK, NeverAllAsleep, [Next]_vars,
                    messages' # <<>>
             PROVE  \E c \in Consumers : pc'[c] # "asleep"
  BY DEF NeverAllAsleep
<1> USE DEF TypeOK, NeverAllAsleep
<1>1. CASE Allocate
  BY <1>1 DEF Allocate, MallocFails
<1>2. CASE Push
  <2>1. CASE messages = <<>>
    <3>1. Len(messages') = 1
      BY <1>2, <2>1, AppendFacts DEF Push, Enqueue, None
    <3>2. CASE Asleep = {}
      BY <1>2, <3>1, <3>2, ConsumersAssumption DEF Push, Notify, Asleep
    <3>3. CASE Asleep # {}
      <4>1. PICK c \in Asleep : Wake(c)
        BY <1>2, <3>1, <3>3 DEF Push, Notify
      <4>2. c \in Consumers /\ pc'[c] = "lock"
        BY <4>1 DEF Asleep, Wake
      <4> QED
        BY <4>2
    <3> QED
      BY <3>2, <3>3
  <2>2. CASE messages # <<>>
    <3>1. PICK c \in Consumers : pc[c] # "asleep"
      BY <2>2
    <3>2. pc'[c] # "asleep"
      BY <1>2, <3>1 DEF Push, Notify, Asleep, Wake
    <3> QED
      BY <3>2
  <2> QED
    BY <2>1, <2>2
<1>3. ASSUME NEW c \in Consumers, NEW d \in Durations, Call(c, d)
      PROVE  pc'[c] # "asleep"
  BY <1>3 DEF Call
<1>4. ASSUME NEW c \in Consumers, Take(c) PROVE pc'[c] # "asleep"
  BY <1>4 DEF Take
<1>5. ASSUME NEW c \in Consumers, Sleep(c) PROVE FALSE
  BY <1>5 DEF Sleep
<1>6. ASSUME NEW c \in Consumers, ThrowTimeout(c) PROVE pc'[c] # "asleep"
  BY <1>6 DEF ThrowTimeout
<1>7. ASSUME NEW c \in Consumers, Return(c) PROVE pc'[c] # "asleep"
  BY <1>7 DEF Return
<1>8. ASSUME NEW c \in Consumers, SpuriousWakeup(c) PROVE pc'[c] # "asleep"
  BY <1>8 DEF SpuriousWakeup, Wake
<1>9. ASSUME NEW c \in Consumers, Expire(c) PROVE pc'[c] # "asleep"
  BY <1>9 DEF Expire
<1>10. CASE UNCHANGED vars
  BY <1>10 DEF vars
<1> QED
  BY <1>1, <1>2, <1>3, <1>4, <1>5, <1>6, <1>7, <1>8, <1>9, <1>10
     DEF Next, Consumer

(* However many threads share a subscription, one of them is awake while a *)
(* message is queued, although add_message notifies only the transition    *)
(* from empty to one message.                                              *)
THEOREM SomeoneIsAwake == Spec => []NeverAllAsleep
<1>1. TypeOK /\ NeverAllAsleep /\ [Next]_vars => (TypeOK /\ NeverAllAsleep)'
  BY NextTypeOK, NextNeverAllAsleep
<1> QED
  BY InitTypeOK, InitNeverAllAsleep, <1>1, PTL DEF Spec

(* With one thread per subscription no wake-up is lost: it does not sleep  *)
(* while a message is queued.                                              *)
THEOREM SingleConsumerIsWoken ==
  ASSUME NEW c, Consumers = {c}
  PROVE  Spec => [](pc[c] = "asleep" => messages = <<>>)
<1>1. NeverAllAsleep => (pc[c] = "asleep" => messages = <<>>)
  BY DEF NeverAllAsleep
<1> QED
  BY SomeoneIsAwake, <1>1, PTL

-----------------------------------------------------------------------------
(* Arrival order and ownership                                             *)

(* What was queued or taken is older than the copy the loop thread is      *)
(* about to push, and than every message still to arrive.                  *)
Older ==
    /\ buf # None => buf = arrived
    /\ \A j \in 1..Len(messages) :
          messages[j] <= arrived /\ (buf # None => messages[j] < buf)
    /\ \A c \in Consumers : \A i \in 1..Len(taken[c]) :
          taken[c][i] <= arrived /\ (buf # None => taken[c][i] < buf)

(* A consumer holds a copy exactly between unlock and return, and the copy *)
(* it holds is one it took.                                                *)
Holding ==
    \A c \in Consumers :
        /\ pc[c] = "unlocked" <=> msg[c] # None
        /\ msg[c] # None => \E i \in 1..Len(taken[c]) : taken[c][i] = msg[c]

IInv == TypeOK /\ Older /\ ArrivalOrder /\ Holding /\ Ownership

LEMMA InitIInv == Init => IInv
  BY InitTypeOK
     DEF Init, IInv, Older, ArrivalOrder, Holding, Ownership, InQueue, Held, None

(* What a queue, a history and a hand hold are arrival numbers. *)
LEMMA Elements ==
  ASSUME TypeOK
  PROVE  /\ \A j \in 1..Len(messages) : messages[j] \in Numbers /\ messages[j] \in Nat
         /\ \A c \in Consumers : \A i \in 1..Len(taken[c]) :
               taken[c][i] \in Numbers /\ taken[c][i] \in Nat
         /\ None \notin InQueue \cup Held
<1>1. Numbers \subseteq Nat /\ None \notin Numbers
  BY BoundAssumption DEF Numbers, None
<1>2. ASSUME NEW S, NEW q \in Seq(S), NEW j \in 1..Len(q) PROVE q[j] \in S
  BY <1>2
<1>3. \A j \in 1..Len(messages) : messages[j] \in Numbers
  BY <1>2 DEF TypeOK
<1>4. \A c \in Consumers : \A i \in 1..Len(taken[c]) : taken[c][i] \in Numbers
  <2>1. \A c \in Consumers : taken[c] \in Seq(Numbers)
    BY DEF TypeOK
  <2> QED
    BY <1>2, <2>1
<1>5. None \notin InQueue \cup Held
  BY <1>1, <1>3 DEF InQueue, Held
<1> QED
  BY <1>1, <1>3, <1>4, <1>5

(* A step that touches only program counters outside "unlocked" keeps IInv. *)
LEMMA SchedulingStep ==
  ASSUME IInv, TypeOK',
         UNCHANGED <<messages, heap, arrived, buf, msg, taken>>,
         \A c \in Consumers : pc'[c] = "unlocked" <=> pc[c] = "unlocked"
  PROVE  IInv'
<1>1. Older' /\ ArrivalOrder'
  BY DEF IInv, Older, ArrivalOrder
<1>2. Holding'
  BY DEF IInv, Holding
<1>3. InQueue' = InQueue /\ Held' = Held
  BY DEF InQueue, Held
<1>4. Ownership'
  BY <1>3 DEF IInv, Ownership
<1> QED
  BY <1>1, <1>2, <1>4 DEF IInv

LEMMA AllocateIInv == IInv /\ Allocate /\ TypeOK' => IInv'
<1> SUFFICES ASSUME IInv, Allocate, TypeOK' PROVE IInv'
  OBVIOUS
<1> USE DEF None
<1>1. /\ buf = None /\ arrived \in Nat /\ arrived' = arrived + 1
      /\ UNCHANGED <<messages, pc, msg, taken>>
      /\ \/ buf' = arrived + 1 /\ heap' = heap \cup {arrived + 1}
         \/ buf' = buf /\ heap' = heap
  BY BoundAssumption DEF Allocate, MallocFails, IInv, TypeOK
<1>2. /\ \A j \in 1..Len(messages) : messages[j] \in Nat /\ messages[j] <= arrived
      /\ \A c \in Consumers : \A i \in 1..Len(taken[c]) :
            taken[c][i] \in Nat /\ taken[c][i] <= arrived
  BY Elements DEF IInv, Older
<1>3. Older'
  BY <1>1, <1>2 DEF Older
<1>4. ArrivalOrder' /\ Holding'
  BY <1>1 DEF IInv, ArrivalOrder, Holding
<1>5. InQueue' = InQueue /\ Held' = Held
  BY <1>1 DEF InQueue, Held
<1>6. arrived + 1 \notin InQueue \cup Held
  <2>1. arrived + 1 \notin InQueue
    BY <1>1, <1>2 DEF InQueue
  <2>2. ASSUME NEW c \in Consumers, msg[c] # None PROVE msg[c] <= arrived /\ msg[c] \in Nat
    BY <1>2, <2>2 DEF IInv, Holding
  <2> QED
    BY <1>1, <2>1, <2>2 DEF Held
<1>7. None \notin InQueue \cup Held
  BY Elements DEF IInv
<1>8. Ownership'
  BY <1>1, <1>5, <1>6, <1>7 DEF IInv, Ownership
<1> QED
  BY <1>3, <1>4, <1>8 DEF IInv

LEMMA PushIInv == IInv /\ Push /\ TypeOK' => IInv'
<1> SUFFICES ASSUME IInv, Push, TypeOK' PROVE IInv'
  OBVIOUS
<1> USE DEF None
<1> DEFINE n == Len(messages)
<1>1. /\ buf # None /\ buf' = None /\ buf = arrived /\ arrived \in Nat
      /\ buf \in Numbers /\ messages \in Seq(Numbers)
      /\ UNCHANGED <<heap, arrived, msg, taken>>
  BY BoundAssumption DEF Push, IInv, TypeOK, Older
<1>2. /\ n \in Nat /\ Len(messages') = n + 1
      /\ \A i \in 1..n : messages'[i] = messages[i]
      /\ messages'[n + 1] = buf
  BY <1>1, AppendFacts DEF Push, Enqueue
<1>3. \A j \in 1..n : messages[j] \in Nat /\ messages[j] < buf
  BY <1>1, Elements DEF IInv, Older
<1>4. \A c \in Consumers : \A i \in 1..Len(taken[c]) :
         taken[c][i] < buf /\ taken[c][i] <= arrived
  BY <1>1 DEF IInv, Older
<1>5. Older'
  <2>1. \A j \in 1..n + 1 : messages'[j] <= arrived
    BY <1>1, <1>2, <1>3
  <2> QED
    BY <1>1, <1>2, <1>4, <2>1 DEF Older
<1>6. ArrivalOrder'
  <2>1. \A i, j \in 1..n + 1 : i < j => messages'[i] < messages'[j]
    BY <1>2, <1>3 DEF IInv, ArrivalOrder
  <2>2. \A c \in Consumers : \A i \in 1..Len(taken[c]), j \in 1..n + 1 :
           taken[c][i] < messages'[j]
    BY <1>2, <1>4 DEF IInv, ArrivalOrder
  <2> QED
    BY <1>1, <1>2, <2>1, <2>2 DEF IInv, ArrivalOrder
<1>7. \A c \in Consumers : pc'[c] = "unlocked" <=> pc[c] = "unlocked"
  BY DEF Push, Notify, Asleep, Wake, IInv, TypeOK
<1>8. Holding'
  BY <1>1, <1>7 DEF IInv, Holding
<1>9. InQueue' = InQueue \cup {buf} /\ Held' = Held
  <2>1. InQueue' = {messages'[i] : i \in 1..n + 1}
    BY <1>2 DEF InQueue
  <2>2. {messages'[i] : i \in 1..n + 1} = {messages[i] : i \in 1..n} \cup {buf}
    BY <1>2
  <2> QED
    BY <1>1, <2>1, <2>2 DEF InQueue, Held
<1>10. None \notin InQueue' \cup Held'
  BY <1>1, <1>9, Elements DEF IInv
<1>11. \A i, j \in 1..n + 1 : messages'[i] = messages'[j] => i = j
  BY <1>2, <1>3, <1>1 DEF IInv, Ownership
<1>12. Ownership'
  <2>1. heap' = ({buf'} \ {None}) \cup InQueue' \cup Held'
    BY <1>1, <1>9 DEF IInv, Ownership
  <2>2. InQueue' \cap Held' = {}
    BY <1>9 DEF IInv, Ownership
  <2>3. \A c, d \in Consumers : msg'[c] = msg'[d] /\ msg'[c] # None => c = d
    BY <1>1 DEF IInv, Ownership
  <2> QED
    BY <1>1, <1>2, <1>10, <1>11, <2>1, <2>2, <2>3 DEF Ownership
<1> QED
  BY <1>5, <1>6, <1>8, <1>12 DEF IInv

LEMMA TakeIInv ==
  ASSUME IInv, TypeOK', NEW c \in Consumers, Take(c)
  PROVE  IInv'
<1> DEFINE n == Len(messages)
           k == Len(taken[c])
           m == messages[1]
<1>1. /\ messages \in Seq(Numbers) /\ messages # <<>>
      /\ taken \in [Consumers -> Seq(Numbers)] /\ msg \in [Consumers -> Numbers \cup {None}]
      /\ pc \in [Consumers -> Places]
      /\ pc[c] # "unlocked" /\ msg[c] = None
      /\ UNCHANGED <<heap, arrived, buf>>
  BY DEF Take, IInv, TypeOK, Holding
<1>2. /\ n \in Nat \ {0} /\ Head(messages) = m /\ m \in Numbers
      /\ Len(messages') = n - 1
      /\ \A i \in 1..n - 1 : messages'[i] = messages[i + 1]
  BY <1>1, PopFacts DEF Take, Pop
<1>3. /\ k \in Nat /\ Len(taken'[c]) = k + 1
      /\ \A i \in 1..k : taken'[c][i] = taken[c][i]
      /\ taken'[c][k + 1] = m
      /\ \A d \in Consumers \ {c} : taken'[d] = taken[d]
  <2>1. taken'[c] = Append(taken[c], m) /\ taken[c] \in Seq(Numbers)
    BY <1>1, <1>2 DEF Take
  <2>2. \A d \in Consumers \ {c} : taken'[d] = taken[d]
    BY <1>1 DEF Take
  <2> QED
    BY <1>2, <2>1, <2>2, AppendFacts
<1>4. /\ msg'[c] = m /\ \A d \in Consumers \ {c} : msg'[d] = msg[d]
      /\ pc'[c] = "unlocked" /\ \A d \in Consumers \ {c} : pc'[d] = pc[d]
  BY <1>1, <1>2 DEF Take
<1>5. /\ \A j \in 1..n : messages[j] \in Nat
      /\ \A d \in Consumers : \A i \in 1..Len(taken[d]) : taken[d][i] \in Nat
      /\ m \in Nat /\ None \notin InQueue \cup Held
  BY <1>2, Elements DEF IInv
<1>6. \A j \in 1..n - 1 : m < messages'[j]
  BY <1>2 DEF IInv, ArrivalOrder
<1>7. Older'
  <2>1. \A j \in 1..n - 1 : messages'[j] <= arrived /\ (buf # None => messages'[j] < buf)
    BY <1>2 DEF IInv, Older
  <2>2. \A d \in Consumers : \A i \in 1..Len(taken'[d]) :
           taken'[d][i] <= arrived /\ (buf # None => taken'[d][i] < buf)
    <3>1. \A i \in 1..k + 1 : taken'[c][i] <= arrived /\ (buf # None => taken'[c][i] < buf)
      <4>1. \A i \in 1..k : taken[c][i] <= arrived /\ (buf # None => taken[c][i] < buf)
        BY DEF IInv, Older
      <4>2. m <= arrived /\ (buf # None => m < buf)
        BY <1>2 DEF IInv, Older
      <4>3. \A i \in 1..k + 1 : i \in 1..k \/ i = k + 1
        BY <1>3
      <4> HIDE DEF k, m
      <4> QED
        BY <1>3, <4>1, <4>2, <4>3
    <3>2. \A d \in Consumers \ {c} : \A i \in 1..Len(taken'[d]) :
             taken'[d][i] <= arrived /\ (buf # None => taken'[d][i] < buf)
      BY <1>3 DEF IInv, Older
    <3> QED
      BY <1>3, <3>1, <3>2
  <2> QED
    BY <1>1, <1>2, <2>1, <2>2 DEF IInv, Older
<1>8. ArrivalOrder'
  <2>1. \A i, j \in 1..n - 1 : i < j => messages'[i] < messages'[j]
    BY <1>2 DEF IInv, ArrivalOrder
  <2>2. \A i, j \in 1..k + 1 : i < j => taken'[c][i] < taken'[c][j]
    <3>1. \A i, j \in 1..k : i < j => taken[c][i] < taken[c][j]
      BY DEF IInv, ArrivalOrder
    <3>2. \A i \in 1..k : taken[c][i] < m
      <4>1. 1 \in 1..Len(messages)
        BY <1>2
      <4> QED
        BY <4>1 DEF IInv, ArrivalOrder
    <3>3. \A i, j \in 1..k + 1 : i < j => i \in 1..k /\ (j \in 1..k \/ j = k + 1)
      BY <1>3
    <3> HIDE DEF k, m
    <3> QED
      BY <1>3, <3>1, <3>2, <3>3
  <2>3. \A d \in Consumers : \A i \in 1..Len(taken'[d]), j \in 1..n - 1 :
           taken'[d][i] < messages'[j]
    <3>1. \A i \in 1..k + 1, j \in 1..n - 1 : taken'[c][i] < messages'[j]
      <4>1. \A i \in 1..k, j \in 1..n - 1 : taken[c][i] < messages'[j]
        BY <1>2 DEF IInv, ArrivalOrder
      <4>2. \A i \in 1..k + 1 : i \in 1..k \/ i = k + 1
        BY <1>3
      <4> HIDE DEF k, m, n
      <4> QED
        BY <1>3, <1>6, <4>1, <4>2
    <3>2. \A d \in Consumers \ {c} : \A i \in 1..Len(taken'[d]), j \in 1..n - 1 :
             taken'[d][i] < messages'[j]
      <4>1. \A d \in Consumers : \A i \in 1..Len(taken[d]), j \in 1..n :
               taken[d][i] < messages[j]
        BY DEF IInv, ArrivalOrder
      <4>2. \A j \in 1..n - 1 : j + 1 \in 1..n
        BY <1>2
      <4> HIDE DEF k, m, n
      <4> QED
        BY <1>2, <1>3, <4>1, <4>2
    <3> QED
      BY <1>3, <3>1, <3>2
  <2> QED
    BY <1>2, <1>3, <2>1, <2>2, <2>3 DEF IInv, ArrivalOrder
<1>9. Holding'
  <2>1. m # None
    BY <1>2 DEF Numbers, None
  <2>2. \E i \in 1..Len(taken'[c]) : taken'[c][i] = msg'[c]
    BY <1>3, <1>4
  <2> QED
    BY <1>3, <1>4, <2>1, <2>2 DEF IInv, Holding
<1>10. InQueue = InQueue' \cup {m}
  <2>1. InQueue' = {messages[i + 1] : i \in 1..n - 1}
    BY <1>2 DEF InQueue
  <2>2. {messages[i] : i \in 1..n} = {messages[i + 1] : i \in 1..n - 1} \cup {m}
    <3>1. ASSUME NEW i \in 1..n, i # 1
          PROVE  messages[i] \in {messages[j + 1] : j \in 1..n - 1}
      <4>1. i - 1 \in 1..n - 1 /\ i = (i - 1) + 1
        BY <1>2, <3>1
      <4> QED
        BY <4>1
    <3>2. \A j \in 1..n - 1 : j + 1 \in 1..n
      BY <1>2
    <3>3. 1 \in 1..n
      BY <1>2
    <3>4. {messages[i] : i \in 1..n} \subseteq {messages[i + 1] : i \in 1..n - 1} \cup {m}
      BY <3>1
    <3>5. {messages[i + 1] : i \in 1..n - 1} \cup {m} \subseteq {messages[i] : i \in 1..n}
      BY <3>2, <3>3
    <3> QED
      BY <3>4, <3>5
  <2> QED
    BY <2>1, <2>2 DEF InQueue
<1>11. Held' = Held \cup {m}
  <2>1. m # None
    BY <1>2 DEF Numbers, None
  <2>2. Held' \subseteq Held \cup {m}
    BY <1>4 DEF Held
  <2>3. \A d \in Consumers : msg[d] # None => msg[d] \in Held'
    BY <1>1, <1>4 DEF Held
  <2>4. Held \cup {m} \subseteq Held'
    BY <1>4, <2>1, <2>3 DEF Held
  <2> QED
    BY <2>2, <2>4
<1>12. m \notin InQueue'
  <2>1. InQueue' = {messages'[i] : i \in 1..n - 1}
    BY <1>2 DEF InQueue
  <2>2. \A j \in 1..n - 1 : messages'[j] \in Nat
    BY <1>2, <1>5
  <2> QED
    BY <1>5, <1>6, <2>1, <2>2
<1>13. Ownership'
  <2>1. heap' = ({buf'} \ {None}) \cup InQueue' \cup Held'
    BY <1>1, <1>10, <1>11 DEF IInv, Ownership
  <2>2. buf' \notin InQueue' \cup Held'
    BY <1>1, <1>10, <1>11 DEF IInv, Ownership
  <2>3. InQueue' \cap Held' = {}
    BY <1>10, <1>11, <1>12 DEF IInv, Ownership
  <2>4. \A i, j \in 1..n - 1 : messages'[i] = messages'[j] => i = j
    BY <1>2 DEF IInv, Ownership
  <2>5. \A d \in Consumers \ {c} : msg[d] # m
    <3>1. m \in InQueue
      BY <1>10
    <3>2. \A d \in Consumers : msg[d] \in Held \cup {None}
      BY DEF Held
    <3> QED
      BY <1>5, <3>1, <3>2 DEF IInv, Ownership
  <2>6. \A d, e \in Consumers : msg'[d] = msg'[e] /\ msg'[d] # None => d = e
    BY <1>4, <2>5 DEF IInv, Ownership
  <2> QED
    BY <1>2, <2>1, <2>2, <2>3, <2>4, <2>6 DEF Ownership
<1> QED
  BY <1>7, <1>8, <1>9, <1>13 DEF IInv

LEMMA ReturnIInv ==
  ASSUME IInv, TypeOK', NEW c \in Consumers, Return(c)
  PROVE  IInv'
<1>1. /\ UNCHANGED <<messages, arrived, buf, taken>>
      /\ heap' = heap \ {msg[c]}
      /\ msg[c] # None /\ msg'[c] = None /\ \A d \in Consumers \ {c} : msg'[d] = msg[d]
      /\ pc'[c] = "idle" /\ \A d \in Consumers \ {c} : pc'[d] = pc[d]
  BY DEF Return, IInv, TypeOK, Holding
<1>2. Older' /\ ArrivalOrder'
  BY <1>1 DEF IInv, Older, ArrivalOrder
<1>3. Holding'
  BY <1>1 DEF IInv, Holding
<1>4. InQueue' = InQueue /\ Held' = Held \ {msg[c]} /\ msg[c] \in Held
  BY <1>1 DEF InQueue, Held, IInv, Ownership
<1>5. Ownership'
  <2>1. heap' = ({buf'} \ {None}) \cup InQueue' \cup Held'
    BY <1>1, <1>4 DEF IInv, Ownership
  <2>2. \A d, e \in Consumers : msg'[d] = msg'[e] /\ msg'[d] # None => d = e
    BY <1>1 DEF IInv, Ownership
  <2> QED
    BY <1>1, <1>4, <2>1, <2>2 DEF IInv, Ownership
<1> QED
  BY <1>2, <1>3, <1>5 DEF IInv

LEMMA NextIInv == IInv /\ [Next]_vars => IInv'
<1> SUFFICES ASSUME IInv, [Next]_vars PROVE IInv'
  OBVIOUS
<1>1. TypeOK /\ TypeOK'
  BY NextTypeOK DEF IInv
<1>2. CASE Allocate
  BY <1>1, <1>2, AllocateIInv
<1>3. CASE Push
  BY <1>1, <1>3, PushIInv
<1>4. ASSUME NEW c \in Consumers, Take(c) PROVE IInv'
  BY <1>1, <1>4, TakeIInv
<1>5. ASSUME NEW c \in Consumers, Return(c) PROVE IInv'
  BY <1>1, <1>5, ReturnIInv
<1>6. ASSUME NEW c \in Consumers, NEW d \in Durations, Call(c, d) PROVE IInv'
  BY <1>1, <1>6, SchedulingStep DEF Call, TypeOK
<1>7. ASSUME NEW c \in Consumers, Sleep(c) \/ SpuriousWakeup(c) \/ Expire(c) \/ ThrowTimeout(c)
      PROVE  IInv'
  BY <1>1, <1>7, SchedulingStep DEF Sleep, SpuriousWakeup, Wake, Expire, ThrowTimeout, TypeOK
<1>8. CASE UNCHANGED vars
  BY <1>1, <1>8, SchedulingStep DEF vars
<1> QED
  BY <1>2, <1>3, <1>4, <1>5, <1>6, <1>7, <1>8 DEF Next, Consumer

LEMMA Invariance == Spec => []IInv
  BY InitIInv, NextIInv, PTL DEF Spec

(* Each copy made by add_message has one owner until it is freed.          *)
THEOREM CopiesAreOwned == Spec => []Ownership
<1>1. IInv => Ownership
  BY DEF IInv
<1> QED
  BY Invariance, <1>1, PTL

(* Messages leave a subscription in the order in which they arrived.       *)
THEOREM InArrivalOrder == Spec => []ArrivalOrder
<1>1. IInv => ArrivalOrder
  BY DEF IInv
<1> QED
  BY Invariance, <1>1, PTL

-----------------------------------------------------------------------------
(* The queue implements the mailbox                                        *)

LEMMA InitRefines == Init => Promise!Init
  BY DEF Init, Promise!Init, None

LEMMA NextRefines == IInv /\ [Next]_vars => [Promise!Next]_(Promise!vars)
<1> SUFFICES ASSUME IInv, [Next]_vars
             PROVE  Promise!Next \/ UNCHANGED Promise!vars
  OBVIOUS
<1> USE DEF Promise!vars, Promise!Next
<1>0. TypeOK /\ arrived \in Nat
  BY BoundAssumption DEF IInv, TypeOK
<1>1. CASE Allocate
  <2>1. CASE buf' = buf
    <3>1. Promise!Lose
      BY <1>1, <2>1 DEF Allocate, MallocFails, Promise!Lose
    <3> QED
      BY <3>1
  <2>2. CASE buf' # buf
    BY <1>0, <1>1, <2>2 DEF Allocate, MallocFails, None
  <2> QED
    BY <2>1, <2>2
<1>2. CASE Push
  <2>1. buf = arrived /\ buf # None /\ buf' = None /\ arrived' = arrived
    BY <1>2 DEF Push, IInv, Older
  <2>2. \A c \in Consumers : pc[c] \in {"lock", "asleep", "expired"}
                            <=> pc'[c] \in {"lock", "asleep", "expired"}
    BY <1>0, <1>2 DEF Push, Notify, Asleep, Wake, TypeOK
  <2>3. Promise!Deliver
    BY <1>0, <1>2, <2>1, <2>2 DEF Push, Enqueue, Promise!Deliver
  <2> QED
    BY <2>3
<1>3. ASSUME NEW c \in Consumers, NEW d \in Durations, Call(c, d)
      PROVE  Promise!Ask(c)
  BY <1>0, <1>3 DEF Call, Promise!Ask, TypeOK
<1>4. ASSUME NEW c \in Consumers, Take(c) PROVE Promise!Take(c)
  BY <1>0, <1>4 DEF Take, Pop, Promise!Take, TypeOK
<1>5. ASSUME NEW c \in Consumers, ThrowTimeout(c) PROVE Promise!GiveUp(c)
  BY <1>0, <1>5 DEF ThrowTimeout, PredicateFails, Promise!GiveUp, TypeOK
<1>6. ASSUME NEW c \in Consumers,
             Sleep(c) \/ Return(c) \/ SpuriousWakeup(c) \/ Expire(c)
      PROVE  UNCHANGED Promise!vars
  BY <1>0, <1>6 DEF Sleep, Return, SpuriousWakeup, Wake, Expire, TypeOK
<1>7. CASE UNCHANGED vars
  BY <1>7 DEF vars
<1> QED
  BY <1>1, <1>2, <1>3, <1>4, <1>5, <1>6, <1>7 DEF Next, Consumer

(* get_message keeps the promise of Mailbox: a FIFO from which every call  *)
(* takes the oldest message, and a timed call gives up on an empty one only. *)
THEOREM ImplementsMailbox == Spec => KeepsPromise
  BY Invariance, InitRefines, NextRefines, PTL DEF Spec, KeepsPromise, Promise!Spec
=============================================================================
