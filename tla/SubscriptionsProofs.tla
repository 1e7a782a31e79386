------------------------ MODULE SubscriptionsProofs ------------------------
(***************************************************************************)
(* Proofs about Subscriptions, for any threads, filters, topics and bounds: *)
(*   - topic_to_regex agrees with MQTT on ordinary topics, so on_message   *)
(*     gives a message to the subscriptions the broker sends it for;       *)
(*   - on_message never touches a subscription that has been freed, and    *)
(*     forgets none that it matched;                                       *)
(*   - the references of get_message stay valid, if a subscription is      *)
(*     removed only by the one thread that reads it.                       *)
(***************************************************************************)
EXTENDS Subscriptions, TLAPS

-----------------------------------------------------------------------------
(* Matching                                                                *)

(* topic_to_regex gives "+" and "#" the meaning they have in MQTT, except  *)
(* for the parent of "#" and for reserved levels.                          *)
THEOREM RegexIsMqtt ==
  ASSUME NEW filter, NEW topic, IsFilter(filter), IsTopic(topic),
         Ordinary(filter, topic)
  PROVE  RegexMatches(filter, topic) <=> MqttMatches(filter, topic)
<1>1. /\ Len(filter) \in Nat \ {0} /\ Len(topic) \in Nat \ {0}
      /\ ~HiddenTopic(filter, topic)
  BY DEF IsFilter, IsTopic, Ordinary, HiddenTopic
<1>2. \A i \in 1..Len(filter) :
          RegexLevel(filter[i], topic[i]) <=> filter[i] \in {"+", topic[i]}
  BY DEF Ordinary, RegexLevel
<1>3. CASE EndsInHash(filter)
  BY <1>1, <1>2, <1>3 DEF RegexMatches, MqttMatches, Ordinary
<1>4. CASE ~EndsInHash(filter)
  BY <1>1, <1>2, <1>4 DEF RegexMatches, MqttMatches
<1> QED
  BY <1>3, <1>4

-----------------------------------------------------------------------------
(* The inductive invariant                                                 *)

(* A new object goes into one place of the map. *)
OnePlace ==
  \A f, g \in Filters :
      subscriptions[f] = subscriptions[g] /\ subscriptions[f] # None => f = g

(* What is referred to has been made. *)
OnlyMade == \A o \in Mapped \cup matched : o <= made

(* The use counts: one for the map, one for on_message's vector. *)
Counting ==
  \A o \in Objects :
      /\ o \in Mapped /\ o \in matched => count[o] = 2
      /\ o \in Mapped /\ o \notin matched => count[o] = 1
      /\ o \notin Mapped /\ o \in matched => count[o] = 1
      /\ o \notin Mapped /\ o \notin matched => count[o] = 0

(* While on_message runs there is a message. *)
HasMessage == matched # {} => arrived \in Messages

(* Only queues are due a message, and the one in hand is due. *)
DueToQueues ==
  \A o \in Objects :
      /\ due[o] # {} => o <= made /\ kind[o] = "get"
      /\ o \in todo /\ kind[o] = "get" => arrived \in due[o]

IInv == /\ TypeOK /\ OnePlace /\ OnlyMade /\ Counting /\ HasMessage
        /\ DueToQueues /\ NobodyIsForgotten

LEMMA InitIInv == Init => IInv
<1> SUFFICES ASSUME Init PROVE IInv
  OBVIOUS
<1> USE BoundsAssumption DEF Init, Objects, None
<1>1. TypeOK
  BY DEF TypeOK, Messages, Places
<1>2. Mapped = {}
  BY DEF Mapped
<1> QED
  BY <1>1, <1>2 DEF IInv, OnePlace, OnlyMade, Counting, HasMessage, DueToQueues,
     NobodyIsForgotten

(* The types that the counts need. *)
LEMMA CountTypes ==
  ASSUME TypeOK
  PROVE  /\ count \in [Objects -> Nat]
         /\ Mapped \subseteq Objects /\ matched \subseteq Objects
         /\ \A o \in Objects : o \in Nat
  BY BoundsAssumption DEF TypeOK, Mapped, Objects

LEMMA AddIInv ==
  ASSUME IInv, NEW f \in Filters, NEW k \in {"get", "callback"}, AddSubscription(f, k)
  PROVE  IInv'
<1>1. made' \in Objects /\ made' = made + 1 /\ made \in Nat /\ made' \in 0..MaxObjects
  BY BoundsAssumption DEF IInv, TypeOK, Objects, AddSubscription
<1>2. \A o \in Mapped \cup matched : o \in Nat /\ o <= made /\ o # made'
  <2>1. \A o \in Mapped \cup matched : o \in Nat
    BY CountTypes DEF IInv
  <2>2. \A o \in Mapped \cup matched : o <= made
    BY DEF IInv, OnlyMade
  <2> QED
    BY ONLY <1>1, <2>1, <2>2
<1>3. /\ subscriptions[f] = None =>
            /\ subscriptions' = [subscriptions EXCEPT ![f] = made']
            /\ count' = [count EXCEPT ![made'] = 1]
      /\ subscriptions[f] # None => subscriptions' = subscriptions /\ count' = count
  BY DEF AddSubscription, Emplace
<1>4. /\ kind' = [kind EXCEPT ![made'] = k]
      /\ UNCHANGED <<messages, arrived, matched, todo, due, received, cutShort, pc, using>>
  BY DEF AddSubscription, loopVars, appVars
<1>5. /\ subscriptions \in [Filters -> Objects \cup {None}]
      /\ kind \in [Objects -> {"get", "callback"}]
      /\ count \in [Objects -> Nat]
      /\ todo \subseteq matched
  BY DEF IInv, TypeOK
<1>6. made' # None
  BY ONLY <1>1 DEF None
<1>7. ASSUME subscriptions[f] = None
      PROVE  /\ subscriptions'[f] = made'
             /\ \A g \in Filters \ {f} : subscriptions'[g] = subscriptions[g]
  BY <1>3, <1>5, <1>7
<1>8. Mapped' = IF subscriptions[f] = None THEN Mapped \cup {made'} ELSE Mapped
  <2>1. CASE subscriptions[f] = None
    <3>1. {subscriptions'[g] : g \in Filters} \ {None}
              = ({subscriptions[g] : g \in Filters} \ {None}) \cup {made'}
      BY ONLY <1>6, <1>7, <2>1, f \in Filters
    <3> QED
      BY <2>1, <3>1 DEF Mapped
  <2>2. CASE subscriptions[f] # None
    BY <1>3, <2>2 DEF Mapped
  <2> QED
    BY ONLY <2>1, <2>2
<1>9. TypeOK'
  <2>1. subscriptions' \in [Filters -> Objects \cup {None}]
    BY ONLY <1>1, <1>3, <1>5
  <2>2. kind' \in [Objects -> {"get", "callback"}]
    BY ONLY <1>4, <1>5, k \in {"get", "callback"}
  <2>3. count' \in [Objects -> Nat]
    BY ONLY <1>3, <1>5
  <2> QED
    BY <1>1, <1>4, <2>1, <2>2, <2>3 DEF IInv, TypeOK
<1>10. OnePlace'
  <2>1. CASE subscriptions[f] = None
    <3>1. \A g \in Filters : subscriptions[g] # None => subscriptions[g] # made'
      BY <1>2 DEF Mapped
    <3> QED
      BY <1>7, <2>1, <3>1 DEF IInv, OnePlace
  <2>2. CASE subscriptions[f] # None
    BY <1>3, <2>2 DEF IInv, OnePlace
  <2> QED
    BY <2>1, <2>2
<1>11. OnlyMade'
  <2>1. \A o \in Mapped' \cup matched' : o \in Mapped \cup matched \/ o = made'
    BY <1>4, <1>8
  <2>2. \A o \in Mapped' \cup matched' : o <= made'
    BY ONLY <1>1, <1>2, <2>1
  <2> QED
    BY <2>2 DEF OnlyMade
<1>12. Counting'
  <2>1. CASE subscriptions[f] = None
    <3>1. /\ Mapped' = Mapped \cup {made'} /\ matched' = matched
          /\ count' = [count EXCEPT ![made'] = 1]
      BY <1>3, <1>4, <1>8, <2>1
    <3> QED
      BY <1>1, <1>2, <1>5, <3>1 DEF IInv, Counting
  <2>2. CASE subscriptions[f] # None
    <3>1. Mapped' = Mapped /\ matched' = matched /\ count' = count
      BY <1>3, <1>4, <1>8, <2>2
    <3> QED
      BY <3>1 DEF IInv, Counting
  <2> QED
    BY <2>1, <2>2
<1>13. DueToQueues'
  <2>1. \A o \in Objects : o # made' => kind'[o] = kind[o]
    BY <1>4, <1>5
  <2>2. \A o \in todo : o # made'
    BY <1>2, <1>5
  <2>3. \A o \in Objects : o \in Nat /\ (due[o] # {} => o <= made /\ kind[o] = "get")
    BY BoundsAssumption DEF IInv, DueToQueues, Objects
  <2>4. \A o \in Objects : due'[o] # {} => o <= made' /\ kind'[o] = "get"
    BY ONLY <1>1, <1>4, <2>1, <2>3
  <2>5. \A o \in Objects : o \in todo' /\ kind'[o] = "get" => arrived' \in due'[o]
    BY <1>4, <2>1, <2>2 DEF IInv, DueToQueues
  <2> QED
    BY <2>4, <2>5 DEF DueToQueues
<1>14. HasMessage' /\ NobodyIsForgotten'
  BY <1>4 DEF IInv, HasMessage, NobodyIsForgotten
<1> QED
  BY <1>9, <1>10, <1>11, <1>12, <1>13, <1>14 DEF IInv

LEMMA RemoveIInv ==
  ASSUME IInv, NEW a \in Threads, NEW f \in Filters, RemoveSubscription(a, f)
  PROVE  IInv'
<1> USE BoundsAssumption DEF Objects, None, RemoveSubscription, loopVars, appVars
<1>1. subscriptions[f] \in Mapped /\ subscriptions[f] \in Objects
  BY DEF Mapped, IInv, TypeOK
<1>2. Mapped' = Mapped \ {subscriptions[f]}
  BY DEF Mapped, IInv, TypeOK, OnePlace
<1>3. /\ count[subscriptions[f]] \in {1, 2}
      /\ count' = [count EXCEPT ![subscriptions[f]] = @ - 1]
  BY <1>1 DEF IInv, Counting
<1>4. Counting' /\ count' \in [Objects -> Nat]
  <2>1. matched' = matched
    OBVIOUS
  <2> QED
    BY <1>1, <1>2, <1>3, <2>1, CountTypes DEF IInv, Counting
<1>6. TypeOK'
  <2>1. subscriptions' \in [Filters -> Objects \cup {None}]
    BY DEF IInv, TypeOK
  <2> QED
    BY <1>4, <2>1 DEF IInv, TypeOK
<1>5. OnePlace' /\ OnlyMade'
  BY <1>2 DEF IInv, OnePlace, OnlyMade, TypeOK
<1> QED
  BY <1>4, <1>5, <1>6 DEF IInv, HasMessage, DueToQueues, NobodyIsForgotten

(* get_message leaves the map, the counts and the histories alone. *)
LEMMA GetIInv ==
  ASSUME IInv, NEW a \in Threads,
         (\E f \in Filters : Find(a, f)) \/ GetMessage(a)
  PROVE  IInv'
<1> USE DEF loopVars
<1>1. /\ UNCHANGED <<subscriptions, made, kind, count, arrived, matched, todo, due,
                     received, cutShort>>
  BY DEF GetMessage, Find, Enter, Throw, Take, TimeOut
<1>2. messages' \in [Objects -> Seq(Messages)]
  <2>1. CASE UNCHANGED messages
    BY <2>1 DEF IInv, TypeOK
  <2>2. CASE Take(a)
    <3>1. \A o \in Objects : messages[o] # <<>> => Tail(messages[o]) \in Seq(Messages)
      BY DEF IInv, TypeOK
    <3>2. messages' = [messages EXCEPT ![Object(a)] = Tail(@)] /\ messages[Object(a)] # <<>>
      BY <2>2 DEF Take
    <3> QED
      BY <3>1, <3>2 DEF IInv, TypeOK
  <2> QED
    BY <2>1, <2>2 DEF GetMessage, Find, Enter, Throw, TimeOut
<1>4. /\ pc' \in [Threads -> Places]
      /\ using' \in [Threads -> (Filters \X Objects) \cup {Nothing}]
  <2>1. pc \in [Threads -> Places] /\ subscriptions \in [Filters -> Objects \cup {None}]
        /\ using \in [Threads -> (Filters \X Objects) \cup {Nothing}]
    BY DEF IInv, TypeOK
  <2>2. CASE GetMessage(a)
    BY <2>1, <2>2 DEF GetMessage, Enter, Throw, Take, TimeOut, Leave, Places
  <2>3. ASSUME NEW f \in Filters, Find(a, f) 
        PROVE  /\ pc' \in [Threads -> Places]
               /\ using' \in [Threads -> (Filters \X Objects) \cup {Nothing}]
    <3>1. <<f, subscriptions[f]>> \in Filters \X Objects
      BY <2>1, <2>3 DEF Find
    <3> QED
      BY <2>1, <2>3, <3>1 DEF Find, Places
  <2> QED
    BY <2>2, <2>3
<1>3. TypeOK'
  BY <1>1, <1>2, <1>4 DEF IInv, TypeOK
<1> QED
  BY <1>1, <1>3 DEF IInv, OnePlace, OnlyMade, Counting, HasMessage, DueToQueues,
     NobodyIsForgotten, Mapped

LEMMA OnMessageIInv ==
  ASSUME IInv, NEW t \in Topics, OnMessage(t)
  PROVE  IInv'
<1> USE BoundsAssumption DEF OnMessage, Hold, appVars
<1>1. matched' \subseteq Mapped /\ matched' \subseteq Objects /\ Mapped' = Mapped
  BY DEF MatchingObjects, Mapped, IInv, TypeOK
<1>2. arrived' \in Messages
  BY DEF IInv, TypeOK, Messages
<1>3. matched = {} /\ todo = {}
  BY DEF IInv, TypeOK
<1>4. Counting'
  BY <1>1, <1>3 DEF IInv, Counting, TypeOK
<1>5. TypeOK'
  <2>1. count' \in [Objects -> Nat]
    BY DEF IInv, TypeOK
  <2>2. arrived' \in 0..MaxMessages /\ due' \in [Objects -> SUBSET Messages]
    BY <1>2 DEF IInv, TypeOK, Messages
  <2> QED
    BY <1>1, <2>1, <2>2 DEF IInv, TypeOK
<1>6. OnePlace' /\ OnlyMade' /\ HasMessage'
  BY <1>1, <1>2 DEF IInv, OnePlace, OnlyMade, HasMessage
<1>7. DueToQueues'
  BY <1>1 DEF IInv, DueToQueues, OnlyMade, TypeOK
<1>8. NobodyIsForgotten'
  BY <1>3 DEF IInv, NobodyIsForgotten, TypeOK
<1> QED
  BY <1>4, <1>5, <1>6, <1>7, <1>8 DEF IInv

LEMMA DispatchIInv == ASSUME IInv, LoopThread PROVE IInv'
<1> USE DEF appVars
<1>1. ASSUME NEW o \in Objects, AddMessage(o) PROVE IInv'
  <2> USE <1>1 DEF AddMessage, Step
  <2>1. arrived \in Messages
    BY DEF IInv, TypeOK, HasMessage
  <2>2. received' \in [Objects -> SUBSET Messages]
    <3>1. received \in [Objects -> SUBSET Messages]
      BY DEF IInv, TypeOK
    <3>2. \/ received' = [received EXCEPT ![o] = @ \cup {arrived}]
          \/ received' = received
      OBVIOUS
    <3> QED
      BY <2>1, <3>1, <3>2
  <2>6. messages' \in [Objects -> Seq(Messages)]
    <3>1. messages \in [Objects -> Seq(Messages)] /\ Append(messages[o], arrived) \in Seq(Messages)
      BY <2>1 DEF IInv, TypeOK
    <3> QED
      BY <3>1
  <2>3. TypeOK'
    BY <2>2, <2>6 DEF IInv, TypeOK
  <2>4. NobodyIsForgotten'
    BY DEF IInv, NobodyIsForgotten, DueToQueues, TypeOK
  <2>5. DueToQueues'
    BY DEF IInv, DueToQueues
  <2> QED
    BY <2>3, <2>4, <2>5 DEF IInv, OnePlace, OnlyMade, Counting, HasMessage, Mapped
<1>2. CASE AddMessageThrows
  <2> USE <1>2 DEF AddMessageThrows
  <2>1. arrived \in Messages
    BY DEF IInv, TypeOK, HasMessage
  <2>2. TypeOK'
    BY <2>1 DEF IInv, TypeOK
  <2> QED
    BY <2>2 DEF IInv, OnePlace, OnlyMade, Counting, HasMessage, Mapped, DueToQueues,
       NobodyIsForgotten
<1>3. CASE OnMessageReturns
  <2> USE <1>3 DEF OnMessageReturns, Release
  <2>1. Counting' /\ count' \in [Objects -> Nat]
    <3>1. Mapped' = Mapped /\ matched' = {}
      BY DEF Mapped
    <3>2. count' = [o \in Objects |-> IF o \in matched THEN count[o] - 1 ELSE count[o]]
      OBVIOUS
    <3> QED
      BY <3>1, <3>2, CountTypes DEF IInv, Counting
  <2>2. TypeOK'
    BY <2>1 DEF IInv, TypeOK
  <2> QED
    BY <2>1, <2>2 DEF IInv, OnePlace, OnlyMade, HasMessage, Mapped, DueToQueues,
       NobodyIsForgotten
<1> QED
  BY <1>1, <1>2, <1>3 DEF LoopThread

LEMMA NextIInv == IInv /\ [Next]_vars => IInv'
<1>1. ASSUME IInv, UNCHANGED vars PROVE IInv'
  BY <1>1 DEF vars, IInv, TypeOK, OnePlace, OnlyMade, Counting, HasMessage, Mapped,
     DueToQueues, NobodyIsForgotten
<1> QED
  BY <1>1, AddIInv, RemoveIInv, GetIInv, OnMessageIInv, DispatchIInv DEF Next, Done

LEMMA Invariance == Spec => []IInv
  BY InitIInv, NextIInv, PTL DEF Spec

-----------------------------------------------------------------------------
(* What follows                                                            *)

(* Types, among them that no use count falls below zero. *)
THEOREM TypeCorrect == Spec => []TypeOK
<1>1. IInv => TypeOK
  BY DEF IInv
<1> QED
  BY Invariance, <1>1, PTL

(* on_message, with the map unlocked, uses no subscription that has been   *)
(* freed, whoever removes it meanwhile.                                    *)
THEOREM DispatchSafe == Spec => []DispatchIsSafe
<1>1. IInv => DispatchIsSafe
  <2> SUFFICES ASSUME IInv, NEW o \in matched PROVE count[o] > 0
    BY DEF DispatchIsSafe
  <2>1. o \in Objects
    BY DEF IInv, TypeOK
  <2>2. count[o] = 1 \/ count[o] = 2
    BY <2>1 DEF IInv, Counting
  <2> QED
    BY <2>2
<1> QED
  BY Invariance, <1>1, PTL

(* Every subscription a message matched gets it, unless something throws. *)
THEOREM NobodyForgotten == Spec => []NobodyIsForgotten
<1>1. IInv => NobodyIsForgotten
  BY DEF IInv
<1> QED
  BY Invariance, <1>1, PTL

(* on_message gives a message to the subscriptions the broker sends it for. *)
THEOREM FollowsBroker == Spec => FollowsTheBroker
<1>1. ASSUME IInv, NEW t \in Topics, OnMessage(t),
             NEW f \in Filters, subscriptions[f] # None, Ordinary(f, t)
      PROVE  subscriptions[f] \in matched' <=> MqttMatches(f, t)
  <2>1. subscriptions[f] \in matched' <=> RegexMatches(f, t)
    BY <1>1 DEF OnMessage, MatchingObjects, IInv, OnePlace
  <2>2. RegexMatches(f, t) <=> MqttMatches(f, t)
    BY <1>1, RegexIsMqtt, FiltersAssumption, TopicsAssumption
  <2> QED
    BY <2>1, <2>2
<1>2. IInv => \A t \in Topics : OnMessage(t) =>
          \A f \in Filters : subscriptions[f] # None /\ Ordinary(f, t) =>
              (subscriptions[f] \in matched' <=> MqttMatches(f, t))
  BY <1>1
<1> QED
  BY Invariance, <1>2, PTL DEF FollowsTheBroker

-----------------------------------------------------------------------------
(* References, when every subscription is removed only by its reader       *)

Owned == \A f \in Filters : \A a \in Getters[f], b \in Removers[f] : a = b

(* Whoever is in get_message uses what the map has. *)
InUse ==
  \A a \in Threads : pc[a] # "idle" =>
      /\ using[a] \in Filters \X Objects
      /\ a \in Getters[using[a][1]]
      /\ subscriptions[using[a][1]] = Object(a)

LEMMA NextInUse ==
  ASSUME Owned, IInv, InUse, [Next]_vars
  PROVE  InUse'
<1> USE DEF InUse, Object, IInv, TypeOK
<1>1. ASSUME NEW f \in Filters, NEW k \in {"get", "callback"}, AddSubscription(f, k)
      PROVE  InUse'
  BY <1>1 DEF AddSubscription, Emplace, appVars, Objects, None
<1>2. ASSUME NEW b \in Threads, NEW f \in Filters, RemoveSubscription(b, f)
      PROVE  InUse'
  BY <1>2 DEF RemoveSubscription, appVars, Owned
<1>3. ASSUME NEW b \in Threads, NEW f \in Filters, Find(b, f)
      PROVE  InUse'
  BY <1>3 DEF Find, Objects, None
<1>4. ASSUME NEW b \in Threads, GetMessage(b)
      PROVE  InUse'
  BY <1>4 DEF GetMessage, Enter, Throw, Take, TimeOut, Leave
<1>5. CASE (\E t \in Topics : OnMessage(t)) \/ LoopThread \/ UNCHANGED vars
  <2>1. UNCHANGED <<subscriptions, pc, using>>
    BY <1>5 DEF OnMessage, LoopThread, AddMessage, AddMessageThrows, OnMessageReturns,
       appVars, vars
  <2> QED
    BY <2>1
<1> QED
  BY <1>1, <1>2, <1>3, <1>4, <1>5 DEF Next, Done

(* get_message's reference into the map stays valid through the call, also *)
(* when others add the topic again - if only the reader removes it.        *)
THEOREM ReferencesValid == ASSUME Owned PROVE Spec => []ReferencesStayValid
<1>1. Init => InUse
  BY DEF Init, InUse
<1>2. IInv /\ InUse /\ [Next]_vars => InUse'
  BY NextInUse
<1>3. IInv /\ InUse => ReferencesStayValid
  <2> SUFFICES ASSUME IInv, InUse, NEW a \in Threads, pc[a] # "idle"
               PROVE  /\ subscriptions[using[a][1]] = Object(a)
                      /\ count[Object(a)] > 0
    BY DEF ReferencesStayValid
  <2>1. Object(a) \in Mapped /\ Object(a) \in Objects
    BY DEF InUse, Object, Mapped, Objects, None
  <2> QED
    BY <2>1 DEF IInv, InUse, Counting
<1> QED
  BY Invariance, <1>1, <1>2, <1>3, PTL DEF Spec
=============================================================================
