---------------------------- MODULE Subscriptions ----------------------------
(***************************************************************************)
(* The map from topics to subscriptions, shared by the application threads *)
(* (add_subscription, remove_subscription, get_message) and the loop       *)
(* thread (on_message).  The map and the vector of on_message hold the     *)
(* subscriptions by shared_ptr; get_message holds only a reference to the  *)
(* map's own pointer, which it uses after unlocking the map.               *)
(*                                                                         *)
(* An object is freed when its count is 0.  What a queue and its waiting   *)
(* threads do is module MessageQueue; here a queue is the mailbox that     *)
(* module is proved to implement, and a message is its number.             *)
(***************************************************************************)
EXTENDS TopicMatch, FiniteSets

CONSTANTS
    Threads,        \* application threads
    Filters,        \* topics of subscriptions
    Topics,         \* topics of messages
    Getters,        \* Getters[f]: threads that call get_message(f)
    Removers,       \* Removers[f]: threads that call remove_subscription(f)
    MaxObjects,     \* bound: subscriptions ever made
    MaxMessages     \* bound: messages that arrive

ASSUME FiltersAssumption == \A f \in Filters : IsFilter(f)
ASSUME TopicsAssumption == \A t \in Topics : IsTopic(t)
ASSUME UsersAssumption ==
    Getters \in [Filters -> SUBSET Threads] /\ Removers \in [Filters -> SUBSET Threads]
ASSUME BoundsAssumption == MaxObjects \in Nat /\ MaxMessages \in Nat

Objects == 1..MaxObjects
Messages == 1..MaxMessages
None == 0
Nothing == <<>>

VARIABLES
    subscriptions,  \* the map: the object of a topic, None if it has none
    made,           \* objects made so far
    kind,           \* kind[o]: "get" or "callback"
    count,          \* count[o]: shared_ptr's use count
    messages,       \* messages[o]: the queue of object o
    arrived,        \* messages that arrived so far
    matched,        \* the objects in on_message's vector
    todo,           \* those that still get the message
    due,            \* history: due[o], messages that o was matched with
    received,       \* history: received[o], messages put in o's queue
    cutShort,       \* history: messages on which an add_message threw
    pc,             \* pc[a]: where thread a is in get_message
    using           \* using[a]: the topic and the object of a's get_message

vars == <<subscriptions, made, kind, count, messages, arrived, matched, todo,
          due, received, cutShort, pc, using>>

Made == 1..made
Mapped == {subscriptions[f] : f \in Filters} \ {None}

(* "found": holds a reference into the map, which is unlocked.  "inside":   *)
(* in the subscription's get_message.                                      *)
Places == {"idle", "found", "inside"}

TypeOK ==
    /\ subscriptions \in [Filters -> Objects \cup {None}]
    /\ made \in 0..MaxObjects
    /\ kind \in [Objects -> {"get", "callback"}]
    /\ count \in [Objects -> Nat]
    /\ messages \in [Objects -> Seq(Messages)]
    /\ arrived \in 0..MaxMessages
    /\ matched \subseteq Objects
    /\ todo \subseteq matched
    /\ due \in [Objects -> SUBSET Messages]
    /\ received \in [Objects -> SUBSET Messages]
    /\ cutShort \subseteq Messages
    /\ pc \in [Threads -> Places]
    /\ using \in [Threads -> (Filters \X Objects) \cup {Nothing}]

Init ==
    /\ subscriptions = [f \in Filters |-> None]
    /\ made = 0
    /\ kind = [o \in Objects |-> "get"]
    /\ count = [o \in Objects |-> 0]
    /\ messages = [o \in Objects |-> <<>>]
    /\ arrived = 0
    /\ matched = {}
    /\ todo = {}
    /\ due = [o \in Objects |-> {}]
    /\ received = [o \in Objects |-> {}]
    /\ cutShort = {}
    /\ pc = [a \in Threads |-> "idle"]
    /\ using = [a \in Threads |-> Nothing]

appVars == <<pc, using>>
loopVars == <<messages, arrived, matched, todo, due, received, cutShort>>

-----------------------------------------------------------------------------
(* add_subscription and remove_subscription, as far as the map goes.  A    *)
(* callback may call them too, from the loop thread.                       *)

(* Fault: operator[] instead of emplace replaces what the map had. *)
Overwrite(f, o) ==
    /\ subscriptions' = [subscriptions EXCEPT ![f] = o]
    /\ count' = [p \in Objects |->
                    IF p = o THEN 1
                    ELSE IF p = subscriptions[f] THEN count[p] - 1 ELSE count[p]]

(* emplace keeps what the map has; the new object then goes at once. *)
Emplace(f, o) ==
    IF subscriptions[f] = None
    THEN /\ subscriptions' = [subscriptions EXCEPT ![f] = o]
         /\ count' = [count EXCEPT ![o] = 1]
    ELSE UNCHANGED <<subscriptions, count>>

AddSubscription(f, k) ==
    /\ made < MaxObjects
    /\ made' = made + 1
    /\ kind' = [kind EXCEPT ![made'] = k]
    /\ Emplace(f, made')
    /\ UNCHANGED <<loopVars, appVars>>

RemoveSubscription(a, f) ==
    /\ a \in Removers[f] /\ pc[a] = "idle"
    /\ subscriptions[f] # None
    /\ subscriptions' = [subscriptions EXCEPT ![f] = None]
    /\ count' = [count EXCEPT ![subscriptions[f]] = @ - 1]
    /\ UNCHANGED <<made, kind, loopVars, appVars>>

-----------------------------------------------------------------------------
(* get_message                                                             *)

(* The map is locked, the topic looked up and the map unlocked. *)
Find(a, f) ==
    /\ a \in Getters[f] /\ pc[a] = "idle"
    /\ subscriptions[f] # None
    /\ pc' = [pc EXCEPT ![a] = "found"]
    /\ using' = [using EXCEPT ![a] = <<f, subscriptions[f]>>]
    /\ UNCHANGED <<subscriptions, made, kind, count, loopVars>>

Object(a) == using[a][2]

(* The reference is used, for a subscription with a queue. *)
Enter(a) ==
    /\ pc[a] = "found"
    /\ kind[Object(a)] = "get"
    /\ pc' = [pc EXCEPT ![a] = "inside"]
    /\ UNCHANGED <<subscriptions, made, kind, count, loopVars, using>>

Leave(a) ==
    /\ pc' = [pc EXCEPT ![a] = "idle"]
    /\ using' = [using EXCEPT ![a] = Nothing]

(* "This topic is subscribed with callback." *)
Throw(a) ==
    /\ pc[a] = "found"
    /\ kind[Object(a)] = "callback"
    /\ Leave(a)
    /\ UNCHANGED <<subscriptions, made, kind, count, loopVars>>

Take(a) ==
    /\ pc[a] = "inside"
    /\ messages[Object(a)] # <<>>
    /\ messages' = [messages EXCEPT ![Object(a)] = Tail(@)]
    /\ Leave(a)
    /\ UNCHANGED <<subscriptions, made, kind, count, arrived, matched, todo, due,
                   received, cutShort>>

TimeOut(a) ==
    /\ pc[a] = "inside"
    /\ messages[Object(a)] = <<>>
    /\ Leave(a)
    /\ UNCHANGED <<subscriptions, made, kind, count, loopVars>>

-----------------------------------------------------------------------------
(* on_message                                                              *)

(* Fault: the vector holds plain pointers. *)
PlainPointers(objects) == UNCHANGED count

Hold(objects) ==
    count' = [o \in Objects |-> IF o \in objects THEN count[o] + 1 ELSE count[o]]

Release(objects) ==
    count' = [o \in Objects |-> IF o \in objects THEN count[o] - 1 ELSE count[o]]

MatchingObjects(t) ==
    {subscriptions[f] : f \in {g \in Filters : RegexMatches(g, t)}} \ {None}

(* The map is locked and the subscriptions that match are copied.          *)
OnMessage(t) ==
    /\ matched = {} /\ arrived < MaxMessages
    /\ arrived' = arrived + 1
    /\ matched' = MatchingObjects(t)
    /\ todo' = matched'
    /\ due' = [o \in Objects |->
                  IF o \in matched' /\ kind[o] = "get" THEN due[o] \cup {arrived'} ELSE due[o]]
    /\ Hold(matched')
    /\ UNCHANGED <<subscriptions, made, kind, messages, received, cutShort, appVars>>

(* Fault: after an object that was removed meanwhile the loop ends. *)
StopAtRemoved(o) == todo' = IF o \in Mapped THEN todo \ {o} ELSE {}

Step(o) == todo' = todo \ {o}

(* add_message of the next object, in the order of the hash map: a copy is *)
(* queued, or the callback called.                                         *)
AddMessage(o) ==
    /\ o \in todo
    /\ Step(o)
    /\ IF kind[o] = "get"
       THEN /\ messages' = [messages EXCEPT ![o] = Append(@, arrived)]
            /\ received' = [received EXCEPT ![o] = @ \cup {arrived}]
       ELSE UNCHANGED <<messages, received>>
    /\ UNCHANGED <<subscriptions, made, kind, count, arrived, matched, due, cutShort,
                   appVars>>

(* add_message throws: on_message catches it, the others get nothing. *)
AddMessageThrows ==
    /\ todo # {}
    /\ todo' = {}
    /\ cutShort' = cutShort \cup {arrived}
    /\ UNCHANGED <<subscriptions, made, kind, count, messages, arrived, matched, due,
                   received, appVars>>

(* The vector is destroyed. *)
OnMessageReturns ==
    /\ matched # {} /\ todo = {}
    /\ Release(matched)
    /\ matched' = {}
    /\ UNCHANGED <<subscriptions, made, kind, messages, arrived, todo, due, received,
                   cutShort, appVars>>

-----------------------------------------------------------------------------
LoopThread == (\E o \in Objects : AddMessage(o)) \/ AddMessageThrows \/ OnMessageReturns

GetMessage(a) == Enter(a) \/ Throw(a) \/ Take(a) \/ TimeOut(a)

Done == arrived = MaxMessages /\ matched = {} /\ UNCHANGED vars

Next ==
    \/ \E f \in Filters, k \in {"get", "callback"} : AddSubscription(f, k)
    \/ \E a \in Threads, f \in Filters : RemoveSubscription(a, f) \/ Find(a, f)
    \/ \E a \in Threads : GetMessage(a)
    \/ \E t \in Topics : OnMessage(t)
    \/ LoopThread
    \/ Done

Spec == Init /\ [][Next]_vars

-----------------------------------------------------------------------------
(* remove_subscription: "This does not invalidate references used by other *)
(* threads due to use of shared_ptr."  What get_message refers to is in    *)
(* the map until it is used, and its object lives until the call returns.  *)
ReferencesStayValid ==
    \A a \in Threads :
        /\ pc[a] = "found" => subscriptions[using[a][1]] = Object(a)
        /\ pc[a] = "inside" => count[Object(a)] > 0

(* on_message uses its subscriptions with the map unlocked, while others   *)
(* remove them: none is freed before on_message is through with it.        *)
DispatchIsSafe == \A o \in matched : count[o] > 0

(* A message that matched a subscription when it arrived is put in its     *)
(* queue, whatever is added or removed meanwhile, unless an add_message    *)
(* threw on this very message; and nothing else is put in a queue.         *)
NobodyIsForgotten ==
    \A o \in Objects :
        /\ received[o] \subseteq due[o]
        /\ due[o] \subseteq received[o] \cup cutShort
                             \cup (IF o \in todo THEN {arrived} ELSE {})

(* on_message gives a message to the subscriptions for which the broker    *)
(* sends it, on ordinary topics: see TopicMatch.                           *)
FollowsTheBroker ==
    [][\A t \in Topics : OnMessage(t) =>
          \A f \in Filters : subscriptions[f] # None /\ Ordinary(f, t) =>
              (subscriptions[f] \in matched' <=> MqttMatches(f, t))]_vars
=============================================================================
