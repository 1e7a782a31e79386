# A verification development for fast-lib

fast-lib is the library with which the parts of the FaST project - agents,
schedulers, the migration framework - talk to one another: a thread-safe MQTT
communicator on top of libmosquitto, and the messages they exchange as YAML
documents. This directory holds TLA+ models of the library's own logic, the
TLC configurations that check them, and proofs for TLAPS.

`PROJECT.json` lists the components, the runs, the source lines each definition
stands for, the hazards the properties are aimed at, and for each property a
fault of the code that would break it.

Contents: [the system](#1-the-system) · [the modules](#2-the-modules) ·
[the runs](#3-the-runs) · [bounds](#4-bounds) · [fairness](#5-fairness) ·
[proofs](#6-proofs) · [disagreements found](#7-where-code-and-documentation-disagree) ·
[what is left out](#8-what-is-left-out) · [plan](#9-plan)

## 1. The system

### 1.1 Components

Paths are below `src/`. "Correct if" says what the properties ask for.

| Component | State | Operations | Correct if |
|---|---|---|---|
| **Subscription queue** `MQTT_subscription_get` (`src/mqtt_communicator.cpp`) | `std::queue` of malloc'ed message copies, a mutex, a condition variable | `add_message` (loop thread), `get_message` (application threads, with or without timeout) | copies have one owner and are freed once; messages leave in order of arrival; a waiting caller is served; a call times out only on an empty queue |
| **Callback subscription** `MQTT_subscription_callback` | the callback | `add_message` calls it, `get_message` throws | the dispatcher survives what a callback does to the map |
| **Subscription map and dispatch** `MQTT_communicator` | `unordered_map` topic → `shared_ptr`, `subscriptions_mutex` | `add_subscription`, `remove_subscription`, `get_message` (lookup), `on_message` | nothing is used after it is freed; every matching subscription gets every message; matching agrees with the broker's |
| **Topic matching** `topic_to_regex` | none | textual replacement of `+` and `#`, then `regex_match` | a message is handed to the subscription it was sent for |
| **Connection management** `MQTT_communicator` | `connected`, `connected_mutex`, `connected_cv`, the set of topics | `connect_to_broker`, `disconnect_from_broker`, `resubscribe`, `on_connect`, `on_disconnect`, constructors, destructor | the flag tells the truth; a call returns only on an established connection, and does return; after a (re)connection the broker knows every topic of the map; the destructor comes back |
| **Sending** `send_message` | none of its own; the library's list of messages | publish with quality of service 0, 1 or 2 | a message of QoS 1 arrives, also one whose `send_message` threw; none of QoS 2 arrives twice |
| **Mosquitto client** (vendored, `vendor/mosquitto-1.4.12/lib`) | client state, socket, outgoing packets, unanswered messages, the loop thread | `connect`, `reconnect`, `disconnect`, `subscribe`, `publish`, retransmission, `loop_start/stop` | as the communicator uses it |
| **Library reference count** `init_mosq_lib`, `cleanup_mosq_lib` | static counter and mutex | constructor, destructor | the library is initialised exactly while somebody uses it; random ids are unique |
| **Tasks and `Task_container`** (`src/message/migfra/task.cpp`) | task vector, optionals | `emit`, `load`, `type` | what `emit` writes `load` reads, as it was; a `load` that throws leaves the container alone |
| **Results and `Result_container`** (`src/message/migfra/result.cpp`) | title, results, id | `emit`, `load`, `type` | an answer can be attributed to its request; the application finds the current results |
| **`Serializable`, `merge_node`, `fast::load`** | none | emit and load of members | part of the message models |
| **`Optional`** (`include/fast-lib/optional.hpp`) | tag, pointer, validity | construction, assignment, copy, move, `set`, `get`, `load` | valid iff there is a value; every value has one owner; copies are copies |
| **Time_measurement and Timer** | timers by name; start and stop points | `tick`, `tock`, emit; `start`, `stop`, `resume`, `elapsed` | elapsed time is run time; a measurement is final |
| **PCI ids and addresses** | numbers of 8 and 16 bits | string conversions | identifiers arrive; an address read is wholly the document's |
| **Agent and mmbwmon messages** (`src/message/agent`) | mandatory members | emit, load | what is written is read; a kind is not taken for another |
| **ivshmem devices** | id, size, path | emit, load | a value of a Start task |
| **`Communicator`** interface, **Log**, tests, examples, other vendored libraries | - | - | not modelled, see section 8 |

### 1.2 How they interact

* An application thread calls `add_subscription`: it changes the map under
  `subscriptions_mutex`, then reads `connected` *without* a lock and, if it is
  set, sends SUBSCRIBE. `remove_subscription` likewise.
* `connect_to_broker` reads `connected` *without* a lock, calls `connect` and then
  `reconnect` of the library, still without a lock, until one succeeds; only then it takes
  `connected_mutex`, waits on `connected_cv` for `on_connect`, and, with the mutex held, calls
  `resubscribe`, which holds `subscriptions_mutex` while it sends one SUBSCRIBE after the other.
* The library's loop thread, started in the constructor, runs all callbacks:
  `on_connect` and `on_disconnect` write `connected` under `connected_mutex`;
  `on_message` copies the matching `shared_ptr`s under `subscriptions_mutex`,
  unlocks, and hands the message to each.
* The same loop thread reconnects by itself when a connection breaks, through
  the same unsynchronised client object that `connect_to_broker` uses.
* After `on_connect` has set the flag and woken `connect_to_broker`, the loop thread still
  tests the client's state and then assigns to it (`_mosquitto_handle_connack`); neither is
  under a lock that `disconnect` takes for as long as both last.
* `get_message` looks a topic up under `subscriptions_mutex`, keeps a *reference*
  to the map's own `shared_ptr`, unlocks, and waits inside the queue.
* What goes over the connection are YAML documents: an application fills a
  `Task_container` and sends it, the migration framework loads it, executes the
  tasks and answers with a `Result_container`. The scheduler, the agents and the
  monitor of the memory bandwidth exchange messages of eleven further kinds.
* `send_message` reads `connected` without a lock and publishes; the library
  keeps a message of QoS 1 or 2 until it is answered, the loop thread sends it again.
* All communicators of a process share the library, and the random generator
  from which a communicator without an id draws one.

### 1.3 What is hard here

Interleavings of application threads with callbacks; `notify_one` on a
transition of the queue; timeouts racing notifications; flags and references
read under a lock and used without it; connections lost, refused and replaced
in the middle of a call; threads waiting for a thread that has ended; functions
that throw halfway; objects that are used a second time and keep what they
held. Section "hazards" of `PROJECT.json` has each at its line.

## 2. The modules

    TopicMatch -- Subscriptions -- MCSubscriptions        SubscriptionsProofs
    Mailbox ----- MessageQueue --- MCMessageQueue         MessageQueueProofs
    Mosquitto --- Communicator --- MCCommunicator         CommunicatorProofs - SessionProofs
    TaskMessages - ResultMessages - Exchange - MCExchange ExchangeProofs
                 - AgentMessages                        ExchangeProofs
    LibraryUsers ------------------- MCLibraryUsers       LibraryUsersProofs
    OptionalValues                                        OptionalProofs
    Timers                                                PartsProofs
    PciDevices                                            PartsProofs
    MCParts: MCExchange, AgentMessages, LibraryUsers,     PartsProofs
             Timers, OptionalValues, PciDevices

`MC...` modules give values to constants. Two of them also choose, with a
variable that never changes, which of several small instances a behaviour is of,
so that the instances' states add up instead of multiplying: `crew` in
`MCMessageQueue` (how many threads share the subscription, and how they call)
and `part` in `MCParts` (which of six parts that share no state is at work; each
action of each part occurs). `may` in `Communicator` is such a variable, too: how
this application shares the calls among its threads.
`...Proofs` modules hold the theorems about the component beside them.

In all modules an operator with a comment "Fault: ..." is not part of the
model: it is the form a definition would take with a plausible bug, and serves
to show that a property notices it (`PROJECT.json`, "mutants").

### 2.1 Mailbox and MessageQueue

`Mailbox` is what the users of a subscription may rely on: a FIFO inbox, any
number of readers, a message goes to exactly one reader in order of arrival, a
call gives up only if the inbox is empty. `Mailbox!FairSpec` adds that a
message that is there for an asking reader is delivered.

`MessageQueue` is `MQTT_subscription_get`. A step is what the code does between
taking and releasing (or waiting on) `msg_queue_mutex`:

| Code | Action |
|---|---|
| `add_message`, malloc before the lock | `Allocate` (may fail: `MallocFails`) |
| `add_message`, push and `notify_one` iff the size is now 1 | `Push`, `Notify` |
| `get_message` entered | `Call` |
| predicate true: front, pop, unlock | `Take` |
| predicate false: sleep | `Sleep` |
| wake-up by nobody; wait_for expires; last look at the predicate | `SpuriousWakeup`, `Expire`, `ThrowTimeout` (or `Take`) |
| string built, copy freed | `Return` |

A message is its arrival number. `heap` is the set of copies malloc'ed and not
freed; `taken` is a history variable.

### 2.2 TopicMatch and Subscriptions

`TopicMatch` defines `RegexMatches`, what `regex_match` with the result of
`topic_to_regex` decides, and, independently, `MqttMatches`, the rule the
broker uses (`mosquitto_topic_matches_sub` of the vendored library). Topics are
sequences of levels; characters that mean something in a regular expression are
left out, except that a level may be `Reserved`, i.e. begin with `$`. `Ordinary`
is where the two agree: not on the parent level of a final `#`, not on
levels with a dollar sign.

`Subscriptions` is the map, the use counts of its `shared_ptr`s, the vector in
`on_message` and the reference in `get_message`. `Find` is the lookup, `Enter`
the use of the reference after the unlock; `OnMessage` copies the matching
pointers, `AddMessage` serves one of them (in any order: the order of the hash
map), `AddMessageThrows` ends the loop, `OnMessageReturns` destroys the vector.
Callbacks may change the map, so `AddSubscription` is open to the loop thread too.
A queue is here the sequence of the mailbox that `MessageQueue` is proved to implement.

`Getters` and `Removers` say which thread reads and which removes a topic. The
code does not restrict them; what holds depends on it (section 7).

### 2.3 Mosquitto and Communicator

`Mosquitto` is the client library as far as the communicator depends on it, and
the broker at the other end: the client's state word, its socket (none, open,
broken and not yet noticed), the packets waiting to be written, the loop thread
(`mosquitto_loop_forever` with `_mosquitto_loop_rc_handle`), the broker's session,
its granted topics and the CONNACK under way. `mosquitto_reconnect` is two
steps, `Reset` and `OpenSucceeds`/`OpenFails`, because it runs without a lock
against the other threads. So are the two halves of `mosquitto_disconnect`, the mark
(`RequestDisconnect`) and the packet (`SendDisconnect`), and what follows `on_connect` in
`_mosquitto_handle_connack`: the test of the state (`LoopTest`) and the assignment (`LoopStore`).
`erased` is a history variable: `LoopStore` has overwritten a disconnect. Sessions are clean: a
closed connection takes its subscriptions along. What the broker does with a packet is
translated from the broker that is vendored beside the client (`read_handle_server.c`,
`subs.c`, `database.c`).

`Communicator` EXTENDS it with the application threads and the callbacks. `pc`
names the place of each thread; the reads of `connected` without a lock are
steps (`Check`, `CallConnect`, `CallDisconnect`, `CallDestroy`, `CallSend`), what runs with
`connected_mutex` held without waiting is one step. `connect_to_broker` is
`CallConnect`, `ConnectReset`, `ConnectOpen`, `ConnectRetry`, `ConnectSleep`,
`ConnectExpire`, `ConnectThrow`, then `ConnectEstablished`, which begins `resubscribe`
with the topics in `todo`, a `SendNext` for each of them in any order (the order of the hash
map; it throws when the socket has gone, and the rest is not sent), and `ConnectReturn`. While a
thread is there it has both mutexes, which are the guards `MutexesFree` of the callbacks and of
whoever changes the map. `disconnect_from_broker` is `CallDisconnect`, `DoDisconnect`,
`EndDisconnect`; the destructor `CallDestroy`, the same two steps, and `Join`. `LoopConnected`,
`LoopRefused` and `LoopDisconnected` are the loop thread's steps with
`on_connect` and `on_disconnect` inside. `resubscribed` is a history variable:
`connect_to_broker` began to resubscribe on the present connection.

`send_message` is `CallSend`, the test of the flag, and `DoPublish`, the call of
`mosquitto_publish` (`RequestPublish`). `waiting` is the library's `out_messages`: what each
message that was published waits for. `LoopAnswer` handles PUBACK, PUBREC and
PUBCOMP, `LoopRetry` is the retransmission, `stored` what the broker keeps of
QoS 2 for the session, `answers` the acknowledgements under way, `delivered` (a
history variable) how often the broker has passed a message on. The client asks for clean sessions: the broker
forgets `stored` with the connection, the client keeps `waiting`. Storing a message
and queueing its packet are one step; message ids are the messages themselves;
the limit of messages in flight (20 by default) is not reached with one message.

Two application threads that are both in `connect_to_broker` and the loop thread
that reconnects share one socket; `Overlap` says whether a second
`mosquitto_reconnect` may start while one is between its two steps.

### 2.4 TaskMessages, ResultMessages and Exchange

`TaskMessages` and `ResultMessages` are pure operators: which tags each of the
eight kinds of tasks writes and insists on, where they are put (in the container's
own node, below "parameter", in "list" or "vm-configurations"), what `load`
takes from them, when it throws and what it has changed by then. A task's
members are a partial function from tags to values; an empty `Optional` is not
in its domain.

`Exchange` runs them against one another: the application composes a request
(`AddTask`, `SetField`, `SetOption`), `SendRequest` emits it, `Receive` loads it
into a new container or one that was used before, `Answer` makes a result per
task, `ReadAnswer` loads the answer, again into a new container or a used one.
One of the two documents may instead be handwritten, as users of the framework
do (`WriteByHand`, `SpoilReply`): a tag is missing or its value unreadable. There are two kinds
of unreadable values (`BadNodes`), which only the vectors of a `Start` tell apart: for what is no list
at all `fast::load` takes its fallback, while a list with an item that cannot be read (`BadItem`)
throws, because yaml-cpp converts the items one by one without a fallback.

`Representable` is the set of containers that a document can carry without
loss. What it excludes is what the code loses: PCI addresses (written under
"dev", read under "devs"), members of a `Quit` (written to a list, read from the
container's node), all but the first of tasks that are merged into the
container's node, the difference between a task's and the container's
`concurrent-execution` there, and tasks of several kinds in one container.

### 2.5 AgentMessages

The eleven kinds of messages of `message/agent` by their mandatory members, in the order of
`load()`, which matters when it throws halfway. `Write` sends any of them, as
`emit()` writes it or as its header documents it, `Spoil` loses or damages
one member, and `Load` reads the document into an object of any kind that has held
another message. The tag "task" is written and never read; it is left out. An
empty map of categories is written as null, which cannot be read as a map.

### 2.6 LibraryUsers

Constructors and destructors of communicators in processes: `ConstructBase` is
the base class, which draws the random id in `mosquitto_new`; `InitLib` is
`init_mosq_lib` under `ref_count_mutex`, with `lib_init` inside; `StartLoop`,
or `StartFails`, whose exception destroys the base class only; `StopLoop`;
`CleanupLib`. Seeds are times of day and taken to differ; an id is the
seed and how many ids were drawn from it.

### 2.7 Timers

`watch` is a `Timer` used by itself (`start`, `stop`, `resume` in any order),
`timers` those of a `Time_measurement` (`tick`, `tock`). `ResumeRunning` reads the
clock twice, in the order the compiler likes, with a delay in between; `ran` and `blur` are history variables: the
true time and what the delays may cost. The clock does not go back.

### 2.8 OptionalValues

`opt` holds tag, pointer and flag of each `Optional`, `heap` the values. Assignment
takes its argument by value, so it is a copy or a move into the
parameter followed by the member-wise move; `unique_ptr` frees what it held (`Freed`).

### 2.9 PciDevices

`PCI_id` and `PCI_addr` with their texts as sequences of digits: `to_hex_string`, `stoul`
with the base the text announces or a fixed one, the conversion to 8 and 16 bits,
and the parts of an address, replaced from left to right until one cannot be read. A text cannot be
read if it has no digit of the base in front (`invalid_argument`) or is larger than an
`unsigned long` (`out_of_range`); that limit is the constant `UlongMax`, of which the proofs use no more
than that 16 bits are within it.

## 3. The runs

| Run | Configuration | Shows |
|---|---|---|
| `queue` | `MCMessageQueue` | malloc failures, both kinds of durations, and two crews of threads on one subscription. Both: `Ownership`, `ArrivalOrder`, `NeverAllAsleep`, and the queue implements `Mailbox!Spec` (`KeepsPromise`). Threads that call in a loop empty it again and again (`QueueDrains`). For a thread on its own the *fair* mailbox is implemented too: it is served whenever a message is there (`LonePromiseIsFair`) |
| `queue_two_consumers` | `MessageQueue_two` | with two threads `WaiterIsServed` fails |
| `comm_calm` | `MCCommunicator_calm` | no faults; one thread connects, disconnects and destroys, the other changes two subscriptions: `FlagIsTruthful`, `NoSubscriptionIsMissing`, `ReturnsEstablished`, `DestructorReturnsUnlessErased`. Each has the exception `erased` |
| `comm_lost_disconnect` | `MCCommunicator_lost` | one thread that connects and destroys, without faults: `ConnectedDestructorReturns` fails, by the disconnect that `LoopStore` overwrites |
| `comm_faults` | `MCCommunicator_faults` | losses, refusals, unreachable brokers, timeouts and overlapping reconnects, while the second thread changes a subscription or sends a message of any QoS: `ResubscribedIsComplete`, `SessionIsKnown`, `AtLeastOnce`, `NeverTwice`, and, as nobody disconnects, `ConnectReturns`, `Reconnects`, `FlagIsPutRight`, `SentIsDelivered` |
| `comm_automatic` | `MCCommunicator_automatic` | a loss that the loop thread repairs: `NoSubscriptionIsMissing` fails |
| `comm_again` | `MCCommunicator_again` | connecting after a disconnect: `ConnectReturns` fails |
| `comm_unconnected` | `MCCommunicator_unconnected` | destroying without a connection: `DestructorReturns` fails |
| `subs_owned` | `MCSubscriptions_owned` | each thread removes only what it reads: `ReferencesStayValid`, `DispatchIsSafe`, `NobodyIsForgotten`, `FollowsTheBroker` |
| `subs_removed` | `MCSubscriptions_removed` | anybody removes anything: `ReferencesStayValid` fails |
| `parts` | `MCParts` | six parts, one at a time. *Exchange*, up to two tasks of any kinds, written by `emit` or by hand, new and used containers: `OwnRequestsAreRead`, `RequestIsUnderstood`, `AnswerIsTracked`, `ResultsAreCurrent`, `AllOrNothing`. *Agent messages*, every kind read as every kind, whole or spoilt: `WrittenIsRead`, `KindsAreTold`. *Library users*, three communicators of a process: `InitializedForUsers`. *Timers*: `ElapsedIsRunTime`, `MeasuredOnce`. *Optionals*: `OneOwner`, `CopiesAreIndependent`. *PCI*: `IdsArrive`, `AddressIsNew` |
| `library_ids` | `MCLibraryUsers_ids` | two processes: `IdsAreUnique` fails |

Each module has one type invariant (`TypeOK`, or a name of its own where modules
meet). Those of the parts are checked together, as `PartsTypeOK`; that of the
communicator is checked in `comm_faults`, which reaches more places than `comm_calm`.

What the properties say and why they are not obvious is in the comments that
precede them. Some remarks:

* `NeverAllAsleep` is why `QueueDrains` holds in spite of the notification that
  is skipped when the queue is not empty: the thread that was notified has yet
  to look at the queue, or another one took the message and is awake.
* The exception `erased` of the four properties of `comm_calm` is one behaviour of the code: after
  the assignment of `LoopStore` nothing remembers that a disconnect was requested, the loop thread
  writes the DISCONNECT, takes the closed socket for a lost connection and connects again,
  with a clean session and without a resubscribe. From then on the flag is about that connection, and
  a `connect_to_broker` that has passed its test may close it. Without the exception each of the four is
  violated; `comm_lost_disconnect` shows it for the destructor. Until then they hold, and nothing but
  that one assignment breaks them.
* `FlagIsTruthful` holds without overlapping reconnects only. With them, the
  CONNACK of a connection may be handled after another thread has replaced the
  socket; then the flag is wrong for a while. That it is put right is
  `FlagIsPutRight`, and `SessionIsKnown` (the direction a user depends on)
  holds whatever overlaps.
* `NoSubscriptionIsMissing` is what `add_subscription` promises; after a loss
  the code keeps only `ResubscribedIsComplete`, the same for connections that
  `connect_to_broker` itself brought up. It covers the race between
  `add_subscription`, which reads the flag without a lock, and `on_connect`.
* `AllOrNothing` has two exceptions, which are in the formula: the container's
  own options are read after the tasks have been replaced.
* `AtLeastOnce` holds also for a message whose `send_message` has thrown: the
  library keeps it and sends it after a reconnect. A caller that repeats the call
  after the exception sends it twice. `NeverTwice` is half of what MQTT calls exactly once; the other half
  does not survive a clean session (section 7).
* `KindsAreTold` lists the pairs of kinds that are mistaken for one another, since nobody reads "task": the
  topics have to keep them apart.
* `OwnRequestsAreRead`, `RequestIsUnderstood` and `AnswerIsTracked` have exceptions as well, each a case
  in which the code goes wrong (section 7): tasks of several kinds in one container, what is
  not `Representable`, and containers that are loaded a second time. In those cases they would be
  false; the properties guard all the others.
* `InitializedForUsers` has the exception `failed`: a constructor that cannot start its
  loop never counts down, so that the library is not cleaned up any more.

Distinct states: `queue` 69 000, `comm_calm` 456 000, `comm_faults` 298 000, `subs_owned`
2.4 million, `parts` 1.3 million; each takes at most three minutes on two cores.

## 4. Bounds

| Bound | Value | Why it is enough |
|---|---|---|
| `MaxMessages` (queue) | 3, up to three threads | the notification is skipped from the second queued message on; a third lets a thread that did not sleep take a message in between |
| `MaxFaults` | 2 | a fault in the first connection and one in its replacement; they may be of different kinds |
| `MaxOut` | 2 | packets that wait when a call that sends begins; the order of a SUBSCRIBE and an UNSUBSCRIBE of one topic behind a CONNECT is covered. It bounds calls only: packets are never lost for it |
| `MaxSends`, messages | 1 of three | a message of each quality of service, one sent per behaviour: messages do not interact but in the queue of packets |
| retransmission | not while the same packet is queued | a packet that is queued twice is sent twice; being sent once more after that is another retransmission |
| `delivered` | counts to 2 | the properties ask for 0, 1, more |
| Topics (communicator) | 1 or 2 | topics meet only in the queue of packets; two show that `Resubscribe` sends all |
| Threads | 2 application threads and the loop thread | one keeps the connection, one the subscriptions |
| `MaxObjects` | 3 | a topic is subscribed, removed and subscribed again while the first object is in use, or three topics match one message |
| `MaxMessages` (subscriptions) | 2 | one message cut short by an exception and one that must not be |
| `MaxConstructions` | 4, three communicators | a communicator that is constructed again while two others come or go |
| `MaxTime`, `MaxDelay` | 3, 1 | start, stop, resume and stop at four different times |
| Optionals, cells, tags, contents | 3, 4, 2, 2 | an owner, its copy and a bystander; a cell stays free for the next value |
| `Sample16`, `Typed` | nine numbers, seven texts | digits and letters in front, leading zeros, the extremes; texts that are decimal, octal with an illegal digit, hexadecimal, wider than the member, out of the range of `stoul`, unreadable, empty |
| `UlongMax` | 2^20 - 1 | TLC's integers have 32 bits; what matters is that 16 bits are below it and that one of the texts is above it |
| agent messages | two values written, one spoilt member | a value that was written, another one and none |
| Filters and topics | a plain, a `+` and a `#` filter; five topics | include a reserved level and the parent of a `#`, where the exceptions bite |
| `MaxTasks`, `MaxFields` | 2, 2 | two tasks meet in a list, in the merge and in the results; two members can come from the task and the container. Kinds are all eight |
| `Settable` | four tags | one optional at the top, one below "parameter", one vector that is read and one that is not |
| `Values` | the empty value and two others | a stale value and a current one differ |
| handwritten documents | one per exchange, one spoilt place | two errors do not interact: the first ends `load` |
| `UsedTasks`, `UsedResults` | one container each, besides new ones | has options and results that would show if they were kept |

`Rest` (communicator) and the two `Done` (subscriptions, exchange) are the
stuttering steps of a system that has nothing more to do, so that TLC's search
for deadlocks reports the other ones. `comm_unconnected` switches that search
off: its counterexample ends with the process blocked in the join, and the run
is to report it as the failure of `DestructorReturns`. `comm_calm` and `comm_lost_disconnect` do so
too, because the system really stops there: after a disconnect was overwritten the loop thread has
connected again and waits for the broker, and the destructor waits for the loop thread. That the destructor
of a connected communicator does not wait without end for any other reason is `DestructorReturnsUnlessErased`.

## 5. Fairness

* Queue: weak fairness of `Push` and of each consumer's own steps (`Consumer`):
  a thread that is runnable runs and gets the mutex. Nobody is obliged to call,
  no message has to arrive, no timeout has to expire, no spurious wake-up to
  happen. In the crew that loops, threads call `get_message` again: that is the
  main loop of the library's users, and only `QueueDrains` needs it.
* Communicator: weak fairness of the loop thread (`LoopThread`) and of each
  thread inside a call (`Continue`). The loop thread is an ordinary thread of the process; its
  `select` has a timeout, so that it notices a broken socket; the packets it writes are
  answered because the network delivers as long as a connection is open. Each round of
  `mosquitto_loop_forever` writes, reads and checks for messages to send again, so that
  reading (`LoopReads`) and retransmission (`LoopRetries`) are not kept waiting for one another.
  Timeouts, faults and calls have no fairness. Faults end because `MaxFaults` bounds them:
  the liveness results read "if the faults end". `connect_to_broker` may be called while a
  connection is coming up, which it closes: `Reconnects` and `SentIsDelivered` are
  for applications that stop doing so (`LeftInPeace`).
* The other modules have safety properties only.

## 6. Proofs

All proofs are checked by TLAPS, for every value of the constants under the
named ASSUMEs of the modules (which TLC evaluates in the runs). The bounds are
constants too, so that the theorems hold for any of them.

**MessageQueueProofs.** `TypeCorrect`; `SomeoneIsAwake` (`NeverAllAsleep`, for
any number of consumers; it is inductive by itself given the types);
`SingleConsumerIsWoken`, its reading for one consumer; `CopiesAreOwned` and
`InArrivalOrder` by the invariant `IInv`: ownership alone is not inductive,
because a push must not add a number that is already owned, hence `Older`
(everything taken, held or queued arrived no later than `arrived`, and before the copy
that is in the loop thread's hand) and `Holding` (a consumer holds a copy
exactly in place "unlocked"). `ImplementsMailbox`: every step of the queue is a step of the
mailbox or leaves it unchanged, under the mapping at the end of `MessageQueue`.

**CommunicatorProofs.** `SessionKnown`, for any threads, topics, faults and with
overlapping reconnects. `SessionIsKnown` is not inductive: `on_disconnect` would
clear the flag of a live session. `SessionPlaces` says that there is no
session while the loop thread is about to call `on_disconnect` or has
passed it. `KeptUntilDelivered` (`AtLeastOnce`): a message of QoS 1 that was published waits for its
PUBACK until the broker has it; inductive with the fact that a PUBACK under way is of a
message that was passed on. `NeverPassedOnTwice` (`NeverTwice`) by `OnceInv`, which says for each
phase of a message what of it can exist at the same time: a message of QoS 2 that was passed on has no
PUBLISH queued any more and waits for its PUBCOMP or is done with, so that no retransmission can
start it anew; one of QoS 0 is queued at most once and passed on when it leaves the queue. `TypeCorrect`, with lemmas about `SetToSeq`, which orders the
SUBSCRIBEs of `resubscribe`.

**SessionProofs.** What holds only of applications that keep to rules, which are hypotheses about
the constants of `Communicator`: which calls a thread may make, and what may go wrong.

* `OneSubscriber`: one thread adds and removes subscriptions. Two of them can send their packets in the
  other order than they changed the map (section 7).
* `KeepsConnection`: nobody calls `disconnect_from_broker` or the destructor. Otherwise, after a call
  that timed out, the next `connect_to_broker` may return on the flag of the connection that was being
  disconnected; its `on_disconnect` then clears the flag while the new connection comes up, and
  `add_subscription` sends nothing on a connection that was resubscribed already.
* `Calm`: no faults, no finite timeouts, no overlapping reconnects, one thread for the connection.

`ResubscriptionIsComplete` (`ResubscribedIsComplete`) assumes the first two, nothing about faults,
timeouts, overlapping reconnects or the number of threads that connect. Its inductive form is
`NoneIsMissing`: on a connection with subscriptions each topic of the map is about to be sent by its
thread (`Adding`), or the *last* word in the queue about it is SUBSCRIBE, or the broker has it
and no UNSUBSCRIBE is queued (`WillBeGranted`). It needs `FlagOutlives`: the flag that
`add_subscription` tests is not cleared by the `on_disconnect` of an older connection while a newer
one has been resubscribed. `FlagStaysTruthful`, `ConnectReturnsEstablished` and
`SubscriptionsAreComplete` are about calm applications, with the exception `erased` that the
properties have. Their invariant `CalmInv` puts every state into a
phase of the connection (`Closed`, `Opening`, `Waiting`, `Connected`) and says of each what socket, session,
CONNACK, queue and loop thread are. It is not an invariant of the code, but `CalmUnlessErased`,
i.e. `erased \/ CalmInv`, is: the only step that leaves `CalmInv` is a `LoopStore` over a requested
disconnect (`NextCalmUnlessErased`), and what is erased stays so (`ErasedStays`). So the theorems say for any
topics and threads that this assignment is the only way to break the three properties. The hypotheses are
not empty: the constants of run `comm_faults` satisfy `OneSubscriber` and `KeepsConnection`, those of
`comm_calm` `OneSubscriber` and `Calm`.

**SubscriptionsProofs.** `RegexIsMqtt`: the regular expression and the MQTT rule
agree on every ordinary topic and filter of any length; `FollowsBroker` carries
it over to the dispatch. `TypeCorrect`, `DispatchSafe`, `NobodyForgotten` by an
invariant that counts: an object's use count is the number of places that hold
it, the map (at most one place) and `on_message`'s vector. The type `Nat` of the
counts depends on it. `ReferencesValid` assumes `Owned`: only the reader of a
topic removes it. The assumption is on the application, not on the code;
without it the property fails (run `subs_removed`).

**ExchangeProofs.** `ContainerArrives`: a representable container, for any
values and any number of tasks, is read from its document as it was sent and
without an exception, tasks whatever the receiving container held.
`RequestUnderstood` carries it to `Exchange`: while a request is under way the
document is what `emit` made of it (`RequestUnderWay`), unless it was written by hand.
`OwnRequestsRead` needs no `Representable`: what is lost is lost without an exception, as long as
the kinds agree. `AnswersAreTracked` and `ResultsCurrent` follow the answer with
`AnswerInv`: what was loaded of the request (`RequestIsLoaded`), the reply is what `emit` made of
the answer (`AnswerUnderWay`), and the results read are those (`ResultIsUsed`). `RefusedLeavesContainer` is the
action property `AllOrNothing`. `ExchangeTypeCorrect` has to follow containers through spoilt
documents and loads that throw halfway (`ExchangeTypes`). For the messages of agents and monitors
`AgentInv` says that the document bears the tags of a kind, without those that were spoilt;
`MembersTell` is the lemma behind `KindsTold`: the tags of one kind cover those another insists on only for the
pairs the property lists. Assumed: used containers and sets of categories are well typed
(`UsedAssumption`, `SetAssumption`).

**LibraryUsersProofs.** `LibraryIsThere`: the counter is the number of
communicators between `init_mosq_lib` and `cleanup_mosq_lib` plus those that failed in
between, by cardinalities of sets that gain and lose one element; from this and the types it
follows that the library is initialised for its users, for any processes.

**OptionalProofs.** `ValidHasValue`, `ValuesAreOwned` and `CopiesAreCopies`, for any set of
Optionals. Ownership needs the type invariant (valid iff the pointer is set), and that
a new value takes a cell that is free.

**PartsProofs.** *Timers*: `StopWatchIsRight` by an invariant that has the true
elapsed time of a stopped and of a running timer; `MeasurementsAreFinal`, for any names. *PCI*:
`IdentifiersArrive` and `AddressesAreNew` for every number of 16 bits and texts of any length.
What `to_hex_string` writes is a sequence without leading zeros whose four digits are the quotients by powers
of 16 (`FourDigits`), and reading puts the number together again (`HexDigitsRead`). Reading itself
is a recursive function over the digits; that it has a value for each length, which is a natural number, is
shown with `LeastNumber`, the principle that a non-empty set of naturals has a least element: a
first digit at which it failed would have one before it. *Composition*: every step of `MCParts` is a step of one
part and a stutter of the five others, so that a behaviour of the composition is one of each part
(`PartsAreTheirSpecs`); all that the parts' theorems say holds of it (`PartsTypeCorrect`, `PartsKeepTheirPromises`).

So every invariant and every action property that a passing run checks is also a theorem.

**Model-checked only.** Liveness (`QueueDrains`, `ConnectReturns`, `Reconnects`, `FlagIsPutRight`,
`SentIsDelivered`, `DestructorReturnsUnlessErased`) and the fair refinement `LonePromiseIsFair`: the
prover has no fairness or ENABLED. The library's induction theorems take an operator as a parameter, which the
provers cannot instantiate; where induction is needed it is done on the set of
counterexamples, by `LeastNumber`. No module declares a RECURSIVE operator, so that all can be proved about.

## 7. Where code and documentation disagree

Seven runs end with a counterexample; each states what the repository says.

1. **A waiting thread stays asleep on a full queue** (`queue_two_consumers`).
   `add_message` notifies only when the size is 1. Two threads sleep, two
   messages arrive before the first notified thread has the mutex: the second push
   notifies nobody, the first thread takes one message, the other sleeps on
   although a message is queued, until another one finds the queue empty.
   The class "is threadsafe" and the method "waits until a message is received".
2. **Nothing is received after an automatic reconnect** (`comm_automatic`). The
   session is clean and `on_connect` does not resubscribe; only
   `connect_to_broker` does, and that throws because `connected` is true.
3. **A communicator cannot be connected again** (`comm_again`).
   `disconnect_from_broker` ends the loop thread, `connect_to_broker` does not
   start it, although its description says so, and waits for a callback.
4. **The destructor of an unconnected communicator hangs** (`comm_unconnected`).
   No disconnect is requested, so the loop thread it joins never returns.
   This is also reached by a constructor that connects and throws on its timeout.
5. **remove_subscription invalidates a reference** (`subs_removed`). The comment
   says it does not, "due to use of shared_ptr"; but `get_message` holds a
   reference to the map's pointer, not a copy.
6. **Random ids are the same in every process** (`library_ids`). The base class
   is constructed first and draws the id; the generator is seeded by
   `init_mosq_lib` in the constructor's body. The first communicator of each process that asks
   for a random id gets the same one, and the broker disconnects a client whose id another one brings.
7. **A disconnect may be lost** (`comm_lost_disconnect`). `on_connect` wakes `connect_to_broker` before
   the loop thread has assigned `mosq_cs_connected`, with a test for a requested disconnect that is a step
   of its own. A destructor (or `disconnect_from_broker`) between the test and the assignment is
   overwritten: DISCONNECT is written, the loop thread reconnects for ever, and the destructor joins it for
   ever. The header says that the destructor "disconnects and stops async mosquitto loop"; the test
   (`test/communication.cpp`, lines 54 to 56) sleeps before a destructor because "Otherwise there is a race
   between destruction and getting on_connect called (FIXME?)".

Other behaviours that the models show and no run is spent on:

* After `disconnect_from_broker` has been overwritten in the same way, the communicator is
  connected again without its subscriptions, and the next `connect_to_broker` throws, or closes that
  connection while the flag is set and may return on the flag.
* A disconnect that is requested after a loss, while the loop thread is between its delay and
  `mosquitto_reconnect`, is overwritten by the state that `mosquitto_reconnect` assigns; this needs
  a connection that is lost at that moment.
* With overlapping reconnects `connect_to_broker` may return on the flag of a connection another
  thread has brought up and replaced.
* Three messages of the agents are not read as their headers document them: the headers have "source",
  "response" and a list of categories, the code reads "hostname", "result" and a map.
* With two threads in `connect_to_broker`, `on_connect` notifies one.
* A second `connect_to_broker` may pass its test, and return on the late CONNACK of an
  earlier attempt that had timed out, although its own connection is still coming up.
* Two threads that add and remove the same topic may send their packets in the other
  order than they changed the map. The runs give subscriptions to one thread.
* `remove_subscription` that reads the flag just before the connection comes up
  leaves a subscription at the broker. Nobody is given those messages.
* A message of QoS 2 may get lost: PUBLISH, PUBREC, then the connection breaks before the PUBREL; the
  new, clean session knows no such message, the broker answers the repeated PUBREL with
  PUBCOMP, and the client is done with a message that nobody received.
* KPIs without categories, as a default object has them, cannot be read from what `emit` writes.
* `PCI_addr::str` writes the device where the domain belongs, and `emit` a tag that `load` does not look for.
* `resume` of a running timer shifts it by the time between its two readings of the clock.
* A `Start` writes its PCI addresses under "dev" and reads them under "devs": they never arrive, and nothing
  is thrown. Members of a `Quit` are written to a list and not read from it.
* A container whose tasks are of several kinds bears the kind of the first. The other tasks are read as
  that kind: `load` throws for members they do not have, or takes them for something else.
* The `concurrent-execution` of a task that is merged into the container's node hides the container's
  own; there is one tag for both.
* When one of the container's own optionals cannot be read, `load` throws after the tasks have been replaced.
* A list of PCI devices that is no list is taken for an empty one; one with a single bad item makes `load` throw.
* A `Task_container` that is loaded again keeps an id that the new document does
  not have, and the answer goes out under it (`AnswerIsTracked` asks for a new container); a used `Result_container`
  grows by a default element with each result of a migration.
* A result's time measurement is written and never read.

## 8. What is left out

* **Keepalive, TLS, message ids, the limit of messages in flight, the flows of received
  messages** of the client library.
* **Steps that are one in the models and several in the library**: `mosquitto_publish` stores the
  message and queues its packet in one step (that it reads the message after unlocking the list is a
  use of freed memory in the worst case, which the models' values cannot show); a reconnect opens the
  socket and queues CONNECT in one step; `_mosquitto_loop_rc_handle` closes the socket and tests the
  state in one.
* **The result of `mosquitto_message_copy`**, which the code ignores; a copy is
  taken for complete. The destruction of a queue that still has copies.
* **Which code** the broker refuses with; every refusal is treated alike by the callback.
* **What a callback does**, except that it may change the map or throw.
* **Characters** that mean something in regular expressions, apart from `$`.
* **YAML syntax**: a document is a function from tags to values; a value is
  readable or not. Wording, formatting and logging.
* **The order of PCI devices in hash tables**, comparison of addresses and identifiers; the
  members of an **ivshmem device**, which is a value of a Start.
* **The constructor of `Optional` from a null pointer**: the Optional would be valid without a value.
  Nothing in the repository calls the constructor with a pointer, and the other constructors make the value themselves.
* **The tag "task"** of agent messages, which no `load` reads, and the precision of
  numbers: a value arrives as it was written.
* **A clock that goes back**, and two calls of `lib_init` in the same millisecond.
* **`Communicator`** (an abstract class without state), **Log** (output),
  **tests and examples** (read for what they promise), **vendored libraries**
  other than the parts of mosquitto above.

## 9. Plan

Done, in this order: the queue with its abstract mailbox; connection and client
library; map and dispatch; tasks, results and their exchange; sending with the library's
retransmission; the library's users; timers; agent messages; Optionals; PCI devices; for
each, the type invariant and the main safety properties, for most of them with proofs.

Then proofs of every invariant and action property of the passing runs.

Next, by weight:

1. An abstract specification of a session (what `is_connected`, `connect_to_broker`
   and subscriptions promise) that `Communicator` refines while nothing fails (`Calm`)
   and no disconnect has been overwritten, with the refinement proved from `CalmUnlessErased`.
2. Steps of the liveness properties that need no fairness: what `LonePromiseIsFair`, `QueueDrains` and
   `ConnectReturns` rest on as invariants (a thread that waits has a reason to be woken).
3. The queue's end: `mosquitto_message_copy` failing, copies left at destruction.
