---------------------------- MODULE LibraryUsers ----------------------------
(***************************************************************************)
(* The communicators of several processes as users of libmosquitto:        *)
(* constructors and destructors, run by as many threads as one likes, and  *)
(* the counter under ref_count_mutex by which init_mosq_lib and            *)
(* cleanup_mosq_lib initialise the library and clean it up.                *)
(*                                                                         *)
(* The base class mosquittopp is constructed before the body of the        *)
(* constructor runs: a communicator whose id is empty has drawn a random   *)
(* one before it calls init_mosq_lib, and it is lib_init that seeds the    *)
(* generator.  An id is the seed in use and the number of ids drawn from   *)
(* it; every process begins with the same seed, 0.                         *)
(***************************************************************************)
EXTENDS Naturals, FiniteSets

CONSTANTS
    Processes,
    Communicators,     \* those that may be constructed; they have no id
    ProcessOf,         \* ProcessOf[c]: the process c belongs to
    MaxConstructions   \* bound: how often a constructor is called

ASSUME CommunicatorsAssumption ==
    IsFiniteSet(Communicators) /\ ProcessOf \in [Communicators -> Processes]
ASSUME MaxConstructionsAssumption == MaxConstructions \in Nat

VARIABLES
    stage,         \* stage[c]: how far c's constructor or destructor is
    ref_count,     \* ref_count[p]: the counter of process p
    initialized,   \* initialized[p]: between lib_init and lib_cleanup
    seed,          \* seed[p]: the argument of p's last srand
    drawn,         \* drawn[p]: ids drawn since
    id,            \* id[c]: the id c has drawn
    seeds,         \* history: how many seeds have been used
    failed,        \* history, failed[p]: constructors that could not start the loop
    constructions  \* history: how many constructors have been called

userVars ==
    <<stage, ref_count, initialized, seed, drawn, id, seeds, failed, constructions>>

(* "based": the base class is constructed.  "counted": init_mosq_lib has    *)
(* returned.  "running": the loop is started; the communicator is used, or *)
(* is to be destroyed, which it is too when a constructor that also        *)
(* connects throws.  "stopped": in the destructor, after stop_mosq_loop.   *)
Stages == {"none", "based", "counted", "running", "stopped"}

UsersTypeOK ==
    /\ stage \in [Communicators -> Stages]
    /\ ref_count \in [Processes -> Nat]
    /\ initialized \in [Processes -> BOOLEAN]
    /\ seed \in [Processes -> Nat]
    /\ drawn \in [Processes -> Nat]
    /\ id \in [Communicators -> Nat \X Nat]
    /\ seeds \in Nat
    /\ failed \in [Processes -> Nat]
    /\ constructions \in 0..MaxConstructions

UsersInit ==
    /\ stage = [c \in Communicators |-> "none"]
    /\ ref_count = [p \in Processes |-> 0]
    /\ initialized = [p \in Processes |-> FALSE]
    /\ seed = [p \in Processes |-> 0]
    /\ drawn = [p \in Processes |-> 0]
    /\ id = [c \in Communicators |-> <<0, 0>>]
    /\ seeds = 0
    /\ failed = [p \in Processes |-> 0]
    /\ constructions = 0

Proceed(c, s) == stage' = [stage EXCEPT ![c] = s]

(* mosquitto_new, called by the base class. *)
ConstructBase(c) ==
    LET p == ProcessOf[c]
    IN  /\ stage[c] = "none" /\ constructions < MaxConstructions
        /\ constructions' = constructions + 1
        /\ id' = [id EXCEPT ![c] = <<seed[p], drawn[p]>>]
        /\ drawn' = [drawn EXCEPT ![p] = @ + 1]
        /\ Proceed(c, "based")
        /\ UNCHANGED <<ref_count, initialized, seed, seeds, failed>>

(* srand with the time of day, which is taken to be another every time.    *)
SeedWithTime(p) ==
    /\ seeds' = seeds + 1
    /\ seed' = [seed EXCEPT ![p] = seeds + 1]
    /\ drawn' = [drawn EXCEPT ![p] = 0]

CountUp(p) == ref_count' = [ref_count EXCEPT ![p] = @ + 1]

(* init_mosq_lib. *)
InitLib(c) ==
    LET p == ProcessOf[c]
    IN  /\ stage[c] = "based"
        /\ CountUp(p)
        /\ IF ref_count[p] = 0
           THEN initialized' = [initialized EXCEPT ![p] = TRUE] /\ SeedWithTime(p)
           ELSE UNCHANGED <<initialized, seed, drawn, seeds>>
        /\ Proceed(c, "counted")
        /\ UNCHANGED <<id, failed, constructions>>

StartLoop(c) ==
    /\ stage[c] = "counted"
    /\ Proceed(c, "running")
    /\ UNCHANGED <<ref_count, initialized, seed, drawn, id, seeds, failed, constructions>>

(* start_mosq_loop throws: only the base class is destroyed, nobody counts *)
(* the communicator down.                                                  *)
StartFails(c) ==
    LET p == ProcessOf[c]
    IN  /\ stage[c] = "counted"
        /\ failed' = [failed EXCEPT ![p] = @ + 1]
        /\ Proceed(c, "none")
        /\ UNCHANGED <<ref_count, initialized, seed, drawn, id, seeds, constructions>>

(* The destructor up to stop_mosq_loop. *)
StopLoop(c) ==
    /\ stage[c] = "running"
    /\ Proceed(c, "stopped")
    /\ UNCHANGED <<ref_count, initialized, seed, drawn, id, seeds, failed, constructions>>

(* Fault: the last but one is taken for the last. *)
LastButOne(p) == ref_count[p] <= 2

LastUser(p) == ref_count[p] = 1

(* cleanup_mosq_lib; the base class is destroyed after it. *)
CleanupLib(c) ==
    LET p == ProcessOf[c]
    IN  /\ stage[c] = "stopped"
        /\ ref_count' = [ref_count EXCEPT ![p] = @ - 1]
        /\ initialized' = [initialized EXCEPT ![p] = IF LastUser(p) THEN FALSE ELSE @]
        /\ Proceed(c, "none")
        /\ UNCHANGED <<seed, drawn, id, seeds, failed, constructions>>

UsersNext ==
    \E c \in Communicators :
        \/ ConstructBase(c)
        \/ InitLib(c)
        \/ StartLoop(c)
        \/ StartFails(c)
        \/ StopLoop(c)
        \/ CleanupLib(c)

UsersSpec == UsersInit /\ [][UsersNext]_userVars

-----------------------------------------------------------------------------
(* "mosquitto library is only cleaned up, if this is the last              *)
(* MQTT_communicator instance": it is initialised exactly while somebody   *)
(* is between init_mosq_lib and cleanup_mosq_lib, whoever constructs and   *)
(* destroys communicators at the same time - or for good, once the loop of *)
(* one could not be started.                                               *)
Users(p) ==
    {c \in Communicators : ProcessOf[c] = p /\ stage[c] \in {"counted", "running", "stopped"}}

InitializedForUsers ==
    \A p \in Processes : initialized[p] <=> Users(p) # {} \/ failed[p] > 0

(* The id "must be unique, so the broker can identify this client": the    *)
(* broker closes the connection of a client when another one connects with *)
(* the same id.                                                            *)
IdsAreUnique ==
    \A c, d \in Communicators :
        c # d /\ stage[c] = "running" /\ stage[d] = "running" => id[c] # id[d]
=============================================================================
