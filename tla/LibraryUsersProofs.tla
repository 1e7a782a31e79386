------------------------- MODULE LibraryUsersProofs -------------------------
(***************************************************************************)
(* Proofs about LibraryUsers, for any number of processes, communicators   *)
(* and threads that construct and destroy them: the library is initialised *)
(* exactly while somebody uses it.                                         *)
(***************************************************************************)
EXTENDS LibraryUsers, Integers, FiniteSetTheorems, TLAPS

(* The counter counts the users, and those that failed to start. *)
CountIsExact ==
  \A p \in Processes :
    /\ ref_count[p] = Cardinality(Users(p)) + failed[p]
    /\ initialized[p] <=> ref_count[p] > 0

UsersInv == UsersTypeOK /\ CountIsExact

LEMMA UsersAreFinite ==
  ASSUME NEW p PROVE IsFiniteSet(Users(p)) /\ Cardinality(Users(p)) \in Nat
<1>1. IsFiniteSet(Users(p))
  BY CommunicatorsAssumption, FS_Subset DEF Users
<1> QED
  BY <1>1, FS_CardinalityType

LEMMA InvImplies == UsersInv => InitializedForUsers
<1> SUFFICES ASSUME UsersInv, NEW p \in Processes
             PROVE  initialized[p] <=> Users(p) # {} \/ failed[p] > 0
  BY DEF InitializedForUsers
<1>1. Users(p) = {} <=> Cardinality(Users(p)) = 0
  BY UsersAreFinite, FS_EmptySet
<1>2. ref_count[p] > 0 <=> Users(p) # {} \/ failed[p] > 0
  BY <1>1, UsersAreFinite DEF UsersInv, UsersTypeOK, CountIsExact
<1> QED
  BY <1>2 DEF UsersInv, CountIsExact

LEMMA InitUsers == UsersInit => UsersInv
<1> SUFFICES ASSUME UsersInit PROVE UsersInv
  OBVIOUS
<1>1. \A p : Users(p) = {}
  BY DEF UsersInit, Users
<1>2. UsersTypeOK
  BY MaxConstructionsAssumption DEF UsersInit, UsersTypeOK, Stages
<1>3. CountIsExact
  BY <1>1, FS_EmptySet DEF UsersInit, CountIsExact
<1> QED
  BY <1>2, <1>3 DEF UsersInv

(* The counters count on. *)
LEMMA Counting ==
  ASSUME NEW S, NEW f \in [S -> Nat], NEW x \in S
  PROVE  /\ [f EXCEPT ![x] = @ + 1] \in [S -> Nat]
         /\ [f EXCEPT ![x] = 0] \in [S -> Nat]
         /\ f[x] > 0 => [f EXCEPT ![x] = @ - 1] \in [S -> Nat]
  OBVIOUS

(* A step of c changes the users of c's process only, and only by c. *)
LEMMA UsersChange ==
  ASSUME UsersTypeOK, NEW c \in Communicators, NEW s \in Stages, Proceed(c, s),
         NEW p \in Processes
  PROVE  Users(p)' =
           IF ProcessOf[c] # p THEN Users(p)
           ELSE IF s \in {"counted", "running", "stopped"} THEN Users(p) \cup {c}
           ELSE Users(p) \ {c}
  BY DEF UsersTypeOK, Proceed, Users

(* Steps that neither enter nor leave the library. *)
LEMMA SameUsers ==
  ASSUME UsersInv, NEW c \in Communicators, NEW s \in Stages, Proceed(c, s),
         UNCHANGED <<ref_count, initialized, failed>>,
         (c \in Users(ProcessOf[c])) <=> s \in {"counted", "running", "stopped"}
  PROVE  CountIsExact'
<1>1. \A p \in Processes : Users(p)' = Users(p)
  BY UsersChange DEF UsersInv, Users
<1> QED
  BY <1>1 DEF UsersInv, CountIsExact

LEMMA NextUsers == UsersInv /\ [UsersNext]_userVars => UsersInv'
<1> SUFFICES ASSUME UsersInv, [UsersNext]_userVars PROVE UsersInv'
  OBVIOUS
<1>1. CASE UNCHANGED userVars
  BY <1>1 DEF userVars, UsersInv, UsersTypeOK, CountIsExact, Users
<1>2. ASSUME NEW c \in Communicators, ConstructBase(c) PROVE UsersInv'
  <2>1. UsersTypeOK'
    <3> DEFINE q == ProcessOf[c]
    <3>1. q \in Processes
      BY CommunicatorsAssumption
    <3>2. drawn' \in [Processes -> Nat]
      BY <1>2, <3>1, Counting DEF ConstructBase, UsersInv, UsersTypeOK
    <3>3. <<seed[q], drawn[q]>> \in Nat \X Nat
      BY <3>1 DEF UsersInv, UsersTypeOK
    <3>4. id' \in [Communicators -> Nat \X Nat]
      BY <1>2, <3>3 DEF ConstructBase, UsersInv, UsersTypeOK
    <3>5. constructions' \in 0..MaxConstructions
      BY <1>2, MaxConstructionsAssumption DEF ConstructBase, UsersInv, UsersTypeOK
    <3>6. stage' \in [Communicators -> Stages]
      BY <1>2 DEF ConstructBase, Proceed, UsersInv, UsersTypeOK, Stages
    <3> QED
      BY <1>2, <3>2, <3>4, <3>5, <3>6 DEF ConstructBase, UsersInv, UsersTypeOK
  <2>2. CountIsExact'
    BY <1>2, SameUsers DEF ConstructBase, Users, Stages
  <2> QED
    BY <2>1, <2>2 DEF UsersInv
<1>3. ASSUME NEW c \in Communicators, StartLoop(c) \/ StopLoop(c) PROVE UsersInv'
  <2>1. UsersTypeOK'
    BY <1>3 DEF StartLoop, StopLoop, Proceed, UsersInv, UsersTypeOK, Stages
  <2>2. c \in Users(ProcessOf[c])
    BY <1>3 DEF StartLoop, StopLoop, Users
  <2>3. CountIsExact'
    BY <1>3, <2>2, SameUsers DEF StartLoop, StopLoop, Stages
  <2> QED
    BY <2>1, <2>3 DEF UsersInv
<1>4. ASSUME NEW c \in Communicators, InitLib(c) PROVE UsersInv'
  <2> DEFINE q == ProcessOf[c]
  <2>1. q \in Processes /\ c \notin Users(q)
    BY <1>4, CommunicatorsAssumption DEF InitLib, CountUp, Users
  <2>2. UsersTypeOK'
    <3>1. ref_count' \in [Processes -> Nat] /\ seeds + 1 \in Nat
      BY <1>4, <2>1, Counting DEF InitLib, CountUp, UsersInv, UsersTypeOK
    <3>2. initialized' \in [Processes -> BOOLEAN]
      BY <1>4 DEF InitLib, CountUp, UsersInv, UsersTypeOK
    <3>3. seeds' \in Nat /\ seed' \in [Processes -> Nat] /\ drawn' \in [Processes -> Nat]
      <4>1. \/ UNCHANGED <<seed, drawn, seeds>>
            \/ /\ seeds' = seeds + 1
               /\ seed' = [seed EXCEPT ![q] = seeds + 1]
               /\ drawn' = [drawn EXCEPT ![q] = 0]
        BY <1>4 DEF InitLib, CountUp, SeedWithTime
      <4> HIDE DEF q
      <4>2. /\ seeds \in Nat
            /\ seed \in [Processes -> Nat] /\ drawn \in [Processes -> Nat]
        BY DEF UsersInv, UsersTypeOK
      <4>3. /\ [seed EXCEPT ![q] = seeds + 1] \in [Processes -> Nat]
            /\ [drawn EXCEPT ![q] = 0] \in [Processes -> Nat]
        BY <2>1, <3>1, <4>2, Counting
      <4> QED
        BY <3>1, <4>1, <4>2, <4>3
    <3>4. stage' \in [Communicators -> Stages]
      BY <1>4 DEF InitLib, CountUp, Proceed, UsersInv, UsersTypeOK, Stages
    <3> QED
      BY <1>4, <3>1, <3>2, <3>3, <3>4 DEF InitLib, CountUp, UsersInv, UsersTypeOK
  <2>3. \A p \in Processes : Users(p)' = IF q # p THEN Users(p) ELSE Users(p) \cup {c}
    BY <1>4, UsersChange DEF InitLib, CountUp, UsersInv, Stages
  <2>4. Cardinality(Users(q) \cup {c}) = Cardinality(Users(q)) + 1
    BY <2>1, UsersAreFinite, FS_AddElement
  <2>5. CountIsExact'
    <3>1. /\ failed' = failed
          /\ ref_count' = [ref_count EXCEPT ![q] = @ + 1]
          /\ initialized' = [initialized EXCEPT ![q] = TRUE] \/ initialized' = initialized
          /\ ref_count[q] = 0 => initialized' = [initialized EXCEPT ![q] = TRUE]
      BY <1>4 DEF InitLib, CountUp
    <3> HIDE DEF q
    <3>2. \A p \in Processes : ref_count'[p] = Cardinality(Users(p)') + failed'[p]
      <4> TAKE p \in Processes
      <4>1. ref_count[p] = Cardinality(Users(p)) + failed[p]
        BY DEF UsersInv, CountIsExact
      <4>2. ref_count[p] \in Nat /\ failed[p] \in Nat
        BY DEF UsersInv, UsersTypeOK
      <4>3. CASE p = q
        <5>1. ref_count'[q] = ref_count[q] + 1 /\ failed'[q] = failed[q]
          BY <2>1, <3>1 DEF UsersInv, UsersTypeOK
        <5>2. Cardinality(Users(q)') = Cardinality(Users(q)) + 1
          BY <2>1, <2>3, <2>4
        <5> QED
          BY <4>1, <4>2, <4>3, <5>1, <5>2, UsersAreFinite
      <4>4. CASE p # q
        BY <4>1, <4>2, <4>4, <3>1, <2>3 DEF UsersInv, UsersTypeOK
      <4> QED
        BY <4>3, <4>4
    <3>3. \A p \in Processes : ref_count'[p] > 0 <=> p = q \/ ref_count[p] > 0
      BY <2>1, <3>1 DEF UsersInv, UsersTypeOK
    <3>4. ref_count[q] > 0 \/ ref_count[q] = 0
      BY <2>1 DEF UsersInv, UsersTypeOK
    <3>5. \A p \in Processes : initialized'[p] <=> p = q \/ initialized[p]
      BY <2>1, <3>1, <3>4 DEF UsersInv, UsersTypeOK, CountIsExact
    <3> QED
      BY <3>2, <3>3, <3>5 DEF UsersInv, CountIsExact
  <2> QED
    BY <2>2, <2>5 DEF UsersInv
<1>5. ASSUME NEW c \in Communicators, StartFails(c) \/ CleanupLib(c) PROVE UsersInv'
  <2> DEFINE q == ProcessOf[c]
  <2>1. q \in Processes /\ c \in Users(q)
    BY <1>5, CommunicatorsAssumption DEF StartFails, CleanupLib, Users
  <2>2. \A p \in Processes : Users(p)' = IF q # p THEN Users(p) ELSE Users(p) \ {c}
    BY <1>5, UsersChange DEF StartFails, CleanupLib, UsersInv, Stages
  <2>3. /\ Cardinality(Users(q) \ {c}) = Cardinality(Users(q)) - 1
        /\ Cardinality(Users(q)) > 0
    BY <2>1, UsersAreFinite, FS_RemoveElement, FS_EmptySet
  <2>4. ref_count[q] > 0
    BY <2>1, <2>3, UsersAreFinite DEF UsersInv, UsersTypeOK, CountIsExact
  <2>5. UsersTypeOK'
    <3>1. ref_count' \in [Processes -> Nat] /\ failed' \in [Processes -> Nat]
      <4>1. /\ ref_count' = ref_count \/ ref_count' = [ref_count EXCEPT ![q] = @ - 1]
            /\ failed' = failed \/ failed' = [failed EXCEPT ![q] = @ + 1]
        BY <1>5 DEF StartFails, CleanupLib
      <4> HIDE DEF q
      <4>2. ref_count \in [Processes -> Nat] /\ failed \in [Processes -> Nat]
        BY DEF UsersInv, UsersTypeOK
      <4>3. /\ [ref_count EXCEPT ![q] = @ - 1] \in [Processes -> Nat]
            /\ [failed EXCEPT ![q] = @ + 1] \in [Processes -> Nat]
        BY <2>1, <2>4, <4>2, Counting
      <4> QED
        BY <4>1, <4>2, <4>3
    <3>2. initialized' \in [Processes -> BOOLEAN]
      BY <1>5 DEF StartFails, CleanupLib, UsersInv, UsersTypeOK
    <3>3. stage' \in [Communicators -> Stages]
      BY <1>5 DEF StartFails, CleanupLib, Proceed, UsersInv, UsersTypeOK, Stages
    <3> QED
      BY <1>5, <3>1, <3>2, <3>3 DEF StartFails, CleanupLib, UsersInv, UsersTypeOK
  <2>6. CASE StartFails(c)
    <3>1. UNCHANGED <<ref_count, initialized>> /\ failed' = [failed EXCEPT ![q] = @ + 1]
      BY <2>6 DEF StartFails
    <3>2. CountIsExact'
      <4> HIDE DEF q
      <4>1. \A p \in Processes : ref_count'[p] = Cardinality(Users(p)') + failed'[p]
        <5> TAKE p \in Processes
        <5>1. ref_count[p] = Cardinality(Users(p)) + failed[p]
          BY DEF UsersInv, CountIsExact
        <5>2. ref_count[p] \in Nat /\ failed[p] \in Nat
          BY DEF UsersInv, UsersTypeOK
        <5>3. CASE p = q
          <6>1. ref_count'[q] = ref_count[q]  /\ failed'[q] = failed[q] + 1
            BY <2>1, <3>1 DEF UsersInv, UsersTypeOK
          <6>2. Cardinality(Users(q)') = Cardinality(Users(q)) - 1
            BY <2>1, <2>2, <2>3
          <6> QED
            BY <5>1, <5>2, <5>3, <6>1, <6>2, UsersAreFinite
        <5>4. CASE p # q
          BY <5>1, <5>2, <5>4, <3>1, <2>2 DEF UsersInv, UsersTypeOK
        <5> QED
          BY <5>3, <5>4
      <4> QED
        BY <3>1, <4>1 DEF UsersInv, UsersTypeOK, CountIsExact
    <3> QED
      BY <2>5, <3>2 DEF UsersInv
  <2>7. CASE CleanupLib(c)
    <3>1. /\ failed' = failed
          /\ ref_count' = [ref_count EXCEPT ![q] = @ - 1]
          /\ initialized' = [initialized EXCEPT ![q] = IF ref_count[q] = 1 THEN FALSE ELSE @]
      BY <2>7 DEF CleanupLib, LastUser
    <3>2. CountIsExact'
      <4> HIDE DEF q
      <4>1. \A p \in Processes : ref_count'[p] = Cardinality(Users(p)') + failed'[p]
        <5> TAKE p \in Processes
        <5>1. ref_count[p] = Cardinality(Users(p)) + failed[p]
          BY DEF UsersInv, CountIsExact
        <5>2. ref_count[p] \in Nat /\ failed[p] \in Nat
          BY DEF UsersInv, UsersTypeOK
        <5>3. CASE p = q
          <6>1. ref_count'[q] = ref_count[q] - 1 /\ failed'[q] = failed[q]
            BY <2>1, <3>1 DEF UsersInv, UsersTypeOK
          <6>2. Cardinality(Users(q)') = Cardinality(Users(q)) - 1
            BY <2>1, <2>2, <2>3
          <6> QED
            BY <5>1, <5>2, <5>3, <6>1, <6>2, UsersAreFinite
        <5>4. CASE p # q
          BY <5>1, <5>2, <5>4, <3>1, <2>2 DEF UsersInv, UsersTypeOK
        <5> QED
          BY <5>3, <5>4
      <4>2. \A p \in Processes :
               ref_count'[p] > 0 <=> ref_count[p] > 0 /\ ~(p = q /\ ref_count[p] = 1)
        BY <2>1, <2>4, <3>1 DEF UsersInv, UsersTypeOK
      <4>3. \A p \in Processes :
               initialized'[p] <=> initialized[p] /\ ~(p = q /\ ref_count[p] = 1)
        BY <2>1, <3>1 DEF UsersInv, UsersTypeOK
      <4> QED
        BY <4>1, <4>2, <4>3 DEF UsersInv, CountIsExact
    <3> QED
      BY <2>5, <3>2 DEF UsersInv
  <2> QED
    BY <1>5, <2>6, <2>7
<1> QED
  BY <1>1, <1>2, <1>3, <1>4, <1>5 DEF UsersNext

(* Communicators that are constructed and destroyed by several threads     *)
(* never take the library from one another, and the last one cleans it up, *)
(* unless the loop of one could not be started (init_mosq_lib,             *)
(* cleanup_mosq_lib, constructor and destructor).                          *)
THEOREM LibraryIsThere == UsersSpec => []InitializedForUsers
  BY InitUsers, NextUsers, InvImplies, PTL DEF UsersSpec
=============================================================================
