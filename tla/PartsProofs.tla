---------------------------- MODULE PartsProofs ----------------------------
(***************************************************************************)
(* Proofs about Timers and PciDevices, and about MCParts: a behaviour of   *)
(* its specification is one of every part, so that it has the properties   *)
(* that are proved of the parts.                                           *)
(*                                                                         *)
(* Timers: for any names, any length of time and any delay between two     *)
(* readings of the clock, what a timer shows is the time it has been       *)
(* running, and what has been measured stays as it is.  PciDevices: for    *)
(* every number of 16 bits and every text somebody types, of any length.   *)
(***************************************************************************)
EXTENDS MCParts, ExchangeProofs, LibraryUsersProofs, OptionalProofs, WellFoundedInduction, TLAPS

-----------------------------------------------------------------------------
(* Timers                                                                  *)

(* The history variables count time, and the watch is a timer. *)
WatchTypeOK ==
  /\ now \in Nat
  /\ watch \in Timer
  /\ ran \in Nat /\ blur \in Nat

WatchInv == WatchTypeOK /\ ElapsedIsRunTime

LEMMA InitWatch == TimersInit => WatchInv
  BY DEF TimersInit, WatchInv, WatchTypeOK, ElapsedIsRunTime, NewTimer, Timer, Elapsed

(* What the operations of a timer do to what it shows. *)
LEMMA TimerOperations ==
  ASSUME NEW w \in Timer, NEW t \in Int, NEW u \in Int
  PROVE  /\ Start(w, t) \in Timer /\ Elapsed(Start(w, t), u) = u - t
         /\ Stop(w, t) \in Timer /\ Elapsed(Stop(w, t), u) = Elapsed(w, t)
         /\ Resume(w, t, u) \in Timer
         /\ \A v \in Int : Elapsed(Resume(w, t, u), v) = v - t + Elapsed(w, u)
<1>1. Start(w, t) \in Timer /\ Elapsed(Start(w, t), u) = u - t
  BY DEF Timer, Start, Elapsed
<1>2. Stop(w, t) \in Timer /\ Elapsed(Stop(w, t), u) = Elapsed(w, t)
  BY DEF Timer, Stop, Elapsed
<1>3. Elapsed(w, u) \in Int
  BY DEF Timer, Elapsed
<1>4. /\ Resume(w, t, u) \in Timer
      /\ Resume(w, t, u).start = t - Elapsed(w, u)
      /\ Resume(w, t, u).stopped = FALSE
  BY <1>3 DEF Resume, Timer
<1>5. ASSUME NEW v \in Int PROVE Elapsed(Resume(w, t, u), v) = v - t + Elapsed(w, u)
  <2>1. Elapsed(Resume(w, t, u), v) = v - (t - Elapsed(w, u))
    BY <1>4 DEF Elapsed
  <2> QED
    BY <1>3, <2>1
<1> QED
  BY <1>1, <1>2, <1>4, <1>5

LEMMA NextWatch == WatchInv /\ [TimersNext]_timerVars => WatchInv'
<1> SUFFICES ASSUME WatchInv, [TimersNext]_timerVars PROVE WatchInv'
  OBVIOUS
<1>0. now \in Int /\ watch \in Timer /\ ran \in Nat /\ blur \in Nat
  BY DEF WatchInv, WatchTypeOK
<1>e. Elapsed(watch, now) \in Int /\ Elapsed(watch, now) - ran \in (-blur)..blur
  BY <1>0 DEF WatchInv, ElapsedIsRunTime, Elapsed, Timer
<1>1. CASE TimePasses
  <2>1. Elapsed(watch, now + 1) =
          IF watch.stopped THEN Elapsed(watch, now) ELSE Elapsed(watch, now) + 1
    BY <1>0 DEF Elapsed, Timer
  <2> QED
    BY <1>1, <1>0, <1>e, <2>1 DEF TimePasses, WatchInv, WatchTypeOK, ElapsedIsRunTime
<1>2. CASE StartWatch
  <2>1. Elapsed(watch', now') = 0
    BY <1>2, <1>0, TimerOperations DEF StartWatch
  <2> QED
    BY <1>2, <1>0, <2>1, TimerOperations
       DEF StartWatch, WatchInv, WatchTypeOK, ElapsedIsRunTime
<1>3. CASE StopWatch
  BY <1>3, <1>0, <1>e, TimerOperations
     DEF StopWatch, WatchInv, WatchTypeOK, ElapsedIsRunTime
<1>4. CASE ResumeStopped
  <2>1. Elapsed(watch', now') = Elapsed(watch, now)
    BY <1>4, <1>0, <1>e, TimerOperations DEF ResumeStopped
  <2> QED
    BY <1>4, <1>0, <1>e, <2>1, TimerOperations
       DEF ResumeStopped, WatchInv, WatchTypeOK, ElapsedIsRunTime
<1>5. ASSUME NEW delay \in 0..MaxDelay, ResumeRunning(delay) PROVE WatchInv'
  <2>1. delay \in Nat /\ now' = now + delay /\ now' \in Nat
    BY <1>5, <1>0 DEF ResumeRunning, WatchInv, WatchTypeOK
  <2>2. ran' = ran + delay /\ blur' = blur + delay /\ ran' \in Nat /\ blur' \in Nat
    BY <1>5, <1>0, <2>1 DEF ResumeRunning
  <2>3. Elapsed(watch, now') = Elapsed(watch, now) + delay
    BY <1>5, <1>0, <2>1 DEF ResumeRunning, Elapsed, Timer
  <2>4. CASE watch' = Resume(watch, now, now')
    <3>1. watch' \in Timer /\ Elapsed(watch', now') = now' - now + Elapsed(watch, now')
      BY <1>0, <2>1, <2>4, TimerOperations
    <3> QED
      BY <1>e, <2>1, <2>2, <2>3, <3>1, <1>0 DEF WatchInv, WatchTypeOK, ElapsedIsRunTime
  <2>5. CASE watch' = Resume(watch, now', now)
    <3>1. watch' \in Timer /\ Elapsed(watch', now') = now' - now' + Elapsed(watch, now)
      BY <1>0, <2>1, <2>5, TimerOperations
    <3> QED
      BY <1>e, <2>1, <2>2, <3>1, <1>0 DEF WatchInv, WatchTypeOK, ElapsedIsRunTime
  <2> QED
    BY <1>5, <2>4, <2>5 DEF ResumeRunning
<1>6. CASE UNCHANGED <<now, watch, ran, blur>>
  BY <1>6 DEF WatchInv, WatchTypeOK, ElapsedIsRunTime
<1>7. \A n \in TimerNames : Tick(n) \/ Tock(n) => UNCHANGED <<now, watch, ran, blur>>
  BY DEF Tick, Tock
<1> QED
  BY <1>1, <1>2, <1>3, <1>4, <1>5, <1>6, <1>7 DEF TimersNext, timerVars

(* What has been measured was measured since the clock began. *)
LEMMA InitTimersType == TimersInit => TimersTypeOK
  BY TimeAssumption DEF TimersInit, TimersTypeOK, NewTimer, Timer

LEMMA NextTimersType == TimersTypeOK /\ [TimersNext]_timerVars => TimersTypeOK'
<1> SUFFICES ASSUME TimersTypeOK, [TimersNext]_timerVars PROVE TimersTypeOK'
  OBVIOUS
<1>0. /\ now \in 0..MaxTime /\ now \in Int /\ MaxTime \in Nat /\ watch \in Timer
      /\ ran \in Nat /\ blur \in Nat /\ enabled \in BOOLEAN
      /\ DOMAIN timers \subseteq TimerNames /\ timers \in [DOMAIN timers -> Timer]
      /\ \A n \in DOMAIN timers : timers[n] \in Timer /\ Elapsed(timers[n], now) \in 0..now
  BY TimeAssumption DEF TimersTypeOK
(* Later a timer shows as much or more, but never more than there was. *)
<1>t. ASSUME NEW t \in Timer, Elapsed(t, now) \in 0..now, NEW later \in 0..MaxTime, now <= later
      PROVE  Elapsed(t, later) \in 0..later
  BY <1>0, <1>t DEF Elapsed, Timer
<1>1. CASE TimePasses
  <2>1. now' \in 0..MaxTime /\ now <= now' /\ ran' \in Nat
    BY <1>0, <1>1 DEF TimePasses
  <2>2. UNCHANGED <<enabled, timers, watch, blur>>
    BY <1>1 DEF TimePasses
  <2>3. \A n \in DOMAIN timers : Elapsed(timers[n], now') \in 0..now'
    BY <1>0, <1>t, <2>1
  <2> QED
    BY <1>0, <2>1, <2>2, <2>3 DEF TimersTypeOK
<1>2. CASE StartWatch \/ StopWatch \/ ResumeStopped
  <2>1. watch' \in Timer
    BY <1>0, <1>2, TimerOperations DEF StartWatch, StopWatch, ResumeStopped
  <2>2. ran' \in Nat /\ blur' \in Nat /\ UNCHANGED <<now, enabled, timers>>
    BY <1>0, <1>2 DEF StartWatch, StopWatch, ResumeStopped
  <2> QED
    BY <1>0, <2>1, <2>2 DEF TimersTypeOK
<1>3. ASSUME NEW delay \in 0..MaxDelay, ResumeRunning(delay) PROVE TimersTypeOK'
  <2>1. now' \in 0..MaxTime /\ now' \in Int /\ now <= now' /\ ran' \in Nat /\ blur' \in Nat
    BY <1>0, <1>3, TimeAssumption DEF ResumeRunning
  <2>2. UNCHANGED <<enabled, timers>> /\ watch' \in {Resume(watch, now, now'), Resume(watch, now', now)}
    BY <1>3 DEF ResumeRunning
  <2>3. watch' \in Timer
    BY <1>0, <2>1, <2>2, TimerOperations
  <2>4. \A n \in DOMAIN timers : Elapsed(timers[n], now') \in 0..now'
    BY <1>0, <1>t, <2>1
  <2> QED
    BY <1>0, <2>1, <2>2, <2>3, <2>4 DEF TimersTypeOK
<1>4. ASSUME NEW n \in TimerNames, Tick(n) PROVE TimersTypeOK'
  <2>1. /\ timers' = [m \in DOMAIN timers \cup {n} |-> IF m = n THEN NewTimer(now) ELSE timers[m]]
        /\ UNCHANGED <<now, enabled, watch, ran, blur>>
    BY <1>4 DEF Tick
  <2>2. NewTimer(now) \in Timer /\ Elapsed(NewTimer(now), now) \in 0..now
    BY <1>0 DEF NewTimer, Timer, Elapsed
  <2>3. /\ DOMAIN timers' = DOMAIN timers \cup {n}
        /\ \A m \in DOMAIN timers' : timers'[m] \in Timer /\ Elapsed(timers'[m], now) \in 0..now
    BY <1>0, <2>1, <2>2
  <2>4. timers' \in [DOMAIN timers' -> Timer] /\ DOMAIN timers' \subseteq TimerNames
    BY <1>0, <2>1, <2>3
  <2> QED
    BY <1>0, <2>1, <2>3, <2>4 DEF TimersTypeOK
<1>5. ASSUME NEW n \in TimerNames, Tock(n) PROVE TimersTypeOK'
  <2>1. /\ n \in DOMAIN timers /\ timers' = [timers EXCEPT ![n] = Stop(@, now)]
        /\ UNCHANGED <<now, enabled, watch, ran, blur>>
    BY <1>5 DEF Tock
  <2>2. Stop(timers[n], now) \in Timer /\ Elapsed(Stop(timers[n], now), now) \in 0..now
    BY <1>0, <2>1, TimerOperations
  <2>3. /\ DOMAIN timers' = DOMAIN timers
        /\ \A m \in DOMAIN timers' : timers'[m] \in Timer /\ Elapsed(timers'[m], now) \in 0..now
    BY <1>0, <2>1, <2>2
  <2>4. timers' \in [DOMAIN timers' -> Timer]
    BY <1>0, <2>1, <2>3
  <2> QED
    BY <1>0, <2>1, <2>3, <2>4 DEF TimersTypeOK
<1>6. CASE UNCHANGED timerVars
  BY <1>6 DEF timerVars, TimersTypeOK
<1> QED
  BY <1>1, <1>2, <1>3, <1>4, <1>5, <1>6 DEF TimersNext

(* No measured time is negative or longer than there was time              *)
(* (Timer::elapsed, Time_measurement).                                     *)
THEOREM TimersTypeCorrect == TimersSpec => []TimersTypeOK
  BY InitTimersType, NextTimersType, PTL DEF TimersSpec

(* A timer shows the time it has been running, but for the time that       *)
(* passes between two readings when a running timer is resumed             *)
(* (Timer::elapsed, start, stop, resume).                                  *)
THEOREM StopWatchIsRight == TimersSpec => []ElapsedIsRunTime
<1>1. WatchInv => ElapsedIsRunTime
  BY DEF WatchInv
<1> QED
  BY InitWatch, NextWatch, <1>1, PTL DEF TimersSpec

(* What is written for a stopped timer does not depend on the time. *)
LEMMA StoppedAlone ==
  ASSUME NEW n \in DOMAIN timers, timers[n].stopped,
         n \in DOMAIN timers', timers'[n] = timers[n]
  PROVE  Emitted'[n] = Emitted[n]
  BY DEF Emitted, Formatted, Elapsed

(* A task's measurements are final once their tock() has been called       *)
(* (Time_measurement::tick, tock and emit).                                *)
THEOREM MeasurementsAreFinal == TimersSpec => MeasuredOnce
<1> DEFINE Final == \A n \in DOMAIN timers :
                       /\ n \in DOMAIN timers'
                       /\ timers[n].stopped => Emitted'[n] = Emitted[n]
<1>1. ASSUME [TimersNext]_timerVars PROVE Final
  <2>1. CASE timers' = timers
    BY <2>1, StoppedAlone
  <2>2. ASSUME NEW n \in TimerNames, Tick(n) PROVE Final
    <3>1. ASSUME NEW m \in DOMAIN timers
          PROVE  m \in DOMAIN timers' /\ timers'[m] = timers[m]
      BY <2>2 DEF Tick
    <3> QED
      BY <3>1, StoppedAlone
  <2>3. ASSUME NEW n \in TimerNames, Tock(n) PROVE Final
    <3>1. ASSUME NEW m \in DOMAIN timers
          PROVE  /\ m \in DOMAIN timers'
                 /\ timers[m].stopped => timers'[m] = timers[m]
      BY <2>3 DEF Tock, Stop
    <3> QED
      BY <3>1, StoppedAlone
  <2>4. \/ timers' = timers
        \/ \E n \in TimerNames : Tick(n) \/ Tock(n)
    BY <1>1 DEF TimersNext, timerVars, TimePasses, StartWatch, StopWatch, ResumeStopped,
                ResumeRunning
  <2> HIDE DEF Final
  <2> QED
    BY <2>1, <2>2, <2>3, <2>4
<1>2. [TimersNext]_timerVars => [Final]_timerVars
  BY <1>1
<1>3. MeasuredOnce <=> [][Final]_timerVars
  BY DEF MeasuredOnce
<1> QED
  BY <1>2, <1>3, PTL DEF TimersSpec

-----------------------------------------------------------------------------
(* The number of a text, for digits in any number.                         *)

(* The one use of induction: a set of natural numbers has a least one. *)
LEMMA LeastNumber ==
  ASSUME NEW T \in SUBSET Nat, T # {}
  PROVE  \E n \in T : \A m \in T : ~(m < n)
<1>1. IsWellFoundedOn(OpToRel(<,Nat), Nat)
  BY NatLessThanWellFounded
<1>2. PICK x \in T : \A y \in T : ~ (<<y, x>> \in OpToRel(<,Nat))
  BY <1>1, WFMin, Zenon
<1>3. \A y \in T : y < x => <<y, x>> \in OpToRel(<,Nat)
  BY DEF OpToRel
<1> QED
  BY <1>2, <1>3

LEMMA LargestNumber ==
  ASSUME NEW L \in Nat, NEW T \in SUBSET (0..L), T # {}
  PROVE  Max(T) \in T /\ \A m \in T : Max(T) >= m
<1> DEFINE Left == {n \in 0..L : L - n \in T}
<1>1. PICK t \in T : TRUE
  OBVIOUS
<1>2. t \in Int /\ L - t \in 0..L /\ L - (L - t) = t
  OBVIOUS
<1>3. L - t \in Left
  BY <1>2
<1>4. Left \in SUBSET Nat
  OBVIOUS
<1>5. PICK n \in Left : \A m \in Left : ~(m < n)
  BY <1>3, <1>4, LeastNumber
<1>6. ASSUME NEW y \in T PROVE L - n >= y
  <2>1. y \in Int /\ L - y \in 0..L /\ L - (L - y) = y
    OBVIOUS
  <2>2. L - y \in Left
    BY <2>1
  <2>3. ~(L - y < n) /\ n \in 0..L
    BY <1>5, <2>2
  <2> QED
    BY <2>1, <2>3
<1> HIDE DEF Left
<1>7. L - n \in T
  BY <1>5 DEF Left
<1> QED
  BY <1>6, <1>7 DEF Max

IsText(text) == text.digits \in Seq(0..15) /\ text.hex \in BOOLEAN

LEMMA DigitsOfText ==
  ASSUME NEW text, IsText(text)
  PROVE  Len(text.digits) \in Nat /\ \A i \in 1..Len(text.digits) : text.digits[i] \in 0..15
<1> DEFINE s == text.digits
<1>1. s \in Seq(0..15)
  BY DEF IsText
<1> HIDE DEF s
<1>2. Len(s) \in Nat /\ \A i \in 1..Len(s) : s[i] \in 0..15
  BY <1>1
<1> QED
  BY <1>2 DEF s

LEMMA ReadLengthIs ==
  ASSUME NEW text, IsText(text), NEW base \in Nat
  PROVE  /\ ReadLength(text, base) \in 0..Len(text.digits)
         /\ \A i \in 1..ReadLength(text, base) : text.digits[i] < base
         /\ \A k \in 0..Len(text.digits) :
               (\A i \in 1..k : text.digits[i] < base) => ReadLength(text, base) >= k
<1> DEFINE T == {k \in 0..Len(text.digits) : \A i \in 1..k : text.digits[i] < base}
<1>1. Len(text.digits) \in Nat
  BY DigitsOfText
<1>2. 0 \in T
  BY <1>1
<1>3. Max(T) \in T /\ \A m \in T : Max(T) >= m
  BY <1>1, <1>2, LargestNumber
<1> QED
  BY <1>3 DEF ReadLength

(* number is what stoul computes, up to its m-th digit. *)
Reads(number, text, base, m) ==
  number = [k \in 0..m |-> IF k = 0 THEN 0 ELSE number[k - 1] * base + text.digits[k]]

LEMMA DigitAdded == \A i, j \in Nat, d \in 0..15 : i * j + d \in Nat
  OBVIOUS

LEMMA OneMoreDigit ==
  ASSUME NEW text, IsText(text), NEW base \in Nat, NEW m \in Nat, m < Len(text.digits),
         NEW f \in [0..m -> Nat], Reads(f, text, base, m)
  PROVE  \E g \in [0..(m + 1) -> Nat] : Reads(g, text, base, m + 1)
<1> DEFINE g == [k \in 0..(m + 1) |-> IF k = m + 1 THEN f[m] * base + text.digits[m + 1] ELSE f[k]]
<1>1. f[m] * base + text.digits[m + 1] \in Nat
  <2>1. text.digits[m + 1] \in 0..15
    <3>1. m + 1 \in 1..Len(text.digits)
      BY DigitsOfText
    <3> QED
      BY <3>1, DigitsOfText
  <2>2. f[m] \in Nat
    OBVIOUS
  <2> QED
    BY <2>1, <2>2, DigitAdded
<1>2. g \in [0..(m + 1) -> Nat]
  BY <1>1
<1>3. ASSUME NEW k \in 0..(m + 1)
      PROVE  g[k] = IF k = 0 THEN 0 ELSE g[k - 1] * base + text.digits[k]
  <2>1. CASE k = m + 1
    BY <2>1
  <2>2. CASE k \in 0..m
    <3>1. f[k] = IF k = 0 THEN 0 ELSE f[k - 1] * base + text.digits[k]
      BY <2>2 DEF Reads
    <3> QED
      BY <2>2, <3>1
  <2> QED
    BY <2>1, <2>2
<1> HIDE DEF g
<1>4. Reads(g, text, base, m + 1)
  BY <1>2, <1>3 DEF Reads
<1> QED
  BY <1>2, <1>4

LEMMA NumbersExist ==
  ASSUME NEW text, IsText(text), NEW base \in Nat, NEW m \in 0..Len(text.digits)
  PROVE  \E f \in [0..m -> Nat] : Reads(f, text, base, m)
<1> DEFINE T == {k \in 0..Len(text.digits) : ~\E f \in [0..k -> Nat] : Reads(f, text, base, k)}
<1>0. Len(text.digits) \in Nat
  BY DigitsOfText
<1>1. SUFFICES ASSUME T # {} PROVE FALSE
  BY DEF T
<1>2. PICK n \in T : \A k \in T : ~(k < n)
  <2>1. T \in SUBSET Nat
    BY <1>0
  <2> QED
    BY <1>1, <2>1, LeastNumber
<1>a. n \in 0..Len(text.digits) /\ ~\E f \in [0..n -> Nat] : Reads(f, text, base, n)
  BY <1>2
<1>3. CASE n = 0
  <2> DEFINE z == [k \in 0..0 |-> 0]
  <2>1. z \in [0..0 -> Nat] /\ Reads(z, text, base, 0)
    BY DEF Reads
  <2> QED
    BY <1>a, <1>3, <2>1
<1>4. CASE n # 0
  <2>1. /\ n - 1 \in Nat /\ n - 1 < Len(text.digits) /\ n - 1 \in 0..Len(text.digits)
        /\ n - 1 < n /\ n = (n - 1) + 1
    BY <1>0, <1>a, <1>4
  <2>2. n - 1 \notin T
    BY <1>2, <2>1
  <2>3. PICK f \in [0..(n - 1) -> Nat] : Reads(f, text, base, n - 1)
    BY <2>1, <2>2
  <2>4. \E g \in [0..((n - 1) + 1) -> Nat] : Reads(g, text, base, (n - 1) + 1)
    BY <2>1, <2>3, OneMoreDigit
  <2> QED
    BY <1>a, <2>1, <2>4
<1> QED
  BY <1>3, <1>4

LEMMA NumbersAreNatural ==
  ASSUME NEW text, IsText(text), NEW base \in Nat, NEW m \in 0..Len(text.digits),
         NEW f, Reads(f, text, base, m)
  PROVE  f \in [0..m -> Nat]
<1> DEFINE T == {k \in 0..m : f[k] \notin Nat}
<1>0. Len(text.digits) \in Nat /\ m \in Nat
  BY DEF IsText
<1>1. \A k \in 0..m : f[k] = IF k = 0 THEN 0 ELSE f[k - 1] * base + text.digits[k]
  BY DEF Reads
<1>2. T = {}
  <2> SUFFICES ASSUME T # {} PROVE FALSE
    OBVIOUS
  <2>1. PICK n \in T : \A k \in T : ~(k < n)
    <3>1. T \in SUBSET Nat
      BY <1>0
    <3> QED
      BY <3>1, LeastNumber
  <2>2. n \in 0..m /\ f[n] \notin Nat /\ n # 0
    BY <1>1, <2>1
  <2>3. n - 1 \in 0..m /\ n - 1 < n /\ n \in 1..Len(text.digits)
    BY <1>0, <2>2
  <2>4. n - 1 \notin T
    BY <2>1, <2>3
  <2>5. f[n - 1] \in Nat
    BY <2>3, <2>4
  <2>7. text.digits[n] \in 0..15
    BY <2>3, DigitsOfText
  <2> QED
    BY <1>1, <2>2, <2>5, <2>7, DigitAdded
<1> HIDE DEF T
<1>3. \A k \in 0..m : f[k] \in Nat
  BY <1>2 DEF T
<1> QED
  BY <1>3 DEF Reads

LEMMA StoulIs ==
  ASSUME NEW text, IsText(text), NEW base \in Nat
  PROVE  \E f \in [0..Len(text.digits) -> Nat] :
             /\ Reads(f, text, base, Len(text.digits))
             /\ Stoul(text, base) = f[ReadLength(text, base)]
<1> DEFINE f == CHOOSE g : Reads(g, text, base, Len(text.digits))
<1>1. Len(text.digits) \in 0..Len(text.digits)
  BY DEF IsText
<1>2. \E g : Reads(g, text, base, Len(text.digits))
  BY <1>1, NumbersExist
<1>3. Reads(f, text, base, Len(text.digits))
  BY <1>2
<1>4. f \in [0..Len(text.digits) -> Nat]
  BY <1>1, <1>3, NumbersAreNatural
<1>5. Stoul(text, base) = f[ReadLength(text, base)]
  BY DEF Stoul, Reads
<1> QED
  BY <1>3, <1>4, <1>5

(* What stoul reads is a number, whatever the text. *)
LEMMA StoulIsNatural ==
  ASSUME NEW text, IsText(text), NEW base \in Nat
  PROVE  Stoul(text, base) \in Nat
<1>1. ReadLength(text, base) \in 0..Len(text.digits)
  BY ReadLengthIs
<1>2. PICK f \in [0..Len(text.digits) -> Nat] : Stoul(text, base) = f[ReadLength(text, base)]
  BY StoulIs
<1> QED
  BY <1>1, <1>2

LEMMA ByTheBase ==
  ASSUME NEW n \in Nat
  PROVE  \E q \in Nat, r \in 0..15 : n = 16 * q + r
<1> DEFINE q == n \div 16   r == n % 16
<1>1. q \in Nat /\ r \in 0..15
  OBVIOUS
<1>2. \A i, j \in Int : i = n \div 16 /\ j = n % 16 => n = 16 * i + j
  OBVIOUS
<1>3. n = 16 * q + r
  BY <1>1, <1>2
<1> HIDE DEF q, r
<1> QED
  BY <1>1, <1>3

Divided(n, m, q, r) == n = m * q + r /\ q \in Nat /\ r \in 0..(m - 1)

LEMMA Quotient ==
  ASSUME NEW n \in Nat, NEW m \in {16, 256, 4096}, NEW q, NEW r, Divided(n, m, q, r)
  PROVE  n \div m = q
<1>1. CASE m = 16
  BY <1>1 DEF Divided
<1>2. CASE m = 256
  BY <1>2 DEF Divided
<1>3. CASE m = 4096
  BY <1>3 DEF Divided
<1> QED
  BY <1>1, <1>2, <1>3

OfDigits(a, b, c, d) == 4096 * a + 256 * b + 16 * c + d
Digit(n, m) == (n \div m) % 16

(* The digits to_hex_string writes of a number of 16 bits. *)
LEMMA FourDigits ==
  ASSUME NEW n \in Nat, n <= 65535
  PROVE  /\ \A m \in {1, 16, 256, 4096} : Digit(n, m) \in 0..15
         /\ n = OfDigits(Digit(n, 4096), Digit(n, 256), Digit(n, 16), Digit(n, 1))
<1>1. PICK q1 \in Nat, d4 \in 0..15 : n = 16 * q1 + d4
  BY ByTheBase
<1>2. PICK q2 \in Nat, d3 \in 0..15 : q1 = 16 * q2 + d3
  BY ByTheBase
<1>3. PICK d1 \in Nat, d2 \in 0..15 : q2 = 16 * d1 + d2
  BY ByTheBase
<1>4. n = 4096 * d1 + 256 * d2 + 16 * d3 + d4
  BY <1>1, <1>2, <1>3
<1>5. d1 \in 0..15
  BY <1>4
<1>6. Divided(n, 16, q1, d4)
  BY <1>1 DEF Divided
<1>12. Divided(n, 256, q2, 16 * d3 + d4)
  BY <1>1, <1>2 DEF Divided
<1>13. Divided(n, 4096, d1, 256 * d2 + 16 * d3 + d4)
  <2> DEFINE r == 256 * d2 + 16 * d3 + d4
  <2>1. r \in 0..(4096 - 1)
    BY SMT
  <2>2. n = 4096 * d1 + r
    BY <1>4, SMT
  <2> HIDE DEF r
  <2>3. Divided(n, 4096, d1, r)
    BY <2>1, <2>2, SMT DEF Divided
  <2> QED
    BY <2>3 DEF r
<1>7. n \div 16 = q1 /\ n \div 256 = q2 /\ n \div 4096 = d1
  BY <1>6, <1>12, <1>13, Quotient
<1>8. n \div 1 = n /\ n % 16 = d4 /\ q1 % 16 = d3 /\ q2 % 16 = d2 /\ d1 % 16 = d1
  BY <1>1, <1>2, <1>3, <1>5
<1>9. Digit(n, 4096) = d1 /\ Digit(n, 256) = d2 /\ Digit(n, 16) = d3 /\ Digit(n, 1) = d4
  BY <1>7, <1>8 DEF Digit
<1>10. \A m \in {1, 16, 256, 4096} : Digit(n, m) \in 0..15
  BY <1>5, <1>9
<1>11. n = OfDigits(Digit(n, 4096), Digit(n, 256), Digit(n, 16), Digit(n, 1))
  <2>1. n = OfDigits(d1, d2, d3, d4)
    BY <1>4 DEF OfDigits
  <2> QED
    BY <1>9, <2>1
<1> QED
  BY <1>10, <1>11

LEMMA SequenceIs ==
  ASSUME NEW S, NEW k \in Nat, NEW s \in [1..k -> S]
  PROVE  s \in Seq(S) /\ Len(s) = k
  OBVIOUS

LEMMA FourLong == \A s \in [1..4 -> 0..15] : s \in Seq(0..15) /\ Len(s) = 4
  BY SequenceIs

(* to_hex_string and stoul are inverse for numbers of 16 bits. *)
LEMMA HexDigitsRead ==
  ASSUME NEW n \in Word(16)
  PROVE  /\ IsText(ToHexString(n))
         /\ ~IdMemberThrows(ToHexString(n))
         /\ LoadIdMember(ToHexString(n)) = n
<1> DEFINE text == ToHexString(n)
           a == Digit(n, 4096)   b == Digit(n, 256)   c == Digit(n, 16)   d == Digit(n, 1)
<1>1. 2^16 = 65536 /\ 16^3 = 4096 /\ 16^2 = 256 /\ 16^1 = 16 /\ 16^0 = 1
  OBVIOUS
<1>2. n \in Nat /\ n <= 65535
  BY <1>1 DEF Word
<1>3. /\ a \in 0..15 /\ b \in 0..15 /\ c \in 0..15 /\ d \in 0..15
      /\ n = OfDigits(a, b, c, d)
  BY <1>2, FourDigits
<1>4. text.hex = TRUE /\ text.digits = [i \in 1..4 |-> (n \div 16^(4 - i)) % 16]
  BY DEF ToHexString, HexDigits
<1>5. /\ text.digits[1] = a /\ text.digits[2] = b /\ text.digits[3] = c /\ text.digits[4] = d
  BY <1>1, <1>2, <1>4 DEF Digit
<1> HIDE DEF text, a, b, c, d
<1>6. \A i \in 1..4 : text.digits[i] \in 0..15
  BY <1>3, <1>5
<1>7. IsText(text) /\ Len(text.digits) = 4
  <2>1. text.digits \in [1..4 -> 0..15]
    BY <1>4, <1>6
  <2>2. text.digits \in Seq(0..15) /\ Len(text.digits) = 4
    BY <2>1, FourLong
  <2>3. text.hex \in BOOLEAN
    BY <1>4
  <2> QED
    BY <2>2, <2>3 DEF IsText
<1>8. BaseOf(text) = 16
  BY <1>4 DEF BaseOf
<1>9. ReadLength(text, 16) = 4
  <2>1. \A i \in 1..4 : text.digits[i] < 16
    BY <1>6
  <2>2. 4 \in 0..Len(text.digits)
    BY <1>7
  <2>3. ReadLength(text, 16) >= 4
    BY <1>7, <2>1, <2>2, ReadLengthIs
  <2>4. ReadLength(text, 16) \in 0..4
    BY <1>7, ReadLengthIs
  <2> QED
    BY <2>3, <2>4
<1>10. PICK f \in [0..4 -> Nat] : Reads(f, text, 16, 4) /\ Stoul(text, 16) = f[4]
  BY <1>7, <1>9, StoulIs
<1>11. f[4] = n
  <2>1. \A k \in 0..4 : f[k] = IF k = 0 THEN 0 ELSE f[k - 1] * 16 + text.digits[k]
    BY <1>10 DEF Reads
  <2>2. /\ f[1] = f[0] * 16 + a /\ f[2] = f[1] * 16 + b
        /\ f[3] = f[2] * 16 + c /\ f[4] = f[3] * 16 + d
    BY <1>5, <2>1
  <2>3. f[0] = 0 /\ f[1] \in Nat /\ f[2] \in Nat /\ f[3] \in Nat /\ f[4] \in Nat
    BY <2>1
  <2>4. f[1] = a
    BY <1>3, <2>2, <2>3
  <2>5. f[2] = 16 * a + b
    BY <1>3, <2>2, <2>4
  <2>6. f[3] = 256 * a + 16 * b + c
    BY <1>3, <2>2, <2>5
  <2> QED
    BY <1>3, <2>2, <2>6 DEF OfDigits
<1>12. LoadIdMember(text) = n
  <2>1. LoadIdMember(text) = n % 65536
    BY <1>1, <1>8, <1>10, <1>11 DEF LoadIdMember, Narrowed
  <2> QED
    BY <1>2, <2>1
<1>13. ~IdMemberThrows(text)
  <2>1. 65535 <= UlongMax /\ UlongMax \in Nat
    BY <1>1, UlongAssumption
  <2>2. ~(Stoul(text, 16) > UlongMax)
    BY <1>2, <1>10, <1>11, <2>1
  <2> QED
    BY <1>4, <1>8, <2>2 DEF IdMemberThrows, StoulThrows
<1> QED
  BY <1>7, <1>12, <1>13 DEF text

-----------------------------------------------------------------------------
(* PCI_id and PCI_addr                                                     *)

IdTexts(doc) == IsText(doc.vendor) /\ IsText(doc.device)

AddrTexts(doc) ==
  doc.bus # NoText =>
    /\ IsText(doc.bus) /\ IsText(doc.device) /\ IsText(FunctText(doc))
    /\ doc.domain # NoText => IsText(doc.domain)

Identifiers == [vendor : Word(16), device : Word(16)]

(* What is under way was written by emit() or by hand, and alone. *)
PciUnderWay ==
  /\ pciLeg = "none" => written = NoDoc /\ idDoc = NoDoc /\ addrDoc = NoDoc
  /\ pciLeg = "id" =>
        /\ addrDoc = NoDoc
        /\ IdTexts(idDoc)
        /\ written # NoDoc => written \in Identifiers /\ idDoc = EmitId(written)
  /\ pciLeg = "address" => written = NoDoc /\ idDoc = NoDoc /\ AddrTexts(addrDoc)

PciInv == PciTypeOK /\ PciUnderWay /\ IdsArrive /\ AddressIsNew

LEMMA ByteFits ==
  ASSUME NEW n \in Nat PROVE Narrowed(n, 8) \in Word(8)
<1>1. n % 2^8 \in 0..(2^8 - 1)
  BY 2^8 = 256
<1> QED
  BY <1>1, Zenon DEF Narrowed, Word

LEMMA WordFits ==
  ASSUME NEW n \in Nat PROVE Narrowed(n, 16) \in Word(16)
<1>1. n % 2^16 \in 0..(2^16 - 1)
  BY 2^16 = 65536
<1> QED
  BY <1>1, Zenon DEF Narrowed, Word

LEMMA BasesAre ==
  ASSUME NEW text PROVE BaseOf(text) \in {8, 10, 16} /\ BaseOf(text) \in Nat
  BY DEF BaseOf

LEMMA IdMembersFit ==
  ASSUME NEW text, IsText(text) PROVE LoadIdMember(text) \in Word(16)
  BY BasesAre, StoulIsNatural, WordFits DEF LoadIdMember

(* Whoever does not throw has read a digit of the base. *)
LEMMA BeginsWithDigit ==
  ASSUME NEW text, IsText(text), ~IdMemberThrows(text)
  PROVE  text.hex \/ (text.digits # <<>> /\ text.digits[1] < 10)
<1> SUFFICES ASSUME ~text.hex PROVE text.digits # <<>> /\ text.digits[1] < 10
  OBVIOUS
<1> DEFINE base == BaseOf(text)
<1>1. base \in {8, 10} /\ base \in Nat
  BY DEF BaseOf
<1>2. ReadLength(text, base) # 0
  BY DEF IdMemberThrows, StoulThrows
<1> HIDE DEF base
<1>3. /\ ReadLength(text, base) \in 0..Len(text.digits)
      /\ \A i \in 1..ReadLength(text, base) : text.digits[i] < base
  BY <1>1, ReadLengthIs
<1>4. 1 \in 1..ReadLength(text, base) /\ Len(text.digits) # 0
  BY <1>2, <1>3 DEF IsText
<1>5. text.digits[1] < base /\ text.digits[1] \in 0..15
  BY <1>3, <1>4 DEF IsText
<1> QED
  BY <1>1, <1>4, <1>5 DEF IsText

LEMMA LoadedParts ==
  ASSUME NEW addr, NEW doc, NEW read, read = LoadAddr(addr, doc)
  PROVE  /\ read = [p \in AddrParts |-> read[p]]
         /\ read["domain"] = IF "domain" \notin ReadParts(doc) THEN addr["domain"]
                            ELSE LoadDomain(addr, doc)
         /\ read["bus"] = IF "bus" \notin ReadParts(doc) THEN addr["bus"]
                         ELSE Narrowed(Stoul(doc.bus, 16), 8)
         /\ read["device"] = IF "device" \notin ReadParts(doc) THEN addr["device"]
                            ELSE Narrowed(Stoul(doc.device, 16), 8)
         /\ read["funct"] = IF "funct" \notin ReadParts(doc) THEN addr["funct"]
                           ELSE Narrowed(Stoul(FunctText(doc), 16), 8)
  BY DEF LoadAddr, AddrParts

Addresses == [domain : Word(16), bus : Word(8), device : Word(8), funct : Word(8)]

LEMMA AddrPartsFit ==
  ASSUME NEW doc, AddrTexts(doc), NEW addr \in Addresses
  PROVE  LoadAddr(addr, doc) \in Addresses
<1> DEFINE read == LoadAddr(addr, doc)
<1>1. ReadParts(doc) # {} => doc.bus # NoText
  BY DEF ReadParts
<1>2. \A text : IsText(text) => Narrowed(Stoul(text, 16), 8) \in Word(8)
                             /\ Narrowed(Stoul(text, 16), 16) \in Word(16)
  BY StoulIsNatural, ByteFits, WordFits
<1>3. 0 \in Word(16)
  <2>1. 2^16 = 65536
    OBVIOUS
  <2>2. 0 \in 0..(2^16 - 1)
    BY <2>1
  <2> QED
    BY <2>2 DEF Word
<1>4. /\ addr["domain"] \in Word(16) /\ addr["bus"] \in Word(8)
      /\ addr["device"] \in Word(8) /\ addr["funct"] \in Word(8)
  BY DEF Addresses
<1> HIDE DEF read
<1>5. read["domain"] \in Word(16)
  BY <1>1, <1>2, <1>3, <1>4, LoadedParts DEF LoadDomain, AddrTexts, read
<1>6. read["bus"] \in Word(8) /\ read["device"] \in Word(8) /\ read["funct"] \in Word(8)
  BY <1>1, <1>2, <1>4, LoadedParts DEF AddrTexts, read
<1>7. read = [p \in AddrParts |-> read[p]]
  BY LoadedParts DEF read
<1>8. read \in Addresses
  BY <1>5, <1>6, <1>7 DEF AddrParts, Addresses
<1> QED
  BY <1>8 DEF read

(* All parts that are read are read from the document. *)
LEMMA NothingIsLeft ==
  ASSUME NEW addr, NEW fresh, NEW doc, ReadParts(doc) = AddrParts
  PROVE  LoadAddr(addr, doc) = LoadAddr(fresh, doc)
<1> DEFINE read == LoadAddr(addr, doc)   anew == LoadAddr(fresh, doc)
<1>1. /\ "domain" \in ReadParts(doc) /\ "bus" \in ReadParts(doc)
      /\ "device" \in ReadParts(doc) /\ "funct" \in ReadParts(doc)
  BY DEF AddrParts
<1>2. LoadDomain(addr, doc) = LoadDomain(fresh, doc)
  BY DEF LoadDomain
<1> HIDE DEF read, anew
<1>3. /\ read["domain"] = LoadDomain(addr, doc)
      /\ read["bus"] = Narrowed(Stoul(doc.bus, 16), 8)
      /\ read["device"] = Narrowed(Stoul(doc.device, 16), 8)
      /\ read["funct"] = Narrowed(Stoul(FunctText(doc), 16), 8)
      /\ read = [p \in AddrParts |-> read[p]]
  BY <1>1, LoadedParts DEF read
<1>4. /\ anew["domain"] = LoadDomain(fresh, doc)
      /\ anew["bus"] = Narrowed(Stoul(doc.bus, 16), 8)
      /\ anew["device"] = Narrowed(Stoul(doc.device, 16), 8)
      /\ anew["funct"] = Narrowed(Stoul(FunctText(doc), 16), 8)
      /\ anew = [p \in AddrParts |-> anew[p]]
  BY <1>1, LoadedParts DEF anew
<1>5. read = anew
  BY <1>2, <1>3, <1>4 DEF AddrParts
<1> QED
  BY <1>5 DEF read, anew

LEMMA InitPci == PciInit => PciInv
<1> SUFFICES ASSUME PciInit PROVE PciInv
  OBVIOUS
<1>1. 2^8 = 256 /\ 2^16 = 65536
  OBVIOUS
<1>2. PciTypeOK
  BY <1>1 DEF PciInit, PciTypeOK, Word
<1>3. PciUnderWay /\ IdsArrive /\ AddressIsNew
  BY DEF PciInit, PciUnderWay, IdsArrive, AddressIsNew
<1> QED
  BY <1>2, <1>3 DEF PciInv

LEMMA NextPci == PciInv /\ [PciNext]_pciVars => PciInv'
<1> SUFFICES ASSUME PciInv, [PciNext]_pciVars PROVE PciInv'
  OBVIOUS
<1>0. PciTypeOK /\ PciUnderWay /\ IdsArrive /\ AddressIsNew
  BY DEF PciInv
<1>1. ASSUME NEW vendor \in Numbers16, NEW device \in Numbers16,
             WriteId([vendor |-> vendor, device |-> device])
      PROVE  PciInv'
  <2> DEFINE number == [vendor |-> vendor, device |-> device]
  <2>1. vendor \in Word(16) /\ device \in Word(16) /\ number \in Identifiers
    BY NumbersAssumption DEF Word, Identifiers
  <2>2. IdTexts(EmitId(number))
    BY <2>1, HexDigitsRead DEF IdTexts, EmitId
  <2>3. /\ pciLeg = "none" /\ pciLeg' = "id" /\ written' = number /\ idDoc' = EmitId(number)
        /\ UNCHANGED <<addrDoc, pciId, pciAddr>>
    BY <1>1 DEF WriteId
  <2> HIDE DEF number
  <2> QED
    BY <1>0, <2>1, <2>2, <2>3 DEF PciInv, PciTypeOK, PciUnderWay, IdsArrive, AddressIsNew
<1>2. ASSUME NEW vendor \in TypedTexts, NEW device \in TypedTexts, TypeId(vendor, device)
      PROVE  PciInv'
  <2>1. IdTexts([vendor |-> vendor, device |-> device])
    BY TextsAssumption DEF IdTexts, IsText
  <2> QED
    BY <1>0, <1>2, <2>1
       DEF TypeId, PciInv, PciTypeOK, PciUnderWay, IdsArrive, AddressIsNew
<1>3. ASSUME NEW doc, AddrTexts(doc), SendAddress(doc) PROVE PciInv'
  BY <1>0, <1>3 DEF SendAddress, PciInv, PciTypeOK, PciUnderWay, IdsArrive, AddressIsNew
<1>4. AddrTexts(EmitAddr)
  BY DEF AddrTexts, EmitAddr
<1>5. ASSUME NEW domain \in TypedTexts \cup {NoText}, NEW funct \in TypedTexts \cup {NoText},
             NEW bus \in TypedTexts, NEW device \in TypedTexts
      PROVE  AddrTexts([domain |-> domain, bus |-> bus, device |-> device, funct |-> funct])
  BY TextsAssumption DEF AddrTexts, FunctText, IsText
<1>6. CASE ReadId
  <2>1. /\ pciLeg = "id" /\ pciId' = LoadId(pciId, idDoc)
        /\ pciLeg' = IF IdMemberThrows(idDoc.vendor) \/ IdMemberThrows(idDoc.device)
                     THEN "rejected" ELSE "read"
        /\ UNCHANGED <<written, idDoc, addrDoc, pciAddr>>
    BY <1>6 DEF ReadId
  <2>2. addrDoc = NoDoc /\ IdTexts(idDoc)
        /\ (written # NoDoc => written \in Identifiers /\ idDoc = EmitId(written))
    BY <1>0, <2>1 DEF PciUnderWay
  <2>3. /\ LoadIdMember(idDoc.vendor) \in Word(16)
        /\ LoadIdMember(idDoc.device) \in Word(16)
    BY <2>2, IdMembersFit DEF IdTexts
  <2>4. PciTypeOK'
    BY <1>0, <2>1, <2>3 DEF PciTypeOK, LoadId
  <2>5. ASSUME written # NoDoc
        PROVE  pciLeg' = "read" /\ pciId' = written
    <3>1. written.vendor \in Word(16) /\ written.device \in Word(16)
          /\ written = [vendor |-> written.vendor, device |-> written.device]
      BY <2>2, <2>5 DEF Identifiers
    <3>2. idDoc.vendor = ToHexString(written.vendor) /\ idDoc.device = ToHexString(written.device)
      BY <2>2, <2>5 DEF EmitId
    <3>3. /\ ~IdMemberThrows(idDoc.vendor) /\ LoadIdMember(idDoc.vendor) = written.vendor
          /\ ~IdMemberThrows(idDoc.device) /\ LoadIdMember(idDoc.device) = written.device
      BY <3>1, <3>2, HexDigitsRead
    <3> QED
      BY <2>1, <3>1, <3>3 DEF LoadId
  <2>6. ASSUME pciLeg' = "read", NEW text \in {idDoc.vendor, idDoc.device}
        PROVE  text.hex \/ (text.digits # <<>> /\ text.digits[1] < 10)
    <3>1. IsText(text) /\ ~IdMemberThrows(text)
      BY <2>1, <2>2, <2>6 DEF IdTexts
    <3> QED
      BY <3>1, BeginsWithDigit
  <2>7. IdsArrive'
    BY <2>1, <2>5, <2>6 DEF IdsArrive
  <2> QED
    BY <2>1, <2>2, <2>4, <2>7 DEF PciInv, PciUnderWay, AddressIsNew
<1>7. CASE ReadAddress
  <2>1. /\ pciLeg = "address" /\ pciAddr' = LoadAddr(pciAddr, addrDoc)
        /\ pciLeg' = IF ReadParts(addrDoc) = AddrParts THEN "read" ELSE "rejected"
        /\ UNCHANGED <<written, idDoc, addrDoc, pciId>>
    BY <1>7 DEF ReadAddress
  <2>2. written = NoDoc /\ idDoc = NoDoc /\ AddrTexts(addrDoc)
    BY <1>0, <2>1 DEF PciUnderWay
  <2>3. PciTypeOK'
    BY <1>0, <2>1, <2>2, AddrPartsFit DEF PciTypeOK, Addresses
  <2>4. AddressIsNew'
    BY <2>1, NothingIsLeft DEF AddressIsNew
  <2> QED
    BY <2>1, <2>2, <2>3, <2>4 DEF PciInv, PciUnderWay, IdsArrive
<1>8. CASE UNCHANGED pciVars
  BY <1>0, <1>8 DEF pciVars, PciInv, PciTypeOK, PciUnderWay, IdsArrive, AddressIsNew
<1> QED
  BY <1>1, <1>2, <1>3, <1>4, <1>5, <1>6, <1>7, <1>8 DEF PciNext

(* The identifiers of a device arrive as they were written, for every      *)
(* number of 16 bits and every text somebody may type (PCI_id::emit and    *)
(* load).                                                                  *)
THEOREM IdentifiersArrive == PciSpec => []IdsArrive
<1>1. PciInv => IdsArrive
  BY DEF PciInv
<1> QED
  BY InitPci, NextPci, <1>1, PTL DEF PciSpec

(* An address that is read is that of its document (PCI_addr::load).       *)
THEOREM AddressesAreNew == PciSpec => []AddressIsNew
<1>1. PciInv => AddressIsNew
  BY DEF PciInv
<1> QED
  BY InitPci, NextPci, <1>1, PTL DEF PciSpec

(* What is loaded fits its width. *)
THEOREM PciTypeCorrect == PciSpec => []PciTypeOK
<1>1. PciInv => PciTypeOK
  BY DEF PciInv
<1> QED
  BY InitPci, NextPci, <1>1, PTL DEF PciSpec

-----------------------------------------------------------------------------
(* MCParts                                                                 *)

LEMMA PartsBegin ==
  PartsInit => Init /\ AgentInit /\ UsersInit /\ TimersInit /\ OptInit /\ PciInit
  BY DEF PartsInit

(* A step is one of a single part, and stutters for the others. *)
LEMMA PartsStep ==
  [PartsNext \/ Rest]_partsVars =>
    /\ [Next]_vars /\ [AgentNext]_agentVars /\ [UsersNext]_userVars
    /\ [TimersNext]_timerVars /\ [OptNext]_optVars /\ [PciNext]_pciVars
  BY DEF PartsNext, Rest, partsVars

THEOREM PartsAreTheirSpecs ==
  PartsSpec => Spec /\ AgentSpec /\ UsersSpec /\ TimersSpec /\ OptSpec /\ PciSpec
  BY PartsBegin, PartsStep, PTL
     DEF PartsSpec, Spec, AgentSpec, UsersSpec, TimersSpec, OptSpec, PciSpec
(* No operation of any part takes a value that the member it goes into     *)
(* cannot have, whatever the constants.                                    *)
THEOREM PartsTypeCorrect == PartsSpec => []PartsTypeOK
<1>1. UsersInv => UsersTypeOK
  BY DEF UsersInv
<1>2. UsersSpec => []UsersTypeOK
  BY InitUsers, NextUsers, <1>1, PTL DEF UsersSpec
<1>3. PartsSpec => [](/\ TypeOK /\ AgentTypeOK /\ UsersTypeOK
                      /\ TimersTypeOK /\ OptTypeOK /\ PciTypeOK)
  BY PartsAreTheirSpecs, ExchangeTypeCorrect, AgentTypeCorrect, <1>2, TimersTypeCorrect,
     ValidHasValue, PciTypeCorrect, PTL
<1>4. (/\ TypeOK /\ AgentTypeOK /\ UsersTypeOK
       /\ TimersTypeOK /\ OptTypeOK /\ PciTypeOK) => PartsTypeOK
  BY DEF PartsTypeOK
<1> QED
  BY <1>3, <1>4, PTL

(* What is proved of each part holds in the specification that is checked. *)
THEOREM PartsKeepTheirPromises ==
  PartsSpec =>
    /\ []OwnRequestsAreRead /\ []RequestIsUnderstood /\ AllOrNothing
    /\ []AnswerIsTracked /\ []ResultsAreCurrent
    /\ []WrittenIsRead /\ []KindsAreTold
    /\ []InitializedForUsers
    /\ []ElapsedIsRunTime /\ MeasuredOnce
    /\ []OneOwner /\ CopiesAreIndependent
    /\ []IdsArrive /\ []AddressIsNew
  BY PartsAreTheirSpecs, OwnRequestsRead, RequestUnderstood, RefusedLeavesContainer,
     AnswersAreTracked, ResultsCurrent, WrittenMessagesAreRead, KindsTold, LibraryIsThere,
     StopWatchIsRight, MeasurementsAreFinal, ValuesAreOwned, CopiesAreCopies,
     IdentifiersArrive, AddressesAreNew, PTL

=============================================================================
