------------------------------- MODULE Timers -------------------------------
(***************************************************************************)
(* Time_measurement, the timers of a task that are written with its        *)
(* result, and Timer itself, a stop watch that can be resumed.             *)
(*                                                                         *)
(* The clock is taken to be monotonic.  base_point only shifts what is     *)
(* written; the shift is 0 here, which is also the stop_point of a timer   *)
(* that has never been stopped.                                            *)
(***************************************************************************)
EXTENDS Integers

CONSTANTS
    TimerNames,
    MaxTime,    \* bound: the end of time
    MaxDelay    \* bound: time between two readings of the clock in one call

ASSUME TimeAssumption == MaxTime \in Nat /\ MaxDelay \in Nat

VARIABLES
    now,        \* clock::now()
    enabled,    \* Time_measurement::enabled
    timers,     \* Time_measurement::timers
    watch,      \* a Timer an application uses by itself
    ran,        \* history: how long watch has been running since its start()
    blur        \* history: time lost between readings in resume() since then

timerVars == <<now, enabled, timers, watch, ran, blur>>

Timer == [start : Int, stop : Int, stopped : BOOLEAN]

-----------------------------------------------------------------------------
(* Timer                                                                   *)

NewTimer(t) == [start |-> t, stop |-> 0, stopped |-> FALSE]

Start(timer, t) == [timer EXCEPT !.start = t, !.stopped = FALSE]

(* Fault: a timer that is stopped already is stopped again. *)
StopAgain(timer, t) == [timer EXCEPT !.stop = t, !.stopped = TRUE]

Stop(timer, t) ==
    IF timer.stopped THEN timer ELSE [timer EXCEPT !.stop = t, !.stopped = TRUE]

Elapsed(timer, t) == (IF timer.stopped THEN timer.stop ELSE t) - timer.start

(* Fault: the pause is counted. *)
ResumeAsStarted(timer, t, u) == [timer EXCEPT !.stopped = FALSE]

(* t is read for the new start_point, u in elapsed(). *)
Resume(timer, t, u) ==
    [start |-> t - Elapsed(timer, u), stop |-> timer.stop, stopped |-> FALSE]

(* What has been measured is a length of time. *)
TimersTypeOK ==
    /\ now \in 0..MaxTime
    /\ enabled \in BOOLEAN
    /\ DOMAIN timers \subseteq TimerNames /\ timers \in [DOMAIN timers -> Timer]
    /\ \A n \in DOMAIN timers : Elapsed(timers[n], now) \in 0..now
    /\ watch \in Timer
    /\ ran \in Nat /\ blur \in Nat

TimersInit ==
    /\ now = 0
    /\ enabled \in BOOLEAN
    /\ timers = [n \in {} |-> NewTimer(0)]
    /\ watch = NewTimer(0)
    /\ ran = 0 /\ blur = 0

TimePasses ==
    /\ now < MaxTime
    /\ now' = now + 1
    /\ ran' = IF watch.stopped THEN ran ELSE ran + 1
    /\ UNCHANGED <<enabled, timers, watch, blur>>

StartWatch ==
    /\ watch' = Start(watch, now)
    /\ ran' = 0 /\ blur' = 0
    /\ UNCHANGED <<now, enabled, timers>>

StopWatch ==
    /\ watch' = Stop(watch, now)
    /\ UNCHANGED <<now, enabled, timers, ran, blur>>

(* Of a timer that is stopped elapsed() does not read the clock. *)
ResumeStopped ==
    /\ watch.stopped
    /\ watch' = Resume(watch, now, now)
    /\ UNCHANGED <<now, enabled, timers, ran, blur>>

(* clock::now() - elapsed() reads the clock twice, in either order. *)
ResumeRunning(delay) ==
    /\ ~watch.stopped /\ now + delay <= MaxTime
    /\ now' = now + delay
    /\ watch' \in {Resume(watch, now, now'), Resume(watch, now', now)}
    /\ ran' = ran + delay
    /\ blur' = blur + delay
    /\ UNCHANGED <<enabled, timers>>

-----------------------------------------------------------------------------
(* Time_measurement                                                        *)

(* "Timer with name ... already exists." is thrown otherwise, also when    *)
(* that timer is stopped.                                                  *)
Tick(n) ==
    /\ enabled /\ n \notin DOMAIN timers
    /\ timers' = [m \in DOMAIN timers \cup {n} |->
                     IF m = n THEN NewTimer(now) ELSE timers[m]]
    /\ UNCHANGED <<now, enabled, watch, ran, blur>>

(* "Timer with name ... not found." is thrown otherwise. *)
Tock(n) ==
    /\ enabled /\ n \in DOMAIN timers
    /\ timers' = [timers EXCEPT ![n] = Stop(@, now)]
    /\ UNCHANGED <<now, enabled, watch, ran, blur>>

(* Timer::format("timestamps"), which holds what any other format holds. *)
Formatted(timer, t) ==
    [wall |-> Elapsed(timer, t), started |-> timer.start, stopped |-> timer.stop]

(* emit() *)
Emitted == [n \in DOMAIN timers |-> Formatted(timers[n], now)]

TimersNext ==
    \/ TimePasses
    \/ StartWatch
    \/ StopWatch
    \/ ResumeStopped
    \/ \E delay \in 0..MaxDelay : ResumeRunning(delay)
    \/ \E n \in TimerNames : Tick(n) \/ Tock(n)

TimersSpec == TimersInit /\ [][TimersNext]_timerVars

-----------------------------------------------------------------------------
(* What has been measured under a name and ended by tock() is written the  *)
(* same from then on, whatever is ticked, tocked or thrown later and       *)
(* whenever it is written.                                                 *)
MeasuredOnce ==
    [][\A n \in DOMAIN timers :
          /\ n \in DOMAIN timers'
          /\ timers[n].stopped => Emitted'[n] = Emitted[n]]_timerVars

(* elapsed() is the time the timer has been running since start(), the     *)
(* pauses between stop() and resume() not counted; resume() of a timer     *)
(* that runs shifts it by no more than the time between the two readings.  *)
ElapsedIsRunTime == Elapsed(watch, now) - ran \in (-blur)..blur
=============================================================================
