------------------------------ MODULE HalTimer ------------------------------
(***************************************************************************)
(* Alarms and the time of day of the Nios board support package            *)
(* (alt_alarm_start.c, alt_tick.c, alt_settod.c, alt_gettod.c).  The       *)
(* system clock driver calls alt_tick in interrupt context: the            *)
(* application is not running until it returns, and what alt_alarm_start   *)
(* and alt_alarm_stop do with interrupts disabled is one step.             *)
(*                                                                         *)
(* The list of alarms is the set of its entries.  The order of a walk is   *)
(* left open: which entry is the next is chosen where alt_tick reads it.   *)
(* The model's own variables due and wall say what the code should do.     *)
(***************************************************************************)
EXTENDS Integers

CONSTANTS
  M,             \* the values of an alt_u32: 2^32
  Alarms,        \* the alarm structures of the application
  ListHead,          \* the head of alt_alarm_list, where a walk ends
  Delays,        \* what alt_alarm_start may get as nticks
  Periods,       \* what a callback may return, zero aside
  Rate,          \* ticks per second of the system clock driver
  ALT_US,        \* microseconds in a second
  Times,         \* what settimeofday may get
  Unset,         \* no time of day to compare with
  StopsNext      \* whether a callback stops the alarm alt_tick has read as
                 \* the next, which alt_alarm_stop does not keep it from

\* A delay of 2^32 - 1 ticks is not in Delays: its alarm time is the current
\* tick, the test for a roll-over misses it, and the next tick fires it.
ASSUME TimerAssumption ==
  /\ M \in Nat /\ M > 2
  /\ ListHead \notin Alarms
  /\ Delays \subseteq 0 .. M - 2
  /\ Periods \subseteq 1 .. M - 1
  /\ Rate \in Nat \ {0}
  /\ StopsNext \in BOOLEAN

\* A tick is a whole number of microseconds: at another rate the code loses
\* the rest of each second.  settimeofday gets a time after 1970 with its
\* microseconds in range.
ASSUME ClockAssumption ==
  /\ ALT_US \in Nat \ {0} /\ ALT_US % Rate = 0
  /\ Times \subseteq [sec : Nat, usec : 0 .. ALT_US - 1]

VARIABLES
  tick_rate,     \* _alt_tick_rate, zero without a system clock
  nticks,        \* _alt_nticks
  listed,    \* the alarms in alt_alarm_list
  time,          \* per alarm
  rollover,      \* per alarm
  alarm,         \* the entry alt_tick has come to, ListHead when it is not running
  next,          \* the entry alt_tick goes on to, read before the callback
  todo,          \* the entries of the list from that one on
  due            \* per alarm, ticks until its callback is due

VARIABLES
  alt_resettime, \* seconds and microseconds at tick zero
  wall           \* what gettimeofday should return, or Unset

alarmVars == <<listed, time, rollover, alarm, next, todo, due>>
clockVars == <<alt_resettime, wall>>
timerVars == <<tick_rate, nticks, alarmVars, clockVars>>

TimerInit ==
  /\ tick_rate = 0 /\ nticks = 0
  /\ listed = {} /\ todo = {} /\ alarm = ListHead /\ next = ListHead
  /\ time = [a \in Alarms |-> 0]
  /\ rollover = [a \in Alarms |-> FALSE]
  /\ due = [a \in Alarms |-> 0]
  /\ alt_resettime = [sec |-> 0, usec |-> 0]
  /\ wall = Unset

\* alt_sysclk_init: the first system clock driver sets the rate.
SysclkInit ==
  /\ tick_rate = 0
  /\ tick_rate' = Rate
  /\ UNCHANGED <<nticks, alarmVars, clockVars>>

-----------------------------------------------------------------------------
(* Starting and stopping alarms.                                           *)

\* The alarm time in 32 bits; one below the counter comes after the
\* roll-over, and a flag keeps the ticks until then from firing it.
Alarm(delay) == (delay + nticks + 1) % M

\* Mutant: no flag.
NeverRolls(t) == FALSE

\* That flag.
RollsOver(t) == t < nticks

\* alt_alarm_start, after its test for a system clock, on an alarm that is
\* not in the list: a new entry comes first, before those of a walk.  If
\* alt_tick has read it as the next, before it was taken out and put back,
\* the whole list comes after it.
Started(a, delay) ==
  /\ a \notin listed
  /\ listed' = listed \cup {a}
  /\ time' = [time EXCEPT ![a] = Alarm(delay)]
  /\ rollover' = [rollover EXCEPT ![a] = RollsOver(Alarm(delay))]
  /\ due' = [due EXCEPT ![a] = delay + 1]
  /\ todo' = IF a = next THEN listed' ELSE todo
  /\ UNCHANGED <<tick_rate, nticks, alarm, next, clockVars>>

AlarmStart(a, delay) ==
  /\ alarm = ListHead /\ tick_rate # 0
  /\ Started(a, delay)

\* alt_alarm_stop; on an alarm that has been taken out it changes nothing.
Stopped(a) ==
  /\ listed' = listed \ {a}
  /\ todo' = todo \ {a}
  /\ UNCHANGED <<tick_rate, nticks, time, rollover, alarm, next, due, clockVars>>

AlarmStop(a) ==
  /\ alarm = ListHead
  /\ Stopped(a)

-----------------------------------------------------------------------------
(* alt_tick.                                                               *)

\* The walk comes to an entry, with those of ahead from there on, and reads
\* the next one.  An entry that has been taken out of the list points to
\* itself.  At the head the walk has ended.
ComesTo(entry, ahead) ==
  /\ alarm' = entry
  /\ todo' = IF entry \in listed' THEN ahead \ {entry} ELSE {}
  /\ next' \in IF entry \notin listed' THEN {entry}
               ELSE IF todo' = {} THEN {ListHead} ELSE todo'

\* The counter advances, and the walk starts at the first entry.
Tick ==
  /\ alarm = ListHead /\ tick_rate # 0
  /\ nticks' = (nticks + 1) % M
  /\ due' = [a \in Alarms |-> IF a \in listed THEN due[a] - 1 ELSE due[a]]
  /\ UNCHANGED <<tick_rate, listed, time, rollover>>
  /\ \E first \in IF listed = {} THEN {ListHead} ELSE listed : ComesTo(first, listed)

\* The flag of the current alarm, cleared when the counter has rolled over.
Rolls(a) == rollover[a] /\ nticks # 0

Expired(a) == time[a] <= nticks /\ ~ Rolls(a)

\* Not due: the flag is updated and the walk goes on.
Pass ==
  /\ alarm # ListHead /\ ~ Expired(alarm)
  /\ rollover' = [rollover EXCEPT ![alarm] = Rolls(alarm)]
  /\ UNCHANGED <<tick_rate, nticks, listed, time, due, clockVars>>
  /\ ComesTo(next, todo)

\* What a callback leaves behind: it may have taken its own alarm out of the
\* list.  Its result is the next period, or zero to end.
Answer(period) ==
  /\ alarm # ListHead /\ Expired(alarm)
  /\ listed' \in {listed \ {alarm}, IF period = 0 THEN listed \ {alarm} ELSE listed}
  /\ time' = [time EXCEPT ![alarm] = (@ + period) % M]
  /\ rollover' = [rollover EXCEPT ![alarm] = period # 0 /\ RollsOver(time'[alarm])]
  /\ due' = [due EXCEPT ![alarm] = period]
  /\ UNCHANGED <<tick_rate, nticks, clockVars>>

\* Mutant: the next entry is looked up after the callback.
CallbackThenNext(period) ==
  /\ Answer(period)
  /\ ComesTo(IF alarm \in listed' THEN next ELSE alarm, todo \cap listed')

\* Due: the callback has run, and the walk goes on to the entry it read
\* before.
Callback(period) ==
  /\ Answer(period)
  /\ ComesTo(next, todo \cap listed')

\* A callback starts another alarm before it returns.
StartInCallback(a, delay) ==
  /\ alarm # ListHead /\ Expired(alarm) /\ a # alarm
  /\ Started(a, delay)

\* Or stops another one.
StopInCallback(a) ==
  /\ alarm # ListHead /\ Expired(alarm) /\ a # alarm
  /\ StopsNext \/ a # next
  /\ Stopped(a)

-----------------------------------------------------------------------------
(* The time of day.                                                        *)

Micros(n) == (ALT_US \div Rate) * n

\* A time with its microseconds in range.
Normal(t) == [sec |-> t.sec + (t.usec \div ALT_US), usec |-> t.usec % ALT_US]

\* Mutant: the ticks since reset are not taken off.
NoReset == [sec |-> 0, usec |-> 0]

\* settimeofday: the product of ticks and microseconds has 32 bits.
SinceReset == [sec |-> nticks \div Rate, usec |-> (Micros(nticks) % M) % ALT_US]

SetTimeOfDay(t) ==
  /\ tick_rate # 0 /\ alarm = ListHead
  /\ alt_resettime' = [sec  |-> t.sec - SinceReset.sec, usec |-> t.usec - SinceReset.usec]
  /\ wall' = IF Micros(nticks) < M THEN t ELSE Unset
  /\ UNCHANGED <<tick_rate, nticks, alarmVars>>

\* gettimeofday: the product has 64 bits; microseconds are borrowed from the
\* seconds as long as there are any.
GetTimeOfDay ==
  LET t == [sec  |-> alt_resettime.sec + (nticks \div Rate),
            usec |-> alt_resettime.usec + (Micros(nticks) % ALT_US)]
  IN  IF t.usec < 0 /\ Normal(t).sec < 0 THEN [sec |-> 0, usec |-> 0] ELSE Normal(t)

\* A tick moves the time by its microseconds, until the counter rolls over.
WallTick ==
  /\ wall' = IF wall = Unset \/ nticks' = 0 THEN Unset
             ELSE Normal([wall EXCEPT !.usec = @ + Micros(1)])
  /\ UNCHANGED alt_resettime

TimerNext ==
  \/ SysclkInit
  \/ Tick /\ WallTick
  \/ Pass
  \/ \E period \in Periods \cup {0} : Callback(period)
  \/ \E a \in Alarms : AlarmStop(a) \/ StopInCallback(a)
  \/ \E a \in Alarms, delay \in Delays : AlarmStart(a, delay) \/ StartInCallback(a, delay)
  \/ \E t \in Times : SetTimeOfDay(t)

TimerSpec == TimerInit /\ [][TimerNext]_timerVars

\* The processor runs the handler it is in.
Walk == Pass \/ \E period \in Periods \cup {0} : Callback(period)

-----------------------------------------------------------------------------
TimerTypeOK ==
  /\ tick_rate \in {0, Rate} /\ nticks \in 0 .. M - 1
  /\ listed \in SUBSET Alarms /\ todo \in SUBSET Alarms
  /\ alarm \in Alarms \cup {ListHead} /\ next \in Alarms \cup {ListHead}
  /\ time \in [Alarms -> 0 .. M - 1] /\ rollover \in [Alarms -> BOOLEAN]
  /\ due \in [Alarms -> 0 .. M - 1]

\* A callback runs at the tick its alarm asked for, as long as none stops the
\* entry read as the next: the walk finds an alarm expired exactly when its
\* ticks have passed, and leaves none behind that is due, however often the
\* counter rolls over in between.
FiresOnTime ==
  \A a \in listed :
    /\ alarm = a => (Expired(a) <=> due[a] = 0)
    /\ a \notin todo \cup {alarm} => due[a] > 0

\* As long as no callback stops the entry alt_tick has read as the next, the
\* walk comes to its end, whatever else callbacks take out of the list or put
\* into it.  (Without that premise it need not: Stuck.)
TickReturns == ~ StopsNext => [](alarm # ListHead => <>(alarm = ListHead))

\* alt_tick is at an entry that a callback has taken out of the list.
Stuck == alarm \notin listed \cup {ListHead}

\* The time of day is the one last set and the ticks since.
WallClockRuns == wall # Unset => GetTimeOfDay = wall
=============================================================================
