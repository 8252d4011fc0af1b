------------------------------- MODULE Clock -------------------------------
(***************************************************************************)
(* The clock of time.rs: a real-time counter in two registers that ticks   *)
(* while Instant::now reads them one after the other, twice, until both    *)
(* reads agree; and `wait`, which calls now until enough time has passed,  *)
(* as unchecked_duration_since turns ticks into a Duration.                *)
(*                                                                         *)
(* A time is a pair <<RTCMR, RTCLR>>, counted in ticks.  Time goes on in   *)
(* between: a tick has several phases, which no register shows.  A         *)
(* Duration is counted in nanoseconds, and the numbers of the source are   *)
(* constants: a tick really lasts 1e9 / RTC_FREQUENCY nanoseconds, with    *)
(* 1e9 = 1_953_125 * 2^9 and RTC_FREQUENCY = 2^6 * 2^9.                    *)
(***************************************************************************)
EXTENDS Contexts, Integers

CONSTANTS
  LowMax,   \* the largest value of RTCLR
  HighMax,  \* bound: the counter stops at <<HighMax, LowMax>>
  Phases,   \* parts of a tick that are told apart
  Waits,    \* durations passed to wait
  Numerator, TickDen, \* a tick lasts Numerator / TickDen, in lowest terms
  Factor,   \* a second has TickDen * Factor ticks
  Divisor   \* what the source takes for TickDen: 1 << 9

ASSUME ClockAssumption ==
  /\ LowMax \in Nat /\ HighMax \in Nat /\ Waits \subseteq Nat
  /\ {Phases, Numerator, TickDen, Factor, Divisor} \subseteq Nat \ {0}

(* The source does not divide by too little.                               *)
ASSUME DivisorAssumption == Divisor >= TickDen

VARIABLES
  rtc,      \* the counter
  phase,    \* of the tick
  reading,  \* `high`, `low`, `new_high` of the call of now in each context
  called,   \* time at which that call of now began
  waiting   \* `dur`, `start`, and the time and phase of the call of wait

clockVars == <<rtc, phase, reading, called, waiting>>

Zero == <<0, 0>>
Times == Nat \X (0 .. LowMax)
Leq(s, t) == s[1] < t[1] \/ (s[1] = t[1] /\ s[2] <= t[2])
Minus(t, s) == (t[1] - s[1]) * (LowMax + 1) + t[2] - s[2]

NoReading == [high |-> 0, low |-> 0, newHigh |-> 0]
NotWaiting == [dur |-> 0, start |-> Zero, since |-> Zero, phase |-> 0]

ClockInit ==
  /\ rtc = Zero
  /\ phase = 0
  /\ reading = [c \in Contexts |-> NoReading]
  /\ called = [c \in Contexts |-> Zero]
  /\ waiting = [c \in Contexts |-> NotWaiting]

AtEnd == rtc = <<HighMax, LowMax>>

NextTick == IF rtc[2] < LowMax THEN <<rtc[1], rtc[2] + 1>> ELSE <<rtc[1] + 1, 0>>

Tick ==
  /\ ~ AtEnd
  /\ IF phase + 1 < Phases THEN phase' = phase + 1 /\ UNCHANGED rtc
                            ELSE phase' = 0 /\ rtc' = NextTick
  /\ UNCHANGED contextVars
  /\ UNCHANGED <<reading, called, waiting>>

(***************************************************************************)
(* Instant::now, alone, as the first call of wait, or as one of its loop.  *)
(***************************************************************************)
Timing == {"now", "wait", "elapsed"}

NowCall(c) ==
  /\ Begin(c, "now", "high", "rtc")
  /\ called' = [called EXCEPT ![c] = rtc]
  /\ UNCHANGED <<rtc, phase, reading, waiting>>

WaitCall(c, dur) ==
  /\ Begin(c, "wait", "high", "rtc")
  /\ called' = [called EXCEPT ![c] = rtc]
  /\ waiting' = [waiting EXCEPT ![c] =
                 [dur |-> dur, start |-> Zero, since |-> rtc, phase |-> phase]]
  /\ UNCHANGED <<rtc, phase, reading>>

NowHigh(c) ==
  /\ \E op \in Timing : At(c, op, "high")
  /\ reading' = [reading EXCEPT ![c].high = rtc[1]]
  /\ Goto(c, "low")
  /\ UNCHANGED <<rtc, phase, called, waiting>>

NowLow(c) ==
  /\ \E op \in Timing : At(c, op, "low")
  /\ reading' = [reading EXCEPT ![c].low = rtc[2]]
  /\ Goto(c, "new_high")
  /\ UNCHANGED <<rtc, phase, called, waiting>>

NowNewHigh(c) ==
  /\ \E op \in Timing : At(c, op, "new_high")
  /\ reading' = [reading EXCEPT ![c].newHigh = rtc[1]]
  /\ Goto(c, "new_low")
  /\ UNCHANGED <<rtc, phase, called, waiting>>

(* Mutant: the upper half is not compared. *)
AgreeLow(c) == rtc[2] = reading[c].low

Agree(c) == rtc[2] = reading[c].low /\ reading[c].newHigh = reading[c].high

(* potential torn read; try again *)
NowAgain(c) ==
  /\ \E op \in Timing : At(c, op, "new_low")
  /\ ~ Agree(c)
  /\ reading' = [reading EXCEPT ![c] = [high |-> reading[c].newHigh,
                                        low |-> rtc[2], newHigh |-> 0]]
  /\ Goto(c, "new_high")
  /\ UNCHANGED <<rtc, phase, called, waiting>>

Value(c) == <<reading[c].high, reading[c].low>>

(* The locals of a call of now end with it; the next one begins at t. *)
Renew(c, t) ==
  /\ reading' = [reading EXCEPT ![c] = NoReading]
  /\ called' = [called EXCEPT ![c] = t]

NowReturn(c) ==
  /\ At(c, "now", "new_low")
  /\ Agree(c)
  /\ Renew(c, Zero)
  /\ Return(c)
  /\ UNCHANGED <<rtc, phase, waiting>>

(* `start` is set, and the loop calls now. *)
WaitStart(c) ==
  /\ At(c, "wait", "new_low")
  /\ Agree(c)
  /\ waiting' = [waiting EXCEPT ![c].start = Value(c)]
  /\ Renew(c, rtc)
  /\ task' = [task EXCEPT ![c] = Call("elapsed", "high", "rtc")]
  /\ UNCHANGED <<calls, alive, rtc, phase>>

(* Mutant: the operands are swapped, and the difference wraps around. *)
TooEarlySwapped(c) == Value(c) = waiting[c].start /\ waiting[c].dur > 0

(* unchecked_duration_since: whole seconds, and a fraction rounded down.   *)
RtcFrequency == TickDen * Factor
Second == Numerator * Factor

DurationOf(ticks) ==
  (ticks \div RtcFrequency) * Second
    + (Numerator * (ticks % RtcFrequency)) \div Divisor

Elapsed(c) == DurationOf(Minus(Value(c), waiting[c].start))

TooEarly(c) == Elapsed(c) < waiting[c].dur

WaitLoop(c) ==
  /\ At(c, "elapsed", "new_low")
  /\ Agree(c)
  /\ TooEarly(c)
  /\ Renew(c, rtc)
  /\ Goto(c, "high")
  /\ UNCHANGED <<rtc, phase, waiting>>

WaitReturn(c) ==
  /\ At(c, "elapsed", "new_low")
  /\ Agree(c)
  /\ ~ TooEarly(c)
  /\ Renew(c, Zero)
  /\ waiting' = [waiting EXCEPT ![c] = NotWaiting]
  /\ Return(c)
  /\ UNCHANGED <<rtc, phase>>

NowStep(c) ==
  NowHigh(c) \/ NowLow(c) \/ NowNewHigh(c) \/ NowAgain(c) \/ NowReturn(c)

WaitStep(c) == WaitStart(c) \/ WaitLoop(c) \/ WaitReturn(c)

ClockCall(c) == NowCall(c) \/ \E dur \in Waits : WaitCall(c, dur)

ClockNext ==
  Tick \/ \E c \in Contexts : ClockCall(c) \/ NowStep(c) \/ WaitStep(c)

ClockSpec ==
  /\ ContextsInit /\ ClockInit
  /\ [][ClockNext]_<<contextVars, clockVars>>

(***************************************************************************)
(* Properties                                                              *)
(***************************************************************************)
ClockTypeOK ==
  /\ rtc \in Times /\ phase \in 0 .. Phases - 1
  /\ reading \in [Contexts -> [high : Nat, low : 0 .. LowMax, newHigh : Nat]]
  /\ called \in [Contexts -> Times]
  /\ waiting \in [Contexts -> [dur : Nat, start : Times, since : Times,
                           phase : 0 .. Phases - 1]]

(* The value now is about to return is the time at some moment of its      *)
(* call, although the two halves are read while the counter carries from   *)
(* one into the other and handlers run in between.  Calls that follow one  *)
(* another so return instants in order, and the assertion of               *)
(* duration_since holds for an instant taken before the call of elapsed.   *)
NowIsTime ==
  \A c \in Contexts :
    task[c].at = "new_low" /\ Agree(c) =>
      Leq(called[c], Value(c)) /\ Leq(Value(c), rtc)

Timed(c) == task[c].op = "elapsed" /\ task[c].at = "new_low" /\ Agree(c)

(* The phases since the call of wait. *)
Passed(c) == Minus(rtc, waiting[c].since) * Phases + phase - waiting[c].phase

(* wait blocks for the duration it was given, less at most the one tick    *)
(* that had begun before the call and is counted as a whole one: "at       *)
(* least" (time.rs:88) is true up to that tick.                            *)
WaitsLongEnough ==
  \A c \in Contexts : Timed(c) /\ ~ TooEarly(c) =>
    (Passed(c) + Phases) * Numerator > waiting[c].dur * TickDen * Phases

(* A Duration is the length of the ticks it is computed from, to the       *)
(* nanosecond, as the comment on the conversion means it to be             *)
(* (time.rs:63).                                                           *)
DurationIsTicks ==
  \A c \in Contexts : Timed(c) =>
    LET ticks == Minus(Value(c), waiting[c].start) IN
      /\ Elapsed(c) * TickDen <= ticks * Numerator
      /\ ticks * Numerator < (Elapsed(c) + 1) * TickDen

=============================================================================
