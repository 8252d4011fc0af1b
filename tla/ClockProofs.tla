---------------------------- MODULE ClockProofs ----------------------------
(***************************************************************************)
(* Instant::now returns the time of one moment of its call, and wait waits *)
(* long enough, for any number of contexts and any width of the registers. *)
(*                                                                         *)
(* The argument: the upper half never decreases.  When it is the same at   *)
(* the first read and at the third, it had that value at the second read,  *)
(* too, which is when the lower half was taken.                            *)
(***************************************************************************)
EXTENDS Clock, TLAPS

ClockCalls ==
  [op : Timing, at : {"high", "low", "new_high", "new_low"}, on : {"rtc"}]

(* F: the calls of other drivers, and no call at all.                      *)
Apart(F) ==
  /\ NoCall \in F
  /\ \A k \in F : k.op \notin Timing /\ k.at \notin {"low", "new_high", "new_low"}

TaskOK(F) == task \in [Contexts -> ClockCalls \cup F]

Between(c) == Leq(called[c], Value(c)) /\ Leq(Value(c), rtc)

WaitRecords ==
  [dur : Nat, start : Times, since : Times, phase : 0 .. Phases - 1]

(* What the locals of the call of now in context c say of the clock. *)
Sound(c) ==
  /\ Leq(called[c], rtc)
  /\ task[c].at = "low" => reading[c].high <= rtc[1]
  /\ task[c].at = "new_high" =>
       reading[c].high <= rtc[1] /\ (reading[c].high = rtc[1] => Between(c))
  /\ task[c].at = "new_low" =>
       reading[c].newHigh <= rtc[1] /\ (reading[c].newHigh = reading[c].high => Between(c))

(* `start` is not before the call of wait, nor after that of now. *)
Started(c) ==
  /\ task[c].op = "wait" => called[c] = waiting[c].since
  /\ task[c].op = "elapsed" =>
       Leq(waiting[c].since, waiting[c].start) /\ Leq(waiting[c].start, called[c])

ClockInv(F) == ClockTypeOK /\ TaskOK(F) /\ \A c \in Contexts : Sound(c) /\ Started(c)

LEMMA TimesIsPairs ==
  ASSUME NEW t \in Times
  PROVE  t[1] \in Nat /\ t[2] \in 0 .. LowMax /\ t = <<t[1], t[2]>>
BY DEF Times

LEMMA PairIsTime ==
  ASSUME NEW h \in Nat, NEW l \in 0 .. LowMax
  PROVE  <<h, l>> \in Times /\ <<h, l>>[1] = h /\ <<h, l>>[2] = l
BY DEF Times

LEMMA ZeroIsTime == Zero \in Times /\ \A t \in Times : Leq(Zero, t)
BY ClockAssumption DEF Zero, Times, Leq

LEMMA LeqReflexive == \A t \in Times : Leq(t, t)
BY DEF Times, Leq

LEMMA LeqTransitive ==
  ASSUME NEW s \in Times, NEW t \in Times, NEW u \in Times, Leq(s, t), Leq(t, u)
  PROVE  Leq(s, u)
BY TimesIsPairs, ClockAssumption DEF Leq

(* The difference of two times in ticks is additive, and not negative for  *)
(* times in order.                                                         *)
LEMMA Distribute ==
  ASSUME NEW a \in Int, NEW b \in Int, NEW n \in Int
  PROVE  (a - b) * n = a * n - b * n
BY SMT

LEMMA TicksOf ==
  ASSUME NEW s \in Times, NEW t \in Times
  PROVE  /\ Minus(t, s) = (t[1] * (LowMax + 1) + t[2]) - (s[1] * (LowMax + 1) + s[2])
         /\ t[1] * (LowMax + 1) + t[2] \in Int
         /\ s[1] * (LowMax + 1) + s[2] \in Int
<1> DEFINE L == LowMax + 1
<1>1. L \in Int
  BY ClockAssumption
<1>2. s[1] \in Int /\ s[2] \in Int /\ t[1] \in Int /\ t[2] \in Int
  BY TimesIsPairs, ClockAssumption
<1>3. Minus(t, s) = (t[1] - s[1]) * L + t[2] - s[2]
  BY DEF Minus
<1> HIDE DEF L
<1>4. (t[1] - s[1]) * L = t[1] * L - s[1] * L /\ t[1] * L \in Int /\ s[1] * L \in Int
  BY <1>1, <1>2, Distribute
<1>5. /\ Minus(t, s) = (t[1] * L + t[2]) - (s[1] * L + s[2])
      /\ t[1] * L + t[2] \in Int /\ s[1] * L + s[2] \in Int
  BY <1>2, <1>3, <1>4
<1> QED
  BY <1>5 DEF L

LEMMA MinusAdds ==
  ASSUME NEW s \in Times, NEW t \in Times, NEW u \in Times
  PROVE  Minus(u, s) = Minus(u, t) + Minus(t, s)
         /\ Minus(u, t) \in Int /\ Minus(t, s) \in Int
<1>1. Minus(u, s) = (u[1] * (LowMax + 1) + u[2]) - (s[1] * (LowMax + 1) + s[2])
  BY TicksOf
<1>2. Minus(u, t) = (u[1] * (LowMax + 1) + u[2]) - (t[1] * (LowMax + 1) + t[2])
  BY TicksOf
<1>3. Minus(t, s) = (t[1] * (LowMax + 1) + t[2]) - (s[1] * (LowMax + 1) + s[2])
  BY TicksOf
<1> DEFINE U == u[1] * (LowMax + 1) + u[2]
           T == t[1] * (LowMax + 1) + t[2]
           S == s[1] * (LowMax + 1) + s[2]
<1>4. U \in Int /\ T \in Int /\ S \in Int
  BY TicksOf
<1> HIDE DEF U, T, S
<1>5. Minus(u, s) = U - S /\ Minus(u, t) = U - T /\ Minus(t, s) = T - S
  BY <1>1, <1>2, <1>3 DEF U, T, S
<1> QED
  BY <1>4, <1>5

LEMMA AtLeastOne ==
  ASSUME NEW d \in Nat, d >= 1, NEW n \in Nat
  PROVE  d * n >= n
BY SMT

LEMMA MinusNonNegative ==
  ASSUME NEW s \in Times, NEW t \in Times, Leq(s, t)
  PROVE  Minus(t, s) >= 0
<1>1. CASE s[1] = t[1]
  BY <1>1, TimesIsPairs, ClockAssumption DEF Minus, Leq
<1>2. CASE s[1] < t[1]
  <2>1. t[1] - s[1] \in Nat /\ t[1] - s[1] >= 1 /\ LowMax + 1 \in Nat
    BY <1>2, TimesIsPairs, ClockAssumption
  <2>2. (t[1] - s[1]) * (LowMax + 1) >= LowMax + 1
    BY <2>1, AtLeastOne
  <2>3. (t[1] - s[1]) * (LowMax + 1) \in Int
    BY <2>1
  <2> DEFINE D == (t[1] - s[1]) * (LowMax + 1)
  <2> HIDE DEF D
  <2>4. D \in Int /\ D >= LowMax + 1 /\ Minus(t, s) = D + t[2] - s[2]
    BY <2>2, <2>3 DEF Minus, D
  <2> QED
    BY <2>4, TimesIsPairs, ClockAssumption
<1> QED
  BY <1>1, <1>2 DEF Leq

(***************************************************************************)
(* The inductive step, one case per action.                                *)
(***************************************************************************)
LEMMA ClockInitInv ==
  ASSUME NEW F, Apart(F), ContextsInit, ClockInit
  PROVE  ClockInv(F)
<1>1. ClockTypeOK
  BY ZeroIsTime, ClockAssumption DEF ClockInit, ClockTypeOK, NoReading, NotWaiting
<1>2. TaskOK(F)
  BY DEF ContextsInit, TaskOK, Apart
<1>3. ASSUME NEW c \in Contexts PROVE Sound(c) /\ Started(c)
  BY ZeroIsTime DEF ContextsInit, ClockInit, Sound, Started, NoCall, Call
<1> QED
  BY <1>1, <1>2, <1>3 DEF ClockInv

(* A step of context c that leaves the clock alone concerns c only. *)
LEMMA OtherContexts ==
  ASSUME NEW F, Apart(F), ClockInv(F), NEW c \in Contexts, NEW d \in Contexts, d # c,
         rtc' = rtc, task'[d] = task[d], reading'[d] = reading[d],
         called'[d] = called[d], waiting'[d] = waiting[d]
  PROVE  Sound(d)' /\ Started(d)'
BY DEF ClockInv, Sound, Started, Between, Value

LEMMA TickKeeps ==
  ASSUME NEW F, Apart(F), ClockInv(F), Tick
  PROVE  ClockInv(F)'
<1>1. rtc \in Times /\ rtc[1] \in Nat /\ rtc[2] \in 0 .. LowMax /\ LowMax \in Nat
  BY TimesIsPairs, ClockAssumption DEF ClockInv, ClockTypeOK
<1>2. NextTick \in Times /\ Leq(rtc, NextTick) /\ rtc[1] <= NextTick[1]
  <2>1. CASE rtc[2] < LowMax
    <3>1. NextTick = <<rtc[1], rtc[2] + 1>> /\ rtc[2] + 1 \in 0 .. LowMax
      BY <1>1, <2>1 DEF NextTick
    <3> QED
      BY <1>1, <3>1, PairIsTime DEF Leq
  <2>2. CASE ~ (rtc[2] < LowMax)
    <3>1. NextTick = <<rtc[1] + 1, 0>> /\ rtc[1] + 1 \in Nat /\ 0 \in 0 .. LowMax
      BY <1>1, <2>2 DEF NextTick
    <3> QED
      BY <1>1, <3>1, PairIsTime DEF Leq
  <2> QED
    BY <2>1, <2>2
<1>3. /\ phase' \in 0 .. Phases - 1
      /\ rtc' \in Times /\ Leq(rtc, rtc') /\ rtc[1] <= rtc'[1]
  <2>1. phase \in 0 .. Phases - 1 /\ Phases \in Nat \ {0}
    BY ClockAssumption DEF ClockInv, ClockTypeOK
  <2>2. CASE phase + 1 < Phases
    BY <1>1, <2>1, <2>2, LeqReflexive DEF Tick
  <2>3. CASE ~ (phase + 1 < Phases)
    BY <1>2, <2>1, <2>3 DEF Tick
  <2> QED
    BY <2>2, <2>3
<1>4. ClockTypeOK'
  BY <1>3 DEF ClockInv, ClockTypeOK, Tick
<1>5. TaskOK(F)'
  BY DEF ClockInv, TaskOK, Tick, contextVars
<1>6. ASSUME NEW c \in Contexts PROVE Sound(c)'
  <2>1. /\ called[c] \in Times /\ reading[c].high \in Nat /\ reading[c].newHigh \in Nat
        /\ Value(c) \in Times
    BY PairIsTime DEF ClockInv, ClockTypeOK, Value
  <2>2. task' = task /\ reading' = reading /\ called' = called /\ Value(c)' = Value(c)
    BY DEF Tick, contextVars, Value
  <2>3. Leq(called[c], rtc')
    BY <1>1, <1>3, <2>1, LeqTransitive DEF ClockInv, Sound
  <2>4. Between(c) => Between(c)'
    BY <1>1, <1>3, <2>1, <2>2, LeqTransitive DEF Between
  <2>5. Sound(c)
    BY DEF ClockInv
  <2>6. rtc[1] \in Nat /\ rtc'[1] \in Nat
    BY <1>1, <1>3, TimesIsPairs
  <2> QED
    BY <1>3, <2>1, <2>2, <2>3, <2>4, <2>5, <2>6 DEF Sound
<1>7. ASSUME NEW c \in Contexts PROVE Started(c)'
  BY DEF ClockInv, Started, Tick, contextVars
<1> QED
  BY <1>4, <1>5, <1>6, <1>7 DEF ClockInv

LEMMA NowCallKeeps ==
  ASSUME NEW F, Apart(F), ClockInv(F), NEW c \in Contexts, NowCall(c)
  PROVE  ClockInv(F)'
<1> USE DEF ClockInv
<1>1. task' = [task EXCEPT ![c] = Call("now", "high", "rtc")]
  BY DEF NowCall, Begin
<1>2. ClockTypeOK' /\ TaskOK(F)'
  BY <1>1 DEF NowCall, ClockTypeOK, TaskOK, Call, ClockCalls, Timing, Apart
<1>3. Sound(c)' /\ Started(c)'
  BY <1>1, LeqReflexive DEF NowCall, ClockTypeOK, TaskOK, Sound, Started, Call
<1>4. ASSUME NEW d \in Contexts, d # c PROVE Sound(d)' /\ Started(d)'
  BY <1>1, <1>4, OtherContexts DEF NowCall, ClockTypeOK, TaskOK
<1> QED
  BY <1>2, <1>3, <1>4

LEMMA WaitCallKeeps ==
  ASSUME NEW F, Apart(F), ClockInv(F), NEW c \in Contexts, NEW dur \in Waits, WaitCall(c, dur)
  PROVE  ClockInv(F)'
<1> USE DEF ClockInv
<1>1. task' = [task EXCEPT ![c] = Call("wait", "high", "rtc")]
  BY DEF WaitCall, Begin
<1>2. waiting' = [waiting EXCEPT ![c] = [dur |-> dur, start |-> Zero, since |-> rtc, phase |-> phase]]
  BY DEF WaitCall
<1>3. ClockTypeOK' /\ TaskOK(F)'
  BY <1>1, <1>2, ClockAssumption, ZeroIsTime DEF WaitCall, ClockTypeOK, TaskOK, Call, ClockCalls, Timing, Apart
<1>4. Sound(c)' /\ Started(c)'
  BY <1>1, <1>2, LeqReflexive DEF WaitCall, ClockTypeOK, TaskOK, Sound, Started, Call
<1>5. ASSUME NEW d \in Contexts, d # c PROVE Sound(d)' /\ Started(d)'
  BY <1>1, <1>2, <1>5, OtherContexts DEF WaitCall, ClockTypeOK, TaskOK
<1> QED
  BY <1>3, <1>4, <1>5

(* A call of the clock that goes on is still one. *)
LEMMA MovesOn ==
  ASSUME NEW F, Apart(F), ClockInv(F), NEW c \in Contexts, task[c].op \in Timing,
         NEW at \in {"high", "low", "new_high", "new_low"},
         task' = [task EXCEPT ![c].at = at]
  PROVE  TaskOK(F)'
<1>1. task \in [Contexts -> ClockCalls \cup F] /\ task[c] \in ClockCalls
  BY DEF ClockInv, TaskOK, Apart
<1>2. [task[c] EXCEPT !.at = at] \in ClockCalls
  BY <1>1 DEF ClockCalls
<1> QED
  BY <1>1, <1>2 DEF TaskOK

LEMMA NowHighKeeps ==
  ASSUME NEW F, Apart(F), ClockInv(F), NEW c \in Contexts, NowHigh(c)
  PROVE  ClockInv(F)'
<1> USE DEF ClockInv
<1>1. /\ task[c].at = "high" /\ task[c].op \in Timing
      /\ task' = [task EXCEPT ![c].at = "low"]
      /\ reading' = [reading EXCEPT ![c].high = rtc[1]]
      /\ rtc' = rtc /\ phase' = phase /\ called' = called /\ waiting' = waiting
  BY DEF NowHigh, Goto, At
<1>2. /\ rtc \in Times /\ rtc[1] \in Nat /\ rtc[2] \in 0 .. LowMax /\ rtc = <<rtc[1], rtc[2]>>
      /\ reading[c] \in [high : Nat, low : 0 .. LowMax, newHigh : Nat]
  BY TimesIsPairs DEF ClockTypeOK, WaitRecords
<1>3. task'[c].at = "low" /\ task'[c].op = task[c].op /\ reading'[c].high = rtc[1]
  BY <1>1 DEF TaskOK, ClockTypeOK
<1>4. ClockTypeOK' /\ TaskOK(F)'
  BY <1>1, <1>2, MovesOn DEF ClockTypeOK, WaitRecords
<1>5. Started(c)'
  BY <1>1, <1>3 DEF Started
<1>6. Sound(c)'
  BY <1>1, <1>2, <1>3 DEF Sound
<1>7. ASSUME NEW d \in Contexts, d # c PROVE Sound(d)' /\ Started(d)'
  BY <1>1, <1>7, OtherContexts DEF ClockTypeOK, TaskOK
<1> QED
  BY <1>4, <1>5, <1>6, <1>7

LEMMA NowLowKeeps ==
  ASSUME NEW F, Apart(F), ClockInv(F), NEW c \in Contexts, NowLow(c)
  PROVE  ClockInv(F)'
<1> USE DEF ClockInv
<1>1. /\ task[c].at = "low" /\ task[c].op \in Timing
      /\ task' = [task EXCEPT ![c].at = "new_high"]
      /\ reading' = [reading EXCEPT ![c].low = rtc[2]]
      /\ rtc' = rtc /\ phase' = phase /\ called' = called /\ waiting' = waiting
  BY DEF NowLow, Goto, At
<1>2. /\ rtc \in Times /\ rtc[1] \in Nat /\ rtc[2] \in 0 .. LowMax /\ rtc = <<rtc[1], rtc[2]>>
      /\ reading[c] \in [high : Nat, low : 0 .. LowMax, newHigh : Nat]
  BY TimesIsPairs DEF ClockTypeOK, WaitRecords
<1>3. task'[c].at = "new_high" /\ task'[c].op = task[c].op /\ reading'[c].high = reading[c].high /\ reading'[c].low = rtc[2]
  BY <1>1 DEF TaskOK, ClockTypeOK
<1>4. ClockTypeOK' /\ TaskOK(F)'
  BY <1>1, <1>2, MovesOn DEF ClockTypeOK, WaitRecords
<1>5. Started(c)'
  BY <1>1, <1>3 DEF Started
<1>6. Sound(c)'
  <2>1. Leq(called[c], rtc) /\ reading[c].high <= rtc[1]
    BY <1>1 DEF Sound
  <2>2. reading[c].high = rtc[1] => Value(c)' = rtc
    BY <1>2, <1>3 DEF Value
  <2> QED
    BY <1>1, <1>2, <1>3, <2>1, <2>2, LeqReflexive DEF Sound, Between
<1>7. ASSUME NEW d \in Contexts, d # c PROVE Sound(d)' /\ Started(d)'
  BY <1>1, <1>7, OtherContexts DEF ClockTypeOK, TaskOK
<1> QED
  BY <1>4, <1>5, <1>6, <1>7

LEMMA NowNewHighKeeps ==
  ASSUME NEW F, Apart(F), ClockInv(F), NEW c \in Contexts, NowNewHigh(c)
  PROVE  ClockInv(F)'
<1> USE DEF ClockInv
<1>1. /\ task[c].at = "new_high" /\ task[c].op \in Timing
      /\ task' = [task EXCEPT ![c].at = "new_low"]
      /\ reading' = [reading EXCEPT ![c].newHigh = rtc[1]]
      /\ rtc' = rtc /\ phase' = phase /\ called' = called /\ waiting' = waiting
  BY DEF NowNewHigh, Goto, At
<1>2. /\ rtc \in Times /\ rtc[1] \in Nat /\ rtc[2] \in 0 .. LowMax /\ rtc = <<rtc[1], rtc[2]>>
      /\ reading[c] \in [high : Nat, low : 0 .. LowMax, newHigh : Nat]
  BY TimesIsPairs DEF ClockTypeOK, WaitRecords
<1>3. task'[c].at = "new_low" /\ task'[c].op = task[c].op /\ reading'[c].newHigh = rtc[1] /\ Value(c)' = Value(c)
      /\ reading'[c].high = reading[c].high
  BY <1>1 DEF TaskOK, ClockTypeOK, Value
<1>4. ClockTypeOK' /\ TaskOK(F)'
  BY <1>1, <1>2, MovesOn DEF ClockTypeOK, WaitRecords
<1>5. Started(c)'
  BY <1>1, <1>3 DEF Started
<1>6. Sound(c)'
  BY <1>1, <1>2, <1>3 DEF Sound, Between
<1>7. ASSUME NEW d \in Contexts, d # c PROVE Sound(d)' /\ Started(d)'
  BY <1>1, <1>7, OtherContexts DEF ClockTypeOK, TaskOK
<1> QED
  BY <1>4, <1>5, <1>6, <1>7

LEMMA NowAgainKeeps ==
  ASSUME NEW F, Apart(F), ClockInv(F), NEW c \in Contexts, NowAgain(c)
  PROVE  ClockInv(F)'
<1> USE DEF ClockInv
<1>1. /\ task[c].at = "new_low" /\ task[c].op \in Timing
      /\ task' = [task EXCEPT ![c].at = "new_high"]
      /\ reading' = [reading EXCEPT ![c] = [high |-> reading[c].newHigh,
                                            low |-> rtc[2], newHigh |-> 0]]
      /\ rtc' = rtc /\ phase' = phase /\ called' = called /\ waiting' = waiting
  BY DEF NowAgain, Goto, At
<1>2. /\ rtc \in Times /\ rtc[1] \in Nat /\ rtc[2] \in 0 .. LowMax /\ rtc = <<rtc[1], rtc[2]>>
      /\ reading[c] \in [high : Nat, low : 0 .. LowMax, newHigh : Nat]
  BY TimesIsPairs DEF ClockTypeOK, WaitRecords
<1>3. task'[c].at = "new_high" /\ task'[c].op = task[c].op /\ reading'[c].high = reading[c].newHigh /\ reading'[c].low = rtc[2]
  BY <1>1 DEF TaskOK, ClockTypeOK
<1>4. ClockTypeOK' /\ TaskOK(F)'
  BY <1>1, <1>2, MovesOn DEF ClockTypeOK, WaitRecords
<1>5. Started(c)'
  BY <1>1, <1>3 DEF Started
<1>6. Sound(c)'
  <2>1. Leq(called[c], rtc) /\ reading[c].newHigh <= rtc[1]
    BY <1>1 DEF Sound
  <2>2. reading[c].newHigh = rtc[1] => Value(c)' = rtc
    BY <1>2, <1>3 DEF Value
  <2> QED
    BY <1>1, <1>2, <1>3, <2>1, <2>2, LeqReflexive DEF Sound, Between
<1>7. ASSUME NEW d \in Contexts, d # c PROVE Sound(d)' /\ Started(d)'
  BY <1>1, <1>7, OtherContexts DEF ClockTypeOK, TaskOK
<1> QED
  BY <1>4, <1>5, <1>6, <1>7

(* now returns, or is called again, at time t. *)
LEMMA RenewKeeps ==
  ASSUME NEW F, Apart(F), ClockInv(F), NEW c \in Contexts, NEW t \in {Zero, rtc}, Renew(c, t), rtc' = rtc, phase' = phase,
         NEW k \in ClockCalls \cup {NoCall}, k.at \in {"none", "high"},
         task' = [task EXCEPT ![c] = k],
         NEW w \in WaitRecords,
         waiting' = [waiting EXCEPT ![c] = w],
         k.op # "wait", k.op = "elapsed" => Leq(w.since, w.start) /\ Leq(w.start, t)
  PROVE  ClockInv(F)'
<1> USE DEF ClockInv
<1>1. t \in Times /\ Leq(t, rtc)
  BY ZeroIsTime, LeqReflexive DEF ClockTypeOK, WaitRecords
<1>2. ClockTypeOK'
  BY <1>1, ClockAssumption DEF Renew, ClockTypeOK, NoReading, WaitRecords
<1>3. TaskOK(F)'
  BY DEF TaskOK, Apart
<1>4. Sound(c)' /\ Started(c)'
  <2>1. task'[c] = k /\ called'[c] = t /\ waiting'[c] = w
    BY DEF TaskOK, ClockTypeOK, Renew
  <2> QED
    BY <1>1, <2>1 DEF Sound, Started
<1>5. ASSUME NEW d \in Contexts, d # c PROVE Sound(d)' /\ Started(d)'
  BY <1>5, OtherContexts DEF TaskOK, ClockTypeOK, Renew
<1> QED
  BY <1>2, <1>3, <1>4, <1>5

LEMMA NowReturnKeeps ==
  ASSUME NEW F, Apart(F), ClockInv(F), NEW c \in Contexts, NowReturn(c)
  PROVE  ClockInv(F)'
<1>1. NoCall \in ClockCalls \cup {NoCall} /\ NoCall.at = "none" /\ NoCall.op = "none"
  BY DEF NoCall, Call
<1>2. waiting[c] \in WaitRecords
      /\ waiting' = [waiting EXCEPT ![c] = waiting[c]]
  BY DEF NowReturn, ClockInv, ClockTypeOK, WaitRecords
<1>3. task' = [task EXCEPT ![c] = NoCall] /\ Renew(c, Zero) /\ rtc' = rtc /\ phase' = phase
  BY DEF NowReturn, Return
<1> QED
  BY <1>1, <1>2, <1>3, RenewKeeps

LEMMA WaitStartKeeps ==
  ASSUME NEW F, Apart(F), ClockInv(F), NEW c \in Contexts, WaitStart(c)
  PROVE  ClockInv(F)'
<1> DEFINE k == Call("elapsed", "high", "rtc")
           w == [waiting[c] EXCEPT !.start = Value(c)]
<1>1. k \in ClockCalls \cup {NoCall} /\ k.at = "high" /\ k.op = "elapsed"
  BY DEF Call, Timing, ClockCalls
<1>2. Value(c) \in Times /\ waiting[c] \in WaitRecords
  BY PairIsTime DEF ClockInv, ClockTypeOK, Value, WaitRecords
<1>3. w \in WaitRecords
  BY <1>2 DEF WaitRecords
<1>4. waiting' = [waiting EXCEPT ![c] = w]
  BY <1>2 DEF WaitStart, ClockInv, ClockTypeOK
<1>5. Leq(waiting[c].since, Value(c)) /\ Leq(Value(c), rtc)
  <2>1. task[c].op = "wait" /\ task[c].at = "new_low" /\ Agree(c)
    BY DEF WaitStart, At
  <2>2. called[c] = waiting[c].since /\ Between(c)
    BY <2>1 DEF ClockInv, Started, Sound, Agree
  <2> QED
    BY <2>2 DEF Between
<1>6. task' = [task EXCEPT ![c] = k] /\ Renew(c, rtc) /\ rtc' = rtc /\ phase' = phase
  BY DEF WaitStart
<1>7. Leq(w.since, w.start) /\ Leq(w.start, rtc)
  BY <1>2, <1>5
<1> HIDE DEF k, w
<1> QED
  BY <1>1, <1>3, <1>4, <1>6, <1>7, RenewKeeps

LEMMA WaitLoopKeeps ==
  ASSUME NEW F, Apart(F), ClockInv(F), NEW c \in Contexts, WaitLoop(c)
  PROVE  ClockInv(F)'
<1> DEFINE k == [task[c] EXCEPT !.at = "high"]
<1>1. task[c].op = "elapsed"
      /\ task[c] \in ClockCalls
  BY DEF WaitLoop, At, ClockInv, TaskOK, Apart, Timing
<1>2. k \in ClockCalls \cup {NoCall} /\ k.at = "high" /\ k.op = "elapsed"
  BY <1>1 DEF ClockCalls
<1>3. task' = [task EXCEPT ![c] = k] /\ Renew(c, rtc) /\ rtc' = rtc /\ phase' = phase
  BY <1>1 DEF WaitLoop, Goto, ClockInv, TaskOK
<1>4. waiting[c] \in WaitRecords
      /\ waiting' = [waiting EXCEPT ![c] = waiting[c]]
  BY DEF WaitLoop, ClockInv, ClockTypeOK, WaitRecords
<1>5. Leq(waiting[c].since, waiting[c].start) /\ Leq(waiting[c].start, rtc)
  <2>1. Leq(waiting[c].start, called[c]) /\ Leq(called[c], rtc)
    BY <1>1 DEF ClockInv, Started, Sound
  <2>2. waiting[c].start \in Times /\ called[c] \in Times /\ rtc \in Times
    BY <1>4 DEF WaitRecords, ClockInv, ClockTypeOK
  <2> QED
    BY <1>1, <2>1, <2>2, LeqTransitive DEF ClockInv, Started
<1> HIDE DEF k
<1> QED
  BY <1>2, <1>3, <1>4, <1>5, RenewKeeps

LEMMA WaitReturnKeeps ==
  ASSUME NEW F, Apart(F), ClockInv(F), NEW c \in Contexts, WaitReturn(c)
  PROVE  ClockInv(F)'
<1>1. NoCall \in ClockCalls \cup {NoCall} /\ NoCall.at = "none" /\ NoCall.op = "none"
  BY DEF NoCall, Call
<1>2. NotWaiting \in WaitRecords
      /\ waiting' = [waiting EXCEPT ![c] = NotWaiting]
  BY ZeroIsTime, ClockAssumption DEF WaitReturn, NotWaiting, WaitRecords
<1>3. task' = [task EXCEPT ![c] = NoCall] /\ Renew(c, Zero) /\ rtc' = rtc /\ phase' = phase
  BY DEF WaitReturn, Return
<1> QED
  BY <1>1, <1>2, <1>3, RenewKeeps

LEMMA ClockStep ==
  ASSUME NEW F, Apart(F), ClockInv(F), ClockNext
  PROVE  ClockInv(F)'
<1>1. CASE Tick
  BY <1>1, TickKeeps
<1>2. ASSUME NEW c \in Contexts, ClockCall(c) PROVE ClockInv(F)'
  BY <1>2, NowCallKeeps, WaitCallKeeps DEF ClockCall
<1>3. ASSUME NEW c \in Contexts, NowStep(c) PROVE ClockInv(F)'
  BY <1>3, NowHighKeeps, NowLowKeeps, NowNewHighKeeps, NowAgainKeeps, NowReturnKeeps
     DEF NowStep
<1>4. ASSUME NEW c \in Contexts, WaitStep(c) PROVE ClockInv(F)'
  BY <1>4, WaitStartKeeps, WaitLoopKeeps, WaitReturnKeeps DEF WaitStep
<1> QED
  BY <1>1, <1>2, <1>3, <1>4 DEF ClockNext

(* The invariant implies the properties. *)
(* A Duration is not longer than the ticks it is computed from.            *)
LEMMA FactorsOf ==
  ASSUME NEW a \in Nat, NEW b \in Nat, NEW n \in Int
  PROVE  n * (a * b) = (n * b) * a
BY SMT

LEMMA ProductsInOrder ==
  ASSUME NEW a \in Nat, NEW b \in Nat, a <= b, NEW n \in Nat
  PROVE  n * a <= n * b
BY SMT

LEMMA DurationIsShort ==
  ASSUME NEW n \in Nat
  PROVE  DurationOf(n) \in Nat /\ DurationOf(n) * TickDen <= n * Numerator
<1> DEFINE q == n \div RtcFrequency
           m == n % RtcFrequency
           g == (Numerator * m) \div Divisor
<1>1. /\ Numerator \in Nat /\ TickDen \in Nat \ {0} /\ Factor \in Nat \ {0}
      /\ Divisor \in Nat \ {0} /\ TickDen <= Divisor
  BY ClockAssumption, DivisorAssumption
<1>2. RtcFrequency \in Nat \ {0} /\ Second \in Nat
  BY <1>1 DEF RtcFrequency, Second
<1>3. q \in Nat /\ m \in Nat /\ n = q * RtcFrequency + m
  BY <1>2
<1>4. Numerator * m \in Nat
  BY <1>1, <1>3
<1>5. g \in Nat /\ g * Divisor <= Numerator * m
  BY <1>1, <1>4
<1>6. g * TickDen <= g * Divisor
  BY <1>1, <1>5, ProductsInOrder
<1>7. DurationOf(n) = q * Second + g
  BY DEF DurationOf
<1> HIDE DEF q, m, g
<1>8. (q * Second) * TickDen = (q * RtcFrequency) * Numerator
  BY <1>1, <1>3 DEF Second, RtcFrequency
<1>9. (q * Second + g) * TickDen = (q * Second) * TickDen + g * TickDen
  BY <1>1, <1>2, <1>3, <1>5
<1>10. (q * RtcFrequency + m) * Numerator = (q * RtcFrequency) * Numerator + Numerator * m
  BY <1>1, <1>2, <1>3
<1>11. q * Second \in Nat /\ q * RtcFrequency \in Nat
  BY <1>2, <1>3
<1> DEFINE A == (q * Second) * TickDen
           B == g * TickDen
           C == g * Divisor
           D == Numerator * m
<1>12. A \in Nat /\ B \in Nat /\ C \in Nat /\ D \in Nat
  BY <1>1, <1>4, <1>5, <1>11
<1>13. DurationOf(n) * TickDen = A + B /\ n * Numerator = A + D /\ B <= C /\ C <= D
  BY <1>3, <1>5, <1>6, <1>7, <1>8, <1>9, <1>10
<1> HIDE DEF A, B, C, D
<1>14. DurationOf(n) * TickDen <= n * Numerator
  BY <1>12, <1>13
<1> QED
  BY <1>5, <1>7, <1>11, <1>14

(* The tick that had begun before the call of wait is the only one that is *)
(* not a whole one.                                                        *)
LEMMA LessOneTick ==
  ASSUME NEW n \in Nat, NEW p \in 0 .. Phases - 1, NEW o \in 0 .. Phases - 1
  PROVE  n * Phases + p - o + Phases > n * Phases
<1>1. Phases \in Nat /\ n * Phases \in Nat
  BY ClockAssumption
<1> DEFINE P == n * Phases
<1>2. P \in Nat
  BY <1>1
<1> HIDE DEF P
<1>3. P + p - o + Phases > P
  BY <1>1, <1>2
<1> QED
  BY <1>3 DEF P

LEMMA StrictProducts ==
  ASSUME NEW a \in Nat, NEW b \in Nat, a < b, NEW n \in Nat \ {0}
  PROVE  a * n < b * n
BY SMT

(* The invariant implies the properties. *)
LEMMA WaitIsOver ==
  ASSUME NEW F, Apart(F), ClockInv(F), NEW c \in Contexts, Timed(c), ~ TooEarly(c)
  PROVE  (Passed(c) + Phases) * Numerator > waiting[c].dur * TickDen * Phases
<1> DEFINE v == Value(c)  s == waiting[c].start  b == waiting[c].since
           n == Minus(v, s)  N == Minus(rtc, b)
<1>1. /\ v \in Times /\ s \in Times /\ b \in Times /\ rtc \in Times
      /\ waiting[c].dur \in Nat
      /\ phase \in 0 .. Phases - 1 /\ waiting[c].phase \in 0 .. Phases - 1
  BY PairIsTime DEF ClockInv, ClockTypeOK, Value
<1>2. Leq(v, rtc) /\ Leq(b, s) /\ Leq(s, v)
  <2>1. Leq(called[c], v) /\ Leq(v, rtc) /\ Leq(b, s) /\ Leq(s, called[c])
    BY DEF ClockInv, Sound, Started, Between, Agree, Timed
  <2>2. called[c] \in Times
    BY DEF ClockInv, ClockTypeOK
  <2> QED
    BY <1>1, <2>1, <2>2, LeqTransitive
<1>3. Minus(rtc, v) >= 0 /\ Minus(s, b) >= 0 /\ n >= 0
  BY <1>1, <1>2, MinusNonNegative
<1>4. /\ N = Minus(rtc, v) + Minus(v, b)
      /\ Minus(v, b) = n + Minus(s, b)
      /\ Minus(rtc, v) \in Int /\ n \in Int /\ Minus(s, b) \in Int
  BY <1>1, MinusAdds
<1>5. ~ (DurationOf(n) < waiting[c].dur)
  BY DEF TooEarly, Elapsed
<1>6. Passed(c) = N * Phases + phase - waiting[c].phase
  BY DEF Passed
<1> HIDE DEF v, s, b, n, N
<1>7. n \in Nat /\ N \in Nat /\ n <= N
  BY <1>3, <1>4
<1> DEFINE d == waiting[c].dur
<1>8. /\ Numerator \in Nat \ {0} /\ TickDen \in Nat \ {0} /\ Phases \in Nat \ {0}
      /\ d \in Nat /\ DurationOf(n) \in Nat /\ d <= DurationOf(n)
  BY <1>1, <1>5, <1>7, ClockAssumption, DurationIsShort
<1> HIDE DEF d
<1>9. d * TickDen <= N * Numerator
  <2>1. TickDen * d <= TickDen * DurationOf(n)
    BY <1>8, ProductsInOrder
  <2>2. DurationOf(n) * TickDen <= n * Numerator
    BY <1>7, DurationIsShort
  <2>3. Numerator * n <= Numerator * N
    BY <1>7, <1>8, ProductsInOrder
  <2> DEFINE D == TickDen * d  E == TickDen * DurationOf(n)
             G == Numerator * n  H == Numerator * N
  <2>4. D \in Nat /\ E \in Nat /\ G \in Nat /\ H \in Nat
    BY <1>7, <1>8
  <2>5. d * TickDen = D /\ DurationOf(n) * TickDen = E /\ n * Numerator = G
        /\ N * Numerator = H
    BY <1>7, <1>8
  <2>6. D <= E /\ E <= G /\ G <= H
    BY <2>1, <2>2, <2>3, <2>5
  <2> HIDE DEF D, E, G, H
  <2>7. D <= H
    BY <2>4, <2>6
  <2> QED
    BY <2>5, <2>7
<1>10. Phases * (d * TickDen) <= Phases * (N * Numerator)
  <2>1. d * TickDen \in Nat /\ N * Numerator \in Nat
    BY <1>7, <1>8
  <2> QED
    BY <1>8, <1>9, <2>1, ProductsInOrder
<1>11. Passed(c) + Phases > N * Phases
  BY <1>1, <1>6, <1>7, LessOneTick
<1>12. (N * Phases) * Numerator < (Passed(c) + Phases) * Numerator
  <2>1. N * Phases \in Nat
    BY <1>7, <1>8
  <2>2. Passed(c) + Phases \in Int
    BY <1>1, <1>6, <1>8, <2>1
  <2>3. Passed(c) + Phases \in Nat
    BY <1>11, <2>1, <2>2
  <2> QED
    BY <1>8, <1>11, <2>1, <2>3, StrictProducts
<1>13. /\ Phases * (d * TickDen) = (d * TickDen) * Phases
       /\ Phases * (N * Numerator) = (N * Phases) * Numerator
  BY <1>7, <1>8
<1>14. (d * TickDen) * Phases <= (N * Phases) * Numerator
  BY <1>10, <1>13
<1>15. (d * TickDen) * Phases \in Int /\ (N * Phases) * Numerator \in Int
       /\ (Passed(c) + Phases) * Numerator \in Int
  <2>1. Passed(c) \in Int
    <3>1. N * Phases \in Int
      BY <1>7, <1>8
    <3> QED
      BY <1>1, <1>6, <3>1, <1>8
  <2> QED
    BY <1>7, <1>8, <2>1
<1> DEFINE X == (d * TickDen) * Phases
           Y == (N * Phases) * Numerator
           Z == (Passed(c) + Phases) * Numerator
<1> HIDE DEF X, Y, Z
<1>16. X < Z
  <2>1. X \in Int /\ Y \in Int /\ Z \in Int /\ X <= Y /\ Y < Z
    BY <1>12, <1>14, <1>15 DEF X, Y, Z
  <2> QED
    BY <2>1
<1> QED
  BY <1>15, <1>16 DEF X, Z, d

LEMMA ClockSafe ==
  ASSUME NEW F, Apart(F), ClockInv(F)
  PROVE  ClockTypeOK /\ NowIsTime /\ WaitsLongEnough
<1>1. ClockTypeOK
  BY DEF ClockInv
<1>2. NowIsTime
  BY DEF ClockInv, Sound, Between, NowIsTime, Agree
<1>3. WaitsLongEnough
  BY WaitIsOver DEF WaitsLongEnough
<1> QED
  BY <1>1, <1>2, <1>3

(***************************************************************************)
(* A program whose contexts use the clock and nothing else.                *)
(***************************************************************************)
LEMMA NothingElse == Apart({NoCall})
BY DEF Apart, NoCall, Call, Timing

LEMMA ClockInvariant == ClockSpec => []ClockInv({NoCall})
<1>1. ContextsInit /\ ClockInit => ClockInv({NoCall})
  BY NothingElse, ClockInitInv
<1>2. ClockInv({NoCall}) /\ [ClockNext]_<<contextVars, clockVars>> => ClockInv({NoCall})'
  <2> SUFFICES ASSUME ClockInv({NoCall}), [ClockNext]_<<contextVars, clockVars>>
               PROVE  ClockInv({NoCall})'
    OBVIOUS
  <2>1. CASE ClockNext
    BY <2>1, NothingElse, ClockStep
  <2>2. CASE UNCHANGED <<contextVars, clockVars>>
    BY <2>2 DEF contextVars, clockVars, ClockInv, ClockTypeOK, TaskOK, Sound, Started,
                Between, Value
  <2> QED
    BY <2>1, <2>2
<1> QED
  BY <1>1, <1>2, PTL DEF ClockSpec

(* The variables of the clock have their types. *)
THEOREM ClockTyped == ClockSpec => []ClockTypeOK
<1>1. ClockInv({NoCall}) => ClockTypeOK
  BY NothingElse, ClockSafe
<1> QED
  BY <1>1, ClockInvariant, PTL

(* What Instant::now is about to return is the time at a moment of its     *)
(* call, with any number of nested handlers and any register width.        *)
THEOREM NowReturnsATime == ClockSpec => []NowIsTime
<1>1. ClockInv({NoCall}) => NowIsTime
  BY NothingElse, ClockSafe
<1> QED
  BY <1>1, ClockInvariant, PTL

(* wait blocks for at least the duration it was given, whatever handlers   *)
(* run and however long they take.                                         *)
THEOREM WaitBlocks == ClockSpec => []WaitsLongEnough
<1>1. ClockInv({NoCall}) => WaitsLongEnough
  BY NothingElse, ClockSafe
<1> QED
  BY <1>1, ClockInvariant, PTL

=============================================================================
