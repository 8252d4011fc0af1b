--------------------------- MODULE DriversProofs ---------------------------
(***************************************************************************)
(* Programs that use the drivers: for any number of contexts that preempt  *)
(* each other and any choice of drivers they use.                          *)
(*                                                                         *)
(* Each group of drivers has an invariant of its own, which speaks of the  *)
(* variables of the group and of the calls in progress that belong to it.  *)
(* A step of another group leaves both alone (Foreign), so that the        *)
(* invariants are proved one by one and hold together.                     *)
(***************************************************************************)
EXTENDS Drivers, ClockProofs, FiniteSetTheorems, SequenceTheorems

(***************************************************************************)
(* The calls that can be in progress, by group.                            *)
(***************************************************************************)
HandleCalls ==
  [op : {"take"}, at : {"first", "peripheral", "free"}, on : Handles]
    \cup [op : {"print"}, at : {"first", "peripheral", "free", "write", "release"},
          on : {"serial"}]
    \cup [op : {"write_all"}, at : {"write"}, on : {"serial"}]
    \cup [op : Methods, at : {"modify"}, on : Leds]

DcpCalls ==
  [op : {"new"}, at : {"init", "install", "enable"}, on : Drivers]
    \cup [op : {"drop"}, at : {"disable", "free"}, on : {"sha"}]
    \cup [op : {"xcrypt"}, at : {"sema", "status"}, on : Aes]

RngCalls ==
  [op : RngOps, at : {"esr", "seed", "level", "out"}, on : {"rng"}]
    \cup [op : {"stats"}, at : {"seed"}, on : {"rng"}]

BoardCalls == [op : {"boot"}, at : {"issue", "wait"}, on : {"board"}]

CallsOf(G) == G \cup {NoCall}

Calls ==
  {NoCall} \cup HandleCalls \cup DcpCalls \cup ClockCalls \cup RngCalls \cup BoardCalls

CallsOK == task \in [Contexts -> Calls]

HandleOps == {"take", "print", "write_all", "on", "off", "toggle"}
DcpOps == {"new", "drop", "xcrypt"}
RngAll == {"next_u32", "write", "generate", "stats"}

(* What a step of context c does to the calls: it replaces c's by one of   *)
(* the same group G.                                                       *)
Effect(c, G) ==
  /\ task[c] \in CallsOf(G)
  /\ \E k \in CallsOf(G) : task' = [task EXCEPT ![c] = k]

(* A step leaves the calls with an operation in O alone.                   *)
Foreign(O) ==
  \A d \in Contexts : task[d].op \in O \/ task'[d].op \in O => task'[d] = task[d]

(***************************************************************************)
(* The effect of the steps on the calls.                                   *)
(***************************************************************************)
LEMMA OpOfCall ==
  /\ \A k \in HandleCalls : k.op \in HandleOps
  /\ \A k \in DcpCalls : k.op \in DcpOps
  /\ \A k \in ClockCalls : k.op \in Timing
  /\ \A k \in RngCalls : k.op \in RngAll
  /\ \A k \in BoardCalls : k.op = "boot"
  /\ NoCall.op = "none" /\ NoCall.at = "none" /\ NoCall.on = "none"
<1>1. \A k \in HandleCalls : k.op \in HandleOps
  BY DEF HandleCalls, HandleOps, Methods
<1>2. \A k \in DcpCalls : k.op \in DcpOps
  BY DEF DcpCalls, DcpOps
<1>3. \A k \in ClockCalls : k.op \in Timing
  BY DEF ClockCalls
<1>4. \A k \in RngCalls : k.op \in RngAll
  BY DEF RngCalls, RngOps, RngAll
<1>5. \A k \in BoardCalls : k.op = "boot"
  BY DEF BoardCalls
<1> QED
  BY <1>1, <1>2, <1>3, <1>4, <1>5 DEF NoCall, Call

(* The group of a call is known from its operation. *)
LEMMA GroupOfCall ==
  ASSUME CallsOK, NEW c \in Contexts
  PROVE  /\ task[c].op \in HandleOps => task[c] \in HandleCalls
         /\ task[c].op \in DcpOps => task[c] \in DcpCalls
         /\ task[c].op \in Timing => task[c] \in ClockCalls
         /\ task[c].op \in RngAll => task[c] \in RngCalls
         /\ task[c].op = "boot" => task[c] \in BoardCalls
         /\ task[c].op = "none" => task[c] = NoCall
         /\ task[c] = Call(task[c].op, task[c].at, task[c].on)
<1> DEFINE k == task[c]
<1>1. \/ k = NoCall \/ k \in HandleCalls \/ k \in DcpCalls \/ k \in ClockCalls
      \/ k \in RngCalls \/ k \in BoardCalls
  BY DEF CallsOK, Calls
<1>2. k = Call(k.op, k.at, k.on)
  BY <1>1 DEF HandleCalls, DcpCalls, ClockCalls, RngCalls, BoardCalls, NoCall, Call
<1> HIDE DEF k
<1>3. /\ k.op \in HandleOps => k \in HandleCalls
      /\ k.op \in DcpOps => k \in DcpCalls
      /\ k.op \in Timing => k \in ClockCalls
      /\ k.op \in RngAll => k \in RngCalls
      /\ k.op = "boot" => k \in BoardCalls
      /\ k.op = "none" => k = NoCall
  BY <1>1, OpOfCall DEF HandleOps, DcpOps, Timing, RngAll
<1> QED
  BY <1>2, <1>3 DEF k

LEMMA GotoEffect ==
  ASSUME CallsOK, NEW c \in Contexts, NEW at, Goto(c, at)
  PROVE  task' = [task EXCEPT ![c] = Call(task[c].op, at, task[c].on)]
<1>1. task[c] = Call(task[c].op, task[c].at, task[c].on)
  BY GroupOfCall
<1>2. [task[c] EXCEPT !.at = at] = Call(task[c].op, at, task[c].on)
  BY <1>1 DEF Call
<1>3. task' = [task EXCEPT ![c] = [task[c] EXCEPT !.at = at]]
  BY DEF Goto
<1> QED
  BY <1>2, <1>3

LEMMA SameEffect ==
  ASSUME CallsOK, NEW c \in Contexts, NEW G, task[c] \in CallsOf(G), task' = task
  PROVE  Effect(c, G)
<1>1. task' = [task EXCEPT ![c] = task[c]]
  BY DEF CallsOK
<1> QED
  BY <1>1 DEF Effect

LEMMA EffectOf ==
  ASSUME NEW c \in Contexts, NEW G, task[c] \in CallsOf(G),
         NEW k \in CallsOf(G), task' = [task EXCEPT ![c] = k]
  PROVE  Effect(c, G)
BY DEF Effect

LEMMA ReturnEffect ==
  ASSUME NEW c \in Contexts, NEW G, task[c] \in CallsOf(G), Return(c)
  PROVE  Effect(c, G)
BY DEF Effect, Return, CallsOf

LEMMA IdleIn ==
  ASSUME NEW c, NEW G, MayCall(c) PROVE task[c] \in CallsOf(G)
BY DEF MayCall, CallsOf

LEMMA BeginEffect ==
  ASSUME NEW c \in Contexts, NEW G, NEW op, NEW at, NEW on,
         Begin(c, op, at, on), Call(op, at, on) \in G
  PROVE  Effect(c, G)
BY IdleIn DEF Begin, Effect, CallsOf

LEMMA OnceEffect ==
  ASSUME CallsOK, NEW c \in Contexts, NEW G, CallOnce(c)
  PROVE  Effect(c, G)
BY IdleIn, SameEffect DEF CallOnce

LEMMA GotoEffectIn ==
  ASSUME CallsOK, NEW c \in Contexts, NEW G, NEW at, Goto(c, at),
         task[c] \in CallsOf(G), Call(task[c].op, at, task[c].on) \in G
  PROVE  Effect(c, G)
<1>1. Call(task[c].op, at, task[c].on) \in CallsOf(G)
  BY DEF CallsOf
<1> QED
  BY <1>1, GotoEffect, EffectOf

LEMMA HandleEffect ==
  ASSUME CallsOK, NEW c \in Contexts, SingletonStep(c) \/ SingletonCall(c)
  PROVE  Effect(c, HandleCalls)
<1> DEFINE k == task[c]
<1>0. /\ k.op \in HandleOps => k \in HandleCalls
      /\ k.op \in HandleOps => k \in CallsOf(HandleCalls)
  BY GroupOfCall DEF CallsOf
<1>1. ASSUME k.op \in Taking, k.at \in {"first", "peripheral", "free"}
      PROVE  /\ k.op \in HandleOps
             /\ \A at \in {"first", "peripheral", "free"} :
                  Call(k.op, at, k.on) \in HandleCalls
             /\ k.op = "print" => Call(k.op, "write", k.on) \in HandleCalls
  BY <1>0, <1>1 DEF Taking, HandleOps, HandleCalls, Call, Methods
<1>2. ASSUME NEW h, Obtain(c, h), k.op \in Taking, k.at \in {"first", "peripheral", "free"}
      PROVE  Effect(c, HandleCalls)
  BY <1>0, <1>1, <1>2, GotoEffectIn, ReturnEffect DEF Obtain
<1>3. CASE TakeFirst(c)
  <2>1. k.op \in Taking /\ k.at = "first"
    BY <1>3 DEF TakeFirst, At
  <2>2. Goto(c, "peripheral") \/ Goto(c, "free")
    BY <1>3 DEF TakeFirst
  <2> QED
    BY <2>1, <2>2, <1>0, <1>1, GotoEffectIn
<1>4. CASE TakePeripheral(c)
  <2>1. k.op \in Taking /\ k.at = "peripheral"
    BY <1>4 DEF TakePeripheral, At
  <2>2. Obtain(c, k.on) \/ Return(c)
    BY <1>4 DEF TakePeripheral
  <2> QED
    BY <2>1, <2>2, <1>0, <1>1, <1>2, ReturnEffect
<1>5. CASE TakeFree(c)
  <2>1. k.op \in Taking /\ k.at = "free"
    BY <1>5 DEF TakeFree, At
  <2>2. Obtain(c, k.on) \/ Return(c)
    BY <1>5 DEF TakeFree
  <2> QED
    BY <2>1, <2>2, <1>0, <1>1, <1>2, ReturnEffect
<1>6. CASE WriteByte(c)
  <2>1. k.op \in Writing /\ k.at = "write"
    BY <1>6 DEF WriteByte, At
  <2>2. k.op \in HandleOps /\ (k.op = "print" => Call(k.op, "release", k.on) \in HandleCalls)
    BY <2>1, <1>0 DEF Writing, HandleOps, HandleCalls, Call, Methods
  <2>3. task' = task \/ (k.op = "print" /\ Goto(c, "release")) \/ Return(c)
    BY <1>6 DEF WriteByte, contextVars
  <2> QED
    BY <2>2, <2>3, <1>0, GotoEffectIn, ReturnEffect, SameEffect
<1>7. CASE PrintRelease(c)
  <2>1. k.op \in HandleOps /\ Return(c)
    BY <1>7 DEF PrintRelease, At, HandleOps
  <2> QED
    BY <2>1, <1>0, ReturnEffect
<1>8. CASE LedWrite(c)
  <2>1. k.op \in HandleOps /\ Return(c)
    BY <1>8 DEF LedWrite, At, HandleOps, Methods
  <2> QED
    BY <2>1, <1>0, ReturnEffect
<1>9. CASE SingletonCall(c)
  <2>1. ASSUME NEW h \in Handles, NEW op \in Taking, TakeLoad(c, h, op)
        PROVE  Effect(c, HandleCalls)
    <3>1. \A at \in {"first", "free"} : Call(op, at, h) \in HandleCalls
      BY <2>1 DEF TakeLoad, HandleCalls, Call, Taking, Handles
    <3>2. Begin(c, op, "first", h) \/ Begin(c, op, "free", h)
      BY <2>1 DEF TakeLoad
    <3> QED
      BY <3>1, <3>2, BeginEffect
  <2>2. ASSUME NEW h \in Handles, Release(c, h) \/ RawTake(c, h)
        PROVE  Effect(c, HandleCalls)
    BY <2>2, OnceEffect DEF Release, RawTake
  <2>3. CASE WriteAll(c)
    <3>1. Call("write_all", "write", "serial") \in HandleCalls
      BY DEF HandleCalls, Call
    <3> QED
      BY <2>3, <3>1, BeginEffect DEF WriteAll
  <2>4. ASSUME NEW m \in Methods, NEW led \in Leds, LedRead(c, m, led)
        PROVE  Effect(c, HandleCalls)
    <3>1. Call(m, "modify", led) \in HandleCalls
      BY DEF HandleCalls, Call
    <3> QED
      BY <2>4, <3>1, BeginEffect DEF LedRead
  <2> QED
    BY <1>9, <2>1, <2>2, <2>3, <2>4 DEF SingletonCall
<1> QED
  BY <1>3, <1>4, <1>5, <1>6, <1>7, <1>8, <1>9 DEF SingletonStep

LEMMA DcpEffect ==
  ASSUME CallsOK, NEW c \in Contexts, DcpStep(c) \/ DcpCall(c)
  PROVE  Effect(c, DcpCalls)
<1> DEFINE k == task[c]
<1>0. k.op \in DcpOps => k \in DcpCalls /\ k \in CallsOf(DcpCalls)
  BY GroupOfCall DEF CallsOf
<1>1. ASSUME NEW op \in DcpOps, NEW at, At(c, op, at)
      PROVE  /\ k \in DcpCalls /\ k \in CallsOf(DcpCalls)
             /\ op = "new" => \A to \in {"install", "enable"} : Call(k.op, to, k.on) \in DcpCalls
             /\ op = "drop" => Call(k.op, "free", k.on) \in DcpCalls
             /\ op = "xcrypt" => Call(k.op, "status", k.on) \in DcpCalls
  BY <1>0, <1>1 DEF At, DcpCalls, Call, DcpOps
<1>2. "new" \in DcpOps /\ "drop" \in DcpOps /\ "xcrypt" \in DcpOps
  BY DEF DcpOps
<1>3. CASE InitFlag(c) \/ InitSkip(c) \/ InitInstall(c)
  <2>1. At(c, "new", "init") \/ At(c, "new", "install")
    BY <1>3 DEF InitFlag, InitSkip, InitInstall
  <2>2. Goto(c, "install") \/ Goto(c, "enable") \/ task' = task
    BY <1>3 DEF InitFlag, InitSkip, InitInstall, Abort
  <2> QED
    BY <2>1, <2>2, <1>1, <1>2, GotoEffectIn, SameEffect
<1>4. CASE NewEnable(c) \/ NewTimeout(c)
  <2>1. At(c, "new", "enable") /\ (Return(c) \/ task' = task)
    BY <1>4 DEF NewEnable, NewTimeout, Abort
  <2> QED
    BY <2>1, <1>1, <1>2, ReturnEffect, SameEffect
<1>5. CASE ShaDisable(c) \/ ShaFree(c)
  <2>1. /\ At(c, "drop", "disable") \/ At(c, "drop", "free")
        /\ Goto(c, "free") \/ Return(c)
    BY <1>5 DEF ShaDisable, ShaFree
  <2> QED
    BY <2>1, <1>1, <1>2, ReturnEffect, GotoEffectIn
<1>6. CASE XcryptSema(c) \/ XcryptDone(c) \/ XcryptAborts(c)
  <2>1. /\ At(c, "xcrypt", "sema") \/ At(c, "xcrypt", "status")
        /\ Goto(c, "status") \/ Return(c) \/ task' = task
    BY <1>6 DEF XcryptSema, XcryptDone, XcryptAborts, Abort
  <2> QED
    BY <2>1, <1>1, <1>2, ReturnEffect, GotoEffectIn, SameEffect
<1>7. CASE DcpCall(c)
  <2>1. ASSUME NEW d \in Drivers, NewFlag(c, d)
        PROVE  Effect(c, DcpCalls)
    <3>1. Call("new", "init", d) \in DcpCalls
      BY DEF DcpCalls, Call
    <3> QED
      BY <2>1, <3>1, BeginEffect DEF NewFlag
  <2>2. ASSUME NEW d \in Drivers, NewNone(c, d) \/ AesDrop(c, d)
        PROVE  Effect(c, DcpCalls)
    <3>1. CallOnce(c) \/ (MayCall(c) /\ task' = task)
      BY <2>2 DEF NewNone, AesDrop, Abort
    <3> QED
      BY <3>1, OnceEffect, IdleIn, SameEffect
  <2>3. ASSUME NEW d \in Drivers, XcryptPtr(c, d)
        PROVE  Effect(c, DcpCalls)
    <3>1. Call("xcrypt", "sema", d) \in DcpCalls
      BY <2>3 DEF DcpCalls, Call, XcryptPtr
    <3> QED
      BY <2>3, <3>1, BeginEffect DEF XcryptPtr
  <2>4. ASSUME NEW n \in InputLens, ShaInput(c, n) PROVE Effect(c, DcpCalls)
    BY <2>4, OnceEffect, IdleIn, SameEffect DEF ShaInput, Abort
  <2>5. CASE ShaReset(c)
    BY <2>5, OnceEffect DEF ShaReset
  <2>6. CASE ShaEnd(c)
    <3>1. Call("drop", "disable", "sha") \in DcpCalls
      BY DEF DcpCalls, Call
    <3> QED
      BY <2>6, <3>1, BeginEffect, IdleIn, SameEffect DEF ShaEnd, Abort
  <2> QED
    BY <1>7, <2>1, <2>2, <2>3, <2>4, <2>5, <2>6 DEF DcpCall
<1> QED
  BY <1>3, <1>4, <1>5, <1>6, <1>7 DEF DcpStep

LEMMA ClockEffect ==
  ASSUME CallsOK, NEW c \in Contexts, NowStep(c) \/ WaitStep(c) \/ ClockCall(c)
  PROVE  Effect(c, ClockCalls)
<1> DEFINE k == task[c]
<1>0. /\ k.op \in Timing => k \in ClockCalls /\ k \in CallsOf(ClockCalls)
      /\ \A op \in Timing, at \in {"high", "low", "new_high", "new_low"} :
           Call(op, at, "rtc") \in ClockCalls
      /\ "now" \in Timing /\ "wait" \in Timing /\ "elapsed" \in Timing
  BY GroupOfCall DEF CallsOf, ClockCalls, Call, Timing
<1>1. ASSUME k.op \in Timing
      PROVE  \A at \in {"high", "low", "new_high", "new_low"} :
               Call(k.op, at, k.on) \in ClockCalls
  BY <1>0, <1>1 DEF ClockCalls, Call
<1>2. CASE NowHigh(c) \/ NowLow(c) \/ NowNewHigh(c) \/ NowAgain(c)
  <2>1. k.op \in Timing
    BY <1>2 DEF NowHigh, NowLow, NowNewHigh, NowAgain, At
  <2>2. Goto(c, "low") \/ Goto(c, "new_high") \/ Goto(c, "new_low")
    BY <1>2 DEF NowHigh, NowLow, NowNewHigh, NowAgain
  <2> QED
    BY <2>1, <2>2, <1>0, <1>1, GotoEffectIn
<1>3. CASE NowReturn(c) \/ WaitReturn(c)
  <2>1. k.op \in Timing /\ Return(c)
    BY <1>0, <1>3 DEF NowReturn, WaitReturn, At
  <2> QED
    BY <2>1, <1>0, ReturnEffect
<1>4. CASE WaitStart(c)
  <2>1. k.op \in Timing /\ task' = [task EXCEPT ![c] = Call("elapsed", "high", "rtc")]
    BY <1>0, <1>4 DEF WaitStart, At
  <2>2. Call("elapsed", "high", "rtc") \in CallsOf(ClockCalls)
    BY <1>0 DEF CallsOf
  <2> QED
    BY <2>1, <2>2, <1>0, EffectOf
<1>5. CASE WaitLoop(c)
  <2>1. k.op \in Timing /\ Goto(c, "high")
    BY <1>0, <1>5 DEF WaitLoop, At
  <2> QED
    BY <2>1, <1>0, <1>1, GotoEffectIn
<1>6. CASE ClockCall(c)
  <2>1. Begin(c, "now", "high", "rtc") \/ Begin(c, "wait", "high", "rtc")
    BY <1>6 DEF ClockCall, NowCall, WaitCall
  <2> QED
    BY <2>1, <1>0, BeginEffect
<1> QED
  BY <1>2, <1>3, <1>4, <1>5, <1>6 DEF NowStep, WaitStep

LEMMA RngEffect ==
  ASSUME CallsOK, NEW c \in Contexts, RngStep(c) \/ RngUse(c)
  PROVE  Effect(c, RngCalls)
<1> DEFINE k == task[c]
<1>0. /\ k.op \in RngAll => k \in RngCalls /\ k \in CallsOf(RngCalls)
      /\ k.op \in RngOps => \A at \in {"seed", "level", "out"} : Call(k.op, at, k.on) \in RngCalls
      /\ \A op \in RngOps : Call(op, "esr", "rng") \in RngCalls
      /\ Call("stats", "seed", "rng") \in RngCalls
      /\ "stats" \in RngAll /\ RngOps \subseteq RngAll
      /\ "next_u32" \in RngOps /\ "write" \in RngOps /\ "generate" \in RngOps
  BY GroupOfCall DEF CallsOf, RngCalls, Call, RngOps, RngAll
<1>1. CASE CheckError(c)
  <2>1. k.op \in RngOps /\ (Goto(c, "seed") \/ Goto(c, "level"))
    BY <1>1 DEF CheckError, RngAt, At
  <2> QED
    BY <2>1, <1>0, GotoEffectIn
<1>2. CASE WaitForInitialSeed(c)
  <2>1. k.op \in RngOps \/ k.op = "stats"
    BY <1>2 DEF WaitForInitialSeed, RngAt, At
  <2>2. IF k.op = "stats" THEN Return(c) ELSE Goto(c, "level")
    BY <1>2 DEF WaitForInitialSeed
  <2> QED
    BY <2>1, <2>2, <1>0, GotoEffectIn, ReturnEffect
<1>3. CASE WaitForFifoLevel(c)
  <2>1. k.op \in RngOps /\ (Return(c) \/ Goto(c, "out"))
    BY <1>3 DEF WaitForFifoLevel, RngAt, At
  <2> QED
    BY <2>1, <1>0, GotoEffectIn, ReturnEffect
<1>4. CASE ReadOut(c)
  <2>1. k.op \in RngOps /\ (Return(c) \/ task' = task)
    BY <1>4 DEF ReadOut, RngAt, At, contextVars
  <2> QED
    BY <2>1, <1>0, ReturnEffect, SameEffect
<1>5. CASE RngUse(c)
  <2>1. \/ CallOnce(c) \/ Begin(c, "stats", "seed", "rng")
        \/ \E op \in RngOps : Begin(c, op, "esr", "rng")
    BY <1>0, <1>5 DEF RngUse, Initialize, NextU32, Generate, Stats, Write, RngCall
  <2> QED
    BY <2>1, <1>0, BeginEffect, OnceEffect
<1> QED
  BY <1>1, <1>2, <1>3, <1>4, <1>5 DEF RngStep

LEMMA BoardEffect ==
  ASSUME CallsOK, NEW c \in Contexts, StartUpStep(c) \/ Boot(c)
  PROVE  Effect(c, BoardCalls)
<1> DEFINE k == task[c]
<1>0. /\ k.op = "boot" => k \in BoardCalls /\ k \in CallsOf(BoardCalls)
      /\ k.op = "boot" => \A at \in {"issue", "wait"} : Call(k.op, at, k.on) \in BoardCalls
      /\ Call("boot", "issue", "board") \in BoardCalls
  BY GroupOfCall DEF CallsOf, BoardCalls, Call
<1>1. CASE StartUpStep(c)
  <2>1. k.op = "boot"
    BY <1>1 DEF StartUpStep, Issue, WaitOver, WaitFails, At
  <2>2. ASSUME Done(c) PROVE Goto(c, "issue") \/ Return(c)
    BY <2>2 DEF Done
  <2>3. ASSUME Fatal(c) PROVE Return(c)
    BY <2>3 DEF Fatal
  <2>4. ASSUME Issue(c) PROVE Wait(c) \/ Done(c) \/ Fatal(c)
    BY <2>4 DEF Issue, Enable, Start, i2c_tx, i2c_restart, Receive, Stop, Get, Drain,
                ResetUart, Delay
  <2>5. Wait(c) \/ Done(c) \/ Fatal(c)
    BY <1>1, <2>4 DEF StartUpStep, WaitOver, WaitFails
  <2> QED
    BY <2>1, <2>2, <2>3, <2>5, <1>0, GotoEffectIn, ReturnEffect DEF Wait
<1>2. CASE Boot(c)
  BY <1>0, <1>2, BeginEffect DEF Boot
<1> QED
  BY <1>1, <1>2

(***************************************************************************)
(* A step of one group is foreign to the others.                           *)
(***************************************************************************)
LEMMA EffectIsForeign ==
  ASSUME CallsOK, NEW c \in Contexts, NEW G, Effect(c, G),
         NEW O, \A k \in G : k.op \notin O, "none" \notin O
  PROVE  Foreign(O)
<1>1. PICK k \in CallsOf(G) : task' = [task EXCEPT ![c] = k]
  BY DEF Effect
<1>2. \A j \in CallsOf(G) : j.op \notin O
  BY OpOfCall DEF CallsOf
<1>3. task'[c] = k /\ \A d \in Contexts : d # c => task'[d] = task[d]
  BY <1>1 DEF CallsOK
<1>4. task[c].op \notin O /\ task'[c].op \notin O
  BY <1>1, <1>2, <1>3 DEF Effect
<1> QED
  BY <1>3, <1>4 DEF Foreign

LEMMA UnchangedIsForeign ==
  ASSUME task' = task, NEW O PROVE Foreign(O)
BY DEF Foreign

LEMMA EffectKeepsCalls ==
  ASSUME CallsOK, NEW c \in Contexts,
         NEW G \in {HandleCalls, DcpCalls, ClockCalls, RngCalls, BoardCalls}, Effect(c, G)
  PROVE  CallsOK'
<1>1. PICK k \in CallsOf(G) : task' = [task EXCEPT ![c] = k]
  BY DEF Effect
<1>2. k \in Calls
  BY DEF Calls, CallsOf
<1> QED
  BY <1>1, <1>2 DEF CallsOK

(***************************************************************************)
(* A step of the program is one of a group, and foreign to the others.     *)
(***************************************************************************)
HandleNext == (\E c \in Contexts : SingletonStep(c) \/ SingletonCall(c)) \/ Transmit
DcpNext == (\E c \in Contexts : DcpStep(c) \/ DcpCall(c)) \/ Engine
RngNext == (\E c \in Contexts : RngStep(c) \/ RngUse(c)) \/ Seed \/ Fill \/ Fault
BoardNext == (\E c \in Contexts : StartUpStep(c) \/ Boot(c)) \/ UartSent \/ I2cBus

LEMMA NextByGroup ==
  ASSUME [Next]_vars
  PROVE  \/ Handle(HandleNext) \/ Crypto(DcpNext) \/ Timer(ClockNext)
         \/ Random(RngNext) \/ Board(BoardNext)
         \/ UNCHANGED vars
<1>1. ASSUME NEW c \in Contexts, Step(c)
      PROVE  \/ Handle(HandleNext) \/ Crypto(DcpNext) \/ Timer(ClockNext)
             \/ Random(RngNext) \/ Board(BoardNext)
  <2>1. CASE Handle(SingletonStep(c))
    BY <2>1 DEF Handle, HandleNext
  <2>2. CASE Crypto(DcpStep(c))
    BY <2>2 DEF Crypto, DcpNext
  <2>3. CASE Timer(NowStep(c) \/ WaitStep(c))
    BY <2>3 DEF Timer, ClockNext
  <2>4. CASE Random(RngStep(c))
    BY <2>4 DEF Random, RngNext
  <2>5. CASE Board(StartUpStep(c))
    BY <2>5 DEF Board, BoardNext
  <2> QED
    BY <1>1, <2>1, <2>2, <2>3, <2>4, <2>5 DEF Step
<1>2. ASSUME NEW c \in Contexts, CallAny(c)
      PROVE  \/ Handle(HandleNext) \/ Crypto(DcpNext) \/ Timer(ClockNext)
             \/ Random(RngNext) \/ Board(BoardNext)
  <2>1. CASE Handle(SingletonCall(c))
    BY <2>1 DEF Handle, HandleNext
  <2>2. CASE Crypto(DcpCall(c))
    BY <2>2 DEF Crypto, DcpNext
  <2>3. CASE Timer(ClockCall(c))
    BY <2>3 DEF Timer, ClockNext
  <2>4. CASE Random(RngUse(c))
    BY <2>4 DEF Random, RngNext
  <2>5. CASE Board(Boot(c))
    BY <2>5 DEF Board, BoardNext
  <2> QED
    BY <1>2, <2>1, <2>2, <2>3, <2>4, <2>5 DEF CallAny
<1>3. CASE Uart \/ CryptoEngine \/ Rtc \/ Generator \/ Random(Fault) \/ Port \/ Board(I2cBus)
  <2>1. Uart => Handle(HandleNext)
    BY DEF Uart, Handle, HandleNext
  <2>2. CryptoEngine => Crypto(DcpNext)
    BY DEF CryptoEngine, Crypto, DcpNext
  <2>3. Rtc => Timer(ClockNext)
    BY DEF Rtc, Timer, ClockNext
  <2>4. Generator \/ Random(Fault) => Random(RngNext)
    BY DEF Generator, Random, RngNext
  <2>5. Port \/ Board(I2cBus) => Board(BoardNext)
    BY DEF Port, Board, BoardNext
  <2> QED
    BY <1>3, <2>1, <2>2, <2>3, <2>4, <2>5
<1> QED
  BY <1>1, <1>2, <1>3 DEF Next

LEMMA ForeignSteps ==
  ASSUME CallsOK
  PROVE  /\ HandleNext => /\ CallsOK' /\ Foreign(DcpOps) /\ Foreign(Timing)
                          /\ Foreign(RngAll) /\ Foreign({"boot"})
         /\ DcpNext => /\ CallsOK' /\ Foreign(HandleOps) /\ Foreign(Timing)
                       /\ Foreign(RngAll) /\ Foreign({"boot"})
         /\ ClockNext => /\ CallsOK' /\ Foreign(HandleOps) /\ Foreign(DcpOps)
                         /\ Foreign(RngAll) /\ Foreign({"boot"})
         /\ RngNext => /\ CallsOK' /\ Foreign(HandleOps) /\ Foreign(DcpOps)
                       /\ Foreign(Timing) /\ Foreign({"boot"})
         /\ BoardNext => /\ CallsOK' /\ Foreign(HandleOps) /\ Foreign(DcpOps)
                         /\ Foreign(Timing) /\ Foreign(RngAll)
<1>1. /\ HandleOps = {"take", "print", "write_all", "on", "off", "toggle"}
      /\ DcpOps = {"new", "drop", "xcrypt"} /\ Timing = {"now", "wait", "elapsed"}
      /\ RngAll = {"next_u32", "write", "generate", "stats"}
  BY DEF HandleOps, DcpOps, Timing, RngAll
<1>2. ASSUME task' = task
      PROVE  /\ CallsOK' /\ Foreign(HandleOps) /\ Foreign(DcpOps) /\ Foreign(Timing)
             /\ Foreign(RngAll) /\ Foreign({"boot"})
  BY <1>2, UnchangedIsForeign DEF CallsOK
<1>3. ASSUME HandleNext
      PROVE  CallsOK' /\ Foreign(DcpOps) /\ Foreign(Timing) /\ Foreign(RngAll) /\ Foreign({"boot"})
  <2>1. ASSUME NEW c \in Contexts, Effect(c, HandleCalls)
        PROVE  CallsOK' /\ Foreign(DcpOps) /\ Foreign(Timing) /\ Foreign(RngAll) /\ Foreign({"boot"})
    <3>1. \A k \in HandleCalls : k.op \notin DcpOps /\ k.op \notin Timing /\ k.op \notin RngAll
                                 /\ k.op \notin {"boot"}
      BY <1>1, OpOfCall
    <3>2. "none" \notin DcpOps /\ "none" \notin Timing /\ "none" \notin RngAll /\ "none" \notin {"boot"}
      BY <1>1
    <3> QED
      BY <2>1, <3>1, <3>2, EffectIsForeign, EffectKeepsCalls
  <2>2. Transmit => task' = task
    BY DEF Transmit, contextVars
  <2> QED
    BY <1>2, <1>3, <2>1, <2>2, HandleEffect DEF HandleNext
<1>4. ASSUME DcpNext
      PROVE  CallsOK' /\ Foreign(HandleOps) /\ Foreign(Timing) /\ Foreign(RngAll) /\ Foreign({"boot"})
  <2>1. ASSUME NEW c \in Contexts, Effect(c, DcpCalls)
        PROVE  CallsOK' /\ Foreign(HandleOps) /\ Foreign(Timing) /\ Foreign(RngAll) /\ Foreign({"boot"})
    <3>1. \A k \in DcpCalls : k.op \notin HandleOps /\ k.op \notin Timing /\ k.op \notin RngAll
                              /\ k.op \notin {"boot"}
      BY <1>1, OpOfCall
    <3>2. "none" \notin HandleOps /\ "none" \notin Timing /\ "none" \notin RngAll /\ "none" \notin {"boot"}
      BY <1>1
    <3> QED
      BY <2>1, <3>1, <3>2, EffectIsForeign, EffectKeepsCalls
  <2>2. Engine => task' = task
    BY DEF Engine, contextVars
  <2> QED
    BY <1>2, <1>4, <2>1, <2>2, DcpEffect DEF DcpNext
<1>5. ASSUME ClockNext
      PROVE  CallsOK' /\ Foreign(HandleOps) /\ Foreign(DcpOps) /\ Foreign(RngAll) /\ Foreign({"boot"})
  <2>1. ASSUME NEW c \in Contexts, Effect(c, ClockCalls)
        PROVE  CallsOK' /\ Foreign(HandleOps) /\ Foreign(DcpOps) /\ Foreign(RngAll) /\ Foreign({"boot"})
    <3>1. \A k \in ClockCalls : k.op \notin HandleOps /\ k.op \notin DcpOps /\ k.op \notin RngAll
                                /\ k.op \notin {"boot"}
      BY <1>1, OpOfCall
    <3>2. "none" \notin HandleOps /\ "none" \notin DcpOps /\ "none" \notin RngAll /\ "none" \notin {"boot"}
      BY <1>1
    <3> QED
      BY <2>1, <3>1, <3>2, EffectIsForeign, EffectKeepsCalls
  <2>2. Tick => task' = task
    BY DEF Tick, contextVars
  <2> QED
    BY <1>2, <1>5, <2>1, <2>2, ClockEffect DEF ClockNext
<1>6. ASSUME RngNext
      PROVE  CallsOK' /\ Foreign(HandleOps) /\ Foreign(DcpOps) /\ Foreign(Timing) /\ Foreign({"boot"})
  <2>1. ASSUME NEW c \in Contexts, Effect(c, RngCalls)
        PROVE  CallsOK' /\ Foreign(HandleOps) /\ Foreign(DcpOps) /\ Foreign(Timing) /\ Foreign({"boot"})
    <3>1. \A k \in RngCalls : k.op \notin HandleOps /\ k.op \notin DcpOps /\ k.op \notin Timing
                              /\ k.op \notin {"boot"}
      BY <1>1, OpOfCall
    <3>2. "none" \notin HandleOps /\ "none" \notin DcpOps /\ "none" \notin Timing /\ "none" \notin {"boot"}
      BY <1>1
    <3> QED
      BY <2>1, <3>1, <3>2, EffectIsForeign, EffectKeepsCalls
  <2>2. Seed \/ Fill \/ Fault => task' = task
    BY DEF Seed, Fill, Fault, contextVars
  <2> QED
    BY <1>2, <1>6, <2>1, <2>2, RngEffect DEF RngNext
<1>7. ASSUME BoardNext
      PROVE  CallsOK' /\ Foreign(HandleOps) /\ Foreign(DcpOps) /\ Foreign(Timing) /\ Foreign(RngAll)
  <2>1. ASSUME NEW c \in Contexts, Effect(c, BoardCalls)
        PROVE  CallsOK' /\ Foreign(HandleOps) /\ Foreign(DcpOps) /\ Foreign(Timing) /\ Foreign(RngAll)
    <3>1. \A k \in BoardCalls : k.op \notin HandleOps /\ k.op \notin DcpOps /\ k.op \notin Timing
                                /\ k.op \notin RngAll
      BY <1>1, OpOfCall
    <3>2. "none" \notin HandleOps /\ "none" \notin DcpOps /\ "none" \notin Timing /\ "none" \notin RngAll
      BY <1>1
    <3> QED
      BY <2>1, <3>1, <3>2, EffectIsForeign, EffectKeepsCalls
  <2>2. UartSent \/ I2cBus => task' = task
    BY DEF UartSent, I2cBus, contextVars
  <2> QED
    BY <1>2, <1>7, <2>1, <2>2, BoardEffect DEF BoardNext
<1> QED
  BY <1>3, <1>4, <1>5, <1>6, <1>7

(* What the invariant of each group has to be kept by.                     *)
LEMMA Frames ==
  ASSUME CallsOK, [Next]_vars
  PROVE  /\ CallsOK'
         /\ HandleNext \/ (UNCHANGED singletonVars /\ Foreign(HandleOps))
         /\ DcpNext \/ (UNCHANGED dcpVars /\ Foreign(DcpOps))
         /\ ClockNext \/ (UNCHANGED clockVars /\ Foreign(Timing))
         /\ RngNext \/ (UNCHANGED rngVars /\ Foreign(RngAll))
         /\ BoardNext \/ (UNCHANGED startUpVars /\ Foreign({"boot"}))
<1>1. CASE Handle(HandleNext)
  BY <1>1, ForeignSteps DEF Handle
<1>2. CASE Crypto(DcpNext)
  BY <1>2, ForeignSteps DEF Crypto
<1>3. CASE Timer(ClockNext)
  BY <1>3, ForeignSteps DEF Timer
<1>4. CASE Random(RngNext)
  BY <1>4, ForeignSteps DEF Random
<1>5. CASE Board(BoardNext)
  BY <1>5, ForeignSteps DEF Board
<1>6. CASE UNCHANGED vars
  BY <1>6, UnchangedIsForeign DEF vars, contextVars, CallsOK
<1> QED
  BY <1>1, <1>2, <1>3, <1>4, <1>5, <1>6, NextByGroup

LEMMA CallsInit == Init => CallsOK
BY DEF Init, ContextsInit, CallsOK, Calls

LEMMA ReturnFacts ==
  ASSUME CallsOK, NEW c \in Contexts, Return(c)
  PROVE  /\ task'[c] = NoCall
         /\ task'[c].op = "none" /\ task'[c].at = "none" /\ task'[c].on = "none"
         /\ \A d \in Contexts : d # c => task'[d] = task[d]
BY DEF Return, CallsOK, NoCall, Call

LEMMA GotoFacts ==
  ASSUME CallsOK, NEW c \in Contexts, NEW at, Goto(c, at)
  PROVE  /\ task'[c].op = task[c].op /\ task'[c].at = at /\ task'[c].on = task[c].on
         /\ \A d \in Contexts : d # c => task'[d] = task[d]
BY GotoEffect DEF CallsOK, Call

LEMMA BeginFacts ==
  ASSUME CallsOK, NEW c \in Contexts, NEW op, NEW at, NEW on, Begin(c, op, at, on)
  PROVE  /\ task'[c].op = op /\ task'[c].at = at /\ task'[c].on = on
         /\ task[c] = NoCall
         /\ task[c].op = "none" /\ task[c].at = "none" /\ task[c].on = "none"
         /\ \A d \in Contexts : d # c => task'[d] = task[d]
BY DEF Begin, MayCall, CallsOK, NoCall, Call

LEMMA OnceFacts ==
  ASSUME NEW c \in Contexts, CallOnce(c)
  PROVE  /\ task' = task /\ task[c] = NoCall
         /\ task[c].op = "none" /\ task[c].at = "none" /\ task[c].on = "none"
BY DEF CallOnce, MayCall, NoCall, Call

LEMMA NothingInProgress ==
  ASSUME Init, NEW c \in Contexts
  PROVE  task[c] = NoCall /\ task[c].op = "none" /\ task[c].at = "none" /\ task[c].on = "none"
<1>1. task = [d \in Contexts |-> NoCall]
  BY DEF Init, ContextsInit
<1> QED
  BY <1>1, OpOfCall

(***************************************************************************)
(* The random number generator.  Its handle has one owner for good, whose  *)
(* calls alone empty the FIFO; and once a call knows how many words to     *)
(* read, the hardware only adds to them.                                   *)
(***************************************************************************)
RngInv ==
  /\ RngTypeOK
  /\ \A c, d \in rngOwner : c = d
  /\ \A c \in Contexts : task[c].op \in RngAll => rngOwner = {c}
  /\ \A c \in Contexts : task[c].op \in RngOps /\ task[c].at = "out" => left >= 1 /\ left <= level
  /\ FreshWords

LEMMA RngInitInv == Init => RngInv
<1> SUFFICES ASSUME Init PROVE RngInv
  OBVIOUS
<1>1. \A c \in Contexts : task[c].op = "none"
  BY NothingInProgress, Zenon
<1>2. RngInit
  BY DEF Init
<1>3. RngTypeOK /\ FreshWords
  <2>1. /\ rngOwner \subseteq Contexts /\ ~ stale
        /\ {seeded, error, stale} \subseteq BOOLEAN
    BY <1>2, Zenon DEF RngInit
  <2>2. level \in 0 .. FifoSize /\ errors \in 0 .. MaxErrors /\ left \in Nat
    BY <1>2, RngAssumption DEF RngInit
  <2>3. job \in [words : Nat, len : Nat]
    BY <1>2 DEF RngInit
  <2> QED
    BY <2>1, <2>2, <2>3 DEF RngTypeOK, FreshWords
<1>4. \A c, d \in rngOwner : c = d
  BY <1>2 DEF RngInit
<1> QED
  BY <1>1, <1>3, <1>4 DEF RngInv, RngAll, RngOps

LEMMA RngForeign ==
  ASSUME RngInv, CallsOK', UNCHANGED rngVars, Foreign(RngAll)
  PROVE  RngInv'
<1>1. \A c \in Contexts : task'[c].op \in RngAll => task'[c] = task[c]
  BY DEF Foreign
<1>2. RngOps \subseteq RngAll
  BY DEF RngOps, RngAll
<1> QED
  BY <1>1, <1>2 DEF RngInv, RngTypeOK, FreshWords, rngVars

LEMMA RngOwnerStep ==
  ASSUME RngInv, CallsOK, NEW c \in Contexts, RngStep(c)
  PROVE  RngInv'
<1> USE DEF RngInv
<1>0. /\ level \in Nat /\ level <= FifoSize /\ left \in Nat /\ FifoSize \in Nat
      /\ job.words \in Nat /\ job.len \in Nat /\ seeded \in BOOLEAN /\ error \in BOOLEAN
      /\ ~ stale
  BY RngAssumption DEF RngTypeOK, FreshWords
<1>1. RngOps \subseteq RngAll /\ "stats" \in RngAll /\ "none" \notin RngAll
      /\ "stats" \notin RngOps
  BY DEF RngOps, RngAll
<1>2. task[c].op \in RngAll /\ rngOwner = {c} /\ rngOwner' = rngOwner
      /\ errors' = errors /\ job' = job
  BY <1>1 DEF RngStep, CheckError, WaitForInitialSeed, WaitForFifoLevel, ReadOut, RngAt, At,
              rngVars
<1>3. \A d \in Contexts : d # c => task[d].op \notin RngAll
  BY <1>2
<1>4. /\ task'[c].op \in RngAll => task'[c].op = task[c].op
      /\ \A d \in Contexts : d # c => task'[d] = task[d]
  BY <1>1, GotoFacts, ReturnFacts
     DEF RngStep, CheckError, WaitForInitialSeed, WaitForFifoLevel, ReadOut, contextVars
<1>5. \A d \in Contexts : task'[d].op \in RngAll => rngOwner' = {d}
  BY <1>2, <1>3, <1>4
<1>6. CASE CheckError(c)
  <2>1. task'[c].at # "out"
    BY <1>6, GotoFacts DEF CheckError
  <2>2. /\ (error' = FALSE /\ seeded' = FALSE /\ level' = 0) \/ UNCHANGED <<error, seeded, level>>
        /\ left' = left /\ stale' = stale
    BY <1>6 DEF CheckError
  <2>3. level' \in 0 .. FifoSize
    BY <1>0, <2>2
  <2>4. seeded' \in BOOLEAN /\ error' \in BOOLEAN
    BY <1>0, <2>2
  <2> QED
    BY <1>0, <1>1, <1>2, <1>3, <1>4, <1>5, <2>1, <2>2, <2>3, <2>4 DEF RngTypeOK, FreshWords
<1>7. CASE WaitForInitialSeed(c)
  <2>1. task'[c].at # "out"
    BY <1>7, GotoFacts, ReturnFacts DEF WaitForInitialSeed
  <2>2. UNCHANGED rngVars
    BY <1>7 DEF WaitForInitialSeed
  <2> QED
    BY <1>0, <1>1, <1>2, <1>3, <1>4, <1>5, <2>1, <2>2 DEF RngTypeOK, FreshWords, rngVars
<1>8. CASE WaitForFifoLevel(c)
  <2>1. left' = IF level < job.len THEN level ELSE job.len
    BY <1>8 DEF WaitForFifoLevel
  <2>2. left' \in Nat /\ left' <= level
    BY <1>0, <2>1
  <2>3. task'[c].at = "out" => left' # 0
    BY <1>8, GotoFacts, ReturnFacts DEF WaitForFifoLevel
  <2>4. UNCHANGED <<rngOwner, level, seeded, error, errors, job, stale>>
    BY <1>8 DEF WaitForFifoLevel
  <2> QED
    BY <1>0, <1>1, <1>3, <1>4, <1>5, <2>2, <2>3, <2>4 DEF RngTypeOK, FreshWords
<1>9. CASE ReadOut(c)
  <2>1. task[c].op \in RngOps /\ task[c].at = "out"
    BY <1>9 DEF ReadOut, RngAt, At
  <2>2. left >= 1 /\ left <= level
    BY <2>1
  <2>6. level # 0
    BY <1>0, <2>2
  <2>3. /\ level' = level - 1 /\ left' = left - 1
        /\ UNCHANGED <<rngOwner, seeded, error, errors, job>>
    BY <1>9, <2>6 DEF ReadOut
  <2>7. stale' = FALSE
    BY <1>0, <1>9, <2>6 DEF ReadOut
  <2>4. task'[c].op \in RngAll => left # 1
    BY <1>1, <1>9, ReturnFacts DEF ReadOut
  <2>5. level' \in 0 .. FifoSize /\ left' \in Nat /\ left' <= level'
        /\ (task'[c].op \in RngAll => left' >= 1)
    BY <1>0, <2>2, <2>3, <2>4
  <2>8. RngTypeOK'
    <3>1. /\ rngOwner \subseteq Contexts /\ errors \in 0 .. MaxErrors
          /\ job \in [words : Nat, len : Nat]
      BY DEF RngTypeOK
    <3>2. {seeded', error', stale'} \subseteq BOOLEAN
      BY <1>0, <2>3, <2>7, Zenon
    <3>3. /\ rngOwner' \subseteq Contexts /\ errors' \in 0 .. MaxErrors
          /\ job' \in [words : Nat, len : Nat]
      BY <2>3, <3>1
    <3> QED
      BY <2>5, <3>2, <3>3 DEF RngTypeOK
  <2>9. \A d \in Contexts : task'[d].op \in RngOps => left' >= 1 /\ left' <= level'
    BY <1>1, <1>3, <1>4, <2>5
  <2> QED
    BY <1>2, <1>5, <2>7, <2>8, <2>9 DEF FreshWords
<1> QED
  BY <1>6, <1>7, <1>8, <1>9 DEF RngStep

LEMMA RngUseStep ==
  ASSUME RngInv, CallsOK, NEW c \in Contexts, RngUse(c)
  PROVE  RngInv'
<1> USE DEF RngInv
<1>1. RngOps \subseteq RngAll /\ "none" \notin RngAll
  BY DEF RngOps, RngAll
<1>2. CASE Initialize(c)
  <2>1. task' = task /\ rngOwner = {} /\ rngOwner' = {c}
        /\ UNCHANGED <<level, seeded, error, errors, job, left, stale>>
    BY <1>2, OnceFacts DEF Initialize
  <2>2. \A d \in Contexts : task'[d].op \notin RngAll
    BY <2>1
  <2> QED
    BY <1>1, <2>1, <2>2 DEF RngTypeOK, FreshWords
<1>3. ASSUME NEW op \in RngOps, NEW words \in Nat, NEW len \in Nat, RngCall(c, op, words, len)
      PROVE  RngInv'
  <2>1. /\ job' = [words |-> words, len |-> len] /\ c \in rngOwner
        /\ UNCHANGED <<rngOwner, level, seeded, error, errors, left, stale>>
    BY <1>3 DEF RngCall
  <2>2. /\ task'[c].op = op /\ task'[c].at = "esr"
        /\ \A d \in Contexts : d # c => task'[d] = task[d]
    BY <1>3, BeginFacts DEF RngCall
  <2>3. rngOwner = {c}
    BY <2>1
  <2> QED
    BY <1>1, <2>1, <2>2, <2>3 DEF RngTypeOK, FreshWords
<1>4. CASE Stats(c)
  <2>1. c \in rngOwner /\ UNCHANGED rngVars
    BY <1>4 DEF Stats
  <2>2. /\ task'[c].op = "stats" /\ task'[c].at = "seed"
        /\ \A d \in Contexts : d # c => task'[d] = task[d]
    BY <1>4, BeginFacts DEF Stats
  <2>3. rngOwner = {c}
    BY <2>1
  <2> QED
    BY <1>1, <2>1, <2>2, <2>3 DEF RngTypeOK, FreshWords, rngVars
<1>5. 1 \in Nat /\ FifoSize \in Nat /\ BufLens \subseteq Nat
      /\ "next_u32" \in RngOps /\ "write" \in RngOps /\ "generate" \in RngOps
  BY RngAssumption DEF RngOps
<1> QED
  BY <1>2, <1>3, <1>4, <1>5 DEF RngUse, NextU32, Write, Generate

LEMMA RngHardwareStep ==
  ASSUME RngInv, CallsOK, Seed \/ Fill \/ Fault
  PROVE  RngInv'
<1> USE DEF RngInv
<1>1. task' = task /\ rngOwner' = rngOwner /\ job' = job /\ left' = left /\ stale' = stale
  BY DEF Seed, Fill, Fault, contextVars
<1>2. level \in 0 .. FifoSize /\ errors \in 0 .. MaxErrors /\ left \in Nat
      /\ FifoSize \in Nat /\ MaxErrors \in Nat
      /\ {seeded, error, stale} \subseteq BOOLEAN
  BY RngAssumption DEF RngTypeOK
<1>3. level' \in 0 .. FifoSize /\ level' >= level /\ errors' \in 0 .. MaxErrors
  BY <1>2 DEF Seed, Fill, Fault
<1>4. {seeded', error', stale'} \subseteq BOOLEAN
  BY <1>2, Zenon DEF Seed, Fill, Fault
<1>5. RngTypeOK'
  BY <1>1, <1>3, <1>4 DEF RngTypeOK
<1> QED
  BY <1>1, <1>2, <1>3, <1>5 DEF FreshWords

LEMMA RngKept ==
  ASSUME RngInv, CallsOK, [Next]_vars
  PROVE  RngInv'
<1>1. CASE RngNext
  BY <1>1, RngOwnerStep, RngUseStep, RngHardwareStep DEF RngNext
<1>2. CASE UNCHANGED rngVars /\ Foreign(RngAll)
  BY <1>2, Frames, RngForeign
<1> QED
  BY <1>1, <1>2, Frames

LEMMA CallsInvariant == Spec => []CallsOK
<1>1. CallsOK /\ [Next]_vars => CallsOK'
  BY Frames
<1> QED
  BY <1>1, CallsInit, PTL DEF Spec

LEMMA RngInvariant == Spec => []RngInv
<1>1. RngInv /\ CallsOK /\ [Next]_vars => RngInv'
  BY RngKept
<1> QED
  BY <1>1, RngInitInv, CallsInvariant, PTL DEF Spec

(* No word is read from the empty FIFO: what wait_for_fifo_level found     *)
(* there stays until the call has read it, through errors the generator    *)
(* reports, a reset by a later call, and calls of other contexts.          *)
THEOREM WordsFresh == Spec => []FreshWords
<1>1. RngInv => FreshWords
  BY DEF RngInv
<1> QED
  BY <1>1, RngInvariant, PTL

(***************************************************************************)
(* Serial port and LEDs.  A context claims a handle from the moment it has *)
(* set the state to TAKEN on its way to the peripheral: at most one does,  *)
(* and only while the state is TAKEN.  The writer of a message and the one *)
(* who modifies the data register hold the handle, and so are alone.       *)
(***************************************************************************)
AtPeripheral(c, h) == task[c].on = h /\ task[c].at = "peripheral"

Claims(c, h) == c \in holder[h] \/ AtPeripheral(c, h)

Uses(c, h) ==
  \/ h = "serial" /\ task[c].at \in {"write", "release"}
  \/ h = "leds" /\ task[c].at = "modify"

TakeInv ==
  /\ \A h \in Handles : \A c, d \in Contexts : Claims(c, h) /\ Claims(d, h) => c = d
  /\ \A h \in Handles : \A c \in Contexts : Claims(c, h) => state[h] = "TAKEN"
  /\ \A h \in Handles :
       (state[h] = "NEVER" \/ \E c \in Contexts : AtPeripheral(c, h))
         => (sealed[h] => raw[h])
  /\ TakenIsHeld
  /\ \A h \in Handles : \A c \in Contexts : Uses(c, h) => c \in holder[h]

(* What is on the line is the last byte of a message, or the last one sent *)
(* of the message that is being written.                                   *)
LineInv ==
  /\ \A c \in Contexts :
       sent[c] > 0 => task[c].at = "write" /\ wire = [by |-> c, byte |-> sent[c]]
  /\ (\A c \in Contexts : sent[c] = 0) => wire.byte = LineLen

(* The value the modifying context has read is still in the register.      *)
LedInv ==
  /\ \A c \in Contexts : task[c].at = "modify" =>
       old[c] = lit /\ wanted = Applied(task[c].op, task[c].on, lit)
  /\ (\A c \in Contexts : task[c].at # "modify") => lit = wanted

HandleInv == SingletonsTypeOK /\ TakeInv /\ LineInv /\ LedInv

(* The step a call is at tells its operation and its object. *)
LEMMA CallTells ==
  ASSUME NEW k \in Calls
  PROVE  /\ k.at = "peripheral" => k.op \in Taking /\ k.on \in Handles
         /\ k.at \in {"write", "release"} => k.op \in Writing /\ k.on = "serial"
         /\ k.at = "modify" => k.op \in Methods /\ k.on \in Leds
         /\ k.op \in Taking => k.on \in Handles
         /\ k.op = "print" => k.on = "serial"
         /\ k.op \in Methods => k.at = "modify"
<1>1. k \in HandleCalls \/ k \in DcpCalls \/ k \in ClockCalls \/ k \in RngCalls
      \/ k \in BoardCalls \/ k = NoCall
  BY DEF Calls
<1>2. \A j \in HandleCalls :
         /\ j.at = "peripheral" => j.op \in Taking /\ j.on \in Handles
         /\ j.at \in {"write", "release"} => j.op \in Writing /\ j.on = "serial"
         /\ j.at = "modify" => j.op \in Methods /\ j.on \in Leds
         /\ j.op \in Taking => j.on \in Handles
         /\ j.op = "print" => j.on = "serial"
         /\ j.op \in Methods => j.at = "modify"
  BY DEF HandleCalls, Taking, Writing, Methods, Handles
<1>3. k \notin HandleCalls =>
         /\ k.at \notin {"peripheral", "write", "release", "modify"}
         /\ k.op \notin Taking /\ k.op # "print" /\ k.op \notin Methods
  BY <1>1 DEF DcpCalls, ClockCalls, RngCalls, BoardCalls, NoCall, Call, Taking, Methods,
              Timing, RngOps
<1> QED
  BY <1>2, <1>3

LEMMA TaskIsCall ==
  ASSUME CallsOK, NEW c \in Contexts PROVE task[c] \in Calls
BY DEF CallsOK

LEMMA HandleInitInv == Init => HandleInv
<1> SUFFICES ASSUME Init PROVE HandleInv
  OBVIOUS
<1>1. \A c \in Contexts : task[c].op = "none" /\ task[c].at = "none" /\ task[c].on = "none"
  BY NothingInProgress, Zenon
<1>2. SingletonsInit
  BY DEF Init
<1>3. SingletonsTypeOK
  <2>1. /\ state \in [Handles -> {"NEVER", "TAKEN", "FREE"}] /\ sealed \in [Handles -> BOOLEAN]
        /\ raw \in [Handles -> BOOLEAN] /\ holder \in [Handles -> SUBSET Contexts]
        /\ txFull \in BOOLEAN /\ old \in [Contexts -> SUBSET Leds]
        /\ lit \subseteq Leds /\ wanted \subseteq Leds
    BY <1>2 DEF SingletonsInit
  <2>2. 0 \in Contexts /\ LineLen \in 1 .. LineLen /\ 0 \in 0 .. LineLen - 1
    BY ContextsAssumption, LineAssumption
  <2>3. wire \in [by : Contexts, byte : 1 .. LineLen] /\ sent \in [Contexts -> 0 .. LineLen - 1]
    BY <1>2, <2>2 DEF SingletonsInit
  <2> QED
    BY <2>1, <2>3 DEF SingletonsTypeOK
<1>4. TakeInv
  BY <1>1, <1>2 DEF SingletonsInit, TakeInv, Claims, AtPeripheral, Uses, TakenIsHeld
<1>5. LineInv /\ LedInv
  BY <1>1, <1>2 DEF SingletonsInit, LineInv, LedInv
<1> QED
  BY <1>3, <1>4, <1>5 DEF HandleInv

(* Steps that do not concern the handles themselves. *)
LEMMA TakeQuiet ==
  ASSUME TakeInv, UNCHANGED <<state, sealed, raw, holder>>,
         \A d \in Contexts, h \in Handles : AtPeripheral(d, h)' <=> AtPeripheral(d, h),
         \A d \in Contexts, h \in Handles : Uses(d, h)' => d \in holder[h]
  PROVE  TakeInv'
<1>1. \A d \in Contexts, h \in Handles : Claims(d, h)' <=> Claims(d, h)
  BY DEF Claims
<1>2. TakenIsHeld'
  BY DEF TakeInv, TakenIsHeld, AtPeripheral
<1> QED
  BY <1>1, <1>2 DEF TakeInv

(* A context obtains a handle nobody else claims. *)
LEMMA ObtainKeeps ==
  ASSUME TakeInv, SingletonsTypeOK, NEW c \in Contexts, NEW h \in Handles,
         \A d \in Contexts : Claims(d, h) => d = c,
         raw' = raw, state'[h] = "TAKEN",
         holder' = [holder EXCEPT ![h] = @ \cup {c}],
         \A g \in Handles : g # h => state'[g] = state[g] /\ sealed'[g] = sealed[g],
         task'[c].at # "peripheral", \A g \in Handles : ~ AtPeripheral(c, g) \/ g = h,
         \A g \in Handles : Uses(c, g)' => g = h,
         \A d \in Contexts : d # c => task'[d] = task[d]
  PROVE  TakeInv'
<1>1. /\ holder'[h] = holder[h] \cup {c}
      /\ \A g \in Handles : g # h => holder'[g] = holder[g]
  BY DEF SingletonsTypeOK
<1>2. \A d \in Contexts : Claims(d, h)' <=> d = c
  BY <1>1 DEF Claims, AtPeripheral
<1>3. \A d \in Contexts, g \in Handles : g # h => (AtPeripheral(d, g)' <=> AtPeripheral(d, g))
  BY DEF AtPeripheral
<1>4. \A d \in Contexts, g \in Handles : g # h => (Claims(d, g)' <=> Claims(d, g))
  BY <1>1, <1>3 DEF Claims
<1>5. \A d \in Contexts : ~ AtPeripheral(d, h)'
  BY <1>2 DEF AtPeripheral, Claims
<1>6. ASSUME NEW g \in Handles PROVE
        (state'[g] = "NEVER" \/ \E d \in Contexts : AtPeripheral(d, g)')
          => (sealed'[g] => raw'[g])
  BY <1>3, <1>5 DEF TakeInv
<1>7. TakenIsHeld'
  <2>1. ASSUME NEW g \in Handles, state'[g] = "TAKEN", g # h
        PROVE  holder'[g] # {} \/ raw'[g] \/ \E d \in Contexts : AtPeripheral(d, g)'
    BY <1>1, <1>3, <2>1 DEF TakeInv, TakenIsHeld, AtPeripheral
  <2> QED
    BY <1>1, <2>1 DEF TakenIsHeld, AtPeripheral
<1>8. \A g \in Handles : \A d \in Contexts : Uses(d, g)' => d \in holder'[g]
  BY <1>1 DEF TakeInv, Uses
<1> QED
  BY <1>2, <1>4, <1>6, <1>7, <1>8 DEF TakeInv

LEMMA ReleaseKeeps ==
  ASSUME TakeInv, SingletonsTypeOK, NEW c \in Contexts, NEW h \in Handles,
         c \in holder[h], ReleaseHandle(c, h), UNCHANGED <<sealed, raw>>,
         task[c].at # "peripheral", task'[c].at = "none",
         \A d \in Contexts : d # c => task'[d] = task[d]
  PROVE  TakeInv'
<1>1. /\ holder'[h] = holder[h] \ {c} /\ state'[h] = "FREE"
      /\ \A g \in Handles : g # h => holder'[g] = holder[g] /\ state'[g] = state[g]
  BY DEF SingletonsTypeOK, ReleaseHandle
<1>2. \A d \in Contexts, g \in Handles : AtPeripheral(d, g)' <=> AtPeripheral(d, g)
  BY DEF AtPeripheral
<1>3. \A d \in Contexts : ~ Claims(d, h)'
  <2>1. \A d \in Contexts : Claims(d, h) => d = c
    BY DEF Claims, TakeInv
  <2>2. ~ AtPeripheral(c, h)'
    BY DEF AtPeripheral
  <2> QED
    BY <1>1, <1>2, <2>1, <2>2 DEF Claims
<1>4. \A d \in Contexts, g \in Handles : g # h => (Claims(d, g)' <=> Claims(d, g))
  BY <1>1, <1>2 DEF Claims
<1>5. ASSUME NEW g \in Handles PROVE
        (state'[g] = "NEVER" \/ \E d \in Contexts : AtPeripheral(d, g)')
          => (sealed'[g] => raw'[g])
  BY <1>1, <1>2 DEF TakeInv
<1>6. TakenIsHeld'
  <2>1. ASSUME NEW g \in Handles, state'[g] = "TAKEN", g # h
        PROVE  holder'[g] # {} \/ raw'[g] \/ \E d \in Contexts : AtPeripheral(d, g)'
    BY <1>1, <1>2, <2>1 DEF TakeInv, TakenIsHeld, AtPeripheral
  <2> QED
    BY <1>1, <2>1 DEF TakenIsHeld, AtPeripheral
<1>7. \A g \in Handles : \A d \in Contexts : Uses(d, g)' => d \in holder'[g]
  <2>1. \A g \in Handles : \A d \in Contexts : Uses(d, g)' => Uses(d, g) /\ d # c
    BY DEF Uses
  <2> QED
    BY <1>1, <2>1 DEF TakeInv
<1>8. \A g \in Handles : \A d, e \in Contexts : Claims(d, g)' /\ Claims(e, g)' => d = e
  BY <1>3, <1>4 DEF TakeInv
<1>9. \A g \in Handles : \A d \in Contexts : Claims(d, g)' => state'[g] = "TAKEN"
  BY <1>1, <1>3, <1>4 DEF TakeInv
<1> QED
  BY <1>5, <1>6, <1>7, <1>8, <1>9 DEF TakeInv

LEMMA LineQuiet ==
  ASSUME LineInv, UNCHANGED <<wire, sent>>,
         \A d \in Contexts : task[d].at = "write" => task'[d].at = "write"
  PROVE  LineInv'
BY DEF LineInv

LEMMA LedQuiet ==
  ASSUME LedInv, UNCHANGED <<old, lit, wanted>>,
         \A d \in Contexts :
           task[d].at = "modify" \/ task'[d].at = "modify" => task'[d] = task[d]
  PROVE  LedInv'
BY DEF LedInv

LEMMA HandleForeign ==
  ASSUME HandleInv, CallsOK, CallsOK', UNCHANGED singletonVars, Foreign(HandleOps)
  PROVE  HandleInv'
<1>1. \A d \in Contexts :
        \/ task[d].at \in {"peripheral", "write", "release", "modify"}
        \/ task'[d].at \in {"peripheral", "write", "release", "modify"}
        => task'[d] = task[d]
  <2>1. ASSUME NEW d \in Contexts PROVE
          /\ task[d].at \in {"peripheral", "write", "release", "modify"} => task[d].op \in HandleOps
          /\ task'[d].at \in {"peripheral", "write", "release", "modify"} => task'[d].op \in HandleOps
    <3>1. /\ Taking \subseteq HandleOps /\ Writing \subseteq HandleOps /\ Methods \subseteq HandleOps
      BY DEF Taking, Writing, Methods, HandleOps
    <3>2. task[d].at \in {"peripheral", "write", "release", "modify"} => task[d].op \in HandleOps
      BY <3>1, TaskIsCall, CallTells
    <3>3. task'[d].at \in {"peripheral", "write", "release", "modify"} => task'[d].op \in HandleOps
      <4>1. task'[d] \in Calls
        BY DEF CallsOK
      <4> QED
        BY <3>1, <4>1, CallTells
    <3> QED
      BY <3>2, <3>3
  <2> QED
    BY <2>1 DEF Foreign
<1>2. /\ UNCHANGED <<state, sealed, raw, holder>> /\ UNCHANGED <<wire, sent>>
      /\ UNCHANGED <<old, lit, wanted>>
  BY DEF singletonVars
<1>3. SingletonsTypeOK'
  BY DEF HandleInv, SingletonsTypeOK, singletonVars
<1>4. TakeInv'
  <2>1. \A d \in Contexts, h \in Handles : AtPeripheral(d, h)' <=> AtPeripheral(d, h)
    BY <1>1 DEF AtPeripheral
  <2>2. \A d \in Contexts, h \in Handles : Uses(d, h)' => d \in holder[h]
    BY <1>1 DEF Uses, HandleInv, TakeInv
  <2> QED
    BY <1>2, <2>1, <2>2, TakeQuiet DEF HandleInv
<1>5. LineInv' /\ LedInv'
  BY <1>1, <1>2, LineQuiet, LedQuiet DEF HandleInv
<1> QED
  BY <1>3, <1>4, <1>5 DEF HandleInv

LEMMA TakeLoadKeeps ==
  ASSUME HandleInv, CallsOK, NEW c \in Contexts, NEW h \in Handles, NEW op \in Taking,
         TakeLoad(c, h, op)
  PROVE  HandleInv'
<1>1. UNCHANGED singletonVars /\ (Begin(c, op, "first", h) \/ Begin(c, op, "free", h))
  BY DEF TakeLoad
<1>2. /\ task'[c].at \in {"first", "free"} /\ task[c].at = "none"
      /\ \A d \in Contexts : d # c => task'[d] = task[d]
  BY <1>1, BeginFacts
<1>3. SingletonsTypeOK'
  BY <1>1 DEF HandleInv, SingletonsTypeOK, singletonVars
<1>4. TakeInv'
  <2>1. \A d \in Contexts, g \in Handles : AtPeripheral(d, g)' <=> AtPeripheral(d, g)
    BY <1>2 DEF AtPeripheral
  <2>2. \A d \in Contexts, g \in Handles : Uses(d, g)' => d \in holder[g]
    BY <1>2 DEF Uses, HandleInv, TakeInv
  <2> QED
    BY <1>1, <2>1, <2>2, TakeQuiet DEF HandleInv, singletonVars
<1>5. LineInv' /\ LedInv'
  BY <1>1, <1>2, LineQuiet, LedQuiet DEF HandleInv, singletonVars
<1> QED
  BY <1>3, <1>4, <1>5 DEF HandleInv

LEMMA TakeFirstKeeps ==
  ASSUME HandleInv, CallsOK, NEW c \in Contexts, TakeFirst(c)
  PROVE  HandleInv'
<1>0. PICK h \in Handles : task[c].on = h
  BY TaskIsCall, CallTells DEF TakeFirst, At
<1>1. /\ task[c].op \in Taking /\ task[c].at = "first"
      /\ UNCHANGED <<sealed, raw, holder, txFull, wire, sent, old, lit, wanted>>
  BY DEF TakeFirst, At
<1>2. LineInv' /\ LedInv'
  <2>1. task'[c].at \notin {"write", "modify"} /\ \A d \in Contexts : d # c => task'[d] = task[d]
    BY GotoFacts DEF TakeFirst
  <2> QED
    BY <1>0, <1>1, <2>1, LineQuiet, LedQuiet DEF HandleInv
<1>3. CASE state[h] = "NEVER"
  <2>1. state' = [state EXCEPT ![h] = "TAKEN"] /\ Goto(c, "peripheral")
    BY <1>0, <1>3 DEF TakeFirst
  <2>2. /\ task'[c].at = "peripheral" /\ task'[c].on = h
        /\ \A d \in Contexts : d # c => task'[d] = task[d]
    BY <1>0, <2>1, GotoFacts
  <2>3. state'[h] = "TAKEN" /\ \A g \in Handles : g # h => state'[g] = state[g]
    BY <1>0, <1>1, <2>1 DEF HandleInv, SingletonsTypeOK
  <2>4. SingletonsTypeOK'
    BY <1>0, <1>1, <2>1 DEF HandleInv, SingletonsTypeOK
  <2>5. \A d \in Contexts : ~ Claims(d, h)
    BY <1>0, <1>1, <1>3 DEF HandleInv, TakeInv
  <2>6. /\ AtPeripheral(c, h)'
        /\ \A d \in Contexts, g \in Handles :
             d # c \/ g # h => (AtPeripheral(d, g)' <=> AtPeripheral(d, g))
    BY <1>0, <1>1, <2>2 DEF AtPeripheral
  <2>7. \A d \in Contexts, g \in Handles :
          Claims(d, g)' => Claims(d, g) \/ (d = c /\ g = h)
    BY <1>0, <1>1, <2>6 DEF Claims
  <2>8. \A g \in Handles : \A d, e \in Contexts : Claims(d, g)' /\ Claims(e, g)' => d = e
    BY <2>5, <2>7 DEF HandleInv, TakeInv
  <2>9. \A g \in Handles : \A d \in Contexts : Claims(d, g)' => state'[g] = "TAKEN"
    BY <2>3, <2>7 DEF HandleInv, TakeInv
  <2>10. ASSUME NEW g \in Handles PROVE
           (state'[g] = "NEVER" \/ \E d \in Contexts : AtPeripheral(d, g)')
             => (sealed'[g] => raw'[g])
    BY <1>0, <1>1, <1>3, <2>3, <2>6 DEF HandleInv, TakeInv
  <2>11. TakenIsHeld'
    <3>1. \E d \in Contexts : AtPeripheral(d, h)'
      BY <2>6
    <3>2. ASSUME NEW g \in Handles, state'[g] = "TAKEN"
          PROVE  holder'[g] # {} \/ raw'[g] \/ \E d \in Contexts : AtPeripheral(d, g)'
      <4>1. CASE g = h
        BY <3>1, <4>1 DEF AtPeripheral
      <4>2. CASE g # h
        <5>1. holder[g] # {} \/ raw[g] \/ \E d \in Contexts : AtPeripheral(d, g)
          BY <2>3, <3>2, <4>2 DEF HandleInv, TakeInv, TakenIsHeld, AtPeripheral
        <5>2. (\E d \in Contexts : AtPeripheral(d, g)) => \E d \in Contexts : AtPeripheral(d, g)'
          BY <2>6, <4>2
        <5> QED
          BY <1>0, <1>1, <5>1, <5>2
      <4> QED
        BY <4>1, <4>2
    <3> QED
      BY <3>2 DEF TakenIsHeld, AtPeripheral
  <2>12. \A g \in Handles : \A d \in Contexts : Uses(d, g)' => d \in holder'[g]
    BY <1>0, <1>1, <2>2 DEF HandleInv, TakeInv, Uses
  <2>13. TakeInv'
    BY <2>8, <2>9, <2>10, <2>11, <2>12 DEF TakeInv
  <2> QED
    BY <1>2, <2>4, <2>13 DEF HandleInv
<1>4. CASE state[h] # "NEVER"
  <2>1. Goto(c, "free") /\ state' = state
    BY <1>0, <1>4 DEF TakeFirst
  <2>2. task'[c].at = "free" /\ \A d \in Contexts : d # c => task'[d] = task[d]
    BY <1>0, <2>1, GotoFacts
  <2>3. SingletonsTypeOK'
    BY <1>0, <1>1, <2>1 DEF HandleInv, SingletonsTypeOK
  <2>4. \A d \in Contexts, g \in Handles : AtPeripheral(d, g)' <=> AtPeripheral(d, g)
    BY <1>0, <1>1, <2>2 DEF AtPeripheral
  <2>5. \A d \in Contexts, g \in Handles : Uses(d, g)' => d \in holder[g]
    BY <2>2 DEF Uses, HandleInv, TakeInv
  <2> QED
    BY <1>0, <1>1, <1>2, <2>1, <2>3, <2>4, <2>5, TakeQuiet DEF HandleInv
<1> QED
  BY <1>3, <1>4

(* What the two ways of obtaining a handle have in common. *)
LEMMA ObtainFacts ==
  ASSUME HandleInv, CallsOK, NEW c \in Contexts, NEW h \in Handles,
         task[c].op \in Taking, task[c].on = h, Obtain(c, h)
  PROVE  /\ holder' = [holder EXCEPT ![h] = @ \cup {c}]
         /\ task'[c].at \in {"write", "none"}
         /\ \A g \in Handles : Uses(c, g)' => g = h
         /\ \A d \in Contexts : d # c => task'[d] = task[d]
         /\ holder' \in [Handles -> SUBSET Contexts]
<1>1. task[c].op = "print" => h = "serial"
  BY TaskIsCall, CallTells
<1>2. IF task[c].op = "print" THEN Goto(c, "write") ELSE Return(c)
  BY DEF Obtain
<1>3. /\ task'[c].at \in {"write", "none"} /\ (task'[c].at = "write" => h = "serial")
      /\ \A d \in Contexts : d # c => task'[d] = task[d]
  BY <1>1, <1>2, GotoFacts, ReturnFacts
<1>4. holder' = [holder EXCEPT ![h] = @ \cup {c}]
  BY DEF Obtain
<1>5. holder' \in [Handles -> SUBSET Contexts]
  BY <1>4 DEF HandleInv, SingletonsTypeOK
<1> QED
  BY <1>3, <1>4, <1>5 DEF Uses

LEMMA TakePeripheralKeeps ==
  ASSUME HandleInv, CallsOK, NEW c \in Contexts, TakePeripheral(c)
  PROVE  HandleInv'
<1>0. PICK h \in Handles : task[c].on = h
  BY TaskIsCall, CallTells DEF TakePeripheral, At
<1>1. /\ task[c].op \in Taking /\ task[c].at = "peripheral"
      /\ UNCHANGED <<state, raw, txFull, wire, sent, old, lit, wanted>>
  BY DEF TakePeripheral, At
<1>2. AtPeripheral(c, h) /\ \A g \in Handles : ~ AtPeripheral(c, g) \/ g = h
  BY <1>0, <1>1 DEF AtPeripheral
<1>3. \A d \in Contexts : Claims(d, h) => d = c
  BY <1>0, <1>1, <1>2 DEF HandleInv, TakeInv, Claims
<1>4. state[h] = "TAKEN"
  BY <1>0, <1>1, <1>2 DEF HandleInv, TakeInv, Claims
<1>5. CASE ~ sealed[h] /\ sealed' = [sealed EXCEPT ![h] = TRUE] /\ Obtain(c, h)
  <2>1. /\ holder' = [holder EXCEPT ![h] = @ \cup {c}]
        /\ task'[c].at \in {"write", "none"}
        /\ \A g \in Handles : Uses(c, g)' => g = h
        /\ \A d \in Contexts : d # c => task'[d] = task[d]
        /\ holder' \in [Handles -> SUBSET Contexts]
    BY <1>0, <1>1, <1>5, ObtainFacts
  <2>2. sealed' \in [Handles -> BOOLEAN] /\ \A g \in Handles : g # h => sealed'[g] = sealed[g]
    BY <1>0, <1>1, <1>5 DEF HandleInv, SingletonsTypeOK
  <2>3. SingletonsTypeOK'
    BY <1>0, <1>1, <2>1, <2>2 DEF HandleInv, SingletonsTypeOK
  <2>4. TakeInv'
    <3>1. TakeInv /\ SingletonsTypeOK /\ raw' = raw /\ state'[h] = "TAKEN"
      BY <1>1, <1>4 DEF HandleInv
    <3>2. \A g \in Handles : g # h => state'[g] = state[g] /\ sealed'[g] = sealed[g]
      BY <1>1, <2>2
    <3>3. task'[c].at # "peripheral"
      BY <2>1
    <3> QED
      BY <1>2, <1>3, <2>1, <3>1, <3>2, <3>3, ObtainKeeps, Zenon
  <2>5. LineInv' /\ LedInv'
    BY <1>0, <1>1, <2>1, LineQuiet, LedQuiet DEF HandleInv
  <2> QED
    BY <2>3, <2>4, <2>5 DEF HandleInv
<1>6. CASE sealed[h] /\ Return(c) /\ UNCHANGED <<sealed, holder>>
  <2>1. task'[c].at = "none" /\ \A d \in Contexts : d # c => task'[d] = task[d]
    BY <1>6, ReturnFacts
  <2>2. raw[h]
    BY <1>0, <1>1, <1>2, <1>6 DEF HandleInv, TakeInv
  <2>3. ~ AtPeripheral(c, h)' /\ \A d \in Contexts, g \in Handles : AtPeripheral(d, g)' => AtPeripheral(d, g)
    BY <1>0, <1>1, <2>1 DEF AtPeripheral
  <2>4. \A d \in Contexts, g \in Handles : g # h => (AtPeripheral(d, g)' <=> AtPeripheral(d, g))
    BY <1>2, <2>1, <2>3 DEF AtPeripheral
  <2>5. \A d \in Contexts, g \in Handles : Claims(d, g)' => Claims(d, g)
    BY <1>6, <2>3 DEF Claims
  <2>6. SingletonsTypeOK'
    BY <1>0, <1>1, <1>6 DEF HandleInv, SingletonsTypeOK
  <2>7. TakenIsHeld'
    <3>1. ASSUME NEW g \in Handles, state'[g] = "TAKEN", g # h
          PROVE  holder'[g] # {} \/ raw'[g] \/ \E d \in Contexts : AtPeripheral(d, g)'
      BY <1>0, <1>1, <1>6, <2>4, <3>1 DEF HandleInv, TakeInv, TakenIsHeld, AtPeripheral
    <3> QED
      BY <1>0, <1>1, <2>2, <3>1 DEF TakenIsHeld, AtPeripheral
  <2>8. ASSUME NEW g \in Handles PROVE
           (state'[g] = "NEVER" \/ \E d \in Contexts : AtPeripheral(d, g)')
             => (sealed'[g] => raw'[g])
    BY <1>0, <1>1, <1>6, <2>3 DEF HandleInv, TakeInv
  <2>9. \A g \in Handles : \A d \in Contexts : Uses(d, g)' => d \in holder'[g]
    BY <1>6, <2>1 DEF HandleInv, TakeInv, Uses
  <2>10. /\ \A g \in Handles : \A d, e \in Contexts : Claims(d, g)' /\ Claims(e, g)' => d = e
         /\ \A g \in Handles : \A d \in Contexts : Claims(d, g)' => state'[g] = "TAKEN"
    BY <1>0, <1>1, <2>5 DEF HandleInv, TakeInv
  <2>11. TakeInv'
    BY <2>7, <2>8, <2>9, <2>10 DEF TakeInv
  <2>12. LineInv' /\ LedInv'
    BY <1>0, <1>1, <2>1, LineQuiet, LedQuiet DEF HandleInv
  <2> QED
    BY <2>6, <2>11, <2>12 DEF HandleInv
<1> QED
  BY <1>0, <1>5, <1>6 DEF TakePeripheral

LEMMA TakeFreeKeeps ==
  ASSUME HandleInv, CallsOK, NEW c \in Contexts, TakeFree(c)
  PROVE  HandleInv'
<1>0. PICK h \in Handles : task[c].on = h
  BY TaskIsCall, CallTells DEF TakeFree, At
<1>1. /\ task[c].op \in Taking /\ task[c].at = "free"
      /\ UNCHANGED <<sealed, raw, txFull, wire, sent, old, lit, wanted>>
  BY DEF TakeFree, At
<1>2. \A g \in Handles : ~ AtPeripheral(c, g)
  BY <1>1 DEF AtPeripheral
<1>3. CASE state[h] = "FREE" /\ state' = [state EXCEPT ![h] = "TAKEN"] /\ Obtain(c, h)
  <2>1. /\ holder' = [holder EXCEPT ![h] = @ \cup {c}]
        /\ task'[c].at \in {"write", "none"}
        /\ \A g \in Handles : Uses(c, g)' => g = h
        /\ \A d \in Contexts : d # c => task'[d] = task[d]
        /\ holder' \in [Handles -> SUBSET Contexts]
    BY <1>0, <1>1, <1>3, ObtainFacts
  <2>2. /\ state' \in [Handles -> {"NEVER", "TAKEN", "FREE"}] /\ state'[h] = "TAKEN"
        /\ \A g \in Handles : g # h => state'[g] = state[g]
    BY <1>3 DEF HandleInv, SingletonsTypeOK
  <2>3. SingletonsTypeOK'
    BY <1>1, <2>1, <2>2 DEF HandleInv, SingletonsTypeOK
  <2>4. TakeInv'
    <3>1. TakeInv /\ SingletonsTypeOK /\ raw' = raw
      BY <1>1 DEF HandleInv
    <3>2. \A g \in Handles : g # h => state'[g] = state[g] /\ sealed'[g] = sealed[g]
      BY <1>1, <2>2
    <3>3. task'[c].at # "peripheral"
      BY <2>1
    <3>4. \A d \in Contexts : Claims(d, h) => d = c
      BY <1>3 DEF HandleInv, TakeInv
    <3>5. \A g \in Handles : ~ AtPeripheral(c, g) \/ g = h
      BY <1>2
    <3> QED
      BY <2>1, <2>2, <3>1, <3>2, <3>3, <3>4, <3>5, ObtainKeeps, Zenon
  <2>5. LineInv' /\ LedInv'
    BY <1>1, <2>1, LineQuiet, LedQuiet DEF HandleInv
  <2> QED
    BY <2>3, <2>4, <2>5 DEF HandleInv
<1>4. CASE Return(c) /\ UNCHANGED <<state, holder>>
  <2>1. task'[c].at = "none" /\ \A d \in Contexts : d # c => task'[d] = task[d]
    BY <1>4, ReturnFacts
  <2>2. SingletonsTypeOK'
    BY <1>1, <1>4 DEF HandleInv, SingletonsTypeOK
  <2>3. \A d \in Contexts, g \in Handles : AtPeripheral(d, g)' <=> AtPeripheral(d, g)
    BY <1>1, <2>1 DEF AtPeripheral
  <2>4. \A d \in Contexts, g \in Handles : Uses(d, g)' => d \in holder[g]
    BY <2>1 DEF Uses, HandleInv, TakeInv
  <2>5. TakeInv'
    BY <1>1, <1>4, <2>3, <2>4, TakeQuiet DEF HandleInv
  <2>6. LineInv' /\ LedInv'
    BY <1>1, <2>1, LineQuiet, LedQuiet DEF HandleInv
  <2> QED
    BY <2>2, <2>5, <2>6 DEF HandleInv
<1> QED
  BY <1>0, <1>3, <1>4 DEF TakeFree

LEMMA ReleaseHandleKeeps ==
  ASSUME HandleInv, CallsOK, NEW c \in Contexts, NEW h \in Handles, c \in holder[h],
         ReleaseHandle(c, h),
         UNCHANGED <<sealed, raw, txFull, wire, sent, old, lit, wanted>>,
         task[c].at \notin {"peripheral", "write", "modify"}, task'[c].at = "none",
         \A d \in Contexts : d # c => task'[d] = task[d]
  PROVE  HandleInv'
<1>1. SingletonsTypeOK'
  BY DEF HandleInv, SingletonsTypeOK, ReleaseHandle
<1>2. TakeInv /\ SingletonsTypeOK /\ UNCHANGED <<sealed, raw>> /\ task[c].at # "peripheral"
  BY DEF HandleInv
<1>3. TakeInv'
  BY <1>2, ReleaseKeeps
<1>4. LineInv' /\ LedInv'
  BY LineQuiet, LedQuiet DEF HandleInv
<1> QED
  BY <1>1, <1>3, <1>4 DEF HandleInv

LEMMA ReleasesKeep ==
  ASSUME HandleInv, CallsOK, NEW c \in Contexts,
         PrintRelease(c) \/ \E h \in Handles : Release(c, h)
  PROVE  HandleInv'
<1>1. CASE PrintRelease(c)
  <2>1. /\ task[c].at = "release" /\ Return(c) /\ ReleaseHandle(c, "serial")
        /\ UNCHANGED <<sealed, raw, txFull, wire, sent, old, lit, wanted>>
    BY <1>1 DEF PrintRelease, At
  <2>2. "serial" \in Handles /\ c \in holder["serial"]
    BY <2>1 DEF Handles, HandleInv, TakeInv, Uses
  <2>3. task'[c].at = "none" /\ \A d \in Contexts : d # c => task'[d] = task[d]
    BY <2>1, ReturnFacts
  <2> QED
    BY <2>1, <2>2, <2>3, ReleaseHandleKeeps
<1>2. ASSUME NEW h \in Handles, Release(c, h) PROVE HandleInv'
  <2>1. /\ c \in holder[h] /\ ReleaseHandle(c, h)
        /\ UNCHANGED <<sealed, raw, txFull, wire, sent, old, lit, wanted>>
    BY <1>2 DEF Release
  <2>2. task' = task /\ task[c].at = "none"
    BY <1>2, OnceFacts DEF Release
  <2> QED
    BY <2>1, <2>2, ReleaseHandleKeeps
<1> QED
  BY <1>1, <1>2

LEMMA RawTakeKeeps ==
  ASSUME HandleInv, CallsOK, NEW c \in Contexts, NEW h \in Handles, RawTake(c, h)
  PROVE  HandleInv'
<1>1. /\ sealed' = [sealed EXCEPT ![h] = TRUE] /\ raw' = [raw EXCEPT ![h] = TRUE]
      /\ UNCHANGED <<state, holder, txFull, wire, sent, old, lit, wanted>>
      /\ task' = task
  BY OnceFacts DEF RawTake
<1>2. /\ raw' \in [Handles -> BOOLEAN] /\ sealed' \in [Handles -> BOOLEAN]
      /\ raw'[h] /\ \A g \in Handles : g # h => raw'[g] = raw[g] /\ sealed'[g] = sealed[g]
  BY <1>1 DEF HandleInv, SingletonsTypeOK
<1>3. SingletonsTypeOK'
  BY <1>1, <1>2 DEF HandleInv, SingletonsTypeOK
<1>4. /\ \A d \in Contexts, g \in Handles : AtPeripheral(d, g)' <=> AtPeripheral(d, g)
      /\ \A d \in Contexts, g \in Handles : Claims(d, g)' <=> Claims(d, g)
      /\ \A d \in Contexts, g \in Handles : Uses(d, g)' <=> Uses(d, g)
  BY <1>1 DEF AtPeripheral, Claims, Uses
<1>5. ASSUME NEW g \in Handles PROVE
        (state'[g] = "NEVER" \/ \E d \in Contexts : AtPeripheral(d, g)')
          => (sealed'[g] => raw'[g])
  BY <1>1, <1>2, <1>4 DEF HandleInv, TakeInv
<1>6. TakenIsHeld'
  BY <1>1, <1>2 DEF HandleInv, TakeInv, TakenIsHeld
<1>7. /\ \A g \in Handles : \A d, e \in Contexts : Claims(d, g)' /\ Claims(e, g)' => d = e
      /\ \A g \in Handles : \A d \in Contexts : Claims(d, g)' => state'[g] = "TAKEN"
      /\ \A g \in Handles : \A d \in Contexts : Uses(d, g)' => d \in holder'[g]
  BY <1>1, <1>4 DEF HandleInv, TakeInv
<1>8. TakeInv'
  BY <1>5, <1>6, <1>7 DEF TakeInv
<1>9. LineInv' /\ LedInv'
  BY <1>1, LineQuiet, LedQuiet DEF HandleInv
<1> QED
  BY <1>3, <1>8, <1>9 DEF HandleInv

LEMMA WriteAllKeeps ==
  ASSUME HandleInv, CallsOK, NEW c \in Contexts, WriteAll(c)
  PROVE  HandleInv'
<1>1. c \in holder["serial"] /\ Begin(c, "write_all", "write", "serial") /\ UNCHANGED singletonVars
  BY DEF WriteAll
<1>2. /\ task'[c].at = "write" /\ task[c].at = "none"
      /\ \A d \in Contexts : d # c => task'[d] = task[d]
  BY <1>1, BeginFacts
<1>3. SingletonsTypeOK'
  BY <1>1 DEF HandleInv, SingletonsTypeOK, singletonVars
<1>4. TakeInv'
  <2>1. \A d \in Contexts, g \in Handles : AtPeripheral(d, g)' <=> AtPeripheral(d, g)
    BY <1>2 DEF AtPeripheral
  <2>2. \A d \in Contexts, g \in Handles : Uses(d, g)' => d \in holder[g]
    BY <1>1, <1>2 DEF Uses, HandleInv, TakeInv
  <2> QED
    BY <1>1, <2>1, <2>2, TakeQuiet DEF HandleInv, singletonVars
<1>5. LineInv' /\ LedInv'
  BY <1>1, <1>2, LineQuiet, LedQuiet DEF HandleInv, singletonVars
<1> QED
  BY <1>3, <1>4, <1>5 DEF HandleInv

(* A byte starts a message when the line is between two, and follows the   *)
(* last byte otherwise.                                                    *)
NextOnLine ==
  IF wire'.byte = 1 THEN wire.byte = LineLen ELSE wire' = [wire EXCEPT !.byte = @ + 1]

LEMMA WriteByteKeeps ==
  ASSUME HandleInv, CallsOK, NEW c \in Contexts, WriteByte(c)
  PROVE  HandleInv' /\ NextOnLine
<1>1. /\ task[c].op \in Writing /\ task[c].at = "write" /\ txFull' = TRUE
      /\ wire' = [by |-> c, byte |-> sent[c] + 1]
      /\ sent' = [sent EXCEPT ![c] = IF sent[c] + 1 = LineLen THEN 0 ELSE sent[c] + 1]
      /\ UNCHANGED <<state, sealed, raw, holder, old, lit, wanted>>
  BY DEF WriteByte, At
<1>2. /\ \A d \in Contexts : d # c => task'[d] = task[d]
      /\ sent[c] + 1 # LineLen => task' = task
      /\ sent[c] + 1 = LineLen => task'[c].at \in {"release", "none"}
      /\ task'[c].at = "release" => task[c].op = "print"
      /\ task'[c].at \in {"write", "release", "none"}
  BY <1>1, GotoFacts, ReturnFacts DEF WriteByte, contextVars
<1>3. "serial" \in Handles /\ c \in holder["serial"]
  BY <1>1 DEF Handles, HandleInv, TakeInv, Uses
<1>4. \A d \in Contexts : task[d].at = "write" => d = c
  <2>1. ASSUME NEW d \in Contexts, task[d].at = "write" PROVE d = c
    <3>1. d \in holder["serial"]
      BY <1>3, <2>1 DEF HandleInv, TakeInv, Uses
    <3> QED
      BY <1>3, <3>1 DEF HandleInv, TakeInv, Claims
  <2> QED
    BY <2>1
<1>5. LineLen \in Nat /\ LineLen >= 1 /\ sent[c] \in 0 .. LineLen - 1
      /\ sent \in [Contexts -> 0 .. LineLen - 1] /\ wire \in [by : Contexts, byte : 1 .. LineLen]
  BY LineAssumption DEF HandleInv, SingletonsTypeOK
<1>6. \A d \in Contexts : d # c => sent[d] = 0
  <2>1. ASSUME NEW d \in Contexts, d # c PROVE sent[d] = 0
    <3>1. ~ (sent[d] > 0)
      BY <1>4, <2>1 DEF HandleInv, LineInv
    <3>2. sent[d] \in 0 .. LineLen - 1
      BY <1>5
    <3> QED
      BY <1>5, <3>1, <3>2
  <2> QED
    BY <2>1
<1>7. NextOnLine
  <2>1. CASE sent[c] = 0
    <3>1. wire.byte = LineLen
      BY <1>6, <2>1 DEF HandleInv, LineInv
    <3>2. wire'.byte = 1
      BY <1>1, <2>1
    <3> QED
      BY <3>1, <3>2 DEF NextOnLine
  <2>2. CASE sent[c] # 0
    <3>1. sent[c] > 0
      BY <1>5, <2>2
    <3>2. wire = [by |-> c, byte |-> sent[c]]
      BY <3>1 DEF HandleInv, LineInv
    <3>3. wire' = [wire EXCEPT !.byte = @ + 1]
      BY <1>1, <3>2
    <3>4. wire'.byte # 1
      BY <1>1, <1>5, <2>2
    <3> QED
      BY <3>3, <3>4 DEF NextOnLine
  <2> QED
    BY <2>1, <2>2
<1>8. LineInv'
  <2>1. \A d \in Contexts : d # c => sent'[d] = 0
    BY <1>1, <1>5, <1>6
  <2>2. sent'[c] = IF sent[c] + 1 = LineLen THEN 0 ELSE sent[c] + 1
    BY <1>1, <1>5
  <2>3. CASE sent[c] + 1 = LineLen
    <3>1. sent'[c] = 0 /\ wire'.byte = LineLen
      BY <1>1, <2>2, <2>3
    <3> QED
      BY <2>1, <3>1 DEF LineInv
  <2>4. CASE sent[c] + 1 # LineLen
    <3>1. sent'[c] = sent[c] + 1 /\ sent'[c] > 0 /\ task'[c].at = "write"
      BY <1>1, <1>2, <1>5, <2>2, <2>4
    <3>2. wire' = [by |-> c, byte |-> sent'[c]]
      BY <1>1, <3>1
    <3> QED
      BY <2>1, <3>1, <3>2 DEF LineInv
  <2> QED
    BY <2>3, <2>4
<1>9. SingletonsTypeOK'
  <2>1. sent[c] + 1 \in 1 .. LineLen
        /\ (IF sent[c] + 1 = LineLen THEN 0 ELSE sent[c] + 1) \in 0 .. LineLen - 1
    BY <1>5
  <2>2. wire' \in [by : Contexts, byte : 1 .. LineLen] /\ sent' \in [Contexts -> 0 .. LineLen - 1]
    BY <1>1, <1>5, <2>1
  <2> QED
    BY <1>1, <2>2 DEF HandleInv, SingletonsTypeOK
<1>10. TakeInv'
  <2>1. \A d \in Contexts, g \in Handles : AtPeripheral(d, g)' <=> AtPeripheral(d, g)
    BY <1>1, <1>2 DEF AtPeripheral
  <2>2. \A d \in Contexts, g \in Handles : Uses(d, g)' => d \in holder[g]
    BY <1>1, <1>2, <1>3 DEF Uses, HandleInv, TakeInv
  <2> QED
    BY <1>1, <2>1, <2>2, TakeQuiet DEF HandleInv
<1>11. LedInv'
  BY <1>1, <1>2, LedQuiet DEF HandleInv
<1> QED
  BY <1>7, <1>8, <1>9, <1>10, <1>11 DEF HandleInv

LEMMA TransmitKeeps ==
  ASSUME HandleInv, CallsOK, Transmit
  PROVE  HandleInv'
<1>1. /\ task' = task /\ txFull' = FALSE
      /\ UNCHANGED <<state, sealed, raw, holder, wire, sent, old, lit, wanted>>
  BY DEF Transmit, contextVars
<1>2. SingletonsTypeOK'
  BY <1>1 DEF HandleInv, SingletonsTypeOK
<1>3. \A d \in Contexts, g \in Handles :
        (AtPeripheral(d, g)' <=> AtPeripheral(d, g)) /\ (Uses(d, g)' => d \in holder[g])
  BY <1>1 DEF AtPeripheral, Uses, HandleInv, TakeInv
<1>4. TakeInv'
  BY <1>1, <1>3, TakeQuiet DEF HandleInv
<1>5. LineInv' /\ LedInv'
  BY <1>1, LineQuiet, LedQuiet DEF HandleInv
<1> QED
  BY <1>2, <1>4, <1>5 DEF HandleInv

LEMMA AppliedIsLeds ==
  ASSUME NEW m, NEW led \in Leds, NEW dr \in SUBSET Leds
  PROVE  Applied(m, led, dr) \in SUBSET Leds
BY DEF Applied

(* A context that holds the LEDs is the only one to modify the register.   *)
LEMMA OneModifies ==
  ASSUME HandleInv, NEW c \in Contexts, c \in holder["leds"]
  PROVE  \A d \in Contexts : task[d].at = "modify" => d = c
<1>1. ASSUME NEW d \in Contexts, task[d].at = "modify" PROVE d = c
  <2>1. "leds" \in Handles
    BY DEF Handles
  <2>2. d \in holder["leds"]
    BY <1>1, <2>1 DEF HandleInv, TakeInv, Uses
  <2> QED
    BY <2>1, <2>2 DEF HandleInv, TakeInv, Claims
<1> QED
  BY <1>1

LEMMA LedReadKeeps ==
  ASSUME HandleInv, CallsOK, NEW c \in Contexts, NEW m \in Methods, NEW led \in Leds,
         LedRead(c, m, led)
  PROVE  HandleInv'
<1>1. /\ c \in holder["leds"] /\ Begin(c, m, "modify", led)
      /\ old' = [old EXCEPT ![c] = lit] /\ wanted' = Applied(m, led, wanted)
      /\ UNCHANGED <<state, sealed, raw, holder, txFull, wire, sent, lit>>
  BY DEF LedRead
<1>2. /\ task'[c].op = m /\ task'[c].at = "modify" /\ task'[c].on = led /\ task[c].at = "none"
      /\ \A d \in Contexts : d # c => task'[d] = task[d]
  BY <1>1, BeginFacts
<1>3. \A d \in Contexts : task[d].at # "modify"
  BY <1>1, <1>2, OneModifies
<1>4. lit = wanted
  BY <1>3 DEF HandleInv, LedInv
<1>5. old'[c] = lit
  BY <1>1 DEF HandleInv, SingletonsTypeOK
<1>6. LedInv'
  BY <1>1, <1>2, <1>3, <1>4, <1>5 DEF LedInv
<1>7. SingletonsTypeOK'
  <2>1. wanted' \subseteq Leds /\ old' \in [Contexts -> SUBSET Leds]
    BY <1>1, AppliedIsLeds DEF HandleInv, SingletonsTypeOK
  <2> QED
    BY <1>1, <2>1 DEF HandleInv, SingletonsTypeOK
<1>8. TakeInv'
  <2>1. \A d \in Contexts, g \in Handles : AtPeripheral(d, g)' <=> AtPeripheral(d, g)
    BY <1>2 DEF AtPeripheral
  <2>2. \A d \in Contexts, g \in Handles : Uses(d, g)' => d \in holder[g]
    BY <1>1, <1>2 DEF Uses, HandleInv, TakeInv
  <2> QED
    BY <1>1, <2>1, <2>2, TakeQuiet DEF HandleInv
<1>9. LineInv'
  BY <1>1, <1>2, LineQuiet DEF HandleInv
<1> QED
  BY <1>6, <1>7, <1>8, <1>9 DEF HandleInv

LEMMA LedWriteKeeps ==
  ASSUME HandleInv, CallsOK, NEW c \in Contexts, LedWrite(c)
  PROVE  HandleInv'
<1>1. /\ task[c].op \in Methods /\ task[c].at = "modify" /\ Return(c)
      /\ lit' = Applied(task[c].op, task[c].on, old[c])
      /\ UNCHANGED <<state, sealed, raw, holder, txFull, wire, sent, old, wanted>>
  BY DEF LedWrite, At
<1>2. task'[c].at = "none" /\ \A d \in Contexts : d # c => task'[d] = task[d]
  BY <1>1, ReturnFacts
<1>3. c \in holder["leds"]
  BY <1>1 DEF HandleInv, TakeInv, Uses, Handles
<1>4. \A d \in Contexts : task'[d].at # "modify"
  BY <1>2, <1>3, OneModifies
<1>5. lit' = wanted
  BY <1>1 DEF HandleInv, LedInv
<1>6. LedInv'
  BY <1>1, <1>4, <1>5 DEF LedInv
<1>7. SingletonsTypeOK'
  BY <1>1, <1>5 DEF HandleInv, SingletonsTypeOK
<1>8. TakeInv'
  <2>1. \A d \in Contexts, g \in Handles : AtPeripheral(d, g)' <=> AtPeripheral(d, g)
    BY <1>1, <1>2 DEF AtPeripheral
  <2>2. \A d \in Contexts, g \in Handles : Uses(d, g)' => d \in holder[g]
    BY <1>1, <1>2 DEF Uses, HandleInv, TakeInv
  <2> QED
    BY <1>1, <2>1, <2>2, TakeQuiet DEF HandleInv
<1>9. LineInv'
  BY <1>1, <1>2, LineQuiet DEF HandleInv
<1> QED
  BY <1>6, <1>7, <1>8, <1>9 DEF HandleInv

LEMMA HandleStep ==
  ASSUME HandleInv, CallsOK, HandleNext
  PROVE  HandleInv' /\ (wire' # wire => NextOnLine)
<1>1. ASSUME NEW c \in Contexts, SingletonStep(c)
      PROVE  HandleInv' /\ (wire' # wire => NextOnLine)
  <2>1. CASE TakeFirst(c)
    BY <2>1, TakeFirstKeeps DEF TakeFirst
  <2>2. CASE TakePeripheral(c)
    BY <2>2, TakePeripheralKeeps DEF TakePeripheral
  <2>3. CASE TakeFree(c)
    BY <2>3, TakeFreeKeeps DEF TakeFree
  <2>4. CASE WriteByte(c)
    BY <2>4, WriteByteKeeps
  <2>5. CASE PrintRelease(c)
    BY <2>5, ReleasesKeep DEF PrintRelease
  <2>6. CASE LedWrite(c)
    BY <2>6, LedWriteKeeps DEF LedWrite
  <2> QED
    BY <1>1, <2>1, <2>2, <2>3, <2>4, <2>5, <2>6 DEF SingletonStep
<1>2. ASSUME NEW c \in Contexts, SingletonCall(c)
      PROVE  HandleInv' /\ (wire' # wire => NextOnLine)
  <2>1. ASSUME NEW h \in Handles, NEW op \in Taking, TakeLoad(c, h, op)
        PROVE  HandleInv' /\ wire' = wire
    BY <2>1, TakeLoadKeeps DEF TakeLoad, singletonVars
  <2>2. ASSUME NEW h \in Handles, Release(c, h)
        PROVE  HandleInv' /\ wire' = wire
    BY <2>2, ReleasesKeep DEF Release
  <2>3. ASSUME NEW h \in Handles, RawTake(c, h)
        PROVE  HandleInv' /\ wire' = wire
    BY <2>3, RawTakeKeeps DEF RawTake
  <2>4. CASE WriteAll(c)
    BY <2>4, WriteAllKeeps DEF WriteAll, singletonVars
  <2>5. ASSUME NEW m \in Methods, NEW led \in Leds, LedRead(c, m, led)
        PROVE  HandleInv' /\ wire' = wire
    BY <2>5, LedReadKeeps DEF LedRead
  <2> QED
    BY <1>2, <2>1, <2>2, <2>3, <2>4, <2>5 DEF SingletonCall
<1>3. CASE Transmit
  <2>1. wire' = wire
    BY <1>3 DEF Transmit
  <2> QED
    BY <1>3, <2>1, TransmitKeeps
<1> QED
  BY <1>1, <1>2, <1>3 DEF HandleNext

LEMMA HandleKept ==
  ASSUME HandleInv, CallsOK, [Next]_vars
  PROVE  HandleInv' /\ (wire' # wire => NextOnLine)
<1>1. CASE HandleNext
  BY <1>1, HandleStep
<1>2. CASE UNCHANGED singletonVars /\ Foreign(HandleOps)
  BY <1>2, Frames, HandleForeign DEF singletonVars
<1> QED
  BY <1>1, <1>2, Frames

LEMMA HandleInvariant == Spec => []HandleInv
<1>1. HandleInv /\ CallsOK /\ [Next]_vars => HandleInv'
  BY HandleKept
<1> QED
  BY <1>1, HandleInitInv, CallsInvariant, PTL DEF Spec

LEMMA AtMostOne ==
  ASSUME NEW S, \A c, d \in S : c = d
  PROVE  Cardinality(S) <= 1
<1>1. CASE S = {}
  BY <1>1, FS_EmptySet
<1>2. CASE S # {}
  <2>1. PICK c \in S : TRUE
    BY <1>2
  <2>2. S = {c}
    BY <2>1
  <2> QED
    BY <2>2, FS_Singleton, 1 <= 1
<1> QED
  BY <1>1, <1>2

LEMMA HandlesExclusive == HandleInv => SingletonsTypeOK /\ OneHolder /\ TakenIsHeld
<1> SUFFICES ASSUME HandleInv PROVE SingletonsTypeOK /\ OneHolder /\ TakenIsHeld
  OBVIOUS
<1>1. SingletonsTypeOK /\ TakenIsHeld
  BY DEF HandleInv, TakeInv
<1>2. ASSUME NEW h \in Handles PROVE \A c, d \in holder[h] : c = d
  BY DEF HandleInv, TakeInv, Claims, SingletonsTypeOK
<1> QED
  BY <1>1, <1>2, AtMostOne DEF OneHolder

(* Whatever the contexts do and in whatever order they preempt each other, *)
(* a message's bytes follow each other on the line, and no call on the     *)
(* LEDs is lost to the read-modify-write of another (print!, write_all;    *)
(* on, off, toggle).                                                       *)
THEOREM OutputsWhole == Spec => OutputWhole
<1>1. HandleInv /\ CallsOK /\ [Next]_vars =>
        [wire' # wire =>
          IF wire'.byte = 1 THEN wire.byte = LineLen
          ELSE wire' = [wire EXCEPT !.byte = @ + 1]]_wire
  BY HandleKept DEF NextOnLine
<1>2. HandleInv => ((\A c \in Contexts : task[c].at # "modify") => lit = wanted)
  BY DEF HandleInv, LedInv
<1>3. Spec => [][wire' # wire =>
          IF wire'.byte = 1 THEN wire.byte = LineLen
          ELSE wire' = [wire EXCEPT !.byte = @ + 1]]_wire
  BY <1>1, HandleInvariant, CallsInvariant, PTL DEF Spec
<1>4. Spec => []((\A c \in Contexts : task[c].at # "modify") => lit = wanted)
  BY <1>2, HandleInvariant, PTL
<1> QED
  BY <1>3, <1>4, PTL DEF OutputWhole

(***************************************************************************)
(* Start-up.  Only the main program starts up.  While it does, the I2C     *)
(* controller is busy only with the byte the step waits for, and its       *)
(* interrupt flag is set only for that byte: so each wait of i2c_tx ends   *)
(* with its own byte, a read-back that equals VAL has been read from the   *)
(* FUSB303, and after the last stop the bus stays quiet.                   *)
(***************************************************************************)
After(p, w) == boot.pos > p \/ (boot.pos = p /\ w)

Progress(w) ==
  /\ boot.end = "none" /\ lamps = {"white"}
  /\ i2c.busy # "none" => w /\ Doing = i2c.busy
  /\ i2c.iif /\ After(1, w) => w /\ i2c.busy = "none" /\ Doing \in Bytes \cup {"receive"}
  /\ boot.pos > 13 \/ (boot.pos = 13 /\ w /\ i2c.iif) => (i2c.data = VAL => fusb.reg = VAL)
  /\ w => boot.pos # 15
  /\ After(14, w) => ~ i2c.msta
  /\ boot.pos > 14 => ~ i2c.ibb /\ i2c.busy = "none"
  /\ boot.pos > 15 => fusb.reg = VAL
  /\ boot.pos > 17 => tx.on /\ ~ tx.reset

BoardInv ==
  /\ StartUpTypeOK
  /\ \A c \in Contexts : task[c].op = "boot" =>
       (\A d \in Contexts : c <= d) /\ Progress(task[c].at = "wait")
  /\ (\A c \in Contexts : task[c].op # "boot") =>
       MainMeansReady /\ (boot.end = "main" => ~ i2c.msta)

LEMMA ScriptIs ==
  /\ Len(Script) = 18
  /\ Script[1] = "enable" /\ Script[2] = "start" /\ Script[3] = "addr_w"
  /\ Script[4] = "reg_addr" /\ Script[5] = "val" /\ Script[6] = "stop"
  /\ Script[7] = "enable" /\ Script[8] = "start" /\ Script[9] = "addr_w"
  /\ Script[10] = "reg_addr" /\ Script[11] = "restart" /\ Script[12] = "addr_r"
  /\ Script[13] = "receive" /\ Script[14] = "stop" /\ Script[15] = "get"
  /\ Script[16] = "drain" /\ Script[17] = "reset" /\ Script[18] = "delay"
BY DEF Script, i2c_write, i2c_write_then_read, serial_init

LEMMA DoingAt ==
  ASSUME StartUpTypeOK
  PROVE  /\ boot.pos \in 1 .. 18 /\ Len(Script) = 18
         /\ boot.pos \in {1, 7} <=> Doing = "enable"
         /\ boot.pos \in {2, 8} <=> Doing = "start"
         /\ boot.pos \in {3, 4, 5, 9, 10, 12} <=> Doing \in Bytes
         /\ boot.pos \in {6, 14} <=> Doing = "stop"
         /\ boot.pos = 11 <=> Doing = "restart"
         /\ boot.pos = 13 <=> Doing = "receive"
         /\ boot.pos = 15 <=> Doing = "get"
         /\ boot.pos = 16 <=> Doing = "drain"
         /\ boot.pos = 17 <=> Doing = "reset"
         /\ boot.pos = 18 <=> Doing = "delay"
<1>1. Len(Script) = 18
  BY ScriptIs
<1>2. boot.pos \in 1 .. 18
  BY <1>1 DEF StartUpTypeOK
<1> QED
  BY <1>1, <1>2, ScriptIs DEF Doing, Bytes

LEMMA OneBoots ==
  ASSUME BoardInv, NEW c \in Contexts, task[c].op = "boot"
  PROVE  \A d \in Contexts : task[d].op = "boot" => d = c
BY ContextsAssumption DEF BoardInv

LEMMA BoardInitInv == Init => BoardInv
<1> SUFFICES ASSUME Init PROVE BoardInv
  OBVIOUS
<1>1. \A c \in Contexts : task[c].op = "none"
  BY NothingInProgress, Zenon
<1>2. StartUpInit
  BY DEF Init
<1>3. StartUpTypeOK
  BY <1>2, ScriptIs DEF StartUpInit, StartUpTypeOK
<1>4. boot.end = "none"
  BY <1>2 DEF StartUpInit
<1> QED
  BY <1>1, <1>3, <1>4 DEF BoardInv, MainMeansReady

LEMMA BoardForeign ==
  ASSUME BoardInv, UNCHANGED startUpVars, Foreign({"boot"})
  PROVE  BoardInv'
<1>1. \A c \in Contexts : task[c].op = "boot" \/ task'[c].op = "boot" => task'[c] = task[c]
  BY DEF Foreign
<1>2. UNCHANGED <<boot, i2c, fusb, tx, lamps>> /\ Doing' = Doing
  BY DEF startUpVars, Doing
<1>3. StartUpTypeOK' /\ MainMeansReady' = MainMeansReady
  BY <1>2 DEF BoardInv, StartUpTypeOK, MainMeansReady
<1>4. ASSUME NEW c \in Contexts, task'[c].op = "boot"
      PROVE  (\A d \in Contexts : c <= d) /\ Progress(task[c].at = "wait")'
  BY <1>1, <1>2, <1>4 DEF BoardInv, Progress, After
<1>5. (\A c \in Contexts : task'[c].op # "boot") =>
        MainMeansReady' /\ (boot'.end = "main" => ~ i2c'.msta)
  BY <1>1, <1>2, <1>3 DEF BoardInv
<1> QED
  BY <1>3, <1>4, <1>5 DEF BoardInv

(* The start-up goes on, or ends. *)
LEMMA BootGoesOn ==
  ASSUME BoardInv, NEW c \in Contexts, \A d \in Contexts : c <= d,
         \A d \in Contexts : d # c => task'[d] = task[d],
         task'[c].op = "boot", StartUpTypeOK', Progress(task[c].at = "wait")'
  PROVE  BoardInv'
<1>1. ASSUME NEW d \in Contexts, task'[d].op = "boot" PROVE d = c
  BY <1>1, ContextsAssumption DEF BoardInv
<1> QED
  BY <1>1 DEF BoardInv

LEMMA BootEnds ==
  ASSUME BoardInv, CallsOK, NEW c \in Contexts, task[c].op = "boot", Return(c), StartUpTypeOK',
         boot'.end = "main" => MainMeansReady' /\ ~ i2c'.msta
  PROVE  BoardInv'
<1>1. \A d \in Contexts : task'[d].op # "boot"
  BY OneBoots, ReturnFacts
<1>2. MainMeansReady'
  BY DEF MainMeansReady
<1> QED
  BY <1>1, <1>2 DEF BoardInv

(* Done: the next step has to be reached in a state that allows it. *)
LEMMA DoneKeeps ==
  ASSUME BoardInv, CallsOK, NEW c \in Contexts, task[c].op = "boot", Done(c),
         StartUpTypeOK,
         i2c' \in [msta : BOOLEAN, mtx : BOOLEAN, ibb : BOOLEAN, iif : BOOLEAN, rxak : BOOLEAN,
                   ial : BOOLEAN, busy : Bytes \cup {"none", "receive"},
                   data : {"none", "reset", VAL}],
         fusb'.reg \in {"reset", VAL},
         tx' \in [sending : BOOLEAN, reset : BOOLEAN, on : BOOLEAN],
         i2c'.busy = "none", ~ i2c'.iif,
         boot.pos >= 13 => (i2c'.data = VAL => fusb'.reg = VAL),
         boot.pos >= 14 => ~ i2c'.msta /\ ~ i2c'.ibb,
         boot.pos >= 15 => fusb'.reg = VAL,
         boot.pos >= 17 => tx'.on /\ ~ tx'.reset
  PROVE  BoardInv'
<1>1. boot.pos \in 1 .. 18 /\ Len(Script) = 18 /\ lamps' = lamps /\ boot.end = "none"
      /\ lamps = {"white"} /\ \A d \in Contexts : c <= d
  BY DoingAt DEF Done, BoardInv, Progress
<1>2. CASE boot.pos < 18
  <2>1. boot' = [boot EXCEPT !.pos = boot.pos + 1] /\ Goto(c, "issue")
    BY <1>1, <1>2 DEF Done
  <2>2. /\ boot'.pos = boot.pos + 1 /\ boot'.end = "none" /\ boot'.pos \in 1 .. Len(Script)
        /\ boot' \in [pos : 1 .. Len(Script), end : {"none", "main", "fatal"}]
    BY <1>1, <1>2, <2>1 DEF StartUpTypeOK
  <2>3. /\ task'[c].op = "boot" /\ task'[c].at = "issue"
        /\ \A d \in Contexts : d # c => task'[d] = task[d]
    BY <2>1, GotoFacts
  <2>4. StartUpTypeOK'
    BY <2>2 DEF StartUpTypeOK
  <2>5. Progress(task[c].at = "wait")'
    BY <1>1, <2>2, <2>3 DEF Progress, After
  <2> QED
    BY <1>1, <2>3, <2>4, <2>5, BootGoesOn
<1>3. CASE boot.pos = 18
  <2>1. boot' = [boot EXCEPT !.end = "main"] /\ Return(c)
    BY <1>1, <1>3 DEF Done
  <2>2. StartUpTypeOK'
    BY <2>1 DEF StartUpTypeOK
  <2>3. MainMeansReady' /\ ~ i2c'.msta
    BY <1>1, <1>3 DEF MainMeansReady
  <2> QED
    BY <2>1, <2>2, <2>3, BootEnds
<1> QED
  BY <1>1, <1>2, <1>3

LEMMA FatalKeeps ==
  ASSUME BoardInv, CallsOK, NEW c \in Contexts, task[c].op = "boot", Fatal(c), StartUpTypeOK,
         i2c' \in [msta : BOOLEAN, mtx : BOOLEAN, ibb : BOOLEAN, iif : BOOLEAN, rxak : BOOLEAN,
                   ial : BOOLEAN, busy : Bytes \cup {"none", "receive"},
                   data : {"none", "reset", VAL}],
         UNCHANGED <<fusb, tx>>
  PROVE  BoardInv'
<1>1. boot' = [boot EXCEPT !.end = "fatal"] /\ Return(c)
  BY DEF Fatal
<1>2. boot' \in [pos : 1 .. Len(Script), end : {"none", "main", "fatal"}] /\ boot'.end = "fatal"
  BY <1>1 DEF StartUpTypeOK
<1>3. StartUpTypeOK'
  BY <1>2 DEF StartUpTypeOK
<1> QED
  BY <1>1, <1>2, <1>3, BootEnds

I2cRegisters ==
  [msta : BOOLEAN, mtx : BOOLEAN, ibb : BOOLEAN, iif : BOOLEAN, rxak : BOOLEAN,
   ial : BOOLEAN, busy : Bytes \cup {"none", "receive"}, data : {"none", "reset", VAL}]

(* A step that goes on to wait. *)
LEMMA WaitKeeps ==
  ASSUME BoardInv, CallsOK, NEW c \in Contexts, task[c].op = "boot", task[c].at = "issue",
         Wait(c), i2c' \in I2cRegisters, fusb' = fusb,
         tx' \in [sending : BOOLEAN, reset : BOOLEAN, on : BOOLEAN],
         i2c'.busy # "none" => Doing = i2c'.busy /\ boot.pos <= 13,
         ~ i2c'.iif, boot.pos # 15,
         i2c'.data = i2c.data, boot.pos >= 14 => ~ i2c'.msta,
         i2c'.ibb = i2c.ibb,
         boot.pos > 17 => tx' = tx
  PROVE  BoardInv'
<1>1. boot' = boot /\ lamps' = lamps /\ Goto(c, "wait")
  BY DEF Wait
<1>2. /\ task'[c].op = "boot" /\ task'[c].at = "wait"
      /\ \A d \in Contexts : d # c => task'[d] = task[d]
  BY <1>1, GotoFacts
<1>3. StartUpTypeOK /\ Progress(FALSE) /\ \A d \in Contexts : c <= d
  <2>1. (task[c].at = "wait") = FALSE
    OBVIOUS
  <2> QED
    BY <2>1 DEF BoardInv
<1>4. StartUpTypeOK'
  BY <1>1, <1>3 DEF StartUpTypeOK, I2cRegisters
<1>5. boot.pos \in 1 .. 18
  BY <1>3, DoingAt
<1>6. Doing' = Doing
  BY <1>1 DEF Doing
<1>7. Progress(task[c].at = "wait")'
  BY <1>1, <1>2, <1>3, <1>5, <1>6 DEF Progress, After
<1> QED
  BY <1>2, <1>3, <1>4, <1>7, BootGoesOn

(* At the beginning of a step. *)
LEMMA AtIssue ==
  ASSUME BoardInv, NEW c \in Contexts, At(c, "boot", "issue")
  PROVE  /\ StartUpTypeOK /\ task[c].op = "boot" /\ task[c].at = "issue"
         /\ boot.pos \in 1 .. 18 /\ i2c.busy = "none" /\ (boot.pos > 1 => ~ i2c.iif)
         /\ boot.pos > 13 => (i2c.data = VAL => fusb.reg = VAL)
         /\ boot.pos > 14 => ~ i2c.msta /\ ~ i2c.ibb
         /\ boot.pos > 15 => fusb.reg = VAL
         /\ boot.pos > 17 => tx.on /\ ~ tx.reset
         /\ i2c \in I2cRegisters /\ tx \in [sending : BOOLEAN, reset : BOOLEAN, on : BOOLEAN]
         /\ fusb.reg \in {"reset", VAL}
<1>1. task[c].op = "boot" /\ task[c].at = "issue" /\ (task[c].at = "wait") = FALSE
  BY DEF At
<1>2. StartUpTypeOK /\ Progress(FALSE)
  BY <1>1 DEF BoardInv
<1>3. boot.pos \in 1 .. 18
  BY <1>2, DoingAt
<1> QED
  BY <1>1, <1>2, <1>3 DEF Progress, After, StartUpTypeOK, I2cRegisters

LEMMA IssueKeeps ==
  ASSUME BoardInv, CallsOK, NEW c \in Contexts, Issue(c)
  PROVE  BoardInv'
<1>0. At(c, "boot", "issue")
  BY DEF Issue
<1> DEFINE Known ==
      /\ StartUpTypeOK /\ task[c].op = "boot" /\ task[c].at = "issue"
      /\ boot.pos \in 1 .. 18 /\ i2c.busy = "none" /\ (boot.pos > 1 => ~ i2c.iif)
      /\ boot.pos > 13 => (i2c.data = VAL => fusb.reg = VAL)
      /\ boot.pos > 14 => ~ i2c.msta /\ ~ i2c.ibb
      /\ boot.pos > 15 => fusb.reg = VAL
      /\ boot.pos > 17 => tx.on /\ ~ tx.reset
      /\ i2c \in I2cRegisters /\ tx \in [sending : BOOLEAN, reset : BOOLEAN, on : BOOLEAN]
      /\ fusb.reg \in {"reset", VAL}
<1>1. Known
  BY <1>0, AtIssue
<1>2. CASE Enable(c)
  <2>1. boot.pos \in {1, 7} /\ Wait(c) /\ fusb' = fusb /\ tx' = tx
    BY <1>1, <1>2, DoingAt DEF Enable
  <2>2. i2c' = [i2c EXCEPT !.iif = FALSE, !.ial = FALSE,
                           !.msta = FALSE, !.mtx = FALSE, !.busy = "none"]
    BY <1>2 DEF Enable
  <2>3. /\ i2c' \in I2cRegisters /\ i2c'.busy = "none" /\ ~ i2c'.iif /\ ~ i2c'.msta
        /\ i2c'.data = i2c.data /\ i2c'.ibb = i2c.ibb
    BY <1>1, <2>2 DEF I2cRegisters
  <2> QED
    BY <1>1, <2>1, <2>3, WaitKeeps
<1>3. CASE Start(c)
  <2>1. boot.pos \in {2, 8} /\ Wait(c) /\ fusb' = fusb /\ tx' = tx
    BY <1>1, <1>3, DoingAt DEF Start
  <2>2. i2c' = [i2c EXCEPT !.msta = TRUE, !.mtx = TRUE]
    BY <1>3 DEF Start
  <2>3. /\ i2c' \in I2cRegisters /\ i2c'.busy = "none" /\ ~ i2c'.iif
        /\ i2c'.data = i2c.data /\ i2c'.ibb = i2c.ibb
    <3>1. i2c \in I2cRegisters /\ i2c.busy = "none" /\ ~ i2c.iif
      BY <1>1, <2>1
    <3>2. i2c' \in I2cRegisters
      BY <2>1, <2>2, <3>1 DEF I2cRegisters
    <3>3. i2c'.busy = i2c.busy /\ i2c'.iif = i2c.iif /\ i2c'.data = i2c.data /\ i2c'.ibb = i2c.ibb
      BY <2>2, <3>1 DEF I2cRegisters
    <3> QED
      BY <2>1, <3>1, <3>2, <3>3
  <2> QED
    BY <1>1, <2>1, <2>3, WaitKeeps
<1>4. CASE i2c_tx(c)
  <2>1. boot.pos \in {3, 4, 5, 9, 10, 12} /\ Doing \in Bytes /\ Wait(c) /\ fusb' = fusb /\ tx' = tx
    BY <1>1, <1>4, DoingAt DEF i2c_tx
  <2>2. i2c' = [i2c EXCEPT !.busy = Doing]
    BY <1>4 DEF i2c_tx
  <2>3. /\ i2c' \in I2cRegisters /\ i2c'.busy = Doing /\ ~ i2c'.iif
        /\ i2c'.data = i2c.data /\ i2c'.ibb = i2c.ibb
    BY <1>1, <2>1, <2>2 DEF I2cRegisters
  <2> QED
    BY <1>1, <2>1, <2>3, WaitKeeps
<1>5. CASE i2c_restart(c)
  <2>1. boot.pos = 11 /\ Done(c) /\ i2c' = i2c /\ tx' = tx
    BY <1>1, <1>5, DoingAt DEF i2c_restart
  <2>2. fusb' = [fusb EXCEPT !.at = IF fusb.at = "selected" THEN "started_again" ELSE "started"]
    BY <1>5 DEF i2c_restart
  <2>3. fusb'.reg = fusb.reg
    BY <2>2
  <2> QED
    BY <1>1, <2>1, <2>3, DoneKeeps DEF I2cRegisters
<1>6. CASE Receive(c)
  <2>1. boot.pos = 13 /\ Doing = "receive" /\ Wait(c) /\ fusb' = fusb /\ tx' = tx
    BY <1>1, <1>6, DoingAt DEF Receive
  <2>2. i2c' = [i2c EXCEPT !.mtx = FALSE, !.busy = "receive"]
    BY <1>6 DEF Receive
  <2>3. /\ i2c' \in I2cRegisters /\ i2c'.busy = Doing /\ ~ i2c'.iif
        /\ i2c'.data = i2c.data /\ i2c'.ibb = i2c.ibb
    <3>1. i2c \in I2cRegisters /\ i2c.busy = "none" /\ ~ i2c.iif
      BY <1>1, <2>1
    <3>2. i2c' \in I2cRegisters
      BY <2>1, <2>2, <3>1 DEF I2cRegisters
    <3>3. i2c'.busy = "receive" /\ i2c'.iif = i2c.iif /\ i2c'.data = i2c.data /\ i2c'.ibb = i2c.ibb
      BY <2>2, <3>1 DEF I2cRegisters
    <3> QED
      BY <2>1, <3>1, <3>2, <3>3
  <2> QED
    BY <1>1, <2>1, <2>3, WaitKeeps
<1>7. CASE Stop(c)
  <2>1. boot.pos \in {6, 14} /\ Wait(c) /\ fusb' = fusb /\ tx' = tx
    BY <1>1, <1>7, DoingAt DEF Stop
  <2>2. i2c' = [i2c EXCEPT !.msta = FALSE, !.mtx = FALSE]
    BY <1>7 DEF Stop
  <2>3. /\ i2c' \in I2cRegisters /\ i2c'.busy = "none" /\ ~ i2c'.iif /\ ~ i2c'.msta
        /\ i2c'.data = i2c.data /\ i2c'.ibb = i2c.ibb
    <3>1. i2c \in I2cRegisters /\ i2c.busy = "none" /\ ~ i2c.iif
      BY <1>1, <2>1
    <3>2. i2c' \in I2cRegisters
      BY <2>1, <2>2, <3>1 DEF I2cRegisters
    <3>3. /\ i2c'.busy = i2c.busy /\ i2c'.iif = i2c.iif /\ i2c'.data = i2c.data
          /\ i2c'.ibb = i2c.ibb /\ ~ i2c'.msta
      BY <2>2, <3>1 DEF I2cRegisters
    <3> QED
      BY <2>1, <3>1, <3>2, <3>3
  <2> QED
    BY <1>1, <2>1, <2>3, WaitKeeps
<1>8. CASE Get(c)
  <2>1. boot.pos = 15 /\ fusb' = fusb /\ tx' = tx
        /\ (IF i2c.data = VAL THEN Done(c) ELSE Fatal(c))
        /\ i2c' = [i2c EXCEPT !.busy = IF i2c.msta /\ ~ i2c.mtx THEN "receive" ELSE @]
    BY <1>1, <1>8, DoingAt DEF Get
  <2>2. i2c' = i2c
    BY <1>1, <2>1 DEF I2cRegisters
  <2>3. CASE i2c.data = VAL
    BY <1>1, <2>1, <2>2, <2>3, DoneKeeps DEF I2cRegisters
  <2>4. CASE i2c.data # VAL
    BY <1>1, <2>1, <2>2, <2>4, FatalKeeps DEF I2cRegisters
  <2> QED
    BY <2>3, <2>4
<1>9. CASE Drain(c)
  <2>1. boot.pos = 16 /\ Wait(c) /\ i2c' = i2c /\ fusb' = fusb /\ tx' = tx
    BY <1>1, <1>9, DoingAt DEF Drain
  <2> QED
    BY <1>1, <2>1, WaitKeeps
<1>10. CASE ResetUart(c)
  <2>1. boot.pos = 17 /\ Wait(c) /\ i2c' = i2c /\ fusb' = fusb
        /\ tx' = [tx EXCEPT !.on = FALSE, !.reset = TRUE]
    BY <1>1, <1>10, DoingAt DEF ResetUart
  <2>2. tx' \in [sending : BOOLEAN, reset : BOOLEAN, on : BOOLEAN]
    BY <1>1, <2>1
  <2> QED
    BY <1>1, <2>1, <2>2, WaitKeeps
<1>11. CASE Delay(c)
  <2>1. boot.pos = 18 /\ Done(c) /\ i2c' = i2c /\ fusb' = fusb /\ tx' = tx
    BY <1>1, <1>11, DoingAt DEF Delay
  <2> QED
    BY <1>1, <2>1, DoneKeeps DEF I2cRegisters
<1> QED
  BY <1>2, <1>3, <1>4, <1>5, <1>6, <1>7, <1>8, <1>9, <1>10, <1>11 DEF Issue

(* While a step waits. *)
LEMMA AtWait ==
  ASSUME BoardInv, NEW c \in Contexts, task[c].op = "boot", task[c].at = "wait"
  PROVE  /\ StartUpTypeOK /\ Progress(TRUE) /\ boot.pos \in 1 .. 18
         /\ \A d \in Contexts : c <= d
         /\ i2c \in I2cRegisters /\ tx \in [sending : BOOLEAN, reset : BOOLEAN, on : BOOLEAN]
         /\ fusb.reg \in {"reset", VAL}
<1>1. (task[c].at = "wait") = TRUE
  OBVIOUS
<1>2. StartUpTypeOK /\ Progress(TRUE) /\ \A d \in Contexts : c <= d
  BY <1>1 DEF BoardInv
<1>3. boot.pos \in 1 .. 18
  BY <1>2, DoingAt
<1> QED
  BY <1>2, <1>3 DEF StartUpTypeOK, I2cRegisters

LEMMA WaitOverKeeps ==
  ASSUME BoardInv, CallsOK, NEW c \in Contexts, WaitOver(c)
  PROVE  BoardInv'
<1>1. task[c].op = "boot" /\ task[c].at = "wait"
  BY DEF WaitOver, At
<1>2. /\ StartUpTypeOK /\ Progress(TRUE) /\ boot.pos \in 1 .. 18
      /\ i2c \in I2cRegisters /\ tx \in [sending : BOOLEAN, reset : BOOLEAN, on : BOOLEAN]
      /\ fusb.reg \in {"reset", VAL}
  BY <1>1, AtWait
<1>3. /\ Ready /\ fusb' = fusb
      /\ i2c' = (IF Doing \in Bytes \cup {"receive"} THEN [i2c EXCEPT !.iif = FALSE] ELSE i2c)
      /\ tx' = (IF Doing = "reset" THEN [tx EXCEPT !.on = TRUE] ELSE tx)
      /\ (IF Doing \in Bytes /\ i2c.rxak THEN Fatal(c) ELSE Done(c))
  BY DEF WaitOver
<1>4. /\ boot.pos \in {3, 4, 5, 9, 10, 12} <=> Doing \in Bytes
      /\ boot.pos \in {6, 14} <=> Doing = "stop"
      /\ boot.pos = 13 <=> Doing = "receive"
      /\ boot.pos = 17 <=> Doing = "reset"
  BY <1>2, DoingAt
<1>5. /\ i2c' \in I2cRegisters /\ i2c'.busy = i2c.busy /\ i2c'.msta = i2c.msta
      /\ i2c'.ibb = i2c.ibb /\ i2c'.data = i2c.data
      /\ Doing \in Bytes \cup {"receive"} => ~ i2c'.iif
      /\ Doing \notin Bytes \cup {"receive"} => i2c'.iif = i2c.iif
  BY <1>2, <1>3 DEF I2cRegisters
<1>6. tx' \in [sending : BOOLEAN, reset : BOOLEAN, on : BOOLEAN] /\ tx'.reset = tx.reset
      /\ (Doing = "reset" => tx'.on)
  BY <1>2, <1>3
<1>7. Doing \in Bytes \cup {"receive"} => i2c.iif
  BY <1>3 DEF Ready, Bytes
<1>8. i2c'.busy = "none" /\ ~ i2c'.iif
  <2>1. i2c.iif => i2c.busy = "none" /\ Doing \in Bytes \cup {"receive"}
    BY <1>2 DEF Progress, After
  <2>2. i2c.busy # "none" => Doing \in Bytes \cup {"receive"}
    BY <1>2 DEF Progress, I2cRegisters
  <2> QED
    BY <1>5, <1>7, <2>1, <2>2
<1>9. boot.pos >= 13 => (i2c'.data = VAL => fusb'.reg = VAL)
  BY <1>2, <1>3, <1>4, <1>5, <1>7 DEF Progress
<1>10. boot.pos >= 14 => ~ i2c'.msta /\ ~ i2c'.ibb
  <2>1. CASE boot.pos = 14
    <3>1. ~ i2c.ibb
      BY <1>3, <1>4, <2>1 DEF Ready
    <3> QED
      BY <1>2, <1>5, <2>1, <3>1 DEF Progress, After
  <2>2. CASE boot.pos > 14
    BY <1>2, <1>5, <2>2 DEF Progress, After
  <2> QED
    BY <1>2, <2>1, <2>2
<1>11. boot.pos >= 15 => fusb'.reg = VAL
  <2>1. boot.pos # 15
    BY <1>2 DEF Progress
  <2> QED
    BY <1>2, <1>3, <2>1 DEF Progress
<1>12. boot.pos >= 17 => tx'.on /\ ~ tx'.reset
  <2>1. CASE boot.pos = 17
    <3>1. ~ tx.reset
      BY <1>3, <1>4, <2>1 DEF Ready, Bytes
    <3> QED
      BY <1>4, <1>6, <2>1, <3>1
  <2>2. CASE boot.pos > 17
    BY <1>2, <1>3, <1>4, <2>2 DEF Progress
  <2> QED
    BY <1>2, <2>1, <2>2
<1>13. CASE Done(c)
  BY <1>1, <1>2, <1>3, <1>5, <1>6, <1>8, <1>9, <1>10, <1>11, <1>12, <1>13, DoneKeeps
     DEF I2cRegisters
<1>14. CASE Fatal(c) /\ Doing \in Bytes
  <2>1. tx' = tx
    BY <1>3, <1>4, <1>14, <1>2
  <2> QED
    BY <1>1, <1>2, <1>3, <1>5, <1>14, <2>1, FatalKeeps DEF I2cRegisters
<1> QED
  BY <1>3, <1>13, <1>14

LEMMA WaitFailsKeeps ==
  ASSUME BoardInv, CallsOK, NEW c \in Contexts, WaitFails(c)
  PROVE  BoardInv'
<1>1. task[c].op = "boot" /\ task[c].at = "wait" /\ Fatal(c) /\ UNCHANGED <<i2c, fusb, tx>>
  BY DEF WaitFails, At
<1>2. StartUpTypeOK /\ i2c \in I2cRegisters
  BY <1>1, AtWait
<1> QED
  BY <1>1, <1>2, FatalKeeps DEF I2cRegisters

LEMMA BootKeeps ==
  ASSUME BoardInv, CallsOK, NEW c \in Contexts, Boot(c)
  PROVE  BoardInv'
<1>1. /\ \A d \in Contexts : c <= d
      /\ Begin(c, "boot", "issue", "board") /\ boot' = [pos |-> 1, end |-> "none"]
      /\ i2c' = [i2c EXCEPT !.msta = FALSE, !.mtx = FALSE, !.busy = "none"]
      /\ fusb' \in {[fusb EXCEPT !.at = "idle"], [at |-> "idle", reg |-> "reset"]}
      /\ tx' \in {tx, [tx EXCEPT !.sending = tx.on]}
      /\ lamps' = {"white"}
  BY DEF Boot
<1>2. /\ task'[c].op = "boot" /\ task'[c].at = "issue"
      /\ \A d \in Contexts : d # c => task'[d] = task[d]
  BY <1>1, BeginFacts
<1>3. /\ i2c \in I2cRegisters /\ fusb.reg \in {"reset", VAL}
      /\ tx \in [sending : BOOLEAN, reset : BOOLEAN, on : BOOLEAN]
  BY DEF BoardInv, StartUpTypeOK, I2cRegisters
<1>4. i2c' \in I2cRegisters /\ i2c'.busy = "none"
  BY <1>1, <1>3 DEF I2cRegisters
<1>5. fusb'.reg \in {"reset", VAL} /\ tx' \in [sending : BOOLEAN, reset : BOOLEAN, on : BOOLEAN]
  <2>1. fusb'.reg \in {"reset", VAL}
    <3>1. fusb' = [fusb EXCEPT !.at = "idle"] => fusb'.reg = fusb.reg
      OBVIOUS
    <3>2. fusb' = [at |-> "idle", reg |-> "reset"] => fusb'.reg = "reset"
      OBVIOUS
    <3>3. \/ fusb' = [fusb EXCEPT !.at = "idle"]
          \/ fusb' = [at |-> "idle", reg |-> "reset"]
      BY <1>1
    <3> QED
      BY <1>3, <3>1, <3>2, <3>3
  <2>2. tx' = tx \/ tx' = [tx EXCEPT !.sending = tx.on]
    BY <1>1
  <2>3. tx' \in [sending : BOOLEAN, reset : BOOLEAN, on : BOOLEAN]
    BY <1>3, <2>2
  <2> QED
    BY <2>1, <2>3
<1>6. boot' \in [pos : 1 .. Len(Script), end : {"none", "main", "fatal"}]
  BY <1>1, ScriptIs
<1>7. StartUpTypeOK'
  BY <1>4, <1>5, <1>6 DEF StartUpTypeOK, I2cRegisters
<1>8. Progress(task[c].at = "wait")'
  BY <1>1, <1>2, <1>4 DEF Progress, After
<1> QED
  BY <1>1, <1>2, <1>7, <1>8, BootGoesOn

(* A step of the bus or of the UART. *)
LEMMA DeviceKeeps ==
  ASSUME BoardInv, UNCHANGED <<task, boot, lamps>>, StartUpTypeOK',
         \A c \in Contexts : task[c].op = "boot" => Progress(task[c].at = "wait")',
         MainMeansReady /\ (boot.end = "main" => ~ i2c.msta)
           => MainMeansReady' /\ (boot.end = "main" => ~ i2c'.msta)
  PROVE  BoardInv'
BY DEF BoardInv

LEMMA UartSentKeeps ==
  ASSUME BoardInv, UartSent
  PROVE  BoardInv'
<1>1. /\ UNCHANGED <<task, boot, lamps, i2c, fusb>>
      /\ tx' = [tx EXCEPT !.sending = FALSE, !.reset = FALSE]
  BY DEF UartSent, contextVars
<1>2. /\ tx' \in [sending : BOOLEAN, reset : BOOLEAN, on : BOOLEAN]
      /\ tx'.on = tx.on /\ ~ tx'.reset
  BY <1>1 DEF BoardInv, StartUpTypeOK
<1>3. StartUpTypeOK'
  BY <1>1, <1>2 DEF BoardInv, StartUpTypeOK
<1>4. ASSUME NEW c \in Contexts, task[c].op = "boot" PROVE Progress(task[c].at = "wait")'
  BY <1>1, <1>2, <1>4 DEF BoardInv, Progress, After, Doing
<1>5. MainMeansReady => MainMeansReady'
  BY <1>1, <1>2 DEF MainMeansReady
<1> QED
  BY <1>1, <1>3, <1>4, <1>5, DeviceKeeps

LEMMA BusKeeps ==
  ASSUME BoardInv, UNCHANGED <<task, boot, lamps, tx>>,
         i2c' \in I2cRegisters, fusb'.reg \in {"reset", VAL}, fusb.reg = VAL => fusb'.reg = VAL,
         i2c'.msta => i2c.msta,
         i2c.busy = "none" => i2c'.busy = "none" /\ i2c'.iif = i2c.iif,
         i2c.busy # "none" => (i2c'.busy = i2c.busy /\ i2c'.iif = i2c.iif) \/ i2c'.busy = "none",
         i2c'.data # i2c.data => i2c.busy = "receive" /\ (i2c'.data = VAL => fusb'.reg = VAL),
         i2c'.iif # i2c.iif /\ i2c.busy = "receive" => (i2c'.data = VAL => fusb'.reg = VAL),
         i2c'.ibb => i2c.ibb \/ i2c.msta
  PROVE  BoardInv'
<1>1. StartUpTypeOK /\ i2c \in I2cRegisters
  BY DEF BoardInv, StartUpTypeOK, I2cRegisters
<1>2. StartUpTypeOK'
  BY <1>1 DEF StartUpTypeOK, I2cRegisters
<1>3. Doing' = Doing
  BY DEF Doing
<1>4. ASSUME NEW c \in Contexts, task[c].op = "boot" PROVE Progress(task[c].at = "wait")'
  <2>1. CASE task[c].at = "wait"
    <3>1. Progress(TRUE) /\ boot.pos \in 1 .. 18
      BY <1>4, <2>1, AtWait
    <3>2. /\ boot.pos \in {3, 4, 5, 9, 10, 12} <=> Doing \in Bytes
          /\ boot.pos = 13 <=> Doing = "receive"
      BY <1>1, DoingAt
    <3>3. i2c.busy # "none" => Doing \in Bytes \cup {"receive"} /\ Doing = i2c.busy
      BY <1>1, <3>1 DEF Progress, I2cRegisters
    <3>4. boot.pos > 14 => i2c'.busy = "none" /\ ~ i2c'.ibb
      BY <3>1 DEF Progress, After
    <3>5. i2c'.busy # "none" => Doing = i2c'.busy
      BY <3>3
    <3>6. i2c'.iif => i2c'.busy = "none" /\ Doing \in Bytes \cup {"receive"}
      <4>1. i2c.iif => i2c.busy = "none" /\ Doing \in Bytes \cup {"receive"}
        BY <3>1 DEF Progress, After
      <4>2. CASE i2c.busy = "none"
        BY <4>1, <4>2
      <4>3. CASE i2c.busy # "none"
        <5>1. ~ i2c.iif
          BY <4>1, <4>3
        <5> QED
          BY <3>3, <4>3, <5>1
      <4> QED
        BY <4>2, <4>3
    <3>7. boot.pos > 13 \/ (boot.pos = 13 /\ i2c'.iif) => (i2c'.data = VAL => fusb'.reg = VAL)
      <4>1. CASE boot.pos > 13
        BY <3>1, <3>2, <3>3, <4>1 DEF Progress
      <4>2. CASE boot.pos = 13 /\ i2c'.iif /\ ~ i2c.iif
        <5>1. i2c.busy = "receive"
          BY <3>2, <3>3, <4>2
        <5> QED
          BY <4>2, <5>1
      <4>3. CASE boot.pos = 13 /\ i2c.iif
        BY <3>1, <4>3 DEF Progress
      <4> QED
        BY <4>1, <4>2, <4>3
    <3>8. After(14, TRUE) => ~ i2c'.msta
      BY <3>1 DEF Progress
    <3> QED
      BY <1>3, <2>1, <3>1, <3>4, <3>5, <3>6, <3>7, <3>8 DEF Progress, After
  <2>2. CASE task[c].at # "wait"
    <3>0. (task[c].at = "wait") = FALSE
      BY <2>2
    <3>1. Progress(FALSE)
      BY <1>4, <3>0 DEF BoardInv
    <3>2. i2c.busy = "none" /\ i2c'.busy = "none" /\ i2c'.iif = i2c.iif /\ i2c'.data = i2c.data
      BY <3>1 DEF Progress
    <3> QED
      BY <1>3, <2>2, <3>1, <3>2 DEF Progress, After
  <2> QED
    BY <2>1, <2>2
<1>5. MainMeansReady /\ (boot.end = "main" => ~ i2c.msta)
        => MainMeansReady' /\ (boot.end = "main" => ~ i2c'.msta)
  BY DEF MainMeansReady
<1> QED
  BY <1>2, <1>4, <1>5, DeviceKeeps

LEMMA I2cBusKeeps ==
  ASSUME BoardInv, I2cBus
  PROVE  BoardInv'
<1>1. UNCHANGED <<task, boot, lamps, tx>>
  BY DEF I2cBus, contextVars
<1>2. i2c \in I2cRegisters /\ fusb.reg \in {"reset", VAL}
  BY DEF BoardInv, StartUpTypeOK, I2cRegisters
<1>3. CASE BusStarts
  <2>1. i2c.msta /\ i2c' = [i2c EXCEPT !.ibb = TRUE] /\ fusb' = [fusb EXCEPT !.at = "started"]
    BY <1>3 DEF BusStarts
  <2>2. /\ i2c' \in I2cRegisters /\ i2c'.msta = i2c.msta /\ i2c'.busy = i2c.busy
        /\ i2c'.iif = i2c.iif /\ i2c'.data = i2c.data
    BY <1>2, <2>1 DEF I2cRegisters
  <2>3. fusb'.reg = fusb.reg
    BY <2>1
  <2> QED
    BY <1>1, <1>2, <2>1, <2>2, <2>3, BusKeeps
<1>4. CASE BusStops
  <2>1. i2c' = [i2c EXCEPT !.ibb = FALSE] /\ fusb' = [fusb EXCEPT !.at = "idle"]
    BY <1>4 DEF BusStops
  <2>2. /\ i2c' \in I2cRegisters /\ i2c'.msta = i2c.msta /\ i2c'.busy = i2c.busy
        /\ i2c'.iif = i2c.iif /\ i2c'.data = i2c.data /\ ~ i2c'.ibb
    BY <1>2, <2>1 DEF I2cRegisters
  <2>3. fusb'.reg = fusb.reg
    BY <2>1
  <2> QED
    BY <1>1, <1>2, <2>2, <2>3, BusKeeps
<1>5. CASE ByteSent
  <2>1. PICK ack \in {FALSE} \cup {i2c.busy \in Bytes /\ fusb.at = Takes[i2c.busy].from} :
          /\ i2c' = [i2c EXCEPT !.busy = "none", !.iif = TRUE, !.rxak = ~ ack]
          /\ fusb' = IF ack THEN [at |-> Takes[i2c.busy].to,
                                  reg |-> IF i2c.busy = "val" THEN VAL ELSE fusb.reg]
                     ELSE [fusb EXCEPT !.at = "idle"]
    BY <1>5 DEF ByteSent
  <2>2. i2c.busy \in Bytes
    BY <1>5 DEF ByteSent
  <2>3. (~ ack) \in BOOLEAN
    OBVIOUS
  <2> DEFINE nack == ~ ack
  <2> HIDE DEF nack
  <2>4. i2c' = [i2c EXCEPT !.busy = "none", !.iif = TRUE, !.rxak = nack] /\ nack \in BOOLEAN
    BY <2>1, <2>3 DEF nack
  <2>5. i2c' \in I2cRegisters
    BY <1>2, <2>4 DEF I2cRegisters
  <2>6. /\ i2c'.msta = i2c.msta /\ i2c'.busy = "none"
        /\ i2c'.data = i2c.data /\ i2c'.ibb = i2c.ibb
    BY <1>2, <2>4 DEF I2cRegisters
  <2>7. fusb'.reg \in {fusb.reg, VAL}
    BY <2>1
  <2>8. i2c.busy # "none" /\ i2c.busy # "receive"
    BY <2>2 DEF Bytes
  <2>9. fusb'.reg \in {"reset", VAL} /\ (fusb.reg = VAL => fusb'.reg = VAL)
    BY <1>2, <2>7
  <2> QED
    BY <1>1, <2>5, <2>6, <2>8, <2>9, BusKeeps
<1>6. CASE ByteReceived
  <2>1. i2c.busy = "receive" /\ fusb' = fusb
        /\ i2c' = [i2c EXCEPT !.busy = "none", !.iif = TRUE,
                              !.data = IF fusb.at = "reading" THEN fusb.reg ELSE "none"]
    BY <1>6 DEF ByteReceived
  <2> DEFINE byte == IF fusb.at = "reading" THEN fusb.reg ELSE "none"
  <2>2. byte \in {"none", "reset", VAL} /\ (byte = VAL => fusb.reg = VAL)
    BY <1>2 DEF VAL
  <2>3. i2c' = [i2c EXCEPT !.busy = "none", !.iif = TRUE, !.data = byte]
    BY <2>1
  <2> HIDE DEF byte
  <2>4. i2c' \in I2cRegisters
    BY <1>2, <2>2, <2>3 DEF I2cRegisters
  <2>5. i2c'.msta = i2c.msta /\ i2c'.busy = "none" /\ i2c'.data = byte /\ i2c'.ibb = i2c.ibb
    BY <1>2, <2>3 DEF I2cRegisters
  <2> QED
    BY <1>1, <1>2, <2>1, <2>2, <2>4, <2>5, BusKeeps
<1>7. CASE ArbitrationLost
  <2>1. i2c.busy # "none" /\ fusb' = fusb
        /\ i2c' = [i2c EXCEPT !.busy = "none", !.ial = TRUE, !.msta = FALSE]
    BY <1>7 DEF ArbitrationLost
  <2>2. i2c' \in I2cRegisters
    BY <1>2, <2>1 DEF I2cRegisters
  <2>3. /\ ~ i2c'.msta /\ i2c'.busy = "none" /\ i2c'.data = i2c.data /\ i2c'.ibb = i2c.ibb
        /\ i2c'.iif = i2c.iif
    BY <1>2, <2>1 DEF I2cRegisters
  <2> QED
    BY <1>1, <1>2, <2>1, <2>2, <2>3, BusKeeps
<1> QED
  BY <1>3, <1>4, <1>5, <1>6, <1>7 DEF I2cBus

LEMMA BoardKept ==
  ASSUME BoardInv, CallsOK, [Next]_vars
  PROVE  BoardInv'
<1>1. ASSUME NEW c \in Contexts, StartUpStep(c) \/ Boot(c) PROVE BoardInv'
  BY <1>1, IssueKeeps, WaitOverKeeps, WaitFailsKeeps, BootKeeps DEF StartUpStep
<1>2. CASE BoardNext
  BY <1>1, <1>2, UartSentKeeps, I2cBusKeeps DEF BoardNext
<1>3. CASE UNCHANGED startUpVars /\ Foreign({"boot"})
  BY <1>3, BoardForeign
<1> QED
  BY <1>2, <1>3, Frames

LEMMA BoardInvariant == Spec => []BoardInv
<1>1. BoardInv /\ CallsOK /\ [Next]_vars => BoardInv'
  BY BoardKept
<1> QED
  BY <1>1, BoardInitInv, CallsInvariant, PTL DEF Spec

(* main is reached only with the receptacle on, the bus quiet and the      *)
(* serial port ready, after any number of resets and failed attempts, bus  *)
(* errors and bytes that are not acknowledged included.                    *)
THEOREM MainIsReady == Spec => []MainMeansReady
<1>1. BoardInv => MainMeansReady
  BY DEF BoardInv, Progress, MainMeansReady
<1> QED
  BY <1>1, BoardInvariant, PTL

(***************************************************************************)
(* The clock, among the other drivers.                                     *)
(***************************************************************************)
OtherCalls == {NoCall} \cup HandleCalls \cup DcpCalls \cup RngCalls \cup BoardCalls

LEMMA OthersApart ==
  Apart(OtherCalls) /\ ClockCalls \cup OtherCalls = Calls /\ (CallsOK <=> TaskOK(OtherCalls))
<1>1. \A k \in OtherCalls : k.at \notin {"low", "new_high", "new_low"}
  BY DEF OtherCalls, NoCall, Call, HandleCalls, DcpCalls, RngCalls, BoardCalls
<1>2. \A k \in OtherCalls : k.op \notin Timing
  BY OpOfCall DEF OtherCalls, HandleOps, DcpOps, RngAll, Timing
<1>3. ClockCalls \cup OtherCalls = Calls
  BY DEF OtherCalls, Calls
<1> QED
  BY <1>1, <1>2, <1>3 DEF OtherCalls, Apart, CallsOK, TaskOK

LEMMA ClockForeign ==
  ASSUME ClockInv(OtherCalls), CallsOK', UNCHANGED clockVars, Foreign(Timing)
  PROVE  ClockInv(OtherCalls)'
<1>1. /\ rtc' = rtc /\ phase' = phase /\ reading' = reading /\ called' = called /\ waiting' = waiting
  BY DEF clockVars
<1>2. TaskOK(OtherCalls) /\ TaskOK(OtherCalls)'
  BY OthersApart DEF ClockInv, CallsOK, TaskOK
<1>3. ClockTypeOK'
  BY <1>1 DEF ClockInv, ClockTypeOK
<1>4. ASSUME NEW c \in Contexts PROVE Sound(c)' /\ Started(c)'
  <2>1. Sound(c) /\ Started(c) /\ (Between(c)' <=> Between(c))
    BY <1>1 DEF ClockInv, Between, Value
  <2>2. \/ task'[c] = task[c]
        \/ task'[c].op \notin Timing /\ task'[c].at \notin {"low", "new_high", "new_low"}
    <3>1. task'[c] \in ClockCalls \cup OtherCalls
      BY <1>2 DEF TaskOK
    <3>2. \A k \in ClockCalls : k.op \in Timing
      BY OpOfCall
    <3> QED
      BY <3>1, <3>2, OthersApart DEF Apart, Foreign
  <2> QED
    BY <1>1, <2>1, <2>2 DEF Sound, Started, Timing
<1> QED
  BY <1>2, <1>3, <1>4 DEF ClockInv

LEMMA ClockInDrivers == Spec => []ClockInv(OtherCalls)
<1>1. Init => ClockInv(OtherCalls)
  BY OthersApart, ClockInitInv DEF Init
<1>2. ASSUME ClockInv(OtherCalls), CallsOK, [Next]_vars PROVE ClockInv(OtherCalls)'
  BY <1>2, Frames, OthersApart, ClockStep, ClockForeign
<1>3. ClockInv(OtherCalls) /\ CallsOK /\ [Next]_vars => ClockInv(OtherCalls)'
  BY <1>2
<1> QED
  BY <1>1, <1>3, CallsInvariant, PTL DEF Spec

(* Instant::now and wait keep their promises in a program whose contexts   *)
(* also use the other drivers, whose calls preempt them.                   *)
THEOREM ClockAmongDrivers == Spec => [](NowIsTime /\ WaitsLongEnough)
<1>1. ClockInv(OtherCalls) => NowIsTime /\ WaitsLongEnough
  BY OthersApart, ClockSafe
<1> QED
  BY <1>1, ClockInDrivers, PTL

(***************************************************************************)
(* The crypto engine.  From the moment its flag is set, a driver has one   *)
(* claimant: the context in `new`, the owner, or the context in the        *)
(* destructor of Sha256.                                                   *)
(***************************************************************************)
InNew(c, d) == task[c].op = "new" /\ task[c].on = d

DcpClaims(c, d) ==
  c \in owner[d] \/ InNew(c, d) \/ (task[c].op = "drop" /\ d = "sha")

FreesFlag(c) == task[c].op = "drop" /\ task[c].at = "free"

ClaimInv ==
  /\ inUse \in [Drivers -> BOOLEAN]
  /\ owner \in [Drivers -> SUBSET Contexts]
  /\ \A d \in Drivers :
       /\ \A b, c \in Contexts : DcpClaims(b, d) /\ DcpClaims(c, d) => b = c
       /\ \A c \in Contexts : DcpClaims(c, d) => inUse[d]
  /\ \A c \in Contexts : FreesFlag(c) => owner["sha"] = {}

(* init is over, or under way, once INITIALIZED is set; and it is over     *)
(* when a driver is handed out.                                            *)
InNewAt(c, at) == task[c].op = "new" /\ task[c].at = at

Backed == context \/ weak \/ \E c \in Contexts : InNewAt(c, "install")

ReadyInv ==
  /\ {initialized, dcpTaken, context, weak} \subseteq BOOLEAN
  /\ initialized => context \/ \E c \in Contexts : InNewAt(c, "install")
  /\ \A c \in Contexts : InNewAt(c, "enable") => Backed
  /\ \A d \in Drivers : owner[d] # {} => Backed

(* A destructor that is preempted has not given up its flag, so that the   *)
(* channel it disables is not that of a successor.                         *)
ChannelInv ==
  /\ channels \subseteq 1 .. 3
  /\ \A d \in Drivers : owner[d] # {} => NewChannels[d] \subseteq channels

(* The command of a call that waits is the one in CH3CMDPTR, unless it was *)
(* replaced there; and as long as none was, the semaphore is that of a     *)
(* call which waits.                                                       *)
InXcryptAt(c, at) == task[c].op = "xcrypt" /\ task[c].at = at

CommandInv ==
  /\ lost \in BOOLEAN /\ done \subseteq Contexts /\ overwritten \subseteq Contexts
  /\ ch3 \in [ptr : SUBSET Contexts, sema : BOOLEAN]
  /\ \A c \in Contexts \ overwritten : Awaiting(c) =>
       ch3.ptr = {c} /\ (task[c].at = "status" => ch3.sema)
  /\ lost => overwritten # {}
  /\ \A c \in overwritten : Awaiting(c) /\ c \notin ch3.ptr
  /\ overwritten = {} =>
       /\ ch3.sema => \E c \in Contexts : InXcryptAt(c, "status") /\ c \notin done
       /\ \A c \in Contexts : InXcryptAt(c, "sema") => c \notin done

DcpInv == ClaimInv /\ ReadyInv /\ ChannelInv /\ CommandInv

LEMMA DcpInitInv == Init => DcpInv
<1> SUFFICES ASSUME Init PROVE DcpInv
  OBVIOUS
<1>1. \A c \in Contexts : task[c].op = "none" /\ task[c].at = "none"
  BY NothingInProgress, Zenon
<1>2. DcpInit
  BY DEF Init
<1>3. /\ inUse = [d \in Drivers |-> FALSE] /\ owner = [d \in Drivers |-> {}]
      /\ initialized = FALSE /\ context = FALSE /\ channels = {} /\ done = {}
      /\ lost = FALSE /\ overwritten = {} /\ weak = FALSE /\ ch3 = [ptr |-> {}, sema |-> FALSE]
      /\ dcpTaken \in BOOLEAN
  BY <1>2 DEF DcpInit
<1>4. ClaimInv
  BY <1>1, <1>3 DEF ClaimInv, DcpClaims, InNew, FreesFlag
<1>5. ReadyInv
  <2>1. {initialized, dcpTaken, context, weak} \subseteq BOOLEAN
    BY <1>3, Zenon
  <2> QED
    BY <1>1, <1>3, <2>1 DEF ReadyInv, InNewAt
<1>6. ChannelInv
  BY <1>3 DEF ChannelInv
<1>7. CommandInv
  BY <1>1, <1>3 DEF CommandInv, Submitting, Awaiting, InXcryptAt
<1> QED
  BY <1>4, <1>5, <1>6, <1>7 DEF DcpInv

(* What a step that leaves the calls of the engine's drivers alone, or     *)
(* changes only their stage, keeps.                                        *)
LEMMA ClaimQuiet ==
  ASSUME ClaimInv, UNCHANGED <<inUse, owner>>,
         \A c \in Contexts :
           /\ task'[c].op = "new" => task[c].op = "new" /\ task'[c].on = task[c].on
           /\ task'[c].op = "drop" => task[c].op = "drop" /\ task'[c].at = task[c].at
  PROVE  ClaimInv'
BY DEF ClaimInv, DcpClaims, InNew, FreesFlag

LEMMA ReadyQuiet ==
  ASSUME ReadyInv, UNCHANGED <<initialized, dcpTaken, context, owner, weak>>,
         \A c \in Contexts : InNewAt(c, "install") => InNewAt(c, "install")',
         \A c \in Contexts : InNewAt(c, "enable")' => InNewAt(c, "enable")
  PROVE  ReadyInv'
BY DEF ReadyInv, Backed

LEMMA ChannelQuiet ==
  ASSUME ChannelInv, UNCHANGED <<channels, owner>>
  PROVE  ChannelInv'
BY DEF ChannelInv

LEMMA CommandQuiet ==
  ASSUME CommandInv, UNCHANGED <<lost, done, ch3, overwritten>>,
         \A c \in Contexts :
            task'[c].op = "xcrypt" \/ task[c].op = "xcrypt" =>
              task'[c].op = task[c].op /\ task'[c].at = task[c].at
  PROVE  CommandInv'
BY DEF CommandInv, Submitting, Awaiting, InXcryptAt

LEMMA DcpForeign ==
  ASSUME DcpInv, UNCHANGED dcpVars, Foreign(DcpOps)
  PROVE  DcpInv'
<1>1. /\ UNCHANGED <<initialized, dcpTaken, context, inUse, owner, channels>>
      /\ UNCHANGED <<ch3, done, lost, overwritten, weak>>
  BY DEF dcpVars
<1>2. \A c \in Contexts :
        task[c].op \in {"new", "drop", "xcrypt"} \/ task'[c].op \in {"new", "drop", "xcrypt"}
          => task'[c] = task[c]
  BY DEF Foreign, DcpOps
<1>4. \A c \in Contexts, at \in {"install", "enable"} : InNewAt(c, at)' <=> InNewAt(c, at)
  BY <1>2 DEF InNewAt
<1>5. ClaimInv'
  BY <1>1, <1>2, ClaimQuiet DEF DcpInv
<1>6. ReadyInv'
  BY <1>1, <1>4, ReadyQuiet DEF DcpInv
<1>7. ChannelInv'
  BY <1>1, ChannelQuiet DEF DcpInv
<1>8. CommandInv'
  BY <1>1, <1>2, CommandQuiet DEF DcpInv
<1> QED
  BY <1>5, <1>6, <1>7, <1>8 DEF DcpInv

(* The steps, one lemma per action or group of actions alike.              *)
LEMMA NewFlagKeeps ==
  ASSUME DcpInv, CallsOK, NEW c \in Contexts, NEW d \in Drivers, NewFlag(c, d)
  PROVE  DcpInv'
<1>1. Begin(c, "new", "init", d)
  BY DEF NewFlag
<1>2. /\ task'[c].op = "new" /\ task'[c].at = "init" /\ task'[c].on = d
      /\ task[c].op = "none" /\ task[c].at = "none"
      /\ \A b \in Contexts : b # c => task'[b] = task[b]
  BY <1>1, BeginFacts
<1>3. /\ ~ inUse[d] /\ inUse' = [inUse EXCEPT ![d] = TRUE]
      /\ UNCHANGED <<initialized, dcpTaken, context, owner, channels>>
      /\ UNCHANGED <<ch3, done, lost, overwritten, weak>>
  BY DEF NewFlag
<1>5. ClaimInv'
  <2>1. \A b \in Contexts : ~ DcpClaims(b, d)
    BY <1>3 DEF DcpInv, ClaimInv
  <2>2. \A b \in Contexts, e \in Drivers :
          DcpClaims(b, e)' => DcpClaims(b, e) \/ (b = c /\ e = d)
    BY <1>2, <1>3 DEF DcpClaims, InNew
  <2>3. \A b \in Contexts : FreesFlag(b)' => FreesFlag(b)
    BY <1>2 DEF FreesFlag
  <2> QED
    BY <1>3, <2>1, <2>2, <2>3 DEF DcpInv, ClaimInv
<1>6. ReadyInv'
  <2>1. \A b \in Contexts, at \in {"install", "enable"} : InNewAt(b, at)' <=> InNewAt(b, at)
    BY <1>2 DEF InNewAt
  <2> QED
    BY <1>3, <2>1, ReadyQuiet DEF DcpInv
<1>7. ChannelInv'
  BY <1>3, ChannelQuiet DEF DcpInv
<1>8. CommandInv'
  BY <1>2, <1>3, CommandQuiet DEF DcpInv
<1> QED
  BY <1>5, <1>6, <1>7, <1>8 DEF DcpInv

(* A call goes from one stage of `new` to another. *)
LEMMA InNewFacts ==
  ASSUME CallsOK, NEW c \in Contexts, NEW at, At(c, "new", at)
  PROVE  task[c].op = "new" /\ task[c].at = at /\ task[c].on \in Drivers
<1>1. task[c] \in DcpCalls
  BY GroupOfCall DEF At, DcpOps
<1> QED
  BY <1>1 DEF At, DcpCalls

LEMMA InitFlagKeeps ==
  ASSUME DcpInv, CallsOK, NEW c \in Contexts, InitFlag(c)
  PROVE  DcpInv'
<1>1. Goto(c, "install") /\ At(c, "new", "init")
  BY DEF InitFlag
<1>2. /\ task[c].op = "new" /\ task[c].at = "init"
      /\ task'[c].op = "new" /\ task'[c].at = "install" /\ task'[c].on = task[c].on
      /\ \A b \in Contexts : b # c => task'[b] = task[b]
  BY <1>1, InNewFacts, GotoFacts
<1>3. /\ initialized' = TRUE
      /\ UNCHANGED <<dcpTaken, context, inUse, owner, channels>>
      /\ UNCHANGED <<ch3, done, lost, overwritten, weak>>
  BY DEF InitFlag
<1>5. ClaimInv'
  BY <1>2, <1>3, ClaimQuiet DEF DcpInv
<1>6. ReadyInv'
  <2>1. InNewAt(c, "install")'
    BY <1>2 DEF InNewAt
  <2>2. \A b \in Contexts : InNewAt(b, "enable")' => InNewAt(b, "enable")
    BY <1>2 DEF InNewAt
  <2>3. {initialized', dcpTaken', context', weak'} \subseteq BOOLEAN
    BY <1>3 DEF DcpInv, ReadyInv
  <2> QED
    BY <1>3, <2>1, <2>3 DEF DcpInv, ReadyInv, Backed
<1>7. ChannelInv'
  BY <1>3, ChannelQuiet DEF DcpInv
<1>8. CommandInv'
  BY <1>2, <1>3, CommandQuiet DEF DcpInv
<1> QED
  BY <1>5, <1>6, <1>7, <1>8 DEF DcpInv

LEMMA InitSkipKeeps ==
  ASSUME DcpInv, CallsOK, NEW c \in Contexts, InitSkip(c)
  PROVE  DcpInv'
<1>1. Goto(c, "enable") /\ At(c, "new", "init")
  BY DEF InitSkip
<1>2. /\ task[c].op = "new" /\ task[c].at = "init"
      /\ task'[c].op = "new" /\ task'[c].at = "enable" /\ task'[c].on = task[c].on
      /\ \A b \in Contexts : b # c => task'[b] = task[b]
  BY <1>1, InNewFacts, GotoFacts
<1>3. /\ UNCHANGED <<initialized, dcpTaken, context, inUse, owner, channels>>
      /\ UNCHANGED <<ch3, done, lost, overwritten>>
      /\ weak' = (weak \/ ~ initialized)
  BY DEF InitSkip
<1>4. weak' \in BOOLEAN /\ (weak => weak')
  BY <1>3, Zenon
<1>5. ClaimInv'
  BY <1>2, <1>3, ClaimQuiet DEF DcpInv
<1>6. ReadyInv'
  <2>1. \A b \in Contexts : InNewAt(b, "install") => InNewAt(b, "install")'
    BY <1>2 DEF InNewAt
  <2>2. \A b \in Contexts : b # c /\ InNewAt(b, "enable")' => InNewAt(b, "enable")
    BY <1>2 DEF InNewAt
  <2>3. Backed'
    BY <1>3, <2>1 DEF DcpInv, ReadyInv, Backed
  <2>4. {initialized', dcpTaken', context', weak'} \subseteq BOOLEAN
    BY <1>3, <1>4 DEF DcpInv, ReadyInv
  <2> QED
    BY <1>3, <2>1, <2>3, <2>4 DEF DcpInv, ReadyInv
<1>7. ChannelInv'
  BY <1>3, ChannelQuiet DEF DcpInv
<1>8. CommandInv'
  BY <1>2, <1>3, CommandQuiet DEF DcpInv
<1> QED
  BY <1>5, <1>6, <1>7, <1>8 DEF DcpInv

(* A call panics: only `alive` changes. *)
LEMMA AbortKeeps ==
  ASSUME DcpInv, UNCHANGED dcpVars, task' = task
  PROVE  DcpInv'
BY DcpForeign DEF Foreign

LEMMA InitInstallKeeps ==
  ASSUME DcpInv, CallsOK, NEW c \in Contexts, InitInstall(c)
  PROVE  DcpInv'
<1>1. CASE Abort /\ UNCHANGED context
  <2>1. /\ UNCHANGED <<initialized, dcpTaken, context, inUse, owner, channels>>
        /\ UNCHANGED <<ch3, done, lost, overwritten, weak, sha>>
        /\ task' = task
    BY <1>1 DEF InitInstall, Abort
  <2> QED
    BY <2>1, AbortKeeps DEF dcpVars
<1>2. CASE context' = TRUE /\ Goto(c, "enable")
  <2>1. At(c, "new", "install")
    BY DEF InitInstall
  <2>2. /\ task[c].op = "new"
        /\ task'[c].op = "new" /\ task'[c].at = "enable" /\ task'[c].on = task[c].on
        /\ \A b \in Contexts : b # c => task'[b] = task[b]
    BY <1>2, <2>1, InNewFacts, GotoFacts
  <2>3. /\ UNCHANGED <<initialized, dcpTaken, inUse, owner, channels>>
        /\ UNCHANGED <<ch3, done, lost, overwritten, weak>>
    BY DEF InitInstall
  <2>5. ClaimInv'
    BY <2>2, <2>3, ClaimQuiet DEF DcpInv
  <2>6. ReadyInv'
    <3>1. {initialized', dcpTaken', context', weak'} \subseteq BOOLEAN
      BY <1>2, <2>3 DEF DcpInv, ReadyInv
    <3> QED
      BY <1>2, <3>1 DEF ReadyInv, Backed
  <2>7. ChannelInv'
    BY <2>3, ChannelQuiet DEF DcpInv
  <2>8. CommandInv'
    BY <2>2, <2>3, CommandQuiet DEF DcpInv
  <2> QED
    BY <2>5, <2>6, <2>7, <2>8 DEF DcpInv
<1> QED
  BY <1>1, <1>2 DEF InitInstall

LEMMA NewEnableKeeps ==
  ASSUME DcpInv, CallsOK, NEW c \in Contexts, NewEnable(c)
  PROVE  DcpInv'
<1>0. PICK d \in Drivers : d = task[c].on
  BY InNewFacts DEF NewEnable
<1>1. Return(c) /\ At(c, "new", "enable")
  BY DEF NewEnable
<1>2. /\ task[c].op = "new" /\ task[c].at = "enable"
      /\ task'[c].op = "none" /\ task'[c].at = "none"
      /\ \A b \in Contexts : b # c => task'[b] = task[b]
  BY <1>1, InNewFacts, ReturnFacts
<1>3. /\ channels' = channels \cup NewChannels[d] /\ owner' = [owner EXCEPT ![d] = @ \cup {c}]
      /\ UNCHANGED <<initialized, dcpTaken, context, inUse>>
      /\ UNCHANGED <<ch3, done, lost, overwritten, weak>>
  BY <1>0 DEF NewEnable
<1>5. InNew(c, d) /\ DcpClaims(c, d) /\ InNewAt(c, "enable")
  BY <1>0, <1>2 DEF InNew, DcpClaims, InNewAt
<1>6. ClaimInv'
  <2>1. owner' \in [Drivers -> SUBSET Contexts]
    BY <1>3 DEF DcpInv, ClaimInv
  <2>2. \A b \in Contexts, e \in Drivers : DcpClaims(b, e)' => DcpClaims(b, e)
    BY <1>2, <1>3, <1>5 DEF DcpClaims, InNew, DcpInv, ClaimInv
  <2>3. \A b \in Contexts : FreesFlag(b)' => FreesFlag(b) /\ DcpClaims(b, "sha") /\ b # c
    BY <1>2 DEF FreesFlag, DcpClaims
  <2>4. \A b \in Contexts : FreesFlag(b)' => owner'["sha"] = {}
    BY <1>3, <1>5, <2>3 DEF DcpInv, ClaimInv
  <2> QED
    BY <1>3, <2>1, <2>2, <2>4 DEF DcpInv, ClaimInv
<1>7. ReadyInv'
  <2>1. Backed
    BY <1>5 DEF DcpInv, ReadyInv
  <2>2. \A b \in Contexts :
          /\ InNewAt(b, "enable")' => InNewAt(b, "enable")
          /\ InNewAt(b, "install") => InNewAt(b, "install")'
    BY <1>2 DEF InNewAt
  <2>3. {initialized', dcpTaken', context', weak'} \subseteq BOOLEAN
    BY <1>3 DEF DcpInv, ReadyInv
  <2> QED
    BY <1>3, <2>1, <2>2, <2>3 DEF DcpInv, ReadyInv, Backed
<1>8. ChannelInv'
  <2>1. NewChannels[d] \subseteq 1 .. 3
    BY DEF NewChannels, Drivers, Aes
  <2> QED
    BY <1>3, <2>1 DEF DcpInv, ChannelInv, ClaimInv
<1>9. CommandInv'
  BY <1>2, <1>3, CommandQuiet DEF DcpInv
<1> QED
  BY <1>6, <1>7, <1>8, <1>9 DEF DcpInv

(* The owner of an AES driver drops it. *)
LEMMA AesDropKeeps ==
  ASSUME DcpInv, CallsOK, NEW c \in Contexts, NEW d \in Drivers, AesDrop(c, d)
  PROVE  DcpInv'
<1>1. /\ d \in Aes /\ c \in owner[d] /\ CallOnce(c)
      /\ owner' = [owner EXCEPT ![d] = @ \ {c}] /\ inUse' = [inUse EXCEPT ![d] = FALSE]
      /\ UNCHANGED <<initialized, dcpTaken, context, channels>>
      /\ UNCHANGED <<ch3, done, lost, overwritten, weak>>
  BY DEF AesDrop, Disown
<1>2. task' = task /\ task[c].op = "none"
  BY <1>1, OnceFacts
<1>3. d # "sha"
  BY <1>1 DEF Aes
<1>4. ClaimInv'
  <2>1. owner' \in [Drivers -> SUBSET Contexts] /\ inUse' \in [Drivers -> BOOLEAN]
    BY <1>1 DEF DcpInv, ClaimInv
  <2>2. DcpClaims(c, d)
    BY <1>1 DEF DcpClaims
  <2>3. \A b \in Contexts, e \in Drivers : DcpClaims(b, e)' => DcpClaims(b, e) /\ e # d
    <3>1. \A b \in Contexts, e \in Drivers : DcpClaims(b, e)' => DcpClaims(b, e)
      BY <1>1, <1>2 DEF DcpClaims, InNew, DcpInv, ClaimInv
    <3>2. ~ DcpClaims(c, d)'
      BY <1>1, <1>2, <1>3 DEF DcpClaims, InNew, DcpInv, ClaimInv
    <3> QED
      BY <2>2, <3>1, <3>2 DEF DcpInv, ClaimInv
  <2>4. \A b \in Contexts : FreesFlag(b)' => owner'["sha"] = {}
    BY <1>1, <1>2, <1>3 DEF FreesFlag, DcpInv, ClaimInv, Drivers
  <2> QED
    BY <1>1, <2>1, <2>3, <2>4 DEF DcpInv, ClaimInv
<1>5. \A e \in Drivers : owner'[e] # {} => owner[e] # {}
  BY <1>1 DEF DcpInv, ClaimInv
<1>6. ReadyInv'
  BY <1>1, <1>2, <1>5 DEF DcpInv, ReadyInv, Backed, InNewAt
<1>7. ChannelInv'
  BY <1>1, <1>5 DEF DcpInv, ChannelInv
<1>8. CommandInv'
  BY <1>1, <1>2 DEF DcpInv, CommandInv, Awaiting, InXcryptAt
<1> QED
  BY <1>4, <1>6, <1>7, <1>8 DEF DcpInv

(* The destructor of Sha256. *)
LEMMA ShaEndKeeps ==
  ASSUME DcpInv, CallsOK, NEW c \in Contexts, ShaEnd(c)
  PROVE  DcpInv'
<1>1. CASE Abort
  BY <1>1, AbortKeeps DEF ShaEnd, Abort
<1>2. CASE Begin(c, "drop", "disable", "sha")
  <2>1. /\ task'[c].op = "drop" /\ task'[c].at = "disable"
        /\ task[c].op = "none" /\ task[c].at = "none"
        /\ \A b \in Contexts : b # c => task'[b] = task[b]
    BY <1>2, BeginFacts
  <2>2. /\ c \in owner["sha"]
        /\ UNCHANGED <<initialized, dcpTaken, context, inUse, owner, channels>>
        /\ UNCHANGED <<ch3, done, lost, overwritten, weak>>
    BY DEF ShaEnd, dcpVars
  <2>4. ClaimInv'
    <3>1. \A b \in Contexts, e \in Drivers : DcpClaims(b, e)' => DcpClaims(b, e)
      BY <2>1, <2>2 DEF DcpClaims, InNew
    <3>2. \A b \in Contexts : FreesFlag(b)' => FreesFlag(b)
      BY <2>1 DEF FreesFlag
    <3> QED
      BY <2>2, <3>1, <3>2 DEF DcpInv, ClaimInv
  <2>5. ReadyInv'
    <3>1. \A b \in Contexts, at \in {"install", "enable"} : InNewAt(b, at)' <=> InNewAt(b, at)
      BY <2>1 DEF InNewAt
    <3> QED
      BY <2>2, <3>1, ReadyQuiet DEF DcpInv
  <2>6. ChannelInv'
    BY <2>2, ChannelQuiet DEF DcpInv
  <2>7. CommandInv'
    BY <2>1, <2>2, CommandQuiet DEF DcpInv
  <2> QED
    BY <2>4, <2>5, <2>6, <2>7 DEF DcpInv
<1> QED
  BY <1>1, <1>2 DEF ShaEnd

LEMMA ShaDisableKeeps ==
  ASSUME DcpInv, CallsOK, NEW c \in Contexts, ShaDisable(c)
  PROVE  DcpInv'
<1>1. /\ Goto(c, "free") /\ task[c].op = "drop" /\ task[c].at = "disable"
      /\ owner' = [owner EXCEPT !["sha"] = @ \ {c}] /\ channels' = channels \ {2}
      /\ UNCHANGED <<initialized, dcpTaken, context, inUse>>
      /\ UNCHANGED <<ch3, done, lost, overwritten, weak>>
  BY DEF ShaDisable, At, Disown
<1>2. /\ task'[c].op = "drop" /\ task'[c].at = "free"
      /\ \A b \in Contexts : b # c => task'[b] = task[b]
  BY <1>1, GotoFacts
<1>3. "sha" \in Drivers
  BY DEF Drivers
<1>4. owner' \in [Drivers -> SUBSET Contexts] /\ owner'["sha"] = {}
  <2>1. \A b \in owner["sha"] : b \in Contexts /\ DcpClaims(b, "sha") /\ DcpClaims(c, "sha")
    BY <1>1, <1>3 DEF DcpClaims, DcpInv, ClaimInv
  <2>2. owner["sha"] \subseteq {c}
    BY <1>3, <2>1 DEF DcpInv, ClaimInv
  <2> QED
    BY <1>1, <1>3, <2>2 DEF DcpInv, ClaimInv
<1>5. \A e \in Drivers : e # "sha" => owner'[e] = owner[e]
  BY <1>1 DEF DcpInv, ClaimInv
<1>6. ClaimInv'
  <2>1. \A b \in Contexts, e \in Drivers : DcpClaims(b, e)' => DcpClaims(b, e)
    BY <1>1, <1>2, <1>4, <1>5 DEF DcpClaims, InNew
  <2> QED
    BY <1>1, <1>4, <2>1 DEF DcpInv, ClaimInv
<1>7. ReadyInv'
  <2>1. \A b \in Contexts, at \in {"install", "enable"} : InNewAt(b, at)' <=> InNewAt(b, at)
    BY <1>1, <1>2 DEF InNewAt
  <2> QED
    BY <1>1, <1>4, <1>5, <2>1 DEF DcpInv, ReadyInv, Backed
<1>8. ChannelInv'
  <2>1. \A e \in Drivers : e # "sha" => 2 \notin NewChannels[e]
    BY DEF Drivers, Aes, NewChannels
  <2> QED
    BY <1>1, <1>4, <1>5, <2>1 DEF DcpInv, ChannelInv
<1>9. CommandInv'
  BY <1>1, <1>2, <1>3, CommandQuiet DEF DcpInv
<1> QED
  BY <1>6, <1>7, <1>8, <1>9 DEF DcpInv

LEMMA ShaFreeKeeps ==
  ASSUME DcpInv, CallsOK, NEW c \in Contexts, ShaFree(c)
  PROVE  DcpInv'
<1>1. /\ Return(c) /\ task[c].op = "drop" /\ task[c].at = "free"
      /\ inUse' = [inUse EXCEPT !["sha"] = FALSE]
      /\ UNCHANGED <<initialized, dcpTaken, context, owner, channels>>
      /\ UNCHANGED <<ch3, done, lost, overwritten, weak>>
  BY DEF ShaFree, At
<1>2. /\ task'[c].op = "none" /\ task'[c].at = "none"
      /\ \A b \in Contexts : b # c => task'[b] = task[b]
  BY <1>1, ReturnFacts
<1>3. "sha" \in Drivers
  BY DEF Drivers
<1>4. ClaimInv'
  <2>1. \A b \in Contexts, e \in Drivers : DcpClaims(b, e)' => DcpClaims(b, e)
    BY <1>1, <1>2 DEF DcpClaims, InNew
  <2>2. DcpClaims(c, "sha") /\ ~ DcpClaims(c, "sha")'
    BY <1>1, <1>2 DEF DcpClaims, InNew, FreesFlag, DcpInv, ClaimInv
  <2>3. \A b \in Contexts : ~ DcpClaims(b, "sha")'
    BY <1>3, <2>1, <2>2 DEF DcpInv, ClaimInv
  <2>4. \A b \in Contexts : FreesFlag(b)' => FreesFlag(b)
    BY <1>2 DEF FreesFlag
  <2>5. inUse' \in [Drivers -> BOOLEAN] /\ \A e \in Drivers : e # "sha" => inUse'[e] = inUse[e]
    BY <1>1 DEF DcpInv, ClaimInv
  <2> QED
    BY <1>1, <2>1, <2>3, <2>4, <2>5 DEF DcpInv, ClaimInv
<1>5. ReadyInv'
  <2>1. \A b \in Contexts, at \in {"install", "enable"} : InNewAt(b, at)' <=> InNewAt(b, at)
    BY <1>1, <1>2 DEF InNewAt
  <2> QED
    BY <1>1, <1>3, <2>1, ReadyQuiet DEF DcpInv
<1>6. ChannelInv'
  BY <1>1, ChannelQuiet DEF DcpInv
<1>7. CommandInv'
  BY <1>1, <1>2, <1>3, CommandQuiet DEF DcpInv
<1> QED
  BY <1>4, <1>5, <1>6, <1>7 DEF DcpInv

(* A call of xcrypt. *)
LEMMA XcryptPtrKeeps ==
  ASSUME DcpInv, CallsOK, NEW c \in Contexts, NEW d \in Drivers, XcryptPtr(c, d)
  PROVE  DcpInv'
<1>1. /\ Begin(c, "xcrypt", "sema", d)
      /\ ch3' = [ch3 EXCEPT !.ptr = {c}] /\ done' = done \ {c}
      /\ overwritten' = overwritten \cup {o \in Contexts \ {c} : Awaiting(o)}
      /\ UNCHANGED <<initialized, dcpTaken, context, inUse, owner, channels, lost, weak>>
  BY DEF XcryptPtr
<1>2. /\ task'[c].op = "xcrypt" /\ task'[c].at = "sema"
      /\ task[c].op = "none" /\ task[c].at = "none"
      /\ \A b \in Contexts : b # c => task'[b] = task[b]
  BY <1>1, BeginFacts
<1>3. ClaimInv'
  BY <1>1, <1>2, ClaimQuiet DEF DcpInv
<1>4. ReadyInv'
  <2>1. \A b \in Contexts, at \in {"install", "enable"} : InNewAt(b, at)' <=> InNewAt(b, at)
    BY <1>2 DEF InNewAt
  <2> QED
    BY <1>1, <2>1, ReadyQuiet DEF DcpInv
<1>5. ChannelInv'
  BY <1>1, ChannelQuiet DEF DcpInv
<1>6. CommandInv'
  <2>1. /\ ch3' \in [ptr : SUBSET Contexts, sema : BOOLEAN]
        /\ ch3'.ptr = {c} /\ ch3'.sema = ch3.sema
    BY <1>1 DEF DcpInv, CommandInv
  <2>2. ~ Awaiting(c) /\ c \notin done' /\ Awaiting(c)'
    BY <1>1, <1>2 DEF Awaiting, Submitting
  <2>3. \A b \in Contexts \ {c} : Awaiting(b)' <=> Awaiting(b)
    BY <1>1, <1>2 DEF Awaiting, Submitting
  <2>4. /\ overwritten' \subseteq Contexts \ {c} /\ done' \subseteq Contexts
        /\ \A b \in Contexts \ {c} : b \in overwritten' <=> Awaiting(b)
    BY <1>1, <2>2 DEF DcpInv, CommandInv
  <2>5. ASSUME overwritten' = {}
        PROVE  /\ ~ ch3.sema
               /\ \A b \in Contexts : InXcryptAt(b, "sema")' => b \notin done'
    <3>1. \A b \in Contexts : ~ Awaiting(b)
      BY <2>2, <2>4, <2>5
    <3>2. overwritten = {}
      BY <1>1, <2>5
    <3>3. ~ ch3.sema
      BY <3>1, <3>2 DEF DcpInv, CommandInv, InXcryptAt, Awaiting, Submitting
    <3>4. \A b \in Contexts \ {c} : ~ InXcryptAt(b, "sema")
      BY <3>1, <3>2 DEF DcpInv, CommandInv, InXcryptAt, Awaiting, Submitting
    <3> QED
      BY <1>2, <2>2, <3>3, <3>4 DEF InXcryptAt
  <2>6. \A b \in Contexts \ overwritten' : Awaiting(b)' =>
          ch3'.ptr = {b} /\ (task'[b].at = "status" => ch3'.sema)
    BY <1>2, <2>1, <2>3, <2>4
  <2>7. lost' \in BOOLEAN /\ (lost' => overwritten' # {})
    BY <1>1 DEF DcpInv, CommandInv
  <2>8. \A b \in overwritten' : Awaiting(b)' /\ b \notin ch3'.ptr
    BY <2>1, <2>3, <2>4
  <2> QED
    BY <2>1, <2>4, <2>5, <2>6, <2>7, <2>8 DEF CommandInv
<1> QED
  BY <1>3, <1>4, <1>5, <1>6 DEF DcpInv

(* A step of xcrypt concerns the command only. *)
LEMMA XcryptQuiet ==
  ASSUME DcpInv, NEW c \in Contexts, task[c].op = "xcrypt", task'[c].op \in {"xcrypt", "none"},
         \A b \in Contexts : b # c => task'[b] = task[b],
         UNCHANGED <<initialized, dcpTaken, context, inUse, owner, channels, weak>>
  PROVE  ClaimInv' /\ ReadyInv' /\ ChannelInv'
<1>1. \A b \in Contexts, at \in {"install", "enable"} : InNewAt(b, at)' <=> InNewAt(b, at)
  BY DEF InNewAt
<1>2. ClaimInv'
  BY ClaimQuiet DEF DcpInv
<1>3. ReadyInv'
  BY <1>1, ReadyQuiet DEF DcpInv
<1>4. ChannelInv'
  BY ChannelQuiet DEF DcpInv
<1> QED
  BY <1>2, <1>3, <1>4

LEMMA XcryptSemaKeeps ==
  ASSUME DcpInv, CallsOK, NEW c \in Contexts, XcryptSema(c)
  PROVE  DcpInv'
<1>1. /\ Goto(c, "status") /\ task[c].op = "xcrypt" /\ task[c].at = "sema"
      /\ ch3' = [ch3 EXCEPT !.sema = TRUE]
      /\ UNCHANGED <<initialized, dcpTaken, context, inUse, owner, channels, weak>>
      /\ done' = done /\ lost' = lost /\ overwritten' = overwritten
  BY DEF XcryptSema, At
<1>2. /\ task'[c].op = "xcrypt" /\ task'[c].at = "status"
      /\ \A b \in Contexts : b # c => task'[b] = task[b]
  BY <1>1, GotoFacts
<1>3. CommandInv'
  <2>1. /\ ch3' \in [ptr : SUBSET Contexts, sema : BOOLEAN]
        /\ ch3'.ptr = ch3.ptr /\ ch3'.sema = TRUE
    BY <1>1 DEF DcpInv, CommandInv
  <2>2. \A b \in Contexts : Awaiting(b)' <=> Awaiting(b)
    BY <1>1, <1>2 DEF Awaiting, Submitting
  <2>3. \A b \in Contexts : InXcryptAt(b, "sema")' => InXcryptAt(b, "sema")
    BY <1>2 DEF InXcryptAt
  <2>4. overwritten = {} => InXcryptAt(c, "status")' /\ c \notin done
    BY <1>1, <1>2 DEF DcpInv, CommandInv, InXcryptAt
  <2>5. \A b \in Contexts \ overwritten' : Awaiting(b)' =>
          ch3'.ptr = {b} /\ (task'[b].at = "status" => ch3'.sema)
    BY <1>1, <2>1, <2>2 DEF DcpInv, CommandInv
  <2>6. \A b \in overwritten' : Awaiting(b)' /\ b \notin ch3'.ptr
    BY <1>1, <2>1, <2>2 DEF DcpInv, CommandInv
  <2> QED
    BY <1>1, <2>1, <2>3, <2>4, <2>5, <2>6 DEF DcpInv, CommandInv
<1> QED
  BY <1>1, <1>2, <1>3, XcryptQuiet DEF DcpInv

LEMMA XcryptDoneKeeps ==
  ASSUME DcpInv, CallsOK, NEW c \in Contexts, XcryptDone(c)
  PROVE  DcpInv'
<1>1. /\ Return(c) /\ task[c].op = "xcrypt" /\ c \in done
      /\ UNCHANGED <<initialized, dcpTaken, context, inUse, owner, channels, weak>>
      /\ UNCHANGED <<ch3, done, lost, overwritten>>
  BY DEF XcryptDone, At, dcpVars
<1>2. /\ task'[c].op = "none" /\ task'[c].at = "none"
      /\ \A b \in Contexts : b # c => task'[b] = task[b]
  BY <1>1, ReturnFacts
<1>3. CommandInv'
  <2>1. \A b \in Contexts : Awaiting(b)' <=> Awaiting(b)
    BY <1>1, <1>2 DEF Awaiting, Submitting
  <2>2. \A b \in Contexts : InXcryptAt(b, "sema")' => InXcryptAt(b, "sema")
    BY <1>2 DEF InXcryptAt
  <2>3. \A b \in Contexts : InXcryptAt(b, "status") /\ b \notin done => InXcryptAt(b, "status")'
    BY <1>1, <1>2 DEF InXcryptAt
  <2>4. \A b \in Contexts : Awaiting(b) => task'[b] = task[b]
    BY <1>1, <1>2 DEF Awaiting
  <2>5. \A b \in Contexts \ overwritten' : Awaiting(b)' =>
          ch3'.ptr = {b} /\ (task'[b].at = "status" => ch3'.sema)
    BY <1>1, <2>1, <2>4 DEF DcpInv, CommandInv
  <2>6. \A b \in overwritten' : Awaiting(b)' /\ b \notin ch3'.ptr
    BY <1>1, <2>1 DEF DcpInv, CommandInv
  <2> QED
    BY <1>1, <2>2, <2>3, <2>5, <2>6 DEF DcpInv, CommandInv
<1> QED
  BY <1>1, <1>2, <1>3, XcryptQuiet DEF DcpInv

(* The engine sets the status of the command it was given. *)
LEMMA EngineKeeps ==
  ASSUME DcpInv, Engine
  PROVE  DcpInv'
<1> DEFINE waits == {c \in ch3.ptr : Submitting(task[c])}
<1>1. /\ ch3.sema /\ ch3' = [ch3 EXCEPT !.sema = FALSE]
      /\ done' = done \cup waits /\ lost' = (lost \/ waits = {})
      /\ UNCHANGED <<initialized, dcpTaken, context, inUse, owner, channels, weak>>
      /\ task' = task /\ overwritten' = overwritten
  BY DEF Engine, contextVars
<1>2. ClaimInv' /\ ReadyInv' /\ ChannelInv'
  BY <1>1 DEF DcpInv, ClaimInv, ReadyInv, Backed, ChannelInv, DcpClaims, InNew, InNewAt,
              FreesFlag
<1>3. CommandInv'
  <2>1. /\ ch3' \in [ptr : SUBSET Contexts, sema : BOOLEAN]
        /\ ch3'.ptr = ch3.ptr /\ ch3'.sema = FALSE
    BY <1>1 DEF DcpInv, CommandInv
  <2>2. waits \subseteq Contexts /\ waits \cap overwritten = {}
    BY DEF DcpInv, CommandInv
  <2>3. \A c \in Contexts \ overwritten : Awaiting(c) => c \in waits
    BY DEF DcpInv, CommandInv, Awaiting
  <2>4. overwritten = {} => \E c \in Contexts : InXcryptAt(c, "status") /\ Awaiting(c)
    BY <1>1 DEF DcpInv, CommandInv, InXcryptAt, Awaiting, Submitting
  <2>5. overwritten = {} => waits # {}
    BY <2>3, <2>4
  <2>6. overwritten = {} => \A c \in Contexts : ~ InXcryptAt(c, "sema")
    <3>1. overwritten = {} => \A c \in Contexts : InXcryptAt(c, "sema") => Awaiting(c)
      BY DEF DcpInv, CommandInv, InXcryptAt, Awaiting, Submitting
    <3>2. \A c \in Contexts : InXcryptAt(c, "status") => ~ InXcryptAt(c, "sema")
      BY DEF InXcryptAt
    <3> SUFFICES ASSUME overwritten = {}, NEW c \in Contexts, InXcryptAt(c, "sema")
                 PROVE  FALSE
      OBVIOUS
    <3>3. PICK d \in Contexts : InXcryptAt(d, "status") /\ Awaiting(d)
      BY <2>4
    <3>4. \A b \in Contexts : Awaiting(b) => ch3.ptr = {b}
      BY DEF DcpInv, CommandInv
    <3>5. ch3.ptr = {c} /\ ch3.ptr = {d}
      BY <3>1, <3>3, <3>4
    <3>6. c = d
      BY <3>5
    <3> QED
      BY <3>2, <3>3, <3>6
  <2>7. \A c \in Contexts : Awaiting(c)' <=> Awaiting(c) /\ c \notin waits
    BY <1>1 DEF Awaiting
  <2> HIDE DEF waits
  <2>8. lost' \in BOOLEAN
    BY <1>1, Zenon
  <2>9. lost' => overwritten' # {}
    BY <1>1, <2>5 DEF DcpInv, CommandInv
  <2>10. \A c \in Contexts \ overwritten' : ~ Awaiting(c)'
    BY <1>1, <2>3, <2>7
  <2>11. \A c \in overwritten' : Awaiting(c)' /\ c \notin ch3'.ptr
    BY <1>1, <2>1, <2>2, <2>7 DEF DcpInv, CommandInv
  <2>12. overwritten' = {} => \A c \in Contexts : ~ InXcryptAt(c, "sema")'
    BY <1>1, <2>6 DEF InXcryptAt
  <2>13. done' \subseteq Contexts /\ overwritten' \subseteq Contexts
    BY <1>1, <2>2 DEF DcpInv, CommandInv
  <2> QED
    BY <2>1, <2>8, <2>9, <2>10, <2>11, <2>12, <2>13 DEF CommandInv
<1> QED
  BY <1>2, <1>3 DEF DcpInv

(* The calls of Sha256 but its destructor touch the hash only. *)
LEMMA ShaCallKeeps ==
  ASSUME DcpInv, NEW c \in Contexts, (\E n \in InputLens : ShaInput(c, n)) \/ ShaReset(c)
  PROVE  DcpInv'
<1>1. /\ UNCHANGED <<initialized, dcpTaken, context, inUse, owner, channels>>
      /\ UNCHANGED <<ch3, done, lost, overwritten, weak>>
      /\ task' = task
  BY DEF ShaInput, ShaReset, CallOnce, Abort
<1> QED
  BY <1>1 DEF DcpInv, ClaimInv, ReadyInv, Backed, ChannelInv, CommandInv, DcpClaims, InNew,
              InNewAt, FreesFlag, InXcryptAt, Awaiting, Submitting

LEMMA DcpKept ==
  ASSUME DcpInv, CallsOK, [Next]_vars
  PROVE  DcpInv'
<1>1. ASSUME NEW c \in Contexts, DcpStep(c) PROVE DcpInv'
  <2>1. CASE NewTimeout(c)
    BY <2>1, AbortKeeps DEF NewTimeout, Abort
  <2>2. CASE XcryptAborts(c)
    BY <2>2, AbortKeeps DEF XcryptAborts, Abort
  <2> QED
    BY <1>1, <2>1, <2>2, InitFlagKeeps, InitSkipKeeps, InitInstallKeeps, NewEnableKeeps,
       ShaDisableKeeps, ShaFreeKeeps, XcryptSemaKeeps, XcryptDoneKeeps DEF DcpStep
<1>2. ASSUME NEW c \in Contexts, DcpCall(c) PROVE DcpInv'
  <2>1. ASSUME NEW d \in Drivers, NewNone(c, d) PROVE DcpInv'
    BY <2>1, AbortKeeps DEF NewNone, CallOnce, Abort
  <2> QED
    BY <1>2, <2>1, NewFlagKeeps, AesDropKeeps, XcryptPtrKeeps, ShaCallKeeps, ShaEndKeeps
       DEF DcpCall
<1>3. CASE DcpNext
  BY <1>1, <1>2, <1>3, EngineKeeps DEF DcpNext
<1>4. CASE UNCHANGED dcpVars /\ Foreign(DcpOps)
  BY <1>4, DcpForeign
<1> QED
  BY <1>3, <1>4, Frames

LEMMA DcpInvariant == Spec => []DcpInv
<1>1. DcpInv /\ CallsOK /\ [Next]_vars => DcpInv'
  BY DcpKept
<1> QED
  BY <1>1, DcpInitInv, CallsInvariant, PTL DEF Spec

(* A driver is handed out with the engine ready, unless the weak exchange  *)
(* of init failed for nothing or another context is still at the install;  *)
(* its channel stays enabled while it is owned; and the engine runs the    *)
(* command of each caller of xcrypt, and no other, but for callers whose   *)
(* command another AES driver replaced in CH3CMDPTR before it was run,     *)
(* which do not return (aes128.rs:29, dcp.rs:61).                          *)
THEOREM EngineIsOwners == Spec => []EngineServesOwner
<1>1. ASSUME DcpInv PROVE EngineServesOwner
  <2>1. ReadyInv /\ ChannelInv /\ CommandInv
    BY <1>1 DEF DcpInv
  <2>2. Backed => context \/ weak \/ \E c \in Contexts : task[c].at = "install"
    BY DEF Backed, InNewAt
  <2>3. (\E d \in Drivers : owner[d] # {}) =>
          context \/ weak \/ \E c \in Contexts : task[c].at = "install"
    BY <2>1, <2>2 DEF ReadyInv
  <2> QED
    BY <2>1, <2>3 DEF ChannelInv, CommandInv, EngineServesOwner
<1> QED
  BY <1>1, DcpInvariant, PTL

(***************************************************************************)
(* SHA-256: input_slice adds the input to what has been hashed, however it *)
(* is cut into blocks.                                                     *)
(***************************************************************************)
Hashes == [buffer : Seq(Nat), first : BOOLEAN, count : Nat, hashed : Seq(Nat),
           from : Nat, fed : Nat]

Hashed(h) == IF h.first THEN <<>> ELSE h.hashed

LEMMA Associative == \A s, t, u \in Seq(Nat) : (s \o t) \o u = s \o (t \o u)
BY ConcatAssociative

LEMMA Remainder ==
  ASSUME NEW n \in Nat
  PROVE  /\ RoundDown(n) \in 0 .. n /\ n - RoundDown(n) < BlockSize
         /\ n < BlockSize => RoundDown(n) = 0
<1>1. n % BlockSize \in 0 .. (BlockSize - 1) /\ n % BlockSize <= n
      /\ (n < BlockSize => n % BlockSize = n)
  BY DcpAssumption
<1> QED
  BY <1>1, DcpAssumption DEF RoundDown

LEMMA Cut ==
  ASSUME NEW s \in Seq(Nat), NEW n \in 0 .. Len(s)
  PROVE  /\ SubSeq(s, 1, n) \in Seq(Nat) /\ Len(SubSeq(s, 1, n)) = n
         /\ SubSeq(s, n + 1, Len(s)) \in Seq(Nat)
         /\ Len(SubSeq(s, n + 1, Len(s))) = Len(s) - n
         /\ SubSeq(s, 1, n) \o SubSeq(s, n + 1, Len(s)) = s
<1>1. Len(s) \in Nat /\ \A i \in 1 .. Len(s) : s[i] \in Nat
  BY ElementOfSeq, LenProperties
<1>2. SubSeq(s, 1, n) \in Seq(Nat) /\ Len(SubSeq(s, 1, n)) = n
  BY <1>1, SubSeqProperties
<1>3. /\ SubSeq(s, n + 1, Len(s)) \in Seq(Nat)
      /\ Len(SubSeq(s, n + 1, Len(s))) = Len(s) - n
  BY <1>1, SubSeqProperties
<1>4. SubSeq(s, 1, n) \o SubSeq(s, n + 1, Len(s)) = SubSeq(s, 1, Len(s))
  <2>1. 1 \in 1 .. Len(s) + 1 /\ n \in 1 - 1 .. Len(s) /\ Len(s) \in n .. Len(s)
    BY <1>1
  <2> QED
    BY <2>1, ConcatAdjacentSubSeq, Zenon
<1> QED
  BY <1>2, <1>3, <1>4, SubSeqFull

LEMMA ExtendFits ==
  ASSUME NEW b \in Seq(Nat), NEW s \in Seq(Nat), Len(b) + Len(s) <= BlockSize
  PROVE  Extend(b, s) = b \o s /\ b \o s \in Seq(Nat) /\ Len(b \o s) = Len(b) + Len(s)
BY ConcatProperties DEF Extend

LEMMA BlocksHashed ==
  ASSUME NEW h \in Hashes, NEW blocks \in Seq(Nat)
  PROVE  LET g == ProcessBlocks(h, blocks) IN
           /\ g \in Hashes /\ Hashed(g) = Hashed(h) \o blocks /\ g.buffer = h.buffer
           /\ g.count = h.count /\ g.from = h.from /\ g.fed = h.fed
<1> DEFINE x == IF h.first THEN blocks ELSE h.hashed \o blocks
           g == ProcessBlocks(h, blocks)
<1>1. x \in Seq(Nat) /\ x = Hashed(h) \o blocks
  BY ConcatProperties, ConcatEmptySeq DEF Hashes, Hashed
<1>2. g = [h EXCEPT !.hashed = x, !.first = FALSE]
  BY DEF ProcessBlocks
<1> HIDE DEF x
<1>3. g = [buffer |-> h.buffer, first |-> FALSE, count |-> h.count, hashed |-> x,
           from |-> h.from, fed |-> h.fed]
  BY <1>2 DEF Hashes
<1> HIDE DEF g
<1>4. /\ g.buffer = h.buffer /\ g.first = FALSE /\ g.hashed = x
      /\ g.count = h.count /\ g.from = h.from /\ g.fed = h.fed
  BY <1>3
<1>5. g \in Hashes
  BY <1>1, <1>3 DEF Hashes
<1>6. Hashed(g) = Hashed(h) \o blocks
  BY <1>1, <1>4 DEF Hashed
<1> QED
  BY <1>4, <1>5, <1>6 DEF g

(* What the steps of input_slice make of the hash h when s is fed: `g` is  *)
(* h with more bytes hashed or buffered, and nothing else changed.         *)
Fed(g, h, s) ==
  /\ g \in Hashes /\ Len(g.buffer) < BlockSize /\ Digest(g) = Digest(h) \o s
  /\ g.count = h.count /\ g.from = h.from /\ g.fed = h.fed

LEMMA DigestIs == \A h : Digest(h) = Hashed(h) \o h.buffer
BY DEF Digest, Hashed

LEMMA HashedIsSeq ==
  ASSUME NEW h \in Hashes
  PROVE  Hashed(h) \in Seq(Nat) /\ h.buffer \in Seq(Nat)
BY EmptySeq DEF Hashes, Hashed

LEMMA Buffered ==
  ASSUME NEW h \in Hashes, NEW s \in Seq(Nat), Len(h.buffer) + Len(s) < BlockSize
  PROVE  Fed([h EXCEPT !.buffer = Extend(@, s)], h, s)
<1> DEFINE b == h.buffer \o s
           g == [h EXCEPT !.buffer = Extend(@, s)]
<1>1. /\ Len(h.buffer) \in Nat /\ Len(s) \in Nat /\ h.buffer \in Seq(Nat)
  BY HashedIsSeq, LenProperties
<1>2. Extend(h.buffer, s) = b /\ b \in Seq(Nat) /\ Len(b) = Len(h.buffer) + Len(s)
  <2>1. Len(h.buffer) + Len(s) <= BlockSize
    BY <1>1, DcpAssumption
  <2> QED
    BY <1>1, <2>1, ExtendFits, Zenon
<1>3. g = [h EXCEPT !.buffer = b]
  BY <1>2, Zenon
<1> HIDE DEF b, g
<1>3a. g = [buffer |-> b, first |-> h.first, count |-> h.count, hashed |-> h.hashed,
            from |-> h.from, fed |-> h.fed]
  BY <1>3 DEF Hashes
<1>4. /\ g.buffer = b /\ g.first = h.first /\ g.hashed = h.hashed
      /\ g.count = h.count /\ g.from = h.from /\ g.fed = h.fed
  BY <1>3a
<1>5. g \in Hashes
  BY <1>2, <1>3a DEF Hashes
<1>6. Digest(g) = Digest(h) \o s
  <2>1. Hashed(g) = Hashed(h)
    BY <1>4 DEF Hashed
  <2>2. Hashed(h) \o (h.buffer \o s) = (Hashed(h) \o h.buffer) \o s
    <3>1. Hashed(h) \in Seq(Nat) /\ h.buffer \in Seq(Nat)
      BY HashedIsSeq
    <3> QED
      BY <3>1, Associative
  <2> QED
    BY <1>4, <2>1, <2>2, DigestIs DEF b
<1>7. Len(g.buffer) < BlockSize
  BY <1>1, <1>2, <1>4
<1>8. Fed(g, h, s)
  BY <1>4, <1>5, <1>6, <1>7 DEF Fed
<1> QED
  BY <1>8 DEF g

(* process_and_push: whole blocks go to the engine, the rest is buffered.  *)
LEMMA Processed ==
  ASSUME NEW h \in Hashes, NEW s \in Seq(Nat), h.buffer = <<>>
  PROVE  Fed(ProcessAndPush(h, s), h, s)
<1>1. Len(s) \in Nat /\ Len(h.buffer) = 0
  BY LenProperties, EmptySeq
<1>2. CASE Len(s) < BlockSize
  <2>1. ProcessAndPush(h, s) = [h EXCEPT !.buffer = Extend(@, s)]
    BY <1>2 DEF ProcessAndPush
  <2>2. Len(h.buffer) + Len(s) < BlockSize
    BY <1>1, <1>2
  <2> QED
    BY <2>1, <2>2, Buffered
<1>3. CASE ~ (Len(s) < BlockSize)
  <2> DEFINE n == RoundDown(Len(s))
             front == SubSeq(s, 1, n)  rest == SubSeq(s, n + 1, Len(s))
             k == ProcessBlocks(h, front)  g == [k EXCEPT !.buffer = Extend(@, rest)]
  <2>1. n \in 0 .. Len(s) /\ Len(s) - n < BlockSize
    BY <1>1, Remainder
  <2>2. /\ front \in Seq(Nat) /\ rest \in Seq(Nat) /\ front \o rest = s
        /\ Len(rest) = Len(s) - n
    BY <2>1, Cut
  <2>3. ProcessAndPush(h, s) = g
    BY <1>3 DEF ProcessAndPush
  <2> HIDE DEF n, front, rest
  <2>4. /\ k \in Hashes /\ Hashed(k) = Hashed(h) \o front /\ k.buffer = <<>>
        /\ k.count = h.count /\ k.from = h.from /\ k.fed = h.fed
    BY <2>2, BlocksHashed
  <2> HIDE DEF k
  <2>5. Len(k.buffer) + Len(rest) < BlockSize
    BY <1>1, <2>1, <2>2, <2>4
  <2>6. Fed(g, k, rest)
    BY <2>2, <2>4, <2>5, Buffered
  <2> HIDE DEF g
  <2>7. Digest(k) \o rest = Digest(h) \o s
    <3>1. Digest(k) = Hashed(h) \o front /\ Digest(h) = Hashed(h)
      BY <2>2, <2>4, DigestIs, HashedIsSeq, ConcatEmptySeq, ConcatProperties
    <3>2. (Hashed(h) \o front) \o rest = Hashed(h) \o (front \o rest)
      <4>1. Hashed(h) \in Seq(Nat)
        BY HashedIsSeq
      <4> QED
        BY <2>2, <4>1, Associative
    <3> QED
      BY <2>2, <3>1, <3>2
  <2>8. Fed(g, h, s)
    BY <2>4, <2>6, <2>7 DEF Fed
  <2> QED
    BY <2>3, <2>8
<1> QED
  BY <1>2, <1>3

(* push_and_process: the buffer is filled up to a block first. *)
LEMMA Pushed ==
  ASSUME NEW h \in Hashes, NEW s \in Seq(Nat), Len(h.buffer) < BlockSize,
         Len(h.buffer) + Len(s) >= BlockSize
  PROVE  Fed(PushAndProcess(h, s), h, s)
<1> DEFINE n == BlockSize - Len(h.buffer)
           front == SubSeq(s, 1, n)  rest == SubSeq(s, n + 1, Len(s))
           block == Extend(h.buffer, front)
           k == ProcessBlocks(h, block)  j == [k EXCEPT !.buffer = <<>>]
<1>1. /\ h.buffer \in Seq(Nat) /\ Len(h.buffer) \in Nat /\ Len(s) \in Nat
      /\ n \in 0 .. Len(s) /\ Len(h.buffer) + n = BlockSize
  BY HashedIsSeq, LenProperties, DcpAssumption
<1>2. PushAndProcess(h, s) = ProcessAndPush(j, rest)
  BY DEF PushAndProcess
<1> HIDE DEF n
<1>3. /\ front \in Seq(Nat) /\ rest \in Seq(Nat) /\ front \o rest = s /\ Len(front) = n
  BY <1>1, Cut
<1> HIDE DEF front, rest
<1>4. block = h.buffer \o front /\ block \in Seq(Nat)
  <2>1. Len(h.buffer) + Len(front) <= BlockSize
    BY <1>1, <1>3, DcpAssumption
  <2> QED
    BY <1>1, <1>3, <2>1, ExtendFits
<1> HIDE DEF block
<1>5. /\ k \in Hashes /\ Hashed(k) = Hashed(h) \o block
      /\ k.count = h.count /\ k.from = h.from /\ k.fed = h.fed
  BY <1>4, BlocksHashed
<1> HIDE DEF k
<1>6. /\ j \in Hashes /\ j.buffer = <<>> /\ Hashed(j) = Hashed(k)
      /\ j.count = k.count /\ j.from = k.from /\ j.fed = k.fed
  <2>0. j = [k EXCEPT !.buffer = <<>>]
    OBVIOUS
  <2> HIDE DEF j
  <2>1. j = [buffer |-> <<>>, first |-> k.first, count |-> k.count, hashed |-> k.hashed,
             from |-> k.from, fed |-> k.fed]
    BY <1>5, <2>0 DEF Hashes
  <2>2. /\ j.buffer = <<>> /\ j.first = k.first /\ j.hashed = k.hashed
        /\ j.count = k.count /\ j.from = k.from /\ j.fed = k.fed
    BY <2>1
  <2>3. j \in Hashes
    BY <1>5, <2>1, EmptySeq DEF Hashes
  <2> QED
    BY <2>2, <2>3 DEF Hashed
<1> HIDE DEF j
<1>7. Fed(ProcessAndPush(j, rest), j, rest)
  BY <1>3, <1>6, Processed
<1>8. Digest(j) \o rest = Digest(h) \o s
  <2>1. Hashed(h) \in Seq(Nat) /\ Hashed(j) \in Seq(Nat) /\ Digest(j) = Hashed(j)
    BY <1>6, HashedIsSeq, DigestIs, ConcatEmptySeq
  <2>2. Digest(h) = Hashed(h) \o h.buffer /\ Digest(h) \in Seq(Nat)
    BY <1>1, <2>1, DigestIs, ConcatProperties
  <2>3. Digest(j) = Hashed(h) \o (h.buffer \o front)
    BY <1>4, <1>5, <1>6, <2>1
  <2>4. (Hashed(h) \o h.buffer) \o front = Hashed(h) \o (h.buffer \o front)
    <3>1. Hashed(h) \in Seq(Nat) /\ h.buffer \in Seq(Nat) /\ front \in Seq(Nat)
      BY <1>1, <1>3, <2>1
    <3> QED
      BY <3>1, Associative
  <2>5. (Digest(h) \o front) \o rest = Digest(h) \o (front \o rest)
    BY <1>3, <2>2, Associative
  <2>6. Digest(j) = Digest(h) \o front
    BY <2>2, <2>3, <2>4
  <2> QED
    BY <1>3, <2>5, <2>6
<1> QED
  BY <1>2, <1>5, <1>6, <1>7, <1>8 DEF Fed

LEMMA InputHashed ==
  ASSUME NEW h \in Hashes, NEW s \in Seq(Nat), Len(h.buffer) < BlockSize
  PROVE  LET g == InputSlice(h, s) IN
           /\ g \in Hashes /\ Len(g.buffer) < BlockSize /\ Digest(g) = Digest(h) \o s
           /\ g.count = h.count + Len(s) /\ g.fed = h.fed + Len(s) /\ g.from = h.from
<1> DEFINE k == [h EXCEPT !.count = @ + Len(s), !.fed = @ + Len(s)]
<1>1. Len(s) \in Nat /\ Len(h.buffer) \in Nat
  BY HashedIsSeq, LenProperties
<1>2. k = [h EXCEPT !.count = h.count + Len(s), !.fed = h.fed + Len(s)]
  BY DEF Hashes
<1>3. InputSlice(h, s) =
        IF h.buffer = <<>> THEN ProcessAndPush(k, s)
        ELSE IF Len(h.buffer) + Len(s) < BlockSize
        THEN [k EXCEPT !.buffer = Extend(@, s)]
        ELSE PushAndProcess(k, s)
  BY DEF InputSlice
<1> HIDE DEF k
<1>4. /\ k.buffer = h.buffer /\ k.first = h.first /\ k.hashed = h.hashed
      /\ k.count = h.count + Len(s) /\ k.fed = h.fed + Len(s) /\ k.from = h.from
  BY <1>2 DEF Hashes
<1>5. k \in Hashes
  <2>1. k = [buffer |-> h.buffer, first |-> h.first, count |-> h.count + Len(s),
             hashed |-> h.hashed, from |-> h.from, fed |-> h.fed + Len(s)]
    BY <1>2 DEF Hashes
  <2>2. h.count + Len(s) \in Nat /\ h.fed + Len(s) \in Nat
    BY <1>1 DEF Hashes
  <2> QED
    BY <2>1, <2>2 DEF Hashes
<1>6. Digest(k) = Digest(h)
  BY <1>4 DEF Digest
<1>7. Fed(InputSlice(h, s), k, s)
  <2>1. CASE h.buffer = <<>>
    BY <1>3, <1>4, <1>5, <2>1, Processed
  <2>2. CASE h.buffer # <<>> /\ Len(h.buffer) + Len(s) < BlockSize
    <3>1. InputSlice(h, s) = [k EXCEPT !.buffer = Extend(@, s)]
      BY <1>3, <2>2
    <3> QED
      BY <1>4, <1>5, <2>2, <3>1, Buffered
  <2>3. CASE h.buffer # <<>> /\ ~ (Len(h.buffer) + Len(s) < BlockSize)
    <3>1. Len(k.buffer) + Len(s) >= BlockSize /\ Len(k.buffer) < BlockSize
      BY <1>1, <1>4, <2>3, DcpAssumption
    <3>2. InputSlice(h, s) = PushAndProcess(k, s)
      BY <1>3, <2>3
    <3> QED
      BY <1>5, <3>1, <3>2, Pushed
  <2> QED
    BY <2>1, <2>2, <2>3
<1> QED
  BY <1>4, <1>6, <1>7 DEF Fed

(***************************************************************************)
(* The digest is that of the input.                                        *)
(***************************************************************************)
LEMMA NumberedIsSeq ==
  ASSUME NEW f \in Nat, NEW n \in Nat
  PROVE  /\ Numbered(f, n) \in Seq(Nat) /\ Len(Numbered(f, n)) = n
         /\ \A i \in 1 .. n : Numbered(f, n)[i] = f + i
<1>1. \A i \in 1 .. n : f + i \in Nat
  OBVIOUS
<1>2. Numbered(f, n) \in Seq(Nat) /\ Len(Numbered(f, n)) = n
  BY <1>1, IsASeq DEF Numbered
<1>3. \A i \in 1 .. n : Numbered(f, n)[i] = f + i
  BY DEF Numbered
<1> QED
  BY <1>2, <1>3

LEMMA NumberedOn ==
  ASSUME NEW f \in Nat, NEW m \in Nat, NEW n \in Nat
  PROVE  Numbered(f, m) \o Numbered(f + m, n) = Numbered(f, m + n)
<1> DEFINE s == Numbered(f, m)  t == Numbered(f + m, n)  u == Numbered(f, m + n)
<1>1. /\ s \in Seq(Nat) /\ Len(s) = m /\ \A i \in 1 .. m : s[i] = f + i
      /\ t \in Seq(Nat) /\ Len(t) = n /\ \A i \in 1 .. n : t[i] = f + m + i
      /\ u \in Seq(Nat) /\ Len(u) = m + n /\ \A i \in 1 .. m + n : u[i] = f + i
  <2>1. f + m \in Nat /\ m + n \in Nat
    OBVIOUS
  <2> QED
    BY <2>1, NumberedIsSeq
<1> HIDE DEF s, t, u
<1>2. /\ s \o t \in Seq(Nat) /\ Len(s \o t) = m + n
      /\ \A i \in 1 .. m + n : (s \o t)[i] = IF i <= m THEN s[i] ELSE t[i - m]
  BY <1>1, ConcatProperties
<1>3. ASSUME NEW i \in 1 .. m + n PROVE (s \o t)[i] = u[i]
  <2>1. CASE i <= m
    <3>1. i \in 1 .. m
      BY <2>1
    <3> QED
      BY <1>1, <1>2, <2>1, <3>1
  <2>2. CASE ~ (i <= m)
    <3>1. i - m \in 1 .. n /\ f + m + (i - m) = f + i
      BY <2>2
    <3>2. t[i - m] = f + i
      BY <1>1, <3>1
    <3> QED
      BY <1>1, <1>2, <2>2, <3>2
  <2> QED
    BY <2>1, <2>2
<1>4. s \o t = u
  BY <1>1, <1>2, <1>3, SeqEqual
<1> QED
  BY <1>4 DEF s, t, u

ShaInv ==
  /\ sha \in Hashes /\ Len(sha.buffer) < BlockSize
  /\ sha.count <= MaxCount /\ sha.from <= sha.fed
  /\ DigestIsInput

LEMMA NothingFed ==
  ASSUME NEW h \in Hashes, h.buffer = <<>>, h.first = TRUE, h.from = h.fed
  PROVE  Len(h.buffer) < BlockSize /\ h.from <= h.fed /\ Digest(h) = Numbered(h.from, h.fed - h.from)
<1>1. Digest(h) = <<>>
  BY EmptySeq, ConcatEmptySeq DEF Digest
<1>2. h.fed \in Nat /\ h.fed - h.from = 0
  BY DEF Hashes
<1>3. Numbered(h.from, 0) = <<>>
  <2>1. h.from \in Nat /\ 0 \in Nat
    BY DEF Hashes
  <2>2. Numbered(h.from, 0) \in Seq(Nat) /\ Len(Numbered(h.from, 0)) = 0
    BY <2>1, NumberedIsSeq
  <2> QED
    BY <2>2, EmptySeq
<1> QED
  BY <1>1, <1>2, <1>3, EmptySeq, DcpAssumption

LEMMA NewShaInv ==
  /\ NewSha \in Hashes /\ NewSha.count = 0
  /\ Len(NewSha.buffer) < BlockSize /\ NewSha.from <= NewSha.fed
  /\ Digest(NewSha) = Numbered(NewSha.from, NewSha.fed - NewSha.from)
<1>1. NewSha \in Hashes
  BY EmptySeq DEF NewSha, Hashes
<1>2. /\ NewSha.buffer = <<>> /\ NewSha.first = TRUE /\ NewSha.from = NewSha.fed
      /\ NewSha.count = 0
  BY DEF NewSha
<1> QED
  BY <1>1, <1>2, NothingFed

LEMMA ShaInputKeeps ==
  ASSUME ShaInv, NEW n \in InputLens, sha.count + n <= MaxCount,
         sha' = InputSlice(sha, Numbered(sha.fed, n))
  PROVE  ShaInv'
<1> DEFINE s == Numbered(sha.fed, n)
<1>1. /\ n \in Nat /\ sha.fed \in Nat /\ sha.from \in Nat /\ sha.from <= sha.fed
      /\ sha.count \in Nat
  BY DcpAssumption DEF ShaInv, Hashes
<1>2. s \in Seq(Nat) /\ Len(s) = n
  BY <1>1, NumberedIsSeq
<1>3. sha' = InputSlice(sha, s)
  OBVIOUS
<1> HIDE DEF s
<1>4. /\ sha' \in Hashes /\ Len(sha'.buffer) < BlockSize /\ Digest(sha') = Digest(sha) \o s
      /\ sha'.count = sha.count + n /\ sha'.fed = sha.fed + n /\ sha'.from = sha.from
  BY <1>2, <1>3, InputHashed DEF ShaInv
<1>5. Digest(sha') = Numbered(sha'.from, sha'.fed - sha'.from)
  <2>1. PICK m \in Nat : m = sha.fed - sha.from
    BY <1>1
  <2>2. sha.fed = sha.from + m /\ sha.fed + n - sha.from = m + n
    BY <1>1, <2>1
  <2>3. Digest(sha) = Numbered(sha.from, m)
    BY <2>1 DEF ShaInv, DigestIsInput
  <2>4. Numbered(sha.from, m) \o Numbered(sha.from + m, n) = Numbered(sha.from, m + n)
    BY <1>1, NumberedOn
  <2>5. s = Numbered(sha.from + m, n)
    BY <2>2 DEF s
  <2>6. sha'.fed - sha'.from = m + n
    BY <1>1, <1>4, <2>2
  <2> QED
    BY <1>4, <2>3, <2>4, <2>5, <2>6
<1>6. sha'.count <= MaxCount /\ sha'.from <= sha'.fed
  BY <1>1, <1>4
<1> QED
  BY <1>4, <1>5, <1>6 DEF ShaInv, DigestIsInput

LEMMA ShaResetKeeps ==
  ASSUME ShaInv, NEW c \in Contexts, ShaReset(c)
  PROVE  ShaInv'
<1>1. sha' = [sha EXCEPT !.buffer = <<>>, !.first = TRUE, !.from = sha.fed]
  BY DEF ShaReset
<1>2. sha' = [buffer |-> <<>>, first |-> TRUE, count |-> sha.count, hashed |-> sha.hashed,
              from |-> sha.fed, fed |-> sha.fed]
  BY <1>1 DEF ShaInv, Hashes
<1>3. /\ sha'.buffer = <<>> /\ sha'.first = TRUE /\ sha'.from = sha'.fed
      /\ sha'.count = sha.count
  BY <1>2
<1>4. sha' \in Hashes
  BY <1>2, EmptySeq DEF ShaInv, Hashes
<1> QED
  BY <1>3, <1>4, NothingFed DEF ShaInv, DigestIsInput

LEMMA ShaKept ==
  ASSUME ShaInv, CallsOK, [Next]_vars
  PROVE  ShaInv'
<1>1. CASE sha' = sha
  BY <1>1 DEF ShaInv, DigestIsInput, Digest
<1>2. CASE sha' = NewSha
  BY <1>2, NewShaInv, DcpAssumption DEF ShaInv, DigestIsInput
<1>3. ASSUME NEW c \in Contexts, DcpStep(c) PROVE sha' = sha \/ sha' = NewSha
  BY <1>3 DEF DcpStep, InitFlag, InitSkip, InitInstall, NewEnable, NewTimeout, ShaDisable,
              ShaFree, XcryptSema, XcryptDone, XcryptAborts, dcpVars
<1>4. ASSUME NEW c \in Contexts, DcpCall(c) PROVE ShaInv'
  <2>1. ASSUME NEW d \in Drivers, NewFlag(c, d) \/ NewNone(c, d) \/ AesDrop(c, d) \/ XcryptPtr(c, d)
        PROVE  ShaInv'
    BY <1>1, <2>1 DEF NewFlag, NewNone, AesDrop, XcryptPtr, dcpVars
  <2>2. ASSUME NEW n \in InputLens, ShaInput(c, n) PROVE ShaInv'
    BY <1>1, <2>2, ShaInputKeeps DEF ShaInput
  <2>3. CASE ShaEnd(c)
    BY <1>1, <2>3 DEF ShaEnd, dcpVars
  <2> QED
    BY <1>4, <2>1, <2>2, <2>3, ShaResetKeeps DEF DcpCall
<1>5. CASE Engine
  BY <1>1, <1>5 DEF Engine
<1>6. CASE UNCHANGED dcpVars
  BY <1>1, <1>6 DEF dcpVars
<1> QED
  BY <1>1, <1>2, <1>3, <1>4, <1>5, <1>6, Frames DEF DcpNext

LEMMA ShaInvariant == Spec => []ShaInv
<1>1. Init => ShaInv
  BY NewShaInv, DcpAssumption DEF Init, DcpInit, ShaInv, DigestIsInput
<1>2. ShaInv /\ CallsOK /\ [Next]_vars => ShaInv'
  BY ShaKept
<1> QED
  BY <1>1, <1>2, CallsInvariant, PTL DEF Spec

(* The digest is that of the bytes fed since the handle was taken or       *)
(* reset, for any size of a block and any lengths of inputs: nothing is    *)
(* lost when an input fills the buffer, ends with a block or spans many.   *)
THEOREM DigestOfInput == Spec => []DigestIsInput
<1>1. ShaInv => DigestIsInput
  BY DEF ShaInv
<1> QED
  BY <1>1, ShaInvariant, PTL

(***************************************************************************)
(* Exclusive, from the invariants of all groups.                           *)
(***************************************************************************)
LEMMA DcpTyped ==
  ASSUME DcpInv, ShaInv
  PROVE  DcpTypeOK /\ OneOwner
<1>1. {initialized, dcpTaken, context, lost, weak} \subseteq BOOLEAN
      /\ overwritten \subseteq Contexts
  BY Zenon DEF DcpInv, ReadyInv, CommandInv
<1>2. DcpTypeOK
  BY <1>1 DEF DcpInv, ClaimInv, ChannelInv, CommandInv, ShaInv, Hashes, DcpTypeOK
<1>3. OneOwner
  <2>1. ASSUME NEW d \in Drivers PROVE Cardinality(owner[d]) <= 1
    <3>0. ClaimInv
      BY DEF DcpInv
    <3>1. ASSUME NEW b \in owner[d], NEW c \in owner[d] PROVE b = c
      <4>1. b \in Contexts /\ c \in Contexts /\ DcpClaims(b, d) /\ DcpClaims(c, d)
        BY <3>0 DEF ClaimInv, DcpClaims
      <4> QED
        BY <3>0, <4>1 DEF ClaimInv
    <3> QED
      BY <3>1, AtMostOne
  <2> QED
    BY <2>1 DEF OneOwner
<1> QED
  BY <1>2, <1>3

(* No two contexts own a handle or a driver, at any time and in any        *)
(* program: what take and new check before they hand one out, and drop     *)
(* gives back, is never overtaken by a context that preempts them.         *)
THEOREM ExclusiveOwners == Spec => []Exclusive
<1>1. HandleInv /\ DcpInv /\ ShaInv /\ ClockInv(OtherCalls) /\ RngInv /\ BoardInv => Exclusive
  <2>1. RngInv => RngTypeOK
    BY DEF RngInv
  <2>2. BoardInv => StartUpTypeOK
    BY DEF BoardInv
  <2>3. ClockInv(OtherCalls) => ClockTypeOK
    BY DEF ClockInv
  <2> QED
    BY <2>1, <2>2, <2>3, HandlesExclusive, DcpTyped DEF Exclusive, TypeOK
<1> QED
  BY <1>1, HandleInvariant, DcpInvariant, ShaInvariant, ClockInDrivers, RngInvariant,
     BoardInvariant, PTL

============================================================================
