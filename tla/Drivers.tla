------------------------------ MODULE Drivers ------------------------------
(***************************************************************************)
(* Programs that use the board's drivers from contexts that preempt each   *)
(* other, and the start-up before them.  A program uses one of the groups  *)
(* of drivers in Programs, so that groups which share nothing are not      *)
(* multiplied with each other; start-up is a group of its own.             *)
(***************************************************************************)
EXTENDS Singletons, Dcp, Clock, Rng, StartUp

CONSTANT Programs   \* sets of drivers among "handles", "dcp", "clock", "rng",
                    \* or start-up, "board"

ASSUME ProgramsAssumption ==
  \A p \in Programs : p \subseteq {"handles", "dcp", "clock", "rng"} \/ p = {"board"}

VARIABLE uses

vars ==
  <<contextVars, singletonVars, dcpVars, clockVars, rngVars, startUpVars, uses>>

Init ==
  /\ ContextsInit /\ SingletonsInit /\ DcpInit /\ ClockInit /\ RngInit
  /\ StartUpInit
  /\ uses \in Programs
  /\ dcpTaken => "dcp" \in uses

SingletonStep(c) ==
  \/ TakeFirst(c) \/ TakePeripheral(c) \/ TakeFree(c)
  \/ WriteByte(c) \/ PrintRelease(c) \/ LedWrite(c)

SingletonCall(c) ==
  \/ \E h \in Handles :
       (\E op \in Taking : TakeLoad(c, h, op)) \/ Release(c, h) \/ RawTake(c, h)
  \/ WriteAll(c)
  \/ \E m \in Methods, led \in Leds : LedRead(c, m, led)

(* The steps of one driver leave the others alone.                         *)
Handle(A) == A /\ UNCHANGED <<dcpVars, clockVars, rngVars, startUpVars, uses>>
Crypto(A) == A /\ UNCHANGED <<singletonVars, clockVars, rngVars, startUpVars, uses>>
Timer(A) == A /\ UNCHANGED <<singletonVars, dcpVars, rngVars, startUpVars, uses>>
Random(A) == A /\ UNCHANGED <<singletonVars, dcpVars, clockVars, startUpVars, uses>>
Board(A) == A /\ UNCHANGED <<singletonVars, dcpVars, clockVars, rngVars, uses>>

Step(c) ==
  \/ Handle(SingletonStep(c)) \/ Crypto(DcpStep(c))
  \/ Timer(NowStep(c) \/ WaitStep(c)) \/ Random(RngStep(c))
  \/ Board(StartUpStep(c))

CallAny(c) ==
  \/ "handles" \in uses /\ Handle(SingletonCall(c))
  \/ "dcp" \in uses /\ Crypto(DcpCall(c))
  \/ "clock" \in uses /\ Timer(ClockCall(c))
  \/ "rng" \in uses /\ Random(RngUse(c))
  \/ "board" \in uses /\ Board(Boot(c))

Uart == Handle(Transmit)
CryptoEngine == Crypto(Engine)
Rtc == "clock" \in uses /\ Timer(Tick)
Generator == Random(Seed \/ Fill)
Port == Board(UartSent)

Next ==
  \/ \E c \in Contexts : Step(c) \/ CallAny(c)
  \/ Uart \/ CryptoEngine \/ Rtc \/ Generator \/ Random(Fault)
  \/ Port \/ Board(I2cBus)

Spec == Init /\ [][Next]_vars

(* Contexts that have begun a call go on with it when nothing above them   *)
(* runs, and the devices answer; no call has to be made and no error has   *)
(* to happen.                                                              *)
FairSpec ==
  /\ Spec
  /\ \A c \in Contexts : WF_vars(Step(c))
  /\ WF_vars(Uart) /\ WF_vars(CryptoEngine) /\ WF_vars(Rtc) /\ WF_vars(Generator)
  /\ WF_vars(Port)

(***************************************************************************)
(* Properties                                                              *)
(***************************************************************************)
TypeOK == SingletonsTypeOK /\ DcpTypeOK /\ ClockTypeOK /\ RngTypeOK /\ StartUpTypeOK

(* No two contexts own the same handle or driver (take, new), and a handle *)
(* marked as taken has an owner that can give it back; all variables keep  *)
(* their types.                                                            *)
Exclusive == TypeOK /\ OneHolder /\ OneOwner /\ TakenIsHeld

(* Every call returns, or ends in a panic or a reset, once the handlers    *)
(* above are done; the generator's waits are the exception when an error   *)
(* comes after their only look at the error register, and the clock of the *)
(* model ends.                                                             *)
CallsReturn ==
  \A c \in Contexts :
    task[c] # NoCall ~>
      \/ task[c] = NoCall \/ ~ alive
      \/ \E d \in Contexts : Overtaken(d)
      \/ AtEnd

=============================================================================
