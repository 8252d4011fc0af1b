------------------------------ MODULE StartUp ------------------------------
(***************************************************************************)
(* Start-up: `start` of usbarmory-rt up to the call of main.  It switches  *)
(* the USB-C receptacle on through its controller, the FUSB303, over I2C,  *)
(* and sets the serial port up.  The board may be reset at any time after  *)
(* that, with or without loss of power; then start-up meets the I2C        *)
(* controller, the FUSB303 and the serial port as the last attempt has     *)
(* left them.                                                              *)
(***************************************************************************)
EXTENDS Contexts, Sequences

VARIABLES
  boot,   \* step of Script, and how the last start-up ended
  i2c,    \* MSTA, MTX; IBB, IIF, RXAK, IAL; the transfer under way; I2DR
  fusb,   \* FUSB303: where it is in a transaction, and its control register
  tx,     \* UART: still sending, in reset, enabled
  lamps   \* LEDs

startUpVars == <<boot, i2c, fusb, tx, lamps>>

VAL == "enabled"
Bytes == {"addr_w", "reg_addr", "val", "addr_r"}

i2c_write == <<"enable", "start", "addr_w", "reg_addr", "val", "stop">>
i2c_write_then_read ==
  <<"enable", "start", "addr_w", "reg_addr", "restart", "addr_r", "receive", "stop", "get">>

(* serial::init, and the delay before main. *)
serial_init == <<"drain", "reset", "delay">>

Script == i2c_write \o i2c_write_then_read \o serial_init

StartUpInit ==
  /\ boot = [pos |-> 1, end |-> "none"]
  /\ i2c = [msta |-> FALSE, mtx |-> FALSE, ibb |-> FALSE, iif |-> FALSE, rxak |-> FALSE,
            ial |-> FALSE, busy |-> "none", data |-> "none"]
  /\ fusb = [at |-> "idle", reg |-> "reset"]
  /\ tx = [sending |-> FALSE, reset |-> FALSE, on |-> FALSE]
  /\ lamps = {}

(* A reset; power may be lost, and the UART may be sending.  i2c::init     *)
(* disables the I2C controller, its status bits stay.                      *)
Boot(c) ==
  /\ \A d \in Contexts : c <= d
  /\ Begin(c, "boot", "issue", "board")
  /\ boot' = [pos |-> 1, end |-> "none"]
  /\ i2c' = [i2c EXCEPT !.msta = FALSE, !.mtx = FALSE, !.busy = "none"]
  /\ fusb' \in {[fusb EXCEPT !.at = "idle"], [at |-> "idle", reg |-> "reset"]}
  /\ tx' \in {tx, [tx EXCEPT !.sending = tx.on]}
  /\ lamps' = {"white"}

Doing == Script[boot.pos]

Fatal(c) ==
  /\ Return(c)
  /\ boot' = [boot EXCEPT !.end = "fatal"]
  /\ lamps' = {"white", "blue"}

(* The step is over: the next one, or main. *)
Done(c) ==
  /\ UNCHANGED lamps
  /\ IF boot.pos < Len(Script)
       THEN boot' = [boot EXCEPT !.pos = @ + 1] /\ Goto(c, "issue")
       ELSE boot' = [boot EXCEPT !.end = "main"] /\ Return(c)

Wait(c) == Goto(c, "wait") /\ UNCHANGED <<boot, lamps>>

(***************************************************************************)
(* What each step writes.                                                  *)
(***************************************************************************)
(* Mutant: the status register is not cleared. *)
EnableOnly(c) ==
  /\ Doing = "enable"
  /\ i2c' = [i2c EXCEPT !.msta = FALSE, !.mtx = FALSE, !.busy = "none"]
  /\ Wait(c) /\ UNCHANGED <<fusb, tx>>

Enable(c) ==
  /\ Doing = "enable"
  /\ i2c' = [i2c EXCEPT !.iif = FALSE, !.ial = FALSE,
                        !.msta = FALSE, !.mtx = FALSE, !.busy = "none"]
  /\ Wait(c) /\ UNCHANGED <<fusb, tx>>

Start(c) ==
  /\ Doing = "start"
  /\ i2c' = [i2c EXCEPT !.msta = TRUE, !.mtx = TRUE]
  /\ Wait(c) /\ UNCHANGED <<fusb, tx>>

i2c_tx(c) ==
  /\ Doing \in Bytes
  /\ i2c' = [i2c EXCEPT !.busy = Doing]
  /\ Wait(c) /\ UNCHANGED <<fusb, tx>>

i2c_restart(c) ==
  /\ Doing = "restart"
  /\ fusb' = [fusb EXCEPT !.at = IF @ = "selected" THEN "started_again" ELSE "started"]
  /\ Done(c) /\ UNCHANGED <<i2c, tx>>

(* Read mode, NAK, and the dummy read that starts the transfer. *)
Receive(c) ==
  /\ Doing = "receive"
  /\ i2c' = [i2c EXCEPT !.mtx = FALSE, !.busy = "receive"]
  /\ Wait(c) /\ UNCHANGED <<fusb, tx>>

Stop(c) ==
  /\ Doing = "stop"
  /\ i2c' = [i2c EXCEPT !.msta = FALSE, !.mtx = FALSE]
  /\ Wait(c) /\ UNCHANGED <<fusb, tx>>

(* A read of I2DR by a master in read mode would start another transfer.   *)
Get(c) ==
  /\ Doing = "get"
  /\ i2c' = [i2c EXCEPT !.busy = IF i2c.msta /\ ~ i2c.mtx THEN "receive" ELSE @]
  /\ IF i2c.data = VAL THEN Done(c) ELSE Fatal(c)
  /\ UNCHANGED <<fusb, tx>>

Drain(c) == Doing = "drain" /\ Wait(c) /\ UNCHANGED <<i2c, fusb, tx>>

ResetUart(c) ==
  /\ Doing = "reset"
  /\ tx' = [tx EXCEPT !.on = FALSE, !.reset = TRUE]
  /\ Wait(c) /\ UNCHANGED <<i2c, fusb>>

Delay(c) == Doing = "delay" /\ Done(c) /\ UNCHANGED <<i2c, fusb, tx>>

Issue(c) ==
  /\ At(c, "boot", "issue")
  /\ \/ Enable(c) \/ Start(c) \/ i2c_tx(c) \/ i2c_restart(c) \/ Receive(c) \/ Stop(c)
     \/ Get(c) \/ Drain(c) \/ ResetUart(c) \/ Delay(c)

(***************************************************************************)
(* i2c_wait_for_sr, and the waits of serial::init, which have no timeout.  *)
(***************************************************************************)
OverI2c == Doing \notin {"drain", "reset"}

Ready ==
  CASE Doing = "start" -> i2c.ibb
    [] Doing \in {"enable", "stop"} -> ~ i2c.ibb
    [] Doing \in Bytes \cup {"receive"} -> i2c.iif
    [] Doing = "drain" -> ~ tx.sending
    [] OTHER -> ~ tx.reset

WaitOver(c) ==
  /\ At(c, "boot", "wait") /\ Ready
  /\ OverI2c => ~ i2c.ial
  /\ i2c' = IF Doing \in Bytes \cup {"receive"} THEN [i2c EXCEPT !.iif = FALSE] ELSE i2c
  /\ tx' = IF Doing = "reset" THEN [tx EXCEPT !.on = TRUE] ELSE tx
  /\ IF Doing \in Bytes /\ i2c.rxak THEN Fatal(c) ELSE Done(c)
  /\ UNCHANGED fusb

(* Arbitration lost, or the timeout. *)
WaitFails(c) ==
  /\ At(c, "boot", "wait") /\ OverI2c
  /\ i2c.ial \/ ~ Ready
  /\ Fatal(c)
  /\ UNCHANGED <<i2c, fusb, tx>>

StartUpStep(c) == Issue(c) \/ WaitOver(c) \/ WaitFails(c)

(***************************************************************************)
(* The I2C bus with the FUSB303, and the UART.                             *)
(***************************************************************************)
BusStarts ==
  /\ i2c.msta /\ ~ i2c.ibb
  /\ i2c' = [i2c EXCEPT !.ibb = TRUE]
  /\ fusb' = [fusb EXCEPT !.at = "started"]

BusStops ==
  /\ ~ i2c.msta /\ i2c.ibb
  /\ i2c' = [i2c EXCEPT !.ibb = FALSE]
  /\ fusb' = [fusb EXCEPT !.at = "idle"]

(* The states in which the FUSB303 expects a byte, and the next one. *)
Takes ==
  [addr_w |-> [from |-> "started", to |-> "addressed"],
   reg_addr |-> [from |-> "addressed", to |-> "selected"],
   val |-> [from |-> "selected", to |-> "written"],
   addr_r |-> [from |-> "started_again", to |-> "reading"]]

ByteSent ==
  /\ i2c.busy \in Bytes
  /\ \E ack \in {FALSE} \cup {i2c.busy \in Bytes /\ fusb.at = Takes[i2c.busy].from} :
       /\ i2c' = [i2c EXCEPT !.busy = "none", !.iif = TRUE, !.rxak = ~ ack]
       /\ fusb' = IF ack THEN [at |-> Takes[i2c.busy].to,
                               reg |-> IF i2c.busy = "val" THEN VAL ELSE fusb.reg]
                  ELSE [fusb EXCEPT !.at = "idle"]

ByteReceived ==
  /\ i2c.busy = "receive"
  /\ i2c' = [i2c EXCEPT !.busy = "none", !.iif = TRUE,
                        !.data = IF fusb.at = "reading" THEN fusb.reg ELSE "none"]
  /\ UNCHANGED fusb

ArbitrationLost ==
  /\ i2c.busy # "none"
  /\ i2c' = [i2c EXCEPT !.busy = "none", !.ial = TRUE, !.msta = FALSE]
  /\ UNCHANGED fusb

I2cBus ==
  /\ BusStarts \/ BusStops \/ ByteSent \/ ByteReceived \/ ArbitrationLost
  /\ UNCHANGED <<contextVars, boot, tx, lamps>>

UartSent ==
  /\ tx.sending \/ tx.reset
  /\ tx' = [tx EXCEPT !.sending = FALSE, !.reset = FALSE]
  /\ UNCHANGED <<contextVars, boot, i2c, fusb, lamps>>

(***************************************************************************)
(* Properties                                                              *)
(***************************************************************************)
StartUpTypeOK ==
  /\ boot \in [pos : 1 .. Len(Script), end : {"none", "main", "fatal"}]
  /\ i2c \in [msta : BOOLEAN, mtx : BOOLEAN, ibb : BOOLEAN, iif : BOOLEAN, rxak : BOOLEAN,
              ial : BOOLEAN, busy : Bytes \cup {"none", "receive"},
              data : {"none", "reset", VAL}]
  /\ fusb.reg \in {"reset", VAL}
  /\ tx \in [sending : BOOLEAN, reset : BOOLEAN, on : BOOLEAN]

(* main starts only with the receptacle switched on, the I2C bus quiet and *)
(* the serial port ready, whatever an earlier attempt has left in the      *)
(* controllers (init_fusb303 and its read-back, i2c_stop, serial::init).   *)
MainMeansReady ==
  boot.end = "main" =>
    /\ fusb.reg = VAL
    /\ i2c.busy = "none" /\ ~ i2c.ibb
    /\ tx.on /\ ~ tx.reset
    /\ lamps = {"white"}

=============================================================================
