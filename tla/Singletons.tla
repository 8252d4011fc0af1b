----------------------------- MODULE Singletons -----------------------------
(***************************************************************************)
(* The serial port and the LEDs: handles that one context at a time takes  *)
(* and releases (NEVER, TAKEN, FREE, on top of the take-once singletons of *)
(* the register crate), the bytes print! sends, and the read-modify-write  *)
(* of the GPIO data register behind the LEDs.                              *)
(***************************************************************************)
EXTENDS Contexts, FiniteSets

CONSTANT LineLen   \* bytes of a message

ASSUME LineAssumption == LineLen \in Nat \ {0}

VARIABLES
  state,     \* STATE of serial.rs and of led.rs
  sealed,    \* the register crate's singleton has been taken
  raw,       \* it was the program that took it, not the driver
  holder,    \* contexts that own a handle
  txFull,    \* the transmit FIFO is full
  wire,      \* the last byte on the line: who sent it, which of its message
  sent,      \* bytes sent of each context's message
  old,       \* value of the data register each context has read
  lit,       \* LEDs whose bit of the data register is clear
  wanted     \* LEDs the calls so far ask for

singletonVars ==
  <<state, sealed, raw, holder, txFull, wire, sent, old, lit, wanted>>

Handles == {"serial", "leds"}
Leds == {"blue", "white"}

SingletonsInit ==
  /\ state = [h \in Handles |-> "NEVER"]
  /\ sealed = [h \in Handles |-> FALSE]
  /\ raw = [h \in Handles |-> FALSE]
  /\ holder = [h \in Handles |-> {}]
  /\ txFull = FALSE
  /\ wire = [by |-> 0, byte |-> LineLen]
  /\ sent = [c \in Contexts |-> 0]
  /\ old = [c \in Contexts |-> {}]
  /\ lit = {}
  /\ wanted = {}

(***************************************************************************)
(* take                                                                    *)
(***************************************************************************)
Taking == {"take", "print"}

(* Mutant: print! borrows the port instead of taking it. *)
TakeLoadBorrows(c, h, op) ==
  /\ h = "serial" \/ op = "take"
  /\ Begin(c, op, CASE op = "print" -> "write"
                    [] state[h] = "NEVER" -> "first"
                    [] OTHER -> "free", h)
  /\ UNCHANGED singletonVars

TakeLoad(c, h, op) ==
  /\ h = "serial" \/ op = "take"
  /\ Begin(c, op, IF state[h] = "NEVER" THEN "first" ELSE "free", h)
  /\ UNCHANGED singletonVars

(* Some(handle): take returns it, print! goes on to write with it; None is *)
(* the end of both.                                                        *)
Obtain(c, h) ==
  /\ holder' = [holder EXCEPT ![h] = @ \cup {c}]
  /\ IF task[c].op = "print" THEN Goto(c, "write") ELSE Return(c)

TakeFirst(c) ==
  /\ \E op \in Taking : At(c, op, "first")
  /\ LET h == task[c].on IN
       \/ /\ state[h] = "NEVER"
          /\ state' = [state EXCEPT ![h] = "TAKEN"]
          /\ Goto(c, "peripheral")
       \/ state[h] # "NEVER" /\ Goto(c, "free") /\ UNCHANGED state
  /\ UNCHANGED <<sealed, raw, holder, txFull, wire, sent, old, lit, wanted>>

TakePeripheral(c) ==
  /\ \E op \in Taking : At(c, op, "peripheral")
  /\ LET h == task[c].on IN
       \/ ~ sealed[h] /\ sealed' = [sealed EXCEPT ![h] = TRUE] /\ Obtain(c, h)
       \/ sealed[h] /\ Return(c) /\ UNCHANGED <<sealed, holder>>
  /\ UNCHANGED <<state, raw, txFull, wire, sent, old, lit, wanted>>

(* Mutant: the state is tested and set in two steps. *)
TakeFreeUnlocked(c) ==
  /\ \E op \in Taking : At(c, op, "free") \/ At(c, op, "grab")
  /\ LET h == task[c].on IN
       \/ /\ task[c].at = "grab"
          /\ state' = [state EXCEPT ![h] = "TAKEN"]
          /\ Obtain(c, h)
       \/ /\ task[c].at = "free"
          /\ IF state[h] = "FREE" THEN Goto(c, "grab") ELSE Return(c)
          /\ UNCHANGED <<state, holder>>
  /\ UNCHANGED <<sealed, raw, txFull, wire, sent, old, lit, wanted>>

TakeFree(c) ==
  /\ \E op \in Taking : At(c, op, "free")
  /\ LET h == task[c].on IN
       \/ /\ state[h] = "FREE"
          /\ state' = [state EXCEPT ![h] = "TAKEN"]
          /\ Obtain(c, h)
       \/ state[h] # "FREE" /\ Return(c) /\ UNCHANGED <<state, holder>>
  /\ UNCHANGED <<sealed, raw, txFull, wire, sent, old, lit, wanted>>

ReleaseHandle(c, h) ==
  /\ state' = [state EXCEPT ![h] = "FREE"]
  /\ holder' = [holder EXCEPT ![h] = @ \ {c}]

Release(c, h) ==
  /\ c \in holder[h]
  /\ CallOnce(c)
  /\ ReleaseHandle(c, h)
  /\ UNCHANGED <<sealed, raw, txFull, wire, sent, old, lit, wanted>>

(* The program takes the peripheral itself, and keeps it.                  *)
RawTake(c, h) ==
  /\ ~ sealed[h]
  /\ CallOnce(c)
  /\ sealed' = [sealed EXCEPT ![h] = TRUE]
  /\ raw' = [raw EXCEPT ![h] = TRUE]
  /\ UNCHANGED <<state, holder, txFull, wire, sent, old, lit, wanted>>

(***************************************************************************)
(* The serial port                                                         *)
(***************************************************************************)
WriteAll(c) ==
  /\ c \in holder["serial"]
  /\ Begin(c, "write_all", "write", "serial")
  /\ UNCHANGED singletonVars

Writing == {"write_all", "print"}

WriteByte(c) ==
  /\ \E op \in Writing : At(c, op, "write")
  /\ ~ txFull
  /\ txFull' = TRUE
  /\ wire' = [by |-> c, byte |-> sent[c] + 1]
  /\ LET last == sent[c] + 1 = LineLen IN
       /\ sent' = [sent EXCEPT ![c] = IF last THEN 0 ELSE @ + 1]
       /\ IF ~ last THEN UNCHANGED contextVars
          ELSE IF task[c].op = "print" THEN Goto(c, "release") ELSE Return(c)
  /\ UNCHANGED <<state, sealed, raw, holder, old, lit, wanted>>

PrintRelease(c) ==
  /\ At(c, "print", "release")
  /\ ReleaseHandle(c, "serial")
  /\ Return(c)
  /\ UNCHANGED <<sealed, raw, txFull, wire, sent, old, lit, wanted>>

Transmit ==
  /\ alive
  /\ txFull
  /\ txFull' = FALSE
  /\ UNCHANGED contextVars
  /\ UNCHANGED <<state, sealed, raw, holder, wire, sent, old, lit, wanted>>

(***************************************************************************)
(* The LEDs: the object of a call is the LED, its name the method.         *)
(***************************************************************************)
Methods == {"on", "off", "toggle"}

Applied(m, led, dr) ==
  IF m = "on" \/ (m = "toggle" /\ led \notin dr)
  THEN dr \cup {led} ELSE dr \ {led}

LedRead(c, m, led) ==
  /\ c \in holder["leds"]
  /\ Begin(c, m, "modify", led)
  /\ old' = [old EXCEPT ![c] = lit]
  /\ wanted' = Applied(m, led, wanted)
  /\ UNCHANGED <<state, sealed, raw, holder, txFull, wire, sent, lit>>

LedWrite(c) ==
  /\ \E m \in Methods : At(c, m, "modify")
  /\ lit' = Applied(task[c].op, task[c].on, old[c])
  /\ Return(c)
  /\ UNCHANGED <<state, sealed, raw, holder, txFull, wire, sent, old, wanted>>

(***************************************************************************)
(* Properties                                                              *)
(***************************************************************************)
SingletonsTypeOK ==
  /\ state \in [Handles -> {"NEVER", "TAKEN", "FREE"}]
  /\ sealed \in [Handles -> BOOLEAN]
  /\ raw \in [Handles -> BOOLEAN]
  /\ holder \in [Handles -> SUBSET Contexts]
  /\ txFull \in BOOLEAN
  /\ wire \in [by : Contexts, byte : 1 .. LineLen]
  /\ sent \in [Contexts -> 0 .. LineLen - 1]
  /\ old \in [Contexts -> SUBSET Leds]
  /\ lit \subseteq Leds
  /\ wanted \subseteq Leds

(* take never hands out a second handle while one is owned.                *)
OneHolder == \A h \in Handles : Cardinality(holder[h]) <= 1

(* A handle marked TAKEN can come back: it is owned, or about to be, unless *)
(* the program had taken the peripheral before the driver asked for it.    *)
TakenIsHeld ==
  \A h \in Handles :
    state[h] = "TAKEN" =>
      \/ holder[h] # {}
      \/ raw[h]
      \/ \E c \in Contexts : task[c].on = h /\ task[c].at = "peripheral"

(* Contexts that share the port and the LEDs do not spoil each other's     *)
(* output: the bytes of a message follow each other on the line, whatever  *)
(* print! does in a handler, and between calls the LEDs show what the      *)
(* calls asked for, no update lost to another's read-modify-write.         *)
OutputWhole ==
  /\ [][wire' # wire =>
          IF wire'.byte = 1 THEN wire.byte = LineLen
          ELSE wire' = [wire EXCEPT !.byte = @ + 1]]_wire
  /\ []((\A c \in Contexts : task[c].at # "modify") => lit = wanted)

=============================================================================
