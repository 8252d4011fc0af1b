----------------------------- MODULE EmmcProofs -----------------------------
(***************************************************************************)
(* Proofs about Emmc.  On a card that is done with a write when it lets go *)
(* of the data lines (no "buffered" fault), every command is sent in a     *)
(* state of the card that accepts it, and the driver implements the        *)
(* abstract BlockStore, whatever else fails.  If moreover a transfer that  *)
(* was given up cannot end in a data error, a response is never taken for  *)
(* that of another command.                                                *)
(***************************************************************************)
EXTENDS Emmc, TLAPS

Unbuffered == "buffered" \notin Faults

-----------------------------------------------------------------------------
(* The inductive invariant. *)

Settled == inflight \in {None, "stuck"}
Clean == int \cap AnyError = {}

(* The card follows the data lines, and nothing but a response puts a      *)
(* transfer on them: they are free while a command is out.                 *)
Lines ==
  /\ line = None => card # "prg"
  /\ line # None =>
       \/ line.kind = "read" /\ card = "data"
       \/ line.kind = "write" /\ card = "rcv"
       \/ line.kind = "busy" /\ card = "prg"
  /\ inflight \in Commands => line = None /\ Legal(inflight)

(* A write that is under way belongs to the call, or to one given up.      *)
Owned ==
  /\ late # None => late \in Requests /\ late.op = "write"
  /\ line # None /\ line.kind # "read" /\ line.block # None =>
       \E w \in {call, late} \cap Requests :
         w.op = "write" /\ w.block = line.block /\ w.data = line.data
  /\ inflight = "CMD24" => arg \in {call, late} \cap Requests /\ arg.op = "write"

(* The boot sequence: before and after each command. *)
Before(c) ==
  CASE c = "CMD0" -> TRUE
    [] c = "CMD1" -> card = "idle"
    [] c = "CMD2" -> card = "ready"
    [] c = "CMD3" -> card = "ident"
    [] c = "CMD7" -> card = "stby"
    [] c = "CMD13" -> card \in {"tran", "prg"}
    [] OTHER -> card = "tran"

Accepted(c) ==
  CASE c = "CMD0" -> card = "idle"
    [] c = "CMD1" -> card \in {"idle", "ready"} /\ rsp.state = card
    [] c = "CMD2" -> card = "ident"
    [] c = "CMD3" -> card = "stby"
    [] c = "CMD6" -> card \in {"tran", "prg"}
    [] c = "CMD8" -> card \in {"tran", "data"}
    [] OTHER -> card = "tran"

Answer == Accepted(cmd) \/ (cmd \in R1 /\ rsp.err)

Booting ==
  /\ arg = Boot /\ late = None /\ result = None
  /\ at \in 1 .. Len(take) /\ cmd = take[at]
  /\ inflight \in {cmd, None, "stuck"}
  /\ line # None => line.block = None
  /\ line # None /\ pc # "dead" =>
       \/ line.kind = "read" /\ cmd = "CMD8" /\ pc \notin {"check", "busy"}
       \/ line.kind = "busy" /\ cmd = "CMD6"
       \/ line.kind = "busy" /\ cmd = "CMD13" /\ pc \in {"check", "busy"}
  /\ pc \in {"check", "busy"} => Settled /\ Clean /\ Before(cmd)
  /\ pc = "busy" => "CC" \notin int
  /\ pc \in {"cc", "cc_wait"} =>
       \/ inflight = cmd /\ Before(cmd) /\ Clean /\ "CC" \notin int
       \/ Settled /\ ~ Clean
       \/ Settled /\ "CC" \in int /\ Answer
  /\ pc = "cc_done" =>
       /\ Settled
       /\ seen \cap AnyError = {} => Answer /\ (cmd = "CMD8" \/ Clean)
  /\ pc \in {"data", "data_wait", "data_done"} => cmd = "CMD8"
  /\ pc \in {"data", "data_wait", "data_done", "ok"} => Settled /\ Accepted(cmd)
  /\ pc = "ok" => cmd = "CMD8" \/ Clean
  /\ pc = "prepare" => Settled /\ Clean /\ card = "tran" /\ cmd = "CMD13" /\ line = None

(* A call.  The status it asks for is that of the card, unless an error is *)
(* going to end the call.  Once TC is cleared, TC says that its own        *)
(* transfer is done, and what was under way before it is over.             *)
NothingElse == line = None /\ inflight \in {"CMD13", None, "stuck"}

Finished ==
  IF call.op = "read" THEN buffer = flash[call.block] ELSE flash[call.block] = call.data

OwnLine ==
  line # None =>
    /\ line.block = call.block
    /\ IF call.op = "read" THEN line.kind = "read"
                           ELSE line.kind # "read" /\ line.data = call.data

TellsTran == rsp.state = "tran" => card = "tran"

Asking ==
  /\ pc \in {"check", "busy", "cc", "cc_wait", "cc_done", "ok", "failed", "prepare"}
  /\ pc \notin {"check", "busy"} => NothingElse
  /\ pc \in {"busy", "cc", "cc_wait"} /\ "CC" \in int /\ Clean /\ line = None => TellsTran
  /\ pc = "cc_done" /\ seen \cap AnyError = {} => TellsTran
  /\ pc = "ok" => TellsTran
  /\ pc = "prepare" => card = "tran"

Transferring ==
  /\ pc # "prepare"
  /\ pc \in {"check", "busy"} => NothingElse /\ "TC" \notin int /\ card = "tran"
  /\ pc \notin {"check", "busy"} =>
       /\ arg = call /\ inflight \in {cmd, None, "stuck"}
       /\ OwnLine
       /\ "TC" \in int => line = None /\ Settled /\ Finished
  /\ pc = "data_done" /\ seen \cap AnyError = {} => "TC" \in int
  /\ pc = "ok" => line = None /\ Settled /\ Finished

Polling ==
  /\ pc \in {"check", "busy", "cc", "cc_wait", "cc_done", "ok", "failed"}
  /\ NothingElse /\ Finished

Serving ==
  /\ card \in {"tran", "data", "rcv", "prg"}
  /\ inflight \in {"CMD13", "CMD17", "CMD24", None, "stuck"}
  /\ call # None /\ pc # "dead" =>
       \/ at = 0 /\ cmd = "CMD13" /\ Asking
       \/ at = 0 /\ cmd = DataCommand /\ Transferring
       \/ at = 1 /\ cmd = "CMD13" /\ call.op = "write" /\ Polling

Inv ==
  /\ TypeOK /\ Lines /\ Owned
  /\ IF call = Boot THEN Booting ELSE Serving

-----------------------------------------------------------------------------
(* Constants. *)

LEMMA TakeFacts ==
  /\ Len(take) = 9
  /\ take[1] = "CMD0" /\ take[2] = "CMD1" /\ take[3] = "CMD2" /\ take[4] = "CMD3"
  /\ take[5] = "CMD7" /\ take[6] = "CMD16" /\ take[7] = "CMD6" /\ take[8] = "CMD13"
  /\ take[9] = "CMD8"
  BY DEF take

LEMMA CommandFacts ==
  /\ \A c \in Commands :
       c \in {"CMD0", "CMD1", "CMD2", "CMD3", "CMD6", "CMD7", "CMD8", "CMD13", "CMD16",
              "CMD17", "CMD24"}
  /\ None \notin {"CMD0", "CMD1", "CMD2", "CMD3", "CMD6", "CMD7", "CMD8", "CMD13", "CMD16",
                  "CMD17", "CMD24"}
  /\ None \notin Commands /\ None # "stuck" /\ "stuck" \notin Commands
  BY SortsAssumption DEF Commands, R1

LEMMA RequestFacts ==
  /\ \A r \in Requests :
       /\ r.block \in Blocks /\ r.block # None
       /\ \/ r.op = "read" /\ r.data = None
          \/ r.op = "write" /\ r.data \in Values
       /\ r # None /\ r # Boot
  /\ Boot.op = "take" /\ Boot.block = None /\ Boot.data = None /\ Boot # None
  BY SortsAssumption DEF Requests, Request, Boot

-----------------------------------------------------------------------------
(* The controller and the card. *)

(* What an accepted command does, command by command. *)
Effects ==
  /\ inflight = "CMD0" => card' = "idle" /\ line' = line
  /\ inflight = "CMD1" => card' \in {"idle", "ready"} /\ line' = line
  /\ inflight = "CMD2" => card' = "ident" /\ line' = line
  /\ inflight = "CMD3" => card' = "stby" /\ line' = line
  /\ inflight = "CMD7" => card' = "tran" /\ line' = line
  /\ inflight \in {"CMD13", "CMD16"} => card' = card /\ line' = line
  /\ inflight = "CMD6" =>
       card' = "prg" /\ line' = [kind |-> "busy", block |-> None, data |-> None]
  /\ inflight \in {"CMD8", "CMD17"} =>
       card' = "data" /\ line' = [kind |-> "read", block |-> arg.block, data |-> None]
  /\ inflight = "CMD24" =>
       card' = "rcv" /\ line' = [kind |-> "write", block |-> arg.block, data |-> arg.data]

LEMMA EffectFacts ==
  ASSUME inflight \in Commands, card' \in After(inflight), line' = LineOf(inflight)
  PROVE  Effects
<1>1. CASE inflight \in {"CMD0", "CMD1", "CMD2", "CMD3"}
  BY <1>1 DEF Effects, After, LineOf
<1>2. CASE inflight \in {"CMD6", "CMD7", "CMD13", "CMD16"}
  BY <1>2 DEF Effects, After, LineOf
<1>3. CASE inflight \in {"CMD8", "CMD17", "CMD24"}
  BY <1>3 DEF Effects, After, LineOf
<1> QED BY <1>1, <1>2, <1>3, CommandFacts

LEMMA ShownFacts ==
  ASSUME inflight \in Commands, Effects, NEW shown \in Shown(inflight, card')
  PROVE  /\ inflight = "CMD1" => shown = card'
         /\ inflight \in {"CMD13", "CMD16"} => shown = card
         /\ shown \in {card, card', "prg"}
  BY DEF Shown, Effects

LEMMA LegalFacts ==
  ASSUME inflight \in Commands
  PROVE  /\ inflight = "CMD1" => (Legal(inflight) <=> card = "idle")
         /\ inflight = "CMD2" => (Legal(inflight) <=> card = "ready")
         /\ inflight = "CMD3" => (Legal(inflight) <=> card = "ident")
         /\ inflight = "CMD7" => (Legal(inflight) <=> card = "stby")
         /\ inflight = "CMD13" => (Legal(inflight) <=> card \in {"stby", "tran", "data", "rcv", "prg"})
         /\ inflight \in {"CMD6", "CMD8", "CMD16", "CMD17", "CMD24"} => (Legal(inflight) <=> card = "tran")
  BY CommandFacts DEF Legal

(* What every accepted command keeps. *)
LEMMA Takes ==
  ASSUME TypeOK, Lines, Owned, inflight \in Commands, Legal(inflight), Effects,
         inflight' = None, UNCHANGED <<call, late, arg>>
  PROVE  /\ line' \in Transfers \cup {None} /\ card' \in CardStates
         /\ inflight \in {"CMD6", "CMD8", "CMD17", "CMD24"} => line' # None
         /\ Lines' /\ Owned'
<1>1. TypeOK /\ Lines /\ Owned /\ UNCHANGED <<call, late, arg>>
  OBVIOUS
<1>2. inflight \in Commands /\ Legal(inflight) /\ line = None /\ inflight' = None
  BY DEF Lines
<1>3. Effects
  OBVIOUS
<1>4. arg.block \in Blocks \cup {None} /\ arg.data \in Values \cup {None}
  BY <1>1, RequestFacts DEF TypeOK
<1>5. /\ line' \in Transfers \cup {None} /\ card' \in CardStates
      /\ inflight \in {"CMD6", "CMD8", "CMD17", "CMD24"} => line' # None
  <2>1. line' \in Transfers \cup {None}
    <3>1. CASE inflight = "CMD24"
      BY <1>1, <1>2, <1>3, <1>4, <3>1, CommandFacts DEF Effects, Transfers
    <3>2. CASE inflight # "CMD24"
      BY <1>1, <1>2, <1>3, <1>4, <3>2, CommandFacts DEF Effects, Transfers
    <3> QED BY <3>1, <3>2
  <2>2. card' \in CardStates
    BY <1>1, <1>2, <1>3, <1>4, CommandFacts DEF Effects, CardStates, TypeOK
  <2>3. inflight \in {"CMD6", "CMD8", "CMD17", "CMD24"} => line' \in Transfers
    BY <1>3, <1>4 DEF Effects, Transfers
  <2> QED BY <2>1, <2>2, <2>3, SortsAssumption
<1>6. Lines'
  <2>1. inflight' \notin Commands
    BY <1>2, CommandFacts
  <2>2. CASE inflight \in {"CMD0", "CMD1", "CMD2", "CMD3", "CMD7", "CMD16"}
    <3>1. line' = None /\ card' # "prg"
      BY <1>2, <1>3, <2>2, LegalFacts DEF Effects
    <3> QED BY <2>1, <3>1 DEF Lines
  <2>3. CASE inflight = "CMD13"
    <3>1. line' = None /\ card' # "prg"
      BY <1>1, <1>2, <1>3, <2>3 DEF Effects, Lines
    <3> QED BY <2>1, <3>1 DEF Lines
  <2>4. CASE inflight = "CMD6"
    BY <1>3, <1>5, <2>1, <2>4 DEF Effects, Lines
  <2>5. CASE inflight \in {"CMD8", "CMD17"}
    BY <1>3, <1>5, <2>1, <2>5 DEF Effects, Lines
  <2>6. CASE inflight = "CMD24"
    BY <1>3, <1>5, <2>1, <2>6 DEF Effects, Lines
  <2> QED BY <1>2, <2>2, <2>3, <2>4, <2>5, <2>6, CommandFacts
<1>7. Owned'
  <2>1. CASE inflight = "CMD24"
    <3>1. line'.block = arg.block /\ line'.data = arg.data /\ arg \in {call', late'} \cap Requests /\ arg.op = "write"
      BY <1>1, <1>3, <2>1 DEF Effects, Owned
    <3>2. inflight' # "CMD24" /\ UNCHANGED <<call, late>>
      BY <1>1, <1>2, CommandFacts
    <3> QED BY <1>1, <3>1, <3>2 DEF Owned
  <2>2. CASE inflight # "CMD24"
    <3>1. line' = None \/ line'.kind = "read" \/ line'.block = None
      BY <1>2, <1>3, <2>2, CommandFacts DEF Effects
    <3>2. inflight' # "CMD24" /\ UNCHANGED <<call, late>>
      BY <1>1, <1>2, CommandFacts
    <3> QED BY <1>1, <3>1, <3>2 DEF Owned
  <2> QED BY <2>1, <2>2
<1> QED BY <1>5, <1>6, <1>7

LEMMA RespondInv ==
  ASSUME Unbuffered, Inv, Respond
  PROVE  Inv'
<1>1. TypeOK /\ Lines /\ Owned /\ UNCHANGED <<pc, call, at, cmd, result, seen, arg, buffer, flash, late>>
  BY DEF Inv, Respond, driver
<1>2. /\ inflight \in Commands /\ Legal(inflight) /\ line = None
      /\ int' = int \cup {"CC"} /\ inflight' = None /\ answered' = TRUE
  BY <1>1 DEF Respond, Lines
<1>3. Effects
  BY <1>2, EffectFacts DEF Respond
<1>4. /\ rsp'.err = FALSE
      /\ inflight = "CMD1" => rsp'.state = card'
      /\ inflight \in {"CMD13", "CMD16"} => rsp'.state = card
      /\ rsp'.state \in {card, card', "prg"}
  BY <1>2, <1>3, ShownFacts DEF Respond, Response
<1>5. /\ line' \in Transfers \cup {None} /\ card' \in CardStates
      /\ inflight \in {"CMD6", "CMD8", "CMD17", "CMD24"} => line' # None
      /\ Lines' /\ Owned'
  BY <1>1, <1>2, <1>3, Takes
<1>6. TypeOK'
  <2>1. pc' \in {"check", "busy", "cc", "cc_wait", "cc_done", "data", "data_wait",
             "data_done", "ok", "failed", "prepare", "idle", "dead"} /\ (pc' = "idle" <=> call' = None) /\ call' \in Requests \cup {Boot, None}
    BY <1>1 DEF TypeOK
  <2>2. rsp' \in [err : BOOLEAN, state : CardStates]
    BY <1>4, <1>5, <1>1 DEF CardStates, TypeOK, Respond, Response
  <2>4. answered' \in BOOLEAN
    BY <1>2
  <2> QED BY <1>1, <1>2, <1>4, <1>5, <2>1, <2>2, <2>4 DEF TypeOK
<1>7. CASE call = Boot
  <2>1. Booting
    BY <1>7 DEF Inv
  <2>2. inflight = cmd /\ pc \in {"cc", "cc_wait", "failed", "idle", "dead"}
    BY <1>1, <1>2, <2>1, CommandFacts DEF Booting, Settled, TypeOK
  <2>3. /\ cmd \in {"CMD0", "CMD1", "CMD2", "CMD3", "CMD7", "CMD16", "CMD6", "CMD13", "CMD8"}
        /\ arg = Boot
    BY <2>1, TakeFacts DEF Booting
  <2>4. pc \in {"cc", "cc_wait"} => Before(cmd)
    BY <1>2, <2>1, CommandFacts DEF Booting, Settled
  <2>5. pc \in {"cc", "cc_wait"} => Accepted(cmd)'
    BY <1>1, <1>2, <1>3, <1>4, <2>2, <2>3, <2>4 DEF Accepted, Before, Effects, Lines
  <2>6. line' # None =>
          /\ line'.block = None
          /\ \/ line'.kind = "read" /\ cmd = "CMD8"
             \/ line'.kind = "busy" /\ cmd = "CMD6"
    <3>1. arg.block = None
      BY <2>3, RequestFacts
    <3>2. CASE cmd \in {"CMD6", "CMD8"}
      <4>1. CASE cmd = "CMD6"
        BY <1>3, <2>2, <4>1 DEF Effects
      <4>2. CASE cmd = "CMD8"
        <5>1. line' = [kind |-> "read", block |-> arg.block, data |-> None]
          BY <1>3, <2>2, <4>2 DEF Effects
        <5> QED BY <3>1, <4>2, <5>1
      <4> QED BY <3>2, <4>1, <4>2
    <3>3. CASE cmd \notin {"CMD6", "CMD8"}
      BY <1>2, <1>3, <2>2, <2>3, <3>3 DEF Effects
    <3> QED BY <3>2, <3>3
  <2>7. Booting'
    BY <1>1, <1>2, <2>1, <2>2, <2>5, <2>6 DEF Booting, Settled, Answer
  <2> QED BY <1>1, <1>5, <1>6, <1>7, <2>7 DEF Inv
<1>8. CASE call # Boot
  <2>1. Serving
    BY <1>8 DEF Inv
  <2>2. /\ card' \in {"tran", "data", "rcv", "prg"}
        /\ inflight' \in {"CMD13", "CMD17", "CMD24", None, "stuck"}
    BY <1>2, <1>3, <2>1, CommandFacts DEF Serving, Effects
  <2>3. Serving'
    <3>1. CASE at = 0 /\ cmd = "CMD13" /\ Asking
      <4>1. inflight \in {"CMD13", "CMD17", "CMD24"}
        BY <1>2, <2>1, CommandFacts DEF Serving
      <4>2. pc \notin {"check", "busy"} => inflight = "CMD13"
        BY <3>1, <4>1, CommandFacts DEF Asking, NothingElse
      <4>3. inflight = "CMD13" => line' = None /\ TellsTran' /\ (TellsTran => TellsTran') /\ card' = card
        BY <1>2, <1>3, <1>4 DEF Effects, TellsTran
      <4>4. inflight # "CMD13" => line' # None
        BY <1>5, <4>1
      <4>5. Asking'
        BY <1>1, <1>2, <3>1, <4>2, <4>3, <4>4 DEF Asking, NothingElse
      <4> QED BY <1>1, <2>2, <3>1, <4>5 DEF Serving
    <3>2. CASE call # None /\ at = 0 /\ cmd = DataCommand /\ Transferring
      <4>1. call \in Requests /\ cmd = IF call.op = "read" THEN "CMD17" ELSE "CMD24"
        BY <1>1, <1>8, <3>2, RequestFacts DEF TypeOK, DataCommand
      <4>2. DataCommand' = DataCommand
        BY <1>1 DEF DataCommand
      <4>3. Transferring'
        <5>1. CASE pc \in {"check", "busy"}
          <6>1. inflight = "CMD13"
            BY <1>2, <3>2, <5>1, CommandFacts DEF Transferring, NothingElse
          <6>2. line' = None /\ card' = card
            BY <1>2, <1>3, <6>1 DEF Effects
          <6>3. NothingElse' /\ "TC" \notin int' /\ card' = "tran" /\ pc' = pc
            BY <1>1, <1>2, <3>2, <5>1, <6>2 DEF Transferring, NothingElse
          <6> QED BY <5>1, <6>3 DEF Transferring
        <5>2. CASE pc \notin {"check", "busy"}
          <6>1. inflight = cmd /\ arg = call /\ "TC" \notin int /\ pc # "ok"
            BY <1>2, <3>2, <5>2, CommandFacts DEF Transferring, Settled
          <6>2. OwnLine'
            BY <1>1, <1>3, <4>1, <6>1 DEF OwnLine, Effects
          <6>3. "TC" \notin int' /\ arg' = call' /\ inflight' = None /\ pc' = pc /\ seen' = seen
            BY <1>1, <1>2, <6>1
          <6>4. ~ (pc = "data_done" /\ seen \cap AnyError = {})
            BY <3>2, <6>1 DEF Transferring
          <6> QED BY <3>2, <5>2, <6>1, <6>2, <6>3, <6>4 DEF Transferring
        <5> QED BY <5>1, <5>2
      <4> QED BY <1>1, <2>2, <3>2, <4>2, <4>3 DEF Serving
    <3>3. CASE at = 1 /\ cmd = "CMD13" /\ call.op = "write" /\ Polling
      <4>1. Polling'
        BY <1>1, <1>2, <1>3, <3>3, CommandFacts DEF Polling, NothingElse, Finished, Effects
      <4> QED BY <1>1, <2>2, <3>3, <4>1 DEF Serving
    <3>4. CASE call = None \/ pc = "dead"
      BY <1>1, <2>2, <3>4 DEF Serving
    <3> QED BY <2>1, <3>1, <3>2, <3>3, <3>4 DEF Serving
  <2> QED BY <1>1, <1>5, <1>6, <1>8, <2>3 DEF Inv
<1> QED BY <1>7, <1>8

LEMMA RespondErrorInv ==
  ASSUME Unbuffered, Inv, RespondError
  PROVE  Inv'
<1>1. /\ TypeOK /\ Lines /\ Owned
      /\ UNCHANGED <<pc, call, at, cmd, result, seen, arg, line, buffer, card, flash, late>>
  BY DEF Inv, RespondError, driver
<1>2. /\ inflight \in R1 \ Adtc /\ inflight \in Commands /\ Legal(inflight) /\ line = None
      /\ int' = int \cup {"CC"} /\ inflight' = None /\ answered' = TRUE
      /\ rsp' = Response(TRUE, card)
  BY <1>1 DEF RespondError, Lines, Commands
<1>3. inflight' \notin Commands
  BY <1>2, CommandFacts
<1>4. TypeOK'
  <2>1. rsp' \in [err : BOOLEAN, state : CardStates]
    BY <1>1, <1>2 DEF TypeOK, Response
  <2>2. answered' \in BOOLEAN
    BY <1>2
  <2> QED BY <1>1, <1>2, <2>1, <2>2 DEF TypeOK
<1>5. Lines'
  BY <1>1, <1>3 DEF Lines
<1>6. Owned'
  BY <1>1, <1>2, CommandFacts DEF Owned
<1>7. CASE call = Boot
  <2>1. Booting
    BY <1>7 DEF Inv
  <2>2. inflight = cmd /\ pc \in {"cc", "cc_wait", "failed", "idle", "dead"}
    BY <1>1, <1>2, <2>1, CommandFacts DEF Booting, Settled, TypeOK
  <2>3. Answer' /\ Settled'
    BY <1>1, <1>2, <2>2 DEF Answer, Settled, Response
  <2>4. Booting'
    BY <1>1, <1>2, <2>1, <2>2, <2>3 DEF Booting
  <2> QED BY <1>1, <1>4, <1>5, <1>6, <1>7, <2>4 DEF Inv
<1>8. CASE call # Boot
  <2>1. Serving
    BY <1>8 DEF Inv
  <2>2. inflight = "CMD13"
    BY <1>2, <2>1, CommandFacts DEF Serving, Adtc
  <2>3. Serving'
    <3>1. CASE at = 0 /\ cmd = "CMD13" /\ Asking
      <4>1. TellsTran' /\ line' = None /\ NothingElse'
        BY <1>1, <1>2 DEF TellsTran, Response, NothingElse
      <4>2. Asking'
        BY <1>1, <3>1, <4>1 DEF Asking
      <4> QED BY <1>1, <1>2, <2>1, <3>1, <4>2 DEF Serving
    <3>2. CASE call # None /\ at = 0 /\ cmd = DataCommand /\ Transferring
      <4>1. cmd \in {"CMD17", "CMD24"} /\ DataCommand' = DataCommand
        BY <1>1, <1>8, <3>2, RequestFacts DEF TypeOK, DataCommand
      <4>2. pc \in {"check", "busy"}
        BY <2>2, <3>2, <4>1, CommandFacts DEF Transferring
      <4>3. NothingElse' /\ "TC" \notin int' /\ card' = "tran" /\ pc' = pc
        BY <1>1, <1>2, <3>2, <4>2 DEF Transferring, NothingElse
      <4>4. Transferring'
        BY <4>2, <4>3 DEF Transferring
      <4> QED BY <1>1, <1>2, <2>1, <3>2, <4>1, <4>4 DEF Serving
    <3>3. CASE at = 1 /\ cmd = "CMD13" /\ call.op = "write" /\ Polling
      <4>1. Polling'
        BY <1>1, <1>2, <3>3 DEF Polling, NothingElse, Finished
      <4> QED BY <1>1, <1>2, <2>1, <3>3, <4>1 DEF Serving
    <3>4. CASE call = None \/ pc = "dead"
      BY <1>1, <1>2, <2>1, <3>4 DEF Serving
    <3> QED BY <2>1, <3>1, <3>2, <3>3, <3>4 DEF Serving
  <2> QED BY <1>1, <1>4, <1>5, <1>6, <1>8, <2>3 DEF Inv
<1> QED BY <1>7, <1>8

LEMMA RespondDamagedInv ==
  ASSUME Unbuffered, Inv, RespondDamaged
  PROVE  Inv'
<1>1. /\ TypeOK /\ Lines /\ Owned
      /\ UNCHANGED <<pc, call, at, cmd, result, seen, arg, rsp, answered, buffer, flash, late>>
  BY DEF Inv, RespondDamaged, driver
<1>2. /\ inflight \in R1 \ Adtc /\ inflight \in Commands /\ Legal(inflight) /\ line = None
      /\ int' = int \cup {"CC", "CCE"} /\ inflight' = None
  BY <1>1 DEF RespondDamaged, Lines, Commands
<1>3. Effects
  BY <1>2, EffectFacts DEF RespondDamaged
<1>4. /\ line' \in Transfers \cup {None} /\ card' \in CardStates
      /\ Lines' /\ Owned'
  BY <1>1, <1>2, <1>3, Takes
<1>5. TypeOK'
  BY <1>1, <1>2, <1>4 DEF TypeOK, AnyError
<1>6. ~ Clean'
  BY <1>2 DEF Clean, AnyError
<1>7. CASE call = Boot
  <2>1. Booting
    BY <1>7 DEF Inv
  <2>2. inflight = cmd /\ pc \in {"cc", "cc_wait", "failed", "idle", "dead"}
    BY <1>1, <1>2, <2>1, CommandFacts DEF Booting, Settled, TypeOK
  <2>3. inflight \in {"CMD3", "CMD6", "CMD7", "CMD13", "CMD16"}
    BY <1>2, <2>1, <2>2, TakeFacts DEF Booting, R1, Adtc
  <2>4. line' # None => line'.block = None /\ line'.kind = "busy" /\ cmd = "CMD6"
    <3>1. CASE inflight = "CMD6"
      BY <1>3, <2>2, <3>1 DEF Effects
    <3>2. CASE inflight # "CMD6"
      BY <1>2, <1>3, <2>3, <3>2 DEF Effects
    <3> QED BY <3>1, <3>2
  <2>5. Settled'
    BY <1>2 DEF Settled
  <2>6. Booting'
    BY <1>1, <1>2, <1>6, <2>1, <2>2, <2>4, <2>5 DEF Booting
  <2> QED BY <1>1, <1>4, <1>5, <1>7, <2>6 DEF Inv
<1>8. CASE call # Boot
  <2>1. Serving
    BY <1>8 DEF Inv
  <2>2. inflight = "CMD13"
    BY <1>2, <2>1, CommandFacts DEF Serving, Adtc
  <2>3. card' = card /\ line' = None
    BY <1>2, <1>3, <2>2 DEF Effects
  <2>4. Serving'
    <3>1. CASE at = 0 /\ cmd = "CMD13" /\ Asking
      <4>1. NothingElse' /\ (TellsTran => TellsTran')
        BY <1>1, <1>2, <2>3 DEF TellsTran, NothingElse
      <4>2. Asking'
        BY <1>1, <1>6, <2>3, <3>1, <4>1 DEF Asking
      <4> QED BY <1>1, <1>2, <2>1, <2>3, <3>1, <4>2 DEF Serving
    <3>2. CASE call # None /\ at = 0 /\ cmd = DataCommand /\ Transferring
      <4>1. cmd \in {"CMD17", "CMD24"} /\ DataCommand' = DataCommand
        BY <1>1, <1>8, <3>2, RequestFacts DEF TypeOK, DataCommand
      <4>2. pc \in {"check", "busy"}
        BY <2>2, <3>2, <4>1, CommandFacts DEF Transferring
      <4>3. NothingElse' /\ "TC" \notin int' /\ card' = "tran" /\ pc' = pc
        BY <1>1, <1>2, <2>3, <3>2, <4>2 DEF Transferring, NothingElse
      <4>4. Transferring'
        BY <4>2, <4>3 DEF Transferring
      <4> QED BY <1>1, <1>2, <2>1, <2>3, <3>2, <4>1, <4>4 DEF Serving
    <3>3. CASE at = 1 /\ cmd = "CMD13" /\ call.op = "write" /\ Polling
      <4>1. Polling'
        BY <1>1, <1>2, <2>3, <3>3 DEF Polling, NothingElse, Finished
      <4> QED BY <1>1, <1>2, <2>1, <2>3, <3>3, <4>1 DEF Serving
    <3>4. CASE call = None \/ pc = "dead"
      BY <1>1, <1>2, <2>1, <2>3, <3>4 DEF Serving
    <3> QED BY <2>1, <3>1, <3>2, <3>3, <3>4 DEF Serving
  <2> QED BY <1>1, <1>4, <1>5, <1>8, <2>4 DEF Inv
<1> QED BY <1>7, <1>8

LEMMA NoResponseInv ==
  ASSUME Unbuffered, Inv, NoResponse
  PROVE  Inv'
<1>1. /\ TypeOK /\ Lines /\ Owned
      /\ UNCHANGED <<pc, call, at, cmd, result, seen, arg, line, rsp, answered, buffer, card,
                     flash, late>>
  BY DEF Inv, NoResponse, driver
<1>2. inflight \in Commands /\ line = None /\ int' = int \cup {"CTOE"} /\ inflight' = "stuck"
  BY <1>1 DEF NoResponse, Lines
<1>3. inflight' \notin Commands
  BY <1>2, CommandFacts
<1>4. TypeOK'
  BY <1>1, <1>2 DEF TypeOK, AnyError
<1>5. Lines' /\ Owned'
  BY <1>1, <1>2, <1>3 DEF Lines, Owned
<1>6. ~ Clean' /\ Settled'
  BY <1>2 DEF Clean, AnyError, Settled
<1>7. CASE call = Boot
  <2>1. Booting
    BY <1>7 DEF Inv
  <2>2. inflight = cmd /\ pc \in {"cc", "cc_wait", "failed", "idle", "dead"}
    BY <1>1, <1>2, <2>1, CommandFacts DEF Booting, Settled, TypeOK
  <2>3. Booting'
    BY <1>1, <1>2, <1>6, <2>1, <2>2 DEF Booting
  <2> QED BY <1>1, <1>4, <1>5, <1>7, <2>3 DEF Inv
<1>8. CASE call # Boot
  <2>1. Serving
    BY <1>8 DEF Inv
  <2>2. Serving'
    <3>1. CASE at = 0 /\ cmd = "CMD13" /\ Asking
      <4>1. NothingElse' /\ (TellsTran => TellsTran')
        BY <1>1, <1>2 DEF TellsTran, NothingElse
      <4>2. Asking'
        BY <1>1, <1>6, <3>1, <4>1 DEF Asking
      <4> QED BY <1>1, <1>2, <2>1, <3>1, <4>2 DEF Serving
    <3>2. CASE call # None /\ at = 0 /\ cmd = DataCommand /\ Transferring
      <4>1. DataCommand' = DataCommand
        BY <1>1 DEF DataCommand
      <4>2. Transferring'
        <5>1. CASE pc \in {"check", "busy"}
          <6>1. NothingElse' /\ "TC" \notin int' /\ card' = "tran" /\ pc' = pc
            BY <1>1, <1>2, <3>2, <5>1 DEF Transferring, NothingElse
          <6> QED BY <5>1, <6>1 DEF Transferring
        <5>2. CASE pc \notin {"check", "busy"}
          <6>1. "TC" \notin int /\ pc # "ok"
            BY <1>2, <3>2, <5>2, CommandFacts DEF Transferring, Settled
          <6>2. OwnLine' /\ "TC" \notin int'
            BY <1>1, <1>2, <6>1 DEF OwnLine
          <6>3. ~ (pc = "data_done" /\ seen \cap AnyError = {})
            BY <3>2, <6>1 DEF Transferring
          <6> QED BY <1>1, <1>2, <3>2, <5>2, <6>1, <6>2, <6>3 DEF Transferring
        <5> QED BY <5>1, <5>2
      <4> QED BY <1>1, <1>2, <2>1, <3>2, <4>1, <4>2 DEF Serving
    <3>3. CASE at = 1 /\ cmd = "CMD13" /\ call.op = "write" /\ Polling
      <4>1. Polling'
        BY <1>1, <1>2, <3>3 DEF Polling, NothingElse, Finished
      <4> QED BY <1>1, <1>2, <2>1, <3>3, <4>1 DEF Serving
    <3>4. CASE call = None \/ pc = "dead"
      BY <1>1, <1>2, <2>1, <3>4 DEF Serving
    <3> QED BY <2>1, <3>1, <3>2, <3>3, <3>4 DEF Serving
  <2> QED BY <1>1, <1>4, <1>5, <1>8, <2>2 DEF Inv
<1> QED BY <1>7, <1>8

LEMMA BlockReadInv ==
  ASSUME Inv, BlockRead
  PROVE  Inv'
<1>1. /\ TypeOK /\ Lines /\ Owned
      /\ UNCHANGED <<pc, call, at, cmd, result, seen, inflight, arg, rsp, answered, flash, late>>
  BY DEF Inv, BlockRead, driver
<1>2. /\ line # None /\ line.kind = "read" /\ line \in Transfers /\ card = "data"
      /\ line' = None /\ card' = "tran" /\ int' = int \cup {"TC", "DINT"}
      /\ inflight \notin Commands
      /\ buffer' = IF line.block = None THEN None ELSE flash[line.block]
  BY <1>1 DEF BlockRead, Lines, TypeOK
<1>3. TypeOK'
  <2>1. buffer' \in Values \cup {Torn, None}
    <3>1. CASE line.block = None
      BY <1>2, <3>1
    <3>2. CASE line.block # None
      <4>1. line.block \in Blocks
        BY <1>2, <3>2 DEF Transfers
      <4>2. flash[line.block] \in Values \cup {Torn}
        BY <1>1, <4>1 DEF TypeOK
      <4> QED BY <1>2, <3>2, <4>2
    <3> QED BY <3>1, <3>2
  <2>2. int' \subseteq AnyError \cup {"CC", "TC", "DINT"}
    BY <1>1, <1>2 DEF TypeOK
  <2>3. line' \in Transfers \cup {None} /\ card' \in CardStates
    BY <1>2 DEF CardStates
  <2> QED BY <1>1, <2>1, <2>2, <2>3 DEF TypeOK
<1>4. Lines' /\ Owned'
  BY <1>1, <1>2 DEF Lines, Owned
<1>5. Clean' <=> Clean
  BY <1>2 DEF Clean, AnyError
<1>6. inflight \in {None, "stuck"}
  BY <1>1, <1>2 DEF TypeOK
<1>7. CASE call = Boot
  <2>1. Booting
    BY <1>7 DEF Inv
  <2>2. pc # "dead" => cmd = "CMD8" /\ pc \notin {"check", "busy"}
    BY <1>2, <2>1 DEF Booting
  <2>3. cmd = "CMD8" => Accepted(cmd)'
    BY <1>1, <1>2 DEF Accepted
  <2>4. pc \in {"cc", "cc_wait", "cc_done"} => Answer'
    BY <1>1, <2>2, <2>3 DEF Answer
  <2>5. "CC" \in int' <=> "CC" \in int
    BY <1>2
  <2>6. Booting'
    <3>1. CASE pc = "dead"
      BY <1>1, <1>2, <1>6, <2>1, <3>1 DEF Booting
    <3>2. CASE pc # "dead"
      <4>1. cmd' = "CMD8" /\ line' = None /\ Settled' /\ Accepted(cmd)' /\ pc' # "dead"
        BY <1>1, <1>2, <1>6, <2>2, <2>3, <3>2 DEF Settled
      <4>2. pc' \notin {"check", "busy", "prepare"}
        BY <1>1, <1>2, <2>1, <2>2, <3>2 DEF Booting
      <4>3. pc' \in {"cc", "cc_wait"} =>
              \/ Settled' /\ ~ Clean'
              \/ Settled' /\ "CC" \in int' /\ Answer'
        <5>1. pc \in {"cc", "cc_wait"} => ~ Clean \/ "CC" \in int
          <6>1. inflight # cmd
            BY <1>6, <4>1, <1>1, CommandFacts
          <6> QED BY <2>1, <6>1 DEF Booting
        <5> QED BY <1>1, <1>5, <2>4, <2>5, <4>1, <5>1
      <4> QED BY <1>1, <2>1, <2>4, <4>1, <4>2, <4>3 DEF Booting
    <3> QED BY <3>1, <3>2
  <2> QED BY <1>1, <1>3, <1>4, <1>7, <2>6 DEF Inv
<1>8. CASE call # Boot
  <2>1. Serving
    BY <1>8 DEF Inv
  <2>2. Serving'
    <3>1. CASE at = 0 /\ cmd = "CMD13" /\ Asking
      <4>1. TellsTran'
        BY <1>2 DEF TellsTran
      <4>2. pc \in {"check", "busy"}
        BY <1>2, <3>1 DEF Asking, NothingElse
      <4>3. Asking'
        BY <1>1, <4>1, <4>2 DEF Asking
      <4> QED BY <1>1, <1>2, <2>1, <3>1, <4>3 DEF Serving
    <3>2. CASE call # None /\ at = 0 /\ cmd = DataCommand /\ Transferring
      <4>1. call \in Requests /\ call.block \in Blocks /\ call.block # None /\ DataCommand' = DataCommand
        BY <1>1, <1>8, <3>2, RequestFacts DEF TypeOK, DataCommand
      <4>2. pc \notin {"check", "busy"}
        BY <1>2, <3>2 DEF Transferring, NothingElse
      <4>3. call.op = "read" /\ line.block = call.block
        BY <1>2, <3>2, <4>2 DEF Transferring, OwnLine
      <4>4. Finished'
        BY <1>1, <1>2, <4>1, <4>3 DEF Finished
      <4>5. Settled' /\ OwnLine' /\ line' = None
        BY <1>1, <1>2, <1>6 DEF Settled, OwnLine
      <4>6. "TC" \in int'
        BY <1>2
      <4>7. Transferring'
        BY <1>1, <3>2, <4>2, <4>4, <4>5, <4>6 DEF Transferring
      <4> QED BY <1>1, <1>2, <2>1, <3>2, <4>1, <4>7 DEF Serving
    <3>3. CASE at = 1 /\ cmd = "CMD13" /\ call.op = "write" /\ Polling
      BY <1>2, <3>3 DEF Polling, NothingElse
    <3>4. CASE call = None \/ pc = "dead"
      BY <1>1, <1>2, <2>1, <3>4 DEF Serving
    <3> QED BY <2>1, <3>1, <3>2, <3>3, <3>4 DEF Serving
  <2> QED BY <1>1, <1>3, <1>4, <1>8, <2>2 DEF Inv
<1> QED BY <1>7, <1>8

LEMMA BlockSentInv ==
  ASSUME Inv, BlockSent
  PROVE  Inv'
<1>1. /\ TypeOK /\ Lines /\ Owned
      /\ UNCHANGED <<pc, call, at, cmd, result, seen, inflight, arg, rsp, answered, buffer,
                     flash, late>>
  BY DEF Inv, BlockSent, driver
<1>2. /\ line # None /\ line.kind = "write" /\ line \in Transfers
      /\ card' = "prg" /\ int' = int \cup {"DINT"} /\ inflight \notin Commands
  BY <1>1 DEF BlockSent, Lines, TypeOK
<1>3. line' \in Transfers /\ line' # None /\ line'.kind = "busy"
      /\ line'.block = line.block /\ line'.data = line.data
  <2>1. line' = [line EXCEPT !.kind = "busy"]
    BY DEF BlockSent
  <2>2. line' \in Transfers
    BY <1>2, <2>1 DEF Transfers
  <2> QED BY <1>2, <2>1, <2>2, SortsAssumption DEF Transfers
<1>4. TypeOK'
  <2>1. int' \subseteq AnyError \cup {"CC", "TC", "DINT"} /\ card' \in CardStates
    BY <1>1, <1>2 DEF TypeOK, CardStates
  <2> QED BY <1>1, <1>3, <2>1 DEF TypeOK
<1>5. Lines' /\ Owned'
  BY <1>1, <1>2, <1>3 DEF Lines, Owned
<1>6. "TC" \in int' <=> "TC" \in int
  BY <1>2
<1>7. CASE call = Boot
  <2>1. Booting
    BY <1>7 DEF Inv
  <2>2. pc = "dead" /\ line.block = None
    BY <1>2, <2>1 DEF Booting
  <2>3. Booting'
    BY <1>1, <1>2, <1>3, <2>1, <2>2 DEF Booting
  <2> QED BY <1>1, <1>4, <1>5, <1>7, <2>3 DEF Inv
<1>8. CASE call # Boot
  <2>1. Serving
    BY <1>8 DEF Inv
  <2>2. Serving'
    <3>1. CASE at = 0 /\ cmd = "CMD13" /\ Asking
      <4>1. pc \in {"check", "busy"}
        BY <1>2, <3>1 DEF Asking, NothingElse
      <4>2. Asking'
        BY <1>1, <1>3, <4>1 DEF Asking
      <4> QED BY <1>1, <1>2, <2>1, <3>1, <4>2 DEF Serving
    <3>2. CASE call # None /\ at = 0 /\ cmd = DataCommand /\ Transferring
      <4>1. DataCommand' = DataCommand
        BY <1>1 DEF DataCommand
      <4>2. pc \notin {"check", "busy"} /\ "TC" \notin int
        BY <1>2, <3>2 DEF Transferring, NothingElse
      <4>3. pc # "ok" /\ ~ (pc = "data_done" /\ seen \cap AnyError = {})
        BY <1>2, <3>2, <4>2 DEF Transferring
      <4>4. OwnLine'
        BY <1>1, <1>2, <1>3, <3>2, <4>2 DEF Transferring, OwnLine
      <4>5. Transferring'
        BY <1>1, <1>6, <3>2, <4>2, <4>3, <4>4 DEF Transferring
      <4> QED BY <1>1, <1>2, <2>1, <3>2, <4>1, <4>5 DEF Serving
    <3>3. CASE at = 1 /\ cmd = "CMD13" /\ call.op = "write" /\ Polling
      BY <1>2, <3>3 DEF Polling, NothingElse
    <3>4. CASE call = None \/ pc = "dead"
      BY <1>1, <1>2, <2>1, <3>4 DEF Serving
    <3> QED BY <2>1, <3>1, <3>2, <3>3, <3>4 DEF Serving
  <2> QED BY <1>1, <1>4, <1>5, <1>8, <2>2 DEF Inv
<1> QED BY <1>7, <1>8

LEMMA BusyEndsInv ==
  ASSUME Unbuffered, Inv, BusyEnds
  PROVE  Inv'
<1>1. /\ TypeOK /\ Lines /\ Owned
      /\ UNCHANGED <<pc, call, at, cmd, result, seen, inflight, arg, rsp, answered, buffer,
                     late>>
  BY DEF Inv, BusyEnds, driver
<1>2. /\ line # None /\ line.kind = "busy" /\ line \in Transfers
      /\ flash' = Programmed /\ line' = None
      /\ card' = "tran" /\ int' = int \cup {"TC"} /\ inflight \notin Commands
  BY <1>1 DEF BusyEnds, Lines, TypeOK, Unbuffered
<1>3. TypeOK'
  <2>1. int' \subseteq AnyError \cup {"CC", "TC", "DINT"} /\ card' \in CardStates
    BY <1>1, <1>2 DEF TypeOK, CardStates
  <2>2. flash' \in [Blocks -> Values \cup {Torn}]
    <3>1. CASE line.block = None
      BY <1>1, <1>2, <3>1 DEF Programmed, TypeOK
    <3>2. CASE line.block # None
      <4>1. line.block \in Blocks /\ line.data \in Values
        <5>1. PICK w \in {call, late} \cap Requests :
                w.op = "write" /\ w.block = line.block /\ w.data = line.data
          BY <1>1, <1>2, <3>2 DEF Owned
        <5> QED BY <5>1, RequestFacts
      <4>2. flash' = [flash EXCEPT ![line.block] = line.data]
        BY <1>2, <3>2 DEF Programmed
      <4> QED BY <1>1, <4>1, <4>2 DEF TypeOK
    <3> QED BY <3>1, <3>2
  <2> QED BY <1>1, <1>2, <2>1, <2>2 DEF TypeOK
<1>4. Lines' /\ Owned'
  BY <1>1, <1>2, CommandFacts DEF Lines, Owned
<1>5. Clean' <=> Clean
  BY <1>2 DEF Clean, AnyError
<1>6. inflight \in {None, "stuck"}
  BY <1>1, <1>2 DEF TypeOK
<1>7. CASE call = Boot
  <2>1. Booting
    BY <1>7 DEF Inv
  <2>2. pc # "dead" => (cmd = "CMD6" \/ (cmd = "CMD13" /\ pc \in {"check", "busy"}))
    BY <1>2, <2>1 DEF Booting
  <2>3. cmd = "CMD6" => Accepted(cmd)'
    BY <1>1, <1>2 DEF Accepted
  <2>4. cmd \in {"CMD6", "CMD13"} => Before(cmd)'
    BY <1>1, <1>2 DEF Before
  <2>5. Booting'
    BY <1>1, <1>2, <1>5, <1>6, <2>1, <2>2, <2>3, <2>4 DEF Booting, Settled, Answer
  <2> QED BY <1>1, <1>3, <1>4, <1>7, <2>5 DEF Inv
<1>8. CASE call # Boot
  <2>1. Serving
    BY <1>8 DEF Inv
  <2>2. Serving'
    <3>1. CASE at = 0 /\ cmd = "CMD13" /\ Asking
      <4>1. TellsTran'
        BY <1>2 DEF TellsTran
      <4>2. pc \in {"check", "busy"}
        BY <1>2, <3>1 DEF Asking, NothingElse
      <4>3. Asking'
        BY <1>1, <4>1, <4>2 DEF Asking
      <4> QED BY <1>1, <1>2, <2>1, <3>1, <4>3 DEF Serving
    <3>2. CASE call # None /\ at = 0 /\ cmd = DataCommand /\ Transferring
      <4>1. call \in Requests /\ call.block \in Blocks /\ call.block # None /\ DataCommand' = DataCommand
        BY <1>1, <1>8, <3>2, RequestFacts DEF TypeOK, DataCommand
      <4>2. pc \notin {"check", "busy"}
        BY <1>2, <3>2 DEF Transferring, NothingElse
      <4>3. call.op # "read" /\ line.block = call.block /\ line.data = call.data
        BY <1>2, <3>2, <4>2 DEF Transferring, OwnLine
      <4>4. Finished'
        BY <1>1, <1>2, <4>1, <4>3 DEF Finished, Programmed, TypeOK
      <4>5. Settled' /\ OwnLine' /\ line' = None
        BY <1>1, <1>2, <1>6 DEF Settled, OwnLine
      <4>6. "TC" \in int'
        BY <1>2
      <4>7. Transferring'
        BY <1>1, <3>2, <4>2, <4>4, <4>5, <4>6 DEF Transferring
      <4> QED BY <1>1, <1>2, <2>1, <3>2, <4>1, <4>7 DEF Serving
    <3>3. CASE at = 1 /\ cmd = "CMD13" /\ call.op = "write" /\ Polling
      BY <1>2, <3>3 DEF Polling, NothingElse
    <3>4. CASE call = None \/ pc = "dead"
      BY <1>1, <1>2, <2>1, <3>4 DEF Serving
    <3> QED BY <2>1, <3>1, <3>2, <3>3, <3>4 DEF Serving
  <2> QED BY <1>1, <1>3, <1>4, <1>8, <2>2 DEF Inv
<1> QED BY <1>7, <1>8

LEMMA DataFaultInv ==
  ASSUME Inv, DataFault
  PROVE  Inv'
<1>1. /\ TypeOK /\ Lines /\ Owned
      /\ UNCHANGED <<pc, call, at, cmd, result, seen, inflight, arg, rsp, answered, buffer,
                     flash, late>>
  BY DEF Inv, DataFault, driver
<1>2. /\ line # None /\ line.kind \in {"read", "write"} /\ line' = None
      /\ int' = int \cup {"DERR"} /\ inflight \notin Commands
      /\ card' \in {"tran", "data", "rcv"}
  BY <1>1 DEF DataFault, Lines
<1>3. TypeOK'
  BY <1>1, <1>2 DEF TypeOK, AnyError, CardStates
<1>4. Lines' /\ Owned'
  BY <1>1, <1>2, CommandFacts DEF Lines, Owned
<1>5. ~ Clean' /\ inflight \in {None, "stuck"}
  BY <1>1, <1>2 DEF Clean, AnyError, TypeOK
<1>6. CASE call = Boot
  <2>1. Booting
    BY <1>6 DEF Inv
  <2>2. pc # "dead" => cmd = "CMD8" /\ pc \notin {"check", "busy", "prepare"} /\ card = "data"
    BY <1>1, <1>2, <2>1 DEF Booting, Lines
  <2>3. cmd = "CMD8" /\ card = "data" => Accepted(cmd)'
    BY <1>1 DEF Accepted, DataFault
  <2>4. Booting'
    BY <1>1, <1>2, <1>5, <2>1, <2>2, <2>3 DEF Booting, Settled, Answer
  <2> QED BY <1>1, <1>3, <1>4, <1>6, <2>4 DEF Inv
<1>7. CASE call # Boot
  <2>1. Serving
    BY <1>7 DEF Inv
  <2>2. Serving'
    <3>1. CASE at = 0 /\ cmd = "CMD13" /\ Asking
      <4>1. pc \in {"check", "busy"}
        BY <1>2, <3>1 DEF Asking, NothingElse
      <4>2. Asking'
        BY <1>1, <1>5, <4>1 DEF Asking
      <4> QED BY <1>1, <1>2, <2>1, <3>1, <4>2 DEF Serving
    <3>2. CASE call # None /\ at = 0 /\ cmd = DataCommand /\ Transferring
      <4>1. DataCommand' = DataCommand
        BY <1>1 DEF DataCommand
      <4>2. pc \notin {"check", "busy"} /\ "TC" \notin int /\ "TC" \notin int'
        BY <1>2, <3>2 DEF Transferring, NothingElse
      <4>3. pc # "ok" /\ ~ (pc = "data_done" /\ seen \cap AnyError = {})
        BY <1>2, <3>2, <4>2 DEF Transferring
      <4>4. OwnLine'
        BY <1>2 DEF OwnLine
      <4>5. Transferring'
        BY <1>1, <3>2, <4>2, <4>3, <4>4 DEF Transferring
      <4> QED BY <1>1, <1>2, <2>1, <3>2, <4>1, <4>5 DEF Serving
    <3>3. CASE at = 1 /\ cmd = "CMD13" /\ call.op = "write" /\ Polling
      BY <1>2, <3>3 DEF Polling, NothingElse
    <3>4. CASE call = None \/ pc = "dead"
      BY <1>1, <1>2, <2>1, <3>4 DEF Serving
    <3> QED BY <2>1, <3>1, <3>2, <3>3, <3>4 DEF Serving
  <2> QED BY <1>1, <1>3, <1>4, <1>7, <2>2 DEF Inv
<1> QED BY <1>6, <1>7

-----------------------------------------------------------------------------
(* send_command. *)

LEMMA Kept ==
  ASSUME Lines, Owned, UNCHANGED <<call, inflight, arg, line, card, late>>
  PROVE  Lines' /\ Owned'
<1>1. UNCHANGED <<call, inflight, arg, line, card, late>>
  OBVIOUS
<1>2. Legal(inflight)' <=> Legal(inflight)
  BY <1>1 DEF Legal
<1> QED BY <1>1, <1>2 DEF Lines, Owned

LEMMA CallFacts ==
  ASSUME TypeOK, call # Boot, call # None
  PROVE  /\ call \in Requests /\ call.op \in {"read", "write"}
         /\ DataCommand = IF call.op = "read" THEN "CMD17" ELSE "CMD24"
  BY RequestFacts DEF TypeOK, DataCommand

LEMMA CheckInv ==
  ASSUME Inv, Check
  PROVE  Inv'
<1>1. /\ TypeOK /\ Lines /\ Owned /\ pc = "check"
      /\ UNCHANGED <<call, at, cmd, result, seen, inflight, arg, line, rsp, answered, buffer,
                     int, card, flash, late>>
      /\ pc' = IF "CC" \in int THEN "dead" ELSE "busy"
  BY DEF Inv, Check, GoTo, host
<1>2. TypeOK' /\ Lines' /\ Owned'
  BY <1>1, Kept DEF TypeOK
<1>3. CASE call = Boot
  <2>1. Booting
    BY <1>3 DEF Inv
  <2>2. (Before(cmd) <=> Before(cmd)') /\ (Clean <=> Clean') /\ (Settled <=> Settled')
    BY <1>1 DEF Before, Clean, Settled
  <2>3. Booting'
    BY <1>1, <2>1, <2>2 DEF Booting
  <2> QED BY <1>1, <1>2, <1>3, <2>3 DEF Inv
<1>4. CASE call # Boot
  <2>1. Serving
    BY <1>4 DEF Inv
  <2>2. CASE "CC" \in int
    <3>1. pc' = "dead"
      BY <1>1, <2>2
    <3>2. Serving'
      BY <1>1, <2>1, <3>1 DEF Serving
    <3> QED BY <1>1, <1>2, <1>4, <3>2 DEF Inv
  <2>3. CASE "CC" \notin int
    <3>1. pc' = "busy" /\ "CC" \notin int'
      BY <1>1, <2>3
    <3>2. DataCommand' = DataCommand /\ (NothingElse => NothingElse') /\ (Finished => Finished')
      BY <1>1 DEF DataCommand, NothingElse, Finished
    <3>3. Asking => Asking'
      BY <3>1 DEF Asking
    <3>4. Transferring => Transferring'
      BY <1>1, <3>1, <3>2 DEF Transferring
    <3>5. Polling => Polling'
      BY <1>1, <3>1, <3>2 DEF Polling
    <3>6. Serving'
      BY <1>1, <2>1, <3>2, <3>3, <3>4, <3>5 DEF Serving
    <3> QED BY <1>1, <1>2, <1>4, <3>6 DEF Inv
  <2> QED BY <2>2, <2>3
<1> QED BY <1>3, <1>4

LEMMA IssueInv ==
  ASSUME Inv, Issue
  PROVE  Inv'
<1>1. /\ TypeOK /\ Lines /\ Owned /\ pc = "busy"
      /\ UNCHANGED <<call, at, cmd, result, seen, line, rsp, buffer, int, card, flash, late>>
      /\ pc' = "cc" /\ inflight = None /\ inflight' = cmd /\ arg' = call /\ answered' = FALSE
  BY DEF Inv, Issue, GoTo
<1>2. call # None /\ line = None /\ cmd \in Commands
  BY <1>1 DEF Issue, LineInUse, TypeOK, Lines
<1>3. TypeOK'
  BY <1>1, <1>2 DEF TypeOK
<1>4. Legal(inflight)' => Lines'
  BY <1>1, <1>2 DEF Lines
<1>5. CASE call = Boot
  <2>1. Booting /\ Settled /\ Clean /\ Before(cmd) /\ "CC" \notin int
    BY <1>1, <1>5 DEF Inv, Booting
  <2>2. cmd \in {"CMD0", "CMD1", "CMD2", "CMD3", "CMD7", "CMD16", "CMD6", "CMD13", "CMD8"}
    BY <2>1, TakeFacts DEF Booting
  <2>3. Legal(inflight)'
    BY <1>1, <2>1, <2>2 DEF Before, Legal
  <2>4. Owned'
    BY <1>1, <1>2, <2>2 DEF Owned
  <2>5. (Before(cmd) <=> Before(cmd)') /\ (Clean <=> Clean')
    BY <1>1 DEF Before, Clean
  <2>6. Booting'
    BY <1>1, <1>2, <1>5, <2>1, <2>5 DEF Booting
  <2> QED BY <1>1, <1>3, <1>4, <1>5, <2>3, <2>4, <2>6 DEF Inv
<1>6. CASE call # Boot
  <2>1. /\ Serving /\ call \in Requests /\ call.op \in {"read", "write"}
        /\ DataCommand = IF call.op = "read" THEN "CMD17" ELSE "CMD24"
    BY <1>1, <1>2, <1>6, CallFacts DEF Inv
  <2>2. cmd \in {"CMD13", "CMD17", "CMD24"}
    BY <1>1, <1>2, <2>1 DEF Serving
  <2>3. Legal(inflight)'
    <3>1. cmd # "CMD13" => card = "tran"
      BY <1>1, <1>2, <2>1 DEF Serving, Transferring
    <3> QED BY <1>1, <2>1, <2>2, <3>1 DEF Legal, Serving
  <2>4. Owned'
    <3>1. cmd = "CMD24" => call.op = "write"
      BY <1>1, <1>2, <2>1 DEF Serving
    <3> QED BY <1>1, <1>2, <2>1, <3>1 DEF Owned
  <2>5. Serving'
    <3>1. DataCommand' = DataCommand /\ (Finished => Finished') /\ (cmd = "CMD13" => NothingElse')
      BY <1>1, <1>2 DEF DataCommand, Finished, NothingElse
    <3>2. (TellsTran => TellsTran') /\ (Clean' => Clean)
      BY <1>1 DEF TellsTran, Clean
    <3>3. cmd = "CMD13" /\ Asking => Asking'
      BY <1>1, <3>1, <3>2 DEF Asking
    <3>4. Transferring => Transferring'
      <4>1. OwnLine' /\ pc' \notin {"check", "busy", "prepare", "ok", "data_done"}
        BY <1>1, <1>2 DEF OwnLine
      <4> QED BY <1>1, <1>2, <4>1 DEF Transferring
    <3>5. cmd = "CMD13" /\ Polling => Polling'
      BY <1>1, <3>1 DEF Polling
    <3> QED BY <1>1, <2>1, <2>2, <3>1, <3>3, <3>4, <3>5 DEF Serving
  <2> QED BY <1>1, <1>3, <1>4, <1>6, <2>3, <2>4, <2>5 DEF Inv
<1> QED BY <1>5, <1>6

LEMMA PollCommandInv ==
  ASSUME Inv, PollCommand
  PROVE  Inv'
<1>1. /\ TypeOK /\ Lines /\ Owned /\ pc \in {"cc", "cc_wait"}
      /\ UNCHANGED <<call, at, cmd, result, inflight, arg, line, rsp, answered, buffer,
                     int, card, flash, late>>
      /\ seen' = int
      /\ pc' = IF int \cap (AnyError \cup {"CC"}) # {} THEN "cc_done" ELSE "cc_wait"
  BY DEF Inv, PollCommand, GoTo, host
<1>2. TypeOK' /\ Lines' /\ Owned'
  BY <1>1, Kept DEF TypeOK
<1>3. /\ pc' = "cc_done" => ~ Clean \/ "CC" \in int
      /\ seen' \cap AnyError = {} <=> Clean
      /\ pc' \in {"cc_done", "cc_wait"}
  BY <1>1 DEF Clean
<1>4. CASE call = Boot
  <2>1. Booting
    BY <1>4 DEF Inv
  <2>2. /\ (Before(cmd) <=> Before(cmd)') /\ (Clean <=> Clean') /\ (Settled <=> Settled')
        /\ Answer <=> Answer'
    BY <1>1 DEF Before, Clean, Settled, Answer, Accepted
  <2>3. Booting'
    BY <1>1, <1>3, <2>1, <2>2 DEF Booting
  <2> QED BY <1>1, <1>2, <1>4, <2>3 DEF Inv
<1>5. CASE call # Boot
  <2>1. Serving
    BY <1>5 DEF Inv
  <2>2. /\ DataCommand' = DataCommand /\ (NothingElse => NothingElse') /\ (Finished <=> Finished')
        /\ (TellsTran <=> TellsTran') /\ (Clean <=> Clean') /\ (OwnLine <=> OwnLine')
        /\ (Settled <=> Settled')
    BY <1>1 DEF DataCommand, NothingElse, Finished, TellsTran, Clean, OwnLine, Settled
  <2>3. Asking => Asking'
    <3>1. Asking /\ "CC" \in int /\ Clean => TellsTran
      BY <1>1 DEF Asking, NothingElse
    <3> QED BY <1>1, <1>3, <2>2, <3>1 DEF Asking
  <2>4. Transferring => Transferring'
    BY <1>1, <1>3, <2>2 DEF Transferring
  <2>5. Polling => Polling'
    BY <1>3, <2>2 DEF Polling
  <2>6. Serving'
    BY <1>1, <2>1, <2>2, <2>3, <2>4, <2>5 DEF Serving
  <2> QED BY <1>1, <1>2, <1>5, <2>6 DEF Inv
<1> QED BY <1>4, <1>5

LEMMA GiveUpInv ==
  ASSUME Inv, CommandTimeout \/ DataTimeout
  PROVE  Inv'
<1>1. /\ TypeOK /\ Lines /\ Owned /\ pc \in {"cc_wait", "data_wait"} /\ pc' = "failed"
      /\ UNCHANGED <<call, at, cmd, result, seen, inflight, arg, line, rsp, answered, buffer,
                     int, card, flash, late>>
  BY DEF Inv, CommandTimeout, DataTimeout, GoTo, host
<1>2. TypeOK' /\ Lines' /\ Owned'
  BY <1>1, Kept DEF TypeOK
<1>3. CASE call = Boot
  <2>1. Booting
    BY <1>3 DEF Inv
  <2>2. Booting'
    BY <1>1, <2>1 DEF Booting
  <2> QED BY <1>1, <1>2, <1>3, <2>2 DEF Inv
<1>4. CASE call # Boot
  <2>1. Serving
    BY <1>4 DEF Inv
  <2>2. /\ DataCommand' = DataCommand /\ (NothingElse => NothingElse') /\ (Finished <=> Finished')
        /\ (OwnLine <=> OwnLine') /\ (Settled <=> Settled')
    BY <1>1 DEF DataCommand, NothingElse, Finished, OwnLine, Settled
  <2>3. Asking => Asking'
    BY <1>1, <2>2 DEF Asking
  <2>4. Transferring => Transferring'
    BY <1>1, <2>2 DEF Transferring
  <2>5. Polling => Polling'
    BY <1>1, <2>2 DEF Polling
  <2>6. Serving'
    BY <1>1, <2>1, <2>2, <2>3, <2>4, <2>5 DEF Serving
  <2> QED BY <1>1, <1>2, <1>4, <2>6 DEF Inv
<1> QED BY <1>3, <1>4

LEMMA CommandDoneInv ==
  ASSUME Inv, CommandDone
  PROVE  Inv'
<1>1. /\ TypeOK /\ Lines /\ Owned /\ pc = "cc_done"
      /\ UNCHANGED <<call, at, cmd, result, seen, inflight, arg, line, rsp, answered, buffer,
                     card, flash, late>>
  BY DEF Inv, CommandDone, GoTo
<1>2. /\ int' \subseteq int
      /\ \/ pc' = "failed"
         \/ /\ seen \cap AnyError = {} /\ int' = int \ {"CC"}
            /\ ~ (cmd \in R1 /\ rsp.err)
            /\ pc' = IF data_present(cmd) THEN "data" ELSE "ok"
  <2>1. CASE "CTOE" \in seen
    BY <2>1 DEF CommandDone, GoTo
  <2>2. CASE "CTOE" \notin seen /\ seen \cap AnyError # {}
    BY <2>2 DEF CommandDone, GoTo
  <2>3. CASE "CTOE" \notin seen /\ seen \cap AnyError = {}
    BY <2>3 DEF CommandDone, GoTo
  <2> QED BY <2>1, <2>2, <2>3
<1>3. TypeOK' /\ Lines' /\ Owned'
  <2>1. pc' \in {"failed", "data", "ok"}
    BY <1>2
  <2> QED BY <1>1, <1>2, <2>1, Kept DEF TypeOK
<1>4. int' = int \ {"CC"} /\ Clean => Clean'
  BY DEF Clean
<1>5. CASE call = Boot
  <2>1. Booting
    BY <1>5 DEF Inv
  <2>2. CASE pc' = "failed"
    <3>1. Booting'
      BY <1>1, <2>1, <2>2 DEF Booting
    <3> QED BY <1>1, <1>3, <1>5, <3>1 DEF Inv
  <2>3. CASE pc' # "failed"
    <3>1. /\ Settled /\ Accepted(cmd) /\ (cmd = "CMD8" \/ Clean')
          /\ pc' = IF data_present(cmd) THEN "data" ELSE "ok"
      BY <1>1, <1>2, <1>4, <2>1, <2>3 DEF Booting, Answer
    <3>2. pc' = "data" => cmd = "CMD8"
      BY <2>1, <3>1, TakeFacts DEF Booting, data_present, Adtc
    <3>3. Settled' /\ Accepted(cmd)' /\ pc' \in {"data", "ok"}
      BY <1>1, <3>1 DEF Settled, Accepted
    <3>4. Booting'
      BY <1>1, <2>1, <3>1, <3>2, <3>3 DEF Booting
    <3> QED BY <1>1, <1>3, <1>5, <3>4 DEF Inv
  <2> QED BY <2>2, <2>3
<1>6. CASE call # Boot
  <2>1. Serving
    BY <1>6 DEF Inv
  <2>2. /\ DataCommand' = DataCommand /\ (NothingElse => NothingElse') /\ (Finished <=> Finished')
        /\ (OwnLine <=> OwnLine') /\ (Settled <=> Settled') /\ (TellsTran <=> TellsTran')
    BY <1>1 DEF DataCommand, NothingElse, Finished, OwnLine, Settled, TellsTran
  <2>3. /\ cmd = "CMD13" => pc' \in {"failed", "ok"}
        /\ cmd \in {"CMD17", "CMD24"} => pc' \in {"failed", "data"}
    BY <1>2 DEF data_present, Adtc
  <2>4. cmd = "CMD13" /\ Asking => Asking'
    BY <1>1, <1>2, <2>2, <2>3 DEF Asking
  <2>5. cmd \in {"CMD17", "CMD24"} /\ Transferring => Transferring'
    BY <1>1, <1>2, <2>2, <2>3 DEF Transferring
  <2>6. cmd = "CMD13" /\ Polling => Polling'
    BY <1>2, <2>2, <2>3 DEF Polling
  <2>7. call # None /\ cmd = DataCommand => cmd \in {"CMD17", "CMD24"}
    BY <1>1, <1>6, CallFacts
  <2>8. Serving'
    BY <1>1, <2>1, <2>2, <2>4, <2>5, <2>6, <2>7 DEF Serving
  <2> QED BY <1>1, <1>3, <1>6, <2>8 DEF Inv
<1> QED BY <1>5, <1>6

LEMMA PollDataInv ==
  ASSUME Inv, PollData
  PROVE  Inv'
<1>1. /\ TypeOK /\ Lines /\ Owned /\ pc \in {"data", "data_wait"}
      /\ UNCHANGED <<call, at, cmd, result, inflight, arg, line, rsp, answered, buffer,
                     int, card, flash, late>>
      /\ seen' = int
      /\ pc' = IF int \cap AnyError # {} \/ TransferDone \subseteq int
                 THEN "data_done" ELSE "data_wait"
  BY DEF Inv, PollData, GoTo, host
<1>2. TypeOK' /\ Lines' /\ Owned'
  BY <1>1, Kept DEF TypeOK
<1>3. pc' = "data_done" /\ seen' \cap AnyError = {} => "TC" \in int'
  BY <1>1 DEF TransferDone
<1>4. CASE call = Boot
  <2>1. Booting
    BY <1>4 DEF Inv
  <2>2. (Settled <=> Settled') /\ (Accepted(cmd) <=> Accepted(cmd)')
    BY <1>1 DEF Settled, Accepted
  <2>3. Booting'
    BY <1>1, <2>1, <2>2 DEF Booting
  <2> QED BY <1>1, <1>2, <1>4, <2>3 DEF Inv
<1>5. CASE call # Boot
  <2>1. Serving
    BY <1>5 DEF Inv
  <2>2. /\ DataCommand' = DataCommand /\ (Finished <=> Finished')
        /\ (OwnLine <=> OwnLine') /\ (Settled <=> Settled')
    BY <1>1 DEF DataCommand, Finished, OwnLine, Settled
  <2>3. Transferring => Transferring'
    BY <1>1, <1>3, <2>2 DEF Transferring
  <2>4. Serving'
    BY <1>1, <2>1, <2>2, <2>3 DEF Serving, Asking, Polling
  <2> QED BY <1>1, <1>2, <1>5, <2>4 DEF Inv
<1> QED BY <1>4, <1>5

LEMMA DataDoneInv ==
  ASSUME Inv, DataDone
  PROVE  Inv'
<1>1. /\ TypeOK /\ Lines /\ Owned /\ pc = "data_done"
      /\ UNCHANGED <<call, at, cmd, result, seen, inflight, arg, line, rsp, answered, buffer,
                     card, flash, late>>
  BY DEF Inv, DataDone, GoTo
<1>2. /\ int' \subseteq int
      /\ pc' = "failed" \/ (pc' = "ok" /\ seen \cap AnyError = {})
  <2>1. CASE "CTOE" \in seen
    BY <2>1 DEF DataDone, GoTo
  <2>2. CASE "CTOE" \notin seen /\ seen \cap AnyError # {}
    BY <2>2 DEF DataDone, GoTo
  <2>3. CASE "CTOE" \notin seen /\ seen \cap AnyError = {}
    BY <2>3 DEF DataDone, GoTo
  <2> QED BY <2>1, <2>2, <2>3
<1>3. TypeOK' /\ Lines' /\ Owned'
  BY <1>1, <1>2, Kept DEF TypeOK
<1>4. CASE call = Boot
  <2>1. Booting
    BY <1>4 DEF Inv
  <2>2. (Settled <=> Settled') /\ (Accepted(cmd) <=> Accepted(cmd)')
    BY <1>1 DEF Settled, Accepted
  <2>3. Booting'
    BY <1>1, <1>2, <2>1, <2>2 DEF Booting
  <2> QED BY <1>1, <1>3, <1>4, <2>3 DEF Inv
<1>5. CASE call # Boot
  <2>1. Serving
    BY <1>5 DEF Inv
  <2>2. /\ DataCommand' = DataCommand /\ (Finished <=> Finished')
        /\ (OwnLine <=> OwnLine') /\ (Settled <=> Settled')
    BY <1>1 DEF DataCommand, Finished, OwnLine, Settled
  <2>3. Transferring => Transferring'
    BY <1>1, <1>2, <2>2 DEF Transferring
  <2>4. Serving'
    BY <1>1, <2>1, <2>2, <2>3 DEF Serving, Asking, Polling
  <2> QED BY <1>1, <1>3, <1>5, <2>4 DEF Inv
<1> QED BY <1>4, <1>5

-----------------------------------------------------------------------------
(* take, read and write. *)

(* The end of a call that leaves no write of its own behind.               *)
LEMMA ReturnInv ==
  ASSUME TypeOK, Lines, NEW v \in Values \cup {Torn, None, "done", "error"}, Return(v),
         card \in {"tran", "data", "rcv", "prg"},
         inflight \in {"CMD13", "CMD17", "CMD24", None, "stuck"},
         late' \in Requests \cup {None}, Owned'
  PROVE  Inv'
<1>1. /\ TypeOK /\ Lines /\ pc' = "idle" /\ call' = None /\ result' = v /\ at' = 0
      /\ UNCHANGED <<cmd, seen, inflight, arg, line, rsp, answered, buffer, int, card, flash>>
  BY DEF Return, host
<1>2. TypeOK'
  BY <1>1, TakeFacts DEF TypeOK
<1>3. Lines'
  <2>1. Legal(inflight)' <=> Legal(inflight)
    BY <1>1 DEF Legal
  <2> QED BY <1>1, <2>1 DEF Lines
<1>4. Serving' /\ call' # Boot
  BY <1>1, RequestFacts DEF Serving
<1> QED BY <1>2, <1>3, <1>4 DEF Inv

LEMMA SendFacts ==
  ASSUME TypeOK, Lines, Owned, pc # "idle", NEW c \in Commands, NEW n \in 0 .. 9, Send(c, n)
  PROVE  /\ TypeOK' /\ Lines' /\ Owned' /\ pc' = "check" /\ cmd' = c /\ at' = n
         /\ UNCHANGED <<call, result, seen, inflight, arg, line, rsp, answered, buffer, int,
                        card, flash, late>>
<1>1. /\ TypeOK /\ Lines /\ Owned /\ pc # "idle" /\ pc' = "check" /\ cmd' = c /\ at' = n
      /\ UNCHANGED <<call, result, seen, inflight, arg, line, rsp, answered, buffer, int,
                     card, flash, late>>
  BY DEF Send, host
<1> QED BY <1>1, Kept, TakeFacts DEF TypeOK

(* A panic: nothing of what the driver had to keep matters any more.       *)
LEMMA FatalInv ==
  ASSUME Inv, pc # "idle", pc' = "dead",
         UNCHANGED <<call, at, cmd, result, seen, host, card, flash, late>>
  PROVE  Inv'
<1>1. /\ TypeOK /\ Lines /\ Owned /\ pc # "idle" /\ pc' = "dead"
      /\ UNCHANGED <<call, at, cmd, result, seen, inflight, arg, line, rsp, answered, buffer,
                     int, card, flash, late>>
  BY DEF Inv, host
<1>2. TypeOK' /\ Lines' /\ Owned'
  BY <1>1, Kept DEF TypeOK
<1>3. CASE call = Boot
  <2>1. Booting
    BY <1>3 DEF Inv
  <2>2. Booting'
    BY <1>1, <2>1 DEF Booting
  <2> QED BY <1>1, <1>2, <1>3, <2>2 DEF Inv
<1>4. CASE call # Boot
  <2>1. Serving
    BY <1>4 DEF Inv
  <2>2. Serving'
    BY <1>1, <2>1 DEF Serving
  <2> QED BY <1>1, <1>2, <1>4, <2>2 DEF Inv
<1> QED BY <1>3, <1>4

LEMMA TakeNextInv ==
  ASSUME Inv, TakeNext
  PROVE  Inv'
<1>1. TypeOK /\ Lines /\ Owned /\ pc = "ok" /\ call = Boot
  BY RequestFacts DEF Inv, TakeNext, TypeOK
<1>2. /\ Booting /\ at \in 1 .. 9 /\ cmd = take[at] /\ Settled /\ Accepted(cmd)
      /\ arg = Boot /\ late = None /\ result = None
      /\ cmd = "CMD8" \/ Clean
  BY <1>1, TakeFacts DEF Inv, Booting
<1>3. line # None =>
        /\ line.block = None
        /\ \/ line.kind = "read" /\ cmd = "CMD8"
           \/ line.kind = "busy" /\ cmd = "CMD6"
  BY <1>1, <1>2 DEF Booting
<1>4. ASSUME NEW c \in Commands, NEW n \in 1 .. 9, c = take[n], Send(c, n), Clean, Before(c),
             line # None => line.kind = "busy" /\ (c = "CMD6" \/ c = "CMD13")
      PROVE  Inv'
  <2>1. /\ TypeOK' /\ Lines' /\ Owned' /\ pc' = "check" /\ cmd' = c /\ at' = n
        /\ UNCHANGED <<call, result, seen, inflight, arg, line, rsp, answered, buffer, int,
                       card, flash, late>>
    BY <1>1, <1>4, SendFacts
  <2>2. Settled' /\ Clean' /\ Before(c)'
    BY <1>2, <1>4, <2>1 DEF Settled, Clean, Before
  <2>3. Booting'
    BY <1>2, <1>3, <1>4, <2>1, <2>2, TakeFacts DEF Booting, Settled
  <2> QED BY <1>1, <2>1, <2>3 DEF Inv
<1>5. CASE NotPoweredUp /\ Send("CMD1", at)
  <2>1. cmd = "CMD1" /\ card = "idle"
    BY <1>2, <1>5 DEF NotPoweredUp, Accepted
  <2> QED BY <1>2, <1>3, <1>4, <1>5, <2>1 DEF Before, Commands
<1>6. CASE cmd = "CMD13" /\ InTransferState /\ GoTo("prepare") /\ UNCHANGED <<seen, host, card, flash, late>>
  <2>1. /\ pc' = "prepare" /\ line = None
        /\ UNCHANGED <<call, at, cmd, result, seen, inflight, arg, line, rsp, answered, buffer,
                       int, card, flash, late>>
    BY <1>3, <1>6 DEF GoTo, host
  <2>2. TypeOK' /\ Lines' /\ Owned'
    BY <1>1, <2>1, Kept DEF TypeOK
  <2>3. Settled' /\ Clean' /\ card' = "tran"
    BY <1>2, <1>6, <2>1 DEF Settled, Clean, Accepted
  <2>4. Booting'
    BY <1>2, <1>6, <2>1, <2>3 DEF Booting
  <2> QED BY <1>1, <2>1, <2>2, <2>4 DEF Inv
<1>7. CASE GoTo("dead") /\ UNCHANGED <<seen, host, card, flash, late>>
  BY <1>1, <1>7, FatalInv DEF GoTo
<1>8. CASE cmd # "CMD13" /\ ~ NotPoweredUp /\ at < Len(take) /\ Send(take[at + 1], at + 1)
  <2>1. at \in 1 .. 8 /\ at + 1 \in 1 .. 9 /\ at # 8 /\ cmd # "CMD8"
    BY <1>2, <1>8, TakeFacts
  <2>2. Before(take[at + 1]) /\ take[at + 1] \in Commands
    BY <1>2, <1>8, <2>1, TakeFacts DEF Before, Accepted, NotPoweredUp, Commands, R1
  <2>3. line # None => line.kind = "busy" /\ take[at + 1] = "CMD13"
    BY <1>2, <1>3, <2>1, TakeFacts
  <2> QED BY <1>2, <1>4, <1>8, <2>1, <2>2, <2>3
<1>9. CASE at = Len(take) /\ Return(None)
  <2>1. cmd = "CMD8" /\ card \in {"tran", "data"}
    BY <1>2, <1>9, TakeFacts DEF Accepted
  <2>2. late' = None /\ call' = None /\ UNCHANGED <<line, inflight, arg>>
    BY <1>9, SortsAssumption DEF Return, host
  <2>3. Owned'
    BY <1>2, <1>3, <2>2, CommandFacts DEF Owned, Settled
  <2> QED BY <1>1, <1>2, <1>9, <2>1, <2>2, <2>3, ReturnInv DEF Settled
<1> QED BY <1>5, <1>6, <1>7, <1>8, <1>9 DEF TakeNext

LEMMA StopInv ==
  ASSUME Inv, PowerUpTimeout \/ TakeFails \/ ProgramTimeout
  PROVE  Inv'
BY FatalInv DEF PowerUpTimeout, TakeFails, ProgramTimeout, Fatal

LEMMA StartInv ==
  ASSUME Inv, NEW r \in Requests, Start(r)
  PROVE  Inv'
<1>1. /\ TypeOK /\ Lines /\ Owned /\ pc = "idle" /\ call = None
      /\ pc' = "check" /\ call' = r /\ cmd' = "CMD13" /\ result' = None /\ at' = 0 /\ buffer' = None
      /\ UNCHANGED <<seen, int, inflight, arg, line, rsp, answered, card, flash, late>>
  BY DEF Inv, Start, TypeOK
<1>2. Serving /\ r # Boot
  BY <1>1, RequestFacts DEF Inv
<1>3. TypeOK'
  <2>1. 0 \in 0 .. Len(take) /\ "CMD13" \in Commands
    BY TakeFacts DEF Commands, R1
  <2>2. call' \in Requests \cup {Boot, None} /\ (pc' = "idle" <=> call' = None)
    BY <1>1, RequestFacts
  <2>3. /\ pc' = "check" /\ at' \in 0 .. Len(take) /\ cmd' \in Commands
        /\ result' \in Values \cup {Torn, None, "done", "error"}
        /\ buffer' \in Values \cup {Torn, None}
    BY <1>1, <2>1
  <2>4. UNCHANGED <<seen, int, inflight, arg, line, rsp, answered, card, flash, late>>
    BY <1>1
  <2> QED BY <1>1, <2>2, <2>3, <2>4 DEF TypeOK
<1>4. Lines'
  <2>1. Legal(inflight)' <=> Legal(inflight)
    BY <1>1 DEF Legal
  <2> QED BY <1>1, <2>1 DEF Lines
<1>5. Owned'
  <2>1. None \notin Requests
    BY RequestFacts
  <2>2. \A w : w \in {call, late} \cap Requests => w \in {call', late'} \cap Requests
    BY <1>1, <2>1
  <2> QED BY <1>1, <2>2 DEF Owned
<1>6. Serving'
  <2>1. Asking'
    BY <1>1 DEF Asking
  <2> QED BY <1>1, <1>2, <2>1 DEF Serving
<1> QED BY <1>1, <1>2, <1>3, <1>4, <1>5, <1>6 DEF Inv

(* Nothing of a call that has nothing under way is left when it returns.   *)
LEMMA QuietReturn ==
  ASSUME Owned, call' = None, UNCHANGED <<line, inflight, arg>>, late' \in {late, None},
         line = None, inflight # "CMD24"
  PROVE  Owned'
BY DEF Owned

LEMMA StatusKnownInv ==
  ASSUME Inv, StatusKnown
  PROVE  Inv'
<1>1. TypeOK /\ Lines /\ Owned /\ pc = "ok" /\ call # Boot /\ call # None /\ cmd = "CMD13" /\ at = 0
  BY RequestFacts DEF Inv, StatusKnown, TypeOK
<1>2. Serving /\ Asking /\ NothingElse /\ TellsTran
  BY <1>1, CallFacts DEF Inv, Serving, Asking
<1>3. CASE InTransferState /\ GoTo("prepare") /\ UNCHANGED <<seen, host, card, flash, late>>
  <2>1. /\ pc' = "prepare" /\ card = "tran"
        /\ UNCHANGED <<call, at, cmd, result, seen, inflight, arg, line, rsp, answered, buffer,
                       int, card, flash, late>>
    BY <1>2, <1>3 DEF GoTo, host, InTransferState, TellsTran
  <2>2. TypeOK' /\ Lines' /\ Owned'
    BY <1>1, <2>1, Kept DEF TypeOK
  <2>3. NothingElse' /\ card' = "tran"
    BY <1>2, <2>1 DEF NothingElse
  <2>4. Serving'
    BY <1>1, <1>2, <2>1, <2>3 DEF Serving, Asking
  <2> QED BY <1>1, <2>1, <2>2, <2>4 DEF Inv
<1>4. CASE Return("error")
  <2>1. Return("error")
    BY <1>4
  <2>2. call' = None /\ late' = late /\ UNCHANGED <<line, inflight, arg>>
    BY <1>2, <2>1, CommandFacts DEF Return, host, NothingElse
  <2>3. Owned'
    BY <1>1, <1>2, <2>2, QuietReturn, CommandFacts DEF NothingElse
  <2> QED BY <1>1, <1>2, <2>1, <2>2, <2>3, ReturnInv DEF Serving, TypeOK
<1> QED BY <1>3, <1>4 DEF StatusKnown

LEMMA PrepareInv ==
  ASSUME Inv, Prepare
  PROVE  Inv'
<1>1. /\ TypeOK /\ Lines /\ Owned /\ pc = "prepare" /\ pc' = "check" /\ call # None
      /\ cmd' = DataCommand /\ at' = (IF call.op = "take" THEN Len(take) ELSE 0)
      /\ int' = int \ {"TC"}
      /\ UNCHANGED <<call, result, seen, inflight, arg, line, rsp, answered, buffer, card, flash, late>>
  BY DEF Inv, Prepare, TypeOK
<1>2. TypeOK' /\ Lines' /\ Owned'
  <2>1. cmd' \in Commands /\ at' \in 0 .. Len(take)
    BY <1>1, TakeFacts DEF DataCommand, Commands, R1
  <2> QED BY <1>1, <2>1, Kept DEF TypeOK
<1>3. CASE call = Boot
  <2>1. Booting /\ Settled /\ Clean /\ card = "tran" /\ line = None
    BY <1>1, <1>3 DEF Inv, Booting
  <2>2. at' = 9 /\ cmd' = "CMD8"
    BY <1>1, <1>3, RequestFacts, TakeFacts DEF DataCommand
  <2>3. Settled' /\ Clean' /\ Before("CMD8")'
    BY <1>1, <2>1 DEF Settled, Clean, Before
  <2>4. Booting'
    BY <1>1, <2>1, <2>2, <2>3, TakeFacts DEF Booting, Settled
  <2> QED BY <1>1, <1>2, <1>3, <2>4 DEF Inv
<1>4. CASE call # Boot
  <2>1. Serving /\ NothingElse /\ card = "tran"
    BY <1>1, <1>4 DEF Inv, Serving, Asking, Transferring, Polling
  <2>2. at' = 0 /\ DataCommand' = DataCommand
    BY <1>1, <1>4, CallFacts DEF DataCommand
  <2>3. NothingElse' /\ "TC" \notin int' /\ card' = "tran"
    BY <1>1, <2>1 DEF NothingElse
  <2>4. Transferring'
    BY <1>1, <2>3 DEF Transferring
  <2>5. Serving'
    BY <1>1, <2>1, <2>2, <2>4 DEF Serving
  <2> QED BY <1>1, <1>2, <1>4, <2>5 DEF Inv
<1> QED BY <1>3, <1>4

LEMMA ReadDoneInv ==
  ASSUME Inv, ReadDone
  PROVE  Inv'
<1>1. /\ TypeOK /\ Lines /\ Owned /\ pc = "ok" /\ cmd = "CMD17" /\ Return(buffer) /\ call # None
      /\ buffer \in Values \cup {Torn, None}
  BY DEF Inv, ReadDone, TypeOK
<1>2. call # Boot
  BY <1>1, TakeFacts DEF Inv, Booting
<1>3. Serving /\ Transferring
  BY <1>1, <1>2 DEF Inv, Serving
<1>4. line = None /\ Settled
  BY <1>1, <1>3 DEF Transferring
<1>5. call' = None /\ late' = None /\ UNCHANGED <<line, inflight, arg>>
  BY <1>1, SortsAssumption DEF Return, host
<1>6. Owned'
  BY <1>1, <1>4, <1>5, QuietReturn, CommandFacts DEF Settled
<1> QED BY <1>1, <1>3, <1>5, <1>6, ReturnInv DEF Serving

LEMMA WriteDoneInv ==
  ASSUME Inv, WriteDone
  PROVE  Inv'
<1>1. /\ TypeOK /\ Lines /\ Owned /\ pc = "ok" /\ call.op = "write" /\ (cmd = "CMD24" \/ at = 1)
      /\ call # None /\ call # Boot
  BY RequestFacts DEF Inv, WriteDone, TypeOK
<1>2. Serving /\ line = None /\ inflight \in {"CMD13", None, "stuck"} /\ Finished
  BY <1>1 DEF Inv, Serving, Transferring, Polling, NothingElse, Settled
<1>3. CASE MustPoll
  <2>1. Send("CMD13", 1)
    BY <1>3 DEF WriteDone
  <2>2. /\ TypeOK' /\ Lines' /\ Owned' /\ pc' = "check" /\ cmd' = "CMD13" /\ at' = 1
        /\ UNCHANGED <<call, result, seen, inflight, arg, line, rsp, answered, buffer, int,
                       card, flash, late>>
    BY <1>1, <2>1, SendFacts DEF Commands, R1
  <2>3. Polling'
    BY <1>2, <2>2 DEF Polling, NothingElse, Finished
  <2>4. Serving'
    BY <1>1, <1>2, <2>2, <2>3 DEF Serving
  <2> QED BY <1>1, <2>2, <2>4 DEF Inv
<1>4. CASE ~ MustPoll
  <2>1. Return("done")
    BY <1>4 DEF WriteDone
  <2>2. call' = None /\ late' = None /\ UNCHANGED <<line, inflight, arg>>
    BY <2>1 DEF Return, host
  <2>3. Owned'
    BY <1>1, <1>2, <2>2, QuietReturn, CommandFacts
  <2> QED BY <1>1, <1>2, <2>1, <2>2, <2>3, ReturnInv DEF Serving
<1> QED BY <1>3, <1>4

LEMMA CallFailsInv ==
  ASSUME Inv, CallFails
  PROVE  Inv'
<1>1. /\ TypeOK /\ Lines /\ Owned /\ pc = "failed" /\ Return("error")
      /\ call \in Requests /\ call # Boot /\ call # None
  BY RequestFacts DEF Inv, CallFails, TypeOK
<1>2. /\ call' = None /\ UNCHANGED <<line, inflight, arg>>
      /\ late' = IF call.op = "write" /\ (line # None \/ inflight = "CMD24") THEN call ELSE late
  BY <1>1 DEF Return, host
<1>3. Serving /\ (NothingElse \/ (Transferring /\ cmd = DataCommand))
  BY <1>1 DEF Inv, Serving, Asking, Polling
<1>4. Owned'
  <2>1. CASE NothingElse
    BY <1>1, <1>2, <2>1, QuietReturn, CommandFacts DEF NothingElse
  <2>2. CASE Transferring /\ cmd = DataCommand
    <3>1. arg = call /\ OwnLine /\ inflight \in {cmd, None, "stuck"}
      BY <1>1, <2>2 DEF Transferring
    <3>2. CASE call.op = "read"
      <4>1. late' = late /\ cmd = "CMD17" /\ (line # None => line.kind = "read")
        BY <1>1, <1>2, <2>2, <3>1, <3>2, CallFacts DEF OwnLine
      <4>2. inflight # "CMD24"
        BY <3>1, <4>1, CommandFacts
      <4> QED BY <1>1, <1>2, <4>1, <4>2 DEF Owned
    <3>3. CASE call.op = "write"
      <4>1. CASE line # None \/ inflight = "CMD24"
        <5>1. late' = call
          BY <1>2, <3>3, <4>1
        <5>2. line # None => line.block = call.block /\ line.data = call.data
          BY <3>1, <3>3 DEF OwnLine
        <5> QED BY <1>1, <1>2, <3>1, <3>3, <5>1, <5>2 DEF Owned
      <4>2. CASE line = None /\ inflight # "CMD24"
        BY <1>1, <1>2, <4>2, QuietReturn
      <4> QED BY <4>1, <4>2
    <3> QED BY <1>1, <3>2, <3>3, RequestFacts
  <2> QED BY <1>3, <2>1, <2>2
<1>5. late' \in Requests \cup {None}
  BY <1>1, <1>2 DEF TypeOK
<1> QED BY <1>1, <1>3, <1>4, <1>5, ReturnInv DEF Serving

(* Power on, the first time and again. *)
LEMMA Fresh ==
  ASSUME pc = "check", call = Boot, at = 1, cmd = take[1], result = None, seen = {},
         buffer = None, int = {}, inflight = None, arg = Boot, line = None,
         rsp = Response(FALSE, "idle"), answered = FALSE, card = "tran", late = None,
         flash \in [Blocks -> Values \cup {Torn}]
  PROVE  Inv
<1>1. Response(FALSE, "idle") \in [err : BOOLEAN, state : CardStates]
  BY DEF Response, CardStates
<1>2. TypeOK
  <2>1. 1 \in 0 .. Len(take) /\ take[1] \in Commands /\ Boot # None
    BY TakeFacts, RequestFacts DEF Commands
  <2> QED BY <1>1, <2>1 DEF TypeOK, CardStates
<1>3. Lines /\ Owned
  BY CommandFacts DEF Lines, Owned
<1>4. Before(cmd) /\ Settled /\ Clean
  BY TakeFacts DEF Before, Settled, Clean
<1>5. Booting
  BY <1>4, TakeFacts DEF Booting
<1> QED BY <1>2, <1>3, <1>5 DEF Inv

LEMMA InitInv == Init => Inv
<1>1. Init => flash \in [Blocks -> Values \cup {Torn}]
  BY DEF Init
<1> QED BY <1>1, Fresh DEF Init

LEMMA RestartInv ==
  ASSUME Inv, Restart
  PROVE  Inv'
<1>1. flash' \in [Blocks -> Values \cup {Torn}]
  BY DEF Inv, TypeOK, Restart
<1>2. /\ pc' = "check" /\ call' = Boot /\ at' = 1 /\ cmd' = take[1] /\ result' = None
      /\ seen' = {} /\ buffer' = None /\ int' = {} /\ inflight' = None /\ arg' = Boot
      /\ line' = None /\ rsp' = Response(FALSE, "idle") /\ answered' = FALSE /\ card' = "tran"
      /\ late' = None
  BY DEF Restart
<1> HIDE DEF Inv
<1>3. Response(FALSE, "idle") \in [err : BOOLEAN, state : CardStates]
  BY DEF Response, CardStates
<1>4. TypeOK'
  <2>1. 1 \in 0 .. Len(take) /\ take[1] \in Commands /\ Boot # None
    BY TakeFacts, RequestFacts DEF Commands
  <2> QED BY <1>1, <1>2, <1>3, <2>1 DEF TypeOK, CardStates
<1>5. Lines' /\ Owned'
  BY <1>2, CommandFacts DEF Lines, Owned
<1>6. Before(cmd)' /\ Settled' /\ Clean'
  BY <1>2, TakeFacts DEF Before, Settled, Clean
<1>7. Booting'
  BY <1>2, <1>6, TakeFacts DEF Booting
<1> QED BY <1>2, <1>4, <1>5, <1>7 DEF Inv

-----------------------------------------------------------------------------
(* The invariant. *)

LEMMA StutterInv ==
  ASSUME Inv, UNCHANGED vars
  PROVE  Inv'
<1>1. UNCHANGED <<pc, call, at, cmd, result, seen, int, inflight, arg, line, rsp, answered,
                  buffer, card, flash, late>>
  BY DEF vars, driver, host
<1>2. TypeOK' /\ Lines' /\ Owned'
  BY <1>1, Kept DEF Inv, TypeOK
<1>3. /\ (Settled <=> Settled') /\ (Clean <=> Clean') /\ (Before(cmd) <=> Before(cmd)')
      /\ (Accepted(cmd) <=> Accepted(cmd)') /\ (Answer <=> Answer')
  BY <1>1 DEF Settled, Clean, Before, Accepted, Answer
<1>4. /\ (NothingElse <=> NothingElse') /\ (Finished <=> Finished') /\ (OwnLine <=> OwnLine')
      /\ (TellsTran <=> TellsTran') /\ DataCommand' = DataCommand
  BY <1>1 DEF NothingElse, Finished, OwnLine, TellsTran, DataCommand
<1>5. Booting => Booting'
  BY <1>1, <1>3 DEF Booting
<1>6. (Asking => Asking') /\ (Polling => Polling')
  BY <1>1, <1>3, <1>4 DEF Asking, Polling
<1>7. Transferring => Transferring'
  BY <1>1, <1>3, <1>4 DEF Transferring
<1>8. Serving => Serving'
  BY <1>1, <1>4, <1>6, <1>7 DEF Serving
<1> QED BY <1>1, <1>2, <1>5, <1>8 DEF Inv

LEMMA StepInv ==
  ASSUME Unbuffered, Inv, [Next]_vars
  PROVE  Inv'
<1>1. CASE CommandLine
  BY <1>1, RespondInv, RespondErrorInv, RespondDamagedInv, NoResponseInv DEF CommandLine
<1>2. CASE DataLines
  <2>1. ~ CardDone
    BY DEF CardDone, Inv, Lines
  <2> QED BY <1>2, <2>1, BlockReadInv, BlockSentInv, BusyEndsInv, DataFaultInv DEF DataLines
<1>3. CASE Software
  <2>1. CASE Check \/ Issue \/ PollCommand \/ CommandTimeout \/ CommandDone
    BY <2>1, CheckInv, IssueInv, PollCommandInv, GiveUpInv, CommandDoneInv
  <2>2. CASE PollData \/ DataTimeout \/ DataDone
    BY <2>2, PollDataInv, GiveUpInv, DataDoneInv
  <2>3. CASE TakeNext \/ PowerUpTimeout \/ TakeFails \/ ProgramTimeout
    BY <2>3, TakeNextInv, StopInv
  <2>4. CASE StatusKnown \/ Prepare \/ ReadDone \/ WriteDone \/ CallFails
    BY <2>4, StatusKnownInv, PrepareInv, ReadDoneInv, WriteDoneInv, CallFailsInv
  <2> QED BY <1>3, <2>1, <2>2, <2>3, <2>4 DEF Software
<1>4. ASSUME NEW r \in Requests, Start(r)
      PROVE  Inv'
  BY <1>4, StartInv
<1>5. CASE Restart
  BY <1>5, RestartInv
<1>6. CASE UNCHANGED vars
  BY <1>6, StutterInv
<1> QED BY <1>1, <1>2, <1>3, <1>4, <1>5, <1>6 DEF Next, Powered

(* Unless the card lets go of the data lines before it has programmed, the *)
(* driver always knows what is on the CMD and the data lines.              *)
THEOREM Invariance == Unbuffered => (Spec => []Inv)
<1> SUFFICES ASSUME Unbuffered PROVE Spec => []Inv
  OBVIOUS
<1>1. Inv /\ [Next]_vars => Inv'
  BY StepInv
<1> QED BY InitInv, <1>1, PTL DEF Spec

(* send_command, as take, read_single_block and write_single_block use it, *)
(* never sends a command that the card does not accept, after whatever     *)
(* failure of an earlier one.                                              *)
THEOREM CommandsLegal == Unbuffered => (Spec => []LegalCommands)
<1> SUFFICES ASSUME Unbuffered PROVE Spec => []LegalCommands
  OBVIOUS
<1>1. Inv => LegalCommands
  BY DEF Inv, Lines, LegalCommands
<1> QED BY Invariance, <1>1, PTL

-----------------------------------------------------------------------------
(* The block store. *)

request == IF call # None /\ call.op # "take" THEN call ELSE None

LEMMA StoreRequest == \A r \in Requests : r \in Store!Requests
  BY DEF Requests, Request, Store!Requests

LEMMA RequestOf ==
  ASSUME TypeOK
  PROVE  /\ call \in Requests => request = call
         /\ call \notin Requests => request = None
  BY RequestFacts DEF TypeOK, request

LEMMA StoreStutters ==
  ASSUME UNCHANGED <<flash, call, late, result>>
  PROVE  UNCHANGED Store!vars
  BY DEF Store!vars

LEMMA StoreEffect ==
  ASSUME Inv, line # None, line.kind = "busy", flash' = Programmed,
         UNCHANGED <<call, late, result>>
  PROVE  [Store!Next]_(Store!vars)
<1>1. CASE line.block = None
  BY <1>1, StoreStutters DEF Programmed
<1>2. CASE line.block # None
  <2>1. PICK w \in {call, late} \cap Requests :
          w.op = "write" /\ w.block = line.block /\ w.data = line.data
    BY <1>2 DEF Inv, Owned
  <2>2. w \in {request, late} \ {None}
    BY <2>1, RequestOf, RequestFacts DEF Inv
  <2>3. flash' = [flash EXCEPT ![w.block] = w.data]
    BY <1>2, <2>1 DEF Programmed
  <2>4. Store!Effect
    BY <2>1, <2>2, <2>3 DEF Store!Effect, request
  <2> QED BY <2>4 DEF Store!Next
<1> QED BY <1>1, <1>2

LEMMA StoreCall ==
  ASSUME Inv, NEW r \in Requests, Start(r)
  PROVE  Store!Next
<1>1. call = None /\ call' = r /\ result' = None /\ UNCHANGED <<flash, late>>
  BY DEF Inv, TypeOK, Start
<1>2. request = None /\ request' = r
  BY <1>1, RequestFacts DEF request
<1>3. Store!Call(r)
  BY <1>1, <1>2 DEF Store!Call, request
<1> QED BY <1>3, StoreRequest DEF Store!Next

LEMMA StoreFail ==
  ASSUME Inv, call \in Requests, Return("error")
  PROVE  Store!Next
<1>1. /\ call' = None /\ result' = "error" /\ UNCHANGED flash
      /\ (late' = call /\ call.op = "write") \/ late' = late
  BY DEF Return
<1>2. request = call /\ call # None /\ request' = None
  BY <1>1, RequestOf, RequestFacts DEF Inv, request
<1>3. Store!Fail
  BY <1>1, <1>2 DEF Store!Fail, request
<1> QED BY <1>3 DEF Store!Next

LEMMA StoreSucceed ==
  ASSUME Inv, call \in Requests, Finished, NEW v, v # "error", Return(v),
         v = IF call.op = "read" THEN buffer ELSE "done"
  PROVE  Store!Next
<1>1. call' = None /\ result' = v /\ UNCHANGED flash /\ late' = None
  BY DEF Return
<1>2. request = call /\ call # None /\ request' = None
  BY <1>1, RequestOf, RequestFacts DEF Inv, request
<1>3. Store!Succeed
  BY <1>1, <1>2 DEF Store!Succeed, request, Finished
<1> QED BY <1>3 DEF Store!Next

LEMMA StorePowerCut ==
  ASSUME Inv, Restart
  PROVE  Store!Next
<1>1. call' = Boot /\ late' = None /\ result' = None
  BY DEF Restart
<1>2. request' = None
  BY <1>1, RequestFacts DEF request
<1>3. \/ flash' = flash
      \/ /\ line # None /\ line.kind # "read" /\ line.block # None
         /\ flash' = [flash EXCEPT ![line.block] = Torn]
  BY DEF Restart
<1>4. CASE flash' = flash
  BY <1>1, <1>2, <1>4 DEF Store!Next, Store!PowerCut, request
<1>5. CASE /\ line # None /\ line.kind # "read" /\ line.block # None
           /\ flash' = [flash EXCEPT ![line.block] = Torn]
  <2>1. PICK w \in {call, late} \cap Requests : w.op = "write" /\ w.block = line.block
    BY <1>5 DEF Inv, Owned
  <2>2. w \in {request, late} \ {None}
    BY <2>1, RequestOf, RequestFacts DEF Inv
  <2>3. Store!PowerCut
    BY <1>1, <1>2, <1>5, <2>1, <2>2 DEF Store!PowerCut, request
  <2> QED BY <2>3 DEF Store!Next
<1> QED BY <1>3, <1>4, <1>5

LEMMA StoreStep ==
  ASSUME Unbuffered, Inv, [Next]_vars
  PROVE  [Store!Next]_(Store!vars)
<1>1. CASE CommandLine
  <2>1. UNCHANGED <<flash, call, late, result>>
    BY <1>1 DEF CommandLine, Respond, RespondError, RespondDamaged, NoResponse, driver
  <2> QED BY <2>1, StoreStutters
<1>2. CASE DataLines
  <2>1. CASE BlockRead \/ BlockSent \/ DataFault
    <3>1. UNCHANGED <<flash, call, late, result>>
      BY <2>1 DEF BlockRead, BlockSent, DataFault, driver
    <3> QED BY <3>1, StoreStutters
  <2>2. CASE BusyEnds
    <3>1. /\ line # None /\ line.kind = "busy" /\ flash' = Programmed
          /\ UNCHANGED <<call, late, result>>
      BY <2>2 DEF BusyEnds, Unbuffered, driver
    <3> QED BY <3>1, StoreEffect
  <2>3. CASE CardDone
    BY <2>3 DEF CardDone, Inv, Lines
  <2> QED BY <1>2, <2>1, <2>2, <2>3 DEF DataLines
<1>3. CASE Software
  <2>1. CASE Check \/ Issue \/ PollCommand \/ CommandTimeout \/ CommandDone
    <3>1. UNCHANGED <<flash, call, late, result>>
      BY <2>1 DEF Check, Issue, PollCommand, CommandTimeout, CommandDone, GoTo
    <3> QED BY <3>1, StoreStutters
  <2>2. CASE PollData \/ DataTimeout \/ DataDone \/ Prepare
    <3>1. UNCHANGED <<flash, call, late, result>>
      BY <2>2 DEF PollData, DataTimeout, DataDone, Prepare, GoTo
    <3> QED BY <3>1, StoreStutters
  <2>3. CASE PowerUpTimeout \/ TakeFails \/ ProgramTimeout
    <3>1. UNCHANGED <<flash, call, late, result>>
      BY <2>3 DEF PowerUpTimeout, TakeFails, ProgramTimeout, Fatal
    <3> QED BY <3>1, StoreStutters
  <2>4. CASE TakeNext
    <3>1. call = Boot /\ late = None /\ result = None
      BY <2>4, RequestFacts DEF TakeNext, Inv, TypeOK, Booting
    <3>2. CASE UNCHANGED <<flash, call, late, result>>
      BY <3>2, StoreStutters
    <3>3. CASE Return(None)
      <4>1. call' = None /\ late' = None /\ result' = None /\ UNCHANGED flash
        BY <3>3, SortsAssumption DEF Return
      <4>2. request = None /\ request' = None
        BY <3>1, <4>1, RequestFacts DEF request
      <4> QED BY <3>1, <4>1, <4>2 DEF Store!vars, request
    <3> QED BY <2>4, <3>2, <3>3 DEF TakeNext, Send, GoTo
  <2>5. CASE StatusKnown
    <3>1. call \in Requests
      BY <2>5, RequestFacts DEF StatusKnown, Inv, TypeOK
    <3>2. CASE Return("error")
      BY <3>1, <3>2, StoreFail
    <3>3. CASE UNCHANGED <<flash, call, late, result>>
      BY <3>3, StoreStutters
    <3> QED BY <2>5, <3>2, <3>3 DEF StatusKnown, GoTo
  <2>6. CASE ReadDone
    <3>1. pc = "ok" /\ cmd = "CMD17" /\ call # None /\ Return(buffer) /\ buffer # "error"
      BY <2>6, SortsAssumption DEF ReadDone, Inv, TypeOK
    <3>2. call # Boot
      BY <3>1, TakeFacts DEF Inv, Booting
    <3>3. /\ call \in Requests /\ call.op = "read" /\ Finished
      BY <3>1, <3>2, CallFacts DEF Inv, Serving, Transferring
    <3> QED BY <3>1, <3>3, StoreSucceed
  <2>7. CASE WriteDone
    <3>1. pc = "ok" /\ call.op = "write" /\ (cmd = "CMD24" \/ at = 1) /\ call \in Requests /\ call # Boot /\ call # None
      BY <2>7, RequestFacts DEF WriteDone, Inv, TypeOK
    <3>2. Finished
      BY <3>1 DEF Inv, Serving, Transferring, Polling
    <3>3. CASE Send("CMD13", 1)
      BY <3>3, StoreStutters DEF Send
    <3>4. CASE Return("done")
      BY <3>1, <3>2, <3>4, StoreSucceed
    <3> QED BY <2>7, <3>3, <3>4 DEF WriteDone
  <2>8. CASE CallFails
    <3>1. call \in Requests /\ Return("error")
      BY <2>8, RequestFacts DEF CallFails, Inv, TypeOK
    <3> QED BY <3>1, StoreFail
  <2> QED BY <1>3, <2>1, <2>2, <2>3, <2>4, <2>5, <2>6, <2>7, <2>8 DEF Software
<1>4. ASSUME NEW r \in Requests, Start(r)
      PROVE  [Store!Next]_(Store!vars)
  BY <1>4, StoreCall
<1>5. CASE Restart
  BY <1>5, StorePowerCut
<1>6. CASE UNCHANGED vars
  BY <1>6, StoreStutters DEF vars, driver
<1> QED BY <1>1, <1>2, <1>3, <1>4, <1>5, <1>6 DEF Next, Powered

(* The driver implements the block store: its reads return what the block  *)
(* holds, a write that returned Ok is on the card, and one that failed     *)
(* never takes effect behind a later success.                              *)
THEOREM StoreImplemented == Unbuffered => (Spec => ImplementsBlockStore)
<1> SUFFICES ASSUME Unbuffered PROVE Spec => ImplementsBlockStore
  OBVIOUS
<1>1. Init => Store!Init
  BY RequestFacts DEF Init, Store!Init
<1>2. Inv /\ [Next]_vars => [Store!Next]_(Store!vars)
  BY StoreStep
<1> QED BY Invariance, <1>1, <1>2, PTL DEF Spec, Store!Spec, ImplementsBlockStore

-----------------------------------------------------------------------------
(* Whose response it is.  Here the card may let go of the data lines before *)
(* it has programmed.                                                      *)

NoLateFault == ~ ({"slow", "data"} \subseteq Faults)

(* A block is being moved: the one time a data error can come.             *)
Moving == line # None /\ line.kind \in {"read", "write"}

(* After a failure: no command goes out any more, because the inhibit bit  *)
(* stays set or because of the assertion on INT_STATUS.CC.                 *)
Doomed == inflight = "stuck" \/ "CC" \in int

(* Nothing is left that could be taken for the end of the next command.    *)
Quiet == "DERR" \notin int /\ (Moving => "data" \notin Faults)

Whole == line # None => line = [kind |-> line.kind, block |-> line.block, data |-> line.data]

Bits ==
  /\ call \in Requests \cup {Boot, None} /\ (pc = "idle" <=> call = None)
  /\ cmd \in Commands
  /\ inflight \in Commands \cup {None, "stuck"}
  /\ Whole
  /\ "CTOE" \in int => inflight = "stuck"
  /\ "CCE" \in int => "CC" \in int
  /\ "data" \notin Faults => "DERR" \notin int

Sequence == call = Boot => at \in 1 .. Len(take) /\ cmd = take[at]

(* The command on the CMD line is the last one issued, and found the       *)
(* status bits clear.                                                      *)
Out ==
  inflight \in Commands =>
    /\ pc \in {"cc", "cc_wait"} /\ inflight = cmd
    /\ "DERR" \notin int /\ "CC" \notin int /\ ~ LineInUse
    /\ data_present(cmd) => "TC" \notin int

Own == answered /\ (data_present(cmd) => ~ rsp.err)

Waiting ==
  /\ pc \in {"cc", "cc_wait"} =>
       /\ inflight = None => "CC" \in int /\ (Own \/ ("CCE" \in int /\ ~ data_present(cmd)))
       /\ inflight = "stuck" => "CTOE" \in int
  /\ pc = "cc_done" =>
       /\ seen \subseteq int
       /\ IF seen \cap AnyError = {}
            THEN inflight = None /\ Own /\ "CCE" \notin int
            ELSE Doomed
  /\ pc \in {"cc", "cc_wait", "cc_done"} =>
       IF data_present(cmd) THEN Moving => "TC" \notin int /\ "DERR" \notin int
                            ELSE "DERR" \notin int /\ ~ Moving

Data ==
  /\ pc \in {"check", "busy"} /\ data_present(cmd) => "TC" \notin int /\ ~ LineInUse
  /\ pc \in {"data", "data_wait", "data_done"} =>
       /\ inflight = None /\ "CC" \notin int
       /\ Moving => "TC" \notin int /\ "DERR" \notin int
  /\ pc = "data_done" =>
       /\ seen \subseteq int
       /\ IF seen \cap AnyError = {} THEN "TC" \in int /\ "DERR" \notin int ELSE "DERR" \in seen

Between ==
  /\ pc \in {"check", "busy", "ok", "failed", "prepare", "idle"} => Doomed \/ Quiet
  /\ pc = "busy" => "CC" \notin int

ResponseInv == Bits /\ Sequence /\ Out /\ Waiting /\ Data /\ Between

(* A step of the driver that leaves INT_STATUS and both lines alone.       *)
LEMMA Unmoved ==
  ASSUME UNCHANGED <<inflight, int, line, answered, rsp>>
  PROVE  /\ (Moving <=> Moving') /\ (Doomed <=> Doomed') /\ (Quiet <=> Quiet')
         /\ (LineInUse <=> LineInUse')
         /\ cmd' = cmd => (Own <=> Own')
BY DEF Moving, Doomed, Quiet, LineInUse, Own

LEMMA WholeLine ==
  ASSUME Whole, line' = line \/ line' = LineOf(inflight)
  PROVE  Whole'
<1>1. CASE line' = line
  BY <1>1 DEF Whole
<1>2. CASE line' = LineOf(inflight)
  <2>1. CASE inflight \in {"CMD8", "CMD17"}
    BY <1>2, <2>1 DEF Whole, LineOf
  <2>2. CASE inflight = "CMD24"
    BY <1>2, <2>2 DEF Whole, LineOf
  <2>3. CASE inflight = "CMD6"
    BY <1>2, <2>3 DEF Whole, LineOf
  <2>4. CASE inflight \notin {"CMD8", "CMD17", "CMD24", "CMD6"}
    BY <1>2, <2>4 DEF Whole, LineOf
  <2> QED BY <2>1, <2>2, <2>3, <2>4
<1> QED BY <1>1, <1>2

LEMMA ResponseRespond ==
  ASSUME ResponseInv, Respond
  PROVE  ResponseInv'
<1>1. /\ UNCHANGED <<pc, call, at, cmd, result, seen>> /\ inflight \in Commands
      /\ int' = int \cup {"CC"} /\ inflight' = None /\ answered' = TRUE /\ rsp'.err = FALSE
      /\ line' = LineOf(inflight)
  BY DEF Respond, driver, Response
<1>2. /\ Bits /\ Sequence /\ pc \in {"cc", "cc_wait"} /\ inflight = cmd /\ ~ LineInUse
      /\ "DERR" \notin int /\ "CC" \notin int
      /\ data_present(cmd) => "TC" \notin int
  BY <1>1 DEF ResponseInv, Out
<1>3. Bits' /\ Sequence' /\ Out'
  <2>1. Whole'
    BY <1>1, <1>2, WholeLine DEF Bits
  <2> QED BY <1>1, <1>2, <2>1, CommandFacts DEF Bits, Sequence, Out
<1>4. Own' /\ "DERR" \notin int' /\ "CCE" \notin int' /\ "CC" \in int'
  BY <1>1, <1>2, CommandFacts DEF Own, Bits
<1>5. ~ data_present(cmd) => ~ Moving'
  <2>1. CASE cmd = "CMD6"
    BY <1>1, <1>2, <2>1 DEF Moving, LineOf
  <2>2. CASE cmd # "CMD6"
    BY <1>1, <1>2, <2>2 DEF Moving, LineOf, LineInUse, data_present, Adtc
  <2> QED BY <2>1, <2>2
<1>6. Waiting' /\ Data' /\ Between'
  BY <1>1, <1>2, <1>4, <1>5, CommandFacts DEF Waiting, Data, Between, data_present
<1> QED BY <1>3, <1>6 DEF ResponseInv

LEMMA ResponseRespondError ==
  ASSUME ResponseInv, RespondError \/ RespondDamaged
  PROVE  ResponseInv'
<1>1. /\ UNCHANGED <<pc, call, at, cmd, result, seen>> /\ inflight \in Commands
      /\ inflight \notin Adtc /\ inflight' = None
      /\ line' = line \/ line' = LineOf(inflight)
      /\ \/ int' = int \cup {"CC"} /\ answered' = TRUE
         \/ int' = int \cup {"CC", "CCE"}
  BY DEF RespondError, RespondDamaged, driver, Commands
<1>2. /\ Bits /\ Sequence /\ pc \in {"cc", "cc_wait"} /\ inflight = cmd /\ ~ LineInUse
      /\ "DERR" \notin int /\ "CC" \notin int /\ ~ data_present(cmd)
  BY <1>1 DEF ResponseInv, Out, data_present
<1>3. Bits' /\ Sequence' /\ Out'
  <2>1. Whole'
    BY <1>1, <1>2, WholeLine DEF Bits
  <2> QED BY <1>1, <1>2, <2>1, CommandFacts DEF Bits, Sequence, Out
<1>4. (Own' \/ "CCE" \in int') /\ "DERR" \notin int' /\ "CC" \in int'
  BY <1>1, <1>2 DEF Own, AnyError, data_present
<1>5. ~ Moving'
  <2>1. CASE cmd = "CMD6"
    BY <1>1, <1>2, <2>1 DEF Moving, LineOf, LineInUse
  <2>2. CASE cmd # "CMD6"
    BY <1>1, <1>2, <2>2 DEF Moving, LineOf, LineInUse, Adtc
  <2> QED BY <2>1, <2>2
<1>6. Waiting' /\ Data' /\ Between'
  BY <1>1, <1>2, <1>4, <1>5, CommandFacts DEF Waiting, Data, Between, data_present
<1> QED BY <1>3, <1>6 DEF ResponseInv

LEMMA ResponseNone ==
  ASSUME ResponseInv, NoResponse
  PROVE  ResponseInv'
<1>1. /\ UNCHANGED <<pc, call, at, cmd, result, seen, line>> /\ inflight \in Commands
      /\ int' = int \cup {"CTOE"} /\ inflight' = "stuck"
  BY DEF NoResponse, driver
<1>2. /\ Bits /\ Sequence /\ pc \in {"cc", "cc_wait"} /\ inflight = cmd /\ ~ LineInUse
      /\ "DERR" \notin int /\ "CC" \notin int
  BY <1>1 DEF ResponseInv, Out
<1>3. Bits' /\ Sequence' /\ Out'
  <2>1. Whole'
    BY <1>1, <1>2 DEF Bits, Whole
  <2> QED BY <1>1, <1>2, <2>1, CommandFacts DEF Bits, Sequence, Out
<1>4. "DERR" \notin int' /\ ~ Moving'
  BY <1>1, <1>2 DEF Moving, LineInUse, AnyError
<1>5. Waiting' /\ Data' /\ Between'
  BY <1>1, <1>2, <1>4, CommandFacts DEF Waiting, Data, Between
<1> QED BY <1>3, <1>5 DEF ResponseInv

LEMMA ResponseData ==
  ASSUME ResponseInv, DataLines
  PROVE  ResponseInv'
<1>1. /\ UNCHANGED <<pc, call, at, cmd, result, seen, inflight, answered, rsp>>
      /\ Whole'
      /\ line # None /\ ~ Moving' /\ int \subseteq int'
      /\ \A e \in int' : e \in int \cup {"TC", "DINT"} \/ (e = "DERR" /\ Moving /\ "data" \in Faults)
      /\ "TC" \in int' => "TC" \in int \/ Moving \/ line.kind = "busy"
      /\ LineInUse' => LineInUse
  <2>1. CASE BlockRead
    BY <2>1 DEF BlockRead, Moving, LineInUse, Whole, driver
  <2>2. CASE BlockSent
    <3>1. line' = [kind |-> "busy", block |-> line.block, data |-> line.data]
      <4>1. line = [kind |-> line.kind, block |-> line.block, data |-> line.data]
        BY <2>2 DEF BlockSent, ResponseInv, Bits, Whole
      <4> QED BY <2>2, <4>1 DEF BlockSent
    <3> QED BY <2>2, <3>1 DEF BlockSent, Moving, LineInUse, Whole, driver
  <2>3. CASE BusyEnds
    <3>1. line' = None \/ line' = [kind |-> "buffered", block |-> line.block, data |-> line.data]
      <4>1. line = [kind |-> line.kind, block |-> line.block, data |-> line.data]
        BY <2>3 DEF BusyEnds, ResponseInv, Bits, Whole
      <4> QED BY <2>3, <4>1 DEF BusyEnds
    <3> QED BY <2>3, <3>1 DEF BusyEnds, Moving, LineInUse, Whole, driver
  <2>4. CASE CardDone
    BY <2>4 DEF CardDone, Moving, LineInUse, Whole, driver
  <2>5. CASE DataFault
    BY <2>5 DEF DataFault, Moving, LineInUse, Whole, driver
  <2> QED BY <2>1, <2>2, <2>3, <2>4, <2>5 DEF DataLines
<1>2. ResponseInv /\ (LineInUse \/ line.kind = "buffered")
  BY <1>1 DEF LineInUse
<1>3. Bits' /\ Sequence'
  BY <1>1, <1>2 DEF ResponseInv, Bits, Sequence
<1>4. Out'
  <2>1. CASE inflight \in Commands
    <3>1. /\ ~ Moving /\ line.kind # "busy" /\ "DERR" \notin int /\ "CC" \notin int /\ ~ LineInUse
          /\ pc \in {"cc", "cc_wait"} /\ inflight = cmd
          /\ data_present(cmd) => "TC" \notin int
      BY <1>1, <1>2, <2>1 DEF ResponseInv, Out, Moving, LineInUse
    <3>2. "DERR" \notin int' /\ "CC" \notin int' /\ ("TC" \in int' => "TC" \in int)
      BY <1>1, <3>1
    <3> QED BY <1>1, <3>1, <3>2 DEF Out, data_present
  <2>2. CASE inflight \notin Commands
    BY <1>1, <2>2 DEF Out
  <2> QED BY <2>1, <2>2
<1>5. /\ "CC" \in int' <=> "CC" \in int
      /\ "CCE" \in int' <=> "CCE" \in int
      /\ "DERR" \in int' => "DERR" \in int \/ (Moving /\ "data" \in Faults)
      /\ (Doomed => Doomed') /\ (Own <=> Own') /\ (~ LineInUse => line.kind = "buffered")
      /\ data_present(cmd)' <=> data_present(cmd)
  BY <1>1, <1>2 DEF Doomed, Own, data_present
<1>6. Waiting'
  BY <1>1, <1>2, <1>5 DEF ResponseInv, Waiting
<1>7. Data'
  <2>1. ASSUME pc \in {"check", "busy"}, data_present(cmd)
        PROVE  "TC" \notin int' /\ ~ LineInUse'
    <3>1. "TC" \notin int /\ ~ LineInUse /\ ~ Moving /\ line.kind # "busy"
      BY <1>2, <1>5, <2>1 DEF ResponseInv, Data, Moving
    <3> QED BY <1>1, <3>1
  <2>2. ASSUME pc \in {"data", "data_wait", "data_done"}
        PROVE  inflight' = None /\ "CC" \notin int'
    BY <1>1, <1>2, <1>5, <2>2 DEF ResponseInv, Data
  <2>3. ASSUME pc = "data_done"
        PROVE  /\ seen \subseteq int'
               /\ IF seen \cap AnyError = {} THEN "TC" \in int' /\ "DERR" \notin int' ELSE "DERR" \in seen
    BY <1>1, <1>2, <1>5, <2>3 DEF ResponseInv, Data
  <2> QED BY <1>1, <1>5, <2>1, <2>2, <2>3 DEF Data
<1>8. Between'
  <2>1. Quiet => Quiet'
    BY <1>1, <1>5 DEF Quiet
  <2> QED BY <1>1, <1>2, <1>5, <2>1 DEF ResponseInv, Between
<1> QED BY <1>3, <1>4, <1>6, <1>7, <1>8 DEF ResponseInv

LEMMA ResponseCheck ==
  ASSUME ResponseInv, Check
  PROVE  ResponseInv'
<1>1. /\ pc = "check" /\ pc' = (IF "CC" \in int THEN "dead" ELSE "busy")
      /\ UNCHANGED <<call, at, cmd, result, seen, int, inflight, line, answered, rsp>>
  BY DEF Check, GoTo, host
<1>2. Bits' /\ Sequence' /\ Out'
  BY <1>1 DEF ResponseInv, Bits, Whole, Sequence, Out
<1>3. Waiting' /\ Data' /\ Between'
  BY <1>1, Unmoved DEF ResponseInv, Waiting, Data, Between, data_present
<1> QED BY <1>2, <1>3 DEF ResponseInv

LEMMA ResponseIssue ==
  ASSUME ResponseInv, Issue
  PROVE  ResponseInv'
<1>1. /\ pc = "busy" /\ inflight = None /\ ~ LineInUse /\ inflight' = cmd /\ pc' = "cc"
      /\ UNCHANGED <<call, at, cmd, result, seen, int, line, rsp>>
  BY DEF Issue, GoTo
<1>2. /\ Bits /\ "CC" \notin int /\ "DERR" \notin int /\ ~ Moving
      /\ data_present(cmd) => "TC" \notin int
  BY <1>1, CommandFacts DEF ResponseInv, Between, Data, Doomed, Quiet, Moving, LineInUse
<1>3. Bits' /\ Sequence'
  BY <1>1, <1>2, CommandFacts DEF ResponseInv, Bits, Whole, Sequence
<1>4. Out'
  BY <1>1, <1>2 DEF Out, LineInUse, data_present
<1>5. Waiting' /\ Data' /\ Between'
  BY <1>1, <1>2, CommandFacts DEF Bits, Waiting, Data, Between, Moving
<1> QED BY <1>3, <1>4, <1>5 DEF ResponseInv

LEMMA ResponsePollCommand ==
  ASSUME ResponseInv, PollCommand
  PROVE  ResponseInv'
<1>1. /\ pc \in {"cc", "cc_wait"} /\ seen' = int
      /\ pc' = IF int \cap (AnyError \cup {"CC"}) # {} THEN "cc_done" ELSE "cc_wait"
      /\ UNCHANGED <<call, at, cmd, result, int, inflight, line, answered, rsp>>
  BY DEF PollCommand, GoTo, host
<1>2. Bits /\ Sequence /\ Out /\ Waiting
  BY DEF ResponseInv
<1>3. Bits' /\ Sequence'
  BY <1>1, <1>2 DEF Bits, Whole, Sequence
<1>4. CASE inflight \in Commands
  <2>1. int \cap (AnyError \cup {"CC"}) = {}
    BY <1>2, <1>4, CommandFacts DEF Bits, Out, AnyError
  <2>2. pc' = "cc_wait"
    BY <1>1, <2>1
  <2>3. Out'
    BY <1>1, <1>2, <2>2 DEF Out, LineInUse, data_present
  <2>4. Waiting' /\ Data' /\ Between'
    BY <1>1, <1>2, <2>2, Unmoved DEF Waiting, Data, Between, data_present
  <2> QED BY <1>3, <2>3, <2>4 DEF ResponseInv
<1>5. CASE inflight \notin Commands
  <2>1. inflight = None \/ inflight = "stuck"
    BY <1>2, <1>5 DEF Bits
  <2>2. Out'
    BY <1>1, <1>5 DEF Out
  <2>3. seen' \cap AnyError = {} => inflight = None /\ Own /\ "CCE" \notin int
    BY <1>1, <1>2, <2>1 DEF Waiting, AnyError
  <2>4. Doomed
    BY <1>1, <1>2, <2>1 DEF Waiting, Doomed
  <2>5. Waiting' /\ Data' /\ Between'
    BY <1>1, <1>2, <2>1, <2>3, <2>4, Unmoved DEF Waiting, Data, Between, data_present
  <2> QED BY <1>3, <2>2, <2>5 DEF ResponseInv
<1> QED BY <1>4, <1>5

LEMMA ResponseCommandDone ==
  ASSUME ResponseInv, CommandDone
  PROVE  ResponseInv'
<1>1. /\ pc = "cc_done" /\ UNCHANGED <<call, at, cmd, result, seen, inflight, line, answered, rsp>>
      /\ Bits /\ Sequence /\ Out /\ Waiting
  BY DEF CommandDone, GoTo, ResponseInv
<1>2. inflight \notin Commands
  BY <1>1 DEF Out
<1>3. CASE seen \cap AnyError # {}
  <2>1. /\ pc' = "failed" /\ int' \subseteq int
        /\ "CC" \in int => "CC" \in int'
    BY <1>3 DEF CommandDone, GoTo, AnyError
  <2>2. Doomed'
    BY <1>1, <1>3, <2>1 DEF Waiting, Doomed
  <2>3. Bits' /\ Sequence' /\ Out'
    BY <1>1, <1>2, <2>1 DEF Bits, Whole, Sequence, Out
  <2>4. Waiting' /\ Data' /\ Between'
    BY <2>1, <2>2 DEF Waiting, Data, Between
  <2> QED BY <2>3, <2>4 DEF ResponseInv
<1>4. CASE seen \cap AnyError = {}
  <2>1. inflight = None /\ Own /\ "CCE" \notin int
    BY <1>1, <1>4 DEF Waiting
  <2>2. /\ int' = int \ {"CC"}
        /\ pc' = (IF cmd \in R1 /\ rsp.err THEN "failed" ELSE IF data_present(cmd) THEN "data" ELSE "ok")
    BY <1>4 DEF CommandDone, GoTo, AnyError
  <2>3. Bits' /\ Sequence' /\ Out'
    <3>1. pc' \in {"failed", "data", "ok"}
      BY <2>2
    <3> QED BY <1>1, <1>2, <2>1, <2>2, <3>1 DEF Bits, Whole, Sequence, Out
  <2>4. CASE data_present(cmd)
    <3>1. pc' = "data" /\ (Moving' => "TC" \notin int' /\ "DERR" \notin int')
      BY <1>1, <2>1, <2>2, <2>4 DEF Own, Waiting, Moving
    <3>2. Waiting' /\ Data' /\ Between'
      BY <1>1, <2>1, <2>2, <3>1 DEF Waiting, Data, Between
    <3> QED BY <2>3, <3>2 DEF ResponseInv
  <2>5. CASE ~ data_present(cmd)
    <3>1. pc' \in {"failed", "ok"} /\ Quiet'
      BY <1>1, <2>1, <2>2, <2>5 DEF Waiting, Moving, Quiet
    <3>2. Waiting' /\ Data' /\ Between'
      BY <3>1 DEF Waiting, Data, Between
    <3> QED BY <2>3, <3>2 DEF ResponseInv
  <2> QED BY <2>4, <2>5
<1> QED BY <1>3, <1>4

LEMMA ResponseTimeout ==
  ASSUME NoLateFault, ResponseInv, CommandTimeout \/ DataTimeout
  PROVE  ResponseInv'
<1>1. /\ pc' = "failed" /\ UNCHANGED <<call, at, cmd, result, seen, int, inflight, line, answered, rsp>>
      /\ Bits /\ Sequence /\ Out /\ Waiting
      /\ \/ pc = "cc_wait" /\ inflight \notin Commands
         \/ pc = "data_wait" /\ "data" \notin Faults
  BY DEF CommandTimeout, DataTimeout, GoTo, host, ResponseInv, NoLateFault
<1>2. Doomed \/ Quiet
  BY <1>1 DEF Bits, Waiting, Doomed, Quiet
<1>3. Bits' /\ Sequence' /\ Out'
  <2>1. inflight \notin Commands
    BY <1>1 DEF Out
  <2>2. Bits' /\ Sequence'
    BY <1>1 DEF Bits, Whole, Sequence
  <2> QED BY <1>1, <2>1, <2>2 DEF Out
<1>4. Waiting' /\ Data' /\ Between'
  BY <1>1, <1>2, Unmoved DEF Waiting, Data, Between
<1> QED BY <1>3, <1>4 DEF ResponseInv

LEMMA ResponsePollData ==
  ASSUME ResponseInv, PollData
  PROVE  ResponseInv'
<1>1. /\ pc \in {"data", "data_wait"} /\ seen' = int
      /\ pc' = IF int \cap AnyError # {} \/ TransferDone \subseteq int
                 THEN "data_done" ELSE "data_wait"
      /\ UNCHANGED <<call, at, cmd, result, int, inflight, line, answered, rsp>>
      /\ Bits /\ Sequence /\ Out /\ Data
  BY DEF PollData, GoTo, host, ResponseInv
<1>2. /\ inflight = None /\ "CC" \notin int /\ "CCE" \notin int /\ "CTOE" \notin int
      /\ inflight \notin Commands
  BY <1>1, CommandFacts DEF Data, Bits
<1>3. IF int \cap AnyError = {} THEN "DERR" \notin int ELSE "DERR" \in int
  BY <1>2 DEF AnyError
<1>4. Bits' /\ Sequence' /\ Out'
  BY <1>1, <1>2 DEF Bits, Whole, Sequence, Out
<1>5. Data'
  <2>1. pc' = "data_done" /\ seen' \cap AnyError = {} => "TC" \in int'
    BY <1>1 DEF TransferDone
  <2> QED BY <1>1, <1>2, <1>3, <2>1 DEF Data, Moving
<1>6. Waiting' /\ Between'
  BY <1>1 DEF Waiting, Between
<1> QED BY <1>4, <1>5, <1>6 DEF ResponseInv

LEMMA ResponseDataDone ==
  ASSUME ResponseInv, DataDone
  PROVE  ResponseInv'
<1>1. /\ pc = "data_done" /\ UNCHANGED <<call, at, cmd, result, seen, inflight, line, answered, rsp>>
      /\ int' \subseteq int /\ pc' \in {"failed", "ok"}
      /\ Bits /\ Sequence /\ Data
  BY DEF DataDone, GoTo, ResponseInv
<1>2. inflight = None /\ "CC" \notin int /\ "CCE" \notin int /\ "CTOE" \notin int /\ inflight \notin Commands
  BY <1>1, CommandFacts DEF Data, Bits
<1>3. ~ Moving /\ "DERR" \notin int'
  <2>1. CASE seen \cap AnyError = {}
    BY <1>1, <2>1 DEF Data, Moving
  <2>2. CASE seen \cap AnyError # {}
    <3>1. seen \subseteq int /\ "DERR" \in seen
      BY <1>1, <2>2 DEF Data
    <3>2. ~ Moving
      BY <1>1, <3>1 DEF Data
    <3>3. int' = int \ (seen \cap AnyError)
      BY <1>2, <2>2, <3>1 DEF DataDone
    <3> QED BY <3>1, <3>2, <3>3 DEF AnyError
  <2> QED BY <2>1, <2>2
<1>4. Bits' /\ Sequence' /\ Out'
  BY <1>1, <1>2 DEF Bits, Whole, Sequence, Out
<1>5. Waiting' /\ Data' /\ Between'
  BY <1>1, <1>3 DEF Waiting, Data, Between, Quiet, Moving
<1> QED BY <1>4, <1>5 DEF ResponseInv

(* Between two commands the driver sends nothing but commands without      *)
(* data: a transfer only starts from `prepare`.                            *)
LEMMA ResponseBetween ==
  ASSUME ResponseInv, UNCHANGED <<inflight, int, line, answered, rsp>>,
         pc \in {"ok", "failed", "prepare", "idle"},
         pc' \in {"check", "prepare", "idle", "dead"},
         call' \in Requests \cup {Boot, None}, pc' = "idle" <=> call' = None,
         cmd' \in Commands, pc' = "check" => ~ data_present(cmd)', Sequence'
  PROVE  ResponseInv'
<1>1. Bits'
  BY DEF ResponseInv, Bits, Whole
<1>2. Out'
  BY DEF ResponseInv, Out
<1>3. Doomed' \/ Quiet'
  BY Unmoved DEF ResponseInv, Between
<1>4. Waiting' /\ Data' /\ Between'
  BY <1>3 DEF Waiting, Data, Between
<1> QED BY <1>1, <1>2, <1>4 DEF ResponseInv

LEMMA ResponseFatal ==
  ASSUME ResponseInv, PowerUpTimeout \/ TakeFails \/ ProgramTimeout
  PROVE  ResponseInv'
<1>1. /\ pc \in {"ok", "failed"} /\ pc' = "dead"
      /\ UNCHANGED <<call, at, cmd, inflight, int, line, answered, rsp>>
  BY DEF PowerUpTimeout, TakeFails, ProgramTimeout, Fatal, host
<1>2. /\ call' \in Requests \cup {Boot, None} /\ (pc' = "idle" <=> call' = None)
      /\ cmd' \in Commands /\ Sequence'
  BY <1>1 DEF ResponseInv, Bits, Sequence
<1> QED BY <1>1, <1>2, ResponseBetween

LEMMA ResponseReturn ==
  ASSUME ResponseInv, pc \in {"ok", "failed"}, NEW v, Return(v)
  PROVE  ResponseInv'
<1>1. /\ pc' = "idle" /\ call' = None
      /\ UNCHANGED <<cmd, inflight, int, line, answered, rsp>>
  BY DEF Return, host
<1>2. cmd' \in Commands /\ Sequence'
  BY <1>1, RequestFacts DEF ResponseInv, Bits, Sequence
<1> QED BY <1>1, <1>2, ResponseBetween

LEMMA ResponseSend ==
  ASSUME ResponseInv, pc \in {"ok", "failed"}, NEW c \in Commands, NEW n, Send(c, n),
         c \notin Adtc, call = Boot => n \in 1 .. Len(take) /\ c = take[n]
  PROVE  ResponseInv'
<1>1. /\ pc' = "check" /\ cmd' = c /\ at' = n
      /\ UNCHANGED <<call, inflight, int, line, answered, rsp>>
  BY DEF Send, host
<1>2. /\ call' \in Requests \cup {Boot, None} /\ (pc' = "idle" <=> call' = None)
      /\ ~ data_present(cmd)' /\ Sequence'
  BY <1>1 DEF ResponseInv, Bits, Sequence, data_present
<1> QED BY <1>1, <1>2, ResponseBetween

LEMMA ResponseGoTo ==
  ASSUME ResponseInv, pc \in {"ok", "failed"}, NEW p \in {"prepare", "dead"}, GoTo(p),
         UNCHANGED host
  PROVE  ResponseInv'
<1>1. /\ pc' = p /\ UNCHANGED <<call, at, cmd, inflight, int, line, answered, rsp>>
  BY DEF GoTo, host
<1>2. /\ call' \in Requests \cup {Boot, None} /\ (pc' = "idle" <=> call' = None)
      /\ cmd' \in Commands /\ Sequence'
  BY <1>1 DEF ResponseInv, Bits, Sequence
<1> QED BY <1>1, <1>2, ResponseBetween

LEMMA ResponseTakeNext ==
  ASSUME ResponseInv, TakeNext
  PROVE  ResponseInv'
<1>1. pc = "ok" /\ call = Boot /\ at \in 1 .. 9 /\ cmd = take[at]
  BY RequestFacts, TakeFacts DEF ResponseInv, Bits, Sequence, TakeNext
<1>2. CASE NotPoweredUp /\ Send("CMD1", at)
  <2>1. cmd = "CMD1" /\ "CMD1" \in Commands \ Adtc
    BY <1>2 DEF NotPoweredUp, Commands, Adtc
  <2> QED BY <1>1, <1>2, <2>1, TakeFacts, ResponseSend
<1>3. CASE (GoTo("prepare") \/ GoTo("dead")) /\ UNCHANGED host
  BY <1>1, <1>3, ResponseGoTo
<1>4. CASE cmd # "CMD13" /\ at < Len(take) /\ Send(take[at + 1], at + 1)
  <2>1. at + 1 \in 1 .. 8 /\ at + 1 \in 1 .. Len(take)
    BY <1>1, <1>4, TakeFacts
  <2>2. take[at + 1] \in Commands \ Adtc
    BY <2>1, TakeFacts DEF Commands, R1, Adtc
  <2> QED BY <1>1, <1>4, <2>1, <2>2, ResponseSend
<1>5. CASE Return(None)
  BY <1>1, <1>5, ResponseReturn
<1> QED BY <1>2, <1>3, <1>4, <1>5 DEF TakeNext

LEMMA ResponseStart ==
  ASSUME ResponseInv, NEW r \in Requests, Start(r)
  PROVE  ResponseInv'
<1>1. /\ pc = "idle" /\ pc' = "check" /\ call' = r /\ cmd' = "CMD13"
      /\ UNCHANGED <<inflight, int, line, answered, rsp>>
  BY DEF Start
<1>2. call' \in Requests \cup {Boot, None} /\ call' # None /\ Sequence'
  BY <1>1, RequestFacts DEF Sequence
<1>3. cmd' \in Commands /\ ~ data_present(cmd)'
  BY <1>1 DEF data_present, Commands, R1, Adtc
<1> QED BY <1>1, <1>2, <1>3, ResponseBetween

LEMMA ResponsePrepare ==
  ASSUME ResponseInv, Prepare
  PROVE  ResponseInv'
<1>1. /\ pc = "prepare" /\ pc' = "check" /\ int' = int \ {"TC"} /\ ~ LineInUse
      /\ cmd' = DataCommand /\ at' = (IF call.op = "take" THEN Len(take) ELSE 0)
      /\ UNCHANGED <<call, inflight, line, answered, rsp>>
      /\ Bits /\ Out /\ Between
  BY DEF Prepare, ResponseInv
<1>2. cmd' \in Commands /\ Sequence'
  BY <1>1, RequestFacts, TakeFacts DEF DataCommand, Commands, R1, Sequence
<1>3. Bits' /\ Out'
  BY <1>1, <1>2 DEF Bits, Whole, Out
<1>4. Doomed' \/ Quiet'
  BY <1>1 DEF Between, Doomed, Quiet, Moving
<1>5. Waiting' /\ Data' /\ Between'
  BY <1>1, <1>4 DEF Waiting, Data, Between, LineInUse
<1> QED BY <1>2, <1>3, <1>5 DEF ResponseInv

LEMMA ResponseCalls ==
  ASSUME ResponseInv, StatusKnown \/ ReadDone \/ WriteDone \/ CallFails
  PROVE  ResponseInv'
<1>1. CASE StatusKnown
  BY <1>1, ResponseGoTo, ResponseReturn DEF StatusKnown
<1>2. CASE ReadDone
  BY <1>2, ResponseReturn DEF ReadDone
<1>3. CASE WriteDone
  <2>1. "CMD13" \in Commands \ Adtc /\ call # Boot
    BY <1>3, RequestFacts DEF WriteDone, Commands, R1, Adtc
  <2> QED BY <1>3, <2>1, ResponseSend, ResponseReturn DEF WriteDone
<1>4. CASE CallFails
  BY <1>4, ResponseReturn DEF CallFails
<1> QED BY <1>1, <1>2, <1>3, <1>4

LEMMA ResponseInit == Init => ResponseInv
<1> SUFFICES ASSUME Init PROVE ResponseInv
  OBVIOUS
<1>1. Bits /\ Sequence
  BY TakeFacts, RequestFacts DEF Init, Bits, Whole, Sequence, Commands
<1>2. Out /\ Waiting /\ Data /\ Between
  BY TakeFacts, CommandFacts
     DEF Init, Out, Waiting, Data, Between, Quiet, Moving, data_present, Adtc
<1> QED BY <1>1, <1>2 DEF ResponseInv

LEMMA ResponseRestart ==
  ASSUME Restart
  PROVE  ResponseInv'
<1>1. /\ pc' = "check" /\ call' = Boot /\ at' = 1 /\ cmd' = take[1] /\ int' = {}
      /\ inflight' = None /\ line' = None
  BY DEF Restart
<1>2. Bits' /\ Sequence'
  BY <1>1, TakeFacts, RequestFacts DEF Bits, Whole, Sequence, Commands
<1>3. Out' /\ Waiting' /\ Data' /\ Between'
  BY <1>1, TakeFacts, CommandFacts
     DEF Out, Waiting, Data, Between, Quiet, Moving, data_present, Adtc
<1> QED BY <1>2, <1>3 DEF ResponseInv

LEMMA ResponseStep ==
  ASSUME NoLateFault, ResponseInv, [Next]_vars
  PROVE  ResponseInv'
<1>1. CASE CommandLine
  BY <1>1, ResponseRespond, ResponseRespondError, ResponseNone DEF CommandLine
<1>2. CASE DataLines
  BY <1>2, ResponseData
<1>3. CASE Software
  <2>1. CASE Check \/ Issue \/ PollCommand \/ CommandTimeout \/ CommandDone
    BY <2>1, ResponseCheck, ResponseIssue, ResponsePollCommand, ResponseTimeout,
       ResponseCommandDone
  <2>2. CASE PollData \/ DataTimeout \/ DataDone
    BY <2>2, ResponsePollData, ResponseTimeout, ResponseDataDone
  <2>3. CASE TakeNext \/ PowerUpTimeout \/ TakeFails \/ ProgramTimeout
    BY <2>3, ResponseTakeNext, ResponseFatal
  <2>4. CASE StatusKnown \/ Prepare \/ ReadDone \/ WriteDone \/ CallFails
    BY <2>4, ResponsePrepare, ResponseCalls
  <2> QED BY <1>3, <2>1, <2>2, <2>3, <2>4 DEF Software
<1>4. ASSUME NEW r \in Requests, Start(r)
      PROVE  ResponseInv'
  BY <1>4, ResponseStart
<1>5. CASE Restart
  BY <1>5, ResponseRestart
<1>6. CASE UNCHANGED vars
  <2>1. UNCHANGED <<pc, call, at, cmd, seen, int, inflight, line, answered, rsp>>
    BY <1>6 DEF vars, driver, host
  <2>2. (Bits => Bits') /\ (Sequence => Sequence') /\ (Out => Out')
    BY <2>1, Unmoved DEF Bits, Whole, Sequence, Out, data_present
  <2>3. (Waiting => Waiting') /\ (Data => Data') /\ (Between => Between')
    BY <2>1, Unmoved DEF Waiting, Data, Between, data_present
  <2> QED BY <2>2, <2>3 DEF ResponseInv
<1> QED BY <1>1, <1>2, <1>3, <1>4, <1>5, <1>6 DEF Next, Powered

(* Unless a transfer that was given up ends in a data error afterwards, the *)
(* response that send_command takes from CMD_RSP0 answers the command it    *)
(* issued, after every other error and every timeout of an earlier one.     *)
THEOREM ResponsesOwn == NoLateFault => (Spec => []ResponseIsOwn)
<1> SUFFICES ASSUME NoLateFault PROVE Spec => []ResponseIsOwn
  OBVIOUS
<1>1. ResponseInv /\ [Next]_vars => ResponseInv'
  BY ResponseStep
<1>2. ResponseInv => ResponseIsOwn
  BY DEF ResponseInv, Waiting, Own, ResponseIsOwn
<1> QED BY ResponseInit, <1>1, <1>2, PTL DEF Spec

=============================================================================
