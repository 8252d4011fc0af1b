-------------------------------- MODULE Emmc --------------------------------
(***************************************************************************)
(* The eMMC driver of firmware/usbarmory: `take` and its boot sequence,    *)
(* read_single_block, write_single_block and send_command, above the       *)
(* uSDHC controller and the card as the driver uses them (INT_STATUS,      *)
(* PRES_STATE, CMD_RSP0; the states of JESD84-A441).                       *)
(*                                                                         *)
(* The driver polls while the controller, its DMA and the card run         *)
(* concurrently.  Faults says which of the failures the driver has code    *)
(* for happen:                                                             *)
(*   "status"     a command without data is answered with an error bit     *)
(*   "crc"        a response arrives damaged (CCE, CEBE, CIE)              *)
(*   "data"       a data error ends a transfer (DTOE, DCE, DEBE, DMAE)     *)
(*   "slow"       a transfer or the card takes more than default_timeout   *)
(*   "preempted"  so does an interrupt, while a response is awaited        *)
(*   "silent"     no response at all: the controller reports CTOE          *)
(*   "buffered"   the card lets go of the data lines and programs later    *)
(* The build is the one with debug assertions (profile dev).               *)
(***************************************************************************)
EXTENDS Naturals, Sequences

CONSTANTS Blocks, Values, Torn, None, Faults

(* Command::index_type_arg_resp. *)
Adtc == {"CMD8", "CMD17", "CMD24"}
R1 == {"CMD3", "CMD6", "CMD7", "CMD8", "CMD13", "CMD16", "CMD17", "CMD24"}
data_present(c) == c \in Adtc

Commands == R1 \cup {"CMD0", "CMD1", "CMD2"}

(* Mutant: the block length is set before the card is selected. *)
take_swapped == <<"CMD0", "CMD1", "CMD2", "CMD3", "CMD16", "CMD7", "CMD6", "CMD13", "CMD8">>

(* The commands of take: reset_cards, voltage_validation, register_cards,  *)
(* select_card, change_bus_width, and the read of EXT_CSD.                 *)
take == <<"CMD0", "CMD1", "CMD2", "CMD3", "CMD7", "CMD16", "CMD6", "CMD13", "CMD8">>

(* INT_STATUS_ANY_ERROR; CCE stands for CCE, CEBE and CIE, DERR for DTOE,   *)
(* DCE, DEBE and DMAE.                                                     *)
AnyError == {"CTOE", "CCE", "DERR"}

VARIABLES
  pc,        \* where the driver is
  call,      \* the request it serves; op "take" at boot, None when idle
  at,        \* number of the command of `take`, or of the polls of a write
  cmd,       \* the command of send_command
  result,    \* what the last call returned
  seen,      \* int_status
  buffer,    \* the caller's block, as DMA fills it
  int,       \* INT_STATUS
  inflight,  \* command on the CMD line (CIHB), None, or "stuck"
  arg,       \* the call that issued it last (CMD_ARG, DS_ADDR)
  line,      \* transfer in progress: [kind, block, data], or None
  rsp,       \* CMD_RSP0
  answered,  \* rsp is the answer to the last command issued
  card,      \* state of the card
  flash,     \* contents of the card
  late       \* history: a write given up that still runs

driver == <<pc, call, at, cmd, result, seen>>
host == <<int, inflight, arg, line, rsp, answered, buffer>>
vars == <<driver, host, card, flash, late>>

Request(op, b, v) == [op |-> op, block |-> b, data |-> v]
Boot == Request("take", None, None)
Requests ==
  {Request("read", b, None) : b \in Blocks}
    \cup {Request("write", b, v) : b \in Blocks, v \in Values}

(* A transfer on the data lines. *)
Transfers ==
  [kind : {"read", "write", "busy", "buffered"},
   block : Blocks \cup {None}, data : Values \cup {None}]

ASSUME SortsAssumption ==
  /\ None \notin Blocks \cup Requests \cup {Boot} \cup Transfers \cup Commands \cup {"stuck"}
  /\ "error" \notin Values \cup {Torn, None}

Response(err, state) == [err |-> err, state |-> state]

CardStates == {"idle", "ready", "ident", "stby", "tran", "data", "rcv", "prg"}

TypeOK ==
  /\ pc \in {"check", "busy", "cc", "cc_wait", "cc_done", "data", "data_wait",
             "data_done", "ok", "failed", "prepare", "idle", "dead"}
  /\ pc = "idle" <=> call = None
  /\ call \in Requests \cup {Boot, None}
  /\ at \in 0 .. Len(take)
  /\ cmd \in Commands
  /\ result \in Values \cup {Torn, None, "done", "error"}
  /\ seen \subseteq AnyError \cup {"CC", "TC", "DINT"}
  /\ int \subseteq AnyError \cup {"CC", "TC", "DINT"}
  /\ buffer \in Values \cup {Torn, None}
  /\ inflight \in Commands \cup {None, "stuck"}
  /\ line \in Transfers \cup {None}
  /\ rsp \in [err : BOOLEAN, state : CardStates]
  /\ answered \in BOOLEAN
  /\ arg \in Requests \cup {Boot}
  /\ card \in CardStates
  /\ flash \in [Blocks -> Values \cup {Torn}]
  /\ late \in Requests \cup {None}

Init ==
  /\ pc = "check"
  /\ call = Boot
  /\ at = 1
  /\ cmd = take[1]
  /\ result = None
  /\ seen = {}
  /\ buffer = None
  /\ int = {}
  /\ inflight = None
  /\ arg = Boot
  /\ line = None
  /\ rsp = Response(FALSE, "idle")
  /\ answered = FALSE
  /\ card = "tran"
  /\ flash \in [Blocks -> Values]
  /\ late = None

-----------------------------------------------------------------------------
(* The controller and the card. *)

Legal(c) ==
  CASE c = "CMD0" -> TRUE
    [] c = "CMD1" -> card = "idle"
    [] c = "CMD2" -> card = "ready"
    [] c = "CMD3" -> card = "ident"
    [] c = "CMD7" -> card = "stby"
    [] c = "CMD13" -> card \in {"stby", "tran", "data", "rcv", "prg"}
    [] OTHER -> card = "tran"

(* State of the card after a command; CMD1 is answered "busy" until the    *)
(* card has powered up.                                                    *)
After(c) ==
  CASE c = "CMD0" -> {"idle"}
    [] c = "CMD1" -> {"idle", "ready"}
    [] c = "CMD2" -> {"ident"}
    [] c = "CMD3" -> {"stby"}
    [] c = "CMD7" -> {"tran"}
    [] c = "CMD6" -> {"prg"}
    [] c \in {"CMD8", "CMD17"} -> {"data"}
    [] c = "CMD24" -> {"rcv"}
    [] OTHER -> {card}

LineOf(c) ==
  CASE c \in {"CMD8", "CMD17"} -> [kind |-> "read", block |-> arg.block, data |-> None]
    [] c = "CMD24" -> [kind |-> "write", block |-> arg.block, data |-> arg.data]
    [] c = "CMD6" -> [kind |-> "busy", block |-> None, data |-> None]
    [] OTHER -> line

(* The states a response may show: the one the card was in, or goes to;    *)
(* for a write, the driver also expects "prg".                             *)
Shown(c, next) ==
  CASE c = "CMD1" -> {next}
    [] c = "CMD24" -> {card, next, "prg"}
    [] OTHER -> {card, next}

(* A response arrives. *)
Respond ==
  /\ inflight \in Commands
  /\ Legal(inflight)
  /\ \E next \in After(inflight) : \E shown \in Shown(inflight, next) :
       /\ card' = next
       /\ rsp' = Response(FALSE, shown)
  /\ line' = LineOf(inflight)
  /\ int' = int \cup {"CC"}
  /\ answered' = TRUE
  /\ inflight' = None
  /\ UNCHANGED <<driver, arg, buffer, flash, late>>

(* The card answers with an error bit and does nothing. *)
RespondError ==
  /\ "status" \in Faults
  /\ inflight \in R1 \ Adtc
  /\ Legal(inflight)
  /\ rsp' = Response(TRUE, card)
  /\ int' = int \cup {"CC"}
  /\ answered' = TRUE
  /\ inflight' = None
  /\ UNCHANGED <<driver, arg, line, buffer, card, flash, late>>

(* The response is damaged; a command without data has taken effect. *)
RespondDamaged ==
  /\ "crc" \in Faults
  /\ inflight \in R1 \ Adtc
  /\ Legal(inflight)
  /\ card' \in After(inflight)
  /\ line' = LineOf(inflight)
  /\ int' = int \cup {"CC", "CCE"}
  /\ inflight' = None
  /\ UNCHANGED <<driver, arg, rsp, answered, buffer, flash, late>>

(* No response: the controller gives up, and the inhibit bit stays set     *)
(* until clear_command_inhibit.                                            *)
NoResponse ==
  /\ inflight \in Commands
  /\ "silent" \in Faults \/ ~ Legal(inflight)
  /\ int' = int \cup {"CTOE"}
  /\ inflight' = "stuck"
  /\ UNCHANGED <<driver, arg, line, rsp, answered, buffer, card, flash, late>>

CommandLine == Respond \/ RespondError \/ RespondDamaged \/ NoResponse

(* DMA moves a block into the caller's buffer, or out of it; the card      *)
(* keeps the lines busy while it programs, and TC comes when they are      *)
(* released.                                                               *)
BlockRead ==
  /\ line # None /\ line.kind = "read"
  /\ buffer' = IF line.block = None THEN None ELSE flash[line.block]
  /\ int' = int \cup {"TC", "DINT"}
  /\ line' = None
  /\ card' = "tran"
  /\ UNCHANGED <<driver, inflight, arg, rsp, answered, flash, late>>

BlockSent ==
  /\ line # None /\ line.kind = "write"
  /\ int' = int \cup {"DINT"}
  /\ line' = [line EXCEPT !.kind = "busy"]
  /\ card' = "prg"
  /\ UNCHANGED <<driver, inflight, arg, rsp, answered, buffer, flash, late>>

Programmed ==
  IF line.block = None THEN flash ELSE [flash EXCEPT ![line.block] = line.data]

BusyEnds ==
  /\ line # None /\ line.kind = "busy"
  /\ int' = int \cup {"TC"}
  /\ \/ flash' = Programmed /\ line' = None /\ card' = "tran"
     \/ /\ "buffered" \in Faults
        /\ line' = [line EXCEPT !.kind = "buffered"]
        /\ UNCHANGED <<flash, card>>
  /\ UNCHANGED <<driver, inflight, arg, rsp, answered, buffer, late>>

CardDone ==
  /\ line # None /\ line.kind = "buffered"
  /\ flash' = Programmed /\ line' = None /\ card' = "tran"
  /\ UNCHANGED <<driver, int, inflight, arg, rsp, answered, buffer, late>>

(* The card may be left waiting for the rest of a transfer. *)
DataFault ==
  /\ "data" \in Faults
  /\ line # None /\ line.kind \in {"read", "write"}
  /\ int' = int \cup {"DERR"}
  /\ line' = None
  /\ card' \in {card, "tran"}
  /\ UNCHANGED <<driver, inflight, arg, rsp, answered, buffer, flash, late>>

DataLines == BlockRead \/ BlockSent \/ BusyEnds \/ CardDone \/ DataFault

(* CDIHB or DLA is set. *)
LineInUse == line # None /\ line.kind # "buffered"

-----------------------------------------------------------------------------
(* send_command. *)

GoTo(p) ==
  /\ pc' = p
  /\ UNCHANGED <<call, at, cmd, result>>

(* Mutant: the release build, without the assertion. *)
CheckRelease ==
  /\ pc = "check"
  /\ GoTo("busy")
  /\ UNCHANGED <<seen, host, card, flash, late>>

(* The debug assertion on INT_STATUS.CC. *)
Check ==
  /\ pc = "check"
  /\ GoTo(IF "CC" \in int THEN "dead" ELSE "busy")
  /\ UNCHANGED <<seen, host, card, flash, late>>

(* The command is issued once neither inhibit bit is set. *)
Issue ==
  /\ pc = "busy"
  /\ inflight = None /\ ~ LineInUse
  /\ inflight' = cmd
  /\ arg' = call
  /\ answered' = FALSE
  /\ GoTo("cc")
  /\ UNCHANGED <<seen, int, line, rsp, buffer, card, flash, late>>

PollCommand ==
  /\ pc \in {"cc", "cc_wait"}
  /\ seen' = int
  /\ GoTo(IF int \cap (AnyError \cup {"CC"}) # {} THEN "cc_done" ELSE "cc_wait")
  /\ UNCHANGED <<host, card, flash, late>>

(* The time is up: INT_STATUS is not read again, nothing is cleared.  The  *)
(* controller has long settled the command by then (CTOE comes after 64    *)
(* clocks): only a driver that was kept from polling gets here.            *)
CommandTimeout ==
  /\ "preempted" \in Faults
  /\ pc = "cc_wait"
  /\ inflight \notin Commands
  /\ GoTo("failed")
  /\ UNCHANGED <<seen, host, card, flash, late>>

CommandDone ==
  /\ pc = "cc_done"
  /\ IF "CTOE" \in seen
       THEN int' = int \ {"CTOE"} /\ GoTo("failed")
     ELSE IF seen \cap AnyError # {}
       THEN int' = int \ (seen \cap AnyError) /\ GoTo("failed")
     ELSE /\ int' = int \ {"CC"}
          /\ GoTo(IF cmd \in R1 /\ rsp.err THEN "failed"
                  ELSE IF data_present(cmd) THEN "data" ELSE "ok")
  /\ UNCHANGED <<seen, inflight, arg, line, rsp, answered, buffer, card, flash, late>>

(* Mutant: DINT is enough. *)
TransferDoneDma == {"DINT"}
TransferDone == {"TC", "DINT"}

PollData ==
  /\ pc \in {"data", "data_wait"}
  /\ seen' = int
  /\ GoTo(IF int \cap AnyError # {} \/ TransferDone \subseteq int
            THEN "data_done" ELSE "data_wait")
  /\ UNCHANGED <<host, card, flash, late>>

DataTimeout ==
  /\ "slow" \in Faults
  /\ pc = "data_wait"
  /\ GoTo("failed")
  /\ UNCHANGED <<seen, host, card, flash, late>>

DataDone ==
  /\ pc = "data_done"
  /\ IF "CTOE" \in seen
       THEN int' = int \ {"CTOE"} /\ GoTo("failed")
     ELSE IF seen \cap AnyError # {}
       THEN int' = int \ (seen \cap AnyError) /\ GoTo("failed")
     ELSE int' = int \ TransferDone /\ GoTo("ok")
  /\ UNCHANGED <<seen, inflight, arg, line, rsp, answered, buffer, card, flash, late>>

-----------------------------------------------------------------------------
(* take, read and write. *)

Send(c, n) ==
  /\ pc' = "check"
  /\ cmd' = c
  /\ at' = n
  /\ UNCHANGED <<call, result, seen, host, card, flash, late>>

(* The call ends with value v.  A write given up may still be running.     *)
Return(v) ==
  /\ pc' = "idle"
  /\ call' = None
  /\ result' = v
  /\ at' = 0
  /\ late' = IF v # "error" THEN None
              ELSE IF call.op = "write" /\ (line # None \/ inflight = "CMD24") THEN call
              ELSE late
  /\ UNCHANGED <<cmd, seen, host, card, flash>>

(* A panic, or memlog_flush_and_reset. *)
Fatal ==
  /\ pc' = "dead"
  /\ UNCHANGED <<call, at, cmd, result, seen, host, card, flash, late>>

(* A card in the transfer state may still not be ready_for_data.           *)
(* voltage_validation repeats CMD1 until the card has powered up; the read *)
(* of EXT_CSD starts with get_card_status.                                 *)
NotPoweredUp == cmd = "CMD1" /\ rsp.state = "idle"
InTransferState == rsp.state = "tran"

TakeNext ==
  /\ pc = "ok" /\ call.op = "take"
  /\ \/ NotPoweredUp /\ Send("CMD1", at)
     \/ /\ cmd = "CMD13"
        /\ (InTransferState /\ GoTo("prepare")) \/ GoTo("dead")
        /\ UNCHANGED <<seen, host, card, flash, late>>
     \/ /\ cmd # "CMD13" /\ ~ NotPoweredUp
        /\ at < Len(take)
        /\ Send(take[at + 1], at + 1)
     \/ at = Len(take) /\ Return(None)

(* Mutant: the loop has no time limit. *)
PowerUpForever == FALSE

PowerUpTimeout ==
  /\ pc = "ok" /\ call.op = "take"
  /\ NotPoweredUp
  /\ Fatal

TakeFails ==
  /\ pc = "failed" /\ call.op = "take"
  /\ Fatal

(* read and write start with get_card_status. *)
Start(r) ==
  /\ pc = "idle"
  /\ call' = r
  /\ pc' = "check"
  /\ cmd' = "CMD13"
  /\ result' = None
  /\ at' = 0
  /\ buffer' = None
  /\ UNCHANGED <<seen, int, inflight, arg, line, rsp, answered, card, flash, late>>

StatusKnown ==
  /\ pc = "ok" /\ call.op # "take" /\ cmd = "CMD13" /\ at = 0
  /\ \/ InTransferState /\ GoTo("prepare") /\ UNCHANGED <<seen, host, card, flash, late>>
     \/ Return("error")

DataCommand ==
  CASE call.op = "take" -> "CMD8" [] call.op = "read" -> "CMD17" [] OTHER -> "CMD24"

(* Once DLA is clear, TC is cleared and the buffer given to the DMA.       *)
Prepare ==
  /\ pc = "prepare"
  /\ ~ LineInUse
  /\ int' = int \ {"TC"}
  /\ pc' = "check"
  /\ cmd' = DataCommand
  /\ at' = IF call.op = "take" THEN Len(take) ELSE 0
  /\ UNCHANGED <<call, result, seen, inflight, arg, line, rsp, answered, buffer, card, flash, late>>

ReadDone ==
  /\ pc = "ok" /\ cmd = "CMD17"
  /\ Return(buffer)

(* A write polls the status if the response to CMD24 said the card was     *)
(* programming.                                                            *)
MustPoll == IF cmd = "CMD24" THEN rsp.state = "prg" ELSE rsp.state # "tran"

WriteDone ==
  /\ pc = "ok" /\ call.op = "write"
  /\ cmd = "CMD24" \/ at = 1
  /\ IF MustPoll THEN Send("CMD13", 1) ELSE Return("done")

ProgramTimeout ==
  /\ pc = "ok" /\ call.op = "write"
  /\ cmd = "CMD13" /\ at = 1 /\ MustPoll
  /\ Fatal

CallFails ==
  /\ pc = "failed" /\ call.op # "take"
  /\ Return("error")

(* The board starts again: what was being programmed may be torn.          *)
Restart ==
  /\ pc' = "check"
  /\ call' = Boot
  /\ at' = 1
  /\ cmd' = take[1]
  /\ result' = None
  /\ seen' = {}
  /\ buffer' = None
  /\ int' = {}
  /\ inflight' = None
  /\ arg' = Boot
  /\ line' = None
  /\ rsp' = Response(FALSE, "idle")
  /\ answered' = FALSE
  /\ card' = "tran"
  /\ IF line # None /\ line.kind \in {"busy", "buffered"} /\ line.block # None
       THEN flash' \in {flash, [flash EXCEPT ![line.block] = Torn]}
       ELSE UNCHANGED flash
  /\ late' = None

Software ==
  \/ Check \/ Issue
  \/ PollCommand \/ CommandTimeout \/ CommandDone
  \/ PollData \/ DataTimeout \/ DataDone
  \/ TakeNext \/ PowerUpTimeout \/ TakeFails
  \/ StatusKnown \/ Prepare
  \/ ReadDone \/ WriteDone \/ ProgramTimeout \/ CallFails

(* The board keeps its power. *)
Powered ==
  \/ CommandLine
  \/ DataLines
  \/ Software
  \/ \E r \in Requests : Start(r)
  \/ pc = "dead" /\ Restart

Next == Powered \/ Restart

Spec == Init /\ [][Next]_vars

(* The controller settles every command and the card every transfer; main  *)
(* keeps running; a loop that goes on forever runs out of time.            *)
FairSpec ==
  /\ Init /\ [][Powered]_vars
  /\ WF_vars(CommandLine) /\ WF_vars(DataLines) /\ WF_vars(Software)
  /\ SF_vars(PowerUpTimeout) /\ SF_vars(ProgramTimeout)

-----------------------------------------------------------------------------
(* Properties. *)

(* A command only goes out in a state of the card that accepts it          *)
(* (send_command as take, read_single_block and write_single_block use it);*)
(* all variables keep their types.                                         *)
LegalCommands ==
  /\ TypeOK
  /\ inflight \in Commands => Legal(inflight)

(* The response that send_command takes from CMD_RSP0 answers the command  *)
(* it issued, after every error and every timeout of an earlier one.       *)
ResponseIsOwn == pc = "cc_done" /\ seen \cap AnyError = {} => answered

(* Every call ends, at worst in a panic or a reset: none of the polling    *)
(* loops waits for something that will not come.                           *)
EveryCallReturns == call # None ~> call = None \/ pc = "dead"

Store == INSTANCE BlockStore WITH
  store <- flash,
  request <- IF call # None /\ call.op # "take" THEN call ELSE None

(* read and write are the operations of a block store: data as last        *)
(* written, a write that returned Ok on the medium, and a failed one never *)
(* in the way of a later success.                                          *)
ImplementsBlockStore == Store!Spec

=============================================================================
