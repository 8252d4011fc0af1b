-------------------------------- MODULE Sdp --------------------------------
(***************************************************************************)
(* The serial downloader: usd-runner and usd-load write a boot image into  *)
(* the board's memory through the commands of the boot ROM, jump to it,    *)
(* and the runner then shows the board's serial output until the board is  *)
(* back in the ROM.  The user may run the programs again after a failure,  *)
(* and power cycle the board in between.                                   *)
(*                                                                         *)
(* The ROM is modelled from what the host programs expect of it.  Its      *)
(* reports wait in a queue until somebody reads them, be it a later run    *)
(* of the program.                                                         *)
(***************************************************************************)
EXTENDS BootImage

CONSTANTS
  Elfs,         \* the programs
  ReportSize,   \* DATA_REPORT_SIZE
  Addresses,    \* addresses the bus gives to the board
  MaxSessions,  \* bound: runs of the host programs
  MaxOutput     \* bound: serial output of a program not yet shown

ASSUME SdpAssumption ==
  /\ ReportSize \in Nat \ {0}
  /\ MaxSessions \in Nat
  /\ MaxOutput \in Nat

(* What the linker scripts, whose ORIGIN is the first address after the    *)
(* headers of the image, and the linker make of a program: the first piece *)
(* is at ORIGIN, one is the last, and no two overlap.                      *)
ASSUME LinkerAssumption ==
  \A e \in Elfs : Convertible(e) =>
    LET pieces == Pieces(e) IN
      /\ \A p \in pieces : p.addr \in Nat /\ p.size \in Nat
      /\ \E p \in pieces : p.addr = self_address + Reserved /\ \A q \in pieces : p.addr =< q.addr
      /\ \E p \in pieces : \A q \in pieces : q.addr + q.size =< p.addr + p.size
      /\ \A p, q \in pieces :
           p = q \/ p.addr + p.size =< q.addr \/ q.addr + q.size =< p.addr

VARIABLES
  pc,         \* the call the host program makes, or where it is
  step,       \* next step of dcd_write, write_file or jump_address
  prog,       \* "runner" or "load"
  elf,        \* the program to load
  file,       \* the bytes of its image
  cold,       \* a DCD is written first
  tries,      \* attempts to open the device
  sent,       \* bytes sent of the current command's data
  last,       \* usb_address
  again,      \* check_sec_status reads a second time
  stop,       \* STOP
  redirect,   \* the runner's other thread
  session,    \* number of the run
  misled,     \* runs that took a report meant for an earlier one

  rom,        \* state of the ROM, its command and the run that sent it, bytes
              \* received and expected
  open,       \* HAB is open
  ddr,        \* the external memory is initialised
  mem,        \* the image in memory, and the run that has written it
  reports,    \* reports to be read
  address,    \* the board's current address
  program,    \* run whose image was executed last, or 0
  output      \* serial output not yet shown

hostVars == <<pc, step, prog, elf, file, cold, tries, sent, last, again,
              stop, redirect, session, misled>>
boardVars == <<rom, open, ddr, mem, reports, address, program, output>>
vars == <<hostVars, boardVars>>

Ended == {"off", "done", "failed"}
MaxTries == 3

Reset == [st |-> "ready", cmd |-> "none", by |-> 0, got |-> <<>>, count |-> 0]
NoImage == [of |-> 0, image |-> <<>>]

Init ==
  /\ pc = "off" /\ step = "none" /\ prog = "load" /\ elf \in Elfs
  /\ file = <<>> /\ cold = FALSE /\ tries = 0 /\ sent = 0
  /\ again = FALSE /\ stop = FALSE /\ redirect = "off"
  /\ session = 0 /\ misled = {}
  /\ rom = Reset
  /\ open \in BOOLEAN /\ ddr \in BOOLEAN
  /\ mem = NoImage
  /\ reports = <<>>
  /\ address \in Addresses /\ last = address
  /\ program = 0 /\ output = 0

Present == rom.st # "running"

(***************************************************************************)
(* The host programs                                                       *)
(***************************************************************************)
(* usd-load reads an image that elf2image has made, and a DCD in it is     *)
(* sent apart; the runner has an ELF file, and COLD_BOOT is set or not.    *)
StartLoad(e) ==
  /\ Convertible(e)
  /\ prog' = "load"
  /\ LET image == ImageOf(e, FALSE) IN
       /\ cold' = (DcdOf(image) # <<>>)
       /\ file' = IF cold' THEN ClearDcd(image) ELSE image

StartRunner ==
  /\ prog' = "runner" /\ cold' \in BOOLEAN /\ file' = <<>>

Start(e) ==
  /\ pc \in Ended /\ session < MaxSessions
  /\ StartLoad(e) \/ StartRunner
  /\ pc' = "open" /\ elf' = e
  /\ session' = session + 1
  /\ tries' = 0 /\ sent' = 0 /\ again' = FALSE /\ stop' = FALSE
  /\ UNCHANGED <<step, last, redirect, misled, boardVars>>

(* Leaving main ends the other thread, too.                                *)
Exit(result) == pc' = result /\ step' = "none" /\ redirect' = "off"

Enter(call) == pc' = call /\ step' = "command" /\ UNCHANGED redirect

(* Mutant: no limit to the attempts. *)
OpenForever ==
  /\ pc = "open" /\ Present
  /\ last' = address
  /\ redirect' = IF prog = "runner" THEN "opening" ELSE "off"
  /\ pc' = "image" /\ UNCHANGED step
  /\ UNCHANGED <<prog, elf, file, cold, tries, sent, again, stop, session, misled, boardVars>>

(* Usd::open, and the runner's thread::spawn.  The board may be missing for *)
(* a while, but an error of Device::open is the end.                       *)
Open ==
  /\ pc = "open"
  /\ \/ /\ Present
        /\ last' = address
        /\ redirect' = IF prog = "runner" THEN "opening" ELSE "off"
        /\ pc' = "image" /\ UNCHANGED step
        /\ UNCHANGED tries
     \/ /\ ~ Present
        /\ tries' = tries + 1
        /\ IF tries' = MaxTries THEN Exit("failed") ELSE UNCHANGED <<pc, step, redirect>>
        /\ UNCHANGED last
     \/ Exit("failed") /\ UNCHANGED <<tries, last>>
  /\ UNCHANGED <<prog, elf, file, cold, sent, again, stop, session, misled, boardVars>>

(* Image::from_elf in the runner.  The data of a command: the DCD, or the  *)
(* file.                                                                   *)
MakeImage ==
  /\ pc = "image"
  /\ IF prog = "runner" /\ ~ Convertible(elf) THEN Exit("failed") /\ UNCHANGED file
     ELSE /\ Enter(IF cold THEN "dcd" ELSE "file")
          /\ file' = IF prog = "runner" THEN ImageOf(elf, TRUE) ELSE file
  /\ UNCHANGED <<prog, elf, cold, tries, sent, last, again, stop, session,
                 misled, boardVars>>

(***************************************************************************)
(* dcd_write, write_file and jump_address: the command, its data, the      *)
(* security status, and a response unless the command is a jump.           *)
(***************************************************************************)
Commands == {"dcd", "file", "jump"}
Data == [dcd |-> <<DcdCell>>, file |-> file, jump |-> <<>>]
At(st) == pc \in Commands /\ step = st

(* The call returns Ok. *)
Proceed ==
  CASE pc = "dcd" -> Enter("file")
    [] pc = "file" -> Enter("jump")
    [] pc = "jump" /\ prog = "load" -> Exit("done")
    [] OTHER -> pc' = "watch" /\ step' = "none" /\ UNCHANGED redirect

(* hid.write fails after 100 ms without an answer, and perhaps although    *)
(* the report has arrived.                                                 *)
WriteFails ==
  /\ Exit("failed")
  /\ UNCHANGED <<prog, elf, file, cold, tries, sent, last, again, stop, session, misled>>

SendCommand ==
  /\ At("command")
  /\ rom.st = "ready"
  /\ rom' = [st |-> IF pc = "jump" THEN "exec" ELSE "data", cmd |-> pc,
             by |-> session, got |-> <<>>, count |-> Len(Data[pc])]
  /\ \/ WriteFails
     \/ /\ step' = IF pc = "jump" THEN "status" ELSE "data"
        /\ sent' = 0
        /\ UNCHANGED <<pc, prog, elf, file, cold, tries, last, again, stop,
                       redirect, session, misled>>
  /\ UNCHANGED <<open, ddr, mem, reports, address, program, output>>

(* chunks(DATA_REPORT_SIZE); the last one may be short. *)
Chunk ==
  LET n == Len(Data[pc]) IN
  SubSeq(Data[pc], sent + 1, IF sent + ReportSize < n THEN sent + ReportSize ELSE n)

SendData ==
  /\ At("data")
  /\ rom.st = "data"
  /\ LET got == rom.got \o Chunk IN
       rom' = [rom EXCEPT !.got = got,
                          !.st = IF Len(got) >= rom.count THEN "exec" ELSE @]
  /\ \/ WriteFails
     \/ /\ sent' = sent + Len(Chunk)
        /\ step' = IF sent' >= Len(Data[pc]) THEN "status" ELSE step
        /\ UNCHANGED <<pc, prog, elf, file, cold, tries, last, again, stop,
                       redirect, session, misled>>
  /\ UNCHANGED <<open, ddr, mem, reports, address, program, output>>

Unanswered ==
  /\ (At("command") /\ rom.st # "ready") \/ (At("data") /\ rom.st # "data")
  /\ WriteFails
  /\ UNCHANGED boardVars

(* hid.read, or its timeout. *)
ReadTimeout ==
  /\ At("status") \/ At("response")
  /\ reports = <<>>
  /\ WriteFails
  /\ UNCHANGED boardVars

TakeReport ==
  /\ reports # <<>>
  /\ reports' = Tail(reports)
  /\ misled' = misled \cup {s \in {session} : Head(reports).of # s}
  /\ UNCHANGED <<rom, open, ddr, mem, address, program, output>>

Accept ==
  IF pc = "jump" THEN Proceed ELSE step' = "response" /\ UNCHANGED <<pc, redirect>>

CheckSecStatus ==
  /\ At("status")
  /\ TakeReport
  /\ LET r == Head(reports).kind IN
       \/ r = "short" /\ ~ again /\ again' = TRUE /\ UNCHANGED <<pc, step, redirect>>
       \/ r = "open" /\ again' = FALSE /\ Accept
       \/ /\ r # "open" /\ (r = "short" => again)
          /\ again' = FALSE /\ Exit("failed")
  /\ UNCHANGED <<prog, elf, file, cold, tries, sent, last, stop, session>>

Acknowledgement == [dcd |-> "write_complete", file |-> "complete"]

(* Mutant: any response will do. *)
ReadResponseAny ==
  /\ At("response")
  /\ TakeReport
  /\ Proceed
  /\ UNCHANGED <<prog, elf, file, cold, tries, sent, last, again, stop, session>>

ReadResponse ==
  /\ At("response")
  /\ TakeReport
  /\ IF Head(reports).kind = Acknowledgement[pc] THEN Proceed ELSE Exit("failed")
  /\ UNCHANGED <<prog, elf, file, cold, tries, sent, last, again, stop, session>>

(***************************************************************************)
(* The runner after the jump                                               *)
(***************************************************************************)
(* has_been_reenumerated *)
Watch ==
  /\ pc = "watch"
  /\ Present /\ address # last
  /\ pc' = "flush"
  /\ UNCHANGED <<step, prog, elf, file, cold, tries, sent, last, again, stop, redirect, session,
                 misled, boardVars>>

Stop ==
  /\ pc = "flush"
  /\ stop' = TRUE
  /\ pc' = "leave"
  /\ UNCHANGED <<step, prog, elf, file, cold, tries, sent, last, again, redirect, session,
                 misled, boardVars>>

Leave ==
  /\ pc = "leave"
  /\ Exit("done")
  /\ UNCHANGED <<prog, elf, file, cold, tries, sent, last, again, stop, session, misled,
                 boardVars>>

(* redirect: the port is opened or not found; the loop ends with STOP or   *)
(* an error of the port.                                                   *)
RedirectOpen ==
  /\ redirect = "opening"
  /\ redirect' \in {"loop", "over"}
  /\ UNCHANGED <<pc, step, prog, elf, file, cold, tries, sent, last, again, stop, session,
                 misled, boardVars>>

RedirectEnds ==
  /\ redirect = "loop"
  /\ redirect' = "over"
  /\ UNCHANGED <<pc, step, prog, elf, file, cold, tries, sent, last, again, stop, session,
                 misled, boardVars>>

RedirectShows ==
  /\ redirect = "loop" /\ ~ stop /\ output > 0
  /\ output' = 0
  /\ UNCHANGED <<hostVars, rom, open, ddr, mem, reports, address, program>>

(***************************************************************************)
(* The board                                                               *)
(***************************************************************************)
Report(kind) == [kind |-> kind, of |-> rom.by]
Status == IF open THEN "open" ELSE "closed"

(* The status, perhaps after a short report, and a response.               *)
Answers(rest) ==
  \E short \in {<<>>, <<Report("short")>>, <<Report("short"), Report("short")>>} :
    reports' = reports \o short \o <<Report(Status)>> \o rest

RomReady == [rom EXCEPT !.st = "ready"]

(* Initialising the memory twice hangs the board (usd-runner.rs).          *)
RomDcd ==
  /\ rom.st = "exec" /\ rom.cmd = "dcd"
  /\ IF ddr THEN rom' = [rom EXCEPT !.st = "hung"] /\ UNCHANGED <<ddr, reports>>
     ELSE rom' = RomReady /\ ddr' = TRUE /\ Answers(<<Report("write_complete")>>)
  /\ UNCHANGED <<hostVars, open, mem, address, program, output>>

RomFile ==
  /\ rom.st = "exec" /\ rom.cmd = "file"
  /\ \/ /\ ~ ddr
        /\ rom' = [rom EXCEPT !.st = "hung"] /\ UNCHANGED <<mem, reports>>
     \/ /\ ddr /\ rom' = RomReady
        /\ mem' = [of |-> rom.by, image |-> rom.got]
        /\ Answers(<<Report("complete")>>)
     \/ ddr /\ rom' = RomReady /\ UNCHANGED mem /\ Answers(<<Report("error")>>)
  /\ UNCHANGED <<hostVars, open, ddr, address, program, output>>

(* A DCD the image points to is executed before the program.               *)
RomJump ==
  /\ rom.st = "exec" /\ rom.cmd = "jump"
  /\ Answers(<<>>)
  /\ IF ~ open \/ mem = NoImage THEN rom' = RomReady /\ UNCHANGED program
     ELSE IF DcdOf(mem.image) # <<>> THEN rom' = [rom EXCEPT !.st = "hung"] /\ UNCHANGED program
     ELSE rom' = [rom EXCEPT !.st = "running"] /\ program' = mem.of
  /\ UNCHANGED <<hostVars, open, ddr, mem, address, output>>

(* The program on the board: output, a USB controller of its own that      *)
(* drops the ROM's reports, and the reset back into the ROM, where the     *)
(* board gets an address that may be the one it had.                       *)
BoardPrints ==
  /\ rom.st = "running" /\ output < MaxOutput
  /\ output' = output + 1
  /\ UNCHANGED <<hostVars, rom, open, ddr, mem, reports, address, program>>

BoardTakesUsb ==
  /\ rom.st = "running" /\ reports # <<>>
  /\ reports' = <<>>
  /\ UNCHANGED <<hostVars, rom, open, ddr, mem, address, program, output>>

Restart(a) ==
  /\ rom' = Reset /\ reports' = <<>> /\ address' = a

BoardResets ==
  /\ rom.st = "running"
  /\ \E a \in Addresses : Restart(a)
  /\ UNCHANGED <<hostVars, open, ddr, mem, program, output>>

(* The user power cycles the board when no call is under way. *)
PowerCycle ==
  /\ pc \in Ended \cup {"watch"}
  /\ \E a \in Addresses : Restart(a)
  /\ ddr' = FALSE /\ mem' = NoImage
  /\ UNCHANGED <<hostVars, open, program, output>>

(***************************************************************************)
(* The specification                                                       *)
(***************************************************************************)
HostStep ==
  \/ Open \/ MakeImage \/ SendCommand \/ SendData \/ Unanswered
  \/ ReadTimeout \/ CheckSecStatus \/ ReadResponse
  \/ Watch \/ Stop \/ Leave

Redirect == RedirectOpen \/ RedirectEnds \/ RedirectShows
Rom == RomDcd \/ RomFile \/ RomJump

Next ==
  \/ \E e \in Elfs : Start(e)
  \/ HostStep \/ Redirect \/ Rom
  \/ BoardPrints \/ BoardTakesUsb \/ BoardResets \/ PowerCycle

(* The host's calls have timeouts, and its main thread is scheduled.       *)
Spec == Init /\ [][Next]_vars /\ WF_vars(HostStep)

(***************************************************************************)
(* Properties                                                              *)
(***************************************************************************)
TypeOK ==
  /\ prog \in {"runner", "load"} /\ {cold, again, stop} \subseteq BOOLEAN
  /\ tries \in 0 .. MaxTries /\ sent \in 0 .. Len(file)
  /\ redirect \in {"off", "opening", "loop", "over"}
  /\ session \in 0 .. MaxSessions /\ misled \subseteq 1 .. MaxSessions
  /\ rom.st \in {"ready", "data", "exec", "hung", "running"}
  /\ Len(rom.got) <= rom.count
  /\ mem.of \in 0 .. MaxSessions
  /\ address \in Addresses /\ last \in Addresses
  /\ output \in 0 .. MaxOutput

(* A run that reports success, or goes on to watch the board, has made the *)
(* board execute its image; and the board executes the image of the run    *)
(* that sent the jump, whole, and not one that an earlier run has left in  *)
(* memory.  Only reports left over from an earlier run can mislead it.     *)
(* All variables keep their types.                                         *)
RunsWhatWasSent ==
  /\ TypeOK
  /\ pc \in {"watch", "flush", "leave", "done"} /\ session \notin misled =>
       program = session
  /\ rom.st = "running" /\ rom.by \notin misled => program = rom.by

(* The program that a run has started is in memory where it was linked,    *)
(* byte by byte, and starts at its entry point: the layout of the image    *)
(* crate, the chunks it is sent in and the linker scripts agree.           *)
ProgramInPlace ==
  rom.st = "running" /\ program = session => InPlace(elf, mem.image)

(* Every call ends, whatever the board does; and the runner ends when the  *)
(* board is back, and stays, under another address.                        *)
SessionsEnd ==
  /\ pc = "open" ~> pc \in Ended \cup {"watch"}
  /\ pc = "watch" /\ [](Present /\ address # last) ~> pc = "done"

=============================================================================
