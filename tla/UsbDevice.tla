------------------------------ MODULE UsbDevice ------------------------------
(***************************************************************************)
(* The USB device driver of firmware/usbarmory (usbd.rs, usbd/bus.rs)      *)
(* between its caller, the usb_device crate with the echo class of         *)
(* examples/usb.rs, and the controller, which works on the queue heads and *)
(* the registers while the driver runs.  The host enumerates the device,   *)
(* reads descriptors and exchanges messages as host/usbc does.             *)
(*                                                                         *)
(* `upset` records what has happened that the driver may not recover from. *)
(* Some of it the protocol forbids, some of it is legal and not handled:   *)
(*   "request"  the host made a standard request other than those below    *)
(*   "missing"  it asked for a descriptor that the device does not have    *)
(*   "setup"  the host sent a SETUP packet before the last transfer ended  *)
(*   "fast"   it sent one before the driver had seen the end of the last   *)
(*   "long"   a descriptor takes more than one packet                      *)
(*   "stale"  a bus reset came while a transfer was in progress            *)
(*   "slow"   a bus reset was over before the driver had handled it        *)
(*   "two"    a message was sent before the answer to the last             *)
(* A panic, or a reset of the board by the driver, starts all over.        *)
(***************************************************************************)
EXTENDS Naturals, FiniteSets

CONSTANTS
  OutSizes,  \* packet sizes the class may ask for
  InSizes,
  Packets,   \* lengths of a descriptor, in packets
  MaxBulk,   \* messages during one control transfer
  Upsets,    \* which of the above may happen
  MaxUpsets  \* and how many before a restart

ASSUME SizesAssumption == OutSizes \cup InSizes \subseteq Nat
ASSUME PacketsAssumption == Packets \subseteq Nat \ {0}
ASSUME BoundsAssumption == MaxBulk \in Nat /\ MaxUpsets \in Nat

OUT0 == <<"OUT", 0>>
IN0 == <<"IN", 0>>
OUT1 == <<"OUT", 1>>
IN1 == <<"IN", 1>>
Endpoints == {OUT0, IN0, OUT1, IN1}
Index(eps) == {e[2] : e \in eps}
Of(dir, eps) == {e \in eps : e[1] = dir}

VARIABLES
  hw,     \* the registers of the controller
  dqh,    \* the queue heads
  inner,  \* Inner
  dev,    \* the caller, and where it is in the driver
  host,   \* the host
  upset   \* history: see above

vars == <<hw, dqh, inner, dev, host, upset>>

(* A SETUP packet; the bit tells it from the packet before.  Requests are  *)
(* those of the match in read: SET_CONFIGURATION stands for SET_INTERFACE, *)
(* too, and CLEAR_FEATURE for every request of the last arm.               *)
Packet(kind, n, bit) == [kind |-> kind, len |-> n, bit |-> bit]
Setups ==
  {Packet("GET_DESCRIPTOR", n, b) : n \in Packets, b \in BOOLEAN}
    \cup {Packet("NO_DESCRIPTOR", 1, b) : b \in BOOLEAN}
    \cup {Packet(k, 0, b) : k \in {"SET_ADDRESS", "SET_CONFIGURATION", "CLEAR_FEATURE"},
                            b \in BOOLEAN}

Fatal == {"timeout", "late", "stall", "unwrap", "dma", "oom", "size", "assert", "unexpected",
          "primed"}
Reading == {"tripwire", "copy", "copying", "check", "copied"}
Places ==
  Fatal \cup Reading
    \cup {"alloc", "idle", "poll", "poll_complete", "read0", "answer", "wait", "in0",
          "class", "echo", "reset", "flush"}

TypeOK ==
  /\ hw \in [setupstat : BOOLEAN, sutw : BOOLEAN, setup : Setups, uri : BOOLEAN,
             prime : SUBSET Endpoints, stat : SUBSET Endpoints, complete : SUBSET Endpoints,
             address : BOOLEAN, ctrl : SUBSET {"RXE", "TXE"}]
  /\ dqh.current \subseteq inner.used /\ dqh.next = inner.used \ dqh.current
  /\ dqh.addr \subseteq inner.used
  /\ dqh.data \in [{OUT1, IN1} -> BOOLEAN]
  /\ inner.used \subseteq Endpoints
  /\ inner.size \in [Endpoints -> OutSizes \cup InSizes \cup {64}]
  /\ inner.bufs \in [{0, 64, 512} -> 0 .. 2]
  /\ {inner.setupstat, inner.pre_status_out, inner.status_out} \subseteq BOOLEAN
  /\ dev.pc \in Places
  /\ dev.control \in {"idle", "data_in", "data_last", "status_out", "status_in"}
  /\ {dev.copy[1], dev.copy[2], dev.handled} \subseteq Setups
  /\ host.at \in {"idle", "data", "status_out", "status_in"}
  /\ host.phase \in {"default", "addressed", "configured"}
  /\ host.waiting \in 0 .. 2 /\ host.bulk \in 0 .. MaxBulk
  /\ upset \subseteq Upsets \cup {"stale"}

NoReport == [setup |-> FALSE, in |-> {}, out |-> {}]

(* Usbd::take: no endpoint is allocated yet. *)
Boot ==
  LET first == Packet("SET_ADDRESS", 0, FALSE) IN
  [hw |-> [setupstat |-> FALSE, sutw |-> FALSE, setup |-> first, uri |-> FALSE, prime |-> {},
           stat |-> {}, complete |-> {}, address |-> FALSE, ctrl |-> {}],
   dqh |-> [current |-> {}, next |-> {}, addr |-> {}, data |-> [e \in {OUT1, IN1} |-> FALSE]],
   inner |-> [used |-> {}, size |-> [e \in Endpoints |-> 64],
              bufs |-> [s \in {0, 64, 512} |-> IF s = 0 THEN 0 ELSE 2],
              setupstat |-> FALSE, pre_status_out |-> FALSE, status_out |-> FALSE],
   dev |-> [pc |-> "alloc", seen |-> FALSE, report |-> NoReport, copy |-> <<first, first>>,
            handled |-> first, control |-> "idle", left |-> 0, pending |-> FALSE],
   host |-> [at |-> "idle", phase |-> "default", want |-> 0, message |-> FALSE,
             waiting |-> 0, bulk |-> 0, pr |-> FALSE]]

Init ==
  /\ hw = Boot.hw
  /\ dqh = Boot.dqh
  /\ inner = Boot.inner
  /\ dev = Boot.dev
  /\ host = Boot.host
  /\ upset = {}

GoTo(p) == dev' = [dev EXCEPT !.pc = p]

(* The caller goes on with d at p; a report is forgotten when it is done.  *)
At(d, p) == [d EXCEPT !.pc = p, !.report = IF p = "idle" THEN NoReport ELSE @]

-----------------------------------------------------------------------------
(* alloc_ep and enable. *)

(* Two buffers of each size (Boot), and none above 512 bytes. *)
Pool(size) == IF size <= 64 THEN 64 ELSE IF size <= 512 THEN 512 ELSE 0

(* What Caps::new asserts. *)
MaxPacketSize == 1024

(* The packet size is written first.  An OUT endpoint other than 0 gets    *)
(* its buffer here, an IN endpoint at its first write; a buffer that is    *)
(* not there is a panic.                                                   *)
alloc_ep(e, size) ==
  LET needs == e = OUT1
      fits == size <= MaxPacketSize
      found == needs => inner.bufs[Pool(size)] # 0 IN
  /\ dev.pc = "alloc"
  /\ e \notin inner.used
  /\ IF fits /\ found
       THEN /\ dqh' = [dqh EXCEPT !.next = @ \cup {e},
                                  !.addr = IF needs THEN @ \cup {e} ELSE @]
            /\ inner' = [inner EXCEPT !.used = @ \cup {e}, !.size[e] = size,
                                      !.bufs[Pool(size)] = IF needs THEN @ - 1 ELSE @]
            /\ UNCHANGED dev
       ELSE /\ GoTo(IF fits THEN "oom" ELSE "size")
            /\ inner' = [inner EXCEPT !.size[e] = size]
            /\ UNCHANGED dqh
  /\ UNCHANGED <<hw, host, upset>>

enable ==
  /\ dev.pc = "alloc"
  /\ inner.used = Endpoints
  /\ GoTo("idle")
  /\ UNCHANGED <<hw, dqh, inner, host, upset>>

-----------------------------------------------------------------------------
(* start_write: on success the packet d is in the buffer and the endpoint  *)
(* primed, and the caller goes on as `done`; when a transfer is in         *)
(* progress it goes on as `blocked`.                                       *)

(* Mutant: every write takes a buffer. *)
EveryUse(e) == TRUE

FirstUse(e) == e \notin dqh.addr
InProgress(e) == e \in dqh.current

start_write(e, d, done, blocked) ==
  LET pool == Pool(inner.size[e])
      first == FirstUse(e) IN
  /\ CASE InProgress(e) -> dev' = blocked /\ UNCHANGED <<hw, dqh, inner>>
       [] ~ InProgress(e) /\ e \notin dqh.next -> GoTo("assert") /\ UNCHANGED <<hw, dqh, inner>>
       [] ~ InProgress(e) /\ e \in dqh.next /\ first /\ inner.bufs[pool] = 0 ->
            GoTo("oom") /\ UNCHANGED <<hw, dqh, inner>>
       [] OTHER ->
            /\ dqh' = [dqh EXCEPT !.addr = @ \cup {e},
                                  !.data = IF e = IN1 THEN [@ EXCEPT ![IN1] = d] ELSE @]
            /\ inner' = [inner EXCEPT !.bufs[pool] = IF first THEN @ - 1 ELSE @]
            /\ hw' = [hw EXCEPT !.prime = @ \cup {e}]
            /\ dev' = done
  /\ UNCHANGED <<host, upset>>

-----------------------------------------------------------------------------
(* poll. *)

(* A bus reset is reported before everything else. *)
PollStatus ==
  /\ dev.pc = "idle"
  /\ GoTo(IF hw.uri THEN "reset" ELSE "poll")
  /\ UNCHANGED <<hw, dqh, inner, host, upset>>

PollSetup ==
  /\ dev.pc = "poll"
  /\ dev' = [dev EXCEPT !.pc = "poll_complete", !.seen = hw.setupstat]
  /\ UNCHANGED <<hw, dqh, inner, host, upset>>

(* What usb_device does with a report: endpoint 0 first, SETUP or OUT      *)
(* before IN.                                                              *)
AfterOut(r) == IF 0 \in r.in THEN "in0" ELSE IF 1 \in r.out THEN "class" ELSE "idle"
AfterIn(r) == IF 1 \in r.out THEN "class" ELSE "idle"
Dispatch(r) == IF r.setup \/ 0 \in r.out THEN "read0" ELSE AfterOut(r)

(* Mutant: STATUS OUT is reported together with the IN data. *)
StatusDueAtOnce(due, in) == due

(* STATUS OUT is reported after the IN data phase. *)
StatusDue(due, in) == due /\ in = {}

(* Mutant: the descriptor stays current. *)
ReleasedNever(tx) == dqh

(* end_write leaves the descriptors in place for the next transfers. *)
Released(tx) ==
  [dqh EXCEPT !.current = @ \ tx, !.next = @ \cup tx]

(* Mutant: so are the completions that STATUS OUT hides. *)
AcknowledgedAll(tx, status) == IF status THEN hw.complete ELSE tx

(* The completions of IN transfers are cleared, those of OUT transfers     *)
(* left for read.                                                          *)
Acknowledged(tx, status) == tx

PollComplete ==
  LET tx == Of("IN", hw.complete)
      out == Index(Of("OUT", hw.complete))
      in == Index(tx)
      due == inner.status_out \/ (inner.pre_status_out /\ IN0 \in tx)
      status == StatusDue(due, in)
      r == [setup |-> dev.seen, in |-> in, out |-> IF status THEN {0} ELSE out] IN
  /\ dev.pc = "poll_complete"
  /\ IF tx \subseteq dqh.current
       THEN /\ hw' = [hw EXCEPT !.complete = @ \ Acknowledged(tx, status)]
            /\ dqh' = Released(tx)
            /\ inner' = [inner EXCEPT !.setupstat = @ \/ dev.seen,
                                      !.pre_status_out = @ /\ IN0 \notin tx,
                                      !.status_out = due /\ ~ status]
            /\ dev' = [dev EXCEPT !.seen = FALSE, !.report = r, !.pc = Dispatch(r)]
       ELSE GoTo("assert") /\ UNCHANGED <<hw, dqh, inner>>
  /\ UNCHANGED <<host, upset>>

(* The controller reports an error of a transfer: memlog_flush_and_reset.  *)
TransferFailed ==
  /\ \/ dev.pc = "poll_complete" /\ Of("IN", hw.complete) # {}
     \/ dev.pc = "class" /\ OUT1 \in hw.complete
     \/ dev.pc = "wait" /\ OUT0 \in hw.complete
  /\ GoTo("dma")
  /\ UNCHANGED <<hw, dqh, inner, host, upset>>

-----------------------------------------------------------------------------
(* read on endpoint 0: a SETUP packet, copied under the tripwire. *)

ReadSetup ==
  /\ dev.pc = "read0" /\ inner.setupstat
  /\ inner' = [inner EXCEPT !.setupstat = FALSE]
  /\ hw' = [hw EXCEPT !.setupstat = FALSE]
  /\ GoTo("tripwire")
  /\ UNCHANGED <<dqh, host, upset>>

SetTripwire ==
  /\ dev.pc = "tripwire"
  /\ hw' = [hw EXCEPT !.sutw = TRUE]
  /\ GoTo("copy")
  /\ UNCHANGED <<dqh, inner, host, upset>>

(* copy_setup_bytes, in two accesses. *)
CopyFirst ==
  /\ dev.pc = "copy"
  /\ dev' = [dev EXCEPT !.pc = "copying", !.copy[1] = hw.setup]
  /\ UNCHANGED <<hw, dqh, inner, host, upset>>

CopySecond ==
  /\ dev.pc = "copying"
  /\ dev' = [dev EXCEPT !.pc = "check", !.copy[2] = hw.setup]
  /\ UNCHANGED <<hw, dqh, inner, host, upset>>

TripwireSet == hw.sutw

CheckTripwire ==
  /\ dev.pc = "check"
  /\ GoTo(IF TripwireSet THEN "copied" ELSE "tripwire")
  /\ UNCHANGED <<hw, dqh, inner, host, upset>>

(* Mutant: the bit of ENDPTSETUPSTAT is cleared at the end. *)
SetupAcknowledgedLate == [hw EXCEPT !.sutw = FALSE, !.setupstat = FALSE]

SetupAcknowledged == [hw EXCEPT !.sutw = FALSE]

(* The packet is complete: what read does on account of the request, and   *)
(* how usb_device goes on.  A request that read does not expect ends in    *)
(* memlog_flush_and_reset.                                                 *)
SetupRead ==
  LET p == dev.copy[1] IN
  /\ dev.pc = "copied"
  /\ hw' = SetupAcknowledged
  /\ inner' = [inner EXCEPT
       !.pre_status_out = @ \/ p.kind \in {"GET_DESCRIPTOR", "NO_DESCRIPTOR"}]
  /\ dev' = [dev EXCEPT
       !.pc = IF p.kind = "CLEAR_FEATURE" THEN "unexpected"
              ELSE IF p.kind = "SET_CONFIGURATION" /\ hw.ctrl # {"RXE", "TXE"} THEN "assert"
              ELSE "answer",
       !.handled = p,
       !.control = "data_in",
       !.left = p.len,
       !.pending = p.kind = "SET_ADDRESS"]
  /\ UNCHANGED <<dqh, host, upset>>

(* The next packet of a descriptor; a transfer that is still in progress   *)
(* is waited for.                                                          *)
WriteChunk(after) ==
  start_write(IN0, FALSE,
    At([dev EXCEPT !.left = @ - 1,
                   !.control = IF dev.left = 1 THEN "data_last" ELSE "data_in"], after),
    At(dev, after))

(* A descriptor that the device does not have is refused with a stall.     *)
AnswerSetup ==
  /\ dev.pc = "answer"
  /\ CASE dev.handled.kind = "GET_DESCRIPTOR" -> WriteChunk(AfterOut(dev.report))
       [] dev.handled.kind = "NO_DESCRIPTOR" ->
            GoTo("stall") /\ UNCHANGED <<hw, dqh, inner, host, upset>>
       [] OTHER -> start_write(IN0, FALSE,
            At([dev EXCEPT !.control = "status_in"], AfterOut(dev.report)),
            [dev EXCEPT !.pc = "stall"])

-----------------------------------------------------------------------------
(* read on endpoint 0, without a SETUP packet: the endpoint is primed for  *)
(* the caller's buffer, and read waits.                                    *)

ReadStatus ==
  /\ dev.pc = "read0" /\ ~ inner.setupstat
  /\ IF OUT0 \in dqh.current
       THEN GoTo("assert") /\ UNCHANGED hw
       ELSE GoTo("wait") /\ hw' = [hw EXCEPT !.prime = @ \cup {OUT0}]
  /\ UNCHANGED <<dqh, inner, host, upset>>

StatusRead ==
  /\ dev.pc = "wait"
  /\ OUT0 \in hw.complete
  /\ hw' = [hw EXCEPT !.complete = @ \ {OUT0}]
  /\ dqh' = Released({OUT0})
  /\ dev' = IF dev.control = "status_out"
              THEN At([dev EXCEPT !.control = "idle"], AfterOut(dev.report))
              ELSE [dev EXCEPT !.pc = "stall"]
  /\ UNCHANGED <<inner, host, upset>>

(* Two microframes have passed: "late" when the host was about to send. *)
StatusTimeout ==
  /\ dev.pc = "wait"
  /\ OUT0 \in hw.stat
  /\ GoTo(IF host.at = "status_out" /\ ~ host.pr THEN "late" ELSE "timeout")
  /\ UNCHANGED <<hw, dqh, inner, host, upset>>

-----------------------------------------------------------------------------
(* The end of an IN transfer on endpoint 0. *)

(* enable_ep for every allocated endpoint. *)
Enabled == {IF e[1] = "OUT" THEN "RXE" ELSE "TXE" : e \in inner.used}

set_device_address ==
  hw' = [hw EXCEPT !.address = TRUE, !.ctrl = Enabled,
                   !.prime = @ \cup (inner.used \cap {OUT1})]

InComplete0 ==
  LET after == AfterIn(dev.report) IN
  /\ dev.pc = "in0"
  /\ \/ dev.control = "data_in" /\ WriteChunk(after)
     \/ /\ dev.control \in {"data_last", "idle"}
        /\ dev' = At([dev EXCEPT !.control = IF @ = "idle" THEN "idle" ELSE "status_out"], after)
        /\ UNCHANGED <<hw, dqh, inner, host, upset>>
     \/ /\ dev.control = "status_in"
        /\ dev' = At([dev EXCEPT !.control = "idle", !.pending = FALSE], after)
        /\ IF dev.pending THEN set_device_address ELSE UNCHANGED hw
        /\ UNCHANGED <<dqh, inner, host, upset>>
     \/ /\ dev.control = "status_out"
        /\ GoTo("stall")
        /\ UNCHANGED <<hw, dqh, inner, host, upset>>

-----------------------------------------------------------------------------
(* The echo class: read on endpoint 1, and a write of what was read. *)

(* Mutant: the completion is left for the next poll. *)
ReadBulkAgain ==
  /\ dev.pc = "class"
  /\ IF OUT1 \in hw.complete
       THEN /\ hw' = [hw EXCEPT !.prime = @ \cup {OUT1}]
            /\ dqh' = Released({OUT1})
            /\ GoTo("echo")
       ELSE GoTo("unwrap") /\ UNCHANGED <<hw, dqh>>
  /\ UNCHANGED <<inner, host, upset>>

ReadBulk ==
  /\ dev.pc = "class"
  /\ CASE OUT1 \notin hw.complete -> GoTo("unwrap") /\ UNCHANGED <<hw, dqh>>
       [] OUT1 \in hw.complete \ dqh.current -> GoTo("assert") /\ UNCHANGED <<hw, dqh>>
       [] OTHER ->
            /\ hw' = [hw EXCEPT !.complete = @ \ {OUT1}, !.prime = @ \cup {OUT1}]
            /\ dqh' = Released({OUT1})
            /\ GoTo("echo")
  /\ UNCHANGED <<inner, host, upset>>

Echo ==
  /\ dev.pc = "echo"
  /\ start_write(IN1, dqh.data[OUT1],
       At(dev, "idle"), At(dev, "unwrap"))

-----------------------------------------------------------------------------
(* reset. *)

(* History: a SETUP packet from before the reset needs no answer. *)
ResetClear ==
  /\ dev.pc = "reset"
  /\ hw' = [hw EXCEPT !.setupstat = FALSE, !.complete = {}]
  /\ dev' = [dev EXCEPT !.pc = "flush", !.handled = IF host.pr THEN hw.setup ELSE @]
  /\ UNCHANGED <<dqh, inner, host, upset>>

(* What the driver keeps of a transfer that is cancelled. *)
Stale == dqh.current # {} \/ inner.pre_status_out \/ inner.status_out

ResetFlush ==
  /\ dev.pc = "flush"
  /\ hw.prime = {}
  /\ hw' = [hw EXCEPT !.stat = {}, !.uri = FALSE]
  /\ dev' = [dev EXCEPT !.pc = "idle", !.control = "idle", !.pending = FALSE]
  /\ upset' = upset \cup {u \in {"stale"} : Stale}
  /\ UNCHANGED <<dqh, inner, host>>

(* An endpoint stays in ENDPTPRIME for two frames.                         *)
ResetTimeout ==
  /\ dev.pc = "flush"
  /\ hw.prime # {}
  /\ GoTo("primed")
  /\ UNCHANGED <<hw, dqh, inner, host, upset>>

Driver ==
  \/ \E e \in {OUT0, IN0} : alloc_ep(e, 64)
  \/ \E s \in OutSizes : alloc_ep(OUT1, s)
  \/ \E s \in InSizes : alloc_ep(IN1, s)
  \/ enable
  \/ PollStatus \/ PollSetup \/ PollComplete \/ TransferFailed
  \/ ReadSetup \/ SetTripwire \/ CopyFirst \/ CopySecond \/ CheckTripwire \/ SetupRead
  \/ AnswerSetup \/ ReadStatus \/ StatusRead \/ StatusTimeout
  \/ InComplete0 \/ ReadBulk \/ Echo
  \/ ResetClear \/ ResetFlush \/ ResetTimeout

-----------------------------------------------------------------------------
(* The controller loads the next descriptor of a primed endpoint. *)
Prime(e) ==
  /\ e \in hw.prime
  /\ IF e \in dqh.next
       THEN /\ hw' = [hw EXCEPT !.prime = @ \ {e}, !.stat = @ \cup {e}]
            /\ dqh' = [dqh EXCEPT !.current = @ \cup {e}, !.next = @ \ {e}]
       ELSE hw' = [hw EXCEPT !.prime = @ \ {e}] /\ UNCHANGED dqh
  /\ UNCHANGED <<inner, dev, host, upset>>

(* A packet is exchanged on an endpoint that is ready. *)
Transferred(e) == [hw EXCEPT !.stat = @ \ {e}, !.complete = @ \cup {e}]
May(u) == u \in Upsets /\ Cardinality(upset) < MaxUpsets
Online == ~ host.pr /\ dev.pc \notin Fatal \cup {"alloc"}
Ready(e) == Online /\ e \in hw.stat

SendSetup(p) ==
  /\ Online
  /\ host.at = "idle" \/ May("setup")
  /\ IN0 \in hw.complete => May("fast")
  /\ p.bit # hw.setup.bit
  /\ p.kind = "SET_ADDRESS" => host.phase = "default"
  /\ p.kind = "SET_CONFIGURATION" => host.phase # "default"
  /\ host.phase # "default" => hw.address
  /\ p.len > 1 => May("long")
  /\ p.kind = "CLEAR_FEATURE" => May("request")
  /\ p.kind = "NO_DESCRIPTOR" => May("missing")
  /\ hw' = [hw EXCEPT !.setup = p, !.setupstat = TRUE, !.sutw = FALSE]
  /\ host' = [host EXCEPT !.at = IF p.len > 0 THEN "data" ELSE "status_in",
                          !.want = p.len, !.bulk = 0]
  /\ upset' = upset \cup {u \in {"setup"} : host.at # "idle"}
                    \cup {u \in {"fast"} : IN0 \in hw.complete}
                    \cup {u \in {"long"} : p.len > 1}
                    \cup {u \in {"request"} : p.kind = "CLEAR_FEATURE"}
                    \cup {u \in {"missing"} : p.kind = "NO_DESCRIPTOR"}
  /\ UNCHANGED <<dqh, inner, dev>>

TakeIn0 ==
  /\ Ready(IN0)
  /\ host.at \in {"data", "status_in"}
  /\ hw' = Transferred(IN0)
  /\ host' = IF host.at = "data"
       THEN [host EXCEPT !.want = @ - 1, !.at = IF host.want = 1 THEN "status_out" ELSE @]
       ELSE [host EXCEPT !.at = "idle",
              !.phase = IF hw.setup.kind = "SET_ADDRESS" THEN "addressed" ELSE "configured"]
  /\ UNCHANGED <<dqh, inner, dev, upset>>

SendStatus ==
  /\ Ready(OUT0)
  /\ host.at = "status_out"
  /\ hw' = Transferred(OUT0)
  /\ host' = [host EXCEPT !.at = "idle"]
  /\ UNCHANGED <<dqh, inner, dev, upset>>

SendMessage ==
  /\ Ready(OUT1)
  /\ host.phase = "configured"
  /\ host.waiting = 0 \/ (host.waiting = 1 /\ May("two"))
  /\ host.at = "idle" \/ host.bulk < MaxBulk
  /\ hw' = Transferred(OUT1)
  /\ dqh' = [dqh EXCEPT !.data[OUT1] = ~ host.message]
  /\ host' = [host EXCEPT !.message = ~ @, !.waiting = @ + 1,
                          !.bulk = IF host.at = "idle" THEN 0 ELSE @ + 1]
  /\ upset' = upset \cup {u \in {"two"} : host.waiting = 1}
  /\ UNCHANGED <<inner, dev>>

TakeAnswer ==
  /\ Ready(IN1)
  /\ host.waiting > 0
  /\ hw' = Transferred(IN1)
  /\ host' = [host EXCEPT !.waiting = @ - 1]
  /\ UNCHANGED <<dqh, inner, dev, upset>>

StartReset ==
  /\ Online
  /\ (host.at = "idle" /\ host.waiting = 0) \/ May("stale")
  /\ hw' = [hw EXCEPT !.uri = TRUE, !.address = FALSE]
  /\ host' = [host EXCEPT !.pr = TRUE, !.at = "idle", !.phase = "default", !.waiting = 0,
                          !.want = 0, !.bulk = 0]
  /\ upset' = upset \cup {u \in {"stale"} : host.at # "idle" \/ host.waiting > 0}
  /\ UNCHANGED <<dqh, inner, dev>>

EndReset ==
  /\ host.pr
  /\ hw.uri => May("slow")
  /\ host' = [host EXCEPT !.pr = FALSE]
  /\ upset' = upset \cup {u \in {"slow"} : hw.uri}
  /\ UNCHANGED <<hw, dqh, inner, dev>>

Restart ==
  /\ dev.pc \in Fatal
  /\ hw' = Boot.hw
  /\ dqh' = Boot.dqh
  /\ inner' = Boot.inner
  /\ dev' = Boot.dev
  /\ host' = Boot.host
  /\ upset' = {}

Priming == \E e \in Endpoints : Prime(e)
Transfer == TakeIn0 \/ SendStatus \/ TakeAnswer

Next ==
  \/ Driver
  \/ Priming
  \/ Transfer
  \/ \E p \in Setups : SendSetup(p)
  \/ SendMessage
  \/ StartReset \/ EndReset
  \/ Restart

Spec == Init /\ [][Next]_vars

(* The caller polls in a loop, the controller primes, and the host does    *)
(* its part of a transfer it has begun.                                    *)
FairSpec ==
  /\ Spec
  /\ WF_vars(Driver) /\ WF_vars(EndReset)
  /\ \A e \in Endpoints : WF_vars(Prime(e))
  /\ WF_vars(TakeIn0) /\ WF_vars(SendStatus) /\ WF_vars(TakeAnswer)

-----------------------------------------------------------------------------
(* Properties. *)

(* The SETUP packet that read returns was received as it is: the tripwire  *)
(* catches every packet that arrives while it is copied (bus.rs:368).  And *)
(* the last one is pending or has been returned by read, whenever it       *)
(* arrives, unless a bus reset was handled too late (bus.rs:366).          *)
SetupDelivered ==
  /\ dev.pc = "answer" => dev.copy[1] = dev.copy[2]
  /\ "slow" \notin upset =>
       hw.setup = dev.handled \/ hw.setupstat \/ dev.pc \in Reading

(* None of the driver's assertions on its queues and registers fails and   *)
(* none of its UNREACHABLE places is reached, whatever the host does.  The *)
(* buffers suffice if packets are of up to 512 bytes and those of one      *)
(* endpoint of the class at least of more than 64 (b64s, b512s, and the    *)
(* unimplemented! above), and Caps::new asserts sizes of up to 1024 bytes. *)
NoPanic ==
  /\ dev.pc # "assert"
  /\ dev.pc = "oom" =>
       \/ \E e \in {OUT1, IN1} : inner.size[e] > 512
       \/ inner.size[OUT1] <= 64 /\ inner.size[IN1] <= 64
  /\ dev.pc = "size" => \E e \in {OUT1, IN1} : inner.size[e] > MaxPacketSize

(* A host that keeps to the protocol, and to the requests the driver       *)
(* knows, does not bring the driver to a stall, which it does not          *)
(* implement, to wait for a STATUS packet that does not come, or the class *)
(* to an error: STATUS OUT is reported after the IN data phase and every   *)
(* completion once (bus.rs:301).  The board is reset on account of a       *)
(* request (bus.rs:413) only if the host made it: a packet read while      *)
(* another arrives is never taken for one.                                 *)
Survives ==
  /\ dev.pc \in {"timeout", "stall", "unwrap"} => upset # {}
  /\ dev.pc = "unexpected" => "request" \in upset

(* Unless a bus reset cancelled one, a transfer that start_write waits for *)
(* is in progress or about to be reported, and endpoint 1 is always ready  *)
(* for a message after SET_ADDRESS (end_write, read); all variables keep   *)
(* their types.                                                            *)
InStep ==
  /\ TypeOK
  /\ upset \cap {"stale", "slow"} = {} /\ ~ hw.uri =>
       /\ Of("IN", dqh.current) \subseteq hw.stat \cup hw.complete
       /\ hw.address => OUT1 \in hw.prime \cup hw.stat \cup hw.complete

(* The host gets its own message back (read and start_write on endpoint 1).*)
EchoIsOwn == Ready(IN1) /\ upset = {} => dqh.data[IN1] = host.message

(* Every control transfer ends, and every message is answered, as long as  *)
(* nothing upsets the driver and the board is not reset.                   *)
Unsettled == dev.pc \in Fatal \/ upset # {}
HostServed ==
  /\ host.at # "idle" ~> host.at = "idle" \/ Unsettled
  /\ host.waiting > 0 ~> host.waiting = 0 \/ Unsettled

=============================================================================
