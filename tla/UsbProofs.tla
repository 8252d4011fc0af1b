----------------------------- MODULE UsbProofs -----------------------------
(***************************************************************************)
(* UsbDevice holds what its run checks, for every size of packet, every    *)
(* length of a descriptor, every bound and every set of upsets:            *)
(* SetupDelivered, NoPanic, Survives, InStep and EchoIsOwn.                *)
(*                                                                         *)
(* The proof has two invariants.  DriverInv is what the driver and the     *)
(* controller keep whatever the host does; it gives SetupDelivered,        *)
(* NoPanic and InStep.  StageInv is what holds as long as nothing upsets   *)
(* the driver: a control transfer is in one of a few stages, the bus is    *)
(* reset between transfers only, and one message at a time is with the     *)
(* class or its answer with the controller; it gives Survives and          *)
(* EchoIsOwn.  A request the driver does not know is pending or being read *)
(* only after the host made one (RequestsInv).                             *)
(*                                                                         *)
(* The actions are first described by the fields they change (the lemmas   *)
(* named Effect), then each part of an invariant is shown to be preserved  *)
(* by every step (the lemmas named Step).                                  *)
(***************************************************************************)
EXTENDS UsbDevice, Integers, TLAPS

(***************************************************************************)
(* Types.                                                                  *)
(***************************************************************************)
Controls == {"idle", "data_in", "data_last", "status_out", "status_in"}
Sizes == OutSizes \cup InSizes \cup {64}

Hws == [setupstat : BOOLEAN, sutw : BOOLEAN, setup : Setups, uri : BOOLEAN,
        prime : SUBSET Endpoints, stat : SUBSET Endpoints, complete : SUBSET Endpoints,
        address : BOOLEAN, ctrl : SUBSET {"RXE", "TXE"}]
Dqhs == [current : SUBSET Endpoints, next : SUBSET Endpoints, addr : SUBSET Endpoints,
         data : [{OUT1, IN1} -> BOOLEAN]]
Inners == [used : SUBSET Endpoints, size : [Endpoints -> Sizes], bufs : [{0, 64, 512} -> 0 .. 2],
           setupstat : BOOLEAN, pre_status_out : BOOLEAN, status_out : BOOLEAN]
Reports == [setup : BOOLEAN, in : SUBSET {0, 1}, out : SUBSET {0, 1}]
Devs == [pc : Places, seen : BOOLEAN, report : Reports, copy : [1 .. 2 -> Setups],
         handled : Setups, control : Controls, left : Int, pending : BOOLEAN]
Hosts == [at : {"idle", "data", "status_out", "status_in"},
          phase : {"default", "addressed", "configured"}, want : Int, message : BOOLEAN,
          waiting : 0 .. 2, bulk : 0 .. MaxBulk, pr : BOOLEAN]

Types ==
  /\ hw \in Hws
  /\ dqh \in Dqhs
  /\ inner \in Inners
  /\ dev \in Devs
  /\ host \in Hosts
  /\ upset \subseteq Upsets \cup {"stale"}

(* Four endpoints, each known by its direction and its number. *)
LEMMA EndpointFacts ==
  /\ OUT0 # IN0 /\ OUT0 # OUT1 /\ OUT0 # IN1 /\ IN0 # OUT1 /\ IN0 # IN1 /\ OUT1 # IN1
  /\ OUT0 \in Endpoints /\ IN0 \in Endpoints /\ OUT1 \in Endpoints /\ IN1 \in Endpoints
  /\ \A e \in Endpoints : e \in {OUT0, IN0, OUT1, IN1}
  /\ OUT0[1] = "OUT" /\ OUT0[2] = 0 /\ IN0[1] = "IN" /\ IN0[2] = 0
  /\ OUT1[1] = "OUT" /\ OUT1[2] = 1 /\ IN1[1] = "IN" /\ IN1[2] = 1
BY DEF OUT0, IN0, OUT1, IN1, Endpoints

(* The endpoints of a direction, and their numbers. *)
LEMMA OfFacts ==
  ASSUME NEW eps \in SUBSET Endpoints
  PROVE  /\ Of("IN", eps) = eps \cap {IN0, IN1}
         /\ Of("OUT", eps) = eps \cap {OUT0, OUT1}
         /\ Index(Of("IN", eps)) \in SUBSET {0, 1}
         /\ Index(Of("OUT", eps)) \in SUBSET {0, 1}
         /\ 0 \in Index(Of("IN", eps)) <=> IN0 \in eps
         /\ 1 \in Index(Of("IN", eps)) <=> IN1 \in eps
         /\ 0 \in Index(Of("OUT", eps)) <=> OUT0 \in eps
         /\ 1 \in Index(Of("OUT", eps)) <=> OUT1 \in eps
         /\ Index(Of("IN", eps)) = {} <=> IN0 \notin eps /\ IN1 \notin eps
<1>1. Of("IN", eps) = eps \cap {IN0, IN1}
  BY EndpointFacts DEF Of
<1>2. Of("OUT", eps) = eps \cap {OUT0, OUT1}
  BY EndpointFacts DEF Of
<1>. QED
  BY <1>1, <1>2, EndpointFacts DEF Index

Kinds == {"GET_DESCRIPTOR", "NO_DESCRIPTOR", "SET_ADDRESS", "SET_CONFIGURATION",
          "CLEAR_FEATURE"}

(* What a SETUP packet is; only a descriptor has a data phase. *)
LEMMA SetupFacts ==
  /\ Packet("SET_ADDRESS", 0, FALSE) \in Setups
  /\ \A p \in Setups :
       /\ p.kind \in Kinds
       /\ p.len \in Nat
       /\ p.len > 0 <=> p.kind \in {"GET_DESCRIPTOR", "NO_DESCRIPTOR"}
<1>1. Packet("SET_ADDRESS", 0, FALSE) \in Setups
  <2>1. PICK b \in BOOLEAN : b = FALSE
    OBVIOUS
  <2>2. Packet("SET_ADDRESS", 0, b) \in Setups
    BY SMT DEF Setups
  <2>. QED
    BY <2>1, <2>2
<1>2. ASSUME NEW p \in Setups
      PROVE  /\ p.kind \in Kinds
             /\ p.len \in Nat
             /\ p.len > 0 <=> p.kind \in {"GET_DESCRIPTOR", "NO_DESCRIPTOR"}
  <2>1. CASE \E n \in Packets, b \in BOOLEAN : p = Packet("GET_DESCRIPTOR", n, b)
    BY <2>1, PacketsAssumption DEF Packet, Kinds
  <2>2. CASE \E b \in BOOLEAN : p = Packet("NO_DESCRIPTOR", 1, b)
    BY <2>2 DEF Packet, Kinds
  <2>3. CASE \E k \in {"SET_ADDRESS", "SET_CONFIGURATION", "CLEAR_FEATURE"}, b \in BOOLEAN :
               p = Packet(k, 0, b)
    BY <2>3 DEF Packet, Kinds
  <2>4. \/ \E n \in Packets, b \in BOOLEAN : p = Packet("GET_DESCRIPTOR", n, b)
        \/ \E b \in BOOLEAN : p = Packet("NO_DESCRIPTOR", 1, b)
        \/ \E k \in {"SET_ADDRESS", "SET_CONFIGURATION", "CLEAR_FEATURE"}, b \in BOOLEAN :
             p = Packet(k, 0, b)
    BY <1>2, SMT DEF Setups
  <2>. QED
    BY <2>1, <2>2, <2>3, <2>4
<1>. QED
  BY <1>1, <1>2

(* A pair of packets. *)
LEMMA PairOfSetups ==
  ASSUME NEW p \in Setups
  PROVE  <<p, p>> \in [1 .. 2 -> Setups]
OBVIOUS

(* What the controller, the queue heads and the host have at boot. *)
LEMMA BootTypes ==
  /\ Boot.hw \in Hws /\ Boot.dqh \in Dqhs /\ Boot.inner \in Inners
  /\ Boot.dev \in Devs /\ Boot.host \in Hosts
<1>1. PICK first \in Setups : first = Packet("SET_ADDRESS", 0, FALSE)
  BY SetupFacts
<1>2. Boot.hw \in Hws
  BY <1>1 DEF Boot, Hws
<1>3. Boot.dqh \in Dqhs
  BY DEF Boot, Dqhs
<1>4. Boot.inner \in Inners
  BY DEF Boot, Inners, Sizes
<1>5. Boot.dev \in Devs
  <2>1. <<first, first>> \in [1 .. 2 -> Setups]
    BY PairOfSetups
  <2>2. NoReport \in Reports
    BY DEF NoReport, Reports
  <2>3. Boot.dev = [pc |-> "alloc", seen |-> FALSE, report |-> NoReport, copy |-> <<first, first>>,
            handled |-> first, control |-> "idle", left |-> 0, pending |-> FALSE]
    BY <1>1 DEF Boot
  <2>. QED
    BY <2>1, <2>2, <2>3 DEF Devs, Places, Controls
<1>6. Boot.host \in Hosts
  BY BoundsAssumption DEF Boot, Hosts
<1>. QED
  BY <1>2, <1>3, <1>4, <1>5, <1>6

(* At `p`, with the report forgotten when p is "idle". *)
LEMMA AtFacts ==
  ASSUME NEW d \in Devs, NEW p \in Places
  PROVE  /\ At(d, p) \in Devs
         /\ At(d, p).pc = p
         /\ At(d, p).report = (IF p = "idle" THEN NoReport ELSE d.report)
         /\ At(d, p).seen = d.seen /\ At(d, p).copy = d.copy /\ At(d, p).handled = d.handled
         /\ At(d, p).control = d.control /\ At(d, p).left = d.left /\ At(d, p).pending = d.pending
<1>1. NoReport \in Reports
  BY DEF NoReport, Reports
<1>. QED
  BY <1>1 DEF At, Devs

(* Going to `p` changes nothing else. *)
LEMMA GoToFacts ==
  ASSUME NEW p \in Places, dev \in Devs, GoTo(p)
  PROVE  /\ dev' \in Devs
         /\ dev'.pc = p
         /\ dev'.report = dev.report
         /\ dev'.seen = dev.seen /\ dev'.copy = dev.copy /\ dev'.handled = dev.handled
         /\ dev'.control = dev.control /\ dev'.left = dev.left /\ dev'.pending = dev.pending
BY DEF GoTo, Devs

(* Where usb_device goes on after a report. *)
LEMMA AfterFacts ==
  ASSUME NEW r \in Reports
  PROVE  /\ AfterOut(r) \in Places /\ AfterIn(r) \in Places /\ Dispatch(r) \in Places
BY DEF AfterOut, AfterIn, Dispatch, Places

(* All places. *)
LEMMA PlaceFacts ==
  /\ Fatal \subseteq Places /\ Reading \subseteq Places
  /\ \A p \in {"timeout", "late", "stall", "unwrap", "dma", "oom", "size", "assert",
               "unexpected", "primed", "tripwire", "copy", "copying", "check", "copied", "alloc", "idle",
               "poll", "poll_complete", "read0", "answer", "wait", "in0", "class", "echo", "reset", "flush"} : p \in Places
BY DEF Places, Fatal, Reading

(***************************************************************************)
(* What the actions do, field by field.                                    *)
(***************************************************************************)
Same(r, s, fields) == \A f \in fields : r[f] = s[f]

(* alloc_ep: an endpoint is added, and OUT1 takes a buffer.                *)
Added(e, size) ==
  /\ size <= MaxPacketSize /\ (e = OUT1 => inner.bufs[Pool(size)] # 0)
  /\ UNCHANGED dev /\ dqh' \in Dqhs /\ inner' \in Inners
  /\ dqh'.next = dqh.next \cup {e}
  /\ dqh'.addr = dqh.addr \cup ({e} \cap {OUT1})
  /\ Same(dqh', dqh, {"current", "data"})
  /\ inner'.used = inner.used \cup {e}
  /\ inner'.size = [inner.size EXCEPT ![e] = size]
  /\ inner'.bufs = (IF e = OUT1
       THEN [inner.bufs EXCEPT ![Pool(size)] = @ - 1] ELSE inner.bufs)
  /\ Same(inner', inner, {"setupstat", "pre_status_out", "status_out"})

(* It panics: the packets are too large, or there is no buffer for them.   *)
Unfit(e, size) ==
  /\ GoTo(IF size <= MaxPacketSize THEN "oom" ELSE "size")
  /\ size <= MaxPacketSize => e = OUT1 /\ inner.bufs[Pool(size)] = 0
  /\ UNCHANGED dqh /\ inner' \in Inners
  /\ inner'.size = [inner.size EXCEPT ![e] = size]
  /\ Same(inner', inner, {"used", "bufs", "setupstat", "pre_status_out", "status_out"})

(* alloc_ep adds an endpoint, or panics. *)
LEMMA AllocEffect ==
  ASSUME Types, NEW e \in Endpoints, NEW size \in Sizes, alloc_ep(e, size)
  PROVE  /\ dev.pc = "alloc" /\ e \notin inner.used /\ UNCHANGED <<hw, host, upset>>
         /\ Unfit(e, size) \/ Added(e, size)
<1>1. dev.pc = "alloc" /\ e \notin inner.used /\ UNCHANGED <<hw, host, upset>>
  BY DEF alloc_ep
<1>2. CASE ~ (size <= MaxPacketSize /\ (e = OUT1 => inner.bufs[Pool(size)] # 0))
  <2>1. /\ GoTo(IF size <= MaxPacketSize THEN "oom" ELSE "size")
        /\ inner' = [inner EXCEPT !.size = [@ EXCEPT ![e] = size]]
        /\ UNCHANGED dqh
    BY <1>2 DEF alloc_ep
  <2>2. inner \in Inners
    BY DEF Types
  <2>3. /\ inner'.size = [inner.size EXCEPT ![e] = size]
        /\ Same(inner', inner, {"used", "bufs", "setupstat", "pre_status_out", "status_out"})
        /\ inner' = [used |-> inner'.used, size |-> inner'.size, bufs |-> inner'.bufs,
             setupstat |-> inner'.setupstat, pre_status_out |-> inner'.pre_status_out,
             status_out |-> inner'.status_out]
    BY <2>1, <2>2 DEF Inners, Same
  <2>4. inner' \in Inners
    BY <2>2, <2>3 DEF Inners, Same
  <2>. QED
    BY <1>1, <1>2, <2>1, <2>3, <2>4 DEF Unfit
<1>3. CASE size <= MaxPacketSize /\ (e = OUT1 => inner.bufs[Pool(size)] # 0)
  <2>. DEFINE pool == Pool(size)
  <2>1. pool \in {0, 64, 512}
    BY DEF Pool
  <2>2. /\ dqh' = [dqh EXCEPT !.next = @ \cup {e},
                              !.addr = IF e = OUT1 THEN @ \cup {e} ELSE @]
        /\ inner' = [inner EXCEPT !.used = @ \cup {e}, !.size[e] = size,
                                  !.bufs[pool] = IF e = OUT1 THEN @ - 1 ELSE @]
        /\ UNCHANGED dev
    BY <1>3 DEF alloc_ep
  <2>3. dqh \in Dqhs /\ inner \in Inners
    BY DEF Types
  <2>. HIDE DEF pool
  <2>4. /\ dqh' \in Dqhs
        /\ dqh'.next = dqh.next \cup {e}
        /\ dqh'.addr = dqh.addr \cup ({e} \cap {OUT1})
        /\ Same(dqh', dqh, {"current", "data"})
    BY <2>2, <2>3 DEF Dqhs, Same
  <2>5. /\ inner'.used = inner.used \cup {e}
        /\ inner'.size = [inner.size EXCEPT ![e] = size]
        /\ inner'.bufs = [inner.bufs EXCEPT ![pool] = IF e = OUT1 THEN @ - 1 ELSE @]
        /\ Same(inner', inner, {"setupstat", "pre_status_out", "status_out"})
        /\ inner' = [used |-> inner'.used, size |-> inner'.size, bufs |-> inner'.bufs,
             setupstat |-> inner'.setupstat, pre_status_out |-> inner'.pre_status_out,
             status_out |-> inner'.status_out]
    BY <2>2, <2>3 DEF Inners, Same
  <2>6. /\ inner'.bufs = (IF e = OUT1 THEN [inner.bufs EXCEPT ![pool] = @ - 1] ELSE inner.bufs)
        /\ inner'.bufs \in [{0, 64, 512} -> 0 .. 2]
        /\ inner'.size \in [Endpoints -> Sizes]
    BY <1>3, <2>1, <2>3, <2>5 DEF Inners, pool
  <2>7. inner' \in Inners
    BY <2>3, <2>5, <2>6 DEF Inners, Same
  <2>. QED
    BY <1>1, <1>3, <2>2, <2>4, <2>5, <2>6, <2>7 DEF pool, Added
<1>. QED
  BY <1>2, <1>3

(* start_write: a transfer is in progress, something is missing, or the    *)
(* endpoint is primed.                                                     *)
Blocked(e) == e \in dqh.current /\ UNCHANGED <<hw, dqh, inner>>

Refused(e) ==
  /\ e \notin dqh.current
  /\ \/ e \notin dqh.next /\ GoTo("assert")
     \/ e \notin dqh.addr /\ inner.bufs[Pool(inner.size[e])] = 0 /\ GoTo("oom")
  /\ UNCHANGED <<hw, dqh, inner>>

Primed(e, d) ==
  /\ e \in dqh.next \ dqh.current
  /\ e \notin dqh.addr => inner.bufs[Pool(inner.size[e])] # 0
  /\ hw' \in Hws /\ dqh' \in Dqhs /\ inner' \in Inners
  /\ hw'.prime = hw.prime \cup {e}
  /\ Same(hw', hw, {"setupstat", "sutw", "setup", "uri", "stat", "complete", "address", "ctrl"})
  /\ dqh'.addr = dqh.addr \cup {e}
  /\ dqh'.data[OUT1] = dqh.data[OUT1]
  /\ dqh'.data[IN1] = (IF e = IN1 THEN d ELSE dqh.data[IN1])
  /\ Same(dqh', dqh, {"current", "next"})
  /\ inner'.bufs = (IF e \in dqh.addr THEN inner.bufs
       ELSE [inner.bufs EXCEPT ![Pool(inner.size[e])] = @ - 1])
  /\ Same(inner', inner, {"used", "size", "setupstat", "pre_status_out", "status_out"})

(* start_write ends in one of the three ways. *)
LEMMA WriteEffect ==
  ASSUME Types, NEW e \in Endpoints, NEW d \in BOOLEAN, NEW done, NEW blocked,
         start_write(e, d, done, blocked)
  PROVE  /\ UNCHANGED <<host, upset>>
         /\ \/ Blocked(e) /\ dev' = blocked
            \/ Refused(e)
            \/ Primed(e, d) /\ dev' = done
<1>1. UNCHANGED <<host, upset>>
  BY DEF start_write
<1>2. CASE InProgress(e)
  BY <1>1, <1>2 DEF start_write, InProgress, Blocked
<1>3. CASE ~ InProgress(e) /\ e \notin dqh.next
  BY <1>1, <1>3 DEF start_write, InProgress, Refused
<1>4. CASE ~ InProgress(e) /\ e \in dqh.next /\ FirstUse(e) /\ inner.bufs[Pool(inner.size[e])] = 0
  BY <1>1, <1>4 DEF start_write, InProgress, FirstUse, Refused
<1>5. CASE ~ InProgress(e) /\ e \in dqh.next
             /\ ~ (FirstUse(e) /\ inner.bufs[Pool(inner.size[e])] = 0)
  <2>. DEFINE pool == Pool(inner.size[e])
  <2>1. /\ dqh' = [dqh EXCEPT !.addr = @ \cup {e},
                              !.data = IF e = IN1 THEN [@ EXCEPT ![IN1] = d] ELSE @]
        /\ inner' = [inner EXCEPT !.bufs[pool] = IF FirstUse(e) THEN @ - 1 ELSE @]
        /\ hw' = [hw EXCEPT !.prime = @ \cup {e}]
        /\ dev' = done
    BY <1>5 DEF start_write
  <2>2. hw \in Hws /\ dqh \in Dqhs /\ inner \in Inners
    BY DEF Types
  <2>3. pool \in {0, 64, 512}
    BY DEF Pool
  <2>. HIDE DEF pool
  <2>4. /\ hw' \in Hws
        /\ hw'.prime = hw.prime \cup {e}
        /\ Same(hw', hw, {"setupstat", "sutw", "setup", "uri", "stat", "complete", "address",
                          "ctrl"})
    BY <2>1, <2>2 DEF Hws, Same
  <2>5. /\ dqh'.addr = dqh.addr \cup {e}
        /\ dqh'.data = (IF e = IN1 THEN [dqh.data EXCEPT ![IN1] = d] ELSE dqh.data)
        /\ Same(dqh', dqh, {"current", "next"})
        /\ dqh' = [current |-> dqh'.current, next |-> dqh'.next, addr |-> dqh'.addr,
                   data |-> dqh'.data]
    BY <2>1, <2>2 DEF Dqhs, Same
  <2>6. /\ dqh' \in Dqhs
        /\ dqh'.data[OUT1] = dqh.data[OUT1]
        /\ dqh'.data[IN1] = (IF e = IN1 THEN d ELSE dqh.data[IN1])
    BY <2>2, <2>5, EndpointFacts DEF Dqhs, Same
  <2>7. /\ inner'.bufs = [inner.bufs EXCEPT ![pool] = IF FirstUse(e) THEN @ - 1 ELSE @]
        /\ Same(inner', inner, {"used", "size", "setupstat", "pre_status_out", "status_out"})
        /\ inner' = [used |-> inner'.used, size |-> inner'.size, bufs |-> inner'.bufs,
             setupstat |-> inner'.setupstat, pre_status_out |-> inner'.pre_status_out,
             status_out |-> inner'.status_out]
    BY <2>1, <2>2 DEF Inners, Same
  <2>8. /\ inner'.bufs = (IF e \in dqh.addr
             THEN inner.bufs ELSE [inner.bufs EXCEPT ![pool] = @ - 1])
        /\ inner'.bufs \in [{0, 64, 512} -> 0 .. 2]
    BY <1>5, <2>2, <2>3, <2>7 DEF Inners, FirstUse, pool
  <2>9. inner' \in Inners
    BY <2>2, <2>7, <2>8 DEF Inners, Same
  <2>. QED
    BY <1>1, <1>5, <2>1, <2>4, <2>5, <2>6, <2>7, <2>8, <2>9
    DEF InProgress, FirstUse, Primed, pool
<1>. QED
  BY <1>2, <1>3, <1>4, <1>5

(* The flags of endpoint 0 are written, and nothing else of Inner.         *)
Flagged(a, b, c) ==
  inner' = [inner EXCEPT !.setupstat = a, !.pre_status_out = b, !.status_out = c]

(* Only the three flags change. *)
LEMMA FlagsEffect ==
  ASSUME inner \in Inners, NEW a \in BOOLEAN, NEW b \in BOOLEAN, NEW c \in BOOLEAN,
         Flagged(a, b, c)
  PROVE  /\ inner' \in Inners
         /\ inner'.setupstat = a /\ inner'.pre_status_out = b /\ inner'.status_out = c
         /\ Same(inner', inner, {"used", "size", "bufs"})
<1>1. inner'.setupstat = a /\ inner'.pre_status_out = b /\ inner'.status_out = c
      /\ Same(inner', inner, {"used", "size", "bufs"})
  BY DEF Inners, Same, Flagged
<1>2. inner' = [used |-> inner'.used, size |-> inner'.size, bufs |-> inner'.bufs,
                setupstat |-> a, pre_status_out |-> b, status_out |-> c]
  BY DEF Inners, Flagged
<1>3. inner' \in Inners
  BY <1>1, <1>2 DEF Inners, Same
<1>. QED
  BY <1>1, <1>3

(* poll_complete: the IN transfers in tx have ended, and are reported with *)
(* a SETUP packet that was seen and the OUT transfers, or STATUS OUT.      *)
Polled(tx, due, status, r) ==
  /\ tx = hw.complete \cap {IN0, IN1}
  /\ due = (inner.status_out \/ (inner.pre_status_out /\ IN0 \in hw.complete))
  /\ status = (due /\ IN0 \notin hw.complete /\ IN1 \notin hw.complete)
  /\ r \in Reports /\ r.setup = dev.seen
  /\ 0 \in r.in <=> IN0 \in hw.complete
  /\ 1 \in r.in <=> IN1 \in hw.complete
  /\ 0 \in r.out <=> status \/ OUT0 \in hw.complete
  /\ 1 \in r.out <=> ~ status /\ OUT1 \in hw.complete

Reported(tx, due, status, r) ==
  /\ tx \subseteq dqh.current
  /\ hw' \in Hws /\ dqh' \in Dqhs /\ inner' \in Inners /\ dev' \in Devs
  /\ hw'.complete = hw.complete \ tx
  /\ Same(hw', hw, {"setupstat", "sutw", "setup", "uri", "prime", "stat", "address", "ctrl"})
  /\ dqh'.current = dqh.current \ tx /\ dqh'.next = dqh.next \cup tx
  /\ Same(dqh', dqh, {"addr", "data"})
  /\ inner'.setupstat = (inner.setupstat \/ dev.seen)
  /\ inner'.pre_status_out = (inner.pre_status_out /\ IN0 \notin tx)
  /\ inner'.status_out = (due /\ ~ status)
  /\ Same(inner', inner, {"used", "size", "bufs"})
  /\ dev'.seen = FALSE /\ dev'.report = r /\ dev'.pc = Dispatch(r)
  /\ Same(dev', dev, {"copy", "handled", "control", "left", "pending"})

(* poll_complete reports and acknowledges, unless its assertion fails. *)
LEMMA PollEffect ==
  ASSUME Types, PollComplete
  PROVE  /\ dev.pc = "poll_complete" /\ UNCHANGED <<host, upset>>
         /\ \/ /\ ~ (hw.complete \cap {IN0, IN1} \subseteq dqh.current)
               /\ GoTo("assert") /\ UNCHANGED <<hw, dqh, inner>>
            \/ \E tx \in SUBSET Endpoints, due \in BOOLEAN, status \in BOOLEAN, r \in Reports :
                 Polled(tx, due, status, r) /\ Reported(tx, due, status, r)
<1>1. dev.pc = "poll_complete" /\ UNCHANGED <<host, upset>>
  BY DEF PollComplete
<1>2. hw \in Hws /\ dqh \in Dqhs /\ inner \in Inners /\ dev \in Devs
  BY DEF Types
<1>3. hw.complete \in SUBSET Endpoints /\ dev.seen \in BOOLEAN
      /\ inner.status_out \in BOOLEAN /\ inner.pre_status_out \in BOOLEAN
      /\ inner.setupstat \in BOOLEAN
  BY <1>2 DEF Hws, Inners, Devs
<1>. DEFINE tx == Of("IN", hw.complete)
            out == Index(Of("OUT", hw.complete))
            in == Index(tx)
            due == inner.status_out \/ (inner.pre_status_out /\ IN0 \in tx)
            status == StatusDue(due, in)
            r == [setup |-> dev.seen, in |-> in, out |-> IF status THEN {0} ELSE out]
<1>4. CASE ~ tx \subseteq dqh.current
  BY <1>1, <1>3, <1>4, OfFacts DEF PollComplete
<1>5. CASE tx \subseteq dqh.current
  <2>1. /\ hw' = [hw EXCEPT !.complete = @ \ tx]
        /\ dqh' = [dqh EXCEPT !.current = @ \ tx, !.next = @ \cup tx]
        /\ inner' = [inner EXCEPT !.setupstat = @ \/ dev.seen,
                                  !.pre_status_out = @ /\ IN0 \notin tx,
                                  !.status_out = due /\ ~ status]
        /\ dev' = [dev EXCEPT !.seen = FALSE, !.report = r, !.pc = Dispatch(r)]
    BY <1>5 DEF PollComplete, Acknowledged, Released
  <2>2. /\ tx = hw.complete \cap {IN0, IN1} /\ tx \in SUBSET Endpoints
        /\ in \in SUBSET {0, 1} /\ out \in SUBSET {0, 1}
        /\ 0 \in in <=> IN0 \in hw.complete
        /\ 1 \in in <=> IN1 \in hw.complete
        /\ 0 \in out <=> OUT0 \in hw.complete
        /\ 1 \in out <=> OUT1 \in hw.complete
        /\ in = {} <=> IN0 \notin hw.complete /\ IN1 \notin hw.complete
    BY <1>3, OfFacts
  <2>. HIDE DEF tx, in, out
  <2>3. due \in BOOLEAN /\ status \in BOOLEAN
    BY <1>3 DEF StatusDue
  <2>4. due = (inner.status_out \/ (inner.pre_status_out /\ IN0 \in hw.complete))
    BY <2>2
  <2>5. status = (due /\ IN0 \notin hw.complete /\ IN1 \notin hw.complete)
    BY <2>2 DEF StatusDue
  <2>. HIDE DEF due, status
  <2>6. r \in Reports /\ r.setup = dev.seen
        /\ (0 \in r.in <=> IN0 \in hw.complete)
        /\ (1 \in r.in <=> IN1 \in hw.complete)
        /\ (0 \in r.out <=> status \/ OUT0 \in hw.complete)
        /\ (1 \in r.out <=> ~ status /\ OUT1 \in hw.complete)
    BY <1>3, <2>2, <2>3 DEF Reports
  <2>. HIDE DEF r
  <2>7. Polled(tx, due, status, r)
    BY <2>2, <2>4, <2>5, <2>6 DEF Polled
  <2>8. /\ hw' \in Hws
        /\ hw'.complete = hw.complete \ tx
        /\ Same(hw', hw, {"setupstat", "sutw", "setup", "uri", "prime", "stat", "address", "ctrl"})
    BY <1>2, <2>1 DEF Hws, Same
  <2>9. /\ dqh' \in Dqhs
        /\ dqh'.current = dqh.current \ tx /\ dqh'.next = dqh.next \cup tx
        /\ Same(dqh', dqh, {"addr", "data"})
    BY <1>2, <2>1, <2>2 DEF Dqhs, Same
  <2>10. /\ inner'.setupstat = (inner.setupstat \/ dev.seen)
         /\ inner'.pre_status_out = (inner.pre_status_out /\ IN0 \notin tx)
         /\ inner'.status_out = (due /\ ~ status)
         /\ Same(inner', inner, {"used", "size", "bufs"})
         /\ inner' \in Inners
    <3>1. PICK a \in BOOLEAN : a = (inner.setupstat \/ dev.seen)
      BY <1>3
    <3>2. PICK b \in BOOLEAN : b = (inner.pre_status_out /\ IN0 \notin tx)
      BY <1>3
    <3>3. PICK c \in BOOLEAN : c = (due /\ ~ status)
      BY <2>3
    <3>4. Flagged(a, b, c)
      BY <2>1, <3>1, <3>2, <3>3, Zenon DEF Flagged
    <3>5. /\ inner'.setupstat = a /\ inner'.pre_status_out = b /\ inner'.status_out = c
          /\ Same(inner', inner, {"used", "size", "bufs"})
          /\ inner' \in Inners
      BY <1>2, <3>1, <3>2, <3>3, <3>4, FlagsEffect
    <3>. QED
      BY <3>1, <3>2, <3>3, <3>5
  <2>11. /\ dev'.seen = FALSE /\ dev'.report = r /\ dev'.pc = Dispatch(r)
         /\ Same(dev', dev, {"copy", "handled", "control", "left", "pending"})
         /\ dev' \in Devs
    BY <1>2, <2>1, <2>6, AfterFacts DEF Devs, Same
  <2>. QED
    BY <1>1, <1>5, <2>2, <2>3, <2>6, <2>7, <2>8, <2>9, <2>10, <2>11 DEF Reported
<1>. QED
  BY <1>4, <1>5

(* Where read goes on after a packet. *)
ReadPlace(p) ==
  IF p.kind = "CLEAR_FEATURE" THEN "unexpected"
  ELSE IF p.kind = "SET_CONFIGURATION" /\ hw.ctrl # {"RXE", "TXE"} THEN "assert"
  ELSE "answer"

(* read on endpoint 0: the packet is complete.                             *)
LEMMA SetupReadEffect ==
  ASSUME Types, SetupRead
  PROVE  /\ dev.pc = "copied" /\ UNCHANGED <<dqh, host, upset>>
         /\ hw' \in Hws /\ hw'.sutw = FALSE
         /\ Same(hw', hw, {"setupstat", "setup", "uri", "prime", "stat", "complete", "address",
                           "ctrl"})
         /\ inner' \in Inners
         /\ inner'.pre_status_out = (inner.pre_status_out
              \/ dev.copy[1].kind \in {"GET_DESCRIPTOR", "NO_DESCRIPTOR"})
         /\ Same(inner', inner, {"used", "size", "bufs", "setupstat", "status_out"})
         /\ dev' \in Devs
         /\ dev'.pc = ReadPlace(dev.copy[1])
         /\ dev'.handled = dev.copy[1] /\ dev'.control = "data_in"
         /\ dev'.left = dev.copy[1].len
         /\ dev'.pending = (dev.copy[1].kind = "SET_ADDRESS")
         /\ Same(dev', dev, {"seen", "report", "copy"})
<1>1. dev.pc = "copied" /\ UNCHANGED <<dqh, host, upset>>
  BY DEF SetupRead
<1>2. hw \in Hws /\ inner \in Inners /\ dev \in Devs
  BY DEF Types
<1>3. /\ hw' \in Hws /\ hw'.sutw = FALSE
      /\ Same(hw', hw, {"setupstat", "setup", "uri", "prime", "stat", "complete", "address",
                        "ctrl"})
  BY <1>2 DEF SetupRead, SetupAcknowledged, Hws, Same
<1>4. PICK p \in Setups : p = dev.copy[1]
  BY <1>2 DEF Devs
<1>5. /\ inner' \in Inners
      /\ inner'.pre_status_out = (inner.pre_status_out \/ p.kind \in {"GET_DESCRIPTOR", "NO_DESCRIPTOR"})
      /\ Same(inner', inner, {"used", "size", "bufs", "setupstat", "status_out"})
  <2>1. inner' = [inner EXCEPT !.pre_status_out = @ \/ p.kind \in {"GET_DESCRIPTOR", "NO_DESCRIPTOR"}]
    BY <1>4 DEF SetupRead
  <2>2. PICK b \in BOOLEAN : b = (inner.pre_status_out \/ p.kind \in {"GET_DESCRIPTOR", "NO_DESCRIPTOR"})
    BY <1>2
  <2>3. inner' = [inner EXCEPT !.pre_status_out = b]
    BY <2>1, <2>2, Zenon
  <2>4. inner.setupstat \in BOOLEAN /\ inner.status_out \in BOOLEAN
    BY <1>2 DEF Inners
  <2>5. Flagged(inner.setupstat, b, inner.status_out)
    BY <1>2, <2>3 DEF Inners, Flagged
  <2>6. /\ inner' \in Inners
        /\ inner'.setupstat = inner.setupstat /\ inner'.pre_status_out = b
        /\ inner'.status_out = inner.status_out
        /\ Same(inner', inner, {"used", "size", "bufs"})
    BY <1>2, <2>2, <2>4, <2>5, FlagsEffect
  <2>. QED
    BY <2>2, <2>6 DEF Same
<1>6. /\ dev' \in Devs
      /\ dev'.pc = ReadPlace(p)
      /\ dev'.handled = p /\ dev'.control = "data_in" /\ dev'.left = p.len
      /\ dev'.pending = (p.kind = "SET_ADDRESS")
      /\ Same(dev', dev, {"seen", "report", "copy"})
  <2>1. PICK q \in Places : q = ReadPlace(p)
    BY PlaceFacts DEF ReadPlace
  <2>2. PICK b \in BOOLEAN : b = (p.kind = "SET_ADDRESS")
    OBVIOUS
  <2>3. dev' = [dev EXCEPT !.pc = q, !.handled = p, !.control = "data_in", !.left = p.len,
                           !.pending = b]
    BY <1>4, <2>1, <2>2, Zenon DEF SetupRead, ReadPlace
  <2>4. /\ dev'.pc = q /\ dev'.handled = p /\ dev'.control = "data_in" /\ dev'.left = p.len
        /\ dev'.pending = b
        /\ Same(dev', dev, {"seen", "report", "copy"})
    BY <1>2, <2>3 DEF Devs, Same
  <2>5. p.len \in Int
    BY SetupFacts
  <2>6. dev' \in Devs
    BY <1>2, <1>4, <2>1, <2>2, <2>3, <2>5 DEF Devs, Controls
  <2>. QED
    BY <2>1, <2>2, <2>4, <2>6
<1>. QED
  BY <1>1, <1>3, <1>4, <1>5, <1>6

(* poll_setup, copy_setup_bytes and the rest of read. *)
LEMMA ReadEffect ==
  ASSUME Types
  PROVE  /\ PollSetup => /\ dev' \in Devs /\ dev'.pc = "poll_complete" /\ dev'.seen = hw.setupstat
                         /\ Same(dev', dev, {"report", "copy", "handled", "control", "left",
                                             "pending"})
         /\ CopyFirst => /\ dev' \in Devs /\ dev'.pc = "copying" /\ dev'.copy[1] = hw.setup
                         /\ dev'.copy[2] = dev.copy[2]
                         /\ Same(dev', dev, {"seen", "report", "handled", "control", "left",
                                             "pending"})
         /\ CopySecond => /\ dev' \in Devs /\ dev'.pc = "check" /\ dev'.copy[2] = hw.setup
                          /\ dev'.copy[1] = dev.copy[1]
                          /\ Same(dev', dev, {"seen", "report", "handled", "control", "left",
                                              "pending"})
         /\ ReadSetup => /\ inner' \in Inners /\ inner'.setupstat = FALSE
                         /\ Same(inner', inner, {"used", "size", "bufs", "pre_status_out",
                                                 "status_out"})
                         /\ hw' \in Hws /\ hw'.setupstat = FALSE
                         /\ Same(hw', hw, {"sutw", "setup", "uri", "prime", "stat", "complete",
                                           "address", "ctrl"})
<1>1. hw \in Hws /\ inner \in Inners /\ dev \in Devs
  BY DEF Types
<1>2. hw.setup \in Setups /\ hw.setupstat \in BOOLEAN /\ dev.copy \in [1 .. 2 -> Setups]
  BY <1>1 DEF Hws, Devs
<1>3. ASSUME PollSetup
      PROVE  /\ dev' \in Devs /\ dev'.pc = "poll_complete" /\ dev'.seen = hw.setupstat
             /\ Same(dev', dev, {"report", "copy", "handled", "control", "left", "pending"})
  BY <1>1, <1>2, <1>3, PlaceFacts DEF PollSetup, Devs, Same
<1>4. ASSUME CopyFirst
      PROVE  /\ dev' \in Devs /\ dev'.pc = "copying" /\ dev'.copy[1] = hw.setup
             /\ dev'.copy[2] = dev.copy[2]
             /\ Same(dev', dev, {"seen", "report", "handled", "control", "left", "pending"})
  <2>1. dev' = [dev EXCEPT !.pc = "copying", !.copy = [@ EXCEPT ![1] = hw.setup]]
    BY <1>4 DEF CopyFirst
  <2>2. /\ dev'.pc = "copying" /\ dev'.copy = [dev.copy EXCEPT ![1] = hw.setup]
        /\ Same(dev', dev, {"seen", "report", "handled", "control", "left", "pending"})
        /\ dev' = [pc |-> "copying", seen |-> dev'.seen, report |-> dev'.report,
                   copy |-> dev'.copy, handled |-> dev'.handled, control |-> dev'.control,
                   left |-> dev'.left, pending |-> dev'.pending]
    BY <1>1, <2>1 DEF Devs, Same
  <2>3. dev'.copy \in [1 .. 2 -> Setups] /\ dev'.copy[1] = hw.setup /\ dev'.copy[2] = dev.copy[2]
    BY <1>2, <2>2
  <2>. QED
    BY <1>1, <2>2, <2>3, PlaceFacts DEF Devs, Same
<1>5. ASSUME CopySecond
      PROVE  /\ dev' \in Devs /\ dev'.pc = "check" /\ dev'.copy[2] = hw.setup
             /\ dev'.copy[1] = dev.copy[1]
             /\ Same(dev', dev, {"seen", "report", "handled", "control", "left", "pending"})
  <2>1. dev' = [dev EXCEPT !.pc = "check", !.copy = [@ EXCEPT ![2] = hw.setup]]
    BY <1>5 DEF CopySecond
  <2>2. /\ dev'.pc = "check" /\ dev'.copy = [dev.copy EXCEPT ![2] = hw.setup]
        /\ Same(dev', dev, {"seen", "report", "handled", "control", "left", "pending"})
        /\ dev' = [pc |-> "check", seen |-> dev'.seen, report |-> dev'.report,
                   copy |-> dev'.copy, handled |-> dev'.handled, control |-> dev'.control,
                   left |-> dev'.left, pending |-> dev'.pending]
    BY <1>1, <2>1 DEF Devs, Same
  <2>3. dev'.copy \in [1 .. 2 -> Setups] /\ dev'.copy[2] = hw.setup /\ dev'.copy[1] = dev.copy[1]
    BY <1>2, <2>2
  <2>. QED
    BY <1>1, <2>2, <2>3, PlaceFacts DEF Devs, Same
<1>6. ASSUME ReadSetup
      PROVE  /\ inner' \in Inners /\ inner'.setupstat = FALSE
             /\ Same(inner', inner, {"used", "size", "bufs", "pre_status_out", "status_out"})
             /\ hw' \in Hws /\ hw'.setupstat = FALSE
             /\ Same(hw', hw, {"sutw", "setup", "uri", "prime", "stat", "complete", "address",
                               "ctrl"})
  <2>1. /\ hw' \in Hws /\ hw'.setupstat = FALSE
        /\ Same(hw', hw, {"sutw", "setup", "uri", "prime", "stat", "complete", "address", "ctrl"})
    BY <1>1, <1>6 DEF ReadSetup, Hws, Same
  <2>2. inner.pre_status_out \in BOOLEAN /\ inner.status_out \in BOOLEAN
    BY <1>1 DEF Inners
  <2>3. PICK b \in BOOLEAN : b = FALSE
    OBVIOUS
  <2>4. Flagged(b, inner.pre_status_out, inner.status_out)
    BY <1>1, <1>6, <2>3 DEF ReadSetup, Inners, Flagged
  <2>5. /\ inner' \in Inners
        /\ inner'.setupstat = b /\ inner'.pre_status_out = inner.pre_status_out
        /\ inner'.status_out = inner.status_out
        /\ Same(inner', inner, {"used", "size", "bufs"})
    BY <1>1, <2>2, <2>3, <2>4, FlagsEffect
  <2>. QED
    BY <2>1, <2>3, <2>5 DEF Same
<1>. QED
  BY <1>3, <1>4, <1>5, <1>6

(* The caller when a chunk, or the STATUS packet, has been written.        *)
ChunkDone(after) ==
  At([dev EXCEPT !.left = @ - 1,
                 !.control = IF dev.left = 1 THEN "data_last" ELSE "data_in"], after)
StatusDone(after) == At([dev EXCEPT !.control = "status_in"], after)
Kept(d, p) ==
  /\ d \in Devs /\ d.pc = p
  /\ d.report = (IF p = "idle" THEN NoReport ELSE dev.report)
  /\ Same(d, dev, {"seen", "copy", "handled", "pending"})

(* Only what has been written, and the place, change. *)
LEMMA DoneFacts ==
  ASSUME dev \in Devs, NEW p \in Places
  PROVE  /\ Kept(ChunkDone(p), p)
         /\ ChunkDone(p).left = dev.left - 1
         /\ ChunkDone(p).control = (IF dev.left = 1 THEN "data_last" ELSE "data_in")
         /\ Kept(StatusDone(p), p)
         /\ StatusDone(p).left = dev.left /\ StatusDone(p).control = "status_in"
         /\ Kept(At(dev, p), p) /\ Same(At(dev, p), dev, {"left", "control"})
<1>1. PICK c \in Controls : c = (IF dev.left = 1 THEN "data_last" ELSE "data_in")
  BY DEF Controls
<1>2. PICK n \in Int : n = dev.left - 1
  BY DEF Devs
<1>d. PICK d : d = [dev EXCEPT !.left = n, !.control = c]
  OBVIOUS
<1>3. d \in Devs /\ d.left = dev.left - 1 /\ d.control = c
      /\ Same(d, dev, {"pc", "report", "seen", "copy", "handled", "pending"})
  BY <1>1, <1>2, <1>d DEF Devs, Same
<1>4. ChunkDone(p) = At(d, p)
  BY <1>1, <1>2, <1>d, Zenon DEF ChunkDone
<1>5. Kept(At(d, p), p) /\ At(d, p).left = d.left /\ At(d, p).control = d.control
  BY <1>3, AtFacts DEF Kept, Same
<1>6. PICK f : f = [dev EXCEPT !.control = "status_in"]
  OBVIOUS
<1>7. f \in Devs /\ f.control = "status_in"
      /\ Same(f, dev, {"pc", "report", "seen", "copy", "handled", "pending", "left"})
  BY <1>6 DEF Devs, Same, Controls
<1>8. StatusDone(p) = At(f, p)
  BY <1>6, Zenon DEF StatusDone
<1>9. Kept(At(f, p), p) /\ At(f, p).left = f.left /\ At(f, p).control = f.control
  BY <1>7, AtFacts DEF Kept, Same
<1>10. Kept(At(dev, p), p) /\ Same(At(dev, p), dev, {"left", "control"})
  BY AtFacts DEF Kept, Same
<1>. QED
  BY <1>1, <1>3, <1>4, <1>5, <1>7, <1>8, <1>9, <1>10 DEF Same

(* read and start_write on endpoint 1. *)
LEMMA BulkEffect ==
  ASSUME Types, ReadBulk
  PROVE  /\ dev.pc = "class" /\ UNCHANGED <<inner, host, upset>>
         /\ \/ OUT1 \notin hw.complete /\ GoTo("unwrap") /\ UNCHANGED <<hw, dqh>>
            \/ OUT1 \in hw.complete \ dqh.current /\ GoTo("assert") /\ UNCHANGED <<hw, dqh>>
            \/ /\ OUT1 \in hw.complete \cap dqh.current /\ GoTo("echo")
               /\ hw' \in Hws /\ hw'.complete = hw.complete \ {OUT1}
               /\ hw'.prime = hw.prime \cup {OUT1}
               /\ Same(hw', hw, {"setupstat", "sutw", "setup", "uri", "stat", "address", "ctrl"})
               /\ dqh' \in Dqhs /\ dqh'.current = dqh.current \ {OUT1}
               /\ dqh'.next = dqh.next \cup {OUT1} /\ Same(dqh', dqh, {"addr", "data"})
<1>1. dev.pc = "class" /\ UNCHANGED <<inner, host, upset>>
  BY DEF ReadBulk
<1>2. CASE OUT1 \notin hw.complete
  BY <1>1, <1>2 DEF ReadBulk
<1>3. CASE OUT1 \in hw.complete \ dqh.current
  BY <1>1, <1>3 DEF ReadBulk
<1>4. CASE OUT1 \in hw.complete \cap dqh.current
  <2>1. /\ hw' = [hw EXCEPT !.complete = @ \ {OUT1}, !.prime = @ \cup {OUT1}]
        /\ dqh' = [dqh EXCEPT !.current = @ \ {OUT1}, !.next = @ \cup {OUT1}]
        /\ GoTo("echo")
    BY <1>4 DEF ReadBulk, Released
  <2>2. hw \in Hws /\ dqh \in Dqhs
    BY DEF Types
  <2>3. /\ hw' \in Hws /\ hw'.complete = hw.complete \ {OUT1}
        /\ hw'.prime = hw.prime \cup {OUT1}
        /\ Same(hw', hw, {"setupstat", "sutw", "setup", "uri", "stat", "address", "ctrl"})
    BY <2>1, <2>2, EndpointFacts DEF Hws, Same
  <2>4. /\ dqh' \in Dqhs /\ dqh'.current = dqh.current \ {OUT1}
        /\ dqh'.next = dqh.next \cup {OUT1} /\ Same(dqh', dqh, {"addr", "data"})
    BY <2>1, <2>2, EndpointFacts DEF Dqhs, Same
  <2>. QED
    BY <1>1, <1>4, <2>1, <2>3, <2>4
<1>. QED
  BY <1>2, <1>3, <1>4

(* The class writes what it has read, or gives up. *)
LEMMA EchoEffect ==
  ASSUME Types, Echo
  PROVE  /\ dev.pc = "echo" /\ UNCHANGED <<host, upset>>
         /\ \/ Refused(IN1)
            \/ /\ Blocked(IN1) /\ Kept(dev', "unwrap") /\ Same(dev', dev, {"left", "control"})
            \/ /\ Primed(IN1, dqh.data[OUT1]) /\ Kept(dev', "idle")
               /\ Same(dev', dev, {"left", "control"})
<1>1. dev.pc = "echo" /\ dev \in Devs /\ IN1 \in Endpoints /\ OUT1 \in Endpoints
  BY EndpointFacts DEF Echo, Types
<1>2. PICK d \in BOOLEAN : d = dqh.data[OUT1]
  BY DEF Types, Dqhs
<1>3. start_write(IN1, d, At(dev, "idle"), At(dev, "unwrap"))
  BY <1>2 DEF Echo
<1>4. /\ UNCHANGED <<host, upset>>
      /\ \/ Blocked(IN1) /\ dev' = At(dev, "unwrap")
         \/ Refused(IN1)
         \/ Primed(IN1, d) /\ dev' = At(dev, "idle")
  BY <1>1, <1>3, WriteEffect
<1>. QED
  BY <1>1, <1>2, <1>4, DoneFacts, PlaceFacts

(* read on endpoint 0: the STATUS packet is there. *)
LEMMA StatusEffect ==
  ASSUME Types, StatusRead
  PROVE  /\ dev.pc = "wait" /\ OUT0 \in hw.complete /\ UNCHANGED <<inner, host, upset>>
         /\ hw' \in Hws /\ hw'.complete = hw.complete \ {OUT0}
         /\ Same(hw', hw, {"setupstat", "sutw", "setup", "uri", "prime", "stat", "address", "ctrl"})
         /\ dqh' \in Dqhs /\ dqh'.current = dqh.current \ {OUT0}
         /\ dqh'.next = dqh.next \cup {OUT0} /\ Same(dqh', dqh, {"addr", "data"})
         /\ \/ /\ dev.control = "status_out" /\ dev'.control = "idle" /\ dev'.left = dev.left
               /\ Kept(dev', AfterOut(dev.report))
            \/ dev.control # "status_out" /\ GoTo("stall")
<1>1. dev.pc = "wait" /\ OUT0 \in hw.complete /\ UNCHANGED <<inner, host, upset>>
  BY DEF StatusRead
<1>2. hw \in Hws /\ dqh \in Dqhs /\ dev \in Devs
  BY DEF Types
<1>3. /\ hw' \in Hws /\ hw'.complete = hw.complete \ {OUT0}
      /\ Same(hw', hw, {"setupstat", "sutw", "setup", "uri", "prime", "stat", "address", "ctrl"})
  BY <1>2, EndpointFacts DEF StatusRead, Hws, Same
<1>4. /\ dqh' \in Dqhs /\ dqh'.current = dqh.current \ {OUT0}
      /\ dqh'.next = dqh.next \cup {OUT0} /\ Same(dqh', dqh, {"addr", "data"})
  BY <1>2, EndpointFacts DEF StatusRead, Released, Dqhs, Same
<1>5. CASE dev.control = "status_out"
  <2>1. PICK p \in Places : p = AfterOut(dev.report)
    BY <1>2, AfterFacts DEF Devs
  <2>2. PICK d : d = [dev EXCEPT !.control = "idle"]
    OBVIOUS
  <2>3. d \in Devs /\ d.control = "idle"
        /\ Same(d, dev, {"pc", "report", "seen", "copy", "handled", "pending", "left"})
    BY <1>2, <2>2 DEF Devs, Same, Controls
  <2>4. dev' = At(d, p)
    BY <1>5, <2>1, <2>2, Zenon DEF StatusRead
  <2>5. Kept(dev', p) /\ dev'.control = "idle" /\ dev'.left = dev.left
    BY <2>3, <2>4, AtFacts DEF Kept, Same
  <2>. QED
    BY <1>1, <1>3, <1>4, <1>5, <2>1, <2>5
<1>6. CASE dev.control # "status_out"
  BY <1>1, <1>3, <1>4, <1>6 DEF StatusRead, GoTo
<1>. QED
  BY <1>5, <1>6

(* The answer to a request: a packet of the descriptor, or STATUS IN.      *)
LEMMA AnswerEffect ==
  ASSUME Types, AnswerSetup
  PROVE  /\ dev.pc = "answer" /\ UNCHANGED <<host, upset>>
         /\ \/ Refused(IN0)
            \/ /\ Blocked(IN0) /\ dev.handled.kind = "GET_DESCRIPTOR"
               /\ Kept(dev', AfterOut(dev.report)) /\ Same(dev', dev, {"left", "control"})
            \/ Blocked(IN0) /\ dev.handled.kind # "GET_DESCRIPTOR" /\ GoTo("stall")
            \/ /\ Primed(IN0, FALSE) /\ dev.handled.kind = "GET_DESCRIPTOR"
               /\ Kept(dev', AfterOut(dev.report)) /\ dev'.left = dev.left - 1
               /\ dev'.control = (IF dev.left = 1 THEN "data_last" ELSE "data_in")
            \/ /\ Primed(IN0, FALSE)
               /\ dev.handled.kind \notin {"GET_DESCRIPTOR", "NO_DESCRIPTOR"}
               /\ Kept(dev', AfterOut(dev.report)) /\ dev'.left = dev.left
               /\ dev'.control = "status_in"
            \/ /\ dev.handled.kind = "NO_DESCRIPTOR" /\ GoTo("stall")
               /\ UNCHANGED <<hw, dqh, inner>>
<1>. DEFINE p == AfterOut(dev.report)
<1>1. dev.pc = "answer" /\ dev \in Devs /\ IN0 \in Endpoints
  BY EndpointFacts DEF AnswerSetup, Types
<1>2. p \in Places
  BY <1>1, AfterFacts DEF Devs
<1>3. PICK f \in BOOLEAN : f = FALSE
  OBVIOUS
<1>4. CASE dev.handled.kind = "GET_DESCRIPTOR"
  <2>1. start_write(IN0, f, ChunkDone(p), At(dev, p))
    BY <1>3, <1>4, Zenon DEF AnswerSetup, WriteChunk, ChunkDone
  <2>2. /\ UNCHANGED <<host, upset>>
        /\ \/ Blocked(IN0) /\ dev' = At(dev, p)
           \/ Refused(IN0)
           \/ Primed(IN0, f) /\ dev' = ChunkDone(p)
    BY <1>1, <2>1, WriteEffect
  <2>. QED
    BY <1>1, <1>2, <1>3, <1>4, <2>2, DoneFacts
<1>6. CASE dev.handled.kind = "NO_DESCRIPTOR"
  BY <1>1, <1>6 DEF AnswerSetup
<1>5. CASE dev.handled.kind \notin {"GET_DESCRIPTOR", "NO_DESCRIPTOR"}
  <2>1. start_write(IN0, f, StatusDone(p), [dev EXCEPT !.pc = "stall"])
    BY <1>3, <1>5, Zenon DEF AnswerSetup, StatusDone
  <2>2. /\ UNCHANGED <<host, upset>>
        /\ \/ Blocked(IN0) /\ dev' = [dev EXCEPT !.pc = "stall"]
           \/ Refused(IN0)
           \/ Primed(IN0, f) /\ dev' = StatusDone(p)
    BY <1>1, <2>1, WriteEffect
  <2>. QED
    BY <1>1, <1>2, <1>3, <1>5, <2>2, DoneFacts DEF GoTo
<1>. QED
  BY <1>4, <1>5, <1>6

(* The end of an IN transfer on endpoint 0. *)
LEMMA In0Effect ==
  ASSUME Types, InComplete0
  PROVE  /\ dev.pc = "in0" /\ UNCHANGED <<host, upset>>
         /\ \/ dev.control = "data_in" /\ Refused(IN0)
            \/ /\ dev.control = "data_in" /\ Blocked(IN0)
               /\ Kept(dev', AfterIn(dev.report)) /\ Same(dev', dev, {"left", "control"})
            \/ /\ dev.control = "data_in" /\ Primed(IN0, FALSE)
               /\ Kept(dev', AfterIn(dev.report)) /\ dev'.left = dev.left - 1
               /\ dev'.control = (IF dev.left = 1 THEN "data_last" ELSE "data_in")
            \/ /\ dev.control \in {"data_last", "idle"} /\ UNCHANGED <<hw, dqh, inner>>
               /\ Kept(dev', AfterIn(dev.report)) /\ dev'.left = dev.left
               /\ dev'.control = (IF dev.control = "idle" THEN "idle" ELSE "status_out")
            \/ /\ dev.control = "status_in" /\ UNCHANGED <<dqh, inner>>
               /\ dev' \in Devs /\ dev'.pc = AfterIn(dev.report) /\ dev'.control = "idle"
               /\ dev'.report = (IF dev'.pc = "idle" THEN NoReport ELSE dev.report)
               /\ Same(dev', dev, {"seen", "copy", "handled", "left"})
               /\ hw' \in Hws
               /\ Same(hw', hw, {"setupstat", "sutw", "setup", "uri", "stat", "complete"})
               /\ \/ UNCHANGED hw
                  \/ /\ hw'.address = TRUE /\ hw'.ctrl = Enabled
                     /\ hw'.prime = hw.prime \cup (inner.used \cap {OUT1})
            \/ /\ dev.control = "status_out" /\ GoTo("stall") /\ UNCHANGED <<hw, dqh, inner>>
<1>. DEFINE p == AfterIn(dev.report)
<1>1. dev.pc = "in0" /\ dev \in Devs /\ IN0 \in Endpoints /\ hw \in Hws /\ inner \in Inners
  BY EndpointFacts DEF InComplete0, Types
<1>2. p \in Places
  BY <1>1, AfterFacts DEF Devs
<1>3. CASE dev.control = "data_in"
  <2>1. PICK f \in BOOLEAN : f = FALSE
    OBVIOUS
  <2>2. start_write(IN0, f, ChunkDone(p), At(dev, p))
    BY <1>3, <2>1 DEF InComplete0, WriteChunk, ChunkDone
  <2>3. /\ UNCHANGED <<host, upset>>
        /\ \/ Blocked(IN0) /\ dev' = At(dev, p)
           \/ Refused(IN0)
           \/ Primed(IN0, f) /\ dev' = ChunkDone(p)
    BY <1>1, <2>2, WriteEffect
  <2>. QED
    BY <1>1, <1>2, <1>3, <2>1, <2>3, DoneFacts
<1>4. CASE dev.control \in {"data_last", "idle"}
  <2>1. PICK c \in Controls : c = IF dev.control = "idle" THEN "idle" ELSE "status_out"
    BY DEF Controls
  <2>2. PICK d : d = [dev EXCEPT !.control = c]
    OBVIOUS
  <2>3. d \in Devs /\ d.control = c
        /\ Same(d, dev, {"pc", "report", "seen", "copy", "handled", "pending", "left"})
    BY <1>1, <2>1, <2>2 DEF Devs, Same
  <2>4. dev' = At(d, p) /\ UNCHANGED <<hw, dqh, inner, host, upset>>
    BY <1>4, <2>1, <2>2 DEF InComplete0
  <2>5. Kept(dev', p) /\ dev'.control = c /\ dev'.left = dev.left
    BY <1>2, <2>3, <2>4, AtFacts DEF Kept, Same
  <2>. QED
    BY <1>1, <1>4, <2>1, <2>4, <2>5
<1>5. CASE dev.control = "status_in"
  <2>1. PICK f \in BOOLEAN : f = FALSE
    OBVIOUS
  <2>2. PICK d : d = [dev EXCEPT !.control = "idle", !.pending = f]
    OBVIOUS
  <2>3. d \in Devs /\ d.control = "idle"
        /\ Same(d, dev, {"pc", "report", "seen", "copy", "handled", "left"})
    BY <1>1, <2>1, <2>2 DEF Devs, Same, Controls
  <2>4. /\ dev' = At(d, p) /\ UNCHANGED <<dqh, inner, host, upset>>
        /\ IF dev.pending THEN set_device_address ELSE UNCHANGED hw
    BY <1>5, <2>1, <2>2 DEF InComplete0
  <2>5. /\ dev' \in Devs /\ dev'.pc = p /\ dev'.control = "idle"
        /\ dev'.report = (IF dev'.pc = "idle" THEN NoReport ELSE dev.report)
        /\ Same(dev', dev, {"seen", "copy", "handled", "left"})
    BY <1>2, <2>3, <2>4, AtFacts DEF Same
  <2>6. CASE UNCHANGED hw
    BY <1>1, <1>5, <2>4, <2>5, <2>6 DEF Same
  <2>7. CASE set_device_address
    <3>1. Enabled \in SUBSET {"RXE", "TXE"}
      BY DEF Enabled
    <3>2. inner.used \in SUBSET Endpoints
      BY <1>1 DEF Inners
    <3>3. /\ hw' \in Hws
          /\ hw'.address = TRUE /\ hw'.ctrl = Enabled
          /\ hw'.prime = hw.prime \cup (inner.used \cap {OUT1})
          /\ Same(hw', hw, {"setupstat", "sutw", "setup", "uri", "stat", "complete"})
      BY <1>1, <2>7, <3>1, <3>2 DEF set_device_address, Hws, Same
    <3>. QED
      BY <1>1, <1>5, <2>4, <2>5, <3>3
  <2>. QED
    BY <2>4, <2>6, <2>7
<1>6. CASE dev.control = "status_out"
  BY <1>1, <1>6 DEF InComplete0
<1>. QED
  BY <1>1, <1>3, <1>4, <1>5, <1>6 DEF InComplete0

(* reset, in its two parts. *)
LEMMA ResetEffect ==
  ASSUME Types
  PROVE  /\ ResetClear =>
              /\ hw' \in Hws /\ hw'.setupstat = FALSE /\ hw'.complete = {}
              /\ Same(hw', hw, {"sutw", "setup", "uri", "prime", "stat", "address", "ctrl"})
              /\ dev' \in Devs /\ dev'.pc = "flush"
              /\ dev'.handled = (IF host.pr THEN hw.setup ELSE dev.handled)
              /\ Same(dev', dev, {"seen", "report", "copy", "control", "left", "pending"})
         /\ ResetFlush =>
              /\ hw' \in Hws /\ hw'.stat = {} /\ hw'.uri = FALSE
              /\ Same(hw', hw, {"setupstat", "sutw", "setup", "prime", "complete", "address",
                                "ctrl"})
              /\ dev' \in Devs /\ dev'.pc = "idle" /\ dev'.control = "idle"
              /\ Same(dev', dev, {"seen", "report", "copy", "handled", "left"})
<1>1. hw \in Hws /\ dev \in Devs
  BY DEF Types
<1>2. ASSUME ResetClear
      PROVE  /\ hw' \in Hws /\ hw'.setupstat = FALSE /\ hw'.complete = {}
             /\ Same(hw', hw, {"sutw", "setup", "uri", "prime", "stat", "address", "ctrl"})
             /\ dev' \in Devs /\ dev'.pc = "flush"
             /\ dev'.handled = (IF host.pr THEN hw.setup ELSE dev.handled)
             /\ Same(dev', dev, {"seen", "report", "copy", "control", "left", "pending"})
  <2>1. /\ hw' \in Hws /\ hw'.setupstat = FALSE /\ hw'.complete = {}
        /\ Same(hw', hw, {"sutw", "setup", "uri", "prime", "stat", "address", "ctrl"})
    BY <1>1, <1>2 DEF ResetClear, Hws, Same
  <2>2. PICK h \in Setups : h = IF host.pr THEN hw.setup ELSE dev.handled
    BY <1>1 DEF Hws, Devs
  <2>3. dev' = [dev EXCEPT !.pc = "flush", !.handled = h]
    BY <1>1, <1>2, <2>2 DEF ResetClear, Devs
  <2>4. /\ dev' \in Devs /\ dev'.pc = "flush" /\ dev'.handled = h
        /\ Same(dev', dev, {"seen", "report", "copy", "control", "left", "pending"})
    BY <1>1, <2>2, <2>3, PlaceFacts DEF Devs, Same
  <2>. QED
    BY <2>1, <2>2, <2>4
<1>3. ASSUME ResetFlush
      PROVE  /\ hw' \in Hws /\ hw'.stat = {} /\ hw'.uri = FALSE
             /\ Same(hw', hw, {"setupstat", "sutw", "setup", "prime", "complete", "address",
                               "ctrl"})
             /\ dev' \in Devs /\ dev'.pc = "idle" /\ dev'.control = "idle"
             /\ Same(dev', dev, {"seen", "report", "copy", "handled", "left"})
  <2>1. /\ hw' \in Hws /\ hw'.stat = {} /\ hw'.uri = FALSE
        /\ Same(hw', hw, {"setupstat", "sutw", "setup", "prime", "complete", "address", "ctrl"})
    BY <1>1, <1>3 DEF ResetFlush, Hws, Same
  <2>2. /\ dev' \in Devs /\ dev'.pc = "idle" /\ dev'.control = "idle"
        /\ Same(dev', dev, {"seen", "report", "copy", "handled", "left"})
    BY <1>1, <1>3, PlaceFacts DEF ResetFlush, Devs, Controls, Same
  <2>. QED
    BY <2>1, <2>2
<1>. QED
  BY <1>2, <1>3

(* The controller loads a descriptor, or finds none. *)
LEMMA PrimeEffect ==
  ASSUME Types, NEW e \in Endpoints, Prime(e)
  PROVE  /\ e \in hw.prime /\ UNCHANGED <<inner, dev, host, upset>>
         /\ hw' \in Hws /\ hw'.prime = hw.prime \ {e}
         /\ Same(hw', hw, {"setupstat", "sutw", "setup", "uri", "complete", "address", "ctrl"})
         /\ \/ e \notin dqh.next /\ hw'.stat = hw.stat /\ UNCHANGED dqh
            \/ /\ e \in dqh.next /\ hw'.stat = hw.stat \cup {e}
               /\ dqh' \in Dqhs /\ dqh'.current = dqh.current \cup {e}
               /\ dqh'.next = dqh.next \ {e} /\ Same(dqh', dqh, {"addr", "data"})
<1>1. hw \in Hws /\ dqh \in Dqhs
  BY DEF Types
<1>2. CASE e \in dqh.next
  <2>0. /\ hw' = [hw EXCEPT !.prime = @ \ {e}, !.stat = @ \cup {e}]
        /\ dqh' = [dqh EXCEPT !.current = @ \cup {e}, !.next = @ \ {e}]
    BY <1>2 DEF Prime
  <2>1. /\ hw' \in Hws /\ hw'.prime = hw.prime \ {e} /\ hw'.stat = hw.stat \cup {e}
        /\ Same(hw', hw, {"setupstat", "sutw", "setup", "uri", "complete", "address", "ctrl"})
    BY <1>1, <2>0 DEF Hws, Same
  <2>2. /\ dqh' \in Dqhs /\ dqh'.current = dqh.current \cup {e}
        /\ dqh'.next = dqh.next \ {e} /\ Same(dqh', dqh, {"addr", "data"})
    BY <1>1, <2>0 DEF Dqhs, Same
  <2>. QED
    BY <1>2, <2>1, <2>2 DEF Prime
<1>3. CASE e \notin dqh.next
  BY <1>1, <1>3 DEF Prime, Hws, Same
<1>. QED
  BY <1>2, <1>3

(* A packet is exchanged. *)
Moved(e) ==
  /\ hw' \in Hws /\ hw'.stat = hw.stat \ {e} /\ hw'.complete = hw.complete \cup {e}
  /\ Same(hw', hw, {"setupstat", "sutw", "setup", "uri", "prime", "address", "ctrl"})

(* A transfer on `e` leaves the rest of the controller alone. *)
LEMMA TransferredEffect ==
  ASSUME hw \in Hws, NEW e \in Endpoints, hw' = Transferred(e)
  PROVE  Moved(e)
BY DEF Transferred, Moved, Hws, Same

(* What the host does on endpoint 0. *)
LEMMA Host0Effect ==
  ASSUME Types
  PROVE  /\ TakeIn0 =>
              /\ Ready(IN0) /\ Moved(IN0) /\ UNCHANGED <<dqh, inner, dev, upset>>
              /\ host' \in Hosts /\ Same(host', host, {"message", "waiting", "bulk", "pr"})
              /\ \/ /\ host.at = "data" /\ host'.want = host.want - 1 /\ host'.phase = host.phase
                    /\ host'.at = (IF host.want = 1 THEN "status_out" ELSE "data")
                 \/ host.at = "status_in" /\ host'.at = "idle" /\ host'.want = host.want
         /\ SendStatus =>
              /\ Ready(OUT0) /\ Moved(OUT0) /\ UNCHANGED <<dqh, inner, dev, upset>>
              /\ host.at = "status_out" /\ host' \in Hosts /\ host'.at = "idle"
              /\ Same(host', host, {"phase", "want", "message", "waiting", "bulk", "pr"})
         /\ \A p \in Setups : SendSetup(p) =>
              /\ Online /\ UNCHANGED <<dqh, inner, dev>>
              /\ hw' \in Hws /\ hw'.setup = p /\ hw'.setupstat = TRUE /\ hw'.sutw = FALSE
              /\ Same(hw', hw, {"uri", "prime", "stat", "complete", "address", "ctrl"})
              /\ host' \in Hosts /\ host'.at = (IF p.len > 0 THEN "data" ELSE "status_in")
              /\ host'.want = p.len /\ host'.bulk = 0
              /\ Same(host', host, {"phase", "message", "waiting", "pr"})
              /\ upset \subseteq upset' /\ upset' \subseteq Upsets \cup upset
              /\ "stale" \in upset' => "stale" \in upset
              /\ "slow" \in upset' => "slow" \in upset
              /\ p.kind = "CLEAR_FEATURE" => "request" \in upset'
              /\ p.kind = "NO_DESCRIPTOR" => "missing" \in upset'
<1>1. hw \in Hws /\ host \in Hosts /\ IN0 \in Endpoints /\ OUT0 \in Endpoints
  BY EndpointFacts DEF Types
<1>2. ASSUME TakeIn0
      PROVE  /\ Ready(IN0) /\ Moved(IN0) /\ UNCHANGED <<dqh, inner, dev, upset>>
             /\ host' \in Hosts /\ Same(host', host, {"message", "waiting", "bulk", "pr"})
             /\ \/ /\ host.at = "data" /\ host'.want = host.want - 1 /\ host'.phase = host.phase
                   /\ host'.at = (IF host.want = 1 THEN "status_out" ELSE "data")
                \/ host.at = "status_in" /\ host'.at = "idle" /\ host'.want = host.want
  <2>1. Ready(IN0) /\ Moved(IN0) /\ UNCHANGED <<dqh, inner, dev, upset>>
    BY <1>1, <1>2, TransferredEffect DEF TakeIn0
  <2>2. CASE host.at = "data"
    <3>1. PICK n \in Int : n = host.want - 1
      BY <1>1 DEF Hosts
    <3>2. PICK a \in {"data", "status_out"} : a = IF host.want = 1 THEN "status_out" ELSE "data"
      OBVIOUS
    <3>3. host' = [host EXCEPT !.want = n, !.at = a]
      BY <1>1, <1>2, <2>2, <3>1, <3>2 DEF TakeIn0, Hosts
    <3>4. /\ host' \in Hosts /\ host'.want = n /\ host'.at = a
          /\ Same(host', host, {"phase", "message", "waiting", "bulk", "pr"})
      BY <1>1, <3>1, <3>2, <3>3 DEF Hosts, Same
    <3>. QED
      BY <2>1, <2>2, <3>1, <3>2, <3>4 DEF Same
  <2>3. CASE host.at # "data"
    <3>1. PICK f \in {"addressed", "configured"} :
            f = IF hw.setup.kind = "SET_ADDRESS" THEN "addressed" ELSE "configured"
      OBVIOUS
    <3>2. host' = [host EXCEPT !.at = "idle", !.phase = f]
      BY <1>2, <2>3, <3>1 DEF TakeIn0
    <3>3. /\ host' \in Hosts /\ host'.at = "idle" /\ host'.want = host.want
          /\ Same(host', host, {"message", "waiting", "bulk", "pr"})
      BY <1>1, <3>1, <3>2 DEF Hosts, Same
    <3>4. host.at = "status_in"
      BY <1>2, <2>3 DEF TakeIn0
    <3>. QED
      BY <2>1, <3>3, <3>4
  <2>. QED
    BY <2>2, <2>3
<1>3. ASSUME SendStatus
      PROVE  /\ Ready(OUT0) /\ Moved(OUT0) /\ UNCHANGED <<dqh, inner, dev, upset>>
             /\ host.at = "status_out" /\ host' \in Hosts /\ host'.at = "idle"
             /\ Same(host', host, {"phase", "want", "message", "waiting", "bulk", "pr"})
  <2>1. /\ Ready(OUT0) /\ Moved(OUT0) /\ UNCHANGED <<dqh, inner, dev, upset>>
        /\ host.at = "status_out"
    BY <1>1, <1>3, TransferredEffect DEF SendStatus
  <2>2. /\ host' \in Hosts /\ host'.at = "idle"
        /\ Same(host', host, {"phase", "want", "message", "waiting", "bulk", "pr"})
    BY <1>1, <1>3 DEF SendStatus, Hosts, Same
  <2>. QED
    BY <2>1, <2>2
<1>4. ASSUME NEW p \in Setups, SendSetup(p)
      PROVE  /\ Online /\ UNCHANGED <<dqh, inner, dev>>
             /\ hw' \in Hws /\ hw'.setup = p /\ hw'.setupstat = TRUE /\ hw'.sutw = FALSE
             /\ Same(hw', hw, {"uri", "prime", "stat", "complete", "address", "ctrl"})
             /\ host' \in Hosts /\ host'.at = (IF p.len > 0 THEN "data" ELSE "status_in")
             /\ host'.want = p.len /\ host'.bulk = 0
             /\ Same(host', host, {"phase", "message", "waiting", "pr"})
             /\ upset \subseteq upset' /\ upset' \subseteq Upsets \cup upset
             /\ "stale" \in upset' => "stale" \in upset
             /\ "slow" \in upset' => "slow" \in upset
             /\ p.kind = "CLEAR_FEATURE" => "request" \in upset'
             /\ p.kind = "NO_DESCRIPTOR" => "missing" \in upset'
  <2>1. /\ Online /\ UNCHANGED <<dqh, inner, dev>>
        /\ hw' \in Hws /\ hw'.setup = p /\ hw'.setupstat = TRUE /\ hw'.sutw = FALSE
        /\ Same(hw', hw, {"uri", "prime", "stat", "complete", "address", "ctrl"})
    BY <1>1, <1>4 DEF SendSetup, Hws, Same
  <2>2. PICK a \in {"data", "status_in"} : a = IF p.len > 0 THEN "data" ELSE "status_in"
    OBVIOUS
  <2>3. p.len \in Int /\ 0 \in 0 .. MaxBulk
    BY SetupFacts, BoundsAssumption
  <2>4. host' = [host EXCEPT !.at = a, !.want = p.len, !.bulk = 0]
    BY <1>4, <2>2 DEF SendSetup
  <2>5. /\ host' \in Hosts /\ host'.at = a /\ host'.want = p.len /\ host'.bulk = 0
        /\ Same(host', host, {"phase", "message", "waiting", "pr"})
    BY <1>1, <2>2, <2>3, <2>4 DEF Hosts, Same
  <2>6. /\ upset \subseteq upset' /\ upset' \subseteq Upsets \cup upset
        /\ "stale" \in upset' => "stale" \in upset
        /\ "slow" \in upset' => "slow" \in upset
        /\ p.kind = "CLEAR_FEATURE" => "request" \in upset'
        /\ p.kind = "NO_DESCRIPTOR" => "missing" \in upset'
    BY <1>4 DEF SendSetup, May
  <2>. QED
    BY <2>1, <2>2, <2>5, <2>6
<1>. QED
  BY <1>2, <1>3, <1>4

(* What the host does on endpoint 1, and the bus reset. *)
LEMMA Host1Effect ==
  ASSUME Types
  PROVE  /\ SendMessage =>
              /\ Ready(OUT1) /\ Moved(OUT1) /\ UNCHANGED <<inner, dev>>
              /\ dqh' \in Dqhs /\ dqh'.data[OUT1] = ~ host.message
              /\ dqh'.data[IN1] = dqh.data[IN1] /\ Same(dqh', dqh, {"current", "next", "addr"})
              /\ host' \in Hosts /\ host'.message = ~ host.message
              /\ host.waiting \in {0, 1} /\ host'.waiting = host.waiting + 1
              /\ Same(host', host, {"at", "phase", "want", "pr"})
              /\ upset' = upset \cup {u \in {"two"} : host.waiting = 1}
              /\ upset' \subseteq Upsets \cup upset
         /\ TakeAnswer =>
              /\ Ready(IN1) /\ Moved(IN1) /\ UNCHANGED <<dqh, inner, dev, upset>>
              /\ host.waiting > 0
              /\ host' \in Hosts /\ host'.waiting = host.waiting - 1
              /\ Same(host', host, {"at", "phase", "want", "message", "bulk", "pr"})
         /\ StartReset =>
              /\ Online /\ UNCHANGED <<dqh, inner, dev>>
              /\ hw' \in Hws /\ hw'.uri = TRUE /\ hw'.address = FALSE
              /\ Same(hw', hw, {"setupstat", "sutw", "setup", "prime", "stat", "complete", "ctrl"})
              /\ host' \in Hosts /\ host'.pr = TRUE /\ host'.at = "idle" /\ host'.waiting = 0
              /\ host'.message = host.message
              /\ upset' = upset \cup {u \in {"stale"} : host.at # "idle" \/ host.waiting > 0}
         /\ EndReset =>
              /\ host.pr /\ UNCHANGED <<hw, dqh, inner, dev>>
              /\ host' \in Hosts /\ host'.pr = FALSE
              /\ Same(host', host, {"at", "phase", "want", "message", "waiting", "bulk"})
              /\ upset' = upset \cup {u \in {"slow"} : hw.uri}
              /\ upset' \subseteq Upsets \cup upset
<1>1. /\ hw \in Hws /\ dqh \in Dqhs /\ host \in Hosts
      /\ OUT1 \in Endpoints /\ IN1 \in Endpoints /\ OUT1 # IN1
  BY EndpointFacts DEF Types
<1>2. ASSUME SendMessage
      PROVE  /\ Ready(OUT1) /\ Moved(OUT1) /\ UNCHANGED <<inner, dev>>
             /\ dqh' \in Dqhs /\ dqh'.data[OUT1] = ~ host.message
             /\ dqh'.data[IN1] = dqh.data[IN1] /\ Same(dqh', dqh, {"current", "next", "addr"})
             /\ host' \in Hosts /\ host'.message = ~ host.message
             /\ host.waiting \in {0, 1} /\ host'.waiting = host.waiting + 1
             /\ Same(host', host, {"at", "phase", "want", "pr"})
             /\ upset' = upset \cup {u \in {"two"} : host.waiting = 1}
             /\ upset' \subseteq Upsets \cup upset
  <2>1. Ready(OUT1) /\ Moved(OUT1) /\ UNCHANGED <<inner, dev>>
    BY <1>1, <1>2, TransferredEffect DEF SendMessage
  <2>2. PICK m \in BOOLEAN : m = ~ host.message
    BY <1>1
  <2>3. dqh' = [dqh EXCEPT !.data = [@ EXCEPT ![OUT1] = m]]
    BY <1>2, <2>2 DEF SendMessage
  <2>4. /\ dqh'.data = [dqh.data EXCEPT ![OUT1] = m]
        /\ Same(dqh', dqh, {"current", "next", "addr"})
        /\ dqh' = [current |-> dqh'.current, next |-> dqh'.next, addr |-> dqh'.addr,
                   data |-> dqh'.data]
    BY <1>1, <2>3 DEF Dqhs, Same
  <2>5. /\ dqh'.data \in [{OUT1, IN1} -> BOOLEAN]
        /\ dqh'.data[OUT1] = m /\ dqh'.data[IN1] = dqh.data[IN1]
    BY <1>1, <2>4, <2>2 DEF Dqhs
  <2>6. dqh' \in Dqhs
    BY <1>1, <2>4, <2>5 DEF Dqhs, Same
  <2>7. host.waiting \in {0, 1} /\ host.waiting + 1 \in 0 .. 2
    BY <1>2 DEF SendMessage
  <2>8. PICK b \in 0 .. MaxBulk : b = IF host.at = "idle" THEN 0 ELSE host.bulk + 1
    BY <1>1, <1>2, BoundsAssumption DEF SendMessage, Hosts
  <2>9. PICK w \in 0 .. 2 : w = host.waiting + 1
    BY <2>7
  <2>10. host' = [host EXCEPT !.message = m, !.waiting = w, !.bulk = b]
    <3>1. host' = [host EXCEPT !.message = ~ host.message, !.waiting = host.waiting + 1,
                               !.bulk = IF host.at = "idle" THEN 0 ELSE host.bulk + 1]
      BY <1>2 DEF SendMessage
    <3>. QED
      BY <2>2, <2>8, <2>9, <3>1, Zenon
  <2>11. /\ host' \in Hosts /\ host'.message = m /\ host'.waiting = w
         /\ Same(host', host, {"at", "phase", "want", "pr"})
    BY <1>1, <2>2, <2>8, <2>9, <2>10 DEF Hosts, Same
  <2>12. /\ upset' = upset \cup {u \in {"two"} : host.waiting = 1}
         /\ upset' \subseteq Upsets \cup upset
    BY <1>2 DEF SendMessage, May
  <2>. QED
    BY <2>1, <2>2, <2>4, <2>5, <2>6, <2>7, <2>9, <2>11, <2>12
<1>3. ASSUME TakeAnswer
      PROVE  /\ Ready(IN1) /\ Moved(IN1) /\ UNCHANGED <<dqh, inner, dev, upset>>
             /\ host.waiting > 0
             /\ host' \in Hosts /\ host'.waiting = host.waiting - 1
             /\ Same(host', host, {"at", "phase", "want", "message", "bulk", "pr"})
  <2>1. /\ Ready(IN1) /\ Moved(IN1) /\ UNCHANGED <<dqh, inner, dev, upset>>
        /\ host.waiting > 0
    BY <1>1, <1>3, TransferredEffect DEF TakeAnswer
  <2>2. PICK w \in 0 .. 2 : w = host.waiting - 1
    BY <1>1, <2>1 DEF Hosts
  <2>3. host' = [host EXCEPT !.waiting = w]
    BY <1>3, <2>2 DEF TakeAnswer
  <2>4. /\ host' \in Hosts /\ host'.waiting = w
        /\ Same(host', host, {"at", "phase", "want", "message", "bulk", "pr"})
    BY <1>1, <2>3 DEF Hosts, Same
  <2>. QED
    BY <2>1, <2>2, <2>4
<1>4. ASSUME StartReset
      PROVE  /\ Online /\ UNCHANGED <<dqh, inner, dev>>
             /\ hw' \in Hws /\ hw'.uri = TRUE /\ hw'.address = FALSE
             /\ Same(hw', hw, {"setupstat", "sutw", "setup", "prime", "stat", "complete", "ctrl"})
             /\ host' \in Hosts /\ host'.pr = TRUE /\ host'.at = "idle" /\ host'.waiting = 0
             /\ host'.message = host.message
             /\ upset' = upset \cup {u \in {"stale"} : host.at # "idle" \/ host.waiting > 0}
  <2>1. /\ hw' \in Hws /\ hw'.uri = TRUE /\ hw'.address = FALSE
        /\ Same(hw', hw, {"setupstat", "sutw", "setup", "prime", "stat", "complete", "ctrl"})
    BY <1>1, <1>4 DEF StartReset, Hws, Same
  <2>2. /\ host' \in Hosts /\ host'.pr = TRUE /\ host'.at = "idle" /\ host'.waiting = 0
        /\ host'.message = host.message
    <3>1. 0 \in 0 .. MaxBulk /\ 0 \in 0 .. 2 /\ 0 \in Int
      BY BoundsAssumption
    <3>2. PICK t \in BOOLEAN : t = TRUE
      OBVIOUS
    <3>3. host' = [host EXCEPT !.pr = t, !.at = "idle", !.phase = "default", !.waiting = 0,
                               !.want = 0, !.bulk = 0]
      BY <1>4, <3>2 DEF StartReset
    <3>. QED
      BY <1>1, <3>1, <3>2, <3>3 DEF Hosts
  <2>. QED
    BY <1>4, <2>1, <2>2 DEF StartReset
<1>5. ASSUME EndReset
      PROVE  /\ host.pr /\ UNCHANGED <<hw, dqh, inner, dev>>
             /\ host' \in Hosts /\ host'.pr = FALSE
             /\ Same(host', host, {"at", "phase", "want", "message", "waiting", "bulk"})
             /\ upset' = upset \cup {u \in {"slow"} : hw.uri}
             /\ upset' \subseteq Upsets \cup upset
  <2>1. /\ host' \in Hosts /\ host'.pr = FALSE
        /\ Same(host', host, {"at", "phase", "want", "message", "waiting", "bulk"})
    BY <1>1, <1>5 DEF EndReset, Hosts, Same
  <2>. QED
    BY <1>5, <2>1 DEF EndReset, May
<1>. QED
  BY <1>2, <1>3, <1>4, <1>5

(***************************************************************************)
(* Every step is one of these, and keeps the types.                        *)
(***************************************************************************)
Allocating ==
  \E e \in Endpoints, size \in Sizes :
    alloc_ep(e, size) /\ (e \in {OUT0, IN0} => size = 64)

(* Every step is one of these, alloc_ep with any endpoint and size. *)
LEMMA StepCases ==
  ASSUME [Next]_vars
  PROVE  \/ UNCHANGED vars
         \/ Allocating \/ enable
         \/ PollStatus \/ PollSetup \/ PollComplete \/ TransferFailed
         \/ ReadSetup \/ SetTripwire \/ CopyFirst \/ CopySecond \/ CheckTripwire \/ SetupRead
         \/ AnswerSetup \/ ReadStatus \/ StatusRead \/ StatusTimeout
         \/ InComplete0 \/ ReadBulk \/ Echo
         \/ ResetClear \/ ResetFlush \/ ResetTimeout
         \/ (\E e \in Endpoints : Prime(e))
         \/ TakeIn0 \/ SendStatus \/ TakeAnswer
         \/ (\E p \in Setups : SendSetup(p))
         \/ SendMessage \/ StartReset \/ EndReset
         \/ Restart
<1>1. (\E e \in {OUT0, IN0} : alloc_ep(e, 64)) => Allocating
  BY EndpointFacts DEF Allocating, Sizes
<1>2. (\E s \in OutSizes : alloc_ep(OUT1, s)) => Allocating
  BY EndpointFacts DEF Allocating, Sizes
<1>3. (\E s \in InSizes : alloc_ep(IN1, s)) => Allocating
  BY EndpointFacts DEF Allocating, Sizes
<1>. QED
  BY <1>1, <1>2, <1>3, Zenon DEF Next, Driver, Priming, Transfer

(* The places that one step goes to by itself.                             *)
LEMMA SimpleSteps ==
  ASSUME Types
  PROVE  /\ enable => dev.pc = "alloc" /\ inner.used = Endpoints /\ GoTo("idle")
                      /\ UNCHANGED <<hw, dqh, inner, host, upset>>
         /\ PollStatus => /\ dev.pc = "idle" /\ UNCHANGED <<hw, dqh, inner, host, upset>>
                          /\ GoTo(IF hw.uri THEN "reset" ELSE "poll")
         /\ TransferFailed => /\ dev.pc \in {"poll_complete", "class", "wait"} /\ GoTo("dma")
                              /\ UNCHANGED <<hw, dqh, inner, host, upset>>
         /\ SetTripwire => /\ dev.pc = "tripwire" /\ GoTo("copy")
                           /\ UNCHANGED <<dqh, inner, host, upset>>
                           /\ hw' \in Hws /\ hw'.sutw = TRUE
                           /\ Same(hw', hw, {"setupstat", "setup", "uri", "prime", "stat",
                                             "complete", "address", "ctrl"})
         /\ CheckTripwire => /\ dev.pc = "check" /\ UNCHANGED <<hw, dqh, inner, host, upset>>
                             /\ GoTo(IF hw.sutw THEN "copied" ELSE "tripwire")
         /\ ReadStatus => /\ dev.pc = "read0" /\ ~ inner.setupstat
                          /\ UNCHANGED <<dqh, inner, host, upset>>
                          /\ \/ OUT0 \in dqh.current /\ GoTo("assert") /\ UNCHANGED hw
                             \/ /\ OUT0 \notin dqh.current /\ GoTo("wait")
                                /\ hw' \in Hws /\ hw'.prime = hw.prime \cup {OUT0}
                                /\ Same(hw', hw, {"setupstat", "sutw", "setup", "uri", "stat",
                                                  "complete", "address", "ctrl"})
         /\ StatusTimeout => /\ dev.pc = "wait" /\ OUT0 \in hw.stat
                             /\ UNCHANGED <<hw, dqh, inner, host, upset>>
                             /\ \/ GoTo("late") /\ host.at = "status_out" /\ ~ host.pr
                                \/ GoTo("timeout") /\ ~ (host.at = "status_out" /\ ~ host.pr)
         /\ ResetTimeout => /\ dev.pc = "flush" /\ hw.prime # {} /\ GoTo("primed")
                            /\ UNCHANGED <<hw, dqh, inner, host, upset>>
<1>1. hw \in Hws /\ OUT0 \in Endpoints
  BY EndpointFacts DEF Types
<1>2. SetTripwire => /\ hw' \in Hws /\ hw'.sutw = TRUE
                     /\ Same(hw', hw, {"setupstat", "setup", "uri", "prime", "stat",
                                       "complete", "address", "ctrl"})
  BY <1>1 DEF SetTripwire, Hws, Same
<1>3. ASSUME ReadStatus, OUT0 \notin dqh.current
      PROVE  /\ hw' \in Hws /\ hw'.prime = hw.prime \cup {OUT0}
             /\ Same(hw', hw, {"setupstat", "sutw", "setup", "uri", "stat", "complete", "address",
                               "ctrl"})
  BY <1>1, <1>3 DEF ReadStatus, Hws, Same
<1>4. PollStatus => /\ dev.pc = "idle" /\ UNCHANGED <<hw, dqh, inner, host, upset>>
                    /\ GoTo(IF hw.uri THEN "reset" ELSE "poll")
  BY DEF PollStatus
<1>5. CheckTripwire => /\ dev.pc = "check" /\ UNCHANGED <<hw, dqh, inner, host, upset>>
                       /\ GoTo(IF hw.sutw THEN "copied" ELSE "tripwire")
  BY DEF CheckTripwire, TripwireSet
<1>6. StatusTimeout => /\ dev.pc = "wait" /\ OUT0 \in hw.stat
                       /\ UNCHANGED <<hw, dqh, inner, host, upset>>
                       /\ \/ GoTo("late") /\ host.at = "status_out" /\ ~ host.pr
                          \/ GoTo("timeout") /\ ~ (host.at = "status_out" /\ ~ host.pr)
  BY DEF StatusTimeout
<1>7. ReadStatus => /\ dev.pc = "read0" /\ ~ inner.setupstat
                    /\ UNCHANGED <<dqh, inner, host, upset>>
                    /\ \/ OUT0 \in dqh.current /\ GoTo("assert") /\ UNCHANGED hw
                       \/ OUT0 \notin dqh.current /\ GoTo("wait")
  BY DEF ReadStatus
<1>. QED
  BY <1>2, <1>3, <1>4, <1>5, <1>6, <1>7 DEF enable, TransferFailed, SetTripwire, ResetTimeout

(* Every step preserves the types. *)
LEMMA TypesStep ==
  ASSUME Types, [Next]_vars
  PROVE  Types'
<1>0. /\ hw \in Hws /\ dqh \in Dqhs /\ inner \in Inners /\ dev \in Devs /\ host \in Hosts
      /\ upset \subseteq Upsets \cup {"stale"}
  BY DEF Types
<1>. USE <1>0
<1>1. CASE UNCHANGED vars
  BY <1>1 DEF vars, Types
<1>2. CASE Allocating
  BY <1>2, AllocEffect, GoToFacts, PlaceFacts DEF Allocating, Added, Unfit, Types
<1>3. CASE enable \/ TransferFailed \/ StatusTimeout \/ ResetTimeout \/ PollStatus
             \/ SetTripwire \/ CheckTripwire \/ ReadStatus
  BY <1>3, SimpleSteps, GoToFacts, PlaceFacts DEF Types
<1>4. CASE PollComplete
  BY <1>4, PollEffect, GoToFacts, PlaceFacts DEF Types, Reported
<1>5. CASE SetupRead
  BY <1>5, SetupReadEffect DEF Types
<1>6. CASE PollSetup \/ CopyFirst \/ CopySecond
  BY <1>6, ReadEffect DEF Types, PollSetup, CopyFirst, CopySecond
<1>7. CASE ReadSetup
  BY <1>7, ReadEffect, GoToFacts, PlaceFacts DEF Types, ReadSetup
<1>8. CASE AnswerSetup
  BY <1>8, AnswerEffect, GoToFacts, PlaceFacts DEF Types, Kept, Refused, Blocked, Primed
<1>9. CASE StatusRead
  BY <1>9, StatusEffect, GoToFacts, PlaceFacts DEF Types, Kept
<1>10. CASE InComplete0
  BY <1>10, In0Effect, GoToFacts, PlaceFacts DEF Types, Kept, Refused, Blocked, Primed
<1>11. CASE ReadBulk
  BY <1>11, BulkEffect, GoToFacts, PlaceFacts DEF Types
<1>12. CASE Echo
  BY <1>12, EchoEffect, GoToFacts, PlaceFacts DEF Types, Kept, Refused, Blocked, Primed
<1>13. CASE ResetClear
  BY <1>13, ResetEffect DEF Types, ResetClear
<1>14. CASE ResetFlush
  BY <1>14, ResetEffect DEF Types, ResetFlush
<1>15. ASSUME NEW e \in Endpoints, Prime(e)
       PROVE  Types'
  BY <1>15, PrimeEffect DEF Types
<1>16. CASE TakeIn0 \/ SendStatus
  BY <1>16, Host0Effect DEF Types, Moved
<1>17. ASSUME NEW p \in Setups, SendSetup(p)
       PROVE  Types'
  BY <1>17, Host0Effect DEF Types
<1>18. CASE SendMessage \/ TakeAnswer \/ StartReset \/ EndReset
  BY <1>18, Host1Effect DEF Types, Moved
<1>19. CASE Restart
  BY <1>19, BootTypes DEF Types, Restart
<1>. QED
  BY <1>1, <1>2, <1>3, <1>4, <1>5, <1>6, <1>7, <1>8, <1>9, <1>10, <1>11, <1>12, <1>13, <1>14,
     <1>15, <1>16, <1>17, <1>18, <1>19, StepCases

(***************************************************************************)
(* The driver's queue heads and the controller agree.                      *)
(***************************************************************************)

(* What is active or has completed is current, a queue head is current or  *)
(* next, and endpoint 0 takes an OUT transfer only while read waits for    *)
(* it.                                                                     *)
QueuesInv ==
  /\ hw.stat \cup hw.complete \subseteq dqh.current
  /\ hw.stat \cap hw.complete = {}
  /\ dqh.current \subseteq inner.used /\ dqh.next = inner.used \ dqh.current
  /\ inner.used # Endpoints \/ dev.pc = "alloc" =>
       dev.pc \in {"alloc", "oom", "size"} /\ hw.prime = {} /\ dqh.current = {} /\ ~ hw.address
  /\ OUT0 \in hw.prime \cup dqh.current => dev.pc = "wait" \/ dev.pc \in Fatal
  /\ hw.prime \cap dqh.current \subseteq {OUT1}

(* Endpoint 1 is ready for a message once there is an address, and nothing *)
(* is current that the controller does not know of, but for a bus reset.   *)
ReadyInv ==
  /\ hw.address => OUT1 \in hw.prime \cup dqh.current
  /\ "stale" \notin upset /\ ~ hw.uri => dqh.current \subseteq hw.stat \cup hw.complete

(* reset runs while the interrupt of the bus reset is pending, and the bus *)
(* reset lasts, unless it was over too soon.                               *)
ResetInv ==
  /\ dev.pc \in {"reset", "flush"} => hw.uri
  /\ hw.uri /\ "slow" \notin upset => host.pr

(* The fields the invariants speak of. *)
LEMMA Fields ==
  ASSUME Types
  PROVE  /\ {hw.prime, hw.stat, hw.complete, dqh.current, dqh.next, dqh.addr, inner.used}
              \subseteq SUBSET Endpoints
         /\ dev \in Devs /\ dev.report \in Reports /\ dev.report.in \subseteq {0, 1}
         /\ dev.pc \in Places /\ dev.control \in Controls /\ hw.setup \in Setups
         /\ dev.copy[1] \in Setups /\ dev.copy[2] \in Setups /\ dev.handled \in Setups
BY DEF Types, Hws, Dqhs, Inners, Devs, Reports

(* An action of the driver that touches neither the queue heads nor the    *)
(* queues of the controller.                                               *)
Quietly ==
  /\ UNCHANGED <<dqh, host, upset>>
  /\ Same(hw', hw, {"setup", "uri", "prime", "stat", "complete", "address", "ctrl"})
  /\ Same(inner', inner, {"used", "size", "bufs"})

(* poll, the reading of a SETUP packet and the panics are quiet. *)
LEMMA QuietSteps ==
  ASSUME Types
  PROVE  /\ PollStatus \/ PollSetup \/ TransferFailed \/ ReadSetup \/ SetTripwire \/ CopyFirst
              \/ CopySecond \/ CheckTripwire \/ SetupRead \/ StatusTimeout \/ ResetTimeout => Quietly
         /\ PollStatus \/ PollSetup \/ TransferFailed \/ CopyFirst \/ CopySecond \/ CheckTripwire
              \/ StatusTimeout \/ ResetTimeout => UNCHANGED <<hw, inner>>
<1>1. PollStatus \/ PollSetup \/ TransferFailed \/ CopyFirst \/ CopySecond \/ CheckTripwire
        \/ StatusTimeout \/ ResetTimeout => UNCHANGED <<hw, dqh, inner, host, upset>>
  BY DEF PollStatus, PollSetup, TransferFailed, CopyFirst, CopySecond, CheckTripwire, StatusTimeout,
      ResetTimeout
<1>2. UNCHANGED <<hw, dqh, inner, host, upset>> => Quietly
  BY DEF Quietly, Same
<1>3. ReadSetup => Quietly
  BY ReadEffect DEF ReadSetup, Quietly, Same
<1>4. SetTripwire => Quietly
  BY SimpleSteps DEF SetTripwire, Quietly, Same
<1>5. SetupRead => Quietly
  BY SetupReadEffect DEF Quietly, Same
<1>. QED
  BY <1>1, <1>2, <1>3, <1>4, <1>5

(* Where the quiet actions begin and end. *)
LEMMA QuietPlaces ==
  ASSUME Types
  PROVE  /\ PollStatus => dev.pc = "idle" /\ dev'.pc = (IF hw.uri THEN "reset" ELSE "poll")
         /\ PollSetup => dev.pc = "poll" /\ dev'.pc = "poll_complete"
         /\ TransferFailed => dev.pc \in {"poll_complete", "class", "wait"} /\ dev'.pc = "dma"
         /\ ReadSetup => dev.pc = "read0" /\ dev'.pc = "tripwire"
         /\ SetTripwire => dev.pc = "tripwire" /\ dev'.pc = "copy"
         /\ CopyFirst => dev.pc = "copy" /\ dev'.pc = "copying"
         /\ CopySecond => dev.pc = "copying" /\ dev'.pc = "check"
         /\ CheckTripwire => /\ dev.pc = "check"
                             /\ dev'.pc = (IF hw.sutw THEN "copied" ELSE "tripwire")
         /\ SetupRead => dev.pc = "copied" /\ dev'.pc \in {"assert", "answer", "unexpected"}
         /\ StatusTimeout => /\ dev.pc = "wait" /\ OUT0 \in hw.stat
                             /\ dev'.pc \in {"late", "timeout"}
         /\ ResetTimeout => dev.pc = "flush" /\ hw.prime # {} /\ dev'.pc = "primed"
<1>1. dev \in Devs
  BY DEF Types
<1>2. PollSetup => dev.pc = "poll" /\ dev'.pc = "poll_complete"
  BY ReadEffect DEF PollSetup
<1>3. (CopyFirst => dev.pc = "copy" /\ dev'.pc = "copying")
      /\ (CopySecond => dev.pc = "copying" /\ dev'.pc = "check")
  BY ReadEffect DEF CopyFirst, CopySecond
<1>4. ReadSetup => dev.pc = "read0" /\ dev'.pc = "tripwire"
  BY <1>1, GoToFacts, PlaceFacts DEF ReadSetup
<1>5. SetupRead => dev.pc = "copied" /\ dev'.pc \in {"assert", "answer", "unexpected"}
  BY SetupReadEffect DEF ReadPlace
<1>6. /\ PollStatus => dev.pc = "idle" /\ dev'.pc = (IF hw.uri THEN "reset" ELSE "poll")
      /\ CheckTripwire => dev.pc = "check" /\ dev'.pc = (IF hw.sutw THEN "copied" ELSE "tripwire")
  BY <1>1, SimpleSteps, GoToFacts, PlaceFacts
<1>7. /\ TransferFailed => dev.pc \in {"poll_complete", "class", "wait"} /\ dev'.pc = "dma"
      /\ SetTripwire => dev.pc = "tripwire" /\ dev'.pc = "copy"
      /\ StatusTimeout => dev.pc = "wait" /\ OUT0 \in hw.stat /\ dev'.pc \in {"late", "timeout"}
      /\ ResetTimeout => dev.pc = "flush" /\ hw.prime # {} /\ dev'.pc = "primed"
  BY <1>1, SimpleSteps, GoToFacts, PlaceFacts
<1>. QED
  BY <1>2, <1>3, <1>4, <1>5, <1>6, <1>7

(* The places after a report. *)
LEMMA AfterCases ==
  ASSUME NEW r
  PROVE  /\ AfterOut(r) \in {"in0", "class", "idle"} /\ AfterIn(r) \in {"class", "idle"}
         /\ Dispatch(r) \in {"read0", "in0", "class", "idle"}
BY DEF AfterOut, AfterIn, Dispatch

(* Every step preserves the agreement of queue heads and controller: an    *)
(* endpoint is primed only when it is next, the controller moves it to     *)
(* current, and the driver takes it back with its completion.              *)
LEMMA QueuesStep ==
  ASSUME Types, QueuesInv, [Next]_vars
  PROVE  QueuesInv'
<1>. USE Fields, EndpointFacts DEF QueuesInv
<1>1. CASE UNCHANGED vars
  BY <1>1 DEF vars
<1>2. CASE Allocating
  BY <1>2, AllocEffect, GoToFacts, PlaceFacts DEF Allocating, Added, Unfit, Same, Fatal
<1>3. CASE PollStatus \/ PollSetup \/ TransferFailed \/ ReadSetup \/ SetTripwire \/ CopyFirst
             \/ CopySecond \/ CheckTripwire \/ SetupRead \/ StatusTimeout \/ ResetTimeout
  BY <1>3, QuietSteps, QuietPlaces DEF Quietly, Same, Fatal
<1>4. CASE enable
  BY <1>4, SimpleSteps, GoToFacts, PlaceFacts DEF Fatal
<1>5. CASE PollComplete
  <2>1. CASE GoTo("assert") /\ UNCHANGED <<hw, dqh, inner>>
    BY <1>5, <2>1, PollEffect, GoToFacts, PlaceFacts DEF Fatal
  <2>2. ASSUME NEW tx \in SUBSET Endpoints, NEW due, NEW status, NEW r,
               Polled(tx, due, status, r), Reported(tx, due, status, r)
        PROVE  QueuesInv'
    <3>1. dev.pc = "poll_complete" /\ UNCHANGED <<host, upset>>
      BY <1>5, PollEffect
    <3>2. dev'.pc \in {"read0", "in0", "class", "idle"}
      BY <2>2, AfterCases DEF Reported
    <3>3. tx = hw.complete \cap {IN0, IN1}
      BY <2>2 DEF Polled
    <3>. QED
      BY <2>2, <3>1, <3>2, <3>3 DEF Reported, Same, Fatal
  <2>. QED
    BY <1>5, <2>1, <2>2, PollEffect
<1>6. CASE ReadStatus
  BY <1>6, SimpleSteps, GoToFacts, PlaceFacts DEF Same, Fatal
<1>7. CASE AnswerSetup
  BY <1>7, AnswerEffect, GoToFacts, PlaceFacts, AfterCases
  DEF Kept, Refused, Blocked, Primed, Same, Fatal
<1>8. CASE StatusRead
  BY <1>8, StatusEffect, GoToFacts, PlaceFacts, AfterCases DEF Kept, Same, Fatal
<1>9. CASE InComplete0
  BY <1>9, In0Effect, GoToFacts, PlaceFacts, AfterCases
  DEF Kept, Refused, Blocked, Primed, Same, Fatal
<1>10. CASE ReadBulk
  BY <1>10, BulkEffect, GoToFacts, PlaceFacts DEF Same, Fatal
<1>11. CASE Echo
  BY <1>11, EchoEffect, GoToFacts, PlaceFacts DEF Kept, Refused, Blocked, Primed, Same, Fatal
<1>12. CASE ResetClear \/ ResetFlush
  BY <1>12, ResetEffect DEF ResetClear, ResetFlush, Same, Fatal
<1>13. ASSUME NEW e \in Endpoints, Prime(e)
       PROVE  QueuesInv'
  BY <1>13, PrimeEffect DEF Same
<1>14. CASE TakeIn0 \/ SendStatus \/ TakeAnswer \/ SendMessage
  BY <1>14, Host0Effect, Host1Effect DEF Moved, Ready, Same
<1>15. ASSUME NEW p \in Setups, SendSetup(p)
       PROVE  QueuesInv'
  BY <1>15, Host0Effect DEF Same
<1>16. CASE StartReset \/ EndReset
  BY <1>16, Host1Effect DEF Same
<1>17. CASE Restart
  BY <1>17 DEF Restart, Boot
<1>. QED
  BY <1>1, <1>2, <1>3, <1>4, <1>5, <1>6, <1>7, <1>8, <1>9, <1>10, <1>11, <1>12, <1>13, <1>14,
     <1>15, <1>16, <1>17, StepCases

(* The interrupt of a bus reset is acknowledged by ResetFlush alone. *)
LEMMA ResetStep ==
  ASSUME Types, ResetInv, [Next]_vars
  PROVE  ResetInv'
<1>. USE Fields DEF ResetInv
<1>1. CASE UNCHANGED vars
  BY <1>1 DEF vars
<1>2. CASE Allocating
  <2>1. /\ UNCHANGED <<hw, host, upset>> /\ dev.pc = "alloc"
        /\ UNCHANGED dev \/ GoTo("oom") \/ GoTo("size")
    BY <1>2, AllocEffect DEF Allocating, Added, Unfit
  <2>. QED
    BY <2>1, GoToFacts, PlaceFacts
<1>3. CASE PollStatus \/ PollSetup \/ TransferFailed \/ ReadSetup \/ SetTripwire \/ CopyFirst
             \/ CopySecond \/ CheckTripwire \/ SetupRead \/ StatusTimeout \/ ResetTimeout
  BY <1>3, QuietSteps, QuietPlaces DEF Quietly, Same
<1>4. CASE enable
  BY <1>4, SimpleSteps, GoToFacts, PlaceFacts
<1>5. CASE PollComplete
  BY <1>5, PollEffect, AfterCases, GoToFacts, PlaceFacts DEF Reported, Same
<1>6. CASE ReadStatus
  BY <1>6, SimpleSteps, GoToFacts, PlaceFacts DEF Same
<1>7. CASE AnswerSetup
  BY <1>7, AnswerEffect, GoToFacts, PlaceFacts, AfterCases DEF Kept, Refused, Blocked, Primed, Same
<1>8. CASE StatusRead
  BY <1>8, StatusEffect, GoToFacts, PlaceFacts, AfterCases DEF Kept, Same
<1>9. CASE InComplete0
  BY <1>9, In0Effect, GoToFacts, PlaceFacts, AfterCases DEF Kept, Refused, Blocked, Primed, Same
<1>10. CASE ReadBulk
  BY <1>10, BulkEffect, GoToFacts, PlaceFacts DEF Same
<1>11. CASE Echo
  BY <1>11, EchoEffect, GoToFacts, PlaceFacts DEF Kept, Refused, Blocked, Primed, Same
<1>12. CASE ResetClear \/ ResetFlush
  BY <1>12, ResetEffect DEF ResetClear, ResetFlush, Same
<1>13. ASSUME NEW e \in Endpoints, Prime(e)
       PROVE  ResetInv'
  BY <1>13, PrimeEffect DEF Same
<1>14. CASE TakeIn0 \/ SendStatus \/ TakeAnswer \/ SendMessage
  BY <1>14, Host0Effect, Host1Effect DEF Moved, Same
<1>15. ASSUME NEW p \in Setups, SendSetup(p)
       PROVE  ResetInv'
  BY <1>15, Host0Effect DEF Same
<1>16. CASE StartReset \/ EndReset
  BY <1>16, Host1Effect DEF Same
<1>17. CASE Restart
  BY <1>17 DEF Restart, Boot
<1>. QED
  BY <1>1, <1>2, <1>3, <1>4, <1>5, <1>6, <1>7, <1>8, <1>9, <1>10, <1>11, <1>12, <1>13, <1>14,
     <1>15, <1>16, <1>17, StepCases

(* OUT1 is primed with the address and again by every read; what a bus     *)
(* reset leaves current is counted as stale.                               *)
LEMMA ReadyStep ==
  ASSUME Types, QueuesInv, ResetInv, ReadyInv, [Next]_vars
  PROVE  ReadyInv'
<1>. USE Fields, EndpointFacts DEF QueuesInv, ReadyInv
<1>1. CASE UNCHANGED vars
  BY <1>1 DEF vars
<1>2. CASE Allocating
  BY <1>2, AllocEffect DEF Allocating, Added, Unfit, Same
<1>3. CASE PollStatus \/ PollSetup \/ TransferFailed \/ ReadSetup \/ SetTripwire \/ CopyFirst
             \/ CopySecond \/ CheckTripwire \/ SetupRead \/ StatusTimeout \/ ResetTimeout
  BY <1>3, QuietSteps DEF Quietly, Same
<1>4. CASE enable
  BY <1>4, SimpleSteps
<1>5. CASE PollComplete
  <2>1. CASE UNCHANGED <<hw, dqh, inner>>
    BY <1>5, <2>1, PollEffect
  <2>2. ASSUME NEW tx \in SUBSET Endpoints, NEW due, NEW status, NEW r,
               Polled(tx, due, status, r), Reported(tx, due, status, r)
        PROVE  ReadyInv'
    <3>1. UNCHANGED <<host, upset>>
      BY <1>5, PollEffect
    <3>2. tx = hw.complete \cap {IN0, IN1}
      BY <2>2 DEF Polled
    <3>. QED
      BY <2>2, <3>1, <3>2 DEF Reported, Same
  <2>. QED
    BY <1>5, <2>1, <2>2, PollEffect
<1>6. CASE ReadStatus
  BY <1>6, SimpleSteps DEF Same
<1>7. CASE AnswerSetup
  BY <1>7, AnswerEffect DEF Refused, Blocked, Primed, Same
<1>8. CASE StatusRead
  BY <1>8, StatusEffect DEF Same
<1>9. CASE InComplete0
  BY <1>9, In0Effect DEF Refused, Blocked, Primed, Same
<1>10. CASE ReadBulk
  BY <1>10, BulkEffect DEF Same
<1>11. CASE Echo
  BY <1>11, EchoEffect DEF Refused, Blocked, Primed, Same
<1>12. CASE ResetClear
  BY <1>12, ResetEffect DEF ResetClear, ResetInv, Same
<1>13. CASE ResetFlush
  BY <1>13, ResetEffect DEF ResetFlush, Stale, Same
<1>14. ASSUME NEW e \in Endpoints, Prime(e)
       PROVE  ReadyInv'
  BY <1>14, PrimeEffect DEF Same
<1>15. CASE TakeIn0 \/ SendStatus \/ TakeAnswer \/ SendMessage
  BY <1>15, Host0Effect, Host1Effect DEF Moved, Ready, Same
<1>16. ASSUME NEW p \in Setups, SendSetup(p)
       PROVE  ReadyInv'
  BY <1>16, Host0Effect DEF Same
<1>17. CASE StartReset \/ EndReset
  BY <1>17, Host1Effect DEF Same
<1>18. CASE Restart
  BY <1>18 DEF Restart, Boot
<1>. QED
  BY <1>1, <1>2, <1>3, <1>4, <1>5, <1>6, <1>7, <1>8, <1>9, <1>10, <1>11, <1>12, <1>13, <1>14,
     <1>15, <1>16, <1>17, <1>18, StepCases

(***************************************************************************)
(* Two buffers of each size, shared by three endpoints.                    *)
(***************************************************************************)
Takes(e, s) == IF e \in dqh.addr /\ Pool(inner.size[e]) = s THEN 1 ELSE 0

(* The sizes that no buffer is there for, and those that Caps::new refuses. *)
Blamed ==
  /\ dev.pc = "oom" =>
       \/ inner.size[OUT1] > 512 \/ inner.size[IN1] > 512
       \/ inner.size[OUT1] <= 64 /\ inner.size[IN1] <= 64
  /\ dev.pc = "size" => inner.size[OUT1] > MaxPacketSize \/ inner.size[IN1] > MaxPacketSize

BuffersInv ==
  /\ OUT0 \notin dqh.addr /\ dqh.addr \subseteq inner.used
  /\ dev.pc = "alloc" => dqh.addr \subseteq {OUT1}
  /\ inner.size[IN0] = 64
  /\ \A s \in {64, 512} : inner.bufs[s] + Takes(OUT1, s) + Takes(IN0, s) + Takes(IN1, s) = 2
  /\ inner.bufs[0] = 0
  /\ Blamed

(* An endpoint takes one of the buffers of its size. *)
LEMMA TakeBuffer ==
  ASSUME Types, Types', BuffersInv, NEW e \in {OUT1, IN0, IN1}, e \notin dqh.addr,
         dqh'.addr = dqh.addr \cup {e},
         inner.bufs[Pool(inner'.size[e])] # 0,
         inner'.bufs = [inner.bufs EXCEPT ![Pool(inner'.size[e])] = @ - 1],
         \A f \in Endpoints \ {e} : inner'.size[f] = inner.size[f]
  PROVE  /\ \A s \in {64, 512} :
              inner'.bufs[s] + Takes(OUT1, s)' + Takes(IN0, s)' + Takes(IN1, s)' = 2
         /\ inner'.bufs[0] = 0
<1>1. inner.bufs \in [{0, 64, 512} -> 0 .. 2]
  BY DEF Types, Inners
<1>2. PICK q \in {64, 512} : q = Pool(inner'.size[e])
  BY DEF Pool, BuffersInv
<1>0. inner'.bufs[0] = 0
  BY <1>1, <1>2 DEF BuffersInv
<1>. SUFFICES ASSUME NEW s \in {64, 512}
     PROVE  inner'.bufs[s] + Takes(OUT1, s)' + Takes(IN0, s)' + Takes(IN1, s)' = 2
  BY <1>0
<1>4. inner'.bufs[s] = inner.bufs[s] - (IF q = s THEN 1 ELSE 0)
  BY <1>1, <1>2
<1>5. /\ Takes(e, s) = 0 /\ Takes(e, s)' = (IF q = s THEN 1 ELSE 0)
      /\ \A f \in {OUT1, IN0, IN1} \ {e} : Takes(f, s)' = Takes(f, s)
  BY <1>2, EndpointFacts DEF Takes
<1>6. inner.bufs[s] + Takes(OUT1, s) + Takes(IN0, s) + Takes(IN1, s) = 2
  BY DEF BuffersInv
<1>7. \A f \in {OUT1, IN0, IN1} : Takes(f, s) \in Int
  BY DEF Takes
<1>8. inner.bufs[s] \in Int
  BY <1>1
<1>. QED
  BY <1>4, <1>5, <1>6, <1>7, <1>8, EndpointFacts

(* Nothing is taken. *)
LEMMA BuffersKept ==
  ASSUME BuffersInv, Same(dqh', dqh, {"addr"}), Same(inner', inner, {"used", "size", "bufs"}),
         dev'.pc \in {"alloc", "oom", "size"} => dev'.pc = dev.pc
  PROVE  BuffersInv'
BY DEF BuffersInv, Blamed, Takes, Same

(* start_write keeps the account, and fails only when the packets are too  *)
(* large or all of the small buffers are taken.                            *)
LEMMA BuffersWritten ==
  ASSUME Types, Types', QueuesInv, BuffersInv, NEW e \in {IN0, IN1}, NEW d, dev.pc # "alloc",
         \/ Primed(e, d) /\ dev'.pc \notin {"alloc", "oom", "size"}
         \/ Refused(e)
  PROVE  BuffersInv'
<1>1. dev \in Devs /\ inner.size \in [Endpoints -> Sizes] /\ inner.bufs \in [{0, 64, 512} -> 0 .. 2]
  BY DEF Types, Inners
<1>2. CASE Primed(e, d) /\ dev'.pc \notin {"alloc", "oom", "size"} /\ e \in dqh.addr
  <2>1. dqh'.addr = dqh.addr
    BY <1>2 DEF Primed
  <2>. QED
    BY <1>2, <2>1, BuffersKept DEF Primed, Same
<1>3. CASE Primed(e, d) /\ dev'.pc \notin {"alloc", "oom", "size"} /\ e \notin dqh.addr
  <2>1. /\ dqh'.addr = dqh.addr \cup {e}
        /\ inner'.bufs = [inner.bufs EXCEPT ![Pool(inner'.size[e])] = @ - 1]
        /\ inner.bufs[Pool(inner'.size[e])] # 0
        /\ inner'.size = inner.size /\ inner'.used = inner.used
    BY <1>3 DEF Primed, Same
  <2>2. e \in inner.used
    BY <1>3 DEF Primed, QueuesInv
  <2>3. /\ \A s \in {64, 512} :
             inner'.bufs[s] + Takes(OUT1, s)' + Takes(IN0, s)' + Takes(IN1, s)' = 2
        /\ inner'.bufs[0] = 0
    BY <1>3, <2>1, TakeBuffer
  <2>. QED
    BY <1>3, <2>1, <2>2, <2>3, EndpointFacts DEF BuffersInv, Blamed
<1>4. CASE Refused(e)
  <2>1. CASE GoTo("assert")
    BY <1>1, <1>4, <2>1, GoToFacts, PlaceFacts, BuffersKept DEF Refused, Same
  <2>2. CASE e \notin dqh.addr /\ inner.bufs[Pool(inner.size[e])] = 0 /\ GoTo("oom")
    <3>0. inner.size[OUT1] \in Nat /\ inner.size[IN0] \in Nat /\ inner.size[IN1] \in Nat
      BY <1>1, EndpointFacts, SizesAssumption DEF Sizes
    <3>1. ASSUME Pool(inner.size[e]) # 0
          PROVE  inner.size[OUT1] <= 64 /\ inner.size[IN1] <= 64
      <4>1. PICK q \in {64, 512} : q = Pool(inner.size[e])
        BY <3>1 DEF Pool
      <4>2. inner.bufs[q] + Takes(OUT1, q) + Takes(IN0, q) + Takes(IN1, q) = 2 /\ inner.bufs[q] = 0
            /\ Takes(e, q) = 0
        BY <2>2, <4>1 DEF BuffersInv, Takes
      <4>3. \A f \in {OUT1, IN0, IN1} : Takes(f, q) \in {0, 1}
                                        /\ (Takes(f, q) = 1 => Pool(inner.size[f]) = q)
        BY DEF Takes
      <4>4. \A f \in {OUT1, IN0, IN1} : Pool(inner.size[f]) = q
        BY <4>1, <4>2, <4>3, EndpointFacts
      <4>5. q = 64
        BY <4>4 DEF BuffersInv, Pool
      <4>6. inner.size[OUT1] <= 64 /\ inner.size[IN1] <= 64
        BY <4>4, <4>5 DEF Pool
      <4>. QED
        BY <4>6
    <3>2. ASSUME Pool(inner.size[e]) = 0
          PROVE  inner.size[OUT1] > 512 \/ inner.size[IN1] > 512
      <4>1. inner.size[e] > 512
        BY <3>0, <3>2 DEF Pool
      <4>2. e # IN0
        BY <4>1 DEF BuffersInv
      <4>. QED
        BY <4>1, <4>2
    <3>3. inner.size[OUT1] > 512 \/ inner.size[IN1] > 512
            \/ (inner.size[OUT1] <= 64 /\ inner.size[IN1] <= 64)
      BY <3>1, <3>2
    <3>. QED
      BY <1>1, <1>4, <2>2, <3>3, GoToFacts, PlaceFacts DEF Refused, BuffersInv, Blamed, Takes
  <2>. QED
    BY <1>4, <2>1, <2>2 DEF Refused
<1>. QED
  BY <1>2, <1>3, <1>4

(* Buffers are taken by alloc_ep and by the first start_write of an IN     *)
(* endpoint, and never given back.                                         *)
LEMMA BuffersStep ==
  ASSUME Types, Types', QueuesInv, BuffersInv, [Next]_vars
  PROVE  BuffersInv'
<1>. USE Fields
<1>1. CASE UNCHANGED vars
  BY <1>1, BuffersKept DEF vars, Same
<1>2. CASE Allocating
  <2>1. PICK e \in Endpoints, size \in Sizes :
          alloc_ep(e, size) /\ (e \in {OUT0, IN0} => size = 64)
    BY <1>2 DEF Allocating
  <2>2. dev.pc = "alloc" /\ e \notin inner.used /\ e \notin dqh.addr
    BY <2>1, AllocEffect DEF BuffersInv
  <2>3. inner.size \in [Endpoints -> Sizes] /\ inner.bufs \in [{0, 64, 512} -> 0 .. 2]
    BY DEF Types, Inners
  <2>0. size \in Nat
    BY SizesAssumption DEF Sizes
  <2>4. CASE e = OUT1 /\ Added(e, size)
    <3>1. dqh.addr = {}
      BY <2>2, <2>4 DEF BuffersInv
    <3>2. inner.bufs[Pool(size)] # 0
      BY <2>4 DEF Added
    <3>3. /\ UNCHANGED dev
          /\ dqh'.addr = dqh.addr \cup {e} /\ inner'.used = inner.used \cup {e}
          /\ inner'.size = [inner.size EXCEPT ![e] = size]
          /\ inner'.bufs = [inner.bufs EXCEPT ![Pool(size)] = @ - 1]
      BY <2>4 DEF Added
    <3>4. /\ inner'.size[e] = size
          /\ \A f \in Endpoints \ {e} : inner'.size[f] = inner.size[f]
      BY <2>3, <3>3
    <3>5. /\ \A s \in {64, 512} :
               inner'.bufs[s] + Takes(OUT1, s)' + Takes(IN0, s)' + Takes(IN1, s)' = 2
          /\ inner'.bufs[0] = 0
      BY <2>2, <2>4, <3>2, <3>3, <3>4, TakeBuffer
    <3>. QED
      BY <2>2, <2>4, <3>1, <3>3, <3>4, <3>5, EndpointFacts DEF BuffersInv, Blamed
  <2>5. CASE e # OUT1 /\ Added(e, size)
    <3>1. /\ UNCHANGED dev
          /\ dqh'.addr = dqh.addr /\ inner'.used = inner.used \cup {e}
          /\ inner'.size = [inner.size EXCEPT ![e] = size] /\ inner'.bufs = inner.bufs
      BY <2>5, EndpointFacts DEF Added
    <3>2. /\ inner'.size[e] = size
          /\ \A f \in Endpoints \ {e} : inner'.size[f] = inner.size[f]
      BY <2>3, <3>1
    <3>3. \A f \in Endpoints, s \in {64, 512} : Takes(f, s)' = Takes(f, s)
      BY <2>2, <3>1, <3>2 DEF Takes
    <3>4. inner'.size[IN0] = 64
      BY <2>1, <3>2, EndpointFacts DEF BuffersInv
    <3>. QED
      BY <2>2, <3>1, <3>3, <3>4, EndpointFacts DEF BuffersInv, Blamed
  <2>6. CASE Unfit(e, size)
    <3>1. /\ dqh'.addr = dqh.addr /\ inner'.used = inner.used
          /\ inner'.size = [inner.size EXCEPT ![e] = size] /\ inner'.bufs = inner.bufs
      BY <2>6 DEF Unfit, Same
    <3>2. /\ inner'.size[e] = size
          /\ \A f \in Endpoints \ {e} : inner'.size[f] = inner.size[f]
      BY <2>3, <3>1
    <3>3. \A f \in Endpoints, s \in {64, 512} : Takes(f, s)' = Takes(f, s)
      BY <2>2, <3>1, <3>2 DEF Takes
    <3>4. inner'.size[IN0] = 64
      BY <2>1, <3>2, EndpointFacts DEF BuffersInv
    <3>5. dev'.pc = (IF size <= MaxPacketSize THEN "oom" ELSE "size")
      BY <2>6, GoToFacts, PlaceFacts DEF Unfit
    <3>6. Blamed'
      <4>1. CASE size <= MaxPacketSize
        <5>1. e = OUT1 /\ inner.bufs[Pool(size)] = 0
          BY <2>6, <4>1 DEF Unfit
        <5>2. inner.bufs[64] + 0 + 0 + 0 = 2 /\ inner.bufs[512] + 0 + 0 + 0 = 2
          BY <2>2, <5>1 DEF BuffersInv, Takes
        <5>3. Pool(size) \notin {64, 512}
          BY <5>1, <5>2
        <5>4. size > 512
          BY <2>0, <5>3 DEF Pool
        <5>. QED
          BY <3>2, <3>5, <4>1, <5>1, <5>4 DEF Blamed
      <4>2. CASE ~ (size <= MaxPacketSize)
        <5>1. e \in {OUT1, IN1}
          BY <2>1, <4>2, EndpointFacts DEF MaxPacketSize
        <5>. QED
          BY <2>0, <3>2, <3>5, <4>2, <5>1 DEF Blamed, MaxPacketSize
      <4>. QED
        BY <4>1, <4>2
    <3>. QED
      BY <2>2, <3>1, <3>3, <3>4, <3>5, <3>6, EndpointFacts DEF BuffersInv
  <2>. QED
    BY <2>1, <2>4, <2>5, <2>6, AllocEffect
<1>3. CASE PollStatus \/ PollSetup \/ TransferFailed \/ ReadSetup \/ SetTripwire \/ CopyFirst
             \/ CopySecond \/ CheckTripwire \/ SetupRead \/ StatusTimeout \/ ResetTimeout
  BY <1>3, QuietSteps, QuietPlaces, BuffersKept DEF Quietly, Same
<1>4. CASE enable
  BY <1>4, SimpleSteps, GoToFacts, PlaceFacts, BuffersKept DEF Same
<1>5. CASE PollComplete
  BY <1>5, PollEffect, AfterCases, GoToFacts, PlaceFacts, BuffersKept DEF Reported, Same
<1>6. CASE ReadStatus
  BY <1>6, SimpleSteps, GoToFacts, PlaceFacts, BuffersKept DEF Same
<1>7. CASE AnswerSetup
  <2>1. CASE UNCHANGED <<dqh, inner>> /\ dev'.pc \notin {"alloc", "oom", "size"}
    BY <2>1, BuffersKept DEF Same
  <2>2. CASE ~ (UNCHANGED <<dqh, inner>> /\ dev'.pc \notin {"alloc", "oom", "size"})
    BY <1>7, <2>2, AnswerEffect, GoToFacts, PlaceFacts, AfterCases, BuffersWritten
    DEF Kept, Blocked
  <2>. QED
    BY <2>1, <2>2
<1>8. CASE StatusRead
  BY <1>8, StatusEffect, GoToFacts, PlaceFacts, AfterCases, BuffersKept DEF Kept, Same
<1>9. CASE InComplete0
  <2>1. CASE UNCHANGED <<dqh, inner>> /\ dev'.pc \notin {"alloc", "oom", "size"}
    BY <2>1, BuffersKept DEF Same
  <2>2. CASE ~ (UNCHANGED <<dqh, inner>> /\ dev'.pc \notin {"alloc", "oom", "size"})
    BY <1>9, <2>2, In0Effect, GoToFacts, PlaceFacts, AfterCases, BuffersWritten
    DEF Kept, Blocked
  <2>. QED
    BY <2>1, <2>2
<1>10. CASE ReadBulk
  BY <1>10, BulkEffect, GoToFacts, PlaceFacts, BuffersKept DEF Same
<1>11. CASE Echo
  <2>1. CASE UNCHANGED <<dqh, inner>> /\ dev'.pc \notin {"alloc", "oom", "size"}
    BY <2>1, BuffersKept DEF Same
  <2>2. CASE ~ (UNCHANGED <<dqh, inner>> /\ dev'.pc \notin {"alloc", "oom", "size"})
    BY <1>11, <2>2, EchoEffect, GoToFacts, PlaceFacts, BuffersWritten DEF Kept, Blocked
  <2>. QED
    BY <2>1, <2>2
<1>12. CASE ResetClear \/ ResetFlush
  BY <1>12, ResetEffect, BuffersKept DEF ResetClear, ResetFlush, Same
<1>13. ASSUME NEW e \in Endpoints, Prime(e)
       PROVE  BuffersInv'
  BY <1>13, PrimeEffect, BuffersKept DEF Same
<1>14. CASE TakeIn0 \/ SendStatus \/ TakeAnswer \/ SendMessage
  BY <1>14, Host0Effect, Host1Effect, BuffersKept DEF Same
<1>15. ASSUME NEW p \in Setups, SendSetup(p)
       PROVE  BuffersInv'
  BY <1>15, Host0Effect, BuffersKept DEF Same
<1>16. CASE StartReset \/ EndReset
  BY <1>16, Host1Effect, BuffersKept DEF Same
<1>17. CASE Restart
  BY <1>17, EndpointFacts DEF Restart, Boot, BuffersInv, Blamed, Takes
<1>. QED
  BY <1>1, <1>2, <1>3, <1>4, <1>5, <1>6, <1>7, <1>8, <1>9, <1>10, <1>11, <1>12, <1>13, <1>14,
     <1>15, <1>16, <1>17, StepCases

(***************************************************************************)
(* The endpoints are enabled before the host configures the device, and no *)
(* assertion fails.                                                        *)
(***************************************************************************)
ConfiguredInv ==
  /\ hw.address => hw.ctrl = {"RXE", "TXE"}
  /\ hw.setup.kind = "SET_CONFIGURATION" \/ dev.copy[1].kind = "SET_CONFIGURATION" =>
       hw.ctrl = {"RXE", "TXE"}

(* The host configures the device after its address, which enables the     *)
(* endpoints that are all allocated by then.                               *)
LEMMA ConfiguredStep ==
  ASSUME Types, QueuesInv, ConfiguredInv, [Next]_vars
  PROVE  ConfiguredInv'
<1>. USE Fields DEF ConfiguredInv
<1>1. CASE UNCHANGED vars
  BY <1>1 DEF vars
<1>2. CASE Allocating
  BY <1>2, AllocEffect, GoToFacts, PlaceFacts DEF Allocating, Added, Unfit
<1>3. CASE PollStatus \/ TransferFailed \/ SetTripwire \/ CheckTripwire \/ StatusTimeout
             \/ ResetTimeout \/ enable \/ ReadStatus
  BY <1>3, SimpleSteps, GoToFacts, PlaceFacts DEF Same
<1>4. CASE PollSetup \/ CopyFirst \/ CopySecond
  BY <1>4, ReadEffect DEF PollSetup, CopyFirst, CopySecond, Same
<1>5. CASE ReadSetup
  BY <1>5, ReadEffect, GoToFacts, PlaceFacts DEF ReadSetup, Same
<1>6. CASE SetupRead
  BY <1>6, SetupReadEffect DEF Same
<1>7. CASE PollComplete
  BY <1>7, PollEffect, GoToFacts, PlaceFacts DEF Reported, Same
<1>8. CASE AnswerSetup
  BY <1>8, AnswerEffect, GoToFacts, PlaceFacts DEF Kept, Refused, Blocked, Primed, Same
<1>9. CASE StatusRead
  BY <1>9, StatusEffect, GoToFacts, PlaceFacts DEF Kept, Same
<1>10. CASE InComplete0
  <2>1. inner.used = Endpoints
    BY <1>10, In0Effect DEF QueuesInv
  <2>2. Enabled = {"RXE", "TXE"}
    BY <2>1, EndpointFacts DEF Enabled
  <2>. QED
    BY <1>10, <2>2, In0Effect, GoToFacts, PlaceFacts DEF Kept, Refused, Blocked, Primed, Same
<1>11. CASE ReadBulk
  BY <1>11, BulkEffect, GoToFacts, PlaceFacts DEF Same
<1>12. CASE Echo
  BY <1>12, EchoEffect, GoToFacts, PlaceFacts DEF Kept, Refused, Blocked, Primed, Same
<1>13. CASE ResetClear \/ ResetFlush
  BY <1>13, ResetEffect DEF ResetClear, ResetFlush, Same
<1>14. ASSUME NEW e \in Endpoints, Prime(e)
       PROVE  ConfiguredInv'
  BY <1>14, PrimeEffect DEF Same
<1>15. CASE TakeIn0 \/ SendStatus \/ TakeAnswer \/ SendMessage
  BY <1>15, Host0Effect, Host1Effect DEF Moved, Same
<1>16. ASSUME NEW p \in Setups, SendSetup(p)
       PROVE  ConfiguredInv'
  <2>1. p.kind = "SET_CONFIGURATION" => hw.address
    BY <1>16 DEF SendSetup
  <2>. QED
    BY <1>16, <2>1, Host0Effect DEF Same
<1>17. CASE StartReset \/ EndReset
  BY <1>17, Host1Effect DEF Same
<1>18. CASE Restart
  BY <1>18 DEF Restart, Boot, Packet
<1>. QED
  BY <1>1, <1>2, <1>3, <1>4, <1>5, <1>6, <1>7, <1>8, <1>9, <1>10, <1>11, <1>12, <1>13, <1>14,
     <1>15, <1>16, <1>17, <1>18, StepCases

(* Panics never come about: in PollComplete and ReadBulk what completed is *)
(* current, in start_write an endpoint that is not current is next, and so *)
(* on.                                                                     *)
AssertInv == dev.pc # "assert"

(* No step reaches an assertion that fails: an endpoint to be primed is    *)
(* next when it is not current, a completion is of a current transfer, and *)
(* a configured device has its endpoints enabled.                          *)
LEMMA AssertStep ==
  ASSUME Types, QueuesInv, ConfiguredInv, AssertInv, [Next]_vars
  PROVE  AssertInv'
<1>. USE Fields, EndpointFacts DEF AssertInv
<1>1. CASE UNCHANGED vars
  BY <1>1 DEF vars
<1>2. CASE Allocating
  BY <1>2, AllocEffect, GoToFacts, PlaceFacts DEF Allocating, Added, Unfit
<1>3. CASE PollStatus \/ PollSetup \/ TransferFailed \/ ReadSetup \/ SetTripwire \/ CopyFirst
             \/ CopySecond \/ CheckTripwire \/ StatusTimeout \/ ResetTimeout
  BY <1>3, QuietPlaces
<1>4. CASE enable
  BY <1>4, SimpleSteps, GoToFacts, PlaceFacts
<1>5. CASE SetupRead
  BY <1>5, SetupReadEffect DEF ConfiguredInv, ReadPlace
<1>6. CASE PollComplete
  <2>1. hw.complete \cap {IN0, IN1} \subseteq dqh.current
    BY DEF QueuesInv
  <2>. QED
    BY <1>6, <2>1, PollEffect, AfterCases DEF Reported
<1>7. CASE ReadStatus
  BY <1>7, SimpleSteps, GoToFacts, PlaceFacts DEF QueuesInv, Fatal
<1>w. ASSUME NEW e \in Endpoints, Refused(e), dev.pc \notin {"alloc", "oom", "size"}
      PROVE  dev'.pc # "assert"
  BY <1>w, GoToFacts, PlaceFacts DEF Refused, QueuesInv
<1>8. CASE AnswerSetup
  BY <1>8, <1>w, AnswerEffect, GoToFacts, PlaceFacts, AfterCases DEF Kept
<1>9. CASE StatusRead
  BY <1>9, StatusEffect, GoToFacts, PlaceFacts, AfterCases DEF Kept
<1>10. CASE InComplete0
  BY <1>10, <1>w, In0Effect, GoToFacts, PlaceFacts, AfterCases DEF Kept
<1>11. CASE ReadBulk
  BY <1>11, BulkEffect, GoToFacts, PlaceFacts DEF QueuesInv
<1>12. CASE Echo
  BY <1>12, <1>w, EchoEffect, GoToFacts, PlaceFacts DEF Kept
<1>13. CASE ResetClear \/ ResetFlush
  BY <1>13, ResetEffect
<1>14. ASSUME NEW e \in Endpoints, Prime(e)
       PROVE  AssertInv'
  BY <1>14, PrimeEffect
<1>15. CASE TakeIn0 \/ SendStatus \/ TakeAnswer \/ SendMessage \/ StartReset \/ EndReset
  BY <1>15, Host0Effect, Host1Effect
<1>16. ASSUME NEW p \in Setups, SendSetup(p)
       PROVE  AssertInv'
  BY <1>16, Host0Effect
<1>17. CASE Restart
  BY <1>17 DEF Restart, Boot
<1>. QED
  BY <1>1, <1>2, <1>3, <1>4, <1>5, <1>6, <1>7, <1>8, <1>9, <1>10, <1>11, <1>12, <1>13, <1>14,
     <1>15, <1>16, <1>17, StepCases

(***************************************************************************)
(* SETUP packets.                                                          *)
(***************************************************************************)

(* While the tripwire is set, what has been copied is the packet that is   *)
(* there; what was copied is complete, and the last packet unless another  *)
(* is pending.                                                             *)
CopiesInv ==
  /\ hw.sutw /\ dev.pc \in {"copying", "check"} => dev.copy[1] = hw.setup
  /\ hw.sutw /\ dev.pc = "check" => dev.copy[2] = hw.setup
  /\ dev.pc \in {"copied", "answer"} => dev.copy[1] = dev.copy[2]
  /\ dev.pc = "copied" => dev.copy[1] = hw.setup \/ hw.setupstat
  /\ "slow" \notin upset =>
       hw.setup = dev.handled \/ hw.setupstat \/ dev.pc \in Reading

(* A SETUP packet that arrives during the copy clears the tripwire, and    *)
(* sets its status bit again.                                              *)
LEMMA CopiesStep ==
  ASSUME Types, ResetInv, CopiesInv, [Next]_vars
  PROVE  CopiesInv'
<1>. USE Fields DEF CopiesInv, Reading
<1>1. CASE UNCHANGED vars
  BY <1>1 DEF vars
<1>2. CASE Allocating
  <2>1. UNCHANGED <<hw, upset>> /\ dev.pc = "alloc" /\ (UNCHANGED dev \/ GoTo("oom") \/ GoTo("size"))
    BY <1>2, AllocEffect DEF Allocating, Added, Unfit
  <2>. QED
    BY <2>1, GoToFacts, PlaceFacts
<1>3. CASE PollStatus \/ TransferFailed \/ SetTripwire \/ CheckTripwire \/ StatusTimeout
             \/ ResetTimeout \/ enable \/ ReadStatus
  BY <1>3, SimpleSteps, GoToFacts, PlaceFacts DEF Same
<1>4. CASE PollSetup \/ CopyFirst \/ CopySecond
  BY <1>4, ReadEffect DEF PollSetup, CopyFirst, CopySecond, Same
<1>5. CASE ReadSetup
  BY <1>5, ReadEffect, GoToFacts, PlaceFacts DEF ReadSetup, Same
<1>6. CASE SetupRead
  BY <1>6, SetupReadEffect DEF Same
<1>7. CASE PollComplete
  <2>1. /\ dev'.pc \in {"assert", "read0", "in0", "class", "idle"}
        /\ dev'.copy = dev.copy /\ dev'.handled = dev.handled
    BY <1>7, PollEffect, GoToFacts, PlaceFacts, AfterCases DEF Reported, Same
  <2>2. /\ hw'.setup = hw.setup /\ hw'.setupstat = hw.setupstat /\ hw'.sutw = hw.sutw
        /\ dev.pc = "poll_complete" /\ UNCHANGED upset
    BY <1>7, PollEffect DEF Reported, Same
  <2>. QED
    BY <2>1, <2>2
<1>8. CASE AnswerSetup
  BY <1>8, AnswerEffect, GoToFacts, PlaceFacts, AfterCases
  DEF Kept, Refused, Blocked, Primed, Same
<1>9. CASE StatusRead
  BY <1>9, StatusEffect, GoToFacts, PlaceFacts, AfterCases DEF Kept, Same
<1>10. CASE InComplete0
  BY <1>10, In0Effect, GoToFacts, PlaceFacts, AfterCases
  DEF Kept, Refused, Blocked, Primed, Same
<1>11. CASE ReadBulk
  BY <1>11, BulkEffect, GoToFacts, PlaceFacts DEF Same
<1>12. CASE Echo
  BY <1>12, EchoEffect, GoToFacts, PlaceFacts DEF Kept, Refused, Blocked, Primed, Same
<1>13. CASE ResetClear \/ ResetFlush
  BY <1>13, ResetEffect DEF ResetClear, ResetFlush, ResetInv, Same
<1>14. ASSUME NEW e \in Endpoints, Prime(e)
       PROVE  CopiesInv'
  BY <1>14, PrimeEffect DEF Same
<1>15. CASE TakeIn0 \/ SendStatus \/ TakeAnswer \/ SendMessage
  BY <1>15, Host0Effect, Host1Effect DEF Moved, Same
<1>16. ASSUME NEW p \in Setups, SendSetup(p)
       PROVE  CopiesInv'
  BY <1>16, Host0Effect DEF Same
<1>17. CASE StartReset \/ EndReset
  BY <1>17, Host1Effect DEF Same
<1>18. CASE Restart
  BY <1>18 DEF Restart, Boot
<1>. QED
  BY <1>1, <1>2, <1>3, <1>4, <1>5, <1>6, <1>7, <1>8, <1>9, <1>10, <1>11, <1>12, <1>13, <1>14,
     <1>15, <1>16, <1>17, <1>18, StepCases

(* A request that the driver does not know, and one for a descriptor that  *)
(* the device does not have, are among the upsets.                         *)
Excused(p) ==
  /\ p.kind = "CLEAR_FEATURE" => "request" \in upset
  /\ p.kind = "NO_DESCRIPTOR" => "missing" \in upset

RequestsInv ==
  /\ Excused(hw.setup) /\ Excused(dev.copy[1]) /\ Excused(dev.handled)
  /\ dev.pc = "unexpected" => "request" \in upset

(* Nothing but the packets of the host is copied and handled.              *)
LEMMA RequestsStep ==
  ASSUME Types, RequestsInv, [Next]_vars
  PROVE  RequestsInv'
<1>. USE Fields DEF RequestsInv, Excused
<1>1. CASE UNCHANGED vars
  BY <1>1 DEF vars
<1>2. CASE Allocating
  <2>1. UNCHANGED <<hw, upset>> /\ (UNCHANGED dev \/ GoTo("oom") \/ GoTo("size"))
    BY <1>2, AllocEffect DEF Allocating, Added, Unfit
  <2>. QED
    BY <2>1, GoToFacts, PlaceFacts
<1>3. CASE PollStatus \/ TransferFailed \/ SetTripwire \/ CheckTripwire \/ StatusTimeout
             \/ ResetTimeout \/ enable \/ ReadStatus
  BY <1>3, SimpleSteps, GoToFacts, PlaceFacts DEF Same
<1>4. CASE PollSetup \/ CopyFirst \/ CopySecond
  BY <1>4, ReadEffect DEF PollSetup, CopyFirst, CopySecond, Same
<1>5. CASE ReadSetup
  BY <1>5, ReadEffect, GoToFacts, PlaceFacts DEF ReadSetup, Same
<1>6. CASE SetupRead
  BY <1>6, SetupReadEffect DEF ReadPlace, Same
<1>7. CASE PollComplete
  <2>1. /\ dev'.pc # "unexpected" /\ dev'.copy = dev.copy /\ dev'.handled = dev.handled
    BY <1>7, PollEffect, GoToFacts, PlaceFacts, AfterCases DEF Reported, Same
  <2>2. hw'.setup = hw.setup /\ UNCHANGED upset
    BY <1>7, PollEffect DEF Reported, Same
  <2>. QED
    BY <2>1, <2>2
<1>8. CASE AnswerSetup
  BY <1>8, AnswerEffect, GoToFacts, PlaceFacts, AfterCases
  DEF Kept, Refused, Blocked, Primed, Same
<1>9. CASE StatusRead
  BY <1>9, StatusEffect, GoToFacts, PlaceFacts, AfterCases DEF Kept, Same
<1>10. CASE InComplete0
  BY <1>10, In0Effect, GoToFacts, PlaceFacts, AfterCases
  DEF Kept, Refused, Blocked, Primed, Same
<1>11. CASE ReadBulk
  BY <1>11, BulkEffect, GoToFacts, PlaceFacts DEF Same
<1>12. CASE Echo
  BY <1>12, EchoEffect, GoToFacts, PlaceFacts DEF Kept, Refused, Blocked, Primed, Same
<1>13. CASE ResetClear
  BY <1>13, ResetEffect DEF ResetClear, Same
<1>14. CASE ResetFlush
  BY <1>14, ResetEffect DEF ResetFlush, Same
<1>15. ASSUME NEW e \in Endpoints, Prime(e)
       PROVE  RequestsInv'
  BY <1>15, PrimeEffect DEF Same
<1>16. CASE TakeIn0 \/ SendStatus \/ TakeAnswer \/ SendMessage
  BY <1>16, Host0Effect, Host1Effect DEF Moved, Same
<1>17. ASSUME NEW p \in Setups, SendSetup(p)
       PROVE  RequestsInv'
  BY <1>17, Host0Effect DEF Same
<1>18. CASE StartReset \/ EndReset
  BY <1>18, Host1Effect DEF Same
<1>19. CASE Restart
  BY <1>19 DEF Restart, Boot, Packet
<1>. QED
  BY <1>1, <1>2, <1>3, <1>4, <1>5, <1>6, <1>7, <1>8, <1>9, <1>10, <1>11, <1>12, <1>13, <1>14,
     <1>15, <1>16, <1>17, <1>18, <1>19, StepCases

(***************************************************************************)
(* A host that keeps to the protocol.                                      *)
(***************************************************************************)

(* A report is at hand from poll_complete to the end of its handling, and  *)
(* a SETUP packet is noted only to be read at once.                        *)
ReportInv ==
  /\ inner.setupstat => dev.pc = "read0"
  /\ dev.seen => hw.setupstat /\ dev.pc \in {"poll_complete"} \cup Fatal
  /\ dev.pc \in {"alloc", "idle", "poll", "poll_complete", "reset", "flush"} =>
       0 \notin dev.report.in /\ 1 \notin dev.report.out
  /\ dev.pc = "class" => 1 \in dev.report.out

(* The stages of a control transfer, between which the driver, the         *)
(* controller and the host move it:                                        *)
(*   Rest       none, or its SETUP packet has not been answered yet        *)
(*   Answering  the SETUP packet has been read                             *)
(*   Sending    the descriptor, or STATUS IN, is on its way                *)
(*   Sent       the host has the descriptor                                *)
(*   Seen       and the driver knows                                       *)
(*   Due        STATUS OUT is to be reported                               *)
(*   Awaiting   read is called, or waits, for STATUS OUT                   *)
(*   Closing    STATUS OUT has come                                        *)
(*   Acked      STATUS IN has been taken                                   *)
(*   Noting     and the driver knows                                       *)
InEp0 == IN0 \in hw.prime \cup hw.stat \cup hw.complete
NoStatus == ~ inner.pre_status_out /\ ~ inner.status_out
Aside == dev.pc \notin {"in0", "wait", "read0", "answer"} \cup Reading

Rest ==
  /\ dev.control = "idle" /\ NoStatus /\ ~ InEp0
  /\ dev.pc \notin {"in0", "wait", "answer"}
  /\ dev.pc = "read0" => inner.setupstat
  /\ dev.pc \in Reading => ~ hw.setupstat
Answering ==
  /\ dev.control = "data_in" /\ dev.pc = "answer" /\ ~ InEp0 /\ ~ inner.status_out
  /\ inner.pre_status_out <=> hw.setup.kind = "GET_DESCRIPTOR"
  /\ ~ hw.setupstat /\ dev.handled = hw.setup /\ dev.left = hw.setup.len
Sending(c) ==
  /\ dev.control = c /\ Aside /\ ~ inner.status_out
  /\ IN0 \in hw.prime \cup hw.stat /\ IN0 \notin hw.complete
  /\ inner.pre_status_out <=> c = "data_last"
Sent ==
  /\ dev.control = "data_last" /\ Aside /\ IN0 \in hw.complete
  /\ inner.pre_status_out /\ ~ inner.status_out
Seen ==
  /\ dev.control = "data_last" /\ dev.pc = "in0" /\ ~ InEp0
  /\ ~ inner.pre_status_out /\ inner.status_out
Due ==
  /\ dev.control = "status_out" /\ Aside /\ ~ InEp0
  /\ ~ inner.pre_status_out /\ inner.status_out
Awaiting ==
  /\ dev.control = "status_out" /\ ~ InEp0 /\ NoStatus
  /\ \/ dev.pc = "read0" /\ ~ inner.setupstat
     \/ dev.pc = "wait" /\ OUT0 \notin hw.complete
Closing ==
  /\ dev.control = "status_out" /\ NoStatus /\ ~ InEp0
  /\ dev.pc = "wait" /\ OUT0 \in hw.complete
Acked == dev.control = "status_in" /\ Aside /\ NoStatus /\ IN0 \in hw.complete
Noting == dev.control = "status_in" /\ NoStatus /\ ~ InEp0 /\ dev.pc = "in0"

(* A SETUP packet has not been answered. *)
Asked == hw.setupstat \/ inner.setupstat \/ dev.pc \in Reading \cup {"answer"}

ControlInv ==
  /\ host.at = "idle" => ~ Asked /\ (Rest \/ Acked \/ Noting \/ Closing)
  /\ host.at \in {"data", "status_in"} =>
       /\ ~ host.pr
       /\ host.at = "data" <=> hw.setup.kind = "GET_DESCRIPTOR"
       /\ host.at = "data" => host.want = 1 /\ hw.setup.len = 1
       /\ \/ Asked /\ (Rest \/ Noting \/ Closing \/ Answering)
          \/ ~ Asked /\ Sending(IF host.at = "data" THEN "data_last" ELSE "status_in")
  /\ host.at = "status_out" => ~ host.pr /\ ~ Asked /\ (Sent \/ Seen \/ Due \/ Awaiting)

(* The host resets the bus between transfers, and an end of a transfer is  *)
(* never reported together with a SETUP or a STATUS packet.                *)
BetweenInv ==
  /\ hw.uri => host.pr
  /\ host.pr => host.at = "idle" /\ host.waiting = 0
  /\ 0 \in dev.report.in => dev.pc \notin {"read0", "answer", "wait"} \cup Reading

(* A message is with the class, or its answer with the controller.         *)
InEp1 == IN1 \in hw.prime \cup hw.stat
Held == OUT1 \in hw.complete /\ dev.pc # "echo" /\ dqh.data[OUT1] = host.message /\ ~ InEp1
Echoing ==
  /\ OUT1 \notin hw.complete /\ dev.pc = "echo" /\ dqh.data[OUT1] = host.message
  /\ ~ InEp1 /\ IN1 \notin dqh.current
Returned ==
  /\ OUT1 \notin hw.complete /\ dev.pc # "echo" /\ dqh.data[IN1] = host.message
  /\ InEp1 /\ IN1 \notin hw.complete

MessageInv ==
  /\ \/ host.waiting = 0 /\ OUT1 \notin hw.complete /\ ~ InEp1 /\ dev.pc # "echo"
     \/ host.waiting = 1 /\ (Held \/ Echoing \/ Returned)
  /\ 1 \in dev.report.out => dev.pc = "echo" \/ (OUT1 \in hw.complete /\ IN1 \notin dqh.current)

(* What is left of all that during a reset. *)
FlushInv == host.pr /\ host.at = "idle" /\ host.waiting = 0 /\ ~ hw.setupstat

Live == upset = {} /\ dev.pc \notin Fatal \cup {"flush"}

StageInv ==
  /\ Live => ControlInv /\ BetweenInv /\ MessageInv
  /\ upset = {} /\ dev.pc = "flush" => FlushInv
  /\ Survives

(* The caller handles a report at once, before it polls again. *)
LEMMA ReportStep ==
  ASSUME Types, Types', ReportInv, [Next]_vars
  PROVE  ReportInv'
<1>. USE Fields DEF ReportInv
<1>1. CASE UNCHANGED vars
  BY <1>1 DEF vars
<1>2. CASE Allocating
  <2>1. UNCHANGED hw /\ inner'.setupstat = inner.setupstat /\ dev.pc = "alloc"
        /\ (UNCHANGED dev \/ GoTo("oom") \/ GoTo("size"))
    BY <1>2, AllocEffect DEF Allocating, Added, Unfit, Same
  <2>. QED
    BY <2>1, GoToFacts, PlaceFacts DEF Fatal
<1>3. CASE PollStatus \/ TransferFailed \/ SetTripwire \/ CheckTripwire \/ StatusTimeout
             \/ ResetTimeout \/ enable \/ ReadStatus
  BY <1>3, SimpleSteps, GoToFacts, PlaceFacts DEF Same, Fatal
<1>4. CASE PollSetup \/ CopyFirst \/ CopySecond
  BY <1>4, ReadEffect DEF PollSetup, CopyFirst, CopySecond, Same, Fatal
<1>5. CASE ReadSetup
  BY <1>5, ReadEffect, GoToFacts, PlaceFacts DEF ReadSetup, Same, Fatal
<1>6. CASE SetupRead
  BY <1>6, SetupReadEffect DEF ReadPlace, Same, Fatal
<1>7. CASE PollComplete
  <2>1. CASE GoTo("assert") /\ UNCHANGED <<hw, inner>>
    BY <1>7, <2>1, PollEffect, GoToFacts, PlaceFacts DEF Fatal
  <2>2. ASSUME NEW tx \in SUBSET Endpoints, NEW due, NEW status, NEW r \in Reports,
               Polled(tx, due, status, r), Reported(tx, due, status, r)
        PROVE  ReportInv'
    <3>1. dev.pc = "poll_complete" /\ ~ inner.setupstat
      BY <1>7, PollEffect
    <3>2. /\ dev'.seen = FALSE /\ dev'.report = r /\ dev'.pc = Dispatch(r)
          /\ inner'.setupstat = (inner.setupstat \/ dev.seen) /\ r.setup = dev.seen
      BY <2>2 DEF Reported, Polled
    <3>a. inner'.setupstat => dev.seen
      BY <3>1, <3>2, Zenon
    <3>3. /\ r.setup => Dispatch(r) = "read0"
          /\ Dispatch(r) = "idle" => 0 \notin r.in /\ 1 \notin r.out
          /\ Dispatch(r) = "class" => 1 \in r.out
          /\ Dispatch(r) \in {"read0", "in0", "class", "idle"}
      BY DEF Dispatch, AfterOut
    <3>. QED
      BY <3>2, <3>3, <3>a
  <2>. QED
    BY <1>7, <2>1, <2>2, PollEffect
<1>8. CASE AnswerSetup
  <2>1. dev.pc = "answer"
        /\ \/ dev'.pc \in Fatal /\ dev'.seen = dev.seen
           \/ Kept(dev', AfterOut(dev.report))
    BY <1>8, AnswerEffect, GoToFacts, PlaceFacts DEF Refused, Fatal
  <2>2. hw'.setupstat = hw.setupstat /\ inner'.setupstat = inner.setupstat
    BY <1>8, AnswerEffect DEF Refused, Blocked, Primed, Same
  <2>. QED
    BY <2>1, <2>2 DEF Kept, Same, Fatal, AfterOut, NoReport
<1>9. CASE StatusRead
  <2>1. dev.pc = "wait"
        /\ \/ dev'.pc \in Fatal /\ dev'.seen = dev.seen
           \/ Kept(dev', AfterOut(dev.report))
    BY <1>9, StatusEffect, GoToFacts, PlaceFacts DEF Fatal
  <2>2. hw'.setupstat = hw.setupstat /\ inner'.setupstat = inner.setupstat
    BY <1>9, StatusEffect DEF Same
  <2>. QED
    BY <2>1, <2>2 DEF Kept, Same, Fatal, AfterOut, NoReport
<1>10. CASE InComplete0
  <2>1. /\ dev.pc = "in0" /\ dev'.seen = dev.seen
        /\ \/ dev'.pc \in Fatal
           \/ /\ dev'.pc = AfterIn(dev.report)
              /\ dev'.report = (IF dev'.pc = "idle" THEN NoReport ELSE dev.report)
    BY <1>10, In0Effect, GoToFacts, PlaceFacts DEF Kept, Same, Refused, Fatal
  <2>2. hw'.setupstat = hw.setupstat /\ inner'.setupstat = inner.setupstat
    BY <1>10, In0Effect DEF Refused, Blocked, Primed, Same
  <2>. QED
    BY <2>1, <2>2 DEF Fatal, AfterIn, NoReport
<1>11. CASE ReadBulk
  BY <1>11, BulkEffect, GoToFacts, PlaceFacts DEF Same, Fatal
<1>12. CASE Echo
  <2>1. /\ dev.pc = "echo" /\ dev'.seen = dev.seen
        /\ \/ dev'.pc \in Fatal
           \/ dev'.pc = "idle" /\ dev'.report = NoReport
    BY <1>12, EchoEffect, GoToFacts, PlaceFacts DEF Kept, Same, Refused, Fatal
  <2>2. hw'.setupstat = hw.setupstat /\ inner'.setupstat = inner.setupstat
    BY <1>12, EchoEffect DEF Refused, Blocked, Primed, Same
  <2>. QED
    BY <2>1, <2>2 DEF Fatal, NoReport
<1>13. CASE ResetClear \/ ResetFlush
  BY <1>13, ResetEffect DEF ResetClear, ResetFlush, Same, Fatal
<1>14. ASSUME NEW e \in Endpoints, Prime(e)
       PROVE  ReportInv'
  BY <1>14, PrimeEffect DEF Same
<1>15. CASE TakeIn0 \/ SendStatus \/ TakeAnswer \/ SendMessage
  BY <1>15, Host0Effect, Host1Effect DEF Moved, Same
<1>16. ASSUME NEW p \in Setups, SendSetup(p)
       PROVE  ReportInv'
  BY <1>16, Host0Effect DEF Same
<1>17. CASE StartReset \/ EndReset
  BY <1>17, Host1Effect DEF Same
<1>18. CASE Restart
  BY <1>18 DEF Restart, Boot, NoReport
<1>. QED
  BY <1>1, <1>2, <1>3, <1>4, <1>5, <1>6, <1>7, <1>8, <1>9, <1>10, <1>11, <1>12, <1>13, <1>14,
     <1>15, <1>16, <1>17, <1>18, StepCases

(* What holds of the driver whatever the host does. *)
DriverInv ==
  /\ Types /\ QueuesInv /\ ResetInv /\ ReadyInv /\ BuffersInv
  /\ ConfiguredInv /\ AssertInv /\ CopiesInv /\ RequestsInv /\ ReportInv

(* Only a restart makes up for what has upset the driver or ends a panic,  *)
(* and only ResetFlush a reset.                                            *)
LEMMA LiveBefore ==
  ASSUME Types, [Next]_vars, ~ Restart
  PROVE  /\ upset \subseteq upset'
         /\ dev.pc \in Fatal => dev'.pc \in Fatal
         /\ dev.pc = "flush" => dev'.pc = "flush" \/ ResetFlush \/ ResetTimeout
<1>. USE Fields
<1>1. CASE UNCHANGED vars
  BY <1>1 DEF vars
<1>2. CASE Allocating
  BY <1>2, AllocEffect DEF Allocating, Added, Unfit, Fatal
<1>3. CASE PollStatus \/ PollSetup \/ TransferFailed \/ ReadSetup \/ SetTripwire \/ CopyFirst
             \/ CopySecond \/ CheckTripwire \/ SetupRead \/ StatusTimeout \/ ResetTimeout
  BY <1>3, QuietSteps, QuietPlaces DEF Quietly, Fatal
<1>4. CASE enable \/ ReadStatus
  BY <1>4, SimpleSteps DEF Fatal
<1>5. CASE PollComplete \/ AnswerSetup \/ StatusRead \/ InComplete0 \/ ReadBulk \/ Echo
  <2>1. dev.pc \in {"poll_complete", "answer", "wait", "in0", "class", "echo"} /\ UNCHANGED upset
    BY <1>5, PollEffect, AnswerEffect, StatusEffect, In0Effect, BulkEffect, EchoEffect
  <2>. QED
    BY <2>1 DEF Fatal
<1>6. CASE ResetClear \/ ResetFlush
  BY <1>6 DEF ResetClear, ResetFlush, Fatal
<1>7. ASSUME NEW e \in Endpoints, Prime(e)
      PROVE  UNCHANGED <<dev, upset>>
  BY <1>7 DEF Prime
<1>8. CASE TakeIn0 \/ SendStatus \/ TakeAnswer \/ SendMessage \/ StartReset \/ EndReset
  BY <1>8 DEF TakeIn0, SendStatus, TakeAnswer, SendMessage, StartReset, EndReset
<1>9. ASSUME NEW p \in Setups, SendSetup(p)
      PROVE  upset \subseteq upset' /\ UNCHANGED dev
  BY <1>9 DEF SendSetup
<1>. QED
  BY <1>1, <1>2, <1>3, <1>4, <1>5, <1>6, <1>7, <1>8, <1>9, StepCases

(* The stage of a control transfer does not depend on what happens on      *)
(* endpoint 1, nor on where the driver is beside it.                       *)
LEMMA ControlKept ==
  ASSUME ControlInv, (Aside /\ Aside') \/ dev'.pc = dev.pc,
         dev'.control = dev.control, dev'.handled = dev.handled, dev'.left = dev.left,
         Same(inner', inner, {"setupstat", "pre_status_out", "status_out"}),
         Same(hw', hw, {"setupstat", "setup"}),
         IN0 \in hw'.prime <=> IN0 \in hw.prime, IN0 \in hw'.stat <=> IN0 \in hw.stat,
         IN0 \in hw'.complete <=> IN0 \in hw.complete,
         OUT0 \in hw'.complete <=> OUT0 \in hw.complete,
         host'.at = host.at, host'.want = host.want, host'.pr => host.at = "idle"
  PROVE  ControlInv'
<1>1. /\ inner'.setupstat = inner.setupstat /\ inner'.pre_status_out = inner.pre_status_out
      /\ inner'.status_out = inner.status_out
      /\ hw'.setupstat = hw.setupstat /\ hw'.setup = hw.setup
  BY DEF Same
<1>2. (InEp0' <=> InEp0) /\ (NoStatus' <=> NoStatus)
  BY <1>1 DEF InEp0, NoStatus
<1>3. CASE dev'.pc = dev.pc
  <2>1. (Asked' <=> Asked) /\ (Aside' <=> Aside)
    BY <1>1, <1>3 DEF Asked, Aside
  <2>2. (Rest' <=> Rest) /\ (Answering' <=> Answering) /\ (Sent' <=> Sent) /\ (Seen' <=> Seen)
    BY <1>1, <1>2, <1>3, <2>1 DEF Rest, Answering, Sent, Seen
  <2>3. (Due' <=> Due) /\ (Awaiting' <=> Awaiting) /\ (Closing' <=> Closing)
        /\ (Acked' <=> Acked) /\ (Noting' <=> Noting)
    BY <1>1, <1>2, <1>3, <2>1 DEF Due, Awaiting, Closing, Acked, Noting
  <2>4. \A c \in Controls : Sending(c)' <=> Sending(c)
    BY <1>1, <1>3, <2>1 DEF Sending
  <2>. QED
    BY <1>1, <2>1, <2>2, <2>3, <2>4 DEF ControlInv, Controls
<1>4. CASE Aside /\ Aside'
  <2>1. Asked' <=> Asked
    BY <1>1, <1>4 DEF Asked, Aside
  <2>2. /\ Rest => Rest'
        /\ ~ Answering /\ ~ Seen /\ ~ Awaiting /\ ~ Closing /\ ~ Noting
    BY <1>1, <1>2, <1>4 DEF Rest, Answering, Seen, Awaiting, Closing, Noting, Aside
  <2>3. (Sent => Sent') /\ (Due => Due') /\ (Acked => Acked')
    BY <1>1, <1>2, <1>4 DEF Sent, Due, Acked
  <2>4. \A c \in Controls : Sending(c) => Sending(c)'
    BY <1>1, <1>4 DEF Sending
  <2>. QED
    BY <1>1, <2>1, <2>2, <2>3, <2>4 DEF ControlInv, Controls
<1>. QED
  BY <1>3, <1>4

(* poll_complete notes the end of the data or of STATUS IN, and reports    *)
(* STATUS OUT when that is all there is.                                   *)
LEMMA ControlPoll ==
  ASSUME DriverInv, ControlInv, PollComplete, dev'.pc \notin Fatal
  PROVE  ControlInv' /\ (0 \in dev'.report.in => dev'.pc # "read0")
<1>. USE EndpointFacts
<1>1. dev.pc = "poll_complete" /\ UNCHANGED <<host, upset>>
  BY PollEffect DEF DriverInv
<1>2. PICK tx \in SUBSET Endpoints, due \in BOOLEAN, status \in BOOLEAN, r \in Reports :
        Polled(tx, due, status, r) /\ Reported(tx, due, status, r)
  BY PollEffect, GoToFacts, PlaceFacts, Fields DEF DriverInv, Fatal
<1>3. ~ inner.setupstat /\ (dev.seen => hw.setupstat) /\ OUT0 \notin hw.complete
  BY <1>1 DEF DriverInv, ReportInv, QueuesInv, Fatal
<1>4. /\ hw'.setupstat = hw.setupstat /\ hw'.setup = hw.setup
      /\ dev'.control = dev.control /\ dev'.report = r /\ dev'.pc = Dispatch(r)
  BY <1>2 DEF Reported, Same
<1>5. /\ inner'.setupstat <=> dev.seen
      /\ inner'.pre_status_out <=> inner.pre_status_out /\ IN0 \notin hw.complete
      /\ inner'.status_out <=> due /\ ~ status
      /\ due <=> inner.status_out \/ (inner.pre_status_out /\ IN0 \in hw.complete)
      /\ status <=> due /\ IN0 \notin hw.complete /\ IN1 \notin hw.complete
  <2>1. /\ inner'.setupstat = (inner.setupstat \/ dev.seen)
        /\ inner'.pre_status_out = (inner.pre_status_out /\ IN0 \notin tx)
        /\ inner'.status_out = (due /\ ~ status)
    BY <1>2, Zenon DEF Reported
  <2>2. /\ tx = hw.complete \cap {IN0, IN1}
        /\ due = (inner.status_out \/ (inner.pre_status_out /\ IN0 \in hw.complete))
        /\ status = (due /\ IN0 \notin hw.complete /\ IN1 \notin hw.complete)
    BY <1>2, Zenon DEF Polled
  <2>3. IN0 \in tx <=> IN0 \in hw.complete
    BY <2>2
  <2>4. inner'.setupstat <=> dev.seen
    BY <1>3, <2>1, Zenon
  <2>. QED
    BY <2>1, <2>2, <2>3, <2>4, Zenon
<1>6. /\ dev.seen => Dispatch(r) = "read0"
      /\ status => Dispatch(r) = "read0"
      /\ ~ dev.seen /\ ~ status /\ IN0 \in hw.complete => Dispatch(r) = "in0"
      /\ ~ dev.seen /\ ~ status /\ IN0 \notin hw.complete => Dispatch(r) \in {"class", "idle"}
      /\ 0 \in r.in <=> IN0 \in hw.complete
  BY <1>2, <1>3 DEF Polled, Dispatch, AfterOut
<1>7. /\ IN0 \in hw.complete => ~ InEp0'
      /\ IN0 \notin hw.complete => (InEp0' <=> InEp0)
      /\ IN0 \in hw'.prime \cup hw'.stat <=> IN0 \in hw.prime \cup hw.stat
      /\ IN0 \notin hw'.complete
  BY <1>2 DEF Polled, Reported, Same, InEp0, DriverInv, QueuesInv
<1>8. (Asked <=> hw.setupstat) /\ (Asked' <=> Asked)
  BY <1>1, <1>3, <1>4, <1>5, <1>6 DEF Asked, Reading
<1>9. ~ Noting /\ ~ Closing /\ ~ Answering /\ ~ Seen /\ ~ Awaiting
  BY <1>1 DEF Noting, Closing, Answering, Seen, Awaiting
<1>10. ASSUME Rest
       PROVE  Rest' /\ IN0 \notin hw.complete
  BY <1>4, <1>5, <1>6, <1>7, <1>10 DEF Rest, NoStatus, InEp0, Reading
<1>11. ASSUME Acked, ~ Asked
       PROVE  Noting'
  BY <1>3, <1>4, <1>5, <1>6, <1>7, <1>8, <1>11 DEF Acked, Noting, NoStatus
<1>12. ASSUME NEW c \in Controls, Sending(c), ~ Asked
       PROVE  Sending(c)'
  BY <1>3, <1>4, <1>5, <1>6, <1>7, <1>8, <1>12 DEF Sending, Aside, Reading
<1>13. ASSUME Sent, ~ Asked
       PROVE  Seen'
  BY <1>3, <1>4, <1>5, <1>6, <1>7, <1>8, <1>13 DEF Sent, Seen
<1>14. ASSUME Due, ~ Asked
       PROVE  Due' \/ Awaiting'
  <2>1. IN0 \notin hw.complete /\ ~ InEp0' /\ due /\ ~ inner'.pre_status_out /\ ~ dev.seen
        /\ dev'.control = "status_out"
    BY <1>3, <1>4, <1>5, <1>7, <1>8, <1>14 DEF Due, InEp0
  <2>2. CASE status
    BY <1>4, <1>5, <1>6, <2>1, <2>2 DEF Awaiting, NoStatus
  <2>3. CASE ~ status
    BY <1>4, <1>5, <1>6, <2>1, <2>3 DEF Due, Aside, Reading
  <2>. QED
    BY <2>2, <2>3
<1>15. host.at \in {"idle", "data", "status_in", "status_out"}
  BY DEF DriverInv, Types, Hosts
<1>16. ControlInv'
  BY <1>1, <1>4, <1>8, <1>9, <1>10, <1>11, <1>12, <1>13, <1>14, <1>15 DEF ControlInv, Controls
<1>17. IN0 \in hw.complete => dev'.pc # "read0"
  <2>1. Asked => IN0 \notin hw.complete
    BY <1>9, <1>10, <1>15 DEF ControlInv
  <2>2. IN0 \in hw.complete => ~ dev.seen /\ ~ status
    BY <1>3, <1>5, <1>8, <2>1
  <2>. QED
    BY <1>4, <1>6, <2>2
<1>. QED
  BY <1>4, <1>6, <1>16, <1>17

(* read on endpoint 0, with a SETUP packet. *)
LEMMA ControlRead ==
  ASSUME DriverInv, ControlInv, dev'.pc \notin Fatal,
         ReadSetup \/ SetTripwire \/ CopyFirst \/ CopySecond \/ CheckTripwire
  PROVE  ControlInv'
<1>1. /\ dev.pc \in {"read0"} \cup (Reading \ {"copied"}) /\ dev'.pc \in Reading
      /\ dev.pc = "read0" => inner.setupstat /\ ReadSetup
  BY QuietPlaces DEF DriverInv, Reading, ReadSetup
<1>2. /\ hw'.setup = hw.setup /\ hw'.prime = hw.prime /\ hw'.stat = hw.stat
      /\ hw'.complete = hw.complete /\ UNCHANGED host
  BY QuietSteps DEF DriverInv, Quietly, Same
<1>3. /\ hw'.setupstat => hw.setupstat /\ dev.pc # "read0"
      /\ inner'.pre_status_out = inner.pre_status_out /\ inner'.status_out = inner.status_out
  <2>1. CASE ReadSetup
    BY <2>1, ReadEffect DEF DriverInv, Same
  <2>2. CASE SetTripwire
    BY <2>2, SimpleSteps DEF DriverInv, Same, SetTripwire
  <2>3. CASE CopyFirst \/ CopySecond \/ CheckTripwire
    BY <2>3 DEF CopyFirst, CopySecond, CheckTripwire
  <2>. QED
    BY <2>1, <2>2, <2>3
<1>4. dev'.control = dev.control
  <2>1. CASE ReadSetup \/ SetTripwire \/ CheckTripwire
    BY <2>1, Fields, GoToFacts, PlaceFacts DEF DriverInv, ReadSetup, SetTripwire, CheckTripwire
  <2>2. CASE CopyFirst \/ CopySecond
    BY <2>2, ReadEffect DEF DriverInv, Same
  <2>. QED
    BY <2>1, <2>2
<1>5. Asked /\ Asked'
  BY <1>1 DEF Asked, Reading
<1>6. ~ Noting /\ ~ Closing /\ ~ Answering
  BY <1>1 DEF Noting, Closing, Answering, Reading
<1>7. Rest => Rest'
  BY <1>1, <1>2, <1>3, <1>4 DEF Rest, NoStatus, InEp0, Reading
<1>8. host.at \in {"idle", "data", "status_in", "status_out"}
  BY DEF DriverInv, Types, Hosts
<1>. QED
  BY <1>2, <1>5, <1>6, <1>7, <1>8 DEF ControlInv

(* The packet that was read is the one the host sent last. *)
LEMMA ControlSetup ==
  ASSUME DriverInv, ControlInv, upset = {}, dev'.pc \notin Fatal, SetupRead
  PROVE  ControlInv'
<1>1. /\ dev.pc = "copied" /\ UNCHANGED <<dqh, host, upset>>
      /\ hw'.setup = hw.setup /\ hw'.prime = hw.prime /\ hw'.stat = hw.stat
      /\ hw'.complete = hw.complete /\ hw'.setupstat = hw.setupstat
      /\ inner'.status_out = inner.status_out
      /\ inner'.pre_status_out = (inner.pre_status_out
           \/ dev.copy[1].kind \in {"GET_DESCRIPTOR", "NO_DESCRIPTOR"})
      /\ dev'.pc = "answer" /\ dev'.handled = dev.copy[1] /\ dev'.control = "data_in"
      /\ dev'.left = dev.copy[1].len
  BY SetupReadEffect DEF DriverInv, Same, ReadPlace, Fatal
<1>2. Asked /\ Asked'
  BY <1>1 DEF Asked, Reading
<1>3. ~ Noting /\ ~ Closing /\ ~ Answering
  BY <1>1 DEF Noting, Closing, Answering
<1>4. host.at \in {"idle", "data", "status_in", "status_out"}
  BY DEF DriverInv, Types, Hosts
<1>5. Rest /\ host.at \in {"data", "status_in"}
  BY <1>2, <1>3, <1>4 DEF ControlInv
<1>6. ~ hw.setupstat /\ ~ InEp0 /\ ~ inner.pre_status_out /\ ~ inner.status_out
  BY <1>1, <1>5 DEF Rest, NoStatus, Reading
<1>7. dev.copy[1] = hw.setup
  BY <1>1, <1>6 DEF DriverInv, CopiesInv
<1>8. inner'.pre_status_out <=> hw'.setup.kind = "GET_DESCRIPTOR"
  <2>1. dev.copy[1].kind \in {"GET_DESCRIPTOR", "NO_DESCRIPTOR"} <=> hw.setup.kind = "GET_DESCRIPTOR"
    BY <1>7 DEF DriverInv, RequestsInv, Excused
  <2>. QED
    BY <1>1, <1>6, <2>1, Zenon
<1>9. Answering'
  BY <1>1, <1>6, <1>7, <1>8 DEF Answering, InEp0
<1>. QED
  BY <1>1, <1>2, <1>4, <1>5, <1>9 DEF ControlInv

(* The answer: endpoint 0 is idle, and what is to be sent is one packet.   *)
LEMMA ControlAnswer ==
  ASSUME DriverInv, ControlInv, BetweenInv, upset = {}, AnswerSetup
  PROVE  /\ dev'.pc \notin Fatal => ControlInv'
         /\ dev'.pc # "stall"
<1>. USE EndpointFacts
<1>1. dev.pc = "answer" /\ UNCHANGED <<host, upset>>
  BY AnswerEffect DEF DriverInv
<1>2. host.at \in {"idle", "data", "status_in", "status_out"}
  BY DEF DriverInv, Types, Hosts
<1>3. Asked /\ ~ Rest /\ ~ Noting /\ ~ Closing
  BY <1>1 DEF Asked, Rest, Noting, Closing
<1>4. Answering /\ host.at \in {"data", "status_in"}
  BY <1>2, <1>3 DEF ControlInv
<1>5. ~ hw.uri /\ ~ host.pr /\ 0 \notin dev.report.in /\ ~ inner.setupstat
  BY <1>1, <1>4 DEF BetweenInv, ControlInv, DriverInv, ReportInv
<1>6. IN0 \notin dqh.current
  BY <1>4, <1>5 DEF Answering, InEp0, DriverInv, ReadyInv
<1>7. AfterOut(dev.report) \in {"class", "idle"}
  BY <1>5 DEF AfterOut
<1>8. /\ host.at = "data" <=> dev.handled.kind = "GET_DESCRIPTOR"
      /\ dev.handled.kind # "NO_DESCRIPTOR"
  BY <1>4 DEF ControlInv, Answering, DriverInv, RequestsInv, Excused
<1>9. CASE Refused(IN0)
  BY <1>9, Fields, GoToFacts, PlaceFacts DEF Refused, Fatal, DriverInv
<1>10. CASE ~ Refused(IN0)
  <2>1. /\ Primed(IN0, FALSE) /\ Kept(dev', AfterOut(dev.report))
        /\ dev.handled.kind = "GET_DESCRIPTOR" =>
             dev'.control = (IF dev.left = 1 THEN "data_last" ELSE "data_in")
        /\ dev.handled.kind # "GET_DESCRIPTOR" => dev'.control = "status_in"
    BY <1>6, <1>8, <1>10, AnswerEffect DEF Blocked, DriverInv
  <2>2. dev'.pc \in {"class", "idle"}
    BY <1>7, <2>1 DEF Kept
  <2>3. dev'.control = (IF host.at = "data" THEN "data_last" ELSE "status_in")
    BY <1>4, <1>8, <2>1 DEF Answering, ControlInv
  <2>4. /\ hw'.prime = hw.prime \cup {IN0} /\ hw'.stat = hw.stat /\ hw'.complete = hw.complete
        /\ hw'.setup = hw.setup /\ hw'.setupstat = hw.setupstat
        /\ inner'.pre_status_out = inner.pre_status_out
        /\ inner'.status_out = inner.status_out /\ inner'.setupstat = inner.setupstat
    BY <2>1 DEF Primed, Same
  <2>5. ~ Asked'
    BY <1>4, <1>5, <2>2, <2>4 DEF Asked, Answering, Reading
  <2>6. inner.pre_status_out <=> host.at = "data"
    BY <1>4 DEF Answering, ControlInv
  <2>7. Sending(IF host.at = "data" THEN "data_last" ELSE "status_in")'
    BY <1>1, <1>4, <2>2, <2>3, <2>4, <2>6 DEF Sending, Answering, Aside, Reading, InEp0
  <2>. QED
    BY <1>1, <1>4, <2>2, <2>4, <2>5, <2>7 DEF ControlInv
<1>. QED
  BY <1>9, <1>10

(* read on endpoint 0, without one: only STATUS OUT is waited for.         *)
LEMMA ControlStatus ==
  ASSUME DriverInv, ControlInv, BetweenInv, ReadStatus \/ StatusRead \/ StatusTimeout
  PROVE  /\ dev'.pc \notin Fatal => ControlInv'
         /\ dev'.pc \notin {"stall", "timeout"}
<1>. USE EndpointFacts
<1>1. host.at \in {"idle", "data", "status_in", "status_out"}
  BY DEF DriverInv, Types, Hosts
<1>2. CASE ReadStatus
  <2>1. /\ dev.pc = "read0" /\ ~ inner.setupstat /\ UNCHANGED <<inner, host>>
        /\ dev'.pc \in {"assert", "wait"}
        /\ dev'.pc = "wait" => /\ dev'.control = dev.control /\ hw'.prime = hw.prime \cup {OUT0}
                               /\ Same(hw', hw, {"setup", "setupstat", "stat", "complete"})
    BY <1>2, SimpleSteps, GoToFacts, PlaceFacts, Fields DEF DriverInv, Same
  <2>2. OUT0 \notin hw.complete
    BY <2>1 DEF DriverInv, QueuesInv, Fatal
  <2>3. Awaiting /\ host.at = "status_out"
    BY <1>1, <2>1 DEF ControlInv, Rest, Noting, Closing, Answering, Sending, Acked, Sent, Seen,
                     Due, Aside
  <2>4. CASE dev'.pc = "wait"
    <3>1. Awaiting' /\ (Asked' <=> Asked)
      BY <2>1, <2>2, <2>3, <2>4 DEF Awaiting, InEp0, NoStatus, Asked, Same, Reading
    <3>. QED
      BY <2>1, <2>3, <3>1, <2>4 DEF ControlInv
  <2>. QED
    BY <2>1, <2>4 DEF Fatal
<1>3. CASE StatusRead
  <2>1. /\ dev.pc = "wait" /\ OUT0 \in hw.complete /\ UNCHANGED <<inner, host>>
        /\ hw'.complete = hw.complete \ {OUT0}
        /\ Same(hw', hw, {"setup", "setupstat", "prime", "stat"})
    BY <1>3, StatusEffect DEF DriverInv, Same
  <2>2. Closing /\ host.at # "status_out" /\ ~ inner.setupstat
    BY <1>1, <2>1 DEF ControlInv, Rest, Noting, Answering, Sending, Acked, Sent, Seen,
                     Due, Awaiting, Aside, DriverInv, ReportInv
  <2>3. dev'.control = "idle" /\ dev'.pc = AfterOut(dev.report)
    BY <1>3, <2>2, StatusEffect DEF DriverInv, Closing, Kept
  <2>4. dev'.pc \in {"class", "idle"}
    BY <2>1, <2>3 DEF AfterOut, BetweenInv
  <2>5. Rest' /\ (Asked' <=> Asked)
    BY <2>1, <2>2, <2>3, <2>4 DEF Closing, Rest, InEp0, NoStatus, Asked, Same, Reading
  <2>6. ~ Asked => host.at = "idle"
    BY <1>1, <2>1, <2>2 DEF ControlInv, Sending, Aside
  <2>. QED
    BY <1>1, <2>1, <2>2, <2>4, <2>5, <2>6 DEF ControlInv, Same
<1>4. CASE StatusTimeout
  <2>1. dev.pc = "wait" /\ OUT0 \in hw.stat
    BY <1>4 DEF StatusTimeout
  <2>2. OUT0 \notin hw.complete
    BY <2>1 DEF DriverInv, QueuesInv
  <2>3. host.at = "status_out" /\ ~ host.pr
    BY <1>1, <2>1, <2>2 DEF ControlInv, Rest, Noting, Closing, Answering, Sending, Acked, Sent,
                           Seen, Due, Aside
  <2>4. dev'.pc = "late"
    BY <1>4, <2>3, Fields, GoToFacts, PlaceFacts DEF StatusTimeout, DriverInv
  <2>. QED
    BY <2>4 DEF Fatal
<1>. QED
  BY <1>2, <1>3, <1>4

(* The end of an IN transfer on endpoint 0 is that of the data or of       *)
(* STATUS IN.                                                              *)
LEMMA ControlIn0 ==
  ASSUME DriverInv, ControlInv, InComplete0
  PROVE  ControlInv' /\ dev'.pc \in {"class", "idle"}
<1>. USE EndpointFacts
<1>1. dev.pc = "in0" /\ UNCHANGED <<host, upset>> /\ ~ inner.setupstat
  BY In0Effect DEF DriverInv, ReportInv
<1>2. host.at \in {"idle", "data", "status_in", "status_out"}
  BY DEF DriverInv, Types, Hosts
<1>3. AfterIn(dev.report) \in {"class", "idle"}
  BY DEF AfterIn
<1>4. (Noting /\ host.at # "status_out") \/ (Seen /\ host.at = "status_out")
  BY <1>1, <1>2 DEF ControlInv, Rest, Closing, Answering, Sending, Acked, Sent, Awaiting,
                   Due, Aside
<1>5. CASE Noting /\ host.at # "status_out"
  <2>1. dev.control = "status_in"
    BY <1>5 DEF Noting
  <2>2. /\ dev'.pc \in {"class", "idle"} /\ dev'.control = "idle" /\ UNCHANGED inner
        /\ hw'.prime = hw.prime \/ hw'.prime = hw.prime \cup (inner.used \cap {OUT1})
        /\ Same(hw', hw, {"setupstat", "setup", "stat", "complete"})
    BY <1>3, <2>1, In0Effect DEF DriverInv, Same
  <2>3. Rest' /\ (Asked' <=> Asked)
    BY <1>1, <1>5, <2>2 DEF Noting, Rest, InEp0, NoStatus, Asked, Same, Reading
  <2>4. ~ Asked => host.at = "idle"
    BY <1>1, <1>2, <1>5 DEF ControlInv, Sending, Aside
  <2>. QED
    BY <1>1, <1>2, <1>5, <2>2, <2>3, <2>4 DEF ControlInv, Same
<1>6. CASE Seen /\ host.at = "status_out"
  <2>1. dev.control = "data_last"
    BY <1>6 DEF Seen
  <2>2. dev'.pc \in {"class", "idle"} /\ dev'.control = "status_out" /\ UNCHANGED <<hw, inner>>
    BY <1>3, <2>1, In0Effect DEF DriverInv, Kept
  <2>3. Due' /\ (Asked' <=> Asked)
    BY <1>1, <1>6, <2>2 DEF Seen, Due, InEp0, Asked, Aside, Reading
  <2>. QED
    BY <1>1, <1>6, <2>2, <2>3 DEF ControlInv
<1>. QED
  BY <1>4, <1>5, <1>6

(* What the host and the controller do on endpoint 0.                      *)
LEMMA ControlHost ==
  ASSUME DriverInv, ControlInv, dev.pc \notin Fatal \cup {"flush"},
         TakeIn0 \/ SendStatus \/ \E e \in Endpoints : Prime(e)
  PROVE  ControlInv'
<1>. USE EndpointFacts
<1>1. host.at \in {"idle", "data", "status_in", "status_out"}
  BY DEF DriverInv, Types, Hosts
<1>2. CASE TakeIn0
  <2>1. /\ IN0 \in hw.stat /\ ~ host.pr /\ UNCHANGED <<inner, dev>>
        /\ hw'.complete = hw.complete \cup {IN0}
        /\ Same(hw', hw, {"setup", "setupstat", "prime"})
    BY <1>2, Host0Effect DEF DriverInv, Ready, Online, Moved, Same
  <2>2. \/ /\ host.at = "data" /\ Sending("data_last") /\ ~ Asked /\ host.want = 1
        \/ /\ host.at = "status_in" /\ Sending("status_in") /\ ~ Asked
    BY <1>1, <1>2, <2>1 DEF TakeIn0, ControlInv, Rest, Noting, Closing, Answering, InEp0
  <2>3. ~ Asked' /\ (Aside => Aside')
    BY <2>1, <2>2 DEF Asked, Aside, Same
  <2>4. CASE host.at = "data"
    <3>1. host'.at = "status_out" /\ host'.pr = host.pr
      BY <1>2, <2>2, <2>4, Host0Effect DEF DriverInv, Same
    <3>2. Sent'
      BY <2>1, <2>2, <2>3, <2>4 DEF Sending, Sent
    <3>. QED
      BY <2>1, <2>3, <3>1, <3>2 DEF ControlInv
  <2>5. CASE host.at = "status_in"
    <3>1. host'.at = "idle"
      BY <1>2, <2>5, Host0Effect DEF DriverInv
    <3>2. Acked'
      BY <2>1, <2>2, <2>3, <2>5 DEF Sending, Acked, NoStatus
    <3>. QED
      BY <2>3, <3>1, <3>2 DEF ControlInv
  <2>. QED
    BY <2>2, <2>4, <2>5
<1>3. CASE SendStatus
  <2>1. /\ OUT0 \in hw.stat /\ host.at = "status_out" /\ UNCHANGED <<inner, dev>>
        /\ hw'.complete = hw.complete \cup {OUT0} /\ hw'.stat = hw.stat \ {OUT0}
        /\ Same(hw', hw, {"setup", "setupstat", "prime"}) /\ host'.at = "idle"
    BY <1>3, Host0Effect DEF DriverInv, Ready, Moved, Same
  <2>2. dev.pc = "wait"
    BY <2>1 DEF DriverInv, QueuesInv
  <2>3. Awaiting /\ ~ Asked
    BY <2>1, <2>2 DEF ControlInv, Sent, Seen, Due, Aside
  <2>4. Closing' /\ ~ Asked'
    BY <2>1, <2>2, <2>3 DEF Awaiting, Closing, InEp0, NoStatus, Asked, Same
  <2>. QED
    BY <2>1, <2>4 DEF ControlInv
<1>4. ASSUME NEW e \in Endpoints, Prime(e)
      PROVE  ControlInv'
  <2>1. /\ e \in hw.prime /\ UNCHANGED <<inner, dev, host>> /\ hw'.prime = hw.prime \ {e}
        /\ Same(hw', hw, {"setup", "setupstat", "complete"})
        /\ \/ e \notin dqh.next /\ hw'.stat = hw.stat
           \/ e \in dqh.next /\ hw'.stat = hw.stat \cup {e}
    BY <1>4, PrimeEffect DEF DriverInv, Same
  <2>2. CASE e = IN0
    <3>1. e \in dqh.next
      BY <2>1, <2>2, Fields DEF DriverInv, QueuesInv
    <3>2. host.at \in {"data", "status_in"} /\ ~ Asked
          /\ Sending(IF host.at = "data" THEN "data_last" ELSE "status_in")
      BY <1>1, <2>1, <2>2
      DEF ControlInv, Rest, Noting, Closing, Answering, Sent, Seen, Due, Awaiting, Acked, InEp0,
          DriverInv, QueuesInv
    <3>3. Sending(IF host.at = "data" THEN "data_last" ELSE "status_in")' /\ ~ Asked'
      BY <2>1, <2>2, <3>1, <3>2 DEF Sending, Aside, Asked, Same
    <3>. QED
      BY <2>1, <3>2, <3>3 DEF ControlInv, Same
  <2>3. CASE e # IN0
    <3>1. (IN0 \in hw'.prime <=> IN0 \in hw.prime) /\ (IN0 \in hw'.stat <=> IN0 \in hw.stat)
      BY <2>1, <2>3
    <3>. QED
      BY <1>1, <2>1, <3>1, ControlKept DEF Same, ControlInv
  <2>. QED
    BY <2>2, <2>3
<1>. QED
  BY <1>2, <1>3, <1>4

(* A host that keeps to the protocol sends a SETUP packet between          *)
(* transfers.                                                              *)
LEMMA ControlNew ==
  ASSUME DriverInv, ControlInv, dev.pc \notin Fatal \cup {"flush"}, upset' = {},
         NEW p \in Setups, SendSetup(p)
  PROVE  ControlInv'
<1>1. /\ host.at = "idle" /\ IN0 \notin hw.complete /\ ~ (p.len > 1) /\ ~ host.pr
      /\ UNCHANGED <<inner, dev>>
  BY DEF SendSetup, Online
<1>2. /\ hw'.setup = p /\ hw'.setupstat = TRUE
      /\ hw'.prime = hw.prime /\ hw'.stat = hw.stat /\ hw'.complete = hw.complete
      /\ host'.at = (IF p.len > 0 THEN "data" ELSE "status_in") /\ host'.want = p.len
      /\ host'.pr = host.pr
  BY Host0Effect DEF DriverInv, Same
<1>3. p.len \in Nat /\ (p.len > 0 <=> p.kind = "GET_DESCRIPTOR")
  BY SetupFacts, Host0Effect DEF DriverInv
<1>4. ~ Asked /\ (Rest \/ Noting \/ Closing)
  BY <1>1 DEF ControlInv, Acked
<1>5. Asked' /\ (Rest' \/ Noting' \/ Closing')
  BY <1>1, <1>2, <1>4 DEF Asked, Rest, Noting, Closing, InEp0, NoStatus
<1>6. /\ ~ host'.pr
      /\ host'.at = "data" <=> hw'.setup.kind = "GET_DESCRIPTOR"
      /\ host'.at = "data" => host'.want = 1 /\ hw'.setup.len = 1
      /\ host'.at \in {"data", "status_in"}
  BY <1>1, <1>2, <1>3
<1>. QED
  BY <1>5, <1>6 DEF ControlInv

(* After a reset that cancelled nothing, nothing is under way.             *)
LEMMA AfterFlush ==
  ASSUME DriverInv, Types', FlushInv, upset' = {}, ResetFlush
  PROVE  ControlInv' /\ BetweenInv' /\ MessageInv'
<1>. USE EndpointFacts
<1>1. /\ dev.pc = "flush" /\ hw.prime = {} /\ UNCHANGED <<dqh, inner, host>> /\ ~ Stale
  BY DEF ResetFlush
<1>2. /\ hw'.stat = {} /\ hw'.uri = FALSE /\ hw'.prime = {} /\ hw'.setupstat = hw.setupstat
      /\ hw'.complete = {}
      /\ dev'.pc = "idle" /\ dev'.control = "idle" /\ dev'.report = dev.report
  BY <1>1, ResetEffect DEF DriverInv, QueuesInv, Same, Stale
<1>3. ~ inner.setupstat /\ 0 \notin dev.report.in /\ 1 \notin dev.report.out
  BY <1>1 DEF DriverInv, ReportInv
<1>4. Rest' /\ ~ Asked'
  BY <1>1, <1>2, <1>3 DEF Rest, NoStatus, InEp0, Asked, Reading, Stale, FlushInv
<1>5. ControlInv'
  BY <1>1, <1>4 DEF ControlInv, FlushInv
<1>6. BetweenInv'
  BY <1>1, <1>2, <1>3 DEF BetweenInv, FlushInv
<1>7. MessageInv'
  BY <1>1, <1>2, <1>3 DEF MessageInv, FlushInv, InEp1
<1>. QED
  BY <1>5, <1>6, <1>7

(* Every step of a host that keeps to the protocol keeps the control       *)
(* transfer in one of its stages, or moves it to the next.                 *)
LEMMA ControlStep ==
  ASSUME DriverInv, Live, ControlInv, BetweenInv, [Next]_vars, ~ Restart, Live'
  PROVE  ControlInv'
<1>. USE Fields, EndpointFacts DEF DriverInv
<1>0. dev.pc \notin Fatal \cup {"flush"} /\ dev'.pc \notin Fatal \cup {"flush"} /\ upset' = {}
      /\ upset = {}
  BY DEF Live
<1>1. CASE UNCHANGED vars
  BY <1>1, ControlKept DEF vars, Same, ControlInv
<1>2. CASE Allocating
  <2>1. /\ UNCHANGED <<hw, host>>
        /\ Same(inner', inner, {"setupstat", "pre_status_out", "status_out"})
        /\ UNCHANGED dev
    BY <1>0, <1>2, AllocEffect, GoToFacts, PlaceFacts DEF Allocating, Added, Unfit, Same, Fatal
  <2>. QED
    BY <2>1, ControlKept DEF Same, ControlInv
<1>3. CASE enable \/ PollStatus
  <2>1. /\ UNCHANGED <<hw, inner, host>> /\ dev.pc \in {"alloc", "idle"}
        /\ dev'.pc \in {"idle", "poll", "reset"}
        /\ dev'.control = dev.control /\ dev'.handled = dev.handled /\ dev'.left = dev.left
    BY <1>3, SimpleSteps, GoToFacts, PlaceFacts
  <2>2. Aside /\ Aside'
    BY <2>1 DEF Aside, Reading
  <2>. QED
    BY <2>1, <2>2, ControlKept DEF Same, ControlInv
<1>4. CASE PollSetup
  <2>1. /\ UNCHANGED <<hw, inner, host>> /\ dev.pc = "poll" /\ dev'.pc = "poll_complete"
        /\ dev'.control = dev.control /\ dev'.handled = dev.handled /\ dev'.left = dev.left
    BY <1>4, ReadEffect DEF PollSetup, Same
  <2>2. Aside /\ Aside'
    BY <2>1 DEF Aside, Reading
  <2>. QED
    BY <2>1, <2>2, ControlKept DEF Same, ControlInv
<1>5. CASE PollComplete
  BY <1>0, <1>5, ControlPoll
<1>6. CASE TransferFailed \/ ResetTimeout
  BY <1>0, <1>6, QuietPlaces DEF Fatal
<1>7. CASE ReadSetup \/ SetTripwire \/ CopyFirst \/ CopySecond \/ CheckTripwire
  BY <1>0, <1>7, ControlRead
<1>8. CASE SetupRead
  BY <1>0, <1>8, ControlSetup
<1>9. CASE AnswerSetup
  BY <1>0, <1>9, ControlAnswer
<1>10. CASE ReadStatus \/ StatusRead \/ StatusTimeout
  BY <1>0, <1>10, ControlStatus
<1>11. CASE InComplete0
  BY <1>11, ControlIn0
<1>12. CASE ReadBulk
  <2>1. /\ UNCHANGED <<inner, host>> /\ dev.pc = "class" /\ dev'.pc = "echo"
        /\ dev'.control = dev.control /\ dev'.handled = dev.handled /\ dev'.left = dev.left
        /\ hw'.complete = hw.complete \ {OUT1} /\ hw'.prime = hw.prime \cup {OUT1}
        /\ Same(hw', hw, {"setup", "setupstat", "stat"})
    BY <1>0, <1>12, BulkEffect, GoToFacts, PlaceFacts DEF Same, Fatal
  <2>2. Aside /\ Aside'
    BY <2>1 DEF Aside, Reading
  <2>. QED
    BY <2>1, <2>2, ControlKept DEF Same, ControlInv
<1>13. CASE Echo
  <2>1. /\ UNCHANGED host /\ dev.pc = "echo" /\ dev'.pc \in {"idle", "unwrap"}
        /\ dev'.control = dev.control /\ dev'.handled = dev.handled /\ dev'.left = dev.left
        /\ hw'.prime = hw.prime \/ hw'.prime = hw.prime \cup {IN1}
        /\ Same(hw', hw, {"setup", "setupstat", "stat", "complete"})
        /\ Same(inner', inner, {"setupstat", "pre_status_out", "status_out"})
    BY <1>0, <1>13, EchoEffect, GoToFacts, PlaceFacts
    DEF Same, Fatal, Refused, Blocked, Primed, Kept
  <2>2. Aside /\ Aside'
    BY <2>1 DEF Aside, Reading
  <2>. QED
    BY <2>1, <2>2, ControlKept DEF Same, ControlInv
<1>14. CASE ResetClear \/ ResetFlush
  BY <1>0, <1>14, ResetEffect DEF ResetFlush
<1>15. CASE TakeIn0 \/ SendStatus \/ \E e \in Endpoints : Prime(e)
  BY <1>0, <1>15, ControlHost
<1>16. ASSUME NEW p \in Setups, SendSetup(p)
       PROVE  ControlInv'
  BY <1>0, <1>16, ControlNew
<1>17. CASE TakeAnswer \/ SendMessage
  <2>1. /\ UNCHANGED <<inner, dev>> /\ Same(host', host, {"at", "want", "pr"}) /\ ~ host.pr
        /\ Same(hw', hw, {"setup", "setupstat", "prime"})
        /\ \E e \in {OUT1, IN1} :
             hw'.stat = hw.stat \ {e} /\ hw'.complete = hw.complete \cup {e}
    BY <1>17, Host1Effect DEF Moved, Same, Ready, Online
  <2>. QED
    BY <2>1, ControlKept DEF Same
<1>18. CASE StartReset \/ EndReset
  <2>1. /\ UNCHANGED <<inner, dev>> /\ host.at = "idle" /\ host'.at = "idle"
        /\ Same(hw', hw, {"setup", "setupstat", "prime", "stat", "complete"})
    BY <1>0, <1>18, Host1Effect DEF Same, BetweenInv
  <2>2. (Asked' <=> Asked) /\ (Rest' <=> Rest) /\ (Acked' <=> Acked) /\ (Noting' <=> Noting)
        /\ (Closing' <=> Closing)
    BY <2>1 DEF Asked, Rest, Acked, Noting, Closing, InEp0, NoStatus, Aside, Same
  <2>. QED
    BY <2>1, <2>2 DEF ControlInv
<1>. QED
  BY <1>1, <1>2, <1>3, <1>4, <1>5, <1>6, <1>7, <1>8, <1>9, <1>10, <1>11, <1>12, <1>13, <1>14,
     <1>15, <1>16, <1>17, <1>18, StepCases

(* Where the driver is on endpoint 0 does not matter to a reset, nor to a  *)
(* report without the end of an IN transfer on it.                         *)
LEMMA BetweenKept ==
  ASSUME BetweenInv, hw'.uri = hw.uri, UNCHANGED host,
         0 \in dev'.report.in => 0 \in dev.report.in,
         \/ dev'.pc \notin {"read0", "answer", "wait"} \cup Reading
         \/ dev.pc \in {"read0", "answer", "wait"} \cup Reading
  PROVE  BetweenInv'
BY DEF BetweenInv

(* A bus reset begins between transfers and lasts until it is handled, and *)
(* poll_complete reports the end of an IN transfer by itself.              *)
LEMMA BetweenStep ==
  ASSUME DriverInv, Live, ControlInv, BetweenInv, [Next]_vars, ~ Restart, Live'
  PROVE  BetweenInv'
<1>. USE Fields, EndpointFacts DEF DriverInv
<1>0. dev.pc \notin Fatal \cup {"flush"} /\ dev'.pc \notin Fatal \cup {"flush"} /\ upset' = {}
      /\ upset = {}
  BY DEF Live
<1>1. CASE UNCHANGED vars
  BY <1>1, BetweenKept DEF vars
<1>2. CASE Allocating
  <2>1. UNCHANGED <<hw, host, dev>>
    BY <1>0, <1>2, AllocEffect, GoToFacts, PlaceFacts DEF Allocating, Added, Unfit, Same, Fatal
  <2>. QED
    BY <2>1, BetweenKept
<1>3. CASE enable \/ PollStatus
  <2>1. /\ UNCHANGED <<hw, host>> /\ dev'.pc \in {"idle", "poll", "reset"}
        /\ dev'.report = dev.report
    BY <1>3, SimpleSteps, GoToFacts, PlaceFacts
  <2>. QED
    BY <2>1, BetweenKept DEF Reading
<1>4. CASE PollSetup
  <2>1. /\ UNCHANGED <<hw, host>> /\ dev'.pc = "poll_complete" /\ dev'.report = dev.report
    BY <1>4, ReadEffect DEF PollSetup, Same
  <2>. QED
    BY <2>1, BetweenKept DEF Reading
<1>5. CASE PollComplete
  <2>1. hw'.uri = hw.uri /\ UNCHANGED host /\ dev'.pc \in {"read0", "in0", "class", "idle"}
    BY <1>0, <1>5, PollEffect, GoToFacts, PlaceFacts, AfterCases DEF Fatal, Reported, Same
  <2>2. 0 \in dev'.report.in => dev'.pc # "read0"
    BY <1>0, <1>5, ControlPoll
  <2>. QED
    BY <2>1, <2>2 DEF BetweenInv, Reading
<1>6. CASE TransferFailed \/ ResetTimeout
  BY <1>0, <1>6, QuietPlaces DEF Fatal
<1>7. CASE ReadSetup \/ SetTripwire \/ CopyFirst \/ CopySecond \/ CheckTripwire \/ SetupRead
  <2>1. hw'.uri = hw.uri /\ UNCHANGED host /\ dev.pc \in {"read0"} \cup Reading
    BY <1>7, QuietSteps, QuietPlaces DEF Quietly, Same, Reading
  <2>2. dev'.report = dev.report
    <3>1. CASE ReadSetup \/ SetTripwire \/ CheckTripwire
      BY <3>1, GoToFacts, PlaceFacts DEF ReadSetup, SetTripwire, CheckTripwire
    <3>2. CASE CopyFirst \/ CopySecond \/ SetupRead
      BY <3>2, ReadEffect, SetupReadEffect DEF Same
    <3>. QED
      BY <1>7, <3>1, <3>2
  <2>. QED
    BY <2>1, <2>2, BetweenKept
<1>8. CASE AnswerSetup
  <2>1. hw'.uri = hw.uri /\ UNCHANGED host /\ dev.pc = "answer"
        /\ (0 \in dev'.report.in => 0 \in dev.report.in)
    BY <1>8, <1>0, AnswerEffect, GoToFacts, PlaceFacts
    DEF Kept, Refused, Blocked, Primed, Same, NoReport, Fatal
  <2>. QED
    BY <2>1, BetweenKept
<1>9. CASE ReadStatus
  <2>1. /\ dev.pc = "read0" /\ UNCHANGED host /\ dev'.report = dev.report /\ hw'.uri = hw.uri
    BY <1>0, <1>9, SimpleSteps, GoToFacts, PlaceFacts DEF Same
  <2>. QED
    BY <2>1, BetweenKept
<1>10. CASE StatusRead
  <2>1. hw'.uri = hw.uri /\ UNCHANGED host /\ dev.pc = "wait"
        /\ (0 \in dev'.report.in => 0 \in dev.report.in)
    BY <1>10, <1>0, StatusEffect, GoToFacts, PlaceFacts DEF Kept, Same, NoReport, Fatal
  <2>. QED
    BY <2>1, BetweenKept
<1>11. CASE StatusTimeout
  BY <1>0, <1>11, QuietPlaces DEF Fatal
<1>12. CASE InComplete0
  <2>1. dev'.pc \in {"class", "idle"}
    BY <1>12, ControlIn0
  <2>2. UNCHANGED host /\ hw'.uri = hw.uri
    BY <1>12, In0Effect DEF Refused, Blocked, Primed, Same
  <2>3. ~ Refused(IN0) /\ ~ GoTo("stall")
    BY <1>0, <2>1, GoToFacts, PlaceFacts DEF Refused
  <2>4. 0 \in dev'.report.in => 0 \in dev.report.in
    <3>1. \/ Kept(dev', AfterIn(dev.report))
          \/ dev'.report = (IF dev'.pc = "idle" THEN NoReport ELSE dev.report)
      BY <1>12, <2>3, In0Effect, Zenon
    <3>2. dev'.report = NoReport \/ dev'.report = dev.report
      BY <3>1 DEF Kept
    <3>. QED
      BY <3>2 DEF NoReport
  <2>. QED
    BY <2>1, <2>2, <2>4, BetweenKept DEF Reading
<1>13. CASE ReadBulk \/ Echo
  <2>1. hw'.uri = hw.uri /\ UNCHANGED host /\ dev'.pc \in {"echo", "idle"}
        /\ (0 \in dev'.report.in => 0 \in dev.report.in)
    BY <1>13, <1>0, BulkEffect, EchoEffect, GoToFacts, PlaceFacts
    DEF Kept, Refused, Blocked, Primed, Same, NoReport, Fatal
  <2>. QED
    BY <2>1, BetweenKept DEF Reading
<1>14. CASE ResetClear \/ ResetFlush
  BY <1>0, <1>14, ResetEffect DEF ResetFlush
<1>15. ASSUME NEW e \in Endpoints, Prime(e)
       PROVE  BetweenInv'
  BY <1>15, PrimeEffect, BetweenKept DEF Same
<1>16. CASE TakeIn0 \/ SendStatus \/ SendMessage \/ TakeAnswer
  <2>1. ~ host.pr /\ host'.pr = host.pr /\ hw'.uri = hw.uri /\ UNCHANGED dev
    BY <1>16, Host0Effect, Host1Effect DEF Moved, Same, Ready, Online
  <2>. QED
    BY <2>1 DEF BetweenInv
<1>17. ASSUME NEW p \in Setups, SendSetup(p)
       PROVE  BetweenInv'
  <2>1. ~ host.pr /\ host'.pr = host.pr /\ hw'.uri = hw.uri /\ UNCHANGED dev
    BY <1>17, Host0Effect DEF Same, Online
  <2>. QED
    BY <2>1 DEF BetweenInv
<1>18. CASE StartReset
  <2>1. host'.pr /\ host'.at = "idle" /\ host'.waiting = 0 /\ UNCHANGED dev
    BY <1>18, Host1Effect
  <2>. QED
    BY <2>1 DEF BetweenInv
<1>19. CASE EndReset
  <2>1. upset' = upset \cup {u \in {"slow"} : hw.uri}
    BY <1>19 DEF EndReset
  <2>2. ~ host'.pr /\ ~ hw'.uri /\ UNCHANGED dev
    BY <1>0, <1>19, <2>1, Host1Effect
  <2>. QED
    BY <2>2 DEF BetweenInv
<1>. QED
  BY <1>1, <1>2, <1>3, <1>4, <1>5, <1>6, <1>7, <1>8, <1>9, <1>10, <1>11, <1>12, <1>13, <1>14,
     <1>15, <1>16, <1>17, <1>18, <1>19, StepCases

(* The echo does not depend on what happens on endpoint 0.                 *)
LEMMA MessageKept ==
  ASSUME MessageInv, dev'.pc = "echo" <=> dev.pc = "echo",
         InEp1' <=> InEp1, IN1 \in hw'.complete => IN1 \in hw.complete,
         OUT1 \in hw'.complete <=> OUT1 \in hw.complete,
         IN1 \in dqh'.current => IN1 \in dqh.current \/ Returned,
         dqh'.data[OUT1] = dqh.data[OUT1], dqh'.data[IN1] = dqh.data[IN1],
         host'.message = host.message, host'.waiting = host.waiting,
         1 \in dev'.report.out => 1 \in dev.report.out
  PROVE  MessageInv'
<1>1. (Held => Held') /\ (Returned => Returned')
  BY DEF Held, Returned
<1>2. Echoing => Echoing'
  BY DEF Echoing, Returned
<1>3. 1 \in dev'.report.out =>
        dev'.pc = "echo" \/ (OUT1 \in hw'.complete /\ IN1 \notin dqh'.current)
  BY DEF MessageInv, Returned
<1>. QED
  BY <1>1, <1>2, <1>3 DEF MessageInv

(* What poll_complete reports for endpoint 1 is the message that is held,  *)
(* and the answer to the one before is through.                            *)
LEMMA MessagePoll ==
  ASSUME DriverInv, upset = {}, BetweenInv, MessageInv, PollComplete, dev'.pc \notin Fatal
  PROVE  MessageInv'
<1>. USE EndpointFacts, Fields DEF DriverInv
<1>1. dev.pc = "poll_complete" /\ UNCHANGED <<host, upset>>
  BY PollEffect
<1>2. PICK tx \in SUBSET Endpoints, due \in BOOLEAN, status \in BOOLEAN, r \in Reports :
        Polled(tx, due, status, r) /\ Reported(tx, due, status, r)
  BY PollEffect, GoToFacts, PlaceFacts DEF Fatal
<1>3. /\ hw'.complete = hw.complete \ {IN0, IN1}
      /\ dqh'.current = dqh.current \ (hw.complete \cap {IN0, IN1})
      /\ hw'.prime = hw.prime /\ hw'.stat = hw.stat /\ dqh'.data = dqh.data
      /\ dev'.report = r /\ dev'.pc # "echo" /\ (1 \in r.out => OUT1 \in hw.complete)
  BY <1>2, AfterCases DEF Polled, Reported, Same
<1>4. ~ Echoing
  BY <1>1 DEF Echoing
<1>5. (Held => Held') /\ (Returned => Returned') /\ (InEp1' <=> InEp1)
  BY <1>1, <1>3 DEF Held, Returned, InEp1
<1>6. ASSUME OUT1 \in hw.complete
      PROVE  IN1 \notin dqh'.current
  <2>1. Held /\ host.waiting = 1
    BY <1>4, <1>6 DEF MessageInv, Returned
  <2>2. ~ hw.uri
    BY <2>1 DEF BetweenInv
  <2>3. dqh.current \subseteq hw.stat \cup hw.complete
    BY <2>2 DEF ReadyInv
  <2>. QED
    BY <1>3, <2>1, <2>3 DEF Held, InEp1
<1>. QED
  BY <1>1, <1>3, <1>4, <1>5, <1>6 DEF MessageInv

(* The class finds the message that was reported, and the controller free  *)
(* for the answer.                                                         *)
LEMMA MessageEcho ==
  ASSUME DriverInv, MessageInv, ReadBulk \/ Echo
  PROVE  /\ dev'.pc # "unwrap"
         /\ dev'.pc \notin Fatal => MessageInv'
<1>. USE EndpointFacts, Fields DEF DriverInv
<1>1. CASE ReadBulk
  <2>1. dev.pc = "class" /\ UNCHANGED host
    BY <1>1, BulkEffect
  <2>2. 1 \in dev.report.out
    BY <2>1 DEF ReportInv
  <2>3. OUT1 \in hw.complete /\ IN1 \notin dqh.current
    BY <2>1, <2>2 DEF MessageInv
  <2>4. Held /\ host.waiting = 1
    BY <2>1, <2>3 DEF MessageInv, Returned, Echoing
  <2>5. \/ dev'.pc = "assert"
        \/ /\ dev'.pc = "echo" /\ hw'.complete = hw.complete \ {OUT1}
           /\ hw'.prime = hw.prime \cup {OUT1} /\ hw'.stat = hw.stat
           /\ dqh'.current = dqh.current \ {OUT1} /\ dqh'.data = dqh.data
    BY <1>1, <2>3, BulkEffect, GoToFacts, PlaceFacts DEF Same
  <2>6. dev'.pc = "echo" => Echoing'
    BY <2>1, <2>3, <2>4, <2>5 DEF Held, Echoing, InEp1
  <2>. QED
    BY <2>1, <2>4, <2>5, <2>6 DEF MessageInv, Fatal
<1>2. CASE Echo
  <2>1. dev.pc = "echo" /\ UNCHANGED host
    BY <1>2, EchoEffect
  <2>2. Echoing /\ host.waiting = 1
    BY <2>1 DEF MessageInv, Held, Returned
  <2>3. \/ dev'.pc \in {"assert", "oom"}
        \/ Primed(IN1, dqh.data[OUT1]) /\ Kept(dev', "idle")
    BY <1>2, <2>2, EchoEffect, GoToFacts, PlaceFacts DEF Refused, Blocked, Echoing
  <2>4. ASSUME Primed(IN1, dqh.data[OUT1]), Kept(dev', "idle")
        PROVE  MessageInv' /\ dev'.pc = "idle"
    <3>1. /\ hw'.prime = hw.prime \cup {IN1} /\ hw'.complete = hw.complete
          /\ dqh'.data[IN1] = dqh.data[OUT1] /\ dev'.pc = "idle" /\ dev'.report = NoReport
      BY <2>4 DEF Primed, Kept, Same
    <3>2. Returned'
      BY <2>1, <2>2, <3>1 DEF Echoing, Returned, InEp1, QueuesInv
    <3>. QED
      BY <2>1, <2>2, <3>1, <3>2 DEF MessageInv, NoReport
  <2>. QED
    BY <2>3, <2>4 DEF Fatal
<1>. QED
  BY <1>1, <1>2

(* What the host and the controller do on endpoint 1.                      *)
LEMMA MessageHost ==
  ASSUME DriverInv, upset = {}, upset' = {}, BetweenInv, MessageInv,
         TakeAnswer \/ SendMessage \/ StartReset \/ EndReset \/ \E e \in Endpoints : Prime(e)
  PROVE  MessageInv'
<1>. USE EndpointFacts, Fields DEF DriverInv
<1>1. CASE TakeAnswer
  <2>1. /\ IN1 \in hw.stat /\ host.waiting > 0 /\ host'.waiting = host.waiting - 1
        /\ UNCHANGED <<dqh, dev>>
        /\ hw'.stat = hw.stat \ {IN1} /\ hw'.complete = hw.complete \cup {IN1}
        /\ hw'.prime = hw.prime
    BY <1>1, Host1Effect DEF Ready, Moved, Same
  <2>2. Returned /\ host.waiting = 1
    BY <2>1 DEF MessageInv, Held, Echoing, InEp1
  <2>3. IN1 \notin hw.prime
    BY <2>1 DEF QueuesInv
  <2>. QED
    BY <2>1, <2>2, <2>3 DEF MessageInv, Returned, InEp1
<1>2. CASE SendMessage
  <2>1. upset' = upset \cup {u \in {"two"} : host.waiting = 1}
    BY <1>2, Host1Effect
  <2>2. host.waiting = 0 /\ host'.waiting = 1
    BY <1>2, <2>1, Host1Effect
  <2>3. /\ UNCHANGED dev /\ dqh'.data[OUT1] = ~ host.message /\ host'.message = ~ host.message
        /\ hw'.stat = hw.stat \ {OUT1} /\ hw'.complete = hw.complete \cup {OUT1}
        /\ hw'.prime = hw.prime
    BY <1>2, Host1Effect DEF Moved, Same
  <2>4. dqh'.data[OUT1] = host'.message
    BY <2>3, Zenon
  <2>5. Held' /\ 1 \notin dev.report.out
    BY <2>2, <2>3, <2>4 DEF MessageInv, Held, InEp1
  <2>. QED
    BY <2>2, <2>3, <2>5 DEF MessageInv
<1>3. CASE StartReset
  <2>1. /\ UNCHANGED <<dqh, dev>> /\ host'.waiting = 0 /\ host'.message = host.message
        /\ Same(hw', hw, {"prime", "stat", "complete"})
        /\ upset' = upset \cup {u \in {"stale"} : host.at # "idle" \/ host.waiting > 0}
    BY <1>3, Host1Effect DEF Same
  <2>2. host.waiting = 0
    BY <2>1 DEF Types, Hosts
  <2>. QED
    BY <2>1, <2>2, MessageKept DEF Same, InEp1
<1>4. CASE EndReset
  <2>1. UNCHANGED <<hw, dqh, dev>> /\ host'.waiting = host.waiting /\ host'.message = host.message
    BY <1>4, Host1Effect DEF Same
  <2>. QED
    BY <2>1, MessageKept DEF InEp1
<1>5. ASSUME NEW e \in Endpoints, Prime(e)
      PROVE  MessageInv'
  <2>1. /\ e \in hw.prime /\ UNCHANGED <<dev, host>> /\ hw'.prime = hw.prime \ {e}
        /\ hw'.complete = hw.complete
    BY <1>5, PrimeEffect DEF Same
  <2>2. \/ e \notin dqh.next /\ hw'.stat = hw.stat /\ UNCHANGED dqh
        \/ /\ e \in dqh.next /\ hw'.stat = hw.stat \cup {e}
           /\ dqh'.current = dqh.current \cup {e} /\ dqh'.data = dqh.data
    BY <1>5, PrimeEffect DEF Same
  <2>3. e = IN1 => e \in dqh.next /\ Returned
    BY <2>1 DEF QueuesInv, MessageInv, Held, Echoing, InEp1
  <2>4. InEp1' <=> InEp1
    BY <2>1, <2>2, <2>3 DEF InEp1
  <2>5. IN1 \in dqh'.current => IN1 \in dqh.current \/ Returned
    BY <2>2, <2>3
  <2>6. dqh'.data = dqh.data
    BY <2>2
  <2>. QED
    BY <2>1, <2>4, <2>5, <2>6, MessageKept
<1>. QED
  BY <1>1, <1>2, <1>3, <1>4, <1>5

(* One message at a time: it is with the class or its answer is with the   *)
(* controller.                                                             *)
LEMMA MessageStep ==
  ASSUME DriverInv, Live, ControlInv, BetweenInv, MessageInv, [Next]_vars, ~ Restart, Live'
  PROVE  MessageInv'
<1>. USE Fields, EndpointFacts DEF DriverInv
<1>0. dev.pc \notin Fatal \cup {"flush"} /\ dev'.pc \notin Fatal \cup {"flush"} /\ upset' = {}
      /\ upset = {}
  BY DEF Live
<1>1. CASE UNCHANGED vars
  BY <1>1, MessageKept DEF vars, InEp1
<1>2. CASE Allocating
  <2>1. UNCHANGED <<hw, host, dev>> /\ dqh'.current = dqh.current /\ dqh'.data = dqh.data
    BY <1>0, <1>2, AllocEffect, GoToFacts, PlaceFacts DEF Allocating, Added, Unfit, Same, Fatal
  <2>. QED
    BY <2>1, MessageKept DEF InEp1
<1>3. CASE enable \/ ReadStatus
  <2>1. /\ UNCHANGED <<dqh, host>> /\ dev'.report = dev.report
        /\ dev.pc # "echo" /\ dev'.pc # "echo"
        /\ hw'.prime = hw.prime \/ hw'.prime = hw.prime \cup {OUT0}
        /\ hw'.stat = hw.stat /\ hw'.complete = hw.complete
    BY <1>0, <1>3, SimpleSteps, GoToFacts, PlaceFacts DEF Same
  <2>. QED
    BY <2>1, MessageKept DEF InEp1
<1>4. CASE PollStatus \/ PollSetup \/ TransferFailed \/ ReadSetup \/ SetTripwire \/ CopyFirst
             \/ CopySecond \/ CheckTripwire \/ SetupRead \/ StatusTimeout \/ ResetTimeout
  <2>1. /\ UNCHANGED <<dqh, host>> /\ hw'.prime = hw.prime /\ hw'.stat = hw.stat
        /\ hw'.complete = hw.complete
    BY <1>4, QuietSteps DEF Quietly, Same
  <2>2. dev.pc # "echo" /\ dev'.pc # "echo"
    BY <1>4, QuietPlaces
  <2>3. dev'.report = dev.report
    <3>1. CASE PollStatus \/ TransferFailed \/ ReadSetup \/ SetTripwire \/ CheckTripwire
                 \/ StatusTimeout \/ ResetTimeout
      BY <3>1, GoToFacts, PlaceFacts
      DEF PollStatus, TransferFailed, ReadSetup, SetTripwire, CheckTripwire, StatusTimeout,
      ResetTimeout
    <3>2. CASE PollSetup \/ CopyFirst \/ CopySecond \/ SetupRead
      BY <3>2, ReadEffect, SetupReadEffect DEF Same
    <3>. QED
      BY <1>4, <3>1, <3>2
  <2>. QED
    BY <2>1, <2>2, <2>3, MessageKept DEF InEp1
<1>5. CASE PollComplete
  BY <1>0, <1>5, MessagePoll
<1>6. CASE AnswerSetup
  <2>1. /\ dev.pc = "answer" /\ UNCHANGED host
        /\ \/ Blocked(IN0) /\ Kept(dev', AfterOut(dev.report))
           \/ Primed(IN0, FALSE) /\ Kept(dev', AfterOut(dev.report))
    BY <1>0, <1>6, AnswerEffect, GoToFacts, PlaceFacts DEF Refused, Fatal
  <2>2. dev'.pc # "echo" /\ (1 \in dev'.report.out => 1 \in dev.report.out)
    <3>1. Kept(dev', AfterOut(dev.report))
      BY <2>1
    <3>. QED
      BY <3>1, AfterCases DEF Kept, NoReport
  <2>3. /\ hw'.prime = hw.prime \/ hw'.prime = hw.prime \cup {IN0}
        /\ hw'.stat = hw.stat /\ hw'.complete = hw.complete
        /\ dqh'.current = dqh.current
        /\ dqh'.data[OUT1] = dqh.data[OUT1] /\ dqh'.data[IN1] = dqh.data[IN1]
    BY <2>1 DEF Blocked, Primed, Same
  <2>. QED
    BY <2>1, <2>2, <2>3, MessageKept DEF InEp1
<1>7. CASE StatusRead
  <2>1. /\ dev.pc = "wait" /\ UNCHANGED host /\ hw'.complete = hw.complete \ {OUT0}
        /\ hw'.prime = hw.prime /\ hw'.stat = hw.stat
        /\ dqh'.current = dqh.current \ {OUT0} /\ dqh'.data = dqh.data
    BY <1>7, StatusEffect DEF Same
  <2>2. Kept(dev', AfterOut(dev.report))
    BY <1>0, <1>7, StatusEffect, GoToFacts, PlaceFacts DEF Fatal
  <2>3. dev'.pc # "echo" /\ (1 \in dev'.report.out => 1 \in dev.report.out)
    BY <2>2, AfterCases DEF Kept, NoReport
  <2>. QED
    BY <2>1, <2>3, MessageKept DEF InEp1
<1>8. CASE InComplete0
  <2>1. dev.pc = "in0" /\ UNCHANGED host /\ dev'.pc \in {"class", "idle"}
    BY <1>8, In0Effect, ControlIn0
  <2>2. ~ Refused(IN0) /\ ~ GoTo("stall")
    BY <1>0, <2>1, GoToFacts, PlaceFacts DEF Refused
  <2>3. \/ Kept(dev', AfterIn(dev.report))
        \/ dev'.report = (IF dev'.pc = "idle" THEN NoReport ELSE dev.report)
    BY <1>8, <2>2, In0Effect, Zenon
  <2>4. dev'.report = NoReport \/ dev'.report = dev.report
    BY <2>3 DEF Kept
  <2>5. \/ Blocked(IN0) \/ Primed(IN0, FALSE)
        \/ UNCHANGED dqh /\ Same(hw', hw, {"stat", "complete"})
           /\ (hw'.prime = hw.prime \/ hw'.prime = hw.prime \cup (inner.used \cap {OUT1}))
    BY <1>8, <2>2, In0Effect DEF Same
  <2>6. /\ \/ hw'.prime = hw.prime \/ hw'.prime = hw.prime \cup {IN0}
           \/ hw'.prime = hw.prime \cup (inner.used \cap {OUT1})
        /\ hw'.stat = hw.stat /\ hw'.complete = hw.complete
        /\ dqh'.current = dqh.current
        /\ dqh'.data[OUT1] = dqh.data[OUT1] /\ dqh'.data[IN1] = dqh.data[IN1]
    BY <2>5 DEF Blocked, Primed, Same
  <2>. QED
    BY <2>1, <2>4, <2>6, MessageKept DEF InEp1, NoReport
<1>9. CASE ReadBulk \/ Echo
  BY <1>0, <1>9, MessageEcho
<1>10. CASE ResetClear \/ ResetFlush
  BY <1>0, <1>10, ResetEffect DEF ResetFlush
<1>11. CASE TakeIn0 \/ SendStatus
  <2>1. /\ UNCHANGED <<dqh, dev>> /\ host'.message = host.message /\ host'.waiting = host.waiting
        /\ hw'.prime = hw.prime
        /\ \E e \in {IN0, OUT0} :
             hw'.stat = hw.stat \ {e} /\ hw'.complete = hw.complete \cup {e}
    BY <1>11, Host0Effect DEF Moved, Same
  <2>. QED
    BY <2>1, MessageKept DEF InEp1
<1>12. ASSUME NEW p \in Setups, SendSetup(p)
       PROVE  MessageInv'
  <2>1. /\ UNCHANGED <<dqh, dev>> /\ host'.message = host.message /\ host'.waiting = host.waiting
        /\ hw'.prime = hw.prime /\ hw'.stat = hw.stat /\ hw'.complete = hw.complete
    BY <1>12, Host0Effect DEF Same
  <2>. QED
    BY <2>1, MessageKept DEF InEp1
<1>13. CASE TakeAnswer \/ SendMessage \/ StartReset \/ EndReset \/ \E e \in Endpoints : Prime(e)
  BY <1>0, <1>13, MessageHost
<1>. QED
  BY <1>1, <1>2, <1>3, <1>4, <1>5, <1>6, <1>7, <1>8, <1>9, <1>10, <1>11, <1>12, <1>13, StepCases

(* The actions that are not the driver's leave the caller where it is.     *)
Outside ==
  \/ UNCHANGED vars
  \/ \E e \in Endpoints : Prime(e)
  \/ TakeIn0 \/ SendStatus \/ TakeAnswer
  \/ \E p \in Setups : SendSetup(p)
  \/ SendMessage \/ StartReset \/ EndReset

(* The host and the controller do not move the caller. *)
LEMMA OutsideStays ==
  ASSUME Outside
  PROVE  UNCHANGED dev
BY Zenon
DEF Outside, vars, Prime, TakeIn0, SendStatus, TakeAnswer, SendSetup, SendMessage, StartReset,
    EndReset

(* After a panic, and during a reset, the driver does nothing else.        *)
LEMMA StillSteps ==
  ASSUME Types, [Next]_vars, ~ Restart, dev.pc \in Fatal \cup {"flush"}
  PROVE  Outside \/ ((ResetFlush \/ ResetTimeout) /\ dev.pc = "flush")
<1>1. ~ (Allocating \/ enable \/ ReadStatus)
  BY AllocEffect, SimpleSteps DEF Allocating, Fatal
<1>2. ~ (PollStatus \/ PollSetup \/ TransferFailed \/ ReadSetup \/ SetTripwire \/ CopyFirst
           \/ CopySecond \/ CheckTripwire \/ SetupRead \/ StatusTimeout)
  BY QuietPlaces DEF Fatal
<1>3. ~ (PollComplete \/ AnswerSetup \/ StatusRead \/ InComplete0 \/ ReadBulk \/ Echo)
  BY PollEffect, AnswerEffect, StatusEffect, In0Effect, BulkEffect, EchoEffect DEF Fatal
<1>4. ~ ResetClear /\ (ResetFlush \/ ResetTimeout => dev.pc = "flush")
  BY DEF ResetClear, ResetFlush, ResetTimeout, Fatal
<1>. QED
  BY <1>1, <1>2, <1>3, <1>4, StepCases, Zenon DEF Outside

(* Only ResetClear begins a reset. *)
LEMMA IntoFlush ==
  ASSUME Types, [Next]_vars, ~ Restart, dev.pc # "flush", dev'.pc = "flush"
  PROVE  ResetClear
<1>. USE Fields
<1>1. ~ Outside
  BY OutsideStays
<1>2. ~ (Allocating \/ enable \/ ReadStatus)
  BY AllocEffect, SimpleSteps, GoToFacts, PlaceFacts DEF Allocating, Added, Unfit
<1>3. ~ (PollStatus \/ PollSetup \/ TransferFailed \/ ReadSetup \/ SetTripwire \/ CopyFirst
           \/ CopySecond \/ CheckTripwire \/ SetupRead \/ StatusTimeout \/ ResetTimeout)
  BY QuietPlaces
<1>4. ~ (PollComplete \/ ReadBulk)
  BY PollEffect, BulkEffect, GoToFacts, PlaceFacts, AfterCases DEF Reported
<1>5. ~ (AnswerSetup \/ StatusRead)
  BY AnswerEffect, StatusEffect, GoToFacts, PlaceFacts, AfterCases DEF Kept, Refused
<1>6. ~ (InComplete0 \/ Echo)
  BY In0Effect, EchoEffect, GoToFacts, PlaceFacts, AfterCases DEF Kept, Refused
<1>7. ~ ResetFlush
  BY DEF ResetFlush
<1>. QED
  BY <1>1, <1>2, <1>3, <1>4, <1>5, <1>6, <1>7, StepCases, Zenon DEF Outside

(* The driver handles a bus reset while nothing is under way, and the host *)
(* waits for it.                                                           *)
LEMMA FlushStep ==
  ASSUME DriverInv, StageInv, [Next]_vars, ~ Restart, upset' = {}, dev'.pc = "flush"
  PROVE  FlushInv'
<1>. USE DEF DriverInv
<1>1. upset = {} /\ dev.pc \notin Fatal
  BY LiveBefore DEF Fatal
<1>2. CASE dev.pc # "flush"
  <2>1. ResetClear
    BY <1>2, IntoFlush
  <2>2. dev.pc = "reset" /\ UNCHANGED host /\ ~ hw'.setupstat
    BY <2>1, ResetEffect DEF ResetClear
  <2>3. BetweenInv /\ hw.uri
    BY <1>1, <1>2, <2>2 DEF StageInv, Live, ResetInv
  <2>. QED
    BY <2>2, <2>3 DEF BetweenInv, FlushInv
<1>3. CASE dev.pc = "flush"
  <2>1. FlushInv /\ hw.uri
    BY <1>1, <1>3 DEF StageInv, ResetInv
  <2>2. ~ ResetFlush /\ ~ ResetTimeout
    BY ResetEffect, QuietPlaces
  <2>3. Outside
    BY <1>3, <2>2, StillSteps
  <2>4. ~ (TakeIn0 \/ SendStatus \/ TakeAnswer \/ SendMessage \/ StartReset)
    BY <2>1, Host0Effect, Host1Effect DEF FlushInv, Ready, Online
  <2>5. ~ \E p \in Setups : SendSetup(p)
    BY <2>1, Host0Effect DEF FlushInv, Online
  <2>6. ~ EndReset
    BY <2>1 DEF EndReset
  <2>7. UNCHANGED host /\ hw'.setupstat = hw.setupstat
    <3>1. CASE UNCHANGED vars
      BY <3>1 DEF vars
    <3>2. CASE \E e \in Endpoints : Prime(e)
      BY <3>2, PrimeEffect DEF Same
    <3>. QED
      BY <2>3, <2>4, <2>5, <2>6, <3>1, <3>2, Zenon DEF Outside
  <2>. QED
    BY <2>1, <2>7 DEF FlushInv
<1>. QED
  BY <1>2, <1>3

(* A host that keeps to the protocol does not bring the driver down.       *)
LEMMA SurvivesStep ==
  ASSUME DriverInv, StageInv, [Next]_vars, ~ Restart, RequestsInv'
  PROVE  Survives'
<1>. USE Fields DEF DriverInv
<1>. SUFFICES ASSUME upset' = {}
              PROVE  dev'.pc \notin {"timeout", "stall", "unwrap"}
  BY DEF Survives, RequestsInv
<1>1. upset = {} /\ dev.pc \notin {"timeout", "stall", "unwrap"}
  BY LiveBefore DEF StageInv, Survives
<1>2. CASE Outside
  BY <1>1, <1>2, OutsideStays
<1>3. CASE dev.pc \in Fatal \cup {"flush"}
  BY <1>2, <1>3, StillSteps, ResetEffect, QuietPlaces
<1>4. CASE dev.pc \notin Fatal \cup {"flush"}
  <2>1. ControlInv /\ BetweenInv /\ MessageInv
    BY <1>1, <1>4 DEF StageInv, Live
  <2>2. CASE Allocating \/ enable
    BY <1>1, <2>2, AllocEffect, SimpleSteps, GoToFacts, PlaceFacts DEF Allocating, Added, Unfit
  <2>3. CASE PollStatus \/ PollSetup \/ TransferFailed \/ ReadSetup \/ SetTripwire \/ CopyFirst
               \/ CopySecond \/ CheckTripwire \/ SetupRead \/ ResetTimeout
    BY <2>3, QuietPlaces
  <2>4. CASE PollComplete
    BY <2>4, PollEffect, GoToFacts, PlaceFacts, AfterCases DEF Reported
  <2>5. CASE AnswerSetup
    <3>1. dev'.pc # "stall"
      BY <1>1, <2>1, <2>5, ControlAnswer
    <3>2. dev'.pc \in {"assert", "oom", "in0", "class", "idle", "stall"}
      BY <2>5, AnswerEffect, GoToFacts, PlaceFacts, AfterCases DEF Kept, Refused
    <3>. QED
      BY <3>1, <3>2
  <2>6. CASE ReadStatus \/ StatusRead \/ StatusTimeout
    <3>1. dev'.pc \notin {"stall", "timeout"}
      BY <2>1, <2>6, ControlStatus
    <3>2. ReadStatus \/ StatusTimeout => dev'.pc # "unwrap"
      BY SimpleSteps, GoToFacts, PlaceFacts
    <3>3. StatusRead => dev'.pc # "unwrap"
      BY StatusEffect, GoToFacts, PlaceFacts, AfterCases DEF Kept
    <3>. QED
      BY <2>6, <3>1, <3>2, <3>3
  <2>7. CASE InComplete0
    BY <2>1, <2>7, ControlIn0
  <2>8. CASE ReadBulk \/ Echo
    <3>1. dev'.pc # "unwrap"
      BY <2>1, <2>8, MessageEcho
    <3>2. dev'.pc \in {"assert", "oom", "unwrap", "echo", "idle"}
      BY <2>8, BulkEffect, EchoEffect, GoToFacts, PlaceFacts DEF Kept, Refused
    <3>. QED
      BY <3>1, <3>2
  <2>9. CASE ResetClear \/ ResetFlush
    BY <2>9, ResetEffect
  <2>. QED
    BY <1>2, <2>2, <2>3, <2>4, <2>5, <2>6, <2>7, <2>8, <2>9, StepCases, Zenon DEF Outside
<1>. QED
  BY <1>3, <1>4

(***************************************************************************)
(* The invariants.                                                         *)
(***************************************************************************)

(* At boot, field by field. *)
LEMMA BootFacts ==
  /\ ~ Boot.hw.setupstat /\ ~ Boot.hw.sutw /\ ~ Boot.hw.uri /\ ~ Boot.hw.address
  /\ Boot.hw.setup = Packet("SET_ADDRESS", 0, FALSE)
  /\ Boot.hw.prime = {} /\ Boot.hw.stat = {} /\ Boot.hw.complete = {}
  /\ Boot.dqh.current = {} /\ Boot.dqh.next = {} /\ Boot.dqh.addr = {}
  /\ Boot.inner.used = {} /\ Boot.inner.size = [e \in Endpoints |-> 64]
  /\ Boot.inner.bufs = [s \in {0, 64, 512} |-> IF s = 0 THEN 0 ELSE 2]
  /\ ~ Boot.inner.setupstat /\ ~ Boot.inner.pre_status_out /\ ~ Boot.inner.status_out
  /\ Boot.dev.pc = "alloc" /\ ~ Boot.dev.seen /\ Boot.dev.control = "idle"
  /\ Boot.dev.report.in = {} /\ Boot.dev.report.out = {}
  /\ Boot.dev.handled = Packet("SET_ADDRESS", 0, FALSE)
  /\ Boot.dev.copy = <<Packet("SET_ADDRESS", 0, FALSE), Packet("SET_ADDRESS", 0, FALSE)>>
  /\ Boot.host.at = "idle" /\ Boot.host.waiting = 0 /\ ~ Boot.host.pr
BY DEF Boot, NoReport

(* At boot nothing is under way. *)
LEMMA InitInv ==
  ASSUME Init
  PROVE  DriverInv /\ StageInv
<1>. USE BootFacts, EndpointFacts DEF Init
<1>1. Types
  BY BootTypes DEF Types
<1>2. QueuesInv /\ ResetInv /\ ReadyInv /\ AssertInv
  BY DEF QueuesInv, ResetInv, ReadyInv, AssertInv
<1>3. BuffersInv
  <2>1. \A s \in {64, 512} : inner.bufs[s] = 2 /\ Takes(OUT1, s) = 0 /\ Takes(IN0, s) = 0
                             /\ Takes(IN1, s) = 0
    BY DEF Takes
  <2>. QED
    BY <2>1 DEF BuffersInv, Blamed
<1>4. ConfiguredInv
  BY DEF ConfiguredInv, Packet
<1>5. CopiesInv /\ RequestsInv /\ ReportInv
  BY DEF CopiesInv, RequestsInv, Excused, Packet, ReportInv, Reading
<1>6. ControlInv
  BY DEF ControlInv, Rest, Asked, InEp0, NoStatus, Reading
<1>7. BetweenInv /\ MessageInv /\ Survives /\ dev.pc # "flush"
  BY DEF BetweenInv, MessageInv, InEp1, Survives
<1>. QED
  BY <1>1, <1>2, <1>3, <1>4, <1>5, <1>6, <1>7 DEF DriverInv, StageInv

(* A restart is a boot. *)
LEMMA RestartStage ==
  ASSUME Restart
  PROVE  StageInv'
<1>. USE BootFacts, EndpointFacts DEF Restart
<1>1. ControlInv'
  BY DEF ControlInv, Rest, Asked, InEp0, NoStatus, Reading
<1>2. BetweenInv' /\ MessageInv' /\ Survives' /\ dev'.pc # "flush"
  BY DEF BetweenInv, MessageInv, InEp1, Survives
<1>. QED
  BY <1>1, <1>2 DEF StageInv

(* Every step preserves the driver's own invariant. *)
LEMMA DriverStep ==
  ASSUME DriverInv, [Next]_vars
  PROVE  DriverInv'
<1>1. Types'
  BY TypesStep DEF DriverInv
<1>2. QueuesInv' /\ ResetInv' /\ ReadyInv' /\ BuffersInv'
  BY <1>1, QueuesStep, ResetStep, ReadyStep, BuffersStep DEF DriverInv
<1>3. ConfiguredInv' /\ AssertInv' /\ CopiesInv' /\ RequestsInv' /\ ReportInv'
  BY <1>1, ConfiguredStep, AssertStep, CopiesStep, RequestsStep, ReportStep DEF DriverInv
<1>. QED
  BY <1>1, <1>2, <1>3 DEF DriverInv

(* The stages follow one another as long as the host keeps to the protocol.*)
LEMMA StageStep ==
  ASSUME DriverInv, StageInv, [Next]_vars
  PROVE  StageInv'
<1>1. CASE Restart
  BY <1>1, RestartStage
<1>2. CASE ~ Restart
  <2>1. Survives'
    BY <1>2, DriverStep, SurvivesStep DEF DriverInv
  <2>2. upset' = {} /\ dev'.pc = "flush" => FlushInv'
    BY <1>2, FlushStep
  <2>3. ASSUME Live'
        PROVE  ControlInv' /\ BetweenInv' /\ MessageInv'
    <3>1. upset = {} /\ upset' = {} /\ dev.pc \notin Fatal
          /\ (dev.pc = "flush" => ResetFlush)
      BY <1>2, <2>3, LiveBefore, QuietPlaces DEF DriverInv, Live, Fatal
    <3>2. CASE dev.pc = "flush"
      <4>1. FlushInv
        BY <3>1, <3>2 DEF StageInv
      <4>2. Types'
        BY TypesStep DEF DriverInv
      <4>. QED
        BY <3>1, <3>2, <4>1, <4>2, AfterFlush
    <3>3. CASE dev.pc # "flush"
      <4>1. Live /\ ControlInv /\ BetweenInv /\ MessageInv
        BY <3>1, <3>3 DEF StageInv, Live
      <4>. QED
        BY <1>2, <2>3, <4>1, ControlStep, BetweenStep, MessageStep
    <3>. QED
      BY <3>2, <3>3
  <2>. QED
    BY <2>1, <2>2, <2>3 DEF StageInv
<1>. QED
  BY <1>1, <1>2

(* The driver's own invariant, and the stages: they hold in every reachable*)
(* state.                                                                  *)
THEOREM Invariance == Spec => [](DriverInv /\ StageInv)
<1>1. Init => DriverInv /\ StageInv
  BY InitInv
<1>2. DriverInv /\ StageInv /\ [Next]_vars => (DriverInv /\ StageInv)'
  BY DriverStep, StageStep
<1>. QED
  BY <1>1, <1>2, PTL DEF Spec

(* The SETUP packet that read returns was received as it is, and the last  *)
(* one is pending or has been returned, unless a bus reset was handled too *)
(* late (bus.rs, read and copy_setup_bytes), whatever the host does.       *)
THEOREM SetupIsDelivered == Spec => []SetupDelivered
<1>1. DriverInv => SetupDelivered
  BY DEF DriverInv, CopiesInv, SetupDelivered
<1>. QED
  BY <1>1, Invariance, PTL

(* No assertion of the driver on its queues and registers fails and no     *)
(* UNREACHABLE place is reached, whatever the host does (bus.rs,           *)
(* start_write, end_write, read).  The driver panics for want of a buffer  *)
(* only if a packet has more than 512 bytes or both endpoints of the class *)
(* are small (the pools of Inner), and over a size (Caps::new) only if it  *)
(* is above 1024.                                                          *)
THEOREM NoneFails == Spec => []NoPanic
<1>1. DriverInv => NoPanic
  BY DEF DriverInv, AssertInv, BuffersInv, Blamed, NoPanic
<1>. QED
  BY <1>1, Invariance, PTL

(* A host that keeps to the protocol, and to the requests and descriptors  *)
(* the driver knows, brings the driver neither to a stall, nor to wait for *)
(* a packet that does not come, nor the class to an error (bus.rs,         *)
(* poll_complete and read).  Whatever else the host does, the board is     *)
(* reset on account of a request (bus.rs:413) only if it made one that the *)
(* driver does not know.                                                   *)
THEOREM HostSurvived == Spec => []Survives
<1>1. StageInv => Survives
  BY DEF StageInv
<1>. QED
  BY <1>1, Invariance, PTL

(* All variables keep their types; a transfer that start_write waits for   *)
(* is in progress or about to be reported, and endpoint 1 is ready for a   *)
(* message once there is an address (bus.rs, end_write, read and           *)
(* set_device_address).                                                    *)
THEOREM AlwaysInStep == Spec => []InStep
<1>1. ASSUME DriverInv
      PROVE  InStep
  <2>1. Types /\ QueuesInv /\ ReadyInv /\ BuffersInv
    BY <1>1 DEF DriverInv
  <2>2. TypeOK
    <3>1. hw \in Hws /\ dqh \in Dqhs /\ inner \in Inners /\ dev \in Devs /\ host \in Hosts
          /\ upset \subseteq Upsets \cup {"stale"}
      BY <2>1 DEF Types
    <3>2. hw \in [setupstat : BOOLEAN, sutw : BOOLEAN, setup : Setups, uri : BOOLEAN,
             prime : SUBSET Endpoints, stat : SUBSET Endpoints, complete : SUBSET Endpoints,
             address : BOOLEAN, ctrl : SUBSET {"RXE", "TXE"}]
      BY <3>1 DEF Hws
    <3>3. /\ dqh.current \subseteq inner.used /\ dqh.next = inner.used \ dqh.current
          /\ dqh.addr \subseteq inner.used /\ dqh.data \in [{OUT1, IN1} -> BOOLEAN]
      BY <2>1, <3>1 DEF QueuesInv, BuffersInv, Dqhs
    <3>4. /\ inner.used \subseteq Endpoints
          /\ inner.size \in [Endpoints -> OutSizes \cup InSizes \cup {64}]
          /\ inner.bufs \in [{0, 64, 512} -> 0 .. 2]
          /\ {inner.setupstat, inner.pre_status_out, inner.status_out} \subseteq BOOLEAN
      BY <3>1 DEF Inners, Sizes
    <3>5. /\ dev.pc \in Places
          /\ dev.control \in {"idle", "data_in", "data_last", "status_out", "status_in"}
          /\ {dev.copy[1], dev.copy[2], dev.handled} \subseteq Setups
      BY <3>1 DEF Devs, Controls
    <3>6. /\ host.at \in {"idle", "data", "status_in", "status_out"}
          /\ host.phase \in {"default", "addressed", "configured"}
          /\ host.waiting \in 0 .. 2 /\ host.bulk \in 0 .. MaxBulk
      BY <3>1 DEF Hosts
    <3>. QED
      BY <3>1, <3>2, <3>3, <3>4, <3>5, <3>6 DEF TypeOK
  <2>3. Of("IN", dqh.current) \subseteq dqh.current
    BY DEF Of
  <2>4. upset \cap {"stale", "slow"} = {} /\ ~ hw.uri =>
          dqh.current \subseteq hw.stat \cup hw.complete
    BY <2>1 DEF ReadyInv
  <2>. QED
    BY <2>1, <2>2, <2>3, <2>4 DEF ReadyInv, InStep
<1>. QED
  BY <1>1, Invariance, PTL

(* The host gets its own message back (examples/usb.rs, poll; bus.rs, read *)
(* and start_write on endpoint 1).                                         *)
THEOREM OwnEcho == Spec => []EchoIsOwn
<1>1. ASSUME DriverInv, StageInv
      PROVE  EchoIsOwn
  <2>. SUFFICES ASSUME Ready(IN1), upset = {}
                PROVE  dqh.data[IN1] = host.message
    BY DEF EchoIsOwn
  <2>1. dev.pc \notin Fatal /\ ~ host.pr /\ IN1 \in hw.stat
    BY DEF Ready, Online
  <2>2. dev.pc # "flush"
    BY <1>1, <2>1 DEF StageInv, FlushInv
  <2>3. MessageInv
    BY <1>1, <2>1, <2>2 DEF StageInv, Live
  <2>. QED
    BY <2>1, <2>3 DEF MessageInv, InEp1, Held, Echoing, Returned
<1>. QED
  BY <1>1, Invariance, PTL

=============================================================================
