----------------------------- MODULE SdpProofs -----------------------------
(***************************************************************************)
(* Proofs about Sdp, for any programs the linker scripts lay out, any size *)
(* of report and any number of runs of the host programs: a run that       *)
(* succeeds has made the board execute its image, unless a report left     *)
(* over from an earlier run misled it, and the program executed lies where *)
(* it was linked.                                                          *)
(***************************************************************************)
EXTENDS Sdp, SequenceTheorems, TLAPS

(***************************************************************************)
(* Images.                                                                 *)
(***************************************************************************)
Names == UNION {{p.from : p \in Pieces(e)} : e \in Elfs}
Entries == UNION {e.start : e \in Elfs}

(* What a cell of an image holds. *)
BootDataCells == {BootDataCell(n) : n \in Nat}
IvtCells == {IvtCell(a, d) : a \in Entries, d \in Nat}
Bytes == {Byte(n, i) : n \in Names, i \in Nat}
Cells == {Zero, DcdCell} \cup BootDataCells \cup IvtCells \cup Bytes

(* An image fit to be jumped to: no DCD is executed again, and the program *)
(* lies where it was linked.                                               *)
Good(e, f) == f \in Seq(Cells) /\ Len(f) > 0 /\ DcdOf(f) = <<>> /\ InPlace(e, f)

Kinds == {"short", "open", "closed", "write_complete", "complete", "error"}
Letters == [kind : Kinds, of : Nat]
Roms == [st : {"ready", "data", "exec", "hung", "running"},
         cmd : {"none"} \cup Commands, by : Nat, got : Seq(Cells), count : Nat]

HostTypes ==
  /\ pc \in {"off", "open", "image", "watch", "flush", "leave", "done", "failed"} \cup Commands
  /\ pc = "jump" => step \in {"command", "status"}
  /\ prog \in {"runner", "load"} /\ cold \in BOOLEAN /\ again \in BOOLEAN /\ stop \in BOOLEAN
  /\ elf \in Elfs /\ file \in Seq(Cells) /\ sent \in 0 .. Len(file)
  /\ tries \in 0 .. MaxTries /\ (pc = "open" => tries < MaxTries) /\ last \in Addresses
  /\ redirect \in {"off", "opening", "loop", "over"}
  /\ session \in 0 .. MaxSessions

BoardTypes ==
  /\ rom \in Roms /\ Len(rom.got) <= rom.count
  /\ mem \in [of : Nat, image : Seq(Cells)]
  /\ reports \in Seq(Letters)
  /\ address \in Addresses /\ output \in 0 .. MaxOutput /\ program \in Nat

(* What is tagged with a run is tagged with one that has begun.            *)
BegunInv ==
  /\ pc # "off" => session > 0
  /\ rom.by <= session /\ mem.of <= session /\ misled \subseteq 1 .. session
  /\ \A i \in 1 .. Len(reports) : reports[i].of <= session
  /\ rom.st \in {"data", "exec"} => rom.by > 0
  /\ mem.of = 0 => mem = NoImage

(* No report waits for this run. *)
Clear == \A i \in 1 .. Len(reports) : reports[i].of # session

(* The image of this run, on its way from the file to the memory.          *)
ImageInv ==
  /\ pc \in {"open", "image"} =>
       /\ sent = 0 /\ rom.by # session /\ mem.of # session /\ Clear
       /\ prog = "load" => Good(elf, file)
  /\ pc \in Commands \/ (rom.by = session /\ session > 0) => Good(elf, file)
  /\ rom.by = session /\ session > 0 /\ rom.st = "exec" /\ rom.cmd = "file" => rom.got = file
  /\ mem.of = session /\ session > 0 => mem.image = file /\ Good(elf, file)
  /\ rom.st = "running" => rom.cmd = "jump" /\ program = mem.of /\ mem.of > 0

DataInv ==
  At("data") =>
    /\ pc # "jump" /\ rom.st = "data" /\ rom.cmd = pc /\ rom.by = session
    /\ rom.got = SubSeq(Data[pc], 1, sent) /\ rom.count = Len(Data[pc]) /\ sent < rom.count

(* The reports of the command under way: short ones, the status, and the   *)
(* response.                                                               *)
Answered ==
  \E m \in 1 .. Len(reports) :
    /\ reports[m].kind \in {"open", "closed"}
    /\ \A i \in 1 .. m - 1 : reports[i].of = session => reports[i].kind = "short"
    /\ IF pc = "jump"
         THEN /\ Len(reports) = m
              /\ reports[m].kind = "open" => program = session /\ rom.st = "running"
         ELSE /\ Len(reports) = m + 1
              /\ pc = "file" /\ reports[m + 1].kind = "complete" => mem.of = session

(* Host and board keep in step, as long as no report misleads the host.    *)
SyncInv ==
  session \notin misled =>
    /\ At("command") => Clear /\ (rom.st = "exec" => rom.by # session /\ pc # "jump")
    /\ At("data") => Clear
    /\ At("status") =>
         \/ rom.st = "exec" /\ rom.by = session /\ rom.cmd = pc /\ Clear
         \/ rom.st # "exec" /\ (Clear \/ Answered)
    /\ At("response") =>
         /\ rom.st # "exec"
         /\ Clear \/ (/\ Len(reports) = 1
                      /\ pc = "file" /\ reports[1].kind = "complete" => mem.of = session)
    /\ pc = "jump" => mem.of = session
    /\ pc \in {"watch", "flush", "leave", "done"} => program = session /\ rom.st # "exec"

(* A jump is to the image of the run that sent it. *)
JumpInv ==
  rom.cmd = "jump" /\ rom.st \in {"exec", "running"} /\ rom.by \notin misled =>
    mem.of = rom.by

SdpInv == HostTypes /\ BoardTypes /\ BegunInv /\ ImageInv /\ DataInv /\ SyncInv /\ JumpInv

LEMMA Memory ==
  /\ DRAM_START \in Nat /\ self_address \in Nat
  /\ Padding \in Nat /\ Reserved \in Nat /\ Reserved >= 3
<1>1. PICK first \in Dram : \A a \in Dram : first =< a
  BY BootImageAssumption
<1>2. \A a \in Dram : a \in Nat
  BY BootImageAssumption
<1>3. DRAM_START = first
  BY <1>1, <1>2 DEF DRAM_START, Min
<1> QED
  BY <1>1, <1>2, <1>3, BootImageAssumption DEF self_address

Origin == self_address + Reserved
EndOf(e) == Max({p.addr + p.size : p \in Pieces(e)})

LEMMA PiecesPlaced ==
  ASSUME NEW e \in Elfs, Convertible(e)
  PROVE  /\ \A p \in Pieces(e) : p.addr \in Nat /\ p.size \in Nat
         /\ Min({p.addr : p \in Pieces(e)}) = Origin
         /\ Origin \in Nat /\ EndOf(e) \in Nat /\ Origin <= EndOf(e)
         /\ \A p \in Pieces(e) : Origin <= p.addr /\ p.addr + p.size <= EndOf(e)
         /\ \A p, q \in Pieces(e) :
              p = q \/ p.addr + p.size =< q.addr \/ q.addr + q.size =< p.addr
<1> DEFINE pieces == Pieces(e)
           starts == {p.addr : p \in pieces}
           ends == {p.addr + p.size : p \in pieces}
<1>1. \A p \in pieces : p.addr \in Nat /\ p.size \in Nat
  BY LinkerAssumption
<1>2. PICK f \in pieces : f.addr = Origin /\ \A q \in pieces : f.addr =< q.addr
  BY LinkerAssumption DEF Origin
<1>3. PICK l \in pieces : \A q \in pieces : q.addr + q.size =< l.addr + l.size
  BY LinkerAssumption
<1>4. \A p, q \in pieces : p = q \/ p.addr + p.size =< q.addr \/ q.addr + q.size =< p.addr
  BY LinkerAssumption
<1> HIDE DEF pieces
<1>5. Min(starts) = f.addr
  <2>1. f.addr \in starts /\ \A y \in starts : f.addr =< y
    BY <1>2
  <2>2. \A y \in starts : y \in Nat
    BY <1>1
  <2> HIDE DEF starts
  <2> QED
    BY <2>1, <2>2 DEF Min
<1>6. Max(ends) = l.addr + l.size
  <2>1. l.addr + l.size \in ends /\ \A y \in ends : y =< l.addr + l.size
    BY <1>3
  <2>2. \A y \in ends : y \in Nat
    BY <1>1
  <2> HIDE DEF ends
  <2> QED
    BY <2>1, <2>2 DEF Max
<1>7. l.addr + l.size \in Nat /\ Origin \in Nat /\ Origin <= l.addr + l.size
  BY <1>1, <1>2
<1>8. EndOf(e) = l.addr + l.size
  BY <1>6 DEF EndOf, pieces
<1> HIDE DEF ends, starts
<1>9. Min({p.addr : p \in Pieces(e)}) = Origin
  BY <1>2, <1>5 DEF starts, pieces
<1> QED
  BY <1>1, <1>2, <1>3, <1>4, <1>7, <1>8, <1>9 DEF pieces

HereAt(pieces, a) == {p \in pieces : Covers(p, a)}

PieceAt(pieces, a) == CHOOSE p \in HereAt(pieces, a) : TRUE

CellAt(pieces, a) ==
  IF HereAt(pieces, a) = {} THEN Zero
  ELSE Byte(PieceAt(pieces, a).from, a - PieceAt(pieces, a).addr)

Laid(pieces, from, to) == [i \in 1 .. to - from |-> CellAt(pieces, from + i - 1)]

LEMMA AppPlaced ==
  ASSUME NEW e \in Elfs, Convertible(e)
  PROVE  /\ App(e) \in Seq(Cells)
         /\ \A p \in Pieces(e) : \A i \in 0 .. p.size - 1 :
              \E k \in 1 .. Len(App(e)) :
                k = p.addr + i - Origin + 1 /\ App(e)[k] = Byte(p.from, i)
<1>1. PICK origin \in Nat : origin = Origin
  BY PiecesPlaced
<1>2. PICK end \in Nat : end = EndOf(e) /\ origin <= end
  BY <1>1, PiecesPlaced
<1>3. PICK n \in Nat : n = end - origin
  BY <1>2
<1>4. PICK pieces : pieces = Pieces(e)
  OBVIOUS
<1>5. \A p \in pieces : /\ p.addr \in Nat /\ p.size \in Nat
                        /\ origin <= p.addr /\ p.addr + p.size <= end
  BY <1>1, <1>2, <1>4, PiecesPlaced
<1>6. \A p, q \in pieces : p = q \/ p.addr + p.size =< q.addr \/ q.addr + q.size =< p.addr
  BY <1>4, PiecesPlaced
<1> DEFINE Here(i) == HereAt(pieces, origin + i - 1)
           Cell(i) == CellAt(pieces, origin + i - 1)
<1>7. App(e) = [i \in 1 .. n |-> Cell(i)]
  <2>1. /\ Min({p.addr : p \in Pieces(e)}) = origin
        /\ Max({p.addr + p.size : p \in Pieces(e)}) = end
    BY <1>1, <1>2, PiecesPlaced DEF EndOf
  <2>2. App(e) = Laid(Pieces(e), Min({p.addr : p \in Pieces(e)}),
                      Max({p.addr + p.size : p \in Pieces(e)}))
    BY DEF App, Laid, CellAt, PieceAt, HereAt
  <2>3. App(e) = Laid(pieces, origin, end)
    BY <1>4, <2>1, <2>2
  <2>4. Laid(pieces, origin, end) = [i \in 1 .. end - origin |-> Cell(i)]
    BY DEF Laid
  <2> HIDE DEF Cell
  <2> QED
    BY <1>3, <2>3, <2>4
<1>8. ASSUME NEW i \in 1 .. n PROVE Cell(i) \in Cells
  <2>1. CASE Here(i) = {}
    BY <2>1 DEF Cells, CellAt
  <2>2. CASE Here(i) # {}
    <3>1. PICK p \in Here(i) : p = PieceAt(pieces, origin + i - 1)
      BY <2>2 DEF PieceAt
    <3>2. PICK j \in Nat : j = origin + i - 1 - p.addr
      <4>1. p \in pieces /\ p.addr <= origin + i - 1
        BY DEF Covers, HereAt
      <4> QED
        BY <1>5, <4>1
    <3>3. p.from \in Names
      BY <1>4 DEF Names, HereAt
    <3>4. Cell(i) = Byte(p.from, j)
      <4>1. PICK a \in Nat : a = origin + i - 1
        OBVIOUS
      <4>2. CellAt(pieces, a) = Byte(p.from, a - p.addr)
        BY <2>2, <3>1, <4>1, Zenon DEF CellAt
      <4>3. p \in pieces
        BY DEF HereAt
      <4>4. j = a - p.addr
        BY <1>5, <3>2, <4>1, <4>3
      <4> QED
        BY <4>1, <4>2, <4>4, Zenon
    <3>5. Byte(p.from, j) \in Bytes
      BY <3>3 DEF Bytes
    <3> HIDE DEF Cell
    <3> QED
      BY <3>4, <3>5 DEF Cells
  <2> QED
    BY <2>1, <2>2
<1>9. App(e) \in Seq(Cells) /\ Len(App(e)) = n
  <2> HIDE DEF Cell
  <2> QED
    BY <1>7, <1>8, IsASeq
<1>10. ASSUME NEW p \in pieces, NEW i \in 0 .. p.size - 1
       PROVE  \E k \in 1 .. n : k = p.addr + i - origin + 1 /\ Cell(k) = Byte(p.from, i)
  <2>1. PICK k \in 1 .. n : k = p.addr + i - origin + 1
    BY <1>2, <1>3, <1>5
  <2>2. origin + k - 1 = p.addr + i /\ p.addr + i - p.addr = i
    BY <1>5, <2>1
  <2>3. p \in Here(k)
    BY <1>5, <2>2 DEF Covers, HereAt
  <2>4. ASSUME NEW q \in Here(k) PROVE q = p
    BY <1>5, <1>6, <2>2 DEF Covers, HereAt
  <2>5. p = PieceAt(pieces, origin + k - 1)
    BY <2>3, <2>4 DEF PieceAt
  <2>6. PICK a \in Nat : a = origin + k - 1 /\ a - p.addr = i
    BY <1>5, <2>2
  <2>7. CellAt(pieces, a) = Byte(p.from, a - p.addr)
    BY <2>3, <2>5, <2>6, Zenon DEF CellAt
  <2> HIDE DEF Cell
  <2>8. Cell(k) = Byte(p.from, i)
    BY <2>6, <2>7 DEF Cell
  <2> QED
    BY <2>1, <2>8
<1> HIDE DEF Cell
<1> QED
  BY <1>1, <1>4, <1>7, <1>9, <1>10

LEMMA IvtCellParts ==
  ASSUME NEW a, NEW d
  PROVE  /\ IvtCell(a, d)[2] = a /\ IvtCell(a, d)[3] = d /\ IvtCell(a, d)[5] = self_address
         /\ [IvtCell(a, d) EXCEPT ![3] = 0] = IvtCell(a, 0)
BY DEF IvtCell

LEMMA FewCells ==
  ASSUME NEW x \in Cells, NEW y \in Cells
  PROVE  /\ <<x, y>> \in Seq(Cells) /\ Len(<<x, y>>) = 2 /\ <<x, y>>[1] = x
         /\ <<x>> \in Seq(Cells) /\ Len(<<x>>) <= 1
         /\ <<>> \in Seq(Cells) /\ Len(<<>>) <= 1
OBVIOUS

LEMMA CellsOn ==
  ASSUME NEW s \in Seq(Cells), NEW t \in Seq(Cells)
  PROVE  /\ s \o t \in Seq(Cells) /\ Len(s \o t) = Len(s) + Len(t)
         /\ Len(s) \in Nat /\ Len(t) \in Nat
         /\ \A i \in 1 .. Len(s) : (s \o t)[i] = s[i]
         /\ \A i \in 1 .. Len(t) : (s \o t)[Len(s) + i] = t[i]
<1>1. /\ s \o t \in Seq(Cells) /\ Len(s \o t) = Len(s) + Len(t)
      /\ \A i \in 1 .. Len(s) + Len(t) : (s \o t)[i] = IF i <= Len(s) THEN s[i] ELSE t[i - Len(s)]
  BY ConcatProperties
<1>2. PICK m \in Nat : m = Len(s)
  BY LenProperties
<1>3. PICK n \in Nat : n = Len(t)
  BY LenProperties
<1>4. ASSUME NEW i \in 1 .. n PROVE (s \o t)[m + i] = t[i]
  <2>1. m + i \in 1 .. m + n /\ ~ (m + i <= m) /\ m + i - m = i
    OBVIOUS
  <2> QED
    BY <1>1, <1>2, <1>3, <2>1
<1> QED
  BY <1>1, <1>2, <1>3, <1>4

Assembled(entry, ptr, len, dcd, app) ==
  <<IvtCell(entry, ptr), BootDataCell(len)>> \o dcd \o Zeros(Reserved - (1 + 1 + Len(dcd))) \o app

HasParts(f, a, ptr, app) ==
  /\ f \in Seq(Cells) /\ Len(f) = Reserved + Len(app) /\ f[1] = IvtCell(a, ptr)
  /\ \A k \in 1 .. Len(app) : f[Reserved + k] = app[k]

LEMMA AssembledParts ==
  ASSUME NEW a \in Entries, NEW ptr \in Nat, NEW len \in Nat, NEW d \in Seq(Cells),
         NEW app \in Seq(Cells), Len(d) <= 1
  PROVE  HasParts(Assembled(a, ptr, len, d, app), a, ptr, app)
<1>1. PICK x \in Cells : x = IvtCell(a, ptr)
  <2>1. IvtCell(a, ptr) \in IvtCells
    BY DEF IvtCells
  <2> QED
    BY <2>1 DEF Cells
<1>2. PICK y \in Cells : y = BootDataCell(len)
  <2>1. BootDataCell(len) \in BootDataCells
    BY DEF BootDataCells
  <2> QED
    BY <2>1 DEF Cells
<1>3. PICK h \in Seq(Cells) : h = <<x, y>> /\ Len(h) = 2 /\ h[1] = x
  BY FewCells
<1>4. Len(d) \in Nat /\ Len(app) \in Nat
  BY LenProperties
<1>5. PICK n \in Nat : n = Reserved - (1 + 1 + Len(d)) /\ 2 + Len(d) + n = Reserved
  <2>1. PICK m \in Nat : m = Len(d) /\ m <= 1
    BY <1>4
  <2>2. Reserved \in Nat /\ Reserved >= 3
    BY Memory
  <2>3. Reserved - (1 + 1 + m) \in Nat /\ 2 + m + (Reserved - (1 + 1 + m)) = Reserved
    BY <2>1, <2>2
  <2> QED
    BY <2>1, <2>3
<1>6. PICK z \in Seq(Cells) : z = Zeros(n) /\ Len(z) = n
  <2>1. Zero \in Cells
    BY DEF Cells
  <2>2. Zeros(n) \in Seq(Cells) /\ Len(Zeros(n)) = n
    BY <2>1, IsASeq DEF Zeros
  <2> QED
    BY <2>2
<1>7. PICK f : f = h \o d \o z \o app /\ f = Assembled(a, ptr, len, d, app)
  BY <1>1, <1>2, <1>3, <1>5, <1>6 DEF Assembled
<1>8. PICK hd \in Seq(Cells) : hd = h \o d /\ Len(hd) = 2 + Len(d) /\ hd[1] = x
  <2>1. h \o d \in Seq(Cells) /\ Len(h \o d) = Len(h) + Len(d)
        /\ \A i \in 1 .. Len(h) : (h \o d)[i] = h[i]
    BY CellsOn
  <2>2. 1 \in 1 .. Len(h)
    BY <1>3
  <2> QED
    BY <1>3, <2>1, <2>2
<1>9. PICK hdz \in Seq(Cells) : hdz = hd \o z /\ Len(hdz) = Reserved /\ hdz[1] = x
  <2>1. 1 \in 1 .. Len(hd)
    BY <1>4, <1>8
  <2>2. hd \o z \in Seq(Cells) /\ Len(hd \o z) = Len(hd) + Len(z)
        /\ \A i \in 1 .. Len(hd) : (hd \o z)[i] = hd[i]
    BY CellsOn
  <2> QED
    BY <1>4, <1>5, <1>6, <1>8, <2>1, <2>2
<1>10. /\ f = hdz \o app /\ f \in Seq(Cells) /\ Len(f) = Reserved + Len(app)
       /\ f[1] = x /\ \A k \in 1 .. Len(app) : f[Reserved + k] = app[k]
  <2>1. 1 \in 1 .. Len(hdz)
    BY <1>9, Memory
  <2>2. f = hdz \o app
    BY <1>7, <1>8, <1>9
  <2> QED
    BY <1>9, <2>1, <2>2, CellsOn
<1> QED
  BY <1>1, <1>7, <1>10 DEF HasParts

LEMMA ImageParts ==
  ASSUME NEW e \in Elfs, Convertible(e), NEW skip \in BOOLEAN
  PROVE  /\ ImageOf(e, skip) \in Seq(Cells)
         /\ Len(ImageOf(e, skip)) = Reserved + Len(App(e)) /\ Len(App(e)) \in Nat
         /\ \E a \in e.start :
              ImageOf(e, skip)[1] = IvtCell(a, IF skip THEN 0 ELSE self_address + 1 + 1)
         /\ \A k \in 1 .. Len(App(e)) : ImageOf(e, skip)[Reserved + k] = App(e)[k]
<1>1. PICK app \in Seq(Cells) : app = App(e)
  BY AppPlaced
<1>2. PICK a \in e.start : a = CHOOSE x \in e.start : TRUE
  BY DEF Convertible
<1>3. PICK ptr \in Nat : ptr = IF skip THEN 0 ELSE self_address + 1 + 1
  BY Memory
<1>4. PICK len \in Nat : len = Padding + Reserved + Len(app)
  BY Memory, LenProperties
<1>5. PICK d \in Seq(Cells) : d = (IF skip THEN <<>> ELSE <<DcdCell>>) /\ Len(d) <= 1
  <2>1. DcdCell \in Cells
    BY DEF Cells
  <2>2. <<>> \in Seq(Cells) /\ Len(<<>>) <= 1 /\ <<DcdCell>> \in Seq(Cells) /\ Len(<<DcdCell>>) <= 1
    BY <2>1, FewCells, Zenon
  <2>3. PICK d : d = IF skip THEN <<>> ELSE <<DcdCell>>
    OBVIOUS
  <2>4. d = <<>> \/ d = <<DcdCell>>
    BY <2>3, Zenon
  <2>5. d \in Seq(Cells) /\ Len(d) <= 1
    BY <2>2, <2>4, Zenon
  <2> QED
    BY <2>3, <2>5, Zenon
<1>6. ImageOf(e, skip) =
        Assembled(CHOOSE x \in e.start : TRUE, IF skip THEN 0 ELSE self_address + 1 + 1,
                  Padding + Reserved + Len(App(e)), IF skip THEN <<>> ELSE <<DcdCell>>, App(e))
  BY DEF ImageOf, Assembled, IvtSize, BootDataSize
<1>7. ImageOf(e, skip) = Assembled(a, ptr, len, d, app)
  BY <1>1, <1>2, <1>3, <1>4, <1>5, <1>6
<1>8. a \in Entries
  BY DEF Entries
<1>9. HasParts(Assembled(a, ptr, len, d, app), a, ptr, app)
  BY <1>5, <1>8, AssembledParts
<1>10. Len(app) \in Nat
  BY LenProperties
<1>11. HasParts(ImageOf(e, skip), a, ptr, app)
  BY <1>7, <1>9
<1> QED
  BY <1>1, <1>3, <1>10, <1>11 DEF HasParts

(* An image whose headers point to _start and to no DCD is fit.            *)
LEMMA FitImage ==
  ASSUME NEW e \in Elfs, Convertible(e), NEW f \in Seq(Cells), NEW a \in e.start,
         Len(f) = Reserved + Len(App(e)), f[1] = IvtCell(a, 0),
         \A k \in 1 .. Len(App(e)) : f[Reserved + k] = App(e)[k]
  PROVE  Good(e, f)
<1>1. IvtOf(f).entry = a /\ IvtOf(f).dcd = 0 /\ IvtOf(f).self = self_address
  BY IvtCellParts DEF IvtOf
<1>2. DcdOf(f) = <<>>
  BY <1>1 DEF DcdOf
<1>3. PICK n \in Nat : n = Len(App(e))
  BY AppPlaced, LenProperties
<1>4. ASSUME NEW p \in Pieces(e), NEW i \in 0 .. p.size - 1
      PROVE  LET k == p.addr + i - self_address + 1 IN
               k \in 1 .. Len(f) /\ f[k] = Byte(p.from, i)
  <2>1. PICK k \in 1 .. n : k = p.addr + i - Origin + 1 /\ App(e)[k] = Byte(p.from, i)
    BY <1>3, AppPlaced
  <2>2. p.addr \in Nat /\ i \in Nat
    <3>1. p.addr \in Nat /\ p.size \in Nat
      BY LinkerAssumption
    <3> QED
      BY <3>1
  <2>3. p.addr + i - self_address + 1 = Reserved + k
    BY <2>1, <2>2, Memory DEF Origin
  <2>4. Reserved + k \in 1 .. Len(f)
    BY <1>3, Memory
  <2>5. f[Reserved + k] = Byte(p.from, i)
    BY <1>3, <2>1
  <2> QED
    BY <2>3, <2>4, <2>5
<1>5. InPlace(e, f)
  BY <1>1, <1>4 DEF InPlace
<1> QED
  BY <1>2, <1>3, <1>5, Memory DEF Good

(* What either program sends is fit, as usd-load clears the pointer to a   *)
(* DCD it sends apart.                                                     *)
LEMMA RunnerImage ==
  ASSUME NEW e \in Elfs, Convertible(e)
  PROVE  Good(e, ImageOf(e, TRUE))
<1>1. PICK f : f = ImageOf(e, TRUE)
  OBVIOUS
<1>2. /\ f \in Seq(Cells) /\ Len(f) = Reserved + Len(App(e))
      /\ \A k \in 1 .. Len(App(e)) : f[Reserved + k] = App(e)[k]
  BY <1>1, ImageParts
<1>3. PICK a \in e.start : f[1] = IvtCell(a, 0)
  BY <1>1, ImageParts
<1> QED
  BY <1>1, <1>2, <1>3, FitImage

LEMMA LoadImage ==
  ASSUME NEW e \in Elfs, Convertible(e)
  PROVE  /\ DcdOf(ImageOf(e, FALSE)) # <<>>
         /\ Good(e, ClearDcd(ImageOf(e, FALSE)))
<1>1. PICK f : f = ImageOf(e, FALSE)
  OBVIOUS
<1>2. /\ f \in Seq(Cells) /\ Len(f) = Reserved + Len(App(e)) /\ Len(App(e)) \in Nat
      /\ \A k \in 1 .. Len(App(e)) : f[Reserved + k] = App(e)[k]
  BY <1>1, ImageParts
<1>3. PICK a \in e.start : f[1] = IvtCell(a, self_address + 1 + 1)
  BY <1>1, ImageParts
<1>4. DcdOf(f) # <<>>
  BY <1>3, IvtCellParts, Memory DEF DcdOf, IvtOf
<1>5. PICK g : g = ClearDcd(f)
  OBVIOUS
<1>6. g = [f EXCEPT ![1] = IvtCell(a, 0)]
  <2>1. g = [f EXCEPT ![1] = [f[1] EXCEPT ![3] = 0]]
    BY <1>5 DEF ClearDcd
  <2>2. [IvtCell(a, self_address + 1 + 1) EXCEPT ![3] = 0] = IvtCell(a, 0)
    BY IvtCellParts
  <2>3. [f[1] EXCEPT ![3] = 0] = IvtCell(a, 0)
    BY <1>3, <2>2, Zenon
  <2> QED
    BY <2>1, <2>3, Zenon
<1>7. IvtCell(a, 0) \in Cells
  <2>1. IvtCell(a, 0) \in IvtCells
    BY DEF IvtCells, Entries
  <2> QED
    BY <2>1 DEF Cells
<1>8. /\ g \in Seq(Cells) /\ Len(g) = Len(f)
      /\ \A j \in 1 .. Len(f) : g[j] = IF j = 1 THEN IvtCell(a, 0) ELSE f[j]
  <2>1. 1 \in 1 .. Len(f)
    BY <1>2, Memory
  <2> QED
    BY <1>2, <1>6, <1>7, <2>1, ExceptSeq
<1>9. g[1] = IvtCell(a, 0) /\ \A k \in 1 .. Len(App(e)) : g[Reserved + k] = App(e)[k]
  BY <1>2, <1>8, Memory
<1> QED
  BY <1>1, <1>2, <1>4, <1>5, <1>8, <1>9, FitImage

-----------------------------------------------------------------------------
(* The records and sequences of the state. *)

LEMMA LettersOn ==
  ASSUME NEW s \in Seq(Letters), NEW t \in Seq(Letters)
  PROVE  /\ s \o t \in Seq(Letters) /\ Len(s \o t) = Len(s) + Len(t)
         /\ Len(s) \in Nat /\ Len(t) \in Nat
         /\ \A i \in 1 .. Len(s) : (s \o t)[i] = s[i]
         /\ \A i \in 1 .. Len(t) : (s \o t)[Len(s) + i] = t[i]
<1>1. /\ s \o t \in Seq(Letters) /\ Len(s \o t) = Len(s) + Len(t)
      /\ \A i \in 1 .. Len(s) + Len(t) : (s \o t)[i] = IF i <= Len(s) THEN s[i] ELSE t[i - Len(s)]
  BY ConcatProperties
<1>2. PICK m \in Nat : m = Len(s)
  BY LenProperties
<1>3. PICK n \in Nat : n = Len(t)
  BY LenProperties
<1>4. ASSUME NEW i \in 1 .. n PROVE (s \o t)[m + i] = t[i]
  <2>1. m + i \in 1 .. m + n /\ ~ (m + i <= m) /\ m + i - m = i
    OBVIOUS
  <2> QED
    BY <1>1, <1>2, <1>3, <2>1
<1> QED
  BY <1>1, <1>2, <1>3, <1>4

LEMMA FewLetters ==
  ASSUME NEW x \in Letters
  PROVE  /\ <<>> \in Seq(Letters) /\ Len(<<>>) = 0
         /\ <<x>> \in Seq(Letters) /\ Len(<<x>>) = 1 /\ <<x>>[1] = x
         /\ <<x, x>> \in Seq(Letters) /\ Len(<<x, x>>) = 2
         /\ \A i \in 1 .. 2 : <<x, x>>[i] = x
OBVIOUS

(* The answers to a command follow what is in the queue.                   *)
LEMMA AnswersFollow ==
  ASSUME BoardTypes, NEW rest \in Seq(Letters), Answers(rest)
  PROVE  /\ reports' \in Seq(Letters)
         /\ \E m \in 1 .. Len(reports') :
              /\ Len(reports) < m /\ Len(reports') = m + Len(rest)
              /\ reports'[m] = Report(Status)
              /\ \A i \in 1 .. m - 1 : \/ i \in 1 .. Len(reports) /\ reports'[i] = reports[i]
                                       \/ reports'[i] = Report("short")
              /\ \A i \in 1 .. Len(rest) : reports'[m + i] = rest[i]
<1>1. /\ reports \in Seq(Letters) /\ rom.by \in Nat
      /\ Report("short") \in Letters /\ Report(Status) \in Letters
  BY DEF BoardTypes, Roms, Report, Status, Letters, Kinds
<1>2. PICK short \in Seq(Letters) :
        /\ reports' = reports \o short \o <<Report(Status)>> \o rest
        /\ Len(short) \in Nat
        /\ \A i \in 1 .. Len(short) : short[i] = Report("short")
  <2>1. PICK short \in {<<>>, <<Report("short")>>, <<Report("short"), Report("short")>>} :
          reports' = reports \o short \o <<Report(Status)>> \o rest
    BY DEF Answers
  <2>2. /\ short \in Seq(Letters) /\ Len(short) \in Nat
        /\ \A i \in 1 .. Len(short) : short[i] = Report("short")
    <3>1. PICK x \in Letters : x = Report("short")
      BY <1>1
    <3>2. CASE short = <<>>
      BY <3>2, FewLetters
    <3>3. CASE short = <<x>>
      <4>1. short \in Seq(Letters) /\ Len(short) = 1 /\ short[1] = x
        BY <3>3, FewLetters
      <4> QED
        BY <3>1, <4>1
    <3>4. CASE short = <<x, x>>
      <4>1. short \in Seq(Letters) /\ Len(short) = 2 /\ \A i \in 1 .. 2 : short[i] = x
        BY <3>4, FewLetters
      <4> QED
        BY <3>1, <4>1
    <3> QED
      BY <2>1, <3>1, <3>2, <3>3, <3>4
  <2> QED
    BY <2>1, <2>2
<1>3. PICK status \in Seq(Letters) :
        status = <<Report(Status)>> /\ Len(status) = 1 /\ status[1] = Report(Status)
  BY <1>1, FewLetters
<1>4. PICK a \in Seq(Letters) : a = reports \o short
  BY <1>1, <1>2, LettersOn
<1>5. PICK b \in Seq(Letters) : b = a \o status
  BY <1>4, LettersOn
<1>6. PICK n \in Nat : n = Len(reports)
  BY <1>1, LenProperties
<1>7. PICK k \in Nat : k = Len(short)
  BY <1>2
<1>8. /\ Len(a) = n + k /\ \A i \in 1 .. n : a[i] = reports[i]
      /\ \A i \in 1 .. k : a[n + i] = Report("short")
  BY <1>1, <1>2, <1>4, <1>6, <1>7, LettersOn
<1>9. /\ Len(b) = n + k + 1 /\ \A i \in 1 .. n + k : b[i] = a[i]
      /\ b[n + k + 1] = Report(Status)
  <2>1. /\ Len(b) = Len(a) + Len(status) /\ \A i \in 1 .. Len(a) : b[i] = a[i]
        /\ \A i \in 1 .. Len(status) : b[Len(a) + i] = status[i]
    BY <1>5, LettersOn
  <2>2. 1 \in 1 .. Len(status)
    BY <1>3
  <2> QED
    BY <1>3, <1>8, <2>1, <2>2
<1>10. reports' = b \o rest
  BY <1>2, <1>3, <1>4, <1>5
<1>11. PICK m \in Nat : m = n + k + 1
  OBVIOUS
<1>12. /\ reports' \in Seq(Letters) /\ Len(reports') = m + Len(rest) /\ Len(rest) \in Nat
       /\ \A i \in 1 .. m : reports'[i] = b[i]
       /\ \A i \in 1 .. Len(rest) : reports'[m + i] = rest[i]
  <2>1. /\ b \o rest \in Seq(Letters) /\ Len(b \o rest) = Len(b) + Len(rest) /\ Len(rest) \in Nat
        /\ \A i \in 1 .. Len(b) : (b \o rest)[i] = b[i]
        /\ \A i \in 1 .. Len(rest) : (b \o rest)[Len(b) + i] = rest[i]
    BY LettersOn
  <2> QED
    BY <1>9, <1>10, <1>11, <2>1
<1>13. ASSUME NEW i \in 1 .. m - 1
       PROVE  \/ i \in 1 .. n /\ reports'[i] = reports[i]
              \/ reports'[i] = Report("short")
  <2>1. i \in 1 .. m /\ i \in 1 .. n + k
    BY <1>11
  <2>2. reports'[i] = a[i]
    BY <1>9, <1>12, <2>1
  <2>3. CASE i <= n
    BY <1>8, <2>2, <2>3
  <2>4. CASE ~ (i <= n)
    <3>1. PICK j \in 1 .. k : n + j = i
      BY <2>1, <2>4
    <3> QED
      BY <1>8, <2>2, <3>1
  <2> QED
    BY <2>3, <2>4
<1>14. m \in 1 .. Len(reports') /\ n < m /\ m \in 1 .. m
  BY <1>11, <1>12
<1>15. reports'[m] = Report(Status)
  BY <1>9, <1>11, <1>12, <1>14
<1> QED
  BY <1>6, <1>12, <1>13, <1>14, <1>15

LEMMA TakeFirst ==
  ASSUME BoardTypes, reports # <<>>, reports' = Tail(reports)
  PROVE  /\ reports' \in Seq(Letters) /\ Len(reports') \in Nat /\ Len(reports) = Len(reports') + 1
         /\ \A i \in 1 .. Len(reports') : reports'[i] = reports[i + 1]
         /\ Head(reports) = reports[1] /\ reports[1] \in Letters
         /\ \A i \in 1 .. Len(reports) : reports[i] \in Letters
BY HeadTailProperties, ElementOfSeq DEF BoardTypes

LEMMA NoCells == <<>> \in Seq(Cells) /\ Len(<<>>) = 0
OBVIOUS

LEMMA NoLetters ==
  /\ <<>> \in Seq(Letters) /\ Len(<<>>) = 0
OBVIOUS

-----------------------------------------------------------------------------
(* Each action keeps the invariant. *)

LEMMA SdpInit == Init => SdpInv
<1> SUFFICES ASSUME Init PROVE SdpInv
  OBVIOUS
<1>1. BoardTypes
  BY SdpAssumption, NoLetters DEF Init, BoardTypes, Roms, Reset, NoImage, Commands
<1>2. HostTypes
  <2>1. file \in Seq(Cells) /\ Len(file) = 0
    BY NoCells DEF Init
  <2>2. /\ pc = "off" /\ prog = "load" /\ elf \in Elfs /\ cold = FALSE /\ tries = 0 /\ sent = 0
        /\ again = FALSE /\ stop = FALSE /\ redirect = "off" /\ session = 0 /\ last \in Addresses
    BY DEF Init
  <2>3. tries \in 0 .. MaxTries /\ sent \in 0 .. Len(file) /\ session \in 0 .. MaxSessions
    BY <2>1, <2>2, SdpAssumption DEF MaxTries
  <2>4. cold \in BOOLEAN /\ again \in BOOLEAN /\ stop \in BOOLEAN
    BY <2>2
  <2> QED
    BY <2>1, <2>2, <2>3, <2>4, Zenon DEF HostTypes
<1>3. Len(reports) = 0
  BY NoLetters DEF Init
<1> QED
  BY <1>1, <1>2, <1>3 DEF Init, SdpInv, BegunInv, ImageInv, DataInv, SyncInv, JumpInv, At,
     Commands, Reset, NoImage

After == {"watch", "flush", "leave", "done"}

(* Steps of the host that only move `main` on, fail, or are of the thread. *)
LEMMA MoveKeeps ==
  ASSUME SdpInv, HostTypes', UNCHANGED <<boardVars, file, elf, prog, sent, session, misled>>,
         pc' \in {"open", "image"} => pc \in {"open", "image"},
         pc' \in Commands => pc' = pc /\ step' = step,
         pc' \in After => pc \in After,
         pc = "off" => pc' = "off"
  PROVE  SdpInv'
<1>1. /\ UNCHANGED <<rom, mem, reports, program, address, output, open, ddr>>
      /\ UNCHANGED <<file, elf, prog, sent, session, misled>>
  BY DEF boardVars
<1>2. BoardTypes'
  BY <1>1 DEF SdpInv, BoardTypes
<1>3. BegunInv'
  BY <1>1 DEF SdpInv, BegunInv
<1>4. Clear' = Clear /\ Data' = Data
  BY <1>1 DEF Clear, Data
<1>5. ImageInv'
  BY <1>1, <1>4 DEF SdpInv, ImageInv
<1>6. At("command")' => At("command")
  BY DEF At
<1>7. At("data")' => At("data") /\ pc' = pc
  BY DEF At
<1>8. At("status")' => At("status") /\ pc' = pc
  BY DEF At
<1>9. At("response")' => At("response") /\ pc' = pc
  BY DEF At
<1>10. DataInv'
  BY <1>1, <1>4, <1>7 DEF SdpInv, DataInv
<1>11. pc' = pc => Answered' = Answered
  BY <1>1 DEF Answered
<1>12. SyncInv'
  <2>1. SUFFICES ASSUME session \notin misled PROVE SyncInv'
    BY <1>1 DEF SyncInv
  <2>2. At("command")' => Clear' /\ (rom'.st = "exec" => rom'.by # session' /\ pc' # "jump")
    BY <1>1, <1>4, <1>6, <2>1 DEF SdpInv, SyncInv, At
  <2>3. At("data")' => Clear'
    BY <1>1, <1>4, <1>7, <2>1 DEF SdpInv, SyncInv
  <2>4. At("status")' => \/ rom'.st = "exec" /\ rom'.by = session' /\ rom'.cmd = pc' /\ Clear'
                         \/ rom'.st # "exec" /\ (Clear' \/ Answered')
    BY <1>1, <1>4, <1>8, <1>11, <2>1 DEF SdpInv, SyncInv
  <2>5. At("response")' =>
         /\ rom'.st # "exec"
         /\ Clear' \/ (/\ Len(reports') = 1
                       /\ pc' = "file" /\ reports'[1].kind = "complete" => mem'.of = session')
    BY <1>1, <1>4, <1>9, <2>1 DEF SdpInv, SyncInv
  <2>6. /\ pc' = "jump" => mem'.of = session'
        /\ pc' \in {"watch", "flush", "leave", "done"} => program' = session' /\ rom'.st # "exec"
    BY <1>1, <2>1 DEF SdpInv, SyncInv, After, Commands
  <2> QED
    BY <2>2, <2>3, <2>4, <2>5, <2>6 DEF SyncInv
<1>13. JumpInv'
  BY <1>1 DEF SdpInv, JumpInv
<1> QED
  BY <1>2, <1>3, <1>5, <1>10, <1>12, <1>13 DEF SdpInv

LEMMA MoveSteps ==
  ASSUME SdpInv,
         Open \/ Unanswered \/ ReadTimeout \/ Watch \/ Stop \/ Leave \/ RedirectOpen \/ RedirectEnds
  PROVE  SdpInv'
<1>1. HostTypes
  BY DEF SdpInv
<1>2. CASE Open
  <2>1. HostTypes' /\ pc = "open" /\ pc' \in {"open", "image", "failed"}
        /\ UNCHANGED <<boardVars, file, elf, prog, sent, session, misled>>
    <3>1. address \in Addresses
      BY DEF SdpInv, BoardTypes
    <3>2. /\ pc = "open" /\ pc' \in {"open", "image", "failed"} /\ tries' \in 0 .. MaxTries
          /\ (pc' = "open" => tries' < MaxTries)
          /\ redirect' \in {"off", "opening", "loop", "over"} /\ last' \in Addresses
      <4>1. tries \in 0 .. MaxTries /\ tries + 1 \in Nat
        BY <1>1 DEF HostTypes, MaxTries
      <4>2. CASE /\ last' = address /\ pc' = "image" /\ tries' = tries
                 /\ redirect' = IF prog = "runner" THEN "opening" ELSE "off"
        <5>1. redirect' \in {"opening", "off"}
          BY <4>2
        <5> QED
          BY <1>2, <3>1, <4>1, <4>2, <5>1 DEF Open
      <4>3. CASE tries' = tries + 1 /\ last' = last
        <5>1. /\ pc' \in {pc, "failed"} /\ redirect' \in {redirect, "off"}
              /\ pc = "open"
          BY <1>2, <4>3 DEF Open, Exit
        <5>2. redirect \in {"off", "opening", "loop", "over"} /\ last \in Addresses
          BY <1>1 DEF HostTypes
        <5>3. tries' \in 0 .. MaxTries /\ (pc' = "open" => tries' < MaxTries)
          <6>1. tries \in 0 .. MaxTries /\ tries < MaxTries /\ MaxTries = 3
            BY <1>1, <5>1 DEF HostTypes, MaxTries
          <6>2. tries' = tries + 1 /\ (tries' = MaxTries => pc' = "failed")
            BY <1>2, <4>3, <6>1 DEF Open, Exit
          <6> QED
            BY <6>1, <6>2
        <5> QED
          BY <4>3, <5>1, <5>2, <5>3
      <4>4. CASE Exit("failed") /\ UNCHANGED <<tries, last>>
        BY <1>1, <1>2, <4>1, <4>4 DEF Open, Exit, HostTypes
      <4> QED
        BY <1>2, <4>2, <4>3, <4>4 DEF Open
    <3>3. UNCHANGED <<prog, elf, file, cold, sent, again, stop, session, misled, boardVars>>
      BY <1>2 DEF Open
    <3> QED
      BY <1>1, <3>2, <3>3 DEF HostTypes, Commands
  <2> QED
    BY <2>1, MoveKeeps DEF Commands, After
<1>3. CASE Unanswered \/ ReadTimeout
  <2>1. /\ pc \in Commands /\ pc' = "failed" /\ step' = "none" /\ redirect' = "off"
        /\ UNCHANGED <<prog, elf, file, cold, tries, sent, last, again, stop, session, misled>>
        /\ UNCHANGED boardVars
    BY <1>3 DEF Unanswered, ReadTimeout, WriteFails, Exit, At
  <2>2. HostTypes'
    BY <1>1, <2>1 DEF HostTypes, Commands
  <2> QED
    BY <2>1, <2>2, MoveKeeps DEF Commands, After
<1>4. CASE Watch \/ Stop \/ Leave
  <2>1. /\ pc \in After /\ pc' \in After /\ redirect' \in {redirect, "off"} /\ stop' \in {stop, TRUE}
        /\ UNCHANGED <<prog, elf, file, cold, tries, sent, last, again, session, misled>>
        /\ UNCHANGED boardVars
    <3>1. CASE Watch
      BY <3>1 DEF Watch, After
    <3>2. CASE Stop
      BY <3>2 DEF Stop, After
    <3>3. CASE Leave
      BY <3>3 DEF Leave, Exit, After
    <3> QED
      BY <1>4, <3>1, <3>2, <3>3, Zenon
  <2>2. HostTypes'
    BY <1>1, <2>1 DEF HostTypes, Commands, After
  <2> QED
    BY <2>1, <2>2, MoveKeeps DEF Commands, After
<1>5. CASE RedirectOpen \/ RedirectEnds
  <2>1. /\ redirect' \in {"loop", "over"}
        /\ UNCHANGED <<pc, step, prog, elf, file, cold, tries, sent, last, again, stop, session, misled>>
        /\ UNCHANGED boardVars
    BY <1>5 DEF RedirectOpen, RedirectEnds
  <2>2. HostTypes'
    BY <1>1, <2>1 DEF HostTypes
  <2> QED
    BY <2>1, <2>2, MoveKeeps
<1> QED
  BY <1>2, <1>3, <1>4, <1>5

LEMMA StartKeeps ==
  ASSUME SdpInv, NEW e \in Elfs, Start(e)
  PROVE  SdpInv'
<1>1. /\ pc \in Ended /\ session < MaxSessions /\ pc' = "open" /\ elf' = e /\ session' = session + 1
      /\ tries' = 0 /\ sent' = 0 /\ again' = FALSE /\ stop' = FALSE
      /\ UNCHANGED <<step, last, redirect, misled>>
      /\ UNCHANGED <<rom, mem, reports, program, address, output>>
  BY DEF Start, boardVars
<1>2. session \in Nat /\ session' \in 0 .. MaxSessions /\ session' > 0
  BY <1>1, SdpAssumption DEF SdpInv, HostTypes
<1>3. /\ file' \in Seq(Cells) /\ cold' \in BOOLEAN /\ prog' \in {"runner", "load"}
      /\ prog' = "load" => Good(e, file')
  <2>1. CASE StartLoad(e)
    <3>1. PICK image : image = ImageOf(e, FALSE)
      OBVIOUS
    <3>2. Convertible(e) /\ prog' = "load" /\ cold' = (DcdOf(image) # <<>>)
          /\ file' = IF cold' THEN ClearDcd(image) ELSE image
      BY <2>1, <3>1 DEF StartLoad
    <3>3. DcdOf(image) # <<>> /\ Good(e, ClearDcd(image))
      BY <3>1, <3>2, LoadImage
    <3>4. file' = ClearDcd(image) /\ cold' = TRUE
      BY <3>2, <3>3
    <3> QED
      BY <3>2, <3>3, <3>4 DEF Good
  <2>2. CASE StartRunner
    BY <2>2, NoCells DEF StartRunner
  <2> QED
    BY <1>1, <2>1, <2>2 DEF Start
<1>4. HostTypes'
  <2>1. sent' \in 0 .. Len(file') /\ tries' \in 0 .. MaxTries /\ tries' < MaxTries
    BY <1>1, <1>3, LenProperties DEF MaxTries
  <2>2. last' \in Addresses /\ redirect' \in {"off", "opening", "loop", "over"}
        /\ again' \in BOOLEAN /\ stop' \in BOOLEAN /\ elf' \in Elfs
    BY <1>1 DEF SdpInv, HostTypes
  <2> QED
    BY <1>1, <1>2, <1>3, <2>1, <2>2, Zenon DEF HostTypes
<1>5. BoardTypes'
  BY <1>1 DEF SdpInv, BoardTypes
<1>6. /\ rom.by \in Nat /\ rom.by <= session /\ mem.of \in Nat /\ mem.of <= session
      /\ \A i \in 1 .. Len(reports) : reports[i].of \in Nat /\ reports[i].of <= session
  <2>1. rom.by \in Nat /\ mem.of \in Nat /\ reports \in Seq(Letters)
    BY DEF SdpInv, BoardTypes, Roms
  <2>2. \A i \in 1 .. Len(reports) : reports[i] \in Letters
    BY <2>1, ElementOfSeq
  <2> QED
    BY <2>1, <2>2 DEF SdpInv, BegunInv, Letters
<1>7. BegunInv'
  <2>1. misled \subseteq 1 .. session'
    BY <1>1, <1>2 DEF SdpInv, BegunInv
  <2>2. \A i \in 1 .. Len(reports) : reports[i].of <= session'
    BY <1>1, <1>2, <1>6
  <2>3. rom.by <= session' /\ mem.of <= session'
    BY <1>1, <1>2, <1>6
  <2>4. (rom.st \in {"data", "exec"} => rom.by > 0) /\ (mem.of = 0 => mem = NoImage)
    BY DEF SdpInv, BegunInv
  <2> QED
    BY <1>1, <1>2, <2>1, <2>2, <2>3, <2>4 DEF BegunInv
<1>8. rom.by # session' /\ mem.of # session' /\ Clear'
  BY <1>1, <1>2, <1>6 DEF Clear
<1>9. ImageInv'
  BY <1>1, <1>3, <1>8 DEF SdpInv, ImageInv, Commands
<1>10. DataInv' /\ SyncInv'
  BY <1>1 DEF DataInv, SyncInv, At, Commands
<1>11. JumpInv'
  BY <1>1 DEF SdpInv, JumpInv
<1> QED
  BY <1>4, <1>5, <1>7, <1>9, <1>10, <1>11 DEF SdpInv

LEMMA MakeImageKeeps ==
  ASSUME SdpInv, MakeImage
  PROVE  SdpInv'
<1>1. /\ pc = "image" /\ HostTypes
      /\ UNCHANGED <<prog, elf, cold, tries, sent, last, again, stop, session, misled, boardVars>>
  BY DEF SdpInv, MakeImage
<1>2. CASE prog = "runner" /\ ~ Convertible(elf)
  <2>1. pc' = "failed" /\ redirect' = "off" /\ file' = file
    BY <1>2 DEF MakeImage, Exit
  <2>2. HostTypes'
    BY <1>1, <2>1 DEF HostTypes, Commands
  <2> QED
    BY <1>1, <2>1, <2>2, MoveKeeps DEF Commands, After
<1>3. CASE ~ (prog = "runner" /\ ~ Convertible(elf))
  <2>1. /\ pc' \in {"dcd", "file"} /\ step' = "command" /\ redirect' = redirect
        /\ file' = IF prog = "runner" THEN ImageOf(elf, TRUE) ELSE file
    <3>1. /\ Enter(IF cold THEN "dcd" ELSE "file")
          /\ file' = IF prog = "runner" THEN ImageOf(elf, TRUE) ELSE file
      BY <1>3, Zenon DEF MakeImage
    <3>2. (IF cold THEN "dcd" ELSE "file") \in {"dcd", "file"}
      OBVIOUS
    <3> QED
      BY <3>1, <3>2 DEF Enter
  <2>2. elf \in Elfs /\ prog \in {"runner", "load"} /\ sent = 0
    BY <1>1 DEF SdpInv, HostTypes, ImageInv
  <2>3. Good(elf, file')
    <3>1. CASE prog = "runner"
      <4>1. Convertible(elf)
        BY <1>3, <3>1
      <4> QED
        BY <2>1, <2>2, <3>1, <4>1, RunnerImage
    <3>2. CASE prog = "load"
      BY <1>1, <2>1, <3>2 DEF SdpInv, ImageInv
    <3> QED
      BY <2>2, <3>1, <3>2
  <2>4. file' \in Seq(Cells) /\ sent' \in 0 .. Len(file')
    BY <1>1, <2>2, <2>3, LenProperties DEF Good
  <2>5. HostTypes'
    BY <1>1, <2>1, <2>4 DEF HostTypes, Commands
  <2>6. UNCHANGED <<rom, mem, reports, program, address, output, session, misled, elf, prog, sent>>
    BY <1>1 DEF boardVars
  <2>7. BoardTypes'
    BY <2>6 DEF SdpInv, BoardTypes
  <2>8. session > 0
    BY <1>1 DEF SdpInv, BegunInv
  <2>9. BegunInv'
    BY <2>6, <2>8 DEF SdpInv, BegunInv
  <2>10. rom.by # session /\ mem.of # session /\ Clear
    BY <1>1 DEF SdpInv, ImageInv
  <2>11. Clear'
    BY <2>6, <2>10 DEF Clear
  <2>12. ImageInv'
    BY <2>1, <2>3, <2>6, <2>10 DEF SdpInv, ImageInv
  <2>13. DataInv' /\ SyncInv'
    BY <2>1, <2>6, <2>10, <2>11 DEF DataInv, SyncInv, At, Commands
  <2>14. JumpInv'
    BY <2>6 DEF SdpInv, JumpInv
  <2> QED
    BY <2>5, <2>7, <2>9, <2>12, <2>13, <2>14 DEF SdpInv
<1> QED
  BY <1>2, <1>3

(* Steps of the board, or of the thread, that run no command. *)
LEMMA BoardKeeps ==
  ASSUME SdpInv, UNCHANGED hostVars, BoardTypes', program' = program,
         reports' = reports \/ reports' = <<>>,
         \/ rom' = rom /\ mem' = mem
         \/ /\ rom' = Reset /\ reports' = <<>>
            /\ \/ rom.st = "running" /\ mem' = mem
               \/ pc \in Ended \cup {"watch"} /\ mem' = NoImage
  PROVE  SdpInv'
<1>1. UNCHANGED <<pc, step, prog, elf, file, cold, tries, sent, last, again,
                  stop, redirect, session, misled>>
  BY DEF hostVars
<1>2. HostTypes'
  BY <1>1 DEF SdpInv, HostTypes
<1>3. reports' = <<>> => Clear' /\ \A i \in 1 .. Len(reports') : reports'[i].of <= session'
  BY NoLetters DEF Clear
<1>4. reports' = reports => Clear' = Clear
  BY <1>1 DEF Clear
<1>5. \A t \in {"command", "data", "status", "response"} : At(t)' = At(t)
  BY <1>1 DEF At
<1>6. session \in Nat /\ Data' = Data
  BY <1>1, SdpAssumption DEF SdpInv, HostTypes, Data
<1>7. CASE rom' = rom /\ mem' = mem
  <2>1. BegunInv'
    BY <1>1, <1>3, <1>7 DEF SdpInv, BegunInv
  <2>2. ImageInv'
    BY <1>1, <1>3, <1>4, <1>7 DEF SdpInv, ImageInv
  <2>3. DataInv'
    BY <1>1, <1>5, <1>6, <1>7 DEF SdpInv, DataInv
  <2>4. SyncInv'
    <3>1. reports' = reports => Answered' = Answered
      BY <1>1, <1>7 DEF Answered
    <3> QED
      BY <1>1, <1>3, <1>4, <1>5, <1>7, <3>1 DEF SdpInv, SyncInv
  <2>5. JumpInv'
    BY <1>1, <1>7 DEF SdpInv, JumpInv
  <2> QED
    BY <1>2, <2>1, <2>2, <2>3, <2>4, <2>5 DEF SdpInv
<1>8. CASE /\ rom' = Reset /\ reports' = <<>>
           /\ \/ rom.st = "running" /\ mem' = mem
              \/ pc \in Ended \cup {"watch"} /\ mem' = NoImage
  <2>1. rom'.st = "ready" /\ rom'.cmd = "none" /\ rom'.by = 0 /\ NoImage.of = 0
    BY <1>8 DEF Reset, NoImage
  <2>2. mem' = NoImage => pc \notin Commands \cup {"open", "image"} \/ mem' = mem
    BY <1>8 DEF Ended, Commands
  <2>3. BegunInv'
    BY <1>1, <1>3, <1>6, <1>8, <2>1 DEF SdpInv, BegunInv
  <2>4. ImageInv'
    BY <1>1, <1>3, <1>8, <2>1, <2>3 DEF SdpInv, ImageInv, BegunInv, Ended, Commands
  <2>5. DataInv'
    BY <1>1, <1>5, <1>8 DEF SdpInv, DataInv, At, Ended, Commands
  <2>6. SyncInv'
    BY <1>1, <1>3, <1>5, <1>8, <2>1 DEF SdpInv, SyncInv, DataInv, At, Ended, Commands
  <2>7. JumpInv'
    BY <2>1 DEF JumpInv
  <2> QED
    BY <1>2, <2>3, <2>4, <2>5, <2>6, <2>7 DEF SdpInv
<1> QED
  BY <1>7, <1>8

LEMMA BoardSteps ==
  ASSUME SdpInv, RedirectShows \/ BoardPrints \/ BoardTakesUsb \/ BoardResets \/ PowerCycle
  PROVE  SdpInv'
<1>1. BoardTypes
  BY DEF SdpInv
<1>2. CASE RedirectShows \/ BoardPrints
  <2>1. /\ UNCHANGED hostVars /\ UNCHANGED <<rom, mem, reports, address, program>>
        /\ output' = 0 \/ (output' = output + 1 /\ output < MaxOutput)
    BY <1>2 DEF RedirectShows, BoardPrints
  <2>2. output' \in 0 .. MaxOutput
    BY <1>1, <2>1, SdpAssumption DEF BoardTypes
  <2>3. BoardTypes'
    BY <1>1, <2>1, <2>2 DEF BoardTypes
  <2> QED
    BY <2>1, <2>3, BoardKeeps
<1>3. CASE BoardTakesUsb
  <2>1. /\ UNCHANGED hostVars /\ UNCHANGED <<rom, mem, address, program, output>> /\ reports' = <<>>
    BY <1>3 DEF BoardTakesUsb
  <2>2. BoardTypes'
    BY <1>1, <2>1, NoLetters DEF BoardTypes
  <2> QED
    BY <2>1, <2>2, BoardKeeps
<1>4. CASE BoardResets \/ PowerCycle
  <2>1. /\ UNCHANGED hostVars /\ UNCHANGED <<program, output>> /\ reports' = <<>> /\ rom' = Reset
        /\ address' \in Addresses
        /\ \/ rom.st = "running" /\ mem' = mem
           \/ pc \in Ended \cup {"watch"} /\ mem' = NoImage
    BY <1>4 DEF BoardResets, PowerCycle, Restart
  <2>2. Reset \in Roms /\ Len(Reset.got) <= Reset.count /\ NoImage \in [of : Nat, image : Seq(Cells)]
    BY NoCells DEF Reset, Roms, NoImage
  <2>3. BoardTypes'
    BY <1>1, <2>1, <2>2, NoLetters DEF BoardTypes
  <2> QED
    BY <2>1, <2>3, BoardKeeps
<1> QED
  BY <1>2, <1>3, <1>4

LEMMA DcdIs == <<DcdCell>> \in Seq(Cells) /\ Len(<<DcdCell>>) = 1
<1>1. DcdCell \in Cells
  BY DEF Cells
<1>2. ASSUME NEW x \in Cells PROVE <<x>> \in Seq(Cells) /\ Len(<<x>>) = 1
  OBVIOUS
<1> QED
  BY <1>1, <1>2, Zenon

LEMMA DataIs ==
  ASSUME HostTypes, pc \in Commands
  PROVE  /\ Data[pc] \in Seq(Cells) /\ Len(Data[pc]) \in Nat
         /\ pc = "file" => Data[pc] = file
         /\ pc = "dcd" => Len(Data[pc]) = 1
         /\ pc = "jump" => Data[pc] = <<>>
<1>1. file \in Seq(Cells) /\ Len(file) \in Nat
  BY LenProperties DEF HostTypes
<1>2. Data["dcd"] = <<DcdCell>> /\ Data["file"] = file /\ Data["jump"] = <<>>
  BY DEF Data
<1>3. PICK d \in Seq(Cells) : d = <<DcdCell>> /\ Len(d) = 1
  BY DcdIs, Zenon
<1>4. CASE pc = "dcd"
  BY <1>2, <1>3, <1>4
<1>5. CASE pc = "file"
  BY <1>1, <1>2, <1>5
<1>6. CASE pc = "jump"
  BY <1>2, <1>6, NoCells
<1> QED
  BY <1>4, <1>5, <1>6 DEF Commands

LEMMA SendCommandKeeps ==
  ASSUME SdpInv, SendCommand
  PROVE  SdpInv'
<1>1. /\ pc \in Commands /\ step = "command" /\ rom.st = "ready" /\ HostTypes /\ BoardTypes
      /\ UNCHANGED <<mem, reports, address, program, output>>
      /\ UNCHANGED <<prog, elf, file, cold, tries, last, again, stop, session, misled>>
  BY DEF SdpInv, SendCommand, WriteFails, At
<1>2. PICK n \in Nat : n = Len(Data[pc]) /\ (pc # "jump" => n > 0)
  <2>1. pc = "file" => Len(file) > 0
    BY <1>1 DEF SdpInv, ImageInv, Good
  <2>2. /\ Len(Data[pc]) \in Nat
        /\ pc = "file" => Data[pc] = file
        /\ pc = "dcd" => Len(Data[pc]) = 1
    BY <1>1, DataIs
  <2>3. PICK n \in Nat : n = Len(Data[pc])
    BY <2>2
  <2>4. CASE pc = "file"
    <3>1. n = Len(file)
      BY <2>2, <2>3, <2>4
    <3> QED
      BY <2>1, <2>3, <2>4, <3>1
  <2>5. CASE pc = "dcd"
    <3>1. n = 1
      BY <2>2, <2>3, <2>5
    <3> QED
      BY <2>3, <3>1
  <2>6. CASE pc = "jump"
    BY <2>3, <2>6
  <2> QED
    BY <1>1, <2>4, <2>5, <2>6 DEF Commands
<1>3. PICK s \in {"exec", "data"} : s = IF pc = "jump" THEN "exec" ELSE "data"
  OBVIOUS
<1>4. rom' = [st |-> s, cmd |-> pc, by |-> session, got |-> <<>>, count |-> n]
  BY <1>2, <1>3 DEF SendCommand
<1>5. /\ rom'.st = s /\ rom'.cmd = pc /\ rom'.by = session /\ rom'.got = <<>> /\ rom'.count = n
      /\ s = "exec" <=> pc = "jump"
  BY <1>3, <1>4
<1>6. session \in Nat /\ session > 0
  BY <1>1, SdpAssumption DEF SdpInv, HostTypes, BegunInv, Commands
<1>7. rom' \in Roms /\ Len(rom'.got) <= rom'.count
  <2>1. rom' \in Roms
    BY <1>1, <1>3, <1>4, <1>6, NoCells DEF Roms
  <2> QED
    BY <1>2, <1>5, <2>1, NoCells
<1>8. BoardTypes'
  BY <1>1, <1>7 DEF BoardTypes
<1>9. \/ pc' = "failed" /\ redirect' = "off" /\ sent' = sent
      \/ /\ pc' = pc /\ step' = (IF pc = "jump" THEN "status" ELSE "data") /\ sent' = 0
         /\ redirect' = redirect
  BY DEF SendCommand, WriteFails, Exit
<1>10. HostTypes'
  <2>1. sent' \in 0 .. Len(file)
    BY <1>1, <1>9, LenProperties DEF HostTypes
  <2>2. /\ pc' \in {"off", "open", "image", "watch", "flush", "leave", "done", "failed"} \cup Commands
        /\ pc' = "jump" => step' \in {"command", "status"}
        /\ pc' # "open" /\ redirect' \in {"off", "opening", "loop", "over"}
    BY <1>1, <1>9 DEF HostTypes, Commands
  <2> QED
    BY <1>1, <2>1, <2>2 DEF HostTypes
<1>11. BegunInv'
  BY <1>1, <1>5, <1>6 DEF SdpInv, BegunInv
<1>12. Good(elf, file)
  BY <1>1 DEF SdpInv, ImageInv
<1>13. ImageInv'
  <2>1. pc' \notin {"open", "image"}
    BY <1>1, <1>9 DEF Commands
  <2>2. ~ (rom'.st = "exec" /\ rom'.cmd = "file") /\ rom'.st # "running"
    BY <1>3, <1>5
  <2> QED
    BY <1>1, <1>12, <2>1, <2>2 DEF SdpInv, ImageInv
<1>14. DataInv'
  <2>1. SUFFICES ASSUME At("data")' PROVE DataInv'
    BY DEF DataInv
  <2>2. pc' = pc /\ pc # "jump" /\ sent' = 0 /\ rom'.st = "data"
    BY <1>3, <1>5, <1>9, <2>1 DEF At, Commands
  <2>3. Data' = Data
    BY <1>1 DEF Data
  <2>4. SubSeq(Data[pc], 1, 0) = <<>>
    BY SubSeqEmpty
  <2> QED
    BY <1>1, <1>2, <1>5, <2>2, <2>3, <2>4 DEF DataInv
<1>15. SyncInv'
  <2>1. SUFFICES ASSUME session \notin misled PROVE SyncInv'
    BY <1>1 DEF SyncInv
  <2>2. Clear /\ Clear'
    BY <1>1, <2>1 DEF SdpInv, SyncInv, At, Clear
  <2>3. ~ At("command")' /\ ~ At("response")'
    BY <1>9 DEF At, Commands
  <2>4. At("status")' => pc' = pc /\ pc = "jump"
    BY <1>9 DEF At, Commands
  <2>5. pc' = "jump" => mem.of = session
    BY <1>1, <1>9, <2>1 DEF SdpInv, SyncInv
  <2>6. pc' \notin {"watch", "flush", "leave", "done"}
    BY <1>1, <1>9 DEF Commands
  <2> QED
    BY <1>1, <1>5, <2>2, <2>3, <2>4, <2>5, <2>6 DEF SyncInv
<1>16. JumpInv'
  BY <1>1, <1>5 DEF SdpInv, SyncInv, JumpInv
<1> QED
  BY <1>8, <1>10, <1>11, <1>13, <1>14, <1>15, <1>16 DEF SdpInv

(* A chunk lengthens what the board has received. *)
LEMMA ChunkFacts ==
  ASSUME SdpInv, At("data")
  PROVE  \E e \in sent + 1 .. Len(Data[pc]) :
           /\ Len(Chunk) = e - sent
           /\ rom.got \o Chunk = SubSeq(Data[pc], 1, e)
           /\ SubSeq(Data[pc], 1, e) \in Seq(Cells) /\ Len(SubSeq(Data[pc], 1, e)) = e
           /\ e = Len(Data[pc]) => SubSeq(Data[pc], 1, e) = Data[pc]
<1>1. pc \in Commands /\ HostTypes
  BY DEF SdpInv, At
<1>2. PICK d \in Seq(Cells) : d = Data[pc]
  BY <1>1, DataIs
<1>3. PICK n \in Nat : n = Len(d)
  BY LenProperties
<1>4. PICK m \in Nat : m = sent /\ m < n /\ rom.got = SubSeq(d, 1, m)
  <2>1. sent < Len(Data[pc]) /\ rom.got = SubSeq(Data[pc], 1, sent)
    BY DEF SdpInv, DataInv
  <2>2. sent \in Nat
    BY <1>1, LenProperties DEF HostTypes
  <2> QED
    BY <1>2, <1>3, <2>1, <2>2
<1>5. PICK e \in m + 1 .. n : e = IF m + ReportSize < n THEN m + ReportSize ELSE n
  BY <1>3, <1>4, SdpAssumption
<1>6. Chunk = SubSeq(d, m + 1, e)
  BY <1>2, <1>3, <1>4, <1>5 DEF Chunk
<1>7. \A i \in 1 .. n : d[i] \in Cells
  BY <1>3, ElementOfSeq
<1>8. /\ SubSeq(d, 1, m) \in Seq(Cells) /\ Len(SubSeq(d, 1, m)) = m
      /\ \A i \in 1 .. m : SubSeq(d, 1, m)[i] = d[i]
  <2>1. \A i \in 1 .. m : d[i] \in Cells
    BY <1>4, <1>7
  <2>2. /\ SubSeq(d, 1, m) \in Seq(Cells) /\ Len(SubSeq(d, 1, m)) = IF 1 <= m THEN m - 1 + 1 ELSE 0
        /\ \A i \in 1 .. m - 1 + 1 : SubSeq(d, 1, m)[i] = d[1 + i - 1]
    BY <2>1, SubSeqProperties
  <2> QED
    BY <2>2
<1>9. /\ SubSeq(d, 1, e) \in Seq(Cells) /\ Len(SubSeq(d, 1, e)) = e
      /\ \A i \in 1 .. e : SubSeq(d, 1, e)[i] = d[i]
  <2>1. \A i \in 1 .. e : d[i] \in Cells
    BY <1>5, <1>7
  <2>2. /\ SubSeq(d, 1, e) \in Seq(Cells) /\ Len(SubSeq(d, 1, e)) = IF 1 <= e THEN e - 1 + 1 ELSE 0
        /\ \A i \in 1 .. e - 1 + 1 : SubSeq(d, 1, e)[i] = d[1 + i - 1]
    BY <2>1, SubSeqProperties
  <2> QED
    BY <2>2
<1>10. /\ SubSeq(d, m + 1, e) \in Seq(Cells) /\ Len(SubSeq(d, m + 1, e)) = e - m
       /\ \A i \in 1 .. e - m : SubSeq(d, m + 1, e)[i] = d[m + i]
  <2>1. \A i \in m + 1 .. e : d[i] \in Cells
    BY <1>5, <1>7
  <2>2. /\ SubSeq(d, m + 1, e) \in Seq(Cells)
        /\ Len(SubSeq(d, m + 1, e)) = IF m + 1 <= e THEN e - (m + 1) + 1 ELSE 0
        /\ \A i \in 1 .. e - (m + 1) + 1 : SubSeq(d, m + 1, e)[i] = d[m + 1 + i - 1]
    BY <2>1, SubSeqProperties
  <2>3. \A i \in 1 .. e - m : m + 1 + i - 1 = m + i
    OBVIOUS
  <2> QED
    BY <2>2, <2>3
<1>11. rom.got \o Chunk = SubSeq(d, 1, e)
  <2>1. PICK s \in Seq(Cells) : s = SubSeq(d, 1, m)
    BY <1>8
  <2>2. PICK t \in Seq(Cells) : t = SubSeq(d, m + 1, e)
    BY <1>10
  <2>3. PICK u \in Seq(Cells) : u = SubSeq(d, 1, e)
    BY <1>9
  <2>4. /\ s \o t \in Seq(Cells) /\ Len(s \o t) = Len(s) + Len(t)
        /\ \A i \in 1 .. Len(s) + Len(t) : (s \o t)[i] = IF i <= Len(s) THEN s[i] ELSE t[i - Len(s)]
    BY ConcatProperties
  <2>5. ASSUME NEW i \in 1 .. e PROVE (s \o t)[i] = u[i]
    <3>1. Len(s) = m /\ Len(t) = e - m /\ i \in 1 .. m + (e - m)
      BY <1>8, <1>10, <2>1, <2>2
    <3>2. CASE i <= m
      BY <1>8, <1>9, <2>1, <2>3, <2>4, <3>1, <3>2
    <3>3. CASE ~ (i <= m)
      <4>1. PICK j \in 1 .. e - m : j = i - m /\ m + j = i
        BY <3>3
      <4>2. (s \o t)[i] = t[j]
        BY <2>4, <3>1, <3>3, <4>1
      <4> QED
        BY <1>9, <1>10, <2>2, <2>3, <4>1, <4>2
    <3> QED
      BY <3>2, <3>3
  <2>6. Len(s \o t) = Len(u) /\ Len(u) = e
    BY <1>8, <1>9, <1>10, <2>1, <2>2, <2>3, <2>4
  <2>7. s \o t = u
    BY <2>4, <2>5, <2>6, SeqEqual
  <2> QED
    BY <1>4, <1>6, <2>1, <2>2, <2>3, <2>7
<1>12. e = n => SubSeq(d, 1, e) = d
  BY <1>3, <1>9, SeqEqual
<1>13. Len(Chunk) = e - m
  BY <1>6, <1>10
<1> QED
  BY <1>2, <1>3, <1>4, <1>5, <1>9, <1>11, <1>12, <1>13

LEMMA SendDataKeeps ==
  ASSUME SdpInv, SendData
  PROVE  SdpInv'
<1>1. /\ pc \in Commands /\ step = "data" /\ At("data") /\ rom.st = "data" /\ HostTypes /\ BoardTypes
      /\ UNCHANGED <<mem, reports, address, program, output>>
      /\ UNCHANGED <<prog, elf, file, cold, tries, last, again, stop, session, misled>>
  BY DEF SdpInv, SendData, WriteFails, At
<1>2. /\ pc # "jump" /\ rom.cmd = pc /\ rom.by = session /\ rom.count = Len(Data[pc])
  BY <1>1 DEF SdpInv, DataInv
<1>3. PICK n \in Nat : n = Len(Data[pc])
  BY <1>1, DataIs
<1>4. PICK m \in Nat : m = sent
  BY <1>1, LenProperties DEF HostTypes
<1>5. PICK e \in m + 1 .. n :
        /\ Len(Chunk) = e - m
        /\ rom.got \o Chunk = SubSeq(Data[pc], 1, e)
        /\ SubSeq(Data[pc], 1, e) \in Seq(Cells) /\ Len(SubSeq(Data[pc], 1, e)) = e
        /\ e = n => SubSeq(Data[pc], 1, e) = Data[pc]
  BY <1>1, <1>3, <1>4, ChunkFacts
<1>6. PICK g \in Seq(Cells) : g = SubSeq(Data[pc], 1, e) /\ Len(g) = e
  BY <1>5
<1>7. PICK s \in {"data", "exec"} : s = IF e >= n THEN "exec" ELSE "data"
  OBVIOUS
<1>8. rom' = [rom EXCEPT !.got = g, !.st = s]
  <2>1. rom' = [rom EXCEPT !.got = rom.got \o Chunk,
                           !.st = IF Len(rom.got \o Chunk) >= rom.count THEN "exec" ELSE rom.st]
    BY DEF SendData
  <2>2. rom.got \o Chunk = g /\ rom.count = n /\ Len(g) = e
    BY <1>2, <1>3, <1>5, <1>6
  <2> QED
    BY <1>1, <1>7, <2>1, <2>2
<1>9. /\ rom' \in Roms /\ rom'.st = s /\ rom'.cmd = pc /\ rom'.by = session /\ rom'.got = g
      /\ rom'.count = n
  <2>1. PICK r \in Roms : r = rom
    BY <1>1 DEF BoardTypes
  <2>2. rom' = [r EXCEPT !.got = g, !.st = s]
    BY <1>8, <2>1, Zenon
  <2>3. /\ rom' \in Roms /\ rom'.st = s /\ rom'.cmd = r.cmd /\ rom'.by = r.by /\ rom'.got = g
        /\ rom'.count = r.count
    <3>1. rom' = [st |-> s, cmd |-> r.cmd, by |-> r.by, got |-> g, count |-> r.count]
      BY <2>2 DEF Roms
    <3> QED
      BY <1>7, <3>1 DEF Roms
  <2> QED
    BY <1>2, <1>3, <2>1, <2>3
<1>10. \/ pc' = "failed" /\ redirect' = "off" /\ sent' = sent
       \/ /\ pc' = pc /\ sent' = e /\ redirect' = redirect
          /\ step' = IF e >= n THEN "status" ELSE "data"
  <2>1. CASE WriteFails
    BY <2>1 DEF WriteFails, Exit
  <2>2. CASE ~ WriteFails
    <3>1. /\ sent' = sent + Len(Chunk) /\ UNCHANGED <<pc, redirect>>
          /\ step' = IF sent' >= Len(Data[pc]) THEN "status" ELSE step
      BY <2>2, Zenon DEF SendData
    <3>2. sent' = e
      BY <1>4, <1>5, <3>1
    <3> QED
      BY <1>1, <1>3, <3>1, <3>2
  <2> QED
    BY <2>1, <2>2
<1>11. Good(elf, file) /\ session \in Nat /\ session > 0
  BY <1>1, SdpAssumption DEF SdpInv, ImageInv, HostTypes, BegunInv, Commands
<1>12. PICK l \in Nat : l = Len(file) /\ l > 0
  <2>1. file \in Seq(Cells) /\ Len(file) > 0
    BY <1>11 DEF Good
  <2> QED
    BY <2>1, LenProperties
<1>13. e <= l
  <2>1. CASE pc = "file"
    <3>1. n = l
      BY <1>1, <1>3, <1>12, <2>1, DataIs
    <3> QED
      BY <3>1
  <2>2. CASE pc = "dcd"
    <3>1. n = 1
      BY <1>1, <1>3, <2>2, DataIs
    <3> QED
      BY <1>12, <3>1
  <2> QED
    BY <1>1, <1>2, <2>1, <2>2 DEF Commands
<1>14. BoardTypes'
  <2>1. Len(rom'.got) <= rom'.count
    BY <1>6, <1>9
  <2> QED
    BY <1>1, <1>9, <2>1 DEF BoardTypes
<1>15. HostTypes'
  <2>1. sent' \in 0 .. Len(file)
    BY <1>4, <1>10, <1>12, <1>13, <1>1 DEF HostTypes
  <2>2. /\ pc' \in {"off", "open", "image", "watch", "flush", "leave", "done", "failed"} \cup Commands
        /\ pc' # "jump" /\ pc' # "open" /\ redirect' \in {"off", "opening", "loop", "over"}
    BY <1>1, <1>2, <1>10 DEF HostTypes, Commands
  <2> QED
    BY <1>1, <2>1, <2>2 DEF HostTypes
<1>16. BegunInv'
  BY <1>1, <1>9, <1>11 DEF SdpInv, BegunInv
<1>17. ImageInv'
  <2>1. pc' \notin {"open", "image"} /\ rom'.st # "running"
    BY <1>1, <1>9, <1>10 DEF Commands
  <2>2. rom'.st = "exec" /\ rom'.cmd = "file" => rom'.got = file
    <3>1. SUFFICES ASSUME s = "exec", pc = "file" PROVE g = file
      BY <1>9
    <3>2. e = n
      BY <1>7, <3>1
    <3>3. Data[pc] = file
      BY <1>1, <3>1, DataIs
    <3> QED
      BY <1>5, <1>6, <3>2, <3>3
  <2> QED
    BY <1>1, <1>11, <2>1, <2>2 DEF SdpInv, ImageInv
<1>18. DataInv'
  <2>1. SUFFICES ASSUME At("data")' PROVE DataInv'
    BY DEF DataInv
  <2>2. pc' = pc /\ sent' = e /\ e < n
    BY <1>10, <2>1 DEF At, Commands
  <2>3. Data' = Data
    BY <1>1 DEF Data
  <2>4. rom'.st = "data"
    BY <1>7, <1>9, <2>2
  <2> QED
    BY <1>1, <1>2, <1>3, <1>6, <1>9, <2>2, <2>3, <2>4 DEF DataInv
<1>19. SyncInv'
  <2>1. SUFFICES ASSUME session \notin misled PROVE SyncInv'
    BY <1>1 DEF SyncInv
  <2>2. Clear /\ Clear'
    BY <1>1, <2>1 DEF SdpInv, SyncInv, Clear
  <2>3. ~ At("command")' /\ ~ At("response")' /\ pc' # "jump"
    BY <1>2, <1>10 DEF At, Commands
  <2>4. At("status")' => pc' = pc /\ rom'.st = "exec"
    BY <1>7, <1>9, <1>10 DEF At, Commands
  <2>5. pc' \notin {"watch", "flush", "leave", "done"}
    BY <1>1, <1>10 DEF Commands
  <2> QED
    BY <1>1, <1>9, <2>2, <2>3, <2>4, <2>5 DEF SyncInv
<1>20. JumpInv'
  BY <1>2, <1>9 DEF JumpInv
<1> QED
  BY <1>14, <1>15, <1>16, <1>17, <1>18, <1>19, <1>20 DEF SdpInv

(* A report taken from the queue. *)
LEMMA TakeKeeps ==
  ASSUME SdpInv, At("status") \/ At("response"), TakeReport,
         UNCHANGED <<prog, elf, file, cold, tries, sent, last, stop, session>>,
         again' \in BOOLEAN, redirect' \in {redirect, "off"},
         pc' \in Commands \cup {"failed", "done", "watch"},
         step' \in {"none", "command", "status", "response"},
         pc' = "jump" => step' \in {"command", "status"},
         SyncInv'
  PROVE  SdpInv'
<1>1. /\ pc \in Commands /\ HostTypes /\ BoardTypes
      /\ UNCHANGED <<rom, mem, address, program, output>>
      /\ UNCHANGED <<prog, elf, file, cold, tries, sent, last, stop, session>>
      /\ reports # <<>> /\ reports' = Tail(reports)
      /\ misled' = misled \cup {s \in {session} : Head(reports).of # s}
  BY DEF SdpInv, At, TakeReport
<1>2. /\ reports' \in Seq(Letters) /\ Len(reports') \in Nat /\ Len(reports) = Len(reports') + 1
      /\ \A i \in 1 .. Len(reports') : reports'[i] = reports[i + 1]
  BY <1>1, TakeFirst
<1>3. HostTypes'
  <2>1. redirect' \in {"off", "opening", "loop", "over"}
    BY <1>1 DEF HostTypes
  <2>2. pc' \in {"off", "open", "image", "watch", "flush", "leave", "done", "failed"} \cup Commands
        /\ (pc' = "jump" => step' \in {"command", "status"}) /\ pc' # "open"
    BY DEF Commands
  <2> QED
    BY <1>1, <2>1, <2>2, Zenon DEF HostTypes
<1>4. BoardTypes'
  BY <1>1, <1>2 DEF BoardTypes
<1>5. session \in Nat /\ session > 0
  BY <1>1, SdpAssumption DEF SdpInv, HostTypes, BegunInv, Commands
<1>6. BegunInv'
  <2>1. misled' \subseteq 1 .. session
    <3>1. misled' = misled \/ misled' = misled \cup {session}
      <4>1. misled' = misled \cup {s \in {session} : Head(reports).of # s}
        BY <1>1
      <4>2. {s \in {session} : Head(reports).of # s} \in {{}, {session}}
        OBVIOUS
      <4> QED
        BY <4>1, <4>2
    <3>2. misled \subseteq 1 .. session
      BY DEF SdpInv, BegunInv
    <3>3. session \in 1 .. session
      BY <1>5
    <3> QED
      BY <3>1, <3>2, <3>3
  <2>2. \A i \in 1 .. Len(reports') : reports'[i].of <= session
    <3>1. \A i \in 1 .. Len(reports') : i + 1 \in 1 .. Len(reports)
      BY <1>2
    <3> QED
      BY <1>2, <3>1 DEF SdpInv, BegunInv
  <2> QED
    BY <1>1, <1>5, <2>1, <2>2 DEF SdpInv, BegunInv
<1>7. ImageInv'
  BY <1>1 DEF SdpInv, ImageInv, Commands
<1>8. DataInv'
  BY DEF DataInv, At
<1>9. JumpInv'
  BY <1>1 DEF SdpInv, JumpInv
<1> QED
  BY <1>3, <1>4, <1>6, <1>7, <1>8, <1>9 DEF SdpInv

(* If the run is not misled, the report was its own. *)
LEMMA OwnReport ==
  ASSUME BoardTypes, TakeReport, session' = session
  PROVE  \/ SyncInv'
         \/ /\ session \notin misled' /\ session \notin misled
            /\ reports[1].of = session /\ ~ Clear
            /\ Len(reports') \in Nat /\ Len(reports) = Len(reports') + 1
            /\ \A i \in 1 .. Len(reports') : reports'[i] = reports[i + 1]
<1>1. /\ reports # <<>> /\ reports' = Tail(reports)
      /\ misled' = misled \cup {s \in {session} : Head(reports).of # s}
  BY DEF TakeReport
<1>2. /\ Len(reports') \in Nat /\ Len(reports) = Len(reports') + 1
      /\ \A i \in 1 .. Len(reports') : reports'[i] = reports[i + 1]
      /\ Head(reports) = reports[1]
  BY <1>1, TakeFirst
<1>3. session \in misled' => SyncInv'
  BY DEF SyncInv
<1>4. 1 \in 1 .. Len(reports)
  BY <1>2
<1> QED
  BY <1>1, <1>2, <1>3, <1>4 DEF Clear

LEMMA ReadResponseKeeps ==
  ASSUME SdpInv, ReadResponse
  PROVE  SdpInv'
<1>1. /\ At("response") /\ pc \in {"dcd", "file"} /\ HostTypes /\ BoardTypes /\ TakeReport
      /\ UNCHANGED <<prog, elf, file, cold, tries, sent, last, again, stop, session>>
      /\ UNCHANGED <<rom, mem, program>>
  BY DEF SdpInv, HostTypes, ReadResponse, TakeReport, At, Commands
<1>2. Head(reports) = reports[1]
  BY <1>1, TakeFirst DEF TakeReport
<1>3. \/ pc' = "failed" /\ step' = "none" /\ redirect' = "off"
      \/ /\ pc = "dcd" /\ pc' = "file" /\ step' = "command" /\ redirect' = redirect
      \/ /\ pc = "file" /\ pc' = "jump" /\ step' = "command" /\ redirect' = redirect
         /\ reports[1].kind = "complete"
  <2>1. CASE Head(reports).kind = Acknowledgement[pc]
    <3>1. Proceed
      BY <2>1, Zenon DEF ReadResponse
    <3>2. CASE pc = "dcd"
      <4>1. Enter("file")
        BY <3>1, <3>2 DEF Proceed
      <4> QED
        BY <3>2, <4>1, Zenon DEF Enter
    <3>3. CASE pc = "file"
      <4>1. Enter("jump")
        BY <3>1, <3>3 DEF Proceed
      <4>2. Head(reports).kind = "complete"
        BY <2>1, <3>3 DEF Acknowledgement
      <4> QED
        BY <1>2, <3>3, <4>1, <4>2, Zenon DEF Enter
    <3> QED
      BY <1>1, <3>2, <3>3
  <2>2. CASE Head(reports).kind # Acknowledgement[pc]
    <3>1. Exit("failed")
      BY <2>2, Zenon DEF ReadResponse
    <3> QED
      BY <3>1, Zenon DEF Exit
  <2> QED
    BY <2>1, <2>2
<1>4. SyncInv'
  <2>1. SUFFICES ASSUME session \notin misled', session \notin misled, ~ Clear,
                        Len(reports') \in Nat, Len(reports) = Len(reports') + 1
                 PROVE  SyncInv'
    BY <1>1, OwnReport
  <2>2. /\ rom.st # "exec" /\ Len(reports) = 1
        /\ pc = "file" /\ reports[1].kind = "complete" => mem.of = session
    BY <1>1, <2>1 DEF SdpInv, SyncInv
  <2>3. Clear'
    <3>1. PICK k \in Nat : k = Len(reports') /\ k + 1 = 1
      BY <2>1, <2>2
    <3> QED
      BY <3>1 DEF Clear
  <2> QED
    BY <1>1, <1>3, <2>2, <2>3 DEF SyncInv, At, Commands
<1> QED
  BY <1>1, <1>3, <1>4, TakeKeeps DEF Commands, HostTypes

LEMMA CheckSecStatusKeeps ==
  ASSUME SdpInv, CheckSecStatus
  PROVE  SdpInv'
<1>1. /\ At("status") /\ pc \in Commands /\ HostTypes /\ BoardTypes /\ TakeReport
      /\ UNCHANGED <<prog, elf, file, cold, tries, sent, last, stop, session>>
      /\ UNCHANGED <<rom, mem, program>>
  BY DEF SdpInv, CheckSecStatus, TakeReport, At
<1>2. Head(reports) = reports[1]
  BY <1>1, TakeFirst DEF TakeReport
<1>3. /\ again' \in BOOLEAN
      /\ \/ /\ reports[1].kind = "short" /\ pc' = pc /\ step' = "status" /\ redirect' = redirect
         \/ /\ reports[1].kind = "open" /\ pc # "jump"
            /\ pc' = pc /\ step' = "response" /\ redirect' = redirect
         \/ /\ reports[1].kind = "open" /\ pc = "jump"
            /\ pc' \in {"done", "watch"} /\ step' = "none" /\ redirect' \in {redirect, "off"}
         \/ pc' = "failed" /\ step' = "none" /\ redirect' = "off"
  <2>1. PICK r : r = Head(reports).kind
    OBVIOUS
  <2>2. \/ r = "short" /\ again' = TRUE /\ UNCHANGED <<pc, step, redirect>>
        \/ r = "open" /\ again' = FALSE /\ Accept
        \/ again' = FALSE /\ Exit("failed")
    BY <2>1, Zenon DEF CheckSecStatus
  <2>3. CASE r = "short" /\ again' = TRUE /\ UNCHANGED <<pc, step, redirect>>
    BY <1>1, <1>2, <2>1, <2>3 DEF At
  <2>4. CASE r = "open" /\ again' = FALSE /\ Accept
    <3>1. CASE pc = "jump"
      <4>1. Proceed
        BY <2>4, <3>1 DEF Accept
      <4>2. Exit("done") \/ (pc' = "watch" /\ step' = "none" /\ UNCHANGED redirect)
        <5>1. CASE prog = "load"
          BY <3>1, <4>1, <5>1 DEF Proceed
        <5>2. CASE prog # "load"
          BY <3>1, <4>1, <5>2 DEF Proceed
        <5> QED
          BY <5>1, <5>2
      <4> QED
        BY <1>2, <2>1, <2>4, <3>1, <4>2 DEF Exit
    <3>2. CASE pc # "jump"
      BY <1>2, <2>1, <2>4, <3>2 DEF Accept
    <3> QED
      BY <3>1, <3>2
  <2>5. CASE again' = FALSE /\ Exit("failed")
    BY <2>5 DEF Exit
  <2> QED
    BY <2>2, <2>3, <2>4, <2>5
<1>4. SyncInv'
  <2>1. SUFFICES ASSUME session \notin misled', session \notin misled, ~ Clear,
                        reports[1].of = session,
                        Len(reports') \in Nat, Len(reports) = Len(reports') + 1,
                        \A i \in 1 .. Len(reports') : reports'[i] = reports[i + 1]
                 PROVE  SyncInv'
    BY <1>1, OwnReport
  <2>2. rom.st # "exec" /\ Answered
    BY <1>1, <2>1 DEF SdpInv, SyncInv
  <2>3. pc = "jump" => mem.of = session
    BY <2>1 DEF SdpInv, SyncInv
  <2>4. PICK k \in Nat : k = Len(reports')
    BY <2>1
  <2>5. PICK m \in 1 .. k + 1 :
          /\ reports[m].kind \in {"open", "closed"}
          /\ \A i \in 1 .. m - 1 : reports[i].of = session => reports[i].kind = "short"
          /\ IF pc = "jump"
               THEN /\ k + 1 = m
                    /\ reports[m].kind = "open" => program = session /\ rom.st = "running"
               ELSE /\ k + 1 = m + 1
                    /\ pc = "file" /\ reports[m + 1].kind = "complete" => mem.of = session
    BY <2>1, <2>2, <2>4 DEF Answered
  <2>6. CASE reports[1].kind = "short" /\ pc' = pc /\ step' = "status"
    <3>1. PICK l \in 1 .. k : m = l + 1
      <4>1. m # 1
        BY <2>5, <2>6
      <4> QED
        BY <4>1
    <3>2. reports'[l] = reports[m] /\ (pc # "jump" => reports'[l + 1] = reports[m + 1])
      <4>1. reports'[l] = reports[m]
        BY <2>1, <2>4, <3>1
      <4>2. pc # "jump" => l + 1 \in 1 .. k /\ l + 1 + 1 = m + 1
        BY <2>5, <3>1
      <4> QED
        BY <2>1, <2>4, <4>1, <4>2
    <3>3. ASSUME NEW i \in 1 .. l - 1, reports'[i].of = session
          PROVE  reports'[i].kind = "short"
      <4>1. i + 1 \in 1 .. m - 1 /\ i \in 1 .. k
        BY <3>1
      <4> QED
        BY <2>1, <2>4, <2>5, <3>3, <4>1
    <3>4. Answered'
      <4>1. l \in 1 .. Len(reports')
        BY <2>4
      <4>2. /\ reports'[l].kind \in {"open", "closed"}
            /\ \A i \in 1 .. l - 1 : reports'[i].of = session' => reports'[i].kind = "short"
        BY <1>1, <2>5, <3>2, <3>3
      <4>3. pc = "jump" =>
              /\ Len(reports') = l
              /\ reports'[l].kind = "open" => program' = session' /\ rom'.st = "running"
        <5>1. pc = "jump" => k = l
          BY <2>5, <3>1
        <5> QED
          BY <1>1, <2>4, <2>5, <3>2, <5>1
      <4>4. pc # "jump" =>
              /\ Len(reports') = l + 1
              /\ pc = "file" /\ reports'[l + 1].kind = "complete" => mem'.of = session'
        <5>1. pc # "jump" => k = l + 1
          BY <2>5, <3>1
        <5> QED
          BY <1>1, <2>4, <2>5, <3>2, <5>1
      <4> QED
        BY <2>6, <4>1, <4>2, <4>3, <4>4 DEF Answered
    <3> QED
      BY <1>1, <2>2, <2>3, <2>6, <3>4 DEF SyncInv, At, Commands
  <2>7. reports[1].kind = "open" => m = 1
    <3>1. m # 1 => 1 \in 1 .. m - 1
      OBVIOUS
    <3> QED
      BY <2>1, <2>5, <3>1
  <2>8. CASE reports[1].kind = "open" /\ pc # "jump" /\ pc' = pc /\ step' = "response"
    <3>1. k = 1 /\ (pc = "file" /\ reports[2].kind = "complete" => mem.of = session)
      BY <2>5, <2>7, <2>8
    <3>2. reports'[1] = reports[2]
      BY <2>1, <2>4, <3>1
    <3> QED
      BY <1>1, <2>2, <2>4, <2>8, <3>1, <3>2 DEF SyncInv, At, Commands
  <2>9. CASE reports[1].kind = "open" /\ pc = "jump" /\ pc' \in {"done", "watch"} /\ step' = "none"
    <3>1. program = session
      BY <2>5, <2>7, <2>9
    <3> QED
      BY <1>1, <2>2, <2>9, <3>1 DEF SyncInv, At, Commands
  <2>10. CASE pc' = "failed"
    BY <2>10 DEF SyncInv, At, Commands
  <2> QED
    BY <1>3, <2>6, <2>8, <2>9, <2>10
<1>5. /\ pc' \in Commands \cup {"failed", "done", "watch"}
      /\ step' \in {"none", "command", "status", "response"}
      /\ (pc' = "jump" => step' \in {"command", "status"}) /\ redirect' \in {redirect, "off"}
  BY <1>1, <1>3 DEF Commands
<1> QED
  BY <1>1, <1>3, <1>4, <1>5, TakeKeeps

(* A command the ROM has run. *)
LEMMA RomKeeps ==
  ASSUME SdpInv, UNCHANGED <<hostVars, address, output>>,
         NEW s \in {"ready", "hung", "running"}, rom.st = "exec", rom' = [rom EXCEPT !.st = s],
         mem' = mem \/ (rom.cmd = "file" /\ mem' = [of |-> rom.by, image |-> rom.got]),
         program' \in Nat,
         s = "running" => rom.cmd = "jump" /\ mem' = mem /\ program' = mem.of /\ mem.of > 0,
         reports' \in Seq(Letters),
         \A i \in 1 .. Len(reports') :
           (i \in 1 .. Len(reports) /\ reports'[i] = reports[i]) \/ reports'[i].of = rom.by,
         At("status") /\ session \notin misled /\ rom.by = session /\ rom.cmd = pc /\ Clear =>
           Clear' \/ Answered'
  PROVE  SdpInv'
<1>1. /\ UNCHANGED <<pc, step, prog, elf, file, cold, tries, sent, last, again,
                     stop, redirect, session, misled>>
      /\ HostTypes /\ BoardTypes
  BY DEF hostVars, SdpInv
<1>2. PICK r \in Roms : r = rom
  BY <1>1 DEF BoardTypes
<1>3. /\ rom' \in Roms /\ rom'.st = s /\ rom'.cmd = rom.cmd /\ rom'.by = rom.by
      /\ rom'.got = rom.got /\ rom'.count = rom.count
  <2>1. rom' = [r EXCEPT !.st = s]
    BY <1>2, Zenon
  <2>2. rom' = [st |-> s, cmd |-> r.cmd, by |-> r.by, got |-> r.got, count |-> r.count]
    BY <2>1 DEF Roms
  <2> QED
    BY <1>2, <2>2 DEF Roms
<1>4. session \in Nat /\ rom.by \in Nat /\ rom.by > 0 /\ rom.by <= session /\ rom.got \in Seq(Cells)
  BY <1>1, SdpAssumption DEF SdpInv, HostTypes, BoardTypes, Roms, BegunInv
<1>5. mem' = mem \/ (rom.cmd = "file" /\ mem'.of = rom.by /\ mem'.image = rom.got)
  OBVIOUS
<1>6. HostTypes'
  BY <1>1 DEF HostTypes
<1>7. BoardTypes'
  <2>1. mem' \in [of : Nat, image : Seq(Cells)]
    BY <1>1, <1>4 DEF BoardTypes
  <2> QED
    BY <1>1, <1>3, <2>1 DEF BoardTypes
<1>8. BegunInv'
  <2>1. \A i \in 1 .. Len(reports') : reports'[i].of <= session
    BY <1>4 DEF SdpInv, BegunInv
  <2>2. mem'.of <= session /\ (mem'.of = 0 => mem' = NoImage)
    BY <1>4, <1>5 DEF SdpInv, BegunInv
  <2> QED
    BY <1>1, <1>3, <1>4, <2>1, <2>2 DEF SdpInv, BegunInv
<1>9. Clear /\ rom.by # session => Clear'
  BY <1>1 DEF Clear
<1>10. ImageInv'
  BY <1>1, <1>3, <1>5, <1>9 DEF SdpInv, ImageInv
<1>11. ~ At("data")
  BY DEF SdpInv, DataInv
<1>12. \A t \in {"command", "data", "status", "response"} : At(t)' = At(t)
  BY <1>1 DEF At
<1>13. DataInv'
  BY <1>11, <1>12 DEF DataInv
<1>14. SyncInv'
  <2>1. SUFFICES ASSUME session \notin misled PROVE SyncInv'
    BY <1>1 DEF SyncInv
  <2>2. At("command") => Clear /\ rom.by # session /\ pc # "jump"
    BY <2>1 DEF SdpInv, SyncInv
  <2>3. At("status") => rom.by = session /\ rom.cmd = pc /\ Clear
    BY <2>1 DEF SdpInv, SyncInv
  <2>4. ~ At("response") /\ pc \notin {"watch", "flush", "leave", "done"}
    BY <2>1 DEF SdpInv, SyncInv
  <2>5. pc = "jump" => mem' = mem
    <3>1. pc = "jump" => At("command") \/ At("status")
      BY <1>1 DEF HostTypes, At, Commands
    <3> QED
      BY <2>2, <2>3, <3>1
  <2>6. pc = "jump" => mem'.of = session
    BY <2>1, <2>5 DEF SdpInv, SyncInv
  <2>7. rom'.st # "exec"
    BY <1>3
  <2> QED
    BY <1>1, <1>9, <1>11, <1>12, <2>1, <2>2, <2>3, <2>4, <2>6, <2>7 DEF SyncInv
<1>15. JumpInv'
  BY <1>1, <1>3, <1>5 DEF SdpInv, JumpInv
<1> QED
  BY <1>6, <1>7, <1>8, <1>10, <1>13, <1>14, <1>15 DEF SdpInv

(* The answers are of the run that sent the command. *)
LEMMA AnswersOwn ==
  ASSUME BoardTypes, NEW rest \in Seq(Letters), Answers(rest),
         \A i \in 1 .. Len(rest) : rest[i].of = rom.by
  PROVE  /\ reports' \in Seq(Letters)
         /\ \A i \in 1 .. Len(reports') :
              (i \in 1 .. Len(reports) /\ reports'[i] = reports[i]) \/ reports'[i].of = rom.by
<1>1. PICK m \in 1 .. Len(reports') :
        /\ Len(reports) < m /\ Len(reports') = m + Len(rest)
        /\ reports'[m] = Report(Status)
        /\ \A i \in 1 .. m - 1 : \/ i \in 1 .. Len(reports) /\ reports'[i] = reports[i]
                                 \/ reports'[i] = Report("short")
        /\ \A i \in 1 .. Len(rest) : reports'[m + i] = rest[i]
  BY AnswersFollow
<1>2. reports' \in Seq(Letters)
  BY AnswersFollow
<1>3. Report(Status).of = rom.by /\ Report("short").of = rom.by
  BY DEF Report
<1>4. PICK n \in Nat : n = Len(rest)
  BY LenProperties
<1>5. ASSUME NEW i \in 1 .. Len(reports')
      PROVE  (i \in 1 .. Len(reports) /\ reports'[i] = reports[i]) \/ reports'[i].of = rom.by
  <2>1. CASE i \in 1 .. m - 1
    BY <1>1, <1>3, <2>1
  <2>2. CASE i = m
    BY <1>1, <1>3, <2>2
  <2>3. CASE ~ (i \in 1 .. m - 1) /\ i # m
    <3>1. PICK j \in 1 .. n : i = m + j
      <4>1. m \in Nat /\ i \in 1 .. m + n
        BY <1>1, <1>4
      <4>2. i - m \in 1 .. n /\ i = m + (i - m)
        BY <2>3, <4>1
      <4> QED
        BY <4>2
    <3> QED
      BY <1>1, <1>4, <3>1
  <2> QED
    BY <2>1, <2>2, <2>3
<1> QED
  BY <1>2, <1>5

LEMMA RomDcdKeeps ==
  ASSUME SdpInv, RomDcd
  PROVE  SdpInv'
<1>1. /\ rom.st = "exec" /\ rom.cmd = "dcd" /\ HostTypes /\ BoardTypes
      /\ UNCHANGED <<hostVars, open, mem, address, program, output>>
  BY DEF SdpInv, RomDcd
<1>2. program' \in Nat
  BY <1>1 DEF BoardTypes
<1>3. CASE ddr
  <2>1. rom' = [rom EXCEPT !.st = "hung"] /\ reports' = reports
    BY <1>3 DEF RomDcd
  <2>2. reports' \in Seq(Letters)
    BY <1>1, <2>1 DEF BoardTypes
  <2>3. UNCHANGED session
    BY <1>1 DEF hostVars
  <2>4. Clear => Clear'
    BY <2>1, <2>3 DEF Clear
  <2> QED
    BY <1>1, <1>2, <2>1, <2>2, <2>4, RomKeeps
<1>4. CASE ~ ddr
  <2>1. rom' = [rom EXCEPT !.st = "ready"] /\ Answers(<<Report("write_complete")>>)
    BY <1>4 DEF RomDcd, RomReady
  <2>2. PICK rest \in Seq(Letters) :
          rest = <<Report("write_complete")>> /\ Len(rest) = 1 /\ rest[1] = Report("write_complete")
    <3>1. Report("write_complete") \in Letters
      BY <1>1 DEF Report, Letters, Kinds, BoardTypes, Roms
    <3> QED
      BY <3>1, FewLetters
  <2>3. Answers(rest) /\ \A i \in 1 .. Len(rest) : rest[i].of = rom.by
    BY <2>1, <2>2 DEF Report
  <2>4. At("status") /\ rom.by = session /\ rom.cmd = pc /\ Clear => Answered'
    <3>1. SUFFICES ASSUME rom.by = session, pc = "dcd", Clear PROVE Answered'
      BY <1>1
    <3>2. PICK m \in 1 .. Len(reports') :
            /\ Len(reports') = m + Len(rest)
            /\ reports'[m] = Report(Status)
            /\ \A i \in 1 .. m - 1 : \/ i \in 1 .. Len(reports) /\ reports'[i] = reports[i]
                                     \/ reports'[i] = Report("short")
      BY <1>1, <2>3, AnswersFollow
    <3>3. Report(Status).kind \in {"open", "closed"} /\ Report("short").kind = "short"
      BY DEF Report, Status
    <3>4. \A i \in 1 .. m - 1 : reports'[i].of = session => reports'[i].kind = "short"
      BY <3>1, <3>2, <3>3 DEF Clear
    <3>5. pc' = "dcd" /\ session' = session
      BY <1>1, <3>1 DEF hostVars
    <3> QED
      BY <2>2, <3>2, <3>3, <3>4, <3>5 DEF Answered
  <2>5. /\ reports' \in Seq(Letters)
        /\ \A i \in 1 .. Len(reports') :
             (i \in 1 .. Len(reports) /\ reports'[i] = reports[i]) \/ reports'[i].of = rom.by
    BY <1>1, <2>3, AnswersOwn
  <2> QED
    BY <1>1, <1>2, <2>1, <2>4, <2>5, RomKeeps
<1> QED
  BY <1>3, <1>4

LEMMA RomFileKeeps ==
  ASSUME SdpInv, RomFile
  PROVE  SdpInv'
<1>1. /\ rom.st = "exec" /\ rom.cmd = "file" /\ HostTypes /\ BoardTypes
      /\ UNCHANGED <<hostVars, open, address, program, output>>
  BY DEF SdpInv, RomFile
<1>2. program' \in Nat
  BY <1>1 DEF BoardTypes
<1>3. CASE ~ ddr
  <2>1. rom' = [rom EXCEPT !.st = "hung"] /\ reports' = reports /\ mem' = mem
    BY <1>3 DEF RomFile
  <2>2. reports' \in Seq(Letters)
    BY <1>1, <2>1 DEF BoardTypes
  <2>3. UNCHANGED session
    BY <1>1 DEF hostVars
  <2>4. Clear => Clear'
    BY <2>1, <2>3 DEF Clear
  <2> QED
    BY <1>1, <1>2, <2>1, <2>2, <2>4, RomKeeps
<1>4. CASE ddr
  <2>1. rom' = [rom EXCEPT !.st = "ready"]
    BY <1>4 DEF RomFile, RomReady
  <2>2. PICK kind \in {"complete", "error"} :
          /\ Answers(<<Report(kind)>>)
          /\ \/ kind = "complete" /\ mem' = [of |-> rom.by, image |-> rom.got]
             \/ kind = "error" /\ mem' = mem
    BY <1>4 DEF RomFile
  <2>3. PICK rest \in Seq(Letters) :
          rest = <<Report(kind)>> /\ Len(rest) = 1 /\ rest[1] = Report(kind)
    <3>1. Report(kind) \in Letters
      BY <1>1 DEF Report, Letters, Kinds, BoardTypes, Roms
    <3> QED
      BY <3>1, FewLetters
  <2>4. Answers(rest) /\ \A i \in 1 .. Len(rest) : rest[i].of = rom.by
    BY <2>2, <2>3 DEF Report
  <2>5. At("status") /\ rom.by = session /\ rom.cmd = pc /\ Clear => Answered'
    <3>1. SUFFICES ASSUME rom.by = session, pc = "file", Clear PROVE Answered'
      BY <1>1
    <3>2. PICK m \in 1 .. Len(reports') :
            /\ Len(reports') = m + Len(rest)
            /\ reports'[m] = Report(Status)
            /\ \A i \in 1 .. m - 1 : \/ i \in 1 .. Len(reports) /\ reports'[i] = reports[i]
                                     \/ reports'[i] = Report("short")
            /\ \A i \in 1 .. Len(rest) : reports'[m + i] = rest[i]
      BY <1>1, <2>4, AnswersFollow
    <3>3. Report(Status).kind \in {"open", "closed"} /\ Report("short").kind = "short"
      BY DEF Report, Status
    <3>4. \A i \in 1 .. m - 1 : reports'[i].of = session => reports'[i].kind = "short"
      BY <3>1, <3>2, <3>3 DEF Clear
    <3>5. pc' = "file" /\ session' = session
      BY <1>1, <3>1 DEF hostVars
    <3>6. reports'[m + 1].kind = kind
      <4>1. reports'[m + 1] = Report(kind)
        BY <2>3, <3>2
      <4> QED
        BY <4>1 DEF Report
    <3>7. kind = "complete" => mem'.of = session
      BY <2>2, <3>1
    <3> QED
      BY <2>3, <3>2, <3>3, <3>4, <3>5, <3>6, <3>7 DEF Answered
  <2>6. /\ reports' \in Seq(Letters)
        /\ \A i \in 1 .. Len(reports') :
             (i \in 1 .. Len(reports) /\ reports'[i] = reports[i]) \/ reports'[i].of = rom.by
    BY <1>1, <2>4, AnswersOwn
  <2>7. mem' = mem \/ (rom.cmd = "file" /\ mem' = [of |-> rom.by, image |-> rom.got])
    BY <1>1, <2>2
  <2> QED
    BY <1>1, <1>2, <2>1, <2>5, <2>6, <2>7, RomKeeps
<1> QED
  BY <1>3, <1>4

LEMMA RomJumpKeeps ==
  ASSUME SdpInv, RomJump
  PROVE  SdpInv'
<1>1. /\ rom.st = "exec" /\ rom.cmd = "jump" /\ HostTypes /\ BoardTypes /\ Answers(<<>>)
      /\ UNCHANGED <<hostVars, open, ddr, mem, address, output>>
  BY DEF SdpInv, RomJump
<1>2. mem.of \in Nat /\ (mem.of = 0 => mem = NoImage) /\ program \in Nat
  BY <1>1 DEF SdpInv, BegunInv, BoardTypes
<1>3. PICK s \in {"ready", "hung", "running"} :
        /\ rom' = [rom EXCEPT !.st = s]
        /\ \/ s = "running" /\ program' = mem.of /\ mem.of > 0
           \/ s # "running" /\ program' = program /\ (open => mem = NoImage \/ DcdOf(mem.image) # <<>>)
  <2>1. CASE ~ open \/ mem = NoImage
    <3>1. rom' = [rom EXCEPT !.st = "ready"] /\ program' = program
      BY <2>1, Zenon DEF RomJump, RomReady
    <3> QED
      BY <2>1, <3>1
  <2>2. CASE ~ (~ open \/ mem = NoImage) /\ DcdOf(mem.image) # <<>>
    <3>1. rom' = [rom EXCEPT !.st = "hung"] /\ program' = program
      BY <2>2, Zenon DEF RomJump
    <3> QED
      BY <2>2, <3>1
  <2>3. CASE ~ (~ open \/ mem = NoImage) /\ ~ (DcdOf(mem.image) # <<>>)
    <3>1. rom' = [rom EXCEPT !.st = "running"] /\ program' = mem.of
      BY <2>3, Zenon DEF RomJump
    <3>2. mem.of > 0
      BY <1>2, <2>3
    <3> QED
      BY <3>1, <3>2
  <2> QED
    BY <2>1, <2>2, <2>3
<1>4. PICK rest \in Seq(Letters) : rest = <<>> /\ Len(rest) = 0
  BY NoLetters
<1>5. Answers(rest) /\ \A i \in 1 .. Len(rest) : rest[i].of = rom.by
  BY <1>1, <1>4
<1>6. At("status") /\ session \notin misled /\ rom.by = session /\ rom.cmd = pc /\ Clear => Answered'
  <2>1. SUFFICES ASSUME rom.by = session, pc = "jump", session \notin misled, Clear PROVE Answered'
    BY <1>1
  <2>2. PICK m \in 1 .. Len(reports') :
          /\ Len(reports') = m + Len(rest)
          /\ reports'[m] = Report(Status)
          /\ \A i \in 1 .. m - 1 : \/ i \in 1 .. Len(reports) /\ reports'[i] = reports[i]
                                   \/ reports'[i] = Report("short")
    BY <1>1, <1>5, AnswersFollow
  <2>3. /\ Report(Status).kind \in {"open", "closed"} /\ Report("short").kind = "short"
        /\ Report(Status).kind = "open" => open
    BY DEF Report, Status
  <2>4. \A i \in 1 .. m - 1 : reports'[i].of = session => reports'[i].kind = "short"
    BY <2>1, <2>2, <2>3 DEF Clear
  <2>5. pc' = "jump" /\ session' = session
    BY <1>1, <2>1 DEF hostVars
  <2>6. mem.of = session /\ session \in Nat /\ session > 0
    BY <1>1, <2>1, SdpAssumption DEF SdpInv, SyncInv, BegunInv, HostTypes
  <2>7. DcdOf(mem.image) = <<>>
    BY <2>6 DEF SdpInv, ImageInv, Good
  <2>8. mem # NoImage
    BY <2>6 DEF NoImage
  <2>9. open => rom'.st = "running" /\ program' = session
    <3>1. ASSUME open PROVE s = "running" /\ program' = session
      BY <1>3, <2>6, <2>7, <2>8, <3>1
    <3>2. PICK r \in Roms : r = rom
      BY <1>1 DEF BoardTypes
    <3>3. rom' = [r EXCEPT !.st = s]
      BY <1>3, <3>2, Zenon
    <3>4. rom'.st = s
      BY <3>3 DEF Roms
    <3> QED
      BY <3>1, <3>4
  <2> QED
    BY <1>4, <2>2, <2>3, <2>4, <2>5, <2>9 DEF Answered
<1>7. /\ reports' \in Seq(Letters)
      /\ \A i \in 1 .. Len(reports') :
           (i \in 1 .. Len(reports) /\ reports'[i] = reports[i]) \/ reports'[i].of = rom.by
  BY <1>1, <1>5, AnswersOwn
<1>8. UNCHANGED <<hostVars, address, output>> /\ mem' = mem /\ program' \in Nat
  BY <1>1, <1>2, <1>3
<1>9. s = "running" => rom.cmd = "jump" /\ mem' = mem /\ program' = mem.of /\ mem.of > 0
  BY <1>1, <1>3, <1>8
<1> QED
  BY <1>1, <1>3, <1>6, <1>7, <1>8, <1>9, RomKeeps

LEMMA SdpStep == SdpInv /\ [Next]_vars => SdpInv'
<1> SUFFICES ASSUME SdpInv, [Next]_vars PROVE SdpInv'
  OBVIOUS
<1>1. ASSUME NEW e \in Elfs, Start(e) PROVE SdpInv'
  BY <1>1, StartKeeps
<1>2. CASE Open \/ Unanswered \/ ReadTimeout \/ Watch \/ Stop \/ Leave
  BY <1>2, MoveSteps
<1>3. CASE MakeImage
  BY <1>3, MakeImageKeeps
<1>4. CASE SendCommand
  BY <1>4, SendCommandKeeps
<1>5. CASE SendData
  BY <1>5, SendDataKeeps
<1>6. CASE CheckSecStatus
  BY <1>6, CheckSecStatusKeeps
<1>7. CASE ReadResponse
  BY <1>7, ReadResponseKeeps
<1>8. CASE RedirectOpen \/ RedirectEnds
  BY <1>8, MoveSteps
<1>9. CASE RedirectShows \/ BoardPrints \/ BoardTakesUsb \/ BoardResets \/ PowerCycle
  BY <1>9, BoardSteps
<1>10. CASE RomDcd
  BY <1>10, RomDcdKeeps
<1>11. CASE RomFile
  BY <1>11, RomFileKeeps
<1>12. CASE RomJump
  BY <1>12, RomJumpKeeps
<1>13. CASE UNCHANGED vars
  <2>1. /\ UNCHANGED hostVars /\ rom' = rom /\ mem' = mem /\ reports' = reports /\ program' = program
        /\ address' = address /\ output' = output
    BY <1>13 DEF vars, boardVars
  <2>2. BoardTypes'
    BY <2>1 DEF SdpInv, BoardTypes
  <2> QED
    BY <2>1, <2>2, BoardKeeps
<1> QED
  BY <1>1, <1>2, <1>3, <1>4, <1>5, <1>6, <1>7, <1>8, <1>9, <1>10, <1>11, <1>12, <1>13, Zenon
  DEF Next, HostStep, Redirect, Rom

(* The host programs and the boot ROM keep in step: the data sent and      *)
(* received agree, the reports that wait are those of the command under    *)
(* way or tagged with an earlier run, and what has been written to memory  *)
(* for a run is the image of that run.                                     *)
THEOREM DownloadInvariance == Spec => []SdpInv
<1>1. Init => SdpInv
  BY SdpInit
<1>2. SdpInv /\ [Next]_vars => SdpInv'
  BY SdpStep
<1> QED
  BY <1>1, <1>2, PTL DEF Spec

(* A run of usd-load or usd-runner that reports success has made the board *)
(* execute the image it sent, and the board executes the image of the run  *)
(* that sent the jump, unless a report left over from an earlier run was   *)
(* taken for an answer.                                                    *)
THEOREM SentIsRun == Spec => []RunsWhatWasSent
<1>1. SdpInv => RunsWhatWasSent
  <2> SUFFICES ASSUME SdpInv PROVE RunsWhatWasSent
    OBVIOUS
  <2>1. HostTypes /\ BoardTypes /\ session \in Nat
    BY SdpAssumption DEF SdpInv, HostTypes
  <2>2. TypeOK
    <3>1. {cold, again, stop} \subseteq BOOLEAN
      BY <2>1, Zenon DEF HostTypes
    <3>2. misled \subseteq 1 .. MaxSessions /\ mem.of \in 0 .. MaxSessions
      BY <2>1, SdpAssumption DEF SdpInv, BegunInv, HostTypes, BoardTypes
    <3>3. rom.st \in {"ready", "data", "exec", "hung", "running"} /\ Len(rom.got) <= rom.count
      BY <2>1 DEF BoardTypes, Roms
    <3> QED
      BY <2>1, <3>1, <3>2, <3>3, Zenon DEF TypeOK, HostTypes, BoardTypes
  <2>3. pc \in {"watch", "flush", "leave", "done"} /\ session \notin misled => program = session
    BY DEF SdpInv, SyncInv
  <2>4. rom.st = "running" /\ rom.by \notin misled => program = rom.by
    <3>1. rom.st = "running" => rom.cmd = "jump"
      BY DEF SdpInv, ImageInv
    <3> QED
      BY <3>1 DEF SdpInv, ImageInv, JumpInv
  <2> QED
    BY <2>2, <2>3, <2>4, Zenon DEF RunsWhatWasSent
<1> QED
  BY <1>1, DownloadInvariance, PTL

(* A program that the run has started lies in memory where it was linked,  *)
(* and the entry point of the image is _start: what Image::from_elf lays   *)
(* out, the chunks of dcd_write and write_file and the linker scripts      *)
(* agree, and the DCD is not executed again.                               *)
THEOREM SentIsInPlace == Spec => []ProgramInPlace
<1>1. SdpInv => ProgramInPlace
  BY DEF SdpInv, ImageInv, ProgramInPlace, Good
<1> QED
  BY <1>1, DownloadInvariance, PTL

=============================================================================
