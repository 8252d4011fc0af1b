----------------------------- MODULE BootImage -----------------------------
(***************************************************************************)
(* Boot images: what the image crate makes of an ELF file, and what its    *)
(* reader and usd-load make of the image.  Sizes and addresses count       *)
(* cells; the image vector table, the boot data and the DCD are one cell   *)
(* each, and every other cell is a zero or a byte of the program, named    *)
(* after the piece of the ELF file it comes from.                          *)
(***************************************************************************)
EXTENDS Naturals, Sequences, FiniteSetsExt

CONSTANTS
  Dram, Ocram,   \* addresses of the two memories
  Padding,       \* PADDING
  Reserved       \* RESERVED

ASSUME BootImageAssumption ==
  /\ Dram \subseteq Nat /\ Ocram \subseteq Nat /\ Dram \cap Ocram = {}
  /\ \E first \in Dram : \A a \in Dram : first =< a
  /\ Padding \in Nat
  /\ Reserved \in Nat /\ Reserved >= 3

DRAM_START == Min(Dram)
self_address == DRAM_START + Padding

IvtSize == 1
BootDataSize == 1

Zero == <<"zero">>
Byte(piece, i) == <<"byte", piece, i>>
DcdCell == <<"dcd">>
BootDataCell(len) == <<"boot", DRAM_START, len>>
IvtCell(entry, dcd) == <<"ivt", entry, dcd, self_address + IvtSize, self_address>>

Zeros(n) == [i \in 1 .. n |-> Zero]

(***************************************************************************)
(* Image::from_elf.  An ELF file is a set of sections, a set of segments   *)
(* and the value of _start, if it has the symbol.                          *)
(***************************************************************************)
SECTIONS == {".text", ".rodata", ".start"}

Piece(from, addr, size) == [from |-> from, addr |-> addr, size |-> size]

InDram(elf) ==
  {Piece(s.name, s.addr, s.size) :
     s \in {t \in elf.sections : t.name \in SECTIONS /\ t.addr \in Dram}}

ToCopy(elf) == {s \in elf.segments : s.virt \in Ocram /\ s.phys \in Dram}

Pieces(elf) ==
  InDram(elf) \cup {Piece(s.name, s.phys, s.mem_size) : s \in ToCopy(elf)}

(* expect and copy_from_slice panic, or _start is missing.                 *)
Convertible(elf) ==
  /\ Pieces(elf) # {}
  /\ \A s \in ToCopy(elf) : s.file_size = s.mem_size
  /\ elf.start # {}

Covers(p, a) == p.addr <= a /\ a < p.addr + p.size

(* Mutant: the end of the piece that ends first. *)
AppToFirstEnd(elf) ==
  LET start == Min({p.addr : p \in Pieces(elf)})
      end == Min({p.addr + p.size : p \in Pieces(elf)}) IN
  [i \in 1 .. end - start |->
     LET a == start + i - 1
         here == {p \in Pieces(elf) : Covers(p, a)} IN
     IF here = {} THEN Zero
     ELSE LET p == CHOOSE p \in here : TRUE IN Byte(p.from, a - p.addr)]

App(elf) ==
  LET start == Min({p.addr : p \in Pieces(elf)})
      end == Max({p.addr + p.size : p \in Pieces(elf)}) IN
  [i \in 1 .. end - start |->
     LET a == start + i - 1
         here == {p \in Pieces(elf) : Covers(p, a)} IN
     IF here = {} THEN Zero
     ELSE LET p == CHOOSE p \in here : TRUE IN Byte(p.from, a - p.addr)]

(***************************************************************************)
(* Image::write                                                            *)
(***************************************************************************)
ImageOf(elf, skip_dcd) ==
  LET app == App(elf)
      entry == CHOOSE e \in elf.start : TRUE
      dcd == IF skip_dcd THEN <<>> ELSE <<DcdCell>>
      dcdPtr == IF skip_dcd THEN 0 ELSE self_address + IvtSize + BootDataSize
      pos == IvtSize + BootDataSize + Len(dcd) IN
  <<IvtCell(entry, dcdPtr), BootDataCell(Padding + Reserved + Len(app))>>
    \o dcd \o Zeros(Reserved - pos) \o app

(***************************************************************************)
(* read::Image::parse, and what usd-load does with the DCD pointer         *)
(***************************************************************************)
IvtOf(image) == [entry |-> image[1][2], dcd |-> image[1][3], self |-> image[1][5]]

(* The DCD an image contains; <<>> if its pointer is 0.                    *)
DcdOf(image) ==
  LET ivt == IvtOf(image) IN
  IF ivt.dcd = 0 THEN <<>> ELSE <<image[ivt.dcd - ivt.self + 1]>>

ClearDcd(image) == [image EXCEPT ![1][3] = 0]

(***************************************************************************)
(* What an image promises once it is in memory from address `self` on:     *)
(* every piece of the program is where the linker has put it, and the      *)
(* entry point is _start.                                                  *)
(***************************************************************************)
InPlace(elf, image) ==
  /\ IvtOf(image).entry \in elf.start
  /\ \A p \in Pieces(elf) : \A i \in 0 .. p.size - 1 :
       LET k == p.addr + i - IvtOf(image).self + 1 IN
       k \in 1 .. Len(image) /\ image[k] = Byte(p.from, i)

=============================================================================
