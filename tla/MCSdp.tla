------------------------------- MODULE MCSdp -------------------------------
(* Two programs as the linker scripts lay them out, and two that from_elf  *)
(* does not take.  DRAM starts at 10: one cell of padding, four reserved,  *)
(* and the program from 15 on, the ORIGIN of the linker scripts.           *)
EXTENDS Sdp

MCDram == 10 .. 24
MCOcram == 30 .. 39

Section(name, addr, size) == [name |-> name, addr |-> addr, size |-> size]
Segment(name, virt, phys, size, file_size) ==
  [name |-> name, virt |-> virt, phys |-> phys, mem_size |-> size, file_size |-> file_size]

(* link-dram.x: only .data is copied to OCRAM.  A gap before .rodata. *)
LinkDram ==
  [sections |-> {Section(".text", 15, 1), Section(".rodata", 17, 1),
                 Section(".data", 30, 1), Section(".bss", 31, 2)},
   segments |-> {Segment("text", 15, 15, 3, 3), Segment("data", 30, 18, 1, 1)},
   start |-> {15}]

(* link-ocram.x: all but .start is copied to OCRAM, and .start comes last. *)
LinkOcram ==
  [sections |-> {Section(".text", 30, 2), Section(".rodata", 32, 1), Section(".start", 18, 1)},
   segments |-> {Segment("text", 30, 15, 2, 2), Segment("rodata", 32, 17, 1, 1),
                 Segment("start", 18, 18, 1, 1)},
   start |-> {18}]

BssInSegment ==
  [LinkDram EXCEPT !.segments = {Segment("data", 30, 18, 2, 1)}]

NoStart == [LinkOcram EXCEPT !.start = {}]

MCElfs == {LinkDram, LinkOcram, BssInSegment, NoStart}
=============================================================================
