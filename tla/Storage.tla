------------------------------ MODULE Storage ------------------------------
(***************************************************************************)
(* Block devices and partitions: usbarmory/src/storage.rs above the        *)
(* ManagedBlockDevice of the eMMC card, and below it the storage adapter   *)
(* of usbarmory/src/fs.rs (LfsStorage), which cuts the buffers of littlefs *)
(* into blocks.                                                            *)
(*                                                                         *)
(* A block of the medium holds a partition table [entries], or data.       *)
(* The raw device may fail: a failed write leaves the block old, new or    *)
(* torn.  PowerCut loses everything but the medium.                        *)
(***************************************************************************)
EXTENDS Naturals, Sequences

CONSTANTS
  Total,     \* total_blocks of the raw device
  WordMax,   \* u32::MAX
  Slots,     \* entries of a partition table
  Entries,   \* the partition entries programs and disks contain
  Data,      \* contents of blocks other than partition tables
  Torn,      \* the contents of a half-written block
  Buffers,   \* what littlefs reads or writes in one call, sequences of blocks
  Offsets,   \* and where, in blocks
  Media,     \* the states in which the raw device may be found
  None

Word == 0 .. WordMax
Index == 0 .. Slots - 1
Lbas == 0 .. Total - 1

Entry(t, s, n) == [part_type |-> t, start |-> s, sectors |-> n]
zeroed == Entry(0, 0, 0)

ASSUME SizeAssumption == Total \in Nat \ {0} /\ WordMax \in Nat /\ Slots \in Nat \ {0}
ASSUME EntryAssumption ==
  /\ Entries \subseteq [part_type : {0, 131}, start : Word, sectors : Word]
  /\ zeroed \in Entries
ASSUME BufferAssumption == Buffers \subseteq Seq(Data) \ {<<>>} /\ Offsets \subseteq Nat

Mbrs == [entries : [Index -> Entries]]
Contents == Mbrs \cup Data \cup {Torn}

ASSUME MediaAssumption == Media \subseteq [Lbas -> Contents]

Extent(e) == [start |-> e.start, sectors |-> e.sectors]

VARIABLES
  table,    \* PartitionTable being built
  device,   \* MbrDevice, or None: its part_table, and whether `open` made it
  view,     \* MbrPartitionRef, or None
  io,       \* call of LfsStorage in progress, or None
  status,   \* what the last call of this module returned
  medium    \* the blocks of the raw device

storage == <<table, device, view, io, status, medium>>

Statuses == {"ok", "error", "panic"}
Calls == [op : {"read", "write"}, lba : Nat, todo : Seq(Data), got : Seq(Contents)]

ASSUME NoneAssumption == None \notin Calls

(* PartitionTable::new. *)
NewTable == [entries |-> [i \in Index |-> zeroed], index |-> 0]

StorageInit ==
  /\ table = NewTable
  /\ device = None
  /\ view = None
  /\ io = None
  /\ status = "ok"
  /\ medium \in Media

-----------------------------------------------------------------------------
(* The raw device (ManagedBlockDevice of eMMC). *)

(* An address past the device is an error, except the first one, which     *)
(* the assertions of eMMC::read and eMMC::write catch.                     *)
RawRefusal(lba) == IF lba > Total THEN "error" ELSE "panic"

RawReadFails(lba, out) ==
  /\ out = IF lba \in Lbas THEN "error" ELSE RawRefusal(lba)
  /\ UNCHANGED medium

RawWriteFails(lba, block, out) ==
  IF lba \in Lbas
    THEN /\ out = "error"
         /\ medium' \in {medium, [medium EXCEPT ![lba] = block],
                         [medium EXCEPT ![lba] = Torn]}
    ELSE /\ out = RawRefusal(lba)
         /\ UNCHANGED medium

RawWrites(lba, block) ==
  /\ lba \in Lbas
  /\ medium' = [medium EXCEPT ![lba] = block]

-----------------------------------------------------------------------------
(* PartitionTable and MbrDevice. *)

LastEnd ==
  IF table.index = 0 THEN 0
  ELSE LET e == table.entries[table.index - 1] IN e.start + e.sectors

(* PartitionTable::add.  The index is not advanced. *)
add(e) ==
  /\ device = None
  /\ IF e.start < LastEnd THEN status' = "error" /\ UNCHANGED table
     ELSE IF table.index < Slots
       THEN status' = "ok" /\ table' = [table EXCEPT !.entries[table.index] = e]
     ELSE status' = "error" /\ UNCHANGED table
  /\ UNCHANGED <<device, view, io, medium>>

(* MbrDevice::create: the end of the last entry is checked, the table      *)
(* written to block 0.  The next table a program builds is a new one.      *)
create ==
  /\ device = None
  /\ table' = NewTable
  /\ \/ LastEnd > Total /\ status' = "error" /\ UNCHANGED <<device, medium>>
     \/ /\ LastEnd <= Total
        /\ RawWrites(0, [entries |-> table.entries])
        /\ status' = "ok"
        /\ device' = [entries |-> table.entries, opened |-> FALSE]
     \/ /\ LastEnd <= Total
        /\ RawWriteFails(0, [entries |-> table.entries], status')
        /\ UNCHANGED device
  /\ UNCHANGED <<view, io>>

(* Mutant: the check forgets that block 0 holds the table. *)
ValidFromZero(e) ==
  e.part_type # 0 =>
    /\ e.start < Total
    /\ e.start + e.sectors # 0 /\ e.start + e.sectors < Total
    /\ e.start + e.sectors <= WordMax

(* Mutant: the sum is computed in u32. *)
ValidInWord(e) ==
  LET end == (e.start + e.sectors) % (WordMax + 1) IN
  e.part_type # 0 =>
    /\ e.start # 0 /\ e.start < Total
    /\ end # 0 /\ end < Total

(* The checks of `open` on an allocated entry. *)
Valid(e) ==
  LET end == e.start + e.sectors IN
  e.part_type # 0 =>
    /\ e.start # 0 /\ e.start < Total
    /\ end # 0 /\ end < Total
    /\ end <= WordMax

(* The magic number is there, and every allocated entry is valid. *)
TableIsValid == medium[0] \in Mbrs /\ \A i \in Index : Valid(medium[0].entries[i])

(* MbrDevice::open. *)
open ==
  /\ device = None
  /\ \/ /\ TableIsValid
        /\ status' = "ok"
        /\ device' = [entries |-> medium[0].entries, opened |-> TRUE]
     \/ ~ TableIsValid /\ status' = "error" /\ UNCHANGED device
     \/ RawReadFails(0, status') /\ UNCHANGED device
  /\ UNCHANGED <<table, view, io, medium>>

(* MbrDevice::partition; the reference keeps the device borrowed. *)
partition(p) ==
  /\ device # None /\ view = None
  /\ IF p \in Index /\ device.entries[p].part_type # 0
       THEN view' = Extent(device.entries[p]) /\ status' = "ok"
       ELSE status' = "error" /\ UNCHANGED view
  /\ UNCHANGED <<table, device, io, medium>>

(* The partition reference goes out of scope, or the device with it. *)
release ==
  /\ io = None /\ device # None
  /\ view' = None
  /\ device' \in {None} \cup (IF view = None THEN {} ELSE {device})
  /\ UNCHANGED <<table, io, status, medium>>

-----------------------------------------------------------------------------
(* LfsStorage: one block at a time, through the partition. *)

Begin(op, lba, data) ==
  /\ view # None /\ io = None
  /\ io' = [op |-> op, lba |-> lba, todo |-> data, got |-> <<>>]
  /\ UNCHANGED <<table, device, view, status, medium>>

(* For a read, `data` only gives the size of the buffer. *)
lfs_read(lba, data) == Begin("read", lba, data)
lfs_write(lba, data) == Begin("write", lba, data)

(* The call is over; got is what a read has put into the buffer. *)
End(out) ==
  /\ status' = out
  /\ io' = None
  /\ UNCHANGED <<table, device, view>>

(* Mutant: off by one. *)
LooseRange(lba) == lba <= view.sectors

InRange(lba) == lba < view.sectors

(* MbrPartitionRef::read and LfsStorage::read, one chunk. *)
ReadBlock ==
  /\ io # None /\ io.op = "read" /\ io.todo # <<>>
  /\ \/ ~ InRange(io.lba) /\ End("error") /\ UNCHANGED medium
     \/ /\ InRange(io.lba)
        /\ view.start + io.lba \in Lbas
        /\ io' = [io EXCEPT !.lba = @ + 1, !.todo = Tail(@),
                            !.got = Append(@, medium[view.start + io.lba])]
        /\ UNCHANGED <<table, device, view, status, medium>>
     \/ /\ InRange(io.lba)
        /\ RawReadFails(view.start + io.lba, status')
        /\ End(status')

(* Mutant: the adapter goes on after an error. *)
WriteBlockGoesOn ==
  /\ io # None /\ io.op = "write" /\ io.todo # <<>>
  /\ \/ RawWrites(view.start + io.lba, Head(io.todo))
     \/ \E out \in {"error"} : RawWriteFails(view.start + io.lba, Head(io.todo), out)
  /\ io' = [io EXCEPT !.lba = @ + 1, !.todo = Tail(@)]
  /\ UNCHANGED <<table, device, view, status>>

(* MbrPartitionRef::write and LfsStorage::write, one chunk. *)
WriteBlock ==
  /\ io # None /\ io.op = "write" /\ io.todo # <<>>
  /\ \/ ~ InRange(io.lba) /\ End("error") /\ UNCHANGED medium
     \/ /\ InRange(io.lba)
        /\ RawWrites(view.start + io.lba, Head(io.todo))
        /\ io' = [io EXCEPT !.lba = @ + 1, !.todo = Tail(@)]
        /\ UNCHANGED <<table, device, view, status>>
     \/ /\ InRange(io.lba)
        /\ RawWriteFails(view.start + io.lba, Head(io.todo), status')
        /\ End(status')

(* The buffer is done; a write ends with a flush, which eMMC ignores. *)
Finish ==
  /\ io # None /\ io.todo = <<>>
  /\ End("ok")
  /\ UNCHANGED medium

(* LfsStorage::erase changes nothing. *)
lfs_erase ==
  /\ view # None /\ io = None
  /\ status' = "ok"
  /\ UNCHANGED <<table, device, view, io, medium>>

PowerCut ==
  /\ table' = NewTable
  /\ device' = None
  /\ view' = None
  /\ io' = None
  /\ status' = "ok"
  /\ UNCHANGED medium

Transfer == ReadBlock \/ WriteBlock \/ Finish
Alive == status # "panic"

StorageNext ==
  \/ /\ Alive
     /\ \/ \E e \in Entries : add(e)
        \/ create
        \/ open
        \/ \E p \in 0 .. Slots : partition(p)
        \/ release
        \/ \E lba \in Offsets, data \in Buffers : lfs_read(lba, data) \/ lfs_write(lba, data)
        \/ lfs_erase
        \/ Transfer
  \/ PowerCut

StorageSpec == StorageInit /\ [][StorageNext]_storage

-----------------------------------------------------------------------------
StorageTypeOK ==
  /\ table \in [entries : [Index -> Entries], index : 0 .. Slots]
  /\ device \in {None} \cup [entries : [Index -> Entries], opened : BOOLEAN]
  /\ view \in {None} \cup [start : Word, sectors : Word]
  /\ io \in {None} \cup Calls
  /\ status \in Statuses
  /\ medium \in [Lbas -> Contents]
  /\ device = None => view = None
  /\ view = None => io = None

(* The blocks of the partition in use. *)
Inside == {b \in Lbas : view.start <= b /\ b < view.start + view.sectors}

(* Through a partition of an opened device only blocks of this partition   *)
(* change, and never the partition table (MbrPartitionRef and the checks   *)
(* of MbrDevice::open).                                                    *)
Confinement ==
  [][device # None /\ device.opened =>
       \A b \in Lbas : medium'[b] # medium[b] => view # None /\ b \in Inside \ {0}]_storage

(* As long as an opened device is used, block 0 holds the table that       *)
(* `open` read: a partition cannot overwrite it, whatever fails.           *)
TableSurvives == device # None /\ device.opened => medium[0] = [entries |-> device.entries]

(* No access through an opened device reaches the assertion "block doesn't *)
(* exist" of eMMC::read and eMMC::write.                                   *)
NoAssertion == device # None /\ device.opened => status # "panic"

=============================================================================
