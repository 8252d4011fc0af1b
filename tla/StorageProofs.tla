--------------------------- MODULE StorageProofs ---------------------------
(***************************************************************************)
(* What MbrDevice::open checks is enough: through a partition of an opened *)
(* device only blocks of that partition change, the partition table stays  *)
(* what `open` read, and no access reaches the assertions of the eMMC      *)
(* driver, for a device of any size and any tables on it.                  *)
(*                                                                         *)
(* The file system wrapper inherits this, since each of its steps is a     *)
(* step of the storage; what a sync or a close has saved stays on the      *)
(* medium, every path closes the file, and no error gets lost, for files,  *)
(* partitions and contents of any size and number.                         *)
(***************************************************************************)
EXTENDS FileSystem, SequenceTheorems, TLAPS

InUse == device # None /\ device.opened

(* An extent that passed the checks of `open`. *)
Within(x) == x.start # 0 /\ x.start + x.sectors < Total

EntriesWithin ==
  InUse => \A i \in Index : device.entries[i].part_type # 0 => Within(device.entries[i])

ViewWithin == InUse /\ view # None => Within(view)

StorageInv ==
  StorageTypeOK /\ EntriesWithin /\ ViewWithin /\ TableSurvives /\ NoAssertion

Devices == [entries : [Index -> Entries], opened : BOOLEAN]
Extents == [start : Word, sectors : Word]

LEMMA Typed ==
  ASSUME StorageTypeOK
  PROVE  /\ table.entries \in [Index -> Entries] /\ table.index \in 0 .. Slots
         /\ device # None => device \in Devices
         /\ view # None => device # None /\ view \in Extents /\ view.start \in Nat
                           /\ view.sectors \in Nat
         /\ io # None => /\ view # None /\ io \in Calls /\ io.lba \in Nat
                         /\ io.todo \in Seq(Data) /\ io.got \in Seq(Contents)
BY SizeAssumption DEF StorageTypeOK, Devices, Extents, Calls, Word

LEMMA EntryTyped ==
  ASSUME NEW e \in Entries
  PROVE  e.start \in Word /\ e.sectors \in Word /\ e.start \in Nat /\ e.sectors \in Nat
BY SizeAssumption, EntryAssumption DEF Word

LEMMA ZeroInLbas == 0 \in Lbas /\ 0 \in Nat
BY SizeAssumption DEF Lbas

LEMMA TableIsContents ==
  ASSUME NEW t \in [Index -> Entries]
  PROVE  [entries |-> t] \in Contents
BY DEF Contents, Mbrs

LEMMA NewTableTyped == NewTable \in [entries : [Index -> Entries], index : 0 .. Slots]
BY SizeAssumption, EntryAssumption DEF NewTable, Index

(* The raw device keeps its type, and changes the block written only. *)
LEMMA RawWrite ==
  ASSUME medium \in [Lbas -> Contents], NEW lba \in Nat, NEW block \in Contents, NEW out,
         RawWrites(lba, block) \/ RawWriteFails(lba, block, out)
  PROVE  /\ medium' \in [Lbas -> Contents]
         /\ \A b \in Lbas : b # lba => medium'[b] = medium[b]
         /\ RawWrites(lba, block) => lba \in Lbas
         /\ RawWriteFails(lba, block, out) => /\ out \in Statuses
                                              /\ lba \in Lbas => out # "panic"
<1>1. Torn \in Contents
  BY DEF Contents
<1>2. CASE RawWrites(lba, block)
  <2>1. ~ RawWriteFails(lba, block, out) \/ (out = "error" /\ lba \in Lbas)
    BY <1>2 DEF RawWrites, RawWriteFails
  <2> QED
    BY <1>2, <2>1 DEF RawWrites, Statuses
<1>3. CASE RawWriteFails(lba, block, out)
  <2>1. out \in Statuses /\ (lba \in Lbas => out # "panic")
    BY <1>3 DEF RawWriteFails, RawRefusal, Statuses
  <2>2. medium' = medium \/ (lba \in Lbas /\ \E x \in Contents : medium' = [medium EXCEPT ![lba] = x])
    BY <1>1, <1>3 DEF RawWriteFails
  <2>3. RawWrites(lba, block) => lba \in Lbas
    BY DEF RawWrites
  <2> QED
    BY <2>1, <2>2, <2>3
<1> QED
  BY <1>2, <1>3

LEMMA RawRead ==
  ASSUME NEW lba \in Nat, NEW out, RawReadFails(lba, out)
  PROVE  /\ medium' = medium /\ out \in Statuses
         /\ lba \in Lbas => out # "panic"
BY DEF RawReadFails, RawRefusal, Statuses

(* A block of the partition in use is a block of the device, not block 0.  *)
LEMMA PartitionBlock ==
  ASSUME StorageInv, view # None, NEW lba \in Nat, InRange(lba)
  PROVE  /\ view.start + lba \in Nat
         /\ InUse => /\ view.start + lba \in Lbas /\ view.start + lba \in Inside
                     /\ view.start + lba # 0
<1>1. view.start \in Nat /\ view.sectors \in Nat /\ lba < view.sectors
  BY Typed DEF StorageInv, InRange
<1>2. InUse => view.start # 0 /\ view.start + view.sectors < Total
  BY DEF StorageInv, ViewWithin, Within
<1> QED
  BY <1>1, <1>2, SizeAssumption DEF Lbas, Inside

(***************************************************************************)
(* The inductive step, one lemma per action.                               *)
(***************************************************************************)
LEMMA InitInv == StorageInit => StorageInv
<1> SUFFICES ASSUME StorageInit PROVE StorageInv
  OBVIOUS
<1>1. StorageTypeOK
  BY NewTableTyped, MediaAssumption DEF StorageInit, StorageTypeOK, Statuses
<1> QED
  BY <1>1 DEF StorageInit, StorageInv, EntriesWithin, ViewWithin, InUse, TableSurvives,
              NoAssertion

LEMMA AddKeeps ==
  ASSUME StorageInv, NEW e \in Entries, add(e)
  PROVE  StorageInv'
<1>1. table' \in [entries : [Index -> Entries], index : 0 .. Slots] /\ status' \in Statuses
  <2>1. table \in [entries : [Index -> Entries], index : 0 .. Slots]
    BY DEF StorageInv, StorageTypeOK
  <2> QED
    BY <2>1 DEF add, Statuses
<1>2. StorageTypeOK'
  BY <1>1 DEF StorageInv, StorageTypeOK, add
<1> QED
  BY <1>2 DEF StorageInv, add, EntriesWithin, ViewWithin, InUse, TableSurvives, NoAssertion

LEMMA CreateKeeps == ASSUME StorageInv, create PROVE StorageInv'
<1>1. device = None /\ view = None /\ io = None
  BY DEF create, StorageInv, StorageTypeOK
<1>2. table.entries \in [Index -> Entries] /\ [entries |-> table.entries] \in Contents
  BY Typed, TableIsContents DEF StorageInv
<1>3. medium' \in [Lbas -> Contents] /\ status' \in Statuses
  <2>1. medium \in [Lbas -> Contents]
    BY DEF StorageInv, StorageTypeOK
  <2>2. CASE LastEnd > Total /\ status' = "error" /\ UNCHANGED <<device, medium>>
    BY <2>1, <2>2 DEF Statuses
  <2>3. CASE RawWrites(0, [entries |-> table.entries]) /\ status' = "ok"
    BY <1>2, <2>1, <2>3, ZeroInLbas, RawWrite DEF Statuses
  <2>4. CASE RawWriteFails(0, [entries |-> table.entries], status')
    BY <1>2, <2>1, <2>4, ZeroInLbas, RawWrite
  <2> QED
    BY <2>2, <2>3, <2>4 DEF create
<1>4. device' \in {None} \cup Devices /\ (device' # None => ~ device'.opened)
  <2>1. device' = None \/ device' = [entries |-> table.entries, opened |-> FALSE]
    BY <1>1 DEF create
  <2>2. [entries |-> table.entries, opened |-> FALSE] \in Devices
    BY <1>2 DEF Devices
  <2>3. ~ [entries |-> table.entries, opened |-> FALSE].opened
    OBVIOUS
  <2> QED
    BY <2>1, <2>2, <2>3
<1>5. StorageTypeOK'
  BY <1>1, <1>3, <1>4, NewTableTyped DEF create, StorageTypeOK, Devices
<1> QED
  BY <1>4, <1>5 DEF StorageInv, EntriesWithin, ViewWithin, InUse, TableSurvives, NoAssertion

LEMMA OpenKeeps == ASSUME StorageInv, open PROVE StorageInv'
<1>1. device = None /\ view = None /\ io = None /\ medium' = medium /\ table' = table
      /\ view' = None /\ io' = None /\ medium \in [Lbas -> Contents]
  BY DEF open, StorageInv, StorageTypeOK
<1>2. CASE /\ TableIsValid /\ status' = "ok"
           /\ device' = [entries |-> medium[0].entries, opened |-> TRUE]
  <2>1. medium[0] \in Mbrs /\ medium[0].entries \in [Index -> Entries]
        /\ medium[0] = [entries |-> medium[0].entries]
    BY <1>2 DEF TableIsValid, Mbrs
  <2>2. device' \in Devices /\ device'.entries = medium[0].entries
    BY <1>2, <2>1 DEF Devices
  <2>3. StorageTypeOK'
    BY <1>1, <1>2, <2>2 DEF StorageInv, StorageTypeOK, Devices, Statuses
  <2>4. \A i \in Index : device'.entries[i].part_type # 0 => Within(device'.entries[i])
    BY <1>2, <2>2 DEF TableIsValid, Valid, Within
  <2> QED
    BY <1>1, <1>2, <2>1, <2>2, <2>3, <2>4
       DEF StorageInv, EntriesWithin, ViewWithin, InUse, TableSurvives, NoAssertion
<1>3. CASE device' = device /\ status' \in Statuses
  <2>1. StorageTypeOK'
    BY <1>1, <1>3 DEF StorageInv, StorageTypeOK
  <2> QED
    BY <1>1, <1>3, <2>1 DEF StorageInv, EntriesWithin, ViewWithin, InUse, TableSurvives,
                            NoAssertion
<1>4. RawReadFails(0, status') => status' \in Statuses
  BY ZeroInLbas, RawRead
<1> QED
  BY <1>2, <1>3, <1>4 DEF open, Statuses

LEMMA PartitionKeeps ==
  ASSUME StorageInv, NEW p \in 0 .. Slots, partition(p)
  PROVE  StorageInv'
<1>1. device # None /\ device \in Devices /\ view = None /\ io = None
      /\ device' = device /\ io' = io /\ medium' = medium /\ table' = table
  BY Typed DEF partition, StorageInv, StorageTypeOK
<1>2. CASE /\ p \in Index /\ device.entries[p].part_type # 0
           /\ view' = Extent(device.entries[p]) /\ status' = "ok"
  <2>1. device.entries[p] \in Entries
    BY <1>1, <1>2 DEF Devices
  <2>2. view' \in Extents /\ view'.start = device.entries[p].start
        /\ view'.sectors = device.entries[p].sectors
    BY <1>2, <2>1, EntryTyped DEF Extent, Extents
  <2>3. StorageTypeOK'
    BY <1>1, <1>2, <2>2 DEF StorageInv, StorageTypeOK, Extents, Statuses
  <2>4. InUse => Within(device.entries[p])
    BY <1>2 DEF StorageInv, EntriesWithin
  <2>5. ViewWithin'
    BY <1>1, <2>2, <2>4 DEF ViewWithin, InUse, Within
  <2> QED
    BY <1>1, <1>2, <2>3, <2>5 DEF StorageInv, EntriesWithin, InUse, TableSurvives, NoAssertion
<1>3. CASE status' = "error" /\ view' = view
  <2>1. StorageTypeOK'
    BY <1>1, <1>3 DEF StorageInv, StorageTypeOK, Statuses
  <2> QED
    BY <1>1, <1>3, <2>1 DEF StorageInv, EntriesWithin, ViewWithin, InUse, TableSurvives,
                            NoAssertion
<1> QED
  BY <1>2, <1>3 DEF partition

LEMMA ReleaseKeeps == ASSUME StorageInv, release PROVE StorageInv'
<1>1. io = None /\ view' = None /\ device' \in {None, device}
      /\ table' = table /\ io' = io /\ status' = status /\ medium' = medium
  BY DEF release
<1>2. StorageTypeOK'
  BY <1>1 DEF StorageInv, StorageTypeOK
<1> QED
  BY <1>1, <1>2 DEF StorageInv, EntriesWithin, ViewWithin, InUse, TableSurvives, NoAssertion

(* The calls of LfsStorage that leave the medium alone. *)
LEMMA BeginKeeps ==
  ASSUME StorageInv, NEW op \in {"read", "write"}, NEW lba \in Offsets, NEW data \in Buffers,
         Begin(op, lba, data)
  PROVE  StorageInv'
<1>1. io' \in Calls
  <2>1. lba \in Nat /\ data \in Seq(Data) /\ <<>> \in Seq(Contents)
    BY BufferAssumption
  <2> QED
    BY <2>1 DEF Begin, Calls
<1>2. view # None /\ table' = table /\ device' = device /\ view' = view /\ status' = status
      /\ medium' = medium
  BY DEF Begin
<1>3. StorageTypeOK'
  BY <1>1, <1>2 DEF StorageInv, StorageTypeOK
<1> QED
  BY <1>2, <1>3 DEF StorageInv, EntriesWithin, ViewWithin, InUse, TableSurvives, NoAssertion

LEMMA EndKeeps ==
  ASSUME StorageInv, NEW out \in Statuses, End(out),
         medium' \in [Lbas -> Contents],
         InUse => out # "panic" /\ medium'[0] = medium[0]
  PROVE  StorageInv'
<1>1. status' = out /\ io' = None /\ table' = table /\ device' = device /\ view' = view
  BY DEF End
<1>2. StorageTypeOK'
  BY <1>1 DEF StorageInv, StorageTypeOK
<1> QED
  BY <1>1, <1>2 DEF StorageInv, EntriesWithin, ViewWithin, InUse, TableSurvives, NoAssertion

(* One more block of a transfer. *)
LEMMA BlockKeeps ==
  ASSUME StorageInv, io # None, io' \in Calls,
         UNCHANGED <<table, device, view, status>>,
         medium' \in [Lbas -> Contents], InUse => medium'[0] = medium[0]
  PROVE  StorageInv'
<1>1. StorageTypeOK'
  BY DEF StorageInv, StorageTypeOK
<1> QED
  BY <1>1 DEF StorageInv, EntriesWithin, ViewWithin, InUse, TableSurvives, NoAssertion

LEMMA ReadBlockKeeps == ASSUME StorageInv, ReadBlock PROVE StorageInv'
<1>1. /\ io # None /\ view # None /\ io \in Calls /\ io.lba \in Nat /\ io.todo \in Seq(Data)
      /\ io.got \in Seq(Contents) /\ io.todo # <<>> /\ medium \in [Lbas -> Contents]
  BY Typed DEF ReadBlock, StorageInv, StorageTypeOK
<1>2. CASE ~ InRange(io.lba) /\ End("error") /\ UNCHANGED medium
  BY <1>1, <1>2, EndKeeps DEF Statuses
<1>3. CASE /\ InRange(io.lba)
           /\ view.start + io.lba \in Lbas
           /\ io' = [io EXCEPT !.lba = @ + 1, !.todo = Tail(@),
                               !.got = Append(@, medium[view.start + io.lba])]
           /\ UNCHANGED <<table, device, view, status, medium>>
  <2>1. /\ io.lba + 1 \in Nat /\ Tail(io.todo) \in Seq(Data)
        /\ Append(io.got, medium[view.start + io.lba]) \in Seq(Contents)
    BY <1>1, <1>3
  <2>2. io' \in Calls
    BY <1>1, <1>3, <2>1 DEF Calls
  <2> QED
    BY <1>1, <1>3, <2>2, BlockKeeps
<1>4. CASE InRange(io.lba) /\ RawReadFails(view.start + io.lba, status') /\ End(status')
  <2>1. view.start + io.lba \in Nat /\ (InUse => view.start + io.lba \in Lbas)
    BY <1>1, <1>4, PartitionBlock
  <2>2. medium' = medium /\ status' \in Statuses /\ (InUse => status' # "panic")
    BY <1>4, <2>1, RawRead
  <2> QED
    BY <1>1, <1>4, <2>2, EndKeeps
<1> QED
  BY <1>2, <1>3, <1>4 DEF ReadBlock

LEMMA WriteBlockKeeps == ASSUME StorageInv, WriteBlock PROVE StorageInv'
<1>1. /\ io # None /\ view # None /\ io \in Calls /\ io.lba \in Nat /\ io.todo \in Seq(Data)
      /\ io.todo # <<>> /\ medium \in [Lbas -> Contents]
  BY Typed DEF WriteBlock, StorageInv, StorageTypeOK
<1>2. Head(io.todo) \in Contents
  BY <1>1 DEF Contents
<1>3. CASE ~ InRange(io.lba) /\ End("error") /\ UNCHANGED medium
  BY <1>1, <1>3, EndKeeps DEF Statuses
<1>4. CASE /\ InRange(io.lba)
           /\ RawWrites(view.start + io.lba, Head(io.todo))
           /\ io' = [io EXCEPT !.lba = @ + 1, !.todo = Tail(@)]
           /\ UNCHANGED <<table, device, view, status>>
  <2>1. io.lba + 1 \in Nat /\ Tail(io.todo) \in Seq(Data)
    BY <1>1
  <2>2. io' \in Calls
    BY <1>1, <1>4, <2>1 DEF Calls
  <2>3. view.start + io.lba \in Nat /\ (InUse => view.start + io.lba # 0)
    BY <1>1, <1>4, PartitionBlock
  <2>4. medium' \in [Lbas -> Contents] /\ (InUse => medium'[0] = medium[0])
    BY <1>1, <1>2, <1>4, <2>3, RawWrite, ZeroInLbas
  <2> QED
    BY <1>1, <1>4, <2>2, <2>4, BlockKeeps
<1>5. CASE /\ InRange(io.lba)
           /\ RawWriteFails(view.start + io.lba, Head(io.todo), status')
           /\ End(status')
  <2>1. view.start + io.lba \in Nat
        /\ (InUse => view.start + io.lba # 0 /\ view.start + io.lba \in Lbas)
    BY <1>1, <1>5, PartitionBlock
  <2>2. /\ medium' \in [Lbas -> Contents] /\ status' \in Statuses
        /\ InUse => medium'[0] = medium[0] /\ status' # "panic"
    BY <1>1, <1>2, <1>5, <2>1, RawWrite, ZeroInLbas
  <2> QED
    BY <1>5, <2>2, EndKeeps
<1> QED
  BY <1>3, <1>4, <1>5 DEF WriteBlock

LEMMA FinishKeeps == ASSUME StorageInv, Finish PROVE StorageInv'
BY EndKeeps DEF Finish, Statuses, StorageInv, StorageTypeOK

LEMMA EraseKeeps == ASSUME StorageInv, lfs_erase PROVE StorageInv'
<1>1. StorageTypeOK'
  BY DEF lfs_erase, StorageInv, StorageTypeOK, Statuses
<1> QED
  BY <1>1 DEF lfs_erase, StorageInv, EntriesWithin, ViewWithin, InUse, TableSurvives, NoAssertion

LEMMA PowerCutKeeps == ASSUME StorageInv, PowerCut PROVE StorageInv'
<1>1. StorageTypeOK'
  BY NewTableTyped DEF PowerCut, StorageInv, StorageTypeOK, Statuses
<1> QED
  BY <1>1 DEF PowerCut, StorageInv, EntriesWithin, ViewWithin, InUse, TableSurvives, NoAssertion

LEMMA StepInv == StorageInv /\ [StorageNext]_storage => StorageInv'
<1> SUFFICES ASSUME StorageInv, [StorageNext]_storage PROVE StorageInv'
  OBVIOUS
<1>1. CASE \E e \in Entries : add(e)
  BY <1>1, AddKeeps
<1>2. CASE create \/ open \/ release
  BY <1>2, CreateKeeps, OpenKeeps, ReleaseKeeps
<1>3. CASE \E p \in 0 .. Slots : partition(p)
  BY <1>3, PartitionKeeps
<1>4. CASE \E lba \in Offsets, data \in Buffers : lfs_read(lba, data) \/ lfs_write(lba, data)
  BY <1>4, BeginKeeps DEF lfs_read, lfs_write
<1>5. CASE lfs_erase \/ PowerCut
  BY <1>5, EraseKeeps, PowerCutKeeps
<1>6. CASE Transfer
  BY <1>6, ReadBlockKeeps, WriteBlockKeeps, FinishKeeps DEF Transfer
<1>7. CASE UNCHANGED storage
  BY <1>7 DEF storage, StorageInv, StorageTypeOK, EntriesWithin, ViewWithin, InUse,
              TableSurvives, NoAssertion
<1> QED
  BY <1>1, <1>2, <1>3, <1>4, <1>5, <1>6, <1>7 DEF StorageNext

LEMMA StorageInvariant == StorageSpec => []StorageInv
BY InitInv, StepInv, PTL DEF StorageSpec

(* Types, for every device, table and sequence of calls and failures. *)
THEOREM StorageTyped == StorageSpec => []StorageTypeOK
<1>1. StorageInv => StorageTypeOK
  BY DEF StorageInv
<1> QED
  BY <1>1, StorageInvariant, PTL

(* The table that MbrDevice::open read stays on the medium while the       *)
(* device is used, whatever is written through its partitions and fails.   *)
THEOREM TableIsKept == StorageSpec => []TableSurvives
<1>1. StorageInv => TableSurvives
  BY DEF StorageInv
<1> QED
  BY <1>1, StorageInvariant, PTL

(* No access through an opened device reaches the assertions of the eMMC   *)
(* driver that the block exists.                                           *)
THEOREM NoPanic == StorageSpec => []NoAssertion
<1>1. StorageInv => NoAssertion
  BY DEF StorageInv
<1> QED
  BY <1>1, StorageInvariant, PTL

(* Through a partition of an opened device only blocks of that partition   *)
(* change, and never the partition table.                                  *)
THEOREM WritesAreConfined == StorageSpec => Confinement
<1> DEFINE Confined == InUse => \A b \in Lbas : medium'[b] # medium[b] =>
                                                  view # None /\ b \in Inside \ {0}
<1>1. ASSUME StorageInv, [StorageNext]_storage PROVE [Confined]_storage
  <2>1. CASE medium' = medium \/ ~ InUse
    BY <2>1
  <2>2. CASE WriteBlock /\ InUse
    <3>1. /\ io # None /\ view # None /\ io.lba \in Nat /\ io.todo \in Seq(Data)
          /\ io.todo # <<>> /\ medium \in [Lbas -> Contents]
      BY <1>1, <2>2, Typed DEF WriteBlock, StorageInv, StorageTypeOK
    <3>2. Head(io.todo) \in Contents
      BY <3>1 DEF Contents
    <3>3. CASE InRange(io.lba)
      <4>1. view.start + io.lba \in Nat /\ view.start + io.lba \in Inside \ {0}
        BY <1>1, <2>2, <3>1, <3>3, PartitionBlock
      <4>2. RawWrites(view.start + io.lba, Head(io.todo))
            \/ RawWriteFails(view.start + io.lba, Head(io.todo), status')
        BY <2>2, <3>3 DEF WriteBlock
      <4>3. \A b \in Lbas : b # view.start + io.lba => medium'[b] = medium[b]
        BY <3>1, <3>2, <4>1, <4>2, RawWrite
      <4> QED
        BY <3>1, <4>1, <4>3
    <3>4. CASE ~ InRange(io.lba)
      BY <2>2, <3>4 DEF WriteBlock
    <3> QED
      BY <3>3, <3>4
  <2>3. medium' = medium \/ ~ InUse \/ WriteBlock
    BY <1>1 DEF StorageNext, storage, add, create, open, partition, release, lfs_read,
                lfs_write, Begin, lfs_erase, Transfer, ReadBlock, RawReadFails, Finish,
                PowerCut, InUse
  <2> QED
    BY <2>1, <2>2, <2>3
<1>2. StorageSpec => [][Confined]_storage
  BY <1>1, StorageInvariant, PTL DEF StorageSpec
<1> QED
  BY <1>2 DEF Confinement, InUse

(***************************************************************************)
(* The file system wrapper uses the storage below through its operations   *)
(* only, so that what is proved above holds under it.                      *)
(***************************************************************************)
LEMMA BuffersTyped ==
  /\ Super \in Data /\ <<Super>> \in Buffers /\ 0 \in Offsets /\ 1 \in Offsets
  /\ \A v \in Values : v \in Data /\ v # None /\ Blocks(v) \in Buffers
BY FileSystemAssumption

LEMMA WritesStorage ==
  ASSUME NEW s, TypeOK
  PROVE  /\ Reads(0, <<Super>>, s) => StorageNext \/ status = "panic"
         /\ Writes(0, <<Super>>, s) => StorageNext \/ status = "panic"
         /\ \A v \in Values : Reads(1, Blocks(v), s) => StorageNext \/ status = "panic"
         /\ \A v \in Values : Writes(1, Blocks(v), s) => StorageNext \/ status = "panic"
<1>1. \A lba \in Offsets, data \in Buffers :
        lfs_read(lba, data) \/ lfs_write(lba, data) => StorageNext \/ status = "panic"
  BY DEF StorageNext, Alive
<1> QED
  BY <1>1, BuffersTyped DEF Reads, Writes

(* Every step of the file system is a step of the storage, or leaves it    *)
(* alone.                                                                  *)
LEMMA FileStep ==
  ASSUME TypeOK, [Next]_vars
  PROVE  [StorageNext]_storage
<1>1. CASE Restart
  BY <1>1 DEF Restart, StorageNext
<1>2. CASE UNCHANGED vars
  BY <1>2 DEF vars
<1>3. CASE Alive /\ SetUp
  BY <1>3 DEF SetUp, StorageNext
<1>4. CASE Alive /\ Transfer
  BY <1>4 DEF StorageNext
<1>5. ASSUME Alive, mount PROVE [StorageNext]_storage
  BY <1>5, WritesStorage DEF mount, Alive
<1>6. ASSUME Alive, format \/ Directory PROVE [StorageNext]_storage
  BY <1>6, WritesStorage DEF format, Directory, Alive
<1>7. ASSUME Alive, Unmount PROVE [StorageNext]_storage
  BY <1>7 DEF Unmount, StorageNext
<1>8. ASSUME Alive, NEW f \in Functions, Open(f) PROVE [StorageNext]_storage
  BY <1>8, WritesStorage DEF Open, Alive
<1>9. ASSUME read PROVE \E v \in Values : Reads(1, Blocks(v), "read")
  BY <1>9 DEF read
<1>10. ASSUME Alive, read PROVE [StorageNext]_storage
  BY <1>9, <1>10, WritesStorage DEF Alive
<1>11. ASSUME Alive, sync PROVE [StorageNext]_storage
  <2>1. cache \in Values
    BY <1>11 DEF sync, TypeOK
  <2> QED
    BY <1>11, <2>1, WritesStorage DEF sync, Alive
<1>12. ASSUME Alive, close PROVE [StorageNext]_storage
  <2>1. cache # None => cache \in Values
    BY DEF TypeOK
  <2> QED
    BY <1>12, <2>1, WritesStorage DEF close, Alive
<1>13. ASSUME Seek \/ Leave \/ \E v \in Values : write(v) PROVE UNCHANGED storage
  BY <1>13 DEF Seek, Leave, write
<1>14. ASSUME MountStep \/ FormatOrDirectoryStep \/ OpenStep \/ ReadStep \/ SyncStep \/ CloseStep
       PROVE  Transfer
  BY <1>14 DEF MountStep, FormatOrDirectoryStep, OpenStep, ReadStep, SyncStep, CloseStep, Under
<1> QED
  BY <1>1, <1>2, <1>3, <1>4, <1>5, <1>6, <1>7, <1>8, <1>10, <1>11, <1>12, <1>13, <1>14 DEF Next

(***************************************************************************)
(* The stages of a call.                                                   *)
(***************************************************************************)
(* No File exists. *)
Quiet == {"idle", "mount", "format", "dir"}

(* Calls into the storage, and the writes among them. *)
Busy == {"mount", "format", "dir", "open", "read", "sync", "closing", "dropping"}
Saving == {"sync", "closing", "dropping"}

(* A File is open in littlefs and somebody can close it. *)
Holding == {"seek", "body", "read", "sync", "close", "closing", "drop", "dropping"}

StageInv ==
  /\ fn = "none" <=> step \in Quiet
  /\ io = None <=> step \notin Busy
  /\ handles = IF step \in Holding THEN leaked + 1 ELSE leaked
  /\ step = "open" => handles < MaxHandles
  /\ step = "mount" => view.sectors >= BlockCount
  /\ mounted => step \notin {"mount", "format"}
  /\ cache # None => step \in Holding \ {"seek"}
  /\ step \in Saving => cache # None

(* An error that the call has seen is what it will return. *)
OutcomeInv ==
  /\ step \in Quiet \cup {"open"} => closure = "ok" /\ ~ failed
  /\ step \in {"read", "sync"} => closure = "ok"
  /\ step \in Holding => (failed => closure # "ok") /\ (closure = "ok" => status = "ok")

(* The blocks of a write in progress.                                      *)
Todo == {b \in Inside : view.start + io.lba <= b /\ b < view.start + io.lba + Len(io.todo)}

WriteInv ==
  /\ io # None /\ io.op = "write" => \A b \in Todo : promised[b] = None
  /\ step \in Saving =>
       /\ io.op = "write" /\ io.lba \in 1 .. BlockCount
       /\ Len(io.todo) = BlockCount - io.lba
       /\ \A i \in 1 .. Len(io.todo) : io.todo[i] = cache
       /\ \A b \in Touched(1, io.lba - 1) : medium[b] = cache

FileInv == TypeOK /\ StageInv /\ OutcomeInv /\ WriteInv /\ Durable

(***************************************************************************)
(* What the steps of the storage do, for the file system above it.         *)
(***************************************************************************)
LEMMA BeginFacts ==
  ASSUME NEW op \in {"read", "write"}, NEW lba \in Nat, NEW data \in Seq(Data),
         Begin(op, lba, data)
  PROVE  /\ io = None /\ view # None
         /\ io' # None /\ io'.op = op /\ io'.lba = lba /\ io'.todo = data
         /\ view' = view /\ medium' = medium /\ status' = status
<1>1. io' = [op |-> op, lba |-> lba, todo |-> data, got |-> <<>>]
  BY DEF Begin
<1>2. io' \in Calls
  BY <1>1, EmptySeq DEF Calls
<1> QED
  BY <1>1, <1>2, NoneAssumption DEF Begin

LEMMA InsideFacts ==
  ASSUME StorageTypeOK, view # None, NEW b \in Lbas
  PROVE  /\ b \in Nat /\ view.start \in Nat /\ view.sectors \in Nat
         /\ b \in Inside <=> view.start <= b /\ b < view.start + view.sectors
BY Typed DEF Inside, Lbas

(* A block is read or written, or the call is over. *)
LEMMA TransferFacts ==
  ASSUME StorageInv, Transfer
  PROVE  /\ io # None /\ view # None /\ io \in Calls /\ view' = view /\ device' = device
         /\ \/ /\ io' = None /\ status' \in Statuses
               /\ status' = "ok" => io.todo = <<>> /\ medium' = medium
            \/ /\ io' # None /\ io'.op = io.op /\ io'.lba = io.lba + 1
               /\ io.todo # <<>> /\ io'.todo = Tail(io.todo) /\ status' = status
               /\ io.op = "write" => /\ view.start + io.lba \in Lbas
                                     /\ medium'[view.start + io.lba] = Head(io.todo)
         /\ \A b \in Lbas : medium'[b] # medium[b] =>
              /\ io.op = "write" /\ io.todo # <<>> /\ InRange(io.lba)
              /\ b = view.start + io.lba
<1>1. /\ io # None /\ view # None /\ io \in Calls /\ io.lba \in Nat /\ io.todo \in Seq(Data)
      /\ io.got \in Seq(Contents) /\ medium \in [Lbas -> Contents]
      /\ view.start \in Nat
  BY Typed DEF Transfer, ReadBlock, WriteBlock, Finish, StorageInv, StorageTypeOK
<1>2. view' = view /\ device' = device
  BY DEF Transfer, ReadBlock, WriteBlock, Finish, End
<1>3. CASE ReadBlock
  <2>1. io.op = "read" /\ io.todo # <<>>
    BY <1>3 DEF ReadBlock
  <2>2. medium' = medium
    BY <1>3 DEF ReadBlock, RawReadFails
  <2>3. CASE End("error")
    BY <1>1, <1>2, <2>1, <2>2, <2>3 DEF End, Statuses
  <2>4. CASE RawReadFails(view.start + io.lba, status') /\ End(status')
    <3>1. status' \in {"error", "panic"} /\ io' = None
      BY <2>4 DEF RawReadFails, RawRefusal, End
    <3> QED
      BY <1>1, <1>2, <2>1, <2>2, <3>1 DEF Statuses
  <2>5. CASE /\ view.start + io.lba \in Lbas
             /\ io' = [io EXCEPT !.lba = @ + 1, !.todo = Tail(@),
                                 !.got = Append(@, medium[view.start + io.lba])]
             /\ status' = status
    <3>1. /\ io.lba + 1 \in Nat /\ Tail(io.todo) \in Seq(Data)
          /\ Append(io.got, medium[view.start + io.lba]) \in Seq(Contents)
      BY <1>1, <2>1, <2>5
    <3>2. io' \in Calls
      BY <1>1, <2>5, <3>1 DEF Calls
    <3>3. io'.op = io.op /\ io'.lba = io.lba + 1 /\ io'.todo = Tail(io.todo)
      BY <1>1, <2>5 DEF Calls
    <3> QED
      BY <1>1, <1>2, <2>1, <2>2, <2>5, <3>2, <3>3, NoneAssumption
  <2> QED
    BY <1>3, <2>3, <2>4, <2>5 DEF ReadBlock
<1>4. CASE WriteBlock
  <2>1. io.op = "write" /\ io.todo # <<>> /\ Head(io.todo) \in Contents
    BY <1>1, <1>4 DEF WriteBlock, Contents
  <2>2. CASE End("error") /\ UNCHANGED medium
    BY <1>1, <1>2, <2>1, <2>2 DEF End, Statuses
  <2>3. CASE /\ InRange(io.lba)
             /\ RawWriteFails(view.start + io.lba, Head(io.todo), status')
             /\ End(status')
    <3>1. \A b \in Lbas : b # view.start + io.lba => medium'[b] = medium[b]
      BY <1>1, <2>1, <2>3, RawWrite
    <3>2. status' \in {"error", "panic"} /\ io' = None
      BY <2>3 DEF RawWriteFails, RawRefusal, End
    <3> QED
      BY <1>1, <1>2, <2>1, <2>3, <3>1, <3>2 DEF Statuses
  <2>4. CASE /\ InRange(io.lba)
             /\ RawWrites(view.start + io.lba, Head(io.todo))
             /\ io' = [io EXCEPT !.lba = @ + 1, !.todo = Tail(@)]
             /\ status' = status
    <3>1. io.lba + 1 \in Nat /\ Tail(io.todo) \in Seq(Data)
      BY <1>1, <2>1
    <3>2. io' \in Calls
      BY <1>1, <2>4, <3>1 DEF Calls
    <3>3. io'.op = io.op /\ io'.lba = io.lba + 1 /\ io'.todo = Tail(io.todo)
      BY <1>1, <2>4 DEF Calls
    <3>4. /\ view.start + io.lba \in Lbas /\ medium'[view.start + io.lba] = Head(io.todo)
          /\ \A b \in Lbas : b # view.start + io.lba => medium'[b] = medium[b]
      BY <1>1, <2>4 DEF RawWrites
    <3> QED
      BY <1>1, <1>2, <2>1, <2>4, <3>2, <3>3, <3>4, NoneAssumption
  <2> QED
    BY <1>4, <2>2, <2>3, <2>4 DEF WriteBlock
<1>5. CASE Finish
  <2>1. io' = None /\ status' = "ok" /\ io.todo = <<>> /\ medium' = medium
    BY <1>5 DEF Finish, End
  <2> QED
    BY <1>1, <1>2, <2>1 DEF Statuses
<1> QED
  BY <1>3, <1>4, <1>5 DEF Transfer

(* What has been promised is not what a call writes. *)
LEMMA PromisedStays ==
  ASSUME StorageInv, WriteInv, Transfer, NEW b \in Lbas, promised[b] # None
  PROVE  medium'[b] = medium[b]
<1>1. SUFFICES ASSUME medium'[b] # medium[b] PROVE FALSE
  OBVIOUS
<1>2. /\ io # None /\ view # None /\ io \in Calls /\ io.op = "write" /\ io.todo # <<>>
      /\ InRange(io.lba) /\ b = view.start + io.lba
  BY <1>1, TransferFacts
<1>3. io.lba \in Nat /\ io.todo \in Seq(Data) /\ io.lba < view.sectors
  BY <1>2 DEF Calls, InRange
<1>4. Len(io.todo) \in Nat \ {0}
  BY <1>2, <1>3, EmptySeq
<1>5. b \in Todo
  BY <1>2, <1>3, <1>4, InsideFacts DEF StorageInv, Todo
<1> QED
  BY <1>2, <1>5 DEF WriteInv

LEMMA NotTheLast ==
  \A b, s, n \in Nat : b < s + 1 + n /\ b # s + n => b < s + 1 + (n - 1)
OBVIOUS

(* A call goes on with its next block. *)
LEMMA SaveGoesOn ==
  ASSUME StorageInv, WriteInv, Transfer, io' # None, promised' = promised, step' = step,
         cache' = cache
  PROVE  WriteInv'
<1>1. /\ view # None /\ io.lba \in Nat /\ io.todo \in Seq(Data)
      /\ view.start \in Nat /\ view.sectors \in Nat /\ view' = view
      /\ io'.op = io.op /\ io'.lba = io.lba + 1 /\ io.todo # <<>> /\ io'.todo = Tail(io.todo)
      /\ io # None
  BY TransferFacts, Typed DEF StorageInv
<1>2. /\ Len(io.todo) \in Nat /\ Len(io.todo) # 0 /\ Len(io'.todo) = Len(io.todo) - 1
      /\ \A i \in 1 .. Len(io'.todo) : io'.todo[i] = io.todo[i + 1]
      /\ Head(io.todo) = io.todo[1]
  BY <1>1, EmptySeq, HeadTailProperties
<1>3. \A b \in Lbas : b \in Nat
  BY DEF Lbas
<1>4. Todo' \subseteq Todo
  BY <1>1, <1>2, <1>3 DEF Todo, Inside
<1>5. io'.op = "write" => \A b \in Todo' : promised'[b] = None
  BY <1>1, <1>4 DEF WriteInv
<1>6. ASSUME step \in Saving
      PROVE  /\ io'.op = "write" /\ io'.lba \in 1 .. BlockCount
             /\ Len(io'.todo) = BlockCount - io'.lba
             /\ \A i \in 1 .. Len(io'.todo) : io'.todo[i] = cache
             /\ \A b \in Touched(1, io.lba - 1)' : medium'[b] = cache
  <2>1. /\ io.op = "write" /\ io.lba \in 1 .. BlockCount /\ BlockCount \in Nat
        /\ Len(io.todo) = BlockCount - io.lba
        /\ \A i \in 1 .. Len(io.todo) : io.todo[i] = cache
        /\ \A b \in Touched(1, io.lba - 1) : medium[b] = cache
    BY <1>6, FileSystemAssumption DEF WriteInv
  <2>2. io'.lba \in 1 .. BlockCount /\ Len(io'.todo) = BlockCount - io'.lba
    BY <1>1, <1>2, <2>1
  <2>3. ASSUME NEW i \in 1 .. Len(io'.todo) PROVE io'.todo[i] = cache
    <3>1. i + 1 \in 1 .. Len(io.todo) /\ io'.todo[i] = io.todo[i + 1]
      BY <1>2
    <3> QED
      BY <2>1, <3>1
  <2>4. ASSUME NEW b \in Touched(1, io.lba - 1)' PROVE medium'[b] = cache
    <3>1. /\ b \in Lbas /\ b \in Nat /\ b \in Inside /\ view.start + 1 <= b
          /\ b < view.start + 1 + io.lba
      BY <1>1, <1>3, <2>4 DEF Touched, Inside
    <3>2. CASE b = view.start + io.lba
      <4>1. medium'[b] = Head(io.todo)
        BY <2>1, <3>2, <1>1, TransferFacts
      <4>2. 1 \in 1 .. Len(io.todo)
        BY <1>2
      <4> QED
        BY <1>2, <2>1, <4>1, <4>2
    <3>3. CASE b # view.start + io.lba
      <4>1. medium'[b] = medium[b]
        BY <3>1, <3>3, TransferFacts
      <4>2. b \in Touched(1, io.lba - 1)
        <5>1. b < view.start + 1 + (io.lba - 1)
          BY <1>1, <3>1, <3>3, NotTheLast
        <5> QED
          BY <3>1, <5>1 DEF Touched
      <4> QED
        BY <2>1, <4>1, <4>2
    <3> QED
      BY <3>2, <3>3
  <2> QED
    BY <1>1, <2>1, <2>2, <2>3, <2>4
<1> QED
  BY <1>5, <1>6 DEF WriteInv

(* A write of the file that succeeds has written all its blocks. *)
LEMMA AllSaved ==
  ASSUME StorageInv, WriteInv, Transfer, io' = None, status' = "ok", step \in Saving
  PROVE  medium' = medium /\ \A b \in Touched(1, FileBlocks) : medium[b] = cache
<1>1. io.todo = <<>> /\ medium' = medium
  BY TransferFacts
<1>2. /\ io.lba \in 1 .. BlockCount /\ BlockCount \in Nat
      /\ Len(io.todo) = BlockCount - io.lba
      /\ \A b \in Touched(1, io.lba - 1) : medium[b] = cache
  BY FileSystemAssumption DEF WriteInv
<1>3. io.lba - 1 = FileBlocks
  BY <1>1, <1>2, EmptySeq DEF FileBlocks
<1> QED
  BY <1>1, <1>2, <1>3

LEMMA DurableGoesOn ==
  ASSUME StorageInv, WriteInv, Durable, Transfer,
         promised' = promised \/ (step \in Saving /\ io' = None /\ Synced)
  PROVE  Durable'
<1>1. ASSUME NEW b \in Lbas, promised'[b] # None, promised'[b] = promised[b]
      PROVE  medium'[b] = promised'[b]
  BY <1>1, PromisedStays DEF Durable
<1>2. CASE promised' = promised
  BY <1>1, <1>2 DEF Durable
<1>3. CASE step \in Saving /\ io' = None /\ promised' = Promise(cache) /\ status' = "ok"
  <2>1. medium' = medium /\ \A b \in Touched(1, FileBlocks) : medium[b] = cache
    BY <1>3, AllSaved
  <2>2. ASSUME NEW b \in Lbas, promised'[b] # None PROVE medium'[b] = promised'[b]
    <3>1. CASE b \in Touched(1, FileBlocks)
      BY <1>3, <2>1, <3>1 DEF Promise
    <3>2. CASE b \notin Touched(1, FileBlocks)
      <4>1. promised'[b] = promised[b]
        BY <1>3, <3>2 DEF Promise
      <4> QED
        BY <1>1, <2>2, <4>1
    <3> QED
      BY <3>1, <3>2
  <2> QED
    BY <2>2 DEF Durable
<1> QED
  BY <1>2, <1>3 DEF Synced

(* A call begins. *)
LEMMA BeginsRead ==
  ASSUME StorageInv, WriteInv, Durable, NEW lba \in Nat, NEW data \in Seq(Data), NEW s,
         Reads(lba, data, s), s \notin Saving
  PROVE  WriteInv' /\ Durable' /\ io = None /\ io' # None /\ step' = s /\ view' = view
         /\ promised' = promised /\ status' = status
<1>1. Begin("read", lba, data) /\ step' = s /\ promised' = promised
  BY DEF Reads, lfs_read
<1>2. io = None /\ io' # None /\ io'.op = "read" /\ medium' = medium /\ view' = view
      /\ status' = status
  BY <1>1, BeginFacts
<1>3. WriteInv'
  BY <1>1, <1>2 DEF WriteInv
<1>4. Durable'
  BY <1>1, <1>2 DEF Durable
<1> QED
  BY <1>1, <1>2, <1>3, <1>4

LEMMA BeginsWrite ==
  ASSUME StorageInv, Durable, promised \in [Lbas -> Data \cup {None}],
         NEW lba \in Nat, NEW data \in Seq(Data), NEW s,
         Writes(lba, data, s),
         s \in Saving => lba = 1 /\ cache' \in Values /\ data = Blocks(cache')
  PROVE  WriteInv' /\ Durable' /\ io = None /\ io' # None /\ step' = s /\ view' = view
         /\ promised' \in [Lbas -> Data \cup {None}] /\ status' = status
<1>1. Begin("write", lba, data) /\ step' = s /\ promised' = Forget(Touched(lba, Len(data)))
  BY DEF Writes, lfs_write
<1>2. /\ io = None /\ io' # None /\ io'.op = "write" /\ io'.lba = lba /\ io'.todo = data
      /\ medium' = medium /\ view' = view /\ view # None /\ status' = status
  BY <1>1, BeginFacts
<1>3. Todo' = Touched(lba, Len(data))
  BY <1>2 DEF Todo, Touched, Inside
<1>4. \A b \in Todo' : promised'[b] = None
  BY <1>1, <1>3 DEF Forget, Touched, Inside
<1>5. ASSUME s \in Saving
      PROVE  /\ lba \in 1 .. BlockCount /\ Len(data) = BlockCount - lba
             /\ \A i \in 1 .. Len(data) : data[i] = cache'
             /\ \A b \in Touched(1, lba - 1)' : medium'[b] = cache'
  <2>1. /\ BlockCount \in Nat /\ BlockCount > 1 /\ FileBlocks \in Nat /\ lba = 1
        /\ data = [i \in 1 .. FileBlocks |-> cache'] /\ FileBlocks = BlockCount - 1
        /\ \A i \in 1 .. FileBlocks : cache' \in Data
    BY <1>5, FileSystemAssumption DEF FileBlocks, Blocks
  <2>2. Len(data) = FileBlocks /\ \A i \in 1 .. FileBlocks : data[i] = cache'
    <3>1. DOMAIN data = 1 .. FileBlocks
      BY <2>1
    <3>2. Len(data) \in Nat /\ DOMAIN data = 1 .. Len(data)
      BY LenProperties
    <3>3. Len(data) = FileBlocks
      BY <2>1, <3>1, <3>2
    <3> QED
      BY <2>1, <3>3
  <2>3. Touched(1, lba - 1)' = {}
    <3>1. view'.start \in Nat
      BY <1>2, Typed DEF StorageInv
    <3> QED
      BY <2>1, <3>1 DEF Touched, Inside, Lbas
  <2> QED
    BY <2>1, <2>2, <2>3
<1>6. WriteInv'
  BY <1>1, <1>2, <1>4, <1>5 DEF WriteInv
<1>7. Durable'
  BY <1>1, <1>2 DEF Durable, Forget
<1>8. promised' \in [Lbas -> Data \cup {None}]
  BY <1>1 DEF Forget
<1> QED
  BY <1>1, <1>2, <1>6, <1>7, <1>8

(***************************************************************************)
(* The invariant of the file system, one lemma per action or for actions   *)
(* that end alike.                                                         *)
(***************************************************************************)
Stages == {"idle", "mount", "format", "dir", "open", "seek", "body", "read", "sync",
           "close", "closing", "drop", "dropping", "panic"}

LEMMA FileTyped ==
  TypeOK <=>
    /\ StorageTypeOK
    /\ mounted \in BOOLEAN /\ failed \in BOOLEAN
    /\ fn \in Functions \cup {"none"} /\ step \in Stages
    /\ handles \in 0 .. MaxHandles /\ leaked \in 0 .. MaxHandles
    /\ cache \in Values \cup {None}
    /\ closure \in Statuses /\ ret \in Statuses
    /\ promised \in [Lbas -> Data \cup {None}]
    /\ (mounted => view # None /\ view.sectors >= BlockCount)
BY DEF TypeOK, Stages

LEMMA NoneIsNoFunction == "none" \notin Functions
BY DEF Functions

LEMMA FileInitInv == Init => FileInv
<1> SUFFICES ASSUME Init PROVE FileInv
  OBVIOUS
<1>1. /\ StorageTypeOK /\ io = None /\ status = "ok"
      /\ mounted = FALSE /\ fn = "none" /\ step = "idle" /\ handles = 0 /\ leaked = 0
      /\ cache = None /\ closure = "ok" /\ ret = "ok" /\ failed = FALSE
      /\ promised = [b \in Lbas |-> None]
  BY InitInv DEF Init, StorageInv, StorageInit, Nothing
<1>2. TypeOK
  <2>1. 0 \in 0 .. MaxHandles
    BY FileSystemAssumption
  <2>2. promised \in [Lbas -> Data \cup {None}]
    BY <1>1
  <2> QED
    BY <1>1, <2>1, <2>2, FileTyped DEF Stages, Statuses
<1>3. StageInv /\ OutcomeInv
  BY <1>1 DEF StageInv, OutcomeInv, Quiet, Busy, Holding, Saving
<1>4. WriteInv /\ Durable
  BY <1>1 DEF WriteInv, Durable, Saving
<1> QED
  BY <1>2, <1>3, <1>4 DEF FileInv

(* A function returns. *)
LEMMA ReturnsKeep ==
  ASSUME FileInv, StorageInv', NEW out \in Statuses, Returns(out), io' = None, cache' = None,
         mounted' \in BOOLEAN, mounted' => view' # None /\ view'.sectors >= BlockCount,
         handles' = leaked', handles' \in 0 .. MaxHandles,
         promised' \in [Lbas -> Data \cup {None}], Durable'
  PROVE  FileInv'
<1>1. /\ ret' = out /\ step' = "idle" /\ fn' = "none" /\ closure' = "ok" /\ failed' = FALSE
  BY DEF Returns
<1>2. TypeOK'
  BY <1>1 DEF TypeOK, Stages, Statuses, StorageInv
<1>3. StageInv' /\ OutcomeInv'
  BY <1>1 DEF StageInv, OutcomeInv, Quiet, Busy, Holding, Saving
<1>4. WriteInv'
  BY <1>1 DEF WriteInv, Saving
<1> QED
  BY <1>2, <1>3, <1>4 DEF FileInv

(* A call into the storage goes on. *)
LEMMA GoingKeeps ==
  ASSUME StorageInv, FileInv, StorageInv', Transfer, Going
  PROVE  FileInv'
<1>1. /\ io # None /\ io' # None /\ view' = view /\ status' = status
      /\ UNCHANGED <<mounted, fn, step, handles, leaked, cache, closure, ret, failed, promised>>
  BY TransferFacts DEF Going, fs
<1>2. TypeOK'
  BY <1>1, FileTyped DEF FileInv, TypeOK, StorageInv
<1>3. StageInv' /\ OutcomeInv'
  BY <1>1 DEF FileInv, StageInv, OutcomeInv
<1>4. WriteInv'
  BY <1>1, SaveGoesOn DEF FileInv
<1>5. Durable'
  BY <1>1, DurableGoesOn DEF FileInv
<1> QED
  BY <1>2, <1>3, <1>4, <1>5 DEF FileInv

(* A call into the storage begins, and leads to stage s. *)
LEMMA CallKeeps ==
  ASSUME FileInv, StorageInv', NEW s \in Busy, step' = s, io' # None, view' = view,
         status' = status,
         UNCHANGED <<mounted, handles, leaked, cache, closure, ret, failed>>,
         fn' \in Functions \cup {"none"}, fn' = "none" <=> s \in Quiet,
         s \in Holding <=> step \in Holding,
         s = "open" => handles < MaxHandles,
         s = "mount" => view.sectors >= BlockCount,
         mounted => s \notin {"mount", "format"},
         s \in Saving => cache # None,
         s \in {"read", "sync"} => closure = "ok",
         step \in Holding => step \in {"body", "close", "drop"},
         step \in Quiet \cup Holding,
         promised' \in [Lbas -> Data \cup {None}], WriteInv', Durable'
  PROVE  FileInv'
<1>1. TypeOK'
  <2>1. /\ mounted \in BOOLEAN /\ failed \in BOOLEAN /\ handles \in 0 .. MaxHandles
        /\ leaked \in 0 .. MaxHandles /\ cache \in Values \cup {None}
        /\ closure \in Statuses /\ ret \in Statuses
        /\ (mounted => view # None /\ view.sectors >= BlockCount)
    BY DEF FileInv, TypeOK
  <2>2. s \in Stages
    BY DEF Busy, Stages
  <2> QED
    BY <2>1, <2>2 DEF TypeOK, Stages, StorageInv
<1>2. StageInv'
  <2>1. s # "seek" /\ step # "seek"
    BY DEF Busy, Quiet
  <2>2. cache' # None => step' \in Holding \ {"seek"}
    BY <2>1 DEF FileInv, StageInv
  <2>3. handles' = IF step' \in Holding THEN leaked' + 1 ELSE leaked'
    BY DEF FileInv, StageInv
  <2> QED
    BY <2>2, <2>3 DEF StageInv
<1>3. OutcomeInv'
  <2>1. s \in Quiet \cup {"open"} => step \in Quiet
    BY DEF Quiet, Holding
  <2> QED
    BY <2>1 DEF FileInv, OutcomeInv
<1> QED
  BY <1>1, <1>2, <1>3 DEF FileInv

(* A step of a File between calls into the storage. *)
LEMMA FileStepKeeps ==
  ASSUME FileInv, StorageInv', io' = None, view' = view, mounted' = mounted,
         handles' \in 0 .. MaxHandles, leaked' = leaked,
         cache' \in Values \cup {None}, cache' # None => step' \in Holding \ {"seek"},
         fn' = fn, fn # "none", step' \in {"seek", "body", "close", "drop", "panic"},
         handles' = IF step' \in Holding THEN leaked + 1 ELSE leaked,
         closure' \in Statuses, ret' = ret, failed' \in BOOLEAN,
         step' \in Holding => (failed' => closure' # "ok") /\ (closure' = "ok" => status' = "ok"),
         promised' \in [Lbas -> Data \cup {None}], Durable'
  PROVE  FileInv'
<1>1. TypeOK'
  <2>1. /\ mounted \in BOOLEAN /\ leaked \in 0 .. MaxHandles /\ ret \in Statuses
        /\ fn \in Functions \cup {"none"}
        /\ (mounted => view # None /\ view.sectors >= BlockCount)
    BY DEF FileInv, TypeOK
  <2>2. step' \in Stages
    BY DEF Stages
  <2> QED
    BY <2>1, <2>2 DEF TypeOK, Stages, StorageInv
<1>2. step' \notin Quiet \cup {"open"} /\ step' \notin Busy /\ step' \notin Saving
      /\ step' \notin {"mount", "format", "open"}
  BY DEF Quiet, Busy, Saving
<1>3. StageInv' /\ OutcomeInv'
  BY <1>2 DEF FileInv, StageInv, OutcomeInv
<1>4. WriteInv'
  BY <1>2 DEF WriteInv
<1> QED
  BY <1>1, <1>3, <1>4 DEF FileInv

LEMMA CallArguments ==
  /\ 0 \in Nat /\ 1 \in Nat /\ <<Super>> \in Seq(Data)
  /\ \A v \in Values : Blocks(v) \in Seq(Data)
BY BuffersTyped, BufferAssumption

(* What FileInv says where no File exists, and where nothing is under way. *)
LEMMA AtRest ==
  ASSUME FileInv, step = "idle"
  PROVE  /\ fn = "none" /\ io = None /\ handles = leaked /\ cache = None
         /\ closure = "ok" /\ ~ failed
         /\ handles \in 0 .. MaxHandles /\ mounted \in BOOLEAN /\ ret \in Statuses
         /\ promised \in [Lbas -> Data \cup {None}]
         /\ (mounted => view # None /\ view.sectors >= BlockCount)
         /\ WriteInv /\ Durable
BY DEF FileInv, TypeOK, StageInv, OutcomeInv, Quiet, Busy, Holding

LEMMA SetUpKeeps ==
  ASSUME StorageInv, FileInv, StorageInv', SetUp
  PROVE  FileInv'
<1>1. /\ step = "idle" /\ ~ mounted
      /\ UNCHANGED <<mounted, fn, step, handles, leaked, cache, closure, ret, failed>>
  BY DEF SetUp
<1>2. io' = None
  <2>1. io = None
    BY <1>1, AtRest
  <2> QED
    BY <2>1 DEF SetUp, add, open, partition, release, lfs_erase, create
<1>3. Durable' /\ promised' \in [Lbas -> Data \cup {None}]
  <2>1. Durable /\ promised \in [Lbas -> Data \cup {None}]
    BY <1>1, AtRest
  <2>2. CASE medium' = medium /\ promised' = promised
    BY <2>1, <2>2 DEF Durable
  <2>3. CASE create /\ promised' = Forget({0})
    <3>1. \A b \in Lbas : b # 0 => medium'[b] = medium[b]
      <4>1. medium \in [Lbas -> Contents]
        BY DEF StorageInv, StorageTypeOK
      <4> QED
        BY <2>3, <4>1 DEF create, RawWrites, RawWriteFails
    <3>2. Durable'
      BY <2>1, <2>3, <3>1 DEF Durable, Forget
    <3> QED
      BY <2>1, <2>3, <3>2 DEF Forget
  <2> QED
    BY <2>2, <2>3 DEF SetUp, add, open, partition, release, lfs_erase, RawReadFails
<1>4. TypeOK'
  <2>1. TypeOK
    BY DEF FileInv
  <2> QED
    BY <1>1, <1>3, <2>1 DEF TypeOK, StorageInv
<1>5. StageInv' /\ OutcomeInv'
  BY <1>1, <1>2, AtRest DEF StageInv, OutcomeInv, Quiet, Busy, Holding, Saving
<1>6. WriteInv'
  BY <1>1, <1>2 DEF WriteInv, Saving
<1> QED
  BY <1>3, <1>4, <1>5, <1>6 DEF FileInv

(* An idle wrapper starts a read or a write of the directory. *)
LEMMA ReadsDirectory ==
  ASSUME StorageInv, FileInv, StorageInv', step = "idle",
         NEW s \in {"mount", "dir", "open"}, Reads(0, <<Super>>, s),
         UNCHANGED <<mounted, handles, leaked, cache, closure, ret, failed>>,
         fn' \in Functions \cup {"none"}, fn' = "none" <=> s # "open",
         s = "open" => handles < MaxHandles,
         s = "mount" => view.sectors >= BlockCount,
         mounted => s # "mount"
  PROVE  FileInv'
<1>1. s \in Busy /\ s \notin Saving /\ s \notin Holding /\ (s \in Quiet <=> s # "open")
      /\ s # "format" /\ step \in Quiet /\ step \notin Holding
  BY DEF Busy, Saving, Holding, Quiet
<1>2. /\ WriteInv' /\ Durable' /\ io' # None /\ step' = s /\ view' = view
      /\ promised' = promised /\ status' = status
  BY <1>1, AtRest, BeginsRead, CallArguments
<1>3. promised' \in [Lbas -> Data \cup {None}]
  BY <1>2, AtRest
<1> QED
  BY <1>1, <1>2, <1>3, CallKeeps

LEMMA WritesDirectory ==
  ASSUME StorageInv, FileInv, StorageInv', step = "idle",
         NEW s \in {"format", "dir"}, Writes(0, <<Super>>, s),
         UNCHANGED <<mounted, fn, handles, leaked, cache, closure, ret, failed>>,
         mounted => s # "format"
  PROVE  FileInv'
<1>1. s \in Busy /\ s \notin Saving /\ s \notin Holding /\ s \in Quiet
      /\ s # "mount" /\ s # "open" /\ step \in Quiet /\ step \notin Holding
  BY DEF Busy, Saving, Holding, Quiet
<1>2. /\ WriteInv' /\ Durable' /\ io' # None /\ step' = s /\ view' = view
      /\ promised' \in [Lbas -> Data \cup {None}] /\ status' = status
  BY <1>1, AtRest, BeginsWrite, CallArguments
<1>3. fn' = "none" /\ fn' \in Functions \cup {"none"}
  BY AtRest
<1> QED
  BY <1>1, <1>2, <1>3, CallKeeps

LEMMA MountKeeps ==
  ASSUME StorageInv, FileInv, StorageInv', mount
  PROVE  FileInv'
<1>1. /\ step = "idle" /\ ~ mounted /\ view # None
      /\ UNCHANGED <<mounted, handles, leaked, cache>>
  BY DEF mount
<1>2. CASE Returns("error") /\ UNCHANGED <<storage, promised>>
  <2>1. io' = None /\ cache' = None /\ handles' = leaked' /\ handles' \in 0 .. MaxHandles
        /\ medium' = medium /\ promised' \in [Lbas -> Data \cup {None}]
    BY <1>1, <1>2, AtRest DEF storage
  <2>2. Durable'
    BY <1>1, <1>2, <2>1, AtRest DEF Durable
  <2>3. "error" \in Statuses /\ mounted' = FALSE
    BY <1>1, AtRest DEF Statuses
  <2> QED
    BY <1>2, <2>1, <2>2, <2>3, ReturnsKeep
<1>3. CASE /\ ~ TooSmall(view.sectors) /\ Reads(0, <<Super>>, "mount")
           /\ UNCHANGED <<fn, closure, ret, failed>>
  <2>1. view.sectors >= BlockCount
    BY <1>1, <1>3, Typed, FileSystemAssumption DEF TooSmall, StorageInv, Extents, Word
  <2>2. fn' = "none"
    BY <1>1, <1>3, AtRest
  <2> QED
    BY <1>1, <1>3, <2>1, <2>2, ReadsDirectory
<1> QED
  BY <1>2, <1>3 DEF mount

LEMMA DirectoryKeeps ==
  ASSUME StorageInv, FileInv, StorageInv', format \/ Directory
  PROVE  FileInv'
<1>1. CASE format
  BY <1>1, WritesDirectory DEF format
<1>2. CASE Directory
  <2>1. /\ step = "idle"
        /\ UNCHANGED <<mounted, fn, handles, leaked, cache, closure, ret, failed>>
    BY <1>2 DEF Directory
  <2>2. fn' = "none"
    BY <2>1, AtRest
  <2>3. CASE Writes(0, <<Super>>, "dir")
    BY <2>1, <2>3, WritesDirectory
  <2>4. CASE Reads(0, <<Super>>, "dir")
    BY <2>1, <2>2, <2>4, ReadsDirectory
  <2> QED
    BY <1>2, <2>3, <2>4 DEF Directory
<1> QED
  BY <1>1, <1>2

LEMMA OpenFileKeeps ==
  ASSUME StorageInv, FileInv, StorageInv', NEW f \in Functions, Open(f)
  PROVE  FileInv'
BY ReadsDirectory, NoneIsNoFunction DEF Open

(* A call into the storage is over, and the function returns. *)
LEMMA CallReturns ==
  ASSUME StorageInv, FileInv, StorageInv', Transfer, io' = None, NEW out \in Statuses,
         Returns(out), step \in Quiet \cup {"open"},
         mounted' \in BOOLEAN, mounted' => mounted \/ step = "mount",
         UNCHANGED <<handles, leaked, cache, promised>>
  PROVE  FileInv'
<1>1. step \notin Holding
  BY DEF Quiet, Holding
<1>2. /\ handles = leaked /\ cache = None /\ handles \in 0 .. MaxHandles
      /\ promised \in [Lbas -> Data \cup {None}] /\ WriteInv /\ Durable
      /\ (step = "mount" => view.sectors >= BlockCount)
      /\ (mounted => view # None /\ view.sectors >= BlockCount)
  BY <1>1 DEF FileInv, TypeOK, StageInv
<1>3. view' = view /\ view # None
  BY TransferFacts
<1>4. Durable'
  BY <1>2, DurableGoesOn
<1> QED
  BY <1>2, <1>3, <1>4, ReturnsKeep

LEMMA MountStepKeeps ==
  ASSUME StorageInv, FileInv, StorageInv', MountStep
  PROVE  FileInv'
<1>1. step = "mount" /\ Transfer
  BY DEF MountStep, Under
<1>2. CASE Going
  BY <1>1, <1>2, GoingKeeps
<1>3. CASE /\ Over /\ mounted' = (status' = "ok" /\ io.got = <<Super>>)
           /\ Returns(IF mounted' THEN "ok" ELSE "error")
           /\ UNCHANGED <<handles, leaked, cache, promised>>
  <2>1. mounted' \in BOOLEAN
    BY <1>3
  <2>2. (IF mounted' THEN "ok" ELSE "error") \in Statuses /\ step \in Quiet
    BY <1>1 DEF Statuses, Quiet
  <2> QED
    BY <1>1, <1>3, <2>1, <2>2, CallReturns DEF Over
<1> QED
  BY <1>2, <1>3 DEF MountStep

LEMMA FormatOrDirectoryStepKeeps ==
  ASSUME StorageInv, FileInv, StorageInv', FormatOrDirectoryStep
  PROVE  FileInv'
<1>1. step \in Quiet /\ Transfer /\ mounted \in BOOLEAN
  BY DEF FormatOrDirectoryStep, Under, Quiet, FileInv, TypeOK
<1>2. CASE Going
  BY <1>1, <1>2, GoingKeeps
<1>3. CASE Over /\ Returns(status') /\ UNCHANGED <<mounted, handles, leaked, cache, promised>>
  <2>1. status' \in Statuses
    BY DEF StorageInv, StorageTypeOK
  <2> QED
    BY <1>1, <1>3, <2>1, CallReturns DEF Over
<1> QED
  BY <1>2, <1>3 DEF FormatOrDirectoryStep

LEMMA UnmountKeeps ==
  ASSUME StorageInv, FileInv, StorageInv', Unmount
  PROVE  FileInv'
<1>1. /\ step = "idle" /\ mounted' = FALSE /\ io' = None /\ medium' = medium
      /\ UNCHANGED <<fn, step, handles, leaked, cache, closure, ret, failed, promised>>
  BY DEF Unmount, release
<1>2. TypeOK'
  <2>1. TypeOK
    BY DEF FileInv
  <2> QED
    BY <1>1, <2>1 DEF TypeOK, StorageInv
<1>3. StageInv' /\ OutcomeInv'
  BY <1>1, AtRest DEF StageInv, OutcomeInv, Quiet, Busy, Holding, Saving
<1>4. WriteInv' /\ Durable'
  BY <1>1, AtRest DEF WriteInv, Saving, Durable
<1> QED
  BY <1>2, <1>3, <1>4 DEF FileInv

LEMMA OpenStepKeeps ==
  ASSUME StorageInv, FileInv, StorageInv', OpenStep
  PROVE  FileInv'
<1>1. step = "open" /\ Transfer
  BY DEF OpenStep, Under
<1>2. CASE Going
  BY <1>1, <1>2, GoingKeeps
<1>3. CASE /\ Over /\ status' = "ok" /\ handles' = handles + 1
           /\ step' = IF MustExist THEN "seek" ELSE "body"
           /\ UNCHANGED <<mounted, fn, leaked, cache, closure, ret, failed, promised>>
  <2>1. /\ fn # "none" /\ handles = leaked /\ cache = None /\ handles < MaxHandles
        /\ MaxHandles \in Nat /\ handles \in 0 .. MaxHandles
        /\ closure = "ok" /\ ~ failed /\ closure \in Statuses /\ failed \in BOOLEAN
        /\ promised \in [Lbas -> Data \cup {None}] /\ WriteInv /\ Durable
    BY <1>1, FileSystemAssumption
       DEF FileInv, TypeOK, StageInv, OutcomeInv, Quiet, Holding
  <2>2. io' = None /\ view' = view
    BY <1>1, <1>3, TransferFacts DEF Over
  <2>3. Durable'
    BY <1>1, <1>3, <2>1, DurableGoesOn
  <2>4. step' \in {"seek", "body", "close", "drop", "panic"} /\ step' \in Holding
    BY <1>3 DEF Holding
  <2>5. handles' \in 0 .. MaxHandles
        /\ handles' = IF step' \in Holding THEN leaked + 1 ELSE leaked
    BY <1>3, <2>1, <2>4
  <2>6. cache' = None
        /\ closure' \in Statuses /\ failed' \in BOOLEAN
        /\ (step' \in Holding => (failed' => closure' # "ok") /\ (closure' = "ok" => status' = "ok"))
        /\ promised' \in [Lbas -> Data \cup {None}] /\ fn' = fn /\ mounted' = mounted
        /\ leaked' = leaked /\ ret' = ret
    BY <1>3, <2>1
  <2> QED
    BY <2>1, <2>2, <2>3, <2>4, <2>5, <2>6, FileStepKeeps
<1>4. CASE Over /\ Returns("error") /\ UNCHANGED <<mounted, handles, leaked, cache, promised>>
  <2>1. mounted \in BOOLEAN /\ "error" \in Statuses
    BY DEF FileInv, TypeOK, Statuses
  <2> QED
    BY <1>1, <1>4, <2>1, CallReturns DEF Over
<1> QED
  BY <1>2, <1>3, <1>4 DEF OpenStep

(* What FileInv says of a File in use. *)
LEMMA InUseByFile ==
  ASSUME FileInv, step \in Holding
  PROVE  /\ fn # "none" /\ fn \in Functions /\ handles = leaked + 1 /\ MaxHandles \in Nat
         /\ leaked \in Nat /\ leaked < MaxHandles
         /\ (io = None <=> step \notin Busy)
         /\ (step = "seek" => cache = None) /\ cache \in Values \cup {None}
         /\ closure \in Statuses /\ failed \in BOOLEAN /\ ret \in Statuses
         /\ (failed => closure # "ok") /\ (closure = "ok" => status = "ok")
         /\ (step \in {"read", "sync"} => closure = "ok")
         /\ mounted \in BOOLEAN /\ (mounted => view # None /\ view.sectors >= BlockCount)
         /\ promised \in [Lbas -> Data \cup {None}] /\ WriteInv /\ Durable
<1>1. step \notin Quiet
  BY DEF Quiet, Holding
<1>2. handles = leaked + 1 /\ MaxHandles \in Nat /\ leaked \in Nat /\ leaked < MaxHandles
  BY FileSystemAssumption DEF FileInv, TypeOK, StageInv
<1> QED
  BY <1>1, <1>2 DEF FileInv, TypeOK, StageInv, OutcomeInv

(* A File is between two calls into the storage. *)
LEMMA FileGoesOn ==
  ASSUME StorageInv, FileInv, StorageInv', step \in Holding, step' \in {"body", "close", "drop"},
         io' = None, view' = view,
         UNCHANGED <<mounted, fn, handles, leaked, ret>>,
         cache' \in Values \cup {None}, closure' \in Statuses, failed' \in BOOLEAN,
         failed' => closure' # "ok", closure' = "ok" => status' = "ok",
         promised' \in [Lbas -> Data \cup {None}], Durable'
  PROVE  FileInv'
<1>1. step' \in Holding \ {"seek"} /\ step' \in {"seek", "body", "close", "drop", "panic"}
  BY DEF Holding
<1>2. handles' \in 0 .. MaxHandles /\ handles' = leaked + 1 /\ fn # "none"
  BY InUseByFile
<1>3. handles' = IF step' \in Holding THEN leaked + 1 ELSE leaked
  BY <1>1, <1>2
<1> QED
  BY <1>1, <1>2, <1>3, FileStepKeeps

LEMMA SeekKeeps ==
  ASSUME StorageInv, FileInv, StorageInv', Seek
  PROVE  FileInv'
<1>1. /\ step = "seek" /\ step \in Holding /\ step \notin Busy
      /\ UNCHANGED <<storage, mounted, handles, cache, promised>>
  BY DEF Seek, Holding, Busy
<1>2. io' = None /\ view' = view /\ status' = status /\ medium' = medium
  BY <1>1, InUseByFile DEF storage
<1>3. Durable'
  BY <1>1, <1>2, InUseByFile DEF Durable
<1>4. CASE step' = "body" /\ UNCHANGED <<fn, leaked, closure, ret, failed>>
  BY <1>1, <1>2, <1>3, <1>4, InUseByFile, FileGoesOn
<1>5. CASE Returns("error") /\ leaked' = leaked + 1
  <2>1. handles' = leaked' /\ handles' \in 0 .. MaxHandles /\ cache' = None
    BY <1>1, <1>5, InUseByFile
  <2>2. "error" \in Statuses
    BY DEF Statuses
  <2> QED
    BY <1>1, <1>2, <1>3, <1>5, <2>1, <2>2, InUseByFile, ReturnsKeep
<1> QED
  BY <1>4, <1>5 DEF Seek

LEMMA WriteFileKeeps ==
  ASSUME StorageInv, FileInv, StorageInv', NEW v \in Values, write(v)
  PROVE  FileInv'
<1>1. /\ step = "body" /\ step \in Holding /\ step \notin Busy /\ step' = step
      /\ cache' = v
      /\ UNCHANGED <<storage, mounted, fn, handles, leaked, closure, ret, failed, promised>>
  BY DEF write, Holding, Busy
<1>2. io' = None /\ view' = view /\ status' = status /\ medium' = medium
  BY <1>1, InUseByFile DEF storage
<1>3. Durable'
  BY <1>1, <1>2, InUseByFile DEF Durable
<1> QED
  BY <1>1, <1>2, <1>3, InUseByFile, FileGoesOn

LEMMA LeaveKeeps ==
  ASSUME StorageInv, FileInv, StorageInv', Leave
  PROVE  FileInv'
<1>1. /\ step = "body" /\ step \in Holding /\ step \notin Busy
      /\ UNCHANGED <<storage, mounted, fn, handles, leaked, cache, ret, failed, promised>>
      /\ closure' \in {closure, "error"}
  BY DEF Leave, Holding, Busy
<1>2. step' \in {"close", "drop"}
  BY DEF Leave
<1>3. io' = None /\ view' = view /\ status' = status /\ medium' = medium
  BY <1>1, InUseByFile DEF storage
<1>4. Durable'
  BY <1>1, <1>3, InUseByFile DEF Durable
<1>5. /\ closure' \in Statuses /\ (failed' => closure' # "ok")
      /\ (closure' = "ok" => status' = "ok")
  BY <1>1, <1>3, InUseByFile DEF Statuses
<1> QED
  BY <1>1, <1>2, <1>3, <1>4, <1>5, InUseByFile, FileGoesOn

(* A File makes a call into the storage. *)
LEMMA FileCalls ==
  ASSUME FileInv, StorageInv', step \in {"body", "close", "drop"},
         NEW s \in {"read", "sync", "closing", "dropping"},
         step' = s, io' # None, view' = view, status' = status,
         UNCHANGED <<mounted, fn, handles, leaked, cache, closure, ret, failed>>,
         s \in Saving => cache # None,
         s \in {"read", "sync"} => closure = "ok",
         promised' \in [Lbas -> Data \cup {None}], WriteInv', Durable'
  PROVE  FileInv'
<1>1. /\ s \in Busy /\ s \in Holding /\ s \notin Quiet /\ s \notin {"open", "mount", "format"}
      /\ step \in Holding /\ step \in Quiet \cup Holding
  BY DEF Busy, Holding, Quiet
<1>2. fn' # "none" /\ fn' \in Functions \cup {"none"}
  BY <1>1, InUseByFile
<1> QED
  BY <1>1, <1>2, CallKeeps

LEMMA ReadFileKeeps ==
  ASSUME StorageInv, FileInv, StorageInv', read
  PROVE  FileInv'
<1>1. /\ step = "body" /\ step \in Holding /\ closure = "ok" /\ "read" \notin Saving
      /\ UNCHANGED <<mounted, fn, handles, leaked, cache, closure, ret, failed>>
  BY DEF read, Holding, Saving
<1>2. PICK v \in Values : Reads(1, Blocks(v), "read")
  BY DEF read
<1>3. /\ WriteInv' /\ Durable' /\ io' # None /\ step' = "read" /\ view' = view
      /\ promised' = promised /\ status' = status
  BY <1>1, <1>2, InUseByFile, BeginsRead, CallArguments
<1>4. promised' \in [Lbas -> Data \cup {None}]
  BY <1>1, <1>3, InUseByFile
<1> QED
  BY <1>1, <1>3, <1>4, FileCalls

(* A File that holds data back writes it. *)
LEMMA SaveKeeps ==
  ASSUME StorageInv, FileInv, StorageInv', step \in {"body", "close", "drop"}, cache # None,
         NEW s \in Saving, Writes(1, Blocks(cache), s), s = "sync" => closure = "ok",
         UNCHANGED <<mounted, fn, handles, leaked, cache, closure, ret, failed>>
  PROVE  FileInv'
<1>1. step \in Holding /\ s \in {"read", "sync", "closing", "dropping"} /\ s # "read"
  BY DEF Holding, Saving
<1>2. cache \in Values /\ cache' = cache
  BY <1>1, InUseByFile
<1>3. /\ WriteInv' /\ Durable' /\ io' # None /\ step' = s /\ view' = view
      /\ promised' \in [Lbas -> Data \cup {None}] /\ status' = status
  <2>1. promised \in [Lbas -> Data \cup {None}] /\ Durable
    BY <1>1, InUseByFile
  <2>2. Blocks(cache) \in Seq(Data) /\ Blocks(cache') = Blocks(cache) /\ 1 \in Nat
    BY <1>2, CallArguments
  <2> QED
    BY <1>2, <2>1, <2>2, BeginsWrite
<1> QED
  BY <1>1, <1>3, FileCalls

LEMMA SyncKeeps ==
  ASSUME StorageInv, FileInv, StorageInv', sync \/ (close /\ cache # None)
  PROVE  FileInv'
<1>1. CASE sync
  <2>1. "sync" \in Saving
    BY DEF Saving
  <2> QED
    BY <1>1, <2>1, SaveKeeps DEF sync
<1>2. CASE close /\ cache # None
  <2>1. /\ step \in {"close", "drop"}
        /\ Writes(1, Blocks(cache), IF step = "close" THEN "closing" ELSE "dropping")
        /\ UNCHANGED <<mounted, fn, handles, leaked, cache, closure, ret, failed>>
    BY <1>2 DEF close
  <2>2. PICK s \in {"closing", "dropping"} :
          s = IF step = "close" THEN "closing" ELSE "dropping"
    OBVIOUS
  <2>3. s \in Saving /\ s # "sync" /\ Writes(1, Blocks(cache), s)
    BY <2>1, <2>2 DEF Saving
  <2> QED
    BY <1>2, <2>1, <2>3, SaveKeeps
<1> QED
  BY <1>1, <1>2

LEMMA ReadStepKeeps ==
  ASSUME StorageInv, FileInv, StorageInv', ReadStep
  PROVE  FileInv'
<1>1. step = "read" /\ step \in Holding /\ Transfer
  BY DEF ReadStep, Under, Holding
<1>2. CASE Going
  BY <1>1, <1>2, GoingKeeps
<1>3. CASE /\ Over /\ step' = "body" /\ closure' = status'
           /\ failed' = (failed \/ status' # "ok")
           /\ UNCHANGED <<mounted, fn, handles, leaked, cache, ret, promised>>
  <2>1. io' = None /\ view' = view
    BY <1>1, <1>3, TransferFacts DEF Over
  <2>2. Durable'
    BY <1>1, <1>3, InUseByFile, DurableGoesOn
  <2>3. status' \in Statuses
    BY DEF StorageInv, StorageTypeOK
  <2>4. ~ failed /\ failed \in BOOLEAN
    BY <1>1, InUseByFile
  <2>5. failed' \in BOOLEAN /\ (failed' => closure' # "ok")
    BY <1>3, <2>4
  <2> QED
    BY <1>1, <1>3, <2>1, <2>2, <2>3, <2>5, InUseByFile, FileGoesOn
<1> QED
  BY <1>2, <1>3 DEF ReadStep

(* What a successful write promises. *)
LEMMA SyncedTyped ==
  ASSUME FileInv, step \in Holding, cache # None, Synced
  PROVE  promised' \in [Lbas -> Data \cup {None}]
<1>1. cache \in Data /\ promised \in [Lbas -> Data \cup {None}]
  BY InUseByFile, FileSystemAssumption
<1> QED
  BY <1>1 DEF Synced, Promise

LEMMA SyncStepKeeps ==
  ASSUME StorageInv, FileInv, StorageInv', SyncStep
  PROVE  FileInv'
<1>1. step = "sync" /\ step \in Holding /\ step \in Saving /\ Transfer
  BY DEF SyncStep, Under, Holding, Saving
<1>2. CASE Going
  BY <1>1, <1>2, GoingKeeps
<1>3. CASE /\ Over /\ step' = "body" /\ closure' = status' /\ cache' = None
           /\ failed' = (failed \/ status' # "ok") /\ Synced
           /\ UNCHANGED <<mounted, fn, handles, leaked, ret>>
  <2>1. io' = None /\ view' = view
    BY <1>1, <1>3, TransferFacts DEF Over
  <2>2. Durable'
    BY <1>1, <1>3, <2>1, InUseByFile, DurableGoesOn
  <2>3. status' \in Statuses /\ promised' \in [Lbas -> Data \cup {None}]
    <3>1. cache # None
      BY <1>1 DEF FileInv, StageInv
    <3> QED
      BY <1>1, <1>3, <3>1, SyncedTyped DEF StorageInv, StorageTypeOK
  <2>4. ~ failed /\ failed \in BOOLEAN
    BY <1>1, InUseByFile
  <2>5. failed' \in BOOLEAN /\ (failed' => closure' # "ok")
    BY <1>3, <2>4
  <2> QED
    BY <1>1, <1>3, <2>1, <2>2, <2>3, <2>5, InUseByFile, FileGoesOn
<1> QED
  BY <1>2, <1>3 DEF SyncStep

(* littlefs has closed the file. *)
LEMMA ClosedKeeps ==
  ASSUME StorageInv, FileInv, StorageInv', step \in {"close", "closing", "drop", "dropping"},
         NEW out \in Statuses, Closed(out), io' = None, view' = view,
         UNCHANGED <<mounted, leaked>>,
         promised' \in [Lbas -> Data \cup {None}], Durable'
  PROVE  FileInv'
<1>1. step \in Holding
  BY DEF Holding
<1>2. handles' = leaked' /\ handles' \in 0 .. MaxHandles /\ cache' = None
  BY <1>1, InUseByFile DEF Closed
<1>3. CASE step' = "panic" /\ UNCHANGED <<fn, closure, ret, failed>>
  <2>1. step' \notin Holding /\ step' \in {"seek", "body", "close", "drop", "panic"}
    BY <1>3 DEF Holding
  <2>2. handles' = IF step' \in Holding THEN leaked + 1 ELSE leaked
    BY <1>2, <2>1
  <2> QED
    BY <1>1, <1>2, <1>3, <2>1, <2>2, InUseByFile, FileStepKeeps
<1>4. CASE Returns(CloseResult(out))
  <2>1. CloseResult(out) \in Statuses
    BY <1>1, InUseByFile DEF CloseResult
  <2>2. mounted' \in BOOLEAN /\ (mounted' => view' # None /\ view'.sectors >= BlockCount)
    BY <1>1, InUseByFile
  <2> QED
    BY <1>2, <1>4, <2>1, <2>2, ReturnsKeep
<1> QED
  BY <1>3, <1>4 DEF Closed

LEMMA CloseKeeps ==
  ASSUME StorageInv, FileInv, StorageInv', close
  PROVE  FileInv'
<1>1. CASE cache # None
  BY <1>1, SyncKeeps
<1>2. CASE cache = None
  <2>1. /\ step \in {"close", "drop"} /\ step \in Holding /\ step \notin Busy
        /\ Closed("ok") /\ UNCHANGED <<storage, promised, mounted, leaked>>
    BY <1>2 DEF close, Holding, Busy
  <2>2. io' = None /\ view' = view /\ medium' = medium
    BY <2>1, InUseByFile DEF storage
  <2>3. Durable' /\ promised' \in [Lbas -> Data \cup {None}]
    BY <2>1, <2>2, InUseByFile DEF Durable
  <2>4. "ok" \in Statuses
    BY DEF Statuses
  <2> QED
    BY <2>1, <2>2, <2>3, <2>4, ClosedKeeps
<1> QED
  BY <1>1, <1>2

LEMMA CloseStepKeeps ==
  ASSUME StorageInv, FileInv, StorageInv', CloseStep
  PROVE  FileInv'
<1>1. /\ step \in {"closing", "dropping"} /\ step \in Holding /\ step \in Saving /\ Transfer
      /\ step \in {"close", "closing", "drop", "dropping"}
  BY DEF CloseStep, Under, Holding, Saving
<1>2. CASE Going
  BY <1>1, <1>2, GoingKeeps
<1>3. CASE Over /\ Synced /\ Closed(status') /\ UNCHANGED <<mounted, leaked>>
  <2>1. io' = None /\ view' = view
    BY <1>1, <1>3, TransferFacts DEF Over
  <2>2. Durable'
    BY <1>1, <1>3, <2>1, InUseByFile, DurableGoesOn
  <2>3. cache # None
    BY <1>1 DEF FileInv, StageInv
  <2>4. promised' \in [Lbas -> Data \cup {None}] /\ status' \in Statuses
    BY <1>1, <1>3, <2>3, SyncedTyped DEF StorageInv, StorageTypeOK
  <2>5. PICK out \in Statuses : out = status'
    BY <2>4
  <2> QED
    BY <1>1, <1>3, <2>1, <2>2, <2>4, <2>5, ClosedKeeps
<1> QED
  BY <1>2, <1>3 DEF CloseStep

LEMMA RestartKeeps ==
  ASSUME StorageInv, FileInv, StorageInv', Restart
  PROVE  FileInv'
<1>1. /\ io' = None /\ medium' = medium /\ mounted' = FALSE /\ fn' = "none" /\ step' = "idle"
      /\ handles' = 0 /\ leaked' = 0 /\ cache' = None /\ closure' = "ok" /\ ret' = "ok"
      /\ failed' = FALSE /\ promised' = promised
  BY DEF Restart, PowerCut
<1>2. promised \in [Lbas -> Data \cup {None}] /\ Durable
  BY DEF FileInv, TypeOK
<1>3. 0 \in 0 .. MaxHandles /\ "ok" \in Statuses
  BY FileSystemAssumption DEF Statuses
<1>4. Returns("ok") /\ Durable'
  BY <1>1, <1>2 DEF Returns, Durable
<1> QED
  BY <1>1, <1>2, <1>3, <1>4, ReturnsKeep

LEMMA FileKept ==
  ASSUME StorageInv, FileInv, [Next]_vars
  PROVE  StorageInv' /\ FileInv'
<1>1. StorageInv'
  BY FileStep, StepInv DEF FileInv
<1>2. CASE Restart
  BY <1>1, <1>2, RestartKeeps
<1>3. CASE UNCHANGED vars
  <2>1. /\ UNCHANGED <<table, device, view, io, status, medium>>
        /\ UNCHANGED <<mounted, fn, step, handles, leaked, cache, closure, ret, failed, promised>>
    BY <1>3 DEF vars, storage, fs
  <2>2. TypeOK'
    BY <1>1, <2>1 DEF FileInv, TypeOK, StorageInv
  <2>3. StageInv' /\ OutcomeInv' /\ Durable'
    BY <2>1 DEF FileInv, StageInv, OutcomeInv, Durable
  <2>4. Todo' = Todo /\ Touched(1, io.lba - 1)' = Touched(1, io.lba - 1)
    BY <2>1 DEF Todo, Touched, Inside
  <2>5. WriteInv'
    BY <2>1, <2>4 DEF FileInv, WriteInv
  <2> QED
    BY <1>1, <2>2, <2>3, <2>5 DEF FileInv
<1>4. CASE SetUp \/ Unmount
  BY <1>1, <1>4, SetUpKeeps, UnmountKeeps
<1>5. CASE mount \/ MountStep \/ format \/ Directory \/ FormatOrDirectoryStep
  BY <1>1, <1>5, MountKeeps, MountStepKeeps, DirectoryKeeps, FormatOrDirectoryStepKeeps
<1>6. CASE (\E f \in Functions : Open(f)) \/ OpenStep \/ Seek
  BY <1>1, <1>6, OpenFileKeeps, OpenStepKeeps, SeekKeeps
<1>7. CASE (\E v \in Values : write(v)) \/ read \/ ReadStep \/ sync \/ SyncStep
  BY <1>1, <1>7, WriteFileKeeps, ReadFileKeeps, ReadStepKeeps, SyncKeeps, SyncStepKeeps
<1>8. CASE Leave \/ close \/ CloseStep
  BY <1>1, <1>8, LeaveKeeps, CloseKeeps, CloseStepKeeps
<1> QED
  BY <1>1, <1>2, <1>3, <1>4, <1>5, <1>6, <1>7, <1>8 DEF Next

LEMMA FileInvariant == Spec => [](StorageInv /\ FileInv)
<1>1. Init => StorageInv /\ FileInv
  BY FileInitInv, InitInv DEF Init
<1>2. StorageInv /\ FileInv /\ [Next]_vars => (StorageInv /\ FileInv)'
  BY FileKept
<1> QED
  BY <1>1, <1>2, PTL DEF Spec

(***************************************************************************)
(* The theorems.                                                           *)
(***************************************************************************)
(* The storage under the file system wrapper behaves as the storage of its *)
(* own: fs.rs makes no call that storage.rs does not expect.               *)
THEOREM FilesOnStorage == Spec => StorageSpec
<1>1. Init => StorageInit
  BY DEF Init
<1>2. TypeOK /\ [Next]_vars => [StorageNext]_storage
  BY FileStep
<1>3. StorageInv /\ FileInv => TypeOK
  BY DEF FileInv
<1> QED
  BY <1>1, <1>2, <1>3, FileInvariant, PTL DEF Spec, StorageSpec

(* Whatever a program does with files and partitions, the partition table  *)
(* that `open` read stays on the medium, no access reaches the assertions  *)
(* of the eMMC driver, and only blocks of the partition change.            *)
THEOREM FilesStayInPartition == Spec => []TableSurvives /\ []NoAssertion /\ Confinement
BY FilesOnStorage, TableIsKept, NoPanic, WritesAreConfined, PTL

(* What a sync or a close that returned Ok left on the medium stays there, *)
(* through failed and torn writes, unmounts and power cuts, until a call   *)
(* is asked to write the same blocks.                                      *)
THEOREM DataIsDurable == Spec => []Durable
<1>1. StorageInv /\ FileInv => Durable
  BY DEF FileInv
<1> QED
  BY <1>1, FileInvariant, PTL

(* Every path through open_and_then, create_and_then, a close and a drop   *)
(* closes the file once.                                                   *)
THEOREM NoFileLeft == Spec => []NoneLeftOpen
<1>1. StorageInv /\ FileInv => NoneLeftOpen
  BY DEF FileInv, StageInv, NoneLeftOpen, Quiet, Holding
<1> QED
  BY <1>1, FileInvariant, PTL

(* open_and_then and create_and_then return Ok only if no access to the    *)
(* storage made for them failed.                                           *)
THEOREM ErrorsAreReported == Spec => ErrorsReported
<1>1. ASSUME StorageInv, FileInv, Next, mounted', fn' = "none", ret' = "ok",
             fn \in {"open_and_then", "create_and_then"}
      PROVE  ~ failed /\ status' = "ok"
  <2>1. step \notin Quiet /\ fn # "none" /\ fn' # fn
    BY <1>1, NoneIsNoFunction DEF FileInv, StageInv, Functions
  <2>2. ~ Restart
    BY <1>1 DEF Restart
  <2>3. ~ (SetUp \/ mount \/ MountStep \/ format \/ Directory \/ FormatOrDirectoryStep \/ Unmount)
    BY <2>1 DEF SetUp, mount, MountStep, format, Directory, FormatOrDirectoryStep, Unmount,
                Under, Quiet
  <2>4. ~ ((\E f \in Functions : Open(f)) \/ (\E v \in Values : write(v)) \/ read \/ ReadStep
           \/ sync \/ SyncStep \/ Leave)
    BY <1>1, <2>1 DEF Open, write, read, ReadStep, sync, SyncStep, Leave, Going, fs, Quiet
  <2>5. ~ (OpenStep \/ Seek)
    BY <1>1, <2>1 DEF OpenStep, Seek, Going, fs, Returns
  <2>6. close \/ CloseStep
    BY <1>1, <2>2, <2>3, <2>4, <2>5 DEF Next
  <2>7. step \in Holding /\ step \in {"close", "closing", "drop", "dropping"}
    BY <2>6 DEF close, CloseStep, Under, Holding
  <2>8. closure = "ok" => ~ failed /\ status = "ok"
    BY <2>7, InUseByFile, <1>1
  <2>9. CASE close
    <3>1. Closed("ok") /\ status' = status
      BY <2>1, <2>9 DEF close, storage
    <3>2. ret' = closure
      BY <1>1, <2>1, <3>1 DEF Closed, Returns, CloseResult
    <3> QED
      BY <1>1, <2>8, <3>1, <3>2
  <2>10. CASE CloseStep
    <3>1. Closed(status')
      BY <2>1, <2>10 DEF CloseStep, Going, fs
    <3>2. ret' = CloseResult(status')
      BY <2>1, <3>1 DEF Closed, Returns
    <3>3. status' = "ok" /\ closure = "ok"
      BY <1>1, <3>2 DEF CloseResult
    <3> QED
      BY <2>8, <3>3
  <2> QED
    BY <2>6, <2>9, <2>10
<1>2. StorageInv /\ FileInv /\ [Next]_vars =>
        [mounted' /\ fn' = "none" /\ ret' = "ok" /\ fn \in {"open_and_then", "create_and_then"}
           => ~ failed /\ status' = "ok"]_vars
  BY <1>1
<1> QED
  BY <1>2, FileInvariant, PTL DEF Spec, ErrorsReported

=============================================================================
