----------------------------- MODULE FileSystem -----------------------------
(***************************************************************************)
(* The file system wrapper usbarmory/src/fs.rs above the storage layer:    *)
(* mount, format, the calls on directories, File with its close on drop,   *)
(* and the functions that run a closure on a file.                         *)
(*                                                                         *)
(* littlefs is external.  It keeps a directory in block 0 of the partition *)
(* and the file, of FileBlocks blocks, after it; it caches what is written *)
(* until the file is synchronized or closed; after an error it gives up    *)
(* the cached data; a close always takes the file off its list.            *)
(* A program, or a closure, that gets an error returns it.                 *)
(***************************************************************************)
EXTENDS Storage

CONSTANTS
  BlockCount,  \* BLOCK_COUNT
  Super,       \* a directory block
  Values,      \* contents of a file
  MaxHandles   \* bound on the files open in littlefs at a time

FileBlocks == BlockCount - 1
Blocks(v) == [i \in 1 .. FileBlocks |-> v]

(* There is room for a file, and littlefs makes its calls with buffers of  *)
(* the storage below.                                                      *)
ASSUME FileSystemAssumption ==
  /\ BlockCount \in Nat /\ BlockCount > 1
  /\ Super \in Data /\ Values \subseteq Data /\ None \notin Data
  /\ <<Super>> \in Buffers /\ \A v \in Values : Blocks(v) \in Buffers
  /\ {0, 1} \subseteq Offsets
  /\ MaxHandles \in Nat

VARIABLES
  mounted,  \* LittleFs exists
  fn,       \* the function of File that runs, or made the File in use
  step,     \* where it is
  handles,  \* number of files open in littlefs
  leaked,   \* how many of them nobody can close
  cache,    \* data littlefs holds back
  closure,  \* what the closure, or the program, has come to
  ret,      \* what the last function returned
  failed,   \* history: one of its accesses to storage failed
  promised  \* history: what a call that returned Ok left on the medium

fs == <<mounted, fn, step, handles, leaked, cache, closure, ret, failed, promised>>
vars == <<storage, fs>>

Functions == {"open", "create", "open_and_then", "create_and_then"}
Nothing == [b \in Lbas |-> None]

TypeOK ==
  /\ StorageTypeOK
  /\ mounted \in BOOLEAN /\ failed \in BOOLEAN
  /\ fn \in Functions \cup {"none"}
  /\ step \in {"idle", "mount", "format", "dir", "open", "seek", "body", "read", "sync",
               "close", "closing", "drop", "dropping", "panic"}
  /\ handles \in 0 .. MaxHandles /\ leaked \in 0 .. MaxHandles
  /\ cache \in Values \cup {None}
  /\ closure \in Statuses /\ ret \in Statuses
  /\ promised \in [Lbas -> Data \cup {None}]
  /\ mounted => view # None /\ view.sectors >= BlockCount

Init ==
  /\ StorageInit
  /\ mounted = FALSE
  /\ fn = "none" /\ step = "idle"
  /\ handles = 0 /\ leaked = 0
  /\ cache = None
  /\ closure = "ok" /\ ret = "ok"
  /\ failed = FALSE
  /\ promised = Nothing

-----------------------------------------------------------------------------
(* Calls of littlefs into the storage. *)

(* What the call is about to write is no longer promised. *)
Touched(lba, n) == {b \in Inside : view.start + lba <= b /\ b < view.start + lba + n}
Forget(s) == [b \in Lbas |-> IF b \in s THEN None ELSE promised[b]]

Reads(lba, data, s) ==
  /\ lfs_read(lba, data)
  /\ step' = s
  /\ UNCHANGED promised

Writes(lba, data, s) ==
  /\ lfs_write(lba, data)
  /\ step' = s
  /\ promised' = Forget(Touched(lba, Len(data)))

(* A step of the call under way at step s; the last one returns to fs.rs.  *)
Under(s) ==
  /\ step = s
  /\ Transfer

Going == io' # None /\ UNCHANGED fs
Over == io' = None

Returns(out) ==
  /\ ret' = out
  /\ step' = "idle"
  /\ fn' = "none"
  /\ closure' = "ok"
  /\ failed' = FALSE

-----------------------------------------------------------------------------
(* LittleFs. *)

TooSmall(n) == n < BlockCount

mount ==
  /\ step = "idle" /\ ~ mounted /\ view # None
  /\ IF TooSmall(view.sectors)
       THEN Returns("error") /\ UNCHANGED <<storage, promised>>
       ELSE Reads(0, <<Super>>, "mount") /\ UNCHANGED <<fn, closure, ret, failed>>
  /\ UNCHANGED <<mounted, handles, leaked, cache>>

MountStep ==
  /\ Under("mount")
  /\ \/ Going
     \/ /\ Over
        /\ mounted' = (status' = "ok" /\ io.got = <<Super>>)
        /\ Returns(IF mounted' THEN "ok" ELSE "error")
        /\ UNCHANGED <<handles, leaked, cache, promised>>

(* LittleFs::format, without a check of the size. *)
format ==
  /\ step = "idle" /\ ~ mounted /\ view # None
  /\ Writes(0, <<Super>>, "format")
  /\ UNCHANGED <<mounted, fn, handles, leaked, cache, closure, ret, failed>>

(* create_dir, remove; available_space, read_dir and its iterator. *)
Directory ==
  /\ step = "idle" /\ mounted
  /\ Writes(0, <<Super>>, "dir") \/ Reads(0, <<Super>>, "dir")
  /\ UNCHANGED <<mounted, fn, handles, leaked, cache, closure, ret, failed>>

FormatOrDirectoryStep ==
  /\ Under("format") \/ Under("dir")
  /\ \/ Going
     \/ /\ Over
        /\ Returns(status')
        /\ UNCHANGED <<mounted, handles, leaked, cache, promised>>

Unmount ==
  /\ step = "idle" /\ mounted
  /\ mounted' = FALSE
  /\ release
  /\ UNCHANGED <<fn, step, handles, leaked, cache, closure, ret, failed, promised>>

-----------------------------------------------------------------------------
(* File. *)

(* open, create and the functions that call them. *)
Open(f) ==
  /\ step = "idle" /\ mounted /\ handles < MaxHandles
  /\ Reads(0, <<Super>>, "open")
  /\ fn' = f
  /\ UNCHANGED <<mounted, handles, leaked, cache, closure, ret, failed>>

MustExist == fn \in {"open", "open_and_then"}

OpenStep ==
  /\ Under("open")
  /\ \/ Going
     \/ /\ Over
        /\ status' = "ok"
        /\ handles' = handles + 1
        /\ step' = IF MustExist THEN "seek" ELSE "body"
        /\ UNCHANGED <<mounted, fn, leaked, cache, closure, ret, failed, promised>>
     \/ /\ Over
        /\ status' # "ok" \/ MustExist
        /\ Returns("error")
        /\ UNCHANGED <<mounted, handles, leaked, cache, promised>>

(* File::open rewinds the file; if that fails the littlefs file, which has *)
(* no destructor, is dropped without being closed.                         *)
Seek ==
  /\ step = "seek"
  /\ \/ step' = "body" /\ UNCHANGED <<fn, leaked, closure, ret, failed>>
     \/ Returns("error") /\ leaked' = leaked + 1
  /\ UNCHANGED <<storage, mounted, handles, cache, promised>>

write(v) ==
  /\ step = "body" /\ closure = "ok"
  /\ cache' = v
  /\ UNCHANGED <<storage, mounted, fn, step, handles, leaked, closure, ret, failed, promised>>

read ==
  /\ step = "body" /\ closure = "ok" /\ cache = None
  /\ \E v \in Values : Reads(1, Blocks(v), "read")
  /\ UNCHANGED <<mounted, fn, handles, leaked, cache, closure, ret, failed>>

sync ==
  /\ step = "body" /\ closure = "ok" /\ cache # None
  /\ Writes(1, Blocks(cache), "sync")
  /\ UNCHANGED <<mounted, fn, handles, leaked, cache, closure, ret, failed>>

Promise(v) ==
  [b \in Lbas |-> IF b \in Touched(1, FileBlocks) THEN v ELSE promised[b]]

(* Once a sync, or the one in a close, is over: *)
Synced == promised' = IF status' = "ok" THEN Promise(cache) ELSE promised

ReadStep ==
  /\ Under("read")
  /\ \/ Going
     \/ /\ Over
        /\ step' = "body"
        /\ closure' = status'
        /\ failed' = (failed \/ status' # "ok")
        /\ UNCHANGED <<mounted, fn, handles, leaked, cache, ret, promised>>

SyncStep ==
  /\ Under("sync")
  /\ \/ Going
     \/ /\ Over
        /\ step' = "body"
        /\ closure' = status'
        /\ cache' = None
        /\ failed' = (failed \/ status' # "ok")
        /\ Synced
        /\ UNCHANGED <<mounted, fn, handles, leaked, ret>>

(* The closure returns: open_and_then closes the file in any case, while   *)
(* create_and_then leaves with `?`, which drops it.  A program that has    *)
(* the file itself does either.                                            *)
Leave ==
  /\ step = "body"
  /\ closure' \in {closure, "error"}
  /\ step' \in CASE fn = "open_and_then" -> {"close"}
               [] fn = "create_and_then" -> {IF closure' = "ok" THEN "close" ELSE "drop"}
               [] OTHER -> {"close", "drop"}
  /\ UNCHANGED <<storage, mounted, fn, handles, leaked, cache, ret, failed, promised>>

(* Mutant: the error of the closure is all that counts. *)
CloseResultIgnored(out) == closure

(* open_and_then and create_and_then return the error of the close, or     *)
(* what the closure returned.                                              *)
CloseResult(out) == IF fn \in {"open", "create"} \/ out # "ok" THEN out ELSE closure

(* Mutant: the destructor of littlefs2::File, which does not close. *)
ClosedUnlessDropped(out) ==
  /\ handles' = IF step \in {"drop", "dropping"} THEN handles ELSE handles - 1
  /\ cache' = None
  /\ Returns(CloseResult(out))

(* littlefs has closed the file, once: File::close takes `inner`, and the  *)
(* destructor that runs after it finds nothing.  An error in a destructor  *)
(* is a panic.                                                             *)
Closed(out) ==
  /\ handles' = handles - 1
  /\ cache' = None
  /\ IF step \in {"drop", "dropping"} /\ out # "ok"
       THEN step' = "panic" /\ UNCHANGED <<fn, closure, ret, failed>>
       ELSE Returns(CloseResult(out))

close ==
  /\ step \in {"close", "drop"}
  /\ \/ /\ cache = None
        /\ Closed("ok")
        /\ UNCHANGED <<storage, promised>>
     \/ /\ cache # None
        /\ Writes(1, Blocks(cache), IF step = "close" THEN "closing" ELSE "dropping")
        /\ UNCHANGED <<fn, handles, cache, closure, ret, failed>>
  /\ UNCHANGED <<mounted, leaked>>

CloseStep ==
  /\ Under("closing") \/ Under("dropping")
  /\ \/ Going
     \/ /\ Over
        /\ Synced
        /\ Closed(status')
        /\ UNCHANGED <<mounted, leaked>>

-----------------------------------------------------------------------------
(* The program sets up the device; the rest is up to the file system. *)
SetUp ==
  /\ step = "idle" /\ ~ mounted
  /\ \/ /\ \/ \E e \in Entries : add(e)
           \/ open
           \/ \E p \in 0 .. Slots : partition(p)
           \/ release
           \/ lfs_erase
        /\ UNCHANGED promised
     \/ create /\ promised' = Forget({0})
  /\ UNCHANGED <<mounted, fn, step, handles, leaked, cache, closure, ret, failed>>

Restart ==
  /\ PowerCut
  /\ mounted' = FALSE
  /\ fn' = "none" /\ step' = "idle"
  /\ handles' = 0 /\ leaked' = 0
  /\ cache' = None
  /\ closure' = "ok" /\ ret' = "ok"
  /\ failed' = FALSE
  /\ UNCHANGED promised

Next ==
  \/ /\ Alive
     /\ \/ SetUp
        \/ mount \/ MountStep
        \/ format \/ Directory \/ FormatOrDirectoryStep
        \/ Unmount
        \/ \E f \in Functions : Open(f)
        \/ OpenStep \/ Seek
        \/ \E v \in Values : write(v)
        \/ read \/ ReadStep
        \/ sync \/ SyncStep
        \/ Leave \/ close \/ CloseStep
  \/ Restart

Spec == Init /\ [][Next]_vars

-----------------------------------------------------------------------------
(* Properties. *)

(* What a sync or a close that returned Ok left on the medium stays there, *)
(* through later failures, other partitions and power cuts, until a call   *)
(* is asked to write the same blocks ("the file will be `sync`-ed and      *)
(* `close`-d after `f` is executed").                                      *)
Durable == \A b \in Lbas : promised[b] # None => medium[b] = promised[b]

(* Between two calls littlefs has no file open but those lost by a failed  *)
(* rewind in File::open: every path through a closure, an error or a       *)
(* destructor closes the file, and only once; all variables keep their     *)
(* types, and a mounted partition holds the whole file system.             *)
NoneLeftOpen ==
  /\ TypeOK
  /\ fn = "none" => handles = leaked

(* A function that runs a closure returns Ok only if no access to the      *)
(* storage made for it failed (the `?` of close in open_and_then and       *)
(* create_and_then).                                                       *)
ErrorsReported ==
  [][mounted' /\ fn' = "none" /\ ret' = "ok" /\ fn \in {"open_and_then", "create_and_then"}
       => ~ failed /\ status' = "ok"]_vars

=============================================================================
