-------------------------------- MODULE Dcp --------------------------------
(***************************************************************************)
(* The drivers of the crypto engine: AES with a hardware key, AES with a   *)
(* key in RAM and SHA-256, each owned by one context at a time, the lazy   *)
(* initialisation they share, the channel both AES drivers submit their    *)
(* commands to, and the buffering of SHA-256 input into blocks.            *)
(*                                                                         *)
(* The bytes of an input are numbered in the order in which they were fed, *)
(* so that a digest is the sequence of numbers the engine hashed.          *)
(***************************************************************************)
EXTENDS Contexts, Sequences, FiniteSets

CONSTANTS
  BlockSize,   \* bytes of a SHA-256 block
  MaxCount,    \* MAX_COUNT
  InputLens    \* lengths of inputs

ASSUME DcpAssumption ==
  BlockSize \in Nat \ {0} /\ MaxCount \in Nat /\ InputLens \subseteq Nat

VARIABLES
  initialized,  \* INITIALIZED
  dcpTaken,     \* the program has taken HW_DCP for itself
  context,      \* CONTEXT holds the address of the context buffer
  inUse,        \* HW_AES_IN_USE, RAM_AES_IN_USE, SHA_IN_USE
  owner,        \* contexts that own the driver
  channels,     \* channels enabled in CHANNELCTRL
  ch3,          \* CH3CMDPTR: whose command; CH3SEMA
  done,         \* contexts whose command has its status set
  lost,         \* history: a command was run that nobody waits for
  overwritten,  \* history: contexts whose command in CH3CMDPTR another one
                \* replaced before the engine had run it
  weak,         \* history: the weak exchange of init failed for nothing
  sha           \* the Sha256, and what the engine has hashed

dcpVars == <<initialized, dcpTaken, context, inUse, owner, channels, ch3,
             done, lost, overwritten, weak, sha>>

Aes == {"aes_hw", "aes_ram"}
Drivers == Aes \cup {"sha"}
NewChannels ==
  [d \in Drivers |-> CASE d = "aes_hw" -> {3} [] d = "aes_ram" -> {1, 3}
                       [] d = "sha" -> {2}]

NewSha == [buffer |-> <<>>, first |-> TRUE, count |-> 0, hashed |-> <<>>,
           from |-> 0, fed |-> 0]

DcpInit ==
  /\ initialized = FALSE
  /\ dcpTaken \in BOOLEAN
  /\ context = FALSE
  /\ inUse = [d \in Drivers |-> FALSE]
  /\ owner = [d \in Drivers |-> {}]
  /\ channels = {}
  /\ ch3 = [ptr |-> {}, sema |-> FALSE]
  /\ done = {}
  /\ lost = FALSE
  /\ overwritten = {}
  /\ weak = FALSE
  /\ sha = NewSha

(***************************************************************************)
(* new_otp, new_unique, new_ram, Sha256::take and dcp::init                *)
(***************************************************************************)
NewFlag(c, d) ==
  /\ ~ inUse[d]
  /\ Begin(c, "new", "init", d)
  /\ inUse' = [inUse EXCEPT ![d] = TRUE]
  /\ UNCHANGED <<initialized, dcpTaken, context, owner, channels, ch3, done,
                 lost, overwritten, weak, sha>>

(* None, because the flag is set or because the weak exchange failed; the  *)
(* only way to new_ram, NewBlockCipher::new, panics.                       *)
NewNone(c, d) ==
  /\ IF d = "aes_ram" THEN MayCall(c) /\ Abort ELSE CallOnce(c)
  /\ UNCHANGED dcpVars

InitFlag(c) ==
  /\ At(c, "new", "init")
  /\ ~ initialized
  /\ initialized' = TRUE
  /\ Goto(c, "install")
  /\ UNCHANGED <<dcpTaken, context, inUse, owner, channels, ch3, done, lost,
                 overwritten, weak, sha>>

(* already initialized, or being so below; or the weak exchange failed.    *)
InitSkip(c) ==
  /\ At(c, "new", "init")
  /\ weak' = (weak \/ ~ initialized)
  /\ Goto(c, "enable")
  /\ UNCHANGED <<initialized, dcpTaken, context, inUse, owner, channels, ch3,
                 done, lost, overwritten, sha>>

InitInstall(c) ==
  /\ At(c, "new", "install")
  /\ \/ dcpTaken /\ Abort /\ UNCHANGED context
     \/ ~ dcpTaken /\ context' = TRUE /\ Goto(c, "enable")
  /\ UNCHANGED <<initialized, dcpTaken, inUse, owner, channels, ch3, done,
                 lost, overwritten, weak, sha>>

NewEnable(c) ==
  /\ At(c, "new", "enable")
  /\ LET d == task[c].on IN
       /\ channels' = channels \cup NewChannels[d]
       /\ owner' = [owner EXCEPT ![d] = @ \cup {c}]
       /\ sha' = IF d = "sha" THEN NewSha ELSE sha
  /\ Return(c)
  /\ UNCHANGED <<initialized, dcpTaken, context, inUse, ch3, done, lost,
                 overwritten, weak>>

(* The OTP key is not released in time. *)
NewTimeout(c) ==
  /\ At(c, "new", "enable") /\ task[c].on = "aes_hw"
  /\ Abort
  /\ UNCHANGED dcpVars

(***************************************************************************)
(* Drop.  Sha256 first disables its channel and then gives up its flag.    *)
(***************************************************************************)
Disown(c, d) == owner' = [owner EXCEPT ![d] = @ \ {c}]

AesDrop(c, d) ==
  /\ d \in Aes /\ c \in owner[d]
  /\ CallOnce(c)
  /\ Disown(c, d)
  /\ inUse' = [inUse EXCEPT ![d] = FALSE]
  /\ UNCHANGED <<initialized, dcpTaken, context, channels, ch3, done, lost,
                 overwritten, weak, sha>>

ShaDisable(c) ==
  /\ At(c, "drop", "disable")
  /\ Disown(c, "sha")
  /\ channels' = channels \ {2}
  /\ Goto(c, "free")
  /\ UNCHANGED <<initialized, dcpTaken, context, inUse, ch3, done, lost,
                 overwritten, weak, sha>>

(* Mutant: the flag first, then the channel. *)
ShaFreeFirst(c) ==
  /\ At(c, "drop", "free") \/ At(c, "drop", "late")
  /\ IF task[c].at = "free"
     THEN /\ inUse' = [inUse EXCEPT !["sha"] = FALSE]
          /\ Goto(c, "late")
          /\ UNCHANGED channels
     ELSE channels' = channels \ {2} /\ Return(c) /\ UNCHANGED inUse
  /\ UNCHANGED <<initialized, dcpTaken, context, owner, ch3, done, lost,
                 overwritten, weak, sha>>

ShaFree(c) ==
  /\ At(c, "drop", "free")
  /\ inUse' = [inUse EXCEPT !["sha"] = FALSE]
  /\ Return(c)
  /\ UNCHANGED <<initialized, dcpTaken, context, owner, channels, ch3, done,
                 lost, overwritten, weak, sha>>

(***************************************************************************)
(* Aes128::xcrypt: both drivers use channel 3.                             *)
(***************************************************************************)
Submitting(t) == t.op = "xcrypt"
Awaiting(c) == Submitting(task[c]) /\ c \notin done

XcryptPtr(c, d) ==
  /\ d \in Aes /\ c \in owner[d]
  /\ Begin(c, "xcrypt", "sema", d)
  /\ ch3' = [ch3 EXCEPT !.ptr = {c}]
  /\ done' = done \ {c}
  /\ overwritten' = overwritten \cup {o \in Contexts \ {c} : Awaiting(o)}
  /\ UNCHANGED <<initialized, dcpTaken, context, inUse, owner, channels, lost,
                 weak, sha>>

XcryptSema(c) ==
  /\ At(c, "xcrypt", "sema")
  /\ ch3' = [ch3 EXCEPT !.sema = TRUE]
  /\ Goto(c, "status")
  /\ UNCHANGED <<initialized, dcpTaken, context, inUse, owner, channels, done,
                 lost, overwritten, weak, sha>>

XcryptDone(c) ==
  /\ At(c, "xcrypt", "status")
  /\ c \in done
  /\ Return(c)
  /\ UNCHANGED dcpVars

(* The wait for the status times out after 100 ms, or the engine reports   *)
(* an error.                                                               *)
XcryptAborts(c) ==
  /\ At(c, "xcrypt", "status")
  /\ c \notin done
  /\ Abort
  /\ UNCHANGED dcpVars

(* The engine runs the command CH3CMDPTR points to, and sets the status in *)
(* the caller's frame, which may be gone: nobody waits for the command.    *)
Engine ==
  /\ alive /\ ch3.sema /\ 3 \in channels
  /\ ch3' = [ch3 EXCEPT !.sema = FALSE]
  /\ LET waits == {c \in ch3.ptr : Submitting(task[c])} IN
       done' = done \cup waits /\ lost' = (lost \/ waits = {})
  /\ UNCHANGED contextVars
  /\ UNCHANGED <<initialized, dcpTaken, context, inUse, owner, channels,
                 overwritten, weak, sha>>

(***************************************************************************)
(* Sha256: input_slice, fixed_result and reset.  Channel 2 has one owner,  *)
(* and no other context touches what these calls use, so that each is one  *)
(* step; the engine may fail to answer in any of them that submits blocks. *)
(***************************************************************************)
(* Vec::extend_from_slice: the error of a full buffer is ignored.          *)
Extend(buffer, s) ==
  IF Len(buffer) + Len(s) <= BlockSize THEN buffer \o s ELSE buffer

RoundDown(n) == n - (n % BlockSize)

ProcessBlocks(h, blocks) ==
  [h EXCEPT !.hashed = IF h.first THEN blocks ELSE @ \o blocks, !.first = FALSE]

ProcessAndPush(h, input) ==
  LET n == RoundDown(Len(input)) IN
  IF Len(input) < BlockSize THEN [h EXCEPT !.buffer = Extend(@, input)]
  ELSE [ProcessBlocks(h, SubSeq(input, 1, n)) EXCEPT
          !.buffer = Extend(@, SubSeq(input, n + 1, Len(input)))]

PushAndProcess(h, input) ==
  LET head == BlockSize - Len(h.buffer)
      block == Extend(h.buffer, SubSeq(input, 1, head)) IN
  ProcessAndPush([ProcessBlocks(h, block) EXCEPT !.buffer = <<>>],
                 SubSeq(input, head + 1, Len(input)))

InputSlice(h, input) ==
  LET g == [h EXCEPT !.count = @ + Len(input), !.fed = @ + Len(input)] IN
  IF h.buffer = <<>> THEN ProcessAndPush(g, input)
  ELSE IF Len(h.buffer) + Len(input) < BlockSize
  THEN [g EXCEPT !.buffer = Extend(@, input)]
  ELSE PushAndProcess(g, input)

Numbered(from, n) == [i \in 1 .. n |-> from + i]

ShaInput(c, n) ==
  /\ c \in owner["sha"]
  /\ \/ /\ sha.count + n <= MaxCount
        /\ CallOnce(c)
        /\ sha' = InputSlice(sha, Numbered(sha.fed, n))
     \/ /\ sha.count + n > MaxCount \/ Len(sha.buffer) + n >= BlockSize
        /\ MayCall(c) /\ Abort /\ UNCHANGED sha
  /\ UNCHANGED <<initialized, dcpTaken, context, inUse, owner, channels, ch3,
                 done, lost, overwritten, weak>>

(* Mutant: the engine goes on with the hash. *)
ShaResetBufferOnly(c) ==
  /\ c \in owner["sha"]
  /\ CallOnce(c)
  /\ sha' = [sha EXCEPT !.buffer = <<>>, !.from = sha.fed]
  /\ UNCHANGED <<initialized, dcpTaken, context, inUse, owner, channels, ch3,
                 done, lost, overwritten, weak>>

(* `count` is not reset. *)
ShaReset(c) ==
  /\ c \in owner["sha"]
  /\ CallOnce(c)
  /\ sha' = [sha EXCEPT !.buffer = <<>>, !.first = TRUE, !.from = sha.fed]
  /\ UNCHANGED <<initialized, dcpTaken, context, inUse, owner, channels, ch3,
                 done, lost, overwritten, weak>>

(* What fixed_result hashes last, and so the digest it returns.            *)
Digest(h) == (IF h.first THEN <<>> ELSE h.hashed) \o h.buffer

(* Both fixed_result, whose command may fail, and drop alone end with the  *)
(* destructor.                                                             *)
ShaEnd(c) ==
  /\ c \in owner["sha"]
  /\ \/ Begin(c, "drop", "disable", "sha")
     \/ MayCall(c) /\ Abort
  /\ UNCHANGED dcpVars

DcpStep(c) ==
  \/ InitFlag(c) \/ InitSkip(c) \/ InitInstall(c) \/ NewEnable(c) \/ NewTimeout(c)
  \/ ShaDisable(c) \/ ShaFree(c)
  \/ XcryptSema(c) \/ XcryptDone(c) \/ XcryptAborts(c)

DcpCall(c) ==
  \/ \E d \in Drivers : NewFlag(c, d) \/ NewNone(c, d) \/ AesDrop(c, d) \/ XcryptPtr(c, d)
  \/ \E n \in InputLens : ShaInput(c, n)
  \/ ShaReset(c) \/ ShaEnd(c)

(***************************************************************************)
(* Properties                                                              *)
(***************************************************************************)
DcpTypeOK ==
  /\ {initialized, dcpTaken, context, lost, weak} \subseteq BOOLEAN
  /\ overwritten \subseteq Contexts
  /\ inUse \in [Drivers -> BOOLEAN]
  /\ owner \in [Drivers -> SUBSET Contexts]
  /\ channels \subseteq 1 .. 3
  /\ ch3 \in [ptr : SUBSET Contexts, sema : BOOLEAN]
  /\ done \subseteq Contexts
  /\ sha.first \in BOOLEAN /\ sha.count <= MaxCount
  /\ Len(sha.buffer) < BlockSize

OneOwner == \A d \in Drivers : Cardinality(owner[d]) <= 1

(* A driver is handed out with the context installed, unless the weak      *)
(* exchange of init failed for nothing or another context is at the        *)
(* install (dcp.rs:61).  Its channel stays enabled while it is owned: a    *)
(* destructor that is preempted does not disable its successor.            *)
(* The engine has run the command of a caller of xcrypt, or runs it next,  *)
(* unless another AES driver replaced it in CH3CMDPTR before that; then    *)
(* the engine runs a command that nobody waits for, which it does in no    *)
(* other case, and the call does not return but ends in a reset.  So the   *)
(* drivers do not access different registers (aes128.rs:29), and instances *)
(* are safe to share between contexts that do not preempt each other in    *)
(* xcrypt.                                                                 *)
EngineServesOwner ==
  /\ (\E d \in Drivers : owner[d] # {}) =>
       context \/ weak \/ \E c \in Contexts : task[c].at = "install"
  /\ \A d \in Drivers : owner[d] # {} => NewChannels[d] \subseteq channels
  /\ \A c \in Contexts \ overwritten : Awaiting(c) =>
       ch3.ptr = {c} /\ (task[c].at = "status" => ch3.sema)
  /\ lost => overwritten # {}
  /\ \A c \in overwritten : Awaiting(c)

(* The digest is that of the bytes fed since the handle was taken or       *)
(* reset, in order, however they were cut into inputs.                     *)
DigestIsInput == Digest(sha) = Numbered(sha.from, sha.fed - sha.from)

=============================================================================
