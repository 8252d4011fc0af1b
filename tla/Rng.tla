-------------------------------- MODULE Rng --------------------------------
(***************************************************************************)
(* The random number generator: its FIFO, filled by the hardware once a    *)
(* seed exists and read word by word, and the recovery from an error with  *)
(* a software reset.                                                       *)
(***************************************************************************)
EXTENDS Contexts

CONSTANTS
  FifoSize,    \* FIFO_SIZE
  BufLens,     \* lengths of the buffers passed to write
  MaxErrors    \* bound: errors the generator reports

ASSUME RngAssumption ==
  FifoSize \in Nat \ {0} /\ BufLens \subseteq Nat /\ MaxErrors \in Nat

VARIABLES
  rngOwner,   \* contexts that own the Rng
  level,      \* words in the FIFO
  seeded,     \* SR_SDN
  error,      \* ESR # 0
  errors,     \* errors reported so far
  job,        \* `words` to wait for and `len`, the most to read
  left,       \* words still to read
  stale       \* a word was read from the empty FIFO

rngVars == <<rngOwner, level, seeded, error, errors, job, left, stale>>

RngInit ==
  /\ rngOwner = {}
  /\ level = 0
  /\ seeded = FALSE
  /\ error = FALSE
  /\ errors = 0
  /\ job = [words |-> 0, len |-> 0]
  /\ left = 0
  /\ stale = FALSE

(* RNG::take succeeds once; auto_seed starts the first seed.               *)
Initialize(c) ==
  /\ CallOnce(c)
  /\ rngOwner = {}
  /\ rngOwner' = {c}
  /\ UNCHANGED <<level, seeded, error, errors, job, left, stale>>

RngCall(c, op, words, len) ==
  /\ c \in rngOwner
  /\ Begin(c, op, "esr", "rng")
  /\ job' = [words |-> words, len |-> len]
  /\ UNCHANGED <<rngOwner, level, seeded, error, errors, left, stale>>

NextU32(c) == RngCall(c, "next_u32", 1, 1)
Write(c, len) == RngCall(c, "write", 1, len)
Generate(c) == RngCall(c, "generate", FifoSize, FifoSize)

Stats(c) ==
  /\ c \in rngOwner
  /\ Begin(c, "stats", "seed", "rng")
  /\ UNCHANGED rngVars

RngOps == {"next_u32", "write", "generate"}
RngAt(c, at) == \E op \in RngOps : At(c, op, at)

(* wait_for_fifo_level: an error found here resets the generator.          *)
CheckError(c) ==
  /\ RngAt(c, "esr")
  /\ \/ error /\ error' = FALSE /\ seeded' = FALSE /\ level' = 0 /\ Goto(c, "seed")
     \/ ~ error /\ Goto(c, "level") /\ UNCHANGED <<error, seeded, level>>
  /\ UNCHANGED <<rngOwner, errors, job, left, stale>>

WaitForInitialSeed(c) ==
  /\ RngAt(c, "seed") \/ At(c, "stats", "seed")
  /\ seeded
  /\ IF task[c].op = "stats" THEN Return(c) ELSE Goto(c, "level")
  /\ UNCHANGED rngVars

(* Mutant: the buffer is filled to its end. *)
WaitForLevelFills(c) ==
  /\ RngAt(c, "level")
  /\ level >= job.words
  /\ left' = job.len
  /\ IF job.len = 0 THEN Return(c) ELSE Goto(c, "out")
  /\ UNCHANGED <<rngOwner, level, seeded, error, errors, job, stale>>

(* Mutant: off by one. *)
WaitForMore(c) ==
  /\ RngAt(c, "level")
  /\ level > job.words
  /\ left' = IF level < job.len THEN level ELSE job.len
  /\ IF left' = 0 THEN Return(c) ELSE Goto(c, "out")
  /\ UNCHANGED <<rngOwner, level, seeded, error, errors, job, stale>>

WaitForFifoLevel(c) ==
  /\ RngAt(c, "level")
  /\ level >= job.words
  /\ left' = IF level < job.len THEN level ELSE job.len
  /\ IF left' = 0 THEN Return(c) ELSE Goto(c, "out")
  /\ UNCHANGED <<rngOwner, level, seeded, error, errors, job, stale>>

ReadOut(c) ==
  /\ RngAt(c, "out")
  /\ stale' = (stale \/ level = 0)
  /\ level' = IF level = 0 THEN 0 ELSE level - 1
  /\ left' = left - 1
  /\ IF left = 1 THEN Return(c) ELSE UNCHANGED contextVars
  /\ UNCHANGED <<rngOwner, seeded, error, errors, job>>

(***************************************************************************)
(* The generator                                                           *)
(***************************************************************************)
Seed ==
  /\ alive /\ rngOwner # {} /\ ~ seeded /\ ~ error
  /\ seeded' = TRUE
  /\ UNCHANGED contextVars
  /\ UNCHANGED <<rngOwner, level, error, errors, job, left, stale>>

Fill ==
  /\ alive /\ seeded /\ ~ error /\ level < FifoSize
  /\ level' = level + 1
  /\ UNCHANGED contextVars
  /\ UNCHANGED <<rngOwner, seeded, error, errors, job, left, stale>>

Fault ==
  /\ alive /\ rngOwner # {} /\ ~ error /\ errors < MaxErrors
  /\ error' = TRUE
  /\ errors' = errors + 1
  /\ UNCHANGED contextVars
  /\ UNCHANGED <<rngOwner, level, seeded, job, left, stale>>

RngStep(c) ==
  CheckError(c) \/ WaitForInitialSeed(c) \/ WaitForFifoLevel(c) \/ ReadOut(c)

RngUse(c) ==
  \/ Initialize(c) \/ NextU32(c) \/ Generate(c) \/ Stats(c)
  \/ \E len \in BufLens : Write(c, len)

(***************************************************************************)
(* Properties                                                              *)
(***************************************************************************)
RngTypeOK ==
  /\ rngOwner \subseteq Contexts
  /\ level \in 0 .. FifoSize
  /\ {seeded, error, stale} \subseteq BOOLEAN
  /\ errors \in 0 .. MaxErrors
  /\ job \in [words : Nat, len : Nat]
  /\ left \in Nat

(* Every word handed out was in the FIFO: what is left to read never       *)
(* exceeds what the FIFO holds, whatever the hardware does in between.     *)
FreshWords == ~ stale

(* The waits look at the error once, before they begin: an error reported  *)
(* after that keeps the caller waiting for good.                           *)
Overtaken(c) == error /\ task[c].at \in {"seed", "level"}

=============================================================================
