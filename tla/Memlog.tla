------------------------------- MODULE Memlog -------------------------------
(***************************************************************************)
(* The in-memory logger: firmware/memlog (two ring buffers, L0 for `main`  *)
(* and L1 for interrupts) with the flushing functions of usbarmory, the    *)
(* panic handler that ends in one of them, and the reset that flushes      *)
(* nothing: usbarmory::reset, also the end of the exception handler.       *)
(*                                                                         *)
(* `main` flushes in several steps an interrupt may fall between; a push   *)
(* from an interrupt is one step, as all of them are of one priority (the  *)
(* only use the crate documents).  The byte numbered p of a buffer is the  *)
(* value p, so that a misplaced byte shows.                                *)
(***************************************************************************)
EXTENDS Naturals, Sequences

CONSTANTS
  Cap,      \* N0 and N1
  Wrap,     \* 2^32: modulus of the counters `read` and `write`
  Lengths,  \* lengths of the strings logged
  After     \* the buffer that follows each one in memory, or None
            \* (the two share a link section)

None == "none"
L0 == "L0"
L1 == "L1"
Buffers == {L0, L1}

ASSUME CapAssumption ==
  /\ Cap \in Nat \ {0}
  /\ Wrap \in Nat /\ Wrap > Cap /\ Wrap % Cap = 0
  /\ Lengths \subseteq Nat \ {0}
  /\ After \in [Buffers -> Buffers \cup {None}]

VARIABLES
  mem,     \* contents of B0 and B1
  read,    \* counters of the `Buffer`s
  write,
  logged,  \* history: number of bytes accepted for each buffer
  main,    \* where `main` is: "work", "peek", "send", "store"
  chunk,   \* the slice `main` shows to the serial port, and what it took
  phase,   \* "up", "flush" (memlog_flush_and_reset) or "reset"
  rounds,  \* rounds of the loop of memlog_flush_and_reset
  checked  \* the build panics on overflow (profile dev of Cargo.toml)

vars == <<mem, read, write, logged, main, chunk, phase, rounds, checked>>

(* Mutant: "called twice", as the comment of the loop has it. *)
TwoRounds == 2

ROUNDS == 4

Positions == 0 .. Cap - 1
NoChunk == [buf |-> None, from |-> 0, n |-> 0, taken |-> 0]

TypeOK ==
  /\ mem \in [Buffers -> [Positions -> 0 .. Wrap - 1]]
  /\ read \in [Buffers -> 0 .. Wrap - 1]
  /\ write \in [Buffers -> 0 .. Wrap - 1]
  /\ logged \in [Buffers -> 0 .. Wrap - 1]
  /\ main \in {"work", "peek", "send", "store"}
  /\ chunk \in [buf : Buffers \cup {None}, from : 0 .. Wrap - 1,
                n : 0 .. Cap, taken : 0 .. Cap]
  /\ phase \in {"up", "flush", "reset"}
  /\ rounds \in 0 .. ROUNDS
  /\ checked \in BOOLEAN

(* The counters start at zero at every boot; the buffers are not           *)
(* initialized (link section .uninit), and hold what the last run left.    *)
Fresh ==
  /\ read' = [b \in Buffers |-> 0]
  /\ write' = [b \in Buffers |-> 0]
  /\ logged' = [b \in Buffers |-> 0]
  /\ main' = "work"
  /\ chunk' = NoChunk
  /\ phase' = "up"
  /\ rounds' = 0

Init ==
  /\ mem = [b \in Buffers |-> [i \in Positions |-> 0]]
  /\ read = [b \in Buffers |-> 0]
  /\ write = [b \in Buffers |-> 0]
  /\ logged = [b \in Buffers |-> 0]
  /\ main = "work"
  /\ chunk = NoChunk
  /\ phase = "up"
  /\ rounds = 0
  /\ checked \in BOOLEAN

-----------------------------------------------------------------------------
(* Buffer. *)

Minimum(i, j) == IF i < j THEN i ELSE j
Sub(i, j) == (i + Wrap - j) % Wrap

Unread(b) == Sub(write[b], read[b])

Fits(b, n) == n =< Sub(read[b] + Cap, write[b])

(* memcpy of the bytes numbered first .. first + n - 1 to position `to` of *)
(* buffer b; past the end of b it hits the buffer that follows, if any.    *)
Copy(m, b, to, first, n) ==
  [x \in Buffers |->
    [i \in Positions |->
      IF x = b /\ i \in to .. to + n - 1
        THEN (first + i - to) % Wrap
      ELSE IF x = After[b] /\ Cap + i \in to .. to + n - 1
        THEN (first + Cap + i - to) % Wrap
      ELSE m[x][i]]]

(* The split of a message that reaches past the end of the buffer. *)
Pivot(cursor, n) == cursor + n - Cap

Stored(b, n) ==
  LET cursor == write[b] % Cap
      pivot == Pivot(cursor, n)
  IN  IF cursor + n > Cap
        THEN Copy(Copy(mem, b, cursor, logged[b], pivot),
                  b, 0, logged[b] + pivot, n - pivot)
        ELSE Copy(mem, b, cursor, logged[b], n)

(* `write + n` does not wrap in a build that checks; no other sum of the   *)
(* counters can overflow there (SliceIsOldest).                            *)
Overflows(b, n) == checked /\ write[b] + n >= Wrap

Push(b, n) ==
  /\ Fits(b, n) /\ ~ Overflows(b, n)
  /\ mem' = Stored(b, n)
  /\ write' = [write EXCEPT ![b] = (@ + n) % Wrap]
  /\ logged' = [logged EXCEPT ![b] = (@ + n) % Wrap]
  /\ UNCHANGED read

(* Mutant: the slice reaches past the end of the buffer. *)
ContiguousPastEnd(b) == Unread(b)

(* What peek shows: up to the end of the buffer. *)
Contiguous(b) == Minimum(Unread(b), Cap - (read[b] % Cap))

(* Mutants: L0 before L1; L0 never. *)
ShownMainFirst ==
  IF Contiguous(L0) # 0 THEN L0 ELSE IF Contiguous(L1) # 0 THEN L1 ELSE None
ShownIsrOnly == IF Contiguous(L1) # 0 THEN L1 ELSE None

(* The closure is called once: on L0 only when L1 is empty. *)
Shown ==
  IF Contiguous(L1) # 0 THEN L1 ELSE IF Contiguous(L0) # 0 THEN L0 ELSE None

-----------------------------------------------------------------------------
(* memlog_flush_and_reset begins: interrupts are off from here on. *)
Flush ==
  /\ phase' = "flush"
  /\ rounds' = 0
  /\ UNCHANGED <<read, write, logged, main, chunk, checked>>

(* A push that does not fit panics before anything is copied, one that     *)
(* overflows the counter after; the panic handler ends in                  *)
(* memlog_flush_and_reset.                                                 *)
PushPanics(b, n) ==
  /\ \/ ~ Fits(b, n) /\ UNCHANGED mem
     \/ Fits(b, n) /\ Overflows(b, n) /\ mem' = Stored(b, n)
  /\ Flush

(* `main`: memlog! logs and flushes, memlog_try_flush only flushes. *)
MainLog(n) ==
  /\ phase = "up" /\ main = "work"
  /\ \/ /\ Push(L0, n)
        /\ main' = "peek"
        /\ UNCHANGED <<chunk, phase, rounds, checked>>
     \/ PushPanics(L0, n)

TryFlush ==
  /\ phase = "up" /\ main = "work"
  /\ main' = "peek"
  /\ UNCHANGED <<mem, read, write, logged, chunk, phase, rounds, checked>>

Peek ==
  /\ phase = "up" /\ main = "peek"
  /\ IF Shown = None
       THEN main' = "work" /\ UNCHANGED chunk
       ELSE /\ main' = "send"
            /\ chunk' = [buf |-> Shown, from |-> read[Shown],
                         n |-> Contiguous(Shown), taken |-> 0]
  /\ UNCHANGED <<mem, read, write, logged, phase, rounds, checked>>

(* try_write_all: as many bytes as the serial port has room for. *)
Send(k) ==
  /\ phase = "up" /\ main = "send"
  /\ k =< chunk.n
  /\ chunk' = [chunk EXCEPT !.taken = k]
  /\ main' = "store"
  /\ UNCHANGED <<mem, read, write, logged, phase, rounds, checked>>

Advance ==
  /\ phase = "up" /\ main = "store"
  /\ read' = [read EXCEPT ![chunk.buf] = (chunk.from + chunk.taken) % Wrap]
  /\ main' = "work"
  /\ chunk' = NoChunk
  /\ UNCHANGED <<mem, write, logged, phase, rounds, checked>>

(* A handler logs in the middle of whatever `main` does; its own flush     *)
(* does nothing outside `main`.                                            *)
IsrLog(n) ==
  /\ phase = "up"
  /\ \/ Push(L1, n) /\ UNCHANGED <<main, chunk, phase, rounds, checked>>
     \/ PushPanics(L1, n)

(* memlog_flush_and_reset, called by `main` or by a handler. *)
FlushAndReset ==
  /\ phase = "up"
  /\ Flush
  /\ UNCHANGED mem

(* One round: whatever peek shows is written, however long it takes. *)
Round ==
  /\ phase = "flush" /\ rounds < ROUNDS
  /\ rounds' = rounds + 1
  /\ read' = [b \in Buffers |->
       IF b = Shown THEN (read[b] + Contiguous(b)) % Wrap ELSE read[b]]
  /\ UNCHANGED <<mem, write, logged, main, chunk, phase, checked>>

Reset ==
  /\ phase = "flush" /\ rounds = ROUNDS
  /\ phase' = "reset"
  /\ UNCHANGED <<mem, read, write, logged, main, chunk, rounds, checked>>

(* usbarmory::reset, called by the program at any moment, or by            *)
(* DefaultHandler on an exception: what the rings hold is lost.            *)
ResetAtOnce ==
  /\ phase = "up"
  /\ phase' = "reset"
  /\ UNCHANGED <<mem, read, write, logged, main, chunk, rounds, checked>>

Boot ==
  /\ phase = "reset"
  /\ Fresh
  /\ UNCHANGED <<mem, checked>>

MainStep ==
  \/ \E n \in Lengths : MainLog(n)
  \/ TryFlush
  \/ Peek
  \/ \E k \in 0 .. Cap : Send(k)
  \/ Advance

Next ==
  \/ MainStep
  \/ \E n \in Lengths : IsrLog(n)
  \/ FlushAndReset
  \/ Round
  \/ Reset
  \/ ResetAtOnce
  \/ Boot

Spec == Init /\ [][Next]_vars

(* `main` is a loop around memlog! and memlog_try_flush, and the serial    *)
(* port, which transmits what it has, has room again and again.            *)
Fairness ==
  /\ WF_vars(MainStep)
  /\ SF_vars(\E k \in 1 .. Cap : Send(k))

FairSpec == Spec /\ Fairness

-----------------------------------------------------------------------------
(* Properties. *)

(* The rings implement the queues: no byte is lost, overwritten before it  *)
(* is flushed, or flushed out of order, through wrap-around of the buffer  *)
(* and of the counters, and a flush begun (by a panic or                   *)
(* memlog_flush_and_reset) resets the board only with both rings empty,    *)
(* though each of its rounds shows the closure a single slice.  Only       *)
(* ResetAtOnce loses what is logged.                                       *)
Contents(b) == [k \in 1 .. Unread(b) |-> mem[b][(read[b] + k - 1) % Cap]]
Log == INSTANCE LogQueues
         WITH Queues <- Buffers,
              queue <- [b \in Buffers |-> Contents(b)],
              state <- phase
ImplementsQueues == Log!Spec

(* From the peek to the end of the transmission, whatever is logged in     *)
(* between, the slice lies within the buffer and holds the oldest bytes    *)
(* not yet flushed; in a build that checks for overflow the read counter   *)
(* stays behind the write counter, so that advancing it (lib.rs:108) never *)
(* panics; all variables keep their types.                                 *)
SliceIsOldest ==
  /\ TypeOK
  /\ checked => \A b \in Buffers : read[b] =< write[b]
  /\ phase = "up" /\ main \in {"send", "store"} =>
    /\ (chunk.from % Cap) + chunk.n =< Cap
    /\ chunk.from = read[chunk.buf] /\ chunk.n =< Unread(chunk.buf)
    /\ \A i \in 0 .. chunk.n - 1 :
         mem[chunk.buf][(chunk.from % Cap) + i] = (chunk.from + i) % Wrap

(* What interrupts log leaves the buffer while `main` runs its loop,       *)
(* whatever `main` itself logs.                                            *)
IsrLogLeaves ==
  \A r \in 0 .. Wrap - 1 :
    read[L1] = r /\ Unread(L1) # 0 ~> read[L1] # r \/ phase # "up"

(* What `main` logs leaves once interrupts leave their buffer empty.       *)
MainLogLeaves ==
  <>[](Unread(L1) = 0) =>
    \A r \in 0 .. Wrap - 1 :
      read[L0] = r /\ Unread(L0) # 0 ~> read[L0] # r \/ phase # "up"

=============================================================================
