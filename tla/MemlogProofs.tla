---------------------------- MODULE MemlogProofs ----------------------------
(***************************************************************************)
(* Proofs about Memlog, for any capacity, any width of the counters that   *)
(* the capacity divides, and any placement of the buffers.  The counters   *)
(* are right whatever is logged, and four rounds always empty both rings.  *)
(* Where the split of a message at the end of its ring is right            *)
(* (GoodSplits), the rings implement the queues.                           *)
(***************************************************************************)
EXTENDS Memlog, SequenceTheorems, TLAPS

(* The part of a message before the end of the ring fills the ring.        *)
GoodSplits ==
  \A n \in Lengths, cursor \in Positions :
    n <= Cap /\ cursor + n > Cap => Pivot(cursor, n) = Cap - cursor

-----------------------------------------------------------------------------
(* Remainders. *)

LEMMA Remainder ==
  \A a, m \in Nat : m > 0 =>
    /\ a % m \in 0 .. m - 1
    /\ a < m => a % m = a
    /\ m <= a /\ a < 2 * m => a % m = a - m
OBVIOUS

LEMMA Quotient == \A a, m \in Nat : m > 0 => \E q \in Nat : a = q * m + (a % m)
OBVIOUS

LEMMA RemainderIs == \A q, r, m \in Nat : r < m => (q * m + r) % m = r
OBVIOUS

LEMMA RemainderPlus ==
  ASSUME NEW a \in Nat, NEW k \in Nat, NEW m \in Nat, m > 0
  PROVE  ((a % m) + k) % m = (a + k) % m
<1>1. PICK q \in Nat : a = q * m + (a % m)
  BY Quotient
<1>2. PICK r \in Nat : r = a % m
  BY Remainder
<1>3. r + k \in Nat
  OBVIOUS
<1>4. PICK p \in Nat : r + k = p * m + ((r + k) % m)
  BY <1>3, Quotient
<1>5. PICK s \in Nat : s = (r + k) % m /\ s < m
  BY <1>3, Remainder
<1>6. a + k = (q + p) * m + s /\ q + p \in Nat
  BY <1>1, <1>2, <1>4, <1>5
<1>7. ((q + p) * m + s) % m = s
  BY <1>5, <1>6, RemainderIs
<1> QED
  BY <1>2, <1>5, <1>6, <1>7

LEMMA RemainderRemainder ==
  ASSUME NEW a \in Nat
  PROVE  (a % Wrap) % Cap = a % Cap
<1>1. Cap \in Nat /\ Cap > 0 /\ Wrap \in Nat /\ Wrap > 0 /\ Wrap % Cap = 0
  BY CapAssumption
<1>2. PICK q \in Nat : Wrap = q * Cap
  BY <1>1, Quotient
<1>3. PICK p \in Nat : a = p * Wrap + (a % Wrap)
  BY <1>1, Quotient
<1>4. a % Wrap \in Nat
  BY <1>1, Remainder
<1>5. PICK t \in Nat : a % Wrap = t * Cap + ((a % Wrap) % Cap)
  BY <1>1, <1>4, Quotient
<1> DEFINE s == (a % Wrap) % Cap
<1>6. s \in Nat /\ s < Cap
  BY <1>1, <1>4, Remainder
<1>7. a = p * (q * Cap) + (t * Cap + s)
  BY <1>2, <1>3, <1>5
<1> HIDE DEF s
<1>8. a = (p * q + t) * Cap + s /\ p * q + t \in Nat
  BY <1>1, <1>6, <1>7
<1>9. ((p * q + t) * Cap + s) % Cap = s
  BY <1>1, <1>6, <1>8, RemainderIs
<1> QED
  BY <1>8, <1>9 DEF s

(***************************************************************************)
(* The arithmetic of the counters.                                         *)
(***************************************************************************)
Counters == 0 .. Wrap - 1

LEMMA Sizes ==
  /\ Cap \in Nat /\ Cap > 0 /\ Wrap \in Nat /\ Wrap > Cap
  /\ Lengths \subseteq Nat /\ 0 \notin Lengths
BY CapAssumption

(* The condition is met by messages of one and two bytes; had the code     *)
(* Pivot = Cap - cursor, it would be met by all.                           *)
LEMMA ShortSplits == Lengths \subseteq {1, 2} => GoodSplits
BY Sizes DEF GoodSplits, Pivot, Positions

LEMMA Difference ==
  ASSUME NEW i \in Counters, NEW j \in Counters
  PROVE  Sub(i, j) \in Counters /\ i = (j + Sub(i, j)) % Wrap
<1>1. i \in Nat /\ j \in Nat /\ i < Wrap /\ j < Wrap /\ Wrap \in Nat /\ Wrap > 0
  BY Sizes DEF Counters
<1>2. CASE j <= i
  <2>1. (i + Wrap - j) % Wrap = i - j
    BY <1>1, <1>2, Remainder
  <2>2. i % Wrap = i
    BY <1>1, Remainder
  <2> QED
    BY <1>1, <1>2, <2>1, <2>2 DEF Sub, Counters
<1>3. CASE i < j
  <2>1. (i + Wrap - j) % Wrap = i + Wrap - j
    BY <1>1, <1>3, Remainder
  <2>2. (j + (i + Wrap - j)) % Wrap = i
    BY <1>1, Remainder
  <2> QED
    BY <1>1, <1>3, <2>1, <2>2 DEF Sub, Counters
<1> QED
  BY <1>1, <1>2, <1>3

LEMMA SumMinus ==
  ASSUME NEW j \in Counters, NEW u \in Counters
  PROVE  (j + u) % Wrap \in Counters /\ Sub((j + u) % Wrap, j) = u
<1>1. u \in Nat /\ j \in Nat /\ u < Wrap /\ j < Wrap /\ Wrap \in Nat /\ Wrap > 0
  BY Sizes DEF Counters
<1>2. CASE j + u < Wrap
  <2>1. (j + u) % Wrap = j + u
    BY <1>1, <1>2, Remainder
  <2>2. ((j + u) + Wrap - j) % Wrap = u
    BY <1>1, Remainder
  <2> QED
    BY <1>1, <1>2, <2>1, <2>2 DEF Sub, Counters
<1>3. CASE j + u >= Wrap
  <2>1. (j + u) % Wrap = j + u - Wrap
    BY <1>1, <1>3, Remainder
  <2>2. ((j + u - Wrap) + Wrap - j) % Wrap = u
    BY <1>1, Remainder
  <2> QED
    BY <1>1, <1>3, <2>1, <2>2 DEF Sub, Counters
<1> QED
  BY <1>1, <1>2, <1>3

LEMMA Room ==
  ASSUME NEW r \in Counters, NEW u \in 0 .. Cap
  PROVE  Sub(r + Cap, (r + u) % Wrap) = Cap - u
<1>1. u \in Nat /\ u <= Cap /\ r \in Nat /\ r < Wrap /\ Wrap \in Nat /\ Cap < Wrap /\ Cap \in Nat
  BY Sizes DEF Counters
<1>2. CASE r + u < Wrap
  <2>1. (r + u) % Wrap = r + u
    BY <1>1, <1>2, Remainder
  <2>2. (r + Cap + Wrap - (r + u)) % Wrap = Cap - u
    BY <1>1, Remainder
  <2> QED
    BY <2>1, <2>2 DEF Sub
<1>3. CASE r + u >= Wrap
  <2>1. (r + u) % Wrap = r + u - Wrap
    BY <1>1, <1>3, Remainder
  <2>2. r + Cap + Wrap - (r + u - Wrap) = 2 * Wrap + (Cap - u)
    BY <1>1
  <2>3. (2 * Wrap + (Cap - u)) % Wrap = Cap - u
    BY <1>1, RemainderIs
  <2> QED
    BY <2>1, <2>2, <2>3 DEF Sub
<1> QED
  BY <1>1, <1>2, <1>3

(* Where the byte numbered r + k is. *)
LEMMA PlaceOf ==
  ASSUME NEW r \in Nat, NEW k \in 0 .. Cap - 1
  PROVE  /\ (r + k) % Cap \in Positions /\ r % Cap \in Positions
         /\ (r + k) % Cap = IF (r % Cap) + k < Cap THEN (r % Cap) + k ELSE (r % Cap) + k - Cap
<1>1. /\ k \in Nat /\ k < Cap /\ Cap \in Nat /\ Cap > 0
      /\ r % Cap \in Nat /\ r % Cap < Cap
  BY Sizes, Remainder
<1>2. (r + k) % Cap = ((r % Cap) + k) % Cap
  BY <1>1, RemainderPlus
<1>3. ((r % Cap) + k) % Cap =
        IF (r % Cap) + k < Cap THEN (r % Cap) + k ELSE (r % Cap) + k - Cap
  BY <1>1, Remainder
<1> QED
  BY <1>1, <1>2, <1>3 DEF Positions

(* Bytes less than a ring apart have places of their own. *)
LEMMA PlacesDiffer ==
  ASSUME NEW r \in Nat, NEW k \in Nat, NEW l \in Nat, k < l, l - k < Cap
  PROVE  (r + k) % Cap # (r + l) % Cap
<1>1. PICK a \in Nat : a = r + k
  OBVIOUS
<1>2. PICK d \in 0 .. Cap - 1 : d = l - k /\ d > 0 /\ r + l = a + d
  BY <1>1, Sizes
<1>3. Cap \in Nat /\ a % Cap \in Nat /\ a % Cap < Cap
  BY Sizes, Remainder
<1>4. (a + d) % Cap = IF (a % Cap) + d < Cap THEN (a % Cap) + d ELSE (a % Cap) + d - Cap
  BY PlaceOf
<1>5. (a + d) % Cap # a % Cap
  BY <1>2, <1>3, <1>4
<1> QED
  BY <1>1, <1>2, <1>5

(***************************************************************************)
(* The counters, whatever is logged.                                       *)
(***************************************************************************)
(* Slices a ring is shown in until it is empty. *)
Slices(b) == IF Unread(b) = 0 THEN 0 ELSE IF Contiguous(b) = Unread(b) THEN 1 ELSE 2

RingInv == logged = write /\ \A b \in Buffers : Unread(b) <= Cap

ChunkInv ==
  phase = "up" /\ main \in {"send", "store"} =>
    /\ chunk.buf \in Buffers /\ chunk.from = read[chunk.buf]
    /\ (chunk.from % Cap) + chunk.n <= Cap /\ chunk.n <= Unread(chunk.buf)
    /\ chunk.taken <= chunk.n

RoundsInv == phase = "flush" => rounds + Slices(L0) + Slices(L1) <= ROUNDS

(* In a build that checks for overflow nothing wraps. *)
StraightInv == checked => \A b \in Buffers : read[b] <= write[b]

CounterInv == TypeOK /\ RingInv /\ ChunkInv /\ RoundsInv /\ StraightInv

LEMMA RingFacts ==
  ASSUME TypeOK, RingInv, NEW b \in Buffers
  PROVE  /\ read[b] \in Counters /\ write[b] \in Counters /\ read[b] \in Nat /\ write[b] \in Nat
         /\ Unread(b) \in 0 .. Cap /\ Unread(b) \in Nat /\ Unread(b) \in Counters
         /\ write[b] = (read[b] + Unread(b)) % Wrap /\ logged[b] = write[b]
         /\ read[b] % Cap \in 0 .. Cap - 1
<1>1. read[b] \in Counters /\ write[b] \in Counters
  BY DEF TypeOK, Counters
<1>2. Unread(b) \in Counters /\ write[b] = (read[b] + Unread(b)) % Wrap
  BY <1>1, Difference DEF Unread
<1>3. read[b] \in Nat /\ write[b] \in Nat /\ Unread(b) \in Nat
  BY <1>1, <1>2, Sizes DEF Counters
<1>4. read[b] % Cap \in 0 .. Cap - 1
  BY <1>3, Sizes, Remainder
<1> QED
  BY <1>1, <1>2, <1>3, <1>4, Sizes DEF RingInv

LEMMA ContiguousFacts ==
  ASSUME TypeOK, RingInv, NEW b \in Buffers
  PROVE  /\ Contiguous(b) \in 0 .. Unread(b) /\ (read[b] % Cap) + Contiguous(b) <= Cap
         /\ Contiguous(b) = 0 <=> Unread(b) = 0
         /\ Contiguous(b) # Unread(b) => Contiguous(b) = Cap - (read[b] % Cap)
         /\ Slices(b) \in 0 .. 2 /\ (Slices(b) = 0 <=> Unread(b) = 0)
BY RingFacts, Sizes DEF Contiguous, Minimum, Slices

LEMMA FitsFacts ==
  ASSUME TypeOK, RingInv, NEW b \in Buffers, NEW n \in Lengths, Fits(b, n)
  PROVE  n \in Nat /\ n > 0 /\ n <= Cap - Unread(b) /\ n <= Cap
<1>1. /\ read[b] \in Counters /\ Unread(b) \in 0 .. Cap /\ write[b] = (read[b] + Unread(b)) % Wrap
      /\ n \in Nat /\ n > 0 /\ Cap \in Nat
  BY RingFacts, Sizes
<1>2. n <= Cap - Unread(b)
  BY <1>1, Room DEF Fits
<1> QED
  BY <1>1, <1>2

(* What a push does to the counters. *)
LEMMA PushCounters ==
  ASSUME TypeOK, RingInv, NEW b \in Buffers, NEW n \in Lengths, Push(b, n)
  PROVE  /\ n \in Nat /\ Unread(b) + n <= Cap /\ Unread(b)' = Unread(b) + n
         /\ \A x \in Buffers \ {b} : Unread(x)' = Unread(x)
         /\ write' \in [Buffers -> Counters] /\ logged' = write' /\ read' = read
         /\ RingInv'
<1>1. /\ read[b] \in Counters /\ Unread(b) \in 0 .. Cap /\ write[b] = (read[b] + Unread(b)) % Wrap
      /\ read[b] \in Nat /\ Unread(b) \in Nat /\ n \in Nat /\ Cap \in Nat /\ Cap < Wrap
      /\ Wrap \in Nat /\ Wrap > 0
  BY RingFacts, Sizes
<1>2. n <= Cap - Unread(b)
  BY FitsFacts DEF Push
<1>3. write'[b] = (write[b] + n) % Wrap /\ read' = read /\ logged' = write'
      /\ \A x \in Buffers \ {b} : write'[x] = write[x]
  BY DEF Push, TypeOK, RingInv
<1>4. (write[b] + n) % Wrap = (read[b] + (Unread(b) + n)) % Wrap
  <2>1. PICK a \in Nat : a = read[b] + Unread(b) /\ read[b] + (Unread(b) + n) = a + n
    BY <1>1
  <2>2. ((a % Wrap) + n) % Wrap = (a + n) % Wrap
    BY <1>1, RemainderPlus
  <2> QED
    BY <1>1, <2>1, <2>2
<1>5. Unread(b) + n \in Counters
  BY <1>1, <1>2 DEF Counters
<1>6. write'[b] \in Counters /\ Unread(b)' = Unread(b) + n
  BY <1>1, <1>3, <1>4, <1>5, SumMinus DEF Unread
<1>7. \A x \in Buffers \ {b} : Unread(x)' = Unread(x)
  BY <1>3 DEF Unread
<1>8. write' \in [Buffers -> Counters]
  BY <1>3, <1>6 DEF Push, TypeOK, Counters
<1>9. RingInv'
  BY <1>1, <1>2, <1>3, <1>6, <1>7 DEF RingInv
<1> QED
  BY <1>1, <1>2, <1>3, <1>6, <1>7, <1>8, <1>9

(* What taking k bytes off a ring does. *)
LEMMA TakeCounters ==
  ASSUME TypeOK, RingInv, NEW b \in Buffers, NEW k \in 0 .. Unread(b),
         read' = [read EXCEPT ![b] = (read[b] + k) % Wrap], write' = write, logged' = logged
  PROVE  /\ Unread(b)' = Unread(b) - k
         /\ \A x \in Buffers \ {b} : Unread(x)' = Unread(x)
         /\ read' \in [Buffers -> Counters] /\ read'[b] = (read[b] + k) % Wrap
         /\ RingInv'
<1>0. read[b] \in Nat /\ Unread(b) \in Nat /\ k \in Nat /\ k <= Unread(b)
  BY RingFacts
<1>1. /\ read[b] \in Counters /\ Unread(b) \in 0 .. Cap /\ write[b] = (read[b] + Unread(b)) % Wrap
      /\ read[b] \in Nat /\ Unread(b) \in Nat /\ Cap \in Nat /\ Cap < Wrap
      /\ Wrap \in Nat /\ Wrap > 0 /\ k \in Nat /\ k <= Unread(b)
  BY RingFacts, Sizes
<1>2. /\ read'[b] = (read[b] + k) % Wrap /\ \A x \in Buffers \ {b} : read'[x] = read[x]
      /\ DOMAIN read' = Buffers
  BY DEF TypeOK
<1>3. read'[b] \in Counters
  BY <1>1, <1>2, Remainder DEF Counters
<1>4. write[b] = (read'[b] + (Unread(b) - k)) % Wrap
  <2>1. PICK d \in Nat : d = Unread(b) - k
    BY <1>0
  <2>3. read[b] + Unread(b) = (read[b] + k) + d
    BY <1>0, <2>1
  <2>2. (((read[b] + k) % Wrap) + d) % Wrap = ((read[b] + k) + d) % Wrap
    <3>1. PICK a \in Nat : a = read[b] + k
      BY <1>1
    <3>2. ((a % Wrap) + d) % Wrap = (a + d) % Wrap
      BY <1>1, RemainderPlus
    <3> QED
      BY <3>1, <3>2
  <2> QED
    BY <1>1, <1>2, <2>1, <2>2, <2>3
<1>5. Unread(b) - k \in Counters
  BY <1>1 DEF Counters
<1>6. Unread(b)' = Unread(b) - k
  BY <1>3, <1>4, <1>5, SumMinus DEF Unread
<1>7. \A x \in Buffers \ {b} : Unread(x)' = Unread(x)
  BY <1>2 DEF Unread
<1>8. read' \in [Buffers -> Counters]
  BY <1>2, <1>3 DEF TypeOK, Counters
<1>9. RingInv'
  BY <1>1, <1>6, <1>7 DEF RingInv
<1> QED
  BY <1>2, <1>6, <1>7, <1>8, <1>9

(***************************************************************************)
(* Each action keeps the invariant of the counters.                        *)
(***************************************************************************)
Memories == [Buffers -> [Positions -> Counters]]

LEMMA CopyTyped ==
  ASSUME NEW m \in Memories, NEW b \in Buffers, NEW to \in Nat, NEW first \in Nat, NEW n \in Nat
  PROVE  Copy(m, b, to, first, n) \in Memories
<1>1. \A a \in Nat : a % Wrap \in Counters
  BY Sizes, Remainder DEF Counters
<1>2. ASSUME NEW i \in Positions
      PROVE  /\ i \in to .. to + n - 1 => first + i - to \in Nat
             /\ Cap + i \in to .. to + n - 1 => first + Cap + i - to \in Nat
  BY Sizes DEF Positions
<1> QED
  BY <1>1, <1>2 DEF Copy, Memories

LEMMA StoredTyped ==
  ASSUME TypeOK, NEW b \in Buffers, NEW n \in Lengths
  PROVE  Stored(b, n) \in Memories
<1>1. /\ mem \in Memories /\ logged[b] \in Nat /\ write[b] \in Nat /\ n \in Nat
      /\ Cap \in Nat /\ Cap > 0 /\ 0 \in Nat
  BY Sizes DEF TypeOK, Memories, Counters
<1>2. PICK cursor \in Nat : cursor = write[b] % Cap /\ cursor < Cap
  BY <1>1, Remainder
<1>3. PICK pivot \in Int : pivot = Pivot(cursor, n) /\ pivot = cursor + n - Cap
  BY <1>1 DEF Pivot
<1>4. CASE cursor + n > Cap
  <2>1. pivot \in Nat /\ logged[b] + pivot \in Nat /\ n - pivot \in Nat
    BY <1>1, <1>2, <1>3, <1>4
  <2>2. Copy(mem, b, cursor, logged[b], pivot) \in Memories
    BY <1>1, <2>1, CopyTyped
  <2>3. Copy(Copy(mem, b, cursor, logged[b], pivot), b, 0, logged[b] + pivot, n - pivot) \in Memories
    BY <1>1, <2>1, <2>2, CopyTyped
  <2> QED
    BY <1>2, <1>3, <1>4, <2>3 DEF Stored
<1>5. CASE ~ (cursor + n > Cap)
  <2>1. Copy(mem, b, cursor, logged[b], n) \in Memories
    BY <1>1, CopyTyped
  <2> QED
    BY <1>2, <1>5, <2>1 DEF Stored
<1> QED
  BY <1>4, <1>5

(* Counters that do not wrap differ by what is unread. *)
LEMMA StraightFacts ==
  ASSUME CounterInv, checked, NEW b \in Buffers
  PROVE  write[b] = read[b] + Unread(b)
<1>1. /\ read[b] \in Nat /\ write[b] \in Nat /\ read[b] <= write[b] /\ write[b] < Wrap
      /\ Wrap \in Nat /\ Wrap > 0
  BY RingFacts, Sizes DEF CounterInv, StraightInv, Counters
<1>2. PICK d \in Nat : d = write[b] - read[b] /\ d < Wrap
  BY <1>1
<1>3. (write[b] + Wrap - read[b]) % Wrap = d
  BY <1>1, <1>2, Remainder
<1> QED
  BY <1>1, <1>2, <1>3 DEF Unread, Sub

LEMMA PushStraight ==
  ASSUME CounterInv, NEW b \in Buffers, NEW n \in Lengths, Push(b, n), checked' = checked
  PROVE  StraightInv'
<1> SUFFICES ASSUME checked, NEW x \in Buffers PROVE read'[x] <= write'[x]
  BY DEF StraightInv
<1>1. /\ read' = read /\ read[x] <= write[x] /\ read[x] \in Nat /\ write[x] \in Nat
      /\ n \in Nat /\ Wrap \in Nat /\ write \in [Buffers -> Counters]
  BY RingFacts, Sizes DEF Push, CounterInv, StraightInv, TypeOK, Counters
<1>2. CASE x = b
  <2>1. write[b] + n < Wrap
    BY <1>1, <1>2 DEF Push, Overflows
  <2>2. (write[b] + n) % Wrap = write[b] + n
    <3>1. PICK a \in Nat : a = write[b] + n
      BY <1>1, <1>2
    <3>2. a % Wrap = a
      BY <1>1, <2>1, <3>1, Remainder
    <3> QED
      BY <3>1, <3>2
  <2>3. write'[b] = write[b] + n
    BY <1>1, <2>2 DEF Push
  <2> QED
    BY <1>1, <1>2, <2>3
<1>3. CASE x # b
  BY <1>1, <1>3 DEF Push
<1> QED
  BY <1>2, <1>3

LEMMA TakeStraight ==
  ASSUME CounterInv, NEW b \in Buffers, NEW k \in 0 .. Unread(b),
         read' = [read EXCEPT ![b] = (read[b] + k) % Wrap], write' = write, checked' = checked
  PROVE  StraightInv'
<1> SUFFICES ASSUME checked, NEW x \in Buffers PROVE read'[x] <= write'[x]
  BY DEF StraightInv
<1>1. /\ read[x] <= write[x] /\ read \in [Buffers -> Counters] /\ Wrap \in Nat
  BY Sizes DEF CounterInv, StraightInv, TypeOK, Counters
<1>2. CASE x = b
  <2>1. /\ write[b] = read[b] + Unread(b) /\ read[b] \in Nat /\ write[b] \in Nat
        /\ write[b] < Wrap /\ Unread(b) \in Nat
    BY StraightFacts, RingFacts, Sizes DEF CounterInv, Counters
  <2>2. PICK a \in Nat : a = read[b] + k /\ a <= write[b] /\ a < Wrap
    BY <1>1, <2>1
  <2>3. a % Wrap = a
    BY <1>1, <2>2, Remainder
  <2> QED
    BY <1>1, <1>2, <2>2, <2>3
<1>3. CASE x # b
  BY <1>1, <1>3
<1> QED
  BY <1>2, <1>3

(* A message is accepted. *)
LEMMA PushKeeps ==
  ASSUME CounterInv, NEW b \in Buffers, NEW n \in Lengths, Push(b, n), phase = "up",
         UNCHANGED <<chunk, phase, rounds, checked>>,
         main' = main \/ main' \in {"work", "peek"}
  PROVE  CounterInv'
<1>1. TypeOK /\ RingInv
  BY DEF CounterInv
<1>2. /\ n \in Nat /\ Unread(b)' = Unread(b) + n /\ \A x \in Buffers \ {b} : Unread(x)' = Unread(x)
      /\ write' \in [Buffers -> Counters] /\ logged' = write' /\ read' = read /\ RingInv'
  BY <1>1, PushCounters
<1>3. mem' \in Memories
  BY <1>1, StoredTyped DEF Push
<1>4. TypeOK'
  BY <1>1, <1>2, <1>3 DEF TypeOK, Memories, Counters
<1>5. ChunkInv'
  <2>1. \A x \in Buffers : Unread(x) \in Nat /\ Unread(x)' \in Nat /\ Unread(x) <= Unread(x)'
    BY <1>1, <1>2, RingFacts
  <2>2. chunk.n \in Nat
    BY <1>1, Sizes DEF TypeOK
  <2> QED
    BY <1>2, <2>1, <2>2 DEF CounterInv, ChunkInv
<1>6. RoundsInv' /\ StraightInv'
  BY PushStraight DEF RoundsInv
<1> QED
  BY <1>2, <1>4, <1>5, <1>6 DEF CounterInv

LEMMA FlushKeeps ==
  ASSUME CounterInv, Flush, mem' \in Memories
  PROVE  CounterInv'
<1>1. TypeOK /\ RingInv
  BY DEF CounterInv
<1>2. TypeOK' /\ RingInv'
  BY <1>1 DEF Flush, TypeOK, ROUNDS, RingInv, Unread, Memories, Counters
<1>3. ChunkInv' /\ StraightInv'
  BY DEF Flush, ChunkInv, CounterInv, StraightInv
<1>4. RoundsInv'
  <2>1. L0 \in Buffers /\ L1 \in Buffers
    BY DEF Buffers
  <2>2. Slices(L0)' \in 0 .. 2 /\ Slices(L1)' \in 0 .. 2
    BY <1>1, <2>1, ContiguousFacts DEF Flush, Slices, Contiguous, Unread, Minimum
  <2> QED
    BY <2>2 DEF Flush, RoundsInv, ROUNDS
<1> QED
  BY <1>2, <1>3, <1>4 DEF CounterInv

LEMMA PanicKeeps ==
  ASSUME CounterInv, NEW b \in Buffers, NEW n \in Lengths, PushPanics(b, n)
  PROVE  CounterInv'
<1>1. mem' \in Memories
  BY StoredTyped DEF PushPanics, CounterInv, TypeOK, Memories, Counters
<1> QED
  BY <1>1, FlushKeeps DEF PushPanics

(* Steps of main that leave the counters alone. *)
LEMMA MainKeeps ==
  ASSUME CounterInv, TryFlush \/ Peek \/ \E k \in 0 .. Cap : Send(k)
  PROVE  CounterInv'
<1>1. TypeOK /\ RingInv /\ phase = "up"
      /\ UNCHANGED <<mem, read, write, logged, phase, rounds, checked>>
  BY DEF CounterInv, TryFlush, Peek, Send
<1>2. RingInv' /\ RoundsInv' /\ StraightInv'
  BY <1>1 DEF RingInv, Unread, RoundsInv, CounterInv, StraightInv
<1>3. CASE TryFlush
  BY <1>1, <1>2, <1>3 DEF TryFlush, CounterInv, TypeOK, ChunkInv
<1>4. CASE Peek
  <2>1. CASE Shown = None
    BY <1>1, <1>2, <1>4, <2>1 DEF Peek, CounterInv, TypeOK, ChunkInv
  <2>2. CASE Shown # None
    <3>1. PICK b \in Buffers : b = Shown
      BY <2>2 DEF Shown, Buffers
    <3>2. /\ main' = "send"
          /\ chunk' = [buf |-> b, from |-> read[b], n |-> Contiguous(b), taken |-> 0]
      BY <1>4, <2>2, <3>1 DEF Peek
    <3>3. /\ Contiguous(b) \in 0 .. Cap /\ Contiguous(b) <= Unread(b) /\ 0 \in 0 .. Cap
          /\ (read[b] % Cap) + Contiguous(b) <= Cap /\ 0 <= Contiguous(b)
      BY <1>1, RingFacts, ContiguousFacts, Sizes
    <3>4. read[b] \in 0 .. Wrap - 1
      BY <1>1 DEF TypeOK
    <3>5. TypeOK'
      BY <1>1, <3>2, <3>3, <3>4 DEF TypeOK
    <3>6. Unread(b)' = Unread(b)
      BY <1>1 DEF Unread
    <3>7. ChunkInv'
      BY <1>1, <3>2, <3>3, <3>6 DEF ChunkInv
    <3> QED
      BY <1>2, <3>5, <3>7 DEF CounterInv
  <2> QED
    BY <2>1, <2>2
<1>5. ASSUME NEW k \in 0 .. Cap, Send(k) PROVE CounterInv'
  <2>1. /\ main = "send" /\ main' = "store" /\ k <= chunk.n
        /\ chunk' = [chunk EXCEPT !.taken = k]
    BY <1>5 DEF Send
  <2>2. /\ chunk' = [buf |-> chunk.buf, from |-> chunk.from, n |-> chunk.n, taken |-> k]
        /\ chunk.buf \in Buffers \cup {None} /\ chunk.from \in 0 .. Wrap - 1 /\ chunk.n \in 0 .. Cap
    BY <1>1, <2>1 DEF TypeOK
  <2>3. TypeOK'
    BY <1>1, <2>1, <2>2 DEF TypeOK
  <2>4. /\ chunk'.buf = chunk.buf /\ chunk'.from = chunk.from /\ chunk'.n = chunk.n
        /\ chunk'.taken = k
    BY <2>2
  <2>5. ChunkInv'
    BY <1>1, <2>1, <2>4 DEF CounterInv, ChunkInv, Unread
  <2> QED
    BY <1>2, <2>3, <2>5 DEF CounterInv
<1> QED
  BY <1>3, <1>4, <1>5

LEMMA AdvanceKeeps ==
  ASSUME CounterInv, Advance
  PROVE  CounterInv'
<1>1. /\ TypeOK /\ RingInv /\ phase = "up" /\ main = "store" /\ main' = "work" /\ chunk' = NoChunk
      /\ UNCHANGED <<mem, write, logged, phase, rounds, checked>>
  BY DEF CounterInv, Advance
<1>2. PICK b \in Buffers : b = chunk.buf
  BY <1>1 DEF CounterInv, ChunkInv
<1>3. PICK k \in 0 .. Unread(b) : k = chunk.taken
  <2>1. chunk.taken \in Nat /\ chunk.n \in Nat
    BY <1>1, Sizes DEF TypeOK
  <2> QED
    BY <1>1, <1>2, <2>1, RingFacts DEF CounterInv, ChunkInv
<1>4. read' = [read EXCEPT ![b] = (read[b] + k) % Wrap]
  BY <1>1, <1>2, <1>3 DEF Advance, CounterInv, ChunkInv
<1>5. read' \in [Buffers -> Counters] /\ RingInv'
  BY <1>1, <1>4, TakeCounters
<1>6. NoChunk \in [buf : Buffers \cup {None}, from : 0 .. Wrap - 1, n : 0 .. Cap, taken : 0 .. Cap]
  BY Sizes DEF NoChunk
<1>7. TypeOK'
  BY <1>1, <1>5, <1>6 DEF TypeOK, Counters
<1>8. ChunkInv' /\ RoundsInv' /\ StraightInv'
  BY <1>1, <1>4, TakeStraight DEF ChunkInv, RoundsInv
<1> QED
  BY <1>5, <1>7, <1>8 DEF CounterInv

(* One round takes one slice, and leaves at most one in a ring that had    *)
(* two.                                                                    *)
LEMMA OneSliceLess ==
  ASSUME TypeOK, RingInv, NEW b \in Buffers, Contiguous(b) # 0,
         read' = [read EXCEPT ![b] = (read[b] + Contiguous(b)) % Wrap],
         write' = write, logged' = logged
  PROVE  Slices(b)' = Slices(b) - 1
<1>1. /\ Contiguous(b) \in 0 .. Unread(b) /\ Unread(b) \in 0 .. Cap /\ read[b] \in Nat
      /\ Cap \in Nat /\ Cap > 0 /\ read[b] % Cap \in 0 .. Cap - 1 /\ Unread(b) # 0
  BY RingFacts, ContiguousFacts, Sizes
<1>2. Unread(b)' = Unread(b) - Contiguous(b) /\ read'[b] = (read[b] + Contiguous(b)) % Wrap
  BY <1>1, TakeCounters
<1>3. CASE Contiguous(b) = Unread(b)
  BY <1>1, <1>2, <1>3 DEF Slices
<1>4. CASE Contiguous(b) # Unread(b)
  <2>1. Contiguous(b) = Cap - (read[b] % Cap)
    BY <1>4, ContiguousFacts
  <2>2. read[b] % Cap # 0
    BY <1>1, <1>4, <2>1
  <2>3. PICK c \in 0 .. Cap - 1 : c = Contiguous(b)
    BY <1>1, <2>1, <2>2
  <2>4. (read[b] + c) % Cap = 0
    BY <1>1, <2>1, <2>3, PlaceOf
  <2>5. read'[b] % Cap = 0
    <3>1. ((read[b] + c) % Wrap) % Cap = (read[b] + c) % Cap
      BY <1>1, <2>3, RemainderRemainder
    <3> QED
      BY <1>2, <2>3, <2>4, <3>1
  <2>6. PICK u \in 0 .. Cap : u = Unread(b)' /\ u # 0
    BY <1>1, <1>2, <1>4
  <2>7. Contiguous(b)' = Unread(b)'
    BY <1>1, <2>5, <2>6 DEF Contiguous, Minimum
  <2> QED
    BY <1>1, <1>4, <2>6, <2>7 DEF Slices
<1> QED
  BY <1>3, <1>4

LEMMA RoundKeeps ==
  ASSUME CounterInv, Round
  PROVE  CounterInv'
<1>1. /\ TypeOK /\ RingInv /\ phase = "flush" /\ phase' = "flush" /\ rounds < ROUNDS
      /\ rounds' = rounds + 1 /\ rounds \in 0 .. ROUNDS
      /\ UNCHANGED <<mem, write, logged, main, chunk, checked>>
  BY DEF CounterInv, Round, TypeOK
<1>2. rounds' \in 0 .. ROUNDS
  BY <1>1 DEF ROUNDS
<1>3. rounds + Slices(L0) + Slices(L1) <= ROUNDS
  BY <1>1 DEF CounterInv, RoundsInv
<1>4. /\ Buffers = {L0, L1} /\ L0 # L1 /\ None \notin Buffers
  BY DEF Buffers, L0, L1, None
<1>5. \A b \in Buffers : Slices(b) \in 0 .. 2 /\ (Slices(b) = 0 <=> Contiguous(b) = 0)
  BY <1>1, ContiguousFacts
<1>6. ChunkInv'
  BY <1>1 DEF ChunkInv
<1>7. CASE Shown = None
  <2>1. read' = read
    BY <1>1, <1>4, <1>7 DEF Round, TypeOK
  <2>2. Contiguous(L0) = 0 /\ Contiguous(L1) = 0
    BY <1>4, <1>7 DEF Shown
  <2>3. Slices(L0)' = 0 /\ Slices(L1)' = 0
    <3>1. Slices(L0)' = Slices(L0) /\ Slices(L1)' = Slices(L1)
      BY <1>1, <2>1 DEF Slices, Contiguous, Unread, Minimum
    <3> QED
      BY <1>4, <1>5, <2>2, <3>1
  <2>4. TypeOK' /\ RingInv' /\ StraightInv'
    BY <1>1, <1>2, <2>1 DEF TypeOK, RingInv, Unread, CounterInv, StraightInv
  <2>5. RoundsInv'
    BY <1>1, <1>2, <2>3 DEF RoundsInv
  <2> QED
    BY <1>6, <2>4, <2>5 DEF CounterInv
<1>8. CASE Shown # None
  <2>1. PICK b \in Buffers : b = Shown /\ Contiguous(b) # 0
    BY <1>8 DEF Shown, Buffers
  <2>2. read' = [read EXCEPT ![b] = (read[b] + Contiguous(b)) % Wrap]
    BY <1>1, <2>1 DEF Round, TypeOK
  <2>3. /\ read' \in [Buffers -> Counters] /\ RingInv'
        /\ \A x \in Buffers \ {b} : Unread(x)' = Unread(x)
    BY <1>1, <2>2, ContiguousFacts, TakeCounters
  <2>4. Slices(b)' = Slices(b) - 1
    BY <1>1, <2>1, <2>2, OneSliceLess
  <2>5. \A x \in Buffers \ {b} : Slices(x)' = Slices(x)
    BY <1>1, <2>2, <2>3 DEF Slices, Contiguous, Minimum, TypeOK
  <2>6. TypeOK' /\ StraightInv'
    BY <1>1, <1>2, <2>2, <2>3, ContiguousFacts, TakeStraight DEF TypeOK, Counters
  <2>7. Slices(L0)' + Slices(L1)' = Slices(L0) + Slices(L1) - 1
    <3>1. CASE b = L0
      BY <1>4, <1>5, <2>4, <2>5, <3>1
    <3>2. CASE b = L1
      BY <1>4, <1>5, <2>4, <2>5, <3>2
    <3> QED
      BY <1>4, <3>1, <3>2
  <2>8. RoundsInv'
    <3>1. /\ Slices(L0) \in 0 .. 2 /\ Slices(L1) \in 0 .. 2
          /\ Slices(L0)' \in Int /\ Slices(L1)' \in Int
      BY <1>4, <1>5, <2>4, <2>5
    <3>2. rounds' + Slices(L0)' + Slices(L1)' <= ROUNDS
      BY <1>1, <1>3, <2>7, <3>1 DEF ROUNDS
    <3> QED
      BY <1>1, <3>2 DEF RoundsInv
  <2> QED
    BY <1>6, <2>3, <2>6, <2>8 DEF CounterInv
<1> QED
  BY <1>7, <1>8

LEMMA ResetKeeps ==
  ASSUME CounterInv, Reset \/ ResetAtOnce
  PROVE  CounterInv'
<1>1. /\ TypeOK /\ RingInv /\ StraightInv /\ phase' = "reset"
      /\ UNCHANGED <<mem, read, write, logged, main, chunk, rounds, checked>>
  BY DEF CounterInv, Reset, ResetAtOnce
<1>2. TypeOK' /\ RingInv' /\ ChunkInv' /\ RoundsInv' /\ StraightInv'
  BY <1>1 DEF TypeOK, RingInv, Unread, ChunkInv, RoundsInv, StraightInv
<1> QED
  BY <1>2 DEF CounterInv

(* Counters at zero. *)
LEMMA ZeroKeeps ==
  /\ 0 \in Counters /\ Sub(0, 0) = 0
  /\ NoChunk \in [buf : Buffers \cup {None}, from : 0 .. Wrap - 1, n : 0 .. Cap, taken : 0 .. Cap]
<1>1. Wrap \in Nat /\ Wrap > 0 /\ 0 \in 0 .. Cap
  BY Sizes
<1>2. (0 + Wrap - 0) % Wrap = 0
  BY <1>1, Remainder
<1> QED
  BY <1>1, <1>2 DEF Counters, Sub, NoChunk

LEMMA BootKeeps ==
  ASSUME CounterInv, Boot
  PROVE  CounterInv'
<1>1. /\ mem' = mem /\ read' = [b \in Buffers |-> 0] /\ write' = [b \in Buffers |-> 0]
      /\ logged' = [b \in Buffers |-> 0] /\ main' = "work" /\ chunk' = NoChunk /\ phase' = "up"
      /\ rounds' = 0 /\ checked' = checked
  BY DEF Boot, Fresh
<1>2. TypeOK'
  BY <1>1, ZeroKeeps DEF CounterInv, TypeOK, Counters, ROUNDS
<1>3. RingInv'
  BY <1>1, ZeroKeeps, Sizes DEF RingInv, Unread
<1>4. ChunkInv' /\ RoundsInv' /\ StraightInv'
  BY <1>1 DEF ChunkInv, RoundsInv, StraightInv
<1> QED
  BY <1>2, <1>3, <1>4 DEF CounterInv

LEMMA CounterInit == Init => CounterInv
<1> SUFFICES ASSUME Init PROVE CounterInv
  OBVIOUS
<1>1. mem \in [Buffers -> [Positions -> 0 .. Wrap - 1]]
  BY ZeroKeeps DEF Init, Counters
<1>2. TypeOK
  BY <1>1, ZeroKeeps DEF Init, TypeOK, Counters, ROUNDS
<1>3. RingInv
  BY ZeroKeeps, Sizes DEF Init, RingInv, Unread
<1>4. ChunkInv /\ RoundsInv /\ StraightInv
  BY DEF Init, ChunkInv, RoundsInv, StraightInv
<1> QED
  BY <1>2, <1>3, <1>4 DEF CounterInv

LEMMA CounterStep ==
  ASSUME CounterInv, [Next]_vars
  PROVE  CounterInv'
<1>1. L0 \in Buffers /\ L1 \in Buffers
  BY DEF Buffers
<1>2. ASSUME NEW n \in Lengths, MainLog(n) PROVE CounterInv'
  BY <1>1, <1>2, PushKeeps, PanicKeeps DEF MainLog
<1>3. ASSUME NEW n \in Lengths, IsrLog(n) PROVE CounterInv'
  BY <1>1, <1>3, PushKeeps, PanicKeeps DEF IsrLog
<1>4. CASE FlushAndReset
  BY <1>4, FlushKeeps DEF FlushAndReset, CounterInv, TypeOK, Memories, Counters
<1>5. CASE UNCHANGED vars
  BY <1>5 DEF vars, CounterInv, TypeOK, RingInv, ChunkInv, RoundsInv, StraightInv, Slices,
              Contiguous, Unread, Minimum
<1> QED
  BY <1>2, <1>3, <1>4, <1>5, MainKeeps, AdvanceKeeps, RoundKeeps, ResetKeeps, BootKeeps
     DEF Next, MainStep

(* The counters never lead out of the rings: the unread bytes fit, the     *)
(* slice shown to the serial port lies within the buffer and is unread,    *)
(* four rounds empty both rings before a flush ends in the reset, and in a *)
(* build that panics on overflow the read counter never overflows.         *)
THEOREM CountersKept == Spec => []CounterInv
BY CounterInit, CounterStep, PTL DEF Spec

-----------------------------------------------------------------------------
(* The contents of the rings, where messages are split right.              *)

(* The unread bytes are in place: the byte numbered p holds p.             *)
ContentInv ==
  \A b \in Buffers : \A k \in 0 .. Unread(b) - 1 :
    mem[b][(read[b] + k) % Cap] = (read[b] + k) % Wrap

LEMMA Shift ==
  ASSUME NEW a \in Nat, NEW k \in Nat
  PROVE  /\ ((a % Wrap) + k) % Cap = (a + k) % Cap
         /\ ((a % Wrap) + k) % Wrap = (a + k) % Wrap
<1>1. Wrap \in Nat /\ Wrap > 0 /\ Cap \in Nat /\ Cap > 0
  BY Sizes
<1>2. PICK r \in Nat : r = a % Wrap
  BY <1>1, Remainder
<1>3. ((r % Cap) + k) % Cap = (r + k) % Cap /\ ((a % Cap) + k) % Cap = (a + k) % Cap
  BY <1>1, RemainderPlus
<1>4. r % Cap = a % Cap
  BY <1>2, RemainderRemainder
<1>5. ((a % Wrap) + k) % Wrap = (a + k) % Wrap
  BY <1>1, RemainderPlus
<1> QED
  BY <1>2, <1>3, <1>4, <1>5

(* What Copy does within the ring, and that it does not leave it. *)
LEMMA CopyFacts ==
  ASSUME NEW m \in Memories, NEW b \in Buffers, NEW to \in Nat, NEW first \in Nat, NEW n \in Nat,
         to + n <= Cap
  PROVE  /\ \A i \in Positions : Copy(m, b, to, first, n)[b][i] =
              IF to <= i /\ i < to + n THEN (first + (i - to)) % Wrap ELSE m[b][i]
         /\ \A x \in Buffers \ {b} : Copy(m, b, to, first, n)[x] = m[x]
<1>1. \A i \in Positions : i \in Nat /\ i < Cap /\ Cap \in Nat
  BY Sizes DEF Positions
<1>2. \A i \in Positions : Cap + i \notin to .. to + n - 1
  BY <1>1
<1>3. \A i \in Positions : i \in to .. to + n - 1 <=> to <= i /\ i < to + n
  BY <1>1
<1>4. \A i \in Positions : to <= i => first + i - to = first + (i - to)
  BY <1>1
<1>5. ASSUME NEW x \in Buffers, NEW i \in Positions
      PROVE  Copy(m, b, to, first, n)[x][i] =
               IF x = b /\ to <= i /\ i < to + n THEN (first + (i - to)) % Wrap ELSE m[x][i]
  BY <1>2, <1>3, <1>4 DEF Copy
<1>6. ASSUME NEW x \in Buffers \ {b} PROVE Copy(m, b, to, first, n)[x] = m[x]
  <2>1. Copy(m, b, to, first, n)[x] = [i \in Positions |-> Copy(m, b, to, first, n)[x][i]]
    BY DEF Copy
  <2>2. m[x] = [i \in Positions |-> m[x][i]]
    BY DEF Memories
  <2>3. \A i \in Positions : Copy(m, b, to, first, n)[x][i] = m[x][i]
    BY <1>5
  <2> QED
    BY <2>1, <2>2, <2>3
<1> QED
  BY <1>5, <1>6

(* What the copying of a push does to the contents: byte j of the message  *)
(* at its place, and nothing else.                                         *)
LEMMA PushContents ==
  ASSUME GoodSplits, TypeOK, RingInv, NEW b \in Buffers, NEW n \in Lengths,
         Fits(b, n), mem' = Stored(b, n)
  PROVE  /\ \A j \in 0 .. n - 1 : mem'[b][(write[b] + j) % Cap] = (write[b] + j) % Wrap
         /\ \A i \in Positions :
              (\A j \in 0 .. n - 1 : i # (write[b] + j) % Cap) => mem'[b][i] = mem[b][i]
         /\ \A x \in Buffers \ {b} : mem'[x] = mem[x]
<1>1. /\ write[b] \in Nat /\ logged[b] = write[b] /\ mem \in Memories
      /\ n \in Nat /\ n > 0 /\ n <= Cap /\ Cap \in Nat /\ Cap > 0 /\ 0 \in Nat
  BY RingFacts, FitsFacts, Sizes DEF TypeOK, Memories, Counters
<1>2. PICK w \in Nat : w = write[b]
  BY <1>1
<1>3. PICK cursor \in Positions : cursor = w % Cap
  BY <1>1, Remainder DEF Positions
<1>4. cursor \in Nat /\ cursor < Cap
  BY <1>1, <1>3 DEF Positions
<1>5. \A j \in 0 .. n - 1 : /\ (w + j) % Cap \in Positions
                            /\ (w + j) % Cap = IF cursor + j < Cap THEN cursor + j ELSE cursor + j - Cap
  <2>1. \A j \in 0 .. n - 1 : j \in 0 .. Cap - 1
    BY <1>1
  <2> QED
    BY <1>3, <2>1, PlaceOf
<1>6. \A i \in Positions : i \in Nat /\ i < Cap
  BY <1>1 DEF Positions
<1>7. CASE cursor + n > Cap
  <2>1. PICK pivot \in Nat : pivot = Cap - cursor /\ pivot > 0 /\ pivot < n
    BY <1>1, <1>4, <1>7
  <2>2. Pivot(cursor, n) = pivot
    BY <1>1, <1>7, <2>1 DEF GoodSplits
  <2>3. PICK half : half = Copy(mem, b, cursor, w, pivot)
    OBVIOUS
  <2>4. PICK rest \in Nat : rest = n - pivot /\ rest <= cursor
    BY <1>1, <1>4, <2>1
  <2>5. mem' = Copy(half, b, 0, w + pivot, rest)
    BY <1>1, <1>2, <1>3, <1>7, <2>2, <2>3, <2>4 DEF Stored
  <2>6. half \in Memories
    BY <1>1, <1>4, <2>1, <2>3, CopyTyped
  <2>7. /\ \A i \in Positions : half[b][i] =
             IF cursor <= i /\ i < cursor + pivot THEN (w + (i - cursor)) % Wrap ELSE mem[b][i]
        /\ \A x \in Buffers \ {b} : half[x] = mem[x]
    <3>1. cursor + pivot <= Cap
      BY <1>1, <1>4, <2>1
    <3> QED
      BY <1>1, <1>4, <2>1, <2>3, <3>1, CopyFacts
  <2>8. /\ \A i \in Positions : mem'[b][i] =
             IF 0 <= i /\ i < 0 + rest THEN ((w + pivot) + (i - 0)) % Wrap ELSE half[b][i]
        /\ \A x \in Buffers \ {b} : mem'[x] = half[x]
    <3>1. PICK first \in Nat : first = w + pivot
      OBVIOUS
    <3>2. PICK to \in Nat : to = 0
      BY <1>1
    <3>3. to + rest <= Cap
      BY <1>1, <1>4, <2>4, <3>2
    <3>4. mem' = Copy(half, b, to, first, rest)
      BY <2>5, <3>1, <3>2
    <3>5. /\ \A i \in Positions : mem'[b][i] =
               IF to <= i /\ i < to + rest THEN (first + (i - to)) % Wrap ELSE half[b][i]
          /\ \A x \in Buffers \ {b} : mem'[x] = half[x]
      BY <2>6, <3>3, <3>4, CopyFacts
    <3> QED
      BY <3>1, <3>2, <3>5
  <2>9. ASSUME NEW j \in 0 .. n - 1 PROVE mem'[b][(w + j) % Cap] = (w + j) % Wrap
    <3>1. CASE cursor + j < Cap
      <4>1. (w + j) % Cap = cursor + j /\ cursor + j \in Positions
        BY <1>5, <3>1
      <4>2. ~ (0 <= cursor + j /\ cursor + j < 0 + rest)
        BY <1>4, <2>4
      <4>3. cursor <= cursor + j /\ cursor + j < cursor + pivot /\ (cursor + j) - cursor = j
        BY <1>1, <1>4, <2>1, <3>1
      <4>4. mem'[b][cursor + j] = (w + ((cursor + j) - cursor)) % Wrap
        BY <2>7, <2>8, <4>1, <4>2, <4>3
      <4> QED
        BY <4>1, <4>3, <4>4
    <3>2. CASE ~ (cursor + j < Cap)
      <4>1. PICK i \in Positions : i = cursor + j - Cap /\ (w + j) % Cap = i
        BY <1>5, <3>2
      <4>2. 0 <= i /\ i < 0 + rest /\ (w + pivot) + (i - 0) = w + j
        BY <1>1, <1>4, <2>1, <2>4, <3>2, <4>1
      <4>3. mem'[b][i] = ((w + pivot) + (i - 0)) % Wrap
        BY <2>8, <4>2
      <4> QED
        BY <4>1, <4>2, <4>3
    <3> QED
      BY <3>1, <3>2
  <2>10. ASSUME NEW i \in Positions, \A j \in 0 .. n - 1 : i # (w + j) % Cap
         PROVE  mem'[b][i] = mem[b][i]
    <3>1. ~ (i < 0 + rest)
      <4>1. SUFFICES ASSUME i < rest PROVE FALSE
        BY <2>4
      <4>2. PICK j \in 0 .. n - 1 : j = pivot + i
        BY <1>1, <1>6, <2>1, <2>4, <4>1
      <4>3. (w + j) % Cap = i
        <5>1. ~ (cursor + j < Cap) /\ cursor + j - Cap = i
          BY <1>1, <1>4, <1>6, <2>1, <4>2
        <5> QED
          BY <1>5, <5>1
      <4> QED
        BY <2>10, <4>3
    <3>2. ~ (cursor <= i /\ i < cursor + pivot)
      <4>1. SUFFICES ASSUME cursor <= i PROVE FALSE
        OBVIOUS
      <4>2. PICK j \in 0 .. n - 1 : j = i - cursor
        BY <1>1, <1>4, <1>6, <2>1, <4>1
      <4>3. (w + j) % Cap = i
        BY <1>4, <1>5, <1>6, <4>2
      <4> QED
        BY <2>10, <4>3
    <3> QED
      BY <2>7, <2>8, <3>1, <3>2
  <2> QED
    BY <1>2, <2>7, <2>8, <2>9, <2>10
<1>8. CASE ~ (cursor + n > Cap)
  <2>1. cursor + n <= Cap
    BY <1>1, <1>4, <1>8
  <2>2. mem' = Copy(mem, b, cursor, w, n)
    BY <1>1, <1>2, <1>3, <1>8 DEF Stored
  <2>3. /\ \A i \in Positions : mem'[b][i] =
             IF cursor <= i /\ i < cursor + n THEN (w + (i - cursor)) % Wrap ELSE mem[b][i]
        /\ \A x \in Buffers \ {b} : mem'[x] = mem[x]
    BY <1>1, <1>4, <2>1, <2>2, CopyFacts
  <2>4. ASSUME NEW j \in 0 .. n - 1 PROVE mem'[b][(w + j) % Cap] = (w + j) % Wrap
    <3>1. (w + j) % Cap = cursor + j /\ cursor + j \in Positions
      BY <1>1, <1>4, <1>5, <2>1
    <3>2. cursor <= cursor + j /\ cursor + j < cursor + n /\ (cursor + j) - cursor = j
      BY <1>1, <1>4
    <3>3. mem'[b][cursor + j] = (w + ((cursor + j) - cursor)) % Wrap
      BY <2>3, <3>1, <3>2
    <3> QED
      BY <3>1, <3>2, <3>3
  <2>5. ASSUME NEW i \in Positions, \A j \in 0 .. n - 1 : i # (w + j) % Cap
        PROVE  mem'[b][i] = mem[b][i]
    <3>1. ~ (cursor <= i /\ i < cursor + n)
      <4>1. SUFFICES ASSUME cursor <= i, i < cursor + n PROVE FALSE
        OBVIOUS
      <4>2. PICK j \in 0 .. n - 1 : j = i - cursor
        BY <1>1, <1>4, <1>6, <4>1
      <4>3. (w + j) % Cap = i
        BY <1>4, <1>5, <1>6, <4>2
      <4> QED
        BY <2>5, <4>3
    <3> QED
      BY <2>3, <3>1
  <2> QED
    BY <1>2, <2>3, <2>4, <2>5
<1> QED
  BY <1>7, <1>8

LEMMA PushContentInv ==
  ASSUME GoodSplits, TypeOK, RingInv, ContentInv, NEW b \in Buffers, NEW n \in Lengths, Push(b, n)
  PROVE  ContentInv'
<1>1. /\ read' = read /\ Unread(b)' = Unread(b) + n /\ n \in Nat /\ Unread(b) + n <= Cap
      /\ \A x \in Buffers \ {b} : Unread(x)' = Unread(x) /\ mem'[x] = mem[x]
  BY PushCounters, PushContents DEF Push
<1>2. PICK r \in Nat : r = read[b]
  BY RingFacts
<1>3. PICK u \in Nat : u = Unread(b) /\ u <= Cap
  BY RingFacts, Sizes
<1>4. write[b] = (r + u) % Wrap
  BY <1>2, <1>3, RingFacts
<1>5. \A j \in 0 .. n - 1 : /\ (write[b] + j) % Cap = (r + (u + j)) % Cap
                            /\ (write[b] + j) % Wrap = (r + (u + j)) % Wrap
  <2>1. SUFFICES ASSUME NEW j \in 0 .. n - 1
                 PROVE  /\ (write[b] + j) % Cap = (r + (u + j)) % Cap
                        /\ (write[b] + j) % Wrap = (r + (u + j)) % Wrap
    OBVIOUS
  <2>2. PICK a \in Nat : a = r + u
    OBVIOUS
  <2>3. j \in Nat /\ r + (u + j) = a + j
    BY <1>1, <2>2
  <2>4. ((a % Wrap) + j) % Cap = (a + j) % Cap /\ ((a % Wrap) + j) % Wrap = (a + j) % Wrap
    BY <2>3, Shift
  <2> QED
    BY <1>4, <2>2, <2>3, <2>4
<1>6. ASSUME NEW k \in 0 .. (u + n) - 1 PROVE mem'[b][(r + k) % Cap] = (r + k) % Wrap
  <2>1. k \in Nat /\ k < u + n /\ u + n <= Cap /\ Cap \in Nat /\ Cap > 0
    BY <1>1, <1>3, Sizes
  <2>2. CASE k < u
    <3>1. mem[b][(r + k) % Cap] = (r + k) % Wrap
      BY <1>2, <1>3, <2>1, <2>2 DEF ContentInv
    <3>2. \A j \in 0 .. n - 1 : (r + k) % Cap # (write[b] + j) % Cap
      <4>1. SUFFICES ASSUME NEW j \in 0 .. n - 1 PROVE (r + k) % Cap # (write[b] + j) % Cap
        OBVIOUS
      <4>2. PICK l \in Nat : l = u + j /\ k < l /\ l - k < Cap
        BY <1>1, <1>3, <2>1, <2>2
      <4>3. (r + k) % Cap # (r + l) % Cap
        BY <2>1, <4>2, PlacesDiffer
      <4> QED
        BY <1>5, <4>2, <4>3
    <3>3. (r + k) % Cap \in Positions
      <4>1. k \in 0 .. Cap - 1
        BY <1>3, <2>1, <2>2
      <4> QED
        BY <4>1, PlaceOf
    <3>4. mem'[b][(r + k) % Cap] = mem[b][(r + k) % Cap]
      BY <3>2, <3>3, PushContents DEF Push
    <3> QED
      BY <3>1, <3>4
  <2>3. CASE u <= k
    <3>1. PICK j \in 0 .. n - 1 : j = k - u /\ u + j = k
      BY <1>1, <2>1, <2>3
    <3>2. mem'[b][(write[b] + j) % Cap] = (write[b] + j) % Wrap
      BY PushContents DEF Push
    <3> QED
      BY <1>5, <3>1, <3>2
  <2> QED
    BY <2>1, <2>2, <2>3
<1>7. ASSUME NEW x \in Buffers, NEW k \in 0 .. Unread(x)' - 1
      PROVE  mem'[x][(read'[x] + k) % Cap] = (read'[x] + k) % Wrap
  <2>1. CASE x = b
    BY <1>1, <1>2, <1>3, <1>6, <1>7, <2>1
  <2>2. CASE x # b
    BY <1>1, <1>7, <2>2 DEF ContentInv
  <2> QED
    BY <2>1, <2>2
<1> QED
  BY <1>7 DEF ContentInv

(* A push that panics after it has copied its message has only written     *)
(* where nothing is unread.                                                *)
LEMMA CopyContentInv ==
  ASSUME GoodSplits, TypeOK, RingInv, ContentInv, NEW b \in Buffers, NEW n \in Lengths,
         Fits(b, n), mem' = Stored(b, n), read' = read, write' = write
  PROVE  ContentInv'
<1>1. /\ n \in Nat /\ n <= Cap - Unread(b) /\ Unread(b) \in 0 .. Cap /\ read[b] \in Nat
      /\ write[b] = (read[b] + Unread(b)) % Wrap /\ Cap \in Nat /\ Cap > 0
  BY FitsFacts, RingFacts, Sizes
<1>2. PICK r \in Nat : r = read[b]
  BY <1>1
<1>3. PICK u \in 0 .. Cap : u = Unread(b)
  BY <1>1
<1>4. ASSUME NEW k \in 0 .. u - 1 PROVE mem'[b][(r + k) % Cap] = (r + k) % Wrap
  <2>1. mem[b][(r + k) % Cap] = (r + k) % Wrap
    BY <1>2, <1>3 DEF ContentInv
  <2>2. \A j \in 0 .. n - 1 : (r + k) % Cap # (write[b] + j) % Cap
    <3>1. SUFFICES ASSUME NEW j \in 0 .. n - 1 PROVE (r + k) % Cap # (write[b] + j) % Cap
      OBVIOUS
    <3>2. PICK l \in Nat : l = u + j /\ k < l /\ l - k < Cap
      BY <1>1, <1>3
    <3>3. (r + k) % Cap # (r + l) % Cap
      <4>1. k \in Nat
        BY <1>1, <1>3
      <4> QED
        BY <3>2, <4>1, PlacesDiffer
    <3>4. PICK a \in Nat : a = r + u
      BY <1>1, <1>3
    <3>5. ((a % Wrap) + j) % Cap = (a + j) % Cap
      BY <1>1, Shift
    <3>6. (write[b] + j) % Cap = (r + l) % Cap
      <4>1. a + j = r + l
        BY <1>1, <1>3, <3>2, <3>4
      <4>2. write[b] = a % Wrap
        BY <1>1, <1>2, <1>3, <3>4
      <4> QED
        BY <3>5, <4>1, <4>2
    <3> QED
      BY <3>3, <3>6
  <2>3. (r + k) % Cap \in Positions
    <3>1. k \in 0 .. Cap - 1
      BY <1>1, <1>3
    <3> QED
      BY <3>1, PlaceOf
  <2>4. mem'[b][(r + k) % Cap] = mem[b][(r + k) % Cap]
    BY <2>2, <2>3, PushContents
  <2> QED
    BY <2>1, <2>4
<1>5. ASSUME NEW x \in Buffers, NEW k \in 0 .. Unread(x)' - 1
      PROVE  mem'[x][(read'[x] + k) % Cap] = (read'[x] + k) % Wrap
  <2>1. Unread(x)' = Unread(x)
    BY DEF Unread
  <2>2. CASE x = b
    BY <1>2, <1>3, <1>4, <1>5, <2>1, <2>2
  <2>3. CASE x # b
    <3>1. mem'[x] = mem[x]
      BY <2>3, PushContents
    <3> QED
      BY <1>5, <2>1, <3>1 DEF ContentInv
  <2> QED
    BY <2>2, <2>3
<1> QED
  BY <1>5 DEF ContentInv

LEMMA TakeContentInv ==
  ASSUME TypeOK, RingInv, ContentInv, NEW b \in Buffers, NEW t \in 0 .. Unread(b),
         read' = [read EXCEPT ![b] = (read[b] + t) % Wrap],
         write' = write, logged' = logged, mem' = mem
  PROVE  ContentInv'
<1>1. /\ Unread(b)' = Unread(b) - t /\ read'[b] = (read[b] + t) % Wrap
      /\ \A x \in Buffers \ {b} : Unread(x)' = Unread(x) /\ read'[x] = read[x]
  BY TakeCounters DEF TypeOK
<1>2. read[b] \in Nat /\ Unread(b) \in Nat /\ t \in Nat
  BY RingFacts
<1>3. ASSUME NEW x \in Buffers, NEW k \in 0 .. Unread(x)' - 1
      PROVE  mem'[x][(read'[x] + k) % Cap] = (read'[x] + k) % Wrap
  <2>1. CASE x = b
    <3>1. k \in Nat /\ k < Unread(b) - t
      BY <1>1, <1>2, <1>3, <2>1
    <3>2. PICK a \in Nat : a = read[b] + t
      BY <1>2
    <3>3. ((a % Wrap) + k) % Cap = (a + k) % Cap /\ ((a % Wrap) + k) % Wrap = (a + k) % Wrap
      BY <3>1, Shift
    <3>4. PICK j \in 0 .. Unread(b) - 1 : j = t + k
      BY <1>2, <3>1
    <3>5. mem[b][(read[b] + j) % Cap] = (read[b] + j) % Wrap
      BY DEF ContentInv
    <3>6. read[b] + j = a + k
      BY <1>2, <3>1, <3>2, <3>4
    <3> QED
      BY <1>1, <2>1, <3>2, <3>3, <3>5, <3>6
  <2>2. CASE x # b
    BY <1>1, <1>3, <2>2 DEF ContentInv
  <2> QED
    BY <2>1, <2>2
<1> QED
  BY <1>3 DEF ContentInv

(* The steps that do not log leave the counters, or take bytes off a ring. *)
LEMMA TakesOff ==
  ASSUME CounterInv, Advance \/ Round
  PROVE  /\ UNCHANGED <<mem, write, logged>>
         /\ \/ read' = read
            \/ \E b \in Buffers : \E t \in 0 .. Unread(b) :
                 read' = [read EXCEPT ![b] = (read[b] + t) % Wrap]
<1>1. TypeOK /\ RingInv
  BY DEF CounterInv
<1>2. CASE Advance
  <2>1. phase = "up" /\ main = "store"
    BY <1>2 DEF Advance
  <2>2. PICK b \in Buffers : b = chunk.buf /\ chunk.from = read[b]
    BY <2>1 DEF CounterInv, ChunkInv
  <2>3. PICK t \in 0 .. Unread(b) : t = chunk.taken
    <3>1. chunk.taken \in Nat /\ chunk.n \in Nat
      BY <1>1, Sizes DEF TypeOK
    <3> QED
      BY <1>1, <2>1, <2>2, <3>1, RingFacts DEF CounterInv, ChunkInv
  <2> QED
    BY <1>2, <2>2, <2>3 DEF Advance
<1>3. CASE Round
  <2>1. CASE Shown = None
    <3>1. None \notin Buffers
      BY DEF Buffers, None, L0, L1
    <3> QED
      BY <1>1, <1>3, <2>1, <3>1 DEF Round, TypeOK
  <2>2. CASE Shown # None
    <3>1. PICK b \in Buffers : b = Shown
      BY <2>2 DEF Shown, Buffers
    <3>2. read' = [read EXCEPT ![b] = (read[b] + Contiguous(b)) % Wrap]
      BY <1>1, <1>3, <3>1 DEF Round, TypeOK
    <3>3. Contiguous(b) \in 0 .. Unread(b)
      BY <1>1, ContiguousFacts
    <3> QED
      BY <1>3, <3>2, <3>3 DEF Round
  <2> QED
    BY <2>1, <2>2
<1> QED
  BY <1>2, <1>3

LEMMA SameContent ==
  ASSUME ContentInv, UNCHANGED <<mem, read, write>>
  PROVE  ContentInv'
BY DEF ContentInv, Unread

LEMMA ContentStep ==
  ASSUME GoodSplits, CounterInv, ContentInv, [Next]_vars
  PROVE  ContentInv'
<1>1. TypeOK /\ RingInv /\ L0 \in Buffers /\ L1 \in Buffers
  BY DEF CounterInv, Buffers
<1>2. ASSUME NEW n \in Lengths, MainLog(n) \/ IsrLog(n) PROVE ContentInv'
  <2>1. ASSUME NEW b \in Buffers, PushPanics(b, n) PROVE ContentInv'
    BY <1>1, <2>1, CopyContentInv, SameContent DEF PushPanics, Flush
  <2> QED
    BY <1>1, <1>2, <2>1, PushContentInv DEF MainLog, IsrLog
<1>3. CASE Advance \/ Round
  BY <1>1, <1>3, TakesOff, TakeContentInv, SameContent
<1>4. CASE TryFlush \/ Peek \/ (\E k \in 0 .. Cap : Send(k)) \/ FlushAndReset \/ Reset
         \/ ResetAtOnce
  BY <1>4, SameContent DEF TryFlush, Peek, Send, FlushAndReset, Flush, Reset, ResetAtOnce
<1>5. CASE Boot
  <2>1. \A b \in Buffers : Unread(b)' = 0
    BY <1>5, ZeroKeeps DEF Boot, Fresh, Unread
  <2> QED
    BY <2>1 DEF ContentInv
<1>6. CASE UNCHANGED vars
  BY <1>6, SameContent DEF vars
<1> QED
  BY <1>2, <1>3, <1>4, <1>5, <1>6 DEF Next, MainStep

LEMMA ContentInit == Init => ContentInv
<1> SUFFICES ASSUME Init PROVE ContentInv
  OBVIOUS
<1>1. \A b \in Buffers : Unread(b) = 0
  BY ZeroKeeps DEF Init, Unread
<1> QED
  BY <1>1 DEF ContentInv

LEMMA ContentKept == GoodSplits => (Spec => [](CounterInv /\ ContentInv))
<1> SUFFICES ASSUME GoodSplits PROVE Spec => [](CounterInv /\ ContentInv)
  OBVIOUS
<1>1. CounterInv /\ ContentInv /\ [Next]_vars => (CounterInv /\ ContentInv)'
  BY CounterStep, ContentStep
<1> QED
  BY <1>1, CounterInit, ContentInit, PTL DEF Spec

(* The slice under transmission lies within the buffer and holds the       *)
(* oldest bytes not yet flushed, whatever handlers log between the peek    *)
(* and the end of the transmission, for any ring and any counters.         *)
THEOREM SlicesOldest == GoodSplits => (Spec => []SliceIsOldest)
<1> SUFFICES ASSUME GoodSplits PROVE Spec => []SliceIsOldest
  OBVIOUS
<1>1. ASSUME CounterInv, ContentInv PROVE SliceIsOldest
  <2>1. TypeOK /\ RingInv
    BY <1>1 DEF CounterInv
  <2>2. ASSUME phase = "up", main \in {"send", "store"}, NEW i \in 0 .. chunk.n - 1
        PROVE  mem[chunk.buf][(chunk.from % Cap) + i] = (chunk.from + i) % Wrap
    <3>1. PICK b \in Buffers : b = chunk.buf /\ chunk.from = read[b]
      BY <1>1, <2>2 DEF CounterInv, ChunkInv
    <3>2. /\ chunk.n \in Nat /\ chunk.n <= Unread(b) /\ (read[b] % Cap) + chunk.n <= Cap
          /\ Unread(b) \in 0 .. Cap /\ Cap \in Nat /\ read[b] \in Nat
          /\ read[b] % Cap \in 0 .. Cap - 1
      BY <1>1, <2>1, <2>2, <3>1, RingFacts, Sizes DEF CounterInv, ChunkInv, TypeOK
    <3>3. i \in 0 .. Unread(b) - 1 /\ i \in 0 .. Cap - 1 /\ (read[b] % Cap) + i < Cap
      BY <2>2, <3>2
    <3>4. (read[b] + i) % Cap = (read[b] % Cap) + i
      BY <3>2, <3>3, PlaceOf
    <3>5. mem[b][(read[b] + i) % Cap] = (read[b] + i) % Wrap
      BY <1>1, <3>3 DEF ContentInv
    <3> QED
      BY <3>1, <3>4, <3>5
  <2> QED
    BY <1>1, <2>1, <2>2 DEF SliceIsOldest, CounterInv, ChunkInv, StraightInv
<1>2. CounterInv /\ ContentInv => SliceIsOldest
  BY <1>1
<1> QED
  BY <1>2, ContentKept, PTL

-----------------------------------------------------------------------------
(* The rings implement the queues. *)

(* u bytes in order, the first of them numbered r. *)
Numbers(r, u) == [k \in 1 .. u |-> (r + k - 1) % Wrap]

LEMMA NumbersAreSeq ==
  ASSUME NEW r \in Nat, NEW u \in Nat
  PROVE  /\ Numbers(r, u) \in Seq(Nat) /\ Len(Numbers(r, u)) = u
         /\ \A k \in 1 .. u : Numbers(r, u)[k] = (r + k - 1) % Wrap
<1>1. ASSUME NEW k \in 1 .. u PROVE (r + k - 1) % Wrap \in Nat
  <2>1. PICK a \in Nat : a = r + k - 1
    BY <1>1
  <2>2. a % Wrap \in Nat
    BY Sizes, Remainder
  <2> QED
    BY <2>1, <2>2
<1>2. Numbers(r, u) \in Seq(Nat) /\ Len(Numbers(r, u)) = u
  BY <1>1, IsASeq DEF Numbers
<1> QED
  BY <1>2 DEF Numbers

LEMMA NumbersShifted ==
  ASSUME NEW r \in Nat, NEW u \in Nat
  PROVE  Numbers(r % Wrap, u) = Numbers(r, u)
<1>1. ASSUME NEW k \in 1 .. u PROVE ((r % Wrap) + k - 1) % Wrap = (r + k - 1) % Wrap
  <2>1. PICK j \in Nat : j = k - 1
    BY <1>1
  <2>2. PICK s \in Nat : s = r % Wrap
    BY Sizes, Remainder
  <2>3. (s + j) % Wrap = (r + j) % Wrap
    BY <2>2, Shift
  <2>4. s + k - 1 = s + j /\ r + k - 1 = r + j
    BY <1>1, <2>1
  <2> QED
    BY <2>2, <2>3, <2>4
<1> QED
  BY <1>1 DEF Numbers

LEMMA NumbersOn ==
  ASSUME NEW r \in Nat, NEW u \in Nat, NEW n \in Nat
  PROVE  Numbers(r, u) \o Numbers(r + u, n) = Numbers(r, u + n)
<1> DEFINE s == Numbers(r, u)  t == Numbers(r + u, n)  v == Numbers(r, u + n)
<1>1. /\ s \in Seq(Nat) /\ Len(s) = u /\ \A k \in 1 .. u : s[k] = (r + k - 1) % Wrap
      /\ t \in Seq(Nat) /\ Len(t) = n /\ \A k \in 1 .. n : t[k] = (r + u + k - 1) % Wrap
      /\ v \in Seq(Nat) /\ Len(v) = u + n /\ \A k \in 1 .. u + n : v[k] = (r + k - 1) % Wrap
  <2>1. r + u \in Nat /\ u + n \in Nat
    OBVIOUS
  <2> QED
    BY <2>1, NumbersAreSeq
<1> HIDE DEF s, t, v
<1>2. /\ s \o t \in Seq(Nat) /\ Len(s \o t) = u + n
      /\ \A k \in 1 .. u + n : (s \o t)[k] = IF k <= u THEN s[k] ELSE t[k - u]
  BY <1>1, ConcatProperties
<1>3. ASSUME NEW k \in 1 .. u + n PROVE (s \o t)[k] = v[k]
  <2>1. CASE k <= u
    <3>1. k \in 1 .. u
      BY <2>1
    <3> QED
      BY <1>1, <1>2, <2>1, <3>1
  <2>2. CASE ~ (k <= u)
    <3>1. k - u \in 1 .. n /\ r + u + (k - u) - 1 = r + k - 1
      BY <2>2
    <3> QED
      BY <1>1, <1>2, <2>2, <3>1
  <2> QED
    BY <2>1, <2>2
<1>4. s \o t = v
  BY <1>1, <1>2, <1>3, SeqEqual
<1> QED
  BY <1>4 DEF s, t, v

LEMMA NumbersFrom ==
  ASSUME NEW r \in Nat, NEW u \in Nat, NEW n \in 0 .. u
  PROVE  SubSeq(Numbers(r, u), n + 1, u) = Numbers(r + n, u - n)
<1> DEFINE s == Numbers(r, u)  t == Numbers(r + n, u - n)
<1>1. /\ s \in Seq(Nat) /\ Len(s) = u /\ \A k \in 1 .. u : s[k] = (r + k - 1) % Wrap
      /\ t \in Seq(Nat) /\ Len(t) = u - n /\ \A k \in 1 .. u - n : t[k] = (r + n + k - 1) % Wrap
  <2>1. r + n \in Nat /\ u - n \in Nat
    OBVIOUS
  <2> QED
    BY <2>1, NumbersAreSeq
<1> HIDE DEF s, t
<1>2. /\ SubSeq(s, n + 1, u) \in Seq(Nat) /\ Len(SubSeq(s, n + 1, u)) = u - n
      /\ \A k \in 1 .. u - n : SubSeq(s, n + 1, u)[k] = s[n + k]
  <2>1. \A k \in n + 1 .. u : s[k] \in Nat
    <3>1. \A k \in n + 1 .. u : k \in 1 .. Len(s)
      BY <1>1
    <3> QED
      BY <1>1, <3>1
  <2>2. /\ SubSeq(s, n + 1, u) \in Seq(Nat)
        /\ Len(SubSeq(s, n + 1, u)) = IF n + 1 <= u THEN u - (n + 1) + 1 ELSE 0
        /\ \A k \in 1 .. u - (n + 1) + 1 : SubSeq(s, n + 1, u)[k] = s[n + 1 + k - 1]
    BY <2>1, SubSeqProperties
  <2>3. u - (n + 1) + 1 = u - n /\ \A k \in 1 .. u - n : n + 1 + k - 1 = n + k
    OBVIOUS
  <2> QED
    BY <2>2, <2>3
<1>3. ASSUME NEW k \in 1 .. u - n PROVE SubSeq(s, n + 1, u)[k] = t[k]
  <2>1. n + k \in 1 .. u /\ r + (n + k) - 1 = r + n + k - 1
    OBVIOUS
  <2> QED
    BY <1>1, <1>2, <2>1
<1>4. SubSeq(s, n + 1, u) = t
  BY <1>1, <1>2, <1>3, SeqEqual
<1> QED
  BY <1>4 DEF s, t

(* The unread bytes of a ring, wherever they lie. *)
InPlace(f, r, u) == \A k \in 0 .. u - 1 : f[(r + k) % Cap] = (r + k) % Wrap
Unrolled(f, r, u) == [k \in 1 .. u |-> f[(r + k - 1) % Cap]]

LEMMA ReadOut ==
  ASSUME NEW f, NEW r \in Nat, NEW u \in Nat, InPlace(f, r, u)
  PROVE  Unrolled(f, r, u) = Numbers(r, u)
<1>1. ASSUME NEW k \in 1 .. u PROVE f[(r + k - 1) % Cap] = (r + k - 1) % Wrap
  <2>1. PICK j \in 0 .. u - 1 : j = k - 1
    BY <1>1
  <2>2. r + k - 1 = r + j
    BY <1>1, <2>1
  <2>3. f[(r + j) % Cap] = (r + j) % Wrap
    BY DEF InPlace
  <2> QED
    BY <2>2, <2>3
<1> QED
  BY <1>1 DEF Numbers, Unrolled

LEMMA RingRead ==
  ASSUME CounterInv, ContentInv, NEW b \in Buffers
  PROVE  Contents(b) = Numbers(read[b], Unread(b))
<1>1. read[b] \in Nat /\ Unread(b) \in Nat
  BY RingFacts DEF CounterInv
<1>2. PICK f : f = mem[b]
  OBVIOUS
<1>3. PICK r \in Nat : r = read[b]
  BY <1>1
<1>4. PICK u \in Nat : u = Unread(b)
  BY <1>1
<1>5. InPlace(f, r, u)
  BY <1>2, <1>3, <1>4 DEF ContentInv, InPlace
<1>6. Unrolled(f, r, u) = Numbers(r, u)
  BY <1>5, ReadOut
<1> QED
  BY <1>2, <1>3, <1>4, <1>6 DEF Contents, Unrolled

LEMMA Initially ==
  ASSUME Init
  PROVE  Log!Init
<1>1. ASSUME NEW b \in Buffers PROVE Contents(b) = <<>>
  <2>1. CounterInv /\ ContentInv
    BY CounterInit, ContentInit, Zenon
  <2>2. read[b] = 0 /\ write[b] = 0
    BY DEF Init
  <2>3. Unread(b) = 0
    BY <2>2, Sizes, Remainder DEF Unread, Sub
  <2>4. Contents(b) = Numbers(0, 0)
    BY <2>1, <2>2, <2>3, RingRead
  <2> QED
    BY <2>4, NumbersAreSeq, EmptySeq
<1> QED
  BY <1>1 DEF Init, Log!Init

(* A push logs the message. *)
LEMMA PushLogs ==
  ASSUME CounterInv, ContentInv, ContentInv', NEW b \in Buffers, NEW n \in Lengths, Push(b, n),
         phase = "up", phase' = phase
  PROVE  Log!Log(b, n)
<1>1. /\ read' = read /\ Unread(b)' = Unread(b) + n /\ n \in Nat /\ Unread(b) + n <= Cap
      /\ \A x \in Buffers \ {b} : Unread(x)' = Unread(x)
  BY PushCounters DEF CounterInv
<1>2. \A x \in Buffers : /\ read[x] \in Nat /\ Unread(x) \in Nat
                         /\ Contents(x) = Numbers(read[x], Unread(x))
  BY RingFacts, RingRead DEF CounterInv
<1>3. \A x \in Buffers : Unread(x)' \in Nat
  BY <1>1, <1>2
<1>4. ASSUME NEW x \in Buffers PROVE Contents(x)' = Numbers(read[x], Unread(x)')
  <2>1. \A k \in 0 .. Unread(x)' - 1 : mem'[x][(read[x] + k) % Cap] = (read[x] + k) % Wrap
    BY <1>1 DEF ContentInv
  <2>2. PICK f : f = mem'[x]
    OBVIOUS
  <2>3. PICK r \in Nat : r = read[x]
    BY <1>2
  <2>4. PICK u \in Nat : u = Unread(x)'
    BY <1>3
  <2>5. InPlace(f, r, u)
    BY <2>1, <2>2, <2>3, <2>4 DEF InPlace
  <2>6. Unrolled(f, r, u) = Numbers(r, u)
    BY <2>5, ReadOut
  <2> QED
    BY <1>1, <2>2, <2>3, <2>4, <2>6 DEF Contents, Unrolled
<1>5. Contents(b)' = Contents(b) \o [k \in 1 .. n |-> (logged[b] + k - 1) % Wrap]
  <2>1. PICK a \in Nat : a = read[b] + Unread(b)
    BY <1>2
  <2>2. logged[b] = a % Wrap
    BY <2>1, RingFacts DEF CounterInv
  <2>3. Numbers(a % Wrap, n) = Numbers(a, n)
    BY <1>1, NumbersShifted
  <2>4. Numbers(read[b], Unread(b)) \o Numbers(a, n) = Numbers(read[b], Unread(b) + n)
    BY <1>1, <1>2, <2>1, NumbersOn
  <2>5. Numbers(logged[b], n) = [k \in 1 .. n |-> (logged[b] + k - 1) % Wrap]
    BY DEF Numbers
  <2> QED
    BY <1>1, <1>2, <1>4, <2>2, <2>3, <2>4, <2>5
<1>6. \A x \in Buffers \ {b} : Contents(x)' = Contents(x)
  BY <1>1, <1>2, <1>4
<1>7. Len(Contents(b)) + n <= Cap
  <2>1. read[b] \in Nat /\ Unread(b) \in Nat
    BY <1>2
  <2>2. Len(Numbers(read[b], Unread(b))) = Unread(b)
    BY <2>1, NumbersAreSeq
  <2> QED
    BY <1>1, <1>2, <2>2
<1> QED
  BY <1>5, <1>6, <1>7 DEF Log!Log, Push

(* A step of `main` or of the flush takes the oldest bytes. *)
LEMMA TakeFlushes ==
  ASSUME CounterInv, ContentInv, ContentInv', NEW b \in Buffers, NEW t \in 0 .. Unread(b),
         read' = [read EXCEPT ![b] = (read[b] + t) % Wrap], UNCHANGED <<mem, write, logged>>
  PROVE  /\ \A x \in Buffers \ {b} : Contents(x)' = Contents(x)
         /\ Contents(b)' = SubSeq(Contents(b), t + 1, Len(Contents(b)))
         /\ t = 0 => Contents(b)' = Contents(b)
         /\ t <= Len(Contents(b))
<1>1. /\ Unread(b)' = Unread(b) - t /\ read'[b] = (read[b] + t) % Wrap
      /\ \A x \in Buffers \ {b} : Unread(x)' = Unread(x) /\ read'[x] = read[x]
  BY TakeCounters DEF CounterInv, TypeOK
<1>2. /\ read[b] \in Nat /\ Unread(b) \in Nat /\ t \in Nat /\ t <= Unread(b)
      /\ Contents(b) = Numbers(read[b], Unread(b)) /\ read[b] % Wrap = read[b]
  <2>1. read[b] \in Nat /\ Unread(b) \in Nat /\ read[b] \in Counters
        /\ Contents(b) = Numbers(read[b], Unread(b))
    BY RingFacts, RingRead DEF CounterInv
  <2> QED
    BY <2>1, Sizes, Remainder DEF Counters
<1>3. PICK a \in Nat : a = read[b] + t
  BY <1>2
<1>4. PICK d \in Nat : d = Unread(b) - t
  BY <1>2
<1>5. PICK r \in Nat : r = a % Wrap
  BY Sizes, Remainder
<1>6. Contents(b)' = Numbers(a, d)
  <2>1. read'[b] = r /\ Unread(b)' = d
    BY <1>1, <1>3, <1>4, <1>5
  <2>2. \A k \in 0 .. d - 1 : mem'[b][(r + k) % Cap] = (r + k) % Wrap
    BY <2>1 DEF ContentInv
  <2>3. PICK f : f = mem'[b]
    OBVIOUS
  <2>4. Unrolled(f, r, d) = Numbers(r, d)
    <3>1. InPlace(f, r, d)
      BY <2>2, <2>3 DEF InPlace
    <3> QED
      BY <3>1, ReadOut
  <2>5. Contents(b)' = Numbers(r, d)
    BY <2>1, <2>3, <2>4 DEF Contents, Unrolled
  <2> QED
    BY <1>5, <2>5, NumbersShifted
<1>7. SubSeq(Contents(b), t + 1, Unread(b)) = Numbers(a, d)
  <2>1. PICK q \in Nat : q = read[b]
    BY <1>2
  <2>2. PICK u \in Nat : u = Unread(b)
    BY <1>2
  <2>3. t \in 0 .. u
    BY <2>2
  <2>4. SubSeq(Numbers(q, u), t + 1, u) = Numbers(q + t, u - t)
    BY <2>3, NumbersFrom
  <2> QED
    BY <1>2, <1>3, <1>4, <2>1, <2>2, <2>4
<1>8. Len(Contents(b)) = Unread(b)
  <2>1. read[b] \in Nat /\ Unread(b) \in Nat
    BY <1>2
  <2>2. Len(Numbers(read[b], Unread(b))) = Unread(b)
    BY <2>1, NumbersAreSeq
  <2> QED
    BY <1>2, <2>2
<1>9. t = 0 => a = read[b] /\ d = Unread(b)
  BY <1>2, <1>3, <1>4
<1>10. ASSUME NEW x \in Buffers \ {b} PROVE Contents(x)' = Contents(x)
  BY <1>1 DEF Contents
<1> QED
  BY <1>2, <1>6, <1>7, <1>8, <1>9, <1>10

LEMMA FlushMaps ==
  ASSUME CounterInv, ContentInv, ContentInv', Advance \/ Round
  PROVE  [Log!Next]_(Log!vars)
<1> DEFINE queue == [b \in Buffers |-> Contents(b)]
<1>1. UNCHANGED <<mem, write, logged, phase>> /\ (phase # "reset")
  BY DEF Advance, Round
<1>2. CASE read' = read
  <2>1. queue' = queue
    BY <1>1, <1>2 DEF Contents, Unread
  <2> QED
    BY <1>1, <2>1 DEF Log!vars
<1>3. ASSUME NEW b \in Buffers, NEW t \in 0 .. Unread(b),
             read' = [read EXCEPT ![b] = (read[b] + t) % Wrap]
      PROVE  [Log!Next]_(Log!vars)
  <2>1. /\ \A x \in Buffers \ {b} : Contents(x)' = Contents(x)
        /\ Contents(b)' = SubSeq(Contents(b), t + 1, Len(Contents(b)))
        /\ t = 0 => Contents(b)' = Contents(b)
        /\ t <= Len(Contents(b))
    BY <1>1, <1>3, TakeFlushes
  <2>2. CASE t = 0
    <3>1. queue' = queue
      BY <2>1, <2>2
    <3> QED
      BY <1>1, <3>1 DEF Log!vars
  <2>3. CASE t # 0
    <3>1. t \in 1 .. Cap
      BY <2>3, RingFacts, Sizes DEF CounterInv
    <3>2. Log!Flush(b, t)
      BY <1>1, <2>1 DEF Log!Flush
    <3>3. t <= Len(queue[b])
      BY <2>1
    <3> QED
      BY <3>1, <3>2, <3>3 DEF Log!Next
  <2> QED
    BY <2>2, <2>3
<1> QED
  BY <1>2, <1>3, TakesOff

LEMMA SameQueues ==
  ASSUME UNCHANGED <<mem, read, write, logged, phase>>
  PROVE  UNCHANGED Log!vars
<1>1. \A b \in Buffers : Contents(b)' = Contents(b)
  BY DEF Contents, Unread
<1> QED
  BY <1>1 DEF Log!vars

(* A push that panics, or a call of memlog_flush_and_reset, leaves the     *)
(* queues as they are and closes them.                                     *)
LEMMA FlushCloses ==
  ASSUME CounterInv, ContentInv, ContentInv', phase = "up", Flush
  PROVE  Log!Close
<1>1. ASSUME NEW b \in Buffers PROVE Contents(b)' = Contents(b)
  <2>1. read'[b] = read[b] /\ Unread(b)' = Unread(b) /\ read[b] \in Nat /\ Unread(b) \in Nat
    BY RingFacts DEF Flush, Unread, CounterInv
  <2>2. \A k \in 0 .. Unread(b) - 1 : mem'[b][(read[b] + k) % Cap] = (read[b] + k) % Wrap
    BY <2>1 DEF ContentInv
  <2>3. PICK f : f = mem'[b]
    OBVIOUS
  <2>4. PICK r \in Nat : r = read[b]
    BY <2>1
  <2>5. PICK u \in Nat : u = Unread(b)
    BY <2>1
  <2>6. Unrolled(f, r, u) = Numbers(r, u)
    <3>1. InPlace(f, r, u)
      BY <2>2, <2>3, <2>4, <2>5 DEF InPlace
    <3> QED
      BY <3>1, ReadOut
  <2>7. Contents(b)' = Unrolled(f, r, u)
    BY <2>1, <2>3, <2>4, <2>5 DEF Contents, Unrolled
  <2> QED
    BY <2>4, <2>5, <2>6, <2>7, RingRead
<1> QED
  BY <1>1 DEF Log!Close, Flush

LEMMA EmptyRing ==
  ASSUME CounterInv, ContentInv, NEW b \in Buffers, Unread(b) = 0
  PROVE  Contents(b) = <<>>
<1>1. read[b] \in Nat /\ Contents(b) = Numbers(read[b], 0)
  BY RingFacts, RingRead DEF CounterInv
<1> QED
  BY <1>1, NumbersAreSeq, EmptySeq

LEMMA StepMaps ==
  ASSUME GoodSplits, CounterInv, ContentInv, [Next]_vars
  PROVE  [Log!Next]_(Log!vars)
<1>1. /\ TypeOK /\ RingInv /\ L0 \in Buffers /\ L1 \in Buffers /\ Buffers = {L0, L1}
      /\ ContentInv'
  BY ContentStep DEF CounterInv, Buffers
<1>2. ASSUME NEW n \in Lengths, MainLog(n) \/ IsrLog(n) PROVE [Log!Next]_(Log!vars)
  <2>1. ASSUME NEW b \in Buffers, PushPanics(b, n), phase = "up" PROVE Log!Next
    BY <1>1, <2>1, FlushCloses DEF PushPanics, Log!Next
  <2>2. ASSUME NEW b \in Buffers, Push(b, n), phase = "up", phase' = phase
        PROVE  Log!Next
    <3>1. Log!Log(b, n)
      BY <1>1, <2>2, PushLogs
    <3> QED
      BY <3>1 DEF Log!Next
  <2> QED
    BY <1>1, <1>2, <2>1, <2>2 DEF MainLog, IsrLog
<1>3. CASE Advance \/ Round
  BY <1>1, <1>3, FlushMaps
<1>4. CASE TryFlush \/ Peek \/ \E k \in 0 .. Cap : Send(k)
  BY <1>4, SameQueues DEF TryFlush, Peek, Send
<1>8. CASE FlushAndReset
  BY <1>1, <1>8, FlushCloses DEF FlushAndReset, Log!Next
<1>9. CASE ResetAtOnce
  <2>1. \A b \in Buffers : Contents(b)' = Contents(b)
    BY <1>9 DEF ResetAtOnce, Contents, Unread
  <2>2. Log!Lose
    BY <1>9, <2>1 DEF ResetAtOnce, Log!Lose
  <2> QED
    BY <2>2 DEF Log!Next
<1>5. CASE Reset
  <2>1. phase = "flush" /\ rounds = ROUNDS /\ phase' = "reset" /\ UNCHANGED <<mem, read, write, logged>>
    BY <1>5 DEF Reset
  <2>2. Slices(L0) = 0 /\ Slices(L1) = 0
    <3>1. Slices(L0) \in 0 .. 2 /\ Slices(L1) \in 0 .. 2
      BY <1>1, ContiguousFacts
    <3>2. rounds + Slices(L0) + Slices(L1) <= ROUNDS
      BY <2>1 DEF CounterInv, RoundsInv
    <3> QED
      BY <2>1, <3>1, <3>2 DEF ROUNDS
  <2>3. \A b \in Buffers : Contents(b) = <<>>
    BY <1>1, <2>2, ContiguousFacts, EmptyRing
  <2>4. \A b \in Buffers : Contents(b)' = Contents(b)
    BY <2>1 DEF Contents, Unread
  <2>5. Log!Reset
    BY <2>1, <2>3, <2>4 DEF Log!Reset
  <2> QED
    BY <2>5 DEF Log!Next
<1>6. CASE Boot
  <2>1. \A b \in Buffers : Unread(b)' = 0 /\ read'[b] = 0
    BY <1>6, ZeroKeeps DEF Boot, Fresh, Unread
  <2>2. ASSUME NEW b \in Buffers PROVE Contents(b)' = <<>>
    <3>1. Contents(b)' = [k \in 1 .. 0 |-> mem'[b][(0 + k - 1) % Cap]]
      BY <2>1 DEF Contents
    <3> QED
      BY <3>1, EmptySeq
  <2>3. Log!Boot
    BY <1>6, <2>2 DEF Log!Boot, Boot, Fresh
  <2> QED
    BY <2>3 DEF Log!Next
<1>7. CASE UNCHANGED vars
  <2>1. \A b \in Buffers : Contents(b)' = Contents(b)
    BY <1>7 DEF vars, Contents, Unread
  <2> QED
    BY <1>7, <2>1 DEF vars, Log!vars
<1> QED
  BY <1>2, <1>3, <1>4, <1>5, <1>6, <1>7, <1>8, <1>9 DEF Next, MainStep

(* Where messages are split right, the two rings behave as queues of       *)
(* bytes, in a build that wraps the counters and in one that panics:       *)
(* whatever `main` and the interrupts log and flush, a byte leaves once    *)
(* and in order, and a flush begun by a panic or memlog_flush_and_reset    *)
(* resets the board with both rings empty.  What ResetAtOnce finds in the  *)
(* rings is lost, as LogQueues says.                                       *)
THEOREM RingsImplementQueues == GoodSplits => (Spec => ImplementsQueues)
<1> SUFFICES ASSUME GoodSplits PROVE Spec => ImplementsQueues
  OBVIOUS
<1>1. Init => Log!Init
  BY Initially, Zenon
<1>2. CounterInv /\ ContentInv /\ [Next]_vars => [Log!Next]_(Log!vars)
  BY StepMaps, Zenon
<1>3. Spec => [](CounterInv /\ ContentInv)
  BY ContentKept
<1> QED
  BY <1>1, <1>2, <1>3, PTL DEF Spec, ImplementsQueues, Log!Spec

=============================================================================
