----------------------------- MODULE LogQueues -----------------------------
(***************************************************************************)
(* What the in-memory logger promises: one queue of bytes for `main`, one  *)
(* for interrupts.  A message enters whole or not at all, and bytes leave  *)
(* in the order they were logged.  A board that begins its final flush     *)
(* accepts nothing more and is reset only once all bytes have left; a      *)
(* board that is reset without one loses those that have not.              *)
(***************************************************************************)
EXTENDS Naturals, Sequences

CONSTANTS
  Queues,   \* the queues
  Cap,      \* bytes a queue holds
  Lengths,  \* lengths of messages
  Wrap      \* bytes are numbered modulo Wrap

VARIABLES
  queue,    \* bytes logged and not yet flushed
  logged,   \* number of the next byte logged
  state     \* "up", "flush" (the final one) or "reset"

vars == <<queue, logged, state>>

Init ==
  /\ queue = [q \in Queues |-> <<>>]
  /\ logged = [q \in Queues |-> 0]
  /\ state = "up"

Log(q, n) ==
  /\ state = "up"
  /\ Len(queue[q]) + n =< Cap
  /\ queue' = [queue EXCEPT ![q] = @ \o [k \in 1 .. n |-> (logged[q] + k - 1) % Wrap]]
  /\ logged' = [logged EXCEPT ![q] = (@ + n) % Wrap]
  /\ UNCHANGED state

Flush(q, n) ==
  /\ state # "reset"
  /\ queue' = [queue EXCEPT ![q] = SubSeq(@, n + 1, Len(@))]
  /\ UNCHANGED <<logged, state>>

(* The final flush begins. *)
Close ==
  /\ state = "up"
  /\ state' = "flush"
  /\ UNCHANGED <<queue, logged>>

Reset ==
  /\ state = "flush"
  /\ \A q \in Queues : queue[q] = <<>>
  /\ state' = "reset"
  /\ UNCHANGED <<queue, logged>>

(* A reset without a final flush. *)
Lose ==
  /\ state = "up"
  /\ state' = "reset"
  /\ UNCHANGED <<queue, logged>>

Boot ==
  /\ state = "reset"
  /\ queue' = [q \in Queues |-> <<>>]
  /\ logged' = [q \in Queues |-> 0]
  /\ state' = "up"

Next ==
  \/ \E q \in Queues, n \in Lengths : Log(q, n)
  \/ \E q \in Queues, n \in 1 .. Cap : n =< Len(queue[q]) /\ Flush(q, n)
  \/ Close
  \/ Reset
  \/ Lose
  \/ Boot

Spec == Init /\ [][Next]_vars

=============================================================================
