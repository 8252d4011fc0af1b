----------------------------- MODULE TaskQueues -----------------------------
(***************************************************************************)
(* What message passing in RTIC promises, with no core, no interrupt and   *)
(* no lock in sight: each priority level has a queue of messages, a message *)
(* <<t, v>> is posted only while fewer than Cap[t] messages of task t are  *)
(* waiting, and the level starts its messages in the order of their posts, *)
(* one at a time, each exactly once and with the payload that was posted.  *)
(***************************************************************************)
EXTENDS Naturals, Sequences, FiniteSets

CONSTANTS SwTasks, Payloads, Prio, Cap, None

VARIABLES
  waiting,   \* messages posted and not started, per level
  current    \* the message a level is working on, or None

Levels == {Prio[t] : t \in SwTasks}

OfTask(t) == {k \in DOMAIN waiting[Prio[t]] : waiting[Prio[t]][k][1] = t}

Init ==
  /\ waiting = [l \in Levels |-> <<>>]
  /\ current = [l \in Levels |-> None]

Post(t, v) ==
  /\ Cardinality(OfTask(t)) < Cap[t]
  /\ waiting' = [waiting EXCEPT ![Prio[t]] = Append(@, <<t, v>>)]
  /\ UNCHANGED current

Start(l) ==
  /\ current[l] = None
  /\ waiting[l] # <<>>
  /\ current' = [current EXCEPT ![l] = Head(waiting[l])]
  /\ waiting' = [waiting EXCEPT ![l] = Tail(@)]

Finish(l) ==
  /\ current[l] # None
  /\ current' = [current EXCEPT ![l] = None]
  /\ UNCHANGED waiting

Next ==
  \/ \E t \in SwTasks, v \in Payloads : Post(t, v)
  \/ \E l \in Levels : Start(l) \/ Finish(l)

Spec == Init /\ [][Next]_<<waiting, current>>

=============================================================================
