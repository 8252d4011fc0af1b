------------------------------ MODULE Contexts ------------------------------
(***************************************************************************)
(* The execution contexts of a program that uses the drivers: the main     *)
(* program and interrupt handlers, ordered by priority on one core.  A     *)
(* context runs one driver call at a time; a handler may begin a call      *)
(* between any two steps of a context below it, which then waits until the *)
(* handler's call has returned.                                            *)
(***************************************************************************)
EXTENDS Naturals

CONSTANTS
  Contexts,   \* priorities; a larger number preempts a smaller one
  MaxCalls    \* bound: calls made before the program ends

(* The main program has priority 0. *)
ASSUME ContextsAssumption ==
  Contexts \subseteq Nat /\ 0 \in Contexts /\ MaxCalls \in Nat

VARIABLES
  task,    \* the call each context executes: operation, next step, object
  calls,   \* calls begun
  alive    \* FALSE after a panic or a reset

contextVars == <<task, calls, alive>>

Call(op, at, on) == [op |-> op, at |-> at, on |-> on]

NoCall == Call("none", "none", "none")

ContextsInit ==
  /\ task = [c \in Contexts |-> NoCall]
  /\ calls = 0
  /\ alive = TRUE

Running(c) == alive /\ \A d \in Contexts : d > c => task[d] = NoCall

MayCall(c) == Running(c) /\ task[c] = NoCall /\ calls < MaxCalls

At(c, op, at) == Running(c) /\ task[c].op = op /\ task[c].at = at

(* A call that is over with its first step, and one that goes on at `at`.  *)
CallOnce(c) ==
  /\ MayCall(c)
  /\ calls' = calls + 1
  /\ UNCHANGED <<task, alive>>

Begin(c, op, at, on) ==
  /\ MayCall(c)
  /\ task' = [task EXCEPT ![c] = Call(op, at, on)]
  /\ calls' = calls + 1
  /\ UNCHANGED alive

Goto(c, at) ==
  /\ task' = [task EXCEPT ![c].at = at]
  /\ UNCHANGED <<calls, alive>>

Return(c) ==
  /\ task' = [task EXCEPT ![c] = NoCall]
  /\ UNCHANGED <<calls, alive>>

(* panic!, a failed assertion, or memlog_flush_and_reset!                  *)
Abort == alive' = FALSE /\ UNCHANGED <<task, calls>>

=============================================================================
