-------------------------------- MODULE Rtic --------------------------------
(***************************************************************************)
(* The RTIC runtime of firmware/cortex-a-rtic: the code the `app` macro    *)
(* generates (message passing through a free queue FQ, an INPUTS buffer    *)
(* and a ready queue RQ per dispatcher) and the code it calls (lock, run,  *)
(* pend_sgi), on one core whose GIC preempts by priority.                  *)
(*                                                                         *)
(* A context is `idle`, the handler of a hardware task, or the SGI handler *)
(* ("dispatcher") of a priority level, named by its level.  Interrupts     *)
(* nest, so a context runs in the middle of another one; each action below *)
(* is a piece of code an interrupt may fall before or after.               *)
(***************************************************************************)
EXTENDS Naturals, Sequences, FiniteSets

CONSTANTS
  SwTasks,     \* software tasks
  HwTasks,     \* hardware tasks, each bound to one SPI
  Idle,        \* the idle context
  Resources,   \* the resources of the application
  Payloads,    \* the messages a software task takes
  Prio,        \* compressed logical priority of every task and of Idle
  Cap,         \* capacity of every software task
  Uses,        \* resources each task, or Idle, may lock
  Spawns,      \* software tasks each task, or Idle, may spawn
  InitSpawns,  \* software tasks `init` may spawn
  Ceiling,     \* ceiling of every lockable object (from the analysis)
  RqCap,       \* capacity of the ready queue of a level
  MaxOps,      \* bound: spawns and locks per activation of user code
  None         \* no value

IDLE_PRIORITY == 0
MAX_PRIORITY == 31

Users == SwTasks \cup HwTasks \cup {Idle}
Dispatchers == {Prio[t] : t \in SwTasks}
Handlers == HwTasks \cup Dispatchers
Contexts == Handlers \cup {Idle}

FQ(t) == <<"FQ", t>>
RQ(l) == <<"RQ", l>>
Objects == Resources \cup {FQ(t) : t \in SwTasks} \cup {RQ(l) : l \in Dispatchers}

Indices(t) == 0 .. Cap[t] - 1
Slots == UNION {{t} \X Indices(t) : t \in SwTasks}

(* The static priority of the code of a context. *)
Level == [c \in Contexts |-> IF c \in Dispatchers THEN c ELSE Prio[c]]

ASSUME SortsAssumption ==
  /\ Idle \notin SwTasks \cup HwTasks
  /\ SwTasks \cap HwTasks = {}
  /\ (HwTasks \cup {Idle}) \cap Nat = {}

ASSUME PrioAssumption ==
  /\ Prio \in [Users -> 0 .. MAX_PRIORITY]
  /\ Prio[Idle] = IDLE_PRIORITY
  /\ \A x \in Users \ {Idle} : Prio[x] > IDLE_PRIORITY

ASSUME SpawnAssumption ==
  /\ Cap \in [SwTasks -> Nat]
  /\ Uses \in [Users -> SUBSET Resources]
  /\ Spawns \in [Users -> SUBSET SwTasks]
  /\ InitSpawns \subseteq SwTasks
  /\ RqCap \in [Dispatchers -> Nat]
  /\ MaxOps \in Nat
  /\ None \notin Nat

(* The ready queue of a level is given the sum of the capacities of the    *)
(* tasks it serves, rounded up to a power of two.                          *)
ASSUME CapacityAssumption ==
  /\ IsFiniteSet(SwTasks)
  /\ \A l \in Dispatchers : Cardinality({s \in Slots : Prio[s[1]] = l}) =< RqCap[l]

(* A ceiling is no lower than the priority of any user of the object.      *)
ASSUME CeilingAssumption ==
  /\ Ceiling \in [Objects -> 0 .. MAX_PRIORITY]
  /\ \A x \in Users : \A r \in Uses[x] : Prio[x] =< Ceiling[r]
  /\ \A x \in Users : \A t \in Spawns[x] :
        Prio[x] =< Ceiling[FQ(t)] /\ Prio[x] =< Ceiling[RQ(Prio[t])]

-----------------------------------------------------------------------------
(* GIC priorities: a smaller value is more urgent; the 5 bits that are     *)
(* implemented (PRIO_BITS) are the upper ones of a byte.                   *)
logical2hw(logical) == (32 - logical - 1) * 8

sgi2prio(sgi) == sgi + 1
prio2sgi(logical) == logical - 1

(* pre_init sets the priority of as many SGIs as there are priorities of   *)
(* software tasks; the others keep the value 0 they have at reset.         *)
sgis_in_use == Cardinality(Dispatchers)
SgiPriority(sgi) ==
  IF sgi < sgis_in_use THEN logical2hw(sgi2prio(sgi)) ELSE 0

GicPriority ==
  [c \in Contexts |->
    IF c = Idle THEN 255
    ELSE IF c \in Dispatchers THEN SgiPriority(prio2sgi(c))
    ELSE logical2hw(Prio[c])]

(* Every dispatcher's SGI is among those pre_init sets the priority of:    *)
(* software tasks occupy the lowest priorities of the application.         *)
ContiguousSgis == \A l \in Dispatchers : prio2sgi(l) < sgis_in_use

VARIABLES
  pc,        \* where each context is in its code
  pmr,       \* GICC_PMR
  pending,   \* interrupts pending in the distributor
  dyn,       \* the context's `Priority` cell
  atEntry,   \* history: PMR when the interrupt was taken
  initial,   \* PMR as `run` read it
  held,      \* the `lock` calls a context is in, outermost first
  budget,    \* operations left to the user code of a context
  sp,        \* locals of the `spawn` a context is in
  job,       \* locals of the dispatcher's loop
  fq,        \* free queue of a software task
  rq,        \* ready queue of a dispatcher
  inputs     \* INPUTS buffers of the software tasks

locals == <<budget, sp, job>>
queues == <<fq, rq, inputs>>
masks == <<pmr, dyn, held>>
saved == <<atEntry, initial>>
vars == <<pc, pending, masks, saved, locals, queues>>

PC == {"init", "off", "entry", "poll", "read", "free", "body",
       "fq", "input", "rq", "pend", "exit", "eoi"}

PmrValues == {logical2hw(l) : l \in 0 .. MAX_PRIORITY}
SpawnLocals == [task : SwTasks, payload : Payloads, index : Nat \cup {None}]
JobLocals == [slot : Slots, payload : Payloads \cup {None}]
LockFrame == [obj : Objects, current : 0 .. MAX_PRIORITY]

ASSUME NoneAssumption ==
  /\ None \notin JobLocals
  /\ None \notin SwTasks \X (Payloads \cup {None})

TypeOK ==
  /\ pc \in [Contexts -> PC]
  /\ pmr \in PmrValues
  /\ pending \subseteq Handlers
  /\ dyn \in [Contexts -> 0 .. MAX_PRIORITY]
  /\ atEntry \in [Contexts -> PmrValues]
  /\ initial \in [Contexts -> PmrValues]
  /\ held \in [Contexts -> Seq(LockFrame)]
  /\ budget \in [Contexts -> 0 .. MaxOps]
  /\ sp \in [Contexts -> SpawnLocals \cup {None}]
  /\ job \in [Contexts -> JobLocals \cup {None}]
  /\ fq \in [SwTasks -> Seq(Nat)]
  /\ \A t \in SwTasks : fq[t] \in Seq(Indices(t))
  /\ rq \in [Dispatchers -> Seq(Slots)]
  /\ \A l \in Dispatchers : rq[l] \in Seq({s \in Slots : Prio[s[1]] = l})
  /\ inputs \in [Slots -> Payloads \cup {None}]

-----------------------------------------------------------------------------
(* `init` runs with IRQs masked after pre_init has filled the free queues, *)
(* set the interrupt priorities and unmasked every priority.               *)
Init ==
  /\ pc = [c \in Contexts |-> IF c = Idle THEN "init" ELSE "off"]
  /\ pmr = logical2hw(IDLE_PRIORITY)
  /\ pending = {}
  /\ dyn = [c \in Contexts |-> Level[c]]
  /\ atEntry = [c \in Contexts |-> logical2hw(IDLE_PRIORITY)]
  /\ initial = [c \in Contexts |-> logical2hw(IDLE_PRIORITY)]
  /\ held = [c \in Contexts |-> <<>>]
  /\ budget = [c \in Contexts |-> 0]
  /\ sp = [c \in Contexts |-> None]
  /\ job = [c \in Contexts |-> None]
  /\ fq = [t \in SwTasks |-> [k \in 1 .. Cap[t] |-> k - 1]]
  /\ rq = [l \in Dispatchers |-> <<>>]
  /\ inputs = [s \in Slots |-> None]

Active(c) == pc[c] # "off"

(* The core executes the active context the GIC ran last: the most urgent. *)
Running(c) ==
  /\ Active(c)
  /\ \A d \in Contexts \ {c} : Active(d) => GicPriority[c] < GicPriority[d]

At(c, from) == Running(c) /\ pc[c] = from
Goto(c, to) == pc' = [pc EXCEPT ![c] = to]

(* The user code a context is executing. *)
User(c) == IF c \in Dispatchers THEN job[c].slot[1] ELSE c

(* A spawn from `init` takes no lock: nothing else runs. *)
InitSpawn(t, v) ==
  /\ pc[Idle] = "init"
  /\ t \in InitSpawns
  /\ fq[t] # <<>>
  /\ LET slot == <<t, Head(fq[t])>> IN
       /\ inputs' = [inputs EXCEPT ![slot] = v]
       /\ rq' = [rq EXCEPT ![Prio[t]] = Append(@, slot)]
  /\ fq' = [fq EXCEPT ![t] = Tail(@)]
  /\ pending' = pending \cup {Prio[t]}
  /\ UNCHANGED <<pc, masks, saved, locals>>

(* post_init enables IRQs and main goes on to `idle`. *)
StartIdle ==
  /\ pc[Idle] = "init"
  /\ Goto(Idle, "body")
  /\ budget' = [budget EXCEPT ![Idle] = MaxOps]
  /\ UNCHANGED <<pending, masks, saved, sp, job, queues>>

-----------------------------------------------------------------------------
(* Interrupts. *)

(* A peripheral raises its interrupt. *)
Raise(h) ==
  /\ h \in HwTasks \ pending
  /\ pending' = pending \cup {h}
  /\ UNCHANGED <<pc, masks, saved, locals, queues>>

(* The GIC signals the most urgent pending interrupt when it is more       *)
(* urgent than the mask and than what runs; the core takes it unless IRQs  *)
(* are masked, as they are during `init`.  IRQ() reads IAR, which makes    *)
(* the interrupt active and no longer pending, and unmasks IRQs.           *)
Deliverable(c) ==
  /\ pc[Idle] # "init"
  /\ c \in pending
  /\ GicPriority[c] < pmr
  /\ \A d \in Contexts : Active(d) => GicPriority[c] < GicPriority[d]
  /\ \A d \in pending : GicPriority[c] =< GicPriority[d]

Take(c) ==
  /\ Deliverable(c)
  /\ pending' = pending \ {c}
  /\ Goto(c, "entry")
  /\ dyn' = [dyn EXCEPT ![c] = Level[c]]
  /\ atEntry' = [atEntry EXCEPT ![c] = pmr]
  /\ UNCHANGED <<pmr, held, initial, locals, queues>>

(* The head of `run`: it keeps PMR, except at priority 1, and calls the    *)
(* hardware task or the dispatcher's loop.                                 *)
RunEnter(c) ==
  /\ At(c, "entry")
  /\ initial' = [initial EXCEPT ![c] = IF Level[c] = 1 THEN @ ELSE pmr]
  /\ IF c \in Dispatchers
       THEN Goto(c, "poll") /\ UNCHANGED budget
       ELSE Goto(c, "body") /\ budget' = [budget EXCEPT ![c] = MaxOps]
  /\ UNCHANGED <<pending, masks, atEntry, sp, job, queues>>

(* Mutant: `run` leaves PMR as the handler left it. *)
RunLeaveNoRestore(c) ==
  /\ At(c, "exit")
  /\ Goto(c, "eoi")
  /\ UNCHANGED <<pending, masks, saved, locals, queues>>

(* The tail of `run` writes PMR back. *)
RunLeave(c) ==
  /\ At(c, "exit")
  /\ pmr' = IF Level[c] = 1 THEN logical2hw(IDLE_PRIORITY) ELSE initial[c]
  /\ Goto(c, "eoi")
  /\ UNCHANGED <<pending, dyn, held, saved, locals, queues>>

(* Mutant: the end of the handler clears what was raised in the meantime.  *)
EndOfInterruptClear(c) ==
  /\ At(c, "eoi")
  /\ Goto(c, "off")
  /\ pending' = pending \ {c}
  /\ atEntry' = [atEntry EXCEPT ![c] = logical2hw(IDLE_PRIORITY)]
  /\ initial' = [initial EXCEPT ![c] = logical2hw(IDLE_PRIORITY)]
  /\ UNCHANGED <<masks, locals, queues>>

(* IRQ() masks IRQs, writes EOIR and returns to what was interrupted.      *)
EndOfInterrupt(c) ==
  /\ At(c, "eoi")
  /\ Goto(c, "off")
  /\ atEntry' = [atEntry EXCEPT ![c] = logical2hw(IDLE_PRIORITY)]
  /\ initial' = [initial EXCEPT ![c] = logical2hw(IDLE_PRIORITY)]
  /\ UNCHANGED <<pending, masks, locals, queues>>

-----------------------------------------------------------------------------
(* lock.  The PMR write takes effect before the closure runs (isb), the    *)
(* closure's accesses are done before the mask is lowered (dsb), and the   *)
(* Priority cell is the context's own.                                     *)
(* Mutants: the mask is one level short of the ceiling; PMR is not written. *)
EnterOneShort(c, o) ==
  /\ held' = [held EXCEPT ![c] = Append(@, [obj |-> o, current |-> dyn[c]])]
  /\ IF dyn[c] < Ceiling[o]
       THEN /\ dyn' = [dyn EXCEPT ![c] = Ceiling[o]]
            /\ pmr' = logical2hw(Ceiling[o] - 1)
       ELSE UNCHANGED <<dyn, pmr>>
EnterNoMask(c, o) ==
  /\ held' = [held EXCEPT ![c] = Append(@, [obj |-> o, current |-> dyn[c]])]
  /\ dyn' = [dyn EXCEPT ![c] = IF @ < Ceiling[o] THEN Ceiling[o] ELSE @]
  /\ UNCHANGED pmr

Enter(c, o) ==
  /\ held' = [held EXCEPT ![c] = Append(@, [obj |-> o, current |-> dyn[c]])]
  /\ IF dyn[c] < Ceiling[o]
       THEN /\ dyn' = [dyn EXCEPT ![c] = Ceiling[o]]
            /\ pmr' = logical2hw(Ceiling[o])
       ELSE UNCHANGED <<dyn, pmr>>

Top(c) == held[c][Len(held[c])]

Leave(c) ==
  /\ held' = [held EXCEPT ![c] = SubSeq(@, 1, Len(@) - 1)]
  /\ IF Top(c).current < Ceiling[Top(c).obj]
       THEN /\ dyn' = [dyn EXCEPT ![c] = Top(c).current]
            /\ pmr' = logical2hw(Top(c).current)
       ELSE UNCHANGED <<dyn, pmr>>

Holds(c, o) == \E k \in DOMAIN held[c] : held[c][k].obj = o

(* User code locks a resource.  It owns one proxy of it, which the closure *)
(* borrows, so it cannot lock it again inside.                             *)
Lock(c, r) ==
  /\ At(c, "body")
  /\ budget[c] > 0
  /\ r \in Uses[User(c)]
  /\ ~ Holds(c, r)
  /\ budget' = [budget EXCEPT ![c] = @ - 1]
  /\ Enter(c, r)
  /\ UNCHANGED <<pc, pending, saved, sp, job, queues>>

Unlock(c) ==
  /\ At(c, "body")
  /\ held[c] # <<>>
  /\ Leave(c)
  /\ UNCHANGED <<pc, pending, saved, locals, queues>>

-----------------------------------------------------------------------------
(* spawn. *)

(* FQ.lock(dequeue), up to reading the head of the queue. *)
SpawnBegin(c, t, v) ==
  /\ At(c, "body")
  /\ budget[c] > 0
  /\ t \in Spawns[User(c)]
  /\ budget' = [budget EXCEPT ![c] = @ - 1]
  /\ sp' = [sp EXCEPT ![c] =
       [task |-> t, payload |-> v, index |-> IF fq[t] = <<>> THEN None ELSE Head(fq[t])]]
  /\ Goto(c, "fq")
  /\ Enter(c, FQ(t))
  /\ UNCHANGED <<pending, saved, job, queues>>

(* The rest of FQ.lock: the index leaves the queue.  With none, Err.       *)
SpawnDequeue(c) ==
  /\ At(c, "fq")
  /\ Leave(c)
  /\ IF sp[c].index = None
       THEN /\ Goto(c, "body")
            /\ sp' = [sp EXCEPT ![c] = None]
            /\ UNCHANGED fq
       ELSE /\ Goto(c, "input")
            /\ fq' = [fq EXCEPT ![sp[c].task] = Tail(@)]
            /\ UNCHANGED sp
  /\ UNCHANGED <<pending, saved, budget, job, rq, inputs>>

SpSlot(c) == <<sp[c].task, sp[c].index>>

(* The message is written to its slot, and RQ.lock entered. *)
SpawnWrite(c) ==
  /\ At(c, "input")
  /\ inputs' = [inputs EXCEPT ![SpSlot(c)] = sp[c].payload]
  /\ Enter(c, RQ(Prio[sp[c].task]))
  /\ Goto(c, "rq")
  /\ UNCHANGED <<pending, saved, locals, fq, rq>>

(* The rest of RQ.lock(enqueue_unchecked). *)
SpawnEnqueue(c) ==
  /\ At(c, "rq")
  /\ rq' = [rq EXCEPT ![Prio[sp[c].task]] = Append(@, SpSlot(c))]
  /\ Leave(c)
  /\ Goto(c, "pend")
  /\ UNCHANGED <<pending, saved, locals, fq, inputs>>

(* Mutants: the SGI of the next level; no SGI while the dispatcher is      *)
(* active.                                                                 *)
SpawnPendNext(c) ==
  /\ At(c, "pend")
  /\ pending' = pending \cup {Prio[sp[c].task] + 1}
  /\ sp' = [sp EXCEPT ![c] = None]
  /\ Goto(c, "body")
  /\ UNCHANGED <<masks, saved, budget, job, queues>>
SpawnPendIfOff(c) ==
  /\ At(c, "pend")
  /\ pending' = pending \cup {l \in {Prio[sp[c].task]} : ~ Active(l)}
  /\ sp' = [sp EXCEPT ![c] = None]
  /\ Goto(c, "body")
  /\ UNCHANGED <<masks, saved, budget, job, queues>>

(* pend_sgi, and Ok to the caller. *)
SpawnPend(c) ==
  /\ At(c, "pend")
  /\ pending' = pending \cup {Prio[sp[c].task]}
  /\ sp' = [sp EXCEPT ![c] = None]
  /\ Goto(c, "body")
  /\ UNCHANGED <<masks, saved, budget, job, queues>>

-----------------------------------------------------------------------------
(* The dispatcher's loop, which takes no lock on either queue. *)

Dequeue(c) ==
  /\ At(c, "poll")
  /\ IF rq[c] = <<>>
       THEN /\ Goto(c, "exit")
            /\ UNCHANGED <<job, rq>>
       ELSE /\ Goto(c, "read")
            /\ job' = [job EXCEPT ![c] = [slot |-> Head(rq[c]), payload |-> None]]
            /\ rq' = [rq EXCEPT ![c] = Tail(@)]
  /\ UNCHANGED <<pending, masks, saved, budget, sp, fq, inputs>>

ReadInput(c) ==
  /\ At(c, "read")
  /\ job' = [job EXCEPT ![c].payload = inputs[job[c].slot]]
  /\ Goto(c, "free")
  /\ UNCHANGED <<pending, masks, saved, budget, sp, queues>>

(* The index returns to the free queue and the task starts. *)
FreeSlot(c) ==
  /\ At(c, "free")
  /\ fq' = [fq EXCEPT ![job[c].slot[1]] = Append(@, job[c].slot[2])]
  /\ dyn' = [dyn EXCEPT ![c] = Level[c]]
  /\ budget' = [budget EXCEPT ![c] = MaxOps]
  /\ Goto(c, "body")
  /\ UNCHANGED <<pmr, pending, held, saved, sp, job, rq, inputs>>

(* A task returns: to the dispatcher's loop, or to `run`. *)
EndTask(c) ==
  /\ c # Idle
  /\ At(c, "body")
  /\ held[c] = <<>>
  /\ Goto(c, IF c \in Dispatchers THEN "poll" ELSE "exit")
  /\ budget' = [budget EXCEPT ![c] = 0]
  /\ job' = [job EXCEPT ![c] = None]
  /\ UNCHANGED <<pending, masks, saved, sp, queues>>

-----------------------------------------------------------------------------
(* Mutant: the index returns to the free queue before the input is read.  *)
StepFreeFirst(c) ==
  \/ RunEnter(c) \/ RunLeave(c) \/ EndOfInterrupt(c)
  \/ \E t \in SwTasks, v \in Payloads : SpawnBegin(c, t, v)
  \/ SpawnDequeue(c) \/ SpawnWrite(c) \/ SpawnEnqueue(c) \/ SpawnPend(c)
  \/ Dequeue(c) \/ EndTask(c)
  \/ /\ At(c, "read")
     /\ fq' = [fq EXCEPT ![job[c].slot[1]] = Append(@, job[c].slot[2])]
     /\ Goto(c, "free")
     /\ UNCHANGED <<pending, masks, saved, locals, rq, inputs>>
  \/ /\ At(c, "free")
     /\ job' = [job EXCEPT ![c].payload = inputs[job[c].slot]]
     /\ budget' = [budget EXCEPT ![c] = MaxOps]
     /\ Goto(c, "body")
     /\ UNCHANGED <<pending, masks, saved, sp, queues>>

Step(c) ==
  \/ RunEnter(c)
  \/ RunLeave(c)
  \/ EndOfInterrupt(c)
  \/ \E r \in Resources : Lock(c, r)
  \/ Unlock(c)
  \/ \E t \in SwTasks, v \in Payloads : SpawnBegin(c, t, v)
  \/ SpawnDequeue(c)
  \/ SpawnWrite(c)
  \/ SpawnEnqueue(c)
  \/ SpawnPend(c)
  \/ Dequeue(c)
  \/ ReadInput(c)
  \/ FreeSlot(c)
  \/ EndTask(c)

Next ==
  \/ \E t \in SwTasks, v \in Payloads : InitSpawn(t, v)
  \/ StartIdle
  \/ \E h \in HwTasks : Raise(h)
  \/ \E c \in Handlers : Take(c)
  \/ \E c \in Contexts : Step(c)

Spec == Init /\ [][Next]_vars

(* The core executes what runs, a deliverable interrupt is taken, and user *)
(* code, having MaxOps operations, runs to completion.                     *)
Fairness ==
  /\ WF_vars(StartIdle)
  /\ \A c \in Handlers : WF_vars(Take(c))
  /\ \A c \in Contexts : WF_vars(Step(c))

FairSpec == Spec /\ Fairness

-----------------------------------------------------------------------------
(* Properties. *)

(* Two contexts are never inside `lock` on the same object: neither on a   *)
(* resource of the application nor, in the middle of a spawn, on a queue.  *)
(* What `ceiling` and the PMR write in export.rs are for.                  *)
MutualExclusion ==
  \A c, d \in Contexts : \A o \in Objects :
    c # d /\ Holds(c, o) => ~ Holds(d, o)

(* No masking is left behind (`lock` and `run` in export.rs): GICC_PMR is  *)
(* at the exit of an interrupt handler what it was at the entry, and it    *)
(* never hides an interrupt more urgent than the dynamic priority of what  *)
(* runs, through nested locks, spawns and handlers.                        *)
MaskRestored ==
  /\ \A c \in Handlers : At(c, "eoi") => pmr = atEntry[c]
  /\ \A c \in Contexts :
       Running(c) /\ pc[c] \notin {"entry", "eoi"} => pmr >= logical2hw(dyn[c])

(* A priority level is kept waiting by at most one less urgent context:    *)
(* the bounded priority inversion ceilings are chosen for.                 *)
SingleBlocker ==
  \A l \in {Prio[x] : x \in Users} :
    \A c, d \in Contexts :
      /\ Active(c) /\ Level[c] < l /\ dyn[c] >= l
      /\ Active(d) /\ Level[d] < l /\ dyn[d] >= l
      => c = d

(* Who has the slot s of an INPUTS buffer: a place of the free queue or of *)
(* the ready queue, a spawn between the two, or the dispatcher.            *)
SlotOwners(s) ==
  {<<"FQ", k>> : k \in {k \in DOMAIN fq[s[1]] : fq[s[1]][k] = s[2]}}
  \cup {<<"RQ", k>> : k \in {k \in DOMAIN rq[Prio[s[1]]] : rq[Prio[s[1]]][k] = s}}
  \cup {<<"spawn", c>> : c \in {c \in Contexts : pc[c] \in {"input", "rq"} /\ SpSlot(c) = s}}
  \cup {<<"task", c>> : c \in {c \in Dispatchers : pc[c] \in {"read", "free"} /\ job[c].slot = s}}

(* Each slot has exactly one owner at any time: no message is overwritten  *)
(* before it is read, none is dispatched twice, and no slot leaks, however *)
(* spawns and dispatchers preempt each other; and so enqueue_unchecked     *)
(* never finds a queue full.                                               *)
SlotConservation ==
  /\ \A s \in Slots : \E p \in SlotOwners(s) : SlotOwners(s) = {p}
  /\ \A t \in SwTasks : Len(fq[t]) =< Cap[t]
  /\ \A l \in Dispatchers : Len(rq[l]) =< RqCap[l]

(* A ready queue with a message in it is going to be looked at: its SGI is *)
(* pending or about to be pended, or its dispatcher polls again.           *)
WillPoll(l) == pc[l] \notin {"off", "exit", "eoi"}
NoLostWakeup ==
  \A l \in Dispatchers :
    rq[l] # <<>> =>
      \/ l \in pending
      \/ WillPoll(l)
      \/ \E c \in Contexts : pc[c] = "pend" /\ Prio[sp[c].task] = l

(* The queues and locks implement the abstract task queues: a message is   *)
(* posted when its slot enters the ready queue and starts when it leaves.  *)
Waiting ==
  [l \in Dispatchers |-> [k \in DOMAIN rq[l] |-> <<rq[l][k][1], inputs[rq[l][k]]>>]]
Current ==
  [l \in Dispatchers |->
    IF job[l] = None THEN None
    ELSE <<job[l].slot[1],
           IF pc[l] = "read" THEN inputs[job[l].slot] ELSE job[l].payload>>]
Mailbox == INSTANCE TaskQueues WITH waiting <- Waiting, current <- Current
ImplementsTaskQueues == Mailbox!Spec

(* Once nothing at the level of handler c or above keeps it from running,  *)
(* every message waiting for dispatcher c is started, and every interrupt  *)
(* of hardware task c starts its handler: no masking left behind by lock   *)
(* or run keeps a task from starting, and no SGI is lost.                  *)
QuietFor(c) == \A d \in Handlers \ {c} : Level[d] >= Level[c] => pc[d] = "off"

Ready(s) == \E k \in DOMAIN rq[Prio[s[1]]] : rq[Prio[s[1]]][k] = s

EveryTaskStarts ==
  /\ \A s \in Slots : <>[]QuietFor(Prio[s[1]]) => (Ready(s) ~> ~ Ready(s))
  /\ \A h \in HwTasks : <>[]QuietFor(h) => (h \in pending ~> pc[h] = "entry")

=============================================================================
