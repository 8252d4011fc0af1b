----------------------------- MODULE RticProofs -----------------------------
(***************************************************************************)
(* Proofs about Rtic, for any application whose dispatchers' SGIs are      *)
(* given a priority (ContiguousSgis): type correctness, mutual exclusion   *)
(* of the critical sections, the bound on priority inversion and the       *)
(* restoration of masks; then message passing: no wake-up is lost, every   *)
(* slot of an INPUTS buffer has one owner, the queues never overflow, and  *)
(* the runtime implements the abstract TaskQueues.                         *)
(***************************************************************************)
EXTENDS Rtic, SequenceTheorems, FiniteSetTheorems, TLAPS

UserCode == {"body", "fq", "input", "rq", "pend"}
InSpawn == UserCode \ {"body"}

(* What the place of a context in its code says about its locals.          *)
ShapeOf(c) ==
  /\ pc[c] = "init" => c = Idle
  /\ c = Idle => pc[c] \in UserCode \cup {"init"}
  /\ pc[c] \in {"poll", "read", "free"} => c \in Dispatchers
  /\ pc[c] \notin UserCode => held[c] = <<>>
  /\ c \in Dispatchers /\ pc[c] \in UserCode \cup {"read", "free"} =>
       job[c] \in JobLocals /\ Prio[job[c].slot[1]] = c
  /\ pc[c] \in InSpawn => sp[c] \in SpawnLocals /\ sp[c].task \in Spawns[User(c)]
  /\ pc[c] \in {"input", "rq"} => sp[c].index \in Indices(sp[c].task)
  /\ pc[c] = "fq" => held[c] # <<>> /\ Top(c).obj = FQ(sp[c].task)
  /\ pc[c] = "rq" => held[c] # <<>> /\ Top(c).obj = RQ(Prio[sp[c].task])

Shape == \A c \in Contexts : ShapeOf(c)

(* The index a spawn is about to take is still at the head of the queue.   *)
HeadsKept ==
  \A c \in Contexts :
    pc[c] = "fq" /\ sp[c].index # None =>
      fq[sp[c].task] # <<>> /\ Head(fq[sp[c].task]) = sp[c].index

(* The dynamic priority while frame f is the innermost one. *)
Raised(f) == IF f.current < Ceiling[f.obj] THEN Ceiling[f.obj] ELSE f.current

(* The frames h of a context of level l record the priorities it went      *)
(* through; its dynamic priority d covers the ceilings of all it holds.    *)
GoodStack(l, h, d) ==
  /\ l =< d
  /\ h = <<>> => d = l
  /\ h # <<>> => h[1].current = l /\ d = Raised(h[Len(h)])
  /\ \A k \in 1 .. Len(h) - 1 : h[k + 1].current = Raised(h[k])
  /\ \A k \in 1 .. Len(h) :
       /\ l =< h[k].current
       /\ l =< Ceiling[h[k].obj]
       /\ Ceiling[h[k].obj] =< d
  /\ \A j, k \in 1 .. Len(h) : j < k => Ceiling[h[j].obj] =< h[k].current

StackOf(c) == GoodStack(Level[c], held[c], dyn[c])
Stacks == \A c \in Contexts : StackOf(c)

(* Active contexts are nested by level, each above the dynamic priority of *)
(* those it preempted.                                                     *)
Order ==
  \A c, d \in Contexts :
    Active(c) /\ Active(d) /\ c # d =>
      Level[c] # Level[d] /\ (Level[c] < Level[d] => dyn[c] < Level[d])

RaisedContext(c) == Active(c) /\ dyn[c] > Level[c]

(* The mask, and the mask each handler will write back, respect whoever    *)
(* raised its priority.                                                    *)
MaskNow == \A b \in Contexts : RaisedContext(b) => pmr =< logical2hw(dyn[b])
MaskLater ==
  \A b, c \in Contexts :
    /\ RaisedContext(b) /\ Active(c) /\ Level[b] < Level[c]
    /\ pc[c] # "entry" /\ Level[c] # 1
    => initial[c] =< logical2hw(dyn[b])

(* Nothing runs before `init` has returned. *)
InitAlone == pc[Idle] = "init" => \A c \in Handlers : pc[c] = "off"

Inv == TypeOK /\ Shape /\ InitAlone /\ HeadsKept /\ Stacks /\ Order /\ MaskNow /\ MaskLater

-----------------------------------------------------------------------------
(* Constants. *)

LEMMA LevelFacts ==
  /\ Level \in [Contexts -> 0 .. 31]
  /\ Idle \in Contexts /\ Idle \notin Handlers /\ Level[Idle] = 0
  /\ Dispatchers \subseteq 1 .. 31
  /\ \A c \in Dispatchers : Level[c] = c
  /\ \A c \in Contexts \ Dispatchers : c \in Users /\ c \notin SwTasks /\ Level[c] = Prio[c]
  /\ \A c \in Handlers : Level[c] >= 1
  /\ \A t \in SwTasks : Prio[t] \in Dispatchers
  BY PrioAssumption, SortsAssumption
  DEF Level, Contexts, Handlers, Dispatchers, Users, IDLE_PRIORITY, MAX_PRIORITY

LEMMA HwFacts ==
  \A m, n \in 0 .. 31 :
    /\ logical2hw(m) \in Nat
    /\ logical2hw(m) =< 248
    /\ logical2hw(m) < logical2hw(n) <=> n < m
    /\ logical2hw(m) =< logical2hw(n) <=> n =< m
  BY DEF logical2hw

LEMMA LeqTrans ==
  \A i, j, k \in 0 .. 31 : i =< j /\ j =< k => i =< k
  OBVIOUS

LEMMA GicFacts ==
  ASSUME ContiguousSgis
  PROVE  /\ \A c \in Handlers : GicPriority[c] = logical2hw(Level[c])
         /\ GicPriority[Idle] = 255
<1>1. Handlers \subseteq Contexts
  BY DEF Contexts
<1>2. ASSUME NEW c \in Dispatchers
      PROVE  GicPriority[c] = logical2hw(c)
  <2>1. c \in Contexts /\ c # Idle /\ c \in 1 .. 31
    BY LevelFacts DEF Contexts, Handlers
  <2>2. prio2sgi(c) < sgis_in_use
    BY DEF ContiguousSgis
  <2>3. sgi2prio(prio2sgi(c)) = c
    BY <2>1 DEF sgi2prio, prio2sgi
  <2>4. GicPriority[c] = SgiPriority(prio2sgi(c))
    BY <2>1 DEF GicPriority
  <2> QED BY <2>2, <2>3, <2>4 DEF SgiPriority
<1>3. ASSUME NEW c \in Handlers, c \notin Dispatchers
      PROVE  GicPriority[c] = logical2hw(Prio[c])
  BY <1>1, <1>3, LevelFacts DEF GicPriority
<1>4. GicPriority[Idle] = 255
  BY LevelFacts DEF GicPriority
<1>5. ASSUME NEW c \in Handlers
      PROVE  GicPriority[c] = logical2hw(Level[c])
  <2>1. CASE c \in Dispatchers
    <3>1. Level[c] = c
      BY <2>1, LevelFacts
    <3> QED BY <3>1, <2>1, <1>2
  <2>2. CASE c \notin Dispatchers
    <3>1. Level[c] = Prio[c]
      BY <2>2, <1>1, LevelFacts
    <3> QED BY <3>1, <2>2, <1>3
  <2> QED BY <2>1, <2>2
<1> QED BY <1>4, <1>5

(* The running context is above every other active one.                    *)
LEMMA RunningIsAbove ==
  ASSUME ContiguousSgis, NEW c \in Contexts, NEW d \in Contexts,
         Running(c), Active(d), d # c
  PROVE  Level[d] < Level[c]
<1>1. GicPriority[c] < GicPriority[d]
  BY DEF Running
<1>2. Contexts = Handlers \cup {Idle}
  BY DEF Contexts
<1>3. c # Idle
  <2> SUFFICES ASSUME c = Idle PROVE FALSE
    OBVIOUS
  <2>1. d \in Handlers
    BY <1>2
  <2>2. GicPriority[d] = logical2hw(Level[d]) /\ Level[d] \in 0 .. 31
    BY <2>1, LevelFacts, GicFacts
  <2> QED BY <1>1, <2>2, GicFacts, HwFacts
<1>4. CASE d = Idle
  BY <1>2, <1>3, <1>4, LevelFacts
<1>5. CASE d # Idle
  <2>1. GicPriority[c] = logical2hw(Level[c]) /\ GicPriority[d] = logical2hw(Level[d])
    BY <1>2, <1>3, <1>5, GicFacts
  <2>2. Level[c] \in 0 .. 31 /\ Level[d] \in 0 .. 31
    BY LevelFacts
  <2> QED BY <1>1, <2>1, <2>2, HwFacts
<1> QED BY <1>4, <1>5

(* The mask is not above the dynamic priority of the context that takes an *)
(* interrupt, so the interrupt is above it.                                *)
LEMMA TakenIsAbove ==
  ASSUME ContiguousSgis, TypeOK, Stacks, MaskNow,
         NEW c \in Handlers, Deliverable(c),
         NEW d \in Contexts, Active(d)
  PROVE  Level[d] < Level[c] /\ dyn[d] < Level[c]
<1>1. c \in Contexts /\ c # Idle /\ Level[c] \in 0 .. 31 /\ Level[d] \in 0 .. 31
  BY LevelFacts DEF Contexts
<1>2. GicPriority[c] = logical2hw(Level[c]) /\ GicPriority[c] < GicPriority[d]
  BY GicFacts DEF Deliverable
<1>3. Level[d] < Level[c]
  <2>1. CASE d = Idle
    BY <2>1, <1>1, LevelFacts
  <2>2. CASE d # Idle
    <3>1. GicPriority[d] = logical2hw(Level[d])
      BY <2>2, GicFacts DEF Contexts
    <3> QED BY <1>1, <1>2, <3>1, HwFacts
  <2> QED BY <2>1, <2>2
<1>4. dyn[d] \in 0 .. 31 /\ Level[d] =< dyn[d]
  BY DEF TypeOK, Stacks, StackOf, GoodStack, MAX_PRIORITY
<1>5. CASE dyn[d] = Level[d]
  BY <1>3, <1>5
<1>6. CASE dyn[d] > Level[d]
  <2>1. pmr =< logical2hw(dyn[d])
    BY <1>6 DEF MaskNow, RaisedContext
  <2>2. logical2hw(Level[c]) < pmr
    BY <1>2 DEF Deliverable
  <2>3. pmr \in Nat
    BY HwFacts DEF TypeOK, PmrValues, MAX_PRIORITY
  <2>4. logical2hw(Level[c]) < logical2hw(dyn[d])
    BY <1>1, <1>4, <2>1, <2>2, <2>3, HwFacts
  <2> QED BY <1>1, <1>3, <1>4, <2>4, HwFacts
<1> QED BY <1>1, <1>3, <1>4, <1>5, <1>6

-----------------------------------------------------------------------------
(* Sequences as stacks. *)

LEMMA PushFacts ==
  ASSUME NEW S, NEW s \in Seq(S), NEW e \in S
  PROVE  /\ Append(s, e) \in Seq(S)
         /\ Len(Append(s, e)) = Len(s) + 1
         /\ Append(s, e) # <<>>
         /\ \A k \in 1 .. Len(s) : Append(s, e)[k] = s[k]
         /\ Append(s, e)[Len(s) + 1] = e
  OBVIOUS

LEMMA PopFacts ==
  ASSUME NEW S, NEW s \in Seq(S), s # <<>>
  PROVE  /\ SubSeq(s, 1, Len(s) - 1) \in Seq(S)
         /\ Len(SubSeq(s, 1, Len(s) - 1)) = Len(s) - 1
         /\ SubSeq(s, 1, Len(s) - 1) = <<>> <=> Len(s) = 1
         /\ \A k \in 1 .. Len(s) - 1 : SubSeq(s, 1, Len(s) - 1)[k] = s[k]
         /\ Len(s) \in Nat \ {0}
<1>1. Len(s) \in Nat /\ Len(s) # 0
  BY EmptySeq, LenProperties
<1>2. \A k \in 1 .. Len(s) - 1 : s[k] \in S
  BY <1>1, ElementOfSeq
<1>3. /\ SubSeq(s, 1, Len(s) - 1) \in Seq(S)
      /\ Len(SubSeq(s, 1, Len(s) - 1)) = Len(s) - 1
      /\ \A k \in 1 .. Len(s) - 1 : SubSeq(s, 1, Len(s) - 1)[k] = s[k]
  <2> DEFINE n == Len(s) - 1
  <2>1. 1 \in Int /\ n \in Int /\ n >= 0
    BY <1>1
  <2>2. \A i \in 1 .. n : s[i] \in S
    BY <1>2
  <2>3. /\ SubSeq(s, 1, n) \in Seq(S)
        /\ Len(SubSeq(s, 1, n)) = (IF 1 <= n THEN n - 1 + 1 ELSE 0)
        /\ \A i \in 1 .. n - 1 + 1 : SubSeq(s, 1, n)[i] = s[1 + i - 1]
    <3> HIDE DEF n
    <3> QED BY <2>1, <2>2, SubSeqProperties
  <2>4. n - 1 + 1 = n /\ \A i \in 1 .. n : 1 + i - 1 = i
    BY <2>1
  <2> HIDE DEF n
  <2>5. Len(SubSeq(s, 1, n)) = n /\ \A i \in 1 .. n : SubSeq(s, 1, n)[i] = s[i]
    BY <2>1, <2>3, <2>4
  <2> QED BY <2>3, <2>5 DEF n
<1>4. SubSeq(s, 1, Len(s) - 1) = <<>> <=> Len(s) = 1
  <2> DEFINE u == SubSeq(s, 1, Len(s) - 1)
  <2>1. u \in Seq(S) /\ Len(u) = Len(s) - 1
    BY <1>3
  <2> HIDE DEF u
  <2>2. u = <<>> <=> Len(u) = 0
    BY <2>1, EmptySeq
  <2>3. Len(s) - 1 = 0 <=> Len(s) = 1
    BY <1>1
  <2> QED BY <2>1, <2>2, <2>3 DEF u
<1> QED BY <1>1, <1>3, <1>4

LEMMA TailFacts ==
  ASSUME NEW S, NEW s \in Seq(S), s # <<>>
  PROVE  /\ Head(s) \in S
         /\ Tail(s) \in Seq(S)
  OBVIOUS

-----------------------------------------------------------------------------
(* Critical sections. *)

LEMMA FrameFacts ==
  ASSUME NEW f \in LockFrame
  PROVE  /\ f.obj \in Objects
         /\ f.current \in 0 .. 31
         /\ Ceiling[f.obj] \in 0 .. 31
         /\ Raised(f) \in 0 .. 31
         /\ f.current =< Raised(f) /\ Ceiling[f.obj] =< Raised(f)
         /\ Raised(f) = f.current \/ Raised(f) = Ceiling[f.obj]
  BY CeilingAssumption DEF LockFrame, MAX_PRIORITY, Raised

(* Entering `lock` keeps the stack of frames good. *)
LEMMA PushStack ==
  ASSUME NEW l \in 0 .. 31, NEW d \in 0 .. 31, NEW h \in Seq(LockFrame),
         NEW f \in LockFrame, f.current = d, l =< Ceiling[f.obj],
         GoodStack(l, h, d)
  PROVE  GoodStack(l, Append(h, f), Raised(f))
<1> DEFINE g == Append(h, f)
           n == Len(h)
<1>1. /\ n \in Nat /\ Len(g) = n + 1 /\ g # <<>> /\ g[n + 1] = f
      /\ \A k \in 1 .. n : g[k] = h[k] /\ h[k] \in LockFrame
  BY PushFacts, LenProperties, ElementOfSeq
<1>2. h = <<>> <=> n = 0
  BY EmptySeq
<1>3. d =< Raised(f) /\ Ceiling[f.obj] =< Raised(f) /\ Raised(f) \in 0 .. 31 /\ Ceiling[f.obj] \in 0 .. 31
  BY FrameFacts
<1>4. \A k \in 1 .. n : h[k].current \in 0 .. 31 /\ Ceiling[h[k].obj] \in 0 .. 31
  BY <1>1, FrameFacts
<1> HIDE DEF g, n
<1>5. l =< Raised(f)
  <2>1. l =< d
    BY DEF GoodStack
  <2> QED BY <1>3, <2>1, LeqTrans, Zenon
<1>6. g[1].current = l /\ Raised(f) = Raised(g[Len(g)])
  <2>1. CASE n = 0
    BY <1>1, <1>2, <2>1 DEF GoodStack
  <2>2. CASE n # 0
    BY <1>1, <1>2, <2>2 DEF GoodStack
  <2> QED BY <2>1, <2>2
<1>7. ASSUME NEW k \in 1 .. Len(g) - 1
      PROVE  g[k + 1].current = Raised(g[k])
  <2>1. CASE k = n
    BY <1>1, <1>2, <2>1 DEF GoodStack, n
  <2>2. CASE k # n
    <3>1. k \in 1 .. n - 1 /\ k \in 1 .. n /\ k + 1 \in 1 .. n
      BY <1>1, <2>2
    <3> QED BY <1>1, <3>1 DEF GoodStack, n
  <2> QED BY <2>1, <2>2
<1>8. ASSUME NEW k \in 1 .. Len(g)
      PROVE  l =< g[k].current /\ l =< Ceiling[g[k].obj] /\ Ceiling[g[k].obj] =< Raised(f)
  <2>1. CASE k = n + 1
    BY <1>1, <1>3, <2>1 DEF GoodStack
  <2>2. CASE k # n + 1
    <3>1. k \in 1 .. n
      BY <1>1, <2>2
    <3>2. l =< h[k].current /\ l =< Ceiling[h[k].obj] /\ Ceiling[h[k].obj] =< d
      BY <3>1 DEF GoodStack, n
    <3>3. g[k] = h[k] /\ Ceiling[h[k].obj] \in 0 .. 31
      BY <1>1, <1>4, <3>1
    <3>4. Ceiling[h[k].obj] =< Raised(f)
      BY <1>3, <3>2, <3>3, LeqTrans, Zenon
    <3> QED BY <3>2, <3>3, <3>4
  <2> QED BY <2>1, <2>2
<1>9. ASSUME NEW j \in 1 .. Len(g), NEW k \in 1 .. Len(g), j < k
      PROVE  Ceiling[g[j].obj] =< g[k].current
  <2>1. j \in 1 .. n
    BY <1>1, <1>9
  <2>2. CASE k = n + 1
    BY <1>1, <2>1, <2>2 DEF GoodStack, n
  <2>3. CASE k # n + 1
    <3>1. k \in 1 .. n
      BY <1>1, <2>3
    <3> QED BY <1>1, <1>9, <2>1, <3>1 DEF GoodStack, n
  <2> QED BY <2>2, <2>3
<1> QED BY <1>1, <1>5, <1>6, <1>7, <1>8, <1>9 DEF GoodStack, g

(* So does leaving it. *)
LEMMA PopStack ==
  ASSUME NEW l \in 0 .. 31, NEW d \in 0 .. 31, NEW h \in Seq(LockFrame), h # <<>>,
         GoodStack(l, h, d)
  PROVE  GoodStack(l, SubSeq(h, 1, Len(h) - 1), h[Len(h)].current)
<1> DEFINE u == SubSeq(h, 1, Len(h) - 1)
           n == Len(h)
<1>1. /\ n \in Nat \ {0} /\ Len(u) = n - 1
      /\ u = <<>> <=> n = 1
      /\ \A k \in 1 .. n - 1 : u[k] = h[k]
  BY PopFacts
<1> HIDE DEF u
<1>2. l =< h[n].current /\ h[1].current = l
  BY <1>1 DEF GoodStack
<1>3. u # <<>> => h[n].current = Raised(u[Len(u)])
  <2> SUFFICES ASSUME n # 1 PROVE h[n].current = Raised(u[n - 1])
    BY <1>1
  <2>1. n - 1 \in 1 .. n - 1 /\ (n - 1) + 1 = n
    BY <1>1
  <2> HIDE DEF n
  <2> QED BY <1>1, <2>1 DEF GoodStack, n
<1>4. ASSUME NEW k \in 1 .. Len(u) - 1
      PROVE  u[k + 1].current = Raised(u[k])
  <2>1. k \in 1 .. n - 1 /\ k + 1 \in 1 .. n - 1
    BY <1>1
  <2>2. u[k] = h[k] /\ u[k + 1] = h[k + 1]
    BY <1>1, <2>1
  <2> QED BY <2>1, <2>2 DEF GoodStack
<1>5. ASSUME NEW k \in 1 .. Len(u)
      PROVE  l =< u[k].current /\ l =< Ceiling[u[k].obj] /\ Ceiling[u[k].obj] =< h[n].current
  <2>1. k \in 1 .. n - 1 /\ k \in 1 .. n /\ n \in 1 .. n /\ k < n
    BY <1>1
  <2>2. u[k] = h[k]
    BY <1>1, <2>1
  <2> QED BY <2>1, <2>2 DEF GoodStack
<1>6. \A j, k \in 1 .. Len(u) : j < k => Ceiling[u[j].obj] =< u[k].current
  BY <1>1 DEF GoodStack
<1> QED BY <1>1, <1>2, <1>3, <1>4, <1>5, <1>6 DEF GoodStack, u

-----------------------------------------------------------------------------
(* Steps that move the mask, the stacks and the order of the contexts. *)

MaskMove(c) ==
  \E p \in 0 .. 31 :
    /\ Level[c] =< p
    /\ dyn' = [dyn EXCEPT ![c] = p]
    /\ pmr' = logical2hw(p) \/ (pmr' = pmr /\ p = dyn[c])

HeldMove(c) ==
  /\ held' \in [Contexts -> Seq(LockFrame)]
  /\ \A d \in Contexts \ {c} : held'[d] = held[d]

SameStatus ==
  \A d \in Contexts : (Active(d)' <=> Active(d)) /\ (pc'[d] = "entry" <=> pc[d] = "entry")

MaskInv == Order /\ MaskNow /\ MaskLater
MaskType == dyn \in [Contexts -> 0 .. 31] /\ pmr \in PmrValues

LEMMA EnterFacts ==
  ASSUME TypeOK, Stacks, NEW c \in Contexts, NEW o \in Objects,
         Level[c] =< Ceiling[o], Enter(c, o)
  PROVE  /\ MaskMove(c) /\ HeldMove(c) /\ Stacks'
         /\ held'[c] # <<>> /\ Top(c)'.obj = o
<1> DEFINE f == [obj |-> o, current |-> dyn[c]]
<1>1. /\ dyn \in [Contexts -> 0 .. 31] /\ dyn[c] \in 0 .. 31
      /\ held \in [Contexts -> Seq(LockFrame)] /\ held[c] \in Seq(LockFrame)
      /\ Level[c] \in 0 .. 31
  BY LevelFacts DEF TypeOK, MAX_PRIORITY
<1>2. f \in LockFrame /\ f.obj = o /\ f.current = dyn[c]
  BY <1>1 DEF LockFrame, MAX_PRIORITY
<1>3. held' = [held EXCEPT ![c] = Append(held[c], f)]
  BY DEF Enter
<1>4. Raised(f) = IF dyn[c] < Ceiling[o] THEN Ceiling[o] ELSE dyn[c]
  BY <1>2 DEF Raised
<1>5. GoodStack(Level[c], held[c], dyn[c])
  BY DEF Stacks, StackOf
<1>6. dyn' = [dyn EXCEPT ![c] = Raised(f)] /\ (pmr' = logical2hw(Raised(f)) \/ (pmr' = pmr /\ Raised(f) = dyn[c]))
  BY <1>1, <1>4 DEF Enter
<1> HIDE DEF f
<1>7. /\ held'[c] = Append(held[c], f) /\ held'[c] \in Seq(LockFrame)
      /\ held'[c] # <<>> /\ held'[c][Len(held'[c])] = f
  BY <1>1, <1>2, <1>3, PushFacts
<1>8. GoodStack(Level[c], held'[c], Raised(f))
  BY <1>1, <1>2, <1>5, <1>7, PushStack
<1>9. Raised(f) \in 0 .. 31 /\ Level[c] =< Raised(f)
  BY <1>2, <1>8, FrameFacts DEF GoodStack
<1>10. MaskMove(c)
  BY <1>6, <1>9 DEF MaskMove
<1>11. HeldMove(c)
  BY <1>1, <1>3, <1>7 DEF HeldMove
<1>12. Stacks'
  <2> SUFFICES ASSUME NEW d \in Contexts PROVE GoodStack(Level[d], held'[d], dyn'[d])
    BY DEF Stacks, StackOf, GoodStack, Raised
  <2>1. CASE d = c
    <3>1. dyn'[c] = Raised(f)
      BY <1>1, <1>6
    <3> QED BY <1>8, <2>1, <3>1
  <2>2. CASE d # c
    <3>1. dyn'[d] = dyn[d] /\ held'[d] = held[d]
      BY <1>1, <1>3, <1>6, <2>2
    <3> QED BY <3>1 DEF Stacks, StackOf
  <2> QED BY <2>1, <2>2
<1> QED BY <1>2, <1>7, <1>10, <1>11, <1>12 DEF Top

LEMMA LeaveFacts ==
  ASSUME TypeOK, Stacks, NEW c \in Contexts, held[c] # <<>>, Leave(c)
  PROVE  MaskMove(c) /\ HeldMove(c) /\ Stacks'
<1> DEFINE p == held[c][Len(held[c])].current
           u == SubSeq(held[c], 1, Len(held[c]) - 1)
<1>1. /\ dyn \in [Contexts -> 0 .. 31] /\ dyn[c] \in 0 .. 31
      /\ held \in [Contexts -> Seq(LockFrame)] /\ held[c] \in Seq(LockFrame)
      /\ Level[c] \in 0 .. 31
  BY LevelFacts DEF TypeOK, MAX_PRIORITY
<1>2. GoodStack(Level[c], held[c], dyn[c])
  BY DEF Stacks, StackOf
<1>3. u \in Seq(LockFrame) /\ Top(c) \in LockFrame /\ p = Top(c).current
  BY <1>1, PopFacts, ElementOfSeq DEF Top
<1>4. p \in 0 .. 31 /\ dyn[c] = IF p < Ceiling[Top(c).obj] THEN Ceiling[Top(c).obj] ELSE p
  BY <1>2, <1>3, FrameFacts DEF GoodStack, Raised, Top
<1>5. held' = [held EXCEPT ![c] = u]
  BY DEF Leave
<1>6. dyn' = [dyn EXCEPT ![c] = p] /\ (pmr' = logical2hw(p) \/ (pmr' = pmr /\ p = dyn[c]))
  BY <1>1, <1>3, <1>4 DEF Leave
<1>7. GoodStack(Level[c], u, p)
  BY <1>1, <1>2, PopStack
<1> HIDE DEF p, u
<1>8. MaskMove(c)
  BY <1>4, <1>6, <1>7 DEF MaskMove, GoodStack
<1>9. HeldMove(c)
  BY <1>1, <1>3, <1>5 DEF HeldMove
<1>10. Stacks'
  <2> SUFFICES ASSUME NEW d \in Contexts PROVE GoodStack(Level[d], held'[d], dyn'[d])
    BY DEF Stacks, StackOf, GoodStack, Raised
  <2>1. CASE d = c
    <3>1. dyn'[c] = p /\ held'[c] = u
      BY <1>1, <1>5, <1>6
    <3> QED BY <1>7, <2>1, <3>1
  <2>2. CASE d # c
    <3>1. dyn'[d] = dyn[d] /\ held'[d] = held[d]
      BY <1>1, <1>5, <1>6, <2>2
    <3> QED BY <3>1 DEF Stacks, StackOf
  <2> QED BY <2>1, <2>2
<1> QED BY <1>8, <1>9, <1>10

(* The running context may move the mask: it is above all it preempted. *)
LEMMA MaskMoveKeeps ==
  ASSUME ContiguousSgis, TypeOK, Stacks, MaskInv, NEW c \in Contexts, Running(c),
         MaskMove(c), SameStatus, UNCHANGED initial
  PROVE  MaskInv' /\ MaskType'
<1>1. PICK p \in 0 .. 31 :
        /\ Level[c] =< p
        /\ dyn' = [dyn EXCEPT ![c] = p]
        /\ pmr' = logical2hw(p) \/ (pmr' = pmr /\ p = dyn[c])
  BY DEF MaskMove
<1>2. /\ dyn \in [Contexts -> 0 .. 31] /\ dyn'[c] = p
      /\ \A d \in Contexts \ {c} : dyn'[d] = dyn[d]
      /\ \A d \in Contexts : dyn[d] \in 0 .. 31 /\ Level[d] \in 0 .. 31
  BY <1>1, LevelFacts DEF TypeOK, MAX_PRIORITY
<1>3. MaskType'
  BY <1>1, <1>2 DEF TypeOK, MaskType, PmrValues, MAX_PRIORITY
<1>4. \A d \in Contexts \ {c} : Active(d) => Level[d] < Level[c] /\ dyn[d] < Level[c]
  BY RunningIsAbove DEF MaskInv, Order, Running
<1>5. Active(c)
  BY DEF Running
<1>6. Order'
  <2> SUFFICES ASSUME NEW a \in Contexts, NEW b \in Contexts, Active(a), Active(b), a # b
               PROVE  Level[a] # Level[b] /\ (Level[a] < Level[b] => dyn'[a] < Level[b])
    BY DEF Order, SameStatus
  <2>1. Level[a] # Level[b] /\ (Level[a] < Level[b] => dyn[a] < Level[b])
    BY DEF MaskInv, Order
  <2>2. CASE a = c
    BY <1>2, <1>4, <2>1, <2>2
  <2>3. CASE a # c
    BY <1>2, <2>1, <2>3
  <2> QED BY <2>2, <2>3
<1>7. MaskNow'
  <2> SUFFICES ASSUME NEW b \in Contexts, Active(b), dyn'[b] > Level[b]
               PROVE  pmr' =< logical2hw(dyn'[b])
    BY DEF MaskNow, RaisedContext, SameStatus
  <2>1. CASE pmr' = pmr /\ p = dyn[c]
    <3>1. dyn'[b] = dyn[b]
      BY <1>2, <2>1
    <3> QED BY <2>1, <3>1 DEF MaskInv, MaskNow, RaisedContext
  <2>2. CASE pmr' = logical2hw(p)
    <3>1. dyn'[b] \in 0 .. 31 /\ dyn'[b] =< p
      BY <1>1, <1>2, <1>4
    <3> QED BY <2>2, <3>1, HwFacts
  <2> QED BY <1>1, <2>1, <2>2
<1>8. MaskLater'
  <2> SUFFICES ASSUME NEW b \in Contexts, NEW d \in Contexts, Active(b), dyn'[b] > Level[b],
                      Active(d), Level[b] < Level[d], pc[d] # "entry", Level[d] # 1
               PROVE  initial[d] =< logical2hw(dyn'[b])
    BY DEF MaskLater, RaisedContext, SameStatus
  <2>1. b # c
    BY <1>2, <1>4
  <2>2. dyn'[b] = dyn[b]
    BY <1>2, <2>1
  <2> QED BY <2>2 DEF MaskInv, MaskLater, RaisedContext
<1> QED BY <1>3, <1>6, <1>7, <1>8 DEF MaskInv

(* Steps that leave the locks alone. *)
LEMMA MasksKept ==
  ASSUME TypeOK, Stacks, MaskInv, SameStatus, UNCHANGED <<masks, initial>>
  PROVE  Stacks' /\ MaskInv' /\ MaskType' /\ held' \in [Contexts -> Seq(LockFrame)]
<1>1. dyn' = dyn /\ pmr' = pmr /\ held' = held /\ initial' = initial
  BY DEF masks
<1>2. Stacks'
  BY <1>1 DEF Stacks, StackOf, GoodStack, Raised
<1>3. Order'
  BY <1>1 DEF MaskInv, Order, SameStatus
<1>4. MaskNow'
  BY <1>1 DEF MaskInv, MaskNow, RaisedContext, SameStatus
<1>5. MaskLater'
  BY <1>1 DEF MaskInv, MaskLater, RaisedContext, SameStatus
<1>6. MaskType' /\ held' \in [Contexts -> Seq(LockFrame)]
  BY <1>1 DEF MaskType, TypeOK, MAX_PRIORITY
<1> QED BY <1>2, <1>3, <1>4, <1>5, <1>6 DEF MaskInv

-----------------------------------------------------------------------------
(* The parts of the type invariant, and what a step leaves alone. *)

PcType == pc \in [Contexts -> PC] /\ pending \subseteq Handlers
SavedType == atEntry \in [Contexts -> PmrValues] /\ initial \in [Contexts -> PmrValues]
HeldType == held \in [Contexts -> Seq(LockFrame)]
LocalType ==
  /\ budget \in [Contexts -> 0 .. MaxOps]
  /\ sp \in [Contexts -> SpawnLocals \cup {None}]
  /\ job \in [Contexts -> JobLocals \cup {None}]
FqType == fq \in [SwTasks -> Seq(Nat)] /\ \A t \in SwTasks : fq[t] \in Seq(Indices(t))
LevelSlots(l) == {s \in Slots : Prio[s[1]] = l}
RqType ==
  rq \in [Dispatchers -> Seq(Slots)] /\ \A l \in Dispatchers : rq[l] \in Seq(LevelSlots(l))
InputType == inputs \in [Slots -> Payloads \cup {None}]

LEMMA TypeParts ==
  TypeOK <=> /\ PcType /\ SavedType /\ HeldType /\ MaskType
             /\ LocalType /\ FqType /\ RqType /\ InputType
  BY DEF TypeOK, PcType, SavedType, HeldType, MaskType, LocalType, FqType, RqType,
         InputType, LevelSlots, MAX_PRIORITY

LEMMA TypePartsNext ==
  TypeOK' <=> /\ PcType' /\ SavedType' /\ HeldType' /\ MaskType'
              /\ LocalType' /\ FqType' /\ RqType' /\ InputType'
  BY DEF TypeOK, PcType, SavedType, HeldType, MaskType, LocalType, FqType, RqType,
         InputType, LevelSlots, MAX_PRIORITY

LEMMA Unchanged ==
  /\ TypeOK /\ UNCHANGED <<initial, atEntry>> => SavedType'
  /\ TypeOK /\ UNCHANGED locals => LocalType'
  /\ TypeOK /\ UNCHANGED fq => FqType'
  /\ TypeOK /\ UNCHANGED rq => RqType'
  /\ TypeOK /\ UNCHANGED inputs => InputType'
  BY TypeParts DEF SavedType, locals, LocalType, FqType, RqType, InputType

LEMMA SlotFacts ==
  /\ \A t \in SwTasks : \A k \in Indices(t) :
        <<t, k>> \in Slots /\ <<t, k>> \in LevelSlots(Prio[t])
  /\ \A s \in Slots : s[1] \in SwTasks /\ s[2] \in Indices(s[1]) /\ s = <<s[1], s[2]>>
  BY DEF Slots, LevelSlots

LEMMA IndexFacts ==
  \A t \in SwTasks : Indices(t) \subseteq Nat /\ Indices(t) \subseteq Nat \cup {None}
  BY SpawnAssumption DEF Indices

LEMMA ObjectFacts ==
  /\ \A t \in SwTasks : FQ(t) \in Objects /\ RQ(Prio[t]) \in Objects
  /\ Resources \subseteq Objects
  BY LevelFacts DEF Objects

(* The level of a context is the priority of the user code it runs. *)
LEMMA UserLevel ==
  ASSUME TypeOK, Shape, NEW c \in Contexts, pc[c] \in UserCode
  PROVE  User(c) \in Users /\ Prio[User(c)] = Level[c]
<1>1. ShapeOf(c)
  BY DEF Shape
<1>2. CASE c \in Dispatchers
  <2>1. job[c] \in JobLocals /\ Prio[job[c].slot[1]] = c
    BY <1>1, <1>2 DEF ShapeOf
  <2>2. job[c].slot \in Slots
    BY <2>1 DEF JobLocals
  <2> QED BY <1>2, <2>1, <2>2, SlotFacts, LevelFacts DEF User, Users
<1>3. CASE c \notin Dispatchers
  BY <1>3, LevelFacts DEF User
<1> QED BY <1>2, <1>3

LEMMA ShapeStep ==
  ASSUME Shape, NEW c \in Contexts, ShapeOf(c)',
         \A d \in Contexts \ {c} :
           /\ pc'[d] = pc[d] /\ held'[d] = held[d]
           /\ job'[d] = job[d] /\ sp'[d] = sp[d]
  PROVE  Shape'
<1> SUFFICES ASSUME NEW d \in Contexts, d # c PROVE ShapeOf(d)'
  BY DEF Shape
<1>1. ShapeOf(d)
  BY DEF Shape
<1> QED BY <1>1 DEF ShapeOf, User, Top

LEMMA AloneStep ==
  ASSUME TypeOK, InitAlone, NEW c \in Contexts, Active(c), NEW to, to # "init",
         pc' = [pc EXCEPT ![c] = to]
  PROVE  InitAlone'
<1> SUFFICES ASSUME pc'[Idle] = "init" PROVE FALSE
  BY DEF InitAlone
<1>1. c # Idle /\ pc[Idle] = "init"
  BY LevelFacts DEF TypeOK
<1> QED BY <1>1 DEF InitAlone, Active, Contexts

(* A free queue that only grows keeps the heads that were read. *)
LEMMA HeadsStep ==
  ASSUME TypeOK, Shape, HeadsKept,
         \A t \in SwTasks : fq[t] # <<>> => fq'[t] # <<>> /\ Head(fq'[t]) = Head(fq[t]),
         \A d \in Contexts : pc'[d] = "fq" => pc[d] = "fq" /\ sp'[d] = sp[d]
  PROVE  HeadsKept'
<1> SUFFICES ASSUME NEW d \in Contexts, pc'[d] = "fq", sp'[d].index # None
             PROVE  fq'[sp'[d].task] # <<>> /\ Head(fq'[sp'[d].task]) = sp'[d].index
  BY DEF HeadsKept
<1>1. pc[d] = "fq" /\ sp'[d] = sp[d]
  OBVIOUS
<1>2. sp[d] \in SpawnLocals
  BY <1>1 DEF Shape, ShapeOf, InSpawn, UserCode
<1>3. sp[d].task \in SwTasks
  BY <1>2 DEF SpawnLocals
<1> QED BY <1>1, <1>3 DEF HeadsKept

LEMMA SameFq ==
  UNCHANGED fq => \A t \in SwTasks : fq[t] # <<>> => fq'[t] # <<>> /\ Head(fq'[t]) = Head(fq[t])
  OBVIOUS

-----------------------------------------------------------------------------
(* Critical sections exclude each other. *)

LEMMA HoldsFacts ==
  ASSUME TypeOK, Shape, Stacks, NEW c \in Contexts, NEW o \in Objects, Holds(c, o)
  PROVE  /\ Active(c) /\ pc[c] \in UserCode
         /\ Level[c] =< Ceiling[o] /\ Ceiling[o] =< dyn[c]
<1>1. held[c] \in Seq(LockFrame)
  BY DEF TypeOK
<1>2. PICK k \in DOMAIN held[c] : held[c][k].obj = o
  BY DEF Holds
<1>3. k \in 1 .. Len(held[c])
  BY <1>1, <1>2, LenProperties
<1>4. held[c] # <<>>
  BY <1>3, EmptySeq
<1>5. pc[c] \in UserCode
  BY <1>4 DEF Shape, ShapeOf
<1> QED BY <1>2, <1>3, <1>5 DEF Stacks, StackOf, GoodStack, Active, UserCode

LEMMA Exclusion ==
  ASSUME TypeOK, Shape, Stacks, Order
  PROVE  MutualExclusion
<1> SUFFICES ASSUME NEW c \in Contexts, NEW d \in Contexts, NEW o \in Objects,
                    c # d, Holds(c, o), Holds(d, o)
             PROVE  FALSE
  BY DEF MutualExclusion
<1>1. \A e \in {c, d} :
         /\ Active(e) /\ Level[e] \in 0 .. 31 /\ dyn[e] \in 0 .. 31
         /\ Ceiling[o] =< dyn[e] /\ Level[e] =< Ceiling[o]
  <2> SUFFICES ASSUME NEW e \in {c, d}
               PROVE  /\ Active(e) /\ Level[e] \in 0 .. 31 /\ dyn[e] \in 0 .. 31
                      /\ Ceiling[o] =< dyn[e] /\ Level[e] =< Ceiling[o]
    OBVIOUS
  <2> QED BY HoldsFacts, LevelFacts DEF TypeOK, MAX_PRIORITY
<1>2. Ceiling[o] \in 0 .. 31
  BY CeilingAssumption DEF MAX_PRIORITY
<1>3. Level[c] # Level[d]
  BY <1>1 DEF Order
<1>4. CASE Level[c] < Level[d]
  BY <1>1, <1>2, <1>4 DEF Order
<1>5. CASE Level[d] < Level[c]
  BY <1>1, <1>2, <1>5 DEF Order
<1> QED BY <1>1, <1>3, <1>4, <1>5

-----------------------------------------------------------------------------
(* The initial states, `init` and the interrupts. *)

LEMMA InitInv == ContiguousSgis /\ Init => Inv
<1> SUFFICES ASSUME ContiguousSgis, Init PROVE Inv
  OBVIOUS
<1>1. \A c \in Contexts :
        /\ pc[c] = IF c = Idle THEN "init" ELSE "off"
        /\ held[c] = <<>> /\ dyn[c] = Level[c]
  BY DEF Init
<1>2. PcType /\ SavedType /\ LocalType
  BY SpawnAssumption DEF Init, PcType, SavedType, LocalType, PC, PmrValues, IDLE_PRIORITY, MAX_PRIORITY
<1>3. HeldType /\ MaskType
  BY EmptySeq, LevelFacts
  DEF Init, HeldType, MaskType, PmrValues, IDLE_PRIORITY, MAX_PRIORITY
<1>4. FqType
  <2> SUFFICES ASSUME NEW t \in SwTasks PROVE fq[t] \in Seq(Nat) /\ fq[t] \in Seq(Indices(t))
    BY DEF Init, FqType
  <2>1. Cap[t] \in Nat
    BY SpawnAssumption
  <2>2. fq[t] = [k \in 1 .. Cap[t] |-> k - 1]
    BY DEF Init
  <2> QED BY <2>1, <2>2 DEF Indices
<1>5. RqType /\ InputType
  BY EmptySeq DEF Init, RqType, InputType
<1>6. Shape
  BY <1>1 DEF Shape, ShapeOf, UserCode, InSpawn
<1>7. InitAlone
  BY <1>1, LevelFacts DEF InitAlone, Contexts
<1>8. HeadsKept
  BY <1>1 DEF HeadsKept
<1>9. Stacks
  <2> SUFFICES ASSUME NEW c \in Contexts PROVE GoodStack(Level[c], <<>>, Level[c])
    BY <1>1 DEF Stacks, StackOf
  <2>1. Len(<<>>) = 0 /\ Level[c] \in 0 .. 31
    BY LevelFacts
  <2>2. 1 .. 0 = {} /\ 1 .. 0 - 1 = {} /\ Level[c] =< Level[c]
    BY <2>1
  <2> QED BY <2>1, <2>2 DEF GoodStack
<1>10. MaskInv
  BY <1>1, LevelFacts DEF MaskInv, Order, MaskNow, MaskLater, RaisedContext, Active
<1> QED BY <1>2, <1>3, <1>4, <1>5, <1>6, <1>7, <1>8, <1>9, <1>10, TypeParts DEF Inv, MaskInv

LEMMA InitSpawnInv ==
  ASSUME Inv, NEW t \in SwTasks, NEW v \in Payloads, InitSpawn(t, v)
  PROVE  Inv'
<1> DEFINE i == Head(fq[t])
<1>1. TypeOK /\ Shape /\ InitAlone /\ Stacks /\ MaskInv
  BY DEF Inv, MaskInv
<1>2. i \in Indices(t) /\ Tail(fq[t]) \in Seq(Indices(t)) /\ Tail(fq[t]) \in Seq(Nat)
  BY <1>1, TailFacts, TypeParts DEF InitSpawn, FqType
<1>3. <<t, i>> \in Slots /\ <<t, i>> \in LevelSlots(Prio[t]) /\ Prio[t] \in Dispatchers
  BY <1>2, SlotFacts, LevelFacts
<1> HIDE DEF i
<1>4. PcType'
  BY <1>1, <1>3, TypeParts DEF InitSpawn, PcType, Handlers
<1>5. FqType'
  BY <1>1, <1>2, TypeParts DEF InitSpawn, FqType
<1>6. RqType'
  <2>1. rq' = [rq EXCEPT ![Prio[t]] = Append(rq[Prio[t]], <<t, i>>)]
    BY DEF InitSpawn, i
  <2>2. rq[Prio[t]] \in Seq(Slots) /\ rq[Prio[t]] \in Seq(LevelSlots(Prio[t]))
    BY <1>1, <1>3, TypeParts DEF RqType
  <2>3. Append(rq[Prio[t]], <<t, i>>) \in Seq(Slots) \cap Seq(LevelSlots(Prio[t]))
    BY <1>3, <2>2, AppendProperties
  <2> QED BY <1>1, <1>3, <2>1, <2>3, TypeParts DEF RqType
<1>7. InputType'
  BY <1>1, <1>3, TypeParts DEF InitSpawn, InputType, i
<1>8. UNCHANGED <<pc, masks, initial, atEntry, sp, job, budget>>
  BY DEF InitSpawn, saved, locals
<1>9. SameStatus
  BY <1>8 DEF SameStatus, Active
<1>10. Stacks' /\ MaskInv' /\ MaskType' /\ HeldType'
  BY <1>1, <1>8, <1>9, MasksKept DEF HeldType
<1>11. Shape' /\ InitAlone'
  BY <1>1, <1>8 DEF Shape, ShapeOf, User, Top, InitAlone, masks
<1>12. HeadsKept'
  <2>1. \A d \in Contexts : pc[d] # "fq"
    BY <1>1 DEF InitSpawn, InitAlone, Contexts
  <2> QED BY <1>8, <2>1 DEF HeadsKept
<1>13. SavedType' /\ LocalType'
  BY <1>1, <1>8, Unchanged DEF locals
<1> QED BY <1>4, <1>5, <1>6, <1>7, <1>10, <1>11, <1>12, <1>13, TypePartsNext DEF Inv, MaskInv

LEMMA StartIdleInv ==
  ASSUME Inv, StartIdle
  PROVE  Inv'
<1>1. TypeOK /\ Shape /\ InitAlone /\ HeadsKept /\ Stacks /\ MaskInv /\ Idle \in Contexts
  BY LevelFacts DEF Inv, MaskInv
<1>2. /\ UNCHANGED <<masks, initial, atEntry, pending, fq, rq, inputs, sp, job, held>>
      /\ pc' = [pc EXCEPT ![Idle] = "body"] /\ pc[Idle] = "init"
      /\ budget' = [budget EXCEPT ![Idle] = MaxOps]
  BY DEF StartIdle, saved, queues, masks, Goto
<1>3. pc \in [Contexts -> PC]
  BY <1>1 DEF TypeOK
<1>4. SameStatus
  BY <1>1, <1>2, <1>3 DEF SameStatus, Active
<1>5. Stacks' /\ MaskInv' /\ MaskType' /\ HeldType'
  BY <1>1, <1>2, <1>4, MasksKept DEF HeldType
<1>6. PcType' /\ LocalType'
  BY <1>1, <1>2, TypeParts, SpawnAssumption DEF PcType, LocalType, PC
<1>7. FqType' /\ RqType' /\ InputType' /\ SavedType'
  BY <1>1, <1>2, Unchanged
<1>8. Shape'
  <2>1. ShapeOf(Idle)'
    BY <1>1, <1>2, <1>3, LevelFacts DEF ShapeOf, UserCode, InSpawn, Handlers
  <2> QED BY <1>1, <1>2, <1>3, <2>1, ShapeStep
<1>9. InitAlone'
  BY <1>1, <1>2, <1>3 DEF InitAlone
<1>10. HeadsKept'
  BY <1>1, <1>2, <1>3, SameFq, HeadsStep
<1> QED BY <1>5, <1>6, <1>7, <1>8, <1>9, <1>10, TypePartsNext DEF Inv, MaskInv

LEMMA RaiseInv ==
  ASSUME Inv, NEW h \in HwTasks, Raise(h)
  PROVE  Inv'
<1>1. TypeOK /\ Shape /\ InitAlone /\ HeadsKept /\ Stacks /\ MaskInv
  BY DEF Inv, MaskInv
<1>2. /\ UNCHANGED <<pc, masks, initial, atEntry, fq, rq, inputs, sp, job, budget, held>>
      /\ pending' = pending \cup {h}
  BY DEF Raise, saved, queues, locals, masks
<1>3. SameStatus
  BY <1>2 DEF SameStatus, Active
<1>4. Stacks' /\ MaskInv' /\ MaskType' /\ HeldType'
  BY <1>1, <1>2, <1>3, MasksKept DEF HeldType
<1>5. PcType'
  BY <1>1, <1>2, TypeParts DEF PcType, Handlers
<1>6. FqType' /\ RqType' /\ InputType' /\ SavedType' /\ LocalType'
  BY <1>1, <1>2, Unchanged DEF locals
<1>7. Shape' /\ InitAlone' /\ HeadsKept'
  BY <1>1, <1>2 DEF Shape, ShapeOf, User, Top, InitAlone, HeadsKept
<1> QED BY <1>4, <1>5, <1>6, <1>7, TypePartsNext DEF Inv, MaskInv

LEMMA TakeInv ==
  ASSUME ContiguousSgis, Inv, NEW c \in Handlers, Take(c)
  PROVE  Inv'
<1>1. /\ TypeOK /\ Shape /\ InitAlone /\ HeadsKept /\ Stacks /\ MaskInv /\ Deliverable(c)
      /\ c \in Contexts /\ c # Idle /\ Order /\ MaskNow /\ MaskLater
  BY LevelFacts DEF Inv, MaskInv, Take, Contexts
<1>2. /\ UNCHANGED <<pmr, held, initial, fq, rq, inputs, sp, job, budget>>
      /\ pc' = [pc EXCEPT ![c] = "entry"]
      /\ dyn' = [dyn EXCEPT ![c] = Level[c]]
      /\ pending' = pending \ {c}
      /\ atEntry' = [atEntry EXCEPT ![c] = pmr]
  BY DEF Take, queues, locals, Goto
<1>3. \A d \in Contexts : Active(d) => Level[d] < Level[c] /\ dyn[d] < Level[c]
  BY <1>1, TakenIsAbove
<1>4. ~ Active(c) /\ \A d \in Contexts : Level[d] \in 0 .. 31
  BY <1>1, <1>3, LevelFacts
<1>5. held[c] = <<>> /\ dyn[c] = Level[c]
  BY <1>1, <1>4 DEF Shape, ShapeOf, Stacks, StackOf, GoodStack, Active, UserCode
<1>6. dyn' = dyn
  BY <1>1, <1>2, <1>5 DEF TypeOK
<1>7. /\ pc \in [Contexts -> PC] /\ pc'[c] = "entry"
      /\ \A d \in Contexts \ {c} : pc'[d] = pc[d]
  BY <1>1, <1>2 DEF TypeOK
<1>8. PcType' /\ SavedType'
  BY <1>1, <1>2, TypeParts DEF PcType, SavedType, PC, MaskType
<1>9. HeldType' /\ MaskType'
  BY <1>1, <1>2, <1>6, TypeParts DEF HeldType, MaskType
<1>10. FqType' /\ RqType' /\ InputType' /\ LocalType'
  BY <1>1, <1>2, Unchanged DEF locals
<1>11. Stacks'
  BY <1>1, <1>2, <1>6 DEF Stacks, StackOf, GoodStack, Raised
<1>12. Order'
  <2> SUFFICES ASSUME NEW a \in Contexts, NEW b \in Contexts, Active(a)', Active(b)', a # b
               PROVE  Level[a] # Level[b] /\ (Level[a] < Level[b] => dyn[a] < Level[b])
    BY <1>6 DEF Order
  <2>1. CASE a = c
    BY <1>3, <1>4, <1>7, <2>1 DEF Active
  <2>2. CASE b = c
    BY <1>3, <1>4, <1>7, <2>2 DEF Active
  <2>3. CASE a # c /\ b # c
    BY <1>1, <1>7, <2>3 DEF Active, Order
  <2> QED BY <2>1, <2>2, <2>3
<1>13. MaskNow' /\ MaskLater'
  <2>1. \A b \in Contexts : RaisedContext(b)' => b # c /\ RaisedContext(b) /\ dyn'[b] = dyn[b]
    <3> SUFFICES ASSUME NEW b \in Contexts, pc'[b] # "off", dyn[b] > Level[b]
                 PROVE  b # c /\ pc[b] # "off"
      BY <1>6 DEF RaisedContext, Active
    <3>1. b # c
      <4> SUFFICES ASSUME b = c PROVE FALSE
        OBVIOUS
      <4>1. dyn[c] > Level[c] /\ dyn[c] = Level[c] /\ Level[c] \in 0 .. 31
        BY <1>1, <1>4, <1>5
      <4> QED BY ONLY <4>1
    <3> QED BY <1>7, <3>1
  <2>2. MaskNow'
    BY <1>1, <1>2, <2>1 DEF MaskNow
  <2>3. MaskLater'
    BY <1>1, <1>2, <1>7, <2>1 DEF MaskLater, Active
  <2> QED BY <2>2, <2>3
<1>14. Shape'
  <2>1. ShapeOf(c)'
    BY <1>1, <1>2, <1>5, <1>7 DEF ShapeOf, UserCode, InSpawn
  <2> QED BY <1>1, <1>2, <1>7, <2>1, ShapeStep
<1>15. InitAlone'
  BY <1>1, <1>7, LevelFacts DEF InitAlone, Deliverable, Contexts
<1>16. HeadsKept'
  BY <1>1, <1>2, <1>7, SameFq, HeadsStep
<1> QED BY <1>8, <1>9, <1>10, <1>11, <1>12, <1>13, <1>14, <1>15, <1>16, TypePartsNext DEF Inv

-----------------------------------------------------------------------------
(* The steps of a context. *)

LEMMA GotoFacts ==
  ASSUME Inv, NEW c \in Contexts, NEW to \in PC \ {"init", "off"},
         Active(c), Goto(c, to)
  PROVE  /\ pc \in [Contexts -> PC] /\ pc' \in [Contexts -> PC]
         /\ pc'[c] = to
         /\ \A d \in Contexts \ {c} : pc'[d] = pc[d]
         /\ InitAlone'
         /\ pc[c] # "entry" /\ to # "entry" => SameStatus
<1>1. TypeOK /\ InitAlone /\ pc \in [Contexts -> PC] /\ pc' = [pc EXCEPT ![c] = to]
  BY DEF Inv, TypeOK, Goto
<1>2. InitAlone'
  BY <1>1, AloneStep
<1>3. pc[c] # "entry" /\ to # "entry" => SameStatus
  BY <1>1 DEF SameStatus, Active
<1> QED BY <1>1, <1>2, <1>3

LEMMA RunEnterInv ==
  ASSUME ContiguousSgis, Inv, NEW c \in Contexts, RunEnter(c)
  PROVE  Inv'
<1> DEFINE to == IF c \in Dispatchers THEN "poll" ELSE "body"
<1>1. /\ TypeOK /\ Shape /\ HeadsKept /\ Stacks /\ Order /\ MaskNow /\ MaskLater
      /\ Running(c) /\ Active(c) /\ pc[c] = "entry"
  BY DEF Inv, RunEnter, At, Running
<1>2. /\ UNCHANGED <<pending, pmr, dyn, held, atEntry, sp, job, fq, rq, inputs>>
      /\ initial' = [initial EXCEPT ![c] = IF Level[c] = 1 THEN initial[c] ELSE pmr]
      /\ Goto(c, to)
      /\ budget' = budget \/ budget' = [budget EXCEPT ![c] = MaxOps]
  BY DEF RunEnter, masks, queues
<1>3. /\ pc \in [Contexts -> PC] /\ pc' \in [Contexts -> PC] /\ pc'[c] = to
      /\ \A d \in Contexts \ {c} : pc'[d] = pc[d]
      /\ InitAlone'
  BY <1>1, <1>2, GotoFacts DEF PC
<1>4. \A d \in Contexts : Active(d)' <=> Active(d)
  BY <1>1, <1>3 DEF Active
<1>5. PcType' /\ SavedType' /\ LocalType'
  BY <1>1, <1>2, <1>3, TypeParts, SpawnAssumption DEF PcType, SavedType, LocalType, MaskType
<1>6. HeldType' /\ MaskType' /\ FqType' /\ RqType' /\ InputType'
  BY <1>1, <1>2, TypeParts, Unchanged DEF HeldType, MaskType
<1>7. Stacks' /\ Order'
  BY <1>1, <1>2, <1>4 DEF Stacks, StackOf, GoodStack, Raised, Order
<1>8. MaskNow'
  BY <1>1, <1>2, <1>4 DEF MaskNow, RaisedContext
<1>9. MaskLater'
  <2> SUFFICES ASSUME NEW b \in Contexts, NEW d \in Contexts, RaisedContext(b), Active(d),
                      Level[b] < Level[d], pc'[d] # "entry", Level[d] # 1
               PROVE  initial'[d] =< logical2hw(dyn[b])
    BY <1>2, <1>4 DEF MaskLater, RaisedContext
  <2>1. CASE d = c
    <3>1. initial'[c] = pmr
      BY <1>1, <1>2, <2>1 DEF TypeOK
    <3> QED BY <1>1, <2>1, <3>1 DEF MaskNow
  <2>2. CASE d # c
    <3>1. initial'[d] = initial[d] /\ pc'[d] = pc[d]
      BY <1>1, <1>2, <1>3, <2>2 DEF TypeOK
    <3> QED BY <1>1, <3>1 DEF MaskLater
  <2> QED BY <2>1, <2>2
<1>10. Shape'
  <2>1. c # Idle
    BY <1>1 DEF Shape, ShapeOf, UserCode
  <2>2. ShapeOf(c)'
    BY <1>1, <1>2, <1>3, <2>1 DEF Shape, ShapeOf, UserCode, InSpawn
  <2> QED BY <1>1, <1>2, <1>3, <2>2, ShapeStep
<1>11. HeadsKept'
  BY <1>1, <1>2, <1>3, SameFq, HeadsStep
<1> QED BY <1>3, <1>5, <1>6, <1>7, <1>8, <1>9, <1>10, <1>11, TypePartsNext DEF Inv

LEMMA RunLeaveInv ==
  ASSUME ContiguousSgis, Inv, NEW c \in Contexts, RunLeave(c)
  PROVE  Inv'
<1>1. /\ TypeOK /\ Shape /\ HeadsKept /\ Stacks /\ Order /\ MaskNow /\ MaskLater
      /\ Running(c) /\ Active(c) /\ pc[c] = "exit"
  BY DEF Inv, RunLeave, At, Running
<1>2. /\ UNCHANGED <<pending, dyn, held, initial, atEntry, budget, sp, job, fq, rq, inputs>>
      /\ pmr' = IF Level[c] = 1 THEN logical2hw(IDLE_PRIORITY) ELSE initial[c]
      /\ Goto(c, "eoi")
  BY DEF RunLeave, saved, queues, locals
<1>3. /\ pc \in [Contexts -> PC] /\ pc' \in [Contexts -> PC] /\ pc'[c] = "eoi"
      /\ \A d \in Contexts \ {c} : pc'[d] = pc[d]
      /\ InitAlone' /\ SameStatus
  BY <1>1, <1>2, GotoFacts DEF PC
<1>4. PcType' /\ SavedType' /\ LocalType' /\ FqType' /\ RqType' /\ InputType'
  BY <1>1, <1>2, <1>3, TypeParts, Unchanged DEF PcType, locals
<1>5. HeldType' /\ MaskType'
  BY <1>1, <1>2, TypeParts
  DEF HeldType, MaskType, SavedType, PmrValues, IDLE_PRIORITY, MAX_PRIORITY
<1>6. Stacks' /\ Order'
  BY <1>1, <1>2, <1>3 DEF Stacks, StackOf, GoodStack, Raised, Order, SameStatus
<1>7. MaskNow'
  <2> SUFFICES ASSUME NEW b \in Contexts, RaisedContext(b) PROVE pmr' =< logical2hw(dyn[b])
    BY <1>2, <1>3 DEF MaskNow, RaisedContext, SameStatus
  <2>1. Level[c] \in 0 .. 31 /\ Level[b] \in 0 .. 31 /\ dyn[b] \in 0 .. 31 /\ dyn[b] > Level[b]
    BY <1>1, LevelFacts DEF TypeOK, MAX_PRIORITY, RaisedContext
  <2>2. b # c
    <3>1. dyn[c] = Level[c]
      BY <1>1 DEF Shape, ShapeOf, UserCode, Stacks, StackOf, GoodStack
    <3> QED BY <2>1, <3>1
  <2>3. Level[b] < Level[c] /\ dyn[b] < Level[c]
    BY <1>1, <2>2, RunningIsAbove DEF RaisedContext, Order
  <2>4. Level[c] # 1
    BY <2>1, <2>3
  <2>5. pmr' = initial[c]
    BY <1>2, <2>4
  <2> QED BY <1>1, <2>3, <2>4, <2>5 DEF MaskLater
<1>8. MaskLater'
  BY <1>1, <1>2, <1>3 DEF MaskLater, RaisedContext, SameStatus
<1>9. Shape'
  <2>1. ShapeOf(c)'
    BY <1>1, <1>2, <1>3 DEF Shape, ShapeOf, UserCode, InSpawn
  <2> QED BY <1>1, <1>2, <1>3, <2>1, ShapeStep
<1>10. HeadsKept'
  BY <1>1, <1>2, <1>3, SameFq, HeadsStep
<1> QED BY <1>3, <1>4, <1>5, <1>6, <1>7, <1>8, <1>9, <1>10, TypePartsNext DEF Inv

LEMMA EndOfInterruptInv ==
  ASSUME Inv, NEW c \in Contexts, EndOfInterrupt(c)
  PROVE  Inv'
<1>1. /\ TypeOK /\ Shape /\ InitAlone /\ HeadsKept /\ Stacks /\ Order /\ MaskNow /\ MaskLater
      /\ pc[c] = "eoi"
  BY DEF Inv, EndOfInterrupt, At
<1>2. /\ UNCHANGED <<pending, pmr, dyn, held, budget, sp, job, fq, rq, inputs>>
      /\ pc' = [pc EXCEPT ![c] = "off"]
      /\ initial' = [initial EXCEPT ![c] = logical2hw(IDLE_PRIORITY)]
      /\ atEntry' = [atEntry EXCEPT ![c] = logical2hw(IDLE_PRIORITY)]
  BY DEF EndOfInterrupt, masks, queues, locals, Goto
<1>3. /\ pc \in [Contexts -> PC] /\ pc'[c] = "off"
      /\ \A d \in Contexts \ {c} : pc'[d] = pc[d]
      /\ \A d \in Contexts : Active(d)' => Active(d) /\ d # c
  BY <1>1, <1>2 DEF TypeOK, Active
<1>4. PcType' /\ SavedType'
  BY <1>1, <1>2, TypeParts DEF PcType, SavedType, PC, PmrValues, IDLE_PRIORITY, MAX_PRIORITY
<1>5. HeldType' /\ MaskType' /\ LocalType' /\ FqType' /\ RqType' /\ InputType'
  BY <1>1, <1>2, TypeParts, Unchanged DEF HeldType, MaskType, locals
<1>6. Stacks' /\ Order' /\ MaskNow'
  BY <1>1, <1>2, <1>3 DEF Stacks, StackOf, GoodStack, Raised, Order, MaskNow, RaisedContext
<1>7. MaskLater'
  <2> SUFFICES ASSUME NEW b \in Contexts, NEW d \in Contexts, RaisedContext(b)', Active(d)',
                      Level[b] < Level[d], pc'[d] # "entry", Level[d] # 1
               PROVE  initial'[d] =< logical2hw(dyn[b])
    BY <1>2 DEF MaskLater, RaisedContext
  <2>1. d # c /\ pc'[d] = pc[d] /\ Active(d) /\ RaisedContext(b)
    BY <1>2, <1>3 DEF RaisedContext
  <2>2. initial'[d] = initial[d]
    BY <1>1, <1>2, <2>1 DEF TypeOK
  <2> QED BY <1>1, <2>1, <2>2 DEF MaskLater
<1>8. Shape'
  <2>1. ShapeOf(c)'
    BY <1>1, <1>2, <1>3 DEF Shape, ShapeOf, UserCode, InSpawn
  <2> QED BY <1>1, <1>2, <1>3, <2>1, ShapeStep
<1>9. HeadsKept' /\ InitAlone'
  BY <1>1, <1>2, <1>3, SameFq, HeadsStep DEF InitAlone, Contexts
<1> QED BY <1>4, <1>5, <1>6, <1>7, <1>8, <1>9, TypePartsNext DEF Inv

LEMMA LockInv ==
  ASSUME ContiguousSgis, Inv, NEW c \in Contexts, NEW r \in Resources, Lock(c, r)
  PROVE  Inv'
<1>1. /\ TypeOK /\ Shape /\ InitAlone /\ HeadsKept /\ Stacks /\ MaskInv
      /\ Running(c) /\ pc[c] = "body" /\ r \in Uses[User(c)]
  BY DEF Inv, MaskInv, Lock, At
<1>2. /\ UNCHANGED <<pc, pending, initial, atEntry, sp, job, fq, rq, inputs>>
      /\ budget' = [budget EXCEPT ![c] = @ - 1] /\ budget[c] > 0
      /\ Enter(c, r)
  BY DEF Lock, saved, queues
<1>3. r \in Objects /\ Level[c] =< Ceiling[r]
  BY <1>1, UserLevel, ObjectFacts, CeilingAssumption DEF UserCode
<1>4. MaskMove(c) /\ HeldMove(c) /\ Stacks'
  BY <1>1, <1>2, <1>3, EnterFacts
<1>5. SameStatus
  BY <1>2 DEF SameStatus, Active
<1>6. MaskInv' /\ MaskType' /\ HeldType'
  BY <1>1, <1>2, <1>4, <1>5, MaskMoveKeeps DEF HeldMove, HeldType
<1>7. PcType' /\ LocalType'
  BY <1>1, <1>2, TypeParts, SpawnAssumption DEF PcType, LocalType
<1>8. SavedType' /\ FqType' /\ RqType' /\ InputType'
  BY <1>1, <1>2, Unchanged
<1>9. Shape'
  <2>1. ShapeOf(c)'
    BY <1>1, <1>2 DEF Shape, ShapeOf, UserCode, InSpawn
  <2> QED BY <1>1, <1>2, <1>4, <2>1, ShapeStep DEF HeldMove
<1>10. InitAlone' /\ HeadsKept'
  BY <1>1, <1>2 DEF InitAlone, HeadsKept
<1> QED BY <1>4, <1>6, <1>7, <1>8, <1>9, <1>10, TypePartsNext DEF Inv, MaskInv

LEMMA UnlockInv ==
  ASSUME ContiguousSgis, Inv, NEW c \in Contexts, Unlock(c)
  PROVE  Inv'
<1>1. /\ TypeOK /\ Shape /\ InitAlone /\ HeadsKept /\ Stacks /\ MaskInv
      /\ Running(c) /\ pc[c] = "body" /\ held[c] # <<>>
  BY DEF Inv, MaskInv, Unlock, At
<1>2. UNCHANGED <<pc, pending, initial, atEntry, budget, sp, job, fq, rq, inputs>> /\ Leave(c)
  BY DEF Unlock, saved, queues, locals
<1>3. MaskMove(c) /\ HeldMove(c) /\ Stacks'
  BY <1>1, <1>2, LeaveFacts
<1>4. SameStatus
  BY <1>2 DEF SameStatus, Active
<1>5. MaskInv' /\ MaskType' /\ HeldType'
  BY <1>1, <1>2, <1>3, <1>4, MaskMoveKeeps DEF HeldMove, HeldType
<1>6. PcType' /\ LocalType' /\ SavedType' /\ FqType' /\ RqType' /\ InputType'
  BY <1>1, <1>2, TypeParts, Unchanged DEF PcType, locals
<1>7. Shape'
  <2>1. ShapeOf(c)'
    BY <1>1, <1>2 DEF Shape, ShapeOf, UserCode, InSpawn
  <2> QED BY <1>1, <1>2, <1>3, <2>1, ShapeStep DEF HeldMove
<1>8. InitAlone' /\ HeadsKept'
  BY <1>1, <1>2 DEF InitAlone, HeadsKept
<1> QED BY <1>3, <1>5, <1>6, <1>7, <1>8, TypePartsNext DEF Inv, MaskInv

LEMMA SpawnBeginInv ==
  ASSUME ContiguousSgis, Inv, NEW c \in Contexts, NEW t \in SwTasks, NEW v \in Payloads,
         SpawnBegin(c, t, v)
  PROVE  Inv'
<1> DEFINE i == IF fq[t] = <<>> THEN None ELSE Head(fq[t])
           l == [task |-> t, payload |-> v, index |-> i]
<1>1. /\ TypeOK /\ Shape /\ InitAlone /\ HeadsKept /\ Stacks /\ MaskInv
      /\ Running(c) /\ Active(c) /\ pc[c] = "body" /\ t \in Spawns[User(c)]
  BY DEF Inv, MaskInv, SpawnBegin, At, Running
<1>2. /\ UNCHANGED <<pending, initial, atEntry, job, fq, rq, inputs>>
      /\ budget' = [budget EXCEPT ![c] = @ - 1] /\ budget[c] > 0
      /\ sp' = [sp EXCEPT ![c] = l]
      /\ Goto(c, "fq") /\ Enter(c, FQ(t))
  BY DEF SpawnBegin, saved, queues
<1>3. FQ(t) \in Objects /\ Level[c] =< Ceiling[FQ(t)]
  BY <1>1, UserLevel, ObjectFacts, CeilingAssumption DEF UserCode
<1>4. MaskMove(c) /\ HeldMove(c) /\ Stacks' /\ held'[c] # <<>> /\ Top(c)'.obj = FQ(t)
  BY <1>1, <1>2, <1>3, EnterFacts
<1>5. /\ pc \in [Contexts -> PC] /\ pc' \in [Contexts -> PC] /\ pc'[c] = "fq"
      /\ \A d \in Contexts \ {c} : pc'[d] = pc[d]
      /\ InitAlone' /\ SameStatus
  BY <1>1, <1>2, GotoFacts DEF PC
<1>6. MaskInv' /\ MaskType' /\ HeldType'
  BY <1>1, <1>2, <1>4, <1>5, MaskMoveKeeps DEF HeldMove, HeldType
<1>7. i \in Nat \cup {None}
  BY <1>1, TailFacts, TypeParts DEF FqType
<1> HIDE DEF i
<1>8. l \in SpawnLocals /\ l.task = t /\ l.index = i
  BY <1>7 DEF SpawnLocals
<1> HIDE DEF l
<1>9. sp \in [Contexts -> SpawnLocals \cup {None}] /\ sp'[c] = l /\ \A d \in Contexts \ {c} : sp'[d] = sp[d]
  BY <1>1, <1>2 DEF TypeOK
<1>10. PcType'
  BY <1>1, <1>2, <1>5, TypeParts DEF PcType
<1>11. LocalType'
  BY <1>1, <1>2, <1>8, TypeParts, SpawnAssumption DEF LocalType
<1>12. SavedType' /\ FqType' /\ RqType' /\ InputType'
  BY <1>1, <1>2, Unchanged
<1>13. Shape'
  <2>1. ShapeOf(c)
    BY <1>1 DEF Shape
  <2>2. User(c)' = User(c)
    BY <1>2 DEF User
  <2>3. ShapeOf(c)'
    BY <1>1, <1>2, <1>4, <1>5, <1>8, <1>9, <2>1, <2>2 DEF ShapeOf, UserCode, InSpawn
  <2> QED BY <1>1, <1>2, <1>4, <1>5, <1>9, <2>3, ShapeStep DEF HeldMove
<1>14. HeadsKept'
  <2> SUFFICES ASSUME NEW d \in Contexts, pc'[d] = "fq", sp'[d].index # None
               PROVE  fq[sp'[d].task] # <<>> /\ Head(fq[sp'[d].task]) = sp'[d].index
    BY <1>2 DEF HeadsKept
  <2>1. CASE d = c
    BY <1>8, <1>9, <2>1 DEF i
  <2>2. CASE d # c
    BY <1>1, <1>5, <1>9, <2>2 DEF HeadsKept
  <2> QED BY <2>1, <2>2
<1> QED BY <1>4, <1>5, <1>6, <1>10, <1>11, <1>12, <1>13, <1>14, TypePartsNext DEF Inv, MaskInv

LEMMA SpawnDequeueInv ==
  ASSUME ContiguousSgis, Inv, NEW c \in Contexts, SpawnDequeue(c)
  PROVE  Inv'
<1> DEFINE t == sp[c].task
           to == IF sp[c].index = None THEN "body" ELSE "input"
<1>1. /\ TypeOK /\ Shape /\ InitAlone /\ HeadsKept /\ Stacks /\ MaskInv /\ Order
      /\ Running(c) /\ Active(c) /\ pc[c] = "fq"
  BY DEF Inv, MaskInv, SpawnDequeue, At, Running
<1>2. /\ ShapeOf(c) /\ held[c] # <<>> /\ Top(c).obj = FQ(t)
      /\ sp[c] \in SpawnLocals /\ t \in SwTasks
  BY <1>1 DEF Shape, ShapeOf, InSpawn, UserCode, SpawnLocals
<1>3. /\ UNCHANGED <<pending, initial, atEntry, budget, job, rq, inputs>>
      /\ Goto(c, to) /\ Leave(c)
  BY DEF SpawnDequeue, saved
<1>4. IF sp[c].index = None
        THEN sp' = [sp EXCEPT ![c] = None] /\ fq' = fq
        ELSE sp' = sp /\ fq' = [fq EXCEPT ![t] = Tail(@)]
  BY DEF SpawnDequeue
<1>5. MaskMove(c) /\ HeldMove(c) /\ Stacks'
  BY <1>1, <1>2, <1>3, LeaveFacts
<1>6. /\ pc \in [Contexts -> PC] /\ pc' \in [Contexts -> PC] /\ pc'[c] = to
      /\ \A d \in Contexts \ {c} : pc'[d] = pc[d]
      /\ InitAlone' /\ SameStatus
  BY <1>1, <1>3, GotoFacts DEF PC
<1>7. MaskInv' /\ MaskType' /\ HeldType'
  BY <1>1, <1>3, <1>5, <1>6, MaskMoveKeeps DEF HeldMove, HeldType
<1>8. PcType'
  BY <1>1, <1>3, <1>6, TypeParts DEF PcType
<1>9. LocalType' /\ \A d \in Contexts \ {c} : sp'[d] = sp[d]
  BY <1>1, <1>3, <1>4, TypeParts DEF LocalType
<1>10. sp[c].index # None => fq[t] # <<>> /\ Head(fq[t]) = sp[c].index
  BY <1>1 DEF HeadsKept
<1>11. FqType' /\ \A x \in SwTasks \ {t} : fq'[x] = fq[x]
  <2>1. FqType
    BY <1>1, TypeParts
  <2>2. CASE sp[c].index = None
    BY <1>4, <2>1, <2>2 DEF FqType
  <2>3. CASE sp[c].index # None
    <3>1. fq[t] \in Seq(Nat) /\ fq[t] \in Seq(Indices(t)) /\ fq[t] # <<>>
      BY <1>2, <1>10, <2>1, <2>3 DEF FqType
    <3>2. Tail(fq[t]) \in Seq(Nat) /\ Tail(fq[t]) \in Seq(Indices(t))
      BY <3>1, TailFacts
    <3>3. fq' = [fq EXCEPT ![t] = Tail(fq[t])]
      BY <1>4, <2>3
    <3> QED BY <1>2, <2>1, <3>2, <3>3 DEF FqType
  <2> QED BY <2>2, <2>3
<1>12. sp[c].index # None => sp[c].index \in Indices(t)
  BY <1>1, <1>2, <1>10, TailFacts, TypeParts DEF FqType
<1>13. SavedType' /\ RqType' /\ InputType'
  BY <1>1, <1>3, Unchanged
<1>14. Shape'
  <2>1. User(c)' = User(c)
    BY <1>3 DEF User
  <2>2. c \in Dispatchers => job'[c] \in JobLocals /\ Prio[job'[c].slot[1]] = c
    BY <1>1, <1>2, <1>3 DEF ShapeOf, UserCode
  <2>3. ShapeOf(c)'
    <3>1. CASE sp[c].index = None
      BY <1>6, <2>2, <3>1 DEF ShapeOf, UserCode, InSpawn
    <3>2. CASE sp[c].index # None
      <4>1. sp' = sp /\ pc'[c] = "input" /\ sp[c].task \in Spawns[User(c)]
        BY <1>1, <1>2, <1>4, <1>6, <3>2 DEF ShapeOf, InSpawn, UserCode
      <4> QED BY <1>2, <1>12, <2>1, <2>2, <3>2, <4>1 DEF ShapeOf, UserCode, InSpawn
    <3> QED BY <3>1, <3>2
  <2> QED BY <1>1, <1>3, <1>5, <1>6, <1>9, <2>3, ShapeStep DEF HeldMove
<1>15. HeadsKept'
  <2> SUFFICES ASSUME NEW d \in Contexts, pc'[d] = "fq", sp'[d].index # None
               PROVE  fq'[sp'[d].task] # <<>> /\ Head(fq'[sp'[d].task]) = sp'[d].index
    BY DEF HeadsKept
  <2>1. d # c
    BY <1>6
  <2>2. pc[d] = "fq" /\ sp'[d] = sp[d]
    BY <1>6, <1>9, <2>1
  <2>3. /\ held[d] # <<>> /\ Top(d).obj = FQ(sp[d].task)
        /\ sp[d] \in SpawnLocals /\ sp[d].task \in SwTasks
    BY <1>1, <2>2 DEF Shape, ShapeOf, InSpawn, UserCode, SpawnLocals
  <2>4. sp[d].task # t
    <3> SUFFICES ASSUME sp[d].task = t PROVE FALSE
      OBVIOUS
    <3>1. \A e \in {c, d} : Holds(e, FQ(t))
      <4> SUFFICES ASSUME NEW e \in {c, d} PROVE Holds(e, FQ(t))
        OBVIOUS
      <4>1. held[e] \in Seq(LockFrame) /\ held[e] # <<>> /\ Top(e).obj = FQ(t)
        BY <1>1, <1>2, <2>3 DEF TypeOK
      <4>2. Len(held[e]) \in DOMAIN held[e]
        BY <4>1, LenProperties, EmptySeq
      <4> QED BY <4>1, <4>2 DEF Holds, Top
    <3>2. MutualExclusion
      BY <1>1, Exclusion
    <3> QED BY <1>2, <2>1, <3>1, <3>2, ObjectFacts DEF MutualExclusion
  <2> QED BY <1>1, <1>11, <2>2, <2>3, <2>4 DEF HeadsKept
<1> QED BY <1>5, <1>6, <1>7, <1>8, <1>9, <1>11, <1>13, <1>14, <1>15, TypePartsNext DEF Inv, MaskInv

LEMMA SpawnWriteInv ==
  ASSUME ContiguousSgis, Inv, NEW c \in Contexts, SpawnWrite(c)
  PROVE  Inv'
<1> DEFINE t == sp[c].task
<1>1. /\ TypeOK /\ Shape /\ HeadsKept /\ Stacks /\ MaskInv
      /\ Running(c) /\ Active(c) /\ pc[c] = "input"
  BY DEF Inv, MaskInv, SpawnWrite, At, Running
<1>2. /\ ShapeOf(c) /\ sp[c] \in SpawnLocals /\ t \in SwTasks /\ t \in Spawns[User(c)]
      /\ SpSlot(c) \in Slots /\ sp[c].payload \in Payloads
  BY <1>1, SlotFacts DEF Shape, ShapeOf, InSpawn, UserCode, SpawnLocals, SpSlot
<1>3. /\ UNCHANGED <<pending, initial, atEntry, budget, sp, job, fq, rq>>
      /\ inputs' = [inputs EXCEPT ![SpSlot(c)] = sp[c].payload]
      /\ Goto(c, "rq") /\ Enter(c, RQ(Prio[t]))
  BY DEF SpawnWrite, saved, locals
<1>4. RQ(Prio[t]) \in Objects /\ Level[c] =< Ceiling[RQ(Prio[t])]
  BY <1>1, <1>2, UserLevel, ObjectFacts, CeilingAssumption DEF UserCode
<1>5. MaskMove(c) /\ HeldMove(c) /\ Stacks' /\ held'[c] # <<>> /\ Top(c)'.obj = RQ(Prio[t])
  BY <1>1, <1>3, <1>4, EnterFacts
<1>6. /\ pc \in [Contexts -> PC] /\ pc' \in [Contexts -> PC] /\ pc'[c] = "rq"
      /\ \A d \in Contexts \ {c} : pc'[d] = pc[d]
      /\ InitAlone' /\ SameStatus
  BY <1>1, <1>3, GotoFacts DEF PC
<1>7. MaskInv' /\ MaskType' /\ HeldType'
  BY <1>1, <1>3, <1>5, <1>6, MaskMoveKeeps DEF HeldMove, HeldType
<1>8. PcType' /\ LocalType' /\ SavedType' /\ FqType' /\ RqType'
  BY <1>1, <1>3, <1>6, TypeParts, Unchanged DEF PcType, locals
<1>9. InputType'
  BY <1>1, <1>2, <1>3, TypeParts DEF InputType
<1>10. Shape'
  <2>1. User(c)' = User(c)
    BY <1>3 DEF User
  <2>2. ShapeOf(c)'
    BY <1>1, <1>2, <1>3, <1>5, <1>6, <2>1 DEF ShapeOf, UserCode, InSpawn
  <2> QED BY <1>1, <1>3, <1>5, <1>6, <2>2, ShapeStep DEF HeldMove
<1>11. HeadsKept'
  BY <1>1, <1>3, <1>6, SameFq, HeadsStep
<1> QED BY <1>5, <1>6, <1>7, <1>8, <1>9, <1>10, <1>11, TypePartsNext DEF Inv, MaskInv

LEMMA SpawnEnqueueInv ==
  ASSUME ContiguousSgis, Inv, NEW c \in Contexts, SpawnEnqueue(c)
  PROVE  Inv'
<1> DEFINE t == sp[c].task
<1>1. /\ TypeOK /\ Shape /\ HeadsKept /\ Stacks /\ MaskInv
      /\ Running(c) /\ Active(c) /\ pc[c] = "rq"
  BY DEF Inv, MaskInv, SpawnEnqueue, At, Running
<1>2. /\ ShapeOf(c) /\ sp[c] \in SpawnLocals /\ t \in SwTasks /\ t \in Spawns[User(c)]
      /\ SpSlot(c) \in Slots /\ SpSlot(c) \in LevelSlots(Prio[t])
      /\ held[c] # <<>> /\ Prio[t] \in Dispatchers
  BY <1>1, SlotFacts, LevelFacts DEF Shape, ShapeOf, InSpawn, UserCode, SpawnLocals, SpSlot
<1>3. /\ UNCHANGED <<pending, initial, atEntry, budget, sp, job, fq, inputs>>
      /\ rq' = [rq EXCEPT ![Prio[t]] = Append(rq[Prio[t]], SpSlot(c))]
      /\ Goto(c, "pend") /\ Leave(c)
  BY DEF SpawnEnqueue, saved, locals
<1>4. MaskMove(c) /\ HeldMove(c) /\ Stacks'
  BY <1>1, <1>2, <1>3, LeaveFacts
<1>5. /\ pc \in [Contexts -> PC] /\ pc' \in [Contexts -> PC] /\ pc'[c] = "pend"
      /\ \A d \in Contexts \ {c} : pc'[d] = pc[d]
      /\ InitAlone' /\ SameStatus
  BY <1>1, <1>3, GotoFacts DEF PC
<1>6. MaskInv' /\ MaskType' /\ HeldType'
  BY <1>1, <1>3, <1>4, <1>5, MaskMoveKeeps DEF HeldMove, HeldType
<1>7. PcType' /\ LocalType' /\ SavedType' /\ FqType' /\ InputType'
  BY <1>1, <1>3, <1>5, TypeParts, Unchanged DEF PcType, locals
<1>8. RqType'
  <2>1. rq[Prio[t]] \in Seq(Slots) /\ rq[Prio[t]] \in Seq(LevelSlots(Prio[t]))
    BY <1>1, <1>2, TypeParts DEF RqType
  <2>2. Append(rq[Prio[t]], SpSlot(c)) \in Seq(Slots) \cap Seq(LevelSlots(Prio[t]))
    BY <1>2, <2>1, AppendProperties
  <2> QED BY <1>1, <1>2, <1>3, <2>2, TypeParts DEF RqType
<1>9. Shape'
  <2>1. User(c)' = User(c)
    BY <1>3 DEF User
  <2>2. ShapeOf(c)'
    BY <1>1, <1>2, <1>3, <1>5, <2>1 DEF ShapeOf, UserCode, InSpawn
  <2> QED BY <1>1, <1>3, <1>4, <1>5, <2>2, ShapeStep DEF HeldMove
<1>10. HeadsKept'
  BY <1>1, <1>3, <1>5, SameFq, HeadsStep
<1> QED BY <1>4, <1>5, <1>6, <1>7, <1>8, <1>9, <1>10, TypePartsNext DEF Inv, MaskInv

LEMMA SpawnPendInv ==
  ASSUME Inv, NEW c \in Contexts, SpawnPend(c)
  PROVE  Inv'
<1>1. /\ TypeOK /\ Shape /\ HeadsKept /\ Stacks /\ MaskInv
      /\ Running(c) /\ Active(c) /\ pc[c] = "pend"
  BY DEF Inv, MaskInv, SpawnPend, At, Running
<1>2. ShapeOf(c) /\ sp[c] \in SpawnLocals /\ Prio[sp[c].task] \in Dispatchers
  BY <1>1, LevelFacts DEF Shape, ShapeOf, InSpawn, UserCode, SpawnLocals
<1>3. /\ UNCHANGED <<masks, held, initial, atEntry, budget, job, fq, rq, inputs>>
      /\ pending' = pending \cup {Prio[sp[c].task]}
      /\ sp' = [sp EXCEPT ![c] = None]
      /\ Goto(c, "body")
  BY DEF SpawnPend, saved, queues, masks
<1>4. /\ pc \in [Contexts -> PC] /\ pc' \in [Contexts -> PC] /\ pc'[c] = "body"
      /\ \A d \in Contexts \ {c} : pc'[d] = pc[d]
      /\ InitAlone' /\ SameStatus
  BY <1>1, <1>3, GotoFacts DEF PC
<1>5. Stacks' /\ MaskInv' /\ MaskType' /\ HeldType'
  BY <1>1, <1>3, <1>4, MasksKept DEF HeldType
<1>6. PcType' /\ LocalType' /\ \A d \in Contexts \ {c} : sp'[d] = sp[d]
  BY <1>1, <1>2, <1>3, <1>4, TypeParts DEF PcType, LocalType, Handlers
<1>7. SavedType' /\ FqType' /\ RqType' /\ InputType'
  BY <1>1, <1>3, Unchanged
<1>8. Shape'
  <2>1. ShapeOf(c)'
    BY <1>1, <1>2, <1>3, <1>4 DEF ShapeOf, UserCode, InSpawn
  <2> QED BY <1>1, <1>3, <1>4, <1>6, <2>1, ShapeStep
<1>9. HeadsKept'
  BY <1>1, <1>3, <1>4, <1>6, SameFq, HeadsStep
<1> QED BY <1>4, <1>5, <1>6, <1>7, <1>8, <1>9, TypePartsNext DEF Inv, MaskInv

LEMMA DequeueInv ==
  ASSUME Inv, NEW c \in Contexts, Dequeue(c)
  PROVE  Inv'
<1> DEFINE to == IF rq[c] = <<>> THEN "exit" ELSE "read"
           j == [slot |-> Head(rq[c]), payload |-> None]
<1>1. /\ TypeOK /\ Shape /\ HeadsKept /\ Stacks /\ MaskInv
      /\ Running(c) /\ Active(c) /\ pc[c] = "poll" /\ ShapeOf(c) /\ c \in Dispatchers
  BY DEF Inv, MaskInv, Dequeue, At, Running, Shape, ShapeOf
<1>2. /\ UNCHANGED <<pending, masks, held, initial, atEntry, budget, sp, fq, inputs>>
      /\ Goto(c, to)
  BY DEF Dequeue, saved, masks
<1>3. IF rq[c] = <<>> THEN job' = job /\ rq' = rq
      ELSE job' = [job EXCEPT ![c] = j] /\ rq' = [rq EXCEPT ![c] = Tail(rq[c])]
  BY DEF Dequeue
<1>4. /\ pc \in [Contexts -> PC] /\ pc' \in [Contexts -> PC] /\ pc'[c] = to
      /\ \A d \in Contexts \ {c} : pc'[d] = pc[d]
      /\ InitAlone' /\ SameStatus
  BY <1>1, <1>2, GotoFacts DEF PC
<1>5. Stacks' /\ MaskInv' /\ MaskType' /\ HeldType'
  BY <1>1, <1>2, <1>4, MasksKept DEF HeldType
<1>6. PcType' /\ SavedType' /\ FqType' /\ InputType'
  BY <1>1, <1>2, <1>4, TypeParts, Unchanged DEF PcType
<1>7. RqType /\ LocalType
  BY <1>1, TypeParts
<1>8. ASSUME rq[c] # <<>>
      PROVE  /\ j \in JobLocals /\ Prio[j.slot[1]] = c
             /\ Tail(rq[c]) \in Seq(Slots) /\ Tail(rq[c]) \in Seq(LevelSlots(c))
  <2>1. rq[c] \in Seq(Slots) /\ rq[c] \in Seq(LevelSlots(c))
    BY <1>1, <1>7 DEF RqType
  <2>2. Head(rq[c]) \in LevelSlots(c)
    BY <1>8, <2>1, TailFacts
  <2> QED BY <1>8, <2>1, <2>2, TailFacts DEF JobLocals, LevelSlots
<1> HIDE DEF j
<1>9. RqType' /\ LocalType' /\ \A d \in Contexts \ {c} : job'[d] = job[d]
  <2>1. CASE rq[c] = <<>>
    BY <1>2, <1>3, <1>7, <2>1 DEF RqType, LocalType
  <2>2. CASE rq[c] # <<>>
    <3>1. RqType'
      BY <1>3, <1>7, <1>8, <2>2 DEF RqType
    <3>2. LocalType' /\ \A d \in Contexts \ {c} : job'[d] = job[d]
      BY <1>2, <1>3, <1>7, <1>8, <2>2 DEF LocalType
    <3> QED BY <3>1, <3>2
  <2> QED BY <2>1, <2>2
<1>10. Shape'
  <2>1. ShapeOf(c)'
    <3>1. CASE rq[c] = <<>>
      BY <1>1, <1>2, <1>4, <3>1, LevelFacts DEF ShapeOf, UserCode, InSpawn, Handlers, masks
    <3>2. CASE rq[c] # <<>>
      <4>1. job'[c] = j /\ pc'[c] = "read" /\ held'[c] = <<>> /\ c # Idle
        BY <1>1, <1>2, <1>3, <1>4, <1>7, <3>2, LevelFacts
        DEF ShapeOf, UserCode, LocalType, Handlers
      <4> QED BY <1>1, <1>8, <3>2, <4>1 DEF ShapeOf, UserCode, InSpawn
    <3> QED BY <3>1, <3>2
  <2> QED BY <1>1, <1>2, <1>4, <1>9, <2>1, ShapeStep
<1>11. HeadsKept'
  BY <1>1, <1>2, <1>4, SameFq, HeadsStep
<1> QED BY <1>4, <1>5, <1>6, <1>9, <1>10, <1>11, TypePartsNext DEF Inv, MaskInv

LEMMA ReadInputInv ==
  ASSUME Inv, NEW c \in Contexts, ReadInput(c)
  PROVE  Inv'
<1> DEFINE j == [job[c] EXCEPT !.payload = inputs[job[c].slot]]
<1>1. /\ TypeOK /\ Shape /\ HeadsKept /\ Stacks /\ MaskInv
      /\ Running(c) /\ Active(c) /\ pc[c] = "read"
  BY DEF Inv, MaskInv, ReadInput, At, Running
<1>2. /\ ShapeOf(c) /\ c \in Dispatchers /\ c # Idle /\ held[c] = <<>>
      /\ job[c] \in JobLocals /\ Prio[job[c].slot[1]] = c
  BY <1>1, LevelFacts DEF Shape, ShapeOf, UserCode, Handlers
<1>3. /\ UNCHANGED <<pending, masks, held, initial, atEntry, budget, sp, fq, rq, inputs>>
      /\ Goto(c, "free")
      /\ job' = [job EXCEPT ![c] = j]
  BY DEF ReadInput, saved, masks, queues
<1>4. /\ pc \in [Contexts -> PC] /\ pc' \in [Contexts -> PC] /\ pc'[c] = "free"
      /\ \A d \in Contexts \ {c} : pc'[d] = pc[d]
      /\ InitAlone' /\ SameStatus
  BY <1>1, <1>3, GotoFacts DEF PC
<1>5. Stacks' /\ MaskInv' /\ MaskType' /\ HeldType'
  BY <1>1, <1>3, <1>4, MasksKept DEF HeldType
<1>6. j \in JobLocals /\ j.slot = job[c].slot
  <2>1. inputs[job[c].slot] \in Payloads \cup {None}
    BY <1>1, <1>2 DEF TypeOK, JobLocals
  <2> QED BY <1>2, <2>1 DEF JobLocals
<1> HIDE DEF j
<1>7. LocalType' /\ job'[c] = j /\ \A d \in Contexts \ {c} : job'[d] = job[d]
  BY <1>1, <1>3, <1>6, TypeParts DEF LocalType
<1>8. PcType' /\ SavedType' /\ FqType' /\ RqType' /\ InputType'
  BY <1>1, <1>3, <1>4, TypeParts, Unchanged DEF PcType
<1>9. Shape'
  <2>1. ShapeOf(c)'
    BY <1>2, <1>3, <1>4, <1>6, <1>7 DEF ShapeOf, UserCode, InSpawn
  <2> QED BY <1>1, <1>3, <1>4, <1>7, <2>1, ShapeStep
<1>10. HeadsKept'
  BY <1>1, <1>3, <1>4, SameFq, HeadsStep
<1> QED BY <1>4, <1>5, <1>7, <1>8, <1>9, <1>10, TypePartsNext DEF Inv, MaskInv

LEMMA FreeSlotInv ==
  ASSUME Inv, NEW c \in Contexts, FreeSlot(c)
  PROVE  Inv'
<1> DEFINE t == job[c].slot[1]
           i == job[c].slot[2]
<1>1. /\ TypeOK /\ Shape /\ HeadsKept /\ Stacks /\ MaskInv
      /\ Running(c) /\ Active(c) /\ pc[c] = "free"
  BY DEF Inv, MaskInv, FreeSlot, At, Running
<1>2. /\ ShapeOf(c) /\ c \in Dispatchers /\ c # Idle /\ held[c] = <<>>
      /\ job[c] \in JobLocals /\ Prio[t] = c
  BY <1>1, LevelFacts DEF Shape, ShapeOf, UserCode, Handlers
<1>3. /\ UNCHANGED <<pending, pmr, held, initial, atEntry, sp, job, rq, inputs>>
      /\ Goto(c, "body")
      /\ fq' = [fq EXCEPT ![t] = Append(fq[t], i)]
      /\ dyn' = [dyn EXCEPT ![c] = Level[c]]
      /\ budget' = [budget EXCEPT ![c] = MaxOps]
  BY DEF FreeSlot, saved
<1>4. /\ pc \in [Contexts -> PC] /\ pc' \in [Contexts -> PC] /\ pc'[c] = "body"
      /\ \A d \in Contexts \ {c} : pc'[d] = pc[d]
      /\ InitAlone' /\ SameStatus
  BY <1>1, <1>3, GotoFacts DEF PC
<1>5. dyn' = dyn
  <2>1. dyn[c] = Level[c]
    BY <1>1, <1>2 DEF Stacks, StackOf, GoodStack
  <2> QED BY <1>1, <1>3, <2>1 DEF TypeOK
<1>6. Stacks' /\ MaskInv' /\ MaskType' /\ HeldType'
  BY <1>1, <1>3, <1>4, <1>5, MasksKept DEF HeldType, masks
<1>7. t \in SwTasks /\ i \in Indices(t) /\ i \in Nat
  BY <1>2, SlotFacts, IndexFacts DEF JobLocals
<1> HIDE DEF t, i
<1>8. /\ FqType'
      /\ \A x \in SwTasks : fq[x] # <<>> => fq'[x] # <<>> /\ Head(fq'[x]) = Head(fq[x])
  <2>1. FqType /\ fq[t] \in Seq(Nat) /\ fq[t] \in Seq(Indices(t))
    BY <1>1, <1>7, TypeParts DEF FqType
  <2>2. Append(fq[t], i) \in Seq(Nat) /\ Append(fq[t], i) \in Seq(Indices(t)) /\ Append(fq[t], i) # <<>>
    BY <1>7, <2>1, AppendProperties
  <2>3. fq[t] # <<>> => Head(Append(fq[t], i)) = Head(fq[t])
    BY <2>1, HeadTailAppend
  <2>4. FqType'
    BY <1>3, <2>1, <2>2 DEF FqType
  <2>5. \A x \in SwTasks : fq'[x] = IF x = t THEN Append(fq[t], i) ELSE fq[x]
    BY <1>3, <2>1 DEF FqType
  <2> QED BY <2>2, <2>3, <2>4, <2>5
<1>9. PcType' /\ LocalType'
  BY <1>1, <1>3, <1>4, TypeParts, SpawnAssumption DEF PcType, LocalType
<1>10. SavedType' /\ RqType' /\ InputType'
  BY <1>1, <1>3, Unchanged
<1>11. Shape'
  <2>1. ShapeOf(c)'
    BY <1>2, <1>3, <1>4 DEF ShapeOf, UserCode, InSpawn, t
  <2> QED BY <1>1, <1>3, <1>4, <2>1, ShapeStep
<1>12. HeadsKept'
  BY <1>1, <1>3, <1>4, <1>8, HeadsStep
<1> QED BY <1>4, <1>6, <1>8, <1>9, <1>10, <1>11, <1>12, TypePartsNext DEF Inv, MaskInv

LEMMA EndTaskInv ==
  ASSUME Inv, NEW c \in Contexts, EndTask(c)
  PROVE  Inv'
<1> DEFINE to == IF c \in Dispatchers THEN "poll" ELSE "exit"
<1>1. /\ TypeOK /\ Shape /\ HeadsKept /\ Stacks /\ MaskInv
      /\ Running(c) /\ Active(c) /\ pc[c] = "body" /\ held[c] = <<>> /\ c # Idle
  BY DEF Inv, MaskInv, EndTask, At, Running
<1>2. /\ UNCHANGED <<pending, masks, held, initial, atEntry, sp, fq, rq, inputs>>
      /\ Goto(c, to)
      /\ budget' = [budget EXCEPT ![c] = 0]
      /\ job' = [job EXCEPT ![c] = None]
  BY DEF EndTask, saved, masks, queues
<1>3. /\ pc \in [Contexts -> PC] /\ pc' \in [Contexts -> PC] /\ pc'[c] = to
      /\ \A d \in Contexts \ {c} : pc'[d] = pc[d]
      /\ InitAlone' /\ SameStatus
  BY <1>1, <1>2, GotoFacts DEF PC
<1>4. Stacks' /\ MaskInv' /\ MaskType' /\ HeldType'
  BY <1>1, <1>2, <1>3, MasksKept DEF HeldType
<1>5. PcType' /\ LocalType' /\ \A d \in Contexts \ {c} : job'[d] = job[d]
  BY <1>1, <1>2, <1>3, TypeParts, SpawnAssumption DEF PcType, LocalType
<1>6. SavedType' /\ FqType' /\ RqType' /\ InputType'
  BY <1>1, <1>2, Unchanged
<1>7. Shape'
  <2>1. ShapeOf(c)'
    BY <1>1, <1>2, <1>3 DEF ShapeOf, UserCode, InSpawn
  <2> QED BY <1>1, <1>2, <1>3, <1>5, <2>1, ShapeStep
<1>8. HeadsKept'
  BY <1>1, <1>2, <1>3, SameFq, HeadsStep
<1> QED BY <1>3, <1>4, <1>5, <1>6, <1>7, <1>8, TypePartsNext DEF Inv, MaskInv

-----------------------------------------------------------------------------
(* Theorems. *)

LEMMA StepInv ==
  ASSUME ContiguousSgis, Inv, NEW c \in Contexts, Step(c)
  PROVE  Inv'
BY RunEnterInv, RunLeaveInv, EndOfInterruptInv, LockInv, UnlockInv, SpawnBeginInv,
   SpawnDequeueInv, SpawnWriteInv, SpawnEnqueueInv, SpawnPendInv, DequeueInv,
   ReadInputInv, FreeSlotInv, EndTaskInv
DEF Step

LEMMA StutterInv == Inv /\ UNCHANGED vars => Inv'
<1> SUFFICES ASSUME Inv, UNCHANGED vars PROVE Inv'
  OBVIOUS
<1>1. UNCHANGED <<pc, pmr, pending, dyn, atEntry, initial, held, budget, sp, job, fq, rq, inputs>>
  BY DEF vars, masks, saved, locals, queues
<1>2. TypeOK' /\ Shape' /\ InitAlone' /\ HeadsKept'
  BY <1>1 DEF Inv, TypeOK, Shape, ShapeOf, User, Top, InitAlone, HeadsKept
<1>3. Stacks' /\ Order' /\ MaskNow' /\ MaskLater'
  BY <1>1
  DEF Inv, Stacks, StackOf, GoodStack, Raised, Order, Active, MaskNow, MaskLater, RaisedContext
<1> QED BY <1>2, <1>3 DEF Inv

(* Every reachable state of an application whose SGIs all get a priority   *)
(* satisfies the inductive invariant.                                      *)
THEOREM Invariance == ContiguousSgis => (Spec => []Inv)
<1> SUFFICES ASSUME ContiguousSgis PROVE Spec => []Inv
  OBVIOUS
<1>1. Init => Inv
  BY InitInv
<1>2. Inv /\ [Next]_vars => Inv'
  <2> SUFFICES ASSUME Inv, [Next]_vars PROVE Inv'
    OBVIOUS
  <2>1. CASE UNCHANGED vars
    BY <2>1, StutterInv
  <2>2. CASE \E t \in SwTasks, v \in Payloads : InitSpawn(t, v)
    BY <2>2, InitSpawnInv
  <2>3. CASE StartIdle
    BY <2>3, StartIdleInv
  <2>4. CASE \E h \in HwTasks : Raise(h)
    BY <2>4, RaiseInv
  <2>5. CASE \E c \in Handlers : Take(c)
    BY <2>5, TakeInv
  <2>6. CASE \E c \in Contexts : Step(c)
    BY <2>6, StepInv
  <2> QED BY <2>1, <2>2, <2>3, <2>4, <2>5, <2>6 DEF Next
<1> QED BY <1>1, <1>2, PTL DEF Spec

(* The state of the runtime keeps its type: among others, an index that a  *)
(* spawn took is an index of the task's INPUTS buffer, and a dispatcher    *)
(* finds only slots of tasks of its own level in its ready queue.          *)
THEOREM TypeCorrect == ContiguousSgis => (Spec => []TypeOK)
<1>1. Inv => TypeOK
  BY DEF Inv
<1> QED BY <1>1, Invariance, PTL

(* No two contexts are inside `lock` on the same object, whatever the      *)
(* tasks, their priorities, the resources and the depth of nesting.        *)
THEOREM LocksExclude == ContiguousSgis => (Spec => []MutualExclusion)
<1>1. Inv => MutualExclusion
  BY Exclusion DEF Inv
<1> QED BY <1>1, Invariance, PTL

(* At most one context of lower priority keeps a priority level waiting.   *)
THEOREM BoundedInversion == ContiguousSgis => (Spec => []SingleBlocker)
<1>1. Inv => SingleBlocker
  <2> SUFFICES ASSUME Inv, NEW x \in Users, NEW c \in Contexts, NEW d \in Contexts,
                      Active(c), Level[c] < Prio[x], dyn[c] >= Prio[x],
                      Active(d), Level[d] < Prio[x], dyn[d] >= Prio[x], c # d
               PROVE  FALSE
    BY DEF SingleBlocker
  <2>1. /\ Prio[x] \in 0 .. 31
        /\ Level[c] \in 0 .. 31 /\ Level[d] \in 0 .. 31
        /\ dyn[c] \in 0 .. 31 /\ dyn[d] \in 0 .. 31
    BY LevelFacts, PrioAssumption DEF Inv, TypeOK, MAX_PRIORITY
  <2>2. Level[c] # Level[d] /\ (Level[c] < Level[d] => dyn[c] < Level[d])
    BY DEF Inv, Order
  <2>3. Level[d] < Level[c] => dyn[d] < Level[c]
    BY DEF Inv, Order
  <2> QED BY <2>1, <2>2, <2>3
<1> QED BY <1>1, Invariance, PTL

-----------------------------------------------------------------------------
(* Masks. *)

(* The running context is the active one of the highest level, and the     *)
(* context right below an active one is what it interrupted.               *)
OnTop(c) ==
  /\ Active(c)
  /\ \A e \in Contexts \ {c} : Active(e) => Level[e] < Level[c]
RightBelow(c, d) ==
  /\ Active(c) /\ Active(d) /\ Level[c] < Level[d]
  /\ \A e \in Contexts : Active(e) => Level[e] =< Level[c] \/ Level[d] =< Level[e]

(* Outside `run`: the handler has the mask of what it interrupted.         *)
Outside(c) == pc[c] \in {"entry", "eoi"}

(* What runs is not masked beyond its dynamic priority, and neither will   *)
(* be what it interrupted once the mask of that moment is written back;    *)
(* `run` has kept that mask, or knows it, since a handler of level 1       *)
(* interrupts nothing but `idle` outside of any lock.                      *)
FloorNow == \A c \in Contexts : OnTop(c) => pmr >= logical2hw(dyn[c])
FloorLater ==
  \A c, d \in Contexts : RightBelow(c, d) => atEntry[d] >= logical2hw(dyn[c])
EntryNow == \A c \in Contexts : OnTop(c) /\ Outside(c) => pmr = atEntry[c]
EntryLater ==
  \A c, d \in Contexts : RightBelow(c, d) /\ Outside(c) => atEntry[d] = atEntry[c]
Kept ==
  \A c \in Handlers :
    Active(c) /\ pc[c] # "entry" /\ Level[c] # 1 => initial[c] = atEntry[c]
LowestEntry ==
  \A c \in Handlers :
    Active(c) => /\ atEntry[c] >= logical2hw(Level[c])
                 /\ Level[c] = 1 => atEntry[c] = logical2hw(0)

MaskKept == FloorNow /\ FloorLater /\ EntryNow /\ EntryLater /\ Kept /\ LowestEntry

-----------------------------------------------------------------------------
LEMMA TopRuns ==
  ASSUME ContiguousSgis, NEW c \in Contexts
  PROVE  Running(c) <=> OnTop(c)
<1>1. Running(c) => OnTop(c)
  BY RunningIsAbove DEF OnTop, Running
<1>2. ASSUME OnTop(c), NEW d \in Contexts \ {c}, Active(d)
      PROVE  GicPriority[c] < GicPriority[d]
  <2>1. Level[c] \in 0 .. 31 /\ Level[d] \in 0 .. 31 /\ Level[d] < Level[c]
    BY <1>2, LevelFacts DEF OnTop
  <2>2. c \in Handlers /\ GicPriority[c] = logical2hw(Level[c])
    BY <2>1, LevelFacts, GicFacts DEF Contexts
  <2>3. CASE d = Idle
    BY <2>1, <2>2, <2>3, GicFacts, HwFacts
  <2>4. CASE d # Idle
    <3>1. GicPriority[d] = logical2hw(Level[d])
      BY <2>4, GicFacts DEF Contexts
    <3> QED BY <2>1, <2>2, <3>1, HwFacts
  <2> QED BY <2>3, <2>4
<1> QED BY <1>1, <1>2 DEF OnTop, Running

(* Steps inside `run`: the mask moves with the priority of what runs.      *)
SameOutside ==
  \A d \in Contexts : (Active(d)' <=> Active(d)) /\ (Outside(d)' <=> Outside(d))
                      /\ (pc'[d] = "entry" <=> pc[d] = "entry")
InsideMove ==
  \/ UNCHANGED <<dyn, pmr>>
  \/ \E c \in Contexts : Running(c) /\ ~ Outside(c) /\ MaskMove(c)

LEMMA SameTop ==
  ASSUME SameOutside
  PROVE  /\ \A c \in Contexts : OnTop(c)' <=> OnTop(c)
         /\ \A c, d \in Contexts : RightBelow(c, d)' <=> RightBelow(c, d)
  BY DEF SameOutside, OnTop, RightBelow

LEMMA InsideKeeps ==
  ASSUME ContiguousSgis, TypeOK, MaskKept, SameOutside, InsideMove, UNCHANGED saved
  PROVE  MaskKept'
<1>1. /\ \A c \in Contexts : OnTop(c)' <=> OnTop(c)
      /\ \A c, d \in Contexts : RightBelow(c, d)' <=> RightBelow(c, d)
      /\ UNCHANGED <<atEntry, initial>>
  BY SameTop DEF saved
<1>2. Kept' /\ LowestEntry'
  BY <1>1 DEF MaskKept, Kept, LowestEntry, SameOutside, Contexts
<1>3. EntryLater'
  BY <1>1 DEF MaskKept, EntryLater, SameOutside
<1>4. CASE UNCHANGED <<dyn, pmr>>
  <2>1. FloorNow' /\ FloorLater'
    BY <1>1, <1>4 DEF MaskKept, FloorNow, FloorLater
  <2>2. EntryNow'
    BY <1>1, <1>4 DEF MaskKept, EntryNow, SameOutside
  <2> QED BY <1>2, <1>3, <2>1, <2>2 DEF MaskKept
<1>5. CASE \E c \in Contexts : Running(c) /\ ~ Outside(c) /\ MaskMove(c)
  <2>1. PICK c \in Contexts : OnTop(c) /\ ~ Outside(c) /\ MaskMove(c)
    BY <1>5, TopRuns
  <2>2. PICK p \in 0 .. 31 :
          /\ dyn' = [dyn EXCEPT ![c] = p]
          /\ pmr' = logical2hw(p) \/ (pmr' = pmr /\ p = dyn[c])
    BY <2>1 DEF MaskMove
  <2>3. dyn'[c] = p /\ \A d \in Contexts \ {c} : dyn'[d] = dyn[d]
    BY <2>2 DEF TypeOK
  <2>4. \A d \in Contexts : OnTop(d) => d = c
    BY <2>1, LevelFacts DEF OnTop
  <2>5. \A d \in Contexts : ~ RightBelow(c, d)
    BY <2>1, LevelFacts DEF OnTop, RightBelow
  <2>6. FloorNow'
    <3>1. pmr' >= logical2hw(dyn'[c])
      <4>1. CASE pmr' = logical2hw(p)
        BY <2>3, <4>1, HwFacts
      <4>2. CASE pmr' = pmr /\ p = dyn[c]
        BY <2>1, <2>3, <4>2 DEF MaskKept, FloorNow
      <4> QED BY <2>2, <4>1, <4>2
    <3> QED BY <1>1, <2>4, <3>1 DEF FloorNow
  <2>7. FloorLater'
    BY <1>1, <2>3, <2>5 DEF MaskKept, FloorLater
  <2>8. EntryNow'
    BY <1>1, <2>1, <2>4 DEF EntryNow, SameOutside
  <2> QED BY <1>2, <1>3, <2>6, <2>7, <2>8 DEF MaskKept
<1> QED BY <1>4, <1>5 DEF InsideMove

LEMMA GotoInside ==
  ASSUME TypeOK, NEW c \in Contexts, NEW to,
         pc[c] \notin {"off", "entry", "eoi"}, to \notin {"off", "entry", "eoi"}, Goto(c, to)
  PROVE  SameOutside
  BY DEF TypeOK, Goto, SameOutside, Active, Outside

(* Of the steps of a context, all but the two ends of `run` and the end of *)
(* the interrupt are inside.                                               *)
LEMMA StepInside ==
  ASSUME Inv, NEW c \in Contexts, Step(c)
  PROVE  \/ RunEnter(c) \/ RunLeave(c) \/ EndOfInterrupt(c)
         \/ SameOutside /\ InsideMove /\ UNCHANGED saved
<1>1. TypeOK /\ Shape /\ Stacks /\ ShapeOf(c)
  BY DEF Inv, Shape
<1>2. CASE \E r \in Resources : Lock(c, r)
  <2>1. PICK r \in Resources : Lock(c, r)
    BY <1>2
  <2>2. Running(c) /\ pc[c] = "body" /\ Enter(c, r) /\ UNCHANGED <<pc, saved>>
    BY <2>1 DEF Lock, At
  <2>3. r \in Objects /\ Level[c] =< Ceiling[r]
    BY <1>1, <2>1, <2>2, UserLevel, ObjectFacts, CeilingAssumption DEF UserCode, Lock
  <2>4. MaskMove(c)
    BY <1>1, <2>2, <2>3, EnterFacts
  <2> QED BY <2>2, <2>4 DEF SameOutside, InsideMove, Active, Outside
<1>3. CASE Unlock(c)
  <2>1. Running(c) /\ pc[c] = "body" /\ MaskMove(c) /\ UNCHANGED <<pc, saved>>
    BY <1>1, <1>3, LeaveFacts DEF Unlock, At
  <2> QED BY <2>1 DEF SameOutside, InsideMove, Active, Outside
<1>4. CASE \E t \in SwTasks, v \in Payloads : SpawnBegin(c, t, v)
  <2>1. PICK t \in SwTasks, v \in Payloads : SpawnBegin(c, t, v)
    BY <1>4
  <2>2. Running(c) /\ pc[c] = "body" /\ Goto(c, "fq") /\ Enter(c, FQ(t)) /\ UNCHANGED saved
    BY <2>1 DEF SpawnBegin, At
  <2>3. FQ(t) \in Objects /\ Level[c] =< Ceiling[FQ(t)]
    BY <1>1, <2>1, <2>2, UserLevel, ObjectFacts, CeilingAssumption DEF UserCode, SpawnBegin
  <2>4. MaskMove(c)
    BY <1>1, <2>2, <2>3, EnterFacts
  <2>5. SameOutside
    BY <1>1, <2>2, GotoInside
  <2> QED BY <2>2, <2>4, <2>5 DEF InsideMove, Outside
<1>5. CASE SpawnDequeue(c)
  <2>1. Running(c) /\ pc[c] = "fq" /\ Leave(c) /\ UNCHANGED saved
    BY <1>5 DEF SpawnDequeue, At
  <2>2. MaskMove(c)
    BY <1>1, <2>1, LeaveFacts DEF ShapeOf
  <2>3. Goto(c, "body") \/ Goto(c, "input")
    BY <1>5 DEF SpawnDequeue
  <2>4. SameOutside
    BY <1>1, <2>1, <2>3, GotoInside
  <2> QED BY <2>1, <2>2, <2>4 DEF InsideMove, Outside
<1>6. CASE SpawnWrite(c)
  <2>1. Running(c) /\ pc[c] = "input" /\ Goto(c, "rq") /\ Enter(c, RQ(Prio[sp[c].task])) /\ UNCHANGED saved
    BY <1>6 DEF SpawnWrite, At
  <2>2. sp[c].task \in SwTasks /\ sp[c].task \in Spawns[User(c)]
    BY <1>1, <2>1 DEF ShapeOf, InSpawn, UserCode, SpawnLocals
  <2>3. RQ(Prio[sp[c].task]) \in Objects /\ Level[c] =< Ceiling[RQ(Prio[sp[c].task])]
    BY <1>1, <2>1, <2>2, UserLevel, ObjectFacts, CeilingAssumption DEF UserCode
  <2>4. MaskMove(c)
    BY <1>1, <2>1, <2>3, EnterFacts
  <2>5. SameOutside
    BY <1>1, <2>1, GotoInside
  <2> QED BY <2>1, <2>4, <2>5 DEF InsideMove, Outside
<1>7. CASE SpawnEnqueue(c)
  <2>1. Running(c) /\ pc[c] = "rq" /\ Leave(c) /\ Goto(c, "pend") /\ UNCHANGED saved
    BY <1>7 DEF SpawnEnqueue, At
  <2>2. MaskMove(c)
    BY <1>1, <2>1, LeaveFacts DEF ShapeOf
  <2>3. SameOutside
    BY <1>1, <2>1, GotoInside
  <2> QED BY <2>1, <2>2, <2>3 DEF InsideMove, Outside
<1>8. CASE SpawnPend(c)
  <2>1. pc[c] = "pend" /\ Goto(c, "body") /\ UNCHANGED <<dyn, pmr, saved>>
    BY <1>8 DEF SpawnPend, At, masks
  <2> QED BY <1>1, <2>1, GotoInside DEF InsideMove
<1>9. CASE Dequeue(c)
  <2>1. /\ pc[c] = "poll" /\ (Goto(c, "exit") \/ Goto(c, "read"))
        /\ UNCHANGED <<dyn, pmr, saved>>
    BY <1>9 DEF Dequeue, At, masks
  <2> QED BY <1>1, <2>1, GotoInside DEF InsideMove
<1>10. CASE ReadInput(c)
  <2>1. pc[c] = "read" /\ Goto(c, "free") /\ UNCHANGED <<dyn, pmr, saved>>
    BY <1>10 DEF ReadInput, At, masks
  <2> QED BY <1>1, <2>1, GotoInside DEF InsideMove
<1>11. CASE FreeSlot(c)
  <2>1. /\ pc[c] = "free" /\ Goto(c, "body") /\ UNCHANGED <<pmr, saved>>
        /\ dyn' = [dyn EXCEPT ![c] = Level[c]]
    BY <1>11 DEF FreeSlot, At
  <2>2. dyn[c] = Level[c]
    BY <1>1, <2>1 DEF ShapeOf, UserCode, Stacks, StackOf, GoodStack
  <2>3. dyn' = dyn
    BY <1>1, <2>1, <2>2 DEF TypeOK
  <2> QED BY <1>1, <2>1, <2>3, GotoInside DEF InsideMove
<1>12. CASE EndTask(c)
  <2>1. /\ pc[c] = "body" /\ (Goto(c, "poll") \/ Goto(c, "exit"))
        /\ UNCHANGED <<dyn, pmr, saved>>
    BY <1>12 DEF EndTask, At, masks
  <2> QED BY <1>1, <2>1, GotoInside DEF InsideMove
<1> QED BY <1>2, <1>3, <1>4, <1>5, <1>6, <1>7, <1>8, <1>9, <1>10, <1>11, <1>12 DEF Step

(* `run` keeps the mask its handler was entered with. *)
LEMMA RunEnterMask ==
  ASSUME ContiguousSgis, Inv, MaskKept, NEW c \in Contexts, RunEnter(c)
  PROVE  MaskKept'
<1>1. /\ TypeOK /\ Shape /\ OnTop(c) /\ pc[c] = "entry" /\ c \in Handlers
  BY TopRuns DEF Inv, RunEnter, At, Shape, ShapeOf, UserCode, Contexts
<1>2. /\ UNCHANGED <<pmr, dyn, atEntry>>
      /\ initial' = [initial EXCEPT ![c] = IF Level[c] = 1 THEN initial[c] ELSE pmr]
      /\ Goto(c, "poll") \/ Goto(c, "body")
  BY DEF RunEnter, masks
<1>3. /\ \A d \in Contexts \ {c} : pc'[d] = pc[d]
      /\ pc'[c] \in {"poll", "body"}
  BY <1>1, <1>2 DEF TypeOK, Goto
<1>4. /\ \A d \in Contexts : Active(d)' <=> Active(d)
      /\ \A d \in Contexts : Outside(d)' => Outside(d)
  BY <1>1, <1>3 DEF Active, Outside
<1>5. /\ \A d \in Contexts : OnTop(d)' <=> OnTop(d)
      /\ \A d, e \in Contexts : RightBelow(d, e)' <=> RightBelow(d, e)
  BY <1>4 DEF OnTop, RightBelow
<1>6. FloorNow' /\ FloorLater' /\ EntryNow' /\ EntryLater'
  BY <1>2, <1>4, <1>5 DEF MaskKept, FloorNow, FloorLater, EntryNow, EntryLater
<1>7. LowestEntry'
  BY <1>2, <1>4 DEF MaskKept, LowestEntry, Contexts
<1>8. Kept'
  <2> SUFFICES ASSUME NEW d \in Handlers, Active(d)', pc'[d] # "entry", Level[d] # 1
               PROVE  initial'[d] = atEntry[d]
    BY <1>2 DEF Kept
  <2>1. CASE d = c
    <3>1. initial'[c] = pmr
      BY <1>1, <1>2, <2>1 DEF TypeOK
    <3>2. pmr = atEntry[c]
      BY <1>1 DEF MaskKept, EntryNow, Outside
    <3> QED BY <2>1, <3>1, <3>2
  <2>2. CASE d # c
    <3>1. initial'[d] = initial[d] /\ pc'[d] = pc[d] /\ d \in Contexts
      BY <1>1, <1>2, <1>3, <2>2 DEF TypeOK, Contexts
    <3> QED BY <1>4, <3>1 DEF MaskKept, Kept
  <2> QED BY <2>1, <2>2
<1> QED BY <1>6, <1>7, <1>8 DEF MaskKept

(* ... and writes it back. *)
LEMMA RunLeaveMask ==
  ASSUME ContiguousSgis, Inv, MaskKept, NEW c \in Contexts, RunLeave(c)
  PROVE  MaskKept'
<1>1. /\ TypeOK /\ Shape /\ OnTop(c) /\ pc[c] = "exit" /\ c \in Handlers /\ Active(c)
      /\ dyn[c] = Level[c] /\ Level[c] \in 0 .. 31
  BY TopRuns, LevelFacts
  DEF Inv, RunLeave, At, Shape, ShapeOf, UserCode, Contexts, OnTop, Stacks, StackOf, GoodStack
<1>2. /\ UNCHANGED <<dyn, atEntry, initial>>
      /\ pmr' = IF Level[c] = 1 THEN logical2hw(0) ELSE initial[c]
      /\ Goto(c, "eoi")
  BY DEF RunLeave, saved, IDLE_PRIORITY
<1>3. /\ \A d \in Contexts \ {c} : pc'[d] = pc[d]
      /\ pc'[c] = "eoi"
  BY <1>1, <1>2 DEF TypeOK, Goto
<1>4. /\ \A d \in Contexts : Active(d)' <=> Active(d)
      /\ \A d \in Contexts \ {c} : Outside(d)' <=> Outside(d)
  BY <1>1, <1>3 DEF Active, Outside
<1>5. /\ \A d \in Contexts : OnTop(d)' <=> OnTop(d)
      /\ \A d, e \in Contexts : RightBelow(d, e)' <=> RightBelow(d, e)
  BY <1>4 DEF OnTop, RightBelow
<1>6. \A d \in Contexts : OnTop(d) => d = c
  BY <1>1, LevelFacts DEF OnTop
<1>7. \A d \in Contexts : ~ RightBelow(c, d)
  BY <1>1, LevelFacts DEF OnTop, RightBelow
<1>8. pmr' = atEntry[c]
  <2>1. CASE Level[c] = 1
    BY <1>1, <1>2, <2>1 DEF MaskKept, LowestEntry
  <2>2. CASE Level[c] # 1
    BY <1>1, <1>2, <2>2 DEF MaskKept, Kept
  <2> QED BY <2>1, <2>2
<1>9. atEntry[c] >= logical2hw(Level[c])
  BY <1>1 DEF MaskKept, LowestEntry
<1>10. FloorNow' /\ EntryNow'
  BY <1>1, <1>2, <1>5, <1>6, <1>8, <1>9 DEF FloorNow, EntryNow
<1>11. FloorLater' /\ EntryLater'
  BY <1>2, <1>4, <1>5, <1>7 DEF MaskKept, FloorLater, EntryLater
<1>12. LowestEntry' /\ Kept'
  BY <1>1, <1>2, <1>3, <1>4 DEF MaskKept, LowestEntry, Kept, Contexts
<1> QED BY <1>10, <1>11, <1>12 DEF MaskKept

(* An interrupt is taken in the middle of what runs. *)
LEMMA TakeMask ==
  ASSUME ContiguousSgis, Inv, MaskKept, NEW c \in Handlers, Take(c)
  PROVE  MaskKept'
<1>1. /\ TypeOK /\ Shape /\ Stacks /\ MaskNow /\ Deliverable(c)
      /\ c \in Contexts /\ c # Idle /\ Level[c] \in 1 .. 31
  BY LevelFacts DEF Inv, Take, Contexts
<1>2. /\ UNCHANGED <<pmr, initial>>
      /\ pc' = [pc EXCEPT ![c] = "entry"]
      /\ dyn' = [dyn EXCEPT ![c] = Level[c]]
      /\ atEntry' = [atEntry EXCEPT ![c] = pmr]
  BY DEF Take, Goto
<1>3. \A d \in Contexts : Active(d) => Level[d] < Level[c] /\ dyn[d] < Level[c]
  BY <1>1, TakenIsAbove
<1>4. ~ Active(c)
  BY <1>1, <1>3
<1>5. /\ pc'[c] = "entry" /\ dyn'[c] = Level[c] /\ atEntry'[c] = pmr
      /\ \A d \in Contexts \ {c} : pc'[d] = pc[d] /\ dyn'[d] = dyn[d] /\ atEntry'[d] = atEntry[d]
  BY <1>1, <1>2 DEF TypeOK
<1>6. \A d \in Contexts \ {c} : (Active(d)' <=> Active(d)) /\ (Outside(d)' <=> Outside(d))
  BY <1>5 DEF Active, Outside
<1>7. Active(c)' /\ \A d \in Contexts : OnTop(d)' => d = c
  BY <1>1, <1>3, <1>5, <1>6, LevelFacts DEF OnTop, Active
<1>8. ASSUME NEW a \in Contexts, NEW b \in Contexts, RightBelow(a, b)'
      PROVE  a # c /\ IF b = c THEN OnTop(a) ELSE RightBelow(a, b)
  <2>1. a # c
    BY <1>1, <1>3, <1>6, <1>8, LevelFacts DEF RightBelow
  <2>2. CASE b = c
    <3>1. Active(a) /\ \A e \in Contexts : Active(e) => Level[e] =< Level[a]
      <4> SUFFICES ASSUME NEW e \in Contexts, Active(e) PROVE Level[e] =< Level[a]
        BY <1>6, <1>8, <2>1 DEF RightBelow
      <4>1. e # c /\ Active(e)' /\ Level[e] < Level[c]
        BY <1>3, <1>4, <1>6
      <4>2. Level[e] =< Level[a] \/ Level[c] =< Level[e]
        BY <1>8, <2>2, <4>1 DEF RightBelow
      <4> QED BY <4>1, <4>2, <1>1, LevelFacts
    <3>2. \A e \in Contexts \ {a} : Active(e) => Level[e] # Level[a]
      BY <3>1 DEF Inv, Order
    <3>3. OnTop(a)
      BY <3>1, <3>2, LevelFacts DEF OnTop
    <3> QED BY <2>1, <2>2, <3>3
  <2>3. CASE b # c
    BY <1>4, <1>6, <1>8, <2>1, <2>3 DEF RightBelow
  <2> QED BY <2>1, <2>2, <2>3
<1>9. pmr \in Nat /\ pmr =< 248 /\ logical2hw(Level[c]) < pmr
  <2>1. GicPriority[c] = logical2hw(Level[c])
    BY GicFacts
  <2>2. PICK m \in 0 .. 31 : pmr = logical2hw(m)
    BY <1>1 DEF TypeOK, PmrValues, MAX_PRIORITY
  <2>3. pmr \in Nat /\ pmr =< 248
    BY <2>2, HwFacts
  <2> QED BY <1>1, <2>1, <2>3 DEF Deliverable
<1>10. FloorNow' /\ EntryNow'
  <2>1. pmr >= logical2hw(Level[c])
    BY <1>1, <1>9, HwFacts
  <2> QED BY <1>2, <1>5, <1>7, <2>1 DEF FloorNow, EntryNow
<1>11. FloorLater'
  <2> SUFFICES ASSUME NEW a \in Contexts, NEW b \in Contexts, RightBelow(a, b)'
               PROVE  atEntry'[b] >= logical2hw(dyn'[a])
    BY DEF FloorLater
  <2>1. CASE b = c
    BY <1>5, <1>8, <2>1 DEF MaskKept, FloorNow
  <2>2. CASE b # c
    BY <1>5, <1>8, <2>2 DEF MaskKept, FloorLater
  <2> QED BY <2>1, <2>2
<1>12. EntryLater'
  <2> SUFFICES ASSUME NEW a \in Contexts, NEW b \in Contexts, RightBelow(a, b)', Outside(a)'
               PROVE  atEntry'[b] = atEntry'[a]
    BY DEF EntryLater
  <2>1. CASE b = c
    BY <1>5, <1>6, <1>8, <2>1 DEF MaskKept, EntryNow
  <2>2. CASE b # c
    BY <1>5, <1>6, <1>8, <2>2 DEF MaskKept, EntryLater
  <2> QED BY <2>1, <2>2
<1>13. Kept'
  BY <1>2, <1>5, <1>6 DEF MaskKept, Kept, Contexts
<1>14. LowestEntry'
  <2>1. pmr >= logical2hw(Level[c])
    BY <1>1, <1>9, HwFacts
  <2>2. ASSUME Level[c] = 1 PROVE pmr = logical2hw(0)
    <3>1. Idle \in Contexts /\ Active(Idle) /\ Level[Idle] = 0
      BY <1>1, LevelFacts DEF Shape, ShapeOf, Active, UserCode
    <3>2. OnTop(Idle) /\ dyn[Idle] = 0
      <4>1. \A e \in Contexts \ {Idle} : ~ Active(e)
        BY <1>3, <2>2, LevelFacts DEF Contexts
      <4>2. dyn[Idle] \in 0 .. 31 /\ dyn[Idle] < 1
        BY <1>1, <1>3, <2>2, <3>1 DEF TypeOK, MAX_PRIORITY
      <4> QED BY <3>1, <4>1, <4>2 DEF OnTop
    <3>3. pmr >= logical2hw(0)
      BY <3>1, <3>2 DEF MaskKept, FloorNow
    <3>4. logical2hw(0) = 248
      BY DEF logical2hw
    <3> QED BY <1>9, <3>3, <3>4
  <2> QED BY <1>5, <1>6, <2>1, <2>2 DEF MaskKept, LowestEntry, Contexts
<1> QED BY <1>10, <1>11, <1>12, <1>13, <1>14 DEF MaskKept

(* What was interrupted finds the mask it had. *)
LEMMA EndOfInterruptMask ==
  ASSUME ContiguousSgis, Inv, MaskKept, NEW c \in Contexts, EndOfInterrupt(c)
  PROVE  MaskKept'
<1>1. /\ TypeOK /\ Order /\ OnTop(c) /\ pc[c] = "eoi" /\ Active(c) /\ Outside(c)
  BY TopRuns DEF Inv, EndOfInterrupt, At, OnTop, Outside
<1>2. /\ UNCHANGED <<pmr, dyn>>
      /\ pc' = [pc EXCEPT ![c] = "off"]
      /\ initial' = [initial EXCEPT ![c] = logical2hw(IDLE_PRIORITY)]
      /\ atEntry' = [atEntry EXCEPT ![c] = logical2hw(IDLE_PRIORITY)]
  BY DEF EndOfInterrupt, masks, Goto
<1>3. /\ ~ Active(c)'
      /\ \A d \in Contexts \ {c} :
           /\ pc'[d] = pc[d] /\ initial'[d] = initial[d] /\ atEntry'[d] = atEntry[d]
           /\ Active(d)' <=> Active(d)
           /\ Outside(d)' <=> Outside(d)
  BY <1>1, <1>2 DEF TypeOK, Active, Outside
<1>4. ASSUME NEW a \in Contexts, OnTop(a)'
      PROVE  a # c /\ RightBelow(a, c)
  BY <1>1, <1>3, <1>4, LevelFacts DEF OnTop, RightBelow
<1>5. ASSUME NEW a \in Contexts, NEW b \in Contexts, RightBelow(a, b)'
      PROVE  a # c /\ b # c /\ RightBelow(a, b)
  BY <1>1, <1>3, <1>5, LevelFacts DEF OnTop, RightBelow
<1>6. pmr = atEntry[c]
  BY <1>1 DEF MaskKept, EntryNow
<1>7. FloorNow' /\ EntryNow'
  BY <1>2, <1>3, <1>4, <1>6 DEF MaskKept, FloorNow, FloorLater, EntryNow, EntryLater
<1>8. FloorLater' /\ EntryLater'
  BY <1>2, <1>3, <1>5 DEF MaskKept, FloorLater, EntryLater
<1>9. Kept' /\ LowestEntry'
  BY <1>3 DEF MaskKept, Kept, LowestEntry, Contexts
<1> QED BY <1>7, <1>8, <1>9 DEF MaskKept

LEMMA InitMask == ContiguousSgis /\ Init => MaskKept
<1> SUFFICES ASSUME ContiguousSgis, Init PROVE MaskKept
  OBVIOUS
<1>1. /\ \A c \in Contexts : pc[c] = IF c = Idle THEN "init" ELSE "off"
      /\ \A c \in Contexts : dyn[c] = Level[c]
      /\ pmr = logical2hw(0)
  BY DEF Init, IDLE_PRIORITY
<1>2. \A c \in Contexts : Active(c) => c = Idle
  BY <1>1 DEF Active
<1>3. FloorNow
  <2>1. pmr >= logical2hw(dyn[Idle])
    BY <1>1, LevelFacts, HwFacts
  <2> QED BY <1>2, <2>1 DEF FloorNow, OnTop
<1>4. FloorLater /\ EntryLater
  BY <1>2, LevelFacts DEF FloorLater, EntryLater, RightBelow
<1>5. EntryNow
  BY <1>1 DEF EntryNow, Outside
<1>6. Kept /\ LowestEntry
  BY <1>2, LevelFacts DEF Kept, LowestEntry, Contexts
<1> QED BY <1>3, <1>4, <1>5, <1>6 DEF MaskKept

(* In every reachable state the mask is, or will be once the handlers      *)
(* above have ended, what each active context left it at.                  *)
THEOREM MaskInvariance == ContiguousSgis => (Spec => []MaskKept)
<1> SUFFICES ASSUME ContiguousSgis PROVE Spec => []MaskKept
  OBVIOUS
<1>1. Init => MaskKept
  BY InitMask
<1>2. Inv /\ MaskKept /\ [Next]_vars => MaskKept'
  <2> SUFFICES ASSUME Inv, MaskKept, [Next]_vars PROVE MaskKept'
    OBVIOUS
  <2>1. TypeOK /\ Shape
    BY DEF Inv
  <2>2. CASE UNCHANGED vars
    <3>1. UNCHANGED <<pc, dyn, pmr, saved>>
      BY <2>2 DEF vars, masks
    <3>2. SameOutside /\ InsideMove
      BY <3>1 DEF SameOutside, InsideMove, Active, Outside
    <3> QED BY <2>1, <3>1, <3>2, InsideKeeps
  <2>3. CASE \E t \in SwTasks, v \in Payloads : InitSpawn(t, v)
    <3>1. UNCHANGED <<pc, dyn, pmr, saved>>
      BY <2>3 DEF InitSpawn, masks
    <3>2. SameOutside /\ InsideMove
      BY <3>1 DEF SameOutside, InsideMove, Active, Outside
    <3> QED BY <2>1, <3>1, <3>2, InsideKeeps
  <2>4. CASE StartIdle
    <3>1. pc[Idle] = "init" /\ Goto(Idle, "body") /\ UNCHANGED <<dyn, pmr, saved>>
      BY <2>4 DEF StartIdle, masks
    <3>2. SameOutside /\ InsideMove
      BY <2>1, <3>1, GotoInside, LevelFacts DEF InsideMove
    <3> QED BY <2>1, <3>1, <3>2, InsideKeeps
  <2>5. CASE \E h \in HwTasks : Raise(h)
    <3>1. UNCHANGED <<pc, dyn, pmr, saved>>
      BY <2>5 DEF Raise, masks
    <3>2. SameOutside /\ InsideMove
      BY <3>1 DEF SameOutside, InsideMove, Active, Outside
    <3> QED BY <2>1, <3>1, <3>2, InsideKeeps
  <2>6. CASE \E c \in Handlers : Take(c)
    BY <2>6, TakeMask
  <2>7. CASE \E c \in Contexts : Step(c)
    <3>1. PICK c \in Contexts : Step(c)
      BY <2>7
    <3>2. CASE SameOutside /\ InsideMove /\ UNCHANGED saved
      BY <2>1, <3>2, InsideKeeps
    <3> QED BY <3>1, <3>2, StepInside, RunEnterMask, RunLeaveMask, EndOfInterruptMask
  <2> QED BY <2>2, <2>3, <2>4, <2>5, <2>6, <2>7 DEF Next
<1> QED BY <1>1, <1>2, Invariance, PTL DEF Spec

(* GICC_PMR is at the exit of every handler what it was at its entry, and  *)
(* never hides more than the dynamic priority of what runs, whatever locks *)
(* and spawns the handler and those that interrupted it went through.      *)
THEOREM MasksRestored == ContiguousSgis => (Spec => []MaskRestored)
<1> SUFFICES ASSUME ContiguousSgis PROVE Spec => []MaskRestored
  OBVIOUS
<1>1. MaskKept => MaskRestored
  <2> SUFFICES ASSUME MaskKept PROVE MaskRestored
    OBVIOUS
  <2>1. \A c \in Contexts : Running(c) <=> OnTop(c)
    BY TopRuns
  <2>2. \A c \in Handlers : At(c, "eoi") => pmr = atEntry[c]
    BY <2>1 DEF MaskKept, EntryNow, Outside, At, Contexts
  <2>3. \A c \in Contexts : Running(c) => pmr >= logical2hw(dyn[c])
    BY <2>1 DEF MaskKept, FloorNow
  <2> QED BY <2>2, <2>3 DEF MaskRestored
<1> QED BY <1>1, MaskInvariance, PTL

-----------------------------------------------------------------------------
(* Wake-ups. *)

(* What a step that puts nothing into the ready queue of level l owes it.  *)
Awake(l) ==
  /\ rq'[l] # <<>> => rq[l] # <<>>
  /\ l \in pending => l \in pending' \/ WillPoll(l)'
  /\ WillPoll(l) => WillPoll(l)' \/ rq'[l] = <<>>
  /\ \A c \in Contexts :
       pc[c] = "pend" => \/ pc'[c] = "pend" /\ sp'[c] = sp[c]
                         \/ Prio[sp[c].task] \in pending'

LEMMA AwakeKeeps ==
  ASSUME NoLostWakeup, \A l \in Dispatchers : Awake(l)
  PROVE  NoLostWakeup'
  BY DEF NoLostWakeup, Awake

(* A step that moves one context, and neither takes it from its SGI nor    *)
(* to the end of the dispatcher's loop.                                    *)
LEMMA GotoAwake ==
  ASSUME TypeOK, NEW c \in Contexts, NEW to, Goto(c, to),
         UNCHANGED rq, pending \subseteq pending',
         \A d \in Contexts \ {c} : sp'[d] = sp[d],
         c \in Dispatchers /\ WillPoll(c) => to \notin {"off", "exit", "eoi"},
         pc[c] = "pend" => Prio[sp[c].task] \in pending'
  PROVE  \A l \in Dispatchers : Awake(l)
<1>1. \A d \in Contexts : pc'[d] = IF d = c THEN to ELSE pc[d]
  BY DEF TypeOK, Goto
<1>2. Dispatchers \subseteq Contexts
  BY DEF Contexts, Handlers
<1> QED BY <1>1, <1>2 DEF Awake, WillPoll

LEMMA StepAwake ==
  ASSUME Inv, NoLostWakeup, NEW c \in Contexts, Step(c)
  PROVE  NoLostWakeup'
<1>1. TypeOK /\ Shape /\ ShapeOf(c)
  BY DEF Inv, Shape
<1>2. CASE RunEnter(c)
  <2>1. /\ pc[c] = "entry" /\ (Goto(c, "poll") \/ Goto(c, "body"))
        /\ UNCHANGED <<pending, sp, rq>>
    BY <1>2 DEF RunEnter, At, queues
  <2> QED BY <1>1, <2>1, GotoAwake, AwakeKeeps
<1>3. CASE RunLeave(c)
  <2>1. pc[c] = "exit" /\ Goto(c, "eoi") /\ UNCHANGED <<pending, sp, rq>>
    BY <1>3 DEF RunLeave, At, queues, locals
  <2> QED BY <1>1, <2>1, GotoAwake, AwakeKeeps DEF WillPoll
<1>4. CASE EndOfInterrupt(c)
  <2>1. pc[c] = "eoi" /\ Goto(c, "off") /\ UNCHANGED <<pending, sp, rq>>
    BY <1>4 DEF EndOfInterrupt, At, queues, locals
  <2> QED BY <1>1, <2>1, GotoAwake, AwakeKeeps DEF WillPoll
<1>5. CASE \/ \E r \in Resources : Lock(c, r)
           \/ Unlock(c)
  <2>1. UNCHANGED <<pc, pending, sp, rq>>
    BY <1>5 DEF Lock, Unlock, queues, locals
  <2> QED BY <2>1, AwakeKeeps DEF Awake, WillPoll
<1>6. CASE \E t \in SwTasks, v \in Payloads : SpawnBegin(c, t, v)
  <2>1. PICK t \in SwTasks, v \in Payloads : SpawnBegin(c, t, v)
    BY <1>6
  <2>2. /\ pc[c] = "body" /\ Goto(c, "fq") /\ UNCHANGED <<pending, rq>>
        /\ \A d \in Contexts \ {c} : sp'[d] = sp[d]
    BY <1>1, <2>1 DEF SpawnBegin, At, queues, TypeOK
  <2> QED BY <1>1, <2>2, GotoAwake, AwakeKeeps
<1>7. CASE SpawnDequeue(c)
  <2>1. /\ pc[c] = "fq" /\ (Goto(c, "body") \/ Goto(c, "input")) /\ UNCHANGED <<pending, rq>>
        /\ \A d \in Contexts \ {c} : sp'[d] = sp[d]
    BY <1>1, <1>7 DEF SpawnDequeue, At, TypeOK
  <2> QED BY <1>1, <2>1, GotoAwake, AwakeKeeps
<1>8. CASE SpawnWrite(c)
  <2>1. pc[c] = "input" /\ Goto(c, "rq") /\ UNCHANGED <<pending, sp, rq>>
    BY <1>8 DEF SpawnWrite, At, locals
  <2> QED BY <1>1, <2>1, GotoAwake, AwakeKeeps
<1>9. CASE SpawnEnqueue(c)
  <2>1. /\ pc[c] = "rq" /\ Goto(c, "pend") /\ UNCHANGED <<pending, sp>>
        /\ rq' = [rq EXCEPT ![Prio[sp[c].task]] = Append(@, SpSlot(c))]
    BY <1>9 DEF SpawnEnqueue, At, locals
  <2>2. /\ \A d \in Contexts : pc'[d] = IF d = c THEN "pend" ELSE pc[d]
        /\ \A l \in Dispatchers : l # Prio[sp[c].task] => rq'[l] = rq[l]
        /\ Dispatchers \subseteq Contexts
    BY <1>1, <2>1 DEF TypeOK, Goto, Contexts, Handlers
  <2> SUFFICES ASSUME NEW l \in Dispatchers, rq'[l] # <<>>, l # Prio[sp[c].task]
               PROVE  \/ l \in pending
                      \/ WillPoll(l)'
                      \/ \E d \in Contexts : pc'[d] = "pend" /\ Prio[sp[d].task] = l
    BY <2>1, <2>2 DEF NoLostWakeup
  <2>3. \/ l \in pending
        \/ WillPoll(l)
        \/ \E d \in Contexts : pc[d] = "pend" /\ Prio[sp[d].task] = l
    BY <2>2 DEF NoLostWakeup
  <2> QED BY <2>2, <2>3 DEF WillPoll
<1>10. CASE SpawnPend(c)
  <2>1. /\ pc[c] = "pend" /\ Goto(c, "body") /\ UNCHANGED rq
        /\ pending' = pending \cup {Prio[sp[c].task]}
        /\ \A d \in Contexts \ {c} : sp'[d] = sp[d]
    BY <1>1, <1>10 DEF SpawnPend, At, queues, TypeOK
  <2> QED BY <1>1, <2>1, GotoAwake, AwakeKeeps
<1>11. CASE Dequeue(c)
  <2>1. pc[c] = "poll" /\ c \in Dispatchers /\ UNCHANGED <<pending, sp>>
    BY <1>1, <1>11 DEF Dequeue, At, ShapeOf
  <2>2. CASE rq[c] = <<>>
    <3>1. Goto(c, "exit") /\ UNCHANGED rq
      BY <1>11, <2>2 DEF Dequeue
    <3>2. \A d \in Contexts : pc'[d] = IF d = c THEN "exit" ELSE pc[d]
      BY <1>1, <3>1 DEF TypeOK, Goto
    <3>3. \A l \in Dispatchers : Awake(l)
      BY <2>1, <2>2, <3>1, <3>2 DEF Awake, WillPoll, Contexts, Handlers
    <3> QED BY <3>3, AwakeKeeps
  <2>3. CASE rq[c] # <<>>
    <3>1. Goto(c, "read") /\ rq' = [rq EXCEPT ![c] = Tail(@)]
      BY <1>11, <2>3 DEF Dequeue
    <3>2. /\ \A d \in Contexts : pc'[d] = IF d = c THEN "read" ELSE pc[d]
          /\ \A l \in Dispatchers : l # c => rq'[l] = rq[l]
      BY <1>1, <3>1 DEF TypeOK, Goto
    <3>3. \A l \in Dispatchers : Awake(l)
      BY <2>1, <2>3, <3>2 DEF Awake, WillPoll, Contexts, Handlers
    <3> QED BY <3>3, AwakeKeeps
  <2> QED BY <2>2, <2>3
<1>12. CASE ReadInput(c)
  <2>1. pc[c] = "read" /\ Goto(c, "free") /\ UNCHANGED <<pending, sp, rq>>
    BY <1>12 DEF ReadInput, At, queues
  <2> QED BY <1>1, <2>1, GotoAwake, AwakeKeeps
<1>13. CASE FreeSlot(c)
  <2>1. pc[c] = "free" /\ Goto(c, "body") /\ UNCHANGED <<pending, sp, rq>>
    BY <1>13 DEF FreeSlot, At
  <2> QED BY <1>1, <2>1, GotoAwake, AwakeKeeps
<1>14. CASE EndTask(c)
  <2>1. /\ pc[c] = "body" /\ UNCHANGED <<pending, sp, rq>>
        /\ Goto(c, IF c \in Dispatchers THEN "poll" ELSE "exit")
    BY <1>14 DEF EndTask, At, queues
  <2> QED BY <1>1, <2>1, GotoAwake, AwakeKeeps
<1> QED BY <1>2, <1>3, <1>4, <1>5, <1>6, <1>7, <1>8, <1>9, <1>10, <1>11, <1>12, <1>13, <1>14
        DEF Step

(* A message in a ready queue is never left without an SGI or a dispatcher *)
(* that will look at it, for any number of spawning contexts and levels.   *)
THEOREM WakeupsKept == ContiguousSgis => (Spec => []NoLostWakeup)
<1> SUFFICES ASSUME ContiguousSgis PROVE Spec => []NoLostWakeup
  OBVIOUS
<1>1. Init => NoLostWakeup
  BY DEF Init, NoLostWakeup
<1>2. Inv /\ NoLostWakeup /\ [Next]_vars => NoLostWakeup'
  <2> SUFFICES ASSUME Inv, NoLostWakeup, [Next]_vars PROVE NoLostWakeup'
    OBVIOUS
  <2>1. TypeOK /\ Dispatchers \subseteq Contexts
    BY DEF Inv, Contexts, Handlers
  <2>2. CASE UNCHANGED vars
    <3>1. UNCHANGED <<pc, pending, sp, rq>>
      BY <2>2 DEF vars, locals, queues
    <3> QED BY <3>1 DEF NoLostWakeup, WillPoll
  <2>3. CASE \E t \in SwTasks, v \in Payloads : InitSpawn(t, v)
    <3>1. PICK t \in SwTasks, v \in Payloads : InitSpawn(t, v)
      BY <2>3
    <3>2. /\ UNCHANGED <<pc, sp>> /\ pending' = pending \cup {Prio[t]}
          /\ \A l \in Dispatchers : l # Prio[t] => rq'[l] = rq[l]
      BY <2>1, <3>1 DEF InitSpawn, locals, TypeOK
    <3> QED BY <3>2 DEF NoLostWakeup, WillPoll
  <2>4. CASE StartIdle
    <3>1. pc[Idle] = "init" /\ Goto(Idle, "body") /\ UNCHANGED <<pending, sp, rq>>
      BY <2>4 DEF StartIdle, queues
    <3> QED BY <2>1, <3>1, LevelFacts, GotoAwake, AwakeKeeps
  <2>5. CASE \E h \in HwTasks : Raise(h)
    <3>1. UNCHANGED <<pc, sp, rq>> /\ pending \subseteq pending'
      BY <2>5 DEF Raise, locals, queues
    <3> QED BY <3>1 DEF NoLostWakeup, WillPoll
  <2>6. CASE \E c \in Handlers : Take(c)
    <3>1. PICK c \in Handlers : Take(c)
      BY <2>6
    <3>2. pending' = pending \ {c} /\ Goto(c, "entry") /\ UNCHANGED <<sp, rq>> /\ c \in Contexts
      BY <3>1 DEF Take, locals, queues, Contexts
    <3>3. \A d \in Contexts : pc'[d] = IF d = c THEN "entry" ELSE pc[d]
      BY <2>1, <3>2 DEF TypeOK, Goto
    <3>4. pc[c] # "pend"
      <4>1. ~ Active(c)
        <5>1. Active(c) => GicPriority[c] < GicPriority[c]
          BY <3>1, <3>2 DEF Take, Deliverable
        <5>2. GicPriority[c] = logical2hw(Level[c]) /\ Level[c] \in 0 .. 31
          BY <3>2, GicFacts, LevelFacts
        <5> QED BY <5>1, <5>2, HwFacts
      <4> QED BY <4>1 DEF Active
    <3>5. \A l \in Dispatchers : Awake(l)
      BY <2>1, <3>2, <3>3, <3>4 DEF Awake, WillPoll
    <3> QED BY <3>5, AwakeKeeps
  <2>7. CASE \E c \in Contexts : Step(c)
    BY <2>7, StepAwake
  <2> QED BY <2>2, <2>3, <2>4, <2>5, <2>6, <2>7 DEF Next
<1> QED BY <1>1, <1>2, Invariance, PTL DEF Spec

-----------------------------------------------------------------------------
(* Slots. *)

(* Where the slot s of an INPUTS buffer is: in its free queue, in the      *)
(* ready queue, with a spawn of context c, or with dispatcher c.           *)
Places == {"FQ", "RQ", "spawn", "task"}
Home(s, p, c) ==
  \/ p = "FQ" /\ c = Idle /\ s[2] \in Range(fq[s[1]])
  \/ p = "RQ" /\ c = Idle /\ s \in Range(rq[Prio[s[1]]])
  \/ p = "spawn" /\ pc[c] \in {"input", "rq"} /\ SpSlot(c) = s
  \/ p = "task" /\ c \in Dispatchers /\ pc[c] \in {"read", "free"} /\ job[c].slot = s

OneHome ==
  \A s \in Slots : \E p \in Places, c \in Contexts :
    \A q \in Places, d \in Contexts : Home(s, q, d) <=> q = p /\ d = c

NoRepeats ==
  /\ \A t \in SwTasks : IsInjective(fq[t])
  /\ \A l \in Dispatchers : IsInjective(rq[l])

(* A message is in its slot when the slot is put into the ready queue, and *)
(* a dispatcher has a job from the dequeue to the end of the task.         *)
JobCode == UserCode \cup {"read", "free"}
Written == \A c \in Contexts : pc[c] = "rq" => inputs[SpSlot(c)] = sp[c].payload
Jobless == \A c \in Dispatchers : pc[c] \notin JobCode => job[c] = None

MessageInv == OneHome /\ NoRepeats /\ Written /\ Jobless

LEMMA AppendRange ==
  ASSUME NEW S, NEW q \in Seq(S), NEW e \in S
  PROVE  /\ Range(Append(q, e)) = Range(q) \cup {e}
         /\ IsInjective(q) /\ e \notin Range(q) => IsInjective(Append(q, e))
<1>1. /\ Len(q) \in Nat /\ DOMAIN q = 1 .. Len(q)
      /\ DOMAIN Append(q, e) = 1 .. Len(q) + 1
      /\ \A k \in 1 .. Len(q) : Append(q, e)[k] = q[k]
      /\ Append(q, e)[Len(q) + 1] = e
  OBVIOUS
<1> DEFINE n == Len(q)
           u == Append(q, e)
<1> HIDE DEF n, u
<1>2. /\ n \in Nat /\ DOMAIN q = 1 .. n /\ DOMAIN u = 1 .. n + 1
      /\ \A k \in 1 .. n : u[k] = q[k]
      /\ u[n + 1] = e
  BY <1>1 DEF n, u
<1>3. Range(u) = Range(q) \cup {e}
  <2>1. ASSUME NEW x \in Range(u) PROVE x \in Range(q) \cup {e}
    <3>1. PICK k \in 1 .. n + 1 : x = u[k]
      BY <1>2 DEF Range
    <3>2. k = n + 1 \/ k \in 1 .. n
      BY <1>2
    <3> QED BY <1>2, <3>1, <3>2 DEF Range
  <2>2. ASSUME NEW x \in Range(q) PROVE x \in Range(u)
    <3>1. PICK k \in 1 .. n : x = q[k]
      BY <1>2 DEF Range
    <3>2. k \in 1 .. n + 1
      BY <1>2
    <3> QED BY <1>2, <3>1, <3>2 DEF Range
  <2>3. e \in Range(u)
    <3>1. n + 1 \in 1 .. n + 1
      BY <1>2
    <3> QED BY <1>2, <3>1 DEF Range
  <2> QED BY <2>1, <2>2, <2>3
<1>4. ASSUME IsInjective(q), e \notin Range(q) PROVE IsInjective(u)
  <2> SUFFICES ASSUME NEW i \in 1 .. n + 1, NEW j \in 1 .. n + 1, u[i] = u[j] PROVE i = j
    BY <1>2 DEF IsInjective
  <2>1. (i = n + 1 \/ i \in 1 .. n) /\ (j = n + 1 \/ j \in 1 .. n)
    BY <1>2
  <2>2. \A k \in 1 .. n : q[k] # e
    BY <1>2, <1>4 DEF Range
  <2> QED BY <1>2, <1>4, <2>1, <2>2 DEF IsInjective
<1> QED BY <1>3, <1>4 DEF u

LEMMA TailRange ==
  ASSUME NEW S, NEW q \in Seq(S), q # <<>>, IsInjective(q)
  PROVE  /\ Range(Tail(q)) = Range(q) \ {Head(q)}
         /\ IsInjective(Tail(q))
         /\ Head(q) \in Range(q)
<1> DEFINE n == Len(q)
           u == Tail(q)
           h == Head(q)
<1>1. /\ n \in Nat \ {0} /\ DOMAIN q = 1 .. n /\ DOMAIN u = 1 .. n - 1
      /\ \A k \in 1 .. n - 1 : u[k] = q[k + 1]
      /\ h = q[1]
  OBVIOUS
<1> HIDE DEF n, u, h
<1>2. 1 \in 1 .. n /\ \A k \in 1 .. n - 1 : k + 1 \in 1 .. n /\ k + 1 # 1
  BY <1>1
<1>3. Range(u) = Range(q) \ {h}
  <2>1. ASSUME NEW x \in Range(u) PROVE x \in Range(q) /\ x # h
    <3>1. PICK k \in 1 .. n - 1 : x = u[k]
      BY <1>1 DEF Range
    <3>2. x = q[k + 1] /\ k + 1 \in 1 .. n /\ k + 1 # 1
      BY <1>1, <1>2, <3>1
    <3> QED BY <1>1, <1>2, <3>2 DEF Range, IsInjective
  <2>2. ASSUME NEW x \in Range(q), x # h PROVE x \in Range(u)
    <3>1. PICK k \in 1 .. n : x = q[k]
      BY <1>1 DEF Range
    <3>2. k # 1
      BY <1>1, <2>2, <3>1
    <3>3. k - 1 \in 1 .. n - 1 /\ (k - 1) + 1 = k
      BY <1>1, <3>2
    <3>4. x = u[k - 1]
      BY <1>1, <3>1, <3>3
    <3> QED BY <1>1, <3>3, <3>4 DEF Range
  <2> QED BY <2>1, <2>2
<1>4. IsInjective(u)
  <2> SUFFICES ASSUME NEW i \in 1 .. n - 1, NEW j \in 1 .. n - 1, u[i] = u[j] PROVE i = j
    BY <1>1 DEF IsInjective
  <2>1. i + 1 = j + 1
    BY <1>1, <1>2 DEF IsInjective
  <2> QED BY <2>1
<1>5. h \in Range(q)
  BY <1>1, <1>2 DEF Range
<1> QED BY <1>3, <1>4, <1>5 DEF u, h

(* A step that moves one slot moves it as a whole. *)
LEMMA MovedHome ==
  ASSUME OneHome, NEW x \in Slots, NEW p \in Places, NEW c \in Contexts,
         \A s \in Slots, q \in Places, d \in Contexts :
           Home(s, q, d)' <=> IF s = x THEN q = p /\ d = c ELSE Home(s, q, d)
  PROVE  OneHome'
<1> SUFFICES ASSUME NEW s \in Slots
             PROVE  \E o \in Places, a \in Contexts :
                      \A q \in Places, d \in Contexts : Home(s, q, d)' <=> q = o /\ d = a
  BY DEF OneHome
<1>1. CASE s = x
  <2>1. \A q \in Places, d \in Contexts : Home(s, q, d)' <=> q = p /\ d = c
    BY <1>1
  <2> QED BY <2>1
<1>2. CASE s # x
  <2>1. PICK o \in Places, a \in Contexts :
          \A q \in Places, d \in Contexts : Home(s, q, d) <=> q = o /\ d = a
    BY DEF OneHome
  <2>2. \A q \in Places, d \in Contexts : Home(s, q, d)' <=> Home(s, q, d)
    BY <1>2
  <2>3. \A q \in Places, d \in Contexts : Home(s, q, d)' <=> q = o /\ d = a
    BY <2>1, <2>2
  <2> QED BY <2>3
<1> QED BY <1>1, <1>2

LEMMA SameHome ==
  ASSUME OneHome,
         \A s \in Slots, q \in Places, d \in Contexts : Home(s, q, d)' <=> Home(s, q, d)
  PROVE  OneHome'
<1> SUFFICES ASSUME NEW s \in Slots
             PROVE  \E o \in Places, a \in Contexts :
                      \A q \in Places, d \in Contexts : Home(s, q, d)' <=> q = o /\ d = a
  BY DEF OneHome
<1>1. PICK o \in Places, a \in Contexts :
        \A q \in Places, d \in Contexts : Home(s, q, d) <=> q = o /\ d = a
  BY DEF OneHome
<1>2. \A q \in Places, d \in Contexts : Home(s, q, d)' <=> q = o /\ d = a
  BY <1>1
<1> QED BY <1>2

(* The steps that leave the messages alone. *)
Quiet ==
  /\ UNCHANGED <<fq, rq, inputs>>
  /\ \A d \in Contexts :
       /\ pc'[d] = "input" <=> pc[d] = "input"
       /\ pc'[d] = "rq" <=> pc[d] = "rq"
       /\ pc[d] \in {"input", "rq"} => sp'[d] = sp[d]
  /\ \A d \in Dispatchers :
       /\ job'[d] = job[d]
       /\ pc'[d] = "read" <=> pc[d] = "read"
       /\ pc'[d] = "free" <=> pc[d] = "free"
       /\ pc'[d] \in JobCode <=> pc[d] \in JobCode

LEMMA QuietKeeps ==
  ASSUME MessageInv, Quiet
  PROVE  MessageInv' /\ UNCHANGED <<Waiting, Current>>
<1>1. \A s \in Slots, q \in Places, d \in Contexts : Home(s, q, d)' <=> Home(s, q, d)
  BY DEF Quiet, Home, SpSlot
<1>2. OneHome'
  BY <1>1, SameHome DEF MessageInv
<1>3. NoRepeats' /\ Jobless'
  BY DEF MessageInv, NoRepeats, Jobless, Quiet
<1>4. Written'
  <2> SUFFICES ASSUME NEW c \in Contexts, pc'[c] = "rq" PROVE inputs[SpSlot(c)'] = sp'[c].payload
    BY DEF Written, Quiet
  <2>1. pc[c] = "rq" /\ sp'[c] = sp[c]
    BY DEF Quiet
  <2>2. SpSlot(c)' = SpSlot(c)
    BY <2>1 DEF SpSlot
  <2> QED BY <2>1, <2>2 DEF MessageInv, Written
<1>5. UNCHANGED Waiting
  BY DEF Quiet, Waiting
<1>6. UNCHANGED Current
  <2>1. \A l \in Dispatchers : job'[l] = job[l] /\ (pc'[l] = "read" <=> pc[l] = "read") /\ inputs' = inputs
    BY DEF Quiet
  <2> QED BY <2>1 DEF Current
<1> QED BY <1>2, <1>3, <1>4, <1>5, <1>6 DEF MessageInv

LEMMA InitMessages == Init => MessageInv
<1> SUFFICES ASSUME Init PROVE MessageInv
  OBVIOUS
<1>1. /\ \A c \in Contexts : pc[c] = IF c = Idle THEN "init" ELSE "off"
      /\ \A l \in Dispatchers : rq[l] = <<>> /\ job[l] = None
      /\ Dispatchers \subseteq Contexts
  BY DEF Init, Contexts, Handlers
<1>2. ASSUME NEW t \in SwTasks
      PROVE  IsInjective(fq[t]) /\ Range(fq[t]) = Indices(t)
  <2>1. Cap[t] \in Nat
    BY SpawnAssumption
  <2>2. fq[t] = [k \in 1 .. Cap[t] |-> k - 1]
    BY DEF Init
  <2>3. IsInjective(fq[t])
    BY <2>1, <2>2 DEF IsInjective
  <2>4. ASSUME NEW i \in Indices(t) PROVE i \in Range(fq[t])
    <3>1. i + 1 \in 1 .. Cap[t] /\ (i + 1) - 1 = i
      BY <2>1 DEF Indices
    <3> QED BY <2>2, <3>1 DEF Range
  <2>5. Range(fq[t]) \subseteq Indices(t)
    BY <2>1, <2>2 DEF Range, Indices
  <2> QED BY <2>3, <2>4, <2>5
<1>3. OneHome
  <2> SUFFICES ASSUME NEW s \in Slots
               PROVE  \A q \in Places, d \in Contexts : Home(s, q, d) <=> q = "FQ" /\ d = Idle
    BY LevelFacts DEF OneHome, Places
  <2>1. s[2] \in Range(fq[s[1]])
    BY <1>2, SlotFacts
  <2>2. Range(rq[Prio[s[1]]]) = {}
    BY <1>1, SlotFacts, LevelFacts DEF Range
  <2> QED BY <1>1, <2>1, <2>2 DEF Home
<1>4. NoRepeats
  BY <1>1, <1>2 DEF NoRepeats, IsInjective
<1> QED BY <1>1, <1>3, <1>4 DEF MessageInv, Written, Jobless

-----------------------------------------------------------------------------
(* Taking a slot out of a queue and putting it into one. *)

LEMMA HomeIs ==
  ASSUME OneHome, NEW x \in Slots, NEW p \in Places, NEW c \in Contexts, Home(x, p, c)
  PROVE  \A q \in Places, d \in Contexts : Home(x, q, d) <=> q = p /\ d = c
<1>1. PICK o \in Places, a \in Contexts :
        \A q \in Places, d \in Contexts : Home(x, q, d) <=> q = o /\ d = a
  BY DEF OneHome
<1> QED BY <1>1

LEMMA TakeFree ==
  ASSUME TypeOK, NoRepeats, NEW t \in SwTasks, fq[t] # <<>>,
         fq' = [fq EXCEPT ![t] = Tail(fq[t])]
  PROVE  /\ <<t, Head(fq[t])>> \in Slots
         /\ Home(<<t, Head(fq[t])>>, "FQ", Idle)
         /\ \A s \in Slots :
              s[2] \in Range(fq'[s[1]]) <=> s[2] \in Range(fq[s[1]]) /\ s # <<t, Head(fq[t])>>
         /\ \A y \in SwTasks : IsInjective(fq'[y])
<1> DEFINE i == Head(fq[t])
<1>1. fq \in [SwTasks -> Seq(Nat)] /\ fq[t] \in Seq(Indices(t)) /\ IsInjective(fq[t])
  BY DEF TypeOK, NoRepeats
<1>2. /\ Range(Tail(fq[t])) = Range(fq[t]) \ {i}
      /\ IsInjective(Tail(fq[t])) /\ i \in Range(fq[t]) /\ i \in Indices(t)
  BY <1>1, TailRange, TailFacts
<1>3. fq'[t] = Tail(fq[t]) /\ \A y \in SwTasks \ {t} : fq'[y] = fq[y]
  BY <1>1
<1> HIDE DEF i
<1>4. <<t, i>> \in Slots /\ <<t, i>>[1] = t /\ <<t, i>>[2] = i
  BY <1>2, SlotFacts
<1>5. ASSUME NEW s \in Slots
      PROVE  s[2] \in Range(fq'[s[1]]) <=> s[2] \in Range(fq[s[1]]) /\ s # <<t, i>>
  <2>1. s[1] \in SwTasks /\ s = <<s[1], s[2]>>
    BY SlotFacts
  <2>2. CASE s[1] = t
    BY <1>2, <1>3, <2>1, <2>2
  <2>3. CASE s[1] # t
    BY <1>3, <1>4, <2>1, <2>3
  <2> QED BY <2>2, <2>3
<1>6. \A y \in SwTasks : IsInjective(fq'[y])
  BY <1>2, <1>3 DEF NoRepeats
<1>7. Home(<<t, i>>, "FQ", Idle)
  BY <1>2, <1>4 DEF Home
<1> QED BY <1>4, <1>5, <1>6, <1>7 DEF i

LEMMA PutFree ==
  ASSUME TypeOK, NoRepeats, NEW x \in Slots, x[2] \notin Range(fq[x[1]]),
         fq' = [fq EXCEPT ![x[1]] = Append(fq[x[1]], x[2])]
  PROVE  /\ \A s \in Slots : s[2] \in Range(fq'[s[1]]) <=> s[2] \in Range(fq[s[1]]) \/ s = x
         /\ \A y \in SwTasks : IsInjective(fq'[y])
<1> DEFINE t == x[1]
           i == x[2]
<1>1. t \in SwTasks /\ i \in Indices(t) /\ x = <<t, i>>
  BY SlotFacts
<1> HIDE DEF t, i
<1>2. /\ fq \in [SwTasks -> Seq(Nat)] /\ fq[t] \in Seq(Indices(t))
      /\ IsInjective(fq[t]) /\ i \notin Range(fq[t])
  BY <1>1 DEF TypeOK, NoRepeats, t, i
<1>3. Range(Append(fq[t], i)) = Range(fq[t]) \cup {i} /\ IsInjective(Append(fq[t], i))
  BY <1>1, <1>2, AppendRange
<1>4. fq'[t] = Append(fq[t], i) /\ \A y \in SwTasks \ {t} : fq'[y] = fq[y]
  BY <1>1, <1>2 DEF t, i
<1>5. ASSUME NEW s \in Slots
      PROVE  s[2] \in Range(fq'[s[1]]) <=> s[2] \in Range(fq[s[1]]) \/ s = x
  <2>1. s[1] \in SwTasks /\ s = <<s[1], s[2]>>
    BY SlotFacts
  <2>2. CASE s[1] = t
    BY <1>1, <1>3, <1>4, <2>1, <2>2
  <2>3. CASE s[1] # t
    BY <1>1, <1>4, <2>1, <2>3 DEF t
  <2> QED BY <2>2, <2>3
<1>6. \A y \in SwTasks : IsInjective(fq'[y])
  BY <1>3, <1>4 DEF NoRepeats
<1> QED BY <1>5, <1>6

LEMMA TakeReady ==
  ASSUME TypeOK, NoRepeats, NEW l \in Dispatchers, rq[l] # <<>>,
         rq' = [rq EXCEPT ![l] = Tail(rq[l])]
  PROVE  /\ Head(rq[l]) \in Slots /\ Prio[Head(rq[l])[1]] = l
         /\ Home(Head(rq[l]), "RQ", Idle)
         /\ \A s \in Slots :
              s \in Range(rq'[Prio[s[1]]]) <=> s \in Range(rq[Prio[s[1]]]) /\ s # Head(rq[l])
         /\ \A y \in Dispatchers : IsInjective(rq'[y])
<1> DEFINE x == Head(rq[l])
<1>1. rq \in [Dispatchers -> Seq(Slots)] /\ rq[l] \in Seq(LevelSlots(l)) /\ IsInjective(rq[l])
  BY TypeParts DEF RqType, NoRepeats
<1>2. /\ Range(Tail(rq[l])) = Range(rq[l]) \ {x}
      /\ IsInjective(Tail(rq[l])) /\ x \in Range(rq[l]) /\ x \in LevelSlots(l)
  BY <1>1, TailRange, TailFacts
<1>3. rq'[l] = Tail(rq[l]) /\ \A y \in Dispatchers \ {l} : rq'[y] = rq[y]
  BY <1>1
<1> HIDE DEF x
<1>4. x \in Slots /\ Prio[x[1]] = l
  BY <1>2 DEF LevelSlots
<1>5. ASSUME NEW s \in Slots
      PROVE  s \in Range(rq'[Prio[s[1]]]) <=> s \in Range(rq[Prio[s[1]]]) /\ s # x
  <2>1. Prio[s[1]] \in Dispatchers
    BY SlotFacts, LevelFacts
  <2>2. CASE Prio[s[1]] = l
    BY <1>2, <1>3, <2>2
  <2>3. CASE Prio[s[1]] # l
    BY <1>3, <1>4, <2>1, <2>3
  <2> QED BY <2>2, <2>3
<1>6. \A y \in Dispatchers : IsInjective(rq'[y])
  BY <1>2, <1>3 DEF NoRepeats
<1>7. Home(x, "RQ", Idle)
  BY <1>2, <1>4 DEF Home
<1> QED BY <1>4, <1>5, <1>6, <1>7 DEF x

LEMMA PutReady ==
  ASSUME TypeOK, NoRepeats, NEW x \in Slots, x \notin Range(rq[Prio[x[1]]]),
         rq' = [rq EXCEPT ![Prio[x[1]]] = Append(rq[Prio[x[1]]], x)]
  PROVE  /\ \A s \in Slots : s \in Range(rq'[Prio[s[1]]]) <=> s \in Range(rq[Prio[s[1]]]) \/ s = x
         /\ \A y \in Dispatchers : IsInjective(rq'[y])
<1> DEFINE l == Prio[x[1]]
<1>1. l \in Dispatchers
  BY SlotFacts, LevelFacts
<1> HIDE DEF l
<1>2. rq \in [Dispatchers -> Seq(Slots)] /\ rq[l] \in Seq(Slots) /\ IsInjective(rq[l])
  BY <1>1 DEF TypeOK, NoRepeats
<1>3. Range(Append(rq[l], x)) = Range(rq[l]) \cup {x} /\ IsInjective(Append(rq[l], x))
  BY <1>2, AppendRange DEF l
<1>4. rq'[l] = Append(rq[l], x) /\ \A y \in Dispatchers \ {l} : rq'[y] = rq[y]
  BY <1>1, <1>2 DEF l
<1>5. ASSUME NEW s \in Slots
      PROVE  s \in Range(rq'[Prio[s[1]]]) <=> s \in Range(rq[Prio[s[1]]]) \/ s = x
  <2>1. Prio[s[1]] \in Dispatchers
    BY SlotFacts, LevelFacts
  <2>2. CASE Prio[s[1]] = l
    BY <1>3, <1>4, <2>2
  <2>3. CASE Prio[s[1]] # l
    BY <1>4, <2>1, <2>3 DEF l
  <2> QED BY <2>2, <2>3
<1>6. \A y \in Dispatchers : IsInjective(rq'[y])
  BY <1>3, <1>4 DEF NoRepeats
<1> QED BY <1>5, <1>6

-----------------------------------------------------------------------------
(* The steps that move a message. *)

LEMMA InitSpawnMessages ==
  ASSUME Inv, MessageInv, NEW t \in SwTasks, NEW v \in Payloads, InitSpawn(t, v)
  PROVE  MessageInv'
<1> DEFINE x == <<t, Head(fq[t])>>
<1>1. TypeOK /\ OneHome /\ NoRepeats /\ Idle \in Contexts /\ InitAlone
  BY LevelFacts DEF Inv, MessageInv
<1>2. /\ fq[t] # <<>> /\ fq' = [fq EXCEPT ![t] = Tail(fq[t])]
      /\ rq' = [rq EXCEPT ![Prio[t]] = Append(rq[Prio[t]], x)]
      /\ UNCHANGED <<pc, sp, job>>
  BY DEF InitSpawn, locals
<1>3. /\ x \in Slots /\ Home(x, "FQ", Idle)
      /\ \A s \in Slots : s[2] \in Range(fq'[s[1]]) <=> s[2] \in Range(fq[s[1]]) /\ s # x
      /\ \A y \in SwTasks : IsInjective(fq'[y])
  BY <1>1, <1>2, TakeFree
<1>4. x[1] = t
  OBVIOUS
<1> HIDE DEF x
<1>5. \A q \in Places, d \in Contexts : Home(x, q, d) <=> q = "FQ" /\ d = Idle
  BY <1>1, <1>3, HomeIs DEF Places
<1>6. x \notin Range(rq[Prio[t]])
  BY <1>1, <1>4, <1>5 DEF Home, Places
<1>7. /\ \A s \in Slots : s \in Range(rq'[Prio[s[1]]]) <=> s \in Range(rq[Prio[s[1]]]) \/ s = x
      /\ \A y \in Dispatchers : IsInjective(rq'[y])
  BY <1>1, <1>2, <1>3, <1>4, <1>6, PutReady
<1>8. \A s \in Slots, q \in Places, d \in Contexts :
        Home(s, q, d)' <=> IF s = x THEN q = "RQ" /\ d = Idle ELSE Home(s, q, d)
  <2> SUFFICES ASSUME NEW s \in Slots, NEW q \in Places, NEW d \in Contexts
               PROVE  Home(s, q, d)' <=> IF s = x THEN q = "RQ" /\ d = Idle ELSE Home(s, q, d)
    OBVIOUS
  <2>1. CASE s = x
    BY <1>2, <1>3, <1>5, <1>7, <2>1 DEF Home, SpSlot, Places
  <2>2. CASE s # x
    BY <1>2, <1>3, <1>7, <2>2 DEF Home, SpSlot
  <2> QED BY <2>1, <2>2
<1>9. OneHome'
  BY <1>1, <1>3, <1>8, MovedHome DEF Places
<1>10. NoRepeats'
  BY <1>3, <1>7 DEF NoRepeats
<1>11. Written'
  <2>1. \A d \in Contexts : pc'[d] # "rq"
    BY <1>1, <1>2 DEF InitSpawn, InitAlone, Contexts
  <2> QED BY <2>1 DEF Written
<1>12. Jobless'
  BY <1>2 DEF MessageInv, Jobless
<1> QED BY <1>9, <1>10, <1>11, <1>12 DEF MessageInv

(* The spawn takes the index it read: it is still the head of the queue.   *)
LEMMA SpawnDequeueMessages ==
  ASSUME Inv, MessageInv, NEW c \in Contexts, SpawnDequeue(c), sp[c].index # None
  PROVE  MessageInv'
<1> DEFINE x == SpSlot(c)
           t == sp[c].task
<1>1. TypeOK /\ OneHome /\ NoRepeats /\ Written /\ Jobless /\ ShapeOf(c) /\ Idle \in Contexts
  BY LevelFacts DEF Inv, MessageInv, Shape
<1>2. /\ pc[c] = "fq" /\ Goto(c, "input") /\ fq' = [fq EXCEPT ![t] = Tail(fq[t])]
      /\ UNCHANGED <<sp, job, rq, inputs>>
  BY DEF SpawnDequeue, At
<1>3. t \in SwTasks /\ fq[t] # <<>> /\ x = <<t, Head(fq[t])>>
  BY <1>1, <1>2 DEF ShapeOf, InSpawn, UserCode, SpawnLocals, Inv, HeadsKept, SpSlot
<1> HIDE DEF x, t
<1>4. /\ x \in Slots /\ Home(x, "FQ", Idle)
      /\ \A s \in Slots : s[2] \in Range(fq'[s[1]]) <=> s[2] \in Range(fq[s[1]]) /\ s # x
      /\ \A y \in SwTasks : IsInjective(fq'[y])
  BY <1>1, <1>2, <1>3, TakeFree
<1>5. \A d \in Contexts : pc'[d] = IF d = c THEN "input" ELSE pc[d]
  BY <1>1, <1>2 DEF TypeOK, Goto
<1>6. \A d \in Contexts : SpSlot(d)' = SpSlot(d)
  BY <1>2 DEF SpSlot
<1>7. \A q \in Places, d \in Contexts : Home(x, q, d) <=> q = "FQ" /\ d = Idle
  BY <1>1, <1>4, HomeIs DEF Places
<1>8. \A s \in Slots, q \in Places, d \in Contexts :
        Home(s, q, d)' <=> IF s = x THEN q = "spawn" /\ d = c ELSE Home(s, q, d)
  <2> SUFFICES ASSUME NEW s \in Slots, NEW q \in Places, NEW d \in Contexts
               PROVE  Home(s, q, d)' <=> IF s = x THEN q = "spawn" /\ d = c ELSE Home(s, q, d)
    OBVIOUS
  <2>1. CASE s = x
    BY <1>2, <1>4, <1>5, <1>6, <1>7, <2>1 DEF Home, Places, x
  <2>2. CASE s # x
    BY <1>2, <1>4, <1>5, <1>6, <2>2 DEF Home, x
  <2> QED BY <2>1, <2>2
<1>9. OneHome'
  BY <1>1, <1>4, <1>8, MovedHome DEF Places
<1>10. NoRepeats'
  BY <1>1, <1>2, <1>4 DEF NoRepeats
<1>11. Written'
  BY <1>1, <1>2, <1>5, <1>6 DEF Written
<1>12. Jobless'
  BY <1>1, <1>2, <1>5 DEF Jobless, JobCode, UserCode, Contexts, Handlers
<1> QED BY <1>9, <1>10, <1>11, <1>12 DEF MessageInv

(* The message is written to a slot nobody else has. *)
LEMMA SpawnWriteMessages ==
  ASSUME Inv, MessageInv, NEW c \in Contexts, SpawnWrite(c)
  PROVE  MessageInv' /\ UNCHANGED <<Waiting, Current>>
<1> DEFINE x == SpSlot(c)
<1>1. /\ TypeOK /\ OneHome /\ NoRepeats /\ Written /\ Jobless /\ Shape
      /\ ShapeOf(c) /\ Dispatchers \subseteq Contexts
  BY DEF Inv, MessageInv, Shape, Contexts, Handlers
<1>2. /\ pc[c] = "input" /\ Goto(c, "rq") /\ inputs' = [inputs EXCEPT ![x] = sp[c].payload]
      /\ UNCHANGED <<sp, job, fq, rq>>
  BY DEF SpawnWrite, At, locals
<1>3. x \in Slots
  BY <1>1, <1>2, SlotFacts DEF ShapeOf, InSpawn, UserCode, SpawnLocals, SpSlot
<1>4. \A d \in Contexts : pc'[d] = IF d = c THEN "rq" ELSE pc[d]
  BY <1>1, <1>2 DEF TypeOK, Goto
<1>5. \A d \in Contexts : SpSlot(d)' = SpSlot(d)
  BY <1>2 DEF SpSlot
<1>6. Home(x, "spawn", c)
  BY <1>2 DEF Home
<1> HIDE DEF x
<1>7. \A q \in Places, d \in Contexts : Home(x, q, d) <=> q = "spawn" /\ d = c
  BY <1>1, <1>3, <1>6, HomeIs DEF Places
<1>8. \A s \in Slots, q \in Places, d \in Contexts : Home(s, q, d)' <=> Home(s, q, d)
  BY <1>2, <1>4, <1>5 DEF Home
<1>9. OneHome'
  BY <1>1, <1>8, SameHome
<1>10. NoRepeats' /\ Jobless'
  BY <1>1, <1>2, <1>4 DEF NoRepeats, Jobless, JobCode, UserCode
<1>11. inputs'[x] = sp[c].payload /\ \A s \in Slots \ {x} : inputs'[s] = inputs[s]
  BY <1>1, <1>2, <1>3 DEF TypeOK
<1>12. Written'
  <2> SUFFICES ASSUME NEW d \in Contexts, pc'[d] = "rq" PROVE inputs'[SpSlot(d)] = sp[d].payload
    BY <1>2, <1>5 DEF Written
  <2>1. CASE d = c
    BY <1>11, <2>1 DEF x
  <2>2. CASE d # c
    <3>1. pc[d] = "rq" /\ Home(SpSlot(d), "spawn", d)
      BY <1>4, <2>2 DEF Home
    <3>2. SpSlot(d) # x
      BY <1>7, <2>2, <3>1 DEF Places
    <3>3. SpSlot(d) \in Slots
      BY <1>1, <3>1, SlotFacts DEF Shape, ShapeOf, InSpawn, UserCode, SpawnLocals, SpSlot
    <3> QED BY <1>1, <1>11, <3>1, <3>2, <3>3 DEF Written
  <2> QED BY <2>1, <2>2
<1>13. UNCHANGED Waiting
  <2>1. ASSUME NEW l \in Dispatchers, NEW k \in DOMAIN rq[l]
        PROVE  inputs'[rq[l][k]] = inputs[rq[l][k]]
    <3>1. rq[l] \in Seq(LevelSlots(l))
      BY <1>1, TypeParts DEF RqType
    <3>2. rq[l][k] \in LevelSlots(l)
      BY <3>1, LenProperties, ElementOfSeq
    <3>3. rq[l][k] \in Slots /\ Prio[rq[l][k][1]] = l
      BY <3>2 DEF LevelSlots
    <3>4. Home(rq[l][k], "RQ", Idle) /\ Idle \in Contexts
      BY <3>3, LevelFacts DEF Home, Range
    <3>5. rq[l][k] # x
      BY <1>7, <3>4 DEF Places
    <3> QED BY <1>11, <3>3, <3>5
  <2>2. rq' = rq
    BY <1>2
  <2> QED BY <2>1, <2>2 DEF Waiting
<1>14. UNCHANGED Current
  <2>1. ASSUME NEW l \in Dispatchers, pc[l] = "read"
        PROVE  inputs'[job[l].slot] = inputs[job[l].slot]
    <3>1. l \in Contexts /\ job[l].slot \in Slots
      BY <1>1, <2>1 DEF Shape, ShapeOf, JobLocals
    <3>2. Home(job[l].slot, "task", l)
      BY <2>1 DEF Home
    <3>3. job[l].slot # x
      BY <1>7, <3>1, <3>2 DEF Places
    <3> QED BY <1>11, <3>1, <3>3
  <2>2. \A l \in Dispatchers : job'[l] = job[l] /\ (pc'[l] = "read" <=> pc[l] = "read")
    BY <1>1, <1>2, <1>4
  <2> QED BY <2>1, <2>2 DEF Current
<1> QED BY <1>9, <1>10, <1>12, <1>13, <1>14 DEF MessageInv

(* The slot goes to the ready queue. *)
LEMMA SpawnEnqueueMessages ==
  ASSUME Inv, MessageInv, NEW c \in Contexts, SpawnEnqueue(c)
  PROVE  MessageInv'
<1> DEFINE x == SpSlot(c)
<1>1. /\ TypeOK /\ OneHome /\ NoRepeats /\ Written /\ Jobless
      /\ ShapeOf(c) /\ Dispatchers \subseteq Contexts /\ Idle \in Contexts
  BY LevelFacts DEF Inv, MessageInv, Shape, Contexts, Handlers
<1>2. /\ pc[c] = "rq" /\ Goto(c, "pend")
      /\ rq' = [rq EXCEPT ![Prio[sp[c].task]] = Append(rq[Prio[sp[c].task]], x)]
      /\ UNCHANGED <<sp, job, fq, inputs>>
  BY DEF SpawnEnqueue, At, locals
<1>3. x \in Slots /\ x[1] = sp[c].task
  BY <1>1, <1>2, SlotFacts DEF ShapeOf, InSpawn, UserCode, SpawnLocals, SpSlot
<1>4. \A d \in Contexts : pc'[d] = IF d = c THEN "pend" ELSE pc[d]
  BY <1>1, <1>2 DEF TypeOK, Goto
<1>5. \A d \in Contexts : SpSlot(d)' = SpSlot(d)
  BY <1>2 DEF SpSlot
<1>6. Home(x, "spawn", c)
  BY <1>2 DEF Home
<1> HIDE DEF x
<1>7. \A q \in Places, d \in Contexts : Home(x, q, d) <=> q = "spawn" /\ d = c
  BY <1>1, <1>3, <1>6, HomeIs DEF Places
<1>8. x \notin Range(rq[Prio[x[1]]])
  BY <1>1, <1>7 DEF Home, Places
<1>9. /\ \A s \in Slots : s \in Range(rq'[Prio[s[1]]]) <=> s \in Range(rq[Prio[s[1]]]) \/ s = x
      /\ \A y \in Dispatchers : IsInjective(rq'[y])
  BY <1>1, <1>2, <1>3, <1>8, PutReady
<1>10. \A s \in Slots, q \in Places, d \in Contexts :
        Home(s, q, d)' <=> IF s = x THEN q = "RQ" /\ d = Idle ELSE Home(s, q, d)
  <2> SUFFICES ASSUME NEW s \in Slots, NEW q \in Places, NEW d \in Contexts
               PROVE  Home(s, q, d)' <=> IF s = x THEN q = "RQ" /\ d = Idle ELSE Home(s, q, d)
    OBVIOUS
  <2>1. CASE s = x
    BY <1>2, <1>4, <1>5, <1>7, <1>9, <2>1 DEF Home, Places
  <2>2. CASE s # x
    BY <1>2, <1>4, <1>5, <1>9, <2>2 DEF Home, x
  <2> QED BY <2>1, <2>2
<1>11. OneHome'
  BY <1>1, <1>3, <1>10, MovedHome DEF Places
<1>12. NoRepeats'
  BY <1>1, <1>2, <1>9 DEF NoRepeats
<1>13. Written'
  BY <1>1, <1>2, <1>4, <1>5 DEF Written
<1>14. Jobless'
  BY <1>1, <1>2, <1>4 DEF Jobless, JobCode, UserCode
<1> QED BY <1>11, <1>12, <1>13, <1>14 DEF MessageInv

(* The dispatcher takes it from there. *)
LEMMA DequeueMessages ==
  ASSUME Inv, MessageInv, NEW c \in Contexts, Dequeue(c), rq[c] # <<>>
  PROVE  MessageInv'
<1> DEFINE x == Head(rq[c])
<1>1. /\ TypeOK /\ OneHome /\ NoRepeats /\ Written /\ Jobless
      /\ ShapeOf(c) /\ Dispatchers \subseteq Contexts /\ Idle \in Contexts
  BY LevelFacts DEF Inv, MessageInv, Shape, Contexts, Handlers
<1>2. /\ pc[c] = "poll" /\ Goto(c, "read") /\ c \in Dispatchers
      /\ job' = [job EXCEPT ![c] = [slot |-> x, payload |-> None]]
      /\ rq' = [rq EXCEPT ![c] = Tail(rq[c])]
      /\ UNCHANGED <<sp, fq, inputs>>
  BY <1>1 DEF Dequeue, At, ShapeOf
<1>3. /\ x \in Slots /\ Home(x, "RQ", Idle)
      /\ \A s \in Slots : s \in Range(rq'[Prio[s[1]]]) <=> s \in Range(rq[Prio[s[1]]]) /\ s # x
      /\ \A y \in Dispatchers : IsInjective(rq'[y])
  BY <1>1, <1>2, TakeReady
<1> HIDE DEF x
<1>4. /\ \A d \in Contexts : pc'[d] = IF d = c THEN "read" ELSE pc[d]
      /\ \A d \in Contexts \ {c} : job'[d] = job[d]
      /\ job'[c].slot = x
  BY <1>1, <1>2 DEF TypeOK, Goto
<1>5. \A d \in Contexts : SpSlot(d)' = SpSlot(d)
  BY <1>2 DEF SpSlot
<1>6. \A q \in Places, d \in Contexts : Home(x, q, d) <=> q = "RQ" /\ d = Idle
  BY <1>1, <1>3, HomeIs DEF Places
<1>7. \A s \in Slots, q \in Places, d \in Contexts :
        Home(s, q, d)' <=> IF s = x THEN q = "task" /\ d = c ELSE Home(s, q, d)
  <2> SUFFICES ASSUME NEW s \in Slots, NEW q \in Places, NEW d \in Contexts
               PROVE  Home(s, q, d)' <=> IF s = x THEN q = "task" /\ d = c ELSE Home(s, q, d)
    OBVIOUS
  <2>1. CASE s = x
    BY <1>2, <1>3, <1>4, <1>5, <1>6, <2>1 DEF Home, Places
  <2>2. CASE s # x
    BY <1>2, <1>3, <1>4, <1>5, <2>2 DEF Home
  <2> QED BY <2>1, <2>2
<1>8. OneHome'
  BY <1>1, <1>3, <1>7, MovedHome DEF Places
<1>9. NoRepeats'
  BY <1>1, <1>2, <1>3 DEF NoRepeats
<1>10. Written'
  BY <1>1, <1>2, <1>4, <1>5 DEF Written
<1>11. Jobless'
  BY <1>1, <1>4 DEF Jobless, JobCode
<1> QED BY <1>8, <1>9, <1>10, <1>11 DEF MessageInv

(* The task's copy of the message is made while the slot is its own. *)
LEMMA ReadInputMessages ==
  ASSUME Inv, MessageInv, NEW c \in Contexts, ReadInput(c)
  PROVE  MessageInv' /\ UNCHANGED <<Waiting, Current>>
<1> DEFINE j == [job[c] EXCEPT !.payload = inputs[job[c].slot]]
<1>1. /\ TypeOK /\ OneHome /\ NoRepeats /\ Written /\ Jobless
      /\ ShapeOf(c) /\ Dispatchers \subseteq Contexts
  BY DEF Inv, MessageInv, Shape, Contexts, Handlers
<1>2. /\ pc[c] = "read" /\ Goto(c, "free") /\ job' = [job EXCEPT ![c] = j]
      /\ UNCHANGED <<sp, fq, rq, inputs>>
  BY DEF ReadInput, At, queues
<1>3. c \in Dispatchers /\ job[c] \in JobLocals
  BY <1>1, <1>2 DEF ShapeOf
<1>4. j.slot = job[c].slot /\ j.payload = inputs[job[c].slot] /\ j # None
  <2>1. inputs[job[c].slot] \in Payloads \cup {None}
    BY <1>1, <1>3 DEF TypeOK, JobLocals
  <2>2. j \in JobLocals
    BY <1>3, <2>1 DEF JobLocals
  <2>3. j.slot = job[c].slot /\ j.payload = inputs[job[c].slot]
    BY <1>3 DEF JobLocals
  <2> HIDE DEF j
  <2> QED BY <2>2, <2>3, NoneAssumption
<1> HIDE DEF j
<1>5. /\ \A d \in Contexts : pc'[d] = IF d = c THEN "free" ELSE pc[d]
      /\ \A d \in Contexts \ {c} : job'[d] = job[d]
      /\ job'[c] = j
  BY <1>1, <1>2 DEF TypeOK, Goto
<1>6. \A d \in Contexts : SpSlot(d)' = SpSlot(d)
  BY <1>2 DEF SpSlot
<1>7. \A s \in Slots, q \in Places, d \in Contexts : Home(s, q, d)' <=> Home(s, q, d)
  BY <1>2, <1>4, <1>5, <1>6 DEF Home
<1>8. OneHome'
  BY <1>1, <1>7, SameHome
<1>9. NoRepeats' /\ Jobless'
  BY <1>1, <1>2, <1>5 DEF NoRepeats, Jobless, JobCode
<1>10. Written'
  BY <1>1, <1>2, <1>5, <1>6 DEF Written
<1>11. UNCHANGED Waiting
  BY <1>2 DEF Waiting
<1>12. UNCHANGED Current
  <2>1. \A l \in Dispatchers \ {c} : job'[l] = job[l] /\ pc'[l] = pc[l] /\ inputs' = inputs
    BY <1>1, <1>2, <1>5
  <2>2. job[c] # None
    BY <1>3, NoneAssumption
  <2>3. ASSUME NEW l \in Dispatchers
        PROVE  (IF job'[l] = None THEN None
                ELSE <<job'[l].slot[1],
                       IF pc'[l] = "read" THEN inputs'[job'[l].slot] ELSE job'[l].payload>>)
               = (IF job[l] = None THEN None
                  ELSE <<job[l].slot[1],
                         IF pc[l] = "read" THEN inputs[job[l].slot] ELSE job[l].payload>>)
    <3>1. CASE l = c
      BY <1>2, <1>4, <1>5, <2>2, <3>1
    <3>2. CASE l # c
      BY <2>1, <3>2
    <3> QED BY <3>1, <3>2
  <2> QED BY <2>3 DEF Current
<1> QED BY <1>8, <1>9, <1>10, <1>11, <1>12 DEF MessageInv

(* The slot is free again. *)
LEMMA FreeSlotMessages ==
  ASSUME Inv, MessageInv, NEW c \in Contexts, FreeSlot(c)
  PROVE  MessageInv' /\ UNCHANGED <<Waiting, Current>>
<1> DEFINE x == job[c].slot
<1>1. /\ TypeOK /\ OneHome /\ NoRepeats /\ Written /\ Jobless
      /\ ShapeOf(c) /\ Dispatchers \subseteq Contexts /\ Idle \in Contexts
  BY LevelFacts DEF Inv, MessageInv, Shape, Contexts, Handlers
<1>2. /\ pc[c] = "free" /\ Goto(c, "body")
      /\ fq' = [fq EXCEPT ![x[1]] = Append(fq[x[1]], x[2])]
      /\ UNCHANGED <<sp, job, rq, inputs>>
  BY DEF FreeSlot, At
<1>3. c \in Dispatchers /\ x \in Slots
  BY <1>1, <1>2 DEF ShapeOf, JobLocals
<1>4. \A d \in Contexts : pc'[d] = IF d = c THEN "body" ELSE pc[d]
  BY <1>1, <1>2 DEF TypeOK, Goto
<1>5. \A d \in Contexts : SpSlot(d)' = SpSlot(d)
  BY <1>2 DEF SpSlot
<1>6. Home(x, "task", c)
  BY <1>2, <1>3 DEF Home
<1> HIDE DEF x
<1>7. \A q \in Places, d \in Contexts : Home(x, q, d) <=> q = "task" /\ d = c
  BY <1>1, <1>3, <1>6, HomeIs DEF Places
<1>8. x[2] \notin Range(fq[x[1]])
  BY <1>1, <1>7 DEF Home, Places
<1>9. /\ \A s \in Slots : s[2] \in Range(fq'[s[1]]) <=> s[2] \in Range(fq[s[1]]) \/ s = x
      /\ \A y \in SwTasks : IsInjective(fq'[y])
  BY <1>1, <1>2, <1>3, <1>8, PutFree
<1>10. \A s \in Slots, q \in Places, d \in Contexts :
        Home(s, q, d)' <=> IF s = x THEN q = "FQ" /\ d = Idle ELSE Home(s, q, d)
  <2> SUFFICES ASSUME NEW s \in Slots, NEW q \in Places, NEW d \in Contexts
               PROVE  Home(s, q, d)' <=> IF s = x THEN q = "FQ" /\ d = Idle ELSE Home(s, q, d)
    OBVIOUS
  <2>1. CASE s = x
    BY <1>2, <1>4, <1>5, <1>7, <1>9, <2>1 DEF Home, Places
  <2>2. CASE s # x
    BY <1>2, <1>4, <1>5, <1>9, <2>2 DEF Home, x
  <2> QED BY <2>1, <2>2
<1>11. OneHome'
  BY <1>1, <1>3, <1>10, MovedHome DEF Places
<1>12. NoRepeats'
  BY <1>1, <1>2, <1>9 DEF NoRepeats
<1>13. Written'
  BY <1>1, <1>2, <1>4, <1>5 DEF Written
<1>14. Jobless'
  BY <1>1, <1>2, <1>4 DEF Jobless, JobCode, UserCode
<1>15. UNCHANGED Waiting
  BY <1>2 DEF Waiting
<1>16. UNCHANGED Current
  <2>1. \A l \in Dispatchers :
          job'[l] = job[l] /\ (pc'[l] = "read" <=> pc[l] = "read") /\ inputs' = inputs
    BY <1>1, <1>2, <1>4
  <2> QED BY <2>1 DEF Current
<1> QED BY <1>11, <1>12, <1>13, <1>14, <1>15, <1>16 DEF MessageInv

LEMMA EndTaskMessages ==
  ASSUME Inv, MessageInv, NEW c \in Contexts, EndTask(c)
  PROVE  MessageInv'
<1>1. /\ TypeOK /\ OneHome /\ NoRepeats /\ Written /\ Jobless
      /\ Dispatchers \subseteq Contexts
  BY DEF Inv, MessageInv, Contexts, Handlers
<1>2. /\ pc[c] = "body" /\ Goto(c, IF c \in Dispatchers THEN "poll" ELSE "exit")
      /\ job' = [job EXCEPT ![c] = None]
      /\ UNCHANGED <<sp, fq, rq, inputs>>
  BY DEF EndTask, At, queues
<1>3. /\ \A d \in Contexts \ {c} : pc'[d] = pc[d] /\ job'[d] = job[d]
      /\ pc'[c] \in {"poll", "exit"} /\ job'[c] = None
  BY <1>1, <1>2 DEF TypeOK, Goto
<1>4. \A d \in Contexts : SpSlot(d)' = SpSlot(d)
  BY <1>2 DEF SpSlot
<1>5. \A s \in Slots, q \in Places, d \in Contexts : Home(s, q, d)' <=> Home(s, q, d)
  <2> SUFFICES ASSUME NEW s \in Slots, NEW q \in Places, NEW d \in Contexts
               PROVE  Home(s, q, d)' <=> Home(s, q, d)
    OBVIOUS
  <2>1. CASE d = c
    BY <1>2, <1>3, <2>1 DEF Home
  <2>2. CASE d # c
    BY <1>2, <1>3, <1>4, <2>2 DEF Home
  <2> QED BY <2>1, <2>2
<1>6. OneHome'
  BY <1>1, <1>5, SameHome
<1>7. NoRepeats' /\ Jobless'
  BY <1>1, <1>2, <1>3 DEF NoRepeats, Jobless
<1>8. Written'
  BY <1>1, <1>2, <1>3, <1>4 DEF Written
<1> QED BY <1>6, <1>7, <1>8 DEF MessageInv

-----------------------------------------------------------------------------
(* The other steps are quiet. *)

LEMMA GotoQuiet ==
  ASSUME TypeOK, NEW c \in Contexts, NEW to, Goto(c, to),
         pc[c] \notin {"input", "rq", "read", "free"}, to \notin {"input", "rq", "read", "free"},
         c \in Dispatchers => (pc[c] \in JobCode <=> to \in JobCode),
         UNCHANGED <<fq, rq, inputs>>,
         \A d \in Contexts \ {c} : sp'[d] = sp[d],
         \A d \in Dispatchers : job'[d] = job[d]
  PROVE  Quiet
<1>1. \A d \in Contexts : pc'[d] = IF d = c THEN to ELSE pc[d]
  BY DEF TypeOK, Goto
<1>2. Dispatchers \subseteq Contexts
  BY DEF Contexts, Handlers
<1> QED BY <1>1, <1>2 DEF Quiet

Moves(c) ==
  \/ SpawnDequeue(c) /\ sp[c].index # None
  \/ SpawnWrite(c)
  \/ SpawnEnqueue(c)
  \/ Dequeue(c) /\ rq[c] # <<>>
  \/ ReadInput(c)
  \/ FreeSlot(c)
  \/ EndTask(c)

LEMMA StepQuiet ==
  ASSUME Inv, NEW c \in Contexts, Step(c)
  PROVE  Quiet \/ Moves(c)
<1>1. TypeOK /\ ShapeOf(c)
  BY DEF Inv, Shape
<1>2. CASE RunEnter(c)
  <2>1. /\ pc[c] = "entry" /\ Goto(c, IF c \in Dispatchers THEN "poll" ELSE "body")
        /\ UNCHANGED <<sp, job, fq, rq, inputs>>
    BY <1>2 DEF RunEnter, At, queues
  <2> QED BY <1>1, <2>1, GotoQuiet DEF JobCode, UserCode
<1>3. CASE RunLeave(c)
  <2>1. pc[c] = "exit" /\ Goto(c, "eoi") /\ UNCHANGED <<sp, job, fq, rq, inputs>>
    BY <1>3 DEF RunLeave, At, queues, locals
  <2> QED BY <1>1, <2>1, GotoQuiet DEF JobCode, UserCode
<1>4. CASE EndOfInterrupt(c)
  <2>1. pc[c] = "eoi" /\ Goto(c, "off") /\ UNCHANGED <<sp, job, fq, rq, inputs>>
    BY <1>4 DEF EndOfInterrupt, At, queues, locals
  <2> QED BY <1>1, <2>1, GotoQuiet DEF JobCode, UserCode
<1>5. CASE \/ \E r \in Resources : Lock(c, r)
           \/ Unlock(c)
  <2>1. UNCHANGED <<pc, sp, job, fq, rq, inputs>>
    BY <1>5 DEF Lock, Unlock, queues, locals
  <2> QED BY <2>1 DEF Quiet
<1>6. CASE \E t \in SwTasks, v \in Payloads : SpawnBegin(c, t, v)
  <2>1. PICK t \in SwTasks, v \in Payloads : SpawnBegin(c, t, v)
    BY <1>6
  <2>2. /\ pc[c] = "body" /\ Goto(c, "fq") /\ UNCHANGED <<job, fq, rq, inputs>>
        /\ \A d \in Contexts \ {c} : sp'[d] = sp[d]
    BY <1>1, <2>1 DEF SpawnBegin, At, queues, TypeOK
  <2> QED BY <1>1, <2>2, GotoQuiet DEF JobCode, UserCode
<1>7. CASE SpawnDequeue(c) /\ sp[c].index = None
  <2>1. /\ pc[c] = "fq" /\ Goto(c, "body") /\ UNCHANGED <<job, fq, rq, inputs>>
        /\ \A d \in Contexts \ {c} : sp'[d] = sp[d]
    BY <1>1, <1>7 DEF SpawnDequeue, At, TypeOK
  <2> QED BY <1>1, <2>1, GotoQuiet DEF JobCode, UserCode
<1>8. CASE SpawnPend(c)
  <2>1. /\ pc[c] = "pend" /\ Goto(c, "body") /\ UNCHANGED <<job, fq, rq, inputs>>
        /\ \A d \in Contexts \ {c} : sp'[d] = sp[d]
    BY <1>1, <1>8 DEF SpawnPend, At, queues, TypeOK
  <2> QED BY <1>1, <2>1, GotoQuiet DEF JobCode, UserCode
<1>9. CASE Dequeue(c) /\ rq[c] = <<>>
  <2>1. pc[c] = "poll" /\ Goto(c, "exit") /\ UNCHANGED <<sp, job, fq, rq, inputs>>
    BY <1>9 DEF Dequeue, At
  <2> QED BY <1>1, <2>1, GotoQuiet DEF JobCode, UserCode
<1> QED BY <1>2, <1>3, <1>4, <1>5, <1>6, <1>7, <1>8, <1>9 DEF Step, Moves

(* Outside the steps of a context, only a spawn from `init` moves one. *)
LEMMA NextQuiet ==
  ASSUME ContiguousSgis, Inv, [Next]_vars
  PROVE  \/ Quiet
         \/ \E t \in SwTasks, v \in Payloads : InitSpawn(t, v)
         \/ \E c \in Contexts : Moves(c)
<1>1. TypeOK /\ Stacks /\ MaskNow
  BY DEF Inv
<1>2. CASE UNCHANGED vars
  <2>1. UNCHANGED <<pc, sp, job, fq, rq, inputs>>
    BY <1>2 DEF vars, locals, queues
  <2> QED BY <2>1 DEF Quiet
<1>3. CASE StartIdle
  <2>1. pc[Idle] = "init" /\ Goto(Idle, "body") /\ UNCHANGED <<sp, job, fq, rq, inputs>>
    BY <1>3 DEF StartIdle, queues
  <2> QED BY <1>1, <2>1, LevelFacts, GotoQuiet DEF Handlers
<1>4. CASE \E h \in HwTasks : Raise(h)
  <2>1. UNCHANGED <<pc, sp, job, fq, rq, inputs>>
    BY <1>4 DEF Raise, locals, queues
  <2> QED BY <2>1 DEF Quiet
<1>5. CASE \E c \in Handlers : Take(c)
  <2>1. PICK c \in Handlers : Take(c)
    BY <1>5
  <2>2. c \in Contexts /\ Goto(c, "entry") /\ Deliverable(c) /\ UNCHANGED <<sp, job, fq, rq, inputs>>
    BY <2>1 DEF Take, locals, queues, Contexts
  <2>3. pc[c] = "off"
    <3>1. Active(c) => Level[c] < Level[c]
      BY <1>1, <2>2, TakenIsAbove
    <3>2. Level[c] \in 0 .. 31
      BY <2>2, LevelFacts
    <3> QED BY <3>1, <3>2 DEF Active
  <2> QED BY <1>1, <2>2, <2>3, GotoQuiet DEF JobCode, UserCode
<1>6. CASE \E c \in Contexts : Step(c)
  BY <1>6, StepQuiet
<1> QED BY <1>2, <1>3, <1>4, <1>5, <1>6 DEF Next

(* Every slot has one place at any time, no queue holds one twice, and a   *)
(* message is in its slot from before it is enqueued.                      *)
THEOREM MessageInvariance == ContiguousSgis => (Spec => []MessageInv)
<1> SUFFICES ASSUME ContiguousSgis PROVE Spec => []MessageInv
  OBVIOUS
<1>1. Init => MessageInv
  BY InitMessages
<1>2. Inv /\ MessageInv /\ [Next]_vars => MessageInv'
  <2> SUFFICES ASSUME Inv, MessageInv, [Next]_vars PROVE MessageInv'
    OBVIOUS
  <2>1. CASE Quiet
    BY <2>1, QuietKeeps
  <2>2. CASE \E t \in SwTasks, v \in Payloads : InitSpawn(t, v)
    BY <2>2, InitSpawnMessages
  <2>3. CASE \E c \in Contexts : Moves(c)
    BY <2>3, SpawnDequeueMessages, SpawnWriteMessages, SpawnEnqueueMessages,
       DequeueMessages, ReadInputMessages, FreeSlotMessages, EndTaskMessages DEF Moves
  <2> QED BY <2>1, <2>2, <2>3, NextQuiet
<1> QED BY <1>1, <1>2, Invariance, PTL DEF Spec

-----------------------------------------------------------------------------
(* Capacities. *)

LEMMA FiniteSlots ==
  /\ IsFiniteSet(Slots)
  /\ \A t \in SwTasks : IsFiniteSet(Indices(t)) /\ Cardinality(Indices(t)) = Cap[t]
<1>1. ASSUME NEW t \in SwTasks
      PROVE  IsFiniteSet(Indices(t)) /\ Cardinality(Indices(t)) = Cap[t]
  <2>1. Cap[t] \in Nat /\ 0 \in Int /\ Cap[t] - 1 \in Int
    BY SpawnAssumption
  <2>2. /\ IsFiniteSet(0 .. Cap[t] - 1)
        /\ Cardinality(0 .. Cap[t] - 1) = IF 0 > Cap[t] - 1 THEN 0 ELSE Cap[t] - 1 - 0 + 1
    BY <2>1, FS_Interval
  <2> QED BY <2>1, <2>2 DEF Indices
<1>2. ASSUME NEW t \in SwTasks PROVE IsFiniteSet({t} \X Indices(t))
  BY <1>1, FS_Product, FS_Singleton
<1> DEFINE f == [t \in SwTasks |-> {t} \X Indices(t)]
           U == {{t} \X Indices(t) : t \in SwTasks}
<1>3. f \in Surjection(SwTasks, U)
  BY DEF Surjection
<1>4. IsFiniteSet(U)
  <2> HIDE DEF f, U
  <2> QED BY <1>3, FS_Surjection, CapacityAssumption
<1>5. \A T \in U : IsFiniteSet(T)
  BY <1>2
<1>6. IsFiniteSet(UNION U)
  <2> HIDE DEF f, U
  <2> QED BY <1>4, <1>5, FS_UNION
<1> QED BY <1>1, <1>6 DEF Slots

LEMMA InjectiveLength ==
  ASSUME NEW S, IsFiniteSet(S), NEW q \in Seq(S), IsInjective(q)
  PROVE  Len(q) =< Cardinality(S)
<1>1. Len(q) \in Nat /\ q \in [1 .. Len(q) -> S]
  BY LenProperties
<1>2. q \in Injection(1 .. Len(q), S)
  BY <1>1 DEF Injection
<1>3. Cardinality(1 .. Len(q)) =< Cardinality(S)
  BY <1>2, FS_Injection
<1>4. Cardinality(1 .. Len(q)) = Len(q)
  BY <1>1, FS_Interval
<1> QED BY <1>3, <1>4

LEMMA OwnersFromHome ==
  ASSUME TypeOK, MessageInv, NEW s \in Slots
  PROVE  \E o \in SlotOwners(s) : SlotOwners(s) = {o}
<1> DEFINE A == {k \in DOMAIN fq[s[1]] : fq[s[1]][k] = s[2]}
           B == {k \in DOMAIN rq[Prio[s[1]]] : rq[Prio[s[1]]][k] = s}
           C == {c \in Contexts : pc[c] \in {"input", "rq"} /\ SpSlot(c) = s}
           D == {c \in Dispatchers : pc[c] \in {"read", "free"} /\ job[c].slot = s}
<1>1. SlotOwners(s) = {<<"FQ", k>> : k \in A} \cup {<<"RQ", k>> : k \in B}
                      \cup {<<"spawn", k>> : k \in C} \cup {<<"task", k>> : k \in D}
  BY DEF SlotOwners
<1>2. PICK p \in Places, c \in Contexts :
        \A q \in Places, d \in Contexts : Home(s, q, d) <=> q = p /\ d = c
  BY DEF MessageInv, OneHome
<1>3. Idle \in Contexts /\ Dispatchers \subseteq Contexts /\ s[1] \in SwTasks /\ Prio[s[1]] \in Dispatchers
  BY LevelFacts, SlotFacts DEF Contexts, Handlers
<1>4. IsInjective(fq[s[1]]) /\ IsInjective(rq[Prio[s[1]]])
  BY <1>3 DEF MessageInv, NoRepeats
<1>5. /\ A # {} <=> Home(s, "FQ", Idle)
      /\ B # {} <=> Home(s, "RQ", Idle)
  BY DEF Home, Range
<1>6. \A d \in Contexts : (d \in C <=> Home(s, "spawn", d)) /\ (d \in D <=> Home(s, "task", d))
  BY DEF Home
<1>7. /\ \A i, j \in A : i = j
      /\ \A i, j \in B : i = j
  BY <1>4 DEF IsInjective
<1>8. C \subseteq Contexts /\ D \subseteq Contexts
  BY <1>3
<1> HIDE DEF A, B, C, D
<1>9. /\ A # {} <=> p = "FQ" /\ c = Idle
      /\ B # {} <=> p = "RQ" /\ c = Idle
      /\ \A d \in Contexts : d \in C <=> p = "spawn" /\ d = c
      /\ \A d \in Contexts : d \in D <=> p = "task" /\ d = c
  BY <1>2, <1>3, <1>5, <1>6 DEF Places
<1>10. p = "FQ" \/ p = "RQ" => c = Idle
  BY <1>2, <1>3 DEF Home
<1>11. CASE p = "FQ"
  <2>1. PICK k : k \in A
    BY <1>9, <1>10, <1>11
  <2>2. A = {k} /\ B = {} /\ C = {} /\ D = {}
    BY <1>7, <1>8, <1>9, <1>11, <2>1
  <2>3. SlotOwners(s) = {<<"FQ", k>>}
    BY <1>1, <2>2
  <2> QED BY <2>3
<1>12. CASE p = "RQ"
  <2>1. PICK k : k \in B
    BY <1>9, <1>10, <1>12
  <2>2. A = {} /\ B = {k} /\ C = {} /\ D = {}
    BY <1>7, <1>8, <1>9, <1>12, <2>1
  <2>3. SlotOwners(s) = {<<"RQ", k>>}
    BY <1>1, <2>2
  <2> QED BY <2>3
<1>13. CASE p = "spawn"
  <2>1. A = {} /\ B = {} /\ C = {c} /\ D = {}
    BY <1>8, <1>9, <1>13
  <2>2. SlotOwners(s) = {<<"spawn", c>>}
    BY <1>1, <2>1
  <2> QED BY <2>2
<1>14. CASE p = "task"
  <2>1. A = {} /\ B = {} /\ C = {} /\ D = {c}
    BY <1>8, <1>9, <1>14
  <2>2. SlotOwners(s) = {<<"task", c>>}
    BY <1>1, <2>1
  <2> QED BY <2>2
<1> QED BY <1>11, <1>12, <1>13, <1>14 DEF Places

(* Every slot of every INPUTS buffer has exactly one owner at any time,    *)
(* and neither the free queue of a task nor the ready queue of a level is  *)
(* ever given more than it holds: enqueue_unchecked is sound for every     *)
(* application, from the capacities alone.                                 *)
THEOREM SlotsConserved == ContiguousSgis => (Spec => []SlotConservation)
<1>1. Inv /\ MessageInv => SlotConservation
  <2> SUFFICES ASSUME Inv, MessageInv PROVE SlotConservation
    OBVIOUS
  <2>1. TypeOK
    BY DEF Inv
  <2>2. ASSUME NEW t \in SwTasks PROVE Len(fq[t]) =< Cap[t]
    <3>1. fq[t] \in Seq(Indices(t)) /\ IsInjective(fq[t])
      BY <2>1 DEF TypeOK, MessageInv, NoRepeats
    <3> QED BY <3>1, FiniteSlots, InjectiveLength
  <2>3. ASSUME NEW l \in Dispatchers PROVE Len(rq[l]) =< RqCap[l]
    <3>1. rq[l] \in Seq(LevelSlots(l)) /\ IsInjective(rq[l])
      BY <2>1, TypeParts DEF RqType, MessageInv, NoRepeats
    <3>2. IsFiniteSet(LevelSlots(l))
      <4>1. LevelSlots(l) \in SUBSET Slots
        BY DEF LevelSlots
      <4> QED BY <4>1, FiniteSlots, FS_Subset
    <3>3. Len(rq[l]) =< Cardinality(LevelSlots(l)) /\ Cardinality(LevelSlots(l)) \in Nat
      BY <3>1, <3>2, InjectiveLength, FS_CardinalityType
    <3>4. Cardinality(LevelSlots(l)) =< RqCap[l] /\ RqCap[l] \in Nat
      BY CapacityAssumption, SpawnAssumption DEF LevelSlots
    <3>5. Len(rq[l]) \in Nat
      BY <3>1, LenProperties
    <3> QED BY <3>3, <3>4, <3>5
  <2> QED BY <2>1, <2>2, <2>3, OwnersFromHome DEF SlotConservation
<1> QED BY <1>1, Invariance, MessageInvariance, PTL

-----------------------------------------------------------------------------
(* The runtime implements the abstract task queues. *)

Message == SwTasks \X (Payloads \cup {None})

LEMMA WaitingFacts ==
  ASSUME TypeOK, NEW l \in Dispatchers
  PROVE  /\ Waiting[l] \in Seq(Message)
         /\ Len(Waiting[l]) = Len(rq[l])
         /\ DOMAIN Waiting[l] = DOMAIN rq[l]
         /\ \A k \in 1 .. Len(rq[l]) : Waiting[l][k] = <<rq[l][k][1], inputs[rq[l][k]]>>
         /\ Waiting[l] = <<>> <=> rq[l] = <<>>
<1>1. rq[l] \in Seq(Slots) /\ inputs \in [Slots -> Payloads \cup {None}]
  BY DEF TypeOK
<1>2. /\ Len(rq[l]) \in Nat /\ DOMAIN rq[l] = 1 .. Len(rq[l])
      /\ \A k \in 1 .. Len(rq[l]) : rq[l][k] \in Slots
  BY <1>1, LenProperties, ElementOfSeq
<1>3. \A k \in 1 .. Len(rq[l]) : <<rq[l][k][1], inputs[rq[l][k]]>> \in Message
  BY <1>1, <1>2, SlotFacts DEF Message
<1>4. Waiting[l] = [k \in 1 .. Len(rq[l]) |-> <<rq[l][k][1], inputs[rq[l][k]]>>]
  BY <1>2 DEF Waiting
<1> DEFINE w == Waiting[l]
           n == Len(rq[l])
<1> HIDE DEF w, n
<1>5. w \in [1 .. n -> Message]
  BY <1>3, <1>4 DEF w, n
<1>6. w \in Seq(Message) /\ Len(w) = n /\ DOMAIN w = 1 .. n
  BY <1>2, <1>5 DEF n
<1>7. w = <<>> <=> n = 0
  BY <1>6, EmptySeq
<1>8. rq[l] = <<>> <=> n = 0
  BY <1>1, <1>2, EmptySeq DEF n
<1> QED BY <1>2, <1>4, <1>6, <1>7, <1>8 DEF w, n

LEMMA WaitingFactsNext ==
  ASSUME TypeOK', NEW l \in Dispatchers
  PROVE  /\ Waiting'[l] \in Seq(Message)
         /\ Len(Waiting'[l]) = Len(rq'[l])
         /\ \A k \in 1 .. Len(rq'[l]) : Waiting'[l][k] = <<rq'[l][k][1], inputs'[rq'[l][k]]>>
<1>1. rq'[l] \in Seq(Slots) /\ inputs' \in [Slots -> Payloads \cup {None}]
  BY DEF TypeOK
<1>2. /\ Len(rq'[l]) \in Nat /\ DOMAIN rq'[l] = 1 .. Len(rq'[l])
      /\ \A k \in 1 .. Len(rq'[l]) : rq'[l][k] \in Slots
  BY <1>1, LenProperties, ElementOfSeq
<1>3. \A k \in 1 .. Len(rq'[l]) : <<rq'[l][k][1], inputs'[rq'[l][k]]>> \in Message
  BY <1>1, <1>2, SlotFacts DEF Message
<1>4. Waiting'[l] = [k \in 1 .. Len(rq'[l]) |-> <<rq'[l][k][1], inputs'[rq'[l][k]]>>]
  BY <1>2 DEF Waiting
<1> DEFINE w == Waiting'[l]
           n == Len(rq'[l])
<1> HIDE DEF w, n
<1>5. w \in [1 .. n -> Message]
  BY <1>3, <1>4 DEF w, n
<1>6. w \in Seq(Message) /\ Len(w) = n
  BY <1>2, <1>5 DEF n
<1> QED BY <1>2, <1>4, <1>6 DEF w, n

(* The abstract specification counts as this module does. *)
LEMMA SameCardinality ==
  ASSUME NEW S
  PROVE  Mailbox!Cardinality(S) = Cardinality(S)
  BY DEF Mailbox!Cardinality, Cardinality

(* A slot that is not in the ready queue leaves room for its message.      *)
LEMMA RoomToPost ==
  ASSUME TypeOK, MessageInv, NEW x \in Slots, x \notin Range(rq[Prio[x[1]]])
  PROVE  Cardinality(Mailbox!OfTask(x[1])) < Cap[x[1]]
<1> DEFINE t == x[1]
           l == Prio[t]
           K == {k \in 1 .. Len(rq[l]) : rq[l][k][1] = t}
           I == Indices(t) \ {x[2]}
           f == [k \in K |-> rq[l][k][2]]
<1>1. t \in SwTasks /\ l \in Dispatchers /\ x[2] \in Indices(t) /\ x = <<t, x[2]>>
  BY SlotFacts, LevelFacts
<1> HIDE DEF t, l
<1>2. /\ rq[l] \in Seq(Slots) /\ DOMAIN rq[l] = 1 .. Len(rq[l]) /\ IsInjective(rq[l])
      /\ \A k \in 1 .. Len(rq[l]) : rq[l][k] \in Slots
  BY <1>1, LenProperties, ElementOfSeq DEF TypeOK, MessageInv, NoRepeats
<1>3. Mailbox!OfTask(t) = K
  <2>1. /\ DOMAIN Waiting[l] = 1 .. Len(rq[l])
        /\ \A k \in 1 .. Len(rq[l]) : Waiting[l][k] = <<rq[l][k][1], inputs[rq[l][k]]>>
    BY <1>1, <1>2, WaitingFacts
  <2> QED BY <2>1 DEF Mailbox!OfTask, l
<1>4. ASSUME NEW k \in K PROVE rq[l][k] = <<t, rq[l][k][2]>> /\ rq[l][k][2] \in I
  <2>1. rq[l][k] \in Slots /\ rq[l][k][1] = t
    BY <1>2
  <2>2. rq[l][k] = <<t, rq[l][k][2]>> /\ rq[l][k][2] \in Indices(t)
    BY <2>1, SlotFacts
  <2>3. rq[l][k] # x
    BY <1>2 DEF Range, l, t
  <2> QED BY <1>1, <2>2, <2>3
<1>5. f \in Injection(K, I)
  <2>1. f \in [K -> I]
    BY <1>4
  <2>2. ASSUME NEW i \in K, NEW j \in K, f[i] = f[j] PROVE i = j
    <3>1. rq[l][i] = rq[l][j]
      BY <1>4, <2>2
    <3> QED BY <1>2, <3>1 DEF IsInjective
  <2> QED BY <2>1, <2>2 DEF Injection, IsInjective
<1>6. IsFiniteSet(I) /\ Cardinality(I) = Cap[t] - 1 /\ Cap[t] \in Nat
  <2>1. IsFiniteSet(Indices(t)) /\ Cardinality(Indices(t)) = Cap[t] /\ Cap[t] \in Nat
    BY <1>1, FiniteSlots, SpawnAssumption
  <2>2. /\ IsFiniteSet(Indices(t) \ {x[2]})
        /\ Cardinality(Indices(t) \ {x[2]}) =
              IF x[2] \in Indices(t) THEN Cardinality(Indices(t)) - 1 ELSE Cardinality(Indices(t))
    BY <2>1, FS_RemoveElement
  <2> QED BY <1>1, <2>1, <2>2
<1> HIDE DEF K, I, f
<1>7. IsFiniteSet(K) /\ Cardinality(K) =< Cap[t] - 1
  BY <1>5, <1>6, FS_Injection
<1>8. Cardinality(K) \in Nat
  BY <1>7, FS_CardinalityType
<1> QED BY <1>3, <1>6, <1>7, <1>8 DEF t

(* A slot that enters the ready queue posts the message in it. *)
LEMMA PostStep ==
  ASSUME TypeOK, TypeOK', MessageInv, NEW x \in Slots, x \notin Range(rq[Prio[x[1]]]),
         rq' = [rq EXCEPT ![Prio[x[1]]] = Append(rq[Prio[x[1]]], x)],
         \A s \in Slots \ {x} : inputs'[s] = inputs[s],
         inputs'[x] \in Payloads,
         UNCHANGED Current
  PROVE  \E t \in SwTasks, v \in Payloads : Mailbox!Post(t, v)
<1> DEFINE t == x[1]
           l == Prio[t]
           v == inputs'[x]
<1>1. t \in SwTasks /\ l \in Dispatchers
  BY SlotFacts, LevelFacts
<1> HIDE DEF t, l, v
<1>2. Cardinality(Mailbox!OfTask(t)) < Cap[t]
  BY RoomToPost DEF t
<1>3. rq \in [Dispatchers -> Seq(Slots)] /\ rq' \in [Dispatchers -> Seq(Slots)] /\ v \in Payloads
  BY DEF TypeOK, v
<1>4. rq'[l] = Append(rq[l], x) /\ \A y \in Dispatchers \ {l} : rq'[y] = rq[y]
  BY <1>1, <1>3 DEF t, l
<1>5. ASSUME NEW y \in Dispatchers, NEW k \in 1 .. Len(rq[y])
      PROVE  rq[y][k] \in Slots /\ inputs'[rq[y][k]] = inputs[rq[y][k]]
  <2>1. rq[y] \in Seq(LevelSlots(y)) /\ DOMAIN rq[y] = 1 .. Len(rq[y])
    BY <1>3, TypeParts, LenProperties DEF RqType
  <2>2. rq[y][k] \in Slots /\ Prio[rq[y][k][1]] = y
    BY <2>1, ElementOfSeq DEF LevelSlots
  <2>3. rq[y][k] \in Range(rq[y])
    BY <2>1 DEF Range
  <2>4. rq[y][k] # x
    BY <2>2, <2>3
  <2> QED BY <2>2, <2>4
<1>6. Waiting'[l] = Append(Waiting[l], <<t, v>>)
  <2> DEFINE n == Len(rq[l])
             w == Waiting[l]
             u == Waiting'[l]
  <2>1. /\ w \in Seq(Message) /\ Len(w) = n
        /\ \A k \in 1 .. n : w[k] = <<rq[l][k][1], inputs[rq[l][k]]>>
    BY <1>1, WaitingFacts
  <2>2. /\ n \in Nat /\ Len(rq'[l]) = n + 1 /\ rq'[l][n + 1] = x
        /\ \A k \in 1 .. n : rq'[l][k] = rq[l][k]
    <3>1. rq[l] \in Seq(Slots)
      BY <1>1, <1>3
    <3> QED BY <1>4, <3>1, PushFacts, LenProperties
  <2>3. /\ u \in Seq(Message) /\ Len(u) = n + 1
        /\ \A k \in 1 .. n + 1 : u[k] = <<rq'[l][k][1], inputs'[rq'[l][k]]>>
    BY <1>1, <2>2, WaitingFactsNext
  <2> HIDE DEF n, w, u
  <2>4. <<t, v>> \in Message
    BY <1>1, <1>3 DEF Message
  <2>5. /\ Append(w, <<t, v>>) \in Seq(Message) /\ Len(Append(w, <<t, v>>)) = n + 1
        /\ \A k \in 1 .. n : Append(w, <<t, v>>)[k] = w[k]
        /\ Append(w, <<t, v>>)[n + 1] = <<t, v>>
    BY <2>1, <2>4, PushFacts
  <2>6. ASSUME NEW k \in 1 .. n + 1 PROVE u[k] = Append(w, <<t, v>>)[k]
    <3>1. CASE k = n + 1
      <4>1. u[k] = <<x[1], inputs'[x]>>
        BY <2>2, <2>3, <3>1
      <4> QED BY <2>5, <3>1, <4>1 DEF t, v
    <3>2. CASE k # n + 1
      <4>1. k \in 1 .. n
        BY <2>2, <3>2
      <4>2. inputs'[rq[l][k]] = inputs[rq[l][k]] /\ rq'[l][k] = rq[l][k]
        BY <1>1, <1>5, <2>2, <4>1 DEF n
      <4>3. u[k] = <<rq'[l][k][1], inputs'[rq'[l][k]]>>
        BY <2>3
      <4>4. w[k] = <<rq[l][k][1], inputs[rq[l][k]]>>
        BY <2>1, <4>1
      <4>5. u[k] = w[k]
        BY <4>2, <4>3, <4>4
      <4> QED BY <2>5, <4>1, <4>5
    <3> QED BY <3>1, <3>2
  <2>7. u = Append(w, <<t, v>>)
    BY <2>3, <2>5, <2>6, SeqEqual
  <2> QED BY <2>7 DEF u, w
<1>7. ASSUME NEW y \in Dispatchers, y # l
      PROVE  Waiting'[y] = Waiting[y]
  <2>1. rq'[y] = rq[y]
    BY <1>4, <1>7
  <2>2. /\ Waiting[y] \in Seq(Message) /\ Len(Waiting[y]) = Len(rq[y])
        /\ \A k \in 1 .. Len(rq[y]) : Waiting[y][k] = <<rq[y][k][1], inputs[rq[y][k]]>>
    BY WaitingFacts
  <2>3. /\ Waiting'[y] \in Seq(Message) /\ Len(Waiting'[y]) = Len(rq[y])
        /\ \A k \in 1 .. Len(rq[y]) : Waiting'[y][k] = <<rq[y][k][1], inputs'[rq[y][k]]>>
    <3>1. /\ Waiting'[y] \in Seq(Message) /\ Len(Waiting'[y]) = Len(rq'[y])
          /\ \A k \in 1 .. Len(rq'[y]) : Waiting'[y][k] = <<rq'[y][k][1], inputs'[rq'[y][k]]>>
      BY WaitingFactsNext
    <3> HIDE DEF Waiting
    <3> QED BY <2>1, <3>1
  <2>4. ASSUME NEW k \in 1 .. Len(rq[y]) PROVE Waiting'[y][k] = Waiting[y][k]
    <3>1. inputs'[rq[y][k]] = inputs[rq[y][k]]
      BY <1>5
    <3> QED BY <2>2, <2>3, <3>1
  <2> DEFINE u == Waiting'[y]
             w == Waiting[y]
  <2>5. /\ u \in Seq(Message) /\ w \in Seq(Message) /\ Len(u) = Len(w)
        /\ \A k \in 1 .. Len(u) : u[k] = w[k]
    BY <2>2, <2>3, <2>4
  <2> HIDE DEF u, w
  <2>6. u = w
    BY <2>5, SeqEqual
  <2> QED BY <2>6 DEF u, w
<1>8. Waiting' = [Waiting EXCEPT ![l] = Append(Waiting[l], <<t, v>>)]
  <2>1. /\ Waiting = [y \in Dispatchers |-> Waiting[y]]
        /\ Waiting' = [y \in Dispatchers |-> Waiting'[y]]
    BY DEF Waiting
  <2> QED BY <1>1, <1>6, <1>7, <2>1
<1>9. Mailbox!Post(t, v)
  <2>1. UNCHANGED Current
    OBVIOUS
  <2>2. Waiting' = [Waiting EXCEPT ![Prio[t]] = Append(Waiting[Prio[t]], <<t, v>>)]
    BY <1>8 DEF l
  <2>3. Mailbox!Cardinality(Mailbox!OfTask(t)) < Cap[t]
    BY <1>2, SameCardinality
  <2> QED BY <2>1, <2>2, <2>3 DEF Mailbox!Post
<1> QED BY <1>1, <1>3, <1>9

LEMMA InitSpawnPosts ==
  ASSUME Inv, TypeOK', MessageInv, NEW t \in SwTasks, NEW v \in Payloads, InitSpawn(t, v)
  PROVE  \E y \in SwTasks, u \in Payloads : Mailbox!Post(y, u)
<1> DEFINE x == <<t, Head(fq[t])>>
<1>1. TypeOK /\ OneHome /\ NoRepeats /\ Idle \in Contexts /\ InitAlone /\ Jobless
  BY LevelFacts DEF Inv, MessageInv
<1>2. /\ fq[t] # <<>> /\ fq' = [fq EXCEPT ![t] = Tail(fq[t])]
      /\ rq' = [rq EXCEPT ![Prio[t]] = Append(rq[Prio[t]], x)]
      /\ inputs' = [inputs EXCEPT ![x] = v]
      /\ pc[Idle] = "init"
      /\ UNCHANGED <<pc, sp, job>>
  BY DEF InitSpawn, locals
<1>3. x \in Slots /\ Home(x, "FQ", Idle) /\ x[1] = t
  BY <1>1, <1>2, TakeFree
<1> HIDE DEF x
<1>4. \A q \in Places, d \in Contexts : Home(x, q, d) <=> q = "FQ" /\ d = Idle
  BY <1>1, <1>3, HomeIs DEF Places
<1>5. x \notin Range(rq[Prio[x[1]]])
  BY <1>1, <1>4 DEF Home, Places
<1>6. inputs'[x] \in Payloads /\ \A s \in Slots \ {x} : inputs'[s] = inputs[s]
  BY <1>1, <1>2, <1>3 DEF TypeOK
<1>7. \A l \in Dispatchers : job[l] = None /\ job'[l] = None
  BY <1>1, <1>2 DEF InitAlone, Jobless, JobCode, UserCode, Handlers
<1>8. UNCHANGED Current
  BY <1>7 DEF Current
<1>9. rq' = [rq EXCEPT ![Prio[x[1]]] = Append(rq[Prio[x[1]]], x)]
  BY <1>2, <1>3
<1> QED BY <1>1, <1>3, <1>5, <1>6, <1>8, <1>9, PostStep

LEMMA SpawnEnqueuePosts ==
  ASSUME Inv, TypeOK', MessageInv, NEW c \in Contexts, SpawnEnqueue(c)
  PROVE  \E y \in SwTasks, u \in Payloads : Mailbox!Post(y, u)
<1> DEFINE x == SpSlot(c)
<1>1. /\ TypeOK /\ OneHome /\ Written /\ ShapeOf(c)
      /\ Dispatchers \subseteq Contexts /\ Idle \in Contexts
  BY LevelFacts DEF Inv, MessageInv, Shape, Contexts, Handlers
<1>2. /\ pc[c] = "rq" /\ Goto(c, "pend")
      /\ rq' = [rq EXCEPT ![Prio[sp[c].task]] = Append(rq[Prio[sp[c].task]], x)]
      /\ UNCHANGED <<sp, job, fq, inputs>>
  BY DEF SpawnEnqueue, At, locals
<1>3. x \in Slots /\ x[1] = sp[c].task /\ sp[c].payload \in Payloads
  BY <1>1, <1>2, SlotFacts DEF ShapeOf, InSpawn, UserCode, SpawnLocals, SpSlot
<1>4. Home(x, "spawn", c)
  BY <1>2 DEF Home
<1>5. inputs'[x] \in Payloads /\ \A s \in Slots \ {x} : inputs'[s] = inputs[s]
  BY <1>1, <1>2, <1>3 DEF Written
<1> HIDE DEF x
<1>6. \A q \in Places, d \in Contexts : Home(x, q, d) <=> q = "spawn" /\ d = c
  BY <1>1, <1>3, <1>4, HomeIs DEF Places
<1>7. x \notin Range(rq[Prio[x[1]]])
  BY <1>1, <1>6 DEF Home, Places
<1>8. UNCHANGED Current
  <2>1. \A d \in Contexts : pc'[d] = IF d = c THEN "pend" ELSE pc[d]
    BY <1>1, <1>2 DEF TypeOK, Goto
  <2>2. \A l \in Dispatchers : pc'[l] = "read" <=> pc[l] = "read"
    BY <1>1, <1>2, <2>1
  <2> QED BY <1>2, <2>2 DEF Current
<1>9. rq' = [rq EXCEPT ![Prio[x[1]]] = Append(rq[Prio[x[1]]], x)]
  BY <1>2, <1>3
<1> QED BY <1>1, <1>3, <1>5, <1>7, <1>8, <1>9, PostStep

(* The dispatcher that takes a slot out of its queue starts the message.   *)
LEMMA DequeueStarts ==
  ASSUME Inv, TypeOK', MessageInv, NEW c \in Contexts, Dequeue(c), rq[c] # <<>>
  PROVE  c \in Dispatchers /\ Mailbox!Start(c)
<1> DEFINE x == Head(rq[c])
           m == Len(rq[c])
<1>1. /\ TypeOK /\ Jobless /\ ShapeOf(c) /\ Dispatchers \subseteq Contexts
  BY DEF Inv, MessageInv, Shape, Contexts, Handlers
<1>2. /\ pc[c] = "poll" /\ Goto(c, "read") /\ c \in Dispatchers
      /\ job' = [job EXCEPT ![c] = [slot |-> x, payload |-> None]]
      /\ rq' = [rq EXCEPT ![c] = Tail(rq[c])]
      /\ UNCHANGED inputs
  BY <1>1 DEF Dequeue, At, ShapeOf
<1>3. /\ rq \in [Dispatchers -> Seq(Slots)] /\ rq[c] \in Seq(Slots)
      /\ job \in [Contexts -> JobLocals \cup {None}]
      /\ inputs \in [Slots -> Payloads \cup {None}]
  BY <1>1, <1>2 DEF TypeOK
<1>4. /\ m \in Nat \ {0} /\ x = rq[c][1] /\ x \in Slots
      /\ Len(Tail(rq[c])) = m - 1
      /\ \A k \in 1 .. m - 1 : Tail(rq[c])[k] = rq[c][k + 1]
  BY <1>3, TailFacts
<1> HIDE DEF x, m
<1>5. rq'[c] = Tail(rq[c]) /\ \A l \in Dispatchers \ {c} : rq'[l] = rq[l]
  BY <1>2, <1>3
<1>6. /\ Waiting[c] \in Seq(Message) /\ Len(Waiting[c]) = m /\ Waiting[c] # <<>>
      /\ \A k \in 1 .. m : Waiting[c][k] = <<rq[c][k][1], inputs[rq[c][k]]>>
  BY <1>1, <1>2, WaitingFacts DEF m
<1>7. Head(Waiting[c]) = <<x[1], inputs[x]>>
  <2>1. 1 \in 1 .. m
    BY <1>4
  <2>2. Waiting[c][1] = <<x[1], inputs[x]>>
    BY <1>4, <1>6, <2>1
  <2> DEFINE w == Waiting[c]
  <2>3. w \in Seq(Message) /\ w # <<>> /\ w[1] = <<x[1], inputs[x]>>
    BY <1>6, <2>2
  <2> HIDE DEF w
  <2>4. Head(w) = <<x[1], inputs[x]>>
    BY <2>3
  <2> QED BY <2>4 DEF w
<1>8. Waiting'[c] = Tail(Waiting[c])
  <2> DEFINE w == Waiting[c]
             u == Waiting'[c]
  <2>1. /\ u \in Seq(Message) /\ Len(u) = Len(rq'[c])
        /\ \A k \in 1 .. Len(rq'[c]) : u[k] = <<rq'[c][k][1], inputs'[rq'[c][k]]>>
    BY <1>2, WaitingFactsNext
  <2>2. w \in Seq(Message) /\ Len(w) = m /\ w # <<>>
    BY <1>6
  <2> HIDE DEF u, w
  <2>3. Len(u) = m - 1
    BY <1>4, <1>5, <2>1
  <2>4. /\ Tail(w) \in Seq(Message) /\ Len(Tail(w)) = m - 1
        /\ \A k \in 1 .. m - 1 : Tail(w)[k] = w[k + 1]
    BY <1>4, <2>2, TailFacts
  <2>5. ASSUME NEW k \in 1 .. m - 1 PROVE u[k] = Tail(w)[k]
    <3>1. k + 1 \in 1 .. m
      BY <1>4
    <3>2. w[k + 1] = <<rq[c][k + 1][1], inputs[rq[c][k + 1]]>>
      BY <1>6, <3>1 DEF w
    <3>3. u[k] = <<rq'[c][k][1], inputs'[rq'[c][k]]>>
      BY <2>1, <2>3
    <3>4. rq'[c][k] = rq[c][k + 1] /\ inputs' = inputs
      BY <1>2, <1>4, <1>5
    <3> QED BY <2>4, <3>2, <3>3, <3>4
  <2>6. u = Tail(w)
    BY <2>1, <2>3, <2>4, <2>5, SeqEqual
  <2> QED BY <2>6 DEF u, w
<1>9. Waiting' = [Waiting EXCEPT ![c] = Tail(Waiting[c])]
  <2>1. ASSUME NEW l \in Dispatchers, l # c PROVE Waiting'[l] = Waiting[l]
    BY <1>2, <1>5, <2>1 DEF Waiting
  <2>2. /\ Waiting = [y \in Dispatchers |-> Waiting[y]]
        /\ Waiting' = [y \in Dispatchers |-> Waiting'[y]]
    BY DEF Waiting
  <2> QED BY <1>2, <1>8, <2>1, <2>2
<1>10. Current[c] = None /\ Current'[c] = <<x[1], inputs[x]>>
  <2>1. job[c] = None
    BY <1>1, <1>2 DEF Jobless, JobCode, UserCode
  <2>2. job'[c] = [slot |-> x, payload |-> None] /\ pc'[c] = "read"
    BY <1>1, <1>2, <1>3 DEF TypeOK, Goto
  <2>3. [slot |-> x, payload |-> None] # None
    BY <1>4, NoneAssumption DEF JobLocals
  <2>4. job'[c] # None /\ job'[c].slot = x /\ Current'[c] = <<x[1], inputs'[x]>>
    BY <1>2, <2>2, <2>3 DEF Current
  <2> QED BY <1>2, <2>1, <2>4 DEF Current
<1>11. Current' = [Current EXCEPT ![c] = <<x[1], inputs[x]>>]
  <2>1. ASSUME NEW l \in Dispatchers, l # c PROVE Current'[l] = Current[l]
    <3>1. l \in Contexts /\ c \in Contexts
      BY <1>1
    <3>2. job'[l] = job[l] /\ pc'[l] = pc[l]
      BY <1>1, <1>2, <1>3, <2>1, <3>1 DEF TypeOK, Goto
    <3> QED BY <1>2, <3>2 DEF Current
  <2>2. /\ Current = [y \in Dispatchers |-> Current[y]]
        /\ Current' = [y \in Dispatchers |-> Current'[y]]
    BY DEF Current
  <2> QED BY <1>2, <1>10, <2>1, <2>2
<1> QED BY <1>2, <1>6, <1>7, <1>9, <1>10, <1>11 DEF Mailbox!Start

(* The end of a software task finishes its message; the end of a hardware  *)
(* task touches none.                                                      *)
LEMMA EndTaskFinishes ==
  ASSUME Inv, MessageInv, NEW c \in Contexts, EndTask(c)
  PROVE  \/ c \in Dispatchers /\ Mailbox!Finish(c)
         \/ UNCHANGED <<Waiting, Current>>
<1>1. TypeOK /\ ShapeOf(c) /\ Dispatchers \subseteq Contexts
  BY DEF Inv, Shape, Contexts, Handlers
<1>2. /\ pc[c] = "body" /\ Goto(c, IF c \in Dispatchers THEN "poll" ELSE "exit")
      /\ job' = [job EXCEPT ![c] = None]
      /\ UNCHANGED <<rq, inputs>>
  BY DEF EndTask, At, queues
<1>3. /\ \A d \in Contexts \ {c} : pc'[d] = pc[d] /\ job'[d] = job[d]
      /\ job'[c] = None
  BY <1>1, <1>2 DEF TypeOK, Goto
<1>4. UNCHANGED Waiting
  BY <1>2 DEF Waiting
<1>5. \A l \in Dispatchers \ {c} : Current'[l] = Current[l]
  BY <1>1, <1>2, <1>3 DEF Current
<1>6. /\ Current = [y \in Dispatchers |-> Current[y]]
      /\ Current' = [y \in Dispatchers |-> Current'[y]]
  BY DEF Current
<1>7. CASE c \in Dispatchers
  <2>1. job[c] \in JobLocals
    BY <1>1, <1>2, <1>7 DEF ShapeOf, UserCode
  <2>2. job[c] # None /\ job[c].slot \in Slots /\ job[c].payload \in Payloads \cup {None}
    BY <2>1, NoneAssumption DEF JobLocals
  <2>3. Current[c] = <<job[c].slot[1], job[c].payload>>
    BY <1>2, <1>7, <2>2 DEF Current
  <2>4. Current[c] \in Message
    BY <2>2, <2>3, SlotFacts DEF Message
  <2>5. Current[c] # None
    BY <2>4, NoneAssumption DEF Message
  <2>6. Current'[c] = None
    BY <1>3, <1>7 DEF Current
  <2>7. Current' = [Current EXCEPT ![c] = None]
    BY <1>5, <1>6, <1>7, <2>6
  <2> QED BY <1>4, <1>7, <2>5, <2>7 DEF Mailbox!Finish
<1>8. CASE c \notin Dispatchers
  <2>1. Current' = Current
    BY <1>5, <1>6, <1>8
  <2> QED BY <1>4, <2>1
<1> QED BY <1>7, <1>8

LEMMA SpawnDequeueSilent ==
  ASSUME Inv, NEW c \in Contexts, SpawnDequeue(c)
  PROVE  UNCHANGED <<Waiting, Current>>
<1>1. TypeOK /\ Dispatchers \subseteq Contexts
  BY DEF Inv, Contexts, Handlers
<1>2. /\ pc[c] = "fq" /\ (Goto(c, "input") \/ Goto(c, "body"))
      /\ UNCHANGED <<job, rq, inputs>>
  BY DEF SpawnDequeue, At
<1>3. \A l \in Dispatchers : pc'[l] = "read" <=> pc[l] = "read"
  BY <1>1, <1>2 DEF TypeOK, Goto
<1>4. UNCHANGED Waiting
  BY <1>2 DEF Waiting
<1>5. UNCHANGED Current
  BY <1>2, <1>3 DEF Current
<1> QED BY <1>4, <1>5

(* The runtime implements the abstract queues: messages of a level start   *)
(* in the order of their posts, once each, with the payload of the spawn,  *)
(* and no more than Cap[t] of a task wait, however contexts preempt each   *)
(* other (codegen/schedule.rs, spawn.rs and dispatchers.rs).               *)
THEOREM QueuesImplemented == ContiguousSgis => (Spec => ImplementsTaskQueues)
<1> SUFFICES ASSUME ContiguousSgis PROVE Spec => ImplementsTaskQueues
  OBVIOUS
<1>1. Init => Mailbox!Init
  <2> SUFFICES ASSUME Init PROVE Mailbox!Init
    OBVIOUS
  <2>1. Waiting = [l \in Dispatchers |-> <<>>]
    <3>1. \A l \in Dispatchers : rq[l] = <<>>
      BY DEF Init
    <3>2. \A l \in Dispatchers :
            [k \in DOMAIN rq[l] |-> <<rq[l][k][1], inputs[rq[l][k]]>>] = <<>>
      BY <3>1
    <3> QED BY <3>2 DEF Waiting
  <2>2. Current = [l \in Dispatchers |-> None]
    <3>1. \A l \in Dispatchers : job[l] = None
      BY DEF Init, Contexts, Handlers
    <3> QED BY <3>1 DEF Current
  <2> QED BY <2>1, <2>2 DEF Mailbox!Init, Mailbox!Levels, Dispatchers
<1>2. Inv /\ Inv' /\ MessageInv /\ [Next]_vars => [Mailbox!Next]_<<Waiting, Current>>
  <2> SUFFICES ASSUME Inv, Inv', MessageInv, [Next]_vars
               PROVE  Mailbox!Next \/ UNCHANGED <<Waiting, Current>>
    OBVIOUS
  <2>1. TypeOK' /\ Mailbox!Levels = Dispatchers
    BY DEF Inv, Mailbox!Levels, Dispatchers
  <2>2. CASE Quiet
    BY <2>2, QuietKeeps
  <2>3. CASE \E t \in SwTasks, v \in Payloads : InitSpawn(t, v)
    <3>1. \E t \in SwTasks, v \in Payloads : Mailbox!Post(t, v)
      BY <2>1, <2>3, InitSpawnPosts
    <3> QED BY <3>1 DEF Mailbox!Next
  <2>4. ASSUME NEW c \in Contexts, Moves(c)
        PROVE  Mailbox!Next \/ UNCHANGED <<Waiting, Current>>
    <3>1. CASE SpawnDequeue(c)
      BY <3>1, SpawnDequeueSilent
    <3>2. CASE SpawnWrite(c) \/ ReadInput(c) \/ FreeSlot(c)
      BY <3>2, SpawnWriteMessages, ReadInputMessages, FreeSlotMessages
    <3>3. CASE SpawnEnqueue(c)
      <4>1. \E t \in SwTasks, v \in Payloads : Mailbox!Post(t, v)
        BY <2>1, <3>3, SpawnEnqueuePosts
      <4> QED BY <4>1 DEF Mailbox!Next
    <3>4. CASE Dequeue(c) /\ rq[c] # <<>>
      <4>1. c \in Dispatchers /\ Mailbox!Start(c)
        BY <2>1, <3>4, DequeueStarts
      <4> QED BY <2>1, <4>1 DEF Mailbox!Next
    <3>5. CASE EndTask(c)
      <4>1. \/ c \in Dispatchers /\ Mailbox!Finish(c)
            \/ UNCHANGED <<Waiting, Current>>
        BY <3>5, EndTaskFinishes
      <4> QED BY <2>1, <4>1 DEF Mailbox!Next
    <3> QED BY <2>4, <3>1, <3>2, <3>3, <3>4, <3>5 DEF Moves
  <2> QED BY <2>2, <2>3, <2>4, NextQuiet
<1> QED BY <1>1, <1>2, Invariance, MessageInvariance, PTL DEF Spec, ImplementsTaskQueues, Mailbox!Spec

=============================================================================
