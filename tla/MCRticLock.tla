----------------------------- MODULE MCRticLock -----------------------------
(***************************************************************************)
(* Locks over four levels: idle, the software tasks a and b, and the       *)
(* hardware tasks g (level of a) and h.  x is shared by idle, g and b, y   *)
(* by idle, a and h, so that one lock can be taken inside the other.       *)
(***************************************************************************)
EXTENDS Rtic, TLC

CONSTANTS a, b, g, h, x, y, m

MCSwTasks == {a, b}
MCHwTasks == {g, h}
MCPrio == a :> 1 @@ b :> 2 @@ g :> 1 @@ h :> 3 @@ Idle :> 0
MCCap == a :> 1 @@ b :> 1
MCRqCap == 1 :> 1 @@ 2 :> 1
MCUses == a :> {y} @@ b :> {x} @@ g :> {x} @@ h :> {y} @@ Idle :> {x, y}
MCSpawns == a :> {} @@ b :> {} @@ g :> {b} @@ h :> {} @@ Idle :> {a}
MCCeiling ==
  x :> 2 @@ y :> 3 @@ FQ(a) :> 1 @@ FQ(b) :> 1 @@ RQ(1) :> 1 @@ RQ(2) :> 1

=============================================================================
