---------------------------- MODULE MCRticSpawn ----------------------------
(***************************************************************************)
(* Message passing: idle and the hardware task usb compete for the two     *)
(* slots of work, which runs at the lowest priority and spawns reply at    *)
(* the level of usb.                                                       *)
(***************************************************************************)
EXTENDS Rtic, TLC

CONSTANTS work, reply, usb, m1, m2

MCSwTasks == {work, reply}
MCHwTasks == {usb}
MCPrio == work :> 1 @@ reply :> 2 @@ usb :> 2 @@ Idle :> 0
MCCap == work :> 2 @@ reply :> 1
MCRqCap == 1 :> 2 @@ 2 :> 1
MCUses == [t \in {work, reply, usb, Idle} |-> {}]
MCSpawns == work :> {reply} @@ reply :> {} @@ usb :> {work} @@ Idle :> {work}
MCCeiling == FQ(work) :> 2 @@ FQ(reply) :> 1 @@ RQ(1) :> 2 @@ RQ(2) :> 1

=============================================================================
