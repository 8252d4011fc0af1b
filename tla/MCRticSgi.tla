----------------------------- MODULE MCRticSgi -----------------------------
(***************************************************************************)
(* A hardware task, tick, has the lowest task priority and the only        *)
(* software task, react, the one above it: the compressed priorities are 1 *)
(* and 2, one SGI is given a priority, and react is dispatched by the      *)
(* other one.  tick and react share x, whose ceiling is 2.                 *)
(***************************************************************************)
EXTENDS Rtic, TLC

CONSTANTS react, tick, x, m

MCSwTasks == {react}
MCHwTasks == {tick}
MCPrio == react :> 2 @@ tick :> 1 @@ Idle :> 0
MCCap == react :> 1
MCRqCap == 2 :> 1
MCUses == react :> {x} @@ tick :> {x} @@ Idle :> {}
MCSpawns == react :> {} @@ tick :> {react} @@ Idle :> {}
MCCeiling == x :> 2 @@ FQ(react) :> 1 @@ RQ(2) :> 1

=============================================================================
