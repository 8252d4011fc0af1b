------------------------------- MODULE MCEmmc -------------------------------
(***************************************************************************)
(* Two blocks and two values: a block left behind by the wrong call, or    *)
(* with the wrong contents, can be told from the right one.                *)
(***************************************************************************)
EXTENDS Emmc

CONSTANTS b1, b2, v1, v2

MCBlocks == {b1, b2}
MCValues == {v1, v2}
AllButBuffered == {"status", "crc", "data", "slow", "preempted", "silent"}
Answered == {"status", "crc", "slow", "preempted", "buffered"}

=============================================================================
