------------------------------ MODULE MCMemlog ------------------------------
(***************************************************************************)
(* One buffer behind the other, as the linker may place them.              *)
(***************************************************************************)
EXTENDS Memlog

MCAfter == [b \in Buffers |-> IF b = L0 THEN L1 ELSE None]

=============================================================================
