---------------------------- MODULE MCFileSystem ----------------------------
(***************************************************************************)
(* Five blocks and words up to 7: a partition for the file system, a small *)
(* and an empty one that overlap it, one that starts at 0, one that ends   *)
(* at the last block and one whose end does not fit a word.  A file of two *)
(* blocks, so that a write may fail between them.                          *)
(***************************************************************************)
EXTENDS FileSystem

CONSTANTS zero, super, v1, v2

Small == Entry(131, 2, 2)
Empty == Entry(131, 3, 0)
MCEntries ==
  {zeroed, Entry(131, 1, 3), Small, Empty, Entry(131, 0, 4), Entry(131, 2, 3), Entry(131, 4, 5)}
MCData == {zero, super, v1, v2}
MCBuffers == {<<super>>, <<v1, v1>>, <<v2, v2>>}
MCMedia ==
  {[b \in 0 .. Total - 1 |-> IF b = 0 THEN m ELSE zero] :
     m \in {zero} \cup {t \in [entries : [0 .. Slots - 1 -> MCEntries]] :
                         t.entries[1] \in {zeroed, Small, Empty}}}

=============================================================================
