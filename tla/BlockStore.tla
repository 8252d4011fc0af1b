----------------------------- MODULE BlockStore -----------------------------
(***************************************************************************)
(* What a managed block device promises its caller: one request at a time; *)
(* a read returns what the block holds; a write that succeeds is on the    *)
(* medium; a write that fails may still take effect, but not behind the    *)
(* back of a later request that succeeds; a power cut can tear only the    *)
(* block being written.                                                    *)
(***************************************************************************)
CONSTANTS Blocks, Values, Torn, None

VARIABLES
  store,    \* contents of the medium
  request,  \* [op, block, data] being served, or None
  late,     \* a failed write that may still take effect, or None
  result    \* value of the last call: data, "done" or "error"

vars == <<store, request, late, result>>

Requests ==
  [op : {"read"}, block : Blocks, data : {None}]
    \cup [op : {"write"}, block : Blocks, data : Values]

Init ==
  /\ store \in [Blocks -> Values]
  /\ request = None
  /\ late = None
  /\ result = None

Call(r) ==
  /\ request = None
  /\ request' = r
  /\ result' = None
  /\ UNCHANGED <<store, late>>

(* A write, this one or one given up, reaches the medium. *)
Effect ==
  \E w \in {request, late} \ {None} :
    /\ w.op = "write"
    /\ store' = [store EXCEPT ![w.block] = w.data]
    /\ UNCHANGED <<request, late, result>>

Succeed ==
  /\ request # None
  /\ IF request.op = "read"
       THEN result' = store[request.block]
       ELSE store[request.block] = request.data /\ result' = "done"
  /\ request' = None
  /\ late' = None
  /\ UNCHANGED store

Fail ==
  /\ request # None
  /\ result' = "error"
  /\ request' = None
  /\ late' \in {late, IF request.op = "write" THEN request ELSE None}
  /\ UNCHANGED store

PowerCut ==
  /\ request' = None
  /\ late' = None
  /\ result' = None
  /\ \/ UNCHANGED store
     \/ \E w \in {request, late} \ {None} :
          /\ w.op = "write"
          /\ store' = [store EXCEPT ![w.block] = Torn]

Next ==
  \/ \E r \in Requests : Call(r)
  \/ Effect
  \/ Succeed
  \/ Fail
  \/ PowerCut

Spec == Init /\ [][Next]_vars

=============================================================================
