------------------------- MODULE MCBoundedSpscQueue -------------------------
(* BoundedSpscQueue with a storage of StorageCapacity slots small enough   *)
(* that both indices wrap.                                                 *)
EXTENDS BoundedSpscQueue
=============================================================================
