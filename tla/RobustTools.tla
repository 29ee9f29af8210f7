----------------------------- MODULE RobustTools ------------------------------
(***************************************************************************)
(* The operations that survive a computation that may fail, or that avoid   *)
(* it: the retries of the binary operations and of the buffer, the repeated  *)
(* noding, the union of many polygons, and simplification.                   *)
(***************************************************************************)
EXTENDS BinaryOp, BufferOp, IteratedNoder, CascadedUnion, Simplifier

VARIABLE job  \* "overlay", "buffer", "noding", "union" or "simplification"

vars == <<job, binaryVars, bufferVars, noderVars, unionVars, simplifierVars>>

Init ==
  /\ job \in {"overlay", "buffer", "noding", "union", "simplification"}
  /\ BinaryInit
  /\ BufferInit
  /\ NoderInit
  /\ UnionInit
  /\ SimplifierInit

Overlays ==
  /\ job = "overlay" /\ BinaryNext
  /\ UNCHANGED <<job, bufferVars, noderVars, unionVars, simplifierVars>>
Buffers ==
  /\ job = "buffer" /\ BufferNext
  /\ UNCHANGED <<job, binaryVars, noderVars, unionVars, simplifierVars>>
Nodings ==
  /\ job = "noding" /\ NoderNext
  /\ UNCHANGED <<job, binaryVars, bufferVars, unionVars, simplifierVars>>
Unions ==
  /\ job = "union" /\ UnionNext
  /\ UNCHANGED <<job, binaryVars, bufferVars, noderVars, simplifierVars>>
Simplifications ==
  /\ job = "simplification" /\ SimplifierNext
  /\ UNCHANGED <<job, binaryVars, bufferVars, noderVars, unionVars>>

Next == Overlays \/ Buffers \/ Nodings \/ Unions \/ Simplifications

(* The loop of computeNodes runs on by itself.                              *)
Spec == Init /\ [][Next]_vars /\ WF_vars(Nodings)
=============================================================================
