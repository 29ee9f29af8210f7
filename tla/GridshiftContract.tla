-------------------------- MODULE GridshiftContract --------------------------
(***************************************************************************)
(* What a caller of pj_apply_gridshift may rely on, and no more.  The       *)
(* points are shifted in place and in order; the call stops at the first    *)
(* point no table serves.  GridShift is shown to keep this contract, and    *)
(* Transform is modelled against it.                                        *)
(***************************************************************************)
EXTENDS Integers, Sequences

CONSTANTS
  MaxPoints, \* bound on point_count
  HUGE,      \* HUGE_VAL, or a point with x = y = HUGE_VAL
  NULL       \* the null pointer

NoTable == -38   \* "failed to load NAD27-83 correction file"

(* The first k points are as shifted says, the others as they came.         *)
ShiftedUpTo(k, before, after, shifted) ==
  /\ Len(after) = Len(before)
  /\ \A j \in 1..Len(before) :
       after[j] = IF j <= k THEN shifted[j] ELSE before[j]

(* Every outcome of a call: no table at all, with or without an error; or   *)
(* a prefix shifted, an error unless the prefix is everything.              *)
Outcome(before, after, err, shifted) ==
  \/ err \in {0, NoTable} /\ after = before
  \/ err = NoTable /\ \E k \in 0..Len(before) - 1 : ShiftedUpTo(k, before, after, shifted)
  \/ err = 0 /\ ShiftedUpTo(Len(before), before, after, shifted)
=============================================================================
