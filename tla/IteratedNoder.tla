---------------------------- MODULE IteratedNoder -----------------------------
(***************************************************************************)
(* noding::IteratedNoder::computeNodes: node a set of strings again and    *)
(* again until a round finds no interior intersection, and give up when    *)
(* the number found stops falling.  How many a round finds depends on      *)
(* rounding, so any number up to a bound may come up.                      *)
(***************************************************************************)
EXTENDS Integers

CONSTANTS
  MAX_ITER,   \* rounds that are allowed whatever they find
  MaxNodes    \* bound on the intersections a round may find

ASSUME NoderAssumption == MAX_ITER \in Nat \ {0} /\ MaxNodes \in Nat

VARIABLES
  noding,            \* "no", "running", "noded" or "failed"
  iterationCount,    \* nodingIterationCount
  lastNodesCreated

noderVars == <<noding, iterationCount, lastNodesCreated>>

NoderInit ==
  /\ noding = "no"
  /\ iterationCount = 0
  /\ lastNodesCreated = -1

ComputeNodes ==
  /\ noding = "no"
  /\ noding' = "running"
  /\ UNCHANGED <<iterationCount, lastNodesCreated>>

(* Fault: a number that stays the same passes for a falling one.            *)
OnlyRising(nodesCreated) ==
  /\ lastNodesCreated > 0
  /\ nodesCreated > lastNodesCreated
  /\ iterationCount + 1 > MAX_ITER

NotDeclining(nodesCreated) ==
  /\ lastNodesCreated > 0
  /\ nodesCreated >= lastNodesCreated
  /\ iterationCount + 1 > MAX_ITER

(* Fault: the rounds are not counted.                                       *)
NodeUncounted(nodesCreated) ==
  /\ noding = "running"
  /\ ~NotDeclining(nodesCreated)
  /\ lastNodesCreated' = nodesCreated
  /\ noding' = IF nodesCreated > 0 THEN "running" ELSE "noded"
  /\ UNCHANGED iterationCount

Node(nodesCreated) ==
  /\ noding = "running"
  /\ ~NotDeclining(nodesCreated)
  /\ iterationCount' = iterationCount + 1
  /\ lastNodesCreated' = nodesCreated
  /\ noding' = IF nodesCreated > 0 THEN "running" ELSE "noded"

GiveUp(nodesCreated) ==
  /\ noding = "running"
  /\ NotDeclining(nodesCreated)
  /\ iterationCount' = iterationCount + 1
  /\ noding' = "failed"
  /\ UNCHANGED lastNodesCreated

Round == \E nodesCreated \in 0..MaxNodes : Node(nodesCreated) \/ GiveUp(nodesCreated)

NoderNext == ComputeNodes \/ Round

NoderSpec == NoderInit /\ [][NoderNext]_noderVars

-----------------------------------------------------------------------------
NoderTypeOK ==
  /\ noding \in {"no", "running", "noded", "failed"}
  /\ iterationCount \in Nat
  /\ lastNodesCreated \in -1..MaxNodes

(* The rule leaves no room for endless rounds that each find something: the *)
(* rounds after the first MAX_ITER are paid for by falling numbers, so that  *)
(* there are never more than MAX_ITER + MaxNodes of them.                    *)
RoundsBounded == NoderTypeOK /\ iterationCount <= MAX_ITER + MaxNodes

(* Noding that has begun ends, with all nodes found or with an exception.   *)
NodingEnds == noding = "running" ~> noding \in {"noded", "failed"}
=============================================================================
