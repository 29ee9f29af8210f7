------------------------------ MODULE Linework ------------------------------
(***************************************************************************)
(* planargraph::PlanarGraph as LineMerger, LineSequencer and Polygonizer   *)
(* build it: one edge per line added, two directed edges (darts) per edge, *)
(* the darts that leave a node sorted counter-clockwise.                   *)
(*                                                                         *)
(* Coordinates are small integers, so that the angles, orientations and    *)
(* inclusions the three tools decide by are computed, not assumed.         *)
(***************************************************************************)
EXTENDS Plane

CONSTANTS
  Networks, \* the sequences of lines each tool may be given at first
  Spare,    \* a set of lines that may be added later, one at most
  NULL

VARIABLES
  tool,   \* "merger", "sequencer" or "polygonizer"
  lines,  \* the lines added so far, each a sequence of points
  asked,  \* how many lines there were at each request for a result
  pc      \* "idle" between calls, or where the call in progress stands

CONSTANT MaxRequests  \* bound on the requests

lineworkVars == <<tool, lines, asked, pc>>

LineworkInit ==
  /\ tool \in {"merger", "sequencer", "polygonizer"}
  /\ lines \in Networks[tool]
  /\ asked = <<>>
  /\ pc = "idle"

Request(next) ==
  /\ pc = "idle"
  /\ Len(asked) < MaxRequests
  /\ asked' = Append(asked, Len(lines))
  /\ pc' = next
  /\ UNCHANGED <<tool, lines>>

(* Any tool takes more lines at any time, of a network that stays noded.    *)
AddLine(line) ==
  /\ pc = "idle"
  /\ {line, Reverse(line)} \cap Range(lines) = {}
  /\ lines' = Append(lines, line)
  /\ UNCHANGED <<tool, asked, pc>>

-----------------------------------------------------------------------------
(* Darts: <<edge, TRUE>> runs the way the line does.                        *)
Dart   == (1..Len(lines)) \X BOOLEAN
Sym(d) == <<d[1], ~d[2]>>
DartsInOrder ==
  [k \in 1..2 * Len(lines) |-> <<(k + 1) \div 2, k % 2 = 1>>]
DartBefore(c, d) == c[1] < d[1] \/ (c[1] = d[1] /\ c[2] /\ ~d[2])

PointsAlong(d)      == IF d[2] THEN lines[d[1]] ELSE Reverse(lines[d[1]])
FromNode(d)    == LET l == lines[d[1]] IN IF d[2] THEN l[1] ELSE l[Len(l)]
ToNode(d)      == FromNode(Sym(d))
DirectionPt(d) == LET l == lines[d[1]] IN IF d[2] THEN l[2] ELSE l[Len(l) - 1]

Nodes == {FromNode(d) : d \in Dart}

(* x first, then y: the order of the node map.                              *)
CoordinateLess(p, q) == p[1] < q[1] \/ (p[1] = q[1] /\ p[2] < q[2])

NodesInOrder ==
  LET found == SelectSeq(DartsInOrder, LAMBDA d :
                 \A c \in Dart : DartBefore(c, d) => FromNode(c) # FromNode(d))
  IN  SortSeq([k \in DOMAIN found |-> FromNode(found[k])], CoordinateLess)

(* DirectedEdge::compareDirection, for darts that leave the same node.      *)
DirectionLess(d, e) == DirectionBefore(FromNode(d), DirectionPt(d), DirectionPt(e))

OutEdges(node) == {d \in Dart : FromNode(d) = node}
Star(node)     == SortSeq(SelectSeq(DartsInOrder, LAMBDA d : FromNode(d) = node), DirectionLess)
Degree(node)   == Cardinality(OutEdges(node))

(* The nodes connected with some nodes by darts.                            *)
RECURSIVE Reach(_, _)
Reach(nodes, darts) ==
  LET more == {ToNode(d) : d \in {c \in darts : FromNode(c) \in nodes}} \ nodes
  IN  IF more = {} THEN nodes ELSE Reach(nodes \cup more, darts)
Reachable(node, darts) == Reach({node}, darts)

(* Consecutive darts meet.                                                  *)
IsPath(path) == \A k \in 1..Len(path) - 1 : ToNode(path[k]) = FromNode(path[k + 1])

Edges(path) == {d[1] : d \in Range(path)}
=============================================================================
