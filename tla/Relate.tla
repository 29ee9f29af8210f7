------------------------------- MODULE Relate -------------------------------
(***************************************************************************)
(* RelateComputer::computeIM: the intersection matrix of two geometries,   *)
(* from their edges, the nodes these have by themselves and with each      *)
(* other, and the labels of what meets at each node.  One action per       *)
(* phase, in the order the code runs them.                                 *)
(*                                                                         *)
(* Not every crossing becomes a node: where two segments cross in their    *)
(* inside, a proper intersection, the code only notes that there is one    *)
(* and reads what it can from that.                                        *)
(***************************************************************************)
EXTENDS Geometries, TopologyLabel

CONSTANT Operands  \* the pairs of geometries that may be related

VARIABLES
  pc,          \* the phase to run next, "done" or "failed"
  operands,
  argNodes,    \* of each geometry: its nodes, point -> location
  cuts,        \* of each geometry and part: the places of its intersections
  attached,    \* of each geometry: the parts with an intersection
  proper,      \* [any, interior: BOOLEAN]: the proper intersections found
  nodes,       \* the nodes of both: point -> location in each geometry
  ends,        \* the bundles of edge ends, <<node, towards>> -> Label
  im

vars == <<pc, operands, argNodes, cuts, attached, proper, nodes, ends, im>>

G(g) == operands[g]
Parts(g) == G(g).parts
Pt(g, e, k) == Parts(g)[e].walk[k]

\* Sides of a ring, told from its orientation and its role.
RingLabel(g, part) ==
  LET insideLeft == IsCCW(Ring(part)) <=> part.role = "shell"
  IN  IF insideLeft THEN AreaLabel(g, "boundary", "interior", "exterior")
                    ELSE AreaLabel(g, "boundary", "exterior", "interior")
EdgeLabel(g, e) == IF G(g).kind = "area" THEN RingLabel(g, Parts(g)[e])
                   ELSE LineLabel(g, "interior")

IsEdge(g, e) == Parts(g)[e].role # "point"
EdgesOf(g)   == {e \in DOMAIN Parts(g) : IsEdge(g, e)}

\* Graphs with nothing in them yet.
Fresh ==
  /\ argNodes = [g \in Geoms |-> <<>>]
  /\ cuts = [g \in Geoms |-> [e \in EdgesOf(g) |-> {}]]
  /\ attached = [g \in Geoms |-> {}]
  /\ proper = [any |-> FALSE, interior |-> FALSE]
  /\ nodes = <<>>
  /\ ends = <<>>
  /\ im = EmptyMatrix

Init == pc = "add" /\ operands \in Operands /\ Fresh

Phase(from, to) == pc = from /\ pc' = to

-----------------------------------------------------------------------------
(* GeometryGraph: the nodes of one geometry                                 *)

\* Ends of lines change sides each time they are added; rings start on the
\* boundary; points are inside.
AddedNodes(g) ==
  LET ringStarts == {Pt(g, e, 1) : e \in EdgesOf(g)}
      at(p) == CASE G(g).kind = "area"  -> "boundary"
                 [] G(g).kind = "point" -> "interior"
                 [] G(g).kind = "line"  -> IF Cardinality(Ends(G(g), p)) % 2 = 1
                                           THEN "boundary" ELSE "interior"
      points == {p[1] : p \in {part.walk : part \in Range(Parts(g))}}
                \cup {Last(part.walk) : part \in Range(Parts(g))}
  IN  [p \in points |-> at(p)]

AddGeometries ==
  /\ Phase("add", "disjoint")
  /\ argNodes' = [g \in Geoms |-> AddedNodes(g)]
  /\ UNCHANGED <<operands, cuts, attached, proper, nodes, ends, im>>

DisjointEntries(g) ==
  IF IsEmpty(G(g)) THEN {}
  ELSE LET entry(place, dim) == IF g = 1 THEN <<place, "exterior", dim>>
                                         ELSE <<"exterior", place, dim>>
       IN  {entry("interior", Dimension(G(g))), entry("boundary", BoundaryDimension(G(g)))}

ExteriorsMeet == SetAtLeast(im, {<<"exterior", "exterior", A>>})

ComputeDisjointIM ==
  /\ pc = "disjoint"
  /\ ~Intersecting(G(1), G(2))
  /\ pc' = "done"
  /\ im' = SetAtLeast(ExteriorsMeet, DisjointEntries(1) \cup DisjointEntries(2))
  /\ UNCHANGED <<operands, argNodes, cuts, attached, proper, nodes, ends>>

EnvelopesMeet ==
  /\ pc = "disjoint"
  /\ Intersecting(G(1), G(2))
  /\ pc' = "self"
  /\ im' = ExteriorsMeet
  /\ UNCHANGED <<operands, argNodes, cuts, attached, proper, nodes, ends>>

-----------------------------------------------------------------------------
(* SegmentIntersector                                                       *)

\* A segment is given by its geometry, its part and its first and last place.
Segments(g) ==
  UNION {{[g |-> g, e |-> e, from |-> i, to |-> j] :
            <<i, j>> \in {ij \in (Parts(g)[e].vertices) \X (Parts(g)[e].vertices) :
                            /\ ij[1] < ij[2]
                            /\ \A k \in Parts(g)[e].vertices : k <= ij[1] \/ k >= ij[2]}} :
         e \in EdgesOf(g)}

PointsOf(s) == {Pt(s.g, s.e, k) : k \in s.from..s.to}
TipsOf(s)   == {Pt(s.g, s.e, s.from), Pt(s.g, s.e, s.to)}

Common(s, t)   == PointsOf(s) \cap PointsOf(t)
IsProper(s, t) == Cardinality(Common(s, t)) = 1 /\ Common(s, t) \cap (TipsOf(s) \cup TipsOf(t)) = {}

\* LineIntersector: the one point of two segments, or the ends of what they share.
IntersectionPoints(s, t) ==
  IF Cardinality(Common(s, t)) = 1 THEN Common(s, t)
  ELSE Common(s, t) \cap (TipsOf(s) \cup TipsOf(t))

IsTrivial(s, t) ==
  /\ s.g = t.g /\ s.e = t.e
  /\ Cardinality(Common(s, t)) = 1
  /\ s.to = t.from \/ t.to = s.from

PlacesOn(s, pts) == {k \in s.from..s.to : Pt(s.g, s.e, k) \in pts}

\* The places where a pair of segments meets are added to the part of the first.
Recorded(g, pairs) ==
  [e \in EdgesOf(g) |->
     UNION {PlacesOn(st[1], IntersectionPoints(st[1], st[2])) : st \in {x \in pairs : x[1].e = e}}]

\* computeSelfNodes: the rings of an area are only tested with each other.
SelfTested(s, t) ==
  /\ s # t
  /\ G(s.g).kind = "area" => s.e # t.e
  /\ ~IsTrivial(s, t)

SelfCuts(g) == Recorded(g, {st \in Segments(g) \X Segments(g) : SelfTested(st[1], st[2])})

\* addSelfIntersectionNodes
SelfNodes(g, cut) ==
  LET found == UNION {{Pt(g, e, k) : k \in cut[e]} : e \in EdgesOf(g)}
      loc == IF G(g).kind = "area" THEN "boundary" ELSE "interior"
  IN  [p \in found \cup DOMAIN argNodes[g] |->
         IF p \in found /\ ~(p \in DOMAIN argNodes[g] /\ argNodes[g][p] = "boundary")
         THEN loc ELSE argNodes[g][p]]

ComputeSelfNodes ==
  LET selfCuts == <<SelfCuts(1), SelfCuts(2)>>
  IN  /\ Phase("self", "cross")
      /\ cuts' = selfCuts
      /\ argNodes' = [g \in Geoms |-> SelfNodes(g, selfCuts[g])]
      /\ UNCHANGED <<operands, attached, proper, nodes, ends, im>>

\* Fault: only the boundary nodes of the first geometry are looked at.
IsBoundaryOfFirst(p) == p \in DOMAIN argNodes[1] /\ argNodes[1][p] = "boundary"

IsBoundaryPoint(p) == \E g \in Geoms : p \in DOMAIN argNodes[g] /\ argNodes[g][p] = "boundary"

ComputeEdgeIntersections ==
  /\ Phase("cross", "nodes")
  /\ LET pairs == {st \in Segments(1) \X Segments(2) : Common(st[1], st[2]) # {}}
         properly == {st \in pairs : IsProper(st[1], st[2])}
     IN  /\ cuts' = [g \in Geoms |->
                       LET found == Recorded(g, {<<st[g], st[3 - g]>> : st \in pairs \ properly})
                       IN  [e \in EdgesOf(g) |-> cuts[g][e] \cup found[e]]]
         /\ attached' = [g \in Geoms |-> {st[g].e : st \in pairs}]
         /\ proper' = [any |-> properly # {},
                       interior |-> \E st \in properly :
                                      \A p \in Common(st[1], st[2]) : ~IsBoundaryPoint(p)]
  /\ UNCHANGED <<operands, argNodes, nodes, ends, im>>

-----------------------------------------------------------------------------
(* The nodes of both geometries                                             *)

\* setLabelBoundary changes sides with each intersection of a ring at the node.
LocationOfCuts(g, times) ==
  CASE times = 0 -> "undef"
    [] times > 0 /\ G(g).kind = "area" -> IF times % 2 = 1 THEN "boundary" ELSE "interior"
    [] OTHER -> "interior"

CutsAt(g, p) == {ek \in UNION {{e} \X cuts[g][e] : e \in EdgesOf(g)} : Pt(g, ek[1], ek[2]) = p}

CutPoints == UNION {{Pt(g, e, k) : k \in cuts[g][e]} : <<g, e>> \in
                      UNION {{g} \X EdgesOf(g) : g \in Geoms}}

ComputeIntersectionNodes ==
  /\ Phase("nodes", "copy")
  /\ nodes' = [p \in CutPoints |->
                 [g \in Geoms |-> LocationOfCuts(g, Cardinality(CutsAt(g, p)))]]
  /\ UNCHANGED <<operands, argNodes, cuts, attached, proper, ends, im>>

\* What a geometry says of its own nodes replaces what its cuts said.
CopyNodesAndLabels ==
  /\ Phase("copy", "isolated")
  /\ nodes' = [p \in DOMAIN nodes \cup UNION {DOMAIN argNodes[g] : g \in Geoms} |->
                 [g \in Geoms |-> CASE p \in DOMAIN argNodes[g] -> argNodes[g][p]
                                    [] p \notin DOMAIN argNodes[g] /\ p \in DOMAIN nodes -> nodes[p][g]
                                    [] OTHER -> "undef"]]
  /\ UNCHANGED <<operands, argNodes, cuts, attached, proper, ends, im>>

LabelIsolatedNodes ==
  /\ Phase("isolated", "proper")
  /\ nodes' = [p \in DOMAIN nodes |->
                 [g \in Geoms |-> IF nodes[p][g] = "undef" THEN Locate(p, G(g)) ELSE nodes[p][g]]]
  /\ UNCHANGED <<operands, argNodes, cuts, attached, proper, ends, im>>

-----------------------------------------------------------------------------
(* What a proper intersection shows by itself                               *)

AreasCross  == Matrix(<<2, 1, 2,  1, 0, 1,  2, 1, 2>>)
EdgeCrossed == Matrix(<<F, F, F,  0, F, F,  F, F, 2>>)  \* of an area, by a line
LineInside  == Matrix(<<1, F, F,  F, F, F,  1, F, F>>)
LinesCross  == Matrix(<<0, F, F,  F, F, F,  F, F, F>>)

\* Which dimensions, and which kind of proper intersection, show what.
ProperRules ==
  {<<A, A, "any", AreasCross>>,
   <<A, L, "any", EdgeCrossed>>, <<A, L, "interior", LineInside>>,
   <<L, A, "any", Transpose(EdgeCrossed)>>, <<L, A, "interior", Transpose(LineInside)>>,
   <<L, L, "interior", LinesCross>>}

Shown == {x \in ProperRules : x[1] = Dimension(G(1)) /\ x[2] = Dimension(G(2)) /\ proper[x[3]]}

ComputeProperIntersectionIM ==
  /\ Phase("proper", "ends")
  /\ im' = SetAtLeast(im, UNION {{<<c[1], c[2], x[4][c]>> : c \in Cells} : x \in Shown})
  /\ UNCHANGED <<operands, argNodes, cuts, attached, proper, nodes, ends>>

-----------------------------------------------------------------------------
(* The ends of edges at the nodes                                           *)

\* EdgeEndBuilder: one end to each side of every cut of a part and at its ends.
Stubs(g, e) ==
  LET places == cuts[g][e] \cup {1, Len(Parts(g)[e].walk)}
  IN  {[g |-> g, e |-> e, at |-> k, to |-> k + 1] : k \in places \ {Len(Parts(g)[e].walk)}}
      \cup {[g |-> g, e |-> e, at |-> k, to |-> k - 1] : k \in places \ {1}}
AllStubs == UNION {Stubs(g, e) : <<g, e>> \in UNION {{g} \X EdgesOf(g) : g \in Geoms}}

\* Fault: the end before a cut keeps the sides of its edge.
StubLabelUnflipped(s) == EdgeLabel(s.g, s.e)

StubLabel(s) == IF s.to > s.at THEN EdgeLabel(s.g, s.e) ELSE Flip(EdgeLabel(s.g, s.e))
BundleOf(s)  == <<Pt(s.g, s.e, s.at), Pt(s.g, s.e, s.to)>>

\* EdgeEndBundle::computeLabelOn, computeLabelSide
BundleOn(stubs, g) ==
  LET with(loc) == {s \in stubs : StubLabel(s)[g][On] = loc}
  IN  CASE Cardinality(with("boundary")) % 2 = 1 -> "boundary"
        [] with("boundary") \cup with("interior") = {} -> "undef"
        [] OTHER -> "interior"

BundleSide(stubs, g, side) ==
  LET locs == {StubLabel(s)[g][side] : s \in {x \in stubs : IsAreaLabel(StubLabel(x))}}
  IN  CASE "interior" \in locs -> "interior"
        [] "interior" \notin locs /\ "exterior" \in locs -> "exterior"
        [] OTHER -> "undef"

BundleLabel(stubs) ==
  [g \in Geoms |-> IF \E s \in stubs : IsAreaLabel(StubLabel(s))
                   THEN <<BundleOn(stubs, g), BundleSide(stubs, g, Left), BundleSide(stubs, g, Right)>>
                   ELSE <<BundleOn(stubs, g)>>]

Bundles == LET stubs == AllStubs
           IN  [b \in {BundleOf(s) : s \in stubs} |-> BundleLabel({s \in stubs : BundleOf(s) = b})]

\* The bundles at a node, counter-clockwise, and where a bundle stands there.
Rank(bundles, b) ==
  1 + Cardinality({x \in DOMAIN bundles : x[1] = b[1] /\ DirectionBefore(b[1], x[2], b[2])})
StarOf(bundles, p) ==
  LET here == {b \in DOMAIN bundles : b[1] = p}
  IN  [i \in 1..Cardinality(here) |-> CHOOSE b \in here : Rank(bundles, b) = i]

Labelled(bundles) ==
  LET star == [p \in {b[1] : b \in DOMAIN bundles} |-> StarOf(bundles, p)]
  IN  [b \in DOMAIN bundles |->
         [g \in Geoms |-> StarLabel(bundles, star[b[1]], g, Rank(bundles, b), LocateInArea(b[1], G(g)))]]

Conflict(bundles) ==
  \E p \in {b[1] : b \in DOMAIN bundles}, g \in Geoms : SideConflict(bundles, StarOf(bundles, p), g)

LabelNodeEdges ==
  LET bundles == Bundles
      conflict == Conflict(bundles)
  IN  /\ Phase("ends", IF conflict THEN "failed" ELSE "update")
      /\ ends' = IF conflict THEN ends ELSE Labelled(bundles)
      /\ UNCHANGED <<operands, argNodes, cuts, attached, proper, nodes, im>>

-----------------------------------------------------------------------------
(* The matrix                                                               *)

\* An edge that meets no edge of the other geometry lies where it starts.
IsolatedEdges == {<<g, e>> \in UNION {{g} \X EdgesOf(g) : g \in Geoms} : e \notin attached[g]}

IsolatedLabel(g, e) ==
  LET other == G(3 - g)
      loc == IF Dimension(other) > P THEN Locate(Pt(g, e, 1), other) ELSE "exterior"
      own == EdgeLabel(g, e)
  IN  [own EXCEPT ![3 - g] = [i \in DOMAIN own[3 - g] |-> loc]]

\* Edge::updateIM
EdgeEntries(label) ==
  {<<label[1][On], label[2][On], L>>}
  \cup (IF IsAreaLabel(label)
        THEN {<<Get(label[1], side), Get(label[2], side), A>> : side \in {Left, Right}}
        ELSE {})

Entries == {<<nodes[p][1], nodes[p][2], P>> : p \in DOMAIN nodes}
           \cup UNION {EdgeEntries(ends[b]) : b \in DOMAIN ends}
           \cup UNION {EdgeEntries(IsolatedLabel(ge[1], ge[2])) : ge \in IsolatedEdges}

UpdateIM ==
  LET entries == Entries
  IN  /\ Phase("update", IF \E x \in entries : "undef" \in {x[1], x[2]} THEN "failed" ELSE "done")
      /\ im' = SetAtLeast(im, entries)
      /\ UNCHANGED <<operands, argNodes, cuts, attached, proper, nodes, ends>>

Next ==
  \/ AddGeometries \/ ComputeDisjointIM \/ EnvelopesMeet
  \/ ComputeSelfNodes \/ ComputeEdgeIntersections
  \/ ComputeIntersectionNodes \/ CopyNodesAndLabels \/ LabelIsolatedNodes
  \/ ComputeProperIntersectionIM \/ LabelNodeEdges \/ UpdateIM

Spec == Init /\ [][Next]_vars

-----------------------------------------------------------------------------
(* Properties                                                               *)

TypeOK ==
  /\ \A g \in Geoms : \A p \in DOMAIN argNodes[g] : argNodes[g][p] \in {"interior", "boundary"}
  /\ \A p \in DOMAIN nodes, g \in Geoms : nodes[p][g] \in Locations
  /\ \A bundle \in DOMAIN ends : ends[bundle] \in Labels
  /\ proper \in [any : BOOLEAN, interior : BOOLEAN]
  /\ proper.interior => proper.any
  /\ im \in Matrices

\* Relating valid geometries never ends in a TopologyException or a failed
\* assertion: the sides the bundles of ends have agree around each node, and
\* no node, bundle or isolated edge is left without its place in either.
RelateSound == TypeOK /\ pc # "failed"

\* Geometry.h, of relate: "Returns the DE-9IM intersection matrix for the two"
\* geometries.  Where their envelopes meet, so that the matrix is computed from
\* the edges: a line that crosses an area's edge properly gets the entry for
\* its interior on the area's boundary, although another line may end there.
MatrixIsTrue ==
  pc = "done" /\ Intersecting(G(1), G(2)) => im = TrueMatrix(G(1), G(2))

(* The two ways in which the matrix is not the true one: a dimension 0 too  *)
(* much in either case                                                      *)

OddEnds(g) == {p \in MeshPoints : Cardinality(Ends(G(g), p)) % 2 = 1}

\* Geometries with disjoint envelopes: MultiLineString::getBoundaryDimension
\* is that of any line that is not closed, also if the ends cancel out.
BoundaryUntold(g) ==
  G(g).kind = "line" /\ BoundaryDimension(G(g)) = P /\ OddEnds(g) = {}

\* A ring crosses a segment of a line where another line of the geometry
\* ends: what is crossed is the boundary of the lines, not their interior.
EndsCrossed(g) ==
  /\ G(g).kind = "line" /\ G(3 - g).kind = "area"
  /\ \E s \in Segments(g), t \in Segments(3 - g) :
       IsProper(s, t) /\ Common(s, t) \subseteq OddEnds(g)

Overstated ==
  LET entry(g, place, other) == IF g = 1 THEN <<place, other, P>> ELSE <<other, place, P>>
      apart == ~Intersecting(G(1), G(2))
  IN  {entry(g, "boundary", "exterior") : g \in {x \in Geoms : apart /\ BoundaryUntold(x)}}
      \cup {entry(g, "interior", "boundary") : g \in {x \in Geoms : EndsCrossed(x)}}

\* The matrix holds the dimension of what the interiors, boundaries and
\* exteriors of the two geometries have in common, cell by cell of the plane,
\* whichever way computeIM came to it: envelopes, nodes, proper intersections,
\* isolated nodes or isolated edges; but for the two cases above, in which it
\* is wrong, in these entries alone, and always: MatrixIsTrue is refuted.
MatrixIsExact ==
  pc = "done" => im = SetAtLeast(TrueMatrix(G(1), G(2)), Overstated)

\* Every named predicate of Geometry is true exactly when it should be,
\* whether envelopes, a rectangle or the matrix answered it; so no predicate
\* depends on the departures above.
PredicatesAgree ==
  pc = "done" => Predicates(G(1), G(2), im) = TruePredicates(G(1), G(2))
=============================================================================
