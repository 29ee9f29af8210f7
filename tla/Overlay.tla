------------------------------ MODULE Overlay -------------------------------
(***************************************************************************)
(* OverlayOp::computeOverlay: the intersection, union, difference or       *)
(* symmetric difference of two geometries, from the noded edges of both to *)
(* the polygons, lines and points of the result.  One action per phase, in *)
(* the order the code runs them; a TopologyException or a failed assertion *)
(* ends the operation.                                                     *)
(*                                                                         *)
(* A dart of the arrangement is a DirectedEdge.  The Edge it belongs to    *)
(* runs the way the first input edge inserted ran.                         *)
(***************************************************************************)
EXTENDS TopologyLabel, Arrangement, TLC

CONSTANT Inputs   \* set of [map : DOMAIN Maps, geom : Geoms -> geometry,
                  \*         forward : Geoms -> BOOLEAN]

Ops == {"intersection", "union", "difference", "symdifference"}

VARIABLES
    pc,         \* the phase to run next, "done" or "failed"
    input,      \* the two geometries; input.forward: the way their edges run
    opCode,
    edges,      \* edgeList: edge -> [forward, label, depth]
    deLabel,    \* the labels of the graph's directed edges
    nodeLabel,  \* the labels of the nodes, ON of each geometry
    inResult,   \* the directed edges in the result area
    rings,      \* the maximal edge rings
    shells,     \* shellList: a sequence of [ring, holes]
    freeHoles,  \* freeHoleList
    resultLines, resultPoints

vars == <<pc, input, opCode, edges, deLabel, nodeLabel, inResult, rings,
          shells, freeHoles, resultLines, resultPoints>>

M == Maps[input.map]
G(g) == input.geom[g]
Nodes == Range(M.nodes)

GraphDarts == {d \in Darts(M) : EdgeOf(d) \in DOMAIN edges}

\* The DirectedEdgeStar of a node, counter-clockwise.
Star(n) == LET InGraph(d) == EdgeOf(d) \in DOMAIN edges
           IN  SelectSeq(M.star[n], InGraph)

IsResultOfOp(loc1, loc2, op) ==
    LET in1 == loc1 \in {"interior", "boundary"}
        in2 == loc2 \in {"interior", "boundary"}
    IN  CASE op = "intersection"  -> in1 /\ in2
          [] op = "union"         -> in1 \/ in2
          [] op = "difference"    -> in1 /\ ~in2
          [] op = "symdifference" -> in1 # in2

LabelInResult(label) == IsResultOfOp(label[1][On], label[2][On], opCode)

Init ==
    /\ pc = "noding"
    /\ input \in Inputs
    /\ opCode \in Ops
    /\ edges = <<>>
    /\ deLabel = <<>>
    /\ nodeLabel = [n \in Range(Maps[input.map].nodes) |->
                        [g \in Geoms |-> "undef"]]
    /\ inResult = {}
    /\ rings = {}
    /\ shells = <<>>
    /\ freeHoles = {}
    /\ resultLines = {}
    /\ resultPoints = {}

-----------------------------------------------------------------------------
(* Nodes and edges                                                         *)

\* GeometryGraph: rings label the node they start at, the nodes where two of
\* them touch and the ends of the segments they run along twice; the ends of
\* lines follow the mod-2 rule.
ArgNodeLocation(g, n) ==
    LET darts == {d \in Range(M.star[n]) :
                    CASE G(g).kind = "area" -> IsBoundaryEdge(M, G(g), EdgeOf(d))
                      [] OTHER -> EdgeOf(d) \in G(g).edges}
        spiked == \E d \in Range(M.star[n]) : EdgeOf(d) \in G(g).edges
    IN  CASE G(g).kind = "area" ->
                IF spiked \/ Cardinality(darts) > 2 \/ (n \in M.starts /\ darts # {})
                THEN "boundary" ELSE "undef"
          [] G(g).kind = "line" ->
                IF darts = {} THEN "undef"
                ELSE IF Cardinality(darts) % 2 = 1 THEN "boundary" ELSE "interior"
          [] OTHER -> IF n \in G(g).nodes THEN "interior" ELSE "undef"

\* The split edges of one geometry with their labels: a spike is two of them,
\* running opposite ways with the interior of the area on the same hand.
SplitEdges(g) ==
    LET geom == G(g)
        fwd == input.forward[g]
        Side(e, f) == IF LeftOf(M, Dart(e, f)) \in geom.faces
                      THEN "interior" ELSE "exterior"
        Ring(e) == [edge |-> e, forward |-> fwd,
                    label |-> AreaLabel(g, "boundary", Side(e, fwd), Side(e, ~fwd))]
        Spike(e, f) == [edge |-> e, forward |-> f,
                        label |-> AreaLabel(g, "boundary", "exterior", "interior")]
        Split(e) ==
            IF geom.kind = "area" /\ IsBoundaryEdge(M, geom, e) THEN <<Ring(e)>>
            ELSE IF e \notin geom.edges THEN <<>>
            ELSE IF geom.kind = "area" THEN <<Spike(e, fwd), Spike(e, ~fwd)>>
            ELSE <<[edge |-> e, forward |-> fwd, label |-> LineLabel(g, "interior")]>>
    IN  FlattenSeq([i \in DOMAIN M.edges |-> Split(M.edges[i])])

\* The first edge between two nodes is kept; those equal to it, either way
\* round, are merged into its label and its depth.
InsertUniqueEdge(list, e) ==
    IF e.edge \notin DOMAIN list
    THEN (e.edge :> [forward |-> e.forward, label |-> e.label, depth |-> NoDepth])
         @@ list
    ELSE LET existing == list[e.edge]
             labelToMerge == IF existing.forward = e.forward THEN e.label
                             ELSE Flip(e.label)
             depth == IF DepthIsNull(existing.depth)
                      THEN AddDepth(existing.depth, existing.label)
                      ELSE existing.depth
         IN  [list EXCEPT ![e.edge] =
                [existing EXCEPT !.label = Merge(existing.label, labelToMerge),
                                 !.depth = AddDepth(depth, labelToMerge)]]

\* copyPoints, computeSplitEdges, insertUniqueEdges
Node ==
    /\ pc = "noding"
    /\ nodeLabel' = [n \in Nodes |-> [g \in Geoms |-> ArgNodeLocation(g, n)]]
    /\ edges' = FoldLeft(InsertUniqueEdge, <<>>, SplitEdges(1) \o SplitEdges(2))
    /\ pc' = "depths"
    /\ UNCHANGED <<input, opCode, deLabel, inResult, rings, shells, freeHoles,
                   resultLines, resultPoints>>

\* computeLabelsFromDepths
ComputeLabelsFromDepths ==
    /\ pc = "depths"
    /\ edges' = [e \in DOMAIN edges |->
                   [edges[e] EXCEPT !.label = LabelFromDepth(@, edges[e].depth)]]
    /\ pc' = "labelling"
    /\ UNCHANGED <<input, opCode, deLabel, nodeLabel, inResult, rings, shells,
                   freeHoles, resultLines, resultPoints>>

-----------------------------------------------------------------------------
(* Labelling                                                               *)

\* DirectedEdge::computeDirectedLabel
DirectedLabel(d) ==
    LET e == edges[EdgeOf(d)]
    IN  IF e.forward = d[2] THEN e.label ELSE Flip(e.label)

\* DirectedEdgeStar's own label, from the labels of its edges
StarLocation(n, g) ==
    IF \E i \in DOMAIN Star(n) :
          edges[EdgeOf(Star(n)[i])].label[g][On] \in {"interior", "boundary"}
    THEN "interior" ELSE "undef"

\* Nothing is null any more when the labels of opposite directed edges are
\* merged, so the order of the merges does not matter.
MergeSym(label) == [d \in DOMAIN label |-> Merge(label[d], label[Sym(d)])]

\* graph.addEdges and computeLabelling
ComputeLabelling ==
    /\ pc = "labelling"
    /\ LET raw == [d \in GraphDarts |-> DirectedLabel(d)]
           Place(d) == CHOOSE p \in Nodes \X (1 .. Len(M.edges) * 2) :
                          p[2] \in DOMAIN Star(p[1]) /\ Star(p[1])[p[2]] = d
           full == [d \in GraphDarts |-> LET p == Place(d) IN
                       [g \in Geoms |->
                          StarLabel(raw, Star(p[1]), g, p[2], LocateInArea(M, G(g), p[1]))]]
       IN  IF \E n \in Nodes, g \in Geoms : SideConflict(raw, Star(n), g)
           THEN /\ pc' = "failed"
                /\ UNCHANGED <<deLabel, nodeLabel>>
           ELSE /\ deLabel' = MergeSym(full)
                /\ nodeLabel' = [n \in Nodes |-> [g \in Geoms |->
                       IF nodeLabel[n][g] = "undef" THEN StarLocation(n, g)
                       ELSE nodeLabel[n][g]]]
                /\ pc' = "incomplete"
    /\ UNCHANGED <<input, opCode, edges, inResult, rings, shells, freeHoles,
                   resultLines, resultPoints>>

IsIsolated(label) == Cardinality({g \in Geoms : label[g] # "undef"}) = 1

LabelIncompleteNode(n, label) ==
    IF ~IsIsolated(label) THEN label
    ELSE LET target == IF label[1] = "undef" THEN 1 ELSE 2
         IN  [label EXCEPT ![target] = Locate(M, G(target), n)]

\* labelIncompleteNodes
LabelIncompleteNodes ==
    /\ pc = "incomplete"
    /\ nodeLabel' = [n \in Nodes |-> LabelIncompleteNode(n, nodeLabel[n])]
    /\ deLabel' = [d \in DOMAIN deLabel |-> [g \in Geoms |->
                     SetAllIfNull(deLabel[d][g], nodeLabel'[Origin(M, d)][g])]]
    /\ pc' = "areas"
    /\ UNCHANGED <<input, opCode, edges, inResult, rings, shells, freeHoles,
                   resultLines, resultPoints>>

-----------------------------------------------------------------------------
(* The result area                                                         *)

IsInteriorAreaEdge(label) ==
    \A g \in Geoms : /\ IsArea(label[g])
                     /\ label[g][Left] = "interior"
                     /\ label[g][Right] = "interior"

IsLineEdge(label) ==
    /\ \E g \in Geoms : IsLine(label[g])
    /\ \A g \in Geoms : IsArea(label[g]) => AllPositionsEqual(label[g], "exterior")

\* findResultAreaEdges: the result lies on the right of its directed edges.
ResultAreaEdges ==
    {d \in GraphDarts :
        /\ IsAreaLabel(deLabel[d])
        /\ ~IsInteriorAreaEdge(deLabel[d])
        /\ IsResultOfOp(Get(deLabel[d][1], Right), Get(deLabel[d][2], Right), opCode)}

\* cancelDuplicateResultEdges
CancelDuplicates(ds) == {d \in ds : Sym(d) \notin ds}

FindResultAreaEdges ==
    /\ pc = "areas"
    /\ inResult' = CancelDuplicates(ResultAreaEdges)
    /\ pc' = "linking"
    /\ UNCHANGED <<input, opCode, edges, deLabel, nodeLabel, rings, shells,
                   freeHoles, resultLines, resultPoints>>

NoDart == <<>>

\* The scan shared by linkResultDirectedEdges and linkMinimalDirectedEdges:
\* along a star, each incoming dart of "used" is linked to the next outgoing
\* one, the last of them to the first.  An incoming dart with no outgoing one
\* to link to is left over as "incoming".
LinkDirectedEdges(star, used) ==
    LET InUse(d) == d \in used
        outs == SelectSeq(star, InUse)
        Scan(link, d) ==
            IF link.incoming = NoDart
            THEN IF Sym(d) \in used THEN [link EXCEPT !.incoming = Sym(d)] ELSE link
            ELSE IF d \in used
            THEN [incoming |-> NoDart, next |-> (link.incoming :> d) @@ link.next]
            ELSE link
        end == FoldLeft(Scan, [incoming |-> NoDart, next |-> <<>>], star)
    IN  IF end.incoming = NoDart \/ outs = <<>> THEN end
        ELSE [incoming |-> NoDart, next |-> (end.incoming :> outs[1]) @@ end.next]

\* getResultAreaEdges, without those that are no area edges
AreaStar(n) ==
    LET OnResult(d) == /\ d \in inResult \/ Sym(d) \in inResult
                       /\ IsAreaLabel(deLabel[d])
    IN  SelectSeq(Star(n), OnResult)

\* The darts in the order of the graph's edgeEnds, which decides where a ring
\* starts.
DartOrder == FlattenSeq([i \in DOMAIN M.edges |->
                 LET e == M.edges[i]
                     f == e \in DOMAIN edges /\ edges[e].forward
                 IN  <<Dart(e, f), Dart(e, ~f)>>])
FirstOf(ds) == DartOrder[Min({i \in DOMAIN DartOrder : DartOrder[i] \in ds})]

\* EdgeRing::computePoints: the darts from d on, up to d again; <<>> when a
\* link is missing or a dart is visited twice.
Walk(next, d) ==
    LET Step(walk, x) ==
            LET last == walk.ring[Len(walk.ring)]
            IN  IF walk.end # "open" THEN walk
                ELSE IF last \notin DOMAIN next THEN [walk EXCEPT !.end = "null"]
                ELSE IF next[last] = d THEN [walk EXCEPT !.end = "closed"]
                ELSE IF next[last] \in Range(walk.ring)
                THEN [walk EXCEPT !.end = "twice"]
                ELSE [walk EXCEPT !.ring = Append(@, next[last])]
        end == FoldLeft(Step, [ring |-> <<d>>, end |-> "open"], DartOrder)
    IN  IF end.end = "closed" THEN end.ring ELSE <<>>

MergeLinks(links) ==
    LET Join(a, b) == a @@ b IN FoldLeft(Join, <<>>, links)

\* The rings of the links "next" through the darts ds, each from its first dart.
RingsOf(next, ds) ==
    {r \in {Walk(next, d) : d \in ds} : r # <<>> /\ r[1] = FirstOf(Range(r))}

\* linkResultDirectedEdges at every node, then buildMaximalEdgeRings
LinkResultDirectedEdges ==
    /\ pc = "linking"
    /\ LET links == [i \in DOMAIN M.nodes |->
                        LinkDirectedEdges(AreaStar(M.nodes[i]), inResult)]
           next == MergeLinks([i \in DOMAIN links |-> links[i].next])
       IN  IF \/ \E i \in DOMAIN links : links[i].incoming # NoDart
              \/ \E d \in inResult : Walk(next, d) = <<>>
           THEN /\ pc' = "failed"
                /\ UNCHANGED rings
           ELSE /\ rings' = RingsOf(next, inResult)
                /\ pc' = "minimal"
    /\ UNCHANGED <<input, opCode, edges, deLabel, nodeLabel, inResult, shells,
                   freeHoles, resultLines, resultPoints>>

OutgoingDegree(n, ring) == Cardinality(Range(Star(n)) \cap Range(ring))
MaxNodeDegree(ring) ==
    2 * Max({OutgoingDegree(Origin(M, d), ring) : d \in Range(ring)})

\* Fault: the minimal rings are linked counter-clockwise, like the maximal.
MinimalLinksCCW(ring) ==
    LET links == [i \in DOMAIN M.nodes |->
                    LinkDirectedEdges(AreaStar(M.nodes[i]), Range(ring)).next]
    IN  MergeLinks(links)

\* linkDirectedEdgesForMinimalEdgeRings and buildMinimalRings: the same links
\* the other way round the star, among the darts of one maximal ring.
MinimalLinks(ring) ==
    LET links == [i \in DOMAIN M.nodes |->
                    LinkDirectedEdges(Reverse(AreaStar(M.nodes[i])), Range(ring)).next]
    IN  MergeLinks(links)
BuildMinimalRings(ring) == RingsOf(MinimalLinks(ring), Range(ring))

\* The maximal rings in the order they are built in.
RingsInOrder ==
    LET Position(ring) == CHOOSE i \in DOMAIN DartOrder : DartOrder[i] = ring[1]
    IN  SetToSortSeq(rings, LAMBDA r, s : Position(r) < Position(s))

IsHole(ring) == IsCCW(RingPoints(M, ring))

\* buildMinimalEdgeRings and sortShellsAndHoles: the shells that were split
\* off come first.
SplitRings ==
    /\ pc = "minimal"
    /\ LET complex == {r \in rings : MaxNodeDegree(r) > 2}
           simple  == rings \ complex
           parts   == [r \in complex |-> BuildMinimalRings(r)]
           Shells(r) == {s \in parts[r] : ~IsHole(s)}
           Holes(r)  == {h \in parts[r] : IsHole(h)}
           Whole(r)  == IF r \in simple /\ ~IsHole(r)
                        THEN <<[ring |-> r, holes |-> {}]>> ELSE <<>>
           Split(r)  == IF r \in complex /\ Shells(r) # {}
                        THEN <<[ring |-> CHOOSE s \in Shells(r) : TRUE, holes |-> Holes(r)]>>
                        ELSE <<>>
           Every(Part(_)) ==
             FlattenSeq([k \in DOMAIN RingsInOrder |-> Part(RingsInOrder[k])])
       IN  IF \E r \in complex :
                \/ Cardinality(Shells(r)) > 1
                \/ \E d \in Range(r) : Walk(MinimalLinks(r), d) = <<>>
           THEN /\ pc' = "failed"
                /\ UNCHANGED <<shells, freeHoles>>
           ELSE /\ shells' = Every(Split) \o Every(Whole)
                /\ freeHoles' =
                     {h \in simple : IsHole(h)}
                     \cup UNION {parts[r] : r \in {c \in complex : Shells(c) = {}}}
                /\ pc' = "holes"
    /\ UNCHANGED <<input, opCode, edges, deLabel, nodeLabel, inResult, rings,
                   resultLines, resultPoints>>

NoShell == [ring |-> <<>>, holes |-> {}]

IsContained(hole, s) ==
    /\ EnvelopeContains(RingPoints(M, s.ring), RingPoints(M, hole))
    /\ IsPointInRing(RingPoints(M, hole)[1], RingPoints(M, s.ring))

\* Fault: the last shell around the hole is taken, whatever its size.
LastEdgeRingContaining(hole) ==
    LET Try(min, s) == IF IsContained(hole, s) THEN s ELSE min
    IN  FoldLeft(Try, NoShell, shells)

\* findEdgeRingContaining: of the shells around the first coordinate of the
\* hole whose envelopes contain its own, the last that is not larger than the
\* one before.
FindEdgeRingContaining(hole) ==
    LET Try(min, s) ==
            IF /\ IsContained(hole, s)
               /\ \/ min = NoShell
                  \/ EnvelopeContains(RingPoints(M, min.ring), RingPoints(M, s.ring))
            THEN s ELSE min
    IN  FoldLeft(Try, NoShell, shells)

\* placeFreeHoles
PlaceFreeHoles ==
    /\ pc = "holes"
    /\ LET shellOf == [h \in freeHoles |-> FindEdgeRingContaining(h)]
       IN  IF NoShell \in Range(shellOf)
           THEN /\ pc' = "failed"
                /\ UNCHANGED shells
           ELSE /\ shells' = [k \in DOMAIN shells |-> [shells[k] EXCEPT !.holes =
                                  @ \cup {h \in freeHoles : shellOf[h] = shells[k]}]]
                /\ pc' = "lines"
    /\ UNCHANGED <<input, opCode, edges, deLabel, nodeLabel, inResult, rings,
                   freeHoles, resultLines, resultPoints>>

\* The faces of a result polygon.
PolygonFaces(s) == Inside(M, s.ring) \ UNION {Inside(M, h) : h \in s.holes}

-----------------------------------------------------------------------------
(* The result lines and points                                             *)

IsCoveredByA(n) == \E s \in Range(shells) : PolygonFaces(s) \cap M.around[n] # {}

\* findCoveredLineEdges at one star: the location on the way to the i-th
\* dart is inside when the last result edge passed was incoming, or the first
\* of all is outgoing.
AreaMarks(star) ==
    {i \in DOMAIN star : /\ ~IsLineEdge(deLabel[star[i]])
                         /\ {star[i], Sym(star[i])} \cap inResult # {}}

CoveredAt(star, i) ==
    LET before == {j \in AreaMarks(star) : j < i}
    IN  IF before # {} THEN Sym(star[Max(before)]) \in inResult
        ELSE star[Min(AreaMarks(star))] \in inResult

\* LineBuilder::findCoveredLineEdges: the star of the last end with result
\* edges decides, or else whether the first end lies in a result polygon.
IsCoveredEdge(e) ==
    LET ends == {p \in (DOMAIN M.nodes) \X (1 .. Len(M.edges) * 2) :
                    LET star == Star(M.nodes[p[1]])
                    IN  /\ p[2] \in DOMAIN star
                        /\ EdgeOf(star[p[2]]) = e
                        /\ AreaMarks(star) # {}}
        last == CHOOSE p \in ends : \A q \in ends :
                    q[1] < p[1] \/ (q[1] = p[1] /\ q[2] <= p[2])
    IN  IF ends # {} THEN CoveredAt(Star(M.nodes[last[1]]), last[2])
        ELSE IsCoveredByA(Origin(M, Dart(e, edges[e].forward)))

EdgeInResult(e) == \E d \in inResult : EdgeOf(d) = e

\* collectLineEdge
CollectsLine(d) ==
    /\ IsLineEdge(deLabel[d])
    /\ LabelInResult(deLabel[d])
    /\ ~IsCoveredEdge(EdgeOf(d))

\* collectBoundaryTouchEdge
CollectsBoundaryTouch(d) ==
    /\ ~IsLineEdge(deLabel[d])
    /\ ~IsInteriorAreaEdge(deLabel[d])
    /\ ~EdgeInResult(EdgeOf(d))
    /\ LabelInResult(deLabel[d])
    /\ opCode = "intersection"

\* Each directed edge is offered to both, and the first that is taken marks
\* its edge visited, so that no edge is taken twice.
\* LineBuilder::build
BuildLines ==
    /\ pc = "lines"
    /\ resultLines' = {EdgeOf(d) : d \in {c \in GraphDarts :
                            CollectsLine(c) \/ CollectsBoundaryTouch(c)}}
    /\ pc' = "points"
    /\ UNCHANGED <<input, opCode, edges, deLabel, nodeLabel, inResult, rings,
                   shells, freeHoles, resultPoints>>

IsCoveredByLA(n) ==
    \/ M.on[n] \in resultLines
    \/ \E d \in Range(M.star[n]) : EdgeOf(d) \in resultLines
    \/ IsCoveredByA(n)

\* extractNonCoveredResultNodes, filterCoveredNodeToPoint
IsResultPoint(n) ==
    /\ \A d \in Range(Star(n)) : EdgeOf(d) \notin resultLines /\ ~EdgeInResult(EdgeOf(d))
    /\ Star(n) = <<>> \/ opCode = "intersection"
    /\ IsResultOfOp(nodeLabel[n][1], nodeLabel[n][2], opCode)
    /\ ~IsCoveredByLA(n)

\* PointBuilder::build
BuildPoints ==
    /\ pc = "points"
    /\ resultPoints' = {n \in Nodes : IsResultPoint(n)}
    /\ pc' = "done"
    /\ UNCHANGED <<input, opCode, edges, deLabel, nodeLabel, inResult, rings,
                   shells, freeHoles, resultLines>>

-----------------------------------------------------------------------------
Next ==
    \/ Node
    \/ ComputeLabelsFromDepths
    \/ ComputeLabelling
    \/ LabelIncompleteNodes
    \/ FindResultAreaEdges
    \/ LinkResultDirectedEdges
    \/ SplitRings
    \/ PlaceFreeHoles
    \/ BuildLines
    \/ BuildPoints

Spec == Init /\ [][Next]_vars

-----------------------------------------------------------------------------
(* What the operation promises, stated on the faces, edges and nodes of    *)
(* the arrangement alone                                                   *)

SetOp(in1, in2) ==
    CASE opCode = "intersection"  -> in1 /\ in2
      [] opCode = "union"         -> in1 \/ in2
      [] opCode = "difference"    -> in1 /\ ~in2
      [] opCode = "symdifference" -> in1 # in2

ResultFaces == {f \in Faces(M) : SetOp(f \in G(1).faces, f \in G(2).faces)}

\* The pieces of the result area that hold together along edges.
ResultPieces ==
    LET rim == {e \in Range(M.edges) :
                    ~({M.left[e], M.right[e]} \subseteq ResultFaces)}
    IN  {Reach(M, {f}, rim) : f \in ResultFaces}

ResultEdges ==
    {e \in Range(M.edges) :
        /\ SetOp(CoversEdge(M, G(1), e), CoversEdge(M, G(2), e))
        /\ {M.left[e], M.right[e]} \cap ResultFaces = {}}

ResultNodes ==
    {n \in Nodes :
        /\ SetOp(CoversNode(M, G(1), n), CoversNode(M, G(2), n))
        /\ M.around[n] \cap ResultFaces = {}
        /\ M.on[n] \notin ResultEdges
        /\ \A d \in Range(M.star[n]) : EdgeOf(d) \notin ResultEdges}

\* The shapes of the state.
TypeOK ==
    /\ pc \in {"noding", "depths", "labelling", "incomplete", "areas", "linking",
               "minimal", "holes", "lines", "points", "done", "failed"}
    /\ opCode \in Ops
    /\ DOMAIN edges \subseteq Range(M.edges)
    /\ \A e \in DOMAIN edges : edges[e].label \in Labels
    /\ DOMAIN deLabel \subseteq GraphDarts
    /\ \A d \in DOMAIN deLabel : deLabel[d] \in Labels
    /\ nodeLabel \in [Nodes -> [Geoms -> Locations]]
    /\ inResult \subseteq GraphDarts
    /\ resultLines \subseteq Range(M.edges)
    /\ resultPoints \subseteq Nodes

\* Correctly noded input never raises a TopologyException and never trips an
\* assertion, whatever way the rings of the two geometries run.
NeverFails == pc # "failed"

\* A side the labelling gives a directed edge is the side it has: what is
\* propagated around a node, read off the merged depths or located by point
\* in polygon all agree with the faces of the arrangement.
SidesAreTrue ==
    pc \notin {"noding", "depths", "labelling", "failed"} =>
        \A d \in DOMAIN deLabel, g \in Geoms :
            /\ (deLabel[d][g][On] \in {"interior", "boundary"})
                 = CoversEdge(M, G(g), EdgeOf(d))
            /\ IsArea(deLabel[d][g]) =>
                 /\ (deLabel[d][g][Left] = "interior")
                      = (LeftOf(M, d) \in G(g).faces)
                 /\ (deLabel[d][g][Right] = "interior")
                      = (RightOf(M, d) \in G(g).faces)

\* Every ring of a result polygon passes a node at most once, and every
\* directed edge of the result lies on exactly one of them: what touches
\* itself is cut into shell and holes.
RingsAreSimple ==
    pc = "lines" =>
        LET all == {s.ring : s \in Range(shells)} \cup UNION {s.holes : s \in Range(shells)}
        IN  /\ \A r \in all : \A i, j \in DOMAIN r :
                  i # j => Origin(M, r[i]) # Origin(M, r[j])
            /\ UNION {Range(r) : r \in all} = inResult
            /\ \A r, s \in all : r # s => Range(r) \cap Range(s) = {}

\* The polygons of the result are the connected pieces of the faces the
\* operation selects, one polygon for each, holes in the shell they belong to.
AreasAreExact ==
    pc = "done" => /\ {PolygonFaces(s) : s \in Range(shells)} = ResultPieces
                   /\ Len(shells) = Cardinality(ResultPieces)

\* LineBuilder.cpp, of collectBoundaryTouchEdge: "Collect edges from Area inputs
\* which should be in the result but which have not been included in a result
\* area", among them those that are there as a result of a dimensional collapse.
CollapsesKept ==
    pc = "done" =>
        \A g \in Geoms : G(g).kind = "area" => G(g).edges \cap ResultEdges \subseteq resultLines

\* Where that is not kept: edges of a union where a line of one geometry runs
\* along a collapsed part of an area of the other.  Their label is that of an
\* area, so they are no line edge, and only an intersection collects others.
LostEdges ==
    {e \in G(1).edges \cap G(2).edges :
        opCode = "union" /\ {G(g).kind : g \in Geoms} = {"line", "area"}}

\* The lines of the result are the edges the operation selects outside the
\* result area: the lost ones are missing, against CollapsesKept, no other edge
\* is dropped, and none repeats what an area covers.
LinesAreExact == pc = "done" => resultLines = ResultEdges \ LostEdges

\* The points of the result are the nodes the operation selects that no
\* line or area of the result covers.
PointsAreExact == pc = "done" => resultPoints = ResultNodes

\* The overlay runs through on noded input, and closes its rings.
OverlaySound == TypeOK /\ NeverFails /\ RingsAreSimple

\* The result is the point set the operation stands for, in its areas, lines
\* and points, but for the lines LinesAreExact speaks of.
ResultIsExact == AreasAreExact /\ LinesAreExact /\ PointsAreExact
=============================================================================
