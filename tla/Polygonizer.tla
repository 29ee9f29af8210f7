---------------------------- MODULE Polygonizer -----------------------------
(***************************************************************************)
(* polygonize::Polygonizer and its PolygonizeGraph: dangles and cut edges  *)
(* are taken away, what is left is traced into rings, and holes are given  *)
(* to the smallest shell around them.  getPolygons hands the list of       *)
(* polygons over; the next call of any getter polygonizes again, on a      *)
(* graph that keeps the marks, labels and rings of the first time.         *)
(***************************************************************************)
EXTENDS Linework

CONSTANTS
  Separates, \* the two cells of the plane, each a point in it, beside a line
  Outside    \* the unbounded cell

VARIABLES
  marked,    \* darts deleted from the graph
  label,     \* label[d]: the ring of dart d, of the darts that have one
  next,      \* next[d]: the dart after d in its ring
  inRing,    \* darts that belong to an edge ring
  stack,     \* nodes whose edges are to be deleted
  dangles, cutEdges, invalid,  \* lines, as listed
  polygons,  \* the polygons made last
  held,      \* which of the lists "polygons", "invalid" are not handed over
  getter     \* the call in progress

polygonizerVars ==
  <<marked, label, next, inRing, stack, dangles, cutEdges, invalid, polygons, held, getter>>

PolygonizerInit ==
  /\ marked = {}
  /\ label = <<>>
  /\ next = <<>>
  /\ inRing = {}
  /\ stack = <<>>
  /\ dangles = <<>>
  /\ cutEdges = <<>>
  /\ invalid = <<>>
  /\ polygons = <<>>
  /\ held = {}
  /\ getter = NULL

-----------------------------------------------------------------------------
(* getCutEdges leaves what getDangles leaves.                               *)
Getters == {"polygons", "dangles", "invalid"}

(* Once there is a list of polygons a getter returns its list; two of them  *)
(* hand it over.                                                            *)
Get(g) ==
  /\ "polygons" \in held
  /\ Request("idle")
  /\ held' = held \ {g}
  /\ UNCHANGED <<marked, label, next, inRing, stack, dangles, cutEdges, invalid, polygons, getter>>

NodesOfDegreeOne == SelectSeq(NodesInOrder, LAMBDA n : Degree(n) = 1)

(* Without a list of polygons a getter makes one first.                     *)
Polygonize(g) ==
  /\ "polygons" \notin held
  /\ Request(IF lines = <<>> THEN "done" ELSE "dangles")
  /\ getter' = g
  /\ stack' = NodesOfDegreeOne
  /\ dangles' = <<>>
  /\ UNCHANGED <<marked, label, next, inRing, cutEdges, invalid, polygons, held>>

NoGraph ==
  /\ pc = "done"
  /\ pc' = "idle"
  /\ held' = {"polygons"} \ {getter}
  /\ UNCHANGED <<marked, label, next, inRing, stack, dangles, cutEdges, invalid, polygons>>
  /\ UNCHANGED <<getter, tool, lines, asked>>

-----------------------------------------------------------------------------
(* deleteDangles: the last node of the stack loses its edges, and a node    *)
(* left with one edge goes on the stack.                                    *)

DegreeNonDeleted(node, gone) == Cardinality(OutEdges(node) \ gone)

DeleteDangle ==
  /\ pc = "dangles"
  /\ stack # <<>>
  /\ LET node == Last(stack)
         star == Star(node)
         gone == marked \cup Range(star) \cup {Sym(d) : d \in Range(star)}
         leaf == SelectSeq(star, LAMBDA d : DegreeNonDeleted(ToNode(d), gone) = 1)
     IN  /\ marked' = gone
         /\ dangles' = dangles \o [k \in DOMAIN star |-> star[k][1]]
         /\ stack' = Front(stack) \o [k \in DOMAIN leaf |-> ToNode(leaf[k])]
  /\ UNCHANGED <<label, next, inRing, cutEdges, invalid, polygons, held, getter, lineworkVars>>

-----------------------------------------------------------------------------
(* Rings                                                                    *)

(* computeNextCWEdges: arriving along the sym of a dart, go on with the     *)
(* next dart counter-clockwise that is still there.                         *)
NextCW ==
  LET AtNode(links, node) ==
        LET star == SelectSeq(Star(node), LAMBDA d : d \notin marked)
        IN  [d \in {Sym(c) : c \in Range(star)} |->
               star[((CHOOSE k \in DOMAIN star : star[k] = Sym(d)) % Len(star)) + 1]] @@ links
  IN  FoldLeft(AtNode, next, NodesInOrder)

(* The ring of a dart, from the darts walked so far.                        *)
RECURSIVE RingFrom(_, _)
RingFrom(links, ring) ==
  IF links[Last(ring)] = ring[1] THEN ring ELSE RingFrom(links, Append(ring, links[Last(ring)]))
RingOf(links, start) == RingFrom(links, <<start>>)

(* findLabeledEdgeRings: [label, starts], from the labels given.            *)
LabelRings(links, labels) ==
  LET Visit(acc, d) ==
        IF d \in marked \cup DOMAIN acc.label THEN acc
        ELSE [label  |-> [c \in Range(RingOf(links, d)) |-> Len(acc.starts) + 1] @@ acc.label,
              starts |-> Append(acc.starts, d)]
  IN  FoldLeft(Visit, [label |-> labels, starts |-> <<>>], DartsInOrder)

(* "found DE already in ring": the assertion of every walk around a ring.   *)
WalkFails(links, start) == Range(Tail(RingOf(links, start))) \cap inRing # {}

(* The darts the labelled rings were found by.                              *)
RingStarts(labels) ==
  SelectSeq(DartsInOrder, LAMBDA d :
    d \in DOMAIN labels /\ \A c \in DOMAIN labels :
      labels[c] = labels[d] => ~DartBefore(c, d))

(* deleteCutEdges: an edge with the same ring on both sides.                *)
DeleteCutEdges ==
  /\ pc = "dangles"
  /\ stack = <<>>
  /\ next' = NextCW
  /\ LET rings == LabelRings(next', label)
         cut   == SelectSeq(DartsInOrder, LAMBDA d :
                    d \notin marked /\ d[2] /\ rings.label[d] = rings.label[Sym(d)])
     IN  /\ label' = rings.label
         /\ cutEdges' = [k \in DOMAIN cut |-> cut[k][1]]
         /\ marked' = marked \cup Range(cut) \cup {Sym(d) : d \in Range(cut)}
         /\ pc' = IF \E k \in DOMAIN rings.starts : WalkFails(next', rings.starts[k])
                  THEN "aborted" ELSE "link"
  /\ UNCHANGED <<inRing, stack, dangles, invalid, polygons, held, getter>>
  /\ UNCHANGED <<tool, lines, asked>>

(* getEdgeRings: links and labels are made anew.                            *)
LinkRings ==
  /\ pc = "link"
  /\ next' = NextCW
  /\ label' = LabelRings(next', <<>>).label
  /\ pc' = IF \E d \in Range(RingStarts(label')) : WalkFails(next', d)
            THEN "aborted" ELSE "split"
  /\ UNCHANGED <<marked, inRing, stack, dangles, cutEdges, invalid, polygons, held>>
  /\ UNCHANGED <<getter, tool, lines, asked>>

(* computeNextCCWEdges: at a node a ring meets more than once, clockwise    *)
(* turns instead split it there.                                            *)
TurnAt(links, node, l) ==
  LET Has(d) == d \in DOMAIN label /\ label[d] = l
      Look(acc, d) ==
        LET in == IF Has(Sym(d)) THEN Sym(d) ELSE acc.in
        IN  IF ~Has(d) THEN [acc EXCEPT !.in = in]
            ELSE [links |-> IF in = NULL THEN acc.links ELSE (in :> d) @@ acc.links,
                  in    |-> NULL,
                  first |-> IF acc.first = NULL THEN d ELSE acc.first]
      acc == FoldLeft(Look, [links |-> links, in |-> NULL, first |-> NULL], Reverse(Star(node)))
  IN  IF acc.in = NULL THEN acc.links ELSE (acc.in :> acc.first) @@ acc.links

(* convertMaximalToMinimalEdgeRings                                         *)
SplitRings ==
  /\ pc = "split"
  /\ pc' = "rings"
  /\ LET Split(links, d) ==
           LET ring   == RingOf(links, d)
               shared == SelectSeq([k \in DOMAIN ring |-> FromNode(ring[k])], LAMBDA node :
                 Cardinality({c \in OutEdges(node) \cap DOMAIN label : label[c] = label[d]}) > 1)
           IN  FoldLeft(LAMBDA a, node : TurnAt(a, node, label[d]), links, shared)
     IN  next' = FoldLeft(Split, next, RingStarts(label))
  /\ UNCHANGED <<marked, label, inRing, stack, dangles, cutEdges, invalid, polygons, held>>
  /\ UNCHANGED <<getter, tool, lines, asked>>

-----------------------------------------------------------------------------
(* Polygons                                                                 *)

RingPoints(ring) == FlattenSeq([k \in DOMAIN ring |-> Front(PointsAlong(ring[k]))])

\* LinearRing::isValid, of rings of properly noded lines.
IsValidRing(pts) == Len(pts) >= 3 /\ Cardinality(Range(pts)) = Len(pts)

(* Whether a shell's ring contains a hole's: tested at a point of the hole  *)
(* that is not a point of the shell.                                        *)
RingContains(shell, hole) ==
  LET off == SelectSeq(hole, LAMBDA p : p \notin Range(shell))
  IN  /\ ~EnvelopeEquals(shell, hole)
      /\ EnvelopeContains(shell, hole)
      /\ off # <<>> /\ IsPointInRing(off[1], shell)

(* Fault: a hole is given to the first shell around it.                     *)
FirstContaining(hole, shells) ==
  LET Try(min, k) == IF min = 0 /\ RingContains(shells[k], hole) THEN k ELSE min
  IN  FoldLeft(Try, 0, [k \in DOMAIN shells |-> k])

(* EdgeRing::findEdgeRingContaining: the index of the shell, 0 for none.    *)
SmallestContaining(hole, shells) ==
  LET Try(min, k) ==
        IF RingContains(shells[k], hole) /\ (min = 0 \/ EnvelopeContains(shells[min], shells[k]))
        THEN k ELSE min
  IN  FoldLeft(Try, 0, [k \in DOMAIN shells |-> k])

(* The rings of the links, and the rest of polygonize.                      *)
FindPolygons ==
  /\ pc = "rings"
  /\ LET Trace(rings, d) ==
           IF d \in marked \cup inRing \cup UNION {Range(r) : r \in Range(rings)}
           THEN rings ELSE Append(rings, RingOf(next, d))
         traced == FoldLeft(Trace, <<>>, DartsInOrder)
         points == [k \in DOMAIN traced |-> RingPoints(traced[k])]
         valid  == SelectSeq(points, IsValidRing)
         shells == SelectSeq(valid, LAMBDA r : ~IsCCW(r))
         holes  == SelectSeq(valid, IsCCW)
     IN  /\ pc' = IF \E k \in DOMAIN traced : Range(traced[k]) \cap inRing # {}
                  THEN "aborted" ELSE "idle"
         /\ inRing' = inRing \cup UNION {Range(r) : r \in Range(traced)}
         /\ invalid' = SelectSeq(points, LAMBDA r : ~IsValidRing(r))
         /\ polygons' =
              [k \in DOMAIN shells |->
                [shell |-> shells[k],
                 holes |-> SelectSeq(holes, LAMBDA h : SmallestContaining(h, shells) = k)]]
  /\ held' = {"polygons", "invalid"} \ {getter}
  /\ UNCHANGED <<marked, label, next, stack, dangles, cutEdges, getter, tool, lines, asked>>

PolygonizerStep ==
  \/ NoGraph \/ DeleteDangle \/ DeleteCutEdges
  \/ LinkRings \/ SplitRings \/ FindPolygons

PolygonizerNext ==
  /\ tool = "polygonizer"
  /\ \/ \E g \in Getters : Get(g) \/ Polygonize(g)
     \/ PolygonizerStep
     \/ \E line \in Spare : AddLine(line) /\ UNCHANGED polygonizerVars

-----------------------------------------------------------------------------
FirstAnswer == tool = "polygonizer" /\ pc = "idle" /\ asked = <<Len(lines)>>

(* Reference: a bridge is a line whose ends are connected by it only.       *)
WithoutLine(e) == {d \in Dart : d[1] # e}
Side(e, d)     == Reachable(FromNode(d), WithoutLine(e))
IsBridge(e)    == ToNode(<<e, TRUE>>) \notin Side(e, <<e, TRUE>>)
IsTree(nodes, darts) ==
  Cardinality({d \in darts : FromNode(d) \in nodes}) = 2 * (Cardinality(nodes) - 1)
HasTreeSide(e) ==
  \E d \in {<<e, TRUE>>, <<e, FALSE>>} : IsTree(Side(e, d), WithoutLine(e))

(* The lines listed as dangles are those that hold nothing but a tree, and  *)
(* the cut edges the other lines whose ends nothing else connects: the      *)
(* stack finds every dangle in whatever order nodes become one.             *)
DanglesAreTrees ==
  FirstAnswer /\ lines # <<>> =>
    Range(dangles) = {e \in DOMAIN lines : IsBridge(e) /\ HasTreeSide(e)}

CutEdgesAreBridges ==
  FirstAnswer /\ lines # <<>> =>
    /\ Range(cutEdges) = {e \in DOMAIN lines : IsBridge(e) /\ ~HasTreeSide(e)}
    /\ IsInjective(cutEdges)

(* Reference: the faces of the network, by cells that no line separates.    *)
AllCells == UNION Range(Separates)
Joined(cell) ==
  LET gaps == {Separates[l] : l \in DOMAIN Separates \ (Range(lines) \cup {Reverse(l) : l \in Range(lines)})}
      Spread(seen, k) == seen \cup UNION {g \in gaps : g \cap seen # {}}
  IN  FoldLeft(Spread, {cell}, [k \in 1..Cardinality(AllCells) |-> k])

Covers(polygon, cell) ==
  /\ IsPointInRing(cell, polygon.shell)
  /\ \A k \in DOMAIN polygon.holes : ~IsPointInRing(cell, polygon.holes[k])
Covering(cell) == {k \in DOMAIN polygons : Covers(polygons[k], cell)}

(* The polygons are the bounded faces of the network: two cells are in the  *)
(* same polygon exactly when no line separates them, holes are cut from the *)
(* polygon around them and from no other, and no ring is found invalid.     *)
PolygonsAreFaces ==
  FirstAnswer /\ lines # <<>> =>
    /\ invalid = <<>>
    /\ \A cell \in AllCells :
         IF Outside \in Joined(cell) THEN Covering(cell) = {}
         ELSE \E k \in DOMAIN polygons : \A other \in AllCells :
                Covering(other) = {k} <=> other \in Joined(cell)
=============================================================================
