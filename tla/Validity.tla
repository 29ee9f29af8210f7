------------------------------ MODULE Validity ------------------------------
(***************************************************************************)
(* IsValidOp: whether polygons, multi-polygons, lines and collections of   *)
(* them are valid, and if not, the first reason found.  It builds the same *)
(* graph of edges, cuts and bundles of edge ends as relate does, of one    *)
(* geometry; one action per check, in the order the code makes them.       *)
(*                                                                         *)
(* Geometries are drawn on a grid of unit squares, each cut by the         *)
(* diagonal between its corners with an even sum of coordinates: a ring    *)
(* runs along the grid lines and these diagonals.                          *)
(***************************************************************************)
EXTENDS Relate

CONSTANTS
  Suspects,  \* sequences of geometries: a collection, or one geometry
  Squares    \* of the grid, by their lower left corners

VARIABLES
  elements,   \* what is left of the collection
  lenient,    \* isSelfTouchingRingFormingHoleValid
  isChecked,
  validErr,   \* the reason found, "none" so far, or "crashed"
  given       \* the collection as it was given

validVars == <<elements, lenient, isChecked, validErr, given>>

Nothing == [kind |-> "area", parts |-> <<>>]

NotAsked == elements = <<>> /\ lenient = FALSE /\ isChecked = FALSE /\ validErr = "none"
            /\ given = <<>>

ValidityInit ==
  /\ pc = "element"
  /\ operands = <<Nothing, Nothing>>
  /\ Fresh
  /\ given \in Suspects /\ elements = given
  /\ lenient \in BOOLEAN /\ isChecked = FALSE /\ validErr = "none"

\* An element is done with: it was the one checked.
Finished(reason) ==
  /\ validErr' = reason
  /\ isChecked' = TRUE
  /\ pc' = "element"

\* One check of an element: it ends the element if it finds a reason.
Check(from, to, reason) ==
  /\ pc = from
  /\ IF reason = "none" /\ to # "element"
     THEN pc' = to /\ UNCHANGED <<isChecked, validErr>>
     ELSE Finished(reason)
  /\ UNCHANGED <<operands, attached, proper, nodes, ends, im, argNodes, cuts, elements, lenient, given>>

-----------------------------------------------------------------------------
(* The elements of a collection                                             *)

\* Each has a graph of its own; the empty ones, and all after the first that
\* is not, are passed over.
NextElement ==
  /\ pc = "element" /\ elements # <<>> /\ validErr = "none"
  /\ elements' = Tail(elements)
  /\ LET skip == isChecked \/ IsEmpty(Head(elements))
     IN  /\ operands' = IF skip THEN operands ELSE <<Head(elements), Nothing>>
         /\ pc' = IF skip THEN "element" ELSE "points"
  /\ UNCHANGED <<argNodes, cuts, attached, proper, nodes, ends, im,
                 lenient, isChecked, validErr, given>>

Answer ==
  /\ pc = "element" /\ (elements = <<>> \/ validErr # "none")
  /\ pc' = "answered"
  /\ UNCHANGED <<operands, argNodes, cuts, attached, proper, nodes, ends, im, validVars>>

-----------------------------------------------------------------------------
(* Points and nodes                                                         *)

TooFewPoints(part) == Cardinality(part.vertices) < (IF part.role = "line" THEN 2 ELSE 4)

\* Lines need no more than their points.
CheckTooFewPoints ==
  Check("points", IF G(1).kind = "area" THEN "area" ELSE "element",
           IF \E e \in DOMAIN Parts(1) : TooFewPoints(Parts(1)[e]) THEN "tooFewPoints" ELSE "none")

\* computeSelfNodes, of every segment with every other, also of its own ring.
Tested == {st \in Segments(1) \X Segments(1) : st[1] # st[2] /\ ~IsTrivial(st[1], st[2])}

\* The bundles of ends at a node: each has two sides, which are those of the
\* next bundles.
IsAreaLabelsConsistent(bundles, p) ==
  LET star == StarOf(bundles, p)
  IN  /\ \A i \in DOMAIN star : bundles[star[i]][1][Left] # bundles[star[i]][1][Right]
      /\ ~SideConflict(bundles, star, 1)

HasDuplicateRings(stubs) == Cardinality({BundleOf(s) : s \in stubs}) < Cardinality(stubs)

AreaTrouble ==
  LET bundles == Bundles
  IN  CASE \/ \E st \in Tested : IsProper(st[1], st[2])
           \/ \E p \in {b[1] : b \in DOMAIN bundles} : ~IsAreaLabelsConsistent(bundles, p)
             -> "selfIntersection"
        [] HasDuplicateRings(AllStubs) -> "duplicatedRings"
        [] OTHER -> "none"

ComputeRingSelfNodes ==
  /\ Phase("area", "consistent")
  /\ cuts' = [cuts EXCEPT ![1] = Recorded(1, {st \in Tested : ~IsProper(st[1], st[2])})]
  /\ UNCHANGED <<operands, argNodes, attached, proper, nodes, ends, im, validVars>>

CheckConsistentArea == Check("consistent", "rings", AreaTrouble)

\* The list of intersections of an edge has its ends too.
IntersectionsOn(e) == cuts[1][e] \cup {1, Len(Parts(1)[e].walk)}
NodesOn(e) == {Pt(1, e, k) : k \in IntersectionsOn(e)}

TouchesItself(e) == Cardinality(NodesOn(e)) < Cardinality(IntersectionsOn(e) \ {1})

CheckNoSelfIntersectingRings ==
  Check("rings", "holes",
           IF ~lenient /\ \E e \in DOMAIN Parts(1) : TouchesItself(e)
           THEN "ringSelfIntersection" ELSE "none")

-----------------------------------------------------------------------------
(* Rings within rings                                                       *)

\* findPtNotNode: the first coordinate of a ring that is no node of another.
NotNodes(e, search) ==
  SelectSeq(Append(Ring(Parts(1)[e]), Pt(1, e, 1)), LAMBDA p : p \notin NodesOn(search))

IsInside(p, e) == IsPointInRing(p, Ring(Parts(1)[e]))

ShellOf(m) == CHOOSE e \in DOMAIN Parts(1) : Parts(1)[e].role = "shell" /\ Parts(1)[e].member = m
HolesOf(m) == SelectSeq([e \in DOMAIN Parts(1) |-> e],
                        LAMBDA e : Parts(1)[e].role = "hole" /\ Parts(1)[e].member = m)
Shells == {ShellOf(m) : m \in Members(G(1))}

\* The first of a sequence of outcomes that is not "none".
FirstOutcome(outcomes) ==
  LET found == SelectSeq(outcomes, LAMBDA o : o # "none") IN IF found = <<>> THEN "none" ELSE Head(found)

\* The holes after one all of whose points are nodes of the shell are left.
HoleInShell(hole, shell) ==
  CASE NotNodes(hole, shell) = <<>> -> "give up"
    [] NotNodes(hole, shell) # <<>> /\ ~IsInside(Head(NotNodes(hole, shell)), shell)
         -> "holeOutsideShell"
    [] OTHER -> "none"

HolesInShell(m) ==
  LET outcome == FirstOutcome([i \in DOMAIN HolesOf(m) |-> HoleInShell(HolesOf(m)[i], ShellOf(m))])
  IN  IF outcome = "give up" THEN "none" ELSE outcome

CheckHolesInShell ==
  Check("holes", "nested", FirstOutcome([m \in Members(G(1)) |-> HolesInShell(m)]))

HoleInHole(hole, search) ==
  CASE hole = search \/ ~EnvelopeIntersects(Ring(Parts(1)[hole]), Ring(Parts(1)[search])) -> "none"
    [] hole # search /\ NotNodes(hole, search) = <<>> -> "crashed"
    [] OTHER -> IF IsInside(Head(NotNodes(hole, search)), search) THEN "nestedHoles" ELSE "none"

\* Each hole with the others, in the order the index gives them.
HolesNotNested(m) ==
  LET holes == HolesOf(m)
      troubles(i) == {HoleInHole(holes[i], holes[j]) : j \in DOMAIN holes} \ {"none"}
      first == SelectSeq([i \in DOMAIN holes |-> i], LAMBDA i : troubles(i) # {})
  IN  IF first = <<>> THEN {"none"} ELSE troubles(Head(first))

CheckHolesNotNested ==
  /\ pc = "nested"
  /\ LET members == SelectSeq([m \in Members(G(1)) |-> m], LAMBDA m : HolesNotNested(m) # {"none"})
     IN  \E outcome \in IF members = <<>> THEN {"none"} ELSE HolesNotNested(Head(members)) :
           Check("nested", "shells", outcome)

\* checkShellInsideHole: "none" when the shell is in the hole, "crashed" when
\* it is not outside at its first point and no point of the hole is off it.
ShellInHole(shell, hole) ==
  LET ofShell == NotNodes(shell, hole)
      ofHole  == NotNodes(hole, shell)
      strays  == ofShell # <<>> /\ ~IsInside(Head(ofShell), hole)
  IN  CASE strays -> "nestedShells"
        [] ~strays /\ ofHole = <<>> -> "crashed"
        [] OTHER -> IF IsInside(Head(ofHole), shell) THEN "nestedShells" ELSE "none"

\* checkShellNotNested: of a shell and the polygon of another member.
ShellInPolygon(shell, m) ==
  LET ofShell == NotNodes(shell, ShellOf(m))
      inHoles == [i \in DOMAIN HolesOf(m) |-> ShellInHole(shell, HolesOf(m)[i])]
  IN  CASE ofShell = <<>> \/ ~IsInside(Head(ofShell), ShellOf(m)) -> "none"
        [] ofShell # <<>> /\ IsInside(Head(ofShell), ShellOf(m)) /\ inHoles = <<>> -> "nestedHoles"
        [] OTHER -> LET stops == SelectSeq(inHoles, LAMBDA o : o # "nestedShells")
                    IN  IF stops = <<>> THEN "nestedShells" ELSE Head(stops)

CheckShellsNotNested ==
  Check("shells", "connected",
           FirstOutcome(FlattenSeq([m \in Members(G(1)) |->
             [n \in Members(G(1)) |-> IF m = n THEN "none" ELSE ShellInPolygon(ShellOf(m), n)]])))

-----------------------------------------------------------------------------
(* ConnectedInteriorTester                                                  *)

\* The steps of the rings, with the interior on their right.
Darts(e) ==
  LET n == Len(Parts(1)[e].walk)
  IN  IF RingLabel(1, Parts(1)[e])[1][Right] = "interior"
      THEN {<<Pt(1, e, k), Pt(1, e, k + 1)>> : k \in 1..n - 1}
      ELSE {<<Pt(1, e, k + 1), Pt(1, e, k)>> : k \in 1..n - 1}
InResult == UNION {Darts(e) : e \in DOMAIN Parts(1)}

\* The first of some darts that leave p, counter-clockwise after the direction
\* of q, and the last.
Following(darts, p, q) ==
  CHOOSE d \in darts : \A x \in darts \ {d} :
    LET later(s) == DirectionBefore(p, q, s)
    IN  CASE later(d[2]) = later(x[2]) -> DirectionBefore(p, d[2], x[2])
          [] OTHER -> later(d[2])
Preceding(darts, p, q) ==
  CHOOSE d \in darts : \A x \in darts \ {d} :
    LET sooner(s) == DirectionBefore(p, s, q)
    IN  CASE sooner(d[2]) = sooner(x[2]) -> DirectionBefore(p, x[2], d[2])
          [] OTHER -> sooner(d[2])

Outgoing(darts, p) == {d \in darts : d[1] = p}

\* linkResultDirectedEdges, and linkMinimalDirectedEdges within a ring.
LinkResult(darts)  == [d \in darts |-> Following(Outgoing(darts, d[2]), d[2], d[1])]
LinkMinimal(darts) == [d \in darts |-> Preceding(Outgoing(darts, d[2]), d[2], d[1])]

\* The darts from d on, up to d again.
RingFrom(next, d) ==
  LET walk[k \in 1..Cardinality(DOMAIN next)] == IF k = 1 THEN d ELSE next[walk[k - 1]]
      size == CHOOSE k \in DOMAIN walk : next[walk[k]] = d /\ \A j \in 1..k - 1 : next[walk[j]] # d
  IN  [k \in 1..size |-> walk[k]]

IsHole(ring) == IsCCW([k \in DOMAIN ring |-> ring[k][1]])

\* visitInteriorRing: the ring at the first step of a shell.
FromFirstStep(next, e) ==
  Range(RingFrom(next, CHOOSE d \in Darts(e) : Range(d) = {Pt(1, e, 1), Pt(1, e, 2)}))

\* Fault: only the first shell is visited.
VisitedOfFirst(next) == FromFirstStep(next, ShellOf(1))

Visited(next) == UNION {FromFirstStep(next, e) : e \in Shells}

HasUnvisitedShellEdge ==
  LET next == LinkResult(InResult)
      visited == Visited(next)
      unvisited(ring) == LET min == LinkMinimal(ring)
                         IN  \E d \in ring \ visited : ~IsHole(RingFrom(min, d))
  IN  \E d \in InResult \ visited : unvisited(Range(RingFrom(next, d)))

CheckConnectedInteriors ==
  Check("connected", "element",
           IF HasUnvisitedShellEdge THEN "disconnectedInterior" ELSE "none")

ValidityNext ==
  \/ NextElement \/ Answer
  \/ CheckTooFewPoints \/ ComputeRingSelfNodes \/ CheckConsistentArea
  \/ CheckNoSelfIntersectingRings \/ CheckHolesInShell \/ CheckHolesNotNested
  \/ CheckShellsNotNested \/ CheckConnectedInteriors

\* Either question may be asked.
AskInit == (Init /\ NotAsked) \/ ValidityInit
AskNext == (Next /\ UNCHANGED validVars) \/ ValidityNext
AskSpec == AskInit /\ [][AskNext]_<<vars, validVars>>

-----------------------------------------------------------------------------
(* What is true of a geometry, from the triangles its rings go round        *)

Triangles(sq) ==
  LET corner(i, j) == <<sq[1] + i, sq[2] + j>>
  IN  IF (sq[1] + sq[2]) % 2 = 0
      THEN {{corner(0, 0), corner(1, 1), c} : c \in {corner(1, 0), corner(0, 1)}}
      ELSE {{corner(1, 0), corner(0, 1), c} : c \in {corner(0, 0), corner(1, 1)}}
Faces == UNION {Triangles(sq) : sq \in Squares}

\* Three times the centre.
Centre == [f \in Faces |-> [axis \in {1, 2} |-> MapThenSumSet(LAMBDA p : p[axis], f)]]

FacesIn(part) ==
  LET ring == [k \in DOMAIN Ring(part) |-> <<3 * Ring(part)[k][1], 3 * Ring(part)[k][2]>>]
  IN  {f \in Faces : IsPointInRing(Centre[f], ring)}

\* How a ring passes a point, and when it crosses another there: that comes
\* from one side of it and leaves on the other.
Passages(part) ==
  LET w == part.walk
  IN  {[at |-> w[k], from |-> w[IF k = 1 THEN Len(w) - 1 ELSE k - 1], to |-> w[k + 1]] :
       k \in 1..Len(w) - 1}
Leftward(s, q) ==
  LET before(a, b) == DirectionBefore(s.at, a, b)
  IN  IF before(s.from, s.to) THEN before(s.from, q) /\ before(q, s.to)
                              ELSE before(s.from, q) \/ before(q, s.to)
Crosses(s, t) == s.at = t.at /\ (Leftward(s, t.from) # Leftward(s, t.to))

Steps(part) == {{part.walk[k], part.walk[k + 1]} : k \in 1..Len(part.walk) - 1}

\* Some step is taken twice, by one ring or by two.
SharesSteps(parts) ==
  Cardinality(UNION {Steps(parts[e]) : e \in DOMAIN parts})
    < FoldFunction(+, 0, [e \in DOMAIN parts |-> Len(parts[e].walk) - 1])

\* The triangles of a member, and those that can be reached from one of them
\* without crossing a ring.
Covered(g, m) ==
  LET of(role) == {part \in Polygon(g, m) : part.role = role}
  IN  UNION {FacesIn(s) : s \in of("shell")} \ UNION {FacesIn(h) : h \in of("hole")}

ReachedIn(faces, walls) ==
  LET joined(f, h) == Cardinality(f \cap h) = 2 /\ f \cap h \notin walls
      reach[k \in 0..Cardinality(faces)] ==
        IF k = 0 THEN {CHOOSE f \in faces : TRUE}
        ELSE LET last == reach[k - 1]
                 more == {f \in faces \ last : \E h \in last : joined(f, h)}
             IN  last \cup more
  IN  reach[Cardinality(faces)]

Connected(g, m) ==
  LET faces == Covered(g, m)
      walls == UNION {Steps(part) : part \in Range(g.parts)}
  IN  faces # {} /\ ReachedIn(faces, walls) = faces

RingsCross(g) ==
  LET passages == UNION {{[by |-> e, as |-> s] : s \in Passages(g.parts[e])} : e \in DOMAIN g.parts}
  IN  \E s, t \in passages : s # t /\ Crosses(s.as, t.as)

PassesTwice(part) == Cardinality(Range(part.walk)) < Len(part.walk) - 1

Holes(g, m) == {e \in DOMAIN g.parts : g.parts[e].role = "hole" /\ g.parts[e].member = m}
TrueShell(g, m) == CHOOSE part \in Polygon(g, m) : part.role = "shell"

HolesOutside(g) ==
  \E m \in Members(g), e \in DOMAIN g.parts :
    e \in Holes(g, m) /\ ~(FacesIn(g.parts[e]) \subseteq FacesIn(TrueShell(g, m)))
HolesMeet(g) ==
  \E m \in Members(g) : \E e, f \in Holes(g, m) :
    e < f /\ FacesIn(g.parts[e]) \cap FacesIn(g.parts[f]) # {}
MembersMeet(g) == \E m, n \in Members(g) : m < n /\ Covered(g, m) \cap Covered(g, n) # {}

\* What is wrong with a geometry.
Wrongs(g) ==
  LET wrong ==
        [selfIntersection     |-> g.kind = "area" /\ RingsCross(g),
         duplicatedRings      |-> g.kind = "area" /\ SharesSteps(g.parts),
         ringSelfIntersection |-> g.kind = "area" /\ \E part \in Range(g.parts) : PassesTwice(part),
         holeOutsideShell     |-> g.kind = "area" /\ HolesOutside(g),
         nestedHoles          |-> g.kind = "area" /\ HolesMeet(g),
         nestedShells         |-> g.kind = "area" /\ MembersMeet(g),
         disconnectedInterior |-> g.kind = "area" /\ \E m \in Members(g) : ~Connected(g, m)]
  IN  IF \E part \in Range(g.parts) : TooFewPoints(part) THEN {"tooFewPoints"}
      ELSE {r \in DOMAIN wrong : wrong[r]}

\* All the coordinates of a hole lie on another, or on the shell of another
\* member.
HoleOnRing(g) ==
  \E e, f \in DOMAIN g.parts :
    /\ e # f
    /\ g.parts[e].role = "hole"
    /\ g.parts[f].role = "hole" <=> g.parts[f].member = g.parts[e].member
    /\ Range(Ring(g.parts[e])) \subseteq Range(g.parts[f].walk)

\* What is asked of a polygon whose rings have been found not to cross is
\* answered: QuadtreeNestedRingTester.cpp asserts that of a hole, "Unable to
\* find a ring point not a node of the search ring" being the case left out,
\* and IsValidOp.cpp that "points in shell and hole appear to be equal" never.
NeverAborts == pc = "answered" => validErr # "crashed"

\* The first element that is not empty is found valid exactly when nothing is
\* wrong with it, and what is reported is wrong with it.  Of the elements after
\* it nothing is said: the code does not look at them.  Shells in a member
\* without holes are reported as nested holes; rings that share a step, or lie
\* where they should not and touch, may be reported as crossing; and the
\* program aborts, against NeverAborts, only over a hole all of whose
\* coordinates lie on another ring.
ValidExactly ==
  pc = "answered" =>
    LET checked == SelectSeq(given, LAMBDA g : ~IsEmpty(g))
        wrongs  == (IF checked = <<>> THEN {} ELSE Wrongs(Head(checked)))
                   \ (IF lenient THEN {"ringSelfIntersection"} ELSE {})
    IN  CASE validErr = "none" -> wrongs = {}
          [] validErr = "crashed" -> HoleOnRing(Head(checked))
          [] validErr = "selfIntersection" -> wrongs \ {"ringSelfIntersection", "disconnectedInterior"} # {}
          [] validErr = "nestedHoles" -> wrongs \cap {"nestedHoles", "nestedShells"} # {}
          [] OTHER -> validErr \in wrongs
=============================================================================
