--------------------------- MODULE TopologyLabel ----------------------------
(***************************************************************************)
(* The labels of geomgraph: TopologyLocation, Label and Depth, and how the *)
(* EdgeEndStar of a node completes them.  A location label is a sequence,  *)
(* <<on>> for a line or a point and <<on, left, right>> for an area; a     *)
(* Label is a pair of them, one for each of the two geometries of the      *)
(* operation.  A Depth counts, for each geometry and side, how many of the *)
(* parallel edges merged into one have their interior on that side.        *)
(***************************************************************************)
EXTENDS Integers, Sequences, FiniteSetsExt

Geoms == 1 .. 2

On    == 1
Left  == 2
Right == 3

Locations == {"interior", "boundary", "exterior", "undef"}

LineLocation == [1 .. 1 -> Locations]
AreaLocation == [1 .. 3 -> Locations]
Labels == [Geoms -> LineLocation \cup AreaLocation]

-----------------------------------------------------------------------------
(* TopologyLocation                                                        *)

Get(tl, pos) == IF pos \in DOMAIN tl THEN tl[pos] ELSE "undef"

IsNull(tl) == \A i \in DOMAIN tl : tl[i] = "undef"
IsArea(tl) == Len(tl) > 1
IsLine(tl) == Len(tl) = 1

AllPositionsEqual(tl, loc) == \A i \in DOMAIN tl : tl[i] = loc

FlipLocation(tl) ==
    IF IsArea(tl) THEN <<tl[On], tl[Right], tl[Left]>> ELSE tl

SetAllIfNull(tl, loc) ==
    [i \in DOMAIN tl |-> IF tl[i] = "undef" THEN loc ELSE tl[i]]

\* The destination is widened to an area when the source is one, but only
\* the positions it had before are then filled from the source.
MergeLocation(tl, gl) ==
    LET wide == IF Len(gl) > Len(tl) THEN <<tl[On], "undef", "undef">> ELSE tl
    IN  [i \in DOMAIN wide |->
            IF i \in DOMAIN tl /\ i \in DOMAIN gl /\ wide[i] = "undef"
            THEN gl[i] ELSE wide[i]]

-----------------------------------------------------------------------------
(* Label                                                                   *)

\* The label of an edge of a line of geometry g, and of an area of it.
LineLabel(g, on) == [h \in Geoms |-> IF h = g THEN <<on>> ELSE <<"undef">>]
AreaLabel(g, on, left, right) ==
    [h \in Geoms |-> IF h = g THEN <<on, left, right>>
                     ELSE <<"undef", "undef", "undef">>]

Flip(label)       == [g \in Geoms |-> FlipLocation(label[g])]
Merge(label, lbl) == [g \in Geoms |-> MergeLocation(label[g], lbl[g])]
IsAreaLabel(label) == \E g \in Geoms : IsArea(label[g])

ToLine(tl) == IF IsArea(tl) THEN <<tl[On]>> ELSE tl

-----------------------------------------------------------------------------
(* Depth                                                                   *)

DepthNull == -1
Sides == {Left, Right}
NoDepth == [g \in Geoms |-> [s \in Sides |-> DepthNull]]

DepthIsNull(depth) == \A g \in Geoms, s \in Sides : depth[g][s] = DepthNull

DepthAtLocation(loc) == IF loc = "interior" THEN 1 ELSE 0

\* Depth::add(Label): only sides that are known to be in or out count.
AddDepth(depth, label) ==
    [g \in Geoms |-> [s \in Sides |->
        LET loc == Get(label[g], s)
        IN  IF loc \notin {"interior", "exterior"} THEN depth[g][s]
            ELSE IF depth[g][s] = DepthNull THEN DepthAtLocation(loc)
            ELSE depth[g][s] + DepthAtLocation(loc)]]

Shallower(a, b) == IF a <= b THEN a ELSE b

\* Depth::normalize, of one geometry: the shallower side becomes 0, a deeper
\* one 1.
Normalize(sides) ==
    IF sides[Left] = DepthNull THEN sides
    ELSE LET least == Shallower(sides[Left], sides[Right])
             floor == IF least < 0 THEN 0 ELSE least
         IN  [s \in Sides |-> IF sides[s] > floor THEN 1 ELSE 0]

DepthLocation(d) == IF d <= 0 THEN "exterior" ELSE "interior"

\* Fault: the sides are left as the merge put them.
LabelKeptFromMerge(label, depth) == label

\* OverlayOp::computeLabelsFromDepths, for one edge: sides of equal depth are
\* a dimensional collapse and make the edge a line of that geometry; others
\* give the label its sides.
LabelFromDepth(label, depth) ==
    IF DepthIsNull(depth) THEN label
    ELSE LET norm == [g \in Geoms |-> Normalize(depth[g])]
             area == IsAreaLabel(label)
         IN  [g \in Geoms |->
                IF IsNull(label[g]) \/ ~area \/ norm[g][Left] = DepthNull
                THEN label[g]
                ELSE IF norm[g][Left] = norm[g][Right] THEN ToLine(label[g])
                ELSE <<label[g][On], DepthLocation(norm[g][Left]),
                                     DepthLocation(norm[g][Right])>>]

-----------------------------------------------------------------------------
(* EdgeEndStar: what the labels of the edges around a node say of each     *)
(* other.  A star is the sequence of its edge ends, counter-clockwise, and *)
(* label gives each its Label.                                             *)

\* Edge ends of a star whose sides are known for geometry g.
Sided(label, star, g) ==
    {i \in DOMAIN star : Get(label[star[i]][g], Left) # "undef"}

\* The location reached when the star is swept up to its i-th end: the left
\* of the last sided end before it, or of the last of all.
CurrLoc(label, star, g, i) ==
    LET sided  == Sided(label, star, g)
        before == {j \in sided : j < i}
    IN  label[star[Max(IF before # {} THEN before ELSE sided)]][g][Left]

SideConflict(label, star, g) ==
    \E i \in Sided(label, star, g) :
        label[star[i]][g][Right] # CurrLoc(label, star, g, i)

\* propagateSideLabels, at the i-th end
PropagateSide(label, star, g, i) ==
    IF Sided(label, star, g) = {} THEN label[star[i]][g]
    ELSE SetAllIfNull(label[star[i]][g], CurrLoc(label, star, g, i))

HasDimensionalCollapseEdge(label, star, g) ==
    \E i \in DOMAIN star : /\ IsLine(label[star[i]][g])
                           /\ label[star[i]][g][On] = "boundary"

\* computeLabelling, at the i-th end of a star whose node lies at loc in the
\* areas of g: what is still unknown lies outside when a collapsed edge meets
\* the node, and otherwise where the node lies.
StarLabel(label, star, g, i, loc) ==
    SetAllIfNull(PropagateSide(label, star, g, i),
                 IF HasDimensionalCollapseEdge(label, star, g) THEN "exterior"
                 ELSE loc)
=============================================================================
