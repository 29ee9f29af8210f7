----------------------------- MODULE Geometries -----------------------------
(***************************************************************************)
(* Polygons, line strings, points and collections of one of them, and the  *)
(* predicates geom::Geometry answers about two of them.                    *)
(*                                                                         *)
(* Geometries are drawn on a planar mesh: a part of one (a ring, a line, a *)
(* point) is a walk along the edges of the mesh, of which only some points *)
(* are its coordinates; at the others it runs straight on.  So whatever    *)
(* two geometries have in common is made of cells of the mesh.             *)
(***************************************************************************)
EXTENDS Plane, FiniteSetsExt

CONSTANT Mesh  \* a function from the edges, sets of two points, to the set
               \* of the faces beside them, sets of the points around

-----------------------------------------------------------------------------
(* geom::IntersectionMatrix: for each pair of interior, boundary and       *)
(* exterior, one of each of two geometries, the dimension of what they     *)
(* have in common.                                                         *)

F == -1   \* Dimension::False: nothing in common
P == 0
L == 1
A == 2

Places == <<"interior", "boundary", "exterior">>
Cells  == {<<Places[i], Places[j]>> : i, j \in 1..3}

Matrices == [Cells -> F..A]

\* From its nine dimensions, row by row.
Matrix(dims) ==
  [c \in Cells |-> LET at(place) == CHOOSE i \in 1..3 : Places[i] = place
                   IN  dims[3 * (at(c[1]) - 1) + at(c[2])]]

EmptyMatrix == [c \in Cells |-> F]

\* Each of some entries <<place, place, dimension>> is a lower bound.
SetAtLeast(im, entries) ==
  [c \in Cells |-> Max({im[c]} \cup {e[3] : e \in {x \in entries : <<x[1], x[2]>> = c}})]

Transpose(im) == [c \in Cells |-> im[<<c[2], c[1]>>]]

(* What the matrix says of two geometries of dimensions dimA and dimB       *)

II(im) == im[<<"interior", "interior">>]
IB(im) == im[<<"interior", "boundary">>]
IE(im) == im[<<"interior", "exterior">>]
BI(im) == im[<<"boundary", "interior">>]
BB(im) == im[<<"boundary", "boundary">>]
BE(im) == im[<<"boundary", "exterior">>]
EI(im) == im[<<"exterior", "interior">>]
EB(im) == im[<<"exterior", "boundary">>]

IsDisjoint(im)   == \A d \in {II(im), IB(im), BI(im), BB(im)} : d = F
IsIntersects(im) == ~IsDisjoint(im)

IsTouches(im, dimA, dimB) ==
  /\ ~(dimA = P /\ dimB = P)
  /\ II(im) = F
  /\ \E d \in {IB(im), BI(im), BB(im)} : d >= P

IsCrosses(im, dimA, dimB) ==
  \/ dimA < dimB /\ II(im) >= P /\ IE(im) >= P
  \/ dimA > dimB /\ II(im) >= P /\ EI(im) >= P
  \/ dimA = L /\ dimB = L /\ II(im) = P

IsOverlaps(im, dimA, dimB) ==
  /\ dimA = dimB
  /\ IF dimA = L THEN II(im) = L ELSE II(im) >= P
  /\ IE(im) >= P
  /\ EI(im) >= P

IsContains(im) == II(im) >= P /\ EI(im) = F /\ EB(im) = F
IsWithin(im)   == II(im) >= P /\ IE(im) = F /\ BE(im) = F
IsCovers(im)   == IsIntersects(im) /\ EI(im) = F /\ EB(im) = F

IsEquals(im, dimA, dimB) == dimA = dimB /\ IsContains(im) /\ IsWithin(im)

-----------------------------------------------------------------------------
(* Geometries                                                               *)

Kinds == {"area", "line", "point"}
(* A geometry is a record                                                   *)
(*   kind:  one of Kinds                                                    *)
(*   parts: a sequence of [role: "shell", "hole", "line" or "point",        *)
(*            member: the polygon a ring belongs to, walk: a sequence of    *)
(*            points, vertices: which indices of it are coordinates]        *)
(*   faces: the faces of the mesh an area covers                            *)

IsEmpty(g)   == g.parts = <<>>
Dimension(g) == CASE g.kind = "area" -> A [] g.kind = "line" -> L [] g.kind = "point" -> P
IsClosed(part) == part.walk[1] = Last(part.walk)
BoundaryDimension(g) ==
  CASE g.kind = "area"  -> L
    [] g.kind = "point" -> F
    [] g.kind = "line"  -> IF \A k \in DOMAIN g.parts : IsClosed(g.parts[k]) THEN F ELSE P

Members(g) == {g.parts[k].member : k \in DOMAIN g.parts}
Polygon(g, member) == {part \in Range(g.parts) : part.member = member}

Extent(g) == FlattenSeq([k \in DOMAIN g.parts |-> g.parts[k].walk])

Intersecting(g, h) == ~IsEmpty(g) /\ ~IsEmpty(h) /\ EnvelopeIntersects(Extent(g), Extent(h))
Containing(g, h)   == ~IsEmpty(g) /\ ~IsEmpty(h) /\ EnvelopeContains(Extent(g), Extent(h))
SameExtent(g, h)   == ~IsEmpty(g) /\ ~IsEmpty(h) /\ EnvelopeEquals(Extent(g), Extent(h))

-----------------------------------------------------------------------------
(* Where a point lies                                                       *)

Corners(part) == SelectSeq([k \in DOMAIN part.walk |-> <<k, part.walk[k]>>],
                           LAMBDA c : c[1] \in part.vertices)
\* The coordinates of a ring, but for the last.
Ring(part)    == LET cs == Corners(part) IN [k \in 1..Len(cs) - 1 |-> cs[k][2]]
OnLine(p, part) == p \in Range(part.walk)

LocateInRing(p, part) ==
  CASE OnLine(p, part) -> "boundary"
    [] ~OnLine(p, part) /\ IsPointInRing(p, Ring(part)) -> "interior"
    [] OTHER -> "exterior"

LocateInPolygon(p, rings) ==
  LET shell == CHOOSE r \in rings : r.role = "shell"
      holes == rings \ {shell}
  IN  IF LocateInRing(p, shell) # "interior" THEN LocateInRing(p, shell)
      ELSE CASE \E h \in holes : LocateInRing(p, h) = "interior" -> "exterior"
             [] \E h \in holes : LocateInRing(p, h) = "boundary" -> "boundary"
             [] OTHER -> "interior"

LocateOnLine(p, part) ==
  CASE ~IsClosed(part) /\ p \in {part.walk[1], Last(part.walk)} -> "boundary"
    [] OnLine(p, part) -> "interior"
    [] OTHER -> "exterior"

\* PointLocator: a point on the boundary of an even number of the elements
\* is in the interior; points are no place to be.
Locate(p, g) ==
  LET loc(k) == IF g.kind = "area" THEN LocateInPolygon(p, Polygon(g, k))
                                   ELSE LocateOnLine(p, g.parts[k])
      elements == CASE g.kind = "area"  -> Members(g)
                    [] g.kind = "line"  -> DOMAIN g.parts
                    [] g.kind = "point" -> {}
      boundaries == {k \in elements : loc(k) = "boundary"}
  IN  CASE Cardinality(boundaries) % 2 = 1 -> "boundary"
        [] \E k \in elements : loc(k) # "exterior" -> "interior"
        [] OTHER -> "exterior"

InPolygon(p, rings) ==
  \A r \in rings : IsPointInRing(p, Ring(r)) <=> r.role = "shell"

\* SimplePointInAreaLocator, for points off every ring.
LocateInArea(p, g) ==
  IF g.kind = "area" /\ \E m \in Members(g) : InPolygon(p, Polygon(g, m))
  THEN "interior" ELSE "exterior"

-----------------------------------------------------------------------------
(* Rectangles                                                               *)

IsRectangle(g) ==
  /\ g.kind = "area" /\ Len(g.parts) = 1
  /\ LET cs == Corners(g.parts[1])
     IN  /\ Len(cs) = 5
         /\ \A k \in 1..5, axis \in {1, 2} :
              cs[k][2][axis] \in {Low(Extent(g), axis), High(Extent(g), axis)}
         /\ \A k \in 1..4 : (cs[k][2][1] = cs[k + 1][2][1]) # (cs[k][2][2] = cs[k + 1][2][2])

Within(axis, inner, outer) ==
  Low(inner, axis) >= Low(outer, axis) /\ High(inner, axis) <= High(outer, axis)

\* The points of an element of g: a polygon's, a line's or a point's.
Elements(g) == IF g.kind = "area" THEN {Polygon(g, m) : m \in Members(g)}
                                  ELSE {{g.parts[k]} : k \in DOMAIN g.parts}
ExtentOf(parts) == FlattenSeq(SetToSeq({part.walk : part \in parts}))

RectangleIntersects(r, g) ==
  LET rect == Extent(r)
      near == {e \in Elements(g) : EnvelopeIntersects(rect, ExtentOf(e))}
  IN  \/ \E e \in near, axis \in {1, 2} : Within(axis, ExtentOf(e), rect)
      \/ /\ g.kind = "area"
         /\ \E e \in near, c \in Range(Corners(r.parts[1])) : InPolygon(c[2], e)
      \/ /\ g.kind # "point"
         /\ \E e \in near : Range(ExtentOf(e)) \cap Range(rect) # {}

OnSide(r, p, q) == \E axis \in {1, 2} :
  p[axis] = q[axis] /\ p[axis] \in {Low(Extent(r), axis), High(Extent(r), axis)}

InRectangleBoundary(r, g) ==
  /\ g.kind # "area"
  /\ \A part \in Range(g.parts) :
       LET cs == Corners(part)
       IN  IF g.kind = "point" THEN OnSide(r, cs[1][2], cs[1][2])
           ELSE \A k \in 1..Len(cs) - 1 : OnSide(r, cs[k][2], cs[k + 1][2])

\* Fault: what lies in the boundary counts as contained.
EnvelopeOfRectangleContains(r, g) == Containing(r, g)

RectangleContains(r, g) == Containing(r, g) /\ ~InRectangleBoundary(r, g)

-----------------------------------------------------------------------------
(* The predicates of Geometry: each asks the envelopes first, then, if one  *)
(* geometry is a rectangle, the rectangle, and only then the matrix relate  *)
(* computes.                                                                *)

DoesIntersect(g, h, im) ==
  /\ Intersecting(g, h)
  /\ CASE IsRectangle(g) -> RectangleIntersects(g, h)
       [] ~IsRectangle(g) /\ IsRectangle(h) -> RectangleIntersects(h, g)
       [] OTHER -> IsIntersects(im)

DoesContain(g, h, im) ==
  /\ Containing(g, h)
  /\ IF IsRectangle(g) THEN RectangleContains(g, h) ELSE IsContains(im)

DoesCover(g, h, im) == Containing(g, h) /\ (IsRectangle(g) \/ IsCovers(im))

Predicates(g, h, im) ==
  [disjoint   |-> Intersecting(g, h) => IsDisjoint(im),
   intersects |-> DoesIntersect(g, h, im),
   touches    |-> Intersecting(g, h) /\ IsTouches(im, Dimension(g), Dimension(h)),
   crosses    |-> Intersecting(g, h) /\ IsCrosses(im, Dimension(g), Dimension(h)),
   overlaps   |-> Intersecting(g, h) /\ IsOverlaps(im, Dimension(g), Dimension(h)),
   contains   |-> DoesContain(g, h, im),
   within     |-> DoesContain(h, g, Transpose(im)),
   covers     |-> DoesCover(g, h, im),
   equals     |-> SameExtent(g, h) /\ IsEquals(im, Dimension(g), Dimension(h))]

-----------------------------------------------------------------------------
(* What is true of two geometries, cell by cell of the mesh                 *)

MeshPoints == UNION DOMAIN Mesh
MeshFaces  == UNION Range(Mesh)
MeshCells  == {{p} : p \in MeshPoints} \cup DOMAIN Mesh \cup MeshFaces

CellDimension(c) == CASE Cardinality(c) = 1 -> P [] Cardinality(c) = 2 -> L [] OTHER -> A
FacesAround ==
  [c \in MeshCells |-> IF c \in MeshFaces THEN {c}
                       ELSE UNION {Mesh[e] : e \in {x \in DOMAIN Mesh : c \subseteq x}}]

Ends(g, p) == {<<k, i>> \in (DOMAIN g.parts) \X {1, 2} :
                 p = IF i = 1 THEN g.parts[k].walk[1] ELSE Last(g.parts[k].walk)}
Along(part) == {{p} : p \in Range(part.walk)}
               \cup {{part.walk[k], part.walk[k + 1]} : k \in 1..Len(part.walk) - 1}

TruePlace(c, g) ==
  LET covered == IF g.kind = "area" THEN FacesAround[c] \subseteq g.faces
                 ELSE \E part \in Range(g.parts) : c \in Along(part)
      limit == CASE g.kind = "area" -> ~covered /\ FacesAround[c] \cap g.faces # {}
                 [] g.kind = "line" -> \E p \in MeshPoints : c = {p} /\ Cardinality(Ends(g, p)) % 2 = 1
                 [] g.kind = "point" -> FALSE
  IN  CASE limit -> "boundary"
        [] ~limit /\ covered -> "interior"
        [] OTHER -> "exterior"

TrueMatrix(g, h) ==
  SetAtLeast(EmptyMatrix,
             {<<TruePlace(c, g), TruePlace(c, h), CellDimension(c)>> : c \in MeshCells})

\* The predicates, as statements about the sets of cells of both geometries.
TruePredicates(g, h) ==
  LET place      == [c \in MeshCells |-> <<TruePlace(c, g), TruePlace(c, h)>>]
      all        == [i \in {1, 2} |-> {c \in MeshCells : place[c][i] # "exterior"}]
      inside     == [i \in {1, 2} |-> {c \in MeshCells : place[c][i] = "interior"}]
      shared     == inside[1] \cap inside[2]
      reach      == Max({F} \cup {CellDimension(c) : c \in shared})
      dim        == <<Dimension(g), Dimension(h)>>
      outside(i, j) == ~(inside[i] \subseteq all[j])
  IN  [disjoint   |-> all[1] \cap all[2] = {},
       intersects |-> all[1] \cap all[2] # {},
       touches    |-> all[1] \cap all[2] # {} /\ shared = {} /\ dim # <<P, P>>,
       crosses    |-> /\ shared # {}
                      /\ \/ dim[1] < dim[2] /\ outside(1, 2)
                         \/ dim[2] < dim[1] /\ outside(2, 1)
                         \/ dim = <<L, L>> /\ reach = P,
       overlaps   |-> dim[1] = dim[2] /\ reach = dim[1] /\ outside(1, 2) /\ outside(2, 1),
       contains   |-> shared # {} /\ all[2] \subseteq all[1],
       within     |-> shared # {} /\ all[1] \subseteq all[2],
       covers     |-> ~IsEmpty(h) /\ all[2] \subseteq all[1],
       equals     |-> ~IsEmpty(h) /\ all[2] = all[1]]
=============================================================================
