---------------------------- MODULE Arrangement -----------------------------
(***************************************************************************)
(* The planar subdivision an overlay works on, after noding: nodes, edges  *)
(* that meet only at nodes, the directed edges around each node in         *)
(* counter-clockwise order, the face on each side of an edge, and the      *)
(* coordinates along it.  The order around a node and where a node lies in *)
(* a geometry, for which the code asks the coordinates, are read off the   *)
(* subdivision; rings are known by their coordinates.                      *)
(*                                                                         *)
(* A geometry is made of whole pieces of the subdivision: an area of       *)
(* faces, possibly with spikes (edges its boundary runs along twice, out   *)
(* and back, after a loss of precision), a line of edges, a point of nodes.*)
(***************************************************************************)
EXTENDS Plane

\* map: [nodes, edges : sequences in the order the code meets them,
\*       star : node -> its darts counter-clockwise from the positive x axis,
\*       path : edge -> its coordinates,
\*       left, right : edge -> face, outer : the unbounded face,
\*       around : node -> faces it touches, on : node -> an edge it lies on
\*       without splitting it or "none", starts : nodes where rings start]
CONSTANT Maps

Dart(e, forward) == <<e, forward>>
EdgeOf(d) == d[1]
Sym(d)    == <<d[1], ~d[2]>>

Darts(map)  == {Dart(e, b) : e \in Range(map.edges), b \in BOOLEAN}
LeftOf(map, d)  == IF d[2] THEN map.left[d[1]] ELSE map.right[d[1]]
RightOf(map, d) == LeftOf(map, Sym(d))
Origin(map, d)  == CHOOSE n \in Range(map.nodes) : d \in Range(map.star[n])
Faces(map) == Range(map.left) \cup Range(map.right)

Path(map, d) == IF d[2] THEN map.path[d[1]] ELSE Reverse(map.path[d[1]])

\* Turning counter-clockwise around a node, the face left of a dart is the
\* face right of the next one, and the coordinates turn the same way.
ASSUME EmbeddingAssumption ==
    \A map \in Range(Maps) : \A n \in Range(map.nodes) :
        LET star == map.star[n]
            along(i) == Path(map, star[i])
        IN
        /\ \A i \in DOMAIN star : \A j \in i + 1..Len(star) :
             /\ along(i)[1] = along(j)[1]
             /\ DirectionBefore(along(i)[1], along(i)[2], along(j)[2])
        /\ \A i \in DOMAIN star :
             /\ LeftOf(map, star[i]) = RightOf(map, star[(i % Len(star)) + 1])
             /\ LeftOf(map, star[i]) \in map.around[n]
        /\ \A e \in Range(map.edges) : \A b \in BOOLEAN :
             \E m \in Range(map.nodes) : Dart(e, b) \in Range(map.star[m])

-----------------------------------------------------------------------------
(* Geometries                                                              *)

Point(nodes) == [kind |-> "point", faces |-> {}, edges |-> {}, nodes |-> nodes]
Line(edges)  == [kind |-> "line", faces |-> {}, edges |-> edges, nodes |-> {}]
Area(faces, spikes) ==
    [kind |-> "area", faces |-> faces, edges |-> spikes, nodes |-> {}]

IsBoundaryEdge(map, geom, e) ==
    (map.left[e] \in geom.faces) # (map.right[e] \in geom.faces)

\* A spike of an area runs outside it.
WellFormed(map, geom) ==
    geom.kind = "area" =>
        /\ map.outer \notin geom.faces
        /\ \A e \in geom.edges : {map.left[e], map.right[e]} \cap geom.faces = {}

\* The point sets of a geometry: which edges and nodes it covers.
CoversEdge(map, geom, e) ==
    \/ e \in geom.edges
    \/ map.left[e] \in geom.faces
    \/ map.right[e] \in geom.faces

CoversNode(map, geom, n) ==
    \/ n \in geom.nodes
    \/ map.around[n] \cap geom.faces # {}
    \/ \E d \in Range(map.star[n]) : EdgeOf(d) \in geom.edges
    \/ map.on[n] \in geom.edges

\* SimplePointInAreaLocator: only areas are looked at.  Asked at nodes that
\* no edge of the area meets, where all faces agree.
LocateInArea(map, geom, n) ==
    IF map.around[n] \cap geom.faces # {} THEN "interior" ELSE "exterior"

\* PointLocator, for a node that no edge of the geometry ends at.
Locate(map, geom, n) ==
    IF ~CoversNode(map, geom, n) THEN "exterior"
    ELSE IF map.on[n] # "none" /\ IsBoundaryEdge(map, geom, map.on[n])
         THEN "boundary" ELSE "interior"

-----------------------------------------------------------------------------
(* Rings                                                                   *)

\* The faces that can be reached from "from" without crossing "walls": no
\* shortest way crosses more edges than there are.
Reach(map, from, walls) ==
    LET open == Range(map.edges) \ walls
        Cross(seen, e) ==
            seen \cup {map.left[o] : o \in {p \in open : map.right[p] \in seen}}
                 \cup {map.right[o] : o \in {p \in open : map.left[p] \in seen}}
    IN  FoldLeft(Cross, from, map.edges)

RightSide(map, ring) ==
    Reach(map, {RightOf(map, d) : d \in Range(ring)},
          {EdgeOf(d) : d \in Range(ring)})

\* The faces inside a ring, whichever way it runs.
Inside(map, ring) ==
    IF map.outer \in RightSide(map, ring)
    THEN Faces(map) \ RightSide(map, ring)
    ELSE RightSide(map, ring)

\* EdgeRing::addPoints: the coordinates of a ring, without the last, which is
\* the first.
RingPoints(map, ring) == FlattenSeq([k \in DOMAIN ring |-> Front(Path(map, ring[k]))])
=============================================================================
