---------------------------- MODULE CascadedUnion -----------------------------
(***************************************************************************)
(* operation::geounion::CascadedPolygonUnion: the union of many polygons,   *)
(* taken pairwise along the tree of a spatial index.  Two partial unions     *)
(* whose envelopes are apart are only put together; of two that have several *)
(* parts only those within the common envelope are given to the overlay.     *)
(*                                                                         *)
(* A polygon is a set of unit cells, a geometry a set of polygons.  The      *)
(* overlay is taken as correct: it gives the connected parts of the cells.   *)
(***************************************************************************)
EXTENDS Integers, Sequences, FiniteSets, FiniteSetsExt, SequencesExt

CONSTANTS
  PolygonLists,  \* the lists of polygons that may be given
  ItemsTrees,    \* the trees the index may bring them in
  NoUnion        \* the NULL that no polygons give

UnitCells == Int \X Int

VARIABLES
  inputPolys,  \* the polygons given
  united       \* the result: {} before the call, or a set with one geometry

unionVars == <<inputPolys, united>>

UnionInit == inputPolys = <<>> /\ united = {}

-----------------------------------------------------------------------------
Neighbours(c) ==
  {<<c[1] - 1, c[2]>>, <<c[1] + 1, c[2]>>, <<c[1], c[2] - 1>>, <<c[1], c[2] + 1>>}

Grow(part, cells) == {c \in cells : c \in part \/ Neighbours(c) \cap part # {}}

(* The cells that hang together with c: no more rounds than there are cells. *)
Part(c, cells) ==
  LET grown[k \in 0..Cardinality(cells)] == IF k = 0 THEN {c} ELSE Grow(grown[k - 1], cells)
  IN grown[Cardinality(cells)]

Parts(cells) == {Part(c, cells) : c \in cells}

\* A polygon is in one piece.
ASSUME PolygonsAssumption ==
  \A polys \in PolygonLists :
    /\ polys \in Seq(SUBSET UnitCells)
    /\ \A p \in Range(polys) : p # {} /\ IsFiniteSet(p) /\ Parts(p) = {p}

ASSUME ItemsTreesAssumption == ItemsTrees \subseteq Seq(Seq(Nat))

\* The closed envelope of cells <<x, y>>, each from x, y to x + 1, y + 1.
Envelope(cells) ==
  [minx |-> Min({c[1] : c \in cells}), maxx |-> Max({c[1] : c \in cells}) + 1,
   miny |-> Min({c[2] : c \in cells}), maxy |-> Max({c[2] : c \in cells}) + 1]

(* Fault: envelopes that only touch pass for apart.                         *)
Overlap(e, f) ==
  /\ e.minx < f.maxx /\ f.minx < e.maxx
  /\ e.miny < f.maxy /\ f.miny < e.maxy

Intersects(e, f) ==
  /\ e.minx <= f.maxx /\ f.minx <= e.maxx
  /\ e.miny <= f.maxy /\ f.miny <= e.maxy

Intersection(e, f) ==
  [minx |-> Max({e.minx, f.minx}), maxx |-> Min({e.maxx, f.maxx}),
   miny |-> Max({e.miny, f.miny}), maxy |-> Min({e.maxy, f.maxy})]

Cells(geom) == UNION geom

\* Geometry::Union, one of the overlays.
UnionActual(g0, g1) == Parts(Cells(g0) \cup Cells(g1))

ExtractByEnvelope(env, geom) == {p \in geom : Intersects(Envelope(p), env)}

UnionUsingEnvelopeIntersection(g0, g1, common) ==
  LET int0 == ExtractByEnvelope(common, g0)
      int1 == ExtractByEnvelope(common, g1)
  IN (g0 \ int0) \cup (g1 \ int1) \cup UnionActual(int0, int1)

UnionOptimized(g0, g1) ==
  LET e0 == Envelope(Cells(g0))  e1 == Envelope(Cells(g1)) IN
  IF ~Intersects(e0, e1) THEN g0 \cup g1
  ELSE IF Cardinality(g0) <= 1 /\ Cardinality(g1) <= 1 THEN UnionActual(g0, g1)
  ELSE UnionUsingEnvelopeIntersection(g0, g1, Intersection(e0, e1))

\* binaryUnion: geoms from start to before end, halved until one is left.
BinaryUnion(geoms) ==
  LET n == Len(geoms)
      union[span \in (0..n - 1) \X (1..n)] ==
        LET start == span[1]  end == span[2]  mid == (end + start) \div 2 IN
        IF end - start <= 1 THEN geoms[start + 1]
        ELSE UnionOptimized(union[<<start, mid>>], union[<<mid, end>>])
  IN union[<<0, n>>]

(* itemsTree of n polygons: the children of each node, polygons 1..n or nodes *)
(* before it, n + 1 and up.  The last node is the root.                      *)
IsItemsTree(tree, n) ==
  /\ tree # <<>>
  /\ \A k \in DOMAIN tree : tree[k] \in Seq(1..n + k - 1) /\ tree[k] # <<>>
  /\ \A k \in DOMAIN tree : IsInjective(tree[k])
  /\ \A i \in 1..n + Len(tree) - 1 : \E k \in DOMAIN tree : i \in Range(tree[k])
  /\ \A j, k \in DOMAIN tree : Range(tree[j]) \cap Range(tree[k]) # {} => j = k

\* unionTree: the subtrees of the index are united first.
UnionTree(tree, polys) ==
  LET n == Len(polys)
      geom[i \in 1..n + Len(tree)] ==
        IF i <= n THEN {polys[i]}
        ELSE BinaryUnion([k \in DOMAIN tree[i - n] |-> geom[tree[i - n][k]]])
  IN geom[n + Len(tree)]

Union(polys) ==
  /\ united = {}
  /\ inputPolys' = polys
  /\ \/ polys = <<>> /\ united' = {NoUnion}
     \/ \E tree \in ItemsTrees :
          /\ polys # <<>> /\ IsItemsTree(tree, Len(polys))
          /\ united' = {UnionTree(tree, polys)}

UnionNext == \E polys \in PolygonLists : Union(polys)

UnionSpec == UnionInit /\ [][UnionNext]_unionVars

-----------------------------------------------------------------------------
(* However the index groups the polygons, and whatever the shortcuts leave  *)
(* away from the overlay: the result has exactly the cells of the polygons,  *)
(* and its parts are whole, none overlapping or touching along a side.       *)
UnionIsWhole ==
  united # {} /\ inputPolys # <<>> => united = {Parts(UNION Range(inputPolys))}
=============================================================================
