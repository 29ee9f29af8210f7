------------------------------ MODULE MCRelate ------------------------------
(***************************************************************************)
(* A square cut by two diagonals and a horizontal line through its centre  *)
(* o, with two small triangles at o and a small square on one of them:     *)
(*                                                                         *)
(*      b-----------a                                                      *)
(*      | \  t4-t3/ |                                                      *)
(*      |  \ t1-t2  |                                                      *)
(*      |   \ | //  |                                                      *)
(*      w-----o-----e                                                      *)
(*      |   // \    |                                                      *)
(*      |  /s2-s1   |                                                      *)
(*      c-----------d                                                      *)
(*                                                                         *)
(* t1-o-s1 and t2-o-s2 are straight, as the diagonals are.                 *)
(***************************************************************************)
EXTENDS Validity

o == <<0, 0>>
a == <<6, 6>>
b == <<-6, 6>>
c == <<-6, -6>>
d == <<6, -6>>
e == <<6, 0>>
w == <<-6, 0>>
t1 == <<-1, 3>>
t2 == <<1, 3>>
t3 == <<1, 5>>
t4 == <<-1, 5>>
s1 == <<1, -3>>
s2 == <<-1, -3>>

North == {o, a, b, t1, t2, t3, t4}
Box   == {t1, t2, t3, t4}
Tri   == {o, t1, t2}
South == {o, c, d, s1, s2}
Low3  == {o, s1, s2}
EastA == {o, e, a}
EastD == {o, d, e}
WestB == {o, b, w}
WestC == {o, w, c}
Out   == {a, b, w, c, d, e}

MCMesh ==
  LET side(p, q, f, h) == {p, q} :> {f, h}
  IN  side(o, a, EastA, North) @@ side(o, b, North, WestB) @@ side(o, w, WestB, WestC)
      @@ side(o, c, WestC, South) @@ side(o, d, South, EastD) @@ side(o, e, EastD, EastA)
      @@ side(a, b, North, Out) @@ side(b, w, WestB, Out) @@ side(w, c, WestC, Out)
      @@ side(c, d, South, Out) @@ side(d, e, EastD, Out) @@ side(e, a, EastA, Out)
      @@ side(o, t1, Tri, North) @@ side(o, t2, Tri, North) @@ side(t1, t2, Tri, Box)
      @@ side(t2, t3, Box, North) @@ side(t3, t4, Box, North) @@ side(t4, t1, Box, North)
      @@ side(o, s1, Low3, South) @@ side(o, s2, Low3, South) @@ side(s1, s2, Low3, South)

-----------------------------------------------------------------------------
(* Areas: some of the four sectors between the diagonals, or of the halves  *)
(* above and below the horizontal line, each with or without the box        *)

\* The rings, counter-clockwise from o, or from a corner when o is not on it.
Arcs ==
  {[ring |-> <<o, d, e, a>>, faces |-> {EastA, EastD}],
   [ring |-> <<o, a, b>>, faces |-> {North, Tri}],
   [ring |-> <<o, b, w, c>>, faces |-> {WestB, WestC}],
   [ring |-> <<o, c, d>>, faces |-> {South, Low3}],
   [ring |-> <<o, d, e, a, b>>, faces |-> {EastA, EastD, North, Tri}],
   [ring |-> <<o, a, b, w, c>>, faces |-> {North, Tri, WestB, WestC}],
   [ring |-> <<o, b, w, c, d>>, faces |-> {WestB, WestC, South, Low3}],
   [ring |-> <<o, c, d, e, a>>, faces |-> {South, Low3, EastA, EastD}],
   [ring |-> <<o, d, e, a, b, w, c>>, faces |-> {EastA, EastD, North, Tri, WestB, WestC}],
   [ring |-> <<o, c, d, e, a, b>>, faces |-> {South, Low3, EastA, EastD, North, Tri}],
   [ring |-> <<o, e, a, b, w>>, faces |-> {EastA, North, Tri, WestB}],
   [ring |-> <<o, w, c, d, e>>, faces |-> {WestC, South, Low3, EastD}],
   [ring |-> <<a, b, w, c, d, e>>, faces |-> MeshFaces \ {Box, Out}],
   [ring |-> <<o, t2, t1>>, faces |-> {Tri}]}

\* Sets of arcs that meet at o only, if at all.
Layouts == {{}} \cup {{r} : r \in Arcs}
           \cup {rs \in SUBSET Arcs : {r.ring : r \in rs} \in
                   {{<<o, d, e, a>>, <<o, b, w, c>>}, {<<o, a, b>>, <<o, c, d>>}}}

Straight(p, q, r) == Turn(p, q, r) = 0

\* A closed walk, whose straight places are coordinates or not.
RingPart(role, member, ring, dense) ==
  LET walk == Append(ring, ring[1])
      n == Len(walk)
  IN  [role |-> role, member |-> member, walk |-> walk,
       vertices |-> {k \in 1..n : \/ dense \/ k \in {1, n}
                                  \/ ~Straight(walk[k - 1], walk[k], walk[k + 1])}]

\* Two ways to draw a ring: the way it is given with every place a coordinate,
\* and the other way round from a corner with as few as it takes.
Drawn(role, member, ring, dense) ==
  LET k == CHOOSE i \in 2..Len(ring) : ring[i] \in {a, b, c, d, t1, t3}
  IN  RingPart(role, member,
               IF dense THEN ring ELSE Reverse(SubSeq(ring, k + 1, Len(ring)) \o SubSeq(ring, 1, k)),
               dense)

BoxRing == <<t1, t2, t3, t4>>

Area(layout, box, dense) ==
  LET arcs == SetToSeq(layout)
      shells == [i \in DOMAIN arcs |-> Drawn("shell", i, arcs[i].ring, dense)]
      around == {i \in DOMAIN arcs : {North, Tri} \subseteq arcs[i].faces}
      boxPart == IF around = {} /\ box THEN <<Drawn("shell", Len(arcs) + 1, BoxRing, dense)>>
                 ELSE IF around # {} /\ ~box
                      THEN <<Drawn("hole", CHOOSE i \in around : TRUE, BoxRing, dense)>>
                 ELSE <<>>
  IN  [kind |-> "area", parts |-> shells \o boxPart,
       faces |-> UNION {r.faces : r \in layout} \cup (IF box THEN {Box} ELSE {})]

\* Multi-polygons: the box may not share an edge with another member.
Areas(dense) == {Area(x[1], x[2], dense) : x \in
                   {y \in Layouts \X BOOLEAN :
                      ~(y[2] /\ \E r \in y[1] : Tri \in r.faces /\ North \notin r.faces)}}

-----------------------------------------------------------------------------
(* Lines and points                                                         *)

LinePart(i, walk) ==
  LET n == Len(walk)
  IN  [role |-> "line", member |-> i, walk |-> walk,
       vertices |-> {k \in 1..n : k \in {1, n} \/ ~Straight(walk[k - 1], walk[k], walk[k + 1])}]
Lines(walks) == [kind |-> "line", parts |-> [i \in DOMAIN walks |-> LinePart(i, walks[i])],
                 faces |-> {}]

Walks ==
  {<<o, a>>, <<a, o>>, <<a, o, c>>, <<b, o, d>>, <<e, o, w>>, <<a, o, b>>, <<d, o, s2>>,
   <<a, b, w, c>>, <<e, a, b, w>>, <<t1, t2>>, <<t1, t2, t3, t4, t1>>, <<o, a, b, o>>,
   <<t1, o, s1>>, <<a, o, c, d, o, b>>,
   <<t1, o, s1, s2, o, t2, t1>>,     \* a figure of eight
   <<s2, s1, o, t1, t2, o, s2>>}

LineStrings ==
  {Lines(<<x>>) : x \in Walks}
  \cup {Lines(<<x, y>>) : <<x, y>> \in
          {<<<<a, o>>, <<o, c>>>>,      \* no boundary at o
           <<<<a, o, c>>, <<o, w>>>>,   \* a boundary at o, inside another line
           <<<<t1, o, s1>>, <<e, o>>>>,
           <<<<b, o, d>>, <<a, o, c>>>>,
           <<<<o, a>>, <<a, o>>>>,      \* no boundary at all
           <<<<t1, t2>>, <<o, a, b, o>>>>}}
  \cup {Lines(<<>>)}

Points(set) == [kind |-> "point", faces |-> {},
                parts |-> LET ps == SetToSeq(set)
                          IN  [i \in DOMAIN ps |-> [role |-> "point", member |-> i,
                                                    walk |-> <<ps[i]>>, vertices |-> {1}]]]
PointSets == {Points(set) : set \in {{}, {o}, {a}, {e}, {t1}, {s2}, {o, t3}, {b, d}}}

\* An area as the first operand is drawn the other way than as the second:
\* edges of the same area then run against each other, and those of areas
\* side by side the same way.
All(dense) == Areas(dense) \cup LineStrings \cup PointSets
MCOperands == All(FALSE) \X All(TRUE)

-----------------------------------------------------------------------------
(* Rings on a grid, for the geometries that are checked for validity        *)

MCSquares == (-1..4) \X (-2..3)

\* From one coordinate to the next, and all the way round; which places are
\* coordinates.
Leg(p, q) ==
  LET reach == Max({q[1] - p[1], p[1] - q[1], q[2] - p[2], p[2] - q[2]})
  IN  [k \in 1..reach |-> [at |-> <<p[1] + (k - 1) * ((q[1] - p[1]) \div reach),
                                  p[2] + (k - 1) * ((q[2] - p[2]) \div reach)>>,
                           turn |-> k = 1]]
Round(corners) ==
  LET n == Len(corners)
      places == FlattenSeq([k \in 1..n |-> Leg(corners[k], corners[(k % n) + 1])])
  IN  Append(places, places[1])

Big      == <<<<-1, -2>>, <<5, -2>>, <<5, 3>>, <<-1, 3>>>>
Cup      == <<<<0, -1>>, <<4, -1>>, <<4, 2>>, <<0, 2>>>>
U        == <<<<0, -1>>, <<4, -1>>, <<4, 2>>, <<3, 2>>, <<3, 0>>, <<1, 0>>, <<1, 2>>, <<0, 2>>>>
Notch    == <<<<1, 0>>, <<3, 0>>, <<3, 2>>, <<1, 2>>>>        \* of the U
Inner    == <<<<1, 0>>, <<3, 0>>, <<3, 1>>, <<1, 1>>>>
Wedge    == <<<<1, 1>>, <<2, 0>>, <<3, 1>>>>                  \* in the notch, at three points
Diamond  == <<<<1, 1>>, <<2, 0>>, <<3, 1>>, <<2, 2>>>>
Bridge   == <<<<0, 0>>, <<1, 1>>, <<3, 1>>, <<4, 0>>>>        \* from side to side of the cup
Bubble   == <<<<2, -1>>, <<3, -1>>, <<3, 0>>, <<2, 0>>>>      \* along the bottom of the cup
Spot     == <<<<0, -1>>, <<1, -1>>, <<1, 0>>, <<0, 0>>>>
Exverted == <<<<2, 0>>, <<1, 1>>, <<0, 0>>, <<1, -1>>, <<2, 0>>, <<3, -1>>, <<4, 0>>, <<3, 1>>>>
Inverted == <<<<0, -1>>, <<4, -1>>, <<4, 2>>, <<2, 2>>, <<3, 1>>, <<2, 0>>, <<1, 1>>, <<2, 2>>, <<0, 2>>>>
Looped   == <<<<0, -1>>, <<4, -1>>, <<4, 2>>, <<2, 2>>, <<1, 1>>, <<2, 0>>, <<3, 1>>, <<2, 2>>, <<0, 2>>>>
Bow      == <<<<1, -1>>, <<3, 1>>, <<3, -1>>, <<1, 1>>>>
Spiked   == <<<<1, 0>>, <<3, 0>>, <<3, 1>>, <<3, 2>>, <<3, 1>>, <<1, 1>>>>
Flat     == <<<<1, 0>>, <<2, 0>>, <<3, 0>>>>
Thin     == <<<<1, 0>>, <<3, 0>>>>

\* In a hole a star that touches all its corners.
Frame   == <<<<-1, -2>>, <<5, -2>>, <<5, 4>>, <<-1, 4>>>>
Octagon == <<<<1, -1>>, <<3, -1>>, <<4, 0>>, <<4, 2>>, <<3, 3>>, <<1, 3>>, <<0, 2>>, <<0, 0>>>>
Star    == <<<<1, -1>>, <<2, 0>>, <<3, -1>>, <<3, 0>>, <<4, 0>>, <<3, 1>>, <<4, 2>>, <<3, 2>>,
             <<3, 3>>, <<2, 2>>, <<1, 3>>, <<1, 2>>, <<0, 2>>, <<1, 1>>, <<0, 0>>, <<1, 0>>>>

\* Either way round, with all places as coordinates or as few as it takes.
OnGrid(role, member, corners, dense) ==
  LET places == Round(corners)
      walk == [k \in DOMAIN places |-> places[k].at]
  IN  IF dense
      THEN [role |-> role, member |-> member, walk |-> Reverse(walk), vertices |-> DOMAIN walk]
      ELSE [role |-> role, member |-> member, walk |-> walk,
            vertices |-> {k \in DOMAIN places : places[k].turn}]

\* A second hole is drawn the other way than the first.
OnePolygon(member, shell, holes, dense) ==
  <<OnGrid("shell", member, shell, dense)>>
  \o [i \in DOMAIN holes |-> OnGrid("hole", member, holes[i], dense = (i = 1))]

GridArea(parts) == [kind |-> "area", parts |-> parts]

HolesUsed == {U, Notch, Inner, Wedge, Diamond, Bridge, Bubble, Exverted, Cup}
PolygonsChecked ==
  {GridArea(OnePolygon(1, shell, holes, dense)) : <<shell, holes, dense>> \in
     {Big, Cup, U, Exverted, Inverted, Looped, Bow, Spiked, Flat, Thin, Diamond}
       \X ({<<>>} \cup {<<h>> : h \in HolesUsed \cup {Bow, Spiked, Inverted}}) \X BOOLEAN
     \cup {Big, Cup, Inverted} \X {<<h, k>> : h, k \in HolesUsed} \X {FALSE}}

MembersUsed ==
  {<<Big, <<>>>>, <<Cup, <<>>>>, <<U, <<>>>>, <<Notch, <<>>>>, <<Wedge, <<>>>>, <<Diamond, <<>>>>,
   <<Exverted, <<>>>>, <<Bubble, <<>>>>, <<Big, <<Notch>>>>, <<Big, <<U>>>>, <<Cup, <<Inner>>>>, <<Cup, <<Diamond>>>>,
   <<Big, <<Inner, Bubble>>>>, <<Big, <<Spot>>>>, <<Inverted, <<>>>>}
MultiPolygonsChecked ==
  {GridArea(OnePolygon(1, x[1], x[2], FALSE) \o OnePolygon(2, y[1], y[2], TRUE)) :
     <<x, y>> \in MembersUsed \X MembersUsed}

ElementsUsed ==
  {GridArea(<<>>), GridArea(OnePolygon(1, Cup, <<Diamond>>, FALSE)),
   GridArea(OnePolygon(1, Cup, <<Bridge>>, FALSE)), Lines(<<<<o, a>>>>), Lines(<<<<o>>>>)}

StarInHole(dense) ==
  GridArea(<<OnGrid("shell", 1, Frame, TRUE), OnGrid("hole", 1, Octagon, dense),
             OnGrid("shell", 2, Star, FALSE)>>)

MCSuspects == {<<g>> : g \in PolygonsChecked \cup MultiPolygonsChecked}
              \cup {<<StarInHole(dense)>> : dense \in BOOLEAN}
              \cup {<<g, h>> : g, h \in ElementsUsed}
=============================================================================
