------------------------------ MODULE MCTools -------------------------------
(***************************************************************************)
(* TLC instance of the tools of GEOS that work on lines and on whole        *)
(* geometries: the three that build a planar graph of lines, and the five   *)
(* of RobustTools.  A behaviour is about one tool.                          *)
(***************************************************************************)
EXTENDS LineworkTools, RobustTools

CONSTANTS
  Kits,       \* the kits that are followed: "linework" and "robust"
  MaxFlipped, \* networks of no more lines come in all directions
  MinEnclosed \* networks of no fewer lines come with the closed lines around

VARIABLE kit

-----------------------------------------------------------------------------
(* LineworkTools: networks of up to eight lines in a block of two squares,   *)
(* one of them with a diagonal, and two closed lines around the block, the  *)
(* outer one first.                                                         *)

P(x, y) == <<3 * x, 3 * y>>
Net ==
  << <<P(0, 0), P(1, 0)>>, <<P(1, 0), P(2, 0)>>, <<P(0, 1), P(1, 1)>>, <<P(1, 1), P(2, 1)>>,
     <<P(0, 0), P(0, 1)>>, <<P(1, 0), P(1, 1)>>, <<P(2, 0), P(2, 1)>>,
     <<P(0, 0), P(1, 1)>> >>
Around ==
  << << <<-4, -4>>, <<10, -4>>, <<10, 7>>, <<-4, 7>>, <<-4, -4>> >>,
     << <<-2, -2>>, <<8, -2>>, <<8, 5>>, <<-2, 5>>, <<-2, -2>> >> >>

\* The cells: below and above the diagonal of the first square, the second
\* square, then outwards.
L1 == <<2, 1>>
U1 == <<1, 2>>
R2 == <<4, 2>>
O0 == <<-1, -1>>
O1 == <<-3, -3>>
MCOutside == <<20, 20>>

Wall ==
  << {L1, O0}, {R2, O0}, {U1, O0}, {R2, O0}, {U1, O0}, {L1, R2}, {R2, O0}, {L1, U1} >>
MCSeparates ==
  [l \in Range(Net \o Around) |->
     IF l \in Range(Net) THEN Wall[CHOOSE k \in DOMAIN Net : Net[k] = l]
     ELSE IF l = Around[2] THEN {O0, O1} ELSE {O1, MCOutside}]

InOrder(S) == SelectSeq(Net, LAMBDA l : l \in S)
Flipped(net, flips) ==
  [k \in DOMAIN net |-> IF k \in flips THEN Reverse(net[k]) ELSE net[k]]
Small == {S \in SUBSET Range(Net) : Cardinality(S) <= MaxFlipped}
Full  == {S \in SUBSET Range(Net) : Cardinality(S) >= MinEnclosed}
Directed ==
  {InOrder(S) : S \in SUBSET Range(Net)}
  \cup {Append(InOrder(S), Around[1]) : S \in Small}
  \cup {Flipped(InOrder(S), flips) : S \in Small, flips \in SUBSET (1..MaxFlipped)}
MCNetworks ==
  [merger      |-> Directed,
   sequencer   |-> Directed,
   polygonizer |-> {InOrder(S) : S \in SUBSET Range(Net)}
                     \cup {InOrder(S) \o Around : S \in Full}]
MCSpare == {Net[4]}

-----------------------------------------------------------------------------
(* RobustTools: lines and rings on a grid of 4 x 3 points, at several        *)
(* places of the plane, lists of up to four polygons on a grid of 5 x 4     *)
(* cells, and lines and rings close to each other to simplify.              *)

Ring(pts) == [ring |-> TRUE, pts |-> Append(pts, pts[1])]
Line(pts) == [ring |-> FALSE, pts |-> pts]
Turned(pts, k) == [i \in DOMAIN pts |-> pts[((i + k - 1) % Len(pts)) + 1]]
Rotations(pts) == {Ring(Turned(pts, k)) : k \in 0..Len(pts) - 1}

Square   == << <<0, 0>>, <<2, 0>>, <<2, 2>>, <<0, 2>> >>
Triangle == << <<3, 0>>, <<3, 2>>, <<1, 1>> >>
Flat     == << <<0, 1>>, <<1, 2>>, <<3, 1>>, <<2, 1>> >>
Thin     == << <<0, 0>>, <<3, 1>>, <<3, 2>> >>
Lines == {Line(<< <<0, 1>>, <<3, 1>> >>), Line(<< <<2, 1>>, <<1, 1>>, <<0, 2>> >>)}
Drawn  == Lines \cup {Ring(Square), Ring(Triangle), Ring(Flat)}
Turns  == Rotations(Square) \cup Rotations(Triangle) \cup Rotations(Flat)

Moved(g, h, v) == <<Translate(g, v), Translate(h, v)>>
MCOperands ==
  UNION {{Moved(g, h, <<0, 0>>), Moved(h, g, <<0, 0>>)} :
           g \in Drawn \cup Turns, h \in Lines \cup {Ring(Square)}}
  \cup {Moved(g, h, <<0, 0>>) : g, h \in Drawn}
  \cup {Moved(g, h, v) : g, h \in Lines \cup {Ring(Square), Ring(Thin)},
                        v \in { <<-1, 5>>, <<-7, -3>>, <<2^23 - 2, 2^22 + 13>>, <<2^22 + 2^23, 9>> }}

Box(x, y, w, h) == {<<i, j>> : i \in x..x + w - 1, j \in y..y + h - 1}
Polygons ==
  {Box(0, 0, 1, 1), Box(1, 1, 1, 1), Box(0, 2, 2, 1), Box(2, 0, 1, 4),
   Box(3, 3, 2, 1), Box(4, 1, 1, 2), Box(0, 0, 2, 2) }
MCPolygonLists ==
  {s \in UNION {[1..n -> Polygons] : n \in 0..4} : IsInjective(s)}
\* Of one node, and of nodes of up to three children and of up to two.
MCItemsTrees ==
  { << <<1>> >>, << <<1, 2>> >>, << <<1, 2, 3>> >>, << <<1, 2, 3, 4>> >>,
    << <<1, 2>>, <<3, 4>>, <<5, 6>> >>, << <<1, 2>>, <<3>>, <<4, 5>> >> }

\* Paths on a grid of 3 x 2 points; bays and hooks that reach into each other;
\* rings with a bay and a ring, a closed line or a line within; a shell whose
\* flat bay holds a hole.
Paths == {p \in [1..5 -> (0..2) \X (0..1)] : p[1] = <<0, 0>> /\ IsInjective(p)}
Hooks ==
  { << <<0, 1>>, <<0, 3>>, <<4, 3>>, <<4, 1>> >>,
    << <<2, 2>>, <<2, 4>>, <<5, 4>>, <<5, 0>>, <<2, 0>> >>,
    << <<1, 0>>, <<1, 2>>, <<2, 3>>, <<3, 2>>, <<3, 0>> >>,
    << <<0, 2>>, <<1, 1>>, <<3, 1>>, <<4, 2>> >>,
    << <<0, 0>>, <<2, 1>>, <<4, 0>> >>,
    << <<1, 1>>, <<2, 2>>, <<3, 1>>, <<1, 1>> >> }
Castle == << <<0, 0>>, <<2, 1>>, <<4, 0>>, <<4, 4>>, <<3, 3>>, <<2, 4>>, <<0, 4>>, <<1, 2>> >>
Court  == << <<1, 2>>, <<2, 1>>, <<3, 2>>, <<3, 3>>, <<2, 3>> >>
Tent   == << <<0, 0>>, <<20, 0>>, <<20, 20>>, <<10, 23>>, <<0, 20>> >>
Window == << <<9, 21>>, <<11, 21>>, <<10, 22>> >>
MCDrawings ==
  {<<Line(p)>> : p \in Paths}
  \cup {<<Line(p), Line(q)>> : p, q \in Hooks}
  \cup {<<Ring(Turned(Castle, k)), Ring(Court)>> : k \in {0, 3, 5}}
  \cup {<<Ring(Castle), Line(q)>> : q \in Hooks}
  \cup {<<Ring(Turned(Tent, k)), Ring(Window)>> : k \in {0, 3}}

-----------------------------------------------------------------------------
(* One tool at a time                                                       *)

\* The kit of another behaviour is idle, over some input.
QuietLinework == ToolInit /\ tool = "merger" /\ lines = <<>>
QuietRobust   == Init /\ job = "overlay" /\ distance = CHOOSE d \in Distances : TRUE

MCInit ==
  /\ kit \in Kits
  /\ IF kit = "linework" THEN ToolInit ELSE QuietLinework
  /\ IF kit = "robust" THEN Init ELSE QuietRobust

MCNext ==
  \/ kit = "linework" /\ ToolNext /\ UNCHANGED <<kit, vars>>
  \/ kit = "robust" /\ Next /\ UNCHANGED <<kit, toolVars>>

MCSpec ==
  /\ MCInit
  /\ [][MCNext]_<<kit, toolVars, vars>>
  /\ WF_<<kit, toolVars, vars>>(kit = "robust" /\ Nodings /\ UNCHANGED <<kit, toolVars>>)
=============================================================================
