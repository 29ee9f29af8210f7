------------------------------- MODULE Plane --------------------------------
(***************************************************************************)
(* What the algorithms ask of coordinates, on points with small integer    *)
(* coordinates, where the answers are exact: the side of a line, the order *)
(* of directions, the orientation of a ring, a point in a ring, envelopes. *)
(***************************************************************************)
EXTENDS Integers, Sequences, FiniteSets, SequencesExt

Quadrant(dx, dy) == IF dx >= 0 THEN IF dy >= 0 THEN 0 ELSE 3
                               ELSE IF dy >= 0 THEN 1 ELSE 2

(* Twice the area of the triangle p, q, r: positive when r is left of pq.   *)
Turn(p, q, r) == (q[1] - p[1]) * (r[2] - p[2]) - (q[2] - p[2]) * (r[1] - p[1])

(* The direction from p to q comes before that to r, counter-clockwise from *)
(* the positive x axis.                                                     *)
DirectionBefore(p, q, r) ==
  LET Q(s) == Quadrant(s[1] - p[1], s[2] - p[2])
  IN  Q(q) < Q(r) \/ (Q(q) = Q(r) /\ Turn(p, q, r) > 0)

-----------------------------------------------------------------------------
(* Distances, squared                                                       *)

Sq(n) == n * n
Dist2(p, q) == Sq(p[1] - q[1]) + Sq(p[2] - q[2])

\* distancePointLine, as the square of the distance: <<numerator, denominator>>.
SegmentDist2(p, a, b) ==
  LET dx == b[1] - a[1]  dy == b[2] - a[2]
      len2 == Sq(dx) + Sq(dy)
      r == (p[1] - a[1]) * dx + (p[2] - a[2]) * dy
      s == (a[2] - p[2]) * dx - (a[1] - p[1]) * dy
  IN IF r <= 0 THEN <<Dist2(p, a), 1>>
     ELSE IF r >= len2 THEN <<Dist2(p, b), 1>>
     ELSE <<Sq(s), len2>>

Closer(d, e) == d[1] * e[2] < e[1] * d[2]

-----------------------------------------------------------------------------
(* Rings, without their last point, which is the first                      *)

NextPoint(pts, k) == pts[(k % Len(pts)) + 1]

(* CGAlgorithms::isCCW, by the turn at the first highest point.             *)
IsCCW(pts) ==
  LET hi   == CHOOSE k \in DOMAIN pts :
                \A j \in DOMAIN pts : pts[j][2] < pts[k][2] \/ (pts[j][2] = pts[k][2] /\ k <= j)
      prev == pts[IF hi = 1 THEN Len(pts) ELSE hi - 1]
      disc == Turn(prev, pts[hi], NextPoint(pts, hi))
  IN  IF prev = NextPoint(pts, hi) THEN FALSE
      ELSE IF disc = 0 THEN prev[1] > NextPoint(pts, hi)[1] ELSE disc > 0

\* CGAlgorithms::isPointInRing; of points on the ring it counts some inside.
IsPointInRing(p, pts) ==
  LET Crosses(k) ==
        LET a == pts[k]
            b == NextPoint(pts, k)
        IN  /\ (a[2] > p[2]) # (b[2] > p[2])
            /\ IF b[2] > a[2] THEN Turn(a, b, p) > 0 ELSE Turn(a, b, p) < 0
  IN  Cardinality({k \in DOMAIN pts : Crosses(k)}) % 2 = 1

-----------------------------------------------------------------------------
(* Envelopes of sequences of points                                         *)

\* Axis 1 or 2, the least and the greatest coordinate.
Low(pts, axis)  == CHOOSE v \in {p[axis] : p \in Range(pts)} : \A p \in Range(pts) : v <= p[axis]
High(pts, axis) == CHOOSE v \in {p[axis] : p \in Range(pts)} : \A p \in Range(pts) : v >= p[axis]

EnvelopeContains(a, b) ==
  \A axis \in {1, 2} : Low(a, axis) <= Low(b, axis) /\ High(a, axis) >= High(b, axis)
EnvelopeEquals(a, b) == EnvelopeContains(a, b) /\ EnvelopeContains(b, a)
EnvelopeIntersects(a, b) ==
  \A axis \in {1, 2} : Low(a, axis) <= High(b, axis) /\ Low(b, axis) <= High(a, axis)
=============================================================================
