-------------------------- MODULE SimplifierProofs --------------------------
(***************************************************************************)
(* What TopologyPreservingSimplifier leaves of any lines and rings, in      *)
(* whatever order they are taken: nothing crosses what it has put in, lines *)
(* keep their ends and rings four points, every point that goes lies within *)
(* the tolerance, and Douglas-Peucker would have taken it, too.             *)
(***************************************************************************)
EXTENDS Simplifier, Induction

Lines == [ring : BOOLEAN, pts : Seq(Point)]
Sections == [i : Nat, j : Nat, depth : Nat]

(* Segments of a result follow each other from the first point, over points *)
(* that are near.                                                           *)
EndOf(segs) == IF segs = <<>> THEN 1 ELSE segs[Len(segs)][2]
Chain(pts, tolerance, segs) ==
  \A k \in 1..Len(segs) :
    /\ segs[k][1] = IF k = 1 THEN 1 ELSE segs[k - 1][2]
    /\ 1 <= segs[k][1] /\ segs[k][1] < segs[k][2] /\ segs[k][2] <= Len(pts)
    /\ AllNear(pts, segs[k][1], segs[k][2], tolerance)

(* The sections still to simplify follow each other from there to the last. *)
Pending(n, from, secs) ==
  /\ \A k \in 1..Len(secs) :
       /\ 1 <= secs[k].i /\ secs[k].i < secs[k].j /\ secs[k].j <= n /\ 1 <= secs[k].depth
       /\ secs[k].j = IF k = Len(secs) THEN n ELSE secs[k + 1].i
  /\ from = IF secs = <<>> THEN n ELSE secs[1].i

(* A call as deep as a section is has left or will leave as many segments,  *)
(* so that a ring of which something was flattened keeps three, and one of  *)
(* which nothing was keeps all.                                             *)
Single(segs) == \A k \in 1..Len(segs) : segs[k][2] = segs[k][1] + 1
Counted(ring, segs, secs) ==
  /\ \A k \in 1..Len(secs) : secs[k].depth <= Len(segs) + Len(secs)
  /\ Single(segs) => EndOf(segs) = Len(segs) + 1
  /\ ring => Single(segs) \/ Len(segs) + Len(secs) >= 3

Sound(ln, tolerance, segs, secs) ==
  /\ Chain(ln.pts, tolerance, segs)
  /\ Pending(Len(ln.pts), EndOf(segs), secs)
  /\ Counted(ln.ring, segs, secs)

(* left are the sections Douglas-Peucker leaves of each section, goal those *)
(* of the line: each section to simplify is part of one of them, or what is *)
(* left of it is among them.                                                *)
Covered(goal, s) == \E r \in goal : r[1] <= s[1] /\ s[2] <= r[2]
Span(s) == <<s.i, s.j>>
Follows(left, goal, segs, secs) ==
  /\ \A s \in Range(segs) : Covered(goal, s)
  /\ \A s \in Range(secs) : Covered(goal, Span(s)) \/ left[Span(s)] \subseteq goal
Equals(left, goal, segs, secs) ==
  goal = Range(segs) \cup UNION {left[Span(s)] : s \in Range(secs)}

-----------------------------------------------------------------------------
Typed ==
  /\ distanceTolerance \in Int
  /\ drawing = NoDrawing => waiting = {} /\ sections = <<>>
  /\ drawing # NoDrawing =>
       /\ drawing \in Drawings
       /\ waiting \subseteq DOMAIN drawing
       /\ resultSegs \in [DOMAIN drawing -> Seq(Nat \X Nat)]
       /\ sections \in Seq(Sections)
       /\ sections # <<>> => line \in DOMAIN drawing \ waiting
  /\ drawing = NoDrawing => inputIndex = {} /\ outputIndex = {}

(* The sections of a line that is in work or done.                          *)
Todo(l) == IF l = line THEN sections ELSE <<>>
Left(l) == PeuckerSections(Pts(l), distanceTolerance)

SoundLine(l) ==
  IF l \in waiting THEN resultSegs[l] = <<>>
  ELSE Sound(drawing[l], distanceTolerance, resultSegs[l], Todo(l))
FollowedLine(l) ==
  IF l \in waiting THEN resultSegs[l] = <<>>
  ELSE /\ Follows(Left(l), Peucker(l), resultSegs[l], Todo(l))
       /\ NothingInTheWay => Equals(Left(l), Peucker(l), resultSegs[l], Todo(l))
LinesSound == \A l \in DrawnLines : SoundLine(l)
LinesFollow == \A l \in DrawnLines : FollowedLine(l)

SInv == Typed /\ IndexesAreCurrent /\ NoNewCrossing /\ LinesSound /\ LinesFollow

-----------------------------------------------------------------------------
(* Crossings                                                                *)

LEMMA CrossingIsMutual ==
  ASSUME NEW seg0, NEW seg1
  PROVE  HasInteriorIntersection(seg0, seg1) <=> HasInteriorIntersection(seg1, seg0)
BY DEF HasInteriorIntersection

(* Equal segments do not cross.                                             *)
LEMMA NoSelfCrossing ==
  ASSUME NEW p \in Point, NEW q \in Point
  PROVE  ~HasInteriorIntersection(<<p, q>>, <<p, q>>)
<1> DEFINE seg == <<p, q>>
<1>1. seg[1] = p /\ seg[2] = q /\ DOMAIN seg = {1, 2}
  OBVIOUS
<1>2. Range(seg) = {p, q}
  BY <1>1 DEF Range
<1>3. \A r \in Range(seg) : ~InteriorTo(r, seg)
  BY DEF InteriorTo
<1>4. Turn(p, q, p) = 0
  BY DEF Turn, Point
<1>5. ~Across(seg, p, q)
  BY <1>1, <1>4 DEF Across
<1> HIDE DEF seg
<1>6. ~HasInteriorIntersection(seg, seg)
  BY <1>1, <1>3, <1>5 DEF HasInteriorIntersection
<1> QED BY <1>6 DEF seg

-----------------------------------------------------------------------------
(* The furthest point                                                       *)

Distances == Int \X (Nat \ {0})

LEMMA DistanceType ==
  ASSUME NEW p \in Point, NEW a \in Point, NEW b \in Point
  PROVE  SegmentDist2(p, a, b) \in Distances
<1> DEFINE dx == b[1] - a[1]
           dy == b[2] - a[2]
           len2 == Sq(dx) + Sq(dy)
           r == (p[1] - a[1]) * dx + (p[2] - a[2]) * dy
           s == (a[2] - p[2]) * dx - (a[1] - p[1]) * dy
<1>1. dx \in Int /\ dy \in Int
  BY DEF Point
<1>2. len2 \in Int /\ r \in Int /\ s \in Int
  BY <1>1 DEF Point, Sq
<1>3. Sq(s) \in Int
  BY <1>2 DEF Sq
<1>4. Dist2(p, a) \in Int /\ Dist2(p, b) \in Int
  BY DEF Dist2, Sq, Point
<1>5. SegmentDist2(p, a, b) =
        IF r <= 0 THEN <<Dist2(p, a), 1>> ELSE IF r >= len2 THEN <<Dist2(p, b), 1>> ELSE <<Sq(s), len2>>
  BY DEF SegmentDist2
<1> HIDE DEF dx, dy, len2, r, s
<1>6. CASE r <= 0
  BY <1>4, <1>5, <1>6 DEF Distances
<1>7. CASE ~(r <= 0) /\ r >= len2
  BY <1>4, <1>5, <1>7 DEF Distances
<1>8. CASE ~(r <= 0) /\ ~(r >= len2)
  <2>1. len2 \in Nat \ {0}
    BY <1>2, <1>8
  <2> QED BY <1>3, <1>5, <1>8, <2>1 DEF Distances
<1> QED BY <1>6, <1>7, <1>8

(* Closer compares fractions.                                               *)
LEMMA CloserOrder ==
  ASSUME NEW d \in Distances, NEW e \in Distances, NEW f \in Distances
  PROVE  /\ ~Closer(d, d)
         /\ Closer(d, e) => ~Closer(e, d)
         /\ ~Closer(d, e) /\ Closer(d, f) => Closer(e, f)
<1> DEFINE d1 == d[1]  d2 == d[2]  e1 == e[1]  e2 == e[2]  f1 == f[1]  f2 == f[2]
<1>1. /\ d1 \in Int /\ e1 \in Int /\ f1 \in Int
      /\ d2 \in Int /\ e2 \in Int /\ f2 \in Int /\ d2 > 0 /\ e2 > 0 /\ f2 > 0
  BY DEF Distances
<1>2. /\ Closer(d, d) <=> d1 * d2 < d1 * d2
      /\ Closer(d, e) <=> d1 * e2 < e1 * d2
      /\ Closer(e, d) <=> e1 * d2 < d1 * e2
      /\ Closer(d, f) <=> d1 * f2 < f1 * d2
      /\ Closer(e, f) <=> e1 * f2 < f1 * e2
  BY DEF Closer
<1> HIDE DEF d1, d2, e1, e2, f1, f2
<1>3. ASSUME e1 * d2 <= d1 * e2, d1 * f2 < f1 * d2 PROVE e1 * f2 < f1 * e2
  <2>1. (e1 * d2) * f2 <= (d1 * e2) * f2
    BY <1>1, <1>3
  <2>2. (d1 * f2) * e2 < (f1 * d2) * e2
    BY <1>1, <1>3
  <2>3. d2 * (e1 * f2) < d2 * (f1 * e2)
    <3>1. /\ (e1 * d2) * f2 = d2 * (e1 * f2) /\ (f1 * d2) * e2 = d2 * (f1 * e2)
          /\ (d1 * e2) * f2 = (d1 * f2) * e2
      BY <1>1
    <3>2. /\ (e1 * d2) * f2 \in Int /\ (d1 * e2) * f2 \in Int /\ (f1 * d2) * e2 \in Int
      BY <1>1
    <3> QED BY <2>1, <2>2, <3>1, <3>2
  <2> DEFINE x == e1 * f2
             y == f1 * e2
  <2>4. x \in Int /\ y \in Int
    BY <1>1
  <2>5. d2 * x < d2 * y
    BY <2>3
  <2> HIDE DEF x, y
  <2>6. x < y
    BY <1>1, <2>4, <2>5
  <2> QED BY <2>6 DEF x, y
<1>4. /\ d1 * d2 \in Int /\ d1 * e2 \in Int /\ e1 * d2 \in Int
  BY <1>1
<1> QED BY <1>2, <1>3, <1>4

LEMMA Furthest ==
  ASSUME NEW pts \in Seq(Point), NEW i \in 1..Len(pts), NEW j \in 1..Len(pts), i + 1 <= j - 1
  PROVE  FindFurthestPoint(pts, i, j) \in i + 1..j - 1
<1> DEFINE D(k) == Distance2(pts, k, i, j)
           First(k, m) == \A x \in i + 1..m : /\ ~Closer(D(k), D(x))
                                              /\ x < k => Closer(D(x), D(k))
           Done == {m \in i + 1..j - 1 : \E k \in i + 1..m : First(k, m)}
<1>1. \A k \in i + 1..j - 1 : D(k) \in Distances
  <2> SUFFICES ASSUME NEW k \in i + 1..j - 1 PROVE D(k) \in Distances
    OBVIOUS
  <2>1. pts[k] \in Point /\ pts[i] \in Point /\ pts[j] \in Point
    OBVIOUS
  <2> QED BY <2>1, DistanceType DEF Distance2
<1> HIDE DEF D
<1>2. i + 1 \in Done
  <2>1. First(i + 1, i + 1)
    BY <1>1, CloserOrder
  <2> QED BY <2>1
<1>3. ASSUME NEW m \in i + 1..j - 1 - 1, m \in Done PROVE m + 1 \in Done
  <2>1. PICK k \in i + 1..m : First(k, m)
    BY <1>3
  <2>2. m + 1 \in i + 1..j - 1 /\ k \in i + 1..j - 1
    BY <2>1
  <2>3. CASE Closer(D(k), D(m + 1))
    <3>1. ASSUME NEW x \in i + 1..m + 1
          PROVE  ~Closer(D(m + 1), D(x)) /\ (x < m + 1 => Closer(D(x), D(m + 1)))
      <4>1. CASE x = m + 1
        BY <1>1, <2>2, <4>1, CloserOrder
      <4>2. CASE x # m + 1
        <5>1. x \in i + 1..m /\ x \in i + 1..j - 1 /\ ~Closer(D(k), D(x))
          BY <2>1, <4>2
        <5>2. Closer(D(x), D(m + 1))
          BY <1>1, <2>2, <2>3, <5>1, CloserOrder
        <5> QED BY <1>1, <2>2, <5>1, <5>2, CloserOrder
      <4> QED BY <4>1, <4>2
    <3>2. m + 1 \in i + 1..m + 1
      BY <2>2
    <3> QED BY <2>2, <3>1, <3>2
  <2>4. CASE ~Closer(D(k), D(m + 1))
    <3>1. \A x \in i + 1..m + 1 : x \in i + 1..m \/ x = m + 1
      OBVIOUS
    <3>2. First(k, m + 1)
      BY <2>1, <2>2, <2>4, <3>1
    <3>3. k \in i + 1..m + 1
      OBVIOUS
    <3> QED BY <2>2, <3>2, <3>3
  <2> QED BY <2>3, <2>4
<1> HIDE DEF First
<1>4. j - 1 \in Done
  <2>1. i + 1 \in Int /\ j - 1 \in Int /\ i + 1 <= j - 1 /\ j - 1 \in i + 1..j - 1
    OBVIOUS
  <2> HIDE DEF Done
  <2>2. i + 1..j - 1 \subseteq Done
    BY <1>2, <1>3, <2>1, IntervalInduction
  <2> QED BY <2>1, <2>2
<1>5. PICK k \in i + 1..j - 1 : First(k, j - 1)
  BY <1>4
<1> QED BY <1>5 DEF FindFurthestPoint, First, D

-----------------------------------------------------------------------------
(* Douglas-Peucker                                                          *)

Divided(pts, tolerance, left, s) ==
  IF s[2] = s[1] + 1 \/ AllNear(pts, s[1], s[2], tolerance) THEN {s}
  ELSE LET k == FindFurthestPoint(pts, s[1], s[2]) IN left[<<s[1], k>>] \cup left[<<k, s[2]>>]

(* A section that is not left whole has points between its ends.            *)
LEMMA PointsBetween ==
  ASSUME NEW pts \in Seq(Point), NEW tolerance,
         NEW i \in 1..Len(pts), NEW j \in 1..Len(pts), j # i + 1, ~AllNear(pts, i, j, tolerance)
  PROVE  /\ i + 1 < j
         /\ FindFurthestPoint(pts, i, j) \in i + 1..j - 1
<1>1. \E k \in i + 1..j - 1 : TRUE
  BY DEF AllNear
<1> QED BY <1>1, Furthest

(* What is left of each section is what is left of its parts.               *)
LEMMA PeuckerUnfold ==
  ASSUME NEW pts \in Seq(Point), NEW tolerance
  PROVE  /\ DOMAIN PeuckerSections(pts, tolerance) = (1..Len(pts)) \X (1..Len(pts))
         /\ \A s \in (1..Len(pts)) \X (1..Len(pts)) :
              PeuckerSections(pts, tolerance)[s] =
                Divided(pts, tolerance, PeuckerSections(pts, tolerance), s)
<1> DEFINE n == Len(pts)
           D == (1..n) \X (1..n)
           Body(left, s) == Divided(pts, tolerance, left, s)
           All(left) == [s \in D |-> Body(left, s)]
           S == [D -> SUBSET D]
           base == [s \in D |-> {s}]
           step == [xk \in S \X (1..n) |-> All(xk[1])]
<1>1. \A s \in D : \/ \A left : Body(left, s) = {s}
                   \/ \E k \in s[1] + 1..s[2] - 1 :
                        \A left : Body(left, s) = left[<<s[1], k>>] \cup left[<<k, s[2]>>]
  <2> SUFFICES ASSUME NEW s \in D, s[2] # s[1] + 1, ~AllNear(pts, s[1], s[2], tolerance)
               PROVE  FindFurthestPoint(pts, s[1], s[2]) \in s[1] + 1..s[2] - 1
    BY DEF Divided
  <2>1. s[1] \in 1..n /\ s[2] \in 1..n
    OBVIOUS
  <2> QED BY <2>1, PointsBetween
<1>2. n \in Nat
  OBVIOUS
<1>3. PeuckerSections(pts, tolerance) = CHOOSE left : left = All(left)
  BY DEF PeuckerSections, Divided
<1> HIDE DEF Body, n
<1>4. \A left \in S : All(left) \in S
  <2> SUFFICES ASSUME NEW left \in S, NEW s \in D PROVE Body(left, s) \subseteq D
    OBVIOUS
  <2>1. CASE Body(left, s) = {s}
    BY <2>1
  <2>2. ASSUME NEW k \in s[1] + 1..s[2] - 1, Body(left, s) = left[<<s[1], k>>] \cup left[<<k, s[2]>>]
        PROVE  Body(left, s) \subseteq D
    <3>1. <<s[1], k>> \in D /\ <<k, s[2]>> \in D
      BY <1>2
    <3> QED BY <2>2, <3>1
  <2> QED BY <1>1, <2>1, <2>2
<1>5. base \in S
  OBVIOUS
<1>6. PICK f : Iterates(f, base, step, S, n)
  <2>1. Steps(step, S, n)
    <3> HIDE DEF S, All
    <3>1. \A x \in S, k \in 1..n : step[<<x, k>>] = All(x)
      OBVIOUS
    <3> HIDE DEF step
    <3>2. \A x \in S, k \in 1..n : step[<<x, k>>] \in S
      BY <1>4, <3>1
    <3> QED BY <3>2 DEF Steps
  <2> HIDE DEF S, base, step
  <2> QED BY <1>2, <1>5, <2>1, IterationExists
<1>7. /\ f \in [0..n -> S] /\ f[0] = base
      /\ \A k \in 1..n : f[k] = All(f[k - 1])
  <2>1. f \in [0..n -> S] /\ f[0] = base /\ \A k \in 1..n : f[k] = step[<<f[k - 1], k>>]
    BY <1>6 DEF Iterates
  <2>2. ASSUME NEW k \in 1..n PROVE step[<<f[k - 1], k>>] = All(f[k - 1])
    <3>1. k - 1 \in 0..n
      BY <1>2
    <3>2. f[k - 1] \in S
      BY <2>1, <3>1
    <3> HIDE DEF S, All
    <3> QED BY <3>2
  <2> QED BY <2>1, <2>2
<1>8. /\ \A s \in D : f[0][s] = {s}
      /\ \A k \in 1..n : \A s \in D : f[k][s] = Body(f[k - 1], s)
      /\ \A k \in 0..n : f[k] \in S
  <2>1. \A s \in D : base[s] = {s}
    OBVIOUS
  <2>2. \A left : \A s \in D : All(left)[s] = Body(left, s)
    OBVIOUS
  <2> HIDE DEF base, All, S
  <2> QED BY <1>7, <2>1, <2>2
<1> HIDE DEF base, step, All
(* A section as long as k stays as it is after k rounds.                    *)
<1> DEFINE Settled(k) == \A s \in D : s[2] - s[1] <= k => f[k][s] = f[k - 1][s]
           Done == {k \in 1..n : Settled(k)}
<1>9. f[n] = All(f[n])
  <2>1. CASE n = 0
    <3>1. D = {}
      BY <2>1
    <3>2. f[0] = [s \in D |-> {s}]
      BY <1>7 DEF base
    <3> QED BY <2>1, <3>1, <3>2 DEF All
  <2>2. CASE n # 0
    <3>1. 1 \in Done
      <4>1. ASSUME NEW s \in D, s[2] - s[1] <= 1 PROVE f[1][s] = f[0][s]
        <5>1. 1 \in 1..n /\ 1 - 1 = 0
          BY <1>2, <2>2
        <5>2. f[1][s] = Body(f[0], s) /\ f[0][s] = {s}
          BY <1>8, <5>1
        <5>3. ~\E k \in s[1] + 1..s[2] - 1 : TRUE
          BY <4>1
        <5> QED BY <1>1, <5>1, <5>2, <5>3
      <4> QED BY <1>2, <2>2, <4>1
    <3>2. ASSUME NEW m \in 1..n - 1, m \in Done PROVE m + 1 \in Done
      <4>1. m \in 1..n /\ m + 1 \in 1..n /\ (m + 1) - 1 = m
        BY <1>2
      <4>2. ASSUME NEW s \in D, s[2] - s[1] <= m + 1 PROVE f[m + 1][s] = f[m][s]
        <5>1. f[m + 1][s] = Body(f[m], s) /\ f[m][s] = Body(f[m - 1], s)
          BY <1>8, <4>1
        <5>2. ASSUME NEW k \in s[1] + 1..s[2] - 1,
                     \A left : Body(left, s) = left[<<s[1], k>>] \cup left[<<k, s[2]>>]
              PROVE  f[m + 1][s] = f[m][s]
          <6>1. /\ <<s[1], k>> \in D /\ k - s[1] <= m
                /\ <<k, s[2]>> \in D /\ s[2] - k <= m
            <7>1. s[1] \in 1..n /\ s[2] \in 1..n /\ s[2] - s[1] <= m + 1
              BY <4>2
            <7>2. k \in 1..n /\ k - s[1] <= m /\ s[2] - k <= m
              BY <1>2, <4>1, <7>1
            <7> QED BY <7>1, <7>2
          <6>2. f[m][<<s[1], k>>] = f[m - 1][<<s[1], k>>] /\ f[m][<<k, s[2]>>] = f[m - 1][<<k, s[2]>>]
            BY <3>2, <6>1
          <6> QED BY <5>1, <5>2, <6>2
        <5> QED BY <1>1, <5>1, <5>2
      <4> QED BY <4>1, <4>2
    <3>3. n \in Done
      <4>1. 1 \in Int /\ n \in Int /\ 1 <= n /\ n \in 1..n
        BY <1>2, <2>2
      <4> HIDE DEF Done
      <4>2. 1..n \subseteq Done
        BY <3>1, <3>2, <4>1, IntervalInduction
      <4> QED BY <4>1, <4>2
    <3>4. n \in 1..n /\ f[n] \in S /\ f[n - 1] \in S /\ f[n] = All(f[n - 1])
      <4>1. n \in 1..n /\ n - 1 \in 0..n /\ n \in 0..n
        BY <1>2, <2>2
      <4> HIDE DEF S
      <4> QED BY <1>7, <1>8, <4>1
    <3>5. ASSUME NEW s \in D PROVE f[n][s] = f[n - 1][s]
      <4>1. s[2] - s[1] <= n
        BY <1>2
      <4> QED BY <3>3, <4>1
    <3>6. f[n] = f[n - 1]
      BY <3>4, <3>5
    <3> QED BY <3>4, <3>6
  <2> QED BY <2>1, <2>2
<1> HIDE DEF All
<1>10. PeuckerSections(pts, tolerance) = All(PeuckerSections(pts, tolerance))
  BY <1>3, <1>9
<1> QED BY <1>10 DEF All, Body, n

(* What is left of a section is itself, or what is left of two parts.       *)
LeftOf(left, pts, tolerance, i, j) ==
  LET k == FindFurthestPoint(pts, i, j) IN
  IF j = i + 1 \/ AllNear(pts, i, j, tolerance) THEN left[<<i, j>>] = {<<i, j>>}
  ELSE /\ k \in i + 1..j - 1
       /\ left[<<i, j>>] = left[<<i, k>>] \cup left[<<k, j>>]

LEMMA PeuckerCases ==
  ASSUME NEW pts \in Seq(Point), NEW tolerance, NEW i \in 1..Len(pts), NEW j \in 1..Len(pts)
  PROVE  LeftOf(PeuckerSections(pts, tolerance), pts, tolerance, i, j)
<1> DEFINE left == PeuckerSections(pts, tolerance)
           s == <<i, j>>
<1>1. s \in (1..Len(pts)) \X (1..Len(pts)) /\ s[1] = i /\ s[2] = j
  OBVIOUS
<1>2. left[s] = Divided(pts, tolerance, left, s)
  BY <1>1, PeuckerUnfold
<1> HIDE DEF left, s
<1>3. CASE j = i + 1 \/ AllNear(pts, i, j, tolerance)
  BY <1>1, <1>2, <1>3 DEF Divided, LeftOf, left, s
<1>4. CASE ~(j = i + 1 \/ AllNear(pts, i, j, tolerance))
  <2>1. FindFurthestPoint(pts, i, j) \in i + 1..j - 1
    BY <1>4, PointsBetween
  <2>2. left[s] = LET k == FindFurthestPoint(pts, i, j) IN left[<<i, k>>] \cup left[<<k, j>>]
    BY <1>1, <1>2, <1>4 DEF Divided
  <2> QED BY <1>4, <2>1, <2>2 DEF LeftOf, left, s
<1> QED BY <1>3, <1>4

LEMMA PeuckerType ==
  ASSUME NEW pts \in Seq(Point), NEW tolerance, NEW i \in 1..Len(pts), NEW j \in 1..Len(pts)
  PROVE  PeuckerSections(pts, tolerance)[<<i, j>>] \subseteq (1..Len(pts)) \X (1..Len(pts))
<1> DEFINE left == PeuckerSections(pts, tolerance)
           n == Len(pts)
           D == (1..n) \X (1..n)
           Done == {m \in 0..n : \A a, b \in 1..n : b - a <= m => left[<<a, b>>] \subseteq D}
<1>1. n \in Nat
  OBVIOUS
<1>2. \A a, b \in 1..n : \/ left[<<a, b>>] = {<<a, b>>}
                         \/ \E k \in a + 1..b - 1 : left[<<a, b>>] = left[<<a, k>>] \cup left[<<k, b>>]
  <2> SUFFICES ASSUME NEW a \in 1..n, NEW b \in 1..n
               PROVE  \/ left[<<a, b>>] = {<<a, b>>}
                      \/ \E k \in a + 1..b - 1 : left[<<a, b>>] = left[<<a, k>>] \cup left[<<k, b>>]
    OBVIOUS
  <2>1. LeftOf(left, pts, tolerance, a, b)
    BY PeuckerCases
  <2> HIDE DEF left
  <2> QED BY <2>1 DEF LeftOf
<1> HIDE DEF left, n
<1>3. 0 \in Done
  <2>1. ASSUME NEW a \in 1..n, NEW b \in 1..n, b - a <= 0 PROVE left[<<a, b>>] \subseteq D
    <3>1. a + 1..b - 1 = {}
      BY <1>1, <2>1
    <3>2. left[<<a, b>>] = {<<a, b>>}
      BY <1>2, <3>1
    <3>3. <<a, b>> \in D
      OBVIOUS
    <3> HIDE DEF D
    <3> QED BY <3>2, <3>3
  <2> QED BY <1>1, <2>1
<1>4. ASSUME NEW m \in 0..n - 1, m \in Done PROVE m + 1 \in Done
  <2>1. ASSUME NEW a \in 1..n, NEW b \in 1..n, b - a <= m + 1 PROVE left[<<a, b>>] \subseteq D
    <3>1. ASSUME NEW k \in a + 1..b - 1, left[<<a, b>>] = left[<<a, k>>] \cup left[<<k, b>>]
          PROVE  left[<<a, b>>] \subseteq D
      <4>1. k \in 1..n /\ k - a <= m /\ b - k <= m
        BY <1>1, <2>1
      <4> QED BY <1>4, <3>1, <4>1
    <3>2. CASE left[<<a, b>>] = {<<a, b>>}
      <4>1. <<a, b>> \in D
        OBVIOUS
      <4> HIDE DEF D
      <4> QED BY <3>2, <4>1
    <3> QED BY <1>2, <3>1, <3>2
  <2>2. m + 1 \in 0..n
    BY <1>1
  <2> QED BY <2>1, <2>2
<1>5. n \in Done
  <2>1. 0 \in Int /\ n \in Int /\ 0 <= n /\ n \in 0..n
    BY <1>1
  <2> HIDE DEF Done
  <2>2. 0..n \subseteq Done
    BY <1>3, <1>4, <2>1, IntervalInduction
  <2> QED BY <2>1, <2>2
<1>6. i \in 1..n /\ j \in 1..n /\ j - i <= n
  BY <1>1 DEF n
<1>7. left[<<i, j>>] \subseteq D
  BY <1>5, <1>6
<1> QED BY <1>7 DEF left, n

-----------------------------------------------------------------------------
(* One call                                                                 *)

(* The calls that are left when the innermost has taken its section, and    *)
(* when it has parted it.                                                   *)
Parted(secs, k) ==
  << [secs[1] EXCEPT !.j = k, !.depth = @ + 1],
     [secs[1] EXCEPT !.i = k, !.depth = @ + 1] >> \o Tail(secs)

LEMMA TakenCall ==
  ASSUME NEW secs \in Seq(Sections), secs # <<>>
  PROVE  /\ Len(secs) \in Nat \ {0} /\ secs[1] \in Sections /\ Head(secs) = secs[1]
         /\ Tail(secs) \in Seq(Sections) /\ Len(Tail(secs)) = Len(secs) - 1
         /\ \A k \in 1..Len(secs) - 1 : Tail(secs)[k] = secs[k + 1]
         /\ Tail(secs) = <<>> <=> Len(secs) = 1
<1>1. Len(secs) \in Nat \ {0} /\ Head(secs) = secs[1]
  OBVIOUS
<1>2. secs[1] \in Sections
  BY <1>1
<1>3. Tail(secs) \in Seq(Sections) /\ Len(Tail(secs)) = Len(secs) - 1
  OBVIOUS
<1>4. \A k \in 1..Len(secs) - 1 : Tail(secs)[k] = secs[k + 1]
  OBVIOUS
<1>5. Tail(secs) = <<>> <=> Len(secs) = 1
  BY <1>1, <1>3
<1> QED BY <1>1, <1>2, <1>3, <1>4, <1>5

LEMMA SectionPart ==
  ASSUME NEW s \in Sections, NEW k \in Nat
  PROVE  /\ [s EXCEPT !.j = k, !.depth = @ + 1] = [i |-> s.i, j |-> k, depth |-> s.depth + 1]
         /\ [s EXCEPT !.i = k, !.depth = @ + 1] = [i |-> k, j |-> s.j, depth |-> s.depth + 1]
<1>1. PICK x \in Nat, y \in Nat, z \in Nat : s = [i |-> x, j |-> y, depth |-> z]
  BY DEF Sections
<1>2. s.i = x /\ s.j = y /\ s.depth = z
  BY <1>1
<1>3. [s EXCEPT !.j = k, !.depth = @ + 1] = [i |-> x, j |-> k, depth |-> z + 1]
  <2> DEFINE r == [s EXCEPT !.j = k]
             w == s.depth + 1
  <2>1. r = [i |-> x, j |-> k, depth |-> z] /\ w = z + 1
    BY <1>1, <1>2
  <2> HIDE DEF r, w
  <2>2. [r EXCEPT !.depth = w] = [i |-> x, j |-> k, depth |-> w]
    BY <2>1
  <2> QED BY <2>1, <2>2 DEF r, w
<1>4. [s EXCEPT !.i = k, !.depth = @ + 1] = [i |-> k, j |-> y, depth |-> z + 1]
  <2> DEFINE r == [s EXCEPT !.i = k]
             w == s.depth + 1
  <2>1. r = [i |-> k, j |-> y, depth |-> z] /\ w = z + 1
    BY <1>1, <1>2
  <2> HIDE DEF r, w
  <2>2. [r EXCEPT !.depth = w] = [i |-> k, j |-> y, depth |-> w]
    BY <2>1
  <2> QED BY <2>1, <2>2 DEF r, w
<1> QED BY <1>2, <1>3, <1>4

LEMMA PartedCall ==
  ASSUME NEW secs \in Seq(Sections), secs # <<>>, NEW k \in Nat
  PROVE  LET t == Parted(secs, k) IN
         /\ t \in Seq(Sections) /\ Len(t) = Len(secs) + 1 /\ t # <<>>
         /\ t[1] = [i |-> secs[1].i, j |-> k, depth |-> secs[1].depth + 1]
         /\ t[2] = [i |-> k, j |-> secs[1].j, depth |-> secs[1].depth + 1]
         /\ \A m \in 3..Len(secs) + 1 : t[m] = secs[m - 1]
<1> DEFINE s == secs[1]
           a == [i |-> s.i, j |-> k, depth |-> s.depth + 1]
           b == [i |-> k, j |-> s.j, depth |-> s.depth + 1]
           rest == Tail(secs)
<1>1. s \in Sections /\ Len(secs) \in Nat \ {0}
  BY TakenCall
<1>2. a \in Sections /\ b \in Sections
  BY <1>1 DEF Sections
<1>3. Parted(secs, k) = <<a, b>> \o rest
  <2>1. /\ [s EXCEPT !.j = k, !.depth = @ + 1] = a
        /\ [s EXCEPT !.i = k, !.depth = @ + 1] = b
    BY <1>1, SectionPart
  <2> HIDE DEF a, b, rest
  <2> QED BY <2>1 DEF Parted, rest
<1>4. rest \in Seq(Sections) /\ Len(rest) = Len(secs) - 1
      /\ \A m \in 1..Len(secs) - 1 : rest[m] = secs[m + 1]
  BY TakenCall
<1> HIDE DEF a, b, rest
<1>5. <<a, b>> \in Seq(Sections) /\ Len(<<a, b>>) = 2
  BY <1>2
<1> DEFINE t == <<a, b>> \o rest
<1>6. t \in Seq(Sections) /\ Len(t) = Len(secs) + 1 /\ t[1] = a /\ t[2] = b
      /\ \A m \in 3..Len(secs) + 1 : t[m] = rest[m - 2]
  BY <1>1, <1>4, <1>5
<1>7. ASSUME NEW m \in 3..Len(secs) + 1 PROVE t[m] = secs[m - 1]
  <2>1. m - 2 \in 1..Len(secs) - 1 /\ (m - 2) + 1 = m - 1
    BY <1>1
  <2> QED BY <1>4, <1>6, <2>1
<1>8. t # <<>>
  BY <1>1, <1>6
<1> HIDE DEF t
<1> QED BY <1>3, <1>6, <1>7, <1>8 DEF t, a, b

LEMMA LongerResult ==
  ASSUME NEW S, NEW segs \in Seq(S), NEW s \in S
  PROVE  LET t == Append(segs, s) IN
         /\ t \in Seq(S) /\ Len(t) = Len(segs) + 1 /\ t # <<>> /\ t[Len(segs) + 1] = s
         /\ \A k \in 1..Len(segs) : t[k] = segs[k]
         /\ Range(t) = Range(segs) \cup {s}
<1> DEFINE t == Append(segs, s)
<1>1. /\ t \in Seq(S) /\ Len(t) = Len(segs) + 1 /\ t # <<>> /\ t[Len(segs) + 1] = s
      /\ \A k \in 1..Len(segs) : t[k] = segs[k]
  OBVIOUS
<1>2. Range(t) = Range(segs) \cup {s}
  <2>1. DOMAIN t = 1..Len(segs) + 1 /\ DOMAIN segs = 1..Len(segs) /\ Len(segs) \in Nat
    OBVIOUS
  <2>2. \A k \in DOMAIN t : k \in DOMAIN segs \/ k = Len(segs) + 1
    BY <2>1
  <2>3. \A k \in DOMAIN segs : k \in DOMAIN t
    BY <2>1
  <2>4. Len(segs) + 1 \in DOMAIN t
    BY <2>1
  <2> HIDE DEF t
  <2> QED BY <1>1, <2>1, <2>2, <2>3, <2>4 DEF Range
<1> QED BY <1>1, <1>2

(* A call takes its section: it is a single segment, or is flattened.       *)
LEMMA SoundTake ==
  ASSUME NEW ln \in Lines, NEW tolerance, NEW segs \in Seq(Nat \X Nat), NEW secs \in Seq(Sections),
         secs # <<>>, Sound(ln, tolerance, segs, secs),
         AllNear(ln.pts, secs[1].i, secs[1].j, tolerance),
         secs[1].j = secs[1].i + 1 \/ (ln.ring => Len(segs) >= 3 \/ secs[1].depth >= 3)
  PROVE  Sound(ln, tolerance, Append(segs, Span(secs[1])), Tail(secs))
<1> DEFINE s == secs[1]
           rest == Tail(secs)
           more == Append(segs, Span(s))
           L == Len(segs)
           M == Len(secs)
           n == Len(ln.pts)
<1>1. /\ M \in Nat \ {0} /\ s \in Sections /\ rest \in Seq(Sections) /\ Len(rest) = M - 1
      /\ \A k \in 1..M - 1 : rest[k] = secs[k + 1]
      /\ rest = <<>> <=> M = 1
  BY TakenCall
<1>2. Span(s) \in Nat \X Nat /\ Span(s)[1] = s.i /\ Span(s)[2] = s.j /\ s.i \in Nat /\ s.j \in Nat
      /\ s.depth \in Nat
  BY <1>1 DEF Span, Sections
<1> HIDE DEF rest, s
<1>3. /\ more \in Seq(Nat \X Nat) /\ Len(more) = L + 1 /\ more # <<>> /\ more[L + 1] = Span(s)
      /\ \A k \in 1..L : more[k] = segs[k]
      /\ L \in Nat /\ (segs = <<>> <=> L = 0)
  <2>1. L \in Nat /\ (segs = <<>> <=> L = 0)
    OBVIOUS
  <2> DEFINE p == Span(s)
             S == Nat \X Nat
  <2>2. p \in S /\ segs \in Seq(S)
    BY <1>2
  <2> HIDE DEF p, S
  <2>3. /\ Append(segs, p) \in Seq(S) /\ Len(Append(segs, p)) = Len(segs) + 1 /\ Append(segs, p) # <<>>
        /\ Append(segs, p)[Len(segs) + 1] = p
        /\ \A k \in 1..Len(segs) : Append(segs, p)[k] = segs[k]
    BY <2>2, LongerResult
  <2> QED BY <2>1, <2>3 DEF p, S
<1> HIDE DEF more, L, M
<1>4. EndOf(more) = s.j /\ EndOf(segs) = s.i
  <2>1. EndOf(segs) = s.i
    BY DEF Sound, Pending, s
  <2> QED BY <1>2, <1>3, <2>1 DEF EndOf
<1>5. Chain(ln.pts, tolerance, more)
  <2> SUFFICES ASSUME NEW k \in 1..L + 1
               PROVE  /\ more[k][1] = IF k = 1 THEN 1 ELSE more[k - 1][2]
                      /\ 1 <= more[k][1] /\ more[k][1] < more[k][2] /\ more[k][2] <= n
                      /\ AllNear(ln.pts, more[k][1], more[k][2], tolerance)
    BY <1>3 DEF Chain
  <2> L \in Nat
    BY <1>3
  <2>1. CASE k \in 1..L
    <3>1. k # 1 => k - 1 \in 1..L
      BY <2>1
    <3>2. more[k] = segs[k] /\ (k # 1 => more[k - 1] = segs[k - 1])
      BY <1>3, <2>1, <3>1
    <3>3. /\ segs[k][1] = IF k = 1 THEN 1 ELSE segs[k - 1][2]
          /\ 1 <= segs[k][1] /\ segs[k][1] < segs[k][2] /\ segs[k][2] <= n
          /\ AllNear(ln.pts, segs[k][1], segs[k][2], tolerance)
      <4>1. Chain(ln.pts, tolerance, segs)
        BY DEF Sound
      <4> QED BY <2>1, <4>1 DEF Chain, L
    <3> HIDE DEF n
    <3> QED BY <3>2, <3>3
  <2>2. CASE k = L + 1
    <3>1. more[k] = Span(s)
      BY <1>3, <2>2
    <3>2. k # 1 => more[k - 1] = segs[L]
      <4>1. k # 1 => L \in 1..L
        BY <2>2
      <4>2. k - 1 = L
        BY <2>2
      <4> QED BY <1>3, <4>1, <4>2
    <3>3. s.i = IF k = 1 THEN 1 ELSE segs[L][2]
      BY <1>3, <1>4, <2>2 DEF EndOf, L
    <3>4. 1 <= s.i /\ s.i < s.j /\ s.j <= n
      BY <1>1 DEF Sound, Pending, s, M
    <3>5. AllNear(ln.pts, s.i, s.j, tolerance)
      BY DEF s
    <3> QED BY <1>2, <3>1, <3>3, <3>4, <3>2, <3>5
  <2> QED BY <1>3, <2>1, <2>2
<1>6. Pending(n, s.j, rest)
  <2>1. ASSUME NEW k \in 1..M - 1
        PROVE  /\ 1 <= rest[k].i /\ rest[k].i < rest[k].j /\ rest[k].j <= n /\ 1 <= rest[k].depth
               /\ rest[k].j = IF k = M - 1 THEN n ELSE rest[k + 1].i
    <3> DEFINE m == k + 1
    <3>1. m \in 1..M /\ (k # M - 1 <=> m # M) /\ (k # M - 1 => m \in 1..M - 1)
      BY <1>1
    <3>2. rest[k] = secs[m]
      BY <1>1
    <3> HIDE DEF m
    <3>3. k # M - 1 => rest[m] = secs[m + 1]
      BY <1>1, <3>1
    <3>4. /\ 1 <= secs[m].i /\ secs[m].i < secs[m].j /\ secs[m].j <= n /\ 1 <= secs[m].depth
          /\ secs[m].j = IF m = M THEN n ELSE secs[m + 1].i
      BY <3>1 DEF Sound, Pending, M
    <3> QED BY <3>1, <3>2, <3>3, <3>4 DEF m
  <2>2. s.j = IF rest = <<>> THEN n ELSE rest[1].i
    <3>1. s.j = IF M = 1 THEN n ELSE secs[1 + 1].i
      BY <1>1 DEF Sound, Pending, s, M
    <3>2. M # 1 => rest[1] = secs[1 + 1]
      BY <1>1
    <3> QED BY <1>1, <3>1, <3>2
  <2> QED BY <1>1, <2>1, <2>2 DEF Pending
<1>7. Counted(ln.ring, more, rest)
  <2>1. Len(more) + Len(rest) = L + M
    BY <1>1, <1>3
  <2>2. \A k \in 1..M : secs[k].depth <= L + M
    BY DEF Sound, Counted, L, M
  <2>3. \A k \in 1..M - 1 : rest[k].depth <= L + M
    <3> SUFFICES ASSUME NEW k \in 1..M - 1 PROVE rest[k].depth <= L + M
      OBVIOUS
    <3>1. k + 1 \in 1..M /\ rest[k] = secs[k + 1]
      BY <1>1
    <3> QED BY <2>2, <3>1
  <2>4. Single(more) => Single(segs) /\ s.j = s.i + 1
    <3>1. ASSUME Single(more), NEW k \in 1..L PROVE segs[k][2] = segs[k][1] + 1
      <4>1. k \in 1..L + 1 /\ more[k] = segs[k]
        BY <1>3
      <4> QED BY <1>3, <3>1, <4>1 DEF Single
    <3>2. ASSUME Single(more) PROVE s.j = s.i + 1
      <4>1. L + 1 \in 1..L + 1
        BY <1>3
      <4> QED BY <1>2, <1>3, <3>2, <4>1 DEF Single
    <3> QED BY <3>1, <3>2 DEF Single, L
  <2>5. Single(segs) /\ s.j = s.i + 1 => Single(more)
    <3> SUFFICES ASSUME Single(segs), s.j = s.i + 1, NEW k \in 1..L + 1 PROVE more[k][2] = more[k][1] + 1
      BY <1>3 DEF Single
    <3>1. CASE k \in 1..L
      BY <1>3, <3>1 DEF Single, L
    <3>2. CASE k = L + 1
      BY <1>2, <1>3, <3>2
    <3> QED BY <1>3, <3>1, <3>2
  <2>6. Single(more) => EndOf(more) = (L + 1) + 1
    <3>1. Single(segs) => EndOf(segs) = L + 1
      BY DEF Sound, Counted, L
    <3> QED BY <1>4, <2>4, <3>1
  <2>7. ASSUME ln.ring PROVE Single(more) \/ L + M >= 3
    <3>1. Single(segs) \/ L + M >= 3
      BY <2>7 DEF Sound, Counted, L, M
    <3>2. s.depth <= L + M
      BY <1>1, <2>2 DEF s
    <3>3. s.j = s.i + 1 \/ L >= 3 \/ s.depth >= 3
      BY <2>7 DEF s, L
    <3> QED BY <1>1, <1>2, <1>3, <2>5, <3>1, <3>2, <3>3
  <2> QED BY <1>1, <1>3, <2>1, <2>3, <2>6, <2>7 DEF Counted
<1> QED BY <1>4, <1>5, <1>6, <1>7 DEF Sound, more, rest, s

(* A call parts its section at a point between its ends.                    *)
LEMMA SoundPart ==
  ASSUME NEW ln \in Lines, NEW tolerance, NEW segs \in Seq(Nat \X Nat), NEW secs \in Seq(Sections),
         secs # <<>>, Sound(ln, tolerance, segs, secs), NEW k \in secs[1].i + 1..secs[1].j - 1
  PROVE  Sound(ln, tolerance, segs, Parted(secs, k))
<1> DEFINE s == secs[1]
           t == Parted(secs, k)
           L == Len(segs)
           M == Len(secs)
           n == Len(ln.pts)
<1>1. M \in Nat \ {0} /\ s \in Sections /\ L \in Nat
  BY TakenCall
<1>2. s.i \in Nat /\ s.j \in Nat /\ s.depth \in Nat /\ k \in Nat /\ s.i < k /\ k < s.j
  BY <1>1 DEF Sections
<1>3. /\ Len(t) = M + 1 /\ t # <<>>
      /\ t[1] = [i |-> s.i, j |-> k, depth |-> s.depth + 1]
      /\ t[2] = [i |-> k, j |-> s.j, depth |-> s.depth + 1]
      /\ \A m \in 3..M + 1 : t[m] = secs[m - 1]
  BY <1>2, PartedCall
<1> HIDE DEF s, t, L, M
<1>4. \A m \in 1..M :
        /\ 1 <= secs[m].i /\ secs[m].i < secs[m].j /\ secs[m].j <= n /\ 1 <= secs[m].depth
        /\ secs[m].j = IF m = M THEN n ELSE secs[m + 1].i
        /\ secs[m].depth <= L + M
  BY DEF Sound, Pending, Counted, L, M
<1>5. /\ 1 <= s.i /\ s.j <= n /\ s.depth <= L + M
      /\ s.j = IF M = 1 THEN n ELSE secs[2].i
  BY <1>1, <1>4 DEF s
<1>6. ASSUME NEW m \in 1..M + 1
      PROVE  /\ 1 <= t[m].i /\ t[m].i < t[m].j /\ t[m].j <= n /\ 1 <= t[m].depth
             /\ t[m].j = IF m = M + 1 THEN n ELSE t[m + 1].i
             /\ t[m].depth <= L + (M + 1)
  <2> n \in Nat
    BY DEF Lines
  <2> HIDE DEF n
  <2>1. CASE m = 1
    <3>1. /\ t[1].i = s.i /\ t[1].j = k /\ t[1].depth = s.depth + 1 /\ t[2].i = k
      BY <1>3
    <3>2. 1 <= s.i /\ s.i < k /\ k <= n /\ 1 <= s.depth + 1 /\ s.depth + 1 <= L + (M + 1) /\ 1 # M + 1
      BY <1>1, <1>2, <1>5
    <3>3. 1 + 1 = 2
      OBVIOUS
    <3> QED BY <2>1, <3>1, <3>2, <3>3
  <2>2. CASE m = 2
    <3>1. t[2].i = k /\ t[2].j = s.j /\ t[2].depth = s.depth + 1
      BY <1>3
    <3>2. M # 1 => t[3] = secs[2]
      BY <1>1, <1>3
    <3> QED BY <1>1, <1>2, <1>5, <2>2, <3>1, <3>2
  <2>3. CASE m \in 3..M + 1
    <3> DEFINE p == m - 1
    <3>1. p \in 1..M /\ p + 1 = m /\ (m = M + 1 <=> p = M)
      BY <1>1, <2>3
    <3>2. t[m] = secs[p] /\ (m # M + 1 => t[m + 1] = secs[p + 1])
      BY <1>1, <1>3, <2>3
    <3> HIDE DEF p
    <3>3. secs[p].depth <= L + M /\ L + M <= L + (M + 1) /\ t[m].depth = secs[p].depth
      BY <1>1, <1>4, <3>1, <3>2
    <3>4. secs[p] \in Sections
      BY <3>1 DEF M
    <3>5. secs[p].depth \in Nat
      BY <3>4 DEF Sections
    <3>6. t[m].depth <= L + (M + 1)
      BY <1>1, <3>3, <3>5
    <3> QED BY <1>4, <3>1, <3>2, <3>6
  <2> QED BY <1>1, <2>1, <2>2, <2>3
<1>7. EndOf(segs) = t[1].i
  BY <1>3 DEF Sound, Pending, s
<1>8. Pending(n, EndOf(segs), t)
  BY <1>3, <1>6, <1>7 DEF Pending
<1>9. Counted(ln.ring, segs, t)
  <2>1. ln.ring => Single(segs) \/ L + M >= 3
    BY DEF Sound, Counted, L, M
  <2>2. ln.ring => Single(segs) \/ L + (M + 1) >= 3
    BY <1>1, <2>1
  <2>3. Single(segs) => EndOf(segs) = L + 1
    BY DEF Sound, Counted, L
  <2> QED BY <1>3, <1>6, <2>2, <2>3 DEF Counted, L
<1> QED BY <1>8, <1>9 DEF Sound, t

(* A line begins as one section.                                            *)
LEMMA SoundBegin ==
  ASSUME NEW ln \in Lines, NEW tolerance, Len(ln.pts) >= 2
  PROVE  Sound(ln, tolerance, <<>>, << [i |-> 1, j |-> Len(ln.pts), depth |-> 1] >>)
<1> DEFINE n == Len(ln.pts)
           secs == << [i |-> 1, j |-> n, depth |-> 1] >>
<1>1. n \in Nat
  BY DEF Lines
<1> HIDE DEF n
<1>2. /\ Len(secs) = 1 /\ secs # <<>> /\ secs[1].i = 1 /\ secs[1].j = n /\ secs[1].depth = 1
      /\ Len(<<>>) = 0
  OBVIOUS
<1> HIDE DEF secs
<1>3. Chain(ln.pts, tolerance, <<>>)
  BY DEF Chain
<1>4. Pending(n, EndOf(<<>>), secs)
  BY <1>1, <1>2 DEF Pending, EndOf, n
<1>5. Counted(ln.ring, <<>>, secs)
  BY <1>2 DEF Counted, EndOf, Single
<1> QED BY <1>3, <1>4, <1>5 DEF Sound, n, secs

(* A line without calls left is as it should be.                            *)
LEMMA SoundEnd ==
  ASSUME NEW ln \in Lines, NEW tolerance, NEW segs \in Seq(Nat \X Nat), Sound(ln, tolerance, segs, <<>>),
         Len(ln.pts) >= IF ln.ring THEN 4 ELSE 2
  PROVE  /\ segs # <<>> /\ segs[Len(segs)][2] = Len(ln.pts)
         /\ ln.ring => Len(segs) >= 3
<1>1. EndOf(segs) = Len(ln.pts) /\ Len(ln.pts) \in Nat /\ Len(segs) \in Nat /\ Len(<<>>) = 0
  BY DEF Sound, Pending, Lines
<1>2. segs # <<>> /\ segs[Len(segs)][2] = Len(ln.pts)
  BY <1>1 DEF EndOf
<1>3. ln.ring => Len(segs) >= 3
  <2>1. /\ Single(segs) => EndOf(segs) = Len(segs) + 1
        /\ ln.ring => Single(segs) \/ Len(segs) + Len(<<>>) >= 3
    BY DEF Sound, Counted
  <2> QED BY <1>1, <2>1
<1> QED BY <1>2, <1>3

-----------------------------------------------------------------------------
(* What Douglas-Peucker leaves                                              *)

LEMMA CallsLeft ==
  ASSUME NEW secs \in Seq(Sections), secs # <<>>
  PROVE  Range(secs) = {secs[1]} \cup Range(Tail(secs))
<1>1. /\ Len(secs) \in Nat \ {0} /\ Tail(secs) \in Seq(Sections) /\ Len(Tail(secs)) = Len(secs) - 1
      /\ \A k \in 1..Len(secs) - 1 : Tail(secs)[k] = secs[k + 1]
  BY TakenCall
<1>2. DOMAIN secs = 1..Len(secs) /\ DOMAIN Tail(secs) = 1..Len(secs) - 1
  BY <1>1
<1>3. ASSUME NEW k \in DOMAIN secs PROVE secs[k] \in {secs[1]} \cup Range(Tail(secs))
  <2>1. CASE k = 1
    BY <2>1
  <2>2. CASE k # 1
    <3>1. k - 1 \in 1..Len(secs) - 1 /\ (k - 1) + 1 = k
      BY <1>1, <1>2, <2>2
    <3> QED BY <1>1, <1>2, <3>1 DEF Range
  <2> QED BY <2>1, <2>2
<1>4. ASSUME NEW k \in DOMAIN Tail(secs) PROVE Tail(secs)[k] \in Range(secs)
  <2>1. k + 1 \in 1..Len(secs) /\ Tail(secs)[k] = secs[k + 1]
    BY <1>1, <1>2
  <2> QED BY <1>2, <2>1 DEF Range
<1>5. secs[1] \in Range(secs)
  BY <1>1, <1>2 DEF Range
<1> QED BY <1>3, <1>4, <1>5 DEF Range

LEMMA PartsLeft ==
  ASSUME NEW secs \in Seq(Sections), secs # <<>>, NEW k \in Nat
  PROVE  LET a == [i |-> secs[1].i, j |-> k, depth |-> secs[1].depth + 1]
             b == [i |-> k, j |-> secs[1].j, depth |-> secs[1].depth + 1]
         IN  Range(Parted(secs, k)) = {a, b} \cup Range(Tail(secs))
<1> DEFINE a == [i |-> secs[1].i, j |-> k, depth |-> secs[1].depth + 1]
           b == [i |-> k, j |-> secs[1].j, depth |-> secs[1].depth + 1]
           t == Parted(secs, k)
           rest == Tail(secs)
           M == Len(secs)
<1>1. /\ M \in Nat \ {0} /\ rest \in Seq(Sections) /\ Len(rest) = M - 1
      /\ \A m \in 1..M - 1 : rest[m] = secs[m + 1]
  BY TakenCall
<1>2. /\ t \in Seq(Sections) /\ Len(t) = M + 1 /\ t[1] = a /\ t[2] = b
      /\ \A m \in 3..M + 1 : t[m] = secs[m - 1]
  BY PartedCall
<1> HIDE DEF a, b, t, rest, M
<1>3. DOMAIN t = 1..M + 1 /\ DOMAIN rest = 1..M - 1
  BY <1>1, <1>2
<1>4. ASSUME NEW m \in 1..M + 1 PROVE t[m] \in {a, b} \cup Range(rest)
  <2>1. CASE m = 1 \/ m = 2
    BY <1>2, <2>1
  <2>2. CASE m \in 3..M + 1
    <3>1. m - 2 \in 1..M - 1 /\ (m - 2) + 1 = m - 1
      BY <1>1, <2>2
    <3>2. t[m] = rest[m - 2]
      BY <1>1, <1>2, <2>2, <3>1
    <3> QED BY <1>3, <3>1, <3>2 DEF Range
  <2> QED BY <2>1, <2>2
<1>5. ASSUME NEW m \in 1..M - 1 PROVE rest[m] \in Range(t)
  <2>1. m + 2 \in 3..M + 1 /\ (m + 2) - 1 = m + 1 /\ m + 2 \in 1..M + 1
    BY <1>1
  <2>2. rest[m] = t[m + 2]
    BY <1>1, <1>2, <2>1
  <2> QED BY <1>3, <2>1, <2>2 DEF Range
<1>6. a \in Range(t) /\ b \in Range(t)
  <2>1. 1 \in 1..M + 1 /\ 2 \in 1..M + 1
    BY <1>1
  <2> QED BY <1>2, <1>3, <2>1 DEF Range
<1>7. Range(t) = {a, b} \cup Range(rest)
  BY <1>3, <1>4, <1>5, <1>6 DEF Range
<1> QED BY <1>7 DEF a, b, t, rest

LEMMA FollowsTake ==
  ASSUME NEW left, NEW goal, NEW segs \in Seq(Nat \X Nat), NEW secs \in Seq(Sections), secs # <<>>,
         left[Span(secs[1])] = {Span(secs[1])}
  PROVE  /\ Follows(left, goal, segs, secs) =>
              Follows(left, goal, Append(segs, Span(secs[1])), Tail(secs))
         /\ Equals(left, goal, segs, secs) =>
              Equals(left, goal, Append(segs, Span(secs[1])), Tail(secs))
<1> DEFINE s == secs[1]
           more == Append(segs, Span(s))
<1>1. s \in Sections
  BY TakenCall
<1>2. s.i \in Nat /\ s.j \in Nat /\ Span(s)[1] = s.i /\ Span(s)[2] = s.j /\ Span(s) \in Nat \X Nat
  BY <1>1 DEF Sections, Span
<1>3. Range(secs) = {s} \cup Range(Tail(secs))
  BY CallsLeft
<1>4. Range(more) = Range(segs) \cup {Span(s)}
  <2> DEFINE p == Span(s)
             S == Nat \X Nat
  <2>1. p \in S /\ segs \in Seq(S)
    BY <1>2
  <2> HIDE DEF p, S
  <2>2. Range(Append(segs, p)) = Range(segs) \cup {p}
    BY <2>1, LongerResult
  <2> QED BY <2>2 DEF p
<1> HIDE DEF s, more
<1>5. ASSUME Follows(left, goal, segs, secs) PROVE Follows(left, goal, more, Tail(secs))
  <2>1. Covered(goal, Span(s))
    <3>1. Covered(goal, Span(s)) \/ left[Span(s)] \subseteq goal
      BY <1>3, <1>5 DEF Follows
    <3>2. CASE left[Span(s)] \subseteq goal
      <4>1. Span(s) \in goal
        BY <3>2 DEF s
      <4>2. Span(s)[1] <= Span(s)[1] /\ Span(s)[2] <= Span(s)[2]
        BY <1>2
      <4> QED BY <4>1, <4>2 DEF Covered
    <3> QED BY <3>1, <3>2
  <2> QED BY <1>3, <1>4, <1>5, <2>1 DEF Follows
<1>6. ASSUME Equals(left, goal, segs, secs) PROVE Equals(left, goal, more, Tail(secs))
  <2>1. left[Span(s)] = {Span(s)}
    BY DEF s
  <2> QED BY <1>3, <1>4, <1>6, <2>1 DEF Equals
<1> QED BY <1>5, <1>6 DEF more, s

LEMMA FollowsPart ==
  ASSUME NEW left, NEW goal, goal \subseteq Int \X Int, NEW segs, NEW secs \in Seq(Sections), secs # <<>>,
         NEW k \in secs[1].i + 1..secs[1].j - 1,
         left[Span(secs[1])] = left[<<secs[1].i, k>>] \cup left[<<k, secs[1].j>>]
         \/ left[Span(secs[1])] = {Span(secs[1])}
  PROVE  /\ Follows(left, goal, segs, secs) => Follows(left, goal, segs, Parted(secs, k))
         /\ Equals(left, goal, segs, secs)
            /\ left[Span(secs[1])] = left[<<secs[1].i, k>>] \cup left[<<k, secs[1].j>>]
              => Equals(left, goal, segs, Parted(secs, k))
<1> DEFINE s == secs[1]
           a == [i |-> s.i, j |-> k, depth |-> s.depth + 1]
           b == [i |-> k, j |-> s.j, depth |-> s.depth + 1]
<1>1. s \in Sections
  BY TakenCall
<1>2. s.i \in Nat /\ s.j \in Nat /\ s.i <= k /\ k <= s.j /\ k \in Nat
  BY <1>1 DEF Sections
<1>3. /\ Span(s) = <<s.i, s.j>> /\ Span(a) = <<s.i, k>> /\ Span(b) = <<k, s.j>>
  BY DEF Span
<1>4. Range(secs) = {s} \cup Range(Tail(secs))
  BY CallsLeft
<1>5. Range(Parted(secs, k)) = {a, b} \cup Range(Tail(secs))
  BY <1>2, PartsLeft
<1> HIDE DEF s, a, b
<1>6. Covered(goal, Span(s)) => Covered(goal, Span(a)) /\ Covered(goal, Span(b))
  <2> SUFFICES ASSUME NEW r \in goal, r[1] <= s.i, s.j <= r[2]
               PROVE  r[1] <= s.i /\ k <= r[2] /\ r[1] <= k /\ s.j <= r[2]
    BY <1>3 DEF Covered
  <2>1. r[1] \in Int /\ r[2] \in Int
    OBVIOUS
  <2> QED BY <1>2, <2>1
<1>7. ASSUME Follows(left, goal, segs, secs) PROVE Follows(left, goal, segs, Parted(secs, k))
  <2>1. Covered(goal, Span(s)) \/ left[Span(s)] \subseteq goal
    BY <1>4, <1>7 DEF Follows
  <2>2. CASE left[Span(s)] = left[Span(a)] \cup left[Span(b)] /\ left[Span(s)] \subseteq goal
    BY <1>4, <1>5, <1>7, <2>2 DEF Follows
  <2>3. CASE Covered(goal, Span(s))
    <3>1. Covered(goal, Span(a)) /\ Covered(goal, Span(b))
      BY <1>6, <2>3
    <3> QED BY <1>4, <1>5, <1>7, <3>1 DEF Follows
  <2>4. CASE left[Span(s)] = {Span(s)} /\ left[Span(s)] \subseteq goal
    <3>1. Covered(goal, Span(s))
      <4>1. Span(s) \in goal
        BY <2>4
      <4> QED BY <1>2, <1>3, <4>1 DEF Covered
    <3>2. Covered(goal, Span(a)) /\ Covered(goal, Span(b))
      BY <1>6, <3>1
    <3> QED BY <1>4, <1>5, <1>7, <3>2 DEF Follows
  <2> QED BY <1>3, <2>1, <2>2, <2>3, <2>4 DEF s
<1>8. ASSUME Equals(left, goal, segs, secs), left[Span(s)] = left[Span(a)] \cup left[Span(b)]
      PROVE  Equals(left, goal, segs, Parted(secs, k))
  BY <1>4, <1>5, <1>8 DEF Equals
<1> QED BY <1>3, <1>7, <1>8 DEF s

(* A line begins with what is to be left of all of it.                      *)
LEMMA FollowsBegin ==
  ASSUME NEW left, NEW n, NEW secs, secs = << [i |-> 1, j |-> n, depth |-> 1] >>
  PROVE  Follows(left, left[<<1, n>>], <<>>, secs) /\ Equals(left, left[<<1, n>>], <<>>, secs)
<1>1. Range(<<>>) = {}
  BY DEF Range
<1>2. Range(secs) = {[i |-> 1, j |-> n, depth |-> 1]}
  <2> DEFINE s == [i |-> 1, j |-> n, depth |-> 1]
  <2>1. DOMAIN secs = {1} /\ secs[1] = s
    OBVIOUS
  <2> HIDE DEF s
  <2> QED BY <2>1 DEF Range, s
<1>3. \A s \in Range(secs) : Span(s) = <<1, n>>
  BY <1>2 DEF Span
<1>4. \E s \in Range(secs) : Span(s) = <<1, n>>
  BY <1>2, <1>3
<1> QED BY <1>1, <1>3, <1>4 DEF Follows, Equals

(* A line ends with what was to be left.                                    *)
LEMMA FollowsEnd ==
  ASSUME NEW left, NEW goal, NEW segs
  PROVE  /\ Follows(left, goal, segs, <<>>) => \A s \in Range(segs) : Covered(goal, s)
         /\ Equals(left, goal, segs, <<>>) => Range(segs) = goal
<1>1. Range(<<>>) = {}
  BY DEF Range
<1> QED BY <1>1 DEF Follows, Equals

-----------------------------------------------------------------------------
(* The lines of a drawing                                                   *)

LEMMA LineType ==
  ASSUME Typed, NEW l \in DrawnLines
  PROVE  /\ drawing # NoDrawing /\ DrawnLines = DOMAIN drawing
         /\ drawing[l] \in Lines /\ Pts(l) = drawing[l].pts /\ Pts(l) \in Seq(Point)
         /\ Len(Pts(l)) \in Nat /\ Len(Pts(l)) >= IF drawing[l].ring THEN 4 ELSE 2
         /\ resultSegs[l] \in Seq(Nat \X Nat)
<1>1. drawing # NoDrawing /\ DrawnLines = DOMAIN drawing
  BY DEF DrawnLines
<1>2. drawing \in Drawings /\ resultSegs \in [DOMAIN drawing -> Seq(Nat \X Nat)]
  BY <1>1 DEF Typed
<1>3. drawing \in Seq(Lines) /\ Len(drawing[l].pts) >= IF drawing[l].ring THEN 4 ELSE 2
  BY <1>1, <1>2, DrawingsAssumption DEF Lines
<1>4. drawing[l] \in Lines
  BY <1>1, <1>3
<1>5. Pts(l) = drawing[l].pts /\ Pts(l) \in Seq(Point)
  BY <1>4 DEF Lines, Pts
<1>6. Len(Pts(l)) \in Nat
  BY <1>5
<1>7. resultSegs[l] \in Seq(Nat \X Nat)
  BY <1>1, <1>2
<1> QED BY <1>1, <1>3, <1>4, <1>5, <1>6, <1>7

(* While a line is in work, it is one of the drawing, and not waiting.      *)
LEMMA LineInWork ==
  ASSUME Typed, sections # <<>>
  PROVE  /\ line \in DrawnLines /\ line \notin waiting /\ sections \in Seq(Sections)
         /\ Todo(line) = sections /\ sections[1] = Head(sections) /\ sections[1] \in Sections
         /\ Tail(sections) \in Seq(Sections)
<1>1. drawing # NoDrawing
  BY DEF Typed
<1>2. sections \in Seq(Sections) /\ line \in DOMAIN drawing \ waiting
  BY <1>1 DEF Typed
<1>3. sections[1] = Head(sections) /\ sections[1] \in Sections /\ Tail(sections) \in Seq(Sections)
  BY <1>2, TakenCall
<1> QED BY <1>1, <1>2, <1>3 DEF DrawnLines, Todo

(* Its innermost section is one of its points.                              *)
LEMMA SectionInWork ==
  ASSUME Typed, LinesSound, sections # <<>>
  PROVE  /\ Sound(drawing[line], distanceTolerance, resultSegs[line], sections)
         /\ sections[1].i \in 1..Len(Pts(line)) /\ sections[1].j \in 1..Len(Pts(line))
         /\ sections[1].i < sections[1].j
         /\ sections[1].depth \in Nat /\ sections[1].depth >= 1
<1>1. /\ line \in DrawnLines /\ line \notin waiting /\ sections \in Seq(Sections)
      /\ Todo(line) = sections /\ sections[1] \in Sections
  BY LineInWork
<1>2. Sound(drawing[line], distanceTolerance, resultSegs[line], sections)
  BY <1>1 DEF LinesSound, SoundLine
<1>3. Len(sections) \in Nat \ {0} /\ Pts(line) = drawing[line].pts /\ Len(Pts(line)) \in Nat
  BY <1>1, LineType, TakenCall
<1>4. /\ 1 <= sections[1].i /\ sections[1].i < sections[1].j /\ sections[1].j <= Len(Pts(line))
      /\ 1 <= sections[1].depth
  BY <1>2, <1>3 DEF Sound, Pending
<1>5. sections[1].i \in Nat /\ sections[1].j \in Nat /\ sections[1].depth \in Nat
  BY <1>1 DEF Sections
<1> QED BY <1>2, <1>3, <1>4, <1>5

(* Every segment of a result joins two points of its line.                  *)
LEMMA ResultOnLine ==
  ASSUME Typed, LinesSound, NEW l \in DrawnLines, NEW s \in Range(resultSegs[l])
  PROVE  /\ s[1] \in 1..Len(Pts(l)) /\ s[2] \in 1..Len(Pts(l)) /\ s[1] < s[2]
         /\ l \notin waiting
<1>1. /\ resultSegs[l] \in Seq(Nat \X Nat) /\ Pts(l) = drawing[l].pts /\ Len(Pts(l)) \in Nat
  BY LineType
<1>2. PICK k \in 1..Len(resultSegs[l]) : s = resultSegs[l][k]
  BY <1>1 DEF Range
<1>3. l \notin waiting
  <2>1. Range(<<>>) = {}
    BY DEF Range
  <2> QED BY <2>1 DEF LinesSound, SoundLine
<1>4. Chain(Pts(l), distanceTolerance, resultSegs[l])
  BY <1>1, <1>3 DEF LinesSound, SoundLine, Sound
<1>5. 1 <= s[1] /\ s[1] < s[2] /\ s[2] <= Len(Pts(l))
  BY <1>2, <1>4 DEF Chain
<1>6. s[1] \in Nat /\ s[2] \in Nat
  <2>1. s \in Nat \X Nat
    BY <1>1, <1>2
  <2> QED BY <2>1
<1> QED BY <1>1, <1>3, <1>5, <1>6

-----------------------------------------------------------------------------
(* The segments that stand                                                  *)

(* A segment is added to the result of a line: what stands of the others    *)
(* stays, and if it replaces a section, that is no longer untouched.        *)
Adds(l, s) ==
  /\ drawing' = drawing /\ distanceTolerance' = distanceTolerance
  /\ resultSegs' = [resultSegs EXCEPT ![l] = Append(@, s)]

LEMMA AddedToResult ==
  ASSUME Typed, NEW l \in DrawnLines, NEW s \in Nat \X Nat, Adds(l, s)
  PROVE  /\ resultSegs'[l] = Append(resultSegs[l], s) /\ resultSegs'[l] \in Seq(Nat \X Nat)
         /\ Range(resultSegs'[l]) = Range(resultSegs[l]) \cup {s}
         /\ \A m \in DrawnLines : m # l => resultSegs'[m] = resultSegs[m]
         /\ resultSegs' \in [DOMAIN drawing -> Seq(Nat \X Nat)]
<1>1. /\ drawing # NoDrawing /\ DrawnLines = DOMAIN drawing /\ resultSegs[l] \in Seq(Nat \X Nat)
  BY LineType
<1>2. resultSegs \in [DOMAIN drawing -> Seq(Nat \X Nat)]
  BY <1>1 DEF Typed
<1> DEFINE S == Nat \X Nat
           more == Append(resultSegs[l], s)
<1>3. more \in Seq(S) /\ Range(more) = Range(resultSegs[l]) \cup {s}
  <2>1. resultSegs[l] \in Seq(S) /\ s \in S
    BY <1>1
  <2> HIDE DEF S
  <2> QED BY <2>1, LongerResult
<1>4. resultSegs' = [resultSegs EXCEPT ![l] = more]
  BY DEF Adds
<1> HIDE DEF more
<1>5. resultSegs' \in [DOMAIN drawing -> Seq(S)]
  BY <1>1, <1>2, <1>3, <1>4
<1>6. resultSegs'[l] = more /\ \A m \in DrawnLines : m # l => resultSegs'[m] = resultSegs[m]
  BY <1>1, <1>2, <1>4
<1> QED BY <1>3, <1>5, <1>6 DEF more

LEMMA AddedToDrawing ==
  ASSUME Typed, NEW l \in DrawnLines, NEW s \in Nat \X Nat, Adds(l, s)
  PROVE  /\ DrawnLines' = DrawnLines
         /\ \A m \in DrawnLines : m # l => Replaced(m)' = Replaced(m) /\ Untouched(m)' = Untouched(m)
         /\ s[2] > s[1] + 1 => /\ Replaced(l)' = Replaced(l) \cup {s}
                               /\ Untouched(l)' = {u \in Untouched(l) : ~InSection(u[1], s)}
         /\ ~(s[2] > s[1] + 1) => Replaced(l)' = Replaced(l) /\ Untouched(l)' = Untouched(l)
         /\ \A m, c : Chord(m, c)' = Chord(m, c) /\ SegmentAt(m, c)' = SegmentAt(m, c)
<1>1. /\ Range(resultSegs'[l]) = Range(resultSegs[l]) \cup {s}
      /\ \A m \in DrawnLines : m # l => resultSegs'[m] = resultSegs[m]
  BY AddedToResult
<1>2. drawing' = drawing
  BY DEF Adds
<1>3. DrawnLines' = DrawnLines
  BY <1>2 DEF DrawnLines
<1>4. \A m : Pts(m)' = Pts(m)
  BY <1>2 DEF Pts
<1>5. \A m, c : Chord(m, c)' = Chord(m, c) /\ SegmentAt(m, c)' = SegmentAt(m, c)
  BY <1>4 DEF Chord, SegmentAt
<1>6. \A m \in DrawnLines : m # l => Replaced(m)' = Replaced(m)
  BY <1>1 DEF Replaced
<1>7. \A m \in DrawnLines : m # l => Untouched(m)' = Untouched(m)
  BY <1>4, <1>6 DEF Untouched
<1>8. ASSUME s[2] > s[1] + 1
      PROVE  /\ Replaced(l)' = Replaced(l) \cup {s}
             /\ Untouched(l)' = {u \in Untouched(l) : ~InSection(u[1], s)}
  <2>1. Replaced(l)' = Replaced(l) \cup {s}
    BY <1>1, <1>8 DEF Replaced
  <2>2. {m \in 1..Len(Pts(l)) - 1 : \A r \in Replaced(l)' : ~InSection(m, r)} =
        {m \in 1..Len(Pts(l)) - 1 : (\A r \in Replaced(l) : ~InSection(m, r)) /\ ~InSection(m, s)}
    BY <2>1
  <2>3. \A k : <<k, k + 1>>[1] = k
    OBVIOUS
  <2>4. Untouched(l)' = {<<k, k + 1>> : k \in {m \in 1..Len(Pts(l)) - 1 : \A r \in Replaced(l)' : ~InSection(m, r)}}
    BY <1>4 DEF Untouched
  <2> QED BY <2>1, <2>2, <2>3, <2>4 DEF Untouched
<1>9. ASSUME ~(s[2] > s[1] + 1) PROVE Replaced(l)' = Replaced(l) /\ Untouched(l)' = Untouched(l)
  <2>1. Replaced(l)' = Replaced(l)
    BY <1>1, <1>9 DEF Replaced
  <2> QED BY <1>4, <2>1 DEF Untouched
<1> QED BY <1>3, <1>5, <1>6, <1>7, <1>8, <1>9

(* Nothing is added.                                                        *)
LEMMA SameDrawing ==
  ASSUME drawing' = drawing, distanceTolerance' = distanceTolerance, resultSegs' = resultSegs
  PROVE  /\ DrawnLines' = DrawnLines
         /\ \A m : Replaced(m)' = Replaced(m) /\ Untouched(m)' = Untouched(m)
         /\ \A m, c : Chord(m, c)' = Chord(m, c) /\ SegmentAt(m, c)' = SegmentAt(m, c)
<1>1. DrawnLines' = DrawnLines
  BY DEF DrawnLines
<1>2. \A m : Replaced(m)' = Replaced(m) /\ Pts(m)' = Pts(m)
  BY DEF Replaced, Pts
<1>3. \A m : Untouched(m)' = Untouched(m)
  BY <1>2 DEF Untouched
<1>4. \A m, c : Chord(m, c)' = Chord(m, c) /\ SegmentAt(m, c)' = SegmentAt(m, c)
  BY <1>2 DEF Chord, SegmentAt
<1> QED BY <1>1, <1>2, <1>3, <1>4

(* The indexes, element by element.                                         *)
LEMMA IndexMembers ==
  ASSUME IndexesAreCurrent
  PROVE  /\ \A x \in inputIndex : \E l \in DrawnLines : \E s \in Untouched(l) : x = <<l, s[1]>>
         /\ \A l \in DrawnLines : \A s \in Untouched(l) : <<l, s[1]>> \in inputIndex
         /\ \A x \in outputIndex : \E l \in DrawnLines : \E r \in Replaced(l) : x = Chord(l, r)
         /\ \A l \in DrawnLines : \A r \in Replaced(l) : Chord(l, r) \in outputIndex
BY DEF IndexesAreCurrent

LEMMA UntouchedSegment ==
  ASSUME NEW l, NEW u \in Untouched(l)
  PROVE  /\ u[1] \in 1..Len(Pts(l)) - 1 /\ u = <<u[1], u[1] + 1>>
         /\ Chord(l, u) = SegmentAt(l, u[1])
<1>1. PICK k \in 1..Len(Pts(l)) - 1 : u = <<k, k + 1>>
  BY DEF Untouched
<1>2. u[1] = k /\ u[2] = k + 1
  BY <1>1
<1> QED BY <1>1, <1>2 DEF Chord, SegmentAt

LEMMA IndexesStay ==
  ASSUME IndexesAreCurrent, drawing' = drawing, distanceTolerance' = distanceTolerance,
         resultSegs' = resultSegs, inputIndex' = inputIndex, outputIndex' = outputIndex
  PROVE  IndexesAreCurrent'
BY SameDrawing DEF IndexesAreCurrent

LEMMA IndexesWhenKept ==
  ASSUME Typed, IndexesAreCurrent, NEW l \in DrawnLines, NEW s \in Nat \X Nat, Adds(l, s), s[2] = s[1] + 1,
         inputIndex' = inputIndex, outputIndex' = outputIndex
  PROVE  IndexesAreCurrent'
<1>1. ~(s[2] > s[1] + 1)
  OBVIOUS
<1>2. /\ DrawnLines' = DrawnLines
      /\ \A m \in DrawnLines : Replaced(m)' = Replaced(m) /\ Untouched(m)' = Untouched(m)
      /\ \A m, c : Chord(m, c)' = Chord(m, c)
  BY <1>1, AddedToDrawing
<1> QED BY <1>2 DEF IndexesAreCurrent

LEMMA IndexesWhenFlattened ==
  ASSUME Typed, IndexesAreCurrent, NEW l \in DrawnLines, NEW s \in Nat \X Nat, Adds(l, s), s[2] > s[1] + 1,
         inputIndex' = inputIndex \ ({l} \X (s[1]..s[2] - 1)),
         outputIndex' = outputIndex \cup {Chord(l, s)}
  PROVE  IndexesAreCurrent'
<1>1. /\ DrawnLines' = DrawnLines
      /\ \A m \in DrawnLines : m # l => Replaced(m)' = Replaced(m) /\ Untouched(m)' = Untouched(m)
      /\ Replaced(l)' = Replaced(l) \cup {s}
      /\ Untouched(l)' = {u \in Untouched(l) : ~InSection(u[1], s)}
      /\ \A m, c : Chord(m, c)' = Chord(m, c)
  BY AddedToDrawing
<1>2. /\ \A x \in inputIndex : \E m \in DrawnLines : \E u \in Untouched(m) : x = <<m, u[1]>>
      /\ \A m \in DrawnLines : \A u \in Untouched(m) : <<m, u[1]>> \in inputIndex
      /\ \A x \in outputIndex : \E m \in DrawnLines : \E r \in Replaced(m) : x = Chord(m, r)
      /\ \A m \in DrawnLines : \A r \in Replaced(m) : Chord(m, r) \in outputIndex
  BY IndexMembers
<1>3. \A m, k : <<m, k>> \in {l} \X (s[1]..s[2] - 1) <=> m = l /\ InSection(k, s)
  BY DEF InSection
<1>4. ASSUME NEW x \in inputIndex'
      PROVE  x \in UNION {{<<m, u[1]>> : u \in Untouched(m)'} : m \in DrawnLines}
  <2>1. x \in inputIndex /\ x \notin {l} \X (s[1]..s[2] - 1)
    OBVIOUS
  <2>2. PICK m \in DrawnLines : \E u \in Untouched(m) : x = <<m, u[1]>>
    BY <1>2, <2>1
  <2>3. PICK u \in Untouched(m) : x = <<m, u[1]>>
    BY <2>2
  <2>4. ~(m = l /\ InSection(u[1], s))
    BY <1>3, <2>1, <2>3
  <2>5. u \in Untouched(m)'
    BY <1>1, <2>4
  <2> QED BY <2>3, <2>5
<1>5. ASSUME NEW m \in DrawnLines, NEW u \in Untouched(m)' PROVE <<m, u[1]>> \in inputIndex'
  <2>1. u \in Untouched(m) /\ ~(m = l /\ InSection(u[1], s))
    BY <1>1
  <2> QED BY <1>2, <1>3, <2>1
<1>6. inputIndex' = UNION {{<<m, u[1]>> : u \in Untouched(m)'} : m \in DrawnLines}
  BY <1>4, <1>5
<1>7. ASSUME NEW x \in outputIndex'
      PROVE  x \in UNION {{Chord(m, r) : r \in Replaced(m)'} : m \in DrawnLines}
  <2>1. x = Chord(l, s) \/ \E m \in DrawnLines : \E r \in Replaced(m) : x = Chord(m, r)
    BY <1>2
  <2>2. \A m \in DrawnLines : Replaced(m) \subseteq Replaced(m)'
    BY <1>1
  <2>3. s \in Replaced(l)'
    BY <1>1
  <2> QED BY <2>1, <2>2, <2>3
<1>8. ASSUME NEW m \in DrawnLines, NEW r \in Replaced(m)' PROVE Chord(m, r) \in outputIndex'
  <2>1. r \in Replaced(m) \/ (m = l /\ r = s)
    BY <1>1
  <2> QED BY <1>2, <2>1
<1>9. outputIndex' = UNION {{Chord(m, r) : r \in Replaced(m)'} : m \in DrawnLines}
  BY <1>7, <1>8
<1> QED BY <1>1, <1>6, <1>9 DEF IndexesAreCurrent

(* A drawing whose lines have no results yet: all is untouched.             *)
LEMMA IndexesBegin ==
  ASSUME Typed, drawing = NoDrawing, NEW lines, lines # NoDrawing, drawing' = lines,
         resultSegs' = [l \in DOMAIN lines |-> <<>>],
         inputIndex' = UNION {{l} \X (1..Len(lines[l].pts) - 1) : l \in DOMAIN lines},
         outputIndex' = outputIndex
  PROVE  IndexesAreCurrent' /\ NoNewCrossing'
<1>1. DrawnLines' = DOMAIN lines /\ outputIndex' = {}
  BY DEF DrawnLines, Typed
<1>2. \A l \in DOMAIN lines : Replaced(l)' = {}
  <2>1. Range(<<>>) = {}
    BY DEF Range
  <2> QED BY <2>1 DEF Replaced
<1>3. \A l \in DOMAIN lines : Untouched(l)' = {<<k, k + 1>> : k \in 1..Len(lines[l].pts) - 1}
  BY <1>2 DEF Untouched, Pts
<1>4. ASSUME NEW l \in DOMAIN lines
      PROVE  {l} \X (1..Len(lines[l].pts) - 1) = {<<l, s[1]>> : s \in Untouched(l)'}
  <2>1. \A k : <<k, k + 1>>[1] = k
    OBVIOUS
  <2> DEFINE K == 1..Len(lines[l].pts) - 1
  <2>2. Untouched(l)' = {<<k, k + 1>> : k \in K}
    BY <1>3
  <2> HIDE DEF K
  <2>3. {<<l, s[1]>> : s \in Untouched(l)'} = {<<l, k>> : k \in K}
    <3>1. ASSUME NEW s \in Untouched(l)' PROVE \E k \in K : <<l, s[1]>> = <<l, k>>
      BY <2>1, <2>2
    <3>2. ASSUME NEW k \in K PROVE \E s \in Untouched(l)' : <<l, k>> = <<l, s[1]>>
      <4>1. <<k, k + 1>> \in Untouched(l)'
        BY <2>2
      <4> QED BY <2>1, <4>1
    <3> HIDE DEF Untouched
    <3> QED BY <3>1, <3>2, Zenon
  <2> QED BY <2>3 DEF K
<1>5. inputIndex' = UNION {{<<l, s[1]>> : s \in Untouched(l)'} : l \in DOMAIN lines}
  BY <1>4
<1>6. UNION {{Chord(l, r)' : r \in Replaced(l)'} : l \in DOMAIN lines} = {}
  BY <1>2
<1>7. IndexesAreCurrent'
  BY <1>1, <1>5, <1>6 DEF IndexesAreCurrent
<1>8. NoNewCrossing'
  BY <1>1, <1>2 DEF NoNewCrossing
<1> QED BY <1>7, <1>8

-----------------------------------------------------------------------------
(* Crossings, as segments are added                                         *)

LEMMA CrossingsStay ==
  ASSUME NoNewCrossing, drawing' = drawing, distanceTolerance' = distanceTolerance,
         resultSegs' = resultSegs
  PROVE  NoNewCrossing'
BY SameDrawing DEF NoNewCrossing

LEMMA CrossingsWhenKept ==
  ASSUME Typed, NoNewCrossing, NEW l \in DrawnLines, NEW s \in Nat \X Nat, Adds(l, s), s[2] = s[1] + 1
  PROVE  NoNewCrossing'
<1>1. ~(s[2] > s[1] + 1)
  OBVIOUS
<1>2. /\ DrawnLines' = DrawnLines
      /\ \A m \in DrawnLines : Replaced(m)' = Replaced(m) /\ Untouched(m)' = Untouched(m)
      /\ \A m, c : Chord(m, c)' = Chord(m, c)
  BY <1>1, AddedToDrawing
<1> QED BY <1>2 DEF NoNewCrossing

(* What replaces a section is looked up in both indexes before it goes in.  *)
LEMMA CrossingsWhenFlattened ==
  ASSUME Typed, IndexesAreCurrent, NoNewCrossing, NEW l \in DrawnLines,
         NEW s \in (1..Len(Pts(l))) \X (1..Len(Pts(l))), Adds(l, s), s[2] > s[1] + 1,
         ~HasBadIntersection(l, s[1], s[2])
  PROVE  NoNewCrossing'
<1> DEFINE new == Chord(l, s)
<1>1. s \in Nat \X Nat /\ s = <<s[1], s[2]>>
  OBVIOUS
<1>2. /\ DrawnLines' = DrawnLines
      /\ \A m \in DrawnLines : m # l => Replaced(m)' = Replaced(m) /\ Untouched(m)' = Untouched(m)
      /\ Replaced(l)' = Replaced(l) \cup {s}
      /\ Untouched(l)' = {u \in Untouched(l) : ~InSection(u[1], s)}
      /\ \A m, c : Chord(m, c)' = Chord(m, c)
  BY <1>1, AddedToDrawing
<1>3. /\ \A m \in DrawnLines : \A u \in Untouched(m) : <<m, u[1]>> \in inputIndex
      /\ \A m \in DrawnLines : \A r \in Replaced(m) : Chord(m, r) \in outputIndex
  BY IndexMembers
<1>4. /\ \A other \in outputIndex : ~HasInteriorIntersection(other, new)
      /\ \A x \in inputIndex : ~HasInteriorIntersection(SegmentAt(x[1], x[2]), new)
                               \/ IsInLineSection(l, s[1], s[2], x)
  BY <1>1 DEF HasBadIntersection, HasBadOutputIntersection, HasBadInputIntersection
<1>5. ~HasInteriorIntersection(new, new)
  <2>1. Pts(l)[s[1]] \in Point /\ Pts(l)[s[2]] \in Point
    BY LineType
  <2> QED BY <2>1, NoSelfCrossing DEF Chord
<1>6. ASSUME NEW m \in DrawnLines, NEW r \in Replaced(m) PROVE ~HasInteriorIntersection(Chord(m, r), new)
  BY <1>3, <1>4
<1>7. ASSUME NEW m \in DrawnLines, NEW u \in Untouched(m)' PROVE ~HasInteriorIntersection(Chord(m, u), new)
  <2>1. u \in Untouched(m) /\ ~(m = l /\ InSection(u[1], s))
    BY <1>2
  <2>2. Chord(m, u) = SegmentAt(m, u[1])
    BY <2>1, UntouchedSegment
  <2>3. <<m, u[1]>> \in inputIndex /\ <<m, u[1]>>[1] = m /\ <<m, u[1]>>[2] = u[1]
    BY <1>3, <2>1
  <2>4. ~IsInLineSection(l, s[1], s[2], <<m, u[1]>>)
    BY <2>1, <2>3 DEF IsInLineSection, InSection
  <2> QED BY <1>4, <2>2, <2>3, <2>4
<1> HIDE DEF new
<1>8. ASSUME NEW k \in DrawnLines, NEW r \in Replaced(k)',
             NEW m \in DrawnLines, NEW u \in Replaced(m)' \cup Untouched(m)'
      PROVE  ~HasInteriorIntersection(Chord(k, r), Chord(m, u))
  <2>1. (k = l /\ r = s) \/ r \in Replaced(k)
    BY <1>2
  <2>2. (m = l /\ u = s) \/ u \in Replaced(m) \/ u \in Untouched(m)'
    BY <1>2
  <2>3. u \in Untouched(m)' => u \in Untouched(m)
    BY <1>2
  <2>4. CASE k = l /\ r = s
    <3>1. ~HasInteriorIntersection(Chord(m, u), new)
      BY <1>5, <1>6, <1>7, <2>2 DEF new
    <3> QED BY <2>4, <3>1, CrossingIsMutual DEF new
  <2>5. CASE r \in Replaced(k)
    <3>1. CASE m = l /\ u = s
      BY <1>6, <2>5, <3>1 DEF new
    <3>2. CASE u \in Replaced(m) \cup Untouched(m)
      BY <2>5, <3>2 DEF NoNewCrossing
    <3> QED BY <2>2, <2>3, <3>1, <3>2
  <2> QED BY <2>1, <2>4, <2>5
<1> QED BY <1>2, <1>8 DEF NoNewCrossing

-----------------------------------------------------------------------------
(* The lines, step by step                                                  *)

LEMMA SameGoals ==
  ASSUME drawing' = drawing, distanceTolerance' = distanceTolerance
  PROVE  /\ \A m : Left(m)' = Left(m) /\ Peucker(m)' = Peucker(m)
         /\ NothingInTheWay' <=> NothingInTheWay
<1>1. DrawnLines' = DrawnLines
  BY DEF DrawnLines
<1>2. \A m : Pts(m)' = Pts(m)
  BY DEF Pts
<1>3. \A m, c : Chord(m, c)' = Chord(m, c) /\ SegmentAt(m, c)' = SegmentAt(m, c)
  BY <1>2 DEF Chord, SegmentAt
<1>4. \A m : Left(m)' = Left(m) /\ Peucker(m)' = Peucker(m)
  BY <1>2 DEF Left, Peucker
<1>5. NothingInTheWay' <=> NothingInTheWay
  BY <1>1, <1>2, <1>3, <1>4 DEF NothingInTheWay
<1> QED BY <1>4, <1>5

(* What Douglas-Peucker leaves of a line.                                   *)
LEMMA GoalOfLine ==
  ASSUME Typed, NEW l \in DrawnLines
  PROVE  /\ Peucker(l) = Left(l)[<<1, Len(Pts(l))>>]
         /\ Peucker(l) \subseteq Int \X Int
         /\ \A i, j \in 1..Len(Pts(l)) : LeftOf(Left(l), Pts(l), distanceTolerance, i, j)
<1>1. Pts(l) \in Seq(Point) /\ 1 \in 1..Len(Pts(l)) /\ Len(Pts(l)) \in 1..Len(Pts(l))
  BY LineType
<1>2. Peucker(l) = Left(l)[<<1, Len(Pts(l))>>]
  BY DEF Peucker, DouglasPeucker, Left
<1>3. Left(l)[<<1, Len(Pts(l))>>] \subseteq (1..Len(Pts(l))) \X (1..Len(Pts(l)))
  BY <1>1, PeuckerType DEF Left
<1>4. \A i, j \in 1..Len(Pts(l)) : LeftOf(Left(l), Pts(l), distanceTolerance, i, j)
  BY <1>1, PeuckerCases DEF Left
<1> QED BY <1>2, <1>3, <1>4

(* The lines that are not in work stay as they are.                         *)
LEMMA OtherLines ==
  ASSUME LinesSound, LinesFollow, drawing' = drawing, distanceTolerance' = distanceTolerance,
         waiting' = waiting, line' = line, NEW m \in DrawnLines, m # line, resultSegs'[m] = resultSegs[m]
  PROVE  SoundLine(m)' /\ FollowedLine(m)'
<1>1. Todo(m)' = Todo(m)
  BY DEF Todo
<1>2. SoundLine(m) /\ FollowedLine(m)
  BY DEF LinesSound, LinesFollow
<1>3. SoundLine(m)'
  BY <1>1, <1>2 DEF SoundLine
<1>4. FollowedLine(m)'
  BY <1>1, <1>2, SameGoals DEF FollowedLine
<1> QED BY <1>3, <1>4

(* The call takes its section.                                              *)
LEMMA LineTakes ==
  ASSUME Typed, LinesSound, LinesFollow, sections # <<>>, waiting' = waiting, line' = line,
         Adds(line, Span(sections[1])), sections' = Tail(sections),
         AllNear(Pts(line), sections[1].i, sections[1].j, distanceTolerance),
         sections[1].j = sections[1].i + 1 \/ ~TooFewPoints(line, sections[1].depth)
  PROVE  LinesSound' /\ LinesFollow'
<1> DEFINE s == sections[1]
           segs == resultSegs[line]
<1>1. /\ line \in DrawnLines /\ line \notin waiting /\ sections \in Seq(Sections)
      /\ Todo(line) = sections /\ s \in Sections
  BY LineInWork
<1>2. /\ Sound(drawing[line], distanceTolerance, segs, sections)
      /\ s.i \in 1..Len(Pts(line)) /\ s.j \in 1..Len(Pts(line)) /\ s.i < s.j
      /\ s.depth \in Nat
  BY SectionInWork
<1>3. /\ drawing[line] \in Lines /\ Pts(line) = drawing[line].pts /\ Len(Pts(line)) \in Nat
      /\ segs \in Seq(Nat \X Nat)
  BY <1>1, LineType
<1>4. Span(s) \in Nat \X Nat
  BY <1>2 DEF Span
<1>5. /\ resultSegs'[line] = Append(segs, Span(s))
      /\ \A m \in DrawnLines : m # line => resultSegs'[m] = resultSegs[m]
  BY <1>1, <1>4, AddedToResult
<1>6. drawing' = drawing /\ distanceTolerance' = distanceTolerance /\ DrawnLines' = DrawnLines
  BY DEF Adds, DrawnLines
<1>7. s.j = s.i + 1 \/ (drawing[line].ring => Len(segs) >= 3 \/ s.depth >= 3)
  <2>1. ASSUME drawing[line].ring, ~TooFewPoints(line, s.depth) PROVE Len(segs) >= 3 \/ s.depth >= 3
    <3>1. MinimumSize(line) = 4
      BY <2>1 DEF MinimumSize
    <3>2. ResultSize(line) >= 4 \/ s.depth + 1 >= 4
      <4>1. ResultSize(line) \in Int
        BY <1>3 DEF ResultSize
      <4> QED BY <1>2, <2>1, <3>1, <4>1 DEF TooFewPoints
    <3>3. ResultSize(line) >= 4 => Len(segs) >= 3
      BY <1>3 DEF ResultSize
    <3> QED BY <1>2, <3>2, <3>3
  <2> QED BY <2>1
<1>8. Sound(drawing[line], distanceTolerance, Append(segs, Span(s)), Tail(sections))
  <2>1. AllNear(drawing[line].pts, s.i, s.j, distanceTolerance)
    BY <1>3
  <2> QED BY <1>1, <1>2, <1>3, <1>7, <2>1, SoundTake
<1>9. Left(line)[Span(s)] = {Span(s)}
  <2>1. LeftOf(Left(line), Pts(line), distanceTolerance, s.i, s.j)
    BY <1>1, <1>2, GoalOfLine
  <2> QED BY <2>1 DEF LeftOf, Span
<1>10. /\ Follows(Left(line), Peucker(line), Append(segs, Span(s)), Tail(sections))
       /\ NothingInTheWay => Equals(Left(line), Peucker(line), Append(segs, Span(s)), Tail(sections))
  <2>1. /\ Follows(Left(line), Peucker(line), segs, sections)
        /\ NothingInTheWay => Equals(Left(line), Peucker(line), segs, sections)
    BY <1>1 DEF LinesFollow, FollowedLine
  <2> QED BY <1>1, <1>3, <1>9, <2>1, FollowsTake
<1> HIDE DEF s, segs
<1>11. ASSUME NEW m \in DrawnLines PROVE SoundLine(m)' /\ FollowedLine(m)'
  <2>1. CASE m # line
    BY <1>5, <1>6, <2>1, OtherLines
  <2>2. CASE m = line
    <3>1. Todo(m)' = Tail(sections) /\ m \notin waiting'
      BY <1>1, <2>2 DEF Todo
    <3>2. SoundLine(m)'
      BY <1>5, <1>6, <1>8, <2>2, <3>1 DEF SoundLine
    <3>3. FollowedLine(m)'
      <4>1. Left(m)' = Left(m) /\ Peucker(m)' = Peucker(m) /\ (NothingInTheWay' <=> NothingInTheWay)
        BY <1>6, SameGoals
      <4> QED BY <1>5, <1>10, <2>2, <3>1, <4>1 DEF FollowedLine
    <3> QED BY <3>2, <3>3
  <2> QED BY <2>1, <2>2
<1> QED BY <1>6, <1>11 DEF LinesSound, LinesFollow

(* With nothing in the way, only a section that Douglas-Peucker parts is    *)
(* refused: it is too far from its points.                                  *)
LEMMA RefusedFar ==
  ASSUME Typed, IndexesAreCurrent, LinesSound, LinesFollow, sections # <<>>, NothingInTheWay,
         ~IsValidToSimplify(line, sections[1])
  PROVE  ~AllNear(Pts(line), sections[1].i, sections[1].j, distanceTolerance)
<1> SUFFICES ASSUME AllNear(Pts(line), sections[1].i, sections[1].j, distanceTolerance) PROVE FALSE
  OBVIOUS
<1> DEFINE s == sections[1]
           seg == Chord(line, Span(s))
<1>1. /\ line \in DrawnLines /\ line \notin waiting /\ sections \in Seq(Sections)
      /\ Todo(line) = sections
  BY LineInWork
<1>2. /\ s.i \in 1..Len(Pts(line)) /\ s.j \in 1..Len(Pts(line)) /\ s.depth \in Nat /\ s.depth >= 1
  BY SectionInWork
<1>3. ~TooFewPoints(line, s.depth)
  <2>1. MinimumSize(line) = 2
    BY <1>1 DEF NothingInTheWay, MinimumSize
  <2> QED BY <1>2, <2>1 DEF TooFewPoints
<1>4. Span(s) \in Peucker(line)
  <2>1. Left(line)[Span(s)] = {Span(s)}
    <3>1. LeftOf(Left(line), Pts(line), distanceTolerance, s.i, s.j)
      BY <1>1, <1>2, GoalOfLine
    <3> QED BY <3>1 DEF LeftOf, Span
  <2>2. Equals(Left(line), Peucker(line), resultSegs[line], sections)
    BY <1>1 DEF LinesFollow, FollowedLine
  <2>3. s \in Range(sections)
    BY <1>1, CallsLeft
  <2> HIDE DEF s
  <2> QED BY <2>1, <2>2, <2>3 DEF Equals
<1>5. /\ \A m \in DrawnLines : \A r \in Peucker(m) : ~HasInteriorIntersection(seg, Chord(m, r))
      /\ \A m \in DrawnLines : \A k \in 1..Len(Pts(m)) - 1 :
           (m = line /\ InSection(k, Span(s))) \/ ~HasInteriorIntersection(seg, SegmentAt(m, k))
  BY <1>1, <1>4 DEF NothingInTheWay
<1>6. \A m \in DrawnLines : Replaced(m) \subseteq Peucker(m)
  <2> SUFFICES ASSUME NEW m \in DrawnLines, NEW r \in Range(resultSegs[m]) PROVE r \in Peucker(m)
    BY DEF Replaced
  <2>1. m \notin waiting
    BY ResultOnLine
  <2>2. Equals(Left(m), Peucker(m), resultSegs[m], Todo(m))
    BY <2>1 DEF LinesFollow, FollowedLine
  <2> QED BY <2>2 DEF Equals
<1>7. Span(s) = <<s.i, s.j>> /\ Span(s)[1] = s.i /\ Span(s)[2] = s.j
  BY DEF Span
<1> HIDE DEF s, seg
<1>8. ~HasBadOutputIntersection(seg)
  <2> SUFFICES ASSUME NEW other \in outputIndex PROVE ~HasInteriorIntersection(other, seg)
    BY DEF HasBadOutputIntersection
  <2>1. PICK m \in DrawnLines : \E r \in Replaced(m) : other = Chord(m, r)
    BY IndexMembers
  <2>2. PICK r \in Replaced(m) : other = Chord(m, r)
    BY <2>1
  <2>3. ~HasInteriorIntersection(seg, other)
    BY <1>5, <1>6, <2>2
  <2> QED BY <2>3, CrossingIsMutual
<1>9. ~HasBadInputIntersection(line, s.i, s.j, seg)
  <2> SUFFICES ASSUME NEW x \in inputIndex, HasInteriorIntersection(SegmentAt(x[1], x[2]), seg)
               PROVE  IsInLineSection(line, s.i, s.j, x)
    BY DEF HasBadInputIntersection
  <2>1. PICK m \in DrawnLines : \E u \in Untouched(m) : x = <<m, u[1]>>
    BY IndexMembers
  <2>2. PICK u \in Untouched(m) : x = <<m, u[1]>>
    BY <2>1
  <2>3. x[1] = m /\ x[2] = u[1] /\ u[1] \in 1..Len(Pts(m)) - 1
    BY <2>2, UntouchedSegment
  <2>4. HasInteriorIntersection(seg, SegmentAt(m, u[1]))
    BY <2>3, CrossingIsMutual
  <2>5. m = line /\ InSection(u[1], Span(s))
    BY <1>5, <2>3, <2>4
  <2> QED BY <1>7, <2>3, <2>5 DEF IsInLineSection, InSection
<1>10. ~HasBadIntersection(line, s.i, s.j)
  BY <1>7, <1>8, <1>9 DEF HasBadIntersection, seg
<1> QED BY <1>3, <1>10 DEF IsValidToSimplify, s

(* The call parts its section.                                              *)
LEMMA LineParts ==
  ASSUME Typed, IndexesAreCurrent, LinesSound, LinesFollow, sections # <<>>,
         drawing' = drawing, distanceTolerance' = distanceTolerance, waiting' = waiting, line' = line,
         resultSegs' = resultSegs, sections[1].j > sections[1].i + 1,
         ~IsValidToSimplify(line, sections[1]),
         sections' = Parted(sections, FindFurthestPoint(Pts(line), sections[1].i, sections[1].j))
  PROVE  LinesSound' /\ LinesFollow' /\ sections' \in Seq(Sections)
<1> DEFINE s == sections[1]
           k == FindFurthestPoint(Pts(line), s.i, s.j)
           segs == resultSegs[line]
<1>1. /\ line \in DrawnLines /\ line \notin waiting /\ sections \in Seq(Sections)
      /\ Todo(line) = sections /\ s \in Sections
  BY LineInWork
<1>2. /\ Sound(drawing[line], distanceTolerance, segs, sections)
      /\ s.i \in 1..Len(Pts(line)) /\ s.j \in 1..Len(Pts(line)) /\ s.i < s.j
  BY SectionInWork
<1>3. /\ drawing[line] \in Lines /\ Pts(line) \in Seq(Point) /\ Len(Pts(line)) \in Nat
      /\ segs \in Seq(Nat \X Nat)
  BY <1>1, LineType
<1>4. k \in s.i + 1..s.j - 1
  <2>1. s.i + 1 <= s.j - 1
    BY <1>2
  <2> QED BY <1>2, <1>3, <2>1, Furthest
<1>5. Sound(drawing[line], distanceTolerance, segs, Parted(sections, k))
  <2> HIDE DEF k
  <2> QED BY <1>1, <1>2, <1>3, <1>4, SoundPart
<1>6. /\ LeftOf(Left(line), Pts(line), distanceTolerance, s.i, s.j)
      /\ Peucker(line) \subseteq Int \X Int
  BY <1>1, <1>2, GoalOfLine
<1>7. IF AllNear(Pts(line), s.i, s.j, distanceTolerance) THEN Left(line)[Span(s)] = {Span(s)}
      ELSE Left(line)[Span(s)] = Left(line)[<<s.i, k>>] \cup Left(line)[<<k, s.j>>]
  <2>1. Left(line)[Span(s)] = Left(line)[<<s.i, s.j>>]
    BY DEF Span
  <2>2. s.j # s.i + 1
    BY <1>2
  <2>3. IF s.j = s.i + 1 \/ AllNear(Pts(line), s.i, s.j, distanceTolerance)
        THEN Left(line)[<<s.i, s.j>>] = {<<s.i, s.j>>}
        ELSE Left(line)[<<s.i, s.j>>] = Left(line)[<<s.i, k>>] \cup Left(line)[<<k, s.j>>]
    BY <1>6 DEF LeftOf
  <2> HIDE DEF k
  <2> QED BY <2>1, <2>2, <2>3 DEF Span
<1>8. NothingInTheWay => Left(line)[Span(s)] = Left(line)[<<s.i, k>>] \cup Left(line)[<<k, s.j>>]
  BY <1>7, RefusedFar
<1>9. /\ Follows(Left(line), Peucker(line), segs, Parted(sections, k))
      /\ NothingInTheWay => Equals(Left(line), Peucker(line), segs, Parted(sections, k))
  <2>1. /\ Follows(Left(line), Peucker(line), segs, sections)
        /\ NothingInTheWay => Equals(Left(line), Peucker(line), segs, sections)
    BY <1>1 DEF LinesFollow, FollowedLine
  <2> HIDE DEF k
  <2>2. /\ Follows(Left(line), Peucker(line), segs, sections) =>
             Follows(Left(line), Peucker(line), segs, Parted(sections, k))
        /\ Equals(Left(line), Peucker(line), segs, sections)
           /\ Left(line)[Span(s)] = Left(line)[<<s.i, k>>] \cup Left(line)[<<k, s.j>>]
             => Equals(Left(line), Peucker(line), segs, Parted(sections, k))
    BY <1>1, <1>4, <1>6, <1>7, FollowsPart
  <2> QED BY <1>8, <2>1, <2>2
<1>10. Parted(sections, k) \in Seq(Sections)
  <2>1. k \in Nat
    BY <1>2, <1>4
  <2> HIDE DEF k
  <2> QED BY <1>1, <2>1, PartedCall
<1>11. sections' = Parted(sections, k) /\ DrawnLines' = DrawnLines
  BY DEF DrawnLines
<1> HIDE DEF s, k, segs
<1>12. ASSUME NEW m \in DrawnLines PROVE SoundLine(m)' /\ FollowedLine(m)'
  <2>1. CASE m # line
    BY <2>1, OtherLines
  <2>2. CASE m = line
    <3>1. Todo(m)' = Parted(sections, k) /\ m \notin waiting' /\ resultSegs'[m] = segs
      BY <1>1, <1>11, <2>2 DEF Todo, segs
    <3>2. SoundLine(m)'
      BY <1>5, <2>2, <3>1 DEF SoundLine
    <3>3. FollowedLine(m)'
      <4>1. Left(m)' = Left(m) /\ Peucker(m)' = Peucker(m) /\ (NothingInTheWay' <=> NothingInTheWay)
        BY SameGoals
      <4> QED BY <1>9, <2>2, <3>1, <4>1 DEF FollowedLine
    <3> QED BY <3>2, <3>3
  <2> QED BY <2>1, <2>2
<1> QED BY <1>10, <1>11, <1>12 DEF LinesSound, LinesFollow

-----------------------------------------------------------------------------
(* The actions                                                              *)

LEMMA SInit == SimplifierInit => SInv
<1> SUFFICES ASSUME SimplifierInit PROVE SInv
  OBVIOUS
<1>1. DrawnLines = {}
  BY DEF SimplifierInit, DrawnLines
<1>2. Typed
  BY DEF SimplifierInit, Typed
<1>3. IndexesAreCurrent
  BY <1>1 DEF SimplifierInit, IndexesAreCurrent
<1> QED BY <1>1, <1>2, <1>3 DEF SInv, NoNewCrossing, LinesSound, LinesFollow

LEMMA SSimplify ==
  ASSUME SInv, NEW lines \in Drawings, NEW tolerance \in Tolerances, Simplify(lines, tolerance)
  PROVE  SInv'
<1>1. lines # NoDrawing /\ lines \in Seq(Lines) /\ tolerance \in Int
  BY DrawingsAssumption DEF Lines
<1>2. drawing = NoDrawing /\ sections' = <<>> /\ waiting' = DOMAIN lines /\ drawing' = lines
  BY DEF Simplify, SInv, Typed
<1>3. resultSegs' = [l \in DOMAIN lines |-> <<>>]
  BY DEF Simplify
<1>4. Typed'
  <2>1. <<>> \in Seq(Nat \X Nat) /\ <<>> \in Seq(Sections)
    OBVIOUS
  <2>2. resultSegs' \in [DOMAIN lines -> Seq(Nat \X Nat)]
    BY <1>3, <2>1
  <2> QED BY <1>1, <1>2, <2>1, <2>2 DEF Typed, Simplify
<1>5. IndexesAreCurrent' /\ NoNewCrossing'
  BY <1>1, <1>2, IndexesBegin DEF Simplify, SInv
<1>6. DrawnLines' = DOMAIN lines
  BY <1>1, <1>2 DEF DrawnLines
<1>7. LinesSound'
  BY <1>2, <1>3, <1>6 DEF LinesSound, SoundLine
<1>8. LinesFollow'
  BY <1>2, <1>3, <1>6 DEF LinesFollow, FollowedLine
<1> QED BY <1>4, <1>5, <1>7, <1>8 DEF SInv

LEMMA SSimplifyLine ==
  ASSUME SInv, NEW l \in waiting, SimplifyLine(l)
  PROVE  SInv'
<1> DEFINE root == [i |-> 1, j |-> Len(Pts(l)), depth |-> 1]
<1>1. /\ sections = <<>> /\ waiting' = waiting \ {l} /\ line' = l /\ sections' = <<root>>
      /\ drawing' = drawing /\ distanceTolerance' = distanceTolerance /\ resultSegs' = resultSegs
      /\ inputIndex' = inputIndex /\ outputIndex' = outputIndex
  BY DEF SimplifyLine
<1>2. Typed /\ drawing # NoDrawing /\ waiting \subseteq DOMAIN drawing /\ l \in DrawnLines
  BY DEF SInv, Typed, DrawnLines
<1>3. /\ drawing[l] \in Lines /\ Pts(l) = drawing[l].pts /\ Len(Pts(l)) \in Nat /\ Len(Pts(l)) >= 2
  BY <1>2, LineType
<1>4. Typed'
  <2>1. root \in Sections
    BY <1>3 DEF Sections
  <2> HIDE DEF root
  <2>2. <<root>> \in Seq(Sections)
    BY <2>1
  <2> QED BY <1>1, <1>2, <2>2 DEF Typed
<1>5. IndexesAreCurrent' /\ NoNewCrossing'
  BY <1>1, IndexesStay, CrossingsStay DEF SInv
<1>6. Sound(drawing[l], distanceTolerance, <<>>, <<root>>)
  BY <1>3, SoundBegin
<1>7. Follows(Left(l), Peucker(l), <<>>, <<root>>) /\ Equals(Left(l), Peucker(l), <<>>, <<root>>)
  BY <1>2, GoalOfLine, FollowsBegin
<1> HIDE DEF root
<1>8. ASSUME NEW m \in DrawnLines PROVE SoundLine(m)' /\ FollowedLine(m)'
  <2>1. SoundLine(m) /\ FollowedLine(m)
    BY DEF SInv, LinesSound, LinesFollow
  <2>2. Left(m)' = Left(m) /\ Peucker(m)' = Peucker(m) /\ (NothingInTheWay' <=> NothingInTheWay)
    BY <1>1, SameGoals
  <2>3. CASE m = l
    <3>1. Todo(m)' = <<root>> /\ resultSegs'[m] = <<>> /\ m \notin waiting'
      BY <1>1, <2>1, <2>3 DEF Todo, SoundLine
    <3>2. SoundLine(m)'
      BY <1>1, <1>6, <2>3, <3>1 DEF SoundLine
    <3>3. FollowedLine(m)'
      BY <1>7, <2>2, <2>3, <3>1 DEF FollowedLine
    <3> QED BY <3>2, <3>3
  <2>4. CASE m # l
    <3>1. Todo(m)' = Todo(m) /\ (m \in waiting' <=> m \in waiting)
      BY <1>1, <2>4 DEF Todo
    <3>2. SoundLine(m)'
      BY <1>1, <2>1, <3>1 DEF SoundLine
    <3>3. FollowedLine(m)'
      BY <1>1, <2>1, <2>2, <3>1 DEF FollowedLine
    <3> QED BY <3>2, <3>3
  <2> QED BY <2>3, <2>4
<1>9. LinesSound' /\ LinesFollow'
  <2>1. DrawnLines' = DrawnLines
    BY <1>1 DEF DrawnLines
  <2> QED BY <1>8, <2>1 DEF LinesSound, LinesFollow
<1> QED BY <1>4, <1>5, <1>9 DEF SInv

(* Typed, when the call in work takes its section.                          *)
LEMMA TypedTake ==
  ASSUME Typed, sections # <<>>, NEW s \in Nat \X Nat, Adds(line, s), sections' = Tail(sections),
         waiting' = waiting, line' = line
  PROVE  Typed'
<1>1. /\ line \in DrawnLines /\ line \notin waiting /\ Tail(sections) \in Seq(Sections)
  BY LineInWork
<1>2. drawing # NoDrawing /\ DrawnLines = DOMAIN drawing
  BY <1>1, LineType
<1>3. resultSegs' \in [DOMAIN drawing -> Seq(Nat \X Nat)]
  BY <1>1, AddedToResult
<1> QED BY <1>1, <1>2, <1>3 DEF Typed, Adds

LEMMA SKeepSegment ==
  ASSUME SInv, KeepSegment
  PROVE  SInv'
<1> DEFINE s == sections[1]
<1>1. Typed /\ sections # <<>>
  BY DEF SInv, KeepSegment
<1>2. /\ line \in DrawnLines /\ Head(sections) = s
  BY <1>1, LineInWork
<1>3. s.i \in 1..Len(Pts(line)) /\ s.j \in 1..Len(Pts(line))
  BY <1>1, SectionInWork DEF SInv
<1>4. Span(s) \in Nat \X Nat /\ Span(s) = <<s.i, s.j>> /\ Span(s)[1] = s.i /\ Span(s)[2] = s.j
  BY <1>3 DEF Span
<1> HIDE DEF s
<1>5. /\ s.j = s.i + 1 /\ Adds(line, Span(s)) /\ sections' = Tail(sections)
      /\ waiting' = waiting /\ line' = line /\ inputIndex' = inputIndex /\ outputIndex' = outputIndex
  BY <1>2, <1>4 DEF KeepSegment, AddToResult, Adds
<1>6. Typed'
  BY <1>1, <1>4, <1>5, TypedTake
<1>7. IndexesAreCurrent'
  BY <1>2, <1>4, <1>5, IndexesWhenKept DEF SInv
<1>8. NoNewCrossing'
  BY <1>2, <1>4, <1>5, CrossingsWhenKept DEF SInv
<1>9. LinesSound' /\ LinesFollow'
  <2>1. AllNear(Pts(line), s.i, s.j, distanceTolerance)
    <3>1. s.i + 1..s.j - 1 = {}
      BY <1>3, <1>5
    <3> QED BY <3>1 DEF AllNear
  <2> QED BY <1>1, <1>5, <2>1, LineTakes DEF SInv, s
<1> QED BY <1>6, <1>7, <1>8, <1>9 DEF SInv

LEMMA SFlatten ==
  ASSUME SInv, Flatten
  PROVE  SInv'
<1> DEFINE s == sections[1]
<1>1. Typed /\ sections # <<>>
  BY DEF SInv, Flatten
<1>2. /\ line \in DrawnLines /\ Head(sections) = s
  BY <1>1, LineInWork
<1>3. s.i \in 1..Len(Pts(line)) /\ s.j \in 1..Len(Pts(line))
  BY <1>1, SectionInWork DEF SInv
<1>4. /\ Span(s) \in Nat \X Nat /\ Span(s) \in (1..Len(Pts(line))) \X (1..Len(Pts(line)))
      /\ Span(s) = <<s.i, s.j>> /\ Span(s)[1] = s.i /\ Span(s)[2] = s.j
  BY <1>3 DEF Span
<1> HIDE DEF s
<1>5. /\ s.j > s.i + 1 /\ IsValidToSimplify(line, s)
      /\ Adds(line, Span(s)) /\ sections' = Tail(sections)
      /\ waiting' = waiting /\ line' = line
      /\ inputIndex' = inputIndex \ ({line} \X (Span(s)[1]..Span(s)[2] - 1))
      /\ outputIndex' = outputIndex \cup {Chord(line, Span(s))}
  BY <1>2, <1>4 DEF Flatten, AddToResult, Adds
<1>6. /\ ~TooFewPoints(line, s.depth) /\ AllNear(Pts(line), s.i, s.j, distanceTolerance)
      /\ ~HasBadIntersection(line, s.i, s.j)
  BY <1>5 DEF IsValidToSimplify
<1>7. Typed'
  BY <1>1, <1>4, <1>5, TypedTake
<1>8. IndexesAreCurrent'
  BY <1>2, <1>4, <1>5, IndexesWhenFlattened DEF SInv
<1>9. NoNewCrossing'
  BY <1>2, <1>4, <1>5, <1>6, CrossingsWhenFlattened DEF SInv
<1>10. LinesSound' /\ LinesFollow'
  BY <1>1, <1>5, <1>6, LineTakes DEF SInv, s
<1> QED BY <1>7, <1>8, <1>9, <1>10 DEF SInv

LEMMA SSplitSection ==
  ASSUME SInv, SplitSection
  PROVE  SInv'
<1>1. Typed /\ sections # <<>>
  BY DEF SInv, SplitSection
<1>2. line \in DrawnLines /\ line \notin waiting /\ Head(sections) = sections[1]
  BY <1>1, LineInWork
<1>3. /\ drawing' = drawing /\ distanceTolerance' = distanceTolerance /\ waiting' = waiting /\ line' = line
      /\ resultSegs' = resultSegs /\ inputIndex' = inputIndex /\ outputIndex' = outputIndex
      /\ sections[1].j > sections[1].i + 1
      /\ ~IsValidToSimplify(line, sections[1])
      /\ sections' = Parted(sections, FindFurthestPoint(Pts(line), sections[1].i, sections[1].j))
  BY <1>2 DEF SplitSection, Parted
<1>4. LinesSound' /\ LinesFollow' /\ sections' \in Seq(Sections)
  BY <1>1, <1>3, LineParts DEF SInv
<1>5. Typed'
  BY <1>1, <1>2, <1>3, <1>4 DEF Typed, DrawnLines
<1>6. IndexesAreCurrent' /\ NoNewCrossing'
  BY <1>3, IndexesStay, CrossingsStay DEF SInv
<1> QED BY <1>4, <1>5, <1>6 DEF SInv

LEMMA SStep == SInv /\ [SimplifierNext]_simplifierVars => SInv'
<1> SUFFICES ASSUME SInv, [SimplifierNext]_simplifierVars PROVE SInv'
  OBVIOUS
<1>1. CASE \E lines \in Drawings, tolerance \in Tolerances : Simplify(lines, tolerance)
  BY <1>1, SSimplify
<1>2. CASE \E l \in waiting : SimplifyLine(l)
  BY <1>2, SSimplifyLine
<1>3. CASE KeepSegment
  BY <1>3, SKeepSegment
<1>4. CASE Flatten
  BY <1>4, SFlatten
<1>5. CASE SplitSection
  BY <1>5, SSplitSection
<1>6. CASE UNCHANGED simplifierVars
  <2>1. /\ drawing' = drawing /\ distanceTolerance' = distanceTolerance /\ waiting' = waiting
        /\ line' = line /\ sections' = sections /\ resultSegs' = resultSegs
        /\ inputIndex' = inputIndex /\ outputIndex' = outputIndex
    BY <1>6 DEF simplifierVars
  <2>2. Typed'
    BY <2>1 DEF SInv, Typed
  <2>3. IndexesAreCurrent' /\ NoNewCrossing'
    BY <2>1, IndexesStay, CrossingsStay DEF SInv
  <2>4. DrawnLines' = DrawnLines /\ \A m : Todo(m)' = Todo(m)
    BY <2>1 DEF DrawnLines, Todo
  <2>5. LinesSound'
    BY <2>1, <2>4 DEF SInv, LinesSound, SoundLine
  <2>6. LinesFollow'
    BY <2>1, <2>4, SameGoals DEF SInv, LinesFollow, FollowedLine
  <2> QED BY <2>2, <2>3, <2>5, <2>6 DEF SInv
<1> QED BY <1>1, <1>2, <1>3, <1>4, <1>5, <1>6 DEF SimplifierNext

-----------------------------------------------------------------------------
(* What the invariant says                                                  *)

LEMMA SKeepsShape == SInv => LinesKeepShape
<1> SUFFICES ASSUME SInv, NEW l \in DrawnLines
             PROVE  /\ \A k \in DOMAIN resultSegs[l] :
                         LET s == resultSegs[l][k] IN
                         /\ s[1] = IF k = 1 THEN 1 ELSE resultSegs[l][k - 1][2]
                         /\ AllNear(Pts(l), s[1], s[2], distanceTolerance)
                    /\ Simplified =>
                         /\ Last(resultSegs[l])[2] = Len(Pts(l))
                         /\ drawing[l].ring => Len(resultSegs[l]) >= 3
  BY DEF LinesKeepShape
<1>1. /\ drawing[l] \in Lines /\ Pts(l) = drawing[l].pts
      /\ Len(Pts(l)) >= IF drawing[l].ring THEN 4 ELSE 2
      /\ resultSegs[l] \in Seq(Nat \X Nat)
  BY LineType DEF SInv
<1>2. IF l \in waiting THEN resultSegs[l] = <<>>
      ELSE Sound(drawing[l], distanceTolerance, resultSegs[l], Todo(l))
  BY DEF SInv, LinesSound, SoundLine
<1>3. Chain(Pts(l), distanceTolerance, resultSegs[l])
  <2>1. Chain(Pts(l), distanceTolerance, <<>>)
    BY DEF Chain
  <2> QED BY <1>1, <1>2, <2>1 DEF Sound
<1>4. ASSUME NEW k \in DOMAIN resultSegs[l]
      PROVE  /\ resultSegs[l][k][1] = IF k = 1 THEN 1 ELSE resultSegs[l][k - 1][2]
             /\ AllNear(Pts(l), resultSegs[l][k][1], resultSegs[l][k][2], distanceTolerance)
  <2>1. k \in 1..Len(resultSegs[l])
    BY <1>1
  <2> QED BY <1>3, <2>1 DEF Chain
<1>5. ASSUME Simplified
      PROVE  /\ Last(resultSegs[l])[2] = Len(Pts(l))
             /\ drawing[l].ring => Len(resultSegs[l]) >= 3
  <2>1. l \notin waiting /\ Todo(l) = <<>>
    BY <1>5 DEF Simplified, Todo
  <2>2. /\ resultSegs[l][Len(resultSegs[l])][2] = Len(Pts(l))
        /\ drawing[l].ring => Len(resultSegs[l]) >= 3
    BY <1>1, <1>2, <2>1, SoundEnd
  <2> QED BY <2>2 DEF Last
<1> QED BY <1>4, <1>5

LEMMA SRefines == SInv => RefinesDouglasPeucker
<1> SUFFICES ASSUME SInv, Simplified, NEW l \in DrawnLines
             PROVE  /\ \A s \in Range(resultSegs[l]) : Covered(Peucker(l), s)
                    /\ NothingInTheWay => Range(resultSegs[l]) = Peucker(l)
  BY DEF RefinesDouglasPeucker, Covered
<1>1. l \notin waiting /\ Todo(l) = <<>>
  BY DEF Simplified, Todo
<1>2. /\ Follows(Left(l), Peucker(l), resultSegs[l], <<>>)
      /\ NothingInTheWay => Equals(Left(l), Peucker(l), resultSegs[l], <<>>)
  BY <1>1 DEF SInv, LinesFollow, FollowedLine
<1> QED BY <1>2, FollowsEnd

THEOREM SimplificationInvariant == SimplifierSpec => []SInv
<1>1. SimplifierInit => SInv
  BY SInit
<1>2. SInv /\ [SimplifierNext]_simplifierVars => SInv'
  BY SStep
<1> QED BY <1>1, <1>2, PTL DEF SimplifierSpec

(* Of any lines and rings, whatever their order and the tolerance, the      *)
(* simplifier never makes a segment that crosses what stands of any line,   *)
(* keeps ends, the tolerance and four points of a ring, never takes a point *)
(* Douglas-Peucker keeps, and where nothing is in the way does as that does. *)
THEOREM SafelySimplified == SimplifierSpec => []SimplifiedSafely
<1>1. SInv => SimplifierTypeOK
  BY DEF SInv, Typed, SimplifierTypeOK, DrawnLines
<1>2. SInv => SimplifiedSafely
  BY <1>1, SKeepsShape, SRefines DEF SInv, SimplifiedSafely
<1> QED BY <1>2, SimplificationInvariant, PTL
=============================================================================
