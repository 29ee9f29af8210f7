------------------------------- MODULE BinaryOp -------------------------------
(***************************************************************************)
(* geom::BinaryOp, as the C interface calls it for intersections, unions    *)
(* and differences: the operation is tried on the operands as they are,     *)
(* with their common bits removed, and snapped to each other, until it does *)
(* not end in a TopologyException.  The operation itself is not known: it    *)
(* may give a geometry, a TopologyException or another exception.  Its       *)
(* result is represented by the points of the operands it was made from.    *)
(*                                                                         *)
(* An operand is one line or ring, [ring |-> BOOLEAN, pts |-> points], its  *)
(* coordinates in units of 1/SCALE.                                         *)
(***************************************************************************)
EXTENDS Plane, FiniteSetsExt

CONSTANTS
  Operands,    \* the pairs of operands a call may get
  SCALE,       \* the scale of the precision model
  NoResult

Points == Int \X Int
Shapes == [ring : BOOLEAN, pts : Seq(Points)]

IsClosed(pts) == Len(pts) < 2 \/ pts[1] = pts[Len(pts)]

\* Operands have points, and the constructor of a ring asks it to be closed.
ASSUME OperandsAssumption ==
  /\ Operands \subseteq Shapes \X Shapes
  /\ \A gs \in Operands : \A k \in 1..2 :
       gs[k].pts # <<>> /\ (gs[k].ring => IsClosed(gs[k].pts))
ASSUME ScaleAssumption == SCALE \in Nat \ {0}
ASSUME NoResultAssumption ==
  NoResult \notin [by : {"original", "commonbits", "snapping"}, from : [1..2 -> Shapes]]

VARIABLES
  operands,       \* <<g0, g1>>
  fixed,          \* is the precision model FIXED?
  shiftsWrap,     \* how the processor shifts an int by 32 or more
  attempt,        \* "no", "original", "commonbits", "snapping", "fail" or "done"
  commonCoord,    \* of the CommonBitsRemover
  ret,
  origException,  \* the try that raised it
  thrown          \* the kind and the try of the exception that gets out

binaryVars ==
  <<operands, fixed, shiftsWrap, attempt, commonCoord, ret, origException, thrown>>

Origin == <<0, 0>>

BinaryInit ==
  /\ operands = NoResult
  /\ fixed = FALSE
  /\ shiftsWrap = FALSE
  /\ attempt = "no"
  /\ commonCoord = Origin
  /\ ret = NoResult
  /\ origException = "none"
  /\ thrown = <<>>

-----------------------------------------------------------------------------
(* precision::LineStringSnapper: move the vertices of a line to nearby     *)
(* points of another geometry, then insert the points that lie near one of  *)
(* its segments.  Points are pairs of integers, in units of the precision   *)
(* model's grid.  The tolerance of a call is the lesser of its operands':   *)
(* a billionth of the lesser side of the envelope, and for a FIXED model at  *)
(* least 2/1.415 units, a little less than the diagonal of a cell.           *)

\* The envelope has a side of length 0.
IsFlat(g) == \E axis \in {1, 2} : \A p, q \in Range(g.pts) : p[axis] = q[axis]

(* Closer than the tolerance, for the squared distance num/den.  Between    *)
(* points of the grid, 2/1.415 and the square root of 2 tell alike, and a     *)
(* billionth of an extent is less than any distance but 0; the tolerance of  *)
(* a flat operand is 0, and nothing is closer than that.                     *)
Within(num, den) ==
  IF fixed THEN num < 2 * den ELSE num = 0 /\ ~IsFlat(operands[1]) /\ ~IsFlat(operands[2])

\* findSnapForVertex: the first snap point that equals pt or is near it; an
\* equal one, like none, leaves the vertex where it is.
FindSnapForVertex(pt, snapPts) ==
  LET near == {k \in DOMAIN snapPts :
                 snapPts[k] = pt \/ Within(Dist2(pt, snapPts[k]), 1)} IN
  IF near = {} THEN pt ELSE snapPts[Min(near)]

(* snapVertices: one vertex after the other; the first of a ring takes the  *)
(* last along, which is then visited in its turn.                           *)
SnapVertices(pts, snapPts) ==
  LET snapped(pt) == FindSnapForVertex(pt, snapPts)
      first == snapped(pts[1])
      n == Len(pts)
      last == IF IsClosed(pts) THEN first ELSE pts[n]
  IN [k \in 1..n |-> IF k = 1 THEN first
                     ELSE IF k = n THEN snapped(last) ELSE snapped(pts[k])]

(* findSegmentToSnap: the closest of the segments within the tolerance, the *)
(* first of several; none when the point already is a vertex.               *)
SegmentsToSnap(p, pts) ==
  LET d == [k \in 1..Len(pts) - 1 |-> SegmentDist2(p, pts[k], pts[k + 1])]
      near == {k \in DOMAIN d : Within(d[k][1], d[k][2])}
  IN IF p \in Range(pts) THEN {}
     ELSE {k \in near : \A j \in near : ~Closer(d[j], d[k]) /\ (j < k => Closer(d[k], d[j]))}

(* Fault: the point goes before the first point of the segment.             *)
SnapBefore(pts, p) ==
  LET match == SegmentsToSnap(p, pts) IN
  IF match = {} THEN pts ELSE InsertAt(pts, Min(match), p)

SnapSegment(pts, p) ==
  LET match == SegmentsToSnap(p, pts) IN
  IF match = {} THEN pts ELSE InsertAt(pts, Min(match) + 1, p)

\* snapSegments: one snap point after the other.
SnapSegments(pts, snapPts) ==
  LET snapped[k \in 0..Len(snapPts)] ==
        IF k = 0 THEN pts ELSE SnapSegment(snapped[k - 1], snapPts[k])
  IN snapped[Len(snapPts)]

SnapTo(pts, snapPts) ==
  SnapSegments(SnapVertices(pts, snapPts), snapPts)

\* The distinct points, in the order they come.
UniquePoints(pts) ==
  LET unique[k \in 0..Len(pts)] ==
        IF k = 0 THEN <<>>
        ELSE IF pts[k] \in Range(unique[k - 1]) THEN unique[k - 1]
        ELSE Append(unique[k - 1], pts[k])
  IN unique[Len(pts)]

TargetCoordinates(g) == UniquePoints(g.pts)

-----------------------------------------------------------------------------
(* CommonBits: the high bits that a sequence of numbers share, taken of the *)
(* numbers converted to 64-bit integers.  The masks are built by shifting    *)
(* an int, which is 32 bits wide: a shift by 32 or more is undefined and,     *)
(* on the processors the library is built for, either wraps (shiftsWrap) or  *)
(* gives 0.                                                                  *)

\* 2^k
Pow2[k \in 0..30] == IF k = 0 THEN 1 ELSE 2 * Pow2[k - 1]

\* Bit i of the two's complement of n, for |n| < 2^30.
BitAt(n, i) == IF i > 30 THEN n < 0 ELSE (n \div Pow2[i]) % 2 = 1

\* getBit(n, i): (1 << i) as an int, its sign extended to the 64 bits of n.
GetBit(n, i) ==
  LET s == IF shiftsWrap THEN i % 32 ELSE i IN
  CASE s < 31 -> BitAt(n, s)
    [] s = 31 -> n < 0
    [] s > 31 -> FALSE

\* The scan stops at the first bit that differs, from bit 52 down.
NumCommonMostSigMantissaBits(n1, n2) ==
  LET differ == {i \in 0..52 : GetBit(n1, i) # GetBit(n2, i)} IN
  IF differ = {} THEN 52 ELSE 52 - Max(differ)

\* bits & ~((1 << nBits) - 1); a mask of a shift that gives 0 is 0, too, and
\* the mask of 31 bits only ever meets bits = 0.
ZeroLowerBits(bits, nBits) ==
  LET s == IF shiftsWrap THEN nBits % 32 ELSE nBits IN
  IF s <= 30 THEN bits - (bits % Pow2[s]) ELSE 0

SignExpBits(n) == n < 0

(* CommonBits::add: common is what the numbers before n share, the first    *)
(* number's sign stays the one to compare with.                             *)
AddNumber(common, first, n) ==
  IF SignExpBits(n) # SignExpBits(first) THEN 0
  ELSE ZeroLowerBits(common, 64 - (12 + NumCommonMostSigMantissaBits(common, n)))

(* getCommon after add has been called with each of the numbers in turn.    *)
CommonOf(numbers) ==
  LET upTo[k \in 1..Len(numbers)] ==
        IF k = 1 THEN numbers[1]
        ELSE AddNumber(upTo[k - 1], numbers[1], numbers[k])
  IN upTo[Len(numbers)]

-----------------------------------------------------------------------------
Translate(g, v) ==
  [g EXCEPT !.pts = [k \in DOMAIN @ |-> <<@[k][1] + v[1], @[k][2] + v[2]>>]]
Minus(v) == <<-v[1], -v[2]>>

\* The conversion of a double to int64, towards zero.
Truncate(c) == IF c < 0 THEN -((-c) \div SCALE) ELSE c \div SCALE

\* The common coordinate of both operands, g0 added first.
CommonCoordinate(gs) ==
  LET pts == gs[1].pts \o gs[2].pts
      common(axis) ==
        SCALE * CommonOf([k \in DOMAIN pts |-> Truncate(pts[k][axis])])
  IN <<common(1), common(2)>>

RemoveCommonBits(g, common) == Translate(g, Minus(common))
AddCommonBits(g, common)    == Translate(g, common)

Snapped(g, other) ==
  [g EXCEPT !.pts = SnapTo(g.pts, TargetCoordinates(other))]

\* createLinearRing refuses a ring that is not closed.
Accepted(g) == g.ring => IsClosed(g.pts)

(* SnapOp's operands: the first snapped to the second, the second to the    *)
(* result.  Its own CommonBitsRemover has nothing added, and removes nothing. *)
SnapOperands(gs) ==
  LET s0 == Snapped(gs[1], gs[2]) IN <<s0, Snapped(gs[2], s0)>>

-----------------------------------------------------------------------------
Call(gs, isFixed, wraps) ==
  /\ attempt = "no"
  /\ operands' = gs
  /\ fixed' = isFixed
  /\ shiftsWrap' = wraps
  /\ attempt' = "original"
  /\ UNCHANGED <<commonCoord, ret, origException, thrown>>

Answer(gs) ==
  /\ ret' = [by |-> attempt, from |-> gs]
  /\ attempt' = "done"
  /\ UNCHANGED <<origException, thrown>>

GetsOut(kind) ==
  /\ thrown' = <<kind, attempt>>
  /\ attempt' = "done"
  /\ UNCHANGED <<ret, origException>>

CaughtAndTried(next) ==
  /\ attempt' = next
  /\ UNCHANGED <<ret, thrown>>

TryOriginal(outcome) ==
  /\ attempt = "original"
  /\ \/ outcome = "geometry" /\ Answer(operands)
     \/ outcome = "other" /\ GetsOut("other")
     \/ outcome = "topology" /\ CaughtAndTried("commonbits") /\ origException' = attempt
  /\ UNCHANGED <<operands, fixed, shiftsWrap, commonCoord>>

TryCommonBits(outcome) ==
  /\ attempt = "commonbits"
  /\ commonCoord' = CommonCoordinate(operands)
  /\ \/ /\ outcome = "geometry"
        /\ LET given == [k \in 1..2 |-> RemoveCommonBits(operands[k], commonCoord')]
           IN Answer([k \in 1..2 |-> AddCommonBits(given[k], commonCoord')])
     \/ outcome = "other" /\ GetsOut("other")
     \/ outcome = "topology" /\ CaughtAndTried("snapping") /\ UNCHANGED origException
  /\ UNCHANGED <<operands, fixed, shiftsWrap>>

TrySnapping(outcome) ==
  /\ attempt = "snapping"
  /\ commonCoord' = Origin
  /\ LET given == SnapOperands(operands) IN
       \/ /\ ~(Accepted(given[1]) /\ Accepted(given[2]))
          /\ GetsOut("illegal")
       \/ /\ Accepted(given[1]) /\ Accepted(given[2])
          /\ \/ outcome = "geometry" /\ Answer(given)
             \/ outcome = "other" /\ GetsOut("other")
             \/ outcome = "topology" /\ CaughtAndTried("fail") /\ UNCHANGED origException
  /\ UNCHANGED <<operands, fixed, shiftsWrap>>

ThrowOriginal ==
  /\ attempt = "fail"
  /\ thrown' = <<"topology", origException>>
  /\ attempt' = "done"
  /\ UNCHANGED <<operands, fixed, shiftsWrap, commonCoord, ret, origException>>

BinaryNext ==
  \/ \E gs \in Operands, isFixed, wraps \in BOOLEAN : Call(gs, isFixed, wraps)
  \/ \E outcome \in {"geometry", "topology", "other"} :
       TryOriginal(outcome) \/ TryCommonBits(outcome) \/ TrySnapping(outcome)
  \/ ThrowOriginal

BinarySpec == BinaryInit /\ [][BinaryNext]_binaryVars

-----------------------------------------------------------------------------
BinaryTypeOK ==
  /\ attempt \in {"no", "original", "commonbits", "snapping", "fail", "done"}
  /\ thrown = <<>> \/ thrown \in {"topology", "illegal", "other"} \X {"original", "commonbits", "snapping"}

Done == attempt = "done"

\* Snapped points keep the order of the points they come from: each of those
\* has an image within the tolerance (the last of a ring follows the first and
\* may then snap once more), and each point between two images is one of the
\* other operand near the segment it was put into.
SnapsOf(g, res, targets) ==
  LET n == Len(g.pts)
      m == Len(res)
      tolerance2(k) == IF ~fixed THEN 0 ELSE IF IsClosed(g.pts) /\ k = n THEN 4 ELSE 1
      near(i, a, b) == LET d == SegmentDist2(res[i], res[a], res[b]) IN Within(d[1], d[2])
  IN \E images \in kSubset(n, 1..m) :
       /\ \A i \in images :
            Dist2(res[i], g.pts[Cardinality({j \in images : j <= i})])
              <= tolerance2(Cardinality({j \in images : j <= i}))
       /\ \A i \in 1..m \ images :
            /\ res[i] \in targets
            /\ \E a \in 1..i - 1, b \in i + 1..m :
                 (a + 1..b - 1) \cap images = {} /\ near(i, a, b)

(* Whatever a try does to its operands is undone: an answer lies where the  *)
(* operands lie, and after snapping its points are the operands' points in   *)
(* their order, moved by no more than the tolerance, with points of the       *)
(* other operand between.                                                    *)
AnswerInPlace ==
  ret # NoResult =>
    IF ret.by \in {"original", "commonbits"} THEN ret.from = operands
    ELSE \A k \in 1..2 :
           SnapsOf(operands[k], ret.from[k].pts,
                   Range(operands[3 - k].pts) \cup Range(ret.from[3 - k].pts))

\* The smallest aligned block of integers with all the numbers in it.
Block(ns, b) == {n \div Pow2[b] : n \in ns}
(* The common coordinate is common: on each axis it lies in the smallest    *)
(* block of aligned integers that has all coordinates of both operands (or   *)
(* is zero when their signs differ), so that removing it leaves no more than *)
(* the size of that block.  Even a processor whose shifts wrap keeps this.  *)
SharedBitsRemoved ==
  attempt = "snapping" \/ (ret # NoResult /\ ret.by = "commonbits") =>
    \A axis \in 1..2 :
      LET ns == {Truncate(p[axis]) : p \in Range(operands[1].pts) \cup Range(operands[2].pts)}
          common == commonCoord[axis] \div SCALE
      IN IF \E n \in ns : \E m \in ns : n < 0 /\ m >= 0 THEN common = 0
         ELSE \A b \in 0..24 :
                Cardinality(Block(ns, b)) = 1 => Block({common}, b) = Block(ns, b)

(* An exception about topology gets out only when all three tries have met  *)
(* one, and it is that of the original operands; any other gets out at once, *)
(* and so nothing is both answered and thrown.                               *)
ThrowsTheOriginal ==
  Done =>
    /\ (ret = NoResult) # (thrown = <<>>)
    /\ thrown # <<>> /\ thrown[1] = "topology" => thrown[2] = "original"
    /\ thrown # <<>> /\ thrown[1] # "topology" =>
         (thrown[2] # "original") = (origException = "original")

(* A ring is refused after snapping only when the points it is snapped to   *)
(* lie within the tolerance of each other.                                  *)
OpensBetweenCloseTargets ==
  thrown # <<>> /\ thrown[1] = "illegal" =>
    LET s0 == Snapped(operands[1], operands[2])
        close(pts) == \E p, q \in Range(pts) : p # q /\ Within(Dist2(p, q), 1)
    IN \/ operands[1].ring /\ close(operands[2].pts)
       \/ operands[2].ring /\ close(s0.pts)

(* The retries of a binary operation keep the place of its operands, remove  *)
(* no more than what they share, open no ring but between close targets,    *)
(* and throw only when no try is left.                                      *)
RetriesSound ==
  BinaryTypeOK /\ AnswerInPlace /\ SharedBitsRemoved /\ ThrowsTheOriginal /\ OpensBetweenCloseTargets
=============================================================================
