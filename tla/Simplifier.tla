------------------------------ MODULE Simplifier ------------------------------
(***************************************************************************)
(* simplify::TopologyPreservingSimplifier on the lines and rings of one     *)
(* geometry, [ring |-> BOOLEAN, pts |-> points], none of them empty.  The    *)
(* lines come from a map by address, so in any order; all share an index of *)
(* the segments that are still as they were and one of those that replace   *)
(* flattened sections.  Both indexes are sets here: Indexes checks the       *)
(* quadtree that they are.  Points have small integer coordinates.           *)
(***************************************************************************)
EXTENDS Plane

CONSTANTS
  Drawings,   \* the geometries to simplify, sequences of lines
  Tolerances, \* the distances, not negative
  NoDrawing

Point == Int \X Int

(* The constructors of lines and rings refuse fewer points.                  *)
ASSUME DrawingsAssumption ==
  /\ NoDrawing \notin Drawings
  /\ Tolerances \subseteq Int
  /\ \A lines \in Drawings :
       /\ lines \in Seq([ring : BOOLEAN, pts : Seq(Point)])
       /\ \A l \in DOMAIN lines : Len(lines[l].pts) >= IF lines[l].ring THEN 4 ELSE 2

VARIABLES
  drawing,
  distanceTolerance,
  waiting,     \* the lines not yet begun
  line,        \* the line in work
  sections,    \* its sections to simplify, the innermost call first
  resultSegs,  \* of each line, as pairs of indexes of its points
  inputIndex,  \* segments <<line, index of the first point>>
  outputIndex  \* segments <<point, point>>

simplifierVars ==
  <<drawing, distanceTolerance, waiting, line, sections, resultSegs, inputIndex, outputIndex>>

SimplifierInit ==
  /\ drawing = NoDrawing
  /\ distanceTolerance = 0
  /\ waiting = {}
  /\ line = 0
  /\ sections = <<>>
  /\ resultSegs = <<>>
  /\ inputIndex = {}
  /\ outputIndex = {}

-----------------------------------------------------------------------------
(* LineIntersector: do two segments meet in a point that is not an end of   *)
(* both?  Equal segments do not.                                            *)
InteriorTo(p, seg) ==
  /\ p \notin Range(seg)
  /\ Turn(seg[1], seg[2], p) = 0
  /\ EnvelopeContains(seg, <<p>>)
Across(seg, p, q) ==
  LET a == Turn(seg[1], seg[2], p)
      b == Turn(seg[1], seg[2], q)
  IN (a > 0 /\ b < 0) \/ (a < 0 /\ b > 0)
HasInteriorIntersection(seg0, seg1) ==
  \/ \E p \in Range(seg0) : InteriorTo(p, seg1)
  \/ \E p \in Range(seg1) : InteriorTo(p, seg0)
  \/ Across(seg0, seg1[1], seg1[2]) /\ Across(seg1, seg0[1], seg0[2])

\* The index of the first of the points between i and j that are furthest from
\* the segment between these two, and whether that is within the tolerance.
Distance2(pts, k, i, j) == SegmentDist2(pts[k], pts[i], pts[j])
FindFurthestPoint(pts, i, j) ==
  CHOOSE k \in i + 1..j - 1 : \A m \in i + 1..j - 1 :
    /\ ~Closer(Distance2(pts, k, i, j), Distance2(pts, m, i, j))
    /\ m < k => Closer(Distance2(pts, m, i, j), Distance2(pts, k, i, j))
AllNear(pts, i, j, tolerance) ==
  \A k \in i + 1..j - 1 :
    LET d == Distance2(pts, k, i, j) IN d[1] <= Sq(tolerance) * d[2]

-----------------------------------------------------------------------------
Pts(l) == drawing[l].pts
SegmentAt(l, k) == <<Pts(l)[k], Pts(l)[k + 1]>>
Chord(l, s) == <<Pts(l)[s[1]], Pts(l)[s[2]]>>

MinimumSize(l) == IF drawing[l].ring THEN 4 ELSE 2
ResultSize(l)  == IF resultSegs[l] = <<>> THEN 0 ELSE Len(resultSegs[l]) + 1

\* Could the line end with too few points if this section were flattened?
TooFewPoints(l, depth) == ResultSize(l) < MinimumSize(l) /\ depth + 1 < MinimumSize(l)

HasBadOutputIntersection(seg) == \E other \in outputIndex : HasInteriorIntersection(other, seg)

IsInLineSection(l, i, j, s) == s[1] = l /\ s[2] \in i..j - 1
HasBadInputIntersection(l, i, j, seg) ==
  \E s \in inputIndex :
    /\ HasInteriorIntersection(SegmentAt(s[1], s[2]), seg)
    /\ ~IsInLineSection(l, i, j, s)

(* Fault: what replaced other sections is not looked at.                    *)
HasBadIntersectionOfInput(l, i, j) == HasBadInputIntersection(l, i, j, Chord(l, <<i, j>>))

HasBadIntersection(l, i, j) ==
  LET seg == Chord(l, <<i, j>>) IN
  HasBadOutputIntersection(seg) \/ HasBadInputIntersection(l, i, j, seg)

IsValidToSimplify(l, s) ==
  /\ ~TooFewPoints(l, s.depth)
  /\ AllNear(Pts(l), s.i, s.j, distanceTolerance)
  /\ ~HasBadIntersection(l, s.i, s.j)

-----------------------------------------------------------------------------
(* setDistanceTolerance refuses a negative tolerance.                       *)
Simplify(lines, tolerance) ==
  /\ drawing = NoDrawing
  /\ tolerance >= 0
  /\ drawing' = lines
  /\ distanceTolerance' = tolerance
  /\ waiting' = DOMAIN lines
  /\ resultSegs' = [l \in DOMAIN lines |-> <<>>]
  /\ inputIndex' = UNION {{l} \X (1..Len(lines[l].pts) - 1) : l \in DOMAIN lines}
  /\ UNCHANGED <<line, sections, outputIndex>>

SimplifyLine(l) ==
  /\ sections = <<>>
  /\ l \in waiting
  /\ waiting' = waiting \ {l}
  /\ line' = l
  /\ sections' = << [i |-> 1, j |-> Len(Pts(l)), depth |-> 1] >>
  /\ UNCHANGED <<drawing, distanceTolerance, resultSegs, inputIndex, outputIndex>>

AddToResult(s) == resultSegs' = [resultSegs EXCEPT ![line] = Append(@, <<s.i, s.j>>)]

(* A single segment stays in the input index.                               *)
KeepSegment ==
  /\ sections # <<>>
  /\ LET s == Head(sections) IN s.j = s.i + 1 /\ AddToResult(s)
  /\ sections' = Tail(sections)
  /\ UNCHANGED <<drawing, distanceTolerance, waiting, line, inputIndex, outputIndex>>

Flatten ==
  /\ sections # <<>>
  /\ LET s == Head(sections) IN
       /\ s.j > s.i + 1
       /\ IsValidToSimplify(line, s)
       /\ AddToResult(s)
       /\ inputIndex' = inputIndex \ ({line} \X (s.i..s.j - 1))
       /\ outputIndex' = outputIndex \cup {Chord(line, <<s.i, s.j>>)}
  /\ sections' = Tail(sections)
  /\ UNCHANGED <<drawing, distanceTolerance, waiting, line>>

SplitSection ==
  /\ sections # <<>>
  /\ LET s == Head(sections)
         k == FindFurthestPoint(Pts(line), s.i, s.j)
     IN /\ s.j > s.i + 1
        /\ ~IsValidToSimplify(line, s)
        /\ sections' = << [s EXCEPT !.j = k, !.depth = @ + 1],
                          [s EXCEPT !.i = k, !.depth = @ + 1] >> \o Tail(sections)
  /\ UNCHANGED <<drawing, distanceTolerance, waiting, line, resultSegs, inputIndex, outputIndex>>

SimplifierNext ==
  \/ \E lines \in Drawings, tolerance \in Tolerances : Simplify(lines, tolerance)
  \/ \E l \in waiting : SimplifyLine(l)
  \/ KeepSegment
  \/ Flatten
  \/ SplitSection

SimplifierSpec == SimplifierInit /\ [][SimplifierNext]_simplifierVars

-----------------------------------------------------------------------------
(* DouglasPeuckerLineSimplifier: the sections it leaves of a section, and of *)
(* a line.                                                                  *)
PeuckerSections(pts, tolerance) ==
  LET left[s \in (1..Len(pts)) \X (1..Len(pts))] ==
        IF s[2] = s[1] + 1 \/ AllNear(pts, s[1], s[2], tolerance) THEN {s}
        ELSE LET k == FindFurthestPoint(pts, s[1], s[2])
             IN left[<<s[1], k>>] \cup left[<<k, s[2]>>]
  IN left
DouglasPeucker(pts, tolerance) == PeuckerSections(pts, tolerance)[<<1, Len(pts)>>]

-----------------------------------------------------------------------------
Simplified == drawing # NoDrawing /\ waiting = {} /\ sections = <<>>

\* The geometry as it stands: the sections replaced, and the input segments in
\* none of them.
Replaced(l) == {s \in Range(resultSegs[l]) : s[2] > s[1] + 1}
InSection(k, s) == k \in s[1]..s[2] - 1
Untouched(l) ==
  {<<k, k + 1>> : k \in {m \in 1..Len(Pts(l)) - 1 : \A s \in Replaced(l) : ~InSection(m, s)}}
DrawnLines == IF drawing = NoDrawing THEN {} ELSE DOMAIN drawing

SimplifierTypeOK == waiting \cup (IF sections = <<>> THEN {} ELSE {line}) \subseteq DrawnLines

(* The indexes hold what stands: what replaced sections, and the rest.      *)
IndexesAreCurrent ==
  /\ inputIndex = UNION {{<<l, s[1]>> : s \in Untouched(l)} : l \in DrawnLines}
  /\ outputIndex = UNION {{Chord(l, r) : r \in Replaced(l)} : l \in DrawnLines}

(* Whatever the order of the lines, a segment that replaces a section meets *)
(* all else that stands, simplified or not yet, in common ends only, unless  *)
(* it coincides with it, from the moment it is made.                         *)
NoNewCrossing ==
  \A l \in DrawnLines : \A r \in Replaced(l) :
    \A m \in DrawnLines : \A s \in Replaced(m) \cup Untouched(m) :
      ~HasInteriorIntersection(Chord(l, r), Chord(m, s))

(* The segments of a line follow each other from its first to its last      *)
(* point, each within the tolerance of the points it passes, and a ring      *)
(* keeps four points.                                                        *)
LinesKeepShape ==
  \A l \in DrawnLines :
    /\ \A k \in DOMAIN resultSegs[l] :
         LET s == resultSegs[l][k] IN
         /\ s[1] = IF k = 1 THEN 1 ELSE resultSegs[l][k - 1][2]
         /\ AllNear(Pts(l), s[1], s[2], distanceTolerance)
    /\ Simplified =>
         /\ Last(resultSegs[l])[2] = Len(Pts(l))
         /\ drawing[l].ring => Len(resultSegs[l]) >= 3

\* The sections of Douglas-Peucker, and whether none of them is in the way of
\* another or of what the lines were.
Peucker(l) == DouglasPeucker(Pts(l), distanceTolerance)
NothingInTheWay ==
  \A l \in DrawnLines : ~drawing[l].ring /\ \A s \in Peucker(l) :
    \A m \in DrawnLines :
      /\ \A r \in Peucker(m) : ~HasInteriorIntersection(Chord(l, s), Chord(m, r))
      /\ \A k \in 1..Len(Pts(m)) - 1 :
           (m = l /\ InSection(k, s)) \/ ~HasInteriorIntersection(Chord(l, s), SegmentAt(m, k))

(* No point goes that the Douglas-Peucker algorithm would keep, and lines of *)
(* which nothing is in the way become exactly what it makes of them.         *)
RefinesDouglasPeucker ==
  Simplified =>
    \A l \in DrawnLines :
      /\ \A s \in Range(resultSegs[l]) : \E r \in Peucker(l) : r[1] <= s[1] /\ s[2] <= r[2]
      /\ NothingInTheWay => Range(resultSegs[l]) = Peucker(l)

(* The simplifier adds no intersection, keeps ends, rings and the tolerance, *)
(* and simplifies no further than Douglas-Peucker does.                      *)
SimplifiedSafely ==
  SimplifierTypeOK /\ IndexesAreCurrent /\ NoNewCrossing /\ LinesKeepShape /\ RefinesDouglasPeucker
=============================================================================
