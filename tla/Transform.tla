------------------------------ MODULE Transform ------------------------------
(***************************************************************************)
(* pj_transform and pj_datum_transform: an array of points is carried, in   *)
(* place, through the stages between two coordinate systems, while single   *)
(* points fail and the whole call may be given up half way.                 *)
(*                                                                          *)
(* A coordinate is abstracted to the frame it is expressed in: what form it *)
(* has, on which datum, from which meridian and in which unit.  A stage that *)
(* is applied to a coordinate in the wrong frame leaves one that means      *)
(* nothing, datum Lost.  pj_apply_gridshift is used by its contract.        *)
(***************************************************************************)
EXTENDS FiniteSetsExt, GridshiftContract

CONSTANTS
  System,    \* coordinate systems (PJ definitions), see SystemAssumption
  Lost       \* the datum of a coordinate a stage has made meaningless

Kinds == {"geocent", "latlong", "projected"}
DatumTypes == {"unknown", "3param", "7param", "gridshift", "wgs84"}

(* pm and unit are "" where from_greenwich is 0 and to_meter is 1; wrap is  *)
(* long_wrap_center in quarter turns; ell stands for a_orig and es_orig, as  *)
(* pj_ell_set and pj_init leave them: a > 0, 0 <= es and es # 1, or NaN.  So *)
(* pj_Set_Geocentric_Parameters, which fails if a <= 0, b <= 0 or a < b for  *)
(* b = a * sqrt(1 - es), accepts every ellipsoid of a system and WGS84, and  *)
(* the error returns that follow it are no steps of this module.            *)
IsSystem(s) ==
  /\ s.kind \in Kinds /\ s.type \in DatumTypes
  /\ s.pm \in STRING /\ s.unit \in STRING /\ s.params \in STRING
  /\ s.wrap \in -2..2 /\ s.inv \in BOOLEAN
  /\ s.type = "wgs84" => s.ell = "WGS84" /\ s.params = ""

ASSUME SystemAssumption == \A s \in System : IsSystem(s)

ASSUME PointsAssumption == MaxPoints \in Nat /\ HUGE # Lost

Native(s) == [type |-> s.type, ell |-> s.ell, params |-> s.params]
WGS84 == [type |-> "wgs84", ell |-> "WGS84", params |-> ""]

(* What no system and no stage calls a datum.                               *)
ASSUME LostAssumption == Lost \notin {Native(s) : s \in System} \cup {WGS84}

(* The frame coordinates of s come in and go out in.                        *)
Frame(s) == [form |-> s.kind, datum |-> Native(s), pm |-> s.pm,
             unit |-> IF s.kind = "geocent" THEN s.unit ELSE "",
             zunit |-> IF s.kind = "geocent" THEN s.unit ELSE "",
             turned |-> FALSE]

(* pj_errno values, one of each class the code tells apart: EDOM or ERANGE, *)
(* another errno, transient, fatal, and beyond the table of 45.             *)
EDOM == 33
EIO == 5
Transient == {-14, -15, -17, -18, -19, -20, -27, -38}
PJD_ERR_GEOCENTRIC == -45
Codes == {0, EDOM, EIO, -20, -6, PJD_ERR_GEOCENTRIC}

VARIABLES
  src, dst,  \* srcdefn and dstdefn
  hasZ,      \* whether the caller passed a z array
  pts,       \* the arrays x, y and z
  i,         \* loop index of the pj_inv and pj_fwd loops
  errno,     \* pj_errno
  ret,       \* the value returned
  pc,        \* the stage about to run
  unserved   \* history: some live point was left out by a grid shift

args == <<src, dst, hasZ>>
vars == <<args, pts, i, errno, ret, pc, unserved>>

Stages == {"idle", "source", "inverse", "greenwich", "datum", "shiftsrc", "geocentric",
           "towgs84", "fromwgs84", "geodetic", "shiftdst", "meridian", "target",
           "forward"}

TypeOK ==
  /\ src \in System \cup {NULL} /\ dst \in System \cup {NULL}
  /\ hasZ \in BOOLEAN
  /\ Len(pts) <= MaxPoints
  /\ \A j \in DOMAIN pts : pts[j] = HUGE \/ pts[j].form \in Kinds
  /\ i \in 1..MaxPoints + 1
  /\ errno \in Codes \cup Transient
  /\ ret \in Codes \cup Transient
  /\ pc \in Stages
  /\ unserved \in BOOLEAN

Init ==
  /\ src = NULL /\ dst = NULL
  /\ hasZ = FALSE
  /\ pts = <<>>
  /\ i = 1
  /\ errno = 0 /\ ret = 0
  /\ pc = "idle"
  /\ unserved = FALSE

Goto(stage) == pc' = stage /\ i' = 1
Return(value) == ret' = value /\ Goto("idle")

Live == {j \in DOMAIN pts : pts[j] # HUGE}

(* Fault: HUGE_VAL is computed with like any coordinate.                    *)
EachUnchecked(stepped) ==
  [j \in DOMAIN pts |-> IF j \in Live THEN stepped[j] ELSE Frame(src)]

(* The points after a stage that took the ones still alive to stepped.      *)
Each(stepped) == [j \in DOMAIN pts |-> IF j \in Live THEN stepped[j] ELSE HUGE]

-----------------------------------------------------------------------------
(* What the arithmetic of one stage does to the frame of one point.         *)

Scale(p) == [p EXCEPT !.unit = ""]
Unscale(p) == [p EXCEPT !.unit = dst.unit]
InverseProjected(p) == [p EXCEPT !.form = "latlong"]
ForwardProjected(p) == [p EXCEPT !.form = "projected"]
ToGreenwich(p) == [p EXCEPT !.pm = ""]
ToMeridian(p) == [p EXCEPT !.pm = dst.pm]

(* Conversion on an ellipsoid, and moves between datums, make sense only    *)
(* from the frame they are meant for.                                       *)
OnEllipsoid(p, ell, form) ==
  [p EXCEPT !.form = form,
            !.datum = IF p.datum # Lost /\ p.datum.ell = ell /\ p.unit = ""
                      THEN p.datum ELSE Lost]
Move(p, from, to, form) ==
  [p EXCEPT !.datum = IF p.datum = from /\ p.form = form /\ p.pm = "" THEN to ELSE Lost]

-----------------------------------------------------------------------------
(* pj_transform up to the datum shift                                       *)

Call(s, d, z, n, huge) ==
  /\ pc = "idle"
  /\ dst = NULL
  /\ src' = s /\ dst' = d /\ hasZ' = z
  /\ pts' = [j \in 1..n |-> IF j \in huge THEN HUGE ELSE Frame(s)]
  /\ errno' = 0
  /\ ret' = 0
  /\ unserved' = FALSE
  /\ Goto("source")

(* The caller has taken the arrays; what was said of them is forgotten.     *)
Collect ==
  /\ pc = "idle"
  /\ dst # NULL
  /\ src' = NULL /\ dst' = NULL /\ hasZ' = FALSE
  /\ pts' = <<>>
  /\ errno' = 0 /\ ret' = 0
  /\ unserved' = FALSE
  /\ Goto("idle")

GeocentricNeedsZ ==
  /\ pc = "source"
  /\ src.kind = "geocent"
  /\ ~hasZ
  /\ errno' = PJD_ERR_GEOCENTRIC
  /\ Return(PJD_ERR_GEOCENTRIC)
  /\ UNCHANGED <<args, pts, unserved>>

(* x and y are scaled, z is not; then pj_geocentric_to_geodetic, which does  *)
(* not fail: see IsSystem.                                                  *)
SourceGeocentric ==
  /\ pc = "source"
  /\ src.kind = "geocent"
  /\ hasZ
  /\ LET Step(p) == OnEllipsoid(IF src.unit = "" THEN p ELSE Scale(p), src.ell, "latlong")
     IN  pts' = Each([j \in Live |-> Step(pts[j])])
  /\ Goto("greenwich")
  /\ UNCHANGED <<args, errno, ret, unserved>>

SourceLatLong ==
  /\ pc = "source"
  /\ src.kind = "latlong"
  /\ Goto("greenwich")
  /\ UNCHANGED <<args, pts, errno, ret, unserved>>

SourceNotInvertible ==
  /\ pc = "source"
  /\ src.kind = "projected"
  /\ ~src.inv
  /\ errno' = -17
  /\ Return(-17)
  /\ UNCHANGED <<args, pts, unserved>>

SourceProjected ==
  /\ pc = "source"
  /\ src.kind = "projected"
  /\ src.inv
  /\ Goto("inverse")
  /\ UNCHANGED <<args, pts, errno, ret, unserved>>

(* Whether an error of pj_inv or pj_fwd ends the whole call.                *)
Fatal(code) ==
  /\ code \notin {0, EDOM}
  /\ code > 0 \/ code < -44 \/ Len(pts) = 1 \/ code \notin Transient

(* The loop around pj_inv, ending in longitudes, and the one around pj_fwd.  *)
LoopEnds(next) ==
  /\ i > Len(pts)
  /\ Goto(next)
  /\ UNCHANGED <<pts, errno, ret>>

(* Fault: the loop does not move on from a failed point.                    *)
FailedBeforeForever ==
  /\ i <= Len(pts)
  /\ pts[i] = HUGE
  /\ UNCHANGED <<pts, i, errno, ret, pc>>

FailedBefore ==
  /\ i <= Len(pts)
  /\ pts[i] = HUGE
  /\ i' = i + 1
  /\ UNCHANGED <<pts, errno, ret, pc>>

Projected(stepped) ==
  /\ i \in Live
  /\ pts' = [pts EXCEPT ![i] = stepped]
  /\ errno' = 0
  /\ i' = i + 1
  /\ UNCHANGED <<ret, pc>>

(* Fault: the point keeps the coordinates it came with.                     *)
PointFailsUnmarked(code) ==
  /\ i \in Live
  /\ code # 0 /\ ~Fatal(code)
  /\ errno' = code
  /\ i' = i + 1
  /\ UNCHANGED <<pts, ret, pc>>

PointFails(code) ==
  /\ i \in Live
  /\ code # 0 /\ ~Fatal(code)
  /\ pts' = [pts EXCEPT ![i] = HUGE]
  /\ errno' = code
  /\ i' = i + 1
  /\ UNCHANGED <<ret, pc>>

CallFails(code) ==
  /\ i \in Live
  /\ Fatal(code)
  /\ errno' = code
  /\ Return(code)
  /\ UNCHANGED pts

Project(stage, next, stepped) ==
  /\ pc = stage
  /\ \/ LoopEnds(next) \/ FailedBefore \/ Projected(stepped)
     \/ \E code \in Codes : PointFails(code) \/ CallFails(code)
  /\ UNCHANGED <<args, unserved>>

InverseProject == Project("inverse", "greenwich", InverseProjected(pts[i]))

Greenwich ==
  /\ pc = "greenwich"
  /\ pts' = IF src.pm = "" THEN pts ELSE Each([j \in Live |-> ToGreenwich(pts[j])])
  /\ Goto("datum")
  /\ UNCHANGED <<args, errno, ret, unserved>>

-----------------------------------------------------------------------------
(* pj_datum_transform                                                       *)

(* Fault: two grid shifted datums are the same whatever their grids are.    *)
SameDatumIgnoringGrids(s, d) ==
  /\ s.type = d.type
  /\ s.ell = d.ell
  /\ s.type \in {"3param", "7param"} => s.params = d.params

(* pj_compare_datums                                                        *)
SameDatum(s, d) ==
  /\ s.type = d.type
  /\ s.ell = d.ell
  /\ s.type \in {"3param", "7param", "gridshift"} => s.params = d.params

DatumTransform ==
  /\ pc = "datum"
  /\ errno' = 0
  /\ IF "unknown" \in {src.type, dst.type} \/ SameDatum(src, dst)
     THEN Goto("meridian")
     ELSE Goto("shiftsrc")
  /\ UNCHANGED <<args, pts, ret, unserved>>

(* pj_apply_gridshift, by its contract and stopping at a HUGE_VAL, followed  *)
(* by CHECK_RETURN: -38 counts as transient, so no outcome ends the call.   *)
GridShifted(from, to) ==
  LET shifted == Each([j \in Live |-> Move(pts[j], from, to, "latlong")])
  IN  \E k \in DOMAIN pts \cup {0} :
        /\ 1..k \subseteq Live
        /\ pts' = [j \in DOMAIN pts |-> IF j <= k THEN shifted[j] ELSE pts[j]]
        /\ errno' \in {0, NoTable}
        /\ Outcome(pts, pts', errno', shifted)
        /\ unserved' = (unserved \/ \E j \in Live : j > k)

ShiftSource ==
  /\ pc = "shiftsrc"
  /\ IF src.type = "gridshift"
     THEN GridShifted(Native(src), WGS84)
     ELSE UNCHANGED <<pts, errno, unserved>>
  /\ Goto("geocentric")
  /\ UNCHANGED <<args, ret>>

(* src_a, src_es and dst_a, dst_es: a grid shift ends on WGS84.             *)
ShiftedEll(s) == IF s.type = "gridshift" THEN "WGS84" ELSE s.ell

ByParams(s) == s.type \in {"3param", "7param"}

SkipGeocentric ==
  /\ pc = "geocentric"
  /\ ShiftedEll(src) = ShiftedEll(dst) /\ ~ByParams(src) /\ ~ByParams(dst)
  /\ Goto("shiftdst")
  /\ UNCHANGED <<args, pts, errno, ret, unserved>>

(* pj_geodetic_to_geocentric: a latitude out of range costs the point only, *)
(* and the ellipsoid is never refused: see IsSystem.                        *)
ToGeocentric(ell, bad) ==
  /\ pts' = [j \in DOMAIN pts |->
               IF j \notin Live \/ j \in bad THEN HUGE
               ELSE OnEllipsoid(pts[j], ell, "geocent")]
  /\ errno' = IF bad = {} THEN 0 ELSE -14

Geocentric ==
  /\ pc = "geocentric"
  /\ ShiftedEll(src) # ShiftedEll(dst) \/ ByParams(src) \/ ByParams(dst)
  /\ \E bad \in SUBSET Live : ToGeocentric(ShiftedEll(src), bad)
  /\ Goto("towgs84")
  /\ UNCHANGED <<args, ret, unserved>>

ToWGS84 ==
  /\ pc = "towgs84"
  /\ IF ByParams(src)
     THEN LET Step(p) == Move(p, Native(src), WGS84, "geocent")
          IN  pts' = Each([j \in Live |-> Step(pts[j])]) /\ errno' = 0
     ELSE UNCHANGED <<pts, errno>>
  /\ Goto("fromwgs84")
  /\ UNCHANGED <<args, ret, unserved>>

FromWGS84 ==
  /\ pc = "fromwgs84"
  /\ IF ByParams(dst)
     THEN LET Step(p) == Move(p, WGS84, Native(dst), "geocent")
          IN  pts' = Each([j \in Live |-> Step(pts[j])]) /\ errno' = 0
     ELSE UNCHANGED <<pts, errno>>
  /\ Goto("geodetic")
  /\ UNCHANGED <<args, ret, unserved>>

Geodetic ==
  /\ pc = "geodetic"
  /\ LET Step(p) == OnEllipsoid(p, ShiftedEll(dst), "latlong")
     IN  pts' = Each([j \in Live |-> Step(pts[j])])
  /\ Goto("shiftdst")
  /\ UNCHANGED <<args, errno, ret, unserved>>

ShiftDestination ==
  /\ pc = "shiftdst"
  /\ IF dst.type = "gridshift"
     THEN GridShifted(WGS84, Native(dst))
     ELSE UNCHANGED <<pts, errno, unserved>>
  /\ Goto("meridian")
  /\ UNCHANGED <<args, ret>>

-----------------------------------------------------------------------------
(* pj_transform after the datum shift                                       *)

Meridian ==
  /\ pc = "meridian"
  /\ pts' = IF dst.pm = "" THEN pts ELSE Each([j \in Live |-> ToMeridian(pts[j])])
  /\ Goto("target")
  /\ UNCHANGED <<args, errno, ret, unserved>>

TargetNeedsZ ==
  /\ pc = "target"
  /\ dst.kind = "geocent"
  /\ ~hasZ
  /\ errno' = PJD_ERR_GEOCENTRIC
  /\ Return(PJD_ERR_GEOCENTRIC)
  /\ UNCHANGED <<args, pts, unserved>>

(* pj_geodetic_to_geocentric, whose result is not looked at; then x and y   *)
(* are scaled, z is not.                                                    *)
TargetGeocentric ==
  /\ pc = "target"
  /\ dst.kind = "geocent"
  /\ hasZ
  /\ \E bad \in SUBSET Live :
       /\ pts' = [j \in DOMAIN pts |->
                    IF j \notin Live \/ j \in bad THEN HUGE
                    ELSE LET p == OnEllipsoid(pts[j], dst.ell, "geocent")
                         IN  IF dst.unit = "" THEN p ELSE Unscale(p)]
       /\ errno' = IF bad = {} THEN 0 ELSE -14
  /\ Return(0)
  /\ UNCHANGED <<args, unserved>>

TargetProjected ==
  /\ pc = "target"
  /\ dst.kind = "projected"
  /\ Goto("forward")
  /\ UNCHANGED <<args, pts, errno, ret, unserved>>

ForwardProject == Project("forward", "idle", ForwardProjected(pts[i]))

(* Longitudes in quarter turns: PI is 2 and HALFPI is 1.                    *)
HALFPI == 1
Longitudes == -3..3

(* The two while loops: up by PI into the window, then down by PI.          *)
Rewrapped(lon, centre) ==
  LET up == Min({lon + 2 * k : k \in 0..4} \cap (IF lon < centre - HALFPI
                                                THEN centre - HALFPI..9 ELSE {lon}))
  IN  Max({up - 2 * k : k \in 0..4} \cap (IF up > centre + HALFPI
                                          THEN -9..centre + HALFPI ELSE {up}))

TargetLatLong ==
  /\ pc = "target"
  /\ dst.kind = "latlong"
  /\ IF dst.wrap = 0
     THEN pts' = pts
     ELSE \E lon \in [DOMAIN pts -> Longitudes] :
            pts' = [j \in DOMAIN pts |->
                      IF pts[j] = HUGE THEN HUGE
                      ELSE [pts[j] EXCEPT !.turned = (Rewrapped(lon[j], dst.wrap) - lon[j]) % 4 # 0]]
  /\ Return(0)
  /\ UNCHANGED <<args, errno, unserved>>

-----------------------------------------------------------------------------
DatumStep == DatumTransform \/ ShiftSource \/ SkipGeocentric \/ Geocentric \/ ToWGS84
             \/ FromWGS84 \/ Geodetic \/ ShiftDestination

SourceStep == GeocentricNeedsZ \/ SourceGeocentric \/ SourceLatLong \/ SourceNotInvertible
              \/ SourceProjected \/ InverseProject \/ Greenwich

TargetStep == Meridian \/ TargetNeedsZ \/ TargetGeocentric \/ TargetProjected \/ ForwardProject
              \/ TargetLatLong

Step == SourceStep \/ DatumStep \/ TargetStep

Next ==
  \/ \E s, d \in System, z \in BOOLEAN, n \in 1..MaxPoints :
       \E huge \in SUBSET (1..n) : Call(s, d, z, n, huge)
  \/ Collect
  \/ Step

(* The calling thread runs a call to its end.                               *)
Spec == Init /\ [][Next]_vars /\ WF_vars(Step)

-----------------------------------------------------------------------------
Done == pc = "idle" /\ ret = 0 /\ dst # NULL
KnownDatums == src.type # "unknown" /\ dst.type # "unknown"

(* A frame in all but the unit of z, which geocentric units leave in metres, *)
(* and the half turns +lon_wrap may add: TargetGeocentric and Rewrapped      *)
(* model what the code does there, not what it should.                      *)
InFrame(p, s) ==
  LET f == Frame(s)
  IN  p.form = f.form /\ p.datum = f.datum /\ p.pm = f.pm /\ p.unit = f.unit

(* Success means arrival: whichever pair of systems, each point that is not *)
(* HUGE_VAL has been taken to the destination's form, datum, meridian and   *)
(* unit, by stages each applied to the frame it is meant for.  Points that  *)
(* a grid shift left out are excepted, see ServedOnSuccess.  With a datum   *)
(* nobody knows the call still delivers the right form and meridian, and    *)
(* leaves the datum alone.                                                  *)
ArrivesOnSuccess ==
  Done => \A j \in Live :
    LET p == pts[j]
    IN  IF KnownDatums THEN unserved \/ InFrame(p, dst)
        ELSE p.form = dst.kind /\ p.pm = dst.pm /\ p.datum \in {Native(src), Lost}

(* A point that failed stays HUGE_VAL through all later stages of the call. *)
HugeStays ==
  [][pc # "idle" => \A j \in DOMAIN pts : pts[j] = HUGE => pts'[j] = HUGE]_vars

(* While points are projected one by one no later point is ahead of an      *)
(* earlier one, so a call given up half way leaves a prefix of the arrays   *)
(* in the next form and the rest in the previous one, none in between.      *)
Depth(p) ==
  CASE p.form = src.kind /\ pc \in {"source", "inverse"} -> 0
    [] p.form = "latlong" -> 1
    [] OTHER -> 2

InOrder ==
  pc \in {"inverse", "forward"} =>
    \A j, k \in Live : j < k => Depth(pts[j]) >= Depth(pts[k])

(* The call at every moment: the state is of its type, and a call given up  *)
(* half way leaves the arrays as InOrder says.                              *)
TransformSound == TypeOK /\ InOrder

(* Every call returns.                                                      *)
CallReturns == (pc # "idle") ~> (pc = "idle")

(* man/man3/pj_init.3: the arrays "are replaced with the output values", and *)
(* zero is returned on success.                                             *)
ServedOnSuccess ==
  Done /\ KnownDatums => \A j \in Live : InFrame(pts[j], dst)
=============================================================================
